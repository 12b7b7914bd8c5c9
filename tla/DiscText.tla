------------------------------- MODULE DiscText -------------------------------
(***************************************************************************)
(* The answers of the library as functions of the disc they are about.     *)
(* A text is the sequence of the values printed into it: the separators    *)
(* and fixed widths of the formats keep different values apart, and SHA-1  *)
(* is taken to do the same for what it is fed.  The empty text, all that   *)
(* the lazy getters look for, is the empty sequence; so is no codes.       *)
(***************************************************************************)
EXTENDS DiscToc, Sequences

CONSTANTS MAX_DISC_LENGTH,  \* 405000 sectors
          SECOND            \* 75 sectors

ASSUME TextConstants == MAX_DISC_LENGTH \in Nat /\ SECOND \in Nat \ {0}

NoText == <<>>
Offsets == [Slot -> Int]

(* create_disc_id hashes every slot, those outside first..last included.   *)
DiscIdOf(d) == <<d.first, d.last, d.offsets>>

(* The division of C, towards zero.                                        *)
Quotient(a, b) == IF a >= 0 THEN a \div b ELSE -((-a) \div b)

DigitSum[n \in Nat] == IF n = 0 THEN 0 ELSE (n % 10) + DigitSum[n \div 10]

(* The seconds at which the tracks up to the k-th start, digit by digit    *)
(* (what is not positive has no digits), are summed for k = 1..last.       *)
StartDigits(d, k) == IF d.offsets[k] > 0 THEN DigitSum[d.offsets[k] \div SECOND] ELSE 0

StartSums(d) ==
    LET sum[k \in 0..d.last] == IF k = 0 THEN 0 ELSE sum[k - 1] + StartDigits(d, k)
    IN  sum

StartSum(d) == StartSums(d)[d.last]

(* The three fields of a FreeDB ID: that sum, the playing time, and the    *)
(* number of the last track.                                               *)
FreedbIdOf(d) ==
    <<StartSum(d) % 255,
      Quotient(d.offsets[0], SECOND) - Quotient(d.offsets[1], SECOND),
      d.last>>

(* create_toc_string: all that a user is told about the disc.              *)
TocStringOf(d) ==
    <<d.first, d.last, d.offsets[0], [k \in d.first..d.last |-> d.offsets[k]]>>

(* The URLs contain the id as discid_get_id returns it, cached or not.     *)
SubmissionUrlOf(d, id) == <<id, d.last, TocStringOf(d)>>
WebserviceUrlOf(d, id) == <<id, TocStringOf(d)>>

TextField == {"id", "freedb_id", "toc_string", "submission_url", "webservice_url"}

TextOf(d, field, id) ==
    CASE field = "id"             -> DiscIdOf(d)
      [] field = "freedb_id"      -> FreedbIdOf(d)
      [] field = "toc_string"     -> TocStringOf(d)
      [] field = "submission_url" -> SubmissionUrlOf(d, id)
      [] field = "webservice_url" -> WebserviceUrlOf(d, id)

(* The texts that are made with memory of create_toc_string, and what is   *)
(* left of them when it gets none: nothing, or a URL that ends early.      *)
UrlField == {"submission_url", "webservice_url"}
NeedsToc == {"toc_string"} \cup UrlField

WithoutToc(field, t) ==
    IF field = "toc_string" THEN NoText ELSE SubSeq(t, 1, Len(t) - 1)

LengthOf(d, k) ==
    (IF k < d.last THEN d.offsets[k + 1] ELSE d.offsets[0]) - d.offsets[k]

(* discid_put refuses what cannot be a disc; "none" is no refusal.  An     *)
(* offsets of NoOffsetsGiven is the null pointer.                          *)
NoOffsetsGiven == <<>>

(* Mutant: the order is only looked at from the third track on.            *)
BadOffsetsFromThird(last, offsets) ==
    {k \in 0..last : \/ offsets[k] > offsets[0]
                    \/ (k > 2 /\ offsets[k - 1] > offsets[k])}

BadOffsets(last, offsets) ==
    {k \in 0..last : \/ offsets[k] > offsets[0]
                    \/ (k > 1 /\ offsets[k - 1] > offsets[k])}

(* Why discid_put refuses, "none" when it does not.                        *)
PutRefusal(first, last, offsets) ==
    IF first > last \/ first < 1 \/ last > MAX_TRACK THEN "illegal_track_limits"
    ELSE IF offsets = NoOffsetsGiven THEN "no_offsets_given"
    ELSE IF offsets[0] > MAX_DISC_LENGTH THEN "disc_too_long"
    ELSE IF BadOffsets(last, offsets) = {} THEN "none"
    ELSE LET bad == CHOOSE k \in BadOffsets(last, offsets) :
                        \A j \in BadOffsets(last, offsets) : k <= j
         IN  IF offsets[bad] > offsets[0] THEN "invalid_offset" ELSE "invalid_order"

(* Mutants: the last track is stored as the end of the tracks; all slots   *)
(* the client gave, or one too few, are copied.                            *)
PutDiscExclusive(first, last, offsets) ==
    [first |-> first, last |-> last + 1, offsets |-> offsets]

PutDiscWhole(first, last, offsets) ==
    [first |-> first, last |-> last, offsets |-> offsets]

PutDiscButLast(first, last, offsets) ==
    [first   |-> first,
     last    |-> last,
     offsets |-> [k \in Slot |-> IF k < last THEN offsets[k] ELSE 0]]

(* What discid_put stores: every slot up to last, those before the first   *)
(* track included.                                                         *)
PutDisc(first, last, offsets) ==
    [first   |-> first,
     last    |-> last,
     offsets |-> [k \in Slot |-> IF k <= last THEN offsets[k] ELSE 0]]
=============================================================================
