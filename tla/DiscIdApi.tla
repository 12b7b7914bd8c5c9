------------------------------ MODULE DiscIdApi ------------------------------
(***************************************************************************)
(* What discid.h promises of a handle: it holds a disc, or the reason why  *)
(* there is none, and every question is answered from that disc alone.     *)
(* There are no caches here, no half-cleared structure and no flags.       *)
(* Where memory is scarce the library does less than the header says: a    *)
(* text may lack its TOC, and the program may end.                         *)
(***************************************************************************)
EXTENDS DiscText

VARIABLES scarce,   \* whether an allocation may fail; never changes
          state,    \* "absent", "unset", "loaded", "failed" or "undefined"
          disc,     \* the tracks of the disc that is loaded
          codes,    \* its MCN and the ISRCs of its tracks
          reason,   \* why the last call failed
          result    \* the last call and what it returned

Disc == [first: Int, last: Int, offsets: Offsets]
NoCodes == [mcn |-> NoText, isrc |-> [k \in Slot |-> NoText]]

(* However a disc came into the handle, the numbers of its tracks start at *)
(* 1 or later and the last track does not start behind the lead-out.       *)
Sane(d) == 1 <= d.first /\ d.last \in Slot /\ d.offsets[d.last] <= d.offsets[0]

(* Questions about the disc, and questions about a track of it.            *)
DiscQuestion == TextField \cup {"first", "last", "sectors", "mcn"}
TrackQuestion == {"offset", "length", "isrc"}
Question == (DiscQuestion \X {0}) \cup (TrackQuestion \X Slot)

Answered(question, k, value) == result' = <<"answer", <<question, k>>, value>>

-----------------------------------------------------------------------------
Nothing(s) == state' = s /\ disc' = BlankDisc /\ codes' = NoCodes

Exists == state \in {"unset", "loaded", "failed"}

Init ==
    /\ scarce \in BOOLEAN
    /\ state = "absent" /\ disc = BlankDisc /\ codes = NoCodes
    /\ reason = "none" /\ result = <<>>

New ==
    /\ state = "absent"
    /\ \/ Nothing("unset") /\ result' = <<"new">>
       \/ scarce /\ Nothing("absent") /\ result' = <<"null", "new">>
    /\ reason' = "none"

Free ==
    /\ Exists
    /\ Nothing("absent") /\ reason' = "none"
    /\ result' = <<"free">>

(* discid_read, discid_read_sparse and discid_put, with and without luck.  *)
Load ==
    /\ Exists
    /\ state' = "loaded" /\ reason' = "none"
    /\ disc' \in Disc /\ Sane(disc')
    /\ \A k \in Slot \ (disc'.first..disc'.last) : codes'.isrc[k] = NoText
    /\ result' = <<"load", 1>>

Fail ==
    /\ Exists
    /\ Nothing("failed") /\ reason' # "none"
    /\ result' = <<"load", 0>>

AnsweredText(f, whole) ==
    \/ Answered(f, 0, whole)
    \/ scarce /\ f \in NeedsToc /\ Answered(f, 0, WithoutToc(f, whole))

Ask ==
    /\ state = "loaded"
    /\ \/ \E f \in TextField : AnsweredText(f, TextOf(disc, f, DiscIdOf(disc)))
       \/ Answered("first", 0, <<disc.first>>)
       \/ Answered("last", 0, <<disc.last>>)
       \/ Answered("sectors", 0, <<disc.offsets[0]>>)
       \/ Answered("mcn", 0, codes.mcn)
       \/ \E k \in disc.first..disc.last :
             \/ Answered("offset", k, <<disc.offsets[k]>>)
             \/ Answered("length", k, <<LengthOf(disc, k)>>)
             \/ Answered("isrc", k, codes.isrc[k])
    /\ UNCHANGED <<state, disc, codes, reason>>

Explain ==
    /\ Exists
    /\ result' = <<"reason", reason>>
    /\ UNCHANGED <<state, disc, codes, reason>>

(* What the disc in the handle, if any, cannot be asked has no answer in a *)
(* release build and ends the program in a debug build.                    *)
Misuse ==
    /\ Exists
    /\ \E question \in Question :
          /\ state = "loaded" =>
                question[1] \in TrackQuestion /\ question[2] \notin disc.first..disc.last
          /\ \/ /\ result' = <<"null", question>>
                /\ UNCHANGED <<state, disc, codes, reason>>
             \/ /\ result' = <<"abort", question>>
                /\ Nothing("absent") /\ reason' = "none"

(* No memory for the id.                                                   *)
Die ==
    /\ scarce /\ state = "loaded"
    /\ state' = "undefined"
    /\ UNCHANGED <<disc, codes, reason, result>>

Next ==
    /\ New \/ Free \/ Load \/ Fail \/ Ask \/ Explain \/ Misuse \/ Die
    /\ UNCHANGED scarce

Spec == Init /\ [][Next]_<<scarce, state, disc, codes, reason, result>>
=============================================================================
