------------------------------- MODULE MakeText -------------------------------
(***************************************************************************)
(* How the texts of a disc are made (src/disc.c): the loops that print     *)
(* them, character by character as far as room is concerned, into the      *)
(* arrays of mb_disc_private and the memory of create_toc_string.          *)
(*                                                                         *)
(* DiscText says what each text is a function of; here it is shown to be   *)
(* printed.  A text is again the sequence of the values printed, beside    *)
(* the number of characters they take.  What happens after more was        *)
(* written than there is room for is undefined, and a job stops there.     *)
(* sha1.c and base64.c are written for any client: the jobs "hash" and     *)
(* "encode" stand for clients that the repository does not have, beside    *)
(* create_disc_id, which it does.                                          *)
(* Memory is there if it can be; DiscHandle has what happens when it runs  *)
(* out.                                                                    *)
(***************************************************************************)
EXTENDS DiscText, Sha1Feed, Base64

CONSTANTS Discs,        \* what a handle may hold when it is asked
          Digests,      \* what SHA-1 may answer
          Messages,     \* lengths of the pieces other clients hash
          Sources,      \* what other clients encode
          PROTOCOL,     \* characters of MB_URL_PROTOCOL: "http", "https"
          MB_TOC_STRING_LENGTH, MB_DISC_ID_LENGTH, FREEDB_DISC_ID_LENGTH,
          MB_URL_PREFIX_LENGTH

MB_MAX_URL_LENGTH == MB_URL_PREFIX_LENGTH + MB_DISC_ID_LENGTH + MB_TOC_STRING_LENGTH

(* What a handle holds after a read or a put: the last track may be far in *)
(* front of the first one when tracks were dropped, and discid_put takes   *)
(* negative offsets.                                                       *)
ASSUME MakeTextConstants ==
    /\ Discs # {}
    /\ \A d \in Discs : /\ d.first \in 1..MAX_TRACK /\ d.last \in 0..MAX_TRACK
                        /\ d.offsets \in Offsets
    /\ Digests \subseteq Bytes /\ \A g \in Digests : Len(g) = 20
    /\ Messages \subseteq Seq(Nat) /\ Sources \subseteq Bytes
    /\ PROTOCOL \in {4, 5}

(* The sizes: the first track, the last one, and every slot after a sign.  *)
ASSUME TextSizes ==
    /\ MAX_TRACK <= 99
    /\ MB_TOC_STRING_LENGTH = 3 + 3 + 7 * (MAX_TRACK + 1)
    /\ MB_DISC_ID_LENGTH \in Nat /\ MB_DISC_ID_LENGTH >= 30
    /\ FREEDB_DISC_ID_LENGTH \in Nat /\ FREEDB_DISC_ID_LENGTH >= 8
    /\ MB_URL_PREFIX_LENGTH \in Nat /\ MB_URL_PREFIX_LENGTH >= 80

Text == TextField \cup {"toc"}          \* "toc": the memory of create_toc_string

VARIABLES job,      \* the text asked for, "hash" or "encode"
          disc,     \* the handle
          step,     \* where the job is
          i, m, n,  \* the locals of the loops
          pieces,   \* the lengths of what is still to be hashed
          fed,      \* the numbers hashed for the id
          text,     \* the values printed into each text
          length,   \* strlen of each text
          extent,   \* the number of characters of it that were written
          room      \* the size of the memory of create_toc_string

locals == <<i, m, n>>
texts == <<text, length, extent>>
makeVars == <<job, disc, step, locals, pieces, fed, texts, room>>
vars == <<makeVars, shaVars, base64Vars>>

(* The characters of %d: a sign if there is one, and the digits, of which  *)
(* an int has ten at most.                                                 *)
Powers == <<10, 100, 1000, 10000, 100000, 1000000, 10000000, 100000000, 1000000000>>

DigitsOf(v) ==
    CHOOSE k \in 1..10 : (k = 10 \/ v < Powers[k]) /\ (k = 1 \/ Powers[k - 1] <= v)

Digits(v) == IF v < 0 THEN 1 + DigitsOf(-v) ELSE DigitsOf(v)

(* strcpy to an empty text, strcat to another; the NUL is written, too.    *)
Appended(t, values, characters) ==
    /\ text' = [text EXCEPT ![t] = @ \o values]
    /\ length' = [length EXCEPT ![t] = @ + characters]
    /\ extent' = [extent EXCEPT ![t] = length[t] + characters + 1]

IdPieces == <<2, 2>> \o [k \in 1..(MAX_TRACK + 1) |-> 8]

TypeOK ==
    /\ ShaTypeOK /\ Base64TypeOK
    /\ job \in TextField \cup {"hash", "encode"} /\ disc \in Discs
    /\ step \in {"prefix", "id", "hash", "encode", "copy", "digits", "add_id",
                 "tracks", "toc", "offsets", "done"}
    /\ i \in 0..(MAX_TRACK + 1) /\ n \in Nat /\ m \in Int
    /\ pieces \in Seq(Nat) /\ fed \in Seq(Int)
    /\ DOMAIN text = Text
    /\ length \in [Text -> Nat] /\ extent \in [Text -> Nat] /\ room \in Nat

FirstStep == [id             |-> "id",
              freedb_id      |-> "digits",
              toc_string     |-> "toc",
              submission_url |-> "prefix",
              webservice_url |-> "prefix",
              hash           |-> "hash",
              encode         |-> "encode"]

Init ==
    /\ job \in TextField \cup {"hash", "encode"}
    /\ disc \in IF job \in TextField THEN Discs ELSE {CHOOSE d \in Discs : TRUE}
    /\ step = FirstStep[job]
    /\ i = 0 /\ m = 0 /\ n = 0
    /\ pieces \in IF job = "hash" THEN Messages ELSE {<<>>}
    /\ fed = <<>>
    /\ text = [t \in Text |-> NoText]
    /\ length = [t \in Text |-> 0] /\ extent = [t \in Text |-> 0]
    /\ room = 0
    /\ ShaInit /\ Base64Init

-----------------------------------------------------------------------------
(* create_disc_id.  The URLs get here through discid_get_id.               *)
StartId ==
    /\ step = "id"
    /\ pieces' = IdPieces
    /\ step' = "hash"
    /\ UNCHANGED <<job, disc, locals, fed, texts, room, shaVars, base64Vars>>

(* Mutant: only the slots up to the last track are printed.                *)
PrintedPieceOfTracks(d, k) ==
    IF k = 1 THEN d.first
    ELSE IF k = 2 THEN d.last
    ELSE IF k - 3 <= d.last THEN d.offsets[k - 3] ELSE 0

(* The k-th number printed, to %02X or %08X.                               *)
PrintedPiece(d, k) ==
    IF k = 1 THEN d.first
    ELSE IF k = 2 THEN d.last
    ELSE d.offsets[k - 3]

FeedPiece ==
    /\ step = "hash" /\ pieces # <<>>
    /\ Update(Head(pieces))
    /\ pieces' = Tail(pieces)
    /\ fed' = IF job = "hash" THEN fed ELSE Append(fed, PrintedPiece(disc, Len(fed) + 1))
    /\ UNCHANGED <<job, disc, step, locals, texts, room, base64Vars>>

Final ==
    /\ step = "hash" /\ pieces = <<>>
    /\ Pad
    /\ UNCHANGED <<makeVars, base64Vars>>

HashStep ==
    /\ step = "hash" /\ Hash
    /\ UNCHANGED <<makeVars, base64Vars>>

Hashed ==
    /\ step = "hash" /\ feeding = "done"
    /\ step' = IF job = "hash" THEN "done" ELSE "encode"
    /\ UNCHANGED <<job, disc, locals, pieces, fed, texts, room, shaVars, base64Vars>>

StartEncoding ==
    /\ step = "encode"
    /\ \E bytes \in IF job = "encode" THEN Sources ELSE Digests : Encode(bytes)
    /\ UNCHANGED <<makeVars, shaVars>>

EncodeStep ==
    /\ step = "encode" /\ (Tuplet \/ TieOff)
    /\ UNCHANGED <<makeVars, shaVars>>

Encoded ==
    /\ step = "encode" /\ encoding = "done"
    /\ step' = IF job = "encode" THEN "done" ELSE "copy"
    /\ UNCHANGED <<job, disc, locals, pieces, fed, texts, room, shaVars, base64Vars>>

(* The estimate is copied and a NUL put behind it; the string ends at its  *)
(* own NUL before that.                                                    *)
CopyId ==
    LET size == Estimate(Len(source))
    IN  /\ step = "copy"
        /\ text' = [text EXCEPT !["id"] = fed]
        /\ length' = [length EXCEPT !["id"] = Len(encoded)]
        /\ extent' = [extent EXCEPT !["id"] = size + 1]
        /\ step' = IF job = "id" THEN "done" ELSE "add_id"
        /\ UNCHANGED <<job, disc, locals, pieces, fed, room, shaVars, base64Vars>>

-----------------------------------------------------------------------------
(* create_freedb_disc_id.  Mutant: the digits are not shifted out.         *)
AddDigitAgain ==
    /\ step = "digits" /\ m > 0
    /\ n' = (n + (m % 10)) % 255
    /\ UNCHANGED <<job, disc, step, i, m, pieces, fed, texts, room, shaVars, base64Vars>>

AddDigit ==
    /\ step = "digits" /\ m > 0
    /\ n' = n + (m % 10)
    /\ m' = m \div 10
    /\ UNCHANGED <<job, disc, step, i, pieces, fed, texts, room, shaVars, base64Vars>>

(* Mutant: the loop has the bounds of the tracks, its body an index more.  *)
NextStartFromFirst ==
    /\ step = "digits" /\ m <= 0 /\ i < disc.last
    /\ m' = Quotient(disc.offsets[i], SECOND)
    /\ i' = i + 1
    /\ UNCHANGED <<job, disc, step, n, pieces, fed, texts, room, shaVars, base64Vars>>

NextStart ==
    /\ step = "digits" /\ m <= 0 /\ i < disc.last
    /\ m' = Quotient(disc.offsets[i + 1], SECOND)
    /\ i' = i + 1
    /\ UNCHANGED <<job, disc, step, n, pieces, fed, texts, room, shaVars, base64Vars>>

(* x | y of two bytes, bit by bit                                          *)
Or(x, y) ==
    LET bit(p) == IF 1 \in {(x \div p) % 2, (y \div p) % 2} THEN p ELSE 0
    IN  bit(1) + bit(2) + bit(4) + bit(8) + bit(16) + bit(32) + bit(64) + bit(128)

PlayingTime(d) == Quotient(d.offsets[0], SECOND) - Quotient(d.offsets[1], SECOND)

(* The four bytes of n % 0xff << 24 | t << 8 | last in an int of 32 bits.  *)
FreedbBytes(d) ==
    LET t == PlayingTime(d)
    IN  <<Or(n % 255, (t \div 65536) % 256), (t \div 256) % 256, t % 256, d.last>>

PrintFreedbId ==
    /\ step = "digits" /\ m <= 0 /\ i = disc.last
    /\ Appended("freedb_id", FreedbBytes(disc), 8)
    /\ step' = "done"
    /\ UNCHANGED <<job, disc, locals, pieces, fed, room, shaVars, base64Vars>>

-----------------------------------------------------------------------------
(* create_toc_string.  Mutant: the limits and the length of the disc are   *)
(* forgotten.                                                              *)
TocSizeOfTracks(d) == (1 + d.last - d.first) * 7 + 1

TocSize(d) == (1 + d.last - d.first + 3) * 7 + 1

(* When more than four tracks are missing between first and last the size  *)
(* is negative, as a size_t more than any calloc gives: there is no TOC.   *)
TocHasSize == TocSize(disc) > 0

OmitToc ==
    /\ step = "toc" /\ ~ TocHasSize
    /\ step' = "done"
    /\ UNCHANGED <<job, disc, locals, pieces, fed, texts, room, shaVars, base64Vars>>

StartToc ==
    /\ step = "toc" /\ TocHasSize
    /\ room' = TocSize(disc)
    /\ Appended("toc", <<disc.first, disc.last, disc.offsets[0]>>,
                Digits(disc.first) + 1 + Digits(disc.last) + 1 + Digits(disc.offsets[0]))
    /\ i' = disc.first
    /\ step' = "offsets"
    /\ UNCHANGED <<job, disc, m, n, pieces, fed, shaVars, base64Vars>>

PrintOffset ==
    /\ step = "offsets" /\ i <= disc.last
    /\ Appended("toc", <<disc.offsets[i]>>, 1 + Digits(disc.offsets[i]))
    /\ i' = i + 1
    /\ UNCHANGED <<job, disc, step, m, n, pieces, fed, room, shaVars, base64Vars>>

(* The string goes to the handle, or with "&toc=" to the end of a URL.     *)
AppendToc ==
    /\ step = "offsets" /\ i > disc.last
    /\ IF job = "toc_string" THEN Appended(job, text["toc"], length["toc"])
                             ELSE Appended(job, <<text["toc"]>>, 5 + length["toc"])
    /\ step' = "done"
    /\ UNCHANGED <<job, disc, locals, pieces, fed, room, shaVars, base64Vars>>

-----------------------------------------------------------------------------
(* create_submission_url, create_webservice_url: "://musicbrainz.org" with *)
(* "/cdtoc/attach" and "?id=", or "/ws/1/release" and "?type=xml&discid=". *)
Prefix ==
    /\ step = "prefix"
    /\ Appended(job, <<>>, PROTOCOL + 18 + 13 + (IF job = "submission_url" THEN 4 ELSE 17))
    /\ step' = "id"
    /\ UNCHANGED <<job, disc, locals, pieces, fed, room, shaVars, base64Vars>>

AddId ==
    /\ step = "add_id"
    /\ Appended(job, <<text["id"]>>, length["id"])
    /\ step' = IF job = "submission_url" THEN "tracks" ELSE "toc"
    /\ UNCHANGED <<job, disc, locals, pieces, fed, room, shaVars, base64Vars>>

Tracks ==
    /\ step = "tracks"
    /\ Appended(job, <<disc.last>>, 8 + Digits(disc.last))
    /\ step' = "toc"
    /\ UNCHANGED <<job, disc, locals, pieces, fed, room, shaVars, base64Vars>>

Id == StartId \/ FeedPiece \/ Final \/ HashStep \/ Hashed
      \/ StartEncoding \/ EncodeStep \/ Encoded \/ CopyId
Freedb == AddDigit \/ NextStart \/ PrintFreedbId
TocString == OmitToc \/ StartToc \/ PrintOffset \/ AppendToc
Url == Prefix \/ AddId \/ Tracks

(* What has been written, the NULs included, and where.                    *)
IdsAreWithin ==
    /\ extent["id"] <= MB_DISC_ID_LENGTH + 1
    /\ extent["freedb_id"] <= FREEDB_DISC_ID_LENGTH + 1

TocsAreWithin ==
    /\ extent["toc"] <= room
    /\ extent["toc_string"] <= MB_TOC_STRING_LENGTH + 1
    /\ \A u \in UrlField : extent[u] <= MB_MAX_URL_LENGTH + 1

Overrun == ~ (IdsAreWithin /\ TocsAreWithin)

Returned == (step = "done" \/ Overrun) /\ UNCHANGED vars

Next == (~ Overrun /\ (Id \/ Freedb \/ TocString \/ Url)) \/ Returned

(* A call runs until it returns.                                           *)
Spec == Init /\ [][Next]_vars /\ WF_vars(Next)

-----------------------------------------------------------------------------
(* The discs that the sizes of the code are reckoned for: six characters   *)
(* for a number, and a last track two in front of the first at most (three *)
(* numbers of room are for the limits and the length of the disc).         *)
LARGEST == 999999
SMALLEST == -99999

Printable(d) ==
    /\ d.last >= d.first - 2
    /\ \A k \in Slot : SMALLEST <= d.offsets[k] /\ d.offsets[k] <= LARGEST

(* At no step is more written of a text than there is room for: of the two *)
(* ids whatever the handle holds, of the TOC and what contains it if the   *)
(* disc is one that the sizes are reckoned for.  The others are accepted   *)
(* as well, see StringsHaveRoom.                                           *)
TextsFit == IdsAreWithin /\ (Printable(disc) => TocsAreWithin)

Listed(f, from, to) == [k \in 1..(to - from + 1) |-> f[from + k - 1]]

(* The texts of DiscText, spelled out.                                     *)
PrintedToc(d) ==
    LET t == TocStringOf(d) IN <<t[1], t[2], t[3]>> \o Listed(t[4], d.first, d.last)

PrintedId(d) ==
    LET t == DiscIdOf(d) IN <<t[1], t[2]>> \o Listed(t[3], 0, MAX_TRACK)

Printed(d, field) ==
    CASE field = "id"             -> PrintedId(d)
      [] field = "toc_string"     -> PrintedToc(d)
      [] field = "submission_url" -> <<PrintedId(d), d.last, PrintedToc(d)>>
      [] field = "webservice_url" -> <<PrintedId(d), PrintedToc(d)>>

(* A text that a call returns is the one that DiscText defines: each       *)
(* number once, in its place, whatever the limits and the signs, and what  *)
(* WithoutToc leaves of it if there can be no memory for the TOC.  With    *)
(* this, what DiscHandle says of the cached texts holds of what is         *)
(* printed.                                                                *)
TextsAreThoseOfTheDisc ==
    step = "done" /\ job \in TextField \ {"freedb_id"} =>
        text[job] = IF job = "id" \/ TocHasSize THEN Printed(disc, job)
                    ELSE WithoutToc(job, Printed(disc, job))

(* The three fields of a FreeDB ID, the checksum, the playing time and the *)
(* last track, can be told from its eight digits just when the playing     *)
(* time is one of two bytes.  It is on discs of discid_put with no         *)
(* negative offset; with one the time may run into the checksum, and on a  *)
(* disc whose first track was read behind its lead-out it does.            *)
FreedbFieldsAreSeparate ==
    LET word == text["freedb_id"]
        t == PlayingTime(disc)
    IN  job = "freedb_id" /\ step = "done" =>
            (<<word[1], word[2] * 256 + word[3], word[4]>> = FreedbIdOf(disc)
                <=> 0 <= t /\ t < 65536)

(* Every call returns, unless it wrote where there was no room.            *)
EveryTextIsMade == <>(step = "done" \/ Overrun)

-----------------------------------------------------------------------------
(* A statement of the repository that does not hold of every disc that     *)
(* discid_put accepts: discid_private.h:84-86, the strings "have got fixed *)
(* lengths" and "all calls returning strings will be successful".          *)
StringsHaveRoom == ~ Overrun
=============================================================================
