------------------------------ MODULE DiscHandle ------------------------------
(***************************************************************************)
(* mb_disc_private and the public calls on it (src/disc.c).  One handle:   *)
(* the calls share nothing but the handle they are given.                  *)
(*                                                                         *)
(* The five texts are computed when they are first asked for and kept in   *)
(* the handle; an empty text means that it has not been computed.  A read  *)
(* is one step here, with the TOC the drive gave in the end as its input;  *)
(* LoadedDisc is what mb_disc_load_toc makes of it (LoadToc).              *)
(* Texts find room in the handle here, and memory for the TOC can be had   *)
(* unless it is scarce; MakeText says of which discs this is true.         *)
(***************************************************************************)
EXTENDS DiscText

CONSTANTS Tocs,             \* the tables a drive may answer
          PutArguments,     \* what clients pass to discid_put
          Codes,            \* the MCNs and ISRCs on discs
          Settings          \* builds, with or without enough memory

ASSUME HandleConstants ==
    /\ Tocs \subseteq Toc
    /\ \A t \in Tocs : t.last <= MAX_TRACK
    /\ PutArguments \subseteq [first: Int, last: Int,
                               offsets: Offsets \cup {NoOffsetsGiven}]
    /\ Codes \subseteq Seq({"a", "b"}) \ {NoText}
    /\ Settings \subseteq [ndebug: BOOLEAN, scarce: BOOLEAN]

VARIABLES setting,      \* NDEBUG, and whether an allocation may fail
          handle,       \* "absent", "valid"; "undefined" after a crash
          first_track_num, last_track_num, track_offsets,
          text,         \* id, freedb_id, toc_string, the URLs
          mcn, isrc,
          error_msg, success,
          result,       \* the last call and what it returned
          origin        \* history: the call that filled or cleared the handle

toc == <<first_track_num, last_track_num, track_offsets>>
codes == <<mcn, isrc>>
status == <<error_msg, success>>
vars == <<setting, handle, toc, text, codes, status, result, origin>>

disc == [first |-> first_track_num, last |-> last_track_num, offsets |-> track_offsets]

NoTexts == [field \in TextField |-> NoText]
NoIsrcs == [k \in Slot |-> NoText]

(* What memset and calloc leave.                                           *)
Blank ==
    /\ first_track_num' = 0 /\ last_track_num' = 0 /\ track_offsets' = NoOffsets
    /\ text' = NoTexts
    /\ mcn' = NoText /\ isrc' = NoIsrcs
    /\ success' = FALSE

NoCallYet == error_msg' = "none" /\ origin' = "none"

Init ==
    /\ setting \in Settings
    /\ handle = "absent"
    /\ first_track_num = 0 /\ last_track_num = 0 /\ track_offsets = NoOffsets
    /\ text = NoTexts
    /\ mcn = NoText /\ isrc = NoIsrcs
    /\ error_msg = "none" /\ success = FALSE
    /\ result = <<>> /\ origin = "none"

New ==
    /\ handle = "absent"
    /\ \/ handle' = "valid" /\ result' = <<"new">>
       \/ setting.scarce /\ handle' = "absent" /\ result' = <<"null", "new">>
    /\ Blank /\ NoCallYet
    /\ UNCHANGED setting

Free ==
    /\ handle = "valid"
    /\ handle' = "absent" /\ Blank /\ NoCallYet
    /\ result' = <<"free">>
    /\ UNCHANGED setting

-----------------------------------------------------------------------------
(* A call that fills the handle clears all of it before it looks at what   *)
(* it was given, so that nothing of the last disc survives.                *)
(* Mutant: the limits are stored before the offsets are looked at.         *)
RefuseLate(msg) ==
    /\ text' = NoTexts /\ mcn' = NoText /\ isrc' = NoIsrcs
    /\ success' = FALSE
    /\ error_msg' = msg /\ origin' = "failed"
    /\ result' = <<"load", 0>>
    /\ UNCHANGED <<setting, handle, toc>>

Refuse(msg) ==
    /\ Blank
    /\ error_msg' = msg /\ origin' = "failed"
    /\ result' = <<"load", 0>>
    /\ UNCHANGED <<setting, handle>>

(* Mutant: the caches are not part of what is cleared.                     *)
StoreKeepingTexts(d, theMcn, theIsrcs, from) ==
    /\ first_track_num' = d.first /\ last_track_num' = d.last /\ track_offsets' = d.offsets
    /\ mcn' = theMcn /\ isrc' = theIsrcs
    /\ error_msg' = "none" /\ success' = TRUE
    /\ result' = <<"load", 1>> /\ origin' = from
    /\ UNCHANGED <<setting, handle, text>>

Store(d, theMcn, theIsrcs, from) ==
    /\ first_track_num' = d.first /\ last_track_num' = d.last /\ track_offsets' = d.offsets
    /\ text' = NoTexts
    /\ mcn' = theMcn /\ isrc' = theIsrcs
    /\ error_msg' = "none" /\ success' = TRUE
    /\ result' = <<"load", 1>> /\ origin' = from
    /\ UNCHANGED <<setting, handle>>

ReadRefused ==
    /\ handle = "valid"
    /\ \/ Refuse("drive")
       \/ \E t \in Tocs : Refusal(t) # "none" /\ Refuse(Refusal(t))

ReadLoaded ==
    /\ handle = "valid"
    /\ \E t \in Tocs, m \in Codes \cup {NoText}, c \in Codes \cup {NoText} :
          /\ Refusal(t) = "none"
          /\ Store(LoadedDisc(t), m,
                   [k \in Slot |-> IF k \in t.first..LastTrack(t) THEN c ELSE NoText],
                   "read")

PutRefused ==
    /\ handle = "valid"
    /\ \E p \in PutArguments :
          /\ PutRefusal(p.first, p.last, p.offsets) # "none"
          /\ Refuse(PutRefusal(p.first, p.last, p.offsets))

PutLoaded ==
    /\ handle = "valid"
    /\ \E p \in PutArguments :
          /\ PutRefusal(p.first, p.last, p.offsets) = "none"
          /\ Store(PutDisc(p.first, p.last, p.offsets), NoText, NoIsrcs, "put")

-----------------------------------------------------------------------------
(* The lazy getters.  create_toc_string may find no memory; the TOC is     *)
(* then left out of what is printed into the handle.                       *)
NeedsId == {"id"} \cup UrlField

Allocations == IF setting.scarce THEN BOOLEAN ELSE {TRUE}

(* What printing a text leaves in the handle: the text, and the id where   *)
(* it was needed and not there.                                            *)
Printed(field, anew, allocated) ==
    LET id == IF text["id"] = NoText THEN DiscIdOf(disc) ELSE text["id"]
        new == TextOf(disc, field, id)
    IN  [f \in TextField |->
            IF f = field
            THEN IF ~ anew THEN text[f]
                 ELSE IF f \in NeedsToc /\ ~ allocated THEN WithoutToc(f, new) ELSE new
            ELSE IF f = "id" /\ field \in NeedsId /\ anew THEN id
            ELSE text[f]]

Handed(field, newText) ==
    /\ handle = "valid" /\ success
    /\ text' = newText
    /\ result' = <<"answer", <<field, 0>>, newText[field]>>
    /\ UNCHANGED <<setting, handle, toc, codes, status, origin>>

(* Mutant: the text is printed again at every call.                        *)
GetTextAnew(field) ==
    \E allocated \in Allocations : Handed(field, Printed(field, TRUE, allocated))

GetText(field) ==
    \E allocated \in Allocations :
        Handed(field, Printed(field, text[field] = NoText, allocated))

(* rfc822_binary does not look at what malloc returned.                    *)
GetTextCrashes(field) ==
    /\ setting.scarce
    /\ handle = "valid" /\ success
    /\ field \in NeedsId /\ text[field] = NoText /\ text["id"] = NoText
    /\ handle' = "undefined"
    /\ UNCHANGED <<setting, toc, text, codes, status, result, origin>>

(* Mutant: the track behind the last one counts as a track.                *)
TrackNumIsValidOrNext(k) == k >= first_track_num /\ k <= last_track_num + 1

TrackNumIsValid(k) == k >= first_track_num /\ k <= last_track_num

(* The getters of a number or a code: no state but the handle is read.     *)
Answered(question, k, value) ==
    /\ handle = "valid" /\ success
    /\ result' = <<"answer", <<question, k>>, value>>
    /\ UNCHANGED <<setting, handle, toc, text, codes, status, origin>>

GetFirstTrackNum == Answered("first", 0, <<first_track_num>>)
GetLastTrackNum == Answered("last", 0, <<last_track_num>>)
GetSectors == Answered("sectors", 0, <<track_offsets[0]>>)
GetMcn == Answered("mcn", 0, mcn)

GetTrackOffset(k) == TrackNumIsValid(k) /\ Answered("offset", k, <<track_offsets[k]>>)

GetTrackLength(k) ==
    /\ TrackNumIsValid(k)
    /\ Answered("length", k,
          <<IF k < last_track_num THEN track_offsets[k + 1] - track_offsets[k]
                                  ELSE track_offsets[0] - track_offsets[k]>>)

GetTrackIsrc(k) == TrackNumIsValid(k) /\ Answered("isrc", k, isrc[k])

(* A failed assertion ends the program; without assertions, NULL or -1.    *)
Rejected(question) ==
    IF setting.ndebug
    THEN /\ result' = <<"null", question>>
         /\ UNCHANGED <<setting, handle, toc, text, codes, status, origin>>
    ELSE /\ handle' = "absent" /\ Blank /\ NoCallYet
         /\ result' = <<"abort", question>>
         /\ UNCHANGED setting

DiscQuestion == TextField \cup {"first", "last", "sectors", "mcn"}
TrackQuestion == {"offset", "length", "isrc"}

GetOfNoDisc ==
    /\ handle = "valid" /\ ~ success
    /\ \E question \in (DiscQuestion \X {0}) \cup (TrackQuestion \X Slot) : Rejected(question)

GetOfNoTrack ==
    /\ handle = "valid" /\ success
    /\ \E question \in TrackQuestion \X Slot :
          ~ TrackNumIsValid(question[2]) /\ Rejected(question)

GetErrorMsg ==
    /\ handle = "valid"
    /\ result' = <<"reason", error_msg>>
    /\ UNCHANGED <<setting, handle, toc, text, codes, status, origin>>

Next ==
    \/ New \/ Free
    \/ ReadRefused \/ ReadLoaded \/ PutRefused \/ PutLoaded
    \/ \E field \in TextField : GetText(field) \/ GetTextCrashes(field)
    \/ GetFirstTrackNum \/ GetLastTrackNum \/ GetSectors \/ GetMcn
    \/ \E k \in Slot : GetTrackOffset(k) \/ GetTrackLength(k) \/ GetTrackIsrc(k)
    \/ GetOfNoDisc \/ GetOfNoTrack \/ GetErrorMsg

Spec == Init /\ [][Next]_vars

-----------------------------------------------------------------------------
(* Every field of the handle keeps its type.                               *)
TypeOK ==
    /\ setting \in Settings
    /\ handle \in {"absent", "valid", "undefined"}
    /\ first_track_num \in 0..MAX_TRACK /\ last_track_num \in 0..MAX_TRACK
    /\ track_offsets \in Offsets
    /\ DOMAIN text = TextField
    /\ mcn \in Codes \cup {NoText} /\ isrc \in [Slot -> Codes \cup {NoText}]
    /\ success \in BOOLEAN
    /\ origin \in {"none", "failed", "read", "put"}

(* A text that is kept in the handle is the text of the disc that is in it *)
(* now, whatever the handle held before and in whatever order the getters, *)
(* which use each other's texts, were called.  Where memory is scarce this *)
(* is claimed of the texts that need none of it only: the others may lack  *)
(* the TOC, see StringsSucceed.                                            *)
WholeText(field) == TextOf(disc, field, DiscIdOf(disc))

TextsAreCurrent ==
    \A field \in TextField :
        \/ text[field] \in {NoText, WholeText(field)}
        \/ setting.scarce /\ field \in NeedsToc

(* A whole text that a client was given stays as it is until the handle is *)
(* freed or filled again: no other getter writes into the buffer that the  *)
(* client still points to, nor the same one at a later call, which may     *)
(* find no memory where the first one found some.  (An empty toc_string    *)
(* that was handed out for want of memory is printed over when there is    *)
(* memory again.)                                                          *)
TextsAreStable ==
    [][\A field \in TextField :
          text[field] = WholeText(field) /\ text'[field] # text[field]
          => result'[1] \in {"free", "load", "abort"}]_vars

(* A handle without a disc is blank: a failed discid_read or discid_put    *)
(* leaves neither the last disc in it nor half of the new one, and there   *)
(* is an error message exactly when the last such call failed.             *)
FailureLeavesNothing ==
    /\ ~ success => /\ disc = BlankDisc /\ text = NoTexts
                    /\ mcn = NoText /\ isrc = NoIsrcs
    /\ success => handle # "absent"
    /\ error_msg # "none" <=> origin = "failed"

(* What test_read.c checks of a disc first: it has tracks, in order.       *)
PassesSanity(d) ==
    /\ d.first <= d.last
    /\ \A j, k \in d.first..d.last : j <= k => d.offsets[j] <= d.offsets[k]

(* A disc that discid_put accepted can be played: its tracks are in order  *)
(* and end within its length, and it has no codes of an earlier read.      *)
PutDiscIsPlayable ==
    origin = "put" =>
        /\ 1 <= disc.first
        /\ PassesSanity(disc)
        /\ \A k \in disc.first..disc.last : LengthOf(disc, k) >= 0
        /\ disc.offsets[0] <= MAX_DISC_LENGTH
        /\ mcn = NoText /\ isrc = NoIsrcs

(* Slots behind the last track, which the DiscID is made of as well, are   *)
(* zero although clients pass arrays of all sizes and reuse the handle.    *)
TailIsZero == \A k \in Slot : k > disc.last /\ k # 0 => disc.offsets[k] = 0

(* What test_read.c does with a disc that was read: fill an array of zeros *)
(* with its sectors and offsets, and put it into another handle.           *)
CopiedOffsets(d) ==
    [k \in Slot |-> IF k = 0 \/ k \in d.first..d.last THEN d.offsets[k] ELSE 0]

RoundTrips(d) ==
    /\ PutRefusal(d.first, d.last, CopiedOffsets(d)) = "none"
    /\ PutDisc(d.first, d.last, CopiedOffsets(d)) = d

(* A disc that was read with its tracks in order and within the maximum    *)
(* length can be put from what the getters tell, and gives the same disc,  *)
(* hence the same DiscID and submission URL.                               *)
OrdinaryReadRoundTrips ==
    origin = "read" /\ PassesSanity(disc) /\ disc.offsets[0] <= MAX_DISC_LENGTH
        => RoundTrips(disc)

(* The handle implements the promise of DiscIdApi: what is cached, cleared *)
(* and flagged inside cannot be told from answers computed anew.           *)
ApiState ==
    IF handle # "valid" THEN handle
    ELSE IF success THEN "loaded"
    ELSE IF error_msg = "none" THEN "unset" ELSE "failed"

Api == INSTANCE DiscIdApi WITH
          scarce <- setting.scarce, state <- ApiState,
          codes <- [mcn |-> mcn, isrc |-> isrc], reason <- error_msg

ImplementsApi == Api!Spec

-----------------------------------------------------------------------------
(* A statement of the repository that does not hold where memory is        *)
(* scarce: discid_private.h:85, "As soon as the mb_disc object has been    *)
(* created, all calls returning strings will be successful."  What a       *)
(* client is given as a text is the whole text of the disc.                *)
StringsSucceed ==
    \A field \in TextField :
        result # <<>> /\ result[1] = "answer" /\ result[2] = <<field, 0>>
        => result[3] = WholeText(field)
=============================================================================
