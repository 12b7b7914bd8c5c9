------------------------------ MODULE DriveRead ------------------------------
(***************************************************************************)
(* discid_read_sparse (src/disc.c) down to the drive: mb_disc_unix_read    *)
(* (src/unix.c) and what each platform puts under it, and the read of      *)
(* Windows, which does the same in its own words.  One ioctl is one step,  *)
(* and between any two steps somebody may change the medium.               *)
(*                                                                         *)
(* The drive is external: what an ioctl answers is modelled from how the   *)
(* code takes it.  A medium that was just inserted may show another TOC    *)
(* (that of its first session, say) until a TOC has been read once; this   *)
(* is what the pre-read of discid_read_sparse is for.                      *)
(***************************************************************************)
EXTENDS DiscToc

CONSTANTS Builds,       \* of the library: platform and NDEBUG
          Media,        \* the media that may be in the drive
          ReadyToc,     \* the TOC of each of them
          EarlyToc,     \* and the one it shows at first
          McnMedia,     \* the media that have an MCN
          IsrcTracks,   \* the tracks of a medium that have an ISRC
          StackTocs     \* what may lie where the TOC will be stored

Platform == {"linux", "bsd", "darwin", "haiku", "solaris", "windows", "generic"}

NoMedium == "none"
NoCode == "none"
Filler == "filler"      \* what is no code, and not empty either
CodeFeature == {"mcn", "isrc"}

(* The drive gives its numbers in unsigned bytes.                          *)
Answer == {t \in Toc : t.first \in Nat /\ t.last \in Nat}

ASSUME DriveConstants ==
    /\ Builds \subseteq [platform: Platform, ndebug: BOOLEAN]
    /\ NoMedium \notin Media /\ Filler \notin Media
    /\ \A m \in Media : ReadyToc[m] \in Answer /\ EarlyToc[m] \in Answer
    /\ McnMedia \subseteq Media /\ IsrcTracks \in [Media -> SUBSET Slot]
    /\ StackTocs \subseteq Toc

VARIABLES build,
          medium, ready,        \* what is in the drive, and whether it settled
          pc, pass, features,   \* the call: of its two passes, what it asks for
          fds,                  \* open file descriptors
          toc, i,               \* locals of mb_disc_unix_read
          disc, mcn, isrc,      \* the handle; a code is named by its medium
          error_msg, success,
          ret,                  \* what discid_read_sparse returned: 0 while it
                                \* runs, -1 before the first call
          since, faultless      \* history: what has disturbed this call

handleVars == <<disc, mcn, isrc, error_msg, success>>
vars == <<build, medium, ready, pc, pass, features, fds, toc, i, handleVars,
          ret, since, faultless>>

platform == build.platform
Code == Media \cup {NoCode, Filler}
NoIsrcs == [k \in Slot |-> NoCode]
BlankEntry == [control |-> "audio", address |-> 0]

Init ==
    /\ build \in Builds
    /\ medium \in Media \cup {NoMedium} /\ ready = FALSE
    /\ pc = "idle" /\ pass = 1 /\ features = {} /\ fds = 0
    /\ toc \in StackTocs /\ i = 0
    /\ disc = BlankDisc /\ mcn = NoCode /\ isrc = NoIsrcs
    /\ error_msg = "none" /\ success = FALSE
    /\ ret = -1 /\ since = "none" /\ faultless = TRUE

-----------------------------------------------------------------------------
(* The drive.                                                              *)
Swap ==
    /\ medium' \in (Media \cup {NoMedium}) \ {medium}
    /\ ready' = FALSE /\ since' = "none"
    /\ UNCHANGED <<build, pc, pass, features, fds, toc, i, handleVars, ret, faultless>>

Shown == IF ready THEN ReadyToc[medium] ELSE EarlyToc[medium]

TrackOf(t, k) == IF k \in Slot THEN t.tracks[k] ELSE BlankEntry

(* The local toc with other numbers of its first and last track, with      *)
(* another entry, with another table.                                      *)
Numbered(t) == [first |-> t.first, last |-> t.last, tracks |-> toc.tracks]

WithEntry(k, entry) ==
    [first |-> toc.first, last |-> toc.last, tracks |-> [toc.tracks EXCEPT ![k] = entry]]

WithTable(table) == [first |-> toc.first, last |-> toc.last, tracks |-> table]

-----------------------------------------------------------------------------
(* The frame of a call.                                                    *)
Blank ==
    /\ disc' = BlankDisc /\ mcn' = NoCode /\ isrc' = NoIsrcs
    /\ error_msg' = "none" /\ success' = FALSE

StillHere == UNCHANGED <<build, medium, ready>>

Goto(label) ==
    /\ pc' = label
    /\ StillHere
    /\ UNCHANGED <<pass, features, ret, since>>

(* error_msg is set and 0 is returned; success stays what memset made it.  *)
Return0(msg) ==
    /\ pc' = "idle" /\ ret' = 0 /\ error_msg' = msg
    /\ StillHere
    /\ UNCHANGED <<pass, features, since, toc, i, disc, mcn, isrc, success>>

FailBeforeOpen(msg) == Return0(msg) /\ faultless' = FALSE /\ UNCHANGED fds

(* Mutant: the device stays open.                                          *)
RefuseLeavingOpen(msg) == Return0(msg) /\ UNCHANGED fds

Refuse(msg) == Return0(msg) /\ fds' = fds - 1

RefuseAfterFault(msg) == Refuse(msg) /\ faultless' = FALSE
RefuseDisc(msg) == Refuse(msg) /\ UNCHANGED faultless

(* An undefined step or a failed assertion ends the program.               *)
Stop(how) ==
    /\ pc' = how
    /\ StillHere
    /\ UNCHANGED <<pass, features, fds, toc, i, handleVars, ret, since, faultless>>

CallFromPass(firstPass, asked) ==
    /\ pc = "idle"
    /\ Blank
    /\ pc' = "find" /\ pass' = firstPass /\ features' = asked
    /\ since' = "call" /\ faultless' = TRUE /\ ret' = 0
    /\ StillHere
    /\ UNCHANGED <<fds, toc, i>>

(* Mutant: the TOC is read once only.                                      *)
CallOnce(asked) == CallFromPass(2, asked)

Call(asked) == CallFromPass(1, asked)

(* mb_disc_read_unportable: the device may be the number of a drive.       *)
FindDevice ==
    /\ pc = "find" /\ platform # "generic"
    /\ Goto("open")
    /\ UNCHANGED <<fds, toc, i, handleVars, faultless>>

DeviceNotFound ==
    /\ pc = "find" /\ platform \in {"linux", "bsd", "darwin", "windows"}
    /\ FailBeforeOpen("no_such_device")

NotImplemented ==
    /\ pc = "find" /\ platform = "generic"
    /\ Return0("not_implemented")
    /\ UNCHANGED <<fds, faultless>>

Open ==
    /\ pc = "open"
    /\ fds' = fds + 1 /\ toc' \in StackTocs
    /\ Goto("header")
    /\ UNCHANGED <<i, handleVars, faultless>>

OpenFails == pc = "open" /\ FailBeforeOpen("cannot_open")

-----------------------------------------------------------------------------
(* mb_disc_unix_read_toc_header.  Linux and Solaris get the numbers of the *)
(* first and last track only, the other platforms all entries at once.     *)
HeaderStored(t) ==
    IF t.last = 0 THEN RefuseDisc("no_tracks")
    ELSE /\ toc' = t /\ i' = t.first
         /\ Goto("entries")
         /\ UNCHANGED <<fds, handleVars, faultless>>

(* Mutant: what the ioctl returned is returned.                            *)
ReadHeaderInverted ==
    /\ pc = "header" /\ platform = "linux" /\ medium # NoMedium
    /\ RefuseDisc("header")

ReadHeader ==
    /\ pc = "header" /\ platform = "linux" /\ medium # NoMedium
    /\ HeaderStored(Numbered(Shown))

(* A failed ioctl is reported, on BSD the first of the two.                *)
HeaderFails ==
    /\ pc = "header" /\ platform # "solaris"
    /\ RefuseAfterFault("header")

(* Solaris returns what the ioctl returned: 0 when it succeeded, which the *)
(* caller takes for an error, and -1 when it failed and stored nothing.    *)
ReadHeaderSolaris ==
    /\ pc = "header" /\ platform = "solaris" /\ medium # NoMedium
    /\ RefuseDisc("header")

HeaderFailsSolaris ==
    /\ pc = "header" /\ platform = "solaris"
    /\ \/ toc.last = 0 /\ RefuseAfterFault("no_tracks")
       \/ /\ toc.last # 0
          /\ i' = toc.first /\ faultless' = FALSE
          /\ Goto("entries")
          /\ UNCHANGED <<fds, toc, handleVars>>

(* The whole table is stored, entries outside first..last excepted.        *)
TableStored(t) ==
    /\ pc' = IF t.last = 0 THEN "idle" ELSE "entries"
    /\ ready' = TRUE
    /\ toc' = t /\ i' = t.first
    /\ IF t.last = 0 THEN error_msg' = "no_tracks" /\ fds' = fds - 1
                     ELSE UNCHANGED <<error_msg, fds>>
    /\ UNCHANGED <<build, medium, pass, features, disc, mcn, isrc, success,
                   ret, since, faultless>>

(* BSD: the numbers first, the entries with a second ioctl.                *)
ReadHeaderBsd ==
    /\ pc = "header" /\ platform = "bsd" /\ medium # NoMedium
    /\ IF Shown.last = 0 THEN RefuseDisc("no_tracks")
       ELSE /\ toc' = Numbered(Shown)
            /\ Goto("table")
            /\ UNCHANGED <<fds, i, handleVars, faultless>>

TableFailsBsd == pc = "table" /\ RefuseAfterFault("header")

(* te[] as the ioctl fills it: the tracks from the one asked for, then the *)
(* lead-out, then the zeros of memset.  Track j is looked for at te[j -    *)
(* first], and asserted to be there.                                       *)
ReadTableBsd ==
    /\ pc = "table" /\ medium # NoMedium
    /\ LET t == Shown
           skipped == IF t.first > toc.first THEN t.first - toc.first ELSE 0
           Number(j) == j + skipped
           Entry(j) == IF Number(j) <= t.last THEN TrackOf(t, Number(j))
                       ELSE IF Number(j) = t.last + 1 THEN t.tracks[0]
                       ELSE BlankEntry
           asExpected == skipped = 0 /\ t.last = toc.last
           misplaced == IF skipped > 0 THEN toc.first
                        ELSE IF t.last < toc.last THEN t.last + 1 ELSE toc.last + 1
       IN  IF ~ asExpected /\ ~ build.ndebug /\ misplaced <= MAX_TRACK + 1 THEN Stop("aborted")
           ELSE IF toc.last > MAX_TRACK THEN Stop("undefined")
           ELSE TableStored(WithTable(
                    [k \in Slot |-> IF k = 0 THEN Entry(toc.last + 1)
                                    ELSE IF k \in toc.first..toc.last THEN Entry(k)
                                    ELSE toc.tracks[k]]))

(* Darwin goes through the descriptors of tracks 1 to 99 and the lead-out; *)
(* the limits are those of the tracks it met, -1 when there were none.     *)
ReadHeaderDarwin ==
    /\ pc = "header" /\ platform = "darwin" /\ medium # NoMedium
    /\ LET present == {k \in 1..MAX_TRACK : k >= Shown.first /\ k <= Shown.last}
           lowest == CHOOSE k \in present : \A j \in present : k <= j
           highest == CHOOSE k \in present : \A j \in present : k >= j
       IN  TableStored([first  |-> IF present = {} THEN -1 ELSE lowest,
                        last   |-> IF present = {} THEN -1 ELSE highest,
                        tracks |-> [k \in Slot |-> IF k \in present \cup {0}
                                                   THEN Shown.tracks[k] ELSE toc.tracks[k]]])

(* Haiku stores the tracks and not the lead-out.  The ioctl gives room for *)
(* MAX_TRACK + 1 entries, which is one too many unless they start at 0.    *)
ReadHeaderHaiku ==
    /\ pc = "header" /\ platform = "haiku" /\ medium # NoMedium
    /\ IF Shown.last > MAX_TRACK
       THEN IF Shown.first < 1 THEN RefuseDisc("header") ELSE Stop("undefined")
       ELSE TableStored([first  |-> Shown.first,
                         last   |-> Shown.last,
                         tracks |-> [k \in Slot |-> IF k \in Shown.first..Shown.last
                                                    THEN Shown.tracks[k] ELSE toc.tracks[k]]])

(* Windows takes entry n of the table for track n + 1 and entry last for   *)
(* the lead-out, wherever the numbers start; what is behind the lead-out   *)
(* is not initialised.  There is no loop over entries afterwards.          *)
ReadTocWindows ==
    /\ pc = "header" /\ platform = "windows" /\ medium # NoMedium
    /\ IF Shown.last > MAX_TRACK \/ (Shown.first < 1 /\ Shown.first <= Shown.last)
       THEN Stop("undefined")
       ELSE \E junk \in StackTocs :
            LET TrackData(n) == IF n + Shown.first <= Shown.last
                                THEN Shown.tracks[n + Shown.first]
                                ELSE IF n + Shown.first = Shown.last + 1
                                THEN Shown.tracks[0] ELSE junk.tracks[0]
            IN  /\ toc' = [first  |-> Shown.first,
                           last   |-> Shown.last,
                           tracks |-> [k \in Slot |->
                                IF k = 0 THEN TrackData(Shown.last)
                                ELSE IF k \in Shown.first..Shown.last THEN TrackData(k - 1)
                                ELSE toc.tracks[k]]]
                /\ ready' = TRUE /\ pc' = "load"
                /\ UNCHANGED <<build, medium, pass, features, fds, i, handleVars,
                               ret, since, faultless>>

-----------------------------------------------------------------------------
(* The loop over mb_disc_unix_read_toc_entry, and the lead-out.            *)
AtOnce == {"bsd", "darwin", "haiku"}

EntryIsDue == pc = "entries" /\ i <= toc.last

ReadEntry ==
    /\ EntryIsDue /\ i <= MAX_TRACK
    /\ \/ platform \in AtOnce /\ UNCHANGED toc
       \/ /\ platform \notin AtOnce /\ medium # NoMedium
          /\ i \in Shown.first..Shown.last
          /\ toc' = WithEntry(i, Shown.tracks[i])
    /\ i' = i + 1
    /\ Goto("entries")
    /\ UNCHANGED <<fds, handleVars, faultless>>

(* Behind the end of the array.                                            *)
ReadEntryBeyondTable == EntryIsDue /\ i > MAX_TRACK /\ Stop("undefined")

EntryFails == EntryIsDue /\ platform \notin AtOnce /\ RefuseAfterFault("entry")

ReadLeadOut ==
    /\ pc = "entries" /\ ~ EntryIsDue
    /\ \/ platform \in AtOnce /\ UNCHANGED <<toc, ready>>
       \/ /\ platform \notin AtOnce /\ medium # NoMedium
          /\ toc' = WithEntry(0, Shown.tracks[0])
          /\ ready' = TRUE
    /\ pc' = "load"
    /\ UNCHANGED <<build, medium, pass, features, fds, i, handleVars, ret, since, faultless>>

LeadOutFails ==
    /\ pc = "entries" /\ ~ EntryIsDue /\ platform \notin AtOnce
    /\ RefuseAfterFault("lead_out")

-----------------------------------------------------------------------------
(* mb_disc_load_toc, then what the caller asked for besides the TOC.       *)
LoadRefused == pc = "load" /\ Refusal(toc) # "none" /\ RefuseDisc(Refusal(toc))

Load ==
    /\ pc = "load" /\ Refusal(toc) = "none"
    /\ disc' = LoadedDisc(toc)
    /\ Goto("mcn")
    /\ UNCHANGED <<fds, toc, i, mcn, isrc, error_msg, success, faultless>>

(* The pre-read asks for the TOC only.                                     *)
HasFeature(feature) ==
    IF feature = "read" THEN platform # "generic"
                        ELSE platform \in {"linux", "bsd", "darwin", "windows"}

(* Mutant: what is there to read is read.                                  *)
IsReadAnyway(feature) == pass = 2 /\ HasFeature(feature)

IsRead(feature) == pass = 2 /\ feature \in features /\ HasFeature(feature)

GotoIsrcs ==
    /\ Goto("isrc") /\ i' = disc.first
    /\ UNCHANGED <<fds, toc, disc, isrc, error_msg, success>>

(* What an ioctl that succeeds leaves in the handle: the code of the       *)
(* medium; where there is none, nothing, if the platform looks at the flag *)
(* that says so, and whatever came in the place of a code, if it does not. *)
CodeGiven(exists, flagIsChecked) ==
    IF exists THEN {medium} ELSE IF flagIsChecked THEN {NoCode} ELSE {NoCode, Filler}

McnFlagIsChecked == platform = "bsd"
IsrcFlagIsChecked == platform \in {"linux", "bsd"}

ReadMcn ==
    /\ pc = "mcn" /\ IsRead("mcn") /\ medium # NoMedium
    /\ mcn' \in CodeGiven(medium \in McnMedia, McnFlagIsChecked)
    /\ GotoIsrcs /\ UNCHANGED faultless

(* A warning, and the MCN stays empty.                                     *)
McnFails ==
    /\ pc = "mcn" /\ IsRead("mcn")
    /\ faultless' = FALSE
    /\ GotoIsrcs /\ UNCHANGED mcn

SkipMcn == pc = "mcn" /\ ~ IsRead("mcn") /\ GotoIsrcs /\ UNCHANGED <<mcn, faultless>>

(* Mutant: the codes of dropped tracks are read as well.                   *)
IsrcOfDroppedIsDue == pc = "isrc" /\ IsRead("isrc") /\ i <= toc.last

IsrcIsDue == pc = "isrc" /\ IsRead("isrc") /\ i <= disc.last

(* Mutant: the loop stays at the same track.                               *)
SameIsrc ==
    /\ Goto("isrc")
    /\ UNCHANGED <<fds, toc, i, disc, mcn, error_msg, success>>

NextIsrc ==
    /\ i' = i + 1
    /\ Goto("isrc")
    /\ UNCHANGED <<fds, toc, disc, mcn, error_msg, success>>

ReadIsrc ==
    /\ IsrcIsDue /\ medium # NoMedium
    /\ \E code \in CodeGiven(i \in IsrcTracks[medium], IsrcFlagIsChecked) :
          isrc' = [isrc EXCEPT ![i] = code]
    /\ NextIsrc /\ UNCHANGED faultless

IsrcFails ==
    /\ IsrcIsDue
    /\ faultless' = FALSE
    /\ NextIsrc /\ UNCHANGED isrc

(* The device is closed; the handle is cleared between the passes.         *)
CloseKeeping(handleAfterPreRead) ==
    /\ pc = "isrc" /\ ~ IsrcIsDue
    /\ fds' = fds - 1
    /\ IF pass = 1
       THEN /\ pass' = 2 /\ pc' = "find"
            /\ since' = IF since = "call" THEN "call" ELSE "pass"
            /\ handleAfterPreRead
            /\ UNCHANGED ret
       ELSE /\ pc' = "idle" /\ ret' = 1 /\ success' = TRUE
            /\ UNCHANGED <<pass, since, disc, mcn, isrc, error_msg>>
    /\ StillHere
    /\ UNCHANGED <<features, toc, i, faultless>>

(* Mutant: the handle is not cleared a second time.                        *)
CloseWithoutMemset == CloseKeeping(UNCHANGED handleVars)

Close == CloseKeeping(Blank)

Step ==
    \/ FindDevice \/ DeviceNotFound \/ NotImplemented \/ Open \/ OpenFails
    \/ ReadHeader \/ HeaderFails \/ ReadHeaderSolaris \/ HeaderFailsSolaris
    \/ ReadHeaderBsd \/ TableFailsBsd \/ ReadTableBsd
    \/ ReadHeaderDarwin \/ ReadHeaderHaiku \/ ReadTocWindows
    \/ ReadEntry \/ ReadEntryBeyondTable \/ EntryFails
    \/ ReadLeadOut \/ LeadOutFails
    \/ LoadRefused \/ Load
    \/ ReadMcn \/ McnFails \/ SkipMcn \/ ReadIsrc \/ IsrcFails \/ Close

Next == Swap \/ (\E asked \in SUBSET CodeFeature : Call(asked)) \/ Step

(* Every ioctl answers; nobody has to call or to change the medium.        *)
Spec == Init /\ [][Next]_vars /\ WF_vars(Step)

-----------------------------------------------------------------------------
(* Every variable keeps its type, whatever the drive does.                 *)
FlagTypes == ready \in BOOLEAN /\ success \in BOOLEAN /\ faultless \in BOOLEAN

DataTypes ==
    /\ pc \in {"idle", "find", "open", "header", "table", "entries", "load",
               "mcn", "isrc", "undefined", "aborted"}
    /\ build \in Builds /\ medium \in Media \cup {NoMedium}
    /\ pass \in {1, 2} /\ features \subseteq CodeFeature
    /\ fds \in {0, 1}
    /\ toc \in Toc /\ i \in Int
    /\ disc \in [first: Int, last: Int, offsets: [Slot -> Int]]
    /\ mcn \in Code /\ isrc \in [Slot -> Code]
    /\ ret \in {-1, 0, 1}
    /\ since \in {"none", "pass", "call"}

TypeOK == FlagTypes /\ DataTypes

(* Whichever of the many ways a call takes back to its caller, the device  *)
(* is closed, and it is open once while the call is at the drive.          *)
DeviceIsClosed ==
    fds = (IF pc \in {"idle", "find", "open"} THEN 0 ELSE 1)

(* A call that returns 0 leaves a message and an otherwise blank handle,   *)
(* even when the pre-read had succeeded or the handle held a disc before;  *)
(* one that returns 1 leaves a disc and no message.                        *)
OutcomeIsConsistent ==
    pc = "idle" =>
        /\ success <=> ret = 1
        /\ error_msg # "none" <=> ret = 0
        /\ success => disc # BlankDisc
        /\ ~ success => disc = BlankDisc /\ mcn = NoCode /\ isrc = NoIsrcs

(* No two media are mixed where there was one only: if the medium stayed   *)
(* in the drive for the final pass the disc is one that it showed, and if  *)
(* it stayed for the whole call it is the disc it shows once it is ready.  *)
(* (Where so much is trimmed that entries below the first track, which are *)
(* not initialised, are looked at, the number of tracks is undefined.)     *)
(* Haiku and Solaris load what lay in memory, and Windows takes every disc *)
(* for one that starts with track 1, see below.                            *)
WellNumbered(t) == t.first >= 1 /\ t.last <= MAX_TRACK

AsExpected(t) == WellNumbered(t) /\ (platform = "windows" => t.first = 1)

IsDiscOf(t) ==
    /\ Refusal(t) = "none"
    /\ LastTrack(t) >= t.first - 1 => disc = LoadedDisc(t)

SteadyDiscIsRead ==
    /\ pc = "idle" /\ ret = 1 /\ since # "none"
    /\ AsExpected(ReadyToc[medium]) /\ AsExpected(EarlyToc[medium])
    /\ platform \notin {"haiku", "solaris"}
    =>  /\ since = "pass" => IsDiscOf(EarlyToc[medium]) \/ IsDiscOf(ReadyToc[medium])
        /\ since = "call" => IsDiscOf(ReadyToc[medium])

(* A disc that can be loaded and stayed in the drive is read, unless the   *)
(* drive failed, where reading is implemented (disc_generic.c:38).         *)
(* Solaris is the exception, see below.                                    *)
Loadable(t) == AsExpected(t) /\ Refusal(t) = "none"

LoadableStayed ==
    /\ pc = "idle" /\ since = "call" /\ faultless /\ medium # NoMedium
    /\ Loadable(ReadyToc[medium]) /\ Loadable(EarlyToc[medium])

GoodDiscIsRead ==
    LoadableStayed /\ HasFeature("read") /\ platform # "solaris" => ret = 1

(* discid_read_sparse gives the codes that were asked for, of the tracks   *)
(* of the disc, and of the disc that was read; none else.  A drive that    *)
(* does not fail gives every code that its medium has, and no code where   *)
(* there is none, provided the platform looks at the flag that says so.    *)
IsCodeOf(code, exists, flagIsChecked) ==
    /\ exists => code = medium
    /\ ~ exists /\ flagIsChecked => code = NoCode

SparseReadsWhatIsAsked ==
    pc = "idle" /\ ret = 1 =>
        /\ mcn # NoCode => "mcn" \in features
        /\ \A k \in Slot : isrc[k] # NoCode => "isrc" \in features /\ k \in disc.first..disc.last
        /\ since # "none" =>
              /\ mcn \in {NoCode, Filler, medium}
              /\ \A k \in Slot : isrc[k] \in {NoCode, Filler, medium}
        /\ since # "none" /\ faultless /\ HasFeature("mcn") =>
              /\ "mcn" \in features => IsCodeOf(mcn, medium \in McnMedia, McnFlagIsChecked)
              /\ "isrc" \in features =>
                    \A k \in disc.first..disc.last :
                        IsCodeOf(isrc[k], k \in IsrcTracks[medium], IsrcFlagIsChecked)

(* However media, failures and left-over memory come together, a disc that *)
(* is reported starts at track 1 or later and its last track, slot 0 if    *)
(* there is none, starts before the lead-out.                              *)
ReportedDiscIsSane ==
    success => /\ disc.first >= 1
               /\ disc.last \in Slot
               /\ disc.offsets[disc.last] <= disc.offsets[0]

(* Every call returns, whatever is done to the drive meanwhile.            *)
CallReturns ==
    pc \notin {"idle", "undefined", "aborted"} ~> pc \in {"idle", "undefined", "aborted"}

(* The call implements ReadCall: passes, retries and half-filled handles   *)
(* cannot be told from a call that loads the disc, or nothing, at its end. *)
CallState ==
    IF pc \in {"undefined", "aborted"} THEN "dead"
    ELSE IF pc # "idle" THEN "busy"
    ELSE IF success THEN "loaded"
    ELSE IF error_msg = "none" THEN "unset" ELSE "failed"

AtRest(value, hidden) == IF pc = "idle" THEN value ELSE hidden

Caller == INSTANCE ReadCall WITH
             Codes <- Media \cup {Filler}, state <- CallState, asked <- features,
             disc <- AtRest(disc, BlankDisc), mcn <- AtRest(mcn, NoCode),
             isrc <- AtRest(isrc, NoIsrcs), reason <- AtRest(error_msg, "none")

ImplementsReadCall == Caller!Spec

-----------------------------------------------------------------------------
(* Statements of the repository that a platform does not live up to.       *)

(* discid_private.h:137, "return 1 if the feature is supported by the      *)
(* platform": where the feature is announced a good disc can be read.      *)
AnnouncedReadWorks == LoadableStayed /\ HasFeature("read") => ret = 1

(* disc_haiku.c:99, "All TOC entries were already read by                  *)
(* mb_disc_unix_read_toc_header()": those that are loaded are the disc's.  *)
AllEntriesWereRead ==
    pc = "load" /\ since = "call" /\ pass = 2 /\ toc.last = ReadyToc[medium].last =>
        \A k \in {0} \cup toc.first..toc.last : toc.tracks[k] = ReadyToc[medium].tracks[k]

(* disc_win32.c:194, "Lead-out is stored after the last track".            *)
LeadOutIsAfterLastTrack ==
    pc = "load" /\ since = "call" /\ pass = 2 =>
        toc.tracks[0] = ReadyToc[medium].tracks[0]
=============================================================================
