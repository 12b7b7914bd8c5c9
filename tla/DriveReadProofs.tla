--------------------------- MODULE DriveReadProofs ---------------------------
(***************************************************************************)
(* What a call of discid_read_sparse guarantees whatever the drive does,   *)
(* on every platform, for every size of the table, every set of media and  *)
(* every content of the stack.  Inv says how far a call has come at each   *)
(* place in the code; one case for each action shows that it is kept.      *)
(***************************************************************************)
EXTENDS DriveRead, DiscTocProofs

(* The handle as memset leaves it.                                         *)
HandleIsBlank == disc = BlankDisc /\ mcn = NoCode /\ isrc = NoIsrcs /\ ~ success

Sane(d) ==
    /\ d.first >= 1
    /\ d.last \in Slot
    /\ d.offsets[d.last] <= d.offsets[0]

AtDrive == {"header", "table", "entries", "load"}

(* Until mb_disc_load_toc has accepted the TOC nothing is stored.          *)
BlankInv ==
    /\ pc \in AtDrive \cup {"find", "open", "undefined", "aborted"} => HandleIsBlank
    /\ pc \in AtDrive \cup {"find", "open"} => error_msg = "none"

(* Afterwards the disc is there, and success not yet.                      *)
LoadedInv ==
    /\ pc \in {"mcn", "isrc"} => Sane(disc) /\ ~ success /\ error_msg = "none"
    /\ pc # "idle" => ret = 0

IdleInv ==
    pc = "idle" =>
        /\ success <=> ret = 1
        /\ error_msg # "none" <=> ret = 0
        /\ success => Sane(disc)
        /\ ~ success => HandleIsBlank

(* The loop has not left the table, so what gets as far as                 *)
(* mb_disc_load_toc has no more tracks than the table, or none.            *)
TableInv ==
    /\ pc = "entries" => i = toc.first \/ i <= MAX_TRACK + 1
    /\ pc = "load" => toc.last <= MAX_TRACK \/ toc.last < toc.first

Inv == DataTypes /\ DeviceIsClosed /\ BlankInv /\ LoadedInv /\ IdleInv /\ TableInv

-----------------------------------------------------------------------------
(* What the provers need to know of slot numbers.                          *)
LEMMA SlotFacts == MAX_TRACK \in Nat /\ 0 \in Slot /\ Slot \subseteq Int
BY TocConstants DEF Slot

(* What a drive with a medium answers is a TOC.                            *)
LEMMA ShownIsToc ==
    DataTypes /\ medium # NoMedium => Shown \in Toc /\ Shown.first \in Nat /\ Shown.last \in Nat
BY DriveConstants DEF DataTypes, Shown, Answer

(* A cleared handle has the types of the handle's fields.                  *)
LEMMA BlankTypes ==
    /\ BlankDisc \in [first: Int, last: Int, offsets: [Slot -> Int]]
    /\ NoCode \in Code /\ NoIsrcs \in [Slot -> Code]
BY DEF BlankDisc, NoOffsets, NoIsrcs, Code

(* What lies on the stack has the shape of a TOC.                          *)
LEMMA StackIsToc == \A t \in StackTocs : t \in Toc
BY DriveConstants

(* The invariant holds before the first call.                              *)
LEMMA InitInv == Init => Inv
<1> SUFFICES ASSUME Init PROVE Inv
  OBVIOUS
<1>1. DataTypes
  BY BlankTypes, StackIsToc DEF Init, DataTypes, Code
<1> QED
  BY <1>1 DEF Init, Inv, DeviceIsClosed, BlankInv, LoadedInv, IdleInv, TableInv, AtDrive,
              HandleIsBlank

(* Every way out of a call that failed.                                    *)
LEMMA ReturnKeepsInv ==
    ASSUME Inv, pc \in AtDrive \cup {"find", "open"}, NEW msg, Return0(msg), msg # "none",
           fds' = 0
    PROVE  Inv'
<1>1. DataTypes'
  BY DEF Inv, DataTypes, Return0, StillHere
<1>2. HandleIsBlank'
  BY DEF Inv, BlankInv, Return0, HandleIsBlank
<1> QED
  BY <1>1, <1>2 DEF Inv, Return0, DeviceIsClosed, BlankInv, LoadedInv, IdleInv, TableInv,
              AtDrive, HandleIsBlank

(* A call that closes the device and returns 0 leaves a blank handle.      *)
LEMMA RefuseKeepsInv ==
    ASSUME Inv, pc \in AtDrive, NEW msg, msg # "none",
           RefuseDisc(msg) \/ RefuseAfterFault(msg)
    PROVE  Inv'
<1>1. fds = 1
  BY DEF Inv, DeviceIsClosed, AtDrive
<1>2. Return0(msg) /\ fds' = 0
  BY <1>1 DEF RefuseDisc, RefuseAfterFault, Refuse, Inv, DataTypes
<1> QED BY <1>2, ReturnKeepsInv

(* So does one that never opened it.                                       *)
LEMMA FailKeepsInv ==
    ASSUME Inv, pc \in {"find", "open"}, NEW msg, msg # "none", FailBeforeOpen(msg)
    PROVE  Inv'
<1>1. Return0(msg) /\ fds' = 0
  BY DEF FailBeforeOpen, Inv, DeviceIsClosed
<1> QED BY <1>1, ReturnKeepsInv

(* A step with undefined behaviour, or a failed assertion, ends the program. *)
LEMMA StopKeepsInv ==
    ASSUME Inv, pc \in AtDrive, NEW how \in {"undefined", "aborted"}, Stop(how)
    PROVE  Inv'
BY DEF Inv, Stop, StillHere, handleVars, DataTypes, DeviceIsClosed, BlankInv, LoadedInv, IdleInv,
       TableInv, AtDrive, HandleIsBlank

(* A step to another place at the drive, which leaves the handle alone.    *)
LEMMA OnwardKeepsInv ==
    ASSUME Inv, pc \in AtDrive \cup {"find", "open"}, pc' \in AtDrive \cup {"open"},
           fds' = IF pc' = "open" THEN 0 ELSE 1,
           toc' \in Toc, i' \in Int, TableInv',
           UNCHANGED <<build, medium, pass, features, handleVars, ret, since>>
    PROVE  Inv'
<1>1. DataTypes'
  BY DEF Inv, DataTypes, handleVars, AtDrive
<1>2. HandleIsBlank' /\ error_msg' = "none"
  BY DEF Inv, BlankInv, HandleIsBlank, handleVars
<1> QED
  BY <1>1, <1>2 DEF Inv, DeviceIsClosed, BlankInv, LoadedInv, IdleInv, AtDrive

(* Storing a whole table starts the loop over entries, or refuses.         *)
LEMMA TableStoredKeepsInv ==
    ASSUME Inv, pc \in {"header", "table"}, NEW t \in Toc, TableStored(t)
    PROVE  Inv'
<1>1. fds = 1
  BY DEF Inv, DeviceIsClosed
<1>2. t.first \in Int
  BY DEF Toc
<1>3. CASE t.last = 0
  <2>1. HandleIsBlank
    BY DEF Inv, BlankInv, AtDrive
  <2>2. ret = 0
    BY DEF Inv, LoadedInv
  <2> QED BY <1>1, <1>2, <1>3, <2>1, <2>2
       DEF TableStored, Inv, DataTypes, DeviceIsClosed, BlankInv, LoadedInv, IdleInv, TableInv,
           AtDrive, HandleIsBlank
<1>4. CASE t.last # 0
  <2>1. TableInv'
    BY <1>4 DEF TableStored, TableInv
  <2> QED BY <1>1, <1>2, <1>4, <2>1, OnwardKeepsInv DEF TableStored, AtDrive, handleVars
<1> QED BY <1>3, <1>4

-----------------------------------------------------------------------------
(* Somebody changes the medium, or a call begins.                          *)
LEMMA FrameKeepsInv ==
    Inv /\ (UNCHANGED vars \/ Swap \/ \E asked \in SUBSET CodeFeature : Call(asked)) => Inv'
<1> SUFFICES ASSUME Inv PROVE /\ UNCHANGED vars => Inv'
                              /\ Swap => Inv'
                              /\ \A asked \in SUBSET CodeFeature : Call(asked) => Inv'
  OBVIOUS
<1>1. ASSUME UNCHANGED vars PROVE Inv'
  BY <1>1 DEF vars, handleVars, Inv, DataTypes, DeviceIsClosed, BlankInv, LoadedInv, IdleInv,
              TableInv, HandleIsBlank
<1>2. ASSUME Swap PROVE Inv'
  BY <1>2 DEF Swap, handleVars, Inv, DataTypes, DeviceIsClosed, BlankInv, LoadedInv, IdleInv,
              TableInv, HandleIsBlank
<1>3. ASSUME NEW asked \in SUBSET CodeFeature, Call(asked) PROVE Inv'
  <2> USE <1>3 DEF Call, CallFromPass, Blank, StillHere
  <2>1. DataTypes'
    BY BlankTypes DEF Inv, DataTypes
  <2> QED
    BY <2>1 DEF Inv, DeviceIsClosed, BlankInv, LoadedInv, IdleInv, TableInv, HandleIsBlank,
                AtDrive
<1> QED BY <1>1, <1>2, <1>3

(* Before the drive is open.                                               *)
LEMMA BeforeOpenKeepsInv ==
    Inv /\ (FindDevice \/ DeviceNotFound \/ NotImplemented \/ Open \/ OpenFails) => Inv'
<1> SUFFICES ASSUME Inv, FindDevice \/ DeviceNotFound \/ NotImplemented \/ Open \/ OpenFails
             PROVE  Inv'
  OBVIOUS
<1>t. toc \in Toc /\ i \in Int
  BY DEF Inv, DataTypes
<1>f. pc \in {"find", "open"} => fds = 0
  BY DEF Inv, DeviceIsClosed
<1>1. CASE FindDevice
  BY <1>1, <1>t, <1>f, OnwardKeepsInv
     DEF FindDevice, Goto, StillHere, handleVars, AtDrive, TableInv
<1>2. CASE DeviceNotFound
  BY <1>2, FailKeepsInv DEF DeviceNotFound
<1>3. CASE NotImplemented
  BY <1>3, <1>f, ReturnKeepsInv DEF NotImplemented
<1>4. CASE Open
  BY <1>4, <1>t, <1>f, OnwardKeepsInv, StackIsToc
     DEF Open, Goto, StillHere, handleVars, AtDrive, TableInv
<1>5. CASE OpenFails
  BY <1>5, FailKeepsInv DEF OpenFails
<1> QED BY <1>1, <1>2, <1>3, <1>4, <1>5

(* The drive answers for the whole table, or for its first and last track. *)
LEMMA NumberedIsToc == \A t \in Toc : toc \in Toc => Numbered(t) \in Toc
BY DEF Toc, Numbered

(* Reading the numbers of the first and last track, or failing to.         *)
LEMMA HeaderKeepsInv ==
    Inv /\ (\/ ReadHeader \/ HeaderFails \/ ReadHeaderSolaris \/ HeaderFailsSolaris
            \/ ReadHeaderBsd \/ TableFailsBsd) => Inv'
<1> SUFFICES ASSUME Inv, \/ ReadHeader \/ HeaderFails \/ ReadHeaderSolaris
                         \/ HeaderFailsSolaris \/ ReadHeaderBsd \/ TableFailsBsd
             PROVE  Inv'
  OBVIOUS
<1> USE DEF AtDrive
<1>t. toc \in Toc /\ i \in Int /\ toc.first \in Int
  BY DEF Inv, DataTypes, Toc
<1>f. pc \in {"header", "table"} => fds = 1
  BY DEF Inv, DeviceIsClosed
<1>1. CASE ReadHeader
  <2>1. Numbered(Shown) \in Toc /\ Numbered(Shown).first \in Int
    BY <1>1, <1>t, ShownIsToc, NumberedIsToc DEF ReadHeader, Inv, Toc
  <2>2. HeaderStored(Numbered(Shown)) /\ pc = "header"
    BY <1>1 DEF ReadHeader
  <2> HIDE DEF Numbered
  <2> QED
    BY <2>1, <2>2, <1>f, RefuseKeepsInv, OnwardKeepsInv
       DEF HeaderStored, Goto, StillHere, TableInv, handleVars
<1>2. CASE HeaderFails
  BY <1>2, RefuseKeepsInv DEF HeaderFails
<1>3. CASE ReadHeaderSolaris
  BY <1>3, RefuseKeepsInv DEF ReadHeaderSolaris
<1>4. CASE HeaderFailsSolaris
  <2>1. CASE RefuseAfterFault("no_tracks")
    BY <1>4, <2>1, RefuseKeepsInv DEF HeaderFailsSolaris
  <2>2. CASE ~ RefuseAfterFault("no_tracks")
    BY <1>4, <2>2, <1>t, <1>f, OnwardKeepsInv
    DEF HeaderFailsSolaris, Goto, StillHere, TableInv, handleVars
  <2> QED BY <2>1, <2>2
<1>5. CASE ReadHeaderBsd
  BY <1>5, <1>t, <1>f, ShownIsToc, NumberedIsToc, RefuseKeepsInv, OnwardKeepsInv
     DEF ReadHeaderBsd, Inv, Goto, StillHere, TableInv, handleVars
<1>6. CASE TableFailsBsd
  BY <1>6, RefuseKeepsInv DEF TableFailsBsd
<1> QED BY <1>1, <1>2, <1>3, <1>4, <1>5, <1>6

-----------------------------------------------------------------------------
(* The whole table at once.                                                *)
LEMMA EntryTypes ==
    ASSUME NEW t \in Toc
    PROVE  /\ \A k \in Slot : t.tracks[k] \in TocTrack
           /\ \A k \in Int : TrackOf(t, k) \in TocTrack
           /\ BlankEntry \in TocTrack
<1>1. \A k \in Slot : t.tracks[k] \in TocTrack
  BY DEF Toc
<1>2. BlankEntry \in TocTrack
  BY DEF BlankEntry, TocTrack, Control
<1> QED BY <1>1, <1>2 DEF TrackOf

(* A TOC with another table is a TOC.                                      *)
LEMMA TableIsToc ==
    ASSUME NEW first \in Int, NEW last \in Int, NEW table \in [Slot -> TocTrack]
    PROVE  [first |-> first, last |-> last, tracks |-> table] \in Toc
BY DEF Toc

(* The second ioctl of BSD.                                                *)
LEMMA BsdKeepsInv == Inv /\ ReadTableBsd => Inv'
<1> SUFFICES ASSUME Inv, ReadTableBsd PROVE Inv'
  OBVIOUS
<1> DEFINE t == Shown
           skipped == IF t.first > toc.first THEN t.first - toc.first ELSE 0
           Number(j) == j + skipped
           Entry(j) == IF Number(j) <= t.last THEN TrackOf(t, Number(j))
                       ELSE IF Number(j) = t.last + 1 THEN t.tracks[0]
                       ELSE BlankEntry
           table == [k \in Slot |-> IF k = 0 THEN Entry(toc.last + 1)
                                    ELSE IF k \in toc.first..toc.last THEN Entry(k)
                                    ELSE toc.tracks[k]]
<1>1. t \in Toc /\ toc \in Toc
  BY ShownIsToc DEF ReadTableBsd, Inv, DataTypes
<1>2. t.first \in Int /\ t.last \in Int /\ toc.first \in Int /\ toc.last \in Int
  BY <1>1 DEF Toc
<1>3. \A j \in Int : Entry(j) \in TocTrack
  <2>1. \A j \in Int : Number(j) \in Int
    BY <1>2
  <2> HIDE DEF Number
  <2> QED BY <1>1, <2>1, EntryTypes, SlotFacts
<1>4. table \in [Slot -> TocTrack]
  <2> HIDE DEF Entry
  <2> QED BY <1>1, <1>2, <1>3, EntryTypes, SlotFacts
<1>5. WithTable(table) \in Toc
  BY <1>2, <1>4, TableIsToc DEF WithTable
<1>6. pc = "table" /\ \/ Stop("aborted") \/ Stop("undefined")
                      \/ TableStored(WithTable(table))
  BY DEF ReadTableBsd
<1> HIDE DEF table
<1> QED BY <1>5, <1>6, StopKeepsInv, TableStoredKeepsInv DEF AtDrive

(* The descriptors of Darwin.                                              *)
LEMMA DarwinKeepsInv == Inv /\ ReadHeaderDarwin => Inv'
<1> SUFFICES ASSUME Inv, ReadHeaderDarwin PROVE Inv'
  OBVIOUS
<1> DEFINE present == {k \in 1..MAX_TRACK : k >= Shown.first /\ k <= Shown.last}
           lowest == CHOOSE k \in present : \A j \in present : k <= j
           highest == CHOOSE k \in present : \A j \in present : k >= j
           first == IF present = {} THEN -1 ELSE lowest
           last == IF present = {} THEN -1 ELSE highest
           table == [k \in Slot |-> IF k \in present \cup {0} THEN Shown.tracks[k]
                                                              ELSE toc.tracks[k]]
<1>1. Shown \in Toc /\ toc \in Toc
  BY ShownIsToc DEF ReadHeaderDarwin, Inv, DataTypes
<1>2. first \in Int /\ last \in Int
  <2>1. ASSUME present # {} PROVE lowest \in present /\ highest \in present
    <3>1. present \in SUBSET (1..MAX_TRACK) /\ 1 \in Int /\ MAX_TRACK \in Int
      BY TocConstants
    <3> HIDE DEF present
    <3>2. \E k \in present : \A j \in present : k >= j
      BY <2>1, <3>1, Greatest
    <3>3. \E k \in present : \A j \in present : k <= j
      BY <2>1, <3>1, Least
    <3> QED BY <3>2, <3>3
  <2>2. \A k \in present : k \in Int
    BY TocConstants
  <2>3. CASE present = {}
    <3> HIDE DEF present
    <3> QED BY <2>3
  <2>4. CASE present # {}
    <3> HIDE DEF present, lowest, highest
    <3>1. lowest \in Int /\ highest \in Int
      BY <2>1, <2>2, <2>4, Zenon
    <3> QED BY <2>4, <3>1
  <2> QED BY <2>3, <2>4
<1>3. table \in [Slot -> TocTrack]
  BY <1>1, EntryTypes, SlotFacts
<1>4. /\ pc = "header"
      /\ TableStored([first |-> first, last |-> last, tracks |-> table])
  BY DEF ReadHeaderDarwin
<1> HIDE DEF first, last, table
<1>5. [first |-> first, last |-> last, tracks |-> table] \in Toc
  BY <1>2, <1>3, TableIsToc
<1> QED BY <1>4, <1>5, TableStoredKeepsInv

(* The table of Haiku.                                                     *)
LEMMA HaikuKeepsInv == Inv /\ ReadHeaderHaiku => Inv'
<1> SUFFICES ASSUME Inv, ReadHeaderHaiku PROVE Inv'
  OBVIOUS
<1> DEFINE table == [k \in Slot |-> IF k \in Shown.first..Shown.last
                                    THEN Shown.tracks[k] ELSE toc.tracks[k]]
<1>1. Shown \in Toc /\ toc \in Toc /\ Shown.first \in Int /\ Shown.last \in Int
  BY ShownIsToc DEF ReadHeaderHaiku, Inv, DataTypes, Toc
<1>2. table \in [Slot -> TocTrack]
  BY <1>1, EntryTypes
<1>3. /\ pc = "header"
      /\ \/ RefuseDisc("header") \/ Stop("undefined")
         \/ TableStored([first |-> Shown.first, last |-> Shown.last, tracks |-> table])
  BY DEF ReadHeaderHaiku
<1> HIDE DEF table
<1>4. [first |-> Shown.first, last |-> Shown.last, tracks |-> table] \in Toc
  BY <1>1, <1>2, TableIsToc
<1> QED BY <1>3, <1>4, RefuseKeepsInv, StopKeepsInv, TableStoredKeepsInv DEF AtDrive

(* The table of Windows, which may reach behind the lead-out.              *)
LEMMA WindowsKeepsInv == Inv /\ ReadTocWindows => Inv'
<1> SUFFICES ASSUME Inv, ReadTocWindows PROVE Inv'
  OBVIOUS
<1>1. /\ Shown \in Toc /\ toc \in Toc /\ i \in Int
      /\ Shown.first \in Int /\ Shown.last \in Int /\ MAX_TRACK \in Int
  BY ShownIsToc, TocConstants DEF ReadTocWindows, Inv, DataTypes, Toc
<1>2. pc = "header" /\ fds = 1
  BY DEF ReadTocWindows, Inv, DeviceIsClosed
<1>3. CASE Stop("undefined")
  BY <1>2, <1>3, StopKeepsInv DEF AtDrive
<1>4. CASE ~ Stop("undefined")
  <2>1. Shown.last <= MAX_TRACK /\ Shown.first >= 1 /\ Shown.last \in Nat
    BY <1>1, <1>4, ShownIsToc DEF ReadTocWindows, Inv
  <2>2. PICK junk \in StackTocs :
            LET TrackData(n) == IF n + Shown.first <= Shown.last
                                THEN Shown.tracks[n + Shown.first]
                                ELSE IF n + Shown.first = Shown.last + 1
                                THEN Shown.tracks[0] ELSE junk.tracks[0]
            IN  /\ toc' = [first  |-> Shown.first,
                           last   |-> Shown.last,
                           tracks |-> [k \in Slot |->
                                IF k = 0 THEN TrackData(Shown.last)
                                ELSE IF k \in Shown.first..Shown.last THEN TrackData(k - 1)
                                ELSE toc.tracks[k]]]
                /\ ready' = TRUE /\ pc' = "load"
                /\ UNCHANGED <<build, medium, pass, features, fds, i, handleVars,
                               ret, since, faultless>>
    BY <1>4, <2>1 DEF ReadTocWindows
  <2> DEFINE TrackData(n) == IF n + Shown.first <= Shown.last
                             THEN Shown.tracks[n + Shown.first]
                             ELSE IF n + Shown.first = Shown.last + 1
                             THEN Shown.tracks[0] ELSE junk.tracks[0]
             table == [k \in Slot |->
                           IF k = 0 THEN TrackData(Shown.last)
                           ELSE IF k \in Shown.first..Shown.last THEN TrackData(k - 1)
                           ELSE toc.tracks[k]]
  <2>3. \A n \in Nat : n + Shown.first >= 1 => TrackData(n) \in TocTrack
    BY <1>1, <2>1, StackIsToc, EntryTypes, SlotFacts DEF Slot
  <2>4. table \in [Slot -> TocTrack]
    <3>1. Shown.first >= 1 => \A n \in Nat : TrackData(n) \in TocTrack
      BY <1>1, <2>3
    <3> QED BY <1>1, <2>1, <2>3, EntryTypes, SlotFacts DEF Slot
  <2> HIDE DEF table
  <2>5. toc' \in Toc /\ toc'.last <= MAX_TRACK
    BY <1>1, <2>1, <2>2, <2>4, TableIsToc DEF table
  <2>6. TableInv'
    BY <2>2, <2>5 DEF TableInv
  <2> QED BY <1>1, <1>2, <2>2, <2>5, <2>6, OnwardKeepsInv DEF AtDrive
<1> QED BY <1>3, <1>4

-----------------------------------------------------------------------------
(* The loop over the entries, and the lead-out.                            *)
LEMMA WithEntryIsToc ==
    ASSUME toc \in Toc, NEW k, NEW entry, k \in Slot => entry \in TocTrack
    PROVE  /\ WithEntry(k, entry) \in Toc
           /\ WithEntry(k, entry).first = toc.first /\ WithEntry(k, entry).last = toc.last
<1>1. toc.first \in Int /\ toc.last \in Int /\ toc.tracks \in [Slot -> TocTrack]
  BY DEF Toc
<1>2. [toc.tracks EXCEPT ![k] = entry] \in [Slot -> TocTrack]
  BY <1>1
<1> QED BY <1>1, <1>2 DEF WithEntry, Toc

(* The loop over entries does not leave the table.                         *)
LEMMA EntriesKeepInv ==
    Inv /\ (ReadEntry \/ ReadEntryBeyondTable \/ EntryFails \/ ReadLeadOut \/ LeadOutFails)
        => Inv'
<1> SUFFICES ASSUME Inv, \/ ReadEntry \/ ReadEntryBeyondTable \/ EntryFails
                         \/ ReadLeadOut \/ LeadOutFails
             PROVE  Inv'
  OBVIOUS
<1>t. /\ toc \in Toc /\ i \in Int /\ toc.first \in Int /\ toc.last \in Int
      /\ MAX_TRACK \in Nat
  BY TocConstants DEF Inv, DataTypes, Toc
<1>f. pc = "entries" => fds = 1 /\ (i = toc.first \/ i <= MAX_TRACK + 1)
  BY DEF Inv, DeviceIsClosed, TableInv
<1>1. CASE ReadEntry
  <2>1. toc' \in Toc /\ toc'.first = toc.first
    <3>1. CASE UNCHANGED toc
      BY <1>t, <3>1
    <3>2. CASE medium # NoMedium /\ toc' = WithEntry(i, Shown.tracks[i])
      <4>1. Shown \in Toc
        BY <3>2, ShownIsToc DEF Inv
      <4>2. i \in Slot => Shown.tracks[i] \in TocTrack
        BY <4>1, EntryTypes
      <4> QED BY <1>t, <3>2, <4>2, WithEntryIsToc
    <3> QED BY <1>1, <3>1, <3>2 DEF ReadEntry
  <2>2. pc = "entries" /\ pc' = "entries" /\ i' = i + 1 /\ i <= MAX_TRACK
    BY <1>1 DEF ReadEntry, EntryIsDue, Goto
  <2>3. TableInv'
    BY <1>t, <2>2 DEF TableInv
  <2> QED
    BY <1>1, <1>t, <1>f, <2>1, <2>2, <2>3, OnwardKeepsInv
       DEF ReadEntry, Goto, StillHere, handleVars, AtDrive
<1>2. CASE ReadEntryBeyondTable
  BY <1>2, StopKeepsInv DEF ReadEntryBeyondTable, EntryIsDue, AtDrive
<1>3. CASE EntryFails
  BY <1>3, RefuseKeepsInv DEF EntryFails, EntryIsDue, AtDrive
<1>4. CASE ReadLeadOut
  <2>1. toc' \in Toc /\ toc'.first = toc.first /\ toc'.last = toc.last
    <3>1. CASE UNCHANGED <<toc, ready>>
      BY <1>t, <3>1
    <3>2. CASE medium # NoMedium /\ toc' = WithEntry(0, Shown.tracks[0])
      <4>1. Shown.tracks[0] \in TocTrack
        BY <3>2, ShownIsToc, EntryTypes, SlotFacts DEF Inv
      <4> QED BY <1>t, <3>2, <4>1, WithEntryIsToc
    <3> QED BY <1>4, <3>1, <3>2 DEF ReadLeadOut
  <2>2. pc = "entries" /\ pc' = "load" /\ i > toc.last
    BY <1>4, <1>t DEF ReadLeadOut, EntryIsDue
  <2>3. TableInv'
    BY <1>t, <1>f, <2>1, <2>2 DEF TableInv
  <2> QED
    BY <1>4, <1>t, <1>f, <2>1, <2>2, <2>3, OnwardKeepsInv DEF ReadLeadOut, handleVars, AtDrive
<1>5. CASE LeadOutFails
  BY <1>5, RefuseKeepsInv DEF LeadOutFails, AtDrive
<1> QED BY <1>1, <1>2, <1>3, <1>4, <1>5

(* A TOC that is not refused has tracks, hence none behind the table.      *)
LEMMA LoadKeepsInv == Inv /\ (LoadRefused \/ Load) => Inv'
<1> SUFFICES ASSUME Inv, LoadRefused \/ Load PROVE Inv'
  OBVIOUS
<1>1. CASE LoadRefused
  BY <1>1, RefuseKeepsInv DEF LoadRefused, AtDrive
<1>2. CASE Load
  <2>1. toc \in Toc /\ toc.first \in Int /\ toc.last \in Int /\ MAX_TRACK \in Nat
    BY TocConstants DEF Inv, DataTypes, Toc
  <2>2. Refusal(toc) = "none" /\ pc = "load" /\ disc' = LoadedDisc(toc) /\ pc' = "mcn"
    BY <1>2 DEF Load, Goto
  <2>3. toc.first <= toc.last
    <3>1. AudioTracks(toc) # {}
      BY <2>1, <2>2 DEF Refusal
    <3> QED BY <2>1, <3>1 DEF AudioTracks
  <2>4. toc.last <= MAX_TRACK
    BY <2>1, <2>2, <2>3 DEF Inv, TableInv
  <2>5. Sane(disc)' /\ disc' \in [first: Int, last: Int, offsets: [Slot -> Int]]
    BY <2>1, <2>2, <2>4, LoadedDiscIsSane DEF Sane
  <2>6. ~ success /\ error_msg = "none"
    BY <2>2 DEF Inv, BlankInv, AtDrive, HandleIsBlank
  <2>7. DataTypes'
    BY <1>2, <2>5 DEF Load, Goto, StillHere, Inv, DataTypes
  <2> QED
    BY <1>2, <2>5, <2>6, <2>7
       DEF Load, Goto, StillHere, Inv, DeviceIsClosed, BlankInv, LoadedInv, IdleInv, TableInv,
           AtDrive
<1> QED BY <1>1, <1>2

-----------------------------------------------------------------------------
(* MCN and ISRCs touch nothing else of the handle.                         *)
LEMMA CodesKeepInv == Inv /\ (ReadMcn \/ McnFails \/ SkipMcn \/ ReadIsrc \/ IsrcFails) => Inv'
<1> SUFFICES ASSUME Inv, ReadMcn \/ McnFails \/ SkipMcn \/ ReadIsrc \/ IsrcFails PROVE Inv'
  OBVIOUS
<1>1. /\ pc \in {"mcn", "isrc"} /\ pc' = "isrc"
      /\ UNCHANGED <<build, medium, pass, features, fds, toc, disc, error_msg, success,
                     ret, since>>
  BY DEF ReadMcn, McnFails, SkipMcn, ReadIsrc, IsrcFails, IsrcIsDue, GotoIsrcs, NextIsrc,
         Goto, StillHere
<1>2. i' \in Int
  <2>1. i' = disc.first \/ i' = i + 1
    BY DEF ReadMcn, McnFails, SkipMcn, ReadIsrc, IsrcFails, GotoIsrcs, NextIsrc
  <2> QED BY <2>1 DEF Inv, DataTypes
<1>c. ASSUME NEW exists, NEW flagIsChecked, medium # NoMedium
      PROVE  CodeGiven(exists, flagIsChecked) \subseteq Code
  <2>1. medium \in Media
    BY <1>c DEF Inv, DataTypes
  <2> QED BY <2>1 DEF CodeGiven, Code
<1>3. mcn' \in Code
  <2>1. CASE ReadMcn
    <3>1. CodeGiven(medium \in McnMedia, McnFlagIsChecked) \subseteq Code
      BY <2>1, <1>c DEF ReadMcn
    <3> QED BY <2>1, <3>1 DEF ReadMcn
  <2>2. CASE ~ ReadMcn
    BY <2>2 DEF McnFails, SkipMcn, ReadIsrc, IsrcFails, NextIsrc, Inv, DataTypes
  <2> QED BY <2>1, <2>2
<1>4. isrc' \in [Slot -> Code]
  <2>1. CASE ReadIsrc
    <3>1. CodeGiven(i \in IsrcTracks[medium], IsrcFlagIsChecked) \subseteq Code
      BY <2>1, <1>c DEF ReadIsrc
    <3>2. PICK code \in Code : isrc' = [isrc EXCEPT ![i] = code]
      BY <2>1, <3>1 DEF ReadIsrc
    <3> QED BY <3>2 DEF Inv, DataTypes
  <2>2. CASE ~ ReadIsrc
    BY <2>2 DEF ReadMcn, McnFails, SkipMcn, IsrcFails, GotoIsrcs, NextIsrc, Inv, DataTypes
  <2> QED BY <2>1, <2>2
<1>5. DataTypes'
  BY <1>1, <1>2, <1>3, <1>4 DEF Inv, DataTypes
<1> QED
  BY <1>1, <1>5 DEF Inv, DeviceIsClosed, BlankInv, LoadedInv, IdleInv, TableInv, AtDrive, Sane

(* The end of a pass: a blank handle before the second, or the disc.       *)
LEMMA CloseKeepsInv == Inv /\ Close => Inv'
<1> SUFFICES ASSUME Inv, Close PROVE Inv'
  OBVIOUS
<1>1. pc = "isrc" /\ fds = 1 /\ fds' = 0 /\ Sane(disc) /\ ~ success /\ error_msg = "none"
  BY DEF Close, CloseKeeping, Inv, DeviceIsClosed, LoadedInv
<1>2. CASE pass = 1
  <2> USE <1>1, <1>2 DEF Close, CloseKeeping, Blank, StillHere
  <2>1. since' \in {"none", "pass", "call"}
    BY DEF Inv, DataTypes
  <2>2. DataTypes'
    BY <2>1, BlankTypes DEF Inv, DataTypes
  <2> QED
    BY <2>2 DEF Inv, DeviceIsClosed, BlankInv, LoadedInv, IdleInv, TableInv, HandleIsBlank,
                AtDrive
<1>3. CASE pass # 1
  <2> USE <1>1, <1>3 DEF Close, CloseKeeping, StillHere
  <2>1. DataTypes'
    BY DEF Inv, DataTypes
  <2> QED
    BY <2>1 DEF Inv, DeviceIsClosed, BlankInv, LoadedInv, IdleInv, TableInv, AtDrive, Sane
<1> QED BY <1>2, <1>3

(* Every step preserves the invariant.                                     *)
LEMMA NextInv == Inv /\ [Next]_vars => Inv'
BY FrameKeepsInv, BeforeOpenKeepsInv, HeaderKeepsInv, BsdKeepsInv, DarwinKeepsInv,
   HaikuKeepsInv, WindowsKeepsInv, EntriesKeepInv, LoadKeepsInv, CodesKeepInv, CloseKeepsInv
   DEF Next, Step

(* The invariant holds in every behaviour.                                 *)
LEMMA InvHolds == Spec => []Inv
BY InitInv, NextInv, PTL DEF Spec

-----------------------------------------------------------------------------
(* The types of the flags, which depend on no other variable.              *)
(* The flags depend on no other variable.                                  *)
LEMMA FlagsKeepTypes == FlagTypes /\ [Next]_vars => FlagTypes'
<1> SUFFICES ASSUME FlagTypes, [Next]_vars PROVE FlagTypes'
  OBVIOUS
<1> USE DEF Next, vars, handleVars, Swap, Call, CallFromPass, Blank, Step, FindDevice,
        DeviceNotFound, NotImplemented, Open, OpenFails, ReadHeader, HeaderFails,
        ReadHeaderSolaris, HeaderFailsSolaris, ReadHeaderBsd, TableFailsBsd, ReadTableBsd,
        ReadHeaderDarwin, ReadHeaderHaiku, ReadTocWindows, ReadEntry, ReadEntryBeyondTable,
        EntryFails, ReadLeadOut, LeadOutFails, LoadRefused, Load, ReadMcn, McnFails, SkipMcn,
        ReadIsrc, IsrcFails, Close, CloseKeeping, Goto, GotoIsrcs, NextIsrc, StillHere,
        Return0, Stop, FailBeforeOpen, Refuse, RefuseDisc, RefuseAfterFault, HeaderStored,
        TableStored
<1>1. ready' \in {ready, TRUE, FALSE}
  BY Zenon
<1>2. success' \in {success, TRUE, FALSE}
  BY Zenon
<1>3. faultless' \in {faultless, TRUE, FALSE}
  BY Zenon
<1> QED BY <1>1, <1>2, <1>3, Zenon DEF FlagTypes

(* Every variable keeps its type, on every platform.                       *)
THEOREM TypeCorrect == Spec => []TypeOK
<1>1. Init => FlagTypes
  BY Zenon DEF Init, FlagTypes
<1>2. Inv => DataTypes
  BY DEF Inv
<1> QED BY <1>1, <1>2, FlagsKeepTypes, InvHolds, PTL DEF Spec, TypeOK

(* However a call ends, it has closed the device.                          *)
THEOREM DeviceGetsClosed == Spec => []DeviceIsClosed
<1>1. Inv => DeviceIsClosed
  BY DEF Inv
<1> QED BY <1>1, InvHolds, PTL

(* A call that failed leaves nothing of its pre-read or of the disc that   *)
(* was there before it.                                                    *)
THEOREM OutcomesAreConsistent == Spec => []OutcomeIsConsistent
<1>1. Inv => OutcomeIsConsistent
  BY DEF Inv, IdleInv, Sane, HandleIsBlank, BlankDisc, OutcomeIsConsistent
<1> QED BY <1>1, InvHolds, PTL

(* What is reported is a disc, also where it was put together from two     *)
(* media, from left-over memory, or from a table that claims too much.     *)
THEOREM ReportedDiscsAreSane == Spec => []ReportedDiscIsSane
<1>1. Inv => ReportedDiscIsSane
  BY DEF Inv, IdleInv, BlankInv, LoadedInv, AtDrive, HandleIsBlank, DataTypes, Sane,
         ReportedDiscIsSane
<1> QED BY <1>1, InvHolds, PTL

-----------------------------------------------------------------------------
(* A medium that stays in the drive is the disc that is reported, and the  *)
(* pre-read of discid_read_sparse is what makes it the disc that is there  *)
(* once the drive is ready.  The argument: as long as since # "none" the   *)
(* table being put together is that of one TOC the medium has shown        *)
(* (TocInv), and a table that was read to its end leaves a medium ready    *)
(* (ReadyInv), so that the final pass sees the TOC of a ready medium.      *)
(* As that TOC is not refused, a good disc is not missed either            *)
(* (ServedInv).                                                            *)

(* Two tables that mb_disc_load_toc cannot tell apart.                     *)
Agrees(u, t) ==
    /\ u.first = t.first /\ u.last = t.last
    /\ u.tracks[0] = t.tracks[0]
    /\ \A k \in t.first..t.last : u.tracks[k] = t.tracks[k]

Watched == since # "none" /\ platform \notin {"haiku", "solaris"}
Expected == AsExpected(ReadyToc[medium]) /\ AsExpected(EarlyToc[medium])

(* What the medium may have shown in this pass.                            *)
HasShown(t) ==
    /\ t \in {EarlyToc[medium], ReadyToc[medium]}
    /\ pass = 2 /\ since = "call" => t = ReadyToc[medium]

ReadyInv ==
    since # "none" =>
        /\ pass = 2 /\ since = "call" => ready
        /\ pc \in {"load", "mcn", "isrc"} => ready
        /\ pc = "entries" /\ platform \in AtOnce => ready

(* A table that mb_disc_load_toc accepts, or accepts if it is the medium's.*)
Accepted == Refusal(EarlyToc[medium]) = "none" /\ Refusal(ReadyToc[medium]) = "none"
Due(u) == Refusal(u) = "none" \/ Accepted

HasRead == pc = "idle" /\ ret = 1

MediumInv ==
    /\ Watched /\ (pc \in {"table", "entries", "load", "mcn", "isrc"} \/ HasRead) =>
           medium \in Media
    /\ HasRead => pass = 2

EntryByEntry == pc = "entries" /\ platform \notin AtOnce
TableIsThere == pc = "load" \/ (pc = "entries" /\ platform \in AtOnce)
DiscIsThere == pc \in {"mcn", "isrc"} \/ HasRead

TocInv ==
    /\ pc = "table" => platform = "bsd"
    /\ Watched /\ Expected =>
         /\ pc = "table" \/ EntryByEntry => toc.first = Shown.first /\ toc.last = Shown.last
         /\ EntryByEntry =>
              /\ i >= toc.first
              /\ \A k \in toc.first..(i - 1) : k <= toc.last => toc.tracks[k] = Shown.tracks[k]
         /\ TableIsThere /\ Due(toc) => \E t : HasShown(t) /\ Agrees(toc, t)
         /\ DiscIsThere => \E t : HasShown(t) /\ IsDiscOf(t)

SteadyInv == ReadyInv /\ MediumInv /\ TocInv

-----------------------------------------------------------------------------
(* TOCs that agree on their tracks have the same audio tracks.             *)
LEMMA AgreeingAudio ==
    ASSUME NEW t \in Toc, NEW u \in Toc, Agrees(u, t)
    PROVE  /\ AudioTracks(u) = AudioTracks(t)
           /\ Refusal(u) = Refusal(t)
<1>1. AudioTracks(u) = AudioTracks(t)
  BY DEF AudioTracks, Agrees
<1> QED BY <1>1 DEF Refusal, Agrees

(* Where the trimming loop does not go below the first track it never      *)
(* looks at entries that were not read.                                    *)
LEMMA AgreeingDiscs ==
    ASSUME NEW t \in Toc, NEW u \in Toc, Agrees(u, t), Refusal(t) = "none",
           t.last <= MAX_TRACK, LastTrack(t) >= t.first - 1
    PROVE  LoadedDisc(u) = LoadedDisc(t)
<1> DEFINE m == LastTrack(t)
           L == LastAudio(t)
<1>1. /\ t.first \in Int /\ t.last \in Int /\ t.first >= 1 /\ AudioTracks(t) # {}
      /\ u.first = t.first /\ u.last = t.last
  BY TocTypes DEF Refusal, Agrees
<1>2. /\ L \in AudioTracks(t) /\ (\A k \in AudioTracks(t) : k <= L)
      /\ AudioTracks(t) \subseteq t.first..t.last
  BY <1>1, LastAudioExists DEF AudioTracks
<1>3. L \in Nat /\ L \in t.first..t.last /\ LastAudio(u) = L
  <2>1. LastAudio(u) = L
    BY <1>2, AgreeingAudio, LastAudioIsGreatest
  <2> QED BY <1>1, <1>2, <2>1
<1>4. /\ m \in 0..L /\ m >= t.first - 1 /\ Covered(t, m)
      /\ \A j \in (m + 1)..L : ~ Covered(t, j)
  BY <1>3, LastTrackExists
<1>5. \A k \in m..L : LeadOutAfter(u, k) = LeadOutAfter(t, k) /\ Stored(u, k) = Stored(t, k)
  <2>1. SUFFICES ASSUME NEW k \in m..L
                 PROVE  LeadOutAfter(u, k) = LeadOutAfter(t, k) /\ Stored(u, k) = Stored(t, k)
    OBVIOUS
  <2>2. k \in Int /\ k <= t.last /\ k >= t.first - 1
    BY <1>1, <1>3, <1>4
  <2>3. LeadOutAfter(u, k) = LeadOutAfter(t, k)
    <3>1. k = t.last \/ k + 1 \in t.first..t.last
      BY <1>1, <2>2
    <3> QED BY <1>1, <3>1 DEF LeadOutAfter, Agrees
  <2>4. Stored(u, k) = Stored(t, k)
    <3>1. k >= t.first => k \in t.first..t.last
      BY <1>1, <2>2
    <3> QED BY <1>1, <3>1 DEF Stored, Agrees
  <2> QED BY <2>3, <2>4
<1>6. \A k \in m..L : Covered(u, k) <=> Covered(t, k)
  BY <1>5 DEF Covered
<1>7. LastTrack(u) = m
  <2>1. m \in m..L /\ \A j \in (m + 1)..L : j \in m..L
    BY <1>3, <1>4
  <2>2. Covered(u, m) /\ \A j \in (m + 1)..L : ~ Covered(u, j)
    BY <1>4, <1>6, <2>1
  <2> QED BY <1>3, <1>4, <2>2, LastTrackIsGreatest
<1>8. TableWithLast(u, m) = TableWithLast(t, m)
  <2>1. LeadOutAfter(u, m) = LeadOutAfter(t, m)
    BY <1>3, <1>4, <1>5
  <2>2. \A k \in t.first..m : u.tracks[k] = t.tracks[k]
    BY <1>1, <1>3, <1>4 DEF Agrees
  <2> QED BY <1>1, <2>1, <2>2 DEF TableWithLast
<1> QED BY <1>1, <1>7, <1>8 DEF LoadedDisc

-----------------------------------------------------------------------------
(* Nothing is known of the medium before the first call.                   *)
LEMMA SteadyInit == Init => SteadyInv
BY DEF Init, SteadyInv, ReadyInv, MediumInv, TocInv, Watched, EntryByEntry, TableIsThere,
       DiscIsThere, HasRead

(* A step that leaves the call where nothing is known yet, or ends it      *)
(* without a disc.                                                         *)
LEMMA AwayKeepsSteadyInv ==
    ASSUME SteadyInv, pc' \in {"find", "open", "header", "idle", "undefined", "aborted"},
           pc' = "idle" => ret' = 0,
           UNCHANGED <<build, medium, ready, pass, since>>
    PROVE  SteadyInv'
BY DEF platform, SteadyInv, ReadyInv, MediumInv, TocInv, Watched, EntryByEntry, TableIsThere,
       DiscIsThere, HasRead

(* Another medium: nothing is known of it.                                 *)
LEMMA SwapKeepsSteadyInv == SteadyInv /\ Swap => SteadyInv'
BY DEF Swap, platform, SteadyInv, ReadyInv, MediumInv, TocInv, Watched, HasRead

(* A call begins with a first pass that has read nothing.                  *)
LEMMA CallKeepsSteadyInv ==
    SteadyInv /\ (\E asked \in SUBSET CodeFeature : Call(asked)) => SteadyInv'
BY DEF Call, CallFromPass, StillHere, platform, SteadyInv, ReadyInv, MediumInv, TocInv, Watched,
       EntryByEntry, TableIsThere, DiscIsThere, HasRead

(* A step that changes nothing.                                            *)
LEMMA StutterKeepsSteadyInv == SteadyInv /\ UNCHANGED vars => SteadyInv'
BY DEF vars, handleVars, platform, SteadyInv, ReadyInv, MediumInv, TocInv, Watched, Expected, Shown,
       AsExpected, Accepted, Due, HasShown, IsDiscOf, EntryByEntry, TableIsThere, DiscIsThere,
       HasRead

(* The ways out of a call, and those that lead to the header.              *)
LEMMA AwaySteps ==
    SteadyInv /\ (\/ FindDevice \/ DeviceNotFound \/ NotImplemented \/ Open \/ OpenFails
                  \/ HeaderFails \/ ReadHeaderSolaris \/ TableFailsBsd
                  \/ ReadEntryBeyondTable \/ EntryFails \/ LeadOutFails \/ LoadRefused)
        => SteadyInv'
BY AwayKeepsSteadyInv
   DEF FindDevice, DeviceNotFound, NotImplemented, Open, OpenFails, HeaderFails,
       ReadHeaderSolaris, TableFailsBsd, ReadEntryBeyondTable, EntryFails, LeadOutFails,
       LoadRefused, FailBeforeOpen, RefuseAfterFault, RefuseDisc, Refuse, Return0, Stop, Goto,
       StillHere

-----------------------------------------------------------------------------
(* While the drive answers, what it shows is what the medium has shown.    *)
LEMMA ShownHasBeenShown ==
    SteadyInv /\ since # "none" => HasShown(Shown)
BY DEF SteadyInv, ReadyInv, HasShown, Shown

(* The numbers that are stored are those the medium shows.                 *)
LEMMA HeaderSteps ==
    SteadyInv /\ Inv /\ (ReadHeader \/ HeaderFailsSolaris \/ ReadHeaderBsd) => SteadyInv'
<1> SUFFICES ASSUME SteadyInv, Inv, ReadHeader \/ HeaderFailsSolaris \/ ReadHeaderBsd
             PROVE  SteadyInv'
  OBVIOUS
<1> USE DEF SteadyInv, Goto, StillHere, platform
<1>1. CASE ReadHeader
  <2>1. CASE RefuseDisc("no_tracks")
    BY <2>1, AwayKeepsSteadyInv DEF RefuseDisc, Refuse, Return0
  <2>2. CASE ~ RefuseDisc("no_tracks")
    <3>1. /\ toc' = Numbered(Shown) /\ i' = toc'.first /\ pc' = "entries"
          /\ UNCHANGED <<build, medium, ready, pass, since, ret>>
          /\ medium # NoMedium /\ platform = "linux"
      BY <1>1, <2>2 DEF ReadHeader, HeaderStored
    <3>2. toc'.first = Shown.first /\ toc'.last = Shown.last /\ Shown' = Shown
          /\ toc'.first \in Int
      BY <3>1, ShownIsToc DEF Numbered, Inv, Shown
    <3>3. medium \in Media
      BY <3>1 DEF Inv, DataTypes
    <3>4. ReadyInv' /\ MediumInv'
      BY <3>1, <3>3 DEF ReadyInv, MediumInv, AtOnce, HasRead
    <3>5. TocInv'
      BY <3>1, <3>2 DEF TocInv, AtOnce, EntryByEntry, TableIsThere, DiscIsThere, HasRead
    <3> QED BY <3>4, <3>5
  <2> QED BY <2>1, <2>2
<1>2. CASE HeaderFailsSolaris
  <2>1. /\ platform' = "solaris" /\ pc' # "table" /\ UNCHANGED <<since, pass, ready>>
        /\ pc' \in {"idle", "entries"} /\ (pc' = "idle" => ret' = 0)
    BY <1>2 DEF HeaderFailsSolaris, RefuseAfterFault, Refuse, Return0
  <2> QED BY <2>1 DEF ReadyInv, MediumInv, TocInv, Watched, AtOnce, HasRead
<1>3. CASE ReadHeaderBsd
  <2>1. CASE RefuseDisc("no_tracks")
    BY <2>1, AwayKeepsSteadyInv DEF RefuseDisc, Refuse, Return0
  <2>2. CASE ~ RefuseDisc("no_tracks")
    <3>1. /\ toc' = Numbered(Shown) /\ pc' = "table"
          /\ UNCHANGED <<build, medium, ready, pass, since, ret>>
          /\ medium # NoMedium /\ platform = "bsd"
      BY <1>3, <2>2 DEF ReadHeaderBsd
    <3>2. toc'.first = Shown.first /\ toc'.last = Shown.last /\ Shown' = Shown
      BY <3>1 DEF Numbered, Shown
    <3>3. medium \in Media
      BY <3>1 DEF Inv, DataTypes
    <3>4. ReadyInv' /\ MediumInv'
      BY <3>1, <3>3 DEF ReadyInv, MediumInv, HasRead
    <3>5. TocInv'
      BY <3>1, <3>2 DEF TocInv, EntryByEntry, TableIsThere, DiscIsThere, HasRead
    <3> QED BY <3>4, <3>5
  <2> QED BY <2>1, <2>2
<1> QED BY <1>1, <1>2, <1>3

-----------------------------------------------------------------------------
(* A whole table is stored.                                                *)
LEMMA TableStoredSteady ==
    ASSUME SteadyInv, NEW t, TableStored(t), medium \in Media, platform \in AtOnce,
           Watched /\ Expected /\ Due(t) => \E s : HasShown(s) /\ Agrees(t, s),
           pc # "idle", ret = 0
    PROVE  SteadyInv'
<1> USE DEF TableStored, platform, AtOnce
<1>1. ReadyInv'
  BY DEF SteadyInv, ReadyInv
<1>2. MediumInv'
  BY DEF MediumInv, HasRead
<1>3. /\ Watched' = Watched /\ Expected' = Expected /\ Due(toc)' = Due(t)
      /\ \A s : HasShown(s)' = HasShown(s)
      /\ toc' = t /\ pc' \in {"idle", "entries"} /\ ret' = 0
  BY DEF Watched, Expected, AsExpected, Accepted, Due, HasShown
<1>4. TocInv'
  BY <1>3 DEF TocInv, EntryByEntry, TableIsThere, DiscIsThere, HasRead
<1> QED BY <1>1, <1>2, <1>4 DEF SteadyInv

(* BSD: both ioctls are answered by the same medium.                       *)
LEMMA BsdSteady == SteadyInv /\ Inv /\ ReadTableBsd => SteadyInv'
<1> SUFFICES ASSUME SteadyInv, Inv, ReadTableBsd PROVE SteadyInv'
  OBVIOUS
<1> DEFINE t == Shown
           skipped == IF t.first > toc.first THEN t.first - toc.first ELSE 0
           Number(j) == j + skipped
           Entry(j) == IF Number(j) <= t.last THEN TrackOf(t, Number(j))
                       ELSE IF Number(j) = t.last + 1 THEN t.tracks[0]
                       ELSE BlankEntry
           table == [k \in Slot |-> IF k = 0 THEN Entry(toc.last + 1)
                                    ELSE IF k \in toc.first..toc.last THEN Entry(k)
                                    ELSE toc.tracks[k]]
<1>1. pc = "table" /\ medium \in Media /\ platform = "bsd" /\ ret = 0
  BY DEF ReadTableBsd, Inv, DataTypes, LoadedInv, SteadyInv, TocInv
<1>2. t \in Toc /\ t.first \in Nat /\ t.last \in Nat /\ toc.first \in Int /\ toc.last \in Int
  BY ShownIsToc DEF ReadTableBsd, Inv, DataTypes, Toc
<1>3. \/ Stop("aborted") \/ Stop("undefined")
      \/ TableStored(WithTable(table))
  BY DEF ReadTableBsd
<1>4. ASSUME Watched, Expected PROVE Agrees(WithTable(table), t)
  <2>1. toc.first = t.first /\ toc.last = t.last
    BY <1>1, <1>4 DEF SteadyInv, TocInv
  <2>2. t.first >= 1 /\ t.last <= MAX_TRACK
    BY <1>4 DEF Expected, AsExpected, WellNumbered, Shown
  <2>3. /\ \A k \in t.first..t.last : k # 0 /\ k \in Slot /\ Entry(k) = t.tracks[k]
        /\ Entry(t.last + 1) = t.tracks[0]
    BY <1>2, <2>1, <2>2, SlotFacts DEF TrackOf, Slot
  <2> HIDE DEF Entry
  <2>4. /\ table[0] = t.tracks[0]
        /\ \A k \in t.first..t.last : table[k] = t.tracks[k]
    BY <2>1, <2>3, SlotFacts
  <2> HIDE DEF table
  <2> QED BY <2>1, <2>4 DEF Agrees, WithTable
<1> HIDE DEF table
<1>5. Watched => HasShown(t)
  BY ShownHasBeenShown DEF Watched
<1>6. CASE Stop("aborted") \/ Stop("undefined")
  BY <1>6, AwayKeepsSteadyInv DEF Stop, StillHere
<1>7. CASE TableStored(WithTable(table))
  BY <1>1, <1>4, <1>5, <1>7, TableStoredSteady DEF AtOnce
<1> QED BY <1>3, <1>6, <1>7

(* Haiku is not watched; its drive is ready afterwards.                    *)
LEMMA HaikuSteady == SteadyInv /\ Inv /\ ReadHeaderHaiku => SteadyInv'
<1> SUFFICES ASSUME SteadyInv, Inv, ReadHeaderHaiku PROVE SteadyInv'
  OBVIOUS
<1>1. pc = "header" /\ medium \in Media /\ platform = "haiku" /\ ret = 0
  BY DEF ReadHeaderHaiku, Inv, DataTypes, LoadedInv
<1>2. PICK t : RefuseDisc("header") \/ Stop("undefined") \/ TableStored(t)
  BY DEF ReadHeaderHaiku
<1>3. CASE RefuseDisc("header") \/ Stop("undefined")
  BY <1>3, AwayKeepsSteadyInv DEF Stop, StillHere, RefuseDisc, Refuse, Return0
<1>4. CASE TableStored(t)
  BY <1>1, <1>4, TableStoredSteady DEF AtOnce, Watched
<1> QED BY <1>2, <1>3, <1>4

(* Darwin: the descriptors are those of the medium.                        *)
LEMMA DarwinSteady == SteadyInv /\ Inv /\ ReadHeaderDarwin => SteadyInv'
<1> SUFFICES ASSUME SteadyInv, Inv, ReadHeaderDarwin PROVE SteadyInv'
  OBVIOUS
<1> DEFINE present == {k \in 1..MAX_TRACK : k >= Shown.first /\ k <= Shown.last}
           lowest == CHOOSE k \in present : \A j \in present : k <= j
           highest == CHOOSE k \in present : \A j \in present : k >= j
           t == [first  |-> IF present = {} THEN -1 ELSE lowest,
                 last   |-> IF present = {} THEN -1 ELSE highest,
                 tracks |-> [k \in Slot |-> IF k \in present \cup {0}
                                            THEN Shown.tracks[k] ELSE toc.tracks[k]]]
<1>1. pc = "header" /\ medium \in Media /\ platform = "darwin" /\ ret = 0
  BY DEF ReadHeaderDarwin, Inv, DataTypes, LoadedInv
<1>2. Shown.first \in Nat /\ Shown.last \in Nat
  BY ShownIsToc DEF ReadHeaderDarwin, Inv
<1>3. TableStored(t)
  BY DEF ReadHeaderDarwin
<1>4. ASSUME Watched, Expected, Due(t) PROVE Agrees(t, Shown)
  <2>1. present # {}
    <3>1. ASSUME present = {} PROVE t.first = -1
      <4> HIDE DEF present, lowest, highest
      <4> QED BY <3>1
    <3>2. CASE Refusal(t) = "none"
      <4>1. ~ (t.first < 1)
        <5> HIDE DEF t
        <5> QED BY <3>2 DEF Refusal
      <4> QED BY <3>1, <4>1
    <3>3. CASE Accepted
      <4>1. Refusal(Shown) = "none" /\ Shown.first >= 1 /\ Shown.last <= MAX_TRACK
        BY <1>4, <3>3 DEF Accepted, Shown, Expected, AsExpected, WellNumbered
      <4>2. AudioTracks(Shown) # {} /\ AudioTracks(Shown) \subseteq Shown.first..Shown.last
        BY <4>1 DEF Refusal, AudioTracks
      <4> QED BY <1>2, <4>1, <4>2, SlotFacts
    <3> QED BY <1>4, <3>2, <3>3 DEF Due
  <2>2. Shown.first >= 1 /\ Shown.last <= MAX_TRACK /\ MAX_TRACK \in Nat
    BY <1>4, SlotFacts DEF Expected, AsExpected, WellNumbered, Shown
  <2>3. present = Shown.first..Shown.last
    BY <1>2, <2>2
  <2>4. Shown.first \in present /\ Shown.last \in present
    BY <1>2, <2>1, <2>3
  <2>5. lowest = Shown.first /\ highest = Shown.last
    <3> HIDE DEF present
    <3>1. /\ \A k \in present : (\A j \in present : k <= j) => k = Shown.first
          /\ \A j \in present : Shown.first <= j
      BY <1>2, <2>3, <2>4
    <3>2. /\ \A k \in present : (\A j \in present : k >= j) => k = Shown.last
          /\ \A j \in present : Shown.last >= j
      BY <1>2, <2>3, <2>4
    <3>3. lowest = Shown.first
      BY <2>4, <3>1
    <3>4. highest = Shown.last
      BY <2>4, <3>2
    <3> QED BY <3>3, <3>4
  <2>6. \A k \in present \cup {0} : k \in Slot
    BY SlotFacts DEF Slot
  <2> HIDE DEF present, lowest, highest
  <2>7. /\ t.first = Shown.first /\ t.last = Shown.last
        /\ \A k \in present \cup {0} : t.tracks[k] = Shown.tracks[k]
    BY <2>1, <2>5, <2>6
  <2> QED BY <2>3, <2>7 DEF Agrees
<1> HIDE DEF t
<1>5. Watched => HasShown(Shown)
  BY ShownHasBeenShown DEF Watched
<1> QED BY <1>1, <1>3, <1>4, <1>5, TableStoredSteady DEF AtOnce

(* On Windows TrackData[0] is track 1 of a disc that starts there, and the *)
(* lead-out follows the last track.                                        *)
LEMMA WindowsSteady == SteadyInv /\ Inv /\ ReadTocWindows => SteadyInv'
<1> SUFFICES ASSUME SteadyInv, Inv, ReadTocWindows PROVE SteadyInv'
  OBVIOUS
<1>1. pc = "header" /\ medium \in Media /\ platform = "windows" /\ ret = 0
  BY DEF ReadTocWindows, Inv, DataTypes, LoadedInv
<1>2. Shown.first \in Nat /\ Shown.last \in Nat
  BY ShownIsToc DEF ReadTocWindows, Inv
<1>3. CASE Stop("undefined")
  BY <1>3, AwayKeepsSteadyInv DEF Stop, StillHere
<1>4. CASE ~ Stop("undefined")
  <2>1. PICK junk \in StackTocs :
            LET TrackData(n) == IF n + Shown.first <= Shown.last
                                THEN Shown.tracks[n + Shown.first]
                                ELSE IF n + Shown.first = Shown.last + 1
                                THEN Shown.tracks[0] ELSE junk.tracks[0]
            IN  /\ toc' = [first  |-> Shown.first,
                           last   |-> Shown.last,
                           tracks |-> [k \in Slot |->
                                IF k = 0 THEN TrackData(Shown.last)
                                ELSE IF k \in Shown.first..Shown.last THEN TrackData(k - 1)
                                ELSE toc.tracks[k]]]
                /\ ready' = TRUE /\ pc' = "load"
                /\ UNCHANGED <<build, medium, pass, features, fds, i, handleVars,
                               ret, since, faultless>>
    BY <1>4 DEF ReadTocWindows
  <2> DEFINE TrackData(n) == IF n + Shown.first <= Shown.last
                             THEN Shown.tracks[n + Shown.first]
                             ELSE IF n + Shown.first = Shown.last + 1
                             THEN Shown.tracks[0] ELSE junk.tracks[0]
             table == [k \in Slot |->
                           IF k = 0 THEN TrackData(Shown.last)
                           ELSE IF k \in Shown.first..Shown.last THEN TrackData(k - 1)
                           ELSE toc.tracks[k]]
  <2>2. /\ toc' = [first |-> Shown.first, last |-> Shown.last, tracks |-> table]
        /\ ready' = TRUE /\ pc' = "load"
        /\ UNCHANGED <<build, medium, pass, ret, since>>
    BY <2>1
  <2>3. ASSUME Watched, Expected PROVE Agrees(toc', Shown)
    <3>1. Shown.first = 1 /\ Shown.last <= MAX_TRACK
      BY <1>1, <2>3 DEF Expected, AsExpected, WellNumbered, Shown
    <3>2. /\ TrackData(Shown.last) = Shown.tracks[0]
          /\ \A k \in 1..Shown.last : k # 0 /\ k \in Slot /\ TrackData(k - 1) = Shown.tracks[k]
      BY <1>2, <3>1, SlotFacts DEF Slot
    <3> HIDE DEF TrackData
    <3>3. table[0] = Shown.tracks[0] /\ \A k \in 1..Shown.last : table[k] = Shown.tracks[k]
      BY <3>1, <3>2, SlotFacts
    <3> HIDE DEF table
    <3> QED BY <2>2, <3>1, <3>3 DEF Agrees
  <2>4. /\ Watched' = Watched /\ Expected' = Expected
        /\ \A s : HasShown(s)' = HasShown(s)
        /\ ReadyInv' /\ MediumInv'
    BY <1>1, <2>2 DEF Watched, Expected, AsExpected, HasShown, ReadyInv, MediumInv, SteadyInv,
                      platform, HasRead
  <2>5. Watched => HasShown(Shown)
    BY ShownHasBeenShown DEF Watched
  <2>6. TocInv'
    <3>1. Watched' /\ Expected' => \E s : HasShown(s)' /\ Agrees(toc', s)
      BY <2>3, <2>4, <2>5
    <3> QED BY <2>2, <3>1 DEF TocInv, EntryByEntry, TableIsThere, DiscIsThere, HasRead
  <2> QED BY <2>4, <2>6 DEF SteadyInv
<1> QED BY <1>3, <1>4

-----------------------------------------------------------------------------
(* Entry by entry, and the lead-out at the end.                            *)
LEMMA EntrySteady == SteadyInv /\ Inv /\ ReadEntry => SteadyInv'
<1> SUFFICES ASSUME SteadyInv, Inv, ReadEntry PROVE SteadyInv'
  OBVIOUS
<1>1. /\ pc = "entries" /\ pc' = "entries" /\ i' = i + 1 /\ i <= toc.last /\ i <= MAX_TRACK
      /\ UNCHANGED <<build, medium, ready, pass, since, ret>>
      /\ i \in Int /\ toc \in Toc /\ toc.first \in Int /\ toc.last \in Int
  BY DEF ReadEntry, EntryIsDue, Goto, StillHere, Inv, DataTypes, Toc
<1>2. /\ Watched' = Watched /\ Expected' = Expected /\ Shown' = Shown
      /\ \A s : HasShown(s)' = HasShown(s)
      /\ ReadyInv' /\ MediumInv'
  BY <1>1 DEF Watched, Expected, AsExpected, Shown, HasShown, ReadyInv, MediumInv, SteadyInv,
              platform, HasRead
<1>3. CASE platform \in AtOnce
  <2>1. UNCHANGED toc
    BY <1>3 DEF ReadEntry
  <2> QED
    BY <1>1, <1>2, <1>3, <2>1 DEF SteadyInv, TocInv, Accepted, Due, EntryByEntry, TableIsThere,
                                  DiscIsThere, HasRead, platform
<1>4. CASE platform \notin AtOnce
  <2>1. toc' = WithEntry(i, Shown.tracks[i])
    BY <1>4 DEF ReadEntry
  <2>2. toc'.first = toc.first /\ toc'.last = toc.last
    BY <2>1 DEF WithEntry
  <2>3. ASSUME Watched, Expected
        PROVE  /\ toc.first = Shown.first /\ toc.last = Shown.last
               /\ i' >= toc.first
               /\ \A k \in toc.first..(i' - 1) : k <= toc.last => toc'.tracks[k] = Shown.tracks[k]
    <3>1. /\ toc.first = Shown.first /\ toc.last = Shown.last /\ i >= toc.first
          /\ \A k \in toc.first..(i - 1) : k <= toc.last => toc.tracks[k] = Shown.tracks[k]
      BY <1>1, <1>4, <2>3 DEF SteadyInv, TocInv, EntryByEntry
    <3>2. toc.first >= 1
      BY <2>3, <3>1 DEF Expected, AsExpected, WellNumbered, Shown
    <3>3. \A k \in toc.first..i : k \in Slot
      BY <1>1, <3>2, TocConstants DEF Slot
    <3>4. /\ toc.tracks \in [Slot -> TocTrack]
          /\ toc'.tracks = [toc.tracks EXCEPT ![i] = Shown.tracks[i]]
      BY <1>1, <2>1 DEF Toc, WithEntry
    <3>5. \A k \in toc.first..i : toc'.tracks[k] = IF k = i THEN Shown.tracks[i] ELSE toc.tracks[k]
      BY <3>3, <3>4
    <3>6. \A k \in toc.first..(i' - 1) : k \in toc.first..i /\ (k # i => k \in toc.first..(i - 1))
      BY <1>1
    <3> QED BY <1>1, <3>1, <3>5, <3>6
  <2>4. TocInv'
    BY <1>1, <1>2, <1>4, <2>2, <2>3 DEF TocInv, EntryByEntry, TableIsThere, DiscIsThere, HasRead,
                                        platform
  <2> QED BY <1>2, <2>4 DEF SteadyInv
<1> QED BY <1>3, <1>4

(* The lead-out makes the entries of the medium its table.                 *)
LEMMA LeadOutSteady == SteadyInv /\ Inv /\ ReadLeadOut => SteadyInv'
<1> SUFFICES ASSUME SteadyInv, Inv, ReadLeadOut PROVE SteadyInv'
  OBVIOUS
<1>1. /\ pc = "entries" /\ pc' = "load" /\ i > toc.last
      /\ UNCHANGED <<build, medium, pass, since, ret>>
      /\ i \in Int /\ toc \in Toc /\ toc.first \in Int /\ toc.last \in Int
  BY DEF ReadLeadOut, EntryIsDue, Inv, DataTypes, Toc
<1>2. /\ Watched' = Watched /\ Expected' = Expected
      /\ \A s : HasShown(s)' = HasShown(s)
      /\ MediumInv'
  BY <1>1 DEF Watched, Expected, AsExpected, HasShown, MediumInv, SteadyInv, platform, HasRead
<1>3. CASE platform \in AtOnce
  <2>1. UNCHANGED <<toc, ready>>
    BY <1>3 DEF ReadLeadOut
  <2> QED
    BY <1>1, <1>2, <1>3, <2>1 DEF SteadyInv, ReadyInv, TocInv, Accepted, Due, EntryByEntry,
                                  TableIsThere, DiscIsThere, HasRead, platform
<1>4. CASE platform \notin AtOnce
  <2>1. toc' = WithEntry(0, Shown.tracks[0]) /\ ready' = TRUE
    BY <1>4 DEF ReadLeadOut
  <2>2. ReadyInv'
    BY <1>1, <2>1 DEF ReadyInv
  <2>3. ASSUME Watched, Expected PROVE Agrees(toc', Shown)
    <3>1. /\ toc.first = Shown.first /\ toc.last = Shown.last /\ i >= toc.first
          /\ \A k \in toc.first..(i - 1) : k <= toc.last => toc.tracks[k] = Shown.tracks[k]
      BY <1>1, <1>4, <2>3 DEF SteadyInv, TocInv, EntryByEntry
    <3>2. toc.first >= 1 /\ toc.last <= MAX_TRACK
      BY <2>3, <3>1 DEF Expected, AsExpected, WellNumbered, Shown
    <3>3. \A k \in toc.first..toc.last : toc.tracks[k] = Shown.tracks[k] /\ k \in Slot \ {0}
      BY <1>1, <3>1, <3>2, SlotFacts DEF Slot
    <3>4. /\ toc.tracks \in [Slot -> TocTrack]
          /\ toc'.tracks = [toc.tracks EXCEPT ![0] = Shown.tracks[0]]
          /\ toc'.first = toc.first /\ toc'.last = toc.last
      BY <1>1, <2>1 DEF Toc, WithEntry
    <3>5. /\ toc'.tracks[0] = Shown.tracks[0]
          /\ \A k \in Slot \ {0} : toc'.tracks[k] = toc.tracks[k]
      BY <3>4, SlotFacts
    <3> QED BY <3>1, <3>3, <3>4, <3>5 DEF Agrees
  <2>4. Watched => HasShown(Shown)
    BY ShownHasBeenShown DEF Watched
  <2>5. TocInv'
    <3>1. Watched' /\ Expected' => \E s : HasShown(s)' /\ Agrees(toc', s)
      BY <1>2, <2>3, <2>4
    <3> QED BY <1>1, <3>1 DEF TocInv, EntryByEntry, TableIsThere, DiscIsThere, HasRead
  <2> QED BY <1>2, <2>2, <2>5 DEF SteadyInv
<1> QED BY <1>3, <1>4

-----------------------------------------------------------------------------
(* What mb_disc_load_toc makes of the table is the disc of that TOC.       *)
LEMMA LoadSteady == SteadyInv /\ Inv /\ Load => SteadyInv'
<1> SUFFICES ASSUME SteadyInv, Inv, Load PROVE SteadyInv'
  OBVIOUS
<1>1. /\ pc = "load" /\ pc' = "mcn" /\ Refusal(toc) = "none" /\ disc' = LoadedDisc(toc)
      /\ UNCHANGED <<build, medium, ready, pass, since, ret>> /\ toc \in Toc
  BY DEF Load, Goto, StillHere, Inv, DataTypes
<1>2. /\ Watched' = Watched /\ Expected' = Expected
      /\ \A s : HasShown(s)' = HasShown(s)
      /\ ReadyInv' /\ MediumInv'
  BY <1>1 DEF Watched, Expected, AsExpected, HasShown, ReadyInv, MediumInv, SteadyInv, platform,
              HasRead
<1>3. ASSUME Watched, Expected PROVE \E s : HasShown(s) /\ IsDiscOf(s)'
  <2>1. PICK t : HasShown(t) /\ Agrees(toc, t)
    BY <1>1, <1>3 DEF SteadyInv, TocInv, TableIsThere, Due
  <2>2. medium \in Media
    BY <1>1, <1>3 DEF SteadyInv, MediumInv
  <2>3. t \in Toc /\ t.last <= MAX_TRACK
    BY <1>3, <2>1, <2>2, DriveConstants DEF HasShown, Expected, AsExpected, WellNumbered, Answer
  <2>4. Refusal(t) = "none"
    BY <1>1, <2>1, <2>3, AgreeingAudio
  <2>5. LastTrack(t) >= t.first - 1 => LoadedDisc(toc) = LoadedDisc(t)
    BY <1>1, <2>1, <2>3, <2>4, AgreeingDiscs
  <2> QED BY <1>1, <2>1, <2>4, <2>5 DEF IsDiscOf
<1>4. TocInv'
  BY <1>1, <1>2, <1>3 DEF TocInv, EntryByEntry, TableIsThere, DiscIsThere, HasRead
<1> QED BY <1>2, <1>4 DEF SteadyInv

(* The codes are read from the medium without touching the disc.           *)
LEMMA CodesSteady ==
    SteadyInv /\ Inv /\ (ReadMcn \/ McnFails \/ SkipMcn \/ ReadIsrc \/ IsrcFails) => SteadyInv'
<1> SUFFICES ASSUME SteadyInv, Inv, ReadMcn \/ McnFails \/ SkipMcn \/ ReadIsrc \/ IsrcFails
             PROVE  SteadyInv'
  OBVIOUS
<1>1. /\ pc \in {"mcn", "isrc"} /\ pc' = "isrc"
      /\ UNCHANGED <<build, medium, ready, pass, since, ret, disc>>
  BY DEF ReadMcn, McnFails, SkipMcn, ReadIsrc, IsrcFails, IsrcIsDue, GotoIsrcs, NextIsrc,
         Goto, StillHere
<1>2. /\ Watched' = Watched /\ Expected' = Expected
      /\ \A s : HasShown(s)' = HasShown(s) /\ IsDiscOf(s)' = IsDiscOf(s)
      /\ ReadyInv' /\ MediumInv'
  BY <1>1 DEF Watched, Expected, AsExpected, HasShown, IsDiscOf, ReadyInv, MediumInv, SteadyInv,
              platform, HasRead
<1>3. TocInv'
  BY <1>1, <1>2 DEF SteadyInv, TocInv, EntryByEntry, TableIsThere, DiscIsThere, HasRead
<1> QED BY <1>2, <1>3 DEF SteadyInv

(* The pre-read ends with a medium that is ready.                          *)
LEMMA CloseSteady == SteadyInv /\ Inv /\ Close => SteadyInv'
<1> SUFFICES ASSUME SteadyInv, Inv, Close PROVE SteadyInv'
  OBVIOUS
<1>1. pc = "isrc" /\ UNCHANGED <<build, medium, ready>>
  BY DEF Close, CloseKeeping, StillHere
<1>2. CASE pass = 1
  BY <1>1, <1>2 DEF Close, CloseKeeping, SteadyInv, ReadyInv, MediumInv, TocInv, Watched,
        EntryByEntry, TableIsThere, DiscIsThere, HasRead, Inv, LoadedInv
<1>3. CASE pass # 1
  <2>1. pc' = "idle" /\ ret' = 1 /\ pass = 2 /\ UNCHANGED <<pass, since, disc>>
    BY <1>3 DEF Close, CloseKeeping, Inv, DataTypes
  <2>2. /\ Watched' = Watched /\ Expected' = Expected
        /\ \A s : HasShown(s)' = HasShown(s) /\ IsDiscOf(s)' = IsDiscOf(s)
        /\ ReadyInv' /\ MediumInv'
    BY <1>1, <2>1 DEF Watched, Expected, AsExpected, HasShown, IsDiscOf, ReadyInv, MediumInv,
                      SteadyInv, platform, HasRead
  <2>3. TocInv'
    BY <1>1, <2>1, <2>2 DEF SteadyInv, TocInv, EntryByEntry, TableIsThere, DiscIsThere, HasRead
  <2> QED BY <2>2, <2>3 DEF SteadyInv
<1> QED BY <1>2, <1>3

(* Every step preserves what is known of the medium.                       *)
LEMMA SteadyNext == SteadyInv /\ Inv /\ [Next]_vars => SteadyInv'
BY StutterKeepsSteadyInv, SwapKeepsSteadyInv, CallKeepsSteadyInv, AwaySteps, HeaderSteps,
   BsdSteady, HaikuSteady, DarwinSteady, WindowsSteady, EntrySteady, LeadOutSteady, LoadSteady,
   CodesSteady, CloseSteady
   DEF Next, Step

(* The disc that is reported for a medium that stayed in the drive is that *)
(* medium's: in the final pass one of the TOCs it shows, for a whole call  *)
(* the one it shows once it is ready.                                      *)
THEOREM SteadyDiscsAreRead == Spec => []SteadyDiscIsRead
<1>1. SteadyInv => SteadyDiscIsRead
  <2> SUFFICES ASSUME SteadyInv, HasRead, since # "none", Expected,
                      platform \notin {"haiku", "solaris"}
               PROVE  /\ IsDiscOf(EarlyToc[medium]) \/ IsDiscOf(ReadyToc[medium])
                      /\ since = "call" => IsDiscOf(ReadyToc[medium])
    BY DEF SteadyDiscIsRead, HasRead, Expected
  <2>1. PICK t : HasShown(t) /\ IsDiscOf(t)
    BY DEF SteadyInv, TocInv, Watched, DiscIsThere
  <2> QED BY <2>1 DEF HasShown, SteadyInv, MediumInv
<1> QED BY <1>1, SteadyInit, SteadyNext, InvHolds, PTL DEF Spec

-----------------------------------------------------------------------------
(* A good disc that stays in a drive that works is read.  SteadyInv says   *)
(* that its table is that of the medium, hence that it is not refused; on  *)
(* Haiku, where the lead-out is not the medium's, the tracks are.          *)
GoodDisc ==
    /\ since = "call" /\ faultless /\ medium # NoMedium
    /\ Loadable(ReadyToc[medium]) /\ Loadable(EarlyToc[medium])
    /\ platform \notin {"generic", "solaris"}

ServedInv ==
    GoodDisc =>
        /\ pc = "idle" => ret = 1
        /\ platform = "haiku" /\ pc \in {"entries", "load"} => Refusal(toc) = "none"

(* What a good disc shows has tracks, and is not refused.                  *)
LEMMA GoodIsShown ==
    ASSUME Inv, GoodDisc
    PROVE  /\ Refusal(Shown) = "none" /\ Shown.first >= 1 /\ Shown.last <= MAX_TRACK
           /\ Shown.last # 0 /\ Shown \in Toc
           /\ Watched \/ platform = "haiku"
           /\ Expected /\ Accepted
<1>1. Refusal(Shown) = "none" /\ Shown.first >= 1 /\ Shown.last <= MAX_TRACK
  BY DEF GoodDisc, Loadable, AsExpected, WellNumbered, Shown
<1>2. Shown \in Toc /\ Shown.last \in Nat
  BY ShownIsToc DEF Inv, GoodDisc
<1>3. Shown.last # 0
  BY <1>1, <1>2 DEF Refusal
<1> QED BY <1>1, <1>2, <1>3 DEF GoodDisc, Loadable, Watched, Expected, Accepted

(* Nor is its table, when it has been put together.                        *)
LEMMA GoodIsLoaded ==
    ASSUME Inv, SteadyInv, ServedInv, GoodDisc, pc = "load"
    PROVE  Refusal(toc) = "none"
<1>1. CASE platform = "haiku"
  BY <1>1 DEF ServedInv
<1>2. CASE platform # "haiku"
  <2>1. Watched /\ Expected /\ Accepted
    BY <1>2, GoodIsShown
  <2>2. PICK t : HasShown(t) /\ Agrees(toc, t)
    BY <2>1 DEF SteadyInv, TocInv, TableIsThere, Due
  <2>3. t \in Toc /\ toc \in Toc /\ Refusal(t) = "none"
    BY <2>1, <2>2, DriveConstants DEF HasShown, Accepted, Answer, Inv, DataTypes, GoodDisc
  <2> QED BY <2>2, <2>3, AgreeingAudio
<1> QED BY <1>1, <1>2

(* Steps after which nothing is promised, and those of a fault.            *)
LEMMA OnwardIsServed ==
    ASSUME \/ pc' \notin {"idle", "entries", "load"}
           \/ faultless' = FALSE
           \/ since' = "none"
    PROVE  ServedInv'
BY DEF ServedInv, GoodDisc

(* Nothing is promised where reading is not implemented, or the wrong way  *)
(* round.                                                                  *)
LEMMA OtherIsServed ==
    ASSUME platform \in {"generic", "solaris"}, UNCHANGED build
    PROVE  ServedInv'
BY DEF ServedInv, GoodDisc, platform

(* A step within a call on a platform other than Haiku.                    *)
LEMMA BusyIsServed ==
    ASSUME platform # "haiku", UNCHANGED build, pc' # "idle"
    PROVE  ServedInv'
BY DEF ServedInv, platform

(* A refusal that a good disc does not meet.                               *)
LEMMA RefusalIsServed ==
    ASSUME ~ GoodDisc, UNCHANGED <<build, medium, since, faultless>>
    PROVE  ServedInv'
BY DEF ServedInv, GoodDisc, Loadable, AsExpected, platform

(* A step that moves neither the call nor its table.                       *)
LEMMA StillIsServed ==
    ASSUME ServedInv, UNCHANGED <<build, medium, since, faultless, toc, ret>>,
           pc' = pc \/ (pc' = "load" /\ pc = "entries")
    PROVE  ServedInv'
BY DEF ServedInv, GoodDisc, Loadable, AsExpected, platform

(* The header: a good disc has tracks.                                     *)
LEMMA HeaderIsServed ==
    Inv /\ (ReadHeader \/ ReadHeaderSolaris \/ HeaderFailsSolaris \/ ReadHeaderBsd) => ServedInv'
<1> SUFFICES ASSUME Inv, ReadHeader \/ ReadHeaderSolaris \/ HeaderFailsSolaris \/ ReadHeaderBsd
             PROVE  ServedInv'
  OBVIOUS
<1>1. CASE ReadHeader \/ ReadHeaderBsd
  <2>1. UNCHANGED <<build, medium, since>> /\ platform # "haiku"
    BY <1>1 DEF ReadHeader, ReadHeaderBsd, HeaderStored, RefuseDisc, Refuse, Return0, Goto,
                StillHere
  <2>2. CASE Shown.last # 0
    <3>1. pc' # "idle"
      BY <1>1, <2>2 DEF ReadHeader, ReadHeaderBsd, HeaderStored, Numbered, Goto
    <3> QED BY <2>1, <3>1, BusyIsServed
  <2>3. CASE Shown.last = 0
    <3>1. ~ GoodDisc
      BY <2>3, GoodIsShown
    <3>2. UNCHANGED faultless
      BY <1>1, <2>3 DEF ReadHeader, ReadHeaderBsd, HeaderStored, RefuseDisc
    <3> QED BY <2>1, <3>1, <3>2, RefusalIsServed
  <2> QED BY <2>2, <2>3
<1>2. CASE ReadHeaderSolaris \/ HeaderFailsSolaris
  <2>1. platform = "solaris" /\ UNCHANGED build
    BY <1>2 DEF ReadHeaderSolaris, HeaderFailsSolaris, RefuseDisc, RefuseAfterFault, Refuse,
                Return0, Goto, StillHere
  <2> QED BY <2>1, OtherIsServed
<1> QED BY <1>1, <1>2

(* A whole table of BSD: both ioctls told the same number of tracks.       *)
LEMMA BsdIsServed == Inv /\ SteadyInv /\ ReadTableBsd => ServedInv'
<1> SUFFICES ASSUME Inv, SteadyInv, ReadTableBsd PROVE ServedInv'
  OBVIOUS
<1>1. pc = "table" /\ platform = "bsd"
  BY DEF ReadTableBsd, SteadyInv, TocInv
<1>2. CASE Stop("aborted") \/ Stop("undefined")
  BY <1>2, OnwardIsServed DEF Stop
<1>3. CASE ~ (Stop("aborted") \/ Stop("undefined"))
  <2>1. PICK t : TableStored(t) /\ t.last = toc.last
    BY <1>3 DEF ReadTableBsd, WithTable
  <2>2. UNCHANGED <<build, medium, since, faultless>>
    BY <2>1 DEF TableStored
  <2>3. CASE GoodDisc
    <3>1. toc.last = Shown.last /\ Shown.last # 0
      BY <1>1, <2>3, GoodIsShown DEF SteadyInv, TocInv
    <3>2. pc' = "entries"
      BY <2>1, <3>1 DEF TableStored
    <3> QED BY <1>1, <2>2, <3>2, BusyIsServed
  <2>4. CASE ~ GoodDisc
    BY <2>2, <2>4, RefusalIsServed
  <2> QED BY <2>3, <2>4
<1> QED BY <1>2, <1>3

(* The descriptors of Darwin.                                              *)
LEMMA DarwinIsServed == Inv /\ ReadHeaderDarwin => ServedInv'
<1> SUFFICES ASSUME Inv, ReadHeaderDarwin PROVE ServedInv'
  OBVIOUS
<1> DEFINE present == {k \in 1..MAX_TRACK : k >= Shown.first /\ k <= Shown.last}
           lowest == CHOOSE k \in present : \A j \in present : k <= j
           highest == CHOOSE k \in present : \A j \in present : k >= j
           t == [first  |-> IF present = {} THEN -1 ELSE lowest,
                 last   |-> IF present = {} THEN -1 ELSE highest,
                 tracks |-> [k \in Slot |-> IF k \in present \cup {0}
                                            THEN Shown.tracks[k] ELSE toc.tracks[k]]]
<1>1. platform # "haiku"
  BY DEF ReadHeaderDarwin
<1>2. TableStored(t)
  BY DEF ReadHeaderDarwin
<1>3. UNCHANGED build
  BY <1>2 DEF TableStored
<1>4. t.last # 0
  <2>1. CASE present = {}
    BY <2>1
  <2>2. CASE present # {}
    <3>1. present \in SUBSET (1..MAX_TRACK) /\ MAX_TRACK \in Int /\ 1 \in Int
      BY SlotFacts
    <3> HIDE DEF present
    <3>2. \E k \in present : \A j \in present : k >= j
      BY <2>2, <3>1, Greatest
    <3>3. highest \in present
      BY <3>2
    <3> HIDE DEF highest
    <3>4. highest # 0
      BY <3>1, <3>3
    <3>5. t.last = highest
      BY <2>2
    <3> QED BY <3>4, <3>5
  <2> QED BY <2>1, <2>2
<1> HIDE DEF t
<1>5. pc' = "entries"
  BY <1>2, <1>4 DEF TableStored
<1> QED BY <1>1, <1>3, <1>5, BusyIsServed

(* The tracks of Haiku's table are those of the medium.                    *)
LEMMA HaikuIsServed == Inv /\ ReadHeaderHaiku => ServedInv'
<1> SUFFICES ASSUME Inv, ReadHeaderHaiku PROVE ServedInv'
  OBVIOUS
<1>1. CASE ~ GoodDisc
  <2>1. \/ pc' = "undefined" \/ UNCHANGED <<build, medium, since, faultless>>
    BY DEF ReadHeaderHaiku, RefuseDisc, Refuse, Return0, StillHere, Stop, TableStored
  <2> QED BY <1>1, <2>1, OnwardIsServed, RefusalIsServed
<1>2. CASE GoodDisc
  <2> DEFINE t == [first  |-> Shown.first,
                   last   |-> Shown.last,
                   tracks |-> [k \in Slot |-> IF k \in Shown.first..Shown.last
                                              THEN Shown.tracks[k] ELSE toc.tracks[k]]]
  <2>1. /\ Refusal(Shown) = "none" /\ Shown.first >= 1 /\ Shown.last <= MAX_TRACK
        /\ Shown.last # 0 /\ Shown.first \in Int /\ Shown.last \in Int
    BY <1>2, GoodIsShown, TocTypes
  <2>2. TableStored(t)
    <3>1. ~ (Shown.last > MAX_TRACK)
      BY <2>1, SlotFacts
    <3> QED BY <3>1, Zenon DEF ReadHeaderHaiku
  <2>3. \A k \in Shown.first..Shown.last : k \in Slot
    BY <2>1, SlotFacts DEF Slot
  <2>4. \A k \in Shown.first..Shown.last : t.tracks[k] = Shown.tracks[k]
    BY <2>3
  <2>5. t.first = Shown.first /\ t.last = Shown.last
    OBVIOUS
  <2> HIDE DEF t
  <2>6. AudioTracks(t) = AudioTracks(Shown)
    BY <2>4, <2>5 DEF AudioTracks
  <2>7. Refusal(t) = "none"
    BY <2>1, <2>5, <2>6 DEF Refusal
  <2>8. toc' = t /\ pc' = "entries"
    BY <2>1, <2>2, <2>5 DEF TableStored
  <2> QED BY <2>7, <2>8 DEF ServedInv
<1> QED BY <1>1, <1>2

(* Every step serves a good disc.                                          *)
LEMMA ServedNext == Inv /\ SteadyInv /\ ServedInv /\ [Next]_vars => ServedInv'
<1> SUFFICES ASSUME Inv, SteadyInv, ServedInv, [Next]_vars PROVE ServedInv'
  OBVIOUS
<1>1. CASE UNCHANGED vars
  <2>1. UNCHANGED <<build, medium, since, faultless, toc, ret, pc>>
    BY <1>1 DEF vars
  <2> QED BY <2>1, StillIsServed
<1>2. CASE Swap \/ (\E asked \in SUBSET CodeFeature : Call(asked))
  BY <1>2, OnwardIsServed DEF Swap, Call, CallFromPass
<1>3. CASE FindDevice \/ DeviceNotFound \/ Open \/ OpenFails
  BY <1>3, OnwardIsServed DEF FindDevice, DeviceNotFound, Open, OpenFails, FailBeforeOpen, Goto
<1>4. CASE NotImplemented
  BY <1>4, OtherIsServed DEF NotImplemented, Return0, StillHere
<1>5. CASE HeaderFails \/ TableFailsBsd \/ EntryFails \/ LeadOutFails \/ ReadEntryBeyondTable
  BY <1>5, OnwardIsServed DEF HeaderFails, TableFailsBsd, EntryFails, LeadOutFails,
     ReadEntryBeyondTable, RefuseAfterFault, Stop
<1>6. CASE ReadHeader \/ ReadHeaderSolaris \/ HeaderFailsSolaris \/ ReadHeaderBsd
  BY <1>6, HeaderIsServed
<1>7. CASE ReadTableBsd \/ ReadHeaderDarwin \/ ReadHeaderHaiku
  BY <1>7, BsdIsServed, DarwinIsServed, HaikuIsServed
<1>8. CASE ReadTocWindows
  <2>1. platform # "haiku" /\ UNCHANGED build /\ pc' # "idle"
    BY <1>8 DEF ReadTocWindows, Stop, StillHere
  <2> QED BY <2>1, BusyIsServed
<1>9. CASE ReadEntry \/ ReadLeadOut
  <2>1. CASE platform = "haiku"
    <3>1. /\ UNCHANGED <<build, medium, since, faultless, toc, ret>>
          /\ pc' = pc \/ (pc' = "load" /\ pc = "entries")
      BY <1>9, <2>1 DEF ReadEntry, ReadLeadOut, EntryIsDue, AtOnce, Goto, StillHere
    <3> QED BY <3>1, StillIsServed
  <2>2. CASE platform # "haiku"
    <3>1. UNCHANGED build /\ pc' # "idle"
      BY <1>9 DEF ReadEntry, ReadLeadOut, Goto, StillHere
    <3> QED BY <2>2, <3>1, BusyIsServed
  <2> QED BY <2>1, <2>2
<1>10. CASE LoadRefused
  <2>1. ~ GoodDisc
    BY <1>10, GoodIsLoaded DEF LoadRefused
  <2>2. UNCHANGED <<build, medium, since, faultless>>
    BY <1>10 DEF LoadRefused, RefuseDisc, Refuse, Return0, StillHere
  <2> QED BY <2>1, <2>2, RefusalIsServed
<1>11. CASE Load \/ ReadMcn \/ McnFails \/ SkipMcn \/ ReadIsrc \/ IsrcFails
  BY <1>11, OnwardIsServed DEF Load, ReadMcn, McnFails, SkipMcn, ReadIsrc, IsrcFails, GotoIsrcs,
     NextIsrc, Goto
<1>12. CASE Close
  <2>1. pc' = "find" \/ (pc' = "idle" /\ ret' = 1)
    BY <1>12 DEF Close, CloseKeeping
  <2> QED BY <2>1 DEF ServedInv
<1> QED BY <1>1, <1>2, <1>3, <1>4, <1>5, <1>6, <1>7, <1>8, <1>9, <1>10, <1>11, <1>12
        DEF Next, Step

(* Where reading is implemented, a disc that can be loaded and stays in    *)
(* the drive is read, unless the drive or the search for it fails; Solaris *)
(* is the exception.                                                       *)
THEOREM GoodDiscsAreRead == Spec => []GoodDiscIsRead
<1>1. Init => ServedInv
  BY DEF Init, ServedInv, GoodDisc
<1>2. ServedInv => GoodDiscIsRead
  BY DEF ServedInv, GoodDisc, GoodDiscIsRead, LoadableStayed, HasFeature
<1> QED BY <1>1, <1>2, ServedNext, SteadyInit, SteadyNext, InvHolds, PTL DEF Spec
=============================================================================
