---------------------------- MODULE ReadCallProofs ----------------------------
(***************************************************************************)
(* A call of discid_read_sparse reads the codes that were asked for, and   *)
(* it is, to its caller, the single step that ReadCall says it is.  Both   *)
(* rest on Inv of DriveReadProofs and on CodesInv, which follows the MCN   *)
(* and the ISRCs through the second pass.                                  *)
(***************************************************************************)
EXTENDS DriveReadProofs

Dead == {"undefined", "aborted"}
Busy == AtDrive \cup {"find", "open", "mcn", "isrc"}

(* The ISRC of this track is what SparseReadsWhatIsAsked says it is.       *)
IsrcIsRight(k) == IsCodeOf(isrc[k], k \in IsrcTracks[medium], IsrcFlagIsChecked)

(* The codes are those of the disc as far as they were read: none that was *)
(* not asked for, of no other medium, and each what the medium has for it  *)
(* unless an ioctl failed.                                                 *)
CodesUpTo(n) ==
    /\ mcn # NoCode => "mcn" \in features
    /\ \A k \in Slot : isrc[k] # NoCode => "isrc" \in features /\ k \in disc.first..disc.last
    /\ since # "none" =>
          /\ mcn \in {NoCode, Filler, medium}
          /\ \A k \in Slot : isrc[k] \in {NoCode, Filler, medium}
    /\ since # "none" /\ faultless /\ HasFeature("mcn") =>
          /\ "mcn" \in features => IsCodeOf(mcn, medium \in McnMedia, McnFlagIsChecked)
          /\ "isrc" \in features => \A k \in disc.first..n : IsrcIsRight(k)

NoCodes == mcn = NoCode /\ isrc = NoIsrcs

CodesInv ==
    /\ pc = "mcn" => NoCodes
    /\ pc = "isrc" /\ pass = 1 => NoCodes
    /\ pc = "isrc" => disc.first <= i
    /\ pc = "isrc" /\ pass = 2 => CodesUpTo(i - 1)
    /\ pc = "idle" /\ ret = 1 => CodesUpTo(disc.last)

-----------------------------------------------------------------------------
(* Where a step of a call can lead: on, to its death, to a failure with a  *)
(* reason, or to a success at the end of the second pass.                  *)
Onward == pc' \in Busy
Dying == pc' \in Dead
Failing == pc' = "idle" /\ ret' = 0 /\ error_msg' # "none"

Elsewhere ==
    /\ pc \in Busy /\ features' = features
    /\ \/ Onward /\ pc' \notin {"mcn", "isrc"}
       \/ Dying \/ Failing

(* No step before the TOC is loaded stores a code.                         *)
LEMMA ReturnIsElsewhere ==
    ASSUME pc \in Busy, NEW msg, msg # "none", Return0(msg)
    PROVE  Elsewhere
BY DEF Elsewhere, Failing, Return0

(* Nor does finding and opening the device.                                *)
LEMMA BeforeOpenIsElsewhere ==
    FindDevice \/ DeviceNotFound \/ NotImplemented \/ Open \/ OpenFails => Elsewhere
<1>1. FindDevice \/ Open => Elsewhere
  BY DEF FindDevice, Open, Goto, Elsewhere, Onward, Busy, AtDrive
<1>2. DeviceNotFound \/ NotImplemented \/ OpenFails => Elsewhere
  BY ReturnIsElsewhere DEF DeviceNotFound, NotImplemented, OpenFails, FailBeforeOpen, Busy
<1> QED BY <1>1, <1>2

(* So it is with every step that stores a table, or does not.              *)
LEMMA RefusalIsElsewhere ==
    ASSUME pc \in Busy, NEW msg, msg # "none", RefuseDisc(msg) \/ RefuseAfterFault(msg)
    PROVE  Elsewhere
BY ReturnIsElsewhere DEF RefuseDisc, RefuseAfterFault, Refuse

(* A table that is stored starts the loop, or has no tracks.               *)
LEMMA TableIsElsewhere ==
    ASSUME Inv, pc \in {"header", "table"}, NEW t, TableStored(t)
    PROVE  Elsewhere
<1>1. pc \in Busy /\ ret = 0
  BY DEF Inv, LoadedInv, Busy, AtDrive
<1>2. features' = features /\ ret' = ret
  BY DEF TableStored
<1>3. t.last = 0 => pc' = "idle" /\ error_msg' = "no_tracks"
  BY DEF TableStored
<1>4. t.last # 0 => pc' = "entries"
  BY DEF TableStored
<1> QED BY <1>1, <1>2, <1>3, <1>4 DEF Elsewhere, Failing, Onward, Busy, AtDrive

(* The program may die here.                                               *)
LEMMA StopIsElsewhere ==
    ASSUME pc \in Busy, NEW how \in Dead, Stop(how)
    PROVE  Elsewhere
BY DEF Stop, Elsewhere, Dying

(* The headers of all platforms.                                           *)
LEMMA HeaderIsElsewhere ==
    Inv /\ (\/ ReadHeader \/ HeaderFails \/ ReadHeaderSolaris \/ HeaderFailsSolaris
            \/ ReadHeaderBsd \/ TableFailsBsd \/ ReadTableBsd
            \/ ReadHeaderDarwin \/ ReadHeaderHaiku \/ ReadTocWindows) => Elsewhere
<1> SUFFICES ASSUME Inv PROVE
        /\ ReadHeader => Elsewhere
        /\ HeaderFails \/ ReadHeaderSolaris \/ TableFailsBsd => Elsewhere
        /\ HeaderFailsSolaris => Elsewhere
        /\ ReadHeaderBsd => Elsewhere
        /\ ReadTableBsd => Elsewhere
        /\ ReadHeaderDarwin => Elsewhere
        /\ ReadHeaderHaiku => Elsewhere
        /\ ReadTocWindows => Elsewhere
  OBVIOUS
<1>b. {"header", "table"} \subseteq Busy
  BY DEF Busy, AtDrive
<1>1. ReadHeader => Elsewhere
  BY <1>b, RefusalIsElsewhere
     DEF ReadHeader, HeaderStored, Goto, Elsewhere, Onward, Busy, AtDrive
<1>2. HeaderFails \/ ReadHeaderSolaris \/ TableFailsBsd => Elsewhere
  BY <1>b, RefusalIsElsewhere DEF HeaderFails, ReadHeaderSolaris, TableFailsBsd
<1>3. HeaderFailsSolaris => Elsewhere
  BY <1>b, RefusalIsElsewhere DEF HeaderFailsSolaris, Goto, Elsewhere, Onward, Busy, AtDrive
<1>4. ReadHeaderBsd => Elsewhere
  BY <1>b, RefusalIsElsewhere DEF ReadHeaderBsd, Goto, Elsewhere, Onward, Busy, AtDrive
<1>5. ReadTableBsd => Elsewhere
  <2>1. ReadTableBsd => pc = "table" /\ \/ Stop("aborted") \/ Stop("undefined")
                                        \/ \E t : TableStored(t)
    BY DEF ReadTableBsd
  <2> QED BY <1>b, <2>1, StopIsElsewhere, TableIsElsewhere DEF Dead
<1>6. ReadHeaderDarwin => Elsewhere
  <2>1. ReadHeaderDarwin => pc = "header" /\ \E t : TableStored(t)
    BY DEF ReadHeaderDarwin
  <2> QED BY <2>1, TableIsElsewhere
<1>7. ReadHeaderHaiku => Elsewhere
  <2>1. ReadHeaderHaiku => pc = "header" /\ \/ RefuseDisc("header") \/ Stop("undefined")
                                            \/ \E t : TableStored(t)
    BY DEF ReadHeaderHaiku
  <2> QED BY <1>b, <2>1, StopIsElsewhere, RefusalIsElsewhere, TableIsElsewhere DEF Dead
<1>8. ReadTocWindows => Elsewhere
  <2>1. ReadTocWindows => pc = "header" /\ \/ Stop("undefined")
                                           \/ pc' = "load" /\ features' = features
    BY DEF ReadTocWindows
  <2> QED BY <1>b, <2>1, StopIsElsewhere DEF Dead, Elsewhere, Onward, Busy, AtDrive
<1> QED BY <1>1, <1>2, <1>3, <1>4, <1>5, <1>6, <1>7, <1>8

(* The loop over entries, the lead-out and a TOC that is refused.          *)
LEMMA EntriesAreElsewhere ==
    (\/ ReadEntry \/ ReadEntryBeyondTable \/ EntryFails
     \/ ReadLeadOut \/ LeadOutFails \/ LoadRefused) => Elsewhere
<1>b. {"entries", "load"} \subseteq Busy
  BY DEF Busy, AtDrive
<1>1. ReadEntry \/ ReadLeadOut => Elsewhere
  BY DEF ReadEntry, ReadLeadOut, EntryIsDue, Goto, Elsewhere, Onward, Busy, AtDrive
<1>2. ReadEntryBeyondTable => Elsewhere
  BY <1>b, StopIsElsewhere DEF ReadEntryBeyondTable, EntryIsDue, Dead
<1>3. EntryFails \/ LeadOutFails \/ LoadRefused => Elsewhere
  BY <1>b, RefusalIsElsewhere DEF EntryFails, EntryIsDue, LeadOutFails, LoadRefused
<1> QED BY <1>1, <1>2, <1>3

(* The steps that are left are those of the codes.                         *)
LEMMA StepShape ==
    Inv /\ Step =>
        \/ Elsewhere \/ Load
        \/ ReadMcn \/ McnFails \/ SkipMcn \/ ReadIsrc \/ IsrcFails \/ Close
BY BeforeOpenIsElsewhere, HeaderIsElsewhere, EntriesAreElsewhere DEF Step

-----------------------------------------------------------------------------
(* What a platform can do does not change.                                 *)
LEMMA SamePlatform ==
    build' = build =>
        /\ HasFeature("mcn")' <=> HasFeature("mcn")
        /\ McnFlagIsChecked' <=> McnFlagIsChecked
        /\ IsrcFlagIsChecked' <=> IsrcFlagIsChecked
BY DEF HasFeature, McnFlagIsChecked, IsrcFlagIsChecked, platform

(* What an ioctl that succeeds leaves is right, and of no other medium.    *)
LEMMA CodeGivenIsRight ==
    ASSUME NEW exists, NEW flagIsChecked, NEW code \in CodeGiven(exists, flagIsChecked)
    PROVE  /\ code \in {NoCode, Filler, medium}
           /\ IsCodeOf(code, exists, flagIsChecked)
BY DEF CodeGiven, IsCodeOf

(* The ISRC of a track is right when what the step leaves there is.        *)
LEMMA RightAfter ==
    ASSUME NEW k, medium' = medium, IsrcFlagIsChecked' <=> IsrcFlagIsChecked,
           IsCodeOf(isrc'[k], k \in IsrcTracks[medium], IsrcFlagIsChecked)
    PROVE  IsrcIsRight(k)'
BY DEF IsrcIsRight, IsCodeOf

(* The invariant is not touched where no code is read.                     *)
LEMMA FrameKeepsCodes ==
    ASSUME CodesInv, \/ UNCHANGED vars \/ Swap \/ \E asked \in SUBSET CodeFeature : Call(asked)
                     \/ Elsewhere
    PROVE  CodesInv'
<1>1. CASE UNCHANGED vars
  <2>1. UNCHANGED <<build, medium, pc, pass, features, i, disc, mcn, isrc, ret, since, faultless>>
    BY <1>1 DEF vars, handleVars
  <2>2. \A n : CodesUpTo(n) => CodesUpTo(n)'
    BY <2>1, SamePlatform DEF CodesUpTo, IsrcIsRight, IsCodeOf
  <2>3. (i' - 1 = i - 1) /\ disc'.last = disc.last
    BY <2>1
  <2> QED BY <2>1, <2>2, <2>3 DEF CodesInv, NoCodes
<1>2. CASE Swap
  BY <1>2 DEF Swap, handleVars, CodesInv, CodesUpTo, NoCodes
<1>3. CASE \E asked \in SUBSET CodeFeature : Call(asked)
  BY <1>3 DEF Call, CallFromPass, CodesInv
<1>4. CASE Elsewhere
  BY <1>4 DEF Elsewhere, Onward, Dying, Failing, Dead, Busy, AtDrive, CodesInv
<1> QED BY <1>1, <1>2, <1>3, <1>4

(* Loading the disc: still no codes.                                       *)
LEMMA LoadKeepsCodes == Inv /\ Load => CodesInv'
BY DEF Load, Goto, Inv, BlankInv, AtDrive, HandleIsBlank, CodesInv, NoCodes

(* The MCN, read, missed or not asked for.                                 *)
LEMMA McnKeepsCodes == Inv /\ CodesInv /\ (ReadMcn \/ McnFails \/ SkipMcn) => CodesInv'
<1> SUFFICES ASSUME Inv, CodesInv, ReadMcn \/ McnFails \/ SkipMcn PROVE CodesInv'
  OBVIOUS
<1>1. /\ pc = "mcn" /\ pc' = "isrc" /\ i' = disc.first /\ isrc = NoIsrcs /\ mcn = NoCode
      /\ UNCHANGED <<build, medium, pass, features, disc, isrc, since>>
  BY DEF ReadMcn, McnFails, SkipMcn, GotoIsrcs, Goto, StillHere, CodesInv, NoCodes
<1>2. disc.first \in Int /\ pass \in {1, 2}
  BY DEF Inv, DataTypes
<1>3. pass = 1 => mcn' = NoCode
  BY <1>1 DEF ReadMcn, McnFails, SkipMcn, IsRead
<1>4. pass = 2 => CodesUpTo(i - 1)'
  <2>1. mcn' # NoCode => "mcn" \in features
    BY <1>1 DEF ReadMcn, McnFails, SkipMcn, IsRead
  <2>2. mcn' \in {NoCode, Filler, medium}
    BY <1>1, CodeGivenIsRight DEF ReadMcn, McnFails, SkipMcn
  <2>3. pass = 2 /\ faultless' /\ HasFeature("mcn") /\ "mcn" \in features =>
            IsCodeOf(mcn', medium \in McnMedia, McnFlagIsChecked)
    BY CodeGivenIsRight DEF ReadMcn, McnFails, SkipMcn, IsRead
  <2>4. \A k \in Slot : isrc'[k] = NoCode
    BY <1>1 DEF NoIsrcs
  <2>5. disc.first..(disc.first - 1) = {}
    BY <1>2
  <2>6. /\ HasFeature("mcn")' <=> HasFeature("mcn")
        /\ McnFlagIsChecked' <=> McnFlagIsChecked
    BY <1>1, SamePlatform
  <2>7. IsCodeOf(mcn', medium \in McnMedia, McnFlagIsChecked) =>
            IsCodeOf(mcn, medium \in McnMedia, McnFlagIsChecked)'
    BY <1>1, <2>6 DEF IsCodeOf
  <2>8. (i - 1)' = disc.first - 1 /\ disc.first' = disc.first
    BY <1>1
  <2> QED BY <1>1, <2>1, <2>2, <2>3, <2>4, <2>5, <2>6, <2>7, <2>8 DEF CodesUpTo
<1> QED BY <1>1, <1>2, <1>3, <1>4 DEF CodesInv, NoCodes

(* One ISRC after the other.                                               *)
LEMMA IsrcKeepsCodes == Inv /\ CodesInv /\ (ReadIsrc \/ IsrcFails) => CodesInv'
<1> SUFFICES ASSUME Inv, CodesInv, ReadIsrc \/ IsrcFails PROVE CodesInv'
  OBVIOUS
<1>1. /\ pc = "isrc" /\ pc' = "isrc" /\ i' = i + 1 /\ pass = 2 /\ "isrc" \in features
      /\ i <= disc.last /\ disc.first <= i
      /\ UNCHANGED <<build, medium, pass, features, disc, mcn, since>>
  BY DEF ReadIsrc, IsrcFails, IsrcIsDue, IsRead, NextIsrc, Goto, StillHere, CodesInv
<1>2. disc.first \in Int /\ disc.last \in Int /\ i \in Int /\ isrc \in [Slot -> Code]
  BY DEF Inv, DataTypes
<1>3. CodesUpTo(i - 1)
  BY <1>1 DEF CodesInv
<1>4. /\ HasFeature("mcn")' <=> HasFeature("mcn")
      /\ McnFlagIsChecked' <=> McnFlagIsChecked
      /\ IsrcFlagIsChecked' <=> IsrcFlagIsChecked
  BY <1>1, SamePlatform
<1>5. i \in Slot
  BY <1>1, <1>2, TocConstants DEF Inv, LoadedInv, Sane, Slot
<1>6. i' - 1 = i
  BY <1>1, <1>2
<1>7. CodesUpTo(i - 1)'
  <2>1. CASE ReadIsrc
    <3>c. PICK code \in CodeGiven(i \in IsrcTracks[medium], IsrcFlagIsChecked) :
               isrc' = [isrc EXCEPT ![i] = code]
      BY <2>1 DEF ReadIsrc
    <3>r. /\ code \in {NoCode, Filler, medium}
          /\ IsCodeOf(code, i \in IsrcTracks[medium], IsrcFlagIsChecked)
      BY <3>c, CodeGivenIsRight
    <3>1. /\ isrc'[i] = code /\ \A k \in Slot : k # i => isrc'[k] = isrc[k]
          /\ UNCHANGED faultless
      BY <1>2, <1>5, <2>1, <3>c DEF ReadIsrc
    <3>2. \A k \in disc.first..i : k = i \/ k \in disc.first..(i - 1)
      BY <1>2
    <3>3. \A k \in disc.first..(i - 1) : k \in Slot
      BY <1>1, <1>2, <1>5, TocConstants DEF Inv, LoadedInv, Sane, Slot
    <3>4. \A k \in Slot : isrc'[k] # NoCode => k \in disc.first..disc.last
      BY <1>1, <1>2, <1>3, <3>1 DEF CodesUpTo
    <3>5. since # "none" => \A k \in Slot : isrc'[k] \in {NoCode, Filler, medium}
      BY <1>3, <3>1, <3>r DEF CodesUpTo
    <3>6. \A k \in Slot : k = i => IsrcIsRight(k)'
      <4> TAKE k \in Slot
      <4> HAVE k = i
      <4>1. IsCodeOf(isrc'[k], k \in IsrcTracks[medium], IsrcFlagIsChecked)
        BY <3>1, <3>r
      <4> QED BY <1>1, <1>4, <4>1, RightAfter
    <3>7. \A k \in Slot : k # i /\ IsrcIsRight(k) => IsrcIsRight(k)'
      <4> TAKE k \in Slot
      <4> HAVE k # i /\ IsrcIsRight(k)
      <4>1. IsCodeOf(isrc'[k], k \in IsrcTracks[medium], IsrcFlagIsChecked)
        BY <3>1 DEF IsrcIsRight
      <4> QED BY <1>1, <1>4, <4>1, RightAfter
    <3>8. since # "none" /\ faultless /\ HasFeature("mcn") =>
             \A k \in disc.first..i : IsrcIsRight(k)'
      BY <1>1, <1>3, <1>5, <3>2, <3>3, <3>6, <3>7 DEF CodesUpTo
    <3>9. IsCodeOf(mcn, medium \in McnMedia, McnFlagIsChecked) =>
              IsCodeOf(mcn, medium \in McnMedia, McnFlagIsChecked)'
      BY <1>1, <1>4 DEF IsCodeOf
    <3> QED BY <1>1, <1>3, <1>4, <1>6, <3>1, <3>4, <3>5, <3>8, <3>9 DEF CodesUpTo
  <2>2. CASE IsrcFails
    <3>1. ~ faultless' /\ UNCHANGED isrc
      BY <2>2 DEF IsrcFails
    <3> QED BY <1>1, <1>3, <3>1 DEF CodesUpTo
  <2> QED BY <2>1, <2>2
<1> QED BY <1>1, <1>2, <1>7 DEF CodesInv

(* The end of the loop, hence of a pass.                                   *)
LEMMA CloseKeepsCodes == Inv /\ CodesInv /\ Close => CodesInv'
<1> SUFFICES ASSUME Inv, CodesInv, Close PROVE CodesInv'
  OBVIOUS
<1>1. CASE pass = 1
  BY <1>1 DEF Close, CloseKeeping, CodesInv
<1>2. CASE pass # 1
  <2>1. /\ pc = "isrc" /\ pc' = "idle" /\ pass = 2
        /\ UNCHANGED <<build, medium, features, disc, mcn, isrc, since, faultless>>
    BY <1>2 DEF Close, CloseKeeping, StillHere, Inv, DataTypes
  <2>2. CodesUpTo(i - 1)
    BY <2>1 DEF CodesInv
  <2>3. i \in Int /\ disc.first \in Int /\ disc.last \in Int
    BY DEF Inv, DataTypes
  <2>4. HasFeature("mcn") /\ "isrc" \in features => i > disc.last
    BY <2>1, <2>3 DEF Close, CloseKeeping, IsrcIsDue, IsRead, HasFeature
  <2>5. i > disc.last => disc.first..disc.last \subseteq disc.first..(i - 1)
    BY <2>3
  <2>6. CodesUpTo(disc.last)
    BY <2>2, <2>4, <2>5 DEF CodesUpTo
  <2>7. CodesUpTo(disc.last)'
    BY <2>1, <2>6, SamePlatform DEF CodesUpTo, IsrcIsRight, IsCodeOf
  <2> QED BY <2>1, <2>7 DEF CodesInv
<1> QED BY <1>1, <1>2
-----------------------------------------------------------------------------
(* Both invariants together.                                               *)
LEMMA CodesNext == Inv /\ CodesInv /\ [Next]_vars => CodesInv'
<1> SUFFICES ASSUME Inv, CodesInv, [Next]_vars PROVE CodesInv'
  OBVIOUS
<1>1. \/ UNCHANGED vars \/ Swap \/ (\E asked \in SUBSET CodeFeature : Call(asked)) \/ Step
  BY DEF Next
<1> QED BY <1>1, StepShape, FrameKeepsCodes, LoadKeepsCodes, McnKeepsCodes, IsrcKeepsCodes,
           CloseKeepsCodes

(* They hold in every behaviour.                                           *)
LEMMA CodesHold == Spec => [](Inv /\ CodesInv)
<1>1. Init => CodesInv
  BY DEF Init, CodesInv
<1> QED BY <1>1, CodesNext, InvHolds, PTL DEF Spec

(* A call that succeeds has read the codes it was asked for, of the tracks *)
(* of the disc it reports and of the medium it found, and nothing else.    *)
THEOREM SparseReads == Spec => []SparseReadsWhatIsAsked
<1>1. CodesInv => SparseReadsWhatIsAsked
  BY DEF CodesInv, CodesUpTo, IsrcIsRight, SparseReadsWhatIsAsked
<1> QED BY <1>1, CodesHold, PTL

-----------------------------------------------------------------------------
(* Blank means the same to both.                                           *)
LEMMA SameBlanks == Caller!BlankDisc = BlankDisc /\ Caller!NoIsrcs = NoIsrcs
BY DEF Caller!BlankDisc, BlankDisc, Caller!NoOffsets, NoOffsets, Caller!NoIsrcs, NoIsrcs,
       Caller!Slot, Slot

(* The handle is blank at first.                                           *)
LEMMA InitIsUnset == Init => Caller!Init
BY SameBlanks DEF Init, Caller!Init, Caller!Unreported, Caller!Empty, CallState,
       AtRest

(* What is not a step of the call is no step for the caller.               *)
LEMMA FrameIsHidden == UNCHANGED vars \/ Swap => UNCHANGED Caller!vars
BY DEF vars, handleVars, Swap, Caller!vars, CallState, AtRest

(* The call begins.                                                        *)
LEMMA CallIsBegin ==
    ASSUME Inv, NEW asked \in SUBSET CodeFeature, Call(asked)
    PROVE  Caller!Begin(asked)
<1>1. pc = "idle" /\ pc' = "find" /\ features' = asked
  BY DEF Call, CallFromPass
<1>2. CallState \in {"unset", "loaded", "failed"} /\ CallState' = "busy"
  BY <1>1 DEF CallState
<1>3. Caller!Unreported'
  BY <1>1, SameBlanks DEF Caller!Unreported, Caller!Empty, AtRest
<1> QED BY <1>1, <1>2, <1>3 DEF Caller!Begin

(* On its way it shows nothing.                                            *)
LEMMA OnwardIsHidden ==
    ASSUME pc \in Busy, pc' \in Busy, features' = features
    PROVE  UNCHANGED Caller!vars
BY DEF Busy, AtDrive, Caller!vars, CallState, AtRest

(* It dies, or fails with a reason and a blank handle.                     *)
LEMMA ElsewhereIsCaller ==
    ASSUME Inv, Inv', Elsewhere
    PROVE  UNCHANGED Caller!vars \/ Caller!Fails \/ Caller!Dies
<1>1. pc \in Busy /\ features' = features
  BY DEF Elsewhere
<1>2. CallState = "busy"
  BY <1>1 DEF CallState, Busy, AtDrive
<1>3. CASE Onward
  BY <1>1, <1>3, OnwardIsHidden DEF Onward
<1>4. CASE Dying
  <2>1. pc' # "idle" /\ CallState' = "dead"
    BY <1>4 DEF Dying, Dead, CallState
  <2>2. Caller!Unreported'
    BY <2>1, SameBlanks DEF Caller!Unreported, Caller!Empty, AtRest
  <2> QED BY <1>1, <1>2, <2>1, <2>2 DEF Caller!Dies
<1>5. CASE Failing
  <2>1. pc' = "idle" /\ ret' = 0 /\ error_msg' # "none"
    BY <1>5 DEF Failing
  <2>2. ~ success' /\ HandleIsBlank'
    BY <2>1 DEF Inv, IdleInv
  <2>3. CallState' = "failed"
    BY <2>1, <2>2 DEF CallState
  <2>4. Caller!Empty'
    BY <2>1, <2>2, SameBlanks DEF HandleIsBlank, Caller!Empty, AtRest
  <2> QED BY <1>1, <1>2, <2>1, <2>3, <2>4 DEF Caller!Fails, AtRest
<1> QED BY <1>3, <1>4, <1>5 DEF Elsewhere

(* The steps of the codes stay within the call.                            *)
LEMMA CodesAreHidden ==
    Load \/ ReadMcn \/ McnFails \/ SkipMcn \/ ReadIsrc \/ IsrcFails => UNCHANGED Caller!vars
<1>1. Load \/ ReadMcn \/ McnFails \/ SkipMcn \/ ReadIsrc \/ IsrcFails
        => pc \in Busy /\ pc' \in Busy /\ features' = features
  BY DEF Load, ReadMcn, McnFails, SkipMcn, ReadIsrc, IsrcFails, IsrcIsDue, GotoIsrcs, NextIsrc,
         Goto, Busy, AtDrive
<1> QED BY <1>1, OnwardIsHidden

(* The end of the first pass is hidden as well, that of the second is the  *)
(* disc.                                                                   *)
LEMMA CloseIsCaller ==
    ASSUME Inv, Inv', CodesInv, CodesInv', Close
    PROVE  UNCHANGED Caller!vars \/ Caller!Loads
<1>1. pc = "isrc" /\ features' = features
  BY DEF Close, CloseKeeping
<1>2. CASE pass = 1
  <2>1. pc' = "find"
    BY <1>2 DEF Close, CloseKeeping
  <2> QED BY <1>1, <2>1, OnwardIsHidden DEF Busy, AtDrive
<1>3. CASE pass # 1
  <2>1. pc' = "idle" /\ ret' = 1
    BY <1>3 DEF Close, CloseKeeping
  <2>2. success' /\ Sane(disc)' /\ error_msg' = "none" /\ CodesUpTo(disc.last)'
    BY <2>1 DEF Inv, IdleInv, CodesInv
  <2>3. CallState = "busy" /\ CallState' = "loaded"
    BY <1>1, <2>1, <2>2 DEF CallState
  <2>4. /\ mcn' \in (Media \cup {Filler}) \cup {NoCode}
        /\ isrc' \in [Slot -> (Media \cup {Filler}) \cup {NoCode}]
    <3>1. Code = (Media \cup {Filler}) \cup {NoCode}
      BY DEF Code
    <3> QED BY <3>1 DEF Inv, DataTypes
  <2>5. AtRest(disc, BlankDisc)' = disc' /\ AtRest(mcn, NoCode)' = mcn'
    BY <2>1 DEF AtRest
  <2>6. AtRest(isrc, NoIsrcs)' = isrc' /\ AtRest(error_msg, "none")' = error_msg'
    BY <2>1 DEF AtRest
  <2> QED
    BY <1>1, <2>2, <2>3, <2>4, <2>5, <2>6 DEF Caller!Loads, Sane, CodesUpTo, Slot, Caller!Slot
<1> QED BY <1>2, <1>3

(* Every step of the call is a step of ReadCall or hidden from it.         *)
LEMMA StepIsCaller ==
    Inv /\ CodesInv /\ Inv' /\ CodesInv' /\ [Next]_vars => [Caller!Next]_(Caller!vars)
<1> SUFFICES ASSUME Inv, CodesInv, Inv', CodesInv', [Next]_vars
             PROVE  Caller!Next \/ UNCHANGED Caller!vars
  OBVIOUS
<1>1. CASE UNCHANGED vars \/ Swap
  BY <1>1, FrameIsHidden
<1>2. CASE \E asked \in SUBSET CodeFeature : Call(asked)
  <2>1. PICK asked \in SUBSET CodeFeature : Call(asked)
    BY <1>2
  <2>2. Caller!Begin(asked)
    BY <2>1, CallIsBegin
  <2> QED BY <2>2 DEF Caller!Next, CodeFeature
<1>3. CASE Step
  BY <1>3, StepShape, ElsewhereIsCaller, CodesAreHidden, CloseIsCaller DEF Caller!Next
<1> QED BY <1>1, <1>2, <1>3 DEF Next

(* To its caller, discid_read_sparse is the one step of ReadCall, on every *)
(* platform and whatever the drive does: DiscHandle may take it for one.   *)
THEOREM ReadIsOneStep == Spec => ImplementsReadCall
<1>1. Init => Caller!Init
  BY InitIsUnset
<1>2. Spec => [][Caller!Next]_(Caller!vars)
  BY CodesHold, StepIsCaller, PTL DEF Spec
<1> QED BY <1>1, <1>2, PTL DEF Spec, ImplementsReadCall, Caller!Spec
=============================================================================
