--------------------------- MODULE DiscHandleProofs ---------------------------
(***************************************************************************)
(* The safety of a handle, for tables of every size, every set of answers  *)
(* of a drive and of arguments of discid_put, in debug and release builds, *)
(* with and without memory; and that a handle implements DiscIdApi.        *)
(***************************************************************************)
EXTENDS DiscHandle, DiscTocProofs

(* The disc of a read: nothing is stored outside its tracks, no track      *)
(* starts before 0, and the last one not behind the lead-out.              *)
HasReadShape(d) ==
    /\ d.first \in 1..MAX_TRACK /\ d.last \in Slot
    /\ d.offsets \in Offsets
    /\ \A k \in Slot : k # 0 => d.offsets[k] >= 0
    /\ \A k \in Slot : k # 0 /\ k \notin d.first..d.last => d.offsets[k] = 0
    /\ d.offsets[d.last] <= d.offsets[0]

(* The disc of discid_put: what its checks let through.                    *)
HasPutShape(d) ==
    /\ d.first \in 1..MAX_TRACK /\ d.last \in d.first..MAX_TRACK
    /\ d.offsets \in Offsets
    /\ \A k \in 0..d.last : d.offsets[k] <= d.offsets[0]
    /\ \A j, k \in 1..d.last : j <= k => d.offsets[j] <= d.offsets[k]
    /\ \A k \in Slot : k > d.last => d.offsets[k] = 0
    /\ d.offsets[0] <= MAX_DISC_LENGTH

(* A handle has a disc exactly when the call that filled it is known, and  *)
(* the disc has the shape that this call gives it.                         *)
OriginInv ==
    /\ origin \in {"none", "failed"} <=> ~ success
    /\ origin = "read" => HasReadShape(disc)
    /\ origin = "put" => HasPutShape(disc) /\ mcn = NoText /\ isrc = NoIsrcs

(* What a text may be, where memory is scarce: nothing, the text of the    *)
(* disc, or this without its TOC, never that of another disc.              *)
IsCurrent(field, t) ==
    \/ t \in {NoText, WholeText(field)}
    \/ setting.scarce /\ field \in NeedsToc /\ t = WithoutToc(field, WholeText(field))

TextsInv == \A field \in TextField : IsCurrent(field, text[field])

HandleInv == TypeOK /\ FailureLeavesNothing /\ OriginInv /\ TextsInv

-----------------------------------------------------------------------------
(* What discid_read and discid_put store.                                  *)
LEMMA SizeFacts ==
    /\ MAX_TRACK \in Nat \ {0} /\ PREGAP \in Nat /\ MAX_DISC_LENGTH \in Int
    /\ 0 \in Slot /\ Slot = 0..MAX_TRACK
BY TocConstants, TextConstants DEF Slot

(* Every slot is written by mb_disc_load_toc, with 0 outside the tracks.   *)
LEMMA LoadedShape ==
    ASSUME NEW t \in Toc, Refusal(t) = "none", t.last <= MAX_TRACK
    PROVE  HasReadShape(LoadedDisc(t))
<1> DEFINE n == LastTrack(t)
           d == LoadedDisc(t)
<1>1. t.first \in Int /\ t.last \in Int /\ t.first >= 1 /\ AudioTracks(t) # {}
  BY TocTypes DEF Refusal
<1>2. LastAudio(t) \in AudioTracks(t) /\ AudioTracks(t) \subseteq t.first..t.last
  BY <1>1, LastAudioExists DEF AudioTracks
<1>3. t.first \in 1..MAX_TRACK
  BY <1>1, <1>2, SizeFacts
<1>4. d = [first |-> t.first, last |-> n, offsets |-> TableWithLast(t, n)]
  BY DEF LoadedDisc
<1>5. /\ d \in [first: Int, last: Int, offsets: [Slot -> Int]]
      /\ d.last \in Slot /\ d.offsets[d.last] <= d.offsets[0]
  BY LoadedDiscIsSane
<1>6. \A k \in Slot : k # 0 =>
          d.offsets[k] = IF k \in t.first..n THEN StartOffset(t.tracks[k]) ELSE 0
  BY <1>4 DEF TableWithLast
<1>7. \A k \in Slot : t.tracks[k].address \in Int
  BY DEF Toc, TocTrack
<1>8. \A k \in Slot : StartOffset(t.tracks[k]) >= 0
  BY <1>7, SizeFacts DEF StartOffset
<1> HIDE DEF d, n
<1>9. d.first = t.first /\ d.last = n
  BY <1>4
<1>10. HasReadShape(d)
  BY <1>3, <1>5, <1>6, <1>8, <1>9 DEF HasReadShape, Offsets
<1> QED BY <1>10 DEF d

(* Offsets that are in order from each track to the next are in order.     *)
LEMMA OrderIsTransitive ==
    ASSUME NEW last \in Nat, last <= MAX_TRACK, NEW offsets \in Offsets,
           \A k \in 2..last : offsets[k - 1] <= offsets[k]
    PROVE  \A j, k \in 1..last : j <= k => offsets[j] <= offsets[k]
<1> SUFFICES ASSUME NEW j \in 1..last, NEW k \in 1..last, j <= k,
                    ~ (offsets[j] <= offsets[k])
             PROVE  FALSE
  OBVIOUS
<1> DEFINE Lower == {x \in j..last : ~ (offsets[j] <= offsets[x])}
<1>1. \A x \in 1..last : offsets[x] \in Int
  BY SizeFacts DEF Offsets
<1>2. Lower \in SUBSET (j..last) /\ Lower # {} /\ j \in Int /\ last \in Int
  OBVIOUS
<1> HIDE DEF Lower
<1>3. PICK x \in Lower : \A y \in Lower : x <= y
  BY <1>2, Least
<1>4. x \in j..last /\ ~ (offsets[j] <= offsets[x])
  BY <1>3 DEF Lower
<1>5. x # j /\ x - 1 \in j..last /\ x \in 2..last
  BY <1>1, <1>4
<1>6. x - 1 \notin Lower
  BY <1>3, <1>4
<1>7. offsets[j] <= offsets[x - 1]
  BY <1>5, <1>6 DEF Lower
<1> QED BY <1>1, <1>4, <1>5, <1>7

(* What discid_put accepts has the shape of a disc.                        *)
LEMMA PutShape ==
    ASSUME NEW first \in Int, NEW last \in Int,
           NEW offsets \in Offsets \cup {NoOffsetsGiven},
           PutRefusal(first, last, offsets) = "none"
    PROVE  HasPutShape(PutDisc(first, last, offsets))
<1> DEFINE d == PutDisc(first, last, offsets)
<1>1. first <= last /\ first >= 1 /\ last <= MAX_TRACK /\ offsets # NoOffsetsGiven
      /\ ~ (offsets[0] > MAX_DISC_LENGTH)
  BY SizeFacts DEF PutRefusal
<1>2. offsets \in Offsets
  BY <1>1
<1>3. BadOffsets(last, offsets) = {}
  <2> SUFFICES ASSUME BadOffsets(last, offsets) # {} PROVE FALSE
    OBVIOUS
  <2> QED BY <1>1, SizeFacts DEF PutRefusal
<1>4. \A k \in 0..last : offsets[k] \in Int
  BY <1>1, <1>2, SizeFacts DEF Offsets
<1>5. \A k \in 0..last : offsets[k] <= offsets[0] /\ (k > 1 => offsets[k - 1] <= offsets[k])
  <2>1. \A k \in 0..last : ~ (\/ offsets[k] > offsets[0]
                              \/ (k > 1 /\ offsets[k - 1] > offsets[k]))
    BY <1>3 DEF BadOffsets
  <2> QED BY <2>1, <1>1, <1>4
<1>6. \A j, k \in 1..last : j <= k => offsets[j] <= offsets[k]
  BY <1>1, <1>2, <1>5, OrderIsTransitive
<1>7. /\ d.first = first /\ d.last = last /\ d.offsets \in Offsets
      /\ \A k \in Slot : d.offsets[k] = IF k <= last THEN offsets[k] ELSE 0
  BY <1>1, <1>4, SizeFacts DEF PutDisc, Offsets
<1> HIDE DEF d
<1>8. \A k \in 0..last : k \in Slot /\ d.offsets[k] = offsets[k]
  BY <1>1, <1>7, SizeFacts
<1>9. offsets[0] <= MAX_DISC_LENGTH
  BY <1>1, <1>4, SizeFacts
<1>10. HasPutShape(d)
  BY <1>1, <1>5, <1>6, <1>7, <1>8, <1>9, SizeFacts DEF HasPutShape
<1> QED BY <1>10 DEF d

-----------------------------------------------------------------------------
(* The id of a disc does not depend on what else was printed.              *)
LEMMA IdIsDiscId == \A d, id : TextOf(d, "id", id) = DiscIdOf(d)
BY Zenon DEF TextOf

(* A handle that was cleared has none of what the invariant speaks of.     *)
LEMMA ClearedHandle ==
    ASSUME HandleInv, Blank, handle' \in {"absent", "valid"}, UNCHANGED setting,
           \/ error_msg' = "none" /\ origin' = "none"
           \/ error_msg' # "none" /\ origin' = "failed"
    PROVE  HandleInv'
<1>1. TypeOK'
  <2>1. 0 \in 0..MAX_TRACK /\ NoOffsets \in Offsets
    BY SizeFacts DEF NoOffsets, Offsets
  <2>2. NoIsrcs \in [Slot -> Codes \cup {NoText}] /\ DOMAIN NoTexts = TextField
    BY DEF NoIsrcs, NoTexts
  <2> HIDE DEF NoIsrcs, NoTexts, NoOffsets, NoText
  <2> QED BY <2>1, <2>2 DEF Blank, TypeOK, HandleInv
<1>2. FailureLeavesNothing'
  BY DEF Blank, FailureLeavesNothing, disc, BlankDisc
<1>3. OriginInv'
  BY DEF Blank, OriginInv
<1>4. TextsInv'
  <2>1. \A field \in TextField : NoTexts[field] = NoText
    BY DEF NoTexts
  <2>2. text' = NoTexts
    BY DEF Blank
  <2> QED BY <2>1, <2>2, Zenon DEF TextsInv, IsCurrent
<1> QED BY <1>1, <1>2, <1>3, <1>4 DEF HandleInv

(* Getters that only look.                                                 *)
LEMMA LookingKeepsInv ==
    ASSUME HandleInv, UNCHANGED <<setting, toc, text, codes, status, origin>>,
           handle' \in {handle, "undefined"}
    PROVE  HandleInv'
<1> USE DEF toc, codes, status
<1>1. TypeOK'
  BY DEF HandleInv, TypeOK
<1>2. FailureLeavesNothing'
  BY DEF HandleInv, FailureLeavesNothing, disc
<1>3. OriginInv'
  BY DEF HandleInv, OriginInv, disc
<1>4. TextsInv'
  <2>1. disc' = disc /\ text' = text /\ setting' = setting
    BY DEF disc
  <2> QED BY <2>1, Zenon DEF HandleInv, TextsInv, IsCurrent, WholeText
<1> QED BY <1>1, <1>2, <1>3, <1>4 DEF HandleInv

(* A disc is stored beside codes and empty texts.                          *)
LEMMA StoringKeepsInv ==
    ASSUME HandleInv, handle = "valid",
           NEW d, d = [first |-> d.first, last |-> d.last, offsets |-> d.offsets],
           NEW theMcn \in Codes \cup {NoText},
           NEW theIsrcs \in [Slot -> Codes \cup {NoText}],
           NEW from \in {"read", "put"},
           from = "read" => HasReadShape(d),
           from = "put" => HasPutShape(d) /\ theMcn = NoText /\ theIsrcs = NoIsrcs,
           Store(d, theMcn, theIsrcs, from)
    PROVE  HandleInv'
<1>1. disc' = d
  BY DEF Store, disc
<1>2. d.first \in 0..MAX_TRACK /\ d.last \in 0..MAX_TRACK /\ d.offsets \in Offsets
  BY SizeFacts DEF HasReadShape, HasPutShape
<1>3. TypeOK'
  <2>1. DOMAIN NoTexts = TextField
    BY DEF NoTexts
  <2> HIDE DEF NoTexts, NoText
  <2> QED BY <1>2, <2>1 DEF Store, TypeOK, HandleInv
<1>4. FailureLeavesNothing'
  BY DEF Store, FailureLeavesNothing, HandleInv
<1>5. OriginInv'
  <2> HIDE DEF NoText, NoIsrcs
  <2> QED BY <1>1 DEF Store, OriginInv
<1>6. TextsInv'
  <2>1. \A field \in TextField : NoTexts[field] = NoText
    BY DEF NoTexts
  <2>2. text' = NoTexts
    BY DEF Store
  <2> QED BY <2>1, <2>2, Zenon DEF TextsInv, IsCurrent
<1> QED BY <1>3, <1>4, <1>5, <1>6 DEF HandleInv

(* A call that fails clears the handle and says why.                       *)
LEMMA RefusingKeepsInv ==
    ASSUME HandleInv, handle = "valid", NEW msg, msg # "none", Refuse(msg)
    PROVE  HandleInv'
BY ClearedHandle DEF Refuse

(* discid_read, with and without luck.                                     *)
LEMMA ReadKeepsInv == HandleInv /\ (ReadRefused \/ ReadLoaded) => HandleInv'
<1>1. ASSUME HandleInv, ReadRefused PROVE HandleInv'
  <2>1. handle = "valid" /\ \E msg : msg # "none" /\ Refuse(msg)
    BY <1>1 DEF ReadRefused
  <2> QED BY <1>1, <2>1, RefusingKeepsInv
<1>2. ASSUME HandleInv, ReadLoaded PROVE HandleInv'
  <2> DEFINE Isrcs(t, c) == [k \in Slot |-> IF k \in t.first..LastTrack(t) THEN c ELSE NoText]
  <2>1. PICK t \in Tocs, m \in Codes \cup {NoText}, c \in Codes \cup {NoText} :
            /\ Refusal(t) = "none"
            /\ Store(LoadedDisc(t), m, Isrcs(t, c), "read")
    BY <1>2 DEF ReadLoaded
  <2>2. t \in Toc /\ t.last <= MAX_TRACK /\ handle = "valid"
    BY <1>2, HandleConstants DEF ReadLoaded
  <2>3. Isrcs(t, c) \in [Slot -> Codes \cup {NoText}]
    OBVIOUS
  <2>4. HasReadShape(LoadedDisc(t))
    BY <2>1, <2>2, LoadedShape
  <2>5. LoadedDisc(t) = [first |-> LoadedDisc(t).first, last |-> LoadedDisc(t).last,
                         offsets |-> LoadedDisc(t).offsets]
    BY DEF LoadedDisc
  <2> HIDE DEF Isrcs
  <2> QED BY <1>2, <2>1, <2>2, <2>3, <2>4, <2>5, StoringKeepsInv
<1> QED BY <1>1, <1>2

(* discid_put, whatever it is given.                                       *)
LEMMA PutKeepsInv == HandleInv /\ (PutRefused \/ PutLoaded) => HandleInv'
<1>1. ASSUME HandleInv, PutRefused PROVE HandleInv'
  <2>1. handle = "valid" /\ \E msg : msg # "none" /\ Refuse(msg)
    BY <1>1 DEF PutRefused
  <2> QED BY <1>1, <2>1, RefusingKeepsInv
<1>2. ASSUME HandleInv, PutLoaded PROVE HandleInv'
  <2>1. PICK p \in PutArguments :
            /\ PutRefusal(p.first, p.last, p.offsets) = "none"
            /\ Store(PutDisc(p.first, p.last, p.offsets), NoText, NoIsrcs, "put")
    BY <1>2 DEF PutLoaded
  <2>2. /\ p.first \in Int /\ p.last \in Int /\ p.offsets \in Offsets \cup {NoOffsetsGiven}
        /\ handle = "valid"
    BY <1>2, HandleConstants DEF PutLoaded
  <2> DEFINE d == PutDisc(p.first, p.last, p.offsets)
  <2>3. HasPutShape(d)
    BY <2>1, <2>2, PutShape
  <2>4. d = [first |-> d.first, last |-> d.last, offsets |-> d.offsets]
    BY DEF PutDisc
  <2>5. NoIsrcs \in [Slot -> Codes \cup {NoText}]
    BY DEF NoIsrcs
  <2>6. Store(d, NoText, NoIsrcs, "put")
    BY <2>1
  <2> HIDE DEF d
  <2> QED BY <1>2, <2>2, <2>3, <2>4, <2>5, <2>6, StoringKeepsInv
<1> QED BY <1>1, <1>2

-----------------------------------------------------------------------------
(* What the lazy getters print: only where nothing was, and the text of    *)
(* the disc, unless there was no memory for its TOC.                       *)

(* The id that is needed is printed once, and is the id of the disc.       *)
LEMMA PrintedTexts ==
    ASSUME TextsInv, NEW field \in TextField, NEW allocated \in Allocations
    PROVE  LET new == Printed(field, text[field] = NoText, allocated)
           IN  /\ DOMAIN new = TextField
               /\ \A f \in TextField : text[f] # NoText => new[f] = text[f]
               /\ \A f \in TextField : IsCurrent(f, new[f])
               /\ \/ new[field] = WholeText(field)
                  \/ /\ setting.scarce /\ field \in NeedsToc
                     /\ new[field] = WithoutToc(field, WholeText(field))
<1> DEFINE id == IF text["id"] = NoText THEN DiscIdOf(disc) ELSE text["id"]
           anew == text[field] = NoText
           new == Printed(field, anew, allocated)
<1>1. \A f \in TextField : IsCurrent(f, text[f])
  BY Zenon DEF TextsInv
<1>2. "id" \in TextField /\ "id" \notin NeedsToc
  BY DEF TextField, NeedsToc, UrlField
<1>3. WholeText("id") = DiscIdOf(disc)
  BY IdIsDiscId DEF WholeText
<1>4. id = DiscIdOf(disc)
  BY <1>1, <1>2, <1>3, Zenon DEF IsCurrent
<1>5. TextOf(disc, field, id) = WholeText(field)
  BY <1>4, Zenon DEF WholeText
<1>6. \A f \in TextField : new[f] =
            IF f = field
            THEN IF ~ anew THEN text[f]
                 ELSE IF f \in NeedsToc /\ ~ allocated THEN WithoutToc(f, TextOf(disc, field, id))
                                                       ELSE TextOf(disc, field, id)
            ELSE IF f = "id" /\ field \in NeedsId /\ anew THEN id
            ELSE text[f]
  BY Zenon DEF Printed
<1>7. DOMAIN new = TextField
  BY Zenon DEF Printed
<1>8. ~ allocated => setting.scarce
  BY DEF Allocations
<1> HIDE DEF new, id
<1>9. ASSUME NEW f \in TextField, text[f] # NoText PROVE new[f] = text[f]
  BY <1>6, <1>9, Zenon DEF id
<1>10. ASSUME NEW f \in TextField PROVE IsCurrent(f, new[f])
  <2>1. CASE f = field /\ anew
    BY <1>5, <1>6, <1>8, <2>1, Zenon DEF IsCurrent
  <2>2. CASE f = "id" /\ f # field
    BY <1>1, <1>3, <1>4, <1>6, <2>2, Zenon DEF IsCurrent
  <2>3. CASE ~ (f = field /\ anew) /\ ~ (f = "id" /\ f # field)
    BY <1>1, <1>6, <2>3, Zenon
  <2> QED BY <2>1, <2>2, <2>3
<1>11. \/ new[field] = WholeText(field)
       \/ setting.scarce /\ field \in NeedsToc /\ new[field] = WithoutToc(field, WholeText(field))
  <2>1. CASE anew
    BY <1>5, <1>6, <1>8, <2>1, Zenon
  <2>2. CASE ~ anew
    BY <1>10, <1>6, <2>2, Zenon DEF IsCurrent
  <2> QED BY <2>1, <2>2
<1> QED BY <1>7, <1>9, <1>10, <1>11, Zenon DEF new

(* A lazy getter leaves every text current.                                *)
LEMMA GetTextKeepsInv ==
    ASSUME HandleInv, NEW field \in TextField, GetText(field)
    PROVE  HandleInv'
<1>1. PICK allocated \in Allocations :
          Handed(field, Printed(field, text[field] = NoText, allocated))
  BY Zenon DEF GetText
<1> DEFINE new == Printed(field, text[field] = NoText, allocated)
<1>2. /\ DOMAIN new = TextField
      /\ \A f \in TextField : IsCurrent(f, new[f])
  BY PrintedTexts, Zenon DEF HandleInv
<1>3. handle = "valid" /\ success /\ text' = new
      /\ UNCHANGED <<setting, handle, toc, codes, status, origin>>
  BY <1>1, Zenon DEF Handed
<1> HIDE DEF new
<1> USE DEF toc, codes, status
<1>4. disc' = disc
  BY <1>3 DEF disc
<1>5. TypeOK'
  BY <1>2, <1>3 DEF HandleInv, TypeOK
<1>6. FailureLeavesNothing'
  BY <1>3 DEF HandleInv, FailureLeavesNothing
<1>7. OriginInv'
  BY <1>3, <1>4 DEF HandleInv, OriginInv
<1>8. TextsInv'
  BY <1>2, <1>3, <1>4, Zenon DEF TextsInv, IsCurrent, WholeText
<1> QED BY <1>5, <1>6, <1>7, <1>8 DEF HandleInv

-----------------------------------------------------------------------------
(* The getters that print nothing, and the calls that must not be made.    *)
Look ==
    \/ GetFirstTrackNum \/ GetLastTrackNum \/ GetSectors \/ GetMcn \/ GetErrorMsg
    \/ \E k \in Slot : GetTrackOffset(k) \/ GetTrackLength(k) \/ GetTrackIsrc(k)

(* The former change nothing that the invariant speaks of.                 *)
LEMMA LookLooks ==
    Look => UNCHANGED <<setting, handle, toc, text, codes, status, origin>>
BY DEF Look, GetFirstTrackNum, GetLastTrackNum, GetSectors, GetMcn, GetErrorMsg,
       GetTrackOffset, GetTrackLength, GetTrackIsrc, Answered

(* The latter are calls on a handle that is there.                         *)
LEMMA RejectShape ==
    GetOfNoDisc \/ GetOfNoTrack => handle = "valid" /\ \E question : Rejected(question)
BY DEF GetOfNoDisc, GetOfNoTrack

(* They answer nothing, or end the program and its handles.                *)
LEMMA RejectedKeepsInv ==
    ASSUME HandleInv, NEW question, Rejected(question)
    PROVE  HandleInv'
<1>1. CASE setting.ndebug
  BY <1>1, LookingKeepsInv DEF Rejected
<1>2. CASE ~ setting.ndebug
  BY <1>2, ClearedHandle DEF Rejected, NoCallYet
<1> QED BY <1>1, <1>2

(* Every call on a handle keeps the invariant.                             *)
LEMMA NextKeepsInv == HandleInv /\ [Next]_vars => HandleInv'
<1> SUFFICES ASSUME HandleInv, [Next]_vars PROVE HandleInv'
  OBVIOUS
<1>1. CASE UNCHANGED vars
  BY <1>1, LookingKeepsInv DEF vars
<1>2. CASE New \/ Free
  BY <1>2, ClearedHandle DEF New, Free, NoCallYet
<1>3. CASE ReadRefused \/ ReadLoaded \/ PutRefused \/ PutLoaded
  BY <1>3, ReadKeepsInv, PutKeepsInv
<1>4. CASE \E field \in TextField : GetText(field) \/ GetTextCrashes(field)
  <2>1. ASSUME NEW field \in TextField, GetTextCrashes(field) PROVE HandleInv'
    BY <2>1, LookingKeepsInv DEF GetTextCrashes
  <2> QED BY <1>4, <2>1, GetTextKeepsInv
<1>5. CASE Look
  BY <1>5, LookLooks, LookingKeepsInv
<1>6. CASE GetOfNoDisc \/ GetOfNoTrack
  BY <1>6, RejectShape, RejectedKeepsInv
<1> QED BY <1>1, <1>2, <1>3, <1>4, <1>5, <1>6 DEF Next, Look

(* Before the first call there is no handle.                               *)
LEMMA InitHasInv == Init => HandleInv
<1> SUFFICES ASSUME Init PROVE HandleInv
  OBVIOUS
<1>1. \A field \in TextField : NoTexts[field] = NoText
  BY DEF NoTexts
<1>2. DOMAIN NoTexts = TextField /\ NoIsrcs \in [Slot -> Codes \cup {NoText}]
  BY DEF NoTexts, NoIsrcs
<1>3. 0 \in 0..MAX_TRACK /\ NoOffsets \in Offsets
  BY SizeFacts DEF NoOffsets, Offsets
<1>4. FailureLeavesNothing /\ OriginInv
  BY DEF Init, FailureLeavesNothing, OriginInv, disc, BlankDisc
<1>5. TextsInv
  BY <1>1, Zenon DEF Init, TextsInv, IsCurrent
<1> HIDE DEF NoTexts, NoIsrcs, NoOffsets, NoText
<1>6. TypeOK
  BY <1>2, <1>3 DEF Init, TypeOK
<1> QED BY <1>4, <1>5, <1>6 DEF HandleInv

(* The invariant of a handle.                                              *)
LEMMA InvHolds == Spec => []HandleInv
BY InitHasInv, NextKeepsInv, PTL DEF Spec

(* The fields of a handle keep their types: whatever a client puts, a      *)
(* handle never has a track number outside its arrays.                     *)
THEOREM TypeCorrect == Spec => []TypeOK
BY InvHolds, PTL DEF HandleInv

(* A text kept in the handle is that of the disc in it, after every        *)
(* sequence of calls; where memory is scarce, this is said of the id and   *)
(* of the FreeDB ID.                                                       *)
THEOREM TextsStayCurrent == Spec => []TextsAreCurrent
<1>1. HandleInv => TextsAreCurrent
  BY Zenon DEF HandleInv, TextsInv, IsCurrent, TextsAreCurrent
<1> QED BY <1>1, InvHolds, PTL

(* A failed call leaves neither the old disc nor half of the new one.      *)
THEOREM FailuresLeaveNothing == Spec => []FailureLeavesNothing
BY InvHolds, PTL DEF HandleInv

-----------------------------------------------------------------------------
(* What follows from the shapes.                                           *)

(* A disc that was put can be played.                                      *)
LEMMA PutShapeIsPlayable ==
    ASSUME NEW d, HasPutShape(d)
    PROVE  /\ 1 <= d.first
           /\ PassesSanity(d)
           /\ \A k \in d.first..d.last : LengthOf(d, k) >= 0
           /\ d.offsets[0] <= MAX_DISC_LENGTH
<1>1. /\ d.first \in Int /\ d.last \in Int /\ 1 <= d.first /\ d.first <= d.last
      /\ d.last <= MAX_TRACK
      /\ \A k \in 0..d.last : d.offsets[k] \in Int /\ d.offsets[k] <= d.offsets[0]
  BY SizeFacts DEF HasPutShape, Offsets
<1>2. \A j, k \in 1..d.last : j <= k => d.offsets[j] <= d.offsets[k]
  BY DEF HasPutShape
<1>3. PassesSanity(d)
  <2>1. \A k \in d.first..d.last : k \in 1..d.last
    BY <1>1
  <2> QED BY <1>1, <1>2, <2>1 DEF PassesSanity
<1>4. ASSUME NEW k \in d.first..d.last PROVE LengthOf(d, k) >= 0
  <2>1. k \in 0..d.last /\ 0 \in 0..d.last
    BY <1>1
  <2>2. d.offsets[k] \in Int /\ d.offsets[0] \in Int /\ d.offsets[k] <= d.offsets[0]
    BY <1>1, <2>1
  <2>3. CASE k < d.last
    <3>1. k \in 1..d.last /\ k + 1 \in 1..d.last /\ k <= k + 1 /\ k + 1 \in 0..d.last
      BY <1>1, <2>3
    <3>2. d.offsets[k] <= d.offsets[k + 1] /\ d.offsets[k + 1] \in Int
      BY <1>1, <1>2, <3>1
    <3> QED BY <2>2, <2>3, <3>2 DEF LengthOf
  <2>4. CASE ~ (k < d.last)
    BY <2>2, <2>4 DEF LengthOf
  <2> QED BY <2>3, <2>4
<1> QED BY <1>1, <1>3, <1>4 DEF HasPutShape

(* Whatever discid_put accepts can be played and has no codes of a read.   *)
THEOREM PutDiscsArePlayable == Spec => []PutDiscIsPlayable
<1>1. HandleInv => PutDiscIsPlayable
  <2> HIDE DEF NoText, NoIsrcs, disc
  <2> QED BY PutShapeIsPlayable DEF HandleInv, OriginInv, PutDiscIsPlayable
<1> QED BY <1>1, InvHolds, PTL

(* The slots that the DiscID is made of are zero behind the last track,    *)
(* whatever the array of the client held there.                            *)
THEOREM TailsAreZero == Spec => []TailIsZero
<1>1. ASSUME HandleInv PROVE TailIsZero
  <2> HIDE DEF disc
  <2>1. CASE origin \in {"none", "failed"}
    BY <1>1, <2>1
       DEF HandleInv, OriginInv, FailureLeavesNothing, BlankDisc, NoOffsets, TailIsZero
  <2>2. CASE origin = "read"
    <3>1. HasReadShape(disc)
      BY <1>1, <2>2 DEF HandleInv, OriginInv
    <3>2. \A k \in Slot : k > disc.last => k \notin disc.first..disc.last
      BY <3>1, SizeFacts DEF HasReadShape
    <3> QED BY <3>1, <3>2 DEF HasReadShape, TailIsZero
  <2>3. CASE origin = "put"
    BY <1>1, <2>3 DEF HandleInv, OriginInv, HasPutShape, TailIsZero
  <2> QED BY <1>1, <2>1, <2>2, <2>3 DEF HandleInv, TypeOK
<1> QED BY <1>1, InvHolds, PTL

(* The copy of a disc that was read passes every check of discid_put.      *)
LEMMA ReadShapeRoundTrips ==
    ASSUME NEW d, d = [first |-> d.first, last |-> d.last, offsets |-> d.offsets],
           HasReadShape(d), PassesSanity(d), d.offsets[0] <= MAX_DISC_LENGTH
    PROVE  RoundTrips(d)
<1> DEFINE copied == CopiedOffsets(d)
<1>1. /\ d.first \in Int /\ d.last \in Int /\ 1 <= d.first /\ d.first <= d.last
      /\ d.last <= MAX_TRACK /\ d.last \in Slot /\ d.last # 0
      /\ \A k \in Slot : d.offsets[k] \in Int
  BY SizeFacts DEF HasReadShape, PassesSanity, Offsets
<1>2. /\ \A k \in Slot : copied[k] = IF k = 0 \/ k \in d.first..d.last THEN d.offsets[k] ELSE 0
      /\ DOMAIN copied = Slot
  BY DEF CopiedOffsets
<1>3. \A k \in Slot : k \in d.first..d.last => d.offsets[k] <= d.offsets[d.last]
  BY <1>1 DEF PassesSanity
<1>4. d.offsets[d.last] >= 0 /\ d.offsets[d.last] <= d.offsets[0]
  BY <1>1 DEF HasReadShape
<1> HIDE DEF copied
<1>5. \A k \in 0..d.last : k \in Slot
  BY <1>1, SizeFacts
<1>6. copied[0] = d.offsets[0] /\ d.offsets[0] \in Int
  BY <1>1, <1>2, SizeFacts
<1>7. ASSUME NEW k \in 0..d.last PROVE ~ (copied[k] > copied[0])
  <2>1. d.offsets[k] \in Int /\ d.offsets[d.last] \in Int
    BY <1>1, <1>5
  <2> QED BY <1>2, <1>3, <1>4, <1>5, <1>6, <2>1
<1>8. ASSUME NEW k \in 0..d.last, k > 1 PROVE ~ (copied[k - 1] > copied[k])
  <2>1. k - 1 \in 0..d.last /\ k - 1 \in Slot /\ k \in Slot /\ k # 0 /\ k - 1 # 0
    BY <1>1, <1>5, <1>8
  <2>2. d.offsets[k] \in Int /\ d.offsets[k - 1] \in Int /\ d.offsets[k] >= 0
    BY <1>1, <2>1 DEF HasReadShape
  <2>3. CASE k - 1 \in d.first..d.last
    <3>1. k \in d.first..d.last /\ k - 1 <= k
      BY <1>1, <2>3
    <3>2. d.offsets[k - 1] <= d.offsets[k]
      BY <2>3, <3>1 DEF PassesSanity
    <3> QED BY <1>2, <2>1, <2>2, <2>3, <3>1, <3>2
  <2>4. CASE k - 1 \notin d.first..d.last
    BY <1>2, <2>1, <2>2, <2>4
  <2> QED BY <2>3, <2>4
<1>9. BadOffsets(d.last, copied) = {}
  BY <1>7, <1>8 DEF BadOffsets
<1>10. copied # NoOffsetsGiven
  <2>1. DOMAIN copied # {}
    BY <1>2, SizeFacts
  <2> QED BY <2>1 DEF NoOffsetsGiven
<1>11. PutRefusal(d.first, d.last, copied) = "none"
  <2>1. ~ (d.first > d.last \/ d.first < 1 \/ d.last > MAX_TRACK)
    BY <1>1, SizeFacts
  <2>2. ~ (copied[0] > MAX_DISC_LENGTH)
    BY <1>6, SizeFacts
  <2> QED BY <1>9, <1>10, <2>1, <2>2 DEF PutRefusal
<1>12. PutDisc(d.first, d.last, copied) = d
  <2>1. \A k \in Slot : (IF k <= d.last THEN copied[k] ELSE 0) = d.offsets[k]
    <3>1. ASSUME NEW k \in Slot PROVE (IF k <= d.last THEN copied[k] ELSE 0) = d.offsets[k]
      <4>1. CASE k = 0
        BY <1>1, <1>2, <4>1
      <4>2. CASE k # 0 /\ k \in d.first..d.last
        BY <1>1, <1>2, <4>2
      <4>3. CASE k # 0 /\ k \notin d.first..d.last
        BY <1>2, <4>3 DEF HasReadShape
      <4> QED BY <4>1, <4>2, <4>3
    <3> QED BY <3>1
  <2>2. d.offsets = [k \in Slot |-> d.offsets[k]]
    BY DEF HasReadShape, Offsets
  <2>3. [k \in Slot |-> IF k <= d.last THEN copied[k] ELSE 0] = d.offsets
    BY <2>1, <2>2
  <2> QED BY <2>3, Zenon DEF PutDisc
<1> QED BY <1>11, <1>12 DEF RoundTrips, copied

(* What the getters tell of an ordinary disc that was read, discid_put     *)
(* accepts, and makes the same disc of it: the round trip of test_read.c.  *)
THEOREM OrdinaryReadsRoundTrip == Spec => []OrdinaryReadRoundTrips
<1>1. disc = [first |-> disc.first, last |-> disc.last, offsets |-> disc.offsets]
  BY DEF disc
<1>2. HandleInv => OrdinaryReadRoundTrips
  <2> HIDE DEF disc
  <2> QED BY <1>1, ReadShapeRoundTrips DEF HandleInv, OriginInv, OrdinaryReadRoundTrips
<1> QED BY <1>2, InvHolds, PTL

-----------------------------------------------------------------------------
(* The texts of a client.                                                  *)
Stable ==
    \A field \in TextField :
        text[field] = WholeText(field) /\ text'[field] # text[field]
        => result'[1] \in {"free", "load", "abort"}

(* The text of a disc is not empty.                                        *)
LEMMA WholeTextIsSomething == \A field \in TextField : WholeText(field) # NoText
<1>1. \A a, b : <<a, b>> # NoText
  BY DEF NoText
<1>2. \A a, b, c : <<a, b, c>> # NoText
  BY DEF NoText
<1>3. \A a, b, c, e : <<a, b, c, e>> # NoText
  BY DEF NoText
<1> HIDE DEF NoText
<1> QED BY <1>1, <1>2, <1>3, Zenon
        DEF WholeText, TextOf, TextField, DiscIdOf, FreedbIdOf, TocStringOf,
            SubmissionUrlOf, WebserviceUrlOf

(* A getter prints only where there was nothing.                           *)
LEMMA GetTextIsStable ==
    ASSUME HandleInv, NEW field \in TextField, GetText(field)
    PROVE  Stable
<1>1. PICK allocated \in Allocations :
          Handed(field, Printed(field, text[field] = NoText, allocated))
  BY Zenon DEF GetText
<1>2. \A f \in TextField : text[f] # NoText => text'[f] = text[f]
  BY <1>1, PrintedTexts, Zenon DEF HandleInv, Handed
<1> QED BY <1>2, WholeTextIsSomething, Zenon DEF Stable

(* No step but those that end or refill the handle changes a text.         *)
LEMMA StepIsStable == HandleInv /\ [Next]_vars => Stable
<1> SUFFICES ASSUME HandleInv, [Next]_vars PROVE Stable
  OBVIOUS
<1>1. text' = text => Stable
  BY Zenon DEF Stable
<1>2. result'[1] \in {"free", "load", "abort"} => Stable
  BY Zenon DEF Stable
<1>3. CASE UNCHANGED vars
  BY <1>1, <1>3 DEF vars
<1>4. CASE New
  <2>1. text = NoTexts
    BY <1>4 DEF New, HandleInv, FailureLeavesNothing
  <2>2. \A field \in TextField : NoTexts[field] = NoText
    BY DEF NoTexts
  <2> QED BY <2>1, <2>2, WholeTextIsSomething, Zenon DEF Stable
<1>5. CASE Free
  BY <1>2, <1>5 DEF Free
<1>6. CASE ReadRefused \/ ReadLoaded \/ PutRefused \/ PutLoaded
  <2>1. result' = <<"load", 0>> \/ result' = <<"load", 1>>
    BY <1>6 DEF ReadRefused, ReadLoaded, PutRefused, PutLoaded, Refuse, Store
  <2> QED BY <1>2, <2>1
<1>7. CASE \E field \in TextField : GetText(field) \/ GetTextCrashes(field)
  BY <1>1, <1>7, GetTextIsStable DEF GetTextCrashes
<1>8. CASE Look
  BY <1>1, <1>8, LookLooks
<1>9. CASE GetOfNoDisc \/ GetOfNoTrack
  BY <1>1, <1>2, <1>9, RejectShape DEF Rejected
<1> QED BY <1>3, <1>4, <1>5, <1>6, <1>7, <1>8, <1>9 DEF Next, Look

(* A whole text that a client points to is never written again before its  *)
(* handle is freed or filled anew.                                         *)
THEOREM TextsStayStable == Spec => TextsAreStable
<1>1. HandleInv /\ [Next]_vars
        => [\A field \in TextField :
               text[field] = WholeText(field) /\ text'[field] # text[field]
               => result'[1] \in {"free", "load", "abort"}]_vars
  BY StepIsStable, Zenon DEF Stable
<1> QED BY <1>1, InvHolds, PTL DEF Spec, TextsAreStable

-----------------------------------------------------------------------------
(* DiscIdApi and the handle mean the same by a disc and by its texts.      *)
LEMMA SameSlots == Api!Slot = Slot /\ Api!Offsets = Offsets /\ Api!NoText = NoText
BY DEF Api!Slot, Slot, Api!Offsets, Offsets, Api!NoText, NoText

(* Blank means the same to both.                                           *)
LEMMA SameBlanks == Api!BlankDisc = BlankDisc /\ Api!NoCodes = [mcn |-> NoText, isrc |-> NoIsrcs]
BY SameSlots DEF Api!BlankDisc, BlankDisc, Api!NoOffsets, NoOffsets, Api!NoCodes, NoIsrcs

(* So do the digits of a number,                                           *)
LEMMA SameNumbers == Api!DigitSum = DigitSum
BY Zenon DEF Api!DigitSum, DigitSum

(* the two values of a FreeDB ID that are computed,                        *)
LEMMA SameSums ==
    /\ \A d : Api!StartSum(d) = StartSum(d)
    /\ \A a, b : Api!Quotient(a, b) = Quotient(a, b)
<1>1. ASSUME NEW d PROVE Api!StartSum(d) = StartSum(d)
  <2>1. Api!StartSums(d) = StartSums(d)
    BY SameNumbers, Zenon DEF Api!StartSums, StartSums, Api!StartDigits, StartDigits
  <2> QED BY <2>1, Zenon DEF Api!StartSum, StartSum
<1>2. ASSUME NEW a, NEW b PROVE Api!Quotient(a, b) = Quotient(a, b)
  BY Zenon DEF Api!Quotient, Quotient
<1> QED BY <1>1, <1>2

(* and the texts.                                                          *)
LEMMA SameTexts ==
    /\ \A d : Api!DiscIdOf(d) = DiscIdOf(d)
    /\ \A d, f, id : Api!TextOf(d, f, id) = TextOf(d, f, id)
<1>1. ASSUME NEW d PROVE Api!DiscIdOf(d) = DiscIdOf(d)
  BY DEF Api!DiscIdOf, DiscIdOf
<1>2. ASSUME NEW d PROVE Api!TocStringOf(d) = TocStringOf(d)
  BY DEF Api!TocStringOf, TocStringOf
<1>3. ASSUME NEW d, NEW id PROVE Api!SubmissionUrlOf(d, id) = SubmissionUrlOf(d, id)
  BY <1>2 DEF Api!SubmissionUrlOf, SubmissionUrlOf
<1>4. ASSUME NEW d, NEW id PROVE Api!WebserviceUrlOf(d, id) = WebserviceUrlOf(d, id)
  BY <1>2 DEF Api!WebserviceUrlOf, WebserviceUrlOf
<1>5. ASSUME NEW d PROVE Api!FreedbIdOf(d) = FreedbIdOf(d)
  BY SameSums, Zenon DEF Api!FreedbIdOf, FreedbIdOf
<1>6. ASSUME NEW d, NEW f, NEW id PROVE Api!TextOf(d, f, id) = TextOf(d, f, id)
  BY <1>1, <1>2, <1>3, <1>4, <1>5, Zenon DEF Api!TextOf, TextOf
<1> QED BY <1>1, <1>6

(* What is left of a text without its TOC is the same to both, too.        *)
LEMMA SameRemainders ==
    /\ Api!NeedsToc = NeedsToc
    /\ \A f, t : Api!WithoutToc(f, t) = WithoutToc(f, t)
<1>1. Api!NeedsToc = NeedsToc
  BY DEF Api!NeedsToc, NeedsToc, Api!UrlField, UrlField
<1>2. ASSUME NEW f, NEW t PROVE Api!WithoutToc(f, t) = WithoutToc(f, t)
  BY SameSlots, Zenon DEF Api!WithoutToc, WithoutToc
<1> QED BY <1>1, <1>2

(* So do the questions.                                                    *)
LEMMA SameQuestions ==
    /\ Api!TextField = TextField
    /\ Api!TrackQuestion = TrackQuestion
    /\ Api!Question = (DiscQuestion \X {0}) \cup (TrackQuestion \X Slot)
BY SameSlots DEF Api!TextField, TextField, Api!TrackQuestion, TrackQuestion, Api!Question,
                 Api!DiscQuestion, DiscQuestion

-----------------------------------------------------------------------------
(* A blank handle shows nothing.                                           *)
LEMMA BlankIsNothing ==
    ASSUME Blank, NEW s, ApiState' = s
    PROVE  Api!Nothing(s)
<1>1. disc' = BlankDisc
  BY DEF Blank, disc, BlankDisc
<1> QED BY <1>1, SameBlanks DEF Blank, Api!Nothing

(* discid_new, with memory and without.                                    *)
LEMMA NewIsApi == New => Api!New
<1> SUFFICES ASSUME New PROVE Api!New
  OBVIOUS
<1>1. ApiState = "absent" /\ error_msg' = "none" /\ Blank
  BY DEF New, NoCallYet, ApiState
<1>2. CASE handle' = "valid" /\ result' = <<"new">>
  <2>1. ApiState' = "unset"
    BY <1>1, <1>2 DEF Blank, ApiState
  <2> QED BY <1>1, <1>2, <2>1, BlankIsNothing DEF Api!New
<1>3. CASE setting.scarce /\ handle' = "absent" /\ result' = <<"null", "new">>
  <2>1. ApiState' = "absent"
    BY <1>3 DEF ApiState
  <2> QED BY <1>1, <1>3, <2>1, BlankIsNothing DEF Api!New
<1> QED BY <1>2, <1>3 DEF New

(* discid_free.                                                            *)
LEMMA FreeIsApi == Free => Api!Free
<1> SUFFICES ASSUME Free PROVE Api!Free
  OBVIOUS
<1>1. Api!Exists /\ ApiState' = "absent"
  BY DEF Free, ApiState, Api!Exists
<1> QED BY <1>1, BlankIsNothing DEF Free, NoCallYet, Api!Free

(* A call that fails, with its reason.                                     *)
LEMMA RefuseIsApi ==
    ASSUME handle = "valid", NEW msg, msg # "none", Refuse(msg)
    PROVE  Api!Fail
<1>1. Api!Exists /\ ApiState' = "failed"
  BY DEF Refuse, Blank, ApiState, Api!Exists
<1> QED BY <1>1, BlankIsNothing DEF Refuse, Api!Fail

(* A call that fills the handle.                                           *)
LEMMA StoreIsApi ==
    ASSUME handle = "valid", NEW d, NEW theMcn, NEW theIsrcs, NEW from,
           d = [first |-> d.first, last |-> d.last, offsets |-> d.offsets],
           HasReadShape(d) \/ HasPutShape(d),
           \A k \in Slot \ (d.first..d.last) : theIsrcs[k] = NoText,
           Store(d, theMcn, theIsrcs, from)
    PROVE  Api!Load
<1>1. disc' = d /\ isrc' = theIsrcs
  BY DEF Store, disc
<1>2. Api!Exists /\ ApiState' = "loaded"
  BY DEF Store, ApiState, Api!Exists
<1>3. /\ d.first \in Int /\ d.last \in Int /\ d.offsets \in Offsets /\ d.last \in Slot
      /\ 1 <= d.first /\ d.offsets[d.last] <= d.offsets[0]
  BY SizeFacts DEF HasReadShape, HasPutShape
<1>4. d \in Api!Disc
  BY <1>3, SameSlots DEF Api!Disc
<1>5. Api!Sane(d)
  BY <1>3, SameSlots DEF Api!Sane
<1> HIDE DEF disc
<1>6. /\ disc' \in Api!Disc /\ Api!Sane(disc)'
      /\ \A k \in Slot \ (disc'.first..disc'.last) : isrc'[k] = NoText
  BY <1>1, <1>4, <1>5 DEF Api!Sane
<1>7. error_msg' = "none" /\ result' = <<"load", 1>>
  BY DEF Store
<1> QED BY <1>2, <1>6, <1>7, SameSlots DEF Api!Load

(* discid_read.                                                            *)
LEMMA ReadIsApi == ReadRefused \/ ReadLoaded => Api!Fail \/ Api!Load
<1>1. ASSUME ReadRefused PROVE Api!Fail
  <2>1. handle = "valid" /\ \E msg : msg # "none" /\ Refuse(msg)
    BY <1>1 DEF ReadRefused
  <2> QED BY <2>1, RefuseIsApi
<1>2. ASSUME ReadLoaded PROVE Api!Load
  <2> DEFINE Isrcs(t, c) == [k \in Slot |-> IF k \in t.first..LastTrack(t) THEN c ELSE NoText]
  <2>1. PICK t \in Tocs, m \in Codes \cup {NoText}, c \in Codes \cup {NoText} :
            /\ Refusal(t) = "none"
            /\ Store(LoadedDisc(t), m, Isrcs(t, c), "read")
    BY <1>2 DEF ReadLoaded
  <2>2. t \in Toc /\ t.last <= MAX_TRACK /\ handle = "valid"
    BY <1>2, HandleConstants DEF ReadLoaded
  <2> DEFINE d == LoadedDisc(t)
             isrcs == Isrcs(t, c)
  <2>3. HasReadShape(d)
    BY <2>1, <2>2, LoadedShape
  <2>4. d = [first |-> d.first, last |-> d.last, offsets |-> d.offsets]
    BY DEF LoadedDisc
  <2>5. d.first = t.first /\ d.last = LastTrack(t)
    BY DEF LoadedDisc
  <2> HIDE DEF d
  <2>6. \A k \in Slot \ (d.first..d.last) : isrcs[k] = NoText
    BY <2>5
  <2>7. Store(d, m, isrcs, "read")
    BY <2>1 DEF d
  <2> HIDE DEF isrcs
  <2> QED BY <2>2, <2>3, <2>4, <2>6, <2>7, StoreIsApi
<1> QED BY <1>1, <1>2

(* discid_put.                                                             *)
LEMMA PutIsApi == PutRefused \/ PutLoaded => Api!Fail \/ Api!Load
<1>1. ASSUME PutRefused PROVE Api!Fail
  <2>1. handle = "valid" /\ \E msg : msg # "none" /\ Refuse(msg)
    BY <1>1 DEF PutRefused
  <2> QED BY <2>1, RefuseIsApi
<1>2. ASSUME PutLoaded PROVE Api!Load
  <2>1. PICK p \in PutArguments :
            /\ PutRefusal(p.first, p.last, p.offsets) = "none"
            /\ Store(PutDisc(p.first, p.last, p.offsets), NoText, NoIsrcs, "put")
    BY <1>2 DEF PutLoaded
  <2>2. /\ p.first \in Int /\ p.last \in Int /\ p.offsets \in Offsets \cup {NoOffsetsGiven}
        /\ handle = "valid"
    BY <1>2, HandleConstants DEF PutLoaded
  <2> DEFINE d == PutDisc(p.first, p.last, p.offsets)
  <2>3. HasPutShape(d)
    BY <2>1, <2>2, PutShape
  <2>4. d = [first |-> d.first, last |-> d.last, offsets |-> d.offsets]
    BY DEF PutDisc
  <2>5. \A k \in Slot \ (d.first..d.last) : NoIsrcs[k] = NoText
    BY DEF NoIsrcs
  <2>6. Store(d, NoText, NoIsrcs, "put")
    BY <2>1
  <2> HIDE DEF d
  <2> QED BY <2>2, <2>3, <2>4, <2>5, <2>6, StoreIsApi
<1> QED BY <1>1, <1>2

-----------------------------------------------------------------------------
(* A text from the cache is the text computed anew.                        *)
LEMMA GetTextIsApi ==
    ASSUME HandleInv, NEW field \in TextField, GetText(field)
    PROVE  Api!Ask
<1>1. PICK allocated \in Allocations :
          Handed(field, Printed(field, text[field] = NoText, allocated))
  BY Zenon DEF GetText
<1> DEFINE new == Printed(field, text[field] = NoText, allocated)
<1>2. \/ new[field] = WholeText(field)
      \/ setting.scarce /\ field \in NeedsToc /\ new[field] = WithoutToc(field, WholeText(field))
  BY PrintedTexts, Zenon DEF HandleInv
<1>3. /\ handle = "valid" /\ success
      /\ result' = <<"answer", <<field, 0>>, new[field]>>
      /\ UNCHANGED <<setting, handle, toc, codes, status, origin>>
  BY <1>1, Zenon DEF Handed
<1> HIDE DEF new
<1>4. WholeText(field) = Api!TextOf(disc, field, Api!DiscIdOf(disc))
  BY SameTexts, Zenon DEF WholeText
<1>5. ApiState = "loaded" /\ ApiState' = ApiState
  BY <1>3 DEF ApiState, status
<1>6. disc' = disc /\ mcn' = mcn /\ isrc' = isrc /\ error_msg' = error_msg
  BY <1>3 DEF disc, toc, codes, status
<1>7. Api!AnsweredText(field, WholeText(field))
  BY <1>2, <1>3, SameRemainders, Zenon DEF Api!AnsweredText, Api!Answered
<1>8. \E f \in Api!TextField : Api!AnsweredText(f, Api!TextOf(disc, f, Api!DiscIdOf(disc)))
  BY <1>4, <1>7, SameQuestions, Zenon
<1> HIDE DEF disc, ApiState
<1> QED BY <1>5, <1>6, <1>8, Zenon DEF Api!Ask

(* No memory for the id.                                                   *)
LEMMA CrashIsApi ==
    ASSUME NEW field \in TextField, GetTextCrashes(field)
    PROVE  Api!Die
<1>1. ApiState = "loaded" /\ ApiState' = "undefined"
  BY DEF GetTextCrashes, ApiState
<1> QED BY <1>1 DEF GetTextCrashes, disc, toc, codes, status, Api!Die

(* The other getters tell what the disc in the handle says.                *)
LEMMA LookIsApi == HandleInv /\ Look => Api!Ask \/ Api!Explain
<1> SUFFICES ASSUME HandleInv, Look PROVE Api!Ask \/ Api!Explain
  OBVIOUS
<1>1. UNCHANGED <<ApiState, disc, [mcn |-> mcn, isrc |-> isrc], error_msg>>
  BY LookLooks DEF ApiState, disc, toc, codes, status
<1>2. CASE GetErrorMsg
  <2>1. Api!Exists /\ result' = <<"reason", error_msg>>
    BY <1>2 DEF GetErrorMsg, ApiState, Api!Exists
  <2> QED BY <1>1, <2>1 DEF Api!Explain
<1>3. CASE ~ GetErrorMsg
  <2>1. ApiState = "loaded"
    BY <1>3 DEF Look, GetFirstTrackNum, GetLastTrackNum, GetSectors, GetMcn, GetTrackOffset,
                GetTrackLength, GetTrackIsrc, Answered, ApiState
  <2>2. disc.first = first_track_num /\ disc.last = last_track_num /\ disc.offsets = track_offsets
    BY DEF disc
  <2>3. \A k \in Slot : TrackNumIsValid(k) => k \in disc.first..disc.last
    BY <2>2, SizeFacts DEF HandleInv, TypeOK, TrackNumIsValid
  <2>4. \A k : Api!LengthOf(disc, k) = LengthOf(disc, k)
    BY DEF Api!LengthOf, LengthOf
  <2>5. CASE GetFirstTrackNum \/ GetLastTrackNum \/ GetSectors \/ GetMcn
    BY <1>1, <2>1, <2>2, <2>5
       DEF GetFirstTrackNum, GetLastTrackNum, GetSectors, GetMcn, Answered, Api!Answered, Api!Ask
  <2>6. CASE \E k \in Slot : GetTrackOffset(k) \/ GetTrackLength(k) \/ GetTrackIsrc(k)
    <3>1. PICK k \in Slot : GetTrackOffset(k) \/ GetTrackLength(k) \/ GetTrackIsrc(k)
      BY <2>6
    <3>2. k \in disc.first..disc.last
      BY <2>3, <3>1 DEF GetTrackOffset, GetTrackLength, GetTrackIsrc
    <3>3. GetTrackOffset(k) => Api!Answered("offset", k, <<disc.offsets[k]>>)
      BY <2>2 DEF GetTrackOffset, Answered, Api!Answered
    <3>4. GetTrackLength(k) => Api!Answered("length", k, <<Api!LengthOf(disc, k)>>)
      BY <2>2, <2>4 DEF GetTrackLength, Answered, Api!Answered, LengthOf
    <3>5. GetTrackIsrc(k) => Api!Answered("isrc", k, isrc[k])
      BY DEF GetTrackIsrc, Answered, Api!Answered
    <3> QED BY <1>1, <2>1, <3>1, <3>2, <3>3, <3>4, <3>5 DEF Api!Ask
  <2> QED BY <1>3, <2>5, <2>6 DEF Look
<1> QED BY <1>2, <1>3

(* A call that must not be made is refused as discid.h says.               *)
LEMMA RejectIsApi == HandleInv /\ (GetOfNoDisc \/ GetOfNoTrack) => Api!Misuse
<1> SUFFICES ASSUME HandleInv, GetOfNoDisc \/ GetOfNoTrack PROVE Api!Misuse
  OBVIOUS
<1>1. handle = "valid" /\ Api!Exists
  BY RejectShape DEF ApiState, Api!Exists
<1>2. ApiState = "loaded" <=> success
  BY <1>1 DEF ApiState
<1>3. disc.first \in Int /\ disc.last \in Int
  BY DEF HandleInv, TypeOK, disc
<1>4. PICK question \in Api!Question :
          /\ Rejected(question)
          /\ success => question[1] \in TrackQuestion /\ question[2] \notin disc.first..disc.last
  <2>1. CASE GetOfNoDisc
    BY <2>1, SameQuestions DEF GetOfNoDisc
  <2>2. CASE GetOfNoTrack
    <3>1. PICK q \in TrackQuestion \X Slot : ~ TrackNumIsValid(q[2]) /\ Rejected(q)
      BY <2>2 DEF GetOfNoTrack
    <3>2. q[2] \notin disc.first..disc.last
      BY <1>3, <3>1 DEF TrackNumIsValid, disc
    <3> QED BY <3>1, <3>2, SameQuestions
  <2> QED BY <2>1, <2>2
<1>5. CASE setting.ndebug
  <2>1. result' = <<"null", question>>
    BY <1>4, <1>5 DEF Rejected
  <2>2. UNCHANGED <<ApiState, disc, [mcn |-> mcn, isrc |-> isrc], error_msg>>
    BY <1>4, <1>5 DEF Rejected, ApiState, disc, toc, codes, status
  <2> QED BY <1>1, <1>2, <1>4, <2>1, <2>2, SameQuestions DEF Api!Misuse
<1>6. CASE ~ setting.ndebug
  <2>1. result' = <<"abort", question>> /\ Blank /\ error_msg' = "none" /\ handle' = "absent"
    BY <1>4, <1>6 DEF Rejected, NoCallYet
  <2>2. Api!Nothing("absent")
    BY <2>1, BlankIsNothing DEF ApiState
  <2> QED BY <1>1, <1>2, <1>4, <2>1, <2>2, SameQuestions DEF Api!Misuse
<1> QED BY <1>5, <1>6

-----------------------------------------------------------------------------
(* No call changes the build or the memory.                                *)
LEMMA SettingIsFixed == [Next]_vars => setting' = setting
<1> SUFFICES ASSUME [Next]_vars PROVE setting' = setting
  OBVIOUS
<1>1. CASE UNCHANGED vars
  BY <1>1 DEF vars
<1>2. CASE New \/ Free
  BY <1>2 DEF New, Free
<1>3. CASE ReadRefused \/ ReadLoaded \/ PutRefused \/ PutLoaded
  BY <1>3 DEF ReadRefused, ReadLoaded, PutRefused, PutLoaded, Refuse, Store
<1>4. CASE \E field \in TextField : GetText(field) \/ GetTextCrashes(field)
  BY <1>4, Zenon DEF GetText, Handed, GetTextCrashes
<1>5. CASE Look
  BY <1>5, LookLooks
<1>6. CASE GetOfNoDisc \/ GetOfNoTrack
  BY <1>6, RejectShape DEF Rejected
<1> QED BY <1>1, <1>2, <1>3, <1>4, <1>5, <1>6 DEF Next, Look

(* Every call on a handle is one of DiscIdApi.                             *)
LEMMA StepIsApi ==
    ASSUME HandleInv, [Next]_vars
    PROVE  [Api!Next]_<<setting.scarce, ApiState, disc, [mcn |-> mcn, isrc |-> isrc],
                        error_msg, result>>
<1>0. setting' = setting
  BY SettingIsFixed
<1>1. CASE UNCHANGED vars
  <2>1. UNCHANGED <<setting.scarce, ApiState, disc, [mcn |-> mcn, isrc |-> isrc],
                    error_msg, result>>
    BY <1>1 DEF vars, ApiState, disc, toc, codes, status
  <2> QED BY <2>1
<1>2. CASE New \/ Free
  BY <1>2, <1>0, NewIsApi, FreeIsApi DEF Api!Next
<1>3. CASE ReadRefused \/ ReadLoaded \/ PutRefused \/ PutLoaded
  BY <1>3, <1>0, ReadIsApi, PutIsApi DEF Api!Next
<1>4. CASE \E field \in TextField : GetText(field) \/ GetTextCrashes(field)
  BY <1>4, <1>0, GetTextIsApi, CrashIsApi DEF Api!Next
<1>5. CASE Look
  BY <1>5, <1>0, LookIsApi DEF Api!Next
<1>6. CASE GetOfNoDisc \/ GetOfNoTrack
  BY <1>6, <1>0, RejectIsApi DEF Api!Next
<1> QED BY <1>1, <1>2, <1>3, <1>4, <1>5, <1>6 DEF Next, Look

(* A client cannot tell the handle with its caches and flags from one that *)
(* answers every question from the disc: the calls of disc.c implement     *)
(* DiscIdApi, for every drive, every argument, every sequence of calls,    *)
(* with and without assertions, and where memory is scarce as well.        *)
THEOREM HandleImplementsApi == Spec => ImplementsApi
<1>1. Init => Api!Init
  <2>1. Init => ApiState = "absent" /\ disc = BlankDisc
    BY DEF Init, ApiState, disc, BlankDisc
  <2>2. Init => setting.scarce \in BOOLEAN
    BY HandleConstants DEF Init
  <2> QED BY <2>1, <2>2, SameBlanks DEF Init, Api!Init
<1>2. HandleInv /\ [Next]_vars
        => [Api!Next]_<<setting.scarce, ApiState, disc, [mcn |-> mcn, isrc |-> isrc],
                        error_msg, result>>
  BY StepIsApi
<1> QED BY <1>1, <1>2, InvHolds, PTL DEF Spec, ImplementsApi, Api!Spec
=============================================================================
