---------------------------- MODULE LoadTocProofs ----------------------------
(***************************************************************************)
(* What mb_disc_load_toc promises, for every size of the table, every      *)
(* distance of sessions and every TOC a drive may answer.  Inv says what   *)
(* each loop has established before its next iteration; the properties of  *)
(* LoadToc follow from it and from the facts on the closed form.           *)
(***************************************************************************)
EXTENDS LoadToc, DiscTocProofs

(* lat is the last audio track of toc.first..n, -1 when there is none.     *)
LatestAudio(n) ==
    /\ lat # -1 => lat \in toc.first..n /\ toc.tracks[lat].control = "audio"
    /\ \A k \in toc.first..n : k > lat => toc.tracks[k].control # "audio"

(* The table while the offsets up to n are stored.                         *)
StoredUpTo(n) ==
    [k \in Slot |-> IF k \in toc.first..n THEN StartOffset(toc.tracks[k]) ELSE 0]

Blank == first_track_num = 0 /\ last_track_num = 0 /\ track_offsets = NoOffsets

LimitsInv == pc = "limits" => Blank /\ error_msg = "none" /\ lat = -1

ScanInv ==
    pc = "scan" =>
        /\ 1 <= toc.first /\ 1 <= toc.last
        /\ toc.first <= i
        /\ i = toc.first \/ (i <= toc.last + 1 /\ i <= MAX_TRACK + 1)
        /\ LatestAudio(i - 1)
        /\ Blank /\ error_msg = "none"

OffsetsInv ==
    pc = "offsets" =>
        /\ 1 <= toc.first /\ toc.last <= MAX_TRACK
        /\ lat # -1 /\ LatestAudio(toc.last)
        /\ i \in toc.first..(lat + 1)
        /\ first_track_num = toc.first /\ last_track_num = lat
        /\ track_offsets = StoredUpTo(i - 1)
        /\ error_msg = "none"

TrimInv ==
    pc \in {"trim", "loaded"} =>
        /\ 1 <= toc.first /\ toc.last <= MAX_TRACK
        /\ LastAudio(toc) \in AudioTracks(toc)
        /\ \A k \in AudioTracks(toc) : k <= LastAudio(toc)
        /\ lat \in 0..LastAudio(toc)
        /\ \A j \in (lat + 1)..LastAudio(toc) : ~ Covered(toc, j)
        /\ first_track_num = toc.first /\ last_track_num = lat
        /\ track_offsets = TableWithLast(toc, lat)
        /\ error_msg = "none"

EndInv ==
    /\ pc = "loaded" => Covered(toc, lat)
    /\ pc = "failed" => Blank /\ error_msg # "none" /\ error_msg = Refusal(toc)
    /\ pc = "undefined" => toc.last > MAX_TRACK

Inv == TypeOK /\ LimitsInv /\ ScanInv /\ OffsetsInv /\ TrimInv /\ EndInv

-----------------------------------------------------------------------------
(* The invariant holds before mb_disc_load_toc begins.                     *)
LEMMA InitInv == Init => Inv
<1> SUFFICES ASSUME Init PROVE Inv
  OBVIOUS
<1>1. TypeOK
  BY TocConstants DEF Init, TypeOK, NoOffsets, Slot
<1> QED BY <1>1 DEF Init, Inv, Blank, LimitsInv, ScanInv, OffsetsInv, TrimInv, EndInv

(* Every step of its loops preserves it.                                   *)
LEMMA NextInv == Inv /\ [Next]_vars => Inv'
<1> SUFFICES ASSUME Inv, [Next]_vars PROVE Inv'
  OBVIOUS
<1> USE TocConstants DEF limits
<1>t. toc \in Toc
  BY TocsAreTocs DEF Inv, TypeOK
<1>z. 0 \in Slot /\ Slot \subseteq Int
  BY DEF Slot
<1>a. toc.first \in Int /\ toc.last \in Int
  BY <1>t, TocTypes
<1>y. TypeOK
  BY DEF Inv
<1>1. CASE RejectFirst
  BY <1>1, <1>y DEF RejectFirst, Fail, Inv, TypeOK, LimitsInv, ScanInv, OffsetsInv,
                    TrimInv, EndInv, Blank, Refusal
<1>2. CASE RejectLast
  BY <1>2, <1>a DEF RejectLast, Fail, Inv, TypeOK, LimitsInv, ScanInv, OffsetsInv,
                    TrimInv, EndInv, Blank, Refusal
<1>3. CASE AcceptLimits
  BY <1>3, <1>a DEF AcceptLimits, Inv, TypeOK, LimitsInv, ScanInv, OffsetsInv,
                    TrimInv, EndInv, Blank, LatestAudio
<1>4. CASE ScanTrack
  <2> USE <1>4 DEF ScanTrack
  <2>1. i \in Slot /\ i <= toc.last /\ lat \in -1..MAX_TRACK /\ i \in Nat
    BY DEF Inv, TypeOK
  <2>2. TypeOK'
    BY <2>1 DEF Inv, TypeOK, Slot
  <2>3. LatestAudio(i - 1)'
    BY <1>a, <2>1, <1>t, TocTypes DEF Inv, ScanInv, LatestAudio, Control, Slot
  <2>4. ScanInv'
    BY <2>1, <2>3, <1>a DEF Inv, ScanInv, Blank, Slot
  <2> QED BY <2>2, <2>4 DEF Inv, LimitsInv, OffsetsInv, TrimInv, EndInv
<1>5. CASE ScanBeyondTable
  BY <1>5, <1>a DEF ScanBeyondTable, Inv, TypeOK, LimitsInv, ScanInv, OffsetsInv,
                    TrimInv, EndInv, Slot
<1>6. CASE RejectNoAudio
  <2> USE <1>6 DEF RejectNoAudio, Fail
  <2>1. lat = -1 /\ i \in Nat /\ i > toc.last
    BY DEF Inv, TypeOK
  <2>2. AudioTracks(toc) = {}
    BY <2>1, <1>a DEF Inv, ScanInv, LatestAudio, AudioTracks
  <2>3. Refusal(toc) = "no_audio"
    BY <2>2, <1>a DEF Inv, ScanInv, Refusal
  <2> QED BY <2>3 DEF Inv, TypeOK, LimitsInv, ScanInv, OffsetsInv, TrimInv, EndInv, Blank
<1>7. CASE SetLimits
  <2> USE <1>7 DEF SetLimits
  <2>1. i \in Nat /\ lat \in 0..MAX_TRACK
    BY DEF Inv, TypeOK
  <2>2. i = toc.last + 1 /\ i <= MAX_TRACK + 1 /\ lat \in toc.first..toc.last
    BY <2>1, <1>a DEF Inv, ScanInv, LatestAudio
  <2>3. LatestAudio(toc.last)'
    BY <2>2, <1>a DEF Inv, ScanInv, LatestAudio
  <2>4. StoredUpTo(i - 1)' = NoOffsets
    BY <1>a DEF StoredUpTo, NoOffsets
  <2>5. TypeOK'
    BY <2>1, <2>2, <1>a DEF Inv, TypeOK, ScanInv, Slot
  <2>6. OffsetsInv'
    BY <2>1, <2>2, <2>3, <2>4, <1>a DEF Inv, ScanInv, OffsetsInv, Blank
  <2> QED BY <2>5, <2>6 DEF Inv, LimitsInv, ScanInv, TrimInv, EndInv
<1>8. CASE StoreOffset
  <2> USE <1>8 DEF StoreOffset
  <2>1. i \in toc.first..lat /\ lat \in toc.first..toc.last /\ i \in Slot
    BY <1>a DEF Inv, TypeOK, OffsetsInv, LatestAudio, Slot
  <2>2. StartOffset(toc.tracks[i]) \in Int
    BY <2>1, <1>t, TocTypes
  <2>3. track_offsets' = StoredUpTo(i)
    <3>1. track_offsets = StoredUpTo(i - 1)
      BY DEF Inv, OffsetsInv
    <3>2. track_offsets' = [k \in Slot |-> IF k = i THEN StartOffset(toc.tracks[i])
                                                   ELSE track_offsets[k]]
      BY <1>y, <2>1 DEF TypeOK
    <3>3. ASSUME NEW k \in Slot
          PROVE  (IF k = i THEN StartOffset(toc.tracks[i]) ELSE track_offsets[k])
                    = StoredUpTo(i)[k]
      BY <3>1, <2>1, <1>a, <1>z DEF StoredUpTo
    <3> QED BY <3>2, <3>3 DEF StoredUpTo
  <2>4. TypeOK'
    <3>1. track_offsets' \in [Slot -> Int]
      BY <1>y, <2>2 DEF TypeOK
    <3>2. i' \in Nat
      BY <1>y DEF TypeOK
    <3> QED BY <1>y, <3>1, <3>2 DEF TypeOK
  <2>5. StoredUpTo(i - 1)' = StoredUpTo(i)
    BY <2>1, <1>z DEF StoredUpTo
  <2>6. OffsetsInv'
    BY <2>1, <2>3, <2>5, <1>a DEF Inv, OffsetsInv, LatestAudio
  <2> QED BY <2>4, <2>6 DEF Inv, LimitsInv, ScanInv, TrimInv, EndInv
<1>9. CASE SetLeadOut
  <2> USE <1>9 DEF SetLeadOut
  <2>1. lat \in toc.first..toc.last /\ i = lat + 1 /\ 1 <= toc.first
          /\ toc.last <= MAX_TRACK /\ toc.tracks[lat].control = "audio"
    BY <1>a DEF Inv, TypeOK, OffsetsInv, LatestAudio
  <2>2. /\ LastAudio(toc) = lat /\ lat \in AudioTracks(toc)
        /\ \A k \in AudioTracks(toc) : k <= lat
    <3>1. lat \in AudioTracks(toc) /\ \A k \in AudioTracks(toc) : k <= lat
      BY <2>1, <1>a DEF Inv, OffsetsInv, LatestAudio, AudioTracks
    <3> QED BY <3>1, <1>t, LastAudioIsGreatest
  <2>3. (IF lat < toc.last THEN SessionEnd(toc.tracks[lat + 1])
                           ELSE toc.tracks[0].address + PREGAP) = LeadOutAfter(toc, lat)
    BY <2>1, <1>a DEF LeadOutAfter
  <2>4. track_offsets' = TableWithLast(toc, lat)
    <3>1. track_offsets = StoredUpTo(lat)
      BY <2>1, <1>a DEF Inv, OffsetsInv
    <3>2. track_offsets' = [k \in Slot |-> IF k = 0 THEN LeadOutAfter(toc, lat)
                                                   ELSE track_offsets[k]]
      BY <1>y, <1>z, <2>3 DEF TypeOK
    <3> QED BY <3>1, <3>2 DEF StoredUpTo, TableWithLast
  <2>5. LeadOutAfter(toc, lat) \in Int
    BY <2>1, <1>a, <1>t, TocTypes
  <2>6. TypeOK'
    BY <2>3, <2>5, <1>z DEF Inv, TypeOK
  <2>7. TrimInv'
    BY <2>1, <2>2, <2>4, <1>a DEF Inv, OffsetsInv, TrimInv
  <2> QED BY <2>6, <2>7 DEF Inv, LimitsInv, ScanInv, OffsetsInv, EndInv
<1>10. CASE Trim
  <2> USE <1>10 DEF Trim
  <2>1. LastAudio(toc) \in toc.first..toc.last /\ lat \in 0..LastAudio(toc)
          /\ 1 <= toc.first /\ toc.last <= MAX_TRACK
    BY DEF Inv, TrimInv, AudioTracks
  <2>2. track_offsets = TableWithLast(toc, lat)
    BY DEF Inv, TrimInv
  <2>3. lat \in Slot /\ lat <= toc.last
    BY <2>1, <1>a DEF Slot
  <2>4. track_offsets[0] \in Int /\ track_offsets[0] < track_offsets[lat]
    BY <1>z, <1>y DEF LeadOutTooEarly, TypeOK
  <2>5. lat # 0
    BY <2>4
  <2>6. track_offsets[lat] = Stored(toc, lat) /\ track_offsets[0] = LeadOutAfter(toc, lat)
    BY <2>1, <2>2, <2>3, <2>5, <1>a, <1>z DEF TableWithLast, Stored
  <2>7. Stored(toc, lat) \in Int
    BY <2>3, <1>t, TocTypes DEF Stored
  <2>8. ~ Covered(toc, lat)
    BY <2>4, <2>5, <2>6, <2>7 DEF Covered
  <2>9. SessionEnd(toc.tracks[lat]) = LeadOutAfter(toc, lat - 1)
    BY <2>1, <2>3, <1>a DEF LeadOutAfter
  <2>10. track_offsets' = TableWithLast(toc, lat - 1)
    <3>1. track_offsets' = [k \in Slot |-> IF k = 0 THEN SessionEnd(toc.tracks[lat])
                                          ELSE IF k = lat THEN 0 ELSE track_offsets[k]]
      BY <2>5, <2>3, <1>y, <1>z DEF TypeOK
    <3>2. ASSUME NEW k \in Slot, k # 0
          PROVE  (IF k = lat THEN 0 ELSE track_offsets[k]) = TableWithLast(toc, lat - 1)[k]
      BY <3>2, <2>1, <2>2, <2>3, <1>a, <1>z DEF TableWithLast
    <3> QED BY <3>1, <3>2, <2>9, <1>z DEF TableWithLast
  <2>11. TypeOK'
    <3>1. LeadOutAfter(toc, lat - 1) \in Int
      BY <2>1, <2>5, <1>a, <1>t, TocTypes
    <3>2. track_offsets' \in [Slot -> Int]
      BY <3>1, <2>9, <1>z, <1>y DEF TypeOK
    <3>3. lat - 1 \in 0..MAX_TRACK
      BY <2>1, <2>5, <1>a
    <3> QED BY <3>2, <3>3, <1>y DEF TypeOK
  <2>12. TrimInv'
    <3>1. \A j \in lat..LastAudio(toc) : ~ Covered(toc, j)
      BY <2>1, <2>8 DEF Inv, TrimInv
    <3>2. lat' \in 0..LastAudio(toc) /\ lat' + 1 = lat
      BY <2>1, <2>5, <1>a
    <3>3. last_track_num' = lat' /\ track_offsets' = TableWithLast(toc, lat')
      BY <2>10
    <3> QED BY <2>1, <3>1, <3>2, <3>3 DEF Inv, TrimInv
  <2> QED BY <2>11, <2>12 DEF Inv, LimitsInv, ScanInv, OffsetsInv, EndInv
<1>11. CASE Return
  <2> USE <1>11 DEF Return
  <2>1. LastAudio(toc) \in toc.first..toc.last /\ lat \in 0..LastAudio(toc)
          /\ 1 <= toc.first /\ toc.last <= MAX_TRACK
    BY DEF Inv, TrimInv, AudioTracks
  <2>2. lat \in Slot
    BY <2>1, <1>a DEF Slot
  <2>3. track_offsets = TableWithLast(toc, lat)
    BY DEF Inv, TrimInv
  <2>4. track_offsets[0] >= track_offsets[lat]
    BY <2>2, <1>z, <1>y DEF LeadOutTooEarly, TypeOK
  <2>5. Covered(toc, lat)
    BY <2>1, <2>2, <2>3, <2>4, <1>a, <1>z DEF Covered, TableWithLast, Stored
  <2> QED BY <2>5 DEF Inv, TypeOK, LimitsInv, ScanInv, OffsetsInv, TrimInv, EndInv
<1>12. CASE UNCHANGED vars
  BY <1>12 DEF vars, Inv, TypeOK, LimitsInv, ScanInv, OffsetsInv, TrimInv, EndInv,
               LatestAudio, StoredUpTo, Blank
<1> QED BY <1>1, <1>2, <1>3, <1>4, <1>5, <1>6, <1>7, <1>8, <1>9, <1>10, <1>11, <1>12 DEF Next

(* The induction.                                                          *)
LEMMA InvHolds == Spec => []Inv
BY InitInv, NextInv, PTL DEF Spec

-----------------------------------------------------------------------------
(* What Inv says of a TOC that was loaded, in one place.                   *)
LEMMA LoadedFacts ==
    ASSUME Inv, pc = "loaded"
    PROVE  /\ toc \in Toc
           /\ 1 <= toc.first /\ toc.last <= MAX_TRACK
           /\ LastAudio(toc) \in toc.first..toc.last
           /\ LastAudio(toc) \in AudioTracks(toc)
           /\ \A k \in AudioTracks(toc) : k <= LastAudio(toc)
           /\ lat \in 0..LastAudio(toc)
           /\ LastTrack(toc) = lat /\ Covered(toc, lat)
           /\ first_track_num = toc.first /\ last_track_num = lat
           /\ track_offsets = TableWithLast(toc, lat)
<1>1. toc \in Toc
  BY TocsAreTocs DEF Inv, TypeOK
<1>2. toc.first \in Int /\ toc.last \in Int
  BY <1>1, TocTypes
<1>3. LastAudio(toc) \in toc.first..toc.last
  BY DEF Inv, TrimInv, AudioTracks
<1>4. LastTrack(toc) = lat
  BY <1>1, <1>2, <1>3, LastTrackIsGreatest DEF Inv, TrimInv, EndInv
<1> QED BY <1>1, <1>3, <1>4 DEF Inv, TrimInv, EndInv

(* mb_disc_load_toc keeps the type of every field of the handle; above all *)
(* the track numbers stay slots of the offset table.                       *)
THEOREM TypeCorrect == Spec => []TypeOK
<1>1. Inv => TypeOK
  BY DEF Inv
<1> QED BY <1>1, InvHolds, PTL

(* The three loops compute the closed form LoadedDisc for every TOC that   *)
(* is not refused: the other modules may use it in place of the loops.     *)
THEOREM LoadIsClosedForm == Spec => []LoadsClosedForm
<1>1. Inv => LoadsClosedForm
  <2> SUFFICES ASSUME Inv, pc = "loaded" PROVE Refusal(toc) = "none" /\ disc = LoadedDisc(toc)
    BY DEF LoadsClosedForm
  <2>1. toc.first \in Int /\ toc.last \in Int
    BY LoadedFacts, TocTypes
  <2>2. Refusal(toc) = "none"
    BY <2>1, LoadedFacts DEF Refusal
  <2> QED BY <2>2, LoadedFacts DEF disc, LoadedDisc
<1> QED BY <1>1, InvHolds, PTL

(* A refusal leaves nothing but its reason in the handle.                  *)
THEOREM RefusalIsClean == Spec => []RefusalLeavesBlank
<1>1. Inv => RefusalLeavesBlank
  BY DEF Inv, EndInv, RefusalLeavesBlank, disc, BlankDisc, Blank
<1> QED BY <1>1, InvHolds, PTL

(* The last track that is kept never starts behind the lead-out.           *)
THEOREM LastTrackFits == Spec => []LeadOutCoversLastTrack
<1>1. Inv => LeadOutCoversLastTrack
  <2> SUFFICES ASSUME Inv, pc = "loaded" PROVE track_offsets[lat] <= track_offsets[0]
    BY LoadedFacts DEF LeadOutCoversLastTrack, disc
  <2>1. toc.first \in Int /\ toc.last \in Int /\ MAX_TRACK \in Nat
    BY LoadedFacts, TocTypes, TocConstants
  <2>2. lat \in Slot /\ 0 \in Slot
    BY <2>1, LoadedFacts DEF Slot
  <2>3. track_offsets[0] \in Int /\ track_offsets[lat] \in Int
    BY <2>2 DEF Inv, TypeOK
  <2>4. CASE lat = 0
    BY <2>3, <2>4
  <2>5. CASE lat # 0
    <3>1. LeadOutAfter(toc, lat) >= Stored(toc, lat)
      BY <2>5, LoadedFacts DEF Covered
    <3>2. track_offsets[0] = LeadOutAfter(toc, lat)
      BY <2>2, LoadedFacts DEF TableWithLast
    <3>3. track_offsets[lat] = Stored(toc, lat)
      BY <2>1, <2>2, <2>5, LoadedFacts DEF TableWithLast, Stored
    <3> QED BY <2>3, <3>1, <3>2, <3>3
  <2> QED BY <2>4, <2>5
<1> QED BY <1>1, InvHolds, PTL

(* What create_disc_id hashes beside the tracks a user sees is zero.       *)
THEOREM HiddenSlotsStayZero == Spec => []HiddenSlotsAreZero
<1>1. Inv => HiddenSlotsAreZero
  BY LoadedFacts DEF HiddenSlotsAreZero, TableWithLast, disc
<1> QED BY <1>1, InvHolds, PTL

(* For an orderly disc the last audio track already is covered, so that    *)
(* trimming ends before it begins.                                         *)
LEMMA OrderlyIsCovered ==
    ASSUME NEW t \in Toc, Orderly(t), LastAudio(t) \in AudioTracks(t),
           \A k \in AudioTracks(t) : k <= LastAudio(t)
    PROVE  Covered(t, LastAudio(t))
<1> DEFINE m == LastAudio(t)
<1>1. t.first \in Int /\ t.last \in Int /\ \A k \in Slot : t.tracks[k] \in TocTrack
  BY DEF Toc
<1>2. m \in t.first..t.last /\ t.tracks[m].control = "audio" /\ 0 \in Slot
  BY TocConstants DEF AudioTracks, Slot
<1>3. m \in Slot /\ t.tracks[m].address \in Int /\ 0 <= t.tracks[m].address
  BY <1>1, <1>2, TocConstants DEF Orderly, Slot, TocTrack
<1>4. Stored(t, m) = t.tracks[m].address + PREGAP
  BY <1>1, <1>2, <1>3, TocConstants DEF Stored, StartOffset
<1>5. CASE m = t.last
  <2>1. t.tracks[m].address <= t.tracks[0].address /\ t.tracks[0].address \in Int
    BY <1>1, <1>2, <1>5 DEF Orderly, TocTrack
  <2> QED BY <1>3, <1>4, <1>5, <2>1, TocConstants DEF Covered, LeadOutAfter
<1>6. CASE m < t.last
  <2>1. m + 1 \in t.first..t.last /\ m + 1 \in Slot /\ m \in t.first..(t.last - 1)
    BY <1>1, <1>2, <1>3, <1>6, TocConstants DEF Orderly, Slot
  <2>2. t.tracks[m + 1].control = "data" /\ t.tracks[m + 1].address \in Int
    <3>1. m + 1 \notin AudioTracks(t)
      BY <1>1, <1>2
    <3> QED BY <1>1, <2>1, <3>1 DEF AudioTracks, TocTrack, Control
  <2>3. t.tracks[m].address <= t.tracks[m + 1].address - XA_INTERVAL
    BY <1>2, <2>1, <2>2 DEF Orderly
  <2>4. LeadOutAfter(t, m) = t.tracks[m + 1].address - XA_INTERVAL + PREGAP
    BY <1>1, <1>2, <1>6 DEF LeadOutAfter, SessionEnd
  <2> QED BY <1>3, <1>4, <2>2, <2>3, <2>4, TocConstants DEF Covered
<1> QED BY <1>1, <1>2, <1>5, <1>6

(* An orderly disc is read with all its tracks up to the last audio track, *)
(* in order and within the lead-out.                                       *)
THEOREM OrderlyDiscsAreKept == Spec => []OrderlyDiscIsKept
<1>1. ASSUME Inv, pc = "failed", Orderly(toc) PROVE FALSE
  <2>1. toc.first \in Int /\ toc.last \in Int
    BY <1>1, TocsAreTocs, TocTypes DEF Inv, TypeOK
  <2>2. Refusal(toc) = "none"
    BY <1>1, <2>1 DEF Orderly, Refusal
  <2> QED BY <1>1, <2>2 DEF Inv, EndInv
<1>2. ASSUME Inv, pc = "loaded", Orderly(toc)
      PROVE  /\ lat = LastAudio(toc)
             /\ \A k \in toc.first..lat :
                   /\ track_offsets[k] <= track_offsets[0]
                   /\ k < lat => track_offsets[k] <= track_offsets[k + 1]
  <2>1. Covered(toc, LastAudio(toc))
    BY <1>2, LoadedFacts, OrderlyIsCovered
  <2>2. lat = LastAudio(toc)
    BY <1>2, <2>1, LoadedFacts DEF Inv, TrimInv
  <2>3. toc.first \in Int /\ toc.last \in Int /\ MAX_TRACK \in Nat /\ PREGAP \in Nat
    BY <1>2, LoadedFacts, TocTypes, TocConstants
  <2>4. /\ toc.first..lat \subseteq Slot \ {0} /\ 0 \in Slot
        /\ toc.first..lat \subseteq toc.first..toc.last
    BY <1>2, <2>2, <2>3, LoadedFacts DEF Slot
  <2>5. \A k \in toc.first..lat : toc.tracks[k].address \in Int
    BY <1>2, <2>4, LoadedFacts DEF Toc, TocTrack
  <2>6. \A k \in toc.first..lat : track_offsets[k] = toc.tracks[k].address + PREGAP
    BY <1>2, <2>3, <2>4, <2>5, LoadedFacts DEF TableWithLast, StartOffset, Orderly
  <2>7. \A j, k \in toc.first..lat : j <= k => track_offsets[j] <= track_offsets[k]
    BY <1>2, <2>3, <2>4, <2>5, <2>6 DEF Orderly
  <2>8. track_offsets[lat] <= track_offsets[0] /\ track_offsets[0] \in Int
    <3>1. lat \in toc.first..lat
      BY <1>2, <2>2, <2>3, LoadedFacts
    <3>2. LeadOutAfter(toc, lat) >= Stored(toc, lat)
      BY <1>2, <2>4, <3>1, LoadedFacts DEF Covered
    <3>3. track_offsets[0] = LeadOutAfter(toc, lat) /\ track_offsets[lat] = Stored(toc, lat)
      BY <1>2, <2>3, <2>4, <3>1, LoadedFacts DEF TableWithLast, Stored
    <3>4. track_offsets[0] \in Int /\ track_offsets[lat] \in Int
      BY <1>2, <2>4, <3>1 DEF Inv, TypeOK
    <3> QED BY <3>2, <3>3, <3>4
  <2>9. ASSUME NEW k \in toc.first..lat
        PROVE  /\ track_offsets[k] <= track_offsets[0]
               /\ k < lat => track_offsets[k] <= track_offsets[k + 1]
    <3>1. lat \in toc.first..lat /\ k <= lat
      BY <1>2, <2>2, <2>3, LoadedFacts
    <3>2. track_offsets[k] \in Int /\ track_offsets[lat] \in Int
      BY <2>3, <2>5, <2>6, <3>1
    <3>3. track_offsets[k] <= track_offsets[lat]
      BY <2>7, <3>1
    <3>4. k < lat => k + 1 \in toc.first..lat /\ k <= k + 1
      BY <2>3, <3>1
    <3> QED BY <2>7, <2>8, <3>2, <3>3, <3>4
  <2> QED BY <2>2, <2>9
<1>3. Inv => OrderlyDiscIsKept
  BY <1>1, <1>2, LoadedFacts DEF OrderlyDiscIsKept, disc
<1> QED BY <1>3, InvHolds, PTL

(* Trimming changes the end of the table only.                             *)
THEOREM SurvivorsStay == Spec => SurvivorsAreUntouched
<1> DEFINE A == pc = "trim" =>
                  /\ pc' # "failed"
                  /\ disc'.first = disc.first /\ disc'.last <= disc.last
                  /\ \A k \in 1..disc'.last : disc'.offsets[k] = disc.offsets[k]
<1>1. Inv /\ [Next]_vars => [A]_vars
  <2> SUFFICES ASSUME Inv, Next, pc = "trim"
               PROVE  /\ pc' # "failed"
                      /\ first_track_num' = first_track_num
                      /\ last_track_num' <= last_track_num
                      /\ \A k \in 1..last_track_num' : track_offsets'[k] = track_offsets[k]
    BY DEF disc
  <2>1. CASE Trim
    <3>1. last_track_num' = lat - 1 /\ last_track_num = lat /\ lat \in -1..MAX_TRACK
      BY <2>1 DEF Trim, Inv, TrimInv, TypeOK
    <3>2. track_offsets \in [Slot -> Int] /\ Slot \subseteq Int
      BY DEF Inv, TypeOK, Slot
    <3>3. ASSUME NEW k \in 1..last_track_num' PROVE track_offsets'[k] = track_offsets[k]
      <4>1. k # lat /\ k # 0 /\ k \in Slot
        BY <3>1, TocConstants DEF Slot
      <4> QED BY <2>1, <3>2, <4>1 DEF Trim
    <3>4. last_track_num' <= last_track_num
      BY <3>1, TocConstants
    <3> QED BY <2>1, <3>3, <3>4 DEF Trim
  <2>2. CASE Return
    BY <2>2 DEF Return, limits, Inv, TypeOK
  <2> QED
    BY <2>1, <2>2 DEF Next, RejectFirst, RejectLast, AcceptLimits, ScanTrack,
          ScanBeyondTable, RejectNoAudio, SetLimits, StoreOffset, SetLeadOut
<1> QED BY <1>1, InvHolds, PTL DEF Spec, SurvivorsAreUntouched
=============================================================================
