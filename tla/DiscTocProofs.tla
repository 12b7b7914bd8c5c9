---------------------------- MODULE DiscTocProofs ----------------------------
(***************************************************************************)
(* Facts on the closed form of mb_disc_load_toc, for every size of the     *)
(* table.  The proofs about the machines rest on them.                     *)
(***************************************************************************)
EXTENDS DiscToc, TLAPS, FiniteSetTheorems, WellFoundedInduction

(* Some track numbers have a greatest one among them.                      *)
LEMMA Greatest ==
    ASSUME NEW a \in Int, NEW b \in Int, NEW T \in SUBSET (a..b), T # {}
    PROVE  \E x \in T : \A y \in T : y <= x
<1> DEFINE Above(x) == {y \in T : x <= y}
           F == {Above(x) : x \in T}
           R == StrictSubsetOrdering(a..b)
<1>1. IsWellFoundedOn(R, SUBSET (a..b))
  <2>1. IsFiniteSet(a..b)
    BY FS_Interval
  <2>2. FiniteSubsetsOf(a..b) = SUBSET (a..b)
    BY <2>1, FS_FiniteSubsetsOfFinite, Zenon
  <2>3. IsWellFoundedOn(StrictSubsetOrdering(a..b), FiniteSubsetsOf(a..b))
    BY FS_StrictSubsetOrderingWellFounded, Zenon
  <2> QED BY <2>2, <2>3, Zenon
<1>2. F \subseteq SUBSET (a..b) /\ F # {}
  OBVIOUS
<1>3. \E U \in F : \A V \in F : ~ (<<V, U>> \in R)
  <2> HIDE DEF F, R
  <2> QED BY <1>1, <1>2, WFMin, Zenon
<1>4. PICK x \in T : \A y \in T : ~ (<<Above(y), Above(x)>> \in R)
  BY <1>3, Zenon
<1>5. ASSUME NEW y \in T, x < y PROVE FALSE
  <2>1. \A z \in T : z \in Int
    OBVIOUS
  <2>2. x <= x /\ ~ (y <= x)
    BY <1>5, <2>1
  <2>3. \A z \in T : y <= z => x <= z
    BY <1>5, <2>1
  <2>4. Above(y) \subseteq Above(x) /\ x \in Above(x) /\ x \notin Above(y)
    BY <2>2, <2>3, Zenon
  <2>5. <<Above(y), Above(x)>> \in R
    <3> HIDE DEF Above
    <3>1. Above(y) \in SUBSET (a..b) /\ Above(x) \in SUBSET (a..b) /\ Above(y) # Above(x)
      BY <2>4 DEF Above
    <3> QED BY <2>4, <3>1, Zenon DEF StrictSubsetOrdering
  <2> QED BY <1>4, <2>5, Zenon
<1> QED BY <1>5

(* A nonempty set of integers with a lower bound has a least element.      *)
LEMMA Least ==
    ASSUME NEW a \in Int, NEW b \in Int, NEW T \in SUBSET (a..b), T # {}
    PROVE  \E x \in T : \A y \in T : x <= y
<1> DEFINE U == {z \in (-b)..(-a) : -z \in T}
<1>1. U \in SUBSET ((-b)..(-a)) /\ -b \in Int /\ -a \in Int
  OBVIOUS
<1>2. \A y \in T : y \in Int /\ -y \in U
  <2>1. \A y \in T : y \in Int /\ a <= y /\ y <= b /\ -(-y) = y
    OBVIOUS
  <2> QED BY <2>1
<1>3. \A z \in U : z \in Int /\ -z \in T
  OBVIOUS
<1> HIDE DEF U
<1>4. PICK z \in U : \A y \in U : y <= z
  BY <1>1, <1>2, Greatest
<1>5. ASSUME NEW y \in T PROVE -z <= y
  <2>1. y \in Int /\ z \in Int /\ -y <= z
    BY <1>2, <1>3, <1>4
  <2> QED BY <2>1
<1> QED BY <1>3, <1>5

(* A track that is audio and not before any other is the last audio track. *)
LEMMA LastAudioIsGreatest ==
    ASSUME NEW t \in Toc, NEW m \in AudioTracks(t), \A k \in AudioTracks(t) : k <= m
    PROVE  LastAudio(t) = m
<1>1. AudioTracks(t) \subseteq Int
  BY DEF AudioTracks, Toc
<1>2. \A k \in AudioTracks(t) : (\A j \in AudioTracks(t) : j <= k) => k = m
  BY <1>1
<1> QED BY <1>2 DEF LastAudio

(* A track that its lead-out covers, when those of no later track do, is   *)
(* the one the trimming loop must stop at.                                 *)
LEMMA LastTrackIsGreatest ==
    ASSUME NEW t \in Toc, LastAudio(t) \in Int,
           NEW m \in 0..LastAudio(t), Covered(t, m),
           \A j \in (m + 1)..LastAudio(t) : ~ Covered(t, j)
    PROVE  LastTrack(t) = m
<1> DEFINE Good(k) == Covered(t, k) /\ \A j \in (k + 1)..LastAudio(t) : ~ Covered(t, j)
<1>1. \A k \in 0..LastAudio(t) : Good(k) => k = m
  <2>1. SUFFICES ASSUME NEW k \in 0..LastAudio(t), Good(k), k # m PROVE FALSE
    OBVIOUS
  <2>2. CASE k < m
    BY <2>1, <2>2
  <2>3. CASE m < k
    BY <2>1, <2>3
  <2> QED BY <2>1, <2>2, <2>3
<1>2. Good(m)
  OBVIOUS
<1>3. LastTrack(t) = CHOOSE k \in 0..LastAudio(t) : Good(k)
  BY DEF LastTrack
<1> HIDE DEF Good
<1> QED BY <1>1, <1>2, <1>3

(* The entries of a TOC, and what is computed from them, are integers.     *)
LEMMA TocTypes ==
    ASSUME NEW t \in Toc
    PROVE  /\ t.first \in Int /\ t.last \in Int
           /\ \A k \in Slot : t.tracks[k].control \in Control
           /\ \A k \in Slot : StartOffset(t.tracks[k]) \in Int
           /\ \A k \in Slot : SessionEnd(t.tracks[k]) \in Int
           /\ t.tracks[0].address + PREGAP \in Int
           /\ \A k \in 0..t.last : t.last <= MAX_TRACK => LeadOutAfter(t, k) \in Int
<1>1. \A k \in Slot : t.tracks[k] \in TocTrack
  BY DEF Toc
<1>2. 0 \in Slot /\ PREGAP \in Int /\ XA_INTERVAL \in Int /\ MAX_TRACK \in Nat
  BY TocConstants DEF Slot
<1>3. \A k \in Slot : StartOffset(t.tracks[k]) \in Int
  BY <1>1, <1>2 DEF StartOffset, TocTrack
<1>4. \A k \in Slot : SessionEnd(t.tracks[k]) \in Int
  BY <1>1, <1>2 DEF SessionEnd, TocTrack
<1>5. t.tracks[0].address + PREGAP \in Int
  BY <1>1, <1>2 DEF TocTrack
<1>6. t.first \in Int /\ t.last \in Int
  BY DEF Toc
<1>7. ASSUME NEW k \in 0..t.last, t.last <= MAX_TRACK
      PROVE  LeadOutAfter(t, k) \in Int
  <2>1. k = t.last \/ k + 1 \in Slot
    BY <1>2, <1>6, <1>7 DEF Slot
  <2> QED BY <1>4, <1>5, <2>1 DEF LeadOutAfter
<1> QED BY <1>1, <1>3, <1>4, <1>5, <1>6, <1>7 DEF TocTrack

-----------------------------------------------------------------------------
(* A TOC that is not refused has a last audio track.                       *)
LEMMA LastAudioExists ==
    ASSUME NEW t \in Toc, AudioTracks(t) # {}
    PROVE  /\ LastAudio(t) \in AudioTracks(t)
           /\ \A k \in AudioTracks(t) : k <= LastAudio(t)
<1>1. t.first \in Int /\ t.last \in Int /\ AudioTracks(t) \in SUBSET (t.first..t.last)
  BY DEF Toc, AudioTracks
<1>2. PICK m \in AudioTracks(t) : \A k \in AudioTracks(t) : k <= m
  BY <1>1, Greatest
<1>3. LastAudio(t) = m
  BY <1>2, LastAudioIsGreatest
<1> QED BY <1>2, <1>3

(* And the trimming loop has a place to stop, slot 0 if nothing else.      *)
LEMMA LastTrackExists ==
    ASSUME NEW t \in Toc, LastAudio(t) \in Nat
    PROVE  /\ LastTrack(t) \in 0..LastAudio(t)
           /\ Covered(t, LastTrack(t))
           /\ \A j \in (LastTrack(t) + 1)..LastAudio(t) : ~ Covered(t, j)
<1> DEFINE C == {k \in 0..LastAudio(t) : Covered(t, k)}
<1>1. C \in SUBSET (0..LastAudio(t)) /\ C # {} /\ 0 \in Int /\ LastAudio(t) \in Int
  BY DEF Covered
<1> HIDE DEF C
<1>2. PICK m \in C : \A k \in C : k <= m
  BY <1>1, Greatest
<1>3. m \in 0..LastAudio(t) /\ Covered(t, m) /\ m \in Nat
  BY <1>1, <1>2 DEF C
<1>4. ASSUME NEW j \in (m + 1)..LastAudio(t) PROVE ~ Covered(t, j)
  <2>1. j \in 0..LastAudio(t) /\ ~ (j <= m)
    BY <1>3, <1>4
  <2> QED BY <1>2, <2>1 DEF C
<1>5. LastTrack(t) = m
  BY <1>3, <1>4, LastTrackIsGreatest
<1> QED BY <1>3, <1>4, <1>5

(* A disc that was loaded starts at track 1 or later, its last track is a  *)
(* slot, nothing is in use behind it, and it starts before the lead-out.   *)
LEMMA LoadedDiscIsSane ==
    ASSUME NEW t \in Toc, Refusal(t) = "none", t.last <= MAX_TRACK
    PROVE  /\ LoadedDisc(t) \in [first: Int, last: Int, offsets: [Slot -> Int]]
           /\ LoadedDisc(t).first = t.first /\ t.first >= 1
           /\ LoadedDisc(t).last \in Slot
           /\ LoadedDisc(t).offsets[LoadedDisc(t).last] <= LoadedDisc(t).offsets[0]
<1> DEFINE n == LastTrack(t)
<1>1. t.first \in Int /\ t.last \in Int /\ t.first >= 1 /\ AudioTracks(t) # {}
  BY TocTypes DEF Refusal
<1>2. LastAudio(t) \in AudioTracks(t) /\ AudioTracks(t) \subseteq t.first..t.last
  BY <1>1, LastAudioExists DEF AudioTracks
<1>3. LastAudio(t) \in Nat /\ LastAudio(t) <= t.last
  BY <1>1, <1>2
<1>4. n \in 0..t.last /\ n \in Slot /\ 0 \in Slot /\ Covered(t, n) /\ n <= LastAudio(t)
  BY <1>1, <1>3, LastTrackExists, TocConstants DEF Slot
<1>5. LeadOutAfter(t, n) \in Int /\ \A k \in Slot : StartOffset(t.tracks[k]) \in Int
  BY <1>4, TocTypes
<1>6. TableWithLast(t, n) \in [Slot -> Int]
  BY <1>5 DEF TableWithLast
<1>7. TableWithLast(t, n)[n] <= TableWithLast(t, n)[0]
  <2>1. TableWithLast(t, n)[0] = LeadOutAfter(t, n)
    BY <1>4 DEF TableWithLast
  <2>2. CASE n = 0
    BY <1>5, <2>1, <2>2
  <2>3. CASE n # 0
    <3>1. TableWithLast(t, n)[n] = Stored(t, n)
      BY <1>1, <1>4, <2>3 DEF TableWithLast, Stored
    <3>2. Stored(t, n) \in Int
      BY <1>4, <1>5 DEF Stored
    <3> QED BY <1>4, <1>5, <2>1, <2>3, <3>1, <3>2 DEF Covered
  <2> QED BY <2>2, <2>3
<1> QED BY <1>1, <1>4, <1>6, <1>7 DEF LoadedDisc
=============================================================================
