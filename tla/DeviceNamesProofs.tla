--------------------------- MODULE DeviceNamesProofs ---------------------------
(***************************************************************************)
(* Which drive a call reads, for every number of threads and drives, on    *)
(* every platform, whatever drives are attached and detached meanwhile.    *)
(*                                                                         *)
(* The argument: Home(t) is the drive that the device of thread t leads    *)
(* to.  As long as no event that MayMove names has met the call, Home(t)   *)
(* stays, and everything the call has found out is Home(t) (HomeInv); the  *)
(* static buffers stay because only their own thread writes them, or, on   *)
(* BSD, because all threads write the same (BufferInv).                    *)
(***************************************************************************)
EXTENDS DeviceNames, TLAPS, FiniteSetTheorems, SequenceTheorems, WellFoundedInduction

Reads(c) == c.pc \in {"resolve", "open", "reading"}

(* Each call knows its place.                                              *)
FrameInv(c) ==
    /\ c.pc = "idle" => c = NoCall
    /\ c.pc = "first" => platform = "linux"
    /\ c.pc \in {"default", "first"} => c.pass = 1
    /\ Reads(c) => c.asker = "read"
    /\ c.pc = "reading" => c.drive # Nowhere
    /\ c.pass = 2 => c.first # Nowhere

(* On BSD, where all threads share a buffer, it does not change once one   *)
(* of them points to it.                                                   *)
BufferInv(t) ==
    platform = "bsd" /\ "buffer" \in {call[t].device.kind, kept[t].kind}
        => default_device[Process] = 0

(* The drive that the device of a call leads to.                           *)
Home(t) ==
    LET device == call[t].device
    IN  IF device.kind = "buffer" THEN default_device[BufferOf(t)]
        ELSE IF device.kind = "number"
        THEN IF platform = "bsd" THEN device.of - 1
             ELSE IF HasNumbers THEN NthDrive(device.of) ELSE Nowhere
        ELSE IF device.of = Link THEN link ELSE device.of

ByNumber(c) == HasNumbers /\ c.device.kind = "number"

(* It is what the call has found out, unless something has moved it.       *)
HomeInv(t) ==
    LET c == call[t]
    IN  Reads(c) /\ ~ MayMove(c) =>
            /\ c.pass = 2 => c.first = Home(t)
            /\ c.pc = "reading" => c.drive = Home(t)
            /\ c.pc = "open" =>
                  IF ByNumber(c) THEN c.target = Named(Home(t)) /\ Home(t) \in Drives
                                 ELSE c.target = c.device

(* The candidates that were tried are still not there.                     *)
CandidateInv(t) ==
    LET c == call[t]
    IN  c.pc = "default" /\ c.asker = "client" /\ c.events = {}
            => \A d \in Drives : d < c.k => ~ Contains(attached, d)

ThreadInv(t) == FrameInv(call[t]) /\ BufferInv(t) /\ HomeInv(t) /\ CandidateInv(t)

NameInv == TypeOK /\ \A t \in Threads : ThreadInv(t)

AttachedOK == attached \in Seq(Drives) /\ IsInjective(attached)

-----------------------------------------------------------------------------
(* The list of drives.                                                     *)
LEMMA DriveFacts ==
    /\ LAST_DRIVE \in Nat /\ Drives \subseteq Int /\ 0 \in Drives
    /\ Nowhere \notin Drives /\ Link \notin Drives /\ Nowhere # Link
BY NameConstants DEF Drives, Nowhere, Link

(* What a list with one drive more consists of.                            *)
LEMMA InsertedDrive ==
    ASSUME NEW S, NEW s \in Seq(S), IsInjective(s), NEW d \in S, ~ Contains(s, d),
           NEW k \in 1..(Len(s) + 1)
    PROVE  LET r == InsertAt(s, k, d)
           IN  /\ r \in Seq(S) /\ IsInjective(r)
               /\ Len(r) = Len(s) + 1 /\ \A j \in 1..(k - 1) : r[j] = s[j]
<1> DEFINE r == InsertAt(s, k, d)
           front == SubSeq(s, 1, k - 1)
           back == SubSeq(s, k, Len(s))
<1>1. /\ front \in Seq(S) /\ Len(front) = k - 1
      /\ \A j \in 1..(k - 1) : front[j] = s[j]
  OBVIOUS
<1>2. /\ back \in Seq(S) /\ Len(back) = Len(s) - k + 1
      /\ \A j \in 1..(Len(s) - k + 1) : back[j] = s[k + j - 1]
  OBVIOUS
<1>3. /\ r \in Seq(S) /\ Len(r) = Len(s) + 1
      /\ \A j \in 1..(Len(s) + 1) : r[j] = IF j < k THEN s[j] ELSE IF j = k THEN d ELSE s[j - 1]
  <2>1. r = front \o <<d>> \o back
    BY DEF InsertAt
  <2> HIDE DEF r, front, back
  <2> DEFINE head == front \o <<d>>
  <2>2. /\ head \in Seq(S) /\ Len(head) = k
        /\ \A j \in 1..k : head[j] = IF j < k THEN s[j] ELSE d
    BY <1>1
  <2>3. r = head \o back
    BY <2>1
  <2> HIDE DEF head
  <2>4. /\ r \in Seq(S) /\ Len(r) = Len(s) + 1
        /\ \A j \in 1..(Len(s) + 1) : r[j] = IF j <= k THEN head[j] ELSE back[j - k]
    <3>1. Len(head) = k /\ Len(head) + Len(back) = Len(s) + 1
      BY <1>2, <2>2
    <3>2. /\ head \o back \in Seq(S) /\ Len(head \o back) = Len(head) + Len(back)
          /\ \A j \in 1..(Len(head) + Len(back)) :
                (head \o back)[j] = IF j <= Len(head) THEN head[j] ELSE back[j - Len(head)]
      BY <1>2, <2>2, ConcatProperties, Zenon
    <3> QED BY <2>3, <3>1, <3>2
  <2>5. ASSUME NEW j \in 1..(Len(s) + 1)
        PROVE  r[j] = IF j < k THEN s[j] ELSE IF j = k THEN d ELSE s[j - 1]
    <3>1. CASE j <= k
      BY <2>2, <2>4, <3>1
    <3>2. CASE j > k
      <4>1. j - k \in 1..(Len(s) - k + 1) /\ k + (j - k) - 1 = j - 1
        BY <3>2
      <4>2. r[j] = back[j - k]
        BY <2>4, <3>2
      <4>3. r[j] = s[k + (j - k) - 1]
        BY <1>2, <4>1, <4>2
      <4> QED BY <3>2, <4>1, <4>3
    <3> QED BY <3>1, <3>2
  <2> QED BY <2>4, <2>5
<1>4. \A j \in 1..Len(s) : s[j] # d
  BY DEF Contains
<1>5. \A i, j \in 1..Len(s) : s[i] = s[j] => i = j
  BY DEF IsInjective
<1> HIDE DEF r
<1>6. ASSUME NEW i \in 1..(Len(s) + 1), NEW j \in 1..(Len(s) + 1), r[i] = r[j] PROVE i = j
  <2> DEFINE Old(x) == IF x < k THEN x ELSE x - 1
  <2>1. \A x \in 1..(Len(s) + 1) : x # k => Old(x) \in 1..Len(s) /\ r[x] = s[Old(x)]
    BY <1>3
  <2>2. r[k] = d
    BY <1>3
  <2>3. CASE i = k \/ j = k
    BY <1>4, <1>6, <2>1, <2>2, <2>3
  <2>4. CASE i # k /\ j # k
    <3>1. Old(i) = Old(j)
      BY <1>5, <1>6, <2>1, <2>4
    <3> QED BY <2>4, <3>1
  <2> QED BY <2>3, <2>4
<1>7. IsInjective(r)
  BY <1>3, <1>6 DEF IsInjective
<1>8. \A j \in 1..(k - 1) : r[j] = s[j]
  BY <1>3
<1> QED BY <1>3, <1>7, <1>8 DEF r

(* And of a list with one drive less.                                      *)
LEMMA RemovedDrive ==
    ASSUME NEW S, NEW s \in Seq(S), IsInjective(s), NEW k \in DOMAIN s
    PROVE  LET r == RemoveAt(s, k)
           IN  /\ r \in Seq(S) /\ IsInjective(r)
               /\ \A d : Contains(r, d) => Contains(s, d)
<1> DEFINE r == RemoveAt(s, k)
           front == SubSeq(s, 1, k - 1)
           back == SubSeq(s, k + 1, Len(s))
<1>1. /\ front \in Seq(S) /\ Len(front) = k - 1
      /\ \A j \in 1..(k - 1) : front[j] = s[j]
  OBVIOUS
<1>2. /\ back \in Seq(S) /\ Len(back) = Len(s) - k
      /\ \A j \in 1..(Len(s) - k) : back[j] = s[k + j]
  OBVIOUS
<1>3. /\ r \in Seq(S) /\ Len(r) = Len(s) - 1
      /\ \A j \in 1..(Len(s) - 1) : r[j] = IF j < k THEN s[j] ELSE s[j + 1]
  <2>1. r = front \o back
    BY DEF RemoveAt
  <2> HIDE DEF r, front, back
  <2>2. /\ r \in Seq(S) /\ Len(r) = Len(s) - 1
        /\ \A j \in 1..(Len(s) - 1) :
              r[j] = IF j <= k - 1 THEN front[j] ELSE back[j - (k - 1)]
    <3>1. Len(front) = k - 1 /\ Len(front) + Len(back) = Len(s) - 1
      BY <1>1, <1>2
    <3>2. /\ front \o back \in Seq(S) /\ Len(front \o back) = Len(front) + Len(back)
          /\ \A j \in 1..(Len(front) + Len(back)) :
                (front \o back)[j] = IF j <= Len(front) THEN front[j] ELSE back[j - Len(front)]
      BY <1>1, <1>2, ConcatProperties, Zenon
    <3> QED BY <2>1, <3>1, <3>2
  <2>3. ASSUME NEW j \in 1..(Len(s) - 1) PROVE r[j] = IF j < k THEN s[j] ELSE s[j + 1]
    <3>1. CASE j < k
      BY <1>1, <2>2, <3>1
    <3>2. CASE j >= k
      <4>1. j - (k - 1) \in 1..(Len(s) - k) /\ k + (j - (k - 1)) = j + 1
        BY <3>2
      <4>2. r[j] = back[j - (k - 1)]
        <5>1. ~ (j <= k - 1)
          BY <3>2
        <5> QED BY <2>2, <5>1, Zenon
      <4> QED BY <1>2, <3>2, <4>1, <4>2
    <3> QED BY <3>1, <3>2
  <2> QED BY <2>2, <2>3
<1>5. \A i, j \in 1..Len(s) : s[i] = s[j] => i = j
  BY DEF IsInjective
<1> HIDE DEF r
<1>6. ASSUME NEW i \in 1..(Len(s) - 1), NEW j \in 1..(Len(s) - 1), r[i] = r[j] PROVE i = j
  BY <1>3, <1>5, <1>6
<1>7. IsInjective(r)
  BY <1>3, <1>6 DEF IsInjective
<1>8. ASSUME NEW d, Contains(r, d) PROVE Contains(s, d)
  <2>1. PICK j \in 1..(Len(s) - 1) : r[j] = d
    BY <1>3, <1>8 DEF Contains
  <2>2. j \in 1..Len(s) /\ j + 1 \in 1..Len(s)
    OBVIOUS
  <2> QED BY <1>3, <2>1, <2>2 DEF Contains
<1> QED BY <1>3, <1>7, <1>8 DEF r

(* Some drives have a first letter of the alphabet among them.             *)
LEMMA FirstLetter ==
    ASSUME NEW S \in SUBSET Drives, S # {}
    PROVE  \E d \in S : \A e \in S : d <= e
<1> DEFINE UpTo(d) == {e \in S : e <= d}
           F == {UpTo(d) : d \in S}
           R == StrictSubsetOrdering(Drives)
<1>1. IsWellFoundedOn(R, SUBSET Drives)
  <2>1. IsFiniteSet(Drives)
    BY FS_Interval, DriveFacts DEF Drives
  <2>2. FiniteSubsetsOf(Drives) = SUBSET Drives
    BY <2>1, FS_FiniteSubsetsOfFinite, Zenon
  <2> QED BY <2>2, FS_StrictSubsetOrderingWellFounded, Zenon
<1>2. F \subseteq SUBSET Drives /\ F # {}
  OBVIOUS
<1>3. \E U \in F : \A V \in F : ~ (<<V, U>> \in R)
  <2> HIDE DEF F, R
  <2> QED BY <1>1, <1>2, WFMin, Zenon
<1>4. PICK d \in S : \A e \in S : ~ (<<UpTo(e), UpTo(d)>> \in R)
  BY <1>3, Zenon
<1>5. ASSUME NEW e \in S, e < d PROVE FALSE
  <2>1. \A x \in S : x \in Int
    BY DriveFacts
  <2>2. d \in UpTo(d) /\ d \notin UpTo(e) /\ UpTo(e) \subseteq UpTo(d)
    BY <1>5, <2>1
  <2>3. UpTo(e) \in SUBSET Drives /\ UpTo(d) \in SUBSET Drives
    OBVIOUS
  <2> HIDE DEF UpTo
  <2>4. <<UpTo(e), UpTo(d)>> \in R
    BY <2>2, <2>3, Zenon DEF StrictSubsetOrdering
  <2> QED BY <1>4, <2>4, Zenon
<1> QED BY <1>5, DriveFacts

-----------------------------------------------------------------------------
(* Drive number n on the platforms that have numbers.                      *)
LEMMA NthDriveCases ==
    ASSUME NEW n
    PROVE  /\ platform = "linux" => NthDrive(n) = IF listed THEN Counted(n) ELSE Nowhere
           /\ platform = "bsd" => NthDrive(n) = Unit(n)
           /\ platform = "windows" => NthDrive(n) = Lettered(n)
           /\ platform = "darwin" => NthDrive(n) = Registered(n)
<1>1. platform = "linux" => NthDrive(n) = IF listed THEN Counted(n) ELSE Nowhere
  BY Zenon DEF NthDrive
<1>2. platform = "bsd" => NthDrive(n) = Unit(n)
  BY Zenon DEF NthDrive
<1>3. platform = "windows" => NthDrive(n) = Lettered(n)
  BY Zenon DEF NthDrive
<1>4. platform = "darwin" => NthDrive(n) = Registered(n)
  BY Zenon DEF NthDrive
<1> QED BY <1>1, <1>2, <1>3, <1>4

(* Counting down from the front of the line counts up from its end: drive  *)
(* number n is the n-th that was attached.                                 *)
LEMMA CountedInOrder ==
    ASSUME AttachedOK, NEW n \in Nat
    PROVE  Counted(n) = IF n \in 1..Len(attached) THEN attached[n] ELSE Nowhere
<1> DEFINE len == Len(attached)
           counter(k) == Len(Line) - (k - 1)
           found == {k \in DOMAIN Line : counter(k) = n}
<1>1. /\ len \in Nat /\ DOMAIN Line = 1..len /\ Len(Line) = len
      /\ \A k \in 1..len : Line[k] = attached[(len - k) + 1]
  <2>1. Line = [k \in 1..len |-> attached[(len - k) + 1]] /\ len \in Nat
    BY DEF Line, Reverse, AttachedOK
  <2> HIDE DEF len
  <2> QED BY <2>1
<1>2. Counted(n) = IF found = {} THEN Nowhere ELSE Line[CHOOSE k \in found : TRUE]
  BY DEF Counted
<1> HIDE DEF len
<1>3. \A k : k \in found <=> k \in 1..len /\ len - (k - 1) = n
  BY <1>1
<1> HIDE DEF found
<1>4. CASE n \in 1..len
  <2>1. (len - n) + 1 \in 1..len
    BY <1>1, <1>4
  <2>2. found = {(len - n) + 1}
    BY <1>1, <1>3, <1>4, <2>1
  <2>3. (CHOOSE k \in found : TRUE) = (len - n) + 1
    BY <2>2
  <2>4. Line[(len - n) + 1] = attached[(len - ((len - n) + 1)) + 1]
    BY <1>1, <2>1
  <2>5. (len - ((len - n) + 1)) + 1 = n
    BY <1>1, <1>4
  <2> QED BY <1>2, <1>4, <2>2, <2>3, <2>4, <2>5 DEF len
<1>5. CASE n \notin 1..len
  <2>1. found = {}
    BY <1>1, <1>3, <1>5
  <2> QED BY <1>2, <1>5, <2>1 DEF len
<1> QED BY <1>4, <1>5

(* The letters of drives are drives, and there is a first one.             *)
LEMMA LetteredDrive ==
    ASSUME AttachedOK, NEW n
    PROVE  /\ Lettered(n) # Nowhere => Contains(attached, Lettered(n))
           /\ attached # <<>> => Lettered(1) # Nowhere
<1> DEFINE S == ToSet(attached)
           counter(d) == Cardinality({e \in S : e <= d})
           found(m) == {d \in S : counter(d) = m}
<1>1. \A m : Lettered(m) = IF found(m) = {} THEN Nowhere ELSE CHOOSE d \in found(m) : TRUE
  BY DEF Lettered
<1>2. S \subseteq Drives /\ \A d \in S : Contains(attached, d)
  BY DEF ToSet, Contains, AttachedOK
<1>3. \A m : found(m) # {} => Lettered(m) \in S
  BY <1>1
<1>4. Lettered(n) # Nowhere => Contains(attached, Lettered(n))
  BY <1>1, <1>2, <1>3
<1>5. ASSUME attached # <<>> PROVE Lettered(1) # Nowhere
  <2>1. S # {}
    <3>1. 1 \in DOMAIN attached
      BY <1>5 DEF AttachedOK
    <3>2. attached[1] \in S
      BY <3>1, Zenon DEF ToSet
    <3> QED BY <3>2
  <2> HIDE DEF S
  <2>2. PICK d \in S : \A e \in S : d <= e
    BY <1>2, <2>1, FirstLetter
  <2>3. {e \in S : e <= d} = {d}
    <3>1. \A e \in S : e <= d <=> e = d
      BY <1>2, <2>2, DriveFacts
    <3> QED BY <2>2, <3>1
  <2>4. counter(d) = 1
    BY <2>3, FS_Singleton
  <2>5. d \in found(1)
    BY <2>2, <2>4
  <2>6. Lettered(1) \in S
    BY <1>3, <2>5, Zenon
  <2> QED BY <1>2, <2>6, DriveFacts
<1> QED BY <1>4, <1>5

(* A name under which something opens is that of a drive that is there.    *)
LEMMA OpensDrive ==
    ASSUME AttachedOK, NEW node
    PROVE  /\ Opens(node) # Nowhere =>
                /\ Opens(node) = IF node = Link THEN link ELSE node
                /\ Opens(node) \in Drives /\ Contains(attached, Opens(node))
           /\ node \in Drives => (Opens(node) # Nowhere <=> Contains(attached, node))
<1>1. \A d : Contains(attached, d) => d \in Drives
  BY DEF Contains, AttachedOK
<1> QED BY <1>1, DriveFacts DEF Opens

(* Drive number n is a drive that is there, if there is one.               *)
LEMMA NthDriveIsThere ==
    ASSUME AttachedOK, HasNumbers, NEW n \in 1..(LAST_DRIVE + 1)
    PROVE  NthDrive(n) # Nowhere => NthDrive(n) \in Drives /\ Contains(attached, NthDrive(n))
<1>1. n \in Nat
  BY DriveFacts
<1>2. \A d : Contains(attached, d) => d \in Drives
  BY DEF Contains, AttachedOK
<1>3. \A k \in 1..Len(attached) : Contains(attached, attached[k])
  BY DEF Contains
<1>4. CASE platform = "linux"
  <2>1. NthDrive(n) # Nowhere => n \in 1..Len(attached) /\ NthDrive(n) = attached[n]
    BY <1>1, <1>4, NthDriveCases, CountedInOrder
  <2> QED BY <1>2, <1>3, <2>1
<1>5. CASE platform = "bsd"
  <2>1. NthDrive(n) = Opens(n - 1)
    BY <1>5, NthDriveCases DEF Unit
  <2> QED BY <2>1, OpensDrive
<1>6. CASE platform = "windows"
  BY <1>2, <1>6, NthDriveCases, LetteredDrive
<1>7. CASE platform = "darwin"
  <2>1. NthDrive(n) # Nowhere => n \in 1..Len(attached) /\ NthDrive(n) = attached[n]
    BY <1>7, NthDriveCases DEF Registered, AttachedOK
  <2> QED BY <1>2, <1>3, <2>1
<1> QED BY <1>4, <1>5, <1>6, <1>7 DEF HasNumbers

(* Where there are drives, there is a first one.                           *)
LEMMA FirstDriveIsThere ==
    ASSUME AttachedOK, attached # <<>>,
           \/ platform = "linux" /\ listed
           \/ platform \in {"windows", "darwin"}
    PROVE  NthDrive(1) # Nowhere
<1>1. 1 \in 1..Len(attached) /\ attached[1] \in Drives
  BY DEF AttachedOK
<1>2. CASE platform = "linux" /\ listed
  BY <1>1, <1>2, NthDriveCases, CountedInOrder, DriveFacts
<1>3. CASE platform = "windows"
  BY <1>3, NthDriveCases, LetteredDrive
<1>4. CASE platform = "darwin"
  <2>1. DOMAIN attached = 1..Len(attached)
    BY DEF AttachedOK
  <2> QED BY <1>1, <1>4, <2>1, NthDriveCases, DriveFacts DEF Registered
<1> QED BY <1>2, <1>3, <1>4
-----------------------------------------------------------------------------
(* The cases of the definitions that are by cases.                         *)
LEMMA NameOfCases ==
    ASSUME NEW t, NEW device
    PROVE  /\ device.kind = "name" => NameOf(t, device) = device.of
           /\ device.kind = "buffer" => NameOf(t, device) = default_device[BufferOf(t)]
           /\ device.kind = "number" => NameOf(t, device) = Nowhere
<1>1. device.kind = "name" => NameOf(t, device) = device.of
  BY Zenon DEF NameOf
<1>2. device.kind = "buffer" => NameOf(t, device) = default_device[BufferOf(t)]
  BY Zenon DEF NameOf
<1>3. device.kind = "number" => NameOf(t, device) = Nowhere
  BY Zenon DEF NameOf
<1> QED BY <1>1, <1>2, <1>3

(* What is looked up in the system stays while the system does.            *)
LEMMA LookupsStay ==
    ASSUME UNCHANGED System
    PROVE  /\ HasNumbers' = HasNumbers
           /\ HasNumbers => \A n : NthDrive(n)' = NthDrive(n)
           /\ \A node : Opens(node)' = Opens(node)
           /\ \A d : Contains(attached, d)' = Contains(attached, d)
<1>1. platform' = platform /\ listed' = listed /\ attached' = attached /\ link' = link
  BY DEF System
<1>2. ASSUME NEW node PROVE Opens(node)' = Opens(node)
  BY <1>1 DEF Opens
<1>3. ASSUME NEW n, HasNumbers PROVE NthDrive(n)' = NthDrive(n)
  <2>1. Counted(n)' = Counted(n)
    BY <1>1 DEF Counted, Line
  <2>2. Lettered(n)' = Lettered(n)
    BY <1>1 DEF Lettered
  <2>3. Registered(n)' = Registered(n)
    BY <1>1 DEF Registered
  <2>4. Unit(n)' = Unit(n)
    BY <1>2 DEF Unit
  <2>5. /\ platform' = "linux" => NthDrive(n)' = IF listed' THEN Counted(n)' ELSE Nowhere
        /\ platform' = "bsd" => NthDrive(n)' = Unit(n)'
    BY Zenon DEF NthDrive
  <2>6. /\ platform' = "windows" => NthDrive(n)' = Lettered(n)'
        /\ platform' = "darwin" => NthDrive(n)' = Registered(n)'
    BY Zenon DEF NthDrive
  <2> HIDE DEF HasNumbers
  <2>7. platform \in {"linux", "bsd", "darwin", "windows"}
    BY <1>3 DEF HasNumbers
  <2> QED BY <1>1, <2>1, <2>2, <2>3, <2>4, <2>5, <2>6, <2>7, NthDriveCases
<1> QED BY <1>1, <1>2, <1>3 DEF HasNumbers

-----------------------------------------------------------------------------
Call == [pc     : {"idle", "default", "first", "resolve", "open", "reading"},
         asker  : {"client", "read"}, k : 0..(LAST_DRIVE + 1), pass : 1..2,
         device : Device, target : Device,
         drive  : Drives \cup {Nowhere}, first : Drives \cup {Nowhere},
         events : SUBSET {"attach", "detach", "relink"}]

(* The types, with the names the proofs use.                               *)
LEMMA Types ==
    TypeOK <=> /\ platform \in Platforms /\ listed \in BOOLEAN /\ AttachedOK
               /\ link \in Drives \cup {Nowhere}
               /\ default_device \in [Threads \cup {Process} -> Drives \cup {Nowhere}]
               /\ kept \in [Threads -> Device] /\ call \in [Threads -> Call]
BY DEF TypeOK, AttachedOK, Call

(* A step of one thread leaves the others what they had: it writes no      *)
(* static buffer but its own, or what all threads write.                   *)
LEMMA ThreadStep ==
    ASSUME NameInv, UNCHANGED System, NEW t \in Threads,
           NEW c \in Call, call' = [call EXCEPT ![t] = c],
           NEW device \in Device, kept' = [kept EXCEPT ![t] = device],
           NEW d \in Drives \cup {Nowhere},
           default_device' = [default_device EXCEPT ![BufferOf(t)] = d],
           platform = "bsd" => d \in {0, default_device[Process]},
           ThreadInv(t)'
    PROVE  NameInv'
<1>1. platform' = platform /\ listed' = listed /\ attached' = attached /\ link' = link
  BY DEF System
<1>2. BufferOf(t) \in Threads \cup {Process}
  BY DEF BufferOf
<1>3. TypeOK'
  <2>1. AttachedOK' = AttachedOK
    BY <1>1 DEF AttachedOK
  <2> QED BY <1>1, <1>2, <2>1, Types DEF NameInv, TypeOK, AttachedOK, Call
<1>4. ASSUME NEW u \in Threads, u # t PROVE ThreadInv(u)'
  <2>1. call'[u] = call[u] /\ kept'[u] = kept[u]
    BY <1>4, Types DEF NameInv
  <2>2. ThreadInv(u)
    BY DEF NameInv
  <2>3. FrameInv(call[u])'
    BY <1>1, <2>1, <2>2 DEF ThreadInv, FrameInv, Reads
  <2>4. BufferInv(u)'
    <3>1. SUFFICES ASSUME platform = "bsd", "buffer" \in {call[u].device.kind, kept[u].kind}
                   PROVE  default_device'[Process] = 0
      BY <1>1, <2>1 DEF BufferInv
    <3> QED BY <2>2, <3>1, Types DEF ThreadInv, BufferInv, NameInv, BufferOf
  <2>5. HomeInv(u)'
    <3>1. call[u].device.kind = "buffer"
            => (default_device[BufferOf(u)])' = default_device[BufferOf(u)]
      BY <1>1, <1>4, <2>2, Types DEF ThreadInv, BufferInv, NameInv, BufferOf
    <3>2. Home(u)' = Home(u)
      BY <1>1, <2>1, <3>1, LookupsStay DEF Home
    <3>3. MayMove(call[u])' <=> MayMove(call[u])
      BY <1>1, <2>1 DEF MayMove
    <3>4. ByNumber(call[u])' <=> ByNumber(call[u])
      BY <1>1, <2>1 DEF ByNumber, HasNumbers
    <3> HIDE DEF Home, MayMove, ByNumber
    <3> QED BY <2>1, <2>2, <3>2, <3>3, <3>4 DEF ThreadInv, HomeInv, Reads
  <2>6. CandidateInv(u)'
    BY <1>1, <2>1, <2>2 DEF ThreadInv, CandidateInv
  <2> QED BY <2>3, <2>4, <2>5, <2>6 DEF ThreadInv
<1> QED BY <1>3, <1>4 DEF NameInv

(* A step that changes nothing but where one thread is.                    *)
LEMMA CallStep ==
    ASSUME NameInv, NEW t \in Threads, UNCHANGED <<System, default_device, kept>>,
           NEW c \in Call, call' = [call EXCEPT ![t] = c],
           FrameInv(c), HomeInv(t)', CandidateInv(t)',
           c.device.kind = "buffer" => call[t].device.kind = "buffer" \/ kept[t].kind = "buffer"
    PROVE  NameInv'
<1>1. platform' = platform /\ UNCHANGED System
  BY DEF System
<1>2. kept[t] \in Device /\ BufferOf(t) \in Threads \cup {Process}
  BY Types DEF NameInv, BufferOf
<1>3. default_device[BufferOf(t)] \in Drives \cup {Nowhere}
  BY <1>2, Types DEF NameInv
<1>4. /\ kept' = [kept EXCEPT ![t] = kept[t]]
      /\ default_device' = [default_device EXCEPT ![BufferOf(t)] = default_device[BufferOf(t)]]
  BY <1>2, Types DEF NameInv
<1>5. platform = "bsd" => default_device[BufferOf(t)] \in {0, default_device[Process]}
  BY DEF BufferOf
<1>6. call'[t] = c /\ kept'[t] = kept[t]
  BY Types DEF NameInv
<1>7. ThreadInv(t)'
  <2>1. FrameInv(call[t])'
    BY <1>1, <1>6 DEF FrameInv, Reads
  <2>2. BufferInv(t)'
    BY <1>1, <1>6 DEF BufferInv, NameInv, ThreadInv
  <2> QED BY <2>1, <2>2 DEF ThreadInv
<1> HIDE DEF NameInv, ThreadInv, System
<1> QED BY <1>1, <1>2, <1>3, <1>4, <1>5, <1>7, ThreadStep

(* The beginning of a call.                                                *)
LEMMA NoCallType == NoCall \in Call /\ FrameInv(NoCall)
BY DriveFacts DEF NoCall, Call, Device, Named, Node, FrameInv, Reads

LEMMA ReturnKeepsInv ==
    ASSUME NameInv, NEW t \in Threads, UNCHANGED <<System, default_device, kept>>, Return(t)
    PROVE  NameInv'
<1>1. call' = [call EXCEPT ![t] = NoCall] /\ call'[t] = NoCall
  BY Types DEF Return, NameInv
<1>2. HomeInv(t)' /\ CandidateInv(t)'
  BY <1>1 DEF HomeInv, CandidateInv, NoCall, Reads
<1>3. NoCall.device.kind = "name"
  BY DEF NoCall, Named
<1> HIDE DEF NameInv, NoCall
<1> QED BY <1>1, <1>2, <1>3, NoCallType, CallStep

LEMMA BeginKeepsInv ==
    ASSUME NameInv, NEW t \in Threads,
           \/ GetDefault(t)
           \/ ReadDefault(t)
           \/ Read(t, kept[t])
           \/ \E d \in Drives : Read(t, Named(d)) \/ Read(t, Numbered(d + 1))
    PROVE  NameInv'
<1>1. call[t] = NoCall /\ kept[t] \in Device
  BY Types DEF NameInv, ThreadInv, FrameInv, GetDefault, ReadDefault, Read
<1>2. CASE GetDefault(t)
  <2> DEFINE c == [NoCall EXCEPT !.pc = "default"]
  <2>1. call' = [call EXCEPT ![t] = c] /\ call'[t] = c
    BY <1>1, <1>2, Types DEF NameInv, GetDefault
  <2>2. c \in Call /\ FrameInv(c) /\ c.device.kind = "name"
    BY NoCallType DEF NoCall, Call, FrameInv, Reads, Named
  <2>3. HomeInv(t)' /\ CandidateInv(t)'
    BY <2>1, DriveFacts DEF HomeInv, CandidateInv, NoCall, Reads, Drives
  <2> HIDE DEF c, NameInv
  <2> QED BY <1>2, <2>1, <2>2, <2>3, CallStep DEF GetDefault
<1>3. CASE ReadDefault(t)
  <2> DEFINE c == [NoCall EXCEPT !.pc = "default", !.asker = "read"]
  <2>1. call' = [call EXCEPT ![t] = c] /\ call'[t] = c
    BY <1>1, <1>3, Types DEF NameInv, ReadDefault
  <2>2. /\ c \in Call /\ FrameInv(c) /\ c.device.kind = "name"
        /\ c.pc = "default" /\ c.asker = "read"
    BY NoCallType DEF NoCall, Call, FrameInv, Reads, Named
  <2> HIDE DEF c, NameInv
  <2>3. HomeInv(t)' /\ CandidateInv(t)'
    BY <2>1, <2>2 DEF HomeInv, CandidateInv, Reads
  <2> QED BY <1>3, <2>1, <2>2, <2>3, CallStep DEF ReadDefault
<1>4. ASSUME NEW device \in Device, Read(t, device),
             device.kind = "buffer" => device = kept[t]
      PROVE  NameInv'
  <2> DEFINE c == [NoCall EXCEPT !.pc = "resolve", !.asker = "read", !.device = device]
  <2>1. call' = [call EXCEPT ![t] = c] /\ call'[t] = c
    BY <1>1, <1>4, Types DEF NameInv, Read
  <2>2. /\ c \in Call /\ FrameInv(c) /\ c.device = device
        /\ c.pc = "resolve" /\ c.pass = 1
    BY NoCallType DEF NoCall, Call, FrameInv, Reads
  <2> HIDE DEF c, NameInv
  <2>3. HomeInv(t)' /\ CandidateInv(t)'
    BY <2>1, <2>2 DEF HomeInv, CandidateInv
  <2> QED BY <1>4, <2>1, <2>2, <2>3, CallStep DEF Read
<1>5. \A d \in Drives : Named(d) \in Device /\ Numbered(d + 1) \in Device
  BY DriveFacts DEF Named, Numbered, Device, Node, Drives
<1>6. \A d \in Drives : Named(d).kind = "name" /\ Numbered(d + 1).kind = "number"
  BY DEF Named, Numbered
<1> QED BY <1>1, <1>2, <1>3, <1>4, <1>5, <1>6

-----------------------------------------------------------------------------
(* The default device is found.                                            *)
LEMMA AnswerKeepsInv ==
    ASSUME NameInv, NEW t \in Threads, call[t].pc \in {"default", "first"},
           NEW device \in Device, Answer(t, device), UNCHANGED System,
           NEW d \in Drives \cup {Nowhere},
           default_device' = [default_device EXCEPT ![BufferOf(t)] = d],
           platform = "bsd" => d = 0
    PROVE  NameInv'
<1>1. platform' = platform
  BY DEF System
<1>2. call \in [Threads -> Call] /\ kept \in [Threads -> Device] /\ FrameInv(call[t])
  BY Types DEF NameInv, ThreadInv
<1>3. BufferInv(t)'
  <2>1. platform = "bsd" => default_device'[Process] = 0
    BY Types DEF BufferOf, NameInv
  <2> QED BY <1>1, <2>1 DEF BufferInv
<1>4. PICK c \in Call, e \in Device :
         /\ call' = [call EXCEPT ![t] = c] /\ kept' = [kept EXCEPT ![t] = e]
         /\ FrameInv(c) /\ c.pc \in {"idle", "resolve"} /\ c.pass = 1
  <2>1. CASE call[t].asker = "client"
    <3>1. call' = [call EXCEPT ![t] = NoCall] /\ kept' = [kept EXCEPT ![t] = device]
      BY <2>1 DEF Answer, Return
    <3>2. NoCall.pc = "idle" /\ NoCall.pass = 1
      BY DEF NoCall
    <3> QED BY <3>1, <3>2, NoCallType
  <2>2. CASE call[t].asker # "client"
    <3> DEFINE c == [call[t] EXCEPT !.pc = "resolve", !.device = device, !.k = 0]
    <3>1. call' = [call EXCEPT ![t] = c]
      BY <1>2, <2>2 DEF Answer
    <3>2. call[t] \in Call /\ call[t].pass = 1
      BY <1>2 DEF FrameInv
    <3>3. c \in Call /\ c.pc = "resolve" /\ c.pass = 1 /\ c.asker = "read"
      <4>1. 0 \in 0..(LAST_DRIVE + 1)
        BY DriveFacts
      <4>2. c \in Call
        BY <3>2, <4>1 DEF Call
      <4>3. call[t].asker = "read"
        BY <2>2, <3>2 DEF Call
      <4> QED BY <3>2, <4>2, <4>3 DEF Call
    <3>4. kept' = [kept EXCEPT ![t] = kept[t]] /\ kept[t] \in Device
      BY <1>2, <2>2 DEF Answer
    <3> HIDE DEF c
    <3>5. FrameInv(c)
      BY <3>3 DEF FrameInv, Reads
    <3> QED BY <3>1, <3>3, <3>4, <3>5
  <2> QED BY <2>1, <2>2
<1>5. call'[t] = c
  BY <1>2, <1>4
<1>6. ThreadInv(t)'
  <2>1. FrameInv(call[t])'
    BY <1>1, <1>4, <1>5 DEF FrameInv, Reads
  <2>2. HomeInv(t)' /\ CandidateInv(t)'
    BY <1>4, <1>5 DEF HomeInv, CandidateInv
  <2> QED BY <1>3, <2>1, <2>2 DEF ThreadInv
<1> HIDE DEF NameInv, ThreadInv
<1> QED BY <1>4, <1>6, ThreadStep

(* The same without a name in the buffer.                                  *)
LEMMA AnswerByName ==
    ASSUME NameInv, NEW t \in Threads, call[t].pc \in {"default", "first"},
           NEW device \in Device, device.kind # "buffer", Answer(t, device),
           UNCHANGED <<System, default_device>>
    PROVE  NameInv'
<1>1. platform' = platform /\ UNCHANGED System
  BY DEF System
<1>2. call \in [Threads -> Call] /\ kept \in [Threads -> Device] /\ FrameInv(call[t])
  BY Types DEF NameInv, ThreadInv
<1>3. CASE call[t].asker = "client"
  <2>1. call' = [call EXCEPT ![t] = NoCall] /\ kept' = [kept EXCEPT ![t] = device]
    BY <1>3 DEF Answer, Return
  <2>2. call'[t] = NoCall /\ kept'[t] = device /\ NoCall.device.kind = "name"
    BY <1>2, <2>1 DEF NoCall, Named
  <2>3. ThreadInv(t)'
    <3>1. FrameInv(call[t])'
      BY <2>2 DEF NoCall, FrameInv, Reads
    <3>2. BufferInv(t)'
      BY <2>2 DEF BufferInv
    <3>3. HomeInv(t)' /\ CandidateInv(t)'
      BY <2>2 DEF HomeInv, CandidateInv, NoCall, Reads
    <3> QED BY <3>1, <3>2, <3>3 DEF ThreadInv
  <2>4. BufferOf(t) \in Threads \cup {Process}
    BY DEF BufferOf
  <2>5. /\ default_device' = [default_device EXCEPT ![BufferOf(t)] = default_device[BufferOf(t)]]
        /\ default_device[BufferOf(t)] \in Drives \cup {Nowhere}
    BY <2>4, Types DEF NameInv
  <2>6. platform = "bsd" => default_device[BufferOf(t)] \in {0, default_device[Process]}
    BY DEF BufferOf
  <2> HIDE DEF NameInv, ThreadInv
  <2> QED BY <1>1, <2>1, <2>3, <2>5, <2>6, NoCallType, ThreadStep
<1>4. CASE call[t].asker # "client"
  <2> DEFINE c == [call[t] EXCEPT !.pc = "resolve", !.device = device, !.k = 0]
  <2>1. call' = [call EXCEPT ![t] = c] /\ call'[t] = c /\ UNCHANGED kept
    BY <1>2, <1>4 DEF Answer
  <2>2. call[t] \in Call /\ call[t].pass = 1
    BY <1>2 DEF FrameInv
  <2>3. c \in Call /\ c.pc = "resolve" /\ c.pass = 1 /\ c.asker = "read" /\ c.device = device
    <3>1. 0 \in 0..(LAST_DRIVE + 1)
      BY DriveFacts
    <3>2. c \in Call
      BY <2>2, <3>1 DEF Call
    <3>3. call[t].asker = "read"
      BY <1>4, <2>2 DEF Call
    <3> QED BY <2>2, <3>2, <3>3 DEF Call
  <2> HIDE DEF c
  <2>4. FrameInv(c)
    BY <2>3 DEF FrameInv, Reads
  <2>5. HomeInv(t)' /\ CandidateInv(t)'
    BY <2>1, <2>3 DEF HomeInv, CandidateInv
  <2> HIDE DEF NameInv
  <2> QED BY <2>1, <2>3, <2>4, <2>5, CallStep
<1> QED BY <1>3, <1>4

(* mb_disc_get_default_device_unportable on each platform.                 *)
LEMMA DefaultKeepsInv ==
    ASSUME NameInv, NEW t \in Threads,
           \/ DefaultLink(t)
           \/ DefaultFirst(t)
           \/ DefaultBsd(t)
           \/ DefaultConstant(t)
           \/ DefaultCandidate(t)
    PROVE  NameInv'
<1>1. /\ call \in [Threads -> Call] /\ kept \in [Threads -> Device]
      /\ call[t] \in Call /\ FrameInv(call[t]) /\ AttachedOK
  BY Types DEF NameInv, ThreadInv
<1>2. /\ Named(Link) \in Device /\ Named(0) \in Device /\ Named(Nowhere) \in Device
      /\ InBuffer \in Device /\ Numbered(1) \in Device
      /\ \A d \in Drives : Named(d) \in Device
  BY DriveFacts DEF Named, InBuffer, Numbered, Device, Node
<1>3. (\A node : Named(node).kind = "name") /\ Numbered(1).kind = "number"
  BY DEF Named, Numbered
<1>4. ASSUME NEW label \in {"first"}, Goto(t, label), call[t].pc = "default", platform = "linux",
             UNCHANGED <<System, default_device, kept>>
      PROVE  NameInv'
  <2> DEFINE c == [call[t] EXCEPT !.pc = label]
  <2>1. call' = [call EXCEPT ![t] = c] /\ call'[t] = c
    BY <1>1, <1>4 DEF Goto
  <2>2. c \in Call /\ c.pc = "first" /\ c.device = call[t].device
    BY <1>1 DEF Call
  <2>3. FrameInv(c)
    <3>1. c.pass = 1
      BY <1>1, <1>4 DEF Call, FrameInv
    <3> HIDE DEF c
    <3> QED BY <1>4, <2>2, <3>1 DEF FrameInv, Reads
  <2> HIDE DEF c
  <2>4. HomeInv(t)' /\ CandidateInv(t)'
    BY <2>1, <2>2 DEF HomeInv, CandidateInv, Reads
  <2> HIDE DEF NameInv
  <2> QED BY <1>4, <2>1, <2>2, <2>3, <2>4, CallStep
<1>5. CASE DefaultLink(t)
  <2>1. CASE Exists(Link)
    BY <1>2, <1>3, <1>5, <2>1, AnswerByName DEF DefaultLink
  <2>2. CASE ~ Exists(Link)
    BY <1>4, <1>5, <2>2 DEF DefaultLink
  <2> QED BY <2>1, <2>2
<1>6. CASE DefaultFirst(t)
  <2>1. call[t].pc \in {"default", "first"} /\ platform \in {"linux", "windows"} /\ UNCHANGED System
    BY <1>1, <1>6 DEF DefaultFirst, FrameInv
  <2>2. CASE NthDrive(1) # Nowhere
    <3>1. NthDrive(1) \in Drives
      BY <1>1, <2>1, <2>2, DriveFacts, NthDriveIsThere DEF HasNumbers
    <3> HIDE DEF NameInv
    <3> QED BY <1>2, <1>6, <2>1, <2>2, <3>1, AnswerKeepsInv DEF DefaultFirst
  <2>3. CASE NthDrive(1) = Nowhere
    <3> DEFINE device == Named(IF platform = "linux" THEN Link ELSE 0)
    <3>1. device \in Device /\ device.kind = "name"
      BY <1>2, <1>3
    <3>2. Answer(t, device) /\ UNCHANGED default_device
      BY <1>6, <2>3 DEF DefaultFirst
    <3> HIDE DEF device, NameInv
    <3> QED BY <2>1, <3>1, <3>2, AnswerByName
  <2> QED BY <2>2, <2>3
<1>7. CASE DefaultBsd(t)
  BY <1>2, <1>7, DriveFacts, AnswerKeepsInv DEF DefaultBsd
<1>8. CASE DefaultConstant(t)
  <2> DEFINE device == IF platform = "darwin" THEN Numbered(1) ELSE Named(Nowhere)
  <2>1. device \in Device /\ device.kind # "buffer"
    BY <1>2, <1>3
  <2>2. /\ Answer(t, device) /\ UNCHANGED <<System, default_device>>
        /\ call[t].pc \in {"default", "first"}
    BY <1>8 DEF DefaultConstant
  <2> HIDE DEF device, NameInv
  <2> QED BY <2>1, <2>2, AnswerByName
<1>9. CASE DefaultCandidate(t)
  <2> DEFINE k == call[t].k
  <2>1. k \in Nat /\ k <= LAST_DRIVE + 1
    BY <1>1, DriveFacts DEF Call
  <2>2. CASE k \notin Drives
    BY <1>2, <1>3, <1>9, <2>2, AnswerByName DEF DefaultCandidate
  <2>3. CASE k \in Drives /\ Exists(k)
    BY <1>2, <1>3, <1>9, <2>3, AnswerByName DEF DefaultCandidate
  <2>4. CASE k \in Drives /\ ~ Exists(k)
    <3> DEFINE c == [call[t] EXCEPT !.k = k + 1]
    <3>1. /\ call' = [call EXCEPT ![t] = c] /\ call'[t] = c /\ call[t].pc = "default"
          /\ UNCHANGED <<System, default_device, kept>>
      BY <1>1, <1>9, <2>4 DEF DefaultCandidate
    <3>2. k + 1 \in 0..(LAST_DRIVE + 1)
      BY <2>1, <2>4, DriveFacts DEF Drives
    <3> HIDE DEF k
    <3>3. /\ c \in Call /\ c.k = k + 1 /\ c.pc = "default" /\ c.pass = call[t].pass
          /\ c.device = call[t].device /\ c.asker = call[t].asker /\ c.events = call[t].events
      BY <1>1, <3>1, <3>2 DEF Call
    <3> HIDE DEF c
    <3>4. FrameInv(c)
      BY <1>1, <3>1, <3>3 DEF FrameInv, Reads
    <3>5. HomeInv(t)'
      BY <3>1, <3>3 DEF HomeInv, Reads
    <3>6. CandidateInv(t)'
      <4>1. ~ Contains(attached, k)
        BY <1>1, <2>4, OpensDrive DEF Exists
      <4>2. attached' = attached
        BY <3>1 DEF System
      <4>3. CandidateInv(t)
        BY DEF NameInv, ThreadInv
      <4>4. \A d \in Drives : d < k + 1 => d < k \/ d = k
        BY <2>1, DriveFacts DEF k
      <4> QED BY <3>1, <3>3, <4>1, <4>2, <4>3, <4>4 DEF CandidateInv, k
    <3> HIDE DEF NameInv
    <3> QED BY <3>1, <3>3, <3>4, <3>5, <3>6, CallStep
  <2> QED BY <2>2, <2>3, <2>4
<1> QED BY <1>5, <1>6, <1>7, <1>8, <1>9

-----------------------------------------------------------------------------
(* A pass of a call goes on: its drive is where it was.                    *)
LEMMA HomeStays ==
    ASSUME NEW t, UNCHANGED <<System, default_device>>, call'[t].device = call[t].device
    PROVE  /\ Home(t)' = Home(t) /\ platform' = platform /\ attached' = attached
           /\ HasNumbers' = HasNumbers
<1>1. platform' = platform /\ link' = link /\ attached' = attached /\ UNCHANGED System
  BY DEF System
<1>2. BufferOf(t)' = BufferOf(t)
  BY <1>1 DEF BufferOf
<1> QED BY <1>1, <1>2, LookupsStay DEF Home

LEMMA ResolveKeepsInv ==
    ASSUME NameInv, NEW t \in Threads, ResolveName(t) \/ ResolveNumber(t) \/ NotImplemented(t)
    PROVE  NameInv'
<1>1. /\ call \in [Threads -> Call] /\ call[t] \in Call /\ FrameInv(call[t]) /\ HomeInv(t)
      /\ AttachedOK
  BY Types DEF NameInv, ThreadInv
<1>2. ASSUME NEW target \in Device,
             call' = [call EXCEPT ![t].pc = "open", ![t].target = target],
             UNCHANGED <<System, default_device, kept>>, call[t].pc = "resolve",
             IF ByNumber(call[t]) THEN target = Named(Home(t)) /\ Home(t) \in Drives
                                  ELSE target = call[t].device
      PROVE  NameInv'
  <2> DEFINE c == [call[t] EXCEPT !.pc = "open", !.target = target]
  <2>1. call' = [call EXCEPT ![t] = c] /\ call'[t] = c
    BY <1>1, <1>2
  <2>2. /\ c \in Call /\ c.pc = "open" /\ c.pass = call[t].pass /\ c.device = call[t].device
        /\ c.asker = call[t].asker /\ c.events = call[t].events /\ c.target = target
        /\ c.first = call[t].first
    BY <1>1, <1>2 DEF Call
  <2> HIDE DEF c
  <2>3. FrameInv(c)
    BY <1>1, <1>2, <2>2 DEF FrameInv, Reads
  <2>4. /\ Home(t)' = Home(t) /\ platform' = platform /\ attached' = attached
        /\ HasNumbers' = HasNumbers
    BY <1>2, <2>1, <2>2, HomeStays
  <2>5. (MayMove(call[t])' <=> MayMove(call[t])) /\ (ByNumber(call[t])' <=> ByNumber(call[t]))
    BY <2>1, <2>2, <2>4 DEF MayMove, ByNumber
  <2>6. HomeInv(t)'
    <3> HIDE DEF Home, MayMove, ByNumber
    <3>1. ~ MayMove(call[t]) /\ c.pass = 2 => c.first = Home(t)'
      BY <1>1, <1>2, <2>2, <2>4 DEF HomeInv, Reads
    <3> QED BY <1>2, <2>1, <2>2, <2>4, <2>5, <3>1 DEF HomeInv
  <2>7. CandidateInv(t)'
    BY <2>1, <2>2 DEF CandidateInv
  <2> HIDE DEF NameInv
  <2> QED BY <1>2, <2>1, <2>2, <2>3, <2>6, <2>7, CallStep
<1>3. CASE ResolveName(t)
  <2>1. ~ ByNumber(call[t]) /\ call[t].device \in Device
    BY <1>1, <1>3 DEF ResolveName, ByNumber, Call
  <2> QED BY <1>2, <1>3, <2>1 DEF ResolveName
<1>4. CASE ResolveNumber(t)
  <2> DEFINE n == call[t].device.of
             d == NthDrive(n)
  <2>1. n \in 1..(LAST_DRIVE + 1) /\ HasNumbers /\ call[t].device.kind = "number"
    BY <1>1, <1>4 DEF ResolveNumber, Call, Device
  <2>2. CASE d # Nowhere /\ call' = [call EXCEPT ![t].pc = "open", ![t].target = Named(d)]
    <3>1. d \in Drives
      BY <1>1, <2>1, <2>2, NthDriveIsThere
    <3>2. Home(t) = d
      <4>1. CASE platform = "bsd"
        <5>1. d = Opens(n - 1)
          BY <4>1, NthDriveCases DEF Unit
        <5>2. n - 1 # Link
          BY <2>1, DriveFacts DEF Link
        <5>3. d = n - 1
          BY <1>1, <2>2, <5>1, <5>2, OpensDrive
        <5> QED BY <2>1, <4>1, <5>3 DEF Home
      <4>2. CASE platform # "bsd"
        BY <2>1, <4>2 DEF Home
      <4> QED BY <4>1, <4>2
    <3>3. ByNumber(call[t]) /\ Named(d) \in Device
      BY <2>1, <3>1 DEF ByNumber, Named, Device, Node
    <3> HIDE DEF d
    <3> QED BY <1>2, <1>4, <2>2, <3>1, <3>2, <3>3 DEF ResolveNumber
  <2>3. CASE Return(t)
    BY <1>4, <2>3, ReturnKeepsInv DEF ResolveNumber
  <2> QED BY <1>4, <2>2, <2>3 DEF ResolveNumber
<1>5. CASE NotImplemented(t)
  BY <1>5, ReturnKeepsInv DEF NotImplemented
<1> QED BY <1>3, <1>4, <1>5

(* What is opened is the drive of the device, unless that has moved.       *)
LEMMA OpenKeepsInv ==
    ASSUME NameInv, NEW t \in Threads, Open(t)
    PROVE  NameInv'
<1>1. /\ call \in [Threads -> Call] /\ call[t] \in Call /\ FrameInv(call[t]) /\ HomeInv(t)
      /\ AttachedOK /\ default_device \in [Threads \cup {Process} -> Drives \cup {Nowhere}]
  BY Types DEF NameInv, ThreadInv
<1> DEFINE node == NameOf(t, call[t].target)
           d == Opens(node)
           c == [call[t] EXCEPT !.pc = "reading", !.drive = d]
<1>2. /\ call[t].pc = "open" /\ d # Nowhere /\ UNCHANGED <<System, default_device, kept>>
      /\ call' = [call EXCEPT ![t].pc = "reading", ![t].drive = d]
  BY DEF Open, Exists
<1>3. d \in Drives /\ d = IF node = Link THEN link ELSE node
  BY <1>1, <1>2, OpensDrive
<1> HIDE DEF d
<1>4. call' = [call EXCEPT ![t] = c] /\ call'[t] = c
  BY <1>1, <1>2
<1>5. /\ c \in Call /\ c.pc = "reading" /\ c.pass = call[t].pass /\ c.device = call[t].device
      /\ c.asker = call[t].asker /\ c.events = call[t].events /\ c.drive = d
      /\ c.first = call[t].first
  BY <1>1, <1>2, <1>3 DEF Call
<1> HIDE DEF c
<1>6. FrameInv(c)
  BY <1>1, <1>2, <1>5 DEF FrameInv, Reads
<1>7. /\ Home(t)' = Home(t) /\ platform' = platform /\ attached' = attached
      /\ HasNumbers' = HasNumbers
  BY <1>2, <1>4, <1>5, HomeStays
<1>8. MayMove(call[t])' <=> MayMove(call[t])
  BY <1>4, <1>5, <1>7 DEF MayMove
<1>9. ASSUME ~ MayMove(call[t]) PROVE d = Home(t)
  <2>1. CASE ByNumber(call[t])
    <3> HIDE DEF Home, MayMove, ByNumber
    <3>1. call[t].target = Named(Home(t)) /\ Home(t) \in Drives
      BY <1>1, <1>2, <1>9, <2>1 DEF HomeInv, Reads
    <3>2. node = Home(t)
      BY <3>1, NameOfCases DEF Named
    <3> QED BY <1>3, <3>1, <3>2, DriveFacts
  <2>2. CASE ~ ByNumber(call[t])
    <3>1. call[t].target = call[t].device
      <4> HIDE DEF Home, MayMove, ByNumber
      <4> QED BY <1>1, <1>2, <1>9, <2>2 DEF HomeInv, Reads
    <3>2. call[t].device \in Device
      BY <1>1 DEF Call
    <3>3. CASE call[t].device.kind = "name"
      BY <1>3, <3>1, <3>3, NameOfCases DEF Home
    <3>4. CASE call[t].device.kind = "buffer"
      <4>1. BufferOf(t) \in Threads \cup {Process}
        BY DEF BufferOf
      <4>2. node = default_device[BufferOf(t)] /\ node # Link
        BY <1>1, <3>1, <3>4, <4>1, DriveFacts, NameOfCases
      <4> QED BY <1>3, <3>4, <4>2 DEF Home
    <3>5. CASE call[t].device.kind = "number"
      BY <1>2, <1>3, <3>1, <3>5, DriveFacts, NameOfCases
    <3> QED BY <3>2, <3>3, <3>4, <3>5 DEF Device
  <2> QED BY <2>1, <2>2
<1>10. HomeInv(t)'
  <2> HIDE DEF Home, MayMove, ByNumber
  <2>1. ~ MayMove(call[t]) /\ c.pass = 2 => c.first = Home(t)'
    BY <1>1, <1>2, <1>5, <1>7 DEF HomeInv, Reads
  <2> QED BY <1>4, <1>5, <1>7, <1>8, <1>9, <2>1 DEF HomeInv
<1>11. CandidateInv(t)'
  BY <1>4, <1>5 DEF CandidateInv
<1> HIDE DEF NameInv
<1> QED BY <1>2, <1>4, <1>5, <1>6, <1>10, <1>11, CallStep

(* The pre-read is over, or the call is.                                   *)
LEMMA EndKeepsInv ==
    ASSUME NameInv, NEW t \in Threads, Fail(t) \/ PassEnds(t)
    PROVE  NameInv'
<1>1. /\ call \in [Threads -> Call] /\ call[t] \in Call /\ FrameInv(call[t]) /\ HomeInv(t)
  BY Types DEF NameInv, ThreadInv
<1>2. CASE Fail(t)
  BY <1>2, ReturnKeepsInv DEF Fail
<1>3. CASE PassEnds(t) /\ call[t].pass # 1
  BY <1>3, ReturnKeepsInv DEF PassEnds
<1>4. CASE PassEnds(t) /\ call[t].pass = 1
  <2> DEFINE c == [call[t] EXCEPT !.pc = "resolve", !.pass = 2, !.first = call[t].drive,
                                  !.target = Named(Nowhere), !.drive = Nowhere]
  <2>1. /\ call' = [call EXCEPT ![t] = c] /\ call'[t] = c /\ call[t].pc = "reading"
        /\ UNCHANGED <<System, default_device, kept>>
    BY <1>1, <1>4 DEF PassEnds
  <2>2. Named(Nowhere) \in Device
    BY DEF Named, Device, Node
  <2>3. c \in Call
    <3>1. call[t].drive \in Drives \cup {Nowhere} /\ 2 \in 1..2
      BY <1>1 DEF Call
    <3> QED BY <1>1, <2>2, <3>1 DEF Call
  <2>4. /\ c.pc = "resolve" /\ c.pass = 2 /\ c.device = call[t].device
        /\ c.asker = call[t].asker /\ c.events = call[t].events /\ c.first = call[t].drive
    BY <1>1 DEF Call
  <2> HIDE DEF c
  <2>5. FrameInv(c)
    BY <1>1, <2>1, <2>4 DEF FrameInv, Reads
  <2>6. Home(t)' = Home(t) /\ platform' = platform
    BY <2>1, <2>4, HomeStays
  <2>7. MayMove(call[t])' <=> MayMove(call[t])
    BY <2>1, <2>4, <2>6 DEF MayMove
  <2>8. HomeInv(t)'
    <3> HIDE DEF Home, MayMove, ByNumber
    <3>1. ~ MayMove(call[t]) => call[t].drive = Home(t)
      BY <1>1, <2>1 DEF HomeInv, Reads
    <3> QED BY <2>1, <2>4, <2>6, <2>7, <3>1 DEF HomeInv
  <2>9. CandidateInv(t)'
    BY <2>1, <2>4 DEF CandidateInv
  <2> HIDE DEF NameInv
  <2> QED BY <2>1, <2>3, <2>4, <2>5, <2>8, <2>9, CallStep
<1> QED BY <1>2, <1>3, <1>4

-----------------------------------------------------------------------------
(* Drives come and go.                                                     *)
CountingOK ==
    AttachedOK => \A n \in Nat :
        Counted(n) = IF n \in 1..Len(attached) THEN attached[n] ELSE Nowhere

(* The line of names is in order of age, now and after a step.             *)
LEMMA CountingStaysOK == CountingOK /\ CountingOK'
<1>1. CountingOK
  BY CountedInOrder DEF CountingOK
<1> QED BY <1>1, PTL

(* On Linux the drives keep their numbers when the list stays, or when one *)
(* is added to its end.                                                    *)
LEMMA NumbersStay ==
    ASSUME AttachedOK, AttachedOK', platform = "linux", platform' = platform, listed' = listed,
           Len(attached) <= Len(attached'),
           \A j \in 1..Len(attached) : attached'[j] = attached[j],
           NEW n \in Nat, NthDrive(n) # Nowhere
    PROVE  NthDrive(n)' = NthDrive(n)
<1>1. NthDrive(n)' = IF listed' THEN Counted(n)' ELSE Nowhere
  <2>1. platform' = "linux" => NthDrive(n)' = IF listed' THEN Counted(n)' ELSE Nowhere
    BY Zenon DEF NthDrive
  <2> QED BY <2>1
<1>2. NthDrive(n) = attached[n] /\ n \in 1..Len(attached) /\ listed
  BY NthDriveCases, CountedInOrder
<1>3. Len(attached) \in Nat /\ Len(attached') \in Nat
  BY DEF AttachedOK
<1>4. Counted(n)' = attached'[n]
  <2>1. n \in 1..Len(attached')
    BY <1>2, <1>3
  <2> QED BY <2>1, CountingStaysOK DEF CountingOK
<1> QED BY <1>1, <1>2, <1>4

(* A call that takes note of an event is where it was.                     *)
LEMMA NoticeFrame ==
    ASSUME NameInv, NEW event \in {"attach", "detach", "relink"}, Notice(event)
    PROVE  /\ call' \in [Threads -> Call]
           /\ \A t \in Threads :
                /\ call'[t] = [call[t] EXCEPT !.events = call'[t].events]
                /\ call'[t].events = IF Disturbs(event, call[t])
                                     THEN call[t].events \cup {event} ELSE call[t].events
                /\ call'[t].pc = call[t].pc /\ call'[t].asker = call[t].asker
                /\ call'[t].k = call[t].k /\ call'[t].pass = call[t].pass
                /\ call'[t].device = call[t].device /\ call'[t].target = call[t].target
                /\ call'[t].drive = call[t].drive /\ call'[t].first = call[t].first
<1>1. call \in [Threads -> Call]
  BY Types DEF NameInv
<1>2. \A c \in Call : /\ c = [c EXCEPT !.events = c.events]
                      /\ [c EXCEPT !.events = c.events \cup {event}] \in Call
  BY DEF Call
<1>3. \A c \in Call : \A e : [c EXCEPT !.events = e].events = e
  BY DEF Call
<1>4. ASSUME NEW t \in Threads
      PROVE  /\ call'[t] \in Call
             /\ call'[t] = [call[t] EXCEPT !.events = call'[t].events]
             /\ call'[t].events = IF Disturbs(event, call[t])
                                  THEN call[t].events \cup {event} ELSE call[t].events
  BY <1>1, <1>2, <1>3 DEF Notice
<1>5. ASSUME NEW t \in Threads
      PROVE  /\ call'[t].pc = call[t].pc /\ call'[t].asker = call[t].asker
             /\ call'[t].k = call[t].k /\ call'[t].pass = call[t].pass
             /\ call'[t].device = call[t].device /\ call'[t].target = call[t].target
             /\ call'[t].drive = call[t].drive /\ call'[t].first = call[t].first
  <2>1. PICK c \in Call : c = call[t]
    BY <1>1
  <2>2. PICK e : call'[t] = [c EXCEPT !.events = e]
    BY <1>4, <2>1
  <2> QED BY <2>1, <2>2 DEF Call
<1>6. call' \in [Threads -> Call]
  BY <1>4 DEF Notice
<1> QED BY <1>4, <1>5, <1>6

(* What an event must leave alone: the drives of calls it does not move,   *)
(* and the candidates that were not there.                                 *)
LEMMA EventKeepsInv ==
    ASSUME NameInv, NEW event \in {"attach", "detach", "relink"}, Notice(event),
           platform' = platform, listed' = listed, UNCHANGED <<default_device, kept>>,
           AttachedOK', link' \in Drives \cup {Nowhere},
           event # "attach" => \A d : Contains(attached, d)' => Contains(attached, d),
           \A t \in Threads : ~ MayMove(call[t])' /\ Reads(call[t]) /\ call[t].asker = "read"
                              /\ Home(t) # Nowhere
                                => Home(t)' = Home(t)
    PROVE  NameInv'
<1>1. /\ call \in [Threads -> Call]
      /\ default_device \in [Threads \cup {Process} -> Drives \cup {Nowhere}]
  BY Types DEF NameInv
<1>2. TypeOK'
  <2>1. call' \in [Threads -> Call]
    BY NoticeFrame
  <2> QED BY <2>1, Types DEF NameInv, TypeOK, AttachedOK, Call
<1>3. ASSUME NEW t \in Threads PROVE ThreadInv(t)'
  <2>1. call[t] \in Call /\ ThreadInv(t) /\ FrameInv(call[t]) /\ HomeInv(t)
    BY <1>1 DEF NameInv, ThreadInv
  <2>2. /\ call'[t] = [call[t] EXCEPT !.events = call'[t].events]
        /\ call'[t].events = IF Disturbs(event, call[t])
                             THEN call[t].events \cup {event} ELSE call[t].events
    BY NoticeFrame
  <2>3. /\ call'[t].pc = call[t].pc /\ call'[t].asker = call[t].asker
        /\ call'[t].k = call[t].k /\ call'[t].pass = call[t].pass
        /\ call'[t].device = call[t].device /\ call'[t].target = call[t].target
        /\ call'[t].drive = call[t].drive /\ call'[t].first = call[t].first
    BY NoticeFrame
  <2>4. FrameInv(call[t])'
    <3>1. call[t].pc = "idle" => call'[t] = call[t]
      BY <2>1, <2>2 DEF Disturbs, Call
    <3> QED BY <2>1, <2>3, <3>1 DEF FrameInv, Reads
  <2>5. BufferInv(t)'
    BY <2>1, <2>3 DEF ThreadInv, BufferInv
  <2>6. HomeInv(t)'
    <3>1. SUFFICES ASSUME Reads(call[t]), ~ MayMove(call[t])'
                   PROVE  /\ call[t].pass = 2 => call[t].first = Home(t)'
                          /\ call[t].pc = "reading" => call[t].drive = Home(t)'
                          /\ call[t].pc = "open" =>
                               IF ByNumber(call[t])
                               THEN call[t].target = Named(Home(t)') /\ Home(t)' \in Drives
                               ELSE call[t].target = call[t].device
      <4>1. ByNumber(call[t])' <=> ByNumber(call[t])
        BY <2>3 DEF ByNumber, HasNumbers
      <4>2. Reads(call[t])' <=> Reads(call[t])
        BY <2>3 DEF Reads
      <4> HIDE DEF Home, MayMove, ByNumber, Reads
      <4> QED BY <2>3, <4>1, <4>2 DEF HomeInv
    <3>2. ~ MayMove(call[t])
      BY <2>2, <2>3, <3>1 DEF MayMove
    <3>3. Home(t) # Nowhere => Home(t)' = Home(t)
      BY <2>1, <3>1 DEF FrameInv
    <3> HIDE DEF Home, MayMove, ByNumber
    <3> QED BY <2>1, <3>1, <3>2, <3>3, DriveFacts DEF HomeInv, FrameInv
  <2>7. CandidateInv(t)'
    <3>1. SUFFICES ASSUME call[t].pc = "default", call[t].asker = "client", call'[t].events = {}
                   PROVE  \A d \in Drives : d < call[t].k => ~ Contains(attached, d)'
      BY <2>3 DEF CandidateInv
    <3>2. event # "attach" /\ call[t].events = {}
      BY <2>2, <3>1 DEF Disturbs
    <3> QED BY <2>1, <3>1, <3>2 DEF ThreadInv, CandidateInv
  <2> QED BY <2>4, <2>5, <2>6, <2>7 DEF ThreadInv
<1> QED BY <1>2, <1>3 DEF NameInv

LEMMA AttachKeepsInv ==
    ASSUME NameInv, NEW d \in Drives, Attach(d)
    PROVE  NameInv'
<1>1. AttachedOK /\ call \in [Threads -> Call] /\ link \in Drives \cup {Nowhere}
  BY Types DEF NameInv
<1>2. PICK k \in 1..(Len(attached) + 1) :
         /\ platform # "darwin" => k = Len(attached) + 1
         /\ attached' = InsertAt(attached, k, d)
  BY DEF Attach
<1>3. /\ AttachedOK' /\ Len(attached') = Len(attached) + 1
      /\ \A j \in 1..(k - 1) : attached'[j] = attached[j]
  BY <1>1, <1>2, InsertedDrive DEF AttachedOK, Attach
<1>4. /\ Notice("attach") /\ platform' = platform /\ listed' = listed /\ link' = link
      /\ UNCHANGED <<default_device, kept>>
  BY DEF Attach
<1>5. ASSUME NEW t \in Threads, ~ MayMove(call[t])', Reads(call[t]), call[t].asker = "read",
             Home(t) # Nowhere
      PROVE  Home(t)' = Home(t)
  <2>1. /\ call[t] \in Call /\ call'[t].device = call[t].device
        /\ "attach" \in call'[t].events \/ ~ Disturbs("attach", call[t])
    BY <1>1, <1>4, NoticeFrame
  <2>2. CASE call[t].device.kind # "number"
    BY <1>4, <2>1, <2>2 DEF Home, BufferOf
  <2>3. CASE call[t].device.kind = "number" /\ platform = "bsd"
    BY <1>4, <2>1, <2>3 DEF Home
  <2>4. CASE call[t].device.kind = "number" /\ platform # "bsd"
    <3>1. "attach" \in call'[t].events
      BY <1>5, <2>1, <2>4 DEF Disturbs, Reads
    <3>2. platform = "linux"
      BY <1>4, <1>5, <2>1, <2>4, <3>1 DEF MayMove
    <3>3. PICK n \in Nat : call[t].device.of = n
      BY <2>1, <2>4 DEF Call, Device
    <3>4. Home(t) = NthDrive(n) /\ Home(t)' = NthDrive(n)'
      BY <1>4, <2>1, <2>4, <3>2, <3>3 DEF Home, HasNumbers
    <3>5. Len(attached) <= Len(attached') /\ \A j \in 1..Len(attached) : attached'[j] = attached[j]
      <4>1. Len(attached) \in Nat
        BY <1>1 DEF AttachedOK
      <4> QED BY <1>2, <1>3, <3>2, <4>1
    <3>6. NthDrive(n) # Nowhere /\ listed' = listed /\ platform' = platform
      BY <1>4, <1>5, <3>4
    <3> HIDE DEF Home
    <3>7. NthDrive(n)' = NthDrive(n)
      BY <1>1, <1>3, <3>2, <3>5, <3>6, NumbersStay
    <3> QED BY <3>4, <3>7
  <2> QED BY <2>2, <2>3, <2>4
<1> HIDE DEF NameInv, Home, MayMove
<1> QED BY <1>1, <1>3, <1>4, <1>5, EventKeepsInv

LEMMA DetachKeepsInv ==
    ASSUME NameInv, NEW d \in Drives, Detach(d)
    PROVE  NameInv'
<1>1. AttachedOK /\ call \in [Threads -> Call] /\ link \in Drives \cup {Nowhere}
  BY Types DEF NameInv
<1>2. PICK k \in DOMAIN attached : attached' = RemoveAt(attached, k)
  BY DEF Detach
<1>3. AttachedOK' /\ \A e : Contains(attached, e)' => Contains(attached, e)
  BY <1>1, <1>2, RemovedDrive DEF AttachedOK
<1>4. /\ Notice("detach") /\ platform' = platform /\ listed' = listed /\ link' = link
      /\ UNCHANGED <<default_device, kept>>
  BY DEF Detach
<1>5. ASSUME NEW t \in Threads, ~ MayMove(call[t])', Reads(call[t]), call[t].asker = "read",
             Home(t) # Nowhere
      PROVE  Home(t)' = Home(t)
  <2>1. /\ call'[t].device = call[t].device
        /\ "detach" \in call'[t].events \/ ~ Disturbs("detach", call[t])
    BY <1>1, <1>4, NoticeFrame
  <2>2. CASE call[t].device.kind # "number"
    BY <1>4, <2>1, <2>2 DEF Home, BufferOf
  <2>3. CASE call[t].device.kind = "number" /\ platform = "bsd"
    BY <1>4, <2>1, <2>3 DEF Home
  <2>4. CASE call[t].device.kind = "number" /\ platform # "bsd"
    BY <1>4, <1>5, <2>1, <2>4 DEF Disturbs, Reads, MayMove
  <2> QED BY <2>2, <2>3, <2>4
<1> HIDE DEF NameInv, Home, MayMove
<1> QED BY <1>1, <1>3, <1>4, <1>5, EventKeepsInv

LEMMA RelinkKeepsInv ==
    ASSUME NameInv, NEW d \in Drives \cup {Nowhere}, Relink(d)
    PROVE  NameInv'
<1>1. AttachedOK /\ call \in [Threads -> Call]
  BY Types DEF NameInv
<1>2. /\ Notice("relink") /\ platform' = platform /\ listed' = listed /\ attached' = attached
      /\ link' = d /\ UNCHANGED <<default_device, kept>> /\ platform = "linux"
  BY DEF Relink
<1>3. AttachedOK' /\ \A e : Contains(attached, e)' => Contains(attached, e)
  BY <1>1, <1>2 DEF AttachedOK
<1>4. ASSUME NEW t \in Threads, ~ MayMove(call[t])', Reads(call[t]), call[t].asker = "read",
             Home(t) # Nowhere
      PROVE  Home(t)' = Home(t)
  <2>1. /\ call[t] \in Call /\ call'[t].device = call[t].device
        /\ "relink" \in call'[t].events \/ ~ Disturbs("relink", call[t])
    BY <1>1, <1>2, NoticeFrame
  <2>2. CASE call[t].device.kind = "buffer"
    BY <1>2, <2>1, <2>2 DEF Home, BufferOf
  <2>3. CASE call[t].device.kind = "name"
    <3>1. call[t].device.of # Link
      <4>1. call[t].device # Named(Link)
        BY <1>2, <1>4, <2>1 DEF Disturbs, Reads, MayMove
      <4>2. call[t].device = Named(call[t].device.of)
        BY <2>1, <2>3 DEF Call, Device, Named
      <4> QED BY <4>1, <4>2
    <3> QED BY <1>2, <2>1, <2>3, <3>1 DEF Home
  <2>4. CASE call[t].device.kind = "number"
    <3>1. PICK n \in Nat : call[t].device.of = n
      BY <2>1, <2>4 DEF Call, Device
    <3>2. Home(t) = NthDrive(n) /\ Home(t)' = NthDrive(n)'
      BY <1>2, <2>1, <2>4, <3>1 DEF Home, HasNumbers
    <3>3. Len(attached) <= Len(attached') /\ \A j \in 1..Len(attached) : attached'[j] = attached[j]
      BY <1>1, <1>2 DEF AttachedOK
    <3>4. NthDrive(n) # Nowhere /\ listed' = listed /\ platform' = platform
      BY <1>2, <1>4, <3>2
    <3> HIDE DEF Home
    <3>5. NthDrive(n)' = NthDrive(n)
      BY <1>1, <1>2, <1>3, <3>3, <3>4, NumbersStay
    <3> QED BY <3>2, <3>5
  <2> QED BY <2>1, <2>2, <2>3, <2>4 DEF Call, Device
<1> HIDE DEF NameInv, Home, MayMove
<1> QED BY <1>2, <1>3, <1>4, EventKeepsInv

-----------------------------------------------------------------------------
(* The invariant holds in every state.                                     *)
LEMMA InitNameInv == Init => NameInv
<1> SUFFICES ASSUME Init PROVE NameInv
  OBVIOUS
<1>1. attached \in Seq(Drives) /\ IsInjective(attached)
  BY DEF Init, IsInjective
<1>2. Named(Nowhere) \in Device /\ NoCall \in Call
  BY NoCallType DEF Named, Device, Node
<1>3. TypeOK
  BY <1>1, <1>2, Types DEF Init, AttachedOK
<1>4. ASSUME NEW t \in Threads PROVE ThreadInv(t)
  <2>1. call[t] = NoCall /\ kept[t] = Named(Nowhere)
    BY <1>4 DEF Init
  <2>2. NoCall.pc = "idle" /\ NoCall.device.kind = "name" /\ Named(Nowhere).kind = "name"
    BY DEF NoCall, Named
  <2>3. FrameInv(call[t])
    BY <2>1, NoCallType
  <2> QED BY <2>1, <2>2, <2>3 DEF ThreadInv, BufferInv, HomeInv, CandidateInv, Reads
<1> QED BY <1>3, <1>4 DEF NameInv

LEMMA NextNameInv == NameInv /\ [Next]_vars => NameInv'
<1> SUFFICES ASSUME NameInv, [Next]_vars PROVE NameInv'
  OBVIOUS
<1>1. CASE \E d \in Drives : Attach(d) \/ Detach(d)
  BY <1>1, AttachKeepsInv, DetachKeepsInv
<1>2. CASE \E d \in Drives \cup {Nowhere} : Relink(d)
  BY <1>2, RelinkKeepsInv
<1>3. CASE \E t \in Threads : \/ GetDefault(t)
                              \/ ReadDefault(t) \/ Read(t, kept[t])
                              \/ \E d \in Drives : Read(t, Named(d)) \/ Read(t, Numbered(d + 1))
  BY <1>3, BeginKeepsInv
<1>4. CASE \E t \in Threads : \/ DefaultLink(t) \/ DefaultFirst(t) \/ DefaultBsd(t)
                              \/ DefaultConstant(t) \/ DefaultCandidate(t)
  BY <1>4, DefaultKeepsInv
<1>5. CASE \E t \in Threads : \/ ResolveName(t) \/ ResolveNumber(t) \/ NotImplemented(t)
                              \/ Open(t) \/ Fail(t) \/ PassEnds(t)
  BY <1>5, ResolveKeepsInv, OpenKeepsInv, EndKeepsInv
<1>6. CASE UNCHANGED vars
  <2>1. UNCHANGED <<platform, listed, attached, link, default_device, call, kept>>
    BY <1>6 DEF vars
  <2>2. TypeOK'
    BY <2>1, Types DEF NameInv, TypeOK, AttachedOK, Call
  <2>3. ASSUME NEW t \in Threads PROVE ThreadInv(t)'
    <3>1. UNCHANGED <<System, default_device>> /\ call'[t].device = call[t].device
      BY <2>1 DEF System
    <3>2. Home(t)' = Home(t) /\ HasNumbers' = HasNumbers
      BY <3>1, HomeStays
    <3>3. /\ MayMove(call[t])' <=> MayMove(call[t])
          /\ ByNumber(call[t])' <=> ByNumber(call[t])
      BY <2>1, <3>2 DEF MayMove, ByNumber
    <3>4. ThreadInv(t)
      BY DEF NameInv
    <3>5. HomeInv(t)'
      <4> HIDE DEF Home, MayMove, ByNumber
      <4> QED BY <2>1, <3>2, <3>3, <3>4 DEF ThreadInv, HomeInv, Reads
    <3> QED BY <2>1, <3>4, <3>5 DEF ThreadInv, FrameInv, BufferInv, CandidateInv, Reads
  <2> QED BY <2>2, <2>3 DEF NameInv
<1>7. Readers \subseteq Threads
  BY NameConstants
<1> QED BY <1>1, <1>2, <1>3, <1>4, <1>5, <1>6, <1>7 DEF Next

LEMMA NameInvHolds == Spec => []NameInv
BY InitNameInv, NextNameInv, PTL DEF Spec

(* Every device, name and drive is one there can be.                       *)
THEOREM TypeCorrect == Spec => []TypeOK
<1>1. NameInv => TypeOK
  BY DEF NameInv
<1> QED BY <1>1, NameInvHolds, PTL

(* disc.c:175-180: the drive that the pre-read settles is the drive whose  *)
(* disc the final read takes, however many drives and threads there are,   *)
(* unless the number or the link that the client gave has come to stand    *)
(* for another drive.                                                      *)
THEOREM PassesReadOneDrive == Spec => []BothPassesReadOneDrive
<1>1. NameInv => BothPassesReadOneDrive
  <2> SUFFICES ASSUME NameInv, NEW t \in Threads, call[t].pc = "reading", call[t].pass = 2,
                      ~ MayMove(call[t])
               PROVE  call[t].drive = call[t].first
    BY DEF BothPassesReadOneDrive
  <2>1. HomeInv(t)
    BY DEF NameInv, ThreadInv
  <2> HIDE DEF Home, MayMove
  <2> QED BY <2>1 DEF HomeInv, Reads
<1> QED BY <1>1, NameInvHolds, PTL

-----------------------------------------------------------------------------
(* A thread that is not given a default device keeps what it was given,    *)
(* and nobody writes over a name in the buffer it has a pointer to.        *)
LEMMA KeptStep ==
    ASSUME NameInv, Next, NEW t \in Threads, ~ Asks(t), kept[t].kind = "buffer"
    PROVE  /\ kept'[t] = kept[t] /\ platform' = platform
           /\ default_device'[BufferOf(t)] = default_device[BufferOf(t)]
<1>1. /\ call \in [Threads -> Call] /\ kept \in [Threads -> Device] /\ BufferInv(t)
      /\ default_device \in [Threads \cup {Process} -> Drives \cup {Nowhere}]
  BY Types DEF NameInv, ThreadInv
<1>2. ASSUME platform' = platform, UNCHANGED <<default_device, kept>>
      PROVE  /\ kept'[t] = kept[t] /\ platform' = platform
             /\ default_device'[BufferOf(t)] = default_device[BufferOf(t)]
  BY <1>2
<1>3. ASSUME NEW u \in Threads, NEW device, Answer(u, device), call[u].pc \in {"default", "first"}
      PROVE  u # t /\ kept'[t] = kept[t]
  <2>1. call'[u].pc # call[u].pc
    <3>1. NoCall.pc = "idle"
      BY DEF NoCall
    <3>2. CASE call[u].asker = "client"
      BY <1>1, <1>3, <3>1, <3>2 DEF Answer, Return
    <3>3. CASE call[u].asker # "client"
      <4>1. call' = [call EXCEPT ![u].pc = "resolve", ![u].device = device, ![u].k = 0]
        BY <1>1, <1>3, <3>3 DEF Answer
      <4>2. PICK c \in Call : c = call[u]
        BY <1>1
      <4>3. call'[u] = [c EXCEPT !.pc = "resolve", !.device = device, !.k = 0]
        BY <1>1, <4>1, <4>2
      <4>4. call'[u].pc = "resolve"
        BY <4>3 DEF Call
      <4> QED BY <1>3, <4>4
    <3> QED BY <3>2, <3>3
  <2>2. u # t
    BY <1>3, <2>1 DEF Asks
  <2>3. kept' = kept \/ kept' = [kept EXCEPT ![u] = device]
    BY <1>3 DEF Answer
  <2> QED BY <1>1, <2>2, <2>3
<1>4. ASSUME NEW u \in Threads, u # t, NEW d,
             default_device' = [default_device EXCEPT ![BufferOf(u)] = d], platform = "bsd" => d = 0
      PROVE  default_device'[BufferOf(t)] = default_device[BufferOf(t)]
  BY <1>1, <1>4 DEF BufferOf, BufferInv
<1>5. CASE \E d \in Drives : Attach(d) \/ Detach(d)
  BY <1>2, <1>5 DEF Attach, Detach
<1>6. CASE \E d \in Drives \cup {Nowhere} : Relink(d)
  BY <1>2, <1>6 DEF Relink
<1>7. CASE \E u \in Readers : \/ ReadDefault(u) \/ Read(u, kept[u])
                              \/ \E d \in Drives : Read(u, Named(d)) \/ Read(u, Numbered(d + 1))
  BY <1>2, <1>7 DEF ReadDefault, Read, System
<1>8. ASSUME NEW u \in Threads,
             \/ GetDefault(u) \/ ResolveName(u) \/ ResolveNumber(u) \/ NotImplemented(u)
             \/ Open(u) \/ Fail(u) \/ PassEnds(u)
      PROVE  platform' = platform /\ UNCHANGED <<default_device, kept>>
  BY <1>8 DEF GetDefault, ResolveName, ResolveNumber, NotImplemented, Open, Fail, PassEnds, System
<1>9. ASSUME NEW u \in Threads, DefaultLink(u) \/ DefaultConstant(u) \/ DefaultCandidate(u)
      PROVE  kept'[t] = kept[t] /\ platform' = platform /\ UNCHANGED default_device
  <2>1. CASE DefaultLink(u)
    BY <1>3, <2>1 DEF DefaultLink, System
  <2>2. CASE DefaultConstant(u)
    BY <1>3, <2>2 DEF DefaultConstant, System
  <2>3. CASE DefaultCandidate(u)
    BY <1>3, <2>3 DEF DefaultCandidate, System
  <2> QED BY <1>9, <2>1, <2>2, <2>3
<1>10. ASSUME NEW u \in Threads, DefaultFirst(u) \/ DefaultBsd(u)
       PROVE  /\ kept'[t] = kept[t] /\ platform' = platform
              /\ default_device'[BufferOf(t)] = default_device[BufferOf(t)]
  <2>1. CASE DefaultBsd(u)
    <3>1. u # t /\ kept'[t] = kept[t]
      BY <1>3, <2>1 DEF DefaultBsd
    <3> QED BY <1>4, <2>1, <3>1 DEF DefaultBsd, System
  <2>2. CASE DefaultFirst(u)
    <3>1. call[u].pc \in {"default", "first"} /\ platform # "bsd" /\ platform' = platform
      BY <2>2 DEF DefaultFirst, NameInv, ThreadInv, FrameInv, System
    <3>2. CASE NthDrive(1) # Nowhere
      <4>1. u # t /\ kept'[t] = kept[t]
        BY <1>3, <2>2, <3>1, <3>2 DEF DefaultFirst
      <4> QED BY <1>4, <2>2, <3>1, <3>2, <4>1 DEF DefaultFirst
    <3>3. CASE NthDrive(1) = Nowhere
      BY <1>3, <2>2, <3>1, <3>3 DEF DefaultFirst
    <3> QED BY <3>2, <3>3
  <2> QED BY <1>10, <2>1, <2>2
<1> QED BY <1>2, <1>5, <1>6, <1>7, <1>8, <1>9, <1>10 DEF Next

(* discid.h.in:328-336: the name a thread saved stays what it is until     *)
(* that thread asks for the default again or reads it: each thread has a   *)
(* buffer of its own, or all that is ever written to the buffer is cd0.    *)
THEOREM KeptNamesAreStable == Spec => KeptNameIsStable
<1>1. ASSUME NameInv, [Next]_vars, NEW t \in Threads, kept[t].kind = "buffer", ~ Asks(t)
      PROVE  NameOf(t, kept[t])' = NameOf(t, kept[t])
  <2>1. /\ kept'[t] = kept[t] /\ platform' = platform
        /\ default_device'[BufferOf(t)] = default_device[BufferOf(t)]
    <3>1. CASE UNCHANGED vars
      BY <3>1 DEF vars
    <3>2. CASE Next
      BY <1>1, <3>2, KeptStep
    <3> QED BY <1>1, <3>1, <3>2
  <2>2. NameOf(t, kept[t]) = default_device[BufferOf(t)]
    BY <1>1, NameOfCases
  <2>3. kept'[t].kind = "buffer" => NameOf(t, kept[t])' = default_device'[BufferOf(t)']
    BY Zenon DEF NameOf
  <2>4. BufferOf(t)' = BufferOf(t)
    BY <2>1 DEF BufferOf
  <2> QED BY <1>1, <2>1, <2>2, <2>3, <2>4
<1>2. NameInv /\ [Next]_vars
        => [\A t \in Threads : kept[t].kind = "buffer" /\ ~ Asks(t)
                => NameOf(t, kept[t])' = NameOf(t, kept[t])]_vars
  BY <1>1
<1> QED BY <1>2, NameInvHolds, PTL DEF Spec, KeptNameIsStable

-----------------------------------------------------------------------------
(* What the default device that a client was given stands for.             *)
Present(t) ==
    IF kept'[t].kind = "number" THEN NthDrive(kept'[t].of) # Nowhere
                                ELSE Opens(NameOf(t, kept[t])') # Nowhere

(* A client is answered.                                                   *)
LEMMA AnsweredClient ==
    ASSUME NameInv, NEW t \in Threads, call[t].asker = "client", NEW device, Answer(t, device)
    PROVE  /\ kept'[t] = device
           /\ device.kind = "name" => NameOf(t, kept[t])' = device.of
           /\ device.kind = "buffer" /\ platform' = platform
                => NameOf(t, kept[t])' = default_device'[BufferOf(t)]
<1>1. kept'[t] = device
  BY Types DEF NameInv, Answer
<1>2. kept'[t].kind = "name" => NameOf(t, kept[t])' = kept'[t].of
  BY Zenon DEF NameOf
<1>3. kept'[t].kind = "buffer" => NameOf(t, kept[t])' = default_device'[BufferOf(t)']
  BY Zenon DEF NameOf
<1>4. platform' = platform => BufferOf(t)' = BufferOf(t)
  BY DEF BufferOf
<1> QED BY <1>1, <1>2, <1>3, <1>4

(* On each platform the default that is returned is there, when a drive is *)
(* that the platform can name.                                             *)
LEMMA DefaultStep ==
    ASSUME NameInv, NEW t \in Threads, call[t].asker = "client", call[t].events = {},
           call'[t].pc = "idle", NEW d \in Drives, Contains(attached, d), CanName(d),
           \/ DefaultLink(t) \/ DefaultFirst(t) \/ DefaultBsd(t)
           \/ DefaultConstant(t) \/ DefaultCandidate(t)
    PROVE  Present(t)
<1>1. /\ AttachedOK /\ call \in [Threads -> Call] /\ call[t] \in Call /\ FrameInv(call[t])
      /\ default_device \in [Threads \cup {Process} -> Drives \cup {Nowhere}]
  BY Types DEF NameInv, ThreadInv
<1>2. attached # <<>>
  BY DEF Contains
<1>3. /\ Named(Link).kind = "name" /\ Named(Link).of = Link
      /\ \A e : Named(e).kind = "name" /\ Named(e).of = e
      /\ InBuffer.kind = "buffer" /\ Numbered(1).kind = "number" /\ Numbered(1).of = 1
  BY DEF Named, InBuffer, Numbered
<1>4. ASSUME NEW e, Answer(t, Named(e)), Opens(e) # Nowhere PROVE Present(t)
  BY <1>3, <1>4, AnsweredClient DEF Present
<1>5. BufferOf(t) \in Threads \cup {Process}
  BY DEF BufferOf
<1>6. ASSUME Answer(t, InBuffer), platform' = platform, NEW e \in Drives, Contains(attached, e),
             default_device' = [default_device EXCEPT ![BufferOf(t)] = e]
      PROVE  Present(t)
  <2>1. default_device'[BufferOf(t)] = e
    BY <1>1, <1>5, <1>6
  <2>2. kept'[t].kind = "buffer" /\ NameOf(t, kept[t])' = e
    BY <1>3, <1>6, <2>1, AnsweredClient
  <2>3. Opens(e) # Nowhere
    BY <1>1, <1>6, OpensDrive
  <2> QED BY <2>2, <2>3 DEF Present
<1>7. CASE DefaultLink(t)
  <2>1. Exists(Link)
    <3>1. ASSUME Goto(t, "first") PROVE FALSE
      <4>1. PICK c \in Call : c = call[t]
        BY <1>1
      <4>2. call'[t] = [c EXCEPT !.pc = "first"]
        BY <1>1, <3>1, <4>1 DEF Goto
      <4>3. call'[t].pc = "first"
        BY <4>2 DEF Call
      <4> QED BY <4>3
    <3> QED BY <1>7, <3>1 DEF DefaultLink
  <2> QED BY <1>4, <1>7, <2>1 DEF DefaultLink, Exists
<1>8. CASE DefaultFirst(t)
  <2>1. platform \in {"linux", "windows"} /\ platform' = platform
    BY <1>1, <1>8 DEF DefaultFirst, FrameInv, System
  <2>2. CASE NthDrive(1) # Nowhere
    <3>1. NthDrive(1) \in Drives /\ Contains(attached, NthDrive(1))
      BY <1>1, <2>1, <2>2, DriveFacts, NthDriveIsThere DEF HasNumbers
    <3> QED BY <1>6, <1>8, <2>1, <2>2, <3>1 DEF DefaultFirst
  <2>3. CASE NthDrive(1) = Nowhere
    <3>1. platform = "linux" /\ d = link
      BY <1>1, <1>2, <2>1, <2>3, FirstDriveIsThere DEF CanName
    <3>2. Answer(t, Named(Link))
      BY <1>8, <2>3, <3>1 DEF DefaultFirst
    <3>3. Opens(Link) # Nowhere
      BY <3>1, DriveFacts DEF Opens
    <3> QED BY <1>4, <3>2, <3>3
  <2> QED BY <2>2, <2>3
<1>9. CASE DefaultBsd(t)
  <2>1. d = 0 /\ platform' = platform
    BY <1>9 DEF DefaultBsd, CanName, System
  <2> QED BY <1>6, <1>9, <2>1 DEF DefaultBsd
<1>10. CASE DefaultConstant(t)
  <2>1. platform = "darwin"
    BY <1>10 DEF DefaultConstant, CanName
  <2>2. Answer(t, Numbered(1))
    BY <1>10, <2>1 DEF DefaultConstant
  <2>3. NthDrive(1) # Nowhere
    BY <1>1, <1>2, <2>1, FirstDriveIsThere
  <2> QED BY <1>3, <2>2, <2>3, AnsweredClient DEF Present
<1>11. CASE DefaultCandidate(t)
  <2> DEFINE k == call[t].k
  <2>1. k \in Nat /\ k <= LAST_DRIVE + 1 /\ call[t].pc = "default"
    BY <1>1, <1>11, DriveFacts DEF Call, DefaultCandidate
  <2>2. CASE k \notin Drives
    <3>1. d < k
      BY <2>1, <2>2, DriveFacts DEF Drives
    <3>2. ~ Contains(attached, d)
      BY <2>1, <3>1 DEF NameInv, ThreadInv, CandidateInv
    <3> QED BY <3>2
  <2>3. CASE k \in Drives /\ Exists(k)
    BY <1>4, <1>11, <2>3 DEF DefaultCandidate, Exists
  <2>4. CASE k \in Drives /\ ~ Exists(k)
    <3>1. PICK c \in Call : c = call[t]
      BY <1>1
    <3>2. call'[t] = [c EXCEPT !.k = k + 1]
      BY <1>1, <1>11, <2>4, <3>1 DEF DefaultCandidate
    <3>3. call'[t].pc = "default"
      BY <2>1, <3>1, <3>2 DEF Call
    <3> QED BY <3>3
  <2> QED BY <2>2, <2>3, <2>4
<1> QED BY <1>7, <1>8, <1>9, <1>10, <1>11

(* Only a step of a thread ends its call.                                  *)
LEMMA OthersDoNotEndCall ==
    ASSUME NameInv, [Next]_vars, NEW t \in Threads, call[t].pc \in {"default", "first"},
           call'[t].pc = "idle"
    PROVE  \/ DefaultLink(t) \/ DefaultFirst(t) \/ DefaultBsd(t)
           \/ DefaultConstant(t) \/ DefaultCandidate(t)
<1>1. call \in [Threads -> Call] /\ Readers \subseteq Threads
  BY Types, NameConstants DEF NameInv
<1>2. call' # call
  OBVIOUS
<1>3. CASE \E d \in Drives : Attach(d) \/ Detach(d)
  <2>1. Notice("attach") \/ Notice("detach")
    BY <1>3 DEF Attach, Detach
  <2>2. call'[t].pc = call[t].pc
    BY <2>1, NoticeFrame
  <2> QED BY <2>2
<1>4. CASE \E d \in Drives \cup {Nowhere} : Relink(d)
  <2>1. Notice("relink")
    BY <1>4 DEF Relink
  <2>2. call'[t].pc = call[t].pc
    BY <2>1, NoticeFrame
  <2> QED BY <2>2
<1>5. ASSUME NEW u \in Threads, u # t, NEW c, call' = [call EXCEPT ![u] = c] PROVE FALSE
  BY <1>1, <1>5
<1>6. CASE \E u \in Readers : \/ ReadDefault(u) \/ Read(u, kept[u])
                              \/ \E d \in Drives : Read(u, Named(d)) \/ Read(u, Numbered(d + 1))
  <2>1. PICK u \in Threads : \E device : ReadDefault(u) \/ Read(u, device)
    BY <1>1, <1>6
  <2>2. u # t
    BY <2>1 DEF ReadDefault, Read
  <2> QED BY <1>1, <2>1, <2>2 DEF ReadDefault, Read
<1>7. ASSUME NEW u \in Threads,
             \/ GetDefault(u) \/ ResolveName(u) \/ ResolveNumber(u) \/ NotImplemented(u)
             \/ Open(u) \/ Fail(u) \/ PassEnds(u)
      PROVE  FALSE
  <2>1. u # t
    BY <1>7 DEF GetDefault, ResolveName, ResolveNumber, NotImplemented, Open, Fail, PassEnds
  <2>2. call'[t] = call[t]
    BY <1>1, <1>7, <2>1
       DEF GetDefault, ResolveName, ResolveNumber, NotImplemented, Open, Fail, PassEnds, Return
  <2> QED BY <2>2
<1>8. ASSUME NEW u \in Threads, u # t,
             \/ DefaultLink(u) \/ DefaultFirst(u) \/ DefaultBsd(u)
             \/ DefaultConstant(u) \/ DefaultCandidate(u)
      PROVE  FALSE
  <2>1. \/ Goto(u, "first")
        \/ \E device : Answer(u, device)
        \/ call' = [call EXCEPT ![u].k = call[u].k + 1]
    BY <1>8 DEF DefaultLink, DefaultFirst, DefaultBsd, DefaultConstant, DefaultCandidate
  <2>2. call'[t] = call[t]
    BY <1>1, <1>8, <2>1 DEF Goto, Answer, Return
  <2> QED BY <2>2
<1> QED BY <1>2, <1>3, <1>4, <1>6, <1>7, <1>8 DEF Next, vars

(* discid_get_default_device: when a platform can name a drive that is     *)
(* there, the default device is one that is there, unless a drive came     *)
(* during the call; on Haiku and Solaris the loop has seen them all.       *)
THEOREM DefaultsArePresent == Spec => DefaultIsPresent
<1>1. ASSUME NameInv, [Next]_vars, NEW t \in Threads, call[t].pc # "idle", call'[t].pc = "idle",
             call[t].asker = "client", call[t].events = {}, \E d \in ToSet(attached) : CanName(d)
      PROVE  Present(t)
  <2>1. call[t] \in Call /\ FrameInv(call[t]) /\ AttachedOK
    BY <1>1, Types DEF NameInv, ThreadInv
  <2>2. call[t].pc \in {"default", "first"}
    BY <1>1, <2>1 DEF Call, FrameInv, Reads
  <2>3. PICK d \in ToSet(attached) : CanName(d)
    BY <1>1
  <2>4. d \in Drives /\ Contains(attached, d)
    BY <2>1 DEF ToSet, Contains, AttachedOK
  <2>5. \/ DefaultLink(t) \/ DefaultFirst(t) \/ DefaultBsd(t)
        \/ DefaultConstant(t) \/ DefaultCandidate(t)
    BY <1>1, <2>2, OthersDoNotEndCall
  <2> QED BY <1>1, <2>3, <2>4, <2>5, DefaultStep
<1>2. NameInv /\ [Next]_vars
        => [\A t \in Threads :
               /\ call[t].pc # "idle" /\ call'[t].pc = "idle" /\ call[t].asker = "client"
               /\ call[t].events = {} /\ \E d \in ToSet(attached) : CanName(d)
               => IF kept'[t].kind = "number" THEN NthDrive(kept'[t].of) # Nowhere
                  ELSE Opens(NameOf(t, kept[t])') # Nowhere]_vars
  BY <1>1 DEF Present
<1> QED BY <1>2, NameInvHolds, PTL DEF Spec, DefaultIsPresent
=============================================================================
