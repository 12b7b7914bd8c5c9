---------------------------- MODULE Sha1FeedProofs ----------------------------
(***************************************************************************)
(* The digest is that of the padded message of the standard, for any       *)
(* client: whatever the pieces and their lengths, for any size of a block, *)
(* any number of bytes in a word and also when the low word of the length  *)
(* has wrapped.  FeedInv relates at each place in sha_update and sha_final *)
(* the bytes that were taken to the blocks of the digest and to the one    *)
(* that is being filled, and the two words to the bits that were given.    *)
(***************************************************************************)
EXTENDS Sha1Feed, SequenceTheorems, TLAPS

(* Division with a remainder, for divisors that are not numerals.          *)
LEMMA DivMod ==
    ASSUME NEW a \in Nat, NEW d \in Nat \ {0}
    PROVE  a = d * (a \div d) + (a % d) /\ a % d \in 0..(d - 1) /\ a \div d \in Nat
OBVIOUS

LEMMA RemainderIsUnique ==
    ASSUME NEW d \in Nat \ {0}, NEW q1 \in Int, NEW q2 \in Int,
           NEW r1 \in 0..(d - 1), NEW r2 \in 0..(d - 1), d * q1 + r1 = d * q2 + r2
    PROVE  q1 = q2 /\ r1 = r2
<1>1. q1 < q2 => d * (q2 - q1) >= d  OBVIOUS
<1>2. q1 > q2 => d * (q1 - q2) >= d  OBVIOUS
<1>3. d * (q2 - q1) = r1 - r2 /\ d * (q1 - q2) = r2 - r1  OBVIOUS
<1> QED  BY <1>1, <1>2, <1>3

LEMMA DivUnique ==
    ASSUME NEW d \in Nat \ {0}, NEW q \in Nat, NEW r \in 0..(d - 1)
    PROVE  (d * q + r) \div d = q /\ (d * q + r) % d = r
<1> DEFINE a == d * q + r
<1>1. a \in Nat  OBVIOUS
<1> HIDE DEF a
<1> DEFINE q1 == a \div d
           r1 == a % d
<1>2. d * q1 + r1 = d * q + r /\ q1 \in Nat /\ r1 \in 0..(d - 1)
      BY <1>1, DivMod DEF a
<1> HIDE DEF q1, r1
<1>3. q1 = q /\ r1 = r  BY <1>2, RemainderIsUnique
<1> QED  BY <1>3 DEF q1, r1, a

LEMMA DivTwice ==
    ASSUME NEW a \in Nat, NEW d \in Nat \ {0}, NEW e \in Nat \ {0}
    PROVE  a \div (d * e) = (a \div d) \div e
<1> DEFINE q == a \div d
           r == a % d
           p == q \div e
           s == q % e
<1>1. q \in Nat /\ r \in 0..(d - 1) /\ a = d * q + r  BY DivMod
<1> HIDE DEF q, r
<1>2. p \in Nat /\ s \in 0..(e - 1) /\ q = e * p + s  BY <1>1, DivMod
<1> HIDE DEF p, s
<1>3. a = (d * e) * p + (d * s + r)
  <2>1. d * (e * p + s) = (d * e) * p + d * s  BY <1>1, <1>2
  <2> QED  BY <1>1, <1>2, <2>1
<1>4. d * s + r \in 0..(d * e - 1)
  <2>1. d * s <= d * (e - 1)  BY <1>2
  <2>2. d * (e - 1) = d * e - d  OBVIOUS
  <2> QED  BY <1>1, <1>2, <2>1, <2>2
<1> DEFINE de == d * e
           x == d * s + r
<1>5. a = de * p + x /\ x \in 0..(de - 1) /\ de \in Nat \ {0}  BY <1>3, <1>4
<1> HIDE DEF de, x
<1>6. a \div de = p  BY <1>2, <1>5, DivUnique
<1> QED  BY <1>6 DEF de, p, q

-----------------------------------------------------------------------------
(* The invariant.                                                          *)
Contents == {"message", "mark", "zero", "length", "junk"} \X Int
Positions == 0..(BLOCK - 1)
Blocks == [Positions -> Contents]

FeedTypes ==
    /\ count_lo \in 0..(WORD - 1) /\ count_hi \in Nat
    /\ count \in Nat /\ buffer \in Nat /\ local \in 0..BLOCK
    /\ data \in Blocks /\ digest \in Seq(Blocks)
    /\ feeding \in {"idle", "fill", "blocks", "length", "done"}

(* The two words are the bits of all that was given to sha_update.         *)
BitsCounted == count_hi * WORD + count_lo = 8 * (buffer + count)

(* What was taken and is not in the digest is in the block.                *)
LeftOver ==
    /\ feeding \in {"idle", "fill"} =>
          /\ local < BLOCK /\ buffer = Len(digest) * BLOCK + local
          /\ \A k \in Positions : k < local => data[k] = Message(Len(digest) * BLOCK + k + 1)
    /\ feeding = "blocks" => buffer = Len(digest) * BLOCK
    /\ feeding \in {"idle", "length"} => count = 0

Digested ==
    feeding \in {"idle", "fill", "blocks"} =>
        \A b \in 1..Len(digest), k \in Positions :
            digest[b][k] = Message((b - 1) * BLOCK + k + 1)

(* All but the length is in its place.                                     *)
Closed ==
    feeding = "length" =>
        /\ Zeros(buffer) \in Nat
        /\ Len(digest) * BLOCK + BLOCK = buffer + 1 + Zeros(buffer) + LENGTH
        /\ \A b \in 1..Len(digest), k \in Positions :
              digest[b][k] = PaddedByte(buffer, (b - 1) * BLOCK + k + 1)
        /\ \A k \in Positions :
              k < BLOCK - LENGTH => data[k] = PaddedByte(buffer, Len(digest) * BLOCK + k + 1)

FeedInv == FeedTypes /\ BitsCounted /\ LeftOver /\ Digested /\ Closed /\ DigestIsOfPaddedMessage

LEMMA ShaSizes ==
    /\ BLOCK \in Nat \ {0} /\ LENGTH \in Nat /\ LENGTH = 2 * CELLS /\ LENGTH < BLOCK
    /\ CELL \in Nat \ {0} /\ CELLS \in Nat
    /\ WORD \in Nat \ {0} /\ \E w \in Nat \ {0} : WORD = (8 * BLOCK) * w /\ WORD \div 8 = BLOCK * w
<1>1. BLOCK \in Nat \ {0} /\ CELL \in Nat \ {0} /\ CELLS \in Nat /\ LENGTH < BLOCK
      /\ WORD % (8 * BLOCK) = 0
      BY ShaConstants
<1>2. LENGTH \in Nat /\ LENGTH = 2 * CELLS /\ CELLS \in 0..LENGTH  BY <1>1 DEF LENGTH
<1>3. WORD \in Nat \ {0}  BY <1>2, PowersOfCell DEF WORD
<1> DEFINE d == 8 * BLOCK
           w == WORD \div d
<1>4. d \in Nat \ {0}  BY <1>1
<1>5. WORD = d * w + (WORD % d) /\ w \in Nat
  <2> HIDE DEF d
  <2> QED  BY <1>3, <1>4, DivMod
<1>6. WORD = d * w  BY <1>1, <1>4, <1>5
<1> HIDE DEF w
<1>7. w # 0  BY <1>3, <1>4, <1>5, <1>6
<1>8. WORD = 8 * (BLOCK * w) /\ BLOCK * w \in Nat  BY <1>1, <1>5, <1>6
<1>9. WORD \div 8 = BLOCK * w
  <2> DEFINE x == BLOCK * w
  <2>1. x \in Nat /\ WORD = 8 * x  BY <1>8
  <2> HIDE DEF x
  <2>2. (8 * x) \div 8 = x  BY <2>1
  <2> QED  BY <2>1, <2>2 DEF x
<1> QED  BY <1>1, <1>2, <1>3, <1>5, <1>6, <1>7, <1>9

(* Both words together grow by the bits of the piece, whatever its length. *)
LEMMA BitsAreCounted ==
    ASSUME NEW size \in Nat, CountBits(size), count_lo \in 0..(WORD - 1), count_hi \in Nat
    PROVE  /\ count_lo' \in 0..(WORD - 1) /\ count_hi' \in Nat
           /\ count_hi' * WORD + count_lo' = count_hi * WORD + count_lo + 8 * size
<1> DEFINE e == WORD \div 8
           q == size \div e
           r == size % e
           clo == (count_lo + 8 * size) % WORD
<1>1. WORD \in Nat \ {0} /\ e \in Nat \ {0} /\ WORD = 8 * e
  <2>1. PICK w \in Nat \ {0} : WORD = (8 * BLOCK) * w /\ WORD \div 8 = BLOCK * w
        BY ShaSizes
  <2>2. BLOCK * w \in Nat \ {0}  BY ShaSizes
  <2> QED  BY <2>1, <2>2, ShaSizes
<1>2. count_lo' = clo /\ count_hi' = count_hi + (IF clo < count_lo THEN 1 ELSE 0) + q
      BY DEF CountBits
<1> HIDE DEF e
<1>3. q \in Nat /\ r \in 0..(e - 1) /\ size = e * q + r  BY <1>1, DivMod
<1> HIDE DEF q, r
<1>4. 8 * size = WORD * q + 8 * r  BY <1>1, <1>3
<1> DEFINE s == count_lo + 8 * r
<1>5. s \in Nat /\ 8 * r < WORD /\ 8 * r \in Nat  BY <1>1, <1>3
<1>6. CASE s < WORD
  <2>1. count_lo + 8 * size = WORD * q + s /\ s \in 0..(WORD - 1)
        BY <1>1, <1>3, <1>4, <1>5, <1>6
  <2> HIDE DEF s
  <2>2. clo = s  BY <1>1, <1>3, <2>1, DivUnique
  <2>3. ~ (clo < count_lo)  BY <1>1, <1>5, <2>2 DEF s
  <2>4. count_lo' = s /\ count_hi' = count_hi + q  BY <1>2, <1>3, <2>2, <2>3
  <2>5. (count_hi + q) * WORD = count_hi * WORD + WORD * q  BY <1>1, <1>3
  <2>6. count_hi * WORD \in Int /\ WORD * q \in Int  BY <1>1, <1>3
  <2> QED  BY <1>1, <1>3, <2>1, <2>4, <2>5, <2>6
<1>7. CASE s >= WORD
  <2> DEFINE x == s - WORD
  <2>1. x \in 0..(WORD - 1) /\ x < count_lo  BY <1>1, <1>5, <1>7
  <2>2. count_lo + 8 * size = WORD * (q + 1) + x
        BY <1>1, <1>3, <1>4, <1>5
  <2> HIDE DEF x
  <2>3. clo = x
    <3> DEFINE p == q + 1
    <3>1. p \in Nat /\ count_lo + 8 * size = WORD * p + x  BY <1>3, <2>2
    <3> HIDE DEF p
    <3>2. WORD \in Nat \ {0} /\ x \in 0..(WORD - 1)  BY <1>1, <2>1
    <3>3. (WORD * p + x) % WORD = x  BY <3>1, <3>2, DivUnique
    <3> QED  BY <3>1, <3>3
  <2>4. count_lo' = x /\ count_hi' = count_hi + 1 + q  BY <1>2, <1>3, <2>1, <2>3
  <2>5. (count_hi + 1 + q) * WORD = count_hi * WORD + WORD * (q + 1)  BY <1>1, <1>3
  <2>6. count_hi * WORD \in Int /\ WORD * (q + 1) \in Int  BY <1>1, <1>3
  <2> QED  BY <1>1, <1>3, <2>1, <2>2, <2>4, <2>5, <2>6
<1> QED  BY <1>1, <1>5, <1>6, <1>7

LEMMA DigestGrows ==
    ASSUME digest \in Seq(Blocks), NEW block \in Blocks, Compress(block)
    PROVE  /\ digest' \in Seq(Blocks) /\ Len(digest') = Len(digest) + 1
           /\ Len(digest) \in Nat /\ Len(digest') * BLOCK = Len(digest) * BLOCK + BLOCK
           /\ \A b \in 1..Len(digest') :
                 digest'[b] = IF b <= Len(digest) THEN digest[b] ELSE block
<1>1. digest' = Append(digest, block)  BY DEF Compress
<1> HIDE DEF Blocks
<1>2. /\ digest' \in Seq(Blocks) /\ Len(digest') = Len(digest) + 1 /\ Len(digest) \in Nat
      /\ \A b \in 1..Len(digest') :
            digest'[b] = IF b <= Len(digest) THEN digest[b] ELSE block
      BY <1>1
<1>3. Len(digest') * BLOCK = Len(digest) * BLOCK + BLOCK  BY <1>2, ShaSizes
<1> QED  BY <1>2, <1>3

LEMMA BytesAreTaken ==
    ASSUME FeedTypes, NEW at \in Nat, NEW size \in 0..count, Take(at, size)
    PROVE  /\ data' \in Blocks /\ buffer' \in Nat /\ count' \in Nat
           /\ buffer' = buffer + size /\ count' = count - size
           /\ \A k \in Positions :
                 data'[k] = IF k \in at..(at + size - 1) THEN Message(buffer + k - at + 1)
                                                         ELSE data[k]
<1>1. /\ buffer' = buffer + size /\ count' = count - size
      /\ data' = [k \in DOMAIN data |-> IF k \in at..(at + size - 1)
                                        THEN Message(buffer + k - at + 1) ELSE data[k]]
      BY DEF Take, Copied
<1>2. buffer \in Nat /\ count \in Nat /\ DOMAIN data = Positions
      /\ \A k \in Positions : data[k] \in Contents /\ k \in Nat
      BY ShaSizes DEF FeedTypes, Blocks, Positions
<1>3. \A k \in Positions : Message(buffer + k - at + 1) \in Contents
      BY <1>2 DEF Message, Contents
<1> HIDE DEF Positions, Contents
<1>4. data' \in Blocks  BY <1>1, <1>2, <1>3 DEF Blocks
<1> QED  BY <1>1, <1>2, <1>4

(* The rest of FeedInv holds of itself while the message is taken.         *)
LEMMA OpenFeed ==
    ASSUME feeding' \in {"idle", "fill", "blocks"},
           FeedTypes', BitsCounted', LeftOver', Digested'
    PROVE  FeedInv'
<1>1. Closed' /\ DigestIsOfPaddedMessage'  BY DEF Closed, DigestIsOfPaddedMessage
<1> QED  BY <1>1 DEF FeedInv

LEMMA UpdateKeeps ==
    ASSUME FeedInv, NEW size \in Nat, Update(size)
    PROVE  FeedInv'
<1>1. /\ FeedTypes /\ BitsCounted /\ LeftOver /\ Digested /\ feeding = "idle" /\ count = 0
      BY DEF FeedInv, Update, LeftOver
<1>2. /\ count' = size /\ UNCHANGED <<local, data, digest, buffer>>
      /\ feeding' = (IF local # 0 THEN "fill" ELSE "blocks")
      BY DEF Update
<1>3. /\ count_lo' \in 0..(WORD - 1) /\ count_hi' \in Nat
      /\ count_hi' * WORD + count_lo' = count_hi * WORD + count_lo + 8 * size
      BY <1>1, BitsAreCounted DEF Update, FeedTypes
<1>4. FeedTypes'  BY <1>1, <1>2, <1>3 DEF FeedTypes
<1>5. BitsCounted'  BY <1>1, <1>2, <1>3 DEF BitsCounted, FeedTypes
<1>6. LeftOver'
  <2>1. Len(digest) * BLOCK \in Int  BY <1>1, ShaSizes DEF FeedTypes
  <2> QED  BY <1>1, <1>2, <2>1 DEF LeftOver, FeedTypes
<1>7. Digested'  BY <1>1, <1>2 DEF Digested
<1> QED  BY <1>2, <1>4, <1>5, <1>6, <1>7, OpenFeed

LEMMA FillKeeps ==
    ASSUME FeedInv, Fill
    PROVE  FeedInv'
<1> DEFINE size == IF BLOCK - local > count THEN count ELSE BLOCK - local
           base == Len(digest) * BLOCK
<1>1. /\ FeedTypes /\ BitsCounted /\ LeftOver /\ Digested /\ feeding = "fill"
      BY DEF FeedInv, Fill
<1>2. /\ Take(local, size) /\ local' = local + size
      /\ local + size = BLOCK => Compress(data') /\ feeding' = "blocks"
      /\ local + size # BLOCK => feeding' = "idle" /\ UNCHANGED digest
      /\ UNCHANGED shaCounts
      BY DEF Fill
<1>3. /\ BLOCK \in Nat \ {0} /\ local \in 0..BLOCK /\ count \in Nat /\ buffer \in Nat
      /\ local < BLOCK /\ buffer = base + local /\ base \in Nat /\ digest \in Seq(Blocks)
      /\ \A k \in Positions : k < local => data[k] = Message(base + k + 1)
  <2>1. Len(digest) \in Nat  BY <1>1 DEF FeedTypes
  <2>2. base \in Nat  BY <2>1, ShaSizes
  <2> HIDE DEF base
  <2> QED  BY <1>1, <2>2, ShaSizes DEF FeedTypes, LeftOver, base
<1>4. size \in 0..count /\ local + size <= BLOCK /\ (local + size # BLOCK => size = count)
      BY <1>3
<1> HIDE DEF size, base
<1>5. /\ data' \in Blocks /\ buffer' \in Nat /\ count' \in Nat
      /\ buffer' = buffer + size /\ count' = count - size
      /\ \A k \in Positions :
            data'[k] = IF k \in local..(local + size - 1) THEN Message(buffer + k - local + 1)
                                                          ELSE data[k]
      BY <1>1, <1>2, <1>3, <1>4, BytesAreTaken
<1>6. ASSUME NEW k \in Positions, k < local + size PROVE data'[k] = Message(base + k + 1)
  <2>1. k \in Nat  BY <1>3 DEF Positions
  <2>2. CASE k < local
    <3>1. k \notin local..(local + size - 1)  BY <1>3, <2>1, <2>2
    <3> QED  BY <1>3, <1>5, <2>2, <3>1
  <2>3. CASE k >= local
    <3>1. k \in local..(local + size - 1) /\ buffer + k - local + 1 = base + k + 1
          BY <1>3, <1>4, <1>6, <2>1, <2>3
    <3> QED  BY <1>5, <3>1
  <2> QED  BY <1>3, <2>1, <2>2, <2>3
<1>7. UNCHANGED <<count_lo, count_hi>> /\ buffer' + count' = buffer + count
      BY <1>2, <1>3, <1>4, <1>5 DEF shaCounts
<1>8. BitsCounted'  BY <1>1, <1>7 DEF BitsCounted
<1>9. CASE local + size = BLOCK
  <2>1. Compress(data') /\ feeding' = "blocks" /\ local' = BLOCK  BY <1>2, <1>9
  <2>2. /\ digest' \in Seq(Blocks) /\ Len(digest') = Len(digest) + 1 /\ Len(digest) \in Nat
        /\ Len(digest') * BLOCK = base + BLOCK
        /\ \A b \in 1..Len(digest') :
              digest'[b] = IF b <= Len(digest) THEN digest[b] ELSE data'
        BY <1>3, <1>5, <2>1, DigestGrows DEF base
  <2>3. FeedTypes'
        BY <1>1, <1>3, <1>5, <1>7, <2>1, <2>2 DEF FeedTypes
  <2>4. LeftOver'
    <3>1. buffer' = Len(digest') * BLOCK  BY <1>3, <1>4, <1>5, <1>9, <2>2
    <3> QED  BY <2>1, <3>1 DEF LeftOver
  <2>5. ASSUME NEW b \in 1..Len(digest'), NEW k \in Positions
        PROVE  digest'[b][k] = Message((b - 1) * BLOCK + k + 1)
    <3>1. CASE b <= Len(digest)
      <4>1. b \in 1..Len(digest) /\ digest'[b] = digest[b]  BY <2>2, <3>1
      <4> QED  BY <1>1, <4>1 DEF Digested
    <3>2. CASE b > Len(digest)
      <4>1. b - 1 = Len(digest) /\ digest'[b] = data'  BY <2>2, <3>2
      <4>2. (b - 1) * BLOCK = base  BY <4>1 DEF base
      <4>3. k < local + size  BY <1>3, <1>9 DEF Positions
      <4> QED  BY <1>6, <4>1, <4>2, <4>3
    <3> QED  BY <2>2, <3>1, <3>2
  <2>6. Digested'  BY <2>5 DEF Digested
  <2> QED  BY <1>8, <2>1, <2>3, <2>4, <2>6, OpenFeed
<1>10. CASE local + size # BLOCK
  <2>1. feeding' = "idle" /\ UNCHANGED digest /\ local' = local + size /\ count' = 0
        BY <1>2, <1>3, <1>4, <1>5, <1>10
  <2>2. FeedTypes'
        BY <1>1, <1>3, <1>4, <1>5, <1>7, <2>1 DEF FeedTypes
  <2>3. LeftOver'
    <3>1. /\ size \in Int /\ local \in Int /\ BLOCK \in Int /\ base \in Int
          /\ local + size <= BLOCK /\ local + size # BLOCK /\ buffer = base + local
          /\ local' = local + size /\ buffer' = buffer + size
          BY <1>3, <1>4, <1>5, <1>10, <2>1
    <3>2. local' < BLOCK /\ buffer' = base + local'  BY ONLY <3>1
    <3>3. Len(digest') * BLOCK = base  BY <2>1 DEF base
    <3> QED  BY <1>6, <2>1, <3>2, <3>3 DEF LeftOver
  <2>4. Digested'  BY <1>1, <2>1 DEF Digested
  <2> QED  BY <1>8, <2>1, <2>2, <2>3, <2>4, OpenFeed
<1> QED  BY <1>9, <1>10

LEMMA BlockKeeps ==
    ASSUME FeedInv, Block
    PROVE  FeedInv'
<1> DEFINE base == Len(digest) * BLOCK
<1>1. /\ FeedTypes /\ BitsCounted /\ LeftOver /\ Digested /\ feeding = "blocks"
      BY DEF FeedInv, Block
<1>2. /\ Take(0, BLOCK) /\ Compress(data') /\ UNCHANGED <<shaCounts, local, feeding>>
      /\ count >= BLOCK
      BY DEF Block
<1>3. /\ BLOCK \in Nat \ {0} /\ count \in Nat /\ buffer \in Nat /\ buffer = base
      /\ digest \in Seq(Blocks) /\ BLOCK \in 0..count
      BY <1>1, <1>2, ShaSizes DEF FeedTypes, LeftOver
<1>4. /\ data' \in Blocks /\ buffer' \in Nat /\ count' \in Nat
      /\ buffer' = buffer + BLOCK /\ count' = count - BLOCK
      /\ \A k \in Positions :
            data'[k] = IF k \in 0..(0 + BLOCK - 1) THEN Message(buffer + k - 0 + 1) ELSE data[k]
      BY <1>1, <1>2, <1>3, BytesAreTaken
<1> HIDE DEF base
<1>5. ASSUME NEW k \in Positions PROVE data'[k] = Message(base + k + 1)
  <2>1. k \in 0..(0 + BLOCK - 1) /\ buffer + k - 0 + 1 = base + k + 1
        BY <1>3 DEF Positions
  <2> QED  BY <1>4, <2>1
<1>6. UNCHANGED <<count_lo, count_hi, local, feeding>> /\ buffer' + count' = buffer + count
      BY <1>2, <1>3, <1>4 DEF shaCounts
<1>7. BitsCounted'  BY <1>1, <1>6 DEF BitsCounted
<1>8. /\ digest' \in Seq(Blocks) /\ Len(digest') = Len(digest) + 1 /\ Len(digest) \in Nat
      /\ Len(digest') * BLOCK = base + BLOCK
      /\ \A b \in 1..Len(digest') :
            digest'[b] = IF b <= Len(digest) THEN digest[b] ELSE data'
      BY <1>2, <1>3, <1>4, DigestGrows DEF base
<1>9. FeedTypes'  BY <1>1, <1>4, <1>6, <1>8 DEF FeedTypes
<1>10. LeftOver'
  <2>1. buffer' = Len(digest') * BLOCK  BY <1>3, <1>4, <1>8
  <2> QED  BY <1>1, <1>6, <2>1 DEF LeftOver
<1>11. ASSUME NEW b \in 1..Len(digest'), NEW k \in Positions
       PROVE  digest'[b][k] = Message((b - 1) * BLOCK + k + 1)
  <2>1. CASE b <= Len(digest)
    <3>1. b \in 1..Len(digest) /\ digest'[b] = digest[b]  BY <1>8, <2>1
    <3> QED  BY <1>1, <3>1 DEF Digested
  <2>2. CASE b > Len(digest)
    <3>1. b - 1 = Len(digest) /\ digest'[b] = data'  BY <1>8, <2>2
    <3>2. (b - 1) * BLOCK = base  BY <3>1 DEF base
    <3> QED  BY <1>5, <3>1, <3>2
  <2> QED  BY <1>8, <2>1, <2>2
<1>12. Digested'  BY <1>11 DEF Digested
<1> QED  BY <1>1, <1>6, <1>7, <1>9, <1>10, <1>12, OpenFeed

LEMMA RestKeeps ==
    ASSUME FeedInv, Rest
    PROVE  FeedInv'
<1> DEFINE base == Len(digest) * BLOCK
<1>1. /\ FeedTypes /\ BitsCounted /\ LeftOver /\ Digested /\ feeding = "blocks"
      BY DEF FeedInv, Rest
<1>2. /\ Take(0, count) /\ local' = count /\ feeding' = "idle" /\ count < BLOCK
      /\ UNCHANGED <<shaCounts, digest>>
      BY DEF Rest
<1>3. /\ BLOCK \in Nat \ {0} /\ count \in Nat /\ buffer \in Nat /\ buffer = base
      /\ digest \in Seq(Blocks) /\ count \in 0..count
      BY <1>1, <1>2, ShaSizes DEF FeedTypes, LeftOver
<1>4. /\ data' \in Blocks /\ buffer' \in Nat /\ count' \in Nat
      /\ buffer' = buffer + count /\ count' = count - count
      /\ \A k \in Positions :
            data'[k] = IF k \in 0..(0 + count - 1) THEN Message(buffer + k - 0 + 1) ELSE data[k]
      BY <1>1, <1>2, <1>3, BytesAreTaken
<1> HIDE DEF base
<1>5. ASSUME NEW k \in Positions, k < local' PROVE data'[k] = Message(base + k + 1)
  <2>1. k \in 0..(0 + count - 1) /\ buffer + k - 0 + 1 = base + k + 1
        BY <1>2, <1>3, <1>5 DEF Positions
  <2> QED  BY <1>4, <2>1
<1>6. UNCHANGED <<count_lo, count_hi, digest>> /\ buffer' + count' = buffer + count /\ count' = 0
      BY <1>2, <1>3, <1>4 DEF shaCounts
<1>7. BitsCounted'  BY <1>1, <1>6 DEF BitsCounted
<1>8. FeedTypes'  BY <1>1, <1>2, <1>3, <1>4, <1>6 DEF FeedTypes
<1>9. LeftOver'
  <2>1. local' < BLOCK /\ buffer' = base + local'  BY <1>2, <1>3, <1>4
  <2>2. Len(digest') * BLOCK = base  BY <1>6 DEF base
  <2> QED  BY <1>2, <1>5, <1>6, <2>1, <2>2 DEF LeftOver
<1>10. Digested'  BY <1>1, <1>6 DEF Digested
<1> QED  BY <1>2, <1>7, <1>8, <1>9, <1>10, OpenFeed

(* How many zeros follow the mark, for a message with l bytes in its last, *)
(* unfinished block.                                                       *)
LEMMA ZerosAre ==
    ASSUME NEW q \in Nat, NEW l \in 0..(BLOCK - 1)
    PROVE  Zeros(q * BLOCK + l) =
               (IF Spills(l) THEN 2 * BLOCK ELSE BLOCK) - LENGTH - l - 1
<1> DEFINE blocks == IF Spills(l) THEN 2 ELSE 1
           z == (IF Spills(l) THEN 2 * BLOCK ELSE BLOCK) - LENGTH - l - 1
           size == q * BLOCK + l
           Ends(y) == (size + 1 + y + LENGTH) % BLOCK = 0
<1>1. BLOCK \in Nat \ {0} /\ LENGTH \in Nat /\ LENGTH < BLOCK /\ l \in Nat /\ l < BLOCK
      BY ShaSizes
<1>2. blocks \in 1..2 /\ z = blocks * BLOCK - LENGTH - l - 1 /\ z \in 0..(BLOCK - 1)
      BY <1>1 DEF Spills
<1> HIDE DEF z, blocks
<1>3. \A y \in Int : size + 1 + y + LENGTH + z = BLOCK * (q + blocks) + y
      BY <1>1, <1>2
<1>4. q * BLOCK \in Nat /\ size \in Nat  BY <1>1
<1> HIDE DEF size
<1>5. Ends(z)
  <2> DEFINE p == q + blocks
  <2>1. p \in Nat /\ size + 1 + z + LENGTH = BLOCK * p + 0 /\ 0 \in 0..(BLOCK - 1)
        BY <1>1, <1>2, <1>3, <1>4
  <2> HIDE DEF p
  <2>2. (BLOCK * p + 0) % BLOCK = 0  BY <1>1, <2>1, DivUnique
  <2> QED  BY <2>1, <2>2
<1>6. ASSUME NEW y \in 0..(BLOCK - 1), Ends(y) PROVE y = z
  <2> DEFINE a == size + 1 + y + LENGTH
             p == a \div BLOCK
             blocksOf == q + blocks
  <2>1. a \in Nat  BY <1>1, <1>4
  <2>2. a + z = BLOCK * blocksOf + y  BY <1>3
  <2>3. a % BLOCK = 0  BY <1>6
  <2> HIDE DEF a
  <2>4. p \in Nat /\ a = BLOCK * p + 0  BY <1>1, <2>1, <2>3, DivMod
  <2>5. blocksOf \in Int  BY <1>2
  <2> HIDE DEF p, blocksOf
  <2>6. BLOCK * blocksOf + y = BLOCK * p + z
        BY <1>1, <1>2, <2>1, <2>2, <2>4
  <2> QED  BY <1>1, <1>2, <2>4, <2>5, <2>6, RemainderIsUnique
<1>7. Zeros(size) = CHOOSE y \in 0..(BLOCK - 1) : Ends(y)  BY DEF Zeros
<1> HIDE DEF Ends
<1>8. Zeros(size) \in 0..(BLOCK - 1) /\ Ends(Zeros(size))  BY <1>2, <1>5, <1>7, Zenon
<1>9. Zeros(size) = z  BY <1>6, <1>8, Zenon
<1> QED  BY <1>9 DEF size, z

(* The place of the mark is where the taken bytes end, although only the   *)
(* low word of the counter tells it.                                       *)
LEMMA MarkIsBehindMessage ==
    ASSUME FeedInv, feeding = "idle"
    PROVE  (count_lo \div 8) % BLOCK = local
<1>1. /\ FeedTypes /\ BitsCounted /\ LeftOver /\ count = 0
      BY DEF FeedInv, LeftOver
<1>2. PICK w \in Nat \ {0} : WORD = (8 * BLOCK) * w  BY ShaSizes
<1> DEFINE q == Len(digest)
           q2 == q - count_hi * w
           y == buffer - count_hi * (BLOCK * w)
<1>3. BLOCK \in Nat \ {0} /\ buffer \in Nat /\ count_hi \in Nat /\ count_lo \in Nat /\ q \in Nat
      /\ local \in 0..(BLOCK - 1) /\ buffer = q * BLOCK + local
  <2>1. WORD \in Nat  BY ShaSizes
  <2> QED  BY <1>1, <2>1, ShaSizes DEF FeedTypes, LeftOver
<1> HIDE DEF q
<1>4. count_hi * w \in Int /\ count_hi * (BLOCK * w) = BLOCK * (count_hi * w)
      /\ count_hi * ((8 * BLOCK) * w) = 8 * (count_hi * (BLOCK * w))
      BY <1>2, <1>3
<1>5. count_hi * WORD + count_lo = 8 * buffer  BY <1>1, <1>3 DEF BitsCounted
<1>6. count_lo = 8 * y /\ y \in Int  BY <1>2, <1>3, <1>4, <1>5
<1>7. y = BLOCK * q2 + local /\ q2 \in Int  BY <1>3, <1>4
<1> HIDE DEF y, q2
<1>8. y \in Nat  BY <1>3, <1>6
<1>9. count_lo \div 8 = y  BY <1>6, <1>8
<1> DEFINE p == y \div BLOCK
           r == y % BLOCK
<1>10. y = BLOCK * p + r /\ r \in 0..(BLOCK - 1) /\ p \in Nat  BY <1>3, <1>8, DivMod
<1> HIDE DEF p, r
<1>11. BLOCK * p + r = BLOCK * q2 + local  BY <1>7, <1>10
<1>12. r = local
  <2>1. /\ BLOCK \in Nat \ {0} /\ p \in Int /\ q2 \in Int
        /\ r \in 0..(BLOCK - 1) /\ local \in 0..(BLOCK - 1)
        BY <1>3, <1>7, <1>10
  <2> QED  BY <1>11, <2>1, RemainderIsUnique
<1> QED  BY <1>9, <1>12 DEF r

(* Every block but the last one of a message is full.                      *)
LEMMA EarlierBlocks ==
    ASSUME NEW q \in Nat, NEW b \in 1..q, NEW k \in Positions
    PROVE  /\ (b - 1) * BLOCK + k + 1 \in Nat
           /\ (b - 1) * BLOCK + k + 1 <= q * BLOCK
<1>1. BLOCK \in Nat \ {0} /\ k \in 0..(BLOCK - 1) /\ b - 1 \in Nat /\ q - b \in Nat
      BY ShaSizes DEF Positions
<1>2. q * BLOCK = (b - 1) * BLOCK + BLOCK + (q - b) * BLOCK  BY <1>1
<1>3. (b - 1) * BLOCK \in Nat /\ (q - b) * BLOCK \in Nat  BY <1>1
<1> QED  BY <1>1, <1>2, <1>3

LEMMA PadKeeps ==
    ASSUME FeedInv, Pad
    PROVE  FeedInv'
<1> DEFINE q == Len(digest)
           base == q * BLOCK
           zeros == Zeros(buffer)
           marked == ZerosFrom([data EXCEPT ![local] = Mark], local + 1)
<1>1. /\ FeedTypes /\ BitsCounted /\ LeftOver /\ Digested /\ feeding = "idle" /\ count = 0
      BY DEF FeedInv, Pad, LeftOver
<1>2. (count_lo \div 8) % BLOCK = local  BY <1>1, MarkIsBehindMessage
<1>3. /\ Spills(local) => Compress(marked) /\ data' = ZerosFrom(marked, 0)
      /\ ~ Spills(local) => data' = marked /\ UNCHANGED digest
      /\ feeding' = "length" /\ UNCHANGED <<count_lo, count_hi, local, count, buffer>>
      BY <1>2 DEF Pad, shaCounts
<1>4. /\ BLOCK \in Nat \ {0} /\ LENGTH \in Nat /\ LENGTH < BLOCK
      /\ local \in 0..(BLOCK - 1) /\ buffer \in Nat /\ buffer = base + local
      /\ digest \in Seq(Blocks) /\ q \in Nat /\ data \in Blocks
      BY <1>1, ShaSizes DEF FeedTypes, LeftOver
<1>5. base \in Nat  BY <1>4
<1>6. zeros = (IF Spills(local) THEN 2 * BLOCK ELSE BLOCK) - LENGTH - local - 1
  <2> HIDE DEF q
  <2> QED  BY <1>4, ZerosAre
<1>7. marked \in Blocks /\ ZerosFrom(marked, 0) \in Blocks
      /\ \A k \in Positions :
            /\ marked[k] = IF k < local THEN data[k] ELSE IF k = local THEN Mark ELSE Zero
            /\ ZerosFrom(marked, 0)[k] = Zero
  <2>1. Mark \in Contents /\ Zero \in Contents  BY DEF Mark, Zero, Contents
  <2>2. local \in Positions /\ \A k \in Positions : k \in Nat  BY <1>4 DEF Positions
  <2>3. DOMAIN data = Positions /\ \A k \in Positions : data[k] \in Contents
        BY <1>4 DEF Blocks
  <2> DEFINE block == [data EXCEPT ![local] = Mark]
  <2>4. DOMAIN block = Positions
        /\ \A k \in Positions : block[k] = IF k = local THEN Mark ELSE data[k]
        BY <2>2, <2>3
  <2> HIDE DEF block, Contents, Positions
  <2>5. marked = [k \in Positions |-> IF k >= local + 1 THEN Zero ELSE block[k]]
        BY <2>4 DEF ZerosFrom, block
  <2>6. \A k \in Positions :
           marked[k] = IF k < local THEN data[k] ELSE IF k = local THEN Mark ELSE Zero
        BY <1>4, <2>2, <2>4, <2>5
  <2> HIDE DEF marked
  <2>7. DOMAIN marked = Positions  BY <2>5
  <2>8. ZerosFrom(marked, 0) = [k \in Positions |-> IF k >= 0 THEN Zero ELSE marked[k]]
        BY <2>7 DEF ZerosFrom
  <2>9. \A k \in Positions : ZerosFrom(marked, 0)[k] = Zero  BY <2>2, <2>8
  <2>10. \A k \in Positions : marked[k] \in Contents  BY <2>1, <2>3, <2>6
  <2>11. marked \in Blocks  BY <2>5, <2>7, <2>10 DEF Blocks
  <2>12. ZerosFrom(marked, 0) \in Blocks  BY <2>1, <2>8, <2>9 DEF Blocks
  <2> QED  BY <2>6, <2>9, <2>11, <2>12
<1>8. \A k \in Positions : k < local => data[k] = Message(base + k + 1)
      BY <1>1 DEF LeftOver
<1> HIDE DEF zeros, marked, base
<1>9. ASSUME NEW k \in Positions, k <= local + zeros
      PROVE  marked[k] = PaddedByte(buffer, base + k + 1)
  <2>1. k \in Nat  BY <1>4 DEF Positions
  <2>2. CASE k < local
    <3>1. base + k + 1 <= buffer  BY <1>4, <1>5, <2>1, <2>2
    <3> QED  BY <1>7, <1>8, <2>2, <3>1 DEF PaddedByte
  <2>3. CASE k = local
    <3>1. ~ (base + k + 1 <= buffer) /\ base + k + 1 = buffer + 1  BY <1>4, <1>5, <2>1, <2>3
    <3>2. marked[k] = Mark  BY <1>4, <1>7, <2>3
    <3> QED  BY <3>1, <3>2 DEF PaddedByte
  <2>4. CASE k > local
    <3>1. zeros \in Int  BY <1>4, <1>6
    <3>2. /\ ~ (base + k + 1 <= buffer) /\ base + k + 1 # buffer + 1
          /\ base + k + 1 <= buffer + 1 + zeros
          BY <1>4, <1>5, <1>9, <2>1, <2>4, <3>1
    <3>3. marked[k] = Zero  BY <1>4, <1>7, <2>1, <2>4
    <3> QED  BY <3>2, <3>3 DEF PaddedByte, zeros
  <2> QED  BY <1>4, <2>1, <2>2, <2>3, <2>4
<1>10. ASSUME NEW b \in 1..q, NEW k \in Positions
       PROVE  digest[b][k] = PaddedByte(buffer, (b - 1) * BLOCK + k + 1)
  <2>1. digest[b][k] = Message((b - 1) * BLOCK + k + 1)
        BY <1>1 DEF Digested
  <2> DEFINE p == (b - 1) * BLOCK + k + 1
  <2>2. p \in Nat /\ p <= base
    <3> HIDE DEF q
    <3> QED  BY <1>4, EarlierBlocks DEF base
  <2> HIDE DEF p
  <2>3. p <= buffer  BY <1>4, <1>5, <2>2
  <2>4. PaddedByte(buffer, p) = Message(p)  BY <2>3 DEF PaddedByte
  <2> QED  BY <2>1, <2>4 DEF p
<1>11. CASE ~ Spills(local)
  <2>1. data' = marked /\ digest' = digest  BY <1>3, <1>11
  <2>2. FeedTypes'  BY <1>1, <1>3, <1>7, <2>1 DEF FeedTypes
  <2>3. BitsCounted' /\ LeftOver' /\ Digested'
        BY <1>1, <1>3 DEF BitsCounted, LeftOver, Digested
  <2>4. base + BLOCK = buffer + 1 + zeros + LENGTH /\ zeros \in Nat
        /\ \A k \in Positions : k < BLOCK - LENGTH => k <= local + zeros
        BY <1>4, <1>5, <1>6, <1>11 DEF Spills, Positions
  <2>5. Closed'
    <3>1. Len(digest') * BLOCK = base /\ buffer' = buffer /\ zeros' = zeros
          BY <1>3, <2>1 DEF base, zeros, Zeros
    <3>2. \A k \in Positions :
             k < BLOCK - LENGTH => data'[k] = PaddedByte(buffer, base + k + 1)
          BY <1>9, <2>1, <2>4
    <3> QED  BY <1>10, <2>1, <2>4, <3>1, <3>2 DEF Closed, zeros
  <2>6. DigestIsOfPaddedMessage'  BY <1>3 DEF DigestIsOfPaddedMessage
  <2> QED  BY <2>2, <2>3, <2>5, <2>6 DEF FeedInv
<1>12. CASE Spills(local)
  <2>1. Compress(marked) /\ data' = ZerosFrom(marked, 0)  BY <1>3, <1>12
  <2>2. /\ digest' \in Seq(Blocks) /\ Len(digest') = q + 1 /\ q \in Nat
        /\ Len(digest') * BLOCK = base + BLOCK
        /\ \A b \in 1..Len(digest') : digest'[b] = IF b <= q THEN digest[b] ELSE marked
        BY <1>4, <1>7, <2>1, DigestGrows DEF base
  <2>3. FeedTypes'  BY <1>1, <1>3, <1>7, <2>1, <2>2 DEF FeedTypes
  <2>4. BitsCounted' /\ LeftOver' /\ Digested'
        BY <1>1, <1>3 DEF BitsCounted, LeftOver, Digested
  <2>5. /\ (base + BLOCK) + BLOCK = buffer + 1 + zeros + LENGTH /\ zeros \in Nat
        /\ \A k \in Positions : k \in Nat /\ k < BLOCK /\ k <= local + zeros
        BY <1>4, <1>5, <1>6, <1>12 DEF Spills, Positions
  <2>6. ASSUME NEW b \in 1..(q + 1), NEW k \in Positions
        PROVE  digest'[b][k] = PaddedByte(buffer, (b - 1) * BLOCK + k + 1)
    <3>1. CASE b <= q
      <4>1. b \in 1..q /\ digest'[b] = digest[b]  BY <2>2, <3>1
      <4> QED  BY <1>10, <4>1
    <3>2. CASE b > q
      <4>1. b - 1 = q /\ digest'[b] = marked  BY <2>2, <3>2
      <4>2. (b - 1) * BLOCK = base  BY <4>1 DEF base
      <4> QED  BY <1>9, <2>5, <4>1, <4>2
    <3> QED  BY <2>2, <3>1, <3>2
  <2>7. ASSUME NEW k \in Positions, k < BLOCK - LENGTH
        PROVE  data'[k] = PaddedByte(buffer, (base + BLOCK) + k + 1)
    <3> DEFINE p == (base + BLOCK) + k + 1
    <3>1. data'[k] = Zero  BY <1>7, <2>1
    <3>2. ~ (p <= buffer) /\ p # buffer + 1 /\ p <= buffer + 1 + zeros
          BY <1>4, <1>5, <2>5, <2>7
    <3> HIDE DEF p
    <3>3. PaddedByte(buffer, p) = Zero  BY <3>2 DEF PaddedByte, zeros
    <3> QED  BY <3>1, <3>3 DEF p
  <2>8. Closed'
    <3>1. buffer' = buffer /\ zeros' = zeros  BY <1>3 DEF zeros, Zeros
    <3> QED  BY <2>2, <2>5, <2>6, <2>7, <3>1 DEF Closed, zeros
  <2>9. DigestIsOfPaddedMessage'  BY <1>3 DEF DigestIsOfPaddedMessage
  <2> QED  BY <2>3, <2>4, <2>8, <2>9 DEF FeedInv
<1> QED  BY <1>11, <1>12

(* The bytes of the length from its two words: those of the low word, and  *)
(* what is left of it when the low word is shifted out.                    *)
LEMMA LengthBytes ==
    ASSUME NEW hi \in Nat, NEW lo \in 0..(WORD - 1), NEW bits \in Nat,
           bits = hi * WORD + lo, NEW e \in 0..(LENGTH - 1)
    PROVE  /\ CELL ^ e \in Nat \ {0}
           /\ e >= CELLS => bits \div (CELL ^ e) = hi \div (CELL ^ (e - CELLS))
           /\ e < CELLS => (bits \div (CELL ^ e)) % CELL = (lo \div (CELL ^ e)) % CELL
<1>1. /\ CELL \in Nat \ {0} /\ CELLS \in Nat /\ LENGTH = 2 * CELLS /\ LENGTH \in Nat
      /\ WORD \in Nat \ {0} /\ e \in Nat /\ lo \in Nat
      BY ShaSizes
<1> DEFINE P == CELL ^ e
<1>2. P \in Nat \ {0}  BY <1>1, PowersOfCell
<1>3. ASSUME e >= CELLS PROVE bits \div P = hi \div (CELL ^ (e - CELLS))
  <2> DEFINE R == CELL ^ (e - CELLS)
  <2>1. P = WORD * R
    <3>1. e \in CELLS..LENGTH  BY <1>1, <1>3
    <3> QED  BY <3>1, PowersOfCell
  <2>2. R \in Nat \ {0}
    <3>1. e - CELLS \in 0..LENGTH  BY <1>1, <1>3
    <3> QED  BY <3>1, PowersOfCell
  <2> HIDE DEF P, R
  <2>3. bits = WORD * hi + lo  BY <1>1
  <2>4. bits \div WORD = hi
    <3>1. (WORD * hi + lo) \div WORD = hi  BY <1>1, DivUnique
    <3> QED  BY <2>3, <3>1
  <2>5. bits \div (WORD * R) = (bits \div WORD) \div R  BY <1>1, <2>2, DivTwice
  <2> QED  BY <2>1, <2>4, <2>5 DEF R
<1>4. ASSUME e < CELLS PROVE (bits \div P) % CELL = (lo \div P) % CELL
  <2> DEFINE R == CELL ^ (CELLS - 1 - e)
             q == lo \div P
             r == lo % P
             q2 == q \div CELL
             r2 == q % CELL
  <2>1. WORD = P * (CELL * R)
    <3>1. e \in 0..(CELLS - 1)  BY <1>1, <1>4
    <3> QED  BY <3>1, PowersOfCell
  <2>2. R \in Nat \ {0}
    <3>1. CELLS - 1 - e \in 0..LENGTH  BY <1>1, <1>4
    <3> QED  BY <3>1, PowersOfCell
  <2> HIDE DEF P, R
  <2>3. lo = P * q + r /\ r \in 0..(P - 1) /\ q \in Nat  BY <1>1, <1>2, DivMod
  <2> HIDE DEF q, r
  <2>4. q = CELL * q2 + r2 /\ r2 \in 0..(CELL - 1) /\ q2 \in Nat  BY <1>1, <2>3, DivMod
  <2> HIDE DEF q2, r2
  <2> DEFINE x == hi * (CELL * R)
             y == x + q
             u == hi * R + q2
  <2>5. x \in Nat /\ y \in Nat /\ u \in Nat
    <3>1. CELL * R \in Nat /\ hi * R \in Nat  BY <1>1, <2>2
    <3>2. x \in Nat  BY <3>1
    <3> QED  BY <2>3, <2>4, <3>1, <3>2
  <2>6. bits = P * y + r
    <3>1. hi * WORD = P * x  BY <1>1, <1>2, <2>1, <2>2
    <3> HIDE DEF x
    <3>2. P * y = P * x + P * q  BY <1>2, <2>3, <2>5
    <3>3. P * x \in Int /\ P * q \in Int  BY <1>2, <2>3, <2>5
    <3> QED  BY <1>1, <2>3, <2>5, <3>1, <3>2, <3>3
  <2>7. y = CELL * u + r2
    <3>1. x = CELL * (hi * R)  BY <1>1, <2>2
    <3>2. hi * R \in Int  BY <2>2
    <3> HIDE DEF x
    <3> QED  BY <1>1, <2>4, <2>5, <3>1, <3>2
  <2> HIDE DEF x, y, u
  <2>8. bits \div P = y
    <3>1. (P * y + r) \div P = y  BY <1>2, <2>3, <2>5, DivUnique
    <3> QED  BY <2>6, <3>1
  <2>9. y % CELL = r2
    <3>1. (CELL * u + r2) % CELL = r2  BY <1>1, <2>4, <2>5, DivUnique
    <3> QED  BY <2>7, <3>1
  <2> QED  BY <2>8, <2>9 DEF q, r2
<1> QED  BY <1>2, <1>3, <1>4

LEMMA WriteLengthKeeps ==
    ASSUME FeedInv, WriteLength
    PROVE  FeedInv'
<1> DEFINE q == Len(digest)
           base == q * BLOCK
           zeros == Zeros(buffer)
           start == BLOCK - LENGTH
<1>1. /\ FeedTypes /\ BitsCounted /\ LeftOver /\ Closed /\ feeding = "length" /\ count = 0
      BY DEF FeedInv, WriteLength, LeftOver
<1>2. /\ data' = [k \in DOMAIN data |->
                    IF k < start THEN data[k]
                    ELSE IF k < start + CELLS THEN ByteOf(count_hi, k - start + 1)
                    ELSE ByteOf(count_lo, k - start - CELLS + 1)]
      /\ Compress(data') /\ feeding' = "done"
      /\ UNCHANGED <<count_lo, count_hi, local, count, buffer>>
      BY DEF WriteLength, shaCounts
<1>3. /\ BLOCK \in Nat \ {0} /\ LENGTH \in Nat /\ LENGTH < BLOCK /\ LENGTH = 2 * CELLS
      /\ CELL \in Nat \ {0} /\ CELLS \in Nat /\ WORD \in Nat \ {0}
      /\ buffer \in Nat /\ q \in Nat /\ digest \in Seq(Blocks) /\ data \in Blocks
      /\ count_hi \in Nat /\ count_lo \in 0..(WORD - 1)
      BY <1>1, ShaSizes DEF FeedTypes
<1>4. base \in Nat  BY <1>3
<1>5. /\ base + BLOCK = buffer + 1 + zeros + LENGTH
      /\ \A b \in 1..q, k \in Positions :
            digest[b][k] = PaddedByte(buffer, (b - 1) * BLOCK + k + 1)
      /\ \A k \in Positions : k < start => data[k] = PaddedByte(buffer, base + k + 1)
      BY <1>1 DEF Closed
<1>6. 8 * buffer = count_hi * WORD + count_lo  BY <1>1, <1>3 DEF BitsCounted
<1>7. zeros \in Nat  BY <1>1 DEF Closed
<1> HIDE DEF base, zeros
<1>8. /\ DOMAIN data = Positions
      /\ \A k \in Positions : k \in Nat /\ k < BLOCK /\ data[k] \in Contents
      BY <1>3 DEF Blocks, Positions
<1>9. ASSUME NEW k \in Positions, k >= start
      PROVE  data'[k] = PaddedByte(buffer, base + k + 1) /\ data'[k] \in Contents
  <2> DEFINE e == BLOCK - 1 - k
             bits == 8 * buffer
             v == (bits \div (CELL ^ e)) % CELL
  <2>1. e \in 0..(LENGTH - 1) /\ e \in Nat /\ bits \in Nat  BY <1>3, <1>8, <1>9
  <2>2. /\ CELL ^ e \in Nat \ {0}
        /\ e >= CELLS => bits \div (CELL ^ e) = count_hi \div (CELL ^ (e - CELLS))
        /\ e < CELLS => (bits \div (CELL ^ e)) % CELL = (count_lo \div (CELL ^ e)) % CELL
    <3>1. /\ count_hi \in Nat /\ count_lo \in 0..(WORD - 1) /\ bits \in Nat
          /\ bits = count_hi * WORD + count_lo /\ e \in 0..(LENGTH - 1)
          BY <1>3, <1>6, <2>1
    <3> HIDE DEF e, bits
    <3> QED  BY <3>1, LengthBytes
  <2>3. v \in Int
    <3> DEFINE P == CELL ^ e
               d == bits \div P
    <3>1. P \in Nat \ {0}  BY <2>2
    <3> HIDE DEF P
    <3>2. d \in Nat  BY <2>1, <3>1, DivMod
    <3> HIDE DEF d
    <3>3. d % CELL \in Int  BY <1>3, <3>2, DivMod
    <3> QED  BY <3>3 DEF d, P
  <2>4. data'[k] = Cell(v)
    <3>1. CASE k < start + CELLS
      <4>1. e >= CELLS /\ CELLS - (k - start + 1) = e - CELLS
            BY <1>3, <1>8, <1>9, <3>1
      <4>2. data'[k] = ByteOf(count_hi, k - start + 1)  BY <1>2, <1>3, <1>8, <1>9, <3>1
      <4> HIDE DEF e, bits, start
      <4>3. data'[k] = Cell((count_hi \div (CELL ^ (e - CELLS))) % CELL)
            BY <4>1, <4>2 DEF ByteOf
      <4> QED  BY <2>2, <4>1, <4>3
    <3>2. CASE k >= start + CELLS
      <4>1. e < CELLS /\ CELLS - (k - start - CELLS + 1) = e
            BY <1>3, <1>8, <1>9, <3>2
      <4>2. data'[k] = ByteOf(count_lo, k - start - CELLS + 1)
            BY <1>2, <1>3, <1>8, <1>9, <3>2
      <4> HIDE DEF e, bits, start
      <4>3. data'[k] = Cell((count_lo \div (CELL ^ e)) % CELL)
            BY <4>1, <4>2 DEF ByteOf
      <4> QED  BY <2>2, <4>1, <4>3
    <3> QED  BY <1>3, <1>8, <3>1, <3>2
  <2> DEFINE p == base + k + 1
  <2>5. /\ ~ (p <= buffer) /\ p # buffer + 1 /\ ~ (p <= buffer + 1 + zeros)
        /\ buffer + 1 + zeros + LENGTH - p = e
    <3>1. /\ BLOCK \in Nat /\ LENGTH \in Nat /\ base \in Nat /\ buffer \in Nat /\ zeros \in Nat
          /\ k \in Nat /\ k >= BLOCK - LENGTH /\ base + BLOCK = buffer + 1 + zeros + LENGTH
          BY <1>3, <1>4, <1>5, <1>7, <1>8, <1>9
    <3> QED  BY <3>1
  <2>6. PaddedByte(buffer, p) = Cell(v)
    <3> HIDE DEF p, e
    <3> QED  BY <2>5 DEF PaddedByte, zeros
  <2>7. Cell(v) \in Contents
    <3> HIDE DEF v
    <3> QED  BY <2>3 DEF Cell, Contents
  <2> QED  BY <2>4, <2>6, <2>7
<1>10. ASSUME NEW k \in Positions, ~ (k >= start)
       PROVE  data'[k] = PaddedByte(buffer, base + k + 1) /\ data'[k] \in Contents
  <2>1. k < start  BY <1>3, <1>8, <1>10
  <2>2. data'[k] = data[k]  BY <1>2, <1>8, <2>1
  <2> QED  BY <1>5, <1>8, <2>1, <2>2
<1>11. data' \in Blocks
  <2>1. \A k \in Positions : data'[k] \in Contents  BY <1>9, <1>10
  <2>2. DOMAIN data' = Positions /\ data' = [k \in Positions |-> data'[k]]
    <3> HIDE DEF start
    <3> QED  BY <1>2, <1>8
  <2> HIDE DEF Positions, Contents
  <2> QED  BY <2>1, <2>2 DEF Blocks
<1>12. /\ digest' \in Seq(Blocks) /\ Len(digest') = q + 1
       /\ Len(digest') * BLOCK = base + BLOCK
       /\ \A b \in 1..Len(digest') : digest'[b] = IF b <= q THEN digest[b] ELSE data'
       BY <1>2, <1>3, <1>11, DigestGrows DEF base
<1>13. FeedTypes'  BY <1>1, <1>2, <1>11, <1>12 DEF FeedTypes
<1>14. BitsCounted' /\ LeftOver' /\ Digested' /\ Closed'
       BY <1>1, <1>2 DEF BitsCounted, LeftOver, Digested, Closed
<1>15. ASSUME NEW b \in 1..(q + 1), NEW k \in Positions
       PROVE  digest'[b][k] = PaddedByte(buffer, (b - 1) * BLOCK + k + 1)
  <2>1. CASE b <= q
    <3>1. b \in 1..q /\ digest'[b] = digest[b]  BY <1>3, <1>12, <2>1
    <3> QED  BY <1>5, <3>1
  <2>2. CASE b > q
    <3>1. b - 1 = q /\ digest'[b] = data'  BY <1>3, <1>12, <2>2
    <3>2. (b - 1) * BLOCK = base  BY <3>1 DEF base
    <3> HIDE DEF start
    <3> QED  BY <1>9, <1>10, <3>1, <3>2
  <2> QED  BY <1>3, <2>1, <2>2
<1>16. DigestIsOfPaddedMessage'
  <2>1. buffer' = buffer /\ zeros' = zeros  BY <1>2 DEF zeros, Zeros
  <2> QED  BY <1>5, <1>12, <1>15, <2>1 DEF DigestIsOfPaddedMessage, Positions, zeros
<1> QED  BY <1>13, <1>14, <1>16 DEF FeedInv

LEMMA InitFeed == ShaInit => FeedInv
<1> SUFFICES ASSUME ShaInit PROVE FeedInv
    OBVIOUS
<1>1. /\ count_lo = 0 /\ count_hi = 0 /\ local = 0 /\ count = 0 /\ buffer = 0
      /\ digest = <<>> /\ feeding = "idle" /\ data = [k \in Positions |-> Junk]
      BY DEF ShaInit, Positions
<1>2. BLOCK \in Nat \ {0} /\ WORD \in Nat \ {0}  BY ShaSizes
<1>3. data \in Blocks
  <2>1. Junk \in Contents  BY DEF Junk, Contents
  <2> HIDE DEF Contents, Positions
  <2> QED  BY <1>1, <2>1 DEF Blocks
<1>4. FeedTypes  BY <1>1, <1>2, <1>3 DEF FeedTypes
<1>5. BitsCounted /\ LeftOver
      BY <1>1, <1>2 DEF BitsCounted, LeftOver, Positions
<1>6. Digested /\ Closed /\ DigestIsOfPaddedMessage
      BY <1>1 DEF Digested, Closed, DigestIsOfPaddedMessage
<1> QED  BY <1>4, <1>5, <1>6 DEF FeedInv

-----------------------------------------------------------------------------
(* A client calls sha_update with pieces of any length, then sha_final.    *)
FeedNext == (\E size \in Nat : Update(size)) \/ Pad \/ Hash

LEMMA FeedKeeps == FeedInv /\ [FeedNext]_shaVars => FeedInv'
<1> SUFFICES ASSUME FeedInv, [FeedNext]_shaVars PROVE FeedInv'
    OBVIOUS
<1>1. CASE \E size \in Nat : Update(size)  BY <1>1, UpdateKeeps
<1>2. CASE Pad  BY <1>2, PadKeeps
<1>3. CASE Hash
  <2>1. CASE Fill  BY <2>1, FillKeeps
  <2>2. CASE Block  BY <2>2, BlockKeeps
  <2>3. CASE Rest  BY <2>3, RestKeeps
  <2>4. CASE WriteLength  BY <2>4, WriteLengthKeeps
  <2> QED  BY <1>3, <2>1, <2>2, <2>3, <2>4 DEF Hash
<1>4. CASE UNCHANGED shaVars
  <2>1. /\ count_lo' = count_lo /\ count_hi' = count_hi /\ local' = local
        /\ data' = data /\ digest' = digest /\ feeding' = feeding
        /\ count' = count /\ buffer' = buffer
        BY <1>4 DEF shaVars, shaCounts
  <2>2. FeedTypes' /\ BitsCounted' /\ LeftOver' /\ Digested'
        BY <2>1 DEF FeedInv, FeedTypes, BitsCounted, LeftOver, Digested
  <2>3. Closed' /\ DigestIsOfPaddedMessage'
        BY <2>1 DEF FeedInv, Closed, DigestIsOfPaddedMessage
  <2> QED  BY <2>2, <2>3 DEF FeedInv
<1> QED  BY <1>1, <1>2, <1>3, <1>4 DEF FeedNext

(* Whoever uses sha_init, sha_update and sha_final in this order gets the  *)
(* digest of the padded message: no byte is lost, repeated or out of place *)
(* at the edges of blocks and calls, and the length is right.              *)
THEOREM AnyClientGetsTheDigest ==
    ShaInit /\ [][FeedNext]_shaVars => []DigestIsOfPaddedMessage
<1>1. FeedInv => DigestIsOfPaddedMessage  BY DEF FeedInv
<1> QED  BY InitFeed, FeedKeeps, <1>1, PTL
=============================================================================
