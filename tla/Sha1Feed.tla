------------------------------- MODULE Sha1Feed -------------------------------
(***************************************************************************)
(* The buffering of sha1.c: how sha_update cuts what it is given into      *)
(* blocks and how sha_final closes the last one.  The transformation of a  *)
(* block is opaque: the digest is the sequence of the blocks that went     *)
(* into it, which is all that the order and the contents of the blocks     *)
(* can change about it.  A byte is what it stands for; the bytes of a      *)
(* message are numbered in the order in which the client has them.         *)
(***************************************************************************)
EXTENDS Integers, Sequences

CONSTANTS BLOCK,    \* SHA_BLOCKSIZE: 64
          CELL,     \* 256: the values of one of the bytes of the length
          CELLS     \* 4: the bytes of count_lo, and of count_hi

LENGTH == 2 * CELLS
WORD == CELL ^ CELLS

ASSUME ShaConstants ==
    /\ BLOCK \in Nat \ {0} /\ CELL \in Nat \ {0} /\ CELLS \in Nat
    /\ LENGTH < BLOCK
    /\ WORD % (8 * BLOCK) = 0

(* The laws of powers for the bytes of the length.  They hold for whatever *)
(* CELL and CELLS are; the proofs cite them, as the provers know no powers.*)
ASSUME PowersOfCell ==
    /\ \A e \in 0..LENGTH : CELL ^ e \in Nat \ {0}
    /\ \A e \in 0..(CELLS - 1) : WORD = CELL ^ e * (CELL * CELL ^ (CELLS - 1 - e))
    /\ \A e \in CELLS..LENGTH : CELL ^ e = WORD * CELL ^ (e - CELLS)

VARIABLES count_lo, count_hi, local, data, digest,  \* SHA_INFO
          feeding,  \* where sha_update or sha_final is, "idle" between two calls
          count,    \* what is left of the argument of sha_update
          buffer    \* bytes taken from the client so far

shaCounts == <<count_lo, count_hi>>
shaVars == <<shaCounts, local, data, digest, feeding, count, buffer>>

Message(k) == <<"message", k>>
Mark == <<"mark", 0>>                   \* 0x80
Zero == <<"zero", 0>>
Cell(v) == <<"length", v>>
Junk == <<"junk", 0>>                   \* the stack of the caller

ShaTypeOK ==
    /\ count_lo \in 0..(WORD - 1) /\ count_hi \in Nat
    /\ local \in 0..BLOCK
    /\ DOMAIN data = 0..(BLOCK - 1)
    /\ \A b \in 1..Len(digest) : DOMAIN digest[b] = 0..(BLOCK - 1)
    /\ feeding \in {"idle", "fill", "blocks", "length", "done"}
    /\ count \in Nat /\ buffer \in Nat

ShaInit ==
    /\ count_lo = 0 /\ count_hi = 0 /\ local = 0
    /\ data = [k \in 0..(BLOCK - 1) |-> Junk]
    /\ digest = <<>>
    /\ feeding = "idle" /\ count = 0 /\ buffer = 0

(* sha_transform                                                           *)
Compress(block) == digest' = Append(digest, block)

(* memcpy of n bytes of the client to data + at                            *)
Copied(at, n) ==
    [k \in DOMAIN data |-> IF k \in at..(at + n - 1) THEN Message(buffer + k - at + 1)
                                                     ELSE data[k]]

Take(at, n) ==
    /\ data' = Copied(at, n)
    /\ buffer' = buffer + n /\ count' = count - n

(* sha_update(n): the length is counted first, in two words.               *)
CountBits(n) ==
    LET clo == (count_lo + 8 * n) % WORD
    IN  /\ count_lo' = clo
        /\ count_hi' = count_hi + (IF clo < count_lo THEN 1 ELSE 0) + n \div (WORD \div 8)

Update(n) ==
    /\ feeding = "idle"
    /\ CountBits(n)
    /\ count' = n
    /\ feeding' = IF local # 0 THEN "fill" ELSE "blocks"
    /\ UNCHANGED <<local, data, digest, buffer>>

(* Mutant: all of a piece goes to the block that is being completed.       *)
FillPastBlock ==
    /\ feeding = "fill"
    /\ Take(local, count)
    /\ local' = local + count
    /\ IF local + count >= BLOCK THEN Compress(data') /\ feeding' = "blocks"
                                 ELSE feeding' = "idle" /\ UNCHANGED digest
    /\ UNCHANGED shaCounts

(* What is left over from the last call is completed, if that much came.   *)
Fill ==
    LET i == IF BLOCK - local > count THEN count ELSE BLOCK - local
    IN  /\ feeding = "fill"
        /\ Take(local, i)
        /\ local' = local + i
        /\ IF local + i = BLOCK THEN Compress(data') /\ feeding' = "blocks"
                                ELSE feeding' = "idle" /\ UNCHANGED digest
        /\ UNCHANGED shaCounts

Block ==
    /\ feeding = "blocks" /\ count >= BLOCK
    /\ Take(0, BLOCK)
    /\ Compress(data')
    /\ UNCHANGED <<shaCounts, local, feeding>>

Rest ==
    /\ feeding = "blocks" /\ count < BLOCK
    /\ Take(0, count)
    /\ local' = count
    /\ feeding' = "idle"
    /\ UNCHANGED <<shaCounts, digest>>

ZerosFrom(block, at) == [k \in DOMAIN block |-> IF k >= at THEN Zero ELSE block[k]]

(* Mutant: a mark that ends where the length begins spills into a block    *)
(* of its own.                                                             *)
SpillsEarly(at) == at + 1 >= BLOCK - LENGTH

(* No room for the length behind the mark.                                 *)
Spills(at) == at + 1 > BLOCK - LENGTH

(* sha_final: the mark goes where count_lo says that the message ends.     *)
Pad ==
    LET at == (count_lo \div 8) % BLOCK
        marked == ZerosFrom([data EXCEPT ![at] = Mark], at + 1)
    IN  /\ feeding = "idle"
        /\ IF Spills(at) THEN Compress(marked) /\ data' = ZerosFrom(marked, 0)
                         ELSE data' = marked /\ UNCHANGED digest
        /\ feeding' = "length"
        /\ UNCHANGED <<shaCounts, local, count, buffer>>

(* The c-th byte from the top of a word.                                   *)
ByteOf(word, c) == Cell((word \div (CELL ^ (CELLS - c))) % CELL)

WriteLength ==
    LET start == BLOCK - LENGTH
        closed == [k \in DOMAIN data |->
                     IF k < start THEN data[k]
                     ELSE IF k < start + CELLS THEN ByteOf(count_hi, k - start + 1)
                     ELSE ByteOf(count_lo, k - start - CELLS + 1)]
    IN  /\ feeding = "length"
        /\ data' = closed /\ Compress(closed)
        /\ feeding' = "done"
        /\ UNCHANGED <<shaCounts, local, count, buffer>>

Hash == Fill \/ Block \/ Rest \/ WriteLength

-----------------------------------------------------------------------------
(* The padded message of the Secure Hash Standard: the message, the mark,  *)
(* the fewest zeros that end a block with the length behind them.          *)
Zeros(n) == CHOOSE z \in 0..(BLOCK - 1) : (n + 1 + z + LENGTH) % BLOCK = 0

PaddedByte(n, k) ==
    IF k <= n THEN Message(k)
    ELSE IF k = n + 1 THEN Mark
    ELSE IF k <= n + 1 + Zeros(n) THEN Zero
    ELSE Cell(((8 * n) \div (CELL ^ (n + 1 + Zeros(n) + LENGTH - k))) % CELL)

(* Whatever the pieces in which a message was fed, its digest is that of   *)
(* the padded message: no byte lost, repeated or out of place at the edges *)
(* of blocks and calls, and the length right when its low word wraps.      *)
DigestIsOfPaddedMessage ==
    feeding = "done" =>
        /\ Len(digest) * BLOCK = buffer + 1 + Zeros(buffer) + LENGTH
        /\ \A b \in 1..Len(digest), k \in 0..(BLOCK - 1) :
              digest[b][k] = PaddedByte(buffer, (b - 1) * BLOCK + k + 1)
=============================================================================
