-------------------------------- MODULE Base64 --------------------------------
(***************************************************************************)
(* rfc822_binary (base64.c): the characters it writes and the memory it    *)
(* writes them to.  A character of the alphabet is its index in it.        *)
(***************************************************************************)
EXTENDS Integers, Sequences

VARIABLES source,   \* the bytes to encode
          srcl,     \* how many of them are left
          column,   \* i: tuplets on the line
          encoded,  \* the characters written so far
          encoding  \* "idle", "tuplets", "done"

base64Vars == <<source, srcl, column, encoded, encoding>>

Minus == 64                     \* fills up the last tuplet
Break == <<65, 66>>             \* CR LF
LINE == 15                      \* tuplets

Bytes == Seq(0..255)

Base64TypeOK ==
    /\ source \in Bytes /\ srcl \in 0..Len(source) /\ column \in 0..(LINE - 1)
    /\ encoded \in Seq(0..66)
    /\ encoding \in {"idle", "tuplets", "done"}

Base64Init ==
    /\ source = <<>> /\ srcl = 0 /\ column = 0 /\ encoded = <<>>
    /\ encoding = "idle"

(* Mutant: no room for line breaks.                                        *)
EstimateWithoutBreaks(n) == 4 * ((n + 2) \div 3)

(* The length returned through len, one less than what is allocated.       *)
Estimate(n) == LET i == 4 * ((n + 2) \div 3) IN i + 2 * ((i \div 60) + 1)
Allocated(n) == Estimate(n) + 1

Encode(bytes) ==
    /\ encoding = "idle"
    /\ source' = bytes /\ srcl' = Len(bytes) /\ column' = 0 /\ encoded' = <<>>
    /\ encoding' = "tuplets"

(* Mutant: the low bits of the first byte are lost.                        *)
CharactersShifted(s, left) ==
    << s[1] \div 4,
       (s[1] * 8 + s[2] \div 16) % 64,
       IF left > 1 THEN (s[2] * 4 + s[3] \div 64) % 64 ELSE Minus,
       IF left > 2 THEN s[3] % 64 ELSE Minus >>

(* The tuplet of three bytes, of which the source has left.                *)
Characters(s, left) ==
    << s[1] \div 4,
       (s[1] * 16 + s[2] \div 16) % 64,
       IF left > 1 THEN (s[2] * 4 + s[3] \div 64) % 64 ELSE Minus,
       IF left > 2 THEN s[3] % 64 ELSE Minus >>

Tuplet ==
    LET at == Len(source) - srcl
        s == [k \in 1..3 |-> IF k <= srcl THEN source[at + k] ELSE 0]
        breaks == column + 1 = LINE
    IN  /\ encoding = "tuplets" /\ srcl > 0
        /\ encoded' = encoded \o Characters(s, srcl) \o (IF breaks THEN Break ELSE <<>>)
        /\ column' = IF breaks THEN 0 ELSE column + 1
        /\ srcl' = IF srcl > 3 THEN srcl - 3 ELSE 0
        /\ UNCHANGED <<source, encoding>>

TieOff ==
    /\ encoding = "tuplets" /\ srcl = 0
    /\ encoding' = "done"
    /\ UNCHANGED <<source, srcl, column, encoded>>

-----------------------------------------------------------------------------
(* What is written, with the NUL that ties off the string, stays inside    *)
(* the allocation, however many line breaks it has.                        *)
EncodedFits == Len(encoded) + 1 <= Allocated(Len(source))

(* The k-th character behind the line breaks, 15 tuplets to a line.        *)
CharacterAt(k) == encoded[k + 2 * ((k - 1) \div 60)]

(* A decoder that does not know how the code works finds the source again: *)
(* four characters are a number of 24 bits, three bytes from the top, and  *)
(* as many dashes end the text as bytes are missing from the last three.   *)
EncodedDecodes ==
    encoding = "done" =>
        LET n == Len(source)
            tuplets == (n + 2) \div 3
        IN  /\ Len(encoded) = 4 * tuplets + 2 * (tuplets \div LINE)
            /\ \A k \in 1..(4 * tuplets) :
                  CharacterAt(k) = Minus <=> k > 4 * tuplets - (3 * tuplets - n)
            /\ \A j \in 1..n :
                  LET t == (j - 1) \div 3
                      v(c) == CharacterAt(4 * t + c) % 64
                      bits == ((v(1) * 64 + v(2)) * 64 + v(3)) * 64 + v(4)
                  IN  source[j] = (bits \div (256 ^ (2 - ((j - 1) % 3)))) % 256
=============================================================================
