---------------------------- MODULE MakeTextProofs ----------------------------
(***************************************************************************)
(* The texts of a disc are those of DiscText, for any disc a handle may    *)
(* hold, any digest and any number of tracks up to 99; they fit where they *)
(* are written when the disc is one that the sizes are reckoned for; the   *)
(* encoder fits its allocation, and what it writes can be decoded, for any *)
(* source; and what is hashed is hashed as the standard has it.  TextInv   *)
(* counts the characters, ValueInv says what has been printed and fed so   *)
(* far, CodedInv where the characters of each three bytes stand.           *)
(***************************************************************************)
EXTENDS MakeText, Sha1FeedProofs, DiscTocProofs

(* Every line of the text has 15 tuplets, the last one column of them.     *)
Progressed(tuplets, lines) ==
    /\ tuplets = 15 * lines + column
    /\ Len(encoded) = 4 * tuplets + 2 * lines
    /\ srcl > 0 => Len(source) - srcl = 3 * tuplets
    /\ 3 * tuplets <= Len(source) + 2

EncodeInv ==
    /\ source \in Bytes /\ srcl \in 0..Len(source) /\ column \in 0..14
    /\ encoded \in Seq(Int)
    /\ \E tuplets \in Nat, lines \in Nat : Progressed(tuplets, lines)

LEMMA EncodedIsEstimated ==
    EncodeInv => Len(encoded) <= Estimate(Len(source))
<1> SUFFICES ASSUME EncodeInv PROVE Len(encoded) <= Estimate(Len(source))
    OBVIOUS
<1>1. Len(source) \in Nat /\ column \in Nat  BY DEF EncodeInv, Bytes
<1>2. PICK tuplets \in Nat, lines \in Nat : Progressed(tuplets, lines)
      BY DEF EncodeInv
<1> DEFINE k == (Len(source) + 2) \div 3
<1>3. k \in Nat /\ tuplets <= k /\ 15 * lines <= k  BY <1>1, <1>2 DEF Progressed
<1>4. lines <= (4 * k) \div 60  BY <1>3
<1> HIDE DEF k
<1>5. (4 * k) \div 60 \in Nat  BY <1>3
<1>6. Len(encoded) <= 4 * k + 2 * ((4 * k) \div 60 + 1)
      BY <1>2, <1>3, <1>4, <1>5 DEF Progressed
<1> QED  BY <1>6 DEF Estimate, k

LEMMA EncodingStarts ==
    ASSUME NEW bytes \in Bytes, Encode(bytes)
    PROVE  EncodeInv'
<1>1. Len(bytes) \in Nat  BY DEF Bytes
<1>2. source' = bytes /\ srcl' = Len(bytes) /\ column' = 0 /\ encoded' = <<>>
      BY DEF Encode
<1>3. Progressed(0, 0)'  BY <1>1, <1>2 DEF Progressed
<1> QED  BY <1>1, <1>2, <1>3 DEF EncodeInv

(* The bytes of the source by threes, filled up with zeros, and the four   *)
(* characters that each three of them become.                              *)
Byte(k) == IF k <= Len(source) THEN source[k] ELSE 0
Triple(u) == [c \in 1..3 |-> Byte(3 * u + c)]
Code(u) == Characters(Triple(u), Len(source) - 3 * u)

LEMMA BytesAreBytes ==
    ASSUME source \in Bytes, NEW k \in Nat \ {0}
    PROVE  Byte(k) \in 0..255
<1>1. source \in Seq(0..255) /\ Len(source) \in Nat  BY DEF Bytes
<1>2. CASE k <= Len(source)
  <2>1. source[k] \in 0..255  BY <1>1, <1>2, ElementOfSeq
  <2> QED  BY <1>2, <2>1 DEF Byte
<1>3. CASE k > Len(source)
  BY <1>1, <1>3 DEF Byte
<1> QED  BY <1>1, <1>2, <1>3

LEMMA CodeIsFourNumbers ==
    ASSUME source \in Bytes, NEW u \in Nat
    PROVE  Code(u) \in Seq(Int) /\ Len(Code(u)) = 4
<1> DEFINE s == Triple(u)
           left == Len(source) - 3 * u
           c1 == s[1] \div 4
           c2 == (s[1] * 16 + s[2] \div 16) % 64
           c3 == IF left > 1 THEN (s[2] * 4 + s[3] \div 64) % 64 ELSE Minus
           c4 == IF left > 2 THEN s[3] % 64 ELSE Minus
<1>1. s[1] \in Int /\ s[2] \in Int /\ s[3] \in Int
  <2>1. \A k \in Nat \ {0} : Byte(k) \in Int  BY BytesAreBytes
  <2> QED  BY <2>1 DEF Triple
<1>2. Code(u) = <<c1, c2, c3, c4>>  BY DEF Code, Characters
<1> HIDE DEF s
<1>3. \A v \in Int : v \div 4 \in Int /\ v \div 16 \in Int /\ v \div 64 \in Int
                     /\ v % 64 \in Int
      OBVIOUS
<1>4. c1 \in Int  BY <1>1, <1>3
<1>5. c2 \in Int  BY <1>1, <1>3
<1>6. c3 \in Int
  <2>1. (s[2] * 4 + s[3] \div 64) % 64 \in Int  BY <1>1, <1>3
  <2> QED  BY <2>1 DEF Minus
<1>7. c4 \in Int  BY <1>1, <1>3 DEF Minus
<1> HIDE DEF c1, c2, c3, c4
<1> QED  BY <1>2, <1>4, <1>5, <1>6, <1>7

(* What stands where in two sequences written one behind the other.        *)
LEMMA BothAreWritten ==
    ASSUME NEW S, NEW s \in Seq(S), NEW t \in Seq(S)
    PROVE  /\ s \o t \in Seq(S) /\ Len(s \o t) = Len(s) + Len(t)
           /\ \A k \in 1..Len(s) : (s \o t)[k] = s[k]
           /\ \A k \in 1..Len(t) : (s \o t)[Len(s) + k] = t[k]
<1> DEFINE both == s \o t
<1>1. /\ both \in Seq(S) /\ Len(both) = Len(s) + Len(t)
      /\ \A k \in 1..(Len(s) + Len(t)) :
            both[k] = IF k <= Len(s) THEN s[k] ELSE t[k - Len(s)]
      BY ConcatProperties
<1>2. Len(s) \in Nat /\ Len(t) \in Nat  OBVIOUS
<1> HIDE DEF both
<1>3. ASSUME NEW k \in 1..Len(s) PROVE both[k] = s[k]
  <2>1. k \in 1..(Len(s) + Len(t)) /\ k <= Len(s)  BY <1>2
  <2> QED  BY <1>1, <2>1, Zenon
<1>4. ASSUME NEW k \in 1..Len(t) PROVE both[Len(s) + k] = t[k]
  <2>1. /\ Len(s) + k \in 1..(Len(s) + Len(t)) /\ ~ (Len(s) + k <= Len(s))
        /\ (Len(s) + k) - Len(s) = k
        BY <1>2
  <2> QED  BY <1>1, <2>1, Zenon
<1> QED  BY <1>1, <1>3, <1>4 DEF both

(* A tuplet writes the characters of the next three bytes and perhaps a    *)
(* line break.                                                             *)
LEMMA TupletIsCode ==
    ASSUME EncodeInv, Tuplet,
           NEW tuplets \in Nat, NEW lines \in Nat, Progressed(tuplets, lines)
    PROVE  encoded' = (encoded \o Code(tuplets)) \o (IF column + 1 = LINE THEN Break ELSE <<>>)
<1> DEFINE at == Len(source) - srcl
           s == [k \in 1..3 |-> IF k <= srcl THEN source[at + k] ELSE 0]
<1>1. Len(source) \in Nat /\ srcl \in 1..Len(source)
      BY DEF EncodeInv, Bytes, Tuplet
<1>2. at = 3 * tuplets /\ srcl = Len(source) - 3 * tuplets
      BY <1>1 DEF Progressed
<1>3. s = Triple(tuplets)  BY <1>1, <1>2 DEF Triple, Byte
<1>4. Characters(s, srcl) = Code(tuplets)  BY <1>2, <1>3 DEF Code
<1> QED  BY <1>4 DEF Tuplet

(* What was written before stays, the characters are behind it.            *)
LEMMA TupletWrites ==
    ASSUME EncodeInv, Tuplet,
           NEW tuplets \in Nat, NEW lines \in Nat, Progressed(tuplets, lines)
    PROVE  /\ encoded' \in Seq(Int)
           /\ Len(encoded') = Len(encoded) + (IF column + 1 = LINE THEN 6 ELSE 4)
           /\ \A k \in 1..Len(encoded) : encoded'[k] = encoded[k]
           /\ \A c \in 1..4 : encoded'[Len(encoded) + c] = Code(tuplets)[c]
<1> DEFINE chars == Code(tuplets)
           longer == encoded \o chars
<1>1. /\ Len(source) \in Nat /\ source \in Bytes /\ srcl \in 1..Len(source)
      /\ column \in 0..14 /\ encoded \in Seq(Int) /\ Len(encoded) \in Nat
      BY DEF EncodeInv, Bytes, Tuplet
<1>2. chars \in Seq(Int) /\ Len(chars) = 4  BY <1>1, CodeIsFourNumbers
<1>3. encoded' = longer \o (IF column + 1 = LINE THEN Break ELSE <<>>)
      BY TupletIsCode
<1>4. /\ column + 1 = LINE => encoded' = longer \o Break
      /\ column + 1 # LINE => encoded' = longer \o <<>>
      BY <1>3, Zenon
<1>5. /\ longer \in Seq(Int) /\ Len(longer) = Len(encoded) + 4
      /\ \A k \in 1..Len(encoded) : longer[k] = encoded[k]
      /\ \A c \in 1..4 : longer[Len(encoded) + c] = chars[c]
  <2> HIDE DEF chars
  <2>0. encoded \in Seq(Int) /\ chars \in Seq(Int)  BY <1>1, <1>2
  <2>1. /\ encoded \o chars \in Seq(Int)
        /\ Len(encoded \o chars) = Len(encoded) + Len(chars)
        /\ \A k \in 1..Len(encoded) : (encoded \o chars)[k] = encoded[k]
        /\ \A c \in 1..Len(chars) : (encoded \o chars)[Len(encoded) + c] = chars[c]
        BY <2>0, BothAreWritten
  <2> HIDE DEF longer
  <2> QED  BY <1>2, <2>1 DEF longer
<1> HIDE DEF chars, longer
<1>6. ASSUME NEW S \in {Break, <<>>}, encoded' = longer \o S
      PROVE  /\ encoded' \in Seq(Int) /\ Len(encoded') = Len(encoded) + 4 + Len(S)
             /\ \A k \in 1..Len(encoded) : encoded'[k] = encoded[k]
             /\ \A c \in 1..4 : encoded'[Len(encoded) + c] = chars[c]
  <2>1. S \in Seq(Int)
    <3>1. Break \in Seq(Int) /\ <<>> \in Seq(Int)  BY DEF Break
    <3> QED  BY <3>1
  <2>2. /\ encoded' \in Seq(Int) /\ Len(encoded') = Len(longer) + Len(S)
        /\ \A k \in 1..Len(longer) : encoded'[k] = longer[k]
    <3>1. longer \in Seq(Int) /\ encoded' = longer \o S  BY <1>5, <1>6
    <3> QED  BY <2>1, <3>1, BothAreWritten
  <2>2a. Len(encoded) \in Nat /\ Len(longer) = Len(encoded) + 4  BY <1>1, <1>5
  <2>3. ASSUME NEW k \in 1..Len(encoded) PROVE encoded'[k] = encoded[k]
    <3>1. k \in 1..Len(longer)  BY <2>2a
    <3> QED  BY <1>5, <2>2, <3>1, Zenon
  <2>4. ASSUME NEW c \in 1..4 PROVE encoded'[Len(encoded) + c] = chars[c]
    <3>1. Len(encoded) + c \in 1..Len(longer)  BY <2>2a
    <3> QED  BY <1>5, <2>2, <3>1, Zenon
  <2> QED  BY <1>5, <2>2, <2>3, <2>4
<1>7. Len(Break) = 2 /\ Len(<<>>) = 0  BY DEF Break
<1>8. CASE column + 1 = LINE
  <2>1. /\ encoded' \in Seq(Int) /\ Len(encoded') = Len(encoded) + 4 + Len(Break)
        /\ \A k \in 1..Len(encoded) : encoded'[k] = encoded[k]
        /\ \A c \in 1..4 : encoded'[Len(encoded) + c] = chars[c]
        BY <1>4, <1>6, <1>8, Zenon
  <2>2. Len(encoded') = Len(encoded) + (IF column + 1 = LINE THEN 6 ELSE 4)
        BY <1>1, <1>7, <1>8, <2>1
  <2> QED  BY <2>1, <2>2, Zenon DEF chars
<1>9. CASE column + 1 # LINE
  <2>1. /\ encoded' \in Seq(Int) /\ Len(encoded') = Len(encoded) + 4 + Len(<<>>)
        /\ \A k \in 1..Len(encoded) : encoded'[k] = encoded[k]
        /\ \A c \in 1..4 : encoded'[Len(encoded) + c] = chars[c]
        BY <1>4, <1>6, <1>9, Zenon
  <2>2. Len(encoded') = Len(encoded) + (IF column + 1 = LINE THEN 6 ELSE 4)
        BY <1>1, <1>7, <1>9, <2>1
  <2> QED  BY <2>1, <2>2, Zenon DEF chars
<1> QED  BY <1>8, <1>9

(* One tuplet more, and one line more when it was the fifteenth.           *)
LEMMA TupletProgresses ==
    ASSUME EncodeInv, Tuplet,
           NEW tuplets \in Nat, NEW lines \in Nat, Progressed(tuplets, lines)
    PROVE  /\ column + 1 = LINE => Progressed(tuplets + 1, lines + 1)'
           /\ column + 1 # LINE => Progressed(tuplets + 1, lines)'
<1>1. /\ Len(source) \in Nat /\ srcl \in 1..Len(source) /\ column \in 0..14
      /\ encoded \in Seq(Int) /\ Len(encoded) \in Nat
      BY DEF EncodeInv, Bytes, Tuplet
<1>2. /\ source' = source /\ srcl' = (IF srcl > 3 THEN srcl - 3 ELSE 0)
      /\ column' = (IF column + 1 = LINE THEN 0 ELSE column + 1)
      BY DEF Tuplet
<1>3. Len(encoded') = Len(encoded) + (IF column + 1 = LINE THEN 6 ELSE 4)
      BY TupletWrites
<1>4. ASSUME column + 1 = LINE PROVE Progressed(tuplets + 1, lines + 1)'
      BY <1>1, <1>2, <1>3, <1>4 DEF Progressed, LINE
<1>5. ASSUME column + 1 # LINE PROVE Progressed(tuplets + 1, lines)'
      BY <1>1, <1>2, <1>3, <1>5 DEF Progressed, LINE
<1> QED  BY <1>4, <1>5

(* The count of the next tuplet is right, and what it writes numbers.      *)
LEMMA TupletKeeps ==
    ASSUME EncodeInv, Tuplet
    PROVE  EncodeInv'
<1>1. PICK tuplets \in Nat, lines \in Nat : Progressed(tuplets, lines)
      BY DEF EncodeInv
<1>2. encoded' \in Seq(Int)  BY <1>1, TupletWrites
<1>3. tuplets + 1 \in Nat /\ lines + 1 \in Nat  OBVIOUS
<1>4. \E k \in Nat, l \in Nat : Progressed(k, l)'
  <2>1. CASE column + 1 = LINE  BY <1>1, <1>3, <2>1, TupletProgresses, Zenon
  <2>2. CASE column + 1 # LINE  BY <1>1, <1>3, <2>2, TupletProgresses, Zenon
  <2> QED  BY <2>1, <2>2
<1>5. /\ Len(source) \in Nat /\ srcl \in 1..Len(source) /\ column \in 0..14
      /\ source' = source /\ srcl' = (IF srcl > 3 THEN srcl - 3 ELSE 0)
      /\ column' = (IF column + 1 = LINE THEN 0 ELSE column + 1)
      BY DEF EncodeInv, Bytes, Tuplet
<1>6. srcl' \in 0..Len(source') /\ column' \in 0..14  BY <1>5 DEF LINE
<1>7. source' \in Bytes  BY <1>5 DEF EncodeInv
<1> QED  BY <1>2, <1>4, <1>6, <1>7, Zenon DEF EncodeInv

(* How many digits a number has is known from the powers of ten next to it. *)
LEMMA DigitsAreBounded ==
    ASSUME NEW v \in Nat
    PROVE  /\ DigitsOf(v) \in 1..10
           /\ v < 1000000 => DigitsOf(v) <= 6
           /\ v < 100000 => DigitsOf(v) <= 5
           /\ v < 100 => DigitsOf(v) <= 2
<1> DEFINE Fits(k) == (k = 10 \/ v < Powers[k]) /\ (k = 1 \/ Powers[k - 1] <= v)
<1>1. /\ Powers[1] = 10 /\ Powers[2] = 100 /\ Powers[3] = 1000
      /\ Powers[4] = 10000 /\ Powers[5] = 100000 /\ Powers[6] = 1000000
      /\ Powers[7] = 10000000 /\ Powers[8] = 100000000 /\ Powers[9] = 1000000000
  BY SMT DEF Powers
<1>2. \E k \in 1..10 : Fits(k)
  <2>1. \/ Fits(1) \/ Fits(2) \/ Fits(3) \/ Fits(4) \/ Fits(5)
        \/ Fits(6) \/ Fits(7) \/ Fits(8) \/ Fits(9) \/ Fits(10)
        BY <1>1, SMT
  <2> HIDE DEF Fits
  <2> QED  BY <2>1, SMT
<1>3. DigitsOf(v) \in 1..10 /\ Fits(DigitsOf(v))
  <2>1. DigitsOf(v) = CHOOSE k \in 1..10 : Fits(k)  BY DEF DigitsOf
  <2> HIDE DEF Fits
  <2> QED  BY <1>2, <2>1, Zenon
<1> DEFINE d == DigitsOf(v)
<1>4. \/ d = 1 \/ d = 2 \/ (d = 3 /\ Powers[2] <= v) \/ (d = 4 /\ Powers[3] <= v)
      \/ (d = 5 /\ Powers[4] <= v) \/ (d = 6 /\ Powers[5] <= v) \/ (d = 7 /\ Powers[6] <= v)
      \/ (d = 8 /\ Powers[7] <= v) \/ (d = 9 /\ Powers[8] <= v) \/ (d = 10 /\ Powers[9] <= v)
  <2>1. d \in 1..10 /\ (d = 1 \/ Powers[d - 1] <= v)  BY <1>3
  <2> HIDE DEF d
  <2> QED  BY <2>1, SMT
<1> HIDE DEF d
<1>5. (d <= 2 \/ 100 <= v) /\ (d <= 5 \/ 100000 <= v) /\ (d <= 6 \/ 1000000 <= v)
  BY <1>1, <1>4, SMT
<1> QED  BY <1>3, <1>5, SMT DEF d

(* The characters of a number, those of the discs that the sizes are       *)
(* reckoned for, and those of a track number.                              *)
LEMMA DigitsAreFew ==
    ASSUME NEW v \in Int
    PROVE  /\ Digits(v) \in Nat
           /\ SMALLEST <= v /\ v <= LARGEST => Digits(v) <= 6
           /\ 0 <= v /\ v <= 99 => Digits(v) <= 2
<1>1. SMALLEST = -99999 /\ LARGEST = 999999  BY DEF SMALLEST, LARGEST
<1>2. CASE v < 0
  <2>1. -v \in Nat  BY <1>2
  <2>2. DigitsOf(-v) \in 1..10 /\ (-v < 100000 => DigitsOf(-v) <= 5)
        BY <2>1, DigitsAreBounded
  <2>3. Digits(v) = 1 + DigitsOf(-v)  BY <1>2 DEF Digits
  <2> QED  BY <1>1, <1>2, <2>2, <2>3
<1>3. CASE v >= 0
  <2>1. v \in Nat  BY <1>3
  <2>2. /\ DigitsOf(v) \in 1..10 /\ (v < 1000000 => DigitsOf(v) <= 6)
        /\ v < 100 => DigitsOf(v) <= 2
        BY <2>1, DigitsAreBounded
  <2>3. Digits(v) = DigitsOf(v)  BY <1>3 DEF Digits
  <2> QED  BY <1>1, <1>3, <2>2, <2>3
<1> QED  BY <1>2, <1>3
-----------------------------------------------------------------------------
(* Which job is at which step.                                             *)
JobAtStep ==
    /\ job \in TextField \cup {"hash", "encode"}
    /\ step \in {"prefix", "add_id"} => job \in UrlField
    /\ step \in {"id", "copy"} => job \in UrlField \cup {"id"}
    /\ step = "tracks" => job = "submission_url"
    /\ step = "digits" => job = "freedb_id"
    /\ step \in {"toc", "offsets"} => job \in UrlField \cup {"toc_string"}
    /\ step = "hash" => job \in UrlField \cup {"id", "hash"}
    /\ step = "encode" => job \in UrlField \cup {"id", "encode"}
    /\ step \in {"prefix", "id", "hash", "encode", "copy", "add_id", "digits",
                 "tracks", "toc", "offsets", "done"}

IdFits ==
    /\ job \in TextField => Len(source) \in {0, 20}
    /\ length["id"] <= 30 /\ extent["id"] <= 31

FreedbFits ==
    /\ step = "digits" => length["freedb_id"] = 0
    /\ extent["freedb_id"] <= 9

(* Where the loop over the tracks stands.  On a printable disc it writes   *)
(* seven characters per number, but for the two limits and the sign that   *)
(* the first number does without.                                          *)
TocFits ==
    /\ step \notin {"offsets", "done"} => length["toc"] = 0 /\ extent["toc"] = 0 /\ room = 0
    /\ step = "offsets" =>
          /\ disc.first <= i /\ (i = disc.first \/ i <= disc.last + 1)
          /\ extent["toc"] = length["toc"] + 1
          /\ room = TocSize(disc)
    /\ Printable(disc) =>
          /\ step = "offsets" => length["toc"] <= 12 + 7 * (i - disc.first)
          /\ extent["toc"] <= room

TocStringFits ==
    /\ step # "done" => length["toc_string"] = 0
    /\ Printable(disc) => extent["toc_string"] <= 13 + 7 * MAX_TRACK

(* The prefix, the id behind it, the number of tracks behind that.         *)
UrlFits ==
    /\ job \in UrlField =>
          /\ step = "prefix" => length[job] = 0
          /\ step \in {"id", "hash", "encode", "copy", "add_id"} => length[job] <= 53
          /\ step = "tracks" => length[job] <= 83
          /\ step \in {"toc", "offsets"} => length[job] <= 93
    /\ Printable(disc) => \A u \in UrlField : extent[u] <= 111 + 7 * MAX_TRACK

TextInv ==
    /\ disc \in Discs /\ room \in Int /\ i \in Int
    /\ length \in [Text -> Nat] /\ extent \in [Text -> Nat]
    /\ JobAtStep /\ IdFits /\ FreedbFits /\ TocFits /\ TocStringFits /\ UrlFits
    /\ EncodeInv

(* What is known of a disc, and of one that is printable.                  *)
LEMMA DiscIsKnown ==
    ASSUME TextInv
    PROVE  /\ disc.first \in 1..MAX_TRACK /\ disc.last \in 0..MAX_TRACK
           /\ disc.first <= 99 /\ disc.last <= 99
           /\ disc.offsets \in [Slot -> Int]
           /\ MAX_TRACK \in Nat
BY MakeTextConstants, TextSizes, TocConstants DEF TextInv, Offsets

LEMMA PrintableIsKnown ==
    ASSUME Printable(disc)
    PROVE  /\ disc.last >= disc.first - 2
           /\ \A k \in Slot : SMALLEST <= disc.offsets[k] /\ disc.offsets[k] <= LARGEST
BY DEF Printable

LEMMA DiscStaysPrintable == disc' = disc => (Printable(disc)' <=> Printable(disc))
BY DEF Printable

LEMMA TextInvImpliesFits == TextInv => TextsFit
<1> SUFFICES ASSUME TextInv PROVE TextsFit
    OBVIOUS
<1>1. /\ extent["id"] \in Nat /\ extent["freedb_id"] \in Nat /\ extent["toc_string"] \in Nat
      /\ extent["submission_url"] \in Nat /\ extent["webservice_url"] \in Nat
  <2>1. \A u \in Text : extent[u] \in Nat  BY DEF TextInv
  <2>2. /\ "id" \in Text /\ "freedb_id" \in Text /\ "toc_string" \in Text
        /\ "submission_url" \in Text /\ "webservice_url" \in Text
        BY DEF Text, TextField
  <2> QED  BY <2>1, <2>2, Zenon
<1>2. MAX_TRACK \in Nat  BY TocConstants
<1>3. extent["id"] <= MB_DISC_ID_LENGTH + 1
  <2>1. extent["id"] <= 31  BY Zenon DEF TextInv, IdFits
  <2> QED  BY <1>1, <2>1, TextSizes
<1>4. extent["freedb_id"] <= FREEDB_DISC_ID_LENGTH + 1
  <2>1. extent["freedb_id"] <= 9  BY Zenon DEF TextInv, FreedbFits
  <2> QED  BY <1>1, <2>1, TextSizes
<1>5. Printable(disc) => extent["toc_string"] <= MB_TOC_STRING_LENGTH + 1
      BY <1>1, <1>2, TextSizes DEF TextInv, TocStringFits
<1>6. Printable(disc) => \A u \in UrlField : extent[u] <= MB_MAX_URL_LENGTH + 1
  <2> SUFFICES ASSUME Printable(disc), NEW u \in UrlField
               PROVE  extent[u] <= MB_MAX_URL_LENGTH + 1
      OBVIOUS
  <2>1. extent[u] \in Nat /\ extent[u] <= 111 + 7 * MAX_TRACK
        BY <1>1 DEF TextInv, UrlFits, UrlField
  <2> QED  BY <2>1, <1>2, TextSizes DEF MB_MAX_URL_LENGTH
<1>7. Printable(disc) => extent["toc"] <= room  BY DEF TextInv, TocFits
<1> QED  BY <1>3, <1>4, <1>5, <1>6, <1>7 DEF TextsFit, IdsAreWithin, TocsAreWithin

LEMMA InitText == Init => TextInv
<1> SUFFICES ASSUME Init PROVE TextInv
    OBVIOUS
<1>1. disc \in Discs
      BY MakeTextConstants DEF Init
<1>2. EncodeInv
  <2>1. source = <<>> /\ srcl = 0 /\ column = 0 /\ encoded = <<>>
        BY DEF Init, Base64Init
  <2>2. Progressed(0, 0)  BY <2>1 DEF Progressed
  <2> QED  BY <2>1, <2>2 DEF EncodeInv, Bytes
<1>3. /\ length = [t \in Text |-> 0] /\ extent = [t \in Text |-> 0] /\ room = 0 /\ i = 0
      /\ job \in TextField \cup {"hash", "encode"} /\ step = FirstStep[job]
      /\ source = <<>>
      BY DEF Init, Base64Init
<1>4. JobAtStep  BY <1>3 DEF JobAtStep, FirstStep, TextField, UrlField
<1>5. MAX_TRACK \in Nat  BY TocConstants
<1>6. /\ step \in {"prefix", "id", "hash", "encode", "digits", "toc"}
      /\ job \in UrlField => step = "prefix"
      BY <1>3 DEF FirstStep, TextField, UrlField
<1>7. \A t \in Text : length[t] = 0 /\ extent[t] = 0  BY <1>3
<1>8. IdFits /\ FreedbFits /\ TocFits /\ TocStringFits /\ UrlFits
      BY <1>3, <1>5, <1>6, <1>7
      DEF IdFits, FreedbFits, TocFits, TocStringFits, UrlFits, Text, TextField, UrlField
<1> QED  BY <1>1, <1>2, <1>3, <1>4, <1>8 DEF TextInv

(* The steps that print nothing: the next one is at a step where the same  *)
(* is known of the texts.                                                  *)
LEMMA QuietStep ==
    ASSUME TextInv, EncodeInv', JobAtStep',
           UNCHANGED <<job, disc, i, length, extent, room>>,
           job \in TextField => Len(source') \in {0, 20},
           \/ step' = step
           \/ step \in {"id", "hash", "encode"} /\ step' \in {"hash", "encode", "copy"}
           \/ step \in {"hash", "encode"} /\ step' = "done" /\ job \in {"hash", "encode"}
    PROVE  TextInv'
<1>1. Printable(disc)' <=> Printable(disc)  BY DiscStaysPrintable
<1>2. IdFits'  BY DEF TextInv, IdFits
<1>3. FreedbFits' /\ TocStringFits'  BY <1>1 DEF TextInv, FreedbFits, TocStringFits
<1>4. TocFits'  BY <1>1 DEF TextInv, TocFits, TocSize
<1>5. UrlFits'  BY <1>1 DEF TextInv, UrlFits, UrlField
<1> QED  BY <1>2, <1>3, <1>4, <1>5 DEF TextInv

(* Appending a text keeps the others as they are.                          *)
LEMMA AppendedChanges ==
    ASSUME TextInv, NEW t \in Text, NEW values, NEW characters \in Nat,
           Appended(t, values, characters)
    PROVE  /\ length' \in [Text -> Nat] /\ extent' \in [Text -> Nat]
           /\ length'[t] = length[t] + characters
           /\ extent'[t] = length[t] + characters + 1
           /\ \A u \in Text \ {t} : length'[u] = length[u] /\ extent'[u] = extent[u]
BY DEF TextInv, Appended

LEMMA IdKeeps ==
    ASSUME TextInv, Id
    PROVE  TextInv'
<1>1. EncodeInv  BY DEF TextInv
<1>2. ASSUME UNCHANGED base64Vars PROVE EncodeInv' /\ Len(source') = Len(source)
  <2>1. /\ source' = source /\ srcl' = srcl /\ column' = column /\ encoded' = encoded
        BY <1>2 DEF base64Vars
  <2> QED  BY <1>1, <2>1 DEF EncodeInv, Progressed
<1>3. job \in TextField => Len(source) \in {0, 20}  BY DEF TextInv, IdFits
<1>4. JobAtStep  BY DEF TextInv
<1>5. CASE StartId
  <2>1. JobAtStep'  BY <1>4, <1>5 DEF StartId, JobAtStep
  <2> QED  BY <1>2, <1>3, <1>5, <2>1, QuietStep DEF StartId, locals, texts
<1>6. CASE FeedPiece
  <2>1. JobAtStep'  BY <1>4, <1>6 DEF FeedPiece, JobAtStep
  <2> QED  BY <1>2, <1>3, <1>6, <2>1, QuietStep DEF FeedPiece, locals, texts
<1>7. CASE Final
  <2>1. JobAtStep'  BY <1>4, <1>7 DEF Final, makeVars, JobAtStep
  <2> QED  BY <1>2, <1>3, <1>7, <2>1, QuietStep DEF Final, makeVars, locals, texts
<1>8. CASE HashStep
  <2>1. JobAtStep'  BY <1>4, <1>8 DEF HashStep, makeVars, JobAtStep
  <2> QED  BY <1>2, <1>3, <1>8, <2>1, QuietStep DEF HashStep, makeVars, locals, texts
<1>9. CASE Hashed
  <2>1. JobAtStep' /\ (step' = "done" => job = "hash")
        BY <1>4, <1>9 DEF Hashed, JobAtStep
  <2> QED  BY <1>2, <1>3, <1>9, <2>1, QuietStep DEF Hashed, locals, texts
<1>10. CASE StartEncoding
  <2>1. PICK bytes \in IF job = "encode" THEN Sources ELSE Digests : Encode(bytes)
        BY <1>10 DEF StartEncoding
  <2>2. bytes \in Bytes  BY <2>1, MakeTextConstants
  <2>3. EncodeInv'  BY <2>1, <2>2, EncodingStarts
  <2>4. job \in TextField => Len(source') \in {0, 20}
        BY <2>1, MakeTextConstants DEF Encode, TextField
  <2>5. JobAtStep'  BY <1>4, <1>10 DEF StartEncoding, makeVars, JobAtStep
  <2> QED  BY <1>10, <2>3, <2>4, <2>5, QuietStep DEF StartEncoding, makeVars, locals, texts
<1>11. CASE EncodeStep
  <2>1. EncodeInv'
    <3>1. CASE Tuplet  BY <1>1, <3>1, TupletKeeps
    <3>2. CASE TieOff  BY <1>1, <3>2 DEF TieOff, EncodeInv, Progressed
    <3> QED  BY <1>11, <3>1, <3>2 DEF EncodeStep
  <2>2. source' = source  BY <1>11 DEF EncodeStep, Tuplet, TieOff
  <2>3. JobAtStep'  BY <1>4, <1>11 DEF EncodeStep, makeVars, JobAtStep
  <2> QED  BY <1>3, <1>11, <2>1, <2>2, <2>3, QuietStep DEF EncodeStep, makeVars, locals, texts
<1>12. CASE Encoded
  <2>1. JobAtStep' /\ (step' = "done" => job = "encode")
        BY <1>4, <1>12 DEF Encoded, JobAtStep
  <2> QED  BY <1>2, <1>3, <1>12, <2>1, QuietStep DEF Encoded, locals, texts
<1>13. CASE CopyId
  <2>1. EncodeInv' /\ Len(source') = Len(source)  BY <1>2, <1>13 DEF CopyId
  <2>2. /\ step = "copy" /\ UNCHANGED <<job, disc, i, room>>
        /\ step' = IF job = "id" THEN "done" ELSE "add_id"
        /\ length' = [length EXCEPT !["id"] = Len(encoded)]
        /\ extent' = [extent EXCEPT !["id"] = Estimate(Len(source)) + 1]
        BY <1>13 DEF CopyId, locals
  <2>3. job \in UrlField \cup {"id"} /\ JobAtStep'
        BY <1>4, <2>2 DEF JobAtStep, UrlField, TextField
  <2>4. Estimate(Len(source)) \in Nat /\ Estimate(Len(source)) <= 30
    <3>1. Len(source) = 0 \/ Len(source) = 20
          BY <1>3, <2>3 DEF TextField, UrlField
    <3>2. (0 + 2) \div 3 = 0 /\ (20 + 2) \div 3 = 7 /\ 0 \div 60 = 0 /\ 28 \div 60 = 0
          OBVIOUS
    <3>3. Estimate(0) = 2 /\ Estimate(20) = 30  BY <3>2 DEF Estimate
    <3>4. Estimate(Len(source)) = 2 \/ Estimate(Len(source)) = 30  BY <3>1, <3>3, Zenon
    <3> QED  BY <3>4
  <2>5. Len(encoded) \in Nat /\ Len(encoded) <= 30
    <3>1. Len(encoded) \in Nat
      <4>1. encoded \in Seq(Int)  BY <1>1 DEF EncodeInv
      <4> QED  BY <4>1, LenProperties
    <3>2. Len(encoded) <= Estimate(Len(source))  BY <1>1, EncodedIsEstimated
    <3> QED  BY <2>4, <3>1, <3>2
  <2>6. /\ length' \in [Text -> Nat] /\ extent' \in [Text -> Nat]
        /\ length'["id"] <= 30 /\ extent'["id"] <= 31
        /\ \A u \in Text \ {"id"} : length'[u] = length[u] /\ extent'[u] = extent[u]
    <3> DEFINE size == Estimate(Len(source)) + 1
               strlen == Len(encoded)
    <3>1. size \in Nat /\ size <= 31 /\ strlen \in Nat /\ strlen <= 30
          BY <2>4, <2>5
    <3>2. length' = [length EXCEPT !["id"] = strlen] /\ extent' = [extent EXCEPT !["id"] = size]
          BY <2>2
    <3>3. length \in [Text -> Nat] /\ extent \in [Text -> Nat] /\ "id" \in Text
          BY DEF TextInv, Text, TextField
    <3> HIDE DEF size, strlen
    <3> QED  BY <3>1, <3>2, <3>3
  <2>p. Printable(disc)' <=> Printable(disc)  BY <2>2, DiscStaysPrintable
  <2>7. IdFits'  BY <1>3, <2>1, <2>2, <2>6 DEF IdFits
  <2>8. FreedbFits' /\ TocStringFits'
        BY <2>2, <2>6, <2>p DEF TextInv, FreedbFits, TocStringFits, Text, TextField
  <2>9. TocFits'  BY <2>2, <2>6, <2>p DEF TextInv, TocFits, TocSize, Text
  <2>10. UrlFits'  BY <2>p, <2>2, <2>3, <2>6 DEF TextInv, UrlFits, UrlField, Text, TextField
  <2> QED  BY <2>1, <2>2, <2>3, <2>6, <2>7, <2>8, <2>9, <2>10 DEF TextInv
<1> QED  BY <1>5, <1>6, <1>7, <1>8, <1>9, <1>10, <1>11, <1>12, <1>13 DEF Id

LEMMA FreedbKeeps ==
    ASSUME TextInv, Freedb
    PROVE  TextInv'
<1>1. EncodeInv' /\ source' = source /\ job' = job /\ disc' = disc /\ room' = room
  <2>1. UNCHANGED <<job, disc, room, base64Vars>>
        BY DEF Freedb, AddDigit, NextStart, PrintFreedbId
  <2> QED  BY <2>1 DEF base64Vars, TextInv, EncodeInv, Progressed
<1>2. step = "digits" /\ job = "freedb_id"
      BY DEF Freedb, AddDigit, NextStart, PrintFreedbId, TextInv, JobAtStep
<1>p. Printable(disc)' <=> Printable(disc)  BY <1>1, DiscStaysPrintable
<1>3. i' \in Int
      BY DEF Freedb, AddDigit, NextStart, PrintFreedbId, locals, TextInv
<1>4. CASE step' = step /\ UNCHANGED <<length, extent>>
      BY <1>1, <1>2, <1>3, <1>4, <1>p, TocConstants
      DEF TextInv, JobAtStep, IdFits, FreedbFits, TocFits, TocStringFits, UrlFits, UrlField
<1>5. CASE PrintFreedbId
  <2>1. step' = "done" /\ Appended("freedb_id", FreedbBytes(disc), 8)  BY <1>5 DEF PrintFreedbId
  <2>2. "freedb_id" \in Text  BY DEF Text, TextField
  <2>3. /\ length' \in [Text -> Nat] /\ extent' \in [Text -> Nat]
        /\ extent'["freedb_id"] = length["freedb_id"] + 8 + 1
        /\ \A u \in Text \ {"freedb_id"} : length'[u] = length[u] /\ extent'[u] = extent[u]
        BY <2>1, <2>2, AppendedChanges
  <2>4. extent'["freedb_id"] = 9  BY <1>2, <2>3 DEF TextInv, FreedbFits
  <2>5. JobAtStep'  BY <1>1, <1>2, <2>1 DEF JobAtStep, TextField
  <2>6. \A u \in Text \ {"freedb_id"} : length'[u] = length[u] /\ extent'[u] = extent[u]
        BY <2>3
  <2>7. IdFits'  BY <1>1, <2>6 DEF TextInv, IdFits, Text, TextField
  <2>8. FreedbFits'  BY <2>1, <2>4 DEF FreedbFits
  <2>9. TocFits'  BY <1>1, <1>2, <2>1, <2>6, <1>p DEF TextInv, TocFits, Text
  <2>10. TocStringFits'  BY <1>2, <2>1, <2>6, <1>p DEF TextInv, TocStringFits, Text, TextField
  <2>11. UrlFits'  BY <1>p, <1>1, <1>2, <2>1, <2>6 DEF TextInv, UrlFits, UrlField, Text, TextField
  <2> QED  BY <1>1, <1>3, <2>3, <2>5, <2>7, <2>8, <2>9, <2>10, <2>11 DEF TextInv
<1> QED  BY <1>4, <1>5 DEF Freedb, AddDigit, NextStart, texts

LEMMA TocKeeps ==
    ASSUME TextInv, TocString
    PROVE  TextInv'
<1>1. EncodeInv' /\ source' = source /\ job' = job /\ disc' = disc
  <2>1. UNCHANGED <<job, disc, base64Vars>>
        BY DEF TocString, OmitToc, StartToc, PrintOffset, AppendToc
  <2> QED  BY <2>1 DEF base64Vars, TextInv, EncodeInv, Progressed
<1>2. /\ disc.first \in Int /\ disc.last \in Int /\ MAX_TRACK \in Nat
      /\ 1 <= disc.first /\ disc.first <= 99 /\ 0 <= disc.last /\ disc.last <= 99
      /\ disc.first <= MAX_TRACK /\ disc.last <= MAX_TRACK
      BY DiscIsKnown
<1>p. /\ Printable(disc)' <=> Printable(disc)
      /\ Printable(disc) => disc.last >= disc.first - 2
      BY <1>1, DiscStaysPrintable, PrintableIsKnown
<1>3. \A k \in Slot : /\ Digits(disc.offsets[k]) \in Nat
                      /\ Printable(disc) => Digits(disc.offsets[k]) <= 6
  <2> TAKE k \in Slot
  <2>1. disc.offsets[k] \in Int  BY DiscIsKnown
  <2>2. Printable(disc) => SMALLEST <= disc.offsets[k] /\ disc.offsets[k] <= LARGEST
        BY PrintableIsKnown
  <2> QED  BY <2>1, <2>2, DigitsAreFew
<1>4. /\ "toc" \in Text /\ length["toc"] \in Nat /\ length \in [Text -> Nat]
      /\ extent \in [Text -> Nat]
      BY DEF TextInv, Text
<1>5. JobAtStep  BY DEF TextInv
<1>o. CASE OmitToc
  <2>1. /\ step = "toc" /\ step' = "done" /\ i' = i /\ room' = room
        /\ length' = length /\ extent' = extent
        BY <1>o DEF OmitToc, locals, texts
  <2>2. JobAtStep'  BY <1>1, <1>5, <2>1 DEF JobAtStep
  <2>3. IdFits' /\ FreedbFits' /\ TocFits' /\ TocStringFits' /\ UrlFits'
        BY <1>1, <1>p, <2>1
        DEF TextInv, IdFits, FreedbFits, TocFits, TocStringFits, UrlFits, UrlField
  <2> QED  BY <1>1, <2>1, <2>2, <2>3 DEF TextInv
<1>6. CASE StartToc
  <2> DEFINE header == Digits(disc.first) + 1 + Digits(disc.last) + 1 + Digits(disc.offsets[0])
  <2>1. /\ step = "toc" /\ step' = "offsets" /\ i' = disc.first /\ room' = TocSize(disc)
        /\ Appended("toc", <<disc.first, disc.last, disc.offsets[0]>>, header)
        BY <1>6 DEF StartToc
  <2>2. header \in Nat /\ (Printable(disc) => header <= 12)
    <3>1. /\ Digits(disc.first) \in Nat /\ Digits(disc.first) <= 2
          /\ Digits(disc.last) \in Nat /\ Digits(disc.last) <= 2
          BY <1>2, DigitsAreFew
    <3>2. 0 \in Slot  BY <1>2 DEF Slot
    <3> QED  BY <1>3, <3>1, <3>2
  <2> HIDE DEF header
  <2>3. /\ length' \in [Text -> Nat] /\ extent' \in [Text -> Nat]
        /\ length'["toc"] = length["toc"] + header
        /\ extent'["toc"] = length["toc"] + header + 1
        /\ \A u \in Text \ {"toc"} : length'[u] = length[u] /\ extent'[u] = extent[u]
        BY <1>4, <2>1, <2>2, AppendedChanges
  <2>4. length["toc"] = 0  BY <2>1 DEF TextInv, TocFits
  <2>5. JobAtStep'  BY <1>1, <1>5, <2>1 DEF JobAtStep
  <2>6. TocFits'
    <3>1. room' \in Int /\ room' = (1 + disc.last - disc.first + 3) * 7 + 1
          BY <1>2, <2>1 DEF TocSize
    <3>2. Printable(disc) => room' >= 15  BY <1>2, <1>p, <3>1
    <3>3. /\ length'["toc"] = header /\ extent'["toc"] = header + 1
          /\ i' = disc.first /\ disc'.first = disc.first /\ disc'.last = disc.last
          BY <1>1, <2>1, <2>2, <2>3, <2>4
    <3>4. Printable(disc) => length'["toc"] <= 12 + 7 * (i' - disc.first) /\ extent'["toc"] <= room'
          BY <1>2, <2>2, <3>1, <3>2, <3>3
    <3> QED  BY <1>2, <1>p, <2>1, <2>2, <3>1, <3>3, <3>4 DEF TocFits, TocSize
  <2>7. IdFits' /\ FreedbFits' /\ TocStringFits' /\ UrlFits'
    <3>1. \A u \in TextField : length'[u] = length[u] /\ extent'[u] = extent[u]
          BY <2>3 DEF Text, TextField
    <3>2. IdFits'  BY <1>1, <3>1 DEF TextInv, IdFits, TextField
    <3>3. FreedbFits' /\ TocStringFits'
          BY <1>1, <1>p, <2>1, <3>1 DEF TextInv, FreedbFits, TocStringFits, TextField
    <3>4. UrlFits'  BY <1>1, <1>p, <2>1, <3>1 DEF TextInv, UrlFits, UrlField, TextField
    <3> QED  BY <3>2, <3>3, <3>4
  <2>8. room' \in Int /\ i' \in Int  BY <1>2, <2>1 DEF TocSize
  <2> QED  BY <1>1, <2>3, <2>5, <2>6, <2>7, <2>8 DEF TextInv
<1>7. CASE PrintOffset
  <2> DEFINE characters == 1 + Digits(disc.offsets[i])
  <2>1. /\ step = "offsets" /\ step' = "offsets" /\ i' = i + 1 /\ room' = room /\ i <= disc.last
        /\ Appended("toc", <<disc.offsets[i]>>, characters)
        BY <1>7 DEF PrintOffset
  <2>2. /\ i \in Int /\ disc.first <= i /\ i <= disc.last
        /\ Printable(disc) => length["toc"] <= 12 + 7 * (i - disc.first)
        /\ room = TocSize(disc)
        BY <1>2, <2>1 DEF TextInv, TocFits
  <2>3. characters \in Nat /\ (Printable(disc) => characters <= 7)
    <3>1. i \in Slot  BY <1>2, <2>2 DEF Slot
    <3> QED  BY <1>3, <3>1
  <2> HIDE DEF characters
  <2>4. /\ length' \in [Text -> Nat] /\ extent' \in [Text -> Nat]
        /\ length'["toc"] = length["toc"] + characters
        /\ extent'["toc"] = length["toc"] + characters + 1
        /\ \A u \in Text \ {"toc"} : length'[u] = length[u] /\ extent'[u] = extent[u]
        BY <1>4, <2>1, <2>3, AppendedChanges
  <2>5. JobAtStep'  BY <1>1, <1>5, <2>1 DEF JobAtStep
  <2>6. TocFits'
    <3>1. Printable(disc) => length'["toc"] <= 12 + 7 * (i + 1 - disc.first)
          BY <1>2, <1>4, <2>2, <2>3, <2>4
    <3>2. room = (1 + disc.last - disc.first + 3) * 7 + 1  BY <2>2 DEF TocSize
    <3>3. Printable(disc) => extent'["toc"] <= room
          BY <1>2, <1>4, <2>2, <2>3, <2>4, <3>1, <3>2
    <3>4. extent'["toc"] = length'["toc"] + 1  BY <2>4
    <3>5. disc'.first = disc.first /\ disc'.last = disc.last /\ i' = i + 1 /\ room' = room
          BY <1>1, <2>1
    <3> QED  BY <1>2, <1>p, <2>1, <2>2, <3>1, <3>3, <3>4, <3>5 DEF TocFits, TocSize
  <2>7. IdFits' /\ FreedbFits' /\ TocStringFits' /\ UrlFits'
    <3>1. \A u \in TextField : length'[u] = length[u] /\ extent'[u] = extent[u]
          BY <2>4 DEF Text, TextField
    <3>2. IdFits'  BY <1>1, <3>1 DEF TextInv, IdFits, TextField
    <3>3. FreedbFits' /\ TocStringFits'
          BY <1>1, <1>p, <2>1, <3>1 DEF TextInv, FreedbFits, TocStringFits, TextField
    <3>4. UrlFits'  BY <1>1, <1>p, <2>1, <3>1 DEF TextInv, UrlFits, UrlField, TextField
    <3> QED  BY <3>2, <3>3, <3>4
  <2>8. room' \in Int /\ i' \in Int  BY <2>1, <2>2 DEF TextInv
  <2> QED  BY <1>1, <2>4, <2>5, <2>6, <2>7, <2>8 DEF TextInv
<1>8. CASE AppendToc
  <2>1. /\ step = "offsets" /\ step' = "done" /\ i' = i /\ room' = room
        BY <1>8 DEF AppendToc, locals
  <2>2. Printable(disc) => length["toc"] <= 12 + 7 * MAX_TRACK /\ extent["toc"] <= room
    <3>1. /\ i \in Int /\ (i = disc.first \/ i <= disc.last + 1)
          /\ Printable(disc) => length["toc"] <= 12 + 7 * (i - disc.first)
          BY <1>2, <2>1 DEF TextInv, TocFits
    <3> QED  BY <1>2, <1>4, <3>1 DEF TextInv, TocFits
  <2>3. job \in UrlField \cup {"toc_string"}  BY <1>5, <2>1 DEF JobAtStep
  <2>4. job \in Text /\ job # "toc"  BY <2>3 DEF Text, TextField, UrlField
  <2>5. length[job] \in Nat /\ length[job] <= (IF job = "toc_string" THEN 0 ELSE 93)
    <3>1. length[job] \in Nat  BY <1>4, <2>4
    <3>2. job = "toc_string" => length[job] = 0
          BY <2>1 DEF TextInv, TocStringFits
    <3>3. job # "toc_string" => length[job] <= 93
          BY <2>1, <2>3 DEF TextInv, UrlFits
    <3> QED  BY <3>1, <3>2, <3>3
  <2> DEFINE characters == length["toc"] + (IF job = "toc_string" THEN 0 ELSE 5)
  <2>6. \E values : Appended(job, values, characters)
    <3>1. CASE job = "toc_string"
      <4>1. Appended(job, text["toc"], length["toc"])  BY <1>8, <3>1 DEF AppendToc
      <4>2. characters = length["toc"]  BY <1>4, <3>1
      <4> QED  BY <4>1, <4>2
    <3>2. CASE job # "toc_string"
      <4>1. Appended(job, <<text["toc"]>>, 5 + length["toc"])  BY <1>8, <3>2 DEF AppendToc
      <4>2. characters = 5 + length["toc"]  BY <1>4, <3>2
      <4> QED  BY <4>1, <4>2
    <3> QED  BY <3>1, <3>2
  <2>6a. characters \in Nat  BY <1>4
  <2>7. /\ length' \in [Text -> Nat] /\ extent' \in [Text -> Nat]
        /\ extent'[job] = length[job] + characters + 1
        /\ \A u \in Text \ {job} : length'[u] = length[u] /\ extent'[u] = extent[u]
    <3> HIDE DEF characters
    <3> QED  BY <2>4, <2>6, <2>6a, AppendedChanges
  <2>8. Printable(disc) =>
            /\ job = "toc_string" => extent'[job] <= 13 + 7 * MAX_TRACK
            /\ job # "toc_string" => extent'[job] <= 111 + 7 * MAX_TRACK
        BY <1>2, <1>4, <2>2, <2>5, <2>7
  <2>9. JobAtStep'  BY <1>1, <1>5, <2>1 DEF JobAtStep
  <2>10. IdFits' /\ FreedbFits' /\ TocFits'
    <3>1. \A u \in {"id", "freedb_id", "toc"} : u \in Text \ {job}
          BY <2>3, <2>4 DEF Text, TextField, UrlField
    <3>2. \A u \in {"id", "freedb_id", "toc"} : length'[u] = length[u] /\ extent'[u] = extent[u]
          BY <2>7, <3>1
    <3>3. IdFits'  BY <1>1, <3>2 DEF TextInv, IdFits
    <3>4. FreedbFits'  BY <2>1, <3>2 DEF TextInv, FreedbFits
    <3>5. TocFits'  BY <1>p, <2>1, <2>2, <3>2 DEF TocFits
    <3> QED  BY <3>3, <3>4, <3>5
  <2>11. TocStringFits' /\ UrlFits'
        BY <1>1, <1>2, <1>p, <2>1, <2>3, <2>4, <2>7, <2>8
        DEF TextInv, TocStringFits, UrlFits, UrlField, Text, TextField
  <2>12. room' \in Int /\ i' \in Int  BY <2>1 DEF TextInv
  <2> QED  BY <1>1, <2>7, <2>9, <2>10, <2>11, <2>12 DEF TextInv
<1> QED  BY <1>o, <1>6, <1>7, <1>8 DEF TocString

LEMMA UrlKeeps ==
    ASSUME TextInv, Url
    PROVE  TextInv'
<1>1. /\ EncodeInv' /\ source' = source /\ job' = job /\ disc' = disc /\ room' = room
      /\ i' = i
  <2>1. UNCHANGED <<job, disc, room, i, base64Vars>>
        BY DEF Url, Prefix, AddId, Tracks, locals
  <2> QED  BY <2>1 DEF base64Vars, TextInv, EncodeInv, Progressed
<1>p. Printable(disc)' <=> Printable(disc)  BY <1>1, DiscStaysPrintable
<1>2. JobAtStep  BY DEF TextInv
<1>3. MAX_TRACK \in Nat  BY TocConstants
<1>4. /\ job \in UrlField /\ step \in {"prefix", "add_id", "tracks"}
      /\ step' \in {"id", "tracks", "toc"}
      /\ step' = "tracks" => job = "submission_url"
      BY <1>2 DEF Url, Prefix, AddId, Tracks, JobAtStep, UrlField
<1>5. job \in Text \ {"toc", "id", "freedb_id", "toc_string"}
      BY <1>4 DEF Text, TextField, UrlField
<1>6. length[job] \in Nat /\ length["id"] \in Nat /\ length["id"] <= 30
      BY <1>5 DEF TextInv, IdFits, Text, TextField
<1>7. \E values : \E characters \in Nat :
          /\ Appended(job, values, characters)
          /\ step' = "id" => length[job] + characters <= 53
          /\ step' = "tracks" => length[job] + characters <= 83
          /\ step' = "toc" => length[job] + characters <= 93
  <2>1. CASE Prefix
    <3> DEFINE characters == PROTOCOL + 18 + 13 + (IF job = "submission_url" THEN 4 ELSE 17)
    <3>1. Appended(job, <<>>, characters) /\ step = "prefix" /\ step' = "id"
          BY <2>1 DEF Prefix
    <3>2. characters \in Nat /\ characters <= 53  BY MakeTextConstants
    <3>3. length[job] = 0  BY <1>4, <3>1 DEF TextInv, UrlFits
    <3> HIDE DEF characters
    <3> QED  BY <3>1, <3>2, <3>3
  <2>2. CASE AddId
    <3>1. Appended(job, <<text["id"]>>, length["id"]) /\ step = "add_id"
          /\ step' # "id"
          BY <2>2 DEF AddId
    <3>2. length[job] <= 53  BY <1>4, <3>1 DEF TextInv, UrlFits
    <3>3. length[job] + length["id"] <= 83  BY <1>6, <3>2
    <3> QED  BY <1>6, <3>1, <3>3
  <2>3. CASE Tracks
    <3> DEFINE characters == 8 + Digits(disc.last)
    <3>1. Appended(job, <<disc.last>>, characters) /\ step = "tracks" /\ step' = "toc"
          BY <2>3 DEF Tracks
    <3>2. characters \in Nat /\ characters <= 10
      <4>1. disc.last \in Int /\ 0 <= disc.last /\ disc.last <= 99  BY DiscIsKnown
      <4>2. Digits(disc.last) \in Nat /\ Digits(disc.last) <= 2
            BY <4>1, DigitsAreFew
      <4> QED  BY <4>2
    <3>3. length[job] <= 83  BY <1>4, <3>1 DEF TextInv, UrlFits
    <3> HIDE DEF characters
    <3> QED  BY <1>6, <3>1, <3>2, <3>3
  <2> QED  BY <2>1, <2>2, <2>3 DEF Url
<1>8. PICK values : \E characters \in Nat :
          /\ Appended(job, values, characters)
          /\ step' = "id" => length[job] + characters <= 53
          /\ step' = "tracks" => length[job] + characters <= 83
          /\ step' = "toc" => length[job] + characters <= 93
      BY <1>7
<1>9. PICK characters \in Nat :
          /\ Appended(job, values, characters)
          /\ step' = "id" => length[job] + characters <= 53
          /\ step' = "tracks" => length[job] + characters <= 83
          /\ step' = "toc" => length[job] + characters <= 93
      BY <1>8
<1>10. /\ length' \in [Text -> Nat] /\ extent' \in [Text -> Nat]
       /\ length'[job] = length[job] + characters
       /\ extent'[job] = length[job] + characters + 1
       /\ \A u \in Text \ {job} : length'[u] = length[u] /\ extent'[u] = extent[u]
       BY <1>5, <1>9, AppendedChanges
<1>11. length'[job] <= 93 /\ extent'[job] <= 94
       BY <1>4, <1>6, <1>9, <1>10
<1>12. JobAtStep'
       BY <1>1, <1>2, <1>4 DEF JobAtStep, UrlField
<1>13. \A u \in {"toc", "id", "freedb_id", "toc_string"} :
           length'[u] = length[u] /\ extent'[u] = extent[u]
       BY <1>5, <1>10 DEF Text, TextField
<1>14. IdFits'  BY <1>1, <1>13 DEF TextInv, IdFits
<1>15. FreedbFits' /\ TocStringFits'
       BY <1>p, <1>4, <1>13 DEF TextInv, FreedbFits, TocStringFits
<1>16. TocFits'  BY <1>p, <1>1, <1>4, <1>13 DEF TextInv, TocFits
<1>17. UrlFits'
  <2>1. Printable(disc) => \A u \in UrlField : extent'[u] <= 111 + 7 * MAX_TRACK
    <3> SUFFICES ASSUME Printable(disc), NEW u \in UrlField
                 PROVE  extent'[u] <= 111 + 7 * MAX_TRACK
        OBVIOUS
    <3>1. u \in Text  BY DEF UrlField, Text, TextField
    <3>2. CASE u = job
      <4>1. extent'[job] \in Nat  BY <1>5, <1>10
      <4> QED  BY <1>3, <1>11, <3>2, <4>1
    <3>3. CASE u # job  BY <1>10, <3>1, <3>3 DEF TextInv, UrlFits
    <3> QED  BY <3>2, <3>3
  <2> QED  BY <1>p, <1>1, <1>4, <1>9, <1>10, <2>1 DEF UrlFits
<1> QED  BY <1>1, <1>10, <1>12, <1>14, <1>15, <1>16, <1>17 DEF TextInv

LEMMA TextStep == TextInv /\ [Next]_vars => TextInv'
<1> SUFFICES ASSUME TextInv, [Next]_vars PROVE TextInv'
    OBVIOUS
<1>1. CASE Id  BY <1>1, IdKeeps
<1>2. CASE Freedb  BY <1>2, FreedbKeeps
<1>3. CASE TocString  BY <1>3, TocKeeps
<1>4. CASE Url  BY <1>4, UrlKeeps
<1>5. CASE UNCHANGED vars
  <2>1. /\ UNCHANGED <<job, disc, i, length, extent, room, step>>
        /\ UNCHANGED <<source, srcl, column, encoded>>
        BY <1>5 DEF vars, makeVars, locals, texts, base64Vars
  <2>2. EncodeInv'  BY <2>1 DEF TextInv, EncodeInv, Progressed
  <2>3. JobAtStep'  BY <2>1 DEF TextInv, JobAtStep
  <2>4. job \in TextField => Len(source') \in {0, 20}  BY <2>1 DEF TextInv, IdFits
  <2> QED  BY <2>1, <2>2, <2>3, <2>4, QuietStep
<1> QED  BY <1>1, <1>2, <1>3, <1>4, <1>5 DEF Next, Returned

LEMMA TextInvAlways == Spec => []TextInv
BY InitText, TextStep, PTL DEF Spec

(* At no step is more written of an id than there is room for, whatever    *)
(* the handle holds (create_disc_id, create_freedb_disc_id); nor of the    *)
(* TOC and of the texts that contain it (create_toc_string, both URLs),    *)
(* when the disc is one that their sizes are reckoned for.                 *)
THEOREM TextsAlwaysFit == Spec => []TextsFit
BY TextInvAlways, TextInvImpliesFits, PTL

(* rfc822_binary stays inside its allocation for a source of any length.   *)
THEOREM EncodedAlwaysFits == Spec => []EncodedFits
<1>1. TextInv => EncodedFits
  <2> SUFFICES ASSUME TextInv PROVE Len(encoded) + 1 <= Allocated(Len(source))
      BY DEF EncodedFits
  <2>1. Len(encoded) <= Estimate(Len(source))  BY EncodedIsEstimated DEF TextInv
  <2>2. Len(encoded) \in Nat
    <3>1. encoded \in Seq(Int)  BY DEF TextInv, EncodeInv
    <3> QED  BY <3>1, LenProperties
  <2>3. Estimate(Len(source)) \in Int
    <3>1. Len(source) \in Nat  BY DEF TextInv, EncodeInv, Bytes
    <3> QED  BY <3>1 DEF Estimate
  <2> QED  BY <2>1, <2>2, <2>3 DEF Allocated
<1> QED  BY <1>1, TextInvAlways, PTL

-----------------------------------------------------------------------------
(* What is printed.  The numbers hashed for the id are those of the disc,  *)
(* as many as have left pieces, and sha_final comes when all have.         *)
FedInv ==
    /\ pieces \in Seq(Nat) /\ fed \in Seq(Int)
    /\ \A k \in 1..Len(fed) : fed[k] = PrintedPiece(disc, k)
    /\ job \in UrlField \cup {"id"} =>
          /\ step \in {"prefix", "id"} =>
                Len(fed) = 0 /\ feeding \notin {"length", "done"}
          /\ step = "hash" => Len(fed) + Len(pieces) = MAX_TRACK + 3
          /\ step = "hash" /\ feeding \in {"length", "done"} => Len(pieces) = 0
          /\ step \in {"encode", "copy"} => Len(fed) = MAX_TRACK + 3

(* create_toc_string has printed the offsets of first..i - 1.              *)
TocInv ==
    /\ step \notin {"offsets", "done"} => text["toc"] = <<>>
    /\ step = "offsets" => text["toc"] = <<disc.first, disc.last, disc.offsets[0]>>
                                             \o Listed(disc.offsets, disc.first, i - 1)

(* What a URL consists of so far.                                          *)
UrlSoFar ==
    IF step = "tracks" THEN <<PrintedId(disc)>>
    ELSE IF step = "done" /\ TocHasSize THEN Printed(disc, job)
    ELSE IF step \in {"toc", "offsets", "done"}
    THEN IF job = "submission_url" THEN <<PrintedId(disc), disc.last>> ELSE <<PrintedId(disc)>>
    ELSE <<>>

ValueInv ==
    /\ DOMAIN text = Text
    /\ FedInv /\ TocInv
    /\ job \in UrlField \cup {"id"} /\ step \in {"add_id", "tracks", "toc", "offsets", "done"}
          => text["id"] = PrintedId(disc)
    /\ job = "toc_string" =>
          text["toc_string"] = IF step = "done" /\ TocHasSize THEN PrintedToc(disc) ELSE <<>>
    /\ job \in UrlField => text[job] = UrlSoFar
    /\ step = "offsets" => TocHasSize

(* The cases of Printed.                                                   *)
LEMMA PrintedCases ==
    ASSUME NEW d
    PROVE  /\ Printed(d, "id") = PrintedId(d)
           /\ Printed(d, "toc_string") = PrintedToc(d)
           /\ Printed(d, "submission_url") = <<PrintedId(d), d.last, PrintedToc(d)>>
           /\ Printed(d, "webservice_url") = <<PrintedId(d), PrintedToc(d)>>
<1>1. Printed(d, "id") = PrintedId(d)
  BY Zenon DEF Printed
<1>2. Printed(d, "toc_string") = PrintedToc(d)
  BY Zenon DEF Printed
<1>3. Printed(d, "submission_url") = <<PrintedId(d), d.last, PrintedToc(d)>>
  BY Zenon DEF Printed
<1>4. Printed(d, "webservice_url") = <<PrintedId(d), PrintedToc(d)>>
  BY Zenon DEF Printed
<1> QED BY <1>1, <1>2, <1>3, <1>4

(* What is left of a text that gets no TOC.                                *)
LEMMA LeftOfTheText ==
    ASSUME NEW d
    PROVE  /\ WithoutToc("toc_string", Printed(d, "toc_string")) = <<>>
           /\ WithoutToc("submission_url", Printed(d, "submission_url"))
                = <<PrintedId(d), d.last>>
           /\ WithoutToc("webservice_url", Printed(d, "webservice_url")) = <<PrintedId(d)>>
<1>1. ASSUME NEW a, NEW b, NEW c
      PROVE  SubSeq(<<a, b, c>>, 1, Len(<<a, b, c>>) - 1) = <<a, b>>
  <2> DEFINE S == {a, b, c}
             whole == <<a, b, c>>
             front == <<a, b>>
             r == SubSeq(whole, 1, 2)
  <2>1. /\ whole[1] = a /\ whole[2] = b /\ Len(whole) - 1 = 2
        /\ \A k \in 1..2 : whole[k] \in S
    OBVIOUS
  <2>2. front \in Seq(S) /\ Len(front) = 2 /\ front[1] = a /\ front[2] = b
    OBVIOUS
  <2> HIDE DEF S, whole, front
  <2>3. /\ r \in Seq(S) /\ Len(r) = IF 1 <= 2 THEN 2 - 1 + 1 ELSE 0
        /\ \A k \in 1..(2 - 1 + 1) : r[k] = whole[1 + k - 1]
    BY <2>1, SubSeqProperties, 1 \in Int, 2 \in Int
  <2> HIDE DEF r
  <2>4. Len(r) = Len(front) /\ \A k \in 1..Len(r) : r[k] = front[k]
    BY <2>1, <2>2, <2>3
  <2>5. r = front
    BY <2>2, <2>3, <2>4, SeqEqual, Zenon
  <2> QED BY <2>1, <2>5 DEF r, whole, front
<1>2. ASSUME NEW a, NEW c
      PROVE  SubSeq(<<a, c>>, 1, Len(<<a, c>>) - 1) = <<a>>
  <2> DEFINE S == {a, c}
             whole == <<a, c>>
             front == <<a>>
             r == SubSeq(whole, 1, 1)
  <2>1. whole[1] = a /\ Len(whole) - 1 = 1 /\ \A k \in 1..1 : whole[k] \in S
    OBVIOUS
  <2>2. front \in Seq(S) /\ Len(front) = 1 /\ front[1] = a
    OBVIOUS
  <2> HIDE DEF S, whole, front
  <2>3. /\ r \in Seq(S) /\ Len(r) = IF 1 <= 1 THEN 1 - 1 + 1 ELSE 0
        /\ \A k \in 1..(1 - 1 + 1) : r[k] = whole[1 + k - 1]
    BY <2>1, SubSeqProperties, 1 \in Int
  <2> HIDE DEF r
  <2>4. Len(r) = Len(front) /\ \A k \in 1..Len(r) : r[k] = front[k]
    BY <2>1, <2>2, <2>3
  <2>5. r = front
    BY <2>2, <2>3, <2>4, SeqEqual, Zenon
  <2> QED BY <2>1, <2>5 DEF r, whole, front
<1>3. \A x : WithoutToc("toc_string", x) = <<>>
  BY Zenon DEF WithoutToc, NoText
<1>4. \A x : /\ WithoutToc("submission_url", x) = SubSeq(x, 1, Len(x) - 1)
             /\ WithoutToc("webservice_url", x) = SubSeq(x, 1, Len(x) - 1)
  BY Zenon DEF WithoutToc
<1>5. WithoutToc("submission_url", Printed(d, "submission_url")) = <<PrintedId(d), d.last>>
  <2> DEFINE whole == <<PrintedId(d), d.last, PrintedToc(d)>>
  <2>1. SubSeq(whole, 1, Len(whole) - 1) = <<PrintedId(d), d.last>>
    BY <1>1, Zenon
  <2>2. Printed(d, "submission_url") = whole
    BY PrintedCases
  <2> HIDE DEF whole
  <2> QED BY <1>4, <2>1, <2>2, Zenon
<1>6. WithoutToc("webservice_url", Printed(d, "webservice_url")) = <<PrintedId(d)>>
  <2> DEFINE whole == <<PrintedId(d), PrintedToc(d)>>
  <2>1. SubSeq(whole, 1, Len(whole) - 1) = <<PrintedId(d)>>
    BY <1>2, Zenon
  <2>2. Printed(d, "webservice_url") = whole
    BY PrintedCases
  <2> HIDE DEF whole
  <2> QED BY <1>4, <2>1, <2>2, Zenon
<1> QED BY <1>3, <1>5, <1>6, Zenon

(* Whether there can be memory for the TOC is known of the disc.           *)
LEMMA SizeStays == disc' = disc => (TocHasSize' <=> TocHasSize)
BY DEF TocHasSize, TocSize

LEMMA ValueInvImpliesTexts == ValueInv => TextsAreThoseOfTheDisc
<1> SUFFICES ASSUME ValueInv, step = "done", job \in TextField \ {"freedb_id"}
             PROVE  text[job] = IF job = "id" \/ TocHasSize THEN Printed(disc, job)
                                ELSE WithoutToc(job, Printed(disc, job))
  BY DEF TextsAreThoseOfTheDisc
<1> HIDE DEF FedInv, TocInv
<1>1. CASE job = "id"
  BY <1>1, PrintedCases DEF ValueInv
<1>2. CASE job = "toc_string"
  BY <1>2, PrintedCases, LeftOfTheText DEF ValueInv
<1>3. CASE job \in UrlField
  <2>1. text[job] = UrlSoFar
    BY <1>3 DEF ValueInv
  <2> QED BY <1>3, <2>1, LeftOfTheText DEF UrlSoFar, UrlField
<1> QED BY <1>1, <1>2, <1>3 DEF TextField, UrlField

(* Once all pieces are fed, what was fed is the text of the id.            *)
LEMMA AllFed ==
    ASSUME TextInv, FedInv, Len(fed) = MAX_TRACK + 3
    PROVE  fed = PrintedId(disc)
<1>1. MAX_TRACK \in Nat /\ disc.first \in Int /\ disc.last \in Int
  BY DiscIsKnown
<1>2. \A k \in Slot : disc.offsets[k] \in Int
  BY DiscIsKnown
<1> DEFINE front == <<disc.first, disc.last>>
           back == Listed(disc.offsets, 0, MAX_TRACK)
<1>3. PrintedId(disc) = front \o back
  BY DEF PrintedId, DiscIdOf
<1>4. front \in Seq(Int) /\ Len(front) = 2 /\ front[1] = disc.first /\ front[2] = disc.last
  BY <1>1
<1>5. /\ back \in Seq(Int) /\ Len(back) = MAX_TRACK + 1
      /\ \A k \in 1..(MAX_TRACK + 1) : back[k] = disc.offsets[k - 1]
  <2>1. back = [k \in 1..(MAX_TRACK + 1) |-> disc.offsets[k - 1]]
    <3>1. MAX_TRACK - 0 + 1 = MAX_TRACK + 1 /\ \A k \in Int : 0 + k - 1 = k - 1
      BY <1>1
    <3> QED BY <3>1 DEF Listed
  <2>2. \A k \in 1..(MAX_TRACK + 1) : disc.offsets[k - 1] \in Int
    BY <1>1, <1>2 DEF Slot
  <2> HIDE DEF back
  <2> QED BY <1>1, <2>1, <2>2
<1> HIDE DEF front, back
<1>6. /\ front \o back \in Seq(Int) /\ Len(front \o back) = Len(front) + Len(back)
      /\ \A k \in 1..(Len(front) + Len(back)) :
            (front \o back)[k] = IF k <= Len(front) THEN front[k] ELSE back[k - Len(front)]
  BY <1>4, <1>5, ConcatProperties, Zenon
<1>7. /\ Len(front \o back) = MAX_TRACK + 3
      /\ \A k \in 1..(MAX_TRACK + 3) :
            (front \o back)[k] = IF k <= 2 THEN front[k] ELSE back[k - 2]
  BY <1>1, <1>4, <1>5, <1>6
<1>8. ASSUME NEW k \in 1..(MAX_TRACK + 3) PROVE fed[k] = (front \o back)[k]
  <2>1. fed[k] = PrintedPiece(disc, k)
    BY <1>8 DEF FedInv
  <2>2. CASE k <= 2
    BY <1>4, <1>7, <2>1, <2>2 DEF PrintedPiece
  <2>3. CASE k > 2
    <3>1. k - 2 \in 1..(MAX_TRACK + 1) /\ (k - 2) - 1 = k - 3
      BY <1>1, <2>3
    <3>2. (front \o back)[k] = disc.offsets[k - 3]
      BY <1>5, <1>7, <2>3, <3>1
    <3>3. k \notin {1, 2}
      BY <2>3
    <3> QED BY <2>1, <3>2, <3>3 DEF PrintedPiece
  <2>4. k <= 2 \/ k > 2
    BY <1>1
  <2> QED BY <2>2, <2>3, <2>4
<1>9. fed \in Seq(Int)
  BY DEF FedInv
<1> DEFINE whole == front \o back
<1>10. whole \in Seq(Int) /\ Len(fed) = Len(whole) /\ \A k \in 1..Len(fed) : fed[k] = whole[k]
  BY <1>1, <1>6, <1>7, <1>8
<1> HIDE DEF whole
<1>11. fed = whole
  BY <1>9, <1>10, SeqEqual, Zenon
<1> QED BY <1>3, <1>11 DEF whole

(* The next number hashed is the next one of the disc.                     *)
LEMMA PieceIsFed ==
    ASSUME TextInv, FedInv, job \in UrlField \cup {"id"}, FeedPiece
    PROVE  FedInv'
<1>1. /\ step = "hash" /\ step' = "hash" /\ job' = job /\ disc' = disc
      /\ pieces # <<>> /\ pieces' = Tail(pieces)
      /\ fed' = Append(fed, PrintedPiece(disc, Len(fed) + 1))
  BY DEF FeedPiece, UrlField
<1>2. Len(fed) \in Nat /\ Len(pieces) \in Nat /\ Len(pieces) > 0
      /\ Len(fed) + Len(pieces) = MAX_TRACK + 3 /\ feeding \notin {"length", "done"}
  <2>1. Len(fed) \in Nat /\ Len(pieces) \in Nat /\ Len(pieces) > 0
    BY <1>1 DEF FedInv
  <2>2. feeding = "idle"
    BY DEF FeedPiece, Update
  <2> QED BY <1>1, <2>1, <2>2 DEF FedInv
<1>3. PrintedPiece(disc, Len(fed) + 1) \in Int
  <2>1. disc.first \in Int /\ disc.last \in Int /\ MAX_TRACK \in Nat
    BY DiscIsKnown
  <2>2. \A k \in Slot : disc.offsets[k] \in Int
    BY DiscIsKnown
  <2>3. Len(fed) + 1 > 2 => (Len(fed) + 1) - 3 \in Slot
    BY <1>2, <2>1 DEF Slot
  <2> QED BY <1>2, <2>1, <2>2, <2>3 DEF PrintedPiece
<1>4. /\ pieces' \in Seq(Nat) /\ Len(pieces') = Len(pieces) - 1
  BY <1>1, <1>2 DEF FedInv
<1> DEFINE e == PrintedPiece(disc, Len(fed) + 1)
<1> HIDE DEF e
<1>5. /\ fed' \in Seq(Int) /\ Len(fed') = Len(fed) + 1
      /\ \A k \in 1..Len(fed) : fed'[k] = fed[k]
      /\ fed'[Len(fed) + 1] = e
  <2>1. fed \in Seq(Int) /\ e \in Int /\ fed' = Append(fed, e)
    BY <1>1, <1>3 DEF FedInv, e
  <2> QED BY <2>1
<1>6. \A k \in 1..Len(fed') : fed'[k] = PrintedPiece(disc, k)
  <2> SUFFICES ASSUME NEW k \in 1..(Len(fed) + 1) PROVE fed'[k] = PrintedPiece(disc, k)
    BY <1>5
  <2>1. CASE k = Len(fed) + 1
    BY <1>5, <2>1 DEF e
  <2>2. CASE k # Len(fed) + 1
    <3>1. k \in 1..Len(fed)
      BY <1>2, <2>2
    <3> QED BY <1>5, <3>1 DEF FedInv
  <2> QED BY <2>1, <2>2
<1>7. feeding' \notin {"length", "done"}
  BY DEF FeedPiece, Update
<1>8. \A k : PrintedPiece(disc, k)' = PrintedPiece(disc, k)
  BY <1>1 DEF PrintedPiece
<1>9. Len(fed') + Len(pieces') = MAX_TRACK + 3
  BY <1>2, <1>4, <1>5
<1> QED BY <1>1, <1>4, <1>5, <1>6, <1>7, <1>8, <1>9 DEF FedInv

(* How many pieces there are.                                              *)
LEMMA IdPiecesAreCounted == IdPieces \in Seq(Nat) /\ Len(IdPieces) = MAX_TRACK + 3
<1>1. MAX_TRACK \in Nat
  BY TocConstants
<1> DEFINE front == <<2, 2>>
           back == [k \in 1..(MAX_TRACK + 1) |-> 8]
<1>2. front \in Seq(Nat) /\ Len(front) = 2 /\ back \in Seq(Nat) /\ Len(back) = MAX_TRACK + 1
  BY <1>1
<1>3. IdPieces = front \o back
  BY DEF IdPieces
<1> HIDE DEF front, back
<1>4. front \o back \in Seq(Nat) /\ Len(front \o back) = Len(front) + Len(back)
  BY <1>2, ConcatProperties, Zenon
<1> QED BY <1>1, <1>2, <1>3, <1>4

(* The steps of the id that print nothing.                                 *)
LEMMA FedKeeps ==
    ASSUME TextInv, FedInv, Id, ~ CopyId
    PROVE  FedInv' /\ UNCHANGED <<disc, job, text, i>>
<1>1. JobAtStep
  BY DEF TextInv
<1>2. CASE StartId
  <2>1. /\ UNCHANGED <<disc, job, text, i, fed>> /\ step = "id" /\ step' = "hash"
        /\ pieces' = IdPieces /\ feeding' = feeding
    BY <1>2 DEF StartId, locals, texts, shaVars
  <2>2. job \in UrlField \cup {"id"}
    BY <1>1, <2>1 DEF JobAtStep
  <2>3. Len(fed) = 0 /\ feeding \notin {"length", "done"}
    BY <2>1, <2>2 DEF FedInv
  <2>4. 0 + (MAX_TRACK + 3) = MAX_TRACK + 3
    BY TocConstants
  <2> QED BY <2>1, <2>2, <2>3, <2>4, IdPiecesAreCounted DEF FedInv, PrintedPiece
<1>3. CASE FeedPiece
  <2>1. UNCHANGED <<disc, job, text, i, step>> /\ step = "hash"
    BY <1>3 DEF FeedPiece, locals, texts
  <2>2. CASE job = "hash"
    <3>1. fed' = fed /\ pieces' = Tail(pieces) /\ pieces # <<>>
      BY <1>3, <2>2 DEF FeedPiece
    <3>2. pieces' \in Seq(Nat)
      BY <3>1 DEF FedInv
    <3> QED BY <2>1, <2>2, <3>1, <3>2 DEF FedInv, PrintedPiece, UrlField
  <2>3. CASE job # "hash"
    <3>1. job \in UrlField \cup {"id"}
      BY <1>1, <2>1, <2>3 DEF JobAtStep
    <3> QED BY <1>3, <2>1, <3>1, PieceIsFed
  <2> QED BY <2>2, <2>3
<1>4. CASE Final
  <2>1. UNCHANGED <<disc, job, text, i, step, pieces, fed>> /\ step = "hash" /\ pieces = <<>>
    BY <1>4 DEF Final, makeVars, locals, texts
  <2>2. Len(pieces) = 0
    BY <2>1
  <2> QED BY <2>1, <2>2 DEF FedInv, PrintedPiece
<1>5. CASE HashStep
  <2>1. UNCHANGED <<disc, job, text, i, step, pieces, fed>> /\ step = "hash"
    BY <1>5 DEF HashStep, makeVars, locals, texts
  <2>2. feeding' \in {"length", "done"} => feeding \in {"length", "done"}
    BY <1>5 DEF HashStep, Hash, Fill, Block, Rest, WriteLength
  <2> QED BY <2>1, <2>2 DEF FedInv, PrintedPiece
<1>6. CASE Hashed
  <2>1. /\ UNCHANGED <<disc, job, text, i, pieces, fed>> /\ step = "hash" /\ feeding = "done"
        /\ step' = IF job = "hash" THEN "done" ELSE "encode"
    BY <1>6 DEF Hashed, locals, texts
  <2>2. job \in UrlField \cup {"id"} => Len(fed) = MAX_TRACK + 3
    <3> HAVE job \in UrlField \cup {"id"}
    <3>1. Len(pieces) = 0 /\ Len(fed) + Len(pieces) = MAX_TRACK + 3
      BY <2>1 DEF FedInv
    <3>2. Len(fed) \in Nat
      BY DEF FedInv
    <3> QED BY <3>1, <3>2
  <2> QED BY <2>1, <2>2 DEF FedInv, PrintedPiece, UrlField
<1>7. CASE StartEncoding \/ EncodeStep
  <2>1. UNCHANGED <<disc, job, text, i, step, pieces, fed, feeding>>
    BY <1>7 DEF StartEncoding, EncodeStep, makeVars, locals, texts, shaVars
  <2> QED BY <2>1 DEF FedInv, PrintedPiece
<1>8. CASE Encoded
  <2>1. /\ UNCHANGED <<disc, job, text, i, pieces, fed, feeding>> /\ step = "encode"
        /\ step' \in {"copy", "done"}
    BY <1>8 DEF Encoded, locals, texts, shaVars
  <2> QED BY <2>1 DEF FedInv, PrintedPiece
<1> QED BY <1>2, <1>3, <1>4, <1>5, <1>6, <1>7, <1>8 DEF Id

LEMMA IdValues ==
    ASSUME TextInv, ValueInv, Id
    PROVE  ValueInv'
<1>1. FedInv /\ TocInv /\ JobAtStep
  BY DEF ValueInv, TextInv
<1>2. CASE ~ CopyId
  <2>1. FedInv' /\ UNCHANGED <<disc, job, text, i>>
    BY <1>1, <1>2, FedKeeps
  <2>2. \/ step' = step
        \/ step \in {"id", "hash", "encode"} /\ step' \in {"hash", "encode", "copy"}
        \/ step \in {"hash", "encode"} /\ step' = "done" /\ job \in {"hash", "encode"}
    BY <1>1, <1>2
    DEF Id, StartId, FeedPiece, Final, HashStep, Hashed, StartEncoding, EncodeStep, Encoded,
        makeVars, JobAtStep
  <2>3. TocInv'
    BY <1>1, <2>1, <2>2 DEF TocInv
  <2>3a. TocHasSize' <=> TocHasSize
    BY <2>1, SizeStays
  <2>4. job \in UrlField => UrlSoFar' = UrlSoFar
    BY <2>1, <2>2, <2>3a DEF UrlSoFar, UrlField
  <2> HIDE DEF FedInv, TocInv, UrlSoFar
  <2> QED BY <2>1, <2>2, <2>3, <2>3a, <2>4 DEF ValueInv, UrlField
<1>3. CASE CopyId
  <2>1. /\ UNCHANGED <<disc, job, i, pieces, fed, feeding>> /\ step = "copy"
        /\ text' = [text EXCEPT !["id"] = fed]
        /\ step' = IF job = "id" THEN "done" ELSE "add_id"
    BY <1>3 DEF CopyId, locals, shaVars
  <2>2. job \in UrlField \cup {"id"}
    BY <1>1, <2>1 DEF JobAtStep
  <2>3. Len(fed) = MAX_TRACK + 3
    BY <1>1, <2>1, <2>2 DEF FedInv
  <2>4. DOMAIN text' = Text /\ text'["id"] = PrintedId(disc)
    BY <1>1, <2>1, <2>3, AllFed DEF ValueInv, Text, TextField
  <2>5. \A t \in Text \ {"id"} : text'[t] = text[t]
    BY <2>1 DEF ValueInv
  <2>6. FedInv'
    BY <1>1, <2>1 DEF FedInv, PrintedPiece
  <2>7. TocInv'
    BY <1>1, <2>1, <2>5 DEF TocInv, Text
  <2>8. job \in UrlField => UrlSoFar' = UrlSoFar /\ text'[job] = text[job]
    BY <2>1, <2>5 DEF UrlSoFar, UrlField, Text, TextField
  <2> HIDE DEF FedInv, TocInv, UrlSoFar
  <2> QED BY <2>1, <2>2, <2>4, <2>6, <2>7, <2>8 DEF ValueInv, UrlField
<1> QED BY <1>2, <1>3

(* Printing into a text leaves the others as they are.                     *)
LEMMA AppendedValues ==
    ASSUME ValueInv, NEW t \in Text, NEW values, NEW characters,
           Appended(t, values, characters)
    PROVE  /\ DOMAIN text' = Text /\ text'[t] = text[t] \o values
           /\ \A u \in Text \ {t} : text'[u] = text[u]
BY DEF ValueInv, Appended

(* What was hashed stays.                                                  *)
LEMMA FedStays ==
    ASSUME FedInv, UNCHANGED <<disc, job, pieces, fed, feeding>>,
           step' \notin {"prefix", "id", "hash", "encode", "copy"}
    PROVE  FedInv'
BY DEF FedInv, PrintedPiece

LEMMA FreedbValues ==
    ASSUME TextInv, ValueInv, Freedb
    PROVE  ValueInv'
<1>1. /\ UNCHANGED <<disc, job, pieces, fed, feeding>> /\ step = "digits" /\ job = "freedb_id"
      /\ step' \in {"digits", "done"}
  BY DEF Freedb, AddDigit, NextStart, PrintFreedbId, shaVars, TextInv, JobAtStep
<1>2. FedInv'
  BY <1>1, FedStays DEF ValueInv
<1>3. "freedb_id" \in Text /\ "toc" \in Text \ {"freedb_id"}
  BY DEF Text, TextField
<1>4. DOMAIN text' = Text /\ text'["toc"] = text["toc"]
  <2>1. CASE text' = text
    BY <2>1 DEF ValueInv
  <2>2. CASE PrintFreedbId
    BY <1>3, <2>2, AppendedValues DEF PrintFreedbId
  <2> QED BY <2>1, <2>2 DEF Freedb, AddDigit, NextStart, texts
<1>5. TocInv'
  BY <1>1, <1>4 DEF ValueInv, TocInv
<1> HIDE DEF FedInv, TocInv, UrlSoFar
<1> QED BY <1>1, <1>2, <1>4, <1>5 DEF ValueInv, UrlField

(* Texts of one or two values with one more behind them.                   *)
LEMMA JoinedValues ==
    ASSUME NEW a, NEW b, NEW c
    PROVE  <<a>> \o <<b>> = <<a, b>> /\ <<a, b>> \o <<c>> = <<a, b, c>>
<1> DEFINE S == {a, b, c}
           one == <<a>>
           two == <<a, b>>
           three == <<a, b, c>>
           second == <<b>>
           third == <<c>>
<1>1. one \in Seq(S) /\ Len(one) = 1 /\ one[1] = a
  OBVIOUS
<1>2. two \in Seq(S) /\ Len(two) = 2 /\ two[1] = a /\ two[2] = b
  OBVIOUS
<1>3. three \in Seq(S) /\ Len(three) = 3 /\ three[1] = a /\ three[2] = b /\ three[3] = c
  OBVIOUS
<1>4. second \in Seq(S) /\ Len(second) = 1 /\ second[1] = b
  OBVIOUS
<1>5. third \in Seq(S) /\ Len(third) = 1 /\ third[1] = c
  OBVIOUS
<1> HIDE DEF S, one, two, three, second, third
<1>6. one \o second = two
  <2> DEFINE r == one \o second
  <2>1. /\ r \in Seq(S) /\ Len(r) = Len(one) + Len(second)
        /\ \A k \in 1..(Len(one) + Len(second)) :
              r[k] = IF k <= Len(one) THEN one[k] ELSE second[k - Len(one)]
    BY <1>1, <1>4, ConcatProperties, Zenon
  <2> HIDE DEF r
  <2>2. Len(r) = Len(two) /\ \A k \in 1..Len(r) : r[k] = two[k]
    BY <1>1, <1>2, <1>4, <2>1
  <2>3. r = two
    BY <1>2, <2>1, <2>2, SeqEqual, Zenon
  <2> QED BY <2>3 DEF r
<1>7. two \o third = three
  <2> DEFINE r == two \o third
  <2>1. /\ r \in Seq(S) /\ Len(r) = Len(two) + Len(third)
        /\ \A k \in 1..(Len(two) + Len(third)) :
              r[k] = IF k <= Len(two) THEN two[k] ELSE third[k - Len(two)]
    BY <1>2, <1>5, ConcatProperties, Zenon
  <2> HIDE DEF r
  <2>2. Len(r) = Len(three) /\ \A k \in 1..Len(r) : r[k] = three[k]
    BY <1>2, <1>3, <1>5, <2>1
  <2>3. r = three
    BY <1>3, <2>1, <2>2, SeqEqual, Zenon
  <2> QED BY <2>3 DEF r
<1> QED BY <1>6, <1>7 DEF one, two, three, second, third

LEMMA NumbersAssociate ==
    ASSUME NEW s \in Seq(Int), NEW t \in Seq(Int), NEW u \in Seq(Int)
    PROVE  (s \o t) \o u = s \o (t \o u)
BY SMTT(30)

(* One more offset behind those that are printed.                          *)
LEMMA ListedGrows ==
    ASSUME NEW f, NEW from \in Int, NEW to \in Int, from <= to + 1, NEW front \in Seq(Int),
           \A k \in from..(to + 1) : f[k] \in Int
    PROVE  (front \o Listed(f, from, to)) \o <<f[to + 1]>> = front \o Listed(f, from, to + 1)
<1> DEFINE len == to - from + 1
           now == Listed(f, from, to)
           then == Listed(f, from, to + 1)
<1>1. len \in Nat /\ (to + 1) - from + 1 = len + 1 /\ from + (len + 1) - 1 = to + 1
  OBVIOUS
<1>2. \A k \in 1..(len + 1) : f[from + k - 1] \in Int
  OBVIOUS
<1>3. now = [k \in 1..len |-> f[from + k - 1]] /\ then = [k \in 1..(len + 1) |-> f[from + k - 1]]
  BY <1>1 DEF Listed
<1> HIDE DEF now, then, len
<1>4. now \in Seq(Int) /\ Len(now) = len /\ \A k \in 1..len : now[k] = f[from + k - 1]
  BY <1>1, <1>2, <1>3
<1>5. then \in Seq(Int) /\ Len(then) = len + 1
      /\ \A k \in 1..(len + 1) : then[k] = f[from + k - 1]
  BY <1>1, <1>2, <1>3
<1> DEFINE last == <<f[to + 1]>>
<1>6. last \in Seq(Int) /\ Len(last) = 1 /\ last[1] = f[to + 1]
  OBVIOUS
<1> HIDE DEF last
<1>7. then = now \o last
  <2> DEFINE r == now \o last
  <2>1. /\ r \in Seq(Int) /\ Len(r) = Len(now) + Len(last)
        /\ \A k \in 1..(Len(now) + Len(last)) :
              r[k] = IF k <= Len(now) THEN now[k] ELSE last[k - Len(now)]
    BY <1>4, <1>6, ConcatProperties, Zenon
  <2> HIDE DEF r
  <2>2. Len(then) = Len(r)
    BY <1>4, <1>5, <1>6, <2>1
  <2>3. ASSUME NEW k \in 1..Len(then) PROVE then[k] = r[k]
    <3>1. CASE k <= len
      <4>1. k \in 1..len /\ k \in 1..(len + 1)
        BY <1>1, <1>5, <3>1
      <4>2. r[k] = now[k]
        BY <1>1, <1>4, <1>6, <2>1, <4>1
      <4> QED BY <1>4, <1>5, <4>1, <4>2
    <3>2. CASE k > len
      <4>1. k = len + 1 /\ k - len = 1
        BY <1>1, <1>5, <3>2
      <4>2. r[k] = last[1]
        BY <1>1, <1>4, <1>6, <2>1, <4>1
      <4> QED BY <1>1, <1>5, <1>6, <4>1, <4>2
    <3> QED BY <1>1, <3>1, <3>2
  <2>4. then = r
    BY <1>5, <2>1, <2>2, <2>3, SeqEqual, Zenon
  <2> QED BY <2>4 DEF r
<1>8. (front \o now) \o last = front \o (now \o last)
  <2>1. front \in Seq(Int) /\ now \in Seq(Int) /\ last \in Seq(Int)
    BY <1>4, <1>6
  <2> QED BY <2>1, NumbersAssociate
<1> QED BY <1>7, <1>8 DEF now, then, last

LEMMA TocValues ==
    ASSUME TextInv, ValueInv, TocString
    PROVE  ValueInv'
<1>1. UNCHANGED <<disc, job, pieces, fed, feeding>> /\ (TocHasSize' <=> TocHasSize)
  <2>1. UNCHANGED <<disc, job, pieces, fed, feeding>>
    BY DEF TocString, OmitToc, StartToc, PrintOffset, AppendToc, shaVars
  <2> QED BY <2>1, SizeStays
<1>2. step \in {"toc", "offsets"} /\ step' \in {"offsets", "done"}
  BY DEF TocString, OmitToc, StartToc, PrintOffset, AppendToc
<1>3. FedInv'
  BY <1>1, <1>2, FedStays DEF ValueInv
<1>4. /\ disc.first \in Int /\ disc.last \in Int /\ MAX_TRACK \in Nat
      /\ 1 <= disc.first /\ 0 <= disc.last
      /\ disc.first <= MAX_TRACK /\ disc.last <= MAX_TRACK
  BY DiscIsKnown
<1>5. \A k \in Slot : disc.offsets[k] \in Int
  BY DiscIsKnown
<1>6. job \in UrlField \cup {"toc_string"}
  BY <1>2 DEF TextInv, JobAtStep
<1>7. "toc" \in Text /\ \A u \in UrlField \cup {"id", "toc_string"} : u \in Text \ {"toc"}
  BY DEF Text, TextField, UrlField
<1> DEFINE header == <<disc.first, disc.last, disc.offsets[0]>>
<1>8. header \in Seq(Int)
  BY <1>4, <1>5 DEF Slot
<1>9. ASSUME DOMAIN text' = Text, \A u \in Text \ {"toc"} : text'[u] = text[u], TocInv',
             step' = "offsets", TocHasSize
      PROVE  ValueInv'
  <2>1. job \in UrlField => UrlSoFar' = UrlSoFar /\ text'[job] = text[job]
    BY <1>1, <1>2, <1>7, <1>9 DEF UrlSoFar
  <2>2. text'["id"] = text["id"] /\ text'["toc_string"] = text["toc_string"]
    BY <1>7, <1>9
  <2>3. (step # "done") /\ step \in {"add_id", "tracks", "toc", "offsets", "done"}
    BY <1>2
  <2> HIDE DEF FedInv, TocInv, UrlSoFar
  <2> QED BY <1>1, <1>3, <1>9, <2>1, <2>2, <2>3 DEF ValueInv
<1>o. CASE OmitToc
  <2>1. step = "toc" /\ step' = "done" /\ text' = text /\ ~ TocHasSize
    BY <1>o DEF OmitToc, texts
  <2>2. TocInv'
    BY <2>1 DEF TocInv
  <2>3. job \in UrlField => UrlSoFar' = UrlSoFar
    BY <1>1, <2>1 DEF UrlSoFar
  <2> HIDE DEF FedInv, TocInv, UrlSoFar
  <2> QED BY <1>1, <1>3, <1>6, <2>1, <2>2, <2>3 DEF ValueInv
<1>10. CASE StartToc
  <2>1. /\ step = "toc" /\ step' = "offsets" /\ i' = disc.first /\ TocHasSize
        /\ \E c : Appended("toc", header, c)
    BY <1>10 DEF StartToc
  <2> HIDE DEF header
  <2>2. /\ DOMAIN text' = Text /\ text'["toc"] = text["toc"] \o header
        /\ \A u \in Text \ {"toc"} : text'[u] = text[u]
    BY <1>7, <2>1, AppendedValues
  <2>3. text["toc"] = <<>>
    BY <2>1 DEF ValueInv, TocInv
  <2>4. text'["toc"] = header
    BY <1>8, <2>2, <2>3, ConcatEmptySeq
  <2>5. Listed(disc.offsets, disc.first, disc.first - 1) = <<>>
    <3>1. (disc.first - 1) - disc.first + 1 = 0
      BY <1>4
    <3> QED BY <3>1 DEF Listed
  <2>6. header \o <<>> = header
    BY <1>8, ConcatEmptySeq
  <2>7. TocInv'
    BY <1>1, <2>1, <2>4, <2>5, <2>6 DEF TocInv, header
  <2> QED BY <1>9, <2>1, <2>2, <2>7
<1>11. CASE PrintOffset
  <2>1. /\ step = "offsets" /\ step' = "offsets" /\ i' = i + 1 /\ i <= disc.last
        /\ \E c : Appended("toc", <<disc.offsets[i]>>, c)
    BY <1>11 DEF PrintOffset
  <2>2. i \in Int /\ disc.first <= i /\ TocHasSize
    BY <2>1 DEF TextInv, TocFits, ValueInv
  <2>3. /\ DOMAIN text' = Text /\ text'["toc"] = text["toc"] \o <<disc.offsets[i]>>
        /\ \A u \in Text \ {"toc"} : text'[u] = text[u]
    BY <1>7, <2>1, AppendedValues
  <2>4. text["toc"] = header \o Listed(disc.offsets, disc.first, i - 1)
    BY <2>1 DEF ValueInv, TocInv
  <2> HIDE DEF header
  <2>5. (header \o Listed(disc.offsets, disc.first, i - 1)) \o <<disc.offsets[i]>>
          = header \o Listed(disc.offsets, disc.first, i)
    <3>1. i - 1 \in Int /\ (i - 1) + 1 = i
      BY <2>2
    <3>2. \A k \in disc.first..i : disc.offsets[k] \in Int
      BY <1>4, <1>5, <2>1, <2>2 DEF Slot
    <3>3. \A to \in Int : to + 1 = i =>
              (header \o Listed(disc.offsets, disc.first, to)) \o <<disc.offsets[to + 1]>>
                = header \o Listed(disc.offsets, disc.first, to + 1)
      BY <1>4, <1>8, <2>2, <3>2, ListedGrows
    <3> QED BY <3>1, <3>3
  <2>6. (i + 1) - 1 = i
    BY <2>2
  <2>7. TocInv'
    BY <1>1, <2>1, <2>3, <2>4, <2>5, <2>6 DEF TocInv, header
  <2> QED BY <1>9, <2>1, <2>2, <2>3, <2>7
<1>12. CASE AppendToc
  <2> DEFINE toc == text["toc"]
             values == IF job = "toc_string" THEN toc ELSE <<toc>>
  <2>1. /\ step = "offsets" /\ step' = "done" /\ i > disc.last
        /\ \E c : Appended(job, values, c)
    BY <1>12 DEF AppendToc
  <2>2. /\ Listed(disc.offsets, disc.first, i - 1) = Listed(disc.offsets, disc.first, disc.last)
        /\ TocHasSize
    <3>1. /\ i \in Int /\ disc.first <= i /\ (i = disc.first \/ i <= disc.last + 1)
          /\ TocHasSize
      BY <2>1 DEF TextInv, TocFits, ValueInv
    <3>2. CASE i - 1 = disc.last
      BY <3>1, <3>2
    <3>3. CASE i - 1 # disc.last
      <4>1. i = disc.first /\ disc.last < disc.first
        BY <1>4, <2>1, <3>1, <3>3
      <4>2. 1..((i - 1) - disc.first + 1) = {} /\ 1..(disc.last - disc.first + 1) = {}
        BY <1>4, <4>1
      <4> QED BY <3>1, <4>2 DEF Listed
    <3> QED BY <3>2, <3>3
  <2>3. toc = PrintedToc(disc) /\ toc \in Seq(Int)
    <3>1. toc = header \o Listed(disc.offsets, disc.first, disc.last)
      BY <2>1, <2>2 DEF ValueInv, TocInv
    <3>2. /\ Listed(TocStringOf(disc)[4], disc.first, disc.last)
               = Listed(disc.offsets, disc.first, disc.last)
          /\ Listed(disc.offsets, disc.first, disc.last) \in Seq(Int)
      <4> DEFINE len == disc.last - disc.first + 1
                 tracks == TocStringOf(disc)[4]
      <4>1. len \in Int
        BY <1>4
      <4>2. tracks = [k \in disc.first..disc.last |-> disc.offsets[k]]
        BY DEF TocStringOf
      <4> HIDE DEF tracks
      <4>3. \A k \in 1..len : disc.first + k - 1 \in disc.first..disc.last
        BY <1>4
      <4>4. \A k \in 1..len : tracks[disc.first + k - 1] = disc.offsets[disc.first + k - 1]
        BY <4>2, <4>3
      <4>5. \A k \in 1..len : disc.offsets[disc.first + k - 1] \in Int
        BY <1>4, <1>5, <4>3 DEF Slot
      <4> HIDE DEF len
      <4>6. [k \in 1..len |-> disc.offsets[disc.first + k - 1]] \in Seq(Int)
        <5>1. CASE len \in Nat
          BY <4>5, <5>1
        <5>2. CASE len \notin Nat
          <6>1. 1..len = 1..0
            BY <4>1, <5>2
          <6> DEFINE none == [k \in 1..0 |-> disc.offsets[disc.first + k - 1]]
          <6>2. none \in Seq(Int)
            OBVIOUS
          <6> QED BY <6>1, <6>2
        <5> QED BY <5>1, <5>2
      <4>7. [k \in 1..len |-> tracks[disc.first + k - 1]]
              = [k \in 1..len |-> disc.offsets[disc.first + k - 1]]
        BY <4>4
      <4> QED BY <4>6, <4>7 DEF Listed, len, tracks
    <3>3. /\ TocStringOf(disc)[1] = disc.first /\ TocStringOf(disc)[2] = disc.last
          /\ TocStringOf(disc)[3] = disc.offsets[0]
      BY DEF TocStringOf
    <3>4. PrintedToc(disc) = header \o Listed(disc.offsets, disc.first, disc.last)
      BY <3>2, <3>3 DEF PrintedToc
    <3> HIDE DEF header
    <3>5. header \o Listed(disc.offsets, disc.first, disc.last) \in Seq(Int)
      BY <1>8, <3>2, ConcatProperties, Zenon
    <3> QED BY <3>1, <3>4, <3>5
  <2> HIDE DEF toc
  <2>4. job \in Text /\ job # "toc"
    BY <1>6, <1>7
  <2>5. /\ DOMAIN text' = Text /\ text'[job] = text[job] \o values
        /\ \A u \in Text \ {job} : text'[u] = text[u]
    BY <2>1, <2>4, AppendedValues
  <2>6. TocInv'
    BY <2>1 DEF TocInv
  <2>7. CASE job = "toc_string"
    <3>1. text[job] = <<>>
      BY <2>1, <2>7 DEF ValueInv
    <3>2. text'[job] = PrintedToc(disc)
      BY <2>3, <2>5, <2>7, <3>1, ConcatEmptySeq
    <3> HIDE DEF FedInv, TocInv, UrlSoFar
    <3> QED BY <1>1, <1>3, <2>1, <2>2, <2>5, <2>6, <2>7, <3>2 DEF ValueInv, UrlField
  <2>8. CASE job \in UrlField
    <3>1. values = <<PrintedToc(disc)>>
      BY <2>3, <2>8 DEF UrlField
    <3>2. text[job] = UrlSoFar /\ text["id"] = PrintedId(disc)
      BY <2>1, <2>8 DEF ValueInv
    <3>3. text'[job] = Printed(disc, job)
      <4> HIDE DEF values
      <4>1. CASE job = "submission_url"
        <5>1. text[job] = <<PrintedId(disc), disc.last>>
          BY <2>1, <3>2, <4>1 DEF UrlSoFar
        <5>2. <<PrintedId(disc), disc.last>> \o <<PrintedToc(disc)>>
                = <<PrintedId(disc), disc.last, PrintedToc(disc)>>
          BY JoinedValues, Zenon
        <5> QED BY <2>5, <3>1, <4>1, <5>1, <5>2, PrintedCases
      <4>2. CASE job = "webservice_url"
        <5>1. text[job] = <<PrintedId(disc)>>
          BY <2>1, <3>2, <4>2 DEF UrlSoFar
        <5>2. <<PrintedId(disc)>> \o <<PrintedToc(disc)>> = <<PrintedId(disc), PrintedToc(disc)>>
          BY JoinedValues, Zenon
        <5> QED BY <2>5, <3>1, <4>2, <5>1, <5>2, PrintedCases
      <4> QED BY <2>8, <4>1, <4>2 DEF UrlField
    <3>4. UrlSoFar' = Printed(disc, job) /\ step' = "done"
      BY <1>1, <2>1, <2>2 DEF UrlSoFar
    <3>5. "id" \in Text \ {job}
      BY <2>8 DEF UrlField, Text, TextField
    <3>6. text'["id"] = PrintedId(disc) /\ job # "toc_string"
      BY <2>5, <2>8, <3>2, <3>5 DEF UrlField
    <3> HIDE DEF FedInv, TocInv, UrlSoFar
    <3> QED BY <1>1, <1>3, <2>5, <2>6, <3>3, <3>4, <3>6 DEF ValueInv
  <2> QED BY <1>6, <2>7, <2>8
<1> QED BY <1>o, <1>10, <1>11, <1>12 DEF TocString

LEMMA UrlValues ==
    ASSUME TextInv, ValueInv, Url
    PROVE  ValueInv'
<1>1. UNCHANGED <<disc, job, i, pieces, fed, feeding>>
  BY DEF Url, Prefix, AddId, Tracks, locals, shaVars
<1>2. /\ job \in UrlField /\ step \in {"prefix", "add_id", "tracks"}
      /\ step' \in {"id", "tracks", "toc"} /\ (step' = "id" => step = "prefix")
      /\ step' = "tracks" => job = "submission_url"
  BY DEF Url, Prefix, AddId, Tracks, TextInv, JobAtStep, UrlField
<1>3. FedInv'
  BY <1>1, <1>2 DEF ValueInv, FedInv, PrintedPiece
<1>4. /\ job \in Text /\ "toc" \in Text \ {job} /\ "id" \in Text \ {job} /\ job # "toc_string"
      /\ job \in {"submission_url", "webservice_url"}
  BY <1>2 DEF UrlField, Text, TextField
<1>5. text[job] = UrlSoFar /\ (step # "prefix" => text["id"] = PrintedId(disc))
  BY <1>2 DEF ValueInv
<1>6. ASSUME NEW values, NEW c, Appended(job, values, c), text[job] \o values = UrlSoFar'
      PROVE  ValueInv'
  <2>1. /\ DOMAIN text' = Text /\ text'[job] = UrlSoFar'
        /\ text'["toc"] = text["toc"] /\ text'["id"] = text["id"]
    BY <1>4, <1>6, AppendedValues
  <2>2. TocInv'
    BY <1>1, <1>2, <2>1 DEF ValueInv, TocInv
  <2>3. step' # "id" => text'["id"] = PrintedId(disc)
    BY <1>5, <2>1, <1>2 DEF Url, Prefix, AddId, Tracks
  <2> HIDE DEF FedInv, TocInv, UrlSoFar
  <2> QED BY <1>1, <1>2, <1>3, <1>4, <2>1, <2>2, <2>3 DEF ValueInv
<1>7. CASE Prefix
  <2>1. (\E c : Appended(job, <<>>, c)) /\ step = "prefix" /\ step' = "id"
    BY <1>7 DEF Prefix
  <2>2. text[job] = <<>> /\ UrlSoFar' = <<>>
    BY <1>5, <2>1 DEF UrlSoFar
  <2>3. <<>> \o <<>> = <<>>
    OBVIOUS
  <2> HIDE DEF UrlSoFar
  <2> QED BY <1>6, <2>1, <2>2, <2>3
<1>8. CASE AddId
  <2>1. /\ \E c : Appended(job, <<text["id"]>>, c)
        /\ step = "add_id" /\ step' = IF job = "submission_url" THEN "tracks" ELSE "toc"
    BY <1>8 DEF AddId
  <2>2. text[job] = <<>> /\ UrlSoFar' = <<PrintedId(disc)>> /\ text["id"] = PrintedId(disc)
    BY <1>1, <1>5, <2>1 DEF UrlSoFar
  <2>3. <<>> \o <<PrintedId(disc)>> = <<PrintedId(disc)>>
    OBVIOUS
  <2> HIDE DEF UrlSoFar
  <2> QED BY <1>6, <2>1, <2>2, <2>3
<1>9. CASE Tracks
  <2>1. (\E c : Appended(job, <<disc.last>>, c)) /\ step = "tracks" /\ step' = "toc"
    BY <1>9 DEF Tracks
  <2>2. job = "submission_url"
    BY <2>1 DEF TextInv, JobAtStep
  <2>3. text[job] = <<PrintedId(disc)>> /\ UrlSoFar' = <<PrintedId(disc), disc.last>>
    BY <1>1, <1>5, <2>1, <2>2 DEF UrlSoFar
  <2>4. <<PrintedId(disc)>> \o <<disc.last>> = <<PrintedId(disc), disc.last>>
    BY JoinedValues, Zenon
  <2> HIDE DEF UrlSoFar
  <2> QED BY <1>6, <2>1, <2>3, <2>4
<1> QED BY <1>7, <1>8, <1>9 DEF Url

LEMMA InitValues == Init => ValueInv
<1> SUFFICES ASSUME Init PROVE ValueInv
  OBVIOUS
<1>1. /\ step = FirstStep[job] /\ job \in TextField \cup {"hash", "encode"}
      /\ fed = <<>> /\ feeding = "idle" /\ text = [t \in Text |-> NoText]
  BY DEF Init, ShaInit
<1>1a. pieces \in Seq(Nat)
  <2>1. Messages \subseteq Seq(Nat) /\ <<>> \in Seq(Nat)
    BY MakeTextConstants
  <2> QED BY <2>1 DEF Init
<1>2. /\ job \in UrlField => step = "prefix"
      /\ job = "id" => step = "id"
      /\ step \in {"prefix", "id", "hash", "encode", "digits", "toc"}
  BY <1>1 DEF FirstStep, UrlField, TextField
<1>3. \A t \in Text : text[t] = <<>>
  BY <1>1 DEF NoText
<1>4. "toc" \in Text /\ "toc_string" \in Text /\ UrlField \subseteq Text
      /\ "id" \notin UrlField
  BY DEF Text, TextField, UrlField
<1>5. FedInv
  BY <1>1, <1>1a, <1>2 DEF FedInv
<1>6. TocInv
  BY <1>2, <1>3, <1>4 DEF TocInv
<1>7. job \in UrlField => UrlSoFar = <<>>
  BY <1>2 DEF UrlSoFar
<1>8. DOMAIN text = Text
  BY <1>1
<1> HIDE DEF FedInv, TocInv, UrlSoFar
<1> QED BY <1>2, <1>3, <1>4, <1>5, <1>6, <1>7, <1>8 DEF ValueInv

LEMMA ValueStep == TextInv /\ ValueInv /\ [Next]_vars => ValueInv'
<1> SUFFICES ASSUME TextInv, ValueInv, [Next]_vars PROVE ValueInv'
  OBVIOUS
<1>1. CASE Id
  BY <1>1, IdValues
<1>2. CASE Freedb
  BY <1>2, FreedbValues
<1>3. CASE TocString
  BY <1>3, TocValues
<1>4. CASE Url
  BY <1>4, UrlValues
<1>5. CASE UNCHANGED vars
  <2>1. UNCHANGED <<job, disc, step, i, pieces, fed, text, feeding>>
    BY <1>5 DEF vars, makeVars, locals, texts, shaVars
  <2>2. FedInv' /\ TocInv' /\ UrlSoFar' = UrlSoFar /\ (TocHasSize' <=> TocHasSize)
    BY <2>1, SizeStays DEF ValueInv, FedInv, TocInv, UrlSoFar, PrintedPiece
  <2> HIDE DEF FedInv, TocInv, UrlSoFar
  <2> QED BY <2>1, <2>2 DEF ValueInv
<1> QED BY <1>1, <1>2, <1>3, <1>4, <1>5 DEF Next, Returned

(* Whatever the disc, the id that is returned was hashed from every number *)
(* of it in its place, and the TOC string and both URLs have each number   *)
(* once and in order: the loops of disc.c print what DiscText says.        *)
THEOREM TextsAreOfTheDisc == Spec => []TextsAreThoseOfTheDisc
<1>1. Spec => []ValueInv
  BY TextInvAlways, InitValues, ValueStep, PTL DEF Spec
<1> QED BY <1>1, ValueInvImpliesTexts, PTL
-----------------------------------------------------------------------------
(* The characters of each three bytes of the source are where a decoder    *)
(* looks for them, and those of the last three are there at the end.       *)
CodedUpTo(tuplets) ==
    /\ Progressed(tuplets, tuplets \div 15)
    /\ srcl = 0 => 3 * tuplets >= Len(source)
    /\ \A u \in Nat, c \in 1..4 :
          u < tuplets => encoded[4 * u + 2 * (u \div 15) + c] = Code(u)[c]

CodedInv ==
    /\ encoding = "done" => srcl = 0
    /\ \E tuplets \in Nat : CodedUpTo(tuplets)

LEMMA NextLine ==
    ASSUME NEW u \in Nat
    PROVE  /\ (u + 1) \div 15 = (u \div 15) + (IF u % 15 = 14 THEN 1 ELSE 0)
           /\ u % 15 \in 0..14 /\ u = 15 * (u \div 15) + (u % 15) /\ u \div 15 \in Nat
OBVIOUS

LEMMA TupletIsCoded ==
    ASSUME EncodeInv, CodedInv, Tuplet
    PROVE  CodedInv'
<1>1. PICK t \in Nat : CodedUpTo(t)  BY DEF CodedInv
<1> DEFINE lines == t \div 15
<1>2. t % 15 \in 0..14 /\ t = 15 * lines + (t % 15) /\ lines \in Nat
      /\ (t + 1) \div 15 = lines + (IF t % 15 = 14 THEN 1 ELSE 0)
      BY NextLine
<1>3. /\ Len(source) \in Nat /\ srcl \in 1..Len(source) /\ column \in 0..14
      /\ Len(encoded) \in Nat
      /\ source' = source /\ srcl' = (IF srcl > 3 THEN srcl - 3 ELSE 0)
      /\ encoding = "tuplets" /\ encoding' = encoding
      BY DEF EncodeInv, Bytes, Tuplet
<1>4. Progressed(t, lines)  BY <1>1 DEF CodedUpTo
<1> HIDE DEF lines
<1>5. column = t % 15  BY <1>2, <1>3, <1>4 DEF Progressed
<1>6. Progressed(t + 1, (t + 1) \div 15)'
  <2>1. CASE column + 1 = LINE
    <3>1. (t + 1) \div 15 = lines + 1  BY <1>2, <1>3, <1>5, <2>1 DEF LINE
    <3>2. Progressed(t + 1, lines + 1)'  BY <1>2, <1>4, <2>1, TupletProgresses
    <3> QED  BY <3>1, <3>2
  <2>2. CASE column + 1 # LINE
    <3>1. (t + 1) \div 15 = lines  BY <1>2, <1>3, <1>5, <2>2 DEF LINE
    <3>2. Progressed(t + 1, lines)'  BY <1>2, <1>4, <2>2, TupletProgresses
    <3> QED  BY <3>1, <3>2
  <2> QED  BY <2>1, <2>2
<1>7. srcl' = 0 => 3 * (t + 1) >= Len(source')
  <2>1. srcl > 0 => Len(source) - srcl = 3 * t  BY <1>4 DEF Progressed
  <2>2. /\ t \in Nat /\ Len(source) \in Nat /\ srcl \in Nat /\ srcl > 0
        /\ srcl' = (IF srcl > 3 THEN srcl - 3 ELSE 0) /\ Len(source') = Len(source)
        BY <1>3
  <2> HIDE <1>2, <1>3, <1>4, <1>5, <1>6
  <2> QED  BY <2>1, <2>2
<1>8. ASSUME NEW u \in Nat, NEW c \in 1..4, u < t + 1
      PROVE  encoded'[4 * u + 2 * (u \div 15) + c] = Code(u)[c]
  <2>1. /\ \A k \in 1..Len(encoded) : encoded'[k] = encoded[k]
        /\ \A k \in 1..4 : encoded'[Len(encoded) + k] = Code(t)[k]
        BY <1>2, <1>4, TupletWrites
  <2>2. Len(encoded) = 4 * t + 2 * lines  BY <1>4 DEF Progressed
  <2>3. CASE u = t
    <3>1. 4 * u + 2 * (u \div 15) + c = Len(encoded) + c  BY <2>2, <2>3 DEF lines
    <3> QED  BY <2>1, <2>3, <3>1
  <2>4. CASE u # t
    <3>1. u < t  BY <1>8, <2>4
    <3>2. u \div 15 \in Nat /\ u \div 15 <= lines  BY <3>1 DEF lines
    <3> DEFINE k == 4 * u + 2 * (u \div 15) + c
    <3>3. k \in 1..Len(encoded)
      <4> DEFINE l == u \div 15
      <4>1. l \in Nat /\ l <= lines  BY <3>2
      <4> HIDE DEF l
      <4> QED  BY <1>2, <2>2, <3>1, <4>1 DEF l
    <3>4. encoded[k] = Code(u)[c]  BY <1>1, <3>1 DEF CodedUpTo
    <3> HIDE DEF k
    <3>5. encoded'[k] = Code(u)[c]  BY <2>1, <3>3, <3>4, Zenon
    <3> QED  BY <3>5 DEF k
  <2> QED  BY <2>3, <2>4
<1>9. \A u : Code(u)' = Code(u)  BY <1>3 DEF Code, Triple, Byte, Characters
<1>10. CodedUpTo(t + 1)'
  <2>1. \A u \in Nat, c \in 1..4 :
           u < t + 1 => encoded'[4 * u + 2 * (u \div 15) + c] = (Code(u)')[c]
        BY <1>8, <1>9
  <2> QED  BY <1>6, <1>7, <2>1 DEF CodedUpTo
<1>11. t + 1 \in Nat  OBVIOUS
<1> QED  BY <1>3, <1>10, <1>11 DEF CodedInv

LEMMA CodedStays ==
    ASSUME UNCHANGED <<source, srcl, column, encoded>>, NEW t \in Nat, CodedUpTo(t)
    PROVE  CodedUpTo(t)'
<1>1. \A u : Code(u)' = Code(u)  BY DEF Code, Triple, Byte, Characters
<1>2. Progressed(t, t \div 15)'  BY DEF CodedUpTo, Progressed
<1>3. srcl' = 0 => 3 * t >= Len(source')  BY DEF CodedUpTo
<1>4. \A u \in Nat, c \in 1..4 :
         u < t => encoded'[4 * u + 2 * (u \div 15) + c] = (Code(u)')[c]
      BY <1>1 DEF CodedUpTo
<1> QED  BY <1>2, <1>3, <1>4 DEF CodedUpTo

(* Nothing else changes what is written but the start of another source.   *)
LEMMA CodedStep == TextInv /\ CodedInv /\ [Next]_vars => CodedInv'
<1> SUFFICES ASSUME TextInv, CodedInv, [Next]_vars PROVE CodedInv'
    OBVIOUS
<1>1. EncodeInv  BY DEF TextInv
<1>2. ASSUME UNCHANGED base64Vars PROVE CodedInv'
  <2>1. UNCHANGED <<source, srcl, column, encoded, encoding>>  BY <1>2 DEF base64Vars
  <2>2. PICK t \in Nat : CodedUpTo(t)  BY DEF CodedInv
  <2>3. CodedUpTo(t)'  BY <2>1, <2>2, CodedStays
  <2> QED  BY <2>1, <2>3 DEF CodedInv
<1>3. CASE StartEncoding
  <2>1. PICK bytes \in Bytes : Encode(bytes)
    <3>1. Sources \subseteq Bytes /\ Digests \subseteq Bytes  BY MakeTextConstants
    <3> QED  BY <1>3, <3>1 DEF StartEncoding
  <2>2. /\ source' = bytes /\ srcl' = Len(bytes) /\ column' = 0 /\ encoded' = <<>>
        /\ encoding' = "tuplets" /\ Len(bytes) \in Nat
        BY <2>1 DEF Encode, Bytes
  <2>3. CodedUpTo(0)'
    <3>1. Progressed(0, 0)'  BY <2>2 DEF Progressed
    <3>2. 0 \div 15 = 0  OBVIOUS
    <3>3. srcl' = 0 => 3 * 0 >= Len(source')  BY <2>2
    <3>4. \A u \in Nat : ~ (u < 0)  OBVIOUS
    <3> QED  BY <3>1, <3>2, <3>3, <3>4 DEF CodedUpTo
  <2> QED  BY <2>2, <2>3 DEF CodedInv
<1>4. CASE EncodeStep
  <2>1. CASE Tuplet  BY <1>1, <2>1, TupletIsCoded
  <2>2. CASE TieOff
    <3>1. srcl = 0 /\ UNCHANGED <<source, srcl, column, encoded>>  BY <2>2 DEF TieOff
    <3>2. PICK t \in Nat : CodedUpTo(t)  BY DEF CodedInv
    <3>3. CodedUpTo(t)'  BY <3>1, <3>2, CodedStays
    <3> QED  BY <3>1, <3>3 DEF CodedInv
  <2> QED  BY <1>4, <2>1, <2>2 DEF EncodeStep
<1>5. CASE Id /\ ~ StartEncoding /\ ~ EncodeStep
  <2>1. UNCHANGED base64Vars
        BY <1>5 DEF Id, StartId, FeedPiece, Final, HashStep, Hashed, Encoded, CopyId
  <2> QED  BY <1>2, <2>1
<1>6. CASE Freedb \/ TocString \/ Url
  <2>1. UNCHANGED base64Vars
        BY <1>6 DEF Freedb, AddDigit, NextStart, PrintFreedbId, TocString, OmitToc, StartToc,
                    PrintOffset, AppendToc, Url, Prefix, AddId, Tracks
  <2> QED  BY <1>2, <2>1
<1>7. CASE UNCHANGED vars
      BY <1>2, <1>7 DEF vars
<1> QED  BY <1>3, <1>4, <1>5, <1>6, <1>7 DEF Next, Returned

LEMMA InitCoded == Init => CodedInv
<1> SUFFICES ASSUME Init PROVE CodedInv
    OBVIOUS
<1>1. source = <<>> /\ srcl = 0 /\ column = 0 /\ encoded = <<>> /\ encoding = "idle"
      BY DEF Init, Base64Init
<1>2. Progressed(0, 0)  BY <1>1 DEF Progressed
<1>3. 0 \div 15 = 0  OBVIOUS
<1>4. \A u \in Nat : ~ (u < 0)  OBVIOUS
<1>5. srcl = 0 => 3 * 0 >= Len(source)  BY <1>1
<1>6. CodedUpTo(0)  BY <1>2, <1>3, <1>4, <1>5 DEF CodedUpTo
<1> QED  BY <1>1, <1>6 DEF CodedInv

(* Four characters are the 24 bits of the three bytes they were made of.   *)
Packed(a, b, c) ==
    (((a \div 4) * 64 + ((a * 16 + b \div 16) % 64)) * 64
        + ((b * 4 + c \div 64) % 64)) * 64 + (c % 64)

(* A byte, by a name that keeps the provers from writing out the range.    *)
Octet == 0..255

(* The bits of the second and third byte that the code cuts into two       *)
(* characters are put together again.                                      *)
LEMMA SixBitsEach ==
    ASSUME NEW a \in Octet, NEW b \in Octet, NEW c \in Octet
    PROVE  Packed(a, b, c) = (a * 256 + b) * 256 + c
<1> DEFINE a1 == a \div 4
           a2 == a % 4
           b1 == b \div 16
           b2 == b % 16
           c1 == c \div 64
           c2 == c % 64
<1>1. a1 \in Int /\ a2 \in 0..3 /\ a = 4 * a1 + a2  BY DEF Octet
<1>2. b1 \in 0..15 /\ b2 \in 0..15 /\ b = 16 * b1 + b2  BY DEF Octet
<1>3. c1 \in 0..3 /\ c2 \in 0..63 /\ c = 64 * c1 + c2  BY DEF Octet
<1>4. \A p \in Int, q \in 0..63 : (64 * p + q) % 64 = q  OBVIOUS
<1>5. (a * 16 + b1) % 64 = 16 * a2 + b1
  <2>1. a * 16 + b1 = 64 * a1 + (16 * a2 + b1) /\ 16 * a2 + b1 \in 0..63
        BY <1>1, <1>2
  <2> HIDE DEF a1, a2, b1
  <2> QED  BY <1>1, <1>4, <2>1
<1>6. (b * 4 + c1) % 64 = 4 * b2 + c1
  <2>1. b * 4 + c1 = 64 * b1 + (4 * b2 + c1) /\ 4 * b2 + c1 \in 0..63
        BY <1>2, <1>3
  <2> HIDE DEF b1, b2, c1
  <2> QED  BY <1>2, <1>4, <2>1
<1> HIDE DEF a1, a2, b1, b2, c1, c2
<1>7. ((a1 * 64 + (16 * a2 + b1)) * 64 + (4 * b2 + c1)) * 64 + c2 = (a * 256 + b) * 256 + c
      BY <1>1, <1>2, <1>3
<1> QED  BY <1>5, <1>6, <1>7 DEF Packed, a1, b1, c1, c2

(* The characters of three bytes, the dashes of the missing ones among     *)
(* them: a dash counts as zero, which is what the byte was filled up with. *)
LEMMA CodeHolds ==
    ASSUME source \in Bytes, NEW u \in Nat, 3 * u < Len(source)
    PROVE  LET a == Byte(3 * u + 1)
               b == Byte(3 * u + 2)
               c == Byte(3 * u + 3)
               left == Len(source) - 3 * u
           IN  /\ Code(u)[1] % 64 = a \div 4
               /\ Code(u)[2] % 64 = (a * 16 + b \div 16) % 64
               /\ Code(u)[3] % 64 = (b * 4 + c \div 64) % 64
               /\ Code(u)[4] % 64 = c % 64
               /\ Code(u)[1] # Minus /\ Code(u)[2] # Minus
               /\ Code(u)[3] = Minus <=> left = 1
               /\ Code(u)[4] = Minus <=> left <= 2
<1> DEFINE a == Byte(3 * u + 1)
           b == Byte(3 * u + 2)
           c == Byte(3 * u + 3)
           left == Len(source) - 3 * u
           x2 == (a * 16 + b \div 16) % 64
           x3 == (b * 4 + c \div 64) % 64
<1>1. a \in 0..255 /\ b \in 0..255 /\ c \in 0..255
  <2>1. 3 * u + 1 \in Nat \ {0} /\ 3 * u + 2 \in Nat \ {0} /\ 3 * u + 3 \in Nat \ {0}
        OBVIOUS
  <2> QED  BY <2>1, BytesAreBytes, Zenon
<1>2. Len(source) \in Nat /\ left \in Nat \ {0}
  <2>1. Len(source) \in Nat  BY LenProperties, Zenon DEF Bytes
  <2> QED  BY <2>1
<1>3. left = 1 => b = 0 /\ c = 0
  <2>1. ASSUME left = 1
        PROVE  3 * u + 2 > Len(source) /\ 3 * u + 3 > Len(source)
        BY <1>2, <2>1
  <2> QED  BY <1>2, <2>1 DEF Byte
<1>4. left = 2 => c = 0
  <2>1. ASSUME left = 2 PROVE 3 * u + 3 > Len(source)
        BY <1>2, <2>1
  <2> QED  BY <1>2, <2>1 DEF Byte
<1>5. Triple(u)[1] = a /\ Triple(u)[2] = b /\ Triple(u)[3] = c
      BY DEF Triple
<1>6. /\ Code(u)[1] = a \div 4 /\ Code(u)[2] = x2
      /\ Code(u)[3] = (IF left > 1 THEN x3 ELSE Minus)
      /\ Code(u)[4] = (IF left > 2 THEN c % 64 ELSE Minus)
      BY <1>5 DEF Code, Characters
<1> HIDE DEF a, b, c
<1>7. x2 \in 0..63 /\ x2 % 64 = x2
  <2>1. \A v \in Int : v % 64 \in 0..63 /\ (v % 64) % 64 = v % 64  OBVIOUS
  <2>2. a * 16 + b \div 16 \in Int  BY <1>1
  <2> QED  BY <2>1, <2>2
<1>8. x3 \in 0..63 /\ x3 % 64 = x3
  <2>1. \A v \in Int : v % 64 \in 0..63 /\ (v % 64) % 64 = v % 64  OBVIOUS
  <2>2. b * 4 + c \div 64 \in Int  BY <1>1
  <2> QED  BY <2>1, <2>2
<1>9. left = 1 => x3 = 0
  <2>1. (0 * 4 + 0 \div 64) % 64 = 0  OBVIOUS
  <2> HIDE DEF left
  <2> QED  BY <1>3, <2>1
<1> HIDE DEF x2, x3, left
<1>10. (a \div 4) % 64 = a \div 4 /\ a \div 4 \in 0..63 /\ c % 64 \in 0..63
       /\ (c % 64) % 64 = c % 64
       BY <1>1
<1>11. Minus = 64 /\ 64 % 64 = 0 /\ 0 % 64 = 0  BY DEF Minus
<1>12. Code(u)[3] % 64 = x3 /\ (Code(u)[3] = Minus <=> left = 1)
       BY <1>2, <1>6, <1>8, <1>9, <1>11
<1>13. Code(u)[4] % 64 = c % 64 /\ (Code(u)[4] = Minus <=> left <= 2)
       BY <1>2, <1>3, <1>4, <1>6, <1>10, <1>11
<1>14. Code(u)[1] # Minus /\ Code(u)[2] # Minus  BY <1>6, <1>7, <1>10, <1>11
<1> QED  BY <1>6, <1>7, <1>10, <1>12, <1>13, <1>14 DEF a, b, c, x2, x3, left

LEMMA CodedDecodes ==
    ASSUME EncodeInv, CodedInv, encoding = "done"
    PROVE  EncodedDecodes
<1> DEFINE len == Len(source)
           tuplets == (len + 2) \div 3
           Dashes(k) == CharacterAt(k) = Minus <=> k > 4 * tuplets - (3 * tuplets - len)
           v(j, c) == CharacterAt(4 * ((j - 1) \div 3) + c) % 64
           bits(j) == ((v(j, 1) * 64 + v(j, 2)) * 64 + v(j, 3)) * 64 + v(j, 4)
           Found(j) == source[j] = (bits(j) \div (256 ^ (2 - ((j - 1) % 3)))) % 256
<1>1. len \in Nat /\ source \in Bytes  BY DEF EncodeInv, Bytes
<1>2. PICK t \in Nat : CodedUpTo(t)  BY DEF CodedInv
<1>3. 3 * t >= len /\ 3 * t <= len + 2  BY <1>2 DEF CodedInv, CodedUpTo, Progressed
<1>4. tuplets = t  BY <1>1, <1>3
<1>5. Len(encoded) = 4 * tuplets + 2 * (tuplets \div LINE)
      BY <1>2, <1>4 DEF CodedUpTo, Progressed, LINE
<1>6. ASSUME NEW u \in Nat, u < t, NEW c \in 1..4
      PROVE  CharacterAt(4 * u + c) = Code(u)[c]
  <2>1. (4 * u + c - 1) \div 60 = u \div 15  OBVIOUS
  <2>2. u \div 15 \in Nat  OBVIOUS
  <2> DEFINE line == u \div 15
  <2>3. CharacterAt(4 * u + c) = encoded[(4 * u + c) + 2 * line]
        BY <2>1 DEF CharacterAt
  <2>4. encoded[4 * u + 2 * line + c] = Code(u)[c]
        BY <1>2, <1>6 DEF CodedUpTo
  <2> HIDE DEF line
  <2>5. (4 * u + c) + 2 * line = 4 * u + 2 * line + c  BY <2>2 DEF line
  <2> QED  BY <2>3, <2>4, <2>5
<1> HIDE DEF len, tuplets
<1>7. ASSUME NEW k \in 1..(4 * tuplets) PROVE Dashes(k)
  <2> DEFINE u == (k - 1) \div 4
             c == k - 4 * u
  <2>1. u \in Nat /\ c \in 1..4 /\ u < t /\ k = 4 * u + c  BY <1>4
  <2> HIDE DEF u, c
  <2>2. CharacterAt(k) = Code(u)[c]  BY <1>6, <2>1
  <2>3. 3 * u < len  BY <1>1, <1>3, <2>1
  <2>4. /\ Code(u)[1] # Minus /\ Code(u)[2] # Minus
        /\ Code(u)[3] = Minus <=> len - 3 * u = 1
        /\ Code(u)[4] = Minus <=> len - 3 * u <= 2
        BY <1>1, <2>1, <2>3, CodeHolds DEF len
  <2>5. Code(u)[c] = Minus <=> (c = 3 /\ len - 3 * u = 1) \/ (c = 4 /\ len - 3 * u <= 2)
    <3>1. c = 1 \/ c = 2 \/ c = 3 \/ c = 4  BY <2>1
    <3> QED  BY <2>4, <3>1
  <2>6. k > 4 * tuplets - (3 * tuplets - len)
           <=> (c = 3 /\ len - 3 * u = 1) \/ (c = 4 /\ len - 3 * u <= 2)
        BY <1>1, <1>3, <1>4, <2>1, <2>3
  <2> QED  BY <2>2, <2>5, <2>6
<1>8. ASSUME NEW j \in 1..len PROVE Found(j)
  <2> DEFINE u == (j - 1) \div 3
             r == (j - 1) % 3
             a == Byte(3 * u + 1)
             b == Byte(3 * u + 2)
             c == Byte(3 * u + 3)
             w == (a * 256 + b) * 256 + c
  <2>1. u \in Nat /\ r \in 0..2 /\ j = 3 * u + r + 1  BY <1>1
  <2>2. a \in 0..255 /\ b \in 0..255 /\ c \in 0..255
    <3> HIDE DEF u
    <3> QED  BY <1>1, <2>1, BytesAreBytes
  <2> HIDE DEF u, r
  <2>3. u < t /\ 3 * u < len  BY <1>1, <1>3, <2>1
  <2>4. /\ v(j, 1) = a \div 4 /\ v(j, 2) = (a * 16 + b \div 16) % 64
        /\ v(j, 3) = (b * 4 + c \div 64) % 64 /\ v(j, 4) = c % 64
    <3>1. /\ CharacterAt(4 * u + 1) = Code(u)[1] /\ CharacterAt(4 * u + 2) = Code(u)[2]
          /\ CharacterAt(4 * u + 3) = Code(u)[3] /\ CharacterAt(4 * u + 4) = Code(u)[4]
          BY <1>6, <2>1, <2>3
    <3>2. /\ Code(u)[1] % 64 = a \div 4 /\ Code(u)[2] % 64 = (a * 16 + b \div 16) % 64
          /\ Code(u)[3] % 64 = (b * 4 + c \div 64) % 64 /\ Code(u)[4] % 64 = c % 64
          BY <1>1, <2>1, <2>3, CodeHolds DEF len
    <3> QED  BY <3>1, <3>2 DEF u
  <2> HIDE DEF a, b, c, v
  <2>5. bits(j) = w
    <3>1. a \in Octet /\ b \in Octet /\ c \in Octet  BY <2>2 DEF Octet
    <3>2. Packed(a, b, c) = w  BY <3>1, SixBitsEach
    <3> HIDE DEF w
    <3> QED  BY <2>4, <3>2 DEF Packed
  <2>6. source[j] = Byte(j)  BY <1>1, <1>8 DEF Byte, len
  <2> HIDE DEF bits
  <2>7. CASE r = 0
    <3>1. Byte(j) = a  BY <2>1, <2>7 DEF a
    <3>2. 256 ^ (2 - r) = 65536  BY <2>7
    <3>3. (w \div 65536) % 256 = a  BY <2>2
    <3> HIDE DEF w
    <3> QED  BY <2>5, <2>6, <3>1, <3>2, <3>3 DEF r
  <2>8. CASE r = 1
    <3>1. Byte(j) = b  BY <2>1, <2>8 DEF b
    <3>2. 256 ^ (2 - r) = 256  BY <2>8
    <3>3. (w \div 256) % 256 = b
      <4>1. \A p \in Int, q \in 0..255 : (256 * p + q) \div 256 = p /\ (256 * p + q) % 256 = q
            OBVIOUS
      <4>2. a * 256 + b \in Int /\ a \in Int /\ w = 256 * (a * 256 + b) + c
            /\ a * 256 + b = 256 * a + b
            BY <2>2
      <4>3. w \div 256 = a * 256 + b  BY <2>2, <4>1, <4>2
      <4> QED  BY <2>2, <4>1, <4>2, <4>3
    <3> HIDE DEF w
    <3> QED  BY <2>5, <2>6, <3>1, <3>2, <3>3 DEF r
  <2>9. CASE r = 2
    <3>1. Byte(j) = c  BY <2>1, <2>9 DEF c
    <3>2. 256 ^ (2 - r) = 1  BY <2>9
    <3>3. (w \div 1) % 256 = c  BY <2>2
    <3> HIDE DEF w
    <3> QED  BY <2>5, <2>6, <3>1, <3>2, <3>3 DEF r
  <2> QED  BY <2>1, <2>7, <2>8, <2>9
<1> QED  BY <1>5, <1>7, <1>8, Zenon DEF EncodedDecodes, len, tuplets

(* Whatever the source and its length, what rfc822_binary wrote of it can  *)
(* be decoded to it: every tuplet is where its line has it, the bits of    *)
(* each byte are there, and the dashes tell how many bytes are missing.    *)
THEOREM SourcesAreDecoded == Spec => []EncodedDecodes
<1>1. Spec => [](EncodeInv /\ CodedInv)
  <2>1. TextInv => EncodeInv  BY DEF TextInv
  <2> QED  BY TextInvAlways, InitCoded, CodedStep, <2>1, PTL DEF Spec
<1>2. EncodeInv /\ CodedInv => EncodedDecodes
      BY CodedDecodes DEF EncodedDecodes
<1> QED  BY <1>1, <1>2, PTL

-----------------------------------------------------------------------------
(* The digest and the types.  create_disc_id and the other clients of      *)
(* sha1.c are clients as Sha1FeedProofs has them.                          *)
LEMMA ShaIsUsedInOrder == ValueInv /\ [Next]_vars => [FeedNext]_shaVars
<1> SUFFICES ASSUME ValueInv, [Next]_vars PROVE [FeedNext]_shaVars
    OBVIOUS
<1>1. pieces \in Seq(Nat)  BY DEF ValueInv, FedInv
<1>2. CASE FeedPiece
  <2>1. Update(Head(pieces)) /\ pieces # <<>>  BY <1>2 DEF FeedPiece
  <2>2. Head(pieces) \in Nat  BY <1>1, <2>1
  <2> QED  BY <2>1, <2>2 DEF FeedNext
<1>3. CASE Final  BY <1>3 DEF Final, FeedNext
<1>4. CASE HashStep  BY <1>4 DEF HashStep, FeedNext
<1>5. CASE Id /\ ~ FeedPiece /\ ~ Final /\ ~ HashStep
  <2>1. UNCHANGED shaVars
        BY <1>5 DEF Id, StartId, Hashed, StartEncoding, EncodeStep, Encoded, CopyId
  <2> QED  BY <2>1
<1>6. CASE Freedb \/ TocString \/ Url
  <2>1. UNCHANGED shaVars
        BY <1>6 DEF Freedb, AddDigit, NextStart, PrintFreedbId, TocString, OmitToc, StartToc,
                    PrintOffset, AppendToc, Url, Prefix, AddId, Tracks
  <2> QED  BY <2>1
<1>7. CASE UNCHANGED vars  BY <1>7 DEF vars
<1> QED  BY <1>2, <1>3, <1>4, <1>5, <1>6, <1>7 DEF Next, Returned

LEMMA FeedInvAlways == Spec => [](TextInv /\ ValueInv /\ FeedInv)
<1>1. Init => FeedInv  BY InitFeed DEF Init
<1>2. ValueInv /\ FeedInv /\ [Next]_vars => FeedInv'  BY ShaIsUsedInOrder, FeedKeeps
<1> QED  BY TextInvAlways, InitValues, ValueStep, <1>1, <1>2, PTL DEF Spec

(* The id and whatever else is hashed is the digest of the padded message, *)
(* in whatever pieces disc.c and the other clients of sha1.c have fed it.  *)
THEOREM DigestsAreOfPaddedMessages == Spec => []DigestIsOfPaddedMessage
<1>1. FeedInv => DigestIsOfPaddedMessage  BY DEF FeedInv
<1> QED  BY FeedInvAlways, <1>1, PTL

(* The characters of base64.c: the alphabet, the dash, CR and LF.          *)
Alphabet == 0..66

LEMMA CodeIsFourCharacters ==
    ASSUME source \in Bytes, NEW u \in Nat
    PROVE  Code(u) \in Seq(Alphabet)
<1> DEFINE s == Triple(u)
           left == Len(source) - 3 * u
           c1 == s[1] \div 4
           c2 == (s[1] * 16 + s[2] \div 16) % 64
           c3 == IF left > 1 THEN (s[2] * 4 + s[3] \div 64) % 64 ELSE Minus
           c4 == IF left > 2 THEN s[3] % 64 ELSE Minus
<1>1. s[1] \in 0..255 /\ s[2] \in 0..255 /\ s[3] \in 0..255
  <2>1. \A k \in Nat \ {0} : Byte(k) \in 0..255  BY BytesAreBytes
  <2> QED  BY <2>1 DEF Triple
<1>2. Code(u) = <<c1, c2, c3, c4>>  BY DEF Code, Characters
<1> HIDE DEF s
<1>3. \A v \in Int : v % 64 \in Alphabet  BY DEF Alphabet
<1>4. s[1] \in Int /\ s[2] \in Int /\ s[3] \in Int  BY <1>1
<1>5. \A v, w \in Int : v * 16 + w \div 16 \in Int /\ v * 4 + w \div 64 \in Int
      OBVIOUS
<1>6. c1 \in Alphabet
  <2>1. \A v \in 0..255 : v \div 4 \in Alphabet  BY DEF Alphabet
  <2> QED  BY <1>1, <2>1
<1>7. c2 \in Alphabet
  <2>1. s[1] * 16 + s[2] \div 16 \in Int  BY <1>4, <1>5
  <2> QED  BY <1>3, <2>1
<1>8. Minus \in Alphabet  BY DEF Minus, Alphabet
<1>9. c3 \in Alphabet
  <2>1. s[2] * 4 + s[3] \div 64 \in Int  BY <1>4, <1>5
  <2>2. (s[2] * 4 + s[3] \div 64) % 64 \in Alphabet  BY <1>3, <2>1
  <2> QED  BY <1>8, <2>2
<1>10. c4 \in Alphabet
  <2>1. s[3] % 64 \in Alphabet  BY <1>3, <1>4
  <2> QED  BY <1>8, <2>1
<1> HIDE DEF c1, c2, c3, c4
<1> QED  BY <1>2, <1>6, <1>7, <1>9, <1>10

LEMMA CharactersAreWritten ==
    ASSUME EncodeInv, encoded \in Seq(Alphabet), Tuplet
    PROVE  encoded' \in Seq(Alphabet)
<1>1. PICK tuplets \in Nat, lines \in Nat : Progressed(tuplets, lines)
      BY DEF EncodeInv
<1> DEFINE longer == encoded \o Code(tuplets)
           rest == IF column + 1 = LINE THEN Break ELSE <<>>
<1>2. encoded' = longer \o rest  BY <1>1, TupletIsCode
<1>3. longer \in Seq(Alphabet)
  <2>1. Code(tuplets) \in Seq(Alphabet)  BY CodeIsFourCharacters DEF EncodeInv
  <2> QED  BY <2>1, BothAreWritten
<1>4. rest \in Seq(Alphabet)
  <2>1. 65 \in Alphabet /\ 66 \in Alphabet  BY DEF Alphabet
  <2>2. Break \in Seq(Alphabet) /\ <<>> \in Seq(Alphabet)  BY <2>1 DEF Break
  <2> QED  BY <2>2
<1> HIDE DEF longer, rest
<1> QED  BY <1>2, <1>3, <1>4, BothAreWritten

(* The division of C is one of whole numbers, and none above zero comes    *)
(* out of one that is not.                                                 *)
LEMMA QuotientIsKnown ==
    ASSUME NEW a \in Int
    PROVE  /\ Quotient(a, SECOND) \in Int
           /\ a <= 0 => Quotient(a, SECOND) <= 0
           /\ a >= 0 => Quotient(a, SECOND) = a \div SECOND /\ Quotient(a, SECOND) \in Nat
<1>1. SECOND \in Nat \ {0}  BY TextConstants
<1>2. CASE a >= 0
  <2>1. a \div SECOND \in Nat  BY <1>1, <1>2, DivMod
  <2>2. Quotient(a, SECOND) = a \div SECOND  BY <1>2 DEF Quotient
  <2>3. a = 0 => a \div SECOND = 0  BY <1>1, DivUnique
  <2> DEFINE q == a \div SECOND
  <2> HIDE DEF q
  <2>4. q \in Nat /\ Quotient(a, SECOND) = q /\ (a = 0 => q = 0)  BY <2>1, <2>2, <2>3 DEF q
  <2>5. Quotient(a, SECOND) \in Int /\ (a <= 0 => Quotient(a, SECOND) <= 0)
        BY <1>2, <2>4
  <2> QED  BY <2>1, <2>2, <2>5
<1>3. CASE a < 0
  <2> DEFINE q == (-a) \div SECOND
  <2>1. q \in Nat
    <3>1. -a \in Nat  BY <1>3
    <3> QED  BY <1>1, <3>1, DivMod
  <2>2. Quotient(a, SECOND) = -q  BY <1>3 DEF Quotient
  <2> HIDE DEF q
  <2> QED  BY <1>3, <2>1, <2>2
<1> QED  BY <1>2, <1>3

(* What the loops count, and the state of the encoder.                     *)
LoopInv ==
    /\ i \in 0..(MAX_TRACK + 1) /\ n \in Nat /\ m \in Int /\ room \in Nat
    /\ encoded \in Seq(Alphabet) /\ encoding \in {"idle", "tuplets", "done"}

LEMMA LoopKeeps == TextInv /\ LoopInv /\ [Next]_vars => LoopInv'
<1> SUFFICES ASSUME TextInv, LoopInv, [Next]_vars PROVE LoopInv'
    OBVIOUS
<1>1. /\ disc.first \in 1..MAX_TRACK /\ disc.last \in 0..MAX_TRACK
      /\ \A k \in Slot : disc.offsets[k] \in Int
      /\ MAX_TRACK \in Nat
      BY DiscIsKnown
<1>2. EncodeInv  BY DEF TextInv
<1>3. /\ i \in 0..(MAX_TRACK + 1) /\ n \in Nat /\ m \in Int /\ room \in Nat
      /\ encoded \in Seq(Alphabet) /\ encoding \in {"idle", "tuplets", "done"}
      BY DEF LoopInv
<1>4. ASSUME UNCHANGED <<locals, room, encoded, encoding>> PROVE LoopInv'
      BY <1>3, <1>4 DEF LoopInv, locals
<1>5. CASE StartEncoding
  <2>1. UNCHANGED <<i, m, n, room>> /\ encoded' = <<>> /\ encoding' = "tuplets"
        BY <1>5 DEF StartEncoding, Encode, makeVars, locals
  <2> QED  BY <1>3, <2>1 DEF LoopInv
<1>6. CASE EncodeStep
  <2>1. UNCHANGED <<i, m, n, room>>  BY <1>6 DEF EncodeStep, makeVars, locals
  <2>2. CASE Tuplet
    <3>1. encoded' \in Seq(Alphabet)  BY <1>2, <1>3, <2>2, CharactersAreWritten
    <3>2. encoding' = encoding  BY <2>2 DEF Tuplet
    <3> QED  BY <1>3, <2>1, <3>1, <3>2 DEF LoopInv
  <2>3. CASE TieOff
    <3>1. encoded' = encoded /\ encoding' = "done"  BY <2>3 DEF TieOff
    <3> QED  BY <1>3, <2>1, <3>1 DEF LoopInv
  <2> QED  BY <1>6, <2>2, <2>3 DEF EncodeStep
<1>7. CASE Id /\ ~ StartEncoding /\ ~ EncodeStep
  <2>1. UNCHANGED <<locals, room, encoded, encoding>>
        BY <1>7 DEF Id, StartId, FeedPiece, Final, HashStep, Hashed, Encoded, CopyId,
                    makeVars, base64Vars
  <2> QED  BY <1>4, <2>1
<1>8. CASE AddDigit
  <2>1. m \div 10 \in Int /\ m % 10 \in Nat  BY <1>3
  <2>2. /\ n' = n + (m % 10) /\ m' = m \div 10
        /\ UNCHANGED <<i, room, encoded, encoding>>
        BY <1>8 DEF AddDigit, base64Vars
  <2> QED  BY <1>3, <2>1, <2>2 DEF LoopInv
<1>9. CASE NextStart
  <2>1. /\ i < disc.last /\ m' = Quotient(disc.offsets[i + 1], SECOND) /\ i' = i + 1
        /\ UNCHANGED <<n, room, encoded, encoding>>
        BY <1>9 DEF NextStart, base64Vars
  <2>2. i + 1 \in Slot /\ i + 1 \in 0..(MAX_TRACK + 1)  BY <1>1, <1>3, <2>1 DEF Slot
  <2>3. disc.offsets[i + 1] \in Int  BY <1>1, <2>2
  <2>4. Quotient(disc.offsets[i + 1], SECOND) \in Int  BY <2>3, QuotientIsKnown
  <2> QED  BY <1>3, <2>1, <2>2, <2>4 DEF LoopInv
<1>10. CASE StartToc
  <2>1. /\ room' = TocSize(disc) /\ i' = disc.first /\ UNCHANGED <<m, n, encoded, encoding>>
        /\ TocSize(disc) > 0
        BY <1>10 DEF StartToc, TocHasSize, base64Vars
  <2>2. TocSize(disc) \in Nat /\ disc.first \in 0..(MAX_TRACK + 1)
    <3> DEFINE a == disc.first
               z == disc.last
    <3>1. /\ a \in 1..MAX_TRACK /\ z \in 0..MAX_TRACK /\ MAX_TRACK \in Nat
          /\ (1 + z - a + 3) * 7 + 1 > 0
          BY <1>1, <2>1 DEF TocSize
    <3> HIDE DEF a, z
    <3>2. (1 + z - a + 3) * 7 + 1 \in Nat /\ a \in 0..(MAX_TRACK + 1)  BY <3>1
    <3> QED  BY <3>2 DEF TocSize, a, z
  <2> QED  BY <1>3, <2>1, <2>2 DEF LoopInv
<1>11. CASE PrintOffset
  <2>1. i <= disc.last /\ i' = i + 1 /\ UNCHANGED <<m, n, room, encoded, encoding>>
        BY <1>11 DEF PrintOffset, base64Vars
  <2>2. i + 1 \in 0..(MAX_TRACK + 1)  BY <1>1, <1>3, <2>1
  <2> QED  BY <1>3, <2>1, <2>2 DEF LoopInv
<1>12. CASE PrintFreedbId \/ OmitToc \/ AppendToc \/ Url
  <2>1. UNCHANGED <<locals, room, encoded, encoding>>
        BY <1>12 DEF PrintFreedbId, OmitToc, AppendToc, Url, Prefix, AddId, Tracks, base64Vars
  <2> QED  BY <1>4, <2>1
<1>13. CASE UNCHANGED vars
  <2>1. UNCHANGED <<locals, room, encoded, encoding>>
        BY <1>13 DEF vars, makeVars, base64Vars
  <2> QED  BY <1>4, <2>1
<1> QED  BY <1>5, <1>6, <1>7, <1>8, <1>9, <1>10, <1>11, <1>12, <1>13
         DEF Next, Freedb, TocString, Returned

LEMMA InitLoops == Init => LoopInv
<1> SUFFICES ASSUME Init PROVE LoopInv
    OBVIOUS
<1>1. /\ i = 0 /\ m = 0 /\ n = 0 /\ room = 0 /\ encoded = <<>> /\ encoding = "idle"
      BY DEF Init, Base64Init
<1> QED  BY <1>1, TocConstants DEF LoopInv

(* The type invariant: the locals of the loops stay in the range of the    *)
(* slots, no length and no size gets negative, and the blocks, the counts  *)
(* and the characters have the types that sha1.c and base64.c give them.   *)
THEOREM TypeCorrect == Spec => []TypeOK
<1>1. Spec => []LoopInv  BY TextInvAlways, InitLoops, LoopKeeps, PTL DEF Spec
<1>2. TextInv /\ ValueInv /\ FeedInv /\ LoopInv => TypeOK
  <2> SUFFICES ASSUME TextInv, ValueInv, FeedInv, LoopInv PROVE TypeOK
      OBVIOUS
  <2>1. ShaTypeOK
    <3>1. /\ count_lo \in 0..(WORD - 1) /\ count_hi \in Nat
          /\ count \in Nat /\ buffer \in Nat /\ local \in 0..BLOCK
          /\ data \in Blocks /\ digest \in Seq(Blocks)
          /\ feeding \in {"idle", "fill", "blocks", "length", "done"}
          BY DEF FeedInv, FeedTypes
    <3>2. DOMAIN data = 0..(BLOCK - 1)  BY <3>1 DEF Blocks, Positions
    <3>3. \A b \in 1..Len(digest) : DOMAIN digest[b] = 0..(BLOCK - 1)
      <4>1. \A b \in 1..Len(digest) : digest[b] \in Blocks  BY <3>1, ElementOfSeq
      <4> QED  BY <4>1 DEF Blocks, Positions
    <3> QED  BY <3>1, <3>2, <3>3 DEF ShaTypeOK
  <2>2. Base64TypeOK
    <3>1. /\ source \in Bytes /\ srcl \in 0..Len(source) /\ column \in 0..14
          /\ encoded \in Seq(Alphabet) /\ encoding \in {"idle", "tuplets", "done"}
          BY DEF TextInv, EncodeInv, LoopInv
    <3>2. LINE - 1 = 14  BY DEF LINE
    <3> QED  BY <3>1, <3>2, Zenon DEF Base64TypeOK, Alphabet
  <2>3. /\ job \in TextField \cup {"hash", "encode"} /\ disc \in Discs
        /\ step \in {"prefix", "id", "hash", "encode", "copy", "digits", "add_id",
                     "tracks", "toc", "offsets", "done"}
        BY DEF TextInv, JobAtStep
  <2>4. length \in [Text -> Nat] /\ extent \in [Text -> Nat]  BY DEF TextInv
  <2>5. i \in 0..(MAX_TRACK + 1) /\ n \in Nat /\ m \in Int /\ room \in Nat  BY DEF LoopInv
  <2>6. pieces \in Seq(Nat) /\ fed \in Seq(Int) /\ DOMAIN text = Text
        BY DEF ValueInv, FedInv
  <2> QED  BY <2>1, <2>2, <2>3, <2>4, <2>5, <2>6 DEF TypeOK
<1> QED  BY FeedInvAlways, <1>1, <1>2, PTL

-----------------------------------------------------------------------------
(* The sums of a FreeDB ID.  DigitSum and StartSums are recursive: that    *)
(* there are such functions is shown by induction over how far they go.    *)
LEMMA LeastUpTo ==
    ASSUME NEW top \in Nat, NEW T, \A k \in T : k \in 0..top, T # {}
    PROVE  \E x \in T : \A y \in T : x <= y
<1>1. 0 \in Int /\ top \in Int /\ T \in SUBSET (0..top)  OBVIOUS
<1> QED  BY <1>1, Least

LEMMA UpTo ==
    ASSUME NEW top \in Nat, NEW S, 0 \in S,
           \A k \in 0..(top - 1) : k \in S => k + 1 \in S
    PROVE  \A k \in 0..top : k \in S
<1> DEFINE T == {k \in 0..top : k \notin S}
<1>1. ASSUME T # {} PROVE FALSE
  <2>1. PICK x \in T : \A y \in T : x <= y
    <3>1. \A k \in T : k \in 0..top  OBVIOUS
    <3> HIDE DEF T
    <3> QED  BY <1>1, <3>1, LeastUpTo
  <2>2. x \in 0..top /\ x \notin S /\ x # 0  OBVIOUS
  <2>3. x - 1 \in 0..(top - 1) /\ x - 1 \in 0..top /\ (x - 1) + 1 = x /\ ~ (x <= x - 1)
        BY <2>2
  <2>4. x - 1 \in S  BY <2>1, <2>3
  <2> QED  BY <2>2, <2>3, <2>4
<1> QED  BY <1>1

(* The digit sum of the numbers up to top.                                 *)
SumsDigits(f, top) ==
    /\ f \in [0..top -> Nat]
    /\ \A v \in 0..top : f[v] = IF v = 0 THEN 0 ELSE (v % 10) + f[v \div 10]

LEMMA Shorter ==
    \A v \in Nat \ {0} : v \div 10 \in Nat /\ v \div 10 <= v - 1 /\ v % 10 \in Nat
OBVIOUS

LEMMA DigitSumsAgree ==
    ASSUME NEW a \in Nat, NEW b \in Nat, NEW f, NEW g,
           SumsDigits(f, a), SumsDigits(g, b), NEW v \in 0..a, v <= b
    PROVE  f[v] = g[v]
<1> DEFINE T == {k \in 0..v : f[k] # g[k]}
<1>1. ASSUME T # {} PROVE FALSE
  <2>1. PICK x \in T : \A y \in T : x <= y
    <3>1. v \in Nat /\ \A k \in T : k \in 0..v  OBVIOUS
    <3> HIDE DEF T
    <3> QED  BY <1>1, <3>1, LeastUpTo
  <2>2. x \in 0..v /\ x \in 0..a /\ x \in 0..b /\ f[x] # g[x]  OBVIOUS
  <2>3. x # 0  BY <2>2 DEF SumsDigits
  <2>4. x \div 10 \in 0..v /\ ~ (x <= x \div 10)  BY <2>2, <2>3, Shorter
  <2>5. f[x \div 10] = g[x \div 10]  BY <2>1, <2>4
  <2>6. f[x] = (x % 10) + f[x \div 10] /\ g[x] = (x % 10) + g[x \div 10]
        BY <2>2, <2>3 DEF SumsDigits
  <2> QED  BY <2>2, <2>5, <2>6
<1> QED  BY <1>1

LEMMA DigitSumsExist ==
    ASSUME NEW top \in Nat
    PROVE  \E f : SumsDigits(f, top)
<1> DEFINE S == {k \in Nat : \E f : SumsDigits(f, k)}
<1>1. 0 \in S
  <2>1. SumsDigits([v \in 0..0 |-> 0], 0)  BY DEF SumsDigits
  <2> QED  BY <2>1
<1>2. ASSUME NEW k \in 0..(top - 1), k \in S PROVE k + 1 \in S
  <2>1. PICK f : SumsDigits(f, k)  BY <1>2
  <2> DEFINE g == [v \in 0..(k + 1) |->
                     IF v = k + 1 THEN (v % 10) + f[v \div 10] ELSE f[v]]
  <2>2. k \in Nat /\ k + 1 \in Nat \ {0}  OBVIOUS
  <2>3. f \in [0..k -> Nat] /\ \A v \in 0..k : f[v] \in Nat
    <3>1. f \in [0..k -> Nat]  BY <2>1 DEF SumsDigits
    <3> QED  BY <3>1
  <2>4. /\ (k + 1) \div 10 \in 0..k /\ (k + 1) % 10 \in Nat  BY <2>2, Shorter
  <2>5. \A v \in 0..(k + 1) : g[v] \in Nat
    <3> SUFFICES ASSUME NEW v \in 0..(k + 1) PROVE g[v] \in Nat  OBVIOUS
    <3>1. CASE v = k + 1  BY <2>3, <2>4, <3>1
    <3>2. CASE v # k + 1  BY <2>2, <2>3, <3>2
    <3> QED  BY <3>1, <3>2
  <2>6. ASSUME NEW v \in 0..(k + 1)
        PROVE  g[v] = IF v = 0 THEN 0 ELSE (v % 10) + g[v \div 10]
    <3>1. CASE v = k + 1
      <4>1. g[v \div 10] = f[v \div 10] /\ v # 0  BY <2>2, <2>4, <3>1
      <4> QED  BY <3>1, <4>1
    <3>2. CASE v # k + 1
      <4>1. v \in 0..k  BY <2>2, <3>2
      <4>2. f[v] = IF v = 0 THEN 0 ELSE (v % 10) + f[v \div 10]  BY <2>1, <4>1 DEF SumsDigits
      <4>3. v # 0 => v \div 10 \in 0..k  BY <2>2, <4>1, Shorter
      <4>4. v # 0 => g[v \div 10] = f[v \div 10]  BY <2>2, <4>3
      <4> QED  BY <3>2, <4>1, <4>2, <4>4
    <3> QED  BY <3>1, <3>2
  <2>7. g \in [0..(k + 1) -> Nat]  BY <2>5
  <2> HIDE DEF g
  <2>8. SumsDigits(g, k + 1)  BY <2>6, <2>7 DEF SumsDigits
  <2> QED  BY <2>2, <2>8
<1>3. top \in S
  <2> HIDE DEF S
  <2>1. \A k \in 0..top : k \in S  BY <1>1, <1>2, UpTo
  <2> QED  BY <2>1
<1> QED  BY <1>3

LEMMA DigitSumAdds ==
    /\ DigitSum \in [Nat -> Nat]
    /\ DigitSum[0] = 0
    /\ \A v \in Nat \ {0} : DigitSum[v] = (v % 10) + DigitSum[v \div 10]
<1> DEFINE upTo(top) == CHOOSE f : SumsDigits(f, top)
           sum == [v \in Nat |-> upTo(v)[v]]
           IsSum(f) == f = [v \in Nat |-> IF v = 0 THEN 0 ELSE (v % 10) + f[v \div 10]]
<1>1. \A top \in Nat : SumsDigits(upTo(top), top)
      BY DigitSumsExist
<1> HIDE DEF upTo
<1>2. \A v \in Nat : sum[v] \in Nat
  <2> SUFFICES ASSUME NEW v \in Nat PROVE upTo(v)[v] \in Nat  OBVIOUS
  <2>1. upTo(v) \in [0..v -> Nat] /\ v \in 0..v  BY <1>1 DEF SumsDigits
  <2> QED  BY <2>1
<1>3. ASSUME NEW v \in Nat
      PROVE  sum[v] = IF v = 0 THEN 0 ELSE (v % 10) + sum[v \div 10]
  <2>1. upTo(v)[v] = IF v = 0 THEN 0 ELSE (v % 10) + upTo(v)[v \div 10]
        BY <1>1 DEF SumsDigits
  <2>2. CASE v = 0  BY <2>1, <2>2
  <2>3. CASE v # 0
    <3> DEFINE u == v \div 10
    <3>1. u \in Nat /\ u \in 0..u /\ u <= v  BY <2>3, Shorter
    <3> HIDE DEF u
    <3>2. upTo(u)[u] = upTo(v)[u]  BY <1>1, <3>1, DigitSumsAgree
    <3>3. sum[u] = upTo(v)[u]  BY <3>1, <3>2
    <3> QED  BY <2>1, <2>3, <3>3 DEF u
  <2> QED  BY <2>2, <2>3
<1>4. IsSum(sum)
  <2>1. sum = [v \in Nat |-> sum[v]]  OBVIOUS
  <2> HIDE DEF sum
  <2> QED  BY <1>3, <2>1, Zenon
<1>5. DigitSum = CHOOSE f : IsSum(f)  BY Zenon DEF DigitSum
<1> HIDE DEF sum, IsSum
<1>6. IsSum(DigitSum)  BY <1>4, <1>5, Zenon
<1>7. DigitSum = [v \in Nat |-> IF v = 0 THEN 0 ELSE (v % 10) + DigitSum[v \div 10]]
      BY <1>6 DEF IsSum
<1>8. \A v \in Nat : DigitSum[v] = IF v = 0 THEN 0 ELSE (v % 10) + DigitSum[v \div 10]
      BY <1>7
<1>9. DigitSum \in [Nat -> Nat]
  <2>1. \A v \in Nat : DigitSum[v] = sum[v]
    <3> SUFFICES ASSUME NEW v \in Nat PROVE DigitSum[v] = sum[v]  OBVIOUS
    <3> DEFINE T == {k \in 0..v : DigitSum[k] # sum[k]}
    <3>1. ASSUME T # {} PROVE FALSE
      <4>1. PICK x \in T : \A y \in T : x <= y
        <5>1. \A k \in T : k \in 0..v  OBVIOUS
        <5> HIDE DEF T
        <5> QED  BY <3>1, <5>1, LeastUpTo
      <4>2. x \in 0..v /\ x \in Nat /\ DigitSum[x] # sum[x]  OBVIOUS
      <4>3. x # 0  BY <1>3, <1>8, <4>2
      <4>4. x \div 10 \in 0..v /\ ~ (x <= x \div 10)  BY <4>2, <4>3, Shorter
      <4>5. DigitSum[x \div 10] = sum[x \div 10]  BY <4>1, <4>4
      <4> QED  BY <1>3, <1>8, <4>2, <4>3, <4>5
    <3> QED  BY <3>1
  <2> QED  BY <1>2, <1>7, <2>1
<1> QED  BY <1>8, <1>9

(* The sums of the starts up to track top.                                 *)
SumsStarts(d, f, top) ==
    /\ f \in [0..top -> Nat]
    /\ \A k \in 0..top : f[k] = IF k = 0 THEN 0 ELSE f[k - 1] + StartDigits(d, k)

LEMMA StartSumsAdd ==
    ASSUME NEW d, d.last \in Nat, \A k \in 1..d.last : d.offsets[k] \in Int
    PROVE  SumsStarts(d, StartSums(d), d.last)
<1> DEFINE last == d.last
           S == {t \in Nat : t <= last => \E f : SumsStarts(d, f, t)}
           IsSum(f) == f = [k \in 0..last |-> IF k = 0 THEN 0
                                              ELSE f[k - 1] + StartDigits(d, k)]
<1>1. \A k \in 1..last : StartDigits(d, k) \in Nat
  <2> SUFFICES ASSUME NEW k \in 1..last PROVE StartDigits(d, k) \in Nat  OBVIOUS
  <2> DEFINE start == d.offsets[k]
  <2>1. start \in Int /\ SECOND \in Nat \ {0}  BY TextConstants
  <2>2. StartDigits(d, k) = IF start > 0 THEN DigitSum[start \div SECOND] ELSE 0
        BY DEF StartDigits
  <2> HIDE DEF start
  <2>3. start > 0 => start \div SECOND \in Nat
    <3>1. start > 0 => start \in Nat  BY <2>1
    <3> QED  BY <2>1, <3>1, DivMod
  <2>4. start > 0 => DigitSum[start \div SECOND] \in Nat  BY <2>3, DigitSumAdds
  <2> QED  BY <2>1, <2>2, <2>4
<1> HIDE DEF IsSum
<1>2. 0 \in S
  <2>1. SumsStarts(d, [k \in 0..0 |-> 0], 0)  BY DEF SumsStarts
  <2> QED  BY <2>1
<1>3. ASSUME NEW t \in 0..(last - 1), t \in S PROVE t + 1 \in S
  <2>1. t \in Nat /\ t + 1 \in 1..last /\ t <= last  OBVIOUS
  <2>2. PICK f : SumsStarts(d, f, t)  BY <1>3, <2>1
  <2> DEFINE g == [k \in 0..(t + 1) |->
                     IF k = t + 1 THEN f[t] + StartDigits(d, k) ELSE f[k]]
  <2>3. \A k \in 0..t : f[k] \in Nat
    <3>1. f \in [0..t -> Nat]  BY <2>2 DEF SumsStarts
    <3> QED  BY <3>1
  <2>4. \A k \in 0..(t + 1) : g[k] \in Nat
    <3> SUFFICES ASSUME NEW k \in 0..(t + 1) PROVE g[k] \in Nat  OBVIOUS
    <3>1. CASE k = t + 1  BY <1>1, <2>1, <2>3, <3>1
    <3>2. CASE k # t + 1  BY <2>1, <2>3, <3>2
    <3> QED  BY <3>1, <3>2
  <2>5. ASSUME NEW k \in 0..(t + 1)
        PROVE  g[k] = IF k = 0 THEN 0 ELSE g[k - 1] + StartDigits(d, k)
    <3>1. CASE k = t + 1
      <4>1. k # 0 /\ k - 1 = t /\ k - 1 \in 0..(t + 1) /\ k - 1 # t + 1  BY <2>1, <3>1
      <4>2. g[k - 1] = f[t]  BY <4>1
      <4> QED  BY <3>1, <4>1, <4>2
    <3>2. CASE k # t + 1
      <4>1. k \in 0..t  BY <2>1, <3>2
      <4>2. f[k] = IF k = 0 THEN 0 ELSE f[k - 1] + StartDigits(d, k)
            BY <2>2, <4>1 DEF SumsStarts
      <4>3. k # 0 => k - 1 \in 0..(t + 1) /\ k - 1 # t + 1  BY <2>1, <4>1
      <4>4. k # 0 => g[k - 1] = f[k - 1]  BY <4>3
      <4> QED  BY <3>2, <4>2, <4>4
    <3> QED  BY <3>1, <3>2
  <2>6. g \in [0..(t + 1) -> Nat]  BY <2>4
  <2> HIDE DEF g
  <2>7. SumsStarts(d, g, t + 1)  BY <2>5, <2>6 DEF SumsStarts
  <2> QED  BY <2>1, <2>7
<1>4. PICK f : SumsStarts(d, f, last)
  <2>1. last \in S
    <3> HIDE DEF S
    <3>1. \A t \in 0..last : t \in S  BY <1>2, <1>3, UpTo
    <3> QED  BY <3>1
  <2> QED  BY <2>1
<1>5. IsSum(f)
  <2>1. f = [k \in 0..last |-> f[k]]  BY <1>4 DEF SumsStarts
  <2> QED  BY <1>4, <2>1, Zenon DEF SumsStarts, IsSum
<1>6. StartSums(d) = CHOOSE g : IsSum(g)  BY Zenon DEF StartSums, IsSum
<1>7. IsSum(StartSums(d))  BY <1>5, <1>6, Zenon
<1>8. \A k \in 0..last :
         StartSums(d)[k] = IF k = 0 THEN 0 ELSE StartSums(d)[k - 1] + StartDigits(d, k)
      BY <1>7 DEF IsSum
<1>9. \A k \in 0..last : StartSums(d)[k] = f[k]
  <2> DEFINE Same == {k \in Nat : k <= last => StartSums(d)[k] = f[k]}
  <2>1. 0 \in Same  BY <1>4, <1>8 DEF SumsStarts
  <2>2. ASSUME NEW k \in 0..(last - 1), k \in Same PROVE k + 1 \in Same
    <3>1. k \in Nat /\ k + 1 \in 0..last /\ k + 1 # 0 /\ (k + 1) - 1 = k  OBVIOUS
    <3>2. StartSums(d)[k] = f[k]  BY <2>2, <3>1
    <3>3. StartSums(d)[k + 1] = StartSums(d)[k] + StartDigits(d, k + 1)  BY <1>8, <3>1
    <3>4. f[k + 1] = f[k] + StartDigits(d, k + 1)  BY <1>4, <3>1 DEF SumsStarts
    <3> QED  BY <3>1, <3>2, <3>3, <3>4
  <2>3. \A k \in 0..last : k \in Same
    <3> HIDE DEF Same
    <3> QED  BY <2>1, <2>2, UpTo
  <2> QED  BY <2>3
<1>10. StartSums(d) \in [0..last -> Nat]
  <2>1. \A k \in 0..last : f[k] \in Nat
    <3>1. f \in [0..last -> Nat]  BY <1>4 DEF SumsStarts
    <3> QED  BY <3>1
  <2>2. \A k \in 0..last : StartSums(d)[k] \in Nat  BY <1>9, <2>1
  <2> DEFINE sums == StartSums(d)
  <2>3. sums = [k \in 0..last |-> sums[k]]  BY <1>7, <1>8 DEF IsSum
  <2>4. \A k \in 0..last : sums[k] \in Nat  BY <2>2
  <2> HIDE DEF sums, last
  <2>5. sums \in [0..last -> Nat]  BY <2>3, <2>4
  <2> QED  BY <2>5 DEF sums
<1> QED  BY <1>8, <1>10 DEF SumsStarts

(* Or with nothing: the bits of a byte are those of its halves.            *)
LEMMA OrWithNothing ==
    ASSUME NEW x \in 0..255
    PROVE  Or(x, 0) = x
<1> DEFINE bit(p) == IF 1 \in {(x \div p) % 2, (0 \div p) % 2} THEN p ELSE 0
           x1 == x \div 2
           x2 == x1 \div 2
           x3 == x2 \div 2
           x4 == x3 \div 2
           x5 == x4 \div 2
           x6 == x5 \div 2
           x7 == x6 \div 2
<1>1. /\ x1 \in 0..127 /\ x2 \in 0..63 /\ x3 \in 0..31 /\ x4 \in 0..15
      /\ x5 \in 0..7 /\ x6 \in 0..3 /\ x7 \in 0..1
      OBVIOUS
<1>2. /\ x \div 1 = x /\ x \div 2 = x1 /\ x \div 4 = x2 /\ x \div 8 = x3 /\ x \div 16 = x4
      /\ x \div 32 = x5 /\ x \div 64 = x6 /\ x \div 128 = x7
      OBVIOUS
<1>3. \A v \in Nat : v = 2 * (v \div 2) + (v % 2) /\ v % 2 \in {0, 1}  OBVIOUS
<1>4. ASSUME NEW p \in Nat \ {0} PROVE (0 \div p) % 2 = 0
  <2>1. 0 \div p = 0  BY DivUnique
  <2> QED  BY <2>1
<1>5. ASSUME NEW p \in Nat \ {0}, NEW v \in Nat, x \div p = v PROVE bit(p) = p * (v % 2)
  <2>1. (0 \div p) % 2 = 0  BY <1>4
  <2>2. v % 2 = 0 \/ v % 2 = 1  BY <1>3
  <2>3. CASE v % 2 = 0  BY <1>5, <2>1, <2>3
  <2>4. CASE v % 2 = 1  BY <1>5, <2>1, <2>4
  <2> QED  BY <2>2, <2>3, <2>4
<1>6. bit(1) = 1 * (x % 2)
  <2>1. (x \div 1) % 2 = x % 2 /\ (0 \div 1) % 2 = 0  BY <1>2, <1>4
  <2>2. x % 2 = 0 \/ x % 2 = 1  BY <1>3
  <2> QED  BY <2>1, <2>2
<1> HIDE DEF x1, x2, x3, x4, x5, x6, x7
<1>7. /\ bit(1) = 1 * (x % 2) /\ bit(2) = 2 * (x1 % 2) /\ bit(4) = 4 * (x2 % 2)
      /\ bit(8) = 8 * (x3 % 2) /\ bit(16) = 16 * (x4 % 2) /\ bit(32) = 32 * (x5 % 2)
      /\ bit(64) = 64 * (x6 % 2) /\ bit(128) = 128 * (x7 % 2)
  <2> HIDE DEF bit
  <2>0. /\ x \in Nat /\ x1 \in Nat /\ x2 \in Nat /\ x3 \in Nat
        /\ x4 \in Nat /\ x5 \in Nat /\ x6 \in Nat /\ x7 \in Nat
        BY <1>1
  <2>1. bit(1) = 1 * (x % 2)  BY <1>6
  <2>2. bit(2) = 2 * (x1 % 2)
    <3>1. x \div 2 = x1  BY <1>2
    <3> QED  BY <1>5, <2>0, <3>1
  <2>3. bit(4) = 4 * (x2 % 2)  BY <1>2, <1>5, <2>0
  <2>4. bit(8) = 8 * (x3 % 2)  BY <1>2, <1>5, <2>0
  <2>5. bit(16) = 16 * (x4 % 2)  BY <1>2, <1>5, <2>0
  <2>6. bit(32) = 32 * (x5 % 2)  BY <1>2, <1>5, <2>0
  <2>7. bit(64) = 64 * (x6 % 2)  BY <1>2, <1>5, <2>0
  <2>8. bit(128) = 128 * (x7 % 2)  BY <1>2, <1>5, <2>0
  <2> QED  BY <2>1, <2>2, <2>3, <2>4, <2>5, <2>6, <2>7, <2>8
<1>8. /\ x = 2 * x1 + (x % 2) /\ x1 = 2 * x2 + (x1 % 2) /\ x2 = 2 * x3 + (x2 % 2)
      /\ x3 = 2 * x4 + (x3 % 2) /\ x4 = 2 * x5 + (x4 % 2) /\ x5 = 2 * x6 + (x5 % 2)
      /\ x6 = 2 * x7 + (x6 % 2) /\ x7 = x7 % 2
      BY <1>1 DEF x1, x2, x3, x4, x5, x6, x7
<1>9. Or(x, 0) = bit(1) + bit(2) + bit(4) + bit(8) + bit(16) + bit(32) + bit(64) + bit(128)
      BY DEF Or
<1> HIDE DEF bit
<1>10. \A v \in Nat : v % 2 \in Nat  OBVIOUS
<1> QED  BY <1>1, <1>7, <1>8, <1>9, <1>10

LEMMA DivGrows ==
    ASSUME NEW a \in Nat, NEW b \in Nat, b <= a, NEW d \in Nat \ {0}
    PROVE  b \div d <= a \div d
<1> DEFINE q == a \div d
           p == b \div d
           r == a % d
           s == b % d
<1>1. /\ a = d * q + r /\ q \in Nat /\ r \in 0..(d - 1)
      /\ b = d * p + s /\ p \in Nat /\ s \in 0..(d - 1)
      BY DivMod
<1> HIDE DEF q, p, r, s
<1>2. p > q => d * (p - q) >= d  BY <1>1
<1>3. d * (p - q) = d * p - d * q  BY <1>1
<1>4. p <= q  BY <1>1, <1>2, <1>3
<1> QED  BY <1>4 DEF p, q

(* The sum of the digits printed so far and of those to come from m is the *)
(* sum of the starts up to track i.                                        *)
Pending(v) == IF v > 0 THEN DigitSum[v] ELSE 0

FreedbInv ==
    job = "freedb_id" =>
        /\ step = "digits" => /\ i \in 0..disc.last /\ n \in Nat /\ m \in Int
                              /\ n + Pending(m) = StartSums(disc)[i]
                              /\ text["freedb_id"] = <<>>
        /\ step = "done" =>
              LET t == PlayingTime(disc)
              IN  text["freedb_id"] = <<Or(StartSum(disc) % 255, (t \div 65536) % 256),
                                        (t \div 256) % 256, t % 256, disc.last>>

LEMMA JobStays == [Next]_vars => job' = job /\ disc' = disc
BY DEF Next, Id, StartId, FeedPiece, Final, HashStep, Hashed, StartEncoding, EncodeStep,
       Encoded, CopyId, Freedb, AddDigit, NextStart, PrintFreedbId, TocString, OmitToc,
       StartToc, PrintOffset, AppendToc, Url, Prefix, AddId, Tracks, Returned, vars, makeVars

LEMMA FreedbSteps ==
    ASSUME TextInv, [Next]_vars, job = "freedb_id"
    PROVE  \/ AddDigit \/ NextStart \/ PrintFreedbId
           \/ step' = step /\ UNCHANGED <<locals, texts>>
<1>1. step \in {"digits", "done"}  BY DEF TextInv, JobAtStep, UrlField
<1>2. ~ Id
      BY <1>1 DEF Id, StartId, FeedPiece, Final, HashStep, Hashed, StartEncoding, EncodeStep,
                  Encoded, CopyId
<1>3. ~ TocString /\ ~ Url
      BY <1>1 DEF TocString, OmitToc, StartToc, PrintOffset, AppendToc, Url, Prefix, AddId, Tracks
<1>4. UNCHANGED vars => step' = step /\ UNCHANGED <<locals, texts>>
      BY DEF vars, makeVars
<1> QED  BY <1>2, <1>3, <1>4 DEF Next, Freedb, Returned

LEMMA FreedbStays == TextInv /\ ValueInv /\ FreedbInv /\ [Next]_vars => FreedbInv'
<1> SUFFICES ASSUME TextInv, ValueInv, FreedbInv, [Next]_vars, job' = "freedb_id"
             PROVE  FreedbInv'
    BY DEF FreedbInv
<1> DEFINE t == PlayingTime(disc)
           printed == <<Or(StartSum(disc) % 255, (t \div 65536) % 256),
                        (t \div 256) % 256, t % 256, disc.last>>
<1>1. job = "freedb_id" /\ disc' = disc  BY JobStays
<1>2. /\ disc.last \in Nat /\ \A k \in 1..disc.last : disc.offsets[k] \in Int
  <2>1. disc.last \in 0..MAX_TRACK /\ MAX_TRACK \in Nat  BY DiscIsKnown
  <2>2. \A k \in Slot : disc.offsets[k] \in Int  BY DiscIsKnown
  <2>3. \A k \in 1..disc.last : k \in Slot  BY <2>1 DEF Slot
  <2> QED  BY <2>1, <2>2, <2>3
<1>3. SumsStarts(disc, StartSums(disc), disc.last)  BY <1>2, StartSumsAdd
<1>4. step = "digits" => /\ i \in 0..disc.last /\ n \in Nat /\ m \in Int
                         /\ n + Pending(m) = StartSums(disc)[i]
                         /\ text["freedb_id"] = <<>>
      BY <1>1 DEF FreedbInv
<1>5. CASE AddDigit
  <2>1. /\ step = "digits" /\ step' = step /\ m > 0 /\ i' = i /\ text' = text
        /\ n' = n + (m % 10) /\ m' = m \div 10
        BY <1>5 DEF AddDigit, texts
  <2>2. m \in Nat \ {0}  BY <1>4, <2>1
  <2>3. /\ m \div 10 \in Nat /\ m % 10 \in Nat
        /\ DigitSum[m] = (m % 10) + DigitSum[m \div 10]
        /\ DigitSum[m \div 10] \in Nat
        BY <2>2, Shorter, DigitSumAdds
  <2>4. n' + Pending(m') = n + Pending(m) /\ n' \in Nat /\ m' \in Int
    <3> DEFINE x == m % 10
               y == m \div 10
    <3>1. n' = n + x /\ m' = y /\ x \in Nat /\ y \in Nat /\ n \in Nat
          /\ DigitSum[m] = x + DigitSum[y] /\ DigitSum[y] \in Nat /\ DigitSum[0] = 0
          BY <1>4, <2>1, <2>3, DigitSumAdds
    <3>2. Pending(m) = DigitSum[m]  BY <2>1 DEF Pending
    <3> HIDE DEF x, y
    <3>3. Pending(y) = DigitSum[y]
      <4>1. y > 0 \/ y = 0  BY <3>1
      <4> QED  BY <3>1, <4>1 DEF Pending
    <3> QED  BY <3>1, <3>2, <3>3
  <2> QED  BY <1>1, <1>4, <2>1, <2>4 DEF FreedbInv
<1>6. CASE NextStart
  <2>1. /\ step = "digits" /\ step' = step /\ m <= 0 /\ i < disc.last /\ text' = text /\ n' = n
        /\ m' = Quotient(disc.offsets[i + 1], SECOND) /\ i' = i + 1
        BY <1>6 DEF NextStart, texts
  <2>2. /\ i + 1 \in 0..disc.last /\ i + 1 \in 1..disc.last /\ i + 1 # 0 /\ (i + 1) - 1 = i
        BY <1>2, <1>4, <2>1
  <2> DEFINE start == disc.offsets[i + 1]
             q == Quotient(start, SECOND)
  <2>3. start \in Int  BY <1>2, <2>2
  <2>4. q \in Int /\ (start <= 0 => q <= 0) /\ (start >= 0 => q = start \div SECOND /\ q \in Nat)
    <3> HIDE DEF start
    <3> QED  BY <2>3, QuotientIsKnown
  <2>5. m' = q  BY <2>1
  <2>6. StartDigits(disc, i + 1) = Pending(q) /\ Pending(q) \in Nat
    <3>1. StartDigits(disc, i + 1) = IF start > 0 THEN DigitSum[start \div SECOND] ELSE 0
          BY DEF StartDigits
    <3> HIDE DEF start, q
    <3>2. CASE start <= 0
      <4>1. ~ (q > 0) /\ ~ (start > 0)  BY <2>3, <2>4, <3>2
      <4> QED  BY <3>1, <4>1 DEF Pending
    <3>3. CASE start > 0
      <4>1. q = start \div SECOND /\ q \in Nat  BY <2>3, <2>4, <3>3
      <4>2. DigitSum[q] \in Nat /\ DigitSum[0] = 0  BY <4>1, DigitSumAdds
      <4>3. q > 0 \/ q = 0  BY <4>1
      <4>4. Pending(q) = DigitSum[q]  BY <4>2, <4>3 DEF Pending
      <4> QED  BY <3>1, <3>3, <4>1, <4>2, <4>4
    <3> QED  BY <2>3, <3>2, <3>3
  <2> HIDE DEF start, q
  <2>7. StartSums(disc)[i + 1] = StartSums(disc)[i] + StartDigits(disc, i + 1)
        BY <1>3, <2>2 DEF SumsStarts
  <2>8. n + 0 = StartSums(disc)[i] /\ n \in Nat
    <3>1. Pending(m) = 0  BY <1>4, <2>1 DEF Pending
    <3> QED  BY <1>4, <2>1, <3>1
  <2>9. n' + Pending(m') = StartSums(disc)[i']  BY <2>1, <2>5, <2>6, <2>7, <2>8
  <2> QED  BY <1>1, <1>4, <2>1, <2>2, <2>4, <2>5, <2>9 DEF FreedbInv
<1>7. CASE PrintFreedbId
  <2>1. /\ step = "digits" /\ m <= 0 /\ i = disc.last /\ step' = "done"
        /\ Appended("freedb_id", FreedbBytes(disc), 8)
        BY <1>7 DEF PrintFreedbId
  <2>2. n = StartSum(disc)
    <3>1. n + 0 = StartSums(disc)[disc.last] /\ n \in Nat
      <4>1. Pending(m) = 0  BY <1>4, <2>1 DEF Pending
      <4> QED  BY <1>4, <2>1, <4>1
    <3> QED  BY <3>1 DEF StartSum
  <2>3. FreedbBytes(disc) = printed  BY <2>2 DEF FreedbBytes
  <2>4. "freedb_id" \in DOMAIN text /\ text["freedb_id"] = <<>>
        BY <1>4, <2>1 DEF ValueInv, Text, TextField
  <2> HIDE DEF printed
  <2>5. text'["freedb_id"] = <<>> \o FreedbBytes(disc)
        BY <2>1, <2>4 DEF Appended
  <2>6. <<>> \o FreedbBytes(disc) = FreedbBytes(disc)  BY DEF FreedbBytes
  <2>7. text'["freedb_id"] = printed  BY <2>3, <2>5, <2>6
  <2> QED  BY <1>1, <2>1, <2>7 DEF FreedbInv, printed
<1>8. CASE step' = step /\ UNCHANGED <<locals, texts>>
  <2>1. step' = step /\ i' = i /\ n' = n /\ m' = m /\ text' = text
        BY <1>8 DEF locals, texts
  <2> QED  BY <1>1, <2>1 DEF FreedbInv
<1> QED  BY <1>1, <1>5, <1>6, <1>7, <1>8, FreedbSteps

LEMMA InitFreedb == Init => FreedbInv
<1> SUFFICES ASSUME Init, job = "freedb_id" PROVE FreedbInv
    BY DEF FreedbInv
<1>1. step = "digits" /\ i = 0 /\ n = 0 /\ m = 0 /\ text["freedb_id"] = <<>>
      BY DEF Init, FirstStep, Text, TextField, NoText
<1>2. TextInv  BY InitText
<1>3. /\ disc.last \in Nat /\ \A k \in 1..disc.last : disc.offsets[k] \in Int
  <2>1. disc.last \in 0..MAX_TRACK /\ MAX_TRACK \in Nat  BY <1>2, DiscIsKnown
  <2>2. \A k \in Slot : disc.offsets[k] \in Int  BY <1>2, DiscIsKnown
  <2>3. \A k \in 1..disc.last : k \in Slot  BY <2>1 DEF Slot
  <2> QED  BY <2>1, <2>2, <2>3
<1>4. SumsStarts(disc, StartSums(disc), disc.last)  BY <1>3, StartSumsAdd
<1>5. 0 \in 0..disc.last  BY <1>3
<1>6. StartSums(disc)[0] = 0  BY <1>4, <1>5 DEF SumsStarts
<1>7. Pending(0) = 0  BY DEF Pending
<1> QED  BY <1>1, <1>5, <1>6, <1>7 DEF FreedbInv

(* Two numbers that fit side by side can be told apart, and no bytes are   *)
(* read as a number that does not fit.                                     *)
LEMMA FreedbIsSeparate ==
    ASSUME TextInv, FreedbInv
    PROVE  FreedbFieldsAreSeparate
<1> SUFFICES ASSUME job = "freedb_id", step = "done"
             PROVE  LET w == text["freedb_id"]
                        p == PlayingTime(disc)
                    IN  <<w[1], w[2] * 256 + w[3], w[4]>> = FreedbIdOf(disc)
                            <=> (0 <= p /\ p < 65536)
    BY DEF FreedbFieldsAreSeparate
<1> DEFINE word == text["freedb_id"]
           sum == StartSum(disc)
           t == PlayingTime(disc)
           hi == (t \div 256) % 256
           lo == t % 256
           over == (t \div 65536) % 256
           fields == <<word[1], word[2] * 256 + word[3], word[4]>>
<1> SUFFICES fields = FreedbIdOf(disc) <=> (0 <= t /\ t < 65536)
    OBVIOUS
<1>1. word = <<Or(sum % 255, over), hi, lo, disc.last>>
      BY DEF FreedbInv
<1>2. disc.last \in 0..MAX_TRACK /\ MAX_TRACK \in Nat /\ \A k \in Slot : disc.offsets[k] \in Int
      BY DiscIsKnown
<1>3. sum \in Nat
  <2>1. disc.last \in Nat /\ disc.last \in 0..disc.last  BY <1>2
  <2>2. \A k \in 1..disc.last : disc.offsets[k] \in Int  BY <1>2 DEF Slot
  <2>3. StartSums(disc) \in [0..disc.last -> Nat]
        BY <2>1, <2>2, StartSumsAdd DEF SumsStarts
  <2> QED  BY <2>1, <2>3 DEF StartSum
<1>4. FreedbIdOf(disc) = <<sum % 255, t, disc.last>>  BY DEF FreedbIdOf, PlayingTime
<1>5. t \in Int
  <2>1. 0 \in Slot /\ 1 \in Slot
    <3>1. disc.first \in 1..MAX_TRACK  BY DiscIsKnown
    <3> QED  BY <1>2, <3>1 DEF Slot
  <2>2. disc.offsets[0] \in Int /\ disc.offsets[1] \in Int  BY <1>2, <2>1
  <2> QED  BY <2>2, QuotientIsKnown DEF PlayingTime
<1> HIDE DEF t, sum
<1>6. hi \in 0..255 /\ lo \in 0..255
  <2> DEFINE q == t \div 256
  <2>1. q \in Int /\ lo \in 0..255  BY <1>5
  <2> HIDE DEF q
  <2>2. q % 256 \in 0..255  BY <2>1
  <2> QED  BY <2>1, <2>2 DEF q
<1>7. ASSUME 0 <= t, t < 65536
      PROVE  over = 0 /\ hi * 256 + lo = t
  <2> DEFINE q == t \div 256
  <2>0. t \in Nat /\ t < 65536  BY <1>5, <1>7
  <2>1. t = 256 * q + (t % 256) /\ t % 256 \in 0..255 /\ q \in Nat  BY <2>0
  <2>2. t \div 65536 = 0  BY <2>0
  <2> HIDE DEF q
  <2>3. q < 256  BY <2>0, <2>1
  <2>4. q % 256 = q  BY <2>1, <2>3
  <2>5. q * 256 + (t % 256) = t  BY <2>1
  <2>6. 0 % 256 = 0  OBVIOUS
  <2>7. (t \div 65536) % 256 = 0  BY <2>2, <2>6
  <2>8. (q % 256) * 256 + (t % 256) = t  BY <2>4, <2>5
  <2> QED  BY <2>7, <2>8 DEF q
<1>8. Or(sum % 255, 0) = sum % 255
  <2> DEFINE x == sum % 255
  <2>1. x \in 0..255  BY <1>3
  <2> HIDE DEF x
  <2>2. Or(x, 0) = x  BY <2>1, OrWithNothing
  <2> QED  BY <2>2 DEF x
<1>9. word[2] = hi /\ word[3] = lo /\ word[4] = disc.last
      BY <1>1
<1> HIDE DEF hi, lo, over
<1>10. word[1] = Or(sum % 255, over)  BY <1>1
<1> HIDE DEF word
<1>11. ASSUME 0 <= t, t < 65536
       PROVE  fields = FreedbIdOf(disc)
  <2>1. word[1] = sum % 255
    <3>1. over = 0  BY <1>7, <1>11
    <3>2. word[1] = Or(sum % 255, 0)  BY <1>10, <3>1, Zenon
    <3> QED  BY <1>8, <3>2, Zenon
  <2>2. word[2] * 256 + word[3] = t  BY <1>7, <1>9, <1>11
  <2> QED  BY <1>4, <1>9, <2>1, <2>2
<1>12. ASSUME fields = FreedbIdOf(disc)
       PROVE  0 <= t /\ t < 65536
  <2>1. t = word[2] * 256 + word[3]  BY <1>4, <1>12
  <2> QED  BY <1>6, <1>9, <2>1
<1> QED  BY <1>11, <1>12

(* The eight digits of a FreeDB ID are the digit sum, the playing time and *)
(* the last track, none of which runs into another, on just those discs    *)
(* whose playing time is one of two bytes; the loop over the digits of the *)
(* starts ends with their sum on every disc, negative starts included.     *)
THEOREM FreedbFieldsStaySeparate == Spec => []FreedbFieldsAreSeparate
<1>1. Spec => [](TextInv /\ FreedbInv)
      BY FeedInvAlways, InitFreedb, FreedbStays, PTL DEF Spec
<1>2. TextInv /\ FreedbInv => FreedbFieldsAreSeparate  BY FreedbIsSeparate
<1> QED  BY <1>1, <1>2, PTL
=============================================================================
