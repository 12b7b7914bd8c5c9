------------------------------ MODULE MCMakeText ------------------------------
(* MakeText with the sizes of the code, except that the words which count  *)
(* bits are 12 bits wide and wrap within the 804 bytes of a disc id.       *)
EXTENDS MakeText

Spread(first, last, start, gap, leadOut) ==
    [first |-> first, last |-> last,
     offsets |-> [k \in Slot |-> IF k = 0 THEN leadOut
                                 ELSE IF k \in first..last THEN start + (k - first) * gap ELSE 0]]

\* all tracks with six digits, in the range of discid_put and beyond it; one
\* track; the last track only; one that does not begin with the first; no track
\* left; a lead-out in front of the tracks; one whose last track was dropped and
\* one with an offset in front of its first track, both of which are hashed
PrintableDiscs ==
    {Spread(1, 99, 100000, 3079, 405000), Spread(1, 99, 900000, 1000, 999999),
     Spread(1, 1, 150, 0, 20000), Spread(99, 99, 150, 0, 405000),
     Spread(3, 12, 33000, 17431, 290000), Spread(1, 0, 0, 0, 0), Spread(9, 8, 0, 0, 150),
     Spread(1, 3, 183, 26000, 150), Spread(1, 5, -99999, 0, -99999),
     Spread(12, 10, 0, 0, 999999),
     [Spread(1, 3, 150, 5000, 12000) EXCEPT !.last = 2],
     [Spread(1, 3, 150, 5000, 16000) EXCEPT !.first = 2]}

\* what discid_put is given and accepts: offsets of ten digits and a sign, and
\* one that is printed within its bounds but makes the disc last for ever
MCPut == {Spread(1, 99, -1000000000, 1, 405000), Spread(1, 1, -5000000, 0, 405000)}

PutDiscs ==
    {PutDisc(p.first, p.last, p.offsets) :
        p \in {q \in MCPut : PutRefusal(q.first, q.last, q.offsets) = "none"}}

\* two that lost more tracks than the memory for the TOC was reckoned for
TrimmedDiscs == {Spread(9, 5, 0, 0, 150), Spread(9, 4, 0, 0, 150)}

MCDiscs == PrintableDiscs \cup PutDiscs \cup TrimmedDiscs

MCDigests == {[k \in 1..20 |-> (k * 83 + 41) % 256], [k \in 1..20 |-> 255]}

\* lengths around the edges of a block and of the words
Lengths == {1, 3, 55, 56, 63, 64, 65, 130, 511, 512}
MCMessages == UNION {[1..k -> Lengths] : k \in 0..2} \cup {<<a, b, 8>> : a, b \in {0, 56, 63}}

\* lengths around the edges of a tuplet and of a line
MCSources == {[k \in 1..size |-> (k * a + 13) % 256] :
                 size \in {0, 1, 2, 3, 4, 5, 44, 45, 46, 89, 90, 91}, a \in {59, 255}}

\* one short text for either where the run is about create_toc_string
EmptyText == {<<>>}
=============================================================================
