----------------------------- MODULE MCDiscHandle -----------------------------
(* DiscHandle with tables of four slots: a set of discs that meets every   *)
(* way a disc can be read, and put arguments around every limit.           *)
EXTENDS DiscHandle

MCToc(first, last, controls, addresses) ==
    [first |-> first, last |-> last,
     tracks |-> [k \in Slot |-> [control |-> controls[k + 1], address |-> addresses[k + 1]]]]

A == "audio"
D == "data"

\* lead-out first
MCTocs ==
    {MCToc(1, 3, <<D, A, A, A>>, <<9, 0, 3, 6>>),   \* an ordinary disc
     MCToc(1, 3, <<D, A, A, D>>, <<9, 0, 3, 7>>),   \* with a data session
     MCToc(2, 3, <<D, D, A, A>>, <<9, 5, 3, 6>>),   \* from the second track
     MCToc(1, 3, <<D, A, A, A>>, <<1, 0, 3, 6>>),   \* trimmed to one track
     MCToc(1, 1, <<D, A, A, A>>, <<0, 3, 0, 0>>),   \* trimmed to none
     MCToc(1, 2, <<D, A, A, D>>, <<9, 5, 3, 0>>),   \* tracks out of order
     MCToc(1, 2, <<D, A, A, D>>, <<12, 0, 3, 0>>),  \* longer than the maximum
     MCToc(1, 1, <<D, D, A, A>>, <<9, 0, 0, 0>>),   \* no audio
     MCToc(0, 1, <<D, A, A, A>>, <<9, 0, 0, 0>>)}

MCOffsets ==
    {[k \in Slot |-> s[k + 1]] : s \in
        {<<9, 1, 4, 7>>, <<9, 1, 1, 9>>, <<9, 4, 1, 7>>, <<9, 2, 4, 4>>, <<9, 1, 7, 4>>,
         <<7, 1, 4, 9>>, <<10, 1, 4, 7>>, <<11, 1, 4, 7>>, <<9, -2, 4, 7>>}}

\* the limits are looked at before the offsets
MCPutArguments ==
    [first: 0..2, last: {1, MAX_TRACK, MAX_TRACK + 1}, offsets: {NoOffsetsGiven}]
    \cup [first: {1}, last: {1, MAX_TRACK}, offsets: MCOffsets]
    \cup [first: {2}, last: {1, MAX_TRACK}, offsets: {o \in MCOffsets : o[0] = 9 /\ o[1] > 1}]

MCCodes == {<<"a">>}

\* each build and each amount of memory once
MCSettings == {[ndebug |-> FALSE, scarce |-> FALSE], [ndebug |-> TRUE, scarce |-> TRUE]}

ScarceSettings == {[ndebug |-> TRUE, scarce |-> TRUE]}

\* a few discs are enough to meet a text that is not whole
FewTocs == {t \in MCTocs : t.last = 3}

FewPutArguments == [first: {1}, last: {2}, offsets: MCOffsets]
=============================================================================
