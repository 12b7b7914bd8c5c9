----------------------------- MODULE MCDriveRead -----------------------------
(* DriveRead with tables of three tracks at most.                          *)
EXTENDS DriveRead

MCToc(first, last, controls, addresses) ==
    [first |-> first, last |-> last,
     tracks |-> [k \in Slot |-> [control |-> controls[k + 1], address |-> addresses[k + 1]]]]

A == "audio"
D == "data"

\* lead-out first: a disc with a data session that shows its first session
\* first, one that begins with the second track and whose last track does not
\* exist, an empty one, and one with more tracks than there may be
Mixed == MCToc(1, 3, <<D, A, A, D>>, <<9, 0, 4, 8>>)
MixedFirstSession == MCToc(1, 2, <<D, A, A, A>>, <<5, 0, 4, 0>>)
Late == MCToc(2, 3, <<D, A, A, A>>, <<5, 0, 2, 9>>)
Empty == MCToc(0, 0, <<D, A, A, A>>, <<0, 0, 0, 0>>)
Long == MCToc(1, 4, <<D, A, A, A>>, <<12, 0, 3, 6>>)

TocOf == [mixed |-> Mixed, late |-> Late, empty |-> Empty, long |-> Long]
FirstTocOf == [TocOf EXCEPT !.mixed = MixedFirstSession]

MCMedia == {"mixed", "late", "empty", "long"}
\* media that are confused with each other, and one for which it matters where
\* the numbers start
FewMedia == {"mixed", "late"}
LateMedia == {"late"}
MCReadyToc == [m \in Media |-> TocOf[m]]
MCEarlyToc == [m \in Media |-> FirstTocOf[m]]

\* one medium with an MCN and one without, tracks with an ISRC and without
MCMcnMedia == Media \cap {"late", "long"}
MCIsrcTracks == [m \in Media |-> IF m = "mixed" THEN {1} ELSE {2, 3}]

MCStackTocs == {MCToc(2, 1, <<A, D, D, D>>, <<20, -9, -9, -9>>),
                MCToc(1, 4, <<D, A, A, A>>, <<0, 1, 1, 1>>)}

Build(p, ndebug) == [platform |-> p, ndebug |-> ndebug]

AllBuilds == {Build(p, TRUE) : p \in Platform} \cup {Build("bsd", FALSE)}
Haiku == {Build("haiku", TRUE)}
Solaris == {Build("solaris", TRUE)}
Windows == {Build("windows", TRUE)}
=============================================================================
