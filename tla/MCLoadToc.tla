------------------------------ MODULE MCLoadToc ------------------------------
(* LoadToc on tables of four slots: every control and every order of a few *)
(* addresses, first and last tracks from outside the table to outside it.  *)
EXTENDS LoadToc

(* Before the pregap (copy-protected), and closer or farther than an       *)
(* XA_INTERVAL of 2 from each other.                                       *)
Addresses == {-1, 1, 2, 4}

MCTracks ==
    {t \in [Slot -> [control: Control, address: Addresses]] : t[0].control = "data"}

MCTocs == [first: 0..MAX_TRACK, last: 0..(MAX_TRACK + 1), tracks: MCTracks]
=============================================================================
