------------------------------- MODULE DiscToc -------------------------------
(***************************************************************************)
(* The data of libdiscid: what a drive answers (mb_disc_toc), what a       *)
(* handle keeps of it (the TOC part of mb_disc_private), and what          *)
(* mb_disc_load_toc makes of the first to obtain the second, in closed     *)
(* form.  No state: the machines of the other modules extend it.           *)
(***************************************************************************)
EXTENDS Integers

CONSTANTS MAX_TRACK,    \* 99: the arrays track_offsets and tracks end here
          XA_INTERVAL,  \* 11400 sectors between a session and the next one
          PREGAP        \* 150 sectors: the two seconds before the first track

ASSUME TocConstants ==
    /\ MAX_TRACK \in Nat \ {0}
    /\ XA_INTERVAL \in Nat
    /\ PREGAP \in Nat

Control == {"audio", "data"}
Slot == 0..MAX_TRACK            \* slot 0 is the lead-out
TocTrack == [control: Control, address: Int]
Toc == [first: Int, last: Int, tracks: [Slot -> TocTrack]]

(* The table that a failed call leaves behind; first = last = 0.           *)
NoOffsets == [k \in Slot |-> 0]
BlankDisc == [first |-> 0, last |-> 0, offsets |-> NoOffsets]

-----------------------------------------------------------------------------
(* Where a track starts.  Copy-protected discs place tracks before 0.      *)
StartOffset(track) ==
    IF track.address > 0 THEN track.address + PREGAP ELSE PREGAP

(* The end of the audio when the next session starts with this track.      *)
SessionEnd(track) == track.address - XA_INTERVAL + PREGAP

AudioTracks(toc) ==
    {k \in toc.first..toc.last : toc.tracks[k].control = "audio"}

LastAudio(toc) ==
    CHOOSE k \in AudioTracks(toc) : \A j \in AudioTracks(toc) : j <= k

(* Why a TOC is refused, "none" when it is not.                                *)
Refusal(toc) ==
    IF toc.first < 1 THEN "first_track"
    ELSE IF toc.last < 1 THEN "last_track"
    ELSE IF AudioTracks(toc) = {} THEN "no_audio"
    ELSE "none"

(* The lead-out that goes with k as the last track, and what is stored at  *)
(* slot k when the lead-out is compared with it.                           *)
LeadOutAfter(toc, k) ==
    IF k = toc.last THEN toc.tracks[0].address + PREGAP
                    ELSE SessionEnd(toc.tracks[k + 1])

Stored(toc, k) ==
    IF k >= toc.first THEN StartOffset(toc.tracks[k]) ELSE 0

(* Tracks that start behind their lead-out are dropped from the end.  Slot *)
(* 0 is compared with itself, so 0 is the least possible answer.           *)
Covered(toc, k) == k = 0 \/ LeadOutAfter(toc, k) >= Stored(toc, k)

LastTrack(toc) ==
    CHOOSE k \in 0..LastAudio(toc) :
        /\ Covered(toc, k)
        /\ \A j \in (k + 1)..LastAudio(toc) : ~ Covered(toc, j)

(* The table with n as the last track.                                     *)
TableWithLast(toc, n) ==
    [k \in Slot |-> IF k = 0 THEN LeadOutAfter(toc, n)
                   ELSE IF k \in toc.first..n THEN StartOffset(toc.tracks[k])
                   ELSE 0]

(* Mutant: the last audio track is the last track even if it starts behind *)
(* the lead-out.                                                           *)
LoadedUntrimmed(toc) ==
    [first   |-> toc.first,
     last    |-> LastAudio(toc),
     offsets |-> TableWithLast(toc, LastAudio(toc))]

(* The disc that a TOC which is not refused turns into.                    *)
LoadedDisc(toc) ==
    [first   |-> toc.first,
     last    |-> LastTrack(toc),
     offsets |-> TableWithLast(toc, LastTrack(toc))]
=============================================================================
