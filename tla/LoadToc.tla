------------------------------- MODULE LoadToc -------------------------------
(***************************************************************************)
(* mb_disc_load_toc (src/toc.c), one iteration of its loops per step.      *)
(*                                                                         *)
(*   first_track_num, last_track_num, track_offsets, error_msg             *)
(*         the fields of the handle; every caller passes a handle that     *)
(*         discid_read_sparse has just cleared                             *)
(*   toc   what the platform read from the drive                           *)
(*   lat   last_audio_track,  i  the loop counter                          *)
(*                                                                         *)
(* pc "undefined" stands for an access behind the end of an array.         *)
(***************************************************************************)
EXTENDS DiscToc

CONSTANT Tocs   \* what the drive may answer

ASSUME TocsAreTocs == Tocs \subseteq Toc

VARIABLES pc, toc, first_track_num, last_track_num, track_offsets, error_msg, lat, i

limits == <<first_track_num, last_track_num>>
vars == <<pc, toc, limits, track_offsets, error_msg, lat, i>>

disc == [first |-> first_track_num, last |-> last_track_num, offsets |-> track_offsets]

Init ==
    /\ toc \in Tocs
    /\ pc = "limits"
    /\ first_track_num = 0 /\ last_track_num = 0 /\ track_offsets = NoOffsets
    /\ error_msg = "none"
    /\ lat = -1
    /\ i = 0

Fail(msg) ==
    /\ error_msg' = msg
    /\ pc' = "failed"
    /\ UNCHANGED <<toc, limits, track_offsets, lat, i>>

RejectFirst == pc = "limits" /\ toc.first < 1 /\ Fail("first_track")

RejectLast == pc = "limits" /\ toc.first >= 1 /\ toc.last < 1 /\ Fail("last_track")

AcceptLimits ==
    /\ pc = "limits"
    /\ toc.first >= 1 /\ toc.last >= 1
    /\ pc' = "scan"
    /\ i' = toc.first
    /\ UNCHANGED <<toc, limits, track_offsets, error_msg, lat>>

ScanTrack ==
    /\ pc = "scan" /\ i <= toc.last /\ i \in Slot
    /\ lat' = IF toc.tracks[i].control = "audio" THEN i ELSE lat
    /\ i' = i + 1
    /\ UNCHANGED <<pc, toc, limits, track_offsets, error_msg>>

ScanBeyondTable ==
    /\ pc = "scan" /\ i <= toc.last /\ i \notin Slot
    /\ pc' = "undefined"
    /\ UNCHANGED <<toc, limits, track_offsets, error_msg, lat, i>>

(* Mutant: the track limits are stored before the audio tracks are counted. *)
RejectNoAudioLate ==
    /\ pc = "scan" /\ i > toc.last /\ lat < 0
    /\ first_track_num' = toc.first
    /\ error_msg' = "no_audio"
    /\ pc' = "failed"
    /\ UNCHANGED <<toc, last_track_num, track_offsets, lat, i>>

RejectNoAudio == pc = "scan" /\ i > toc.last /\ lat < 0 /\ Fail("no_audio")

SetLimits ==
    /\ pc = "scan" /\ i > toc.last /\ lat >= 0
    /\ first_track_num' = toc.first
    /\ last_track_num' = lat
    /\ pc' = "offsets"
    /\ i' = toc.first
    /\ UNCHANGED <<toc, track_offsets, error_msg, lat>>

StoreOffset ==
    /\ pc = "offsets" /\ i <= lat
    /\ track_offsets' = [track_offsets EXCEPT ![i] = StartOffset(toc.tracks[i])]
    /\ i' = i + 1
    /\ UNCHANGED <<pc, toc, limits, error_msg, lat>>

(* Mutant: data sessions are forgotten.                                    *)
SetRegularLeadOut ==
    /\ pc = "offsets" /\ i > lat
    /\ track_offsets' = [track_offsets EXCEPT ![0] = toc.tracks[0].address + PREGAP]
    /\ pc' = "trim"
    /\ UNCHANGED <<toc, limits, error_msg, lat, i>>

(* Mutant: the lead-out is not moved behind the pregap as the tracks are.  *)
SetLeadOutWithoutPregap ==
    /\ pc = "offsets" /\ i > lat
    /\ track_offsets' = [track_offsets EXCEPT ![0] =
                    IF lat < toc.last THEN SessionEnd(toc.tracks[lat + 1])
                                      ELSE toc.tracks[0].address]
    /\ pc' = "trim"
    /\ UNCHANGED <<toc, limits, error_msg, lat, i>>

SetLeadOut ==
    /\ pc = "offsets" /\ i > lat
    /\ track_offsets' = [track_offsets EXCEPT ![0] =
                    IF lat < toc.last THEN SessionEnd(toc.tracks[lat + 1])
                                      ELSE toc.tracks[0].address + PREGAP]
    /\ pc' = "trim"
    /\ UNCHANGED <<toc, limits, error_msg, lat, i>>

(* Mutant: a last track of no length is dropped, and so is slot 0.         *)
LeadOutNotLater == track_offsets[0] <= track_offsets[lat]

LeadOutTooEarly == track_offsets[0] < track_offsets[lat]

(* Mutant: an if instead of a while.                                        *)
TrimOnce ==
    /\ pc = "trim" /\ LeadOutTooEarly
    /\ lat' = lat - 1
    /\ last_track_num' = lat - 1
    /\ track_offsets' = [track_offsets EXCEPT ![lat] = 0, ![0] = SessionEnd(toc.tracks[lat])]
    /\ pc' = "loaded"
    /\ UNCHANGED <<toc, error_msg, i, first_track_num>>

(* Mutant: the dropped track stays in the table.                           *)
TrimLeavesOffset ==
    /\ pc = "trim" /\ LeadOutTooEarly
    /\ lat' = lat - 1
    /\ last_track_num' = lat - 1
    /\ track_offsets' = [track_offsets EXCEPT ![0] = SessionEnd(toc.tracks[lat])]
    /\ UNCHANGED pc
    /\ UNCHANGED <<toc, error_msg, i, first_track_num>>

(* Mutant: the slot is cleared after the index has moved on twice.        *)
TrimClearsNeighbour ==
    /\ pc = "trim" /\ LeadOutTooEarly
    /\ lat' = lat - 1
    /\ last_track_num' = lat - 1
    /\ track_offsets' = [track_offsets EXCEPT ![lat] = 0, ![lat - 1] = 0,
                                              ![0] = SessionEnd(toc.tracks[lat])]
    /\ UNCHANGED pc
    /\ UNCHANGED <<toc, error_msg, i, first_track_num>>

(* Mutant: only the handle, not the loop variable, is decremented.          *)
TrimKeepsIndex ==
    /\ pc = "trim" /\ LeadOutTooEarly
    /\ lat' = lat
    /\ last_track_num' = lat - 1
    /\ track_offsets' = [track_offsets EXCEPT ![lat] = 0, ![0] = SessionEnd(toc.tracks[lat])]
    /\ UNCHANGED pc
    /\ UNCHANGED <<toc, error_msg, i, first_track_num>>

Trim ==
    /\ pc = "trim" /\ LeadOutTooEarly
    /\ lat' = lat - 1
    /\ last_track_num' = lat - 1
    /\ track_offsets' = [track_offsets EXCEPT ![lat] = 0, ![0] = SessionEnd(toc.tracks[lat])]
    /\ UNCHANGED <<pc, toc, error_msg, i, first_track_num>>

Return ==
    /\ pc = "trim" /\ ~ LeadOutTooEarly
    /\ pc' = "loaded"
    /\ UNCHANGED <<toc, limits, track_offsets, error_msg, lat, i>>

Next ==
    \/ RejectFirst \/ RejectLast \/ AcceptLimits
    \/ ScanTrack \/ ScanBeyondTable \/ RejectNoAudio \/ SetLimits
    \/ StoreOffset \/ SetLeadOut \/ Trim \/ Return

(* The function runs on its caller's thread: it takes a step when it can.  *)
Spec == Init /\ [][Next]_vars /\ WF_vars(Next)

-----------------------------------------------------------------------------
(* Every variable keeps its type: the trimming loop stops at slot 0, and   *)
(* the track numbers of the handle always are slots of its table.          *)
TypeOK ==
    /\ pc \in {"limits", "scan", "offsets", "trim",
               "loaded", "failed", "undefined"}
    /\ toc \in Tocs
    /\ first_track_num \in 0..MAX_TRACK /\ last_track_num \in 0..MAX_TRACK
    /\ track_offsets \in [Slot -> Int]
    /\ error_msg \in {"none", "first_track", "last_track", "no_audio"}
    /\ lat \in -1..MAX_TRACK /\ i \in Nat

(* The loops of mb_disc_load_toc compute the closed form of DiscToc: the   *)
(* last track kept is the last audio track, or the nearest one before it   *)
(* that starts within the lead-out that belongs to it.                     *)
LoadsClosedForm == pc = "loaded" => Refusal(toc) = "none" /\ disc = LoadedDisc(toc)

(* A TOC that mb_disc_load_toc refuses leaves the handle as blank as       *)
(* discid_read_sparse made it, apart from the reason.                      *)
RefusalLeavesBlank ==
    pc = "failed" => disc = BlankDisc /\ error_msg # "none" /\ error_msg = Refusal(toc)

(* However often the trimming loop replaced the lead-out, the last track   *)
(* that is left starts before it: its length is never negative.            *)
LeadOutCoversLastTrack ==
    pc = "loaded" => disc.offsets[disc.last] <= disc.offsets[0]

(* create_disc_id hashes all 100 slots, but a user sees only those of      *)
(* first..last: the others are zero, trimmed tracks included.              *)
HiddenSlotsAreZero ==
    pc = "loaded" =>
        \A k \in Slot \ {0} : k \notin disc.first..disc.last => disc.offsets[k] = 0

(* A disc as the standards describe it: tracks in order, the lead-out      *)
(* behind them, and a session gap before data that follows audio.          *)
Orderly(t) ==
    /\ 1 <= t.first /\ t.first <= t.last /\ t.last <= MAX_TRACK
    /\ AudioTracks(t) # {}
    /\ \A k \in t.first..t.last : 0 <= t.tracks[k].address
    /\ \A j, k \in t.first..t.last : j <= k => t.tracks[j].address <= t.tracks[k].address
    /\ \A k \in t.first..(t.last - 1) :
          t.tracks[k].control = "audio" /\ t.tracks[k + 1].control = "data" =>
              t.tracks[k].address <= t.tracks[k + 1].address - XA_INTERVAL
    /\ t.tracks[t.last].address <= t.tracks[0].address

(* Trimming, made for copy-protected discs, never touches an orderly disc: *)
(* every track up to the last audio track is kept, and the offsets that    *)
(* the DiscID is made of are in order and within the lead-out.             *)
OrderlyDiscIsKept ==
    pc \in {"loaded", "failed"} /\ Orderly(toc) =>
        /\ pc = "loaded"
        /\ disc.last = LastAudio(toc)
        /\ \A k \in disc.first..disc.last :
              /\ disc.offsets[k] <= disc.offsets[0]
              /\ k < disc.last => disc.offsets[k] <= disc.offsets[k + 1]

(* The function never stores to the handle and then refuses the disc, and  *)
(* while it trims it changes nothing but the end of the table: the offsets *)
(* of the tracks that survive stay as they were stored.                    *)
SurvivorsAreUntouched ==
    [][pc = "trim" =>
         /\ pc' # "failed"
         /\ disc'.first = disc.first /\ disc'.last <= disc.last
         /\ \A k \in 1..disc'.last : disc'.offsets[k] = disc.offsets[k]]_vars

(* The trimming loop, whose bound is only that slot 0 is never less than   *)
(* itself, ends for every TOC a drive may answer.                          *)
Terminates == <>(pc \in {"loaded", "failed", "undefined"})

-----------------------------------------------------------------------------
(* A statement of the repository that the function does not live up to:    *)
(* discid.h.in:352, "the number of the last audio track on this disc", and *)
(* test_read.c:90, last > 0, of any disc that was read.                    *)
LastTrackIsAudio == pc = "loaded" => disc.last \in AudioTracks(toc)
=============================================================================
