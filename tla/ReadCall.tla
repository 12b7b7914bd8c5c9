------------------------------- MODULE ReadCall -------------------------------
(***************************************************************************)
(* What discid_read_sparse is to its caller, whatever the platform and the *)
(* drive: it clears the handle, and comes back with a disc or with the     *)
(* reason why there is none.  DiscHandle has this as one step; there are   *)
(* no passes here, no device, no ioctls and no table.                      *)
(***************************************************************************)
EXTENDS DiscToc

CONSTANTS Codes,    \* the MCNs and ISRCs of discs
          NoCode

VARIABLES state,    \* "unset", "busy", "loaded", "failed" or "dead"
          asked,    \* the codes the caller asked for
          disc, mcn, isrc,
          reason    \* why the last call failed

vars == <<state, asked, disc, mcn, isrc, reason>>

NoIsrcs == [k \in Slot |-> NoCode]

Empty == disc = BlankDisc /\ mcn = NoCode /\ isrc = NoIsrcs
Unreported == Empty /\ reason = "none"

Init == state = "unset" /\ asked = {} /\ Unreported

(* Nothing of an earlier disc or failure is left to see.                   *)
Begin(codes) ==
    /\ state \in {"unset", "loaded", "failed"}
    /\ state' = "busy" /\ asked' = codes /\ Unreported'

(* A disc has tracks from 1 on that start before its lead-out.  It has no  *)
(* code nobody asked for, and none of a track it does not have.            *)
Loads ==
    /\ state = "busy" /\ state' = "loaded"
    /\ 1 <= disc'.first /\ disc'.last \in Slot
    /\ disc'.offsets[disc'.last] <= disc'.offsets[0]
    /\ mcn' \in Codes \cup {NoCode} /\ (mcn' # NoCode => "mcn" \in asked)
    /\ isrc' \in [Slot -> Codes \cup {NoCode}]
    /\ \A k \in Slot : isrc'[k] # NoCode => "isrc" \in asked /\ k \in disc'.first..disc'.last
    /\ reason' = "none" /\ UNCHANGED asked

Fails ==
    /\ state = "busy" /\ state' = "failed"
    /\ Empty' /\ reason' # "none" /\ UNCHANGED asked

(* An assertion that fails, or undefined behaviour.                        *)
Dies ==
    /\ state = "busy" /\ state' = "dead"
    /\ Unreported' /\ UNCHANGED asked

Next == (\E codes \in SUBSET {"mcn", "isrc"} : Begin(codes)) \/ Loads \/ Fails \/ Dies

Spec == Init /\ [][Next]_vars
=============================================================================
