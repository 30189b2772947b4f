---------------------------- MODULE OneShotStart ----------------------------
(***************************************************************************)
(* What the sequencer of the DMA controller promises the two masters: a    *)
(* start that is over after one cycle, a completion that follows it and is *)
(* announced for one cycle, and no second start: only a reset rearms it.   *)
(***************************************************************************)
VARIABLE phase

Init == phase = "ready"

Start  == phase = "ready" /\ phase' = "start"
Run    == phase = "start" /\ phase' = "busy"
Finish == phase \in {"start", "busy"} /\ phase' = "done"
Retire == phase = "done" /\ phase' = "spent"
Rearm  == phase' = "ready"

Next == Start \/ Run \/ Finish \/ Retire

Spec == Init /\ [][Next]_phase
=============================================================================
