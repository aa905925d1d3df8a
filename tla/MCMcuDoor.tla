----------------------------- MODULE MCMcuDoor -----------------------------
(* Model-checking instances of McuDoor.  MCMcuLoop keeps the relation of the  *)
(* real figures in coarser ticks: at 1/6 s a tick a ramp turns 20 degrees and *)
(* DOOR_MIN_OPEN_MS is 12 ticks, at 80 degrees a tick it is 6; either is just *)
(* what two ramps, a report that blocks and the rounding to ticks take.       *)
EXTENDS McuDoor

NoServiceMoves == {}
SomeServiceMoves == {[servo |-> "PAPERCAN", angle |-> 150, speed |-> 80]}
=============================================================================
