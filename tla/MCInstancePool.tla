--------------------------- MODULE MCInstancePool ---------------------------
(***************************************************************************)
(* Instance of InstancePool for TLC: three requests, the replenisher and   *)
(* two overlapping drains (a retired pool's cleanup and engine shutdown)   *)
(* over a pool of two instances, one of them warm.                         *)
(***************************************************************************)
EXTENDS InstancePool
=============================================================================
