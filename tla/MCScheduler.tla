---------------------------- MODULE MCScheduler ----------------------------
(* Scheduler on small instances: two ticks to the second. *)
EXTENDS Scheduler

NoAdjustment == {}
BothWays == {-1, 1}
=============================================================================
