---------------------------- MODULE MCScheduler ----------------------------
(* An instance of Scheduler for TLC: two callers enter three tasks, one of  *)
(* which stops the runner.                                                  *)
EXTENDS Scheduler, TLC
CONSTANTS c1, c2, t1, t2, stop
=============================================================================
