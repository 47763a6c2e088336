--------------------------- MODULE MCSchedulerLoop ---------------------------
(* An instance of SchedulerLoop for TLC. *)
EXTENDS SchedulerLoop

CONSTANTS c1, t1, t2
==============================================================================
