---------------------------- MODULE MCScheduler ----------------------------
(* Instances of Scheduler for TLC: tasks are model values.  No symmetry    *)
(* set is declared: the creators and exiters tell the tasks apart.         *)
EXTENDS Scheduler

CONSTANTS t1, t2, t3, t4

=============================================================================
