---------------------------- MODULE MCScheduler ----------------------------
(* Scheduler for TLC: tasks are interchangeable except for the first one.   *)
EXTENDS Scheduler, TLC

Symmetry == Permutations(Tasks \ {First})

=============================================================================
