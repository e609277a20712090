---------------------------- MODULE MCScheduler ----------------------------
(* The scheduler on two schedules that may share a directory. *)
EXTENDS Scheduler, TLC

MCSymmetry == Permutations(Schedules) \union Permutations(Dirs) \union Permutations(Runs)
=============================================================================
