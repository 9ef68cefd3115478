----------------------------- MODULE MCScheduler ----------------------------
(* Small instances of Scheduler for TLC.                                   *)
EXTENDS Scheduler, TLC

(* The requests differ in nothing. *)
RequestSymmetry == Permutations(Requests)
=============================================================================
