----------------------------- MODULE MCNodeStore -----------------------------
(* NodeStore for TLC: the goroutines of rounds are interchangeable. (The   *)
(* refinement is a safety property of steps, which symmetry respects.)     *)
EXTENDS NodeStore, TLC

RoundSymmetry == Permutations(Rounds)
=============================================================================
