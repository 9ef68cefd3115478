----------------------------- MODULE Threshold -----------------------------
(***************************************************************************)
(* The quorum arithmetic every protocol of the KMS shares: pkg/dkg/dkg.go  *)
(* computes the signing threshold of n operators as the integer division   *)
(* (2n + 2) / 3, which is 2n/3 rounded up.                                 *)
(***************************************************************************)
EXTENDS Naturals, FiniteSets

CalculateThreshold(n) == (2 * n + 2) \div 3

(* The larger and the smaller of two numbers, for the clamps the waits use. *)
Larger(a, b)  == IF a < b THEN b ELSE a
Smaller(a, b) == IF a < b THEN a ELSE b
=============================================================================
