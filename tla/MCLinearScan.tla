---------------------------- MODULE MCLinearScan ----------------------------
(* LinearScan with a handful of intervals and fewer registers than vregs. *)
EXTENDS LinearScan, TLC

(* The vregs are interchangeable: the scan compares only their intervals. *)
Permuted == Permutations(VReg)
=============================================================================
