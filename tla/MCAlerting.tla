----------------------------- MODULE MCAlerting -----------------------------
(* Alerting for TLC: jobs are interchangeable. *)
EXTENDS Alerting, TLC

CONSTANTS j1, j2, j3

JobSymmetry == Permutations(Jobs)
=============================================================================
