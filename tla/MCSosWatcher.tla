---------------------------- MODULE MCSosWatcher ----------------------------
(* SosWatcher for TLC: the processes are interchangeable. *)
EXTENDS SosWatcher, TLC

CONSTANTS p1, p2

ProcessSymmetry == Permutations(Processes)
=============================================================================
