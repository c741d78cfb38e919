----------------------------- MODULE MCJobStore -----------------------------
(* Small instances of JobStore for TLC. *)
EXTENDS JobStore, TLC

CONSTANTS j1, j2, j3

Symmetry == Permutations(Job)
=============================================================================
