------------------------ MODULE MCEngineTransaction ------------------------
(* Small instances of EngineTransaction for TLC. *)
EXTENDS EngineTransaction, TLC

CONSTANTS t1, t2, t3

Symmetry == Permutations({t1, t2, t3})
=============================================================================
