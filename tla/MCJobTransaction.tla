-------------------------- MODULE MCJobTransaction --------------------------
(* Small instances of JobTransaction for TLC. *)
EXTENDS JobTransaction
=============================================================================
