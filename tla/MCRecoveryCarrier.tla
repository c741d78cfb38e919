------------------------- MODULE MCRecoveryCarrier -------------------------
(* Small instances of RecoveryCarrier for TLC. *)
EXTENDS RecoveryCarrier

CONSTANTS i1, i2
=============================================================================
