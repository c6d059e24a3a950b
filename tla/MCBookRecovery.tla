-------------------------- MODULE MCBookRecovery --------------------------
(* Small instances of the arbitration and one book for TLC. *)
EXTENDS BookRecovery
=============================================================================
