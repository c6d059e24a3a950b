--------------------------- MODULE MCLockFreeMPSC ---------------------------
(* A small instance of the lock-free ring for TLC. *)
EXTENDS LockFreeMPSC

CONSTANTS p1, p2        \* producers
=============================================================================
