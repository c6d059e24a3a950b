------------------------------ MODULE Producers ------------------------------
(***************************************************************************)
(* The threads that push into a mailbox, as the ring (LockFreeMPSC) and    *)
(* the parking around it (ParkHandshake) see them.                         *)
(***************************************************************************)
EXTENDS Naturals

CONSTANTS
    Producer,   \* producer threads
    MaxPush     \* bound: messages each producer pushes

ASSUME MaxPushAssumption == MaxPush \in Nat
=============================================================================
