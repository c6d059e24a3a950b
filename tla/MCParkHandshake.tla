-------------------------- MODULE MCParkHandshake --------------------------
(* Small instances of the parking handshake for TLC. *)
EXTENDS ParkHandshake
=============================================================================
