----------------------------- MODULE MCMongering -----------------------------
(***************************************************************************)
(* A node with a message to monger and two peers.                          *)
(***************************************************************************)
EXTENDS Mongering

CONSTANTS m1, p1, p2
=============================================================================
