------------------------------ MODULE MCRunPeer ------------------------------
(***************************************************************************)
(* Packets for runPeer: own messages, a rumor and a status of others.      *)
(***************************************************************************)
EXTENDS RunPeer, TLC

CONSTANTS m1, m2, rumor, status, p1, p2

Symmetry == Permutations({m1, m2}) \cup Permutations({p1, p2})
=============================================================================
