------------------------------ MODULE MCMiner ------------------------------
(***************************************************************************)
(* Small networks of miners.                                               *)
(***************************************************************************)
EXTENDS Miner, TLC

CONSTANTS n1, n2, p1, p2, p3, r1

\* The users of n1 create every transaction but the second poll.
CreatorTwo == [t \in {p1, p2, r1} |-> IF t = p2 THEN n2 ELSE n1]
CreatorThree == [t \in {p1, p2, p3} |-> IF t = p2 THEN n2 ELSE n1]

\* Everything gets to n1; the last transaction does not get to n2.
AllButReg == [n \in Node |-> IF n = n1 THEN Tx ELSE Tx \ {r1}]
AllButPoll == [n \in Node |-> IF n = n1 THEN Tx ELSE Tx \ {p3}]
=============================================================================
