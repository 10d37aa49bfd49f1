--------------------------- MODULE MCPrivateRumorer ---------------------------
(***************************************************************************)
(* A line of three nodes.  A rumor comes back to its origin, and the       *)
(* middle node and the far end hear the rumors of n1 from each other too.  *)
(***************************************************************************)
EXTENDS PrivateRumorer, TLC

CONSTANTS n1, n2, n3

LineLinks == {<<n1, n2>>, <<n2, n1>>, <<n2, n3>>, <<n3, n2>>}
Minus1 == -1

\* n3 writes to n1.
OneMail == {<<n3, n1>>}
=============================================================================
