------------------------------ MODULE MCRumorer ------------------------------
(***************************************************************************)
(* Small networks for the model of the public rumorer.                     *)
(***************************************************************************)
EXTENDS Rumorer, TLC

CONSTANTS n1, n2, n3

\* Two nodes: the first has the second in its -peers flag, and the user of the
\* second may add the first in the web page.
PairKnown == (n1 :> {n2}) @@ (n2 :> {})
PairWeb   == (n1 :> {}) @@ (n2 :> {n1})

\* A line: the middle node is found by the ends.
LineKnown == (n1 :> {n2}) @@ (n2 :> {}) @@ (n3 :> {n2})
LineNoWeb == (n1 :> {}) @@ (n2 :> {}) @@ (n3 :> {})
=============================================================================
