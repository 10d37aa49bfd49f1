------------------------------- MODULE Ledger -------------------------------
(***************************************************************************)
(* What the miners promise together: a block names the one that it         *)
(* follows, its miner had that one on its chain, and every node puts       *)
(* nothing on its chain but a published block that follows its last one.   *)
(* Nothing is promised about which one: the chains may differ for ever.    *)
(***************************************************************************)
EXTENDS Naturals, Sequences

CONSTANTS Node,     \* the miners
          Genesis   \* the block that every chain begins with

VARIABLES published,  \* the blocks that exist: records with a miner and a prev
          chain       \* chain[n]: the blocks that n has confirmed, in order

vars == <<published, chain>>

On(n, b) == \E i \in 1..Len(chain[n]) : chain[n][i] = b

Init == /\ published = {}
        /\ chain = [n \in Node |-> <<Genesis>>]

\* A miner continues a block of its chain, the last one or an earlier one.
Publish(n) == \E b \in published' :
                /\ b.from = n
                /\ On(n, b.prev)
                /\ published' = published \cup {b}
                /\ UNCHANGED chain

Confirm(n) == \E b \in published :
                /\ b.prev = chain[n][Len(chain[n])]
                /\ chain' = [chain EXCEPT ![n] = Append(@, b)]
                /\ UNCHANGED published

Next == \E n \in Node : Publish(n) \/ Confirm(n)

Spec == Init /\ [][Next]_vars
=============================================================================
