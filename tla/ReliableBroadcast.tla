-------------------------- MODULE ReliableBroadcast --------------------------
(***************************************************************************)
(* What the public rumorer promises to the rest of a node: every message   *)
(* that some node has given an identity is handed to the application of    *)
(* each node at most once, in any order, and nothing else is ever handed   *)
(* over.  The fair version also promises that it is handed over at last.   *)
(***************************************************************************)
CONSTANTS Node,      \* the nodes, each one an origin of messages
          Message    \* the identities a message can have

VARIABLES sent,      \* the messages that exist
          got        \* got[n]: the messages handed to the application of n

vars == <<sent, got>>

TypeOK == /\ sent \in SUBSET Message
          /\ got \in [Node -> SUBSET Message]

Init == /\ sent = {}
        /\ got = [n \in Node |-> {}]

Broadcast(m) == /\ m \notin sent
                /\ sent' = sent \cup {m}
                /\ UNCHANGED got

Deliver(n, m) == /\ m \in sent \ got[n]
                 /\ got' = [got EXCEPT ![n] = @ \cup {m}]
                 /\ UNCHANGED sent

Next == \/ \E m \in Message : Broadcast(m)
        \/ \E n \in Node, m \in Message : Deliver(n, m)

Spec == Init /\ [][Next]_vars

(***************************************************************************)
(* With the fair scheduling of deliveries every message reaches everyone.  *)
(***************************************************************************)
FairSpec == /\ Spec
            /\ \A n \in Node, m \in Message : WF_vars(Deliver(n, m))
=============================================================================
