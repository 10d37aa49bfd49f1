---------------------------- MODULE PrivateRumorer ----------------------------
(***************************************************************************)
(* The private rumorers of all nodes (project/privateRumorer): the routing *)
(* tables, which every rumor that arrives may update, and the messages     *)
(* from user to user that travel along them.                               *)
(*                                                                         *)
(* The public rumorer appears as its store only: a node sends any rumor it *)
(* has stored to any neighbour at any time, again and again (it resends on *)
(* timeouts, and stale statuses ask for what came long ago), so that a     *)
(* packet that UDP delays or duplicates is one sent late.  The dispatcher  *)
(* gives a received rumor to a goroutine of the public rumorer and then to *)
(* one of the private rumorer, and these two run in any order.             *)
(***************************************************************************)
EXTENDS Integers, FiniteSets

CONSTANTS
  Node,        \* the nodes; a node is its name and its address
  Link,        \* Link: the pairs <<p, n>> such that p sends rumors to n
  Talkers,     \* the nodes whose users write public messages
  Mail,        \* the private messages; Mail \subseteq Node \X Node, from and to
  HopLimit,    \* the -hopLimit flag, the same on every node
  HopValues,   \* how many values PrivateMessage.HopLimit has (2^32)
  MaxRumors,   \* bound: how many public messages a user writes
  MaxInFlight, \* bound: how many private messages UDP holds, it drops the rest
  NoAddr,      \* no entry in a routing table
  NoID         \* no entry in recentIDs

ASSUME PrivateRumorerAssumption ==
  /\ Link \subseteq Node \X Node
  /\ \A l \in Link : l[1] # l[2]
  /\ Talkers \subseteq Node
  /\ Mail \subseteq Node \X Node
  /\ HopValues \in Nat \ {0}
  /\ HopLimit \in 0..(HopValues - 1)
  /\ MaxRumors \in Nat
  /\ MaxInFlight \in Nat
  /\ NoAddr \notin Node
  /\ NoID = -1

VARIABLES
  stored,    \* stored[n][o]: the IDs of o's rumors in the public store of n
  unrouted,  \* unrouted[n]: what n has stored and not routed yet
  recentIDs, \* recentIDs[n][o]: the ID that o's entry in the table of n is from
  table,     \* table[n][o]: the address to which n sends what is for o
  net,       \* the private messages on their way
  messages   \* messages[n]: the private messages n has saved

tableVars == <<recentIDs, table>>
rumorVars == <<stored, unrouted>>
mailVars == <<net, messages>>
vars == <<rumorVars, tableVars, mailVars>>
-----------------------------------------------------------------------------
ID == 1..MaxRumors
Arrival == [origin : Node, id : ID, from : Node]

\* A private message on its way to an address; sends counts the addresses.
Packet == [mail : Mail, hop : 0..(HopValues - 1), to : Node, sends : Nat]

TypeOK ==
  /\ stored \in [Node -> [Node -> SUBSET ID]]
  /\ unrouted \in [Node -> SUBSET Arrival]
  /\ recentIDs \in [Node -> [Node -> ID \cup {0, NoID}]]
  /\ table \in [Node -> [Node -> Node \cup {NoAddr}]]
  /\ net \subseteq Packet
  /\ messages \in [Node -> SUBSET Mail]

\* A node is in its own routing table, with the ID no message has.
Init ==
  /\ stored = [n \in Node |-> [o \in Node |-> {}]]
  /\ unrouted = [n \in Node |-> {}]
  /\ recentIDs = [n \in Node |-> [o \in Node |-> IF o = n THEN 0 ELSE NoID]]
  /\ table = [n \in Node |-> [o \in Node |-> IF o = n THEN n ELSE NoAddr]]
  /\ net = {}
  /\ messages = [n \in Node |-> {}]
-----------------------------------------------------------------------------
(***************************************************************************)
(* Public messages.                                                        *)
(***************************************************************************)

\* A user writes a message: it is stored, and never routed, where it is from.
WriteRumor(o, i) ==
  /\ o \in Talkers
  /\ i = Cardinality(stored[o][o]) + 1
  /\ i <= MaxRumors
  /\ stored' = [stored EXCEPT ![o][o] = @ \cup {i}]
  /\ UNCHANGED <<unrouted, tableVars, mailVars>>

\* (A variant of the next definition: the last of the packets with the latest
\* rumor wins.)
AddAgain(n, o, addr, i) ==
  IF i >= recentIDs[n][o]
    THEN /\ recentIDs' = [recentIDs EXCEPT ![n][o] = i]
         /\ table' = [table EXCEPT ![n][o] = addr]
    ELSE UNCHANGED tableVars

\* RoutingTable.Add: only a newer message changes the route to its origin.
Add(n, o, addr, i) ==
  IF i > recentIDs[n][o]
    THEN /\ recentIDs' = [recentIDs EXCEPT ![n][o] = i]
         /\ table' = [table EXCEPT ![n][o] = addr]
    ELSE UNCHANGED tableVars

\* (A variant of the next definition: what is stored is never routed.)
StoreUnrouted(n, p, o, i) ==
  /\ <<p, n>> \in Link
  /\ i \in stored[p][o]
  /\ stored' = [stored EXCEPT ![n][o] = @ \cup {i}]
  /\ UNCHANGED <<unrouted, tableVars, mailVars>>

\* A rumor of o that neighbour p sends: the public rumorer is first.
StoreRumor(n, p, o, i) ==
  /\ <<p, n>> \in Link
  /\ i \in stored[p][o]
  /\ stored' = [stored EXCEPT ![n][o] = @ \cup {i}]
  /\ unrouted' = [unrouted EXCEPT ![n] = @ \cup {[origin |-> o, id |-> i, from |-> p]}]
  /\ UNCHANGED <<tableVars, mailVars>>

\* handleMongerable after that, or before it.
RouteStored(n, a) ==
  /\ a \in unrouted[n]
  /\ Add(n, a.origin, a.from, a.id)
  /\ unrouted' = [unrouted EXCEPT ![n] = @ \ {a}]
  /\ UNCHANGED <<stored, mailVars>>

RouteFirst(n, p, o, i) ==
  /\ <<p, n>> \in Link
  /\ i \in stored[p][o]
  /\ Add(n, o, p, i)
  /\ UNCHANGED <<rumorVars, mailVars>>
-----------------------------------------------------------------------------
(***************************************************************************)
(* Private messages.  UDP may lose what is sent and repeat what arrives.   *)
(***************************************************************************)
Send(held, packet, lost) ==
  /\ net' = IF lost THEN held ELSE held \cup {packet}
  /\ lost \/ Cardinality(net') <= MaxInFlight

After(p, again) == IF again THEN net ELSE net \ {p}

\* handleUIMessage: the source takes one hop off the limit, without a look at
\* it.  A message for an unknown node is forgotten.
HandleUIMessage(n, m, lost) ==
  /\ m \in Mail /\ m[1] = n
  /\ table[n][m[2]] # NoAddr
  /\ Send(net, [mail |-> m, hop |-> (HopLimit - 1) % HopValues,
                to |-> table[n][m[2]], sends |-> 1], lost)
  /\ UNCHANGED <<rumorVars, tableVars, messages>>

\* handlePointToPointMessage.
SavePrivateMessage(n, p, again) ==
  /\ p.to = n /\ p.mail[2] = n
  /\ messages' = [messages EXCEPT ![n] = @ \cup {p.mail}]
  /\ net' = After(p, again)
  /\ UNCHANGED <<rumorVars, tableVars>>

\* Of no use any more, or for a node that is not in the table.
Drop(n, p, again) ==
  /\ p.to = n /\ p.mail[2] # n
  /\ p.hop = 0 \/ table[n][p.mail[2]] = NoAddr
  /\ net' = After(p, again)
  /\ UNCHANGED <<rumorVars, tableVars, messages>>

\* (Variants of the next definition: the hop limit stays as it is; a message
\* without a hop left is sent on.)
ForwardAsItIs(n, p, again, lost) ==
  /\ p.to = n /\ p.mail[2] # n
  /\ p.hop > 0 /\ table[n][p.mail[2]] # NoAddr
  /\ Send(After(p, again), [p EXCEPT !.to = table[n][p.mail[2]],
                                     !.sends = IF @ > HopLimit THEN @ ELSE @ + 1], lost)
  /\ UNCHANGED <<rumorVars, tableVars, messages>>

ForwardAtZero(n, p, again, lost) ==
  /\ p.to = n /\ p.mail[2] # n /\ table[n][p.mail[2]] # NoAddr
  /\ Send(After(p, again), [p EXCEPT !.to = table[n][p.mail[2]], !.hop = @ - 1,
                                     !.sends = @ + 1], lost)
  /\ UNCHANGED <<rumorVars, tableVars, messages>>

Forward(n, p, again, lost) ==
  /\ p.to = n /\ p.mail[2] # n
  /\ p.hop > 0 /\ table[n][p.mail[2]] # NoAddr
  /\ Send(After(p, again), [p EXCEPT !.to = table[n][p.mail[2]], !.hop = @ - 1,
                                     !.sends = @ + 1], lost)
  /\ UNCHANGED <<rumorVars, tableVars, messages>>

HandlePointToPointMessage(n, p, again, lost) ==
  \/ SavePrivateMessage(n, p, again)
  \/ Drop(n, p, again)
  \/ Forward(n, p, again, lost)

Step(n) ==
  \/ \E i \in ID : WriteRumor(n, i)
  \/ \E p, o \in Node, i \in ID : StoreRumor(n, p, o, i)
  \/ \E a \in unrouted[n] : RouteStored(n, a)
  \/ \E p, o \in Node, i \in ID : RouteFirst(n, p, o, i)
  \/ \E m \in Mail, lost \in BOOLEAN : HandleUIMessage(n, m, lost)
  \/ \E p \in net, again, lost \in BOOLEAN : HandlePointToPointMessage(n, p, again, lost)

Next == \E n \in Node : Step(n)

Spec == Init /\ [][Next]_vars
-----------------------------------------------------------------------------
(***************************************************************************)
(* A packet that UDP does not lose is handled at last.                     *)
(***************************************************************************)
Fairness ==
  \A n \in Node, h \in 0..(HopValues - 1) :
    WF_vars(\E p \in net, lost \in BOOLEAN :
              p.hop = h /\ HandlePointToPointMessage(n, p, FALSE, lost))

FairSpec == Spec /\ Fairness
-----------------------------------------------------------------------------
(***************************************************************************)
(* What is known of an origin gets no older along a route: the next node   *)
(* on it is the origin, or it has an entry from the same or a later        *)
(* message of the origin, or a goroutine that is about to make one, even   *)
(* though entries are made late, out of order and from repeated packets.   *)
(***************************************************************************)
RouteFresh ==
  \A n, o \in Node :
    LET next == table[n][o] IN
    next \notin {NoAddr, n, o} =>
      \/ recentIDs[next][o] >= recentIDs[n][o]
      \/ \E a \in unrouted[next] : a.origin = o /\ a.id >= recentIDs[n][o]

(***************************************************************************)
(* Every node has routed what it has stored of o, from message i on: of    *)
(* the two goroutines for such a message the one that routes was first.    *)
(***************************************************************************)
RoutedInTime(o, i) ==
  \A n \in Node \ {o} : \A j \in stored[n][o] : j >= i => recentIDs[n][o] >= j

\* Among the nodes that have a route to o from message i or a later one, none
\* are so that their routes do not leave them.
NoLoop(o, i) ==
  \A S \in (SUBSET (Node \ {o})) \ {{}} :
    (\A n \in S : recentIDs[n][o] >= i) => \E n \in S : table[n][o] \notin S

(***************************************************************************)
(* A routing loop takes a node that stores a message, sends it on, hears   *)
(* it again from a node it sent it to, and routes that packet before the   *)
(* one it stored.  Where the messages from i on are routed in time, their  *)
(* routes have no loop, whatever was routed late before: a later message   *)
(* ends a loop for all that hear it.                                       *)
(***************************************************************************)
LoopsComeFromLateRoutes ==
  \A o \in Talkers, i \in ID : []RoutedInTime(o, i) => []NoLoop(o, i)

(***************************************************************************)
(* A routing loop lasts as long as no later message of the origin arrives, *)
(* so what keeps a private message from going round for ever is the hop    *)
(* limit.  No private message is sent more often than the -hopLimit flag   *)
(* says (main.go:44, "HopLimit for point to point messages"), and what     *)
(* the source sends to the first node on the route.                        *)
(***************************************************************************)
WithinHopLimit ==
  \A p \in net : p.sends <= 1 \/ p.sends <= HopLimit

(***************************************************************************)
(* Once the users send no more, the network gets rid of every private      *)
(* message, routing loops or not.                                          *)
(***************************************************************************)
Settles ==
  <>[][~\E n \in Node, m \in Mail, lost \in BOOLEAN :
          HandleUIMessage(n, m, lost)]_vars => <>[](net = {})
=============================================================================
