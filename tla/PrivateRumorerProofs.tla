------------------------- MODULE PrivateRumorerProofs -------------------------
(***************************************************************************)
(* Proofs about the routing tables, for any network, any number of rumors  *)
(* and any hop limit.                                                      *)
(***************************************************************************)
EXTENDS PrivateRumorer, TLAPS

\* The types the proofs need, of the variables that routing is about.
RoutingTypes ==
  /\ stored \in [Node -> [Node -> SUBSET ID]]
  /\ unrouted \in [Node -> SUBSET Arrival]
  /\ recentIDs \in [Node -> [Node -> ID \cup {0, NoID}]]
  /\ table \in [Node -> [Node -> Node \cup {NoAddr}]]

\* The steps of the routing: the store of a node grows, or an entry of a table is
\* made from a message that the next node has, or nothing changes.
Writes(o, i) ==
  /\ i \in ID
  /\ stored' = [stored EXCEPT ![o][o] = @ \cup {i}]
  /\ UNCHANGED <<unrouted, tableVars>>

Stores(n, p, o, i) ==
  /\ p # n /\ i \in ID /\ i \in stored[p][o]
  /\ stored' = [stored EXCEPT ![n][o] = @ \cup {i}]
  /\ unrouted' = [unrouted EXCEPT ![n] = @ \cup {[origin |-> o, id |-> i, from |-> p]}]
  /\ UNCHANGED tableVars

Routes(n, a) ==
  /\ a \in unrouted[n]
  /\ Add(n, a.origin, a.from, a.id)
  /\ unrouted' = [unrouted EXCEPT ![n] = @ \ {a}]
  /\ UNCHANGED stored

RoutesFirst(n, p, o, i) ==
  /\ p # n /\ i \in ID /\ i \in stored[p][o]
  /\ Add(n, o, p, i)
  /\ UNCHANGED rumorVars

\* Every step is one of these, or does not touch rumors and tables.
LEMMA RoutingCases ==
  ASSUME [Next]_vars
  PROVE  \/ UNCHANGED <<rumorVars, tableVars>>
         \/ \E o \in Node, i \in ID : Writes(o, i)
         \/ \E n, p, o \in Node, i \in ID : Stores(n, p, o, i)
         \/ \E n \in Node : \E a \in unrouted[n] : Routes(n, a)
         \/ \E n, p, o \in Node, i \in ID : RoutesFirst(n, p, o, i)
PROOF
<1>1. CASE UNCHANGED vars
  BY <1>1 DEF vars, rumorVars, tableVars
<1>2. \A p, n : <<p, n>> \in Link => p # n
  BY PrivateRumorerAssumption DEF PrivateRumorerAssumption
<1>3. CASE Next
  <2> PICK n \in Node : Step(n)
    BY <1>3 DEF Next
  <2>1. ASSUME NEW i \in ID, WriteRumor(n, i)
        PROVE  Writes(n, i)
    BY <2>1 DEF WriteRumor, Writes
  <2>2. ASSUME NEW p \in Node, NEW o \in Node, NEW i \in ID, StoreRumor(n, p, o, i)
        PROVE  Stores(n, p, o, i)
    BY <1>2, <2>2 DEF StoreRumor, Stores
  <2>3. ASSUME NEW a \in unrouted[n], RouteStored(n, a)
        PROVE  Routes(n, a)
    BY <2>3 DEF RouteStored, Routes
  <2>4. ASSUME NEW p \in Node, NEW o \in Node, NEW i \in ID, RouteFirst(n, p, o, i)
        PROVE  RoutesFirst(n, p, o, i)
    BY <1>2, <2>4 DEF RouteFirst, RoutesFirst
  <2>5. ASSUME NEW m \in Mail, NEW lost \in BOOLEAN, HandleUIMessage(n, m, lost)
        PROVE  UNCHANGED <<rumorVars, tableVars>>
    BY <2>5 DEF HandleUIMessage
  <2>6. ASSUME NEW p \in net, NEW again \in BOOLEAN, NEW lost \in BOOLEAN,
               HandlePointToPointMessage(n, p, again, lost)
        PROVE  UNCHANGED <<rumorVars, tableVars>>
    BY <2>6 DEF HandlePointToPointMessage, SavePrivateMessage, Drop, Forward
  <2> QED
    BY <2>1, <2>2, <2>3, <2>4, <2>5, <2>6 DEF Step
<1> QED
  BY <1>1, <1>3

-----------------------------------------------------------------------------
\* What n has stored of another node it has routed, or a goroutine is about to.
Known ==
  \A p, o \in Node : \A i \in stored[p][o] :
    \/ p = o
    \/ recentIDs[p][o] >= i
    \/ \E a \in unrouted[p] : a.origin = o /\ a.id >= i

\* Where a route leads, the message it was made from is stored.
Behind ==
  /\ \A n, o \in Node : table[n][o] \in Node \ {n} =>
       recentIDs[n][o] \in stored[table[n][o]][o]
  /\ \A n \in Node : \A a \in unrouted[n] : a.id \in stored[a.from][a.origin]

RoutingInv == RoutingTypes /\ Known /\ Behind

\* The IDs in a routing table are numbers, before and after a step.
LEMMA IDsAreIntegers ==
  /\ RoutingTypes => \A m, q \in Node : recentIDs[m][q] \in Int
  /\ RoutingTypes' => \A m, q \in Node : recentIDs'[m][q] \in Int
PROOF
<1>1. ID \cup {0, NoID} \subseteq Int
  BY PrivateRumorerAssumption DEF PrivateRumorerAssumption, ID
<1> QED
  BY <1>1 DEF RoutingTypes

\* Adding an entry to a table keeps its type.
LEMMA AddType ==
  ASSUME RoutingTypes, NEW n \in Node, NEW o \in Node, NEW addr \in Node, NEW i \in ID,
         Add(n, o, addr, i)
  PROVE  /\ recentIDs' \in [Node -> [Node -> ID \cup {0, NoID}]]
         /\ table' \in [Node -> [Node -> Node \cup {NoAddr}]]
PROOF
<1>1. CASE i > recentIDs[n][o]
  <2>1. recentIDs' = [recentIDs EXCEPT ![n][o] = i]
    BY <1>1 DEF Add
  <2>2. table' = [table EXCEPT ![n][o] = addr]
    BY <1>1 DEF Add
  <2> QED
    BY <2>1, <2>2 DEF RoutingTypes
<1>2. CASE ~(i > recentIDs[n][o])
  BY <1>2 DEF Add, RoutingTypes, tableVars
<1> QED
  BY <1>1, <1>2

\* In the beginning nothing is stored and no route leaves a node.
LEMMA RoutingInit == Init => RoutingInv
PROOF
<1> SUFFICES ASSUME Init PROVE RoutingInv
  OBVIOUS
<1>1. RoutingTypes
  BY DEF Init, RoutingTypes
<1>2. Known
  BY DEF Init, Known
<1>3. Behind
  BY PrivateRumorerAssumption DEF PrivateRumorerAssumption, Init, Behind
<1> QED
  BY <1>1, <1>2, <1>3 DEF RoutingInv

\* Adding an entry never lowers an ID, and makes the one of the message at least
\* that of the message.
LEMMA AddEntry ==
  ASSUME RoutingTypes, NEW n \in Node, NEW o \in Node, NEW addr \in Node, NEW i \in ID,
         Add(n, o, addr, i)
  PROVE  /\ \A m, q \in Node : recentIDs'[m][q] >= recentIDs[m][q]
         /\ recentIDs'[n][o] >= i
         /\ \A m, q \in Node :
              \/ recentIDs'[m][q] = recentIDs[m][q] /\ table'[m][q] = table[m][q]
              \/ /\ m = n /\ q = o /\ i > recentIDs[n][o]
                 /\ recentIDs'[m][q] = i /\ table'[m][q] = addr
PROOF
<1>0. \A m, q \in Node : recentIDs[m][q] \in Int
  BY IDsAreIntegers
<1>1. CASE i > recentIDs[n][o]
  <2>1. \A m, q \in Node :
          recentIDs'[m][q] = IF m = n /\ q = o THEN i ELSE recentIDs[m][q]
    BY <1>1 DEF Add, RoutingTypes
  <2>2. \A m, q \in Node :
          table'[m][q] = IF m = n /\ q = o THEN addr ELSE table[m][q]
    BY <1>1 DEF Add, RoutingTypes
  <2> QED
    BY <1>0, <1>1, <2>1, <2>2 DEF ID
<1>2. CASE ~(i > recentIDs[n][o])
  BY <1>0, <1>2 DEF Add, tableVars, ID
<1> QED
  BY <1>1, <1>2

\* Every step keeps the routing invariant.
LEMMA RoutingStep == RoutingInv /\ [Next]_vars => RoutingInv'
PROOF
<1> SUFFICES ASSUME RoutingInv, [Next]_vars PROVE RoutingInv'
  OBVIOUS
<1> USE DEF RoutingInv
<1>0. \A m, q \in Node : recentIDs[m][q] \in Int
  BY IDsAreIntegers
<1>1. CASE UNCHANGED <<rumorVars, tableVars>>
  BY <1>1 DEF rumorVars, tableVars, RoutingTypes, Known, Behind
<1>2. ASSUME NEW o \in Node, NEW i \in ID, Writes(o, i)
      PROVE  RoutingInv'
  <2>1. RoutingTypes'
    BY <1>2 DEF Writes, RoutingTypes, tableVars
  <2>2. \A m, q \in Node : stored'[m][q] =
          IF m = o /\ q = o THEN stored[m][q] \cup {i} ELSE stored[m][q]
    BY <1>2 DEF Writes, RoutingTypes
  <2>3. Known'
    BY <1>2, <2>2 DEF Writes, tableVars, Known
  <2>4. \A m, q \in Node : stored[m][q] \subseteq stored'[m][q]
    BY <2>2
  <2>5. Behind'
    BY <1>2, <2>4 DEF Writes, tableVars, Behind, RoutingTypes, Arrival
  <2> QED
    BY <2>1, <2>3, <2>5
<1>3. ASSUME NEW n \in Node, NEW p \in Node, NEW o \in Node, NEW i \in ID, Stores(n, p, o, i)
      PROVE  RoutingInv'
  <2> DEFINE new == [origin |-> o, id |-> i, from |-> p]
  <2>0. new \in Arrival
    BY DEF Arrival
  <2>1. RoutingTypes'
    BY <1>3, <2>0 DEF Stores, RoutingTypes, tableVars
  <2>2. \A m, q \in Node : stored'[m][q] =
          IF m = n /\ q = o THEN stored[m][q] \cup {i} ELSE stored[m][q]
    BY <1>3 DEF Stores, RoutingTypes
  <2>3. \A m \in Node : unrouted'[m] =
          IF m = n THEN unrouted[m] \cup {new} ELSE unrouted[m]
    BY <1>3 DEF Stores, RoutingTypes
  <2>4. Known'
    <3> SUFFICES ASSUME NEW m \in Node, NEW q \in Node, NEW j \in stored'[m][q], m # q
                 PROVE  \/ recentIDs'[m][q] >= j
                        \/ \E a \in unrouted'[m] : a.origin = q /\ a.id >= j
      BY DEF Known
    <3>1. CASE j \in stored[m][q]
      BY <1>3, <2>3, <3>1 DEF Stores, tableVars, Known
    <3>2. CASE m = n /\ q = o /\ j = i
      <4>1. new \in unrouted'[m] /\ new.origin = q /\ new.id = j
        BY <2>3, <3>2
      <4>2. j >= j
        BY <3>2 DEF ID
      <4> QED
        BY <4>1, <4>2
    <3>3. j \in stored[m][q] \/ (m = n /\ q = o /\ j = i)
      BY <2>2, ZenonT(60)
    <3> QED
      BY <3>1, <3>2, <3>3
  <2>5. \A m, q \in Node : stored[m][q] \subseteq stored'[m][q]
    BY <2>2
  <2>6. Behind'
    <3>1. \A m, q \in Node : table'[m][q] \in Node \ {m} =>
            recentIDs'[m][q] \in stored'[table'[m][q]][q]
      BY <1>3, <2>5 DEF Stores, tableVars, Behind
    <3>2. ASSUME NEW m \in Node, NEW a \in unrouted'[m]
          PROVE  a.id \in stored'[a.from][a.origin]
      <4>1. CASE a \in unrouted[m]
        BY <2>5, <4>1 DEF Behind, RoutingTypes, Arrival
      <4>2. CASE a = new
        BY <1>3, <2>5, <4>2 DEF Stores
      <4> QED
        BY <2>3, <4>1, <4>2
    <3> QED
      BY <3>1, <3>2 DEF Behind
  <2> QED
    BY <2>1, <2>4, <2>6
<1>4. ASSUME NEW n \in Node, NEW a \in unrouted[n], Routes(n, a)
      PROVE  RoutingInv'
  <2>0. a \in Arrival
    BY DEF RoutingTypes
  <2>1. a.origin \in Node /\ a.from \in Node /\ a.id \in ID
    BY <2>0 DEF Arrival
  <2>2. Add(n, a.origin, a.from, a.id)
    BY <1>4 DEF Routes
  <2>3. RoutingTypes'
    BY <1>4, <2>1, <2>2, AddType DEF Routes, RoutingTypes
  <2>4. stored' = stored /\ \A m \in Node : unrouted'[m] =
          IF m = n THEN unrouted[m] \ {a} ELSE unrouted[m]
    BY <1>4 DEF Routes, RoutingTypes
  <2>5. /\ \A m, q \in Node : recentIDs'[m][q] >= recentIDs[m][q]
        /\ recentIDs'[n][a.origin] >= a.id
        /\ \A m, q \in Node :
             \/ recentIDs'[m][q] = recentIDs[m][q] /\ table'[m][q] = table[m][q]
             \/ /\ m = n /\ q = a.origin
                /\ recentIDs'[m][q] = a.id /\ table'[m][q] = a.from
    BY <2>1, <2>2, AddEntry
  <2>6. \A m, q \in Node : recentIDs'[m][q] \in Int
    BY <2>3, IDsAreIntegers
  <2>7. Known'
    <3> SUFFICES ASSUME NEW m \in Node, NEW q \in Node, NEW j \in stored[m][q], m # q
                 PROVE  \/ recentIDs'[m][q] >= j
                        \/ \E c \in unrouted'[m] : c.origin = q /\ c.id >= j
      BY <2>4 DEF Known
    <3>0. j \in Int
      BY DEF RoutingTypes, ID
    <3>1. CASE recentIDs[m][q] >= j
      BY <1>0, <2>5, <2>6, <3>0, <3>1
    <3>2. ASSUME NEW c \in unrouted[m], c.origin = q, c.id >= j
          PROVE  \/ recentIDs'[m][q] >= j
                 \/ \E d \in unrouted'[m] : d.origin = q /\ d.id >= j
      <4>1. CASE c = a /\ m = n
        BY <2>1, <2>5, <2>6, <3>0, <3>2, <4>1 DEF ID
      <4>2. CASE ~(c = a /\ m = n)
        BY <2>4, <3>2, <4>2
      <4> QED
        BY <4>1, <4>2
    <3> QED
      BY <3>1, <3>2 DEF Known
  <2>8. Behind'
    <3>1. a.id \in stored[a.from][a.origin]
      BY DEF Behind
    <3>2. \A m, q \in Node : table'[m][q] \in Node \ {m} =>
            recentIDs'[m][q] \in stored[table'[m][q]][q]
      BY <2>5, <3>1 DEF Behind
    <3> QED
      BY <2>4, <3>2 DEF Behind
  <2> QED
    BY <2>3, <2>7, <2>8
<1>5. ASSUME NEW n \in Node, NEW p \in Node, NEW o \in Node, NEW i \in ID,
             RoutesFirst(n, p, o, i)
      PROVE  RoutingInv'
  <2>1. Add(n, o, p, i) /\ i \in stored[p][o] /\ UNCHANGED <<stored, unrouted>>
    BY <1>5 DEF RoutesFirst, rumorVars
  <2>2. RoutingTypes'
    BY <2>1, AddType DEF RoutingTypes
  <2>3. /\ \A m, q \in Node : recentIDs'[m][q] >= recentIDs[m][q]
        /\ \A m, q \in Node :
             \/ recentIDs'[m][q] = recentIDs[m][q] /\ table'[m][q] = table[m][q]
             \/ /\ m = n /\ q = o
                /\ recentIDs'[m][q] = i /\ table'[m][q] = p
    BY <2>1, AddEntry
  <2>4. \A m, q \in Node : recentIDs'[m][q] \in Int
    BY <2>2, IDsAreIntegers
  <2>5. Known'
    <3> SUFFICES ASSUME NEW m \in Node, NEW q \in Node, NEW j \in stored[m][q], m # q
                 PROVE  \/ recentIDs'[m][q] >= j
                        \/ \E c \in unrouted[m] : c.origin = q /\ c.id >= j
      BY <2>1 DEF Known
    <3>0. j \in Int
      BY DEF RoutingTypes, ID
    <3> QED
      BY <1>0, <2>3, <2>4, <3>0 DEF Known
  <2>6. \A m, q \in Node : table'[m][q] \in Node \ {m} =>
          recentIDs'[m][q] \in stored[table'[m][q]][q]
    BY <2>1, <2>3 DEF Behind
  <2>7. Behind'
    BY <2>1, <2>6 DEF Behind
  <2> QED
    BY <2>2, <2>5, <2>7
<1> QED
  BY <1>1, <1>2, <1>3, <1>4, <1>5, RoutingCases

\* The routing invariant holds in every reachable state.
LEMMA RoutingInvariant == Spec => []RoutingInv
PROOF
<1>1. Init => RoutingInv
  BY RoutingInit
<1>2. RoutingInv /\ [Next]_vars => RoutingInv'
  BY RoutingStep
<1> QED
  BY <1>1, <1>2, PTL DEF Spec

(***************************************************************************)
(* What is known of an origin gets no older along a route.                 *)
(***************************************************************************)
THEOREM RoutesAreFresh == Spec => []RouteFresh
PROOF
<1>1. RoutingInv => RouteFresh
  <2> SUFFICES ASSUME RoutingInv, NEW n \in Node, NEW o \in Node,
                      table[n][o] \notin {NoAddr, n, o}
               PROVE  LET next == table[n][o] IN
                        \/ recentIDs[next][o] >= recentIDs[n][o]
                        \/ \E a \in unrouted[next] :
                             a.origin = o /\ a.id >= recentIDs[n][o]
    BY DEF RouteFresh
  <2>1. table[n][o] \in Node \ {n}
    BY DEF RoutingInv, RoutingTypes
  <2>2. recentIDs[n][o] \in stored[table[n][o]][o]
    BY <2>1 DEF RoutingInv, Behind
  <2> QED
    BY <2>1, <2>2 DEF RoutingInv, Known
<1> QED
  BY <1>1, RoutingInvariant, PTL

(***************************************************************************)
(* An entry of a routing table changes only for a later message.           *)
(***************************************************************************)
OnlyNewerRoutes ==
  [][\A n, o \in Node :
       /\ recentIDs[n][o] <= recentIDs'[n][o]
       /\ table[n][o] # table'[n][o] => recentIDs[n][o] < recentIDs'[n][o]]_vars

\* RoutingTable.Add never goes back to older knowledge, nor to another route
\* for what it knows.
THEOREM RoutesOnlyNewer == Spec => OnlyNewerRoutes
PROOF
<1> DEFINE Newer == \A n, o \in Node :
       /\ recentIDs[n][o] <= recentIDs'[n][o]
       /\ table[n][o] # table'[n][o] => recentIDs[n][o] < recentIDs'[n][o]
<1>1. ASSUME RoutingTypes, NEW n \in Node, NEW o \in Node, NEW p \in Node, NEW i \in ID,
             Add(n, o, p, i)
      PROVE  Newer
  <2>1. \A m, q \in Node : recentIDs[m][q] \in Int
    BY <1>1, IDsAreIntegers
  <2>2. \A m, q \in Node :
          \/ recentIDs'[m][q] = recentIDs[m][q] /\ table'[m][q] = table[m][q]
          \/ recentIDs[m][q] < i /\ recentIDs'[m][q] = i
    BY <1>1, AddEntry
  <2> QED
    BY <2>1, <2>2 DEF ID
<1>2. RoutingInv /\ [Next]_vars => [Newer]_vars
  <2> SUFFICES ASSUME RoutingInv, [Next]_vars PROVE Newer
    OBVIOUS
  <2>0. RoutingTypes
    BY DEF RoutingInv
  <2>1. CASE UNCHANGED tableVars
    BY <2>0, <2>1, IDsAreIntegers DEF tableVars
  <2>2. ASSUME NEW n \in Node, NEW a \in unrouted[n], Routes(n, a)
        PROVE  Newer
    <3>1. a.origin \in Node /\ a.from \in Node /\ a.id \in ID
      BY <2>0 DEF RoutingTypes, Arrival
    <3>2. Add(n, a.origin, a.from, a.id)
      BY <2>2 DEF Routes
    <3> QED
      BY <1>1, <2>0, <3>1, <3>2
  <2>3. ASSUME NEW n \in Node, NEW p \in Node, NEW o \in Node, NEW i \in ID,
               RoutesFirst(n, p, o, i)
        PROVE  Newer
    BY <1>1, <2>0, <2>3 DEF RoutesFirst
  <2> QED
    BY <2>1, <2>2, <2>3, RoutingCases DEF Writes, Stores
<1> QED
  BY <1>2, RoutingInvariant, PTL DEF Spec, OnlyNewerRoutes
-----------------------------------------------------------------------------
\* A new entry does not close a loop: where the next hop's route goes on from
\* what the next hop knows, it does not come back to the node of the entry,
\* which knew less.
LEMMA EntryMakesNoLoop ==
  ASSUME RoutingTypes, Behind,
         NEW o \in Node, NEW i \in ID, RoutedInTime(o, i), NoLoop(o, i),
         NEW n \in Node, NEW p \in Node, NEW j \in ID, NEW q \in Node,
         j \in stored[p][q], Add(n, q, p, j)
  PROVE  NoLoop(o, i)'
PROOF
<1>0. i \in Int /\ j \in Int /\ \A m, r \in Node : recentIDs[m][r] \in Int
  BY IDsAreIntegers DEF ID
<1>1. \A m, r \in Node :
        \/ recentIDs'[m][r] = recentIDs[m][r] /\ table'[m][r] = table[m][r]
        \/ /\ m = n /\ r = q /\ j > recentIDs[n][q]
           /\ recentIDs'[m][r] = j /\ table'[m][r] = p
  BY AddEntry
<1> SUFFICES ASSUME NEW S \in SUBSET (Node \ {o}), S # {},
                    \A m \in S : recentIDs'[m][o] >= i,
                    \A m \in S : table'[m][o] \in S
             PROVE  FALSE
  BY DEF NoLoop
<1>2. CASE \A m \in S : recentIDs'[m][o] = recentIDs[m][o] /\ table'[m][o] = table[m][o]
  BY <1>2 DEF NoLoop
<1>3. ASSUME ~(\A m \in S : recentIDs'[m][o] = recentIDs[m][o] /\ table'[m][o] = table[m][o])
      PROVE  FALSE
  \* The entry is that of a node in S.  The others that know j close a smaller S.
  <2> DEFINE T == {m \in S \ {n} : recentIDs[m][o] >= j}
  <2>1. n \in S /\ o = q /\ p \in S /\ j >= i /\ j > recentIDs[n][o]
    BY <1>1, <1>3
  <2>2. recentIDs[p][o] >= j
    BY <2>1 DEF RoutedInTime
  <2>3. p \in T
    BY <1>0, <2>1, <2>2
  <2>4. ASSUME NEW m \in T
        PROVE  table[m][o] \in T
    <3>1. m \in Node \ {o} /\ m \in S /\ m # n /\ recentIDs[m][o] >= j
      OBVIOUS
    <3>2. table[m][o] \in S
      BY <1>1, <3>1
    <3>3. CASE table[m][o] = m
      BY <3>1, <3>3
    <3>4. CASE table[m][o] # m
      <4>1. recentIDs[m][o] \in stored[table[m][o]][o]
        BY <3>1, <3>2, <3>4 DEF Behind
      <4>2. recentIDs[table[m][o]][o] >= recentIDs[m][o]
        <5>1. table[m][o] \in Node \ {o} /\ recentIDs[m][o] >= i
          BY <1>0, <2>1, <3>1, <3>2
        <5> QED
          BY <4>1, <5>1 DEF RoutedInTime
      <4>3. recentIDs[table[m][o]][o] >= j
        BY <1>0, <3>1, <3>2, <4>2
      <4> QED
        BY <1>0, <2>1, <3>2, <4>3
    <3> QED
      BY <3>3, <3>4
  <2>5. T \in (SUBSET (Node \ {o})) \ {{}} /\ \A m \in T : recentIDs[m][o] >= i
    BY <1>0, <2>1, <2>3
  <2> QED
    BY <2>4, <2>5 DEF NoLoop
<1> QED
  BY <1>2, <1>3

(***************************************************************************)
(* A routing loop takes a node that routes a message late: where those     *)
(* from i on are routed in time, the routes they make have no loop.        *)
(***************************************************************************)
THEOREM LoopsNeedALateRoute == Spec => LoopsComeFromLateRoutes
PROOF
<1> SUFFICES ASSUME NEW o \in Talkers, NEW i \in ID
             PROVE  Spec => ([]RoutedInTime(o, i) => []NoLoop(o, i))
  BY DEF LoopsComeFromLateRoutes
<1>0. o \in Node
  BY PrivateRumorerAssumption DEF PrivateRumorerAssumption
<1>1. Init => NoLoop(o, i)
  <2>1. ASSUME Init, NEW n \in Node \ {o}
        PROVE  ~(recentIDs[n][o] >= i)
    BY <1>0, <2>1, PrivateRumorerAssumption DEF PrivateRumorerAssumption, Init, ID
  <2> QED
    BY <2>1 DEF NoLoop
<1>2. RoutingInv /\ RoutedInTime(o, i) /\ NoLoop(o, i) /\ [Next]_vars => NoLoop(o, i)'
  <2> SUFFICES ASSUME RoutingInv, RoutedInTime(o, i), NoLoop(o, i), [Next]_vars
               PROVE  NoLoop(o, i)'
    OBVIOUS
  <2>0. RoutingTypes /\ Behind
    BY DEF RoutingInv
  <2>1. CASE UNCHANGED tableVars
    BY <2>1 DEF tableVars, NoLoop
  <2>2. ASSUME NEW n \in Node, NEW a \in unrouted[n], Routes(n, a)
        PROVE  NoLoop(o, i)'
    <3>1. a.origin \in Node /\ a.from \in Node /\ a.id \in ID
      BY <2>0 DEF RoutingTypes, Arrival
    <3>2. a.id \in stored[a.from][a.origin] /\ Add(n, a.origin, a.from, a.id)
      BY <2>0, <2>2 DEF Routes, Behind
    <3> QED
      BY <1>0, <2>0, <3>1, <3>2, EntryMakesNoLoop
  <2>3. ASSUME NEW n \in Node, NEW p \in Node, NEW q \in Node, NEW j \in ID,
               RoutesFirst(n, p, q, j)
        PROVE  NoLoop(o, i)'
    <3>1. j \in stored[p][q] /\ Add(n, q, p, j)
      BY <2>3 DEF RoutesFirst
    <3> QED
      BY <1>0, <2>0, <3>1, EntryMakesNoLoop
  <2> QED
    BY <2>1, <2>2, <2>3, RoutingCases DEF Writes, Stores
<1> QED
  BY <1>1, <1>2, RoutingInvariant, PTL DEF Spec
-----------------------------------------------------------------------------
\* The addresses a private message was sent to and the hops it has left are
\* together what the flag says.
Shaped(p) == p = [mail |-> p.mail, hop |-> p.hop, to |-> p.to, sends |-> p.sends]

HopsAddUp ==
  \A p \in net : /\ Shaped(p)
                 /\ p.hop \in Nat /\ p.sends \in Nat /\ p.sends + p.hop = HopLimit

\* A source takes its hop off without wrapping round, unless the flag is 0.
LEMMA SourceHop ==
  ASSUME HopLimit >= 1
  PROVE  (HopLimit - 1) % HopValues = HopLimit - 1
PROOF
<1>1. \A a \in Nat, b \in Nat \ {0} : a < b => a % b = a
  OBVIOUS
<1>2. HopLimit - 1 \in Nat /\ HopLimit - 1 < HopValues /\ HopValues \in Nat \ {0}
  BY PrivateRumorerAssumption DEF PrivateRumorerAssumption
<1> QED
  BY <1>1, <1>2

\* What is new in the network comes from a source, or lost a hop on the way.
LEMMA MailStep ==
  ASSUME [Next]_vars, \A p \in net : Shaped(p), NEW q \in net', q \notin net
  PROVE  /\ Shaped(q)
         /\ \/ q.sends = 1 /\ q.hop = (HopLimit - 1) % HopValues
            \/ \E p \in net : p.hop > 0 /\ q.hop = p.hop - 1 /\ q.sends = p.sends + 1
PROOF
<1>1. CASE UNCHANGED net
  BY <1>1
<1>2. ASSUME NEW n \in Node, Step(n), ~UNCHANGED net
      PROVE  /\ Shaped(q)
             /\ \/ q.sends = 1 /\ q.hop = (HopLimit - 1) % HopValues
                \/ \E p \in net : p.hop > 0 /\ q.hop = p.hop - 1 /\ q.sends = p.sends + 1
  <2>1. ASSUME NEW m \in Mail, NEW lost \in BOOLEAN, HandleUIMessage(n, m, lost)
        PROVE  Shaped(q) /\ q.sends = 1 /\ q.hop = (HopLimit - 1) % HopValues
    BY <2>1 DEF HandleUIMessage, Send, Shaped
  <2>2. ASSUME NEW p \in net, NEW again \in BOOLEAN, NEW lost \in BOOLEAN,
               Forward(n, p, again, lost)
        PROVE  Shaped(q) /\ p.hop > 0 /\ q.hop = p.hop - 1 /\ q.sends = p.sends + 1
    <3>1. q = [p EXCEPT !.to = table[n][p.mail[2]], !.hop = @ - 1, !.sends = @ + 1]
      BY <2>2 DEF Forward, Send, After
    <3>2. PICK a, b, c, d : p = [mail |-> a, hop |-> b, to |-> c, sends |-> d]
      BY DEF Shaped
    <3>3. q = [mail |-> p.mail, hop |-> p.hop - 1, to |-> table[n][p.mail[2]],
               sends |-> p.sends + 1]
      BY <3>1, <3>2
    <3> QED
      BY <2>2, <3>3 DEF Forward, Shaped
  <2>3. ASSUME NEW p \in net, NEW again \in BOOLEAN,
               SavePrivateMessage(n, p, again) \/ Drop(n, p, again)
        PROVE  FALSE
    BY <2>3 DEF SavePrivateMessage, Drop, After
  <2> QED
    BY <1>2, <2>1, <2>2, <2>3
    DEF Step, WriteRumor, StoreRumor, RouteStored, RouteFirst, mailVars,
        HandlePointToPointMessage
<1> QED
  BY <1>1, <1>2 DEF Next, vars, mailVars

(***************************************************************************)
(* No private message is sent more often than the -hopLimit flag says, as  *)
(* long as the flag is not 0.                                              *)
(***************************************************************************)
THEOREM HopsAreLimited == HopLimit >= 1 /\ Spec => []WithinHopLimit
PROOF
<1> SUFFICES ASSUME HopLimit >= 1 PROVE Spec => []WithinHopLimit
  OBVIOUS
<1>1. Init => HopsAddUp
  BY DEF Init, HopsAddUp
<1>2. HopsAddUp /\ [Next]_vars => HopsAddUp'
  <2> SUFFICES ASSUME HopsAddUp, [Next]_vars, NEW q \in net', q \notin net
               PROVE  /\ Shaped(q)
                      /\ q.hop \in Nat /\ q.sends \in Nat /\ q.sends + q.hop = HopLimit
    BY DEF HopsAddUp, Shaped
  <2>1. HopLimit \in Nat
    BY PrivateRumorerAssumption DEF PrivateRumorerAssumption
  <2>2. /\ Shaped(q)
        /\ \/ q.sends = 1 /\ q.hop = HopLimit - 1
           \/ \E p \in net : p.hop > 0 /\ q.hop = p.hop - 1 /\ q.sends = p.sends + 1
    <3>1. \A p \in net : Shaped(p)
      BY DEF HopsAddUp
    <3> QED
      BY <3>1, MailStep, SourceHop
  <2>3. ASSUME NEW p \in net, p.hop > 0, q.hop = p.hop - 1, q.sends = p.sends + 1
        PROVE  q.hop \in Nat /\ q.sends \in Nat /\ q.sends + q.hop = HopLimit
    BY <2>1, <2>3 DEF HopsAddUp
  <2> QED
    BY <2>1, <2>2, <2>3
<1>3. HopsAddUp => WithinHopLimit
  BY PrivateRumorerAssumption DEF PrivateRumorerAssumption, HopsAddUp, WithinHopLimit
<1> QED
  BY <1>1, <1>2, <1>3, PTL DEF Spec
-----------------------------------------------------------------------------
\* A source sends a hop limit that the field of the packet holds, whatever the
\* flag.
LEMMA SourceFits ==
  (HopLimit - 1) % HopValues \in 0..(HopValues - 1)
PROOF
<1>1. HopLimit \in Int /\ HopValues \in Nat \ {0}
  BY PrivateRumorerAssumption DEF PrivateRumorerAssumption
<1>2. \A a \in Int, b \in Nat \ {0} : a % b \in 0..(b - 1)
  OBVIOUS
<1> QED
  BY <1>1, <1>2

\* A private message in the network stays a packet.
LEMMA PacketStep ==
  ASSUME RoutingTypes, net \subseteq Packet, [Next]_vars
  PROVE  net' \subseteq Packet
PROOF
<1>1. CASE UNCHANGED net
  BY <1>1
<1>2. ASSUME NEW n \in Node, NEW m \in Mail, NEW lost \in BOOLEAN,
             HandleUIMessage(n, m, lost)
      PROVE  net' \subseteq Packet
  <2> DEFINE packet == [mail |-> m, hop |-> (HopLimit - 1) % HopValues,
                        to |-> table[n][m[2]], sends |-> 1]
  <2>1. m[2] \in Node
    BY PrivateRumorerAssumption DEF PrivateRumorerAssumption
  <2>2. table[n][m[2]] \in Node
    BY <1>2, <2>1 DEF HandleUIMessage, RoutingTypes
  <2>3. packet \in Packet
    BY <2>2, SourceFits DEF Packet
  <2>4. net' \subseteq net \cup {packet}
    BY <1>2 DEF HandleUIMessage, Send
  <2> QED
    BY <2>3, <2>4
<1>3. ASSUME NEW n \in Node, NEW p \in net, NEW again \in BOOLEAN, NEW lost \in BOOLEAN,
             HandlePointToPointMessage(n, p, again, lost)
      PROVE  net' \subseteq Packet
  <2>1. CASE SavePrivateMessage(n, p, again) \/ Drop(n, p, again)
    BY <2>1 DEF SavePrivateMessage, Drop, After
  <2>2. CASE Forward(n, p, again, lost)
    <3>0. PICK next : next = [p EXCEPT !.to = table[n][p.mail[2]], !.hop = @ - 1,
                                       !.sends = @ + 1]
      OBVIOUS
    <3>1. p \in Packet /\ p.hop \in 0..(HopValues - 1) /\ p.sends \in Nat /\ p.mail[2] \in Node
      BY PrivateRumorerAssumption DEF PrivateRumorerAssumption, Packet
    <3>2. table[n][p.mail[2]] \in Node
      BY <2>2, <3>1 DEF Forward, RoutingTypes
    <3>3. p.hop - 1 \in 0..(HopValues - 1)
      BY <2>2, <3>1, PrivateRumorerAssumption DEF PrivateRumorerAssumption, Forward
    <3>4. next \in Packet
      <4>1. next = [mail |-> p.mail, hop |-> p.hop - 1, to |-> table[n][p.mail[2]],
                    sends |-> p.sends + 1]
        <5>1. Shaped(p)
          BY <3>1 DEF Packet, Shaped
        <5>2. PICK a, b, c, d : p = [mail |-> a, hop |-> b, to |-> c, sends |-> d]
          BY <5>1 DEF Shaped
        <5> QED
          BY <3>0, <5>2
      <4>2. p.mail \in Mail
        BY <3>1 DEF Packet
      <4> QED
        BY <3>1, <3>2, <3>3, <4>1, <4>2 DEF Packet
    <3>5. net' \subseteq net \cup {next}
      BY <2>2, <3>0 DEF Forward, Send, After
    <3> QED
      BY <3>4, <3>5
  <2> QED
    BY <1>3, <2>1, <2>2 DEF HandlePointToPointMessage
<1> QED
  BY <1>1, <1>2, <1>3
  DEF Next, vars, mailVars, Step, WriteRumor, StoreRumor, RouteStored, RouteFirst

\* The types: no step takes a hop off a limit of 0, sends to no address, or makes
\* an entry from a message that nobody has.
THEOREM TypeCorrect == Spec => []TypeOK
PROOF
<1> DEFINE MailTypes == net \subseteq Packet /\ messages \in [Node -> SUBSET Mail]
<1>1. Init => MailTypes
  BY DEF Init
<1>2. RoutingInv /\ MailTypes /\ [Next]_vars => MailTypes'
  <2> SUFFICES ASSUME RoutingInv, MailTypes, [Next]_vars
               PROVE  messages' \in [Node -> SUBSET Mail]
    BY PacketStep DEF RoutingInv
  <2>1. ASSUME NEW n \in Node, NEW p \in net, NEW again \in BOOLEAN,
               SavePrivateMessage(n, p, again)
        PROVE  messages' \in [Node -> SUBSET Mail]
    <3>1. p.mail \in Mail
      BY DEF Packet
    <3> QED
      BY <2>1, <3>1 DEF SavePrivateMessage
  <2> QED
    BY <2>1
    DEF Next, vars, mailVars, Step, WriteRumor, StoreRumor, RouteStored, RouteFirst,
        HandleUIMessage, HandlePointToPointMessage, Drop, Forward
<1>3. RoutingInv /\ MailTypes => TypeOK
  BY DEF RoutingInv, RoutingTypes, TypeOK
<1> QED
  BY <1>1, <1>2, <1>3, RoutingInvariant, PTL DEF Spec
=============================================================================
