---------------------------- MODULE RumorerProofs ----------------------------
(***************************************************************************)
(* What TLAPS proves about the public rumorer, for any network, any number *)
(* of messages and any number of packets in flight.                        *)
(***************************************************************************)
EXTENDS Rumorer, TLAPS

(***************************************************************************)
(* The goroutines stay goroutines when a channel is acknowledged, or is    *)
(* overwritten or deleted in ackChans.                                     *)
(***************************************************************************)
LEMMA MongerTypes ==
  ASSUME TypeOK, NEW n \in Node
  PROVE  /\ \A ts \in SUBSET Monger, m \in MsgID : \A to :
              Unregister(ts, m, to) \in SUBSET Monger
         /\ \A p : Acknowledge(n, p) \in SUBSET Monger
         /\ \A m \in MsgID, e \in Node \cup {NoAddr} : Picking(m, e) \in Monger
PROOF
<1>1. \A t \in Monger, c \in {"orphan", "acked"} : [t EXCEPT !.chan = c] \in Monger
  BY DEF Monger
<1>2. mongers[n] \in SUBSET Monger
  BY DEF TypeOK
<1> QED
  BY <1>1, <1>2 DEF Unregister, Acknowledge, Picking, Monger

\* What a UDP socket holds stays a set of packets when one is sent.
LEMMA SendType ==
  ASSUME NEW held \in SUBSET Packet, NEW packet \in Packet, NEW lost,
         Send(held, packet, lost)
  PROVE  net' \in SUBSET Packet
PROOF
  BY DEF Send

\* The packets that handlers build are packets.
LEMMA PacketTypes ==
  ASSUME NEW src \in Node, NEW dst \in Node
  PROVE  /\ \A m \in MsgID : Rumor(src, dst, m) \in Packet
         /\ \A want \in [Node -> NextID] : Status(src, dst, want) \in Packet
PROOF
  BY DEF Rumor, Status, Packet, RumorPacket, StatusPacket

\* handleRumor keeps the types of the store and of the goroutines.
LEMMA HandleRumorType ==
  ASSUME TypeOK, RumorerAssumption, NEW n \in Node, NEW m \in MsgID,
         NEW sender \in Node \cup {NoAddr}, HandleRumor(n, m, sender)
  PROVE  /\ state' \in [Node -> [Node -> NextID]]
         /\ messages' \in [Node -> [Node -> SUBSET ID]]
         /\ batches' \in [Node -> SUBSET Batch]
         /\ mongers' \in [Node -> SUBSET Monger]
PROOF
<1>1. m.origin \in Node /\ m.id \in ID
  BY DEF MsgID
<1>2. CASE Ignore(n, m) /\ UNCHANGED mongers
  BY <1>2 DEF Ignore, TypeOK, store
<1>3. CASE \E next \in NextID :
         /\ Accept(n, m, next)
         /\ mongers' = [mongers EXCEPT ![n] =
              IF next > state[n][m.origin] THEN @ \cup {Picking(m, sender)} ELSE @]
  <2> PICK next \in NextID :
         /\ Accept(n, m, next)
         /\ mongers' = [mongers EXCEPT ![n] =
              IF next > state[n][m.origin] THEN @ \cup {Picking(m, sender)} ELSE @]
    BY <1>3
  <2>1. state' \in [Node -> [Node -> NextID]]
    BY <1>1 DEF Accept, TypeOK
  <2>2. messages' \in [Node -> [Node -> SUBSET ID]]
    BY <1>1 DEF Accept, TypeOK
  <2>3. {b \in {[origin |-> m.origin, lo |-> state[n][m.origin], hi |-> next - 1]} :
                 b.lo <= b.hi} \in SUBSET Batch
    BY <1>1 DEF Batch, TypeOK, NextID, ID, RumorerAssumption
  <2>4. batches' \in [Node -> SUBSET Batch]
    BY <1>1, <2>3 DEF Accept, TypeOK
  <2>5. mongers' \in [Node -> SUBSET Monger]
    BY MongerTypes DEF TypeOK
  <2> QED
    BY <2>1, <2>2, <2>4, <2>5
<1> QED
  BY <1>2, <1>3 DEF HandleRumor
-----------------------------------------------------------------------------
(***************************************************************************)
(* Type correctness: every variable of the rumorer keeps its type.         *)
(***************************************************************************)
LEMMA TypeInit == RumorerAssumption /\ Init => TypeOK
PROOF
  BY DEF RumorerAssumption, Init, TypeOK, NextID, ID, NoMsg

\* Every step of a rumorer keeps the types of all its variables.
LEMMA TypeStep ==
  ASSUME RumorerAssumption, TypeOK, [Next]_vars
  PROVE  TypeOK'
PROOF
<1>1. CASE UNCHANGED vars
  BY <1>1 DEF vars, TypeOK
<1>2. ASSUME NEW n \in Node, GiveID(n)
      PROVE  TypeOK'
  <2>1. id[n] \in ID /\ id[n] + 1 \in NextID
    BY <1>2 DEF GiveID, TypeOK, ID, NextID, RumorerAssumption
  <2> QED
    BY <1>2, <2>1 DEF GiveID, TypeOK, store
<1>3. ASSUME NEW n \in Node, NEW i \in assigned[n], HandleOwn(n, i)
      PROVE  TypeOK'
  <2>1. [origin |-> n, id |-> i] \in MsgID
    BY DEF TypeOK, MsgID
  <2>2. /\ state' \in [Node -> [Node -> NextID]]
        /\ messages' \in [Node -> [Node -> SUBSET ID]]
        /\ batches' \in [Node -> SUBSET Batch]
        /\ mongers' \in [Node -> SUBSET Monger]
    BY <1>3, <2>1, HandleRumorType DEF HandleOwn
  <2> QED
    BY <1>3, <2>2 DEF HandleOwn, TypeOK
<1>4. ASSUME NEW n \in Node, NEW p \in net, NEW again \in BOOLEAN,
             NEW lost \in BOOLEAN, ReceiveRumor(n, p, again, lost)
      PROVE  TypeOK'
  <2>1. p.src \in Node /\ p.msg \in MsgID
    BY <1>4 DEF ReceiveRumor, TypeOK, Packet, RumorPacket, StatusPacket
  <2>2. /\ state' \in [Node -> [Node -> NextID]]
        /\ messages' \in [Node -> [Node -> SUBSET ID]]
        /\ batches' \in [Node -> SUBSET Batch]
        /\ mongers' \in [Node -> SUBSET Monger]
    BY <1>4, <2>1, HandleRumorType DEF ReceiveRumor
  <2>3. Status(n, p.src, state'[n]) \in Packet
    BY <2>1, <2>2, PacketTypes
  <2>4. net' \in SUBSET Packet
    BY <1>4, <2>3, SendType DEF ReceiveRumor, After, TypeOK
  <2>5. peers' \in [Node -> SUBSET Node]
    BY <1>4, <2>1 DEF ReceiveRumor, TypeOK
  <2>6. UNCHANGED <<id, assigned, delivered, mongeringWith>>
    BY <1>4 DEF ReceiveRumor
  <2> QED
    BY <2>2, <2>4, <2>5, <2>6 DEF TypeOK
<1>5. ASSUME NEW n \in Node, NEW p \in net, NEW again \in BOOLEAN,
             NEW lost \in BOOLEAN, ReceiveStatus(n, p, again, lost)
      PROVE  TypeOK'
  <2>1. p.src \in Node /\ p.want \in [Node -> NextID]
    BY <1>5 DEF ReceiveStatus, TypeOK, Packet, RumorPacket, StatusPacket
  <2>2. Acknowledge(n, p) \in SUBSET Monger
    BY MongerTypes
  <2>3. After(p, again) \in SUBSET Packet
    BY DEF After, TypeOK
  <2>4. CASE SendMissing(n, p, again, lost)
    <3>1. PICK o \in IHave(n, p) :
            Send(After(p, again),
                 Rumor(n, p.src, [origin |-> o, id |-> p.want[o]]), lost)
      BY <2>4 DEF SendMissing
    <3>2. [origin |-> o, id |-> p.want[o]] \in MsgID
      BY <2>1 DEF IHave, MsgID, TypeOK, NextID, ID, RumorerAssumption
    <3>3. net' \in SUBSET Packet
      BY <2>1, <2>3, <3>1, <3>2, PacketTypes, SendType
    <3> QED
      BY <1>5, <2>1, <2>2, <2>4, <3>3 DEF ReceiveStatus, SendMissing, TypeOK, store
  <2>5. CASE AskMissing(n, p, again, lost)
    <3>1. Status(n, p.src, state[n]) \in Packet
      BY <2>1, PacketTypes DEF TypeOK
    <3>2. net' \in SUBSET Packet
      BY <2>3, <2>5, <3>1, SendType DEF AskMissing
    <3> QED
      BY <1>5, <2>1, <2>2, <2>5, <3>2 DEF ReceiveStatus, AskMissing, TypeOK, store
  <2>6. ASSUME NEW heads \in BOOLEAN, InSync(n, p, again, heads)
        PROVE  TypeOK'
    <3>1. heads => mongeringWith[n][p.src] \in MsgID
      BY <2>1, <2>6 DEF InSync, TypeOK
    <3>2. mongers' \in [Node -> SUBSET Monger]
      BY <2>1, <2>2, <2>6, <3>1, MongerTypes DEF InSync, TypeOK
    <3>3. mongeringWith' \in [Node -> [Node -> MsgID \cup {NoMsg}]]
      BY <2>6 DEF InSync, TypeOK
    <3> QED
      BY <1>5, <2>1, <2>3, <2>6, <3>2, <3>3 DEF ReceiveStatus, InSync, TypeOK, store
  <2> QED
    BY <1>5, <2>4, <2>5, <2>6 DEF ReceiveStatus
<1>6. ASSUME NEW n \in Node, NEW t \in mongers[n], NEW to \in peers[n],
             NEW lost \in BOOLEAN, MongerTo(n, t, to, lost)
      PROVE  TypeOK'
  <2>1. t \in Monger /\ t.msg \in MsgID /\ to \in Node
    BY DEF TypeOK, Monger
  <2>2. [t EXCEPT !.to = to, !.chan = "open"] \in Monger
    BY <2>1 DEF Monger
  <2>3. mongers' \in [Node -> SUBSET Monger]
    BY <1>6, <2>1, <2>2, MongerTypes DEF MongerTo, TypeOK
  <2>4. net' \in SUBSET Packet
    BY <1>6, <2>1, PacketTypes, SendType DEF MongerTo, TypeOK
  <2> QED
    BY <1>6, <2>1, <2>3, <2>4 DEF MongerTo, TypeOK, store
<1>7. ASSUME NEW n \in Node, NEW t \in mongers[n], NobodyToMonger(n, t)
      PROVE  TypeOK'
  BY <1>7 DEF NobodyToMonger, TypeOK, store
<1>8. ASSUME NEW n \in Node, NEW t \in mongers[n], Acked(n, t)
      PROVE  TypeOK'
  <2>1. t.msg \in MsgID
    BY DEF TypeOK, Monger
  <2>2. mongers' \in [Node -> SUBSET Monger]
    BY <1>8, <2>1, MongerTypes DEF Acked, TypeOK
  <2> QED
    BY <1>8, <2>2 DEF Acked, TypeOK, store
<1>9. ASSUME NEW n \in Node, NEW t \in mongers[n], TimedOut(n, t)
      PROVE  TypeOK'
  <2>1. t.msg \in MsgID /\ t.except \in Node \cup {NoAddr}
    BY DEF TypeOK, Monger
  <2>2. mongers' \in [Node -> SUBSET Monger]
    BY <1>9, <2>1, MongerTypes DEF TimedOut, TypeOK
  <2> QED
    BY <1>9, <2>2 DEF TimedOut, TypeOK, store
<1>10. ASSUME NEW n \in Node, NEW to \in peers[n], NEW lost \in BOOLEAN,
              AntiEntropy(n, to, lost)
       PROVE  TypeOK'
  <2>1. Status(n, to, state[n]) \in Packet
    BY PacketTypes DEF TypeOK
  <2>2. net' \in SUBSET Packet
    BY <1>10, <2>1, SendType DEF AntiEntropy, TypeOK
  <2> QED
    BY <1>10, <2>2 DEF AntiEntropy, TypeOK, store
<1>11. ASSUME NEW n \in Node, NEW b \in batches[n], DispatchLocal(n, b)
       PROVE  TypeOK'
  <2>1. b \in Batch
    BY DEF TypeOK
  <2>2. [origin |-> b.origin, id |-> b.lo] \in MsgID
    BY <2>1 DEF Batch, MsgID
  <2>3. {c \in {[b EXCEPT !.lo = b.lo + 1]} : b.lo < b.hi} \in SUBSET Batch
    BY <2>1 DEF Batch, ID, RumorerAssumption
  <2> QED
    BY <1>11, <2>2, <2>3 DEF DispatchLocal, TypeOK
<1>12. ASSUME NEW n \in Node, NEW to \in Node, AddPeer(n, to)
       PROVE  TypeOK'
  BY <1>12 DEF AddPeer, TypeOK, store
<1> QED
  BY <1>1, <1>2, <1>3, <1>4, <1>5, <1>6, <1>7, <1>8, <1>9, <1>10, <1>11, <1>12
  DEF Next, Step

\* In every reachable state each variable of the rumorers has its type.
THEOREM TypeCorrect == Spec => []TypeOK
PROOF
<1>1. Init => TypeOK
  BY RumorerAssumption, TypeInit
<1>2. TypeOK /\ [Next]_vars => TypeOK'
  BY RumorerAssumption, TypeStep
<1> QED
  BY <1>1, <1>2, PTL DEF Spec
-----------------------------------------------------------------------------
(***************************************************************************)
(* What a step can do to the store, to the network and to the mongering    *)
(* goroutines: the invariants below need no more.                          *)
(***************************************************************************)
Incoming(n, m) == \/ m.origin = n /\ m.id \in assigned[n]
                  \/ \E p \in net : p.type = "rumor" /\ p.msg = m

\* A step stores nothing, or it accepts one message in the store of one node,
\* or it hands one message of a batch over.
LEMMA StoreStep ==
  ASSUME RumorerAssumption, TypeOK, [Next]_vars
  PROVE  \/ UNCHANGED <<store, delivered>>
         \/ /\ UNCHANGED delivered
            /\ \E n \in Node, m \in MsgID, next \in NextID :
                 Accept(n, m, next) /\ Incoming(n, m)
         \/ \E n \in Node : \E b \in batches[n] : DispatchLocal(n, b)
PROOF
<1> DEFINE Goal == \/ UNCHANGED <<store, delivered>>
                   \/ /\ UNCHANGED delivered
                      /\ \E n \in Node, m \in MsgID, next \in NextID :
                           Accept(n, m, next) /\ Incoming(n, m)
                   \/ \E n \in Node : \E b \in batches[n] : DispatchLocal(n, b)
<1>1. ASSUME NEW n \in Node, NEW i \in assigned[n], HandleOwn(n, i)
      PROVE  Goal
  <2> DEFINE m == [origin |-> n, id |-> i]
  <2>1. m \in MsgID /\ Incoming(n, m)
    BY DEF Incoming, MsgID, TypeOK
  <2> QED
    BY <1>1, <2>1 DEF HandleOwn, HandleRumor, Ignore, store
<1>2. ASSUME NEW n \in Node, NEW p \in net, NEW again \in BOOLEAN,
             NEW lost \in BOOLEAN, ReceiveRumor(n, p, again, lost)
      PROVE  Goal
  <2>1. p.msg \in MsgID
    BY <1>2 DEF ReceiveRumor, TypeOK, Packet, RumorPacket, StatusPacket
  <2>2. Incoming(n, p.msg)
    BY <1>2 DEF ReceiveRumor, Incoming
  <2> QED
    BY <1>2, <2>1, <2>2 DEF ReceiveRumor, HandleRumor, Ignore, store
<1>3. CASE UNCHANGED vars
  BY <1>3 DEF vars, store
<1>4. ASSUME NEW n \in Node
      PROVE  /\ \A p, again, lost : ReceiveStatus(n, p, again, lost) => Goal
             /\ \A t, to, lost : MongerTo(n, t, to, lost) => Goal
             /\ \A t : NobodyToMonger(n, t) \/ Acked(n, t) \/ TimedOut(n, t) => Goal
             /\ \A to, lost : AntiEntropy(n, to, lost) => Goal
             /\ \A b \in batches[n] : DispatchLocal(n, b) => Goal
             /\ \A to : AddPeer(n, to) => Goal
             /\ GiveID(n) => Goal
  BY DEF store, GiveID, ReceiveStatus, MongerTo, NobodyToMonger, Acked, TimedOut,
         AntiEntropy, DispatchLocal, AddPeer
<1> QED
  BY <1>1, <1>2, <1>3, <1>4 DEF Next, Step

\* A packet that is new in the network is the clock of its sender, a message of
\* the store of its sender, or the message of one of its goroutines.
LEMMA NetStep ==
  ASSUME RumorerAssumption, TypeOK, StoreExact, [Next]_vars, NEW p \in net', p \notin net
  PROVE  \/ p.type = "status" /\ p.src \in Node /\ p.want = state'[p.src]
         \/ /\ p.type = "rumor" /\ p.src \in Node /\ p.msg \in MsgID
            /\ \/ p.msg.id \in messages[p.src][p.msg.origin]
               \/ \E t \in mongers[p.src] : t.msg = p.msg
PROOF
<1> DEFINE Goal == \/ p.type = "status" /\ p.src \in Node /\ p.want = state'[p.src]
                   \/ /\ p.type = "rumor" /\ p.src \in Node /\ p.msg \in MsgID
                      /\ \/ p.msg.id \in messages[p.src][p.msg.origin]
                         \/ \E t \in mongers[p.src] : t.msg = p.msg
<1>1. ASSUME NEW n \in Node, NEW q \in net, NEW again \in BOOLEAN,
             NEW lost \in BOOLEAN, ReceiveRumor(n, q, again, lost)
      PROVE  Goal
  <2>1. p = Status(n, q.src, state'[n])
    BY <1>1 DEF ReceiveRumor, Send, After
  <2> QED
    BY <2>1 DEF Status
<1>2. ASSUME NEW n \in Node, NEW q \in net, NEW again \in BOOLEAN,
             NEW lost \in BOOLEAN, ReceiveStatus(n, q, again, lost)
      PROVE  Goal
  <2>1. CASE SendMissing(n, q, again, lost)
    <3>1. PICK o \in IHave(n, q) :
            Send(After(q, again),
                 Rumor(n, q.src, [origin |-> o, id |-> q.want[o]]), lost)
      BY <2>1 DEF SendMissing
    <3>2. p = Rumor(n, q.src, [origin |-> o, id |-> q.want[o]])
      BY <3>1 DEF Send, After
    <3>3. q.want \in [Node -> NextID]
      BY <1>2 DEF ReceiveStatus, TypeOK, Packet, RumorPacket, StatusPacket
    <3>4. o \in Node /\ q.want[o] \in 1..(state[n][o] - 1)
      BY <3>3 DEF IHave, TypeOK, NextID, RumorerAssumption
    <3>5. q.want[o] \in messages[n][o]
      BY <3>4 DEF StoreExact, LoopStops
    <3>6. messages[n][o] \in SUBSET ID
      BY <3>4 DEF TypeOK
    <3> QED
      BY <3>2, <3>4, <3>5, <3>6 DEF Rumor, MsgID
  <2>2. CASE AskMissing(n, q, again, lost)
    <3>1. p = Status(n, q.src, state[n])
      BY <2>2 DEF AskMissing, Send, After
    <3> QED
      BY <1>2, <3>1 DEF Status, ReceiveStatus, store
  <2> QED
    BY <1>2, <2>1, <2>2 DEF ReceiveStatus, InSync, After
<1>3. ASSUME NEW n \in Node, NEW t \in mongers[n], NEW to \in peers[n],
             NEW lost \in BOOLEAN, MongerTo(n, t, to, lost)
      PROVE  Goal
  <2>1. p = Rumor(n, to, t.msg)
    BY <1>3 DEF MongerTo, Send
  <2>2. t.msg \in MsgID
    BY DEF TypeOK, Monger
  <2> QED
    BY <2>1, <2>2 DEF Rumor
<1>4. ASSUME NEW n \in Node, NEW to \in peers[n], NEW lost \in BOOLEAN,
             AntiEntropy(n, to, lost)
      PROVE  Goal
  <2>1. p = Status(n, to, state[n])
    BY <1>4 DEF AntiEntropy, Send
  <2> QED
    BY <1>4, <2>1 DEF Status, AntiEntropy, store
<1>5. /\ ~UNCHANGED vars
      /\ \A n \in Node : /\ ~GiveID(n)
                         /\ \A i : ~HandleOwn(n, i)
                         /\ \A t : ~NobodyToMonger(n, t) /\ ~Acked(n, t) /\ ~TimedOut(n, t)
                         /\ \A b : ~DispatchLocal(n, b)
                         /\ \A to : ~AddPeer(n, to)
  BY DEF vars, GiveID, HandleOwn, NobodyToMonger, Acked, TimedOut, DispatchLocal, AddPeer
<1> QED
  BY <1>1, <1>2, <1>3, <1>4, <1>5 DEF Next, Step

\* Acknowledging and unregistering leave a goroutine its message, and only a
\* status that covers the message acknowledges it.
LEMMA GoroutinesKept ==
  ASSUME TypeOK, NEW n \in Node
  PROVE  /\ \A ts \in SUBSET mongers[n] : \A m, to : \A u \in Unregister(ts, m, to) :
              /\ \E t \in mongers[n] : u.msg = t.msg
              /\ u.chan = "acked" => u \in mongers[n]
         /\ \A p : \A u \in Acknowledge(n, p) :
              /\ \E t \in mongers[n] : u.msg = t.msg
              /\ \/ u.chan = "acked" => u \in mongers[n]
                 \/ p.src = u.to /\ u.msg.id < p.want[u.msg.origin]
PROOF
<1>1. \A t \in Monger, c \in {"orphan", "acked"} :
        LET u == [t EXCEPT !.chan = c]
        IN  u.msg = t.msg /\ u.to = t.to /\ u.chan = c
  BY DEF Monger
<1>2. mongers[n] \in SUBSET Monger
  BY DEF TypeOK
<1>3. ASSUME NEW ts \in SUBSET mongers[n], NEW m, NEW to, NEW u \in Unregister(ts, m, to)
      PROVE  /\ \E t \in mongers[n] : u.msg = t.msg
             /\ u.chan = "acked" => u \in mongers[n]
  <2>1. PICK t \in ts : u = IF t.chan = "open" /\ t.msg = m /\ t.to = to
                              THEN [t EXCEPT !.chan = "orphan"] ELSE t
    BY DEF Unregister
  <2> QED
    BY <1>1, <1>2, <2>1
<1>4. ASSUME NEW p, NEW u \in Acknowledge(n, p)
      PROVE  /\ \E t \in mongers[n] : u.msg = t.msg
             /\ \/ u.chan = "acked" => u \in mongers[n]
                \/ p.src = u.to /\ u.msg.id < p.want[u.msg.origin]
  <2>1. PICK t \in mongers[n] :
          u = IF t.chan = "open" /\ t.to = p.src /\ t.msg.id < p.want[t.msg.origin]
                THEN [t EXCEPT !.chan = "acked"] ELSE t
    BY DEF Acknowledge
  <2> QED
    BY <1>1, <1>2, <2>1
<1> QED
  BY <1>3, <1>4

\* The message a goroutine mongers was mongered before, was mongered with some
\* peer, or has just been stored; and acknowledgements come from statuses.
LEMMA MongerStep ==
  ASSUME RumorerAssumption, TypeOK, [Next]_vars, NEW n \in Node, NEW u \in mongers'[n]
  PROVE  /\ \/ \E t \in mongers[n] : u.msg = t.msg
            \/ \E q \in Node : u.msg = mongeringWith[n][q] /\ u.msg # NoMsg
            \/ u.msg \in MsgID /\ u.msg.id \in messages'[n][u.msg.origin]
         /\ \/ u.chan = "acked" => u \in mongers[n]
            \/ \E p \in net : /\ p.type = "status" /\ p.src = u.to
                              /\ u.msg.id < p.want[u.msg.origin]
PROOF
<1> DEFINE Goal == /\ \/ \E t \in mongers[n] : u.msg = t.msg
                      \/ \E q \in Node : u.msg = mongeringWith[n][q] /\ u.msg # NoMsg
                      \/ u.msg \in MsgID /\ u.msg.id \in messages'[n][u.msg.origin]
                   /\ \/ u.chan = "acked" => u \in mongers[n]
                      \/ \E p \in net : /\ p.type = "status" /\ p.src = u.to
                                        /\ u.msg.id < p.want[u.msg.origin]
<1>1. CASE u \in mongers[n]
  BY <1>1
<1>2. \A k \in Node, m \in MsgID : \A sender :
        HandleRumor(k, m, sender) /\ u \notin mongers[n] => Goal
  <2> SUFFICES ASSUME NEW k \in Node, NEW m \in MsgID, NEW sender,
                      HandleRumor(k, m, sender), u \notin mongers[n]
               PROVE  Goal
    OBVIOUS
  <2>0. \/ UNCHANGED mongers
        \/ mongers' = [mongers EXCEPT ![k] = @ \cup {Picking(m, sender)}]
        \/ mongers' = [mongers EXCEPT ![k] = @]
    BY DEF HandleRumor
  <2>1. k = n /\ u = Picking(m, sender)
    BY <2>0 DEF TypeOK
  <2>2. m.id \in messages'[n][m.origin]
    <3>1. PICK next \in NextID : Accept(n, m, next)
      BY <2>1 DEF HandleRumor
    <3>2. m.origin \in Node
      BY DEF MsgID
    <3> QED
      BY <3>1, <3>2 DEF Accept, TypeOK
  <2> QED
    BY <2>1, <2>2 DEF Picking
<1>3. ASSUME NEW k \in Node, NEW i \in assigned[k], HandleOwn(k, i)
      PROVE  Goal
  <2>1. [origin |-> k, id |-> i] \in MsgID
    BY DEF TypeOK, MsgID
  <2> QED
    BY <1>1, <1>2, <1>3, <2>1 DEF HandleOwn
<1>4. ASSUME NEW k \in Node, NEW p \in net, NEW again \in BOOLEAN,
             NEW lost \in BOOLEAN, ReceiveRumor(k, p, again, lost)
      PROVE  Goal
  <2>1. p.msg \in MsgID
    BY <1>4 DEF ReceiveRumor, TypeOK, Packet, RumorPacket, StatusPacket
  <2> QED
    BY <1>1, <1>2, <1>4, <2>1 DEF ReceiveRumor
<1>5. ASSUME NEW k \in Node, NEW p \in net, NEW again \in BOOLEAN,
             NEW lost \in BOOLEAN, ReceiveStatus(k, p, again, lost)
      PROVE  Goal
  <2>1. p.src \in Node /\ p.type = "status"
    BY <1>5 DEF ReceiveStatus, TypeOK, Packet, RumorPacket, StatusPacket
  <2>2. \/ u \in mongers[n]
        \/ k = n /\ u \in Acknowledge(n, p)
        \/ k = n /\ u = Picking(mongeringWith[n][p.src], p.src)
                 /\ mongeringWith[n][p.src] # NoMsg
    BY <1>5 DEF ReceiveStatus, SendMissing, AskMissing, InSync, TypeOK
  <2>3. CASE k = n /\ u \in Acknowledge(n, p)
    BY <2>1, <2>3, GoroutinesKept
  <2>4. CASE /\ k = n /\ u = Picking(mongeringWith[n][p.src], p.src)
             /\ mongeringWith[n][p.src] # NoMsg
    BY <2>1, <2>4 DEF Picking
  <2> QED
    BY <1>1, <2>2, <2>3, <2>4
<1>6. ASSUME NEW k \in Node, NEW t \in mongers[k]
      PROVE  /\ \A to \in peers[k], lost \in BOOLEAN : MongerTo(k, t, to, lost) => Goal
             /\ NobodyToMonger(k, t) => Goal
             /\ Acked(k, t) => Goal
             /\ TimedOut(k, t) => Goal
  <2> DEFINE rest == mongers[k] \ {t}
  <2>1. t \in Monger
    BY DEF TypeOK
  <2>2. ASSUME NEW to \in peers[k], NEW lost \in BOOLEAN, MongerTo(k, t, to, lost)
        PROVE  Goal
    <3>1. \/ u \in mongers[n]
          \/ k = n /\ u \in Unregister(rest, t.msg, to)
          \/ k = n /\ u = [t EXCEPT !.to = to, !.chan = "open"]
      BY <2>2 DEF MongerTo, TypeOK
    <3>2. LET v == [t EXCEPT !.to = to, !.chan = "open"]
          IN  v.msg = t.msg /\ v.chan = "open"
      BY <2>1 DEF Monger
    <3>3. CASE k = n /\ u = [t EXCEPT !.to = to, !.chan = "open"]
      BY <3>2, <3>3
    <3> QED
      BY <1>1, <3>1, <3>3, GoroutinesKept
  <2>3. ASSUME Acked(k, t)
        PROVE  Goal
    <3>1. \/ u \in mongers[n]
          \/ k = n /\ u \in Unregister(rest, t.msg, t.to)
      BY <2>3 DEF Acked, TypeOK
    <3> QED
      BY <1>1, <3>1, GoroutinesKept
  <2>4. ASSUME TimedOut(k, t)
        PROVE  Goal
    <3>1. \/ u \in mongers[n]
          \/ k = n /\ u \in Unregister(rest, t.msg, t.to)
          \/ k = n /\ u = Picking(t.msg, t.except)
      BY <2>4 DEF TimedOut, TypeOK
    <3>2. CASE k = n /\ u = Picking(t.msg, t.except)
      BY <3>2 DEF Picking
    <3> QED
      BY <1>1, <3>1, <3>2, GoroutinesKept
  <2>5. NobodyToMonger(k, t) => Goal
    BY <1>1 DEF NobodyToMonger, TypeOK
  <2> QED
    BY <2>2, <2>3, <2>4, <2>5
<1>7. \A k \in Node : \/ GiveID(k)
                      \/ \E to \in peers[k], lost \in BOOLEAN : AntiEntropy(k, to, lost)
                      \/ \E b \in batches[k] : DispatchLocal(k, b)
                      \/ \E to \in Node : AddPeer(k, to)
                      \/ UNCHANGED vars
                      => mongers' = mongers
  BY DEF vars, GiveID, AntiEntropy, DispatchLocal, AddPeer
<1>8. ASSUME NEW k \in Node, Step(k)
      PROVE  Goal
  <2>1. CASE \E i \in assigned[k] : HandleOwn(k, i)
    BY <1>3, <2>1
  <2>2. CASE \E p \in net, again, lost \in BOOLEAN : ReceiveRumor(k, p, again, lost)
    BY <1>4, <2>2
  <2>3. CASE \E p \in net, again, lost \in BOOLEAN : ReceiveStatus(k, p, again, lost)
    BY <1>5, <2>3
  <2>4. CASE \E t \in mongers[k], to \in peers[k], lost \in BOOLEAN : MongerTo(k, t, to, lost)
    BY <1>6, <2>4
  <2>5. CASE \E t \in mongers[k] : NobodyToMonger(k, t) \/ Acked(k, t) \/ TimedOut(k, t)
    BY <1>6, <2>5
  <2>6. CASE mongers' = mongers
    BY <1>1, <2>6
  <2> QED
    BY <1>7, <1>8, <2>1, <2>2, <2>3, <2>4, <2>5, <2>6, Zenon DEF Step
<1>9. CASE UNCHANGED vars
  BY <1>1, <1>9 DEF vars
<1> QED
  BY <1>8, <1>9, Zenon DEF Next
-----------------------------------------------------------------------------
(***************************************************************************)
(* The vector clock is exact, for every interleaving of the handlers and   *)
(* whatever UDP does: State.Update keeps NextID at the first gap.          *)
(***************************************************************************)
LEMMA StoreExactInit == RumorerAssumption /\ Init => StoreExact
PROOF
  BY DEF RumorerAssumption, Init, StoreExact, LoopStops

\* State.Update leaves NextID at the first gap; nothing else touches the store.
LEMMA StoreExactStep ==
  ASSUME RumorerAssumption, TypeOK, StoreExact, [Next]_vars
  PROVE  StoreExact'
PROOF
<1>1. CASE UNCHANGED <<state, messages>>
  BY <1>1 DEF StoreExact
<1>2. ASSUME NEW n \in Node, NEW m \in MsgID, NEW next \in NextID, Accept(n, m, next)
      PROVE  StoreExact'
  <2> SUFFICES ASSUME NEW k \in Node, NEW o \in Node
               PROVE  LoopStops(messages'[k][o], 1, state'[k][o])
    BY DEF StoreExact
  <2>1. m.origin \in Node /\ m.id \in ID
    BY DEF MsgID
  <2>2. LoopStops(messages[k][o], 1, state[k][o])
    BY DEF StoreExact
  <2>3. CASE k = n /\ o = m.origin
    <3>1. state'[k][o] = next /\ messages'[k][o] = messages[k][o] \cup {m.id}
      BY <1>2, <2>1, <2>3 DEF Accept, TypeOK
    <3>2. LoopStops(messages[k][o] \cup {m.id}, state[k][o], next)
      BY <1>2, <2>3 DEF Accept
    <3>3. state[k][o] \in Nat /\ next \in Nat
      BY DEF TypeOK, NextID, RumorerAssumption
    <3> QED
      BY <2>2, <3>1, <3>2, <3>3 DEF LoopStops
  <2>4. CASE ~(k = n /\ o = m.origin)
    <3>1. state'[k][o] = state[k][o] /\ messages'[k][o] = messages[k][o]
      BY <1>2, <2>1, <2>4 DEF Accept, TypeOK
    <3> QED
      BY <2>2, <3>1
  <2> QED
    BY <2>3, <2>4
<1> QED
  BY <1>1, <1>2, StoreStep DEF store, DispatchLocal

\* The vector clock covers exactly the gapless front of the store, so that
\* handleStatus always finds the message a peer wants: no log.Fatalf.
THEOREM StoreIsExact == Spec => []StoreExact
PROOF
<1>1. Init => StoreExact
  BY RumorerAssumption, StoreExactInit
<1>2. TypeOK /\ StoreExact /\ [Next]_vars => StoreExact'
  BY RumorerAssumption, StoreExactStep
<1> QED
  BY <1>1, <1>2, TypeCorrect, PTL DEF Spec

(***************************************************************************)
(* The vector clock never goes back, and the store never loses a message.  *)
(***************************************************************************)
LEMMA GrowStep ==
  ASSUME RumorerAssumption, TypeOK, [Next]_vars, NEW n \in Node, NEW o \in Node
  PROVE  state[n][o] <= state'[n][o] /\ messages[n][o] \subseteq messages'[n][o]
PROOF
<1>0. state[n][o] \in Int
  BY DEF TypeOK, NextID, RumorerAssumption
<1>1. CASE UNCHANGED <<state, messages>>
  BY <1>0, <1>1
<1>2. ASSUME NEW k \in Node, NEW m \in MsgID, NEW next \in NextID, Accept(k, m, next)
      PROVE  state[n][o] <= state'[n][o] /\ messages[n][o] \subseteq messages'[n][o]
  BY <1>0, <1>2 DEF Accept, LoopStops, TypeOK, MsgID
<1> QED
  BY <1>1, <1>2, StoreStep DEF store, DispatchLocal

OnlyGrows ==
  [][\A n, o \in Node : /\ state[n][o] <= state'[n][o]
                        /\ messages[n][o] \subseteq messages'[n][o]]_vars

\* No handler moves the vector clock back or drops a stored message.
THEOREM StoreOnlyGrows == Spec => OnlyGrows
PROOF
<1>1. TypeOK /\ [Next]_vars =>
        [\A n, o \in Node : /\ state[n][o] <= state'[n][o]
                            /\ messages[n][o] \subseteq messages'[n][o]]_vars
  BY RumorerAssumption, GrowStep
<1> QED
  BY <1>1, TypeCorrect, PTL DEF Spec, OnlyGrows
-----------------------------------------------------------------------------
(***************************************************************************)
(* The answer to a status.  The log.Fatalf of handleStatus, for a message  *)
(* that Compare found and the store does not have, is never reached.       *)
(***************************************************************************)
AnswersExist ==
  \A n \in Node, p \in net : p.type = "status" =>
    \A o \in IHave(n, p) : p.want[o] \in messages[n][o]

\* Whatever a node's state is when a status reaches it, in any order and at any
\* age, it has the message that it answers with.
THEOREM NeverFatal == Spec => []AnswersExist
PROOF
<1>1. TypeOK /\ StoreExact => AnswersExist
  <2> SUFFICES ASSUME TypeOK, StoreExact, NEW n \in Node, NEW p \in net, p.type = "status",
                      NEW o \in IHave(n, p)
               PROVE  p.want[o] \in messages[n][o]
    BY DEF AnswersExist
  <2>1. o \in Node /\ p.want[o] < state[n][o]
    <3>1. o \in Node /\ state[n][o] > p.want[o] /\ state[n][o] \in NextID
      BY DEF IHave, TypeOK
    <3>2. p.want[o] \in NextID
      BY <3>1 DEF TypeOK, Packet, RumorPacket, StatusPacket
    <3> QED
      BY <3>1, <3>2 DEF NextID, RumorerAssumption
  <2>2. p.want[o] \in NextID /\ state[n][o] \in NextID
    BY <2>1 DEF TypeOK, Packet, RumorPacket, StatusPacket
  <2>3. 1..(state[n][o] - 1) \subseteq messages[n][o]
    BY <2>1 DEF StoreExact, LoopStops
  <2> QED
    BY RumorerAssumption, <2>1, <2>2, <2>3 DEF NextID, RumorerAssumption
<1> QED
  BY <1>1, TypeCorrect, StoreIsExact, PTL DEF Spec

(***************************************************************************)
(* A node that receives the message which its vector clock wants moves the *)
(* clock on, whatever it holds for later and whatever else goes on: an     *)
(* answer to a status that is up to date is never in vain.                 *)
(***************************************************************************)
AnswersHelp ==
  [][\A n \in Node, p \in net, again, lost \in BOOLEAN :
       ReceiveRumor(n, p, again, lost) /\ p.msg.id = state[n][p.msg.origin]
         => state[n][p.msg.origin] < state'[n][p.msg.origin]]_vars

\* handleRumor and State.Update accept the message that closes a gap.
THEOREM WantedIsAccepted == Spec => AnswersHelp
PROOF
<1>1. ASSUME TypeOK, NEW n \in Node, NEW p \in net, NEW again \in BOOLEAN, NEW lost \in BOOLEAN,
             ReceiveRumor(n, p, again, lost), p.msg.id = state[n][p.msg.origin]
      PROVE  state[n][p.msg.origin] < state'[n][p.msg.origin]
  <2> DEFINE m == p.msg
  <2>1. m.origin \in Node /\ state[n][m.origin] \in Nat
    BY <1>1, RumorerAssumption
    DEF ReceiveRumor, TypeOK, Packet, RumorPacket, StatusPacket, MsgID, NextID, RumorerAssumption
  <2>2. PICK next \in NextID : Accept(n, m, next)
    BY <1>1, <2>1 DEF ReceiveRumor, HandleRumor, Ignore
  <2>3. state'[n][m.origin] = next
    BY <1>1, <2>1, <2>2 DEF Accept, TypeOK
  <2>4. state[n][m.origin] <= next /\ next # m.id
    BY <2>2 DEF Accept, LoopStops
  <2> QED
    BY <1>1, <2>1, <2>3, <2>4 DEF NextID
<1>2. TypeOK =>
        [\A n \in Node, p \in net, again, lost \in BOOLEAN :
           ReceiveRumor(n, p, again, lost) /\ p.msg.id = state[n][p.msg.origin]
             => state[n][p.msg.origin] < state'[n][p.msg.origin]]_vars
  BY <1>1
<1> QED
  BY <1>2, TypeCorrect, PTL DEF Spec, AnswersHelp
-----------------------------------------------------------------------------
(***************************************************************************)
(* No message precedes its origin: what is stored, mongered or sent, the   *)
(* origin has stored.                                                      *)
(***************************************************************************)
LEMMA OriginFirstInit == RumorerAssumption /\ Init => OriginFirst
PROOF
  BY DEF RumorerAssumption, Init, OriginFirst

\* What the origin stores, and gives an ID.
LEMMA OwnStoreStep ==
  ASSUME RumorerAssumption, TypeOK, StoreExact, OriginFirst, [Next]_vars, NEW o \in Node
  PROVE  /\ messages'[o][o] \cap assigned'[o] = {}
         /\ messages'[o][o] \cup assigned'[o] = 1..(id'[o] - 1)
PROOF
<1> DEFINE Goal == /\ messages'[o][o] \cap assigned'[o] = {}
                   /\ messages'[o][o] \cup assigned'[o] = 1..(id'[o] - 1)
<1>0. /\ messages[o][o] \cap assigned[o] = {}
      /\ messages[o][o] \cup assigned[o] = 1..(id[o] - 1)
      /\ id[o] \in Nat /\ id[o] >= 1
  BY DEF OriginFirst, TypeOK, NextID, RumorerAssumption
<1>1. CASE UNCHANGED <<id, assigned, messages>>
  BY <1>0, <1>1
<1>2. ASSUME NEW n \in Node, GiveID(n)
      PROVE  Goal
  <2>1. messages'[o][o] = messages[o][o]
    BY <1>2 DEF GiveID, store
  <2>2. CASE n = o
    <3>1. id'[o] = id[o] + 1 /\ assigned'[o] = assigned[o] \cup {id[o]}
      BY <1>2, <2>2 DEF GiveID, TypeOK
    <3>2. 1..((id[o] + 1) - 1) = (1..(id[o] - 1)) \cup {id[o]}
      BY <1>0
    <3>3. id[o] \notin 1..(id[o] - 1)
      BY <1>0
    <3> QED
      BY <1>0, <2>1, <3>1, <3>2, <3>3
  <2>3. CASE n # o
    <3>1. id'[o] = id[o] /\ assigned'[o] = assigned[o]
      BY <1>2, <2>3 DEF GiveID, TypeOK
    <3> QED
      BY <1>0, <2>1, <3>1
  <2> QED
    BY <2>2, <2>3
<1>3. ASSUME NEW n \in Node, NEW i \in assigned[n], HandleOwn(n, i)
      PROVE  Goal
  <2> DEFINE m == [origin |-> n, id |-> i]
  <2>1. id' = id /\ assigned' = [assigned EXCEPT ![n] = @ \ {i}]
    BY <1>3 DEF HandleOwn
  <2>2. \/ messages' = [messages EXCEPT ![n][n] = @ \cup {i}]
        \/ messages' = messages /\ i \in messages[n][n]
    <3>1. CASE \E next \in NextID : Accept(n, m, next)
      BY <3>1 DEF Accept
    <3>2. CASE Ignore(n, m)
      <4>1. i \in 1..(state[n][n] - 1)
        BY <3>2 DEF Ignore, TypeOK, ID, NextID, RumorerAssumption
      <4> QED
        BY <3>2, <4>1 DEF Ignore, StoreExact, LoopStops, store
    <3> QED
      BY <1>3, <3>1, <3>2 DEF HandleOwn, HandleRumor
  <2> QED
    BY <1>0, <2>1, <2>2 DEF TypeOK
<1>4. ASSUME NEW n \in Node, NEW p \in net, NEW again \in BOOLEAN,
             NEW lost \in BOOLEAN, ReceiveRumor(n, p, again, lost)
      PROVE  Goal
  <2>1. p.msg \in MsgID /\ Original(p.msg)
    BY <1>4 DEF ReceiveRumor, TypeOK, OriginFirst, Packet, RumorPacket, StatusPacket
  <2>2. id' = id /\ assigned' = assigned
    BY <1>4 DEF ReceiveRumor
  <2>3. \/ messages' = [messages EXCEPT ![n][p.msg.origin] = @ \cup {p.msg.id}]
        \/ messages' = messages
    BY <1>4 DEF ReceiveRumor, HandleRumor, Accept, Ignore, store
  <2>4. messages'[o][o] = messages[o][o]
    <3>1. p.msg.origin \in Node
      BY <2>1 DEF MsgID
    <3>2. CASE n = o /\ p.msg.origin = o
      <4>1. p.msg.id \in messages[o][o]
        BY <2>1, <3>2 DEF Original
      <4>2. messages'[o][o] \in {messages[o][o] \cup {p.msg.id}, messages[o][o]}
        BY <2>3, <3>2 DEF TypeOK
      <4> QED
        BY <4>1, <4>2
    <3> QED
      BY <2>3, <3>1, <3>2 DEF TypeOK
  <2> QED
    BY <1>0, <2>2, <2>4
<1>5. ASSUME NEW n \in Node
      PROVE  /\ \A p, again, lost : ReceiveStatus(n, p, again, lost) => Goal
             /\ \A t, to, lost : MongerTo(n, t, to, lost) => Goal
             /\ \A t : NobodyToMonger(n, t) \/ Acked(n, t) \/ TimedOut(n, t) => Goal
             /\ \A to, lost : AntiEntropy(n, to, lost) => Goal
             /\ \A b : DispatchLocal(n, b) => Goal
             /\ \A to : AddPeer(n, to) => Goal
  BY <1>1 DEF store, ReceiveStatus, MongerTo, NobodyToMonger, Acked, TimedOut,
              AntiEntropy, DispatchLocal, AddPeer
<1>6. CASE UNCHANGED vars
  BY <1>1, <1>6 DEF vars
<1> QED
  BY <1>2, <1>3, <1>4, <1>5, <1>6 DEF Next, Step

\* What is mongered with a peer was mongered with it, or is mongered.
LEMMA MongeringWithStep ==
  ASSUME RumorerAssumption, TypeOK, [Next]_vars, NEW n \in Node, NEW q \in Node
  PROVE  LET m == mongeringWith'[n][q]
         IN  m \in {NoMsg, mongeringWith[n][q]} \/ \E t \in mongers[n] : m = t.msg
PROOF
<1> DEFINE m == mongeringWith'[n][q]
           Goal == m \in {NoMsg, mongeringWith[n][q]} \/ \E t \in mongers[n] : m = t.msg
<1>1. CASE UNCHANGED mongeringWith
  BY <1>1
<1>2. ASSUME NEW k \in Node
      PROVE  /\ \A t \in mongers[k] : \A to, lost : MongerTo(k, t, to, lost) => Goal
             /\ \A t \in mongers[k] : TimedOut(k, t) => Goal
             /\ \A p, again, heads : InSync(k, p, again, heads) => Goal
  <2>1. ASSUME NEW to, NEW x, mongeringWith' = [mongeringWith EXCEPT ![k][to] = x]
        PROVE  m \in {x, mongeringWith[n][q]}
    BY <2>1 DEF TypeOK
  <2>2. ASSUME NEW t \in mongers[k], NEW to,
               mongeringWith' = [mongeringWith EXCEPT ![k][to] = t.msg]
        PROVE  Goal
    <3>1. CASE k = n
      BY <2>1, <2>2, <3>1
    <3>2. CASE k # n
      BY <2>2, <3>2 DEF TypeOK
    <3> QED
      BY <3>1, <3>2
  <2> QED
    BY <2>1, <2>2 DEF MongerTo, TimedOut, InSync
<1>3. ASSUME NEW k \in Node, NEW p, NEW again, NEW lost, ReceiveStatus(k, p, again, lost)
      PROVE  Goal
  BY <1>1, <1>2, <1>3 DEF ReceiveStatus, SendMissing, AskMissing
<1>4. ASSUME NEW k \in Node
      PROVE  /\ GiveID(k) => Goal
             /\ \A i : HandleOwn(k, i) => Goal
             /\ \A p, again, lost : ReceiveRumor(k, p, again, lost) => Goal
             /\ \A t : NobodyToMonger(k, t) \/ Acked(k, t) => Goal
             /\ \A to, lost : AntiEntropy(k, to, lost) => Goal
             /\ \A b : DispatchLocal(k, b) => Goal
             /\ \A to : AddPeer(k, to) => Goal
  BY <1>1 DEF GiveID, HandleOwn, ReceiveRumor, NobodyToMonger, Acked, AntiEntropy,
              DispatchLocal, AddPeer
<1>5. CASE UNCHANGED vars
  BY <1>1, <1>5 DEF vars
<1> QED
  BY <1>2, <1>3, <1>4, <1>5 DEF Next, Step

\* No step brings a message up that its origin has not stored.
LEMMA OriginFirstStep ==
  ASSUME RumorerAssumption, TypeOK, StoreExact, OriginFirst, [Next]_vars
  PROVE  OriginFirst'
PROOF
<1>1. \A n, o \in Node : messages[n][o] \subseteq messages'[n][o]
  BY GrowStep
<1>2. \A m \in MsgID : Original(m) => Original(m)'
  BY <1>1 DEF Original, MsgID
<1>3. \A n \in Node : \A t \in mongers[n] : t.msg \in MsgID
  BY DEF TypeOK, Monger
<1>4. ASSUME NEW n \in Node, NEW o \in Node
      PROVE  messages'[n][o] \subseteq messages'[o][o]
  <2>1. CASE messages'[n][o] = messages[n][o]
    BY <1>1, <2>1 DEF OriginFirst
  <2>2. CASE messages'[n][o] # messages[n][o]
    <3>1. PICK k \in Node, m \in MsgID, next \in NextID :
            Accept(k, m, next) /\ Incoming(k, m)
      BY <2>2, StoreStep DEF store, DispatchLocal
    <3>2. k = n /\ m.origin = o /\ messages'[n][o] = messages[n][o] \cup {m.id}
      BY <2>2, <3>1 DEF Accept, TypeOK, MsgID
    <3>3. n = o \/ Original(m)
      BY <3>1, <3>2 DEF Incoming, OriginFirst
    <3>4. n = o \/ m.id \in messages'[o][o]
      BY <1>1, <3>2, <3>3 DEF Original
    <3>5. messages[n][o] \subseteq messages[o][o]
      BY DEF OriginFirst
    <3> QED
      BY <1>1, <3>2, <3>4, <3>5
  <2> QED
    BY <2>1, <2>2
<1>5. ASSUME NEW n \in Node, NEW u \in mongers'[n]
      PROVE  Original(u.msg)'
  <2>1. CASE \E t \in mongers[n] : u.msg = t.msg
    BY <1>2, <1>3, <2>1 DEF OriginFirst
  <2>2. CASE \E q \in Node : u.msg = mongeringWith[n][q] /\ u.msg # NoMsg
    BY <1>2, <2>2 DEF OriginFirst, TypeOK
  <2>3. CASE u.msg \in MsgID /\ u.msg.id \in messages'[n][u.msg.origin]
    BY <1>4, <2>3 DEF Original, MsgID
  <2> QED
    BY <2>1, <2>2, <2>3, MongerStep
<1>6. ASSUME NEW n \in Node, NEW q \in Node, mongeringWith'[n][q] # NoMsg
      PROVE  Original(mongeringWith[n][q])'
  <2>1. CASE mongeringWith'[n][q] = mongeringWith[n][q]
    BY <1>2, <1>6, <2>1 DEF OriginFirst, TypeOK
  <2>2. CASE \E t \in mongers[n] : mongeringWith'[n][q] = t.msg
    BY <1>2, <1>3, <2>2 DEF OriginFirst
  <2> QED
    BY <1>6, <2>1, <2>2, MongeringWithStep
<1>7. ASSUME NEW p \in net', p.type = "rumor"
      PROVE  Original(p.msg)'
  <2>1. CASE p \in net
    <3>1. p.msg \in MsgID
      BY <1>7, <2>1 DEF TypeOK, Packet, RumorPacket, StatusPacket
    <3> QED
      BY <1>2, <1>7, <2>1, <3>1 DEF OriginFirst
  <2>2. CASE p \notin net
    <3>1. /\ p.src \in Node /\ p.msg \in MsgID
          /\ \/ p.msg.id \in messages[p.src][p.msg.origin]
             \/ \E t \in mongers[p.src] : t.msg = p.msg
      BY <1>7, <2>2, NetStep
    <3>2. Original(p.msg)
      BY <3>1 DEF OriginFirst, Original, MsgID
    <3> QED
      BY <1>2, <3>1, <3>2
  <2> QED
    BY <2>1, <2>2
<1> QED
  BY <1>4, <1>5, <1>6, <1>7, OwnStoreStep DEF OriginFirst

\* No rumorer stores, mongers or sends a message its origin has not stored, and
\* an origin gives every ID once.
THEOREM OriginIsFirst == Spec => []OriginFirst
PROOF
<1>1. Init => OriginFirst
  BY RumorerAssumption, OriginFirstInit
<1>2. TypeOK /\ StoreExact /\ OriginFirst /\ [Next]_vars => OriginFirst'
  BY RumorerAssumption, OriginFirstStep
<1> QED
  BY <1>1, <1>2, TypeCorrect, StoreIsExact, PTL DEF Spec
-----------------------------------------------------------------------------
(***************************************************************************)
(* A status, however late or often it arrives, never promises more than    *)
(* its sender has; so a goroutine that was acknowledged is right to end.   *)
(***************************************************************************)
LEMMA StatusTrueStep ==
  ASSUME RumorerAssumption, TypeOK, StoreExact, StatusTrue, [Next]_vars
  PROVE  StatusTrue'
PROOF
<1> SUFFICES ASSUME NEW p \in net', p.type = "status", NEW o \in Node
             PROVE  p.want[o] <= state'[p.src][o]
  BY DEF StatusTrue
<1>1. CASE p \in net
  <2>1. p.src \in Node /\ p.want[o] \in NextID
    BY <1>1 DEF TypeOK, Packet, RumorPacket, StatusPacket
  <2>2. state[p.src][o] \in NextID /\ state'[p.src][o] \in NextID
    BY <2>1, TypeStep DEF TypeOK
  <2>3. p.want[o] <= state[p.src][o] /\ state[p.src][o] <= state'[p.src][o]
    BY <1>1, <2>1, GrowStep DEF StatusTrue
  <2> QED
    BY <2>1, <2>2, <2>3 DEF NextID, RumorerAssumption
<1>2. CASE p \notin net
  <2>1. p.src \in Node /\ p.want = state'[p.src]
    BY <1>2, NetStep
  <2>2. state'[p.src][o] \in NextID
    BY <2>1, TypeStep DEF TypeOK
  <2> QED
    BY <2>1, <2>2 DEF NextID, RumorerAssumption
<1> QED
  BY <1>1, <1>2

\* The status packets in the network, however old, want at most what their
\* senders want now.
THEOREM StatusesAreTrue == Spec => []StatusTrue
PROOF
<1>1. Init => StatusTrue
  BY DEF Init, StatusTrue
<1>2. TypeOK /\ StoreExact /\ StatusTrue /\ [Next]_vars => StatusTrue'
  BY RumorerAssumption, StatusTrueStep
<1> QED
  BY <1>1, <1>2, TypeCorrect, StoreIsExact, PTL DEF Spec

\* A goroutine is acknowledged by a status that covers its message, for good.
LEMMA AckSoundStep ==
  ASSUME RumorerAssumption, TypeOK, StatusTrue, AckSound, [Next]_vars
  PROVE  AckSound'
PROOF
<1> SUFFICES ASSUME NEW n \in Node, NEW u \in mongers'[n], u.chan = "acked"
             PROVE  u.to \in Node /\ u.msg.id < state'[u.to][u.msg.origin]
  BY DEF AckSound
<1>1. u.msg.id \in ID /\ u.msg.origin \in Node
  BY TypeStep DEF TypeOK, Monger, MsgID
<1>2. ASSUME u.to \in Node, u.msg.id < state[u.to][u.msg.origin]
      PROVE  u.to \in Node /\ u.msg.id < state'[u.to][u.msg.origin]
  <2>1. /\ state[u.to][u.msg.origin] \in NextID
        /\ state'[u.to][u.msg.origin] \in NextID
    BY <1>1, <1>2, TypeStep DEF TypeOK
  <2>2. state[u.to][u.msg.origin] <= state'[u.to][u.msg.origin]
    BY <1>1, <1>2, GrowStep
  <2> QED
    BY <1>1, <1>2, <2>1, <2>2 DEF NextID, ID, RumorerAssumption
<1>3. CASE u \in mongers[n]
  BY <1>2, <1>3 DEF AckSound
<1>4. CASE u \notin mongers[n]
  <2>1. PICK p \in net : /\ p.type = "status" /\ p.src = u.to
                         /\ u.msg.id < p.want[u.msg.origin]
    BY <1>4, MongerStep
  <2>2. u.to \in Node /\ p.want[u.msg.origin] \in NextID
    BY <1>1, <2>1 DEF TypeOK, Packet, RumorPacket, StatusPacket
  <2>3. p.want[u.msg.origin] <= state[u.to][u.msg.origin]
    BY <1>1, <2>1 DEF StatusTrue
  <2>4. state[u.to][u.msg.origin] \in NextID
    BY <1>1, <2>2 DEF TypeOK
  <2>5. u.msg.id < state[u.to][u.msg.origin]
    BY <1>1, <2>1, <2>2, <2>3, <2>4 DEF NextID, ID, RumorerAssumption
  <2> QED
    BY <1>2, <2>2, <2>5
<1> QED
  BY <1>3, <1>4

\* handleStatus acknowledges a rumor only when its peer has accepted it.
THEOREM AcksAreSound == Spec => []AckSound
PROOF
<1>1. Init => AckSound
  BY DEF Init, AckSound
<1>2. TypeOK /\ StatusTrue /\ AckSound /\ [Next]_vars => AckSound'
  BY RumorerAssumption, AckSoundStep
<1> QED
  BY <1>1, <1>2, TypeCorrect, StatusesAreTrue, PTL DEF Spec
-----------------------------------------------------------------------------
(***************************************************************************)
(* Each message the vector clock covers is handed to the application once. *)
(***************************************************************************)
HandedOnceAt(n) ==
  /\ \A b, c \in batches[n] : b # c => BatchMsgs(b) \cap BatchMsgs(c) = {}
  /\ \A b \in batches[n] : BatchMsgs(b) \cap delivered[n] = {}
  /\ \A m \in MsgID : m.id < state[n][m.origin] <=>
       m \in delivered[n] \/ \E b \in batches[n] : m \in BatchMsgs(b)

\* A new batch takes up where the messages handed over so far end.
LEMMA NewBatchStep ==
  ASSUME RumorerAssumption, TypeOK, NEW n \in Node, HandedOnceAt(n),
         NEW m \in MsgID, NEW next \in NextID, Accept(n, m, next), UNCHANGED delivered
  PROVE  HandedOnceAt(n)'
PROOF
<1> DEFINE o == m.origin
           new == [origin |-> o, lo |-> state[n][o], hi |-> next - 1]
<1>1. o \in Node /\ state[n][o] \in NextID
  BY DEF MsgID, TypeOK
<1>2. state[n][o] <= next
  BY DEF Accept, LoopStops
<1>3. /\ batches'[n] = batches[n] \cup {b \in {new} : b.lo <= b.hi}
      /\ state'[n] = [state[n] EXCEPT ![o] = next]
  BY <1>1 DEF Accept, TypeOK
<1>4. CASE next = state[n][o]
  <2>1. batches'[n] = batches[n]
    BY <1>1, <1>3, <1>4 DEF NextID, RumorerAssumption
  <2>2. state'[n] = state[n]
    BY <1>1, <1>3, <1>4 DEF TypeOK
  <2> QED
    BY <2>1, <2>2 DEF HandedOnceAt, BatchMsgs
<1>5. CASE next # state[n][o]
  <2>1. state[n][o] < next
    BY <1>1, <1>2, <1>5 DEF NextID, RumorerAssumption
  <2>2. batches'[n] = batches[n] \cup {new}
    BY <1>1, <1>3, <2>1 DEF NextID, RumorerAssumption
  <2>3. \A x \in MsgID : x \in BatchMsgs(new) <=> x.origin = o /\ x.id \in state[n][o]..(next - 1)
    BY DEF BatchMsgs
  <2>4. \A x \in BatchMsgs(new) : ~(x.id < state[n][x.origin])
    BY <1>1, <2>3 DEF BatchMsgs, NextID, MsgID, ID, RumorerAssumption
  <2>5. ASSUME NEW x \in MsgID
        PROVE  x.id < state'[n][x.origin] <=> x.id < state[n][x.origin] \/ x \in BatchMsgs(new)
    <3>1. x.origin \in Node /\ x.id \in ID
      BY DEF MsgID
    <3>2. CASE x.origin = o
      <4>1. state'[n][x.origin] = next
        BY <1>1, <1>3, <3>2 DEF TypeOK
      <4> QED
        BY <1>1, <2>1, <2>3, <3>1, <3>2, <4>1 DEF NextID, ID, RumorerAssumption
    <3>3. CASE x.origin # o
      <4>1. state'[n][x.origin] = state[n][x.origin]
        BY <1>3, <3>1, <3>3 DEF TypeOK
      <4> QED
        BY <2>3, <3>3, <4>1
    <3> QED
      BY <3>2, <3>3
  <2>6. BatchMsgs(new) \subseteq MsgID
    BY DEF BatchMsgs
  <2>7. \A x \in BatchMsgs(new) : x \notin delivered[n] /\ \A b \in batches[n] : x \notin BatchMsgs(b)
    BY <2>4, <2>6 DEF HandedOnceAt
  <2> QED
    BY <2>2, <2>5, <2>7, ZenonT(60) DEF HandedOnceAt, BatchMsgs
<1> QED
  BY <1>4, <1>5

\* Handing over the first message of a batch moves it out of the batch.
LEMMA DispatchStep ==
  ASSUME RumorerAssumption, TypeOK, NEW n \in Node, HandedOnceAt(n),
         NEW a \in batches[n], DispatchLocal(n, a)
  PROVE  HandedOnceAt(n)'
PROOF
<1> DEFINE m == [origin |-> a.origin, id |-> a.lo]
           c == [a EXCEPT !.lo = a.lo + 1]
<1>1. a \in Batch
  BY DEF TypeOK
<1>2. /\ batches'[n] = (batches[n] \ {a}) \cup {b \in {c} : a.lo < a.hi}
      /\ delivered'[n] = delivered[n] \cup {m}
      /\ state' = state
  BY DEF DispatchLocal, TypeOK
<1>3. m \in BatchMsgs(a)
  BY <1>1 DEF BatchMsgs, Batch, MsgID, ID, RumorerAssumption
<1>4. c.origin = a.origin /\ c.lo = a.lo + 1 /\ c.hi = a.hi
  BY <1>1 DEF Batch
<1>5. \A x \in MsgID : x = m <=> x.origin = a.origin /\ x.id = a.lo
  BY DEF MsgID
<1>6. \A x \in MsgID : x \in BatchMsgs(a) <=> x = m \/ x \in BatchMsgs(c)
  BY <1>1, <1>4, <1>5 DEF BatchMsgs, Batch, MsgID, ID
<1>7. m \notin BatchMsgs(c)
  BY <1>1, <1>4 DEF BatchMsgs, Batch, ID
<1>8. ~(a.lo < a.hi) => BatchMsgs(c) = {}
  BY <1>1, <1>4 DEF BatchMsgs, Batch, ID, MsgID
<1>9. BatchMsgs(c) \subseteq BatchMsgs(a) /\ \A b : BatchMsgs(b) \subseteq MsgID
  BY <1>6 DEF BatchMsgs
<1>10. /\ \A b \in batches[n] \ {a} : BatchMsgs(b) \cap BatchMsgs(a) = {}
       /\ BatchMsgs(a) \cap delivered[n] = {}
  BY DEF HandedOnceAt
<1>11. \A b, d \in batches'[n] : b # d => BatchMsgs(b) \cap BatchMsgs(d) = {}
  <2>1. \A b, d \in batches[n] : b # d => BatchMsgs(b) \cap BatchMsgs(d) = {}
    BY DEF HandedOnceAt
  <2> HIDE DEF c, m
  <2> QED
    BY <1>2, <1>9, <1>10, <2>1
<1>12. \A b \in batches'[n] : BatchMsgs(b) \cap delivered'[n] = {}
  <2>1. \A b \in batches[n] : BatchMsgs(b) \cap delivered[n] = {}
    BY DEF HandedOnceAt
  <2> HIDE DEF c, m
  <2> QED
    BY <1>2, <1>3, <1>7, <1>9, <1>10, <2>1
<1>13. ASSUME NEW x \in MsgID
       PROVE  x.id < state'[n][x.origin] <=>
                x \in delivered'[n] \/ \E b \in batches'[n] : x \in BatchMsgs(b)
  <2>1. x.id < state[n][x.origin] <=>
          x \in delivered[n] \/ \E b \in batches[n] : x \in BatchMsgs(b)
    BY DEF HandedOnceAt
  <2> HIDE DEF c, m
  <2> QED
    BY <1>2, <1>3, <1>6, <1>8, <2>1
<1> QED
  BY <1>11, <1>12, <1>13 DEF HandedOnceAt, BatchMsgs

\* Every step hands over or batches only what was neither before.
LEMMA HandedOnceStep ==
  ASSUME RumorerAssumption, TypeOK, HandedOnce, [Next]_vars
  PROVE  HandedOnce'
PROOF
<1> SUFFICES ASSUME NEW n \in Node
             PROVE  HandedOnceAt(n)'
  BY DEF HandedOnce, HandedOnceAt, BatchMsgs
<1>1. HandedOnceAt(n)
  BY DEF HandedOnce, HandedOnceAt
<1>2. ASSUME UNCHANGED <<batches[n], delivered[n], state[n]>>
      PROVE  HandedOnceAt(n)'
  BY <1>1, <1>2 DEF HandedOnceAt, BatchMsgs
<1>3. CASE UNCHANGED <<store, delivered>>
  BY <1>2, <1>3 DEF store
<1>4. ASSUME NEW k \in Node, NEW m \in MsgID, NEW next \in NextID,
             Accept(k, m, next), UNCHANGED delivered
      PROVE  HandedOnceAt(n)'
  <2>1. CASE k = n
    BY <1>1, <1>4, <2>1, NewBatchStep
  <2>2. CASE k # n
    <3>1. batches'[n] = batches[n] /\ state'[n] = state[n]
      BY <1>4, <2>2 DEF Accept, TypeOK
    <3> QED
      BY <1>2, <1>4, <3>1
  <2> QED
    BY <2>1, <2>2
<1>5. ASSUME NEW k \in Node, NEW a \in batches[k], DispatchLocal(k, a)
      PROVE  HandedOnceAt(n)'
  <2>1. CASE k = n
    BY <1>1, <1>5, <2>1, DispatchStep
  <2>2. CASE k # n
    <3>1. batches'[n] = batches[n] /\ delivered'[n] = delivered[n] /\ state'[n] = state[n]
      BY <1>5, <2>2 DEF DispatchLocal, TypeOK
    <3> QED
      BY <1>2, <3>1
  <2> QED
    BY <2>1, <2>2
<1> QED
  BY <1>3, <1>4, <1>5, StoreStep

\* Between State.Update and localOut no message is lost and none is handed
\* over twice.
THEOREM EachHandedOnce == Spec => []HandedOnce
PROOF
<1>1. RumorerAssumption /\ Init => HandedOnce
  BY DEF Init, HandedOnce, MsgID, ID, RumorerAssumption
<1>2. TypeOK /\ HandedOnce /\ [Next]_vars => HandedOnce'
  BY RumorerAssumption, HandedOnceStep
<1> QED
  BY <1>1, <1>2, RumorerAssumption, TypeCorrect, PTL DEF Spec
-----------------------------------------------------------------------------
(***************************************************************************)
(* The public rumorer implements a reliable broadcast: every step of it is *)
(* a new message, one delivery of a message that exists and was not        *)
(* delivered at that node before, or nothing at all.                       *)
(***************************************************************************)
LEMMA BroadcastStep ==
  ASSUME RumorerAssumption, TypeOK, StoreExact, OriginFirst, HandedOnce, [Next]_vars
  PROVE  [RB!Next]_(RB!vars)
PROOF
<1> DEFINE sent == {m \in MsgID : m.id < id[m.origin]}
<1>1. CASE UNCHANGED <<id, delivered>>
  BY <1>1 DEF RB!vars
<1>2. ASSUME NEW n \in Node, GiveID(n)
      PROVE  RB!Next
  <2> DEFINE m == [origin |-> n, id |-> id[n]]
  <2>1. id[n] \in ID
    BY <1>2 DEF GiveID, TypeOK, NextID, ID, RumorerAssumption
  <2>2. m \in MsgID /\ m \notin sent
    BY <2>1 DEF MsgID, ID
  <2>3. id' = [id EXCEPT ![n] = id[n] + 1] /\ delivered' = delivered
    BY <1>2 DEF GiveID
  <2>4. ASSUME NEW x \in MsgID
        PROVE  x.id < id'[x.origin] <=> x.id < id[x.origin] \/ x = m
    <3>1. x.origin \in Node /\ x.id \in ID /\ id[x.origin] \in NextID
      BY DEF MsgID, TypeOK
    <3>2. CASE x.origin = n
      <4>1. id'[x.origin] = id[n] + 1
        BY <2>3, <3>2 DEF TypeOK
      <4>2. x = m <=> x.id = id[n]
        BY <3>2 DEF MsgID
      <4> QED
        BY <2>1, <3>1, <3>2, <4>1, <4>2 DEF ID, NextID, RumorerAssumption
    <3>3. CASE x.origin # n
      <4>1. id'[x.origin] = id[x.origin] /\ x # m
        BY <2>3, <3>1, <3>3 DEF TypeOK
      <4> QED
        BY <4>1
    <3> QED
      BY <3>2, <3>3
  <2>5. sent' = sent \cup {m}
    BY <2>2, <2>4
  <2> QED
    BY <2>2, <2>3, <2>5 DEF RB!Next, RB!Broadcast
<1>3. ASSUME NEW n \in Node, NEW a \in batches[n], DispatchLocal(n, a)
      PROVE  RB!Next
  <2> DEFINE m == [origin |-> a.origin, id |-> a.lo]
  <2>1. a \in Batch
    BY DEF TypeOK
  <2>2. m \in BatchMsgs(a) /\ m \in MsgID
    BY <2>1 DEF BatchMsgs, Batch, MsgID, ID, RumorerAssumption
  <2>3. m \notin delivered[n] /\ m.id < state[n][m.origin]
    BY <2>2 DEF HandedOnce
  <2>4. m.id < id[m.origin]
    <3>1. m.origin \in Node /\ m.id \in ID
      BY <2>2 DEF MsgID
    <3>2. state[n][m.origin] \in NextID
      BY <3>1 DEF TypeOK
    <3>3. m.id \in messages[n][m.origin]
      BY <2>3, <3>1, <3>2 DEF StoreExact, LoopStops, NextID, ID, RumorerAssumption
    <3>4. m.id \in 1..(id[m.origin] - 1)
      BY <3>1, <3>3 DEF OriginFirst
    <3>5. id[m.origin] \in NextID
      BY <3>1 DEF TypeOK
    <3> QED
      BY <3>4, <3>5 DEF NextID, RumorerAssumption
  <2>5. delivered' = [delivered EXCEPT ![n] = @ \cup {m}] /\ id' = id
    BY <1>3 DEF DispatchLocal
  <2> QED
    BY <2>2, <2>3, <2>4, <2>5 DEF RB!Next, RB!Deliver
<1>4. ASSUME NEW n \in Node
      PROVE  /\ \A i : HandleOwn(n, i) => UNCHANGED <<id, delivered>>
             /\ \A p, again, lost : ReceiveRumor(n, p, again, lost) => UNCHANGED <<id, delivered>>
             /\ \A p, again, lost : ReceiveStatus(n, p, again, lost) => UNCHANGED <<id, delivered>>
             /\ \A t, to, lost : MongerTo(n, t, to, lost) => UNCHANGED <<id, delivered>>
             /\ \A t : NobodyToMonger(n, t) \/ Acked(n, t) \/ TimedOut(n, t)
                         => UNCHANGED <<id, delivered>>
             /\ \A to, lost : AntiEntropy(n, to, lost) => UNCHANGED <<id, delivered>>
             /\ \A to : AddPeer(n, to) => UNCHANGED <<id, delivered>>
  BY DEF HandleOwn, ReceiveRumor, ReceiveStatus, MongerTo, NobodyToMonger, Acked,
         TimedOut, AntiEntropy, AddPeer
<1>5. CASE UNCHANGED vars
  BY <1>1, <1>5 DEF vars
<1> QED
  BY <1>1, <1>2, <1>3, <1>4, <1>5 DEF Next, Step

\* The public rumorer implements ReliableBroadcast.
THEOREM ImplementsBroadcast == Spec => Broadcasts
PROOF
<1>1. RumorerAssumption /\ Init => RB!Init
  BY DEF Init, RB!Init, MsgID, ID, RumorerAssumption
<1>2. TypeOK /\ StoreExact /\ OriginFirst /\ HandedOnce /\ [Next]_vars
        => [RB!Next]_(RB!vars)
  BY RumorerAssumption, BroadcastStep
<1> QED
  BY <1>1, <1>2, RumorerAssumption, TypeCorrect, StoreIsExact, OriginIsFirst,
     EachHandedOnce, PTL DEF Spec, Broadcasts, RB!Spec
=============================================================================
