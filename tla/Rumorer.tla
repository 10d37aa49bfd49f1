------------------------------- MODULE Rumorer -------------------------------
(***************************************************************************)
(* The public rumorer (project/rumorer) of every node of a network: the    *)
(* message store with its vector clock (state.go), the handlers of rumor   *)
(* and status packets, mongering with its acknowledgement channels, and    *)
(* anti-entropy (rumorer.go), over UDP, which loses, duplicates and        *)
(* reorders packets.                                                       *)
(*                                                                         *)
(* A mongerable message (a rumor, a transaction or a block) is its origin  *)
(* and its ID: the rumorer never looks at anything else.  A node is its    *)
(* name and its address.  An origin without an entry in the vector clock   *)
(* counts as NextID 1, as every comparison in the code makes it count.     *)
(*                                                                         *)
(* An action is a handler up to the point where its goroutine waits for    *)
(* the network, the timer or the application.  A handler that is preempted *)
(* between two locks and sends its packet later, with a newer vector       *)
(* clock, is the handler whose packet is lost followed by anti-entropy.    *)
(* Goroutines of a node that are in the same state count as one.           *)
(***************************************************************************)
EXTENDS Integers, FiniteSets

CONSTANTS
  Node,         \* the nodes
  Clients,      \* the nodes whose users create messages
  KnownPeers,   \* KnownPeers[n]: the -peers flag of n
  WebPeers,     \* WebPeers[n]: the peers the user of n may add in the web page
  NoAddr,       \* UDPAddr{}, the address of what the node itself creates
  MaxMessages,  \* bound: how many messages a node creates
  MaxMongers,   \* bound: how many goroutines of a node a coin flip may add to
  MaxInFlight   \* bound: how many packets UDP holds, it drops the rest

ASSUME RumorerAssumption ==
  /\ Clients \subseteq Node
  /\ KnownPeers \in [Node -> SUBSET Node]
  /\ WebPeers \in [Node -> SUBSET Node]
  /\ NoAddr \notin Node
  /\ MaxMessages \in Nat
  /\ MaxMongers \in Nat
  /\ MaxInFlight \in Nat

VARIABLES
  id,            \* id[n]: the ID the next message of n gets (Rumorer.id)
  assigned,      \* assigned[n]: own messages with an ID, not yet in the store
  state,         \* state[n][o]: NextID of o in the vector clock of n
  messages,      \* messages[n][o]: the IDs of o's messages in the store of n
  batches,       \* batches[n]: what n's dispatch goroutines still hold
  delivered,     \* delivered[n]: what went through localOut of n
  peers,         \* peers[n]: the peer set
  mongers,       \* mongers[n]: the goroutines inside startMongering
  mongeringWith, \* mongeringWith[n][p]: the message n is mongering with p
  net            \* the packets UDP holds

vars == <<id, assigned, state, messages, batches, delivered,
          peers, mongers, mongeringWith, net>>

store == <<state, messages, batches>>
-----------------------------------------------------------------------------
ID == 1..MaxMessages
NextID == 1..(MaxMessages + 1)
MsgID == [origin : Node, id : ID]
NoMsg == [origin |-> NoAddr, id |-> 0]

RumorPacket == [type : {"rumor"}, src : Node, dst : Node, msg : MsgID]
StatusPacket == [type : {"status"}, src : Node, dst : Node,
                 want : [Node -> NextID]]
Packet == RumorPacket \cup StatusPacket

\* The messages lo..hi of origin, still to be sent to localOut by a goroutine.
Batch == {b \in [origin : Node, lo : ID, hi : ID] : b.lo <= b.hi}

\* A goroutine that mongers msg.  Its channel for the acknowledgement of peer
\* "to" is registered in ackChans ("open"), has been overwritten or deleted
\* there by another goroutine ("orphan"), or holds an acknowledgement
\* ("acked").  It is "picking" while it has no peer.
Monger == [msg : MsgID, except : Node \cup {NoAddr}, to : Node \cup {NoAddr},
           chan : {"picking", "open", "orphan", "acked"}]

TypeOK ==
  /\ id \in [Node -> NextID]
  /\ assigned \in [Node -> SUBSET ID]
  /\ state \in [Node -> [Node -> NextID]]
  /\ messages \in [Node -> [Node -> SUBSET ID]]
  /\ batches \in [Node -> SUBSET Batch]
  /\ delivered \in [Node -> SUBSET MsgID]
  /\ peers \in [Node -> SUBSET Node]
  /\ mongers \in [Node -> SUBSET Monger]
  /\ mongeringWith \in [Node -> [Node -> MsgID \cup {NoMsg}]]
  /\ net \in SUBSET Packet

Init ==
  /\ id = [n \in Node |-> 1]
  /\ assigned = [n \in Node |-> {}]
  /\ state = [n \in Node |-> [o \in Node |-> 1]]
  /\ messages = [n \in Node |-> [o \in Node |-> {}]]
  /\ batches = [n \in Node |-> {}]
  /\ delivered = [n \in Node |-> {}]
  /\ peers = KnownPeers
  /\ mongers = [n \in Node |-> {}]
  /\ mongeringWith = [n \in Node |-> [p \in Node |-> NoMsg]]
  /\ net = {}
-----------------------------------------------------------------------------
(***************************************************************************)
(* UDP.  Whatever is sent may be lost, and a received packet may arrive    *)
(* again.                                                                  *)
(***************************************************************************)
Send(held, packet, lost) ==
  /\ net' = IF lost THEN held ELSE held \cup {packet}
  /\ lost \/ Cardinality(net') <= MaxInFlight

After(p, again) == IF again THEN net ELSE net \ {p}

Rumor(src, dst, m) == [type |-> "rumor", src |-> src, dst |-> dst, msg |-> m]
\* (A variant of the next definition: it promises one message too many.)
StatusAhead(src, dst, want) ==
  [type |-> "status", src |-> src, dst |-> dst,
   want |-> [o \in Node |-> want[o] + 1]]

Status(src, dst, want) ==
  [type |-> "status", src |-> src, dst |-> dst, want |-> want]
-----------------------------------------------------------------------------
(***************************************************************************)
(* The store.                                                              *)
(***************************************************************************)

\* The loop of State.Update, entered with curr, leaves with next.
LoopStops(have, curr, next) ==
  /\ curr <= next
  /\ curr..(next - 1) \subseteq have
  /\ next \notin have

\* (Variants of the next definition: the clock jumps to the message, forwards
\* or backwards; the whole store of an origin is handed over again.)
AcceptAndJump(n, m, next) ==
  /\ next = m.id + 1
  /\ messages' = [messages EXCEPT ![n][m.origin] = @ \cup {m.id}]
  /\ state' = [state EXCEPT ![n][m.origin] = next]
  /\ UNCHANGED batches

AcceptFromStart(n, m, next) ==
  LET o == m.origin IN
  /\ state[n][o] <= m.id
  /\ LoopStops(messages[n][o] \cup {m.id}, 1, next)
  /\ messages' = [messages EXCEPT ![n][o] = @ \cup {m.id}]
  /\ state' = [state EXCEPT ![n][o] = next]
  /\ batches' = [batches EXCEPT ![n] =
       @ \cup {b \in {[origin |-> o, lo |-> 1, hi |-> next - 1]} : b.lo <= b.hi}]

\* State.Update accepts m, and next is the new NextID of its origin.
Accept(n, m, next) ==
  LET o == m.origin IN
  /\ state[n][o] <= m.id
  /\ LoopStops(messages[n][o] \cup {m.id}, state[n][o], next)
  /\ messages' = [messages EXCEPT ![n][o] = @ \cup {m.id}]
  /\ state' = [state EXCEPT ![n][o] = next]
  /\ batches' = [batches EXCEPT ![n] =
       @ \cup {b \in {[origin |-> o, lo |-> state[n][o], hi |-> next - 1]} :
                 b.lo <= b.hi}]

\* State.Update ignores m: the vector clock is past it.
Ignore(n, m) ==
  /\ m.id < state[n][m.origin]
  /\ UNCHANGED store

\* The entry of a goroutine into the loop of startMongering.
Picking(m, except) ==
  [msg |-> m, except |-> except, to |-> NoAddr, chan |-> "picking"]

\* handleRumor up to the loop of startMongering: a message that brought the
\* vector clock forward is mongered with anyone but its sender.
HandleRumor(n, m, sender) ==
  \/ \E next \in NextID :
       /\ Accept(n, m, next)
       /\ mongers' = [mongers EXCEPT ![n] =
            IF next > state[n][m.origin] THEN @ \cup {Picking(m, sender)} ELSE @]
  \/ /\ Ignore(n, m)
     /\ UNCHANGED mongers
-----------------------------------------------------------------------------
(***************************************************************************)
(* runPeer with what the node itself creates, which arrives with address   *)
(* "": it gets an ID under idMutex, and is stored later, so that two       *)
(* messages of one node can be stored in either order.                     *)
(***************************************************************************)
GiveSameID(n) ==    \* (a variant of GiveID)
  /\ n \in Clients
  /\ assigned' = [assigned EXCEPT ![n] = @ \cup {id[n]}]
  /\ UNCHANGED <<id, store, delivered, peers, mongers, mongeringWith, net>>

GiveID(n) ==
  /\ n \in Clients
  /\ id[n] <= MaxMessages
  /\ assigned' = [assigned EXCEPT ![n] = @ \cup {id[n]}]
  /\ id' = [id EXCEPT ![n] = @ + 1]
  /\ UNCHANGED <<store, delivered, peers, mongers, mongeringWith, net>>

HandleOwn(n, i) ==
  /\ i \in assigned[n]
  /\ assigned' = [assigned EXCEPT ![n] = @ \ {i}]
  /\ HandleRumor(n, [origin |-> n, id |-> i], NoAddr)
  /\ UNCHANGED <<id, delivered, peers, mongeringWith, net>>

(***************************************************************************)
(* runPeer with a rumor of a peer, which is always answered with a status. *)
(***************************************************************************)
ReceiveRumor(n, p, again, lost) ==
  /\ p.type = "rumor" /\ p.dst = n
  /\ peers' = [peers EXCEPT ![n] = @ \cup {p.src}]
  /\ HandleRumor(n, p.msg, p.src)
  /\ Send(After(p, again), Status(n, p.src, state'[n]), lost)
  /\ UNCHANGED <<id, assigned, delivered, mongeringWith>>

(***************************************************************************)
(* runPeer with a status: handleStatus acknowledges, compares and answers. *)
(***************************************************************************)
AcknowledgeEarly(n, p) ==    \* (a variant of Acknowledge)
  {IF t.chan = "open" /\ t.to = p.src /\ t.msg.id <= p.want[t.msg.origin]
     THEN [t EXCEPT !.chan = "acked"] ELSE t : t \in mongers[n]}

Acknowledge(n, p) ==
  {IF t.chan = "open" /\ t.to = p.src /\ t.msg.id < p.want[t.msg.origin]
     THEN [t EXCEPT !.chan = "acked"] ELSE t : t \in mongers[n]}

\* (A variant of IHave: it forgets the origins the sender does not know.)
IHaveOfKnown(n, p) == {o \in Node : state[n][o] > p.want[o] /\ p.want[o] > 1}

\* The origins of which n has a message the sender of p wants, and those of
\* which the sender has one that n wants.
IHave(n, p) == {o \in Node : state[n][o] > p.want[o]}
YouHave(n, p) == {o \in Node : state[n][o] < p.want[o]}

SendMissing(n, p, again, lost) ==
  /\ \E o \in IHave(n, p) :
       Send(After(p, again),
            Rumor(n, p.src, [origin |-> o, id |-> p.want[o]]), lost)
  /\ mongers' = [mongers EXCEPT ![n] = Acknowledge(n, p)]
  /\ UNCHANGED mongeringWith

AskMissing(n, p, again, lost) ==
  /\ IHave(n, p) = {} /\ YouHave(n, p) # {}
  /\ Send(After(p, again), Status(n, p.src, state[n]), lost)
  /\ mongers' = [mongers EXCEPT ![n] = Acknowledge(n, p)]
  /\ UNCHANGED mongeringWith

\* In sync: a node that was mongering with the sender flips a coin, and on
\* heads takes the message to someone else.
InSync(n, p, again, heads) ==
  /\ IHave(n, p) = {} /\ YouHave(n, p) = {}
  /\ net' = After(p, again)
  /\ mongeringWith' = [mongeringWith EXCEPT ![n][p.src] = NoMsg]
  /\ heads => /\ mongeringWith[n][p.src] # NoMsg
              /\ Cardinality(mongers[n]) < MaxMongers
  /\ mongers' = [mongers EXCEPT ![n] = Acknowledge(n, p) \cup
       {t \in {Picking(mongeringWith[n][p.src], p.src)} : heads}]

ReceiveStatus(n, p, again, lost) ==
  /\ p.type = "status" /\ p.dst = n
  /\ peers' = [peers EXCEPT ![n] = @ \cup {p.src}]
  /\ \/ SendMissing(n, p, again, lost)
     \/ AskMissing(n, p, again, lost)
     \/ \E heads \in BOOLEAN : InSync(n, p, again, heads)
  /\ UNCHANGED <<id, assigned, store, delivered>>
-----------------------------------------------------------------------------
(***************************************************************************)
(* startMongering and sendRumorWait.                                       *)
(***************************************************************************)

\* The goroutines in ts once the entry of ackChans for m and peer "to" is
\* overwritten or deleted: nobody will acknowledge a channel that was there.
Unregister(ts, m, to) ==
  {IF t.chan = "open" /\ t.msg = m /\ t.to = to
     THEN [t EXCEPT !.chan = "orphan"] ELSE t : t \in ts}

MongerTo(n, t, to, lost) ==
  /\ t.chan = "picking"
  /\ to \in peers[n] \ {t.except}
  /\ mongeringWith' = [mongeringWith EXCEPT ![n][to] = t.msg]
  /\ mongers' = [mongers EXCEPT ![n] = Unregister(@ \ {t}, t.msg, to) \cup
                   {[t EXCEPT !.to = to, !.chan = "open"]}]
  /\ Send(net, Rumor(n, to, t.msg), lost)
  /\ UNCHANGED <<id, assigned, store, delivered, peers>>

NobodyToMonger(n, t) ==
  /\ t.chan = "picking"
  /\ peers[n] \subseteq {t.except}
  /\ mongers' = [mongers EXCEPT ![n] = @ \ {t}]
  /\ UNCHANGED <<id, assigned, store, delivered, peers, mongeringWith, net>>

Acked(n, t) ==
  /\ t.chan = "acked"
  /\ mongers' = [mongers EXCEPT ![n] = Unregister(@ \ {t}, t.msg, t.to)]
  /\ UNCHANGED <<id, assigned, store, delivered, peers, mongeringWith, net>>

\* The timer may win the select of an acknowledged channel too.
TimedOut(n, t) ==
  /\ t.chan # "picking"
  /\ mongers' = [mongers EXCEPT ![n] =
       Unregister(@ \ {t}, t.msg, t.to) \cup {Picking(t.msg, t.except)}]
  /\ mongeringWith' = [mongeringWith EXCEPT ![n][t.to] = NoMsg]
  /\ UNCHANGED <<id, assigned, store, delivered, peers, net>>
-----------------------------------------------------------------------------
AntiEntropy(n, to, lost) ==
  /\ to \in peers[n]
  /\ Send(net, Status(n, to, state[n]), lost)
  /\ UNCHANGED <<id, assigned, store, delivered, peers, mongers, mongeringWith>>

DispatchForever(n, b) ==    \* (a variant of DispatchLocal)
  /\ delivered' = [delivered EXCEPT ![n] =
       @ \cup {[origin |-> b.origin, id |-> b.lo]}]
  /\ batches' = [batches EXCEPT ![n] = (@ \ {b}) \cup {[b EXCEPT !.lo = b.lo + 1]}]
  /\ UNCHANGED <<id, assigned, state, messages, peers, mongers, mongeringWith, net>>

\* A goroutine of handleRumor passes the next message of its batch on.
DispatchLocal(n, b) ==
  /\ delivered' = [delivered EXCEPT ![n] =
       @ \cup {[origin |-> b.origin, id |-> b.lo]}]
  /\ batches' = [batches EXCEPT ![n] = (@ \ {b}) \cup
       {c \in {[b EXCEPT !.lo = b.lo + 1]} : b.lo < b.hi}]
  /\ UNCHANGED <<id, assigned, state, messages, peers, mongers, mongeringWith, net>>

\* A user adds a peer in the web page.
AddPeer(n, to) ==
  /\ to \in WebPeers[n] \ peers[n]
  /\ peers' = [peers EXCEPT ![n] = @ \cup {to}]
  /\ UNCHANGED <<id, assigned, store, delivered, mongers, mongeringWith, net>>

Step(n) ==
  \/ GiveID(n)
  \/ \E i \in assigned[n] : HandleOwn(n, i)
  \/ \E p \in net, again, lost \in BOOLEAN : ReceiveRumor(n, p, again, lost)
  \/ \E p \in net, again, lost \in BOOLEAN : ReceiveStatus(n, p, again, lost)
  \/ \E t \in mongers[n], to \in peers[n], lost \in BOOLEAN : MongerTo(n, t, to, lost)
  \/ \E t \in mongers[n] : NobodyToMonger(n, t)
  \/ \E t \in mongers[n] : Acked(n, t)
  \/ \E t \in mongers[n] : TimedOut(n, t)
  \/ \E to \in peers[n], lost \in BOOLEAN : AntiEntropy(n, to, lost)
  \/ \E b \in batches[n] : DispatchLocal(n, b)
  \/ \E to \in Node : AddPeer(n, to)

Next == \E n \in Node : Step(n)

Spec == Init /\ [][Next]_vars
-----------------------------------------------------------------------------
(***************************************************************************)
(* What keeps the network connected and alive.  A peer that is sent the    *)
(* state again and again is reached at last; what it answers to packets of *)
(* one sender is not lost for ever; and goroutines that can run do.        *)
(***************************************************************************)
HearRumor(n, from) ==
  \E p \in net : p.src = from /\ ReceiveRumor(n, p, FALSE, FALSE)

HearStatus(n, from) ==
  \E p \in net : p.src = from /\ ReceiveStatus(n, p, FALSE, FALSE)

MayKnow(n) == KnownPeers[n] \cup WebPeers[n]
Neighbours == {l \in Node \X Node : l[1] \in MayKnow(l[2]) \/ l[2] \in MayKnow(l[1])}

Fairness ==
  /\ \A n \in Node :
       WF_vars(\/ \E i \in assigned[n] : HandleOwn(n, i)
               \/ \E b \in batches[n] : DispatchLocal(n, b))
  /\ \A l \in Neighbours :
       /\ SF_vars(AntiEntropy(l[1], l[2], FALSE))
       /\ SF_vars(HearRumor(l[1], l[2]))
       /\ SF_vars(HearStatus(l[1], l[2]))

FairSpec == Spec /\ Fairness
-----------------------------------------------------------------------------
(***************************************************************************)
(* The vector clock is exact: NextID is the first message missing from the *)
(* store.  So whatever a peer wants and NextID covers can be looked up:    *)
(* the log.Fatalf of handleStatus is never reached, however late the       *)
(* status and whatever arrived out of order.                               *)
(***************************************************************************)
StoreExact ==
  \A n, o \in Node : LoopStops(messages[n][o], 1, state[n][o])

(***************************************************************************)
(* Every message the vector clock covers is handed to the application of a *)
(* node once: either it went through localOut, or one dispatch goroutine   *)
(* still holds it.  Nothing else is handed over.                           *)
(***************************************************************************)
BatchMsgs(b) == {m \in MsgID : m.origin = b.origin /\ m.id \in b.lo..b.hi}

HandedOnce ==
  \A n \in Node :
    /\ \A b, c \in batches[n] : b # c => BatchMsgs(b) \cap BatchMsgs(c) = {}
    /\ \A b \in batches[n] : BatchMsgs(b) \cap delivered[n] = {}
    /\ \A m \in MsgID : m.id < state[n][m.origin] <=>
         m \in delivered[n] \/ \E b \in batches[n] : m \in BatchMsgs(b)

(***************************************************************************)
(* Only messages their origin gave an ID exist, and the origin is first to *)
(* store them: nothing is stored, mongered or sent, and so no clock in the *)
(* network is ahead of the origin's own, before the origin has stored it.  *)
(***************************************************************************)
Original(m) == m.id \in messages[m.origin][m.origin]

OriginFirst ==
  /\ \A o \in Node : /\ messages[o][o] \cap assigned[o] = {}
                     /\ messages[o][o] \cup assigned[o] = 1..(id[o] - 1)
  /\ \A n, o \in Node : messages[n][o] \subseteq messages[o][o]
  /\ \A n \in Node : \A t \in mongers[n] : Original(t.msg)
  /\ \A n, q \in Node : mongeringWith[n][q] # NoMsg => Original(mongeringWith[n][q])
  /\ \A p \in net : p.type = "rumor" => Original(p.msg)

(***************************************************************************)
(* A status never promises more than its sender has, however old it is:    *)
(* what it wants is a lower bound of the sender's clock.                   *)
(***************************************************************************)
StatusTrue ==
  \A p \in net : p.type = "status" =>
    \A o \in Node : p.want[o] <= state[p.src][o]

(***************************************************************************)
(* A goroutine that ends because of an acknowledgement is right to: the    *)
(* peer it mongered with has accepted the message.                         *)
(***************************************************************************)
AckSound ==
  \A n \in Node : \A t \in mongers[n] :
    t.chan = "acked" => t.to \in Node /\ t.msg.id < state[t.to][t.msg.origin]

(***************************************************************************)
(* The public rumorer is a reliable broadcast.                             *)
(***************************************************************************)
RB == INSTANCE ReliableBroadcast
        WITH Message <- MsgID, got <- delivered,
             sent <- {m \in MsgID : m.id < id[m.origin]}

Broadcasts == RB!Spec

(***************************************************************************)
(* Every message a node gave an ID reaches the application of every node.  *)
(***************************************************************************)
AllHear ==
  \A n \in Node, m \in MsgID :
    m.id < id[m.origin] ~> m \in delivered[n]
=============================================================================
