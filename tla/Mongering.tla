------------------------------ MODULE Mongering ------------------------------
(***************************************************************************)
(* Mongering inside one node (project/rumorer/rumorer.go, utils/peers.go), *)
(* lock by lock: the goroutines of runPeer that monger a message, wait for *)
(* its acknowledgement and try again, those that handle a status and       *)
(* acknowledge, and the three things they share, which are the peer set,   *)
(* the map ackChans with its RWMutex, and mongeringWith.                   *)
(*                                                                         *)
(* The module Rumorer has what they do to the network and the store of     *)
(* messages, with a handler as one step.  Here the other nodes send what   *)
(* they like, and the step is an access to shared state.                   *)
(*                                                                         *)
(* ackChansMutex is a Go RWMutex: a goroutine that called Lock keeps new   *)
(* readers out while it waits for those that are in.                       *)
(***************************************************************************)
EXTENDS Integers, FiniteSets

CONSTANTS
  Msg,       \* the messages that are mongered
  Peer,      \* the other nodes
  Known,     \* the peers the node starts with
  Mongerers, \* the addresses that messages come from
  Ackers,    \* the addresses that statuses come from
  NoAddr,    \* UDPAddr{}, the sender of what the node itself creates
  NoMsg,     \* no message
  AckCap,    \* the capacity of a channel for acknowledgements (64)
  MaxPackets,\* bound: how many packets runPeer reads
  MaxMongers \* bound: how many of their goroutines monger at a time

ASSUME MongeringAssumption ==
  /\ Known \subseteq Peer
  /\ Mongerers \subseteq Peer \cup {NoAddr}
  /\ Ackers \subseteq Peer
  /\ NoAddr \notin Peer
  /\ NoMsg \notin Msg
  /\ AckCap \in Nat \ {0}
  /\ MaxPackets \in Nat
  /\ MaxMongers \in Nat

\* runPeer starts one goroutine for each packet, in the order of the packets.
Goroutine == 1..MaxPackets
Nobody == 0

VARIABLES
  peers,         \* the peer set
  stored,        \* the messages that the store has accepted
  thread,        \* thread[g]: where goroutine g is, and its local variables
  ackChans,      \* ackChans[p][m]: whose channel waits for p to acknowledge m
  writer,        \* who called Lock on ackChansMutex and has not left it
  mongeringWith  \* mongeringWith[p]: the message the node is mongering with p

vars == <<peers, stored, thread, ackChans, writer, mongeringWith>>
-----------------------------------------------------------------------------
(***************************************************************************)
(* The variables of a goroutine: the address its packet came from, the     *)
(* message it mongers, randPeer, whether its select ended with an          *)
(* acknowledgement, how many entries its channel has, and the messages     *)
(* that its status acknowledges and that it has not looked up yet.         *)
(***************************************************************************)
Thread(pc) == [pc |-> pc, sender |-> NoAddr, msg |-> NoMsg, to |-> NoAddr,
               acked |-> FALSE, ackChan |-> 0, want |-> {}]
Idle == Thread("idle")
Gone == Thread("done")

At(g, pc) == thread[g].pc = pc
Becomes(g, t) == thread' = [thread EXCEPT ![g] = t]
Goes(g, pc) == thread' = [thread EXCEPT ![g].pc = pc]
Starts(g, t) == /\ \A h \in Goroutine : At(h, "idle") <=> h >= g
                /\ Becomes(g, t)

\* Who holds ackChansMutex for reading.
Readers == {g \in Goroutine : At(g, "ack")}

Init ==
  /\ peers = Known
  /\ stored = {}
  /\ thread = [g \in Goroutine |-> Idle]
  /\ ackChans = [p \in Peer |-> [m \in Msg |-> Nobody]]
  /\ writer = Nobody
  /\ mongeringWith = [p \in Peer |-> NoMsg]
-----------------------------------------------------------------------------
(***************************************************************************)
(* runPeer: an own message, or a rumor that is new to the store, is        *)
(* mongered; the sender of a packet becomes a peer first.                  *)
(***************************************************************************)
Mongers(p, m) == [Idle EXCEPT !.pc = "len", !.sender = p, !.msg = m]
MayMonger == Cardinality({g \in Goroutine : thread[g].msg # NoMsg}) < MaxMongers

ReceiveUnknown(g, p, m) ==    \* (a variant: the sender does not become a peer)
  /\ m \notin stored /\ MayMonger
  /\ stored' = stored \cup {m}
  /\ Starts(g, Mongers(p, m))
  /\ UNCHANGED <<peers, ackChans, writer, mongeringWith>>

ReceiveMessage(g, p, m) ==
  /\ m \notin stored /\ MayMonger
  /\ stored' = stored \cup {m}
  /\ peers' = peers \cup ({p} \ {NoAddr})
  /\ Starts(g, Mongers(p, m))
  /\ UNCHANGED <<ackChans, writer, mongeringWith>>

ReceiveStatus(g, p, acks) ==
  /\ peers' = peers \cup {p}
  /\ Starts(g, [Idle EXCEPT !.pc = "rlock", !.sender = p, !.want = acks])
  /\ UNCHANGED <<stored, ackChans, writer, mongeringWith>>

\* The web page adds a peer.
AddPeer(p) ==
  /\ p \notin peers
  /\ peers' = peers \cup {p}
  /\ UNCHANGED <<stored, thread, ackChans, writer, mongeringWith>>
-----------------------------------------------------------------------------
(***************************************************************************)
(* RandExcept, which looks at the set up to three times before it draws.   *)
(* Without a peer to draw, the goroutine does not monger and ends.         *)
(***************************************************************************)
Looking == <<peers, stored, ackChans, writer, mongeringWith>>

Len1(g) ==
  /\ At(g, "len")
  /\ Goes(g, IF Cardinality(peers) = 1 THEN "contains" ELSE "empty")
  /\ UNCHANGED Looking

Contains(g) ==
  /\ At(g, "contains")
  /\ IF thread[g].sender \in peers THEN Becomes(g, Gone) ELSE Goes(g, "empty")
  /\ UNCHANGED Looking

Len0(g) ==
  /\ At(g, "empty")
  /\ IF peers = {} THEN Becomes(g, Gone) ELSE Goes(g, "rand")
  /\ UNCHANGED Looking

\* Rand gives a peer; the excluded one makes the loop go on.
Rand(g, p) ==
  /\ At(g, "rand")
  /\ p \in peers
  /\ p # thread[g].sender
  /\ Becomes(g, [thread[g] EXCEPT !.pc = "register", !.to = p])
  /\ mongeringWith' = [mongeringWith EXCEPT ![p] = thread[g].msg]
  /\ UNCHANGED <<peers, stored, ackChans, writer>>
-----------------------------------------------------------------------------
(***************************************************************************)
(* sendRumorWait.  Lock first keeps other writers and new readers out, and *)
(* then waits for the readers to leave.                                    *)
(***************************************************************************)
CallLock(g) ==
  /\ writer = Nobody
  /\ \/ At(g, "register") /\ Goes(g, "registering")
     \/ At(g, "delete") /\ Goes(g, "deleting")
  /\ writer' = g
  /\ UNCHANGED <<peers, stored, ackChans, mongeringWith>>

SetAckChan(g, c) == ackChans' = [ackChans EXCEPT ![thread[g].to][thread[g].msg] = c]

Register(g) ==
  /\ At(g, "registering")
  /\ Readers = {}
  /\ SetAckChan(g, g)
  /\ writer' = Nobody
  /\ Becomes(g, [thread[g] EXCEPT !.pc = "send", !.ackChan = 0])
  /\ UNCHANGED <<peers, stored, mongeringWith>>

\* The rumor goes to the channel out, and the timer starts.
SendRumor(g) ==
  /\ At(g, "send")
  /\ Goes(g, "select")
  /\ UNCHANGED Looking

TimeOut(g) ==
  /\ At(g, "select")
  /\ Goes(g, "delete")
  /\ UNCHANGED Looking

Acknowledged(g) ==
  /\ At(g, "select")
  /\ thread[g].ackChan > 0
  /\ Becomes(g, [thread[g] EXCEPT !.pc = "delete", !.acked = TRUE, !.ackChan = @ - 1])
  /\ UNCHANGED Looking

\* (Variants of the next definition: it deletes only what was acknowledged;
\* it leaves without unlocking when it timed out.)
DeleteAcked(g) ==
  /\ At(g, "deleting")
  /\ Readers = {}
  /\ IF thread[g].acked THEN SetAckChan(g, Nobody) ELSE UNCHANGED ackChans
  /\ writer' = Nobody
  /\ IF thread[g].acked THEN Becomes(g, Gone) ELSE Goes(g, "again")
  /\ UNCHANGED <<peers, stored, mongeringWith>>

DeleteLocked(g) ==
  /\ At(g, "deleting")
  /\ Readers = {}
  /\ SetAckChan(g, Nobody)
  /\ writer' = IF thread[g].acked THEN Nobody ELSE writer
  /\ IF thread[g].acked THEN Becomes(g, Gone) ELSE Goes(g, "again")
  /\ UNCHANGED <<peers, stored, mongeringWith>>

\* The entry is deleted by its key, and may be another goroutine's.
Delete(g) ==
  /\ At(g, "deleting")
  /\ Readers = {}
  /\ SetAckChan(g, Nobody)
  /\ writer' = Nobody
  /\ IF thread[g].acked THEN Becomes(g, Gone) ELSE Goes(g, "again")
  /\ UNCHANGED <<peers, stored, mongeringWith>>

\* The loop of startMongering after a timeout.
TryAgain(g) ==
  /\ At(g, "again")
  /\ mongeringWith' = [mongeringWith EXCEPT ![thread[g].to] = NoMsg]
  /\ Becomes(g, Mongers(thread[g].sender, thread[g].msg))
  /\ UNCHANGED <<peers, stored, ackChans, writer>>
-----------------------------------------------------------------------------
(***************************************************************************)
(* handleStatus: it reads ackChans and sends on its channels with the lock *)
(* held for reading.                                                       *)
(***************************************************************************)
RLock(g) ==
  /\ At(g, "rlock")
  /\ writer = Nobody
  /\ Goes(g, "ack")
  /\ UNCHANGED Looking

AckChan(g, m) == ackChans[thread[g].sender][m]
Acknowledges(g) == {m \in thread[g].want : AckChan(g, m) # Nobody}

SendAckOver(g, m) ==    \* (a variant: the channel takes one more)
  LET c == AckChan(g, m) IN
  /\ At(g, "ack")
  /\ m \in Acknowledges(g)
  /\ thread[c].ackChan <= AckCap
  /\ thread' = [thread EXCEPT ![c].ackChan = @ + 1, ![g].want = @ \ {m}]
  /\ UNCHANGED Looking

\* It waits while the channel is full.
SendAck(g, m) ==
  LET c == AckChan(g, m) IN
  /\ At(g, "ack")
  /\ m \in Acknowledges(g)
  /\ thread[c].ackChan < AckCap
  /\ thread' = [thread EXCEPT ![c].ackChan = @ + 1, ![g].want = @ \ {m}]
  /\ UNCHANGED Looking

RUnlock(g) ==
  /\ At(g, "ack")
  /\ Acknowledges(g) = {}
  /\ Becomes(g, [thread[g] EXCEPT !.pc = "compare", !.want = {}])
  /\ UNCHANGED Looking

\* A status that leaves something to send; or one that is in sync, after which
\* a coin decides whether the message is mongered with somebody else.
Compare(g, inSync, heads) ==
  LET p == thread[g].sender IN
  /\ At(g, "compare")
  /\ heads => inSync /\ mongeringWith[p] # NoMsg /\ MayMonger
  /\ mongeringWith' = IF inSync THEN [mongeringWith EXCEPT ![p] = NoMsg] ELSE mongeringWith
  /\ Becomes(g, IF heads THEN Mongers(p, mongeringWith[p]) ELSE Gone)
  /\ UNCHANGED <<peers, stored, ackChans, writer>>
-----------------------------------------------------------------------------
\* What goroutine g does next, when it does not wait for ackChansMutex.
Proceed(g) ==
  \/ Len1(g) \/ Contains(g) \/ Len0(g)
  \/ \E p \in Peer : Rand(g, p)
  \/ Register(g) \/ SendRumor(g) \/ TimeOut(g) \/ Acknowledged(g) \/ Delete(g) \/ TryAgain(g)
  \/ \E m \in Msg : SendAck(g, m)
  \/ RUnlock(g)
  \/ \E inSync, heads \in BOOLEAN : Compare(g, inSync, heads)

Next ==
  \/ \E g \in Goroutine, m \in Msg, p \in Mongerers : ReceiveMessage(g, p, m)
  \/ \E g \in Goroutine, p \in Ackers, acks \in SUBSET Msg : ReceiveStatus(g, p, acks)
  \/ \E p \in Peer : AddPeer(p)
  \/ \E g \in Goroutine : CallLock(g) \/ RLock(g) \/ Proceed(g)

Spec == Init /\ [][Next]_vars

(***************************************************************************)
(* Go runs every goroutine that can run, the timer of sendRumorWait rings, *)
(* and an RWMutex lets a waiting writer in before new readers, and after a *)
(* writer those that waited.                                               *)
(***************************************************************************)
Fairness == \A g \in Goroutine : WF_vars(Proceed(g)) /\ SF_vars(CallLock(g) \/ RLock(g))

FairSpec == Spec /\ Fairness
-----------------------------------------------------------------------------
Threads ==
  [pc : {"idle", "len", "contains", "empty", "rand", "register", "registering", "send",
         "select", "delete", "deleting", "again", "rlock", "ack", "compare", "done"},
   sender : Peer \cup {NoAddr}, msg : Msg \cup {NoMsg}, to : Peer \cup {NoAddr},
   acked : BOOLEAN, ackChan : 0..AckCap, want : SUBSET Msg]

TypeOK ==
  /\ peers \subseteq Peer /\ stored \subseteq Msg
  /\ thread \in [Goroutine -> Threads]
  /\ ackChans \in [Peer -> [Msg -> Goroutine \cup {Nobody}]]
  /\ writer \in Goroutine \cup {Nobody}
  /\ mongeringWith \in [Peer -> Msg \cup {NoMsg}]

(***************************************************************************)
(* RandExcept draws only when there is somebody else to draw, so that its  *)
(* loop ends, though the set may grow between its looks: the excluded peer *)
(* is always in the set already.                                           *)
(***************************************************************************)
SomebodyElse == \A g \in Goroutine : At(g, "rand") => peers \ {thread[g].sender} # {}

(***************************************************************************)
(* ackChans has no channel that nobody waits at: an entry is deleted by    *)
(* the time its goroutine gives up or is done, also when several           *)
(* goroutines monger one message with one peer and overwrite and delete    *)
(* each other's entries.                                                   *)
(***************************************************************************)
NoDeadEntry ==
  \A p \in Peer, m \in Msg :
    LET g == ackChans[p][m] IN
    g # Nobody => /\ thread[g].pc \in {"send", "select", "delete", "deleting"}
                  /\ thread[g].to = p /\ thread[g].msg = m

\* g has left its select with a full channel, and the handler of a status waits
\* for room in it with the lock that g needs.
Jammed ==
  \E g, h \in Goroutine :
    /\ thread[g].pc \in {"delete", "deleting"} /\ thread[g].ackChan = AckCap
    /\ At(h, "ack") /\ \E m \in Acknowledges(h) : AckChan(h, m) = g

\* Who holds ackChansMutex, waits for it, or has a channel in ackChans.
Users == {g \in Goroutine : thread[g].pc \in {"register", "registering", "send", "select",
                                              "delete", "deleting", "rlock", "ack"}}

\* Nobody and nothing has to move before g can.
CanGoOn(g) ==
  \/ thread[g].pc \in {"send", "select"}
  \/ thread[g].pc \in {"register", "delete", "rlock"} /\ writer = Nobody
  \/ thread[g].pc \in {"registering", "deleting"} /\ Readers = {}
  \/ At(g, "ack") /\ Acknowledges(g) = {}
  \/ At(g, "ack") /\ \E m \in Acknowledges(g) : thread[AckChan(g, m)].ackChan < AckCap

(***************************************************************************)
(* The goroutines that use ackChans never wait for one another in a        *)
(* circle, but for the jam: without one, somebody among them can go on.     *)
(***************************************************************************)
OneCanGoOn == Users # {} /\ ~Jammed => \E g \in Users : CanGoOn(g)

(***************************************************************************)
(* Every status is handled, and every goroutine that mongers gets the lock *)
(* of ackChans, unless one channel fills up after its reader has left:     *)
(* then everything that needs ackChans waits for ever.                     *)
(***************************************************************************)
HandledUnlessJammed ==
  \A g \in Goroutine :
    thread[g].pc \in {"rlock", "ack", "register", "delete"} ~>
      thread[g].pc \in {"compare", "send", "again", "done"} \/ Jammed

(***************************************************************************)
(* A jam lasts for ever: no timer, no other goroutine and no packet ends   *)
(* it, and ackChans stays as it is.                                        *)
(***************************************************************************)
JamLasts == [][Jammed => Jammed' /\ UNCHANGED ackChans]_vars
=============================================================================
