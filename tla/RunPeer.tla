------------------------------- MODULE RunPeer -------------------------------
(***************************************************************************)
(* Rumorer.runPeer of one node (project/rumorer/rumorer.go): a loop reads  *)
(* packets from the channel r.in, and each packet gets a goroutine, which  *)
(* reads the loop variable "packet" twice: for its gossip and for its      *)
(* address.  In a build where the iterations share that variable (every    *)
(* Go before 1.22, and later ones in a module that asks for an earlier     *)
(* version) a goroutine finds there whatever the loop has read by then.    *)
(*                                                                         *)
(* The module Rumorer has the handlers and one variable per iteration;     *)
(* this one has the goroutines up to the store, and the store of the       *)
(* node's own messages.  A message of the node itself is an object that    *)
(* gets its ID here, and may be handled by several goroutines; a packet of *)
(* a peer stands for itself, as only its handling matters.                 *)
(***************************************************************************)
EXTENDS Integers, Sequences, FiniteSets

CONSTANTS
  Own,       \* the messages that the node itself creates
  Theirs,    \* the mongerable messages of other nodes, which have an ID
  Statuses,  \* status packets
  Peer,      \* the addresses of other nodes
  NoAddr,    \* UDPAddr{}, the address of what the node itself creates
  Nothing,   \* a variable that has not been read yet
  MaxPackets \* bound: how many packets the loop reads

ASSUME RunPeerAssumption ==
  /\ Own \cap Theirs = {} /\ Own \cap Statuses = {} /\ Theirs \cap Statuses = {}
  /\ NoAddr \notin Peer
  /\ Nothing \notin Own \cup Theirs \cup Statuses \cup Peer \cup {NoAddr}
  /\ MaxPackets \in Nat

VARIABLES
  perIteration, \* whether each iteration has a variable "packet" of its own
  read,         \* the packets that the loop has read from r.in
  pc,           \* pc[k]: where the goroutine of packet k is
  gossip,       \* gossip[k]: its variable gossip
  address,      \* address[k]: its variable address
  taken,        \* taken[k]: the ID it took from r.id, or 0
  id,           \* r.id
  msgID,        \* msgID[m]: the ID in the own message m
  messages,     \* messages[i]: the own message in the store under ID i
  peers         \* the peer set

locals == <<gossip, address, taken>>
node == <<id, msgID, messages, peers>>
vars == <<perIteration, read, pc, locals, node>>
-----------------------------------------------------------------------------
Mongerable == Own \cup Theirs
Packet == [gossip : Own, address : {NoAddr}]
            \cup [gossip : Theirs \cup Statuses, address : Peer]

Init ==
  /\ perIteration \in BOOLEAN
  /\ read = <<>>
  /\ pc = <<>>
  /\ gossip = <<>>
  /\ address = <<>>
  /\ taken = <<>>
  /\ id = 1
  /\ msgID = [m \in Own |-> 0]
  /\ messages = <<>>
  /\ peers = {}
-----------------------------------------------------------------------------
\* The loop reads the next packet and starts a goroutine.  What the node
\* creates comes once, what others send may come again.
Read(p) ==
  /\ Len(read) < MaxPackets
  /\ p.gossip \in Own => \A k \in DOMAIN read : read[k].gossip # p.gossip
  /\ read' = Append(read, p)
  /\ pc' = Append(pc, "gossip")
  /\ gossip' = Append(gossip, Nothing)
  /\ address' = Append(address, Nothing)
  /\ taken' = Append(taken, 0)
  /\ UNCHANGED <<perIteration, node>>

\* The packet that goroutine k finds in the loop variable.  (And variants: one
\* shared whatever the build, and one off by one.)
SharedVariable(k) == read[Len(read)]
EarlierVariable(k) == read[IF k > 1 THEN k - 1 ELSE k]
LoopVariable(k) == read[IF perIteration THEN k ELSE Len(read)]

ReadGossip(k) ==
  /\ pc[k] = "gossip"
  /\ gossip' = [gossip EXCEPT ![k] = LoopVariable(k).gossip]
  /\ pc' = [pc EXCEPT ![k] = "address"]
  /\ UNCHANGED <<perIteration, read, address, taken, node>>

ReadAddress(k) ==
  /\ pc[k] = "address"
  /\ address' = [address EXCEPT ![k] = LoopVariable(k).address]
  /\ pc' = [pc EXCEPT ![k] = IF gossip[k] \in Mongerable THEN "check" ELSE "status"]
  /\ UNCHANGED <<perIteration, read, gossip, taken, node>>

\* The test of the address, and GetID, which takes no lock.
IsOurs(k) == address[k] = NoAddr
HasID(k) == gossip[k] \in Theirs \/ msgID[gossip[k]] # 0

CheckSender(k) ==
  /\ pc[k] = "check"
  /\ peers' = IF IsOurs(k) THEN peers ELSE peers \cup {address[k]}
  /\ pc' = [pc EXCEPT ![k] = IF IsOurs(k) /\ ~HasID(k) THEN "lock" ELSE "update"]
  /\ UNCHANGED <<perIteration, read, locals, id, msgID, messages>>

\* (Variants of the next definition: r.id is not increased; or before it is
\* used.)
GiveSameID(k) ==
  /\ pc[k] = "lock"
  /\ msgID' = [msgID EXCEPT ![gossip[k]] = id]
  /\ taken' = [taken EXCEPT ![k] = id]
  /\ pc' = [pc EXCEPT ![k] = "update"]
  /\ UNCHANGED <<perIteration, read, gossip, address, id, messages, peers>>

GiveNextID(k) ==
  /\ pc[k] = "lock"
  /\ msgID' = [msgID EXCEPT ![gossip[k]] = id + 1]
  /\ taken' = [taken EXCEPT ![k] = id + 1]
  /\ id' = id + 1
  /\ pc' = [pc EXCEPT ![k] = "update"]
  /\ UNCHANGED <<perIteration, read, gossip, address, messages, peers>>

\* The section under idMutex.
GiveID(k) ==
  /\ pc[k] = "lock"
  /\ msgID' = [msgID EXCEPT ![gossip[k]] = id]
  /\ taken' = [taken EXCEPT ![k] = id]
  /\ id' = id + 1
  /\ pc' = [pc EXCEPT ![k] = "update"]
  /\ UNCHANGED <<perIteration, read, gossip, address, messages, peers>>

\* State.Update, called by handleRumor: NextID is the first ID without a
\* message, so a message that has an ID and is new to the store is stored.
NextID == CHOOSE i \in 1..(Cardinality(DOMAIN messages) + 1) :
            i \notin DOMAIN messages /\ 1..(i - 1) \subseteq DOMAIN messages

Stored(m) == [i \in DOMAIN messages \cup {msgID[m]} |->
                IF i = msgID[m] THEN m ELSE messages[i]]

UpdateInOrder(k) ==    \* (a variant of Update: it takes the next message only)
  LET m == gossip[k] IN
  /\ pc[k] = "update"
  /\ messages' = IF m \in Own /\ msgID[m] = NextID THEN Stored(m) ELSE messages
  /\ pc' = [pc EXCEPT ![k] = "done"]
  /\ UNCHANGED <<perIteration, read, locals, id, msgID, peers>>

Update(k) ==
  LET m == gossip[k] IN
  /\ pc[k] = "update"
  /\ messages' = IF m \in Own /\ msgID[m] >= NextID THEN Stored(m) ELSE messages
  /\ pc' = [pc EXCEPT ![k] = "done"]
  /\ UNCHANGED <<perIteration, read, locals, id, msgID, peers>>

\* A status, whose sender is a peer whatever its address.
HandleStatus(k) ==
  /\ pc[k] = "status"
  /\ peers' = peers \cup {address[k]}
  /\ pc' = [pc EXCEPT ![k] = "done"]
  /\ UNCHANGED <<perIteration, read, locals, id, msgID, messages>>

Goroutine(k) ==
  \/ ReadGossip(k) \/ ReadAddress(k)
  \/ CheckSender(k) \/ GiveID(k) \/ Update(k) \/ HandleStatus(k)

Next ==
  \/ \E p \in Packet : Read(p)
  \/ \E k \in DOMAIN read : Goroutine(k)

Spec == Init /\ [][Next]_vars
-----------------------------------------------------------------------------
TypeOK ==
  /\ perIteration \in BOOLEAN
  /\ read \in Seq(Packet) /\ Len(read) <= MaxPackets
  /\ pc \in [DOMAIN read -> {"gossip", "address", "check", "lock", "update", "status", "done"}]
  /\ gossip \in [DOMAIN read -> Mongerable \cup Statuses \cup {Nothing}]
  /\ address \in [DOMAIN read -> Peer \cup {NoAddr, Nothing}]
  /\ taken \in [DOMAIN read -> Nat]
  /\ id \in Nat \ {0}
  /\ msgID \in [Own -> 0..(id - 1)]
  /\ DOMAIN messages \subseteq 1..(id - 1)
  /\ \A i \in DOMAIN messages : messages[i] \in Own
  /\ peers \subseteq Peer \cup {NoAddr}

Quiet == \A k \in DOMAIN pc : pc[k] = "done"

(***************************************************************************)
(* An ID never names two messages of the node, though goroutines look at   *)
(* an ID without a lock and one message may get two: not in the messages,  *)
(* not in the store, and not between a message and the store.              *)
(***************************************************************************)
IDNamesOne ==
  /\ \A m1, m2 \in Own : msgID[m1] = msgID[m2] /\ msgID[m1] # 0 => m1 = m2
  /\ \A m \in Own : msgID[m] \in DOMAIN messages => messages[msgID[m]] = m

(***************************************************************************)
(* The node's own IDs have a hole, which keeps the later ones from being   *)
(* handed over anywhere, only after two goroutines gave an ID to one       *)
(* message: what is lost or mixed up otherwise leaves no hole.             *)
(***************************************************************************)
HolesFromTwoIDs ==
  Quiet /\ DOMAIN messages # 1..(id - 1) =>
    \E k1, k2 \in DOMAIN read :
      k1 # k2 /\ gossip[k1] = gossip[k2] /\ taken[k1] # 0 /\ taken[k2] # 0

(***************************************************************************)
(* A packet after which no other one comes is handled, and with the        *)
(* address it came from.                                                   *)
(***************************************************************************)
LastHandled ==
  Quiet /\ read # <<>> =>
    \E k \in DOMAIN read : /\ gossip[k] = read[Len(read)].gossip
                           /\ address[k] = read[Len(read)].address

(***************************************************************************)
(* A build with one variable per iteration handles every packet, once and  *)
(* with its own address: each own message has an ID and is stored under    *)
(* it, and the peers are those who sent something.                         *)
(***************************************************************************)
EachHandledOnce ==
  perIteration /\ Quiet =>
    /\ \A k \in DOMAIN read : [gossip |-> gossip[k], address |-> address[k]] = read[k]
    /\ \A k \in DOMAIN read : read[k].gossip \in Own =>
         messages[msgID[read[k].gossip]] = read[k].gossip
    /\ Cardinality(DOMAIN messages) = Cardinality({k \in DOMAIN read : read[k].gossip \in Own})
    /\ peers = {read[k].address : k \in DOMAIN read} \ {NoAddr}
-----------------------------------------------------------------------------
\* What a comment of the code says and the code does not do.  rumorer.go:118,
\* "The message is ours: if it does not have an ID yet: give it one".
OwnGetAnID ==
  Quiet => \A k \in DOMAIN read : read[k].gossip \in Own => msgID[read[k].gossip] # 0
=============================================================================
