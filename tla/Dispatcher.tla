----------------------------- MODULE Dispatcher -----------------------------
(***************************************************************************)
(* The goroutines and channels inside one node (project/gossiper,          *)
(* project/udp) and the order in which Gossiper.Run starts them: from the  *)
(* socket through the dispatcher to the rumorers, from there back to the   *)
(* socket, and through localOut and the dispatcher to the miner.  All the  *)
(* channels are unbuffered, so that a goroutine that sends waits until the *)
(* other one receives; only stopMining has a buffer.                       *)
(*                                                                         *)
(* A handler is modelled as far as it decides who waits for whom: it       *)
(* accepts a message, and answers.  What the miner does with a block: it   *)
(* fits the chain or not, and it is valid or not; the module Miner has the *)
(* rest.  Adding to the chain, recording the transactions and removing     *)
(* them from the pool are one step here.  The goroutines that only pass    *)
(* one packet on, from the socket to the one that decodes it and from the  *)
(* one that encodes it to the socket, are one step with it.                *)
(***************************************************************************)
EXTENDS Integers, Sequences, FiniteSets

CONSTANTS
  Tx,          \* the transactions that reach the node
  Registration,\* the transaction that the node creates when it starts
  PeerBlocks,  \* the blocks of other nodes that reach it
  Rumors,      \* the rumors of other nodes that reach it
  Statuses,    \* the status packets that it answers
  Privates,    \* the private messages that it forwards
  Requests,    \* the messages of the client
  For,         \* For[r]: the channels that request r is for, in their order
  Self,        \* the name of the node
  Genesis,     \* the key of the genesis block
  Nothing,     \* a goroutine holds no message
  StopCap      \* the capacity of stopMining (10)

FromPeers == (Tx \ {Registration}) \cup PeerBlocks \cup Rumors \cup Statuses \cup Privates

\* The fields of packets as the channels of the goroutines that handle them.
Channel == {"rumorer", "private", "vote"}

ASSUME DispatcherAssumption ==
  /\ Registration \in Tx
  /\ Nothing \notin Tx \cup FromPeers
  /\ For \in [Requests -> Seq(Channel)]
  /\ StopCap \in Nat \ {0}
  /\ \A b \in PeerBlocks : b.by # Self /\ b.id \in Nat /\ b.txs \subseteq Tx

VARIABLES
  main,       \* what Gossiper.Run has started last
  uiIn,       \* who waits to send on RumorerUIIn, from which nobody receives
  coming,     \* the packets of other nodes and of the client, at the sockets
  gossip,     \* what dispatchFromPeer holds, with the channels still to do
  request,    \* what dispatchFromClient holds: the channels still to do
  answers,    \* answers[c]: how many goroutines of rumorer c offer an answer
              \* to its out channel
  localOut,   \* the messages that goroutines of the rumorer offer on localOut
  held,       \* the message the dispatcher has received and not passed on
  tpc,        \* where listenTransactions is
  pool,       \* the unconfirmed transactions
  newBlock,   \* the block generateBlock is making
  found,      \* how many blocks the node has found
  stopMining, \* the channel stopMining
  bpc,        \* where listenBlocks is
  block,      \* the block listenBlocks works on
  fork,       \* miner.fork of listenBlocks
  chain       \* the keys of the blocks on the chain

startVars == <<main, uiIn>>
packetVars == <<coming, gossip, request, answers>>
mineVars == <<tpc, pool, newBlock, found>>
blockVars == <<bpc, block, fork, chain>>
vars == <<startVars, packetVars, localOut, held, stopMining, mineVars, blockVars>>
-----------------------------------------------------------------------------
Key(b) == <<b.by, b.nr>>
LastKey == chain[Len(chain)]
NoRequest == [msg |-> Nothing, to |-> <<>>]
Holding(m, to) == IF to = <<>> THEN NoRequest ELSE [msg |-> m, to |-> to]
NoBlock == [by |-> Self, nr |-> 0, id |-> 0, prev |-> Genesis, txs |-> {}]

Init ==
  /\ main = "init"
  /\ uiIn = {}
  /\ coming = FromPeers \cup Requests
  /\ gossip = NoRequest
  /\ request = NoRequest
  /\ answers = [c \in Channel |-> 0]
  /\ localOut = {}
  /\ held = Nothing
  /\ tpc = "wait"
  /\ pool = {}
  /\ newBlock = NoBlock
  /\ found = 0
  /\ stopMining = <<>>
  /\ bpc = "wait"
  /\ block = NoBlock
  /\ fork = FALSE
  /\ chain = <<Genesis>>
-----------------------------------------------------------------------------
(***************************************************************************)
(* Gossiper.Run.  Each Run starts its goroutines and returns, but that of  *)
(* the vote rumorer registers the name first, and so waits for the public  *)
(* rumorer to receive.                                                     *)
(***************************************************************************)
Order == <<"init", "dispatcher", "rumorer", "private", "vote", "miner", "web">>
Started(c) == \E i, j \in DOMAIN Order : Order[i] = c /\ Order[j] = main /\ i <= j

Start(from, to) == main = from /\ main' = to
Rest == <<packetVars, held, stopMining, mineVars, blockVars>>

Register == /\ Started("rumorer")
            /\ localOut' = localOut \cup {Registration}

StartDispatcher == Start("init", "dispatcher") /\ UNCHANGED <<uiIn, localOut, Rest>>

StartRumorer == Start("dispatcher", "rumorer") /\ UNCHANGED <<uiIn, localOut, Rest>>

\* With -rtimer, routeRumoring waits at its first route rumor, in a goroutine of
\* its own.
StartPrivateRumorer == /\ Start("rumorer", "private") /\ uiIn' = {"routes"}
                       /\ UNCHANGED <<localOut, Rest>>

StartVoteRumorer == Start("private", "vote") /\ Register /\ UNCHANGED <<uiIn, Rest>>
StartMiner == Start("vote", "miner") /\ UNCHANGED <<uiIn, localOut, Rest>>
StartWeb == Start("miner", "web") /\ UNCHANGED <<uiIn, localOut, Rest>>

-----------------------------------------------------------------------------
(***************************************************************************)
(* From the sockets to the rumorers: the goroutines of the dispatcher      *)
(* decode a packet and pass it to one rumorer after the other, and wait    *)
(* for each to receive.  The loops of the rumorers start a goroutine for   *)
(* whatever they receive.                                                  *)
(***************************************************************************)
To(m) == IF m \in Rumors THEN <<"rumorer", "private">>
         ELSE IF m \in Privates THEN <<"private">> ELSE <<"rumorer">>

Decode(m) ==
  /\ Started("dispatcher")
  /\ gossip = NoRequest
  /\ m \in coming \ Requests
  /\ coming' = coming \ {m}
  /\ gossip' = Holding(m, To(m))
  /\ UNCHANGED <<startVars, request, answers, localOut, held, stopMining, mineVars, blockVars>>

DecodeRequest(r) ==
  /\ Started("dispatcher")
  /\ request = NoRequest
  /\ r \in coming \cap Requests
  /\ coming' = coming \ {r}
  /\ request' = Holding(r, For[r])
  /\ UNCHANGED <<startVars, gossip, answers, localOut, held, stopMining, mineVars, blockVars>>

\* The handlers: a mongerable message gets a goroutine that hands it over, and
\* the sender an answer; a private message is sent on.
HandsOver(c, m) == c = "rumorer" /\ m \notin Statuses
Answers(c, m) == (c = "rumorer" /\ m \notin Requests) \/ (c = "private" /\ m \notin Rumors)

Pass(p) == Holding(p.msg, Tail(p.to))

Handle(p) ==
  LET c == Head(p.to) IN
  /\ p # NoRequest
  /\ Started(c)
  /\ answers' = [answers EXCEPT ![c] = IF Answers(c, p.msg) THEN @ + 1 ELSE @]
  /\ localOut' = IF HandsOver(c, p.msg) THEN localOut \cup {p.msg} ELSE localOut

DispatchFromPeer ==
  /\ Handle(gossip)
  /\ gossip' = Pass(gossip)
  /\ UNCHANGED <<startVars, coming, request, held, stopMining, mineVars, blockVars>>

DispatchFromClient ==
  /\ Handle(request)
  /\ request' = Pass(request)
  /\ UNCHANGED <<startVars, coming, gossip, held, stopMining, mineVars, blockVars>>

\* (A variant of the next definition: a handler hands its message over before it
\* answers.)
SendAfterHandingOver(c) ==
  /\ answers[c] > IF c = "rumorer" THEN Cardinality(localOut \cap FromPeers) ELSE 0
  /\ answers' = [answers EXCEPT ![c] = @ - 1]
  /\ UNCHANGED <<startVars, coming, gossip, request, localOut, held, stopMining, mineVars,
                 blockVars>>

\* The goroutine that reads an out channel encodes a packet and sends it.
Send(c) ==
  /\ answers[c] > 0
  /\ answers' = [answers EXCEPT ![c] = @ - 1]
  /\ UNCHANGED <<startVars, coming, gossip, request, localOut, held, stopMining, mineVars,
                 blockVars>>
-----------------------------------------------------------------------------
\* The dispatcher receives a message from localOut, when it has passed on the
\* one before; only transactions and blocks are for somebody.
CanReceive(m) == Started("dispatcher") /\ held = Nothing /\ m \in localOut

Receive(m) ==
  /\ CanReceive(m)
  /\ held' = IF m \in Rumors \cup Requests THEN Nothing ELSE m
  /\ localOut' = localOut \ {m}
  /\ UNCHANGED <<startVars, packetVars, stopMining, mineVars, blockVars>>

\* listenTransactions takes a transaction, and mines when it has more than one.
CanPassTransaction == Started("miner") /\ held \in Tx /\ tpc = "wait"

PassTransaction ==
  /\ CanPassTransaction
  /\ held' = Nothing
  /\ pool' = pool \cup {held}
  /\ tpc' = IF Cardinality(pool') > 1 THEN "id" ELSE "wait"
  /\ UNCHANGED <<startVars, packetVars, localOut, newBlock, found, stopMining, blockVars>>

ReadID ==
  /\ tpc = "id"
  /\ newBlock' = [newBlock EXCEPT !.id = Len(chain)]
  /\ tpc' = "prev"
  /\ UNCHANGED <<startVars, packetVars, localOut, held, pool, found, stopMining, blockVars>>

ReadPrevHash ==
  /\ tpc = "prev"
  /\ newBlock' = [newBlock EXCEPT !.prev = LastKey, !.txs = pool]
  /\ tpc' = "mine"
  /\ UNCHANGED <<startVars, packetVars, localOut, held, pool, found, stopMining, blockVars>>

TakeStop ==
  /\ tpc = "mine"
  /\ stopMining # <<>>
  /\ stopMining' = Tail(stopMining)
  /\ IF Head(stopMining) >= newBlock.id
       THEN tpc' = "wait" /\ newBlock' = NoBlock
       ELSE UNCHANGED <<tpc, newBlock>>
  /\ UNCHANGED <<startVars, packetVars, localOut, held, pool, found, blockVars>>

NoStop ==
  /\ tpc = "mine"
  /\ stopMining = <<>>
  /\ tpc' = "hash"
  /\ UNCHANGED <<startVars, packetVars, localOut, held, pool, newBlock, found, stopMining, blockVars>>

WrongNonce ==
  /\ tpc = "hash"
  /\ tpc' = "mine"
  /\ UNCHANGED <<startVars, packetVars, localOut, held, pool, newBlock, found, stopMining, blockVars>>

\* The rumorer always receives; it hands the block to the node itself too.
Publish ==
  /\ tpc = "hash"
  /\ found' = found + 1
  /\ localOut' = localOut \cup {[newBlock EXCEPT !.nr = found + 1]}
  /\ tpc' = "wait"
  /\ newBlock' = NoBlock
  /\ UNCHANGED <<startVars, packetVars, held, pool, stopMining, blockVars>>
-----------------------------------------------------------------------------
\* listenBlocks takes a block, when it is done with the one before.
IsNext(b) == b.id = Len(chain) /\ b.prev = LastKey
IsFork(b) == ~fork /\ b.id = Len(chain) - 1 /\ b.prev = LastKey
CanPassBlock == Started("miner") /\ held \notin Tx \cup {Nothing} /\ bpc = "wait"

\* (A variant of the next definition: the goroutine returns at the first block
\* that it does not want.)
PassBlockUntilBad(valid) ==
  /\ CanPassBlock
  /\ held' = Nothing
  /\ \/ /\ valid /\ IsNext(held)
        /\ block' = held
        /\ bpc' = "stop"
        /\ UNCHANGED fork
     \/ /\ valid /\ IsFork(held)
        /\ block' = held
        /\ bpc' = "append"
        /\ fork' = TRUE
     \/ /\ ~(valid /\ (IsNext(held) \/ IsFork(held)))
        /\ bpc' = "ended"
        /\ UNCHANGED <<block, fork>>
  /\ UNCHANGED <<startVars, packetVars, localOut, stopMining, mineVars, chain>>

PassBlock(valid) ==
  /\ CanPassBlock
  /\ held' = Nothing
  /\ \/ /\ valid /\ IsNext(held)
        /\ block' = held
        /\ bpc' = "stop"
        /\ UNCHANGED fork
     \/ /\ valid /\ IsFork(held)
        /\ block' = held
        /\ bpc' = "append"
        /\ fork' = TRUE
     \/ /\ ~(valid /\ (IsNext(held) \/ IsFork(held)))
        /\ UNCHANGED <<block, bpc, fork>>
  /\ UNCHANGED <<startVars, packetVars, localOut, stopMining, mineVars, chain>>

\* The send to stopMining waits for room in it.
CanStopMining == bpc = "stop" /\ Len(stopMining) < StopCap

\* (A variant of the next definition: stopMining holds one more than it has
\* room for.)
StopMiningOver ==
  /\ bpc = "stop"
  /\ Len(stopMining) <= StopCap
  /\ stopMining' = Append(stopMining, block.id)
  /\ bpc' = "append"
  /\ UNCHANGED <<startVars, packetVars, localOut, held, mineVars, block, fork, chain>>

StopMining ==
  /\ CanStopMining
  /\ stopMining' = Append(stopMining, block.id)
  /\ bpc' = "append"
  /\ UNCHANGED <<startVars, packetVars, localOut, held, mineVars, block, fork, chain>>

AppendBlock ==
  /\ bpc = "append"
  /\ chain' = Append(chain, Key(block))
  /\ pool' = pool \ block.txs
  /\ block' = NoBlock
  /\ bpc' = "wait"
  /\ UNCHANGED <<startVars, packetVars, localOut, held, tpc, newBlock, found, stopMining, fork>>

StartStep ==
  \/ StartDispatcher \/ StartRumorer \/ StartPrivateRumorer
  \/ StartVoteRumorer \/ StartMiner \/ StartWeb

PacketStep ==
  \/ \E m \in FromPeers : Decode(m)
  \/ \E r \in Requests : DecodeRequest(r)
  \/ DispatchFromPeer \/ DispatchFromClient
  \/ \E c \in Channel : Send(c)

\* What the goroutine of the dispatcher does that reads localOut (with the one
\* of the miner that receives from it), and the goroutines of the miner.
LocalStep ==
  \/ \E m \in localOut : Receive(m)
  \/ PassTransaction
  \/ \E valid \in BOOLEAN : PassBlock(valid)

MineStep == ReadID \/ ReadPrevHash \/ TakeStop \/ NoStop \/ WrongNonce \/ Publish

BlockStep == StopMining \/ AppendBlock

Next == StartStep \/ PacketStep \/ LocalStep \/ MineStep \/ BlockStep

Spec == Init /\ [][Next]_vars
-----------------------------------------------------------------------------
(***************************************************************************)
(* Go runs every goroutine that can run, a channel serves its senders in   *)
(* their order, and the search for a nonce succeeds at last.               *)
(***************************************************************************)
Fairness ==
  /\ WF_vars(StartStep)
  /\ WF_vars(PacketStep)
  /\ WF_vars(LocalStep)
  /\ WF_vars(MineStep) /\ SF_vars(Publish)
  /\ WF_vars(BlockStep)

FairSpec == Spec /\ Fairness
-----------------------------------------------------------------------------
\* The types; stopMining never holds more than it has room for, and a block is
\* never made for a place beyond the end of the chain.
TypeOK ==
  /\ main \in {Order[i] : i \in DOMAIN Order}
  /\ uiIn \subseteq {"routes"}
  /\ coming \subseteq FromPeers \cup Requests
  /\ gossip.msg \in FromPeers \cup {Nothing} /\ request.msg \in Requests \cup {Nothing}
  /\ gossip.to \in Seq(Channel) /\ request.to \in Seq(Channel)
  /\ answers \in [Channel -> Nat]
  /\ \A m \in localOut \cup {held} :
       m \in Tx \cup {Nothing} \cup PeerBlocks \cup Rumors \cup Requests \/ m.by = Self
  /\ tpc \in {"wait", "id", "prev", "mine", "hash"}
  /\ pool \subseteq Tx
  /\ newBlock.by = Self /\ newBlock.id \in 0..Len(chain)
  /\ found \in Nat
  /\ stopMining \in Seq(Nat) /\ Len(stopMining) <= StopCap
  /\ bpc \in {"wait", "stop", "append"}
  /\ fork \in BOOLEAN

\* One of the goroutines that a message goes through on its way from localOut
\* into the miner can take a step; listenTransactions always can while it mines.
CanRun ==
  \/ main # "web"
  \/ \E m \in localOut : CanReceive(m)
  \/ CanPassTransaction \/ tpc # "wait"
  \/ CanPassBlock \/ CanStopMining \/ bpc = "append"

(***************************************************************************)
(* There is one way only for the node to get stuck on a message: stopMining *)
(* is full, listenBlocks waits for room in it, the dispatcher waits for    *)
(* listenBlocks, and listenTransactions, which would make room if it were  *)
(* mining, waits for the dispatcher.                                       *)
(***************************************************************************)
StuckOnFullStops ==
  (localOut # {} \/ held # Nothing) /\ ~CanRun =>
    /\ Len(stopMining) = StopCap
    /\ bpc = "stop" /\ tpc = "wait" /\ held \notin Tx \cup {Nothing}

(***************************************************************************)
(* Whatever the rumorer hands over gets through to the miner, or           *)
(* listenBlocks waits for room in stopMining for ever: there is no other   *)
(* obstacle, though a transaction waits for the end of mining, and the     *)
(* block that would end it waits behind the transaction.                   *)
(***************************************************************************)
PassUnlessFull ==
  []<>(localOut = {} /\ held = Nothing)
    \/ <>[](Len(stopMining) = StopCap /\ bpc = "stop")

(***************************************************************************)
(* The node starts, though its registration needs a rumorer that runs; and *)
(* whatever becomes of the miner, what arrives at the sockets is decoded,  *)
(* passed to every rumorer it is for, and answered.                        *)
(***************************************************************************)
AllAnswered ==
  <>[](/\ main = "web"
       /\ coming = {} /\ gossip = NoRequest /\ request = NoRequest
       /\ \A c \in Channel : answers[c] = 0)
=============================================================================
