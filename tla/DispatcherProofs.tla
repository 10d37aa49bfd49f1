--------------------------- MODULE DispatcherProofs ---------------------------
(***************************************************************************)
(* The types of the dispatcher and the miner of one node, for any packets, *)
(* any requests of the client and any capacity of stopMining.  What the    *)
(* types say beyond the shape of a variable: stopMining never overflows, a *)
(* block is never made for a place beyond the end of the chain, and        *)
(* nothing but a mongerable message gets to localOut.                      *)
(***************************************************************************)
EXTENDS Dispatcher, SequenceTheorems, TLAPS

Mongerable == Tx \cup PeerBlocks \cup Rumors \cup Requests

\* What the goroutines of the dispatcher hold: a packet, with the channels it is
\* for.  Of what peers send, only what is mongerable goes to the rumorer, or a
\* status.
HoldsOf(p, M) == p.msg \in M /\ p.to \in Seq(Channel) /\ p.to # <<>>

IsPacket(p) == p = [msg |-> p.msg, to |-> p.to]

GossipOK == /\ IsPacket(gossip)
            /\ gossip = NoRequest \/ HoldsOf(gossip, FromPeers)
            /\ gossip # NoRequest /\ Head(gossip.to) = "rumorer" =>
                 gossip.msg \in Mongerable \cup Statuses
            /\ gossip # NoRequest => \A i \in 2..Len(gossip.to) : gossip.to[i] # "rumorer"

RequestOK == IsPacket(request) /\ (request = NoRequest \/ HoldsOf(request, Requests))

PacketInv ==
  /\ main \in {Order[i] : i \in DOMAIN Order}
  /\ uiIn \subseteq {"routes"}
  /\ coming \subseteq FromPeers \cup Requests
  /\ GossipOK /\ RequestOK
  /\ answers \in [Channel -> Nat]

IsLocal(m) == m \in Mongerable \cup {Nothing} \/ m.by = Self

LocalInv == \A m \in localOut \cup {held} : IsLocal(m)

IsBlock(b) == b = [by |-> b.by, nr |-> b.nr, id |-> b.id, prev |-> b.prev, txs |-> b.txs]

MinerInv ==
  /\ tpc \in {"wait", "id", "prev", "mine", "hash"}
  /\ pool \subseteq Tx
  /\ IsBlock(newBlock) /\ newBlock.by = Self /\ newBlock.id \in 0..Len(chain)
  /\ found \in Nat
  /\ stopMining \in Seq(Nat) /\ Len(stopMining) <= StopCap
  /\ bpc \in {"wait", "stop", "append"}
  /\ bpc = "stop" => block.id \in Nat
  /\ fork \in BOOLEAN
  /\ \E S : chain \in Seq(S)

\* In the initial state nothing is held and nothing is mined.
LEMMA InitTyped ==
  Init => PacketInv /\ LocalInv /\ MinerInv
PROOF
<1> SUFFICES ASSUME Init PROVE PacketInv /\ LocalInv /\ MinerInv
  OBVIOUS
<1>1. IsPacket(NoRequest) /\ IsBlock(NoBlock)
  BY DEF IsPacket, NoRequest, IsBlock, NoBlock
<1>2. "init" \in {Order[i] : i \in DOMAIN Order}
  <2>1. Order[1] = "init" /\ 1 \in DOMAIN Order
    BY DEF Order
  <2> QED
    BY <2>1
<1>3. PacketInv
  BY <1>1, <1>2 DEF Init, PacketInv, GossipOK, RequestOK
<1>4. LocalInv
  BY DEF Init, LocalInv, IsLocal
<1>5. MinerInv
  <2>1. Len(chain) = 1 /\ chain \in Seq({Genesis})
    BY DEF Init
  <2>2. NoBlock.by = Self /\ NoBlock.id = 0
    BY DEF NoBlock
  <2>3. stopMining \in Seq(Nat) /\ Len(stopMining) <= StopCap
    BY DispatcherAssumption DEF Init, DispatcherAssumption
  <2>4. IsBlock(newBlock) /\ newBlock.by = Self /\ newBlock.id \in 0..Len(chain)
    BY <1>1, <2>1, <2>2 DEF Init
  <2>5. \E S : chain \in Seq(S)
    BY <2>1
  <2> QED
    BY <2>3, <2>4, <2>5 DEF Init, MinerInv
<1> QED
  BY <1>3, <1>4, <1>5

-----------------------------------------------------------------------------
\* What is left of a packet when one channel has it.
LEMMA PassKeeps ==
  ASSUME NEW M, NEW p, HoldsOf(p, M)
  PROVE  /\ IsPacket(Pass(p))
         /\ Pass(p) = NoRequest \/ HoldsOf(Pass(p), M)
         /\ Pass(p) # NoRequest => /\ Pass(p).msg = p.msg
                                   /\ Pass(p).to = Tail(p.to) /\ Len(p.to) > 1
PROOF
<1>1. Tail(p.to) \in Seq(Channel)
  BY HeadTailProperties DEF HoldsOf
<1>2. CASE Tail(p.to) = <<>>
  BY <1>2 DEF Pass, Holding, IsPacket, NoRequest
<1>3. CASE Tail(p.to) # <<>>
  <2>1. Pass(p) = [msg |-> p.msg, to |-> Tail(p.to)]
    BY <1>3 DEF Pass, Holding
  <2>2. Len(p.to) > 1
    BY <1>3, HeadTailProperties, EmptySeq DEF HoldsOf
  <2> QED
    BY <1>1, <1>3, <2>1, <2>2 DEF IsPacket, HoldsOf
<1> QED
  BY <1>2, <1>3

\* A rumorer counts its answers, and hands over what is mongerable.
LEMMA HandleTyped ==
  ASSUME NEW p, Handle(p), HoldsOf(p, FromPeers \cup Requests),
         Head(p.to) = "rumorer" => p.msg \in Mongerable \cup Statuses,
         answers \in [Channel -> Nat], LocalInv, held' = held
  PROVE  answers' \in [Channel -> Nat] /\ LocalInv'
PROOF
<1>1. Head(p.to) \in Channel
  BY HeadTailProperties DEF HoldsOf
<1>2. answers' \in [Channel -> Nat]
  BY <1>1 DEF Handle
<1>3. localOut' \subseteq localOut \cup (IF HandsOver(Head(p.to), p.msg) THEN {p.msg} ELSE {})
  BY DEF Handle
<1>4. HandsOver(Head(p.to), p.msg) => p.msg \in Mongerable
  BY DEF HandsOver
<1> QED
  BY <1>2, <1>3, <1>4 DEF LocalInv, IsLocal

\* What a packet from a peer is decoded to.
LEMMA DecodedTyped ==
  ASSUME NEW m \in FromPeers
  PROVE  /\ Holding(m, To(m)) = [msg |-> m, to |-> To(m)]
         /\ To(m) \in Seq(Channel) /\ To(m) # <<>>
         /\ Head(To(m)) = "rumorer" => m \in Mongerable \cup Statuses
         /\ \A i \in 2..Len(To(m)) : To(m)[i] # "rumorer"
PROOF
<1>1. CASE m \in Rumors
  <2>1. To(m) = <<"rumorer", "private">>
    BY <1>1 DEF To
  <2> QED
    BY <1>1, <2>1 DEF Channel, Holding, Mongerable
<1>2. CASE m \notin Rumors /\ m \in Privates
  <2>1. To(m) = <<"private">>
    BY <1>2 DEF To
  <2> QED
    BY <2>1 DEF Channel, Holding
<1>3. CASE m \notin Rumors /\ m \notin Privates
  <2>1. To(m) = <<"rumorer">>
    BY <1>3 DEF To
  <2>2. m \in Mongerable \cup Statuses
    BY <1>3 DEF FromPeers, Mongerable
  <2> QED
    BY <2>1, <2>2 DEF Channel, Holding
<1> QED
  BY <1>1, <1>2, <1>3

\* The steps of the goroutines that decode packets and pass them on.
LEMMA PacketsTyped ==
  ASSUME PacketInv, LocalInv, PacketStep
  PROVE  PacketInv' /\ LocalInv'
PROOF
<1>1. ASSUME NEW m \in FromPeers, Decode(m)
      PROVE  PacketInv' /\ LocalInv'
  <2>1. gossip' = [msg |-> m, to |-> To(m)]
    BY <1>1, DecodedTyped DEF Decode
  <2>2. GossipOK'
    BY <2>1, DecodedTyped DEF GossipOK, IsPacket, HoldsOf
  <2>3. /\ UNCHANGED <<main, uiIn, request, answers, localOut, held>>
        /\ coming' \subseteq coming
    BY <1>1 DEF Decode, startVars
  <2> QED
    BY <2>2, <2>3 DEF PacketInv, RequestOK, LocalInv
<1>2. ASSUME NEW r \in Requests, DecodeRequest(r)
      PROVE  PacketInv' /\ LocalInv'
  <2>1. For[r] \in Seq(Channel)
    BY DispatcherAssumption DEF DispatcherAssumption
  <2>2. RequestOK'
    BY <1>2, <2>1 DEF DecodeRequest, Holding, RequestOK, IsPacket, HoldsOf, NoRequest
  <2>3. /\ UNCHANGED <<main, uiIn, gossip, answers, localOut, held>>
        /\ coming' \subseteq coming
    BY <1>2 DEF DecodeRequest, startVars
  <2> QED
    BY <2>2, <2>3 DEF PacketInv, GossipOK, LocalInv
<1>3. CASE DispatchFromPeer
  <2>0. UNCHANGED <<main, uiIn, coming, request, held>> /\ gossip' = Pass(gossip)
    BY <1>3 DEF DispatchFromPeer, startVars
  <2>1. gossip # NoRequest /\ HoldsOf(gossip, FromPeers)
    BY <1>3 DEF DispatchFromPeer, Handle, PacketInv, GossipOK
  <2>2. answers' \in [Channel -> Nat] /\ LocalInv'
    <3>1. HoldsOf(gossip, FromPeers \cup Requests)
      BY <2>1 DEF HoldsOf
    <3> QED
      BY <1>3, <2>0, <2>1, <3>1, HandleTyped DEF DispatchFromPeer, PacketInv, GossipOK
  <2>3. GossipOK'
    <3>1. CASE gossip' = NoRequest
      BY <3>1 DEF GossipOK, IsPacket, NoRequest
    <3>2. CASE gossip' # NoRequest
      <4>1. /\ HoldsOf(gossip', FromPeers) /\ IsPacket(gossip')
            /\ gossip'.to = Tail(gossip.to) /\ Len(gossip.to) > 1
        BY <2>0, <2>1, <3>2, PassKeeps
      <4>2. \A i \in 2..Len(gossip.to) : gossip.to[i] # "rumorer"
        BY <2>1 DEF PacketInv, GossipOK
      <4>3. gossip.to \in Seq(Channel) /\ gossip.to # <<>>
        BY <2>1 DEF HoldsOf
      <4>4. /\ Len(gossip.to) \in Nat /\ Len(Tail(gossip.to)) = Len(gossip.to) - 1
            /\ \A i \in 1..Len(Tail(gossip.to)) : Tail(gossip.to)[i] = gossip.to[i + 1]
        BY <4>3, HeadTailProperties
      <4>5. \A i \in 1..Len(gossip'.to) : gossip'.to[i] # "rumorer"
        BY <4>1, <4>2, <4>4
      <4>6. Head(gossip'.to) = gossip'.to[1] /\ 1 \in 1..Len(gossip'.to)
        BY <4>1, <4>4
      <4>7. \A i \in 2..Len(gossip'.to) : gossip'.to[i] # "rumorer"
        BY <4>5
      <4>8. Head(gossip'.to) # "rumorer"
        BY <4>5, <4>6
      <4> QED
        BY <4>1, <4>7, <4>8 DEF GossipOK, IsPacket
    <3> QED
      BY <3>1, <3>2
  <2> QED
    BY <2>0, <2>2, <2>3 DEF PacketInv, RequestOK
<1>4. CASE DispatchFromClient
  <2>0. UNCHANGED <<main, uiIn, coming, gossip, held>> /\ request' = Pass(request)
    BY <1>4 DEF DispatchFromClient, startVars
  <2>1. request # NoRequest /\ HoldsOf(request, Requests)
    BY <1>4 DEF DispatchFromClient, Handle, PacketInv, RequestOK
  <2>2. answers' \in [Channel -> Nat] /\ LocalInv'
    <3>1. HoldsOf(request, FromPeers \cup Requests) /\ request.msg \in Mongerable
      BY <2>1 DEF HoldsOf, Mongerable
    <3> QED
      BY <1>4, <2>0, <3>1, HandleTyped DEF DispatchFromClient, PacketInv
  <2>3. RequestOK'
    BY <2>0, <2>1, PassKeeps DEF RequestOK
  <2> QED
    BY <2>0, <2>2, <2>3 DEF PacketInv, GossipOK
<1>5. ASSUME NEW c \in Channel, Send(c)
      PROVE  PacketInv' /\ LocalInv'
  <2>1. UNCHANGED <<main, uiIn, coming, gossip, request, localOut, held>>
    BY <1>5 DEF Send, startVars
  <2>2. answers' \in [Channel -> Nat]
    <3>1. answers[c] - 1 \in Nat
      BY <1>5 DEF Send, PacketInv
    <3> QED
      BY <1>5, <3>1 DEF Send, PacketInv
  <2> QED
    BY <2>1, <2>2 DEF PacketInv, GossipOK, RequestOK, LocalInv
<1> QED
  BY <1>1, <1>2, <1>3, <1>4, <1>5 DEF PacketStep
-----------------------------------------------------------------------------
\* The steps of Gossiper.Run.
LEMMA StartTyped ==
  ASSUME PacketInv, LocalInv, MinerInv, StartStep
  PROVE  PacketInv' /\ LocalInv' /\ MinerInv'
PROOF
<1>1. UNCHANGED <<coming, gossip, request, answers, held>> /\ UNCHANGED <<stopMining, mineVars, blockVars>>
  BY DEF StartStep, StartDispatcher, StartRumorer, StartPrivateRumorer, StartVoteRumorer,
         StartMiner, StartWeb, Rest, packetVars
<1>2. localOut' \subseteq localOut \cup {Registration} /\ uiIn' \subseteq {"routes"}
  BY DEF StartStep, StartDispatcher, StartRumorer, StartPrivateRumorer, StartVoteRumorer,
         StartMiner, StartWeb, Register, PacketInv
<1>3. main' \in {Order[i] : i \in DOMAIN Order}
  <2>1. /\ DOMAIN Order = 1..7
        /\ Order[2] = "dispatcher" /\ Order[3] = "rumorer" /\ Order[4] = "private"
        /\ Order[5] = "vote" /\ Order[6] = "miner" /\ Order[7] = "web"
    BY DEF Order
  <2>2. main' \in {"dispatcher", "rumorer", "private", "vote", "miner", "web"}
    BY DEF StartStep, StartDispatcher, StartRumorer, StartPrivateRumorer, StartVoteRumorer,
           StartMiner, StartWeb, Start
  <2>3. 2 \in 1..7 /\ 3 \in 1..7 /\ 4 \in 1..7 /\ 5 \in 1..7 /\ 6 \in 1..7 /\ 7 \in 1..7
    OBVIOUS
  <2> QED
    BY <2>1, <2>2, <2>3
<1>4. LocalInv'
  BY <1>1, <1>2, DispatcherAssumption DEF DispatcherAssumption, LocalInv, IsLocal, Mongerable
<1>5. MinerInv'
  BY <1>1 DEF MinerInv, mineVars, blockVars
<1> QED
  BY <1>1, <1>2, <1>3, <1>4, <1>5 DEF PacketInv, GossipOK, RequestOK

\* The steps of the dispatcher that pass messages from localOut to the miner.
LEMMA LocalTyped ==
  ASSUME LocalInv, MinerInv, LocalStep
  PROVE  LocalInv' /\ MinerInv'
PROOF
<1>1. ASSUME NEW m \in localOut, Receive(m)
      PROVE  LocalInv' /\ MinerInv'
  BY <1>1 DEF Receive, LocalInv, IsLocal, MinerInv, mineVars, blockVars
<1>2. CASE PassTransaction
  <2>1. LocalInv'
    BY <1>2 DEF PassTransaction, LocalInv, IsLocal
  <2>2. pool' \subseteq Tx /\ tpc' \in {"wait", "id"}
    BY <1>2 DEF PassTransaction, CanPassTransaction, MinerInv
  <2> QED
    BY <1>2, <2>1, <2>2 DEF PassTransaction, MinerInv, blockVars
<1>3. ASSUME NEW valid \in BOOLEAN, PassBlock(valid)
      PROVE  LocalInv' /\ MinerInv'
  <2>1. LocalInv'
    BY <1>3 DEF PassBlock, LocalInv, IsLocal
  <2>2. Len(chain) \in Nat
    BY LenProperties DEF MinerInv
  <2>3. /\ bpc' \in {"wait", "stop", "append"} /\ fork' \in BOOLEAN
        /\ bpc' = "stop" => block'.id \in Nat
    BY <1>3, <2>2 DEF PassBlock, MinerInv, IsNext
  <2> QED
    BY <1>3, <2>1, <2>3 DEF PassBlock, MinerInv, mineVars
<1> QED
  BY <1>1, <1>2, <1>3 DEF LocalStep

\* The steps of the goroutine that mines.
LEMMA MineTyped ==
  ASSUME LocalInv, MinerInv, MineStep
  PROVE  LocalInv' /\ MinerInv'
PROOF
<1>0. Len(chain) \in Nat
  BY LenProperties DEF MinerInv
<1>1. CASE ReadID
  <2>1. IsBlock(newBlock') /\ newBlock'.by = Self /\ newBlock'.id = Len(chain)
    BY <1>1 DEF ReadID, MinerInv, IsBlock
  <2> QED
    BY <1>0, <1>1, <2>1 DEF ReadID, MinerInv, LocalInv, blockVars
<1>2. CASE ReadPrevHash
  <2>1. IsBlock(newBlock') /\ newBlock'.by = Self /\ newBlock'.id = newBlock.id
    BY <1>2 DEF ReadPrevHash, MinerInv, IsBlock
  <2> QED
    BY <1>2, <2>1 DEF ReadPrevHash, MinerInv, LocalInv, blockVars
<1>3. CASE TakeStop
  <2>1. stopMining' \in Seq(Nat) /\ Len(stopMining') <= StopCap
    BY <1>3, HeadTailProperties, LenProperties, DispatcherAssumption
    DEF TakeStop, MinerInv, DispatcherAssumption
  <2>2. IsBlock(newBlock') /\ newBlock'.by = Self /\ newBlock'.id \in 0..Len(chain)
    BY <1>0, <1>3 DEF TakeStop, MinerInv, IsBlock, NoBlock
  <2> QED
    BY <1>3, <2>1, <2>2 DEF TakeStop, MinerInv, LocalInv, blockVars
<1>4. CASE NoStop \/ WrongNonce
  BY <1>4 DEF NoStop, WrongNonce, MinerInv, LocalInv, blockVars
<1>5. CASE Publish
  <2>1. IsBlock(newBlock') /\ newBlock'.by = Self /\ newBlock'.id \in 0..Len(chain)
    BY <1>0, <1>5 DEF Publish, IsBlock, NoBlock
  <2>2. [newBlock EXCEPT !.nr = found + 1].by = Self
    BY DEF MinerInv, IsBlock
  <2>3. LocalInv'
    BY <1>5, <2>2 DEF Publish, LocalInv, IsLocal
  <2> QED
    BY <1>5, <2>1, <2>3 DEF Publish, MinerInv, blockVars
<1> QED
  BY <1>1, <1>2, <1>3, <1>4, <1>5 DEF MineStep

\* The steps of the goroutine that puts blocks on the chain.
LEMMA BlockTyped ==
  ASSUME LocalInv, MinerInv, BlockStep
  PROVE  LocalInv' /\ MinerInv'
PROOF
<1>1. CASE StopMining
  <2>1. stopMining' \in Seq(Nat) /\ Len(stopMining') = Len(stopMining) + 1
    BY <1>1, AppendProperties DEF StopMining, CanStopMining, MinerInv
  <2>2. Len(stopMining') <= StopCap
    BY <1>1, <2>1, LenProperties, DispatcherAssumption
    DEF StopMining, CanStopMining, MinerInv, DispatcherAssumption
  <2> QED
    BY <1>1, <2>1, <2>2 DEF StopMining, MinerInv, LocalInv, mineVars
<1>2. CASE AppendBlock
  <2>1. PICK S : chain \in Seq(S)
    BY DEF MinerInv
  <2>2. chain \in Seq(S \cup {Key(block)})
    BY <2>1
  <2>3. chain' \in Seq(S \cup {Key(block)}) /\ Len(chain') = Len(chain) + 1
    BY <1>2, <2>2, AppendProperties DEF AppendBlock
  <2>4. newBlock.id \in 0..Len(chain')
    BY <2>1, <2>3, LenProperties DEF MinerInv
  <2>5. /\ pool' \subseteq Tx /\ bpc' = "wait"
        /\ UNCHANGED <<localOut, held, tpc, newBlock, found, stopMining, fork>>
    BY <1>2 DEF AppendBlock, MinerInv
  <2> QED
    BY <2>3, <2>4, <2>5 DEF MinerInv, LocalInv
<1> QED
  BY <1>1, <1>2 DEF BlockStep

(***************************************************************************)
(* The types of one node, whatever its goroutines do in whatever order.    *)
(***************************************************************************)
THEOREM TypeCorrect == Spec => []TypeOK
PROOF
<1> DEFINE Typed == PacketInv /\ LocalInv /\ MinerInv
<1>1. Typed /\ [Next]_vars => Typed'
  <2> SUFFICES ASSUME Typed, [Next]_vars PROVE Typed'
    OBVIOUS
  <2>1. CASE UNCHANGED vars
    BY <2>1
    DEF vars, startVars, packetVars, mineVars, blockVars, PacketInv, GossipOK, RequestOK,
        LocalInv, MinerInv
  <2>2. CASE StartStep
    BY <2>2, StartTyped
  <2>3. CASE PacketStep
    <3>1. MinerInv'
      BY <2>3
      DEF PacketStep, Decode, DecodeRequest, DispatchFromPeer, DispatchFromClient, Send,
          mineVars, blockVars, MinerInv
    <3> QED
      BY <2>3, <3>1, PacketsTyped
  <2>4. CASE LocalStep \/ MineStep \/ BlockStep
    <3>1. UNCHANGED <<startVars, packetVars>>
      BY <2>4
      DEF LocalStep, Receive, PassTransaction, PassBlock, MineStep, ReadID, ReadPrevHash,
          TakeStop, NoStop, WrongNonce, Publish, BlockStep, StopMining, AppendBlock
    <3>2. PacketInv'
      BY <3>1 DEF startVars, packetVars, PacketInv, GossipOK, RequestOK
    <3> QED
      BY <2>4, <3>2, LocalTyped, MineTyped, BlockTyped
  <2> QED
    BY <2>1, <2>2, <2>3, <2>4 DEF Next
<1>2. Typed => TypeOK
  <2> SUFFICES ASSUME Typed PROVE TypeOK
    OBVIOUS
  <2>1. NoRequest.msg = Nothing /\ NoRequest.to = <<>> /\ <<>> \in Seq(Channel)
    BY DEF NoRequest
  <2>2. gossip.msg \in FromPeers \cup {Nothing} /\ gossip.to \in Seq(Channel)
    BY <2>1 DEF PacketInv, GossipOK, HoldsOf
  <2>3. request.msg \in Requests \cup {Nothing} /\ request.to \in Seq(Channel)
    BY <2>1 DEF PacketInv, RequestOK, HoldsOf
  <2>4. \A m \in localOut \cup {held} :
          m \in Tx \cup {Nothing} \cup PeerBlocks \cup Rumors \cup Requests \/ m.by = Self
    BY DEF LocalInv, IsLocal, Mongerable
  <2> QED
    BY <2>2, <2>3, <2>4 DEF PacketInv, MinerInv, TypeOK
<1> QED
  BY <1>1, <1>2, InitTyped, PTL DEF Spec

(***************************************************************************)
(* A node that has a message on its way to the miner and cannot go on is   *)
(* stuck on a full stopMining: no other wait closes a circle.              *)
(***************************************************************************)
THEOREM OneWayToGetStuck == Spec => []StuckOnFullStops
PROOF
<1>1. TypeOK => StuckOnFullStops
  <2> SUFFICES ASSUME TypeOK, ~CanRun, localOut # {} \/ held # Nothing
               PROVE  /\ Len(stopMining) = StopCap
                      /\ bpc = "stop" /\ tpc = "wait" /\ held \notin Tx \cup {Nothing}
    BY DEF StuckOnFullStops
  <2>1. Started("dispatcher") /\ Started("miner")
    <3>1. main = "web"
      BY DEF CanRun
    <3>2. /\ DOMAIN Order = 1..7 /\ 2 \in 1..7 /\ 6 \in 1..7 /\ 7 \in 1..7
          /\ Order[2] = "dispatcher" /\ Order[6] = "miner" /\ Order[7] = "web"
      BY DEF Order
    <3> QED
      BY <3>1, <3>2 DEF Started
  <2>2. tpc = "wait"
    BY DEF CanRun
  <2>3. held # Nothing
    BY <2>1 DEF CanRun, CanReceive
  <2>4. held \notin Tx
    BY <2>1, <2>2 DEF CanRun, CanPassTransaction
  <2>5. bpc = "stop"
    BY <2>1, <2>3, <2>4 DEF CanRun, CanPassBlock, TypeOK
  <2>6. Len(stopMining) = StopCap
    BY <2>5, LenProperties, DispatcherAssumption
    DEF CanRun, CanStopMining, TypeOK, DispatcherAssumption
  <2> QED
    BY <2>2, <2>3, <2>4, <2>5, <2>6
<1> QED
  BY <1>1, TypeCorrect, PTL
=============================================================================
