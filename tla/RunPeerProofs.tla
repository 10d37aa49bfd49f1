---------------------------- MODULE RunPeerProofs ----------------------------
(***************************************************************************)
(* What TLAPS proves about runPeer and the IDs of the node's own messages, *)
(* for any number of packets, and for both kinds of build.                 *)
(***************************************************************************)
EXTENDS RunPeer, TLAPS, FiniteSetTheorems, FunctionTheorems, SequenceTheorems,
        NaturalsInduction, WellFoundedInduction

(***************************************************************************)
(* What a variable of a goroutine has once it has been read.               *)
(***************************************************************************)
Locals == \A k \in DOMAIN read :
  /\ pc[k] # "gossip" => gossip[k] \in Mongerable \cup Statuses
  /\ pc[k] \notin {"gossip", "address"} => address[k] \in Peer \cup {NoAddr}
  /\ pc[k] \in {"check", "lock", "update"} => gossip[k] \in Mongerable
  /\ pc[k] = "lock" => gossip[k] \in Own
  /\ pc[k] = "status" => gossip[k] \in Statuses

TypeInv == TypeOK /\ Locals

\* The goroutines are numbered like the packets.
LEMMA Numbers ==
  ASSUME TypeOK
  PROVE  Len(read) \in Nat /\ DOMAIN read = 1..Len(read)
PROOF
  BY LenProperties DEF TypeOK

\* A function on the goroutines is a sequence, and the other way round.
LEMMA LocalSeq ==
  ASSUME NEW n \in Nat, NEW S
  PROVE  /\ \A f \in [1..n -> S] : f \in Seq(S) /\ Len(f) = n
         /\ \A f \in Seq(S) : Len(f) = n => f \in [1..n -> S]
PROOF
  BY LenProperties

\* What the loop does to the locals when it reads a packet.
LEMMA ReadEffect ==
  ASSUME TypeOK, NEW p \in Packet, Read(p)
  PROVE  LET n == Len(read) + 1 IN
         /\ n \in Nat \ {0} /\ n <= MaxPackets /\ n \notin DOMAIN read
         /\ Len(read') = n /\ DOMAIN read' = DOMAIN read \cup {n}
         /\ TypeOK'
         /\ \A k \in DOMAIN read : /\ read'[k] = read[k] /\ pc'[k] = pc[k]
                                   /\ gossip'[k] = gossip[k] /\ address'[k] = address[k]
                                   /\ taken'[k] = taken[k]
         /\ read'[n] = p /\ pc'[n] = "gossip" /\ gossip'[n] = Nothing
         /\ address'[n] = Nothing /\ taken'[n] = 0
PROOF
<1> DEFINE n == Len(read) + 1
           Pcs == {"gossip", "address", "check", "lock", "update", "status", "done"}
<1>1. Len(read) \in Nat /\ DOMAIN read = 1..Len(read)
  BY Numbers
<1>2. read' \in Seq(Packet) /\ Len(read') = n
  BY AppendProperties DEF Read, TypeOK
<1>3. /\ \A k \in DOMAIN read : read'[k] = read[k]
      /\ read'[n] = p
  BY <1>1, AppendProperties DEF Read, TypeOK
<1>4. DOMAIN read' = 1..n /\ 1..n = DOMAIN read \cup {n}
  BY <1>1, <1>2, LenProperties
<1>5. n <= MaxPackets /\ n \in Nat \ {0} /\ n \notin DOMAIN read
  BY <1>1, RunPeerAssumption DEF Read, RunPeerAssumption
<1>6. /\ pc' \in [1..n -> Pcs]
      /\ \A k \in 1..Len(read) : pc'[k] = pc[k]
      /\ pc'[n] = "gossip"
  <2>1. pc \in [1..Len(read) -> Pcs]
    BY <1>1 DEF TypeOK
  <2>2. pc \in Seq(Pcs) /\ Len(pc) = Len(read) /\ "gossip" \in Pcs
    BY <1>1, <2>1, LocalSeq
  <2>3. /\ pc' \in Seq(Pcs) /\ Len(pc') = n
        /\ \A k \in 1..Len(read) : pc'[k] = pc[k]
        /\ pc'[n] = "gossip"
    BY <2>2, AppendProperties DEF Read
  <2>4. pc' \in [1..n -> Pcs]
    BY <1>5, <2>3, LocalSeq
  <2> QED
    BY <2>3, <2>4
<1>7. /\ gossip' \in [1..n -> Mongerable \cup Statuses \cup {Nothing}]
      /\ \A k \in 1..Len(read) : gossip'[k] = gossip[k]
      /\ gossip'[n] = Nothing
  <2>1. gossip \in [1..Len(read) -> Mongerable \cup Statuses \cup {Nothing}]
    BY <1>1 DEF TypeOK
  <2>2. gossip \in Seq(Mongerable \cup Statuses \cup {Nothing}) /\ Len(gossip) = Len(read) /\ Nothing \in Mongerable \cup Statuses \cup {Nothing}
    BY <1>1, <2>1, LocalSeq
  <2>3. /\ gossip' \in Seq(Mongerable \cup Statuses \cup {Nothing}) /\ Len(gossip') = n
        /\ \A k \in 1..Len(read) : gossip'[k] = gossip[k]
        /\ gossip'[n] = Nothing
    BY <2>2, AppendProperties DEF Read
  <2>4. gossip' \in [1..n -> Mongerable \cup Statuses \cup {Nothing}]
    BY <1>5, <2>3, LocalSeq
  <2> QED
    BY <2>3, <2>4
<1>8. /\ address' \in [1..n -> Peer \cup {NoAddr, Nothing}]
      /\ \A k \in 1..Len(read) : address'[k] = address[k]
      /\ address'[n] = Nothing
  <2>1. address \in [1..Len(read) -> Peer \cup {NoAddr, Nothing}]
    BY <1>1 DEF TypeOK
  <2>2. address \in Seq(Peer \cup {NoAddr, Nothing}) /\ Len(address) = Len(read) /\ Nothing \in Peer \cup {NoAddr, Nothing}
    BY <1>1, <2>1, LocalSeq
  <2>3. /\ address' \in Seq(Peer \cup {NoAddr, Nothing}) /\ Len(address') = n
        /\ \A k \in 1..Len(read) : address'[k] = address[k]
        /\ address'[n] = Nothing
    BY <2>2, AppendProperties DEF Read
  <2>4. address' \in [1..n -> Peer \cup {NoAddr, Nothing}]
    BY <1>5, <2>3, LocalSeq
  <2> QED
    BY <2>3, <2>4
<1>9. /\ taken' \in [1..n -> Nat]
      /\ \A k \in 1..Len(read) : taken'[k] = taken[k]
      /\ taken'[n] = 0
  <2>1. taken \in [1..Len(read) -> Nat]
    BY <1>1 DEF TypeOK
  <2>2. taken \in Seq(Nat) /\ Len(taken) = Len(read) /\ 0 \in Nat
    BY <1>1, <2>1, LocalSeq
  <2>3. /\ taken' \in Seq(Nat) /\ Len(taken') = n
        /\ \A k \in 1..Len(read) : taken'[k] = taken[k]
        /\ taken'[n] = 0
    BY <2>2, AppendProperties DEF Read
  <2>4. taken' \in [1..n -> Nat]
    BY <1>5, <2>3, LocalSeq
  <2> QED
    BY <2>3, <2>4
<1>10. TypeOK'
  BY <1>2, <1>4, <1>5, <1>6, <1>7, <1>8, <1>9 DEF Read, TypeOK, node
<1> QED
  BY <1>1, <1>2, <1>3, <1>4, <1>5, <1>6, <1>7, <1>8, <1>9, <1>10

\* What a goroutine finds in the loop variable is a packet that was read.
LEMMA LoopVariableType ==
  ASSUME TypeOK, NEW k \in DOMAIN read
  PROVE  /\ LoopVariable(k) \in Packet
         /\ LoopVariable(k).gossip \in Mongerable \cup Statuses
         /\ LoopVariable(k).address \in Peer \cup {NoAddr}
PROOF
<1>1. Len(read) \in DOMAIN read
  BY Numbers
<1>2. LoopVariable(k) \in Packet
  BY <1>1, Numbers, ElementOfSeq DEF LoopVariable, TypeOK
<1> QED
  BY <1>2 DEF Packet, Mongerable

(***************************************************************************)
(* NextID: there is a first ID without a message, and it is found among    *)
(* those up to one more than there are messages.                           *)
(***************************************************************************)
LEMMA LeastNatural ==
  ASSUME NEW T \in SUBSET Nat, T # {}
  PROVE  \E i \in T : \A j \in T : i <= j
PROOF
<1>1. PICK i \in T : \A j \in T : <<j, i>> \notin OpToRel(<, Nat)
  BY NatLessThanWellFounded, WFMin
<1>2. \A j \in T : ~(j < i)
  BY <1>1 DEF OpToRel
<1> QED
  BY <1>2

LEMMA NextIDIsFree ==
  ASSUME TypeOK
  PROVE  /\ NextID \in Nat \ {0}
         /\ NextID \notin DOMAIN messages
         /\ 1..(NextID - 1) \subseteq DOMAIN messages
PROOF
<1> DEFINE free == {i \in Nat \ {0} : i \notin DOMAIN messages}
<1>1. id \in free
  BY DEF TypeOK
<1>2. PICK i \in free : \A j \in free : i <= j
  BY <1>1, LeastNatural
<1>3. 1..(i - 1) \subseteq DOMAIN messages
  BY <1>2
<1>4. IsFiniteSet(DOMAIN messages) /\ Cardinality(DOMAIN messages) \in Nat
  <2>1. IsFiniteSet(1..(id - 1))
    BY FS_Interval DEF TypeOK
  <2> QED
    BY <2>1, FS_Subset, FS_CardinalityType DEF TypeOK
<1>5. Cardinality(1..(i - 1)) = i - 1
  BY <1>2, FS_Interval
<1>6. i - 1 <= Cardinality(DOMAIN messages)
  BY <1>3, <1>4, <1>5, FS_Subset
<1>7. i \in 1..(Cardinality(DOMAIN messages) + 1)
  BY <1>2, <1>4, <1>6
<1>8. NextID \in 1..(Cardinality(DOMAIN messages) + 1)
      /\ NextID \notin DOMAIN messages /\ 1..(NextID - 1) \subseteq DOMAIN messages
  BY <1>2, <1>3, <1>7 DEF NextID
<1> QED
  BY <1>4, <1>8

\* What is not in the store comes no earlier than its first hole.
LEMMA NewIsStored ==
  ASSUME TypeOK, NEW i \in Nat \ {0}, i \notin DOMAIN messages
  PROVE  i >= NextID
PROOF
  BY NextIDIsFree
-----------------------------------------------------------------------------
(***************************************************************************)
(* Type correctness.                                                       *)
(***************************************************************************)
LEMMA TypeInit == RunPeerAssumption /\ Init => TypeInv
PROOF
<1> SUFFICES ASSUME RunPeerAssumption, Init
             PROVE  TypeInv
  OBVIOUS
<1>1. DOMAIN read = {} /\ read \in Seq(Packet) /\ Len(read) = 0
  BY EmptySeq DEF Init
<1> QED
  BY <1>1 DEF Init, TypeInv, TypeOK, Locals, RunPeerAssumption

\* The loop.
LEMMA ReadType ==
  ASSUME TypeInv, NEW p \in Packet, Read(p)
  PROVE  TypeInv'
PROOF
<1>1. Locals'
  BY ReadEffect DEF TypeInv, Locals
<1> QED
  BY <1>1, ReadEffect DEF TypeInv

\* The steps of a goroutine.
LEMMA GoroutineType ==
  ASSUME RunPeerAssumption, TypeInv, NEW k \in DOMAIN read, Goroutine(k)
  PROVE  TypeInv'
PROOF
<1> USE DEF TypeInv
<1>1. CASE ReadGossip(k)
  BY <1>1, LoopVariableType DEF ReadGossip, TypeOK, Locals, node
<1>2. CASE ReadAddress(k)
  BY <1>2, LoopVariableType DEF ReadAddress, TypeOK, Locals, node, Mongerable
<1>3. CASE CheckSender(k)
  BY <1>3 DEF CheckSender, IsOurs, HasID, TypeOK, Locals, locals, Mongerable
<1>4. CASE GiveID(k)
  <2>1. id \in Nat \ {0} /\ gossip[k] \in Own /\ id \in 0..(id' - 1) /\ 0..(id - 1) \subseteq 0..(id' - 1)
        /\ 1..(id - 1) \subseteq 1..(id' - 1) /\ id' \in Nat \ {0}
    BY <1>4 DEF GiveID, TypeOK, Locals
  <2>2. msgID' \in [Own -> 0..(id' - 1)]
    BY <1>4, <2>1 DEF GiveID, TypeOK
  <2>3. TypeOK'
    BY <1>4, <2>1, <2>2 DEF GiveID, TypeOK
  <2>4. Locals'
    BY <1>4 DEF GiveID, TypeOK, Locals
  <2> QED
    BY <2>3, <2>4
<1>5. CASE Update(k)
  <2> DEFINE m == gossip[k]
  <2>1. DOMAIN messages' \subseteq 1..(id - 1) /\ \A i \in DOMAIN messages' : messages'[i] \in Own
    <3>1. CASE m \in Own /\ msgID[m] >= NextID
      <4>1. msgID[m] \in 1..(id - 1)
        BY <3>1, NextIDIsFree DEF TypeOK
      <4>2. messages' = Stored(m)
        BY <1>5, <3>1 DEF Update
      <4> QED
        BY <3>1, <4>1, <4>2 DEF Stored, TypeOK
    <3> QED
      BY <1>5, <3>1 DEF Update, TypeOK
  <2>2. TypeOK'
    BY <1>5, <2>1 DEF Update, TypeOK, locals
  <2>3. Locals'
    BY <1>5 DEF Update, TypeOK, Locals, locals
  <2> QED
    BY <2>2, <2>3
<1>6. CASE HandleStatus(k)
  BY <1>6 DEF HandleStatus, TypeOK, Locals, locals
<1> QED
  BY <1>1, <1>2, <1>3, <1>4, <1>5, <1>6 DEF Goroutine

LEMMA TypeStep ==
  ASSUME RunPeerAssumption, TypeInv, [Next]_vars
  PROVE  TypeInv'
PROOF
<1>1. CASE UNCHANGED vars
  BY <1>1 DEF vars, locals, node, TypeInv, TypeOK, Locals
<1> QED
  BY <1>1, ReadType, GoroutineType DEF Next

\* Every variable of the node and its goroutines keeps its type.
THEOREM TypeCorrect == Spec => []TypeOK
PROOF
<1>1. Init => TypeInv
  BY TypeInit, RunPeerAssumption
<1>2. TypeInv /\ [Next]_vars => TypeInv'
  BY TypeStep, RunPeerAssumption
<1>3. TypeInv => TypeOK
  BY DEF TypeInv
<1> QED
  BY <1>1, <1>2, <1>3, PTL DEF Spec
-----------------------------------------------------------------------------
(***************************************************************************)
(* The steps of the node, by what they do to the IDs.                      *)
(***************************************************************************)
LEMMA StepCases ==
  ASSUME [Next]_vars
  PROVE  \/ UNCHANGED vars
         \/ \E p \in Packet : Read(p)
         \/ \E k \in DOMAIN read :
              ReadGossip(k) \/ ReadAddress(k) \/ CheckSender(k) \/ HandleStatus(k)
         \/ \E k \in DOMAIN read : GiveID(k)
         \/ \E k \in DOMAIN read : Update(k)
PROOF
  BY DEF Next, Goroutine

\* An update stores the goroutine's message, or what was in the store stays.
LEMMA UpdateStores ==
  ASSUME TypeInv, NEW k \in DOMAIN read, Update(k)
  PROVE  /\ UNCHANGED <<perIteration, read, gossip, address, taken, id, msgID, peers>>
         /\ \/ messages' = messages
            \/ /\ gossip[k] \in Own /\ msgID[gossip[k]] \in 1..(id - 1)
               /\ messages' = Stored(gossip[k])
         /\ gossip[k] \in Own /\ msgID[gossip[k]] # 0 => msgID[gossip[k]] \in DOMAIN messages'
         /\ DOMAIN messages \subseteq DOMAIN messages'
PROOF
<1> DEFINE m == gossip[k]
<1>1. UNCHANGED <<perIteration, read, gossip, address, taken, id, msgID, peers>>
  BY DEF Update, locals
<1>2. m \in Own => msgID[m] \in 0..(id - 1) /\ id \in Nat
  BY DEF TypeInv, TypeOK
<1>3. CASE m \in Own /\ msgID[m] >= NextID
  <2>1. messages' = Stored(m)
    BY <1>3 DEF Update
  <2>2. msgID[m] \in 1..(id - 1)
    BY <1>2, <1>3, NextIDIsFree DEF TypeInv
  <2> QED
    BY <1>1, <1>3, <2>1, <2>2 DEF Stored
<1>4. CASE ~(m \in Own /\ msgID[m] >= NextID)
  <2>1. messages' = messages
    BY <1>4 DEF Update
  <2>2. m \in Own /\ msgID[m] # 0 => msgID[m] \in DOMAIN messages
    BY <1>2, <1>4, NewIsStored DEF TypeInv
  <2> QED
    BY <1>1, <2>1, <2>2
<1> QED
  BY <1>3, <1>4

\* Every step keeps an ID from naming two messages: the next one is above all
\* those in use, and it is read and increased under idMutex.
LEMMA NamesStep ==
  ASSUME TypeInv, IDNamesOne, [Next]_vars
  PROVE  IDNamesOne'
PROOF
<1>1. CASE UNCHANGED <<msgID, messages>>
  BY <1>1 DEF IDNamesOne
<1>2. ASSUME NEW k \in DOMAIN read, GiveID(k)
      PROVE  IDNamesOne'
  <2>1. gossip[k] \in Own /\ id \in Nat \ {0} /\ id \notin DOMAIN messages
    BY <1>2 DEF GiveID, TypeInv, TypeOK, Locals
  <2>2. \A m \in Own : msgID[m] \in 0..(id - 1) /\ msgID[m] # id
    BY <2>1 DEF TypeInv, TypeOK
  <2>3. /\ \A m \in Own : msgID'[m] = IF m = gossip[k] THEN id ELSE msgID[m]
        /\ messages' = messages
    BY <1>2, <2>1 DEF GiveID, TypeInv, TypeOK
  <2> QED
    BY <2>1, <2>2, <2>3 DEF IDNamesOne
<1>3. ASSUME NEW k \in DOMAIN read, Update(k)
      PROVE  IDNamesOne'
  <2> DEFINE m == gossip[k]
  <2>1. UNCHANGED msgID
    BY <1>3, UpdateStores
  <2>2. CASE messages' = messages
    BY <2>1, <2>2 DEF IDNamesOne
  <2>3. CASE m \in Own /\ msgID[m] \in 1..(id - 1) /\ messages' = Stored(m)
    <3>1. \A i \in DOMAIN messages' :
            i \in DOMAIN messages \cup {msgID[m]} /\ messages'[i] = IF i = msgID[m] THEN m ELSE messages[i]
      BY <2>3 DEF Stored
    <3>2. msgID[m] # 0
      BY <2>3
    <3> QED
      BY <2>1, <2>3, <3>1, <3>2 DEF IDNamesOne
  <2> QED
    BY <1>3, <2>2, <2>3, UpdateStores
<1>4. ASSUME NEW p \in Packet, Read(p)
      PROVE  IDNamesOne'
  BY <1>1, <1>4 DEF Read, node
<1>5. ASSUME NEW k \in DOMAIN read,
             ReadGossip(k) \/ ReadAddress(k) \/ CheckSender(k) \/ HandleStatus(k)
      PROVE  IDNamesOne'
  BY <1>1, <1>5 DEF ReadGossip, ReadAddress, CheckSender, HandleStatus, node
<1>6. CASE UNCHANGED vars
  BY <1>1, <1>6 DEF vars, node
<1> QED
  BY <1>2, <1>3, <1>4, <1>5, <1>6, StepCases

\* An ID never names two messages of the node, in either kind of build.
THEOREM NamesOne == Spec => []IDNamesOne
PROOF
<1>1. Init => TypeInv /\ IDNamesOne
  <2>1. Init => IDNamesOne
    BY DEF Init, IDNamesOne
  <2> QED
    BY <2>1, TypeInit, RunPeerAssumption
<1>2. TypeInv /\ IDNamesOne /\ [Next]_vars => TypeInv' /\ IDNamesOne'
  BY TypeStep, NamesStep, RunPeerAssumption
<1> QED
  BY <1>1, <1>2, PTL DEF Spec
-----------------------------------------------------------------------------
(***************************************************************************)
(* What a goroutine has found in the loop variable.  The last packet is    *)
(* what its goroutine finds there whatever the build.                      *)
(***************************************************************************)
LoopInv == \A k \in DOMAIN read : perIteration \/ k = Len(read) =>
  /\ pc[k] # "gossip" => gossip[k] = read[k].gossip
  /\ pc[k] \notin {"gossip", "address"} => address[k] = read[k].address

LEMMA LoopStep ==
  ASSUME TypeInv, LoopInv, [Next]_vars
  PROVE  LoopInv'
PROOF
<1>0. TypeOK /\ Len(read) \in Nat /\ DOMAIN read = 1..Len(read)
  BY Numbers DEF TypeInv
<1>1. CASE UNCHANGED vars
  BY <1>1 DEF vars, locals, LoopInv
<1>2. ASSUME NEW p \in Packet, Read(p)
      PROVE  LoopInv'
  <2>1. perIteration' = perIteration
    BY <1>2 DEF Read
  <2> QED
    BY <1>0, <1>2, <2>1, ReadEffect DEF LoopInv
<1>3. ASSUME NEW k \in DOMAIN read, Goroutine(k)
      PROVE  LoopInv'
  <2>1. perIteration \/ k = Len(read) => LoopVariable(k) = read[k]
    BY <1>0 DEF LoopVariable
  <2>2. CASE ReadGossip(k)
    BY <2>1, <2>2 DEF ReadGossip, LoopInv, TypeInv, TypeOK
  <2>3. CASE ReadAddress(k)
    BY <2>1, <2>3 DEF ReadAddress, LoopInv, TypeInv, TypeOK
  <2>4. CASE CheckSender(k) \/ GiveID(k) \/ Update(k) \/ HandleStatus(k)
    <3>1. UNCHANGED <<perIteration, read, gossip, address>> /\ pc[k] \notin {"gossip", "address"}
      BY <2>4 DEF CheckSender, GiveID, Update, HandleStatus, locals
    <3>2. \A j \in DOMAIN read : j # k => pc'[j] = pc[j]
      BY <2>4 DEF CheckSender, GiveID, Update, HandleStatus, TypeInv, TypeOK
    <3> QED
      BY <3>1, <3>2 DEF LoopInv
  <2> QED
    BY <1>3, <2>2, <2>3, <2>4 DEF Goroutine
<1> QED
  BY <1>1, <1>2, <1>3 DEF Next

\* The last packet is handled, with its own address, also where iterations
\* share the variable.
THEOREM LastIsHandled == Spec => []LastHandled
PROOF
<1>1. Init => TypeInv /\ LoopInv
  <2>1. Init => LoopInv
    BY DEF Init, LoopInv
  <2> QED
    BY <2>1, TypeInit, RunPeerAssumption
<1>2. TypeInv /\ LoopInv /\ [Next]_vars => TypeInv' /\ LoopInv'
  BY TypeStep, LoopStep, RunPeerAssumption
<1>3. TypeInv /\ LoopInv => LastHandled
  <2> SUFFICES ASSUME TypeInv, LoopInv, Quiet, read # <<>>
               PROVE  \E k \in DOMAIN read : /\ gossip[k] = read[Len(read)].gossip
                                             /\ address[k] = read[Len(read)].address
    BY DEF LastHandled
  <2>1. Len(read) \in DOMAIN read
    BY Numbers, EmptySeq DEF TypeInv, TypeOK
  <2>2. pc[Len(read)] = "done"
    BY <2>1 DEF Quiet, TypeInv, TypeOK
  <2> QED
    BY <2>1, <2>2 DEF LoopInv
<1> QED
  BY <1>1, <1>2, <1>3, PTL DEF Spec
-----------------------------------------------------------------------------
(***************************************************************************)
(* Who took which ID.  Each ID that was given is one goroutine's, and an   *)
(* own message has an ID that one of its goroutines took; where only one   *)
(* did, the message keeps that ID and is in the store under it when the    *)
(* goroutine is done.                                                      *)
(***************************************************************************)
GivenOnce(m) ==
  \A k1, k2 \in DOMAIN read :
    gossip[k1] = m /\ gossip[k2] = m /\ taken[k1] # 0 /\ taken[k2] # 0 => k1 = k2

TakenByOwn == \A k \in DOMAIN read : taken[k] # 0 =>
  taken[k] \in 1..(id - 1) /\ gossip[k] \in Own /\ pc[k] \in {"update", "done"}

TakenOnce == \A k1, k2 \in DOMAIN read : taken[k1] = taken[k2] /\ taken[k1] # 0 => k1 = k2

AllTaken == \A i \in 1..(id - 1) : \E k \in DOMAIN read : taken[k] = i

MessageTook == \A m \in Own : msgID[m] # 0 =>
  \E k \in DOMAIN read : gossip[k] = m /\ taken[k] = msgID[m]

KeptAndStored == \A k \in DOMAIN read : taken[k] # 0 /\ GivenOnce(gossip[k]) =>
  /\ msgID[gossip[k]] = taken[k]
  /\ pc[k] = "done" => taken[k] \in DOMAIN messages

TakenInv == TakenByOwn /\ TakenOnce /\ AllTaken /\ MessageTook /\ KeptAndStored

\* A step that takes no ID and handles no message with one.
LEMMA TakenUnchanged ==
  ASSUME TypeInv, TakenInv, UNCHANGED <<id, msgID, messages>>,
         DOMAIN read \subseteq DOMAIN read',
         \A k \in DOMAIN read : taken'[k] = taken[k] /\ (taken[k] # 0 => gossip'[k] = gossip[k] /\ pc'[k] = pc[k]),
         \A k \in DOMAIN read' : k \notin DOMAIN read => taken'[k] = 0
  PROVE  TakenInv'
PROOF
<1>1. TakenByOwn' /\ TakenOnce' /\ AllTaken'
  BY DEF TakenInv, TakenByOwn, TakenOnce, AllTaken
<1>2. MessageTook'
  BY DEF TakenInv, MessageTook
<1>3. \A k \in DOMAIN read' : taken'[k] # 0 => k \in DOMAIN read /\ taken[k] # 0
  OBVIOUS
<1>4. \A m : GivenOnce(m)' => GivenOnce(m)
  BY DEF GivenOnce
<1>5. KeptAndStored'
  BY <1>3, <1>4 DEF TakenInv, KeptAndStored
<1> QED
  BY <1>1, <1>2, <1>5 DEF TakenInv

\* The section under idMutex.
LEMMA TakenGiveID ==
  ASSUME TypeInv, TakenInv, NEW k \in DOMAIN read, GiveID(k)
  PROVE  TakenInv'
PROOF
<1> DEFINE m == gossip[k]
<1>1. /\ m \in Own /\ id \in Nat \ {0} /\ taken[k] = 0
      /\ \A j \in DOMAIN read : taken[j] \in Nat /\ taken[j] < id
  <2>1. m \in Own /\ id \in Nat \ {0}
    BY DEF GiveID, TypeInv, TypeOK, Locals
  <2>2. taken[k] = 0
    BY DEF GiveID, TakenInv, TakenByOwn
  <2>3. \A j \in DOMAIN read : taken[j] \in Nat
    BY DEF TypeInv, TypeOK
  <2>4. \A j \in DOMAIN read : taken[j] # 0 => taken[j] \in 1..(id - 1)
    BY DEF TakenInv, TakenByOwn
  <2> QED
    BY <2>1, <2>2, <2>3, <2>4
<1>2. /\ id' = id + 1 /\ UNCHANGED <<read, gossip, messages>>
      /\ \A j \in DOMAIN read : taken'[j] = IF j = k THEN id ELSE taken[j]
      /\ \A j \in DOMAIN read : pc'[j] = IF j = k THEN "update" ELSE pc[j]
      /\ \A n \in Own : msgID'[n] = IF n = m THEN id ELSE msgID[n]
  BY <1>1 DEF GiveID, TypeInv, TypeOK
<1>3. TakenByOwn'
  BY <1>1, <1>2 DEF TakenInv, TakenByOwn
<1>4. TakenOnce'
  BY <1>1, <1>2 DEF TakenInv, TakenOnce
<1>5. AllTaken'
  <2> SUFFICES ASSUME NEW i \in 1..(id' - 1)
               PROVE  \E j \in DOMAIN read : taken'[j] = i
    BY <1>2 DEF AllTaken
  <2>1. CASE i = id
    BY <1>2, <2>1
  <2>2. CASE i # id
    <3>1. PICK j \in DOMAIN read : taken[j] = i
      BY <1>1, <1>2, <2>2 DEF TakenInv, AllTaken
    <3>2. j # k
      BY <1>1, <3>1
    <3> QED
      BY <1>2, <3>1, <3>2
  <2> QED
    BY <2>1, <2>2
<1>6. MessageTook'
  <2> SUFFICES ASSUME NEW n \in Own, msgID'[n] # 0
               PROVE  \E j \in DOMAIN read : gossip[j] = n /\ taken'[j] = msgID'[n]
    BY <1>2 DEF MessageTook
  <2>1. CASE n = m
    BY <1>2, <2>1
  <2>2. CASE n # m
    BY <1>2, <2>2 DEF TakenInv, MessageTook
  <2> QED
    BY <2>1, <2>2
<1>7. KeptAndStored'
  <2> SUFFICES ASSUME NEW j \in DOMAIN read, taken'[j] # 0, GivenOnce(gossip[j])'
               PROVE  /\ msgID'[gossip[j]] = taken'[j]
                      /\ pc'[j] = "done" => taken'[j] \in DOMAIN messages
    BY <1>2 DEF KeptAndStored, GivenOnce
  <2>1. CASE j = k
    BY <1>1, <1>2, <2>1
  <2>2. CASE j # k
    <3>1. taken[j] # 0 /\ gossip[j] \in Own
      BY <1>2, <2>2 DEF TakenInv, TakenByOwn
    <3>2. gossip[j] # m
      BY <1>1, <1>2, <2>2 DEF GivenOnce
    <3>3. GivenOnce(gossip[j])
      BY <1>1, <1>2 DEF GivenOnce
    <3> QED
      BY <1>2, <2>2, <3>1, <3>2, <3>3 DEF TakenInv, KeptAndStored
  <2> QED
    BY <2>1, <2>2
<1> QED
  BY <1>3, <1>4, <1>5, <1>6, <1>7 DEF TakenInv

\* The store takes a message that kept its ID.
LEMMA TakenUpdate ==
  ASSUME TypeInv, TakenInv, NEW k \in DOMAIN read, Update(k)
  PROVE  TakenInv'
PROOF
<1>1. /\ UNCHANGED <<read, gossip, taken, id, msgID>>
      /\ gossip[k] \in Own /\ msgID[gossip[k]] # 0 => msgID[gossip[k]] \in DOMAIN messages'
      /\ DOMAIN messages \subseteq DOMAIN messages'
  BY UpdateStores
<1>2. \A j \in DOMAIN read : pc'[j] = IF j = k THEN "done" ELSE pc[j]
  BY DEF Update, TypeInv, TypeOK
<1>3. TakenByOwn' /\ TakenOnce' /\ AllTaken' /\ MessageTook'
  BY <1>1, <1>2 DEF TakenInv, TakenByOwn, TakenOnce, AllTaken, MessageTook
<1>4. \A j \in DOMAIN read : GivenOnce(gossip[j])' => GivenOnce(gossip[j])
  BY <1>1 DEF GivenOnce
<1>5. KeptAndStored'
  BY <1>1, <1>2, <1>4 DEF TakenInv, TakenByOwn, KeptAndStored
<1> QED
  BY <1>3, <1>5 DEF TakenInv

LEMMA TakenStep ==
  ASSUME TypeInv, TakenInv, [Next]_vars
  PROVE  TakenInv'
PROOF
<1>1. CASE UNCHANGED vars
  BY <1>1, TakenUnchanged DEF vars, locals, node
<1>2. ASSUME NEW p \in Packet, Read(p)
      PROVE  TakenInv'
  <2>1. UNCHANGED <<id, msgID, messages>>
    BY <1>2 DEF Read, node
  <2> QED
    BY <1>2, <2>1, ReadEffect, TakenUnchanged DEF TypeInv
<1>3. ASSUME NEW k \in DOMAIN read,
             ReadGossip(k) \/ ReadAddress(k) \/ CheckSender(k) \/ HandleStatus(k)
      PROVE  TakenInv'
  <2>1. UNCHANGED <<read, taken, id, msgID, messages>> /\ taken[k] = 0
    BY <1>3 DEF ReadGossip, ReadAddress, CheckSender, HandleStatus, locals, node, TakenInv, TakenByOwn
  <2>2. \A j \in DOMAIN read : j # k => gossip'[j] = gossip[j] /\ pc'[j] = pc[j]
    BY <1>3 DEF ReadGossip, ReadAddress, CheckSender, HandleStatus, locals, TypeInv, TypeOK
  <2> QED
    BY <2>1, <2>2, TakenUnchanged
<1> QED
  BY <1>1, <1>2, <1>3, TakenGiveID, TakenUpdate, StepCases

LEMMA TakenInit == Init => TakenInv
PROOF
  BY DEF Init, TakenInv, TakenByOwn, TakenOnce, AllTaken, MessageTook, KeptAndStored

\* The own IDs have a hole only where one message got two of them.
THEOREM HolesExplained == Spec => []HolesFromTwoIDs
PROOF
<1>1. Init => TypeInv /\ TakenInv
  BY TypeInit, TakenInit, RunPeerAssumption
<1>2. TypeInv /\ TakenInv /\ [Next]_vars => TypeInv' /\ TakenInv'
  BY TypeStep, TakenStep, RunPeerAssumption
<1>3. TypeInv /\ TakenInv => HolesFromTwoIDs
  <2> SUFFICES ASSUME TypeInv, TakenInv, Quiet, DOMAIN messages # 1..(id - 1)
               PROVE  \E k1, k2 \in DOMAIN read :
                        k1 # k2 /\ gossip[k1] = gossip[k2] /\ taken[k1] # 0 /\ taken[k2] # 0
    BY DEF HolesFromTwoIDs
  <2>1. PICK i \in 1..(id - 1) : i \notin DOMAIN messages
    BY DEF TypeInv, TypeOK
  <2>2. PICK k \in DOMAIN read : taken[k] = i
    BY DEF TakenInv, AllTaken
  <2>3. taken[k] # 0 /\ pc[k] = "done"
    BY <2>1, <2>2 DEF Quiet, TypeInv, TypeOK
  <2>4. ~GivenOnce(gossip[k])
    BY <2>1, <2>2, <2>3 DEF TakenInv, KeptAndStored
  <2> QED
    BY <2>4 DEF GivenOnce
<1> QED
  BY <1>1, <1>2, <1>3, PTL DEF Spec
-----------------------------------------------------------------------------
(***************************************************************************)
(* A build with one variable per iteration: a message of the node has one  *)
(* goroutine, which finds it without an ID and gives it one, and the peers *)
(* are the senders that goroutines have looked at.                         *)
(***************************************************************************)
OwnOnce == \A k1, k2 \in DOMAIN read :
  read[k1].gossip \in Own /\ read[k1].gossip = read[k2].gossip => k1 = k2

OwnTakes == perIteration => \A k \in DOMAIN read :
  gossip[k] \in Own /\ pc[k] \in {"update", "done"} => taken[k] # 0

Looked == {k \in DOMAIN read : pc[k] \in {"lock", "update", "done"}}
Senders == {address[k] : k \in Looked} \ {NoAddr}
PeersSent == perIteration => peers = Senders

OnceInv == OwnOnce /\ OwnTakes /\ PeersSent

\* The loop: the node creates a message once.
LEMMA OnceRead ==
  ASSUME TypeInv, OnceInv, NEW p \in Packet, Read(p)
  PROVE  OnceInv'
PROOF
<1> DEFINE n == Len(read) + 1
<1>1. /\ DOMAIN read' = DOMAIN read \cup {n} /\ n \notin DOMAIN read
      /\ \A k \in DOMAIN read : /\ read'[k] = read[k] /\ pc'[k] = pc[k]
                                /\ gossip'[k] = gossip[k] /\ address'[k] = address[k]
                                /\ taken'[k] = taken[k]
      /\ read'[n] = p /\ pc'[n] = "gossip"
  BY ReadEffect DEF TypeInv
<1>2. /\ UNCHANGED <<perIteration, peers>>
      /\ p.gossip \in Own => \A k \in DOMAIN read : read[k].gossip # p.gossip
  BY DEF Read, node
<1>3. OwnOnce'
  BY <1>1, <1>2 DEF OnceInv, OwnOnce
<1>4. OwnTakes'
  BY <1>1, <1>2 DEF OnceInv, OwnTakes
<1>5. Looked' = Looked
  BY <1>1 DEF Looked
<1>6. Senders' = Senders
  BY <1>1, <1>5 DEF Senders, Looked
<1> QED
  BY <1>2, <1>3, <1>4, <1>6 DEF OnceInv, PeersSent

\* A goroutine that has not looked at the address, and does not now.
LEMMA OnceReads ==
  ASSUME TypeInv, OnceInv, NEW k \in DOMAIN read, ReadGossip(k) \/ ReadAddress(k)
  PROVE  OnceInv'
PROOF
<1>1. /\ UNCHANGED <<perIteration, read, taken, peers>>
      /\ pc[k] \in {"gossip", "address"} /\ pc'[k] \in {"address", "check", "status"}
      /\ \A j \in DOMAIN read : j # k => /\ pc'[j] = pc[j] /\ gossip'[j] = gossip[j]
                                         /\ address'[j] = address[j]
  BY DEF ReadGossip, ReadAddress, node, TypeInv, TypeOK
<1>2. Looked' = Looked /\ k \notin Looked
  BY <1>1 DEF Looked
<1>3. Senders' = Senders
  BY <1>1, <1>2 DEF Senders, Looked
<1> QED
  BY <1>1, <1>3 DEF OnceInv, OwnOnce, OwnTakes, PeersSent

\* What the goroutine of packet k has, in a build with a variable for each.
LEMMA OwnPacket ==
  ASSUME RunPeerAssumption, TypeInv, LoopInv, perIteration, NEW k \in DOMAIN read,
         pc[k] \notin {"gossip", "address"}
  PROVE  /\ gossip[k] = read[k].gossip /\ address[k] = read[k].address
         /\ gossip[k] \in Own <=> address[k] = NoAddr
         /\ gossip[k] \notin Own => address[k] \in Peer
PROOF
<1>1. gossip[k] = read[k].gossip /\ address[k] = read[k].address
  BY DEF LoopInv
<1>2. read[k] \in Packet
  BY Numbers, ElementOfSeq DEF TypeInv, TypeOK
<1> QED
  BY <1>1, <1>2 DEF Packet, RunPeerAssumption

\* The look at the address: an own message has no ID yet.
LEMMA OnceCheck ==
  ASSUME RunPeerAssumption, TypeInv, LoopInv, TakenInv, OnceInv,
         NEW k \in DOMAIN read, CheckSender(k)
  PROVE  OnceInv'
PROOF
<1>1. /\ UNCHANGED <<perIteration, read, gossip, address, taken>>
      /\ peers' = peers \cup ({address[k]} \ {NoAddr})
      /\ pc[k] = "check" /\ pc'[k] \in {"lock", "update"}
      /\ \A j \in DOMAIN read : j # k => pc'[j] = pc[j]
  BY DEF CheckSender, IsOurs, locals, TypeInv, TypeOK
<1>2. OwnOnce'
  BY <1>1 DEF OnceInv, OwnOnce
<1>3. ASSUME perIteration, gossip[k] \in Own
      PROVE  pc'[k] = "lock"
  <2>1. IsOurs(k)
    BY <1>1, <1>3, OwnPacket DEF IsOurs
  <2>2. msgID[gossip[k]] = 0
    <3> SUFFICES ASSUME msgID[gossip[k]] # 0
                 PROVE  FALSE
      OBVIOUS
    <3>1. PICK j \in DOMAIN read : gossip[j] = gossip[k] /\ taken[j] = msgID[gossip[k]]
      BY <1>3 DEF TakenInv, MessageTook
    <3>2. pc[j] \in {"update", "done"}
      BY <3>1 DEF TakenInv, TakenByOwn
    <3>3. read[j].gossip = gossip[j] /\ read[k].gossip = gossip[k]
      BY <1>1, <1>3, <3>2, OwnPacket
    <3>4. j = k
      BY <1>3, <3>1, <3>3 DEF OnceInv, OwnOnce
    <3> QED
      BY <1>1, <3>2, <3>4
  <2>3. ~HasID(k)
    BY <1>3, <2>2 DEF HasID, RunPeerAssumption
  <2> QED
    BY <2>1, <2>3 DEF CheckSender, TypeInv, TypeOK
<1>4. OwnTakes'
  BY <1>1, <1>3 DEF OnceInv, OwnTakes
<1>5. Looked' = Looked \cup {k}
  BY <1>1 DEF Looked
<1>6. Senders' = Senders \cup ({address[k]} \ {NoAddr})
  BY <1>1, <1>5 DEF Senders
<1> QED
  BY <1>1, <1>2, <1>4, <1>6 DEF OnceInv, PeersSent

\* The ID, the store, and a status.
LEMMA OnceHandles ==
  ASSUME RunPeerAssumption, TypeInv, LoopInv, OnceInv, NEW k \in DOMAIN read,
         GiveID(k) \/ Update(k) \/ HandleStatus(k)
  PROVE  OnceInv'
PROOF
<1>1. /\ UNCHANGED <<perIteration, read, gossip, address>>
      /\ pc[k] \in {"lock", "update", "status"} /\ pc'[k] \in {"update", "done"}
      /\ \A j \in DOMAIN read : j # k => pc'[j] = pc[j] /\ taken'[j] = taken[j]
  BY DEF GiveID, Update, HandleStatus, locals, TypeInv, TypeOK
<1>2. OwnOnce'
  BY <1>1 DEF OnceInv, OwnOnce
<1>3. perIteration /\ gossip[k] \in Own => taken'[k] # 0
  <2>1. CASE GiveID(k)
    BY <2>1 DEF GiveID, TypeInv, TypeOK
  <2>2. CASE Update(k)
    BY <2>2 DEF Update, locals, OnceInv, OwnTakes
  <2>3. CASE HandleStatus(k)
    BY <2>3 DEF HandleStatus, TypeInv, Locals, RunPeerAssumption
  <2> QED
    BY <2>1, <2>2, <2>3
<1>4. OwnTakes'
  BY <1>1, <1>3 DEF OnceInv, OwnTakes
<1>5. Looked' = Looked \cup {k}
  BY <1>1 DEF Looked
<1>6. Senders' = Senders \cup ({address[k]} \ {NoAddr})
  BY <1>1, <1>5 DEF Senders
<1>7. CASE GiveID(k) \/ Update(k)
  <2>1. peers' = peers /\ k \in Looked
    BY <1>7 DEF GiveID, Update, Looked
  <2>2. Senders' = Senders
    BY <1>6, <2>1 DEF Senders
  <2> QED
    BY <1>1, <1>2, <1>4, <2>1, <2>2 DEF OnceInv, PeersSent
<1>8. CASE HandleStatus(k)
  <2>1. peers' = peers \cup {address[k]} /\ pc[k] = "status" /\ gossip[k] \notin Own
    BY <1>8 DEF HandleStatus, TypeInv, Locals, RunPeerAssumption
  <2>2. perIteration => address[k] # NoAddr
    BY <2>1, OwnPacket
  <2>3. PeersSent'
    BY <1>1, <1>6, <2>1, <2>2 DEF OnceInv, PeersSent
  <2> QED
    BY <1>2, <1>4, <2>3 DEF OnceInv
<1> QED
  BY <1>7, <1>8

LEMMA OnceStep ==
  ASSUME RunPeerAssumption, TypeInv, LoopInv, TakenInv, OnceInv, [Next]_vars
  PROVE  OnceInv'
PROOF
<1>1. CASE UNCHANGED vars
  BY <1>1 DEF vars, locals, node, OnceInv, OwnOnce, OwnTakes, PeersSent, Senders, Looked
<1> QED
  BY <1>1, OnceRead, OnceReads, OnceCheck, OnceHandles, StepCases

\* Each own message has the ID that its goroutine took, and there are as many
\* in the store as were read.
LEMMA OwnStored ==
  ASSUME RunPeerAssumption, TypeInv, IDNamesOne, LoopInv, TakenInv, OnceInv, perIteration, Quiet
  PROVE  LET owners == {k \in DOMAIN read : read[k].gossip \in Own} IN
         /\ \A k \in owners : /\ msgID[read[k].gossip] \in DOMAIN messages
                              /\ messages[msgID[read[k].gossip]] = read[k].gossip
         /\ Cardinality(DOMAIN messages) = Cardinality(owners)
PROOF
<1> DEFINE owners == {k \in DOMAIN read : read[k].gossip \in Own}
<1>1. \A k \in DOMAIN read : pc[k] = "done" /\ gossip[k] = read[k].gossip
  BY OwnPacket DEF Quiet, TypeInv, TypeOK
<1>2. \A k \in owners : taken[k] # 0
  BY <1>1 DEF OnceInv, OwnTakes
<1>3. \A m \in Own : GivenOnce(m)
  BY <1>1 DEF GivenOnce, OnceInv, OwnOnce
<1>4. \A k \in owners : msgID[gossip[k]] = taken[k] /\ taken[k] \in DOMAIN messages
  BY <1>1, <1>2, <1>3 DEF TakenInv, KeptAndStored
<1>5. \A k \in owners : /\ msgID[read[k].gossip] \in DOMAIN messages
                        /\ messages[msgID[read[k].gossip]] = read[k].gossip
  BY <1>1, <1>4 DEF IDNamesOne
<1> DEFINE f == [k \in owners |-> taken[k]]
<1>6. f \in [owners -> DOMAIN messages]
  BY <1>4
<1>7. \A j, k \in owners : f[j] = f[k] => j = k
  BY <1>2 DEF TakenInv, TakenOnce
<1>8. \A i \in DOMAIN messages : \E k \in owners : f[k] = i
  <2> TAKE i \in DOMAIN messages
  <2>1. i \in 1..(id - 1) /\ i # 0
    BY DEF TypeInv, TypeOK
  <2>2. PICK k \in DOMAIN read : taken[k] = i
    BY <2>1 DEF TakenInv, AllTaken
  <2>3. k \in owners
    BY <1>1, <2>1, <2>2 DEF TakenInv, TakenByOwn
  <2> QED
    BY <2>2, <2>3
<1>9. f \in Bijection(owners, DOMAIN messages)
  BY <1>6, <1>7, <1>8 DEF Bijection, Injection, Surjection, IsInjective
<1>10. IsFiniteSet(owners)
  <2>1. IsFiniteSet(1..Len(read))
    BY Numbers, FS_Interval DEF TypeInv
  <2> QED
    BY <2>1, Numbers, FS_Subset DEF TypeInv
<1>11. Cardinality(DOMAIN messages) = Cardinality(owners)
  BY <1>9, <1>10, FS_Bijection DEF ExistsBijection
<1> QED
  BY <1>5, <1>11

\* A build with one variable per iteration handles every packet once, with its
\* own address, and gives every own message an ID under which it is stored.
THEOREM EachOnce == Spec => []EachHandledOnce
PROOF
<1> DEFINE Inv == TypeInv /\ IDNamesOne /\ LoopInv /\ TakenInv /\ OnceInv
<1>1. Init => Inv
  <2>1. Init => IDNamesOne /\ LoopInv
    BY DEF Init, IDNamesOne, LoopInv
  <2>2. Init => OnceInv
    BY DEF Init, OnceInv, OwnOnce, OwnTakes, PeersSent, Senders, Looked
  <2> QED
    BY <2>1, <2>2, TypeInit, TakenInit, RunPeerAssumption
<1>2. Inv /\ [Next]_vars => Inv'
  BY TypeStep, NamesStep, LoopStep, TakenStep, OnceStep, RunPeerAssumption
<1>3. Inv => EachHandledOnce
  <2> SUFFICES ASSUME Inv, perIteration, Quiet
               PROVE  /\ \A k \in DOMAIN read :
                           [gossip |-> gossip[k], address |-> address[k]] = read[k]
                      /\ peers = {read[k].address : k \in DOMAIN read} \ {NoAddr}
    BY OwnStored, RunPeerAssumption DEF EachHandledOnce
  <2>1. \A k \in DOMAIN read : pc[k] = "done"
    BY DEF Quiet, TypeInv, TypeOK
  <2>2. \A k \in DOMAIN read : gossip[k] = read[k].gossip /\ address[k] = read[k].address
    BY <2>1 DEF LoopInv
  <2>3. \A k \in DOMAIN read : read[k] \in Packet
    BY Numbers, ElementOfSeq DEF TypeInv, TypeOK
  <2>4. \A k \in DOMAIN read : [gossip |-> gossip[k], address |-> address[k]] = read[k]
    BY <2>2, <2>3 DEF Packet
  <2>5. Senders = {read[k].address : k \in DOMAIN read} \ {NoAddr}
    BY <2>1, <2>2 DEF Senders, Looked
  <2> QED
    BY <2>4, <2>5 DEF OnceInv, PeersSent
<1> QED
  BY <1>1, <1>2, <1>3, PTL DEF Spec
=============================================================================
