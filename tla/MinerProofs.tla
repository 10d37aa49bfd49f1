----------------------------- MODULE MinerProofs -----------------------------
(***************************************************************************)
(* What TLAPS proves about the miners, for any set of nodes, of            *)
(* transactions and of transactions that get lost, and for any capacity of *)
(* the channel stopMining: the chains are linked and numbered, the slices  *)
(* that the pool and the blocks share keep to their arrays, and the pool   *)
(* keeps what no block confirms.                                           *)
(***************************************************************************)
EXTENDS Miner, SequenceTheorems, FiniteSetTheorems, NaturalsInduction,
        WellFoundedInduction, TLAPS

(***************************************************************************)
(* The variables of listenBlocks hold one value per node, and the chains   *)
(* are sequences.  Their elements have no type of their own: a hash is a   *)
(* record that contains the hash before it.                                *)
(***************************************************************************)
Shaped == /\ \E S : chain \in [Node -> Seq(S)]
          /\ \E B : block \in [Node -> B]
          /\ bpc \in [Node -> {"wait", "stop", "append", "add", "remove"}]

\* What listenBlocks has checked of a block before it takes it.
Hashed(c) == c.hash.prev = c.prev /\ c.hash.id = c.id /\ c.hash # GenesisHash

IsEntry(c) == c = [id |-> c.id, prev |-> c.prev, hash |-> c.hash] /\ Hashed(c)

\* The chains are linked, and the block at hand continues the chain.
ChainInv ==
  \A n \in Node :
    /\ Len(chain[n]) \in Nat \ {0}
    /\ chain[n][1] = Genesis
    /\ \A i \in 2..Len(chain[n]) : /\ IsEntry(chain[n][i])
                                   /\ chain[n][i].prev = chain[n][i - 1].hash
    /\ bpc[n] \in {"stop", "append"} => Hashed(block[n]) /\ block[n].prev = LastHash(n)
    /\ bpc[n] = "stop" => block[n].id = Len(chain[n])

\* What AppendBlock puts on the chain.
NewEntry(n) == [id |-> block[n].id, prev |-> block[n].prev, hash |-> block[n].hash]

(***************************************************************************)
(* A header is never taken for the hash of the genesis block.              *)
(***************************************************************************)
LEMMA HeaderHashed ==
  ASSUME NEW n, NEW b, NEW named
  PROVE  /\ Header(n, b, named).prev = b.prev
         /\ Header(n, b, named).id = b.id
         /\ Header(n, b, named) # GenesisHash
PROOF
<1>1. "prev" \in DOMAIN Header(n, b, named)
  BY DEF Header
<1>2. "prev" \notin DOMAIN GenesisHash
  BY DEF GenesisHash
<1> QED
  BY <1>1, <1>2 DEF Header

\* The genesis block has the shape of a block on a chain.
LEMMA ShapedInit ==
  Init => Shaped
PROOF
<1> SUFFICES ASSUME Init PROVE Shaped
  OBVIOUS
<1>1. <<Genesis>> \in Seq({Genesis})
  OBVIOUS
<1>2. chain \in [Node -> Seq({Genesis})]
  BY <1>1 DEF Init
<1>3. block \in [Node -> {NoBlock}]
  BY DEF Init
<1> QED
  BY <1>2, <1>3 DEF Init, Shaped

(***************************************************************************)
(* A step leaves alone what listenBlocks works on, unless it is a step of  *)
(* listenBlocks.                                                           *)
(***************************************************************************)
Accepts(n) ==
  \E b : /\ bpc[n] = "wait" /\ Hashed(b) /\ b.prev = LastHash(n)
         /\ \/ bpc' = [bpc EXCEPT ![n] = "stop"] /\ b.id = Len(chain[n])
            \/ bpc' = [bpc EXCEPT ![n] = "append"]
         /\ block' = [block EXCEPT ![n] = b]
         /\ UNCHANGED <<chain, stopMining>>

\* listenBlocks accepts a valid block that fits the chain, or leaves the chain alone.
LEMMA HandleBlockCases ==
  ASSUME NEW n, NEW b, HandleBlock(n, b)
  PROVE  Accepts(n) \/ UNCHANGED <<chain, bpc, block, stopMining>>
PROOF
<1>1. UNCHANGED <<chain, stopMining>> /\ bpc[n] = "wait"
  BY DEF HandleBlock
<1>2. HashesValid(n, b) => Hashed(b)
  BY HeaderHashed DEF HashesValid, Hashed
<1>3. CASE /\ HashesValid(n, b) /\ IsNext(n, b)
           /\ bpc' = [bpc EXCEPT ![n] = "stop"]
           /\ block' = [block EXCEPT ![n] = b]
  BY <1>1, <1>2, <1>3 DEF Accepts, IsNext
<1>4. CASE /\ HashesValid(n, b) /\ IsFork(n, b)
           /\ bpc' = [bpc EXCEPT ![n] = "append"]
           /\ block' = [block EXCEPT ![n] = b]
  BY <1>1, <1>2, <1>4 DEF Accepts, IsFork
<1>5. CASE UNCHANGED <<bpc, block>>
  BY <1>1, <1>5
<1> QED
  BY <1>3, <1>4, <1>5 DEF HandleBlock

\* The steps that matter to the chain and to stopMining.
LEMMA StepCases ==
  ASSUME [Next]_vars
  PROVE  \/ UNCHANGED <<chain, bpc, block, stopMining>>
         \/ \E n \in Node :
              \/ TakeStop(n) /\ UNCHANGED <<chain, bpc, block>>
              \/ Accepts(n)
              \/ StopMining(n) \/ AppendBlock(n) \/ AddTransactions(n)
              \/ RemoveConfirmedTx(n)
PROOF
<1>1. CASE UNCHANGED vars
  BY <1>1 DEF vars, blockVars, chainVars
<1>2. CASE Next
  <2> PICK n \in Node : Step(n)
    BY <1>2 DEF Next
  <2>1. ASSUME NEW m \in sentTxs, AddTransaction(n, m)
        PROVE  UNCHANGED <<chain, bpc, block, stopMining>>
    BY <2>1 DEF AddTransaction, blockVars, chainVars
  <2>2. CASE ReadID(n) \/ ReadPrevHash(n) \/ CheckTransactionsCreate(n)
    BY <2>2 DEF ReadID, ReadPrevHash, CheckTransactionsCreate, blockVars, chainVars
  <2>3. CASE NoStop(n) \/ WrongNonce(n) \/ Publish(n)
    BY <2>3 DEF NoStop, WrongNonce, Publish, blockVars, chainVars
  <2>4. CASE TakeStop(n)
    BY <2>4 DEF TakeStop, blockVars, chainVars
  <2>5. ASSUME NEW b, HandleBlock(n, b)
        PROVE  Accepts(n) \/ UNCHANGED <<chain, bpc, block, stopMining>>
    BY <2>5, HandleBlockCases
  <2> QED
    BY <2>1, <2>2, <2>3, <2>4, <2>5 DEF Step
<1> QED
  BY <1>1, <1>2

\* A sequence over a set is one over a larger set.
LEMMA WiderSeq ==
  ASSUME NEW S, NEW e, NEW s \in Seq(S)
  PROVE  s \in Seq(S \cup {e})
PROOF
  OBVIOUS

\* Every step keeps the shape of the chain and of the block at hand.
LEMMA ShapedStep ==
  Shaped /\ [Next]_vars => Shaped'
PROOF
<1> SUFFICES ASSUME Shaped, [Next]_vars PROVE Shaped'
  OBVIOUS
<1> PICK S : chain \in [Node -> Seq(S)]
  BY DEF Shaped
<1> PICK B : block \in [Node -> B]
  BY DEF Shaped
<1>1. CASE UNCHANGED <<chain, bpc, block>>
  BY <1>1 DEF Shaped
<1>2. ASSUME NEW n \in Node, Accepts(n) PROVE Shaped'
  <2> PICK b : block' = [block EXCEPT ![n] = b]
    BY <1>2 DEF Accepts
  <2>1. block' \in [Node -> B \cup {b}]
    OBVIOUS
  <2>2. chain' \in [Node -> Seq(S)]
    BY <1>2 DEF Accepts
  <2>3. bpc' \in [Node -> {"wait", "stop", "append", "add", "remove"}]
    BY <1>2 DEF Accepts, Shaped
  <2> QED
    BY <2>1, <2>2, <2>3 DEF Shaped
<1>3. ASSUME NEW n \in Node, AppendBlock(n) PROVE Shaped'
  <2>1. chain' = [chain EXCEPT ![n] = Append(@, NewEntry(n))]
    BY <1>3 DEF AppendBlock, NewEntry
  <2>2. \A m \in Node : chain[m] \in Seq(S \cup {NewEntry(n)})
    BY WiderSeq
  <2>3. Append(chain[n], NewEntry(n)) \in Seq(S \cup {NewEntry(n)})
    BY <2>2, AppendProperties
  <2>4. chain' \in [Node -> Seq(S \cup {NewEntry(n)})]
    BY <2>1, <2>2, <2>3
  <2>5. block' = block /\ bpc' \in [Node -> {"wait", "stop", "append", "add", "remove"}]
    BY <1>3 DEF AppendBlock, Shaped
  <2> QED
    BY <2>4, <2>5, ZenonT(60) DEF Shaped
<1>4. ASSUME NEW n \in Node, StopMining(n) \/ AddTransactions(n) PROVE Shaped'
  BY <1>4, ZenonT(60) DEF StopMining, AddTransactions, Shaped, chainVars
<1>5. ASSUME NEW n \in Node, RemoveConfirmedTx(n) PROVE Shaped'
  <2>1. block' \in [Node -> B \cup {NoBlock}]
    BY <1>5 DEF RemoveConfirmedTx
  <2> QED
    BY <1>5, <2>1 DEF RemoveConfirmedTx, Shaped, chainVars
<1> QED
  BY <1>1, <1>2, <1>3, <1>4, <1>5, StepCases

(***************************************************************************)
(* Every chain grows at its end only, by the block that listenBlocks holds *)
(* in "append".                                                            *)
(***************************************************************************)
Extends(n) ==
  /\ chain' = [chain EXCEPT ![n] = Append(chain[n], NewEntry(n))]
  /\ bpc[n] = "append" /\ bpc' = [bpc EXCEPT ![n] = "add"]
  /\ UNCHANGED <<block, stopMining>>

\* AppendBlock extends one chain by the header of the block at hand.
LEMMA AppendExtends ==
  ASSUME NEW n, AppendBlock(n)
  PROVE  Extends(n)
PROOF
  BY DEF AppendBlock, Extends, NewEntry

\* What an extended chain holds.
LEMMA ExtendedChain ==
  ASSUME Shaped, NEW n \in Node, Extends(n)
  PROVE  /\ Len(chain[n]) \in Nat
         /\ Len(chain'[n]) = Len(chain[n]) + 1
         /\ \A i \in 1..Len(chain[n]) : chain'[n][i] = chain[n][i]
         /\ chain'[n][Len(chain[n]) + 1] = NewEntry(n)
         /\ \A m \in Node \ {n} : chain'[m] = chain[m]
PROOF
<1> PICK S : chain \in [Node -> Seq(S)]
  BY DEF Shaped
<1>1. chain[n] \in Seq(S \cup {NewEntry(n)})
  BY WiderSeq
<1>2. chain'[n] = Append(chain[n], NewEntry(n))
  BY DEF Extends
<1>3. Len(chain[n]) \in Nat
  BY LenProperties
<1> QED
  BY <1>1, <1>2, <1>3, AppendProperties DEF Extends

\* A chain of the genesis block alone is linked.
LEMMA ChainInvInit ==
  Init => ChainInv
PROOF
<1> SUFFICES ASSUME Init PROVE ChainInv
  OBVIOUS
<1>1. ASSUME NEW n \in Node
      PROVE  chain[n] = <<Genesis>> /\ Len(chain[n]) = 1 /\ bpc[n] = "wait"
  BY DEF Init
<1> QED
  BY <1>1 DEF ChainInv

\* Every step keeps the chains linked and the block at hand fitting its chain.
LEMMA ChainInvStep ==
  Shaped /\ ChainInv /\ [Next]_vars => ChainInv'
PROOF
<1> SUFFICES ASSUME Shaped, ChainInv, [Next]_vars PROVE ChainInv'
  OBVIOUS
<1>1. CASE UNCHANGED <<chain, bpc, block>>
  BY <1>1 DEF ChainInv, LastHash
<1>2. ASSUME NEW n \in Node, Accepts(n) PROVE ChainInv'
  <2> PICK b : /\ bpc[n] = "wait" /\ Hashed(b) /\ b.prev = LastHash(n)
               /\ \/ bpc' = [bpc EXCEPT ![n] = "stop"] /\ b.id = Len(chain[n])
                  \/ bpc' = [bpc EXCEPT ![n] = "append"]
               /\ block' = [block EXCEPT ![n] = b]
               /\ UNCHANGED <<chain, stopMining>>
    BY <1>2 DEF Accepts
  <2> SUFFICES ASSUME NEW m \in Node
               PROVE  /\ bpc'[m] \in {"stop", "append"} =>
                           Hashed(block'[m]) /\ block'[m].prev = LastHash(m)
                      /\ bpc'[m] = "stop" => block'[m].id = Len(chain[m])
    BY DEF ChainInv, LastHash
  <2>1. CASE m = n
    BY <2>1 DEF Shaped
  <2>2. CASE m # n
    <3>1. bpc'[m] = bpc[m] /\ block'[m] = block[m]
      BY <2>2 DEF Shaped
    <3> QED
      BY <3>1 DEF ChainInv
  <2> QED
    BY <2>1, <2>2
<1>3. ASSUME NEW n \in Node, AppendBlock(n) PROVE ChainInv'
  <2>1. Extends(n)
    BY <1>3, AppendExtends
  <2>2. /\ Len(chain[n]) \in Nat
        /\ Len(chain'[n]) = Len(chain[n]) + 1
        /\ \A i \in 1..Len(chain[n]) : chain'[n][i] = chain[n][i]
        /\ chain'[n][Len(chain[n]) + 1] = NewEntry(n)
        /\ \A m \in Node \ {n} : chain'[m] = chain[m]
    BY <2>1, ExtendedChain
  <2>3. Hashed(block[n]) /\ block[n].prev = LastHash(n)
    BY <2>1 DEF Extends, ChainInv
  <2>4. IsEntry(NewEntry(n)) /\ NewEntry(n).prev = chain[n][Len(chain[n])].hash
    BY <2>3 DEF IsEntry, NewEntry, Hashed, LastHash
  <2> SUFFICES ASSUME NEW m \in Node
               PROVE  /\ Len(chain'[m]) \in Nat \ {0}
                      /\ chain'[m][1] = Genesis
                      /\ \A i \in 2..Len(chain'[m]) :
                           /\ IsEntry(chain'[m][i])
                           /\ chain'[m][i].prev = chain'[m][i - 1].hash
                      /\ bpc'[m] \in {"stop", "append"} =>
                           Hashed(block'[m]) /\ block'[m].prev = LastHash(m)'
                      /\ bpc'[m] = "stop" => block'[m].id = Len(chain'[m])
    BY DEF ChainInv
  <2>5. CASE m = n
    <3>1. Len(chain'[n]) \in Nat \ {0} /\ chain'[n][1] = Genesis
      BY <2>2, SMTT(30) DEF ChainInv
    <3>2. ASSUME NEW i \in 2..Len(chain'[n])
          PROVE  IsEntry(chain'[n][i]) /\ chain'[n][i].prev = chain'[n][i - 1].hash
      <4>1. CASE i = Len(chain[n]) + 1
        <5>1. chain'[n][i - 1] = chain[n][Len(chain[n])]
          BY <2>2, <4>1
        <5> QED
          BY <2>2, <2>4, <4>1, <5>1
      <4>2. CASE i \in 2..Len(chain[n])
        <5>1. chain'[n][i] = chain[n][i] /\ chain'[n][i - 1] = chain[n][i - 1]
          BY <2>2, <4>2
        <5> QED
          BY <4>2, <5>1 DEF ChainInv
      <4> QED
        BY <2>2, <4>1, <4>2
    <3>3. bpc'[n] = "add"
      BY <2>1 DEF Extends, Shaped
    <3> QED
      BY <2>5, <3>1, <3>2, <3>3
  <2>6. CASE m # n
    <3>1. chain'[m] = chain[m] /\ bpc'[m] = bpc[m] /\ block'[m] = block[m]
      BY <2>1, <2>2, <2>6 DEF Extends, Shaped
    <3> QED
      BY <3>1 DEF ChainInv, LastHash
  <2> QED
    BY <2>5, <2>6
<1>4. ASSUME NEW n \in Node,
             StopMining(n) \/ AddTransactions(n) \/ RemoveConfirmedTx(n)
      PROVE  ChainInv'
  <2>1. UNCHANGED chain
    BY <1>4 DEF StopMining, AddTransactions, RemoveConfirmedTx, chainVars
  <2> SUFFICES ASSUME NEW m \in Node
               PROVE  /\ bpc'[m] \in {"stop", "append"} =>
                           Hashed(block'[m]) /\ block'[m].prev = LastHash(m)
                      /\ bpc'[m] = "stop" => block'[m].id = Len(chain[m])
    BY <2>1 DEF ChainInv, LastHash
  <2>2. CASE StopMining(n)
    <3>1. bpc[n] = "stop" /\ bpc' = [bpc EXCEPT ![n] = "append"] /\ block' = block
      BY <2>2 DEF StopMining
    <3> QED
      BY <3>1 DEF ChainInv, Shaped
  <2>3. CASE AddTransactions(n)
    <3>1. bpc' = [bpc EXCEPT ![n] = "remove"] /\ block' = block
      BY <2>3 DEF AddTransactions
    <3> QED
      BY <3>1 DEF ChainInv, Shaped
  <2>4. CASE RemoveConfirmedTx(n)
    <3>1. /\ bpc' = [bpc EXCEPT ![n] = "wait"]
          /\ block' = [block EXCEPT ![n] = NoBlock]
      BY <2>4 DEF RemoveConfirmedTx
    <3>2. CASE m = n
      BY <3>1, <3>2 DEF Shaped
    <3>3. CASE m # n
      BY <3>1, <3>3 DEF Shaped, ChainInv
    <3> QED
      BY <3>2, <3>3
  <2> QED
    BY <1>4, <2>2, <2>3, <2>4
<1> QED
  BY <1>1, <1>2, <1>3, <1>4, StepCases

\* The inductive invariant of the chains holds in every reachable state.
LEMMA ChainInvariant ==
  Spec => [](Shaped /\ ChainInv)
PROOF
<1>1. Init => Shaped /\ ChainInv
  BY ShapedInit, ChainInvInit
<1>2. Shaped /\ ChainInv /\ [Next]_vars => (Shaped /\ ChainInv)'
  BY ShapedStep, ChainInvStep
<1> QED
  BY <1>1, <1>2, PTL DEF Spec

(***************************************************************************)
(* Whatever is on a chain follows the block before it.                     *)
(***************************************************************************)
THEOREM ChainsAreLinked ==
  Spec => []ChainLinked
PROOF
<1>1. Shaped /\ ChainInv => ChainLinked
  BY DEF ChainInv, ChainLinked
<1> QED
  BY <1>1, ChainInvariant, PTL

(***************************************************************************)
(* Two chains that hold the same hash agree up to there.  It is enough to  *)
(* look at the block that is appended: its hash contains its PrevHash,     *)
(* which is the hash of the last block of one chain and of the block       *)
(* before it in the other.                                                 *)
(***************************************************************************)
SamePast ==
  \A n, m \in Node : \A i \in 1..Len(chain[n]), j \in 1..Len(chain[m]) :
    chain[n][i].hash = chain[m][j].hash =>
      i = j /\ \A k \in 1..i : chain[n][k] = chain[m][k]

\* The past of a new block: the hash it names is that of the last block, so
\* wherever its hash is on a chain, the past is the same.
LEMMA AppendedPast ==
  ASSUME Shaped, ChainInv, SamePast, NEW n \in Node, Extends(n),
         NEW m \in Node, NEW j \in 1..Len(chain[m]),
         NewEntry(n).hash = chain[m][j].hash
  PROVE  /\ j = Len(chain[n]) + 1
         /\ NewEntry(n) = chain[m][j]
         /\ \A k \in 1..Len(chain[n]) : chain[n][k] = chain[m][k]
PROOF
<1>1. /\ Hashed(NewEntry(n)) /\ NewEntry(n).prev = chain[n][Len(chain[n])].hash
      /\ NewEntry(n) = [id |-> NewEntry(n).id, prev |-> NewEntry(n).prev,
                        hash |-> NewEntry(n).hash]
  BY DEF Extends, ChainInv, NewEntry, Hashed, LastHash
<1>2. Len(chain[n]) \in Nat \ {0} /\ Len(chain[m]) \in Nat \ {0}
  BY DEF ChainInv
<1>3. j # 1
  BY <1>1 DEF ChainInv, Genesis, Hashed
<1>4. IsEntry(chain[m][j]) /\ chain[m][j].prev = chain[m][j - 1].hash
  BY <1>2, <1>3 DEF ChainInv
<1>5. NewEntry(n) = chain[m][j]
  BY <1>1, <1>4 DEF IsEntry, Hashed
<1>6. chain[n][Len(chain[n])].hash = chain[m][j - 1].hash
  BY <1>1, <1>4, <1>5
<1>7. Len(chain[n]) \in 1..Len(chain[n]) /\ j - 1 \in 1..Len(chain[m])
  BY <1>2, <1>3
<1>8. /\ Len(chain[n]) = j - 1
      /\ \A k \in 1..Len(chain[n]) : chain[n][k] = chain[m][k]
  BY <1>6, <1>7 DEF SamePast
<1> QED
  BY <1>2, <1>5, <1>8

\* Every step keeps one past for every hash.
LEMMA SamePastStep ==
  Shaped /\ ChainInv /\ SamePast /\ [Next]_vars => SamePast'
PROOF
<1> SUFFICES ASSUME Shaped, ChainInv, SamePast, [Next]_vars PROVE SamePast'
  OBVIOUS
<1>1. CASE UNCHANGED chain
  BY <1>1 DEF SamePast
<1>2. ASSUME NEW n \in Node, Extends(n) PROVE SamePast'
  <2>1. /\ Len(chain[n]) \in Nat
        /\ Len(chain'[n]) = Len(chain[n]) + 1
        /\ \A i \in 1..Len(chain[n]) : chain'[n][i] = chain[n][i]
        /\ chain'[n][Len(chain[n]) + 1] = NewEntry(n)
        /\ \A m \in Node \ {n} : chain'[m] = chain[m]
    BY <1>2, ExtendedChain
  <2>2. \A m \in Node : Len(chain[m]) \in Nat
    BY DEF ChainInv
  <2> DEFINE Old(m, i) == i \in 1..Len(chain[m])
  <2>3. ASSUME NEW m \in Node, NEW i \in 1..Len(chain'[m]), ~Old(m, i)
        PROVE  m = n /\ i = Len(chain[n]) + 1 /\ chain'[m][i] = NewEntry(n)
    BY <2>1, <2>2, <2>3
  <2>4. ASSUME NEW m \in Node, NEW i, Old(m, i)
        PROVE  chain'[m][i] = chain[m][i]
    BY <2>1, <2>4
  <2> SUFFICES ASSUME NEW m \in Node, NEW p \in Node,
                      NEW i \in 1..Len(chain'[m]), NEW j \in 1..Len(chain'[p]),
                      chain'[m][i].hash = chain'[p][j].hash
               PROVE  i = j /\ \A k \in 1..i : chain'[m][k] = chain'[p][k]
    BY DEF SamePast
  <2>5. CASE Old(m, i) /\ Old(p, j)
    <3>0. chain[m][i].hash = chain[p][j].hash
      BY <2>4, <2>5
    <3>1. i = j /\ \A k \in 1..i : chain[m][k] = chain[p][k]
      BY <2>5, <3>0 DEF SamePast
    <3>2. \A k \in 1..i : Old(m, k) /\ Old(p, k)
      BY <2>2, <2>5, <3>1
    <3> QED
      BY <2>4, <3>1, <3>2
  <2>6. CASE ~Old(m, i) /\ ~Old(p, j)
    BY <2>3, <2>6
  <2>7. CASE ~Old(m, i) /\ Old(p, j)
    <3>1. m = n /\ i = Len(chain[n]) + 1 /\ chain'[m][i] = NewEntry(n)
      BY <2>3, <2>7
    <3>2. NewEntry(n).hash = chain[p][j].hash
      BY <2>4, <2>7, <3>1
    <3>3. /\ j = Len(chain[n]) + 1 /\ NewEntry(n) = chain[p][j]
          /\ \A k \in 1..Len(chain[n]) : chain[n][k] = chain[p][k]
      BY <1>2, <2>7, <3>2, AppendedPast
    <3>4. ASSUME NEW k \in 1..i PROVE chain'[m][k] = chain'[p][k]
      <4>1. chain'[p][k] = chain[p][k]
        BY <2>1, <2>2, <2>4, <2>7, <3>1, <3>3
      <4>2. CASE k = i
        BY <3>1, <3>3, <4>1, <4>2
      <4>3. CASE k \in 1..Len(chain[n])
        BY <2>1, <3>1, <3>3, <4>1, <4>3
      <4> QED
        BY <2>1, <3>1, <4>2, <4>3
    <3> QED
      BY <3>1, <3>3, <3>4
  <2>8. CASE Old(m, i) /\ ~Old(p, j)
    <3>1. p = n /\ j = Len(chain[n]) + 1 /\ chain'[p][j] = NewEntry(n)
      BY <2>3, <2>8
    <3>2. NewEntry(n).hash = chain[m][i].hash
      BY <2>4, <2>8, <3>1
    <3>3. /\ i = Len(chain[n]) + 1 /\ NewEntry(n) = chain[m][i]
          /\ \A k \in 1..Len(chain[n]) : chain[n][k] = chain[m][k]
      BY <1>2, <2>8, <3>2, AppendedPast
    <3>4. ASSUME NEW k \in 1..i PROVE chain'[m][k] = chain'[p][k]
      <4>1. chain'[m][k] = chain[m][k]
        BY <2>1, <2>2, <2>4, <2>8, <3>1, <3>3
      <4>2. CASE k = i
        BY <3>1, <3>3, <4>1, <4>2
      <4>3. CASE k \in 1..Len(chain[n])
        BY <2>1, <3>1, <3>3, <4>1, <4>3
      <4> QED
        BY <2>1, <3>3, <4>2, <4>3
    <3> QED
      BY <3>1, <3>3, <3>4
  <2> QED
    BY <2>5, <2>6, <2>7, <2>8
<1>3. chain' = chain \/ \E n \in Node : AppendBlock(n)
  BY StepCases DEF Accepts, StopMining, AddTransactions, RemoveConfirmedTx, chainVars
<1> QED
  BY <1>1, <1>2, <1>3, AppendExtends

(***************************************************************************)
(* A hash on two chains stands for the same history on both.               *)
(***************************************************************************)
THEOREM HashesNameHistories ==
  Spec => []SameHashSameHistory
PROOF
<1>1. Init => SamePast
  <2> SUFFICES ASSUME Init PROVE \A n \in Node : chain[n] = <<Genesis>> /\ Len(chain[n]) = 1
    BY DEF SamePast
  <2> QED
    BY DEF Init
<1>2. Shaped /\ ChainInv /\ SamePast /\ [Next]_vars => SamePast'
  BY SamePastStep
<1>3. Shaped /\ SamePast => SameHashSameHistory
  <2> SUFFICES ASSUME Shaped, SamePast, NEW n \in Node, NEW m \in Node,
                      NEW i \in DOMAIN chain[n], NEW j \in DOMAIN chain[m],
                      chain[n][i].hash = chain[m][j].hash
               PROVE  SubSeq(chain[n], 1, i) = SubSeq(chain[m], 1, j)
    BY DEF SameHashSameHistory
  <2> PICK S : chain \in [Node -> Seq(S)]
    BY DEF Shaped
  <2>1. i \in 1..Len(chain[n]) /\ j \in 1..Len(chain[m])
    BY LenProperties
  <2>2. i = j /\ \A k \in 1..i : chain[n][k] = chain[m][k]
    BY <2>1 DEF SamePast
  <2> QED
    BY <2>1, <2>2
<1> QED
  BY <1>1, <1>2, <1>3, ChainInvariant, PTL DEF Spec

(***************************************************************************)
(* The channel stopMining holds the IDs of blocks in the order of the      *)
(* chain.                                                                  *)
(***************************************************************************)
StopsShaped == stopMining \in [Node -> Seq(Nat)]

\* Every step keeps the entries of stopMining in order.
LEMMA StopsStep ==
  Shaped /\ ChainInv /\ StopsShaped /\ StopsInOrder /\ [Next]_vars =>
    (StopsShaped /\ StopsInOrder)'
PROOF
<1> SUFFICES ASSUME Shaped, ChainInv, StopsShaped, StopsInOrder, [Next]_vars
             PROVE  (StopsShaped /\ StopsInOrder)'
  OBVIOUS
<1> DEFINE Ordered(s, len, appending) ==
      \A i \in DOMAIN s :
        /\ \A j \in 1..(i - 1) : s[j] < s[i]
        /\ s[i] < len \/ (s[i] = len /\ appending)
<1>1. \A n \in Node : Ordered(stopMining[n], Len(chain[n]), bpc[n] = "append")
  BY DEF StopsInOrder
<1>2. \A n \in Node : Len(chain[n]) \in Nat /\ stopMining[n] \in Seq(Nat)
  BY DEF ChainInv, StopsShaped
<1> SUFFICES /\ StopsShaped'
             /\ \A n \in Node : Ordered(stopMining'[n], Len(chain'[n]), bpc'[n] = "append")
  BY DEF StopsInOrder
<1>3. CASE UNCHANGED <<chain, bpc, block, stopMining>>
  BY <1>1, <1>3 DEF StopsShaped
<1>4. ASSUME NEW n \in Node, TakeStop(n) /\ UNCHANGED <<chain, bpc, block>>
      PROVE  /\ StopsShaped'
             /\ \A m \in Node : Ordered(stopMining'[m], Len(chain[m]), bpc[m] = "append")
  <2>1. stopMining[n] # <<>> /\ stopMining' = [stopMining EXCEPT ![n] = Tail(@)]
    BY <1>4 DEF TakeStop
  <2>2. /\ Tail(stopMining[n]) \in Seq(Nat)
        /\ Len(Tail(stopMining[n])) = Len(stopMining[n]) - 1
        /\ \A i \in 1..Len(Tail(stopMining[n])) :
             Tail(stopMining[n])[i] = stopMining[n][i + 1]
    BY <1>2, <2>1, HeadTailProperties
  <2>3. Ordered(Tail(stopMining[n]), Len(chain[n]), bpc[n] = "append")
    <3> SUFFICES ASSUME NEW i \in 1..Len(Tail(stopMining[n]))
                 PROVE  /\ \A j \in 1..(i - 1) : Tail(stopMining[n])[j] < Tail(stopMining[n])[i]
                        /\ \/ Tail(stopMining[n])[i] < Len(chain[n])
                           \/ Tail(stopMining[n])[i] = Len(chain[n]) /\ bpc[n] = "append"
      BY <2>2, LenProperties
    <3>1. i + 1 \in DOMAIN stopMining[n]
      BY <1>2, <2>2, LenProperties
    <3>2. \A j \in 1..(i - 1) : j + 1 \in 1..((i + 1) - 1)
      BY <1>2, <2>2
    <3>3. \A j \in 1..(i - 1) : Tail(stopMining[n])[j] = stopMining[n][j + 1]
      BY <1>2, <2>2, LenProperties, SMTT(30)
    <3> QED
      BY <1>1, <2>2, <3>1, <3>2, <3>3, SMTT(30)
  <2> QED
    BY <1>1, <2>1, <2>2, <2>3 DEF StopsShaped
<1>5. ASSUME NEW n \in Node, Accepts(n)
      PROVE  /\ StopsShaped'
             /\ \A m \in Node : Ordered(stopMining'[m], Len(chain'[m]), bpc'[m] = "append")
  <2>1. UNCHANGED <<chain, stopMining>> /\ bpc[n] = "wait"
    BY <1>5 DEF Accepts
  <2>2. \A m \in Node : bpc[m] = "append" => bpc'[m] = "append"
    BY <1>5, <2>1 DEF Accepts, Shaped
  <2> QED
    BY <1>1, <2>1, <2>2 DEF StopsShaped
<1>6. ASSUME NEW n \in Node, StopMining(n)
      PROVE  /\ StopsShaped'
             /\ \A m \in Node : Ordered(stopMining'[m], Len(chain'[m]), bpc'[m] = "append")
  <2>1. /\ bpc[n] = "stop" /\ bpc' = [bpc EXCEPT ![n] = "append"] /\ chain' = chain
        /\ stopMining' = [stopMining EXCEPT ![n] = Append(@, block[n].id)]
    BY <1>6 DEF StopMining, chainVars
  <2>2. block[n].id = Len(chain[n]) /\ block[n].id \in Nat
    BY <1>2, <2>1 DEF ChainInv
  <2> DEFINE s == Append(stopMining[n], Len(chain[n]))
  <2>3. /\ s \in Seq(Nat) /\ Len(s) = Len(stopMining[n]) + 1
        /\ \A i \in 1..Len(stopMining[n]) : s[i] = stopMining[n][i]
        /\ s[Len(stopMining[n]) + 1] = Len(chain[n])
    BY <1>2, AppendProperties
  <2>4. Len(stopMining[n]) \in Nat /\ DOMAIN stopMining[n] = 1..Len(stopMining[n])
    BY <1>2, LenProperties
  <2>5. \A i \in 1..Len(stopMining[n]) :
          stopMining[n][i] < Len(chain[n]) /\ \A j \in 1..(i - 1) : stopMining[n][j] < stopMining[n][i]
    BY <1>1, <2>1, <2>4
  <2>6. Ordered(s, Len(chain[n]), TRUE)
    <3> HIDE DEF s
    <3> SUFFICES ASSUME NEW i \in 1..(Len(stopMining[n]) + 1)
                 PROVE  /\ \A j \in 1..(i - 1) : s[j] < s[i]
                        /\ s[i] < Len(chain[n]) \/ s[i] = Len(chain[n])
      BY <2>3, LenProperties
    <3>1. CASE i = Len(stopMining[n]) + 1
      BY <2>3, <2>4, <2>5, <3>1
    <3>2. CASE i \in 1..Len(stopMining[n])
      <4>1. s[i] = stopMining[n][i]
        BY <2>3, <3>2
      <4>2. ASSUME NEW j \in 1..(i - 1) PROVE s[j] < s[i]
        <5>1. j \in 1..Len(stopMining[n])
          BY <2>4, <3>2
        <5> QED
          BY <2>3, <2>5, <3>2, <4>1, <5>1
      <4> QED
        BY <2>5, <3>2, <4>1, <4>2
    <3> QED
      BY <2>4, <3>1, <3>2
  <2>7. stopMining'[n] = s /\ bpc'[n] = "append"
    BY <2>1, <2>2 DEF StopsShaped, Shaped
  <2>8. \A m \in Node \ {n} : stopMining'[m] = stopMining[m] /\ bpc'[m] = bpc[m]
    BY <2>1 DEF StopsShaped, Shaped
  <2>9. StopsShaped'
    BY <2>1, <2>2, <2>3 DEF StopsShaped
  <2> HIDE DEF s
  <2>10. \A m \in Node : Ordered(stopMining'[m], Len(chain'[m]), bpc'[m] = "append")
    <3> SUFFICES ASSUME NEW m \in Node
                 PROVE  Ordered(stopMining'[m], Len(chain'[m]), bpc'[m] = "append")
      OBVIOUS
    <3>1. CASE m = n
      BY <2>1, <2>6, <2>7, <3>1
    <3>2. CASE m # n
      BY <1>1, <2>1, <2>8, <3>2
    <3> QED
      BY <3>1, <3>2
  <2> QED
    BY <2>9, <2>10
<1>7. ASSUME NEW n \in Node, Extends(n)
      PROVE  /\ StopsShaped'
             /\ \A m \in Node : Ordered(stopMining'[m], Len(chain'[m]), bpc'[m] = "append")
  <2>1. /\ Len(chain'[n]) = Len(chain[n]) + 1
        /\ \A m \in Node \ {n} : chain'[m] = chain[m]
    BY <1>7, ExtendedChain
  <2>2. UNCHANGED stopMining /\ \A m \in Node \ {n} : bpc'[m] = bpc[m]
    BY <1>7 DEF Extends, Shaped
  <2>3. \A i \in DOMAIN stopMining[n] : stopMining[n][i] \in Nat
    BY <1>2
  <2>4. Ordered(stopMining[n], Len(chain'[n]), bpc'[n] = "append")
    <3> SUFFICES ASSUME NEW i \in DOMAIN stopMining[n]
                 PROVE  /\ \A j \in 1..(i - 1) : stopMining[n][j] < stopMining[n][i]
                        /\ stopMining[n][i] < Len(chain[n]) + 1
      BY <2>1
    <3>1. stopMining[n][i] < Len(chain[n]) \/ stopMining[n][i] = Len(chain[n])
      BY <1>1
    <3> QED
      BY <1>1, <1>2, <2>3, <3>1
  <2> QED
    BY <1>1, <2>1, <2>2, <2>4 DEF StopsShaped
<1>8. ASSUME NEW n \in Node, AddTransactions(n) \/ RemoveConfirmedTx(n)
      PROVE  /\ StopsShaped'
             /\ \A m \in Node : Ordered(stopMining'[m], Len(chain'[m]), bpc'[m] = "append")
  <2>1. UNCHANGED <<chain, stopMining>> /\ bpc[n] # "append"
    BY <1>8 DEF AddTransactions, RemoveConfirmedTx, chainVars
  <2>2. \A m \in Node : bpc[m] = "append" => bpc'[m] = "append"
    BY <1>8, <2>1 DEF AddTransactions, RemoveConfirmedTx, Shaped
  <2> QED
    BY <1>1, <2>1, <2>2 DEF StopsShaped
<1> QED
  BY <1>3, <1>4, <1>5, <1>6, <1>7, <1>8, StepCases, AppendExtends

\* listenBlocks puts IDs into stopMining in the order of the chain, each at most
\* one ahead of it, so that mine() never gives up for a block that never comes.
THEOREM StopsAreInOrder ==
  Spec => []StopsInOrder
PROOF
<1>1. Init => StopsShaped /\ StopsInOrder
  BY DEF Init, StopsShaped, StopsInOrder
<1>2. Shaped /\ ChainInv /\ StopsShaped /\ StopsInOrder /\ [Next]_vars =>
        (StopsShaped /\ StopsInOrder)'
  BY StopsStep
<1> QED
  BY <1>1, <1>2, ChainInvariant, PTL DEF Spec

(***************************************************************************)
(* The numbers of the blocks.  A block at hand has the number that the     *)
(* chain expects, or that of the last block; the latter only once, while   *)
(* no block of the chain has a wrong number, because fork stays TRUE.      *)
(***************************************************************************)
Numbered(n, i) == chain[n][i].id = i - 1

NumberInv ==
  /\ fork \in [Node -> BOOLEAN]
  /\ \A n \in Node :
       /\ \A i \in 1..Len(chain[n]) : Numbered(n, i) \/ (fork[n] /\ chain[n][i].id = i - 2)
       /\ \A i, j \in 1..Len(chain[n]) : ~Numbered(n, i) /\ ~Numbered(n, j) => i = j
       /\ bpc[n] = "append" =>
            \/ block[n].id = Len(chain[n])
            \/ /\ fork[n] /\ block[n].id = Len(chain[n]) - 1
               /\ \A i \in 1..Len(chain[n]) : Numbered(n, i)

\* listenBlocks takes the next block, or what it takes for a fork.
TakesNext(n) ==
  /\ \E b : b.id = Len(chain[n]) /\ block' = [block EXCEPT ![n] = b]
  /\ bpc' = [bpc EXCEPT ![n] = "stop"]
  /\ UNCHANGED <<chain, fork>>

TakesFork(n) ==
  /\ ~fork[n]
  /\ \E b : b.id = Len(chain[n]) - 1 /\ block' = [block EXCEPT ![n] = b]
  /\ bpc' = [bpc EXCEPT ![n] = "append"]
  /\ fork' = [fork EXCEPT ![n] = TRUE]
  /\ UNCHANGED chain

\* The steps that matter to the numbers.
LEMMA NumberCases ==
  ASSUME [Next]_vars
  PROVE  \/ UNCHANGED <<chain, bpc, block, fork>>
         \/ \E n \in Node :
              \/ TakesNext(n) \/ TakesFork(n)
              \/ StopMining(n) \/ AppendBlock(n) \/ AddTransactions(n)
              \/ RemoveConfirmedTx(n)
PROOF
<1>1. CASE UNCHANGED vars
  BY <1>1 DEF vars, blockVars, chainVars
<1>2. CASE Next
  <2> PICK n \in Node : Step(n)
    BY <1>2 DEF Next
  <2>1. CASE \/ \E m \in sentTxs : AddTransaction(n, m)
             \/ ReadID(n) \/ ReadPrevHash(n) \/ CheckTransactionsCreate(n)
             \/ TakeStop(n) \/ NoStop(n) \/ WrongNonce(n) \/ Publish(n)
    BY <2>1 DEF AddTransaction, ReadID, ReadPrevHash, CheckTransactionsCreate, TakeStop, NoStop,
                WrongNonce, Publish, blockVars, chainVars
  <2>2. ASSUME NEW b, HandleBlock(n, b)
        PROVE  TakesNext(n) \/ TakesFork(n) \/ UNCHANGED <<chain, bpc, block, fork>>
    <3>1. UNCHANGED chain
      BY <2>2 DEF HandleBlock
    <3>2. CASE /\ IsNext(n, b) /\ UNCHANGED fork
               /\ bpc' = [bpc EXCEPT ![n] = "stop"] /\ block' = [block EXCEPT ![n] = b]
      BY <3>1, <3>2 DEF IsNext, TakesNext
    <3>3. CASE /\ IsFork(n, b) /\ fork' = [fork EXCEPT ![n] = TRUE]
               /\ bpc' = [bpc EXCEPT ![n] = "append"] /\ block' = [block EXCEPT ![n] = b]
      BY <3>1, <3>3 DEF IsFork, TakesFork
    <3>4. CASE UNCHANGED <<bpc, block, fork>>
      BY <3>1, <3>4
    <3> QED
      BY <2>2, <3>2, <3>3, <3>4 DEF HandleBlock
  <2> QED
    BY <2>1, <2>2 DEF Step
<1> QED
  BY <1>1, <1>2

\* Every step keeps what is known of the numbers.
LEMMA NumberStep ==
  Shaped /\ ChainInv /\ NumberInv /\ [Next]_vars => NumberInv'
PROOF
<1> SUFFICES ASSUME Shaped, ChainInv, NumberInv, [Next]_vars PROVE NumberInv'
  OBVIOUS
<1> DEFINE Right(m) ==
      /\ \A i \in 1..Len(chain[m]) : Numbered(m, i) \/ (fork[m] /\ chain[m][i].id = i - 2)
      /\ \A i, j \in 1..Len(chain[m]) : ~Numbered(m, i) /\ ~Numbered(m, j) => i = j
      /\ bpc[m] = "append" =>
           \/ block[m].id = Len(chain[m])
           \/ /\ fork[m] /\ block[m].id = Len(chain[m]) - 1
              /\ \A i \in 1..Len(chain[m]) : Numbered(m, i)
<1>0. \A m \in Node : Right(m) /\ Len(chain[m]) \in Nat
  BY DEF NumberInv, ChainInv
<1>1. CASE UNCHANGED <<chain, bpc, block, fork>>
  BY <1>1 DEF NumberInv, Numbered
<1>2. ASSUME NEW n \in Node, TakesNext(n) \/ TakesFork(n)
      PROVE  NumberInv'
  <2>1. /\ fork' \in [Node -> BOOLEAN] /\ chain' = chain
        /\ \A m \in Node \ {n} : fork'[m] = fork[m] /\ bpc'[m] = bpc[m] /\ block'[m] = block[m]
    BY <1>2 DEF TakesNext, TakesFork, NumberInv, Shaped
  <2>2. \A m \in Node \ {n} : Right(m)'
    BY <1>0, <2>1 DEF Numbered
  <2>3. Right(n)'
    <3>1. CASE TakesNext(n)
      <4>1. bpc'[n] = "stop" /\ fork'[n] = fork[n]
        BY <3>1 DEF TakesNext, Shaped
      <4> QED
        BY <1>0, <2>1, <4>1 DEF Numbered
    <3>2. CASE TakesFork(n)
      <4>1. ~fork[n] /\ fork'[n] /\ block'[n].id = Len(chain[n]) - 1
        BY <3>2 DEF TakesFork, NumberInv, Shaped
      <4>2. \A i \in 1..Len(chain[n]) : Numbered(n, i)
        BY <1>0, <4>1
      <4> QED
        BY <2>1, <4>1, <4>2 DEF Numbered
    <3> QED
      BY <1>2, <3>1, <3>2
  <2> QED
    BY <2>1, <2>2, <2>3 DEF NumberInv
<1>3. ASSUME NEW n \in Node, StopMining(n) \/ AddTransactions(n) \/ RemoveConfirmedTx(n)
      PROVE  NumberInv'
  <2>1. UNCHANGED <<chain, fork>>
    BY <1>3 DEF StopMining, AddTransactions, RemoveConfirmedTx, chainVars
  <2>2. \A m \in Node : bpc'[m] = "append" =>
          block'[m] = block[m] /\ (bpc[m] = "append" \/ block[m].id = Len(chain[m]))
    BY <1>3 DEF StopMining, AddTransactions, RemoveConfirmedTx, Shaped, ChainInv
  <2>3. \A m \in Node : Right(m)'
    BY <1>0, <2>1, <2>2 DEF Numbered
  <2> QED
    BY <2>1, <2>3 DEF NumberInv
<1>4. ASSUME NEW n \in Node, AppendBlock(n)
      PROVE  NumberInv'
  <2>0. Extends(n) /\ fork' = fork
    BY <1>4, AppendExtends DEF AppendBlock
  <2>1. /\ Len(chain'[n]) = Len(chain[n]) + 1
        /\ \A i \in 1..Len(chain[n]) : chain'[n][i] = chain[n][i]
        /\ chain'[n][Len(chain[n]) + 1] = NewEntry(n)
        /\ \A m \in Node \ {n} : chain'[m] = chain[m]
    BY <2>0, ExtendedChain
  <2>2. bpc[n] = "append" /\ bpc'[n] = "add" /\ NewEntry(n).id = block[n].id
    BY <2>0 DEF Extends, Shaped, NewEntry
  <2>3. \A m \in Node \ {n} : Right(m)'
    <3>1. \A m \in Node \ {n} : bpc'[m] = bpc[m] /\ block'[m] = block[m]
      BY <2>0 DEF Extends, Shaped
    <3> SUFFICES ASSUME NEW m \in Node \ {n} PROVE Right(m)'
      OBVIOUS
    <3>2. /\ chain'[m] = chain[m] /\ fork'[m] = fork[m]
          /\ bpc'[m] = bpc[m] /\ block'[m] = block[m] /\ Right(m)
      BY <1>0, <2>0, <2>1, <3>1
    <3>3. \A i \in 1..Len(chain[m]) : Numbered(m, i)' <=> Numbered(m, i)
      BY <3>2 DEF Numbered
    <3> QED
      BY <3>2, <3>3
  <2>4. Right(n)'
    <3> DEFINE last == Len(chain[n]) + 1
    <3>1. \A i \in 1..Len(chain'[n]) : i = last \/ i \in 1..Len(chain[n])
      BY <1>0, <2>1
    <3>2. \A i \in 1..Len(chain[n]) : Numbered(n, i)' <=> Numbered(n, i)
      BY <2>1 DEF Numbered
    <3>3. CASE block[n].id = Len(chain[n])
      <4>1. chain'[n][last].id = last - 1
        BY <1>0, <2>1, <2>2, <3>3
      <4>2. ASSUME NEW i, i = last PROVE Numbered(n, i)'
        BY <4>1, <4>2 DEF Numbered
      <4>3. fork'[n] = fork[n] /\ Right(n)
        BY <1>0, <2>0
      <4>4. ASSUME NEW i \in 1..Len(chain'[n])
            PROVE  Numbered(n, i)' \/ (fork'[n] /\ chain'[n][i].id = i - 2)
        BY <2>1, <3>1, <3>2, <4>2, <4>3
      <4>5. ASSUME NEW i \in 1..Len(chain'[n]), NEW j \in 1..Len(chain'[n]),
                   ~Numbered(n, i)', ~Numbered(n, j)'
            PROVE  i = j
        BY <3>1, <3>2, <4>2, <4>3, <4>5
      <4> QED
        BY <2>2, <4>4, <4>5
    <3>4. CASE /\ fork[n] /\ block[n].id = Len(chain[n]) - 1
               /\ \A i \in 1..Len(chain[n]) : Numbered(n, i)
      <4>1. chain'[n][last].id = last - 2
        BY <1>0, <2>1, <2>2, <3>4
      <4> QED
        BY <1>0, <2>0, <2>1, <2>2, <3>1, <3>2, <3>4, <4>1
    <3> QED
      BY <1>0, <2>2, <3>3, <3>4
  <2> QED
    BY <2>0, <2>3, <2>4 DEF NumberInv
<1> QED
  BY <1>1, <1>2, <1>3, <1>4, NumberCases

\* One block of a chain at most has a number that is not its position.
THEOREM NumbersAreOnce ==
  Spec => []NumberedOnce
PROOF
<1>1. Init => NumberInv
  <2> SUFFICES ASSUME Init PROVE NumberInv
    OBVIOUS
  <2>1. \A n \in Node : Len(chain[n]) = 1 /\ chain[n][1].id = 0 /\ bpc[n] = "wait"
    BY DEF Init, Genesis
  <2> QED
    BY <2>1 DEF Init, NumberInv, Numbered
<1>2. Shaped /\ ChainInv /\ NumberInv /\ [Next]_vars => NumberInv'
  BY NumberStep
<1>3. Shaped /\ ChainInv /\ NumberInv => NumberedOnce
  <2> SUFFICES ASSUME Shaped, ChainInv, NumberInv, NEW n \in Node
               PROVE  LET odd == {i \in DOMAIN chain[n] : chain[n][i].id # i - 1}
                      IN  /\ \A i \in odd : chain[n][i].id = i - 2
                          /\ Cardinality(odd) <= (IF fork[n] THEN 1 ELSE 0)
    BY DEF NumberedOnce
  <2> DEFINE odd == {i \in DOMAIN chain[n] : chain[n][i].id # i - 1}
  <2>1. DOMAIN chain[n] = 1..Len(chain[n])
    BY LenProperties DEF Shaped
  <2>2. \A i \in odd : fork[n] /\ chain[n][i].id = i - 2
    BY <2>1 DEF NumberInv, Numbered
  <2>3. \A i, j \in odd : i = j
    BY <2>1 DEF NumberInv, Numbered
  <2>4. Cardinality(odd) <= (IF fork[n] THEN 1 ELSE 0)
    <3> HIDE DEF odd
    <3>1. CASE odd = {}
      BY <3>1, FS_EmptySet
    <3>2. CASE odd # {}
      <4> PICK i \in odd : odd = {i}
        BY <2>3, <3>2
      <4>1. Cardinality({i}) = 1
        BY FS_Singleton
      <4> QED
        BY <2>2, <4>1
    <3> QED
      BY <3>1, <3>2
  <2> QED
    BY <2>2, <2>4
<1> QED
  BY <1>1, <1>2, <1>3, ChainInvariant, PTL DEF Spec

-----------------------------------------------------------------------------
(***************************************************************************)
(* The arrays of the pool.  What is at the front of an array says what the *)
(* whole array is of: only slices of that kind share it, and a cell that   *)
(* was written is written over with the same kind only.                    *)
(***************************************************************************)
\* The kinds of transaction that a slice of the pool is of.
Kinds == {Poll, Reg}

\* Every slice header, and every memory that can be written.
Slices == [arr : Nat, len : Nat]
Heaps == Seq(Seq(Tx \cup {NoTx}))

\* An array that was allocated for transactions of kind T.
ArrayOf(a, T) == a \in Seq(T \cup {NoTx}) /\ a # <<>> /\ a[1] \in T

\* Every array of the memory is of one of the kinds.
HeapOK(h) == /\ h \in Heaps
             /\ \A a \in DOMAIN h : \E T \in Kinds : ArrayOf(h[a], T)

\* A slice of kind T: nil, or the written front of an array of that kind.
SliceOf(h, s, T) ==
  /\ s \in Slices
  /\ \/ s.arr = 0 /\ s.len = 0
     \/ /\ s.arr \in DOMAIN h /\ ArrayOf(h[s.arr], T)
        /\ s.len <= Len(h[s.arr])
        /\ \A i \in 1..s.len : h[s.arr][i] \in T

\* Heap g is what became of heap h.
Evolves(h, g) ==
  /\ DOMAIN h \subseteq DOMAIN g
  /\ \A a \in DOMAIN h : /\ Len(g[a]) = Len(h[a])
                         /\ \A T \in Kinds : ArrayOf(h[a], T) =>
                              /\ ArrayOf(g[a], T)
                              /\ \A i \in 1..Len(h[a]) : h[a][i] \in T => g[a][i] \in T

\* Induction up to a number, over the members of a set.
LEMMA UpTo ==
  ASSUME NEW len \in Nat, NEW P, 0 \in P, \A i \in 1..len : i - 1 \in P => i \in P
  PROVE  0..len \subseteq P
PROOF
<1> SUFFICES ASSUME (0..len) \ P # {} PROVE FALSE
  OBVIOUS
<1>1. PICK i \in (0..len) \ P : \A j \in (0..len) \ P : ~(j < i)
  <2>1. (0..len) \ P \subseteq Nat
    OBVIOUS
  <2>2. PICK i \in (0..len) \ P : \A j \in (0..len) \ P : <<j, i>> \notin OpToRel(<, Nat)
    BY <2>1, NatLessThanWellFounded, WFMin
  <2> QED
    BY <2>1, <2>2 DEF OpToRel
<1>2. i - 1 \in 0..len /\ i - 1 < i
  BY <1>1
<1> QED
  BY <1>1, <1>2

\* A slice stays one of its kind, whatever is written through others.
LEMMA SliceKept ==
  ASSUME NEW h, NEW g, Evolves(h, g), NEW T \in Kinds, NEW s, SliceOf(h, s, T)
  PROVE  SliceOf(g, s, T)
PROOF
<1>1. CASE s.arr = 0 /\ s.len = 0
  BY <1>1 DEF SliceOf
<1>2. CASE s.arr \in DOMAIN h
  <2>1. \A i \in 1..s.len : i \in 1..Len(h[s.arr])
    BY <1>2 DEF SliceOf, Slices
  <2> QED
    BY <1>2, <2>1 DEF SliceOf, Evolves
<1> QED
  BY <1>1, <1>2 DEF SliceOf

\* What became of a memory becomes another one.
LEMMA EvolvesOn ==
  ASSUME NEW h, NEW g, NEW f, Evolves(h, g), Evolves(g, f)
  PROVE  Evolves(h, f)
PROOF
  BY DEF Evolves

\* A memory that nothing is written to is what became of it.
LEMMA EvolvesSame ==
  ASSUME NEW h
  PROVE  Evolves(h, h)
PROOF
  BY DEF Evolves

\* An array is of one kind only.
LEMMA OneKind ==
  ASSUME NEW a, NEW T \in Kinds, ArrayOf(a, T), NEW U \in Kinds, ArrayOf(a, U)
  PROVE  T = U
PROOF
  BY MinerAssumption DEF MinerAssumption, Kinds, ArrayOf

\* A write to an array of a transaction of its kind.
LEMMA WriteCell ==
  ASSUME NEW h, HeapOK(h), NEW T \in Kinds, NEW a \in DOMAIN h, ArrayOf(h[a], T),
         NEW i \in 1..Len(h[a]), NEW x \in T
  PROVE  HeapOK([h EXCEPT ![a][i] = x]) /\ Evolves(h, [h EXCEPT ![a][i] = x])
PROOF
<1> DEFINE g == [h EXCEPT ![a][i] = x]
           b == [h[a] EXCEPT ![i] = x]
<1>1. DOMAIN g = DOMAIN h /\ g[a] = b /\ \A c \in DOMAIN h \ {a} : g[c] = h[c]
  OBVIOUS
<1>2. h[a] \in Seq(T \cup {NoTx}) /\ h[a][1] \in T /\ h[a] # <<>>
  BY DEF ArrayOf
<1>3. b \in Seq(T \cup {NoTx}) /\ Len(b) = Len(h[a])
  BY <1>2, LenProperties
<1>4. \A j \in 1..Len(h[a]) : b[j] = IF j = i THEN x ELSE h[a][j]
  BY <1>2, LenProperties
<1>5. ArrayOf(b, T)
  <2>1. 1 \in 1..Len(h[a]) /\ b # <<>>
    BY <1>2, <1>3, EmptySeq
  <2> QED
    BY <1>2, <1>3, <1>4, <2>1 DEF ArrayOf
<1>6. HeapOK(g)
  <2>1. T \subseteq Tx
    BY DEF Kinds, Tx
  <2>2. b \in Seq(Tx \cup {NoTx})
    BY <1>3, <2>1
  <2>3. g \in Heaps
    BY <2>2 DEF HeapOK, Heaps
  <2> QED
    BY <1>1, <1>5, <2>3 DEF HeapOK
<1>7. Evolves(h, g)
  <2>1. ASSUME NEW U \in Kinds, ArrayOf(h[a], U)
        PROVE  /\ ArrayOf(b, U)
               /\ \A j \in 1..Len(h[a]) : h[a][j] \in U => b[j] \in U
    BY <1>4, <1>5, <2>1, OneKind
  <2> QED
    BY <1>1, <1>3, <2>1 DEF Evolves
<1> QED
  BY <1>6, <1>7

\* append: to the array of the slice, or to a copy of it.
LEMMA AppendedTyped ==
  ASSUME NEW h, HeapOK(h), NEW T \in Kinds, NEW s, SliceOf(h, s, T), NEW x \in T
  PROVE  LET a == Appended(h, s, x)
         IN  HeapOK(a.heap) /\ Evolves(h, a.heap) /\ SliceOf(a.heap, a.slice, T)
PROOF
<1> DEFINE a == Appended(h, s, x)
           cap == Capacity(h, s)
<1>0. s.arr \in Nat /\ s.len \in Nat /\ s = [arr |-> s.arr, len |-> s.len]
  BY DEF SliceOf, Slices
<1>1. cap \in Nat /\ s.len <= cap
  BY <1>0, LenProperties DEF SliceOf, Capacity, ArrayOf
<1>2. CASE s.len < cap
  <2>1. s.arr \in DOMAIN h /\ ArrayOf(h[s.arr], T) /\ cap = Len(h[s.arr])
    BY <1>2, <1>0 DEF SliceOf, Capacity
  <2>2. s.len + 1 \in 1..Len(h[s.arr])
    BY <1>0, <1>1, <1>2, <2>1
  <2> DEFINE g == [h EXCEPT ![s.arr][s.len + 1] = x]
  <2>3. HeapOK(g) /\ Evolves(h, g)
    BY <2>1, <2>2, WriteCell
  <2>4. a.heap = g /\ a.slice = [arr |-> s.arr, len |-> s.len + 1]
    BY <1>0, <1>2 DEF Appended
  <2>5. SliceOf(g, [arr |-> s.arr, len |-> s.len + 1], T)
    <3>1. SliceOf(g, s, T) /\ s.arr # 0
      BY <2>1, <2>3, <1>2, <1>0, SliceKept DEF Capacity
    <3>2. g[s.arr][s.len + 1] = x
      <4>1. s.len + 1 \in DOMAIN h[s.arr]
        BY <2>1, <2>2, LenProperties DEF ArrayOf
      <4> QED
        BY <2>1, <4>1
    <3>3. Len(g[s.arr]) = Len(h[s.arr])
      BY <2>1, <2>3 DEF Evolves
    <3>4. \A i \in 1..(s.len + 1) : i \in 1..s.len \/ i = s.len + 1
      BY <1>0
    <3> HIDE DEF g
    <3> QED
      BY <1>0, <2>2, <3>1, <3>2, <3>3, <3>4 DEF SliceOf, Slices
  <2> HIDE DEF g
  <2> QED
    BY <2>3, <2>4, <2>5
<1>3. CASE ~(s.len < cap)
  <2>0. s.len = cap
    BY <1>0, <1>1, <1>3
  <2> DEFINE size == IF cap = 0 THEN 1 ELSE 2 * cap
             fresh == [i \in 1..size |->
                         IF i <= s.len THEN h[s.arr][i]
                         ELSE IF i = s.len + 1 THEN x ELSE NoTx]
             g == Append(h, fresh)
             t == [arr |-> Len(h) + 1, len |-> s.len + 1]
  <2>1. a.heap = g /\ a.slice = t
    BY <1>3 DEF Appended
  <2>2. size \in Nat /\ s.len + 1 <= size
    BY <1>1, <2>0
  <2>3. \A i \in 1..s.len : h[s.arr][i] \in T
    BY <1>0 DEF SliceOf
  <2>4. fresh \in Seq(T \cup {NoTx}) /\ Len(fresh) = size
    <3>1. \A i \in 1..size : fresh[i] \in T \cup {NoTx}
      BY <1>0, <2>2, <2>3
    <3>2. fresh \in [1..size -> T \cup {NoTx}]
      BY <3>1
    <3> HIDE DEF size, fresh
    <3> QED
      BY <2>2, <3>2
  <2>5. \A i \in 1..(s.len + 1) : fresh[i] \in T
    BY <1>0, <2>2, <2>3
  <2>6. ArrayOf(fresh, T)
    <3>1. 1 \in 1..(s.len + 1) /\ Len(fresh) # 0
      BY <1>0, <2>2, <2>4
    <3> HIDE DEF fresh
    <3> QED
      BY <2>4, <2>5, <3>1 DEF ArrayOf
  <2> HIDE DEF size, fresh
  <2>7. h \in Heaps /\ T \subseteq Tx
    BY DEF HeapOK, Kinds, Tx
  <2>8. fresh \in Seq(Tx \cup {NoTx})
    BY <2>4, <2>7
  <2>9. /\ g \in Heaps /\ Len(h) \in Nat /\ DOMAIN g = 1..(Len(h) + 1) /\ DOMAIN h = 1..Len(h)
        /\ \A c \in DOMAIN h : g[c] = h[c]
        /\ g[Len(h) + 1] = fresh
    BY <2>7, <2>8, AppendProperties, LenProperties DEF Heaps
  <2> HIDE DEF g
  <2>10. HeapOK(g)
    <3> SUFFICES ASSUME NEW c \in DOMAIN g PROVE \E U \in Kinds : ArrayOf(g[c], U)
      BY <2>9 DEF HeapOK
    <3>1. c \in DOMAIN h \/ c = Len(h) + 1
      BY <2>9
    <3> QED
      BY <2>6, <2>9, <3>1 DEF HeapOK
  <2>11. Evolves(h, g)
    BY <2>9 DEF Evolves
  <2>12. SliceOf(g, t, T)
    <3>1. t \in Slices /\ t.arr = Len(h) + 1 /\ t.len = s.len + 1
      BY <1>0, <2>9 DEF Slices
    <3>2. t.arr \in DOMAIN g /\ g[t.arr] = fresh
      BY <2>9, <3>1
    <3> QED
      BY <2>2, <2>4, <2>5, <2>6, <3>1, <3>2 DEF SliceOf
  <2> HIDE DEF t
  <2> QED
    BY <2>1, <2>10, <2>11, <2>12
<1> QED
  BY <1>2, <1>3

\* What a slice of a kind holds is of that kind.
LEMMA ElementsTyped ==
  ASSUME NEW h, HeapOK(h), NEW T \in Kinds, NEW s, SliceOf(h, s, T)
  PROVE  Elements(h, s) \in Seq(T) /\ Len(Elements(h, s)) = s.len
PROOF
<1>1. CASE s.arr = 0
  <2>1. h \in Heaps /\ DOMAIN h = 1..Len(h) /\ Len(h) \in Nat
    BY LenProperties DEF HeapOK, Heaps
  <2> QED
    BY <1>1, <2>1 DEF Elements, SliceOf
<1>2. CASE s.arr # 0
  <2>1. /\ h[s.arr] \in Seq(T \cup {NoTx}) /\ s.len \in Nat /\ s.len <= Len(h[s.arr])
        /\ \A i \in 1..s.len : h[s.arr][i] \in T
    BY <1>2 DEF SliceOf, Slices, ArrayOf
  <2>2. Elements(h, s) = [i \in 1..s.len |-> h[s.arr][i]]
    BY <1>2, <2>1 DEF Elements
  <2>3. [i \in 1..s.len |-> h[s.arr][i]] \in [1..s.len -> T]
    BY <2>1
  <2> QED
    BY <2>1, <2>2, <2>3
<1> QED
  BY <1>1, <1>2

(***************************************************************************)
(* A loop over 1..len: there is the function that the loop defines, and    *)
(* its values are where every step keeps them.                             *)
(***************************************************************************)
IsLoop(f, len, base, next) ==
  f = [i \in 0..len |-> IF i = 0 THEN base ELSE next[<<f[i - 1], i>>]]

\* Step i of the loop leads from the set Inv[i - 1] to the set Inv[i].
Keeps(next, len, Inv) ==
  \A i \in 1..len : \A acc \in Inv[i - 1] : next[<<acc, i>>] \in Inv[i]

\* A loop whose steps keep to the sets Inv has all its values in them.
LEMMA Iteration ==
  ASSUME NEW len \in Nat, NEW base, NEW next, NEW Inv, base \in Inv[0],
         Keeps(next, len, Inv)
  PROVE  \E f : IsLoop(f, len, base, next) /\ \A i \in 0..len : f[i] \in Inv[i]
PROOF
<1>0. \A i \in 1..len : \A a \in Inv[i - 1] : next[<<a, i>>] \in Inv[i]
  BY DEF Keeps
<1> DEFINE Upto(f, k) ==
             /\ f = [i \in 0..k |-> IF i = 0 THEN base ELSE next[<<f[i - 1], i>>]]
             /\ \A i \in 0..k : f[i] \in Inv[i]
           P == {k \in 0..len : \E f : Upto(f, k)}
<1>1. 0 \in P
  <2>1. PICK f : f = [i \in {0} |-> base]
    OBVIOUS
  <2>2. 0..0 = {0}
    OBVIOUS
  <2>3. Upto(f, 0)
    BY <2>1, <2>2
  <2> QED
    BY <2>3
<1>2. ASSUME NEW k \in 1..len, k - 1 \in P
      PROVE  k \in P
  <2>1. PICK g : Upto(g, k - 1)
    BY <1>2
  <2>2. PICK f : f = [i \in 0..k |-> IF i = k THEN next[<<g[k - 1], k>>] ELSE g[i]]
    OBVIOUS
  <2>3. /\ \A i \in 0..(k - 1) : f[i] = g[i] /\ i # k /\ i \in 0..k
        /\ f[k] = next[<<g[k - 1], k>>]
        /\ k - 1 \in 0..(k - 1) /\ k # 0
        /\ \A i \in 0..k : i = k \/ i \in 0..(k - 1)
        /\ \A i \in 0..(k - 1) : i = 0 \/ i - 1 \in 0..(k - 1)
    BY <2>2
  <2>4. \A i \in 0..k : f[i] = IF i = 0 THEN base ELSE next[<<f[i - 1], i>>]
    <3>1. f[k] = next[<<f[k - 1], k>>]
      BY <2>3
    <3>2. ASSUME NEW i \in 0..(k - 1)
          PROVE  f[i] = IF i = 0 THEN base ELSE next[<<f[i - 1], i>>]
      BY <2>1, <2>3
    <3> QED
      BY <2>3, <3>1, <3>2
  <2>5. \A i \in 0..k : f[i] \in Inv[i]
    BY <1>0, <2>1, <2>3
  <2>6. f = [i \in 0..k |-> IF i = 0 THEN base ELSE next[<<f[i - 1], i>>]]
    BY <2>2, <2>4
  <2>7. Upto(f, k)
    BY <2>5, <2>6
  <2> HIDE DEF Upto
  <2> QED
    BY <2>7
<1>3. len \in P
  <2> HIDE DEF P
  <2> QED
    BY <1>1, <1>2, UpTo
<1> QED
  BY <1>3 DEF IsLoop

\* A loop that moves elements of slice s towards the front has come to i: the
\* rest of the slice is as it was, and what is to be kept of the elements up to i
\* is among the first ones.
Shifted(h, g, s, i, kept, keep) ==
  /\ \A a \in DOMAIN h \ {s.arr} : g[a] = h[a]
  /\ \A j \in (i + 1)..s.len : g[s.arr][j] = h[s.arr][j]
  /\ \A j \in 1..i : h[s.arr][j] \in keep => \E k \in 1..kept : g[s.arr][k] = h[s.arr][j]

\* A step of such a loop leaves out an element, or moves it to the front.
LEMMA ShiftOn ==
  ASSUME NEW h, NEW g \in Heaps, NEW s, s.len \in Nat, s.arr \in DOMAIN g,
         s.len <= Len(g[s.arr]), NEW i \in 1..s.len, NEW kept \in Nat, kept < i,
         NEW keep, NEW less, less \subseteq keep, Shifted(h, g, s, i - 1, kept, keep)
  PROVE  /\ g[s.arr][i] \notin less => Shifted(h, g, s, i, kept, less)
         /\ Shifted(h, [g EXCEPT ![s.arr][kept + 1] = g[s.arr][i]], s, i, kept + 1, less)
PROOF
<1> DEFINE a == s.arr
           f == [g EXCEPT ![a][kept + 1] = g[a][i]]
<1>1. /\ g[a][i] = h[a][i]
      /\ \A j \in (i + 1)..s.len : g[a][j] = h[a][j] /\ j # kept + 1
      /\ \A j \in 1..i : j = i \/ j \in 1..(i - 1)
  BY DEF Shifted
<1>2. /\ \A b \in DOMAIN h \ {a} : f[b] = h[b]
      /\ f[a][kept + 1] = g[a][i]
      /\ \A j \in 1..s.len : j # kept + 1 => f[a][j] = g[a][j]
  <2>1. g[a] \in Seq(Tx \cup {NoTx}) /\ DOMAIN g[a] = 1..Len(g[a]) /\ Len(g[a]) \in Nat
    BY LenProperties DEF Heaps
  <2>2. kept + 1 \in DOMAIN g[a] /\ f[a] = [g[a] EXCEPT ![kept + 1] = g[a][i]]
    BY <2>1
  <2>3. \A b \in DOMAIN h \ {a} : f[b] = h[b]
    BY DEF Shifted
  <2>4. \A j \in 1..s.len : j # kept + 1 => f[a][j] = g[a][j]
    BY <2>1, <2>2
  <2> QED
    BY <2>2, <2>3, <2>4
<1>3. g[a][i] \notin less => Shifted(h, g, s, i, kept, less)
  BY <1>1 DEF Shifted
<1>4. ASSUME NEW j \in 1..i, h[a][j] \in less
      PROVE  \E k \in 1..(kept + 1) : f[a][k] = h[a][j]
  <2>1. CASE j = i
    <3> HIDE DEF f
    <3>1. kept + 1 \in 1..(kept + 1)
      OBVIOUS
    <3> QED
      BY <1>1, <1>2, <2>1, <3>1
  <2>2. CASE j \in 1..(i - 1)
    <3>1. PICK k \in 1..kept : g[a][k] = h[a][j]
      BY <1>4, <2>2 DEF Shifted
    <3>2. k \in 1..s.len /\ k # kept + 1 /\ k \in 1..(kept + 1)
      OBVIOUS
    <3> QED
      BY <1>2, <3>1, <3>2
  <2> QED
    BY <1>1, <2>1, <2>2
<1>5. Shifted(h, f, s, i, kept + 1, less)
  <2> HIDE DEF f
  <2>1. \A j \in (i + 1)..s.len : j \in 1..s.len
    OBVIOUS
  <2> QED
    BY <1>1, <1>2, <1>4, <2>1 DEF Shifted
<1> QED
  BY <1>3, <1>5

\* The transactions of a kind that a copy does not name.
Unnamed(T, copy) == {x \in T : \A k \in 1..Len(copy) : copy[k] # x}

\* The loop of removeConfirmedTx: what is kept moves towards the front of the
\* slice, over cells that hold transactions of the same kind; and it keeps what
\* is not confirmed, when what is confirmed is a copy.
LEMMA WithoutConfirmedTyped ==
  ASSUME NEW h, HeapOK(h), NEW T \in Kinds, NEW s, SliceOf(h, s, T), NEW c, NEW copy
  PROVE  LET w == WithoutConfirmed(h, s, c, copy)
         IN  /\ HeapOK(w.heap) /\ Evolves(h, w.heap) /\ SliceOf(w.heap, w.slice, T)
             /\ w.slice.arr = s.arr
             /\ c.arr = 0 => Shifted(h, w.heap, s, s.len, w.slice.len, Unnamed(T, copy))
PROOF
<1> DEFINE confirmed(g, x) == IF c.arr = 0 THEN \E k \in 1..Len(copy) : copy[k] = x
                              ELSE \E k \in 1..c.len : g[c.arr][k] = x
           Body(acc, i) ==
             LET x == acc.heap[s.arr][i]
             IN  IF confirmed(acc.heap, x) THEN acc
                 ELSE [heap |-> [acc.heap EXCEPT ![s.arr][acc.kept + 1] = x],
                       kept |-> acc.kept + 1]
           base == [heap |-> h, kept |-> 0]
           Acc == [heap : Heaps, kept : Nat]
           keep == Unnamed(T, copy)
           Kept(acc, i) == c.arr = 0 => Shifted(h, acc.heap, s, i, acc.kept, keep)
           Inv == [i \in 0..s.len |->
                     {acc \in Acc : /\ HeapOK(acc.heap) /\ Evolves(h, acc.heap)
                                    /\ acc.kept <= i /\ Kept(acc, i)}]
           next == [p \in Acc \X (1..s.len) |-> Body(p[1], p[2])]
           Loops(f) == f = [i \in 0..s.len |-> IF i = 0 THEN base ELSE Body(f[i - 1], i)]
           loop == CHOOSE f : Loops(f)
<1>0. s.len \in Nat /\ s.arr \in Nat /\ s = [arr |-> s.arr, len |-> s.len]
  BY DEF SliceOf, Slices
<1>1. base \in Inv[0]
  <2>1. Kept(base, 0)
    BY DEF Shifted
  <2> QED
    BY <1>0, <2>1, EvolvesSame DEF HeapOK
<1>2. ASSUME NEW i \in 1..s.len, NEW acc \in Inv[i - 1]
      PROVE  acc \in Acc /\ Body(acc, i) \in Inv[i]
  <2>1. /\ acc \in Acc /\ HeapOK(acc.heap) /\ Evolves(h, acc.heap)
        /\ acc.kept \in Nat /\ acc.kept <= i - 1 /\ Kept(acc, i - 1)
    BY <1>0
  <2> DEFINE x == acc.heap[s.arr][i]
             g == [acc.heap EXCEPT ![s.arr][acc.kept + 1] = x]
  <2>4. /\ s.arr \in DOMAIN acc.heap /\ ArrayOf(acc.heap[s.arr], T)
        /\ s.len <= Len(acc.heap[s.arr])
        /\ acc.kept + 1 \in 1..Len(acc.heap[s.arr]) /\ x \in T
    <3>1. SliceOf(acc.heap, s, T)
      BY <2>1, SliceKept
    <3> QED
      BY <1>0, <2>1, <3>1, LenProperties DEF SliceOf, ArrayOf
  <2>5. c.arr = 0 => /\ x \notin keep => Shifted(h, acc.heap, s, i, acc.kept, keep)
                     /\ Shifted(h, g, s, i, acc.kept + 1, keep)
    <3>1. acc.heap \in Heaps /\ acc.kept < i
      BY <1>0, <2>1
    <3>2. CASE c.arr = 0
      <4>1. Shifted(h, acc.heap, s, i - 1, acc.kept, keep)
        BY <2>1, <3>2
      <4> HIDE DEF keep
      <4> QED
        BY <1>0, <2>1, <2>4, <3>1, <4>1, ShiftOn
    <3> QED
      BY <3>2
  <2>2. CASE confirmed(acc.heap, x)
    <3>1. Kept(acc, i)
      BY <2>2, <2>5 DEF Unnamed
    <3>2. Body(acc, i) = acc
      BY <2>2
    <3> HIDE DEF Body, Kept, Acc
    <3> QED
      BY <1>0, <2>1, <3>1, <3>2
  <2>3. CASE ~confirmed(acc.heap, x)
    <3>1. Body(acc, i) = [heap |-> g, kept |-> acc.kept + 1]
      BY <2>3
    <3>4. HeapOK(g) /\ Evolves(acc.heap, g)
      BY <2>1, <2>4, WriteCell
    <3>5. Evolves(h, g) /\ g \in Heaps
      BY <2>1, <3>4, EvolvesOn DEF HeapOK
    <3>7. Kept([heap |-> g, kept |-> acc.kept + 1], i)
      BY <2>5
    <3> HIDE DEF g, Body, Kept
    <3>6. Body(acc, i) \in Acc
      BY <2>1, <3>1, <3>5
    <3> QED
      BY <1>0, <2>1, <3>1, <3>4, <3>5, <3>6, <3>7
  <2> QED
    BY <2>1, <2>2, <2>3
<1>3. \A i \in 1..s.len : \A acc \in Inv[i - 1] : next[<<acc, i>>] = Body(acc, i)
  <2> HIDE DEF Body, Inv, Acc
  <2> QED
    BY <1>2
<1>4. \E f : Loops(f)
  <2> HIDE DEF Body, Inv, next, base
  <2>0. Keeps(next, s.len, Inv)
    BY <1>2, <1>3 DEF Keeps
  <2>1. PICK f : /\ IsLoop(f, s.len, base, next)
                 /\ \A i \in 0..s.len : f[i] \in Inv[i]
    BY <1>0, <1>1, <2>0, Iteration
  <2>2. \A i \in 1..s.len : next[<<f[i - 1], i>>] = Body(f[i - 1], i)
    <3>1. \A i \in 1..s.len : i - 1 \in 0..s.len
      BY <1>0
    <3> QED
      BY <1>3, <2>1, <3>1
  <2>3. \A i \in 0..s.len : i = 0 \/ i \in 1..s.len
    BY <1>0
  <2>4. Loops(f)
    BY <2>1, <2>2, <2>3 DEF IsLoop
  <2> QED
    BY <2>4
<1>5. Loops(loop)
  BY <1>4
<1>6. loop[s.len] \in Inv[s.len]
  <2> HIDE DEF Body, Inv, base, loop
  <2> DEFINE P == {i \in 0..s.len : loop[i] \in Inv[i]}
  <2>1. 0 \in P
    BY <1>0, <1>1, <1>5
  <2>2. ASSUME NEW i \in 1..s.len, i - 1 \in P
        PROVE  i \in P
    <3>1. loop[i] = Body(loop[i - 1], i)
      BY <1>0, <1>5
    <3> QED
      BY <1>2, <2>2, <3>1
  <2>3. 0..s.len \subseteq P
    <3> HIDE DEF P
    <3> QED
      BY <1>0, <2>1, <2>2, UpTo
  <2> QED
    BY <1>0, <2>3
<1>7. WithoutConfirmed(h, s, c, copy) =
        [heap |-> loop[s.len].heap, slice |-> [s EXCEPT !.len = loop[s.len].kept]]
  BY DEF WithoutConfirmed
<1>8. /\ HeapOK(loop[s.len].heap) /\ Evolves(h, loop[s.len].heap)
      /\ loop[s.len].kept \in Nat /\ loop[s.len].kept <= s.len
      /\ Kept(loop[s.len], s.len)
  <2> HIDE DEF Body, Kept, loop
  <2> QED
    BY <1>0, <1>6
<1>9. SliceOf(loop[s.len].heap, [s EXCEPT !.len = loop[s.len].kept], T)
  <2> HIDE DEF loop
  <2>1. PICK t : t = [s EXCEPT !.len = loop[s.len].kept]
    OBVIOUS
  <2>2. t \in Slices /\ t.arr = s.arr /\ t.len = loop[s.len].kept
    BY <1>0, <1>8, <2>1 DEF Slices
  <2>3. SliceOf(loop[s.len].heap, s, T)
    BY <1>8, SliceKept
  <2>4. SliceOf(loop[s.len].heap, t, T)
    BY <1>0, <1>8, <2>2, <2>3, LenProperties DEF SliceOf, ArrayOf
  <2> QED
    BY <2>1, <2>4
<1> HIDE DEF loop
<1>10. PICK t : t = [s EXCEPT !.len = loop[s.len].kept]
  OBVIOUS
<1>11. t.arr = s.arr /\ t.len = loop[s.len].kept
  BY <1>0, <1>10
<1>12. WithoutConfirmed(h, s, c, copy) = [heap |-> loop[s.len].heap, slice |-> t]
  BY <1>7, <1>10
<1>13. c.arr = 0 => Shifted(h, loop[s.len].heap, s, s.len, t.len, keep)
  BY <1>8, <1>11
<1>14. SliceOf(loop[s.len].heap, t, T)
  BY <1>9, <1>10
<1> QED
  BY <1>8, <1>11, <1>12, <1>13, <1>14

\* The polls that a block may still get.
Free(ids, blank) == {p \in Poll : ids[p] = 0} \ blank

\* The loop over the polls of a block: valid polls move towards the front, and
\* may get an ID.  Those that stay without one when IDs are given are kept.
LEMMA CheckedPollsTyped ==
  ASSUME NEW h, HeapOK(h), NEW s, SliceOf(h, s, Poll), NEW ids \in [Poll -> Nat],
         NEW first \in Nat, NEW blank, NEW create \in BOOLEAN
  PROVE  LET w == CheckedPolls(h, s, ids, first, blank, create)
         IN  /\ HeapOK(w.heap) /\ Evolves(h, w.heap) /\ SliceOf(w.heap, w.slice, Poll)
             /\ w.pollID \in [Poll -> Nat]
             /\ w.slice.arr = s.arr /\ w.slice.len <= s.len
             /\ create => /\ Free(w.pollID, blank) \subseteq Free(ids, blank)
                          /\ Shifted(h, w.heap, s, s.len, w.slice.len, Free(w.pollID, blank))
PROOF
<1> DEFINE valid(acc, p) == /\ acc.pollID[p] = (IF create THEN 0 ELSE first + acc.kept)
                            /\ p \notin blank
           Body(acc, i) ==
             LET p == acc.heap[s.arr][i]
             IN  IF valid(acc, p)
                   THEN [heap |-> [acc.heap EXCEPT ![s.arr][acc.kept + 1] = p],
                         pollID |-> [acc.pollID EXCEPT ![p] = first + acc.kept],
                         kept |-> acc.kept + 1]
                   ELSE acc
           base == [heap |-> h, pollID |-> ids, kept |-> 0]
           Acc == [heap : Heaps, pollID : [Poll -> Nat], kept : Nat]
           Kept(acc, i) == create =>
                             /\ Free(acc.pollID, blank) \subseteq Free(ids, blank)
                             /\ Shifted(h, acc.heap, s, i, acc.kept, Free(acc.pollID, blank))
           Inv == [i \in 0..s.len |->
                     {acc \in Acc : /\ HeapOK(acc.heap) /\ Evolves(h, acc.heap)
                                    /\ acc.kept <= i /\ Kept(acc, i)}]
           next == [p \in Acc \X (1..s.len) |-> Body(p[1], p[2])]
           Loops(f) == f = [i \in 0..s.len |-> IF i = 0 THEN base ELSE Body(f[i - 1], i)]
           loop == CHOOSE f : Loops(f)
<1>10. Poll \in Kinds
  BY DEF Kinds
<1>0. s.len \in Nat /\ s.arr \in Nat /\ s = [arr |-> s.arr, len |-> s.len]
  BY DEF SliceOf, Slices
<1>1. base \in Inv[0]
  <2>1. Kept(base, 0)
    BY DEF Shifted
  <2> QED
    BY <1>0, <2>1, EvolvesSame DEF HeapOK
<1>2. ASSUME NEW i \in 1..s.len, NEW acc \in Inv[i - 1]
      PROVE  acc \in Acc /\ Body(acc, i) \in Inv[i]
  <2>1. /\ acc \in Acc /\ HeapOK(acc.heap) /\ Evolves(h, acc.heap)
        /\ acc.kept \in Nat /\ acc.kept <= i - 1 /\ acc.pollID \in [Poll -> Nat]
        /\ Kept(acc, i - 1)
    BY <1>0
  <2> DEFINE x == acc.heap[s.arr][i]
             ok == valid(acc, x)
             q == [acc.pollID EXCEPT ![x] = first + acc.kept]
             g == [acc.heap EXCEPT ![s.arr][acc.kept + 1] = x]
  <2>4. /\ s.arr \in DOMAIN acc.heap /\ ArrayOf(acc.heap[s.arr], Poll)
        /\ s.len <= Len(acc.heap[s.arr])
        /\ acc.kept + 1 \in 1..Len(acc.heap[s.arr]) /\ x \in Poll
    <3>1. SliceOf(acc.heap, s, Poll)
      BY <2>1, SliceKept, <1>10
    <3> QED
      BY <1>0, <2>1, <3>1, LenProperties DEF SliceOf, ArrayOf
  <2>5. ASSUME create, NEW less, less \subseteq Free(acc.pollID, blank)
        PROVE  /\ x \notin less => Shifted(h, acc.heap, s, i, acc.kept, less)
               /\ Shifted(h, g, s, i, acc.kept + 1, less)
    <3>1. acc.heap \in Heaps /\ acc.kept < i
      BY <1>0, <2>1
    <3>2. Shifted(h, acc.heap, s, i - 1, acc.kept, Free(acc.pollID, blank))
      BY <2>1, <2>5
    <3> QED
      BY <1>0, <2>1, <2>4, <2>5, <3>1, <3>2, ShiftOn
  <2>2. CASE ~ok
    <3>1. Body(acc, i) = acc
      BY <2>2
    <3>2. Kept(acc, i)
      <4>1. create => x \notin Free(acc.pollID, blank)
        BY <2>2 DEF Free
      <4> QED
        BY <2>1, <2>5, <4>1
    <3> HIDE DEF Body, Acc, Kept
    <3> QED
      BY <1>0, <2>1, <3>1, <3>2
  <2>3. CASE ok
    <3>1. Body(acc, i) = [heap |-> g, pollID |-> q, kept |-> acc.kept + 1]
      BY <2>3
    <3>4. HeapOK(g) /\ Evolves(acc.heap, g)
      BY <2>1, <2>4, WriteCell, <1>10
    <3>5. Evolves(h, g) /\ g \in Heaps
      BY <2>1, <3>4, EvolvesOn DEF HeapOK
    <3>6. q \in [Poll -> Nat]
      BY <2>1, <2>4
    <3>9. create => Free(q, blank) \subseteq Free(acc.pollID, blank)
      BY <2>1, <2>3, <2>4 DEF Free
    <3>10. create => /\ Free(q, blank) \subseteq Free(ids, blank)
                     /\ Shifted(h, g, s, i, acc.kept + 1, Free(q, blank))
      <4> HIDE DEF g, q
      <4> QED
        BY <2>1, <2>5, <3>9
    <3> HIDE DEF g, q, Body
    <3>7. Body(acc, i) \in Acc
      BY <2>1, <3>1, <3>5, <3>6
    <3>8. /\ Body(acc, i).heap = g /\ Body(acc, i).kept = acc.kept + 1
          /\ Body(acc, i).pollID = q
      BY <3>1
    <3>11. Kept(Body(acc, i), i)
      BY <3>8, <3>10
    <3> HIDE DEF Acc, Kept
    <3> QED
      BY <1>0, <2>1, <3>4, <3>5, <3>7, <3>8, <3>11
  <2> HIDE DEF Body, Acc, Inv, ok
  <2> QED
    BY <2>1, <2>2, <2>3
<1>3. \A i \in 1..s.len : \A acc \in Inv[i - 1] : next[<<acc, i>>] = Body(acc, i)
  <2> HIDE DEF Body, Inv, Acc
  <2> QED
    BY <1>2
<1>4. \E f : Loops(f)
  <2> HIDE DEF Body, Inv, next, base
  <2>0. Keeps(next, s.len, Inv)
    BY <1>2, <1>3 DEF Keeps
  <2>1. PICK f : /\ IsLoop(f, s.len, base, next)
                 /\ \A i \in 0..s.len : f[i] \in Inv[i]
    BY <1>0, <1>1, <2>0, Iteration
  <2>2. \A i \in 1..s.len : next[<<f[i - 1], i>>] = Body(f[i - 1], i)
    <3>1. \A i \in 1..s.len : i - 1 \in 0..s.len
      BY <1>0
    <3> QED
      BY <1>3, <2>1, <3>1
  <2>3. \A i \in 0..s.len : i = 0 \/ i \in 1..s.len
    BY <1>0
  <2>4. Loops(f)
    BY <2>1, <2>2, <2>3 DEF IsLoop
  <2> QED
    BY <2>4
<1>5. Loops(loop)
  BY <1>4
<1>6. loop[s.len] \in Inv[s.len]
  <2> HIDE DEF Body, Inv, base, loop
  <2> DEFINE P == {i \in 0..s.len : loop[i] \in Inv[i]}
  <2>1. 0 \in P
    BY <1>0, <1>1, <1>5
  <2>2. ASSUME NEW i \in 1..s.len, i - 1 \in P
        PROVE  i \in P
    <3>1. loop[i] = Body(loop[i - 1], i)
      <4>1. i \in 0..s.len /\ i # 0
        BY <1>0
      <4> QED
        BY <1>5, <4>1
    <3> QED
      BY <1>2, <2>2, <3>1
  <2>3. 0..s.len \subseteq P
    <3> HIDE DEF P
    <3> QED
      BY <1>0, <2>1, <2>2, UpTo
  <2> QED
    BY <1>0, <2>3
<1>7. CheckedPolls(h, s, ids, first, blank, create) =
        [heap |-> loop[s.len].heap, pollID |-> loop[s.len].pollID,
         slice |-> [s EXCEPT !.len = loop[s.len].kept], ok |-> loop[s.len].kept = s.len]
  BY DEF CheckedPolls
<1>8. /\ HeapOK(loop[s.len].heap) /\ Evolves(h, loop[s.len].heap)
      /\ loop[s.len].kept \in Nat /\ loop[s.len].kept <= s.len
      /\ loop[s.len].pollID \in [Poll -> Nat]
      /\ Kept(loop[s.len], s.len)
  <2> HIDE DEF Body, Kept, loop
  <2> QED
    BY <1>0, <1>6
<1>9. SliceOf(loop[s.len].heap, [s EXCEPT !.len = loop[s.len].kept], Poll)
  <2> HIDE DEF loop
  <2>1. PICK t : t = [s EXCEPT !.len = loop[s.len].kept]
    OBVIOUS
  <2>2. t \in Slices /\ t.arr = s.arr /\ t.len = loop[s.len].kept
    BY <1>0, <1>8, <2>1 DEF Slices
  <2>3. SliceOf(loop[s.len].heap, s, Poll)
    BY <1>8, SliceKept, <1>10
  <2>4. SliceOf(loop[s.len].heap, t, Poll)
    BY <1>0, <1>8, <2>2, <2>3, LenProperties DEF SliceOf, ArrayOf
  <2> QED
    BY <2>1, <2>4
<1> HIDE DEF loop
<1>11. PICK t : t = [s EXCEPT !.len = loop[s.len].kept]
  OBVIOUS
<1>12. t.arr = s.arr /\ t.len = loop[s.len].kept
  BY <1>0, <1>11
<1>13. CheckedPolls(h, s, ids, first, blank, create) =
         [heap |-> loop[s.len].heap, pollID |-> loop[s.len].pollID,
          slice |-> t, ok |-> loop[s.len].kept = s.len]
  BY <1>7, <1>11
<1>14. SliceOf(loop[s.len].heap, t, Poll)
  BY <1>9, <1>11
<1>15. create => /\ Free(loop[s.len].pollID, blank) \subseteq Free(ids, blank)
                 /\ Shifted(h, loop[s.len].heap, s, s.len, t.len,
                            Free(loop[s.len].pollID, blank))
  BY <1>8, <1>12
<1> QED
  BY <1>8, <1>12, <1>13, <1>14, <1>15
-----------------------------------------------------------------------------
(***************************************************************************)
(* The invariant behind the types.  Every slice of a node is of its kind,  *)
(* that of the pool and those of the blocks; what is sent was made from    *)
(* such slices; and listenBlocks works on a block that is in the memory of *)
(* the node, or was decoded from what was sent.                            *)
(***************************************************************************)
MemShaped ==
  /\ heap \in [Node -> Heaps]
  /\ polls \in [Node -> Slices] /\ regs \in [Node -> Slices]
  /\ pollID \in [Node -> [Poll -> Nat]]
  /\ heard \in [Node -> SUBSET Tx]
  /\ tpc \in [Node -> {"wait", "id", "prev", "fill", "mine", "hash"}]
  /\ \E V : newBlock \in [Node -> [id : V, prev : V, polls : Slices, regs : Slices]]
  /\ \E M : mined \in [Node -> Seq(M)]

\* The slices of a node, in the pool and in its blocks, are of their kinds.
Pooled(n) ==
  /\ HeapOK(heap[n]) /\ heard[n] \subseteq Reaches[n]
  /\ SliceOf(heap[n], polls[n], Poll) /\ SliceOf(heap[n], regs[n], Reg)
  /\ SliceOf(heap[n], newBlock[n].polls, Poll) /\ SliceOf(heap[n], newBlock[n].regs, Reg)
  /\ \A k \in DOMAIN mined[n] : /\ SliceOf(heap[n], mined[n][k].polls, Poll)
                                /\ SliceOf(heap[n], mined[n][k].regs, Reg)

\* The invariant of the memories.
MemInv == MemShaped /\ \A n \in Node : Pooled(n)

\* A poll as a block that was encoded holds it.
Listed == [poll : Poll, id : Nat]

\* What is sent was made from such slices.
WireInv ==
  /\ \A m \in sentTxs : m.tx \in Tx /\ m.id \in Nat
  /\ \A b \in sentBlocks : b.polls \in Seq(Listed) /\ b.regs \in Seq(Reg)

\* A block of the node itself is in its memory, one of another was decoded.
InMemory(n, b) == IF b.from = n THEN b.num \in DOMAIN mined[n]
                  ELSE b.polls \in Seq(Listed) /\ b.regs \in Seq(Reg)

\* The ledger and the registry hold polls and registrations, and the block
\* that listenBlocks works on is at hand.
BooksInv ==
  /\ ledger \in [Node -> Seq([poll : Poll, id : Nat, shared : BOOLEAN])]
  /\ registry \in [Node -> Seq(Reg)]
  /\ stopMining \in [Node -> Seq(Nat)]
  /\ \A n \in Node : /\ Len(stopMining[n]) <= StopCap
                     /\ bpc[n] # "wait" => InMemory(n, block[n])

\* The whole invariant.
MinerTypes == MemInv /\ WireInv /\ BooksInv

\* In the initial state every slice is nil, and nothing was sent but by users.
LEMMA MinerTypesInit ==
  Init => MinerTypes
PROOF
<1> SUFFICES ASSUME Init PROVE MinerTypes
  OBVIOUS
<1>1. HeapOK(<<>>) /\ \A T \in Kinds : SliceOf(<<>>, NilSlice, T)
  BY DEF HeapOK, Heaps, SliceOf, Slices, NilSlice
<1>2. Poll \in Kinds /\ Reg \in Kinds
  BY DEF Kinds
<1>3. MemShaped
  <2>1. NilSlice \in Slices /\ <<>> \in Heaps
    BY DEF NilSlice, Slices, Heaps
  <2>2. NoNewBlock \in [id : {0, GenesisHash}, prev : {0, GenesisHash},
                        polls : Slices, regs : Slices]
    BY <2>1 DEF NoNewBlock
  <2>3. newBlock \in [Node -> [id : {0, GenesisHash}, prev : {0, GenesisHash},
                               polls : Slices, regs : Slices]]
    BY <2>2 DEF Init
  <2>4. mined \in [Node -> Seq({})]
    BY DEF Init
  <2> QED
    BY <2>1, <2>3, <2>4 DEF Init, MemShaped
<1>4. ASSUME NEW n \in Node
      PROVE  Pooled(n)
  BY <1>1, <1>2 DEF Init, Pooled, NoNewBlock
<1>5. WireInv
  BY DEF Init, WireInv
<1>6. BooksInv
  BY MinerAssumption DEF MinerAssumption, Init, BooksInv
<1> QED
  BY <1>3, <1>4, <1>5, <1>6 DEF MinerTypes, MemInv

-----------------------------------------------------------------------------
\* What a node does to its own memory concerns no other node.
LEMMA PooledElsewhere ==
  ASSUME MemInv, NEW m \in Node,
         heap'[m] = heap[m], polls'[m] = polls[m], regs'[m] = regs[m],
         heard'[m] = heard[m], newBlock'[m] = newBlock[m], mined'[m] = mined[m]
  PROVE  Pooled(m)'
PROOF
  BY DEF MemInv, Pooled

\* The slices of a node that it does not change, after a write through others.
LEMMA PooledKept ==
  ASSUME NEW n, Pooled(n), NEW g, Evolves(heap[n], g)
  PROVE  /\ SliceOf(g, polls[n], Poll) /\ SliceOf(g, regs[n], Reg)
         /\ SliceOf(g, newBlock[n].polls, Poll) /\ SliceOf(g, newBlock[n].regs, Reg)
         /\ \A k \in DOMAIN mined[n] : /\ SliceOf(g, mined[n][k].polls, Poll)
                                       /\ SliceOf(g, mined[n][k].regs, Reg)
PROOF
<1>1. Poll \in Kinds /\ Reg \in Kinds
  BY DEF Kinds
<1> QED
  BY <1>1, SliceKept DEF Pooled

\* A transaction goes to the end of its slice.
LEMMA AddTransactionTyped ==
  ASSUME MemInv, WireInv, NEW n \in Node, NEW m \in sentTxs, AddTransaction(n, m)
  PROVE  MemInv'
PROOF
<1> DEFINE t == m.tx
           s == IF t \in Poll THEN polls[n] ELSE regs[n]
           T == IF t \in Poll THEN Poll ELSE Reg
           a == Appended(heap[n], s, t)
<1>1. t \in T /\ T \in Kinds /\ t \in Tx /\ m.id \in Nat
  BY DEF WireInv, Kinds, Tx
<1>2. SliceOf(heap[n], s, T) /\ HeapOK(heap[n]) /\ Pooled(n)
  BY DEF MemInv, Pooled
<1>3. HeapOK(a.heap) /\ Evolves(heap[n], a.heap) /\ SliceOf(a.heap, a.slice, T)
  <2> HIDE DEF s, T, t
  <2> QED
    BY <1>1, <1>2, AppendedTyped
<1>4. /\ heap' = [heap EXCEPT ![n] = a.heap] /\ heard' = [heard EXCEPT ![n] = @ \cup {t}]
      /\ t \in Reaches[n] /\ UNCHANGED <<newBlock, mined>>
  BY DEF AddTransaction
<1>5. \/ /\ t \in Poll /\ polls' = [polls EXCEPT ![n] = a.slice]
         /\ pollID' = [pollID EXCEPT ![n][t] = m.id] /\ regs' = regs
      \/ /\ t \notin Poll /\ regs' = [regs EXCEPT ![n] = a.slice]
         /\ UNCHANGED <<polls, pollID>>
  BY DEF AddTransaction
<1>6. tpc' \in [Node -> {"wait", "id", "prev", "fill", "mine", "hash"}]
  BY DEF AddTransaction, MemInv, MemShaped
<1> HIDE DEF a, t
<1>7. MemShaped'
  <2>1. a.slice \in Slices /\ a.heap \in Heaps
    BY <1>3 DEF SliceOf, HeapOK
  <2>2. /\ heap' \in [Node -> Heaps] /\ polls' \in [Node -> Slices]
        /\ regs' \in [Node -> Slices] /\ heard' \in [Node -> SUBSET Tx]
    BY <1>1, <1>4, <1>5, <2>1 DEF MemInv, MemShaped
  <2>3. pollID' \in [Node -> [Poll -> Nat]]
    <3>1. pollID[n] \in [Poll -> Nat] /\ pollID \in [Node -> [Poll -> Nat]]
      BY DEF MemInv, MemShaped
    <3>2. CASE t \in Poll
      <4>1. [pollID[n] EXCEPT ![t] = m.id] \in [Poll -> Nat]
        BY <1>1, <3>1
      <4>2. pollID' = [pollID EXCEPT ![n] = [pollID[n] EXCEPT ![t] = m.id]]
        BY <1>5, <3>2
      <4> QED
        BY <3>1, <4>1, <4>2
    <3>3. CASE t \notin Poll
      BY <1>5, <3>1, <3>3
    <3> QED
      BY <3>2, <3>3
  <2> QED
    BY <1>4, <1>6, <2>2, <2>3 DEF MemInv, MemShaped
<1>8. Pooled(n)'
  <2>1. heap'[n] = a.heap /\ heard'[n] = heard[n] \cup {t}
    BY <1>4 DEF MemInv, MemShaped
  <2>2. SliceOf(a.heap, polls'[n], Poll) /\ SliceOf(a.heap, regs'[n], Reg)
    <3>1. SliceOf(a.heap, polls[n], Poll) /\ SliceOf(a.heap, regs[n], Reg)
      BY <1>2, <1>3, PooledKept
    <3>2. CASE t \in Poll
      <4>1. polls'[n] = a.slice /\ regs'[n] = regs[n]
        BY <1>5, <3>2 DEF MemInv, MemShaped
      <4> QED
        BY <1>3, <3>1, <3>2, <4>1
    <3>3. CASE t \notin Poll
      <4>1. regs'[n] = a.slice /\ polls'[n] = polls[n]
        BY <1>5, <3>3 DEF MemInv, MemShaped
      <4> QED
        BY <1>3, <3>1, <3>3, <4>1
    <3> QED
      BY <3>2, <3>3
  <2> QED
    BY <1>2, <1>3, <1>4, <2>1, <2>2, PooledKept DEF Pooled
<1>9. ASSUME NEW k \in Node \ {n} PROVE Pooled(k)'
  BY <1>4, <1>5, PooledElsewhere DEF MemInv, MemShaped
<1> QED
  BY <1>7, <1>8, <1>9 DEF MemInv

\* generateBlock and mine: the block at hand gets slices of the pool.
LEMMA CheckTransactionsTyped ==
  ASSUME MemInv, BooksInv, NEW n \in Node, CheckTransactionsCreate(n)
  PROVE  MemInv'
PROOF
<1> DEFINE c == CheckedPolls(heap[n], polls[n], pollID[n], NextPollID(n), Blank, TRUE)
<1>1. Pooled(n) /\ pollID[n] \in [Poll -> Nat] /\ NextPollID(n) \in Nat
  BY LenProperties DEF MemInv, MemShaped, BooksInv, NextPollID
<1>2. /\ HeapOK(c.heap) /\ Evolves(heap[n], c.heap) /\ SliceOf(c.heap, c.slice, Poll)
      /\ c.pollID \in [Poll -> Nat]
  BY <1>1, CheckedPollsTyped DEF Pooled
<1>3. /\ heap' = [heap EXCEPT ![n] = c.heap] /\ pollID' = [pollID EXCEPT ![n] = c.pollID]
      /\ newBlock' = [newBlock EXCEPT ![n].polls = c.slice, ![n].regs = regs[n]]
      /\ tpc' = [tpc EXCEPT ![n] = "mine"]
      /\ UNCHANGED <<polls, regs, heard, mined>>
  BY DEF CheckTransactionsCreate, txVars
<1> HIDE DEF c
<1>4. PICK V : newBlock \in [Node -> [id : V, prev : V, polls : Slices, regs : Slices]]
  BY DEF MemInv, MemShaped
<1>5. /\ newBlock'[n] = [newBlock[n] EXCEPT !.polls = c.slice, !.regs = regs[n]]
      /\ newBlock' = [newBlock EXCEPT ![n] = newBlock'[n]]
  BY <1>3, <1>4
<1>6. /\ newBlock'[n] \in [id : V, prev : V, polls : Slices, regs : Slices]
      /\ newBlock'[n].polls = c.slice /\ newBlock'[n].regs = regs[n]
  <2>1. c.slice \in Slices /\ regs[n] \in Slices
    BY <1>2 DEF SliceOf, MemInv, MemShaped
  <2>2. PICK b \in [id : V, prev : V, polls : Slices, regs : Slices] : b = newBlock[n]
    BY <1>4
  <2>3. newBlock'[n] = [id |-> b.id, prev |-> b.prev, polls |-> c.slice, regs |-> regs[n]]
    BY <1>5, <2>2
  <2> QED
    BY <2>1, <2>2, <2>3
<1>7. MemShaped'
  <2>1. newBlock' \in [Node -> [id : V, prev : V, polls : Slices, regs : Slices]]
    BY <1>4, <1>5, <1>6
  <2>2. c.heap \in Heaps
    BY <1>2 DEF HeapOK
  <2> QED
    BY <1>2, <1>3, <2>1, <2>2 DEF MemInv, MemShaped
<1>8. Pooled(n)'
  <2>1. heap'[n] = c.heap
    BY <1>3 DEF MemInv, MemShaped
  <2> QED
    BY <1>1, <1>2, <1>3, <1>6, <2>1, PooledKept DEF Pooled
<1>9. ASSUME NEW k \in Node \ {n} PROVE Pooled(k)'
  BY <1>3, <1>4, <1>5, PooledElsewhere DEF MemInv, MemShaped
<1> QED
  BY <1>7, <1>8, <1>9 DEF MemInv

\* The other steps of the goroutine that mines do not write to an array.
LEMMA MiningTyped ==
  ASSUME MemInv, NEW n \in Node,
         ReadID(n) \/ ReadPrevHash(n) \/ TakeStop(n) \/ NoStop(n) \/ WrongNonce(n)
  PROVE  MemInv'
PROOF
<1>1. UNCHANGED <<heap, pollID, polls, regs, heard, mined>>
  BY DEF ReadID, ReadPrevHash, TakeStop, NoStop, WrongNonce, txVars
<1>2. tpc' \in [Node -> {"wait", "id", "prev", "fill", "mine", "hash"}]
  BY DEF MemInv, MemShaped, ReadID, ReadPrevHash, TakeStop, NoStop, WrongNonce
<1>3. PICK V : newBlock \in [Node -> [id : V, prev : V, polls : Slices, regs : Slices]]
  BY DEF MemInv, MemShaped
<1>4. PICK b : /\ newBlock' = [newBlock EXCEPT ![n] = b]
               /\ \/ b = NoNewBlock \/ b = newBlock[n]
                  \/ \E e : b = [newBlock[n] EXCEPT !.id = e] \/ b = [newBlock[n] EXCEPT !.prev = e]
  <2>1. CASE ReadID(n)
    <3>1. newBlock' = [newBlock EXCEPT ![n] = [newBlock[n] EXCEPT !.id = Len(chain[n])]]
      BY <2>1 DEF ReadID
    <3> QED
      BY <3>1
  <2>2. CASE ReadPrevHash(n)
    <3>1. newBlock' = [newBlock EXCEPT ![n] = [newBlock[n] EXCEPT !.prev = LastHash(n)]]
      BY <2>2 DEF ReadPrevHash
    <3> QED
      BY <3>1
  <2>3. CASE TakeStop(n) /\ newBlock' = [newBlock EXCEPT ![n] = NoNewBlock]
    BY <2>3
  <2>4. CASE newBlock' = newBlock
    <3>1. newBlock' = [newBlock EXCEPT ![n] = newBlock[n]]
      BY <1>3, <2>4
    <3> QED
      BY <3>1
  <2> QED
    BY <2>1, <2>2, <2>3, <2>4 DEF TakeStop, NoStop, WrongNonce
<1>5. PICK W : V \subseteq W /\ b \in [id : W, prev : W, polls : Slices, regs : Slices]
  <2>1. CASE b = NoNewBlock
    <3>1. NoNewBlock \in [id : V \cup {0, GenesisHash}, prev : V \cup {0, GenesisHash},
                          polls : Slices, regs : Slices]
      BY DEF NoNewBlock, NilSlice, Slices
    <3> QED
      BY <2>1, <3>1
  <2>2. CASE b = newBlock[n]
    BY <1>3, <2>2
  <2>3. ASSUME NEW e, b = [newBlock[n] EXCEPT !.id = e] \/ b = [newBlock[n] EXCEPT !.prev = e]
        PROVE  b \in [id : V \cup {e}, prev : V \cup {e}, polls : Slices, regs : Slices]
    BY <1>3, <2>3
  <2> QED
    BY <1>4, <2>1, <2>2, <2>3
<1>6. newBlock' \in [Node -> [id : W, prev : W, polls : Slices, regs : Slices]]
  <2>1. \A k \in Node : newBlock[k] \in [id : W, prev : W, polls : Slices, regs : Slices]
    BY <1>3, <1>5
  <2> QED
    BY <1>3, <1>4, <1>5, <2>1
<1>7. \/ b.polls = NilSlice /\ b.regs = NilSlice
      \/ b.polls = newBlock[n].polls /\ b.regs = newBlock[n].regs
  BY <1>3, <1>4 DEF NoNewBlock
<1>8. MemShaped'
  BY <1>1, <1>2, <1>6 DEF MemInv, MemShaped
<1>9. Pooled(n)'
  <2>1. \A T \in Kinds : SliceOf(heap[n], NilSlice, T)
    BY DEF SliceOf, Slices, NilSlice
  <2>2. newBlock'[n] = b /\ Pooled(n) /\ Poll \in Kinds /\ Reg \in Kinds
    BY <1>3, <1>4 DEF MemInv, Kinds
  <2> QED
    BY <1>1, <1>7, <2>1, <2>2 DEF Pooled
<1>10. ASSUME NEW k \in Node \ {n} PROVE Pooled(k)'
  BY <1>1, <1>3, <1>4, PooledElsewhere
<1> QED
  BY <1>8, <1>9, <1>10 DEF MemInv

\* A block that is published is the one at hand.
LEMMA PublishTyped ==
  ASSUME MemInv, NEW n \in Node, Publish(n)
  PROVE  MemInv'
PROOF
<1> DEFINE b == newBlock[n]
           e == [id |-> b.id, prev |-> b.prev, hash |-> Header(n, b, Named(n, b.polls)),
                 polls |-> b.polls, regs |-> b.regs]
<1>1. /\ UNCHANGED <<heap, pollID, polls, regs, heard>>
      /\ mined' = [mined EXCEPT ![n] = Append(mined[n], e)]
      /\ newBlock' = [newBlock EXCEPT ![n] = NoNewBlock]
      /\ tpc' = [tpc EXCEPT ![n] = "wait"]
  BY DEF Publish, txVars
<1>2. e.polls = newBlock[n].polls /\ e.regs = newBlock[n].regs
  OBVIOUS
<1> HIDE DEF e
<1>3. PICK M : mined \in [Node -> Seq(M)]
  BY DEF MemInv, MemShaped
<1>4. PICK V : newBlock \in [Node -> [id : V, prev : V, polls : Slices, regs : Slices]]
  BY DEF MemInv, MemShaped
<1>5. \A k \in Node : mined[k] \in Seq(M \cup {e})
  BY <1>3
<1>6. /\ mined' \in [Node -> Seq(M \cup {e})]
      /\ \A k \in DOMAIN mined'[n] :
           (k \in DOMAIN mined[n] /\ mined'[n][k] = mined[n][k]) \/ mined'[n][k] = e
  <2>1. /\ Append(mined[n], e) \in Seq(M \cup {e})
        /\ DOMAIN mined[n] = 1..Len(mined[n]) /\ Len(mined[n]) \in Nat
        /\ DOMAIN Append(mined[n], e) = 1..(Len(mined[n]) + 1)
        /\ \A k \in 1..Len(mined[n]) : Append(mined[n], e)[k] = mined[n][k]
        /\ Append(mined[n], e)[Len(mined[n]) + 1] = e
    BY <1>5, AppendProperties, LenProperties
  <2>2. mined'[n] = Append(mined[n], e)
    BY <1>1, <1>3
  <2>3. mined' \in [Node -> Seq(M \cup {e})]
    BY <1>1, <1>3, <1>5, <2>1
  <2>4. \A k \in 1..(Len(mined[n]) + 1) : k \in 1..Len(mined[n]) \/ k = Len(mined[n]) + 1
    BY <2>1
  <2> QED
    BY <2>1, <2>2, <2>3, <2>4
<1>7. newBlock' \in [Node -> [id : V \cup {0, GenesisHash}, prev : V \cup {0, GenesisHash},
                              polls : Slices, regs : Slices]]
  <2>1. NoNewBlock \in [id : V \cup {0, GenesisHash}, prev : V \cup {0, GenesisHash},
                        polls : Slices, regs : Slices]
    BY DEF NoNewBlock, NilSlice, Slices
  <2>2. \A k \in Node : newBlock[k] \in [id : V \cup {0, GenesisHash},
                          prev : V \cup {0, GenesisHash}, polls : Slices, regs : Slices]
    BY <1>4
  <2> QED
    BY <1>1, <1>4, <2>1, <2>2
<1>8. MemShaped'
  BY <1>1, <1>6, <1>7 DEF MemInv, MemShaped
<1>9. Pooled(n)'
  <2>1. \A T \in Kinds : SliceOf(heap[n], NilSlice, T)
    BY DEF SliceOf, Slices, NilSlice
  <2>2. /\ newBlock'[n].polls = NilSlice /\ newBlock'[n].regs = NilSlice
        /\ Pooled(n) /\ Poll \in Kinds /\ Reg \in Kinds
    BY <1>1, <1>4 DEF MemInv, Kinds, NoNewBlock
  <2>3. ASSUME NEW k \in DOMAIN mined'[n]
        PROVE  /\ SliceOf(heap[n], mined'[n][k].polls, Poll)
               /\ SliceOf(heap[n], mined'[n][k].regs, Reg)
    BY <1>2, <1>6, <2>2 DEF Pooled
  <2> QED
    BY <1>1, <2>1, <2>2, <2>3 DEF Pooled
<1>10. ASSUME NEW k \in Node \ {n} PROVE Pooled(k)'
  BY <1>1, <1>3, <1>4, PooledElsewhere
<1> QED
  BY <1>8, <1>9, <1>10 DEF MemInv

\* Checking the polls of a block of its own moves them in the array of the pool.
LEMMA HandleBlockTyped ==
  ASSUME MemInv, BooksInv, NEW n \in Node, NEW b, HandleBlock(n, b),
         b.from = n => b.num \in DOMAIN mined[n]
  PROVE  MemInv'
PROOF
<1> DEFINE check == CheckedPolls(heap[n], PollsSlice(n, b), pollID[n], NextPollID(n), Blank, FALSE)
<1>1. /\ UNCHANGED <<pollID, polls, regs, heard, tpc, newBlock, mined>>
      /\ \/ heap' = [heap EXCEPT ![n] = check.heap] /\ b.from = n
         \/ heap' = [heap EXCEPT ![n] = heap[n]]
  BY DEF HandleBlock, IsOwn, txVars, mineVars
<1>2. Pooled(n) /\ pollID[n] \in [Poll -> Nat] /\ NextPollID(n) \in Nat
  BY LenProperties DEF MemInv, MemShaped, BooksInv, NextPollID
<1>3. ASSUME b.from = n
      PROVE  HeapOK(check.heap) /\ Evolves(heap[n], check.heap)
  <2>1. SliceOf(heap[n], PollsSlice(n, b), Poll)
    BY <1>2, <1>3 DEF Pooled, PollsSlice, IsOwn
  <2> QED
    BY <1>2, <2>1, CheckedPollsTyped DEF Pooled
<1> HIDE DEF check
<1>4. PICK g : heap' = [heap EXCEPT ![n] = g] /\ HeapOK(g) /\ Evolves(heap[n], g)
  BY <1>1, <1>2, <1>3, EvolvesSame DEF Pooled
<1>5. MemShaped'
  <2>1. heap' \in [Node -> Heaps]
    BY <1>4 DEF HeapOK, MemInv, MemShaped
  <2> QED
    BY <1>1, <2>1 DEF MemInv, MemShaped
<1>6. Pooled(n)'
  <2>1. heap'[n] = g
    BY <1>4 DEF MemInv, MemShaped
  <2> QED
    BY <1>1, <1>2, <1>4, <2>1, PooledKept DEF Pooled
<1>7. ASSUME NEW k \in Node \ {n} PROVE Pooled(k)'
  BY <1>1, <1>4, PooledElsewhere DEF MemInv, MemShaped
<1> QED
  BY <1>5, <1>6, <1>7 DEF MemInv

\* What is confirmed leaves the pool: first the polls, then the registrations.
LEMMA RemoveConfirmedTyped ==
  ASSUME MemInv, NEW n \in Node, RemoveConfirmedTx(n)
  PROVE  MemInv'
PROOF
<1>0. PICK c, names, d, copy :
        LET p == WithoutConfirmed(heap[n], polls[n], c, names)
            r == WithoutConfirmed(p.heap, regs[n], d, copy)
        IN  /\ heap' = [heap EXCEPT ![n] = r.heap]
            /\ polls' = [polls EXCEPT ![n] = p.slice]
            /\ regs' = [regs EXCEPT ![n] = r.slice]
  BY DEF RemoveConfirmedTx
<1> DEFINE p == WithoutConfirmed(heap[n], polls[n], c, names)
           r == WithoutConfirmed(p.heap, regs[n], d, copy)
<1>1. /\ heap' = [heap EXCEPT ![n] = r.heap]
      /\ polls' = [polls EXCEPT ![n] = p.slice]
      /\ regs' = [regs EXCEPT ![n] = r.slice]
      /\ UNCHANGED <<pollID, heard, tpc, newBlock, mined>>
  BY <1>0 DEF RemoveConfirmedTx, mineVars
<1>2. Pooled(n) /\ Poll \in Kinds /\ Reg \in Kinds
  BY DEF MemInv, Kinds
<1>3. HeapOK(p.heap) /\ Evolves(heap[n], p.heap) /\ SliceOf(p.heap, p.slice, Poll)
  BY <1>2, WithoutConfirmedTyped DEF Pooled
<1>4. SliceOf(p.heap, regs[n], Reg)
  BY <1>2, <1>3, PooledKept
<1>5. HeapOK(r.heap) /\ Evolves(p.heap, r.heap) /\ SliceOf(r.heap, r.slice, Reg)
  <2> HIDE DEF p
  <2> QED
    BY <1>2, <1>3, <1>4, WithoutConfirmedTyped
<1> HIDE DEF p, r
<1>6. Evolves(heap[n], r.heap) /\ SliceOf(r.heap, p.slice, Poll)
  BY <1>2, <1>3, <1>5, EvolvesOn, SliceKept
<1>7. MemShaped'
  <2>1. r.heap \in Heaps /\ p.slice \in Slices /\ r.slice \in Slices
    BY <1>3, <1>5 DEF HeapOK, SliceOf
  <2> QED
    BY <1>1, <2>1 DEF MemInv, MemShaped
<1>8. Pooled(n)'
  <2>1. heap'[n] = r.heap /\ polls'[n] = p.slice /\ regs'[n] = r.slice
    BY <1>1 DEF MemInv, MemShaped
  <2> QED
    BY <1>1, <1>2, <1>5, <1>6, <2>1, PooledKept DEF Pooled
<1>9. ASSUME NEW k \in Node \ {n} PROVE Pooled(k)'
  BY <1>1, PooledElsewhere DEF MemInv, MemShaped
<1> QED
  BY <1>7, <1>8, <1>9 DEF MemInv

\* Every step keeps the slices of every node.
LEMMA MemStep ==
  ASSUME MinerTypes, [Next]_vars
  PROVE  MemInv'
PROOF
<1>0. MemInv /\ WireInv /\ BooksInv
  BY DEF MinerTypes
<1>1. CASE UNCHANGED <<heap, pollID, txVars, mineVars>>
  BY <1>0, <1>1 DEF MemInv, MemShaped, Pooled, txVars, mineVars
<1>2. CASE UNCHANGED vars
  BY <1>1, <1>2 DEF vars
<1>3. CASE Next
  <2> PICK n \in Node : Step(n)
    BY <1>3 DEF Next
  <2>1. ASSUME NEW m \in sentTxs, AddTransaction(n, m)
        PROVE  MemInv'
    BY <1>0, <2>1, AddTransactionTyped
  <2>2. CASE ReadID(n) \/ ReadPrevHash(n) \/ TakeStop(n) \/ NoStop(n) \/ WrongNonce(n)
    BY <1>0, <2>2, MiningTyped
  <2>3. CASE CheckTransactionsCreate(n) \/ Publish(n) \/ RemoveConfirmedTx(n)
    BY <1>0, <2>3, CheckTransactionsTyped, PublishTyped, RemoveConfirmedTyped
  <2>4. ASSUME NEW b \in sentBlocks, b.from # n, HandleBlock(n, b)
        PROVE  MemInv'
    BY <1>0, <2>4, HandleBlockTyped
  <2>5. ASSUME NEW k \in DOMAIN mined[n], HandleBlock(n, OwnBlock(n, k))
        PROVE  MemInv'
    <3>1. OwnBlock(n, k).num = k
      BY DEF OwnBlock
    <3> QED
      BY <1>0, <2>5, <3>1, HandleBlockTyped
  <2>6. CASE StopMining(n) \/ AppendBlock(n) \/ AddTransactions(n)
    BY <1>1, <2>6 DEF StopMining, AppendBlock, AddTransactions
  <2> QED
    BY <2>1, <2>2, <2>3, <2>4, <2>5, <2>6 DEF Step
<1> QED
  BY <1>2, <1>3

-----------------------------------------------------------------------------
\* The polls of a slice as they are sent, and as they are hashed.
LEMMA NamedTyped ==
  ASSUME NEW h, HeapOK(h), NEW s, SliceOf(h, s, Poll), NEW ids \in [Poll -> Nat]
  PROVE  LET ps == Elements(h, s)
         IN  [i \in DOMAIN ps |-> [poll |-> ps[i], id |-> ids[ps[i]]]] \in Seq(Listed)
PROOF
<1> DEFINE ps == Elements(h, s)
<1>1. ps \in Seq(Poll)
  BY ElementsTyped DEF Kinds
<1> HIDE DEF ps
<1>2. DOMAIN ps = 1..Len(ps) /\ Len(ps) \in Nat /\ \A i \in 1..Len(ps) : ps[i] \in Poll
  BY <1>1, LenProperties
<1>3. \A i \in 1..Len(ps) : [poll |-> ps[i], id |-> ids[ps[i]]] \in Listed
  BY <1>2 DEF Listed
<1>4. [i \in DOMAIN ps |-> [poll |-> ps[i], id |-> ids[ps[i]]]] \in [1..Len(ps) -> Listed]
  BY <1>2, <1>3
<1>5. [i \in DOMAIN ps |-> [poll |-> ps[i], id |-> ids[ps[i]]]] \in Seq(Listed)
  BY <1>2, <1>4
<1> QED
  BY <1>5 DEF ps

\* Whatever a rumorer encodes is made of transactions.
LEMMA EncodeTyped ==
  ASSUME WireInv, MemInv', NEW n \in Node, Encode(n)
  PROVE  WireInv'
PROOF
<1>1. \A m \in OwnPolls(n)' : m.tx \in Tx /\ m.id \in Nat
  BY DEF OwnPolls, MemInv, MemShaped, Tx
<1>2. ASSUME NEW k \in (DOMAIN mined[n])'
      PROVE  /\ Named(n, mined[n][k].polls)' \in Seq(Listed)
             /\ Elements(heap'[n], mined'[n][k].regs) \in Seq(Reg)
  <2>1. /\ HeapOK(heap'[n]) /\ pollID'[n] \in [Poll -> Nat]
        /\ SliceOf(heap'[n], mined'[n][k].polls, Poll)
        /\ SliceOf(heap'[n], mined'[n][k].regs, Reg)
    BY <1>2 DEF MemInv, MemShaped, Pooled
  <2>2. Reg \in Kinds
    BY DEF Kinds
  <2> QED
    BY <2>1, <2>2, NamedTyped, ElementsTyped DEF Named
<1>3. \A b \in OwnBlocks(n)' : b.polls \in Seq(Listed) /\ b.regs \in Seq(Reg)
  BY <1>2 DEF OwnBlocks
<1> QED
  BY <1>1, <1>3 DEF WireInv, Encode

\* A step encodes what its node has in memory, or sends nothing.
LEMMA WireStep ==
  ASSUME WireInv, MemInv', [Next]_vars
  PROVE  WireInv'
PROOF
<1>1. CASE UNCHANGED wire
  BY <1>1 DEF WireInv, wire
<1>2. CASE \E n \in Node : Encode(n)
  BY <1>2, EncodeTyped
<1>3. CASE UNCHANGED vars
  BY <1>1, <1>3 DEF vars
<1>4. CASE Next
  <2> PICK n \in Node : Step(n)
    BY <1>4 DEF Next
  <2>1. UNCHANGED wire \/ Encode(n)
    BY DEF Step, AddTransaction, ReadID, ReadPrevHash, CheckTransactionsCreate, TakeStop, NoStop,
           WrongNonce, Publish, HandleBlock, StopMining, AppendBlock, AddTransactions,
           RemoveConfirmedTx
  <2> QED
    BY <1>1, <1>2, <2>1
<1> QED
  BY <1>3, <1>4

\* A node never forgets a block that it published.
LEMMA MinedGrows ==
  ASSUME MemInv, [Next]_vars, NEW m \in Node
  PROVE  /\ DOMAIN mined[m] \subseteq DOMAIN mined'[m]
         /\ \A k \in DOMAIN mined[m] : mined'[m][k] = mined[m][k]
PROOF
<1>1. CASE UNCHANGED mined
  BY <1>1
<1>2. ASSUME NEW n \in Node, Publish(n)
      PROVE  /\ DOMAIN mined[m] \subseteq DOMAIN mined'[m]
             /\ \A k \in DOMAIN mined[m] : mined'[m][k] = mined[m][k]
  <2>1. PICK M : mined \in [Node -> Seq(M)]
    BY DEF MemInv, MemShaped
  <2>2. PICK e : mined' = [mined EXCEPT ![n] = Append(mined[n], e)]
    BY <1>2 DEF Publish
  <2>3. mined[n] \in Seq(M \cup {e})
    BY <2>1
  <2>4. /\ DOMAIN mined[n] \subseteq DOMAIN Append(mined[n], e)
        /\ \A k \in DOMAIN mined[n] : Append(mined[n], e)[k] = mined[n][k]
    <3>1. /\ Append(mined[n], e) \in Seq(M \cup {e})
          /\ Len(Append(mined[n], e)) = Len(mined[n]) + 1 /\ Len(mined[n]) \in Nat
          /\ \A k \in 1..Len(mined[n]) : Append(mined[n], e)[k] = mined[n][k]
      BY <2>3, AppendProperties, LenProperties
    <3>2. DOMAIN mined[n] = 1..Len(mined[n])
      BY <2>3, LenProperties
    <3>3. DOMAIN Append(mined[n], e) = 1..Len(Append(mined[n], e))
      BY <3>1, LenProperties
    <3> QED
      BY <3>1, <3>2, <3>3
  <2> QED
    BY <2>1, <2>2, <2>4
<1>3. UNCHANGED mined \/ \E n \in Node : Publish(n)
  <2>1. ASSUME NEW n \in Node, Step(n), ~Publish(n)
        PROVE  UNCHANGED mined
    BY <2>1
    DEF Step, AddTransaction, ReadID, ReadPrevHash, CheckTransactionsCreate, TakeStop, NoStop,
        WrongNonce, HandleBlock, StopMining, AppendBlock, AddTransactions, RemoveConfirmedTx,
        mineVars
  <2> QED
    BY <2>1 DEF Next, vars, mineVars
<1> QED
  BY <1>1, <1>2, <1>3

\* What addTransactions adds to the books of a node.
LEMMA BlockTyped ==
  ASSUME MemInv, NEW n \in Node, NEW b, InMemory(n, b)
  PROVE  BlockPolls(n, b) \in Seq(Listed) /\ BlockRegs(n, b) \in Seq(Reg)
PROOF
<1>1. CASE b.from = n
  <2>1. /\ HeapOK(heap[n]) /\ pollID[n] \in [Poll -> Nat]
        /\ SliceOf(heap[n], PollsSlice(n, b), Poll) /\ SliceOf(heap[n], RegsSlice(n, b), Reg)
    BY <1>1 DEF MemInv, MemShaped, Pooled, InMemory, PollsSlice, RegsSlice, IsOwn
  <2>2. Named(n, PollsSlice(n, b)) \in Seq(Listed)
    BY <2>1, NamedTyped DEF Named
  <2>3. Elements(heap[n], RegsSlice(n, b)) \in Seq(Reg)
    BY <2>1, ElementsTyped DEF Kinds
  <2> QED
    BY <1>1, <2>2, <2>3 DEF BlockPolls, BlockRegs, IsOwn
<1>2. CASE b.from # n
  BY <1>2 DEF InMemory, BlockPolls, BlockRegs, IsOwn
<1> QED
  BY <1>1, <1>2

\* The block at hand is the one that was, or one that listenBlocks takes.
LEMMA AtHand ==
  ASSUME Shaped, WireInv, [Next]_vars, NEW m \in Node, bpc'[m] # "wait"
  PROVE  \/ bpc[m] # "wait" /\ block'[m] = block[m]
         \/ \E b : InMemory(m, b) /\ block'[m] = b
PROOF
<1>1. CASE bpc'[m] = bpc[m] /\ block'[m] = block[m]
  BY <1>1
<1>2. ASSUME NEW n \in Node, NEW b, HandleBlock(n, b), n = m => InMemory(m, b)
      PROVE  \/ bpc'[m] = bpc[m] /\ block'[m] = block[m]
             \/ InMemory(m, b) /\ block'[m] = b
  <2>1. CASE UNCHANGED <<bpc, block>>
    BY <2>1
  <2>2. CASE /\ \E at : bpc' = [bpc EXCEPT ![n] = at]
             /\ block' = [block EXCEPT ![n] = b]
    BY <1>2, <2>2 DEF Shaped
  <2> QED
    BY <1>2, <2>1, <2>2 DEF HandleBlock
<1>3. ASSUME NEW n \in Node, StopMining(n) \/ AppendBlock(n) \/ AddTransactions(n)
      PROVE  bpc[m] # "wait" /\ block'[m] = block[m]
  BY <1>3 DEF StopMining, AppendBlock, AddTransactions, Shaped
<1>4. ASSUME NEW n \in Node, RemoveConfirmedTx(n)
      PROVE  bpc'[m] = bpc[m] /\ block'[m] = block[m]
  BY <1>4 DEF RemoveConfirmedTx, Shaped
<1>5. ASSUME NEW n \in Node, Step(n)
      PROVE  \/ UNCHANGED <<bpc, block>>
             \/ \E b : HandleBlock(n, b) /\ (n = m => InMemory(m, b))
             \/ StopMining(n) \/ AppendBlock(n) \/ AddTransactions(n) \/ RemoveConfirmedTx(n)
  <2>1. ASSUME NEW b \in sentBlocks, b.from # n, HandleBlock(n, b)
        PROVE  n = m => InMemory(m, b)
    BY <2>1 DEF WireInv, InMemory
  <2>2. ASSUME NEW k \in DOMAIN mined[n], HandleBlock(n, OwnBlock(n, k))
        PROVE  InMemory(n, OwnBlock(n, k))
    BY DEF InMemory, OwnBlock
  <2>3. CASE \/ \E t \in sentTxs : AddTransaction(n, t)
             \/ ReadID(n) \/ ReadPrevHash(n) \/ CheckTransactionsCreate(n)
             \/ TakeStop(n) \/ NoStop(n) \/ WrongNonce(n) \/ Publish(n)
    BY <2>3
    DEF AddTransaction, ReadID, ReadPrevHash, CheckTransactionsCreate, TakeStop, NoStop,
        WrongNonce, Publish, blockVars
  <2> QED
    BY <1>5, <2>1, <2>2, <2>3 DEF Step
<1>6. CASE UNCHANGED vars
  BY <1>1, <1>6 DEF vars, blockVars
<1> QED
  BY <1>1, <1>2, <1>3, <1>4, <1>5, <1>6 DEF Next

\* Every step keeps the books, stopMining and the block at hand.
LEMMA BooksStep ==
  ASSUME Shaped, ChainInv, MinerTypes, [Next]_vars
  PROVE  BooksInv'
PROOF
<1>0. MemInv /\ WireInv /\ BooksInv
  BY DEF MinerTypes
<1>1. ASSUME NEW m \in Node, NEW b, InMemory(m, b)
      PROVE  InMemory(m, b)'
  BY <1>0, <1>1, MinedGrows DEF InMemory
<1>2. \A m \in Node : bpc'[m] # "wait" => InMemory(m, block[m])'
  <2> SUFFICES ASSUME NEW m \in Node, bpc'[m] # "wait" PROVE InMemory(m, block[m])'
    OBVIOUS
  <2>1. PICK b : b = block'[m]
    OBVIOUS
  <2>2. InMemory(m, b)
    <3>1. CASE bpc[m] # "wait" /\ block'[m] = block[m]
      BY <1>0, <2>1, <3>1 DEF BooksInv
    <3> QED
      BY <1>0, <2>1, <3>1, AtHand
  <2> QED
    BY <1>1, <2>1, <2>2 DEF InMemory
<1>3. CASE UNCHANGED <<ledger, registry, stopMining>>
  BY <1>0, <1>2, <1>3 DEF BooksInv
<1>4. ASSUME NEW n \in Node, TakeStop(n) \/ StopMining(n)
      PROVE  BooksInv'
  <2>1. PICK q : /\ q \in Seq(Nat) /\ Len(q) <= StopCap
                 /\ stopMining' = [stopMining EXCEPT ![n] = q]
    <3>1. stopMining[n] \in Seq(Nat) /\ Len(stopMining[n]) <= StopCap /\ StopCap \in Nat
      BY <1>0, MinerAssumption DEF BooksInv, MinerAssumption
    <3>2. CASE TakeStop(n)
      <4>1. stopMining[n] # <<>> /\ stopMining' = [stopMining EXCEPT ![n] = Tail(stopMining[n])]
        BY <3>2 DEF TakeStop
      <4>2. Tail(stopMining[n]) \in Seq(Nat) /\ Len(Tail(stopMining[n])) <= StopCap
        BY <3>1, <4>1, HeadTailProperties, LenProperties
      <4> QED
        BY <4>1, <4>2
    <3>3. CASE StopMining(n)
      <4>1. /\ block[n].id \in Nat /\ Len(stopMining[n]) < StopCap
            /\ stopMining' = [stopMining EXCEPT ![n] = Append(stopMining[n], block[n].id)]
        BY <3>3 DEF StopMining, ChainInv
      <4>2. /\ Append(stopMining[n], block[n].id) \in Seq(Nat)
            /\ Len(Append(stopMining[n], block[n].id)) <= StopCap
        BY <3>1, <4>1, AppendProperties, LenProperties
      <4> QED
        BY <4>1, <4>2
    <3> QED
      BY <1>4, <3>2, <3>3
  <2>2. UNCHANGED <<ledger, registry>>
    BY <1>4 DEF TakeStop, StopMining, chainVars
  <2> QED
    BY <1>0, <1>2, <2>1, <2>2 DEF BooksInv
<1>5. ASSUME NEW n \in Node, AddTransactions(n)
      PROVE  BooksInv'
  <2> DEFINE Entries == [poll : Poll, id : Nat, shared : BOOLEAN]
             ps == BlockPolls(n, block[n])
             added == [i \in DOMAIN ps |-> [poll |-> ps[i].poll, id |-> ps[i].id,
                                            shared |-> IsOwn(n, block[n])]]
  <2>1. ps \in Seq(Listed) /\ BlockRegs(n, block[n]) \in Seq(Reg)
    <3>1. bpc[n] # "wait"
      BY <1>5 DEF AddTransactions
    <3> QED
      BY <1>0, <3>1, BlockTyped DEF BooksInv
  <2>2. added \in Seq(Entries)
    <3> HIDE DEF ps
    <3>1. DOMAIN ps = 1..Len(ps) /\ Len(ps) \in Nat /\ \A i \in 1..Len(ps) : ps[i] \in Listed
      BY <2>1, LenProperties
    <3>2. IsOwn(n, block[n]) \in BOOLEAN
      BY DEF IsOwn
    <3>3. \A i \in 1..Len(ps) :
            [poll |-> ps[i].poll, id |-> ps[i].id, shared |-> IsOwn(n, block[n])] \in Entries
      BY <3>1, <3>2 DEF Listed
    <3>4. added \in [1..Len(ps) -> Entries]
      BY <3>1, <3>3
    <3> QED
      BY <3>1, <3>4
  <2>3. /\ ledger' = [ledger EXCEPT ![n] = ledger[n] \o added]
        /\ registry' = [registry EXCEPT ![n] = registry[n] \o BlockRegs(n, block[n])]
        /\ stopMining' = stopMining
    BY <1>5 DEF AddTransactions
  <2> HIDE DEF added, Entries
  <2>4. ledger \in [Node -> Seq(Entries)] /\ registry \in [Node -> Seq(Reg)]
    BY <1>0 DEF BooksInv, Entries
  <2>5. ledger[n] \o added \in Seq(Entries)
    BY <2>2, <2>4, ConcatProperties
  <2>6. registry[n] \o BlockRegs(n, block[n]) \in Seq(Reg)
    BY <2>1, <2>4, ConcatProperties
  <2>7. ledger' \in [Node -> Seq(Entries)] /\ registry' \in [Node -> Seq(Reg)]
    BY <2>3, <2>4, <2>5, <2>6
  <2> QED
    BY <1>0, <1>2, <2>3, <2>7 DEF BooksInv, Entries
<1>6. \/ UNCHANGED <<ledger, registry, stopMining>>
      \/ \E n \in Node : TakeStop(n) \/ StopMining(n) \/ AddTransactions(n)
  <2>1. ASSUME NEW n \in Node, Step(n), ~TakeStop(n), ~StopMining(n), ~AddTransactions(n)
        PROVE  UNCHANGED <<ledger, registry, stopMining>>
    BY <2>1
    DEF Step, AddTransaction, ReadID, ReadPrevHash, CheckTransactionsCreate, NoStop,
        WrongNonce, Publish, HandleBlock, AppendBlock, RemoveConfirmedTx, chainVars
  <2> QED
    BY <2>1 DEF Next, vars, chainVars
<1> QED
  BY <1>3, <1>4, <1>5, <1>6

(***************************************************************************)
(* The types of the miners.  No slice ever reaches beyond what was written *)
(* in its array, or holds a transaction of another kind, although the pool *)
(* and the blocks share arrays and move in them what the others read.      *)
(***************************************************************************)
THEOREM TypeCorrect == Spec => []TypeOK
PROOF
<1>1. Shaped /\ ChainInv /\ MinerTypes /\ [Next]_vars => MinerTypes'
  BY MemStep, WireStep, BooksStep DEF MinerTypes
<1>2. Shaped /\ MinerTypes => TypeOK
  <2> SUFFICES ASSUME Shaped, MinerTypes, NEW n \in Node
               PROVE  /\ \A a \in DOMAIN heap[n] : heap[n][a] \in Seq(Tx \cup {NoTx})
                      /\ SliceOK(n, polls[n], Poll) /\ SliceOK(n, regs[n], Reg)
                      /\ SliceOK(n, newBlock[n].polls, Poll) /\ SliceOK(n, newBlock[n].regs, Reg)
                      /\ \A k \in DOMAIN mined[n] : SliceOK(n, mined[n][k].polls, Poll)
                                                   /\ SliceOK(n, mined[n][k].regs, Reg)
                      /\ pollID[n] \in [Poll -> Nat]
                      /\ heard[n] \subseteq Reaches[n]
                      /\ tpc[n] \in {"wait", "id", "prev", "fill", "mine", "hash"}
                      /\ bpc[n] \in {"wait", "stop", "append", "add", "remove"}
                      /\ stopMining[n] \in Seq(Nat) /\ Len(stopMining[n]) <= StopCap
                      /\ Range(registry[n]) \subseteq Reg
                      /\ \A k \in DOMAIN ledger[n] : ledger[n][k].poll \in Poll
    BY DEF TypeOK
  <2>0. MemShaped /\ Pooled(n) /\ BooksInv
    BY DEF MinerTypes, MemInv
  <2>1. heap[n] \in Heaps /\ DOMAIN heap[n] = 1..Len(heap[n]) /\ Len(heap[n]) \in Nat
    BY <2>0, LenProperties DEF MemShaped, Heaps
  <2>2. \A a \in DOMAIN heap[n] : heap[n][a] \in Seq(Tx \cup {NoTx})
    BY <2>1 DEF Heaps
  <2>3. ASSUME NEW T \in Kinds, NEW s, SliceOf(heap[n], s, T)
        PROVE  SliceOK(n, s, T)
    <3>1. Elements(heap[n], s) \in Seq(T)
      BY <2>0, <2>3, ElementsTyped DEF Pooled
    <3>2. Range(Elements(heap[n], s)) \subseteq T
      BY <3>1, LenProperties DEF Range
    <3>3. s.arr \in 0..Len(heap[n]) /\ s.len \in 0..Capacity(heap[n], s)
      <4>1. CASE s.arr = 0 /\ s.len = 0
        BY <2>1, <4>1 DEF Capacity
      <4>2. CASE s.arr \in DOMAIN heap[n]
        <5>1. s.len \in Nat /\ s.len <= Len(heap[n][s.arr]) /\ s.arr # 0 /\ Len(heap[n][s.arr]) \in Nat
          BY <2>1, <2>2, <2>3, <4>2, LenProperties DEF SliceOf, Slices
        <5> QED
          BY <2>1, <4>2, <5>1 DEF Capacity
      <4> QED
        BY <2>3, <4>1, <4>2 DEF SliceOf
    <3> QED
      BY <3>2, <3>3 DEF SliceOK
  <2>4. Poll \in Kinds /\ Reg \in Kinds
    BY DEF Kinds
  <2>5. /\ SliceOK(n, polls[n], Poll) /\ SliceOK(n, regs[n], Reg)
        /\ SliceOK(n, newBlock[n].polls, Poll) /\ SliceOK(n, newBlock[n].regs, Reg)
        /\ \A k \in DOMAIN mined[n] : SliceOK(n, mined[n][k].polls, Poll)
                                     /\ SliceOK(n, mined[n][k].regs, Reg)
    BY <2>0, <2>3, <2>4 DEF Pooled
  <2>6. Range(registry[n]) \subseteq Reg
    BY <2>0, LenProperties DEF BooksInv, Range
  <2>7. \A k \in DOMAIN ledger[n] : ledger[n][k].poll \in Poll
    <3>1. ledger[n] \in Seq([poll : Poll, id : Nat, shared : BOOLEAN])
      BY <2>0 DEF BooksInv
    <3>2. \A k \in DOMAIN ledger[n] : ledger[n][k] \in [poll : Poll, id : Nat, shared : BOOLEAN]
      BY <3>1, LenProperties
    <3> QED
      BY <3>2
  <2> QED
    BY <2>0, <2>2, <2>5, <2>6, <2>7 DEF MemShaped, Pooled, BooksInv, Shaped
<1> QED
  BY <1>1, <1>2, MinerTypesInit, ChainInvariant, PTL DEF Spec
-----------------------------------------------------------------------------
(***************************************************************************)
(* What the pool keeps.  The polls and the registrations have arrays of    *)
(* their own, so a loop over the ones cannot disturb the others; and what  *)
(* a loop over a slice moves stays in the slice, but for what it confirms  *)
(* or numbers.                                                             *)
(***************************************************************************)
Holds(h, s, x) == \E i \in 1..s.len : h[s.arr][i] = x

\* Heap g has the arrays of heap h that are not of kind T as they were.
Spares(h, g, T) == \A a \in DOMAIN h : ~ArrayOf(h[a], T) => g[a] = h[a]

\* The elements of a slice are what it holds.
LEMMA HeldElements ==
  ASSUME NEW h, HeapOK(h), NEW T \in Kinds, NEW s, SliceOf(h, s, T), NEW x
  PROVE  x \in Range(Elements(h, s)) <=> Holds(h, s, x)
PROOF
<1>1. Elements(h, s) \in Seq(T) /\ Len(Elements(h, s)) = s.len /\ s.len \in Nat
  BY ElementsTyped DEF SliceOf, Slices
<1>2. ASSUME NEW i \in 1..s.len
      PROVE  Elements(h, s)[i] = h[s.arr][i]
  <2>1. s.arr # 0 /\ h[s.arr] \in Seq(T \cup {NoTx}) /\ s.len <= Len(h[s.arr])
    <3>1. s.arr \in DOMAIN h /\ DOMAIN h = 1..Len(h)
      BY <1>1, LenProperties DEF SliceOf, HeapOK, Heaps
    <3> QED
      BY <1>1, <3>1 DEF SliceOf, ArrayOf
  <2>2. Elements(h, s) = [j \in 1..s.len |-> h[s.arr][j]]
    BY <1>1, <2>1 DEF Elements
  <2> QED
    BY <2>2
<1>3. DOMAIN Elements(h, s) = 1..s.len
  BY <1>1, LenProperties
<1> QED
  BY <1>2, <1>3 DEF Range, Holds

\* A slice of the other kind holds what it held.
LEMMA SparedSlice ==
  ASSUME NEW h, NEW g, NEW T, NEW U, T \cap U = {}, Spares(h, g, T),
         NEW s, SliceOf(h, s, U), NEW x, Holds(h, s, x)
  PROVE  x \in U /\ Holds(g, s, x)
PROOF
<1>1. s.arr \in DOMAIN h /\ ArrayOf(h[s.arr], U) /\ x \in U
  BY DEF SliceOf, Holds, Slices
<1>2. ~ArrayOf(h[s.arr], T)
  BY <1>1 DEF ArrayOf
<1> QED
  BY <1>1, <1>2 DEF Spares, Holds

\* append adds an element to those of a slice, and disturbs no other kind.
LEMMA AppendedKeeps ==
  ASSUME NEW h, HeapOK(h), NEW T \in Kinds, NEW s, SliceOf(h, s, T), NEW x \in T, NEW t
  PROVE  LET a == Appended(h, s, x)
         IN  /\ Holds(h, s, t) \/ t = x => Holds(a.heap, a.slice, t)
             /\ Spares(h, a.heap, T)
PROOF
<1> DEFINE a == Appended(h, s, x)
           cap == Capacity(h, s)
<1>1. /\ s.arr \in Nat /\ s.len \in Nat /\ s = [arr |-> s.arr, len |-> s.len]
      /\ h \in Heaps /\ DOMAIN h = 1..Len(h) /\ Len(h) \in Nat
  BY LenProperties DEF SliceOf, Slices, HeapOK, Heaps
<1>2. CASE s.len < cap
  <2>1. s.arr \in DOMAIN h /\ ArrayOf(h[s.arr], T) /\ s.len + 1 \in DOMAIN h[s.arr]
    <3>1. s.arr \in DOMAIN h /\ ArrayOf(h[s.arr], T) /\ cap = Len(h[s.arr])
      BY <1>1, <1>2 DEF SliceOf, Capacity
    <3> QED
      BY <1>1, <1>2, <3>1, LenProperties DEF ArrayOf
  <2> DEFINE g == [h EXCEPT ![s.arr][s.len + 1] = x]
  <2>2. a.heap = g /\ a.slice = [arr |-> s.arr, len |-> s.len + 1]
    BY <1>1, <1>2 DEF Appended
  <2>3. /\ g[s.arr][s.len + 1] = x
        /\ \A i \in 1..s.len : g[s.arr][i] = h[s.arr][i]
        /\ \A b \in DOMAIN h \ {s.arr} : g[b] = h[b]
    BY <1>1, <2>1
  <2>4. a.slice.arr = s.arr /\ a.slice.len = s.len + 1
        /\ s.len + 1 \in 1..(s.len + 1) /\ \A i \in 1..s.len : i \in 1..(s.len + 1)
    BY <1>1, <2>2
  <2> HIDE DEF g, a
  <2>5. Holds(h, s, t) \/ t = x => Holds(a.heap, a.slice, t)
    BY <2>2, <2>3, <2>4 DEF Holds
  <2>6. Spares(h, a.heap, T)
    BY <2>1, <2>2, <2>3 DEF Spares
  <2> QED
    BY <2>5, <2>6 DEF a
<1>3. CASE ~(s.len < cap)
  <2> DEFINE size == IF cap = 0 THEN 1 ELSE 2 * cap
             fresh == [i \in 1..size |->
                         IF i <= s.len THEN h[s.arr][i]
                         ELSE IF i = s.len + 1 THEN x ELSE NoTx]
             g == Append(h, fresh)
  <2>1. a.heap = g /\ a.slice = [arr |-> Len(h) + 1, len |-> s.len + 1]
    BY <1>3 DEF Appended
  <2>2. size \in Nat /\ s.len + 1 <= size
    BY <1>1, <1>3, LenProperties DEF SliceOf, Capacity, ArrayOf
  <2>3. fresh[s.len + 1] = x /\ \A i \in 1..s.len : fresh[i] = h[s.arr][i]
    <3> HIDE DEF size
    <3>1. s.len + 1 \in 1..size /\ \A i \in 1..s.len : i \in 1..size
      BY <1>1, <2>2
    <3>2. ~(s.len + 1 <= s.len) /\ \A i \in 1..s.len : i <= s.len
      BY <1>1
    <3> QED
      BY <3>1, <3>2
  <2> HIDE DEF fresh, size
  <2>4. g[Len(h) + 1] = fresh /\ \A b \in DOMAIN h : g[b] = h[b]
    <3>1. h \in Seq(Seq(Tx \cup {NoTx}) \cup {fresh})
      BY <1>1 DEF Heaps
    <3> QED
      BY <1>1, <3>1, AppendProperties
  <2>5. a.slice.arr = Len(h) + 1 /\ a.slice.len = s.len + 1
        /\ s.len + 1 \in 1..(s.len + 1) /\ \A i \in 1..s.len : i \in 1..(s.len + 1)
    BY <1>1, <2>1
  <2> HIDE DEF g, a
  <2>6. Holds(h, s, t) \/ t = x => Holds(a.heap, a.slice, t)
    BY <2>1, <2>3, <2>4, <2>5 DEF Holds
  <2>7. Spares(h, a.heap, T)
    BY <2>1, <2>4 DEF Spares
  <2> QED
    BY <2>6, <2>7 DEF a
<1> QED
  BY <1>2, <1>3

\* After a loop over a slice what was to be kept is at the front of its array.
LEMMA ShiftedKeeps ==
  ASSUME NEW h, NEW g, NEW T \in Kinds, NEW s, SliceOf(h, s, T), NEW kept \in Nat,
         NEW keep, Shifted(h, g, s, s.len, kept, keep),
         NEW u \in Slices, u.arr = s.arr, kept <= u.len
  PROVE  /\ Spares(h, g, T)
         /\ \A x \in keep : Holds(h, s, x) => Holds(g, u, x)
PROOF
<1>1. ASSUME NEW a \in DOMAIN h, ~ArrayOf(h[a], T)
      PROVE  g[a] = h[a]
  BY <1>1, MinerAssumption DEF SliceOf, Shifted, HeapOK
<1>2. ASSUME NEW x \in keep, Holds(h, s, x)
      PROVE  Holds(g, u, x)
  <2>1. PICK i \in 1..s.len : h[s.arr][i] = x
    BY <1>2 DEF Holds
  <2>2. PICK k \in 1..kept : g[s.arr][k] = x
    BY <1>2, <2>1 DEF Shifted
  <2>3. k \in 1..u.len
    BY DEF Slices
  <2> QED
    BY <2>2, <2>3 DEF Holds
<1> QED
  BY <1>1, <1>2 DEF Spares

\* What removeConfirmedTx leaves in the pool: all that a copy does not name.
LEMMA RemovalKeeps ==
  ASSUME NEW h, HeapOK(h), NEW T \in Kinds, NEW s, SliceOf(h, s, T), NEW c, c.arr = 0,
         NEW copy, NEW x \in T, \A k \in 1..Len(copy) : copy[k] # x, Holds(h, s, x)
  PROVE  LET w == WithoutConfirmed(h, s, c, copy)
         IN  Holds(w.heap, w.slice, x)
PROOF
<1> DEFINE w == WithoutConfirmed(h, s, c, copy)
           keep == Unnamed(T, copy)
<1>1. /\ SliceOf(w.heap, w.slice, T) /\ w.slice.arr = s.arr
      /\ Shifted(h, w.heap, s, s.len, w.slice.len, keep)
  BY WithoutConfirmedTyped
<1>2. x \in keep
  BY DEF Unnamed
<1> HIDE DEF w, keep
<1>3. w.slice \in Slices /\ w.slice.len \in Nat /\ w.slice.len <= w.slice.len
  BY <1>1 DEF SliceOf, Slices
<1>4. Holds(w.heap, w.slice, x)
  BY <1>1, <1>2, <1>3, ShiftedKeeps
<1> QED
  BY <1>4 DEF w

\* It spares the arrays of the other kind.
LEMMA RemovalSpares ==
  ASSUME NEW h, HeapOK(h), NEW T \in Kinds, NEW s, SliceOf(h, s, T), NEW c, c.arr = 0,
         NEW copy
  PROVE  Spares(h, WithoutConfirmed(h, s, c, copy).heap, T)
PROOF
<1> DEFINE w == WithoutConfirmed(h, s, c, copy)
           keep == Unnamed(T, copy)
<1>1. /\ SliceOf(w.heap, w.slice, T) /\ w.slice.arr = s.arr
      /\ Shifted(h, w.heap, s, s.len, w.slice.len, keep)
  BY WithoutConfirmedTyped
<1> HIDE DEF w, keep
<1>2. w.slice \in Slices /\ w.slice.len \in Nat /\ w.slice.len <= w.slice.len
  BY <1>1 DEF SliceOf, Slices
<1>3. Spares(h, w.heap, T)
  BY <1>1, <1>2, ShiftedKeeps
<1> QED
  BY <1>3 DEF w

\* What checkTransactionsCreate leaves in the pool: all but the polls that it
\* numbers or does not want.
LEMMA CheckKeeps ==
  ASSUME NEW h, HeapOK(h), NEW s, SliceOf(h, s, Poll), NEW ids \in [Poll -> Nat],
         NEW first \in Nat, NEW blank
  PROVE  LET w == CheckedPolls(h, s, ids, first, blank, TRUE)
         IN  /\ Spares(h, w.heap, Poll)
             /\ \A p \in Free(w.pollID, blank) :
                  p \in Free(ids, blank) /\ (Holds(h, s, p) => Holds(w.heap, s, p))
PROOF
<1> DEFINE w == CheckedPolls(h, s, ids, first, blank, TRUE)
<1>1. /\ SliceOf(w.heap, w.slice, Poll) /\ w.slice.len <= s.len
      /\ Free(w.pollID, blank) \subseteq Free(ids, blank)
      /\ Shifted(h, w.heap, s, s.len, w.slice.len, Free(w.pollID, blank))
  BY CheckedPollsTyped
<1> HIDE DEF w
<1>2. Poll \in Kinds /\ w.slice.len \in Nat /\ s \in Slices /\ s.arr = s.arr
  BY <1>1 DEF Kinds, SliceOf, Slices
<1>3. /\ Spares(h, w.heap, Poll)
      /\ \A p \in Free(w.pollID, blank) : Holds(h, s, p) => Holds(w.heap, s, p)
  <2> DEFINE g == w.heap
             kept == w.slice.len
             keep == Free(w.pollID, blank)
  <2>1. Shifted(h, g, s, s.len, kept, keep) /\ kept \in Nat /\ kept <= s.len
    BY <1>1, <1>2
  <2> HIDE DEF g, kept, keep
  <2>2. Spares(h, g, Poll) /\ \A p \in keep : Holds(h, s, p) => Holds(g, s, p)
    BY <1>2, <2>1, ShiftedKeeps
  <2> QED
    BY <2>2 DEF g, keep
<1> QED
  BY <1>1, <1>3 DEF w

(***************************************************************************)
(* The invariant behind KeptUntilConfirmed.  As long as listenBlocks has   *)
(* worked on blocks of other nodes only, the pool holds what was heard; a  *)
(* block that listenBlocks works on is one that it has seen; and when it   *)
(* comes to remove what a decoded block confirms, this is in the books.    *)
(***************************************************************************)
PoolHas(n, t) == Holds(heap[n], polls[n], t) \/ Holds(heap[n], regs[n], t)

KeptAt(n) ==
  (\A seen \in blocksSeen[n] : seen[1] # n) =>
    \A t \in heard[n] : PoolHas(n, t) \/ t \in InBooks(n) \/ t \in Refused(n)

BooksHave(n, b) == /\ \A i \in DOMAIN b.polls : b.polls[i].poll \in InBooks(n)
                   /\ \A i \in DOMAIN b.regs : b.regs[i] \in InBooks(n)

SeenInv ==
  /\ blocksSeen = [n \in Node |-> blocksSeen[n]]
  /\ \A n \in Node :
       /\ bpc[n] # "wait" => <<block[n].from, block[n].num>> \in blocksSeen[n]
       /\ bpc[n] = "remove" /\ block[n].from # n => BooksHave(n, block[n])

KeptInv == SeenInv /\ \A n \in Node : KeptAt(n)

\* In a memory of that shape the invariant says of the pool what the property says.
LEMMA PoolHolds ==
  ASSUME MemInv, NEW n \in Node, NEW t
  PROVE  t \in InPool(n) <=> PoolHas(n, t)
PROOF
<1>1. /\ HeapOK(heap[n]) /\ SliceOf(heap[n], polls[n], Poll) /\ SliceOf(heap[n], regs[n], Reg)
      /\ Poll \in Kinds /\ Reg \in Kinds
  BY DEF MemInv, Pooled, Kinds
<1> QED
  BY <1>1, HeldElements DEF InPool, PoolHas

\* A step that does not touch the pool and the books of a node.
LEMMA KeptSame ==
  ASSUME NEW n, KeptAt(n), heap'[n] = heap[n], polls'[n] = polls[n], regs'[n] = regs[n],
         pollID'[n] = pollID[n], heard'[n] = heard[n], ledger'[n] = ledger[n],
         registry'[n] = registry[n], blocksSeen[n] \subseteq blocksSeen'[n]
  PROVE  KeptAt(n)'
PROOF
  BY DEF KeptAt, PoolHas, InBooks, Refused

\* A transaction that arrives is added to those of the pool.
LEMMA AddTransactionKeeps ==
  ASSUME MemInv, WireInv, NEW n \in Node, NEW m \in sentTxs, AddTransaction(n, m), KeptAt(n)
  PROVE  KeptAt(n)'
PROOF
<1> DEFINE t == m.tx
           s == IF t \in Poll THEN polls[n] ELSE regs[n]
           T == IF t \in Poll THEN Poll ELSE Reg
           U == IF t \in Poll THEN Reg ELSE Poll
           o == IF t \in Poll THEN regs[n] ELSE polls[n]
           a == Appended(heap[n], s, t)
<1>1. t \in T /\ T \in Kinds /\ T \cap U = {}
  BY MinerAssumption DEF MinerAssumption, WireInv, Kinds, Tx
<1>2. HeapOK(heap[n]) /\ SliceOf(heap[n], s, T) /\ SliceOf(heap[n], o, U)
  BY DEF MemInv, Pooled
<1>3. /\ heap'[n] = a.heap /\ heard'[n] = heard[n] \cup {t} /\ t \notin heard[n]
      /\ UNCHANGED <<ledger, registry, blocksSeen>>
  BY DEF AddTransaction, MemInv, MemShaped, chainVars, blockVars
<1>4. \/ t \in Poll /\ polls'[n] = a.slice /\ regs'[n] = regs[n]
      \/ t \notin Poll /\ regs'[n] = a.slice /\ polls'[n] = polls[n]
  BY DEF AddTransaction, MemInv, MemShaped
<1>5. \A p \in Poll : p # t => pollID'[n][p] = pollID[n][p]
  BY DEF AddTransaction, MemInv, MemShaped
<1>6. ASSUME NEW x, Holds(heap[n], s, x) \/ x = t
      PROVE  Holds(a.heap, a.slice, x)
  <2> HIDE DEF s, T, t
  <2> QED
    BY <1>1, <1>2, <1>6, AppendedKeeps
<1>7. ASSUME NEW x, Holds(heap[n], o, x)
      PROVE  Holds(a.heap, o, x)
  <2> HIDE DEF s, T, t, o, U
  <2>1. Spares(heap[n], a.heap, T)
    BY <1>1, <1>2, AppendedKeeps
  <2> HIDE DEF a
  <2> QED
    BY <1>1, <1>2, <1>7, <2>1, SparedSlice
<1> HIDE DEF a
<1>8. ASSUME NEW x, PoolHas(n, x) \/ x = t
      PROVE  PoolHas(n, x)'
  BY <1>3, <1>4, <1>6, <1>7, <1>8 DEF PoolHas
<1>9. \A x \in heard[n] : x \in Refused(n) => x \in Refused(n)'
  BY <1>3, <1>5 DEF Refused
<1>10. InBooks(n)' = InBooks(n)
  BY <1>3 DEF InBooks
<1> QED
  BY <1>3, <1>8, <1>9, <1>10 DEF KeptAt

\* A block that is made of the pool takes nothing from it but the polls that it
\* does not want, and those that it numbers may be lost later.
LEMMA CheckTransactionsKeeps ==
  ASSUME MemInv, BooksInv, NEW n \in Node, CheckTransactionsCreate(n), KeptAt(n)
  PROVE  KeptAt(n)'
PROOF
<1> DEFINE c == CheckedPolls(heap[n], polls[n], pollID[n], NextPollID(n), Blank, TRUE)
<1>1. /\ HeapOK(heap[n]) /\ SliceOf(heap[n], polls[n], Poll) /\ SliceOf(heap[n], regs[n], Reg)
      /\ pollID[n] \in [Poll -> Nat] /\ NextPollID(n) \in Nat
  BY LenProperties DEF MemInv, MemShaped, Pooled, BooksInv, NextPollID
<1>2. Poll \cap Reg = {}
  BY MinerAssumption DEF MinerAssumption
<1>3. /\ heap'[n] = c.heap /\ pollID'[n] = c.pollID
      /\ UNCHANGED <<polls, regs, heard, ledger, registry, blocksSeen>>
  BY DEF CheckTransactionsCreate, MemInv, MemShaped, txVars, chainVars, blockVars
<1>4. /\ Spares(heap[n], c.heap, Poll)
      /\ \A p \in Free(c.pollID, Blank) :
           /\ p \in Free(pollID[n], Blank)
           /\ Holds(heap[n], polls[n], p) => Holds(c.heap, polls[n], p)
  BY <1>1, CheckKeeps
<1> HIDE DEF c
<1>5. ASSUME NEW t, t \notin Refused(n)', PoolHas(n, t)
      PROVE  PoolHas(n, t)'
  <2>1. CASE Holds(heap[n], regs[n], t)
    BY <1>1, <1>2, <1>3, <1>4, <2>1, SparedSlice DEF PoolHas
  <2>2. CASE Holds(heap[n], polls[n], t)
    <3>1. t \in Poll
      BY <1>1, <2>2 DEF Holds, SliceOf, Slices
    <3>2. t \in Free(c.pollID, Blank)
      BY <1>3, <1>5, <3>1 DEF Refused, Free
    <3> QED
      BY <1>3, <1>4, <2>2, <3>2 DEF PoolHas
  <2> QED
    BY <1>5, <2>1, <2>2 DEF PoolHas
<1>6. ASSUME NEW t, t \notin Refused(n)'
      PROVE  t \notin Refused(n)
  BY <1>3, <1>4, <1>6 DEF Refused, Free
<1>7. InBooks(n)' = InBooks(n)
  BY <1>3 DEF InBooks
<1> QED
  BY <1>3, <1>5, <1>6, <1>7 DEF KeptAt

\* A decoded block is checked outside the arrays of the pool.
LEMMA HandleBlockKeeps ==
  ASSUME MemInv, SeenInv, NEW n \in Node, NEW b, HandleBlock(n, b), KeptAt(n)
  PROVE  KeptAt(n)'
PROOF
<1>1. /\ blocksSeen'[n] = blocksSeen[n] \cup {<<b.from, b.num>>}
      /\ UNCHANGED <<polls, regs, heard, pollID, ledger, registry>>
  BY DEF HandleBlock, SeenInv, txVars
<1>2. CASE b.from = n
  <2>1. <<b.from, b.num>> \in blocksSeen'[n] /\ <<b.from, b.num>>[1] = n
    BY <1>1, <1>2
  <2> QED
    BY <2>1 DEF KeptAt
<1>3. CASE b.from # n
  <2>1. heap'[n] = heap[n]
    BY <1>3 DEF HandleBlock, IsOwn, MemInv, MemShaped
  <2> QED
    BY <1>1, <2>1, KeptSame
<1> QED
  BY <1>2, <1>3

\* What is appended to a sequence is in it afterwards, and so is all it had.
LEMMA ConcatKeeps ==
  ASSUME NEW E, NEW l \in Seq(E), NEW k \in Seq(E)
  PROVE  /\ \A i \in DOMAIN l : i \in DOMAIN (l \o k) /\ (l \o k)[i] = l[i]
         /\ \A i \in DOMAIN k : \E j \in DOMAIN (l \o k) : (l \o k)[j] = k[i]
PROOF
<1> DEFINE c == l \o k
<1>1. /\ Len(l) \in Nat /\ Len(k) \in Nat /\ DOMAIN l = 1..Len(l) /\ DOMAIN k = 1..Len(k)
      /\ c \in Seq(E) /\ Len(c) = Len(l) + Len(k) /\ DOMAIN c = 1..Len(c)
      /\ \A i \in 1..Len(c) : c[i] = IF i <= Len(l) THEN l[i] ELSE k[i - Len(l)]
  BY ConcatProperties, LenProperties
<1> HIDE DEF c
<1>2. ASSUME NEW i \in 1..Len(l)
      PROVE  i \in 1..Len(c) /\ c[i] = l[i]
  <2>1. i \in 1..Len(c) /\ i <= Len(l)
    BY <1>1
  <2> QED
    BY <1>1, <2>1
<1>3. ASSUME NEW i \in 1..Len(k)
      PROVE  \E j \in 1..Len(c) : c[j] = k[i]
  <2>1. i + Len(l) \in 1..Len(c) /\ ~(i + Len(l) <= Len(l)) /\ (i + Len(l)) - Len(l) = i
    BY <1>1
  <2>2. c[i + Len(l)] = k[i]
    BY <1>1, <2>1
  <2> QED
    BY <2>1, <2>2
<1>4. /\ \A i \in DOMAIN l : i \in DOMAIN c /\ c[i] = l[i]
      /\ \A i \in DOMAIN k : \E j \in DOMAIN c : c[j] = k[i]
  BY <1>1, <1>2, <1>3
<1> QED
  BY <1>4 DEF c

\* addTransactions adds to the books, and for a decoded block all that it names.
LEMMA AddTransactionsKeeps ==
  ASSUME MemInv, BooksInv, NEW n \in Node, AddTransactions(n), KeptAt(n)
  PROVE  KeptAt(n)' /\ (block[n].from # n => BooksHave(n, block[n])')
PROOF
<1> DEFINE b == block[n]
           ps == BlockPolls(n, b)
           added == [i \in DOMAIN ps |-> [poll |-> ps[i].poll, id |-> ps[i].id,
                                          shared |-> IsOwn(n, b)]]
           rs == BlockRegs(n, b)
           Entries == [poll : Poll, id : Nat, shared : BOOLEAN]
<1>1. /\ ledger'[n] = ledger[n] \o added /\ registry'[n] = registry[n] \o rs
      /\ UNCHANGED <<heap, polls, regs, heard, pollID, blocksSeen, block>>
  BY DEF AddTransactions, BooksInv, txVars
<1>2. ps \in Seq(Listed) /\ rs \in Seq(Reg)
  BY BlockTyped DEF AddTransactions, BooksInv
<1>3. /\ added \in Seq(Entries) /\ DOMAIN added = DOMAIN ps
      /\ \A i \in DOMAIN ps : added[i].poll = ps[i].poll
  <2> HIDE DEF ps
  <2>1. DOMAIN ps = 1..Len(ps) /\ Len(ps) \in Nat /\ \A i \in 1..Len(ps) : ps[i] \in Listed
    BY <1>2, LenProperties
  <2>2. IsOwn(n, b) \in BOOLEAN
    BY DEF IsOwn
  <2>3. \A i \in 1..Len(ps) :
          [poll |-> ps[i].poll, id |-> ps[i].id, shared |-> IsOwn(n, b)] \in Entries
    BY <2>1, <2>2 DEF Listed
  <2>4. added \in [1..Len(ps) -> Entries]
    BY <2>1, <2>3
  <2>5. added \in Seq(Entries)
    BY <2>1, <2>4
  <2> QED
    BY <2>5
<1> HIDE DEF added, ps, rs
<1>4. ledger[n] \in Seq(Entries) /\ registry[n] \in Seq(Reg)
  BY DEF BooksInv
<1> HIDE DEF Entries
<1>5. /\ \A i \in DOMAIN ledger[n] : i \in DOMAIN ledger'[n] /\ ledger'[n][i] = ledger[n][i]
      /\ \A i \in DOMAIN added : \E j \in DOMAIN ledger'[n] : ledger'[n][j] = added[i]
  <2> DEFINE l == ledger[n]
  <2> HIDE DEF l
  <2>1. l \in Seq(Entries)
    BY <1>4 DEF l
  <2>2. /\ \A i \in DOMAIN l : i \in DOMAIN (l \o added) /\ (l \o added)[i] = l[i]
        /\ \A i \in DOMAIN added : \E j \in DOMAIN (l \o added) : (l \o added)[j] = added[i]
    BY <1>3, <2>1, ConcatKeeps
  <2> QED
    BY <1>1, <2>2 DEF l
<1>6. /\ \A i \in DOMAIN registry[n] :
           i \in DOMAIN registry'[n] /\ registry'[n][i] = registry[n][i]
      /\ \A i \in DOMAIN rs : \E j \in DOMAIN registry'[n] : registry'[n][j] = rs[i]
  <2> DEFINE l == registry[n]
  <2> HIDE DEF l
  <2>1. l \in Seq(Reg)
    BY <1>4 DEF l
  <2>2. /\ \A i \in DOMAIN l : i \in DOMAIN (l \o rs) /\ (l \o rs)[i] = l[i]
        /\ \A i \in DOMAIN rs : \E j \in DOMAIN (l \o rs) : (l \o rs)[j] = rs[i]
    BY <1>2, <2>1, ConcatKeeps
  <2> QED
    BY <1>1, <2>2 DEF l
<1>7. InBooks(n) \subseteq InBooks(n)'
  BY <1>5, <1>6 DEF InBooks, Range
<1>8. KeptAt(n)'
  <2>1. Refused(n)' = Refused(n) /\ \A t : PoolHas(n, t)' <=> PoolHas(n, t)
    BY <1>1 DEF Refused, PoolHas
  <2> QED
    BY <1>1, <1>7, <2>1 DEF KeptAt
<1>9. ASSUME b.from # n
       PROVE  BooksHave(n, b)'
  <2>1. ps = b.polls /\ rs = b.regs
    BY <1>9 DEF ps, rs, BlockPolls, BlockRegs, IsOwn
  <2>2. \A i \in DOMAIN ps : ps[i].poll \in InBooks(n)'
    BY <1>3, <1>5 DEF InBooks
  <2>3. \A i \in DOMAIN rs : rs[i] \in InBooks(n)'
    BY <1>6 DEF InBooks, Range
  <2> QED
    BY <1>1, <2>1, <2>2, <2>3 DEF BooksHave
<1> QED
  BY <1>8, <1>9

\* What removeConfirmedTx takes out of the pool for a decoded block is in the books.
LEMMA RemoveConfirmedKeeps ==
  ASSUME MemInv, BooksInv, SeenInv, NEW n \in Node, RemoveConfirmedTx(n), KeptAt(n)
  PROVE  KeptAt(n)'
PROOF
<1> DEFINE b == block[n]
           names == [i \in DOMAIN BlockPolls(n, b) |-> BlockPolls(n, b)[i].poll]
           p == WithoutConfirmed(heap[n], polls[n], PollsSlice(n, b), names)
           r == WithoutConfirmed(p.heap, regs[n], RegsSlice(n, b), BlockRegs(n, b))
<1>1. bpc[n] = "remove" /\ UNCHANGED <<heard, pollID, blocksSeen, ledger, registry>>
  BY DEF RemoveConfirmedTx, chainVars
<1>2. CASE b.from = n
  <2>1. <<b.from, b.num>> \in blocksSeen'[n] /\ <<b.from, b.num>>[1] = n
    BY <1>1, <1>2 DEF SeenInv
  <2> QED
    BY <2>1 DEF KeptAt
<1>3. CASE b.from # n
  <2>1. /\ PollsSlice(n, b).arr = 0 /\ RegsSlice(n, b).arr = 0
        /\ BlockPolls(n, b) = b.polls /\ BlockRegs(n, b) = b.regs
    BY <1>3 DEF PollsSlice, RegsSlice, BlockPolls, BlockRegs, IsOwn, NilSlice
  <2>2. /\ \A k \in 1..Len(names) : names[k] \in InBooks(n)
        /\ \A k \in 1..Len(BlockRegs(n, b)) : BlockRegs(n, b)[k] \in InBooks(n)
    <3>1. b.polls \in Seq(Listed) /\ b.regs \in Seq(Reg)
      BY <1>1, <1>3 DEF BooksInv, InMemory
    <3>2. DOMAIN b.polls = 1..Len(b.polls) /\ DOMAIN b.regs = 1..Len(b.regs) /\ Len(b.polls) \in Nat
      BY <3>1, LenProperties
    <3>3. BooksHave(n, b)
      BY <1>1, <1>3 DEF SeenInv
    <3>4. Len(names) = Len(b.polls) /\ \A k \in 1..Len(b.polls) : names[k] = b.polls[k].poll
      BY <2>1, <3>2
    <3> QED
      BY <2>1, <3>2, <3>3, <3>4 DEF BooksHave
  <2>3. /\ heap'[n] = r.heap /\ polls'[n] = p.slice /\ regs'[n] = r.slice
    BY DEF RemoveConfirmedTx, MemInv, MemShaped
  <2>4. /\ HeapOK(heap[n]) /\ SliceOf(heap[n], polls[n], Poll)
        /\ SliceOf(heap[n], regs[n], Reg) /\ Pooled(n)
        /\ Poll \in Kinds /\ Reg \in Kinds /\ Poll \cap Reg = {} /\ Reg \cap Poll = {}
    BY MinerAssumption DEF MinerAssumption, MemInv, Pooled, Kinds
  <2> DEFINE c == PollsSlice(n, b)
             d == RegsSlice(n, b)
             rs == BlockRegs(n, b)
  <2> HIDE DEF names, c, d, rs
  <2>5. /\ HeapOK(p.heap) /\ Evolves(heap[n], p.heap) /\ SliceOf(p.heap, p.slice, Poll)
        /\ Spares(heap[n], p.heap, Poll)
    BY <2>1, <2>4, WithoutConfirmedTyped, RemovalSpares DEF c
  <2>6. ASSUME NEW t, t \notin InBooks(n), Holds(heap[n], polls[n], t)
        PROVE  Holds(p.heap, p.slice, t)
    <3>1. t \in Poll
      BY <2>4, <2>6 DEF Holds, SliceOf, Slices
    <3> QED
      BY <2>1, <2>2, <2>4, <2>6, <3>1, RemovalKeeps DEF c
  <2> HIDE DEF p
  <2>7. SliceOf(p.heap, regs[n], Reg)
    BY <2>4, <2>5, PooledKept
  <2>8. Spares(p.heap, r.heap, Reg)
    BY <2>1, <2>4, <2>5, <2>7, RemovalSpares DEF d
  <2>9. ASSUME NEW t, t \notin InBooks(n), Holds(p.heap, regs[n], t)
        PROVE  Holds(r.heap, r.slice, t)
    <3>1. t \in Reg
      BY <2>7, <2>9 DEF Holds, SliceOf, Slices
    <3> QED
      BY <2>1, <2>2, <2>4, <2>5, <2>7, <2>9, <3>1, RemovalKeeps DEF d, rs
  <2> HIDE DEF r
  <2>10. ASSUME NEW t, t \notin InBooks(n), PoolHas(n, t)
         PROVE  PoolHas(n, t)'
    <3>1. CASE Holds(heap[n], polls[n], t)
      BY <2>3, <2>4, <2>5, <2>6, <2>8, <2>10, <3>1, SparedSlice DEF PoolHas
    <3>2. CASE Holds(heap[n], regs[n], t)
      BY <2>3, <2>4, <2>5, <2>9, <2>10, <3>2, SparedSlice DEF PoolHas
    <3> QED
      BY <2>10, <3>1, <3>2 DEF PoolHas
  <2>11. InBooks(n)' = InBooks(n) /\ Refused(n)' = Refused(n)
    BY <1>1 DEF InBooks, Refused
  <2> QED
    BY <1>1, <2>10, <2>11 DEF KeptAt
<1> QED
  BY <1>2, <1>3

\* A step of one node leaves the pools and the books of the others alone.
LEMMA Elsewhere ==
  ASSUME Shaped, MemInv, BooksInv, SeenInv, NEW n \in Node, Step(n), NEW m \in Node, m # n
  PROVE  /\ heap'[m] = heap[m] /\ polls'[m] = polls[m] /\ regs'[m] = regs[m]
         /\ pollID'[m] = pollID[m] /\ heard'[m] = heard[m] /\ ledger'[m] = ledger[m]
         /\ registry'[m] = registry[m] /\ blocksSeen'[m] = blocksSeen[m]
         /\ bpc'[m] = bpc[m] /\ block'[m] = block[m]
PROOF
<1>1. ASSUME NEW t \in sentTxs, AddTransaction(n, t)
      PROVE  /\ heap'[m] = heap[m] /\ polls'[m] = polls[m] /\ regs'[m] = regs[m]
             /\ pollID'[m] = pollID[m] /\ heard'[m] = heard[m]
             /\ UNCHANGED <<ledger, registry, blocksSeen, bpc, block>>
  BY <1>1 DEF AddTransaction, MemInv, MemShaped, blockVars, chainVars
<1>2. CASE \/ ReadID(n) \/ ReadPrevHash(n) \/ CheckTransactionsCreate(n)
           \/ TakeStop(n) \/ NoStop(n) \/ WrongNonce(n) \/ Publish(n)
  <2>1. UNCHANGED <<polls, regs, heard, ledger, registry, blocksSeen, bpc, block>>
    BY <1>2
    DEF ReadID, ReadPrevHash, CheckTransactionsCreate, TakeStop, NoStop, WrongNonce, Publish,
        txVars, blockVars, chainVars
  <2>2. heap'[m] = heap[m] /\ pollID'[m] = pollID[m]
    BY <1>2
    DEF ReadID, ReadPrevHash, CheckTransactionsCreate, TakeStop, NoStop, WrongNonce, Publish,
        MemInv, MemShaped
  <2> QED
    BY <2>1, <2>2
<1>3. ASSUME NEW b, HandleBlock(n, b)
      PROVE  /\ heap'[m] = heap[m] /\ blocksSeen'[m] = blocksSeen[m]
             /\ bpc'[m] = bpc[m] /\ block'[m] = block[m]
             /\ UNCHANGED <<polls, regs, pollID, heard, ledger, registry>>
  <2>1. /\ heap'[m] = heap[m]
        /\ UNCHANGED <<polls, regs, pollID, heard, ledger, registry>>
    BY <1>3 DEF HandleBlock, MemInv, MemShaped, txVars
  <2>2. blocksSeen' = [blocksSeen EXCEPT ![n] = blocksSeen[n] \cup {<<b.from, b.num>>}]
    BY <1>3 DEF HandleBlock
  <2>3. blocksSeen'[m] = blocksSeen[m]
    BY <2>2 DEF SeenInv
  <2>4. bpc'[m] = bpc[m] /\ block'[m] = block[m]
    BY <1>3 DEF HandleBlock, Shaped
  <2> QED
    BY <2>1, <2>3, <2>4
<1>4. CASE StopMining(n) \/ AppendBlock(n) \/ AddTransactions(n)
  <2>1. UNCHANGED <<heap, polls, regs, pollID, heard, blocksSeen, block>>
    BY <1>4 DEF StopMining, AppendBlock, AddTransactions, txVars
  <2>2. ledger'[m] = ledger[m] /\ registry'[m] = registry[m] /\ bpc'[m] = bpc[m]
    BY <1>4 DEF StopMining, AppendBlock, AddTransactions, chainVars, BooksInv, Shaped
  <2> QED
    BY <2>1, <2>2
<1>5. CASE RemoveConfirmedTx(n)
  <2>1. UNCHANGED <<pollID, heard, ledger, registry, blocksSeen>>
    BY <1>5 DEF RemoveConfirmedTx, chainVars
  <2>2. /\ heap'[m] = heap[m] /\ polls'[m] = polls[m] /\ regs'[m] = regs[m]
        /\ bpc'[m] = bpc[m] /\ block'[m] = block[m]
    BY <1>5 DEF RemoveConfirmedTx, MemInv, MemShaped, Shaped
  <2> QED
    BY <2>1, <2>2
<1> QED
  BY <1>1, <1>2, <1>3, <1>4, <1>5 DEF Step

\* Whatever a node does, its pool keeps what it had.
LEMMA KeptHere ==
  ASSUME MinerTypes, SeenInv, NEW n \in Node, Step(n), KeptAt(n)
  PROVE  KeptAt(n)'
PROOF
<1>0. MemInv /\ WireInv /\ BooksInv
  BY DEF MinerTypes
<1>1. ASSUME NEW m \in sentTxs, AddTransaction(n, m)
      PROVE  KeptAt(n)'
  BY <1>0, <1>1, AddTransactionKeeps
<1>2. CASE CheckTransactionsCreate(n)
  BY <1>0, <1>2, CheckTransactionsKeeps
<1>3. ASSUME NEW b, HandleBlock(n, b)
      PROVE  KeptAt(n)'
  BY <1>0, <1>3, HandleBlockKeeps
<1>4. CASE AddTransactions(n)
  BY <1>0, <1>4, AddTransactionsKeeps
<1>5. CASE RemoveConfirmedTx(n)
  BY <1>0, <1>5, RemoveConfirmedKeeps
<1>6. CASE \/ ReadID(n) \/ ReadPrevHash(n) \/ TakeStop(n) \/ NoStop(n) \/ WrongNonce(n)
           \/ Publish(n) \/ StopMining(n) \/ AppendBlock(n)
  <2>1. UNCHANGED <<heap, polls, regs, pollID, heard, ledger, registry, blocksSeen>>
    BY <1>6
    DEF ReadID, ReadPrevHash, TakeStop, NoStop, WrongNonce, Publish, StopMining, AppendBlock,
        txVars, blockVars, chainVars
  <2> QED
    BY <2>1, KeptSame
<1> QED
  BY <1>1, <1>2, <1>3, <1>4, <1>5, <1>6 DEF Step

\* listenBlocks works on what it has seen, and removes what it has booked.
LEMMA SeenHere ==
  ASSUME Shaped, MinerTypes, SeenInv, NEW n \in Node, Step(n), KeptAt(n)
  PROVE  /\ bpc'[n] # "wait" => <<block'[n].from, block'[n].num>> \in blocksSeen'[n]
         /\ bpc'[n] = "remove" /\ block'[n].from # n => BooksHave(n, block[n])'
PROOF
<1>0. MemInv /\ WireInv /\ BooksInv
  BY DEF MinerTypes
<1>1. CASE UNCHANGED <<bpc, block, ledger, registry, blocksSeen>>
  BY <1>1 DEF SeenInv, BooksHave, InBooks
<1>2. ASSUME NEW b, HandleBlock(n, b)
      PROVE  /\ bpc'[n] # "wait" => <<block'[n].from, block'[n].num>> \in blocksSeen'[n]
             /\ bpc'[n] # "remove"
  <2>1. bpc[n] = "wait" /\ <<b.from, b.num>> \in blocksSeen'[n]
    <3>1. blocksSeen' = [blocksSeen EXCEPT ![n] = blocksSeen[n] \cup {<<b.from, b.num>>}]
      BY <1>2 DEF HandleBlock
    <3> QED
      BY <1>2, <3>1 DEF HandleBlock, SeenInv
  <2>2. CASE UNCHANGED <<bpc, block>>
    BY <2>1, <2>2
  <2>3. CASE /\ bpc' = [bpc EXCEPT ![n] = "stop"] \/ bpc' = [bpc EXCEPT ![n] = "append"]
             /\ block' = [block EXCEPT ![n] = b]
    <3>1. bpc'[n] # "remove" /\ block'[n] = b
      BY <2>3 DEF Shaped
    <3> QED
      BY <2>1, <3>1
  <2> QED
    BY <1>2, <2>2, <2>3 DEF HandleBlock
<1>3. CASE StopMining(n) \/ AppendBlock(n)
  <2>1. /\ bpc[n] # "wait" /\ bpc'[n] # "remove"
        /\ UNCHANGED <<block, blocksSeen>>
    BY <1>3 DEF StopMining, AppendBlock, Shaped
  <2> QED
    BY <2>1 DEF SeenInv
<1>4. CASE AddTransactions(n)
  <2>1. /\ bpc[n] # "wait" /\ UNCHANGED <<block, blocksSeen>>
    BY <1>4 DEF AddTransactions
  <2>2. block[n].from # n => BooksHave(n, block[n])'
    BY <1>0, <1>4, AddTransactionsKeeps
  <2> QED
    BY <2>1, <2>2 DEF SeenInv
<1>5. CASE RemoveConfirmedTx(n)
  BY <1>5 DEF RemoveConfirmedTx, Shaped
<1>6. ASSUME NEW m \in sentTxs, AddTransaction(n, m)
      PROVE  UNCHANGED <<bpc, block, ledger, registry, blocksSeen>>
  BY <1>6 DEF AddTransaction, blockVars, chainVars
<1>7. CASE \/ ReadID(n) \/ ReadPrevHash(n) \/ CheckTransactionsCreate(n)
           \/ TakeStop(n) \/ NoStop(n) \/ WrongNonce(n) \/ Publish(n)
  <2>1. UNCHANGED <<bpc, block, ledger, registry, blocksSeen>>
    BY <1>7
    DEF ReadID, ReadPrevHash, CheckTransactionsCreate, TakeStop, NoStop, WrongNonce, Publish,
        blockVars, chainVars
  <2> QED
    BY <1>1, <2>1
<1> QED
  BY <1>1, <1>2, <1>3, <1>4, <1>5, <1>6, <1>7 DEF Step

\* blocksSeen keeps a value for every node.
LEMMA SeenShaped ==
  ASSUME SeenInv, NEW n \in Node, Step(n)
  PROVE  blocksSeen' = [m \in Node |-> blocksSeen'[m]]
PROOF
<1>1. CASE UNCHANGED blocksSeen
  BY <1>1 DEF SeenInv
<1>2. CASE \E x : blocksSeen' = [blocksSeen EXCEPT ![n] = x]
  BY <1>2 DEF SeenInv
<1>3. ASSUME NEW b, HandleBlock(n, b)
      PROVE  \E x : blocksSeen' = [blocksSeen EXCEPT ![n] = x]
  BY <1>3 DEF HandleBlock
<1>4. ASSUME NEW m \in sentTxs, AddTransaction(n, m)
      PROVE  UNCHANGED blocksSeen
  BY <1>4 DEF AddTransaction, blockVars
<1>5. CASE \/ ReadID(n) \/ ReadPrevHash(n) \/ CheckTransactionsCreate(n)
           \/ TakeStop(n) \/ NoStop(n) \/ WrongNonce(n) \/ Publish(n)
           \/ StopMining(n) \/ AppendBlock(n) \/ AddTransactions(n) \/ RemoveConfirmedTx(n)
  <2>1. UNCHANGED blocksSeen
    BY <1>5
    DEF ReadID, ReadPrevHash, CheckTransactionsCreate, TakeStop, NoStop, WrongNonce, Publish,
        StopMining, AppendBlock, AddTransactions, RemoveConfirmedTx, blockVars
  <2> QED
    BY <1>1, <2>1
<1> QED
  BY <1>1, <1>2, <1>3, <1>4, <1>5 DEF Step

\* Every step keeps the invariant.
LEMMA KeptStep ==
  ASSUME Shaped, MinerTypes, KeptInv, [Next]_vars
  PROVE  KeptInv'
PROOF
<1>1. CASE UNCHANGED vars
  <2>1. UNCHANGED <<heap, polls, regs, pollID, heard, ledger, registry, blocksSeen, bpc, block>>
    BY <1>1 DEF vars, txVars, blockVars, chainVars
  <2> QED
    BY <2>1 DEF KeptInv, SeenInv, KeptAt, PoolHas, BooksHave, InBooks, Refused
<1>2. CASE Next
  <2> PICK n \in Node : Step(n)
    BY <1>2 DEF Next
  <2>0. MemInv /\ BooksInv /\ SeenInv /\ \A m \in Node : KeptAt(m)
    BY DEF MinerTypes, KeptInv
  <2>1. KeptAt(n)'
    BY <2>0, KeptHere
  <2>2. /\ bpc'[n] # "wait" => <<block'[n].from, block'[n].num>> \in blocksSeen'[n]
        /\ bpc'[n] = "remove" /\ block'[n].from # n => BooksHave(n, block[n])'
    BY <2>0, SeenHere
  <2>3. ASSUME NEW m \in Node, m # n
        PROVE  /\ KeptAt(m)'
               /\ bpc'[m] # "wait" => <<block'[m].from, block'[m].num>> \in blocksSeen'[m]
               /\ bpc'[m] = "remove" /\ block'[m].from # m => BooksHave(m, block[m])'
    <3>1. /\ heap'[m] = heap[m] /\ polls'[m] = polls[m] /\ regs'[m] = regs[m]
          /\ pollID'[m] = pollID[m] /\ heard'[m] = heard[m] /\ ledger'[m] = ledger[m]
          /\ registry'[m] = registry[m] /\ blocksSeen'[m] = blocksSeen[m]
          /\ bpc'[m] = bpc[m] /\ block'[m] = block[m]
      BY <2>0, <2>3, Elsewhere
    <3>2. KeptAt(m)'
      BY <2>0, <3>1, KeptSame
    <3>3. bpc'[m] # "wait" => <<block'[m].from, block'[m].num>> \in blocksSeen'[m]
      BY <2>0, <3>1 DEF SeenInv
    <3>4. bpc'[m] = "remove" /\ block'[m].from # m => BooksHave(m, block[m])'
      BY <2>0, <3>1 DEF SeenInv, BooksHave, InBooks
    <3> QED
      BY <3>2, <3>3, <3>4
  <2>4. blocksSeen' = [m \in Node |-> blocksSeen'[m]]
    BY <2>0, SeenShaped
  <2>5. SeenInv'
    BY <2>2, <2>3, <2>4 DEF SeenInv
  <2> QED
    BY <2>1, <2>3, <2>5 DEF KeptInv
<1> QED
  BY <1>1, <1>2

(***************************************************************************)
(* No transaction gets lost on its way into a block: what the miner heard  *)
(* stays in the pool until a block confirms it or a block that failed has  *)
(* numbered it, through any number of blocks that the node makes, gives up *)
(* and refuses, as long as listenBlocks works on none of its own.          *)
(***************************************************************************)
THEOREM PoolsKeepTransactions == Spec => []KeptUntilConfirmed
PROOF
<1>1. Init => KeptInv
  BY DEF Init, KeptInv, SeenInv, KeptAt
<1>2. Shaped /\ MinerTypes /\ KeptInv /\ [Next]_vars => KeptInv'
  BY KeptStep
<1>3. Shaped /\ ChainInv /\ MinerTypes /\ [Next]_vars => MinerTypes'
  BY MemStep, WireStep, BooksStep DEF MinerTypes
<1>4. MinerTypes /\ KeptInv => KeptUntilConfirmed
  <2> SUFFICES ASSUME MinerTypes, KeptInv, NEW n \in Node,
                      \A seen \in blocksSeen[n] : seen[1] # n
               PROVE  heard[n] \subseteq InPool(n) \cup InBooks(n) \cup Refused(n)
    BY DEF KeptUntilConfirmed
  <2>1. MemInv /\ KeptAt(n)
    BY DEF MinerTypes, KeptInv
  <2>2. \A t : t \in InPool(n) <=> PoolHas(n, t)
    BY <2>1, PoolHolds
  <2> QED
    BY <2>1, <2>2 DEF KeptAt
<1> QED
  BY <1>1, <1>2, <1>3, <1>4, ChainInvariant, MinerTypesInit, PTL DEF Spec
=============================================================================
