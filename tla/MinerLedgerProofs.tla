-------------------------- MODULE MinerLedgerProofs --------------------------
(***************************************************************************)
(* What TLAPS proves about the blocks that end up on a chain, for any set  *)
(* of nodes and transactions.                                              *)
(*                                                                         *)
(* The miners implement the module Ledger.  The argument follows a block   *)
(* from the PrevHash that generateBlock reads to the chain it ends on: the *)
(* block that a miner continues stays on its chain while it mines, because *)
(* the chains only grow; what it publishes has that PrevHash in its hash;  *)
(* and listenBlocks takes nothing that was not published.                  *)
(*                                                                         *)
(* A chain confirms what was hashed.  The argument counts where in the     *)
(* ledger of a node the polls of each block end.                           *)
(***************************************************************************)
EXTENDS MinerProofs

\* The blocks of the module Ledger.
Published == {b.hash : b \in sentBlocks}

Places == {"wait", "id", "prev", "fill", "mine", "hash"}
Continues == {"fill", "mine", "hash"}

(***************************************************************************)
(* The variables of listenTransactions hold one value per node.            *)
(***************************************************************************)
MiningShaped == /\ \E M : mined \in [Node -> Seq(M)]
                /\ \E B : newBlock \in [Node -> B]
                /\ \A n \in Node : "prev" \in DOMAIN newBlock[n]
                /\ tpc \in [Node -> Places]

\* A node has published what it mined, and what listenBlocks holds; and it has
\* the block that it continues on its chain.
LedgerInv ==
  \A n \in Node :
    /\ \A k \in DOMAIN mined[n] : mined[n][k].hash \in Published
    /\ bpc[n] \in {"stop", "append"} => block[n].hash \in Published
    /\ tpc[n] \in Continues =>
         \E i \in 1..Len(chain[n]) : chain[n][i].hash = newBlock[n].prev

-----------------------------------------------------------------------------
\* listenTransactions moves on with a block that continues the last one, or
\* the one it continued already.
Moves(n) ==
  \E pc \in Places : \E nb :
    /\ tpc' = [tpc EXCEPT ![n] = pc]
    /\ newBlock' = [newBlock EXCEPT ![n] = nb]
    /\ "prev" \in DOMAIN nb
    /\ pc \in Continues => \/ nb.prev = LastHash(n)
                           \/ tpc[n] \in Continues /\ nb.prev = newBlock[n].prev
    /\ UNCHANGED chain

\* It publishes the block it has mined.
Publishes(n) ==
  \E h, r :
    /\ h.from = n /\ h.prev = newBlock[n].prev /\ r.hash = h
    /\ tpc[n] \in Continues
    /\ mined' = [mined EXCEPT ![n] = Append(mined[n], r)]
    /\ Published' = Published \cup {h}
    /\ UNCHANGED <<chain, bpc, block>>

\* The rumorer encodes a block again: it has the hash it always had.
LEMMA EncodedAgain ==
  ASSUME NEW n \in Node, LedgerInv, Encode(n), UNCHANGED mined
  PROVE  Published' = Published
PROOF
<1>1. sentBlocks' = sentBlocks \cup OwnBlocks(n)'
  BY DEF Encode
<1>2. ASSUME NEW b \in OwnBlocks(n)' PROVE b.hash \in Published
  <2> PICK k \in DOMAIN mined[n] : b.hash = mined[n][k].hash
    BY <1>2 DEF OwnBlocks
  <2> QED
    BY DEF LedgerInv
<1> QED
  BY <1>1, <1>2 DEF Published

\* A new block is encoded, with those that were published before.
LEMMA EncodedFirst ==
  ASSUME NEW n \in Node, MiningShaped, LedgerInv, Publish(n)
  PROVE  Publishes(n)
PROOF
<1> PICK M : mined \in [Node -> Seq(M)]
  BY DEF MiningShaped
<1> DEFINE h == Header(n, newBlock[n], Named(n, newBlock[n].polls))
           r == [id |-> newBlock[n].id, prev |-> newBlock[n].prev, hash |-> h,
                 polls |-> newBlock[n].polls, regs |-> newBlock[n].regs]
<1>1. mined' = [mined EXCEPT ![n] = Append(mined[n], r)]
  BY DEF Publish
<1>2. h.from = n /\ h.prev = newBlock[n].prev /\ r.hash = h
  BY DEF Header
<1> HIDE DEF h, r
<1>3. /\ DOMAIN mined'[n] = 1..(Len(mined[n]) + 1) /\ Len(mined[n]) \in Nat
      /\ \A k \in 1..Len(mined[n]) : mined'[n][k] = mined[n][k]
      /\ mined'[n][Len(mined[n]) + 1] = r
  <2>1. mined[n] \in Seq(M \cup {r})
    BY WiderSeq
  <2>2. mined'[n] = Append(mined[n], r)
    BY <1>1
  <2> QED
    BY <2>1, <2>2, AppendProperties, LenProperties
<1>4. sentBlocks' = sentBlocks \cup OwnBlocks(n)'
  BY DEF Publish, Encode
<1>5. {b.hash : b \in OwnBlocks(n)'} = {mined'[n][k].hash : k \in DOMAIN mined'[n]}
  <2>1. \A b \in OwnBlocks(n)' : \E k \in DOMAIN mined'[n] : b.hash = mined'[n][k].hash
    BY DEF OwnBlocks
  <2>2. ASSUME NEW k \in DOMAIN mined'[n]
        PROVE  \E b \in OwnBlocks(n)' : b.hash = mined'[n][k].hash
    <3> DEFINE b == [from |-> n, num |-> k, id |-> mined'[n][k].id,
                     prev |-> mined'[n][k].prev, hash |-> mined'[n][k].hash,
                     polls |-> Named(n, mined[n][k].polls)',
                     regs |-> Elements(heap[n], mined[n][k].regs)']
    <3>1. b \in OwnBlocks(n)'
      BY DEF OwnBlocks
    <3> QED
      BY <3>1
  <2> QED
    BY <2>1, <2>2
<1>6. \A k \in 1..Len(mined[n]) : mined[n][k].hash \in Published
  BY DEF LedgerInv
<1>7. \A k \in 1..(Len(mined[n]) + 1) : k \in 1..Len(mined[n]) \/ k = Len(mined[n]) + 1
  BY <1>3
<1>8. Published' = Published \cup {b.hash : b \in OwnBlocks(n)'}
  BY <1>4 DEF Published
<1>9. {mined'[n][k].hash : k \in DOMAIN mined'[n]} \subseteq Published \cup {h}
  BY <1>2, <1>3, <1>6, <1>7
<1>10. h \in {mined'[n][k].hash : k \in DOMAIN mined'[n]}
  BY <1>2, <1>3
<1>11. Published' = Published \cup {h}
  BY <1>5, <1>8, <1>9, <1>10
<1>12. tpc[n] \in Continues /\ UNCHANGED <<chain, bpc, block>>
  BY DEF Publish, Continues, blockVars, chainVars
<1> QED
  BY <1>1, <1>2, <1>11, <1>12 DEF Publishes

\* Nothing else is published, and nothing that was mined changes.
LEMMA MinedStep ==
  ASSUME MiningShaped, LedgerInv, [Next]_vars
  PROVE  \/ UNCHANGED mined /\ Published' = Published
         \/ \E n \in Node : Publishes(n)
PROOF
<1>1. CASE UNCHANGED vars
  BY <1>1 DEF vars, mineVars, wire, Published
<1>2. CASE Next
  <2> PICK n \in Node : Step(n)
    BY <1>2 DEF Next
  <2>1. ASSUME Encode(n), UNCHANGED mined
        PROVE  UNCHANGED mined /\ Published' = Published
    BY <2>1, EncodedAgain
  <2>2. ASSUME NEW m \in sentTxs, AddTransaction(n, m)
        PROVE  Encode(n) /\ UNCHANGED mined
    BY <2>2 DEF AddTransaction
  <2>3. CASE ReadID(n) \/ ReadPrevHash(n)
    BY <2>3 DEF ReadID, ReadPrevHash, wire, Published
  <2>4. CASE CheckTransactionsCreate(n)
    BY <2>1, <2>4 DEF CheckTransactionsCreate
  <2>5. CASE TakeStop(n) \/ NoStop(n) \/ WrongNonce(n)
    BY <2>5 DEF TakeStop, NoStop, WrongNonce, wire, Published
  <2>6. CASE Publish(n)
    BY <2>6, EncodedFirst
  <2>7. ASSUME NEW b, HandleBlock(n, b)
        PROVE  Encode(n) /\ UNCHANGED mined
    BY <2>7 DEF HandleBlock, mineVars
  <2>8. CASE StopMining(n) \/ AppendBlock(n) \/ AddTransactions(n)
    BY <2>8 DEF StopMining, AppendBlock, AddTransactions, mineVars, wire, Published
  <2>9. CASE RemoveConfirmedTx(n)
    BY <2>1, <2>9 DEF RemoveConfirmedTx, mineVars
  <2> QED
    BY <2>1, <2>2, <2>3, <2>4, <2>5, <2>6, <2>7, <2>8, <2>9 DEF Step
<1> QED
  BY <1>1, <1>2

\* What a step does to the block that listenTransactions makes.
LEMMA MoveStep ==
  ASSUME MiningShaped, [Next]_vars
  PROVE  \/ UNCHANGED <<tpc, newBlock>>
         \/ \E n \in Node : Moves(n)
PROOF
<1>1. CASE UNCHANGED vars
  BY <1>1 DEF vars, mineVars
<1>2. CASE Next
  <2> PICK n \in Node : Step(n)
    BY <1>2 DEF Next
  <2> PICK B : newBlock \in [Node -> B]
    BY DEF MiningShaped
  <2>1. "prev" \in DOMAIN newBlock[n] /\ "prev" \in DOMAIN NoNewBlock
    BY DEF MiningShaped, NoNewBlock
  <2>2. newBlock = [newBlock EXCEPT ![n] = newBlock[n]]
    OBVIOUS
  <2>3. ASSUME NEW m \in sentTxs, AddTransaction(n, m) PROVE Moves(n)
    <3> PICK pc \in {"id", "wait"} : tpc' = [tpc EXCEPT ![n] = pc]
      BY <2>3 DEF AddTransaction
    <3>1. UNCHANGED <<newBlock, chain>>
      BY <2>3 DEF AddTransaction, chainVars
    <3> QED
      BY <2>1, <2>2, <3>1 DEF Moves, Places, Continues
  <2>4. CASE ReadID(n)
    <3> DEFINE nb == [newBlock[n] EXCEPT !.id = Len(chain[n])]
    <3>1. tpc' = [tpc EXCEPT ![n] = "prev"] /\ newBlock' = [newBlock EXCEPT ![n] = nb]
      BY <2>4 DEF ReadID
    <3>2. "prev" \in DOMAIN nb /\ UNCHANGED chain
      BY <2>1, <2>4 DEF ReadID, chainVars
    <3> QED
      BY <3>1, <3>2 DEF Moves, Places, Continues
  <2>5. CASE ReadPrevHash(n)
    <3> DEFINE nb == [newBlock[n] EXCEPT !.prev = LastHash(n)]
    <3>1. tpc' = [tpc EXCEPT ![n] = "fill"] /\ newBlock' = [newBlock EXCEPT ![n] = nb]
      BY <2>5 DEF ReadPrevHash
    <3>2. "prev" \in DOMAIN nb /\ nb.prev = LastHash(n) /\ UNCHANGED chain
      BY <2>1, <2>5 DEF ReadPrevHash, chainVars
    <3> HIDE DEF nb
    <3> QED
      BY <3>1, <3>2 DEF Moves, Places, Continues
  <2>6. CASE CheckTransactionsCreate(n)
    <3> PICK ps : newBlock' = [newBlock EXCEPT ![n].polls = ps, ![n].regs = regs[n]]
      BY <2>6 DEF CheckTransactionsCreate
    <3> DEFINE nb == [newBlock[n] EXCEPT !.polls = ps, !.regs = regs[n]]
    <3>1. /\ tpc[n] = "fill" /\ tpc' = [tpc EXCEPT ![n] = "mine"]
          /\ newBlock' = [newBlock EXCEPT ![n] = nb]
      BY <2>6 DEF CheckTransactionsCreate
    <3>2. "prev" \in DOMAIN nb /\ nb.prev = newBlock[n].prev /\ UNCHANGED chain
      BY <2>1, <2>6 DEF CheckTransactionsCreate, chainVars
    <3> HIDE DEF nb
    <3> QED
      BY <3>1, <3>2 DEF Moves, Places, Continues
  <2>7. CASE TakeStop(n)
    <3>1. CASE UNCHANGED <<tpc, newBlock>>
      BY <3>1
    <3>2. CASE /\ tpc' = [tpc EXCEPT ![n] = "wait"]
               /\ newBlock' = [newBlock EXCEPT ![n] = NoNewBlock]
      BY <2>1, <2>7, <3>2 DEF TakeStop, chainVars, Moves, Places, Continues
    <3> QED
      BY <2>7, <3>1, <3>2 DEF TakeStop
  <2>8. CASE NoStop(n) \/ WrongNonce(n)
    <3> PICK pc \in {"hash", "mine"} :
               tpc[n] \in {"hash", "mine"} /\ tpc' = [tpc EXCEPT ![n] = pc]
      BY <2>8 DEF NoStop, WrongNonce
    <3>1. UNCHANGED <<newBlock, chain>>
      BY <2>8 DEF NoStop, WrongNonce, chainVars
    <3> QED
      BY <2>1, <2>2, <3>1 DEF Moves, Places, Continues
  <2>9. CASE Publish(n)
    <3>1. /\ tpc' = [tpc EXCEPT ![n] = "wait"] /\ UNCHANGED chain
          /\ newBlock' = [newBlock EXCEPT ![n] = NoNewBlock]
      BY <2>9 DEF Publish, chainVars
    <3> QED
      BY <2>1, <3>1 DEF Moves, Places, Continues
  <2>10. ASSUME NEW b, HandleBlock(n, b) PROVE UNCHANGED <<tpc, newBlock>>
    BY <2>10 DEF HandleBlock, mineVars
  <2>11. CASE \/ StopMining(n) \/ AppendBlock(n) \/ AddTransactions(n)
              \/ RemoveConfirmedTx(n)
    BY <2>11 DEF StopMining, AppendBlock, AddTransactions, RemoveConfirmedTx, mineVars
  <2> QED
    BY <2>3, <2>4, <2>5, <2>6, <2>7, <2>8, <2>9, <2>10, <2>11 DEF Step
<1> QED
  BY <1>1, <1>2

\* listenBlocks takes what was published.
LEMMA TakenStep ==
  ASSUME Shaped, LedgerInv, [Next]_vars, NEW n \in Node,
         bpc'[n] \in {"stop", "append"}
  PROVE  block'[n].hash \in Published
PROOF
<1>1. CASE UNCHANGED <<bpc, block>>
  BY <1>1 DEF LedgerInv
<1>2. ASSUME NEW m \in Node, NEW b, HandleBlock(m, b), b.hash \in Published
      PROVE  block'[n].hash \in Published
  <2>1. UNCHANGED <<bpc, block>> \/ /\ block' = [block EXCEPT ![m] = b]
                                    /\ \E pc : bpc' = [bpc EXCEPT ![m] = pc]
    BY <1>2 DEF HandleBlock
  <2>2. CASE n = m /\ block' = [block EXCEPT ![m] = b]
    BY <1>2, <2>2 DEF Shaped
  <2>3. CASE n # m
    BY <2>1, <2>3 DEF Shaped, LedgerInv
  <2> QED
    BY <1>1, <2>1, <2>2, <2>3
<1>3. ASSUME NEW m \in Node,
             \/ StopMining(m) \/ AppendBlock(m) \/ AddTransactions(m) \/ RemoveConfirmedTx(m)
      PROVE  block'[n].hash \in Published
  <2>1. CASE StopMining(m)
    <3>1. bpc[m] = "stop" /\ block' = block /\ bpc' = [bpc EXCEPT ![m] = "append"]
      BY <2>1 DEF StopMining
    <3> QED
      BY <3>1 DEF Shaped, LedgerInv
  <2>2. CASE AppendBlock(m) \/ AddTransactions(m)
    <3>1. block' = block /\ \E pc \in {"add", "remove"} : bpc' = [bpc EXCEPT ![m] = pc]
      BY <2>2 DEF AppendBlock, AddTransactions
    <3> QED
      BY <3>1 DEF Shaped, LedgerInv
  <2>3. CASE RemoveConfirmedTx(m)
    <3>1. /\ block' = [block EXCEPT ![m] = NoBlock]
          /\ bpc' = [bpc EXCEPT ![m] = "wait"]
      BY <2>3 DEF RemoveConfirmedTx
    <3> QED
      BY <3>1 DEF Shaped, LedgerInv
  <2> QED
    BY <1>3, <2>1, <2>2, <2>3
<1>4. CASE UNCHANGED vars
  BY <1>1, <1>4 DEF vars, blockVars
<1>5. CASE Next
  <2> PICK m \in Node : Step(m)
    BY <1>5 DEF Next
  <2>1. ASSUME NEW t \in sentTxs, AddTransaction(m, t) PROVE UNCHANGED <<bpc, block>>
    BY <2>1 DEF AddTransaction, blockVars
  <2>2. CASE \/ ReadID(m) \/ ReadPrevHash(m) \/ CheckTransactionsCreate(m)
             \/ TakeStop(m) \/ NoStop(m) \/ WrongNonce(m) \/ Publish(m)
    <3>1. UNCHANGED <<bpc, block>>
      BY <2>2 DEF ReadID, ReadPrevHash, CheckTransactionsCreate, TakeStop, NoStop,
                  WrongNonce, Publish, blockVars
    <3> QED
      BY <1>1, <3>1
  <2>3. ASSUME NEW b \in sentBlocks PROVE b.hash \in Published
    BY DEF Published
  <2>4. ASSUME NEW k \in DOMAIN mined[m] PROVE OwnBlock(m, k).hash \in Published
    BY DEF OwnBlock, LedgerInv
  <2> QED
    BY <1>1, <1>2, <1>3, <2>1, <2>2, <2>3, <2>4 DEF Step
<1> QED
  BY <1>4, <1>5
\* What is on a chain stays there.
LEMMA ChainKept ==
  ASSUME Shaped, [Next]_vars, NEW n \in Node, NEW i \in 1..Len(chain[n])
  PROVE  i \in 1..Len(chain'[n]) /\ chain'[n][i] = chain[n][i]
PROOF
<1>1. CASE chain' = chain
  BY <1>1
<1>2. ASSUME NEW m \in Node, AppendBlock(m)
      PROVE  i \in 1..Len(chain'[n]) /\ chain'[n][i] = chain[n][i]
  <2>1. Extends(m)
    BY <1>2, AppendExtends
  <2>2. /\ Len(chain[m]) \in Nat
        /\ Len(chain'[m]) = Len(chain[m]) + 1
        /\ \A k \in 1..Len(chain[m]) : chain'[m][k] = chain[m][k]
        /\ \A p \in Node \ {m} : chain'[p] = chain[p]
    BY <2>1, ExtendedChain
  <2> QED
    BY <2>2
<1> QED
  BY <1>1, <1>2, StepCases DEF Accepts, StopMining, AddTransactions, RemoveConfirmedTx, chainVars

\* Every step keeps one value per node.
LEMMA MiningShapedStep ==
  MiningShaped /\ LedgerInv /\ [Next]_vars => MiningShaped'
PROOF
<1> SUFFICES ASSUME MiningShaped, LedgerInv, [Next]_vars PROVE MiningShaped'
  OBVIOUS
<1> PICK M : mined \in [Node -> Seq(M)]
  BY DEF MiningShaped
<1> PICK B : newBlock \in [Node -> B]
  BY DEF MiningShaped
<1>1. \E N : mined' \in [Node -> Seq(N)]
  <2>1. CASE mined' = mined
    BY <2>1
  <2>2. ASSUME NEW n \in Node, Publishes(n) PROVE \E N : mined' \in [Node -> Seq(N)]
    <3> PICK r : mined' = [mined EXCEPT ![n] = Append(mined[n], r)]
      BY <2>2 DEF Publishes
    <3>1. \A m \in Node : mined[m] \in Seq(M \cup {r})
      BY WiderSeq
    <3>2. Append(mined[n], r) \in Seq(M \cup {r})
      BY <3>1, AppendProperties
    <3>3. mined' \in [Node -> Seq(M \cup {r})]
      BY <3>1, <3>2
    <3> QED
      BY <3>3
  <2> QED
    BY <2>1, <2>2, MinedStep
<1>2. /\ \E C : newBlock' \in [Node -> C]
      /\ \A n \in Node : "prev" \in DOMAIN newBlock'[n]
      /\ tpc' \in [Node -> Places]
  <2>1. CASE UNCHANGED <<tpc, newBlock>>
    BY <2>1 DEF MiningShaped
  <2>2. ASSUME NEW n \in Node, Moves(n)
        PROVE  /\ \E C : newBlock' \in [Node -> C]
               /\ \A m \in Node : "prev" \in DOMAIN newBlock'[m]
               /\ tpc' \in [Node -> Places]
    <3> PICK pc, nb : /\ pc \in Places
                      /\ tpc' = [tpc EXCEPT ![n] = pc]
                      /\ newBlock' = [newBlock EXCEPT ![n] = nb]
                      /\ "prev" \in DOMAIN nb
      BY <2>2 DEF Moves
    <3>1. newBlock' \in [Node -> B \cup {nb}]
      OBVIOUS
    <3>2. tpc' \in [Node -> Places]
      BY DEF MiningShaped
    <3>3. \A m \in Node : "prev" \in DOMAIN newBlock'[m]
      BY DEF MiningShaped
    <3> QED
      BY <3>1, <3>2, <3>3
  <2> QED
    BY <2>1, <2>2, MoveStep
<1> QED
  BY <1>1, <1>2 DEF MiningShaped

\* Every step keeps published what has been mined or taken, and the block that
\* a new one continues on the chain of its miner.
LEMMA LedgerInvStep ==
  Shaped /\ MiningShaped /\ ChainInv /\ LedgerInv /\ [Next]_vars => LedgerInv'
PROOF
<1> SUFFICES ASSUME Shaped, MiningShaped, ChainInv, LedgerInv, [Next]_vars
             PROVE  LedgerInv'
  OBVIOUS
<1>1. Published \subseteq Published'
  BY MinedStep DEF Publishes
<1>2. ASSUME NEW n \in Node, NEW k \in DOMAIN mined'[n]
      PROVE  mined'[n][k].hash \in Published'
  <2>1. CASE mined' = mined
    BY <1>1, <2>1 DEF LedgerInv
  <2>2. ASSUME NEW m \in Node, Publishes(m) PROVE mined'[n][k].hash \in Published'
    <3> PICK h, r : /\ r.hash = h
                    /\ mined' = [mined EXCEPT ![m] = Append(mined[m], r)]
                    /\ Published' = Published \cup {h}
      BY <2>2 DEF Publishes
    <3>1. CASE n = m
      <4> PICK M : mined \in [Node -> Seq(M)]
        BY DEF MiningShaped
      <4>1. mined[m] \in Seq(M \cup {r}) /\ mined'[m] = Append(mined[m], r)
        BY WiderSeq
      <4>2. /\ Len(mined[m]) \in Nat /\ Len(mined'[m]) = Len(mined[m]) + 1
            /\ DOMAIN mined[m] = 1..Len(mined[m]) /\ DOMAIN mined'[m] = 1..Len(mined'[m])
            /\ \A i \in 1..Len(mined[m]) : mined'[m][i] = mined[m][i]
            /\ mined'[m][Len(mined[m]) + 1] = r
        BY <4>1, AppendProperties, LenProperties
      <4>3. CASE k = Len(mined[m]) + 1
        BY <3>1, <4>2, <4>3
      <4>4. CASE k \in 1..Len(mined[m])
        BY <1>1, <3>1, <4>2, <4>4 DEF LedgerInv
      <4> QED
        BY <3>1, <4>2, <4>3, <4>4
    <3>2. CASE n # m
      <4>1. mined'[n] = mined[n]
        BY <3>2 DEF MiningShaped
      <4> QED
        BY <1>1, <4>1 DEF LedgerInv
    <3> QED
      BY <3>1, <3>2
  <2> QED
    BY <2>1, <2>2, MinedStep
<1>3. ASSUME NEW n \in Node, tpc'[n] \in Continues
      PROVE  \E i \in 1..Len(chain'[n]) : chain'[n][i].hash = newBlock'[n].prev
  <2>1. ASSUME tpc[n] \in Continues, newBlock'[n].prev = newBlock[n].prev
        PROVE  \E i \in 1..Len(chain'[n]) : chain'[n][i].hash = newBlock'[n].prev
    <3> PICK i \in 1..Len(chain[n]) : chain[n][i].hash = newBlock[n].prev
      BY <2>1 DEF LedgerInv
    <3> QED
      BY <2>1, ChainKept
  <2>2. ASSUME newBlock'[n].prev = LastHash(n)
        PROVE  \E i \in 1..Len(chain'[n]) : chain'[n][i].hash = newBlock'[n].prev
    <3>1. Len(chain[n]) \in 1..Len(chain[n])
      BY DEF ChainInv
    <3> QED
      BY <2>2, <3>1, ChainKept DEF LastHash
  <2>3. CASE UNCHANGED <<tpc, newBlock>>
    BY <1>3, <2>1, <2>3
  <2>4. ASSUME NEW m \in Node, Moves(m)
        PROVE  \E i \in 1..Len(chain'[n]) : chain'[n][i].hash = newBlock'[n].prev
    <3> PICK pc, nb :
               /\ pc \in Places
               /\ tpc' = [tpc EXCEPT ![m] = pc]
               /\ newBlock' = [newBlock EXCEPT ![m] = nb]
               /\ pc \in Continues => \/ nb.prev = LastHash(m)
                                      \/ tpc[m] \in Continues /\ nb.prev = newBlock[m].prev
      BY <2>4 DEF Moves
    <3>1. CASE n = m
      <4>1. tpc'[n] = pc /\ newBlock'[n] = nb
        BY <3>1 DEF MiningShaped
      <4> QED
        BY <1>3, <2>1, <2>2, <3>1, <4>1
    <3>2. CASE n # m
      <4>1. tpc'[n] = tpc[n] /\ newBlock'[n] = newBlock[n]
        BY <3>2 DEF MiningShaped
      <4> QED
        BY <1>3, <2>1, <4>1
    <3> QED
      BY <3>1, <3>2
  <2> QED
    BY <2>3, <2>4, MoveStep
<1>4. \A n \in Node : bpc'[n] \in {"stop", "append"} => block'[n].hash \in Published'
  BY <1>1, TakenStep
<1> QED
  BY <1>2, <1>3, <1>4 DEF LedgerInv

\* The inductive invariant of the refinement holds in every reachable state.
LEMMA LedgerInvariant ==
  Spec => [](Shaped /\ ChainInv /\ MiningShaped /\ LedgerInv)
PROOF
<1>1. Init => Shaped /\ ChainInv /\ MiningShaped /\ LedgerInv
  <2> SUFFICES ASSUME Init PROVE MiningShaped /\ LedgerInv
    BY ShapedInit, ChainInvInit
  <2>1. mined \in [Node -> Seq({})] /\ newBlock \in [Node -> {NoNewBlock}]
    BY DEF Init
  <2>2. MiningShaped
    BY <2>1 DEF Init, MiningShaped, NoNewBlock, Places
  <2>3. LedgerInv
    BY DEF Init, LedgerInv, Continues
  <2> QED
    BY <2>2, <2>3
<1>2. Shaped /\ ChainInv /\ MiningShaped /\ LedgerInv /\ [Next]_vars =>
        (Shaped /\ ChainInv /\ MiningShaped /\ LedgerInv)'
  BY ShapedStep, ChainInvStep, MiningShapedStep, LedgerInvStep
<1> QED
  BY <1>1, <1>2, PTL DEF Spec
-----------------------------------------------------------------------------
\* The chains of the module Ledger.
Hashes(n) == [i \in 1..Len(chain[n]) |-> chain[n][i].hash]
HashChain == [n \in Node |-> [i \in 1..Len(chain[n]) |-> chain[n][i].hash]]

\* A chain and its hashes have the same length.
LEMMA HashChainLen ==
  ASSUME ChainInv, NEW n \in Node
  PROVE  /\ HashChain[n] = Hashes(n) /\ Len(HashChain[n]) = Len(chain[n])
         /\ \A i \in 1..Len(chain[n]) : HashChain[n][i] = chain[n][i].hash
PROOF
<1>1. HashChain[n] = Hashes(n) /\ Len(chain[n]) \in Nat
  BY DEF HashChain, Hashes, ChainInv
<1> QED
  BY <1>1 DEF Hashes

\* Appending a block to a chain appends its hash.
LEMMA HashAppended ==
  ASSUME Shaped, ChainInv, NEW n \in Node, Extends(n)
  PROVE  HashChain' = [HashChain EXCEPT ![n] = Append(HashChain[n], block[n].hash)]
PROOF
<1>1. /\ Len(chain[n]) \in Nat
      /\ Len(chain'[n]) = Len(chain[n]) + 1
      /\ \A i \in 1..Len(chain[n]) : chain'[n][i] = chain[n][i]
      /\ chain'[n][Len(chain[n]) + 1].hash = block[n].hash
      /\ \A m \in Node \ {n} : chain'[m] = chain[m]
  <2>1. NewEntry(n).hash = block[n].hash
    BY DEF NewEntry
  <2>2. /\ Len(chain[n]) \in Nat
        /\ Len(chain'[n]) = Len(chain[n]) + 1
        /\ \A i \in 1..Len(chain[n]) : chain'[n][i] = chain[n][i]
        /\ chain'[n][Len(chain[n]) + 1] = NewEntry(n)
        /\ \A m \in Node \ {n} : chain'[m] = chain[m]
    BY ExtendedChain
  <2> QED
    BY <2>1, <2>2
<1> DEFINE new == [i \in 1..Len(chain'[n]) |-> chain'[n][i].hash]
           S == {chain'[n][i].hash : i \in 1..Len(chain'[n])}
<1>2. new \in Seq(S) /\ Len(new) = Len(chain[n]) + 1
  BY <1>1
<1>3. Hashes(n) \in Seq(S) /\ Len(Hashes(n)) = Len(chain[n])
  BY <1>1 DEF Hashes
<1>4. block[n].hash \in S
  BY <1>1
<1>5. /\ Append(Hashes(n), block[n].hash) \in Seq(S)
      /\ Len(Append(Hashes(n), block[n].hash)) = Len(chain[n]) + 1
      /\ \A i \in 1..Len(chain[n]) : Append(Hashes(n), block[n].hash)[i] = chain[n][i].hash
      /\ Append(Hashes(n), block[n].hash)[Len(chain[n]) + 1] = block[n].hash
  <2> HIDE DEF S
  <2> QED
    BY <1>3, <1>4, AppendProperties DEF Hashes
<1>6. \A i \in 1..Len(new) : new[i] = Append(Hashes(n), block[n].hash)[i]
  <2> SUFFICES ASSUME NEW i \in 1..(Len(chain[n]) + 1)
               PROVE  chain'[n][i].hash = Append(Hashes(n), block[n].hash)[i]
    BY <1>1, <1>2
  <2>1. CASE i \in 1..Len(chain[n])
    BY <1>1, <1>5, <2>1
  <2>2. CASE i = Len(chain[n]) + 1
    BY <1>1, <1>5, <2>2
  <2>3. i \in 1..Len(chain[n]) \/ i = Len(chain[n]) + 1
    BY <1>1
  <2> QED
    BY <2>1, <2>2, <2>3
<1>7. new = Append(Hashes(n), block[n].hash)
  <2> HIDE DEF new, S
  <2> QED
    BY <1>2, <1>5, <1>6, SeqEqual
<1>8. HashChain'[n] = Append(HashChain[n], block[n].hash)
  BY <1>7, HashChainLen DEF HashChain
<1>9. \A m \in Node \ {n} : HashChain'[m] = HashChain[m]
  BY <1>1 DEF HashChain
<1>10. HashChain' = [m \in Node |-> HashChain'[m]] /\ HashChain = [m \in Node |-> HashChain[m]]
  BY DEF HashChain
<1> HIDE DEF HashChain
<1> QED
  BY <1>8, <1>9, <1>10

\* Every step is a step of the module Ledger, or none of its.
LEMMA LedgerStep ==
  ASSUME Shaped, ChainInv, MiningShaped, LedgerInv, [Next]_vars
  PROVE  [Abstract!Next]_(Abstract!vars)
PROOF
<1>1. ASSUME NEW n \in Node, Publishes(n) PROVE Abstract!Publish(n)
  <2> PICK h : /\ h.from = n /\ h.prev = newBlock[n].prev /\ Published' = Published \cup {h}
               /\ tpc[n] \in Continues /\ UNCHANGED chain
    BY <1>1 DEF Publishes
  <2>1. PICK i \in 1..Len(chain[n]) : chain[n][i].hash = h.prev
    BY DEF LedgerInv
  <2>2. Abstract!On(n, h.prev)
    BY <2>1, HashChainLen DEF Abstract!On, HashChain
  <2> QED
    BY <2>2 DEF Abstract!Publish, Published
<1>2. ASSUME NEW n \in Node, Extends(n), Published' = Published PROVE Abstract!Confirm(n)
  <2>1. block[n].hash \in Published
    BY <1>2 DEF LedgerInv, Extends
  <2>2. block[n].hash.prev = HashChain[n][Len(HashChain[n])]
    <3>1. block[n].hash.prev = chain[n][Len(chain[n])].hash
      BY <1>2 DEF ChainInv, Hashed, Extends, LastHash
    <3> QED
      BY <3>1, HashChainLen DEF ChainInv
  <2>3. HashChain' = [HashChain EXCEPT ![n] = Append(HashChain[n], block[n].hash)]
    BY <1>2, HashAppended
  <2> QED
    BY <1>2, <2>1, <2>2, <2>3 DEF Abstract!Confirm, HashChain, Published
<1>3. chain' = chain \/ \E n \in Node : Extends(n)
  BY StepCases, AppendExtends
  DEF Accepts, StopMining, AddTransactions, RemoveConfirmedTx, chainVars
<1>4. Published' = Published \/ \E n \in Node : Publishes(n)
  BY MinedStep
<1>5. CASE chain' = chain /\ Published' = Published
  BY <1>5 DEF Abstract!vars, Published
<1>6. ASSUME NEW n \in Node, Extends(n) PROVE ~(\E m \in Node : Publishes(m))
  BY <1>6 DEF Extends, Publishes, Shaped
<1> QED
  BY <1>1, <1>2, <1>3, <1>4, <1>5, <1>6 DEF Abstract!Next

(***************************************************************************)
(* The miners implement the module Ledger: whatever their goroutines read  *)
(* while listenBlocks moves on, a block that is published continues a      *)
(* block on the chain of its miner, and a chain grows by nothing but       *)
(* published blocks, each with the hash of the last one as its PrevHash.   *)
(***************************************************************************)
THEOREM MinersImplementLedger ==
  Spec => ImplementsLedger
PROOF
<1>1. Init => Abstract!Init
  <2> SUFFICES ASSUME Init PROVE Abstract!Init
    OBVIOUS
  <2>1. {b.hash : b \in sentBlocks} = {}
    BY DEF Init
  <2>2. ASSUME NEW n \in Node
        PROVE  [i \in 1..Len(chain[n]) |-> chain[n][i].hash] = <<GenesisHash>>
    <3>1. chain[n] = <<Genesis>> /\ Len(chain[n]) = 1 /\ chain[n][1].hash = GenesisHash
      BY DEF Init, Genesis
    <3> QED
      BY <3>1
  <2> QED
    BY <2>1, <2>2 DEF Abstract!Init
<1>2. Shaped /\ ChainInv /\ MiningShaped /\ LedgerInv /\ [Next]_vars =>
        [Abstract!Next]_(Abstract!vars)
  BY LedgerStep
<1> QED
  BY <1>1, <1>2, LedgerInvariant, PTL DEF Spec, ImplementsLedger, Abstract!Spec

-----------------------------------------------------------------------------
(***************************************************************************)
(* The polls that the blocks of a chain put in the ledger.  The first k    *)
(* blocks are booked when end[i] is where the polls of block i end: it is  *)
(* as many further on as the block was hashed with, although a node reads  *)
(* the polls of its own blocks from arrays that move.                      *)
(***************************************************************************)
Added(n) == IF bpc[n] = "add" THEN Len(chain[n]) - 1 ELSE Len(chain[n])

\* Ledger l of node n has the polls of block b, after so many others.
Confirmed(n, l, b, before) ==
  \A k \in DOMAIN b.hash.polls :
    LET at == before + k
        hashed == b.hash.polls[k]
    IN  IF b.hash.from = n THEN l[at].shared
        ELSE /\ l[at] = [poll |-> hashed.poll, id |-> at - 1, shared |-> FALSE]
             /\ hashed.id = at - 1 /\ hashed.poll \notin Blank

\* The polls of the i-th of k blocks of chain c end at end[i].
Ends(c, k, end) ==
  end = [i \in 1..k |-> IF i = 1 THEN 0 ELSE end[i - 1] + Len(c[i].hash.polls)]

\* The first k blocks of chain c, and nothing else, are in ledger l of node n.
Booked(n, c, l, k, end) ==
  /\ Ends(c, k, end)
  /\ \A i \in 1..k : end[i] \in 0..Len(l)
  /\ end[k] = Len(l)
  /\ \A i \in 2..k : Confirmed(n, l, c[i], end[i - 1])

\* The ledger of a node has the blocks of its chain.
AllBooked(n) == \E end : Booked(n, chain[n], ledger[n], Added(n), end)

\* A block of a node's own was hashed with as many polls as its slice has.
Owned(n) ==
  \A k \in DOMAIN mined[n] :
    /\ mined[n][k].hash.from = n
    /\ mined[n][k].hash.polls \in Seq(Listed)
    /\ Len(mined[n][k].hash.polls) = mined[n][k].polls.len

\* What listenBlocks knows of a block after it has checked the hash.
Checked(n, b) ==
  /\ b.hash.polls \in Seq(Listed)
  /\ IF b.from = n THEN /\ b.hash.from = n /\ b.num \in DOMAIN mined[n]
                        /\ mined[n][b.num].polls.len = Len(b.hash.polls)
     ELSE b.hash.from # n /\ b.hash.polls = b.polls

(***************************************************************************)
(* The invariant of a node's ledger.  The polls of a decoded block were    *)
(* checked against the ledger as it still is when they are added to it.    *)
(***************************************************************************)
LedgerOf(n) ==
  /\ Owned(n)
  /\ bpc[n] # "wait" => Checked(n, block[n])
  /\ bpc[n] \in {"stop", "append", "add"} /\ block[n].from # n => PollsValid(n, block[n].polls)
  /\ bpc[n] = "add" => Len(chain[n]) > 1 /\ chain[n][Len(chain[n])].hash = block[n].hash
  /\ \A i \in 2..Len(chain[n]) : chain[n][i].hash.polls \in Seq(Listed)
  /\ AllBooked(n)

\* A step that leaves these alone leaves the ledger as it was.
LEMMA LedgerElsewhere ==
  ASSUME NEW m \in Node, LedgerOf(m),
         mined'[m] = mined[m], bpc'[m] = bpc[m], block'[m] = block[m],
         chain'[m] = chain[m], ledger'[m] = ledger[m]
  PROVE  LedgerOf(m)'
PROOF
<1>1. Owned(m)' /\ Added(m)' = Added(m)
  BY DEF LedgerOf, Owned, Added
<1>5. AllBooked(m)'
  BY <1>1 DEF LedgerOf, AllBooked
<1>6. bpc'[m] # "wait" => Checked(m, block[m])'
  BY DEF LedgerOf, Checked
<1>7. bpc'[m] \in {"stop", "append", "add"} /\ block'[m].from # m =>
        PollsValid(m, block[m].polls)'
  BY DEF LedgerOf, PollsValid, NextPollID
<1> QED
  BY <1>1, <1>5, <1>6, <1>7 DEF LedgerOf

\* At first nothing is confirmed.
LEMMA LedgerInit ==
  ASSUME Init, NEW n \in Node
  PROVE  LedgerOf(n)
PROOF
<1>1. /\ mined[n] = <<>> /\ bpc[n] = "wait" /\ chain[n] = <<Genesis>> /\ ledger[n] = <<>>
  BY DEF Init
<1>2. Len(chain[n]) = 1 /\ Len(ledger[n]) = 0 /\ Added(n) = 1 /\ 1..1 = {1} /\ 2..1 = {}
  BY <1>1 DEF Added
<1>3. PICK end : end = [i \in {1} |-> 0]
  OBVIOUS
<1>4. Booked(n, chain[n], ledger[n], 1, end)
  BY <1>1, <1>2, <1>3 DEF Booked, Ends
<1> QED
  BY <1>1, <1>2, <1>4 DEF LedgerOf, AllBooked, Owned

\* The polls of a slice are as many as the slice is long.
LEMMA NamedLong ==
  ASSUME NEW n \in Node, HeapOK(heap[n]), NEW s, SliceOf(heap[n], s, Poll),
         pollID[n] \in [Poll -> Nat]
  PROVE  Named(n, s) \in Seq(Listed) /\ Len(Named(n, s)) = s.len
PROOF
<1>1. Named(n, s) \in Seq(Listed)
  BY NamedTyped DEF Named
<1>2. Elements(heap[n], s) \in Seq(Poll) /\ Len(Elements(heap[n], s)) = s.len
  BY ElementsTyped DEF Kinds
<1>3. DOMAIN Named(n, s) = DOMAIN Elements(heap[n], s)
  BY DEF Named
<1>4. Len(Named(n, s)) \in Nat /\ Len(Elements(heap[n], s)) \in Nat
      /\ 1..Len(Named(n, s)) = 1..Len(Elements(heap[n], s))
  BY <1>1, <1>2, <1>3, LenProperties
<1>5. \A i, j \in Nat : 1..i = 1..j => i = j
  <2> TAKE i \in Nat, j \in Nat
  <2> HAVE 1..i = 1..j
  <2>1. i >= 1 => i \in 1..j
    OBVIOUS
  <2>2. j >= 1 => j \in 1..i
    OBVIOUS
  <2> QED
    BY <2>1, <2>2
<1> QED
  BY <1>1, <1>2, <1>4, <1>5

\* What a node publishes has in its hash the polls of its slice.
LEMMA PublishOwned ==
  ASSUME MemInv, NEW n \in Node, LedgerOf(n), Publish(n)
  PROVE  LedgerOf(n)'
PROOF
<1> DEFINE b == newBlock[n]
           named == Named(n, b.polls)
           e == [id |-> b.id, prev |-> b.prev, hash |-> Header(n, b, named),
                 polls |-> b.polls, regs |-> b.regs]
<1>1. /\ UNCHANGED <<bpc, block, chain, ledger>>
      /\ mined' = [mined EXCEPT ![n] = Append(mined[n], e)]
  BY DEF Publish, blockVars, chainVars
<1>2. named \in Seq(Listed) /\ Len(named) = b.polls.len
  <2>1. /\ HeapOK(heap[n]) /\ SliceOf(heap[n], b.polls, Poll) /\ pollID[n] \in [Poll -> Nat]
        /\ Poll \in Kinds
    BY DEF MemInv, MemShaped, Pooled, Kinds
  <2> QED
    BY <2>1, NamedLong
<1>3. e.hash.from = n /\ e.hash.polls = named /\ e.polls = b.polls
  BY DEF Header
<1> HIDE DEF e, named
<1>4. PICK M : mined \in [Node -> Seq(M)]
  BY DEF MemInv, MemShaped
<1>5. /\ DOMAIN mined[n] \subseteq DOMAIN mined'[n]
      /\ \A k \in DOMAIN mined[n] : mined'[n][k] = mined[n][k]
      /\ \A k \in DOMAIN mined'[n] : k \in DOMAIN mined[n] \/ mined'[n][k] = e
  <2>1. mined[n] \in Seq(M \cup {e})
    BY <1>4
  <2>2. /\ Append(mined[n], e) \in Seq(M \cup {e})
        /\ DOMAIN mined[n] = 1..Len(mined[n]) /\ Len(mined[n]) \in Nat
        /\ DOMAIN Append(mined[n], e) = 1..(Len(mined[n]) + 1)
        /\ \A k \in 1..Len(mined[n]) : Append(mined[n], e)[k] = mined[n][k]
        /\ Append(mined[n], e)[Len(mined[n]) + 1] = e
    BY <2>1, AppendProperties, LenProperties
  <2>3. mined'[n] = Append(mined[n], e)
    BY <1>1, <1>4
  <2>4. \A k \in 1..(Len(mined[n]) + 1) : k \in 1..Len(mined[n]) \/ k = Len(mined[n]) + 1
    BY <2>2
  <2> QED
    BY <2>2, <2>3, <2>4
<1>6. Owned(n)'
  <2>1. ASSUME NEW k \in DOMAIN mined'[n]
        PROVE  /\ mined'[n][k].hash.from = n
               /\ mined'[n][k].hash.polls \in Seq(Listed)
               /\ Len(mined'[n][k].hash.polls) = mined'[n][k].polls.len
    <3>1. CASE k \in DOMAIN mined[n]
      BY <1>5, <3>1 DEF LedgerOf, Owned
    <3>2. CASE mined'[n][k] = e
      BY <1>2, <1>3, <3>2
    <3> QED
      BY <1>5, <3>1, <3>2
  <2> QED
    BY <2>1 DEF Owned
<1>7. bpc'[n] # "wait" => Checked(n, block[n])'
  BY <1>1, <1>5 DEF LedgerOf, Checked
<1>8. AllBooked(n)'
  BY <1>1 DEF LedgerOf, AllBooked, Added
<1> QED
  BY <1>1, <1>6, <1>7, <1>8 DEF LedgerOf, PollsValid, NextPollID, Added

\* A valid block is as it was hashed, and a decoded one has the next IDs.
LEMMA ValidChecked ==
  ASSUME WireInv, NEW n \in Node, LedgerOf(n), NEW b, HashesValid(n, b),
         \/ b \in sentBlocks /\ b.from # n
         \/ \E k \in DOMAIN mined[n] : b = OwnBlock(n, k)
  PROVE  Checked(n, b)
PROOF
<1>1. CASE b \in sentBlocks /\ b.from # n
  <2>1. b.hash = Header(b.from, b, b.polls) /\ b.polls \in Seq(Listed)
    BY <1>1 DEF HashesValid, BlockPolls, IsOwn, WireInv
  <2>2. b.hash.from = b.from /\ b.hash.polls = b.polls
    BY <2>1 DEF Header
  <2> QED
    BY <1>1, <2>1, <2>2 DEF Checked
<1>2. ASSUME NEW k \in DOMAIN mined[n], b = OwnBlock(n, k)
      PROVE  Checked(n, b)
  <2>1. b.from = n /\ b.num = k /\ b.hash = mined[n][k].hash
    BY <1>2 DEF OwnBlock
  <2> QED
    BY <2>1 DEF LedgerOf, Owned, Checked
<1> QED
  BY <1>1, <1>2

\* listenBlocks takes a block after these checks.
LEMMA HandleBlockBooked ==
  ASSUME Shaped, WireInv, NEW n \in Node, LedgerOf(n), NEW b, HandleBlock(n, b),
         \/ b \in sentBlocks /\ b.from # n
         \/ \E k \in DOMAIN mined[n] : b = OwnBlock(n, k)
  PROVE  LedgerOf(n)'
PROOF
<1>1. UNCHANGED <<mined, chain, ledger>> /\ bpc[n] = "wait"
  BY DEF HandleBlock, mineVars
<1>2. CASE UNCHANGED <<bpc, block>>
  BY <1>1, <1>2, LedgerElsewhere
<1>3. ASSUME NEW at \in {"stop", "append"}, HashesValid(n, b),
             b.from # n => PollsValid(n, b.polls),
             bpc' = [bpc EXCEPT ![n] = at], block' = [block EXCEPT ![n] = b]
      PROVE  LedgerOf(n)'
  <2>1. Checked(n, b)
    BY <1>3, ValidChecked
  <2>2. bpc'[n] = at /\ block'[n] = b
    BY <1>3 DEF Shaped
  <2>3. Checked(n, block[n])'
    BY <1>1, <2>1, <2>2 DEF Checked
  <2>4. AllBooked(n)'
    BY <1>1, <2>2 DEF LedgerOf, AllBooked, Added
  <2>5. block'[n].from # n => PollsValid(n, block[n].polls)'
    BY <1>1, <1>3, <2>2 DEF PollsValid, NextPollID
  <2> QED
    BY <1>1, <2>2, <2>3, <2>4, <2>5 DEF LedgerOf, Owned
<1>4. \/ UNCHANGED <<bpc, block>>
      \/ \E at \in {"stop", "append"} :
           /\ HashesValid(n, b) /\ (b.from # n => PollsValid(n, b.polls))
           /\ bpc' = [bpc EXCEPT ![n] = at] /\ block' = [block EXCEPT ![n] = b]
  BY DEF HandleBlock, IsOwn
<1> QED
  BY <1>2, <1>3, <1>4

\* The channel stopMining has no part in it.
LEMMA StopBooked ==
  ASSUME Shaped, NEW n \in Node, LedgerOf(n), StopMining(n)
  PROVE  LedgerOf(n)'
PROOF
<1>1. UNCHANGED <<mined, chain, ledger, block>> /\ bpc[n] = "stop" /\ bpc'[n] = "append"
  BY DEF StopMining, Shaped, mineVars, chainVars
<1> QED
  BY <1>1 DEF LedgerOf, Owned, Checked, PollsValid, NextPollID, AllBooked, Added

\* A block on the chain is not yet in the ledger.
LEMMA AppendBooked ==
  ASSUME Shaped, ChainInv, NEW n \in Node, LedgerOf(n), AppendBlock(n)
  PROVE  LedgerOf(n)'
PROOF
<1> DEFINE e == NewEntry(n)
<1>1. /\ UNCHANGED <<mined, ledger, block>> /\ bpc[n] = "append" /\ bpc'[n] = "add"
      /\ chain' = [chain EXCEPT ![n] = Append(chain[n], e)] /\ e.hash = block[n].hash
  BY DEF AppendBlock, NewEntry, Shaped, mineVars
<1> HIDE DEF e
<1>2. PICK S : chain \in [Node -> Seq(S)]
  BY DEF Shaped
<1>3. /\ Len(chain[n]) \in Nat \ {0} /\ Len(chain'[n]) = Len(chain[n]) + 1
      /\ \A i \in 1..Len(chain[n]) : chain'[n][i] = chain[n][i]
      /\ chain'[n][Len(chain[n]) + 1] = e
  <2>1. chain[n] \in Seq(S \cup {e}) /\ chain'[n] = Append(chain[n], e)
    BY <1>1, <1>2
  <2> QED
    BY <2>1, AppendProperties DEF ChainInv
<1>4. Added(n)' = Added(n) /\ Added(n) = Len(chain[n])
  BY <1>1, <1>3 DEF Added
<1>5. AllBooked(n)'
  <2>1. PICK k : k = Added(n) /\ k = Added(n)' /\ k = Len(chain[n])
    BY <1>4
  <2>2. PICK end : Booked(n, chain[n], ledger[n], k, end)
    BY <2>1 DEF LedgerOf, AllBooked
  <2>3. Booked(n, chain'[n], ledger[n], k, end)
    <3>1. \A i \in 1..k : chain'[n][i] = chain[n][i]
      BY <1>3, <2>1
    <3>2. Ends(chain'[n], k, end)
      BY <2>2, <3>1 DEF Booked, Ends
    <3>3. \A i \in 2..k : Confirmed(n, ledger[n], chain'[n][i], end[i - 1])
      <4>1. \A i \in 2..k : i \in 1..k
        BY <1>3, <2>1
      <4> QED
        BY <2>2, <3>1, <4>1 DEF Booked
    <3> QED
      BY <2>2, <3>2, <3>3 DEF Booked
  <2> QED
    BY <1>1, <2>1, <2>3 DEF AllBooked
<1>6. \A i \in 2..Len(chain'[n]) : chain'[n][i].hash.polls \in Seq(Listed)
  <2>1. \A i \in 2..(Len(chain[n]) + 1) : i \in 2..Len(chain[n]) \/ i = Len(chain[n]) + 1
    BY <1>3
  <2> QED
    BY <1>1, <1>3, <2>1 DEF LedgerOf, Checked
<1>7. Checked(n, block[n])' /\ Owned(n)'
  BY <1>1 DEF LedgerOf, Checked, Owned
<1>8. block'[n].from # n => PollsValid(n, block[n].polls)'
  BY <1>1 DEF LedgerOf, PollsValid, NextPollID
<1>9. Len(chain'[n]) > 1 /\ chain'[n][Len(chain'[n])].hash = block'[n].hash
  BY <1>1, <1>3
<1> QED
  BY <1>1, <1>5, <1>6, <1>7, <1>8, <1>9 DEF LedgerOf

\* What is where in two sequences, one after the other.
LEMMA InConcat ==
  ASSUME NEW E, NEW l \in Seq(E), NEW more \in Seq(E)
  PROVE  /\ Len(l) \in Nat /\ Len(more) \in Nat
         /\ Len(l \o more) = Len(l) + Len(more)
         /\ \A i \in 1..Len(l) : (l \o more)[i] = l[i]
         /\ \A j \in 1..Len(more) : (l \o more)[Len(l) + j] = more[j]
PROOF
<1>1. Len(l) \in Nat /\ Len(more) \in Nat
  BY LenProperties
<1>2. /\ Len(l \o more) = Len(l) + Len(more)
      /\ \A i \in 1..(Len(l) + Len(more)) :
           (l \o more)[i] = IF i <= Len(l) THEN l[i] ELSE more[i - Len(l)]
  BY ConcatProperties
<1>3. \A i \in 1..Len(l) : (l \o more)[i] = l[i]
  BY <1>1, <1>2
<1>4. ASSUME NEW j \in 1..Len(more) PROVE (l \o more)[Len(l) + j] = more[j]
  <2>1. /\ Len(l) + j \in 1..(Len(l) + Len(more)) /\ ~(Len(l) + j <= Len(l))
        /\ (Len(l) + j) - Len(l) = j
    BY <1>1
  <2> QED
    BY <1>2, <2>1
<1> QED
  BY <1>1, <1>2, <1>3, <1>4

\* One more block is booked: its polls follow those of the blocks before.
LEMMA OneMoreBooked ==
  ASSUME NEW n, NEW c, NEW k \in Nat \ {0}, NEW E, NEW l \in Seq(E), NEW more \in Seq(E),
         \A i \in 2..(k + 1) : c[i].hash.polls \in Seq(Listed),
         NEW end, Booked(n, c, l, k, end),
         Len(more) = Len(c[k + 1].hash.polls),
         Confirmed(n, l \o more, c[k + 1], Len(l))
  PROVE  \E g : Booked(n, c, l \o more, k + 1, g)
PROOF
<1> DEFINE size(i) == Len(c[i].hash.polls)
           g == [i \in 1..(k + 1) |-> IF i = k + 1 THEN end[k] + size(k + 1) ELSE end[i]]
<1>0. PICK all : all = l \o more
  OBVIOUS
<1>1. /\ Len(l) \in Nat /\ Len(more) \in Nat /\ Len(all) = Len(l) + Len(more)
      /\ \A i \in 1..Len(l) : all[i] = l[i]
  BY <1>0, InConcat
<1>2. \A i \in 2..(k + 1) : size(i) \in Nat /\ DOMAIN c[i].hash.polls = 1..size(i)
  BY LenProperties
<1>3. /\ end = [i \in 1..k |-> IF i = 1 THEN 0 ELSE end[i - 1] + size(i)]
      /\ \A i \in 1..k : end[i] \in 0..Len(l)
      /\ end[k] = Len(l)
      /\ \A i \in 2..k : Confirmed(n, l, c[i], end[i - 1])
  BY DEF Booked, Ends
<1>4. /\ \A i \in 1..k : g[i] = end[i]
      /\ g[k + 1] = end[k] + size(k + 1)
      /\ \A i \in 1..(k + 1) : i \in 1..k \/ i = k + 1
      /\ \A i \in 2..(k + 1) : i - 1 \in 1..k /\ (i \in 2..k \/ i = k + 1)
  OBVIOUS
<1> HIDE DEF size
<1>5. \A i \in 1..k : end[i] = IF i = 1 THEN 0 ELSE end[i - 1] + size(i)
  BY <1>3
<1>6. g = [i \in 1..(k + 1) |-> IF i = 1 THEN 0 ELSE g[i - 1] + size(i)]
  <2>1. ASSUME NEW i \in 1..(k + 1)
        PROVE  g[i] = IF i = 1 THEN 0 ELSE g[i - 1] + size(i)
    <3>1. CASE i = k + 1
      <4>1. i # 1 /\ i - 1 = k /\ k \in 1..k
        BY <3>1
      <4> HIDE DEF g
      <4> QED
        BY <1>4, <3>1, <4>1
    <3>2. CASE i \in 1..k
      <4>1. i = 1 \/ i - 1 \in 1..k
        BY <3>2
      <4> HIDE DEF g
      <4> QED
        BY <1>4, <1>5, <3>2, <4>1
    <3> QED
      BY <1>4, <3>1, <3>2
  <2> QED
    BY <2>1
<1> HIDE DEF g
<1>7. \A i \in 1..(k + 1) : g[i] \in 0..Len(all)
  <2>1. end[k] \in 0..Len(l) /\ k + 1 \in 2..(k + 1) /\ size(k + 1) = Len(more)
    BY <1>3 DEF size
  <2>2. g[k + 1] \in 0..Len(all)
    <3>1. g[k + 1] = Len(l) + Len(more)
      BY <1>3, <1>4, <2>1
    <3> QED
      BY <1>1, <3>1
  <2>3. ASSUME NEW i \in 1..k PROVE g[i] \in 0..Len(all)
    <3>1. g[i] = end[i] /\ end[i] \in 0..Len(l)
      BY <1>3, <1>4
    <3> QED
      BY <1>1, <3>1
  <2> QED
    BY <1>4, <2>2, <2>3
<1>8. g[k + 1] = Len(all)
  BY <1>1, <1>3, <1>4 DEF size
<1>9. ASSUME NEW i \in 2..(k + 1)
      PROVE  Confirmed(n, all, c[i], g[i - 1])
  <2>1. CASE i = k + 1
    <3>1. i - 1 = k /\ g[k] = Len(l)
      BY <1>3, <1>4, <2>1
    <3> QED
      BY <1>0, <2>1, <3>1
  <2>2. CASE i \in 2..k
    <3>1. /\ Confirmed(n, l, c[i], end[i - 1]) /\ g[i - 1] = end[i - 1]
          /\ end[i] = end[i - 1] + size(i) /\ end[i] \in 0..Len(l) /\ end[i - 1] \in 0..Len(l)
      <4>1. i \in 1..k /\ i # 1 /\ i - 1 \in 1..k
        BY <2>2
      <4> QED
        BY <1>3, <1>4, <1>5, <2>2, <4>1
    <3>2. ASSUME NEW j \in DOMAIN c[i].hash.polls PROVE end[i - 1] + j \in 1..Len(l)
      <4>1. j \in 1..size(i) /\ size(i) \in Nat
        BY <1>2, <2>2
      <4> QED
        BY <1>1, <3>1, <4>1
    <3>3. \A j \in DOMAIN c[i].hash.polls : all[end[i - 1] + j] = l[end[i - 1] + j]
      BY <1>1, <3>2
    <3> QED
      BY <3>1, <3>3 DEF Confirmed
  <2> QED
    BY <1>4, <2>1, <2>2
<1>10. Booked(n, c, l \o more, k + 1, g)
  BY <1>0, <1>6, <1>7, <1>8, <1>9 DEF Booked, Ends, size
<1> QED
  BY <1>10

\* addTransactions puts the polls of the block at hand in the ledger.
LEMMA AddBooked ==
  ASSUME Shaped, ChainInv, MemInv, BooksInv, NEW n \in Node, LedgerOf(n), AddTransactions(n)
  PROVE  LedgerOf(n)'
PROOF
<1> DEFINE b == block[n]
           ps == BlockPolls(n, b)
           more == [i \in DOMAIN ps |-> [poll |-> ps[i].poll, id |-> ps[i].id,
                                          shared |-> IsOwn(n, b)]]
           Entries == [poll : Poll, id : Nat, shared : BOOLEAN]
<1>1. /\ UNCHANGED <<mined, chain, block>> /\ bpc[n] = "add" /\ bpc'[n] = "remove"
      /\ ledger' = [ledger EXCEPT ![n] = ledger[n] \o more]
  BY DEF AddTransactions, Shaped, mineVars
<1>2. PICK k : k = Added(n)
  OBVIOUS
<1>3. /\ k \in Nat \ {0} /\ Len(chain[n]) = k + 1 /\ Added(n)' = k + 1
      /\ chain[n][k + 1].hash = b.hash /\ Checked(n, b)
      /\ b.from # n => PollsValid(n, b.polls)
  BY <1>1, <1>2 DEF Added, LedgerOf, ChainInv
<1>4. ps \in Seq(Listed) /\ DOMAIN ps = 1..Len(ps) /\ Len(ps) \in Nat
  <2>1. ps \in Seq(Listed)
    BY <1>1, BlockTyped DEF BooksInv
  <2> QED
    BY <2>1, LenProperties
<1>5. Len(ps) = Len(b.hash.polls) /\ DOMAIN b.hash.polls = 1..Len(ps)
  <2>1. CASE b.from = n
    <3>1. /\ HeapOK(heap[n]) /\ pollID[n] \in [Poll -> Nat]
          /\ SliceOf(heap[n], mined[n][b.num].polls, Poll)
      BY <1>3, <2>1 DEF Checked, MemInv, MemShaped, Pooled
    <3>2. ps = Named(n, mined[n][b.num].polls)
      BY <2>1 DEF BlockPolls, PollsSlice, IsOwn
    <3>3. Len(ps) = mined[n][b.num].polls.len
      BY <3>1, <3>2, NamedLong
    <3> QED
      BY <1>3, <2>1, <3>3, LenProperties DEF Checked
  <2>2. CASE b.from # n
    BY <1>3, <1>4, <2>2 DEF BlockPolls, IsOwn, Checked
  <2> QED
    BY <2>1, <2>2
<1>6. more \in Seq(Entries) /\ Len(more) = Len(ps)
  <2> HIDE DEF ps
  <2>1. \A i \in 1..Len(ps) : ps[i] \in Listed
    BY <1>4
  <2>2. IsOwn(n, b) \in BOOLEAN
    BY DEF IsOwn
  <2>3. \A i \in 1..Len(ps) :
          [poll |-> ps[i].poll, id |-> ps[i].id, shared |-> IsOwn(n, b)] \in Entries
    BY <2>1, <2>2 DEF Listed
  <2>4. more \in [1..Len(ps) -> Entries]
    BY <1>4, <2>3
  <2> QED
    BY <1>4, <2>4
<1>7. ledger[n] \in Seq(Entries) /\ ledger'[n] = ledger[n] \o more /\ Len(ledger[n]) \in Nat
  BY <1>1, LenProperties DEF BooksInv
<1>8. Confirmed(n, ledger[n] \o more, chain[n][k + 1], Len(ledger[n]))
  <2>1. \A j \in 1..Len(ps) :
          more[j] = [poll |-> ps[j].poll, id |-> ps[j].id, shared |-> (b.from = n)]
    BY <1>4 DEF IsOwn
  <2> HIDE DEF more, ps, b, Entries
  <2>2. PICK len, all : len = Len(ledger[n]) /\ all = ledger[n] \o more
    OBVIOUS
  <2>3. len \in Nat /\ \A j \in 1..Len(ps) : all[len + j] = more[j]
    BY <1>6, <1>7, <2>2, InConcat
  <2>4. DOMAIN b.hash.polls = 1..Len(ps) /\ chain[n][k + 1].hash = b.hash
    BY <1>3, <1>5
  <2>5. CASE b.from = n
    <3>1. b.hash.from = n
      BY <1>3, <2>5 DEF Checked
    <3>2. ASSUME NEW j \in 1..Len(ps) PROVE all[len + j].shared
      <4>1. PICK e : e = all[len + j]
        OBVIOUS
      <4>2. e = [poll |-> ps[j].poll, id |-> ps[j].id, shared |-> (b.from = n)]
        BY <2>1, <2>3, <4>1
      <4>3. e.shared
        BY <2>5, <4>2
      <4> QED
        BY <4>1, <4>3, Zenon
    <3>3. Confirmed(n, all, chain[n][k + 1], len)
      BY <2>4, <3>1, <3>2, Zenon DEF Confirmed
    <3> QED
      BY <2>2, <3>3
  <2>6. CASE b.from # n
    <3>1. b.hash.from # n /\ ps = b.hash.polls /\ ps = b.polls
      BY <1>3, <2>6 DEF Checked, IsOwn, BlockPolls, ps
    <3>2. \A j \in 1..Len(ps) : ps[j].id = len + j - 1 /\ ps[j].poll \notin Blank
      BY <1>3, <1>4, <2>2, <2>6, <3>1 DEF PollsValid, NextPollID
    <3>3. \A j \in 1..Len(ps) :
            /\ all[len + j] = [poll |-> b.hash.polls[j].poll, id |-> len + j - 1, shared |-> FALSE]
            /\ b.hash.polls[j].id = len + j - 1 /\ b.hash.polls[j].poll \notin Blank
      <4> TAKE j \in 1..Len(ps)
      <4>1. all[len + j] = [poll |-> ps[j].poll, id |-> ps[j].id, shared |-> (b.from = n)]
        BY <2>1, <2>3
      <4> QED
        BY <2>6, <3>1, <3>2, <4>1
    <3>4. Confirmed(n, all, chain[n][k + 1], len)
      <4>1. \A j \in 1..Len(ps) : len + j - 1 = (len + j) - 1
        BY <2>3
      <4> QED
        BY <2>4, <3>1, <3>3, <4>1, Zenon DEF Confirmed
    <3> QED
      BY <2>2, <3>4
  <2> QED
    BY <2>5, <2>6
<1>9. AllBooked(n)'
  <2> HIDE DEF more, ps, b, Entries
  <2>1. PICK end : Booked(n, chain[n], ledger[n], k, end)
    BY <1>2 DEF LedgerOf, AllBooked
  <2>2. Len(more) = Len(chain[n][k + 1].hash.polls)
    BY <1>3, <1>5, <1>6
  <2>3. \A i \in 2..(k + 1) : chain[n][i].hash.polls \in Seq(Listed)
    BY <1>3 DEF LedgerOf
  <2>4. \E g : Booked(n, chain[n], ledger[n] \o more, k + 1, g)
    BY <1>3, <1>6, <1>7, <1>8, <2>1, <2>2, <2>3, OneMoreBooked
  <2> QED
    BY <1>1, <1>3, <1>7, <2>4 DEF AllBooked
<1>10. Checked(n, block[n])' /\ Owned(n)'
  BY <1>1, <1>3 DEF LedgerOf, Checked, Owned
<1>11. \A i \in 2..Len(chain'[n]) : chain'[n][i].hash.polls \in Seq(Listed)
  BY <1>1 DEF LedgerOf
<1> QED
  BY <1>1, <1>9, <1>10, <1>11 DEF LedgerOf

\* After the pool was cleared of its polls the block is done with.
LEMMA RemoveBooked ==
  ASSUME Shaped, NEW n \in Node, LedgerOf(n), RemoveConfirmedTx(n)
  PROVE  LedgerOf(n)'
PROOF
<1>1. UNCHANGED <<mined, chain, ledger>> /\ bpc[n] = "remove" /\ bpc'[n] = "wait"
  BY DEF RemoveConfirmedTx, Shaped, mineVars, chainVars
<1> QED
  BY <1>1 DEF LedgerOf, Owned, AllBooked, Added

\* Every step keeps the ledgers in order: that of the node whose step it is, and the others.
LEMMA BookedStep ==
  ASSUME Shaped, ChainInv, MinerTypes, \A n \in Node : LedgerOf(n), [Next]_vars
  PROVE  \A n \in Node : LedgerOf(n)'
PROOF
<1>0. MemInv /\ WireInv /\ BooksInv
  BY DEF MinerTypes
<1>1. CASE UNCHANGED vars
  BY <1>1, LedgerElsewhere DEF vars, mineVars, blockVars, chainVars
<1>2. ASSUME NEW n \in Node, Step(n)
      PROVE  \A m \in Node : LedgerOf(m)'
  <2>1. CASE UNCHANGED <<mined, bpc, block, chain, ledger>>
    BY <2>1, LedgerElsewhere
  <2>2. CASE Publish(n)
    <3>1. /\ UNCHANGED <<bpc, block, chain, ledger>>
          /\ \E e : mined' = [mined EXCEPT ![n] = e]
      BY <2>2 DEF Publish, blockVars, chainVars
    <3>2. ASSUME NEW m \in Node, m # n PROVE LedgerOf(m)'
      BY <1>0, <3>1, <3>2, LedgerElsewhere DEF MemInv, MemShaped
    <3> QED
      BY <1>0, <2>2, <3>2, PublishOwned
  <2>3. ASSUME NEW b, HandleBlock(n, b),
               \/ b \in sentBlocks /\ b.from # n
               \/ \E k \in DOMAIN mined[n] : b = OwnBlock(n, k)
        PROVE  \A m \in Node : LedgerOf(m)'
    <3>1. /\ UNCHANGED <<mined, chain, ledger>>
          /\ \/ UNCHANGED <<bpc, block>>
             \/ /\ \E at : bpc' = [bpc EXCEPT ![n] = at]
                /\ block' = [block EXCEPT ![n] = b]
      BY <2>3 DEF HandleBlock, mineVars
    <3>2. ASSUME NEW m \in Node, m # n PROVE LedgerOf(m)'
      <4>1. bpc'[m] = bpc[m] /\ block'[m] = block[m]
        BY <3>1, <3>2 DEF Shaped
      <4> QED
        BY <3>1, <4>1, LedgerElsewhere
    <3>3. LedgerOf(n)'
      BY <1>0, <2>3, HandleBlockBooked
    <3> QED
      BY <3>2, <3>3
  <2>4. CASE StopMining(n) \/ AppendBlock(n) \/ AddTransactions(n) \/ RemoveConfirmedTx(n)
    <3>1. /\ UNCHANGED mined
          /\ \E at : bpc' = [bpc EXCEPT ![n] = at]
          /\ UNCHANGED block \/ \E e : block' = [block EXCEPT ![n] = e]
          /\ UNCHANGED chain \/ \E e : chain' = [chain EXCEPT ![n] = e]
          /\ UNCHANGED ledger \/ \E e : ledger' = [ledger EXCEPT ![n] = e]
      BY <2>4
      DEF StopMining, AppendBlock, AddTransactions, RemoveConfirmedTx, mineVars, chainVars
    <3>2. ASSUME NEW m \in Node, m # n PROVE LedgerOf(m)'
      <4>1. bpc'[m] = bpc[m] /\ block'[m] = block[m] /\ chain'[m] = chain[m]
        BY <3>1, <3>2 DEF Shaped
      <4>2. ledger'[m] = ledger[m]
        BY <1>0, <3>1, <3>2 DEF BooksInv
      <4> QED
        BY <3>1, <4>1, <4>2, LedgerElsewhere
    <3>3. LedgerOf(n)'
      BY <1>0, <2>4, StopBooked, AppendBooked, AddBooked, RemoveBooked
    <3> QED
      BY <3>2, <3>3
  <2>5. CASE \/ \E t \in sentTxs : AddTransaction(n, t)
             \/ ReadID(n) \/ ReadPrevHash(n) \/ CheckTransactionsCreate(n)
             \/ TakeStop(n) \/ NoStop(n) \/ WrongNonce(n)
    BY <2>1, <2>5
    DEF AddTransaction, ReadID, ReadPrevHash, CheckTransactionsCreate, TakeStop, NoStop,
        WrongNonce, blockVars, chainVars
  <2> QED
    BY <1>2, <2>2, <2>3, <2>4, <2>5 DEF Step
<1> QED
  BY <1>1, <1>2 DEF Next

\* There is one way to count where the polls of the blocks end.
LEMMA EndsOnce ==
  ASSUME NEW c, NEW k \in Nat, NEW e, NEW f, Ends(c, k, e), Ends(c, k, f)
  PROVE  e = f
PROOF
<1> DEFINE P == {i \in 0..k : i = 0 \/ e[i] = f[i]}
<1>1. ASSUME NEW i \in 1..k, i - 1 \in P
      PROVE  i \in P
  <2>1. CASE i = 1
    BY <2>1 DEF Ends
  <2>2. CASE i # 1
    <3>1. i - 1 # 0 /\ e[i - 1] = f[i - 1]
      BY <1>1, <2>2
    <3>2. e[i] = e[i - 1] + Len(c[i].hash.polls) /\ f[i] = f[i - 1] + Len(c[i].hash.polls)
      BY <2>2 DEF Ends
    <3> QED
      BY <3>1, <3>2
  <2> QED
    BY <2>1, <2>2
<1>2. 0..k \subseteq P
  <2>1. 0 \in P
    OBVIOUS
  <2> HIDE DEF P
  <2> QED
    BY <1>1, <2>1, UpTo
<1>3. \A i \in 1..k : e[i] = f[i]
  BY <1>2
<1> QED
  BY <1>3 DEF Ends

(***************************************************************************)
(* Whatever a miner does to the arrays that its blocks share with its      *)
(* pool, the polls that other nodes confirm are those the blocks were      *)
(* hashed with, in the order of the chain, each with its position as ID;   *)
(* and its own blocks confirm as many as they were hashed with.            *)
(***************************************************************************)
THEOREM ConfirmsWhatWasHashed == Spec => []ConfirmedAsHashed
PROOF
<1>1. Init => \A n \in Node : LedgerOf(n)
  BY LedgerInit
<1>2. Shaped /\ ChainInv /\ MinerTypes /\ [Next]_vars => MinerTypes'
  BY MemStep, WireStep, BooksStep DEF MinerTypes
<1>3. Shaped /\ ChainInv /\ MinerTypes /\ (\A n \in Node : LedgerOf(n)) /\ [Next]_vars =>
        (\A n \in Node : LedgerOf(n))'
  BY BookedStep
<1>4. ChainInv /\ (\A n \in Node : LedgerOf(n)) => ConfirmedAsHashed
  <2> SUFFICES ASSUME ChainInv, \A n \in Node : LedgerOf(n), NEW n \in Node
               PROVE
                 LET added == IF bpc[n] = "add" THEN Len(chain[n]) - 1 ELSE Len(chain[n])
                     end[i \in 1..added] ==
                       IF i = 1 THEN 0 ELSE end[i - 1] + Len(chain[n][i].hash.polls)
                 IN  /\ Len(ledger[n]) = end[added]
                     /\ \A i \in 2..added : \A k \in DOMAIN chain[n][i].hash.polls :
                          LET at == end[i - 1] + k
                              hashed == chain[n][i].hash.polls[k]
                          IN  IF chain[n][i].hash.from = n THEN ledger[n][at].shared
                              ELSE /\ ledger[n][at] = [poll |-> hashed.poll, id |-> at - 1,
                                                       shared |-> FALSE]
                                   /\ hashed.id = at - 1 /\ hashed.poll \notin Blank
    BY DEF ConfirmedAsHashed
  <2> DEFINE added == IF bpc[n] = "add" THEN Len(chain[n]) - 1 ELSE Len(chain[n])
             end == CHOOSE e : e = [i \in 1..added |->
                      IF i = 1 THEN 0 ELSE e[i - 1] + Len(chain[n][i].hash.polls)]
  <2>1. added = Added(n) /\ added \in Nat
    BY DEF Added, LedgerOf, ChainInv
  <2>2. PICK e : Booked(n, chain[n], ledger[n], added, e)
    BY <2>1 DEF LedgerOf, AllBooked
  <2>3. Ends(chain[n], added, e)
    BY <2>2 DEF Booked
  <2>4. Ends(chain[n], added, end)
    BY <2>3 DEF Ends
  <2> HIDE DEF end
  <2>5. end = e
    BY <2>1, <2>3, <2>4, EndsOnce
  <2>6. Len(ledger[n]) = end[added]
    BY <2>2, <2>5 DEF Booked
  <2>7. \A i \in 2..added : Confirmed(n, ledger[n], chain[n][i], end[i - 1])
    BY <2>2, <2>5 DEF Booked
  <2> QED
    BY <2>6, <2>7, Zenon DEF Confirmed, end
<1> QED
  BY <1>1, <1>2, <1>3, <1>4, MinerTypesInit, ChainInvariant, PTL DEF Spec
=============================================================================
