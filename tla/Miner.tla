-------------------------------- MODULE Miner --------------------------------
(***************************************************************************)
(* The miners of all nodes (project/blockchain): on each node one          *)
(* goroutine (listenTransactions) collects transactions in the pool and    *)
(* mines blocks from it, another one (listenBlocks) puts the blocks that   *)
(* the rumorer delivers on the chain.  They share the Blockchain without a *)
(* common lock, and the rumorer delivers, to each node once and in any     *)
(* order, what every node publishes.                                       *)
(*                                                                         *)
(* What a node publishes it publishes by reference: the rumorer encodes a  *)
(* block or a transaction again whenever it sends it, with what the pool   *)
(* has made of it by then.  So every state that a published block or a     *)
(* poll goes through is one in which other nodes may get it.               *)
(*                                                                         *)
(* Transactions are polls and registrations.  Votes are left out because   *)
(* VoteRumorer.createEncryptedVote never creates one, and results because  *)
(* no miner ever counts, checks or removes them.  A poll stands for its    *)
(* (Origin, Id) and a registration for its Origin, which is all that the   *)
(* miners compare.  A hash is the contents that were hashed.               *)
(***************************************************************************)
EXTENDS TxPool, FiniteSets, SequencesExt

CONSTANTS
  Node,     \* the nodes
  Poll,     \* the poll transactions that users create
  Reg,      \* the registrations that users create
  Creator,  \* Creator[tx]: the node whose user creates transaction tx
  Reaches,  \* Reaches[n]: the transactions that get to n; others stay on their way
  Blank,    \* the polls whose question is empty
  StopCap   \* the capacity of the channel stopMining (10)

Tx == Poll \cup Reg

ASSUME MinerAssumption ==
  /\ Poll \cap Reg = {}
  /\ NoTx \notin Tx
  /\ Creator \in [Tx -> Node]
  /\ Reaches \in [Node -> SUBSET Tx]
  /\ Blank \subseteq Poll
  /\ StopCap \in Nat \ {0}

VARIABLES
  heap,      \* heap[n]: the arrays of transactions in the memory of n
  polls,     \* polls[n]: the slice unconfirmedTransactions.Polls
  regs,      \* regs[n]: the slice unconfirmedTransactions.Registers
  pollID,    \* pollID[n][p]: PollTx.ID of p in the memory of n
  heard,     \* heard[n]: the transactions that reached the miner of n
  tpc,       \* tpc[n]: where listenTransactions is
  newBlock,  \* newBlock[n]: the block generateBlock is making
  mined,     \* mined[n]: the blocks n published, in its memory
  stopMining,\* stopMining[n]: the channel stopMining
  blocksSeen,\* blocksSeen[n]: the blocks that reached the miner of n
  bpc,       \* bpc[n]: where listenBlocks is
  block,     \* block[n]: the block listenBlocks works on
  fork,      \* fork[n]: miner.fork of listenBlocks
  chain,     \* chain[n]: the headers of blockchain.Blocks
  ledger,    \* ledger[n]: blockchain.Polls
  registry,  \* registry[n]: blockchain.Registry
  sentTxs,   \* the transactions as the rumorers may have encoded them
  sentBlocks \* the blocks as the rumorers may have encoded them

txVars == <<polls, regs, heard>>
mineVars == <<tpc, newBlock, mined>>
blockVars == <<blocksSeen, bpc, block>>
chainVars == <<fork, chain, ledger, registry>>
wire == <<sentTxs, sentBlocks>>
vars == <<heap, pollID, stopMining, wire, txVars, mineVars, blockVars, chainVars>>
-----------------------------------------------------------------------------
\* The genesis block is the same everywhere.
GenesisHash == [id |-> 0]
Genesis == [id |-> 0, prev |-> GenesisHash, hash |-> GenesisHash]

\* newBlock and block of a goroutine that works on none.
NoNewBlock == [id |-> 0, prev |-> GenesisHash, polls |-> NilSlice, regs |-> NilSlice]
NoBlock == [from |-> CHOOSE n \in Node : TRUE, num |-> 0, id |-> 0, prev |-> GenesisHash,
            hash |-> GenesisHash, polls |-> <<>>, regs |-> <<>>]

LastHash(n) == chain[n][Len(chain[n])].hash
NextPollID(n) == Len(ledger[n])

\* The polls of slice s as Transactions.ToString puts them in the hash.
Named(n, s) == LET ps == Elements(heap[n], s)
               IN  [i \in DOMAIN ps |-> [poll |-> ps[i], id |-> pollID[n][ps[i]]]]

Init ==
  /\ heap = [n \in Node |-> <<>>]
  /\ polls = [n \in Node |-> NilSlice]
  /\ regs = [n \in Node |-> NilSlice]
  /\ pollID = [n \in Node |-> [p \in Poll |-> 0]]
  /\ heard = [n \in Node |-> {}]
  /\ tpc = [n \in Node |-> "wait"]
  /\ newBlock = [n \in Node |-> NoNewBlock]
  /\ mined = [n \in Node |-> <<>>]
  /\ stopMining = [n \in Node |-> <<>>]
  /\ blocksSeen = [n \in Node |-> {}]
  /\ bpc = [n \in Node |-> "wait"]
  /\ block = [n \in Node |-> NoBlock]
  /\ fork = [n \in Node |-> FALSE]
  /\ chain = [n \in Node |-> <<Genesis>>]
  /\ ledger = [n \in Node |-> <<>>]
  /\ registry = [n \in Node |-> <<>>]
  /\ sentTxs = {[tx |-> t, id |-> 0] : t \in Tx}
  /\ sentBlocks = {}
-----------------------------------------------------------------------------
(***************************************************************************)
(* The rumorer of n may encode the polls and the blocks of n as they are.  *)
(***************************************************************************)
OwnPolls(n) == {[tx |-> p, id |-> pollID[n][p]] : p \in heard[n] \cap Poll}
OwnBlocks(n) ==
  {[from |-> n, num |-> k, id |-> mined[n][k].id, prev |-> mined[n][k].prev,
    hash |-> mined[n][k].hash, polls |-> Named(n, mined[n][k].polls),
    regs |-> Elements(heap[n], mined[n][k].regs)] : k \in DOMAIN mined[n]}

Encode(n) == /\ sentTxs' = sentTxs \cup OwnPolls(n)'
             /\ sentBlocks' = sentBlocks \cup OwnBlocks(n)'
-----------------------------------------------------------------------------
(***************************************************************************)
(* listenTransactions.  A node has its own poll in memory; everybody else  *)
(* decodes it, with the ID it has when it is sent.                         *)
(***************************************************************************)
AddTransaction(n, m) ==
  LET t == m.tx
      a == Appended(heap[n], IF t \in Poll THEN polls[n] ELSE regs[n], t)
  IN
  /\ tpc[n] = "wait"
  /\ t \in Reaches[n] \ heard[n]
  /\ Creator[t] = n => m.id = 0
  /\ heard' = [heard EXCEPT ![n] = @ \cup {t}]
  /\ heap' = [heap EXCEPT ![n] = a.heap]
  /\ IF t \in Poll
       THEN /\ polls' = [polls EXCEPT ![n] = a.slice]
            /\ pollID' = [pollID EXCEPT ![n][t] = m.id]
            /\ UNCHANGED regs
       ELSE /\ regs' = [regs EXCEPT ![n] = a.slice]
            /\ UNCHANGED <<polls, pollID>>
  /\ tpc' = [tpc EXCEPT ![n] =
               IF polls'[n].len + regs'[n].len > 1 THEN "id" ELSE "wait"]
  /\ UNCHANGED <<newBlock, mined, stopMining, blockVars, chainVars>>
  /\ Encode(n)

\* generateBlock reads the length of the chain, and then its last block.
ReadID(n) ==
  /\ tpc[n] = "id"
  /\ newBlock' = [newBlock EXCEPT ![n].id = Len(chain[n])]
  /\ tpc' = [tpc EXCEPT ![n] = "prev"]
  /\ UNCHANGED <<heap, pollID, mined, stopMining, wire, txVars, blockVars, chainVars>>

ReadPrevHash(n) ==
  /\ tpc[n] = "prev"
  /\ newBlock' = [newBlock EXCEPT ![n].prev = LastHash(n)]
  /\ tpc' = [tpc EXCEPT ![n] = "fill"]
  /\ UNCHANGED <<heap, pollID, mined, stopMining, wire, txVars, blockVars, chainVars>>

\* checkTransactionsCreate: the block gets slices of the arrays of the pool.
CheckTransactionsCreate(n) ==
  LET c == CheckedPolls(heap[n], polls[n], pollID[n], NextPollID(n), Blank, TRUE) IN
  /\ tpc[n] = "fill"
  /\ heap' = [heap EXCEPT ![n] = c.heap]
  /\ pollID' = [pollID EXCEPT ![n] = c.pollID]
  /\ newBlock' = [newBlock EXCEPT ![n].polls = c.slice, ![n].regs = regs[n]]
  /\ tpc' = [tpc EXCEPT ![n] = "mine"]
  /\ UNCHANGED <<mined, stopMining, txVars, blockVars, chainVars>>
  /\ Encode(n)

\* mine: the inner loop takes one entry, or finds none.
Stopped(n) == Head(stopMining[n]) >= newBlock[n].id

TakeStop(n) ==
  /\ tpc[n] = "mine"
  /\ stopMining[n] # <<>>
  /\ stopMining' = [stopMining EXCEPT ![n] = Tail(@)]
  /\ IF Stopped(n)
       THEN /\ tpc' = [tpc EXCEPT ![n] = "wait"]
            /\ newBlock' = [newBlock EXCEPT ![n] = NoNewBlock]
       ELSE UNCHANGED <<tpc, newBlock>>
  /\ UNCHANGED <<heap, pollID, mined, wire, txVars, blockVars, chainVars>>

NoStop(n) ==
  /\ tpc[n] = "mine"
  /\ stopMining[n] = <<>>
  /\ tpc' = [tpc EXCEPT ![n] = "hash"]
  /\ UNCHANGED <<heap, pollID, newBlock, mined, stopMining, wire, txVars, blockVars, chainVars>>

WrongNonce(n) ==
  /\ tpc[n] = "hash"
  /\ tpc' = [tpc EXCEPT ![n] = "mine"]
  /\ UNCHANGED <<heap, pollID, newBlock, mined, stopMining, wire, txVars, blockVars, chainVars>>

\* What calculateHash hashes of a block: not its registrations.
Header(n, b, named) == [from |-> n, id |-> b.id, prev |-> b.prev, polls |-> named]

\* The right nonce: the block gets its hash and goes to the rumorer.
Publish(n) ==
  LET b == newBlock[n] IN
  /\ tpc[n] = "hash"
  /\ mined' = [mined EXCEPT ![n] = Append(@,
       [id |-> b.id, prev |-> b.prev, hash |-> Header(n, b, Named(n, b.polls)),
        polls |-> b.polls, regs |-> b.regs])]
  /\ tpc' = [tpc EXCEPT ![n] = "wait"]
  /\ newBlock' = [newBlock EXCEPT ![n] = NoNewBlock]
  /\ UNCHANGED <<heap, pollID, stopMining, txVars, blockVars, chainVars>>
  /\ Encode(n)
-----------------------------------------------------------------------------
(***************************************************************************)
(* listenBlocks.  The block at hand is one of the node's own, whose        *)
(* contents are in the arrays it shares with the pool, or a decoded copy.  *)
(***************************************************************************)
IsOwn(n, b) == b.from = n

PollsSlice(n, b) == IF IsOwn(n, b) THEN mined[n][b.num].polls ELSE NilSlice
RegsSlice(n, b) == IF IsOwn(n, b) THEN mined[n][b.num].regs ELSE NilSlice
BlockPolls(n, b) == IF IsOwn(n, b) THEN Named(n, PollsSlice(n, b)) ELSE b.polls
BlockRegs(n, b) == IF IsOwn(n, b) THEN Elements(heap[n], RegsSlice(n, b)) ELSE b.regs

\* pollValid for the polls of a decoded block (and a variant without the IDs).
PollsWithAnyID(n, ps) == \A i \in DOMAIN ps : ps[i].poll \notin Blank
PollsValid(n, ps) == \A i \in DOMAIN ps : /\ ps[i].id = NextPollID(n) + i - 1
                                         /\ ps[i].poll \notin Blank

\* hashesValid.
HashesValid(n, b) == b.hash = Header(b.from, b, BlockPolls(n, b))

\* Variants of what follows, without one of the two comparisons.
UnlinkedNext(n, b) == b.id = Len(chain[n])
UnnumberedNext(n, b) == b.prev = LastHash(n)

\* The block is the next one, or (its ID and its PrevHash were read at two
\* moments) one with the ID of the last block and the last block's hash.
IsNext(n, b) == b.id = Len(chain[n]) /\ b.prev = LastHash(n)
IsFork(n, b) == ~fork[n] /\ b.id = Len(chain[n]) - 1 /\ b.prev = LastHash(n)

\* validBlock and the choice of listenBlocks (or handleFork) on block b.
\* Checking the polls of a block of its own moves them in the shared array.
\* After a fork handleFork takes the next block only: forkedBlockchain is the
\* same Blockchain as blockchain, and its other branches set copies of fields.
HandleBlock(n, b) ==
  LET valid == HashesValid(n, b)
      check == CheckedPolls(heap[n], PollsSlice(n, b), pollID[n], NextPollID(n), Blank, FALSE)
      ok == IF IsOwn(n, b) THEN check.ok ELSE PollsValid(n, b.polls)
  IN
  /\ bpc[n] = "wait"
  /\ <<b.from, b.num>> \notin blocksSeen[n]
  /\ blocksSeen' = [blocksSeen EXCEPT ![n] = @ \cup {<<b.from, b.num>>}]
  /\ heap' = [heap EXCEPT ![n] = IF valid /\ IsOwn(n, b) THEN check.heap ELSE @]
  /\ \/ /\ valid /\ ok /\ IsNext(n, b)
        /\ bpc' = [bpc EXCEPT ![n] = "stop"]
        /\ block' = [block EXCEPT ![n] = b]
        /\ UNCHANGED fork
     \/ /\ valid /\ ok /\ IsFork(n, b)
        /\ fork' = [fork EXCEPT ![n] = TRUE]
        /\ bpc' = [bpc EXCEPT ![n] = "append"]
        /\ block' = [block EXCEPT ![n] = b]
     \/ /\ ~(valid /\ ok /\ (IsNext(n, b) \/ IsFork(n, b)))
        /\ UNCHANGED <<bpc, block, fork>>
  /\ UNCHANGED <<pollID, stopMining, txVars, mineVars, chain, ledger, registry>>
  /\ Encode(n)

OwnBlock(n, k) ==
  [from |-> n, num |-> k, id |-> mined[n][k].id, prev |-> mined[n][k].prev,
   hash |-> mined[n][k].hash, polls |-> <<>>, regs |-> <<>>]

StopMining(n) ==
  /\ bpc[n] = "stop"
  /\ Len(stopMining[n]) < StopCap
  /\ stopMining' = [stopMining EXCEPT ![n] = Append(@, block[n].id)]
  /\ bpc' = [bpc EXCEPT ![n] = "append"]
  /\ UNCHANGED <<heap, pollID, wire, txVars, mineVars, blocksSeen, block, chainVars>>

AppendBlock(n) ==
  /\ bpc[n] = "append"
  /\ chain' = [chain EXCEPT ![n] = Append(@,
       [id |-> block[n].id, prev |-> block[n].prev, hash |-> block[n].hash])]
  /\ bpc' = [bpc EXCEPT ![n] = "add"]
  /\ UNCHANGED <<heap, pollID, stopMining, wire, txVars, mineVars, blocksSeen, block,
                 fork, ledger, registry>>

\* An entry of Polls is the node's own PollTx, whose ID may still change, when
\* the block is its own.
AddTransactions(n) ==
  /\ bpc[n] = "add"
  /\ ledger' = [ledger EXCEPT ![n] = @ \o
       LET ps == BlockPolls(n, block[n])
       IN  [i \in DOMAIN ps |-> [poll |-> ps[i].poll, id |-> ps[i].id,
                                 shared |-> IsOwn(n, block[n])]]]
  /\ registry' = [registry EXCEPT ![n] = @ \o BlockRegs(n, block[n])]
  /\ bpc' = [bpc EXCEPT ![n] = "remove"]
  /\ UNCHANGED <<heap, pollID, stopMining, wire, txVars, mineVars, blocksSeen, block,
                 fork, chain>>

RemoveConfirmedTx(n) ==
  LET b == block[n]
      names == [i \in DOMAIN BlockPolls(n, b) |-> BlockPolls(n, b)[i].poll]
      p == WithoutConfirmed(heap[n], polls[n], PollsSlice(n, b), names)
      r == WithoutConfirmed(p.heap, regs[n], RegsSlice(n, b), BlockRegs(n, b))
  IN
  /\ bpc[n] = "remove"
  /\ heap' = [heap EXCEPT ![n] = r.heap]
  /\ polls' = [polls EXCEPT ![n] = p.slice]
  /\ regs' = [regs EXCEPT ![n] = r.slice]
  /\ bpc' = [bpc EXCEPT ![n] = "wait"]
  /\ block' = [block EXCEPT ![n] = NoBlock]
  /\ UNCHANGED <<pollID, stopMining, heard, mineVars, blocksSeen, chainVars>>
  /\ Encode(n)

Step(n) ==
  \/ \E m \in sentTxs : AddTransaction(n, m)
  \/ ReadID(n) \/ ReadPrevHash(n) \/ CheckTransactionsCreate(n)
  \/ TakeStop(n) \/ NoStop(n) \/ WrongNonce(n) \/ Publish(n)
  \/ \E b \in sentBlocks : b.from # n /\ HandleBlock(n, b)
  \/ \E k \in DOMAIN mined[n] : HandleBlock(n, OwnBlock(n, k))
  \/ StopMining(n) \/ AppendBlock(n) \/ AddTransactions(n) \/ RemoveConfirmedTx(n)

Next == \E n \in Node : Step(n)

Spec == Init /\ [][Next]_vars
-----------------------------------------------------------------------------
(***************************************************************************)
(* Types; and no slice reaches beyond what was written in its array.       *)
(***************************************************************************)
SliceOK(n, s, T) == /\ s.arr \in 0..Len(heap[n])
                    /\ s.len \in 0..Capacity(heap[n], s)
                    /\ Range(Elements(heap[n], s)) \subseteq T

TypeOK ==
  \A n \in Node :
    /\ \A a \in DOMAIN heap[n] : heap[n][a] \in Seq(Tx \cup {NoTx})
    /\ SliceOK(n, polls[n], Poll) /\ SliceOK(n, regs[n], Reg)
    /\ SliceOK(n, newBlock[n].polls, Poll) /\ SliceOK(n, newBlock[n].regs, Reg)
    /\ \A k \in DOMAIN mined[n] : SliceOK(n, mined[n][k].polls, Poll)
                                 /\ SliceOK(n, mined[n][k].regs, Reg)
    /\ pollID[n] \in [Poll -> Nat]
    /\ heard[n] \subseteq Reaches[n]
    /\ tpc[n] \in {"wait", "id", "prev", "fill", "mine", "hash"}
    /\ bpc[n] \in {"wait", "stop", "append", "add", "remove"}
    /\ stopMining[n] \in Seq(Nat) /\ Len(stopMining[n]) <= StopCap
    /\ Range(registry[n]) \subseteq Reg
    /\ \A k \in DOMAIN ledger[n] : ledger[n][k].poll \in Poll

(***************************************************************************)
(* Whatever is on a chain follows the block before it, even after a race   *)
(* between the two goroutines made a miner publish an ID and a PrevHash    *)
(* that do not belong together.                                            *)
(***************************************************************************)
ChainLinked ==
  \A n \in Node : \A i \in 2..Len(chain[n]) : chain[n][i].prev = chain[n][i - 1].hash

(***************************************************************************)
(* The ID of a block is its position, but for one block at most: the one   *)
(* listenBlocks took for a fork.                                           *)
(***************************************************************************)
NumberedOnce ==
  \A n \in Node :
    LET odd == {i \in DOMAIN chain[n] : chain[n][i].id # i - 1}
    IN  /\ \A i \in odd : chain[n][i].id = i - 2
        /\ Cardinality(odd) <= (IF fork[n] THEN 1 ELSE 0)

(***************************************************************************)
(* A hash on two chains stands for the same history on both.               *)
(***************************************************************************)
SameHashSameHistory ==
  \A n, m \in Node : \A i \in DOMAIN chain[n], j \in DOMAIN chain[m] :
    chain[n][i].hash = chain[m][j].hash =>
      SubSeq(chain[n], 1, i) = SubSeq(chain[m], 1, j)

(***************************************************************************)
(* A block confirms as many polls as it was hashed with, in the order of   *)
(* the chain.  Those of a block of another node are the polls it was       *)
(* hashed with, whatever its miner did to its arrays since; and each has a *)
(* question, and its position in the ledger as ID.                         *)
(***************************************************************************)
ConfirmedAsHashed ==
  \A n \in Node :
    LET added == IF bpc[n] = "add" THEN Len(chain[n]) - 1 ELSE Len(chain[n])
        end[i \in 1..added] ==  \* of the polls of block i in the ledger
          IF i = 1 THEN 0 ELSE end[i - 1] + Len(chain[n][i].hash.polls)
    IN  /\ Len(ledger[n]) = end[added]
        /\ \A i \in 2..added : \A k \in DOMAIN chain[n][i].hash.polls :
             LET at == end[i - 1] + k
                 hashed == chain[n][i].hash.polls[k]
             IN  IF chain[n][i].hash.from = n THEN ledger[n][at].shared
                 ELSE /\ ledger[n][at] = [poll |-> hashed.poll, id |-> at - 1, shared |-> FALSE]
                      /\ hashed.id = at - 1 /\ hashed.poll \notin Blank

(***************************************************************************)
(* The entries of stopMining are those of blocks that are on the chain, or *)
(* are about to be, in the order of the chain.                             *)
(***************************************************************************)
StopsInOrder ==
  \A n \in Node : \A i \in DOMAIN stopMining[n] :
    /\ \A j \in 1..(i - 1) : stopMining[n][j] < stopMining[n][i]
    /\ \/ stopMining[n][i] < Len(chain[n])
       \/ stopMining[n][i] = Len(chain[n]) /\ bpc[n] = "append"

\* Where a transaction may be, and the polls that no block may contain.
InPool(n) == Range(Elements(heap[n], polls[n])) \cup Range(Elements(heap[n], regs[n]))
InBooks(n) == {ledger[n][k].poll : k \in DOMAIN ledger[n]} \cup Range(registry[n])
Refused(n) == Blank \cup {p \in Poll : pollID[n][p] # 0}

(***************************************************************************)
(* The pool keeps every transaction that reached the miner until a block   *)
(* confirms it, or a number that the poll got for a block that failed      *)
(* keeps it out of every other; whatever blocks are made of the pool,      *)
(* given up and refused meanwhile, although all of them move what is in    *)
(* the arrays they share.  It is so until listenBlocks works on a block of *)
(* the node's own: it checks and removes this in the arrays of the pool,   *)
(* and does lose transactions.                                             *)
(***************************************************************************)
KeptUntilConfirmed ==
  \A n \in Node : (\A seen \in blocksSeen[n] : seen[1] # n) =>
    heard[n] \subseteq InPool(n) \cup InBooks(n) \cup Refused(n)
-----------------------------------------------------------------------------
(***************************************************************************)
(* The miners keep the promise of the module Ledger, where a block is what *)
(* was hashed of it: whoever publishes a block has the one it continues on *)
(* its own chain, although listenBlocks may have moved on meanwhile, and   *)
(* every chain grows by a published block that follows its last one.       *)
(***************************************************************************)
Abstract == INSTANCE Ledger WITH
  Genesis <- GenesisHash,
  published <- {b.hash : b \in sentBlocks},
  chain <- [n \in Node |-> [i \in 1..Len(chain[n]) |-> chain[n][i].hash]]

ImplementsLedger == Abstract!Spec
-----------------------------------------------------------------------------
(***************************************************************************)
(* What the comments of the code say and the code does not do.             *)
(***************************************************************************)

\* blockchain.go:299, "Check if ID is unique, in known polls and this
\* transaction".
PollIDsUnique ==
  \A n \in Node : \A i, j \in DOMAIN ledger[n] :
    LET ID(k) == IF ledger[n][k].shared THEN pollID[n][ledger[n][k].poll]
                 ELSE ledger[n][k].id
    IN  ID(i) = ID(j) => ledger[n][i].poll = ledger[n][j].poll
=============================================================================
