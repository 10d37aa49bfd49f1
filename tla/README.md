# Verification of the decentralized voting system

This directory holds TLA+ models of the Go program in `src/project`, the TLC
configurations that check them on small instances, and TLAPS proofs of their main
properties for every instance. File names below are relative to `src/project`.

## 1. The system

Every user runs one node. Nodes gossip *mongerable* messages (rumors, transactions, blocks) over
UDP. Transactions create polls, register names, carry votes and publish results; each
node mines them into blocks of its own blockchain. Users reach their node with a web page or a
command-line client.

```
   client, web page                       other nodes (UDP)
        |                                      |
   web/, UI server ---- Dispatcher ---- gossip server
        |                |  \    \
        |                |   \    PrivateRumorer + RoutingTable
        |            Rumorer + State
        |                |  localOut (unbuffered)
        |            Dispatcher goroutine
        |             /            \
        |    listenTransactions   listenBlocks      (Miner)
        |             \   stopMining  /
        |              Blockchain + pool
        |                    |
        +------------- VoteRumorer -----> Rumorer (own transactions)
```

| Component | State | Operations | Models |
|---|---|---|---|
| Public rumorer (`rumorer/rumorer.go`, `state.go`) | next own ID, vector clock, message store, ack channels, `mongeringWith` | receive rumor or status, monger with ack and timeout, anti-entropy | `Rumorer`, `ReliableBroadcast`, `RunPeer`, `Mongering` |
| Peer set (`utils/peers.go`) | addresses | add, pick one that is not the sender | `Mongering`, part of `Rumorer` |
| Transaction pool, blockchain (`blockchain/blockchain.go`) | unconfirmed transactions, blocks, polls, registry, results | add, check, confirm, remove | `TxPool`, `Miner`, `VoteRumorer` |
| Miner (`blockchain/miner.go`) | `stopMining`, `fork`, the block being mined | `listenTransactions`, `generateBlock`, `mine`, `listenBlocks`, `handleFork` | `Ledger`, `Miner`, `Dispatcher` |
| Dispatcher, wiring (`gossiper/`), UDP server (`udp/`) | the packet or message each goroutine holds and has not passed on | start, decode, pass on, encode | `Dispatcher` |
| Private rumorer (`privateRumorer/`) | routing table, saved messages | update a route, send, forward, save | `PrivateRumorer` |
| Vote rumorer (`voting/voting.go`) | poll keys, `pollId`, private key | register, create poll, vote, count | `VoteRumorer` |
| Web server, client, flags | none of the protocol | decode, hand over | inputs of the modules above |

**What is hard here.** Nearly every message gets a goroutine of its own. The rumorer's goroutines
share a store over a network that loses, repeats and reorders, and the variable that the loop of `runPeer`
starts them from; those that monger share the peer set and the channels for acknowledgements. The two
goroutines of the miner share the chain and the pool without a common lock, and published blocks
share the *arrays* of their transactions with the pool. The inner channels have no buffer, so
everybody may wait for somebody. `VoteRumorer` reads and increments `pollId` without a lock.
Nothing is persisted, so a node that stops never comes back with its old state: there is no
crash recovery to model. `PROJECT.json` lists every hazard with its line and its
properties.

**What makes each part correct.** Rumorer: the store agrees with the clock, a message is handed over
once and reaches everybody, a status and an ack tell the truth. Miner: chains are linked, hashes
name histories, what is confirmed is what was hashed, the pool keeps what is not confirmed, IDs are unique. Dispatcher: nobody waits for
ever, and every packet is answered. Private rumorer: routes get newer, messages end. Vote rumorer: a count is of the
right poll, a request ends, a poll is not lost.

## 2. Modules

**`ReliableBroadcast`** is the abstract specification of the public rumorer: a message that exists
is delivered to each node at most once, in any order, and nothing else is delivered.

**`Rumorer`** has all nodes and the network. `state` and `messages` are the maps of `state.go`;
`batches` are the goroutines of `handleRumor` that write to `localOut`; `mongers` are those
inside `startMongering` with the state of their ack channel; `net` holds the packets on their way.
`GiveID` and `HandleOwn` are `runPeer` for an own message (two steps: another goroutine may come
between the ID and the store), `ReceiveRumor` and `ReceiveStatus` the two handlers, `MongerTo`,
`Acked`, `TimedOut` and `NobodyToMonger` the loop of `startMongering` with `sendRumorWait`,
`AntiEntropy`, `AddPeer` and `DispatchLocal` the rest. Abstractions:

- a message is its (origin, ID), which is all the rumorer looks at; a route rumor is one like any
  other;
- goroutines of one node in the same state count once, since each can do what the
  other can;
- a handler that replies late replies with a newer status; the model has this as a lost reply
  followed by anti-entropy, which sends the same packet;
- `runPeer` has one loop variable per iteration, and `RandExcept` is one step: `RunPeer` and
  `Mongering` are about what this leaves out.

**`RunPeer`** has the goroutines of `runPeer` in one node, in either build: `perIteration` says whether each
iteration has its own `packet` (Go 1.22 and later) or all share one, as the language had it when this program was
written, and still has in a module that asks for an earlier version. The repository names no version. `Read` is the loop;
`ReadGossip` and `ReadAddress` (lines 107 and 108) find in the loop variable what the loop has read
by then; `CheckSender` tests the address and looks at the ID without a lock; `GiveID` is the section under
`idMutex`; `Update` is the store for the node's own messages. An own message is an object, which several goroutines
may hold and give an ID; those of others matter only for being handled. The network may repeat what others send.

**`Mongering`** has one node's goroutines between a message and its acknowledgement, one step per access
to what they share: the looks of `RandExcept` at the peer set (`Len1`, `Contains`, `Len0`, `Rand`),
`ackChans` under its `RWMutex` (`CallLock`, `Register`, `Delete`, `RLock`, `SendAck`, `RUnlock`) and
`mongeringWith`. A goroutine that calls `Lock` keeps new readers out and then waits for those inside, as Go's
`RWMutex` does; `SendAck` waits while the channel is full. `Compare` takes any outcome of comparing a status. Goroutines
are numbered in the order of their packets. The other nodes send whatever they like.

**`TxPool`** has Go slices as array and length, and the three loops over them: `append`,
`removeConfirmedTx` and `checkTransactions`/`checkTransactionsCreate`. A loop is a recursive function `after`, of
what it has made of the arrays after `i` elements.

**`Miner`** has the miners of all nodes. `heap` holds the arrays; `polls` and `regs` are the slices of
the pool; `mined` are the blocks of the node, which keep slices of these same arrays; `sentTxs` and
`sentBlocks` collect what the rumorer may have encoded at any moment, because it encodes at each
send. `AddTransaction` ... `Publish` is `listenTransactions` with `generateBlock` and `mine`, one
step per access to shared state; `HandleBlock`, `StopMining`, `AppendBlock`, `AddTransactions` and
`RemoveConfirmedTx` are `listenBlocks` with `handleFork`. Abstractions:

- a hash is what was hashed (no collisions; registrations are not in it, as in `types.go:108`);
  the nonce is a choice between `WrongNonce` and `Publish`;
- transactions are polls and registrations: votes are never created (finding `vote_votes`), and
  no miner checks, counts or removes results;
- a block or transaction reaches a miner as some state it was in at its creator; a block that
  passes through a node is not compacted there before it is passed on;
- one loop over a slice is one step, where Go's goroutines could also interleave inside it;
- `Reaches` bounds a run: what is not in it is still on its way when the run ends.

After `fork` is set, `forkedBlockchain` *is* `blockchain` (the pointer is copied at line 105), so
that the branch at line 66 has the guard of line 58 and can never be taken first, the one at
line 72 never holds, and the one at line 76 never holds either. That is why the module has
one chain per node and no reorganisation.

**`Ledger`** is the abstract specification of the miners together: a block is published by somebody who
has its predecessor on his chain, and a chain grows by published blocks that name its last one. It
promises no agreement, and the code gives none. `ImplementsLedger` in `Miner` maps a block to what was hashed of it.

**`Dispatcher`** has the goroutines and channels *inside* one node, where `Miner` has
the network. `StartDispatcher` ... `StartWeb` are the calls of `Gossiper.Run`; the registration of
the name is a message to the rumorer, so that `StartVoteRumorer` needs a rumorer that runs. `Decode`,
`DispatchFromPeer` and their counterparts for the client take a packet and pass it to each rumorer it is for;
a packet for nobody is dropped (`Holding`).
`Handle` is the goroutine of its handler, which answers (`answers[c]`) and hands the message over
(`localOut`); `Send` is the goroutine that encodes answers. `Receive`,
`PassTransaction`, `PassBlock`, the mining loop, and `StopMining`, which waits while the channel is
full, are the way to the miner. What `Publish` finds comes back through the rumorer. `uiIn` has those
who wait to send on `RumorerUIIn`, from which nobody receives: `routeRumoring` with `-rtimer`. A handler is
modelled as far as somebody waits for it: each message is new and is handed over (a batch is its messages, in any order); a block is valid or not as the environment likes; append, record and remove are one step.

**`PrivateRumorer`** has all routing tables. `StoreRumor`/`RouteStored`/`RouteFirst` are the two goroutines
(public and private rumorer) that get the same rumor, in either order; the message passing is
`HandleUIMessage`, `SavePrivateMessage`, `Drop`, `Forward`. A neighbour may send any rumor it
has stored at any time; this covers lost, late, repeated and reordered packets. `sends` counts how
often a message was sent, for the property only. Saved messages are a set.

**`VoteRumorer`** has one vote rumorer per node, with the poll requests of users as the goroutines
`pc[r]`: `CreateKey` (under `pollsMutex`), `ReadPollId`, `LoadPollId`, `StorePollId` (the
unlocked accesses of lines 259 and 265) and `SendPoll`. `Run` starts a vote or a count from a message of
the page or the client; `HandleNewVote` and `EncryptPanics` are `createEncryptedVote`; `LockPolls`,
`CountNothing`, `CountVotes` are `countVotes`. The miners are an environment that confirms some
sequence of pooled polls and some result. Abstractions: one vote and one count goroutine per node
at a time, and in a run not every user votes (`VoteID`); the ID of a confirmed poll is its position in the ledger (what a miner can do to IDs
beyond this is the finding `miner_poll_ids`); a poll key is the poll it was made for; a count has
no value, because there are no votes; the registration is one step; a panic ends the node.

`MC*` give the constants of the runs. `*Proofs` extend the modules with theorems. Definitions
commented as *variants* are plausible mistakes that take the place of the next definition when
the strength of a property is tested; no specification uses them.

## 3. Runs

| Run | Instance | Shows |
|---|---|---|
| `Rumorer_pair` | 2 nodes, one of which is added as a peer at run time, 2 messages, 2 packets | all safety properties and the refinement of `ReliableBroadcast` |
| `Rumorer_line` | 3 nodes in a line, 1 message | `AllHear`, through a node that forwards, over a network that loses |
| `RunPeer_loop` | 3 packets among 2 own messages, a rumor and a status of 2 peers | `IDNamesOne`, `HolesFromTwoIDs` and `LastHandled` in either build, `EachHandledOnce` with a variable per iteration |
| `Mongering_acks` | 3 goroutines, 1 message, 2 peers that are not known at first, 1 place per ack channel | `SomebodyElse`, `NoDeadEntry`; `OneCanGoOn`, `JamLasts` and `HandledUnlessJammed`: what a full ack channel stops, and that nothing else does |
| `Miner_fork` | 2 miners, 2 polls, 1 registration that only one of them has | `ChainLinked`, `NumberedOnce`, `SameHashSameHistory`, `StopsInOrder`, `KeptUntilConfirmed` |
| `Miner_polls` | 3 polls, one with an empty question | `ConfirmedAsHashed` (in order, with positions as IDs) against invalid polls and a creator whose arrays change; the refinement `ImplementsLedger` |
| `PrivateRumorer_routes` | 3 nodes in a line, 2 rumors, 1 private message, hop limit 3 | `RouteFresh`, `LoopsComeFromLateRoutes`, `WithinHopLimit`, `Settles` |
| `Dispatcher_full` | a registration and another transaction, 3 foreign blocks (two of a chain, one that competes), a client that writes and votes, 1 place in `stopMining` | `StuckOnFullStops`, `PassUnlessFull`, `AllAnswered` |
| `VoteRumorer_requests` | 2 polls of one user with the same text, 2 nodes that confirm and count them, and votes of that user at any time | `OnlyRacesLosePolls`, `CountsJustified`, `RequestsEnd` |

**Bounds.** Two messages are the least that can arrive out of order, fill a gap and make a batch of
two; two packets, the least that can be reordered. Three nodes in a line need forwarding, and are
enough for a private message to go back and forth between two tables that were made at different
moments. Two miners and three transactions give competing blocks of one parent, forks and one more
round; more rounds add no new kind of step, and the proofs do not depend on it. `StopCap` is 10 in
the code: in `Miner` 2 is enough for every run, and in `Dispatcher` a small one is what makes the
channel full, and other runs of the same instance have it empty. `HopValues` stands for 2^32 with 8;
the wrap-around is the same. `MaxMongers` bounds what coin flips may add, and `MaxInFlight` is a
network that drops what is too much. Two polls of one user are the
least that can be numbered at once, and those of one text the least that could be mixed up; the users of both nodes count, and
the one who asks for polls votes, so that his node may go down between any two steps of a request.
Three packets are enough for a goroutine to find the next packet and the one after it, or for two goroutines to find one
message; three goroutines are two that monger a message with the same peer (an own one, a coin flip) and a status in between.
An ack channel has 64 places in the code and 1 here: it fills up with the same steps, and other behaviours of the instance
never fill it. `MaxMongers` in `Mongering` bounds how many goroutines monger at once. `Dispatcher_full` has no rumors, statuses or private
messages of others, which only repeat the ways of transactions (the private rumorer answers but never hands over).
The theorems of section 5 hold for every other instance.

Deadlock is checked for the rumorer, where anti-entropy always can run. The other passing runs have
`CHECK_DEADLOCK FALSE`: users and transactions come to an end there, and the miners rightly wait for
more. What stands still without a reason is what `StuckOnFullStops`, `OneCanGoOn` and the liveness properties are about.
`StuckOnFullStops` and `OneCanGoOn` name the guards of the actions (`CanRun`, `CanGoOn`) instead of `ENABLED`, which the prover does
not reason about; the fairness of the liveness properties of the same runs is about the actions themselves, and would not
give them if a guard held where its action cannot be taken.

**Findings.** These runs must fail; each checks a statement of the code's own comments or messages.

| Run | What happens |
|---|---|
| `RunPeer_ids` | an own message gets no ID (rumorer.go:118 says it is given one): its goroutine finds a later packet in the shared loop variable, and nobody ever handles its own |
| `Miner_poll_ids` | two polls of a chain get one ID (blockchain.go:299 says it is checked): a confirmed `PollTx` is still the one in the pool |
| `VoteRumorer_votes` | a registered user is told to register and the vote is dropped: the test at voting.go:231 is inverted |

The models show other disagreements, of which no run is kept:

- a miner goes on with a number that is on its chain (miner.go:147: "until block found, or received from other
  peer"): the stop is sent at line 95 and the block appended at line 97; a round that starts in between takes
  its number from the old chain and gets no stop;
- a node that does not mine stops processing blocks and transactions when `stopMining` is full: the exception of
  `PassUnlessFull`, which `Dispatcher_full` reaches;
- a full ack channel whose reader has timed out stops all mongering and all statuses: the exception of
  `HandledUnlessJammed`, which takes more than 64 statuses from one peer between a timeout and the lock, and which `JamLasts`
  says is for ever;
- two nodes can send the private messages for a third to one another, with nothing on its way that would end it: both
  have stored the third's message, one hears it again from the other, and routes that packet before the one it stored
  (the goroutines of dispatcher.go:149 start in no order). The tables stay so until a later message of the third arrives;
  `LoopsComeFromLateRoutes` says that this is the only way to a loop;
- two poll requests at once get one `Id` (voting.go:259-265), and confirming one poll removes the other from every pool
  (blockchain.go:151); `OnlyRacesLosePolls` says that nothing else loses a poll this way;
- a node that works on a block of its own can lose transactions of its pool, which is why `KeptUntilConfirmed` stops there:
  `checkTransactions` on a block of its own that it will refuse moves polls within the array it shares with the pool (of
  polls `p2`, `p1` with `p1` on the chain, it writes `p1` over `p2`), and a registration that arrives between
  `addTransactions` and `removeConfirmedTx` is appended in the array of the block and removed though no block confirmed it;
- a poll that is in two blocks of a chain is confirmed twice, under two IDs (types.go:173: "the
  unique pollID"; `pollValid` compares the ID with the next one and nothing else);
- `-hopLimit 0` wraps round to 2^32 - 1 hops (privateRumorer.go:186), which is why the theorem on
  the hop limit assumes a limit of one or more;
- keys are stored under question and voters (voting.go:252), so that a creator counts another poll of
  the same text with the key of his own; `CountsJustified` says what still holds;
- the client's `-count` sets a vote and a count in one message (client/main.go:62-77), and the node
  takes the vote (voting.go:57);
- a vote for an unknown poll ends the node unless it runs with `-debug` (the return at voting.go:213
  is inside the test of the flag); `RequestsEnd` is about nodes that have not ended.

## 4. Fairness

Go runs every goroutine that can run, so weak fairness of the steps of a goroutine is assumed
where its step stays enabled, and strong fairness of the two waits for `pollsMutex`, because Go's
mutexes hand over to a waiter after a millisecond. In `Rumorer`, anti-entropy picks a random peer
every few seconds: over an endless run it picks each neighbour again and again and not every such packet is
lost, which is the strong fairness of `AntiEntropy`, `HearRumor` and `HearStatus` per neighbour.
Acks, timeouts and mongering get no fairness: anti-entropy alone must be enough. Anti-entropy is
on by default (`main.go:39`); a node started with `-antiEntropy 0` is outside `FairSpec`. In
`PrivateRumorer` a packet that is not lost is handled at last, and `Settles` speaks of
users who write no more. In `Dispatcher` each group
of goroutines goes on (unbuffered channels serve their waiters in turn), and mining finds a block or is stopped at last: strong
fairness of `Publish`, since a wrong nonce comes before a right one. In `Mongering` each goroutine
goes on while it can (`WF` of `Proceed`, with the timer among its steps), and gets `ackChansMutex` if it is free again and
again (`SF` of `CallLock` or `RLock`): a Go `RWMutex` lets a waiting writer in before new readers, and after a writer the
readers that waited. No fairness is assumed of what users or peers send.

## 5. Proofs

TLAPS checks these for any number of nodes, messages, polls and packets, from the constants'
assumptions in the modules (`RumorerAssumption`, ...), which TLC evaluates in every run.

- **`RumorerProofs`**: `TypeOK`, `StoreExact`, that clocks and stores only grow, `OriginFirst`, `StatusTrue`, `AckSound`,
  `HandedOnce` and the refinement `Broadcasts`. `StoreExact` is inductive with the types: the loop
  of `State.Update` stops at the first gap. `OriginFirst` needs it, because an ID must be new when
  it is given. `StatusTrue` rests on the clock that only grows, `AckSound` on `StatusTrue`,
  and `HandedOnce` on what `Accept` adds to the clock being what it puts in a batch. The refinement
  combines `OriginFirst` and `HandedOnce`: `DispatchLocal` delivers what exists and was not
  delivered, `GiveID` broadcasts, and every other step stutters. Two more follow from `StoreExact` and are what
  `AllHear` rests on: `NeverFatal`, that the message with which a status is answered is in the store, and `WantedIsAccepted`,
  that a node which gets the message its clock wants moves the clock on.
- **`RunPeerProofs`**: `TypeOK`; `IDNamesOne`, inductive with the types, since IDs are given under `idMutex` and only go up;
  `LastHandled` by `LoopInv`: what a goroutine finds in the loop variable is its own packet, in a build with one per iteration or
  after the last packet; `HolesFromTwoIDs` by `TakenInv`: each ID was taken by a goroutine, and one that was taken
  alone for its message is in the message and gets into the store; `EachHandledOnce` by both and `OnceInv`.
- **`MongeringProofs`**: `TypeOK`; `SomebodyElse` by `MayDraw`, where each look of `RandExcept` leaves something behind that later
  additions to the set do not undo; `NoDeadEntry`, inductive because each goroutine deletes what is under its peer and message,
  its own or another's, before it ends. `OneCanGoOn` combines it with `WriterInside` (who has called `Lock` and not left is between
  the two calls, and so alone): a reader waits for room in a channel of a goroutine that is at its select, which can go on, or
  has left it, which is a jam if the channel is full; without readers the writer goes on, and without a writer everybody.
  `JamLasts`: while the handler of a jam waits, it holds the lock for reading, so that nobody writes `ackChans`, the goroutine
  that should read the channel cannot even leave, and no other handler puts an entry into a full channel.
- **`MinerProofs`**: `ChainInv` strengthens `ChainLinked` with what `listenBlocks` has checked about
  the block at hand and what is still true when it appends it (only this goroutine writes the chain), which
  gives `ChainLinked`. `SamePast` is the induction behind
  `SameHashSameHistory`, over blocks as they are appended instead of over the length of a chain.
  `StopsInOrder` is inductive with `ChainInv`, and so is `NumberInv`, for `NumberedOnce`: `fork` is set before the odd block is
  appended and never reset. So far the proofs hold whatever `TxPool` does. `TypeOK` is about what it does:
  an array is of one kind of transaction, as its first cell says, and `Evolves` lists what any write preserves of it,
  so that a slice that shares an array survives a write through another (`SliceKept`). `AppendedTyped`,
  `WithoutConfirmedTyped` and `CheckedPollsTyped` say that the three operators of `TxPool` only write in this way; the last two
  are loops of any length. They also say what a loop keeps: `Shifted`, that of the elements to be kept each is at the front of
  the array or still to come, where "to be kept" are those that the copy does not name, or the polls without a number. From this
  `KeptInv` follows a transaction from the pool to the books, for `KeptUntilConfirmed`: an append keeps what was there, and
  what a decoded block takes out is in the books since `addTransactions` (`BooksHave`), in between whatever the miner does.
- **`MinerLedgerProofs`**: the refinement `ImplementsLedger`. `LedgerInv` follows a block: what a miner continues
  (`newBlock.prev`, read once) is on its chain from then on, as chains only grow; what is in `mined`, and what
  `listenBlocks` holds, was published. `Publish` is then the abstract one, `AppendBlock` is `Confirm`, by
  `ChainInv`, which knows that the block still follows the last one, and every other step stutters: encoding a block again
  does not change its hash. `MiningShaped` is the little of `TypeOK` it needs. Then `ConfirmedAsHashed`: `LedgerOf` says where
  in the ledger the polls of each block end, that a block of a node's own has as many polls in its slice as in its hash, although
  the slice no longer has the same ones (this needs `TypeOK`), and that the block at hand was checked against the ledger as it
  still is, because only `listenBlocks` writes it.
- **`DispatcherProofs`**: `TypeOK`, from what each goroutine holds (`PacketInv`, `LocalInv`, `MinerInv`): whatever is
  passed on is of a type its receiver takes. `StuckOnFullStops` follows from it: a message that is held is for one of the two
  goroutines of the miner, which takes it unless it is busy; a miner that mines can always go on; so `listenBlocks` waits at
  `stopMining`, which is full because it can have no more entries than places.
- **`PrivateRumorerProofs`**: `RoutingInv` adds to the routes that where a route leads, the
  message it was made from is stored (`Behind`), and that what is stored is routed or about to be (`Known`):
  together, `RouteFresh`. `HopsAddUp` (sends and hops left are the flag's value) gives
  `WithinHopLimit` for a flag of at least 1: with 0 the code itself exceeds it (section 3). `TypeOK` adds the
  packets and saved messages. `LoopsComeFromLateRoutes` is about behaviours, `[]RoutedInTime => []NoLoop`: consider the entry that
  would close a loop, made at a node from message *j*. It leads to a node that has stored *j* (`Behind`) and so, by
  `RoutedInTime`, has an entry from *j* or later, and so on along the loop; but the node whose entry is made had an entry
  from before *j*, and cannot be among them. What was true of every set of nodes before the step so is true after it.
- **`VoteRumorerProofs`**: `TypeOK`; `OnlyRacesLosePolls`, about behaviours again, `[]OneAtATime => []NothingLost`, by
  `NumberInv`: without a race `pollId` is still what the goroutine has read, so each numbered poll has a smaller number
  and one of its own, and a block takes only its own polls out of a pool; `CountsJustified` with `KeysTrue` (a key is under the text of its poll, at its creator) and a ledger that only grows.

**Loops and counting.** Where a proof needs an induction over the elements of a slice or the blocks of a chain, it is one over
a *set* of numbers (`UpTo`, from the least number outside the set), and `Iteration` builds from it the function that a loop
defines, with all its values where each step keeps them. What a loop computes, beyond what its
steps preserve, is not proved: that `removeConfirmedTx` leaves what is not confirmed is, in which order is for TLC.

**Model-checked only**: liveness (`AllHear`, `Settles`, `PassUnlessFull`, `AllAnswered`, `HandledUnlessJammed`,
`RequestsEnd`), which is out of the prover's reach: it needs fairness, and with it `ENABLED`. Every invariant
and action property of the passing runs is a theorem, and so are the implications between two temporal formulas,
`LoopsComeFromLateRoutes` and `OnlyRacesLosePolls`.

## 6. Not modelled

- The pages (`web/assets`), the GET handlers, serialisation, logging and the test scripts keep no
  state of the protocol.
- Cryptography: signatures are created and never checked (`blockchain.go:298`, `313`).
- Called by nobody: `AddTransaction`, `addUnconfirmedTransactions`, `adaptDifficulty`,
  `RegistryKey`, and lines 281-427 of `miner.go`, which are comments.
- `RumorerUIIn` has no receiver: `routeRumoring` and `POST /message` block at once. The first is in `Dispatcher`
  (`uiIn`); the second is a goroutine of the web server that nobody waits for.
- The sizes of packets: a block that does not fit into 10240 bytes (udp.go:8) is cut and ends the node that decodes it.
- Agreement of chains: a block that comes before its parent is dropped (miner.go:90), and no fork is resolved.
- Votes on the chain: the code that would confirm and count them is never reached, so that all results are alike
  (which one of several is kept, blockchain.go:198, makes no difference).
- One composition of `Rumorer` and `Miner`: they meet at `ReliableBroadcast`, which `Rumorer` implements and whose deliveries
  are the environment of `Miner` (a block or transaction that exists reaches a miner at most once, in any order, as some
  state it was sent in).

## 7. Plan

Done: `ReliableBroadcast`, `Rumorer`, `TxPool`, `Miner`, `PrivateRumorer`, `Dispatcher`, `VoteRumorer`,
in the order of how much the rest depends on them, and their safety proofs; then the shared loop
variable (`RunPeer`), locks and ack channels (`Mongering`), the way of a packet through a node and its start
(`Dispatcher`), the abstract `Ledger` and the proof that `Miner` implements it.

Then the proofs of `RunPeer`, `Mongering`, `Dispatcher`, of the types of `PrivateRumorer` and `Miner`, and of `NumberedOnce` and
`ConfirmedAsHashed`; and those of who waits for whom (`StuckOnFullStops`, `OneCanGoOn`, `JamLasts`) and of routing
loops.

Then what pools keep (`KeptUntilConfirmed`, for slices of any length) and when polls are lost (`OnlyRacesLosePolls`).

What could follow: the order in which `removeConfirmedTx` leaves a pool (induction over data, see section 5), and the
liveness properties, with a prover that knows fairness.
