----------------------------- MODULE VoteRumorer -----------------------------
(***************************************************************************)
(* The vote rumorers of all nodes (project/voting): polls, their keys and  *)
(* their counts.  Every request of a user runs in a goroutine of its own;  *)
(* only the map of keys has a mutex.                                       *)
(*                                                                         *)
(* The rest of the system appears by what it does to a poll that was sent: *)
(* it reaches the pool of every miner once, some block confirms it on the  *)
(* chain of a node, and removeConfirmedTx takes out of the pool the polls  *)
(* IsEqual to a confirmed one.  The chains of two nodes may differ, as in  *)
(* module Miner.  No vote ever gets on a chain, see HandleNewVote: a count *)
(* is always 0, and a result is who made it, for which ID and with which   *)
(* key.                                                                    *)
(***************************************************************************)
EXTENDS Integers, SequencesExt

CONSTANTS
  Node,    \* the nodes
  Request, \* the polls that users ask for; one stands for its key, too
  By,      \* By[r]: the node whose user asks for r
  Text,    \* Text[r]: the question and the voters of r, joined to one string
  Voters,  \* Voters[r]: the nodes whose users may vote
  PollID,  \* bound: the IDs that users ask to count
  VoteID,  \* bound: VoteID[n]: those that the user of n votes for
  Debug,   \* the -debug flag, the same on every node
  NoPoll,  \* no poll, and no key
  Idle     \* no request of the user

Texts == {Text[r] : r \in Request}

ASSUME VoteRumorerAssumption ==
  /\ IsFiniteSet(Request)
  /\ By \in [Request -> Node]
  /\ Voters \in [Request -> SUBSET Node]
  /\ Text \in [Request -> Texts]
  /\ PollID \subseteq Nat
  /\ VoteID \in [Node -> SUBSET PollID]
  /\ Debug \in BOOLEAN
  /\ NoPoll \notin Request
  /\ Idle \notin PollID

VARIABLES
  state,      \* state[n]: n starts, has a private key and runs, or is down
  pc,         \* pc[r]: where the goroutine for r is in handleNewPoll
  loaded,     \* loaded[r]: what it has loaded to increment pollId
  pollId,     \* pollId[n]: the counter of n
  id,         \* id[r]: Poll.Id of r
  keys,       \* keys[n][text]: the poll whose key is in the map of n
  locked,     \* locked[n]: a countVotes holds pollsMutex
  count,      \* count[n]: the ID that the user has asked to count
  vote,       \* vote[n]: the ID for which the user votes
  results,    \* the results that were sent
  pool,       \* pool[n]: the unconfirmed polls on n
  heard,      \* heard[n]: the polls that have reached n
  ledger,     \* ledger[n]: blockchain.Polls; the ID of a poll is its position
  known       \* known[n]: the IDs with an entry in blockchain.Results

pollVars == <<pc, loaded, pollId, id>>
countVars == <<locked, count, vote, results>>
chainVars == <<pool, heard, ledger, known>>
vars == <<state, keys, pollVars, countVars, chainVars>>
-----------------------------------------------------------------------------
Init ==
  /\ state = [n \in Node |-> "starts"]
  /\ pc = [r \in Request |-> "ask"]
  /\ loaded = [r \in Request |-> 0]
  /\ pollId = [n \in Node |-> 0]
  /\ id = [r \in Request |-> 0]
  /\ keys = [n \in Node |-> [t \in Texts |-> NoPoll]]
  /\ locked = [n \in Node |-> FALSE]
  /\ count = [n \in Node |-> Idle]
  /\ vote = [n \in Node |-> Idle]
  /\ results = {}
  /\ pool = [n \in Node |-> {}]
  /\ heard = [n \in Node |-> {}]
  /\ ledger = [n \in Node |-> <<>>]
  /\ known = [n \in Node |-> {}]

\* (A variant of the next definition: IDs count from 1.)
GetPollFromOne(n, i) == IF i \in DOMAIN ledger[n] THEN ledger[n][i] ELSE NoPoll

\* GetPoll: the poll on the chain of n with that ID.
GetPoll(n, i) == IF i < Len(ledger[n]) THEN ledger[n][i + 1] ELSE NoPoll

\* The key in the map of n under the text of a poll.
PrivateKey(n, r) == keys[n][Text[r]]

\* The user of n is one of the voters of a poll without a result.
CanVote(n, i) == /\ GetPoll(n, i) # NoPoll
                 /\ n \in Voters[GetPoll(n, i)] /\ i \notin known[n]
-----------------------------------------------------------------------------
\* Run: the node registers, and listens to its user after that.
RegisterName(n) ==
  /\ state[n] = "starts"
  /\ state' = [state EXCEPT ![n] = "runs"]
  /\ UNCHANGED <<keys, pollVars, countVars, chainVars>>

Go(r, from, to) == /\ state[By[r]] = "runs"
                   /\ pc[r] = from /\ pc' = [pc EXCEPT ![r] = to]

HandlePostPolls(r) ==
  /\ Go(r, "ask", "key")
  /\ UNCHANGED <<state, loaded, pollId, id, keys, countVars, chainVars>>

\* What the page sends, and the client with -pollid, or -count and -pollid.
HandlePostVote(i) == [newVote |-> i, countRequest |-> Idle]
HandlePostCount(i) == [newVote |-> Idle, countRequest |-> i]
ClientCount(i) == [newVote |-> i, countRequest |-> i]

VotingMessage(n) ==
  {HandlePostVote(i) : i \in VoteID[n]} \cup {HandlePostCount(i) : i \in PollID}
    \cup {ClientCount(i) : i \in VoteID[n] \ {0}}

\* Run: a goroutine for the first of the requests in a message.
Run(n, msg) ==
  /\ state[n] = "runs"
  /\ \/ /\ msg.newVote # Idle
        /\ vote[n] = Idle
        /\ vote' = [vote EXCEPT ![n] = msg.newVote]
        /\ UNCHANGED count
     \/ /\ msg.newVote = Idle
        /\ count[n] = Idle
        /\ count' = [count EXCEPT ![n] = msg.countRequest]
        /\ UNCHANGED vote
  /\ UNCHANGED <<state, keys, pollVars, locked, results, chainVars>>
-----------------------------------------------------------------------------
(***************************************************************************)
(* handleNewPoll.  The key is stored under the mutex; pollId is read and   *)
(* then incremented, in two accesses, without it.                          *)
(***************************************************************************)
CreateKey(r) ==
  /\ Go(r, "key", "read")
  /\ ~locked[By[r]]
  /\ keys' = [keys EXCEPT ![By[r]][Text[r]] = r]
  /\ UNCHANGED <<state, loaded, pollId, id, countVars, chainVars>>

ReadPollId(r) ==
  /\ Go(r, "read", "load")
  /\ id' = [id EXCEPT ![r] = pollId[By[r]]]
  /\ UNCHANGED <<state, loaded, pollId, keys, countVars, chainVars>>

LoadPollId(r) ==
  /\ Go(r, "load", "store")
  /\ loaded' = [loaded EXCEPT ![r] = pollId[By[r]]]
  /\ UNCHANGED <<state, pollId, id, keys, countVars, chainVars>>

\* (A variant of the next definition: pollId stays what it was.)
StoreLoaded(r) ==
  /\ Go(r, "store", "send")
  /\ pollId' = [pollId EXCEPT ![By[r]] = loaded[r]]
  /\ UNCHANGED <<state, loaded, id, keys, countVars, chainVars>>

StorePollId(r) ==
  /\ Go(r, "store", "send")
  /\ pollId' = [pollId EXCEPT ![By[r]] = loaded[r] + 1]
  /\ UNCHANGED <<state, loaded, id, keys, countVars, chainVars>>

SendPoll(r) ==
  /\ Go(r, "send", "sent")
  /\ UNCHANGED <<state, loaded, pollId, id, keys, countVars, chainVars>>

NumberAndSend(r) == ReadPollId(r) \/ LoadPollId(r) \/ StorePollId(r) \/ SendPoll(r)

HandleNewPoll(r) == CreateKey(r) \/ NumberAndSend(r)
-----------------------------------------------------------------------------
(***************************************************************************)
(* handleNewVote.  createEncryptedVote gives up when the node has a        *)
(* private key, which it always has by then, so no vote is ever sent.      *)
(* When it does not know the poll it gives up with -debug only; without    *)
(* it, it encrypts with a key that is nil, and the whole program panics.   *)
(* The page offers to vote for which CanVote holds, and to count for which *)
(* there is a key; the handlers and the client take any ID.                *)
(***************************************************************************)
HandleNewVote(n) ==
  /\ state[n] = "runs" /\ vote[n] # Idle
  /\ GetPoll(n, vote[n]) # NoPoll \/ Debug
  /\ vote' = [vote EXCEPT ![n] = Idle]
  /\ UNCHANGED <<state, keys, pollVars, locked, count, results, chainVars>>

EncryptPanics(n) ==
  /\ state[n] = "runs" /\ vote[n] # Idle
  /\ GetPoll(n, vote[n]) = NoPoll /\ ~Debug
  /\ state' = [state EXCEPT ![n] = "down"]
  /\ UNCHANGED <<keys, pollVars, countVars, chainVars>>
-----------------------------------------------------------------------------
(***************************************************************************)
(* countVotes.  It keeps the mutex until it is done.                       *)
(***************************************************************************)
LockPolls(n) ==
  /\ state[n] = "runs" /\ count[n] # Idle
  /\ ~locked[n]
  /\ locked' = [locked EXCEPT ![n] = TRUE]
  /\ UNCHANGED <<state, keys, pollVars, count, vote, results, chainVars>>

Counted(n) == LET r == GetPoll(n, count[n])
              IN  IF r = NoPoll THEN NoPoll ELSE PrivateKey(n, r)

Unlock(n) == /\ locked' = [locked EXCEPT ![n] = FALSE]
             /\ count' = [count EXCEPT ![n] = Idle]

\* (A variant of the next definition: it returns with the mutex.)
KeepLock(n) ==
  /\ state[n] = "runs" /\ locked[n] /\ Counted(n) = NoPoll
  /\ count' = [count EXCEPT ![n] = Idle]
  /\ UNCHANGED <<state, keys, pollVars, locked, vote, results, chainVars>>

\* The poll is not on the chain, or there is no key for its text.
CountNothing(n) ==
  /\ state[n] = "runs" /\ locked[n] /\ Counted(n) = NoPoll
  /\ Unlock(n)
  /\ UNCHANGED <<state, keys, pollVars, vote, results, chainVars>>

\* (A variant of the next definition: it calls PrivateKey, which waits for the
\* mutex.)
CountWithPrivateKey(n) ==
  /\ state[n] = "runs" /\ locked[n] /\ Counted(n) # NoPoll
  /\ ~locked[n]
  /\ results' = results \cup {[by |-> n, id |-> count[n], key |-> Counted(n)]}
  /\ Unlock(n)
  /\ UNCHANGED <<state, keys, pollVars, vote, chainVars>>

CountVotes(n) ==
  /\ state[n] = "runs" /\ locked[n] /\ Counted(n) # NoPoll
  /\ results' = results \cup {[by |-> n, id |-> count[n], key |-> Counted(n)]}
  /\ Unlock(n)
  /\ UNCHANGED <<state, keys, pollVars, vote, chainVars>>
-----------------------------------------------------------------------------
(***************************************************************************)
(* The miner of n: a poll that was sent reaches it, a block confirms some  *)
(* of those it knows, and a result gets on the chain.                      *)
(***************************************************************************)
AddUnconfirmedTransaction(n, r) ==
  /\ state[n] = "runs" /\ pc[r] = "sent" /\ r \notin heard[n]
  /\ heard' = [heard EXCEPT ![n] = @ \cup {r}]
  /\ pool' = [pool EXCEPT ![n] = @ \cup {r}]
  /\ UNCHANGED <<state, keys, pollVars, countVars, ledger, known>>

IsEqual(r, s) == By[r] = By[s] /\ id[r] = id[s]

\* The polls of a block: some of those in the pool, in any order.
BlockPolls(n) == SetToAllKPermutations(pool[n]) \ {<<>>}

\* addTransactions and removeConfirmedTx.
ConfirmPolls(n, block) ==
  /\ state[n] = "runs"
  /\ ledger' = [ledger EXCEPT ![n] = @ \o block]
  /\ pool' = [pool EXCEPT ![n] = {s \in @ : ~\E r \in Range(block) : IsEqual(r, s)}]
  /\ UNCHANGED <<state, keys, pollVars, countVars, heard, known>>

ConfirmResult(n, res) ==
  /\ state[n] = "runs" /\ res.id \notin known[n]
  /\ known' = [known EXCEPT ![n] = @ \cup {res.id}]
  /\ UNCHANGED <<state, keys, pollVars, countVars, pool, heard, ledger>>

Step(n) ==
  \/ RegisterName(n)
  \/ \E msg \in VotingMessage(n) : Run(n, msg)
  \/ HandleNewVote(n) \/ EncryptPanics(n)
  \/ LockPolls(n) \/ CountNothing(n) \/ CountVotes(n)
  \/ \E r \in Request : AddUnconfirmedTransaction(n, r)
  \/ \E block \in BlockPolls(n) : ConfirmPolls(n, block)
  \/ \E res \in results : ConfirmResult(n, res)

Next ==
  \/ \E r \in Request : HandlePostPolls(r) \/ HandleNewPoll(r)
  \/ \E n \in Node : Step(n)

Spec == Init /\ [][Next]_vars
-----------------------------------------------------------------------------
(***************************************************************************)
(* Go runs every goroutine that can run, and its mutexes let nobody starve. *)
(***************************************************************************)
Fairness ==
  /\ \A r \in Request : SF_vars(CreateKey(r)) /\ WF_vars(NumberAndSend(r))
  /\ \A n \in Node : SF_vars(LockPolls(n)) /\ WF_vars(CountNothing(n) \/ CountVotes(n))

FairSpec == Spec /\ Fairness
-----------------------------------------------------------------------------
Created(r) == pc[r] \notin {"ask", "key"}

\* Types; a goroutine counts while it has the mutex.
TypeOK ==
  /\ state \in [Node -> {"starts", "runs", "down"}]
  /\ pc \in [Request -> {"ask", "key", "read", "load", "store", "send", "sent"}]
  /\ loaded \in [Request -> Nat] /\ id \in [Request -> Nat]
  /\ pollId \in [Node -> Nat]
  /\ keys \in [Node -> [Texts -> Request \cup {NoPoll}]]
  /\ locked \in [Node -> BOOLEAN]
  /\ count \in [Node -> PollID \cup {Idle}]
  /\ vote \in [Node -> PollID \cup {Idle}]
  /\ results \subseteq [by : Node, id : PollID, key : Request]
  /\ pool \in [Node -> SUBSET Request]
  /\ heard \in [Node -> SUBSET Request]
  /\ ledger \in [Node -> Seq(Request)]
  /\ known \in [Node -> SUBSET PollID]
  /\ \A n \in Node : locked[n] => count[n] # Idle

\* A goroutine that has read pollId and not yet stored its successor.
Numbering(r) == pc[r] \in {"load", "store"}

OneAtATime == \A r, s \in Request : By[r] = By[s] /\ Numbering(r) /\ Numbering(s) => r = s

NothingLost == \A n \in Node : heard[n] \subseteq pool[n] \cup Range(ledger[n])

(***************************************************************************)
(* A poll that has reached a node is confirmed there or waits for it, as   *)
(* long as no two goroutines of a user's node are between reading and      *)
(* storing pollId at once.  (When they are, the counter may repeat a       *)
(* number or go back to one, and the block that confirms one of the polls  *)
(* with this number takes the other out of the pool, on whatever node.)    *)
(***************************************************************************)
OnlyRacesLosePolls == []OneAtATime => []NothingLost

(***************************************************************************)
(* A result is of a poll that is on the chain of the node that counted,    *)
(* with a key this node made for the text of that poll.                    *)
(***************************************************************************)
CountsJustified ==
  \A res \in results :
    /\ res.id < Len(ledger[res.by])
    /\ Text[ledger[res.by][res.id + 1]] = Text[res.key]
    /\ By[res.key] = res.by /\ Created(res.key)

(***************************************************************************)
(* Every request for a poll or for a count comes to its end while the node *)
(* is up, however many goroutines want pollsMutex, and whether or not      *)
(* there is something to count.                                            *)
(***************************************************************************)
RequestsEnd ==
  /\ \A r \in Request : pc[r] # "ask" ~> pc[r] = "sent" \/ state[By[r]] = "down"
  /\ \A n \in Node : count[n] # Idle ~> count[n] = Idle \/ state[n] = "down"
-----------------------------------------------------------------------------
(***************************************************************************)
(* What the code says and does not do.                                     *)
(***************************************************************************)

\* voting.go:233, "First register your name and get a private key": who may
\* vote is refused only on a node that has no key.
RefusedUnregistered ==
  [][\A n \in Node :
       HandleNewVote(n) /\ CanVote(n, vote[n]) => state[n] = "starts"]_vars
=============================================================================
