-------------------------- MODULE VoteRumorerProofs --------------------------
(***************************************************************************)
(* Proofs about the vote rumorers: types, what a result stands for, and    *)
(* that polls are lost only when goroutines number them at the same time.  *)
(***************************************************************************)
EXTENDS VoteRumorer, SequenceTheorems, FiniteSetTheorems, TLAPS

\* The initial state is well typed.
LEMMA TypeInit == Init => TypeOK
  BY VoteRumorerAssumption DEF VoteRumorerAssumption, Init, TypeOK

\* What GetPoll finds is the poll at that place of the chain.
LEMMA PollFound ==
  ASSUME TypeOK, NEW n \in Node, NEW i \in PollID, GetPoll(n, i) # NoPoll
  PROVE  /\ i < Len(ledger[n])
         /\ GetPoll(n, i) = ledger[n][i + 1]
         /\ GetPoll(n, i) \in Request
<1>1. i \in Nat /\ ledger[n] \in Seq(Request)
  BY VoteRumorerAssumption DEF VoteRumorerAssumption, TypeOK
<1>2. i < Len(ledger[n])
  BY DEF GetPoll
<1>3. i + 1 \in 1..Len(ledger[n])
  BY <1>1, <1>2
<1> QED  BY <1>1, <1>2, <1>3 DEF GetPoll

\* What is counted is counted with a key of a poll.
LEMMA CountedKey ==
  ASSUME TypeOK, NEW n \in Node, locked[n], Counted(n) # NoPoll
  PROVE  /\ count[n] \in PollID
         /\ GetPoll(n, count[n]) # NoPoll
         /\ Counted(n) = keys[n][Text[GetPoll(n, count[n])]]
         /\ Counted(n) \in Request
<1>1. count[n] \in PollID
  BY DEF TypeOK
<1>2. GetPoll(n, count[n]) # NoPoll
  BY DEF Counted
<1>3. GetPoll(n, count[n]) \in Request
  BY <1>1, <1>2, PollFound
<1>4. Counted(n) = keys[n][Text[GetPoll(n, count[n])]]
  BY <1>2 DEF Counted, PrivateKey
<1>5. Text[GetPoll(n, count[n])] \in Texts
  BY <1>3 DEF Texts
<1> QED  BY <1>1, <1>2, <1>4, <1>5 DEF TypeOK

\* The polls of a block are a sequence of polls.
LEMMA BlockIsSeq ==
  ASSUME TypeOK, NEW n \in Node, NEW block \in BlockPolls(n)
  PROVE  block \in Seq(Request)
<1>1. PICK S \in SUBSET pool[n] : block \in SetToSeqs(S)
  BY DEF BlockPolls, SetToAllKPermutations
<1>2. S \subseteq Request
  BY DEF TypeOK
<1>3. Cardinality(S) \in Nat
  BY <1>2, VoteRumorerAssumption, FS_Subset, FS_CardinalityType DEF VoteRumorerAssumption
<1>4. block \in [1..Cardinality(S) -> S]
  BY <1>1 DEF SetToSeqs
<1> QED  BY <1>2, <1>3, <1>4

\* Every step keeps the types.
LEMMA TypeStep == TypeOK /\ [Next]_vars => TypeOK'
<1> SUFFICES ASSUME TypeOK, [Next]_vars PROVE TypeOK'
  OBVIOUS
<1> USE VoteRumorerAssumption DEF VoteRumorerAssumption
<1>1. ASSUME NEW n \in Node, RegisterName(n) PROVE TypeOK'
  BY <1>1 DEF RegisterName, TypeOK, pollVars, countVars, chainVars
<1>2. ASSUME NEW r \in Request, HandlePostPolls(r) PROVE TypeOK'
  BY <1>2 DEF HandlePostPolls, Go, TypeOK, pollVars, countVars, chainVars
<1>3. ASSUME NEW r \in Request, CreateKey(r) PROVE TypeOK'
  BY <1>3 DEF CreateKey, Go, TypeOK, pollVars, countVars, chainVars
<1>4. ASSUME NEW r \in Request, ReadPollId(r) PROVE TypeOK'
  BY <1>4 DEF ReadPollId, Go, TypeOK, pollVars, countVars, chainVars
<1>5. ASSUME NEW r \in Request, LoadPollId(r) PROVE TypeOK'
  BY <1>5 DEF LoadPollId, Go, TypeOK, pollVars, countVars, chainVars
<1>6. ASSUME NEW r \in Request, StorePollId(r) PROVE TypeOK'
  BY <1>6 DEF StorePollId, Go, TypeOK, pollVars, countVars, chainVars
<1>7. ASSUME NEW r \in Request, SendPoll(r) PROVE TypeOK'
  BY <1>7 DEF SendPoll, Go, TypeOK, pollVars, countVars, chainVars
<1>8. ASSUME NEW n \in Node, NEW msg \in VotingMessage(n), Run(n, msg) PROVE TypeOK'
  <2>1. /\ msg.newVote \in PollID \cup {Idle}
        /\ msg.countRequest \in PollID \cup {Idle}
        /\ msg.newVote = Idle => msg.countRequest \in PollID
    BY DEF VotingMessage, HandlePostVote, HandlePostCount, ClientCount
  <2> QED  BY <1>8, <2>1 DEF Run, TypeOK, pollVars, countVars, chainVars
<1>9. ASSUME NEW n \in Node, HandleNewVote(n) PROVE TypeOK'
  BY <1>9 DEF HandleNewVote, TypeOK, pollVars, countVars, chainVars
<1>10. ASSUME NEW n \in Node, LockPolls(n) PROVE TypeOK'
  BY <1>10 DEF LockPolls, TypeOK, pollVars, countVars, chainVars
<1>11. ASSUME NEW n \in Node, CountNothing(n) PROVE TypeOK'
  BY <1>11 DEF CountNothing, Unlock, TypeOK, pollVars, countVars, chainVars
<1>12. ASSUME NEW n \in Node, CountVotes(n) PROVE TypeOK'
  <2>1. Counted(n) \in Request /\ count[n] \in PollID
    BY <1>12, CountedKey DEF CountVotes
  <2> QED  BY <1>12, <2>1, SMTT(30) DEF CountVotes, Unlock, TypeOK, pollVars, countVars, chainVars
<1>13. ASSUME NEW n \in Node, NEW r \in Request, AddUnconfirmedTransaction(n, r) PROVE TypeOK'
  BY <1>13 DEF AddUnconfirmedTransaction, TypeOK, pollVars, countVars, chainVars
<1>14. ASSUME NEW n \in Node, NEW block \in BlockPolls(n), ConfirmPolls(n, block) PROVE TypeOK'
  <2>1. ledger[n] \o block \in Seq(Request)
    BY BlockIsSeq, ConcatProperties DEF TypeOK
  <2> QED  BY <1>14, <2>1 DEF ConfirmPolls, TypeOK, pollVars, countVars, chainVars
<1>15. ASSUME NEW n \in Node, NEW res \in results, ConfirmResult(n, res) PROVE TypeOK'
  <2>1. res.id \in PollID
    BY DEF TypeOK
  <2> QED  BY <1>15, <2>1 DEF ConfirmResult, TypeOK, pollVars, countVars, chainVars
<1>17. ASSUME NEW n \in Node, EncryptPanics(n) PROVE TypeOK'
  BY <1>17 DEF EncryptPanics, TypeOK, pollVars, countVars, chainVars
<1>16. CASE UNCHANGED vars
  BY <1>16 DEF vars, TypeOK, pollVars, countVars, chainVars
<1> QED  BY <1>1, <1>2, <1>3, <1>4, <1>5, <1>6, <1>7, <1>8, <1>9, <1>10, <1>11, <1>12,
            <1>13, <1>14, <1>15, <1>16, <1>17 DEF Next, Step, HandleNewPoll, NumberAndSend

\* The types are right in every state.
THEOREM TypeCorrect == Spec => []TypeOK
  BY TypeInit, TypeStep, PTL DEF Spec
-----------------------------------------------------------------------------
\* The maps of keys change only when a goroutine creates one, for its own poll,
\* and no goroutine goes back behind that.
LEMMA KeySteps ==
  ASSUME TypeOK, [Next]_vars
  PROVE  \/ \E r \in Request : CreateKey(r)
         \/ keys' = keys /\ \A r \in Request : Created(r)' <=> Created(r)
<1> USE DEF Created, pollVars, countVars, chainVars
<1>1. ASSUME NEW n \in Node, Step(n)
      PROVE  keys' = keys /\ pc' = pc
  BY <1>1 DEF Step, RegisterName, Run, HandleNewVote, EncryptPanics, LockPolls, CountNothing, CountVotes,
              AddUnconfirmedTransaction, ConfirmPolls, ConfirmResult
<1>2. ASSUME NEW s \in Request, HandlePostPolls(s) \/ HandleNewPoll(s), ~CreateKey(s),
             NEW r \in Request
      PROVE  keys' = keys /\ (Created(r)' <=> Created(r))
  BY <1>2 DEF HandlePostPolls, HandleNewPoll, NumberAndSend, ReadPollId, LoadPollId, StorePollId, SendPoll,
              Go, TypeOK
<1>3. CASE UNCHANGED vars
  BY <1>3 DEF vars
<1>4. CASE \E n \in Node : Step(n)
  BY <1>1, <1>4
<1>5. CASE \E s \in Request : HandlePostPolls(s) \/ HandleNewPoll(s)
  <2> PICK s \in Request : HandlePostPolls(s) \/ HandleNewPoll(s)
    BY <1>5
  <2>1. CASE CreateKey(s)
    BY <2>1
  <2>2. CASE ~CreateKey(s)
    BY <1>2, <2>2
  <2> QED  BY <2>1, <2>2
<1> QED  BY <1>3, <1>4, <1>5 DEF Next

\* What a goroutine that creates a key does.
LEMMA KeyCreated ==
  ASSUME TypeOK, NEW r \in Request, CreateKey(r), NEW n \in Node, NEW t \in Texts
  PROVE  /\ keys'[n][t] = IF n = By[r] /\ t = Text[r] THEN r ELSE keys[n][t]
         /\ \A s \in Request : Created(s)' <=> s = r \/ Created(s)
  BY VoteRumorerAssumption DEF VoteRumorerAssumption, CreateKey, Go, Created, TypeOK

(***************************************************************************)
(* The invariant behind CountsJustified: a key is in the map of the node   *)
(* whose user asked for its poll, under the text of this poll.             *)
(***************************************************************************)
KeysTrue ==
  \A n \in Node : \A t \in Texts :
    keys[n][t] # NoPoll =>
      /\ By[keys[n][t]] = n
      /\ Text[keys[n][t]] = t
      /\ Created(keys[n][t])

\* A step keeps it.
LEMMA KeysTrueStep == TypeOK /\ KeysTrue /\ [Next]_vars => KeysTrue'
<1> SUFFICES ASSUME TypeOK, KeysTrue, [Next]_vars, NEW n \in Node, NEW t \in Texts,
                    keys'[n][t] # NoPoll
             PROVE  /\ By[keys'[n][t]] = n
                    /\ Text[keys'[n][t]] = t
                    /\ pc'[keys'[n][t]] \notin {"ask", "key"}
  BY DEF KeysTrue, Created
<1>1. keys[n][t] # NoPoll => /\ keys[n][t] \in Request
                             /\ By[keys[n][t]] = n
                             /\ Text[keys[n][t]] = t
                             /\ Created(keys[n][t])
  BY DEF KeysTrue, TypeOK
<1>2. ASSUME NEW r \in Request, CreateKey(r)
      PROVE  /\ By[keys'[n][t]] = n
             /\ Text[keys'[n][t]] = t
             /\ pc'[keys'[n][t]] \notin {"ask", "key"}
  <2>1. /\ keys'[n][t] = IF n = By[r] /\ t = Text[r] THEN r ELSE keys[n][t]
        /\ \A s \in Request : (pc'[s] \notin {"ask", "key"}) <=> s = r \/ Created(s)
    BY <1>2, KeyCreated DEF Created
  <2>2. CASE n = By[r] /\ t = Text[r]
    BY <2>1, <2>2 DEF Created
  <2>3. CASE ~(n = By[r] /\ t = Text[r])
    BY <1>1, <2>1, <2>3 DEF Created
  <2> QED  BY <2>2, <2>3
<1>3. CASE keys' = keys /\ \A r \in Request : Created(r)' <=> Created(r)
  BY <1>1, <1>3 DEF Created
<1> QED  BY <1>2, <1>3, KeySteps

\* A chain only grows.
LEMMA LedgerGrows ==
  ASSUME TypeOK, [Next]_vars, NEW n \in Node
  PROVE  /\ Len(ledger[n]) \in Nat
         /\ Len(ledger'[n]) \in Nat
         /\ Len(ledger[n]) <= Len(ledger'[n])
         /\ \A i \in 1..Len(ledger[n]) : ledger'[n][i] = ledger[n][i]
<1>1. ledger[n] \in Seq(Request)
  BY DEF TypeOK
<1>2. CASE ledger' = ledger
  BY <1>1, <1>2
<1>3. ASSUME NEW m \in Node, NEW block \in BlockPolls(m), ConfirmPolls(m, block)
      PROVE  ledger'[n] \in {ledger[n], ledger[n] \o block}
  BY <1>3 DEF ConfirmPolls, TypeOK
<1>4. ASSUME NEW m \in Node, NEW block \in BlockPolls(m)
      PROVE  /\ Len(block) \in Nat
             /\ Len(ledger[n] \o block) = Len(ledger[n]) + Len(block)
             /\ \A i \in 1..Len(ledger[n]) : (ledger[n] \o block)[i] = ledger[n][i]
  BY <1>1, BlockIsSeq, ConcatProperties
<1>5. Len(ledger[n]) \in Nat
  BY <1>1
<1>6. ledger' = ledger \/ \E m \in Node : \E block \in BlockPolls(m) : ConfirmPolls(m, block)
  BY DEF Next, Step, vars, pollVars, countVars, chainVars, HandlePostPolls, HandleNewPoll,
         NumberAndSend, CreateKey, ReadPollId, LoadPollId, StorePollId, SendPoll, RegisterName, Run,
         HandleNewVote, EncryptPanics, LockPolls, CountNothing, CountVotes, AddUnconfirmedTransaction,
         ConfirmResult
<1> QED  BY <1>2, <1>3, <1>4, <1>5, <1>6

\* What a result stands for.
Justified(res) ==
  /\ res.id < Len(ledger[res.by])
  /\ Text[ledger[res.by][res.id + 1]] = Text[res.key]
  /\ By[res.key] = res.by
  /\ Created(res.key)

\* It stands for it for ever.
LEMMA JustifiedStays ==
  ASSUME TypeOK, [Next]_vars, NEW res \in results, Justified(res)
  PROVE  Justified(res)'
<1>1. res.by \in Node /\ res.id \in Nat /\ res.key \in Request
  BY VoteRumorerAssumption DEF VoteRumorerAssumption, TypeOK
<1>2. res.id + 1 \in 1..Len(ledger[res.by])
  BY <1>1, LedgerGrows DEF Justified
<1>3. /\ res.id < Len(ledger'[res.by])
      /\ ledger'[res.by][res.id + 1] = ledger[res.by][res.id + 1]
  BY <1>1, <1>2, LedgerGrows DEF Justified
<1>4. pc'[res.key] \notin {"ask", "key"}
  <2>1. ASSUME NEW r \in Request, CreateKey(r)
        PROVE  pc'[res.key] \notin {"ask", "key"}
    BY <1>1, <2>1 DEF CreateKey, Go, Justified, Created, TypeOK
  <2>2. CASE keys' = keys /\ \A r \in Request : Created(r)' <=> Created(r)
    BY <1>1, <2>2 DEF Justified, Created
  <2> QED  BY <2>1, <2>2, KeySteps
<1> QED  BY <1>3, <1>4 DEF Justified, Created

\* A count is of a poll on the chain, with a key for its text.
LEMMA CountIsJustified ==
  ASSUME TypeOK, KeysTrue, NEW n \in Node, CountVotes(n)
  PROVE  Justified([by |-> n, id |-> count[n], key |-> Counted(n)])
<1>1. locked[n] /\ Counted(n) # NoPoll
  BY DEF CountVotes
<1>2. /\ count[n] \in PollID
      /\ GetPoll(n, count[n]) # NoPoll
      /\ Counted(n) = keys[n][Text[GetPoll(n, count[n])]]
  BY <1>1, CountedKey
<1>3. /\ count[n] < Len(ledger[n])
      /\ GetPoll(n, count[n]) = ledger[n][count[n] + 1]
      /\ GetPoll(n, count[n]) \in Request
  BY <1>2, PollFound
<1>4. Text[GetPoll(n, count[n])] \in Texts
  BY <1>3 DEF Texts
<1>5. /\ By[Counted(n)] = n
      /\ Text[Counted(n)] = Text[GetPoll(n, count[n])]
      /\ Created(Counted(n))
  BY <1>1, <1>2, <1>4 DEF KeysTrue
<1> QED  BY <1>3, <1>5 DEF Justified

\* A step keeps CountsJustified.
LEMMA JustifiedStep == TypeOK /\ KeysTrue /\ CountsJustified /\ [Next]_vars => CountsJustified'
<1> SUFFICES ASSUME TypeOK, KeysTrue, CountsJustified, [Next]_vars, NEW res \in results'
             PROVE  Justified(res)'
  BY DEF CountsJustified, Justified, Created
<1>1. CASE res \in results
  BY <1>1, JustifiedStays DEF CountsJustified, Justified
<1>2. ASSUME NEW n \in Node, CountVotes(n), res = [by |-> n, id |-> count[n], key |-> Counted(n)]
      PROVE  Justified(res)'
  <2>1. Justified(res)
    BY <1>2, CountIsJustified
  <2>2. UNCHANGED <<ledger, pc>>
    BY <1>2 DEF CountVotes, chainVars, pollVars
  <2> QED  BY <2>1, <2>2 DEF Justified, Created
<1>3. \/ results' = results
      \/ \E n \in Node : /\ CountVotes(n)
                         /\ results' = results \cup
                              {[by |-> n, id |-> count[n], key |-> Counted(n)]}
  BY DEF Next, Step, vars, pollVars, countVars, chainVars, HandlePostPolls, HandleNewPoll,
         NumberAndSend, CreateKey, ReadPollId, LoadPollId, StorePollId, SendPoll, RegisterName, Run,
         HandleNewVote, EncryptPanics, LockPolls, CountNothing, CountVotes, AddUnconfirmedTransaction,
         ConfirmPolls, ConfirmResult
<1> QED  BY <1>1, <1>2, <1>3

\* A result is of a poll on the chain of the node that counted, and made with a key
\* of this node for the text of the poll.
THEOREM CountsAreJustified == Spec => []CountsJustified
<1>1. Init => KeysTrue /\ CountsJustified
  BY DEF Init, KeysTrue, CountsJustified
<1> QED  BY <1>1, KeysTrueStep, JustifiedStep, TypeCorrect, PTL DEF Spec
-----------------------------------------------------------------------------
(***************************************************************************)
(* The invariant behind OnlyRacesLosePolls, as long as the user of a node  *)
(* has one poll numbered at a time: pollId is still what its goroutine has *)
(* read, so the polls of the node that were numbered before have smaller   *)
(* numbers, and each its own; and what is or was in a pool has a number.   *)
(***************************************************************************)
Numbered(r) == pc[r] \in {"send", "sent"}

NumberInv ==
  /\ \A r \in Request :
       /\ Numbering(r) => id[r] = pollId[By[r]]
       /\ pc[r] = "store" => loaded[r] = pollId[By[r]]
       /\ Numbered(r) => id[r] < pollId[By[r]]
  /\ \A r, s \in Request : Numbered(r) /\ Numbered(s) /\ IsEqual(r, s) => r = s
  /\ \A n \in Node : pool[n] \subseteq heard[n] /\ \A r \in heard[n] : pc[r] = "sent"

\* The polls of a block are in the pool, and get on the chain behind what is there.
LEMMA BlockOnChain ==
  ASSUME TypeOK, NEW n \in Node, NEW block \in BlockPolls(n)
  PROVE  /\ Range(block) \subseteq pool[n]
         /\ Range(ledger[n]) \cup Range(block) \subseteq Range(ledger[n] \o block)
<1>1. PICK S \in SUBSET pool[n] : block \in SetToSeqs(S)
  BY DEF BlockPolls, SetToAllKPermutations
<1>2. Range(block) \subseteq pool[n]
  BY <1>1 DEF SetToSeqs, Range
<1>3. /\ block \in Seq(Request) /\ ledger[n] \in Seq(Request)
      /\ DOMAIN block = 1..Len(block) /\ DOMAIN ledger[n] = 1..Len(ledger[n])
      /\ Len(block) \in Nat /\ Len(ledger[n]) \in Nat
  BY BlockIsSeq DEF TypeOK
<1> DEFINE c == ledger[n] \o block
<1>4. /\ c \in Seq(Request) /\ Len(c) = Len(ledger[n]) + Len(block) /\ DOMAIN c = 1..Len(c)
      /\ \A i \in 1..Len(c) :
           c[i] = IF i <= Len(ledger[n]) THEN ledger[n][i] ELSE block[i - Len(ledger[n])]
  BY <1>3, ConcatProperties
<1> HIDE DEF c
<1>5. \A i \in 1..Len(ledger[n]) : i \in DOMAIN c /\ c[i] = ledger[n][i]
  BY <1>3, <1>4
<1>6. ASSUME NEW i \in 1..Len(block)
      PROVE  i + Len(ledger[n]) \in DOMAIN c /\ c[i + Len(ledger[n])] = block[i]
  <2>1. /\ i + Len(ledger[n]) \in 1..Len(c) /\ ~(i + Len(ledger[n]) <= Len(ledger[n]))
        /\ (i + Len(ledger[n])) - Len(ledger[n]) = i
    BY <1>3, <1>4
  <2> QED
    BY <1>4, <2>1
<1>7. Range(ledger[n]) \cup Range(block) \subseteq Range(c)
  BY <1>3, <1>5, <1>6 DEF Range
<1> QED
  BY <1>2, <1>7 DEF c

\* A step of handleNewPoll numbers a poll on from what is numbered already.
LEMMA NumberStep ==
  ASSUME TypeOK, NumberInv, OneAtATime, NEW r \in Request, HandlePostPolls(r) \/ HandleNewPoll(r)
  PROVE  NumberInv'
<1> USE VoteRumorerAssumption DEF VoteRumorerAssumption
<1>1. /\ By \in [Request -> Node] /\ pc \in [Request -> {"ask", "key", "read", "load", "store", "send", "sent"}]
      /\ loaded \in [Request -> Nat] /\ id \in [Request -> Nat] /\ pollId \in [Node -> Nat]
  BY DEF TypeOK
<1>2. CASE HandlePostPolls(r) \/ CreateKey(r)
  <2>1. /\ UNCHANGED <<id, loaded, pollId, pool, heard>> /\ pc[r] \notin {"load", "store", "send", "sent"}
        /\ pc' = [pc EXCEPT ![r] = "key"] \/ pc' = [pc EXCEPT ![r] = "read"]
    BY <1>2 DEF HandlePostPolls, CreateKey, Go, chainVars
  <2>2. /\ \A s \in Request : /\ Numbering(s)' <=> Numbering(s)
                              /\ Numbered(s)' <=> Numbered(s)
                              /\ pc[s] = "store" <=> pc'[s] = "store"
                              /\ pc[s] = "sent" <=> pc'[s] = "sent"
        /\ \A n \in Node : heard[n] \subseteq Request
    BY <1>1, <2>1 DEF Numbering, Numbered, TypeOK
  <2> QED
    BY <2>1, <2>2 DEF NumberInv, IsEqual
<1>3. CASE ReadPollId(r)
  BY <1>1, <1>3 DEF ReadPollId, Go, chainVars, NumberInv, Numbering, Numbered, IsEqual
<1>4. CASE LoadPollId(r)
  BY <1>1, <1>4 DEF LoadPollId, Go, chainVars, NumberInv, Numbering, Numbered, IsEqual
<1>5. CASE StorePollId(r)
  BY <1>1, <1>5 DEF StorePollId, Go, chainVars, NumberInv, Numbering, Numbered, IsEqual, OneAtATime
<1>6. CASE SendPoll(r)
  BY <1>1, <1>6 DEF SendPoll, Go, chainVars, NumberInv, Numbering, Numbered, IsEqual
<1> QED
  BY <1>2, <1>3, <1>4, <1>5, <1>6 DEF HandleNewPoll, NumberAndSend

\* What a node does with polls that were sent leaves their numbers alone, and no
\* poll gets out of a pool for one of another number.
LEMMA ChainStep ==
  ASSUME TypeOK, NumberInv, NothingLost, NEW n \in Node, Step(n)
  PROVE  NumberInv' /\ NothingLost'
<1>1. UNCHANGED pollVars
  BY DEF Step, RegisterName, Run, HandleNewVote, EncryptPanics, LockPolls, CountNothing,
         CountVotes, AddUnconfirmedTransaction, ConfirmPolls, ConfirmResult, pollVars
<1>2. CASE UNCHANGED <<pool, heard, ledger>>
  BY <1>1, <1>2 DEF NumberInv, NothingLost, Numbering, Numbered, IsEqual, pollVars
<1>3. ASSUME NEW r \in Request, AddUnconfirmedTransaction(n, r)
      PROVE  NumberInv' /\ NothingLost'
  <2>1. \A m \in Node : /\ pool'[m] = pool[m] \cup (IF m = n THEN {r} ELSE {})
                        /\ heard'[m] = heard[m] \cup (IF m = n THEN {r} ELSE {})
    BY <1>3 DEF AddUnconfirmedTransaction, TypeOK
  <2>2. pc[r] = "sent" /\ ledger' = ledger
    BY <1>3 DEF AddUnconfirmedTransaction
  <2> QED
    BY <1>1, <2>1, <2>2 DEF NumberInv, NothingLost, Numbering, Numbered, IsEqual, pollVars
<1>4. ASSUME NEW block \in BlockPolls(n), ConfirmPolls(n, block)
      PROVE  NumberInv' /\ NothingLost'
  <2>1. /\ Range(block) \subseteq pool[n]
        /\ Range(ledger[n]) \cup Range(block) \subseteq Range(ledger[n] \o block)
    BY BlockOnChain
  <2>2. /\ ledger'[n] = ledger[n] \o block /\ heard' = heard
        /\ pool'[n] = {s \in pool[n] : ~\E r \in Range(block) : IsEqual(r, s)}
        /\ \A m \in Node \ {n} : pool'[m] = pool[m] /\ ledger'[m] = ledger[m]
    <3> DEFINE left == {s \in pool[n] : ~\E r \in Range(block) : IsEqual(r, s)}
               longer == ledger[n] \o block
    <3>1. /\ ledger' = [ledger EXCEPT ![n] = longer] /\ heard' = heard
          /\ pool' = [pool EXCEPT ![n] = left]
      BY <1>4 DEF ConfirmPolls
    <3>2. DOMAIN pool = Node /\ DOMAIN ledger = Node
      BY DEF TypeOK
    <3> HIDE DEF left, longer
    <3>3. /\ ledger'[n] = longer /\ heard' = heard /\ pool'[n] = left
          /\ \A m \in Node \ {n} : pool'[m] = pool[m] /\ ledger'[m] = ledger[m]
      BY <3>1, <3>2
    <3> QED
      BY <3>3 DEF left, longer
  <2>3. ASSUME NEW s \in pool[n], s \notin pool'[n]
        PROVE  s \in Range(ledger'[n])
    <3>1. PICK r \in Range(block) : IsEqual(r, s)
      BY <2>2, <2>3
    <3>2. r \in Request /\ s \in Request /\ Numbered(r) /\ Numbered(s)
      BY <2>1 DEF NumberInv, Numbered, TypeOK
    <3>3. r = s
      BY <3>1, <3>2 DEF NumberInv
    <3> QED
      BY <2>1, <2>2, <3>3
  <2>4. NothingLost'
    <3>1. ASSUME NEW m \in Node, m # n
          PROVE  heard'[m] \subseteq pool'[m] \cup Range(ledger'[m])
      BY <2>2, <3>1 DEF NothingLost
    <3>2. heard'[n] \subseteq pool'[n] \cup Range(ledger'[n])
      BY <2>1, <2>2, <2>3 DEF NothingLost
    <3> QED
      BY <3>1, <3>2 DEF NothingLost
  <2>5. \A m \in Node : pool'[m] \subseteq pool[m]
    BY <2>2
  <2>6. NumberInv'
    BY <1>1, <2>2, <2>5 DEF NumberInv, Numbering, Numbered, IsEqual, pollVars
  <2> QED
    BY <2>4, <2>6
<1>5. \/ UNCHANGED <<pool, heard, ledger>>
      \/ \E r \in Request : AddUnconfirmedTransaction(n, r)
      \/ \E block \in BlockPolls(n) : ConfirmPolls(n, block)
  BY DEF Step, RegisterName, Run, HandleNewVote, EncryptPanics, LockPolls, CountNothing,
         CountVotes, ConfirmResult, chainVars
<1> QED
  BY <1>2, <1>3, <1>4, <1>5

(***************************************************************************)
(* However many polls users ask for, and in whatever order they reach the  *)
(* nodes and are confirmed there, none gets lost unless two goroutines of  *)
(* one node number their polls at the same time.                           *)
(***************************************************************************)
THEOREM PollsAreLostInRaces == Spec => OnlyRacesLosePolls
<1>1. Init => NumberInv /\ NothingLost
  BY DEF Init, NumberInv, NothingLost, Numbering, Numbered
<1>2. TypeOK /\ NumberInv /\ NothingLost /\ OneAtATime /\ [Next]_vars => NumberInv' /\ NothingLost'
  <2> SUFFICES ASSUME TypeOK, NumberInv, NothingLost, OneAtATime, [Next]_vars
               PROVE  NumberInv' /\ NothingLost'
    OBVIOUS
  <2>1. CASE UNCHANGED vars
    BY <2>1 DEF vars, pollVars, chainVars, NumberInv, NothingLost, Numbering, Numbered, IsEqual
  <2>2. ASSUME NEW r \in Request, HandlePostPolls(r) \/ HandleNewPoll(r)
        PROVE  NumberInv' /\ NothingLost'
    <3>1. UNCHANGED <<pool, heard, ledger>>
      BY <2>2 DEF HandlePostPolls, HandleNewPoll, NumberAndSend, CreateKey, ReadPollId,
                  LoadPollId, StorePollId, SendPoll, chainVars
    <3> QED
      BY <2>2, <3>1, NumberStep DEF NothingLost
  <2> QED
    BY <2>1, <2>2, ChainStep DEF Next
<1> QED
  BY <1>1, <1>2, TypeCorrect, PTL DEF Spec, OnlyRacesLosePolls
=============================================================================
