--------------------------- MODULE MongeringProofs ---------------------------
(***************************************************************************)
(* What TLAPS proves about mongering inside one node, for any number of    *)
(* goroutines, messages and peers and any capacity of a channel.           *)
(***************************************************************************)
EXTENDS Mongering, TLAPS, FiniteSetTheorems

(***************************************************************************)
(* The types, and that a goroutine with a status has the address of a      *)
(* peer, by which it looks things up in ackChans and mongeringWith.        *)
(***************************************************************************)
StatusOfPeer == \A g \in Goroutine :
  thread[g].pc \in {"rlock", "ack", "compare"} => thread[g].sender \in Peer

TypeInv == TypeOK /\ StatusOfPeer

\* The locals of a goroutine have their types when it starts or restarts.
LEMMA ThreadTypes ==
  ASSUME MongeringAssumption
  PROVE  /\ Idle \in Threads /\ Gone \in Threads
         /\ \A p \in Peer \cup {NoAddr}, m \in Msg \cup {NoMsg} : Mongers(p, m) \in Threads
         /\ \A p \in Peer, acks \in SUBSET Msg :
              [Idle EXCEPT !.pc = "rlock", !.sender = p, !.want = acks] \in Threads
PROOF
<1>1. 0 \in 0..AckCap
  BY DEF MongeringAssumption
<1>2. \A pc \in {"idle", "len", "done"} : Thread(pc) \in Threads
  BY <1>1 DEF Thread, Threads
<1>3. Idle \in Threads /\ Gone \in Threads
  BY <1>2 DEF Idle, Gone
<1>4. \A t \in Threads, p \in Peer \cup {NoAddr}, m \in Msg \cup {NoMsg} :
        [t EXCEPT !.pc = "len", !.sender = p, !.msg = m] \in Threads
  BY DEF Threads
<1>5. \A t \in Threads, p \in Peer, acks \in SUBSET Msg :
        [t EXCEPT !.pc = "rlock", !.sender = p, !.want = acks] \in Threads
  BY DEF Threads
<1> QED
  BY <1>3, <1>4, <1>5 DEF Mongers

\* A step that gives one goroutine new locals keeps the type of all of them.
LEMMA BecomesType ==
  ASSUME TypeInv, NEW g \in Goroutine, NEW t \in Threads, Becomes(g, t),
         t.pc \in {"rlock", "ack", "compare"} => t.sender \in Peer
  PROVE  thread' \in [Goroutine -> Threads] /\ StatusOfPeer'
PROOF
<1>1. thread \in [Goroutine -> Threads]
  BY DEF TypeInv, TypeOK
<1> QED
  BY <1>1 DEF TypeInv, StatusOfPeer, Becomes

\* A goroutine that goes on has its other locals unchanged.
LEMMA GoesType ==
  ASSUME TypeInv, NEW g \in Goroutine, NEW pc, Goes(g, pc),
         pc \in {"contains", "empty", "rand", "registering", "select", "delete", "deleting",
                 "again", "ack"},
         pc = "ack" => At(g, "rlock")
  PROVE  thread' \in [Goroutine -> Threads] /\ StatusOfPeer'
PROOF
<1>1. thread \in [Goroutine -> Threads]
  BY DEF TypeInv, TypeOK
<1>2. [thread[g] EXCEPT !.pc = pc] \in Threads
  BY <1>1 DEF Threads
<1>3. Becomes(g, [thread[g] EXCEPT !.pc = pc])
  BY DEF Goes, Becomes
<1>4. pc = "ack" => thread[g].sender \in Peer
  BY DEF TypeInv, StatusOfPeer, At
<1>5. /\ [thread[g] EXCEPT !.pc = pc].pc = pc
      /\ [thread[g] EXCEPT !.pc = pc].sender = thread[g].sender
  BY <1>1 DEF Threads
<1> QED
  BY <1>2, <1>3, <1>4, <1>5, BecomesType

-----------------------------------------------------------------------------
(***************************************************************************)
(* Type correctness.                                                       *)
(***************************************************************************)
LEMMA TypeInit == MongeringAssumption /\ Init => TypeInv
PROOF
<1> SUFFICES ASSUME MongeringAssumption, Init
             PROVE  TypeInv
  OBVIOUS
<1>1. thread \in [Goroutine -> Threads]
  BY ThreadTypes DEF Init
<1>2. \A g \in Goroutine : thread[g].pc = "idle"
  BY DEF Init, Idle, Thread
<1> QED
  BY <1>1, <1>2 DEF Init, TypeInv, TypeOK, StatusOfPeer, MongeringAssumption

\* A goroutine that starts for a message or a status.
LEMMA StartType ==
  ASSUME MongeringAssumption, TypeInv, NEW g \in Goroutine,
         \/ \E m \in Msg, p \in Mongerers : ReceiveMessage(g, p, m)
         \/ \E p \in Ackers, acks \in SUBSET Msg : ReceiveStatus(g, p, acks)
  PROVE  TypeInv'
PROOF
<1>1. ASSUME NEW m \in Msg, NEW p \in Mongerers, ReceiveMessage(g, p, m)
      PROVE  TypeInv'
  <2>1. p \in Peer \cup {NoAddr}
    BY DEF MongeringAssumption
  <2>2. Mongers(p, m) \in Threads /\ Mongers(p, m).pc = "len"
    BY <2>1, ThreadTypes DEF Mongers, Idle, Thread
  <2>3. thread' \in [Goroutine -> Threads] /\ StatusOfPeer'
    BY <1>1, <2>2, BecomesType DEF ReceiveMessage, Starts
  <2> QED
    BY <1>1, <2>1, <2>3 DEF ReceiveMessage, TypeInv, TypeOK
<1>2. ASSUME NEW p \in Ackers, NEW acks \in SUBSET Msg, ReceiveStatus(g, p, acks)
      PROVE  TypeInv'
  <2> DEFINE t == [Idle EXCEPT !.pc = "rlock", !.sender = p, !.want = acks]
  <2>1. p \in Peer
    BY DEF MongeringAssumption
  <2>2. t \in Threads /\ t.sender = p
    BY <2>1, ThreadTypes DEF Idle, Thread
  <2>3. Becomes(g, t)
    BY <1>2 DEF ReceiveStatus, Starts
  <2>4. thread' \in [Goroutine -> Threads] /\ StatusOfPeer'
    BY <2>1, <2>2, <2>3, BecomesType
  <2> QED
    BY <1>2, <2>1, <2>4 DEF ReceiveStatus, TypeInv, TypeOK
<1> QED
  BY <1>1, <1>2

\* The draw of a peer, and sendRumorWait with the map ackChans.
LEMMA MongerType ==
  ASSUME MongeringAssumption, TypeInv, NEW g \in Goroutine,
         \/ Len1(g) \/ Contains(g) \/ Len0(g) \/ \E p \in Peer : Rand(g, p)
         \/ CallLock(g) \/ Register(g) \/ SendRumor(g) \/ TimeOut(g) \/ Acknowledged(g)
         \/ Delete(g) \/ TryAgain(g)
  PROVE  TypeInv'
PROOF
<1>0. thread \in [Goroutine -> Threads] /\ thread[g] \in Threads
  BY DEF TypeInv, TypeOK
<1>1. /\ thread[g].sender \in Peer \cup {NoAddr} /\ thread[g].msg \in Msg \cup {NoMsg}
      /\ thread[g].ackChan \in 0..AckCap /\ 0 \in 0..AckCap
  BY <1>0 DEF Threads, MongeringAssumption
<1>2. Gone \in Threads /\ Gone.pc = "done"
  BY ThreadTypes DEF Gone, Thread
<1>3. ASSUME Len1(g) \/ Contains(g) \/ Len0(g) \/ SendRumor(g) \/ TimeOut(g)
      PROVE  TypeInv'
  <2>1. thread' \in [Goroutine -> Threads] /\ StatusOfPeer'
    BY <1>3, <1>2, BecomesType, GoesType DEF Len1, Contains, Len0, SendRumor, TimeOut
  <2> QED
    BY <1>3, <2>1 DEF Len1, Contains, Len0, SendRumor, TimeOut, Looking, TypeInv, TypeOK
<1>4. ASSUME NEW p \in Peer, Rand(g, p)
      PROVE  TypeInv'
  <2> DEFINE t == [thread[g] EXCEPT !.pc = "register", !.to = p]
  <2>1. t \in Threads /\ t.pc = "register"
    BY <1>0 DEF Threads
  <2>2. thread' \in [Goroutine -> Threads] /\ StatusOfPeer'
    BY <1>4, <2>1, BecomesType DEF Rand
  <2> QED
    BY <1>1, <1>4, <2>2 DEF Rand, TypeInv, TypeOK
<1>5. ASSUME CallLock(g)
      PROVE  TypeInv'
  <2>1. thread' \in [Goroutine -> Threads] /\ StatusOfPeer'
    BY <1>5, GoesType DEF CallLock
  <2> QED
    BY <1>5, <2>1 DEF CallLock, TypeInv, TypeOK
<1>6. \A c \in Goroutine \cup {Nobody} :
        SetAckChan(g, c) => ackChans' \in [Peer -> [Msg -> Goroutine \cup {Nobody}]]
  <2> SUFFICES ASSUME NEW c \in Goroutine \cup {Nobody}, SetAckChan(g, c)
               PROVE  ackChans' \in [Peer -> [Msg -> Goroutine \cup {Nobody}]]
    OBVIOUS
  <2>1. ackChans \in [Peer -> [Msg -> Goroutine \cup {Nobody}]]
    BY DEF TypeInv, TypeOK
  <2>2. \A p \in Peer :
          [ackChans[p] EXCEPT ![thread[g].msg] = c] \in [Msg -> Goroutine \cup {Nobody}]
    BY <2>1
  <2> QED
    BY <2>1, <2>2 DEF SetAckChan
<1>7. ASSUME Register(g)
      PROVE  TypeInv'
  <2> DEFINE t == [thread[g] EXCEPT !.pc = "send", !.ackChan = 0]
  <2>1. t \in Threads /\ t.pc = "send"
    BY <1>0, <1>1 DEF Threads
  <2>2. thread' \in [Goroutine -> Threads] /\ StatusOfPeer'
    BY <1>7, <2>1, BecomesType DEF Register
  <2> QED
    BY <1>6, <1>7, <2>2 DEF Register, TypeInv, TypeOK
<1>8. ASSUME Acknowledged(g)
      PROVE  TypeInv'
  <2> DEFINE t == [thread[g] EXCEPT !.pc = "delete", !.acked = TRUE, !.ackChan = @ - 1]
  <2>1. thread[g].ackChan - 1 \in 0..AckCap
    BY <1>1, <1>8 DEF Acknowledged, MongeringAssumption
  <2>2. t \in Threads /\ t.pc = "delete"
    BY <1>0, <2>1 DEF Threads
  <2>3. thread' \in [Goroutine -> Threads] /\ StatusOfPeer'
    BY <1>8, <2>2, BecomesType DEF Acknowledged
  <2> QED
    BY <1>8, <2>3 DEF Acknowledged, Looking, TypeInv, TypeOK
<1>9. ASSUME Delete(g)
      PROVE  TypeInv'
  <2>1. thread' \in [Goroutine -> Threads] /\ StatusOfPeer'
    BY <1>2, <1>9, BecomesType, GoesType DEF Delete
  <2> QED
    BY <1>6, <1>9, <2>1 DEF Delete, TypeInv, TypeOK
<1>10. ASSUME TryAgain(g)
       PROVE  TypeInv'
  <2> DEFINE t == Mongers(thread[g].sender, thread[g].msg)
  <2>1. t \in Threads /\ t.pc = "len"
    BY <1>1, ThreadTypes DEF Mongers, Idle, Thread
  <2>2. thread' \in [Goroutine -> Threads] /\ StatusOfPeer'
    BY <1>10, <2>1, BecomesType DEF TryAgain
  <2> QED
    BY <1>10, <2>2 DEF TryAgain, TypeInv, TypeOK
<1> QED
  BY <1>3, <1>4, <1>5, <1>7, <1>8, <1>9, <1>10

\* An acknowledgement changes what is in a channel and what is left to look up.
LEMMA SendAckThreads ==
  ASSUME MongeringAssumption, TypeInv, NEW g \in Goroutine, NEW m \in Msg, SendAck(g, m)
  PROVE  /\ thread' \in [Goroutine -> Threads]
         /\ \A h \in Goroutine :
              /\ thread'[h].pc = thread[h].pc /\ thread'[h].sender = thread[h].sender
              /\ thread'[h].to = thread[h].to /\ thread'[h].msg = thread[h].msg
PROOF
<1> DEFINE c == AckChan(g, m)
<1>0. thread \in [Goroutine -> Threads]
  BY DEF TypeInv, TypeOK
<1>1. thread[g].sender \in Peer
  BY DEF SendAck, At, TypeInv, StatusOfPeer
<1>2. c \in Goroutine
  <2>1. c \in Goroutine \cup {Nobody}
    BY <1>1 DEF AckChan, TypeInv, TypeOK
  <2> QED
    BY <2>1 DEF SendAck, Acknowledges
<1>3. thread[c] \in Threads /\ thread[c].ackChan + 1 \in 0..AckCap
  BY <1>0, <1>2 DEF SendAck, Threads, MongeringAssumption
<1> DEFINE mid == [thread EXCEPT ![c].ackChan = @ + 1]
<1>4. mid \in [Goroutine -> Threads]
  BY <1>0, <1>2, <1>3 DEF Threads
<1>5. thread' = [mid EXCEPT ![g].want = @ \ {m}]
  BY DEF SendAck
<1>6. thread' \in [Goroutine -> Threads]
  BY <1>4, <1>5 DEF Threads
<1>7. \A h \in Goroutine :
        /\ mid[h].pc = thread[h].pc /\ mid[h].sender = thread[h].sender
        /\ mid[h].to = thread[h].to /\ mid[h].msg = thread[h].msg
  BY <1>0, <1>2 DEF Threads
<1>8. \A h \in Goroutine :
        /\ thread'[h].pc = mid[h].pc /\ thread'[h].sender = mid[h].sender
        /\ thread'[h].to = mid[h].to /\ thread'[h].msg = mid[h].msg
  BY <1>4, <1>5 DEF Threads
<1> QED
  BY <1>6, <1>7, <1>8

\* handleStatus.
LEMMA HandleStatusType ==
  ASSUME MongeringAssumption, TypeInv, NEW g \in Goroutine,
         \/ RLock(g) \/ RUnlock(g)
         \/ \E m \in Msg : SendAck(g, m)
         \/ \E inSync, heads \in BOOLEAN : Compare(g, inSync, heads)
  PROVE  TypeInv'
PROOF
<1>0. thread \in [Goroutine -> Threads] /\ thread[g] \in Threads
  BY DEF TypeInv, TypeOK
<1>1. ASSUME RLock(g)
      PROVE  TypeInv'
  <2>1. thread' \in [Goroutine -> Threads] /\ StatusOfPeer'
    BY <1>1, GoesType DEF RLock
  <2> QED
    BY <1>1, <2>1 DEF RLock, Looking, TypeInv, TypeOK
<1>2. ASSUME RUnlock(g)
      PROVE  TypeInv'
  <2> DEFINE t == [thread[g] EXCEPT !.pc = "compare", !.want = {}]
  <2>1. t \in Threads /\ t.sender = thread[g].sender
    BY <1>0 DEF Threads
  <2>2. thread[g].sender \in Peer
    BY <1>2 DEF RUnlock, At, TypeInv, StatusOfPeer
  <2>3. thread' \in [Goroutine -> Threads] /\ StatusOfPeer'
    BY <1>2, <2>1, <2>2, BecomesType DEF RUnlock
  <2> QED
    BY <1>2, <2>3 DEF RUnlock, Looking, TypeInv, TypeOK
<1>3. ASSUME NEW m \in Msg, SendAck(g, m)
      PROVE  TypeInv'
  <2>1. thread' \in [Goroutine -> Threads]
    BY <1>3, SendAckThreads
  <2>2. StatusOfPeer'
    BY <1>3, SendAckThreads DEF TypeInv, StatusOfPeer
  <2> QED
    BY <1>3, <2>1, <2>2 DEF SendAck, Looking, TypeInv, TypeOK
<1>4. ASSUME NEW inSync \in BOOLEAN, NEW heads \in BOOLEAN, Compare(g, inSync, heads)
      PROVE  TypeInv'
  <2>1. thread[g].sender \in Peer
    BY <1>4 DEF Compare, At, TypeInv, StatusOfPeer
  <2> DEFINE t == IF heads THEN Mongers(thread[g].sender, mongeringWith[thread[g].sender]) ELSE Gone
  <2>2. t \in Threads /\ t.pc \in {"len", "done"}
    BY <2>1, ThreadTypes DEF TypeInv, TypeOK, Mongers, Idle, Gone, Thread
  <2>3. thread' \in [Goroutine -> Threads] /\ StatusOfPeer'
    BY <1>4, <2>2, BecomesType DEF Compare
  <2>4. mongeringWith' \in [Peer -> Msg \cup {NoMsg}]
    BY <1>4 DEF Compare, TypeInv, TypeOK
  <2> QED
    BY <1>4, <2>3, <2>4 DEF Compare, TypeInv, TypeOK
<1> QED
  BY <1>1, <1>2, <1>3, <1>4

\* The steps of the node, by what they are part of.
LEMMA StepCases ==
  ASSUME [Next]_vars
  PROVE  \/ UNCHANGED vars
         \/ \E p \in Peer : AddPeer(p)
         \/ \E g \in Goroutine :
              \/ \E m \in Msg, p \in Mongerers : ReceiveMessage(g, p, m)
              \/ \E p \in Ackers, acks \in SUBSET Msg : ReceiveStatus(g, p, acks)
              \/ Len1(g) \/ Contains(g) \/ Len0(g) \/ \E p \in Peer : Rand(g, p)
              \/ CallLock(g) \/ Register(g) \/ SendRumor(g) \/ TimeOut(g) \/ Acknowledged(g)
              \/ Delete(g) \/ TryAgain(g)
              \/ RLock(g) \/ RUnlock(g)
              \/ \E m \in Msg : SendAck(g, m)
              \/ \E inSync, heads \in BOOLEAN : Compare(g, inSync, heads)
PROOF
  BY DEF Next, Proceed

\* Every step keeps the types.
LEMMA TypeStep ==
  ASSUME MongeringAssumption, TypeInv, [Next]_vars
  PROVE  TypeInv'
PROOF
<1>1. CASE UNCHANGED vars
  BY <1>1 DEF vars, TypeInv, TypeOK, StatusOfPeer
<1>2. ASSUME NEW p \in Peer, AddPeer(p)
      PROVE  TypeInv'
  BY <1>2 DEF AddPeer, TypeInv, TypeOK, StatusOfPeer
<1> QED
  BY <1>1, <1>2, StepCases, StartType, MongerType, HandleStatusType

\* Every variable of the node keeps its type, for any number of goroutines.
THEOREM TypeCorrect == Spec => []TypeOK
PROOF
<1>1. Init => TypeInv
  BY TypeInit, MongeringAssumption
<1>2. TypeInv /\ [Next]_vars => TypeInv'
  BY TypeStep, MongeringAssumption
<1>3. TypeInv => TypeOK
  BY DEF TypeInv
<1> QED
  BY <1>1, <1>2, <1>3, PTL DEF Spec
-----------------------------------------------------------------------------
(***************************************************************************)
(* The draw of RandExcept.  The address that a goroutine excludes is in    *)
(* the peer set, or is that of the node itself; past the look at its size, *)
(* the set has somebody else than an excluded peer; and past the look      *)
(* whether it is empty it is not.                                          *)
(***************************************************************************)
MayDraw(t, ps) ==
  /\ t.sender \in ps \cup {NoAddr}
  /\ t.pc \in {"empty", "rand"} => t.sender = NoAddr \/ ps \ {t.sender} # {}
  /\ t.pc = "rand" => ps # {}

DrawInv == \A g \in Goroutine : MayDraw(thread[g], peers)

\* One goroutine goes on, and the set does not lose anybody.
LEMMA DrawBecomes ==
  ASSUME TypeInv, DrawInv, NEW g \in Goroutine, NEW t, Becomes(g, t),
         peers \subseteq peers', MayDraw(t, peers')
  PROVE  DrawInv'
PROOF
<1>1. thread \in [Goroutine -> Threads]
  BY DEF TypeInv, TypeOK
<1>2. \A h \in Goroutine : thread'[h] = IF h = g THEN t ELSE thread[h]
  BY <1>1 DEF Becomes
<1>3. \A h \in Goroutine : MayDraw(thread[h], peers')
  BY DEF DrawInv, MayDraw
<1> QED
  BY <1>2, <1>3 DEF DrawInv

\* A goroutine that has nothing to draw, or has drawn.
LEMMA DrawGoes ==
  ASSUME TypeInv, DrawInv, NEW g \in Goroutine, NEW pc, Goes(g, pc),
         pc \notin {"empty", "rand"}, UNCHANGED peers
  PROVE  DrawInv'
PROOF
<1>1. thread[g] \in Threads
  BY DEF TypeInv, TypeOK
<1> DEFINE t == [thread[g] EXCEPT !.pc = pc]
<1>2. t.pc = pc /\ t.sender = thread[g].sender
  BY <1>1 DEF Threads
<1>3. MayDraw(t, peers)
  BY <1>2 DEF MayDraw, DrawInv
<1>4. Becomes(g, t)
  BY DEF Goes, Becomes
<1> QED
  BY <1>3, <1>4, DrawBecomes

\* The looks of RandExcept at the set, and what they leave to be drawn.
LEMMA DrawLooks ==
  ASSUME TypeInv, DrawInv, NEW g \in Goroutine, Len1(g) \/ Contains(g) \/ Len0(g)
  PROVE  DrawInv'
PROOF
<1>0. thread[g] \in Threads /\ MayDraw(thread[g], peers)
  BY DEF TypeInv, TypeOK, DrawInv
<1>1. UNCHANGED peers
  BY DEF Len1, Contains, Len0, Looking
<1>2. CASE Becomes(g, Gone)
  <2>1. MayDraw(Gone, peers)
    BY DEF MayDraw, Gone, Thread
  <2> QED
    BY <1>1, <1>2, <2>1, DrawBecomes
<1>3. CASE Goes(g, "contains")
  BY <1>1, <1>3, DrawGoes
<1>4. CASE Goes(g, "empty") /\ (Len1(g) \/ Contains(g))
  <2> DEFINE t == [thread[g] EXCEPT !.pc = "empty"]
  <2>1. Becomes(g, t)
    BY <1>4 DEF Goes, Becomes
  <2>2. t.pc = "empty" /\ t.sender = thread[g].sender
    BY <1>0 DEF Threads
  <2>3. CASE Len1(g) /\ Cardinality(peers) # 1
    <3>1. peers # {thread[g].sender}
      BY <2>3, FS_Singleton
    <3>2. thread[g].sender = NoAddr \/ peers \ {thread[g].sender} # {}
      BY <1>0, <3>1 DEF MayDraw
    <3>3. MayDraw(t, peers)
      BY <1>0, <2>2, <3>2 DEF MayDraw
    <3> QED
      BY <1>1, <2>1, <3>3, DrawBecomes
  <2>4. CASE Contains(g) /\ thread[g].sender \notin peers
    <3>1. thread[g].sender = NoAddr
      BY <1>0, <2>4 DEF MayDraw
    <3>2. MayDraw(t, peers)
      BY <2>2, <3>1 DEF MayDraw
    <3> QED
      BY <1>1, <2>1, <3>2, DrawBecomes
  <2>5. CASE Len1(g) /\ Cardinality(peers) = 1
    BY <1>1, <2>5, DrawGoes DEF Len1
  <2>6. CASE Contains(g) /\ thread[g].sender \in peers
    <3>1. Becomes(g, Gone)
      BY <2>6 DEF Contains
    <3> QED
      BY <1>2, <3>1
  <2> QED
    BY <1>4, <2>3, <2>4, <2>5, <2>6
<1>5. CASE Len0(g) /\ peers # {}
  <2> DEFINE t == [thread[g] EXCEPT !.pc = "rand"]
  <2>1. Becomes(g, t)
    BY <1>5 DEF Len0, Goes, Becomes
  <2>2. t.pc = "rand" /\ t.sender = thread[g].sender
    BY <1>0 DEF Threads
  <2>3. thread[g].sender = NoAddr \/ peers \ {thread[g].sender} # {}
    BY <1>0, <1>5 DEF Len0, At, MayDraw
  <2>4. MayDraw(t, peers)
    BY <1>0, <1>5, <2>2, <2>3 DEF MayDraw
  <2> QED
    BY <1>1, <2>1, <2>4, DrawBecomes
<1> QED
  BY <1>2, <1>3, <1>4, <1>5 DEF Len1, Contains, Len0

\* Every step keeps what the draw relies on.
LEMMA DrawStep ==
  ASSUME MongeringAssumption, TypeInv, DrawInv, [Next]_vars
  PROVE  DrawInv'
PROOF
<1>0. \A g \in Goroutine : thread[g] \in Threads /\ MayDraw(thread[g], peers)
  BY DEF TypeInv, TypeOK, DrawInv
<1>1. CASE UNCHANGED vars
  BY <1>1 DEF vars, DrawInv
<1>2. ASSUME NEW p \in Peer, AddPeer(p)
      PROVE  DrawInv'
  BY <1>2 DEF AddPeer, DrawInv, MayDraw
<1>3. ASSUME NEW g \in Goroutine, NEW m \in Msg, NEW p \in Mongerers, ReceiveMessage(g, p, m)
      PROVE  DrawInv'
  <2>1. MayDraw(Mongers(p, m), peers')
    BY <1>3 DEF ReceiveMessage, MayDraw, Mongers, Idle, Thread
  <2>2. Becomes(g, Mongers(p, m)) /\ peers \subseteq peers'
    BY <1>3 DEF ReceiveMessage, Starts
  <2> QED
    BY <2>1, <2>2, DrawBecomes
<1>4. ASSUME NEW g \in Goroutine, NEW p \in Ackers, NEW acks \in SUBSET Msg,
             ReceiveStatus(g, p, acks)
      PROVE  DrawInv'
  <2> DEFINE t == [Idle EXCEPT !.pc = "rlock", !.sender = p, !.want = acks]
  <2>1. MayDraw(t, peers')
    BY <1>4 DEF ReceiveStatus, MayDraw, Idle, Thread
  <2>2. Becomes(g, t) /\ peers \subseteq peers'
    BY <1>4 DEF ReceiveStatus, Starts
  <2> QED
    BY <2>1, <2>2, DrawBecomes
<1>5. ASSUME NEW g \in Goroutine, Len1(g) \/ Contains(g) \/ Len0(g)
      PROVE  DrawInv'
  BY <1>5, DrawLooks
<1>6. ASSUME NEW g \in Goroutine, NEW p \in Peer, Rand(g, p)
      PROVE  DrawInv'
  <2> DEFINE t == [thread[g] EXCEPT !.pc = "register", !.to = p]
  <2>1. t.pc = "register" /\ t.sender = thread[g].sender
    BY <1>0 DEF Threads
  <2>2. MayDraw(t, peers')
    BY <1>0, <1>6, <2>1 DEF Rand, MayDraw
  <2> QED
    BY <1>6, <2>2, DrawBecomes DEF Rand
<1>7. ASSUME NEW g \in Goroutine, CallLock(g) \/ SendRumor(g) \/ TimeOut(g) \/ RLock(g)
      PROVE  DrawInv'
  BY <1>7, DrawGoes DEF CallLock, SendRumor, TimeOut, RLock, Looking
<1>8. ASSUME NEW g \in Goroutine, Register(g) \/ Acknowledged(g) \/ RUnlock(g)
      PROVE  DrawInv'
  <2>1. PICK t : /\ Becomes(g, t) /\ t.sender = thread[g].sender
                 /\ t.pc \in {"send", "delete", "compare"}
    <3>1. LET t == [thread[g] EXCEPT !.pc = "send", !.ackChan = 0]
          IN  t.sender = thread[g].sender /\ t.pc = "send"
      BY <1>0 DEF Threads
    <3>2. LET t == [thread[g] EXCEPT !.pc = "delete", !.acked = TRUE, !.ackChan = @ - 1]
          IN  t.sender = thread[g].sender /\ t.pc = "delete"
      BY <1>0 DEF Threads
    <3>3. LET t == [thread[g] EXCEPT !.pc = "compare", !.want = {}]
          IN  t.sender = thread[g].sender /\ t.pc = "compare"
      BY <1>0 DEF Threads
    <3> QED
      BY <1>8, <3>1, <3>2, <3>3 DEF Register, Acknowledged, RUnlock
  <2>2. MayDraw(t, peers)
    BY <1>0, <2>1 DEF MayDraw
  <2> QED
    BY <1>8, <2>1, <2>2, DrawBecomes DEF Register, Acknowledged, RUnlock, Looking
<1>9. ASSUME NEW g \in Goroutine, Delete(g)
      PROVE  DrawInv'
  <2>1. MayDraw(Gone, peers)
    BY DEF MayDraw, Gone, Thread
  <2> QED
    BY <1>9, <2>1, DrawBecomes, DrawGoes DEF Delete
<1>10. ASSUME NEW g \in Goroutine, TryAgain(g)
       PROVE  DrawInv'
  <2> DEFINE t == Mongers(thread[g].sender, thread[g].msg)
  <2>1. MayDraw(t, peers)
    BY <1>0 DEF MayDraw, Mongers, Idle, Thread
  <2> QED
    BY <1>10, <2>1, DrawBecomes DEF TryAgain
<1>11. ASSUME NEW g \in Goroutine, NEW m \in Msg, SendAck(g, m)
       PROVE  DrawInv'
  <2>1. \A h \in Goroutine : thread'[h].pc = thread[h].pc /\ thread'[h].sender = thread[h].sender
    BY <1>11, SendAckThreads
  <2> QED
    BY <1>11, <2>1 DEF SendAck, Looking, DrawInv, MayDraw
<1>12. ASSUME NEW g \in Goroutine, NEW inSync \in BOOLEAN, NEW heads \in BOOLEAN,
              Compare(g, inSync, heads)
       PROVE  DrawInv'
  <2> DEFINE t == IF heads THEN Mongers(thread[g].sender, mongeringWith[thread[g].sender]) ELSE Gone
  <2>1. MayDraw(t, peers)
    BY <1>0 DEF MayDraw, Mongers, Idle, Gone, Thread
  <2> QED
    BY <1>12, <2>1, DrawBecomes DEF Compare
<1> QED
  BY <1>1, <1>2, <1>3, <1>4, <1>5, <1>6, <1>7, <1>8, <1>9, <1>10, <1>11, <1>12, StepCases

\* RandExcept never draws from a set with nobody else than the peer it
\* excludes: the loop in it ends, whoever becomes a peer between its looks.
THEOREM DrawEnds == Spec => []SomebodyElse
PROOF
<1>1. Init => TypeInv /\ DrawInv
  <2>1. Init => DrawInv
    BY DEF Init, DrawInv, MayDraw, Idle, Thread
  <2> QED
    BY <2>1, TypeInit, MongeringAssumption
<1>2. TypeInv /\ DrawInv /\ [Next]_vars => TypeInv' /\ DrawInv'
  BY TypeStep, DrawStep, MongeringAssumption
<1>3. TypeInv /\ DrawInv => SomebodyElse
  BY MongeringAssumption DEF TypeInv, TypeOK, DrawInv, MayDraw, SomebodyElse, At, MongeringAssumption
<1> QED
  BY <1>1, <1>2, <1>3, PTL DEF Spec
-----------------------------------------------------------------------------
(***************************************************************************)
(* The entries of ackChans: where a goroutine may have one, and that a     *)
(* step which leaves it there leaves it what it mongers, and with whom.    *)
(***************************************************************************)
Waiting == {"send", "select", "delete", "deleting"}

StillWaits(old, new) ==
  old.pc \in Waiting => new.pc \in Waiting /\ new.to = old.to /\ new.msg = old.msg

\* A goroutine goes on, and nobody's entry changes.
LEMMA EntryBecomes ==
  ASSUME TypeInv, NoDeadEntry, NEW g \in Goroutine, NEW t, Becomes(g, t),
         StillWaits(thread[g], t), UNCHANGED ackChans
  PROVE  NoDeadEntry'
PROOF
<1>1. \A h \in Goroutine : thread'[h] = IF h = g THEN t ELSE thread[h]
  BY DEF TypeInv, TypeOK, Becomes
<1>2. \A p \in Peer, m \in Msg : ackChans[p][m] \in Goroutine \cup {Nobody}
  BY DEF TypeInv, TypeOK
<1> QED
  BY <1>1, <1>2 DEF NoDeadEntry, StillWaits, Waiting

\* The same for a goroutine whose other locals stay.
LEMMA EntryGoes ==
  ASSUME TypeInv, NoDeadEntry, NEW g \in Goroutine, NEW pc, Goes(g, pc),
         thread[g].pc \in Waiting => pc \in Waiting, UNCHANGED ackChans
  PROVE  NoDeadEntry'
PROOF
<1>1. thread[g] \in Threads
  BY DEF TypeInv, TypeOK
<1> DEFINE t == [thread[g] EXCEPT !.pc = pc]
<1>2. StillWaits(thread[g], t)
  BY <1>1 DEF Threads, StillWaits
<1>3. Becomes(g, t)
  BY DEF Goes, Becomes
<1> QED
  BY <1>2, <1>3, EntryBecomes

\* Who registers has no entry elsewhere.
LEMMA EntryRegister ==
  ASSUME TypeInv, NoDeadEntry, NEW g \in Goroutine, Register(g)
  PROVE  NoDeadEntry'
PROOF
<1>0. thread \in [Goroutine -> Threads] /\ thread[g] \in Threads
  BY DEF TypeInv, TypeOK
<1> DEFINE t == [thread[g] EXCEPT !.pc = "send", !.ackChan = 0]
<1>1. t.pc = "send" /\ t.to = thread[g].to /\ t.msg = thread[g].msg
  BY <1>0 DEF Threads
<1>2. \A h \in Goroutine : thread'[h] = IF h = g THEN t ELSE thread[h]
  BY <1>0 DEF Register, Becomes
<1>3. ackChans \in [Peer -> [Msg -> Goroutine \cup {Nobody}]]
  BY DEF TypeInv, TypeOK
<1>4. \A p \in Peer, m \in Msg : ackChans'[p][m] =
        IF p = thread[g].to /\ m = thread[g].msg THEN g ELSE ackChans[p][m]
  BY <1>3 DEF Register, SetAckChan
<1>5. \A p \in Peer, m \in Msg : ackChans[p][m] # g
  BY DEF Register, At, NoDeadEntry, Nobody, Goroutine
<1>6. \A p \in Peer, m \in Msg : ackChans[p][m] \in Goroutine \cup {Nobody}
  BY <1>3
<1> SUFFICES ASSUME NEW p \in Peer, NEW m \in Msg, ackChans'[p][m] # Nobody
             PROVE  LET h == ackChans'[p][m] IN
                      /\ thread'[h].pc \in {"send", "select", "delete", "deleting"}
                      /\ thread'[h].to = p /\ thread'[h].msg = m
  BY DEF NoDeadEntry
<1>7. CASE p = thread[g].to /\ m = thread[g].msg
  BY <1>1, <1>2, <1>4, <1>7
<1>8. CASE ~(p = thread[g].to /\ m = thread[g].msg)
  <2>1. ackChans'[p][m] = ackChans[p][m] /\ ackChans[p][m] \in Goroutine
    BY <1>4, <1>6, <1>8
  <2>2. thread'[ackChans[p][m]] = thread[ackChans[p][m]]
    BY <1>2, <1>5, <2>1
  <2> QED
    BY <2>1, <2>2 DEF NoDeadEntry
<1> QED
  BY <1>7, <1>8

\* Who deletes, deletes its own entry if it still has one.
LEMMA EntryDelete ==
  ASSUME TypeInv, NoDeadEntry, NEW g \in Goroutine, Delete(g)
  PROVE  NoDeadEntry'
PROOF
<1>0. thread \in [Goroutine -> Threads]
  BY DEF TypeInv, TypeOK
<1>1. \A h \in Goroutine : h # g => thread'[h] = thread[h]
  BY <1>0 DEF Delete, Becomes, Goes
<1>2. ackChans \in [Peer -> [Msg -> Goroutine \cup {Nobody}]]
  BY DEF TypeInv, TypeOK
<1>3. \A p \in Peer, m \in Msg : ackChans'[p][m] =
        IF p = thread[g].to /\ m = thread[g].msg THEN Nobody ELSE ackChans[p][m]
  BY <1>2 DEF Delete, SetAckChan
<1>4. \A p \in Peer, m \in Msg : ackChans'[p][m] # g
  BY <1>3 DEF NoDeadEntry, Nobody, Goroutine
<1>5. \A p \in Peer, m \in Msg : ackChans[p][m] \in Goroutine \cup {Nobody}
  BY <1>2
<1> QED
  BY <1>1, <1>3, <1>4, <1>5 DEF NoDeadEntry

\* Every step keeps each entry with a goroutine that waits at its channel.
LEMMA EntryStep ==
  ASSUME MongeringAssumption, TypeInv, NoDeadEntry, [Next]_vars
  PROVE  NoDeadEntry'
PROOF
<1>0. \A g \in Goroutine : thread[g] \in Threads
  BY DEF TypeInv, TypeOK
<1>1. CASE UNCHANGED vars
  BY <1>1 DEF vars, NoDeadEntry
<1>2. ASSUME NEW p \in Peer, AddPeer(p)
      PROVE  NoDeadEntry'
  BY <1>2 DEF AddPeer, NoDeadEntry
<1>3. ASSUME NEW g \in Goroutine,
             \/ \E m \in Msg, p \in Mongerers : ReceiveMessage(g, p, m)
             \/ \E p \in Ackers, acks \in SUBSET Msg : ReceiveStatus(g, p, acks)
      PROVE  NoDeadEntry'
  <2>0. g >= g
    BY MongeringAssumption DEF Goroutine, MongeringAssumption
  <2>1. PICK t : Becomes(g, t) /\ At(g, "idle") /\ UNCHANGED ackChans
    BY <1>3, <2>0 DEF ReceiveMessage, ReceiveStatus, Starts
  <2>2. StillWaits(thread[g], t)
    BY <2>1 DEF At, StillWaits, Waiting
  <2> QED
    BY <2>1, <2>2, EntryBecomes
<1>4. ASSUME NEW g \in Goroutine,
             Len1(g) \/ Contains(g) \/ Len0(g) \/ RLock(g) \/ CallLock(g) \/ SendRumor(g) \/ TimeOut(g)
      PROVE  NoDeadEntry'
  <2>1. UNCHANGED ackChans
    BY <1>4 DEF Len1, Contains, Len0, RLock, CallLock, SendRumor, TimeOut, Looking
  <2>2. CASE Becomes(g, Gone) /\ thread[g].pc \notin Waiting
    <3>1. StillWaits(thread[g], Gone)
      BY <2>2 DEF StillWaits
    <3> QED
      BY <2>1, <2>2, <3>1, EntryBecomes
  <2>3. CASE \E pc : Goes(g, pc) /\ (thread[g].pc \in Waiting => pc \in Waiting)
    BY <2>1, <2>3, EntryGoes
  <2> QED
    BY <1>4, <2>2, <2>3 DEF Len1, Contains, Len0, RLock, CallLock, SendRumor, TimeOut, At, Waiting
<1>5. ASSUME NEW g \in Goroutine, NEW p \in Peer, Rand(g, p)
      PROVE  NoDeadEntry'
  <2>1. \A t : StillWaits(thread[g], t)
    BY <1>5 DEF Rand, At, StillWaits, Waiting
  <2> QED
    BY <1>5, <2>1, EntryBecomes DEF Rand
<1>6. ASSUME NEW g \in Goroutine, Acknowledged(g)
      PROVE  NoDeadEntry'
  <2> DEFINE t == [thread[g] EXCEPT !.pc = "delete", !.acked = TRUE, !.ackChan = @ - 1]
  <2>1. StillWaits(thread[g], t)
    BY <1>0 DEF Threads, StillWaits, Waiting
  <2> QED
    BY <1>6, <2>1, EntryBecomes DEF Acknowledged, Looking
<1>7. ASSUME NEW g \in Goroutine, TryAgain(g)
      PROVE  NoDeadEntry'
  <2>1. \A t : StillWaits(thread[g], t)
    BY <1>7 DEF TryAgain, At, StillWaits, Waiting
  <2> QED
    BY <1>7, <2>1, EntryBecomes DEF TryAgain
<1>8. ASSUME NEW g \in Goroutine, RUnlock(g)
      PROVE  NoDeadEntry'
  <2>1. \A t : StillWaits(thread[g], t)
    BY <1>8 DEF RUnlock, At, StillWaits, Waiting
  <2> QED
    BY <1>8, <2>1, EntryBecomes DEF RUnlock, Looking
<1>9. ASSUME NEW g \in Goroutine, NEW m \in Msg, SendAck(g, m)
      PROVE  NoDeadEntry'
  <2>1. \A p \in Peer, n \in Msg : ackChans[p][n] \in Goroutine \cup {Nobody}
    BY DEF TypeInv, TypeOK
  <2>2. \A h \in Goroutine : /\ thread'[h].pc = thread[h].pc
                             /\ thread'[h].to = thread[h].to /\ thread'[h].msg = thread[h].msg
    BY <1>9, SendAckThreads
  <2>3. UNCHANGED ackChans
    BY <1>9 DEF SendAck, Looking
  <2> SUFFICES ASSUME NEW p \in Peer, NEW n \in Msg, ackChans[p][n] # Nobody
               PROVE  LET h == ackChans[p][n] IN
                        /\ thread'[h].pc \in {"send", "select", "delete", "deleting"}
                        /\ thread'[h].to = p /\ thread'[h].msg = n
    BY <2>3 DEF NoDeadEntry
  <2> QED
    BY <2>1, <2>2 DEF NoDeadEntry
<1>10. ASSUME NEW g \in Goroutine, NEW inSync \in BOOLEAN, NEW heads \in BOOLEAN,
              Compare(g, inSync, heads)
       PROVE  NoDeadEntry'
  <2>1. \A t : StillWaits(thread[g], t)
    BY <1>10 DEF Compare, At, StillWaits, Waiting
  <2> QED
    BY <1>10, <2>1, EntryBecomes DEF Compare
<1> QED
  BY <1>1, <1>2, <1>3, <1>4, <1>5, <1>6, <1>7, <1>8, <1>9, <1>10, EntryRegister, EntryDelete,
     StepCases

\* Nobody's channel stays in ackChans when its goroutine has given up or is
\* done, however many goroutines overwrite and delete each other's entries.
THEOREM EntriesLive == Spec => []NoDeadEntry
PROOF
<1>1. Init => TypeInv /\ NoDeadEntry
  <2>1. Init => NoDeadEntry
    BY DEF Init, NoDeadEntry
  <2> QED
    BY <2>1, TypeInit, MongeringAssumption
<1>2. TypeInv /\ NoDeadEntry /\ [Next]_vars => TypeInv' /\ NoDeadEntry'
  BY TypeStep, EntryStep, MongeringAssumption
<1> QED
  BY <1>1, <1>2, PTL DEF Spec
-----------------------------------------------------------------------------
(***************************************************************************)
(* A jam: g, h and m are those that Jammed asks for.                       *)
(***************************************************************************)
Jam(g, h, m) ==
  /\ thread[g].pc \in {"delete", "deleting"} /\ thread[g].ackChan = AckCap
  /\ At(h, "ack") /\ m \in thread[h].want /\ AckChan(h, m) = g

LEMMA JamOfThree ==
  ASSUME TypeInv
  PROVE  Jammed <=> \E g, h \in Goroutine, m \in Msg : Jam(g, h, m)
PROOF
<1>1. \A h \in Goroutine : thread[h].want \subseteq Msg
  BY DEF TypeInv, TypeOK, Threads
<1>2. \A g \in Goroutine : g # Nobody
  BY DEF Goroutine, Nobody
<1> QED
  BY <1>1, <1>2 DEF Jammed, Jam, Acknowledges

\* What the other goroutines do leaves a jam as it is.
LEMMA JamOfOthers ==
  ASSUME TypeInv, NEW g \in Goroutine, NEW h \in Goroutine, NEW m \in Msg, Jam(g, h, m),
         NEW k \in Goroutine \ {g, h}, NEW t, Becomes(k, t), UNCHANGED ackChans
  PROVE  Jam(g, h, m)'
PROOF
<1>1. thread'[g] = thread[g] /\ thread'[h] = thread[h]
  BY DEF TypeInv, TypeOK, Becomes
<1> QED
  BY <1>1 DEF Jam, At, AckChan

\* An acknowledgement for another goroutine does so too, and there is no room
\* for one more for g.
LEMMA JamOfAcks ==
  ASSUME TypeInv, NEW g \in Goroutine, NEW h \in Goroutine, NEW m \in Msg, Jam(g, h, m),
         NEW k \in Goroutine, NEW n \in Msg, SendAck(k, n)
  PROVE  Jam(g, h, m)' /\ UNCHANGED ackChans
PROOF
<1> DEFINE c == AckChan(k, n)
<1>0. thread \in [Goroutine -> Threads]
  BY DEF TypeInv, TypeOK
<1>1. c # g
  <2>1. thread[c].ackChan < AckCap /\ AckCap \in Nat
    BY MongeringAssumption DEF SendAck, MongeringAssumption
  <2> QED
    BY <2>1 DEF Jam
<1>2. \A x \in Goroutine : /\ thread'[x].pc = thread[x].pc
                           /\ thread'[x].sender = thread[x].sender
  BY SendAckThreads, MongeringAssumption
<1> DEFINE mid == [thread EXCEPT ![c].ackChan = @ + 1]
<1>3. /\ DOMAIN mid = Goroutine /\ mid[g] = thread[g]
      /\ \A x \in Goroutine : mid[x].want = thread[x].want
  BY <1>0, <1>1 DEF Threads
<1>4. thread' = [mid EXCEPT ![k].want = @ \ {n}]
  BY DEF SendAck
<1>5. thread'[g].ackChan = thread[g].ackChan
  <2>1. thread[g] \in Threads
    BY <1>0
  <2>2. [thread[g] EXCEPT !.want = @ \ {n}].ackChan = thread[g].ackChan
    BY <2>1 DEF Threads
  <2> QED
    BY <1>3, <1>4, <2>2
<1>6. m \in thread'[h].want
  <2>1. CASE k # h
    BY <1>3, <1>4, <2>1 DEF Jam
  <2>2. CASE k = h
    <3>1. n # m
      BY <1>1, <2>2 DEF Jam
    <3>2. [mid[h] EXCEPT !.want = @ \ {n}].want = mid[h].want \ {n}
      <4>1. thread[h] \in Threads /\ (mid[h] = thread[h]
                \/ mid[h] = [thread[h] EXCEPT !.ackChan = @ + 1])
        BY <1>0
      <4> QED
        BY <4>1 DEF Threads
    <3> QED
      BY <1>3, <1>4, <2>2, <3>1, <3>2 DEF Jam
  <2> QED
    BY <2>1, <2>2
<1> QED
  BY <1>2, <1>5, <1>6 DEF Jam, At, AckChan, SendAck, Looking

(***************************************************************************)
(* A channel that is full when its reader has left stays full, with the    *)
(* handler that waits for room in it, who keeps everybody from changing    *)
(* ackChans.                                                               *)
(***************************************************************************)
THEOREM JamsLast == Spec => JamLasts
PROOF
<1>1. TypeInv /\ TypeInv' /\ [Next]_vars => [Jammed => Jammed' /\ UNCHANGED ackChans]_vars
  <2> SUFFICES ASSUME TypeInv, TypeInv', [Next]_vars, Jammed
               PROVE  Jammed' /\ UNCHANGED ackChans
    OBVIOUS
  <2> PICK g \in Goroutine, h \in Goroutine, m \in Msg : Jam(g, h, m)
    BY JamOfThree
  <2> SUFFICES Jam(g, h, m)' /\ UNCHANGED ackChans
    <3>1. Jam(g, h, m)' => Jammed'
      BY DEF Jam, Jammed, Acknowledges, Goroutine, Nobody
    <3> QED
      BY <3>1
  <2>0. Readers # {}
    BY DEF Jam, Readers
  <2>1. CASE UNCHANGED <<thread, ackChans>>
    BY <2>1 DEF Jam, At, AckChan
  <2>2. ASSUME NEW k \in Goroutine,
               \/ \E n \in Msg, p \in Mongerers : ReceiveMessage(k, p, n)
               \/ \E p \in Ackers, acks \in SUBSET Msg : ReceiveStatus(k, p, acks)
        PROVE  Jam(g, h, m)' /\ UNCHANGED ackChans
    <3>1. k >= k
      BY MongeringAssumption DEF Goroutine, MongeringAssumption
    <3>2. PICK t : Becomes(k, t) /\ At(k, "idle") /\ UNCHANGED ackChans
      BY <2>2, <3>1 DEF ReceiveMessage, ReceiveStatus, Starts
    <3>3. k \notin {g, h}
      BY <3>2 DEF Jam, At
    <3> QED
      BY <3>2, <3>3, JamOfOthers
  <2>3. ASSUME NEW k \in Goroutine,
               \/ Len1(k) \/ Contains(k) \/ Len0(k) \/ \E p \in Peer : Rand(k, p)
               \/ SendRumor(k) \/ TimeOut(k) \/ Acknowledged(k) \/ TryAgain(k) \/ RLock(k)
               \/ \E inSync, heads \in BOOLEAN : Compare(k, inSync, heads)
               \/ CallLock(k) /\ At(k, "register")
        PROVE  Jam(g, h, m)' /\ UNCHANGED ackChans
    <3>1. UNCHANGED ackChans /\ k \notin {g, h}
      BY <2>3 DEF Len1, Contains, Len0, Rand, SendRumor, TimeOut, Acknowledged, TryAgain, RLock,
                  Compare, CallLock, Looking, Jam, At
    <3>2. \E t : Becomes(k, t)
      BY <2>3 DEF Len1, Contains, Len0, Rand, SendRumor, TimeOut, Acknowledged, TryAgain, RLock,
                  Compare, CallLock, Becomes, Goes, At
    <3> QED
      BY <3>1, <3>2, JamOfOthers
  <2>4. ASSUME NEW k \in Goroutine, CallLock(k), At(k, "delete")
        PROVE  Jam(g, h, m)' /\ UNCHANGED ackChans
    <3>1. Goes(k, "deleting") /\ UNCHANGED ackChans /\ k # h
      BY <2>4 DEF CallLock, At, Jam
    <3>2. \A x \in Goroutine : /\ thread'[x].pc = IF x = k THEN "deleting" ELSE thread[x].pc
                               /\ thread'[x].ackChan = thread[x].ackChan
                               /\ thread'[x].sender = thread[x].sender
                               /\ thread'[x].want = thread[x].want
      BY <3>1 DEF Goes, TypeInv, TypeOK, Threads
    <3> QED
      BY <3>1, <3>2 DEF Jam, At, AckChan
  <2>5. ASSUME NEW k \in Goroutine, Register(k) \/ Delete(k) \/ RUnlock(k)
        PROVE  Jam(g, h, m)' /\ UNCHANGED ackChans
    <3>1. RUnlock(k) /\ k # h
      <4>1. m \in Acknowledges(h)
        BY DEF Jam, Acknowledges, Goroutine, Nobody
      <4> QED
        BY <2>0, <2>5, <4>1 DEF Register, Delete, RUnlock
    <3>2. k # g
      BY <3>1 DEF RUnlock, At, Jam
    <3> QED
      BY <3>1, <3>2, JamOfOthers DEF RUnlock, Looking
  <2>6. ASSUME NEW k \in Goroutine, CallLock(k)
        PROVE  At(k, "register") \/ At(k, "delete")
    BY <2>6 DEF CallLock
  <2> QED
    BY <2>1, <2>2, <2>3, <2>4, <2>5, <2>6, JamOfAcks, StepCases DEF vars, AddPeer
<1>2. TypeInv /\ [Next]_vars => TypeInv'
  BY TypeStep, MongeringAssumption
<1>3. Init => TypeInv
  BY TypeInit, MongeringAssumption
<1> QED
  BY <1>1, <1>2, <1>3, PTL DEF Spec, JamLasts
-----------------------------------------------------------------------------
(***************************************************************************)
(* Who has called Lock and not yet left is between the two calls: no       *)
(* goroutine ends, or starts to wait for something else, with the lock.    *)
(***************************************************************************)
Inside == {"registering", "deleting"}

WriterInside == \A g \in Goroutine : writer = g <=> thread[g].pc \in Inside

\* A goroutine goes on outside.
LEMMA OutsideBecomes ==
  ASSUME TypeInv, WriterInside, NEW g \in Goroutine, NEW t, Becomes(g, t),
         thread[g].pc \notin Inside, t.pc \notin Inside, UNCHANGED writer
  PROVE  WriterInside'
PROOF
<1>1. \A h \in Goroutine : thread'[h] = IF h = g THEN t ELSE thread[h]
  BY DEF TypeInv, TypeOK, Becomes
<1> QED
  BY <1>1 DEF WriterInside

\* The same for a goroutine whose other locals stay.
LEMMA OutsideGoes ==
  ASSUME TypeInv, WriterInside, NEW g \in Goroutine, NEW pc, Goes(g, pc),
         thread[g].pc \notin Inside, pc \notin Inside, UNCHANGED writer
  PROVE  WriterInside'
PROOF
<1>1. thread[g] \in Threads
  BY DEF TypeInv, TypeOK
<1>2. [thread[g] EXCEPT !.pc = pc].pc = pc
  BY <1>1 DEF Threads
<1>3. Becomes(g, [thread[g] EXCEPT !.pc = pc])
  BY DEF Goes, Becomes
<1> QED
  BY <1>2, <1>3, OutsideBecomes

\* A goroutine comes in, which finds nobody inside.
LEMMA ComesIn ==
  ASSUME TypeInv, WriterInside, NEW g \in Goroutine, CallLock(g)
  PROVE  WriterInside'
PROOF
<1>1. \A h \in Goroutine : thread[h].pc \notin Inside
  BY DEF CallLock, WriterInside, Goroutine, Nobody
<1>2. PICK pc \in Inside : Goes(g, pc) /\ writer' = g
  BY DEF CallLock, Inside
<1>3. \A h \in Goroutine : thread'[h].pc = IF h = g THEN pc ELSE thread[h].pc
  BY <1>2 DEF Goes, TypeInv, TypeOK, Threads
<1> QED
  BY <1>1, <1>2, <1>3 DEF WriterInside

\* The goroutine that is inside leaves.
LEMMA GoesOut ==
  ASSUME TypeInv, WriterInside, NEW g \in Goroutine, Register(g) \/ Delete(g)
  PROVE  WriterInside'
PROOF
<1>0. thread \in [Goroutine -> Threads] /\ thread[g] \in Threads
  BY DEF TypeInv, TypeOK
<1>1. writer = g /\ writer' = Nobody
  BY DEF Register, Delete, At, WriterInside, Inside
<1>2. \A h \in Goroutine : h # g => thread'[h] = thread[h]
  BY <1>0 DEF Register, Delete, Becomes, Goes
<1>3. thread'[g].pc \notin Inside
  <2>1. CASE Register(g)
    BY <1>0, <2>1 DEF Register, Becomes, Threads, Inside
  <2>2. CASE Becomes(g, Gone)
    BY <1>0, <2>2 DEF Becomes, Gone, Thread, Inside
  <2>3. CASE Goes(g, "again")
    BY <1>0, <2>3 DEF Goes, Threads, Inside
  <2> QED
    BY <2>1, <2>2, <2>3 DEF Delete
<1> QED
  BY <1>1, <1>2, <1>3 DEF WriterInside, Goroutine, Nobody

\* Every step keeps who is inside.
LEMMA InsideStep ==
  ASSUME MongeringAssumption, TypeInv, WriterInside, [Next]_vars
  PROVE  WriterInside'
PROOF
<1>0. /\ \A g \in Goroutine : thread[g] \in Threads
      /\ Gone.pc = "done" /\ \A p, m : Mongers(p, m).pc = "len"
      /\ \A p, acks : [Idle EXCEPT !.pc = "rlock", !.sender = p, !.want = acks].pc = "rlock"
  BY DEF TypeInv, TypeOK, Gone, Mongers, Idle, Thread
<1>1. CASE UNCHANGED <<thread, writer>>
  BY <1>1 DEF WriterInside
<1>2. ASSUME NEW g \in Goroutine,
             \/ \E m \in Msg, p \in Mongerers : ReceiveMessage(g, p, m)
             \/ \E p \in Ackers, acks \in SUBSET Msg : ReceiveStatus(g, p, acks)
      PROVE  WriterInside'
  <2>0. g >= g
    BY MongeringAssumption DEF Goroutine, MongeringAssumption
  <2>1. PICK t : Becomes(g, t) /\ At(g, "idle") /\ t.pc \in {"len", "rlock"} /\ UNCHANGED writer
    BY <1>0, <1>2, <2>0 DEF ReceiveMessage, ReceiveStatus, Starts
  <2> QED
    BY <2>1, OutsideBecomes DEF At, Inside
<1>3. ASSUME NEW g \in Goroutine,
             Len1(g) \/ Contains(g) \/ Len0(g) \/ RLock(g) \/ SendRumor(g) \/ TimeOut(g)
      PROVE  WriterInside'
  <2>1. UNCHANGED writer /\ thread[g].pc \notin Inside
    BY <1>3 DEF Len1, Contains, Len0, RLock, SendRumor, TimeOut, Looking, At, Inside
  <2>2. CASE Becomes(g, Gone)
    BY <1>0, <2>1, <2>2, OutsideBecomes DEF Inside
  <2>3. CASE \E pc : Goes(g, pc) /\ pc \notin Inside
    BY <2>1, <2>3, OutsideGoes
  <2> QED
    BY <1>3, <2>2, <2>3 DEF Len1, Contains, Len0, RLock, SendRumor, TimeOut, Inside
<1>4. ASSUME NEW g \in Goroutine,
             \/ \E p \in Peer : Rand(g, p)
             \/ Acknowledged(g) \/ TryAgain(g) \/ RUnlock(g)
             \/ \E inSync, heads \in BOOLEAN : Compare(g, inSync, heads)
      PROVE  WriterInside'
  <2>1. UNCHANGED writer /\ thread[g].pc \notin Inside
    BY <1>4 DEF Rand, Acknowledged, TryAgain, RUnlock, Compare, Looking, At, Inside
  <2>2. \E t : Becomes(g, t) /\ t.pc \notin Inside
    <3>1. ASSUME NEW p \in Peer, Rand(g, p)
          PROVE  \E t : Becomes(g, t) /\ t.pc \notin Inside
      <4> DEFINE t == [thread[g] EXCEPT !.pc = "register", !.to = p]
      <4>1. t.pc = "register"
        BY <1>0 DEF Threads
      <4> QED
        BY <3>1, <4>1 DEF Rand, Inside
    <3>2. CASE Acknowledged(g)
      <4> DEFINE t == [thread[g] EXCEPT !.pc = "delete", !.acked = TRUE, !.ackChan = @ - 1]
      <4>1. t.pc = "delete"
        BY <1>0 DEF Threads
      <4> QED
        BY <3>2, <4>1 DEF Acknowledged, Inside
    <3>3. CASE TryAgain(g)
      BY <1>0, <3>3 DEF TryAgain, Inside
    <3>4. CASE RUnlock(g)
      <4> DEFINE t == [thread[g] EXCEPT !.pc = "compare", !.want = {}]
      <4>1. t.pc = "compare"
        BY <1>0 DEF Threads
      <4> QED
        BY <3>4, <4>1 DEF RUnlock, Inside
    <3>5. ASSUME NEW inSync \in BOOLEAN, NEW heads \in BOOLEAN, Compare(g, inSync, heads)
          PROVE  \E t : Becomes(g, t) /\ t.pc \notin Inside
      BY <1>0, <3>5 DEF Compare, Inside
    <3> QED
      BY <1>4, <3>1, <3>2, <3>3, <3>4, <3>5
  <2> QED
    BY <2>1, <2>2, OutsideBecomes
<1>5. ASSUME NEW g \in Goroutine, NEW m \in Msg, SendAck(g, m)
      PROVE  WriterInside'
  <2>1. \A h \in Goroutine : thread'[h].pc = thread[h].pc
    BY <1>5, SendAckThreads
  <2> QED
    BY <1>5, <2>1 DEF SendAck, Looking, WriterInside
<1> QED
  BY <1>1, <1>2, <1>3, <1>4, <1>5, ComesIn, GoesOut, StepCases DEF vars, AddPeer

(***************************************************************************)
(* The goroutines that use ackChans do not wait for one another, unless    *)
(* there is a jam.  A reader that waits does so for room in a channel of   *)
(* ackChans, whose goroutine still is at its select or has left it, and    *)
(* without a jam the channel of one that has left has room; without a      *)
(* reader the goroutine inside goes on; and with nobody inside, all do.    *)
(***************************************************************************)
THEOREM NoCircleButTheJam == Spec => []OneCanGoOn
PROOF
<1>1. Init => TypeInv /\ NoDeadEntry /\ WriterInside
  <2>1. Init => NoDeadEntry
    BY DEF Init, NoDeadEntry
  <2>2. Init => WriterInside
    BY DEF Init, WriterInside, Inside, Idle, Thread, Goroutine, Nobody
  <2> QED
    BY <2>1, <2>2, TypeInit, MongeringAssumption
<1>2. TypeInv /\ NoDeadEntry /\ WriterInside /\ [Next]_vars
        => TypeInv' /\ NoDeadEntry' /\ WriterInside'
  BY TypeStep, EntryStep, InsideStep, MongeringAssumption
<1>3. TypeInv /\ NoDeadEntry /\ WriterInside => OneCanGoOn
  <2> SUFFICES ASSUME TypeInv, NoDeadEntry, WriterInside, ~Jammed, NEW u \in Users
               PROVE  \E g \in Users : CanGoOn(g)
    BY DEF OneCanGoOn
  <2>0. Users \subseteq Goroutine /\ Readers \subseteq Users
    BY DEF Users, Readers, At
  <2>1. CASE Readers # {}
    <3>1. PICK h \in Goroutine : At(h, "ack") /\ h \in Users
      BY <2>0, <2>1 DEF Readers
    <3>2. CASE Acknowledges(h) = {}
      BY <3>1, <3>2 DEF CanGoOn
    <3>3. ASSUME NEW m \in Acknowledges(h)
          PROVE  \E g \in Users : CanGoOn(g)
      <4> DEFINE c == AckChan(h, m)
      <4>1. thread[h] \in Threads /\ thread[h].sender \in Peer
        BY <3>1 DEF TypeInv, TypeOK, StatusOfPeer, At
      <4>2. m \in Msg /\ c # Nobody
        BY <4>1 DEF Acknowledges, Threads
      <4>3. c \in Goroutine
        BY <4>1, <4>2 DEF AckChan, TypeInv, TypeOK
      <4>4. thread[c].pc \in {"send", "select", "delete", "deleting"}
        BY <4>1, <4>2 DEF AckChan, NoDeadEntry
      <4>5. CASE thread[c].pc \in {"send", "select"}
        BY <4>3, <4>5 DEF Users, CanGoOn
      <4>6. CASE thread[c].pc \in {"delete", "deleting"}
        <5>1. thread[c].ackChan # AckCap
          BY <3>1, <4>3, <4>6 DEF Jammed
        <5>2. thread[c].ackChan \in 0..AckCap
          BY <4>3 DEF TypeInv, TypeOK, Threads
        <5>3. thread[c].ackChan < AckCap
          BY <5>1, <5>2, MongeringAssumption DEF MongeringAssumption
        <5> QED
          BY <3>1, <5>3 DEF CanGoOn
      <4> QED
        BY <4>4, <4>5, <4>6
    <3> QED
      BY <3>2, <3>3
  <2>2. CASE Readers = {} /\ writer # Nobody
    <3>1. writer \in Goroutine /\ thread[writer].pc \in Inside
      BY <2>2 DEF TypeInv, TypeOK, WriterInside
    <3> QED
      BY <2>2, <3>1 DEF Inside, Users, CanGoOn
  <2>3. CASE Readers = {} /\ writer = Nobody
    BY <2>3 DEF Users, CanGoOn, Readers, At
  <2> QED
    BY <2>1, <2>2, <2>3
<1> QED
  BY <1>1, <1>2, <1>3, PTL DEF Spec
=============================================================================
