---------------------- MODULE CoprocessorNode_proofs ----------------------
(***************************************************************************)
(* Proofs about ConsumerActors and CoprocessorNode, for any jobs and       *)
(* nonces, any numbers of retries and any capacity of the channels.        *)
(*                                                                         *)
(* First the actors of one consumer by themselves (ConsumerActors), then   *)
(* the node.  The node's invariant is in three parts that say nothing of   *)
(* the writer's queue, and a fourth about the writes a queue may hold.  So *)
(* the lemmas serve EventListener too, which sends the writer other writes *)
(* besides.                                                                *)
(*                                                                         *)
(* The last part is what a node that stays up adds to the order of its     *)
(* actors.  It runs them as ConsumerActors has them, so that what is       *)
(* proved there holds here.                                                *)
(***************************************************************************)
EXTENDS CoprocessorNode, SequenceTheorems, TLAPS

-----------------------------------------------------------------------------
(* ConsumerActors: sequences. *)

LEMMA AppendFacts ==
  ASSUME NEW S, NEW s \in Seq(S), NEW e \in S
  PROVE  /\ Append(s, e) \in Seq(S)
         /\ Len(Append(s, e)) = Len(s) + 1
         /\ \A i \in 1..Len(s) : Append(s, e)[i] = s[i]
         /\ Append(s, e)[Len(s) + 1] = e
  OBVIOUS

LEMMA TailFacts ==
  ASSUME NEW S, NEW s \in Seq(S), s # <<>>
  PROVE  /\ Tail(s) \in Seq(S)
         /\ Head(s) \in S
         /\ Head(s) = s[1]
         /\ Len(s) \in Nat \ {0}
         /\ Len(Tail(s)) = Len(s) - 1
         /\ \A i \in 1..(Len(s) - 1) : Tail(s)[i] = s[i + 1]
  OBVIOUS

-----------------------------------------------------------------------------
(* Types. *)

LEMMA InitType == Init => TypeOK
  BY JobAssumption, NonceAssumption
     DEF Init, ActorsInit, RelayActorInit, TypeOK, CallState, TaskState, RelayState, Message, Settlement

LEMMA SendToExecType ==
  ASSUME TypeOK, NEW j \in Job, NEW type \in {"Pending", "NextNonce", "Exec", "Relayed"},
         SendToExec(type, j)
  PROVE  execRx' \in Seq(Message)
  BY DEF SendToExec, TypeOK, Message

LEMMA SubmissionType ==
  ASSUME TypeOK, NEW j \in Job, Submission(j)
  PROVE  TypeOK'
<1>1. CASE CheckPending(j)
  <2>1. execRx' \in Seq(Message)  BY <1>1, SendToExecType DEF CheckPending
  <2>. QED  BY <1>1, <2>1 DEF CheckPending, TypeOK, CallState, actorVars, relayVars
<1>2. CASE SkipPending(j)
  BY <1>2 DEF SkipPending, TypeOK, CallState, actorVars, relayVars
<1>3. CASE Resubmit(j)
  BY <1>3 DEF Resubmit, TypeOK, CallState, actorVars, relayVars
<1>4. CASE AskNextNonce(j)
  <2>1. execRx' \in Seq(Message)  BY <1>4, SendToExecType DEF AskNextNonce
  <2>. QED  BY <1>4, <2>1 DEF AskNextNonce, TypeOK, CallState, actorVars, relayVars
<1>5. CASE RejectLowNonce(j)
  BY <1>5 DEF RejectLowNonce, TypeOK, CallState, actorVars, relayVars
<1>6. CASE SendExec(j)
  <2>1. execRx' \in Seq(Message)  BY <1>6, SendToExecType DEF SendExec
  <2>. QED  BY <1>6, <2>1 DEF SendExec, TypeOK, CallState, actorVars, relayVars
<1>. QED  BY <1>1, <1>2, <1>3, <1>4, <1>5, <1>6 DEF Submission

LEMMA ReceiveType ==
  ASSUME TypeOK, NEW j \in Job, ReceiveOne(j)
  PROVE  TypeOK'
<1>1. execRx # <<>> /\ execRx' = Tail(execRx)
  BY DEF ReceiveOne, StartTask, DropExec, AnswerPending, AnswerNextNonce, ForgetRelayed, Receive
<1>1a. execRx' \in Seq(Message)
  BY <1>1, TailFacts DEF TypeOK
<1>2. Nonce[j] \in Nat  BY JobAssumption
<1>3. CASE StartTask(j)
  BY <1>1a, <1>2, <1>3 DEF StartTask, TypeOK, TaskState, callVars, relayVars
<1>4. CASE DropExec(j)
  BY <1>1a, <1>4 DEF DropExec, TypeOK, callVars, actorVars, relayVars
<1>5. CASE AnswerPending(j)
  BY <1>1a, <1>5 DEF AnswerPending, TypeOK, actorVars, relayVars
<1>6. CASE AnswerNextNonce(j)
  BY <1>1a, <1>6 DEF AnswerNextNonce, TypeOK, actorVars, relayVars
<1>7. CASE ForgetRelayed(j)
  BY <1>1a, <1>7 DEF ForgetRelayed, TypeOK, callVars, relayVars
<1>. QED  BY <1>3, <1>4, <1>5, <1>6, <1>7 DEF ReceiveOne

LEMMA JoinType ==
  ASSUME TypeOK, NEW j \in Job, JoinOne(j)
  PROVE  TypeOK'
<1>1. task' \in [Job -> TaskState]
  BY DEF JoinOne, JoinToSend, JoinToWait, JoinFailed, JoinLost, Join, TypeOK, TaskState
<1>2. CASE JoinToSend(j)
  BY <1>1, <1>2 DEF JoinToSend, TypeOK, callVars, relayVars
<1>3. CASE JoinToWait(j)
  BY <1>1, <1>3 DEF JoinToWait, TypeOK, callVars, relayVars
<1>4. CASE JoinFailed(j)
  BY <1>1, <1>4 DEF JoinFailed, TypeOK, callVars, relayVars
<1>5. CASE JoinLost(j)
  BY <1>1, <1>5 DEF JoinLost, TypeOK, callVars, actorVars, relayVars
<1>. QED  BY <1>2, <1>3, <1>4, <1>5 DEF JoinOne

LEMMA SendType ==
  ASSUME TypeOK, SendOne
  PROVE  TypeOK'
<1>0. sending \in Job /\ relayRx' \in Seq(Job)
  <2>1. sending \in Job /\ relayRx' = Append(relayRx, sending)
    BY DEF SendOne, SendUnordered, SendOrdered, SendToRelay, TypeOK
  <2>. QED  BY <2>1, AppendFacts DEF TypeOK
<1>1. CASE SendUnordered
  BY <1>0, <1>1 DEF SendUnordered, TypeOK, callVars, relayVars
<1>2. CASE SendOrdered
  <2>1. /\ nextJobToSubmit' \in Nat
        /\ completedTasks' \subseteq Ordered
        /\ sending' \in Job \cup {NoJob}
    BY <1>2, JobAssumption DEF SendOrdered, TypeOK, Following
  <2>. QED  BY <1>0, <1>2, <2>1 DEF SendOrdered, TypeOK, callVars, relayVars
<1>. QED  BY <1>1, <1>2 DEF SendOne

LEMMA RelayType ==
  ASSUME TypeOK, TakeRelay \/ \E j \in Job : RelayOne(j) \/ PoolWorker(j)
  PROVE  TypeOK'
<1>1. CASE TakeRelay
  <2>1. relayRx' \in Seq(Job) /\ Head(relayRx) \in Job
    BY <1>1 DEF TakeRelay, TypeOK
  <2>. QED  BY <1>1, <2>1 DEF TakeRelay, TypeOK, RelayState, callVars, actorVars
<1>2. ASSUME NEW j \in Job, RelayLands(j) \/ RelayGivesUp(j)
      PROVE  TypeOK'
  <2>1. settled' \in Seq(Settlement)
    <3>1. PICK landed \in BOOLEAN : RecordSettled(j, landed)
      BY <1>2 DEF RelayLands, RelayGivesUp
    <3>2. [nonce |-> Nonce[j], landed |-> landed] \in Settlement
      BY JobAssumption DEF Settlement
    <3>. QED  BY <3>1, <3>2, AppendFacts DEF RecordSettled, TypeOK
  <2>. QED  BY <1>2, <2>1 DEF RelayLands, RelayGivesUp, TypeOK, RelayState, callVars, actorVars
<1>3. ASSUME NEW j \in Job, ReportRelayed(j)
      PROVE  TypeOK'
  <2>1. execRx' \in Seq(Message)  BY <1>3, SendToExecType DEF ReportRelayed
  <2>. QED  BY <1>3, <2>1 DEF ReportRelayed, TypeOK, RelayState, callVars, actorVars
<1>4. ASSUME NEW j \in Job, PoolWorker(j)
      PROVE  TypeOK'
  BY <1>4 DEF PoolWorker, Execute, TypeOK, TaskState, callVars, actorVars, relayVars
<1>. QED  BY <1>1, <1>2, <1>3, <1>4 DEF RelayOne

LEMMA StutterType == TypeOK /\ UNCHANGED vars => TypeOK'
  BY DEF TypeOK, vars, callVars, actorVars, relayVars

LEMMA NextType == TypeOK /\ [Next]_vars => TypeOK'
  BY SubmissionType, ReceiveType, JoinType, SendType, RelayType, StutterType DEF Next, Rest

\* Type correctness of the actors (execute.rs, relayer.rs).
THEOREM TypeCorrect == Spec => []TypeOK
<1>1. Init => TypeOK  BY InitType
<1>2. TypeOK /\ [Next]_vars => TypeOK'  BY NextType
<1>. QED  BY <1>1, <1>2, PTL DEF Spec

-----------------------------------------------------------------------------
(* The jobs are handed over and settled in turn. *)

turnVars == <<nextJobToSubmit, completedTasks, sending, relayRx, relay, settled>>

LEMMA InitInTurn == Init => InTurn
  BY NonceAssumption, JobAssumption
     DEF Init, ActorsInit, RelayActorInit, InTurn, NextNeverWaits, OneWaitsPerNonce, SendsNext, QueueInOrder,
         OneInHand, NoGap, NextToSettle, Attempting

LEMMA StutterInTurn == InTurn /\ UNCHANGED turnVars => InTurn'
  BY DEF turnVars, InTurn, NextNeverWaits, OneWaitsPerNonce, SendsNext, QueueInOrder,
         OneInHand, NoGap, NextToSettle, Attempting

\* The actions that touch none of these variables.
LEMMA OtherInTurn ==
  ASSUME InTurn, NEW j \in Job,
         \/ Submission(j) \/ ReceiveOne(j) \/ PoolWorker(j) \/ JoinFailed(j) \/ JoinLost(j)
  PROVE  InTurn'
<1>1. CASE Submission(j)
  BY <1>1, StutterInTurn
     DEF Submission, CheckPending, SkipPending, Resubmit, AskNextNonce, RejectLowNonce, SendExec,
         turnVars, actorVars, relayVars
<1>2. CASE ReceiveOne(j)
  BY <1>2, StutterInTurn
     DEF ReceiveOne, StartTask, DropExec, AnswerPending, AnswerNextNonce, ForgetRelayed,
         turnVars, actorVars, relayVars
<1>3. CASE PoolWorker(j) \/ JoinFailed(j) \/ JoinLost(j)
  BY <1>3, StutterInTurn
     DEF PoolWorker, Execute, JoinFailed, JoinLost, turnVars, actorVars, relayVars
<1>. QED  BY <1>1, <1>2, <1>3

LEMMA JoinInTurn ==
  ASSUME TypeOK, InTurn, NEW j \in Job, JoinToSend(j) \/ JoinToWait(j)
  PROVE  InTurn'
<1>1. UNCHANGED <<nextJobToSubmit, relayRx, relay, settled>>
  BY DEF JoinToSend, JoinToWait, relayVars
<1>2. QueueInOrder' /\ OneInHand' /\ NoGap'
  BY <1>1 DEF InTurn, QueueInOrder, OneInHand, NoGap, NextToSettle, Attempting
<1>3. CASE JoinToSend(j)
  BY <1>1, <1>2, <1>3
     DEF JoinToSend, InTurn, NextNeverWaits, OneWaitsPerNonce, SendsNext
<1>4. CASE JoinToWait(j)
  <2>1. sending' = sending  BY <1>4 DEF JoinToWait
  <2>2. NextNeverWaits' /\ OneWaitsPerNonce'
    BY <1>1, <1>4 DEF JoinToWait, InTurn, NextNeverWaits, OneWaitsPerNonce
  <2>. QED  BY <1>1, <1>2, <2>1, <2>2 DEF InTurn, SendsNext
<1>. QED  BY <1>3, <1>4

LEMMA SendInTurn ==
  ASSUME TypeOK, InTurn, SendOne
  PROVE  InTurn'
<1>1. /\ sending \in Job /\ relayRx \in Seq(Job)
      /\ relayRx' = Append(relayRx, sending)
      /\ UNCHANGED <<relay, settled>>
  BY DEF SendOne, SendUnordered, SendOrdered, SendToRelay, TypeOK, relayVars
<1>2. /\ Len(relayRx) \in Nat
      /\ Len(relayRx') = Len(relayRx) + 1
      /\ \A i \in 1..Len(relayRx) : relayRx'[i] = relayRx[i]
      /\ relayRx'[Len(relayRx')] = sending
  BY <1>1, AppendFacts
<1>3. /\ Nonce \in [Job -> Nat] /\ nextJobToSubmit \in Nat /\ NextToSettle \in Nat
      /\ NextToSettle' = NextToSettle
  BY <1>1, JobAssumption, NonceAssumption DEF TypeOK, NextToSettle
<1>4. \A i \in 1..Len(relayRx) : relayRx[i] \in Job
  BY <1>1
<1>5. CASE SendUnordered
  <2>1. /\ sending \notin Ordered /\ sending' = NoJob
        /\ UNCHANGED <<nextJobToSubmit, completedTasks>>
    BY <1>5 DEF SendUnordered
  <2>2. \A p \in 1..Len(relayRx') : relayRx'[p] \in Ordered =>
           p \in 1..Len(relayRx) /\ relayRx'[p] = relayRx[p]
    BY <1>2, <2>1
  <2>3. QueueInOrder'
    BY <1>2, <1>3, <2>1, <2>2 DEF InTurn, QueueInOrder
  <2>4. OneInHand'
    BY <1>1, <1>3, <2>1, <2>2 DEF InTurn, OneInHand, Attempting
  <2>5. NoGap'
    BY <1>1, <1>2, <1>3, <2>1 DEF InTurn, NoGap, Attempting
  <2>6. NextNeverWaits' /\ OneWaitsPerNonce' /\ SendsNext'
    BY <2>1, JobAssumption DEF InTurn, NextNeverWaits, OneWaitsPerNonce, SendsNext
  <2>. QED  BY <2>3, <2>4, <2>5, <2>6 DEF InTurn
<1>6. CASE SendOrdered
  <2>1. /\ sending \in Ordered /\ nextJobToSubmit' = nextJobToSubmit + 1
        /\ Nonce[sending] = nextJobToSubmit
    BY <1>6 DEF SendOrdered, InTurn, SendsNext
  <2>2. \A p \in 1..Len(relayRx') :
           \/ p \in 1..Len(relayRx) /\ relayRx'[p] = relayRx[p]
           \/ p = Len(relayRx) + 1 /\ relayRx'[p] = sending
    BY <1>2
  <2>3. QueueInOrder'
    <3>1. ASSUME NEW p \in 1..Len(relayRx'), relayRx'[p] \in Ordered
          PROVE  Nonce[relayRx'[p]] < nextJobToSubmit'
      BY <1>2, <1>3, <1>4, <2>1, <2>2, <3>1 DEF InTurn, QueueInOrder
    <3>2. ASSUME NEW p \in 1..Len(relayRx'), NEW q \in 1..Len(relayRx'), p < q,
                 relayRx'[p] \in Ordered, relayRx'[q] \in Ordered
          PROVE  Nonce[relayRx'[p]] < Nonce[relayRx'[q]]
      <4>1. p \in 1..Len(relayRx) /\ relayRx'[p] = relayRx[p]
        BY <1>2, <3>2
      <4>2. Nonce[relayRx[p]] < nextJobToSubmit
        BY <3>2, <4>1 DEF InTurn, QueueInOrder
      <4>3. CASE q = Len(relayRx) + 1
        BY <1>2, <2>1, <4>1, <4>2, <4>3
      <4>4. CASE q # Len(relayRx) + 1
        BY <1>2, <2>2, <3>2, <4>1, <4>4 DEF InTurn, QueueInOrder
      <4>. QED  BY <4>3, <4>4
    <3>. QED  BY <3>1, <3>2 DEF QueueInOrder
  <2>4. OneInHand'
    <3>1. \A j \in Job : Attempting(j)' <=> Attempting(j)
      BY <1>1 DEF Attempting
    <3>2. \A j \in Job : Attempting(j) => NextToSettle < nextJobToSubmit
      BY DEF InTurn, OneInHand
    <3>3. NextToSettle <= nextJobToSubmit
      BY DEF InTurn, NoGap
    <3>4. ASSUME NEW p \in 1..Len(relayRx'), relayRx'[p] \in Ordered
          PROVE  /\ NextToSettle <= Nonce[relayRx'[p]]
                 /\ \A j \in Job : Attempting(j) => NextToSettle < Nonce[relayRx'[p]]
      BY <2>1, <2>2, <3>2, <3>3, <3>4 DEF InTurn, OneInHand
    <3>. QED  BY <1>1, <1>3, <2>1, <3>1, <3>4 DEF InTurn, OneInHand
  <2>5. NoGap'
    <3>1. SUFFICES ASSUME NEW n \in NextToSettle..nextJobToSubmit
                   PROVE  \/ \E j \in Job : Attempting(j)' /\ Nonce[j] = n
                          \/ \E p \in 1..Len(relayRx') :
                                relayRx'[p] \in Ordered /\ Nonce[relayRx'[p]] = n
      BY <1>3, <2>1 DEF InTurn, NoGap
    <3>2. CASE n = nextJobToSubmit
      BY <1>2, <2>1, <3>2
    <3>3. CASE n # nextJobToSubmit
      <4>1. n \in NextToSettle..(nextJobToSubmit - 1)
        BY <1>3, <3>3
      <4>2. CASE \E j \in Job : Attempting(j) /\ Nonce[j] = n
        BY <1>1, <4>2 DEF Attempting
      <4>3. CASE \E p \in 1..Len(relayRx) : relayRx[p] \in Ordered /\ Nonce[relayRx[p]] = n
        BY <1>2, <4>3
      <4>. QED  BY <4>1, <4>2, <4>3 DEF InTurn, NoGap
    <3>. QED  BY <3>2, <3>3
  <2>6. NextNeverWaits' /\ OneWaitsPerNonce' /\ SendsNext'
    <3>1. completedTasks \subseteq Job
      BY JobAssumption DEF TypeOK
    <3>2. CASE Following = {} /\ sending' = NoJob /\ UNCHANGED completedTasks
      BY <2>1, <3>2, JobAssumption
         DEF Following, InTurn, NextNeverWaits, OneWaitsPerNonce, SendsNext
    <3>3. CASE \E k \in Following : /\ sending' = k
                                    /\ completedTasks' = completedTasks \ {k}
      BY <2>1, <3>1, <3>3
         DEF Following, InTurn, NextNeverWaits, OneWaitsPerNonce, SendsNext
    <3>. QED  BY <1>6, <3>2, <3>3 DEF SendOrdered
  <2>. QED  BY <2>3, <2>4, <2>5, <2>6 DEF InTurn
<1>. QED  BY <1>5, <1>6 DEF SendOne

\* The job at the head of relayRx, when Ordered and when the relay actor is
\* idle, has the next nonce to settle: it is not smaller, and the job that has
\* that nonce cannot be further back in the queue.
LEMMA HeadIsNext ==
  ASSUME TypeOK, InTurn, RelayActorIdle, relayRx # <<>>, relayRx[1] \in Ordered
  PROVE  Nonce[relayRx[1]] = NextToSettle /\ NextToSettle < nextJobToSubmit
<1>1. /\ Len(relayRx) \in Nat \ {0}
      /\ \A p \in 1..Len(relayRx) : relayRx[p] \in Job
      /\ Nonce \in [Job -> Nat] /\ nextJobToSubmit \in Nat /\ NextToSettle \in Nat
  BY JobAssumption, NonceAssumption DEF TypeOK, NextToSettle
<1>2. NextToSettle <= Nonce[relayRx[1]] /\ Nonce[relayRx[1]] < nextJobToSubmit
  BY <1>1 DEF InTurn, QueueInOrder, OneInHand
<1>3. PICK p \in 1..Len(relayRx) : relayRx[p] \in Ordered /\ Nonce[relayRx[p]] = NextToSettle
  <2>1. \A j \in Job : ~Attempting(j)
    BY DEF RelayActorIdle, Attempting
  <2>2. NextToSettle \in NextToSettle..(nextJobToSubmit - 1)
    BY <1>1, <1>2
  <2>. QED  BY <2>1, <2>2 DEF InTurn, NoGap
<1>4. p # 1 => Nonce[relayRx[1]] < Nonce[relayRx[p]]
  BY <1>1, <1>3 DEF InTurn, QueueInOrder
<1>. QED  BY <1>1, <1>2, <1>3, <1>4

LEMMA TakeInTurn ==
  ASSUME TypeOK, InTurn, TakeRelay
  PROVE  InTurn'
<1>0. PICK h \in Job : h = relayRx[1]
  BY TailFacts DEF TakeRelay, TypeOK
<1>1. /\ RelayActorIdle /\ relayRx # <<>> /\ h = relayRx[1]
      /\ relay' = [relay EXCEPT ![h] = "attempting"]
      /\ relay \in [Job -> RelayState]
      /\ UNCHANGED <<nextJobToSubmit, completedTasks, sending, settled>>
  BY <1>0, TailFacts DEF TakeRelay, TypeOK, actorVars
<1>2. /\ Len(relayRx) \in Nat \ {0}
      /\ Len(relayRx') = Len(relayRx) - 1
      /\ \A p \in 1..Len(relayRx') : p + 1 \in 1..Len(relayRx) /\ relayRx'[p] = relayRx[p + 1]
      /\ \A p \in 1..Len(relayRx) : relayRx[p] \in Job
  <2>1. relayRx \in Seq(Job) /\ relayRx # <<>> /\ relayRx' = Tail(relayRx)
    BY DEF TakeRelay, TypeOK
  <2>. QED  BY <2>1, TailFacts
<1>3. /\ Nonce \in [Job -> Nat] /\ nextJobToSubmit \in Nat /\ NextToSettle \in Nat
      /\ NextToSettle' = NextToSettle
  <2>1. Len(settled) \in Nat /\ nextJobToSubmit \in Nat  BY DEF TypeOK
  <2>2. NextToSettle' = NextToSettle  BY <1>1 DEF NextToSettle
  <2>. QED  BY <2>1, <2>2, JobAssumption, NonceAssumption DEF NextToSettle
<1>4. /\ \A j \in Job : Attempting(j)' => j = h /\ h \in Ordered
      /\ h \in Ordered => Attempting(h)'
      /\ \A j \in Job : ~Attempting(j)
  BY <1>1 DEF Attempting, RelayActorIdle
<1>5. h \in Ordered => Nonce[h] = NextToSettle /\ NextToSettle < nextJobToSubmit
  BY <1>1, HeadIsNext
<1>6. QueueInOrder'
  <2>1. \A p \in 1..Len(relayRx') :
           relayRx'[p] \in Ordered => Nonce[relayRx'[p]] < nextJobToSubmit'
    BY <1>1, <1>2 DEF InTurn, QueueInOrder
  <2>2. ASSUME NEW p \in 1..Len(relayRx'), NEW q \in 1..Len(relayRx'), p < q,
               relayRx'[p] \in Ordered, relayRx'[q] \in Ordered
        PROVE  Nonce[relayRx'[p]] < Nonce[relayRx'[q]]
    <3>1. p + 1 < q + 1  BY <1>2, <2>2
    <3>. QED  BY <1>2, <2>2, <3>1 DEF InTurn, QueueInOrder
  <2>. QED  BY <2>1, <2>2 DEF QueueInOrder
<1>7. OneInHand'
  <2>1. \A j, k \in Ordered : relay'[j] \in {"attempting", "landed"}
                              /\ relay'[k] \in {"attempting", "landed"} => j = k
    BY <1>1, JobAssumption DEF RelayActorIdle
  <2>2. \A j \in Job : Attempting(j)' =>
           Nonce[j] = NextToSettle /\ NextToSettle < nextJobToSubmit
    BY <1>4, <1>5
  <2>3. ASSUME NEW p \in 1..Len(relayRx'), relayRx'[p] \in Ordered
        PROVE  /\ NextToSettle <= Nonce[relayRx'[p]]
               /\ \A j \in Job : Attempting(j)' => NextToSettle < Nonce[relayRx'[p]]
    <3>1. NextToSettle <= Nonce[relayRx[p + 1]]
      BY <1>2, <2>3 DEF InTurn, OneInHand
    <3>2. h \in Ordered => Nonce[h] < Nonce[relayRx[p + 1]]
      <4>1. 1 < p + 1 /\ 1 \in 1..Len(relayRx) /\ p + 1 \in 1..Len(relayRx)
        BY <1>2, <2>3
      <4>. QED  BY <1>1, <1>2, <2>3, <4>1 DEF InTurn, QueueInOrder
    <3>. QED  BY <1>2, <1>4, <1>5, <2>3, <3>1, <3>2
  <2>. QED  BY <1>1, <1>3, <2>1, <2>2, <2>3 DEF OneInHand
<1>8. NoGap'
  <2>1. SUFFICES ASSUME NEW n \in NextToSettle..(nextJobToSubmit - 1)
                 PROVE  \/ \E j \in Job : Attempting(j)' /\ Nonce[j] = n
                        \/ \E p \in 1..Len(relayRx') :
                              relayRx'[p] \in Ordered /\ Nonce[relayRx'[p]] = n
    BY <1>1, <1>3 DEF InTurn, NoGap
  <2>2. PICK p \in 1..Len(relayRx) : relayRx[p] \in Ordered /\ Nonce[relayRx[p]] = n
    BY <1>4 DEF InTurn, NoGap
  <2>3. CASE p = 1
    BY <1>1, <1>4, <2>2, <2>3
  <2>4. CASE p # 1
    <3>1. /\ p - 1 \in 1..Len(relayRx')
          /\ relayRx'[p - 1] = relayRx[p]
      BY <1>2, <2>4
    <3>. QED  BY <2>2, <3>1
  <2>. QED  BY <2>3, <2>4
<1>9. NextNeverWaits' /\ OneWaitsPerNonce' /\ SendsNext'
  BY <1>1 DEF InTurn, NextNeverWaits, OneWaitsPerNonce, SendsNext
<1>. QED  BY <1>6, <1>7, <1>8, <1>9 DEF InTurn

LEMMA SettleInTurn ==
  ASSUME TypeOK, InTurn, NEW j \in Job, RelayLands(j) \/ RelayGivesUp(j)
  PROVE  InTurn'
<1>1. /\ relay \in [Job -> RelayState] /\ relay[j] = "attempting"
      /\ \E outcome \in {"landed", "dead"} : relay' = [relay EXCEPT ![j] = outcome]
      /\ UNCHANGED <<nextJobToSubmit, completedTasks, sending, relayRx>>
  BY DEF RelayLands, RelayGivesUp, TypeOK, actorVars
<1>2. /\ Nonce \in [Job -> Nat] /\ nextJobToSubmit \in Nat /\ NextToSettle \in Nat
      /\ \A p \in 1..Len(relayRx) : relayRx[p] \in Job
  BY JobAssumption, NonceAssumption DEF TypeOK, NextToSettle
<1>3. \A k \in Job : Attempting(k)' => k # j /\ Attempting(k)
  BY <1>1 DEF Attempting
<1>4. \A k \in Ordered : relay'[k] \in {"attempting", "landed"}
                            => relay[k] \in {"attempting", "landed"}
  BY <1>1, JobAssumption
<1>5. NextNeverWaits' /\ OneWaitsPerNonce' /\ SendsNext' /\ QueueInOrder'
  BY <1>1 DEF InTurn, NextNeverWaits, OneWaitsPerNonce, SendsNext, QueueInOrder
<1>6. CASE j \notin Ordered
  <2>1. NextToSettle' = NextToSettle
    BY <1>6 DEF RelayLands, RelayGivesUp, RecordSettled, NextToSettle
  <2>2. \A k \in Job : Attempting(k)' <=> Attempting(k)
    BY <1>1, <1>6 DEF Attempting
  <2>3. OneInHand'
    BY <1>1, <1>4, <2>1, <2>2 DEF InTurn, OneInHand
  <2>4. NoGap'
    BY <1>1, <2>1, <2>2 DEF InTurn, NoGap
  <2>. QED  BY <1>5, <2>3, <2>4 DEF InTurn
<1>7. CASE j \in Ordered
  <2>1. NextToSettle' = NextToSettle + 1
    <3>1. PICK landed \in BOOLEAN :
             settled' = Append(settled, [nonce |-> Nonce[j], landed |-> landed])
      BY <1>7 DEF RelayLands, RelayGivesUp, RecordSettled
    <3>2. Len(settled') = Len(settled) + 1
      BY <3>1 DEF TypeOK
    <3>. QED  BY <3>2, NonceAssumption DEF NextToSettle, TypeOK
  <2>2. Attempting(j) /\ Nonce[j] = NextToSettle /\ NextToSettle < nextJobToSubmit
    BY <1>1, <1>7 DEF InTurn, OneInHand, Attempting
  <2>3. \A k \in Job : ~Attempting(k)'
    BY <1>3, <1>7, <2>2 DEF InTurn, OneInHand, Attempting
  <2>4. \A p \in 1..Len(relayRx) :
           relayRx[p] \in Ordered => NextToSettle + 1 <= Nonce[relayRx[p]]
    BY <1>2, <2>2 DEF InTurn, OneInHand
  <2>5. OneInHand'
    BY <1>1, <1>4, <2>1, <2>3, <2>4 DEF InTurn, OneInHand
  <2>6. NoGap'
    <3>1. SUFFICES ASSUME NEW n \in (NextToSettle + 1)..(nextJobToSubmit - 1)
                   PROVE  \E p \in 1..Len(relayRx) :
                             relayRx[p] \in Ordered /\ Nonce[relayRx[p]] = n
      BY <1>1, <1>2, <2>1, <2>2 DEF NoGap
    <3>2. n \in NextToSettle..(nextJobToSubmit - 1) /\ n # NextToSettle
      BY <1>2
    <3>3. \A k \in Job : Attempting(k) => Nonce[k] = NextToSettle
      BY DEF InTurn, OneInHand
    <3>. QED  BY <3>2, <3>3 DEF InTurn, NoGap
  <2>. QED  BY <1>5, <2>5, <2>6 DEF InTurn
<1>. QED  BY <1>6, <1>7

LEMMA ReportInTurn ==
  ASSUME TypeOK, InTurn, NEW j \in Job, ReportRelayed(j)
  PROVE  InTurn'
<1>1. /\ relay \in [Job -> RelayState] /\ relay[j] = "landed"
      /\ relay' = [relay EXCEPT ![j] = "reported"]
      /\ UNCHANGED <<nextJobToSubmit, completedTasks, sending, relayRx, settled>>
  BY DEF ReportRelayed, TypeOK, actorVars
<1>2. \A k \in Job : Attempting(k)' <=> Attempting(k)
  BY <1>1 DEF Attempting
<1>3. \A k \in Ordered : relay'[k] \in {"attempting", "landed"}
                            => relay[k] \in {"attempting", "landed"}
  BY <1>1, JobAssumption
<1>4. NextToSettle' = NextToSettle
  BY <1>1 DEF NextToSettle
<1>5. OneInHand'
  BY <1>1, <1>2, <1>3, <1>4 DEF InTurn, OneInHand
<1>6. NoGap'
  BY <1>1, <1>2, <1>4 DEF InTurn, NoGap
<1>. QED
  BY <1>1, <1>5, <1>6
     DEF InTurn, NextNeverWaits, OneWaitsPerNonce, SendsNext, QueueInOrder

LEMMA NextInTurn == TypeOK /\ InTurn /\ [Next]_vars => InTurn'
<1>1. UNCHANGED vars => UNCHANGED turnVars
  BY DEF vars, turnVars, actorVars, relayVars
<1>. QED
  BY <1>1, OtherInTurn, JoinInTurn, SendInTurn, TakeInTurn, SettleInTurn, ReportInTurn,
     StutterInTurn
     DEF Next, Rest, JoinOne, RelayOne

\* The invariant that puts every handed-over nonce in its place: sent, queued,
\* in the relay actor's hands, or settled, in this order and without a gap
\* (execute.rs:148-173, relayer.rs:280-339).
THEOREM AlwaysInTurn == Spec => []InTurn
<1>1. Init => InTurn  BY InitInTurn
<1>2. TypeOK /\ InTurn /\ [Next]_vars => InTurn'  BY NextInTurn
<1>. QED  BY <1>1, <1>2, TypeCorrect, PTL DEF Spec

-----------------------------------------------------------------------------
(* The actors implement OrderedRelay. *)

LEMMA InitPromise == Init => Promise!OrderedInit
  BY DEF Init, ActorsInit, RelayActorInit, Promise!OrderedInit

LEMMA StepPromise ==
  ASSUME TypeOK, InTurn, [Next]_vars
  PROVE  [Promise!OrderedNext]_(Promise!orderedVars)
<1>1. CASE SendOrdered
  BY <1>1 DEF SendOrdered, relayVars, Promise!OrderedNext, Promise!HandOver
<1>2. ASSUME NEW j \in Job, RelayLands(j) \/ RelayGivesUp(j)
      PROVE  [Promise!OrderedNext]_(Promise!orderedVars)
  <2>1. nextJobToSubmit' = nextJobToSubmit
    BY <1>2 DEF RelayLands, RelayGivesUp, actorVars
  <2>2. CASE j \notin Ordered
    BY <1>2, <2>1, <2>2 DEF RelayLands, RelayGivesUp, RecordSettled, Promise!orderedVars
  <2>3. CASE j \in Ordered
    <3>1. Nonce[j] = NextToSettle /\ NextToSettle < nextJobToSubmit
      BY <1>2, <2>3 DEF RelayLands, RelayGivesUp, InTurn, OneInHand, Attempting
    <3>2. \E landed \in BOOLEAN :
             settled' = Append(settled, [nonce |-> NextToSettle, landed |-> landed])
      BY <1>2, <2>3, <3>1 DEF RelayLands, RelayGivesUp, RecordSettled
    <3>. QED
      BY <2>1, <3>1, <3>2
         DEF NextToSettle, Promise!OrderedNext, Promise!Settle, Promise!NextToSettle
  <2>. QED  BY <2>2, <2>3
<1>3. CASE UNCHANGED <<nextJobToSubmit, settled>>
  BY <1>3 DEF Promise!orderedVars
<1>4. ASSUME NEW j \in Job, Submission(j)
      PROVE  UNCHANGED <<nextJobToSubmit, settled>>
  BY <1>4 DEF Submission, CheckPending, SkipPending, Resubmit, AskNextNonce, RejectLowNonce,
              SendExec, actorVars, relayVars
<1>5. ASSUME NEW j \in Job, ReceiveOne(j)
      PROVE  UNCHANGED <<nextJobToSubmit, settled>>
  BY <1>5 DEF ReceiveOne, StartTask, DropExec, AnswerPending, AnswerNextNonce, ForgetRelayed,
              actorVars, relayVars
<1>6. ASSUME NEW j \in Job, JoinOne(j) \/ PoolWorker(j) \/ ReportRelayed(j)
      PROVE  UNCHANGED <<nextJobToSubmit, settled>>
  BY <1>6 DEF JoinOne, JoinToSend, JoinToWait, JoinFailed, JoinLost, PoolWorker, Execute,
              ReportRelayed, actorVars, relayVars
<1>7. SendUnordered \/ TakeRelay \/ UNCHANGED vars => UNCHANGED <<nextJobToSubmit, settled>>
  BY DEF SendUnordered, TakeRelay, vars, actorVars, relayVars
<1>. QED
  BY <1>1, <1>2, <1>3, <1>4, <1>5, <1>6, <1>7 DEF Next, Rest, SendOne, RelayOne

\* The execution actor and the relay actor settle the Ordered jobs of a
\* consumer one by one in nonce order, whatever the order of submission and of
\* completion, resubmissions of a nonce and failures to relay included.
THEOREM ActorsKeepPromise == Spec => KeepsPromise
<1>1. Init => Promise!OrderedInit  BY InitPromise
<1>2. TypeOK /\ InTurn /\ [Next]_vars => [Promise!OrderedNext]_(Promise!orderedVars)
  BY StepPromise
<1>. QED
  BY <1>1, <1>2, TypeCorrect, AlwaysInTurn, PTL
     DEF Spec, KeepsPromise, Promise!OrderedSpec

-----------------------------------------------------------------------------
(* No accepted job is lost, and no refusal is premature. *)

LEMMA NextNonceGrows ==
  ASSUME TypeOK, [Next]_vars
  PROVE  nextJobToSubmit' \in Nat /\ nextJobToSubmit <= nextJobToSubmit'
<1>1. nextJobToSubmit' \in Nat  BY NextType DEF TypeOK
<1>2. nextJobToSubmit' = nextJobToSubmit \/ nextJobToSubmit' = nextJobToSubmit + 1
  BY DEF Next, Rest, Submission, CheckPending, SkipPending, Resubmit, AskNextNonce,
         RejectLowNonce, SendExec, ReceiveOne, StartTask, DropExec, AnswerPending,
         AnswerNextNonce, ForgetRelayed, JoinOne, JoinToSend, JoinToWait, JoinFailed, JoinLost,
         PoolWorker, Execute, RelayOne, RelayLands, RelayGivesUp, ReportRelayed, SendOne,
         SendUnordered, SendOrdered, TakeRelay, vars, actorVars
<1>. QED  BY <1>1, <1>2 DEF TypeOK

\* A message stays in the channel until it is received, and a sent one is in it.
LEMMA QueuedAfterSend ==
  ASSUME TypeOK, NEW j \in Job, NEW t \in {"Pending", "NextNonce", "Exec", "Relayed"},
         SendToExec(t, j)
  PROVE  /\ Queued(t, j)'
         /\ \A k \in Job : Queued("Exec", k) => Queued("Exec", k)'
<1>1. [type |-> t, job |-> j] \in Message /\ execRx \in Seq(Message)
  BY DEF Message, TypeOK
<1>2. /\ execRx' = Append(execRx, [type |-> t, job |-> j])
      /\ Len(execRx') = Len(execRx) + 1 /\ Len(execRx) \in Nat
      /\ \A i \in 1..Len(execRx) : execRx'[i] = execRx[i]
      /\ execRx'[Len(execRx')] = [type |-> t, job |-> j]
  BY <1>1, AppendFacts DEF SendToExec
<1>. QED  BY <1>2 DEF Queued

LEMMA QueuedAfterReceive ==
  ASSUME TypeOK, NEW j \in Job, NEW t, Receive(t, j),
         NEW k \in Job, Queued("Exec", k)
  PROVE  Queued("Exec", k)' \/ (t = "Exec" /\ j = k)
<1>1. /\ execRx' = Tail(execRx) /\ Len(execRx) \in Nat \ {0}
      /\ Len(execRx') = Len(execRx) - 1
      /\ \A i \in 1..(Len(execRx) - 1) : execRx'[i] = execRx[i + 1]
      /\ execRx[1] = [type |-> t, job |-> j]
  BY TailFacts DEF Receive, TypeOK
<1>2. PICK i \in 1..Len(execRx) : execRx[i] = [type |-> "Exec", job |-> k]
  BY DEF Queued
<1>3. CASE i = 1
  <2>1. [type |-> "Exec", job |-> k] = [type |-> t, job |-> j]  BY <1>1, <1>2, <1>3
  <2>2. [type |-> "Exec", job |-> k].type = [type |-> t, job |-> j].type
        /\ [type |-> "Exec", job |-> k].job = [type |-> t, job |-> j].job
    BY <2>1
  <2>. QED  BY <2>2
<1>4. CASE i # 1
  <2>1. i - 1 \in 1..(Len(execRx) - 1) /\ (i - 1) + 1 = i
    BY <1>1, <1>4
  <2>2. i - 1 \in 1..Len(execRx') /\ execRx'[i - 1] = [type |-> "Exec", job |-> k]
    BY <1>1, <1>2, <2>1
  <2>. QED  BY <2>2 DEF Queued
<1>. QED  BY <1>3, <1>4

\* What AcceptedIsAccounted says of one job.
Accounted(j) ==
    \/ Nonce[j] < nextJobToSubmit
    \/ Queued("Exec", j)
    \/ task[j] \in {"executing", "ok"}
    \/ sending \in Ordered /\ Nonce[sending] = Nonce[j]
    \/ \E k \in completedTasks : Nonce[k] = Nonce[j]

LEMMA StepAccounted ==
  ASSUME TypeOK, InTurn, [Next]_vars, NEW j \in Ordered \ MayFail,
         call[j] = "sent" => Accounted(j), call'[j] = "sent"
  PROVE  Accounted(j)'
<1>1. /\ j \in Job /\ Nonce[j] \in Nat /\ NoJob \notin Ordered
      /\ nextJobToSubmit \in Nat /\ nextJobToSubmit' \in Nat
      /\ nextJobToSubmit <= nextJobToSubmit'
  BY JobAssumption, NextNonceGrows DEF TypeOK
<1>2. ASSUME NEW k \in Job, Submission(k)
      PROVE  Accounted(j)'
  <2>1. UNCHANGED <<nextJobToSubmit, task, sending, completedTasks>>
    BY <1>2 DEF Submission, CheckPending, SkipPending, Resubmit, AskNextNonce, RejectLowNonce,
                SendExec, actorVars
  <2>2. CASE SendExec(k)
    <3>1. SendToExec("Exec", k) /\ call' = [call EXCEPT ![k] = "sent"]
      BY <2>2 DEF SendExec
    <3>2. CASE k = j
      BY <1>1, <3>1, <3>2, QueuedAfterSend DEF Accounted
    <3>3. CASE k # j
      <4>1. call[j] = "sent"  BY <1>1, <3>1, <3>3 DEF TypeOK
      <4>2. Queued("Exec", j) => Queued("Exec", j)'  BY <1>1, <3>1, QueuedAfterSend
      <4>. QED  BY <2>1, <4>1, <4>2 DEF Accounted
    <3>. QED  BY <3>2, <3>3
  <2>3. CASE ~SendExec(k)
    <3>1. call[j] = "sent"
      BY <1>1, <1>2, <2>3 DEF Submission, CheckPending, SkipPending, Resubmit, AskNextNonce,
                              RejectLowNonce, TypeOK
    <3>2. \/ UNCHANGED execRx
          \/ SendToExec("Pending", k) \/ SendToExec("NextNonce", k)
      BY <1>2, <2>3 DEF Submission, CheckPending, SkipPending, Resubmit, AskNextNonce,
                        RejectLowNonce
    <3>3. Queued("Exec", j) => Queued("Exec", j)'
      <4>1. CASE UNCHANGED execRx  BY <4>1 DEF Queued
      <4>2. CASE SendToExec("Pending", k)  BY <1>1, <4>2, QueuedAfterSend
      <4>3. CASE SendToExec("NextNonce", k)  BY <1>1, <4>3, QueuedAfterSend
      <4>. QED  BY <3>2, <4>1, <4>2, <4>3
    <3>. QED  BY <2>1, <3>1, <3>3 DEF Accounted
  <2>. QED  BY <2>2, <2>3
<1>3. CASE ~\E k \in Job : Submission(k)
  <2>1. call[j] = "sent" /\ Accounted(j)
    BY <1>3 DEF Next, Rest, ReceiveOne, StartTask, DropExec, AnswerPending, AnswerNextNonce,
                ForgetRelayed, JoinOne, JoinToSend, JoinToWait, JoinFailed, JoinLost,
                PoolWorker, Execute, RelayOne, RelayLands, RelayGivesUp, ReportRelayed,
                SendOne, SendUnordered, SendOrdered, TakeRelay, vars, callVars
  <2>2. ASSUME NEW k \in Job, ReceiveOne(k)
        PROVE  Accounted(j)'
    <3>1. UNCHANGED <<nextJobToSubmit, sending, completedTasks>>
      BY <2>2 DEF ReceiveOne, StartTask, DropExec, AnswerPending, AnswerNextNonce,
                  ForgetRelayed, actorVars
    <3>2. task[j] \in {"executing", "ok"} => task'[j] \in {"executing", "ok"}
      BY <1>1, <2>2 DEF ReceiveOne, StartTask, DropExec, AnswerPending, AnswerNextNonce,
                        ForgetRelayed, TypeOK
    <3>3. Queued("Exec", j) => Queued("Exec", j)' \/ (Receive("Exec", k) /\ k = j)
      <4>1. \/ Receive("Exec", k) \/ Receive("Pending", k) \/ Receive("NextNonce", k)
            \/ Receive("Relayed", k)
        BY <2>2 DEF ReceiveOne, StartTask, DropExec, AnswerPending, AnswerNextNonce,
                    ForgetRelayed
      <4>. QED  BY <1>1, <4>1, QueuedAfterReceive
    <3>4. Receive("Exec", k) /\ k = j => task'[j] = "executing" \/ Nonce[j] < nextJobToSubmit
      <4>1. SUFFICES ASSUME Receive("Exec", k), k = j
                     PROVE  task'[j] = "executing" \/ Nonce[j] < nextJobToSubmit
        OBVIOUS
      <4>2. StartTask(k) \/ DropExec(k)
        <5>1. Head(execRx) = [type |-> "Exec", job |-> k]
          BY <4>1 DEF Receive
        <5>2. Head(execRx).type = "Exec"
          BY <5>1
        <5>. QED
          BY <2>2, <5>2 DEF ReceiveOne, AnswerPending, AnswerNextNonce, ForgetRelayed, Receive
      <4>. QED  BY <1>1, <4>1, <4>2 DEF StartTask, DropExec, TooLate, TypeOK
    <3>. QED  BY <2>1, <3>1, <3>2, <3>3, <3>4 DEF Accounted
  <2>3. ASSUME NEW k \in Job, JoinOne(k)
        PROVE  Accounted(j)'
    <3>1. UNCHANGED <<nextJobToSubmit, execRx>> /\ sending = NoJob
      BY <2>3 DEF JoinOne, JoinToSend, JoinToWait, JoinFailed, JoinLost, Join, Selecting,
                  actorVars
    <3>2. CASE task[j] \in {"executing", "ok"}
      <4>1. CASE k # j
        BY <1>1, <2>3, <3>2, <4>1 DEF JoinOne, JoinToSend, JoinToWait, JoinFailed, JoinLost,
                                      Join, TypeOK, Accounted
      <4>2. CASE k = j
        <5>1. JoinToSend(j) \/ JoinToWait(j)
          BY <2>3, <3>2, <4>2 DEF JoinOne, JoinFailed, JoinLost, Join
        <5>2. JoinToSend(j) => sending' = j
          BY DEF JoinToSend
        <5>3. JoinToWait(j) => j \in completedTasks'
          BY DEF JoinToWait
        <5>. QED  BY <5>1, <5>2, <5>3 DEF Accounted
      <4>. QED  BY <4>1, <4>2
    <3>3. CASE \E i \in completedTasks : Nonce[i] = Nonce[j]
      <4>1. \E i \in completedTasks' : Nonce[i] = Nonce[j]
        BY <2>3, <3>3 DEF JoinOne, JoinToSend, JoinToWait, JoinFailed, JoinLost, actorVars
      <4>. QED  BY <4>1 DEF Accounted
    <3>4. CASE Nonce[j] < nextJobToSubmit \/ Queued("Exec", j)
      BY <3>1, <3>4 DEF Accounted, Queued
    <3>. QED  BY <1>1, <2>1, <3>1, <3>2, <3>3, <3>4 DEF Accounted
  <2>4. CASE SendOne
    <3>1. UNCHANGED <<task, execRx>> /\ completedTasks \subseteq Ordered
      BY <2>4 DEF SendOne, SendUnordered, SendOrdered, TypeOK
    <3>2. CASE SendUnordered
      <4>1. sending \notin Ordered /\ UNCHANGED <<nextJobToSubmit, completedTasks>>
        BY <3>2 DEF SendUnordered
      <4>. QED  BY <2>1, <3>1, <4>1 DEF Accounted, Queued
    <3>3. CASE SendOrdered
      <4>1. nextJobToSubmit' = nextJobToSubmit + 1 /\ Nonce[sending] = nextJobToSubmit
        BY <3>3 DEF SendOrdered, InTurn, SendsNext
      <4>2. CASE \E i \in completedTasks : Nonce[i] = Nonce[j]
        <5>1. PICK i \in completedTasks : Nonce[i] = Nonce[j]  BY <4>2
        <5>2. i \in completedTasks' \/ sending' = i
          BY <3>3 DEF SendOrdered
        <5>. QED  BY <3>1, <5>1, <5>2 DEF Accounted
      <4>. QED  BY <1>1, <2>1, <3>1, <4>1, <4>2 DEF Accounted, Queued
    <3>. QED  BY <2>4, <3>2, <3>3 DEF SendOne
  <2>5. ASSUME NEW k \in Job, PoolWorker(k)
        PROVE  Accounted(j)'
    <3>1. UNCHANGED <<nextJobToSubmit, sending, completedTasks, execRx>>
      BY <2>5 DEF PoolWorker, Execute, actorVars
    <3>2. task[j] \in {"executing", "ok"} => task'[j] \in {"executing", "ok"}
      BY <1>1, <2>5 DEF PoolWorker, Execute, Outcomes, TypeOK
    <3>. QED  BY <2>1, <3>1, <3>2 DEF Accounted, Queued
  <2>6. CASE TakeRelay \/ UNCHANGED vars
    BY <2>1, <2>6 DEF TakeRelay, vars, actorVars, Accounted, Queued
  <2>7. ASSUME NEW k \in Job, RelayOne(k)
        PROVE  Accounted(j)'
    <3>1. UNCHANGED <<nextJobToSubmit, sending, completedTasks, task>>
      BY <2>7 DEF RelayOne, RelayLands, RelayGivesUp, ReportRelayed, actorVars
    <3>2. Queued("Exec", j) => Queued("Exec", j)'
      <4>1. CASE UNCHANGED execRx  BY <4>1 DEF Queued
      <4>2. CASE SendToExec("Relayed", k)  BY <1>1, <4>2, QueuedAfterSend
      <4>. QED  BY <2>7, <4>1, <4>2 DEF RelayOne, RelayLands, RelayGivesUp, ReportRelayed
    <3>. QED  BY <2>1, <3>1, <3>2 DEF Accounted
  <2>. QED  BY <1>3, <2>2, <2>3, <2>4, <2>5, <2>6, <2>7 DEF Next, Rest
<1>. QED  BY <1>2, <1>3

\* An accepted Ordered job that executes is handed over, or still on its way,
\* or represented by a job with its nonce: the defensive drop of execute.rs:109
\* and the overwriting insert of execute.rs:172 lose no nonce.
THEOREM AlwaysAccounted == Spec => []AcceptedIsAccounted
<1>1. Init => AcceptedIsAccounted
  BY JobAssumption DEF Init, AcceptedIsAccounted
<1>2. TypeOK /\ InTurn /\ AcceptedIsAccounted /\ [Next]_vars => AcceptedIsAccounted'
  <2>1. AcceptedIsAccounted <=> \A j \in Ordered \ MayFail : call[j] = "sent" => Accounted(j)
    BY DEF AcceptedIsAccounted, Accounted
  <2>2. AcceptedIsAccounted' <=>
           \A j \in Ordered \ MayFail : call'[j] = "sent" => Accounted(j)'
    BY DEF AcceptedIsAccounted, Accounted
  <2>. QED  BY <2>1, <2>2, StepAccounted
<1>. QED  BY <1>1, <1>2, TypeCorrect, AlwaysInTurn, PTL DEF Spec

LEMMA StepRefusal == TypeOK /\ RefusalIsFinal /\ [Next]_vars => RefusalIsFinal'
<1>1. SUFFICES ASSUME TypeOK, RefusalIsFinal, [Next]_vars, NEW j \in Job
               PROVE  /\ call'[j] = "rejected" => Nonce[j] < nextJobToSubmit'
                      /\ nextNonceReply'[j] # NoReply => nextNonceReply'[j] <= nextJobToSubmit'
  BY DEF RefusalIsFinal
<1>2. /\ Nonce[j] \in Nat
      /\ nextJobToSubmit \in Nat /\ nextJobToSubmit' \in Nat
      /\ nextJobToSubmit <= nextJobToSubmit'
      /\ nextNonceReply[j] \in Nat \cup {NoReply}
  BY <1>1, JobAssumption, NextNonceGrows DEF TypeOK
<1>3. ASSUME NEW k \in Job, Submission(k)
      PROVE  /\ call'[j] = "rejected" => Nonce[j] < nextJobToSubmit'
             /\ nextNonceReply'[j] # NoReply => nextNonceReply'[j] <= nextJobToSubmit'
  BY <1>1, <1>2, <1>3
     DEF Submission, CheckPending, SkipPending, Resubmit, AskNextNonce, RejectLowNonce, SendExec,
         RefusalIsFinal, TypeOK
<1>4. ASSUME NEW k \in Job, AnswerNextNonce(k)
      PROVE  /\ call'[j] = "rejected" => Nonce[j] < nextJobToSubmit'
             /\ nextNonceReply'[j] # NoReply => nextNonceReply'[j] <= nextJobToSubmit'
  BY <1>1, <1>2, <1>4 DEF AnswerNextNonce, RefusalIsFinal, TypeOK, actorVars
<1>5. CASE UNCHANGED <<call, nextNonceReply>>
  BY <1>1, <1>2, <1>5 DEF RefusalIsFinal
<1>. QED
  BY <1>1, <1>3, <1>4, <1>5
     DEF Next, Rest, ReceiveOne, StartTask, DropExec, AnswerPending, ForgetRelayed, JoinOne,
         JoinToSend, JoinToWait, JoinFailed, JoinLost, PoolWorker, Execute, RelayOne,
         RelayLands, RelayGivesUp, ReportRelayed, SendOne, SendUnordered, SendOrdered,
         TakeRelay, vars, callVars

\* submit_job refuses a job on a next nonce that may be out of date by then;
\* the refusal is right nevertheless, and stays right.
THEOREM RefusalsAreFinal == Spec => []RefusalIsFinal
<1>1. Init => RefusalIsFinal
  BY DEF Init, RefusalIsFinal
<1>. QED  BY <1>1, StepRefusal, TypeCorrect, PTL DEF Spec

-----------------------------------------------------------------------------
(* What get_pending_nonces reports. *)

InRelayRx(j) == \E i \in 1..Len(relayRx) : relayRx[i] = j

\* The task of job j is joined, and the result went on, or was lost.
PastJoin(j) == j \in completedTasks \/ sending = j \/ InRelayRx(j) \/ relay[j] # "none"

\* A job is in one place of the pipeline at a time.
OnePlace(j) ==
    /\ Queued("Exec", j) => call[j] = "sent" /\ task[j] = "none"
    /\ task[j] # "none" => call[j] = "sent"
    /\ PastJoin(j) => task[j] = "joined"
    /\ j \in completedTasks => sending # j /\ ~InRelayRx(j) /\ relay[j] = "none"
    /\ sending = j => ~InRelayRx(j) /\ relay[j] = "none"
    /\ InRelayRx(j) => relay[j] = "none"
    /\ Queued("Relayed", j) => relay[j] = "reported"

ExecOnce == \A p, q \in 1..Len(execRx) :
                execRx[p] = execRx[q] /\ execRx[p].type = "Exec" => p = q

RelayOnce == \A p, q \in 1..Len(relayRx) : relayRx[p] = relayRx[q] => p = q

OnceThrough == (\A j \in Job : OnePlace(j)) /\ ExecOnce /\ RelayOnce

\* The channels.

MessageType == {"Pending", "NextNonce", "Exec", "Relayed"}

LEMMA SentIsQueued ==
  ASSUME TypeOK, NEW k \in Job, NEW t \in MessageType, SendToExec(t, k)
  PROVE  /\ \A j \in Job, u \in MessageType :
               Queued(u, j)' <=> Queued(u, j) \/ (u = t /\ j = k)
         /\ ExecOnce /\ (t = "Exec" => ~Queued("Exec", k)) => ExecOnce'
<1>. DEFINE m == [type |-> t, job |-> k]
<1>1. m \in Message /\ execRx \in Seq(Message)
  BY DEF Message, MessageType, TypeOK
<1>2. /\ execRx' = Append(execRx, m)
      /\ Len(execRx') = Len(execRx) + 1 /\ Len(execRx) \in Nat
      /\ \A i \in 1..Len(execRx) : execRx'[i] = execRx[i]
      /\ execRx'[Len(execRx) + 1] = m
  BY <1>1, AppendFacts DEF SendToExec
<1>3. \A u, j : [type |-> u, job |-> j] = m <=> u = t /\ j = k
  <2>. TAKE u, j
  <2>1. ASSUME [type |-> u, job |-> j] = m PROVE u = t /\ j = k
    <3>1. [type |-> u, job |-> j].type = m.type /\ [type |-> u, job |-> j].job = m.job
      BY <2>1
    <3>. QED  BY <3>1
  <2>. QED  BY <2>1
<1>4. m.type = t
  OBVIOUS
<1>. HIDE DEF m
<1>5. ASSUME NEW j \in Job, NEW u \in MessageType
      PROVE  Queued(u, j)' <=> Queued(u, j) \/ (u = t /\ j = k)
  <2>. DEFINE w == [type |-> u, job |-> j]
  <2>1. w = m <=> u = t /\ j = k  BY <1>3
  <2>. HIDE DEF w
  <2>2. (\E i \in 1..Len(execRx') : execRx'[i] = w)
           <=> (\E i \in 1..Len(execRx) : execRx[i] = w) \/ w = m
    BY <1>2
  <2>. QED  BY <2>1, <2>2 DEF Queued, w
<1>6. ASSUME ExecOnce, t = "Exec" => ~Queued("Exec", k)
      PROVE  ExecOnce'
  <2>1. m = [type |-> t, job |-> k]  BY DEF m
  <2>2. ASSUME m.type = "Exec" PROVE \A i \in 1..Len(execRx) : execRx[i] # m
    BY <1>4, <1>6, <2>1, <2>2 DEF Queued
  <2>3. SUFFICES ASSUME NEW p \in 1..Len(execRx'), NEW q \in 1..Len(execRx'),
                        execRx'[p] = execRx'[q], execRx'[p].type = "Exec", p < q
                 PROVE  FALSE
    BY <1>2 DEF ExecOnce
  <2>4. p \in 1..Len(execRx) /\ execRx'[p] = execRx[p]  BY <1>2, <2>3
  <2>5. CASE q = Len(execRx) + 1
    <3>1. execRx[p] = m /\ m.type = "Exec"  BY <1>2, <2>3, <2>4, <2>5
    <3>. QED  BY <2>2, <2>4, <3>1
  <2>6. CASE q # Len(execRx) + 1
    <3>1. q \in 1..Len(execRx) /\ execRx'[q] = execRx[q]  BY <1>2, <2>3, <2>6
    <3>2. p = q  BY <1>6, <2>3, <2>4, <3>1 DEF ExecOnce
    <3>. QED  BY <2>3, <3>2
  <2>. QED  BY <2>5, <2>6
<1>. QED  BY <1>5, <1>6

LEMMA ReceivedIsGone ==
  ASSUME TypeOK, NEW k \in Job, NEW t \in MessageType, Receive(t, k), ExecOnce
  PROVE  /\ \A j \in Job, u \in MessageType : Queued(u, j)' => Queued(u, j)
         /\ \A j \in Job, u \in MessageType :
               Queued(u, j) => Queued(u, j)' \/ (u = t /\ j = k)
         /\ Queued(t, k)
         /\ t = "Exec" => ~Queued("Exec", k)'
         /\ ExecOnce'
<1>. DEFINE m == [type |-> t, job |-> k]
<1>1. /\ execRx' = Tail(execRx) /\ Len(execRx) \in Nat \ {0}
      /\ Len(execRx') = Len(execRx) - 1
      /\ \A i \in 1..(Len(execRx) - 1) : execRx'[i] = execRx[i + 1]
      /\ execRx[1] = m
  BY TailFacts DEF Receive, TypeOK
<1>2. m.type = t
  OBVIOUS
<1>3. \A u, j : [type |-> u, job |-> j] = m => u = t /\ j = k
  <2>. TAKE u, j
  <2>1. ASSUME [type |-> u, job |-> j] = m PROVE u = t /\ j = k
    <3>1. [type |-> u, job |-> j].type = m.type /\ [type |-> u, job |-> j].job = m.job
      BY <2>1
    <3>. QED  BY <3>1
  <2>. QED  BY <2>1
<1>4. Queued(t, k)
  BY <1>1 DEF Queued
<1>. HIDE DEF m
<1>5. \A w : (\E i \in 1..Len(execRx') : execRx'[i] = w) => \E i \in 1..Len(execRx) : execRx[i] = w
  <2>. TAKE w
  <2>1. SUFFICES ASSUME NEW i \in 1..Len(execRx'), execRx'[i] = w
                 PROVE  \E n \in 1..Len(execRx) : execRx[n] = w
    OBVIOUS
  <2>2. i + 1 \in 1..Len(execRx) /\ execRx[i + 1] = w  BY <1>1, <2>1
  <2>. QED  BY <2>2
<1>6. \A w : (\E i \in 1..Len(execRx) : execRx[i] = w) =>
             w = m \/ \E i \in 1..Len(execRx') : execRx'[i] = w
  <2>. TAKE w
  <2>1. SUFFICES ASSUME NEW i \in 1..Len(execRx), execRx[i] = w, i # 1
                 PROVE  \E n \in 1..Len(execRx') : execRx'[n] = w
    BY <1>1
  <2>2. /\ i - 1 \in 1..(Len(execRx) - 1) /\ i - 1 \in 1..Len(execRx')
        /\ (i - 1) + 1 = i
    BY <1>1, <2>1
  <2>3. execRx'[i - 1] = w  BY <1>1, <2>1, <2>2
  <2>. QED  BY <2>2, <2>3
<1>7. ExecOnce'
  <2>1. SUFFICES ASSUME NEW p \in 1..Len(execRx'), NEW q \in 1..Len(execRx'),
                        execRx'[p] = execRx'[q], execRx'[p].type = "Exec"
                 PROVE  p = q
    BY DEF ExecOnce
  <2>2. /\ p + 1 \in 1..Len(execRx) /\ q + 1 \in 1..Len(execRx)
        /\ execRx'[p] = execRx[p + 1] /\ execRx'[q] = execRx[q + 1]
    BY <1>1, <2>1
  <2>3. p + 1 = q + 1  BY <2>1, <2>2 DEF ExecOnce
  <2>. QED  BY <1>1, <2>3
<1>8. t = "Exec" => ~Queued("Exec", k)'
  <2>1. SUFFICES ASSUME t = "Exec", NEW i \in 1..Len(execRx'), execRx'[i] = m
                 PROVE  FALSE
    BY DEF Queued, m
  <2>2. /\ i + 1 \in 1..Len(execRx) /\ 1 \in 1..Len(execRx) /\ execRx[i + 1] = execRx[1]
        /\ execRx[1].type = "Exec"
    BY <1>1, <1>2, <2>1
  <2>3. i + 1 = 1  BY <2>2 DEF ExecOnce
  <2>. QED  BY <1>1, <2>3
<1>. QED  BY <1>3, <1>4, <1>5, <1>6, <1>7, <1>8 DEF Queued

LEMMA HandedIsQueued ==
  ASSUME TypeOK, SendToRelay
  PROVE  /\ sending \in Job
         /\ \A j \in Job : InRelayRx(j)' <=> InRelayRx(j) \/ j = sending
         /\ RelayOnce /\ ~InRelayRx(sending) => RelayOnce'
<1>1. /\ sending \in Job /\ relayRx \in Seq(Job)
      /\ relayRx' = Append(relayRx, sending)
      /\ Len(relayRx') = Len(relayRx) + 1 /\ Len(relayRx) \in Nat
      /\ \A i \in 1..Len(relayRx) : relayRx'[i] = relayRx[i]
      /\ relayRx'[Len(relayRx) + 1] = sending
  BY AppendFacts DEF SendToRelay, TypeOK
<1>2. ASSUME NEW j \in Job
      PROVE  InRelayRx(j)' <=> InRelayRx(j) \/ j = sending
  <2>1. (\E i \in 1..Len(relayRx') : relayRx'[i] = j)
           <=> (\E i \in 1..Len(relayRx) : relayRx[i] = j) \/ j = sending
    BY <1>1
  <2>. QED  BY <2>1 DEF InRelayRx
<1>3. ASSUME RelayOnce, ~InRelayRx(sending)
      PROVE  RelayOnce'
  <2>1. SUFFICES ASSUME NEW p \in 1..Len(relayRx'), NEW q \in 1..Len(relayRx'),
                        relayRx'[p] = relayRx'[q], p < q
                 PROVE  FALSE
    BY <1>1 DEF RelayOnce
  <2>2. p \in 1..Len(relayRx) /\ relayRx'[p] = relayRx[p]  BY <1>1, <2>1
  <2>3. CASE q = Len(relayRx) + 1
    <3>1. relayRx[p] = sending  BY <1>1, <2>1, <2>2, <2>3
    <3>. QED  BY <1>3, <2>2, <3>1 DEF InRelayRx
  <2>4. CASE q # Len(relayRx) + 1
    <3>1. q \in 1..Len(relayRx) /\ relayRx'[q] = relayRx[q]  BY <1>1, <2>1, <2>4
    <3>2. p = q  BY <1>3, <2>1, <2>2, <3>1 DEF RelayOnce
    <3>. QED  BY <2>1, <3>2
  <2>. QED  BY <2>3, <2>4
<1>. QED  BY <1>1, <1>2, <1>3

LEMMA TakenIsGone ==
  ASSUME TypeOK, TakeRelay, RelayOnce
  PROVE  /\ Head(relayRx) \in Job /\ InRelayRx(Head(relayRx))
         /\ \A j \in Job : InRelayRx(j)' <=> InRelayRx(j) /\ j # Head(relayRx)
         /\ RelayOnce'
<1>. DEFINE h == Head(relayRx)
<1>1. /\ relayRx' = Tail(relayRx) /\ Len(relayRx) \in Nat \ {0}
      /\ Len(relayRx') = Len(relayRx) - 1
      /\ \A i \in 1..(Len(relayRx) - 1) : relayRx'[i] = relayRx[i + 1]
      /\ h = relayRx[1] /\ h \in Job
  BY TailFacts DEF TakeRelay, TypeOK
<1>2. InRelayRx(h)
  BY <1>1 DEF InRelayRx
<1>. HIDE DEF h
<1>3. ASSUME NEW j \in Job, NEW i \in 1..Len(relayRx'), relayRx'[i] = j
      PROVE  InRelayRx(j) /\ j # h
  <2>1. i + 1 \in 1..Len(relayRx) /\ relayRx[i + 1] = j /\ 1 \in 1..Len(relayRx)
    BY <1>1, <1>3
  <2>2. i + 1 # 1  BY <1>1
  <2>3. relayRx[i + 1] # relayRx[1]  BY <2>1, <2>2 DEF RelayOnce
  <2>. QED  BY <1>1, <2>1, <2>3 DEF InRelayRx
<1>4. ASSUME NEW j \in Job, NEW i \in 1..Len(relayRx), relayRx[i] = j, j # h
      PROVE  \E n \in 1..Len(relayRx') : relayRx'[n] = j
  <2>1. i # 1  BY <1>1, <1>4
  <2>2. /\ i - 1 \in 1..(Len(relayRx) - 1) /\ i - 1 \in 1..Len(relayRx')
        /\ (i - 1) + 1 = i
    BY <1>1, <2>1
  <2>3. relayRx'[i - 1] = j  BY <1>1, <1>4, <2>2
  <2>. QED  BY <2>2, <2>3
<1>5. RelayOnce'
  <2>1. SUFFICES ASSUME NEW p \in 1..Len(relayRx'), NEW q \in 1..Len(relayRx'),
                        relayRx'[p] = relayRx'[q]
                 PROVE  p = q
    BY DEF RelayOnce
  <2>2. /\ p + 1 \in 1..Len(relayRx) /\ q + 1 \in 1..Len(relayRx)
        /\ relayRx'[p] = relayRx[p + 1] /\ relayRx'[q] = relayRx[q + 1]
    BY <1>1, <2>1
  <2>3. p + 1 = q + 1  BY <2>1, <2>2 DEF RelayOnce
  <2>. QED  BY <1>1, <2>3
<1>6. \A j \in Job : InRelayRx(j)' <=> InRelayRx(j) /\ j # h
  <2>. TAKE j \in Job
  <2>1. InRelayRx(j)' => InRelayRx(j) /\ j # h  BY <1>3 DEF InRelayRx
  <2>2. InRelayRx(j) /\ j # h => InRelayRx(j)'  BY <1>4 DEF InRelayRx
  <2>. QED  BY <2>1, <2>2
<1>. QED  BY <1>1, <1>2, <1>5, <1>6 DEF h

\* Where job j stands is unchanged, messages that were received aside.
Stays(j) ==
    /\ call[j] = "sent" => call'[j] = "sent"
    /\ Queued("Exec", j)' => Queued("Exec", j)
    /\ Queued("Relayed", j)' => Queued("Relayed", j)
    /\ task'[j] = task[j]
    /\ j \in completedTasks' <=> j \in completedTasks
    /\ sending' = j <=> sending = j
    /\ InRelayRx(j)' <=> InRelayRx(j)
    /\ relay'[j] = relay[j]

LEMMA StaysInPlace ==
  ASSUME NEW j \in Job, OnePlace(j), Stays(j)
  PROVE  OnePlace(j)'
<1>1. PastJoin(j)' <=> PastJoin(j)
  BY DEF PastJoin, Stays
<1>. QED  BY <1>1 DEF OnePlace, Stays

LEMMA SubmissionOnce ==
  ASSUME TypeOK, OnceThrough, NEW k \in Job, Submission(k)
  PROVE  OnceThrough'
<1>1. UNCHANGED <<relayRx, relay, task, completedTasks, sending>>
  BY DEF Submission, CheckPending, SkipPending, Resubmit, AskNextNonce, RejectLowNonce, SendExec,
         actorVars, relayVars
<1>2. RelayOnce' /\ \A j \in Job : InRelayRx(j)' <=> InRelayRx(j)
  BY <1>1 DEF OnceThrough, RelayOnce, InRelayRx
<1>3. \A j \in Job : OnePlace(j)
  BY DEF OnceThrough
<1>4. /\ call[k] # "sent"
      /\ \A j \in Job : call[j] = "sent" => call'[j] = "sent"
  BY DEF Submission, CheckPending, SkipPending, Resubmit, AskNextNonce, RejectLowNonce, SendExec,
         TypeOK
<1>5. CASE SendExec(k)
  <2>1. SendToExec("Exec", k) /\ call'[k] = "sent"
    BY <1>5 DEF SendExec, TypeOK
  <2>2. ~Queued("Exec", k) /\ task[k] = "none"
    BY <1>3, <1>4 DEF OnePlace
  <2>3. /\ ExecOnce'
        /\ \A j \in Job : Queued("Exec", j)' <=> Queued("Exec", j) \/ j = k
        /\ \A j \in Job : Queued("Relayed", j)' <=> Queued("Relayed", j)
    BY <2>1, <2>2, SentIsQueued DEF OnceThrough, MessageType
  <2>4. ASSUME NEW j \in Job, j # k PROVE OnePlace(j)'
    BY <1>1, <1>2, <1>3, <1>4, <2>3, <2>4, StaysInPlace DEF Stays
  <2>5. OnePlace(k)'
    BY <1>1, <1>2, <1>3, <2>1, <2>2, <2>3 DEF OnePlace, PastJoin
  <2>. QED  BY <1>2, <2>3, <2>4, <2>5 DEF OnceThrough
<1>6. CASE ~SendExec(k)
  <2>1. UNCHANGED execRx \/ SendToExec("Pending", k) \/ SendToExec("NextNonce", k)
    BY <1>6 DEF Submission, CheckPending, SkipPending, Resubmit, AskNextNonce, RejectLowNonce
  <2>2. /\ ExecOnce'
        /\ \A j \in Job : Queued("Exec", j)' <=> Queued("Exec", j)
        /\ \A j \in Job : Queued("Relayed", j)' <=> Queued("Relayed", j)
    <3>1. CASE UNCHANGED execRx
      BY <3>1 DEF OnceThrough, ExecOnce, Queued
    <3>2. CASE SendToExec("Pending", k)
      BY <3>2, SentIsQueued DEF OnceThrough, MessageType
    <3>3. CASE SendToExec("NextNonce", k)
      BY <3>3, SentIsQueued DEF OnceThrough, MessageType
    <3>. QED  BY <2>1, <3>1, <3>2, <3>3
  <2>3. \A j \in Job : OnePlace(j)'
    BY <1>1, <1>2, <1>3, <1>4, <2>2, StaysInPlace DEF Stays
  <2>. QED  BY <1>2, <2>2, <2>3 DEF OnceThrough
<1>. QED  BY <1>5, <1>6

LEMMA ReceiveOnce ==
  ASSUME TypeOK, OnceThrough, NEW k \in Job, ReceiveOne(k)
  PROVE  OnceThrough'
<1>1. UNCHANGED <<call, relayRx, relay, completedTasks, sending>>
  BY DEF ReceiveOne, StartTask, DropExec, AnswerPending, AnswerNextNonce, ForgetRelayed,
         callVars, actorVars, relayVars
<1>2. RelayOnce' /\ \A j \in Job : InRelayRx(j)' <=> InRelayRx(j)
  BY <1>1 DEF OnceThrough, RelayOnce, InRelayRx
<1>3. (\A j \in Job : OnePlace(j)) /\ ExecOnce
  BY DEF OnceThrough
<1>4. CASE StartTask(k)
  <2>1. Receive("Exec", k) /\ task' = [task EXCEPT ![k] = "executing"]
    BY <1>4 DEF StartTask
  <2>2. /\ ExecOnce' /\ Queued("Exec", k) /\ ~Queued("Exec", k)'
        /\ \A j \in Job : /\ Queued("Exec", j)' => Queued("Exec", j)
                          /\ Queued("Relayed", j)' => Queued("Relayed", j)
    BY <1>3, <2>1, ReceivedIsGone DEF MessageType
  <2>3. call[k] = "sent" /\ ~PastJoin(k)
    BY <1>3, <2>2 DEF OnePlace
  <2>4. ASSUME NEW j \in Job, j # k PROVE OnePlace(j)'
    <3>1. task'[j] = task[j]  BY <2>1, <2>4 DEF TypeOK
    <3>. QED  BY <1>1, <1>2, <1>3, <2>2, <3>1, StaysInPlace DEF Stays
  <2>5. OnePlace(k)'
    <3>1. ~PastJoin(k)'
      BY <1>1, <1>2, <2>3 DEF PastJoin
    <3>2. ~Queued("Relayed", k)'
      BY <1>3, <2>2, <2>3 DEF OnePlace, PastJoin
    <3>. QED  BY <1>1, <2>2, <2>3, <3>1, <3>2 DEF OnePlace, PastJoin
  <2>. QED  BY <1>2, <2>2, <2>4, <2>5 DEF OnceThrough
<1>5. CASE ~StartTask(k)
  <2>1. PICK t \in MessageType : Receive(t, k)
    BY <1>5 DEF ReceiveOne, DropExec, AnswerPending, AnswerNextNonce, ForgetRelayed, MessageType
  <2>2. task' = task
    BY <1>5 DEF ReceiveOne, DropExec, AnswerPending, AnswerNextNonce, ForgetRelayed
  <2>3. /\ ExecOnce'
        /\ \A j \in Job : /\ Queued("Exec", j)' => Queued("Exec", j)
                          /\ Queued("Relayed", j)' => Queued("Relayed", j)
    BY <1>3, <2>1, ReceivedIsGone DEF MessageType
  <2>4. \A j \in Job : OnePlace(j)'
    BY <1>1, <1>2, <1>3, <2>2, <2>3, StaysInPlace DEF Stays
  <2>. QED  BY <1>2, <2>3, <2>4 DEF OnceThrough
<1>. QED  BY <1>4, <1>5

LEMMA JoinOnce ==
  ASSUME TypeOK, OnceThrough, NEW k \in Job, JoinOne(k)
  PROVE  OnceThrough'
<1>1. /\ UNCHANGED <<call, execRx, relayRx, relay>>
      /\ sending = NoJob /\ task[k] \in {"ok", "err", "lost"}
      /\ task' = [task EXCEPT ![k] = "joined"]
  BY DEF JoinOne, JoinToSend, JoinToWait, JoinFailed, JoinLost, Join, Selecting, callVars, relayVars
<1>2. /\ RelayOnce' /\ ExecOnce'
      /\ \A j \in Job : /\ InRelayRx(j)' <=> InRelayRx(j)
                        /\ Queued("Exec", j)' <=> Queued("Exec", j)
                        /\ Queued("Relayed", j)' <=> Queued("Relayed", j)
  BY <1>1 DEF OnceThrough, RelayOnce, ExecOnce, InRelayRx, Queued
<1>3. /\ \A j \in Job : OnePlace(j)
      /\ \A j \in Job : j # k => task'[j] = task[j]
      /\ task'[k] = "joined" /\ task[k] # "none" /\ NoJob \notin Job
  BY <1>1, JobAssumption DEF OnceThrough, TypeOK
<1>4. ~PastJoin(k) /\ call[k] = "sent" /\ ~Queued("Exec", k) /\ ~Queued("Relayed", k)
  BY <1>1, <1>3 DEF OnePlace, PastJoin
<1>5. \A j \in Job : j # k =>
         /\ j \in completedTasks' => j \in completedTasks
         /\ sending' # j
  BY <1>1, <1>3 DEF JoinOne, JoinToSend, JoinToWait, JoinFailed, JoinLost, actorVars
<1>6. ~(k \in completedTasks' /\ sending' = k)
  BY <1>1, <1>3, <1>4 DEF JoinOne, JoinToSend, JoinToWait, JoinFailed, JoinLost, actorVars, PastJoin
<1>7. ASSUME NEW j \in Job, j # k PROVE OnePlace(j)'
  <2>1. PastJoin(j)' => PastJoin(j)
    BY <1>1, <1>2, <1>5, <1>7 DEF PastJoin
  <2>2. task'[j] = task[j] /\ OnePlace(j)
    BY <1>3, <1>7
  <2>. QED  BY <1>1, <1>2, <1>5, <1>7, <2>1, <2>2 DEF OnePlace
<1>8. OnePlace(k)'
  BY <1>1, <1>2, <1>3, <1>4, <1>6 DEF OnePlace, PastJoin
<1>. QED  BY <1>2, <1>7, <1>8 DEF OnceThrough

LEMMA HandOverOnce ==
  ASSUME TypeOK, OnceThrough, SendOne
  PROVE  OnceThrough'
<1>1. SendToRelay /\ UNCHANGED <<call, execRx, task, relay>>
  BY DEF SendOne, SendUnordered, SendOrdered, callVars, relayVars
<1>2. /\ \A j \in Job : OnePlace(j)
      /\ sending \in Job /\ NoJob \notin Job
  BY <1>1, HandedIsQueued, JobAssumption DEF OnceThrough
<1>3. /\ ~InRelayRx(sending) /\ relay[sending] = "none" /\ sending \notin completedTasks
      /\ task[sending] = "joined"
  BY <1>2 DEF OnePlace, PastJoin
<1>4. /\ \A j \in Job : InRelayRx(j)' <=> InRelayRx(j) \/ j = sending
      /\ RelayOnce'
  BY <1>1, <1>3, HandedIsQueued DEF OnceThrough
<1>5. /\ ExecOnce'
      /\ \A j \in Job : /\ Queued("Exec", j)' <=> Queued("Exec", j)
                        /\ Queued("Relayed", j)' <=> Queued("Relayed", j)
  BY <1>1 DEF OnceThrough, ExecOnce, Queued
<1>6. /\ completedTasks' \subseteq completedTasks
      /\ sending' = NoJob \/ (sending' \in completedTasks /\ sending' \notin completedTasks')
  BY DEF SendOne, SendUnordered, SendOrdered, Following
<1>7. ASSUME NEW j \in Job PROVE OnePlace(j)'
  <2>1. CASE j = sending
    <3>1. j \notin completedTasks' /\ sending' # j
      BY <1>2, <1>3, <1>6, <2>1
    <3>. QED  BY <1>1, <1>2, <1>3, <1>5, <2>1, <3>1 DEF OnePlace, PastJoin
  <2>2. CASE j # sending /\ sending' = j
    <3>1. j \in completedTasks /\ j \notin completedTasks'
      BY <1>2, <1>6, <2>2
    <3>. QED  BY <1>1, <1>2, <1>4, <1>5, <2>2, <3>1 DEF OnePlace, PastJoin
  <2>3. CASE j # sending /\ sending' # j
    <3>1. PastJoin(j)' => PastJoin(j)
      BY <1>1, <1>4, <1>6, <2>3 DEF PastJoin
    <3>. QED  BY <1>1, <1>2, <1>4, <1>5, <1>6, <2>3, <3>1 DEF OnePlace
  <2>. QED  BY <2>1, <2>2, <2>3
<1>. QED  BY <1>4, <1>5, <1>7 DEF OnceThrough

LEMMA TakeOnce ==
  ASSUME TypeOK, OnceThrough, TakeRelay
  PROVE  OnceThrough'
<1>0. PICK h \in Job : h = Head(relayRx)
  BY TakenIsGone DEF OnceThrough
<1>1. /\ UNCHANGED <<call, execRx, task, completedTasks, sending>>
      /\ relay' = [relay EXCEPT ![h] = "attempting"]
  BY <1>0 DEF TakeRelay, callVars, actorVars
<1>2. /\ InRelayRx(h) /\ RelayOnce'
      /\ \A j \in Job : InRelayRx(j)' <=> InRelayRx(j) /\ j # h
  BY <1>0, TakenIsGone DEF OnceThrough
<1>3. /\ ExecOnce'
      /\ \A j \in Job : /\ Queued("Exec", j)' <=> Queued("Exec", j)
                        /\ Queued("Relayed", j)' <=> Queued("Relayed", j)
  BY <1>1 DEF OnceThrough, ExecOnce, Queued
<1>4. /\ \A j \in Job : OnePlace(j)
      /\ \A j \in Job : j # h => relay'[j] = relay[j]
      /\ relay'[h] = "attempting"
  BY <1>1, <1>2 DEF OnceThrough, TypeOK
<1>5. ASSUME NEW j \in Job, j # h PROVE OnePlace(j)'
  BY <1>1, <1>2, <1>3, <1>4, <1>5, StaysInPlace DEF Stays
<1>6. OnePlace(h)'
  BY <1>1, <1>2, <1>3, <1>4 DEF OnePlace, PastJoin
<1>. QED  BY <1>2, <1>3, <1>5, <1>6 DEF OnceThrough

LEMMA RelayOneOnce ==
  ASSUME TypeOK, OnceThrough, NEW k \in Job, RelayOne(k)
  PROVE  OnceThrough'
<1>1. UNCHANGED <<call, task, completedTasks, sending, relayRx>>
  BY DEF RelayOne, RelayLands, RelayGivesUp, ReportRelayed, callVars, actorVars
<1>2. RelayOnce' /\ \A j \in Job : InRelayRx(j)' <=> InRelayRx(j)
  BY <1>1 DEF OnceThrough, RelayOnce, InRelayRx
<1>3. /\ relay[k] \in {"attempting", "landed"} /\ relay'[k] # "none"
      /\ \A j \in Job : j # k => relay'[j] = relay[j]
      /\ \A j \in Job : OnePlace(j)
  BY DEF RelayOne, RelayLands, RelayGivesUp, ReportRelayed, OnceThrough, TypeOK
<1>4. ~Queued("Relayed", k)
  BY <1>3 DEF OnePlace
<1>5. /\ ExecOnce'
      /\ \A j \in Job : /\ Queued("Exec", j)' <=> Queued("Exec", j)
                        /\ j # k => (Queued("Relayed", j)' <=> Queued("Relayed", j))
      /\ Queued("Relayed", k)' => relay'[k] = "reported"
  <2>1. CASE UNCHANGED execRx
    BY <1>4, <2>1 DEF OnceThrough, ExecOnce, Queued
  <2>2. CASE SendToExec("Relayed", k) /\ relay'[k] = "reported"
    BY <2>2, SentIsQueued DEF OnceThrough, MessageType
  <2>. QED  BY <2>1, <2>2 DEF RelayOne, RelayLands, RelayGivesUp, ReportRelayed, TypeOK
<1>6. ASSUME NEW j \in Job, j # k PROVE OnePlace(j)'
  BY <1>1, <1>2, <1>3, <1>5, <1>6, StaysInPlace DEF Stays
<1>7. OnePlace(k)'
  BY <1>1, <1>2, <1>3, <1>5 DEF OnePlace, PastJoin
<1>. QED  BY <1>2, <1>5, <1>6, <1>7 DEF OnceThrough

LEMMA PoolOnce ==
  ASSUME TypeOK, OnceThrough, NEW k \in Job, PoolWorker(k)
  PROVE  OnceThrough'
<1>1. UNCHANGED <<call, execRx, completedTasks, sending, relayRx, relay>>
  BY DEF PoolWorker, Execute, callVars, actorVars, relayVars
<1>2. /\ RelayOnce' /\ ExecOnce'
      /\ \A j \in Job : /\ InRelayRx(j)' <=> InRelayRx(j)
                        /\ Queued("Exec", j)' <=> Queued("Exec", j)
                        /\ Queued("Relayed", j)' <=> Queued("Relayed", j)
  BY <1>1 DEF OnceThrough, RelayOnce, ExecOnce, InRelayRx, Queued
<1>3. /\ task[k] = "executing" /\ task'[k] # "none"
      /\ \A j \in Job : j # k => task'[j] = task[j]
      /\ \A j \in Job : OnePlace(j)
  BY DEF PoolWorker, Execute, Outcomes, OnceThrough, TypeOK
<1>4. ASSUME NEW j \in Job, j # k PROVE OnePlace(j)'
  BY <1>1, <1>2, <1>3, <1>4, StaysInPlace DEF Stays
<1>5. OnePlace(k)'
  BY <1>1, <1>2, <1>3 DEF OnePlace, PastJoin
<1>. QED  BY <1>2, <1>4, <1>5 DEF OnceThrough

LEMMA StutterOnce == OnceThrough /\ UNCHANGED vars => OnceThrough'
  BY DEF OnceThrough, OnePlace, ExecOnce, RelayOnce, PastJoin, InRelayRx, Queued,
         vars, callVars, actorVars, relayVars

LEMMA NextOnce == TypeOK /\ OnceThrough /\ [Next]_vars => OnceThrough'
  BY SubmissionOnce, ReceiveOnce, JoinOnce, HandOverOnce, TakeOnce, RelayOneOnce, PoolOnce,
     StutterOnce
     DEF Next, Rest

LEMMA InitOnce == Init => OnceThrough
  BY JobAssumption
     DEF Init, ActorsInit, RelayActorInit, OnceThrough, OnePlace, ExecOnce, RelayOnce, PastJoin,
         InRelayRx, Queued

\* Every job goes through the pipeline once: it is in one place at a time, in a
\* channel at most once, and reported after it left the relay actor's hands
\* (execute.rs:105-176, relayer.rs:280-339).
THEOREM AlwaysOnceThrough == Spec => []OnceThrough
  BY InitOnce, NextOnce, TypeCorrect, PTL DEF Spec

LEMMA StepPending ==
  ASSUME TypeOK, OnceThrough, PendingCoversPipeline, [Next]_vars
  PROVE  PendingCoversPipeline'
<1>1. SUFFICES ASSUME NEW j \in Job, Sole(j), InPipeline(j)'
               PROVE  Nonce[j] \in pendingJobs'
  BY DEF PendingCoversPipeline, Sole
<1>2. OnePlace(j) /\ NoJob \notin Job
  BY JobAssumption DEF OnceThrough
<1>3. (InPipeline(j) => Nonce[j] \in pendingJobs)
      /\ (InPipeline(j) <=> \/ task[j] \in {"executing", "ok"} \/ j \in completedTasks \/ sending = j
                           \/ InRelayRx(j) \/ relay[j] \in {"attempting", "landed"})
  BY <1>1 DEF PendingCoversPipeline, InPipeline, InRelayRx
<1>4. InPipeline(j)' <=> \/ task'[j] \in {"executing", "ok"} \/ j \in completedTasks' \/ sending' = j
                         \/ InRelayRx(j)' \/ relay'[j] \in {"attempting", "landed"}
  BY DEF InPipeline, InRelayRx
<1>5. CASE \E k \in Job : StartTask(k)
  <2>1. PICK k \in Job : StartTask(k)  BY <1>5
  <2>2. k = j => Nonce[j] \in pendingJobs'
    BY <2>1 DEF StartTask
  <2>3. k # j => InPipeline(j)
    BY <1>1, <2>1 DEF StartTask, InPipeline, relayVars, TypeOK
  <2>4. pendingJobs \subseteq pendingJobs'
    BY <2>1 DEF StartTask
  <2>. QED  BY <1>3, <2>2, <2>3, <2>4
<1>6. CASE \E k \in Job : ForgetRelayed(k)
  <2>1. PICK k \in Job : ForgetRelayed(k)  BY <1>6
  <2>2. InPipeline(j)
    BY <1>1, <2>1 DEF ForgetRelayed, InPipeline, relayVars
  <2>3. pendingJobs' = pendingJobs \ {Nonce[k]}
    BY <2>1 DEF ForgetRelayed
  <2>4. CASE k = j
    <3>1. Queued("Relayed", j)
      BY <2>1, <2>4, ReceivedIsGone DEF ForgetRelayed, MessageType, OnceThrough
    <3>2. relay[j] = "reported" /\ task[j] = "joined"
      BY <1>2, <3>1 DEF OnePlace, PastJoin
    <3>. QED  BY <1>2, <1>3, <2>2, <3>2 DEF OnePlace
  <2>5. CASE k # j
    BY <1>1, <1>3, <2>2, <2>3, <2>5 DEF Sole
  <2>. QED  BY <2>4, <2>5
<1>7. CASE \E k \in Job : JoinFailed(k)
  <2>1. PICK k \in Job : JoinFailed(k)  BY <1>7
  <2>2. /\ UNCHANGED <<completedTasks, sending, relayRx, relay>>
        /\ task[k] = "err" /\ task' = [task EXCEPT ![k] = "joined"]
        /\ pendingJobs' = pendingJobs \ {Nonce[k]}
    BY <2>1 DEF JoinFailed, Join, relayVars
  <2>3. InRelayRx(j)' <=> InRelayRx(j)
    BY <2>2 DEF InRelayRx
  <2>4. CASE k = j
    <3>1. ~PastJoin(j) /\ task'[j] = "joined"
      BY <1>2, <2>2, <2>4 DEF OnePlace, TypeOK
    <3>. QED  BY <1>1, <1>4, <2>2, <2>3, <3>1 DEF PastJoin
  <2>5. CASE k # j
    <3>1. InPipeline(j)
      BY <1>1, <1>3, <1>4, <2>2, <2>3, <2>5 DEF TypeOK
    <3>. QED  BY <1>1, <1>3, <2>2, <2>5, <3>1 DEF Sole
  <2>. QED  BY <2>4, <2>5
<1>8. CASE UNCHANGED pendingJobs /\ ~\E k \in Job : StartTask(k)
  <2>1. InPipeline(j)
    <3>1. ASSUME NEW k \in Job, JoinOne(k) PROVE InPipeline(j)
      <4>1. /\ task[k] \in {"ok", "err", "lost"} /\ UNCHANGED <<relayRx, relay>>
            /\ task' = [task EXCEPT ![k] = "joined"]
            /\ k # j \/ task[j] = "ok" \/ UNCHANGED <<sending, completedTasks>>
            /\ j # k => (j \in completedTasks' => j \in completedTasks)
                        /\ (sending' = j => sending = j)
        BY <1>2, <3>1 DEF JoinOne, JoinToSend, JoinToWait, JoinFailed, JoinLost, Join, actorVars,
                          relayVars
      <4>. QED  BY <1>1, <4>1 DEF InPipeline, TypeOK
    <3>2. CASE SendOne
      <4>1. /\ UNCHANGED <<task, relay>> /\ SendToRelay
            /\ completedTasks' \subseteq completedTasks
            /\ sending' = NoJob \/ sending' \in completedTasks
        BY <3>2 DEF SendOne, SendUnordered, SendOrdered, Following, relayVars
      <4>2. InRelayRx(j)' <=> InRelayRx(j) \/ j = sending
        BY <4>1, HandedIsQueued
      <4>. QED  BY <1>1, <1>2, <1>3, <1>4, <4>1, <4>2
    <3>3. CASE TakeRelay
      <4>1. /\ UNCHANGED <<task, completedTasks, sending>>
            /\ \E h \in Job : InRelayRx(h) /\ relay' = [relay EXCEPT ![h] = "attempting"]
            /\ InRelayRx(j)' => InRelayRx(j)
        BY <3>3, TakenIsGone DEF TakeRelay, actorVars, OnceThrough
      <4>. QED  BY <1>1, <1>3, <1>4, <4>1 DEF TypeOK
    <3>4. ASSUME NEW k \in Job, RelayOne(k) \/ PoolWorker(k) \/ Submission(k) PROVE InPipeline(j)
      BY <1>1, <3>4
         DEF RelayOne, RelayLands, RelayGivesUp, ReportRelayed, PoolWorker, Execute, Submission,
             CheckPending, SkipPending, Resubmit, AskNextNonce, RejectLowNonce, SendExec,
             actorVars, relayVars, InPipeline, TypeOK
    <3>5. ASSUME NEW k \in Job, ReceiveOne(k) PROVE InPipeline(j)
      BY <1>1, <1>8, <3>5
         DEF ReceiveOne, DropExec, AnswerPending, AnswerNextNonce, ForgetRelayed,
             actorVars, relayVars, InPipeline
    <3>6. CASE UNCHANGED vars
      BY <1>1, <3>6 DEF vars, actorVars, relayVars, InPipeline
    <3>. QED  BY <3>1, <3>2, <3>3, <3>4, <3>5, <3>6 DEF Next, Rest
  <2>. QED  BY <1>3, <1>8, <2>1
<1>9. \/ UNCHANGED pendingJobs
      \/ \E k \in Job : StartTask(k) \/ ForgetRelayed(k) \/ JoinFailed(k)
  BY DEF Next, Rest, Submission, CheckPending, SkipPending, Resubmit, AskNextNonce,
         RejectLowNonce, SendExec, ReceiveOne, DropExec, AnswerPending, AnswerNextNonce,
         JoinOne, JoinToSend, JoinToWait, JoinLost, PoolWorker, Execute, RelayOne, RelayLands,
         RelayGivesUp, ReportRelayed, SendOne, SendUnordered, SendOrdered, TakeRelay, vars, actorVars
<1>. QED  BY <1>5, <1>6, <1>7, <1>8, <1>9

\* A nonce that no other job shares is reported as pending from the start of
\* its execution to the end of its relay: the actor forgets it on Relayed or
\* on a failure only (execute.rs:111, 138-141, 153; intake.rs:313-314).
THEOREM PendingIsCovered == Spec => []PendingCoversPipeline
<1>1. Init => PendingCoversPipeline
  BY JobAssumption
     DEF Init, ActorsInit, RelayActorInit, PendingCoversPipeline, InPipeline
<1>. QED  BY <1>1, StepPending, TypeCorrect, AlwaysOnceThrough, PTL DEF Spec
-----------------------------------------------------------------------------
(* Why a nonce is reported as pending. *)

\* Job j is executing or executed, and its turn did not pass.
Waits(j) ==
    /\ task[j] \in {"executing", "ok"} \/ j \in completedTasks
    /\ j \in Ordered => Nonce[j] >= nextJobToSubmit

\* Job j is in the pipeline or its report is; or it was given up.
Held(j) ==
    \/ Waits(j)
    \/ sending = j
    \/ InRelayRx(j)
    \/ relay[j] \in {"attempting", "landed", "dead"}
    \/ Queued("Relayed", j)

\* A pending nonce is that of a job that holds it, or of one that failed.
PendingIsHeld ==
    /\ \A j \in Job : task[j] \in {"err", "lost"} => j \in MayFail
    /\ \A n \in pendingJobs : \E j \in Job : Nonce[j] = n /\ (Held(j) \/ j \in MayFail)

\* A job with the nonce of job j still holds it after the step.
HeldOn(j) == \E k \in Job : Nonce[k] = Nonce[j] /\ (Held(k)' \/ k \in MayFail)

LEMMA HeldByOthers ==
  ASSUME PendingIsHeld, NEW n \in pendingJobs,
         \A j \in Job : Nonce[j] = n /\ Held(j) => HeldOn(j)
  PROVE  \E k \in Job : Nonce[k] = n /\ (Held(k)' \/ k \in MayFail)
  BY DEF PendingIsHeld, HeldOn

LEMMA ReceiveHeld ==
  ASSUME TypeOK, OnceThrough, PendingIsHeld, NEW k \in Job, ReceiveOne(k), NEW n \in pendingJobs'
  PROVE  \E j \in Job : Nonce[j] = n /\ (Held(j)' \/ j \in MayFail)
<1>1. UNCHANGED <<nextJobToSubmit, completedTasks, sending, relayRx, relay>>
  BY DEF ReceiveOne, StartTask, DropExec, AnswerPending, AnswerNextNonce, ForgetRelayed,
         actorVars, relayVars
<1>2. PICK t \in MessageType : Receive(t, k) /\ (t = "Relayed" => ForgetRelayed(k))
  BY DEF ReceiveOne, StartTask, DropExec, AnswerPending, AnswerNextNonce, ForgetRelayed, MessageType
<1>3. \A j \in Job : Queued("Relayed", j) => Queued("Relayed", j)' \/ (t = "Relayed" /\ j = k)
  BY <1>2, ReceivedIsGone DEF OnceThrough, MessageType
<1>4. \A j \in Job : InRelayRx(j) => InRelayRx(j)'
  BY <1>1 DEF InRelayRx
<1>5. CASE StartTask(k)
  <2>1. /\ pendingJobs' = pendingJobs \cup {Nonce[k]} /\ task' = [task EXCEPT ![k] = "executing"]
        /\ k \in Ordered => ~(Nonce[k] < nextJobToSubmit)
        /\ t = "Exec"
    <3>1. Receive("Exec", k)  BY <1>5 DEF StartTask
    <3>2. [type |-> "Exec", job |-> k].type = [type |-> t, job |-> k].type
      BY <1>2, <3>1 DEF Receive
    <3>. QED  BY <1>5, <3>2 DEF StartTask, TooLate
  <2>2. Held(k)'
    <3>1. Nonce[k] \in Nat /\ nextJobToSubmit \in Nat  BY JobAssumption DEF TypeOK
    <3>2. k \in Ordered => Nonce[k] >= nextJobToSubmit'
      BY <1>1, <2>1, <3>1
    <3>. QED  BY <2>1, <3>2 DEF Held, Waits, TypeOK
  <2>3. ASSUME NEW j \in Job, Held(j), j # k PROVE Held(j)'
    <3>1. task'[j] = task[j]  BY <2>1, <2>3 DEF TypeOK
    <3>. QED  BY <1>1, <1>3, <1>4, <2>3, <3>1 DEF Held, Waits
  <2>4. CASE n = Nonce[k]  BY <2>2, <2>4
  <2>5. CASE n # Nonce[k]
    BY <2>1, <2>2, <2>3, <2>5, HeldByOthers DEF HeldOn
  <2>. QED  BY <2>4, <2>5
<1>6. CASE ~StartTask(k)
  <2>1. /\ UNCHANGED task
        /\ n \in pendingJobs /\ (t = "Relayed" => n # Nonce[k])
    BY <1>2, <1>6 DEF ReceiveOne, DropExec, AnswerPending, AnswerNextNonce, ForgetRelayed, actorVars
  <2>2. ASSUME NEW j \in Job, Held(j), Nonce[j] = n PROVE Held(j)'
    BY <1>1, <1>3, <1>4, <2>1, <2>2 DEF Held, Waits
  <2>. QED  BY <2>1, <2>2, HeldByOthers DEF HeldOn
<1>. QED  BY <1>5, <1>6

LEMMA JoinHeld ==
  ASSUME TypeOK, OnceThrough, PendingIsHeld, NEW k \in Job, JoinOne(k), NEW n \in pendingJobs'
  PROVE  \E j \in Job : Nonce[j] = n /\ (Held(j)' \/ j \in MayFail)
<1>1. /\ UNCHANGED <<execRx, nextJobToSubmit, relayRx, relay>>
      /\ sending = NoJob /\ NoJob \notin Job
      /\ task' = [task EXCEPT ![k] = "joined"]
      /\ n \in pendingJobs
  BY JobAssumption
     DEF JoinOne, JoinToSend, JoinToWait, JoinFailed, JoinLost, Join, Selecting, actorVars, relayVars
<1>2. /\ \A j \in Job : Queued("Relayed", j) => Queued("Relayed", j)'
      /\ \A j \in Job : InRelayRx(j) => InRelayRx(j)'
      /\ \A j \in Job : j # k => task'[j] = task[j]
  BY <1>1 DEF Queued, InRelayRx, TypeOK
<1>3. SUFFICES ASSUME NEW j \in Job, Nonce[j] = n, Held(j) PROVE HeldOn(j)
  BY <1>1, HeldByOthers
<1>4. j # k /\ j \in completedTasks' => Held(j)'
  BY <1>1, <1>2, <1>3 DEF Held, Waits
<1>5. j # k /\ j \notin completedTasks => Held(j)'
  BY <1>1, <1>2, <1>3 DEF Held, Waits
<1>6. CASE JoinToSend(k)
  <2>1. sending' = k /\ UNCHANGED completedTasks  BY <1>6 DEF JoinToSend
  <2>2. Held(k)'  BY <2>1 DEF Held
  <2>. QED  BY <1>4, <1>5, <2>1, <2>2 DEF HeldOn
<1>7. CASE JoinToWait(k)
  <2>1. /\ completedTasks' = {i \in completedTasks : Nonce[i] # Nonce[k]} \cup {k}
        /\ task[k] = "ok" /\ k \in Ordered
    BY <1>7 DEF JoinToWait, Join
  <2>2. Nonce[j] = Nonce[k] /\ Waits(j) /\ j \in Ordered => Held(k)'
    BY <1>1, <2>1 DEF Held, Waits
  <2>3. CASE j = k
    <3>1. ~PastJoin(k) /\ ~Queued("Relayed", k)
      BY <2>1 DEF OnceThrough, OnePlace, PastJoin
    <3>2. Waits(k)
      BY <1>3, <2>3, <3>1 DEF Held, PastJoin
    <3>. QED  BY <2>1, <2>2, <2>3, <3>2 DEF HeldOn
  <2>4. CASE j # k /\ j \in completedTasks /\ Nonce[j] = Nonce[k]
    <3>1. /\ task[j] = "joined" /\ sending # j /\ ~InRelayRx(j) /\ relay[j] = "none"
          /\ ~Queued("Relayed", j)
      BY <1>3, <2>4 DEF OnceThrough, OnePlace, PastJoin
    <3>2. Waits(j)  BY <1>3, <3>1 DEF Held
    <3>3. j \in Ordered  BY <2>4 DEF TypeOK
    <3>. QED  BY <2>2, <2>4, <3>2, <3>3 DEF HeldOn
  <2>. QED  BY <1>4, <1>5, <2>1, <2>3, <2>4 DEF HeldOn
<1>8. CASE JoinFailed(k)
  <2>1. n # Nonce[k] /\ UNCHANGED completedTasks  BY <1>8 DEF JoinFailed
  <2>. QED  BY <1>3, <1>4, <1>5, <2>1 DEF HeldOn
<1>9. CASE JoinLost(k)
  <2>1. task[k] = "lost" /\ UNCHANGED completedTasks  BY <1>9 DEF JoinLost, Join, actorVars
  <2>2. k \in MayFail  BY <2>1 DEF PendingIsHeld
  <2>. QED  BY <1>3, <1>4, <1>5, <2>1, <2>2 DEF HeldOn
<1>. QED  BY <1>6, <1>7, <1>8, <1>9 DEF JoinOne

LEMMA SendHeld ==
  ASSUME TypeOK, InTurn, PendingIsHeld, SendOne, NEW n \in pendingJobs'
  PROVE  \E j \in Job : Nonce[j] = n /\ (Held(j)' \/ j \in MayFail)
<1>1. SendToRelay /\ UNCHANGED <<execRx, task, relay, pendingJobs>>
  BY DEF SendOne, SendUnordered, SendOrdered, relayVars
<1>2. PICK s \in Job : s = sending
  BY <1>1, HandedIsQueued
<1>3. /\ \A j \in Job : Queued("Relayed", j) => Queued("Relayed", j)'
      /\ \A j \in Job : InRelayRx(j)' <=> InRelayRx(j) \/ j = s
  BY <1>1, <1>2, HandedIsQueued DEF Queued
<1>4. Held(s)'
  BY <1>3 DEF Held
<1>5. SUFFICES ASSUME NEW j \in Job, Nonce[j] = n, Held(j), j # s PROVE HeldOn(j)
  BY <1>1, <1>2, <1>4, HeldByOthers DEF HeldOn
<1>6. CASE ~Waits(j)
  BY <1>1, <1>2, <1>3, <1>5, <1>6 DEF Held, HeldOn
<1>7. CASE Waits(j) /\ SendUnordered
  BY <1>7 DEF SendUnordered, Waits, Held, HeldOn
<1>8. CASE Waits(j) /\ SendOrdered
  <2>1. /\ nextJobToSubmit' = nextJobToSubmit + 1 /\ s \in Ordered
        /\ j \in completedTasks => j \in completedTasks' \/ sending' = j
    BY <1>2, <1>8 DEF SendOrdered
  <2>2. Nonce[s] = nextJobToSubmit
    BY <1>2, <2>1 DEF InTurn, SendsNext
  <2>3. Nonce[j] \in Nat /\ nextJobToSubmit \in Nat
    BY JobAssumption DEF TypeOK
  <2>4. CASE j \in Ordered /\ Nonce[j] = nextJobToSubmit
    BY <1>4, <2>2, <2>4 DEF HeldOn
  <2>5. CASE ~(j \in Ordered /\ Nonce[j] = nextJobToSubmit)
    <3>1. j \in Ordered => Nonce[j] >= nextJobToSubmit'
      BY <1>8, <2>1, <2>3, <2>5 DEF Waits
    <3>2. Held(j)'
      BY <1>1, <1>8, <2>1, <3>1 DEF Waits, Held
    <3>. QED  BY <3>2 DEF HeldOn
  <2>. QED  BY <2>4, <2>5
<1>. QED  BY <1>6, <1>7, <1>8 DEF SendOne

LEMMA RelayHeld ==
  ASSUME TypeOK, OnceThrough, PendingIsHeld, TakeRelay \/ \E k \in Job : RelayOne(k),
         NEW n \in pendingJobs'
  PROVE  \E j \in Job : Nonce[j] = n /\ (Held(j)' \/ j \in MayFail)
<1>1. UNCHANGED <<nextJobToSubmit, completedTasks, sending, task>> /\ n \in pendingJobs
  BY DEF TakeRelay, RelayOne, RelayLands, RelayGivesUp, ReportRelayed, actorVars
<1>2. SUFFICES ASSUME NEW j \in Job, Held(j), ~Waits(j), sending # j PROVE Held(j)'
  BY <1>1, HeldByOthers DEF HeldOn, Held, Waits
<1>3. CASE TakeRelay
  <2>1. /\ execRx' = execRx /\ relay' = [relay EXCEPT ![Head(relayRx)] = "attempting"]
        /\ InRelayRx(j) => InRelayRx(j)' \/ j = Head(relayRx)
    BY <1>3, TakenIsGone DEF TakeRelay, OnceThrough
  <2>. QED  BY <1>2, <2>1 DEF Held, Queued, TypeOK
<1>4. CASE \E k \in Job : RelayOne(k)
  <2>1. PICK k \in Job : RelayOne(k)  BY <1>4
  <2>2. InRelayRx(j) => InRelayRx(j)'
    BY <2>1 DEF RelayOne, RelayLands, RelayGivesUp, ReportRelayed, InRelayRx
  <2>3. /\ Queued("Relayed", j) => Queued("Relayed", j)'
        /\ ReportRelayed(k) => Queued("Relayed", k)'
    <3>1. UNCHANGED execRx \/ SendToExec("Relayed", k)
      BY <2>1 DEF RelayOne, RelayLands, RelayGivesUp, ReportRelayed
    <3>2. SendToExec("Relayed", k) =>
             \A i \in Job : Queued("Relayed", i)' <=> Queued("Relayed", i) \/ i = k
      BY SentIsQueued DEF MessageType
    <3>3. UNCHANGED execRx => (Queued("Relayed", j) => Queued("Relayed", j)')
      BY DEF Queued
    <3>. QED  BY <3>1, <3>2, <3>3 DEF ReportRelayed
  <2>4. relay[j] \in {"attempting", "landed", "dead"} =>
           relay'[j] \in {"attempting", "landed", "dead"} \/ (j = k /\ ReportRelayed(k))
    BY <2>1 DEF RelayOne, RelayLands, RelayGivesUp, ReportRelayed, TypeOK
  <2>. QED  BY <1>2, <2>2, <2>3, <2>4 DEF Held
<1>. QED  BY <1>3, <1>4

LEMMA StepHeld ==
  ASSUME TypeOK, InTurn, OnceThrough, PendingIsHeld, [Next]_vars
  PROVE  PendingIsHeld'
<1>1. ASSUME NEW j \in Job, task'[j] \in {"err", "lost"}
      PROVE  j \in MayFail
  <2>1. CASE task'[j] = task[j]
    BY <1>1, <2>1 DEF PendingIsHeld
  <2>2. CASE \E k \in Job, r \in {"ok", "err", "lost"} : Execute(k, r)
    <3>1. PICK k \in Job, r \in {"ok", "err", "lost"} : Execute(k, r)  BY <2>2
    <3>2. task' = [task EXCEPT ![k] = r] /\ r \in Outcomes(k)  BY <3>1 DEF Execute
    <3>3. task'[j] = task[j] \/ j \in MayFail
      BY <1>1, <3>2 DEF Outcomes, TypeOK
    <3>. QED  BY <2>1, <3>3
  <2>3. CASE \E k \in Job : task' = [task EXCEPT ![k] = "executing"]
                           \/ task' = [task EXCEPT ![k] = "joined"]
    BY <1>1, <2>1, <2>3 DEF TypeOK
  <2>4. \/ UNCHANGED task
        \/ \E k \in Job, r \in {"ok", "err", "lost"} : Execute(k, r)
        \/ \E k \in Job : task' = [task EXCEPT ![k] = "executing"]
                           \/ task' = [task EXCEPT ![k] = "joined"]
    BY DEF Next, Rest, Submission, CheckPending, SkipPending, Resubmit, AskNextNonce,
           RejectLowNonce, SendExec, ReceiveOne, StartTask, DropExec, AnswerPending, AnswerNextNonce,
           ForgetRelayed, JoinOne, JoinToSend, JoinToWait, JoinFailed, JoinLost, Join, PoolWorker,
           RelayOne, RelayLands, RelayGivesUp, ReportRelayed, SendOne, SendUnordered,
           SendOrdered, TakeRelay, vars
  <2>. QED  BY <2>1, <2>2, <2>3, <2>4
<1>2. ASSUME NEW k \in Job, Submission(k), NEW n \in pendingJobs'
      PROVE  \E j \in Job : Nonce[j] = n /\ (Held(j)' \/ j \in MayFail)
  <2>1. UNCHANGED <<nextJobToSubmit, pendingJobs, completedTasks, sending, task, relayRx, relay>>
    BY <1>2 DEF Submission, CheckPending, SkipPending, Resubmit, AskNextNonce, RejectLowNonce,
                SendExec, actorVars, relayVars
  <2>2. UNCHANGED execRx \/ \E t \in MessageType : SendToExec(t, k)
    BY <1>2 DEF Submission, CheckPending, SkipPending, Resubmit, AskNextNonce, RejectLowNonce,
                SendExec, MessageType
  <2>3. \A j \in Job : Queued("Relayed", j) => Queued("Relayed", j)'
    <3>1. CASE UNCHANGED execRx  BY <3>1 DEF Queued
    <3>2. ASSUME NEW t \in MessageType, SendToExec(t, k)
          PROVE  \A j \in Job : Queued("Relayed", j) => Queued("Relayed", j)'
      BY <3>2, SentIsQueued DEF MessageType
    <3>. QED  BY <2>2, <3>1, <3>2
  <2>4. \A j \in Job : Held(j) => Held(j)'
    BY <2>1, <2>3 DEF Held, Waits, InRelayRx
  <2>. QED  BY <2>1, <2>4, HeldByOthers DEF HeldOn
<1>3. ASSUME NEW k \in Job, PoolWorker(k), NEW n \in pendingJobs'
      PROVE  \E j \in Job : Nonce[j] = n /\ (Held(j)' \/ j \in MayFail)
  <2>1. PICK r \in {"ok", "err", "lost"} : Execute(k, r)  BY <1>3 DEF PoolWorker
  <2>2. /\ UNCHANGED <<execRx, nextJobToSubmit, pendingJobs, completedTasks, sending, relayRx, relay>>
        /\ task' = [task EXCEPT ![k] = r]
        /\ r = "ok" \/ k \in MayFail
    BY <2>1 DEF Execute, Outcomes, actorVars, relayVars
  <2>3. ASSUME NEW j \in Job, Held(j) PROVE Held(j)' \/ j \in MayFail
    <3>1. task'[j] = task[j] \/ task'[j] = "ok" \/ j \in MayFail
      BY <2>2 DEF TypeOK
    <3>. QED  BY <2>2, <2>3, <3>1 DEF Held, Waits, InRelayRx, Queued
  <2>. QED  BY <2>2, <2>3, HeldByOthers DEF HeldOn
<1>4. ASSUME UNCHANGED vars, NEW n \in pendingJobs'
      PROVE  \E j \in Job : Nonce[j] = n /\ (Held(j)' \/ j \in MayFail)
  <2>1. UNCHANGED <<execRx, nextJobToSubmit, pendingJobs, completedTasks, sending, task, relayRx, relay>>
    BY <1>4 DEF vars, actorVars, relayVars
  <2>2. \A j \in Job : Held(j) => Held(j)'
    BY <2>1 DEF Held, Waits, InRelayRx, Queued
  <2>. QED  BY <2>1, <2>2, HeldByOthers DEF HeldOn
<1>5. \A n \in pendingJobs' : \E j \in Job : Nonce[j] = n /\ (Held(j)' \/ j \in MayFail)
  <2>. TAKE n \in pendingJobs'
  <2>1. ASSUME NEW k \in Job, ReceiveOne(k)
        PROVE  \E j \in Job : Nonce[j] = n /\ (Held(j)' \/ j \in MayFail)
    BY <2>1, ReceiveHeld
  <2>2. ASSUME NEW k \in Job, JoinOne(k)
        PROVE  \E j \in Job : Nonce[j] = n /\ (Held(j)' \/ j \in MayFail)
    BY <2>2, JoinHeld
  <2>3. CASE SendOne  BY <2>3, SendHeld
  <2>4. CASE TakeRelay \/ \E k \in Job : RelayOne(k)  BY <2>4, RelayHeld
  <2>. QED  BY <1>2, <1>3, <1>4, <2>1, <2>2, <2>3, <2>4 DEF Next, Rest
<1>. QED  BY <1>1, <1>5 DEF PendingIsHeld

\* A nonce that get_pending_nonces reports has a job to account for it: one
\* that is on its way through the actors, one that the relay actor gave up, or
\* one whose execution may fail (execute.rs:111, 138-141, 153; intake.rs:313-314).
THEOREM PendingIsAccounted == Spec => []PendingIsHeld
<1>1. Init => PendingIsHeld
  BY DEF Init, ActorsInit, PendingIsHeld
<1>. QED
  BY <1>1, StepHeld, TypeCorrect, AlwaysInTurn, AlwaysOnceThrough, PTL DEF Spec

-----------------------------------------------------------------------------
(* Each nonce is handed over once. *)

\* The execution actor passed job j on to the relay actor.
Handed(j) == InRelayRx(j) \/ relay[j] # "none"

HandedOnce ==
    /\ \A j \in Ordered : Handed(j) => Nonce[j] < nextJobToSubmit
    /\ \A j, k \in Ordered : Nonce[j] = Nonce[k] /\ Handed(j) /\ Handed(k) => j = k

LEMMA StepHandedOnce ==
  ASSUME TypeOK, InTurn, OnceThrough, HandedOnce, [Next]_vars
  PROVE  HandedOnce'
<1>1. /\ nextJobToSubmit \in Nat /\ nextJobToSubmit' \in Nat /\ nextJobToSubmit <= nextJobToSubmit'
      /\ \A j \in Ordered : j \in Job /\ Nonce[j] \in Nat
  BY NextNonceGrows, JobAssumption DEF TypeOK
<1>2. ASSUME \A j \in Ordered : Handed(j)' => Handed(j)
      PROVE  HandedOnce'
  BY <1>1, <1>2 DEF HandedOnce
<1>3. CASE UNCHANGED <<relayRx, relay>>
  BY <1>2, <1>3 DEF Handed, InRelayRx
<1>4. CASE SendUnordered
  <2>1. \A j \in Ordered : Handed(j)' => Handed(j)
    BY <1>1, <1>4, HandedIsQueued DEF SendUnordered, relayVars, Handed
  <2>. QED  BY <1>2, <2>1
<1>5. CASE SendOrdered
  <2>1. PICK s \in Ordered : s = sending /\ Nonce[s] = nextJobToSubmit
    BY <1>5 DEF SendOrdered, InTurn, SendsNext
  <2>2. nextJobToSubmit' = nextJobToSubmit + 1  BY <1>5 DEF SendOrdered
  <2>3. \A j \in Ordered : Handed(j)' => Handed(j) \/ j = s
    BY <1>1, <1>5, <2>1, HandedIsQueued DEF SendOrdered, relayVars, Handed
  <2>. QED  BY <1>1, <2>1, <2>2, <2>3 DEF HandedOnce
<1>6. CASE TakeRelay
  <2>1. \A j \in Ordered : Handed(j)' => Handed(j)
    BY <1>1, <1>6, TakenIsGone DEF TakeRelay, Handed, OnceThrough, TypeOK
  <2>. QED  BY <1>2, <2>1
<1>7. ASSUME NEW k \in Job, RelayOne(k)
      PROVE  HandedOnce'
  <2>1. /\ UNCHANGED relayRx /\ relay[k] # "none"
        /\ \A j \in Job : j # k => relay'[j] = relay[j]
    BY <1>7 DEF RelayOne, RelayLands, RelayGivesUp, ReportRelayed, TypeOK
  <2>2. \A j \in Ordered : Handed(j)' => Handed(j)
    BY <1>1, <2>1 DEF Handed, InRelayRx
  <2>. QED  BY <1>2, <2>2
<1>. QED
  BY <1>3, <1>4, <1>5, <1>6, <1>7
     DEF Next, Rest, Submission, CheckPending, SkipPending, Resubmit, AskNextNonce, RejectLowNonce,
         SendExec, ReceiveOne, StartTask, DropExec, AnswerPending, AnswerNextNonce, ForgetRelayed,
         JoinOne, JoinToSend, JoinToWait, JoinFailed, JoinLost, PoolWorker, Execute, SendOne,
         vars, relayVars

\* However often an Ordered nonce is submitted, one job with it is handed to the
\* relay actor (execute.rs:155-171).
THEOREM NoncesAreHandedOnce == Spec => []HandedOnce
<1>1. Init => HandedOnce
  BY JobAssumption DEF Init, ActorsInit, RelayActorInit, HandedOnce, Handed, InRelayRx
<1>. QED
  BY <1>1, StepHandedOnce, TypeCorrect, AlwaysInTurn, AlwaysOnceThrough, PTL DEF Spec


-----------------------------------------------------------------------------
(* CoprocessorNode: the inductive invariant. *)

IntakePhase == {"idle", "missing", "known", "asked", "writing", "routing", "spawning", "routed",
                "done", "refused"}

DlqState == [pc : {"asleep", "retry", "inflight", "saving"}, batch : SUBSET DlqRow,
             current : DlqRow \cup {NoRow}, delete : SUBSET Job]

HasLargest(S) == \E m \in S : \A n \in S : m >= n

DatabaseTypes ==
    /\ jobTable \in [Nonces -> Row \cup {NoRow}]
    /\ failureJobs \in [Nonces -> DlqRow \cup {NoRow}]

TransactionTypes ==
    /\ attempts \in [Job -> 0..(MaxRetries + 2)]
    /\ inflight \subseteq Job /\ unsaved \subseteq Job /\ mempool \subseteq Job
    /\ dlq \in DlqState /\ (dlq.pc = "inflight" => dlq.current \in DlqRow)
    /\ onChain \subseteq Nonces /\ HasLargest({FirstNonce - 1} \cup onChain)
    /\ mined \subseteq Job /\ onChain \subseteq MinedNonces

IntakeTypes ==
    /\ intake \in [Job -> IntakePhase]
    /\ matched \in [Job -> BOOLEAN]
    /\ readNonce \in [Job -> Nat]
    /\ actorUp \in BOOLEAN
    /\ acked \subseteq Job

NodeTypes == TypeOK /\ IntakeTypes /\ DatabaseTypes /\ TransactionTypes

Settles(j) == j \in mempool \/ j \in mined

\* A transaction that is waited for is in the mempool until it is mined, and
\* what is reported, saved or stored as relayed was mined.
RelayedInv ==
    /\ \A j \in inflight : Settles(j)
    /\ dlq.pc = "inflight" => Settles(dlq.current.job)
    /\ \A j \in Job : relay[j] = "landed" \/ j \in unsaved => j \in mined
    /\ RelayedIsMined

\* A call past its first write, or that found a row, has a row.
StoredInv ==
    /\ \A j \in Job : intake[j] \notin {"idle", "missing", "writing"} \/ call[j] # "new" => Found(j)
    /\ AckedIsStored

Answered == {Nonce[k] : k \in acked}

\* The actor knows only of jobs that submit_job answered Ok for, or one with
\* their nonce, and so does a call that is done with an Unordered job.
AnsweredInv ==
    /\ \A j \in Job : call[j] = "asking" => j \in Ordered
    /\ \A i \in 1..Len(execRx) : execRx[i].type = "Exec" => execRx[i].job \in acked
    /\ pendingJobs \subseteq Answered
    /\ \A j \in Job : pendingReply[j] # NoReply => pendingReply[j] \subseteq Answered
    /\ \A j \in Job \ Ordered : intake[j] = "done" => Nonce[j] \in Answered

NodeInv == NodeTypes /\ RelayedInv /\ StoredInv /\ AnsweredInv

\* The writes that the node may send at the time.
JobWrites == {w \in [kind : {"job"}, row : Row, ack : Job \cup {NoJob, "dlq"}] :
                 /\ w.row.status = "Relayed" => w.row.job \in mined
                 /\ w.ack \in Job => w.row.job = w.ack}
FailureWrites == [kind : {"failure"}, row : DlqRow, ack : {NoJob, "dlq"}]
DeleteWrites  == [kind : {"delete"}, row : DlqRow, ack : {"dlq"}]
NodeWrites    == JobWrites \cup FailureWrites \cup DeleteWrites

QueueInv == writerRx \in Seq(NodeWrites)

-----------------------------------------------------------------------------
(* Types. *)

LEMMA InitTypes == NodeInit => NodeTypes
<1>. SUFFICES ASSUME NodeInit PROVE NodeTypes
  OBVIOUS
<1>1. TypeOK  BY InitType DEF NodeInit
<1>2. IntakeTypes  BY NonceAssumption DEF NodeInit, IntakeTypes, IntakePhase
<1>3. DatabaseTypes  BY DEF NodeInit, TablesInit, DatabaseTypes
<1>4. TransactionTypes
  <2>1. 0 \in 0..(MaxRetries + 2)  BY RetryAssumption
  <2>2. dlq \in DlqState /\ dlq.pc = "asleep"  BY DEF NodeInit, DlqAsleep, DlqState
  <2>3. HasLargest({FirstNonce - 1} \cup onChain)
    BY NonceAssumption DEF NodeInit, HasLargest
  <2>. QED  BY <2>1, <2>2, <2>3 DEF NodeInit, TransactionTypes, MinedNonces
<1>. QED  BY <1>1, <1>2, <1>3, <1>4 DEF NodeTypes

\* getNextNonce as the chain computes it is a nonce.
LEMMA ChainNextNonceType ==
  ASSUME NodeTypes
  PROVE  ChainNextNonce \in Nat
<1>. DEFINE S == {FirstNonce - 1} \cup onChain
<1>1. PICK m \in S : \A n \in S : m >= n
  BY DEF NodeTypes, TransactionTypes, HasLargest
<1>2. Max(S) \in S /\ \A n \in S : Max(S) >= n
  BY <1>1 DEF Max
<1>3. \A n \in S : n \in Int /\ n >= -1
  BY NonceAssumption, JobAssumption DEF NodeTypes, TransactionTypes, Nonces
<1>4. Max(S) \in Int /\ Max(S) >= -1
  <2>. HIDE DEF S
  <2>. QED  BY <1>2, <1>3
<1>. QED  BY <1>4 DEF ChainNextNonce

\* What a call of submit_job does to the actors.
LEMMA SubmitActors ==
  ASSUME TypeOK, NEW j \in Job, Submit(j), readNonce \in [Job -> Nat]
  PROVE  TypeOK'
<1>1. CASE SpawnActor(j)
  <2>1. nextJobToSubmit' \in Nat  BY <1>1 DEF SpawnActor, TypeOK
  <2>. QED  BY <1>1, <2>1 DEF SpawnActor, TypeOK, callVars, relayVars
<1>2. CASE ~SpawnActor(j)
  <2>1. Submission(j) \/ UNCHANGED vars
    BY <1>2 DEF Submit, SubmitMissing, SubmitNew, SubmitRefused, SubmitKnown, AskPending,
                AlreadyPending, NotPending, FindActor, ReadNextNonce, NextNonceUnavailable,
                AskActor, RefuseLow, HandToActor, Submission
  <2>. QED  BY <2>1, SubmissionType, StutterType
<1>. QED  BY <1>1, <1>2

txAndDb == <<dbVars, attempts, inflight, unsaved, mempool, onChain, mined, dlq>>

LEMMA DataFrame ==
  ASSUME DatabaseTypes, TransactionTypes, UNCHANGED txAndDb
  PROVE  DatabaseTypes' /\ TransactionTypes'
BY DEF DatabaseTypes, TransactionTypes, txAndDb, dbVars, HasLargest, MinedNonces, Settles

LEMMA SubmitTypes ==
  ASSUME NodeTypes, NEW j \in Job, Submit(j)
  PROVE  NodeTypes'
<1>1. TypeOK'  BY SubmitActors DEF NodeTypes, IntakeTypes
<1>2. UNCHANGED txAndDb
  BY DEF Submit, SubmitMissing, SubmitNew, SubmitRefused, SubmitKnown, AskPending, AlreadyPending,
         NotPending, FindActor, ReadNextNonce, NextNonceUnavailable, SpawnActor, AskActor,
         RefuseLow, HandToActor, txAndDb, txVars, chainVars
<1>3. /\ intake \in [Job -> IntakePhase] /\ matched \in [Job -> BOOLEAN]
      /\ readNonce \in [Job -> Nat] /\ actorUp \in BOOLEAN /\ acked \subseteq Job
  BY DEF NodeTypes, IntakeTypes
<1>4. intake' \in [Job -> IntakePhase]
  <2>1. UNCHANGED intake \/ \E phase \in IntakePhase : Goto(j, phase)
    BY DEF Submit, SubmitMissing, SubmitNew, SubmitRefused, SubmitKnown, AskPending, AlreadyPending,
           NotPending, FindActor, ReadNextNonce, NextNonceUnavailable, SpawnActor, AskActor,
           RefuseLow, HandToActor, WriteUnlessMatched, WritePending, IntakePhase, intakeVars
  <2>. QED  BY <1>3, <2>1 DEF Goto
<1>5. matched' \in [Job -> BOOLEAN]
  <2>1. UNCHANGED matched \/ SubmitKnown(j)
    BY DEF Submit, SubmitMissing, SubmitNew, SubmitRefused, AskPending, AlreadyPending, NotPending,
           FindActor, ReadNextNonce, NextNonceUnavailable, SpawnActor, AskActor, RefuseLow,
           HandToActor, intakeVars
  <2>. QED  BY <1>3, <2>1 DEF SubmitKnown, JobsMatch
<1>6. readNonce' \in [Job -> Nat]
  <2>1. UNCHANGED readNonce \/ ReadNextNonce(j)
    BY DEF Submit, SubmitMissing, SubmitNew, SubmitRefused, SubmitKnown, AskPending, AlreadyPending,
           NotPending, FindActor, NextNonceUnavailable, SpawnActor, AskActor, RefuseLow,
           HandToActor, intakeVars
  <2>. QED  BY <1>3, <2>1, ChainNextNonceType DEF ReadNextNonce
<1>7. actorUp' \in BOOLEAN /\ acked' \subseteq Job
  BY <1>3 DEF Submit, SubmitMissing, SubmitNew, SubmitRefused, SubmitKnown, AskPending,
              AlreadyPending, NotPending, FindActor, ReadNextNonce, NextNonceUnavailable,
              SpawnActor, AskActor, RefuseLow, HandToActor, histVars
<1>. QED  BY <1>1, <1>2, <1>4, <1>5, <1>6, <1>7, DataFrame DEF NodeTypes, IntakeTypes

\* The steps of the actors, the workers and the relay tasks leave the intake
\* and the tables alone.
PipelineStep ==
    \/ \E j \in Job : \/ WorkerPanics(j) \/ RelayResult(j)
                      \/ \E result \in {"ok", "err"} : Work(j, result)
    \/ ActorStep \/ StartRelay

LEMMA PipelineFrame ==
  ASSUME PipelineStep
  PROVE  UNCHANGED <<intakeVars, actorUp, dbVars, dlq, onChain, mined, acked>>
<1>1. ASSUME NEW j \in Job, RelayResult(j)
      PROVE  UNCHANGED <<intakeVars, actorUp, dbVars, dlq, onChain, mined, acked>>
  BY <1>1 DEF RelayResult, Broadcast, ReceiptArrives, AttemptFails, LastAttemptFails, Report,
              SaveRelayed, chainVars, histVars
<1>2. ASSUME NEW j \in Job, WorkerPanics(j) \/ \E result \in {"ok", "err"} : Work(j, result)
      PROVE  UNCHANGED <<intakeVars, actorUp, dbVars, dlq, onChain, mined, acked>>
  BY <1>2 DEF WorkerPanics, Work, chainVars, histVars
<1>. QED  BY <1>1, <1>2 DEF PipelineStep, ActorStep, StartRelay, chainVars, histVars

LEMMA PipelineActors ==
  ASSUME TypeOK, PipelineStep
  PROVE  TypeOK'
<1>1. ASSUME NEW j \in Job, RelayResult(j)
      PROVE  RelayOne(j) \/ UNCHANGED vars
  BY <1>1 DEF RelayResult, Broadcast, ReceiptArrives, AttemptFails, LastAttemptFails, Report,
              SaveRelayed, RelayOne
<1>2. ASSUME NEW j \in Job, WorkerPanics(j) \/ \E result \in {"ok", "err"} : Work(j, result)
      PROVE  PoolWorker(j)
  BY <1>2 DEF WorkerPanics, Work, PoolWorker
<1>3. CASE ActorStep  BY <1>3, ReceiveType, JoinType, SendType DEF ActorStep
<1>4. CASE StartRelay  BY <1>4, RelayType DEF StartRelay
<1>5. CASE \E j \in Job : RelayOne(j) \/ PoolWorker(j)  BY <1>5, RelayType
<1>6. CASE UNCHANGED vars  BY <1>6, StutterType
<1>. QED  BY <1>1, <1>2, <1>3, <1>4, <1>5, <1>6 DEF PipelineStep

LEMMA PipelineTypes ==
  ASSUME NodeTypes, PipelineStep
  PROVE  NodeTypes'
<1>1. TypeOK'  BY PipelineActors DEF NodeTypes
<1>2. IntakeTypes' /\ DatabaseTypes'
  BY PipelineFrame DEF NodeTypes, IntakeTypes, DatabaseTypes, intakeVars, dbVars
<1>3. /\ dlq' \in DlqState /\ (dlq'.pc = "inflight" => dlq'.current \in DlqRow)
      /\ onChain' \subseteq Nonces /\ HasLargest({FirstNonce - 1} \cup onChain)'
      /\ mined' \subseteq Job /\ onChain' \subseteq MinedNonces'
  BY PipelineFrame DEF NodeTypes, TransactionTypes, HasLargest, MinedNonces
<1>4. /\ attempts \in [Job -> 0..(MaxRetries + 2)]
      /\ inflight \subseteq Job /\ unsaved \subseteq Job /\ mempool \subseteq Job
  BY DEF NodeTypes, TransactionTypes
<1>5. inflight' \subseteq Job /\ unsaved' \subseteq Job /\ mempool' \subseteq Job
  <2>1. ASSUME NEW j \in Job, RelayResult(j)
        PROVE  /\ inflight' \subseteq inflight \cup {j}
               /\ unsaved' \subseteq unsaved \cup {j}
               /\ mempool' \subseteq mempool \cup {j}
    BY <2>1 DEF RelayResult, Broadcast, ReceiptArrives, AttemptFails, LastAttemptFails, Report,
                SaveRelayed, chainVars
  <2>2. ASSUME NEW j \in Job, WorkerPanics(j) \/ \E result \in {"ok", "err"} : Work(j, result)
        PROVE  UNCHANGED <<inflight, unsaved, mempool>>
    BY <2>2 DEF WorkerPanics, Work, chainVars, txVars
  <2>3. ActorStep \/ StartRelay => UNCHANGED <<inflight, unsaved, mempool>>
    BY DEF ActorStep, StartRelay, chainVars, txVars
  <2>. QED  BY <1>4, <2>1, <2>2, <2>3 DEF PipelineStep
<1>6. attempts' \in [Job -> 0..(MaxRetries + 2)]
  <2>1. ASSUME NEW j \in Job, AttemptFails(j)
        PROVE  attempts' \in [Job -> 0..(MaxRetries + 2)]
    <3>1. attempts[j] + 1 \in 0..(MaxRetries + 2)
      BY <1>4, <2>1, RetryAssumption DEF AttemptFails, AttemptsLeft
    <3>. QED  BY <1>4, <2>1, <3>1 DEF AttemptFails
  <2>2. StartRelay => attempts' \in [Job -> 0..(MaxRetries + 2)]
    <3>1. 1 \in 0..(MaxRetries + 2)  BY RetryAssumption
    <3>. QED  BY <1>4, <3>1 DEF StartRelay
  <2>3. ASSUME NEW j \in Job, RelayResult(j), ~AttemptFails(j)
        PROVE  UNCHANGED attempts
    BY <2>3 DEF RelayResult, Broadcast, ReceiptArrives, LastAttemptFails, Report, SaveRelayed
  <2>4. ASSUME NEW j \in Job, WorkerPanics(j) \/ \E result \in {"ok", "err"} : Work(j, result)
        PROVE  UNCHANGED attempts
    BY <2>4 DEF WorkerPanics, Work, txVars
  <2>5. ActorStep => UNCHANGED attempts  BY DEF ActorStep, txVars
  <2>. QED  BY <1>4, <2>1, <2>2, <2>3, <2>4, <2>5 DEF PipelineStep
<1>. QED  BY <1>1, <1>2, <1>3, <1>5, <1>6 DEF NodeTypes, TransactionTypes

\* Everything that a step of the DLQ task leaves alone.
LEMMA DlqFrame ==
  ASSUME DlqWakes \/ DlqStep
  PROVE  UNCHANGED <<vars, intakeVars, actorUp, dbVars, txVars, histVars, onChain, mined>>
BY DEF DlqWakes, DlqStep, DlqBroadcasts, DlqReceipt, DlqFails, DlqDeletes, DlqSleeps,
       DlqUnchanged, chainVars

LEMMA DlqTypes ==
  ASSUME NodeTypes, DlqWakes \/ DlqStep
  PROVE  NodeTypes'
<1>1. TypeOK'  BY DlqFrame, StutterType DEF NodeTypes
<1>2. IntakeTypes' /\ DatabaseTypes'
  BY DlqFrame DEF NodeTypes, IntakeTypes, DatabaseTypes, intakeVars, dbVars, histVars
<1>3. /\ attempts' \in [Job -> 0..(MaxRetries + 2)]
      /\ inflight' \subseteq Job /\ unsaved' \subseteq Job
      /\ onChain' \subseteq Nonces /\ HasLargest({FirstNonce - 1} \cup onChain)'
      /\ mined' \subseteq Job /\ onChain' \subseteq MinedNonces'
  BY DlqFrame DEF NodeTypes, TransactionTypes, txVars, HasLargest, MinedNonces
<1>4. /\ dlq \in DlqState /\ (dlq.pc = "inflight" => dlq.current \in DlqRow)
      /\ failureJobs \in [Nonces -> DlqRow \cup {NoRow}] /\ mempool \subseteq Job
      /\ \A row \in DlqRow : row.job \in Job
  BY DEF NodeTypes, TransactionTypes, DatabaseTypes, DlqRow
<1>5. dlq' \in DlqState /\ (dlq'.pc = "inflight" => dlq'.current \in DlqRow)
  <2>1. CASE DlqWakes
    <3>1. {failureJobs[n] : n \in Nonces} \ {NoRow} \subseteq DlqRow  BY <1>4
    <3>. QED  BY <1>4, <2>1, <3>1 DEF DlqWakes, DlqState
  <2>2. CASE DlqBroadcasts
    BY <1>4, <2>2 DEF DlqBroadcasts, DlqState
  <2>3. CASE DlqReceipt
    BY <1>4, <2>3 DEF DlqReceipt, DlqState
  <2>4. CASE DlqFails
    <3>1. PICK row \in DlqRow :
             \/ dlq' = [dlq EXCEPT !.pc = "retry", !.batch = @ \ {row},
                                   !.delete = @ \cup {row.job}]
             \/ dlq' = [dlq EXCEPT !.pc = "saving", !.batch = @ \ {row}]
      <4>1. PICK row \in IF dlq.pc = "inflight" THEN {dlq.current} ELSE dlq.batch :
               \/ dlq' = [dlq EXCEPT !.pc = "retry", !.batch = @ \ {row},
                                     !.delete = @ \cup {row.job}]
               \/ dlq' = [dlq EXCEPT !.pc = "saving", !.batch = @ \ {row}]
        BY <2>4 DEF DlqFails
      <4>2. dlq.batch \subseteq DlqRow  BY <1>4 DEF DlqState
      <4>. QED  BY <1>4, <4>1, <4>2
    <3>2. row.job \in Job  BY <1>4
    <3>3. CASE dlq' = [dlq EXCEPT !.pc = "retry", !.batch = @ \ {row},
                                  !.delete = @ \cup {row.job}]
      BY <1>4, <3>2, <3>3 DEF DlqState
    <3>4. CASE dlq' = [dlq EXCEPT !.pc = "saving", !.batch = @ \ {row}]
      BY <1>4, <3>4 DEF DlqState
    <3>. QED  BY <3>1, <3>3, <3>4
  <2>5. CASE DlqDeletes
    BY <1>4, <2>5 DEF DlqDeletes, DlqState
  <2>6. CASE DlqSleeps
    BY <1>4, <2>6 DEF DlqSleeps, DlqAsleep, DlqState
  <2>. QED  BY <2>1, <2>2, <2>3, <2>4, <2>5, <2>6 DEF DlqStep
<1>6. mempool' \subseteq Job
  <2>1. CASE DlqBroadcasts
    <3>1. PICK row \in dlq.batch : mempool' = mempool \cup {row.job}
      BY <2>1 DEF DlqBroadcasts
    <3>2. row \in DlqRow  BY <1>4, <3>1 DEF DlqState
    <3>. QED  BY <1>4, <3>1, <3>2
  <2>2. CASE ~DlqBroadcasts
    <3>1. UNCHANGED mempool
      BY <2>2 DEF DlqWakes, DlqStep, DlqReceipt, DlqFails, DlqDeletes, DlqSleeps, chainVars
    <3>. QED  BY <1>4, <3>1
  <2>. QED  BY <2>1, <2>2
<1>. QED  BY <1>1, <1>2, <1>3, <1>5, <1>6 DEF NodeTypes, TransactionTypes

\* The writer thread carries out one of the node's writes.
LEMMA RowTypes ==
  ASSUME NodeTypes, RowWritten, Head(writerRx) \in NodeWrites
  PROVE  NodeTypes'
<1>. DEFINE write == Head(writerRx)
            n == Nonce[write.row.job]
<1>1. TypeOK'  BY StutterType DEF RowWritten, NodeTypes
<1>2. /\ write.row.job \in Job /\ n \in Nonces
      /\ write.kind = "job" => write.row \in Row
      /\ write.kind \in {"failure", "delete"} => write.row \in DlqRow
      /\ write.kind \in {"job", "failure", "delete"}
  BY DEF NodeWrites, JobWrites, FailureWrites, DeleteWrites, Row, DlqRow, Nonces
<1>3. /\ jobTable' = IF write.kind = "job" THEN [jobTable EXCEPT ![n] = write.row] ELSE jobTable
      /\ failureJobs' = CASE write.kind = "failure" -> [failureJobs EXCEPT ![n] = write.row]
                          [] write.kind = "delete"  -> [failureJobs EXCEPT ![n] = NoRow]
                          [] OTHER                  -> failureJobs
      /\ intake' = IF write.ack \in Job THEN [intake EXCEPT ![write.ack] = "routing"] ELSE intake
      /\ dlq' = IF write.ack = "dlq" THEN [dlq EXCEPT !.pc = "retry"] ELSE dlq
      /\ UNCHANGED <<matched, readNonce, actorUp, attempts, inflight, unsaved, mempool, onChain,
                     mined, acked>>
  BY DEF RowWritten, txVars, chainVars, histVars
<1>. HIDE DEF write, n
<1>4. DatabaseTypes'
  BY <1>2, <1>3 DEF NodeTypes, DatabaseTypes
<1>5. IntakeTypes'
  BY <1>3 DEF NodeTypes, IntakeTypes, IntakePhase
<1>6. TransactionTypes'
  <2>1. dlq' \in DlqState /\ (dlq'.pc = "inflight" => dlq'.current \in DlqRow)
    BY <1>3 DEF NodeTypes, TransactionTypes, DlqState
  <2>. QED  BY <1>3, <2>1 DEF NodeTypes, TransactionTypes, HasLargest, MinedNonces
<1>. QED  BY <1>1, <1>4, <1>5, <1>6 DEF NodeTypes

LEMMA MineTypes ==
  ASSUME NodeTypes, Mine
  PROVE  NodeTypes'
<1>1. PICK j \in Job : /\ mempool' = mempool \ {j} /\ mined' = mined \cup {j}
                      /\ \/ onChain' = onChain \cup {Nonce[j]}
                         \/ onChain' = onChain
  BY DEF Mine, NodeTypes, TransactionTypes
<1>2. UNCHANGED <<vars, intakeVars, actorUp, dbVars, txVars, dlq, histVars>>
  BY DEF Mine
<1>3. TypeOK'  BY <1>2, StutterType DEF NodeTypes
<1>4. IntakeTypes' /\ DatabaseTypes'
  BY <1>2 DEF NodeTypes, IntakeTypes, DatabaseTypes, intakeVars, dbVars, histVars
<1>5. CASE onChain' = onChain
  <2>1. HasLargest({FirstNonce - 1} \cup onChain)'
    BY <1>5 DEF NodeTypes, TransactionTypes, HasLargest
  <2>2. onChain' \subseteq MinedNonces' /\ mined' \subseteq Job
    BY <1>1, <1>5 DEF NodeTypes, TransactionTypes, MinedNonces
  <2>3. TransactionTypes'
    BY <1>1, <1>2, <1>5, <2>1, <2>2 DEF NodeTypes, TransactionTypes, txVars
  <2>. QED  BY <1>3, <1>4, <2>3 DEF NodeTypes
<1>6. HasLargest({FirstNonce - 1} \cup onChain)' \/ onChain' = onChain
  <2>. SUFFICES ASSUME onChain' # onChain PROVE HasLargest({FirstNonce - 1} \cup onChain)'
    OBVIOUS
  <2>. DEFINE S == {FirstNonce - 1} \cup onChain
  <2>1. PICK m \in S : \A k \in S : m >= k
    BY DEF NodeTypes, TransactionTypes, HasLargest
  <2>2. m \in Int /\ Nonce[j] \in Int /\ \A k \in S : k \in Int
    BY NonceAssumption, JobAssumption DEF NodeTypes, TransactionTypes, Nonces
  <2>3. S' = S \cup {Nonce[j]}  BY <1>1
  <2>4. \E x \in S \cup {Nonce[j]} : \A k \in S \cup {Nonce[j]} : x >= k
    <3>. HIDE DEF S
    <3>1. CASE m >= Nonce[j]  BY <2>1, <2>2, <3>1
    <3>2. CASE ~(m >= Nonce[j])  BY <2>1, <2>2, <3>2
    <3>. QED  BY <3>1, <3>2
  <2>. QED  BY <2>3, <2>4 DEF HasLargest
<1>7. CASE onChain' # onChain
  <2>1. onChain' \subseteq MinedNonces'
    BY <1>1, <1>7 DEF NodeTypes, TransactionTypes, MinedNonces
  <2>. QED  BY <1>1, <1>2, <1>3, <1>4, <1>6, <1>7, <2>1
            DEF NodeTypes, TransactionTypes, Nonces, txVars
<1>. QED  BY <1>5, <1>7

LEMMA CrashTypes ==
  ASSUME NodeTypes, Crash
  PROVE  NodeTypes'
<1>1. TypeOK'
  BY JobAssumption, NonceAssumption
     DEF Crash, TypeOK, CallState, TaskState, RelayState, Message, Settlement
<1>2. IntakeTypes' /\ DatabaseTypes'
  BY NonceAssumption DEF Crash, NodeTypes, IntakeTypes, IntakePhase, DatabaseTypes, dbVars
<1>3. TransactionTypes'
  <2>1. 0 \in 0..(MaxRetries + 2)  BY RetryAssumption
  <2>2. dlq' \in DlqState /\ dlq'.pc = "asleep"  BY DEF Crash, DlqAsleep, DlqState
  <2>3. UNCHANGED <<mempool, onChain, mined>>  BY DEF Crash, chainVars
  <2>. QED  BY <2>1, <2>2, <2>3 DEF Crash, NodeTypes, TransactionTypes, HasLargest, MinedNonces
<1>. QED  BY <1>1, <1>2, <1>3 DEF NodeTypes

\* The invariant's types are at least those that the runs check.
LEMMA TypesAreTypes == NodeTypes => NodeTypeOK
  BY DEF NodeTypes, IntakeTypes, IntakePhase, DatabaseTypes, TransactionTypes, DlqState, NodeTypeOK

-----------------------------------------------------------------------------
(* What is sent to the writer. *)

LEMMA WritesGrow ==
  ASSUME mined \subseteq mined'
  PROVE  NodeWrites \subseteq NodeWrites'
BY DEF NodeWrites, JobWrites, FailureWrites, DeleteWrites

LEMMA JobWriteFacts ==
  ASSUME NEW j \in Job, NEW status \in Status, NEW ack \in {j, NoJob, "dlq"},
         status = "Relayed" => j \in mined
  PROVE  JobWrite(j, status, ack) \in NodeWrites
BY JobAssumption, RetryAssumption DEF JobWrite, NodeWrites, JobWrites, Row

LEMMA FailureWriteFacts ==
  ASSUME NEW j \in Job, NEW retries \in Nat, NEW ack \in {NoJob, "dlq"}
  PROVE  FailureWrite(j, retries, ack) \in NodeWrites
BY DEF FailureWrite, NodeWrites, FailureWrites, DlqRow

LEMMA DeleteWriteFacts ==
  ASSUME NEW j \in Job
  PROVE  DeleteWrite(j) \in NodeWrites
BY DEF DeleteWrite, NodeWrites, DeleteWrites, DlqRow

Sends == UNCHANGED writerRx \/ \E w \in NodeWrites : ToWriter(w)

LEMMA SubmitSends ==
  ASSUME NEW j \in Job, Submit(j)
  PROVE  Sends
<1>1. UNCHANGED writerRx \/ ToWriter(JobWrite(j, "Pending", j))
                         \/ ToWriter(JobWrite(j, "Failed", NoJob))
  BY DEF Submit, SubmitMissing, SubmitNew, SubmitRefused, SubmitKnown, AskPending, AlreadyPending,
         NotPending, FindActor, ReadNextNonce, NextNonceUnavailable, SpawnActor, AskActor,
         RefuseLow, HandToActor, WriteUnlessMatched, WritePending
<1>2. /\ JobWrite(j, "Pending", j) \in NodeWrites
      /\ JobWrite(j, "Failed", NoJob) \in NodeWrites
  BY JobWriteFacts DEF Status
<1>. QED  BY <1>1, <1>2 DEF Sends

LEMMA PipelineSends ==
  ASSUME RelayedInv, PipelineStep
  PROVE  Sends
<1>1. ASSUME NEW j \in Job, LastAttemptFails(j)
      PROVE  Sends
  <2>1. FailureWrite(j, 0, NoJob) \in NodeWrites  BY FailureWriteFacts
  <2>. QED  BY <1>1, <2>1 DEF LastAttemptFails, Sends
<1>2. ASSUME NEW j \in Job, SaveRelayed(j)
      PROVE  Sends
  <2>1. j \in mined  BY <1>2 DEF SaveRelayed, RelayedInv
  <2>2. JobWrite(j, "Relayed", NoJob) \in NodeWrites  BY <2>1, JobWriteFacts DEF Status
  <2>. QED  BY <1>2, <2>2 DEF SaveRelayed, Sends
<1>3. ASSUME NEW j \in Job, NEW result \in {"ok", "err"}, Work(j, result)
      PROVE  Sends
  <2>1. PICK status \in {"Done", "Failed"} : ToWriter(JobWrite(j, status, NoJob))
    BY <1>3 DEF Work
  <2>2. JobWrite(j, status, NoJob) \in NodeWrites  BY JobWriteFacts DEF Status
  <2>. QED  BY <2>1, <2>2 DEF Sends
<1>4. ASSUME NEW j \in Job,
             Broadcast(j) \/ ReceiptArrives(j) \/ AttemptFails(j) \/ Report(j) \/ WorkerPanics(j)
      PROVE  Sends
  BY <1>4 DEF Broadcast, ReceiptArrives, AttemptFails, Report, WorkerPanics, Sends
<1>5. ActorStep \/ StartRelay => Sends
  BY DEF ActorStep, StartRelay, Sends
<1>. QED  BY <1>1, <1>2, <1>3, <1>4, <1>5 DEF PipelineStep, RelayResult

LEMMA DlqSends ==
  ASSUME NodeTypes, RelayedInv, DlqWakes \/ DlqStep
  PROVE  Sends
<1>1. /\ dlq \in DlqState /\ (dlq.pc = "inflight" => dlq.current \in DlqRow)
      /\ \A row \in DlqRow : row.job \in Job /\ row.retries + 1 \in Nat
  BY DEF NodeTypes, TransactionTypes, DlqRow
<1>2. CASE DlqReceipt
  <2>1. dlq.current.job \in Job /\ dlq.current.job \in mined
    BY <1>1, <1>2 DEF DlqReceipt, Included, RelayedInv, Settles
  <2>2. JobWrite(dlq.current.job, "Relayed", "dlq") \in NodeWrites
    BY <2>1, JobWriteFacts DEF Status
  <2>. QED  BY <1>2, <2>2 DEF DlqReceipt, Sends
<1>3. CASE DlqFails
  <2>1. PICK row \in IF dlq.pc = "inflight" THEN {dlq.current} ELSE dlq.batch :
           UNCHANGED writerRx \/ ToWriter(FailureWrite(row.job, row.retries + 1, "dlq"))
    BY <1>3 DEF DlqFails
  <2>2. dlq.batch \subseteq DlqRow  BY <1>1 DEF DlqState
  <2>3. row.job \in Job /\ row.retries + 1 \in Nat  BY <1>1, <2>1, <2>2
  <2>4. FailureWrite(row.job, row.retries + 1, "dlq") \in NodeWrites
    BY <2>3, FailureWriteFacts
  <2>. QED  BY <2>1, <2>4 DEF Sends
<1>4. CASE DlqDeletes
  <2>1. PICK j \in dlq.delete : ToWriter(DeleteWrite(j))  BY <1>4 DEF DlqDeletes
  <2>2. j \in Job  BY <1>1, <2>1 DEF DlqState
  <2>. QED  BY <2>1, <2>2, DeleteWriteFacts DEF Sends
<1>5. CASE DlqWakes \/ DlqBroadcasts \/ DlqSleeps
  BY <1>5 DEF DlqWakes, DlqBroadcasts, DlqSleeps, Sends
<1>. QED  BY <1>2, <1>3, <1>4, <1>5 DEF DlqStep

-----------------------------------------------------------------------------
(* What is relayed was mined. *)

relayedVars == <<inflight, mempool, onChain, mined, dlq, relay, unsaved, jobTable>>

LEMMA RelayedFrame ==
  ASSUME RelayedInv, UNCHANGED relayedVars
  PROVE  RelayedInv'
BY DEF RelayedInv, RelayedIsMined, Relayed, Settles, relayedVars

LEMMA SubmitRelayed ==
  ASSUME RelayedInv, NEW j \in Job, Submit(j)
  PROVE  RelayedInv'
<1>1. UNCHANGED vars \/ UNCHANGED relay
  BY DEF Submit, SubmitMissing, SubmitNew, SubmitRefused, SubmitKnown, AskPending, AlreadyPending,
         NotPending, FindActor, ReadNextNonce, NextNonceUnavailable, SpawnActor, AskActor,
         RefuseLow, HandToActor, CheckPending, SkipPending, Resubmit, AskNextNonce, RejectLowNonce,
         SendExec, relayVars
<1>2. UNCHANGED <<inflight, mempool, onChain, mined, dlq, unsaved, jobTable>>
  BY DEF Submit, SubmitMissing, SubmitNew, SubmitRefused, SubmitKnown, AskPending, AlreadyPending,
         NotPending, FindActor, ReadNextNonce, NextNonceUnavailable, SpawnActor, AskActor,
         RefuseLow, HandToActor, dbVars, txVars, chainVars
<1>. QED  BY <1>1, <1>2, RelayedFrame DEF vars, relayVars, relayedVars

LEMMA PipelineRelayed ==
  ASSUME NodeTypes, RelayedInv, PipelineStep
  PROVE  RelayedInv'
<1>1. UNCHANGED <<dlq, onChain, mined, jobTable>>
  BY PipelineFrame DEF dbVars
<1>2. mempool \subseteq mempool'
  <2>1. ASSUME NEW j \in Job, RelayResult(j)
        PROVE  mempool \subseteq mempool'
    BY <2>1 DEF RelayResult, Broadcast, ReceiptArrives, AttemptFails, LastAttemptFails, Report,
                SaveRelayed, chainVars
  <2>2. ASSUME NEW j \in Job, WorkerPanics(j) \/ \E result \in {"ok", "err"} : Work(j, result)
        PROVE  mempool \subseteq mempool'
    BY <2>2 DEF WorkerPanics, Work, chainVars
  <2>. QED  BY <2>1, <2>2 DEF PipelineStep, ActorStep, StartRelay, chainVars
<1>3. RelayedIsMined' /\ (dlq'.pc = "inflight" => Settles(dlq.current.job)')
  BY <1>1, <1>2 DEF RelayedInv, RelayedIsMined, Relayed, Settles
<1>4. \A j \in Job : Settles(j) => Settles(j)'
  BY <1>1, <1>2 DEF Settles
<1>5. relay \in [Job -> RelayState] /\ inflight \subseteq Job
  BY DEF NodeTypes, TypeOK, TransactionTypes
<1>6. ASSUME NEW k \in Job, RelayResult(k)
      PROVE  /\ \A j \in inflight' : Settles(j)'
             /\ \A j \in Job : relay'[j] = "landed" \/ j \in unsaved' => j \in mined
  <2>1. CASE Broadcast(k)
    BY <1>1, <1>4, <1>5, <2>1 DEF Broadcast, RelayedInv, Settles, vars, relayVars
  <2>2. CASE ReceiptArrives(k)
    <3>1. k \in mined
      BY <2>2 DEF ReceiptArrives, Included, RelayedInv, Settles
    <3>. QED  BY <1>1, <1>4, <1>5, <2>2, <3>1 DEF ReceiptArrives, RelayLands, RelayedInv
  <2>3. CASE AttemptFails(k)
    BY <1>1, <1>4, <1>5, <2>3 DEF AttemptFails, RelayedInv, vars, relayVars
  <2>4. CASE LastAttemptFails(k)
    BY <1>1, <1>4, <1>5, <2>4 DEF LastAttemptFails, RelayGivesUp, RelayedInv
  <2>5. CASE Report(k)
    BY <1>1, <1>4, <1>5, <2>5 DEF Report, ReportRelayed, RelayedInv
  <2>6. CASE SaveRelayed(k)
    BY <1>1, <1>4, <1>5, <2>6 DEF SaveRelayed, RelayedInv, vars, relayVars
  <2>. QED  BY <1>6, <2>1, <2>2, <2>3, <2>4, <2>5, <2>6 DEF RelayResult
<1>7. ASSUME UNCHANGED <<inflight, unsaved, relay>>
      PROVE  /\ \A j \in inflight' : Settles(j)'
             /\ \A j \in Job : relay'[j] = "landed" \/ j \in unsaved' => j \in mined
  BY <1>1, <1>4, <1>5, <1>7 DEF RelayedInv
<1>8. CASE StartRelay
  <2>1. PICK h \in Job : relay' = [relay EXCEPT ![h] = "attempting"]
    BY <1>8, TailFacts DEF StartRelay, TakeRelay, NodeTypes, TypeOK
  <2>2. UNCHANGED <<inflight, unsaved>>  BY <1>8 DEF StartRelay
  <2>. QED  BY <1>1, <1>3, <1>4, <1>5, <2>1, <2>2 DEF RelayedInv
<1>9. ASSUME NEW k \in Job, WorkerPanics(k) \/ \E result \in {"ok", "err"} : Work(k, result)
      PROVE  UNCHANGED <<inflight, unsaved, relay>>
  BY <1>9 DEF WorkerPanics, Work, Execute, txVars, relayVars
<1>10. ActorStep => UNCHANGED <<inflight, unsaved, relay>>
  BY DEF ActorStep, ReceiveOne, StartTask, DropExec, AnswerPending, AnswerNextNonce,
         ForgetRelayed, JoinOne, JoinToSend, JoinToWait, JoinFailed, JoinLost, SendOne,
         SendUnordered, SendOrdered, txVars, relayVars
<1>. QED  BY <1>1, <1>3, <1>6, <1>7, <1>8, <1>9, <1>10 DEF PipelineStep, RelayedInv

LEMMA DlqRelayed ==
  ASSUME NodeTypes, RelayedInv, DlqWakes \/ DlqStep
  PROVE  RelayedInv'
<1>1. UNCHANGED <<inflight, unsaved, relay, jobTable, onChain, mined>>
  BY DlqFrame DEF vars, relayVars, dbVars, txVars
<1>2. dlq \in DlqState  BY DEF NodeTypes, TransactionTypes
<1>3. mempool \subseteq mempool' /\ (dlq'.pc = "inflight" => dlq'.current.job \in mempool')
  <2>1. CASE DlqBroadcasts
    BY <1>2, <2>1 DEF DlqBroadcasts, DlqState
  <2>2. CASE DlqFails
    <3>1. dlq'.pc # "inflight"  BY <1>2, <2>2 DEF DlqFails, DlqState
    <3>. QED  BY <2>2, <3>1 DEF DlqFails, chainVars
  <2>3. CASE DlqWakes  BY <1>2, <2>3 DEF DlqWakes, DlqState, chainVars
  <2>4. CASE DlqReceipt  BY <1>2, <2>4 DEF DlqReceipt, DlqState, chainVars
  <2>5. CASE DlqDeletes  BY <1>2, <2>5 DEF DlqDeletes, DlqState, chainVars
  <2>6. CASE DlqSleeps  BY <2>6 DEF DlqSleeps, DlqAsleep, chainVars
  <2>. QED  BY <2>1, <2>2, <2>3, <2>4, <2>5, <2>6 DEF DlqStep
<1>. QED  BY <1>1, <1>3 DEF RelayedInv, RelayedIsMined, Relayed, Settles

LEMMA RowRelayed ==
  ASSUME NodeTypes, RelayedInv, RowWritten, Head(writerRx) \in NodeWrites
  PROVE  RelayedInv'
<1>. DEFINE write == Head(writerRx)
<1>1. /\ jobTable \in [Nonces -> Row \cup {NoRow}] /\ dlq \in DlqState
      /\ write.row.status = "Relayed" /\ write.kind = "job" => write.row.job \in mined
  BY DEF NodeTypes, DatabaseTypes, TransactionTypes, NodeWrites, JobWrites, FailureWrites,
         DeleteWrites
<1>2. /\ jobTable' = IF write.kind = "job"
                     THEN [jobTable EXCEPT ![Nonce[write.row.job]] = write.row] ELSE jobTable
      /\ dlq' = IF write.ack = "dlq" THEN [dlq EXCEPT !.pc = "retry"] ELSE dlq
      /\ UNCHANGED <<inflight, unsaved, mempool, onChain, mined, relay>>
  BY DEF RowWritten, txVars, chainVars, vars, relayVars
<1>. HIDE DEF write
<1>3. RelayedIsMined'
  BY <1>1, <1>2 DEF RelayedInv, RelayedIsMined, Relayed
<1>4. dlq'.pc = "inflight" => dlq' = dlq
  BY <1>1, <1>2 DEF DlqState
<1>. QED  BY <1>2, <1>3, <1>4 DEF RelayedInv, Settles

LEMMA MineRelayed ==
  ASSUME RelayedInv, Mine
  PROVE  RelayedInv'
BY DEF Mine, RelayedInv, RelayedIsMined, Relayed, Settles, vars, relayVars, dbVars, txVars

LEMMA CrashRelayed ==
  ASSUME RelayedInv, Crash
  PROVE  RelayedInv'
BY DEF Crash, RelayedInv, RelayedIsMined, Relayed, Settles, DlqAsleep, dbVars, chainVars

-----------------------------------------------------------------------------
(* What was answered Ok is in the job table. *)

LEMMA FoundFrame ==
  ASSUME UNCHANGED jobTable
  PROVE  \A j \in Job : Found(j)' <=> Found(j)
BY DEF Found

LEMMA SubmitStored ==
  ASSUME NodeTypes, StoredInv, NEW j \in Job, Submit(j)
  PROVE  StoredInv'
<1>1. UNCHANGED jobTable
  BY DEF Submit, SubmitMissing, SubmitNew, SubmitRefused, SubmitKnown, AskPending, AlreadyPending,
         NotPending, FindActor, ReadNextNonce, NextNonceUnavailable, SpawnActor, AskActor,
         RefuseLow, HandToActor, dbVars
<1>2. intake \in [Job -> IntakePhase] /\ call \in [Job -> CallState]
  BY DEF NodeTypes, IntakeTypes, TypeOK
<1>3. UNCHANGED call \/ \E state \in CallState : call' = [call EXCEPT ![j] = state]
  BY DEF Submit, SubmitMissing, SubmitNew, SubmitRefused, SubmitKnown, AskPending, AlreadyPending,
         NotPending, FindActor, ReadNextNonce, NextNonceUnavailable, SpawnActor, AskActor,
         RefuseLow, HandToActor, CheckPending, SkipPending, Resubmit, AskNextNonce, RejectLowNonce,
         SendExec, CallState, vars, callVars
<1>4. UNCHANGED intake \/ \E phase \in IntakePhase : Goto(j, phase)
  BY DEF Submit, SubmitMissing, SubmitNew, SubmitRefused, SubmitKnown, AskPending, AlreadyPending,
         NotPending, FindActor, ReadNextNonce, NextNonceUnavailable, SpawnActor, AskActor,
         RefuseLow, HandToActor, WriteUnlessMatched, WritePending, IntakePhase, intakeVars
<1>5. CASE SubmitNew(j) \/ SubmitMissing(j)
  <2>1. UNCHANGED call /\ (Goto(j, "writing") \/ Goto(j, "missing")) /\ acked' = acked
    BY <1>5 DEF SubmitNew, SubmitMissing, WritePending, vars, callVars, histVars
  <2>. QED  BY <1>1, <1>2, <2>1 DEF Goto, StoredInv, AckedIsStored, Found
<1>6. CASE ~SubmitNew(j) /\ ~SubmitMissing(j)
  <2>1. Found(j)
    <3>1. \/ intake[j] \notin {"idle", "missing", "writing"}
          \/ call[j] # "new"
          \/ Found(j)
      BY <1>6 DEF Submit, SubmitRefused, SubmitKnown, AskPending, AlreadyPending, NotPending,
                  FindActor, ReadNextNonce, NextNonceUnavailable, SpawnActor, AskActor, RefuseLow,
                  HandToActor, SkipPending, Resubmit, RejectLowNonce
    <3>. QED  BY <3>1 DEF StoredInv
  <2>2. acked' \subseteq acked \cup {j}
    BY DEF Submit, SubmitMissing, SubmitNew, SubmitRefused, SubmitKnown, AskPending, AlreadyPending,
           NotPending, FindActor, ReadNextNonce, NextNonceUnavailable, SpawnActor, AskActor,
           RefuseLow, HandToActor, histVars
  <2>3. AckedIsStored'
    BY <1>1, <2>1, <2>2 DEF StoredInv, AckedIsStored, Found
  <2>4. \A k \in Job : k # j => intake'[k] = intake[k] /\ call'[k] = call[k]
    BY <1>2, <1>3, <1>4 DEF Goto
  <2>. QED  BY <1>1, <2>1, <2>3, <2>4, FoundFrame DEF StoredInv
<1>. QED  BY <1>5, <1>6

\* The calls are left alone by every other step of a node that stays up.
LEMMA CallFrame ==
  ASSUME PipelineStep \/ DlqWakes \/ DlqStep \/ RowWritten \/ Mine
  PROVE  UNCHANGED call
<1>1. ASSUME NEW j \in Job, RelayResult(j)
      PROVE  UNCHANGED call
  BY <1>1 DEF RelayResult, Broadcast, ReceiptArrives, AttemptFails, LastAttemptFails, Report,
              SaveRelayed, RelayLands, RelayGivesUp, ReportRelayed, vars, callVars
<1>2. ASSUME NEW j \in Job, WorkerPanics(j) \/ \E result \in {"ok", "err"} : Work(j, result)
      PROVE  UNCHANGED call
  BY <1>2 DEF WorkerPanics, Work, Execute, callVars
<1>3. ActorStep => UNCHANGED call
  BY DEF ActorStep, ReceiveOne, StartTask, DropExec, AnswerPending, AnswerNextNonce,
         ForgetRelayed, JoinOne, JoinToSend, JoinToWait, JoinFailed, JoinLost, SendOne,
         SendUnordered, SendOrdered, callVars
<1>4. StartRelay => UNCHANGED call  BY DEF StartRelay, TakeRelay, callVars
<1>5. DlqWakes \/ DlqStep => UNCHANGED call  BY DlqFrame DEF vars, callVars
<1>6. RowWritten \/ Mine => UNCHANGED call  BY DEF RowWritten, Mine, vars, callVars
<1>. QED  BY <1>1, <1>2, <1>3, <1>4, <1>5, <1>6 DEF PipelineStep

LEMMA OtherStored ==
  ASSUME StoredInv, PipelineStep \/ DlqWakes \/ DlqStep \/ Mine
  PROVE  StoredInv'
<1>1. UNCHANGED <<intake, jobTable, acked>>
  BY PipelineFrame, DlqFrame DEF Mine, intakeVars, dbVars, histVars
<1>. QED  BY <1>1, CallFrame DEF StoredInv, AckedIsStored, Found

LEMMA RowStored ==
  ASSUME NodeTypes, StoredInv, RowWritten, Head(writerRx) \in NodeWrites
  PROVE  StoredInv' /\ \A j \in Job : Found(j) => Found(j)'
<1>. DEFINE write == Head(writerRx)
<1>1. /\ write.row.job \in Job
      /\ write.kind = "job" => write.row \in Row
      /\ write.ack \in Job => write.kind = "job" /\ write.row.job = write.ack
      /\ jobTable \in [Nonces -> Row \cup {NoRow}] /\ intake \in [Job -> IntakePhase]
      /\ acked \subseteq Job
  BY JobAssumption, RetryAssumption
     DEF NodeTypes, IntakeTypes, DatabaseTypes, NodeWrites, JobWrites, FailureWrites,
         DeleteWrites, Row, DlqRow
<1>2. /\ jobTable' = IF write.kind = "job"
                     THEN [jobTable EXCEPT ![Nonce[write.row.job]] = write.row] ELSE jobTable
      /\ intake' = IF write.ack \in Job THEN [intake EXCEPT ![write.ack] = "routing"] ELSE intake
      /\ UNCHANGED <<call, acked>>
  BY CallFrame DEF RowWritten, histVars
<1>. HIDE DEF write
<1>3. \A j \in Job : Nonce[j] \in Nonces  BY DEF Nonces
<1>4. \A j \in Job : Found(j) => Found(j)'
  BY <1>1, <1>2, <1>3, RowAssumption DEF Found
<1>5. write.ack \in Job => jobTable'[Nonce[write.ack]] # NoRow
  BY <1>1, <1>2, <1>3, RowAssumption DEF Found
<1>6. \A j \in Job : intake'[j] = intake[j] \/ (write.ack \in Job /\ j = write.ack)
  BY <1>1, <1>2
<1>7. ASSUME NEW j \in Job, intake'[j] \notin {"idle", "missing", "writing"} \/ call'[j] # "new"
      PROVE  Found(j)'
  <2>1. CASE write.ack \in Job /\ j = write.ack  BY <1>5, <2>1 DEF Found
  <2>2. CASE intake'[j] = intake[j]  BY <1>2, <1>4, <1>7, <2>2 DEF StoredInv
  <2>. QED  BY <1>6, <2>1, <2>2
<1>8. AckedIsStored'
  BY <1>1, <1>2, <1>4 DEF StoredInv, AckedIsStored
<1>. QED  BY <1>4, <1>7, <1>8 DEF StoredInv

LEMMA CrashStored ==
  ASSUME StoredInv, Crash
  PROVE  StoredInv'
BY DEF Crash, StoredInv, AckedIsStored, Found, dbVars

-----------------------------------------------------------------------------
(* The actor knows only of what was answered Ok. *)

LEMMA ReceiveAnswered ==
  ASSUME NodeTypes, AnsweredInv, NEW j \in Job, ReceiveOne(j)
  PROVE  /\ \A i \in 1..Len(execRx') : execRx'[i].type = "Exec" => execRx'[i].job \in acked
         /\ pendingJobs' \subseteq Answered
         /\ \A k \in Job : pendingReply'[k] # NoReply => pendingReply'[k] \subseteq Answered
<1>1. execRx \in Seq(Message) /\ execRx # <<>> /\ execRx' = Tail(execRx)
  BY DEF ReceiveOne, StartTask, DropExec, AnswerPending, AnswerNextNonce, ForgetRelayed, Receive,
         NodeTypes, TypeOK
<1>2. /\ Len(execRx) \in Nat \ {0} /\ Head(execRx) = execRx[1]
      /\ Len(execRx') = Len(execRx) - 1
      /\ \A i \in 1..Len(execRx') : i + 1 \in 1..Len(execRx) /\ execRx'[i] = execRx[i + 1]
  BY <1>1, TailFacts
<1>3. pendingJobs' \subseteq Answered
  <2>1. CASE StartTask(j)
    <3>1. execRx[1].type = "Exec" /\ execRx[1].job = j
      BY <1>2, <2>1 DEF StartTask, Receive
    <3>2. j \in acked  BY <1>2, <3>1 DEF AnsweredInv
    <3>. QED  BY <2>1, <3>2 DEF StartTask, AnsweredInv, Answered
  <2>2. CASE ~StartTask(j)
    <3>1. pendingJobs' \subseteq pendingJobs
      BY <2>2 DEF ReceiveOne, DropExec, AnswerPending, AnswerNextNonce, ForgetRelayed, actorVars
    <3>. QED  BY <3>1 DEF AnsweredInv
  <2>. QED  BY <2>1, <2>2
<1>4. \A k \in Job : pendingReply'[k] # NoReply => pendingReply'[k] \subseteq Answered
  <2>1. pendingReply \in [Job -> (SUBSET Nat) \cup {NoReply}]  BY DEF NodeTypes, TypeOK
  <2>2. UNCHANGED pendingReply \/ pendingReply' = [pendingReply EXCEPT ![j] = pendingJobs]
    BY DEF ReceiveOne, StartTask, DropExec, AnswerPending, AnswerNextNonce, ForgetRelayed,
           callVars
  <2>. QED  BY <2>1, <2>2 DEF AnsweredInv
<1>. QED  BY <1>2, <1>3, <1>4 DEF AnsweredInv

\* A message to the actor, be it an Exec of a job that was answered Ok.
LEMMA SendAnswered ==
  ASSUME NodeTypes, AnsweredInv, NEW j \in Job,
         NEW type \in {"Pending", "NextNonce", "Exec", "Relayed"}, SendToExec(type, j),
         acked \subseteq acked', type = "Exec" => j \in acked'
  PROVE  \A i \in 1..Len(execRx') : execRx'[i].type = "Exec" => execRx'[i].job \in acked'
<1>1. execRx \in Seq(Message) /\ [type |-> type, job |-> j] \in Message
  BY DEF NodeTypes, TypeOK, Message
<1>2. /\ Len(execRx') = Len(execRx) + 1 /\ Len(execRx) \in Nat
      /\ \A i \in 1..Len(execRx) : execRx'[i] = execRx[i]
      /\ execRx'[Len(execRx) + 1] = [type |-> type, job |-> j]
  BY <1>1, AppendFacts DEF SendToExec
<1>3. ASSUME NEW i \in 1..Len(execRx'), execRx'[i].type = "Exec"
      PROVE  execRx'[i].job \in acked'
  <2>1. CASE i = Len(execRx) + 1  BY <1>2, <1>3, <2>1
  <2>2. CASE i \in 1..Len(execRx)  BY <1>2, <1>3, <2>2 DEF AnsweredInv
  <2>. QED  BY <1>2, <2>1, <2>2
<1>. QED  BY <1>3

LEMMA SubmitAnswered ==
  ASSUME NodeTypes, AnsweredInv, NEW j \in Job, Submit(j)
  PROVE  AnsweredInv'
<1>1. /\ intake \in [Job -> IntakePhase] /\ call \in [Job -> CallState]
      /\ pendingReply \in [Job -> (SUBSET Nat) \cup {NoReply}] /\ acked \subseteq Job
  BY DEF NodeTypes, IntakeTypes, TypeOK
<1>2. acked \subseteq acked' /\ Answered \subseteq Answered'
  BY DEF Submit, SubmitMissing, SubmitNew, SubmitRefused, SubmitKnown, AskPending, AlreadyPending,
         NotPending, FindActor, ReadNextNonce, NextNonceUnavailable, SpawnActor, AskActor,
         RefuseLow, HandToActor, histVars, Answered
<1>3. UNCHANGED pendingJobs
  BY DEF Submit, SubmitMissing, SubmitNew, SubmitRefused, SubmitKnown, AskPending, AlreadyPending,
         NotPending, FindActor, ReadNextNonce, NextNonceUnavailable, SpawnActor, AskActor,
         RefuseLow, HandToActor, CheckPending, SkipPending, Resubmit, AskNextNonce, RejectLowNonce,
         SendExec, vars, actorVars
<1>4. UNCHANGED pendingReply \/ pendingReply' = [pendingReply EXCEPT ![j] = NoReply]
  BY DEF Submit, SubmitMissing, SubmitNew, SubmitRefused, SubmitKnown, AskPending, AlreadyPending,
         NotPending, FindActor, ReadNextNonce, NextNonceUnavailable, SpawnActor, AskActor,
         RefuseLow, HandToActor, CheckPending, SkipPending, Resubmit, AskNextNonce, RejectLowNonce,
         SendExec, vars, callVars
<1>5. \A k \in Job : pendingReply'[k] # NoReply => pendingReply'[k] \subseteq Answered'
  BY <1>1, <1>2, <1>4 DEF AnsweredInv
<1>6. \A k \in Job : call'[k] = "asking" => k \in Ordered
  <2>1. CASE AskActor(j)
    BY <1>1, <2>1 DEF AskActor, AskNextNonce, AnsweredInv
  <2>2. CASE ~AskActor(j)
    <3>1. \/ UNCHANGED call
          \/ \E state \in CallState \ {"asking"} : call' = [call EXCEPT ![j] = state]
      BY <2>2 DEF Submit, SubmitMissing, SubmitNew, SubmitRefused, SubmitKnown, AskPending,
                  AlreadyPending, NotPending, FindActor, ReadNextNonce, NextNonceUnavailable,
                  SpawnActor, RefuseLow, HandToActor, CheckPending, SkipPending, Resubmit,
                  RejectLowNonce, SendExec, CallState, vars, callVars
    <3>. QED  BY <1>1, <3>1 DEF AnsweredInv
  <2>. QED  BY <2>1, <2>2
<1>7. \A i \in 1..Len(execRx') : execRx'[i].type = "Exec" => execRx'[i].job \in acked'
  <2>1. CASE AskPending(j)
    BY <1>2, <2>1, SendAnswered DEF AskPending, CheckPending
  <2>2. CASE AskActor(j)
    BY <1>2, <2>2, SendAnswered DEF AskActor, AskNextNonce
  <2>3. CASE HandToActor(j)
    BY <1>2, <2>3, SendAnswered DEF HandToActor, SendExec
  <2>4. CASE ~AskPending(j) /\ ~AskActor(j) /\ ~HandToActor(j)
    <3>1. UNCHANGED execRx
      BY <2>4 DEF Submit, SubmitMissing, SubmitNew, SubmitRefused, SubmitKnown, AlreadyPending,
                  NotPending, FindActor, ReadNextNonce, NextNonceUnavailable, SpawnActor, RefuseLow,
                  SkipPending, Resubmit, RejectLowNonce, vars
    <3>. QED  BY <1>2, <3>1 DEF AnsweredInv
  <2>. QED  BY <2>1, <2>2, <2>3, <2>4
<1>8. \A k \in Job \ Ordered : intake'[k] = "done" => Nonce[k] \in Answered'
  <2>1. \/ UNCHANGED intake
        \/ \E phase \in IntakePhase \ {"done"} : Goto(j, phase)
        \/ Goto(j, "done") /\ (AlreadyPending(j) \/ RefuseLow(j) \/ HandToActor(j))
    BY DEF Submit, SubmitMissing, SubmitNew, SubmitRefused, SubmitKnown, AskPending, AlreadyPending,
           NotPending, FindActor, ReadNextNonce, NextNonceUnavailable, SpawnActor, AskActor,
           RefuseLow, HandToActor, WriteUnlessMatched, WritePending, IntakePhase, intakeVars
  <2>2. AlreadyPending(j) => Nonce[j] \in Answered'
    BY <1>2 DEF AlreadyPending, SkipPending, AnsweredInv
  <2>3. RefuseLow(j) => j \in Ordered
    BY DEF RefuseLow, RejectLowNonce, AnsweredInv
  <2>4. HandToActor(j) => Nonce[j] \in Answered'
    BY DEF HandToActor, Answered
  <2>5. \A k \in Job : intake'[k] = "done" =>
           \/ intake[k] = "done"
           \/ k = j /\ (AlreadyPending(j) \/ RefuseLow(j) \/ HandToActor(j))
    BY <1>1, <2>1 DEF Goto
  <2>. QED  BY <1>2, <2>2, <2>3, <2>4, <2>5 DEF AnsweredInv
<1>. QED  BY <1>2, <1>3, <1>5, <1>6, <1>7, <1>8 DEF AnsweredInv

answeredVars == <<call, execRx, pendingJobs, pendingReply, intake, acked>>

LEMMA AnsweredFrame ==
  ASSUME AnsweredInv, UNCHANGED answeredVars
  PROVE  AnsweredInv'
BY DEF AnsweredInv, Answered, answeredVars

LEMMA PipelineAnswered ==
  ASSUME NodeTypes, AnsweredInv, PipelineStep
  PROVE  AnsweredInv'
<1>1. UNCHANGED <<call, intake, acked>> /\ Answered' = Answered
  BY PipelineFrame, CallFrame DEF intakeVars, Answered
<1>2. ASSUME NEW j \in Job, ReceiveOne(j)
      PROVE  AnsweredInv'
  BY <1>1, <1>2, ReceiveAnswered DEF AnsweredInv
<1>3. ASSUME NEW j \in Job, Report(j)
      PROVE  AnsweredInv'
  <2>1. SendToExec("Relayed", j) /\ UNCHANGED <<pendingJobs, pendingReply>>
    BY <1>3 DEF Report, ReportRelayed, actorVars, callVars
  <2>2. \A i \in 1..Len(execRx') : execRx'[i].type = "Exec" => execRx'[i].job \in acked'
    BY <1>1, <2>1, SendAnswered
  <2>. QED  BY <1>1, <2>1, <2>2 DEF AnsweredInv
<1>4. ASSUME NEW j \in Job, RelayResult(j), ~Report(j)
      PROVE  UNCHANGED <<execRx, pendingJobs, pendingReply>>
  BY <1>4 DEF RelayResult, Broadcast, ReceiptArrives, AttemptFails, LastAttemptFails,
              SaveRelayed, RelayLands, RelayGivesUp, vars, callVars, actorVars
<1>5. ASSUME NEW j \in Job, WorkerPanics(j) \/ \E result \in {"ok", "err"} : Work(j, result)
      PROVE  UNCHANGED <<execRx, pendingJobs, pendingReply>>
  BY <1>5 DEF WorkerPanics, Work, Execute, callVars, actorVars
<1>6. ASSUME (\E j \in Job : JoinOne(j)) \/ SendOne
      PROVE  UNCHANGED <<execRx, pendingReply>> /\ pendingJobs' \subseteq pendingJobs
  BY <1>6 DEF JoinOne, JoinToSend, JoinToWait, JoinFailed, JoinLost, SendOne,
              SendUnordered, SendOrdered, callVars, actorVars
<1>7. StartRelay => UNCHANGED <<execRx, pendingJobs, pendingReply>>
  BY DEF StartRelay, TakeRelay, callVars, actorVars
<1>8. UNCHANGED <<execRx, pendingReply>> /\ pendingJobs' \subseteq pendingJobs => AnsweredInv'
  BY <1>1 DEF AnsweredInv
<1>. QED  BY <1>2, <1>3, <1>4, <1>5, <1>6, <1>7, <1>8 DEF PipelineStep, ActorStep

LEMMA OtherAnswered ==
  ASSUME AnsweredInv, DlqWakes \/ DlqStep \/ Mine
  PROVE  AnsweredInv'
<1>1. UNCHANGED answeredVars
  BY DlqFrame DEF Mine, answeredVars, vars, callVars, actorVars, intakeVars, histVars
<1>. QED  BY <1>1, AnsweredFrame

LEMMA RowAnswered ==
  ASSUME NodeTypes, AnsweredInv, RowWritten
  PROVE  AnsweredInv'
<1>1. UNCHANGED <<call, execRx, pendingJobs, pendingReply, acked>>
  BY DEF RowWritten, vars, callVars, actorVars, histVars
<1>2. \A j \in Job : intake'[j] = "done" => intake[j] = "done"
  BY DEF RowWritten, NodeTypes, IntakeTypes
<1>. QED  BY <1>1, <1>2 DEF AnsweredInv, Answered

LEMMA CrashAnswered ==
  ASSUME AnsweredInv, Crash
  PROVE  AnsweredInv'
BY DEF Crash, AnsweredInv, Answered

-----------------------------------------------------------------------------
(* The invariant of the node, and the theorems. *)

LEMMA InitNodeInv == NodeInit => NodeInv /\ QueueInv
<1>. SUFFICES ASSUME NodeInit PROVE NodeInv /\ QueueInv
  OBVIOUS
<1>1. NodeTypes  BY InitTypes
<1>2. RelayedInv
  BY DEF NodeInit, TablesInit, Init, ActorsInit, RelayActorInit, DlqAsleep, RelayedInv,
         RelayedIsMined, Relayed
<1>3. StoredInv
  BY DEF NodeInit, TablesInit, Init, StoredInv, AckedIsStored
<1>4. AnsweredInv
  BY DEF NodeInit, Init, ActorsInit, RelayActorInit, AnsweredInv, Answered
<1>5. QueueInv
  BY DEF NodeInit, QueueInv
<1>. QED  BY <1>1, <1>2, <1>3, <1>4, <1>5 DEF NodeInv

\* A step of submit_job, or of the node but for its writer thread, keeps the
\* invariant whatever is in the writer's queue, and adds at most one of the
\* node's writes to it.
NotWriterStep ==
    \/ \E j \in Job : Submit(j)
    \/ PipelineStep \/ DlqWakes \/ DlqStep \/ Mine

LEMMA StepKeepsNodeInv ==
  ASSUME NodeInv, NotWriterStep
  PROVE  NodeInv' /\ Sends /\ mined \subseteq mined'
<1>1. ASSUME NEW j \in Job, Submit(j)
      PROVE  NodeInv' /\ Sends /\ mined \subseteq mined'
  <2>1. NodeInv'
    BY <1>1, SubmitTypes, SubmitRelayed, SubmitStored, SubmitAnswered DEF NodeInv
  <2>2. UNCHANGED <<onChain, mined>>
    BY <1>1 DEF Submit, SubmitMissing, SubmitNew, SubmitRefused, SubmitKnown, AskPending,
                AlreadyPending, NotPending, FindActor, ReadNextNonce, NextNonceUnavailable,
                SpawnActor, AskActor, RefuseLow, HandToActor, chainVars
  <2>. QED  BY <1>1, <2>1, <2>2, SubmitSends
<1>2. CASE PipelineStep
  BY <1>2, PipelineTypes, PipelineRelayed, OtherStored, PipelineAnswered, PipelineSends,
     PipelineFrame DEF NodeInv
<1>3. CASE DlqWakes \/ DlqStep
  BY <1>3, DlqTypes, DlqRelayed, OtherStored, OtherAnswered, DlqSends, DlqFrame DEF NodeInv
<1>4. CASE Mine
  <2>1. NodeInv'  BY <1>4, MineTypes, MineRelayed, OtherStored, OtherAnswered DEF NodeInv
  <2>. QED  BY <1>4, <2>1 DEF Mine, Sends
<1>. QED  BY <1>1, <1>2, <1>3, <1>4 DEF NotWriterStep

\* So does the writer thread, when its next write is one of the node's.
LEMMA RowKeepsNodeInv ==
  ASSUME NodeInv, RowWritten, Head(writerRx) \in NodeWrites
  PROVE  NodeInv' /\ mined \subseteq mined'
<1>1. UNCHANGED <<onChain, mined>>  BY DEF RowWritten, chainVars
<1>. QED  BY <1>1, RowTypes, RowRelayed, RowStored, RowAnswered DEF NodeInv

LEMMA CrashKeepsNodeInv ==
  ASSUME NodeInv, Crash
  PROVE  NodeInv' /\ QueueInv'
<1>1. NodeInv'  BY CrashTypes, CrashRelayed, CrashStored, CrashAnswered DEF NodeInv
<1>. QED  BY <1>1 DEF Crash, QueueInv

nodeCoreVars == <<vars, intakeVars, actorUp, dbVars, txVars, dlq, chainVars, histVars>>

LEMMA StutterKeepsNodeInv ==
  ASSUME NodeInv, UNCHANGED nodeCoreVars
  PROVE  NodeInv'
<1>1. TypeOK'  BY StutterType DEF NodeInv, NodeTypes, nodeCoreVars
<1>2. IntakeTypes' /\ DatabaseTypes'
  BY DEF NodeInv, NodeTypes, IntakeTypes, DatabaseTypes, nodeCoreVars, intakeVars, dbVars, histVars
<1>3. TransactionTypes'
  BY DEF NodeInv, NodeTypes, TransactionTypes, HasLargest, MinedNonces, nodeCoreVars, txVars,
         chainVars
<1>4. RelayedInv'
  BY RelayedFrame
     DEF NodeInv, relayedVars, nodeCoreVars, vars, relayVars, dbVars, txVars, chainVars
<1>5. StoredInv'
  BY DEF NodeInv, StoredInv, AckedIsStored, Found, nodeCoreVars, vars, callVars, intakeVars, dbVars,
         histVars
<1>6. AnsweredInv'
  BY AnsweredFrame
     DEF NodeInv, answeredVars, nodeCoreVars, vars, callVars, actorVars, intakeVars, histVars
<1>. QED  BY <1>1, <1>2, <1>3, <1>4, <1>5, <1>6 DEF NodeInv, NodeTypes

LEMMA NextKeepsNodeInv == NodeInv /\ QueueInv /\ [NodeNext]_nodeVars => NodeInv' /\ QueueInv'
<1>. SUFFICES ASSUME NodeInv, QueueInv, [NodeNext]_nodeVars
              PROVE  NodeInv' /\ QueueInv'
  OBVIOUS
<1>1. CASE NotWriterStep
  <2>1. NodeInv' /\ Sends /\ NodeWrites \subseteq NodeWrites'
    BY <1>1, StepKeepsNodeInv, WritesGrow
  <2>2. writerRx' \in Seq(NodeWrites)
    BY <2>1, AppendFacts DEF Sends, ToWriter, QueueInv
  <2>3. writerRx' \in Seq(NodeWrites')  BY <2>1, <2>2, SeqMonotonic
  <2>. QED  BY <2>1, <2>3 DEF QueueInv
<1>2. CASE RowWritten
  <2>1. /\ writerRx \in Seq(NodeWrites) /\ writerRx # <<>> /\ writerRx' = Tail(writerRx)
    BY <1>2 DEF QueueInv, RowWritten
  <2>2. Head(writerRx) \in NodeWrites /\ writerRx' \in Seq(NodeWrites)
    BY <2>1, TailFacts
  <2>3. NodeInv' /\ NodeWrites \subseteq NodeWrites'
    BY <1>2, <2>2, RowKeepsNodeInv, WritesGrow
  <2>4. writerRx' \in Seq(NodeWrites')  BY <2>2, <2>3, SeqMonotonic
  <2>. QED  BY <2>3, <2>4 DEF QueueInv
<1>3. CASE UNCHANGED nodeVars
  <2>1. NodeInv'  BY <1>3, StutterKeepsNodeInv DEF nodeVars, nodeCoreVars
  <2>2. writerRx' = writerRx /\ mined' = mined  BY <1>3 DEF nodeVars, chainVars
  <2>3. NodeWrites' = NodeWrites
    BY <2>2 DEF NodeWrites, JobWrites, FailureWrites, DeleteWrites
  <2>. QED  BY <2>1, <2>2, <2>3 DEF QueueInv
<1>. QED
  BY <1>1, <1>2, <1>3 DEF NodeNext, NodeStep, NodeRest, NotWriterStep, PipelineStep

THEOREM NodeInvariant == NodeSpec => [](NodeInv /\ QueueInv)
<1>. QED  BY InitNodeInv, NextKeepsNodeInv, PTL DEF NodeSpec

\* Type correctness of the node: intake, database, relay, DLQ and chain.
THEOREM NodeTypeCorrect == NodeSpec => []NodeTypeOK
<1>1. NodeInv => NodeTypeOK  BY TypesAreTypes DEF NodeInv
<1>. QED  BY <1>1, NodeInvariant, PTL

\* While the process is up: whichever of the relay actor and the DLQ wrote
\* `Relayed' into a row, a transaction of that very job was mined.  (Whether it
\* was accepted the code does not look at: relayer.rs:478-500.)
THEOREM NodeRelayedIsMined == NodeSpec => []RelayedIsMined
<1>1. NodeInv => RelayedIsMined  BY DEF NodeInv, RelayedInv
<1>. QED  BY <1>1, NodeInvariant, PTL

-----------------------------------------------------------------------------
(* The node implements ConsumerActors. *)

\* Until a call spawns the actors nothing has reached the chain or the DLQ.
Dormant ==
    ~actorUp =>
        /\ Init
        /\ inflight = {} /\ unsaved = {} /\ mempool = {} /\ onChain = {}
        /\ \A n \in Nonces : failureJobs[n] = NoRow
        /\ dlq.pc = "asleep"
        /\ \A i \in 1..Len(writerRx) : writerRx[i].kind = "job" /\ writerRx[i].ack # "dlq"
        /\ \A j \in Job : intake[j] # "routed"

\* So the next nonce that a call reads from the chain to spawn the actors with
\* is the one the consumer started with, however many calls read it.
ReadsFirst == \A j \in Job : readNonce[j] = FirstNonce

LEMMA InitDormant == NodeInit => Dormant /\ ReadsFirst
  BY DEF NodeInit, TablesInit, Dormant, ReadsFirst, DlqAsleep

LEMMA NothingOnChain ==
  ASSUME onChain = {}
  PROVE  ChainNextNonce = FirstNonce
<1>1. {FirstNonce - 1} \cup onChain = {FirstNonce - 1}
  OBVIOUS
<1>2. Max({FirstNonce - 1}) = FirstNonce - 1
  BY DEF Max
<1>. QED  BY <1>1, <1>2, NonceAssumption DEF ChainNextNonce

LEMMA StepReadsFirst ==
  ASSUME Dormant, ReadsFirst, NodeTypes, [NodeNext]_nodeVars
  PROVE  ReadsFirst'
<1>1. ASSUME NEW j \in Job, ReadNextNonce(j)
      PROVE  ReadsFirst'
  <2>1. onChain = {}  BY <1>1 DEF ReadNextNonce, Dormant
  <2>2. readNonce' = [readNonce EXCEPT ![j] = FirstNonce]
    BY <1>1, <2>1, NothingOnChain DEF ReadNextNonce
  <2>. QED  BY <2>2 DEF ReadsFirst, NodeTypes, IntakeTypes
<1>2. ASSUME NEW j \in Job, Submit(j), ~ReadNextNonce(j)
      PROVE  UNCHANGED readNonce
  BY <1>2 DEF Submit, SubmitMissing, SubmitNew, SubmitRefused, SubmitKnown, AskPending,
              AlreadyPending, NotPending, FindActor, NextNonceUnavailable, SpawnActor, AskActor,
              RefuseLow, HandToActor, intakeVars
<1>3. NodeStep \/ UNCHANGED nodeVars => UNCHANGED readNonce
  BY PipelineFrame, DlqFrame
     DEF NodeStep, PipelineStep, RowWritten, Mine, nodeVars, intakeVars
<1>. QED  BY <1>1, <1>2, <1>3 DEF NodeNext, NodeRest, ReadsFirst

\* Before the actors are spawned only submit_job and the writer take steps.
LEMMA DormantSteps ==
  ASSUME Dormant, ~actorUp, NodeTypes, NodeStep
  PROVE  RowWritten
<1>1. /\ execRx = <<>> /\ relayRx = <<>> /\ sending = NoJob
      /\ \A j \in Job : task[j] = "none" /\ relay[j] = "none"
      /\ inflight = {} /\ unsaved = {} /\ mempool = {} /\ dlq.pc = "asleep"
      /\ \A n \in Nonces : failureJobs[n] = NoRow
  BY DEF Dormant, Init, ActorsInit, RelayActorInit
<1>2. ASSUME NEW j \in Job
      PROVE  /\ ~RelayResult(j) /\ ~WorkerPanics(j)
             /\ \A result \in {"ok", "err"} : ~Work(j, result)
  BY <1>1, <1>2
     DEF RelayResult, Broadcast, ReceiptArrives, AttemptFails, LastAttemptFails, Report, SaveRelayed,
         RelayGivesUp, ReportRelayed, WorkerPanics, Work, Execute
<1>3. ~ActorStep
  BY <1>1 DEF ActorStep, ReceiveOne, StartTask, DropExec, AnswerPending, AnswerNextNonce,
              ForgetRelayed, Receive, JoinOne, JoinToSend, JoinToWait, JoinFailed, JoinLost, Join,
              SendOne, SendUnordered, SendOrdered, SendToRelay
<1>4. ~StartRelay /\ ~Mine /\ ~DlqWakes /\ ~DlqStep
  BY <1>1 DEF StartRelay, TakeRelay, Mine, DlqWakes, DlqStep, DlqBroadcasts, DlqReceipt, DlqFails,
              DlqDeletes, DlqSleeps
<1>. QED  BY <1>2, <1>3, <1>4 DEF NodeStep

LEMMA StepDormant ==
  ASSUME Dormant, NodeTypes, QueueInv, [NodeNext]_nodeVars
  PROVE  Dormant'
<1>1. CASE actorUp
  <2>1. actorUp'
    <3>1. ASSUME NEW j \in Job, Submit(j) PROVE actorUp'
      BY <1>1, <3>1
         DEF Submit, SubmitMissing, SubmitNew, SubmitRefused, SubmitKnown, AskPending,
             AlreadyPending, NotPending, FindActor, ReadNextNonce, NextNonceUnavailable, SpawnActor,
             AskActor, RefuseLow, HandToActor
    <3>2. NodeStep \/ UNCHANGED nodeVars => UNCHANGED actorUp
      BY PipelineFrame, DlqFrame DEF NodeStep, PipelineStep, RowWritten, Mine, nodeVars
    <3>. QED  BY <1>1, <3>1, <3>2 DEF NodeNext, NodeRest
  <2>. QED  BY <2>1 DEF Dormant
<1>2. CASE ~actorUp
  <2>1. /\ Init /\ \A j \in Job : call[j] = "new" /\ intake[j] # "routed"
        /\ inflight = {} /\ unsaved = {} /\ mempool = {} /\ onChain = {}
        /\ \A n \in Nonces : failureJobs[n] = NoRow
        /\ dlq.pc = "asleep"
        /\ \A i \in 1..Len(writerRx) : writerRx[i].kind = "job" /\ writerRx[i].ack # "dlq"
    BY <1>2 DEF Dormant, Init
  <2>2. intake \in [Job -> IntakePhase] /\ writerRx \in Seq(NodeWrites)
    BY DEF NodeTypes, IntakeTypes, QueueInv
  <2>3. UNCHANGED vars => Init'
    BY <2>1 DEF vars, callVars, actorVars, relayVars, Init, ActorsInit, RelayActorInit
  <2>4. ASSUME NEW j \in Job, Submit(j)
        PROVE  Dormant'
    <3>1. CASE SpawnActor(j)  BY <3>1 DEF SpawnActor, Dormant
    <3>2. CASE ~SpawnActor(j)
      <4>1. /\ UNCHANGED <<vars, inflight, unsaved, mempool, onChain, mined, failureJobs, dlq>>
            /\ UNCHANGED intake
               \/ \E phase \in IntakePhase \ {"routed"} : intake' = [intake EXCEPT ![j] = phase]
        BY <1>2, <2>1, <2>4, <3>2
           DEF Submit, SubmitMissing, SubmitNew, SubmitRefused, SubmitKnown, AskPending,
               AlreadyPending, NotPending, FindActor, ReadNextNonce, NextNonceUnavailable, AskActor,
               RefuseLow, HandToActor, SkipPending, Resubmit, RejectLowNonce, WriteUnlessMatched,
               WritePending, Goto, IntakePhase, dbVars, txVars, chainVars
      <4>2. \A k \in Job : intake'[k] # "routed"
        BY <2>1, <2>2, <4>1
      <4>3. UNCHANGED writerRx \/ ToWriter(JobWrite(j, "Pending", j))
        BY <1>2, <2>1, <2>4, <3>2
           DEF Submit, SubmitMissing, SubmitNew, SubmitRefused, SubmitKnown, AskPending,
               AlreadyPending, NotPending, FindActor, ReadNextNonce, NextNonceUnavailable, AskActor,
               RefuseLow, HandToActor, RejectLowNonce, WriteUnlessMatched, WritePending
      <4>4. \A i \in 1..Len(writerRx') : writerRx'[i].kind = "job" /\ writerRx'[i].ack # "dlq"
        <5>1. CASE UNCHANGED writerRx  BY <2>1, <5>1
        <5>2. CASE ToWriter(JobWrite(j, "Pending", j))
          <6>1. /\ Len(writerRx') = Len(writerRx) + 1 /\ Len(writerRx) \in Nat
                /\ \A i \in 1..Len(writerRx) : writerRx'[i] = writerRx[i]
                /\ writerRx'[Len(writerRx) + 1] = JobWrite(j, "Pending", j)
            <7>1. JobWrite(j, "Pending", j) \in NodeWrites  BY JobWriteFacts DEF Status
            <7>. QED  BY <2>2, <5>2, <7>1, AppendFacts DEF ToWriter
          <6>2. JobWrite(j, "Pending", j).kind = "job" /\ JobWrite(j, "Pending", j).ack # "dlq"
            BY RetryAssumption DEF JobWrite
          <6>. QED  BY <2>1, <6>1, <6>2
        <5>. QED  BY <4>3, <5>1, <5>2
      <4>. QED  BY <2>1, <2>3, <4>1, <4>2, <4>4 DEF Dormant
    <3>. QED  BY <3>1, <3>2
  <2>5. CASE RowWritten
    <3>1. writerRx # <<>> /\ writerRx' = Tail(writerRx)  BY <2>5 DEF RowWritten
    <3>2. /\ Len(writerRx) \in Nat \ {0} /\ Head(writerRx) = writerRx[1]
          /\ Len(writerRx') = Len(writerRx) - 1
          /\ \A i \in 1..(Len(writerRx) - 1) : writerRx'[i] = writerRx[i + 1]
      BY <2>2, <3>1, TailFacts
    <3>3. Head(writerRx).kind = "job" /\ Head(writerRx).ack # "dlq"
      BY <2>1, <3>2
    <3>4. \A i \in 1..Len(writerRx') : writerRx'[i].kind = "job" /\ writerRx'[i].ack # "dlq"
      BY <2>1, <3>2
    <3>5. UNCHANGED <<vars, inflight, unsaved, mempool, onChain, mined, failureJobs, dlq>>
      BY <2>5, <3>3 DEF RowWritten, txVars, chainVars
    <3>6. \A k \in Job : intake'[k] # "routed"
      BY <2>1, <2>2, <2>5 DEF RowWritten
    <3>. QED  BY <2>1, <2>3, <3>4, <3>5, <3>6 DEF Dormant
  <2>6. CASE UNCHANGED nodeVars
    BY <2>1, <2>3, <2>6 DEF nodeVars, intakeVars, dbVars, txVars, chainVars, Dormant
  <2>. QED  BY <1>2, <2>4, <2>5, <2>6, DormantSteps DEF NodeNext, NodeRest
<1>. QED  BY <1>1, <1>2

LEMMA StepActors ==
  ASSUME Dormant, ReadsFirst, [NodeNext]_nodeVars
  PROVE  [Next]_vars
<1>1. ASSUME NEW j \in Job, Submit(j)
      PROVE  [Next]_vars
  <2>1. CASE SpawnActor(j)
    <3>1. nextJobToSubmit' = nextJobToSubmit
      BY <2>1 DEF SpawnActor, Dormant, ReadsFirst, Init, ActorsInit
    <3>. QED  BY <2>1, <3>1 DEF SpawnActor, vars, actorVars
  <2>2. CASE ~SpawnActor(j)
    BY <1>1, <2>2 DEF Submit, SubmitMissing, SubmitNew, SubmitRefused, SubmitKnown, AskPending,
                      AlreadyPending, NotPending, FindActor, ReadNextNonce, NextNonceUnavailable,
                      AskActor, RefuseLow, HandToActor, Submission, Next
  <2>. QED  BY <2>1, <2>2
<1>2. ASSUME NEW j \in Job, RelayResult(j)
      PROVE  [Next]_vars
  BY <1>2 DEF RelayResult, Broadcast, ReceiptArrives, AttemptFails, LastAttemptFails, Report,
              SaveRelayed, RelayOne, Next
<1>3. ASSUME NEW j \in Job, WorkerPanics(j) \/ \E result \in {"ok", "err"} : Work(j, result)
      PROVE  [Next]_vars
  BY <1>3 DEF WorkerPanics, Work, PoolWorker, Next
<1>4. ActorStep \/ StartRelay => [Next]_vars
  BY DEF ActorStep, StartRelay, Next
<1>5. DlqWakes \/ DlqStep \/ RowWritten \/ Mine \/ UNCHANGED nodeVars => UNCHANGED vars
  BY DlqFrame DEF RowWritten, Mine, nodeVars
<1>. QED  BY <1>1, <1>2, <1>3, <1>4, <1>5 DEF NodeNext, NodeStep, NodeRest

LEMMA NodeKeepsDormant == NodeSpec => [](Dormant /\ ReadsFirst)
<1>1. Dormant /\ ReadsFirst /\ NodeInv /\ QueueInv /\ [NodeNext]_nodeVars => (Dormant /\ ReadsFirst)'
  BY StepDormant, StepReadsFirst DEF NodeInv
<1>. QED  BY <1>1, InitDormant, NodeInvariant, PTL DEF NodeSpec

\* A node that stays up runs the actors as ConsumerActors specifies them: the
\* intake asks and sends as a caller may, and whichever of several first calls
\* spawns the actors, they start from the consumer's next nonce
\* (intake.rs:196-208).
THEOREM NodeRunsActors == NodeSpec => Spec
<1>1. NodeInit => Init  BY DEF NodeInit
<1>2. Dormant /\ ReadsFirst /\ [NodeNext]_nodeVars => [Next]_vars
  BY StepActors
<1>. QED  BY <1>1, <1>2, NodeKeepsDormant, PTL DEF NodeSpec, Spec

\* Hence the node settles the Ordered jobs one by one, in nonce order, and its
\* actors keep their invariants.
THEOREM NodeKeepsPromise ==
  NodeSpec => KeepsPromise /\ [](InTurn /\ OnceThrough /\ AcceptedIsAccounted
                                 /\ RefusalIsFinal /\ PendingCoversPipeline)
<1>. QED
  BY NodeRunsActors, ActorsKeepPromise, AlwaysInTurn, AlwaysOnceThrough, AlwaysAccounted,
     RefusalsAreFinal, PendingIsCovered, PTL

-----------------------------------------------------------------------------
(* The dead letters. *)

LEMMA DecidedStays ==
  ASSUME TypeOK, OnceThrough, [Next]_vars, NEW j \in Job, relay[j] \in {"reported", "dead"}
  PROVE  relay'[j] = relay[j]
<1>1. CASE TakeRelay
  <2>1. /\ Head(relayRx) \in Job /\ InRelayRx(Head(relayRx))
        /\ relay' = [relay EXCEPT ![Head(relayRx)] = "attempting"]
    BY <1>1, TakenIsGone DEF OnceThrough, TakeRelay
  <2>2. relay[Head(relayRx)] = "none"
    BY <2>1 DEF OnceThrough, OnePlace
  <2>. QED  BY <2>1, <2>2 DEF TypeOK
<1>2. ASSUME NEW k \in Job, RelayOne(k)
      PROVE  relay'[j] = relay[j]
  BY <1>2 DEF RelayOne, RelayLands, RelayGivesUp, ReportRelayed, TypeOK
<1>3. CASE UNCHANGED relay
  BY <1>3
<1>. QED
  BY <1>1, <1>2, <1>3
     DEF Next, Rest, Submission, CheckPending, SkipPending, Resubmit, AskNextNonce, RejectLowNonce,
         SendExec, ReceiveOne, StartTask, DropExec, AnswerPending, AnswerNextNonce, ForgetRelayed,
         JoinOne, JoinToSend, JoinToWait, JoinFailed, JoinLost, PoolWorker, Execute, SendOne,
         SendUnordered, SendOrdered, vars, relayVars

\* Writes to the failure table are for jobs that were given up.
DeadWrites == {w \in NodeWrites : w.kind \in {"failure", "delete"} => relay[w.row.job] = "dead"}

\* Whatever the DLQ task handles was given up by the relay actor.
DeadLetterInv ==
    /\ \A n \in Nonces : failureJobs[n] # NoRow => relay[failureJobs[n].job] = "dead"
    /\ \A row \in dlq.batch : relay[row.job] = "dead"
    /\ dlq.pc = "inflight" => relay[dlq.current.job] = "dead"
    /\ \A j \in dlq.delete : relay[j] = "dead"

DeadQueue == writerRx \in Seq(DeadWrites)

LEMMA InitDead == NodeInit => DeadLetterInv /\ DeadQueue
  BY DEF NodeInit, TablesInit, DlqAsleep, DeadLetterInv, DeadQueue

\* What was given up before the step stays so.
DeadStays == \A j \in Job : relay[j] = "dead" => relay'[j] = "dead"

LEMMA DeadFrame ==
  ASSUME NodeTypes, DeadLetterInv, DeadStays, UNCHANGED <<failureJobs, dlq>>
  PROVE  DeadLetterInv'
<1>1. /\ \A n \in Nonces : failureJobs[n] # NoRow => failureJobs[n].job \in Job
      /\ \A row \in dlq.batch : row.job \in Job
      /\ dlq.pc = "inflight" => dlq.current.job \in Job
      /\ dlq.delete \subseteq Job
  BY DEF NodeTypes, DatabaseTypes, TransactionTypes, DlqState, DlqRow
<1>. QED  BY <1>1 DEF DeadLetterInv, DeadStays

LEMMA DeadWritesGrow ==
  ASSUME DeadStays, mined \subseteq mined'
  PROVE  DeadWrites \subseteq DeadWrites'
<1>1. NodeWrites \subseteq NodeWrites'  BY WritesGrow
<1>2. \A w \in NodeWrites : w.row.job \in Job
  BY DEF NodeWrites, JobWrites, FailureWrites, DeleteWrites, Row, DlqRow
<1>. QED  BY <1>1, <1>2 DEF DeadWrites, DeadStays

LEMMA DlqDead ==
  ASSUME NodeTypes, DeadLetterInv, DlqWakes \/ DlqStep
  PROVE  DeadLetterInv'
<1>1. UNCHANGED <<relay, failureJobs>>
  BY DlqFrame DEF vars, relayVars, dbVars
<1>2. dlq \in DlqState  BY DEF NodeTypes, TransactionTypes
<1>3. /\ \A row \in dlq'.batch : relay[row.job] = "dead"
      /\ dlq'.pc = "inflight" => relay[dlq'.current.job] = "dead"
      /\ \A j \in dlq'.delete : relay[j] = "dead"
  <2>1. CASE DlqWakes
    <3>1. /\ dlq'.batch = {failureJobs[n] : n \in Nonces} \ {NoRow}
          /\ dlq'.pc = "retry" /\ dlq'.delete = dlq.delete
      BY <1>2, <2>1 DEF DlqWakes, DlqState
    <3>. QED  BY <3>1 DEF DeadLetterInv
  <2>2. CASE DlqBroadcasts
    BY <1>2, <2>2 DEF DlqBroadcasts, DlqState, DeadLetterInv
  <2>3. CASE DlqReceipt
    BY <1>2, <2>3 DEF DlqReceipt, DlqState, DeadLetterInv
  <2>4. CASE DlqFails
    <3>1. PICK row \in IF dlq.pc = "inflight" THEN {dlq.current} ELSE dlq.batch :
             \/ dlq' = [dlq EXCEPT !.pc = "retry", !.batch = @ \ {row},
                                   !.delete = @ \cup {row.job}]
             \/ dlq' = [dlq EXCEPT !.pc = "saving", !.batch = @ \ {row}]
      BY <2>4 DEF DlqFails
    <3>2. relay[row.job] = "dead"
      BY <3>1 DEF DeadLetterInv
    <3>3. /\ dlq'.pc # "inflight" /\ dlq'.batch \subseteq dlq.batch
          /\ dlq'.delete \subseteq dlq.delete \cup {row.job}
      BY <1>2, <3>1 DEF DlqState
    <3>. QED  BY <3>2, <3>3 DEF DeadLetterInv
  <2>5. CASE DlqDeletes
    BY <1>2, <2>5 DEF DlqDeletes, DlqState, DeadLetterInv
  <2>6. CASE DlqSleeps
    BY <2>6 DEF DlqSleeps, DlqAsleep
  <2>. QED  BY <2>1, <2>2, <2>3, <2>4, <2>5, <2>6 DEF DlqStep
<1>. QED  BY <1>1, <1>3 DEF DeadLetterInv

LEMMA RowDead ==
  ASSUME NodeTypes, DeadLetterInv, RowWritten, Head(writerRx) \in DeadWrites
  PROVE  DeadLetterInv'
<1>. DEFINE write == Head(writerRx)
            n == Nonce[write.row.job]
<1>1. /\ failureJobs' = CASE write.kind = "failure" -> [failureJobs EXCEPT ![n] = write.row]
                          [] write.kind = "delete"  -> [failureJobs EXCEPT ![n] = NoRow]
                          [] OTHER                  -> failureJobs
      /\ dlq' = IF write.ack = "dlq" THEN [dlq EXCEPT !.pc = "retry"] ELSE dlq
      /\ UNCHANGED relay
  BY DEF RowWritten, vars, relayVars
<1>2. /\ failureJobs \in [Nonces -> DlqRow \cup {NoRow}] /\ dlq \in DlqState
      /\ write.kind \in {"failure", "delete"} => relay[write.row.job] = "dead"
  BY DEF NodeTypes, DatabaseTypes, TransactionTypes, DeadWrites
<1>. HIDE DEF write, n
<1>3. \A m \in Nonces : \/ failureJobs'[m] = failureJobs[m]
                        \/ failureJobs'[m] = NoRow
                        \/ write.kind = "failure" /\ failureJobs'[m] = write.row
  BY <1>1, <1>2
<1>4. /\ dlq'.batch = dlq.batch /\ dlq'.delete = dlq.delete
      /\ dlq'.pc = "inflight" => dlq.pc = "inflight" /\ dlq'.current = dlq.current
  BY <1>1, <1>2 DEF DlqState
<1>. QED  BY <1>1, <1>2, <1>3, <1>4 DEF DeadLetterInv

\* What a step but the writer's sends to the writer.
SendsDead == UNCHANGED writerRx \/ \E w \in DeadWrites' : ToWriter(w)

LEMMA StepSendsDead ==
  ASSUME NodeInv, DeadLetterInv, DeadStays, NotWriterStep
  PROVE  SendsDead
<1>1. NodeWrites \subseteq NodeWrites'
  BY StepKeepsNodeInv, WritesGrow
<1>2. ASSUME NEW w \in NodeWrites, ToWriter(w),
             w.kind \in {"failure", "delete"} => relay'[w.row.job] = "dead"
      PROVE  SendsDead
  BY <1>1, <1>2 DEF SendsDead, DeadWrites
<1>3. ASSUME NEW j \in Job, NEW status \in Status, NEW ack \in {j, NoJob, "dlq"},
             status = "Relayed" => j \in mined, ToWriter(JobWrite(j, status, ack))
      PROVE  SendsDead
  <2>1. JobWrite(j, status, ack) \in NodeWrites  BY <1>3, JobWriteFacts
  <2>2. JobWrite(j, status, ack).kind = "job"  BY DEF JobWrite
  <2>. QED  BY <1>2, <1>3, <2>1, <2>2
<1>4. ASSUME NEW j \in Job, Submit(j)
      PROVE  SendsDead
  <2>1. \/ UNCHANGED writerRx
        \/ ToWriter(JobWrite(j, "Pending", j)) \/ ToWriter(JobWrite(j, "Failed", NoJob))
    BY <1>4 DEF Submit, SubmitMissing, SubmitNew, SubmitRefused, SubmitKnown, AskPending,
                AlreadyPending, NotPending, FindActor, ReadNextNonce, NextNonceUnavailable,
                SpawnActor, AskActor, RefuseLow, HandToActor, WriteUnlessMatched, WritePending
  <2>2. "Pending" \in Status /\ "Failed" \in Status  BY DEF Status
  <2>. QED  BY <1>3, <2>1, <2>2 DEF SendsDead
<1>5. ASSUME NEW j \in Job, LastAttemptFails(j)
      PROVE  SendsDead
  <2>1. FailureWrite(j, 0, NoJob) \in NodeWrites  BY FailureWriteFacts
  <2>2. FailureWrite(j, 0, NoJob).row.job = j  BY DEF FailureWrite
  <2>3. relay'[j] = "dead"
    BY <1>5 DEF LastAttemptFails, RelayGivesUp, NodeInv, NodeTypes, TypeOK
  <2>. QED  BY <1>2, <1>5, <2>1, <2>2, <2>3 DEF LastAttemptFails
<1>6. ASSUME NEW j \in Job, SaveRelayed(j)
      PROVE  SendsDead
  <2>1. j \in mined /\ "Relayed" \in Status
    BY <1>6 DEF SaveRelayed, NodeInv, RelayedInv, Status
  <2>. QED  BY <1>3, <1>6, <2>1 DEF SaveRelayed
<1>7. ASSUME NEW j \in Job, NEW result \in {"ok", "err"}, Work(j, result)
      PROVE  SendsDead
  <2>1. PICK status \in {"Done", "Failed"} : ToWriter(JobWrite(j, status, NoJob))
    BY <1>7 DEF Work
  <2>. QED  BY <1>3, <2>1 DEF Status
<1>8. ASSUME NEW j \in Job,
             Broadcast(j) \/ ReceiptArrives(j) \/ AttemptFails(j) \/ Report(j) \/ WorkerPanics(j)
      PROVE  SendsDead
  BY <1>8 DEF Broadcast, ReceiptArrives, AttemptFails, Report, WorkerPanics, SendsDead
<1>9. ActorStep \/ StartRelay \/ Mine \/ DlqWakes \/ DlqBroadcasts \/ DlqSleeps => SendsDead
  BY DEF ActorStep, StartRelay, Mine, DlqWakes, DlqBroadcasts, DlqSleeps, SendsDead
<1>10. CASE DlqReceipt
  <2>1. dlq.current.job \in Job /\ dlq.current.job \in mined /\ "Relayed" \in Status
    BY <1>10 DEF DlqReceipt, Included, NodeInv, NodeTypes, TransactionTypes, DlqRow, RelayedInv,
                 Settles, Status
  <2>. QED  BY <1>3, <1>10, <2>1 DEF DlqReceipt
<1>11. CASE DlqFails
  <2>1. PICK row \in IF dlq.pc = "inflight" THEN {dlq.current} ELSE dlq.batch :
           UNCHANGED writerRx \/ ToWriter(FailureWrite(row.job, row.retries + 1, "dlq"))
    BY <1>11 DEF DlqFails
  <2>2. row \in DlqRow /\ relay[row.job] = "dead"
    BY <2>1 DEF NodeInv, NodeTypes, TransactionTypes, DlqState, DeadLetterInv
  <2>3. row.job \in Job /\ row.retries + 1 \in Nat
    BY <2>2 DEF DlqRow
  <2>4. FailureWrite(row.job, row.retries + 1, "dlq") \in NodeWrites
    BY <2>3, FailureWriteFacts
  <2>5. FailureWrite(row.job, row.retries + 1, "dlq").row.job = row.job  BY DEF FailureWrite
  <2>. QED  BY <1>2, <2>1, <2>2, <2>3, <2>4, <2>5 DEF SendsDead, DeadStays
<1>12. CASE DlqDeletes
  <2>1. PICK j \in dlq.delete : ToWriter(DeleteWrite(j))  BY <1>12 DEF DlqDeletes
  <2>2. j \in Job /\ relay[j] = "dead"
    BY <2>1 DEF NodeInv, NodeTypes, TransactionTypes, DlqState, DeadLetterInv
  <2>3. DeleteWrite(j) \in NodeWrites /\ DeleteWrite(j).row.job = j
    BY <2>2, DeleteWriteFacts DEF DeleteWrite
  <2>. QED  BY <1>2, <2>1, <2>2, <2>3 DEF DeadStays
<1>. QED
  BY <1>4, <1>5, <1>6, <1>7, <1>8, <1>9, <1>10, <1>11, <1>12
     DEF NotWriterStep, PipelineStep, RelayResult, DlqStep

LEMMA StepDead ==
  ASSUME NodeInv, QueueInv, DeadLetterInv, DeadQueue, DeadStays, [NodeNext]_nodeVars
  PROVE  DeadLetterInv' /\ DeadQueue'
<1>1. CASE NotWriterStep
  <2>1. DeadLetterInv'
    <3>1. CASE DlqWakes \/ DlqStep
      BY <3>1, DlqDead DEF NodeInv
    <3>2. ASSUME NEW j \in Job, Submit(j) PROVE UNCHANGED <<failureJobs, dlq>>
      BY <3>2 DEF Submit, SubmitMissing, SubmitNew, SubmitRefused, SubmitKnown, AskPending,
                  AlreadyPending, NotPending, FindActor, ReadNextNonce, NextNonceUnavailable,
                  SpawnActor, AskActor, RefuseLow, HandToActor, dbVars
    <3>3. PipelineStep \/ Mine => UNCHANGED <<failureJobs, dlq>>
      BY PipelineFrame DEF Mine, dbVars
    <3>. QED  BY <1>1, <3>1, <3>2, <3>3, DeadFrame DEF NotWriterStep, NodeInv
  <2>2. DeadWrites \subseteq DeadWrites'
    BY <1>1, StepKeepsNodeInv, DeadWritesGrow
  <2>3. writerRx \in Seq(DeadWrites')  BY <2>2, SeqMonotonic DEF DeadQueue
  <2>4. writerRx' \in Seq(DeadWrites')
    BY <1>1, <2>3, StepSendsDead, AppendFacts DEF SendsDead, ToWriter
  <2>. QED  BY <2>1, <2>4 DEF DeadQueue
<1>2. CASE RowWritten
  <2>1. writerRx # <<>> /\ writerRx' = Tail(writerRx) /\ UNCHANGED <<onChain, mined>>
    BY <1>2 DEF RowWritten, chainVars
  <2>2. Head(writerRx) \in DeadWrites /\ writerRx' \in Seq(DeadWrites)
    BY <2>1, TailFacts DEF DeadQueue
  <2>3. DeadWrites \subseteq DeadWrites'  BY <2>1, DeadWritesGrow
  <2>4. writerRx' \in Seq(DeadWrites')  BY <2>2, <2>3, SeqMonotonic
  <2>. QED  BY <1>2, <2>2, <2>4, RowDead DEF DeadQueue, NodeInv
<1>3. CASE UNCHANGED nodeVars
  <2>1. UNCHANGED <<failureJobs, dlq, writerRx, onChain, mined>>
    BY <1>3 DEF nodeVars, dbVars, chainVars
  <2>2. DeadLetterInv'  BY <2>1, DeadFrame DEF NodeInv
  <2>3. DeadWrites \subseteq DeadWrites'  BY <2>1, DeadWritesGrow
  <2>4. writerRx \in Seq(DeadWrites')  BY <2>3, SeqMonotonic DEF DeadQueue
  <2>. QED  BY <2>1, <2>2, <2>4 DEF DeadQueue
<1>. QED
  BY <1>1, <1>2, <1>3 DEF NodeNext, NodeStep, NodeRest, NotWriterStep, PipelineStep

-----------------------------------------------------------------------------
(* The order of what is mined. *)

\* Every nonce settled so far was mined or given up.
SettledInv ==
    \A m \in FirstNonce..(NextToSettle - 1) :
        m \in MinedNonces \/ \E j \in Ordered : Nonce[j] = m /\ relay[j] = "dead"

\* The relay actor has come to job j, if it is an Ordered one.
Reached(j) == j \in Ordered => Nonce[j] <= NextToSettle

\* No transaction is sent for an Ordered job whose turn has not come.
ReachedInv ==
    /\ \A j \in Ordered : relay[j] \in {"landed", "reported", "dead"} => Nonce[j] < NextToSettle
    /\ \A j \in mempool : Reached(j)
    /\ \A j \in mined : Reached(j)

OrderInv == SettledInv /\ ReachedInv

\* What the invariants of the actors say of a step.
ActorsInv == TypeOK /\ InTurn /\ OnceThrough

LEMMA SettlesMore ==
  ASSUME TypeOK, [Next]_vars
  PROVE  NextToSettle \in Nat /\ NextToSettle' \in Nat /\ NextToSettle <= NextToSettle'
<1>1. TypeOK'  BY NextType
<1>2. ASSUME NEW j \in Job, RelayOne(j)
      PROVE  settled' = settled \/ Len(settled') = Len(settled) + 1
  <2>1. settled' = settled \/ \E e \in Settlement : settled' = Append(settled, e)
    BY <1>2, JobAssumption
       DEF RelayOne, RelayLands, RelayGivesUp, ReportRelayed, RecordSettled, Settlement
  <2>. QED  BY <2>1 DEF TypeOK
<1>3. settled' = settled \/ \E j \in Job : RelayOne(j)
  BY DEF Next, Rest, Submission, CheckPending, SkipPending, Resubmit, AskNextNonce, RejectLowNonce,
         SendExec, ReceiveOne, StartTask, DropExec, AnswerPending, AnswerNextNonce, ForgetRelayed,
         JoinOne, JoinToSend, JoinToWait, JoinFailed, JoinLost, PoolWorker, Execute, SendOne,
         SendUnordered, SendOrdered, TakeRelay, vars, relayVars
<1>. QED  BY <1>1, <1>2, <1>3, NonceAssumption DEF TypeOK, NextToSettle

LEMMA OrderFrame ==
  ASSUME ActorsInv, OrderInv, [Next]_vars, UNCHANGED <<relay, settled, mempool, onChain, mined>>
  PROVE  OrderInv'
<1>1. NextToSettle' = NextToSettle  BY DEF NextToSettle
<1>. QED  BY <1>1 DEF OrderInv, SettledInv, ReachedInv, Reached, MinedNonces

\* Job j, whose relay is being attempted, is settled: mined, or given up.
LEMMA SettleOrder ==
  ASSUME ActorsInv, OrderInv, NEW j \in Job,
         (RelayLands(j) /\ j \in mined) \/ RelayGivesUp(j),
         UNCHANGED <<mempool, onChain, mined>>
  PROVE  OrderInv'
<1>1. /\ relay \in [Job -> RelayState] /\ relay[j] = "attempting"
      /\ \E outcome \in {"landed", "dead"} :
            /\ relay' = [relay EXCEPT ![j] = outcome]
            /\ outcome = "landed" => j \in mined
      /\ Nonce \in [Job -> Nat] /\ Ordered \subseteq Job
  BY JobAssumption DEF RelayLands, RelayGivesUp, ActorsInv, TypeOK
<1>2. CASE j \notin Ordered
  <2>1. NextToSettle' = NextToSettle
    BY <1>2 DEF RelayLands, RelayGivesUp, RecordSettled, NextToSettle
  <2>2. \A k \in Ordered : relay'[k] = relay[k]
    BY <1>1, <1>2
  <2>. QED  BY <2>1, <2>2 DEF OrderInv, SettledInv, ReachedInv, Reached, MinedNonces
<1>3. CASE j \in Ordered
  <2>1. Nonce[j] = NextToSettle
    BY <1>1, <1>3 DEF ActorsInv, InTurn, OneInHand, Attempting
  <2>2. NextToSettle' = NextToSettle + 1 /\ NextToSettle \in Nat
    <3>1. PICK e \in Settlement : settled' = Append(settled, e)
      BY <1>1, <1>3 DEF RelayLands, RelayGivesUp, RecordSettled, Settlement
    <3>2. Len(settled') = Len(settled) + 1 /\ Len(settled) \in Nat
      BY <3>1 DEF ActorsInv, TypeOK
    <3>. QED  BY <3>2, NonceAssumption DEF NextToSettle
  <2>3. SettledInv'
    <3>1. SUFFICES ASSUME NEW m \in FirstNonce..NextToSettle
                   PROVE  m \in MinedNonces \/ \E k \in Ordered : Nonce[k] = m /\ relay'[k] = "dead"
      BY <2>2, NonceAssumption DEF SettledInv, MinedNonces
    <3>2. CASE m = NextToSettle
      BY <1>1, <1>3, <2>1, <3>2 DEF MinedNonces
    <3>3. CASE m # NextToSettle
      <4>1. m \in FirstNonce..(NextToSettle - 1)
        BY <2>2, <3>3, NonceAssumption
      <4>2. \A k \in Ordered : relay[k] = "dead" => relay'[k] = "dead"
        BY <1>1
      <4>. QED  BY <4>1, <4>2 DEF OrderInv, SettledInv
    <3>. QED  BY <3>2, <3>3
  <2>4. ASSUME NEW k \in Ordered, relay'[k] \in {"landed", "reported", "dead"}
        PROVE  Nonce[k] < NextToSettle + 1
    <3>1. Nonce[k] \in Nat  BY <1>1
    <3>2. CASE k = j  BY <2>1, <2>2, <3>2
    <3>3. CASE k # j
      <4>1. relay'[k] = relay[k]  BY <1>1, <3>3
      <4>2. Nonce[k] < NextToSettle  BY <2>4, <4>1 DEF OrderInv, ReachedInv
      <4>. QED  BY <2>2, <3>1, <4>2
    <3>. QED  BY <3>2, <3>3
  <2>5. ASSUME NEW k, Reached(k) PROVE Reached(k)'
    <3>1. SUFFICES ASSUME k \in Ordered PROVE Nonce[k] <= NextToSettle + 1
      BY <2>2 DEF Reached
    <3>2. Nonce[k] \in Nat /\ Nonce[k] <= NextToSettle  BY <1>1, <2>5, <3>1 DEF Reached
    <3>. QED  BY <2>2, <3>2
  <2>6. ReachedInv'
    BY <2>2, <2>4, <2>5 DEF OrderInv, ReachedInv
  <2>. QED  BY <2>3, <2>6 DEF OrderInv
<1>. QED  BY <1>2, <1>3

\* Nothing is settled in the step, and a transaction is sent for a job only
\* that the relay actor has come to.
LEMMA OrderKept ==
  ASSUME ActorsInv, OrderInv, settled' = settled, mined \subseteq mined',
         \A j \in Ordered : relay[j] = "dead" => relay'[j] = "dead",
         \A j \in Ordered : relay'[j] \in {"landed", "reported", "dead"}
                               => relay[j] \in {"landed", "reported", "dead"},
         \A j \in mempool' : Reached(j),
         \A j \in mined' : Reached(j)
  PROVE  OrderInv'
<1>1. NextToSettle' = NextToSettle  BY DEF NextToSettle
<1>2. \A j : Reached(j)' <=> Reached(j)  BY <1>1 DEF Reached
<1>. QED  BY <1>1, <1>2 DEF OrderInv, SettledInv, ReachedInv, MinedNonces

LEMMA StepOrder ==
  ASSUME NodeInv, ActorsInv, DeadLetterInv, OrderInv, [Next]_vars, [NodeNext]_nodeVars
  PROVE  OrderInv'
<1>1. /\ relay \in [Job -> RelayState] /\ Ordered \subseteq Job
      /\ \A j \in Job : Nonce[j] \in Nat
      /\ \A j \in mempool : Reached(j)
      /\ \A j \in mined : Reached(j)
  BY JobAssumption DEF ActorsInv, TypeOK, OrderInv, ReachedInv
<1>2. \A j \in Ordered : relay[j] = "dead" => relay'[j] = "dead"
  BY <1>1, DecidedStays DEF ActorsInv
<1>3. ASSUME UNCHANGED <<settled, mempool, onChain, mined>>,
             \A j \in Ordered : relay'[j] \in {"landed", "reported", "dead"}
                                   => relay[j] \in {"landed", "reported", "dead"}
      PROVE  OrderInv'
  BY <1>1, <1>2, <1>3, OrderKept
<1>4. ASSUME UNCHANGED <<settled, mempool, onChain, mined, relay>>
      PROVE  OrderInv'
  BY <1>3, <1>4
<1>5. ASSUME NEW j \in Job, Submit(j)
      PROVE  OrderInv'
  <2>1. UNCHANGED <<settled, mempool, onChain, mined, relay>>
    BY <1>5
       DEF Submit, SubmitMissing, SubmitNew, SubmitRefused, SubmitKnown, AskPending, AlreadyPending,
           NotPending, FindActor, ReadNextNonce, NextNonceUnavailable, SpawnActor, AskActor,
           RefuseLow, HandToActor, CheckPending, SkipPending, Resubmit, AskNextNonce,
           RejectLowNonce, SendExec, vars, relayVars, chainVars
  <2>. QED  BY <1>4, <2>1
<1>6. ASSUME NEW j \in Job, RelayResult(j)
      PROVE  OrderInv'
  <2>1. CASE Broadcast(j)
    <3>1. Reached(j)
      BY <1>1, <2>1 DEF Broadcast, Reached, ActorsInv, InTurn, OneInHand, Attempting, TypeOK
    <3>2. /\ UNCHANGED <<relay, settled, onChain, mined>> /\ mempool' = mempool \cup {j}
      BY <2>1 DEF Broadcast, vars, relayVars
    <3>. QED  BY <1>1, <1>2, <3>1, <3>2, OrderKept
  <2>2. CASE ReceiptArrives(j)
    <3>1. j \in mined
      BY <2>2 DEF ReceiptArrives, Included, NodeInv, RelayedInv, Settles
    <3>. QED  BY <2>2, <3>1, SettleOrder DEF ReceiptArrives, chainVars
  <2>3. CASE LastAttemptFails(j)
    BY <2>3, SettleOrder DEF LastAttemptFails, chainVars
  <2>4. CASE Report(j)
    <3>1. /\ UNCHANGED <<settled, mempool, onChain, mined>>
          /\ relay[j] = "landed" /\ relay' = [relay EXCEPT ![j] = "reported"]
      BY <2>4 DEF Report, ReportRelayed, chainVars
    <3>. QED  BY <1>1, <1>3, <3>1
  <2>5. CASE AttemptFails(j) \/ SaveRelayed(j)
    BY <1>4, <2>5 DEF AttemptFails, SaveRelayed, vars, relayVars, chainVars
  <2>. QED  BY <1>6, <2>1, <2>2, <2>3, <2>4, <2>5 DEF RelayResult
<1>7. ASSUME NEW j \in Job, WorkerPanics(j) \/ \E result \in {"ok", "err"} : Work(j, result)
      PROVE  OrderInv'
  BY <1>4, <1>7 DEF WorkerPanics, Work, Execute, relayVars, chainVars
<1>8. CASE ActorStep
  BY <1>4, <1>8
     DEF ActorStep, ReceiveOne, StartTask, DropExec, AnswerPending, AnswerNextNonce, ForgetRelayed,
         JoinOne, JoinToSend, JoinToWait, JoinFailed, JoinLost, SendOne, SendUnordered, SendOrdered,
         relayVars, chainVars
<1>9. CASE StartRelay
  <2>1. /\ UNCHANGED <<settled, mempool, onChain, mined>>
        /\ relay' = [relay EXCEPT ![Head(relayRx)] = "attempting"]
    BY <1>9 DEF StartRelay, TakeRelay, chainVars
  <2>. QED  BY <1>1, <1>3, <2>1
<1>10. CASE DlqBroadcasts
  <2>1. PICK row \in dlq.batch : mempool' = mempool \cup {row.job}
    BY <1>10 DEF DlqBroadcasts
  <2>2. relay[row.job] = "dead"  BY <2>1 DEF DeadLetterInv
  <2>3. Reached(row.job)
    <3>1. row.job \in Ordered => Nonce[row.job] < NextToSettle
      BY <2>2 DEF OrderInv, ReachedInv
    <3>2. NextToSettle \in Nat  BY SettlesMore DEF ActorsInv
    <3>. QED  BY <1>1, <3>1, <3>2 DEF Reached
  <2>4. UNCHANGED <<relay, settled, onChain, mined>>
    BY <1>10 DEF DlqBroadcasts, DlqUnchanged, vars, relayVars
  <2>. QED  BY <1>1, <1>2, <2>1, <2>3, <2>4, OrderKept
<1>11. CASE DlqWakes \/ DlqReceipt \/ DlqFails \/ DlqDeletes \/ DlqSleeps
  BY <1>4, <1>11
     DEF DlqWakes, DlqReceipt, DlqFails, DlqDeletes, DlqSleeps, DlqUnchanged, vars, relayVars,
         chainVars
<1>12. CASE Mine
  <2>1. PICK j \in mempool : mempool' = mempool \ {j} /\ mined' = mined \cup {j}
    BY <1>12 DEF Mine
  <2>2. j \in Job /\ Reached(j)
    BY <1>1, <2>1 DEF NodeInv, NodeTypes, TransactionTypes
  <2>3. UNCHANGED <<relay, settled>>
    BY <1>12 DEF Mine, vars, relayVars
  <2>. QED  BY <1>1, <1>2, <2>1, <2>2, <2>3, OrderKept
<1>13. RowWritten \/ UNCHANGED nodeVars => OrderInv'
  BY <1>4 DEF RowWritten, nodeVars, vars, relayVars, chainVars
<1>. QED
  BY <1>5, <1>6, <1>7, <1>8, <1>9, <1>10, <1>11, <1>12, <1>13
     DEF NodeNext, NodeStep, NodeRest, DlqStep

LEMMA InitOrder == NodeInit => OrderInv
<1>. SUFFICES ASSUME NodeInit PROVE OrderInv
  OBVIOUS
<1>1. settled = <<>> /\ mempool = {} /\ mined = {} /\ \A j \in Job : relay[j] = "none"
  BY DEF NodeInit, Init, ActorsInit, RelayActorInit
<1>2. NextToSettle = FirstNonce  BY <1>1, NonceAssumption DEF NextToSettle
<1>. QED  BY <1>1, <1>2, NonceAssumption, JobAssumption DEF OrderInv, SettledInv, ReachedInv,
                                                            MinedNonces

\* The invariant of a node that stays up.
UpInv ==
    /\ NodeInv /\ QueueInv
    /\ Dormant /\ ReadsFirst
    /\ ActorsInv /\ AcceptedIsAccounted
    /\ DeadLetterInv /\ DeadQueue
    /\ OrderInv

LEMMA StepUp == UpInv /\ ActorsInv' /\ AcceptedIsAccounted' /\ [NodeNext]_nodeVars => UpInv'
<1>. SUFFICES ASSUME UpInv, ActorsInv', AcceptedIsAccounted', [NodeNext]_nodeVars PROVE UpInv'
  OBVIOUS
<1>1. [Next]_vars  BY StepActors DEF UpInv
<1>2. DeadStays  BY <1>1, DecidedStays DEF UpInv, ActorsInv, DeadStays
<1>3. NodeInv' /\ QueueInv'  BY NextKeepsNodeInv DEF UpInv
<1>4. Dormant' /\ ReadsFirst'  BY StepDormant, StepReadsFirst DEF UpInv, NodeInv
<1>5. DeadLetterInv' /\ DeadQueue'  BY <1>2, StepDead DEF UpInv
<1>6. OrderInv'  BY <1>1, StepOrder DEF UpInv
<1>. QED  BY <1>3, <1>4, <1>5, <1>6 DEF UpInv

LEMMA NodeStaysUp == NodeSpec => []UpInv
<1>1. NodeInit /\ ActorsInv /\ AcceptedIsAccounted => UpInv
  BY InitNodeInv, InitDormant, InitDead, InitOrder DEF UpInv
<1>2. InTurn /\ OnceThrough /\ TypeOK => ActorsInv
  BY DEF ActorsInv
<1>. QED
  BY <1>1, <1>2, StepUp, NodeRunsActors, TypeCorrect, AlwaysInTurn, AlwaysOnceThrough,
     AlwaysAccounted, PTL
     DEF NodeSpec

\* Results are mined in the order of their nonces but for dead letters,
\* the retries of the DLQ and what the DLQ sends out of turn included
\* (relayer.rs:313-323, 102-199).
THEOREM OvertakenOnlyWhenDeadHolds == NodeSpec => []OvertakenOnlyWhenDead
<1>1. UpInv => OvertakenOnlyWhenDead
  <2>1. SUFFICES ASSUME UpInv, NEW n \in MinedNonces,
                        \A j \in Job : Nonce[j] = n => j \in Ordered,
                        NEW m \in FirstNonce..(n - 1)
                 PROVE  m \in MinedNonces \/ \E j \in Ordered : Nonce[j] = m /\ relay[j] = "dead"
    BY DEF OvertakenOnlyWhenDead
  <2>2. PICK j \in Job : Nonce[j] = n /\ Reached(j)
    BY <2>1 DEF UpInv, OrderInv, ReachedInv, NodeInv, NodeTypes, TransactionTypes, MinedNonces
  <2>3. n \in Nat /\ n <= NextToSettle
    BY <2>1, <2>2, JobAssumption DEF Reached
  <2>4. NextToSettle \in Nat
    BY NonceAssumption, <2>1 DEF NextToSettle, UpInv, ActorsInv, TypeOK
  <2>5. m \in FirstNonce..(NextToSettle - 1)
    BY <2>3, <2>4, NonceAssumption
  <2>. QED  BY <2>1, <2>5 DEF UpInv, OrderInv, SettledInv
<1>. QED  BY <1>1, NodeStaysUp, PTL

-----------------------------------------------------------------------------
(* What stays pending. *)

\* A call that submitted and returned Ok did send its job.
AckedWasSent == \A j \in acked : call[j] = "sent"

LEMMA StepAckedWasSent ==
  ASSUME NodeTypes, AckedWasSent, [Next]_vars, [NodeNext]_nodeVars
  PROVE  AckedWasSent'
<1>1. call \in [Job -> CallState] /\ acked \subseteq Job
  BY DEF NodeTypes, IntakeTypes, TypeOK
<1>2. \A j \in Job : call[j] = "sent" => call'[j] = "sent"
  BY <1>1 DEF Next, Rest, Submission, CheckPending, SkipPending, Resubmit, AskNextNonce,
         RejectLowNonce, SendExec, ReceiveOne, StartTask, DropExec, AnswerPending, AnswerNextNonce,
         ForgetRelayed, JoinOne, JoinToSend, JoinToWait, JoinFailed, JoinLost, PoolWorker, Execute,
         RelayOne, RelayLands, RelayGivesUp, ReportRelayed, SendOne, SendUnordered, SendOrdered,
         TakeRelay, vars, callVars
<1>3. ASSUME NEW j \in Job, HandToActor(j)
      PROVE  AckedWasSent'
  <2>1. call'[j] = "sent" /\ acked' = acked \cup {j}
    BY <1>1, <1>3 DEF HandToActor, SendExec
  <2>. QED  BY <1>1, <1>2, <2>1 DEF AckedWasSent
<1>4. CASE UNCHANGED acked
  BY <1>1, <1>2, <1>4 DEF AckedWasSent
<1>5. ASSUME NEW j \in Job, Submit(j), ~HandToActor(j)
      PROVE  UNCHANGED acked
  BY <1>5 DEF Submit, SubmitMissing, SubmitNew, SubmitRefused, SubmitKnown, AskPending,
              AlreadyPending, NotPending, FindActor, ReadNextNonce, NextNonceUnavailable,
              SpawnActor, AskActor, RefuseLow, histVars
<1>6. NodeStep \/ UNCHANGED nodeVars => UNCHANGED acked
  BY PipelineFrame, DlqFrame DEF NodeStep, PipelineStep, RowWritten, Mine, nodeVars, histVars
<1>. QED  BY <1>3, <1>4, <1>5, <1>6 DEF NodeNext, NodeRest

LEMMA NodeAckedWasSent == NodeSpec => []AckedWasSent
<1>1. NodeInit => AckedWasSent  BY DEF NodeInit, AckedWasSent
<1>2. UpInv /\ AckedWasSent /\ [NodeNext]_nodeVars => AckedWasSent'
  BY StepActors, StepAckedWasSent DEF UpInv, NodeInv
<1>. QED  BY <1>1, <1>2, NodeStaysUp, PTL DEF NodeSpec

\* When nothing is left to do, a nonce still reported as pending is that of a
\* job held up for ever, of a dead letter, or of a job whose worker may have
\* panicked (intake.rs:313-314, execute.rs:138-153).
THEOREM PendingAtRestIsDeadHolds == NodeSpec => []PendingAtRestIsDead
<1>1. UpInv /\ PendingIsHeld /\ AckedWasSent => PendingAtRestIsDead
  <2>1. SUFFICES ASSUME UpInv, PendingIsHeld, AckedWasSent, AtRest, NEW n \in pendingJobs, ~HeldUp(n)
                 PROVE  \E j \in Job : Nonce[j] = n /\ (relay[j] = "dead" \/ j \in MayFail)
    BY DEF PendingAtRestIsDead
  <2>2. PICK j \in Job : Nonce[j] = n /\ (Held(j) \/ j \in MayFail)
    BY <2>1 DEF PendingIsHeld
  <2>3. Quiet  BY <2>1 DEF AtRest, NothingLeftToDo
  <2>4. /\ TypeOK /\ InTurn /\ AcceptedIsAccounted
        /\ Nonce \in [Job -> Nat] /\ Ordered \subseteq Job /\ NoJob \notin Job
    BY <2>1, JobAssumption DEF UpInv, ActorsInv
  <2>5. ASSUME j \notin MayFail, relay[j] # "dead"
        PROVE  FALSE
    <3>1. Len(execRx) = 0 /\ Len(relayRx) = 0  BY <2>3 DEF Quiet
    <3>2. Waits(j) /\ j \in completedTasks
      BY <2>2, <2>3, <2>4, <2>5, <3>1 DEF Held, Waits, Quiet, InRelayRx, Queued
    <3>3. Nonce[j] >= nextJobToSubmit /\ Nonce[j] # nextJobToSubmit
      BY <2>4, <3>2 DEF Waits, InTurn, NextNeverWaits, TypeOK
    <3>4. nextJobToSubmit \in FirstNonce..(n - 1)
      <4>1. FirstNonce \in Nat /\ nextJobToSubmit \in Nat /\ NextToSettle <= nextJobToSubmit
        BY <2>4, NonceAssumption DEF InTurn, NoGap, TypeOK
      <4>2. Len(settled) \in Nat  BY <2>4 DEF TypeOK
      <4>3. FirstNonce <= nextJobToSubmit  BY <4>1, <4>2 DEF NextToSettle
      <4>4. n \in Nat  BY <2>2, <2>4
      <4>. QED  BY <2>2, <3>3, <4>1, <4>3, <4>4
    <3>5. PICK k \in (Ordered \ MayFail) \cap acked : Nonce[k] = nextJobToSubmit
      BY <2>1, <3>4 DEF HeldUp
    <3>6. call[k] = "sent"  BY <2>1 DEF AckedWasSent
    <3>7. ~(Nonce[k] < nextJobToSubmit)
      BY <2>4, <3>5 DEF TypeOK
    <3>8. \A i \in completedTasks : Nonce[i] # Nonce[k]
      BY <2>4, <3>5 DEF InTurn, NextNeverWaits
    <3>9. ~Queued("Exec", k) /\ task[k] \notin {"executing", "ok"} /\ sending \notin Ordered
      BY <2>3, <2>4, <3>1 DEF Quiet, Queued
    <3>. QED  BY <2>4, <3>6, <3>7, <3>8, <3>9 DEF AcceptedIsAccounted
  <2>. QED  BY <2>2, <2>5
<1>. QED  BY <1>1, NodeStaysUp, NodeAckedWasSent, NodeRunsActors, PendingIsAccounted, PTL

-----------------------------------------------------------------------------
(* The last word on a job is that it is relayed. *)

\* The relay actor is done with job j.
Decided(j) == relay[j] \in {"reported", "dead"}

SavedInv == \A j \in unsaved : relay[j] = "reported"

\* A call that has not decided yet whether its row is new has sent nothing.
FreshCalls == \A j \in Job : intake[j] \in {"idle", "missing", "known"} => call[j] = "new"

RowsInv ==
    \A n \in Nonces : jobTable[n] # NoRow =>
        /\ Nonce[jobTable[n].job] = n
        /\ jobTable[n].status = "Relayed" => Decided(jobTable[n].job)

SaysRelayed(write) == write.kind = "job" /\ write.row.status = "Relayed"

\* Once a job is recorded as relayed, or about to be, nothing else of it is on
\* the way to the job table.
LastWordInv ==
    /\ \A i \in 1..Len(writerRx) : SaysRelayed(writerRx[i]) => Decided(writerRx[i].row.job)
    /\ \A i, k \in 1..Len(writerRx) :
          i < k /\ SaysRelayed(writerRx[i]) /\ writerRx[k].kind = "job"
                /\ writerRx[k].row.job = writerRx[i].row.job
             => SaysRelayed(writerRx[k])
    /\ \A n \in Nonces : jobTable[n] # NoRow /\ jobTable[n].status = "Relayed" =>
          \A k \in 1..Len(writerRx) :
             writerRx[k].kind = "job" /\ writerRx[k].row.job = jobTable[n].job
                => SaysRelayed(writerRx[k])

FinalInv == SavedInv /\ FreshCalls /\ RowsInv /\ LastWordInv

LEMMA InitFinal == NodeInit => FinalInv
  BY DEF NodeInit, Init, TablesInit, FinalInv, SavedInv, FreshCalls, RowsInv, LastWordInv

\* A job write says "Relayed" if and only if the job is decided.
LastWord(write) == write.kind = "job" => (SaysRelayed(write) <=> Decided(write.row.job))

DecidedStay == \A j \in Job : Decided(j) => Decided(j)'

LEMMA StepFreshCalls ==
  ASSUME NodeTypes, FreshCalls, [NodeNext]_nodeVars
  PROVE  FreshCalls'
<1>1. intake \in [Job -> IntakePhase] /\ call \in [Job -> CallState]
  BY DEF NodeTypes, IntakeTypes, TypeOK
<1>2. ASSUME NEW j \in Job, Submit(j)
      PROVE  FreshCalls'
  <2>1. \A k \in Job : k # j => intake'[k] = intake[k] /\ call'[k] = call[k]
    BY <1>1, <1>2
       DEF Submit, SubmitMissing, SubmitNew, SubmitRefused, SubmitKnown, AskPending, AlreadyPending,
           NotPending, FindActor, ReadNextNonce, NextNonceUnavailable, SpawnActor, AskActor,
           RefuseLow, HandToActor, Goto, WriteUnlessMatched, WritePending, CheckPending,
           SkipPending, Resubmit, AskNextNonce, RejectLowNonce, SendExec, intakeVars, vars, callVars
  <2>2. CASE SubmitKnown(j) \/ SubmitMissing(j)
    <3>1. intake[j] = "idle" /\ UNCHANGED call
      BY <2>2 DEF SubmitKnown, SubmitMissing, vars, callVars
    <3>. QED  BY <2>1, <3>1 DEF FreshCalls
  <2>3. CASE ~SubmitKnown(j) /\ ~SubmitMissing(j)
    <3>1. intake'[j] \notin {"idle", "missing", "known"}
      BY <1>1, <1>2, <2>3
         DEF Submit, SubmitNew, SubmitRefused, AskPending, AlreadyPending, NotPending, FindActor,
             ReadNextNonce, NextNonceUnavailable, SpawnActor, AskActor, RefuseLow, HandToActor,
             Goto, WriteUnlessMatched, WritePending, intakeVars
    <3>. QED  BY <2>1, <3>1 DEF FreshCalls
  <2>. QED  BY <2>2, <2>3
<1>3. CASE RowWritten
  <2>1. UNCHANGED call  BY <1>3, CallFrame
  <2>2. \A k \in Job : intake'[k] = intake[k] \/ intake'[k] = "routing"
    BY <1>1, <1>3 DEF RowWritten
  <2>. QED  BY <2>1, <2>2 DEF FreshCalls
<1>4. CASE PipelineStep \/ DlqWakes \/ DlqStep \/ Mine
  <2>1. UNCHANGED call  BY <1>4, CallFrame
  <2>2. UNCHANGED intake  BY <1>4, PipelineFrame, DlqFrame DEF Mine, intakeVars
  <2>. QED  BY <2>1, <2>2 DEF FreshCalls
<1>5. CASE UNCHANGED nodeVars
  BY <1>5 DEF FreshCalls, nodeVars, intakeVars, vars, callVars
<1>. QED
  BY <1>2, <1>3, <1>4, <1>5 DEF NodeNext, NodeStep, NodeRest, PipelineStep

LEMMA StepSaved ==
  ASSUME ActorsInv, SavedInv, NodeTypes, [Next]_vars, [NodeNext]_nodeVars
  PROVE  SavedInv'
<1>1. \A j \in Job : relay[j] = "reported" => relay'[j] = "reported"
  BY DecidedStays DEF ActorsInv
<1>2. unsaved \subseteq Job  BY DEF NodeTypes, TransactionTypes
<1>3. ASSUME NEW j \in Job, Report(j)
      PROVE  SavedInv'
  <2>1. unsaved' = unsaved \cup {j} /\ relay'[j] = "reported"
    BY <1>3 DEF Report, ReportRelayed, ActorsInv, TypeOK
  <2>. QED  BY <1>1, <1>2, <2>1 DEF SavedInv
<1>4. CASE unsaved' \subseteq unsaved
  BY <1>1, <1>2, <1>4 DEF SavedInv
<1>5. ASSUME NEW j \in Job, Submit(j)
      PROVE  UNCHANGED unsaved
  BY <1>5 DEF Submit, SubmitMissing, SubmitNew, SubmitRefused, SubmitKnown, AskPending,
              AlreadyPending, NotPending, FindActor, ReadNextNonce, NextNonceUnavailable,
              SpawnActor, AskActor, RefuseLow, HandToActor, txVars
<1>6. ASSUME NEW j \in Job, RelayResult(j), ~Report(j)
      PROVE  unsaved' \subseteq unsaved
  BY <1>6 DEF RelayResult, Broadcast, ReceiptArrives, AttemptFails, LastAttemptFails, SaveRelayed
<1>7. ASSUME NEW j \in Job, WorkerPanics(j) \/ \E result \in {"ok", "err"} : Work(j, result)
      PROVE  UNCHANGED unsaved
  BY <1>7 DEF WorkerPanics, Work, txVars
<1>8. ActorStep \/ StartRelay \/ DlqWakes \/ DlqStep \/ RowWritten \/ Mine \/ UNCHANGED nodeVars
         => UNCHANGED unsaved
  BY DlqFrame DEF ActorStep, StartRelay, RowWritten, Mine, nodeVars, txVars
<1>. QED
  BY <1>3, <1>4, <1>5, <1>6, <1>7, <1>8 DEF NodeNext, NodeStep, NodeRest

\* Whatever a step but the writer's sends about a job is the last word on it.
LEMMA StepSendsLast ==
  ASSUME NodeInv, ActorsInv, DeadLetterInv, SavedInv, FreshCalls, NotWriterStep
  PROVE  UNCHANGED writerRx \/ \E w : ToWriter(w) /\ LastWord(w)
<1>1. \A j \in Job : Decided(j) => call[j] = "sent" /\ task[j] = "joined"
  BY DEF ActorsInv, OnceThrough, OnePlace, PastJoin, Decided
<1>2. ASSUME NEW j, NEW status, NEW ack, status = "Relayed" <=> Decided(j),
             ToWriter(JobWrite(j, status, ack))
      PROVE  \E w : ToWriter(w) /\ LastWord(w)
  <2>1. LastWord(JobWrite(j, status, ack))
    BY <1>2 DEF JobWrite, LastWord, SaysRelayed
  <2>. QED  BY <1>2, <2>1
<1>3. ASSUME NEW w, ToWriter(w), w.kind # "job"
      PROVE  \E x : ToWriter(x) /\ LastWord(x)
  BY <1>3 DEF LastWord
<1>4. ASSUME NEW j \in Job, Submit(j)
      PROVE  UNCHANGED writerRx \/ \E w : ToWriter(w) /\ LastWord(w)
  <2>1. \/ UNCHANGED writerRx
        \/ /\ call[j] # "sent"
           /\ ToWriter(JobWrite(j, "Pending", j)) \/ ToWriter(JobWrite(j, "Failed", NoJob))
    BY <1>4
       DEF Submit, SubmitMissing, SubmitNew, SubmitRefused, SubmitKnown, AskPending, AlreadyPending,
           NotPending, FindActor, ReadNextNonce, NextNonceUnavailable, SpawnActor, AskActor,
           RefuseLow, HandToActor, WriteUnlessMatched, WritePending, Resubmit, RejectLowNonce,
           FreshCalls
  <2>. QED  BY <1>1, <1>2, <2>1
<1>5. ASSUME NEW j \in Job, SaveRelayed(j)
      PROVE  \E w : ToWriter(w) /\ LastWord(w)
  <2>1. ToWriter(JobWrite(j, "Relayed", NoJob)) /\ Decided(j)
    BY <1>5 DEF SaveRelayed, SavedInv, Decided
  <2>. QED  BY <1>2, <2>1
<1>6. ASSUME NEW j \in Job, NEW result \in {"ok", "err"}, Work(j, result)
      PROVE  \E w : ToWriter(w) /\ LastWord(w)
  <2>1. PICK status \in {"Done", "Failed"} : ToWriter(JobWrite(j, status, NoJob))
    BY <1>6 DEF Work
  <2>2. ~Decided(j)  BY <1>1, <1>6 DEF Work, Execute
  <2>. QED  BY <1>2, <2>1, <2>2
<1>7. ASSUME NEW j \in Job, LastAttemptFails(j)
      PROVE  \E w : ToWriter(w) /\ LastWord(w)
  BY <1>3, <1>7 DEF LastAttemptFails, FailureWrite
<1>8. ASSUME NEW j \in Job,
             Broadcast(j) \/ ReceiptArrives(j) \/ AttemptFails(j) \/ Report(j) \/ WorkerPanics(j)
      PROVE  UNCHANGED writerRx
  BY <1>8 DEF Broadcast, ReceiptArrives, AttemptFails, Report, WorkerPanics
<1>9. ActorStep \/ StartRelay \/ Mine \/ DlqWakes \/ DlqBroadcasts \/ DlqSleeps => UNCHANGED writerRx
  BY DEF ActorStep, StartRelay, Mine, DlqWakes, DlqBroadcasts, DlqSleeps
<1>10. CASE DlqReceipt
  <2>1. ToWriter(JobWrite(dlq.current.job, "Relayed", "dlq")) /\ Decided(dlq.current.job)
    BY <1>10 DEF DlqReceipt, DeadLetterInv, Decided
  <2>. QED  BY <1>2, <2>1
<1>11. CASE DlqFails
  <2>1. PICK row \in IF dlq.pc = "inflight" THEN {dlq.current} ELSE dlq.batch :
           UNCHANGED writerRx \/ ToWriter(FailureWrite(row.job, row.retries + 1, "dlq"))
    BY <1>11 DEF DlqFails
  <2>2. FailureWrite(row.job, row.retries + 1, "dlq").kind # "job"  BY DEF FailureWrite
  <2>. QED  BY <1>3, <2>1, <2>2
<1>12. CASE DlqDeletes
  <2>1. PICK j \in dlq.delete : ToWriter(DeleteWrite(j))  BY <1>12 DEF DlqDeletes
  <2>2. DeleteWrite(j).kind # "job"  BY DEF DeleteWrite
  <2>. QED  BY <1>3, <2>1, <2>2
<1>. QED
  BY <1>4, <1>5, <1>6, <1>7, <1>8, <1>9, <1>10, <1>11, <1>12
     DEF NotWriterStep, PipelineStep, RelayResult, DlqStep

LEMMA SentLast ==
  ASSUME NodeTypes, QueueInv, RowsInv, LastWordInv, DecidedStay, UNCHANGED jobTable,
         NEW w, ToWriter(w), LastWord(w), w.kind = "job" => w.row.job \in Job
  PROVE  LastWordInv'
<1>. DEFINE S == NodeWrites \cup {w}
            new == Len(writerRx) + 1
<1>1. writerRx \in Seq(S)
  <2>1. NodeWrites \subseteq S  OBVIOUS
  <2>. HIDE DEF S
  <2>. QED  BY <2>1, SeqMonotonic DEF QueueInv
<1>2. w \in S  OBVIOUS
<1>3. \A i \in 1..Len(writerRx) : writerRx[i].kind = "job" => writerRx[i].row.job \in Job
  <2>1. \A x \in NodeWrites : x.row.job \in Job
    BY DEF NodeWrites, JobWrites, FailureWrites, DeleteWrites, Row, DlqRow
  <2>2. \A i \in 1..Len(writerRx) : writerRx[i] \in NodeWrites
    BY DEF QueueInv
  <2>. QED  BY <2>1, <2>2
<1>. HIDE DEF S
<1>4. /\ Len(writerRx) \in Nat /\ Len(writerRx') = new
      /\ \A i \in 1..Len(writerRx) : writerRx'[i] = writerRx[i]
      /\ writerRx'[new] = w
  BY <1>1, <1>2, AppendFacts DEF ToWriter
<1>5. \A i \in 1..Len(writerRx') : i \in 1..Len(writerRx) \/ i = new
  BY <1>4
<1>. HIDE DEF new
<1>6. ASSUME NEW i \in 1..Len(writerRx'), SaysRelayed(writerRx'[i])
      PROVE  relay'[writerRx'[i].row.job] \in {"reported", "dead"}
  <2>1. PICK x : x = writerRx'[i]  OBVIOUS
  <2>2. x.row.job \in Job /\ Decided(x.row.job)
    BY <1>3, <1>4, <1>5, <1>6, <2>1 DEF LastWordInv, LastWord, SaysRelayed
  <2>. QED  BY <2>1, <2>2 DEF DecidedStay, Decided
<1>7. ASSUME NEW i \in 1..Len(writerRx'), NEW k \in 1..Len(writerRx'), i < k,
             SaysRelayed(writerRx'[i]), writerRx'[k].kind = "job",
             writerRx'[k].row.job = writerRx'[i].row.job
      PROVE  SaysRelayed(writerRx'[k])
  <2>1. i \in 1..Len(writerRx) /\ writerRx'[i] = writerRx[i]
    BY <1>4, <1>5, <1>7 DEF new
  <2>2. CASE k = new
    BY <1>4, <1>7, <2>1, <2>2 DEF LastWordInv, LastWord
  <2>3. CASE k # new
    <3>1. k \in 1..Len(writerRx) /\ writerRx'[k] = writerRx[k]  BY <1>4, <1>5, <2>3
    <3>. QED  BY <1>7, <2>1, <3>1 DEF LastWordInv
  <2>. QED  BY <2>2, <2>3
<1>8. ASSUME NEW n \in Nonces, jobTable[n] # NoRow, jobTable[n].status = "Relayed",
             NEW k \in 1..Len(writerRx'), writerRx'[k].kind = "job",
             writerRx'[k].row.job = jobTable[n].job
      PROVE  SaysRelayed(writerRx'[k])
  <2>1. CASE k = new
    BY <1>4, <1>8, <2>1 DEF RowsInv, LastWord
  <2>2. CASE k # new
    BY <1>4, <1>5, <1>8, <2>2 DEF LastWordInv
  <2>. QED  BY <2>1, <2>2
<1>. QED  BY <1>6, <1>7, <1>8 DEF LastWordInv, SaysRelayed, Decided

LEMMA LastFrame ==
  ASSUME NodeTypes, QueueInv, RowsInv, LastWordInv, DecidedStay, UNCHANGED <<jobTable, writerRx>>
  PROVE  LastWordInv'
<1>1. \A x \in NodeWrites : x.row.job \in Job
  BY DEF NodeWrites, JobWrites, FailureWrites, DeleteWrites, Row, DlqRow
<1>2. \A i \in 1..Len(writerRx) : writerRx[i].row.job \in Job
  BY <1>1 DEF QueueInv
<1>. QED  BY <1>2 DEF LastWordInv, DecidedStay, SaysRelayed

LEMMA RowsFrame ==
  ASSUME NodeTypes, RowsInv, DecidedStay, UNCHANGED jobTable
  PROVE  RowsInv'
<1>1. \A n \in Nonces : jobTable[n] # NoRow => jobTable[n].job \in Job
  BY DEF NodeTypes, DatabaseTypes, Row
<1>. QED  BY <1>1 DEF RowsInv, DecidedStay

LEMMA RowFinal ==
  ASSUME NodeTypes, QueueInv, RowsInv, LastWordInv, RowWritten
  PROVE  RowsInv' /\ LastWordInv'
<1>. DEFINE write == Head(writerRx)
            n == Nonce[write.row.job]
<1>1. /\ jobTable' = IF write.kind = "job" THEN [jobTable EXCEPT ![n] = write.row] ELSE jobTable
      /\ UNCHANGED relay
      /\ writerRx # <<>> /\ writerRx' = Tail(writerRx)
  BY DEF RowWritten, vars, relayVars
<1>2. /\ Len(writerRx) \in Nat \ {0} /\ write = writerRx[1]
      /\ Len(writerRx') = Len(writerRx) - 1
      /\ \A i \in 1..(Len(writerRx) - 1) : writerRx'[i] = writerRx[i + 1]
  BY <1>1, TailFacts DEF QueueInv
<1>3. \A i \in 1..Len(writerRx') : /\ i + 1 \in 1..Len(writerRx) /\ 1 < i + 1
                                   /\ writerRx'[i] = writerRx[i + 1]
  BY <1>2
<1>4. /\ 1 \in 1..Len(writerRx)
      /\ SaysRelayed(write) => Decided(write.row.job)
      /\ jobTable \in [Nonces -> Row \cup {NoRow}]
  BY <1>2 DEF LastWordInv, NodeTypes, DatabaseTypes
<1>. HIDE DEF write
<1>5. \A m \in Nonces : jobTable'[m] = jobTable[m]
                        \/ (write.kind = "job" /\ m = n /\ jobTable'[m] = write.row)
  BY <1>1, <1>4
<1>6. RowsInv'
  BY <1>1, <1>4, <1>5 DEF RowsInv, SaysRelayed, Decided
<1>7. \A i \in 1..Len(writerRx') : SaysRelayed(writerRx'[i]) => Decided(writerRx'[i].row.job)
  BY <1>3 DEF LastWordInv
<1>8. ASSUME NEW i \in 1..Len(writerRx'), NEW k \in 1..Len(writerRx'), i < k,
             SaysRelayed(writerRx'[i]), writerRx'[k].kind = "job",
             writerRx'[k].row.job = writerRx'[i].row.job
      PROVE  SaysRelayed(writerRx'[k])
  <2>1. i + 1 < k + 1  BY <1>2, <1>8
  <2>. QED  BY <1>3, <1>8, <2>1 DEF LastWordInv
<1>9. ASSUME NEW m \in Nonces, jobTable'[m] # NoRow, jobTable'[m].status = "Relayed",
             NEW k \in 1..Len(writerRx'), writerRx'[k].kind = "job",
             writerRx'[k].row.job = jobTable'[m].job
      PROVE  SaysRelayed(writerRx'[k])
  <2>1. k + 1 \in 1..Len(writerRx) /\ 1 < k + 1 /\ writerRx'[k] = writerRx[k + 1]
    BY <1>3
  <2>2. CASE jobTable'[m] = jobTable[m]
    BY <1>9, <2>1, <2>2 DEF LastWordInv
  <2>3. CASE write.kind = "job" /\ jobTable'[m] = write.row
    <3>1. SaysRelayed(writerRx[1]) /\ writerRx[1].row = jobTable'[m]
      BY <1>2, <1>9, <2>3 DEF SaysRelayed
    <3>. QED  BY <1>4, <1>9, <2>1, <3>1 DEF LastWordInv
  <2>. QED  BY <1>5, <2>2, <2>3
<1>. QED  BY <1>1, <1>6, <1>7, <1>8, <1>9 DEF LastWordInv, SaysRelayed, Decided

LEMMA StepFinal ==
  ASSUME UpInv, UpInv', FinalInv, [NodeNext]_nodeVars
  PROVE  FinalInv'
<1>1. [Next]_vars  BY StepActors DEF UpInv
<1>2. DecidedStay
  BY <1>1, DecidedStays DEF UpInv, ActorsInv, DecidedStay, Decided
<1>3. SavedInv' /\ FreshCalls'
  BY <1>1, StepSaved, StepFreshCalls DEF UpInv, NodeInv, FinalInv
<1>4. CASE RowWritten
  BY <1>3, <1>4, RowFinal DEF UpInv, NodeInv, FinalInv
<1>5. CASE ~RowWritten
  <2>1. UNCHANGED jobTable
    <3>1. ASSUME NEW j \in Job, Submit(j) PROVE UNCHANGED jobTable
      BY <3>1 DEF Submit, SubmitMissing, SubmitNew, SubmitRefused, SubmitKnown, AskPending,
                  AlreadyPending, NotPending, FindActor, ReadNextNonce, NextNonceUnavailable,
                  SpawnActor, AskActor, RefuseLow, HandToActor, dbVars
    <3>2. NodeStep \/ UNCHANGED nodeVars => UNCHANGED jobTable
      BY <1>5, PipelineFrame, DlqFrame DEF NodeStep, PipelineStep, Mine, nodeVars, dbVars
    <3>. QED  BY <3>1, <3>2 DEF NodeNext, NodeRest
  <2>2. RowsInv'  BY <1>2, <2>1, RowsFrame DEF UpInv, NodeInv, FinalInv
  <2>3. UNCHANGED writerRx \/ \E w : ToWriter(w) /\ LastWord(w)
    <3>1. NotWriterStep \/ UNCHANGED nodeVars
      BY <1>5 DEF NodeNext, NodeStep, NodeRest, NotWriterStep, PipelineStep
    <3>2. UNCHANGED nodeVars => UNCHANGED writerRx  BY DEF nodeVars
    <3>. QED  BY <3>1, <3>2, StepSendsLast DEF UpInv, FinalInv
  <2>4. LastWordInv'
    <3>1. CASE UNCHANGED writerRx
      BY <1>2, <2>1, <3>1, LastFrame DEF UpInv, NodeInv, FinalInv
    <3>2. ASSUME NEW w, ToWriter(w), LastWord(w)
          PROVE  LastWordInv'
      <4>1. w \in NodeWrites'
        <5>. DEFINE S == NodeWrites \cup {w}
        <5>1. NodeWrites \subseteq S /\ w \in S  OBVIOUS
        <5>. HIDE DEF S
        <5>2. writerRx \in Seq(S)  BY <5>1, SeqMonotonic DEF UpInv, QueueInv
        <5>3. writerRx'[Len(writerRx')] = w /\ Len(writerRx') \in Nat \ {0}
          BY <3>2, <5>1, <5>2, AppendFacts DEF ToWriter
        <5>4. writerRx' \in Seq(NodeWrites')  BY DEF UpInv, QueueInv
        <5>. QED  BY <5>3, <5>4
      <4>2. w.row.job \in Job
        BY <4>1 DEF NodeWrites, JobWrites, FailureWrites, DeleteWrites, Row, DlqRow
      <4>. QED  BY <1>2, <2>1, <3>2, <4>2, SentLast DEF UpInv, NodeInv, FinalInv
    <3>. QED  BY <2>3, <3>1, <3>2
  <2>. QED  BY <1>3, <2>2, <2>4 DEF FinalInv
<1>. QED  BY <1>4, <1>5

\* Once the row of a job submitted once says that it is relayed, it says so
\* for good: no write of a worker, of the DLQ or of a call of submit_job comes
\* late (db/src/lib.rs, intake.rs:119-262, relayer.rs:102-199).
THEOREM RelayedIsFinalHolds == NodeSpec => RelayedIsFinal
<1>1. NodeSpec => []FinalInv
  <2>1. UpInv /\ UpInv' /\ FinalInv /\ [NodeNext]_nodeVars => FinalInv'
    BY StepFinal
  <2>. QED  BY <2>1, InitFinal, NodeStaysUp, PTL DEF NodeSpec
<1>2. UpInv /\ FinalInv /\ [NodeNext]_nodeVars =>
        [\A j \in Job : Sole(j) /\ Found(j) /\ jobTable[Nonce[j]].status = "Relayed"
                           => jobTable'[Nonce[j]].status = "Relayed"]_nodeVars
  <2>1. SUFFICES ASSUME UpInv, FinalInv, NodeNext, NEW j \in Job, Sole(j), Found(j),
                        jobTable[Nonce[j]].status = "Relayed"
                 PROVE  jobTable'[Nonce[j]].status = "Relayed"
    OBVIOUS
  <2>2. CASE RowWritten
    <3>. DEFINE write == Head(writerRx)
                n == Nonce[j]
    <3>1. /\ write \in NodeWrites /\ write = writerRx[1] /\ 1 \in 1..Len(writerRx)
          /\ jobTable' = IF write.kind = "job"
                         THEN [jobTable EXCEPT ![Nonce[write.row.job]] = write.row] ELSE jobTable
      BY <2>1, <2>2, TailFacts DEF RowWritten, UpInv, QueueInv
    <3>2. write.row.job \in Job
      BY <3>1 DEF NodeWrites, JobWrites, FailureWrites, DeleteWrites, Row, DlqRow
    <3>3. n \in Nonces /\ jobTable[n] # NoRow /\ jobTable \in [Nonces -> Row \cup {NoRow}]
      BY <2>1 DEF Nonces, Found, UpInv, NodeInv, NodeTypes, DatabaseTypes
    <3>4. jobTable[n].job = j
      BY <2>1, <3>3 DEF Row, Sole, FinalInv, RowsInv
    <3>. HIDE DEF write
    <3>5. CASE write.kind = "job" /\ Nonce[write.row.job] = n
      <4>1. write.row.job = j  BY <2>1, <3>2, <3>5 DEF Sole
      <4>2. write.row.status = "Relayed"
        BY <2>1, <3>1, <3>3, <3>4, <3>5, <4>1 DEF FinalInv, LastWordInv, SaysRelayed
      <4>. QED  BY <3>1, <3>3, <3>5, <4>2
    <3>6. CASE ~(write.kind = "job" /\ Nonce[write.row.job] = n)
      BY <2>1, <3>1, <3>3, <3>6
    <3>. QED  BY <3>5, <3>6
  <2>3. CASE ~RowWritten
    <3>1. ASSUME NEW k \in Job, Submit(k) PROVE UNCHANGED jobTable
      BY <3>1 DEF Submit, SubmitMissing, SubmitNew, SubmitRefused, SubmitKnown, AskPending,
                  AlreadyPending, NotPending, FindActor, ReadNextNonce, NextNonceUnavailable,
                  SpawnActor, AskActor, RefuseLow, HandToActor, dbVars
    <3>2. NodeStep \/ UNCHANGED nodeVars => UNCHANGED jobTable
      BY <2>3, PipelineFrame, DlqFrame DEF NodeStep, PipelineStep, Mine, nodeVars, dbVars
    <3>. QED  BY <2>1, <3>1, <3>2 DEF NodeNext, NodeRest
  <2>. QED  BY <2>2, <2>3
<1>. QED  BY <1>1, <1>2, NodeStaysUp, PTL DEF NodeSpec, RelayedIsFinal

-----------------------------------------------------------------------------
(* The dead letter queue deletes the rows it is done with. *)

\* The DLQ task waits for one write at a time, and deletes after the pass.
DlqShape ==
    /\ dlq.pc = "asleep" => dlq.batch = {} /\ dlq.delete = {}
    /\ dlq.pc = "inflight" => dlq.current \notin dlq.batch
    /\ \A i \in 1..Len(writerRx) : writerRx[i].ack = "dlq" => dlq.pc = "saving"
    /\ \A i, k \in 1..Len(writerRx) :
          writerRx[i].ack = "dlq" /\ writerRx[k].ack = "dlq" => i = k
    /\ \A i \in 1..Len(writerRx) : writerRx[i].kind = "delete" => dlq.batch = {}

\* The row of nonce n that the DLQ task has yet to deal with in this pass.
InHand(n) ==
    {row \in dlq.batch \cup (IF dlq.pc = "inflight" THEN {dlq.current} ELSE {}) :
        Nonce[row.job] = n}

ToDelete(n) == {j \in dlq.delete : Nonce[j] = n}

Queues(kind, n, i) == writerRx[i].kind = kind /\ Nonce[writerRx[i].row.job] = n

MayDrop(n) == n \in MinedNonces \/ LastRetry(n)

\* A row in the hands of the DLQ task is the one in the table; it is deleted
\* when it may be; the relay actor's row comes before all that.
Kept(n) ==
    /\ \A row \in InHand(n) : failureJobs[n] = row
    /\ InHand(n) # {} => ToDelete(n) = {}
    /\ ToDelete(n) # {} => MayDrop(n)
    /\ \A i \in 1..Len(writerRx) : Queues("delete", n, i) => MayDrop(n) /\ ToDelete(n) = {}
    /\ \A i \in 1..Len(writerRx) : Queues("failure", n, i) => InHand(n) = {} /\ ToDelete(n) = {}
    /\ \A i \in 1..Len(writerRx) : Queues("failure", n, i) /\ writerRx[i].ack # "dlq" =>
          /\ failureJobs[n] = NoRow
          /\ \A k \in 1..Len(writerRx) :
                Queues("failure", n, k) \/ Queues("delete", n, k) => k = i

KeptInv == \A n \in Nonces : Unshared(n) => Kept(n)

LEMMA Sent ==
  ASSUME QueueInv, NEW w, ToWriter(w)
  PROVE  /\ Len(writerRx) \in Nat /\ Len(writerRx') = Len(writerRx) + 1
         /\ \A i \in 1..Len(writerRx) : writerRx'[i] = writerRx[i]
         /\ writerRx'[Len(writerRx) + 1] = w
         /\ \A i \in 1..Len(writerRx') : i \in 1..Len(writerRx) \/ i = Len(writerRx) + 1
<1>. DEFINE S == NodeWrites \cup {w}
<1>1. NodeWrites \subseteq S /\ w \in S  OBVIOUS
<1>. HIDE DEF S
<1>2. writerRx \in Seq(S)  BY <1>1, SeqMonotonic DEF QueueInv
<1>. QED  BY <1>1, <1>2, AppendFacts DEF ToWriter

LEMMA Written ==
  ASSUME QueueInv, RowWritten
  PROVE  /\ Len(writerRx) \in Nat \ {0} /\ Len(writerRx') = Len(writerRx) - 1
         /\ Head(writerRx) = writerRx[1] /\ 1 \in 1..Len(writerRx)
         /\ \A i \in 1..Len(writerRx') : /\ i + 1 \in 1..Len(writerRx) /\ i + 1 # 1
                                         /\ writerRx'[i] = writerRx[i + 1]
<1>1. writerRx # <<>> /\ writerRx' = Tail(writerRx)  BY DEF RowWritten
<1>2. /\ Len(writerRx) \in Nat \ {0} /\ Head(writerRx) = writerRx[1]
      /\ Len(writerRx') = Len(writerRx) - 1
      /\ \A i \in 1..(Len(writerRx) - 1) : writerRx'[i] = writerRx[i + 1]
  BY <1>1, TailFacts DEF QueueInv
<1>. QED  BY <1>2

\* What the writes in the channel look like.
LEMMA QueuedWrites ==
  ASSUME QueueInv
  PROVE  \A i \in 1..Len(writerRx) :
            /\ writerRx[i].kind \in {"job", "failure", "delete"}
            /\ writerRx[i].row.job \in Job
            /\ writerRx[i].kind = "failure" => writerRx[i].row \in DlqRow
            /\ writerRx[i].kind = "delete" => writerRx[i].ack = "dlq"
<1>1. \A x \in NodeWrites : /\ x.kind \in {"job", "failure", "delete"}
                            /\ x.row.job \in Job
                            /\ x.kind = "failure" => x.row \in DlqRow
                            /\ x.kind = "delete" => x.ack = "dlq"
  BY DEF NodeWrites, JobWrites, FailureWrites, DeleteWrites, Row, DlqRow
<1>. QED  BY <1>1 DEF QueueInv

\* The steps that leave the tables and the DLQ task alone.
NotDlqStep ==
    \/ \E j \in Job : Submit(j) \/ RelayResult(j) \/ WorkerPanics(j)
                      \/ \E result \in {"ok", "err"} : Work(j, result)
    \/ ActorStep \/ StartRelay \/ Mine \/ UNCHANGED nodeVars

LEMMA NotDlqFrame ==
  ASSUME NodeTypes, NotDlqStep
  PROVE  UNCHANGED <<failureJobs, dlq>> /\ mined \subseteq mined'
<1>1. ASSUME NEW j \in Job, Submit(j)
      PROVE  UNCHANGED <<failureJobs, dlq, onChain, mined>>
  BY <1>1 DEF Submit, SubmitMissing, SubmitNew, SubmitRefused, SubmitKnown, AskPending,
              AlreadyPending, NotPending, FindActor, ReadNextNonce, NextNonceUnavailable,
              SpawnActor, AskActor, RefuseLow, HandToActor, dbVars, chainVars
<1>2. PipelineStep => UNCHANGED <<failureJobs, dlq, onChain, mined>>
  BY PipelineFrame DEF dbVars
<1>3. Mine => UNCHANGED <<failureJobs, dlq>> /\ mined \subseteq mined'
  BY DEF Mine, dbVars
<1>4. UNCHANGED nodeVars => UNCHANGED <<failureJobs, dlq, onChain, mined>>
  BY DEF nodeVars, dbVars, chainVars
<1>. QED  BY <1>1, <1>2, <1>3, <1>4 DEF NotDlqStep, PipelineStep

LEMMA NotDlqSends ==
  ASSUME NotDlqStep
  PROVE  \/ UNCHANGED writerRx
         \/ \E w : ToWriter(w) /\ w.kind = "job" /\ w.ack # "dlq"
         \/ \E j \in Job : LastAttemptFails(j)
<1>1. ASSUME NEW j \in Job, NEW status, NEW ack \in {j, NoJob}, ToWriter(JobWrite(j, status, ack))
      PROVE  \E w : ToWriter(w) /\ w.kind = "job" /\ w.ack # "dlq"
  <2>1. JobWrite(j, status, ack).kind = "job" /\ JobWrite(j, status, ack).ack # "dlq"
    BY RetryAssumption DEF JobWrite
  <2>. QED  BY <1>1, <2>1
<1>2. ASSUME NEW j \in Job, Submit(j)
      PROVE  UNCHANGED writerRx \/ \E w : ToWriter(w) /\ w.kind = "job" /\ w.ack # "dlq"
  <2>1. \/ UNCHANGED writerRx
        \/ ToWriter(JobWrite(j, "Pending", j)) \/ ToWriter(JobWrite(j, "Failed", NoJob))
    BY <1>2 DEF Submit, SubmitMissing, SubmitNew, SubmitRefused, SubmitKnown, AskPending,
                AlreadyPending, NotPending, FindActor, ReadNextNonce, NextNonceUnavailable,
                SpawnActor, AskActor, RefuseLow, HandToActor, WriteUnlessMatched, WritePending
  <2>. QED  BY <1>1, <2>1
<1>3. ASSUME NEW j \in Job, RelayResult(j), ~LastAttemptFails(j)
      PROVE  UNCHANGED writerRx \/ ToWriter(JobWrite(j, "Relayed", NoJob))
  BY <1>3 DEF RelayResult, Broadcast, ReceiptArrives, AttemptFails, Report, SaveRelayed
<1>4. ASSUME NEW j \in Job, NEW result \in {"ok", "err"}, Work(j, result)
      PROVE  \E status \in {"Done", "Failed"} : ToWriter(JobWrite(j, status, NoJob))
  BY <1>4 DEF Work
<1>5. (\E j \in Job : WorkerPanics(j)) \/ ActorStep \/ StartRelay \/ Mine \/ UNCHANGED nodeVars
         => UNCHANGED writerRx
  BY DEF WorkerPanics, ActorStep, StartRelay, Mine, nodeVars
<1>. QED  BY <1>1, <1>2, <1>3, <1>4, <1>5 DEF NotDlqStep

\* A step of the DLQ task: what it holds and what it wrote before it.
LEMMA DlqAwake ==
  ASSUME NodeTypes, DlqShape, DlqWakes \/ DlqStep
  PROVE  \A i \in 1..Len(writerRx) : writerRx[i].ack # "dlq"
<1>1. dlq.pc # "saving"
  <2>1. CASE DlqWakes  BY <2>1 DEF DlqWakes
  <2>2. CASE DlqBroadcasts  BY <2>2 DEF DlqBroadcasts
  <2>3. CASE DlqReceipt  BY <2>3 DEF DlqReceipt
  <2>4. CASE DlqFails  BY <2>4 DEF DlqFails
  <2>5. CASE DlqDeletes  BY <2>5 DEF DlqDeletes
  <2>6. CASE DlqSleeps  BY <2>6 DEF DlqSleeps
  <2>. QED  BY <2>1, <2>2, <2>3, <2>4, <2>5, <2>6 DEF DlqStep
<1>. QED  BY <1>1 DEF DlqShape

\* What the DLQ task sends, if anything, it waits for.
LEMMA DlqWaits ==
  ASSUME NodeTypes, DlqWakes \/ DlqStep
  PROVE  UNCHANGED writerRx \/ (dlq'.pc = "saving" /\ \E w : ToWriter(w) /\ w.ack = "dlq"
                                   /\ (w.kind = "delete" => dlq'.batch = {}))
<1>1. dlq \in DlqState  BY DEF NodeTypes, TransactionTypes
<1>2. CASE DlqWakes \/ DlqBroadcasts \/ DlqSleeps
  <2>1. CASE DlqWakes  BY <2>1 DEF DlqWakes
  <2>2. CASE DlqBroadcasts  BY <2>2 DEF DlqBroadcasts
  <2>3. CASE DlqSleeps  BY <2>3 DEF DlqSleeps
  <2>. QED  BY <1>2, <2>1, <2>2, <2>3
<1>3. CASE DlqReceipt
  <2>1. JobWrite(dlq.current.job, "Relayed", "dlq").ack = "dlq"
        /\ JobWrite(dlq.current.job, "Relayed", "dlq").kind # "delete"
    BY DEF JobWrite
  <2>. QED  BY <1>1, <1>3, <2>1 DEF DlqReceipt, DlqState
<1>4. CASE DlqFails
  <2>1. PICK row \in IF dlq.pc = "inflight" THEN {dlq.current} ELSE dlq.batch :
           \/ UNCHANGED writerRx
           \/ ToWriter(FailureWrite(row.job, row.retries + 1, "dlq")) /\ dlq'.pc = "saving"
    BY <1>1, <1>4 DEF DlqFails, DlqState
  <2>2. FailureWrite(row.job, row.retries + 1, "dlq").ack = "dlq"
        /\ FailureWrite(row.job, row.retries + 1, "dlq").kind # "delete"
    BY DEF FailureWrite
  <2>. QED  BY <1>1, <2>1, <2>2 DEF DlqState
<1>5. CASE DlqDeletes
  <2>1. PICK j \in dlq.delete : ToWriter(DeleteWrite(j)) /\ dlq'.pc = "saving" /\ dlq'.batch = {}
    BY <1>1, <1>5 DEF DlqDeletes, DlqState
  <2>2. DeleteWrite(j).ack = "dlq"  BY DEF DeleteWrite
  <2>. QED  BY <2>1, <2>2
<1>. QED  BY <1>2, <1>3, <1>4, <1>5 DEF DlqStep

LEMMA StepShape ==
  ASSUME NodeInv, QueueInv, DlqShape, [NodeNext]_nodeVars
  PROVE  DlqShape'
<1>1. dlq \in DlqState /\ (dlq.pc = "inflight" => dlq.current \in DlqRow)
  BY DEF NodeInv, NodeTypes, TransactionTypes
<1>2. CASE NotDlqStep
  <2>1. UNCHANGED <<failureJobs, dlq>>  BY <1>2, NotDlqFrame DEF NodeInv
  <2>2. CASE UNCHANGED writerRx  BY <2>1, <2>2 DEF DlqShape
  <2>3. ASSUME NEW w, ToWriter(w), w.kind # "delete", w.ack # "dlq"
        PROVE  DlqShape'
    <3>1. \A i \in 1..Len(writerRx') : writerRx'[i].ack = "dlq" \/ writerRx'[i].kind = "delete"
             => i \in 1..Len(writerRx) /\ writerRx'[i] = writerRx[i]
      BY <2>3, Sent
    <3>. QED  BY <2>1, <3>1 DEF DlqShape
  <2>4. ASSUME NEW j \in Job, LastAttemptFails(j)
        PROVE  DlqShape'
    <3>1. ToWriter(FailureWrite(j, 0, NoJob))  BY <2>4 DEF LastAttemptFails
    <3>2. FailureWrite(j, 0, NoJob).kind # "delete" /\ FailureWrite(j, 0, NoJob).ack # "dlq"
      BY RetryAssumption DEF FailureWrite
    <3>. QED  BY <2>3, <3>1, <3>2
  <2>. QED  BY <1>2, <2>2, <2>3, <2>4, NotDlqSends
<1>3. CASE DlqWakes \/ DlqStep
  <2>1. UNCHANGED failureJobs  BY <1>3, DlqFrame DEF dbVars
  <2>2. \A i \in 1..Len(writerRx) : writerRx[i].ack # "dlq" /\ writerRx[i].kind # "delete"
    BY <1>3, DlqAwake, QueuedWrites DEF NodeInv
  <2>3. /\ dlq'.pc = "asleep" => dlq'.batch = {} /\ dlq'.delete = {}
        /\ dlq'.pc = "inflight" => dlq'.current \notin dlq'.batch
    <3>1. CASE DlqWakes  BY <1>1, <3>1 DEF DlqWakes, DlqState
    <3>2. CASE DlqBroadcasts  BY <1>1, <3>2 DEF DlqBroadcasts, DlqState
    <3>3. CASE DlqReceipt  BY <1>1, <3>3 DEF DlqReceipt, DlqState
    <3>4. CASE DlqFails  BY <1>1, <3>4 DEF DlqFails, DlqState
    <3>5. CASE DlqDeletes  BY <1>1, <3>5 DEF DlqDeletes, DlqState
    <3>6. CASE DlqSleeps  BY <3>6 DEF DlqSleeps, DlqAsleep
    <3>. QED  BY <1>3, <3>1, <3>2, <3>3, <3>4, <3>5, <3>6 DEF DlqStep
  <2>4. CASE UNCHANGED writerRx
    BY <2>1, <2>2, <2>3, <2>4 DEF DlqShape
  <2>5. CASE ~UNCHANGED writerRx
    <3>1. PICK w : /\ ToWriter(w) /\ w.ack = "dlq" /\ dlq'.pc = "saving"
                   /\ w.kind = "delete" => dlq'.batch = {}
      BY <1>3, <2>5, DlqWaits DEF NodeInv
    <3>2. \A i \in 1..Len(writerRx') : writerRx'[i].ack = "dlq" \/ writerRx'[i].kind = "delete"
             => i = Len(writerRx) + 1 /\ writerRx'[i] = w
      BY <2>2, <3>1, Sent
    <3>. QED  BY <2>1, <2>3, <3>1, <3>2 DEF DlqShape
  <2>. QED  BY <2>4, <2>5
<1>4. CASE RowWritten
  <2>1. dlq' = IF writerRx[1].ack = "dlq" THEN [dlq EXCEPT !.pc = "retry"] ELSE dlq
    BY <1>4, Written DEF RowWritten
  <2>2. /\ dlq'.batch = dlq.batch /\ dlq'.delete = dlq.delete /\ dlq'.current = dlq.current
        /\ dlq'.pc = (IF writerRx[1].ack = "dlq" THEN "retry" ELSE dlq.pc)
    BY <1>1, <2>1 DEF DlqState
  <2>3. /\ 1 \in 1..Len(writerRx)
        /\ \A i \in 1..Len(writerRx') : i + 1 \in 1..Len(writerRx) /\ i + 1 # 1
                                        /\ writerRx'[i] = writerRx[i + 1]
        /\ Len(writerRx') \in Nat
    BY <1>4, Written
  <2>4. \A i \in 1..Len(writerRx') : writerRx'[i].ack = "dlq" => dlq'.pc = "saving"
    BY <2>2, <2>3 DEF DlqShape
  <2>5. ASSUME NEW i \in 1..Len(writerRx'), NEW k \in 1..Len(writerRx'),
               writerRx'[i].ack = "dlq", writerRx'[k].ack = "dlq"
        PROVE  i = k
    <3>1. i + 1 = k + 1  BY <2>3, <2>5 DEF DlqShape
    <3>. QED  BY <2>3, <3>1
  <2>6. \A i \in 1..Len(writerRx') : writerRx'[i].kind = "delete" => dlq'.batch = {}
    BY <2>2, <2>3 DEF DlqShape
  <2>. QED  BY <2>2, <2>4, <2>5, <2>6 DEF DlqShape
<1>. QED
  BY <1>2, <1>3, <1>4 DEF NodeNext, NodeStep, NodeRest, NotDlqStep

\* Rows are stored under the nonce of their job.
KeyedInv == \A n \in Nonces : failureJobs[n] # NoRow => Nonce[failureJobs[n].job] = n

LEMMA StepKeyed ==
  ASSUME NodeInv, QueueInv, KeyedInv, [NodeNext]_nodeVars
  PROVE  KeyedInv'
<1>1. CASE RowWritten
  <2>. DEFINE write == Head(writerRx)
              n == Nonce[write.row.job]
  <2>1. /\ failureJobs' = CASE write.kind = "failure" -> [failureJobs EXCEPT ![n] = write.row]
                            [] write.kind = "delete"  -> [failureJobs EXCEPT ![n] = NoRow]
                            [] OTHER                  -> failureJobs
        /\ failureJobs \in [Nonces -> DlqRow \cup {NoRow}]
    BY <1>1 DEF RowWritten, NodeInv, NodeTypes, DatabaseTypes
  <2>. HIDE DEF write
  <2>2. \A m \in Nonces : \/ failureJobs'[m] = failureJobs[m]
                          \/ failureJobs'[m] = NoRow
                          \/ m = n /\ failureJobs'[m] = write.row
    BY <2>1
  <2>. QED  BY <2>2 DEF KeyedInv
<1>2. CASE UNCHANGED failureJobs
  BY <1>2 DEF KeyedInv
<1>. QED
  BY <1>1, <1>2, NotDlqFrame, DlqFrame
     DEF NodeNext, NodeStep, NodeRest, NotDlqStep, NodeInv, dbVars

\* Of the jobs with a nonce that is not shared, the relay actor gets one.
LEMMA OneIsHanded ==
  ASSUME HandedOnce, NEW j \in Job, NEW k \in Job, Nonce[j] = Nonce[k], Unshared(Nonce[j]),
         relay[j] # "none", relay[k] # "none"
  PROVE  j = k
  BY DEF Unshared, HandedOnce, Handed

\* No write to the failure table for nonce n is added to the channel.
NothingNew(n) ==
    \A i \in 1..Len(writerRx') :
        writerRx'[i].kind \in {"failure", "delete"} /\ Nonce[writerRx'[i].row.job] = n
           => i \in 1..Len(writerRx) /\ writerRx'[i] = writerRx[i]

LEMMA SentOther ==
  ASSUME QueueInv, NEW n, NEW w, ToWriter(w), w.kind = "job" \/ Nonce[w.row.job] # n
  PROVE  NothingNew(n)
BY Sent DEF NothingNew

LEMMA NothingSent ==
  ASSUME NEW n, UNCHANGED writerRx
  PROVE  NothingNew(n)
BY DEF NothingNew

\* The DLQ task has less in hand, and deletes what may be dropped.
LEMMA StaysKept ==
  ASSUME NEW n \in Nonces, Kept(n), NothingNew(n), UNCHANGED failureJobs, mined \subseteq mined',
         InHand(n)' \subseteq InHand(n),
         ToDelete(n)' \subseteq ToDelete(n)
            \/ (InHand(n) # {} /\ InHand(n)' = {} /\ MayDrop(n)
                /\ \A i \in 1..Len(writerRx) : ~Queues("delete", n, i))
  PROVE  Kept(n)'
<1>1. MayDrop(n) => MayDrop(n)'
  BY DEF MayDrop, MinedNonces, LastRetry
<1>2. InHand(n)' # {} => ToDelete(n)' = {}
  BY DEF Kept
<1>3. ToDelete(n)' # {} => MayDrop(n)'
  BY <1>1 DEF Kept
<1>4. ASSUME NEW i \in 1..Len(writerRx'), Queues("delete", n, i)'
      PROVE  MayDrop(n)' /\ ToDelete(n)' = {}
  <2>1. i \in 1..Len(writerRx) /\ Queues("delete", n, i)
    BY <1>4 DEF NothingNew, Queues
  <2>. QED  BY <1>1, <2>1 DEF Kept
<1>5. ASSUME NEW i \in 1..Len(writerRx'), Queues("failure", n, i)'
      PROVE  InHand(n)' = {} /\ ToDelete(n)' = {}
  <2>1. i \in 1..Len(writerRx) /\ Queues("failure", n, i)
    BY <1>5 DEF NothingNew, Queues
  <2>. QED  BY <2>1 DEF Kept
<1>6. ASSUME NEW i \in 1..Len(writerRx'), Queues("failure", n, i)', writerRx'[i].ack # "dlq"
      PROVE  /\ failureJobs'[n] = NoRow
             /\ \A k \in 1..Len(writerRx') :
                   Queues("failure", n, k)' \/ Queues("delete", n, k)' => k = i
  <2>1. i \in 1..Len(writerRx) /\ Queues("failure", n, i) /\ writerRx[i].ack # "dlq"
    BY <1>6 DEF NothingNew, Queues
  <2>2. \A k \in 1..Len(writerRx') :
           /\ Queues("failure", n, k)' => k \in 1..Len(writerRx) /\ Queues("failure", n, k)
           /\ Queues("delete", n, k)' => k \in 1..Len(writerRx) /\ Queues("delete", n, k)
    BY DEF NothingNew, Queues
  <2>. QED  BY <2>1, <2>2 DEF Kept
<1>7. \A row \in InHand(n)' : failureJobs'[n] = row
  BY DEF Kept
<1>. QED  BY <1>2, <1>3, <1>4, <1>5, <1>6, <1>7 DEF Kept

LEMMA InitKept == NodeInit => DlqShape /\ KeyedInv /\ KeptInv
<1>. SUFFICES ASSUME NodeInit PROVE DlqShape /\ KeyedInv /\ KeptInv
  OBVIOUS
<1>1. /\ dlq.pc = "asleep" /\ dlq.batch = {} /\ dlq.delete = {}
      /\ failureJobs = [n \in Nonces |-> NoRow] /\ 1..Len(writerRx) = {}
  BY DEF NodeInit, TablesInit, DlqAsleep
<1>2. DlqShape /\ KeyedInv
  BY <1>1 DEF DlqShape, KeyedInv
<1>3. ASSUME NEW n \in Nonces PROVE Kept(n)
  <2>1. InHand(n) = {} /\ ToDelete(n) = {}
    BY <1>1 DEF InHand, ToDelete
  <2>. QED  BY <1>1, <2>1 DEF Kept
<1>. QED  BY <1>2, <1>3 DEF KeptInv

LEMMA OthersKeep ==
  ASSUME NodeInv, QueueInv, NEW n \in Nonces, Kept(n), NotDlqStep,
         \A j \in Job : LastAttemptFails(j) => Nonce[j] # n
  PROVE  Kept(n)'
<1>1. UNCHANGED <<failureJobs, dlq>> /\ mined \subseteq mined'
  BY NotDlqFrame DEF NodeInv
<1>2. InHand(n)' = InHand(n) /\ ToDelete(n)' = ToDelete(n)
  BY <1>1 DEF InHand, ToDelete
<1>3. NothingNew(n)
  <2>1. CASE UNCHANGED writerRx  BY <2>1, NothingSent
  <2>2. ASSUME NEW w, ToWriter(w), w.kind = "job" PROVE NothingNew(n)
    BY <2>2, SentOther
  <2>3. ASSUME NEW j \in Job, LastAttemptFails(j) PROVE NothingNew(n)
    <3>1. ToWriter(FailureWrite(j, 0, NoJob)) /\ Nonce[j] # n
      BY <2>3 DEF LastAttemptFails
    <3>2. FailureWrite(j, 0, NoJob).row.job = j  BY DEF FailureWrite
    <3>. QED  BY <3>1, <3>2, SentOther
  <2>. QED  BY <2>1, <2>2, <2>3, NotDlqSends
<1>. QED  BY <1>1, <1>2, <1>3, StaysKept

\* The relay actor gives up the one job it got with the nonce.
LEMMA GivingUpKeeps ==
  ASSUME NodeInv, QueueInv, DeadLetterInv, DeadQueue, KeyedInv, HandedOnce,
         NEW d \in Job, LastAttemptFails(d), Unshared(Nonce[d])
  PROVE  Kept(Nonce[d])'
<1>. DEFINE n == Nonce[d]
<1>1. relay[d] = "attempting" /\ n \in Nonces
  BY DEF LastAttemptFails, RelayGivesUp, Nonces
<1>2. \A k \in Job : Nonce[k] = n => relay[k] # "dead"
  BY <1>1, OneIsHanded
<1>. HIDE DEF n
<1>3. failureJobs[n] = NoRow
  <2>1. failureJobs[n] # NoRow => failureJobs[n].job \in Job
    BY <1>1 DEF NodeInv, NodeTypes, DatabaseTypes, DlqRow
  <2>. QED  BY <1>1, <1>2, <2>1 DEF KeyedInv, DeadLetterInv
<1>4. InHand(n) = {} /\ ToDelete(n) = {}
  <2>1. /\ \A row \in dlq.batch : row.job \in Job /\ relay[row.job] = "dead"
        /\ dlq.pc = "inflight" => dlq.current.job \in Job /\ relay[dlq.current.job] = "dead"
        /\ \A j \in dlq.delete : j \in Job /\ relay[j] = "dead"
    BY DEF NodeInv, NodeTypes, TransactionTypes, DlqState, DlqRow, DeadLetterInv
  <2>. QED  BY <1>2, <2>1 DEF InHand, ToDelete
<1>5. \A i \in 1..Len(writerRx) : ~Queues("failure", n, i) /\ ~Queues("delete", n, i)
  <2>1. \A i \in 1..Len(writerRx) :
           /\ writerRx[i].row.job \in Job
           /\ writerRx[i].kind \in {"failure", "delete"} => relay[writerRx[i].row.job] = "dead"
    BY QueuedWrites DEF DeadQueue, DeadWrites
  <2>. QED  BY <1>2, <2>1 DEF Queues
<1>6. UNCHANGED <<failureJobs, dlq>>
  BY NotDlqFrame DEF NotDlqStep, RelayResult, NodeInv
<1>7. InHand(n)' = {} /\ ToDelete(n)' = {} /\ failureJobs'[n] = NoRow
  BY <1>3, <1>4, <1>6 DEF InHand, ToDelete
<1>8. \A i \in 1..Len(writerRx') :
         Queues("failure", n, i)' \/ Queues("delete", n, i)'
            => i = Len(writerRx) + 1 /\ writerRx'[i].kind = "failure"
  <2>1. ToWriter(FailureWrite(d, 0, NoJob))  BY DEF LastAttemptFails
  <2>2. FailureWrite(d, 0, NoJob).kind = "failure"  BY DEF FailureWrite
  <2>. QED  BY <1>5, <2>1, <2>2, Sent DEF Queues
<1>9. Kept(n)'
  BY <1>7, <1>8 DEF Kept, Queues
<1>. QED  BY <1>9 DEF n

\* Nothing is queued that the DLQ task sent, and rows are read, not written.
LEMMA DlqKnows ==
  ASSUME NodeInv, QueueInv, DlqShape, DlqWakes \/ DlqStep, NEW n \in Nonces, Kept(n)
  PROVE  /\ UNCHANGED <<failureJobs, onChain, mined, relay>>
         /\ dlq \in DlqState /\ (dlq.pc = "inflight" => dlq.current \in DlqRow)
         /\ \A i \in 1..Len(writerRx) : ~Queues("delete", n, i)
         /\ \A i \in 1..Len(writerRx) : Queues("failure", n, i) => failureJobs[n] = NoRow
<1>1. \A i \in 1..Len(writerRx) : writerRx[i].ack # "dlq" /\ writerRx[i].kind # "delete"
  BY DlqAwake, QueuedWrites DEF NodeInv
<1>2. UNCHANGED <<failureJobs, onChain, mined, relay>>
  BY DlqFrame DEF dbVars, vars, relayVars
<1>3. dlq \in DlqState /\ (dlq.pc = "inflight" => dlq.current \in DlqRow)
  BY DEF NodeInv, NodeTypes, TransactionTypes
<1>. QED  BY <1>1, <1>2, <1>3 DEF Kept, Queues

LEMMA WakingKeeps ==
  ASSUME NodeInv, QueueInv, DlqShape, KeyedInv, DlqWakes, NEW n \in Nonces, Kept(n)
  PROVE  Kept(n)'
<1>1. /\ UNCHANGED <<failureJobs, onChain, mined, relay>> /\ dlq \in DlqState
      /\ \A i \in 1..Len(writerRx) : ~Queues("delete", n, i)
      /\ \A i \in 1..Len(writerRx) : Queues("failure", n, i) => failureJobs[n] = NoRow
  BY DlqKnows
<1>2. /\ dlq'.batch = {failureJobs[m] : m \in Nonces} \ {NoRow}
      /\ dlq'.pc = "retry" /\ dlq'.delete = {} /\ UNCHANGED writerRx
  BY <1>1 DEF DlqWakes, DlqState, DlqShape
<1>3. ToDelete(n)' = {}  BY <1>2 DEF ToDelete
<1>4. \A row \in InHand(n)' : row = failureJobs[n] /\ row # NoRow
  BY <1>2 DEF InHand, KeyedInv
<1>5. \A i \in 1..Len(writerRx') :
         ~Queues("delete", n, i)' /\ (Queues("failure", n, i)' => failureJobs[n] = NoRow)
  BY <1>1, <1>2 DEF Queues
<1>6. \A i \in 1..Len(writerRx') : Queues("failure", n, i)' /\ writerRx'[i].ack # "dlq" =>
         \A k \in 1..Len(writerRx') : Queues("failure", n, k)' => k = i
  BY <1>2 DEF Kept, Queues
<1>. QED  BY <1>1, <1>3, <1>4, <1>5, <1>6 DEF Kept

LEMMA BroadcastKeeps ==
  ASSUME NodeInv, QueueInv, DlqShape, DlqBroadcasts, NEW n \in Nonces, Kept(n)
  PROVE  Kept(n)'
<1>1. UNCHANGED <<failureJobs, onChain, mined, relay>> /\ dlq \in DlqState
  BY DlqKnows DEF DlqStep
<1>2. PICK row \in dlq.batch :
         dlq'.batch = dlq.batch \ {row} /\ dlq'.current = row /\ dlq'.delete = dlq.delete
  BY <1>1 DEF DlqBroadcasts, DlqState
<1>3. UNCHANGED writerRx
  BY DEF DlqBroadcasts
<1>4. InHand(n)' \subseteq InHand(n) /\ ToDelete(n)' = ToDelete(n)
  BY <1>2 DEF InHand, ToDelete
<1>5. NothingNew(n)  BY <1>3, NothingSent
<1>. QED  BY <1>1, <1>4, <1>5, StaysKept

LEMMA ReceiptKeeps ==
  ASSUME NodeInv, QueueInv, DlqShape, DlqReceipt, NEW n \in Nonces, Kept(n)
  PROVE  Kept(n)'
<1>1. /\ UNCHANGED <<failureJobs, onChain, mined, relay>> /\ dlq \in DlqState
      /\ \A i \in 1..Len(writerRx) : ~Queues("delete", n, i)
  BY DlqKnows DEF DlqStep
<1>. DEFINE row == dlq.current
<1>2. /\ dlq.pc = "inflight" /\ dlq'.pc = "saving" /\ dlq'.batch = dlq.batch
      /\ dlq'.delete = dlq.delete \cup {row.job} /\ row \notin dlq.batch
  BY <1>1 DEF DlqReceipt, DlqState, DlqShape
<1>3. ToWriter(JobWrite(row.job, "Relayed", "dlq")) /\ row.job \in mined
  BY DEF DlqReceipt, Included, NodeInv, RelayedInv, Settles
<1>4. NothingNew(n)
  <2>1. JobWrite(row.job, "Relayed", "dlq").kind = "job"  BY DEF JobWrite
  <2>. QED  BY <1>3, <2>1, SentOther
<1>. HIDE DEF row
<1>5. InHand(n)' \subseteq InHand(n)
  BY <1>2 DEF InHand
<1>6. CASE Nonce[row.job] # n
  <2>1. ToDelete(n)' \subseteq ToDelete(n)
    BY <1>2, <1>6 DEF ToDelete
  <2>. QED  BY <1>1, <1>4, <1>5, <2>1, StaysKept
<1>7. CASE Nonce[row.job] = n
  <2>1. row \in InHand(n)  BY <1>2, <1>7 DEF InHand, row
  <2>2. InHand(n)' = {}
    BY <1>2, <2>1 DEF InHand, Kept
  <2>3. MayDrop(n)  BY <1>3, <1>7 DEF MayDrop, MinedNonces
  <2>. QED  BY <1>1, <1>4, <1>5, <2>1, <2>2, <2>3, StaysKept
<1>. QED  BY <1>6, <1>7

LEMMA FailureKeeps ==
  ASSUME NodeInv, QueueInv, DlqShape, DlqFails, NEW n \in Nonces, Kept(n)
  PROVE  Kept(n)'
<1>1. /\ UNCHANGED <<failureJobs, onChain, mined, relay>>
      /\ dlq \in DlqState /\ (dlq.pc = "inflight" => dlq.current \in DlqRow)
      /\ \A i \in 1..Len(writerRx) : ~Queues("delete", n, i)
  BY DlqKnows DEF DlqStep
<1>2. PICK row \in IF dlq.pc = "inflight" THEN {dlq.current} ELSE dlq.batch :
         /\ dlq'.batch = dlq.batch \ {row} /\ dlq'.pc # "inflight"
         /\ RetriesUsedUp(row) => dlq'.delete = dlq.delete \cup {row.job} /\ UNCHANGED writerRx
         /\ ~RetriesUsedUp(row) => dlq'.delete = dlq.delete
                                   /\ ToWriter(FailureWrite(row.job, row.retries + 1, "dlq"))
  BY <1>1 DEF DlqFails, DlqState
<1>4. InHand(n)' \subseteq InHand(n) /\ row \notin InHand(n)'
  BY <1>2 DEF InHand
<1>5. CASE Nonce[row.job] # n
  <2>1. ToDelete(n)' \subseteq ToDelete(n)
    BY <1>2, <1>5 DEF ToDelete
  <2>2. NothingNew(n)
    <3>1. FailureWrite(row.job, row.retries + 1, "dlq").row.job = row.job  BY DEF FailureWrite
    <3>. QED  BY <1>2, <1>5, <3>1, NothingSent, SentOther
  <2>. QED  BY <1>1, <1>4, <2>1, <2>2, StaysKept
<1>6. CASE Nonce[row.job] = n
  <2>1. row \in InHand(n)
    BY <1>2, <1>6 DEF InHand
  <2>2. failureJobs[n] = row /\ InHand(n)' = {}
    BY <1>4, <2>1 DEF Kept
  <2>3. CASE RetriesUsedUp(row)
    <3>1. row # NoRow
      BY <1>1, <1>2, RowAssumption DEF DlqState
    <3>2. MayDrop(n)
      BY <2>2, <2>3, <3>1 DEF MayDrop, MinedNonces, LastRetry, RetriesUsedUp
    <3>3. NothingNew(n)  BY <1>2, <2>3, NothingSent
    <3>. QED  BY <1>1, <1>4, <2>1, <2>2, <3>2, <3>3, StaysKept
  <2>4. CASE ~RetriesUsedUp(row)
    <3>1. ToDelete(n)' = {}
      BY <1>2, <2>1, <2>4 DEF ToDelete, Kept
    <3>2. \A i \in 1..Len(writerRx) : ~Queues("failure", n, i) /\ ~Queues("delete", n, i)
      BY <1>1, <2>1 DEF Kept
    <3>3. /\ FailureWrite(row.job, row.retries + 1, "dlq").kind = "failure"
          /\ FailureWrite(row.job, row.retries + 1, "dlq").ack = "dlq"
      BY DEF FailureWrite
    <3>4. \A i \in 1..Len(writerRx') :
             Queues("failure", n, i)' \/ Queues("delete", n, i)'
                => writerRx'[i].kind = "failure" /\ writerRx'[i].ack = "dlq"
      BY <1>2, <2>4, <3>2, <3>3, Sent DEF Queues
    <3>. QED  BY <2>2, <3>1, <3>4 DEF Kept, Queues
  <2>. QED  BY <2>3, <2>4
<1>. QED  BY <1>5, <1>6

LEMMA DeletionKeeps ==
  ASSUME NodeInv, QueueInv, DlqShape, DeadLetterInv, HandedOnce, DlqDeletes,
         NEW n \in Nonces, Unshared(n), Kept(n)
  PROVE  Kept(n)'
<1>1. /\ UNCHANGED <<failureJobs, onChain, mined, relay>> /\ dlq \in DlqState
      /\ \A i \in 1..Len(writerRx) : ~Queues("delete", n, i)
  BY DlqKnows DEF DlqStep
<1>2. PICK j \in dlq.delete :
         /\ ToWriter(DeleteWrite(j)) /\ dlq'.delete = dlq.delete \ {j}
         /\ dlq.batch = {} /\ dlq'.batch = {} /\ dlq'.pc # "inflight"
  BY <1>1 DEF DlqDeletes, DlqState
<1>4. InHand(n)' = {}
  BY <1>2 DEF InHand
<1>5. DeleteWrite(j).kind = "delete" /\ DeleteWrite(j).row.job = j
  BY DEF DeleteWrite
<1>6. CASE Nonce[j] # n
  <2>1. ToDelete(n)' \subseteq ToDelete(n)
    BY <1>2 DEF ToDelete
  <2>2. NothingNew(n)  BY <1>2, <1>5, <1>6, SentOther
  <2>. QED  BY <1>1, <1>4, <2>1, <2>2, StaysKept
<1>7. CASE Nonce[j] = n
  <2>1. \A k \in dlq.delete : k \in Job /\ relay[k] # "none"
    BY <1>1 DEF DlqState, DeadLetterInv
  <2>2. \A k \in dlq.delete : Nonce[k] = n => k = j
    BY <1>7, <2>1, OneIsHanded
  <2>3. ToDelete(n)' = {}
    BY <1>2, <2>2 DEF ToDelete
  <2>4. j \in ToDelete(n)  BY <1>7 DEF ToDelete
  <2>5. MayDrop(n)' /\ \A i \in 1..Len(writerRx) : ~Queues("failure", n, i)
    BY <1>1, <2>4 DEF Kept, MayDrop, MinedNonces, LastRetry
  <2>6. \A i \in 1..Len(writerRx') : ~Queues("failure", n, i)'
    BY <1>2, <1>5, <2>5, Sent DEF Queues
  <2>. QED  BY <1>4, <2>3, <2>5, <2>6 DEF Kept
<1>. QED  BY <1>6, <1>7

LEMMA SleepKeeps ==
  ASSUME NodeInv, QueueInv, DlqShape, DlqSleeps, NEW n \in Nonces, Kept(n)
  PROVE  Kept(n)'
<1>1. UNCHANGED <<failureJobs, onChain, mined, relay>>
  BY DlqKnows DEF DlqStep
<1>2. InHand(n)' = {} /\ ToDelete(n)' = {} /\ UNCHANGED writerRx
  BY DEF DlqSleeps, DlqAsleep, InHand, ToDelete
<1>3. NothingNew(n)  BY <1>2, NothingSent
<1>. QED  BY <1>1, <1>2, <1>3, StaysKept

\* The writer takes the first write.
LEMMA WritingKeeps ==
  ASSUME NodeInv, QueueInv, DlqShape, RowWritten, NEW n \in Nonces, Kept(n)
  PROVE  Kept(n)'
<1>. DEFINE w == writerRx[1]
<1>1. /\ 1 \in 1..Len(writerRx) /\ w = Head(writerRx) /\ Len(writerRx') \in Nat
      /\ \A i \in 1..Len(writerRx') : i \in Nat /\ i + 1 \in 1..Len(writerRx) /\ i + 1 # 1
                                      /\ writerRx'[i] = writerRx[i + 1]
  BY Written
<1>2. w.kind = "failure" => w.row \in DlqRow
  BY <1>1, QueuedWrites
<1>3. /\ failureJobs' = CASE w.kind = "failure" -> [failureJobs EXCEPT ![Nonce[w.row.job]] = w.row]
                          [] w.kind = "delete"  -> [failureJobs EXCEPT ![Nonce[w.row.job]] = NoRow]
                          [] OTHER              -> failureJobs
      /\ dlq' = IF w.ack = "dlq" THEN [dlq EXCEPT !.pc = "retry"] ELSE dlq
      /\ UNCHANGED <<onChain, mined>>
  BY <1>1 DEF RowWritten, chainVars
<1>4. dlq \in DlqState /\ failureJobs \in [Nonces -> DlqRow \cup {NoRow}]
  BY DEF NodeInv, NodeTypes, TransactionTypes, DatabaseTypes
<1>5. w.ack = "dlq" => dlq.pc = "saving"
  BY <1>1 DEF DlqShape
<1>. HIDE DEF w
<1>6. /\ dlq'.batch = dlq.batch /\ dlq'.delete = dlq.delete /\ dlq'.current = dlq.current
      /\ dlq'.pc = "inflight" <=> dlq.pc = "inflight"
  BY <1>3, <1>4, <1>5 DEF DlqState
<1>7. InHand(n)' = InHand(n) /\ ToDelete(n)' = ToDelete(n)
  BY <1>6 DEF InHand, ToDelete
<1>8. \A i \in 1..Len(writerRx') :
         /\ Queues("failure", n, i)' => Queues("failure", n, i + 1)
         /\ Queues("delete", n, i)' => Queues("delete", n, i + 1)
  BY <1>1 DEF Queues
<1>9. CASE Queues("failure", n, 1)
  <2>1. InHand(n)' = {} /\ ToDelete(n)' = {}
    BY <1>1, <1>7, <1>9 DEF Kept
  <2>2. ASSUME NEW i \in 1..Len(writerRx'), Queues("failure", n, i)' \/ Queues("delete", n, i)'
        PROVE  FALSE
    <3>1. i + 1 \in 1..Len(writerRx) /\ i + 1 # 1
          /\ (Queues("failure", n, i + 1) \/ Queues("delete", n, i + 1))
      BY <1>1, <1>8, <2>2
    <3>2. writerRx[1].ack = "dlq"
      BY <1>1, <1>9, <3>1 DEF Kept
    <3>3. writerRx[i + 1].ack # "dlq"
      BY <1>1, <3>1, <3>2 DEF DlqShape
    <3>4. Queues("failure", n, i + 1)
      BY <3>1, <3>3, QueuedWrites DEF Queues
    <3>. QED  BY <1>1, <1>9, <3>1, <3>3, <3>4 DEF Kept
  <2>. QED  BY <2>1, <2>2 DEF Kept
<1>10. CASE Queues("delete", n, 1)
  <2>1. w.ack = "dlq" /\ dlq.batch = {} /\ dlq.pc # "inflight"
    BY <1>1, <1>5, <1>10, QueuedWrites DEF Queues, DlqShape, w
  <2>2. InHand(n)' = {} /\ ToDelete(n)' = {}
    BY <1>1, <1>7, <1>10, <2>1 DEF Kept, InHand
  <2>3. ASSUME NEW i \in 1..Len(writerRx'), Queues("failure", n, i)' \/ Queues("delete", n, i)'
        PROVE  FALSE
    <3>1. i + 1 \in 1..Len(writerRx) /\ i + 1 # 1
          /\ (Queues("failure", n, i + 1) \/ Queues("delete", n, i + 1))
      BY <1>1, <1>8, <2>3
    <3>2. writerRx[i + 1].ack # "dlq"
      BY <1>1, <2>1, <3>1 DEF DlqShape, w
    <3>3. Queues("failure", n, i + 1)
      BY <3>1, <3>2, QueuedWrites DEF Queues
    <3>. QED  BY <1>1, <1>10, <3>1, <3>2, <3>3 DEF Kept
  <2>. QED  BY <2>2, <2>3 DEF Kept
<1>11. CASE ~Queues("failure", n, 1) /\ ~Queues("delete", n, 1)
  <2>1. failureJobs'[n] = failureJobs[n]
    BY <1>3, <1>4, <1>11 DEF Queues, w
  <2>2. MayDrop(n) => MayDrop(n)'
    BY <1>3, <2>1 DEF MayDrop, MinedNonces, LastRetry
  <2>3. \A row \in InHand(n)' : failureJobs'[n] = row
    BY <1>7, <2>1 DEF Kept
  <2>4. /\ InHand(n)' # {} => ToDelete(n)' = {}
        /\ ToDelete(n)' # {} => MayDrop(n)'
    BY <1>7, <2>2 DEF Kept
  <2>5. \A i \in 1..Len(writerRx') : Queues("delete", n, i)' => MayDrop(n)' /\ ToDelete(n)' = {}
    BY <1>1, <1>7, <1>8, <2>2 DEF Kept
  <2>6. \A i \in 1..Len(writerRx') :
           Queues("failure", n, i)' => InHand(n)' = {} /\ ToDelete(n)' = {}
    BY <1>1, <1>7, <1>8 DEF Kept
  <2>7. ASSUME NEW i \in 1..Len(writerRx'), Queues("failure", n, i)', writerRx'[i].ack # "dlq"
        PROVE  /\ failureJobs'[n] = NoRow
               /\ \A k \in 1..Len(writerRx') :
                     Queues("failure", n, k)' \/ Queues("delete", n, k)' => k = i
    <3>1. /\ i + 1 \in 1..Len(writerRx) /\ Queues("failure", n, i + 1)
          /\ writerRx[i + 1].ack # "dlq"
      BY <1>1, <1>8, <2>7
    <3>2. failureJobs[n] = NoRow
      BY <3>1 DEF Kept
    <3>3. ASSUME NEW k \in 1..Len(writerRx'), Queues("failure", n, k)' \/ Queues("delete", n, k)'
          PROVE  k = i
      <4>1. k + 1 = i + 1
        BY <1>1, <1>8, <3>1, <3>3 DEF Kept
      <4>. QED  BY <1>1, <4>1
    <3>. QED  BY <2>1, <3>2, <3>3
  <2>. QED  BY <2>3, <2>4, <2>5, <2>6, <2>7 DEF Kept
<1>. QED  BY <1>9, <1>10, <1>11

LEMMA StepKept ==
  ASSUME UpInv, HandedOnce, DlqShape, KeyedInv, KeptInv, [NodeNext]_nodeVars
  PROVE  KeptInv'
<1>1. NodeInv /\ QueueInv /\ DeadLetterInv /\ DeadQueue
  BY DEF UpInv
<1>2. ASSUME NEW n \in Nonces, Unshared(n)
      PROVE  Kept(n)'
  <2>1. Kept(n)  BY <1>2 DEF KeptInv
  <2>2. CASE NotDlqStep
    <3>1. CASE \E d \in Job : LastAttemptFails(d) /\ Nonce[d] = n
      BY <1>1, <1>2, <3>1, GivingUpKeeps
    <3>2. CASE ~\E d \in Job : LastAttemptFails(d) /\ Nonce[d] = n
      BY <1>1, <2>1, <2>2, <3>2, OthersKeep
    <3>. QED  BY <3>1, <3>2
  <2>3. CASE DlqWakes  BY <1>1, <2>1, <2>3, WakingKeeps
  <2>4. CASE DlqBroadcasts  BY <1>1, <2>1, <2>4, BroadcastKeeps
  <2>5. CASE DlqReceipt  BY <1>1, <2>1, <2>5, ReceiptKeeps
  <2>6. CASE DlqFails  BY <1>1, <2>1, <2>6, FailureKeeps
  <2>7. CASE DlqDeletes  BY <1>1, <1>2, <2>1, <2>7, DeletionKeeps
  <2>8. CASE DlqSleeps  BY <1>1, <2>1, <2>8, SleepKeeps
  <2>9. CASE RowWritten  BY <1>1, <2>1, <2>9, WritingKeeps
  <2>. QED
    BY <2>2, <2>3, <2>4, <2>5, <2>6, <2>7, <2>8, <2>9
       DEF NodeNext, NodeStep, NodeRest, NotDlqStep, DlqStep
<1>. QED  BY <1>2 DEF KeptInv

\* The DLQ deletes the row that it read, when a transaction for it was mined or
\* the retries are used up, whatever the relay actor and the writer do meanwhile
\* (relayer.rs:102-199, 407-443).
THEOREM DeadLetterIsKeptHolds == NodeSpec => DeadLetterIsKept
<1>. DEFINE DlqInv == DlqShape /\ KeyedInv /\ KeptInv
            Dropping == \A n \in Nonces :
                           Unshared(n) /\ failureJobs[n] # NoRow /\ failureJobs'[n] = NoRow =>
                              n \in MinedNonces \/ failureJobs[n].retries = DlqMaxRetries
<1>1. NodeInit => DlqInv
  BY InitKept
<1>2. UpInv /\ HandedOnce /\ DlqInv /\ [NodeNext]_nodeVars => DlqInv'
  BY StepShape, StepKeyed, StepKept DEF UpInv
<1>3. UpInv /\ HandedOnce /\ DlqInv /\ [NodeNext]_nodeVars => [Dropping]_nodeVars
  <2>. SUFFICES ASSUME UpInv, DlqInv, [NodeNext]_nodeVars, NEW n \in Nonces, Unshared(n),
                       failureJobs[n] # NoRow, failureJobs'[n] = NoRow
                PROVE  MayDrop(n)
    BY DEF MayDrop, MinedNonces, LastRetry
  <2>1. NodeInv /\ QueueInv /\ DlqShape /\ Kept(n)
    BY DEF UpInv, KeptInv
  <2>2. RowWritten
    BY <2>1, NotDlqFrame, DlqFrame
       DEF NodeNext, NodeStep, NodeRest, NotDlqStep, NodeInv, dbVars
  <2>. DEFINE w == writerRx[1]
  <2>3. w = Head(writerRx) /\ 1 \in 1..Len(writerRx) /\ (w.kind = "failure" => w.row \in DlqRow)
    BY <2>1, <2>2, Written, QueuedWrites
  <2>4. failureJobs' = CASE w.kind = "failure" -> [failureJobs EXCEPT ![Nonce[w.row.job]] = w.row]
                         [] w.kind = "delete"  -> [failureJobs EXCEPT ![Nonce[w.row.job]] = NoRow]
                         [] OTHER              -> failureJobs
    BY <2>2, <2>3 DEF RowWritten
  <2>5. failureJobs \in [Nonces -> DlqRow \cup {NoRow}]
    BY <2>1 DEF NodeInv, NodeTypes, DatabaseTypes
  <2>. HIDE DEF w
  <2>6. w.kind = "delete" /\ Nonce[w.row.job] = n
    BY <2>3, <2>4, <2>5, RowAssumption
  <2>. QED  BY <2>1, <2>3, <2>6 DEF Kept, Queues, w
<1>. QED
  <2>1. NodeSpec => []HandedOnce
    BY NodeRunsActors, NoncesAreHandedOnce, PTL
  <2>2. NodeSpec => []DlqInv
    BY <1>1, <1>2, <2>1, NodeStaysUp, PTL DEF NodeSpec
  <2>3. NodeSpec => [][Dropping]_nodeVars
    BY <1>3, <2>1, <2>2, NodeStaysUp, PTL DEF NodeSpec
  <2>. QED  BY <2>3 DEF DeadLetterIsKept
=============================================================================
