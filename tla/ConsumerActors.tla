--------------------------- MODULE ConsumerActors ---------------------------
(***************************************************************************)
(* The two actors a coprocessor node runs for one consumer contract, and   *)
(* the two bounded channels between them:                                  *)
(*                                                                         *)
(*   submit_job calls --execRx--> execution actor --relayRx--> relay actor *)
(*                       ^                                        |        *)
(*                       +------------- Relayed(nonce) -----------+        *)
(*                                                                         *)
(* The execution actor (coproc/src/execute.rs) hands every job to the      *)
(* worker pool, and passes executed jobs on to the relay actor: at once    *)
(* when the job's strategy is Unordered, in nonce order when it is         *)
(* Ordered.  The relay actor (coproc/src/relayer.rs) relays an Ordered job *)
(* to its end before it takes the next message; for an Unordered job it    *)
(* spawns a task and goes on.                                              *)
(*                                                                         *)
(* Job is the set of submit_job calls that reach the actors: two calls may *)
(* carry the same nonce.  Awaiting a send on a full channel is modelled by *)
(* the guard on the channel's length, so the actors can block each other.  *)
(* CoprocessorNode adds the database, the chain, the dead letter queue and *)
(* restarts to the actions below.                                          *)
(*                                                                         *)
(* Definitions named X_Y are variants of X with a plausible mistake Y.  No *)
(* specification uses them: put in the place of X, each makes TLC find a   *)
(* violation of one of the properties at the end of the module.            *)
(***************************************************************************)
EXTENDS Naturals, Sequences

CONSTANTS
    Job,            \* the submitted jobs, one per submit_job call
    Nonce,          \* the nonce of each job
    Ordered,        \* the jobs whose relay strategy is Ordered
    MayFail,        \* the jobs whose execution may fail
    FirstNonce,     \* the consumer's getNextNonce when the actors start
    ChannelBound,   \* exec_queue_bound: capacity of execRx and of relayRx
    NoJob, NoReply

ASSUME JobAssumption ==
    /\ Nonce \in [Job -> Nat]
    /\ Ordered \subseteq Job
    /\ NoJob \notin Job

ASSUME NonceAssumption == FirstNonce \in Nat

ASSUME BoundAssumption == ChannelBound \in Nat \ {0}

VARIABLES
    call,             \* where each submit_job call is
    pendingReply,     \* oneshot answering a call's ExecMsg::Pending
    nextNonceReply,   \* oneshot answering a call's ExecMsg::NextNonce
    execRx,           \* channel into the execution actor
    nextJobToSubmit,  \* nonce of the next Ordered job to relay
    pendingJobs,      \* nonces reported as pending
    task,             \* the actor's join set: the task awaiting each job
    completedTasks,   \* executed Ordered jobs waiting for their turn
    sending,          \* the job the actor is awaiting room in relayRx for
    relayRx,          \* channel into the relay actor
    relay,            \* where each job is on the relay side
    settled           \* history: Ordered jobs in the order they were decided

callVars  == <<call, pendingReply, nextNonceReply>>
actorVars == <<nextJobToSubmit, pendingJobs, completedTasks, sending>>
relayVars == <<relay, settled>>
vars == <<callVars, execRx, actorVars, task, relayRx, relayVars>>

CallState  == {"new", "checking", "cleared", "asking", "duplicate", "rejected", "sent"}
TaskState  == {"none", "executing", "ok", "err", "lost", "joined"}
RelayState == {"none", "attempting", "landed", "reported", "dead"}
Message    == [type : {"Pending", "NextNonce", "Exec", "Relayed"}, job : Job]
Settlement == [nonce : Nat, landed : BOOLEAN]

TypeOK ==
    /\ call \in [Job -> CallState]
    /\ pendingReply \in [Job -> (SUBSET Nat) \cup {NoReply}]
    /\ nextNonceReply \in [Job -> Nat \cup {NoReply}]
    /\ execRx \in Seq(Message)
    /\ nextJobToSubmit \in Nat
    /\ pendingJobs \subseteq Nat
    /\ task \in [Job -> TaskState]
    /\ completedTasks \subseteq Ordered
    /\ sending \in Job \cup {NoJob}
    /\ relayRx \in Seq(Job)
    /\ relay \in [Job -> RelayState]
    /\ settled \in Seq(Settlement)

\* A relay actor is spawned with the execution actor, on a channel of its own.
RelayActorInit ==
    /\ relayRx = <<>>
    /\ relay = [j \in Job |-> "none"]
    /\ settled = <<>>

ActorsInit ==
    /\ execRx = <<>>
    /\ nextJobToSubmit = FirstNonce
    /\ pendingJobs = {}
    /\ task = [j \in Job |-> "none"]
    /\ completedTasks = {}
    /\ sending = NoJob
    /\ RelayActorInit

Init ==
    /\ call = [j \in Job |-> "new"]
    /\ pendingReply = [j \in Job |-> NoReply]
    /\ nextNonceReply = [j \in Job |-> NoReply]
    /\ ActorsInit

-----------------------------------------------------------------------------
(* Sending to the execution actor awaits room in its channel. *)

SendToExec(type, j) ==
    /\ Len(execRx) < ChannelBound
    /\ execRx' = Append(execRx, [type |-> type, job |-> j])

(* submit_job's dialogue with the execution actor. *)

\* A row with this job's id exists: ask which nonces are pending.
CheckPending(j) ==
    /\ call[j] = "new"
    /\ SendToExec("Pending", j)
    /\ call' = [call EXCEPT ![j] = "checking"]
    /\ UNCHANGED <<pendingReply, nextNonceReply, actorVars, task, relayRx, relayVars>>

\* Already pending: the call returns Ok and submits nothing.
SkipPending(j) ==
    /\ call[j] = "checking"
    /\ pendingReply[j] # NoReply
    /\ Nonce[j] \in pendingReply[j]
    /\ call' = [call EXCEPT ![j] = "duplicate"]
    /\ pendingReply' = [pendingReply EXCEPT ![j] = NoReply]
    /\ UNCHANGED <<nextNonceReply, execRx, actorVars, task, relayRx, relayVars>>

Resubmit(j) ==
    /\ call[j] = "checking"
    /\ pendingReply[j] # NoReply
    /\ Nonce[j] \notin pendingReply[j]
    /\ call' = [call EXCEPT ![j] = "cleared"]
    /\ pendingReply' = [pendingReply EXCEPT ![j] = NoReply]
    /\ UNCHANGED <<nextNonceReply, execRx, actorVars, task, relayRx, relayVars>>

AskNextNonce(j) ==
    /\ call[j] \in {"new", "cleared"}
    /\ j \in Ordered
    /\ SendToExec("NextNonce", j)
    /\ call' = [call EXCEPT ![j] = "asking"]
    /\ UNCHANGED <<pendingReply, nextNonceReply, actorVars, task, relayRx, relayVars>>

RejectLowNonce_OrEqual(j) ==
    /\ call[j] = "asking"
    /\ nextNonceReply[j] # NoReply
    /\ Nonce[j] <= nextNonceReply[j]
    /\ call' = [call EXCEPT ![j] = "rejected"]
    /\ nextNonceReply' = [nextNonceReply EXCEPT ![j] = NoReply]
    /\ UNCHANGED <<pendingReply, execRx, actorVars, task, relayRx, relayVars>>

RejectLowNonce(j) ==
    /\ call[j] = "asking"
    /\ nextNonceReply[j] # NoReply
    /\ Nonce[j] < nextNonceReply[j]
    /\ call' = [call EXCEPT ![j] = "rejected"]
    /\ nextNonceReply' = [nextNonceReply EXCEPT ![j] = NoReply]
    /\ UNCHANGED <<pendingReply, execRx, actorVars, task, relayRx, relayVars>>

SendExec(j) ==
    /\ \/ j \notin Ordered /\ call[j] \in {"new", "cleared"}
       \/ /\ call[j] = "asking"
          /\ nextNonceReply[j] # NoReply
          /\ Nonce[j] >= nextNonceReply[j]
    /\ SendToExec("Exec", j)
    /\ call' = [call EXCEPT ![j] = "sent"]
    /\ nextNonceReply' = [nextNonceReply EXCEPT ![j] = NoReply]
    /\ UNCHANGED <<pendingReply, actorVars, task, relayRx, relayVars>>

-----------------------------------------------------------------------------
(* The execution actor.  While it awaits room in relayRx (sending # NoJob)  *)
(* it is inside a handler and takes neither a message nor a finished task.  *)

Selecting == sending = NoJob

Receive(type, j) ==
    /\ Selecting
    /\ execRx # <<>>
    /\ Head(execRx) = [type |-> type, job |-> j]
    /\ execRx' = Tail(execRx)

TooLate_OrEqual(j) == j \in Ordered /\ Nonce[j] <= nextJobToSubmit

\* The Ordered job's nonce was already relayed when its message is received.
TooLate(j) == j \in Ordered /\ Nonce[j] < nextJobToSubmit

StartTask(j) ==
    /\ Receive("Exec", j)
    /\ ~TooLate(j)
    /\ pendingJobs' = pendingJobs \cup {Nonce[j]}
    /\ task' = [task EXCEPT ![j] = "executing"]
    /\ UNCHANGED <<callVars, nextJobToSubmit, completedTasks, sending, relayRx, relayVars>>

DropExec(j) ==
    /\ Receive("Exec", j)
    /\ TooLate(j)
    /\ UNCHANGED <<callVars, actorVars, task, relayRx, relayVars>>

AnswerPending(j) ==
    /\ Receive("Pending", j)
    /\ pendingReply' = [pendingReply EXCEPT ![j] = pendingJobs]
    /\ UNCHANGED <<call, nextNonceReply, actorVars, task, relayRx, relayVars>>

AnswerNextNonce(j) ==
    /\ Receive("NextNonce", j)
    /\ nextNonceReply' = [nextNonceReply EXCEPT ![j] = nextJobToSubmit]
    /\ UNCHANGED <<call, pendingReply, actorVars, task, relayRx, relayVars>>

ForgetRelayed_LastSent(j) ==
    /\ Receive("Relayed", j)
    /\ pendingJobs' = pendingJobs \ {nextJobToSubmit - 1}
    /\ UNCHANGED <<callVars, nextJobToSubmit, completedTasks, sending, task, relayRx, relayVars>>

\* The message carries the job's nonce only.
ForgetRelayed(j) ==
    /\ Receive("Relayed", j)
    /\ pendingJobs' = pendingJobs \ {Nonce[j]}
    /\ UNCHANGED <<callVars, nextJobToSubmit, completedTasks, sending, task, relayRx, relayVars>>

Join(j, result) ==
    /\ Selecting
    /\ task[j] = result
    /\ task' = [task EXCEPT ![j] = "joined"]

JoinToSend_Forget(j) ==
    /\ Join(j, "ok")
    /\ j \in Ordered => Nonce[j] = nextJobToSubmit
    /\ sending' = j
    /\ pendingJobs' = pendingJobs \ {Nonce[j]}
    /\ UNCHANGED <<callVars, execRx, nextJobToSubmit, completedTasks, relayRx, relayVars>>

\* An Unordered job, or the Ordered job whose turn it is: send it.
JoinToSend(j) ==
    /\ Join(j, "ok")
    /\ j \in Ordered => Nonce[j] = nextJobToSubmit
    /\ sending' = j
    /\ UNCHANGED <<callVars, execRx, nextJobToSubmit, pendingJobs, completedTasks,
                   relayRx, relayVars>>

JoinToWait_AnyStrategy(j) ==
    /\ Join(j, "ok")
    /\ Nonce[j] # nextJobToSubmit
    /\ completedTasks' = {k \in completedTasks : Nonce[k] # Nonce[j]} \cup {j}
    /\ UNCHANGED <<callVars, execRx, nextJobToSubmit, pendingJobs, sending, relayRx, relayVars>>

\* completedTasks is a map keyed by nonce: the latest job takes the place of
\* an earlier one with the same nonce.
JoinToWait(j) ==
    /\ Join(j, "ok")
    /\ j \in Ordered
    /\ Nonce[j] # nextJobToSubmit
    /\ completedTasks' = {k \in completedTasks : Nonce[k] # Nonce[j]} \cup {j}
    /\ UNCHANGED <<callVars, execRx, nextJobToSubmit, pendingJobs, sending, relayRx, relayVars>>

JoinFailed(j) ==
    /\ Join(j, "err")
    /\ pendingJobs' = pendingJobs \ {Nonce[j]}
    /\ UNCHANGED <<callVars, execRx, nextJobToSubmit, completedTasks, sending, relayRx, relayVars>>

\* The worker went away without replying: the nonce stays pending.
JoinLost(j) ==
    /\ Join(j, "lost")
    /\ UNCHANGED <<callVars, execRx, actorVars, relayRx, relayVars>>

SendToRelay ==
    /\ sending # NoJob
    /\ Len(relayRx) < ChannelBound
    /\ relayRx' = Append(relayRx, sending)

SendUnordered ==
    /\ sending \notin Ordered
    /\ SendToRelay
    /\ sending' = NoJob
    /\ UNCHANGED <<callVars, execRx, nextJobToSubmit, pendingJobs, completedTasks, task, relayVars>>

Following_Nobody == {}

\* The jobs whose turn comes right after the one being sent.
Following == {k \in completedTasks : Nonce[k] = nextJobToSubmit + 1}

SendOrdered ==
    /\ sending \in Ordered
    /\ SendToRelay
    /\ nextJobToSubmit' = nextJobToSubmit + 1
    /\ \/ /\ Following = {}
          /\ sending' = NoJob
          /\ UNCHANGED completedTasks
       \/ \E k \in Following :
             /\ sending' = k
             /\ completedTasks' = completedTasks \ {k}
    /\ UNCHANGED <<callVars, execRx, pendingJobs, task, relayVars>>

-----------------------------------------------------------------------------
(* A pool worker executes the job and replies to the task. *)

\* Executing a job ends with a signed result; or, as its program and its inputs
\* have it, with an error, or with a panic that takes the worker away.  The pool
\* goes on with the workers it has left, and is taken to have one.
Outcomes(j) == {"ok"} \cup IF j \in MayFail THEN {"err", "lost"} ELSE {}

Execute(j, result) ==
    /\ task[j] = "executing"
    /\ result \in Outcomes(j)
    /\ task' = [task EXCEPT ![j] = result]
    /\ UNCHANGED <<callVars, execRx, actorVars, relayRx, relayVars>>

-----------------------------------------------------------------------------
(* The relay actor. *)

RelayActorIdle_Always == TRUE

RelayActorIdle == \A j \in Ordered : relay[j] \notin {"attempting", "landed"}

TakeRelay ==
    /\ RelayActorIdle
    /\ relayRx # <<>>
    /\ relay' = [relay EXCEPT ![Head(relayRx)] = "attempting"]
    /\ relayRx' = Tail(relayRx)
    /\ UNCHANGED <<callVars, execRx, actorVars, task, settled>>

RecordSettled(j, landed) ==
    settled' = IF j \in Ordered
               THEN Append(settled, [nonce |-> Nonce[j], landed |-> landed])
               ELSE settled

\* relay_job_result has the receipt of the transaction.
RelayLands(j) ==
    /\ relay[j] = "attempting"
    /\ relay' = [relay EXCEPT ![j] = "landed"]
    /\ RecordSettled(j, TRUE)
    /\ UNCHANGED <<callVars, execRx, actorVars, task, relayRx>>

\* The attempts are used up: the job goes to the dead letter queue, and the
\* execution actor is not told.
RelayGivesUp(j) ==
    /\ relay[j] = "attempting"
    /\ relay' = [relay EXCEPT ![j] = "dead"]
    /\ RecordSettled(j, FALSE)
    /\ UNCHANGED <<callVars, execRx, actorVars, task, relayRx>>

ReportRelayed(j) ==
    /\ relay[j] = "landed"
    /\ SendToExec("Relayed", j)
    /\ relay' = [relay EXCEPT ![j] = "reported"]
    /\ UNCHANGED <<callVars, actorVars, task, relayRx, settled>>

-----------------------------------------------------------------------------
Submission(j) ==
    \/ CheckPending(j) \/ SkipPending(j) \/ Resubmit(j)
    \/ AskNextNonce(j) \/ RejectLowNonce(j) \/ SendExec(j)

ReceiveOne(j) ==
    \/ StartTask(j) \/ DropExec(j) \/ AnswerPending(j)
    \/ AnswerNextNonce(j) \/ ForgetRelayed(j)

JoinOne(j) == JoinToSend(j) \/ JoinToWait(j) \/ JoinFailed(j) \/ JoinLost(j)

SendOne == SendUnordered \/ SendOrdered

PoolWorker(j) == \E result \in {"ok", "err", "lost"} : Execute(j, result)

RelayOne(j) == RelayLands(j) \/ RelayGivesUp(j) \/ ReportRelayed(j)

\* No actor has anything left to do.
Quiet ==
    /\ \A j \in Job : /\ task[j] \in {"none", "joined"}
                      /\ relay[j] \notin {"attempting", "landed"}
    /\ execRx = <<>> /\ relayRx = <<>> /\ sending = NoJob

\* Every call has returned, too.
Rest ==
    /\ Quiet
    /\ \A j \in Job : call[j] \in {"duplicate", "rejected", "sent"}
    /\ UNCHANGED vars

Next ==
    \/ \E j \in Job : Submission(j) \/ ReceiveOne(j) \/ JoinOne(j) \/ PoolWorker(j) \/ RelayOne(j)
    \/ SendOne
    \/ TakeRelay
    \/ Rest

Spec == Init /\ [][Next]_vars

\* tokio polls the branches of select! in random order, so a ready branch is
\* taken in the end; workers, relay tasks and blocked senders are threads or
\* tasks of their own, and relay_job_result makes a bounded number of
\* attempts.  Nothing obliges a caller to submit anything.
Fairness ==
    /\ \A j \in Job : /\ WF_vars(ReceiveOne(j))
                      /\ WF_vars(JoinOne(j))
                      /\ WF_vars(PoolWorker(j))
                      /\ WF_vars(RelayOne(j))
    /\ WF_vars(SendOne)
    /\ WF_vars(TakeRelay)

LiveSpec == Spec /\ Fairness

-----------------------------------------------------------------------------
(* Properties. *)

\* The relay side implements the abstract promise: Ordered results are handed
\* over and settled one by one, in nonce order, each nonce once
\* (execute.rs:23-25, relayer.rs:313-323).
Promise == INSTANCE OrderedRelay WITH handedTo <- nextJobToSubmit

KeepsPromise == Promise!OrderedSpec

\* ... and whatever is handed over is settled in the end.
KeepsLivePromise == Promise!LiveOrderedSpec

\* An executed job never waits in completedTasks when it is its turn: no
\* interleaving of completions leaves the drain loop (execute.rs:165-169)
\* without having seen it.
NextNeverWaits == \A j \in completedTasks : Nonce[j] # nextJobToSubmit

\* The inductive invariant behind the promise, in parts.

OneWaitsPerNonce ==
    \A j, k \in completedTasks : Nonce[j] = Nonce[k] => j = k

SendsNext == sending \in Ordered => Nonce[sending] = nextJobToSubmit

\* The Ordered jobs in relayRx were handed over in the order of their nonces.
QueueInOrder ==
    /\ \A p \in 1..Len(relayRx) :
          relayRx[p] \in Ordered => Nonce[relayRx[p]] < nextJobToSubmit
    /\ \A p, q \in 1..Len(relayRx) :
          p < q /\ relayRx[p] \in Ordered /\ relayRx[q] \in Ordered
             => Nonce[relayRx[p]] < Nonce[relayRx[q]]

NextToSettle == FirstNonce + Len(settled)

Attempting(j) == j \in Ordered /\ relay[j] = "attempting"

\* The relay actor has at most one Ordered job in its hands; the one it is
\* relaying has the next nonce to settle, and those in relayRx come after it.
OneInHand ==
    /\ \A j, k \in Ordered : relay[j] \in {"attempting", "landed"}
                             /\ relay[k] \in {"attempting", "landed"} => j = k
    /\ \A j \in Job : Attempting(j) =>
          /\ Nonce[j] = NextToSettle
          /\ NextToSettle < nextJobToSubmit
    /\ \A p \in 1..Len(relayRx) : relayRx[p] \in Ordered =>
          /\ NextToSettle <= Nonce[relayRx[p]]
          /\ \A j \in Job : Attempting(j) => NextToSettle < Nonce[relayRx[p]]

\* Every nonce handed over and not settled is being relayed or in relayRx.
NoGap ==
    /\ NextToSettle <= nextJobToSubmit
    /\ \A n \in NextToSettle..(nextJobToSubmit - 1) :
          \/ \E j \in Job : Attempting(j) /\ Nonce[j] = n
          \/ \E p \in 1..Len(relayRx) : relayRx[p] \in Ordered /\ Nonce[relayRx[p]] = n

InTurn ==
    NextNeverWaits /\ OneWaitsPerNonce /\ SendsNext /\ QueueInOrder /\ OneInHand /\ NoGap

Queued(type, j) == \E i \in 1..Len(execRx) : execRx[i] = [type |-> type, job |-> j]

\* An Ordered job whose Exec was sent and whose execution cannot fail is never
\* lost between the channel, the pool and the waiting map: it is on its way,
\* or its nonce was handed over, or a job with its nonce waits instead.
AcceptedIsAccounted ==
    \A j \in Ordered \ MayFail :
        call[j] = "sent" =>
            \/ Nonce[j] < nextJobToSubmit
            \/ Queued("Exec", j)
            \/ task[j] \in {"executing", "ok"}
            \/ sending \in Ordered /\ Nonce[sending] = Nonce[j]
            \/ \E k \in completedTasks : Nonce[k] = Nonce[j]

\* submit_job decides on a next nonce it read earlier (intake.rs:214-231): by
\* the time it refuses a job as too low, and ever after, the nonce is indeed
\* handed over.
RefusalIsFinal ==
    \A j \in Job :
        /\ call[j] = "rejected" => Nonce[j] < nextJobToSubmit
        /\ nextNonceReply[j] # NoReply => nextNonceReply[j] <= nextJobToSubmit

\* The only job submitted with its nonce.
Sole(j) == \A k \in Job : Nonce[k] = Nonce[j] => k = j

InPipeline(j) ==
    \/ task[j] \in {"executing", "ok"}
    \/ j \in completedTasks
    \/ sending = j
    \/ \E i \in 1..Len(relayRx) : relayRx[i] = j
    \/ relay[j] \in {"attempting", "landed"}

\* get_pending_nonces reports every job in the execution and relay pipeline
\* (intake.rs:313-314), when no other job shares its nonce.
PendingCoversPipeline ==
    \A j \in Job : Sole(j) /\ InPipeline(j) => Nonce[j] \in pendingJobs

\* Every nonce up to n has an Ordered job that was sent and does not fail.
Unobstructed(n) ==
    \A m \in FirstNonce..n :
        \E k \in Ordered \ MayFail : Nonce[k] = m /\ call[k] = "sent"

\* An Ordered job whose predecessors were all submitted is settled in the end,
\* whatever the order in which the jobs were submitted and executed.
SubmittedIsSettled ==
    \A j \in Ordered :
        Unobstructed(Nonce[j]) ~> (FirstNonce + Len(settled) > Nonce[j])

\* "it will wait until the job with the next nonce finishes and then send it to
\* the relay actor" (execute.rs:24-25): a send that began completes.
SendCompletes == \A j \in Job : (sending = j) ~> (sending # j)
=============================================================================
