-------------------------- MODULE CoprocessorNode --------------------------
(***************************************************************************)
(* A coprocessor node (coproc/src) as one consumer contract sees it: the   *)
(* intake of jobs, the database and its single writer thread, the actors   *)
(* of ConsumerActors, the transactions that carry results to the chain,    *)
(* the dead letter queue (DLQ), and crashes of the process.                *)
(*                                                                         *)
(* The actions of ConsumerActors are taken here together with what the     *)
(* code does around them: database writes, transactions, bookkeeping.      *)
(* A row of the job table is the job it was written for and a status; a    *)
(* job's id is the hash of its nonce and consumer, so rows are keyed by    *)
(* nonce.  What survives a crash: the two tables, the chain and the        *)
(* transactions already broadcast.                                         *)
(*                                                                         *)
(* Definitions named X_Y are variants of X with a mistake, as in           *)
(* ConsumerActors.                                                         *)
(***************************************************************************)
EXTENDS ConsumerActors, FiniteSetsExt

CONSTANTS
    Payload,          \* the content of each job, its status left out
    MaxRetries,       \* initial_relay_max_retries
    DlqMaxRetries,    \* dlq_max_retries
    MaxCrashes,       \* bound on the crashes of a behaviour
    MayRevert,        \* jobs whose result JobManager may refuse once it was sent
    NoRow

ASSUME RetryAssumption ==
    /\ MaxRetries \in Nat /\ DlqMaxRetries \in Nat /\ MaxCrashes \in Nat
    /\ DOMAIN Payload = Job
    /\ MayRevert \subseteq Job
    /\ "dlq" \notin Job \cup {NoJob}   \* the DLQ task, as the sender of a write

VARIABLES
    intake,       \* where submit_job is, besides its dialogue with the actor
    matched,      \* the call found an identical pending row
    readNonce,    \* getNextNonce as the call read it
    actorUp,      \* the consumer has an entry in active_actors
    jobTable,     \* JobTable: nonce -> row
    failureJobs,  \* RelayFailureJobs: nonce -> job and retries
    writerRx,     \* channel into the writer thread
    attempts,     \* attempt number (i) of each relay_job_result
    inflight,     \* jobs whose relay_job_result awaits a receipt
    unsaved,      \* relayed jobs whose row is not yet sent to the writer
    dlq,          \* the DLQ task
    mempool,      \* jobs with a broadcast transaction not yet mined
    onChain,      \* nonces whose result was accepted by the JobManager
    mined,        \* jobs with a mined transaction, which may have reverted
    acked,        \* history: jobs whose submit_job submitted and returned Ok
    crashes       \* history: how many times the node went down

intakeVars == <<intake, matched, readNonce>>
dbVars     == <<jobTable, failureJobs>>
txVars     == <<attempts, inflight, unsaved>>
chainVars  == <<mempool, onChain, mined>>
histVars   == <<acked, crashes>>
nodeVars   == <<vars, intakeVars, actorUp, dbVars, writerRx, txVars, dlq, chainVars, histVars>>

Nonces == {Nonce[j] : j \in Job}

MinedNonces == {Nonce[j] : j \in mined}

Status == {"Pending", "Done", "Failed", "Relayed"}
Row    == [job : Job, status : Status]
DlqRow == [job : Job, retries : Nat]

ASSUME RowAssumption == NoRow \notin Row \cup DlqRow

\* ack: the call whose reply waits for the write, NoJob for none; the DLQ task
\* acknowledges for itself.
JobWrite(j, status, ack) == [kind |-> "job", row |-> [job |-> j, status |-> status], ack |-> ack]
FailureWrite(j, retries, ack) ==
    [kind |-> "failure", row |-> [job |-> j, retries |-> retries], ack |-> ack]
DeleteWrite(j) == [kind |-> "delete", row |-> [job |-> j, retries |-> 0], ack |-> "dlq"]

ToWriter_LastFirst(write) == writerRx' = <<write>> \o writerRx

ToWriter(write) == writerRx' = Append(writerRx, write)

DlqAsleep == [pc |-> "asleep", batch |-> {}, current |-> NoRow, delete |-> {}]

\* init_db on a new path: the tables are there, and empty.
TablesInit ==
    /\ jobTable = [n \in Nonces |-> NoRow]
    /\ failureJobs = [n \in Nonces |-> NoRow]

NodeInit ==
    /\ Init
    /\ intake = [j \in Job |-> "idle"]
    /\ matched = [j \in Job |-> FALSE]
    /\ readNonce = [j \in Job |-> FirstNonce]
    /\ actorUp = FALSE
    /\ TablesInit
    /\ writerRx = <<>>
    /\ attempts = [j \in Job |-> 0]
    /\ inflight = {}
    /\ unsaved = {}
    /\ dlq = DlqAsleep
    /\ mempool = {}
    /\ onChain = {}
    /\ mined = {}
    /\ acked = {}
    /\ crashes = 0

-----------------------------------------------------------------------------
(* submit_job. *)

Goto(j, phase) == intake' = [intake EXCEPT ![j] = phase]

\* Every submitted job has status Pending, so it equals a stored one only if
\* that one is Pending too.
JobsMatch(row, j) == row.status = "Pending" /\ Payload[row.job] = Payload[j]

WritePending(j) == ToWriter(JobWrite(j, "Pending", j)) /\ Goto(j, "writing")

Found(j) == jobTable[Nonce[j]] # NoRow

\* The look-up is awaited: the row may be there by the time of the write.
SubmitMissing(j) ==
    /\ intake[j] = "idle" /\ ~Found(j)
    /\ Goto(j, "missing")
    /\ UNCHANGED <<vars, matched, readNonce, actorUp, dbVars, writerRx, txVars, dlq, chainVars,
                   histVars>>

SubmitNew(j) ==
    /\ intake[j] = "missing"
    /\ WritePending(j)
    /\ UNCHANGED <<vars, matched, readNonce, actorUp, dbVars, txVars, dlq, chainVars, histVars>>

Refused(j) ==
    LET row == jobTable[Nonce[j]] IN
    \/ row.status = "Failed" /\ JobsMatch(row, j)   \* JobExistsAndFailedToRelay
    \/ row.status = "Relayed"                       \* JobRelayed

SubmitRefused(j) ==
    /\ intake[j] = "idle" /\ Found(j) /\ Refused(j)
    /\ Goto(j, "refused")
    /\ UNCHANGED <<vars, matched, readNonce, actorUp, dbVars, writerRx, txVars, dlq, chainVars,
                   histVars>>

SubmitKnown(j) ==
    /\ intake[j] = "idle" /\ Found(j) /\ ~Refused(j)
    /\ matched' = [matched EXCEPT ![j] = JobsMatch(jobTable[Nonce[j]], j)]
    /\ Goto(j, "known")
    /\ UNCHANGED <<vars, readNonce, actorUp, dbVars, writerRx, txVars, dlq, chainVars, histVars>>

AskPending(j) ==
    /\ intake[j] = "known" /\ actorUp
    /\ CheckPending(j)
    /\ Goto(j, "asked")
    /\ UNCHANGED <<matched, readNonce, actorUp, dbVars, writerRx, txVars, dlq, chainVars, histVars>>

AlreadyPending(j) ==
    /\ SkipPending(j)
    /\ Goto(j, "done")
    /\ UNCHANGED <<matched, readNonce, actorUp, dbVars, writerRx, txVars, dlq, chainVars, histVars>>

\* Not pending: overwrite the old row, unless it is identical.
WriteUnlessMatched(j) ==
    IF matched[j] THEN Goto(j, "routing") /\ UNCHANGED writerRx ELSE WritePending(j)

NotPending(j) ==
    /\ \/ Resubmit(j)
       \/ intake[j] = "known" /\ ~actorUp /\ UNCHANGED vars
    /\ WriteUnlessMatched(j)
    /\ UNCHANGED <<matched, readNonce, actorUp, dbVars, txVars, dlq, chainVars, histVars>>

FindActor(j) ==
    /\ intake[j] = "routing" /\ actorUp
    /\ Goto(j, "routed")
    /\ UNCHANGED <<vars, matched, readNonce, actorUp, dbVars, writerRx, txVars, dlq, chainVars,
                   histVars>>

\* Consumer.getNextNonce: one more than the largest nonce used on chain.  (Of the
\* jobs here; FirstNonce is what it returns before any of them is, and a nonce
\* taken by requestJob alone is not counted.)
ChainNextNonce == Max({FirstNonce - 1} \cup onChain) + 1

ReadNextNonce(j) ==
    /\ intake[j] = "routing" /\ ~actorUp
    /\ readNonce' = [readNonce EXCEPT ![j] = ChainNextNonce]
    /\ Goto(j, "spawning")
    /\ UNCHANGED <<vars, matched, actorUp, dbVars, writerRx, txVars, dlq, chainVars, histVars>>

\* The call of getNextNonce fails, and submit_job with it; the row stays.
NextNonceUnavailable(j) ==
    /\ intake[j] = "routing" /\ ~actorUp
    /\ Goto(j, "refused")
    /\ UNCHANGED <<vars, matched, readNonce, actorUp, dbVars, writerRx, txVars, dlq, chainVars,
                   histVars>>

\* The entry may have been filled by another call since the nonce was read.
SpawnActor(j) ==
    /\ intake[j] = "spawning"
    /\ actorUp' = TRUE
    /\ nextJobToSubmit' = IF actorUp THEN nextJobToSubmit ELSE readNonce[j]
    /\ Goto(j, "routed")
    /\ UNCHANGED <<callVars, execRx, pendingJobs, completedTasks, sending, task, relayRx,
                   relayVars, matched, readNonce, dbVars, writerRx, txVars, dlq, chainVars,
                   histVars>>

AskActor(j) ==
    /\ intake[j] = "routed"
    /\ AskNextNonce(j)
    /\ UNCHANGED <<intakeVars, actorUp, dbVars, writerRx, txVars, dlq, chainVars, histVars>>

RefuseLow(j) ==
    /\ RejectLowNonce(j)
    /\ ToWriter(JobWrite(j, "Failed", NoJob))
    /\ Goto(j, "done")
    /\ UNCHANGED <<matched, readNonce, actorUp, dbVars, txVars, dlq, chainVars, histVars>>

HandToActor(j) ==
    /\ intake[j] = "routed"
    /\ SendExec(j)
    /\ acked' = acked \cup {j}
    /\ Goto(j, "done")
    /\ UNCHANGED <<matched, readNonce, actorUp, dbVars, writerRx, txVars, dlq, chainVars, crashes>>

-----------------------------------------------------------------------------
(* The actors.  A worker sends the row to the writer before it replies. *)

ActorStep ==
    /\ \/ \E j \in Job : ReceiveOne(j) \/ JoinOne(j)
       \/ SendOne
    /\ UNCHANGED <<intakeVars, actorUp, dbVars, writerRx, txVars, dlq, chainVars, histVars>>

Work(j, result) ==
    /\ Execute(j, result)
    /\ result # "lost"
    /\ ToWriter(JobWrite(j, IF result = "ok" THEN "Done" ELSE "Failed", NoJob))
    /\ UNCHANGED <<intakeVars, actorUp, dbVars, txVars, dlq, chainVars, histVars>>

\* A worker that panics writes nothing.
WorkerPanics(j) ==
    /\ Execute(j, "lost")
    /\ UNCHANGED <<intakeVars, actorUp, dbVars, writerRx, txVars, dlq, chainVars, histVars>>

-----------------------------------------------------------------------------
(* relay_job_result. *)

StartRelay ==
    /\ unsaved \cap Ordered = {}
    /\ TakeRelay
    /\ attempts' = [attempts EXCEPT ![Head(relayRx)] = 1]
    /\ UNCHANGED <<intakeVars, actorUp, dbVars, writerRx, inflight, unsaved, dlq, chainVars,
                   histVars>>

\* `send' estimates the gas of the call first: a result for a nonce that is on
\* chain already is never broadcast.  (An estimate that fails for another reason
\* is an attempt that fails.)
Estimated(j) == Nonce[j] \notin onChain

Broadcast(j) ==
    /\ relay[j] = "attempting" /\ j \notin inflight
    /\ Estimated(j)
    /\ mempool' = mempool \cup {j}
    /\ inflight' = inflight \cup {j}
    /\ UNCHANGED <<vars, intakeVars, actorUp, dbVars, writerRx, attempts, unsaved, dlq, onChain,
                   mined, histVars>>

\* There is a receipt once the transaction is mined; its status is not looked at.
Included(j) == j \notin mempool

ReceiptArrives_Unmined(j) ==
    /\ j \in inflight
    /\ RelayLands(j)
    /\ inflight' = inflight \ {j}
    /\ UNCHANGED <<intakeVars, actorUp, dbVars, writerRx, attempts, unsaved, dlq, chainVars,
                   histVars>>

ReceiptArrives(j) ==
    /\ j \in inflight /\ Included(j)
    /\ RelayLands(j)
    /\ inflight' = inflight \ {j}
    /\ UNCHANGED <<intakeVars, actorUp, dbVars, writerRx, attempts, unsaved, dlq, chainVars,
                   histVars>>

AttemptsLeft_OneMore(j) == attempts[j] <= MaxRetries + 2

AttemptsLeft(j) == attempts[j] <= MaxRetries + 1

\* Broadcasting fails, or the receipt does not arrive, though the transaction
\* may be mined all the same.
AttemptFails(j) ==
    /\ relay[j] = "attempting"
    /\ inflight' = inflight \ {j}
    /\ AttemptsLeft(j)
    /\ attempts' = [attempts EXCEPT ![j] = @ + 1]
    /\ UNCHANGED <<vars, intakeVars, actorUp, dbVars, writerRx, unsaved, dlq, chainVars, histVars>>

LastAttemptFails_NoDeadLetter(j) ==
    /\ ~AttemptsLeft(j)
    /\ RelayGivesUp(j)
    /\ inflight' = inflight \ {j}
    /\ UNCHANGED <<intakeVars, actorUp, dbVars, writerRx, attempts, unsaved, dlq, chainVars,
                   histVars>>

LastAttemptFails(j) ==
    /\ ~AttemptsLeft(j)
    /\ RelayGivesUp(j)
    /\ ToWriter(FailureWrite(j, 0, NoJob))
    /\ inflight' = inflight \ {j}
    /\ UNCHANGED <<intakeVars, actorUp, dbVars, attempts, unsaved, dlq, chainVars, histVars>>

Report(j) ==
    /\ ReportRelayed(j)
    /\ unsaved' = unsaved \cup {j}
    /\ UNCHANGED <<intakeVars, actorUp, dbVars, writerRx, attempts, inflight, dlq, chainVars,
                   histVars>>

SaveRelayed(j) ==
    /\ j \in unsaved
    /\ unsaved' = unsaved \ {j}
    /\ ToWriter(JobWrite(j, "Relayed", NoJob))
    /\ UNCHANGED <<vars, intakeVars, actorUp, dbVars, attempts, inflight, dlq, chainVars, histVars>>

-----------------------------------------------------------------------------
(* RelayRetry, the DLQ task: one pass over a snapshot of the failure table. *)

DlqUnchanged ==
    UNCHANGED <<vars, intakeVars, actorUp, dbVars, txVars, histVars>>

DlqWakes ==
    /\ dlq.pc = "asleep"
    /\ \E n \in Nonces : failureJobs[n] # NoRow
    /\ dlq' = [dlq EXCEPT !.pc = "retry",
                          !.batch = {failureJobs[n] : n \in Nonces} \ {NoRow}]
    /\ DlqUnchanged /\ UNCHANGED <<writerRx, chainVars>>

DlqBroadcasts ==
    /\ dlq.pc = "retry"
    /\ \E row \in dlq.batch :
          /\ Estimated(row.job)
          /\ mempool' = mempool \cup {row.job}
          /\ dlq' = [dlq EXCEPT !.pc = "inflight", !.current = row, !.batch = @ \ {row}]
    /\ DlqUnchanged /\ UNCHANGED <<writerRx, onChain, mined>>

DlqReceipt_Unmined ==
    /\ dlq.pc = "inflight"
    /\ ToWriter(JobWrite(dlq.current.job, "Relayed", "dlq"))
    /\ dlq' = [dlq EXCEPT !.pc = "saving", !.delete = @ \cup {dlq.current.job}]
    /\ DlqUnchanged /\ UNCHANGED chainVars

DlqReceipt ==
    /\ dlq.pc = "inflight" /\ Included(dlq.current.job)
    /\ ToWriter(JobWrite(dlq.current.job, "Relayed", "dlq"))
    /\ dlq' = [dlq EXCEPT !.pc = "saving", !.delete = @ \cup {dlq.current.job}]
    /\ DlqUnchanged /\ UNCHANGED chainVars

RetriesUsedUp_Early(row) == row.retries + 1 >= DlqMaxRetries

RetriesUsedUp(row) == row.retries = DlqMaxRetries

\* Broadcasting a row's transaction fails, or its receipt does not arrive.
DlqFails ==
    /\ dlq.pc \in {"retry", "inflight"}
    /\ \E row \in IF dlq.pc = "inflight" THEN {dlq.current} ELSE dlq.batch :
          IF RetriesUsedUp(row)
          THEN /\ dlq' = [dlq EXCEPT !.pc = "retry", !.batch = @ \ {row},
                                     !.delete = @ \cup {row.job}]
               /\ UNCHANGED writerRx
          ELSE /\ ToWriter(FailureWrite(row.job, row.retries + 1, "dlq"))
               /\ dlq' = [dlq EXCEPT !.pc = "saving", !.batch = @ \ {row}]
    /\ DlqUnchanged /\ UNCHANGED chainVars

DlqDeletes ==
    /\ dlq.pc = "retry" /\ dlq.batch = {} /\ dlq.delete # {}
    /\ \E j \in dlq.delete :
          /\ ToWriter(DeleteWrite(j))
          /\ dlq' = [dlq EXCEPT !.pc = "saving", !.delete = @ \ {j}]
    /\ DlqUnchanged /\ UNCHANGED chainVars

DlqSleeps ==
    /\ dlq.pc = "retry" /\ dlq.batch = {} /\ dlq.delete = {}
    /\ dlq' = DlqAsleep
    /\ DlqUnchanged /\ UNCHANGED <<writerRx, chainVars>>

-----------------------------------------------------------------------------
(* The writer thread: one transaction per message, then the reply. *)

RowWritten ==
    /\ writerRx # <<>> /\ Head(writerRx).kind \in {"job", "failure", "delete"}
    /\ writerRx' = Tail(writerRx)
    /\ LET write == Head(writerRx)
           n == Nonce[write.row.job]
       IN  /\ jobTable' = IF write.kind = "job"
                          THEN [jobTable EXCEPT ![n] = write.row] ELSE jobTable
           /\ failureJobs' = CASE write.kind = "failure" -> [failureJobs EXCEPT ![n] = write.row]
                               [] write.kind = "delete"  -> [failureJobs EXCEPT ![n] = NoRow]
                               [] OTHER                  -> failureJobs
           /\ intake' = IF write.ack \in Job THEN [intake EXCEPT ![write.ack] = "routing"] ELSE intake
           /\ dlq' = IF write.ack = "dlq" THEN [dlq EXCEPT !.pc = "retry"] ELSE dlq
    /\ UNCHANGED <<vars, matched, readNonce, actorUp, txVars, chainVars, histVars>>

-----------------------------------------------------------------------------
(* The chain and the process. *)

\* JobManager accepts a result for a job id only once: a second transaction
\* for the nonce is mined too, and reverts.  So does one whose job was cancelled,
\* whose state root went stale, or whose relayer or operator was replaced, since
\* its gas was estimated.
Mine ==
    /\ \E j \in mempool :
          /\ mempool' = mempool \ {j}
          /\ mined' = mined \cup {j}
          /\ \/ onChain' = onChain \cup {Nonce[j]}
             \/ j \in MayRevert /\ UNCHANGED onChain
    /\ UNCHANGED <<vars, intakeVars, actorUp, dbVars, writerRx, txVars, dlq, histVars>>

\* The process dies, with everything it had in memory.  Callers may submit
\* their jobs again afterwards.
Crash ==
    /\ crashes < MaxCrashes
    /\ crashes' = crashes + 1
    /\ intake' = [j \in Job |-> "idle"]
    /\ matched' = [j \in Job |-> FALSE]
    /\ readNonce' = [j \in Job |-> FirstNonce]
    /\ call' = [j \in Job |-> "new"]
    /\ pendingReply' = [j \in Job |-> NoReply]
    /\ nextNonceReply' = [j \in Job |-> NoReply]
    /\ actorUp' = FALSE
    /\ execRx' = <<>> /\ relayRx' = <<>> /\ writerRx' = <<>>
    /\ nextJobToSubmit' = FirstNonce
    /\ pendingJobs' = {} /\ completedTasks' = {} /\ sending' = NoJob
    /\ task' = [j \in Job |-> "none"]
    /\ relay' = [j \in Job |-> "none"]
    /\ settled' = <<>>
    /\ attempts' = [j \in Job |-> 0]
    /\ inflight' = {} /\ unsaved' = {}
    /\ dlq' = DlqAsleep
    /\ UNCHANGED <<dbVars, chainVars, acked>>

\* A call of submit_job, behind the gRPC handler, which checks the request and
\* makes a Pending job of it.
Submit(j) ==
    \/ SubmitMissing(j) \/ SubmitNew(j) \/ SubmitRefused(j) \/ SubmitKnown(j)
    \/ AskPending(j) \/ AlreadyPending(j) \/ NotPending(j) \/ FindActor(j)
    \/ ReadNextNonce(j) \/ NextNonceUnavailable(j) \/ SpawnActor(j)
    \/ AskActor(j) \/ RefuseLow(j) \/ HandToActor(j)

RelayResult(j) ==
    \/ Broadcast(j) \/ ReceiptArrives(j) \/ AttemptFails(j) \/ LastAttemptFails(j)
    \/ Report(j) \/ SaveRelayed(j)

DlqStep == DlqBroadcasts \/ DlqReceipt \/ DlqFails \/ DlqDeletes \/ DlqSleeps

NothingLeftToDo ==
    /\ Quiet
    /\ writerRx = <<>> /\ unsaved = {} /\ mempool = {} /\ dlq.pc = "asleep"
    /\ \A n \in Nonces : failureJobs[n] = NoRow

Returned(j) == intake[j] \in {"done", "refused"}

\* Every call has returned and nothing is left to do.
AtRest == NothingLeftToDo /\ \A j \in Job : Returned(j)

NodeRest == AtRest /\ UNCHANGED nodeVars

\* What the node and the chain do on their own.
NodeStep ==
    \/ \E j \in Job :
          \/ WorkerPanics(j) \/ RelayResult(j)
          \/ \E result \in {"ok", "err"} : Work(j, result)
    \/ ActorStep \/ StartRelay
    \/ DlqWakes \/ DlqStep
    \/ RowWritten
    \/ Mine

\* A node that stays up: EventListener adds Crash, after which the listener
\* starts again as well.
NodeNext == (\E j \in Job : Submit(j)) \/ NodeStep \/ NodeRest

NodeSpec == NodeInit /\ [][NodeNext]_nodeVars

\* The runtime never stops while a task can run, and the chain mines what is
\* broadcast.  Nothing is asked of the callers, nor of any one task.
LiveNodeSpec == NodeSpec /\ WF_nodeVars(NodeStep)

-----------------------------------------------------------------------------
(* Properties. *)

NodeTypeOK ==
    /\ TypeOK
    /\ intake \in [Job -> {"idle", "missing", "known", "asked", "writing", "routing", "spawning",
                           "routed", "done", "refused"}]
    /\ matched \in [Job -> BOOLEAN]
    /\ readNonce \in [Job -> Nat]
    /\ actorUp \in BOOLEAN
    /\ jobTable \in [Nonces -> Row \cup {NoRow}]
    /\ \A n \in Nonces : failureJobs[n] # NoRow => failureJobs[n] \in DlqRow
    /\ attempts \in [Job -> 0..(MaxRetries + 2)]
    /\ inflight \subseteq Job /\ unsaved \subseteq Job /\ mempool \subseteq Job
    /\ dlq.pc \in {"asleep", "retry", "inflight", "saving"}
    /\ mined \subseteq Job /\ onChain \subseteq MinedNonces /\ acked \subseteq Job

Relayed(n) == jobTable[n] # NoRow /\ jobTable[n].status = "Relayed"

\* A row that says Relayed is of a job whose own transaction was mined, not that
\* of another submission of the nonce, whichever of the relay actor and the DLQ
\* wrote the row, after however many attempts, and across crashes.  It need not be
\* accepted: the code takes any receipt for success (relayer.rs:478-500), though
\* relayer.rs:341 says "if the transaction fails record it in the DLQ".
RelayedIsMined == \A n \in Nonces : Relayed(n) => jobTable[n].job \in mined

\* Once submit_job has returned Ok the job is in the job table, even if the
\* node goes down at once ("make sure the write completes", intake.rs:251).
AckedIsStored == \A j \in acked : Found(j)

\* One call uses the nonce, or several Ordered ones, of which the actor passes
\* one on.
Unshared(n) ==
    \A j, k \in Job : Nonce[j] = n /\ Nonce[k] = n => j = k \/ {j, k} \subseteq Ordered

\* A dead letter is dropped only when a transaction for its nonce was mined (and
\* may have reverted) or its retries are used up: the DLQ deletes the row it
\* read, not one that came later.  (Rows are keyed by nonce, so two Unordered
\* jobs with one nonce share a row.)
DeadLetterIsKept ==
    [][\A n \in Nonces :
          Unshared(n) /\ failureJobs[n] # NoRow /\ failureJobs'[n] = NoRow =>
             n \in MinedNonces \/ failureJobs[n].retries = DlqMaxRetries]_nodeVars

\* The row of a job submitted once never leaves Relayed.
RelayedIsFinal ==
    [][\A j \in Job :
          Sole(j) /\ Found(j) /\ jobTable[Nonce[j]].status = "Relayed"
             => jobTable'[Nonce[j]].status = "Relayed"]_nodeVars

LastRetry(n) == failureJobs[n] # NoRow /\ failureJobs[n].retries = DlqMaxRetries

\* The turn of an Ordered job comes when every nonce before its own was taken
\* by an Ordered job that was accepted and executed.
TurnComes(j) ==
    j \in Ordered =>
        \A n \in FirstNonce..(Nonce[j] - 1) :
            \E k \in Ordered \ MayFail : Nonce[k] = n /\ <>(k \in acked)

\* A job that submit_job accepted and whose turn comes does not get stuck in
\* the node: a transaction with its result is mined, or it is a dead letter that
\* is down to its last retry (internals.md:16).
AckedIsResolved ==
    \A j \in Job \ MayFail :
        TurnComes(j) /\ <>(j \in acked) => <>(Nonce[j] \in MinedNonces \/ LastRetry(Nonce[j]))

\* "Relay the result on chain in the order the job requests where submitted"
\* (coprocessor_node.v1.rs:278) holds but for dead letters: when the result of an
\* Ordered job was mined, so were those for every nonce before it, but for the
\* ones the relay actor gave up.  (One that reverted counts as mined.)
OvertakenOnlyWhenDead ==
    \A n \in MinedNonces :
        (\A j \in Job : Nonce[j] = n => j \in Ordered) =>
            \A m \in FirstNonce..(n - 1) :
                m \in MinedNonces \/ \E j \in Ordered : Nonce[j] = m /\ relay[j] = "dead"

\* An Ordered job waits for ever when a nonce before its own is never taken.
HeldUp(n) ==
    \E m \in FirstNonce..(n - 1) : \A k \in (Ordered \ MayFail) \cap acked : Nonce[k] # m

\* get_pending_nonces: "in the execution and relay pipeline, but are not yet on
\* chain" (intake.rs:313-314) holds at rest but for dead letters, which stay
\* pending even when the dead letter queue has brought them on chain, and for
\* jobs whose worker panicked.
PendingAtRestIsDead ==
    AtRest => \A n \in pendingJobs :
        HeldUp(n) \/ \E j \in Job : Nonce[j] = n /\ (relay[j] = "dead" \/ j \in MayFail)
=============================================================================
