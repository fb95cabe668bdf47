--------------------------- MODULE AbandonedCalls ---------------------------
(***************************************************************************)
(* ConsumerActors when clients go away.  submit_job runs inside a gRPC     *)
(* handler, whose future is dropped with the oneshot receivers it holds    *)
(* when the client disconnects.  The execution actor takes the message all *)
(* the same, and panics when it sends the answer: its task ends, its       *)
(* channels close, and what it held is gone.                               *)
(***************************************************************************)
EXTENDS ConsumerActors

VARIABLES
    abandoned,    \* the calls whose client disconnected
    panicked      \* the execution actor's task ended

abandonVars == <<vars, abandoned, panicked>>

AbandonInit == Init /\ abandoned = {} /\ panicked = FALSE

\* The client of a call that awaits an answer disconnects.
Abandon(j) ==
    /\ call[j] \in {"checking", "asking"}
    /\ abandoned' = abandoned \cup {j}
    /\ UNCHANGED <<vars, panicked>>

\* reply_tx.send(...).expect("one shot sender failed").
Panic(j) ==
    /\ ~panicked
    /\ j \in abandoned
    /\ \E type \in {"Pending", "NextNonce"} : Receive(type, j)
    /\ panicked' = TRUE
    /\ UNCHANGED <<callVars, actorVars, task, relayRx, relayVars, abandoned>>

\* Everything the execution actor does takes place before the panic, and it
\* answers only calls that are still there.
ActorLives(j) ==
    /\ ~panicked
    /\ \/ j \notin abandoned /\ (AnswerPending(j) \/ AnswerNextNonce(j))
       \/ StartTask(j) \/ DropExec(j) \/ ForgetRelayed(j) \/ JoinOne(j)
       \/ j \notin abandoned /\ Submission(j)
       \/ ReportRelayed(j)

AbandonNext ==
    \/ \E j \in Job : Abandon(j) \/ Panic(j)
    \/ /\ \/ \E j \in Job : ActorLives(j) \/ PoolWorker(j) \/ RelayLands(j) \/ RelayGivesUp(j)
          \/ ~panicked /\ SendOne
          \/ TakeRelay
       /\ UNCHANGED <<abandoned, panicked>>

AbandonSpec == AbandonInit /\ [][AbandonNext]_abandonVars

\* expect("one shot sender failed") (execute.rs:134, 140): whoever asked the
\* execution actor is there to be answered.
AnswersAreAwaited == ~panicked
=============================================================================
