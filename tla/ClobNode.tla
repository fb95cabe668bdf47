------------------------------ MODULE ClobNode ------------------------------
(***************************************************************************)
(* The CLOB server (examples/clob/node): HTTP handlers, the engine, the    *)
(* deposit listener and the batcher, tasks of one process over one         *)
(* database, with the coprocessor node and the chain behind them.  The     *)
(* process may stop at any point and start again on its database.          *)
(*                                                                         *)
(* `tick' is a function of the state and a request, so a state of the CLOB *)
(* stands here as the sequence of requests that lead to it from genesis;   *)
(* what `tick' does is ClobBook.  A database transaction is one step.      *)
(*                                                                         *)
(* Definitions named X_Y are variants of X with a plausible mistake Y.  No *)
(* specification uses them: put in the place of X, each makes TLC find a   *)
(* violation of one of the properties.                                     *)
(***************************************************************************)
EXTENDS Naturals, Sequences, SequencesExt, FiniteSets

CONSTANTS
    Http,           \* requests of HTTP clients
    Deposit,        \* deposits made on chain
    Blocks,         \* block number -> the deposits in it
    Unbacked,       \* requests whose deltas may exceed a balance of the contract
    MaxIndex,       \* bound on the requests the engine takes
    MaxTroubles,    \* bound on crashes, clients that leave and calls that fail
    None

Request == Http \cup Deposit
RETRIES == 3
GENESIS_GLOBAL_INDEX == 0
INIT_INDEX == 1

ASSUME BlocksAssumption ==
    /\ Blocks \in Seq(Seq(Deposit))
    \* a deposit is one event, in one place
    /\ \A b, c \in DOMAIN Blocks : \A k \in DOMAIN Blocks[b], l \in DOMAIN Blocks[c] :
          Blocks[b][k] = Blocks[c][l] => b = c /\ k = l
    /\ Http \cap Deposit = {} /\ None \notin Request
    /\ Unbacked \subseteq Request
    /\ MaxIndex \in Nat /\ MaxTroubles \in Nat

VARIABLES
    \* the database
    processed,      \* PROCESSED_GLOBAL_INDEX_KEY, 0 when it is not there
    requests,       \* RequestTable
    states,         \* ClobStateTable; the responses are written with it
    nextBatch,      \* NEXT_BATCH_GLOBAL_INDEX_KEY, 0 when it is not there
    lastSeenHeight, \* LAST_SEEN_HEIGHT_KEY
    \* the process
    channel,        \* requests on their way to the engine
    engine,         \* run_engine
    listener,       \* start_deposit_event_listener
    batcher,        \* run_batcher
    \* around it
    client,         \* HTTP request -> what its client waits for
    answers,        \* history: <<index, request>> that were answered
    jobs,           \* coprocessor node: nonce -> job
    chain,          \* the state whose root the consumer contract has
    troubles

dbVars  == <<processed, requests, states, nextBatch, lastSeenHeight>>
vars == <<dbVars, channel, engine, listener, batcher, client, answers, jobs, chain, troubles>>

Index == 1..MaxIndex
NoJob == [status |-> "none", pre |-> <<>>, post |-> <<>>]

-----------------------------------------------------------------------------
(* Start.                                                                    *)

\* read_start_up_values: the engine goes on from the processed index.
EngineAtStart_SkipSeen(index) ==
    LET seen == IF requests[index + 1] # None THEN index + 1 ELSE index
    IN  [pc |-> "recv", index |-> seen, state |-> states[index], request |-> None]
EngineAtStart_Genesis(index) ==
    [pc |-> "recv", index |-> GENESIS_GLOBAL_INDEX, state |-> <<>>, request |-> None]
EngineAtStart(index) ==
    [pc |-> "recv", index |-> index, state |-> states[index], request |-> None]

\* The listener goes on from the saved height.
ListenerAtStart_NextBlock(height) == [pc |-> "poll", block |-> height + 1, next |-> 1]
ListenerAtStart(height) == [pc |-> "poll", block |-> height, next |-> 1]

\* The batcher's nonce is not kept anywhere.
BatcherAtStart ==
    [pc |-> "init", nonce |-> 1, end |-> 0, job |-> NoJob, tries |-> 0]

Init ==
    /\ processed = GENESIS_GLOBAL_INDEX
    /\ requests = [i \in 1..(MaxIndex + 1) |-> None]
    /\ states = [i \in 0..MaxIndex |-> <<>>]
    /\ nextBatch = 0 /\ lastSeenHeight = 1
    /\ channel = <<>>
    /\ engine = [pc |-> "recv", index |-> 0, state |-> <<>>, request |-> None]
    /\ listener = ListenerAtStart(1) /\ batcher = BatcherAtStart
    /\ client = [r \in Http |-> "idle"]
    /\ answers = {}
    /\ jobs = [n \in Index |-> NoJob] /\ chain = <<>>
    /\ troubles = 0

Trouble == troubles < MaxTroubles /\ troubles' = troubles + 1

\* The process ends and is started again: what it held in memory is gone, and
\* the clients that wait get no answer.
Restarted ==
    /\ channel' = <<>>
    /\ engine' = EngineAtStart(processed)
    /\ listener' = ListenerAtStart(lastSeenHeight)
    /\ batcher' = BatcherAtStart
    /\ client' = [r \in Http |-> IF client[r] = "waiting" THEN "lost" ELSE client[r]]

Crash ==
    /\ Trouble
    /\ Restarted
    /\ UNCHANGED <<dbVars, answers, jobs, chain>>

-----------------------------------------------------------------------------
(* app.rs: a handler hands its request to the engine and waits.              *)

Handle(r) ==
    /\ client[r] = "idle"
    /\ client' = [client EXCEPT ![r] = "waiting"]
    /\ channel' = Append(channel, r)
    /\ UNCHANGED <<dbVars, engine, listener, batcher, answers, jobs, chain, troubles>>

\* The client disconnects: the handler is dropped, and with it the receiver of
\* the answer.
Disconnect(r) ==
    /\ client[r] = "waiting"
    /\ Trouble
    /\ client' = [client EXCEPT ![r] = "gone"]
    /\ UNCHANGED <<dbVars, channel, engine, listener, batcher, answers, jobs, chain>>

\* What the balances and orders that the server shows are read from.
clob_state == states[processed]

-----------------------------------------------------------------------------
(* engine.rs                                                                 *)

TakeFromChannel_All == channel' = <<>>
TakeFromChannel == channel' = Tail(channel)

\* The request gets the next index and is stored under it.
See ==
    /\ engine.pc = "recv" /\ channel # <<>> /\ engine.index < MaxIndex
    /\ LET i == engine.index + 1 IN
       /\ engine' = [engine EXCEPT !.pc = "seen", !.index = i, !.request = Head(channel)]
       /\ requests' = [requests EXCEPT ![i] = Head(channel)]
    /\ TakeFromChannel
    /\ UNCHANGED <<processed, states, nextBatch, lastSeenHeight, listener, batcher, client,
                   answers, jobs, chain, troubles>>

Ticked == Append(engine.state, engine.request)

\* One transaction: the processed index, the response and the new state.
Persist ==
    /\ processed' = engine.index
    /\ states' = [states EXCEPT ![engine.index] = Ticked]

Tick ==
    /\ engine.pc = "seen"
    /\ Persist
    /\ engine' = [engine EXCEPT !.pc = "respond"]
    /\ UNCHANGED <<requests, nextBatch, lastSeenHeight, channel, listener, batcher, client,
                   answers, jobs, chain, troubles>>

Respond ==
    /\ engine.pc = "respond"
    /\ engine.request \in Http => client[engine.request] = "waiting"
    /\ engine' = [engine EXCEPT !.pc = "recv", !.state = Ticked]
    /\ answers' = answers \cup {<<engine.index, engine.request>>}
    /\ IF engine.request \in Http
       THEN /\ client' = [client EXCEPT ![engine.request] = "answered"]
            /\ UNCHANGED listener
       ELSE /\ listener' = [listener EXCEPT !.pc = "poll", !.next = @ + 1]
            /\ UNCHANGED client
    /\ UNCHANGED <<dbVars, channel, batcher, jobs, chain, troubles>>

\* The receiver is gone: the engine returns an error, and with it the process.
RespondToNobody ==
    /\ engine.pc = "respond"
    /\ engine.request \in Http /\ client[engine.request] = "gone"
    /\ Restarted
    /\ UNCHANGED <<dbVars, answers, jobs, chain, troubles>>

-----------------------------------------------------------------------------
(* event.rs: block by block, the deposits of a block one after the other.    *)

PushDeposit ==
    /\ listener.pc = "poll" /\ listener.block <= Len(Blocks)
    /\ listener.next <= Len(Blocks[listener.block])
    /\ channel' = Append(channel, Blocks[listener.block][listener.next])
    /\ listener' = [listener EXCEPT !.pc = "wait"]
    /\ UNCHANGED <<dbVars, engine, batcher, client, answers, jobs, chain, troubles>>

SaveHeight ==
    /\ listener.pc = "poll" /\ listener.block <= Len(Blocks)
    /\ listener.next > Len(Blocks[listener.block])
    /\ listener' = [listener EXCEPT !.block = @ + 1, !.next = 1]
    /\ lastSeenHeight' = listener.block + 1
    /\ UNCHANGED <<processed, requests, states, nextBatch, channel, engine, batcher, client,
                   answers, jobs, chain, troubles>>

\* Asking for the latest block fails: the listener returns, and with it the
\* process.
ListenerFails ==
    /\ listener.pc = "poll" /\ listener.next = 1
    /\ Trouble
    /\ Restarted
    /\ UNCHANGED <<dbVars, answers, jobs, chain>>

-----------------------------------------------------------------------------
(* batcher.rs                                                                *)

EnsureInitialized ==
    /\ batcher.pc = "init" /\ processed > GENESIS_GLOBAL_INDEX
    /\ nextBatch' = IF nextBatch = 0 THEN INIT_INDEX ELSE nextBatch
    /\ batcher' = [batcher EXCEPT !.pc = "idle"]
    /\ UNCHANGED <<processed, requests, states, lastSeenHeight, channel, engine, listener, client,
                   answers, jobs, chain, troubles>>

BatchEnd_Seen == engine.index
BatchEnd == processed

\* The zkVM program ticks through the requests once more.
Proven(pre, reqs) == [status |-> "pending", pre |-> pre, post |-> pre \o reqs]

\* The job takes the state before the batch and its requests.
Collect ==
    LET end == BatchEnd IN
    /\ batcher.pc = "idle" /\ nextBatch <= end /\ batcher.nonce \in Index
    /\ batcher' = [batcher EXCEPT
                      !.pc = "submit", !.end = end, !.tries = 0,
                      !.job = Proven(states[nextBatch - 1], SubSeq(requests, nextBatch, end))]
    /\ UNCHANGED <<dbVars, channel, engine, listener, client, answers, jobs, chain, troubles>>

\* submit_job of the coprocessor node: a new nonce is taken, and one whose
\* execution failed is taken again; one in the pending set, where a job that was
\* given up stays, is answered Ok whatever the job; a relayed one is refused.
Store(n) ==
    IF jobs[n].status \in {"none", "failed"}
    THEN jobs' = [jobs EXCEPT ![n] = batcher.job]
    ELSE UNCHANGED jobs

Submit ==
    /\ batcher.pc = "submit" /\ jobs[batcher.nonce].status # "relayed"
    /\ Store(batcher.nonce)
    /\ batcher' = [batcher EXCEPT !.pc = "save"]
    /\ UNCHANGED <<dbVars, channel, engine, listener, client, answers, chain, troubles>>

\* A try that fails; after the last one the batcher returns an error, and the
\* process ends.
TryFails ==
    IF batcher.tries + 1 < RETRIES
    THEN /\ batcher' = [batcher EXCEPT !.tries = @ + 1]
         /\ UNCHANGED <<channel, engine, listener, client>>
    ELSE Restarted

SubmitRefused ==
    /\ batcher.pc = "submit" /\ jobs[batcher.nonce].status = "relayed"
    /\ TryFails
    /\ UNCHANGED <<dbVars, answers, jobs, chain, troubles>>

\* The call fails on its way, before or after it took effect.
SubmitLost ==
    /\ batcher.pc = "submit"
    /\ Trouble
    /\ Store(batcher.nonce) \/ UNCHANGED jobs
    /\ TryFails
    /\ UNCHANGED <<dbVars, answers, chain>>

SaveNextBatch_Processed == nextBatch' = processed + 1
SaveNextBatch == nextBatch' = batcher.end + 1

Save ==
    /\ batcher.pc = "save"
    /\ SaveNextBatch
    /\ batcher' = [batcher EXCEPT !.pc = "idle", !.nonce = @ + 1]
    /\ UNCHANGED <<processed, requests, states, lastSeenHeight, channel, engine, listener, client,
                   answers, jobs, chain, troubles>>

-----------------------------------------------------------------------------
(* The coprocessor node executes Ordered jobs and relays them by their nonces. *)
(* The consumer takes a result whose input root is its own.  Its balances are  *)
(* checked: it reverts one that takes more from a balance than is there, which *)
(* a second credit of a deposit does, unless its user has made others, and     *)
(* what Unbacked stands for may do (ClobBook has such requests).               *)

Credits(state, d) == Cardinality({i \in DOMAIN state : state[i] = d})

AcceptedBy(job) == job.pre = chain

\* ClobConsumer's subtractions may revert the result.
Refusable(job) ==
    \/ \E d \in Deposit : Credits(job.post, d) > 1
    \/ \E i \in (Len(job.pre) + 1)..Len(job.post) : job.post[i] \in Unbacked

Reverts(job) == ~AcceptedBy(job) \/ Refusable(job)

\* The transaction is mined, and the job counts as relayed: the status of the
\* receipt is not looked at.
Mined(n) ==
    /\ jobs' = [jobs EXCEPT ![n].status = "relayed"]
    /\ \/ AcceptedBy(jobs[n]) /\ chain' = jobs[n].post
       \/ Reverts(jobs[n]) /\ UNCHANGED chain

\* No attempt succeeds: the DLQ has the job, and the relay actor goes on.
GivenUp(n) == jobs' = [jobs EXCEPT ![n].status = "dead"]

ToRelay(n) ==
    /\ jobs[n].status = "pending"
    /\ \A k \in 1..(n - 1) : jobs[k].status \in {"relayed", "dead"}

\* What reverts is mostly given up, since gas cannot be estimated.
Relay(n) ==
    /\ ToRelay(n)
    /\ Mined(n) \/ (Reverts(jobs[n]) /\ GivenUp(n) /\ UNCHANGED chain)
    /\ UNCHANGED <<dbVars, channel, engine, listener, batcher, client, answers, troubles>>

\* The attempts fail on their way, one of them perhaps after it took effect.
RelayFails(n) ==
    /\ ToRelay(n)
    /\ Trouble
    /\ GivenUp(n)
    /\ UNCHANGED chain \/ (AcceptedBy(jobs[n]) /\ chain' = jobs[n].post)
    /\ UNCHANGED <<dbVars, channel, engine, listener, batcher, client, answers>>

DlqRelays(n) ==
    /\ jobs[n].status = "dead"
    /\ Mined(n)
    /\ UNCHANGED <<dbVars, channel, engine, listener, batcher, client, answers, troubles>>

\* Later nonces wait for this one.
ExecutionFails(n) ==
    /\ jobs[n].status = "pending"
    /\ Trouble
    /\ jobs' = [jobs EXCEPT ![n].status = "failed"]
    /\ UNCHANGED <<dbVars, channel, engine, listener, batcher, client, answers, chain>>

-----------------------------------------------------------------------------

EngineStep   == See \/ Tick \/ Respond \/ RespondToNobody
ListenerStep == PushDeposit \/ SaveHeight
BatcherStep  == EnsureInitialized \/ Collect \/ Submit \/ SubmitRefused \/ Save
ChainStep    == \E n \in Index : Relay(n)

\* Nothing more to do, or the bound on the requests is reached.
Done ==
    /\ engine.pc = "recv"
    /\ channel = <<>> \/ engine.index = MaxIndex
    /\ UNCHANGED vars

Next ==
    \/ \E r \in Http : Handle(r) \/ Disconnect(r)
    \/ EngineStep \/ ListenerStep \/ ListenerFails
    \/ BatcherStep \/ SubmitLost
    \/ ChainStep
    \/ \E n \in Index : RelayFails(n) \/ DlqRelays(n) \/ ExecutionFails(n)
    \/ Crash
    \/ Done

\* The runtime runs every task that can run, and the coprocessor node relays.
Fairness ==
    /\ WF_vars(EngineStep) /\ WF_vars(ListenerStep) /\ WF_vars(BatcherStep) /\ WF_vars(ChainStep)

Spec == Init /\ [][Next]_vars /\ Fairness

-----------------------------------------------------------------------------
(* Properties.                                                               *)

\* The tables are of a piece after any crash: replaying the stored requests
\* from genesis gives the stored state at every processed index, which is what
\* the batcher and the zkVM program rely on.
StatesAreReplays ==
    \A i \in 0..processed : states[i] = SubSeq(requests, 1, i)

\* What the coprocessor node was given as a batch is what the tables still say:
\* a request in a batch is never replaced by another.
BatchesAreProcessed ==
    \A n \in Index :
        jobs[n].status # "none" =>
            /\ Len(jobs[n].post) <= processed
            /\ jobs[n].post = states[Len(jobs[n].post)]

\* A deposit in a block before the saved height has been credited in the state
\* that clients see, and one that was credited twice was credited across a stop
\* of the process.
DepositsAreCredited ==
    /\ \A b \in 1..(lastSeenHeight - 1) : \A d \in ToSet(Blocks[b]) :
          Credits(clob_state, d) >= 1
    /\ troubles = 0 => \A d \in Deposit : Credits(clob_state, d) <= 1

\* The server, with its database and the chain, is the log that clients are
\* promised, across crashes.
Promise == INSTANCE AppLog WITH
    log <- SubSeq(requests, 1, processed), settled <- chain
KeepsTheLog == Promise!Spec

\* A result is behind the chain for good, or until the DLQ brings it there: the
\* contract could refuse it, or one before it.
ChainStopped ==
    \E n \in Index : \E k \in 1..n :
        /\ jobs[n].status \in {"relayed", "dead"} /\ Len(chain) < Len(jobs[n].post)
        /\ Refusable(jobs[k])

\* While nothing fails, what has been processed reaches the chain, unless the
\* contract's checked arithmetic reverts a result on the way: then nothing in the
\* server makes up for it.
ChainCatchesUp ==
    [](troubles = 0) =>
        \A i \in Index : processed >= i ~> Len(chain) >= i \/ ChainStopped

\* While the process runs, every request is answered.
RequestsAreAnswered ==
    [](troubles = 0) =>
        \A r \in Http : client[r] = "waiting" ~> client[r] = "answered"
=============================================================================
