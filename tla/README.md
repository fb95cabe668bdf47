# A verification of InfinityVM

InfinityVM runs zkVM programs for contracts. A *coprocessor node* receives jobs,
executes and signs them, and relays the results to the `JobManager` contract, which
checks them and forwards them to the *consumer* contract the job belongs to. On top of
it stand app servers (a central limit order book, a matching game) that batch their
users' requests into jobs, and under it an execution client without gas fees. This
directory holds TLA+ specifications of all of these, TLC configurations that check them
on small instances, and proofs that TLAPS checks for every instance. Paths below are
relative to the repository; `coproc/` is `crates/coproc/src/`, `clob/` is
`examples/clob/`, `game/` is `examples/matching-game/` and `exec/` is `bin/exec/src/`.

## 1. Inventory

### The parts and how they interact

```
 client --gRPC--> submit_job --execRx--> execution actor --relayRx--> relay actor --tx--> JobManager
                     |   ^                |        ^  ^                  |    |              |
                     |   +--- oneshot ----+        |  +--- Relayed ------+    |       receiveResult
                     |                      worker pool                       |              v
 event listener -----+--> writer <-------------- | -------------------------- +           Consumer
                     ^      v                    |                                           ^
             job table, failure table  <----> RelayRetry (dead letter queue) --tx----------- +
             ELF, program, height tables <---- submit_elf

 HTTP client --> engine --> request log, states --> batcher --> submit_job (Ordered jobs)
 deposit event --> listener --^                       (clob/node; game/server keeps it in memory)
```

| Part | Source | State | Operations |
|---|---|---|---|
| job intake | `coproc/intake.rs` | `active_actors`: consumer -> actor channel | `submit_job`, `get_pending_nonces` |
| program intake | `coproc/intake.rs` | ELF and program tables | `submit_elf` |
| execution actor, one per consumer | `coproc/execute.rs` | next nonce to relay, pending nonces, join set, `completed_tasks` | receive `Exec`, `Pending`, `NextNonce`, `Relayed`; join a finished task; drain the map |
| worker pool | `coproc/pool.rs` | queue of jobs, program cache | look the program up, execute, save the row, reply |
| relay actor, one per consumer | `coproc/relayer.rs` | its channel, spawned tasks | relay an Ordered job to its end, spawn an Unordered one |
| dead letter queue | `coproc/relayer.rs` (`RelayRetry`) | a snapshot, the rows to delete | retry, save, count, delete |
| writer | `coproc/writer.rs`, `crates/db` | tables, one queue | one transaction per message, then the reply |
| event listener | `coproc/event.rs` | last block | onchain requests into `submit_job`, save the block |
| JobManager | `contracts/src/coprocessor/JobManager.sol` | job metadata, blob hashes, relayer, operator | create, cancel, two ways to submit a result, two setters |
| consumers | `contracts/src/coprocessor/*.sol` | inputs, `maxNonce`, state root | request, next nonce, receive a result |
| CLOB book | `clob/core` | books, balances, order statuses | deposit, withdraw, order, cancel |
| CLOB program and consumer | `clob/programs`, `contracts/src/clob` | deposited, free and locked balances | sum of diffs; deposit, apply deltas, pay out |
| CLOB node | `clob/node` | request log, states, two indexes, height | ingest, process, answer, batch |
| matching game | `game/*`, `contracts/src/matching-game` | number -> who waits (a trie), partners | submit and cancel a number, batch, record matches |
| execution client | `exec/*` | hard forks, time of the last head, pool | allow list and validation, new heads, execution without gas |

`PROJECT.json` lists all parts, those left out included, with the reason.

### What is hard here

* *Two actors that send to each other* through bounded channels: who waits on whom.
* *Asking and acting later.* `submit_job` asks the execution actor which nonces are
  pending and which is next, and decides after the answer; the actor decides again
  when it receives the job. A call, and its client, can go away in between.
* *Completions in any order*, drained into nonce order; a nonce submitted twice, a
  job that fails to execute, and Unordered jobs in between.
* *One row per job with three writers*: worker, relay task and dead letter queue; and two
  writes for one program.
* *Transactions whose fate is not known*: a failed attempt may have been mined.
* *A crash anywhere*: memory is gone, tables and broadcast transactions stay; what is
  behind in the writer's queue is lost in order.
* *Nonces of two origins*: `requestJob` takes the next one, offchain jobs bring
  their own. *State roots*: results computed from an old root still arrive.
* *Two ledgers of one account*: the CLOB runs ahead, and the contract follows by sums of
  diffs with checked arithmetic where the CLOB wraps around.
* *One log with several indexes*: seen, processed, batched, settled, saved at different
  times, with a nonce that starts anew with the process.
* *A validator behind the chain*: the pool decides by what it was last told of, across
  reorgs and forks.

### What makes each part correct

* actors: Ordered jobs are handed over and settled in nonce order, each nonce once,
  nothing accepted is lost, and whatever has all its predecessors is settled;
* intake: a refusal is justified when it is sent, an acceptance is stored first;
* tables: `Relayed` means that the job's own transaction was mined, whoever wrote it (that
  it is accepted is not so, see section 5); a dead letter is kept until it is relayed or its
  retries are used up; a passed block's jobs are stored;
* contracts: a request never collides with an existing job, results form one chain of
  state roots, each job gets one result, computed for what was requested;
* order book: best price, then oldest, first; its three tables agree; trades conserve
  funds; the contract owes no more than it holds;
* app servers: one log of requests, replayed by engine, batcher and program to the same
  state, followed by the chain until its contract refuses a result; what clients were
  answered stays true;
* execution client: nobody pays or earns gas, a transaction runs once, and the pool holds
  what the list and the hard fork of a recent head allowed.

The hazards in `PROJECT.json` name each spot by line, with the properties aimed at it.

## 2. The modules

| Module | Models | Extends |
|---|---|---|
| `OrderedRelay` | the promise for Ordered jobs: hand over, then settle, in order | |
| `ConsumerActors` | submit_job's dialogue with the actor, execution actor, pool, relay actor | refines `OrderedRelay` |
| `AbandonedCalls` | `ConsumerActors` with clients that disconnect | `ConsumerActors` |
| `CoprocessorNode` | the whole path of a job: rows, writer, transactions, dead letter queue, crashes | `ConsumerActors` |
| `ProgramStore` | `submit_elf`, the two writes of a program, workers that need it | `CoprocessorNode` |
| `EventListener` | onchain requests, retries, the saved height, restarts of all of the node | `ProgramStore` |
| `JobManager` | JobManager and one StatefulConsumer | |
| `Auction` | what an order book promises: a set of orders, served by price and age | |
| `ClobBook` | the CLOB's core: `limit`, `cancel`, `tick` and its four requests | refines `Auction` |
| `ClobSettlement` | the CLOB, the diffs its program sums up, and ClobConsumer | `ClobBook` |
| `AppLog` | what an app server promises: one log, answers that keep their place, a chain that follows | |
| `ClobNode` | the CLOB server: handlers, engine, listener, batcher, database, restarts | refines `AppLog` |
| `Pairing` | what the game promises: who waits is paired with who comes, partners were paired | |
| `MatchingGame` | game server, core, program and contract, one process after another | refines `Pairing` |
| `ExecClient` | allow lists, validator, new heads, the EVM without gas | |
| `FoldLemmas` | induction over finite sets and sequences: what the sums and folds of the community modules are | TLAPS |
| `CoprocessorNode_proofs` | theorems of `ConsumerActors` and `CoprocessorNode` | `CoprocessorNode` |
| `ClobSettlement_proofs` | theorems of `ClobBook` and `ClobSettlement` | `ClobSettlement`, `FoldLemmas` |
| other `*_proofs` | theorems of the module they are named after | that module |
| `MC*` | instances for TLC | the module they are named after |

A definition named `X_Y` is a variant of `X` with a plausible mistake `Y`; no
specification uses it. Put in the place of `X` it breaks the property `PROJECT.json`
pairs it with, which shows that the property depends on that piece of the code.

### ConsumerActors

A constant set `Job` stands for the `submit_job` calls; two of them may share a nonce.
`call[j]` is the place in `submit_job`, `pendingReply` and `nextNonceReply` are the
oneshot channels. `execRx` and `relayRx` are the two mpsc channels; awaiting room is the
guard on their length, and both have capacity `ChannelBound` (`exec_queue_bound`).
`task` is the join set, `completedTasks` the BTreeMap keyed by nonce. `sending` is the
job whose `send().await` the actor is inside: while it is set the actor neither receives
nor joins, exactly as the body of a `select!` branch. `SendOrdered` ends with the next
turn of the drain loop. `relay[j]` is the job's place in `relay_job_result`; `settled`
is a history variable, the decisions in the order they were made.

Left out: the order in which `select!` looks at its branches, back-off times, and the
exit branch of the execution actor, which cannot be taken while the relay actor holds a
sender of its channel. The module lets callers wait for their answers; `AbandonedCalls`
drops that assumption.

### CoprocessorNode, ProgramStore, EventListener

`CoprocessorNode` takes the actions of `ConsumerActors` together with what the code does
around them, so each action is still one handler up to its next await. Rows are keyed by
nonce (a job id hashes nonce and consumer). The writer takes one message per step and then
answers the call or the DLQ task that waits for it (`ack`). Two points follow the code to
the letter:

* `AttemptsLeft`: the loop at `relayer.rs:352-379` tries `MaxRetries + 2` times, one
  more than the comment at `relayer.rs:342` says;
* `JobsMatch`: a submitted job always has status Pending, so it never equals a stored
  row that is Failed, and the refusal for a job that failed before
  (`Refused`, first disjunct) is never taken.

A failed attempt may leave its transaction in the mempool, from where `Mine` takes it at
any time. The JobManager accepts one result per nonce, and the transactions of the jobs in
`MayRevert` may be reverted besides: their job was cancelled, their state root went stale, or
relayer or operator were replaced since the gas was estimated. `mined` are the jobs that have
a mined transaction, which is all the code asks for (`Included`), `onChain` the nonces that
have a result. `SubmitMissing` is the lookup that finds no row and `SubmitNew` the write, so
that several calls may pass the lookup before the first write. `Crash` resets all that is in
memory and keeps tables, chain and mempool; callers may then submit again.

`ProgramStore` adds `submit_elf`: lookup, the write of the ELF, `create_program`, the write
of the program, the answer when the latter is done. Several calls run at a time, and one
may bring an ELF under an id that is not its own. Of the executor service
(`crates/zkvm-executor`) this takes three facts: an ELF has one id, no two ELFs share one
(`IdOf`, a hash), and some ELFs make no program (`Loadable`). A job whose program a worker
does not find fails. `EventListener` adds the task that reads the chain block by block and awaits
`submit_job` for every event, up to four times; `HeightWrite` joins the writer's queue
behind the rows of the block, which is why what a crash cuts off is always a suffix.
`Restart` is `Crash` for all of it.

### JobManager

One action per transaction (`SubmitResultForOffchainJob` takes the result in
`CompleteOffchainJob`). Ids and hashes are the values they stand for. The result a
relayer submits is any member of `Result`, so stale, repeated and mismatched results and
those of former operators are all tried. `Request.signer` is the key that signed the
offchain request. Reentrancy is not modelled: no consumer in the repository calls back.

### ClobBook and ClobSettlement

`tick` and what it calls are operators on the state, as in the code: `Limit` is
`OrderBook::limit` with its loop over price levels (`Match`, a fold over the set of crossed
prices that takes the best price first) and over the orders of a level
(`FillAtPriceLevel`, a fold over the queue); `CancelInBook` is `OrderBook::cancel`, which looks at the
bids first and leaves an emptied level behind; `add_order`, `cancel_order`, `deposit` and
`withdraw` return the response, the state and the diffs. Amounts are taken modulo
`Modulus`. An order keeps the size it came with when its rest enters the book, as in the
code, so `Auction` lets the shown size of a new order be anything from what is left to what
it came with; price-time priority is refined exactly.

`ClobSettlement` runs the CLOB ahead of the chain. `deltas` is what `zkvm_stf` has summed
up since the last batch, `Settle` is the contract's `_receiveResult`, with its checked
arithmetic as a guard (`Covered`). A batch may end after any request.

### ClobNode

Tasks of one process over one database; each database transaction and each exchange of
messages is a step. Since `tick` is a function, a state is the sequence of requests that
leads to it. The engine stores a request under the next index (`See`), then index, response
and state in one transaction (`Tick`), then answers. The index it stores when it has seen a
request is written and never read, so `See` keeps the request only: after a crash the index
is given to the next request, and the one that was seen is lost with its client waiting.
`Restarted` builds the tasks from the tables; every task that returns an error ends the
process.

The coprocessor node answers as in `coproc/intake.rs` (`Store`, `SubmitRefused`), executes
Ordered jobs and relays them by nonce; a job may fail to execute, after which later nonces
wait for it, or use up its attempts and be left to the dead letter queue. The contract takes
a result whose input root is its own, unless one of its checked subtractions fails
(`Refusable`): it can when a deposit is credited twice, and for the requests in `Unbacked`,
which stand for those that `clob_mirror` shows to exist. What amounts make it fail is a matter of
`ClobSettlement`; here the outcome is open, and a transaction that reverts may be given up or,
when it is mined, count as relayed.

### MatchingGame

The same shape with all of it in memory: `Ends` loses everything, and `See`, `Apply`,
`Collect`, `Submit`, `Save` are the steps of engine and batcher. The trie is the map it
stands for. `ApplyRequests` is used three times, as in the code: by the engine for one
request, by the batcher for its own root, and by the program, which finds the matches that
the contract records. Cancelling a number where one does not wait panics.

### ExecClient

The code here is a validator in front of reth's pool, gas handlers in revm, and the lists
they read. What reth and revm do around them (blocks, reorgs, notifications, frames) is
modelled as far as the code depends on it and marked external. Validation is three steps,
with the allow list read first, the forks next and the state last, while new heads come in
three steps as well (forks, timestamp, pool). What a pooled transaction is held against are
history variables that the code does not have: the time of the last head the pool is done
with (`settled`), the latest time of any head (`latestHead`), and the heads that were due when
a validation began (`checkedAt`). `DeductCaller`, `Frame` and `Reimburse` are a
transaction's execution under `evm/gas.rs`.

## 3. The runs

| Run | Instance | Shows |
|---|---|---|
| `actors` | nonces 1, 2, 2 and an Unordered job, one of the second pair and the Unordered one may fail; capacity 3 | refinement of `OrderedRelay` with its liveness, `InTurn`, `AcceptedIsAccounted`, `RefusalIsFinal`, `PendingCoversPipeline`, `SubmittedIsSettled` |
| `narrow_channels` | three Ordered jobs and an Unordered one, capacity 1 | violation of `SendCompletes` |
| `abandoned_calls` | two Ordered jobs | violation of `AnswersAreAwaited` |
| `node` | one nonce submitted twice with different content, an Unordered job that may fail or revert, no crash | `RelayedIsMined`, `DeadLetterIsKept`, `RelayedIsFinal` |
| `node_crash` | two clients; or an onchain request in the first of two blocks; or four uploads for two ids beside a client; one crash anywhere, every call repeated | `AnsweredIsStored`, `PassedBlocksAreSubmitted` |
| `node_live` | two Ordered jobs that may revert, one retry, two retries in the DLQ | `AckedIsResolved`, `OvertakenOnlyWhenDead`, `PendingAtRestIsDead` |
| `job_manager` | nonces 0 to 2, two of terms, roots, relayers and keys | `NextNonceFresh`, `RootChain`, `AcceptedOnce`, `AcceptedAsRequested` |
| `clob_book` | two users, one with base and one with quote, prices and sizes 1 and 2, three orders, two deposits, the contract anywhere behind | refinement of `Auction` (`ServesInTurn`), `BookNotCrossed`, `BookAgrees`, `TradesConserveFunds`, `ConsumerIsSolvent`, `SidesMoveTogether` |
| `clob_mirror` | the same | violation of `ConsumerMirrorsClob` |
| `clob_node` | an HTTP request that the contract may refuse and two deposits in one block, five indexes, one crash, client that leaves, call, execution or relay that fails | refinement of `AppLog` (`KeepsTheLog`), `StatesAreReplays`, `BatchesAreProcessed`, `DepositsAreCredited`, `ChainCatchesUp`, `RequestsAreAnswered` |
| `matching_game` | two users at one number, four requests, the end of the process and two more | refinement of `Pairing` (`PlaysTheGame`), `RootsAreReplays`, `MatchesArePublished` |
| `exec_client` | an eip7702 transaction, a creation that is not funded at first, a transaction with seven blobs; two lists, Prague with the second; three blocks or reorgs, one restart | `EtherIsConserved`, `OnlyUnfundedCreationsRepeat`, `PooledWasAllowed` |

### Bounds, and why they are enough

* Jobs: a nonce that must wait, one it waits for, a repetition and a job of the other
  strategy are the smallest set in which every branch of both actors and every pair of
  interfering handlers occurs. Symmetry is not used: the jobs differ in nonce and
  strategy.
* `ChannelBound` 3 in `actors`: four calls put at most a message each in `execRx` and the
  relay side one per job, so that channels become full but do not jam, and the
  properties are checked with senders that wait. Capacity 1 in `narrow_channels` stands
  for 256 in the default configuration, with correspondingly more jobs. The node runs
  use 4, where channels never fill: the jam is not what they are about.
* `MaxRetries`, `DlqMaxRetries`: 0 or 1 reach the first, a repeated and the last attempt;
  `node_live` uses 1 and 2. `SubmitJobRetries` 2 stands for 4: a retry and the last one.
* `MaxCrashes` 1: a second crash starts from the same kinds of state, tables and chain
  being all that remains. No claim is made for several crashes.
* Scenarios of `node_crash`: the ways into the node one at a time, since each brings its
  own writes into the same queue; the first block has a request and the second none, so
  that the height moves past a block with and without jobs.
* `MaxUint64` 2: nonce 0, a request, an offchain job above it, and the overflow.
* `clob_book`: three orders are a maker, one behind it or on another level, and a taker
  that takes both or in part; deposits of 3 base and 4 quote cover some pairs of orders and
  not others. `Modulus` 64 is above every amount that a correct book could show and small
  against the wrap below zero.
* `clob_node`: `MaxIndex` 5 holds the three requests and the two deposits once more after
  a restart, so that a replay and a batch that spans it occur. `MaxTroubles` 1: one thing
  goes wrong. `Unbacked` holds the HTTP request: the contract may refuse the batch with it
  and take those of the deposits, and one request is enough to stop it.
* `MayRevert`: the Unordered job beside an Ordered one that does not revert, in `node_live`
  both; a second way to revert would be the same step. None in `node_crash`, which is about
  what is in the tables: there, `RelayedIsMined` is left to the proof.
* `matching_game`: four requests make two matches, or a match around a cancellation; two requests
  to the next process make one more that the chain does not take.
* `exec_client`: `MaxBlocks` 3 reaches a block, its replacement by an older one and a
  successor under the second list. `MaxTime` 2 has one second under each list. Seven blobs
  are above Cancun's limit of six and below Prague's nine; each transaction needs one of the
  lists, and two of them Prague, so that a fork or a list mistaken for another lets one in.

`RelayedIsFinal` is stated for nonces submitted once, `DeadLetterIsKept` for nonces that
one call uses or several Ordered ones (`Unshared`). The tables are keyed by a job's id,
which is nonce and consumer, and two Unordered jobs with one nonce are both executed: they
share a row, and the DLQ's deletion after the first may take the dead letter of the second.
With a crash, `RelayedIsFinal` and `DeadLetterIsKept` do not hold either, and are therefore
checked in `node` only. A call resubmitted after the restart can read the row before the
DLQ relays the job and write `Pending` over `Relayed`; and the DLQ's deletion by id
removes a failure row written since its snapshot. Nothing in the repository's docs
promises either, so they are hazards rather than findings. In the same way a deposit is
credited once, and the chain catches up, only while the CLOB's process runs
(`troubles = 0` in `DepositsAreCredited`, `ChainCatchesUp`, `RequestsAreAnswered`), and the
matching game's (`ends = 0` in `MatchesArePublished`): after a restart a block whose height
was not saved is replayed, and the batcher's nonce starts at 1 again (the `TODO` at
`clob/node/src/batcher.rs:151`).

### Fairness

`ConsumerActors!Fairness`: weak fairness for receiving, joining, sending, each worker and
each relay task. tokio polls the branches of `select!` in random order, workers and relay
tasks are threads or tasks of their own, and `relay_job_result` makes a bounded number of
attempts. Nothing obliges a caller. The run establishes `SubmittedIsSettled` only for jobs
all of whose predecessors were sent and do not fail.

`CoprocessorNode!LiveNodeSpec`: one weak fairness condition for everything the node and
the chain do by themselves. It says that the runtime does not stop while something can
run and that the chain mines what is broadcast (`get_receipt` waits without a limit).
It asks nothing of a single task; `AckedIsResolved` says that no such run leaves an
accepted job stuck.

`ClobNode!Fairness` and `MatchingGame!Fairness`: weak fairness for each task of the server
as a whole (engine, listener, batcher) and for the coprocessor node behind it. Each is a
loop on a tokio task that nothing else blocks. Crashes, failing calls and clients are not
under any fairness.

`EventListener`, `ClobSettlement` and `ExecClient` state safety only.

## 4. The proofs

All are checked by `tlapm` without further assumptions than the constants' (`ASSUME`s in
the modules, evaluated by TLC on every run): numbers are numbers, the job of a nonce and the
body of a transaction are what they are said to be, a value that stands for "none" is none
of the values. Nothing is assumed of how many jobs, calls, nonces, retries, blocks, crashes
or accounts there are. The inductive invariants were tried with TLC on the instances of
section 3 before they were proved.

### The actors

The first part of `CoprocessorNode_proofs`, for any set of jobs, nonces, strategies and any
capacity:

* `TypeCorrect`: `Spec => []TypeOK`; one lemma for each group of actions.
* `AlwaysInTurn`: `Spec => []InTurn`. `InTurn` is inductive relative to `TypeOK` and is
  what the promise needs: no job that is next waits in the map; one job waits per nonce;
  the job being sent has the next nonce; the relay queue is sorted; one Ordered job is in
  hand and it has the next nonce to settle; nothing is missing between what is settled
  and what was handed over. Without the last two parts, `Settle` could append a nonce out
  of turn. `HeadIsNext` is the step they are for: the job taken from the queue is the next
  to settle.
* `ActorsKeepPromise`: `Spec => KeepsPromise`, every step is a `HandOver`, a `Settle` or a
  stuttering step of `OrderedRelay`.
* `AlwaysAccounted`: an accepted job that cannot fail is in the channel, with a worker, in
  the map, or its nonce was handed over. It rests on `InTurn` (a job is in the map only
  while its turn is to come) and on the fact that the next nonce never decreases.
* `RefusalsAreFinal`: the answer `submit_job` decides on may be old but never too high.
* `AlwaysOnceThrough`: a job is in one place at a time (`OnePlace`) and no message about it
  is in a channel twice. With it, `PendingIsCovered`: the pending set covers the pipeline,
  for nonces submitted once. `PendingIsAccounted` is the other direction: a nonce is pending
  only while some job with it is held somewhere, was given up, or may fail.
* `NoncesAreHandedOnce`: of the submissions of an Ordered nonce one gets to the relay actor.

### The node

`CoprocessorNode_proofs` goes on with the node: `NodeInv` is types, `RelayedInv` (a transaction that is waited
for is in the mempool until it is mined; a job that is landed or unsaved has a mined
transaction), `StoredInv` (a call past its first write has a row) and `AnsweredInv`; `QueueInv`
says that the writer's queue holds only writes that may be made (`NodeWrites`), a set that
grows with what is mined. That the parts say nothing of each other's variables lets
`EventListener_proofs` use them with a larger set of writes. `NodeTypeCorrect` and
`NodeRelayedIsMined` follow.

Its last part is about a node that stays up.

* `NodeRunsActors`: `NodeSpec => Spec`. Every step of the node is one of `ConsumerActors` or
  leaves its variables alone. The one step for which this takes an argument is `SpawnActor`,
  which sets the next nonce from the chain: before an actor exists nothing was sent or
  executed (`Dormant`), so nothing is on chain and what was read is `FirstNonce`. From here
  on every theorem about the actors is one about the node, `NodeKeepsPromise` first.
* `OvertakenOnlyWhenDeadHolds`: `OrderInv` says that each nonce before the next one to settle
  has a mined transaction or its job was given up (`SettledInv`), and that whatever is mined or
  in the mempool belongs to a job whose turn has come (`ReachedInv`). For the transactions of the
  DLQ it needs `DeadLetterInv` and `DeadQueue`: all that the DLQ handles, queued writes
  included, was given up.
* `PendingAtRestIsDeadHolds` from `PendingIsAccounted`, with "at rest" taken apart.
* `RelayedIsFinalHolds`: for a job whose nonce is its own, every write after the one that
  says `Relayed` says so too (`LastWordInv`), since a call has written before the job was
  handed over (`FreshCalls`), a worker before it replied, and nothing is saved before it is
  reported or given up.
* `DeadLetterIsKeptHolds`: for an unshared nonce, a row in the hands of the DLQ is the one in
  the table, one marked for deletion may be dropped, and a first failure row in the queue
  comes before all that (`Kept`). `DlqShape` is what makes it inductive: the DLQ task waits
  for each of its writes and deletes after the pass, so two of its writes are never queued
  together; `OneIsHanded` excludes a second row from the relay actor.

`EventListener_proofs`, across any number of crashes and restarts: `ListenerInv` adds what
program store and listener keep. An ELF's write comes before its program's in the queue
(`ElfComes`), and a block up to the listener's is submitted; a saved height is at most the
listener's. A crash empties the queue and sends the listener back to the saved height: what
was said of the blocks before it stays true because a submitted job is in the tables, not
only with its call. `RelayedIsMinedHolds`, `AnsweredIsStoredHolds` and `PassedBlocksAreSubmittedHolds` follow.

### The contracts and the applications

`JobManager_proofs`, for any number of nonces and any sets of terms, roots and keys: the
inductive invariant `IInv` is the conjunction of the run's invariants and `NoBlobYet` (a
nonce without a job has no blob hash, which `AcceptedAsRequested` needs when an offchain
result without a blob completes it). `AcceptsInv` is the shared argument for both entry
points. From the same invariant follows `JobsStayFixed`: every step satisfies the action
property `JobsAreFixed`, which is proved and not in the run, where `AcceptedOnce` and
`AcceptedAsRequested` already depend on it.

`ClobNode_proofs`, across crashes: `LogInv` places the engine on the log (`EngineOnLog`:
what it holds in memory is what the tables have at its index) and makes every batch, being
collected or submitted, a stretch of it between two stored states (`BatchesOnLog`).
`StatesAreReplaysHolds`, `BatchesAreProcessedHolds` and `KeepsTheLogHolds`, the refinement of
`AppLog`, follow. `DepositsAreCreditedHolds` needs `DepositInv`: at most one deposit is in
flight, those behind the listener are logged and, as long as nothing went wrong, logged once
and by the listener.

`ExecClient_proofs`: along the chain every block follows its parent and no account's nonce
goes back (`ChainInv`), so a transaction included twice left the nonce alone the first time:
`OnlyUnfundedCreationsRepeatHolds`. `PoolInv` says that the
validator's time is that of the last head the pool is done with or of the next one
(`ValidatorInv`), hence of a head that was due when the allow list was read, and that a fork is
taken for active only when some head was past it. What a transaction has passed it keeps on
its way into the pool (`AllowedIn`), since later heads only add to the forks:
`PooledWasAllowedHolds`. `EtherIsConservedHolds`:
all balances together are worth the same in every block of the chain (`Worths`); what the
steps of a transaction take from the sender, a recipient and the sequencer adds up
(`SumWithMore`), also when they are one account. The set of accounts is assumed to be
finite, since the sum over an infinite one is not defined.

### Sums and folds

`FoldLemmas` has the inductions over data. `SumFunctionOnSet`, `FoldLeft` and the other
folds of the community modules are recursive functions on the subsets of a set, and what
such a function is for a set that is not written out takes an induction. The induction
theorems of the library have an operator as a parameter; here every induction is the choice
of a smallest counterexample (`Smallest`, from `WFMin`) among the members of a set that is
named in the proof. From it come that the recursion has one solution (`IterationExists`), sums of
sums and of changed functions, that the elements of a sum may be taken in any order
(`SumInAnyOrder`), that a fold along a sequence has a state after every prefix
(`FoldRuns`), and the fold of an appended element. A fold of a module is used through
the function of its steps (`FillSteps`, `ApplySteps`, `Turns`).

### The matching game

`MatchingGame_proofs`, for any users, numbers and requests and any number of processes:
`GameInv` says that the engine's trie is the replay of the requests it stored
(`EngineInv`), that the batcher stands between two stored requests with the root of
the first of them (`BatcherInv`), and that matches on their way and on chain are of users an
engine paired (`ChainInv`). `RootsAreReplaysHolds` follows, since the replay of a batch from
the root of its start is the replay of the whole prefix, and `PlaysTheGameHolds`, the
refinement of `Pairing`: at most one user waits at a number, so that each request is a step
of the game, and what a batch records is a subset of the pairs made.

### The CLOB

`ClobSettlement_proofs`, for any users, trades, deposits, withdrawals, any number of orders
and any width of the amounts:

* `SettlementInvariant`: `SettlementInv` says that the state of the CLOB is sound (`Sound`:
  both assets have the same accounts, amounts are u64, no bid level is at or above an ask
  level), that all that diffs did to the free and locked balances of one asset adds up to
  nothing (`AddsUpToNothing`), and that the contract holds the tokens of its three balances.
  Users are assumed to be finitely many, since the sum over an infinite set is not defined.
  `ClobTypeOKHolds`, `BookNotCrossedHolds` and `ConsumerIsSolventHolds` follow.
  `BookNotCrossed` is inductive by itself, but only through what the matching loop leaves:
  if anything remains of the taker, none of the levels it crosses is left (`Swept`).
* `BookAgreesHolds`: `Agreement` (`Agreed(clob)`) is what is inductive. Every level holds
  orders of its side and price in a queue in which ids ascend and sizes are above zero
  (`Tidy`, `Queued`), the index names each resting order with its price and nothing else
  (`Names`), every status has a resting order that shows at least what is left of it
  (`Backs`), and ids are below the next one. That no order rests twice follows. `Took` follows
  one order through the fills of a level and of the whole book: what is left of the book is
  what was there, with orders cut that were filled in part and without those that were
  filled.
* `TradesConserveFundsHolds`: sums modulo `Modulus` (`Near`). `Moves(g, f, n)` says that the
  balances `g` hold n more than `f`: one `Adjust` moves its amount (`AdjustMoves`, from
  `SumWithMore`), `Lock` and `Unlock` move nothing between them, and a fill takes from one
  account what it gives to another. It needs `Agreement`: by `Took` the makers of the fills
  are resting orders, so their owners have the accounts that `Adjust` changes.
* `SidesMoveTogetherHolds`: the code writes each movement of funds twice, into the balances
  of its state and into a diff that the contract applies later. `Level` is, for a user and an asset, what
  the deltas bring (`Net`) less what the CLOB holds (`HeldIn`), and a request keeps it modulo `Modulus`
  (`InStep`): its one diff brings what the state gained (`Grown`, `ApplyInStep`), and for an
  order the fills are taken one by one on both sides (`FillsInStep`). A batch moves the
  deltas to the contract, so `Level` and what is due there (`Due`) together stay (`SettleKeepsGaps`). It is
  what remains true beside the violation that `clob_mirror` shows: the sides agree on what a
  user owns, not on how much of it is locked.
* `ServesInTurnHolds`: `SettlementSpec => ServesInTurn`, the refinement of `Auction`.
  `Served(n, K, r, A)` says that of a taker of size n, r is left once it was served from the
  orders K, and A of them, each reduced by what `Auction` says is taken from it. A step of the
  loops adds one order to K that is `Behind` all of it (`ServeMore`), since a level is a
  queue by age (`LevelServed`) and the levels are taken best price first (`LastIsBehind`,
  `TakeLevelServes`, `MatchServes`). `LimitServes` adds the side of the order, `CrossedOrders`
  says that the levels taken are the orders `Auction` crosses.

### Only model-checked

Liveness, since TLAPS has no support for `ENABLED`: `KeepsLivePromise`,
`SubmittedIsSettled`, `AckedIsResolved`, `ChainCatchesUp`, `RequestsAreAnswered`,
`MatchesArePublished`. Every invariant, action property and safety refinement of a passing run is
stated by a theorem.

No module declares a `RECURSIVE` operator.

## 5. Findings

1. `narrow_channels`: the execution actor and the relay actor wait on each other for ever
   when both channels are full (`execute.rs:156-167`, `relayer.rs:392`).
2. `abandoned_calls`: a client that disconnects while its call awaits an answer ends the
   execution actor (`execute.rs:134`, `140`); `active_actors` keeps its dead channel.
3. `clob_mirror`: an order filled in part on arrival rests with its full size
   (`clob/core/src/orderbook.rs:165-167`). More can be taken from it than its owner has
   locked: the CLOB's balance wraps around, and the contract reverts. A cancellation after a
   partial fill tells the contract to unlock more than the CLOB does (`lib.rs:136-139`), and
   of a maker the CLOB unlocks too little, since `cancel_order` takes what was filled off the
   size that the book has cut already (`lib.rs:136`, `145`, `orderbook.rs:56`): sell 2 at 1, buy
   1 at 1 and cancel the sell, and 1 base stays locked with no order, against
   `clob/core/src/api/mod.rs:170-171`. A maker whose status went, because its filled size reached
   its size while more of it rests, cancels to nothing (`lib.rs:126-131`, `223-228`).

Smaller disagreements between comments and code, found on the way and not given a run:

* `intake.rs:313-314` says the pending nonces "are not yet on chain"; a job that the dead
  letter queue relays stays among them until the process restarts (`relayer.rs:145-161`
  sends no `Relayed`). `PendingAtRestIsDead` says that no other nonce does.
* `coprocessor_node.v1.rs:278` says Ordered results are relayed in order; one whose attempts
  are used up is passed over (`relayer.rs:316`) and retried later. `OvertakenOnlyWhenDead`
  says that nothing else is overtaken.
* `relayer.rs:341` says that a transaction that fails is recorded in the dead letter queue;
  the relayer takes any receipt for success (`relayer.rs:478-500`, `560-625`). A transaction
  that reverts after its gas was estimated is reported and saved as relayed, is not in the
  queue, and its job cannot be submitted again. `RelayedIsMined` says what holds.
* `relayer.rs:342` counts one attempt fewer than the loop makes.
* `clob/node/src/db/mod.rs:13` says the processed index "is gte seen"; it is written after the
  seen one, which nothing reads.
* `exec/evm/gas.rs:29` leaves the nonce of a creation to the create logic, which bumps it only
  if the sender can fund it: a creation that is not funded is in a block, fails, and can be
  included again. `OnlyUnfundedCreationsRepeat` says that nothing else can.
* `bin/exec/README.md` tells of senders with priority; the pool is built with
  `CoinbaseTipOrdering` (`exec/pool/mod.rs:163`), and `GaslessOrdering` is used in tests only.

## 6. Not modelled, and the plan

Not modelled: encodings, protobuf and ABI types, blobs' commitments; the checks of gRPC and
HTTP handlers, which refuse a request before any state is touched; the HTTP gateway, metrics
and the CLI; the zkVM, a function, abstracted as the outcome of `Execute` (or, for the two
apps, as the replay of their own core); ERC20 tokens; the trie's encoding and the storage of
reth; transactions' checks in the pool that never change their outcome; scripts, mocks and
tests. The node and `JobManager` are modelled apart: what `CoprocessorNode` uses of the
contract is that a nonce gets at most one result, that a result may be refused, and what
`getNextNonce` returns; of a nonce taken by `requestJob` alone it does not take notice.

Simplified at the edges: after a worker panicked (`coproc/pool.rs:144`) the pool is taken to
have another; the matching game's coprocessor node executes and broadcasts every job
(`ClobNode` has the failures); the blocks of the execution client are without withdrawals, and
an eip7702 transaction without the effect of its authorizations.

What remains:

1. What holds of `RelayedIsFinal` and `DeadLetterIsKept` across a crash: until the next
   resubmission of the nonce.
2. A composition of the node with `JobManager`, which would say which results revert
   (`MayRevert`): state roots, and a cancellation between broadcast and mining.
