----------------------------- MODULE ExecClient -----------------------------
(***************************************************************************)
(* The execution client (bin/exec): the validator of the transaction pool  *)
(* with its allow lists, the notifications of new heads that it follows,   *)
(* and the EVM whose gas costs nothing.                                    *)
(*                                                                         *)
(* The rest of the client is reth: the pool behind the validator, the      *)
(* chain, the frames of revm.  It is modelled as far as the code here      *)
(* depends on it, and marked external.  A block has one transaction or     *)
(* none.  Gas has no part here: nobody pays for it.                        *)
(*                                                                         *)
(* Definitions named X_Y are variants of X with a mistake, as in ClobNode. *)
(***************************************************************************)
EXTENDS Integers, Sequences, SequencesExt, FiniteSets, FiniteSetsExt

CONSTANTS
    Account,
    HasCode,        \* the accounts with bytecode that is no delegation
    Tx,
    Body,           \* transaction -> what it says
    Forks,          \* IvmConfig: activation timestamp -> allow config
    ForkTime,       \* "cancun", "prague" -> activation timestamp
    BlobCount,      \* "cancun", "prague" -> most blobs in a transaction
    Genesis,        \* account -> balance
    MaxTime,        \* bound on timestamps
    MaxBlocks,      \* bound on the blocks ever imported
    MaxRestarts,
    NoTx, NoTo

ASSUME ExecAssumption ==
    /\ IsFiniteSet(Account) /\ HasCode \subseteq Account
    /\ Body \in [Tx -> [sender : Account, to : Account \cup {NoTo}, nonce : Nat, value : Nat,
                        type : {"legacy", "eip4844", "eip7702"}, blobs : Nat]]
    /\ DOMAIN Forks \subseteq Nat
    /\ ForkTime \in [{"cancun", "prague"} -> Nat]
    /\ BlobCount \in [{"cancun", "prague"} -> Nat] /\ BlobCount["cancun"] <= BlobCount["prague"]
    /\ Genesis \in [Account -> Nat]
    /\ NoTx \notin Tx /\ NoTo \notin Account /\ MaxTime \in Nat

VARIABLES
    chain,              \* the canonical blocks, genesis first
    events,             \* canonical_state_stream: what the pool is to be told
    update,             \* how far the pool is with the first of them
    forkTracker,        \* the hard forks the validator takes for active
    maxBlobCount,
    latestTimestamp,
    validation,         \* transaction -> how far its validation is
    pool,
    settled,            \* history: time of the last head the pool is done with, 0 since start
    latestHead,         \* history: latest time of any head since the start
    checkedAt,          \* history: times of the heads since `settled', that one included,
                        \* when the transaction's validation began
    blocks, restarts    \* counters for the bounds

validatorVars == <<forkTracker, maxBlobCount, latestTimestamp>>
boundVars == <<blocks, restarts>>
historyVars == <<settled, latestHead, checkedAt>>
vars == <<chain, events, update, validatorVars, validation, pool, historyVars, boundVars>>

Head0 == chain[Len(chain)]
From(tx) == Body[tx].sender

-----------------------------------------------------------------------------
(* Allow lists.                                                              *)

AllowConfigAllows(config, tx) ==
    \/ config.all
    \/ Body[tx].to \in config.to
    \/ From(tx) \in config.sender

\* The last fork at or before the timestamp decides; before any head everything
\* is allowed, and before the first fork nothing.
IsAllowed(tx, timestamp) ==
    LET started == {f \in DOMAIN Forks : f <= timestamp} IN
    \/ timestamp = 0
    \/ \E f \in started : (\A g \in started : g <= f) /\ AllowConfigAllows(Forks[f], tx)

-----------------------------------------------------------------------------
(* The EVM.                                                                  *)

Executable_NotBelow(state, tx) ==
    From(tx) \notin HasCode /\ Body[tx].nonce >= state.nonce[From(tx)]

\* tx_against_state: there is no check of the balance.
Executable(state, tx) ==
    From(tx) \notin HasCode /\ Body[tx].nonce = state.nonce[From(tx)]

Funded(state, tx) == Body[tx].value <= state.balance[From(tx)]

BumpNonce(state, account) == [state EXCEPT !.nonce[account] = @ + 1]

\* deduct_caller takes nothing; it bumps the nonce for a call, and leaves a
\* creation to the create logic.
DeductCaller(state, tx) ==
    IF Body[tx].to = NoTo THEN state ELSE BumpNonce(state, From(tx))

Transferred(balance, body) ==
    [[balance EXCEPT ![body.sender] = @ - body.value] EXCEPT ![body.to] = @ + body.value]

\* A frame that cannot transfer the value it needs is left before anything is
\* done, and the transaction has failed.  What a creation endows its contract
\* with leaves the accounts considered here.
Frame(state, tx) ==
    LET body == Body[tx] IN
    CASE ~Funded(state, tx) -> state
      [] Funded(state, tx) /\ body.to = NoTo ->
            [BumpNonce(state, body.sender) EXCEPT
                !.balance = [state.balance EXCEPT ![body.sender] = @ - body.value],
                !.endowed = @ + body.value]
      [] OTHER -> [state EXCEPT !.balance = Transferred(state.balance, body)]

\* reimburse_caller and reward_beneficiary do nothing.
Reimburse_Gas(state, tx) == [state EXCEPT !.balance[From(tx)] = @ + 1]
Reimburse(state, tx) == state

Executed(state, tx) == Reimburse(Frame(DeductCaller(state, tx), tx), tx)

-----------------------------------------------------------------------------
(* The chain.                                                                *)

ActiveForks(time) == {f \in DOMAIN ForkTime : ForkTime[f] <= time}

BlobLimit(active) == BlobCount[IF "prague" \in active THEN "prague" ELSE "cancun"]

GenesisState ==
    [nonce |-> [a \in Account |-> 0], balance |-> Genesis, endowed |-> 0]

Init ==
    /\ chain = <<[time |-> 0, tx |-> NoTx, state |-> GenesisState]>>
    /\ events = <<>> /\ update = "idle"
    /\ forkTracker = ActiveForks(0) /\ maxBlobCount = BlobLimit(ActiveForks(0))
    /\ latestTimestamp = 0
    /\ validation = [tx \in Tx |-> "none"]
    /\ pool = {}
    /\ settled = 0 /\ latestHead = 0 /\ checkedAt = [tx \in Tx |-> {}]
    /\ blocks = 0 /\ restarts = 0

\* Blocks on a parent: the pool has no say in those of others.  The timestamp
\* is not checked, so that it may be the parent's.  Withdrawals of the consensus
\* layer, which add to balances, are left out, and so are the authorizations of
\* eip7702 transactions.
BlocksOn(parent) ==
    {[time |-> t, tx |-> tx,
      state |-> IF tx = NoTx THEN parent.state ELSE Executed(parent.state, tx)] :
        t \in parent.time..MaxTime \ {0},
        tx \in {x \in Tx : Executable(parent.state, x)} \cup {NoTx}}

Later(s, t) == IF s < t THEN t ELSE s

\* What canonical_state_stream tells the pool's maintenance task of a new head.
Event(time, mined, reverted) == [time |-> time, mined |-> mined, reverted |-> reverted]

NewBlock ==
    /\ blocks < MaxBlocks /\ blocks' = blocks + 1
    /\ \E b \in BlocksOn(Head0) :
          /\ chain' = Append(chain, b)
          /\ events' = Append(events, Event(b.time, {b.tx} \ {NoTx}, {}))
          /\ latestHead' = Later(latestHead, b.time)
    /\ UNCHANGED <<update, validatorVars, validation, pool, settled, checkedAt, restarts>>

\* The head is replaced by another block on its parent.
Reorg ==
    /\ blocks < MaxBlocks /\ blocks' = blocks + 1
    /\ Len(chain) > 1
    /\ \E b \in BlocksOn(chain[Len(chain) - 1]) :
          /\ b # Head0
          /\ chain' = Append(Front(chain), b)
          /\ events' = Append(events, Event(b.time, {b.tx} \ {NoTx}, {Head0.tx} \ {NoTx, b.tx}))
          /\ latestHead' = Later(latestHead, b.time)
    /\ UNCHANGED <<update, validatorVars, validation, pool, settled, checkedAt, restarts>>

-----------------------------------------------------------------------------
(* on_new_head_block: first the standard validator, then the timestamp; then *)
(* the pool itself drops what was mined and validates again what was not.    *)

\* Forks are switched on and never off; the blob count stays as it was built.
UpdateForks ==
    /\ update = "idle" /\ events # <<>>
    /\ forkTracker' = forkTracker \cup ActiveForks(Head(events).time)
    /\ update' = "forks"
    /\ UNCHANGED <<chain, events, maxBlobCount, latestTimestamp, validation, pool, historyVars,
                   boundVars>>

StoreTimestamp_Newest ==
    latestTimestamp' = Max({latestTimestamp, Head(events).time})
StoreTimestamp == latestTimestamp' = Head(events).time

UpdateTimestamp ==
    /\ update = "forks"
    /\ StoreTimestamp
    /\ update' = "timestamp"
    /\ UNCHANGED <<chain, events, forkTracker, maxBlobCount, validation, pool, historyVars,
                   boundVars>>

UpdatePool ==
    /\ update = "timestamp"
    /\ pool' = pool \ Head(events).mined
    /\ events' = Tail(events)
    /\ update' = "idle"
    /\ settled' = Head(events).time
    /\ UNCHANGED <<chain, validatorVars, validation, latestHead, checkedAt, boundVars>>

-----------------------------------------------------------------------------
(* validate_one, by any of the validation tasks.  A transaction that is      *)
(* refused leaves nothing behind, and may be sent again.                     *)

Goto(tx, phase) == validation' = [validation EXCEPT ![tx] = phase]

Refused(tx) == Goto(tx, "none") /\ checkedAt' = [checkedAt EXCEPT ![tx] = {}]

CheckAllowList(tx) ==
    /\ validation[tx] = "none" /\ tx \notin pool
    /\ IsAllowed(tx, latestTimestamp)
    /\ Goto(tx, "allowed")
    /\ checkedAt' = [checkedAt EXCEPT ![tx] = {settled} \cup {events[i].time : i \in DOMAIN events}]
    /\ UNCHANGED <<chain, events, update, validatorVars, pool, settled, latestHead, boundVars>>

\* The type, the blobs and whatever else depends on the hard fork.  The checks
\* that a transaction passes or fails for good (size, gas, fees, chain id) it
\* passes here.
PassesForks(tx) ==
    /\ Body[tx].type = "eip7702" => "prague" \in forkTracker
    /\ Body[tx].type = "eip4844" =>
          "cancun" \in forkTracker /\ Body[tx].blobs \in 1..maxBlobCount

CheckForks(tx) ==
    /\ validation[tx] = "allowed"
    /\ \/ PassesForks(tx) /\ Goto(tx, "checked") /\ UNCHANGED checkedAt
       \/ ~PassesForks(tx) /\ Refused(tx)
    /\ UNCHANGED <<chain, events, update, validatorVars, pool, settled, latestHead, boundVars>>

\* Against the latest state: bytecode and nonce, not the balance.
PassesState(tx) ==
    From(tx) \notin HasCode /\ Body[tx].nonce >= Head0.state.nonce[From(tx)]

CheckState(tx) ==
    /\ validation[tx] = "checked"
    /\ \/ PassesState(tx) /\ Goto(tx, "none") /\ pool' = pool \cup {tx} /\ UNCHANGED checkedAt
       \/ ~PassesState(tx) /\ Refused(tx) /\ UNCHANGED pool
    /\ UNCHANGED <<chain, events, update, validatorVars, settled, latestHead, boundVars>>

-----------------------------------------------------------------------------

\* The client is started again on its chain: the validator is built anew.
Restart ==
    /\ restarts < MaxRestarts /\ restarts' = restarts + 1
    /\ events' = <<>> /\ update' = "idle"
    /\ forkTracker' = ActiveForks(Head0.time)
    /\ maxBlobCount' = BlobLimit(ActiveForks(Head0.time))
    /\ latestTimestamp' = 0 /\ settled' = 0 /\ latestHead' = Head0.time
    /\ checkedAt' = [tx \in Tx |-> {}]
    /\ validation' = [tx \in Tx |-> "none"]
    /\ pool' = {}
    /\ UNCHANGED <<chain, blocks>>

\* Nobody has to send a transaction or a block.
Idle == UNCHANGED vars

Next ==
    \/ NewBlock \/ Reorg
    \/ UpdateForks \/ UpdateTimestamp \/ UpdatePool
    \/ \E tx \in Tx : CheckAllowList(tx) \/ CheckForks(tx) \/ CheckState(tx)
    \/ Restart
    \/ Idle

Spec == Init /\ [][Next]_vars

-----------------------------------------------------------------------------
(* Properties.                                                               *)

\* Gas is neither paid, nor refunded, nor earned: in every block the accounts
\* and the contracts they endowed have what genesis gave out.
EtherIsConserved ==
    \A i \in DOMAIN chain :
        LET s == chain[i].state IN
        MapThenSumSet(LAMBDA a : s.balance[a], Account) + s.endowed
            = MapThenSumSet(LAMBDA a : Genesis[a], Account)

\* A transaction is in the chain once, across reorgs and restarts, and whether
\* or not it was in the pool; the only one that can come again is a creation
\* that its sender could not fund, whose nonce nothing has bumped.
OnlyUnfundedCreationsRepeat ==
    \A i, k \in DOMAIN chain :
        i < k /\ chain[i].tx # NoTx /\ chain[i].tx = chain[k].tx =>
            Body[chain[i].tx].to = NoTo /\ ~Funded(chain[i - 1].state, chain[i].tx)

\* The allow list in force at a timestamp.
InForce(f, time) == f <= time /\ \A g \in DOMAIN Forks : g <= f \/ g > time

\* A pooled transaction was allowed by the list of a head no older than the last
\* one the pool was done with when the validation began, be it an earlier time
\* after a reorg, unless the pool was not done with any since the start.
ListAllowed(tx) ==
    0 \notin checkedAt[tx] =>
        \E time \in checkedAt[tx], f \in DOMAIN Forks :
            InForce(f, time) /\ AllowConfigAllows(Forks[f], tx)

\* The hard fork that its type and its blobs need was active at some head since
\* the start, the one at the start included.
ForkWasActive(tx) ==
    LET active == ActiveForks(latestHead) IN
    /\ Body[tx].type = "eip7702" => "prague" \in active
    /\ Body[tx].type = "eip4844" =>
          "cancun" \in active /\ Body[tx].blobs \in 1..BlobLimit(active)

\* What is in the pool was allowed in, by time and by hard fork, though heads are
\* notified late, in steps, and may go back in time.
PooledWasAllowed == \A tx \in pool : ListAllowed(tx) /\ ForkWasActive(tx)
=============================================================================
