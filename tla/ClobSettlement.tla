--------------------------- MODULE ClobSettlement ---------------------------
(***************************************************************************)
(* The CLOB and its consumer contract (contracts/src/clob/ClobConsumer.sol)*)
(* together.  Users deposit tokens on chain; the deposit event becomes a   *)
(* request to the CLOB; the CLOB runs ahead of the chain; the zkVM program *)
(* sums the diffs of a batch of requests into deltas (zkvm_stf), and the   *)
(* contract applies the deltas to its own balances, with checked           *)
(* arithmetic, and pays withdrawals out.                                   *)
(*                                                                         *)
(* A batch ends wherever Settle is taken.  A result that the contract      *)
(* reverts leaves no trace in it, and no later result is accepted (its     *)
(* input root is not the contract's); here Settle is then not enabled.     *)
(***************************************************************************)
EXTENDS ClobBook, FiniteSets

CONSTANT MaxDeposits    \* bound on the deposits made on chain

\* An address is 20 bytes.
ASSUME UserAssumption == IsFiniteSet(User)

VARIABLES
    deltas,     \* zkvm_stf: the sums of the diffs since the last batch
    consumer,   \* the contract's balances and the tokens it holds
    events,     \* deposit events the CLOB has not seen
    made        \* number of deposits so far

settlementVars == <<clob, deltas, consumer, events, made>>

Nothing == Both(0, 0)
PerUser(x) == [u \in User |-> x]

NoDeltas == [deposits |-> PerUser(Nothing), withdraws |-> PerUser(Nothing),
             orders |-> PerUser([free |-> Nothing, locked |-> Nothing])]

Plus(a, b) == [asset \in Asset |-> a[asset] + b[asset]]
Minus(a, b) == [asset \in Asset |-> a[asset] - b[asset]]

\* Diff::Create and Diff::Cancel, the one the other way round.
ToLocked(orders, user, amounts) ==
    [orders EXCEPT ![user].locked = Plus(@, amounts), ![user].free = Minus(@, amounts)]
ToFree_StaysLocked(orders, user, amounts) == [orders EXCEPT ![user].free = Plus(@, amounts)]
ToFree(orders, user, amounts) ==
    [orders EXCEPT ![user].locked = Minus(@, amounts), ![user].free = Plus(@, amounts)]

\* Diff::Fill.
Exchange(orders, diff) ==
    LET base == Both(diff.amounts["base"], 0)
        quote == Both(0, diff.amounts["quote"])
        bought == [orders EXCEPT ![diff.buyer].locked = Minus(@, quote),
                                 ![diff.buyer].free = Plus(@, base)]
    IN  [bought EXCEPT ![diff.seller].locked = Minus(@, base),
                       ![diff.seller].free = Plus(@, quote)]

\* Diff::apply.
Apply(sums, diff) ==
    CASE diff.kind = "deposit"  -> [sums EXCEPT !.deposits[diff.user] = Plus(@, diff.amounts)]
      [] diff.kind = "withdraw" -> [sums EXCEPT !.withdraws[diff.user] = Plus(@, diff.amounts)]
      [] diff.kind = "create"   -> [sums EXCEPT !.orders = ToLocked(@, diff.user, diff.amounts)]
      [] diff.kind = "cancel"   -> [sums EXCEPT !.orders = ToFree(@, diff.user, diff.amounts)]
      [] diff.kind = "fill"     -> [sums EXCEPT !.orders = Exchange(@, diff)]

ApplyAll(sums, diffs) == FoldLeft(Apply, sums, diffs)

\* One turn of zkvm_stf's loop.
Accumulate(outcome) == deltas' = ApplyAll(deltas, outcome.diffs)

SettlementInit ==
    /\ ClobInit
    /\ deltas = NoDeltas
    /\ consumer = [deposited |-> PerUser(Nothing), free |-> PerUser(Nothing),
                   locked |-> PerUser(Nothing), tokens |-> Nothing]
    /\ events = <<>> /\ made = 0

\* ClobConsumer.deposit: the tokens are transferred and an event is emitted.
DepositOnChain(req) ==
    LET amounts == Both(req.base_free, req.quote_free) IN
    /\ made < MaxDeposits
    /\ made' = made + 1
    /\ consumer' = [consumer EXCEPT !.deposited[req.address] = Plus(@, amounts),
                                    !.tokens = Plus(@, amounts)]
    /\ events' = Append(events, req)
    /\ UNCHANGED <<clob, deltas>>

\* The deposit listener hands the event on to the CLOB.
CreditDeposit ==
    /\ events # <<>>
    /\ Deposit(Head(events))
    /\ Accumulate(deposit(Head(events), clob))
    /\ events' = Tail(events)
    /\ UNCHANGED <<consumer, made>>

RequestOrder(req) ==
    /\ AddOrder(req)
    /\ Accumulate(add_order(req, clob))
    /\ UNCHANGED <<consumer, events, made>>

RequestCancel(req) ==
    /\ CancelOrder(req)
    /\ Accumulate(cancel_order(req, clob))
    /\ UNCHANGED <<consumer, events, made>>

RequestWithdraw(req) ==
    /\ Withdraw(req)
    /\ Accumulate(withdraw(req, clob))
    /\ UNCHANGED <<consumer, events, made>>

\* What the contract's balances of a user become.
DepositedAfter(u) == Minus(consumer.deposited[u], deltas.deposits[u])
LockedAfter(u)    == Plus(consumer.locked[u], deltas.orders[u].locked)
OrderedAfter(u)   == Plus(Plus(consumer.free[u], deltas.deposits[u]), deltas.orders[u].free)
FreeAfter(u)      == Minus(OrderedAfter(u), deltas.withdraws[u])

PaidOut ==
    [asset \in Asset |-> SumFunctionOnSet([u \in User |-> deltas.withdraws[u][asset]], User)]

NotNegative(amounts) == \A asset \in Asset : amounts[asset] >= 0

\* The arithmetic is checked: below zero, the transaction is reverted.
Covered ==
    /\ \A u \in User :
          /\ NotNegative(DepositedAfter(u)) /\ NotNegative(LockedAfter(u))
          /\ NotNegative(OrderedAfter(u)) /\ NotNegative(FreeAfter(u))
    /\ NotNegative(Minus(consumer.tokens, PaidOut))

\* ClobConsumer._receiveResult: deposit deltas, then order deltas, then
\* withdrawals.
Settle ==
    /\ deltas # NoDeltas
    /\ Covered
    /\ consumer' = [deposited |-> [u \in User |-> DepositedAfter(u)],
                    free |-> [u \in User |-> FreeAfter(u)],
                    locked |-> [u \in User |-> LockedAfter(u)],
                    tokens |-> Minus(consumer.tokens, PaidOut)]
    /\ deltas' = NoDeltas
    /\ UNCHANGED <<clob, events, made>>

SettlementNext ==
    \/ \E req \in Deposits : DepositOnChain(req)
    \/ CreditDeposit
    \/ \E req \in Trades : RequestOrder(req)
    \/ \E req \in [oid : Oids] : RequestCancel(req)
    \/ \E req \in Withdrawals : RequestWithdraw(req)
    \/ Settle

SettlementSpec == SettlementInit /\ [][SettlementNext]_settlementVars

-----------------------------------------------------------------------------
(* Properties.                                                               *)

SumOver(f) == [asset \in Asset |-> SumFunctionOnSet([u \in User |-> f[u][asset]], User)]

\* The contract holds the tokens it owes: its balances, of all users and of
\* all three kinds, add up to what it holds, whatever the CLOB's state says.
ConsumerIsSolvent ==
    consumer.tokens = Plus(SumOver(consumer.deposited),
                           Plus(SumOver(consumer.free), SumOver(consumer.locked)))

InClob(balances, user, field) == IF user \in DOMAIN balances THEN balances[user][field] ELSE 0

\* "A state diff to balances" (api/program.rs:61): applied to the contract's
\* balances, the diffs give the balances of the CLOB's state.
ConsumerMirrorsClob ==
    \A u \in User :
        /\ FreeAfter(u) = Both(InClob(clob.base, u, "free"), InClob(clob.quote, u, "free"))
        /\ LockedAfter(u) = Both(InClob(clob.base, u, "locked"), InClob(clob.quote, u, "locked"))

\* By how much the contract is to end up with more of each asset, for a user, than
\* the CLOB has, as u64 wraps.
Owed(u) == Plus(FreeAfter(u), LockedAfter(u))
Held(u) == Both(InClob(clob.base, u, "free") + InClob(clob.base, u, "locked"),
                InClob(clob.quote, u, "free") + InClob(clob.quote, u, "locked"))
Gap(u) == [asset \in Asset |-> Wrap(Owed(u)[asset] - Held(u)[asset])]

\* A user's funds, free and locked together, move in the CLOB's state (`deposit',
\* `withdraw', `cancel_order' and `add_order' of lib.rs) and in the contract
\* (Diff::apply summed by zkvm_stf, then _receiveResult of ClobConsumer.sol) as one:
\* whatever is matched, and wherever a batch ends, the two sides differ by the
\* same amount before and after, while those whose orders rest have accounts.
\* (The two sides do disagree on what of it is free: ConsumerMirrorsClob.)
SidesMoveTogether ==
    [][Owners(Resting) \subseteq DOMAIN clob.base => \A u \in User : Gap(u)' = Gap(u)]_settlementVars

=============================================================================
