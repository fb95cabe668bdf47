----------------------------- MODULE ClobBook ------------------------------
(***************************************************************************)
(* The CLOB's core (examples/clob/core): the state machine that the        *)
(* server's engine runs as requests arrive and that the zkVM program runs  *)
(* again over every batch.  Each request is one step of `tick'; `tick' and *)
(* what it calls are operators on the state, as in the code, so that the   *)
(* same definitions serve the engine, the program and later modules.       *)
(*                                                                         *)
(* Amounts are u64 and the arithmetic wraps (overflow checks are off in    *)
(* release builds): it is taken modulo Modulus.  The list of fills kept    *)
(* with an order is used for its total quote only, and that is what is     *)
(* kept here.                                                              *)
(*                                                                         *)
(* Definitions named X_Y are variants of X with a plausible mistake Y.  No *)
(* specification uses them: put in the place of X, each makes TLC find a   *)
(* violation of one of the properties.                                     *)
(***************************************************************************)
EXTENDS Integers, Sequences, SequencesExt

CONSTANTS
    User,
    Trades,     \* the orders that may be asked for: AddOrderRequest
    Deposits, Withdrawals,   \* the deposits and withdrawals that may be asked for
    MaxOid,     \* bound on the orders added
    Modulus     \* 2^64

U64   == 0..(Modulus - 1)
Asset == {"base", "quote"}

AddOrderRequest == [address : User, is_buy : BOOLEAN, limit_price : U64, size : U64]
\* DepositRequest and WithdrawRequest.
FundsRequest    == [address : User, base_free : U64, quote_free : U64]

ASSUME AmountAssumption ==
    /\ Modulus \in Nat \ {0} /\ MaxOid \in Nat
    /\ Trades \subseteq AddOrderRequest
    /\ Deposits \cup Withdrawals \subseteq FundsRequest

VARIABLE clob   \* ClobState

Empty == [x \in {} |-> 0]

AssetBalance == [free : U64, locked : U64]
Order == [is_buy : BOOLEAN, limit_price : U64, size : U64, oid : Nat, address : User]
FillStatus == [size : U64, filled_size : U64, filled_quote : U64]

Wrap(n) == n % Modulus

\* The insertion of a key.
Put(f, x, v) == [y \in DOMAIN f \cup {x} |-> IF y = x THEN v ELSE f[y]]

QuoteSize(order) == Wrap(order.size * order.limit_price)

-----------------------------------------------------------------------------
(* orderbook.rs *)

\* One maker of a level against what remains of the taker.
FillMaker(acc, maker) ==
    LET size == Min({maker.size, acc.remaining}) IN
    IF acc.remaining = 0
    THEN [acc EXCEPT !.level = Append(@, maker)]
    ELSE [remaining |-> acc.remaining - size,
          fills |-> Append(acc.fills, [maker |-> maker, size |-> size]),
          level |-> IF size = maker.size THEN acc.level
                    ELSE Append(acc.level, [maker EXCEPT !.size = @ - size])]

\* The orders of one price level, oldest first, against a taker.  The makers
\* that are filled leave the level.
FillAtPriceLevel(level, remaining) ==
    FoldLeft(FillMaker, [remaining |-> remaining, fills |-> <<>>, level |-> <<>>], level)

Crosses_Strictly(order, price) ==
    IF order.is_buy THEN price < order.limit_price ELSE price > order.limit_price
Crosses(order, price) ==
    IF order.is_buy THEN price <= order.limit_price ELSE price >= order.limit_price

\* The prices of the other side that the order crosses.  Levels emptied by
\* cancellations still have their key.
CrossedPrices(order, levels) == {p \in DOMAIN levels : Crosses(order, p)}

\* Of some of these, the one that is taken last: the highest ask for a buy, the
\* lowest bid for a sell.
LastPrice_BestLast(order, prices) == IF order.is_buy THEN Min(prices) ELSE Max(prices)
LastPrice(order, prices) == IF order.is_buy THEN Max(prices) ELSE Min(prices)

\* One level; when nothing remains of the taker it is left alone, and when all
\* of its orders are filled it is removed.
TakeLevel(price, acc) ==
    LET taken == FillAtPriceLevel(acc.levels[price], acc.remaining)
    IN  IF acc.remaining = 0 THEN acc
        ELSE [remaining |-> taken.remaining,
              fills |-> acc.fills \o taken.fills,
              levels |-> IF taken.level = <<>>
                         THEN RestrictDomain(acc.levels, LAMBDA p : p # price)
                         ELSE [acc.levels EXCEPT ![price] = taken.level]]

\* The matching loop: level after level, the best price first.
Match(order, levels) ==
    MapThenFoldSet(TakeLevel, [remaining |-> order.size, fills |-> <<>>, levels |-> levels],
                   LAMBDA p : p, LAMBDA prices : LastPrice(order, prices),
                   CrossedPrices(order, levels))

LevelAt(levels, price) == IF price \in DOMAIN levels THEN levels[price] ELSE <<>>

Enqueue(levels, order) ==
    Put(levels, order.limit_price, Append(LevelAt(levels, order.limit_price), order))

\* OrderBook::limit.  An order that is not filled rests, with the size it came
\* with.
Limit(book, order) ==
    LET match == Match(order, IF order.is_buy THEN book.asks ELSE book.bids)
        filled == {match.fills[i].maker.oid : i \in
                      {k \in DOMAIN match.fills : match.fills[k].size = match.fills[k].maker.size}}
        left == RestrictDomain(book.oid_to_level, LAMBDA oid : oid \notin filled)
        rests == match.remaining > 0
    IN  [remaining |-> match.remaining, fills |-> match.fills,
         book |->
            [oid_to_level |-> IF rests THEN Put(left, order.oid, order.limit_price) ELSE left,
             bids |-> IF ~order.is_buy THEN match.levels
                      ELSE IF rests THEN Enqueue(book.bids, order) ELSE book.bids,
             asks |-> IF order.is_buy THEN match.levels
                      ELSE IF rests THEN Enqueue(book.asks, order) ELSE book.asks]]

\* OrderBook::cancel.  The side is the one that has a level at this price,
\* bids first; the level stays, even empty.
SideToCancel(book, price) == IF price \in DOMAIN book.bids THEN "bids" ELSE "asks"

CancelledOrders(book, oid) ==
    IF oid \notin DOMAIN book.oid_to_level THEN {}
    ELSE LET price == book.oid_to_level[oid]
         IN  {o \in ToSet(LevelAt(book[SideToCancel(book, price)], price)) : o.oid = oid}

CancelInBook(book, order) ==
    LET price == book.oid_to_level[order.oid] IN
    [book EXCEPT !.oid_to_level = RestrictDomain(@, LAMBDA oid : oid # order.oid),
                 ![SideToCancel(book, price)][price] = RemoveFirst(@, order)]

-----------------------------------------------------------------------------
(* api/program.rs: what a request did to the balances.  A Diff names its     *)
(* kind, whose balances, and the amounts of the two assets.                  *)

Both(base, quote) == [asset \in Asset |-> IF asset = "base" THEN base ELSE quote]

Diff(kind, user, amounts) == [kind |-> kind, user |-> user, amounts |-> amounts]

\* Diff::fill, with its two users.
FillDiff(buyer, seller, base, quote) ==
    [kind |-> "fill", buyer |-> buyer, seller |-> seller, amounts |-> Both(base, quote)]

-----------------------------------------------------------------------------
(* lib.rs: the requests.  Each returns whether it succeeded, the state after *)
(* it and its diffs; no diffs stand for Diff::Noop.                          *)

GenesisState ==
    [oid |-> 0, base |-> Empty, quote |-> Empty,
     book |-> [bids |-> Empty, asks |-> Empty, oid_to_level |-> Empty],
     order_status |-> Empty]

Outcome(success, state, diffs) == [success |-> success, state |-> state, diffs |-> diffs]

Adjust_Signed(balances, user, field, delta) ==
    IF user \in DOMAIN balances
    THEN [balances EXCEPT ![user][field] = @ + delta]
    ELSE balances

\* entry(user).and_modify(..): nothing happens to an account that is not there.
Adjust(balances, user, field, delta) ==
    IF user \in DOMAIN balances
    THEN [balances EXCEPT ![user][field] = Wrap(@ + delta)]
    ELSE balances

Credit(balances, user, amount) ==
    IF user \in DOMAIN balances THEN Adjust(balances, user, "free", amount)
    ELSE Put(balances, user, [free |-> amount, locked |-> 0])

deposit(req, state) ==
    Outcome(TRUE,
            [state EXCEPT !.base = Credit(@, req.address, req.base_free),
                          !.quote = Credit(@, req.address, req.quote_free)],
            <<Diff("deposit", req.address, Both(req.base_free, req.quote_free))>>)

Covers(state, user, base, quote) ==
    /\ user \in DOMAIN state.base \cap DOMAIN state.quote
    /\ state.base[user].free >= base /\ state.quote[user].free >= quote

Zero == [free |-> 0, locked |-> 0]

Prune_AnyEmpty(state, user) ==
    IF state.base[user] = Zero \/ state.quote[user] = Zero
    THEN [state EXCEPT !.base = RestrictDomain(@, LAMBDA u : u # user),
                       !.quote = RestrictDomain(@, LAMBDA u : u # user)]
    ELSE state

\* An account with nothing left in it is removed.
Prune(state, user) ==
    IF state.base[user] = Zero /\ state.quote[user] = Zero
    THEN [state EXCEPT !.base = RestrictDomain(@, LAMBDA u : u # user),
                       !.quote = RestrictDomain(@, LAMBDA u : u # user)]
    ELSE state

withdraw(req, state) ==
    IF Covers(state, req.address, req.base_free, req.quote_free)
    THEN Outcome(TRUE,
            Prune([state EXCEPT !.base = Adjust(@, req.address, "free", -req.base_free),
                                !.quote = Adjust(@, req.address, "free", -req.quote_free)],
                  req.address),
            <<Diff("withdraw", req.address, Both(req.base_free, req.quote_free))>>)
    ELSE Outcome(FALSE, state, <<>>)

Unlock(balances, user, amount) ==
    Adjust(Adjust(balances, user, "free", amount), user, "locked", -amount)

Lock(balances, user, amount) == Unlock(balances, user, -amount)

\* cancel_order: the order leaves the book first.  An order whose status is gone
\* gives nothing back.  The diff is about all of what the book shows of it.
cancel_order(req, state) ==
    LET found == CancelledOrders(state.book, req.oid)
        order == CHOOSE o \in found : TRUE
        status == state.order_status[req.oid]
        owner == order.address
        unbooked == [state EXCEPT !.book = CancelInBook(@, order)]
        closed == [unbooked EXCEPT
                      !.order_status = RestrictDomain(@, LAMBDA oid : oid # req.oid)]
        balances == IF order.is_buy THEN state.quote ELSE state.base
    IN  IF found = {}
        THEN Outcome(FALSE, [state EXCEPT !.book.oid_to_level =
                                RestrictDomain(@, LAMBDA oid : oid # req.oid)], <<>>)
        ELSE IF req.oid \notin DOMAIN state.order_status THEN Outcome(FALSE, unbooked, <<>>)
        ELSE IF owner \notin DOMAIN balances THEN Outcome(FALSE, closed, <<>>)
        ELSE IF order.is_buy
        THEN Outcome(TRUE,
                [closed EXCEPT !.quote =
                    Unlock(@, owner, QuoteSize(order) - status.filled_quote)],
                <<Diff("cancel", owner, Both(0, QuoteSize(order)))>>)
        ELSE Outcome(TRUE,
                [closed EXCEPT !.base = Unlock(@, owner, order.size - status.filled_size)],
                <<Diff("cancel", owner, Both(order.size, 0))>>)

\* The price of a fill is the maker's.
FillQuote(fill) == Wrap(fill.size * fill.maker.limit_price)

Buyer(order, fill)  == IF order.is_buy THEN order.address ELSE fill.maker.address
Seller(order, fill) == IF order.is_buy THEN fill.maker.address ELSE order.address

CountFill_OrEqual(order_status, fill) ==
    LET oid == fill.maker.oid
        status == order_status[oid]
    IN  IF oid \notin DOMAIN order_status THEN order_status
        ELSE IF status.filled_size + fill.size <= status.size
        THEN [order_status EXCEPT ![oid].filled_size = @ + fill.size,
                                  ![oid].filled_quote = Wrap(@ + FillQuote(fill))]
        ELSE RestrictDomain(order_status, LAMBDA o : o # oid)

\* The status of a maker counts the fill, and goes when all of the order is
\* filled.
CountFill(order_status, fill) ==
    LET oid == fill.maker.oid
        status == order_status[oid]
    IN  IF oid \notin DOMAIN order_status THEN order_status
        ELSE IF status.filled_size + fill.size < status.size
        THEN [order_status EXCEPT ![oid].filled_size = @ + fill.size,
                                  ![oid].filled_quote = Wrap(@ + FillQuote(fill))]
        ELSE RestrictDomain(order_status, LAMBDA o : o # oid)

\* One fill: the seller exchanges base for quote, the buyer quote for base.
SettleFill_AtLimit(order, state, fill) ==
    LET base == fill.size
        quote == Wrap(fill.size * order.limit_price)
        buyer == Buyer(order, fill)
        seller == Seller(order, fill)
    IN  [state EXCEPT
            !.base = Adjust(Adjust(@, seller, "locked", -base), buyer, "free", base),
            !.quote = Adjust(Adjust(@, seller, "free", FillQuote(fill)), buyer, "locked", -quote),
            !.order_status = CountFill(@, fill)]
SettleFill(order, state, fill) ==
    LET base == fill.size
        quote == FillQuote(fill)
        buyer == Buyer(order, fill)
        seller == Seller(order, fill)
    IN  [state EXCEPT
            !.base = Adjust(Adjust(@, seller, "locked", -base), buyer, "free", base),
            !.quote = Adjust(Adjust(@, seller, "free", quote), buyer, "locked", -quote),
            !.order_status = CountFill(@, fill)]

SettleFills(order, state, fills) ==
    FoldLeft(LAMBDA s, fill : SettleFill(order, s, fill), state, fills)

QuoteOfFills(fills) == FoldLeft(LAMBDA sum, fill : Wrap(sum + FillQuote(fill)), 0, fills)

FillDiffs(order, fills) ==
    [i \in DOMAIN fills |-> FillDiff(Buyer(order, fills[i]), Seller(order, fills[i]),
                                     fills[i].size, FillQuote(fills[i]))]

\* add_order.  The order id is used up even when the funds are missing.  All
\* of the limit price is locked, whatever the fills cost.
add_order(req, state) ==
    LET order == [is_buy |-> req.is_buy, limit_price |-> req.limit_price, size |-> req.size,
                  oid |-> state.oid, address |-> req.address]
        base == IF req.is_buy THEN 0 ELSE order.size
        quote == IF req.is_buy THEN QuoteSize(order) ELSE 0
        counted == [state EXCEPT !.oid = @ + 1]
        limit == Limit(state.book, order)
        locked == [counted EXCEPT !.base = Lock(@, req.address, base),
                                  !.quote = Lock(@, req.address, quote),
                                  !.book = limit.book]
        settled == SettleFills(order, locked, limit.fills)
        status == [size |-> req.size, filled_size |-> req.size - limit.remaining,
                   filled_quote |-> QuoteOfFills(limit.fills)]
    IN  IF req.address \notin DOMAIN state.base \cap DOMAIN state.quote
        THEN Outcome(FALSE, state, <<>>)
        ELSE IF ~Covers(state, req.address, base, quote) THEN Outcome(FALSE, counted, <<>>)
        ELSE Outcome(TRUE,
                IF limit.remaining = 0 THEN settled
                ELSE [settled EXCEPT !.order_status = Put(@, order.oid, status)],
                <<Diff("create", req.address, Both(base, quote))>>
                    \o FillDiffs(order, limit.fills))
-----------------------------------------------------------------------------
(* The state machine.                                                        *)

AddOrder(req) ==
    /\ clob.oid < MaxOid
    /\ clob' = add_order(req, clob).state

CancelOrder(req) == clob' = cancel_order(req, clob).state

Deposit(req) == clob' = deposit(req, clob).state

Withdraw(req) == clob' = withdraw(req, clob).state

Oids == 0..(MaxOid - 1)

ClobInit == clob = GenesisState

ClobNext ==
    \/ \E req \in Trades : AddOrder(req)
    \/ \E req \in [oid : Oids] : CancelOrder(req)
    \/ \E req \in Deposits : Deposit(req)
    \/ \E req \in Withdrawals : Withdraw(req)

ClobSpec == ClobInit /\ [][ClobNext]_clob

-----------------------------------------------------------------------------
(* Properties.                                                               *)

OrdersAt(levels) == UNION {ToSet(levels[p]) : p \in DOMAIN levels}
Resting == OrdersAt(clob.book.bids) \cup OrdersAt(clob.book.asks)

ClobTypeOK ==
    /\ clob.oid \in 0..MaxOid
    /\ DOMAIN clob.base \subseteq User /\ DOMAIN clob.quote = DOMAIN clob.base
    /\ \A u \in DOMAIN clob.base : clob.base[u] \in AssetBalance /\ clob.quote[u] \in AssetBalance
    /\ Resting \subseteq Order
    /\ \A oid \in DOMAIN clob.order_status : clob.order_status[oid] \in FillStatus

\* A level of bids, even one that cancellations have emptied, is below every
\* level of asks: no two resting orders should have been matched, and `cancel',
\* which looks at the bids first, finds the order on the side it is on.
BookNotCrossed ==
    \A bid \in DOMAIN clob.book.bids, ask \in DOMAIN clob.book.asks : bid < ask

\* oid_to_level names exactly the resting orders, each at the level and on the
\* side it rests on, and an order rests once.
IndexIsTheBook ==
    /\ DOMAIN clob.book.oid_to_level = {o.oid : o \in Resting}
    /\ \A o \in Resting :
          /\ CancelledOrders(clob.book, o.oid) = {o}
          /\ clob.book.oid_to_level[o.oid] = o.limit_price
          /\ LET level == LevelAt(IF o.is_buy THEN clob.book.bids ELSE clob.book.asks,
                                  o.limit_price)
             IN  \E i \in DOMAIN level : {j \in DOMAIN level : level[j].oid = o.oid} = {i}

\* An order that still has a status rests, and the book shows at least what is
\* left of it.
StatusIsBacked ==
    \A oid \in DOMAIN clob.order_status :
        \E o \in Resting :
            /\ o.oid = oid
            /\ o.size + clob.order_status[oid].filled_size >= clob.order_status[oid].size

\* The levels, oid_to_level and order_status, which `limit', `cancel' and
\* `add_order' each change in part, agree: whatever can be filled is found by
\* `cancel', once, and a status goes at the latest with its order.  What a
\* cancellation gives back is another matter: cancel_order takes what a maker was
\* filled with off the size that the book has cut already (lib.rs:136, 145,
\* orderbook.rs:56), so that funds may stay locked for no order.
BookAgrees == IndexIsTheBook /\ StatusIsBacked

FundsIn(balances) ==
    SumFunctionOnSet([u \in DOMAIN balances |-> balances[u].free + balances[u].locked],
                     DOMAIN balances)
Total(balances) == Wrap(FundsIn(balances))

Owners(orders) == {o.address : o \in orders}

\* Orders and cancellations move funds between users and between free and
\* locked: they neither mint nor burn any, as long as the owners of the resting
\* orders have accounts (`withdraw' removes an account with no funds left in it,
\* even if an order of its owner still rests).
TradesConserveFunds ==
    [][(clob.oid' # clob.oid \/ Resting' # Resting) /\ Owners(Resting) \subseteq DOMAIN clob.base
          => /\ Total(clob'.base) = Total(clob.base)
             /\ Total(clob'.quote) = Total(clob.quote)]_clob

\* The book implements an auction by price, then age.
Promise == INSTANCE Auction WITH
    resting <- Resting, Oid <- Oids,
    Price <- {req.limit_price : req \in Trades}, Size <- {req.size : req \in Trades}
ServesInTurn == Promise!Spec
=============================================================================
