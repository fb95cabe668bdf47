------------------------------ MODULE Auction ------------------------------
(***************************************************************************)
(* What an order book promises, without levels and without a matching      *)
(* loop: resting orders are a set; an arriving order takes from the        *)
(* opposite orders it crosses, best price first and the oldest first at    *)
(* one price, until it is filled, and rests when nothing it crosses is     *)
(* left.  ClobBook is shown to implement it.                               *)
(***************************************************************************)
EXTENDS Integers, FiniteSetsExt, Functions

CONSTANTS User, Price, Size,
    Oid    \* order ids, given out in increasing order

VARIABLE resting

\* The size of a resting order is not promised to be what remains of it: an
\* order that was partly filled on arrival may still show up to its full size.
Order == [is_buy : BOOLEAN, limit_price : Price, size : Nat, oid : Nat, address : User]

Crosses(order, maker) ==
    /\ order.is_buy # maker.is_buy
    /\ IF order.is_buy THEN maker.limit_price <= order.limit_price
                       ELSE maker.limit_price >= order.limit_price

\* Of two orders on one side, which one is served first.
Before(m, k) ==
    \/ m.is_buy /\ m.limit_price > k.limit_price
    \/ ~m.is_buy /\ m.limit_price < k.limit_price
    \/ m.limit_price = k.limit_price /\ m.oid < k.oid

Crossed(order) == {m \in resting : Crosses(order, m)}

SizeOf(orders) == SumFunctionOnSet([m \in orders |-> m.size], orders)

\* What the order takes from m: what those before m have left over.
TakenFrom(m, order) ==
    LET left == order.size - SizeOf({k \in Crossed(order) : Before(k, m)})
    IN  IF left <= 0 THEN 0 ELSE Min({left, m.size})

Reduced(order) ==
    {[m EXCEPT !.size = @ - TakenFrom(m, order)] :
        m \in {k \in Crossed(order) : TakenFrom(k, order) < k.size}}

Init == resting = {}

Arrive(order) ==
    LET makers == (resting \ Crossed(order)) \cup Reduced(order)
        unfilled == order.size - SizeOf(Crossed(order))
    IN  \/ unfilled <= 0 /\ resting' = makers
        \/ /\ unfilled > 0
           /\ \E shown \in unfilled..order.size :
                 resting' = makers \cup {[order EXCEPT !.size = shown]}

Leave(order) == resting' = resting \ {order}

Next ==
    \/ \E is_buy \in BOOLEAN, price \in Price, size \in Size, oid \in Oid, user \in User :
          /\ \A m \in resting : m.oid < oid
          /\ Arrive([is_buy |-> is_buy, limit_price |-> price, size |-> size,
                     oid |-> oid, address |-> user])
    \/ \E order \in resting : Leave(order)

Spec == Init /\ [][Next]_resting
=============================================================================
