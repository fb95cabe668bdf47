------------------------- MODULE MCClobSettlement -------------------------
(* Instances of ClobSettlement for TLC. *)
EXTENDS ClobSettlement

CONSTANTS a, b

Prices == {1, 2}
Sizes == {1, 2}

Funds(user, base, quote) == [address |-> user, base_free |-> base, quote_free |-> quote]

\* One user comes with base, the other with quote.
TwoDeposits == {Funds(a, 3, 0), Funds(b, 0, 4)}
AnyTrade == [address : User, is_buy : BOOLEAN, limit_price : Prices, size : Sizes]
SmallWithdrawals == {Funds(a, 2, 0), Funds(b, 0, 2)}
=============================================================================
