\* The same instance; the contract's balances against the CLOB's.
SPECIFICATION SettlementSpec
CONSTANTS
    a = a
    b = b
    User = {a, b}
    Trades <- AnyTrade
    Deposits <- TwoDeposits
    Withdrawals <- SmallWithdrawals
    MaxOid = 3
    Modulus = 64
    MaxDeposits = 2
INVARIANT
    ConsumerMirrorsClob
