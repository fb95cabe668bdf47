\* Two users, two prices and up to three orders; the contract lags behind.
SPECIFICATION SettlementSpec
CONSTANTS
    a = a
    b = b
    User = {a, b}
    Trades <- AnyTrade
    Deposits <- TwoDeposits
    Withdrawals <- SmallWithdrawals
    MaxOid = 3
    Modulus = 64
    MaxDeposits = 2
INVARIANTS
    ClobTypeOK
    BookNotCrossed
    BookAgrees
    ConsumerIsSolvent
PROPERTIES
    ServesInTurn
    TradesConserveFunds
    SidesMoveTogether
