\* Three transactions, three blocks of which some may replace others, one restart.
SPECIFICATION Spec
CONSTANTS
    a = a
    b = b
    creation = creation
    delegation = delegation
    blobs = blobs
    NoTx = NoTx
    NoTo = NoTo
    Account = {a, b}
    HasCode = {}
    Tx = {delegation, creation, blobs}
    Body <- Bodies
    Forks <- TwoLists
    ForkTime <- HardForks
    BlobCount <- Blobs
    Genesis <- Balances
    MaxTime = 2
    MaxBlocks = 3
    MaxRestarts = 1
INVARIANTS
    EtherIsConserved
    OnlyUnfundedCreationsRepeat
    PooledWasAllowed
