\* An HTTP request and two deposits of one block; one crash, client that leaves
\* or call that fails.
SPECIFICATION Spec
CONSTANTS
    h1 = h1
    d1 = d1
    d2 = d2
    None = None
    Http = {h1}
    Deposit = {d1, d2}
    Blocks <- TwoBlocks
    Unbacked = {h1}
    MaxIndex = 5
    MaxTroubles = 1
INVARIANTS
    StatesAreReplays
    BatchesAreProcessed
    DepositsAreCredited
PROPERTIES
    KeepsTheLog
    ChainCatchesUp
    RequestsAreAnswered
