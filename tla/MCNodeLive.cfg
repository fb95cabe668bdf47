\* Two Ordered jobs, of which either may become a dead letter, and two retries in
\* the dead letter queue; maximal runs of the node.
SPECIFICATION LiveNodeSpec
CONSTANTS
    j1 = j1
    j1again = j1again
    u = u
    NoJob = NoJob
    NoReply = NoReply
    NoRow = NoRow
    FirstNonce = 1
    Job <- PairJobs
    Nonce <- PairNonce
    Ordered = {j1, u}
    Payload <- Distinct
    MayFail = {}
    ChannelBound = 4
    MaxRetries = 1
    DlqMaxRetries = 2
    MaxCrashes = 0
    MayRevert = {j1, u}
INVARIANTS
    OvertakenOnlyWhenDead
    PendingAtRestIsDead
PROPERTY
    AckedIsResolved
