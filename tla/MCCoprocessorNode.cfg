\* A nonce submitted twice and an Unordered job, whose result may be reverted; the
\* process does not crash.
SPECIFICATION NodeSpec
CONSTANTS
    j1 = j1
    j1again = j1again
    u = u
    NoJob = NoJob
    NoReply = NoReply
    NoRow = NoRow
    FirstNonce = 1
    Job <- TrioJobs
    Nonce <- TrioNonce
    Ordered = {j1, j1again}
    Payload <- Distinct
    MayFail = {u}
    ChannelBound = 4
    MaxRetries = 0
    DlqMaxRetries = 1
    MaxCrashes = 0
    MayRevert = {u}
INVARIANTS
    NodeTypeOK
    RelayedIsMined
PROPERTIES
    DeadLetterIsKept
    RelayedIsFinal
