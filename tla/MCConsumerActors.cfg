\* Small channels that cannot jam: at most one message per call waits.
SPECIFICATION LiveSpec
CONSTANTS
    j1 = j1
    j2 = j2
    j2again = j2again
    j3 = j3
    u = u
    NoJob = NoJob
    NoReply = NoReply
    FirstNonce = 1
    Job <- MixedJobs
    Nonce <- MixedNonce
    Ordered <- MixedOrdered
    MayFail <- MixedMayFail
    ChannelBound = 3
INVARIANTS
    TypeOK
    InTurn
    AcceptedIsAccounted
    RefusalIsFinal
    PendingCoversPipeline
PROPERTIES
    KeepsLivePromise
    SubmittedIsSettled
