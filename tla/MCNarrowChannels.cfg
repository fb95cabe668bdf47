\* Channels of capacity one. The actors stop for good once every job is done.
SPECIFICATION LiveSpec
CONSTANTS
    j1 = j1
    j2 = j2
    j2again = j2again
    j3 = j3
    u = u
    NoJob = NoJob
    NoReply = NoReply
    FirstNonce = 1
    Job <- NarrowJobs
    Nonce <- NarrowNonce
    Ordered <- NarrowOrdered
    MayFail = {}
    ChannelBound = 1
CHECK_DEADLOCK FALSE
PROPERTY SendCompletes
