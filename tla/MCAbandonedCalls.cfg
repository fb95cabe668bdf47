\* Two Ordered jobs. Behaviours may end with the actor.
SPECIFICATION AbandonSpec
CONSTANTS
    j1 = j1
    j2 = j2
    NoJob = NoJob
    NoReply = NoReply
    FirstNonce = 1
    Job = {j1, j2}
    Nonce <- NonceOf
    Ordered = {j1, j2}
    MayFail = {}
    ChannelBound = 2
CHECK_DEADLOCK FALSE
INVARIANT AnswersAreAwaited
