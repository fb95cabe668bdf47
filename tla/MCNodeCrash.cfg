\* A crash anywhere, while an Ordered job that may fail and an Unordered one are
\* submitted by clients, or the Unordered one is requested on chain, or programs
\* are submitted beside a job.
SPECIFICATION ListenerSpec
CONSTANTS
    j1 = j1
    u = u
    p = p
    q = q
    good = good
    bad = bad
    NoJob = NoJob
    NoReply = NoReply
    NoRow = NoRow
    FirstNonce = 1
    Job <- PairJobs
    Nonce <- PairNonce
    Ordered = {j1}
    Payload <- Distinct
    MayFail = {j1}
    ChannelBound = 4
    MaxRetries = 0
    DlqMaxRetries = 0
    MaxCrashes = 1
    MayRevert = {}
    Scenarios <- ThreeScenarios
    Program = {p, q}
    Elf = {good, bad}
    IdOf <- BothIds
    Loadable = {good}
    Upload = {1, 2, 3, 4}
    Uploaded <- FourCalls
    ProgramOf <- AllOfP
    FromBlock = 0
    SubmitJobRetries = 2
INVARIANTS
    AnsweredIsStored
    PassedBlocksAreSubmitted
