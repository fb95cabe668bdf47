\* Three nonces, of which 2 is the largest there is.
SPECIFICATION Spec
CONSTANTS
    r0 = r0
    relayer0 = relayer0
    operator0 = operator0
    signer = signer
    None = None
    MaxUint64 = 2
    InitialMaxNonce = 0
    Terms = {t1, t2}
    Root = {r0, r1}
    InitialRoot = r0
    Body = {b}
    Offchain = {x}
    Blob = {v}
    Address = {relayer0, relayer1}
    Key = {operator0, signer}
    OffchainSigner = signer
    InitialRelayer = relayer0
    InitialOperator = operator0
INVARIANTS
    TypeOK
    NextNonceFresh
    RootChain
    AcceptedOnce
    AcceptedAsRequested
