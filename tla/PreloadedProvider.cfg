CONSTANTS
    p1 = p1
    p2 = p2
    f1 = f1
    f2 = f2
    noCert = noCert
    decodeError = decodeError
    noProof = noProof
    noAddress = noAddress
    trusted = trusted
    forked = forked
    router = router
    NoCert = noCert
    DecodeError = decodeError
    NoProof = noProof
    NoAddress = noAddress
    TrustedL1 = trusted
    Addresses = {router}
    L1Contexts <- MCL1Contexts
    Router <- MCRouter
    OnChain <- MCOnChain
    NumFE <- MCNumFE
    Commit <- MCCommit
    Flat <- MCFlat
    Witnesses <- MCWitnesses
    Certs <- MCCerts
    Calldata <- MCCalldata
    RecencyWindow0 = 1
    Valid <- MCValid
    Payloads <- MCPayloads
    BlobOf <- MCBlobOf
    Frames <- MCFrames
    Decode <- MCDecode
    LastBlock = 2
    MaxResets = 1
    L1Chains <- MCL1Chains
SPECIFICATION ReplaySpec
INVARIANTS
    ReplayTypeOK
    EntriesAreTrue
PROPERTY ReplayRefinesSource
