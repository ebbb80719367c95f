CONSTANTS
    p1 = p1
    p2 = p2
    pBad = pBad
    pOne = pOne
    f0 = f0
    f1 = f1
    f2 = f2
    noCert = noCert
    decodeError = decodeError
    noProof = noProof
    noAddress = noAddress
    trusted = trusted
    router = router
    NoCert = noCert
    DecodeError = decodeError
    NoProof = noProof
    NoAddress = noAddress
    TrustedL1 = trusted
    Addresses = {router}
    L1Contexts <- MCL1Contexts
    Router <- MCRouter
    OnChain <- MCOnChain
    NumFE <- MCNumFE
    Commit <- MCCommit
    Flat <- MCFlat
    Witnesses = {}
    Certs <- MCCerts
    Calldata <- MCCalldata
    RecencyWindow0 = 1
    Valid <- MCValid
    Payloads <- MCPayloads
    BlobOf <- MCBlobOf
    Frames <- MCFrames
    Decode <- MCDecode
    LastBlock = 2
    MaxItems = 2
    MaxResets = 0
    L1Chains <- MCL1Chains
    PayloadMayFail = FALSE
SPECIFICATION RoundTripSpec
INVARIANTS
    RoundTripTypeOK
    PanicsExactlyAtInfinity
    ReplayReproduces
