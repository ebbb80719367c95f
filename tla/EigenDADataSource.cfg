CONSTANTS
    p1 = p1
    p2 = p2
    pBad = pBad
    f1 = f1
    f2 = f2
    noCert = noCert
    decodeError = decodeError
    NoCert = noCert
    DecodeError = decodeError
    Certs <- MCCerts
    Calldata <- MCCalldata
    RecencyWindow0 = 1
    Valid <- MCValid
    Payloads <- MCPayloads
    BlobOf <- MCBlobOf
    Frames <- MCFrames
    Decode <- MCDecode
    LastBlock = 2
    MaxItems = 2
    MaxResets = 1
    L1Chains <- MCL1Chains
SPECIFICATION FairSpec
INVARIANTS
    TypeOK
    HeldCommitmentIsCurrent
    DerivedExactly
PROPERTIES
    RefinesBlobDerivation
    EveryBlockIsRead
