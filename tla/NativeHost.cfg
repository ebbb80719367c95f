CONSTANTS
    f1 = f1
    f2 = f2
    noCert = noCert
    decodeError = decodeError
    otherHint = otherHint
    NoCert = noCert
    DecodeError = decodeError
    OtherHint = otherHint
    MaxElement = 5
    InitialStores <- MCNativeStores
    Settings <- MCSettings
    Claims <- MCClaims
    AgreedNumber = 1
    ProxyReplies <- MCProxyReplies
    Certs <- MCCerts
    Calldata <- MCCalldata
    RecencyWindow0 = 1
    Valid <- MCValid
    Payloads <- MCPayloads
    BlobOf <- MCBlobOf
    Frames <- MCFrames
    Decode <- MCDecode
    LastBlock = 2
    MaxResets = 1
    L1Chains <- MCNativeChains
SPECIFICATION NativeFairSpec
INVARIANTS
    NativeTypeOK
    StoreIsTrue
    VerdictIsRight
    ExitIsVerdict
PROPERTIES
    OracleRefinesSource
    ProgramEnds
