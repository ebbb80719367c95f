CONSTANTS
    f1 = f1
    f2 = f2
    noCert = noCert
    decodeError = decodeError
    NoCert = noCert
    DecodeError = decodeError
    ProxyReplies <- MCProxyReplies
    Certs <- MCCerts
    Calldata <- MCCalldata
    RecencyWindow0 = 1
    Valid <- MCValid
    Payloads <- MCPayloads
    BlobOf <- MCBlobOf
    Frames <- MCFrames
    Decode <- MCDecode
    LastBlock = 2
    MaxResets = 1
    L1Chains <- MCL1Chains
SPECIFICATION OnlineSpec
INVARIANTS
    OnlineTypeOK
    PayloadIsCached
PROPERTY OnlineRefinesSource
