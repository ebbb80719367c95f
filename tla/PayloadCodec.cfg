CONSTANTS
    BytesPerElement = 7
    MaxExponent = 3
    Inputs <- MCInputs
    RollupData <- MCRollupData
SPECIFICATION CodecSpec
INVARIANTS
    EncodingsDecode
    OnlyEncodingsDecode
