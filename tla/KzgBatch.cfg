CONSTANTS
    P = 5
    Tau = 3
    SrsSize = 4
    Roots <- MCRoots
    Requests <- MCRequests
SPECIFICATION Spec
INVARIANTS
    TypeOK
    EvaluationIsInterpolation
    HonestBatchAccepted
    RightEntriesPass
    WrongEntriesRarelyPass
    BatchMessageBinds
