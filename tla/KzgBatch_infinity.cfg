CONSTANTS
    P = 5
    Tau = 3
    SrsSize = 4
    Roots <- MCRoots
    Requests <- MCShortRequests
SPECIFICATION Spec
INVARIANT InfinityIsAccepted
