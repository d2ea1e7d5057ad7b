SPECIFICATION Spec
CONSTANTS
    IntBits = 5
    MinAlloc = 2
    LinkSize = 2
    PoolBytes = 20
    Requests <- MCRequests
    Resizes <- MCResizes
    Stale <- MCStale
INVARIANTS
    TypeOK
    FreeListsSound
    PoolTiled
    BuddiesCoalesced
    StatsAgree
    RequestFits
    RobsonBound
PROPERTIES
    Refinement
