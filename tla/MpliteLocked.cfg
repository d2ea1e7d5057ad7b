SPECIFICATION SharedSpec
CONSTANTS
    IntBits = 5
    MinAlloc = 2
    LinkSize = 2
    PoolBytes = 9
    Requests <- MCRequests
    Resizes <- MCNone
    Stale <- MCStale
    p1 = p1
    p2 = p2
    Procs <- MCProcs
    Nobody = Nobody
    Locked = TRUE
INVARIANT HeldApart
PROPERTIES
    ActsAtOnce
    CallsReturn
