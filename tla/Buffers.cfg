SPECIFICATION Spec
CONSTANTS
    Types = {"BUFFER", "LARGE BUFFER", "SIMPLE", "NOFREE", "SLAB"}
    Modulus = 128
    Word = 2
    SlabSize = 78
    SlabHeader = 12
    BlockSize = 11
    SlabAsked = {12, 4}
    NoFreeSize = 24
    NoFreeHeader = 6
    NoFreeBuff = 8
    NoFreeAsked = {0, 1, 2, 5, 17, 102}
    SimpleSize = 29
    SimpleHeader = 5
    Quantum = 2
    MinQuantas = 3
    SimpleAsked = {2, 3, 10}
    TinySize = 34
    FirstBits = 2
    MidBits = 3
    Granule = 2
    MaxCached = 6
    TinyAsked = {1, 4, 40}
    LargePool = 96
    MaxLarge = 4
    LargeBits = 1
    ObjectOrder = 1
    LargeHeader = 14
    PageHeader = 2
    LongBits = 4
    HugeStruct = 8
    UserData = {1}
    LargeAsked = {6, 14, 16, 64, 100}
    MaxHeld = 3
INVARIANTS
    TypeOK
    BitmapExact
    BelowNext
    RingSound
    PoolTiled
    NeighboursCombined
    CacheExact
    DataApart
    RunsAreUsed
    AllocCheck
    HugeRunsFree
PROPERTY
    Refinement
CHECK_DEADLOCK FALSE
