SPECIFICATION Spec
CONSTANTS
    Regions = {1, 2}
    Buffs = {1, 2, 3}
    Users = {1, 2}
    RootSize = 30
    RootKind = "pool"
    Header = 1
    BuffStruct = 2
    RegionStruct = 3
    MinBuff = 4
    Modes <- MCModes
    BuffSizes = {2}
    InitSizes = {0, 3}
    Asked = {2, 5}
INVARIANTS
    TypeOK
    Anchored
    NeverMisused
    BuffersCovered
    GrowthServes
