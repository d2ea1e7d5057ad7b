SPECIFICATION Spec
CONSTANTS
    Procs = {1, 2, 3}
    Creators = {1, 2}
    DataPages = 5
    GuardPages = 1
    MaxInherit = 2
    MaxSegs = 2
    Sizes = {1, 2}
    QuietStart = TRUE
    NoOrphans = TRUE
    InStep = TRUE
INVARIANTS
    TypeOK
    HeapsApart
    SameMemory
PROPERTY StartsUp
