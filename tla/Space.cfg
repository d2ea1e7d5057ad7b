SPECIFICATION Spec
CONSTANTS
    DataPages = 9
    PageSize = 2
    BigHeap = 3
    UseGuardPages = TRUE
    PrivSlots = 2
    MaxInherit = 2
    Sizes = {5, 9}
    Refused = {5}
    InheritLIFO = TRUE
INVARIANTS
    TypeOK
    HeapsDisjoint
    HandlesIntact
    HeapsMapped
    RecordsExact
PROPERTIES
    FreshPages
CHECK_DEADLOCK FALSE
