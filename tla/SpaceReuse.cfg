SPECIFICATION Spec
CONSTANTS
    DataPages = 10
    PageSize = 2
    BigHeap = 3
    UseGuardPages = TRUE
    PrivSlots = 2
    MaxInherit = 2
    Sizes = {5, 9}
    Refused = {}
    InheritLIFO = FALSE
INVARIANT HandlesIntact
CHECK_DEADLOCK FALSE
