SPECIFICATION Spec
CONSTANTS
    BuffSize = 1024
    Word = 8
    SlabHeader = 48
    BlockSize = 336
    Modulus = 1048576
    Quantum = 16
    SimpleHeader = 40
    MinQuantas = 8
    SimpleAsked = {496}
INVARIANT HeaderCounted
CHECK_DEADLOCK FALSE
