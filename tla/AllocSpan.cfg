SPECIFICATION Spec
CONSTANTS
    Modulus = 128
    PoolSize = 96
    MaxLarge = 4
    LargeBits = 1
    ObjectOrder = 1
    HeaderSize = 14
    PageHeader = 2
    LongBits = 4
    Align = 2
    HugeStruct = 8
    UserData = {1}
    Asked = {6, 32}
    MaxHeld = 3
INVARIANT HugeRunsFree
