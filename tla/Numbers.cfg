SPECIFICATION NumbersSpec
CONSTANTS
    Calls <- SomeCalls
    Counts = {0, 4, 16}
    CharBits = 4
    ShortBits = 5
    IntBits = 6
    LongBits = 10
    NtoaBuffer = 32
    FtoaBuffer = 32
    DefaultPrecision = 2
    MaxPrecision = 2
    Significand = 10
CHECK_DEADLOCK FALSE
INVARIANTS
    BinaryExact DecimalExact FormatsExact
