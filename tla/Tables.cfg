SPECIFICATION TablesSpec
CONSTANTS
    objA = objA
    objB = objB
    iterA = iterA
    iterB = iterB
    Keys <- SomeKeys
    Values = {"x", "y"}
    Iterators = {iterA, iterB}
    Hash <- KeyHash
    FirstThreshold = 2
    MaxEntries = 3
    MaxDepth = 2
    Objects = {"o1", "o2"}
    WeakMaps = {"w"}
    VarRefs = {"v"}
    Null = "null"
    MaxGcs = 2
    MaxRecords = 2
SYMMETRY Symmetry
CHECK_DEADLOCK FALSE
INVARIANTS
    ShapesExact RecordsHeldExactly EqualKeysFound MemorySafe GarbageGone
PROPERTY ImplementsOrderedMap
