SPECIFICATION HostSpec
CONSTANTS
    Elements = {"a", "b", ".", "..", "/", "C:"}
    Bytes = {"x", "y", "nul"}
    ArgLists <- Lists
    Disks <- SomeFiles
    Lookups <- AskedNames
    MaxMounts = 2
    MaxFiles = 1
    MaxDropped = 3
    FileSystems <- AllPrograms
    MaxModules = 7
    Width = 8
    Items <- SomeItems
    HashBytes <- SomeHash
    Indexes = {0, 1, 9}
    Rests <- ArgumentLists
    HeapSize = 4
    MaxLive = 2
CHECK_DEADLOCK FALSE
INVARIANTS
    AllocationsAccounted LookupExact NamesAreImportable
    EvaluationExact LinkedBeforeRun BodiesInOrder ExitCodeExact
    MainExact StreamsExact
PROPERTIES
    UnpackRestores LoadsAsPromised MainReturns
