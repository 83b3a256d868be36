SPECIFICATION Spec
CONSTANTS
    Cells <- SomeCells
    Hashes <- SpawnHashes
    Contents <- SpawnContents
    Limits <- SomeLimits
    Statuses <- SomeStatuses
    Modulus = 65536
    MaxMachines = 3
    MaxAlloc = 3
INVARIANT
    ContentDelivered
