SPECIFICATION MCSpec
CONSTANTS
  Requests <- AllSizes
  MaxLive = 3
  BrkRanges <- AllRanges
  SIZE_LIMIT = 1000000
  TailBytes = {0, 22, 46, 200}
INVARIANTS
    TypeOK BoundaryTagsAgree BlocksDisjoint NoLeak Coalesced FreeListsExact CallsExact
PROPERTY ImplementsAllocator
