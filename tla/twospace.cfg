SPECIFICATION FairSpec
CONSTANTS
  Symbol = {0}
  Calls <- Some
  MaxCalls = 5
  Setup <- CodeBlockNumber
  Half = 152
  PointerSize = 4
  Knots = TRUE
INVARIANTS TypeOK NoStalePointer Compacted RunsOutOnlyWhenFull CollectionsSucceed
PROPERTIES AllocationReturns ImplementsObjectHeap
