CONSTANTS
  N = 6
  Symbol = {0}
  Calls = {"list-new", "dup", "list-prepend", "list-append", "drop"}
  MaxCalls = 6
SPECIFICATION FairSpec
INVARIANT GarbageReclaimed
PROPERTY ImplementsService
