CONSTANTS
  N = 7
  Symbol = {0}
  Calls = {"list-new", "dup", "list-prepend", "list-head", "list-append", "drop", "escaped-symbol", "bind", "symbol"}
  MaxCalls = 5
SPECIFICATION Spec
INVARIANTS
  TypeOK
  LiveNotFree
  WhiteProtected
  NothingWhiteAtSwap
  FreeListsIntact
