SPECIFICATION Spec
CONSTANTS
  Symbol = {0}
  Calls <- Some
  MaxCalls = 5
  Setup <- CodeBlockNumber
  Half = 304
  PointerSize = 8
  Knots = FALSE
INVARIANT CollectionsSucceed
