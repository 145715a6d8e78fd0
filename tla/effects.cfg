SPECIFICATION StackSpec
CONSTANTS
  Symbol = {0, 1}
  Calls <- All
  MaxCalls = 4
  Setup <- Items3
  Knots = TRUE
  Width = 8
  Id <- Places
INVARIANTS EffectsHold ListsWellFormed
