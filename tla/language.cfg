SPECIFICATION FairSpec
CONSTANTS
  Width = 16
  Blocks <- AllBlocks
  Sessions <- AllSessions
  Literals <- NoLists
  Name <- AllNames
  Natives <- BuiltinFunctions
  MaxRegisters = 16
  MaxItems = 30
INVARIANTS LoopHasBlock RegistersSuffice CommentsHold
PROPERTIES ItemEnds DataUnchanged ShiftsItsInput
