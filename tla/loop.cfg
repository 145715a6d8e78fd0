CONSTANTS
  N = 20
  Symbol = {0, 1}
  Native <- MCNative
  Sources <- CallLoop
SPECIFICATION FairSpec
INVARIANT LiveNotFree
PROPERTY AnsweredUnlessEndless
