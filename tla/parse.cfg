CONSTANTS
  N = 11
  Symbol = {0}
  Native <- MCNative
  Sources <- Numbers
SPECIFICATION Spec
INVARIANT LiveNotFree
