CONSTANTS
  N = 34
  Symbol = {0, 1}
  Native <- MCNative
  Sources <- Programs
SPECIFICATION Spec
INVARIANTS
  LiveNotFree
  RegistersBalanced
