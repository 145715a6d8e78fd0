CONSTANTS
  N = 34
  Symbol = {0, 1}
  Native <- MCNative
  Sources <- CallBreak
SPECIFICATION Spec
INVARIANT RegistersKept
