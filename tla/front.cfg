SPECIFICATION MainSpec
CONSTANTS
  Name = {"add", "x", "y"}
  Builtin = {"add"}
  NULL = NULL
  native = native
  data = data
  garbage = garbage
  Native <- OfBuiltin
  Chunk <- ChunksHere
  Outside <- Anything
  Max = 3
  Texts <- ShortAndNested
  Character <- Number
INVARIANTS TypeOK FindInvertsInsert ParsesExactly PrintsWhatItRead
PROPERTIES IdsKept EnvironmentSpec ParseEnds
