CONSTANTS
  c1 = c1
  c2 = c2
  c3 = c3
  c4 = c4
  Chunk <- MCChunk
  FirstHalf <- MCFirstHalf
SPECIFICATION SpuriousSpec
INVARIANT AssertionsHold
