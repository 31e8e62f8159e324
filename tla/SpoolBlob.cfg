SPECIFICATION FairSpec
CONSTANTS
  Content <- MCContent
  Sizes <- MCSizes
  RamCap = 2
  Chunk = 2
  MaxLen = 3
  SpillMayBreak = TRUE
INVARIANTS
  MemoryBound
PROPERTIES
  ImplementsBlob
  ReadableReturns
