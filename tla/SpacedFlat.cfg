CONSTANTS
  Schemas <- MCSchemas
  Seeds <- SpacedSeeds
  WordBits = 2
  ChunkElements = 2
  GraphDepth = 5
  BaseExtra = 0
  MaxDepth = 8
  Trusted = FALSE
  MaxEdits = 0
  ExponentCap = 10000
  EagerOverhead = 16
  RetainedOverhead = 16
SPECIFICATION Spec
CHECK_DEADLOCK FALSE
PROPERTY RecordsRead
