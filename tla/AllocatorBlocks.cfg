SPECIFICATION Spec
CONSTANTS
  HeapBase = 1
  InitialMemory = 6
  MaxMemory = 10
  PageSize = 4
  WordLimit = 10
  ScratchSize = 1
  Payloads = {1, 4, 9}
  Words <- NoWords
INVARIANTS
  TypeOK
  NoOverlap
  NoLeak
  FreeListSorted
  Coalesced
  AllReclaimed
  WithinMemory
  RetryFits
