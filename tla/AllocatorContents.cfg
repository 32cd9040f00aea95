SPECIFICATION Spec
CONSTANTS
  HeapBase = 1
  InitialMemory = 4
  MaxMemory = 8
  PageSize = 4
  WordLimit = 9
  ScratchSize = 1
  Payloads = {1, 3}
  Words <- PlainWords
INVARIANTS
  HeadersAgree
PROPERTIES
  StoreSpec
