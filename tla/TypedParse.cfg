SPECIFICATION ParseSpec
CONSTANTS
  HeapBase = 1
  InitialMemory = 4
  MaxMemory = 28
  PageSize = 8
  WordLimit = 64
  ScratchSize = 4
  Payloads = {}
  Words <- NoWords
  Texts <- AllTexts
  MaxLength = 3
  RecordSize = 1
  MaxDocuments = 3
INVARIANTS
  CallOK
  HeapRestored
  ParsedFits
PROPERTIES
  Terminates
