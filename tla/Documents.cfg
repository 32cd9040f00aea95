CONSTANTS
  MaxDepth = 2
  Registry <- MCRegistry
  LinearMax = 1
  Trusted = FALSE
  MaxEdits = 1
  ExponentCap = 10000
  EagerOverhead = 16
  RetainedOverhead = 16
SPECIFICATION Spec
CHECK_DEADLOCK FALSE
PROPERTIES
  AcceptedExactly
  BoundariesAgree
  GraphFaithful
  ReservedSuffices
  PrintedTheSame
  RowsFaithful
