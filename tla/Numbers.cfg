CONSTANTS
  MaxDepth = 2
  Trusted = FALSE
  ExponentCap = 10000
  MaxElements = 3
  Addresses = 300
  Outputs <- MCOutputs
  Lengths = {3, 8, 290}
  ArrayLengths = {0, 1, 2, 3, 12}
  Widths = {3, 24}
SPECIFICATION Spec
CHECK_DEADLOCK FALSE
INVARIANTS
  NumbersExact
  IntegersExact
  ArraysExact
  InBounds
