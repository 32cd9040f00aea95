SPECIFICATION NestedSpec
CONSTANTS
  Pointers = {p1, p2}
  Values = {"one", "two"}
  Sources <- MCSources
  MaxParses = 2
  MaxWrites = 1
PROPERTIES
  ObjectSpec
SYMMETRY Symmetry
