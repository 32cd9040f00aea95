SPECIFICATION Spec
CONSTANTS
  Pointers = {p1, p2}
  Values = {"one", "two"}
  Sources <- MCSources
  MaxParses = 2
  MaxWrites = 2
INVARIANTS
  TypeOK
  NoStaleView
  CanonicalSource
  DirtyExactly
  ResidentInput
PROPERTIES
  ObjectSpec
SYMMETRY Symmetry
