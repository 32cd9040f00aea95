SPECIFICATION Spec
CONSTANTS
  Pointers = {p1, p2}
  Slots = {"root", "items", "object", "flag"}
  Arrays = {"items"}
  Objects = {"root", "object"}
  Tree <- MCTree
  RootSlot = "root"
  Keys = {"ok"}
  MaxParses = 2
  MaxWrites = 2
  MaxEntries = 2
INVARIANTS
  ViewText
SYMMETRY Symmetry
CHECK_DEADLOCK FALSE
