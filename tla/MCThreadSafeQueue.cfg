SPECIFICATION Spec
CONSTANTS
  Items = {a, b}
  None = None
  Producers = {p1, p2}
  Consumer = c
  MaxItems = 4
SYMMETRY Symmetry
INVARIANTS
  FrontExists
  SizeInv
PROPERTIES
  ImplementsQueue
