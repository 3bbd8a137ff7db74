SPECIFICATION Spec
CONSTANTS
  OrderIds = {i1, i2}
  MaxPrice = 2
  MaxQuantity = 2
  Nodes = {n1, n2, n3}
  None = None
  ReuseIds = TRUE
  MaxLevels = 2
  QuantityModulus = 4
SYMMETRY Symmetry
INVARIANTS
  TypeOK
  NoEmptyLevel
  NotCrossed
  IndexSound
  IndexComplete
  
  DepthIsLadder
PROPERTIES
  ImplementsPriority
