SPECIFICATION ProcessorSpec
CONSTANTS
  OrderIds = {i1, i2, i3}
  MaxPrice = 1
  MaxQuantity = 2
  Nodes = {n1, n2}
  None = None
  ReuseIds = FALSE
  Fds = {c1, c2}
  Requests <- AllRequests
  InboundSize = 1
  OutboundSize = 1
CHECK_DEADLOCK FALSE
SYMMETRY Symmetry
INVARIANTS
  ProcessorTypeOK
  RestingRouted
  FillsRouted
PROPERTIES
  RejectChangesNothing
