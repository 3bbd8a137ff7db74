SPECIFICATION ExchangeFairSpec
CONSTANTS
  NumThreads = 2
  IdStride = 2
  NumOrders = 2
  BatchSize = 1
  Draws <- SomeDraws
  MaxCancels = 1
  MaxSent = 1
  OrderIds <- AllIds
  MaxPrice = 1
  MaxQuantity = 2
  Nodes = {n1, n2}
  None = None
  ReuseIds = TRUE
  Fds <- AllFds
  Requests = {}
  InboundSize = 1
  OutboundSize = 1
CHECK_DEADLOCK FALSE
INVARIANTS
  IdsDisjoint
  FillsRouted
  RepliesInOrder
  CancelIsFinal
  
PROPERTIES
  ComesToRest
