SPECIFICATION Spec
CONSTANTS
  Fds = {f1}
  None = None
  Requests <- ShortRequests
  InboundSize = 1
  OutboundSize = 1
  SendSpace = 2
  RecvSpace = 3
  MaxConnections = 2
  MaxOwed = 1
  MayClose = TRUE
  Trading = FALSE
CHECK_DEADLOCK FALSE
INVARIANTS
  RoutedToConnection
