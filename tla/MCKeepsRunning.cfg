SPECIFICATION Spec
CONSTANTS
  Fds = {f1}
  None = None
  Requests <- ShortRequests
  InboundSize = 1
  OutboundSize = 1
  SendSpace = 2
  RecvSpace = 3
  MaxConnections = 1
  MaxOwed = 1
  MayClose = TRUE
  Trading = FALSE
INVARIANTS
  KeepsRunning
