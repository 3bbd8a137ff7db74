SPECIFICATION Spec
CONSTANTS
  Fds = {f1}
  None = None
  Requests <- StreamRequests
  InboundSize = 1
  OutboundSize = 1
  SendSpace = 3
  RecvSpace = 4
  MaxConnections = 2
  MaxOwed = 1
  MayClose = TRUE
  Trading = TRUE
CHECK_DEADLOCK FALSE
INVARIANTS
  ServerTypeOK
  

  
