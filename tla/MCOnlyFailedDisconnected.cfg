SPECIFICATION Spec
CONSTANTS
  Fds = {f1}
  None = None
  Requests <- ShortRequests
  InboundSize = 1
  OutboundSize = 1
  SendSpace = 3
  RecvSpace = 3
  MaxConnections = 1
  MaxOwed = 1
  MayClose = FALSE
  Trading = FALSE
PROPERTIES
  OnlyFailedDisconnected
