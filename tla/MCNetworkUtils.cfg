SPECIFICATION Spec
CONSTANTS
  Radix = 8
  BigEndian = FALSE
  Messages <- AllMessages
  MaxMessages = 2
CHECK_DEADLOCK FALSE
INVARIANTS
  RoundTrip
  NothingMissed
