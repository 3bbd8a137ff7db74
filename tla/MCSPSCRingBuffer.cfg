CONSTANTS
  Items = {a, b}
  None = None
  Capacity = 2
  Modulus = 8

SPECIFICATION FairSpec

INVARIANTS
  TypeOK
  NoDataRace
  RingInv

PROPERTIES
  ImplementsQueue
  Progress
