SPECIFICATION FairSpec
CONSTANTS
  a = a
  b = b
  Device = {a, b}
  MaxOpens = 2
  MaxFaults = 2
  MaxEnds = 1
CHECK_DEADLOCK FALSE
INVARIANT TypeOK
INVARIANT StreamsIntact
PROPERTY NoneHalfOpen
