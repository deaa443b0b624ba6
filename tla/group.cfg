SPECIFICATION FairSpec
CONSTANTS
  d1 = d1
  d2 = d2
  d3 = d3
  d4 = d4
  None = None
  Device = {d1, d2, d3}
  Group = {d1, d2}
  Remover = {d1, d3}
  Reachable <- AnyPair
  ClockSkew <- NoSkew
  MaxPairings = 1
  MaxRemovals = 1
  MaxFaults = 1
CHECK_DEADLOCK FALSE
INVARIANT TypeOK
INVARIANT RostersAgree
PROPERTY NotAddedBack
PROPERTY GossipEnds
