SPECIFICATION Spec
CONSTANTS
  d1 = d1
  d2 = d2
  d3 = d3
  d4 = d4
  None = None
  Device = {d1,d2,d3,d4}
  Group = {d1,d2,d3,d4}
  Remover = {d1, d2, d3, d4}
  Reachable <- Chain
  ClockSkew <- NoSkew
  MaxPairings = 1
  MaxRemovals = 1
  MaxFaults = 0
CHECK_DEADLOCK FALSE
INVARIANT RostersAgree
