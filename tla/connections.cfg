SPECIFICATION FairSpec
CONSTANTS
  low = low
  high = high
  s1 = s1
  s2 = s2
  s3 = s3
  None = None
  Device = {low, high}
  Lower = low
  Slot = {s1,s2,s3}
  MaxTunnels = 1
  MaxFaults = 1
CHECK_DEADLOCK FALSE
INVARIANT TypeOK
INVARIANT OneConnection
 
PROPERTY StayConnected
