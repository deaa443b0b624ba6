SPECIFICATION FairSpec
CONSTANTS
  ca = ca
  cb = cb
  cz = cz
  private = private
  Empty = Empty
  None = None
  Content = {ca, cb, cz}
  Identity <- TrailingIdentity
  Skipped = {private}
  Platform <- Platforms
  Interval = 3
  Debounce = 2
  MaxChanges = 2
CHECK_DEADLOCK FALSE
INVARIANT TypeOK
INVARIANT CheckInTime
INVARIANT HandedOver
PROPERTY KeepsWatch
