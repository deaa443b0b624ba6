SPECIFICATION FairSpec
CONSTANTS
  ca = ca
  cb = cb
  cz = cz
  private = private
  Empty = Empty
  None = None
  Content = {ca, cb}
  Identity <- TrailingIdentity
  Skipped = {}
  Platform <- BusyWindows
  Interval = 2
  Debounce = 1
  MaxChanges = 2
CHECK_DEADLOCK FALSE
PROPERTY EveryChangeObserved
