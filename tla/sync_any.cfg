SPECIFICATION FairSpec
CONSTANTS
  d1 = d1
  d2 = d2
  d3 = d3
  ca = ca
  cb = cb
  cz = cz
  private = private
  Empty = Empty
  None = None
  Device = {d1, d2}
  Content = {ca, cb, cz}
  Identity <- TrailingIdentity
  Skipped = {private}
  StartSnapshots <- AnySnapshot
  PromptWatcher = FALSE
  MaxTime = 1
  MaxCopies <- CopyOnce
  MaxItems = 4
  Breakable <- Pairs
  MaxFaults = 1
  MaxRestarts = 1
  ClockSkew <- NoSkew
  TicksPerMs = 1
  RecentItems = 1
  IdRank <- Ranks
CHECK_DEADLOCK FALSE
INVARIANT TypeOK
INVARIANT EngineTracksDetector
INVARIANT SeenIsRecentIds
PROPERTY SettlesDown
