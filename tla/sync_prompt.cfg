SPECIFICATION Spec
CONSTANTS
  d1 = d1
  d2 = d2
  d3 = d3
  ca = ca
  cb = cb
  cz = cz
  private = private
  Empty = Empty
  None = None
  Device = {d1, d2, d3}
  Content = {ca, cb}
  Identity <- DistinctIdentity
  Skipped = {}
  StartSnapshots <- EmptyOnly
  PromptWatcher = TRUE
  MaxTime = 2
  MaxCopies <- UnevenCopies
  MaxItems = 3
  Breakable = {}
  MaxFaults = 1
  MaxRestarts = 0
  ClockSkew <- NoSkew
  TicksPerMs = 1
  RecentItems = 2
  IdRank <- Ranks
CHECK_DEADLOCK FALSE
SYMMETRY Contents
INVARIANT NoFeedback
INVARIANT Converged
PROPERTY NewestWins
PROPERTY GenuineCopyIsSent
