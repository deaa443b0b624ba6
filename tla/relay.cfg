SPECIFICATION FairSpec
CONSTANTS
  u1 = u1
  u2 = u2
  d1 = d1
  d2 = d2
  None = None
  User = {u1, u2}
  Device = {d1, d2}
  StartAccounts <- Accounts
  Caller = {d1}
  Socket <- Sockets
  Request <- TwoRequests
  MaxEvents = 4
CHECK_DEADLOCK FALSE
INVARIANT TypeOK
INVARIANT RegistryIsExact
INVARIANT OwnUserOnly
INVARIANT ConnectedIsRegistered
PROPERTY AnswersMatch
PROPERTY RequestsEnd
