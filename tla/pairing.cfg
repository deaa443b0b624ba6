SPECIFICATION FairSpec
CONSTANTS
  None = None
  MaxAttempts = 3
  MaxPairingFailures = 2
  MaxCommands = 3
  MaxCodes = 4
CHECK_DEADLOCK FALSE
INVARIANT TypeOK
INVARIANT GuessesBounded
 
PROPERTY NoneAfterCancel
PROPERTY CommandsReturn
