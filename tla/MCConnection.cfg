SPECIFICATION FairSpec
CONSTANTS
  MaxConn = 2
  MaxCalls = 2
  MaxClosings = 2
  MaxTimers = 1
  Fd = {3, 4}
  None = none
INVARIANT TypeOK
INVARIANT PollerMatchesKernel
INVARIANT DispatchedIsRegistered
INVARIANT DeletedIsForgotten
INVARIANT SentInOrder
PROPERTY ShutdownCloses
PROPERTY ImplementsConnectionLife
CHECK_DEADLOCK FALSE
