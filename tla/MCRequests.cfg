SPECIFICATION RequestsSpec
CONSTANTS
  MaxConn = 1
  MaxCalls = 1
  MaxClosings = 1
  MaxTimers = 0
  Fd = {3}
  None = none
PROPERTY RequestsHandled
CHECK_DEADLOCK FALSE
