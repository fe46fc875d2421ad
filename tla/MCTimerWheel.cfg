SPECIFICATION FairSpec
CONSTANTS
  Id = {a, b}
  NoId = none
  Delay = {1, 2, 3, 4}
  NestedDelay = {1, 2, 4}
  Capacity = 3
  MaxNodes = 2
  MaxSeconds = 2
INVARIANT TypeOK
INVARIANT MapMatchesWheel
PROPERTY ImplementsTimerService
PROPERTY TimersExpire
PROPERTY HandReturns
PROPERTY RefreshFindsTask
CHECK_DEADLOCK FALSE
