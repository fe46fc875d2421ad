SPECIFICATION FairSpec
CONSTANTS
  Thread = {t1, t2}
  Loop = loop
  Task = {f1, f2, f3}
  NoTask = NoTask
  Free = Free
  Fd = {sock, timer}
  EventFd = eventfd
  MaxEvents = 2
INVARIANT TypeOK
INVARIANT NoLostWakeup
INVARIANT MutexOwner
PROPERTY PoolOnlyGrowsInBatch
PROPERTY ImplementsTaskQueue
PROPERTY EveryTaskRuns
PROPERTY CallsReturn
PROPERTY WakeupConsumed
