SPECIFICATION FairSpec
CONSTANTS
  MaxCount = 4
  Base = base
  Null = null
  Main = main
  Free = free
INVARIANT TypeOK
INVARIANT LoopsAreConstructed
INVARIANT RoundRobin
PROPERTY CreateReturns
