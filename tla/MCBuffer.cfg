SPECIFICATION Spec
CONSTANTS
  Byte = {x, CR, LF}
  CR = CR
  LF = LF
  Nul = Nul
  InitialSize = 2
  Word = 16
  MaxSize = 5
  MaxWrite = 2
  Overread = 0
INVARIANT TypeOK
INVARIANT IndexOrder
PROPERTY ImplementsByteQueue
