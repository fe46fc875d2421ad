SPECIFICATION Spec
CONSTANTS
  Sock = {a, b, c}
  Fd = {3, 4, 5, 6}
  None = none
SYMMETRY Symmetry
INVARIANT TypeOK
INVARIANT HoldsItsOwn
INVARIANT NothingLeaks
