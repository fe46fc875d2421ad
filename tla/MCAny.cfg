SPECIFICATION Spec
CONSTANTS
  Obj = {a, b}
  Context = context
  Type = {int, string}
  Data = {d, e}
  Addr = {p, q, r, s}
  Null = null
  Free = free
SYMMETRY Symmetry
INVARIANT TypeOK
INVARIANT OwnedOnce
INVARIANT ActsAsValue
CHECK_DEADLOCK FALSE
