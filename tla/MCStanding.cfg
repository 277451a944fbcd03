CONSTANTS
  Order = {1, 2}
  Key = {k1, k2}
  Caller = {c1}
  Worker = {w1}
  Limit = 2
  Store = {"sqlite", "postgres"}
  Horizon = 1
  Own = Own
  NewOrder = NewOrder
  None = None
SPECIFICATION Spec
SYMMETRY Symmetry
INVARIANTS
  TypeOK
  RepeatNeedsLostMark
PROPERTY CancelIsFinal
