CONSTANTS
  Order = {1, 2}
  Key = {k1}
  Caller = {c1}
  Worker = {w1}
  Limit = 2
  Store = {"sqlite"}
  Horizon = 1
  Own = Own
  NewOrder = NewOrder
  None = None
SPECIFICATION LiveSpec
PROPERTY DueIsServed
