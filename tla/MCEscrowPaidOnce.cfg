CONSTANTS
  Claim = {c1, c2}
  Payee = {p1}
  Onboarder = {o1}
  Worker = {w1}
  Amount = {2}
  Reserve = 0
  Fee = 0
  Demo = FALSE
  MaxLate = 1
  None = None
SPECIFICATION Spec
INVARIANT PaidOnce
