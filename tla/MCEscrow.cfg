CONSTANTS
  Claim = {c1, c2}
  Payee = {p1}
  Onboarder = {o1}
  Worker = {w1}
  Amount = {4}
  Reserve = 1
  Fee = 1
  Demo = FALSE
  MaxLate = 1
  None = None
SPECIFICATION Spec
SYMMETRY Symmetry
INVARIANTS
  TypeOK
  SettledBacked
  LedgerWithinPayouts
  PoolCoversHeld
  ShortfallIsGas
PROPERTY SettledIsOver
