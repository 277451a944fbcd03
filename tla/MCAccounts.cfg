CONSTANTS
  p1 = p1
  p2 = p2
  t1 = t1
  t2 = t2
  Caller = {c1, c2}
  Phone = {p1, p2}
  Chat = {t1, t2}
  Label = {n1, n2}
  Pin = {1, 2}
  MaxFails = 2
  Menus <- MCMenus
  None = None
  MaxCrash = 1
SPECIFICATION Spec
SYMMETRY Symmetry
CHECK_DEADLOCK FALSE
INVARIANTS
  TypeOK
  NamesAgree
  NothingIsUndone
  FailuresCounted
  CodeSpentOnce
  RefusedOnlyOverlapped
  AttestedIsTier2
