CONSTANTS
  PerTx <- MCPerTx
  Daily <- MCDaily
  HardCeiling <- MCHard
  NanopayDaily = 2
  PriceChecked = 1
  MaxPrice = 2
  Foreign = {f1}
  CooldownMax = 1
  CallbackOver = 0
  Wordy = {"ben"}
  None = None
  Caller = {c1, c2}
  AtTier = 0
  Menus <- MCMenus
  Payee <- MCPayee
  Draft <- MCDraft
  ClaimCap = 1
  MaxFunds = 3
  MaxLocks = 2
  MaxAudit = 5
  MaxCrash = 1
SPECIFICATION Spec
SYMMETRY Symmetry
CHECK_DEADLOCK FALSE
INVARIANTS
  TypeOK
  DailyCapOvershoot
  NanopayOvershoot
  ClaimCapOvershoot
  FrozenRulesHold
  LocksCovered
  PaidIsAudited
  ForksAreBounded
  CooldownBinds
