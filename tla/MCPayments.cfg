CONSTANTS
  Handler = {h1, h2}
  Key = {k1, k2}
  None = None
SPECIFICATION Spec
SYMMETRY Symmetry
INVARIANTS
  TypeOK
  AtMostOnce
  LedgerBacked
  ResultComplete
  SentIsTrue
PROPERTIES
  PaysOncePerKey
