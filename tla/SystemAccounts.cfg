SPECIFICATION Spec
CONSTANTS
  Handlers = {h1, h2}
  AccountIds = {a1, a2, a3}
  SessionIds = {s1, s2}
  MaxLimit = 1
  MaxCodes = 2
  Null = Null
SYMMETRY MCSymmetry
INVARIANTS TypeOK AccountsBounded OtpSucceedsOnce
PROPERTIES RefusedForGood
CHECK_DEADLOCK FALSE
