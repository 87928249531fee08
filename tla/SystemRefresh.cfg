SPECIFICATION Spec
CONSTANTS
  Handlers = {h1}
  AccountIds = {a1}
  SessionIds = {s1}
  MaxLimit = 1
  MaxCodes = 1
  Null = Null
INVARIANTS RefreshedTokenAccepted
CHECK_DEADLOCK FALSE
