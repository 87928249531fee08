SPECIFICATION Spec
CONSTANTS
  Handlers = {h1, h2}
  SessionIds = {s1, s2}
  SecondLength = 2
  DayLength = 3
  MaxTime = 6
  MaxEvents = 6
  HonestClock = TRUE
SYMMETRY MCSymmetry
INVARIANTS TypeOK SessionsAgree TotalsWithinEvents ScanIsHonoured
CHECK_DEADLOCK FALSE
