SPECIFICATION Spec
CONSTANTS
  Handlers = {h1}
  SessionIds = {s1, s2, s3}
  SecondLength = 2
  DayLength = 5
  MaxTime = 8
  MaxEvents = 8
  HonestClock = TRUE
SYMMETRY MCSymmetry
INVARIANTS DaysAreWellFormed NormalTotalsAddUp StoredTotalsAreExported SessionsDisjoint
PROPERTIES FollowsTimesheet
CHECK_DEADLOCK FALSE
