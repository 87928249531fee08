SPECIFICATION Spec
CONSTANTS
  Handlers = {h1, h2}
  UserIds = {u1, u2, u3}
  SessionIds = {s1}
  Words = {w1, w2}
  MaxTokens = 4
  MaxCodes = 1
  Null = Null
CONSTRAINT MCOneMember
SYMMETRY MCSymmetry
INVARIANTS TypeOK RootsBounded RefreshesBounded FirstPasswordIsSent
PROPERTIES SessionsEndForGood
CHECK_DEADLOCK FALSE
