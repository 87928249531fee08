SPECIFICATION Spec
CONSTANTS
  Handlers = {h1, h2}
  People = {p1, p2, p3}
  Null = Null
CONSTRAINT MCHoursOfOne
SYMMETRY MCSymmetry
INVARIANTS TypeOK RolesAgree OnlyStaffLogsIn AdministrationIsSound DeadlockNeedsTransferOrCascade
CHECK_DEADLOCK FALSE
