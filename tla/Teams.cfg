SPECIFICATION Spec
CONSTANTS
  Handlers = {h1, h2}
  StaffIds = {s1, s2, s3}
  MemberIds = {m1, m2, m3}
  Null = Null
SYMMETRY MCSymmetry
INVARIANTS TypeOK ReporteesAreMembers ReportingIsSound
CHECK_DEADLOCK FALSE
