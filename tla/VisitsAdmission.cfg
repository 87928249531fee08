SPECIFICATION Spec
CONSTANTS
  host = host
  admin = admin
  other = other
  org = org
  branch = branch
  Null = Null
  Handlers = {h1, h2}
  VisitIds = {v1, v2, v3}
  NotifIds = {n1, n2}
  Staff = {host, other}
  Admins = {}
  Orgs = {org, branch}
  OrgOf <- MCOrgOf
  Visitors = {guest}
  ResendGap = 1
  MaxTime = 0
  Faulty = FALSE
SYMMETRY MCSymmetry
INVARIANTS ActiveVisitsBounded
CHECK_DEADLOCK FALSE
