SPECIFICATION FairSpec
CONSTANTS
  host = host
  admin = admin
  other = other
  org = org
  branch = branch
  Null = Null
  Handlers = {h1, h2}
  VisitIds = {v1}
  NotifIds = {n1, n2, n3}
  Staff = {host}
  Admins = {}
  Orgs = {org}
  OrgOf <- MCOrgOf
  Visitors = {guest}
  ResendGap = 2
  MaxTime = 1
  Faulty = FALSE
INVARIANTS WaitingVisitIsAnnounced
PROPERTIES HostEventuallyTold
CHECK_DEADLOCK FALSE
