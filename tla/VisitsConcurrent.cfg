SPECIFICATION Spec
CONSTANTS
  host = host
  admin = admin
  other = other
  org = org
  branch = branch
  Null = Null
  Handlers = {h1, h2}
  VisitIds = {v1}
  NotifIds = {n1, n2, n3}
  Staff = {host, admin}
  Admins = {admin}
  Orgs = {org}
  OrgOf <- MCOrgOf
  Visitors = {guest}
  ResendGap = 2
  MaxTime = 2
  Faulty = TRUE
SYMMETRY MCSymmetry
INVARIANTS TypeOK StatusFieldsAgree NotificationsAgree RemindersBounded
PROPERTIES FollowsLifecycle
CHECK_DEADLOCK FALSE
