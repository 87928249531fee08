SPECIFICATION Spec
CONSTANTS
  Handlers = {h1, h2}
  Orgs = {o1}
  Plans = {p1, p2}
  Features = {VMS_ACCESS, STAFF_MANAGEMENT_ACCESS}
  MaxRows = 3
  Null = Null
SYMMETRY MCSymmetry
INVARIANTS TypeOK SubscribedWhileStored FeaturesAreAsked NamesBounded
PROPERTIES DisabledUnused
CHECK_DEADLOCK FALSE
