SPECIFICATION Spec
SYMMETRY Symmetry
CONSTANTS
  Client = {c1, c2}
  Domain = "acme.dev"
  Ports = {1}
  Services <- MCServices
  NoVersion = ""
  MaxTime = 2
  MaxScans = 3
INVARIANTS
  TypeOK
  FirstWriterReports
  MixedReportNeedsRace
  ChangeReportedOrRaced
PROPERTY
  StaleStampsWereRaced
CHECK_DEADLOCK FALSE
