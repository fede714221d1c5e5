\* One scan of two assets, cancelled between them.
SPECIFICATION Spec
CONSTANTS
  NoVersion = "none"
  Domains = {"a", "b"}
  Wildcards = {}
  EmptyName = ""
  Roots = {"a"}
  Locals = {}
  Endpoints = {1}
  Services <- MCOneService
  Buckets = {}
  MaxScans = 1
  MaxFaults = 0
  MayStop = TRUE
INVARIANT
  DetectedIsReported
