\* Three undisturbed scans of one endpoint.
SPECIFICATION Spec
CONSTANTS
  NoVersion = "none"
  Domains = {"a"}
  Wildcards = {}
  EmptyName = ""
  Roots = {"a"}
  Locals = {}
  Endpoints = {1}
  Services <- MCOneService
  Buckets = {}
  MaxScans = 3
  MaxFaults = 0
  MayStop = FALSE
INVARIANT
  HistoryIsPreviousScan
