\* Several assets in a scan, two scans: who wrote what, and when.
SPECIFICATION Spec
CONSTANTS
  NoVersion = "none"
  Domains = {"a", "b", "*.a"}
  Wildcards = {"*.a"}
  EmptyName = ""
  Roots = {"a"}
  Locals = {"b", ""}
  Endpoints = {1}
  Services <- MCServices
  Buckets = {"u"}
  MaxScans = 2
  MaxFaults = 1
  MayStop = TRUE
INVARIANTS
  TypeOK
  DiffsAgainstPreScan
  VersionReportsMatchStore
  FoundIsStored
PROPERTY
  HistoryIsKept
