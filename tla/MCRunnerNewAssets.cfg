\* One scan of an empty store, undisturbed.
SPECIFICATION Spec
CONSTANTS
  NoVersion = "none"
  Domains = {"a"}
  Wildcards = {}
  EmptyName = ""
  Roots = {"a"}
  Locals = {}
  Endpoints = {1}
  Services <- MCOneService
  Buckets = {}
  MaxScans = 1
  MaxFaults = 0
  MayStop = FALSE
INVARIANT
  NewAssetsReported
