\* One asset, two endpoints, three scans: a port that opens, closes and opens
\* again, with two scans of history before it.
SPECIFICATION Spec
CONSTANTS
  NoVersion = "none"
  Domains = {"a"}
  Wildcards = {}
  EmptyName = ""
  Roots = {"a"}
  Locals = {}
  Endpoints = {1, 2}
  Services <- MCOneService
  Buckets = {}
  MaxScans = 3
  MaxFaults = 1
  MayStop = TRUE
INVARIANTS
  OpenedIffFirstSeen
  BadgesMatchReport
