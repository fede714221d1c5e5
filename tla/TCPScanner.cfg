\* Three probes, two workers, with and without a rate limit.
SPECIFICATION FairSpec
CONSTANTS
  Total = 3
  NWorkers = 2
INVARIANTS
  TypeOK
  NoSendOnClosed
  ReportedOnce
  OneLateDial
  RateRespected
PROPERTIES
  KeepsPromise
  Terminates
