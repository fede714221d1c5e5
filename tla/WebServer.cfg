\* Two requests compete for one slot; a channel of one event, overflown by
\* scans of up to three.
SPECIFICATION FairSpec
CONSTANTS
  Requests = {r1, r2}
  MaxSlots = 1
  Capacity = 1
  MaxEvents = 2
  MayLeave = TRUE
INVARIANTS
  TypeOK
  SlotsMatchHandlers
  WatchedScanKeepsRunner
PROPERTIES
  KeepsStream
  PipelineEnds
  SlotReturned
