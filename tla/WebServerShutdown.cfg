\* One request, which may be in flight when the server is interrupted.
SPECIFICATION Spec
CONSTANTS
  Requests = {r1}
  MaxSlots = 1
  Capacity = 1
  MaxEvents = 2
  MayLeave = FALSE
PROPERTY ShutdownWaits
