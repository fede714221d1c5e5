\* One request whose user stays.
SPECIFICATION Spec
CONSTANTS
  Requests = {r1}
  MaxSlots = 1
  Capacity = 1
  MaxEvents = 2
  MayLeave = FALSE
INVARIANT ErrorsAreNotFatal
