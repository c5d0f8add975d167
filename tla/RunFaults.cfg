SPECIFICATION Spec
CONSTANTS
  N = 4
  Kind <- GroupsKind
  Subs <- GroupsSubs
  IsTask = FALSE
  Faults = {"crash", "pause", "abort_running", "log"}
  MaxRows = 5
INVARIANTS TypeOK SubStepsInOrder
CHECK_DEADLOCK FALSE
