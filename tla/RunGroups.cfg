SPECIFICATION Spec
CONSTANTS
  N = 4
  Kind <- GroupsKind
  Subs <- GroupsSubs
  IsTask = FALSE
  Faults = {"crash"}
  MaxRows = 8
INVARIANTS StatusMatchesLog CompositionIsExact
PROPERTIES ImplementsPromise
CHECK_DEADLOCK FALSE
