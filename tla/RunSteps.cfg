SPECIFICATION FairSpec
CONSTANTS
  N = 6
  Kind <- StepsKind
  Subs <- StepsSubs
  IsTask = TRUE
  Faults = {"crash", "pause", "log", "form"}
  MaxRows = 7
INVARIANTS NothingSkipped RecoveryExact PositionMatchesLog
PROPERTIES   ImplementsPromise ExecutorStops
CHECK_DEADLOCK FALSE
