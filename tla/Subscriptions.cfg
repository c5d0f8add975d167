SPECIFICATION Spec
CONSTANTS
  s1 = s1
  s2 = s2
  Subscriptions = {s1, s2}
  Processes = {p1, p2}
  Targets = {"modify", "terminate", "validate", "reconcile", "modify_note"}
  Related <- OneUsesTheOther
  Faults = {"step", "log", "crash", "abort"}
INVARIANTS Exclusive NotLeftLocked TerminatedUnused TraversalIsExact SaveIsExact HelpersAreExact MigrationIsExact IndexIsExact  ResultsAreExact
PROPERTIES SetInSyncSafe
CHECK_DEADLOCK FALSE
SYMMETRY Symmetry
