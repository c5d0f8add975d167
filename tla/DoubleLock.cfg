SPECIFICATION Spec
CONSTANTS
  s1 = s1
  s2 = s2
  Subscriptions = {s1}
  Processes = {p1, p2}
  Targets = {"modify"}
  Related <- NotRelated
  Faults = {}
INVARIANTS OneWorkflow
CHECK_DEADLOCK FALSE
