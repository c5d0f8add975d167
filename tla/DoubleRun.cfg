SPECIFICATION Spec
CONSTANTS
  Procs = {p1}
  Tasks = {}
  NoProc = NoProc
  Workers = {w1, w2}
  Users = {u1, u2}
  N = 3
  Kind <- InputKind
  Events = {}
  MaxRows = 3
  MaxQueue = 1
INVARIANTS SingleExecutor
CHECK_DEADLOCK FALSE
