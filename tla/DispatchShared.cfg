SPECIFICATION Spec
CONSTANTS
  Procs = {p1}
  Tasks = {p1}
  NoProc = NoProc
  Workers = {w1, w2}
  Users = {u1, u2}
  N = 2
  Kind <- WaitKind
  Events = {"delete", "sweep"}
  MaxRows = 2
  MaxQueue = 1
INVARIANTS NotLost
CHECK_DEADLOCK FALSE
SYMMETRY Symmetry
