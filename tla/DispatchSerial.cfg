SPECIFICATION Spec
CONSTANTS
  Procs = {p1}
  Tasks = {p1}
  NoProc = NoProc
  Workers = {w1}
  Users = {u1}
  N = 3
  Kind <- InputKind
  Events = {"worker_crash", "client_crash", "broker", "sweep", "sweeper_crash",
            "delete", "pause", "eager", "form"}
  MaxRows = 2
  MaxQueue = 1
INVARIANTS LogInOrder
CHECK_DEADLOCK FALSE
