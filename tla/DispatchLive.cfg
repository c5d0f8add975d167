SPECIFICATION FairSpec
CONSTANTS
  Procs = {p1}
  Tasks = {}
  NoProc = NoProc
  Workers = {w1}
  Users = {u1}
  N = 3
  Kind <- RetryKind
  Events = {"worker_crash", "client_crash", "sweep", "abort"}
  MaxRows = 3
  MaxQueue = 1
PROPERTIES TaskTaken
CHECK_DEADLOCK FALSE
