SPECIFICATION FairSpec
CONSTANTS
  Processes = {p1, p2}
  Removed = {p2}
  Requests = {r1, r2}
  Users = {u1}
  Threads = {t1, t2}
  MaxPool = 2
  None = None
INVARIANTS EntryIsLocked OneRun
PROPERTIES ImplementsLease NoneForgotten Executed
CHECK_DEADLOCK FALSE
