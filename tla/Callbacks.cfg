SPECIFICATION FairSpec
CONSTANTS
  Callbacks = {c1}
  Reports = {r1}
  Workers = {w1}
  Timeout = 0
  MaxToken = 2
  MaxQueue = 1
INVARIANTS DataMatchesToken CallbackUsedOnce
PROPERTIES AwaitEnds AcceptedIsValidated ImplementsRoute
CHECK_DEADLOCK FALSE
