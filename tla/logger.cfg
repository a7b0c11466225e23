SPECIFICATION Spec
CONSTANTS
  k1 = k1
  k2 = k2
  Keys = {k1, k2}
  QueueDepth = 3
  ProcessLimit = 2
  MaxItems = 4
  MaxFailures = 1
CHECK_DEADLOCK FALSE
INVARIANTS TypeOK OnlyRepeatsAreDropped HaltedIsLogged
PROPERTIES ImplementsLog ProgramEnds
