SPECIFICATION Spec
CONSTANTS
  NumThreads = 2
  StatusPid = 1
  RemotePids = {5}
  RemoteStatus = {"other"}
  StartFailures = {0}
  QueueDepth = 2
  ProcessLimit = 1
  MissingCount = 1
  PerPass = 1
  GapLimit = 2
CHECK_DEADLOCK FALSE
INVARIANTS TypeOK
PROPERTIES BlameIsFair SilenceIsNoticed FatalErrorsEnd DeadThreadIsNoticed
