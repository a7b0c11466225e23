SPECIFICATION Spec
CONSTANTS
  NumThreads = 2
  StatusPid = 1
  RemotePids = {}
  RemoteStatus = {"ok"}
  StartFailures = {0}
  QueueDepth = 6
  ProcessLimit = 6
  MissingCount = 0
  PerPass = 1
  GapLimit = 0
CHECK_DEADLOCK FALSE
PROPERTIES ShutdownCompletes
