SPECIFICATION Spec
CONSTANTS
  NumThreads = 2
  StatusPid = 1
  RemotePids = {5}
  RemoteStatus = {"term_thread"}
  StartFailures = {1}
  QueueDepth = 2
  ProcessLimit = 2
  MissingCount = 0
  PerPass = 1
  GapLimit = 0
CHECK_DEADLOCK FALSE
PROPERTIES ShutdownCompletes
