SPECIFICATION SafetySpec
CONSTANTS
  n1 = n1
  Notifiers = {n1}
  MayOverlap = FALSE
  Commands = {1,3}
  Numbers = {2}
  MoistureValues = {0,3}
  SoilMoistureMax = 3
  LowThres = 1
  HighThres = 2
  MaxWaterChecks = 2
  MinPeriod = 2
  MaxSeconds = 9
  CmdQueueDepth = 1
INVARIANTS PeriodicIsArmed
