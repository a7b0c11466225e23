SPECIFICATION SafetySpec
CONSTANTS
  n1 = n1
  Notifiers = {n1}
  MayOverlap = TRUE
  Commands = {1,2}
  Numbers = {2}
  MoistureValues = {0,2,3}
  SoilMoistureMax = 3
  LowThres = 1
  HighThres = 2
  MaxWaterChecks = 2
  MinPeriod = 2
  MaxSeconds = 2
  CmdQueueDepth = 1
INVARIANTS WateringIsSupervised
