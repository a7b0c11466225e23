SPECIFICATION Spec
CONSTANTS
  n1 = n1
  Notifiers = {n1}
  MayOverlap = TRUE
  Commands = {1,2,3,10}
  Numbers = {0,2,10}
  MoistureValues = {0,2,3}
  SoilMoistureMax = 3
  LowThres = 1
  HighThres = 2
  MaxWaterChecks = 1
  MinPeriod = 2
  MaxSeconds = 9
  CmdQueueDepth = 1
INVARIANTS TypeOK CountIsEvidence OneshotIsArmed
PROPERTIES FaultNeedsEvidence OneshotResolves
