SPECIFICATION Spec
CONSTANTS
  n1 = n1
  Notifiers = {n1}
  MayOverlap = FALSE
  Commands = {0,1,2,4,6,8,9,10,11}
  Numbers = {0,2,3,10}
  MoistureValues = {0,2,3}
  SoilMoistureMax = 3
  LowThres = 0
  HighThres = 2
  MaxWaterChecks = 2
  MinPeriod = 2
  MaxSeconds = 9
  CmdQueueDepth = 1
INVARIANTS ThresholdOrder PeriodicIsArmed WateringIsSupervised
PROPERTIES DryWateringEnds
