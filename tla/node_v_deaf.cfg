SPECIFICATION Spec
CONSTANTS
  Reachable = {"data","cmd"}
  MoistureLevels = {0,2,4}
  LowThres = 1
  HighThres = 3
  Thresholds = {1}
  OnDuration = 0
  LightLimit = 0
  MaxGap <- NoTurnMissed
PROPERTIES DeafNodeIsInFault
