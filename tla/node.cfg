SPECIFICATION Spec
CONSTANTS
  Reachable = {"data","cmd","log","status"}
  MoistureLevels = {0,4}
  LowThres = 1
  HighThres = 1
  Thresholds = {1}
  OnDuration = 1
  LightLimit = 0
  MaxGap <- SolenoidMisses
INVARIANTS TypeOK
PROPERTIES NominalIsFresh ImplementsValve DryPlantIsWatered AlarmFollows
