SPECIFICATION Spec
CONSTANTS
  Values = {1, 2, 3, 4}
  DefaultLow = 1
  DefaultHigh = 2
  SoilMoistureMax = 3
  QueueDepth = 2
  MaxMessages = 3
  MaxConns = 2
  MaxSplits = 1
  MaxRestarts = 1
CHECK_DEADLOCK FALSE
INVARIANTS TypeOK GarbledOnlyAfterSplit ThresholdsCrossOnlyByLoss
PROPERTIES ImplementsLink LastingLinkWorks
