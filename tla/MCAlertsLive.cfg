SPECIFICATION FairSpec
CONSTANTS
  FailThreshold = 1
  RecoveryThreshold = 1
  Buttons = {"silence", "ack"}
  MaxIncidents = 1
  MaxStops = 0
  MaxKills = 1
  MaxPresses = 1
PROPERTIES
  HardIsTold
  DebtEnds
