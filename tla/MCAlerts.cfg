SPECIFICATION Spec
CONSTANTS
  FailThreshold = 1
  RecoveryThreshold = 1
  Buttons = {}
  MaxIncidents = 2
  MaxStops = 1
  MaxKills = 0
  MaxPresses = 0
INVARIANTS
  AlertTypeOK
  OneSender
  RedCardAnswered
PROPERTIES
  CardBeforeRecovery
  CardOnce
  ThreadKept
