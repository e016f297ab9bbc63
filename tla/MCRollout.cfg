SPECIFICATION FairSpec
CONSTANTS
  Routers = {1, 2}
  MaxJobs = 1
  MaxTroubles = 1
INVARIANTS RolloutTypeOK HandedOnce
PROPERTIES FleetAfterCanary RolloutEnds
CHECK_DEADLOCK FALSE
