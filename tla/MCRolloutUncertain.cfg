SPECIFICATION Spec
CONSTANTS
  Routers = {1, 2}
  MaxJobs = 1
  MaxTroubles = 1
INVARIANT UncertainPauses
CHECK_DEADLOCK FALSE
