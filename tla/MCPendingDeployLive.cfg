SPECIFICATION FairSpec
CONSTANTS
  MaxVersion = 2
  MaxAttempts = 2
  MaxIds = 3
  MaxHandlers = 1
  MaxEvents = 2
PROPERTIES
  PendingResolves
