SPECIFICATION Spec
CONSTANTS
  MaxVersion = 2
  MaxAttempts = 2
  MaxIds = 3
  MaxHandlers = 2
  MaxEvents = 2
INVARIANTS
  DeployTypeOK
PROPERTIES
  GiveUpEarned
