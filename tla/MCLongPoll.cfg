SPECIFICATION FairSpec
CONSTANTS
  Polls = {p1, p2}
  MaxCommands = 2
  MaxEnqueuers = 2
INVARIANTS
  TypeOK
  NoStrandedCommand
PROPERTIES
  WaiterServed
