SPECIFICATION MCSpec
CONSTANTS
  Users = {r1, r2}
  UpdateIds = {up1, up2}
  OtherIds = {cmd1}
  UpdateTTL = 2
  OtherTTL = 1
  Window = 1
  MaxInFlight = 1
  Cooldown = 1
  SweepTTL = 2
  MaxInUse = 2
INVARIANTS
  TypeOK
  NoDoubleLife
  OnePendingUpdate
  DispatchCap
  DeferredNeverStack
PROPERTIES
  PendingLeaves
