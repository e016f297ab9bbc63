SPECIFICATION MCSpec
CONSTANTS
  Users = {r1}
  UpdateIds = {up1}
  OtherIds = {cmd1}
  UpdateTTL = 1
  OtherTTL = 1
  Window = 1
  MaxInFlight = 1
  Cooldown = 1
  SweepTTL = 1
  CacheTTL = 1
  CacheMax = 1
  Outcomes = {ok, failed}
  MaxFaults = 3
SYMMETRY Symmetry
INVARIANTS
  ChanTypeOK
  JournalTellsAnswer
  UpdateJournalClosed
PROPERTIES
  KeepsPromise
