SPECIFICATION FairSpec
CONSTANTS
  line0 = line0
  f1 = f1
  f2 = f2
  z1 = z1
  k1 = k1
  Own <- line0
  Foreign <- McForeign
  Zoned <- McZoned
  Kept <- McKept
  IdOf <- McIdOf
  MaxForeign = 2
  DoTLimit = 3
  FailThreshold = 2
  OKThreshold = 1
  MaxTroubles = 4
  HandEdits = TRUE
INVARIANTS
  DnsTypeOK
  RecordTellsWayBack
  ModeProven
  GivesUpOnlyToPeople
PROPERTIES
  NeverBare
  ComesHome
  Escapes
