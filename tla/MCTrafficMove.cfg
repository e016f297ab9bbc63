SPECIFICATION FairSpec
CONSTANTS
  a = a
  b = b
  c = c
  d = d
  Tunnels = {a, b, c, d}
  Home <- FourTunnels
  attemptLimit = 1
  Hops = 3
  MaxBreaks = 2
  MaxTroubles = 2
INVARIANTS
  MoveTypeOK
  WayHome
  TheirsStays
PROPERTIES
  ComesBack
  Leaves
