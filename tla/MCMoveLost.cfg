SPECIFICATION FairSpec
CONSTANTS
  a = a
  b = b
  c = c
  d = d
  Tunnels = {a, b}
  Home <- TwoTunnels
  attemptLimit = 3
  Hops = 8
  MaxBreaks = 3
  MaxTroubles = 0
PROPERTY AlwaysComesBack
