--------------------------- MODULE MCTrafficMove ---------------------------
(* Four tunnels, the last of them behind a link past the VPN; or two.      *)
EXTENDS TrafficMove

CONSTANTS a, b, c, d

FourTunnels == <<a, b, c, "", d>>
TwoTunnels == <<a, b>>
=============================================================================
