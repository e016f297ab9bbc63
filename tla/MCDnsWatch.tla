----------------------------- MODULE MCDnsWatch -----------------------------
(***************************************************************************)
(* A router with its own resolver and one more line of the owner's, which  *)
(* shares its identifier with a fallback candidate; two candidates that    *)
(* serve every zone and one bound to a zone.                               *)
(***************************************************************************)
EXTENDS DnsWatch, TLC

CONSTANTS line0, f1, f2, z1, k1

McForeign == {f1, f2}
McZoned == {z1}
McKept == {k1}
McIdOf == (line0 :> 1) @@ (f1 :> 2) @@ (f2 :> 3) @@ (z1 :> 4) @@ (k1 :> 2)
=============================================================================
