----------------------------- MODULE MCCmdQueue -----------------------------
(***************************************************************************)
(* Small instances of CmdQueue: two routers compete for one release-proxy  *)
(* slot with two updates and one other command, of which at most MaxInUse  *)
(* are known to the backend at once.  Durations keep the code's order:     *)
(* early release (1-2m) < dispatch window (12m) < update TTL (30m) < sweep *)
(* age (60m), as far as ticks allow.                                       *)
(***************************************************************************)
EXTENDS CmdQueue

CONSTANT MaxInUse

Bounded == Cardinality({id \in Ids : InUse(id)}) <= MaxInUse

MCSpec == /\ Init /\ [][Next /\ Bounded']_vars
          /\ WF_vars(Tick) /\ \A u \in Users : WF_vars(Poll(u))
=============================================================================
