-------------------------- MODULE MCCommandChannel --------------------------
(***************************************************************************)
(* CommandChannel with a budget of adversities: broken polls and posts,    *)
(* crashes, refused database writes and ticks of time, MaxFaults in all.   *)
(***************************************************************************)
EXTENDS CommandChannel

CONSTANT MaxFaults

VARIABLE faults

MCInit == ChanInit /\ faults = 0

MCNext == \/ ChanStep /\ UNCHANGED faults
          \/ faults < MaxFaults /\ Adversity /\ faults' = faults + 1

\* The model treats outcomes alike.
Symmetry == Permutations(Outcomes)

MCSpec == MCInit /\ [][MCNext]_<<chanVars, faults>>
=============================================================================
