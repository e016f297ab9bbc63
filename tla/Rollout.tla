------------------------------- MODULE Rollout -------------------------------
(***************************************************************************)
(* The rollout of a new agent version over the fleet.  One router, the     *)
(* canary, gets the update first; when it has reported the new version and *)
(* stayed well for the observation window, the others get it.  A rollout   *)
(* lives in the database and is moved on by ticks: a worker of the backend *)
(* ticks it every few seconds, and the handler that creates it ticks it    *)
(* once, at the same time as the worker.  A tick reads the rollout, then   *)
(* probes, hands out updates and writes, one statement at a time; in       *)
(* between the operator may cancel and the backend may stop.               *)
(*                                                                         *)
(* What becomes of an update that is handed out is PendingDeploy; here a   *)
(* router has one pending, and installs it or not.                         *)
(***************************************************************************)
EXTENDS Integers, Sequences, FiniteSets, Functions

CONSTANTS
  Routers,      \* numbers, as in the database
  MaxJobs,      \* bound: rollouts
  MaxTroubles   \* bound: stops, errors, incidents, silences, lost updates

ASSUME RolloutConstants ==
  /\ Routers \subseteq Nat /\ IsFiniteSet(Routers)
  /\ {MaxJobs, MaxTroubles} \subseteq Nat

Jobs == 1 .. MaxJobs
Worker == 0
Tickers == {Worker} \cup Jobs   \* the worker, and the handler that created a job

VARIABLES
  health,        \* of a router: "well", "hard" with an incident, or "silent"
  new,           \* the routers that have reported the new version
  pending,       \* the routers with a pending update
  job,           \* rollout_jobs
  targets,       \* the routers of a job in their order, the canary first
  row,           \* rollout_targets: the state of a target
  tick,          \* the tick a ticker is in
  handed,        \* history: how often a job has handed a router its update
  proven,        \* history: the jobs whose canary was seen well on the new version
  halted,        \* history: the jobs that were paused
  lost,          \* history: the routers that will not get the update they were meant to
  troubles       \* troubles left

vars == <<health, new, pending, job, targets, row, tick, handed, proven,
          halted, lost, troubles>>
fleet == <<health, new, pending>>
table == <<job, targets, row>>
history == <<handed, proven, halted, lost>>

NoTick == [pc |-> "idle", job |-> 0, saw |-> "", due |-> FALSE, late |-> FALSE,
           rows |-> <<>>, i |-> 0, all |-> TRUE]

Stopped == {"paused", "complete", "cancelled"}
Over == {"complete", "cancelled"}
IsActive(j) == job[j].state \notin {""} \cup Over

Init ==
  /\ health \in [Routers -> {"well", "hard", "silent"}]
  /\ new = {} /\ pending = {}
  /\ job = [j \in Jobs |-> [state |-> "", window |-> FALSE]]
  /\ targets = [j \in Jobs |-> <<>>]
  /\ row = [j \in Jobs |-> [r \in Routers |-> "planned"]]
  /\ tick = [p \in Tickers |-> NoTick]
  /\ handed = [j \in Jobs |-> [r \in Routers |-> 0]]
  /\ proven = {} /\ halted = {} /\ lost = {}
  /\ troubles = MaxTroubles

Trouble == troubles > 0 /\ troubles' = troubles - 1
Smooth == UNCHANGED troubles

-----------------------------------------------------------------------------
(* Creating and cancelling.                                                *)

\* A router that reports goes before one that does not, then one without an
\* incident before one with, then the lower number.  Of a silent router nobody
\* knows here whether it has an incident.
SelectCanary(candidates) ==
  LET rank == [well |-> 0, hard |-> 1, silent |-> 2]
      better(r, q) == \/ rank[health[r]] < rank[health[q]]
                      \/ rank[health[r]] = rank[health[q]] /\ r <= q
  IN  CHOOSE r \in candidates : \A q \in candidates : better(r, q)

\* The canary first, then the others by their numbers.
InTurn(s, canary) ==
  s[1] = canary /\ \A i, k \in 2 .. Len(s) : i < k => s[i] < s[k]

\* The canary is listed among the others too.
TargetsTwice(candidates) ==
  {s \in [1 .. Cardinality(candidates) + 1 -> candidates] :
     InTurn(s, SelectCanary(candidates))}

\* The lists of a job's targets: there is one.
TargetsOf(candidates) ==
  {s \in [1 .. Cardinality(candidates) -> candidates] :
     InTurn(s, SelectCanary(candidates)) /\ IsInjective(s)}

\* One active rollout at a time, a paused one included: the unique index.
Create(j) ==
  /\ job[j].state = "" /\ \A k \in Jobs : k < j => job[k].state \in Over
  /\ Routers \ new # {}
  /\ job' = [job EXCEPT ![j].state = "planned"]
  /\ \E s \in TargetsOf(Routers \ new) : targets' = [targets EXCEPT ![j] = s]
  /\ tick' = [tick EXCEPT ![j] = [NoTick EXCEPT !.pc = "job", !.job = j]]
  /\ UNCHANGED <<fleet, row, history, troubles>>

Cancel(j) ==
  /\ IsActive(j)
  /\ job' = [job EXCEPT ![j].state = "cancelled"]
  /\ UNCHANGED <<fleet, targets, row, tick, history, troubles>>

-----------------------------------------------------------------------------
(* A tick reads the job and its targets.                                   *)

At(p, pc) == tick[p].pc = pc
Goto(p, pc) == tick' = [tick EXCEPT ![p].pc = pc]
EndTick(p) == tick' = [tick EXCEPT ![p] = NoTick]
J(p) == tick[p].job
Target(p) == targets[J(p)][tick[p].i]
Canary(j) == targets[j][1]

\* A tick that has read its job; late is history: it had been paused by then.
Began(j) ==
  [pc |-> "targets", job |-> j, saw |-> job[j].state, due |-> job[j].window,
   late |-> j \in halted, rows |-> <<>>, i |-> 0, all |-> TRUE]

\* The worker reads the active job, the handler the one it made.
ReadJob(p) ==
  /\ \E j \in Jobs :
       /\ \/ At(p, "job") /\ j = J(p)
          \/ p = Worker /\ At(p, "idle") /\ IsActive(j)
       /\ tick' = [tick EXCEPT ![p] = Began(j)]
  /\ UNCHANGED <<fleet, table, history, troubles>>

\* Either read may fail: the tick is over.
ReadTargets(p) ==
  /\ At(p, "targets")
  /\ \/ /\ tick[p].saw \in {"planned", "canary_pending", "observing", "rolling"} /\ Smooth
        /\ tick' = [tick EXCEPT ![p].rows = row[J(p)], ![p].i = 1,
             ![p].pc = CASE tick[p].saw = "planned" -> "queue"
                         [] tick[p].saw = "rolling" -> "rolling"
                         [] OTHER -> "canary"]
     \/ tick[p].saw \in Stopped /\ EndTick(p) /\ Smooth
     \/ Trouble /\ EndTick(p)
  /\ UNCHANGED <<fleet, table, history>>

-----------------------------------------------------------------------------
(* The statements that change the tables.                                  *)

\* A transition whatever the state has become.
MoveJob(j, from, to) == job' = [job EXCEPT ![j].state = to]

\* A transition asks for the state the tick has read.
Transition(j, from, to) ==
  job' = IF job[j].state = from THEN [job EXCEPT ![j].state = to] ELSE job

\* A reservation of a target whatever became of it.
ReserveAny(p, r) == TRUE

\* Only a target nobody has reserved can be reserved.
Reservable(p, r) == row[J(p)][r] = "planned"

-----------------------------------------------------------------------------
(* Handing out the update: reserve the target, deploy, record the command. *)

NextTarget(p, pc) == tick' = [tick EXCEPT ![p].pc = pc, ![p].i = @ + 1]

\* After the canary comes the transition; after another target the next one.
Handed(p) ==
  IF tick[p].saw = "planned" THEN Goto(p, "onward") ELSE NextTarget(p, "queue")

Reserve(p) ==
  /\ At(p, "queue") /\ tick[p].i <= Len(targets[J(p)])
  /\ LET r == Target(p) IN
     \/ /\ tick[p].rows[r] # "planned"
        /\ IF tick[p].saw = "planned" /\ tick[p].rows[r] = "dispatching"
           THEN Goto(p, "pause") ELSE Handed(p)
        /\ UNCHANGED row /\ Smooth
     \/ /\ tick[p].rows[r] = "planned" /\ Reservable(p, r)
        /\ row' = [row EXCEPT ![J(p)][r] = "dispatching"]
        /\ Goto(p, "deploy") /\ Smooth
     \/ /\ tick[p].rows[r] = "planned" /\ ~Reservable(p, r)
        /\ Goto(p, "pause") /\ UNCHANGED row /\ Smooth
     \/ /\ tick[p].rows[r] = "planned"
        /\ Goto(p, "pause") /\ UNCHANGED row /\ Trouble
  /\ UNCHANGED <<fleet, job, targets, history>>

\* A router that has this version pending refuses it.
Deploy(p) ==
  /\ At(p, "deploy")
  /\ LET r == Target(p) IN
     \/ /\ r \notin pending /\ pending' = pending \cup {r}
        /\ handed' = [handed EXCEPT ![J(p)][r] = @ + 1]
        /\ Goto(p, "command") /\ Smooth
     \/ /\ r \in pending /\ Goto(p, "pause")
        /\ Smooth /\ UNCHANGED <<pending, handed>>
     \/ Trouble /\ Goto(p, "pause") /\ UNCHANGED <<pending, handed>>
  /\ UNCHANGED <<health, new, table, proven, halted, lost>>

SetTargetCommand(p) ==
  /\ At(p, "command")
  /\ LET r == Target(p) IN
     \/ /\ row' = [row EXCEPT ![J(p)][r] = IF @ = "dispatching" THEN "queued" ELSE @]
        /\ Handed(p) /\ Smooth
     \/ Trouble /\ Goto(p, "pause") /\ UNCHANGED row
  /\ UNCHANGED <<fleet, job, targets, history>>

\* A target that is reserved but was handed nothing.
LeftBy(p) ==
  {r \in {Target(p)} : row[J(p)][r] = "dispatching" /\ handed[J(p)][r] = 0}

\* The error of this transition is ignored.
Pause(p) ==
  /\ At(p, "pause") /\ EndTick(p)
  /\ \/ /\ Transition(J(p), tick[p].saw, "paused") /\ Smooth
        /\ halted' = IF job' = job THEN halted ELSE halted \cup {J(p)}
     \/ Trouble /\ UNCHANGED <<job, halted>>
  /\ lost' = IF job' = job THEN lost \cup LeftBy(p) ELSE lost
  /\ UNCHANGED <<fleet, targets, row, handed, proven>>

After == [planned |-> "canary_pending", canary_pending |-> "observing",
          observing |-> "rolling", rolling |-> "complete"]

Onward(p) ==
  /\ \/ At(p, "onward")
     \/ At(p, "queue") /\ tick[p].i > Len(targets[J(p)])
  /\ EndTick(p)
  /\ \/ Transition(J(p), tick[p].saw, After[tick[p].saw]) /\ Smooth
     \/ Trouble /\ UNCHANGED job
  /\ UNCHANGED <<fleet, targets, row, history>>

-----------------------------------------------------------------------------
(* The probes.                                                             *)

\* What a probe may tell of a router: a user that cannot be read is a gap in
\* the reports, incidents that cannot be counted are none.
Reading(r, bad, current) ==
  \/ Smooth /\ bad = (health[r] # "well") /\ current = (r \in new)
  \/ Trouble /\ bad = TRUE /\ current = FALSE
  \/ Trouble /\ health[r] = "hard" /\ bad = FALSE /\ current = (r \in new)

ProbeCanary(p) ==
  /\ At(p, "canary")
  /\ \E bad, current \in BOOLEAN :
       /\ Reading(Canary(J(p)), bad, current)
       /\ \/ bad /\ Goto(p, "pause") /\ UNCHANGED proven
          \/ /\ ~bad /\ tick[p].saw = "canary_pending"
             /\ IF current THEN Goto(p, "seen") ELSE EndTick(p)
             /\ proven' = IF current THEN proven \cup {J(p)} ELSE proven
          \/ /\ ~bad /\ tick[p].saw = "observing"
             /\ IF tick[p].due THEN NextTarget(p, "queue") ELSE EndTick(p)
             /\ UNCHANGED proven
  /\ UNCHANGED <<fleet, table, handed, halted, lost>>

\* A target that was observed before counts against the end.
RollingForgetsObserved(p) ==
  /\ At(p, "rolling") /\ tick[p].i <= Len(targets[J(p)])
  /\ \/ /\ tick[p].rows[Target(p)] = "observed" /\ Smooth
        /\ tick' = [tick EXCEPT ![p].i = @ + 1, ![p].all = FALSE]
     \/ /\ tick[p].rows[Target(p)] # "observed"
        /\ \E bad, current \in BOOLEAN :
             /\ Reading(Target(p), bad, current)
             /\ \/ bad /\ Goto(p, "pause")
                \/ ~bad /\ current /\ Goto(p, "seen")
                \/ /\ ~bad /\ ~current
                   /\ tick' = [tick EXCEPT ![p].i = @ + 1, ![p].all = FALSE]
  /\ UNCHANGED <<fleet, table, history>>

ProbeRolling(p) ==
  /\ At(p, "rolling") /\ tick[p].i <= Len(targets[J(p)])
  /\ \/ tick[p].rows[Target(p)] = "observed" /\ NextTarget(p, "rolling") /\ Smooth
     \/ /\ tick[p].rows[Target(p)] # "observed"
        /\ \E bad, current \in BOOLEAN :
             /\ Reading(Target(p), bad, current)
             /\ \/ bad /\ Goto(p, "pause")
                \/ ~bad /\ current /\ Goto(p, "seen")
                \/ /\ ~bad /\ ~current
                   /\ tick' = [tick EXCEPT ![p].i = @ + 1, ![p].all = FALSE]
  /\ UNCHANGED <<fleet, table, history>>

\* The error of this statement is ignored too.
MarkTargetObserved(p) ==
  /\ At(p, "seen")
  /\ \/ /\ row' = [row EXCEPT ![J(p)][Target(p)] = IF @ = "planned" THEN @ ELSE "observed"]
        /\ Smooth
     \/ Trouble /\ UNCHANGED row
  /\ IF tick[p].saw = "rolling" THEN NextTarget(p, "rolling") ELSE Goto(p, "onward")
  /\ UNCHANGED <<fleet, job, targets, history>>

RollingEnds(p) ==
  /\ At(p, "rolling") /\ tick[p].i > Len(targets[J(p)])
  /\ IF tick[p].all THEN Goto(p, "onward") ELSE EndTick(p)
  /\ UNCHANGED <<fleet, table, history, troubles>>

-----------------------------------------------------------------------------
(* The world.                                                              *)

WindowPasses(j) ==
  /\ job[j].state = "observing" /\ ~job[j].window
  /\ job' = [job EXCEPT ![j].window = TRUE]
  /\ UNCHANGED <<fleet, targets, row, tick, history, troubles>>

\* A router that has reported the new version keeps it.
Install(r) ==
  /\ r \in pending /\ health[r] # "silent"
  /\ pending' = pending \ {r} /\ new' = new \cup {r}
  /\ UNCHANGED <<health, table, tick, history, troubles>>

\* The update is given up, expires or is called off for this router alone.
PendingEnds(r) ==
  /\ r \in pending /\ Trouble
  /\ pending' = pending \ {r} /\ lost' = lost \cup {r}
  /\ UNCHANGED <<health, new, table, tick, handed, proven, halted>>

\* An operator assigns the version to this router alone.
OperatorDeploys(r) ==
  /\ r \notin pending /\ Trouble
  /\ pending' = pending \cup {r}
  /\ UNCHANGED <<health, new, table, tick, history>>

Ails(r) ==
  /\ health[r] = "well" /\ Trouble
  /\ \E h \in {"hard", "silent"} : health' = [health EXCEPT ![r] = h]
  /\ UNCHANGED <<new, pending, table, tick, history>>
Recovers(r) ==
  /\ health[r] # "well" /\ health' = [health EXCEPT ![r] = "well"]
  /\ UNCHANGED <<new, pending, table, tick, history, troubles>>

\* The backend stops; a target it had reserved and not deployed to is left.
Restart ==
  /\ Trouble
  /\ \E p \in Tickers : ~At(p, "idle")
  /\ tick' = [p \in Tickers |-> NoTick]
  /\ lost' = lost \cup UNION {LeftBy(p) : p \in {q \in Tickers : At(q, "deploy") \/ At(q, "pause")}}
  /\ UNCHANGED <<fleet, table, handed, proven, halted>>

Tick(p) ==
  \/ ReadJob(p) \/ ReadTargets(p)
  \/ Reserve(p) \/ Deploy(p) \/ SetTargetCommand(p)
  \/ Pause(p) \/ Onward(p)
  \/ ProbeCanary(p) \/ ProbeRolling(p) \/ MarkTargetObserved(p) \/ RollingEnds(p)

Next ==
  \/ \E p \in Tickers : Tick(p)
  \/ \E j \in Jobs : Create(j) \/ Cancel(j) \/ WindowPasses(j)
  \/ \E r \in Routers :
       \/ Install(r) \/ PendingEnds(r) \/ OperatorDeploys(r)
       \/ Ails(r) \/ Recovers(r)
  \/ Restart

Spec == Init /\ [][Next]_vars

\* The worker is woken by a clock, handlers and routers run on, time passes.
Fair ==
  /\ \A p \in Tickers : WF_vars(Tick(p))
  /\ \A j \in Jobs : WF_vars(WindowPasses(j))
  /\ \A r \in Routers : WF_vars(Install(r))

FairSpec == Spec /\ Fair

-----------------------------------------------------------------------------
(* Properties.                                                             *)

JobStates == {"", "planned", "canary_pending", "observing", "rolling"} \cup Stopped
RowStates == {"planned", "dispatching", "queued", "observed"}

\* Every variable keeps its type; a job lists a router once.
RolloutTypeOK ==
  /\ health \in [Routers -> {"well", "hard", "silent"}]
  /\ {new, pending, lost} \subseteq SUBSET Routers
  /\ job \in [Jobs -> [state : JobStates, window : BOOLEAN]]
  /\ \A j \in Jobs : targets[j] \in Seq(Routers) /\ IsInjective(targets[j])
  /\ row \in [Jobs -> [Routers -> RowStates]]
  /\ \A p \in Tickers :
       /\ tick[p].pc \in {"idle", "job", "targets", "queue", "deploy", "command",
                          "pause", "onward", "canary", "seen", "rolling"}
       /\ tick[p].job \in {0} \cup Jobs /\ tick[p].saw \in JobStates
       /\ tick[p].i \in 0 .. Cardinality(Routers) + 1
  /\ handed \in [Jobs -> [Routers -> Nat]]
  /\ {proven, halted} \subseteq SUBSET Jobs
  /\ troubles \in 0 .. MaxTroubles

\* A rollout hands a router its update once, whatever ticks run at the same
\* time and wherever the backend stops (engine.go:196-213, rollout_jobs.go:118-125).
HandedOnce == \A j \in Jobs, r \in Routers : handed[j][r] <= 1

\* A router other than the canary gets the update only in a rollout whose
\* canary was seen well on the new version and whose window has passed since,
\* and by a tick that began before the rollout was ever paused: no tick, however
\* late its writes come, sets a paused rollout going again (engine.go:109-146).
FleetAfterCanary ==
  [][\A j \in Jobs, r \in Routers :
       handed'[j][r] > handed[j][r] /\ r # Canary(j)
         => /\ j \in proven /\ job[j].window
            /\ \E p \in Tickers : tick'[p] # tick[p] /\ ~tick[p].late]_vars

\* When the routers report, have no incident, and none has lost its update, a
\* rollout does not go on for ever: it ends, is paused or is cancelled.
RolloutEnds ==
  <>[](\A r \in Routers : health[r] = "well") /\ [](lost = {})
    => \A j \in Jobs : job[j].state # "" ~> job[j].state \in Stopped

\* Between the ticks, a rollout has not gone past a target of which it is not
\* known whether it got its update: "We cannot know whether the external side
\* effect happened, so fail closed for review" (engine.go:197-199).
UncertainPauses ==
  \A j \in Jobs, r \in Routers :
    job[j].state = "rolling" /\ (\A p \in Tickers : At(p, "idle"))
      => row[j][r] # "dispatching"

=============================================================================
