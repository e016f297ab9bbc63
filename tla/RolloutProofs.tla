---------------------------- MODULE RolloutProofs ----------------------------
(***************************************************************************)
(* Proofs about Rollout, for every fleet, any number of rollouts and of    *)
(* troubles: a rollout hands a router its update once, the fleet gets it   *)
(* only after the canary, and every variable keeps its type.               *)
(*                                                                         *)
(* None is inductive.  RolloutInv adds what the code relies on: a          *)
(* target somebody is about to deploy to has been reserved by that tick    *)
(* alone and nothing was handed to it; what a tick has read of a job still *)
(* tells what the job has been through (a canary that was seen stays seen, *)
(* a window that has passed stays passed); and a rollout that was paused   *)
(* is never active again.  For the types, Fits adds that a tick that works *)
(* on a target of its job has found it within the job's list.              *)
(***************************************************************************)
EXTENDS Rollout, FiniteSetTheorems, TLAPS

Active == {"planned", "canary_pending", "observing", "rolling"}
Stages == {"idle", "job", "targets", "queue", "deploy", "command", "pause",
           "onward", "canary", "seen", "rolling"}
Handing == {"queue", "deploy", "command"}

Ticks == [pc : Stages, job : {0} \cup Jobs, saw : JobStates, due : BOOLEAN,
          late : BOOLEAN, rows : {<<>>} \cup [Routers -> RowStates],
          i : Nat, all : BOOLEAN]
JobRows == [state : JobStates, window : BOOLEAN]

Types ==
  /\ tick \in [Tickers -> Ticks] /\ job \in [Jobs -> JobRows]
  /\ targets = [j \in Jobs |-> targets[j]]
  /\ row \in [Jobs -> [Routers -> RowStates]]
  /\ handed \in [Jobs -> [Routers -> Nat]]

\* A tick that is under way works on a rollout that was created.
Busy(p) == ~At(p, "idle") => J(p) \in Jobs /\ job[J(p)].state # ""

\* What a tick that has read its job is allowed to do, and what it knows.
Stage(p) ==
  /\ tick[p].pc \notin {"idle", "job", "targets"} => tick[p].saw \in Active
  /\ tick[p].pc \in Handing => \/ tick[p].saw = "planned" /\ tick[p].i = 1
                               \/ tick[p].saw = "observing" /\ tick[p].due
  /\ tick[p].pc = "rolling" => tick[p].saw = "rolling"
Knows(p) ==
  ~At(p, "idle") =>
    /\ tick[p].saw \in {"observing", "rolling"} => J(p) \in proven
    /\ tick[p].pc \in {"seen", "onward"} /\ tick[p].saw = "canary_pending" => J(p) \in proven
    /\ tick[p].due => job[J(p)].window
    /\ tick[p].late => tick[p].saw \in {"", "paused", "cancelled"}

\* A target about to be deployed to was reserved by this tick alone.
Alone(p) ==
  At(p, "deploy") =>
    \A r \in Routers : Target(p) = r =>
      /\ row[J(p)][r] # "planned" /\ handed[J(p)][r] = 0
      /\ \A q \in Tickers : At(q, "deploy") /\ J(q) = J(p) /\ Target(q) = r => q = p

\* What a rollout has been through.
Past(j) ==
  /\ job[j].state \in {"observing", "rolling"} => j \in proven
  /\ j \in halted => job[j].state \in {"paused", "cancelled"}
  /\ \A r \in Routers : row[j][r] = "planned" => handed[j][r] = 0

RolloutInv ==
  /\ Types /\ HandedOnce
  /\ \A p \in Tickers : Busy(p) /\ Stage(p) /\ Knows(p) /\ Alone(p)
  /\ \A j \in Jobs : Past(j)

-----------------------------------------------------------------------------
(* What the ways to write a tick do to it.                                 *)

\* A constant function is one into every set that has its value.
LEMMA ConstantFunction ==
  ASSUME NEW S, NEW T, NEW x \in T
  PROVE  [y \in S |-> x] \in [S -> T]
OBVIOUS

LEMMA TickRecord ==
  ASSUME NEW pc \in Stages, NEW j \in Jobs, NEW saw \in JobStates, NEW due \in BOOLEAN,
         NEW late \in BOOLEAN, NEW rows \in {<<>>} \cup [Routers -> RowStates],
         NEW i \in Nat, NEW all \in BOOLEAN
  PROVE  [pc |-> pc, job |-> j, saw |-> saw, due |-> due, late |-> late, rows |-> rows,
          i |-> i, all |-> all] \in Ticks
BY DEF Ticks

LEMMA NoTickType ==
  /\ NoTick \in Ticks
  /\ NoTick.pc = "idle" /\ NoTick.saw = "" /\ ~NoTick.due /\ ~NoTick.late
BY DEF NoTick, Ticks, Stages, JobStates, RowStates, Stopped

\* The ticks of the others.
Others(p) == \A q \in Tickers : q # p => tick'[q] = tick[q]

\* What tick p keeps while it moves on.
KeepsRead(p) ==
  /\ tick'[p].job = tick[p].job /\ tick'[p].saw = tick[p].saw
  /\ tick'[p].due = tick[p].due /\ tick'[p].late = tick[p].late

LEMMA GotoTick ==
  ASSUME Types, NEW p \in Tickers, NEW pc \in Stages, Goto(p, pc)
  PROVE  /\ tick' \in [Tickers -> Ticks] /\ Others(p) /\ KeepsRead(p)
         /\ tick'[p].pc = pc /\ tick'[p].i = tick[p].i
BY DEF Types, Goto, Others, KeepsRead, Ticks

LEMMA NextTargetTick ==
  ASSUME Types, NEW p \in Tickers, NEW pc \in Stages, NextTarget(p, pc)
  PROVE  /\ tick' \in [Tickers -> Ticks] /\ Others(p) /\ KeepsRead(p)
         /\ tick'[p].pc = pc /\ tick'[p].i = tick[p].i + 1
<1> DEFINE n == tick[p].i + 1
           u == [tick[p] EXCEPT !.i = n]
           t == [u EXCEPT !.pc = pc]
<1>0. tick[p] \in Ticks /\ n \in Nat
  BY DEF Types, Ticks
<1>1. u \in Ticks /\ u.job = tick[p].job /\ u.saw = tick[p].saw
      /\ u.due = tick[p].due /\ u.late = tick[p].late /\ u.i = n
  <2> HIDE DEF n
  <2> QED BY <1>0 DEF Ticks
<1>2. tick' = [tick EXCEPT ![p] = t]
  BY DEF NextTarget, Types, Ticks
<1> HIDE DEF u
<1>3. t \in Ticks /\ t.pc = pc /\ t.job = u.job /\ t.saw = u.saw
      /\ t.due = u.due /\ t.late = u.late /\ t.i = u.i
  BY <1>1 DEF Ticks
<1> HIDE DEF t
<1> QED BY <1>1, <1>2, <1>3 DEF Types, Others, KeepsRead

\* The way to the next target that the probes of a rolling job take.
SkipTarget(p) == tick' = [tick EXCEPT ![p].i = @ + 1, ![p].all = FALSE]

LEMMA SkipTargetTick ==
  ASSUME Types, NEW p \in Tickers, SkipTarget(p)
  PROVE  /\ tick' \in [Tickers -> Ticks] /\ Others(p) /\ KeepsRead(p)
         /\ tick'[p].pc = tick[p].pc /\ tick'[p].i = tick[p].i + 1
<1> DEFINE n == tick[p].i + 1
           u == [tick[p] EXCEPT !.i = n]
           t == [u EXCEPT !.all = FALSE]
<1>0. tick[p] \in Ticks /\ n \in Nat
  BY DEF Types, Ticks
<1>1. u \in Ticks /\ u.job = tick[p].job /\ u.saw = tick[p].saw
      /\ u.due = tick[p].due /\ u.late = tick[p].late /\ u.pc = tick[p].pc /\ u.i = n
  <2> HIDE DEF n
  <2> QED BY <1>0 DEF Ticks
<1>2. tick' = [tick EXCEPT ![p] = t]
  BY <1>0 DEF SkipTarget, Types, Ticks
<1> HIDE DEF u
<1>3. t \in Ticks /\ t.pc = u.pc /\ t.job = u.job /\ t.saw = u.saw
      /\ t.due = u.due /\ t.late = u.late /\ t.i = u.i
  BY <1>1 DEF Ticks
<1> HIDE DEF t
<1> QED BY <1>1, <1>2, <1>3 DEF Types, Others, KeepsRead

LEMMA EndTickTick ==
  ASSUME Types, NEW p \in Tickers, EndTick(p)
  PROVE  /\ tick' \in [Tickers -> Ticks] /\ Others(p) /\ tick'[p] = NoTick
BY NoTickType DEF Types, EndTick, Others

-----------------------------------------------------------------------------
(* The initial states, and steps that leave the rollouts alone.            *)

LEMMA InitRolloutInv == Init => RolloutInv
<1> SUFFICES ASSUME Init PROVE RolloutInv
  OBVIOUS
<1>1. Types
  <2>1. tick \in [Tickers -> Ticks]
    BY NoTickType, ConstantFunction DEF Init
  <2>2. job \in [Jobs -> JobRows]
    <3>1. [state |-> "", window |-> FALSE] \in JobRows
      BY DEF JobRows, JobStates
    <3> QED BY <3>1, ConstantFunction DEF Init
  <2>3. row \in [Jobs -> [Routers -> RowStates]]
    <3>1. [r \in Routers |-> "planned"] \in [Routers -> RowStates]
      BY DEF RowStates
    <3> QED BY <3>1, ConstantFunction DEF Init
  <2>4. handed \in [Jobs -> [Routers -> Nat]]
    <3>1. [r \in Routers |-> 0] \in [Routers -> Nat]
      OBVIOUS
    <3> QED BY <3>1, ConstantFunction DEF Init
  <2>5. targets = [j \in Jobs |-> targets[j]]
    BY DEF Init
  <2> QED BY <2>1, <2>2, <2>3, <2>4, <2>5 DEF Types
<1>2. HandedOnce
  <2>1. handed = [j \in Jobs |-> [r \in Routers |-> 0]]
    BY DEF Init
  <2> QED BY <2>1 DEF HandedOnce
<1>3. ASSUME NEW p \in Tickers PROVE Busy(p) /\ Stage(p) /\ Knows(p) /\ Alone(p)
  <2>1. tick[p].pc = "idle"
    BY <1>3, NoTickType DEF Init
  <2> QED BY <2>1 DEF Busy, Stage, Knows, Alone, At, Handing
<1>4. ASSUME NEW j \in Jobs PROVE Past(j)
  BY <1>4 DEF Init, Past
<1> QED BY <1>1, <1>2, <1>3, <1>4 DEF RolloutInv

\* RolloutInv depends on no more than these variables.
LEMMA SameRolloutInv ==
  ASSUME RolloutInv, UNCHANGED <<job, targets, row, tick, handed, proven, halted>>
  PROVE  RolloutInv'
<1>1. Types' /\ HandedOnce'
  BY DEF RolloutInv, Types, HandedOnce
<1>2. ASSUME NEW p \in Tickers PROVE (Busy(p) /\ Stage(p) /\ Knows(p) /\ Alone(p))'
  BY <1>2 DEF RolloutInv, Busy, Stage, Knows, Alone, At, J, Target
<1>3. ASSUME NEW j \in Jobs PROVE Past(j)'
  BY <1>3 DEF RolloutInv, Past
<1> QED BY <1>1, <1>2, <1>3 DEF RolloutInv

\* The tables only ever go on: a rollout that was created stays created, a
\* window that has passed stays passed, a reserved target stays reserved.
Forward ==
  /\ \A j \in Jobs : /\ job[j].state # "" => job'[j].state # ""
                     /\ job[j].state # "" => targets'[j] = targets[j]
                     /\ job[j].window => job'[j].window
                     /\ \A r \in Routers : row[j][r] # "planned" => row'[j][r] # "planned"
  /\ proven \subseteq proven'

\* A tick that does not move keeps to its rules.
LEMMA UnmovedTick ==
  ASSUME RolloutInv, Forward, NEW q \in Tickers, tick'[q] = tick[q]
  PROVE  Busy(q)' /\ Stage(q)' /\ Knows(q)'
BY DEF RolloutInv, Busy, Stage, Knows, At, J, Forward

\* A step that hands nothing out, and after which a tick that has moved keeps to
\* its rules and is not about to deploy.
LEMMA ForwardStep ==
  ASSUME RolloutInv, Types', Forward, UNCHANGED handed,
         \A q \in Tickers : \/ tick'[q] = tick[q]
                            \/ Busy(q)' /\ Stage(q)' /\ Knows(q)' /\ tick'[q].pc # "deploy",
         \A j \in Jobs : Past(j)'
  PROVE  RolloutInv'
<1>1. HandedOnce'
  BY DEF RolloutInv, HandedOnce
<1>2. ASSUME NEW q \in Tickers PROVE (Busy(q) /\ Stage(q) /\ Knows(q) /\ Alone(q))'
  <2>1. CASE tick'[q] = tick[q]
    <3>1. Busy(q) /\ Stage(q) /\ Knows(q) /\ Alone(q)
      BY DEF RolloutInv
    <3>2. Busy(q)' /\ Stage(q)' /\ Knows(q)'
      BY <2>1, UnmovedTick
    <3>3. Alone(q)'
      <4> SUFFICES ASSUME tick[q].pc = "deploy", NEW r \in Routers, targets'[tick[q].job][tick[q].i] = r
                   PROVE  /\ row'[tick[q].job][r] # "planned" /\ handed'[tick[q].job][r] = 0
                          /\ \A p \in Tickers :
                               tick'[p].pc = "deploy" /\ tick'[p].job = tick[q].job
                               /\ targets'[tick[q].job][tick'[p].i] = r => p = q
        BY <2>1 DEF Alone, At, J, Target
      <4>1. /\ tick[q].job \in Jobs /\ job[tick[q].job].state # ""
            /\ targets'[tick[q].job] = targets[tick[q].job]
        BY <3>1 DEF Busy, At, J, Forward
      <4>2. /\ row[tick[q].job][r] # "planned" /\ handed[tick[q].job][r] = 0
            /\ \A p \in Tickers : tick[p].pc = "deploy" /\ tick[p].job = tick[q].job
                                 /\ targets[tick[q].job][tick[p].i] = r => p = q
        BY <3>1, <4>1 DEF Alone, At, J, Target
      <4>3. ASSUME NEW p \in Tickers, tick'[p].pc = "deploy" PROVE tick'[p] = tick[p]
        BY <4>3
      <4> QED BY <4>1, <4>2, <4>3 DEF Forward
    <3> QED BY <3>2, <3>3
  <2>2. CASE Busy(q)' /\ Stage(q)' /\ Knows(q)' /\ tick'[q].pc # "deploy"
    BY <2>2 DEF Alone, At
  <2> QED BY <2>1, <2>2
<1> QED BY <1>1, <1>2 DEF RolloutInv

\* Nothing is asked of a tick that has ended.
LEMMA IdleTick ==
  ASSUME NEW p \in Tickers, tick'[p] = NoTick
  PROVE  Busy(p)' /\ Stage(p)' /\ Knows(p)' /\ tick'[p].pc # "deploy"
BY NoTickType DEF Busy, Stage, Knows, At, Handing

\* What a tick under way knows is not lost when it moves on.
LEMMA MovedOn ==
  ASSUME RolloutInv, Forward, NEW p \in Tickers, KeepsRead(p), tick[p].pc # "idle",
         tick'[p].pc \in {"seen", "onward"} /\ tick[p].saw = "canary_pending"
           => J(p) \in proven'
  PROVE  Busy(p)' /\ Knows(p)'
<1>1. Busy(p) /\ Knows(p)
  BY DEF RolloutInv
<1>2. J(p) \in Jobs /\ J(p)' = J(p)
  BY <1>1 DEF Busy, At, J, KeepsRead
<1>3. Busy(p)'
  BY <1>1, <1>2 DEF Busy, At, J, Forward
<1>4. Knows(p)'
  BY <1>1, <1>2 DEF Knows, At, J, Forward, KeepsRead
<1> QED BY <1>3, <1>4

\* A step of one tick that reads but does not write.
LEMMA ReadingStep ==
  ASSUME RolloutInv, NEW p \in Tickers, Others(p), tick' \in [Tickers -> Ticks],
         Busy(p)' /\ Stage(p)' /\ Knows(p)' /\ tick'[p].pc # "deploy",
         UNCHANGED <<table, handed, proven, halted>>
  PROVE  RolloutInv'
<1>1. Types'
  BY DEF RolloutInv, Types, table
<1>2. Forward
  BY DEF Forward, table
<1>3. \A j \in Jobs : Past(j)'
  BY DEF RolloutInv, Past, table
<1> QED BY <1>1, <1>2, <1>3, ForwardStep DEF Others

-----------------------------------------------------------------------------
(* The steps that read.                                                    *)

LEMMA ReadJobKeeps == ASSUME RolloutInv, NEW p \in Tickers, ReadJob(p) PROVE RolloutInv'
<1>1. PICK j \in Jobs :
        /\ \/ At(p, "job") /\ j = J(p)
           \/ p = Worker /\ At(p, "idle") /\ IsActive(j)
        /\ tick' = [tick EXCEPT ![p] = Began(j)]
  BY DEF ReadJob
<1>2. /\ job[j].state \in JobStates /\ job[j].window \in BOOLEAN /\ job[j].state # ""
      /\ tick \in [Tickers -> Ticks] /\ Past(j)
  <2>1. job[j] \in JobRows
    BY DEF RolloutInv, Types
  <2>2. job[j].state # ""
    BY <1>1 DEF RolloutInv, Busy, At, IsActive
  <2> QED BY <2>1, <2>2 DEF RolloutInv, Types, JobRows
<1>3. Began(j) \in Ticks
  <2>1. (j \in halted) \in BOOLEAN /\ "targets" \in Stages /\ <<>> \in {<<>>} \cup [Routers -> RowStates]
    BY DEF Stages
  <2> QED BY <1>2, <2>1, TickRecord DEF Began
<1>4. /\ Began(j).pc = "targets" /\ Began(j).job = j /\ Began(j).saw = job[j].state
      /\ Began(j).due = job[j].window /\ (Began(j).late <=> j \in halted)
  BY DEF Began
<1>5. tick' \in [Tickers -> Ticks] /\ Others(p) /\ tick'[p] = Began(j)
  BY <1>1, <1>2, <1>3 DEF Others
<1>6. Busy(p)' /\ Stage(p)' /\ Knows(p)'
  <2>1. Busy(p)'
    BY <1>2, <1>4, <1>5 DEF Busy, At, J, ReadJob, table
  <2>2. Stage(p)'
    BY <1>4, <1>5 DEF Stage, Handing
  <2>3. Knows(p)'
    BY <1>2, <1>4, <1>5 DEF Knows, At, J, Past, ReadJob, table, history
  <2> QED BY <2>1, <2>2, <2>3
<1>7. UNCHANGED <<table, handed, proven, halted>> /\ tick'[p].pc # "deploy"
  BY <1>4, <1>5 DEF ReadJob, history
<1> QED BY <1>5, <1>6, <1>7, ReadingStep

LEMMA ReadTargetsKeeps == ASSUME RolloutInv, NEW p \in Tickers, ReadTargets(p) PROVE RolloutInv'
<1>1. Types /\ Busy(p) /\ tick[p] \in Ticks /\ tick[p].pc = "targets"
  BY DEF RolloutInv, Types, ReadTargets, At
<1>2. UNCHANGED <<table, handed, proven, halted>>
  BY DEF ReadTargets, history
<1>3. CASE EndTick(p)
  BY <1>1, <1>2, <1>3, EndTickTick, IdleTick, ReadingStep
<1>4. CASE /\ tick[p].saw \in Active
           /\ tick' = [tick EXCEPT ![p].rows = row[J(p)], ![p].i = 1,
                ![p].pc = CASE tick[p].saw = "planned" -> "queue"
                            [] tick[p].saw = "rolling" -> "rolling"
                            [] OTHER -> "canary"]
  <2> DEFINE pc == CASE tick[p].saw = "planned" -> "queue"
                     [] tick[p].saw = "rolling" -> "rolling"
                     [] OTHER -> "canary"
             t == [pc |-> pc, job |-> tick[p].job, saw |-> tick[p].saw, due |-> tick[p].due,
                   late |-> tick[p].late, rows |-> row[J(p)], i |-> 1, all |-> tick[p].all]
  <2>1. pc \in Stages /\ pc \notin {"idle", "deploy", "command", "seen", "onward"}
        /\ (pc = "queue" => tick[p].saw = "planned")
        /\ (pc = "rolling" => tick[p].saw = "rolling")
    BY DEF Stages
  <2> HIDE DEF pc
  <2>2. row[J(p)] \in [Routers -> RowStates]
    BY <1>1 DEF Types, Busy, At
  <2>3. tick' = [tick EXCEPT ![p] = t]
    BY <1>1, <1>4 DEF Ticks, Types, pc
  <2>4. t \in Ticks
    BY <1>1, <2>1, <2>2 DEF Ticks
  <2>5. tick' \in [Tickers -> Ticks] /\ tick'[p] = t /\ Others(p)
    BY <1>1, <2>3, <2>4 DEF Types, Others
  <2>6. KeepsRead(p) /\ tick'[p].pc = pc /\ tick'[p].i = 1
    BY <2>5 DEF KeepsRead
  <2>7. Forward
    BY <1>2 DEF Forward, table
  <2>8. Busy(p)' /\ Knows(p)'
    BY <1>1, <2>1, <2>6, <2>7, MovedOn
  <2>9. Stage(p)'
    BY <1>4, <2>1, <2>6 DEF Stage, KeepsRead, Handing
  <2> QED BY <1>2, <2>1, <2>5, <2>6, <2>8, <2>9, ReadingStep
<1> QED BY <1>3, <1>4 DEF ReadTargets, Active

\* What is left to show of the tick that takes a step.
Kept(p) ==
  /\ tick' \in [Tickers -> Ticks] /\ Others(p)
  /\ Busy(p)' /\ Stage(p)' /\ Knows(p)' /\ tick'[p].pc # "deploy"

LEMMA EndTickKept ==
  ASSUME RolloutInv, NEW p \in Tickers, EndTick(p)
  PROVE  Kept(p)
BY EndTickTick, IdleTick DEF Kept, RolloutInv

LEMMA GotoKept ==
  ASSUME RolloutInv, Forward, NEW p \in Tickers, NEW pc \in Stages, Goto(p, pc),
         tick[p].pc \notin {"idle", "job", "targets"}, pc \notin {"deploy", "rolling"},
         pc \in Handing => tick[p].pc \in Handing,
         pc \in {"seen", "onward"} /\ tick[p].saw = "canary_pending" => J(p) \in proven'
  PROVE  Kept(p)
<1>1. Types /\ Stage(p)
  BY DEF RolloutInv
<1>2. /\ tick' \in [Tickers -> Ticks] /\ Others(p) /\ KeepsRead(p)
      /\ tick'[p].pc = pc /\ tick'[p].i = tick[p].i
  BY <1>1, GotoTick
<1>3. Busy(p)' /\ Knows(p)'
  BY <1>2, MovedOn
<1>4. Stage(p)'
  BY <1>1, <1>2 DEF Stage, KeepsRead
<1> QED BY <1>2, <1>3, <1>4 DEF Kept

LEMMA NextTargetKept ==
  ASSUME RolloutInv, Forward, NEW p \in Tickers, NEW pc \in Stages, NextTarget(p, pc),
         tick[p].pc \notin {"idle", "job", "targets"}, pc \notin {"deploy", "seen", "onward"},
         pc \in Handing => tick[p].saw = "observing" /\ tick[p].due,
         pc = "rolling" => tick[p].saw = "rolling"
  PROVE  Kept(p)
<1>1. Types /\ Stage(p)
  BY DEF RolloutInv
<1>2. /\ tick' \in [Tickers -> Ticks] /\ Others(p) /\ KeepsRead(p)
      /\ tick'[p].pc = pc
  BY <1>1, NextTargetTick
<1>3. Busy(p)' /\ Knows(p)'
  BY <1>2, MovedOn
<1>4. Stage(p)'
  BY <1>1, <1>2 DEF Stage, KeepsRead
<1> QED BY <1>2, <1>3, <1>4 DEF Kept

LEMMA HandedKept ==
  ASSUME RolloutInv, Forward, NEW p \in Tickers, tick[p].pc \in {"queue", "command"}, Handed(p)
  PROVE  Kept(p)
<1>1. Stage(p)
  BY DEF RolloutInv
<1>2. CASE tick[p].saw = "planned"
  <2>1. Goto(p, "onward")
    BY <1>2 DEF Handed
  <2> QED BY <1>2, <2>1, GotoKept DEF Stages, Handing
<1>3. CASE tick[p].saw # "planned"
  <2>1. NextTarget(p, "queue") /\ tick[p].saw = "observing" /\ tick[p].due
    BY <1>1, <1>3 DEF Handed, Stage, Handing
  <2> QED BY <2>1, NextTargetKept DEF Stages, Handing
<1> QED BY <1>2, <1>3

\* Reading changes no table.
LEMMA ReadingKept ==
  ASSUME RolloutInv, NEW p \in Tickers, Kept(p), UNCHANGED <<table, handed, proven, halted>>
  PROVE  RolloutInv'
BY ReadingStep DEF Kept

LEMMA SameTables == ASSUME UNCHANGED <<table, proven>> PROVE Forward
BY DEF Forward, table

LEMMA PauseAhead ==
  ASSUME RolloutInv, NEW p \in Tickers, Goto(p, "pause"),
         tick[p].pc \notin {"idle", "job", "targets"},
         UNCHANGED <<table, handed, proven, halted>>
  PROVE  RolloutInv'
<1>1. Kept(p)
  BY SameTables, GotoKept DEF Stages, Handing
<1> QED BY <1>1, ReadingKept

LEMMA ProbeRollingKeeps ==
  ASSUME RolloutInv, NEW p \in Tickers, ProbeRolling(p) PROVE RolloutInv'
<1>1. /\ tick[p].pc = "rolling" /\ UNCHANGED <<table, handed, proven, halted>>
      /\ Types /\ tick[p].saw = "rolling"
  BY DEF ProbeRolling, At, history, RolloutInv, Stage
<1>2. Forward
  BY <1>1, SameTables
<1>3. CASE NextTarget(p, "rolling")
  BY <1>1, <1>2, <1>3, NextTargetKept, ReadingKept DEF Stages, Handing
<1>4. CASE Goto(p, "pause")
  BY <1>1, <1>4, PauseAhead
<1>5. CASE Goto(p, "seen")
  BY <1>1, <1>2, <1>5, GotoKept, ReadingKept DEF Stages, Handing
<1>6. CASE SkipTarget(p)
  <2>1. /\ tick' \in [Tickers -> Ticks] /\ Others(p) /\ KeepsRead(p)
        /\ tick'[p].pc = "rolling"
    BY <1>1, <1>6, SkipTargetTick
  <2>2. Busy(p)' /\ Knows(p)'
    BY <1>1, <1>2, <2>1, MovedOn
  <2>3. Stage(p)'
    BY <1>1, <2>1 DEF Stage, KeepsRead, Handing, Active
  <2> QED BY <1>1, <2>1, <2>2, <2>3, ReadingKept DEF Kept
<1> QED BY <1>3, <1>4, <1>5, <1>6 DEF ProbeRolling, SkipTarget

LEMMA RollingEndsKeeps ==
  ASSUME RolloutInv, NEW p \in Tickers, RollingEnds(p) PROVE RolloutInv'
<1>1. /\ tick[p].pc = "rolling" /\ UNCHANGED <<table, handed, proven, halted>>
      /\ tick[p].saw = "rolling" /\ (Goto(p, "onward") \/ EndTick(p))
  BY DEF RollingEnds, At, history, RolloutInv, Stage
<1>2. Forward
  BY <1>1, SameTables
<1>3. Kept(p)
  BY <1>1, <1>2, GotoKept, EndTickKept DEF Stages, Handing
<1> QED BY <1>1, <1>3, ReadingKept

\* The canary that is seen well on the new version is proven from then on.
LEMMA ProbeCanaryKeeps ==
  ASSUME RolloutInv, NEW p \in Tickers, ProbeCanary(p) PROVE RolloutInv'
<1>1. tick[p].pc = "canary" /\ UNCHANGED <<table, handed, halted>>
  BY DEF ProbeCanary, At
<1>2. CASE Goto(p, "pause") /\ UNCHANGED proven
  BY <1>1, <1>2, PauseAhead
<1>3. CASE /\ tick[p].saw = "canary_pending" /\ Goto(p, "seen") /\ proven' = proven \cup {J(p)}
  <2>1. Forward
    BY <1>1, <1>3 DEF Forward, table
  <2>2. Kept(p)
    BY <1>1, <1>3, <2>1, GotoKept DEF Stages, Handing
  <2>3. Types'
    BY <1>1, <2>2 DEF RolloutInv, Types, table, Kept
  <2>4. \A j \in Jobs : Past(j)'
    BY <1>1, <1>3 DEF RolloutInv, Past, table
  <2> QED BY <1>1, <2>1, <2>2, <2>3, <2>4, ForwardStep DEF Kept, Others
<1>4. CASE EndTick(p) /\ UNCHANGED proven
  BY <1>1, <1>4, EndTickKept, ReadingKept
<1>5. CASE tick[p].saw = "observing" /\ tick[p].due /\ NextTarget(p, "queue") /\ UNCHANGED proven
  BY <1>1, <1>5, SameTables, NextTargetKept, ReadingKept DEF Stages, Handing
<1> QED BY <1>2, <1>3, <1>4, <1>5 DEF ProbeCanary

-----------------------------------------------------------------------------
(* The steps that write a target.                                          *)

\* One target is written and no target becomes planned.
RowWritten(j, r, v) == row' = [row EXCEPT ![j][r] = v] /\ v \in RowStates

LEMMA RowForward ==
  ASSUME RolloutInv, NEW j \in Jobs, NEW r, NEW v, RowWritten(j, r, v),
         v # "planned" \/ v = row[j][r],
         UNCHANGED <<job, targets, proven>>
  PROVE  /\ row' \in [Jobs -> [Routers -> RowStates]] /\ Forward
         /\ \A k \in Jobs, q \in Routers : row'[k][q] = "planned" => row[k][q] = "planned"
<1>1. row \in [Jobs -> [Routers -> RowStates]]
  BY DEF RolloutInv, Types
<1>2. row' \in [Jobs -> [Routers -> RowStates]]
  BY <1>1 DEF RowWritten
<1>3. \A k \in Jobs, q \in Routers :
        row'[k][q] = IF k = j /\ q = r THEN v ELSE row[k][q]
  BY <1>1 DEF RowWritten
<1> QED BY <1>2, <1>3 DEF Forward

LEMMA RowKept ==
  ASSUME RolloutInv, NEW p \in Tickers, Kept(p), Forward,
         row' \in [Jobs -> [Routers -> RowStates]],
         \A k \in Jobs, q \in Routers : row'[k][q] = "planned" => row[k][q] = "planned",
         UNCHANGED <<job, targets, handed, proven, halted>>
  PROVE  RolloutInv'
<1>1. Types'
  BY DEF RolloutInv, Types, Kept
<1>2. \A j \in Jobs : Past(j)'
  BY DEF RolloutInv, Past
<1> QED BY <1>1, <1>2, ForwardStep DEF Kept, Others

LEMMA UnderWay ==
  ASSUME RolloutInv, NEW p \in Tickers, tick[p].pc # "idle"
  PROVE  J(p) \in Jobs /\ row[J(p)] \in [Routers -> RowStates]
BY DEF RolloutInv, Busy, At, Types

LEMMA SetTargetCommandKeeps ==
  ASSUME RolloutInv, NEW p \in Tickers, SetTargetCommand(p) PROVE RolloutInv'
<1> DEFINE r == Target(p)
           v == IF row[J(p)][r] = "dispatching" THEN "queued" ELSE row[J(p)][r]
<1>1. /\ tick[p].pc = "command" /\ UNCHANGED <<job, targets, handed, proven, halted>>
      /\ J(p) \in Jobs /\ row[J(p)] \in [Routers -> RowStates]
  BY UnderWay DEF SetTargetCommand, At, fleet, history
<1>2. CASE Goto(p, "pause") /\ UNCHANGED row
  BY <1>1, <1>2, PauseAhead DEF table
<1>3. CASE row' = [row EXCEPT ![J(p)][r] = v] /\ Handed(p)
  <2>1. CASE r \in Routers
    <3>1. RowWritten(J(p), r, v) /\ (v # "planned" \/ v = row[J(p)][r])
      BY <1>1, <1>3, <2>1 DEF RowWritten, RowStates
    <3> HIDE DEF v
    <3>2. /\ row' \in [Jobs -> [Routers -> RowStates]] /\ Forward
          /\ \A k \in Jobs, q \in Routers : row'[k][q] = "planned" => row[k][q] = "planned"
      BY <1>1, <3>1, RowForward
    <3>3. Kept(p)
      BY <1>1, <1>3, <3>2, HandedKept
    <3> QED BY <1>1, <3>2, <3>3, RowKept
  <2>2. CASE r \notin Routers
    <3>1. row' = row
      BY <1>1, <1>3, <2>2 DEF RolloutInv, Types
    <3>2. Kept(p)
      BY <1>1, <1>3, <3>1, SameTables, HandedKept DEF table
    <3> QED BY <1>1, <3>1, <3>2, ReadingKept DEF table
  <2> QED BY <2>1, <2>2
<1> QED BY <1>2, <1>3 DEF SetTargetCommand

LEMMA MarkTargetObservedKeeps ==
  ASSUME RolloutInv, NEW p \in Tickers, MarkTargetObserved(p) PROVE RolloutInv'
<1> DEFINE r == Target(p)
           v == IF row[J(p)][r] = "planned" THEN row[J(p)][r] ELSE "observed"
<1>1. /\ tick[p].pc = "seen" /\ UNCHANGED <<job, targets, handed, proven, halted>>
      /\ J(p) \in Jobs /\ row[J(p)] \in [Routers -> RowStates]
      /\ tick[p].saw = "canary_pending" => J(p) \in proven
  BY UnderWay DEF MarkTargetObserved, At, fleet, history, RolloutInv, Knows
<1>2. ASSUME Forward PROVE Kept(p)
  <2>1. CASE tick[p].saw = "rolling"
    <3>1. NextTarget(p, "rolling")
      BY <2>1 DEF MarkTargetObserved
    <3> QED BY <1>1, <1>2, <2>1, <3>1, NextTargetKept DEF Stages, Handing
  <2>2. CASE tick[p].saw # "rolling"
    <3>1. Goto(p, "onward")
      BY <2>2 DEF MarkTargetObserved
    <3> QED BY <1>1, <1>2, <2>2, <3>1, GotoKept DEF Stages, Handing
  <2> QED BY <2>1, <2>2
<1>3. CASE UNCHANGED row
  <2>1. UNCHANGED table
    BY <1>1, <1>3 DEF table
  <2> QED BY <1>1, <1>2, <2>1, SameTables, ReadingKept
<1>4. CASE row' = [row EXCEPT ![J(p)][r] = v]
  <2>1. CASE r \in Routers
    <3>1. RowWritten(J(p), r, v) /\ (v # "planned" \/ v = row[J(p)][r])
      BY <1>1, <1>4, <2>1 DEF RowWritten, RowStates
    <3> HIDE DEF v
    <3>2. /\ row' \in [Jobs -> [Routers -> RowStates]] /\ Forward
          /\ \A k \in Jobs, q \in Routers : row'[k][q] = "planned" => row[k][q] = "planned"
      BY <1>1, <3>1, RowForward
    <3> QED BY <1>1, <1>2, <3>2, RowKept
  <2>2. CASE r \notin Routers
    BY <1>1, <1>3, <1>4, <2>2 DEF RolloutInv, Types
  <2> QED BY <2>1, <2>2
<1> QED BY <1>3, <1>4 DEF MarkTargetObserved

\* The tick that reserves a target is the only one about to deploy to it.
LEMMA ReserveKeeps ==
  ASSUME RolloutInv, NEW p \in Tickers, Reserve(p) PROVE RolloutInv'
<1> DEFINE r == Target(p)
           j == J(p)
<1>1. /\ tick[p].pc = "queue" /\ UNCHANGED <<job, targets, handed, proven, halted>>
      /\ j \in Jobs /\ row[j] \in [Routers -> RowStates] /\ Types
  BY UnderWay DEF Reserve, At, fleet, history, RolloutInv
<1>2. CASE Goto(p, "pause") /\ UNCHANGED row
  BY <1>1, <1>2, PauseAhead DEF table
<1>3. CASE Handed(p) /\ UNCHANGED row
  BY <1>1, <1>3, SameTables, HandedKept, ReadingKept DEF table
<1>4. CASE Reservable(p, r) /\ row' = [row EXCEPT ![j][r] = "dispatching"] /\ Goto(p, "deploy")
  <2>1. /\ tick' \in [Tickers -> Ticks] /\ Others(p) /\ KeepsRead(p)
        /\ tick'[p].pc = "deploy" /\ tick'[p].i = tick[p].i
    BY <1>1, <1>4, GotoTick DEF Stages
  <2>2. row[j][r] = "planned"
    BY <1>4 DEF Reservable
  <2>3. /\ row' \in [Jobs -> [Routers -> RowStates]] /\ Forward
        /\ \A k \in Jobs, q \in Routers : row'[k][q] = "planned" => row[k][q] = "planned"
    <3>1. RowWritten(j, r, "dispatching")
      BY <1>4 DEF RowWritten, RowStates
    <3> QED BY <1>1, <3>1, RowForward
  <2>4. Types' /\ HandedOnce' /\ \A k \in Jobs : Past(k)'
    BY <1>1, <2>1, <2>3 DEF RolloutInv, Types, HandedOnce, Past
  <2>5. ASSUME NEW q \in Tickers PROVE (Busy(q) /\ Stage(q) /\ Knows(q))'
    <3>1. CASE q = p
      <4>1. Busy(p)' /\ Knows(p)'
        BY <1>1, <2>1, <2>3, MovedOn
      <4>2. Stage(p)'
        BY <1>1, <2>1 DEF RolloutInv, Stage, KeepsRead, Handing
      <4> QED BY <3>1, <4>1, <4>2
    <3>2. CASE q # p
      BY <2>1, <2>3, <3>2, UnmovedTick DEF Others
    <3> QED BY <3>1, <3>2
  <2>6. ASSUME NEW q \in Tickers, q # p, tick[q].pc = "deploy", J(q) = j, r \in Routers
        PROVE  Target(q) # r
    BY <2>2, <2>6 DEF RolloutInv, Alone, At
  <2>7. ASSUME NEW q \in Tickers PROVE Alone(q)'
    <3> SUFFICES ASSUME tick'[q].pc = "deploy", NEW s \in Routers, targets[J(q)'][tick'[q].i] = s
                 PROVE  /\ row'[J(q)'][s] # "planned" /\ handed[J(q)'][s] = 0
                        /\ \A o \in Tickers :
                             tick'[o].pc = "deploy" /\ J(o)' = J(q)' /\ targets[J(q)'][tick'[o].i] = s
                               => o = q
      BY <1>1 DEF Alone, At, Target
    <3>1. CASE q = p
      <4>1. J(p)' = j /\ s = r
        BY <2>1, <3>1 DEF KeepsRead, J, Target
      <4>2. row'[j][s] # "planned" /\ handed[j][s] = 0
        BY <1>1, <1>4, <2>2, <4>1 DEF RolloutInv, Types, Past
      <4>3. ASSUME NEW o \in Tickers, o # p, tick'[o].pc = "deploy", J(o)' = j,
                   targets[j][tick'[o].i] = s
            PROVE  FALSE
        BY <2>1, <2>6, <4>1, <4>3 DEF Others, J, Target
      <4> QED BY <3>1, <4>1, <4>2, <4>3
    <3>2. CASE q # p
      <4>1. tick[q].pc = "deploy" /\ J(q)' = J(q) /\ Target(q) = s /\ J(q) \in Jobs
        BY <2>1, <3>2, UnderWay DEF Others, J, Target
      <4>2. /\ row[J(q)][s] # "planned" /\ handed[J(q)][s] = 0
            /\ \A o \in Tickers : tick[o].pc = "deploy" /\ J(o) = J(q) /\ Target(o) = s => o = q
        BY <4>1 DEF RolloutInv, Alone, At
      <4>3. ASSUME NEW o \in Tickers, o # p, tick'[o].pc = "deploy", J(o)' = J(q),
                   targets[J(q)][tick'[o].i] = s
            PROVE  o = q
        BY <2>1, <4>2, <4>3 DEF Others, J, Target
      <4>4. ~(J(p)' = J(q) /\ targets[J(q)][tick'[p].i] = s)
        BY <2>1, <2>2, <4>2 DEF KeepsRead, J, Target
      <4>5. row'[J(q)][s] # "planned"
        BY <2>3, <4>1, <4>2
      <4> QED BY <4>1, <4>2, <4>3, <4>4, <4>5
    <3> QED BY <3>1, <3>2
  <2> QED BY <2>4, <2>5, <2>7 DEF RolloutInv
<1> QED BY <1>2, <1>3, <1>4 DEF Reserve

LEMMA CountOne ==
  ASSUME NEW f \in [Routers -> Nat], NEW r
  PROVE  /\ [f EXCEPT ![r] = @ + 1] \in [Routers -> Nat]
         /\ \A s \in Routers : [f EXCEPT ![r] = @ + 1][s] = IF s = r THEN f[s] + 1 ELSE f[s]
<1>1. CASE r \in Routers
  BY <1>1
<1>2. CASE r \notin Routers
  <2>1. [f EXCEPT ![r] = @ + 1] = f
    BY <1>2
  <2> QED BY <1>2, <2>1
<1> QED BY <1>1, <1>2

\* What is handed out was reserved, and is handed out by nobody else.
LEMMA DeployKeeps ==
  ASSUME RolloutInv, NEW p \in Tickers, Deploy(p) PROVE RolloutInv'
<1> DEFINE r == Target(p)
           j == J(p)
<1>1. /\ tick[p].pc = "deploy" /\ UNCHANGED <<table, proven, halted>>
      /\ j \in Jobs /\ Types /\ handed[j] \in [Routers -> Nat] /\ Alone(p)
  BY UnderWay DEF Deploy, At, RolloutInv, Types
<1>2. CASE Goto(p, "pause") /\ UNCHANGED handed
  BY <1>1, <1>2, PauseAhead
<1>3. CASE handed' = [handed EXCEPT ![j][r] = @ + 1] /\ Goto(p, "command")
  <2>1. Forward
    BY <1>1, SameTables
  <2>2. Kept(p)
    BY <1>1, <1>3, <2>1, GotoKept DEF Stages, Handing
  <2>3. /\ handed' \in [Jobs -> [Routers -> Nat]]
        /\ \A k \in Jobs, s \in Routers :
             handed'[k][s] = IF k = j /\ s = r THEN handed[k][s] + 1 ELSE handed[k][s]
    <3> DEFINE f == [handed[j] EXCEPT ![r] = @ + 1]
    <3>1. f \in [Routers -> Nat]
          /\ \A s \in Routers : f[s] = IF s = r THEN handed[j][s] + 1 ELSE handed[j][s]
      BY <1>1, CountOne
    <3>2. handed' = [handed EXCEPT ![j] = f]
      BY <1>1, <1>3 DEF Types
    <3> HIDE DEF f
    <3> QED BY <1>1, <3>1, <3>2 DEF Types
  <2>4. r \in Routers => row[j][r] # "planned" /\ handed[j][r] = 0
    BY <1>1 DEF Alone, At
  <2>5. Types' /\ HandedOnce' /\ \A k \in Jobs : Past(k)'
    <3>1. Types'
      BY <1>1, <2>2, <2>3 DEF RolloutInv, Types, table, Kept
    <3>2. HandedOnce'
      BY <2>3, <2>4 DEF RolloutInv, HandedOnce
    <3>3. \A k \in Jobs : Past(k)'
      BY <1>1, <2>3, <2>4 DEF RolloutInv, Past, table
    <3> QED BY <3>1, <3>2, <3>3
  <2>6. ASSUME NEW q \in Tickers PROVE (Busy(q) /\ Stage(q) /\ Knows(q))'
    BY <2>1, <2>2, UnmovedTick DEF Kept, Others
  <2>7. ASSUME NEW q \in Tickers PROVE Alone(q)'
    <3> SUFFICES ASSUME tick'[q].pc = "deploy", NEW s \in Routers, Target(q)' = s
                 PROVE  /\ row'[J(q)'][s] # "planned" /\ handed'[J(q)'][s] = 0
                        /\ \A o \in Tickers :
                             At(o, "deploy")' /\ J(o)' = J(q)' /\ Target(o)' = s => o = q
      BY DEF Alone, At
    <3>1. q # p /\ tick'[q] = tick[q]
      BY <2>2 DEF Kept, Others
    <3>2. /\ tick[q].pc = "deploy" /\ J(q)' = J(q) /\ Target(q) = s /\ J(q) \in Jobs
      BY <1>1, <3>1, UnderWay DEF J, Target, table
    <3>3. /\ row[J(q)][s] # "planned" /\ handed[J(q)][s] = 0
          /\ \A o \in Tickers : tick[o].pc = "deploy" /\ J(o) = J(q) /\ Target(o) = s => o = q
      BY <3>2 DEF RolloutInv, Alone, At
    <3>4. ~(J(q) = j /\ s = r)
      BY <1>1, <3>1, <3>3
    <3>5. ASSUME NEW o \in Tickers, At(o, "deploy")', J(o)' = J(q)', Target(o)' = s
          PROVE  o = q
      <4>1. tick'[o] = tick[o]
        BY <2>2, <3>5 DEF Kept, Others, At
      <4>2. tick[o].pc = "deploy" /\ J(o) = J(q) /\ Target(o) = s
        BY <1>1, <3>2, <3>5, <4>1 DEF At, J, Target, table
      <4> QED BY <3>3, <4>2
    <3>6. row'[J(q)'][s] # "planned" /\ handed'[J(q)'][s] = 0
      BY <1>1, <2>3, <3>2, <3>3, <3>4 DEF table
    <3> QED BY <3>5, <3>6
  <2> QED BY <2>5, <2>6, <2>7 DEF RolloutInv
<1> QED BY <1>2, <1>3 DEF Deploy

-----------------------------------------------------------------------------
(* The steps that write a rollout.                                         *)

LEMMA StateWritten ==
  ASSUME RolloutInv, NEW j \in Jobs, NEW to \in JobStates, to # "",
         job' = [job EXCEPT ![j].state = to]
  PROVE  /\ job' \in [Jobs -> JobRows] /\ job'[j].state = to /\ job'[j].window = job[j].window
         /\ \A k \in Jobs : k # j => job'[k] = job[k]
<1> DEFINE u == [job[j] EXCEPT !.state = to]
<1>1. job \in [Jobs -> JobRows] /\ job[j] \in JobRows
  BY DEF RolloutInv, Types
<1>2. u \in JobRows /\ u.state = to /\ u.window = job[j].window
  BY <1>1 DEF JobRows
<1>3. job' = [job EXCEPT ![j] = u]
  BY <1>1 DEF JobRows
<1> HIDE DEF u
<1> QED BY <1>1, <1>2, <1>3

\* A tick that ends with a transition to a state its rollout may be in.
LEMMA TransitionKeeps ==
  ASSUME RolloutInv, NEW p \in Tickers, EndTick(p), tick[p].pc # "idle",
         tick[p].saw \in Active, NEW to \in JobStates, to # "",
         Transition(J(p), tick[p].saw, to), UNCHANGED <<targets, row, handed, proven>>,
         to \in {"observing", "rolling"} => J(p) \in proven,
         halted' = halted \/ (halted' = halted \cup {J(p)} /\ job' # job /\ to = "paused")
  PROVE  RolloutInv'
<1>1. J(p) \in Jobs /\ Kept(p)
  BY UnderWay, EndTickKept
<1>2. CASE job' = job
  BY <1>1, <1>2, ReadingKept DEF table
<1>3. CASE job' = [job EXCEPT ![J(p)].state = to] /\ job[J(p)].state = tick[p].saw
  <2>1. /\ job' \in [Jobs -> JobRows] /\ job'[J(p)].state = to
        /\ job'[J(p)].window = job[J(p)].window
        /\ \A k \in Jobs : k # J(p) => job'[k] = job[k]
    BY <1>1, <1>3, StateWritten
  <2>2. Forward
    BY <2>1 DEF Forward
  <2>3. Types'
    BY <1>1, <2>1 DEF RolloutInv, Types, Kept
  <2>4. ASSUME NEW k \in Jobs PROVE Past(k)'
    <3>1. Past(k) /\ (k = J(p) => k \notin halted)
      BY <1>3 DEF RolloutInv, Past, Active
    <3> QED BY <2>1, <3>1 DEF Past
  <2> QED BY <1>1, <2>2, <2>3, <2>4, ForwardStep DEF Kept, Others
<1> QED BY <1>2, <1>3 DEF Transition

LEMMA PauseKeeps == ASSUME RolloutInv, NEW p \in Tickers, Pause(p) PROVE RolloutInv'
<1>1. /\ tick[p].pc = "pause" /\ EndTick(p) /\ UNCHANGED <<targets, row, handed, proven>>
      /\ tick[p].saw \in Active
  BY DEF Pause, At, RolloutInv, Stage
<1>2. CASE UNCHANGED <<job, halted>>
  BY <1>1, <1>2, EndTickKept, ReadingKept DEF table
<1>3. CASE /\ Transition(J(p), tick[p].saw, "paused")
           /\ halted' = IF job' = job THEN halted ELSE halted \cup {J(p)}
  <2>1. "paused" \in JobStates
    BY DEF JobStates, Stopped
  <2>2. Transition(J(p), tick[p].saw, "paused")
    BY <1>3
  <2>3. halted' = halted \/ (halted' = halted \cup {J(p)} /\ job' # job)
    BY <1>3
  <2> QED BY <1>1, <2>1, <2>2, <2>3, TransitionKeeps
<1> QED BY <1>2, <1>3 DEF Pause

\* A rollout goes on to the observation only when its canary has been seen.
LEMMA OnwardKeeps == ASSUME RolloutInv, NEW p \in Tickers, Onward(p) PROVE RolloutInv'
<1>1. /\ tick[p].pc \in {"onward", "queue"} /\ EndTick(p)
      /\ UNCHANGED <<targets, row, handed, proven, halted>> /\ tick[p].saw \in Active
      /\ Stage(p) /\ Knows(p)
  BY DEF Onward, At, RolloutInv, Stage, history
<1>2. CASE UNCHANGED job
  BY <1>1, <1>2, EndTickKept, ReadingKept DEF table
<1>3. CASE Transition(J(p), tick[p].saw, After[tick[p].saw])
  <2>1. /\ After["planned"] = "canary_pending" /\ After["canary_pending"] = "observing"
        /\ After["observing"] = "rolling" /\ After["rolling"] = "complete"
    BY DEF After
  <2>2. PICK to \in JobStates : to = After[tick[p].saw] /\ to # ""
    BY <1>1, <2>1 DEF Active, JobStates, Stopped
  <2>3. to \in {"observing", "rolling"} => J(p) \in proven
    BY <1>1, <2>1, <2>2 DEF Active, Stage, Knows, Handing, At
  <2>4. Transition(J(p), tick[p].saw, to)
    BY <1>3, <2>2
  <2> QED BY <1>1, <2>2, <2>3, <2>4, TransitionKeeps
<1> QED BY <1>2, <1>3 DEF Onward

LEMMA CancelKeeps == ASSUME RolloutInv, NEW j \in Jobs, Cancel(j) PROVE RolloutInv'
<1>1. /\ job' = [job EXCEPT ![j].state = "cancelled"]
      /\ UNCHANGED <<targets, row, tick, handed, proven, halted>>
  BY DEF Cancel, history
<1>2. "cancelled" \in JobStates
  BY DEF JobStates, Stopped
<1>3. /\ job' \in [Jobs -> JobRows] /\ job'[j].state = "cancelled"
      /\ job'[j].window = job[j].window /\ \A k \in Jobs : k # j => job'[k] = job[k]
  BY <1>1, <1>2, StateWritten
<1>4. Types' /\ Forward /\ \A k \in Jobs : Past(k)'
  BY <1>1, <1>3 DEF RolloutInv, Types, Forward, Past
<1> QED BY <1>1, <1>4, ForwardStep

LEMMA WindowPassesKeeps == ASSUME RolloutInv, NEW j \in Jobs, WindowPasses(j) PROVE RolloutInv'
<1> DEFINE u == [job[j] EXCEPT !.window = TRUE]
<1>1. /\ job \in [Jobs -> JobRows] /\ job[j] \in JobRows
      /\ UNCHANGED <<targets, row, tick, handed, proven, halted>>
  BY DEF RolloutInv, Types, WindowPasses, history
<1>2. job' = [job EXCEPT ![j] = u]
  BY <1>1 DEF WindowPasses, JobRows
<1>3. u \in JobRows /\ u.state = job[j].state /\ u.window
  BY <1>1 DEF JobRows
<1> HIDE DEF u
<1>4. /\ job' \in [Jobs -> JobRows] /\ job'[j].state = job[j].state /\ job'[j].window
      /\ \A k \in Jobs : k # j => job'[k] = job[k]
  BY <1>1, <1>2, <1>3
<1>5. Types' /\ Forward /\ \A k \in Jobs : Past(k)'
  BY <1>1, <1>4 DEF RolloutInv, Types, Forward, Past
<1> QED BY <1>1, <1>5, ForwardStep

\* A rollout is created where there was none, so nobody works on it yet.
LEMMA CreateKeeps == ASSUME RolloutInv, NEW j \in Jobs, Create(j) PROVE RolloutInv'
<1> DEFINE t == [NoTick EXCEPT !.pc = "job", !.job = j]
<1>1. /\ job' = [job EXCEPT ![j].state = "planned"] /\ job[j].state = ""
      /\ \E s \in TargetsOf(Routers \ new) : targets' = [targets EXCEPT ![j] = s]
      /\ tick' = [tick EXCEPT ![j] = t] /\ UNCHANGED <<row, handed, proven, halted>>
      /\ j \in Tickers /\ Types
  BY DEF Create, history, Tickers, RolloutInv
<1>2. /\ job' \in [Jobs -> JobRows] /\ job'[j].state = "planned"
      /\ job'[j].window = job[j].window /\ \A k \in Jobs : k # j => job'[k] = job[k]
  BY <1>1, StateWritten DEF JobStates
<1>3. t \in Ticks /\ t.pc = "job" /\ t.job = j /\ t.saw = "" /\ ~t.due /\ ~t.late
  <2> DEFINE u == [NoTick EXCEPT !.pc = "job"]
  <2>1. u \in Ticks /\ u.pc = "job" /\ u.saw = "" /\ ~u.due /\ ~u.late
    BY NoTickType DEF Ticks, Stages
  <2>2. t = [u EXCEPT !.job = j]
    OBVIOUS
  <2> HIDE DEF u, t
  <2> QED BY <2>1, <2>2 DEF Ticks
<1> HIDE DEF t
<1>4. tick' \in [Tickers -> Ticks] /\ tick'[j] = t /\ \A q \in Tickers : q # j => tick'[q] = tick[q]
  BY <1>1, <1>3 DEF Types
<1>5. targets' = [k \in Jobs |-> targets'[k]] /\ \A k \in Jobs : k # j => targets'[k] = targets[k]
  BY <1>1 DEF Types
<1>6. Types'
  BY <1>1, <1>2, <1>4, <1>5 DEF Types
<1>7. Forward
  BY <1>1, <1>2, <1>5 DEF Forward
<1>8. Busy(j)' /\ Stage(j)' /\ Knows(j)' /\ tick'[j].pc # "deploy"
  BY <1>2, <1>3, <1>4 DEF Busy, Stage, Knows, At, J, Handing
<1>9. ASSUME NEW k \in Jobs PROVE Past(k)'
  <2>1. Past(k)
    BY DEF RolloutInv
  <2> QED BY <1>1, <1>2, <2>1 DEF Past
<1> QED BY <1>1, <1>4, <1>6, <1>7, <1>8, <1>9, ForwardStep

LEMMA RestartKeeps == ASSUME RolloutInv, Restart PROVE RolloutInv'
<1>1. tick' = [p \in Tickers |-> NoTick] /\ UNCHANGED <<table, handed, proven, halted>>
  BY DEF Restart
<1>2. \A q \in Tickers : Busy(q)' /\ Stage(q)' /\ Knows(q)' /\ tick'[q].pc # "deploy"
  BY <1>1, IdleTick
<1>3. Types' /\ Forward /\ \A k \in Jobs : Past(k)'
  <2>1. tick' \in [Tickers -> Ticks]
    BY <1>1, NoTickType
  <2> QED BY <1>1, <2>1, SameTables DEF RolloutInv, Types, Past, table
<1> QED BY <1>1, <1>2, <1>3, ForwardStep

-----------------------------------------------------------------------------
(* The invariant and the theorems.                                         *)

LEMMA NextRolloutInv == RolloutInv /\ [Next]_vars => RolloutInv'
<1> SUFFICES ASSUME RolloutInv, [Next]_vars PROVE RolloutInv'
  OBVIOUS
<1>1. ASSUME NEW p \in Tickers, Tick(p) PROVE RolloutInv'
  BY <1>1, ReadJobKeeps, ReadTargetsKeeps, ReserveKeeps, DeployKeeps, SetTargetCommandKeeps,
     PauseKeeps, OnwardKeeps, ProbeCanaryKeeps, ProbeRollingKeeps, MarkTargetObservedKeeps,
     RollingEndsKeeps DEF Tick
<1>2. ASSUME NEW j \in Jobs, Create(j) \/ Cancel(j) \/ WindowPasses(j) PROVE RolloutInv'
  BY <1>2, CreateKeeps, CancelKeeps, WindowPassesKeeps
<1>3. ASSUME NEW r \in Routers,
             Install(r) \/ PendingEnds(r) \/ OperatorDeploys(r) \/ Ails(r) \/ Recovers(r)
      PROVE  RolloutInv'
  <2>1. UNCHANGED <<job, targets, row, tick, handed, proven, halted>>
    BY <1>3 DEF Install, PendingEnds, OperatorDeploys, Ails, Recovers, table, history
  <2> QED BY <2>1, SameRolloutInv
<1>4. CASE Restart
  BY <1>4, RestartKeeps
<1>5. CASE UNCHANGED vars
  BY <1>5, SameRolloutInv DEF vars
<1> QED BY <1>1, <1>2, <1>3, <1>4, <1>5 DEF Next

\* What the ticks rely on holds of every fleet, whatever the number of rollouts.
THEOREM RolloutsKeep == Spec => []RolloutInv
<1> QED BY InitRolloutInv, NextRolloutInv, PTL DEF Spec

\* A rollout hands a router its update once, whatever ticks run at the same time
\* and wherever the backend stops (engine.go:196-213, rollout_jobs.go:118-125).
THEOREM UpdateHandedOnce == Spec => []HandedOnce
<1>1. RolloutInv => HandedOnce
  BY DEF RolloutInv
<1> QED BY <1>1, RolloutsKeep, PTL

\* No tick, however late its writes come, hands a router other than the canary its
\* update before the canary was seen well and the window passed, or after the
\* rollout was paused (engine.go:109-146).
THEOREM CanaryBeforeFleet == Spec => FleetAfterCanary
<1> DEFINE Allowed ==
      \A j \in Jobs, r \in Routers :
        handed'[j][r] > handed[j][r] /\ r # Canary(j)
          => /\ j \in proven /\ job[j].window
             /\ \E p \in Tickers : tick'[p] # tick[p] /\ ~tick[p].late
<1>1. RolloutInv /\ [Next]_vars => [Allowed]_vars
  <2> SUFFICES ASSUME RolloutInv, Next PROVE Allowed
    OBVIOUS
  <2>1. \A j \in Jobs, r \in Routers : handed[j][r] \in Nat
    BY DEF RolloutInv, Types
  <2>2. CASE UNCHANGED handed
    BY <2>1, <2>2
  <2>3. ASSUME NEW p \in Tickers, Deploy(p), handed' # handed PROVE Allowed
    <3>1. /\ tick[p].pc = "deploy" /\ handed' = [handed EXCEPT ![J(p)][Target(p)] = @ + 1]
          /\ Goto(p, "command") /\ J(p) \in Jobs /\ Types /\ Stage(p) /\ Knows(p)
      BY <2>3, UnderWay DEF Deploy, At, RolloutInv
    <3> SUFFICES ASSUME NEW j \in Jobs, NEW r \in Routers,
                        handed'[j][r] > handed[j][r], r # Canary(j)
                 PROVE  /\ j \in proven /\ job[j].window
                        /\ \E q \in Tickers : tick'[q] # tick[q] /\ ~tick[q].late
      OBVIOUS
    <3>2. j = J(p) /\ r = Target(p)
      <4>1. j = J(p)
        BY <2>1, <3>1 DEF Types
      <4>2. handed'[j][r] = handed[j][r] \/ r = Target(p)
        BY <3>1, <4>1 DEF Types
      <4> QED BY <2>1, <4>1, <4>2
    <3>3. tick[p].saw = "observing" /\ tick[p].due
      BY <3>1, <3>2 DEF Stage, Handing, Target, Canary, J
    <3>4. j \in proven /\ job[j].window /\ ~tick[p].late
      BY <3>1, <3>2, <3>3 DEF Knows, At
    <3>5. tick'[p] # tick[p]
      BY <3>1, GotoTick DEF Stages
    <3> QED BY <3>4, <3>5
  <2>4. (\E p \in Tickers : Deploy(p)) \/ UNCHANGED handed
    BY DEF Next, Tick, ReadJob, ReadTargets, Reserve, SetTargetCommand, Pause, Onward,
       ProbeCanary, ProbeRolling, MarkTargetObserved, RollingEnds, Create, Cancel,
       WindowPasses, Install, PendingEnds, OperatorDeploys, Ails, Recovers, Restart, history
  <2> QED BY <2>2, <2>3, <2>4
<1>2. FleetAfterCanary <=> [][Allowed]_vars
  BY DEF FleetAfterCanary
<1> QED BY <1>1, <1>2, RolloutsKeep, PTL DEF Spec

-----------------------------------------------------------------------------
(* The types.  A tick never looks past the end of the list, which names    *)
(* every router once.                                                      *)

Listed(j) ==
  /\ targets[j] \in Seq(Routers) /\ IsInjective(targets[j])
  /\ Len(targets[j]) <= Cardinality(Routers)
  /\ job[j].state # "" => Len(targets[j]) > 0

\* Where in the list a tick is: nowhere yet, at a target, or past the last one.
Outside == {"idle", "job", "targets"}
AtTarget == {"deploy", "command", "pause", "seen", "canary"}
Placed(p) ==
  /\ tick[p].pc \in Outside => tick[p].i = 0
  /\ tick[p].pc \notin Outside => tick[p].i \in 1 .. Len(targets[J(p)]) + 1
  /\ tick[p].pc \in AtTarget => tick[p].i <= Len(targets[J(p)])

World ==
  /\ health \in [Routers -> {"well", "hard", "silent"}]
  /\ new \subseteq Routers /\ pending \subseteq Routers /\ lost \subseteq Routers
  /\ proven \subseteq Jobs /\ halted \subseteq Jobs
  /\ troubles \in 0 .. MaxTroubles

Fits ==
  /\ World
  /\ \A j \in Jobs : Listed(j)
  /\ \A p \in Tickers : Placed(p)

LEMMA InitFits == Init => Fits
<1> SUFFICES ASSUME Init PROVE Fits
  OBVIOUS
<1>1. World
  <2>1. MaxTroubles \in 0 .. MaxTroubles
    BY RolloutConstants
  <2> QED BY <2>1 DEF Init, World
<1>2. ASSUME NEW j \in Jobs PROVE Listed(j)
  <2>1. targets[j] = <<>> /\ job[j].state = ""
    BY DEF Init
  <2>2. Cardinality(Routers) \in Nat
    BY RolloutConstants, FS_CardinalityType
  <2>3. <<>> \in Seq(Routers) /\ Len(<<>>) = 0 /\ IsInjective(<<>>)
    BY DEF IsInjective
  <2>4. Len(<<>>) <= Cardinality(Routers)
    BY <2>2, <2>3
  <2> QED BY <2>1, <2>3, <2>4, Zenon DEF Listed
<1>3. ASSUME NEW p \in Tickers PROVE Placed(p)
  <2>1. tick[p].pc = "idle" /\ tick[p].i = 0
    BY DEF Init, NoTick
  <2> QED BY <2>1 DEF Placed, Outside, AtTarget
<1> QED BY <1>1, <1>2, <1>3 DEF Fits

\* How long the list of a job may be.
LEMMA ListLength ==
  ASSUME Fits, NEW j \in Jobs
  PROVE  /\ Len(targets[j]) \in Nat /\ Len(targets[j]) <= Cardinality(Routers)
         /\ job[j].state # "" => Len(targets[j]) > 0
<1>1. Listed(j)
  BY DEF Fits
<1>2. targets[j] \in Seq(Routers)
  BY <1>1 DEF Listed
<1>3. Len(targets[j]) \in Nat
  BY <1>2
<1> QED BY <1>1, <1>3 DEF Listed

\* The list of a job that was created is that job's for good.
LEMMA PlacedStays ==
  ASSUME Fits, RolloutInv, NEW p \in Tickers, tick'[p] = tick[p],
         \A j \in Jobs : job[j].state # "" => targets'[j] = targets[j]
  PROVE  Placed(p)'
<1>1. CASE tick[p].pc = "idle"
  BY <1>1 DEF Fits, Placed, Outside, AtTarget
<1>2. CASE tick[p].pc # "idle"
  <2>1. J(p) \in Jobs /\ job[J(p)].state # "" /\ J(p)' = J(p)
    BY <1>2 DEF RolloutInv, Busy, At, J
  <2>2. targets'[J(p)'] = targets[J(p)]
    BY <2>1
  <2> QED BY <2>2 DEF Fits, Placed
<1> QED BY <1>1, <1>2

LEMMA EndPlaced ==
  ASSUME RolloutInv, NEW p \in Tickers, EndTick(p)
  PROVE  Others(p) /\ Placed(p)'
<1>1. Others(p) /\ tick'[p] = NoTick
  BY EndTickTick DEF RolloutInv
<1>2. NoTick.pc = "idle" /\ NoTick.i = 0
  BY DEF NoTick
<1> QED BY <1>1, <1>2 DEF Placed, Outside, AtTarget

LEMMA GotoPlaced ==
  ASSUME RolloutInv, Fits, NEW p \in Tickers, NEW pc \in Stages \ Outside, Goto(p, pc),
         tick[p].pc \notin Outside, targets' = targets,
         pc \in AtTarget => tick[p].i <= Len(targets[J(p)])
  PROVE  Others(p) /\ Placed(p)'
<1>1. /\ Others(p) /\ tick'[p].job = tick[p].job
      /\ tick'[p].pc = pc /\ tick'[p].i = tick[p].i
  BY GotoTick DEF RolloutInv, KeepsRead
<1> QED BY <1>1 DEF Fits, Placed, J

LEMMA NextPlaced ==
  ASSUME RolloutInv, Fits, NEW p \in Tickers, tick[p].pc \notin Outside, targets' = targets,
         tick[p].i <= Len(targets[J(p)]),
         \/ \E pc \in {"queue", "rolling"} : NextTarget(p, pc)
         \/ tick[p].pc = "rolling" /\ SkipTarget(p)
  PROVE  Others(p) /\ Placed(p)'
<1>1. PICK pc \in {"queue", "rolling"} :
        /\ Others(p) /\ tick'[p].job = tick[p].job
        /\ tick'[p].pc = pc /\ tick'[p].i = tick[p].i + 1
  BY NextTargetTick, SkipTargetTick DEF RolloutInv, KeepsRead, Stages
<1>2. tick[p].i \in 1 .. Len(targets[J(p)]) + 1 /\ Len(targets[J(p)]) \in Nat
  <2>1. J(p) \in Jobs
    BY UnderWay DEF Outside
  <2> QED BY <2>1, ListLength DEF Fits, Placed
<1>3. tick'[p].i \in 1 .. Len(targets[J(p)]) + 1
  BY <1>1, <1>2
<1> QED BY <1>1, <1>3 DEF Placed, J, Outside, AtTarget

LEMMA HandedPlaced ==
  ASSUME RolloutInv, Fits, NEW p \in Tickers, Handed(p), targets' = targets,
         tick[p].pc \notin Outside, tick[p].i <= Len(targets[J(p)])
  PROVE  Others(p) /\ Placed(p)'
<1>1. CASE Goto(p, "onward")
  BY <1>1, GotoPlaced DEF Stages, Outside, AtTarget
<1>2. CASE NextTarget(p, "queue")
  BY <1>2, NextPlaced
<1> QED BY <1>1, <1>2 DEF Handed

\* A tick that is at a target is at a router.
LEMMA TargetIsRouter ==
  ASSUME RolloutInv, Fits, NEW p \in Tickers, tick[p].pc \in AtTarget
  PROVE  Target(p) \in Routers
<1>1. J(p) \in Jobs
  BY UnderWay DEF AtTarget
<1>2. tick[p].i \in 1 .. Len(targets[J(p)]) /\ targets[J(p)] \in Seq(Routers)
  <2>1. tick[p].i \in 1 .. Len(targets[J(p)]) + 1 /\ tick[p].i <= Len(targets[J(p)])
    BY DEF Fits, Placed, AtTarget, Outside
  <2>2. targets[J(p)] \in Seq(Routers)
    BY <1>1 DEF Fits, Listed
  <2> QED BY <2>1, <2>2
<1> QED BY <1>2 DEF Target

\* Every step of a tick leaves it at its place.
LEMMA TickPlaced ==
  ASSUME RolloutInv, Fits, NEW p \in Tickers, Tick(p)
  PROVE  Others(p) /\ Placed(p)' /\ targets' = targets
<1>0. /\ tick[p].pc \in AtTarget => tick[p].i <= Len(targets[J(p)])
      /\ tick[p].pc \notin Outside => tick[p].i \in 1 .. Len(targets[J(p)]) + 1
  BY DEF Fits, Placed
<1>1. CASE ReadJob(p)
  <2>1. PICK j \in Jobs : tick' = [tick EXCEPT ![p] = Began(j)]
    BY <1>1 DEF ReadJob
  <2>2. Began(j).pc = "targets" /\ Began(j).i = 0
    BY DEF Began
  <2>3. Others(p) /\ tick'[p] = Began(j)
    BY <2>1 DEF RolloutInv, Types, Others
  <2>4. targets' = targets
    BY <1>1 DEF ReadJob, table
  <2> QED BY <2>2, <2>3, <2>4 DEF Placed, Outside, AtTarget
<1>2. CASE ReadTargets(p)
  <2>1. tick[p].pc = "targets" /\ targets' = targets /\ tick \in [Tickers -> Ticks]
        /\ tick[p] \in Ticks
    BY <1>2 DEF ReadTargets, At, table, RolloutInv, Types
  <2>2. CASE EndTick(p)
    BY <2>1, <2>2, EndPlaced
  <2>3. CASE ~EndTick(p)
    <3> DEFINE pc == CASE tick[p].saw = "planned" -> "queue"
                       [] tick[p].saw = "rolling" -> "rolling"
                       [] OTHER -> "canary"
               t == [pc |-> pc, job |-> tick[p].job, saw |-> tick[p].saw, due |-> tick[p].due,
                     late |-> tick[p].late, rows |-> row[J(p)], i |-> 1, all |-> tick[p].all]
    <3>1. pc \in {"queue", "rolling", "canary"}
      OBVIOUS
    <3>2. tick' = [tick EXCEPT ![p] = t]
      <4>1. tick' = [tick EXCEPT ![p].rows = row[J(p)], ![p].i = 1, ![p].pc = pc]
        BY <1>2, <2>3 DEF ReadTargets
      <4> QED BY <2>1, <4>1 DEF Types, Ticks
    <3> HIDE DEF pc
    <3>3. Others(p) /\ tick'[p].pc = pc /\ tick'[p].i = 1 /\ tick'[p].job = J(p)
      BY <2>1, <3>2 DEF Others, J
    <3>4. Len(targets[J(p)]) \in Nat \ {0}
      <4>1. J(p) \in Jobs /\ job[J(p)].state # ""
        BY <2>1 DEF RolloutInv, Busy, At
      <4>2. Len(targets[J(p)]) \in Nat /\ Len(targets[J(p)]) > 0
        BY <4>1, ListLength
      <4> QED BY <4>2
    <3> QED BY <2>1, <3>1, <3>3, <3>4 DEF Placed, Outside, AtTarget, J
  <2> QED BY <2>2, <2>3
<1>3. CASE Reserve(p)
  <2>1. tick[p].pc = "queue" /\ targets' = targets /\ tick[p].i <= Len(targets[J(p)])
    BY <1>3 DEF Reserve, At
  <2>2. Handed(p) \/ Goto(p, "pause") \/ Goto(p, "deploy")
    BY <1>3 DEF Reserve
  <2> QED BY <2>1, <2>2, HandedPlaced, GotoPlaced DEF Stages, Outside
<1>4. CASE Deploy(p)
  <2>1. tick[p].pc = "deploy" /\ targets' = targets
        /\ (Goto(p, "pause") \/ Goto(p, "command"))
    BY <1>4 DEF Deploy, At, table
  <2> QED BY <1>0, <2>1, GotoPlaced DEF Stages, Outside, AtTarget
<1>5. CASE SetTargetCommand(p)
  <2>1. tick[p].pc = "command" /\ targets' = targets /\ (Goto(p, "pause") \/ Handed(p))
    BY <1>5 DEF SetTargetCommand, At
  <2> QED BY <1>0, <2>1, HandedPlaced, GotoPlaced DEF Stages, Outside, AtTarget
<1>6. CASE Pause(p) \/ Onward(p)
  <2>1. EndTick(p) /\ targets' = targets
    BY <1>6 DEF Pause, Onward
  <2> QED BY <2>1, EndPlaced
<1>7. CASE ProbeCanary(p)
  <2>1. /\ tick[p].pc = "canary" /\ targets' = targets
        /\ \/ EndTick(p) \/ Goto(p, "pause") \/ Goto(p, "seen") \/ NextTarget(p, "queue")
    BY <1>7 DEF ProbeCanary, At, table
  <2> QED BY <1>0, <2>1, EndPlaced, GotoPlaced, NextPlaced DEF Stages, Outside, AtTarget
<1>8. CASE ProbeRolling(p)
  <2>1. /\ tick[p].pc = "rolling" /\ targets' = targets /\ tick[p].i <= Len(targets[J(p)])
        /\ \/ NextTarget(p, "rolling") \/ Goto(p, "pause") \/ Goto(p, "seen") \/ SkipTarget(p)
    BY <1>8 DEF ProbeRolling, At, table, SkipTarget
  <2> QED BY <2>1, GotoPlaced, NextPlaced DEF Stages, Outside
<1>9. CASE MarkTargetObserved(p)
  <2>1. /\ tick[p].pc = "seen" /\ targets' = targets
        /\ \/ NextTarget(p, "rolling") \/ Goto(p, "onward")
    BY <1>9 DEF MarkTargetObserved, At
  <2> QED BY <1>0, <2>1, GotoPlaced, NextPlaced DEF Stages, Outside, AtTarget
<1>10. CASE RollingEnds(p)
  <2>1. /\ tick[p].pc = "rolling" /\ targets' = targets
        /\ \/ EndTick(p) \/ Goto(p, "onward")
    BY <1>10 DEF RollingEnds, At, table
  <2> QED BY <2>1, EndPlaced, GotoPlaced DEF Stages, Outside, AtTarget
<1> QED BY <1>1, <1>2, <1>3, <1>4, <1>5, <1>6, <1>7, <1>8, <1>9, <1>10 DEF Tick

\* A job that is created lists the routers that do not report the version yet.
LEMMA CreateLists ==
  ASSUME RolloutInv, Fits, NEW j \in Jobs, Create(j)
  PROVE  \A k \in Jobs : Listed(k)'
<1>1. PICK s \in TargetsOf(Routers \ new) : targets' = [targets EXCEPT ![j] = s]
  BY DEF Create
<1>2. targets'[j] = s /\ \A k \in Jobs : k # j => targets'[k] = targets[k]
  BY <1>1 DEF RolloutInv, Types
<1>3. /\ Cardinality(Routers \ new) \in Nat \ {0}
      /\ Cardinality(Routers \ new) <= Cardinality(Routers)
  <2>1. Routers \ new \in SUBSET Routers /\ Routers \ new # {}
    BY DEF Create
  <2>2. IsFiniteSet(Routers \ new) /\ Cardinality(Routers \ new) <= Cardinality(Routers)
    BY <2>1, RolloutConstants, FS_Subset
  <2> QED BY <2>1, <2>2, FS_EmptySet, FS_CardinalityType
<1>4. /\ s \in Seq(Routers) /\ IsInjective(s) /\ Len(s) = Cardinality(Routers \ new)
  <2>1. s \in [1 .. Cardinality(Routers \ new) -> Routers] /\ IsInjective(s)
    BY <1>1 DEF TargetsOf
  <2>2. ASSUME NEW n \in Nat, s \in [1 .. n -> Routers] PROVE s \in Seq(Routers) /\ Len(s) = n
    BY <2>2
  <2> QED BY <1>3, <2>1, <2>2
<1>5. ASSUME NEW k \in Jobs, k # j PROVE job'[k] = job[k]
  BY <1>5 DEF Create, RolloutInv, Types
<1>6. ASSUME NEW k \in Jobs PROVE Listed(k)'
  <2>1. CASE k = j
    <3>1. Len(s) <= Cardinality(Routers) /\ Len(s) > 0
      BY <1>3, <1>4, FS_CardinalityType, RolloutConstants
    <3> QED BY <1>2, <1>4, <2>1, <3>1 DEF Listed
  <2>2. CASE k # j
    BY <1>2, <1>5, <2>2 DEF Fits, Listed
  <2> QED BY <2>1, <2>2
<1> QED BY <1>6

\* What a tick does outside the tables.
LEMMA TickWorld ==
  ASSUME RolloutInv, Fits, NEW p \in Tickers, Tick(p)
  PROVE  World'
<1>1. World
  BY DEF Fits
<1>2. troubles' \in 0 .. MaxTroubles
  <2>1. Smooth \/ Trouble
    BY DEF Tick, ReadJob, ReadTargets, Reserve, Deploy, SetTargetCommand, Pause, Onward,
       ProbeCanary, ProbeRolling, MarkTargetObserved, RollingEnds, Reading, Smooth
  <2> QED BY <1>1, <2>1, RolloutConstants DEF World, Smooth, Trouble
<1>3. UNCHANGED <<health, new>>
  BY DEF Tick, ReadJob, ReadTargets, Reserve, Deploy, SetTargetCommand, Pause, Onward,
     ProbeCanary, ProbeRolling, MarkTargetObserved, RollingEnds, fleet
<1>4. CASE Deploy(p)
  <2>1. UNCHANGED <<proven, halted, lost>> /\ tick[p].pc = "deploy"
        /\ (pending' = pending \/ pending' = pending \cup {Target(p)})
    BY <1>4 DEF Deploy, At
  <2>2. Target(p) \in Routers
    BY <2>1, TargetIsRouter DEF AtTarget
  <2> QED BY <1>1, <1>2, <1>3, <2>1, <2>2 DEF World
<1>5. CASE Pause(p)
  <2>1. UNCHANGED <<proven, pending>> /\ tick[p].pc = "pause" /\ J(p) \in Jobs
    BY <1>5, UnderWay DEF Pause, At, fleet
  <2>2. halted' \subseteq halted \cup {J(p)}
    BY <1>5 DEF Pause
  <2>3. lost' \subseteq lost \cup {Target(p)}
    BY <1>5 DEF Pause, LeftBy
  <2>4. Target(p) \in Routers
    BY <2>1, TargetIsRouter DEF AtTarget
  <2> QED BY <1>1, <1>2, <1>3, <2>1, <2>2, <2>3, <2>4 DEF World
<1>6. CASE ProbeCanary(p)
  <2>1. UNCHANGED <<halted, lost, pending>> /\ tick[p].pc = "canary" /\ J(p) \in Jobs
        /\ (proven' = proven \/ proven' = proven \cup {J(p)})
    BY <1>6, UnderWay DEF ProbeCanary, At, fleet
  <2> QED BY <1>1, <1>2, <1>3, <2>1 DEF World
<1>7. CASE ~(Deploy(p) \/ Pause(p) \/ ProbeCanary(p))
  <2>1. UNCHANGED <<pending, proven, halted, lost>>
    BY <1>7 DEF Tick, ReadJob, ReadTargets, Reserve, SetTargetCommand, Onward,
       ProbeRolling, MarkTargetObserved, RollingEnds, fleet, history
  <2> QED BY <1>1, <1>2, <1>3, <2>1 DEF World
<1> QED BY <1>4, <1>5, <1>6, <1>7

\* A job that was there stays the one it was.
LEMMA ListedStays ==
  ASSUME Fits, NEW j \in Jobs, targets'[j] = targets[j],
         job'[j].state # "" => job[j].state # ""
  PROVE  Listed(j)'
BY DEF Fits, Listed

LEMMA TickFits == ASSUME RolloutInv, Fits, NEW p \in Tickers, Tick(p) PROVE Fits'
<1>1. Others(p) /\ Placed(p)' /\ targets' = targets /\ World'
  BY TickPlaced, TickWorld
<1>2. ASSUME NEW j \in Jobs, job'[j].state # "" PROVE job[j].state # ""
  <2>1. CASE UNCHANGED job
    BY <1>2, <2>1
  <2>2. CASE Pause(p) \/ Onward(p)
    <3>1. /\ J(p) \in Jobs /\ job[J(p)].state # "" /\ Types
          /\ job' = job \/ \E to : job' = [job EXCEPT ![J(p)].state = to]
      BY <2>2 DEF Pause, Onward, Transition, RolloutInv, Busy, At
    <3> QED BY <1>2, <3>1 DEF Types
  <2> QED BY <2>1, <2>2 DEF Tick, ReadJob, ReadTargets, Reserve, Deploy, SetTargetCommand,
         ProbeCanary, ProbeRolling, MarkTargetObserved, RollingEnds, table
<1>3. \A j \in Jobs : Listed(j)'
  BY <1>1, <1>2, ListedStays
<1>4. \A q \in Tickers : Placed(q)'
  BY <1>1, PlacedStays DEF Others
<1> QED BY <1>1, <1>3, <1>4 DEF Fits

LEMMA JobFits ==
  ASSUME RolloutInv, Fits, NEW j \in Jobs, Create(j) \/ Cancel(j) \/ WindowPasses(j)
  PROVE  Fits'
<1>0. Types /\ j \in Tickers
  BY DEF RolloutInv, Tickers
<1>1. World'
  BY DEF Create, Cancel, WindowPasses, Fits, World, fleet, history
<1>2. CASE Create(j)
  <2>1. \A k \in Jobs : Listed(k)'
    BY <1>2, CreateLists
  <2>2. /\ tick' = [tick EXCEPT ![j] = [NoTick EXCEPT !.pc = "job", !.job = j]]
        /\ job[j].state = "" /\ \A k \in Jobs : k # j => targets'[k] = targets[k]
    BY <1>0, <1>2 DEF Create, Types
  <2>3. tick'[j].pc = "job" /\ tick'[j].i = 0 /\ \A q \in Tickers : q # j => tick'[q] = tick[q]
    BY <1>0, <2>2 DEF Types, NoTick
  <2>4. \A q \in Tickers : Placed(q)'
    <3>1. Placed(j)'
      BY <2>3 DEF Placed, Outside, AtTarget
    <3> QED BY <2>2, <2>3, <3>1, PlacedStays
  <2> QED BY <1>1, <2>1, <2>4 DEF Fits
<1>3. CASE Cancel(j) \/ WindowPasses(j)
  <2>1. UNCHANGED <<targets, tick>>
    BY <1>3 DEF Cancel, WindowPasses
  <2>2. ASSUME NEW k \in Jobs, job'[k].state # "" PROVE job[k].state # ""
    BY <1>0, <1>3, <2>2 DEF Cancel, WindowPasses, IsActive, Types, JobRows
  <2>3. \A k \in Jobs : Listed(k)'
    BY <2>1, <2>2, ListedStays
  <2>4. \A q \in Tickers : Placed(q)'
    BY <2>1, PlacedStays
  <2> QED BY <1>1, <2>3, <2>4 DEF Fits
<1> QED BY <1>2, <1>3

LEMMA RouterFits ==
  ASSUME RolloutInv, Fits, NEW r \in Routers,
         Install(r) \/ PendingEnds(r) \/ OperatorDeploys(r) \/ Ails(r) \/ Recovers(r)
  PROVE  Fits'
<1>1. World'
  <2>1. World
    BY DEF Fits
  <2>2. troubles' \in 0 .. MaxTroubles
    BY <2>1, RolloutConstants
       DEF World, Install, PendingEnds, OperatorDeploys, Ails, Recovers, Trouble
  <2>3. health' \in [Routers -> {"well", "hard", "silent"}]
    BY <2>1 DEF World, Install, PendingEnds, OperatorDeploys, Ails, Recovers
  <2> QED BY <2>1, <2>2, <2>3
       DEF World, Install, PendingEnds, OperatorDeploys, Ails, Recovers, history
<1>2. UNCHANGED <<table, tick>>
  BY DEF Install, PendingEnds, OperatorDeploys, Ails, Recovers
<1>3. \A j \in Jobs : Listed(j)'
  BY <1>2, ListedStays DEF table
<1>4. \A q \in Tickers : Placed(q)'
  BY <1>2, PlacedStays DEF table
<1> QED BY <1>1, <1>3, <1>4 DEF Fits

LEMMA RestartFits == ASSUME RolloutInv, Fits, Restart PROVE Fits'
<1>1. World'
  <2>1. World
    BY DEF Fits
  <2>2. troubles' \in 0 .. MaxTroubles /\ UNCHANGED <<health, new, pending, proven, halted>>
    BY <2>1, RolloutConstants DEF World, Restart, Trouble, fleet
  <2>3. ASSUME NEW p \in Tickers, At(p, "deploy") \/ At(p, "pause")
        PROVE  LeftBy(p) \subseteq Routers
    <3>1. Target(p) \in Routers
      BY <2>3, TargetIsRouter DEF At, AtTarget
    <3> QED BY <3>1 DEF LeftBy
  <2>4. lost' \subseteq Routers
    BY <2>1, <2>3 DEF World, Restart
  <2> QED BY <2>1, <2>2, <2>4 DEF World
<1>2. UNCHANGED table /\ \A p \in Tickers : tick'[p] = NoTick
  BY DEF Restart
<1>3. \A j \in Jobs : Listed(j)'
  BY <1>2, ListedStays DEF table
<1>4. ASSUME NEW p \in Tickers PROVE Placed(p)'
  <2>1. NoTick.pc = "idle" /\ NoTick.i = 0
    BY DEF NoTick
  <2> QED BY <1>2, <2>1 DEF Placed, Outside, AtTarget
<1> QED BY <1>1, <1>3, <1>4 DEF Fits

LEMMA NextFits == RolloutInv /\ Fits /\ [Next]_vars => Fits'
<1> SUFFICES ASSUME RolloutInv, Fits, [Next]_vars PROVE Fits'
  OBVIOUS
<1>1. CASE UNCHANGED vars
  <2>1. World'
    BY <1>1 DEF vars, Fits, World
  <2>2. \A j \in Jobs : Listed(j)'
    BY <1>1, ListedStays DEF vars
  <2>3. \A q \in Tickers : Placed(q)'
    BY <1>1, PlacedStays DEF vars
  <2> QED BY <2>1, <2>2, <2>3 DEF Fits
<1> QED BY <1>1, TickFits, JobFits, RouterFits, RestartFits DEF Next

LEMMA RolloutTypes == RolloutInv /\ Fits => RolloutTypeOK
<1> SUFFICES ASSUME RolloutInv, Fits PROVE RolloutTypeOK
  OBVIOUS
<1>1. /\ health \in [Routers -> {"well", "hard", "silent"}]
      /\ {new, pending, lost} \subseteq SUBSET Routers
      /\ {proven, halted} \subseteq SUBSET Jobs /\ troubles \in 0 .. MaxTroubles
  BY DEF Fits, World
<1>2. /\ job \in [Jobs -> [state : JobStates, window : BOOLEAN]]
      /\ row \in [Jobs -> [Routers -> RowStates]] /\ handed \in [Jobs -> [Routers -> Nat]]
  BY DEF RolloutInv, Types, JobRows
<1>3. \A j \in Jobs : targets[j] \in Seq(Routers) /\ IsInjective(targets[j])
  BY DEF Fits, Listed
<1>4. ASSUME NEW p \in Tickers
      PROVE  /\ tick[p].pc \in Stages
             /\ tick[p].job \in {0} \cup Jobs /\ tick[p].saw \in JobStates
             /\ tick[p].i \in 0 .. Cardinality(Routers) + 1
  <2>1. tick[p] \in Ticks /\ Cardinality(Routers) \in Nat
    BY RolloutConstants, FS_CardinalityType DEF RolloutInv, Types
  <2>2. CASE tick[p].pc \in Outside
    BY <2>1, <2>2 DEF Ticks, Fits, Placed
  <2>3. CASE tick[p].pc \notin Outside
    <3>1. J(p) \in Jobs
      BY <2>3, UnderWay DEF Outside
    <3>2. Len(targets[J(p)]) \in Nat /\ Len(targets[J(p)]) <= Cardinality(Routers)
      BY <3>1, ListLength
    <3>3. tick[p].i \in 1 .. Len(targets[J(p)]) + 1
      BY <2>3 DEF Fits, Placed
    <3> QED BY <2>1, <3>2, <3>3 DEF Ticks
  <2> QED BY <2>2, <2>3
<1> QED BY <1>1, <1>2, <1>3, <1>4 DEF RolloutTypeOK, Stages

\* Every variable keeps its type, a job lists a router once, and no tick looks past
\* the end of its list, wherever the other ticks and the restarts come in between.
THEOREM RolloutTypeCorrect == Spec => []RolloutTypeOK
<1>1. Init => RolloutInv /\ Fits
  BY InitRolloutInv, InitFits
<1>2. RolloutInv /\ Fits /\ [Next]_vars => (RolloutInv /\ Fits)'
  BY NextRolloutInv, NextFits
<1> QED BY <1>1, <1>2, RolloutTypes, PTL DEF Spec

=============================================================================
