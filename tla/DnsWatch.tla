------------------------------ MODULE DnsWatch ------------------------------
(***************************************************************************)
(* The DNS watchdog of the agent.  While the router's own resolver does    *)
(* not answer, the watchdog puts a fallback set into the router's LIVE     *)
(* configuration in the place of the own line, and undoes it afterwards;   *)
(* a reboot brings the saved configuration back.  What it has done it      *)
(* keeps in a state file, so that an agent that dies at any moment can     *)
(* finish the switch or undo it.                                           *)
(*                                                                         *)
(* A step is one dealing with the router (a reading of its configuration,  *)
(* or a batch of commands of which any part may take hold) together with   *)
(* what the watchdog decides and saves on it.  Between the steps the agent *)
(* may die, the router reboot and people edit the lines.  Lines are        *)
(* elements of a small set; removal works by identifier, and lines may     *)
(* share one.                                                              *)
(***************************************************************************)
EXTENDS Integers, FiniteSets, FiniteSetsExt

CONSTANTS
  Own,           \* the line of the own resolver
  Foreign,       \* candidate lines that serve every zone
  Zoned,         \* lines of the fallback set bound to a zone: RU, pinned
  Kept,          \* other lines of the saved configuration
  IdOf,          \* the identifier of a line, as removal knows it
  MaxForeign,    \* foreign lines in one fallback set
  DoTLimit,      \* lines the router takes besides the own one
  FailThreshold, OKThreshold,
  MaxTroubles,   \* bound: commands and readings that fail, crashes, reboots,
                 \* edits by hand and changes of the own resolver
  HandEdits      \* whether people edit the lines

Lines == {Own} \cup Foreign \cup Zoned \cup Kept
Boot == {Own} \cup Kept

ASSUME DnsConstants ==
  /\ IdOf \in [Lines -> {IdOf[l] : l \in Lines}]
  /\ \A l \in Lines \ {Own} : IdOf[l] # IdOf[Own]
  /\ Own \notin Foreign \cup Zoned \cup Kept
  /\ Foreign \cap Zoned = {}
  /\ {MaxForeign, FailThreshold, OKThreshold} \subseteq Nat \ {0}
  /\ {DoTLimit, MaxTroubles} \subseteq Nat
  /\ HandEdits \in BOOLEAN
  /\ IsFiniteSet(Lines)

VARIABLES
  live,     \* the lines of the router's running configuration
  ownUp,    \* the own resolver answers
  alive,    \* the candidates that answer
  file,     \* dns-watchdog-state.json
  saved,    \* the record in memory
  st,       \* the machine: mode, streaks, whether the last switch is recent
  ready, idle,
  pc,       \* where the watchdog is within its tick; "down": no agent
  job,      \* what the switch in progress has still to do
  hand,     \* history: somebody has edited the lines since the tick began
  edited,   \* history: somebody has ever edited them
  troubles  \* troubles left

vars == <<live, ownUp, alive, file, saved, st, ready, idle, pc, job, hand,
          edited, troubles>>
world == <<ownUp, alive, edited>>
memory == <<saved, st, ready, idle>>

Ids(lines) == {IdOf[l] : l \in lines}
WithIds(lines, ids) == {l \in lines : IdOf[l] \in ids}

Blank(recent) == [mode |-> "primary", recent |-> recent, pending |-> "",
  removed |-> {}, applied |-> {}, shared |-> {}, foreign |-> {},
  left |-> {}, missing |-> {}]

Machine(mode, recent) == [mode |-> mode, fails |-> 0, oks |-> 0, recent |-> recent]

NoJob == [kind |-> "", todo |-> {}, gone |-> {}, want |-> {}, cut |-> {},
          left |-> {}, missing |-> {}, budget |-> 0, recent |-> FALSE,
          streak |-> FALSE]

\* Which candidates answer is chosen once: the world of a run.
Init ==
  /\ live = Boot /\ ownUp = TRUE
  /\ alive \in SUBSET Foreign
  /\ file = Blank(FALSE) /\ saved = Blank(FALSE)
  /\ st = Machine("primary", FALSE)
  /\ ready = FALSE /\ idle = FALSE
  /\ pc = "rest" /\ job = NoJob
  /\ hand = FALSE /\ edited = FALSE
  /\ troubles = MaxTroubles

-----------------------------------------------------------------------------
(* Readings, batches of commands, and the state file.                      *)

Trouble == troubles > 0 /\ troubles' = troubles - 1

\* A reading of the running configuration that works shows live as it is.
Read == UNCHANGED <<hand, troubles>>
ReadFails == Trouble /\ UNCHANGED hand

\* What a batch of additions or removals may leave on the router.  A removal
\* takes all lines of an identifier, or none.
Added(lines) == {live \cup got : got \in SUBSET lines}
Removed(lines) == {live \ WithIds(live, ids) : ids \in SUBSET Ids(lines)}

\* The whole batch takes hold, or less of it.
Apply(results, all) ==
  /\ UNCHANGED hand
  /\ \/ live' = all /\ UNCHANGED troubles
     \/ live' \in results \ {all} /\ Trouble

Add(lines) == Apply(Added(lines), live \cup lines)
Remove(lines) == Apply(Removed(lines), live \ WithIds(live, Ids(lines)))

Save(rec) == saved' = rec /\ file' = rec

\* The record goes although lines are left to take out.
DropIfMissingNone(rec) ==
  IF rec.mode = "primary" /\ rec.pending = "" /\ rec.missing = {}
  THEN Blank(rec.recent) ELSE rec

\* A proven primary with nothing to clean up needs no record.
DropIfClean(rec) ==
  IF /\ rec.mode = "primary" /\ rec.pending = ""
     /\ rec.left = {} /\ rec.missing = {}
  THEN Blank(rec.recent) ELSE rec

-----------------------------------------------------------------------------
(* What the router proves, and what a mode asks of it.                     *)

Proves(mode, rec) ==
  IF mode = "fallback" THEN Own \notin live /\ live \cap rec.foreign # {}
                       ELSE Own \in live

GoneByHand(rec) ==
  Own \notin live /\ rec.applied # {} /\ live \cap rec.applied = {}

\* A forward switch cut short passes for a primary.
InFallback(rec) == rec.mode = "fallback"

GoingToFallback(rec) == rec.mode = "fallback" \/ rec.pending = "forward"

TargetGone(mode, rec) ==
  IF mode = "fallback" THEN {IdOf[Own]} ELSE Ids(rec.applied)
TargetWant(mode, rec) ==
  rec.shared \cup IF mode = "fallback" THEN rec.applied ELSE rec.removed

Leftover(gone, want) == WithIds(live, gone) \ want
Missing(want) == want \ live

GoIdle(recent) == idle' = TRUE /\ st' = Machine("primary", recent)

AbandonRecord(rec) ==
  Save(Blank(rec.recent)) /\ GoIdle(rec.recent)

OwnLineRemovedByHand ==
  /\ Save([saved EXCEPT !.left = @ \cap live, !.mode = "primary", !.pending = ""])
  /\ GoIdle(saved.recent)

\* The machine keeps the mode it had.
AdoptRecord(mode) ==
  /\ UNCHANGED st
  /\ Save(DropIfClean([saved EXCEPT !.mode = mode, !.pending = "",
       !.left = Leftover(TargetGone(mode, saved), TargetWant(mode, saved)),
       !.missing = Missing(TargetWant(mode, saved))]))
  /\ idle' = idle

Adopt(mode) ==
  /\ st' = IF st.mode = mode THEN st ELSE Machine(mode, saved.recent)
  /\ Save(DropIfClean([saved EXCEPT !.mode = mode, !.pending = "",
       !.left = Leftover(TargetGone(mode, saved), TargetWant(mode, saved)),
       !.missing = Missing(TargetWant(mode, saved))]))
  /\ idle' = idle

-----------------------------------------------------------------------------
(* The beginning of a tick.                                                *)

EndTick == pc' = "rest" /\ job' = NoJob

Tick ==
  /\ pc = "rest" /\ ready
  /\ pc' = IF saved.pending # "" THEN "reconcile" ELSE IF idle THEN "idle" ELSE "probe"
  /\ hand' = FALSE
  /\ UNCHANGED <<live, world, file, memory, job, troubles>>

\* The first tick learns the mode from the router and the state file.
InitWatch ==
  /\ pc = "rest" /\ ~ready
  /\ ready' = TRUE /\ hand' = FALSE /\ UNCHANGED troubles
  /\ \/ /\ GoneByHand(file)
        /\ AbandonRecord(file) /\ pc' = "idle"
     \/ /\ ~GoneByHand(file)
        /\ Own \in live /\ live \cap file.applied = {} /\ file.pending = ""
        /\ st' = Machine("primary", file.recent)
        /\ IF file.mode = "fallback"
           THEN Save(Blank(file.recent))
           ELSE saved' = file /\ UNCHANGED file
        /\ pc' = "probe" /\ UNCHANGED idle
     \/ /\ Own \notin live /\ file.pending = ""
        /\ file.removed = {} /\ file.applied = {}
        /\ GoIdle(file.recent) /\ pc' = "idle" /\ UNCHANGED <<saved, file>>
     \/ /\ ~GoneByHand(file)
        /\ \/ file.pending # ""
           \/ Own \in live /\ live \cap file.applied # {}
           \/ Own \notin live /\ file.removed \cup file.applied # {}
        /\ saved' = [file EXCEPT !.pending = IF @ = "" THEN "mixed" ELSE @]
        /\ st' = Machine(file.mode, file.recent)
        /\ pc' = "reconcile" /\ UNCHANGED <<file, idle>>
  /\ UNCHANGED <<live, world, job>>

\* A reading that fails ends the tick; nothing is decided on it.
Unread ==
  /\ \/ pc = "rest" /\ ~ready
     \/ pc \in {"reconcile", "idle", "clean"}
  /\ ReadFails /\ EndTick
  /\ UNCHANGED <<live, world, file, memory>>

RecheckIdle ==
  /\ pc = "idle" /\ Read
  /\ IF Own \in live
     THEN idle' = FALSE /\ st' = Machine("primary", st.recent) /\ pc' = "probe"
     ELSE pc' = "rest" /\ UNCHANGED <<idle, st>>
  /\ UNCHANGED <<live, world, file, saved, ready, job>>

-----------------------------------------------------------------------------
(* An unproven mode.                                                       *)

\* The stamp a finished switch leaves: a new one only if the mode changes.
Stamp(mode) == IF st.mode = mode THEN st.recent ELSE TRUE

FinishForward(want, recent) ==
  LET j == [NoJob EXCEPT !.kind = "forward", !.gone = {IdOf[Own]}, !.want = want,
                         !.recent = recent, !.cut = live \cap {Own}]
  IN job' = j /\ pc' = IF j.cut = {} THEN "settle" ELSE "cutOwn"

FinishReturn(recent, streak) ==
  LET own == saved.removed \ live
      j == [NoJob EXCEPT !.kind = "return", !.gone = Ids(saved.applied),
              !.want = saved.removed \cup saved.shared,
              !.recent = recent, !.streak = streak]
  IN  \/ own # {} /\ pc' = "putOwn" /\ job' = [j EXCEPT !.todo = own]
      \/ own = {} /\ Own \in live /\ pc' = "cutSet"
         /\ job' = [j EXCEPT !.cut = live \cap saved.applied]

Reconcile ==
  /\ pc = "reconcile" /\ Read
  /\ \/ /\ GoneByHand(saved) /\ AbandonRecord(saved) /\ EndTick
     \/ /\ Own \in live /\ Adopt("primary")
        /\ pc' = "probe" /\ UNCHANGED job
     \/ /\ Own \notin live /\ ~GoneByHand(saved) /\ ~GoingToFallback(saved)
        /\ OwnLineRemovedByHand /\ EndTick
     \/ /\ Own \notin live /\ GoingToFallback(saved) /\ live \cap saved.foreign # {}
        /\ ~GoneByHand(saved)
        /\ Adopt("fallback") /\ pc' = "probe" /\ UNCHANGED job
     \/ /\ Own \notin live /\ GoingToFallback(saved) /\ live \cap saved.foreign = {}
        /\ ~GoneByHand(saved)
        /\ IF ownUp
           THEN \/ FinishReturn(Stamp("primary"), FALSE)
                \/ saved.removed \subseteq live /\ EndTick
           ELSE FinishForward(saved.applied \cup saved.shared, Stamp("fallback"))
        /\ UNCHANGED <<file, saved, st, idle>>
  /\ UNCHANGED <<live, world, ready>>

-----------------------------------------------------------------------------
(* The probe and the machine.                                              *)

Least(a, b) == IF a < b THEN a ELSE b

\* An answer that comes in between does not break the streak.
ObserveTotal(s, ok) ==
  [s EXCEPT !.fails = IF ok THEN @ ELSE @ + 1,
            !.oks = IF ok THEN @ + 1 ELSE @]

\* The streaks matter up to their thresholds.
Observe(s, ok) ==
  [s EXCEPT !.fails = IF ok THEN 0 ELSE Least(@ + 1, FailThreshold),
            !.oks = IF ok THEN Least(@ + 1, OKThreshold) ELSE 0]

\* The switch waits for more failures than the streak counts.
DecideLate(s, ok) ==
  LET o == Observe(s, ok)
  IN  IF (s.mode = "primary") = ok \/ s.recent THEN "none"
      ELSE IF s.mode = "primary" /\ o.fails > FailThreshold THEN "to_fallback"
      ELSE IF s.mode = "fallback" /\ o.oks >= OKThreshold THEN "to_primary"
      ELSE "none"

Decide(s, ok) ==
  LET o == Observe(s, ok)
  IN  IF (s.mode = "primary") = ok \/ s.recent THEN "none"
      ELSE IF s.mode = "primary" /\ o.fails >= FailThreshold THEN "to_fallback"
      ELSE IF s.mode = "fallback" /\ o.oks >= OKThreshold THEN "to_primary"
      ELSE "none"

\* The cleanup waits while the own resolver of a primary fails.
CleanupDue ==
  /\ ~idle /\ saved.pending = "" /\ saved.left \cup saved.missing # {}
  /\ ~(saved.mode = "primary" /\ ~ownUp)

Probe ==
  /\ pc = "probe"
  /\ LET d == Decide(st, ownUp)
     IN  /\ st' = IF d = "none" THEN Observe(st, ownUp) ELSE st
         /\ pc' = CASE d = "to_fallback" -> "forward"
                    [] d = "to_primary" -> "return"
                    [] OTHER -> IF CleanupDue THEN "clean" ELSE "rest"
  /\ UNCHANGED <<live, world, file, saved, ready, idle, job, hand, troubles>>

-----------------------------------------------------------------------------
(* Forward: the set goes in first, the own line comes out last.            *)

\* The set as the router can take it: lines over its limit are cut from the
\* tail, the foreign ones stand first.
Trims(set) ==
  LET new == set \ live
      room == Least(Cardinality(new), Max({0, DoTLimit - Cardinality(live \ {Own})}))
  IN  {(set \cap live) \cup fit : fit \in
        {f \in SUBSET new : /\ Cardinality(f) = room
                            /\ f \cap Zoned # {} => new \cap Foreign \subseteq f}}

\* The foreign candidates that answer, at most MaxForeign, and the zoned lines
\* whose carriers answer.
FallbackSets ==
  {f \cup z : f \in {x \in SUBSET alive : Cardinality(x) = Least(MaxForeign, Cardinality(alive))},
              z \in SUBSET Zoned}

\* Lines an earlier switch left behind pass for the owner's.
ForwardForgetsLeft(set) ==
  [mode |-> "primary", recent |-> st.recent, pending |-> "forward",
   removed |-> {Own}, applied |-> set \ live,
   shared |-> WithIds(live, Ids(set \ live)) \ {Own},
   foreign |-> set \cap Foreign, left |-> {}, missing |-> {}]

\* The record that is written ahead of the commands: lines an earlier switch
\* left behind are the watchdog's own, lines it still owes stay owed, and a
\* line of the owner's that a removal by identifier would take along is
\* remembered.
Forward(set) ==
  LET ours == {l \in saved.left \cap live : IdOf[l] # IdOf[Own]}
      applied == (set \ live) \cup ours
  IN [mode |-> "primary", recent |-> st.recent, pending |-> "forward",
      removed |-> {Own} \cup (saved.missing \cap {Own}),
      applied |-> applied,
      shared |-> (WithIds(live, Ids(applied)) \ (ours \cup {Own}))
                 \cup (saved.shared \cap live) \cup (saved.missing \ {Own}),
      foreign |-> set \cap Foreign, left |-> {}, missing |-> {}]

ToFallback ==
  /\ pc = "forward"
  /\ \/ /\ ReadFails /\ st' = Observe(st, FALSE) /\ EndTick
        /\ UNCHANGED <<file, saved, idle>>
     \/ /\ Read /\ Own \notin live
        /\ GoIdle(st.recent) /\ EndTick /\ UNCHANGED <<file, saved>>
     \/ /\ Read /\ Own \in live /\ alive = {}
        /\ st' = Observe(st, FALSE) /\ EndTick /\ UNCHANGED <<file, saved, idle>>
     \/ /\ Read /\ Own \in live /\ alive # {}
        /\ \E set \in UNION {Trims(s) : s \in FallbackSets} :
             /\ Save(Forward(set))
             /\ job' = [NoJob EXCEPT !.todo = set \ live, !.want = set]
        /\ pc' = "addSet" /\ UNCHANGED <<st, idle>>
  /\ UNCHANGED <<live, world, ready>>

AddSet ==
  /\ pc = "addSet" /\ Add(job.todo)
  /\ pc' = "checkSet"
  /\ UNCHANGED <<world, file, memory, job>>

\* The own line goes whatever the router shows.
CheckSetSkipped ==
  /\ pc = "checkSet"
  /\ Read /\ FinishForward(job.want, TRUE)
  /\ UNCHANGED <<live, world, file, memory>>

\* Only a foreign line that is really there lets the own line go.
CheckSet ==
  /\ pc = "checkSet"
  /\ \/ /\ ReadFails /\ pc' = "rollback" /\ UNCHANGED job
     \/ /\ Read /\ live \cap saved.foreign = {} /\ pc' = "rollback" /\ UNCHANGED job
     \/ /\ Read /\ live \cap saved.foreign # {} /\ FinishForward(job.want, TRUE)
  /\ UNCHANGED <<live, world, file, memory>>

CutOwn ==
  /\ pc = "cutOwn" /\ Remove({Own})
  /\ pc' = "settle"
  /\ UNCHANGED <<world, file, memory, job>>

\* No foreign line took hold: what was added comes out again.
RollbackForward ==
  /\ pc = "rollback"
  /\ \/ ReadFails /\ job' = [NoJob EXCEPT !.cut = saved.applied]
     \/ Read /\ job' = [NoJob EXCEPT !.cut = saved.applied \cap live]
  /\ pc' = "cutBack"
  /\ UNCHANGED <<live, world, file, memory>>

CutBack ==
  /\ pc = "cutBack" /\ Remove(job.cut)
  /\ job' = [job EXCEPT !.kind = "rollback", !.gone = Ids(saved.applied),
                        !.want = {Own} \cup saved.shared, !.recent = TRUE]
  /\ pc' = "settle"
  /\ UNCHANGED <<world, file, memory>>

-----------------------------------------------------------------------------
(* Return: the own line goes back first, the set comes out last.           *)

ToPrimary ==
  /\ pc = "return"
  /\ \/ /\ ReadFails /\ st' = Observe(st, TRUE) /\ EndTick /\ UNCHANGED <<file, saved>>
     \/ /\ Read /\ Save([saved EXCEPT !.pending = "return"])
        /\ \/ FinishReturn(TRUE, TRUE) /\ UNCHANGED st
           \/ /\ Own \notin live /\ saved.removed \subseteq live
              /\ EndTick /\ st' = Observe(st, TRUE)
  /\ UNCHANGED <<live, world, ready, idle>>

PutOwn ==
  /\ pc = "putOwn" /\ Add(job.todo)
  /\ pc' = "checkOwn"
  /\ UNCHANGED <<world, file, memory, job>>

\* Without an own line on the router nothing else is touched.  The machine's
\* return keeps its streak; the one that reconciles a router has none.
CheckOwn ==
  /\ pc = "checkOwn"
  /\ \/ /\ Read /\ Own \in live
        /\ job' = [job EXCEPT !.todo = {}, !.cut = live \cap saved.applied]
        /\ pc' = "cutSet" /\ UNCHANGED <<file, memory>>
     \/ /\ \/ ReadFails /\ Save([saved EXCEPT !.pending = "return"])
           \/ /\ Read /\ Own \notin live
              /\ Save([saved EXCEPT !.pending =
                         IF Proves("fallback", saved) THEN "" ELSE "return"])
        /\ st' = IF job.streak THEN Observe(st, TRUE) ELSE st
        /\ EndTick /\ UNCHANGED <<ready, idle>>
  /\ UNCHANGED <<live, world>>

CutSet ==
  /\ pc = "cutSet" /\ Remove(job.cut)
  /\ pc' = "settle"
  /\ UNCHANGED <<world, file, memory, job>>

-----------------------------------------------------------------------------
(* Cleanup, and the settling that ends every switch.                       *)

CleanupStep ==
  /\ pc = "clean" /\ Read
  /\ \/ /\ Proves(saved.mode, saved)
        /\ job' = [NoJob EXCEPT !.kind = "cleanup",
                     !.gone = TargetGone(saved.mode, saved),
                     !.want = TargetWant(saved.mode, saved)]
        /\ pc' = "settle" /\ UNCHANGED <<file, saved, st, idle>>
     \/ /\ ~Proves(saved.mode, saved) /\ saved.mode = "primary"
        /\ OwnLineRemovedByHand /\ EndTick
     \/ /\ ~Proves(saved.mode, saved) /\ saved.mode = "fallback"
        /\ Save([saved EXCEPT !.pending = "forward"]) /\ EndTick
        /\ UNCHANGED <<st, idle>>
  /\ UNCHANGED <<live, world, ready>>

\* The end of a switch: seen says whether the last reading worked.
Settled(seen, left, missing) ==
  LET rest == IF ~seen /\ left = {} THEN job.cut ELSE left
      rec(mode, pending) == [saved EXCEPT !.mode = mode, !.recent = job.recent,
        !.pending = pending, !.left = rest, !.missing = missing]
  IN
  /\ EndTick
  /\ CASE job.kind = "forward" ->
            /\ st' = Machine("fallback", job.recent)
            /\ Save(rec("fallback", IF seen /\ live' \cap {Own} = {}
                                       /\ live' \cap saved.foreign # {}
                                    THEN "" ELSE "forward"))
       [] job.kind = "return" ->
            /\ st' = Machine("primary", job.recent)
            /\ Save(DropIfClean(rec("primary", "")))
       [] job.kind = "rollback" ->
            /\ st' = [Observe(st, FALSE) EXCEPT !.recent = TRUE]
            /\ Save(DropIfClean(rec("primary", IF seen /\ Own \in live' THEN "" ELSE "return")))
       [] job.kind = "cleanup" ->
            /\ UNCHANGED st
            /\ IF seen
               THEN Save(DropIfClean([saved EXCEPT !.left = left, !.missing = missing]))
               ELSE UNCHANGED <<file, saved>>

LeftNow(lines) == WithIds(lines, job.gone) \ job.want
MissingNow(lines) == job.want \ lines

\* What a reading of the settling leads to: one more removal, one more
\* addition, or the end.
Onward(budget) ==
  LET left == LeftNow(live')
      missing == MissingNow(live')
  IN  IF (left # {} /\ budget > 0) \/ missing # {}
      THEN /\ pc' = IF left # {} /\ budget > 0 THEN "cutLeft" ELSE "fill"
           /\ job' = [job EXCEPT !.left = left, !.missing = missing, !.budget = budget]
           /\ UNCHANGED <<file, saved, st>>
      ELSE Settled(TRUE, left, missing)

Settle ==
  /\ pc = "settle" /\ UNCHANGED live
  /\ \/ ReadFails /\ Settled(FALSE, {}, {})
     \/ Read /\ Onward(Cardinality(LeftNow(live)))
  /\ UNCHANGED <<world, ready, idle>>

\* A command and the reading after it; either may fail.
AndRead(results, all, next) ==
  \/ live' = all /\ Read /\ next
  \/ live' \in results \ {all} /\ Trouble /\ UNCHANGED hand /\ next
  \/ live' \in results \cup {all} /\ ReadFails /\ Settled(FALSE, job.left, job.missing)

CutLeft ==
  /\ pc = "cutLeft"
  /\ \E l \in job.left :
       AndRead(Removed({l}), live \ WithIds(live, {IdOf[l]}), Onward(job.budget - 1))
  /\ UNCHANGED <<world, ready, idle>>

Fill ==
  /\ pc = "fill"
  /\ AndRead(Added(job.missing), live \cup job.missing,
             Settled(TRUE, LeftNow(live'), MissingNow(live')))
  /\ UNCHANGED <<world, ready, idle>>

-----------------------------------------------------------------------------
(* The world.                                                              *)

\* What a death in the middle of a batch leaves on the router.
Halfway ==
  CASE pc \in {"addSet", "putOwn"} -> Added(job.todo)
    [] pc = "fill" -> Added(job.missing)
    [] pc = "cutOwn" -> Removed({Own})
    [] pc \in {"cutSet", "cutBack"} -> Removed(job.cut)
    [] pc = "cutLeft" -> Removed(job.left)
    [] OTHER -> {live}

Dies ==
  /\ pc' = "down" /\ job' = NoJob
  /\ saved' = Blank(FALSE) /\ st' = Machine("primary", FALSE)
  /\ ready' = FALSE /\ idle' = FALSE
  /\ Trouble

Crash ==
  /\ pc # "down" /\ live' \in Halfway /\ Dies
  /\ UNCHANGED <<world, file, hand>>

\* The running configuration is not saved: a reboot brings the saved one back.
Reboot ==
  /\ live' = Boot /\ Dies /\ hand' = FALSE
  /\ UNCHANGED <<world, file>>

AgentStarts ==
  /\ pc = "down" /\ pc' = "rest"
  /\ UNCHANGED <<live, world, file, memory, job, hand, troubles>>

Edit ==
  /\ HandEdits /\ Trouble
  /\ \E l \in Lines : live' \in {live \cup {l}, live \ {l}} \ {live}
  /\ hand' = TRUE /\ edited' = TRUE
  /\ UNCHANGED <<ownUp, alive, file, memory, pc, job>>

OwnResolver ==
  /\ ownUp' = ~ownUp /\ Trouble
  /\ UNCHANGED <<live, alive, edited, file, memory, pc, job, hand>>

\* The last switch is no longer recent, in memory and in the file.
CooldownOver ==
  /\ st.recent \/ saved.recent \/ file.recent
  /\ st' = [st EXCEPT !.recent = FALSE]
  /\ saved' = [saved EXCEPT !.recent = FALSE]
  /\ file' = [file EXCEPT !.recent = FALSE]
  /\ UNCHANGED <<live, world, ready, idle, pc, job, hand, troubles>>

Watch ==
  \/ Tick \/ InitWatch \/ Unread \/ RecheckIdle \/ Reconcile \/ Probe
  \/ ToFallback \/ AddSet \/ CheckSet \/ CutOwn \/ RollbackForward \/ CutBack
  \/ ToPrimary \/ PutOwn \/ CheckOwn \/ CutSet
  \/ CleanupStep \/ Settle \/ CutLeft \/ Fill

Next ==
  \/ Watch \/ Crash \/ Reboot \/ AgentStarts \/ Edit \/ OwnResolver \/ CooldownOver

Spec == Init /\ [][Next]_vars

FairSpec ==
  Spec /\ WF_vars(Watch) /\ WF_vars(AgentStarts) /\ WF_vars(CooldownOver)

-----------------------------------------------------------------------------
(* Properties.                                                             *)

Records == [mode : {"primary", "fallback"}, recent : BOOLEAN,
  pending : {"", "forward", "return", "mixed"},
  removed : SUBSET {Own}, applied : SUBSET Lines, shared : SUBSET Lines,
  foreign : SUBSET Foreign, left : SUBSET Lines, missing : SUBSET Lines]

Stages == {"down", "rest", "reconcile", "idle", "probe", "forward", "addSet",
  "checkSet", "cutOwn", "rollback", "cutBack", "return", "putOwn", "checkOwn",
  "cutSet", "clean", "settle", "cutLeft", "fill"}

Jobs == [kind : {"", "forward", "return", "rollback", "cleanup"},
  todo : SUBSET Lines, gone : SUBSET Ids(Lines), want : SUBSET Lines,
  cut : SUBSET Lines, left : SUBSET Lines, missing : SUBSET Lines,
  budget : Int, recent : BOOLEAN, streak : BOOLEAN]

\* Every variable keeps its type.
DnsTypeOK ==
  /\ live \subseteq Lines /\ ownUp \in BOOLEAN /\ alive \subseteq Foreign
  /\ file \in Records /\ saved \in Records
  /\ st \in [mode : {"primary", "fallback"}, fails : 0 .. FailThreshold,
             oks : 0 .. OKThreshold, recent : BOOLEAN]
  /\ ready \in BOOLEAN /\ idle \in BOOLEAN
  /\ pc \in Stages /\ job \in Jobs
  /\ hand \in BOOLEAN /\ edited \in BOOLEAN
  /\ troubles \in 0 .. MaxTroubles

\* A router some line of which serves every zone: the own or a foreign one.
Served(lines) == lines \cap ({Own} \cup Foreign) # {}

\* The watchdog never takes the last resolver that serves every zone off the
\* router: the set goes in before the own line comes out and back again in the
\* same order (watch.go:618-627, 708-741).  People who edit the lines in the
\* middle of a tick may defeat it.
NeverBare ==
  [][Watch /\ ~hand /\ Served(live) => Served(live')]_vars

\* On a router nobody edits, the state file tells at every moment, a crash
\* inside a switch included, that the own line is to be put back and which
\* lines are to be taken out (watch.go:606-617).
RecordTellsWayBack ==
  ~edited =>
    /\ Own \in live \/ Own \in file.removed
    /\ live \ Boot \subseteq file.applied \cup file.left

\* And which of the owner's lines a removal by identifier took along: "A
\* pre-existing line that shares an identifier with a line the watchdog owns
\* ... would be wiped by the identifier-only removal on the way back: remember
\* it" (watch.go:577-579).  The code forgets one (README).
SharedLineRemembered ==
  ~edited => Boot \ live \subseteq file.removed \cup file.shared \cup file.missing

\* Between the ticks a mode that is not pending is the one the router is in.
ModeProven ==
  pc = "rest" /\ ready /\ ~idle /\ saved.pending = "" /\ ~edited =>
    /\ st.mode = saved.mode
    /\ (saved.mode = "primary") <=> (Own \in live)
    /\ saved.mode = "fallback" => live \cap Foreign # {}

\* The watchdog stops guarding only a router whose lines somebody has edited:
\* no crash, reboot or refused command makes it give its record up.
GivesUpOnlyToPeople == idle => edited

\* When the own resolver answers for good and people keep their hands off, the
\* own line returns and every line the watchdog added goes, and it stays so.
ComesHome ==
  <>[]ownUp /\ []~edited => <>[](Own \in live /\ live \subseteq Boot)

\* When it is down for good and a candidate answers, the router ends on a
\* fallback line, without the own one.
Escapes ==
  <>[]~ownUp /\ []~edited /\ alive # {} /\ DoTLimit > Cardinality(Kept)
    => <>[](Own \notin live /\ live \cap Foreign # {})

=============================================================================
