--------------------------- MODULE PendingDeploy ---------------------------
(***************************************************************************)
(* The pending update of one router, from the operator's wish to a         *)
(* verdict: the row of users (pending_version, pending_attempts), the      *)
(* self_update commands sent for it, and the five programs that touch both *)
(* without a common lock: the operator's deploy and cancel, the poll, the  *)
(* report, the command result, and the restart of the backend.             *)
(*                                                                         *)
(* Each database statement and each call of the queue is a step of its     *)
(* own.  The queue is reduced to what these programs see of it: a command  *)
(* waits, is issued, or is answered, and is active until its time to live  *)
(* or its early release ends (Lapse); CmdQueue has the details.  A request *)
(* is served in less than a command's time to live (30 minutes).           *)
(*                                                                         *)
(* Handlers: at most one poll (a poll that has written its response and is *)
(* still to count it is past that limit), report, result and operator at a *)
(* time, and MaxHandlers of them together.                                 *)
(***************************************************************************)
EXTENDS Integers, FiniteSets, FiniteSetsExt

CONSTANTS
  MaxVersion,  \* versions are 1 .. MaxVersion; the router starts with 1
  MaxAttempts, \* pendingDeployMaxAttempts
  MaxIds,      \* bound: commands that something remembers at once
  MaxHandlers, \* bound: requests served at once
  MaxEvents    \* bound: what people and the world do: deploys, cancels, broken
               \* polls, refused writes, busy answers, ageing, restarts

ASSUME DeployConstants ==
  /\ {MaxVersion, MaxAttempts, MaxIds, MaxHandlers} \subseteq Nat \ {0}
  /\ MaxEvents \in Nat

VARIABLES
  row,      \* pending_version (0: NULL), pending_attempts, and whether
            \* pending_since is more than 90 days ago
  deployed, \* last_deployed_version
  cmds,     \* the self_update commands
  poll,     \* the handler of the router's poll
  counting, \* commands whose dispatch a poll handler is still to count
  rep,      \* the handler of the router's report
  res,      \* the handler of a command's result
  op,       \* the handler of the operator's deploy or cancel
  inst,     \* the version the router runs
  job,      \* the command in the router's hands, or NoCmd
  result,   \* the outcome the router is to post, or "none"
  swap,     \* the version whose swap script is about to run, or None
  bak,      \* the version that script will yet go back to, or None
  shots,    \* history: dispatches of each version, up to MaxAttempts
  budget    \* events left

vars == <<row, deployed, cmds, poll, counting, rep, res, op, inst, job, result,
          swap, bak, shots, budget>>
handlers == <<poll, rep, res, op>>
swapping == <<swap, bak>>
agent == <<inst, job, result, swap, bak>>

Versions == 1 .. MaxVersion
Ids == 1 .. MaxIds
NoCmd == 0
None == 0

Init ==
  /\ row = [pend |-> None, attempts |-> 0, old |-> FALSE]
  /\ deployed = 1
  /\ cmds = [id \in Ids |-> [st |-> "gone", target |-> 1, out |-> "none"]]
  /\ poll = [pc |-> "idle", v |-> None, id |-> NoCmd, got |-> FALSE, saw |-> FALSE]
  /\ counting = {}
  /\ rep = [pc |-> "idle", v |-> None, seen |-> None, saw |-> FALSE]
  /\ res = [pc |-> "idle", id |-> NoCmd, out |-> "none", saw |-> FALSE]
  /\ op = [pc |-> "idle", target |-> None, seen |-> None, saw |-> FALSE]
  /\ inst = 1 /\ job = NoCmd /\ result = "none" /\ swap = None /\ bak = None
  /\ shots = [v \in Versions |-> 0]
  /\ budget = MaxEvents

\* One more request can be served.
Busy == {h \in DOMAIN handlers : handlers[h].pc # "idle"}
CanServe == Cardinality(Busy) + Cardinality(counting) < MaxHandlers

Event == budget > 0 /\ budget' = budget - 1

-----------------------------------------------------------------------------
(* The queue, as these programs see it.                                    *)

Waiting == {id \in Ids : cmds[id].st = "waiting"}

HasActive == \E id \in Ids : cmds[id].st \in {"waiting", "issued", "answered"}

Blank == [st |-> "gone", target |-> 1, out |-> "none"]

\* Somebody other than the queue still refers to the command.
Held(id) == id \in counting \cup {job, res.id, poll.id}

Gone(id) == IF Held(id) THEN [cmds[id] EXCEPT !.st = "gone"] ELSE Blank

\* Identifiers a new command may have.
Free == {id \in Ids : cmds[id].st = "gone" /\ ~Held(id)}

Dropped == [id \in Ids |-> IF cmds[id].st = "waiting" THEN Gone(id) ELSE cmds[id]]

\* A new command takes the place of those that wait.
Queued(v) == [Dropped EXCEPT ![Min(Free)] =
                [st |-> "waiting", target |-> v, out |-> "none"]]

Enqueue(v) == Free # {} /\ cmds' = Queued(v)

EnqueueIfNoActive(v) == IF HasActive THEN UNCHANGED cmds ELSE Enqueue(v)

-----------------------------------------------------------------------------
(* Statements on the row.                                                  *)

ClearIfMatches(v) ==
  row' = IF row.pend = v THEN [row EXCEPT !.pend = None, !.old = FALSE] ELSE row

\* ClearPendingDeploy is two statements: the mark, then the attempts.
ClearMark == row' = [row EXCEPT !.pend = None, !.old = FALSE]
ResetAttempts == row' = [row EXCEPT !.attempts = 0]

\* The mark is cleared whatever version it names.
GiveUpUnconditionally(v) == ClearMark

\* People are told only by the handler that cleared the mark.
GiveUp(v) == ClearIfMatches(v)

Exhausted == row.attempts >= MaxAttempts

\* ensurePendingDeployQueued: what its reading of the row leads to.
Ensure(otherwise) == CASE row.pend = None -> otherwise
                       [] row.pend # None /\ row.old -> "expire"
                       [] row.pend # None /\ ~row.old /\ Exhausted -> otherwise
                       [] OTHER -> "queue"

-----------------------------------------------------------------------------
(* The operator.                                                           *)

\* agentDeployCore looks at the user it was given: no downgrade, and only a
\* newer version supersedes a pending one.  An operator who has confirmed a
\* downgrade (AllowDowngrade) is not here.
OpDeploy(v) ==
  /\ op.pc = "idle" /\ CanServe /\ Event
  /\ v >= deployed
  /\ row.pend < v
  /\ op' = [pc |-> IF row.pend = None THEN "mark" ELSE "clear",
            target |-> v, seen |-> row.pend, saw |-> FALSE]
  /\ UNCHANGED <<row, deployed, cmds, poll, counting, rep, res, agent, shots>>

OpStep(next) == op' = [op EXCEPT !.pc = next]

OpDone == op' = [pc |-> "idle", target |-> None, seen |-> None, saw |-> FALSE]

\* Another change of the mark wins the race.
OpClear ==
  /\ op.pc = "clear"
  /\ ClearIfMatches(op.seen)
  /\ IF row.pend = op.seen THEN OpStep("drop") ELSE OpDone
  /\ UNCHANGED <<deployed, cmds, poll, counting, rep, res, agent, shots, budget>>

OpDrop ==
  /\ op.pc \in {"drop", "cancel"}
  /\ cmds' = Dropped
  /\ OpStep(IF op.pc = "drop" THEN "mark" ELSE "unmark")
  /\ UNCHANGED <<row, deployed, poll, counting, rep, res, agent, shots, budget>>

OpMark ==
  /\ op.pc = "mark"
  /\ IF row.pend = None
     THEN /\ row' = [pend |-> op.target, attempts |-> 0, old |-> FALSE]
          /\ OpStep("enqueue")
     ELSE OpDone /\ UNCHANGED row
  /\ UNCHANGED <<deployed, cmds, poll, counting, rep, res, agent, shots, budget>>

OpEnqueue ==
  /\ op.pc = "enqueue"
  /\ Enqueue(op.target)
  /\ OpDone
  /\ UNCHANGED <<row, deployed, poll, counting, rep, res, agent, shots, budget>>

\* The journal cannot be bound: the mark is taken back.
OpRollback ==
  /\ op.pc = "enqueue"
  /\ Event
  /\ ClearIfMatches(op.target)
  /\ OpDone
  /\ UNCHANGED <<deployed, cmds, poll, counting, rep, res, agent, shots>>

OpCancel ==
  /\ op.pc = "idle" /\ CanServe /\ Event
  /\ OpStep("cancel")
  /\ UNCHANGED <<row, deployed, cmds, poll, counting, rep, res, agent, shots>>

OpUnmark ==
  /\ op.pc \in {"unmark", "reset"}
  /\ IF op.pc = "unmark" THEN ClearMark /\ OpStep("reset") ELSE ResetAttempts /\ OpDone
  /\ UNCHANGED <<deployed, cmds, poll, counting, rep, res, agent, shots, budget>>

-----------------------------------------------------------------------------
(* The poll of the router: ensure, take, write, count.                     *)

PollStep(next) == poll' = [poll EXCEPT !.pc = next]

\* The agent polls between two commands.
PollStart ==
  /\ poll.pc = "idle" /\ job = NoCmd /\ result = "none" /\ CanServe
  /\ poll' = [poll EXCEPT !.pc = Ensure("take"),
                          !.v = IF Ensure("take") = "queue" THEN row.pend ELSE None]
  /\ UNCHANGED <<row, deployed, cmds, counting, rep, res, op, agent, shots, budget>>

\* An update older than 90 days is taken off, whatever the row says by now.
PollExpire ==
  /\ poll.pc \in {"expire", "reset"}
  /\ IF poll.pc = "expire" THEN ClearMark /\ PollStep("reset")
                           ELSE ResetAttempts /\ PollStep("take")
  /\ UNCHANGED <<deployed, cmds, counting, rep, res, op, agent, shots, budget>>

PollQueue ==
  /\ poll.pc = "queue"
  /\ EnqueueIfNoActive(poll.v)
  /\ poll' = [poll EXCEPT !.pc = "take", !.v = None]
  /\ UNCHANGED <<row, deployed, counting, rep, res, op, agent, shots, budget>>

\* Dequeue: the waiting command is issued.
PollTake ==
  /\ poll.pc = "take"
  /\ \E id \in Waiting :
       /\ cmds' = [cmds EXCEPT ![id].st = "issued"]
       /\ poll' = [poll EXCEPT !.pc = "write", !.v = None, !.id = id]
  /\ UNCHANGED <<row, deployed, counting, rep, res, op, agent, shots, budget>>

PollDone == poll' = [pc |-> "idle", v |-> None, id |-> NoCmd, got |-> FALSE, saw |-> FALSE]

\* Nothing waits, the dispatch limit holds it back, or the connection has gone.
PollEmpty ==
  /\ poll.pc = "take"
  /\ PollDone
  /\ UNCHANGED <<row, deployed, cmds, counting, rep, res, op, agent, shots, budget>>

\* The agent has read the response, before or after the handler knows.
AgentGets ==
  /\ poll.pc = "write" /\ ~poll.got /\ job = NoCmd
  /\ job' = poll.id
  /\ poll' = [poll EXCEPT !.got = TRUE]
  /\ UNCHANGED <<row, deployed, cmds, counting, rep, res, op, inst, result, swapping,
                 shots, budget>>

PollWritten ==
  /\ poll.pc = "write"
  /\ counting' = counting \cup {poll.id}
  /\ shots' = [shots EXCEPT ![cmds[poll.id].target] = IF @ < MaxAttempts THEN @ + 1 ELSE @]
  /\ PollDone
  /\ UNCHANGED <<row, deployed, cmds, rep, res, op, agent, budget>>

\* ReturnUndelivered: an answered command stays, a superseded one is gone.
PollBreaks ==
  /\ poll.pc = "write"
  /\ Event
  /\ cmds' = [cmds EXCEPT ![poll.id].st =
                 IF @ # "issued" THEN @ ELSE IF Waiting # {} THEN "gone" ELSE "waiting"]
  /\ PollDone
  /\ UNCHANGED <<row, deployed, counting, rep, res, op, agent, shots>>

\* countPendingDeployAttempt counts for the version that was dispatched.
Count(id) ==
  /\ id \in counting
  /\ counting' = counting \ {id}
  /\ row' = IF row.pend = cmds[id].target THEN [row EXCEPT !.attempts = @ + 1] ELSE row
  /\ UNCHANGED <<deployed, cmds, handlers, agent, shots, budget>>

\* The database refuses; the handler only logs it.
CountFails(id) ==
  /\ id \in counting
  /\ Event
  /\ counting' = counting \ {id}
  /\ UNCHANGED <<row, deployed, cmds, handlers, agent, shots>>

-----------------------------------------------------------------------------
(* The report of the router.                                               *)

RepStep(next) == rep' = [rep EXCEPT !.pc = next]

RepDone == rep' = [pc |-> "idle", v |-> None, seen |-> None, saw |-> FALSE]

ReportSent ==
  /\ rep.pc = "idle" /\ CanServe
  /\ rep' = [rep EXCEPT !.pc = "select", !.v = inst]
  /\ UNCHANGED <<row, deployed, cmds, poll, counting, res, op, agent, shots, budget>>

\* UpdateLastSeenAgentVersionResult: SELECT, then UPDATE.
RepSelect ==
  /\ rep.pc = "select"
  /\ rep' = [rep EXCEPT !.pc = "update", !.seen = row.pend]
  /\ UNCHANGED <<row, deployed, cmds, poll, counting, res, op, agent, shots, budget>>

RepUpdate ==
  /\ rep.pc = "update"
  /\ LET confirms == row.pend = rep.v
         changes == deployed # rep.v \/ confirms
     IN /\ deployed' = rep.v
        /\ row' = CASE confirms -> [pend |-> None, attempts |-> 0, old |-> FALSE]
                     [] changes /\ row.pend = None -> [row EXCEPT !.attempts = 0]
                     [] OTHER -> row
  /\ IF rep.seen \in {None, rep.v} THEN RepDone
     ELSE rep' = [rep EXCEPT !.pc = "active", !.v = None, !.seen = None]
  /\ UNCHANGED <<cmds, poll, counting, res, op, agent, shots, budget>>

\* giveUpIfExhausted: a command in work, the row, the give-up; or the
\* command is put in anew.
RepActive ==
  /\ rep.pc = "active"
  /\ RepStep(IF HasActive THEN "ensure" ELSE "exhausted")
  /\ UNCHANGED <<row, deployed, cmds, poll, counting, res, op, agent, shots, budget>>

\* The report never gives up.
RepNeverExhausted ==
  /\ rep.pc = "exhausted"
  /\ RepStep("ensure")
  /\ UNCHANGED <<row, deployed, cmds, poll, counting, res, op, agent, shots, budget>>

RepExhausted ==
  /\ rep.pc = "exhausted"
  /\ IF row.pend # None /\ Exhausted
     THEN rep' = [rep EXCEPT !.pc = "giveup", !.seen = row.pend]
     ELSE RepStep("ensure")
  /\ UNCHANGED <<row, deployed, cmds, poll, counting, res, op, agent, shots, budget>>

RepGiveUp ==
  /\ rep.pc = "giveup"
  /\ GiveUp(rep.seen)
  /\ RepDone
  /\ UNCHANGED <<deployed, cmds, poll, counting, res, op, agent, shots, budget>>

RepEnsure ==
  /\ rep.pc = "ensure"
  /\ IF Ensure("idle") = "idle" THEN RepDone
     ELSE rep' = [rep EXCEPT !.pc = Ensure("idle"), !.seen = row.pend]
  /\ UNCHANGED <<row, deployed, cmds, poll, counting, res, op, agent, shots, budget>>

RepExpire ==
  /\ rep.pc \in {"expire", "reset"}
  /\ IF rep.pc = "expire" THEN ClearMark /\ RepStep("reset") ELSE ResetAttempts /\ RepDone
  /\ UNCHANGED <<deployed, cmds, poll, counting, res, op, agent, shots, budget>>

RepQueue ==
  /\ rep.pc = "queue"
  /\ EnqueueIfNoActive(rep.seen)
  /\ RepDone
  /\ UNCHANGED <<row, deployed, poll, counting, res, op, agent, shots, budget>>

-----------------------------------------------------------------------------
(* The router: it runs a command once, and answers it again from memory.   *)

\* self_update: refused, failed, or verified, with the swap left to a script
\* that outlives the agent; the answer does not wait for it.
AgentEnds(o) ==
  /\ job # NoCmd /\ result = "none"
  /\ cmds[job].out \in {"none", o}
  /\ o = "ok" /\ cmds[job].out = "none" => cmds[job].target >= inst
  /\ IF o = "busy" /\ cmds[job].out = "none" THEN Event ELSE UNCHANGED budget
  /\ swap' = IF o = "ok" /\ cmds[job].out = "none" THEN cmds[job].target ELSE swap
  /\ cmds' = [cmds EXCEPT ![job].out = o]
  /\ result' = o
  /\ UNCHANGED <<row, deployed, handlers, counting, inst, job, bak, shots>>

Killed == job' = NoCmd /\ result' = "none"

\* The script kills the agent and starts the new one; it gives up when the old
\* binary cannot be saved, and goes back to it when the new one does not stay.
Swap(how) ==
  /\ swap # None
  /\ IF how = "stays" THEN UNCHANGED budget ELSE Event
  /\ inst' = IF how = "refused" THEN inst ELSE swap
  /\ bak' = IF how = "goes" THEN inst ELSE None
  /\ swap' = None
  /\ Killed
  /\ UNCHANGED <<row, deployed, cmds, handlers, counting, shots>>

GoBack ==
  /\ bak # None
  /\ inst' = bak /\ bak' = None
  /\ Killed
  /\ UNCHANGED <<row, deployed, cmds, handlers, counting, swap, shots, budget>>

\* The router reboots: in mid-run, with the answer unsent, or in mid-swap.
AgentDies ==
  /\ job # NoCmd \/ swap # None \/ bak # None
  /\ Killed
  /\ swap' = None /\ bak' = None
  /\ UNCHANGED <<row, deployed, cmds, handlers, counting, inst, shots, budget>>

\* An answer that was not posted before is posted after an idle poll.
AgentReposts(id) ==
  /\ job = NoCmd /\ res.pc = "idle" /\ CanServe
  /\ cmds[id].st = "issued" /\ cmds[id].out # "none"
  /\ res' = [res EXCEPT !.pc = "record", !.id = id, !.out = cmds[id].out]
  /\ UNCHANGED <<row, deployed, cmds, poll, counting, rep, op, agent, shots, budget>>

AgentPosts ==
  /\ result # "none" /\ res.pc = "idle" /\ CanServe
  /\ res' = [res EXCEPT !.pc = "record", !.id = job, !.out = result]
  /\ Killed
  /\ UNCHANGED <<row, deployed, cmds, poll, counting, rep, op, inst, swapping, shots, budget>>

-----------------------------------------------------------------------------
(* The result of a command.                                                *)

ResDone == res' = [pc |-> "idle", id |-> NoCmd, out |-> "none", saw |-> FALSE]

\* A duplicate, or the answer to a command that is not issued, ends here.
ResRecord ==
  /\ res.pc = "record"
  /\ IF cmds[res.id].st = "issued"
     THEN /\ cmds' = [cmds EXCEPT ![res.id].st = "answered"]
          /\ IF res.out = "ok" THEN ResDone ELSE res' = [res EXCEPT !.pc = res.out]
     ELSE ResDone /\ UNCHANGED cmds
  /\ UNCHANGED <<row, deployed, poll, counting, rep, op, agent, shots, budget>>

\* The journal row cannot be closed after the answer is recorded: the router
\* posts again, as a duplicate, and the update never learns how it ended.
ResUnjournalled ==
  /\ res.pc \in {"busy", "fail"}
  /\ Event
  /\ ResDone
  /\ UNCHANGED <<row, deployed, cmds, poll, counting, rep, op, agent, shots>>

\* The attempt is taken back without a floor.
TakeBackAny(n) == n - 1

TakeBack(n) == IF n > 0 THEN n - 1 ELSE 0

\* recordPendingDeployBusy takes the attempt back, not below zero.
ResBusy ==
  /\ res.pc = "busy"
  /\ IF row.pend = cmds[res.id].target
     THEN row' = [row EXCEPT !.attempts = TakeBack(@)]
     ELSE UNCHANGED row
  /\ ResDone
  /\ UNCHANGED <<deployed, cmds, poll, counting, rep, op, agent, shots, budget>>

\* recordPendingDeployFailure: the last attempt gives up.
ResFail ==
  /\ res.pc = "fail"
  /\ IF row.pend = cmds[res.id].target /\ Exhausted
     THEN res' = [res EXCEPT !.pc = "giveup"]
     ELSE ResDone
  /\ UNCHANGED <<row, deployed, cmds, poll, counting, rep, op, agent, shots, budget>>

ResGiveUp ==
  /\ res.pc = "giveup"
  /\ GiveUp(cmds[res.id].target)
  /\ ResDone
  /\ UNCHANGED <<deployed, cmds, poll, counting, rep, op, agent, shots, budget>>

-----------------------------------------------------------------------------
(* Time and restarts.                                                      *)

\* Lapses are far apart: a request that has seen one is over before the next.
Seen(h) == [h EXCEPT !.saw = h.pc # "idle"]

\* A command's time is up: in the queue between two polls, or issued and no
\* longer in anybody's hands.
Lapse(id) ==
  /\ cmds[id].st \in {"waiting", "issued", "answered"}
  /\ cmds[id].st = "waiting" => poll.pc = "idle"
  /\ cmds[id].st # "waiting" => ~Held(id)
  /\ ~(poll.saw \/ rep.saw \/ res.saw \/ op.saw)
  /\ cmds' = [cmds EXCEPT ![id] = Gone(id)]
  /\ poll' = Seen(poll) /\ rep' = Seen(rep) /\ res' = Seen(res) /\ op' = Seen(op)
  /\ UNCHANGED <<row, deployed, counting, agent, shots, budget>>

\* 90 days go by.
RowAges ==
  /\ row.pend # None /\ ~row.old
  /\ Event
  /\ row' = [row EXCEPT !.old = TRUE]
  /\ UNCHANGED <<deployed, cmds, handlers, counting, agent, shots>>

\* Queue and handlers are gone; before the first request is served,
\* ResumePendingDeploys puts the pending update in again.
Restart ==
  /\ Event
  /\ counting' = {} /\ PollDone /\ RepDone /\ ResDone /\ OpDone
  /\ LET empty == [id \in Ids |-> IF id = job THEN [cmds[id] EXCEPT !.st = "gone"]
                                  ELSE Blank] IN
     IF row.pend # None /\ ~row.old /\ ~Exhausted
     THEN cmds' = [empty EXCEPT ![Min(Ids \ {job})] =
                     [st |-> "waiting", target |-> row.pend, out |-> "none"]]
     ELSE cmds' = empty
  /\ row' = IF row.old THEN [pend |-> None, attempts |-> 0, old |-> FALSE] ELSE row
  /\ UNCHANGED <<deployed, agent, shots>>

-----------------------------------------------------------------------------

Operator == \/ \E v \in Versions : OpDeploy(v)
            \/ OpClear \/ OpDrop \/ OpMark \/ OpEnqueue \/ OpRollback
            \/ OpCancel \/ OpUnmark

PollRun == PollStart \/ PollExpire \/ PollQueue \/ PollTake \/ PollEmpty \/ PollWritten

RepRun == \/ ReportSent \/ RepSelect \/ RepUpdate \/ RepActive \/ RepExhausted
          \/ RepGiveUp \/ RepEnsure \/ RepExpire \/ RepQueue

ResRun == ResRecord \/ ResBusy \/ ResFail \/ ResGiveUp

AgentRun == AgentPosts \/ Swap("stays") \/ \E o \in {"ok", "fail", "busy"} : AgentEnds(o)

Next == \/ Operator \/ PollRun \/ RepRun \/ ResRun \/ AgentRun
        \/ AgentGets \/ PollBreaks \/ ResUnjournalled \/ RowAges \/ Restart
        \/ AgentDies \/ GoBack \/ \E how \in {"goes", "refused"} : Swap(how)
        \/ \E id \in Ids : AgentReposts(id) \/ Count(id) \/ CountFails(id) \/ Lapse(id)

Spec == Init /\ [][Next]_vars

\* Requests that have come are served; the agent's loop polls, its reporter
\* reports, a run ends, its result is posted, each whenever the server has room
\* for it again and again (the bound MaxHandlers is the model's, not the
\* server's); time passes.  The slots of the dispatch limit free themselves after
\* selfUpdateDispatchWindow.  What people do, and faults, may never happen.
FairSpec ==
  /\ Spec
  /\ WF_vars(OpClear \/ OpDrop \/ OpMark \/ OpEnqueue \/ OpUnmark)
  /\ SF_vars(PollStart) /\ SF_vars(PollTake) /\ SF_vars(ReportSent) /\ SF_vars(AgentPosts)
  /\ WF_vars(PollRun) /\ WF_vars(RepRun) /\ WF_vars(ResRun) /\ WF_vars(AgentRun)
  /\ WF_vars(\E id \in Ids : Count(id)) /\ WF_vars(\E id \in Ids : Lapse(id))

-----------------------------------------------------------------------------

\* Values the parts of a pending update can take.
DeployTypeOK ==
  /\ row \in [pend : Versions \cup {None}, attempts : Nat, old : BOOLEAN]
  /\ deployed \in Versions
  /\ cmds \in [Ids -> [st : {"gone", "waiting", "issued", "answered"},
                       target : Versions, out : {"none", "ok", "fail", "busy"}]]
  /\ poll \in [pc : {"idle", "expire", "reset", "queue", "take", "write"},
              v : Versions \cup {None}, id : Ids \cup {NoCmd},
              got : BOOLEAN, saw : BOOLEAN]
  /\ counting \subseteq Ids
  /\ rep \in [pc : {"idle", "select", "update", "active", "exhausted", "giveup",
                    "ensure", "expire", "reset", "queue"},
             v : Versions \cup {None}, seen : Versions \cup {None}, saw : BOOLEAN]
  /\ res \in [pc : {"idle", "record", "fail", "busy", "giveup"},
             id : Ids \cup {NoCmd}, out : {"none", "ok", "fail", "busy"}, saw : BOOLEAN]
  /\ op \in [pc : {"idle", "clear", "drop", "mark", "enqueue", "cancel", "unmark", "reset"},
            target : Versions \cup {None}, seen : Versions \cup {None}, saw : BOOLEAN]
  /\ inst \in Versions /\ {swap, bak} \subseteq Versions \cup {None} /\ job \in Ids \cup {NoCmd}
  /\ result \in {"none", "ok", "fail", "busy"}
  /\ shots \in [Versions -> 0 .. MaxAttempts]

\* The step that gives the pending update up, after which people are told that
\* it does not install: of a report, or of a result.
ReportGivesUp == /\ rep.pc = "giveup" /\ rep'.pc = "idle" /\ budget' = budget
                 /\ row.pend # None /\ row'.pend = None
ResultGivesUp == /\ res.pc = "giveup" /\ res'.pc = "idle" /\ budget' = budget
                 /\ row.pend # None /\ row'.pend = None

\* People are told that an update does not install only after it was sent out
\* as often as pendingDeployMaxAttempts says, whatever answers, reports and
\* counts of earlier updates arrive late.
GiveUpEarned == [][ReportGivesUp \/ ResultGivesUp => shots[row.pend] >= MaxAttempts]_vars

\* The router is at work on the pending update.
AtWork == \/ job # NoCmd /\ cmds[job].out = "none" /\ cmds[job].target = row.pend
          \/ swap # None /\ swap = row.pend

\* And never while the router works on it, as giveUpIfExhausted promises: "to
\* give up is too early, the swap may succeed, and people would have got a
\* false 'does not install' with no 'updated' after it".
NoFalseAlarm == [][ReportGivesUp => ~AtWork]_vars

\* A pending update gets a verdict, or is taken off: it is not pending for
\* ever, although the router may never answer.
PendingResolves ==
  \A v \in Versions : row.pend = v ~> row.pend # v
=============================================================================
