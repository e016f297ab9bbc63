# wg-monitor: TLA+ models of its commands, alerts, rollouts and router switches

wg-monitor watches and services a fleet of routers. A *backend* (Go, SQLite,
Telegram bot, mini-app) holds the wishes of people; an *agent* on every router
reports its checks each minute and polls the backend for commands. There is no
connection from the backend to a router: everything it wants done travels as the
answer to a poll, and everything it learns arrives as a POST. The hard behaviour
of the program is in that channel: what happens to a command, its answer and its
journal row when polls break off, answers are lost or doubled, handlers run
concurrently, and either side restarts. The other hard part is what people hear: a
report moves the state of a check in the database, and cards, recoveries and
reminders about it go out in the background over a messenger that hangs, refuses,
or does not say whether it took a message. And some parts change a router or the
whole fleet by themselves, in steps any of which may be the last: the agent's DNS
watchdog swaps resolvers, the backend moves traffic between tunnels, a rollout
takes a new agent version over the fleet.

## Inventory

| component | state | operations | talks to |
|---|---|---|---|
| command queue `internal/backend/cmd/queue.go` | in memory, under one mutex: `pending`, `issued`, `results`, a condition variable | Enqueue, EnqueueIfNoActive, DropPending, Dequeue, ReturnUndelivered, RecordResult, ReleaseActive, HasActiveCommand, AwaitResult, Sweep | all handlers call it |
| command endpoints `handler.go`, `miniapp_commands.go` | none | poll, result, operator's command, view of a result | queue, journal, pending update |
| agent loop `internal/agent/cmdloop/loop.go` | result cache, saved to a file | poll, run, remember, post, re-post | endpoints |
| operation journal `operation_journal.go`, `db/operation_journal.go` | table `operations` | Begin, AttachCommand, FinishByCommand | endpoints |
| pending agent update `agent_deploy_core.go`, `deploy_*.go`, `db/users.go` | `pending_version`, `pending_attempts`, `pending_since`, `last_deployed_version` | deploy, cancel, resend on contact, count, busy, fail, give up, expire, confirm, resume | queue, poll, report, result, people |
| `self_update` action `actions/self_update.go` | the binary, its `.bak`, a swap script that outlives the agent | verify, swap, roll back | agent loop, reports |
| alerts `state/fsm.go`, `alerts/`, `realert/`, `notify/fanout.go` | tables `incident_state`, `alert_messages`, `owed_replies`; in memory the delivery line of each check | report (`Dispatcher.Apply`), deliver card or recovery, the pass (`Poller.tick`), silence, acknowledge | report handler, Telegram, mini-app |
| heartbeat watcher `heartbeat/watcher.go` | its own check in `incident_state` | mark, tell, close | alerts |
| DNS watch `internal/agent/dnswatch/` | the router's running configuration (a reboot restores the saved one), a state file, the machine's streaks in memory | tick: initialize, reconcile, probe, switch to the fallback set and back, clean up | the router's shell, people who edit the lines |
| traffic moves `linkrepair/move.go` | a record per tunnel and set of rules in the database, counted attempts, a lock per router | move off a dead tunnel, return, confirm an unconfirmed move | report handler (starts them), router (through the queue), people |
| fleet rollout `rollout/engine.go`, `db/rollout_jobs.go`, `miniapp_agent_update.go` | tables `rollout_jobs`, `rollout_targets` | create with the choice of the canary, tick, cancel | pending update of each router, reports, incidents |
| the rest (see `PROJECT.json`) | | actions, checks, the repair of tunnels, provisioning, revival, release proxy, mini-app, backup | |

What makes each correct:

- **queue**: a command has one life (waiting, handed out, answered); updates
  supersede and do not stack; at most so many updates are in work as the release
  proxy serves; nobody sleeps beside a command; every command leaves.
- **channel**: the command is run, as long as the result cache remembers, once;
  its journal row closes with what the router answered, and with nothing else.
- **pending update**: people hear "does not install" only after the configured
  number of dispatches of that very version, and not while it is being installed;
  every pending update ends.
- **alerts**: an incident that lasts is told; its card comes once and never after its
  recovery; a person with a red card gets the recovery, or it is owed and in the end
  told or dropped; the thread a recovery answers to is not forgotten under a card.
- **DNS watch**: it never takes the last resolver off the router; at every moment its
  file knows the way back; it gives up only to people; it gets to the fallback when
  the own resolver fails, and home when it answers, leaving nothing behind.
- **traffic moves**: traffic does not stay on a dead tunnel while another answers; the
  records lead back to the order of people, which is restored when all tunnels answer;
  an order people make meanwhile is left alone.
- **fleet rollout**: a router is handed its update once; the fleet gets it only after
  the canary has proved it; a paused rollout does not go on; it does not last for ever.

## Modules

| module | models | abstract / proofs |
|---|---|---|
| `CmdQueue` | `cmd/queue.go` with time, many routers, the poll handler's write | `MCCmdQueue`, `CmdQueueProofs` |
| `LongPoll` | the mutex and condition variable inside `Dequeue` | `LongPollProofs` |
| `CommandChannel` | the commands of one router, from the operator's request through queue, poll, agent loop, result post and journal, with crashes of both programs | extends `CmdQueue`, implements `CommandPromise`; `MCCommandChannel`, `CommandChannelProofs` |
| `PendingDeploy` | the pending update of one router: five handlers on one database row, the queue as they see it, the router with its swap script | `PendingDeployProofs` |
| `AlertDelivery` | one check of one router: state machine, deliveries in line, owed replies, the pass, the person's buttons, stop and restart | `AlertDeliveryProofs` |
| `DnsWatch` | the DNS watchdog of one router with its state file, the router's running configuration, deaths, reboots and edits by hand | `MCDnsWatch`, `DnsWatchProofs` |
| `TrafficMove` | moves of one set of rules between tunnels and the returns, with records, the router's lock and attempts | `MCTrafficMove`, `TrafficMoveProofs` |
| `Rollout` | rollouts over a fleet, ticked by the worker and by the handler that created them | `RolloutProofs` |

`CmdQueue` is the queue in detail. `CommandChannel` extends it: its actions are
those of the queue joined to the agent's, the operator's and the journal's.
`PendingDeploy` keeps of the queue only what the handlers of an update see of it
(its head says what), and adds the database row and the router's swap script.
`AlertDelivery` shares nothing with the queue but the report that starts it.
`DnsWatch` runs on the router alone. `TrafficMove` and `Rollout` see of the queue what
the code shows them: an answer, a refusal or a silence; an update taken or refused.

### CmdQueue

`pending`, `issued` and `results` are the maps of `Queue`. The code stores instants
and compares them with the clock; the model stores what the comparisons see: time
left, age since the issue, time an early release still holds. Ages saturate one
past `SweepTTL`, beyond which no comparison tells them apart, so time is unbounded.
`writing` holds the commands Dequeue has returned to handlers that have not
finished writing them. `NextDispatchable` is `nextDispatchableLocked`; a turn of
Dequeue's loop is `DropExpired` (the code releases the mutex around the drop
handler) or `Issue`. Identifiers are random in the code; the model reuses one when
nothing refers to it any more.

### LongPoll

One step per critical section, plus the moments between an unlock and a broadcast.
`helper` is the goroutine Dequeue starts: it broadcasts once, at the deadline or at
the end of the request, without the mutex. `sync.Cond.Wait` joins the waiters and
unlocks in one step (the Go runtime takes the ticket before it unlocks).

### CommandChannel and CommandPromise

`CommandPromise` says what an operator may rely on: the router runs a command once,
and again only when it had a reason to forget the run (it died, the result grew too
old, was evicted, or could not be saved); the backend shows the outcome of a run and
does not change it while it shows it. `CommandChannel`
has the operator's handler statement by statement (both orders the code uses:
`miniappCommandHandler` enqueues before it attaches, `agentDeployCore` attaches
first), the poll's write and its failure, the agent's cache with age, eviction and
its file, posts that arrive and whose responses are lost, and the journal's
"already finished" and "not found" answers. `KeepsPromise` is the refinement.

Two things about the journal are left out. A handler that queues nothing closes its
row as failed without a run (`agent_deploy_core.go:70-74`,
`miniapp_commands.go:440-441`), and binding a row may fail. Updates sent again on
contact (`deploy_wake.go:128-130`) or after a restart (`deploy_resume.go:91-104`) have
no row at all; `PendingDeploy` has them. So `JournalTellsAnswer` speaks of rows that a
result closed, and `UpdateJournalClosed` of the updates an operator sent.

### PendingDeploy

Each SQL statement and each queue call is a step. `poll`, `rep`, `res`, `op` are
the program counters and locals of the handlers; `counting` the dispatch counts
still to be written. `Ensure` is what `ensurePendingDeployQueued` decides from its
one read. The router has the version it runs, the command in its hands, the answer
it is to post, and the swap script: it may refuse, install, be rolled back, or
die in the middle. A deploy with `AllowDowngrade` (`agent_deploy_core.go:81`) is left
out: the versions an operator asks for do not go down.

`GiveUpEarned` and `PendingResolves` hold although a retried answer skips the busy and
failed handling (`handler.go:1684`): the attempt stays counted, or the mark waits for
the next contact. What is lost, a refund and a message, neither of them shows.

### AlertDelivery

`row` is the check's row of `incident_state`, `msgs` and `owed` its rows of the two
other tables, reduced to the incident they belong to. `Transition` is `state.Apply`.
Instants are reduced to what comparisons see: `sent` is `last_alert_at` (never,
recent, or due for a reminder), `silence` is `silenced_until` (in the future, past by
less than `RealertEvery`, or older). A handler that reads the row, works and writes it
whole is two steps (`ReportGet` and `ReportSave`, `ReportHard` or `ReportReread` and
`ReportRecovery`; `PressGet` and `PressSave`); the statements with a `WHERE` are one
(`Mark`). `place` and `tail` are `deliveryQueue`: `prev` is the channel a delivery waits
for, `Release` closes its own and forgets the tail if it is still the last. A message
is delivered, refused, or maybe delivered; in the last case the person has it or not,
and no step of the code can tell. The pass keeps in `poll` what it has read: what it
does with it may be stale, which is what its second look (`PollReread`) is for. A stop
cancels the context: a delivery that waits goes on at once and sends nothing.

`carded`, `told`, `closed`, `heard` and `incident` are history; so is `lost`, true once
a row was written over a change its writer had not seen or a mark went to a later
incident. `CardBeforeRecovery`, `CardOnce`, `ThreadKept` and `RedCardAnswered` speak of
histories where that has not happened (`CardOnce` and `RedCardAnswered` also without
the kills, or stops, their comments name); `HardIsTold` and `DebtEnds` of all. A report
is taken only while the line has a place for what it may begin to say (`ReportGet`), a
bound of the model.

The scope: one recipient, who can be reached; statements of the database succeed; one
report of the router at a time; a check without special rules (tunnels have repairs,
`agent_heartbeat` a watcher of its own, `bypass_leak` and `resolver_guard` a filter).

### DnsWatch

A step is one dealing with the router, a reading of its running configuration or a
batch of commands, together with what the watchdog decides and saves on it: the code
of `watch.go` between two calls of the shell. A batch may take hold in any part
(`Apply`), a reading may fail, and the agent may die in the middle of either (`Crash`,
with `Halfway` for what a cut batch leaves); `Reboot` brings the saved configuration
back and kills the agent too. `live` is the router, `file` the state file, `saved` the
record in memory, `st` the machine of `machine.go`. `job` holds the locals of the
switch in progress. Lines have identifiers, which removal works by and which two lines
may share (`IdOf`). `Settle`, `CutLeft` and `Fill` are the readings and repairs that
end every switch; `Settled` is what each kind of switch saves then.

Of the cooldown the model keeps whether the last switch is recent. Left out: the own
resolver's endpoint changing while the watchdog runs (`refreshOwnRecord`,
`watch.go:315`), a state file that cannot be written (`watch.go:884`), what is
published and logged, `LeftoverSince`, which is only shown.

Two things are firmer in the model than on a router. Which candidates answer is any set
of them, but one for the whole behaviour, while the code probes them anew at each
switch (`Init`): the safety properties never mention `alive`, and `Escapes` is about a
set that has come to rest. A removal by identifier takes every line that has it, or
none (`Removed`), while `watch.go:757-758` allows for a router that drops one line at
a time, and removes and reads again until nothing is left.

### TrafficMove

`chain` is the order of links on the router, `rec[t]` the record of the move off `t`,
saved before the command is sent and kept when the router does not answer. `classify`
tells a chain our moves explain (`Cascade` follows the records of the moves after this
one, `Hops` of them, as the loop `for range 8` of `classify` does) from one of people.
Moves and returns are goroutines that a report starts: `PlanMove` reads a snapshot
without the lock, `MoveGetsLock` is the second try, `MoveAnswered` the command and
what is made of its answer; a return promotes links one by one (`restorePlan`,
`ReturnAnswered`). A promotion is answered, refused or met with silence, and a
silence, or a refusal that is not true, may have taken effect.

A link past the VPN (an uplink, a bridge) is `""` in a chain, as `snapshotChains` makes
it: there may be several, they are not told apart, `pickBackup` passes over them and no
command promotes them. `restorePlan` gives up the order of a chain when such a link
would have to move, and puts the first link back alone (`move.go:104-105`, `125-127`);
`LosesOrder` says when that does not restore the order. A tunnel is one link of the
chain (`MoveConstants`). People rearrange links; they neither add nor remove any.

`WayHome` says what the records are worth: a trail of recorded moves, each from the
order the one before it left (`IsTrail`, `EndOf`), leads from `Home` to the chain.
`theirs` and `astray` are history. `astray` marks the five steps that may lose the
order (named at `ComesBack`; more below, under the findings); `WayHome` and
`ComesBack` speak of histories without them. There is one set of rules; the attempts
of the code's window are a counter that time takes down; the repair of the tunnel
itself is not modelled, and what it reports is `Break` and `Mend`.

### Rollout

Each SQL statement of a tick is a step: the job and its targets are read, then probes,
reservations, deployments and transitions follow, each of which may fail (the code
ignores some of the errors, and so does the model). `tick[p]` holds what the ticker
has read; the worker and the handlers that created rollouts tick at the same time, and
a restart ends all ticks. `TargetsOf` is the list with the canary
first and the others by their numbers (`InTurn`), each once. Creation is one step: the
code reads the candidates and inserts after it, and what may change in between changes
no decision of the ticks, which probe again. A router has the update pending or not,
and installs it, loses it or is given it by somebody else; how is `PendingDeploy`.

`handed`, `proven`, `halted` and `lost` are history, as is `late` in a tick. `lost`
are the routers the rollout will wait for in vain: the update was called off or given
up for them alone, or a tick was cut between reserving and deploying. `RolloutEnds`
speaks of fleets where no router is lost; the run `rollout_uncertain` shows one that
is.

Left out: a router that has reported the new version and is rolled back afterwards by
its swap script (`self_update.go:924`; `new` only grows), and, in the choice of the
canary, whether a silent router has an incident (`engine.go:28-30`): of two that are
silent the model takes the lower number, and no property depends on which.

## Runs

| run | question | bounds |
|---|---|---|
| `queue` | one life, supersession, dispatch limit, no stacking; does every command leave | 2 routers, 2 updates, 1 other command, of which 2 known at once, 1 slot, TTLs of 1-2 ticks |
| `longpoll` | lost wake-ups of an enqueue | 2 polls, 2 commands, 2 enqueuers |
| `channel` | refinement of `CommandPromise`, journal | an update and another command, lifetimes of 1 tick, a cache of 1, 3 adversities |
| `deploy` | is a give-up earned | 2 versions, 2 attempts, 3 commands, 2 requests at once, 2 events |
| `deploy_live` | does every pending update end | the same, 1 request at once |
| `alerts` | order of cards and recoveries, no repeated card, no unanswered red card | 2 incidents, 1 stop, thresholds of 1 |
| `alerts_live` | is an incident told, does a debt end | 1 incident, 1 kill, 1 press of either button, thresholds of 1 |
| `dns` | is the router ever bare, is the way back known, is the mode right, does the watchdog get out and home | 2 candidates, 1 zoned line, 1 line of the owner's with a candidate's identifier, room for 3 lines, 2 failures, 4 troubles |
| `moves` | do the records lead home, is an order of people left alone, does traffic leave and come back | 4 tunnels, one of them behind a link past the VPN, 2 breaks, 2 troubles, 1 attempt in the window, `Hops = 3` |
| `rollout` | is an update handed once, the fleet only after the canary, does a rollout end | 2 routers, 1 rollout, worker and handler, 1 trouble |
| `move_lost` (finding) | does traffic that went round come back | 2 tunnels, 3 breaks, no trouble |
| `rollout_uncertain` (finding) | does an uncertain router pause the rollout | as `rollout` |

Why these are enough: two routers are needed for one to hold the slot the other wants;
two updates for one to supersede the other or to come back beside it; a third command
so that order and the head of the queue matter; two of the three are enough to wait,
be written, come back and be superseded at once, and the safety properties have also
been checked with all three known (`MaxInUse = 3`, 6,837,972 states). Two versions let
every count, answer and give-up of an old update meet a newer mark; a second request
at once gives every pair of handlers its interleavings; "events" are what people and
misfortune do (deploys, cancels, broken polls, refused writes, busy answers, a
roll-back, ageing, restarts), two of them beside a router that may die at any time.
Two incidents let every late delivery, mark and owed reply of one meet the next; a
threshold of one only shortens the way to an incident, which still takes two failed
reports. For the watchdog, four troubles are a failed command inside a failed switch,
a death and an edit; two candidates let a set be there in part, three places let the
router refuse some of it, and the shared identifier makes a removal take the owner's
line along. Three tunnels make a cascade whose ends recover in either order; two
breaks are needed for it, and a limit of one is met by the first move. The fourth
tunnel, behind a link past the VPN, makes returns of several promotions and returns
that give the order up both happen. Among four tunnels a cascade is followed to its
end in 3 steps: the code's 8 give the same 266,650 states. The link past the VPN has
also been put before the last of three tunnels (`a, b, "", c`: 140,037 states) and at
the end (157,472), with `Hops = 8`; and three tunnels alone have been checked with 3
breaks and 1 trouble (safety, 524,000 states) and with 3 breaks and none (liveness).
Two tickers of one rollout with one trouble meet every pair of statements and every
place to stop; also checked were 2 troubles (931,236 states) and 3 routers without
trouble (242,000), and the inductive invariant of the proofs with 2 rollouts
(5,460,219).

`MaxIncidents`, `MaxStops`, `MaxKills`, `MaxPresses`, `MaxHandlers`, `MaxEvents`,
`MaxIds`, `MaxCommands`, `MaxEnqueuers`, `MaxInUse`, `MaxFaults`, `MaxTroubles`,
`MaxBreaks`, `MaxJobs`, `HandEdits` are bounds of the models; `Hops`, how far a
cascade is followed, and everything else are constants of the code.

Deadlock is checked in every run but the two of `Rollout`: a rollout that is over, over
a fleet that is well, has no step left.

## Fairness

- `CmdQueue.FairSpec` and `MCSpec` of `MCCmdQueue`: time passes; a router that is up
  polls again after every answer and every error (`cmdloop.Run`). Nothing is assumed
  of answers or operators.
- `LongPoll.FairSpec`: goroutines that can run, run; Go's mutex hands over to a
  waiter after 1 ms, hence strong fairness of `Lock`. Deadlines are not assumed.
- `PendingDeploy.FairSpec`: requests that have come are served, the agent's loop
  and reporter go on, time to live ends, dispatch slots become free. A router need
  not succeed, and may reboot again and again.
- `AlertDelivery.FairSpec`: handlers and deliveries that have begun go on (each has a
  deadline of its own), passes come (a ticker), the reminder's cadence and the day of
  an owed reply run out, and of the cards or reminders the passes send again and again
  Telegram takes one. A refusal for ever would leave nothing to promise. Reports,
  presses and recoveries are not assumed.
- `DnsWatch.FairSpec`: the watchdog's ticks come and go on, an agent that is down is
  started again (its init script), the cooldown runs out. The own resolver and
  the people are not assumed anything of, and of the candidates only that the set of
  those that answer does not change; the properties say for which of them they speak.
- `TrafficMove.FairSpec`: the router goes on reporting each tunnel, the moves and
  returns that have begun go on (each has a deadline), attempts leave their window.
- `Rollout.FairSpec`: the worker's clock and the handlers go on, the observation window
  passes, a router that reports installs what is pending for it, or loses it (`lost`).

## Findings

Two runs end in a counterexample:

1. `move_lost`: `moveOnly` replaces the record of an earlier move of the same tunnel
   (`move.go:544`) by one whose origin is the chain of the moment, which our own moves
   may have made. Traffic that went from a to b, back to a because b broke, and to b
   again is returned twice and ends on b for good, although people were told "I will
   return the traffic when it comes back" (`move.go:405`).
2. `rollout_uncertain`: in the observing state `Tick` hands out only to targets whose
   status is `planned` (`engine.go:133`), so the test for "reserved, but no command"
   (`engine.go:197-199`) reaches the canary alone. A backend that stops between
   reserving a router of the fleet and deploying to it leaves a rollout that waits for
   ever.

Disagreements without a run, each a named formula that TLC refutes under the constants
given here:

- A poll may sleep past its deadline or its closed connection: the helper's single
  broadcast is not under the mutex (`queue.go:291`, also `AwaitResult` at 602),
  against `queue.go:267-269`. The next broadcast of anybody wakes it.
  `OverPollReturns` of `LongPoll` (`FairSpec`, 2 polls, 1 command, 1 enqueuer).
- The mini-app's handler attaches a command to its journal row after enqueueing it
  (`miniapp_commands.go:442`); a fast answer finds no row, and the row stays open
  unless somebody views the result, against `handler.go:1712`. `JournalClosed` of
  `CommandChannel` (as `MCCommandChannel.cfg` with `MaxFaults = 0`).
- After a restart of the backend a report gives up an update whose last attempt the
  router is still installing (`deploy_attempts.go:210`): whether a command is in work
  is known only to the queue's memory. `NoFalseAlarm` of `PendingDeploy` (`Spec`, as
  `MCPendingDeployLive.cfg` with `MaxAttempts = 3`).
- A card that reached nobody is to be sent by the next pass (BOT-01,
  `db/state.go:268`), but the query measures the silence with the cutoff of the
  reminders: a silence that has been over for less than `RealertEvery` (six hours)
  still hides the incident. `UndeliveredTaken` of `AlertDelivery` (`FairSpec`,
  thresholds of 2, the button `silence`, 2 incidents, 1 press, no stop or kill).
- A line of the owner's that a removal by identifier took along, and that the return
  could not put back because its last reading failed (`watch.go:741-745`, `761-765`),
  is no longer on the router when the next switch looks for lines to remember
  (`watch.go:592`), against `watch.go:577-579` and `watch_round4_test.go:102-105`.
  `SharedLineRemembered` of `DnsWatch` (`Spec`, as `MCDnsWatch.cfg` with `DoTLimit =
  8`, thresholds of 1, no edits by hand).
- If a plain line of the owner's saved configuration is itself one of the fallback
  candidates, the switch to the fallback counts it as a foreign line that is on the
  router (`anyPresent`, `watch.go:623`), though it is not among the lines it adds and
  records. When none of the others took hold and the agent dies after the own line is
  out, `goneByHand` (`watch.go:1037-1041`) takes the watchdog's own work for an edit and
  `abandonRecord` (1047-1053) drops the record: the own line is gone, and nobody is to
  put it back, against the comment at 1034-1035. `RecordTellsWayBack` and
  `GivesUpOnlyToPeople` of `DnsWatch` (`Spec`, as `MCDnsWatch.cfg` with the candidate
  `f2` among `Kept` and no edits by hand). The proofs met it: `KeptApart`.
- `classify` follows a cascade for 8 moves (`move.go:155`). With more than ten tunnels
  that fail one after another the return of the first sees an order nobody's record
  explains, drops its record as if people had rearranged the links, and the order of
  people is lost, against `move.go:17-25`. `WayHome` of `TrafficMove` (`Spec`, 4
  tunnels, `Hops = 1`, 3 breaks, no trouble; it holds with `Hops = 2`). The proofs met
  it: `FewTunnels`.
- A return that would have to move a link past the VPN puts the first link back alone
  and drops the record as if the order were restored (`move.go:104-105`, `125-127`):
  `a, "", b` comes back as `a, b, ""`. `AlwaysComesBack` of `TrafficMove` (`FairSpec`,
  `Home` = `a, "", b`, 1 break, no trouble; `Hops = 8`, 2 attempts). In a cascade the
  traffic itself may stay away: `a, "", b, c` with a and then b broken becomes `c, b,
  a, ""`; when b answers it becomes `b, c, a, ""` and the record of b goes; when a
  answers, its record meets an order that nothing explains, goes too, and the traffic
  stays on b, against "I will return the traffic when it comes back" (`move.go:405`).
- Three more ways in which a move loses the order of people, all marked by `astray`: a
  return of several promotions cut in the middle leaves a chain the records do not
  explain (against `move.go:673-677`); a router that carried a promotion out and
  refused it all the same (`route_policy_promote.go:66-74`) makes the backend drop the
  record (`move.go:579-586`); a snapshot that is posted again and comes late
  (`loop.go:141`) is taken for the chain of the moment (`move.go:509-519`, against
  499-501).
- A rollout pauses for a router that sleeps or had its incident before (`report_gap`,
  `new_hard_incident`), although a sleeping router is "not an error"
  (`miniapp_agent_update.go:309-310`); the worker and the handler that meet in the
  first state pause it with `dispatch_uncertain` although nothing is uncertain; an
  update given up for one router leaves the rollout rolling for ever; a tick already
  in its loop goes on deploying after the operator has cancelled; incidents that
  cannot be counted are none (`miniapp_agent_update.go:250`). All are behaviours of
  `Rollout`.

Smaller things met while modelling, not listed among the hazards: a dispatch slot that
becomes free because its window lapses wakes no parked poll (`queue.go:118`); two
polls that break off return their commands in the other order (`queue.go:377`); an
update that comes back while a newer one waits is dropped without the drop handler
(`queue.go:369`); a journal row opened before a stop and never enqueued stays open
(`miniapp_commands.go:424`); an update of a poll may be dispatched beside the
operator's own (`agent_deploy_core.go:123`, against the comment `deploy_wake.go:56`),
or after it was cancelled (`deploy_wake.go:105`); a busy answer handled before its
dispatch is counted spends an attempt after all (`db/users.go:787`); the confirming
report reads and writes in two statements (`db/users.go:830`); the new binary reports
before the swap script has done with it (`self_update.go:924`); one failed report
makes the pass drop an owed recovery although no alarm may follow (`poller.go:145`); a
reminder takes no place in the line and can arrive after the recovery
(`poller.go:505`); the pass does not look again at the check before it repeats a
recovery (`poller.go:158`); a button pressed while a recovery is saved writes the
incident back, with its old mark (`miniapp_actions.go:90`, `lost`).

## Proofs

Every safety invariant and every action property that a passing run checks is a theorem
of its specification, the refinement of `CommandPromise` included. A theorem holds for
every value of the constants that the module's `ASSUME` allows: any set of routers,
commands, polls or enqueuers (infinite ones too), any durations, any number of
release-proxy slots, versions, handlers, incidents, stops, edits and adversities, any
finite fleet, any finite set of resolver lines, any number of tunnels. Three theorems
about the DNS watch and one about the moves carry a hypothesis on top; each is false
without it, and the disagreements above say what the code does then.

The properties are hardly ever inductive. What strengthens them is what the code relies
on and nowhere tests; it is described here because a change of the code that breaks it
is the change to be careful with.

### CmdQueueProofs, LongPollProofs

`CmdQueueProofs` (assumes `QueueConstants`: durations and slots are positive, the
dispatch window and the life of an update are no longer than the janitor's
eviction age, which the code's constants are: 12 min, 30 min, 1 h).

| theorem | property of the run `queue` | rests on |
|---|---|---|
| `QueueTypeCorrect` | `TypeOK` | `QueueInv` |
| `OneLife` | `NoDoubleLife` | `QueueInv` |
| `UpdatesSupersede` | `OnePendingUpdate` | `QueueInv` |
| `DispatchLimited` | `DispatchCap` | `QueueInv`, `CapInv` |
| `DeferredOnce` | `DeferredNeverStack` | `QueueInv` and itself |

`QueueInv` is `TypeOK` and, for each router, `UserInv` of its queue, issues, results
and writes. The properties alone are not inductive; the strengthening is what the
code relies on and nowhere tests:

- `WritesOnce`: no two handlers write the same command, so after `ReturnUndelivered`
  nobody else still delivers what went back into the queue;
- `AnswerFollows`: an answer is not older than the issue it answers, so the janitor
  never evicts an answer and leaves its issue: an answered update would be in work
  again and `DispatchCap` would fail;
- `HeldAnswered`: only answered commands are released early;
- `LifeLeft`, `LifeInQueue`: what a command being written has left of its life began
  no later than its issue, so an update that a broken poll returns was still active
  as issued, and `EnqueueIfNoActive` has not let a second one in beside it.

The argument has two layers: the lemmas `...User` say what an operation does to one
router's part of the state, `...Preserves` lift them to the actions. For the last
two theorems, `Calm` says that a step makes nothing active and puts nothing in work
that was not so before; every action but `Issue` and the two ways to enqueue is calm,
and these three are treated by themselves (`Issue` under the limit's test, an
enqueued update under the test of `HasActiveUpdate`). `WithoutUpdates` is a
recursive function; `NatSetInduction`, derived from the well-foundedness of `<` on
the naturals, is induction for a set in place of a predicate, and `KeptExists` and
`WithoutUpdatesKeeps` use it to prove that the function exists and that its value
keeps the other commands and no update.

`LongPollProofs` (assumes `PollConstants`): `WaitTypeCorrect` (`TypeOK`) and
`NoCommandStranded` (`NoStrandedCommand`). The inductive `PollInv` adds to them
`MutexHeld` (a poll inside the critical section holds the lock) and `ParksOnEmpty`
(a poll that has looked and not yet parked saw an empty queue, and, as it still holds
the lock, the queue still is empty): without these a wake-up between the look and
the park could be lost.

### RolloutProofs

`RolloutProofs` (assumes `RolloutConstants`: router numbers are naturals, the fleet is
finite).

| theorem | property of the run `rollout` | rests on |
|---|---|---|
| `UpdateHandedOnce` | `HandedOnce` | `RolloutInv` |
| `CanaryBeforeFleet` | `FleetAfterCanary` | `RolloutInv` |
| `RolloutTypeCorrect` | `RolloutTypeOK` | `RolloutInv`, `Fits` |

That a router is handed its update once is no invariant by itself: it needs to know
who is about to do it. `Alone` says that a tick about to deploy has reserved the
target, nothing was handed to it yet, and no other tick is about to; `Past` that a
target still `planned` was handed nothing. For the canary, `Knows` says what a tick
may conclude from a state it read some time ago (a job read as observing has a proven
canary, one read as due a window that has passed), which holds because these only come
to be and are never taken back; `Stage` which states a tick in a given place has read.
`halted` jobs are paused or cancelled for good (`Past`), because every transition asks
for the state the tick has read: a late tick's writes miss. The argument:
`ForwardStep` says that when the tables only go on (`Forward`), ticks that did not
move keep their part of the invariant, and a tick that moved needs to be shown its
own. All actions but `Reserve` and `Deploy` go through it; for these two `Alone` is
shown by the cases of who was where, and `DeployKeeps` counts.

For the types, `Fits` (`World`, `Listed`, `Placed`) says that a list names each router
once and is as long as the routers it was made for, and that a tick which works on a
target has found it within its list: no tick looks past the end.

### CommandChannelProofs

Assumes `ChannelConstants` (and the queue's): the cache holds at least one result, and
the words for a row's state are no outcomes.

| theorem | property of the run `channel` | rests on |
|---|---|---|
| `ChannelTypeCorrect` | `ChanTypeOK` | `ChanInv` |
| `JournalIsTrue` | `JournalTellsAnswer` | `ChanInv` |
| `UpdateRowsClose` | `UpdateJournalClosed` | `ChanInv` |
| `ChannelKeepsPromise` | `KeepsPromise` | `ChanInv` |
| `ChannelDrivesQueue` | (`ChanSpec => Spec` of `CmdQueue`) | the actions |

`ChannelDrivesQueue` comes first: every step of the channel is a step of the queue or
none, so the theorems of `CmdQueueProofs` hold of the channel and `QueueInv` may be
used. `AgentInv` is what the agent remembers: a run that nobody had a reason to forget
is in the cache and not too old, or is about to be put there (`Remembered`), so it is
not repeated (`RunsOnce`) and has one outcome (`OneOutcome`); what is remembered was
an outcome of a run (`WasRun`). The backend's part: a command belongs to one router
(`Home`), without which an answer recorded for one could be shown beside an answer of
another; whatever a post, a recorded answer or a closed row says is an outcome of the
command (`PostTells`, `AnswerTells`, `RowTells`); the row of an update is bound before
the command can have reached anybody (`Bounded`). The refinement maps `ChanInit` to
the abstract initial state and each action to `Begin`, `Finish`, `Excuse`, `Show`,
`Withdraw` or a stutter.

### PendingDeployProofs

Assumes `DeployConstants` (positive numbers). `DeployTypeCorrect` (`DeployTypeOK`) and
`GiveUpIsEarned` (`GiveUpEarned`), both by `DeployInv`. The give-up is one step, but
what earns it lies far back: the row's counter was raised by handlers that had handed
a command out earlier and counted it at their leisure, while operators replaced the
version and restarts lost counts. `Covered` is what all of them keep: for every
version, the attempts the row holds for it and the hand-outs still to be counted are
together no more than the times it was sent out. `Earned` carries this from the
handler's look at the row to its step. `Covered` counts a set (`Uncounted`), so the
proof needs that adding and removing one command moves its cardinality by one, and
that an identifier is used again only when nothing is to be counted under it.

### AlertDeliveryProofs

Assumes `AlertConstants` (positive thresholds; any number of incidents, stops, kills and
presses).

| theorem | property of the run `alerts` | rests on |
|---|---|---|
| `AlertTypeCorrect` | `AlertTypeOK` | `Fits` |
| `OneIsAtWork` | `OneSender` | `InLine` |
| `RedCardIsAnswered` | `RedCardAnswered` | `AlertInv` |
| `CardComesFirst` | `CardBeforeRecovery` | `AlertInv`, `CardInv` |
| `CardIsSentOnce` | `CardOnce` | `AlertInv`, `CardInv` |
| `ThreadIsKept` | `ThreadKept` | `AlertInv`, `CardInv` |

`Fits`: types, what each handler holds at its stages, and that the line has a place
for what a report has begun to say. `InLine`: while the backend runs the places are a
chain, each waits for the one before it, the tail is the last, only the first is at
work. Places are numbers and used again, so the chain is a function from positions to
places, which `Release` shifts and `Enqueue` extends. `Answered`: a person whose last
message is the card of an incident that is over has the recovery in the report's hands
or in the line, or is owed it. `CardInv`: the line is in the order in which things are
to be said (`Sorted`), a card is in one hand at a time (`CardsOnce`), the recovery of
an incident that is on is in nobody's, and an incident that is on and has no mark of
sending has left nothing in the line (`StillOn`): that last part is why the pass,
which takes no place behind the others, may send the card (`PassFirst`). `AlertInv` is
the first three.

### DnsWatchProofs

Assumes `DnsConstants`: the own line shares its identifier with no other, a foreign line
is not bound to a zone; the lines are finitely many.

| theorem | property of the run `dns` | rests on |
|---|---|---|
| `DnsTypeCorrect` | `DnsTypeOK` | `Typed` |
| `NeverLeftBare` | `NeverBare` | `ServedInv` |
| `WayBackKnown` | `RecordTellsWayBack` | `WayInv`, `KeptApart` |
| `ModeIsProven` | `ModeProven` | `WayInv`, `KeptApart` |
| `GivesUpToPeople` | `GivesUpOnlyToPeople` | `WayInv`, `KeptApart` |

`StillServed`, the heart of `ServedInv`, says for each stage of a switch which lines are
on the router and will not be removed by what the switch is still to do; it holds
whatever part of a batch took hold, because a batch removes only what is not among
them, by identifier. `WayInv` speaks of a router nobody has edited: memory agrees with
the file (`Agreed`), the file names the missing own line and each added one (`WayBack`),
and the stage of a switch tells which lines are there (`ProvenStage`, `SwitchStage`,
`SettleStage`); `Calm` says that nothing the program did makes it give up its record.
`KeptApart` says that none of the lines the owner has anyway is a fallback candidate.

### TrafficMoveProofs

Assumes `MoveConstants`: the order of people has each tunnel once and any number of
links past the VPN, and `""` is no tunnel.

| theorem | property of the run `moves` | rests on |
|---|---|---|
| `MoveTypeCorrect` | `MoveTypeOK` | `Base` |
| `TheirsIsKept` | `TheirsStays` | `Base`, `Untouched` |
| `WayIsKnown` | `WayHome` | `Base`, `Way`, `FewTunnels` |

`Base`: types, the shapes of a move and of a return under way, one holder of the lock.
A link past the VPN occurs more than once, so what a promotion does is said by place
(`toFront`) and only for tunnels by name (`PosFacts`, `PromotedFacts`). `Untouched`:
while an order of people stands, no command is under way and no record explains it
(`Ours`). Records come and go meanwhile, so the proof needs that what `Cascade`
reaches only shrinks when records stay or go (`CascadeShrinks`). `Way`: between
commands a trail leads to the chain, none of whose moves is of the chain's first link;
so a move off that link may be recorded at its end (`LedOn`), and a return undoes the
last moves of the trail (`LedBack`). A command under way starts or ends at the end of
such a trail, for it may have been carried out or not. A return under way promotes
tunnels only (`Plain`) and has the order back at its end (`Restores`), unless the plan
was the short one that loses it, which sets `astray` (`RestorePlanFacts`). `OnTheWay`
says that the cascade from a record on the trail reaches the chain, and is where
`FewTunnels`, at most `Hops + 2` tunnels in the chain, is used: ten in the code. The
lemmas about `PlanOf` and `keepsOrder` say what the promotions of `restorePlan` do to
an order; `Followed`, a recursive function, exists and has its value by
`StretchExists`.

### Only model-checked

The liveness properties: `PendingLeaves`, `WaiterServed`, `PendingResolves`,
`HardIsTold`, `DebtEnds`, `ComesHome`, `Escapes`, `ComesBack`, `Leaves`, `RolloutEnds`.
They rest on fairness, and fairness on ENABLED, which is not in the prover's reach.

## Not modelled, and why

The heartbeat watcher is next in the plan. The agent's other actions, checks, the
repair of tunnels (`linkrepair/engine.go`), provisioning, revival and the mini-app are
large procedures over shells, terminals and external panels; what they send to a
router enters the queue as `Enqueue`. Formatting, authentication, signatures, backups
and retention are outside what these models speak of. Within the modelled parts:
`AwaitResult` waits like Dequeue and changes nothing; `version_audit` and
`tunnel_delete` answers update tables no modelled property reads; messages to people
appear only as the step that decides them.

## Plan

1. `CmdQueue`, `LongPoll`, `CommandChannel`, `PendingDeploy`, `AlertDelivery` (done).
2. `DnsWatch`, `TrafficMove`, `Rollout` (done).
3. Proofs of all safety and action properties and of the refinement (done).
4. The heartbeat watcher on the row of `AlertDelivery`, the ladder of link repair with
   the move as its step, the unstick watcher, single-flight of revival. What is proved
   of a module that grows is to be proved again: its invariant names the part an
   action may disturb.
