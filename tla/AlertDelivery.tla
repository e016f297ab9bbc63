--------------------------- MODULE AlertDelivery ---------------------------
(***************************************************************************)
(* What people hear of one check of one router: the incident's row in the  *)
(* database, the reports that drive it, the deliveries that wait in line   *)
(* for Telegram, the pass that repeats what did not arrive, and the person *)
(* who asks for quiet.  Nothing but the line of deliveries is common to    *)
(* them: each reads the row, works, and writes.                            *)
(*                                                                         *)
(* The check has the plain rules of handler.go: no tunnel and no repair    *)
(* scenario (their steps take places in the line but send nothing here),   *)
(* nor agent_heartbeat, bypass_leak or resolver_guard.  One recipient;     *)
(* statements of the database succeed; the handler of a report serves one  *)
(* report at a time, as the agent sends them.                              *)
(*                                                                         *)
(* Instants are reduced to what comparisons see.                           *)
(***************************************************************************)
EXTENDS Integers, FiniteSets, FiniteSetsExt

CONSTANTS
  FailThreshold,     \* consecutive failures that make an incident
  RecoveryThreshold, \* consecutive successes that end it
  Buttons,           \* what a person may press: "silence", "ack"
  MaxIncidents,      \* bound: incidents
  MaxStops,          \* bound: orderly stops of the backend
  MaxKills,           \* bound: sudden ends of the backend
  MaxPresses         \* bound: presses of a button

ASSUME AlertConstants ==
  /\ {FailThreshold, RecoveryThreshold, MaxIncidents} \subseteq Nat \ {0}
  /\ {MaxStops, MaxKills, MaxPresses} \subseteq Nat
  /\ Buttons \subseteq {"silence", "ack"}

VARIABLES
  row,      \* incident_state: see Row
  msgs,     \* alert_messages: the incident whose card is remembered, or None
  owed,     \* owed_replies: a recovery to repeat, or NoDebt
  place,    \* the unfinished deliveries, by their place in the line
  tail,     \* deliveryQueue.tails: the last place of the line, or None
  rep,      \* the handler of the router's report
  poll,     \* the pass of realert.Poller
  person,   \* the handler of a button
  phase,    \* "up", or "stopping" while WaitRelayDrain waits
  incident, \* history: the number of the present or last incident
  carded,   \* history: incidents whose card the person got
  told,     \* history: the person knows of the last incident, by card or reminder
  closed,   \* history: incidents whose recovery was told
  heard,    \* history: the last the person heard, "card" or "recovery", or "none"
            \* also when a pass has dropped the recovery of the last incident
  lost,     \* history: a row was written over a change the writer had not seen,
            \* or got a mark that was meant for an earlier incident
  stops, kills, presses \* left of the bounds

db == <<row, msgs, owed>>
queue == <<place, tail>>
history == <<incident, carded, told, closed, heard, lost>>
world == <<phase, stops, kills, presses>>
hands == <<rep, poll, person>>
vars == <<db, queue, hands, history, world>>

None == 0
NoDebt == [inc |-> None, old |-> FALSE]
Incidents == 1 .. MaxIncidents

\* The card and the recovery of each incident, and the place of the pass.
Places == 1 .. 2 * MaxIncidents + 1

\* sent stands for last_alert_at: "never" is NULL, "due" is older than the
\* reminder's cadence.  silence stands for silenced_until: "on" is in the
\* future, "recent" is less than RealertEvery ago, "off" is older or NULL.
\* hard_since is set exactly while status is "hard".
Row == [status: {"ok", "fail", "hard"}, fails: 0 .. FailThreshold, oks: 0 .. RecoveryThreshold,
        sent: {"never", "recent", "due"}, silence: {"off", "on", "recent"}, acked: BOOLEAN]

Outcomes == {"delivered", "maybe", "refused"}

Idle == [pc |-> "idle"]

Init == /\ row = [status |-> "ok", fails |-> 0, oks |-> 0, sent |-> "never",
                  silence |-> "off", acked |-> FALSE]
        /\ msgs = None /\ owed = NoDebt
        /\ place = <<>> /\ tail = None
        /\ rep = Idle /\ poll = Idle /\ person = Idle
        /\ incident = None /\ carded = {} /\ told = FALSE /\ closed = {} /\ heard = "none"
        /\ lost = FALSE
        /\ phase = "up" /\ stops = MaxStops /\ kills = MaxKills /\ presses = MaxPresses

-----------------------------------------------------------------------------
(* state.Apply.  A counter is compared with its threshold only, and stops  *)
(* there.                                                                  *)

Upto(n, bound) == IF n > bound THEN bound ELSE n

Transition(prev, seen) ==
  LET fails == Upto(prev.fails + 1, FailThreshold)
      oks == Upto(prev.oks + 1, RecoveryThreshold)
      failed == [prev EXCEPT !.fails = fails, !.oks = 0]
      good == [prev EXCEPT !.oks = oks]
  IN CASE prev.status = "ok" /\ seen = "ok" -> [kind |-> "noop", next |-> good]
       [] prev.status = "ok" /\ seen = "fail" ->
            [kind |-> "soft", next |-> [prev EXCEPT !.fails = 1, !.oks = 0, !.status = "fail"]]
       [] prev.status = "fail" /\ seen = "fail" /\ fails < FailThreshold ->
            [kind |-> "soft", next |-> failed]
       [] prev.status = "fail" /\ seen = "fail" /\ fails >= FailThreshold ->
            [kind |-> "hard", next |-> [failed EXCEPT !.status = "hard", !.sent = "recent"]]
       [] prev.status = "fail" /\ seen = "ok" ->
            [kind |-> "soft_flap", next |-> [prev EXCEPT !.fails = 0, !.oks = 1, !.status = "ok"]]
       [] prev.status = "hard" /\ seen = "fail" -> [kind |-> "noop", next |-> failed]
       [] prev.status = "hard" /\ seen = "ok" /\ oks < RecoveryThreshold ->
            [kind |-> "noop", next |-> good]
       [] prev.status = "hard" /\ seen = "ok" /\ oks >= RecoveryThreshold ->
            [kind |-> "recovery", next |-> [good EXCEPT !.status = "ok", !.fails = 0, !.acked = FALSE]]

-----------------------------------------------------------------------------
(* The line of deliveries (alerts/queue.go).                               *)

Free == CHOOSE p \in Places : p \notin DOMAIN place

\* EnqueueDelivery: the new place waits for the one that was the last.
Enqueue(kind, inc, known) ==
  LET pc == IF phase = "up" THEN "waiting" ELSE "cancelled"
      new == [prev |-> tail, kind |-> kind, inc |-> inc, known |-> known, pc |-> pc]
  IN /\ place' = [p \in DOMAIN place \cup {Free} |-> IF p = Free THEN new ELSE place[p]]
     /\ tail' = Free

ReleaseForgetsTail(p) ==
  /\ place' = [q \in DOMAIN place \ {p} |->
                 IF place[q].prev = p THEN [place[q] EXCEPT !.prev = None] ELSE place[q]]
  /\ tail' = None

\* Whoever waits for this place goes on; the tail goes if it is still this one.
Release(p) ==
  /\ place' = [q \in DOMAIN place \ {p} |->
                 IF place[q].prev = p THEN [place[q] EXCEPT !.prev = None] ELSE place[q]]
  /\ tail' = IF tail = p THEN None ELSE tail

\* A delivery waits for the one before it, but not when the backend stops: it
\* then goes on with a cancelled context, and nothing it sends leaves.
Turn(p) == place[p].pc = "waiting" /\ place[p].prev = None
Cancelled(p) == place[p].pc = "cancelled"

-----------------------------------------------------------------------------
(* Statements on the row.                                                  *)

MarkAnyRow(inc, sent) == /\ row' = [row EXCEPT !.sent = sent]
                         /\ lost' = (lost \/ inc # incident)

\* UPDATE ... WHERE current_status = 'hard': whichever incident that is.
Mark(inc, sent) ==
  IF row.status = "hard"
    THEN /\ row' = [row EXCEPT !.sent = sent]
         /\ lost' = (lost \/ inc # incident)
    ELSE UNCHANGED <<row, lost>>

BumpLastAlertAt(inc) == Mark(inc, "recent")
ClearLastAlertAt(inc) == Mark(inc, "never")

\* Save writes the whole row; what has changed since it was read is lost.
Save(new, read) == /\ row' = new
                   /\ lost' = (lost \/ row # read)

-----------------------------------------------------------------------------
(* The report (handler.go, alerts.Dispatcher.Apply).                       *)

ReportGet(seen) ==
  /\ phase = "up" /\ rep = Idle
  /\ seen = "fail" /\ row.status # "hard" => incident < MaxIncidents
  /\ Transition(row, seen).kind \in {"hard", "recovery"} => Cardinality(DOMAIN place) + 1 < Cardinality(Places)
  /\ rep' = [pc |-> "got", read |-> row, seen |-> seen]
  /\ UNCHANGED <<db, queue, poll, person, history, world>>

\* Noop, Soft, SoftFlap: the row is saved and nothing is said.
ReportSave ==
  /\ rep.pc = "got"
  /\ LET tr == Transition(rep.read, rep.seen)
     IN /\ tr.kind \in {"noop", "soft", "soft_flap"}
        /\ Save(tr.next, rep.read)
  /\ rep' = Idle
  /\ UNCHANGED <<msgs, owed, queue, poll, person, incident, carded, told, closed, heard, world>>

\* Hard: the row is saved before anything is sent (BUG-02).
ReportHard ==
  /\ rep.pc = "got"
  /\ LET tr == Transition(rep.read, rep.seen)
     IN /\ tr.kind = "hard"
        /\ Save(tr.next, rep.read)
  /\ incident' = incident + 1 /\ told' = FALSE
  /\ rep' = [pc |-> "hard"]
  /\ UNCHANGED <<msgs, owed, queue, poll, person, carded, closed, heard, world>>

\* What is owed of the last incident is no longer to be said.
ReportDropDebt ==
  /\ rep.pc = "hard"
  /\ owed' = NoDebt
  /\ rep' = [pc |-> "enqueue", kind |-> "card", known |-> TRUE]
  /\ UNCHANGED <<row, msgs, queue, poll, person, history, world>>

\* Recovery: Apply reads the row once more, for the start of the incident and
\* for the mark that tells whether its card was ever sent.
ReportReread ==
  /\ rep.pc = "got"
  /\ Transition(rep.read, rep.seen).kind = "recovery"
  /\ rep' = [pc |-> "recovered", read |-> rep.read, seen |-> rep.seen, known |-> row.sent # "never"]
  /\ UNCHANGED <<db, queue, poll, person, history, world>>

ReportRecovery ==
  /\ rep.pc = "recovered"
  /\ Save([Transition(rep.read, rep.seen).next EXCEPT !.sent = "never"],
          [rep.read EXCEPT !.sent = row.sent])
  /\ rep' = [pc |-> "enqueue", kind |-> "recovery", known |-> rep.known]
  /\ UNCHANGED <<msgs, owed, queue, poll, person, incident, carded, told, closed, heard, world>>

\* spawnAlertDelivery
ReportEnqueue ==
  /\ rep.pc = "enqueue"
  /\ Enqueue(rep.kind, incident, rep.known)
  /\ rep' = Idle
  /\ UNCHANGED <<db, poll, person, history, world>>

-----------------------------------------------------------------------------
(* The deliveries (Dispatcher.DeliverHard, deliverRecovery).  Telegram     *)
(* takes a message, or refuses it, or the answer does not come and the     *)
(* message may have arrived (notify.MaybeDelivered).                       *)

\* SendTracked of the card of inc: the recipient's message is remembered if it
\* is known to have arrived.
SendCard(inc, outcome) ==
  /\ msgs' = IF outcome = "delivered" THEN inc ELSE msgs
  /\ \E arrives \in BOOLEAN :
       /\ outcome = "delivered" => arrives
       /\ outcome = "refused" => ~arrives
       /\ carded' = IF arrives THEN carded \cup {inc} ELSE carded
       /\ told' = (told \/ (arrives /\ inc = incident))
       /\ heard' = IF arrives THEN "card" ELSE heard

MarkCardRetryMaybe(inc, outcome) ==
  IF outcome = "delivered" THEN BumpLastAlertAt(inc) ELSE ClearLastAlertAt(inc)

\* The mark goes only if the card is known not to have been sent.
MarkCard(inc, outcome) ==
  IF outcome = "refused" THEN ClearLastAlertAt(inc) ELSE BumpLastAlertAt(inc)

\* ReplyToEach: an error, and the reply may have arrived all the same.
Reply(inc, ok) == \E arrives \in BOOLEAN :
  /\ ok => arrives
  /\ closed' = IF arrives THEN closed \cup {inc} ELSE closed
  /\ heard' = IF arrives THEN "recovery" ELSE heard

DeliverCard(p, outcome) ==
  /\ place[p].kind = "card"
  /\ Turn(p) \/ (Cancelled(p) /\ outcome = "refused")
  /\ SendCard(place[p].inc, outcome)
  /\ place' = [place EXCEPT ![p].pc = outcome]
  /\ UNCHANGED <<row, owed, tail, hands, incident, closed, lost, world>>

FinishCard(p) ==
  /\ place[p].kind = "card" /\ place[p].pc \in Outcomes
  /\ MarkCard(place[p].inc, place[p].pc)
  /\ Release(p)
  /\ UNCHANGED <<msgs, owed, hands, incident, carded, told, closed, heard, world>>

DeliverRecovery(p, ok) ==
  /\ place[p].kind = "recovery"
  /\ \/ Turn(p) /\ Reply(place[p].inc, ok)
     \/ Cancelled(p) /\ ~ok /\ UNCHANGED <<closed, heard>>
  /\ place' = [place EXCEPT ![p].pc = IF ok THEN "delivered" ELSE "refused"]
  /\ UNCHANGED <<db, tail, hands, incident, carded, told, lost, world>>

NeverDeliveredUnread(p) == ~place[p].known

\* hardNeverDelivered: nobody got the card, so nobody is owed its recovery.
NeverDelivered(p) == ~place[p].known /\ msgs = None

\* The correspondence is over, or the recovery is owed.
FinishRecovery(p) ==
  /\ place[p].kind = "recovery" /\ place[p].pc \in Outcomes
  /\ \/ /\ place[p].pc = "delivered"
        /\ msgs' = None /\ UNCHANGED owed
     \/ /\ place[p].pc = "refused"
        /\ owed' = IF NeverDelivered(p) THEN owed ELSE [inc |-> place[p].inc, old |-> FALSE]
        /\ UNCHANGED msgs
  /\ Release(p)
  /\ UNCHANGED <<row, hands, history, world>>

-----------------------------------------------------------------------------
(* The pass (realert.Poller.tick): first what is owed, then the incidents  *)
(* nobody was told of lately.  A limit of Telegram ends the pass early.    *)

PollStart ==
  /\ phase = "up" /\ poll = Idle
  /\ poll' = IF owed = NoDebt THEN [pc |-> "select"] ELSE [pc |-> "debt", debt |-> owed]
  /\ UNCHANGED <<db, queue, rep, person, history, world>>

DebtDropNever(debt, status) == ~debt.old /\ status # "ok"

\* A recovery a day old is noise; over a new failure it would be a lie.
DebtDrop(debt, status) == debt.old \/ status # "ok"

PollDebtState ==
  /\ poll.pc = "debt"
  /\ poll' = [poll EXCEPT !.pc = IF DebtDrop(poll.debt, row.status) THEN "drop" ELSE "take"]
  /\ UNCHANGED <<db, queue, rep, person, history, world>>

\* Delete names no incident: a debt made since the pass looked goes as well.
PollDebtDrop ==
  /\ poll.pc = "drop"
  /\ owed' = NoDebt
  /\ heard' = IF owed.inc = incident THEN "none" ELSE heard
  /\ poll' = [pc |-> "select"]
  /\ UNCHANGED <<row, msgs, queue, rep, person, incident, carded, told, closed, lost, world>>

\* TryEnqueueDelivery: the pass does not wait for a line that is not empty.
PollDebtTake ==
  /\ poll.pc = "take"
  /\ IF tail # None
       THEN poll' = [pc |-> "select"] /\ UNCHANGED queue
       ELSE /\ Enqueue("pass", None, FALSE)
            /\ poll' = [pc |-> "reply", debt |-> poll.debt, at |-> Free]
  /\ UNCHANGED <<db, rep, person, history, world>>

PollReply(ok) ==
  /\ poll.pc = "reply"
  /\ \/ ~Cancelled(poll.at) /\ Reply(poll.debt.inc, ok)
     \/ Cancelled(poll.at) /\ ~ok /\ UNCHANGED <<closed, heard>>
  /\ \/ /\ ok /\ poll' = [poll EXCEPT !.pc = "replied"] /\ UNCHANGED queue
     \/ /\ ~ok /\ Release(poll.at)
        /\ \/ poll' = [pc |-> "select"]
           \/ poll' = Idle
  /\ UNCHANGED <<db, rep, person, incident, carded, told, lost, world>>

PollDebtDelete ==
  /\ poll.pc = "replied"
  /\ owed' = NoDebt
  /\ poll' = [poll EXCEPT !.pc = "clear"]
  /\ UNCHANGED <<row, msgs, queue, rep, person, history, world>>

ClearAll(inc) == msgs' = None

\* ClearSentBefore: the messages sent before the debt was made.  The card of a
\* later incident is later: it waited in line behind the recovery that failed.
ClearSentBefore(inc) == msgs' = IF msgs <= inc THEN None ELSE msgs

PollDebtClear ==
  /\ poll.pc = "clear"
  /\ ClearSentBefore(poll.debt.inc)
  /\ Release(poll.at)
  /\ poll' = [pc |-> "select"]
  /\ UNCHANGED <<row, owed, rep, person, history, world>>

StaleHardDueOnly(st) ==
  st.status = "hard" /\ st.sent = "due" /\ st.silence = "off" /\ ~st.acked

\* StaleHards: one cutoff, a RealertEvery ago, for the mark and for the silence.
StaleHard(st) ==
  /\ st.status = "hard"
  /\ st.sent \in {"due", "never"}
  /\ st.silence = "off"
  /\ ~st.acked

PollSelect ==
  /\ poll.pc = "select"
  /\ poll' = IF StaleHard(row) THEN [pc |-> "read"] ELSE Idle
  /\ UNCHANGED <<db, queue, rep, person, history, world>>

\* The row is read once more: recovered, told of meanwhile, never sent, or due.
PollRead ==
  /\ poll.pc = "read"
  /\ poll' = IF row.status # "hard" \/ row.sent = "recent" THEN Idle
             ELSE [pc |-> IF row.sent = "never" THEN "try" ELSE "remind", inc |-> incident]
  /\ UNCHANGED <<db, queue, rep, person, history, world>>

PollTake ==
  /\ poll.pc = "try"
  /\ IF tail # None
       THEN poll' = Idle /\ UNCHANGED queue
       ELSE /\ Enqueue("pass", None, FALSE)
            /\ poll' = [pc |-> "reread", inc |-> poll.inc, at |-> Free]
  /\ UNCHANGED <<db, rep, person, history, world>>

StillUnsentTrusting(st) == TRUE

\* With the place taken, the row of before may be stale.
StillUnsent(st) == st.status = "hard" /\ st.sent = "never"

PollReread ==
  /\ poll.pc = "reread"
  /\ IF StillUnsent(row)
       THEN poll' = [poll EXCEPT !.pc = "card", !.inc = incident] /\ UNCHANGED queue
       ELSE poll' = Idle /\ Release(poll.at)
  /\ UNCHANGED <<db, rep, person, history, world>>

PollCard(outcome) ==
  /\ poll.pc = "card"
  /\ Cancelled(poll.at) => outcome = "refused"
  /\ SendCard(poll.inc, outcome)
  /\ poll' = [pc |-> "mark", inc |-> poll.inc, at |-> poll.at, outcome |-> outcome]
  /\ UNCHANGED <<row, owed, queue, rep, person, incident, closed, lost, world>>

PollMark ==
  /\ poll.pc = "mark"
  /\ MarkCard(poll.inc, poll.outcome)
  /\ Release(poll.at)
  /\ poll' = Idle
  /\ UNCHANGED <<msgs, owed, rep, person, incident, carded, told, closed, heard, world>>

\* SendKeyboard: a reminder has no place in the line and is not remembered.
PollRemind(ok) ==
  /\ poll.pc = "remind"
  /\ \E arrives \in BOOLEAN :
       /\ ok => arrives
       /\ told' = (told \/ (arrives /\ poll.inc = incident))
  /\ poll' = IF ok THEN [pc |-> "bump", inc |-> poll.inc] ELSE Idle
  /\ UNCHANGED <<db, queue, rep, person, incident, carded, closed, heard, lost, world>>

PollBump ==
  /\ poll.pc = "bump"
  /\ BumpLastAlertAt(poll.inc)
  /\ poll' = Idle
  /\ UNCHANGED <<msgs, owed, queue, rep, person, incident, carded, told, closed, heard, world>>

PollStep == \/ PollDebtState \/ PollDebtDrop \/ PollDebtTake \/ PollDebtDelete \/ PollDebtClear
            \/ PollSelect \/ PollRead \/ PollTake \/ PollReread \/ PollMark \/ PollBump
            \/ \E ok \in BOOLEAN : PollReply(ok) \/ PollRemind(ok)
            \/ \E outcome \in Outcomes : PollCard(outcome)

-----------------------------------------------------------------------------
(* The person, time, and the end of the backend.                           *)

ApplySilence(st) == [st EXCEPT !.silence = "on"]
ApplyAck(st) == [st EXCEPT !.acked = TRUE]

\* A button of the application, for an incident that is on, or the button that
\* stays under a card.  The whole row is read, changed and written.
PressGet(button) ==
  /\ phase = "up" /\ person = Idle /\ presses > 0
  /\ row.status = "hard" \/ (button = "silence" /\ carded # {})
  /\ person' = [pc |-> button, read |-> row]
  /\ presses' = presses - 1
  /\ UNCHANGED <<db, queue, rep, poll, history, phase, stops, kills>>

PressSave ==
  /\ person # Idle
  /\ Save(IF person.pc = "silence" THEN ApplySilence(person.read) ELSE ApplyAck(person.read),
          person.read)
  /\ person' = Idle
  /\ UNCHANGED <<msgs, owed, queue, rep, poll, incident, carded, told, closed, heard, world>>

\* Time passes for the row, and for what the handlers have read of it.
Aging(Older(_)) ==
  /\ row' = Older(row)
  /\ rep' = IF "read" \in DOMAIN rep THEN [rep EXCEPT !.read = Older(@)] ELSE rep
  /\ person' = IF person # Idle THEN [person EXCEPT !.read = Older(@)] ELSE person
  /\ UNCHANGED <<msgs, owed, queue, poll, history, world>>

ReminderDue ==
  /\ row.sent = "recent"
  /\ Aging(LAMBDA st : IF st.sent = "recent" THEN [st EXCEPT !.sent = "due"] ELSE st)

SilenceEnds ==
  /\ row.silence # "off"
  /\ Aging(LAMBDA st : [st EXCEPT !.silence = IF @ = "on" THEN "recent" ELSE "off"])

DebtAges == /\ owed # NoDebt /\ ~owed.old
            /\ owed' = [owed EXCEPT !.old = TRUE]
            /\ UNCHANGED <<row, msgs, queue, hands, history, world>>

\* The context is cancelled; handlers and deliveries in progress end.
Stop == /\ phase = "up" /\ stops > 0
        /\ phase' = "stopping" /\ stops' = stops - 1
        /\ place' = [p \in DOMAIN place |->
                       IF place[p].prev = None THEN place[p] ELSE [place[p] EXCEPT !.pc = "cancelled"]]
        /\ UNCHANGED <<db, tail, hands, history, kills, presses>>

Restart == /\ phase = "stopping"
           /\ rep = Idle /\ poll = Idle /\ person = Idle /\ place = <<>>
           /\ phase' = "up"
           /\ UNCHANGED <<db, queue, hands, history, stops, kills, presses>>

\* The container dies: the line and the handlers are gone, the database stays.
Kill == /\ kills > 0
        /\ kills' = kills - 1 /\ phase' = "up"
        /\ place' = <<>> /\ tail' = None
        /\ rep' = Idle /\ poll' = Idle /\ person' = Idle
        /\ UNCHANGED <<db, history, stops, presses>>

ReportStep == \/ ReportSave \/ ReportHard \/ ReportDropDebt
              \/ ReportReread \/ ReportRecovery \/ ReportEnqueue

Delivery(p) == \/ \E outcome \in Outcomes : DeliverCard(p, outcome)
               \/ \E ok \in BOOLEAN : DeliverRecovery(p, ok)
               \/ FinishCard(p) \/ FinishRecovery(p)

Next == \/ \E seen \in {"ok", "fail"} : ReportGet(seen)
        \/ ReportStep
        \/ \E p \in DOMAIN place : Delivery(p)
        \/ PollStart \/ PollStep
        \/ (\E button \in Buttons : PressGet(button)) \/ PressSave
        \/ ReminderDue \/ SilenceEnds \/ DebtAges
        \/ Stop \/ Restart \/ Kill

Spec == Init /\ [][Next]_vars

\* Goroutines go on, passes come, time passes.  Telegram takes one of the
\* messages about an incident that are sent to it again and again.
FairSpec == /\ Spec
            /\ WF_vars(ReportStep) /\ WF_vars(PressSave) /\ WF_vars(Restart)
            /\ \A p \in Places : WF_vars(p \in DOMAIN place /\ Delivery(p))
            /\ WF_vars(PollStart) /\ WF_vars(PollStep)
            /\ SF_vars(PollCard("delivered")) /\ SF_vars(PollRemind(TRUE))
            /\ SF_vars(ReminderDue) /\ SF_vars(DebtAges)

-----------------------------------------------------------------------------
(* Properties.                                                             *)

\* The values each variable takes.  A mark of sending belongs to an incident
\* that is on: a delivery that ends late does not put one on a check that works.
AlertTypeOK ==
  /\ row \in Row
  /\ row.sent # "never" => row.status = "hard"
  /\ \A hand \in {rep, person} : "read" \in DOMAIN hand => hand.read \in Row
  /\ msgs \in 0 .. MaxIncidents
  /\ owed \in [inc : 0 .. MaxIncidents, old : BOOLEAN]
  /\ DOMAIN place \subseteq Places
  /\ \A p \in DOMAIN place :
       place[p] \in [prev : {None} \cup (DOMAIN place \ {p}), kind : {"card", "recovery", "pass"},
                     inc : 0 .. MaxIncidents, known : BOOLEAN, pc : {"waiting", "cancelled"} \cup Outcomes]
  /\ tail \in {None} \cup DOMAIN place
  /\ incident \in 0 .. MaxIncidents
  /\ phase \in {"up", "stopping"} /\ told \in BOOLEAN /\ lost \in BOOLEAN
  /\ heard \in {"card", "recovery", "none"}
  /\ carded \cup closed \subseteq Incidents

\* Of the deliveries of one check one is at work, and the others wait for it,
\* while the backend runs (EnqueueDelivery, TryEnqueueDelivery, release).
OneSender == phase = "up" => Cardinality({p \in DOMAIN place : place[p].prev = None}) <= 1

\* Nobody gets the card of an incident after its recovery was told, unless the
\* row has lost an update (the line, and the second look of the pass at the row,
\* alerts/queue.go and realert/poller.go).
CardBeforeRecovery ==
  [][\A k \in Incidents : lost \/ k \in carded \/ k \notin closed \/ k \notin carded']_vars

\* A card that the person got is not sent again for the same incident, whatever
\* Telegram answers and the pass repeats, unless the row has lost an update or
\* the backend was killed (I-2: a card that may have arrived is not repeated).
CardOnce ==
  [][\A k \in Incidents \cap carded :
       lost \/ kills < MaxKills \/
       /\ \A p \in DOMAIN place :
            ~(place[p].kind = "card" /\ place[p].pc = "waiting" /\ place[p].inc = k
              /\ p \in DOMAIN place' /\ place'[p].pc = "delivered")
       /\ ~(poll.pc = "card" /\ poll.inc = k /\ poll'.pc = "mark" /\ poll'.outcome = "delivered")]_vars

\* The messages the recovery of an incident will answer are not forgotten
\* before the incident has ended, also by a late delivery or a repeated reply of
\* the one before it (ClearSentBefore and the line).
ThreadKept ==
  [][msgs # None /\ msgs' # msgs =>
       \/ msgs' > msgs
       \/ msgs < incident
       \/ row.status # "hard"
       \/ lost]_vars

Quiet == phase = "up" /\ place = <<>> /\ rep = Idle /\ poll = Idle

\* When nothing is under way and the check works, the last a person heard of it
\* is not a red card, unless its recovery is still owed, or was dropped by a pass
\* (deliverRecovery, hardNeverDelivered, retryOwedReplies).  It speaks of people
\* with a message to answer to, and of no stop: a recovery that gives up its
\* wait can overtake the card.
RedCardAnswered ==
  Quiet /\ ~lost /\ stops = MaxStops /\ kills = MaxKills /\ row.status = "ok" /\ msgs # None
    => heard # "card" \/ owed # NoDebt

\* A person hears of an incident that lasts, by its card or a reminder, though
\* Telegram refuses, the backend dies, and marks are written at once
\* by report, delivery and pass; unless somebody asked for quiet.
HardIsTold ==
  \A k \in Incidents :
    (incident = k /\ row.status = "hard") ~>
      (told \/ incident # k \/ row.status # "hard" \/ row.silence # "off" \/ row.acked)

\* A recovery that is owed is told, dropped for a new failure, or lapses.
DebtEnds == (owed # NoDebt) ~> (owed = NoDebt)

-----------------------------------------------------------------------------
(* What the repository says, and the code does not do.                     *)

\* db/state.go:268-270: an incident whose card nobody got is taken by the next
\* pass; state.go:265-266: unless it is silenced now, or acknowledged.
UndeliveredTaken ==
  [][poll.pc = "select" /\ poll'.pc # "select"
       /\ row.status = "hard" /\ row.sent = "never" /\ row.silence # "on" /\ ~row.acked
     => poll'.pc = "read" \/ kills' # kills]_vars
=============================================================================
