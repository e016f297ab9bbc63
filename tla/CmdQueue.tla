------------------------------ MODULE CmdQueue ------------------------------
(***************************************************************************)
(* The in-memory command queue of the backend                              *)
(* (internal/backend/cmd/queue.go) as its callers drive it: the operator   *)
(* and the deferred-update code put commands in, the long poll of a router *)
(* takes them out and may fail to deliver them, the router's answer is     *)
(* recorded, and a janitor sweeps what is old.                             *)
(*                                                                         *)
(* Time.  The code stores instants (ExpiresAt, issuedAt, activeUntil,      *)
(* recordedAt) and only ever compares them with the current time.  The     *)
(* model stores what those comparisons see: the time a command has left,   *)
(* the age of an issue or of a result, the time an early release still     *)
(* holds.  Ages stop growing past SweepTTL, where no test of the code can  *)
(* tell them apart, so time itself needs no bound.                         *)
(*                                                                         *)
(* Identifiers.  newCmdID draws them at random, so a new command has an    *)
(* identifier that nothing remembers; the model reuses an identifier once  *)
(* the queue and the poll handlers have forgotten it.  An identifier       *)
(* stands for a command of one action: self_update (UpdateIds), the one    *)
(* action that is superseded, held back by the dispatch limit and resent,  *)
(* or some other action (OtherIds).                                        *)
(***************************************************************************)
EXTENDS Integers, Sequences, SequencesExt, FiniteSets

CONSTANTS
  Users,       \* routers (users.id in the backend)
  UpdateIds,   \* identifiers of self_update commands
  OtherIds,    \* identifiers of commands of any other action
  UpdateTTL,   \* defaultCommandTTL("self_update")
  OtherTTL,    \* defaultCommandTTL of the other action
  Window,      \* selfUpdateDispatchWindow
  MaxInFlight, \* maxConcurrentReleaseProxy
  Cooldown,    \* proxyBusyCooldown: early release of a busy answer
  SweepTTL     \* age at which the janitor evicts

\* The code's constants: every duration is positive, a release proxy slot
\* exists, and one sweep period (1h) outlives the dispatch window (12m).
ASSUME QueueConstants ==
  /\ UpdateIds \cap OtherIds = {}
  /\ UpdateTTL \in Nat \ {0}
  /\ OtherTTL \in Nat \ {0}
  /\ Window \in Nat \ {0}
  /\ MaxInFlight \in Nat \ {0}
  /\ Cooldown \in Nat \ {0}
  /\ SweepTTL \in Nat \ {0}
  /\ Window <= SweepTTL
  /\ UpdateTTL <= SweepTTL

Ids == UpdateIds \cup OtherIds

\* Absence of a map entry, and the zero value of activeUntil.
None == -1

VARIABLES
  pending,   \* q.pending: per router, commands not yet issued, in order
  issued,    \* q.issued: per router and id, when it was handed out
  results,   \* q.results: per router and id, the recorded answer's age
  writing,   \* commands Dequeue returned to a poll handler that has not yet
             \* finished writing its HTTP response
  deferred   \* history: ids that EnqueueIfNoActive put in

vars == <<pending, issued, results, writing, deferred>>

TTL(id) == IF id \in UpdateIds THEN UpdateTTL ELSE OtherTTL

MaxTTL == IF UpdateTTL > OtherTTL THEN UpdateTTL ELSE OtherTTL

Command == [id : Ids, left : 0 .. MaxTTL]

\* commandEntry: the command's remaining life, the age of the issue and the
\* time until activeUntil (None: the zero value, the TTL of the action rules).
Entry == [left : 0 .. MaxTTL, age : 0 .. SweepTTL + 1,
          hold : (0 .. MaxTTL) \cup {None}]

Absent == [left |-> 0, age |-> 0, hold |-> None - 1]

Expired(c) == c.left = 0

IsIssued(u, id) == issued[u][id] # Absent

Answered(u, id) == results[u][id] # None

PendingIds(u) == {pending[u][i].id : i \in DOMAIN pending[u]}

\* What still refers to an identifier: an id nothing knows is a new one.
InUse(id) == \E u \in Users : \/ id \in PendingIds(u)
                              \/ IsIssued(u, id)
                              \/ Answered(u, id)
                              \/ \E c \in writing[u] : c.id = id

Init == /\ pending = [u \in Users |-> <<>>]
        /\ issued = [u \in Users |-> [id \in Ids |-> Absent]]
        /\ results = [u \in Users |-> [id \in Ids |-> None]]
        /\ writing = [u \in Users |-> {}]
        /\ deferred = {}

-----------------------------------------------------------------------------
(* The dispatch limit: how many routers have a self_update in work.        *)

InWork == {p \in Users \X UpdateIds : /\ IsIssued(p[1], p[2])
                                      /\ issued[p[1]][p[2]].age < Window
                                      /\ ~Answered(p[1], p[2])}

\* One more than the limit slips through.
DispatchBlockedOffByOne(id) == id \in UpdateIds /\ Cardinality(InWork) > MaxInFlight

DispatchBlocked(id) == id \in UpdateIds /\ Cardinality(InWork) >= MaxInFlight

-----------------------------------------------------------------------------
(* Is a self_update of the router still in work?                           *)

IssueActive(u, id) ==
  /\ IsIssued(u, id)
  /\ IF issued[u][id].hold # None
     THEN issued[u][id].hold > 0
     ELSE issued[u][id].age < TTL(id)

PendingActive(u, id) ==
  \E i \in DOMAIN pending[u] : pending[u][i].id = id /\ ~Expired(pending[u][i])

\* Only the queue is looked at, not what has already been handed out.
HasActiveUpdatePendingOnly(u) == \E id \in UpdateIds : PendingActive(u, id)

HasActiveUpdate(u) ==
  \E id \in UpdateIds : PendingActive(u, id) \/ IssueActive(u, id)

-----------------------------------------------------------------------------
(* Putting commands in.                                                    *)

\* The queue without its self_update commands, in order.
WithoutUpdates(q) ==
  LET keep[i \in 0 .. Len(q)] ==
        IF i = 0 THEN <<>>
        ELSE IF q[i].id \in UpdateIds THEN keep[i - 1]
        ELSE Append(keep[i - 1], q[i])
  IN keep[Len(q)]

\* The new command joins the old ones instead of superseding them.
EnqueuedNoSupersede(q, id) == Append(q, [id |-> id, left |-> TTL(id)])

Enqueued(q, id) ==
  Append(IF id \in UpdateIds THEN WithoutUpdates(q) ELSE q,
         [id |-> id, left |-> TTL(id)])

Enqueue(u, id) ==
  /\ ~InUse(id)
  /\ pending' = [pending EXCEPT ![u] = Enqueued(@, id)]
  /\ deferred' = deferred \ {id}
  /\ UNCHANGED <<issued, results, writing>>

EnqueueIfNoActive(u, id) ==
  /\ id \in UpdateIds
  /\ ~InUse(id)
  /\ ~HasActiveUpdate(u)
  /\ pending' = [pending EXCEPT ![u] = Enqueued(@, id)]
  /\ deferred' = deferred \cup {id}
  /\ UNCHANGED <<issued, results, writing>>

DropPending(u) ==
  /\ pending[u] # <<>>
  /\ pending' = [pending EXCEPT ![u] = WithoutUpdates(@)]
  /\ UNCHANGED <<issued, results, writing, deferred>>

-----------------------------------------------------------------------------
(* Taking commands out: one turn of Dequeue's loop, and what the poll      *)
(* handler does with the command it got.                                   *)

Dispatchable(u, i) == \/ Expired(pending[u][i])
                      \/ ~DispatchBlocked(pending[u][i].id)

NextDispatchable(u, i) == /\ i \in DOMAIN pending[u]
                          /\ Dispatchable(u, i)
                          /\ \A j \in 1 .. i - 1 : ~Dispatchable(u, j)

\* An expired command is thrown away; the mutex is released around the drop
\* handler, so each drop is a step of its own.
DropExpired(u, i) ==
  /\ NextDispatchable(u, i)
  /\ Expired(pending[u][i])
  /\ pending' = [pending EXCEPT ![u] = RemoveAt(@, i)]
  /\ UNCHANGED <<issued, results, writing, deferred>>

Issue(u, i) ==
  /\ NextDispatchable(u, i)
  /\ ~Expired(pending[u][i])
  /\ LET c == pending[u][i] IN
     /\ pending' = [pending EXCEPT ![u] = RemoveAt(@, i)]
     /\ issued' = [issued EXCEPT ![u][c.id] =
                     [left |-> c.left, age |-> 0, hold |-> None]]
     /\ writing' = [writing EXCEPT ![u] = @ \cup {c}]
  /\ UNCHANGED <<results, deferred>>

\* The response was written.
Deliver(u, c) ==
  /\ c \in writing[u]
  /\ writing' = [writing EXCEPT ![u] = @ \ {c}]
  /\ UNCHANGED <<pending, issued, results, deferred>>

\* May an undelivered command go back to the head of its queue?
Returns(u, c) ==
  \A i \in DOMAIN pending[u] :
     /\ pending[u][i].id # c.id
     /\ ~(c.id \in UpdateIds /\ pending[u][i].id \in UpdateIds)

\* The test for an answer that came before the write error was noticed is
\* forgotten.
ReturnUndeliveredAnswered(u, c) ==
  /\ c \in writing[u]
  /\ writing' = [writing EXCEPT ![u] = @ \ {c}]
  /\ issued' = [issued EXCEPT ![u][c.id] = Absent]
  /\ pending' = [pending EXCEPT ![u] = IF Returns(u, c) THEN Cons(c, @) ELSE @]
  /\ UNCHANGED <<results, deferred>>

\* A returned command starts its life anew.
ReturnUndeliveredFresh(u, c) ==
  /\ c \in writing[u]
  /\ writing' = [writing EXCEPT ![u] = @ \ {c}]
  /\ IF Answered(u, c.id)
     THEN UNCHANGED <<pending, issued>>
     ELSE /\ issued' = [issued EXCEPT ![u][c.id] = Absent]
          /\ pending' = [pending EXCEPT ![u] =
               IF Returns(u, c) THEN Cons([c EXCEPT !.left = TTL(c.id)], @) ELSE @]
  /\ UNCHANGED <<results, deferred>>

\* The poll broke off before the response was written.
ReturnUndelivered(u, c) ==
  /\ c \in writing[u]
  /\ writing' = [writing EXCEPT ![u] = @ \ {c}]
  /\ IF Answered(u, c.id)
     THEN UNCHANGED <<pending, issued>>
     ELSE /\ issued' = [issued EXCEPT ![u][c.id] = Absent]
          /\ pending' = [pending EXCEPT ![u] =
                           IF Returns(u, c) THEN Cons(c, @) ELSE @]
  /\ UNCHANGED <<results, deferred>>

-----------------------------------------------------------------------------
(* Answers, early release, the janitor, a restart, the passing of time.    *)

\* Every other outcome of RecordResult (a duplicate, an answer to a command
\* that was not issued) leaves the queue as it is.
RecordResult(u, id) ==
  /\ ~Answered(u, id)
  /\ IsIssued(u, id)
  /\ results' = [results EXCEPT ![u][id] = 0]
  /\ UNCHANGED <<pending, issued, writing, deferred>>

\* The result handler calls this once, for the busy answer it has just
\* recorded.
ReleaseActive(u, id) ==
  /\ id \in UpdateIds
  /\ Answered(u, id)
  /\ IsIssued(u, id)
  /\ issued[u][id].hold = None
  /\ LET rest == TTL(id) - issued[u][id].age
         until == IF Cooldown > rest THEN rest ELSE Cooldown
     IN issued' = [issued EXCEPT ![u][id].hold = IF until > 0 THEN until ELSE 0]
  /\ UNCHANGED <<pending, results, writing, deferred>>

TooOld(age) == age > SweepTTL

Sweep ==
  /\ results' = [u \in Users |-> [id \in Ids |->
                   IF TooOld(results[u][id]) THEN None ELSE results[u][id]]]
  /\ issued' = [u \in Users |-> [id \in Ids |->
                   IF TooOld(issued[u][id].age) THEN Absent ELSE issued[u][id]]]
  /\ UNCHANGED <<pending, writing, deferred>>

\* The time left is not stopped at zero.
LessUnbounded(n) == n - 1

Less(n) == IF n > 0 THEN n - 1 ELSE n

Older(age) == IF age <= SweepTTL THEN age + 1 ELSE age

Aged(c) == [c EXCEPT !.left = Less(@)]

AgedEntry(e) == [left |-> Less(e.left), age |-> Older(e.age), hold |-> Less(e.hold)]

Tick ==
  /\ pending' = [u \in Users |-> [i \in DOMAIN pending[u] |-> Aged(pending[u][i])]]
  /\ writing' = [u \in Users |-> {Aged(c) : c \in writing[u]}]
  /\ issued' = [u \in Users |-> [id \in Ids |->
                  IF IsIssued(u, id) THEN AgedEntry(issued[u][id]) ELSE Absent]]
  /\ results' = [u \in Users |-> [id \in Ids |->
                  IF Answered(u, id) THEN Older(results[u][id]) ELSE None]]
  /\ UNCHANGED deferred

\* The backend restarts: the maps are in memory and the polls break off.
Restart == /\ pending' = [u \in Users |-> <<>>]
           /\ issued' = [u \in Users |-> [id \in Ids |-> Absent]]
           /\ results' = [u \in Users |-> [id \in Ids |-> None]]
           /\ writing' = [u \in Users |-> {}]
           /\ deferred' = {}

-----------------------------------------------------------------------------

Poll(u) == \E i \in DOMAIN pending[u] : DropExpired(u, i) \/ Issue(u, i)

Next ==
  \/ \E u \in Users, id \in Ids :
       \/ Enqueue(u, id)
       \/ EnqueueIfNoActive(u, id)
       \/ RecordResult(u, id)
       \/ ReleaseActive(u, id)
  \/ \E u \in Users : DropPending(u) \/ Poll(u)
  \/ \E u \in Users : \E c \in writing[u] :
       Deliver(u, c) \/ ReturnUndelivered(u, c)
  \/ Sweep
  \/ Tick
  \/ Restart

Spec == Init /\ [][Next]_vars

\* Time passes, and a router that is up keeps polling (the agent's loop polls
\* again after every answer and every error).
FairSpec == Spec /\ WF_vars(Tick) /\ \A u \in Users : WF_vars(Poll(u))

-----------------------------------------------------------------------------

\* Every part of the queue holds values the code can put there.
TypeOK ==
  /\ pending \in [Users -> Seq(Command)]
  /\ issued \in [Users -> [Ids -> Entry \cup {Absent}]]
  /\ results \in [Users -> [Ids -> (0 .. SweepTTL + 1) \cup {None}]]
  /\ writing \in [Users -> SUBSET Command]
  /\ deferred \subseteq UpdateIds

\* A command is in one stage of its life only: while it waits in the queue it
\* waits once, is not also handed out, not also being written to a poll, and
\* has no answer (so a router is never handed a command it has answered).
\* Dequeue, ReturnUndelivered and RecordResult of different connections race.
NoDoubleLife ==
  \A u \in Users : \A i \in DOMAIN pending[u] :
    LET id == pending[u][i].id IN
    /\ \A j \in DOMAIN pending[u] : pending[u][j].id = id => j = i
    /\ ~IsIssued(u, id)
    /\ ~Answered(u, id)
    /\ \A c \in writing[u] : c.id # id

\* A router never has two self_update commands waiting, whoever put them in
\* and whatever came back from a broken poll: the older one is superseded.
OnePendingUpdate ==
  \A u \in Users : \A i, j \in DOMAIN pending[u] :
    pending[u][i].id \in UpdateIds /\ pending[u][j].id \in UpdateIds => i = j

\* No more routers have an unanswered self_update inside the dispatch window
\* than the release proxy serves at once, although answers, broken polls and
\* the janitor take entries away in any order (AttachDeployDispatchLimit).
DispatchCap == Cardinality(InWork) <= MaxInFlight

\* The deferred path never stacks updates: of the self_update commands that
\* EnqueueIfNoActive put in for a router, at most one is still active, also
\* after releases, returns, lapses and sweeps (the race B1 of its comment).
ActiveUpdates(u) == {id \in UpdateIds : PendingActive(u, id) \/ IssueActive(u, id)}

DeferredNeverStack ==
  \A u \in Users : \A id1, id2 \in ActiveUpdates(u) \cap deferred : id1 = id2

\* A command does not wait for ever in the queue of a router that polls: it is
\* handed out or dropped, even behind updates the dispatch limit holds back and
\* behind commands that broken polls keep returning to the head.
PendingLeaves ==
  \A u \in Users, id \in Ids : id \in PendingIds(u) ~> id \notin PendingIds(u)
=============================================================================
