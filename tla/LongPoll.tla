------------------------------ MODULE LongPoll ------------------------------
(***************************************************************************)
(* How Dequeue waits (internal/backend/cmd/queue.go).  A poll that finds   *)
(* nothing parks on a condition variable under the queue's mutex.  Whoever *)
(* puts a command in changes the queue under the mutex and broadcasts      *)
(* after unlocking; the end of a poll (its deadline, or its connection     *)
(* going away) is broadcast by a helper goroutine that never takes the     *)
(* mutex.  sync.Cond keeps nothing: a broadcast wakes the polls parked at  *)
(* that moment and no other.                                               *)
(*                                                                         *)
(* The polls are those of one router; the commands they wait for, those    *)
(* the dispatch limit does not hold back, are a number.                    *)
(***************************************************************************)
EXTENDS Integers

CONSTANTS
  Polls,        \* poll handlers of the router
  MaxCommands,  \* bound: commands waiting at once
  MaxEnqueuers  \* bound: enqueuers between their unlock and their broadcast

Free == "free"

ASSUME PollConstants == MaxCommands \in Nat /\ MaxEnqueuers \in Nat /\ Free \notin Polls

VARIABLES
  mu,       \* who holds the queue's mutex, or Free
  pc,       \* where each poll is
  late,     \* polls whose deadline has passed
  gone,     \* polls whose connection has gone away
  helper,   \* polls whose helper goroutine has yet to broadcast
  queued,   \* commands waiting in the router's queue
  owed      \* broadcasts that enqueuers have yet to make

vars == <<mu, pc, late, gone, helper, queued, owed>>

Init == /\ mu = Free
        /\ pc = [p \in Polls |-> "idle"]
        /\ late = {} /\ gone = {}
        /\ helper = {}
        /\ queued = 0
        /\ owed = 0

Parked == {p \in Polls : pc[p] = "parked"}

\* Every parked poll will take the mutex and look again.
Woken == [p \in Polls |-> IF p \in Parked THEN "locking" ELSE pc[p]]

\* A poll arrives: the helper goroutine starts, then the mutex is taken.
Start(p) == /\ pc[p] = "idle"
            /\ pc' = [pc EXCEPT ![p] = "locking"]
            /\ late' = late \ {p} /\ gone' = gone \ {p}
            /\ helper' = helper \cup {p}
            /\ UNCHANGED <<mu, queued, owed>>

Lock(p) == /\ pc[p] = "locking" /\ mu = Free
           /\ mu' = p
           /\ pc' = [pc EXCEPT ![p] = "looking"]
           /\ UNCHANGED <<late, gone, helper, queued, owed>>

\* Dequeue returns: the mutex is released and the helper is stopped.
Leave(p) == /\ mu' = Free
            /\ pc' = [pc EXCEPT ![p] = "idle"]
            /\ helper' = helper \ {p}
            /\ UNCHANGED <<late, gone, owed>>

\* The mutex is released before the poll has joined the waiters.
LookUnlocks(p) ==
  /\ pc[p] = "looking"
  /\ \/ p \in gone /\ Leave(p) /\ UNCHANGED queued
     \/ p \notin gone /\ queued > 0 /\ Leave(p) /\ queued' = queued - 1
     \/ p \in late \ gone /\ queued = 0 /\ Leave(p) /\ UNCHANGED queued
     \/ /\ p \notin late \cup gone /\ queued = 0
        /\ pc' = [pc EXCEPT ![p] = "parking"]
        /\ mu' = Free
        /\ UNCHANGED <<late, gone, helper, queued, owed>>

\* One turn of the loop: a poll whose connection is gone leaves with nothing,
\* another takes a command if there is one, else it leaves if it is late and
\* goes to park if it is not.
Look(p) ==
  /\ pc[p] = "looking"
  /\ \/ p \in gone /\ Leave(p) /\ UNCHANGED queued
     \/ p \notin gone /\ queued > 0 /\ Leave(p) /\ queued' = queued - 1
     \/ p \in late \ gone /\ queued = 0 /\ Leave(p) /\ UNCHANGED queued
     \/ /\ p \notin late \cup gone /\ queued = 0
        /\ pc' = [pc EXCEPT ![p] = "parking"]
        /\ UNCHANGED <<mu, late, gone, helper, queued, owed>>

\* Wait: the poll joins the waiters and releases the mutex.
Park(p) == /\ pc[p] = "parking"
           /\ pc' = [pc EXCEPT ![p] = "parked"]
           /\ mu' = Free
           /\ UNCHANGED <<late, gone, helper, queued, owed>>

\* The deadline passes, or the connection goes away.
PollOver(p) == /\ pc[p] # "idle"
               /\ \/ late' = late \cup {p} /\ UNCHANGED gone
                  \/ gone' = gone \cup {p} /\ UNCHANGED late
               /\ UNCHANGED <<mu, pc, helper, queued, owed>>

\* The helper broadcasts once and ends; it does not take the mutex.
HelperBroadcast(p) == /\ p \in helper \cap (late \cup gone)
                      /\ helper' = helper \ {p}
                      /\ pc' = Woken
                      /\ UNCHANGED <<mu, late, gone, queued, owed>>

\* The enqueuer forgets the broadcast.
EnqueueSilent == /\ mu = Free /\ queued < MaxCommands
                 /\ queued' = queued + 1
                 /\ UNCHANGED <<mu, pc, late, gone, helper, owed>>

\* Enqueue, EnqueueIfNoActive and ReturnUndelivered: in under the mutex ...
Enqueue == /\ mu = Free /\ queued < MaxCommands /\ owed < MaxEnqueuers
           /\ queued' = queued + 1
           /\ owed' = owed + 1
           /\ UNCHANGED <<mu, pc, late, gone, helper>>

\* ... and a broadcast after it is released.
EnqueueBroadcast == /\ owed > 0
                    /\ owed' = owed - 1
                    /\ pc' = Woken
                    /\ UNCHANGED <<mu, late, gone, helper, queued>>

\* The command is taken out without a look at whether the queue holds one.
DropPendingUnchecked == /\ mu = Free
                        /\ queued' = queued - 1
                        /\ UNCHANGED <<mu, pc, late, gone, helper, owed>>

\* DropPending takes commands out and wakes nobody.
DropPending == /\ mu = Free /\ queued > 0
               /\ queued' = 0
               /\ UNCHANGED <<mu, pc, late, gone, helper, owed>>

PollStep(p) == Lock(p) \/ Look(p) \/ Park(p) \/ HelperBroadcast(p)

Next == \/ \E p \in Polls : Start(p) \/ PollStep(p) \/ PollOver(p)
        \/ Enqueue \/ EnqueueBroadcast \/ DropPending

Spec == Init /\ [][Next]_vars

\* Goroutines that can run do run, and the mutex is not starved (Go's mutex
\* hands over to a waiter after 1ms).
FairSpec == /\ Spec
            /\ WF_vars(EnqueueBroadcast)
            /\ \A p \in Polls : /\ WF_vars(Look(p) \/ Park(p) \/ HelperBroadcast(p))
                                /\ SF_vars(Lock(p))

-----------------------------------------------------------------------------

\* Values the wait protocol can take.
TypeOK == /\ mu \in Polls \cup {Free}
          /\ pc \in [Polls -> {"idle", "locking", "looking", "parking", "parked"}]
          /\ late \subseteq Polls /\ gone \subseteq Polls /\ helper \subseteq Polls
          /\ queued \in 0 .. MaxCommands /\ owed \in 0 .. MaxEnqueuers

\* No wakeup of an enqueue is lost: while a command waits and a poll is parked,
\* a broadcast is still to come.
NoStrandedCommand == queued > 0 /\ Parked # {} => owed > 0

\* A poll that is waiting when a command comes does not sleep on: it leaves,
\* or the command is gone.
WaiterServed ==
  \A p \in Polls : (queued > 0 /\ pc[p] = "parked") ~> (queued = 0 \/ pc[p] = "idle")

\* A poll returns after its deadline passed or its connection went away, as
\* Dequeue's comment says: "Returns (nil, false) if timed out or ctx cancelled."
OverPollReturns == \A p \in Polls : p \in late \cup gone ~> pc[p] = "idle"
=============================================================================
