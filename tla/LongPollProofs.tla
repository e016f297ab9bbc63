--------------------------- MODULE LongPollProofs ---------------------------
(***************************************************************************)
(* Proofs about the wait protocol of Dequeue, for any number of polls.     *)
(*                                                                         *)
(* That no command is stranded is not inductive: a poll that is about to   *)
(* park has looked at the queue a moment ago.  What makes the protocol     *)
(* right is that such a poll holds the mutex, so the queue it found empty  *)
(* is still empty when it joins the waiters.                               *)
(***************************************************************************)
EXTENDS LongPoll, TLAPS

\* The polls that hold the mutex are those between Lock and Wait.
MutexHeld == \A p \in Polls : mu = p <=> pc[p] \in {"looking", "parking"}

\* The queue is empty while a poll is about to park.
ParksOnEmpty == \A p \in Polls : pc[p] = "parking" => queued = 0

PollInv == TypeOK /\ MutexHeld /\ ParksOnEmpty /\ NoStrandedCommand

LEMMA InitPollInv == Init => PollInv
BY PollConstants DEF Init, PollInv, TypeOK, MutexHeld, ParksOnEmpty,
     NoStrandedCommand, Parked, Free

LEMMA NextPollInv == PollInv /\ [Next]_vars => PollInv'
<1> SUFFICES ASSUME PollInv, [Next]_vars PROVE PollInv'
  OBVIOUS
<1> USE PollConstants DEF PollInv, TypeOK, MutexHeld, ParksOnEmpty, NoStrandedCommand, Parked
<1>1. ASSUME NEW p \in Polls, Start(p) PROVE PollInv'
  BY <1>1 DEF Start
<1>2. ASSUME NEW p \in Polls, Lock(p) PROVE PollInv'
  BY <1>2 DEF Lock
<1>3. ASSUME NEW p \in Polls, Look(p) PROVE PollInv'
  <2>1. CASE Leave(p) /\ (UNCHANGED queued \/ (queued > 0 /\ queued' = queued - 1))
    BY <1>3, <2>1 DEF Look, Leave
  <2>2. CASE queued = 0 /\ pc' = [pc EXCEPT ![p] = "parking"]
                        /\ UNCHANGED <<mu, late, gone, helper, queued, owed>>
    BY <1>3, <2>2 DEF Look
  <2>3. QED
    BY <1>3, <2>1, <2>2 DEF Look
<1>4. ASSUME NEW p \in Polls, Park(p) PROVE PollInv'
  BY <1>4 DEF Park
<1>5. ASSUME NEW p \in Polls, HelperBroadcast(p) PROVE PollInv'
  BY <1>5 DEF HelperBroadcast, Woken
<1>6. ASSUME NEW p \in Polls, PollOver(p) PROVE PollInv'
  BY <1>6 DEF PollOver
<1>7. CASE Enqueue
  BY <1>7 DEF Enqueue
<1>8. CASE EnqueueBroadcast
  BY <1>8 DEF EnqueueBroadcast, Woken
<1>9. CASE DropPending
  BY <1>9 DEF DropPending
<1>10. CASE UNCHANGED vars
  BY <1>10 DEF vars
<1>11. QED
  BY <1>1, <1>2, <1>3, <1>4, <1>5, <1>6, <1>7, <1>8, <1>9, <1>10 DEF Next, PollStep

LEMMA SpecPollInv == Spec => []PollInv
BY InitPollInv, NextPollInv, PTL DEF Spec

\* The variables of the wait protocol keep their types.
THEOREM WaitTypeCorrect == Spec => []TypeOK
BY SpecPollInv, PTL DEF PollInv

\* Whatever the number of polls, and however enqueuers, deadlines and closed
\* connections interleave with Dequeue's loop, a command never waits beside a
\* parked poll with no broadcast to come.
THEOREM NoCommandStranded == Spec => []NoStrandedCommand
BY SpecPollInv, PTL DEF PollInv
=============================================================================
