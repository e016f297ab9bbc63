--------------------------- MODULE CommandPromise ---------------------------
(***************************************************************************)
(* What the command channel promises about a command, seen from outside:   *)
(* the router runs it once, and again only when it had a reason to forget  *)
(* the run; the backend shows the outcome of a run, and while it shows one *)
(* it does not show another.  Nothing is said about queues, polls, caches, *)
(* files or retries: those are the ways CommandChannel keeps the promise.  *)
(***************************************************************************)
CONSTANTS Ids, Outcomes, NoOutcome

VARIABLES
  ran,      \* outcomes of the finished runs of each command
  inRun,    \* commands the router has begun to run and not finished
  excused,  \* commands whose run the router had a reason to forget
  answer    \* the answer the backend shows for each command, or NoOutcome

pvars == <<ran, inRun, excused, answer>>

Init == /\ ran = [id \in Ids |-> {}]
        /\ inRun = {}
        /\ excused = {}
        /\ answer = [id \in Ids |-> NoOutcome]

Begin(id) == /\ (ran[id] = {} /\ id \notin inRun) \/ id \in excused
             /\ inRun' = inRun \cup {id}
             /\ UNCHANGED <<ran, excused, answer>>

Finish(id, out) == /\ id \in inRun
                   /\ ran' = [ran EXCEPT ![id] = @ \cup {out}]
                   /\ inRun' = inRun \ {id}
                   /\ UNCHANGED <<excused, answer>>

\* A reason to forget runs: a crash (in mid-run, or with the file behind), the
\* age of the memory, a full memory.
Excuse(ids) == /\ excused' = excused \cup ids
               /\ inRun' \in {inRun, inRun \ ids}
               /\ UNCHANGED <<ran, answer>>

\* The shown answer is the outcome of a run.
Show(id, out) == /\ answer[id] = NoOutcome
                 /\ out \in ran[id]
                 /\ answer' = [answer EXCEPT ![id] = out]
                 /\ UNCHANGED <<ran, inRun, excused>>

\* The janitor or a restart of the backend takes answers away.
Withdraw(ids) ==
  /\ answer' = [id \in Ids |-> IF id \in ids THEN NoOutcome ELSE answer[id]]
  /\ UNCHANGED <<ran, inRun, excused>>

Next == \/ \E id \in Ids : Begin(id)
        \/ \E id \in Ids, out \in Outcomes : Finish(id, out) \/ Show(id, out)
        \/ \E ids \in SUBSET Ids : Excuse(ids) \/ Withdraw(ids)

Spec == Init /\ [][Next]_pvars
=============================================================================
