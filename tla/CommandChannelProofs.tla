------------------------ MODULE CommandChannelProofs ------------------------
(***************************************************************************)
(* Proofs about CommandChannel, for any number of routers, commands and    *)
(* results the agent keeps, any durations, any adversities: its types,     *)
(* that the journal is true, that the row of an update is closed, and that *)
(* the channel implements CommandPromise.                                  *)
(*                                                                         *)
(* ChanInv joins three invariants.                                         *)
(*                                                                         *)
(*   QueueInv (CmdQueueProofs) - every step of the channel is a step of    *)
(*     the queue or none, so what is proved of the queue holds here;       *)
(*   AgentInv - a run that nobody had a reason to forget is remembered     *)
(*     (Remembered), so it is not repeated (RunsOnce) and has one outcome  *)
(*     (OneOutcome); what is remembered was an outcome (WasRun);           *)
(*   the backend's - a command belongs to one router (Home); whatever is   *)
(*     said of a command, in a post under way, in the recorded answer or   *)
(*     in a closed row, is an outcome of it; and an update's row is bound  *)
(*     before the command can have reached anybody (Bounded).              *)
(*                                                                         *)
(* Home comes first of all: an answer recorded for one router is never     *)
(* shown next to an answer of another, which is what lets a recorded       *)
(* result be a step Show of the promise.                                   *)
(***************************************************************************)
EXTENDS CommandChannel, CmdQueueProofs

-----------------------------------------------------------------------------
(* The queue, as the channel uses it: which router a command belongs to.   *)

\* The queue still refers to command id of the router with these parts.
Holds(p, s, r, w, id) == \/ \E i \in DOMAIN p : p[i].id = id
                         \/ s[id] # Absent \/ r[id] # None
                         \/ \E c \in w : c.id = id

Known(u, id) == Holds(pending[u], issued[u], results[u], writing[u], id)

NoNewKnown == \A u \in Users, id \in Ids : Known(u, id)' => Known(u, id)

LEMMA InUseIsKnown ==
  \A id \in Ids : InUse(id) <=> \E u \in Users : Known(u, id)
BY DEF InUse, Known, Holds, PendingIds, IsIssued, Answered

\* One router's part changes.
LEMMA OneKnown ==
  ASSUME TypeOK, NEW u \in Users, NEW p, NEW s, NEW r, NEW w,
         pending' = [pending EXCEPT ![u] = p], issued' = [issued EXCEPT ![u] = s],
         results' = [results EXCEPT ![u] = r], writing' = [writing EXCEPT ![u] = w]
  PROVE  /\ \A id \in Ids : Known(u, id)' <=> Holds(p, s, r, w, id)
         /\ \A v \in Users \ {u}, id \in Ids : Known(v, id)' <=> Known(v, id)
<1>1. /\ pending'[u] = p /\ issued'[u] = s /\ results'[u] = r /\ writing'[u] = w
      /\ \A v \in Users \ {u} : /\ pending'[v] = pending[v] /\ issued'[v] = issued[v]
                                /\ results'[v] = results[v] /\ writing'[v] = writing[v]
  BY DEF TypeOK
<1> QED BY <1>1 DEF Known

LEMMA EnqueueKnown ==
  ASSUME TypeOK, NEW u \in Users, NEW id \in Ids, Enqueue(u, id)
  PROVE  /\ \A v \in Users : ~Known(v, id)
         /\ \A v \in Users, j \in Ids : Known(v, j)' => Known(v, j) \/ (v = u /\ j = id)
<1>1. \A v \in Users : ~Known(v, id)
  BY InUseIsKnown DEF Enqueue
<1> DEFINE q == Enqueued(pending[u], id)
<1>2. /\ \A j \in Ids : Known(u, j)' <=> Holds(q, issued[u], results[u], writing[u], j)
      /\ \A v \in Users \ {u}, j \in Ids : Known(v, j)' <=> Known(v, j)
  <2>1. /\ pending' = [pending EXCEPT ![u] = q] /\ issued' = [issued EXCEPT ![u] = issued[u]]
        /\ results' = [results EXCEPT ![u] = results[u]] /\ writing' = [writing EXCEPT ![u] = writing[u]]
    BY SameForOne DEF Enqueue
  <2> QED BY <2>1, OneKnown
<1>3. \A k \in DOMAIN q : q[k].id = id \/ \E j \in DOMAIN pending[u] : q[k] = pending[u][j]
  <2>1. pending[u] \in Seq(Command) /\ \A j \in DOMAIN pending[u] : pending[u][j].id # id
    BY <1>1 DEF TypeOK, Known, Holds
  <2> QED BY <2>1, EnqueuedKeeps
<1> HIDE DEF q
<1> QED BY <1>1, <1>2, <1>3 DEF Known, Holds

LEMMA IssueKnown ==
  ASSUME TypeOK, NEW u \in Users, NEW i \in DOMAIN pending[u], Issue(u, i)
  PROVE  NoNewKnown /\ pending[u][i].id \in Ids /\ Known(u, pending[u][i].id)
<1> DEFINE c == pending[u][i]
           q == RemoveAt(pending[u], i)
           s == [issued[u] EXCEPT ![c.id] = [left |-> c.left, age |-> 0, hold |-> None]]
<1>1. pending[u] \in Seq(Command) /\ c \in Command /\ c.id \in Ids
  BY Types, Elements DEF OneUser
<1>2. /\ pending' = [pending EXCEPT ![u] = q] /\ issued' = [issued EXCEPT ![u] = s]
      /\ results' = results /\ writing' = [writing EXCEPT ![u] = writing[u] \cup {c}]
  BY DEF Issue
<1>3. /\ \A j \in Ids : Known(u, j)' <=> Holds(q, s, results[u], writing[u] \cup {c}, j)
      /\ \A v \in Users \ {u}, j \in Ids : Known(v, j)' <=> Known(v, j)
  BY <1>2, OneKnown, SameForOne
<1>4. \A k \in DOMAIN q : \E j \in DOMAIN pending[u] : q[k] = pending[u][j]
  BY <1>1, RemoveAtKeeps
<1>5. \A j \in Ids : j # c.id => s[j] = issued[u][j]
  BY DEF TypeOK
<1>6. Known(u, c.id)
  BY DEF Known, Holds
<1> HIDE DEF q, s
<1>7. \A j \in Ids : Known(u, j)' => Known(u, j) \/ j = c.id
  BY <1>3, <1>4, <1>5 DEF Known, Holds
<1> HIDE DEF c
<1>8. NoNewKnown
  BY <1>3, <1>6, <1>7 DEF NoNewKnown
<1> QED BY <1>1, <1>6, <1>8 DEF c

LEMMA DropExpiredKnown ==
  ASSUME TypeOK, NEW u \in Users, NEW i \in DOMAIN pending[u], DropExpired(u, i)
  PROVE  NoNewKnown
<1> DEFINE q == RemoveAt(pending[u], i)
<1>1. /\ \A j \in Ids : Known(u, j)' <=> Holds(q, issued[u], results[u], writing[u], j)
      /\ \A v \in Users \ {u}, j \in Ids : Known(v, j)' <=> Known(v, j)
  <2>1. /\ pending' = [pending EXCEPT ![u] = q] /\ issued' = [issued EXCEPT ![u] = issued[u]]
        /\ results' = [results EXCEPT ![u] = results[u]] /\ writing' = [writing EXCEPT ![u] = writing[u]]
    BY SameForOne DEF DropExpired
  <2> QED BY <2>1, OneKnown
<1>2. \A k \in DOMAIN q : \E j \in DOMAIN pending[u] : q[k] = pending[u][j]
  BY RemoveAtKeeps DEF TypeOK
<1> HIDE DEF q
<1> QED BY <1>1, <1>2 DEF Known, Holds, NoNewKnown

LEMMA DeliverKnown ==
  ASSUME TypeOK, NEW u \in Users, NEW c \in writing[u], Deliver(u, c)
  PROVE  NoNewKnown
<1>1. /\ \A j \in Ids : Known(u, j)' <=> Holds(pending[u], issued[u], results[u], writing[u] \ {c}, j)
      /\ \A v \in Users \ {u}, j \in Ids : Known(v, j)' <=> Known(v, j)
  <2>1. /\ pending' = [pending EXCEPT ![u] = pending[u]] /\ issued' = [issued EXCEPT ![u] = issued[u]]
        /\ results' = [results EXCEPT ![u] = results[u]] /\ writing' = [writing EXCEPT ![u] = writing[u] \ {c}]
    BY SameForOne DEF Deliver
  <2> QED BY <2>1, OneKnown
<1> QED BY <1>1 DEF Known, Holds, NoNewKnown

LEMMA ReturnKnown ==
  ASSUME TypeOK, NEW u \in Users, NEW c \in writing[u], ReturnUndelivered(u, c)
  PROVE  NoNewKnown
<1> DEFINE s == [issued[u] EXCEPT ![c.id] = Absent]
           q == IF Returns(u, c) THEN Cons(c, pending[u]) ELSE pending[u]
           w == writing[u] \ {c}
<1>0. c \in Command /\ pending[u] \in Seq(Command) /\ c.id \in Ids
  BY Types, Elements DEF OneUser
<1>1. CASE Answered(u, c.id)
  <2>1. /\ \A j \in Ids : Known(u, j)' <=> Holds(pending[u], issued[u], results[u], w, j)
        /\ \A v \in Users \ {u}, j \in Ids : Known(v, j)' <=> Known(v, j)
    <3>1. /\ pending' = [pending EXCEPT ![u] = pending[u]] /\ issued' = [issued EXCEPT ![u] = issued[u]]
          /\ results' = [results EXCEPT ![u] = results[u]] /\ writing' = [writing EXCEPT ![u] = w]
      BY <1>1, SameForOne DEF ReturnUndelivered
    <3> QED BY <3>1, OneKnown
  <2> QED BY <2>1 DEF Known, Holds, NoNewKnown
<1>2. CASE ~Answered(u, c.id)
  <2>1. /\ \A j \in Ids : Known(u, j)' <=> Holds(q, s, results[u], w, j)
        /\ \A v \in Users \ {u}, j \in Ids : Known(v, j)' <=> Known(v, j)
    <3>1. /\ pending' = [pending EXCEPT ![u] = q] /\ issued' = [issued EXCEPT ![u] = s]
          /\ results' = [results EXCEPT ![u] = results[u]] /\ writing' = [writing EXCEPT ![u] = w]
      BY <1>2, SameForOne DEF ReturnUndelivered
    <3> HIDE DEF q, s, w
    <3> QED BY <3>1, OneKnown
  <2>2. \A k \in DOMAIN q : q[k] = c \/ \E j \in DOMAIN pending[u] : q[k] = pending[u][j]
    BY <1>0, ConsKeeps
  <2>3. \A j \in Ids : s[j] = Absent \/ s[j] = issued[u][j]
    BY DEF TypeOK
  <2> HIDE DEF q, s
  <2> QED BY <2>1, <2>2, <2>3 DEF Known, Holds, NoNewKnown
<1> QED BY <1>1, <1>2

LEMMA RecordKnown ==
  ASSUME TypeOK, NEW u \in Users, NEW id \in Ids, RecordResult(u, id)
  PROVE  /\ NoNewKnown
         /\ \A v \in Users, j \in Ids : Answered(v, j)' <=> Answered(v, j) \/ (v = u /\ j = id)
<1> DEFINE r == [results[u] EXCEPT ![id] = 0]
<1>1. /\ \A j \in Ids : Known(u, j)' <=> Holds(pending[u], issued[u], r, writing[u], j)
      /\ \A v \in Users \ {u}, j \in Ids : Known(v, j)' <=> Known(v, j)
  <2>1. /\ pending' = [pending EXCEPT ![u] = pending[u]] /\ issued' = [issued EXCEPT ![u] = issued[u]]
        /\ results' = [results EXCEPT ![u] = r] /\ writing' = [writing EXCEPT ![u] = writing[u]]
    BY SameForOne DEF RecordResult
  <2> QED BY <2>1, OneKnown
<1>2. r[id] = 0 /\ \A j \in Ids : j # id => r[j] = results[u][j]
  BY DEF TypeOK
<1>3. results'[u] = r /\ \A v \in Users \ {u} : results'[v] = results[v]
  BY DEF RecordResult, TypeOK
<1>4. Known(u, id)
  BY DEF RecordResult, IsIssued, Known, Holds
<1> HIDE DEF r
<1>5. NoNewKnown
  BY <1>1, <1>2, <1>4 DEF Known, Holds, NoNewKnown
<1>6. \A v \in Users, j \in Ids : Answered(v, j)' <=> Answered(v, j) \/ (v = u /\ j = id)
  BY <1>2, <1>3 DEF Answered, None
<1> QED BY <1>5, <1>6

NoNewAnswer == \A u \in Users, id \in Ids : Answered(u, id)' => Answered(u, id)

LEMMA SweepKnown == ASSUME TypeOK, Sweep PROVE NoNewKnown /\ NoNewAnswer
<1>1. \A u \in Users, id \in Ids :
        /\ issued'[u][id] = Absent \/ issued'[u][id] = issued[u][id]
        /\ results'[u][id] = None \/ results'[u][id] = results[u][id]
        /\ pending'[u] = pending[u] /\ writing'[u] = writing[u]
  BY DEF Sweep
<1> QED BY <1>1 DEF NoNewKnown, NoNewAnswer, Known, Holds, Answered

LEMMA TickKnown ==
  ASSUME TypeOK, Tick
  PROVE  /\ NoNewKnown
         /\ \A u \in Users, id \in Ids : Answered(u, id)' <=> Answered(u, id)
<1>1. \A u \in Users, id \in Ids :
        /\ issued[u][id] = Absent => issued'[u][id] = Absent
        /\ results[u][id] = None => results'[u][id] = None
        /\ results[u][id] # None => results'[u][id] # None
  <2> SUFFICES ASSUME NEW u \in Users, NEW id \in Ids
               PROVE  /\ issued[u][id] = Absent => issued'[u][id] = Absent
                      /\ results[u][id] = None => results'[u][id] = None
                      /\ results[u][id] # None => results'[u][id] # None
    OBVIOUS
  <2>1. results[u][id] # None => results[u][id] \in 0 .. SweepTTL + 1
    BY DEF TypeOK
  <2>2. results'[u][id] = IF Answered(u, id) THEN Older(results[u][id]) ELSE None
    BY DEF Tick
  <2> QED BY <2>1, <2>2, QueueConstants DEF Tick, IsIssued, Answered, Older, None
<1>2. ASSUME NEW u \in Users PROVE
        /\ DOMAIN pending'[u] = DOMAIN pending[u]
        /\ \A i \in DOMAIN pending[u] : pending'[u][i].id = pending[u][i].id
        /\ \A c \in writing'[u] : \E d \in writing[u] : c.id = d.id
  <2>1. pending'[u] = [i \in DOMAIN pending[u] |-> Aged(pending[u][i])]
    BY DEF Tick
  <2>2. pending[u] \in Seq(Command) /\ writing[u] \subseteq Command
    BY DEF TypeOK
  <2>3. \A c \in Command : Aged(c).id = c.id
    BY DEF Aged, Command
  <2>4. writing'[u] = {Aged(c) : c \in writing[u]}
    BY DEF Tick
  <2>5. \A i \in DOMAIN pending[u] : pending[u][i] \in Command
    BY Types, Elements
  <2> QED BY <2>1, <2>2, <2>3, <2>4, <2>5
<1>3. NoNewKnown
  BY <1>1, <1>2 DEF NoNewKnown, Known, Holds
<1> QED BY <1>1, <1>3 DEF Answered

LEMMA RestartKnown ==
  ASSUME TypeOK, Restart
  PROVE  NoNewKnown /\ \A u \in Users, id \in Ids : ~Answered(u, id)'
<1>1. \A u \in Users, id \in Ids :
        /\ pending'[u] = <<>> /\ issued'[u][id] = Absent /\ results'[u][id] = None
        /\ writing'[u] = {}
  BY DEF Restart
<1> QED BY <1>1 DEF NoNewKnown, Known, Holds, Answered

-----------------------------------------------------------------------------
(* The agent: what it remembers of its runs.                               *)

Cells == Result \cup {NoResult}

AgentTyped ==
  /\ pc \in {"polling", "running", "remember", "posting", "reposting"}
  /\ job \in Ids \cup {NoCommand} /\ out \in Outcomes \cup {"none"}
  /\ conn \in Ids \cup {NoCommand} /\ todo \subseteq Ids
  /\ cache \in [Ids -> Cells] /\ disk \in [Ids -> Cells]
  /\ ran \in [Ids -> SUBSET Outcomes] /\ excused \subseteq Ids

\* What the loop holds at each of its stages.
AgentFits ==
  /\ pc \in {"running", "remember", "posting"} => job \in Ids
  /\ pc = "posting" => Cached(job)
  /\ pc = "remember" => out \in ran[job]
  /\ pc \in {"polling", "running", "remember"} => todo = {}
  /\ \A id \in todo : Cached(id)

\* A run that the agent had no reason to forget is in the cache, or about to
\* be put there; no command is run again that was run and not excused.
Remembered(id) ==
  ran[id] # {} /\ id \notin excused =>
    \/ Cached(id) /\ ~Stale(cache[id])
    \/ id = job /\ pc = "remember"
Outlived(id) == Cached(id) /\ Stale(cache[id]) => id \in excused
RunsOnce(id) == pc = "running" /\ job = id => ran[id] = {} \/ id \in excused
OneOutcome(id) == id \notin excused => \A a, b \in ran[id] : a = b

\* What is remembered was the outcome of a run.
WasRun(id) == /\ Cached(id) => cache[id].out \in ran[id]
              /\ disk[id] # NoResult => disk[id].out \in ran[id]

Memory(id) == Remembered(id) /\ Outlived(id) /\ RunsOnce(id) /\ OneOutcome(id) /\ WasRun(id)

AgentInv == AgentTyped /\ AgentFits /\ \A id \in Ids : Memory(id)

LEMMA CellFacts ==
  /\ NoResult \notin Result /\ ~Stale(NoResult)
  /\ \A r \in Result : r.out \in Outcomes /\ r.out # "none" /\ r.age \in 0 .. CacheTTL + 1
BY ChannelConstants DEF NoResult, Result, Stale

\* Marking a result, or letting it grow older, keeps its outcome.
LEMMA CellChanges ==
  ASSUME NEW r \in Result
  PROVE  /\ \A b \in BOOLEAN :
              LET x == [r EXCEPT !.posted = b] IN
              x \in Result /\ x # NoResult /\ x.out = r.out /\ x.age = r.age
         /\ ~Stale(r) =>
              LET x == [r EXCEPT !.age = @ + 1] IN
              x \in Result /\ x # NoResult /\ x.out = r.out
<1>1. ASSUME NEW b \in BOOLEAN
      PROVE  LET x == [r EXCEPT !.posted = b] IN
             x \in Result /\ x # NoResult /\ x.out = r.out /\ x.age = r.age
  <2>1. [r EXCEPT !.posted = b] = [out |-> r.out, age |-> r.age, posted |-> b]
    BY DEF Result
  <2> DEFINE x == [r EXCEPT !.posted = b]
  <2>2. x \in Result /\ x.out = r.out /\ x.age = r.age
    BY <2>1 DEF Result
  <2> HIDE DEF x
  <2>3. x # NoResult
    BY <2>2, CellFacts
  <2> QED BY <2>2, <2>3 DEF x
<1>2. ASSUME ~Stale(r)
      PROVE  LET x == [r EXCEPT !.age = @ + 1] IN
             x \in Result /\ x # NoResult /\ x.out = r.out
  <2>1. [r EXCEPT !.age = @ + 1] = [out |-> r.out, age |-> r.age + 1, posted |-> r.posted]
    BY DEF Result
  <2> DEFINE x == [r EXCEPT !.age = @ + 1]
  <2>2. x \in Result /\ x.out = r.out
    BY <1>2, <2>1, ChannelConstants DEF Result, Stale
  <2> HIDE DEF x
  <2>3. x # NoResult
    BY <2>2, CellFacts
  <2> QED BY <2>2, <2>3 DEF x
<1> QED BY <1>1, <1>2

LEMMA CellOf ==
  ASSUME AgentTyped, NEW id \in Ids, Cached(id)
  PROVE  cache[id] \in Result
BY DEF AgentTyped, Cells, Cached

LEMMA AgentSame ==
  ASSUME AgentInv, UNCHANGED <<agentVars, ran, excused>>
  PROVE  AgentInv'
<1>1. /\ pc' = pc /\ job' = job /\ out' = out /\ conn' = conn /\ todo' = todo
      /\ cache' = cache /\ disk' = disk /\ ran' = ran /\ excused' = excused
  BY DEF agentVars
<1> QED BY <1>1 DEF AgentInv, AgentTyped, AgentFits, Memory, Remembered, Outlived, RunsOnce,
                    OneOutcome, WasRun, Cached

\* The loop moves on, but what it remembers stays, and no run begins.
LEMMA AgentMoves ==
  ASSUME AgentInv, UNCHANGED <<cache, disk, ran, excused>>, AgentTyped', AgentFits',
         pc # "remember", pc' # "running"
  PROVE  AgentInv'
<1> SUFFICES ASSUME NEW id \in Ids PROVE Memory(id)'
  BY DEF AgentInv
<1>1. Memory(id)
  BY DEF AgentInv
<1> QED BY <1>1 DEF Memory, Remembered, Outlived, RunsOnce, OneOutcome, WasRun, Cached

LEMMA PollMoves ==
  ASSUME AgentInv,
         \/ \E u \in Users : TakeCommand(u)
         \/ PollBreaks \/ AnswerFromCache \/ IdlePoll,
         TypeOK
  PROVE  AgentInv'
<1>0. AgentTyped /\ AgentFits
  BY DEF AgentInv
<1>1. ASSUME NEW u \in Users, TakeCommand(u) PROVE AgentInv'
  <2>1. PICK i \in DOMAIN pending[u] : Issue(u, i) /\ conn' = pending[u][i].id
    BY <1>1 DEF TakeCommand
  <2>2. conn' \in Ids
    BY <2>1, IssueKnown
  <2> QED BY <1>0, <1>1, <2>2, AgentMoves DEF TakeCommand, AgentTyped, AgentFits, Cached, histVars
<1>2. CASE PollBreaks
  BY <1>0, <1>2, AgentMoves DEF PollBreaks, AgentTyped, AgentFits, Cached, histVars
<1>3. CASE AnswerFromCache
  BY <1>0, <1>3, AgentMoves DEF AnswerFromCache, AgentTyped, AgentFits, Cached, histVars
<1>4. CASE IdlePoll
  BY <1>0, <1>4, AgentMoves DEF IdlePoll, AgentTyped, AgentFits, Cached, histVars
<1> QED BY <1>1, <1>2, <1>3, <1>4

\* A run begins: nothing that was not excused is run again.
LEMMA StartRunAgent == ASSUME AgentInv, StartRun PROVE AgentInv'
<1>0. AgentTyped /\ AgentFits /\ \A id \in Ids : Memory(id)
  BY DEF AgentInv
<1>1. /\ pc = "polling" /\ conn \in Ids /\ pc' = "running" /\ job' = conn /\ conn' = NoCommand
      /\ out' = out /\ todo' = todo /\ disk' = disk /\ ran' = ran /\ excused' = excused
      /\ cache' = [cache EXCEPT ![conn] = NoResult]
  BY <1>0 DEF StartRun, MustRun, AgentTyped, histVars
<1>2. cache'[conn] = NoResult /\ \A id \in Ids : id # conn => cache'[id] = cache[id]
  BY <1>0, <1>1 DEF AgentTyped
<1>3. AgentTyped' /\ AgentFits'
  BY <1>0, <1>1 DEF AgentTyped, AgentFits, Cells, Cached
<1>4. ran[conn] = {} \/ conn \in excused
  <2>1. Remembered(conn) /\ (Cached(conn) => Stale(cache[conn]))
    BY <1>0, <1>1 DEF Memory, StartRun, MustRun
  <2> QED BY <1>1, <2>1 DEF Remembered
<1>5. ASSUME NEW id \in Ids PROVE Memory(id)'
  <2>1. Memory(id)
    BY <1>0
  <2>2. CASE id = conn
    BY <1>1, <1>2, <1>4, <2>1, <2>2 DEF Memory, Remembered, Outlived, RunsOnce, OneOutcome, WasRun, Cached
  <2>3. CASE id # conn
    BY <1>1, <1>2, <2>1, <2>3 DEF Memory, Remembered, Outlived, RunsOnce, OneOutcome, WasRun, Cached
  <2> QED BY <2>2, <2>3
<1> QED BY <1>3, <1>5 DEF AgentInv

\* A run ends with an outcome.
LEMMA EndRunAgent ==
  ASSUME AgentInv, NEW o \in Outcomes, EndRun(o)
  PROVE  AgentInv'
<1>0. AgentTyped /\ AgentFits /\ \A id \in Ids : Memory(id)
  BY DEF AgentInv
<1>1. /\ pc = "running" /\ job \in Ids /\ pc' = "remember" /\ job' = job /\ conn' = conn /\ out' = o
      /\ todo' = todo /\ todo = {} /\ cache' = cache /\ disk' = disk /\ excused' = excused
      /\ ran' = [ran EXCEPT ![job] = @ \cup {o}]
  BY <1>0 DEF EndRun, AgentFits
<1>2. ran'[job] = ran[job] \cup {o} /\ \A id \in Ids : id # job => ran'[id] = ran[id]
  BY <1>0, <1>1 DEF AgentTyped
<1>3. AgentTyped' /\ AgentFits'
  BY <1>0, <1>1, <1>2 DEF AgentTyped, AgentFits
<1>4. ASSUME NEW id \in Ids PROVE Memory(id)'
  <2>1. Memory(id)
    BY <1>0
  <2>2. CASE id = job
    BY <1>1, <1>2, <2>1, <2>2 DEF Memory, Remembered, Outlived, RunsOnce, OneOutcome, WasRun, Cached
  <2>3. CASE id # job
    BY <1>1, <1>2, <2>1, <2>3 DEF Memory, Remembered, Outlived, RunsOnce, OneOutcome, WasRun, Cached
  <2> QED BY <2>2, <2>3
<1> QED BY <1>3, <1>4 DEF AgentInv

\* The outcome goes to the cache; what it pushes out is excused.
LEMMA RememberAgent ==
  ASSUME AgentInv, NEW written \in BOOLEAN, Remember(written)
  PROVE  AgentInv'
<1>0. AgentTyped /\ AgentFits /\ \A id \in Ids : Memory(id)
  BY DEF AgentInv
<1> DEFINE new == [out |-> out, age |-> 0, posted |-> FALSE]
<1>1. PICK gone \in Evictable :
        /\ cache' = [id \in Ids |-> IF id = job THEN new ELSE IF id = gone THEN NoResult ELSE cache[id]]
        /\ excused' = excused \cup ({gone} \cap Ids)
  BY DEF Remember
<1>2. /\ pc = "remember" /\ job \in Ids /\ out \in ran[job] /\ out \in Outcomes /\ todo = {}
      /\ pc' = "posting" /\ job' = job /\ conn' = conn /\ out' = "none" /\ todo' = todo /\ ran' = ran
      /\ disk' = IF written THEN Fresh(cache') ELSE disk
  BY <1>0 DEF Remember, AgentFits, AgentTyped
<1>3. new \in Result /\ ~Stale(new) /\ new # NoResult /\ new.out = out
  <2>1. new \in Result /\ new.out = out /\ ~Stale(new)
    BY <1>2, ChannelConstants DEF Result, Stale
  <2> HIDE DEF new
  <2> QED BY <2>1, CellFacts
<1> HIDE DEF new
<1>4. /\ cache'[job] = new
      /\ \A id \in Ids : id # job => cache'[id] = cache[id] \/ (cache'[id] = NoResult /\ id \in excused')
  BY <1>1, <1>2
<1>5. cache' \in [Ids -> Cells]
  BY <1>0, <1>1, <1>3 DEF AgentTyped, Cells
<1>6. \A id \in Ids : disk'[id] \in {NoResult, cache'[id], disk[id]} /\ disk' \in [Ids -> Cells]
  <2>1. CASE written
    BY <1>2, <1>5, <2>1 DEF Fresh, Cells
  <2>2. CASE ~written
    BY <1>0, <1>2, <2>2 DEF AgentTyped
  <2> QED BY <2>1, <2>2
<1>7. excused \subseteq excused' /\ excused' \subseteq Ids
  BY <1>0, <1>1 DEF AgentTyped
<1>8. AgentTyped' /\ AgentFits'
  <2>1. disk' \in [Ids -> Cells]
    <3>1. CASE written
      BY <1>2, <1>5, <3>1 DEF Fresh, Cells
    <3>2. CASE ~written
      BY <1>0, <1>2, <3>2 DEF AgentTyped
    <3> QED BY <3>1, <3>2
  <2> QED BY <1>0, <1>2, <1>3, <1>4, <1>5, <1>7, <2>1 DEF AgentTyped, AgentFits, Cached
<1>9. ASSUME NEW id \in Ids PROVE Memory(id)'
  <2>1. Memory(id)
    BY <1>0
  <2>2. CASE id = job
    BY <1>2, <1>3, <1>4, <1>6, <1>7, <2>1, <2>2
       DEF Memory, Remembered, Outlived, RunsOnce, OneOutcome, WasRun, Cached
  <2>3. CASE id # job
    BY <1>2, <1>4, <1>6, <1>7, <2>1, <2>3
       DEF Memory, Remembered, Outlived, RunsOnce, OneOutcome, WasRun, Cached
  <2> QED BY <2>2, <2>3
<1> QED BY <1>8, <1>9 DEF AgentInv

\* Resume and the marks of the result handlers.
LEMMA ResumeFacts ==
  ASSUME Resume
  PROVE  job' = NoCommand /\ pc' \in {"polling", "reposting"} /\ (pc' = "polling" => todo' = {})
BY DEF Resume

\* Marking the result of the post, and going on.
LEMMA MarkAgent ==
  ASSUME AgentInv, NEW b \in BOOLEAN, pc = "posting",
         cache' = [cache EXCEPT ![job].posted = b],
         todo' = todo \ {job}, Resume, UNCHANGED <<out, conn, disk, ran, excused>>
  PROVE  AgentInv'
<1>0. AgentTyped /\ AgentFits /\ \A id \in Ids : Memory(id)
  BY DEF AgentInv
<1>1. job \in Ids /\ cache[job] \in Result
  BY <1>0, CellOf DEF AgentFits
<1> DEFINE x == [cache[job] EXCEPT !.posted = b]
<1>2. x \in Result /\ x # NoResult /\ x.out = cache[job].out /\ x.age = cache[job].age
  BY <1>1, CellChanges
<1>3. cache' = [cache EXCEPT ![job] = x]
  BY <1>0, <1>1 DEF AgentTyped
<1> HIDE DEF x
<1>4. cache'[job] = x /\ (\A id \in Ids : id # job => cache'[id] = cache[id]) /\ cache' \in [Ids -> Cells]
  BY <1>0, <1>1, <1>2, <1>3 DEF AgentTyped, Cells
<1>5. cache[job] # NoResult
  BY <1>0 DEF AgentFits, Cached
<1>6. AgentTyped' /\ AgentFits'
  BY <1>0, <1>2, <1>4, ResumeFacts DEF AgentTyped, AgentFits, Cached
<1>7. ASSUME NEW id \in Ids PROVE Memory(id)'
  <2>1. Memory(id) /\ pc' # "running"
    BY <1>0, ResumeFacts
  <2>2. Stale(cache'[id]) <=> Stale(cache[id])
    BY <1>2, <1>4 DEF Stale
  <2>3. (Cached(id)' <=> Cached(id)) /\ (Cached(id) => cache'[id].out = cache[id].out)
    BY <1>2, <1>4, <1>5 DEF Cached
  <2> QED BY <2>1, <2>2, <2>3 DEF Memory, Remembered, Outlived, RunsOnce, OneOutcome, WasRun
<1> QED BY <1>6, <1>7 DEF AgentInv

\* A result is posted once more, or thrown away as too old.
LEMMA RepostAgent ==
  ASSUME AgentInv, NEW id \in Ids, Repost(id)
  PROVE  AgentInv'
<1>0. AgentTyped /\ AgentFits /\ \A j \in Ids : Memory(j)
  BY DEF AgentInv
<1>1. CASE ~Stale(cache[id])
  <2>1. /\ job' = id /\ pc' = "posting" /\ cache' = cache /\ todo' = todo /\ pc = "reposting"
        /\ id \in todo /\ UNCHANGED <<out, conn, disk, ran, excused>>
    BY <1>1 DEF Repost, histVars
  <2>2. AgentTyped' /\ AgentFits'
    BY <1>0, <2>1 DEF AgentTyped, AgentFits, Cached
  <2> QED BY <2>1, <2>2, AgentMoves
<1>2. CASE Stale(cache[id])
  <2>1. /\ cache' = [cache EXCEPT ![id] = NoResult] /\ todo' = todo \ {id} /\ Resume
        /\ pc = "reposting" /\ id \in todo /\ UNCHANGED <<out, conn, disk, ran, excused>>
    BY <1>2 DEF Repost, histVars
  <2>2. cache'[id] = NoResult /\ (\A j \in Ids : j # id => cache'[j] = cache[j]) /\ cache' \in [Ids -> Cells]
    BY <1>0, <2>1 DEF AgentTyped, Cells
  <2>3. id \in excused
    BY <1>0, <1>2, <2>1 DEF AgentFits, Memory, Outlived
  <2>4. AgentTyped' /\ AgentFits'
    BY <1>0, <2>1, <2>2, ResumeFacts DEF AgentTyped, AgentFits, Cached
  <2>5. ASSUME NEW j \in Ids PROVE Memory(j)'
    <3>1. Memory(j) /\ pc' # "running"
      BY <1>0, <2>1, ResumeFacts
    <3>2. CASE j = id
      BY <2>1, <2>2, <2>3, <3>1, <3>2
         DEF Memory, Remembered, Outlived, RunsOnce, OneOutcome, WasRun, Cached
    <3>3. CASE j # id
      BY <2>1, <2>2, <3>1, <3>3
         DEF Memory, Remembered, Outlived, RunsOnce, OneOutcome, WasRun, Cached
    <3> QED BY <3>2, <3>3
  <2> QED BY <2>4, <2>5 DEF AgentInv
<1> QED BY <1>1, <1>2

\* The agent dies: what it loses is excused.
LEMMA CrashAgent == ASSUME AgentInv, AgentCrash PROVE AgentInv'
<1>0. AgentTyped /\ AgentFits /\ \A id \in Ids : Memory(id)
  BY DEF AgentInv
<1>1. /\ cache' = Fresh(disk) /\ disk' = disk /\ ran' = ran
      /\ pc' = "polling" /\ job' = NoCommand /\ out' = "none" /\ conn' = NoCommand /\ todo' = {}
      /\ excused' = excused \cup {id \in Ids : Cached(id) /\ cache'[id] = NoResult}
                            \cup {id \in Ids : id = job /\ pc \in {"running", "remember"}}
  BY DEF AgentCrash
<1>2. \A id \in Ids : cache'[id] = IF Stale(disk[id]) THEN NoResult ELSE disk[id]
  BY <1>1 DEF Fresh
<1>3. cache' \in [Ids -> Cells] /\ excused' \subseteq Ids
  BY <1>0, <1>1 DEF Fresh, AgentTyped, Cells
<1>4. AgentTyped' /\ AgentFits'
  BY <1>0, <1>1, <1>3 DEF AgentTyped, AgentFits
<1>5. ASSUME NEW id \in Ids PROVE Memory(id)'
  <2>1. Memory(id)
    BY <1>0
  <2>2. ~Stale(cache'[id])
    BY <1>2, CellFacts
  <2>3. Remembered(id)'
    <3>1. ran[id] # {} /\ id \notin excused' => Cached(id)'
      BY <1>1, <2>1 DEF Memory, Remembered, Cached
    <3> QED BY <1>1, <2>2, <3>1 DEF Remembered
  <2>4. WasRun(id)'
    BY <1>1, <1>2, <2>1 DEF Memory, WasRun, Cached
  <2> QED BY <1>1, <2>1, <2>2, <2>3, <2>4 DEF Memory, Outlived, RunsOnce, OneOutcome
<1> QED BY <1>4, <1>5 DEF AgentInv

\* Results grow old; those too old to answer from are excused.
LEMMA TickAgent == ASSUME AgentInv, ChanTick PROVE AgentInv'
<1>0. AgentTyped /\ AgentFits /\ \A id \in Ids : Memory(id)
  BY DEF AgentInv
<1> DEFINE Grown(r) == IF r = NoResult \/ Stale(r) THEN r ELSE [r EXCEPT !.age = @ + 1]
<1>1. /\ cache' = [id \in Ids |-> Grown(cache[id])] /\ disk' = [id \in Ids |-> Grown(disk[id])]
      /\ excused' = excused \cup {id \in Ids : Cached(id) /\ Stale(cache'[id])}
      /\ UNCHANGED <<pc, job, out, conn, todo, ran>>
  BY DEF ChanTick
<1>2. \A r \in Cells : /\ Grown(r) \in Cells /\ (Grown(r) = NoResult <=> r = NoResult)
                       /\ r # NoResult => Grown(r).out = r.out
  BY CellFacts, CellChanges DEF Cells
<1> HIDE DEF Grown
<1>3. /\ cache' \in [Ids -> Cells] /\ disk' \in [Ids -> Cells] /\ excused' \subseteq Ids
      /\ \A id \in Ids : /\ cache'[id] = NoResult <=> cache[id] = NoResult
                         /\ disk'[id] = NoResult <=> disk[id] = NoResult
                         /\ cache[id] # NoResult => cache'[id].out = cache[id].out
                         /\ disk[id] # NoResult => disk'[id].out = disk[id].out
  BY <1>0, <1>1, <1>2 DEF AgentTyped
<1>4. AgentTyped' /\ AgentFits'
  BY <1>0, <1>1, <1>3 DEF AgentTyped, AgentFits, Cached
<1>5. ASSUME NEW id \in Ids PROVE Memory(id)'
  <2>1. Memory(id) /\ excused \subseteq excused'
    BY <1>0, <1>1
  <2>2. Outlived(id)'
    BY <1>1, <1>3 DEF Outlived, Cached
  <2>3. Remembered(id)'
    BY <1>1, <1>3, <2>1, <2>2 DEF Memory, Remembered, Outlived, Cached
  <2>4. WasRun(id)'
    BY <1>1, <1>3, <2>1 DEF Memory, WasRun, Cached
  <2> QED BY <1>1, <2>1, <2>2, <2>3, <2>4 DEF Memory, RunsOnce, OneOutcome
<1> QED BY <1>4, <1>5 DEF AgentInv

-----------------------------------------------------------------------------
(* The whole channel.                                                      *)

Post == [id : Ids, out : Outcomes, step : {"record", "journal"}]

BackendTyped ==
  /\ desk \in [Ids -> {"idle", "begun", "half", "done"}]
  /\ journal \in [Ids -> {"none", "open", "bound"} \cup Outcomes]
  /\ posts \subseteq Post
  /\ verdict \in [Ids -> Outcomes \cup {"none"}]
  /\ acked \subseteq Ids

\* A command belongs to one router.
Home == \A id \in Ids, u, v \in Users : Known(u, id) /\ Known(v, id) => u = v

\* Whatever is said of a command is the outcome of a run: in a post under way,
\* in the recorded answer, in the closed row.
PostTells == \A p \in posts : p.out \in ran[p.id]
AnswerTells == \A u \in Users, id \in Ids : Answered(u, id) => verdict[id] \in ran[id]
RowTells == \A id \in Ids : journal[id] \in Outcomes => journal[id] \in ran[id]

\* The command has left the operator's handler.
Reached(id) == (\E u \in Users : Known(u, id)) \/ id \in {conn, job} \/ ran[id] # {}

\* A row exists once its handler has begun; an update's row is bound to the
\* command before the router can have heard of it.
Rows == \A id \in Ids : desk[id] = "idle" <=> journal[id] = "none"
IsBound(id) == journal[id] \in {"bound"} \cup Outcomes
Bounded == \A id \in UpdateIds : Reached(id) \/ desk[id] = "half" => IsBound(id)

ChanInv ==
  /\ QueueInv /\ AgentInv /\ BackendTyped
  /\ Home /\ PostTells /\ AnswerTells /\ RowTells
  /\ Rows /\ Bounded /\ UpdateJournalClosed

LEMMA ChanInvTypes == ChanInv => ChanTypeOK
BY DEF ChanInv, QueueInv, AgentInv, AgentTyped, BackendTyped, Cells, Post, ChanTypeOK

LEMMA InitChanInv == ChanInit => ChanInv
<1> SUFFICES ASSUME ChanInit PROVE ChanInv
  OBVIOUS
<1>1. QueueInv
  BY InitQueueInv DEF ChanInit
<1>2. AgentInv
  BY DEF ChanInit, AgentInv, AgentTyped, AgentFits, Memory, Remembered, Outlived, RunsOnce,
         OneOutcome, WasRun, Cached, Cells
<1>3. \A u \in Users, id \in Ids : ~Known(u, id)
  BY DEF ChanInit, Init, Known, Holds
<1>4. \A u \in Users, id \in Ids : ~Answered(u, id)
  BY <1>3 DEF Known, Holds, Answered
<1>5. BackendTyped /\ Rows /\ PostTells /\ UpdateJournalClosed /\ RowTells
  BY ChannelConstants DEF ChanInit, BackendTyped, Rows, PostTells, UpdateJournalClosed, RowTells
<1>6. \A id \in Ids : ~Reached(id) /\ desk[id] = "idle"
  BY <1>3, ChannelConstants DEF ChanInit, Reached
<1>7. Bounded
  BY <1>6 DEF Bounded, Ids
<1> QED BY <1>1, <1>2, <1>3, <1>4, <1>5, <1>7 DEF ChanInv, Home, AnswerTells

\* A step of the channel is a step of the queue, or none.
LEMMA ChanNextIsQueueStep ==
  ASSUME ChanInv, ChanNext
  PROVE  [Next]_vars
<1>0. posts \subseteq Post
  BY DEF ChanInv, BackendTyped
<1>1. ASSUME NEW id \in Ids, BeginOperation(id) \/ AttachCommand(id) PROVE UNCHANGED vars
  BY <1>1 DEF BeginOperation, AttachCommand
<1>2. ASSUME NEW u \in Users, NEW id \in Ids, EnqueueCommand(u, id) PROVE Enqueue(u, id)
  BY <1>2 DEF EnqueueCommand
<1>3. ASSUME NEW u \in Users, NEW id \in Ids, ViewResult(u, id) PROVE UNCHANGED vars
  BY <1>3 DEF ViewResult
<1>4. ASSUME NEW u \in Users, TakeCommand(u) \/ ThrowExpired(u) \/ TakeForDeadPoll(u) PROVE Poll(u)
  BY <1>4 DEF TakeCommand, ThrowExpired, TakeForDeadPoll, Poll
<1>5. ASSUME NEW u \in Users, WriteEnds(u) \/ WriteFails(u)
      PROVE  \E c \in writing[u] : Deliver(u, c) \/ ReturnUndelivered(u, c)
  BY <1>5 DEF WriteEnds, WriteFails
<1>6. ASSUME AgentStep \/ Remember(FALSE) \/ PollBreaks \/ PostFails \/ AgentCrash PROVE UNCHANGED vars
  BY <1>6 DEF AgentStep, StartRun, AnswerFromCache, Remember, IdlePoll, Repost, EndRun,
              PollBreaks, PostFails, AgentCrash
<1>7. ASSUME NEW p \in posts, NEW u \in Users, HandleRecord(u, p)
      PROVE  p.id \in Ids /\ (RecordResult(u, p.id) \/ UNCHANGED vars)
  BY <1>0, <1>7 DEF HandleRecord, Post
<1>8. ASSUME NEW p \in posts, HandleJournal(p) \/ JournalFails(p) PROVE UNCHANGED vars
  BY <1>8 DEF HandleJournal, JournalFails
<1>9. ASSUME ChanSweep \/ BackendCrash \/ ChanTick PROVE Sweep \/ Restart \/ Tick
  BY <1>9 DEF ChanSweep, BackendCrash, ChanTick
<1> QED BY <1>1, <1>2, <1>3, <1>4, <1>5, <1>6, <1>7, <1>8, <1>9
           DEF ChanNext, ChanStep, Adversity, Handle, Next

LEMMA VarsSame ==
  ASSUME UNCHANGED vars
  PROVE  NoNewKnown /\ \A u \in Users, id \in Ids : Answered(u, id)' <=> Answered(u, id)
BY DEF vars, NoNewKnown, Known, Holds, Answered

LEMMA AnsweredIsResult ==
  ASSUME results' = results
  PROVE  \A u \in Users, id \in Ids : Answered(u, id)' <=> Answered(u, id)
BY DEF Answered

\* The router that knows a command is the one it was queued for.
LEMMA KnownStep ==
  ASSUME ChanInv, ChanNext
  PROVE  \/ NoNewKnown
         \/ \E u \in Users, id \in Ids : EnqueueCommand(u, id)
<1>0. TypeOK /\ posts \subseteq Post
  BY DEF ChanInv, QueueInv, BackendTyped
<1>1. ASSUME NEW u \in Users, TakeCommand(u) \/ ThrowExpired(u) \/ TakeForDeadPoll(u)
      PROVE  NoNewKnown
  <2>1. CASE \E i \in DOMAIN pending[u] : Issue(u, i)
    BY <1>0, <2>1, IssueKnown
  <2>2. CASE \E i \in DOMAIN pending[u] : DropExpired(u, i)
    BY <1>0, <2>2, DropExpiredKnown
  <2> QED BY <1>1, <2>1, <2>2 DEF TakeCommand, ThrowExpired, TakeForDeadPoll
<1>2. ASSUME NEW u \in Users, WriteEnds(u) \/ WriteFails(u) PROVE NoNewKnown
  BY <1>0, <1>2, DeliverKnown, ReturnKnown DEF WriteEnds, WriteFails
<1>3. ASSUME NEW p \in posts, NEW u \in Users, HandleRecord(u, p) PROVE NoNewKnown
  <2>1. p.id \in Ids
    BY <1>0 DEF Post
  <2>2. CASE RecordResult(u, p.id)
    BY <1>0, <2>1, <2>2, RecordKnown
  <2>3. CASE UNCHANGED vars
    BY <2>3, VarsSame
  <2> QED BY <1>3, <2>2, <2>3 DEF HandleRecord
<1>4. ASSUME ChanSweep \/ BackendCrash \/ ChanTick PROVE NoNewKnown
  BY <1>0, <1>4, SweepKnown, RestartKnown, TickKnown DEF ChanSweep, BackendCrash, ChanTick
<1>5. ASSUME NEW id \in Ids, BeginOperation(id) \/ AttachCommand(id) PROVE NoNewKnown
  BY <1>5, VarsSame DEF BeginOperation, AttachCommand
<1>6. ASSUME NEW u \in Users, NEW id \in Ids, ViewResult(u, id) PROVE NoNewKnown
  BY <1>6, VarsSame DEF ViewResult
<1>7. ASSUME AgentStep \/ Remember(FALSE) \/ PollBreaks \/ PostFails \/ AgentCrash PROVE NoNewKnown
  BY <1>7, VarsSame
     DEF AgentStep, StartRun, AnswerFromCache, Remember, IdlePoll, Repost, EndRun,
         PollBreaks, PostFails, AgentCrash
<1>8. ASSUME NEW p \in posts, HandleJournal(p) \/ JournalFails(p) PROVE NoNewKnown
  BY <1>8, VarsSame DEF HandleJournal, JournalFails
<1> QED BY <1>1, <1>2, <1>3, <1>4, <1>5, <1>6, <1>7, <1>8 DEF ChanNext, ChanStep, Adversity, Handle

\* An answer appears only from a post, and is changed only by one.
AnswersFollow ==
  \A u \in Users, id \in Ids : Answered(u, id)' =>
    \/ Answered(u, id) /\ verdict'[id] = verdict[id]
    \/ \E p \in posts : p.id = id /\ verdict'[id] = p.out

LEMMA AnswerStep == ASSUME ChanInv, ChanNext PROVE AnswersFollow
<1>0. TypeOK /\ posts \subseteq Post /\ verdict \in [Ids -> Outcomes \cup {"none"}]
  BY DEF ChanInv, QueueInv, BackendTyped
<1>1. ASSUME NEW u \in Users, TakeCommand(u) \/ ThrowExpired(u) \/ TakeForDeadPoll(u)
                              \/ WriteEnds(u) \/ WriteFails(u)
      PROVE  AnswersFollow
  <2>1. results' = results /\ verdict' = verdict
    BY <1>1 DEF TakeCommand, ThrowExpired, TakeForDeadPoll, WriteEnds, WriteFails,
                Issue, DropExpired, Deliver, ReturnUndelivered
  <2> QED BY <2>1, AnsweredIsResult DEF AnswersFollow
<1>2. ASSUME NEW u \in Users, NEW id \in Ids, EnqueueCommand(u, id) \/ ViewResult(u, id)
      PROVE  AnswersFollow
  <2>1. results' = results /\ verdict' = verdict
    BY <1>2 DEF EnqueueCommand, Enqueue, ViewResult, vars
  <2> QED BY <2>1, AnsweredIsResult DEF AnswersFollow
<1>3. ASSUME NEW p \in posts, NEW u \in Users, HandleRecord(u, p) PROVE AnswersFollow
  <2>1. p.id \in Ids
    BY <1>0 DEF Post
  <2>2. CASE RecordResult(u, p.id) /\ verdict' = [verdict EXCEPT ![p.id] = p.out]
    <3>1. \A v \in Users, j \in Ids : Answered(v, j)' <=> Answered(v, j) \/ (v = u /\ j = p.id)
      BY <1>0, <2>1, <2>2, RecordKnown
    <3>2. verdict'[p.id] = p.out /\ \A j \in Ids : j # p.id => verdict'[j] = verdict[j]
      BY <1>0, <2>1, <2>2
    <3> QED BY <1>3, <3>1, <3>2 DEF AnswersFollow
  <2>3. CASE UNCHANGED <<vars, verdict>>
    BY <2>3, VarsSame DEF AnswersFollow
  <2> QED BY <1>3, <2>2, <2>3 DEF HandleRecord
<1>4. ASSUME ChanSweep \/ BackendCrash \/ ChanTick PROVE AnswersFollow
  <2>1. NoNewAnswer /\ verdict' = verdict
    BY <1>0, <1>4, SweepKnown, RestartKnown, TickKnown DEF ChanSweep, BackendCrash, ChanTick, NoNewAnswer
  <2> QED BY <2>1 DEF NoNewAnswer, AnswersFollow
<1>5. ASSUME NEW id \in Ids, BeginOperation(id) \/ AttachCommand(id) PROVE AnswersFollow
  BY <1>5, VarsSame DEF BeginOperation, AttachCommand, AnswersFollow
<1>7. ASSUME AgentStep \/ Remember(FALSE) \/ PollBreaks \/ PostFails \/ AgentCrash
      PROVE  AnswersFollow
  <2>1. UNCHANGED vars /\ verdict' = verdict
    BY <1>7 DEF AgentStep, StartRun, AnswerFromCache, Remember, IdlePoll, Repost, EndRun,
                PollBreaks, PostFails, AgentCrash
  <2> QED BY <2>1, VarsSame DEF AnswersFollow
<1>8. ASSUME NEW p \in posts, HandleJournal(p) \/ JournalFails(p) PROVE AnswersFollow
  BY <1>8, VarsSame DEF HandleJournal, JournalFails, AnswersFollow
<1> QED BY <1>1, <1>2, <1>3, <1>4, <1>5, <1>7, <1>8 DEF ChanNext, ChanStep, Adversity, Handle

\* The agent's part of every step.
LEMMA AgentPart == ASSUME ChanInv, ChanNext PROVE AgentInv'
<1>0. AgentInv /\ TypeOK
  BY DEF ChanInv, QueueInv
<1>1. ASSUME NEW u \in Users, TakeCommand(u) PROVE AgentInv'
  BY <1>0, <1>1, PollMoves
<1>2. CASE PollBreaks \/ AnswerFromCache \/ IdlePoll
  BY <1>0, <1>2, PollMoves
<1>3. ASSUME NEW written \in BOOLEAN, Remember(written) PROVE AgentInv'
  BY <1>0, <1>3, RememberAgent
<1>4. ASSUME StartRun \/ (\E id \in Ids : Repost(id)) \/ (\E o \in Outcomes : EndRun(o)) \/ AgentCrash
             \/ ChanTick
      PROVE  AgentInv'
  BY <1>0, <1>4, StartRunAgent, RepostAgent, EndRunAgent, CrashAgent, TickAgent
<1>5. CASE PostFails
  BY <1>0, <1>5, MarkAgent DEF PostFails, histVars
<1>6. ASSUME NEW p \in posts, HandleJournal(p) PROVE AgentInv'
  <2>1. CASE pc = "posting" /\ job = p.id
    BY <1>0, <1>6, <2>1, MarkAgent DEF HandleJournal, Accept
  <2>2. CASE ~(pc = "posting" /\ job = p.id)
    BY <1>0, <1>6, <2>2, AgentSame DEF HandleJournal, Accept, agentVars
  <2> QED BY <2>1, <2>2
<1>7. ASSUME UNCHANGED <<agentVars, histVars>> PROVE AgentInv'
  BY <1>0, <1>7, AgentSame DEF histVars
<1>8. ASSUME NEW id \in Ids, BeginOperation(id) \/ AttachCommand(id) PROVE AgentInv'
  BY <1>7, <1>8 DEF BeginOperation, AttachCommand
<1>9. ASSUME NEW u \in Users, NEW id \in Ids, EnqueueCommand(u, id) \/ ViewResult(u, id) PROVE AgentInv'
  BY <1>7, <1>9 DEF EnqueueCommand, ViewResult
<1>10. ASSUME NEW u \in Users, ThrowExpired(u) \/ TakeForDeadPoll(u) \/ WriteEnds(u) \/ WriteFails(u)
       PROVE  AgentInv'
  BY <1>7, <1>10 DEF ThrowExpired, TakeForDeadPoll, WriteEnds, WriteFails
<1>11. ASSUME NEW p \in posts, NEW u \in Users, HandleRecord(u, p) \/ JournalFails(p) PROVE AgentInv'
  BY <1>7, <1>11 DEF HandleRecord, JournalFails
<1>12. ASSUME NEW p \in posts, JournalFails(p) PROVE AgentInv'
  BY <1>7, <1>12 DEF JournalFails
<1>13. CASE ChanSweep \/ BackendCrash
  BY <1>7, <1>13 DEF ChanSweep, BackendCrash
<1> QED BY <1>1, <1>2, <1>3, <1>4, <1>5, <1>6, <1>8, <1>9, <1>10, <1>11, <1>12, <1>13
           DEF ChanNext, ChanStep, Adversity, Handle, AgentStep

\* Finished runs stay finished.
LEMMA RanGrows ==
  ASSUME ChanInv, ChanNext
  PROVE  \A id \in Ids : /\ ran[id] \subseteq ran'[id]
                         /\ ran'[id] # {} => ran[id] # {} \/ id = job
<1>0. ran \in [Ids -> SUBSET Outcomes]
  BY DEF ChanInv, AgentInv, AgentTyped
<1>1. ASSUME NEW o \in Outcomes, EndRun(o)
      PROVE  \A id \in Ids : /\ ran[id] \subseteq ran'[id]
                             /\ ran'[id] # {} => ran[id] # {} \/ id = job
  BY <1>0, <1>1 DEF EndRun
<1>2. ASSUME ~\E o \in Outcomes : EndRun(o) PROVE ran' = ran
  <2>1. ASSUME NEW id \in Ids, BeginOperation(id) \/ AttachCommand(id) PROVE ran' = ran
    BY <2>1 DEF BeginOperation, AttachCommand, histVars
  <2>2. ASSUME NEW u \in Users, NEW id \in Ids, EnqueueCommand(u, id) \/ ViewResult(u, id)
        PROVE  ran' = ran
    BY <2>2 DEF EnqueueCommand, ViewResult, histVars
  <2>3. ASSUME NEW u \in Users, \/ TakeCommand(u) \/ ThrowExpired(u) \/ WriteEnds(u)
                                \/ TakeForDeadPoll(u) \/ WriteFails(u)
        PROVE  ran' = ran
    BY <2>3 DEF TakeCommand, ThrowExpired, WriteEnds, TakeForDeadPoll, WriteFails, histVars
  <2>4. ASSUME AgentStep \/ Remember(FALSE) \/ PollBreaks \/ PostFails \/ AgentCrash PROVE ran' = ran
    BY <1>2, <2>4 DEF AgentStep, StartRun, AnswerFromCache, Remember, IdlePoll, Repost,
                      PollBreaks, PostFails, AgentCrash, histVars
  <2>5. ASSUME NEW p \in posts, HandleJournal(p) \/ JournalFails(p) PROVE ran' = ran
    BY <2>5 DEF HandleJournal, JournalFails, histVars
  <2>6. ASSUME NEW p \in posts, NEW u \in Users, HandleRecord(u, p) PROVE ran' = ran
    BY <2>6 DEF HandleRecord, histVars
  <2>7. ASSUME ChanSweep \/ BackendCrash \/ ChanTick PROVE ran' = ran
    BY <2>7 DEF ChanSweep, BackendCrash, ChanTick, histVars
  <2> QED BY <2>1, <2>2, <2>3, <2>4, <2>5, <2>6, <2>7 DEF ChanNext, ChanStep, Adversity, Handle
<1> QED BY <1>1, <1>2

\* A post carries what the cache holds.
PostsFollow ==
  \A p \in posts' : /\ p \in Post
                    /\ \/ \E q \in posts : q.id = p.id /\ q.out = p.out
                       \/ Cached(p.id)' /\ p.out = cache'[p.id].out

LEMMA StartPostFollows ==
  ASSUME posts \subseteq Post, AgentInv', NEW id \in Ids, Cached(id)', StartPost(id)
  PROVE  PostsFollow
<1>1. cache'[id].out \in Outcomes
  BY CellFacts DEF AgentInv, AgentTyped, Cells, Cached
<1> QED BY <1>1 DEF StartPost, PostsFollow, Post

LEMMA PostStep == ASSUME ChanInv, ChanNext PROVE PostsFollow
<1>0. posts \subseteq Post /\ AgentInv' /\ AgentInv
  BY AgentPart DEF ChanInv, BackendTyped
<1>a. ASSUME posts' \subseteq posts PROVE PostsFollow
  BY <1>0, <1>a DEF PostsFollow
<1>1. CASE AnswerFromCache
  <2>1. PICK id \in Ids : id = conn
    BY <1>0, <1>1 DEF AnswerFromCache, AgentInv, AgentTyped
  <2>2. Cached(id)' /\ StartPost(id)
    BY <1>1, <2>1 DEF AnswerFromCache, Cached
  <2> QED BY <1>0, <2>2, StartPostFollows
<1>2. ASSUME NEW written \in BOOLEAN, Remember(written) PROVE PostsFollow
  <2>1. PICK id \in Ids : id = job
    BY <1>0, <1>2 DEF Remember, AgentInv, AgentFits
  <2>2. job' = job /\ pc' = "posting" /\ StartPost(id)
    BY <1>2, <2>1 DEF Remember
  <2>3. Cached(id)'
    BY <1>0, <2>1, <2>2 DEF AgentInv, AgentFits, Cached
  <2> QED BY <1>0, <2>2, <2>3, StartPostFollows
<1>3. ASSUME NEW id \in Ids, Repost(id) PROVE PostsFollow
  <2>1. CASE Stale(cache[id])
    BY <1>a, <1>3, <2>1 DEF Repost
  <2>2. CASE ~Stale(cache[id])
    BY <1>0, <1>3, <2>2, StartPostFollows DEF Repost, AgentInv, AgentFits, Cached
  <2> QED BY <2>1, <2>2
<1>4. ASSUME NEW p \in posts, NEW u \in Users, HandleRecord(u, p) PROVE PostsFollow
  <2> DEFINE x == [p EXCEPT !.step = "journal"]
  <2>1. x \in Post /\ x.id = p.id /\ x.out = p.out
    BY <1>0 DEF Post
  <2>2. posts' = (posts \ {p}) \cup {x}
    BY <1>4 DEF HandleRecord
  <2> HIDE DEF x
  <2> QED BY <1>0, <2>1, <2>2 DEF PostsFollow
<1>5. ASSUME NEW id \in Ids, BeginOperation(id) \/ AttachCommand(id) PROVE PostsFollow
  BY <1>a, <1>5 DEF BeginOperation, AttachCommand
<1>6. ASSUME NEW u \in Users, NEW id \in Ids, EnqueueCommand(u, id) \/ ViewResult(u, id)
      PROVE  PostsFollow
  BY <1>a, <1>6 DEF EnqueueCommand, ViewResult
<1>7. ASSUME NEW u \in Users, \/ TakeCommand(u) \/ ThrowExpired(u) \/ WriteEnds(u)
                              \/ TakeForDeadPoll(u) \/ WriteFails(u)
      PROVE  PostsFollow
  BY <1>a, <1>7 DEF TakeCommand, ThrowExpired, WriteEnds, TakeForDeadPoll, WriteFails
<1>8. ASSUME NEW o \in Outcomes, EndRun(o) PROVE PostsFollow
  BY <1>a, <1>8 DEF EndRun
<1>9. CASE StartRun \/ IdlePoll \/ PollBreaks \/ AgentCrash
  BY <1>a, <1>9 DEF StartRun, IdlePoll, PollBreaks, AgentCrash
<1>10. CASE PostFails
  <2>1. posts' \subseteq posts
    BY <1>10 DEF PostFails
  <2> QED BY <1>a, <2>1
<1>11. ASSUME NEW p \in posts, HandleJournal(p) \/ JournalFails(p) PROVE PostsFollow
  BY <1>a, <1>11 DEF HandleJournal, JournalFails
<1>12. CASE ChanSweep \/ BackendCrash \/ ChanTick
  BY <1>a, <1>12 DEF ChanSweep, BackendCrash, ChanTick
<1> QED BY <1>1, <1>2, <1>3, <1>4, <1>5, <1>6, <1>7, <1>8, <1>9, <1>10, <1>11, <1>12
           DEF ChanNext, ChanStep, Adversity, Handle, AgentStep

\* A row is opened by its handler, bound once, and closed with an outcome that
\* a post or the recorded answer tells.
Told(id, o) == \/ \E p \in posts : p.id = id /\ p.out = o
               \/ (\E u \in Users : Answered(u, id)) /\ o = verdict[id]

RowFollows(id) ==
  \/ journal'[id] = journal[id] /\ (desk[id] = "idle" <=> desk'[id] = "idle")
  \/ journal[id] = "none" /\ journal'[id] = "open" /\ desk'[id] # "idle"
  \/ journal[id] = "open" /\ journal'[id] = "bound" /\ desk'[id] # "idle"
  \/ /\ journal[id] = "bound" /\ journal'[id] \in Outcomes /\ Told(id, journal'[id])
     /\ (desk[id] = "idle" <=> desk'[id] = "idle")

\* The handler of an update binds the row before it queues the command.
HalfFollows == \A id \in UpdateIds : desk'[id] = "half" => desk[id] = "half" \/ IsBound(id)'

DeskFollows == (\A id \in Ids : RowFollows(id)) /\ HalfFollows

LEMMA DeskSame ==
  ASSUME UNCHANGED <<desk, journal>>
  PROVE  DeskFollows
BY DEF DeskFollows, RowFollows, HalfFollows

LEMMA CloseFollows ==
  ASSUME BackendTyped, NEW id \in Ids, NEW o \in Outcomes, Close(id, o), Told(id, o), desk' = desk
  PROVE  DeskFollows
<1>1. /\ journal'[id] = IF journal[id] = "bound" THEN o ELSE journal[id]
      /\ \A j \in Ids : j # id => journal'[j] = journal[j]
  BY DEF BackendTyped, Close
<1> QED BY <1>1 DEF DeskFollows, RowFollows, HalfFollows

LEMMA DeskStep == ASSUME ChanInv, ChanNext PROVE DeskFollows
<1>0. /\ BackendTyped /\ Rows /\ desk \in [Ids -> {"idle", "begun", "half", "done"}]
      /\ journal \in [Ids -> {"none", "open", "bound"} \cup Outcomes]
  BY DEF ChanInv, BackendTyped
<1>1. ASSUME NEW id \in Ids, BeginOperation(id) PROVE DeskFollows
  <2>1. /\ desk[id] = "idle" /\ desk'[id] = "begun" /\ journal'[id] = "open" /\ journal[id] = "none"
        /\ \A j \in Ids : j # id => desk'[j] = desk[j] /\ journal'[j] = journal[j]
    BY <1>0, <1>1 DEF BeginOperation, Rows
  <2> QED BY <2>1 DEF DeskFollows, RowFollows, HalfFollows, Ids
<1>2. ASSUME NEW id \in Ids, AttachCommand(id) PROVE DeskFollows
  <2>1. /\ desk[id] \in {"begun", "half"} /\ desk'[id] # "idle"
        /\ desk'[id] = "half" => desk[id] = "begun"
        /\ journal'[id] = IF journal[id] = "open" THEN "bound" ELSE journal[id]
        /\ \A j \in Ids : j # id => desk'[j] = desk[j] /\ journal'[j] = journal[j]
    BY <1>0, <1>2 DEF AttachCommand, Advance, Bind
  <2>2. journal[id] # "none" /\ IsBound(id)'
    BY <1>0, <2>1 DEF Rows, IsBound
  <2> QED BY <2>1, <2>2 DEF DeskFollows, RowFollows, HalfFollows, Ids
<1>3. ASSUME NEW u \in Users, NEW id \in Ids, EnqueueCommand(u, id) PROVE DeskFollows
  <2>1. /\ desk[id] \in {"begun", "half"} /\ desk'[id] # "idle" /\ journal' = journal
        /\ id \in UpdateIds => desk'[id] # "half"
        /\ \A j \in Ids : j # id => desk'[j] = desk[j]
    BY <1>0, <1>3 DEF EnqueueCommand, Advance, NextDesk
  <2> QED BY <2>1 DEF DeskFollows, RowFollows, HalfFollows, Ids
<1>4. ASSUME NEW u \in Users, NEW id \in Ids, ViewResult(u, id) PROVE DeskFollows
  <2>1. verdict[id] \in Outcomes
    BY <1>4 DEF ViewResult, ChanInv, AnswerTells, AgentInv, AgentTyped
  <2> QED BY <1>0, <1>4, <2>1, CloseFollows DEF ViewResult, Told
<1>5. ASSUME NEW p \in posts, HandleJournal(p) PROVE DeskFollows
  <2>1. p.id \in Ids /\ p.out \in Outcomes /\ Told(p.id, p.out)
    BY <1>0 DEF BackendTyped, Post, Told
  <2> QED BY <1>0, <1>5, <2>1, CloseFollows DEF HandleJournal
<1>6. CASE BackendCrash
  <2>1. /\ journal' = journal
        /\ \A id \in Ids : desk'[id] # "half" /\ (desk[id] = "idle" <=> desk'[id] = "idle")
    BY <1>6 DEF BackendCrash
  <2> QED BY <2>1 DEF DeskFollows, RowFollows, HalfFollows, Ids
<1>7. ASSUME NEW u \in Users, \/ TakeCommand(u) \/ ThrowExpired(u) \/ WriteEnds(u)
                              \/ TakeForDeadPoll(u) \/ WriteFails(u)
      PROVE  DeskFollows
  BY <1>7, DeskSame DEF TakeCommand, ThrowExpired, WriteEnds, TakeForDeadPoll, WriteFails, deskVars
<1>8. ASSUME AgentStep \/ Remember(FALSE) \/ PollBreaks \/ PostFails \/ AgentCrash PROVE DeskFollows
  BY <1>8, DeskSame
     DEF AgentStep, StartRun, AnswerFromCache, Remember, IdlePoll, Repost, EndRun,
         PollBreaks, PostFails, AgentCrash, deskVars
<1>9. ASSUME NEW p \in posts, JournalFails(p) \/ \E u \in Users : HandleRecord(u, p)
      PROVE  DeskFollows
  BY <1>9, DeskSame DEF JournalFails, HandleRecord, deskVars
<1>10. CASE ChanSweep \/ ChanTick
  BY <1>10, DeskSame DEF ChanSweep, ChanTick, deskVars
<1> QED BY <1>1, <1>2, <1>3, <1>4, <1>5, <1>6, <1>7, <1>8, <1>9, <1>10
           DEF ChanNext, ChanStep, Adversity, Handle

\* A command reaches the queue from its handler, and the agent from the queue.
ReachFollows ==
  \A id \in Ids : Reached(id)' =>
    \/ Reached(id)
    \/ desk[id] \in {"begun", "half"} /\ NextDesk(id) = "enqueue"

LEMMA ReachStep == ASSUME ChanInv, ChanNext PROVE ReachFollows
<1>0. AgentInv /\ TypeOK /\ AgentTyped
  BY DEF ChanInv, QueueInv, AgentInv
<1>1. \A u \in Users, id \in Ids : Known(u, id)' =>
        \/ Reached(id)
        \/ desk[id] \in {"begun", "half"} /\ NextDesk(id) = "enqueue"
  <2>1. CASE NoNewKnown
    BY <2>1 DEF NoNewKnown, Reached
  <2>2. ASSUME NEW u \in Users, NEW id \in Ids, EnqueueCommand(u, id)
        PROVE  \A v \in Users, j \in Ids : Known(v, j)' =>
                 \/ Reached(j)
                 \/ desk[j] \in {"begun", "half"} /\ NextDesk(j) = "enqueue"
    BY <1>0, <2>2, EnqueueKnown DEF EnqueueCommand, Reached
  <2> QED BY <2>1, <2>2, KnownStep
<1>2. \A id \in Ids : ran'[id] # {} => Reached(id)
  BY RanGrows DEF Reached
<1>3. \A id \in Ids : id \in {conn', job'} => Reached(id)
  <2>a. ASSUME job' \in {job, conn, NoCommand}, conn' \in {conn, NoCommand}
        PROVE  \A id \in Ids : id \in {conn', job'} => Reached(id)
    BY <2>a, ChannelConstants DEF Reached
  <2>1. ASSUME NEW u \in Users, TakeCommand(u)
        PROVE  \A id \in Ids : id \in {conn', job'} => Reached(id)
    <3>1. PICK i \in DOMAIN pending[u] : Issue(u, i) /\ conn' = pending[u][i].id
      BY <2>1 DEF TakeCommand
    <3>2. conn' \in Ids /\ Known(u, pending[u][i].id)
      BY <1>0, <3>1, IssueKnown
    <3> QED BY <2>1, <3>1, <3>2 DEF TakeCommand, Reached
  <2>2. ASSUME NEW id \in Ids, Repost(id)
        PROVE  \A j \in Ids : j \in {conn', job'} => Reached(j)
    <3>1. ran[id] # {}
      BY <1>0, <2>2 DEF Repost, AgentInv, AgentFits, Memory, WasRun
    <3> QED BY <2>2, <3>1, ChannelConstants DEF Repost, Resume, Reached
  <2>4. ASSUME NEW u \in Users, ThrowExpired(u) \/ WriteEnds(u) \/ TakeForDeadPoll(u) \/ WriteFails(u)
        PROVE  job' = job /\ conn' = conn
    BY <2>4 DEF ThrowExpired, WriteEnds, TakeForDeadPoll, WriteFails, agentVars
  <2>5. ASSUME NEW id \in Ids, BeginOperation(id) \/ AttachCommand(id) PROVE job' = job /\ conn' = conn
    BY <2>5 DEF BeginOperation, AttachCommand, agentVars
  <2>6. ASSUME NEW u \in Users, NEW id \in Ids, EnqueueCommand(u, id) \/ ViewResult(u, id)
        PROVE  job' = job /\ conn' = conn
    BY <2>6 DEF EnqueueCommand, ViewResult, agentVars
  <2>7. ASSUME \/ StartRun \/ AnswerFromCache \/ IdlePoll \/ PollBreaks \/ PostFails \/ AgentCrash
               \/ (\E o \in Outcomes : EndRun(o)) \/ (\E w \in BOOLEAN : Remember(w))
        PROVE  job' \in {job, conn, NoCommand} /\ conn' \in {conn, NoCommand}
    BY <2>7 DEF StartRun, AnswerFromCache, IdlePoll, PollBreaks, PostFails, AgentCrash, EndRun,
                Remember, Resume
  <2>8. ASSUME NEW p \in posts, \/ HandleJournal(p) \/ JournalFails(p)
                                \/ \E u \in Users : HandleRecord(u, p)
        PROVE  job' \in {job, NoCommand} /\ conn' = conn
    BY <2>8 DEF HandleJournal, Accept, Resume, JournalFails, HandleRecord, agentVars
  <2>9. ASSUME ChanSweep \/ BackendCrash \/ ChanTick PROVE job' = job /\ conn' = conn
    BY <2>9 DEF ChanSweep, BackendCrash, ChanTick, agentVars
  <2>10. CASE \/ \E u \in Users : TakeCommand(u)
              \/ \E id \in Ids : Repost(id)
    BY <2>1, <2>2, <2>10
  <2>11. CASE ~ \/ \E u \in Users : TakeCommand(u)
                \/ \E id \in Ids : Repost(id)
    <3>1. job' \in {job, conn, NoCommand} /\ conn' \in {conn, NoCommand}
      BY <2>4, <2>5, <2>6, <2>7, <2>8, <2>9, <2>11
         DEF ChanNext, ChanStep, Adversity, Handle, AgentStep
    <3> QED BY <2>a, <3>1
  <2> QED BY <2>10, <2>11
<1> QED BY <1>1, <1>2, <1>3 DEF ReachFollows, Reached

\* The backend's part keeps its types; an accepted answer is one whose row was
\* closed in the same step.
Settled == \A id \in acked' : id \in acked \/
             (Reached(id) /\ \E p \in posts : p.id = id /\ Close(id, p.out))

LEMMA BackendStep ==
  ASSUME ChanInv, ChanNext
  PROVE  BackendTyped' /\ Settled
<1>0. BackendTyped /\ AgentInv /\ posts' \subseteq Post
  BY PostStep DEF ChanInv, PostsFollow
<1>a. ASSUME desk' \in [Ids -> {"idle", "begun", "half", "done"}],
             journal' \in [Ids -> {"none", "open", "bound"} \cup Outcomes],
             verdict' = verdict, acked' = acked
      PROVE  BackendTyped' /\ Settled
  BY <1>0, <1>a DEF BackendTyped, Settled
<1>b. ASSUME UNCHANGED <<desk, journal, verdict, acked>> PROVE BackendTyped' /\ Settled
  BY <1>0, <1>b DEF BackendTyped, Settled
<1>1. ASSUME NEW id \in Ids, BeginOperation(id) \/ AttachCommand(id) PROVE BackendTyped' /\ Settled
  <2>1. /\ desk' \in [Ids -> {"idle", "begun", "half", "done"}]
        /\ journal' \in [Ids -> {"none", "open", "bound"} \cup Outcomes]
        /\ verdict' = verdict /\ acked' = acked
    BY <1>0, <1>1 DEF BackendTyped, BeginOperation, AttachCommand, Advance, Bind, histVars
  <2> QED BY <1>a, <2>1
<1>2. ASSUME NEW u \in Users, NEW id \in Ids, EnqueueCommand(u, id) PROVE BackendTyped' /\ Settled
  <2>1. /\ desk' \in [Ids -> {"idle", "begun", "half", "done"}]
        /\ journal' = journal /\ verdict' = verdict /\ acked' = acked
    BY <1>0, <1>2 DEF BackendTyped, EnqueueCommand, Advance, histVars
  <2> QED BY <1>0, <1>a, <2>1 DEF BackendTyped
<1>3. ASSUME NEW u \in Users, NEW id \in Ids, ViewResult(u, id) PROVE BackendTyped' /\ Settled
  <2>1. verdict[id] \in Outcomes
    BY <1>3 DEF ViewResult, ChanInv, AnswerTells, AgentInv, AgentTyped
  <2>2. /\ journal' \in [Ids -> {"none", "open", "bound"} \cup Outcomes]
        /\ desk' = desk /\ verdict' = verdict /\ acked' = acked
    BY <1>0, <1>3, <2>1 DEF BackendTyped, ViewResult, Close, histVars
  <2> QED BY <1>0, <1>a, <2>2 DEF BackendTyped
<1>4. ASSUME NEW p \in posts, HandleJournal(p) PROVE BackendTyped' /\ Settled
  <2>1. p.id \in Ids /\ p.out \in Outcomes
    BY <1>0 DEF BackendTyped, Post
  <2>2. /\ journal' \in [Ids -> {"none", "open", "bound"} \cup Outcomes]
        /\ desk' = desk /\ verdict' = verdict /\ Close(p.id, p.out)
        /\ acked' = acked \/ (acked' = acked \cup {p.id} /\ job = p.id)
    BY <1>0, <1>4, <2>1 DEF BackendTyped, HandleJournal, Close, Accept
  <2> QED BY <1>0, <2>1, <2>2 DEF BackendTyped, Settled, Reached
<1>5. ASSUME NEW p \in posts, NEW u \in Users, HandleRecord(u, p) PROVE BackendTyped' /\ Settled
  <2>1. p.id \in Ids /\ p.out \in Outcomes
    BY <1>0 DEF BackendTyped, Post
  <2>2. /\ verdict' \in [Ids -> Outcomes \cup {"none"}]
        /\ desk' = desk /\ journal' = journal /\ acked' = acked
    BY <1>0, <1>5, <2>1 DEF BackendTyped, HandleRecord, deskVars, histVars
  <2> QED BY <1>0, <2>2 DEF BackendTyped, Settled
<1>6. CASE BackendCrash
  <2>1. /\ desk' \in [Ids -> {"idle", "begun", "half", "done"}]
        /\ journal' = journal /\ verdict' = verdict /\ acked' = acked
    BY <1>0, <1>6 DEF BackendTyped, BackendCrash, histVars
  <2> QED BY <1>0, <1>a, <2>1 DEF BackendTyped
<1>7. ASSUME NEW u \in Users, \/ TakeCommand(u) \/ ThrowExpired(u) \/ WriteEnds(u)
                              \/ TakeForDeadPoll(u) \/ WriteFails(u)
      PROVE  UNCHANGED <<desk, journal, verdict, acked>>
  BY <1>7 DEF TakeCommand, ThrowExpired, WriteEnds, TakeForDeadPoll, WriteFails, deskVars, histVars
<1>8. ASSUME AgentStep \/ Remember(FALSE) \/ PollBreaks \/ PostFails \/ AgentCrash
      PROVE  UNCHANGED <<desk, journal, verdict, acked>>
  BY <1>8 DEF AgentStep, StartRun, AnswerFromCache, Remember, IdlePoll, Repost, EndRun,
              PollBreaks, PostFails, AgentCrash, deskVars, histVars
<1>9. ASSUME (\E p \in posts : JournalFails(p)) \/ ChanSweep \/ ChanTick
      PROVE  UNCHANGED <<desk, journal, verdict, acked>>
  BY <1>9 DEF JournalFails, ChanSweep, ChanTick, deskVars, histVars
<1> QED BY <1>b, <1>1, <1>2, <1>3, <1>4, <1>5, <1>6, <1>7, <1>8, <1>9
           DEF ChanNext, ChanStep, Adversity, Handle

LEMMA StepChanInv == ASSUME ChanInv, ChanNext PROVE ChanInv'
<1>0. /\ QueueInv /\ AgentInv /\ BackendTyped /\ Home /\ PostTells /\ AnswerTells /\ RowTells
      /\ Rows /\ Bounded /\ UpdateJournalClosed /\ TypeOK
      /\ ran' \in [Ids -> SUBSET Outcomes] /\ \A id \in Ids : ran[id] \subseteq ran'[id]
  BY AgentPart, RanGrows DEF ChanInv, QueueInv, AgentInv, AgentTyped
<1>1. QueueInv' /\ AgentInv' /\ BackendTyped'
  BY <1>0, ChanNextIsQueueStep, NextQueueInv, AgentPart, BackendStep
<1>2. Home'
  <2>1. CASE NoNewKnown
    BY <1>0, <2>1 DEF Home, NoNewKnown
  <2>2. ASSUME NEW u \in Users, NEW id \in Ids, EnqueueCommand(u, id) PROVE Home'
    <3>1. /\ \A v \in Users : ~Known(v, id)
          /\ \A v \in Users, j \in Ids : Known(v, j)' => Known(v, j) \/ (v = u /\ j = id)
      BY <1>0, <2>2, EnqueueKnown DEF EnqueueCommand
    <3> QED BY <1>0, <3>1 DEF Home
  <2> QED BY <2>1, <2>2, KnownStep
<1>3. \A p \in posts : p.id \in Ids
  BY <1>0 DEF BackendTyped, Post
<1>4. PostTells'
  <2>1. \A p \in posts' : \/ \E q \in posts : q.id = p.id /\ q.out = p.out
                          \/ p.id \in Ids /\ Cached(p.id)' /\ p.out = cache'[p.id].out
    BY PostStep DEF PostsFollow, Post
  <2>2. \A id \in Ids : cache'[id] # NoResult => cache'[id].out \in ran'[id]
    BY <1>1 DEF AgentInv, Memory, WasRun, Cached
  <2> QED BY <1>0, <1>3, <2>1, <2>2 DEF PostTells, Cached
<1>5. AnswerTells'
  BY <1>0, <1>3, AnswerStep DEF AnswersFollow, AnswerTells, PostTells
<1>6. ASSUME NEW id \in Ids, NEW o \in Outcomes, Told(id, o) PROVE o \in ran'[id]
  BY <1>0, <1>3, <1>6 DEF Told, PostTells, AnswerTells
<1>7. RowTells' /\ Rows'
  <2>1. ASSUME NEW id \in Ids
        PROVE  /\ journal'[id] \in Outcomes => journal'[id] \in ran'[id]
               /\ desk'[id] = "idle" <=> journal'[id] = "none"
    <3>1. RowFollows(id)
      BY DeskStep DEF DeskFollows
    <3> QED BY <1>0, <1>6, <3>1, ChannelConstants DEF RowFollows, RowTells, Rows
  <2> QED BY <2>1 DEF RowTells, Rows
<1>8. ASSUME NEW id \in Ids, IsBound(id) PROVE IsBound(id)'
  <2>1. RowFollows(id)
    BY DeskStep DEF DeskFollows
  <2> QED BY <1>8, <2>1, ChannelConstants DEF RowFollows, IsBound
<1>9. Bounded'
  <2> SUFFICES ASSUME NEW id \in UpdateIds, (Reached(id) \/ desk[id] = "half")' PROVE IsBound(id)'
    BY DEF Bounded
  <2>0. id \in Ids
    BY DEF Ids
  <2>1. CASE Reached(id) \/ desk[id] = "half"
    BY <1>0, <1>8, <2>0, <2>1 DEF Bounded
  <2>2. CASE desk'[id] = "half" /\ desk[id] # "half"
    BY <2>2, DeskStep DEF DeskFollows, HalfFollows
  <2>3. CASE Reached(id)' /\ ~Reached(id)
    <3>1. desk[id] \in {"begun", "half"} /\ NextDesk(id) = "enqueue"
      BY <2>0, <2>3, ReachStep DEF ReachFollows
    <3>2. desk[id] = "half"
      BY <3>1 DEF NextDesk
    <3> QED BY <2>1, <3>2
  <2> QED BY <2>1, <2>2, <2>3
<1>10. UpdateJournalClosed'
  <2> SUFFICES ASSUME NEW id \in acked' \cap UpdateIds PROVE journal'[id] \in Outcomes
    BY DEF UpdateJournalClosed
  <2>0. id \in Ids /\ RowFollows(id)
    BY DeskStep DEF DeskFollows, Ids
  <2>1. CASE id \in acked
    BY <1>0, <2>0, <2>1, ChannelConstants DEF UpdateJournalClosed, RowFollows
  <2>2. CASE id \notin acked
    <3>1. Reached(id) /\ \E p \in posts : p.id = id /\ Close(id, p.out)
      BY <2>2, BackendStep DEF Settled
    <3>2. PICK p \in posts : p.id = id /\ Close(id, p.out)
      BY <3>1
    <3>3. p.out \in Outcomes
      BY <1>0 DEF BackendTyped, Post
    <3>4. journal[id] \in {"bound"} \cup Outcomes
      BY <1>0, <3>1 DEF Bounded, IsBound
    <3>5. journal'[id] = IF journal[id] = "bound" THEN p.out ELSE journal[id]
      BY <1>0, <2>0, <3>2 DEF Close, BackendTyped
    <3> QED BY <3>3, <3>4, <3>5
  <2> QED BY <2>1, <2>2
<1> QED BY <1>1, <1>2, <1>4, <1>5, <1>7, <1>9, <1>10 DEF ChanInv

LEMMA NextChanInv == ChanInv /\ [ChanNext]_chanVars => ChanInv'
<1>1. ASSUME ChanInv, UNCHANGED chanVars PROVE ChanInv'
  <2>1. /\ UNCHANGED vars /\ UNCHANGED <<agentVars, ran, excused>>
        /\ UNCHANGED <<desk, journal, posts, verdict, acked>>
    BY <1>1 DEF chanVars, deskVars, histVars
  <2>2. QueueInv' /\ AgentInv'
    BY <1>1, <2>1, NextQueueInv, AgentSame DEF ChanInv
  <2>3. \A u \in Users, id \in Ids : (Known(u, id)' <=> Known(u, id)) /\ (Answered(u, id)' <=> Answered(u, id))
    BY <2>1 DEF vars, Known, Holds, Answered
  <2>4. \A id \in Ids : Reached(id)' <=> Reached(id)
    BY <2>1, <2>3 DEF Reached, agentVars
  <2> QED BY <1>1, <2>1, <2>2, <2>3, <2>4
          DEF ChanInv, BackendTyped, Home, PostTells, AnswerTells, RowTells, Rows, Bounded, IsBound,
              UpdateJournalClosed, Ids
<1> QED BY <1>1, StepChanInv

LEMMA SpecChanInv == ChanSpec => []ChanInv
BY InitChanInv, NextChanInv, PTL DEF ChanSpec

-----------------------------------------------------------------------------

\* Every part of the channel keeps the values the code can put there, whatever
\* polls and posts break and whatever crashes.
THEOREM ChannelTypeCorrect == ChanSpec => []ChanTypeOK
BY SpecChanInv, ChanInvTypes, PTL

\* The channel drives the queue as CmdQueue says it is driven, so what is proved
\* of the queue (OneLife, UpdatesSupersede, DispatchLimited, DeferredOnce)
\* holds in the channel, with an agent and an operator around it.
THEOREM ChannelDrivesQueue == ChanSpec => Spec
<1>1. ChanInit => Init
  BY DEF ChanInit
<1>2. ChanInv /\ [ChanNext]_chanVars => [Next]_vars
  BY ChanNextIsQueueStep DEF chanVars
<1> QED BY <1>1, <1>2, SpecChanInv, PTL DEF ChanSpec, Spec

\* For any number of routers, commands and results the agent keeps: a closed
\* row of the journal holds the outcome of a run, and the one the backend shows
\* unless the agent had a reason to run the command twice.
THEOREM JournalIsTrue == ChanSpec => []JournalTellsAnswer
<1>1. ChanInv => JournalTellsAnswer
  <2> SUFFICES ASSUME ChanInv, NEW u \in Users, NEW id \in Ids, journal[id] \in Outcomes
               PROVE  /\ journal[id] \in ran[id]
                      /\ Answered(u, id) /\ id \notin excused => journal[id] = verdict[id]
    BY DEF JournalTellsAnswer
  <2>1. journal[id] \in ran[id] /\ (Answered(u, id) => verdict[id] \in ran[id]) /\ OneOutcome(id)
    BY DEF ChanInv, RowTells, AnswerTells, AgentInv, Memory
  <2> QED BY <2>1 DEF OneOutcome
<1> QED BY <1>1, SpecChanInv, PTL

\* Once an agent saw the answer of its update accepted, the update's row is
\* closed: agentDeployCore binds the row before it queues the command.
THEOREM UpdateRowsClose == ChanSpec => []UpdateJournalClosed
<1>1. ChanInv => UpdateJournalClosed
  BY DEF ChanInv
<1> QED BY <1>1, SpecChanInv, PTL

-----------------------------------------------------------------------------
(* The channel keeps its promise, step by step.                            *)

InRun == {id \in Ids : id = job /\ pc = "running"}
Shown == [id \in Ids |-> IF \E u \in Users : Answered(u, id) THEN verdict[id] ELSE "none"]

\* The steps the promise allows, in the channel's variables.
LEMMA PromiseBegin ==
  ASSUME NEW id \in Ids, (ran[id] = {} /\ id \notin InRun) \/ id \in excused,
         InRun' = InRun \cup {id}, UNCHANGED <<ran, excused, Shown>>
  PROVE  Promise!Next
BY DEF Promise!Next, Promise!Begin, InRun, Shown

LEMMA PromiseFinish ==
  ASSUME NEW id \in Ids, NEW o \in Outcomes, id \in InRun,
         ran' = [ran EXCEPT ![id] = @ \cup {o}], InRun' = InRun \ {id},
         UNCHANGED <<excused, Shown>>
  PROVE  Promise!Next
BY DEF Promise!Next, Promise!Finish, InRun, Shown

LEMMA PromiseExcuse ==
  ASSUME NEW ids \in SUBSET Ids, excused' = excused \cup ids,
         InRun' \in {InRun, InRun \ ids}, UNCHANGED <<ran, Shown>>
  PROVE  Promise!Next
BY DEF Promise!Next, Promise!Excuse, InRun, Shown

LEMMA PromiseShow ==
  ASSUME NEW id \in Ids, NEW o \in Outcomes, Shown[id] = "none", o \in ran[id],
         Shown' = [Shown EXCEPT ![id] = o], UNCHANGED <<ran, InRun, excused>>
  PROVE  Promise!Next
BY DEF Promise!Next, Promise!Show, InRun, Shown

LEMMA PromiseWithdraw ==
  ASSUME NEW ids \in SUBSET Ids,
         Shown' = [id \in Ids |-> IF id \in ids THEN "none" ELSE Shown[id]],
         UNCHANGED <<ran, InRun, excused>>
  PROVE  Promise!Next
BY DEF Promise!Next, Promise!Withdraw, InRun, Shown

LEMMA PromiseStutter ==
  ASSUME UNCHANGED <<ran, InRun, excused, Shown>>
  PROVE  UNCHANGED Promise!pvars
BY DEF Promise!pvars, InRun, Shown

LEMMA ShownSame ==
  ASSUME \A u \in Users, id \in Ids : Answered(u, id)' <=> Answered(u, id), verdict' = verdict
  PROVE  Shown' = Shown
BY DEF Shown

LEMMA StutterOf ==
  ASSUME results' = results, verdict' = verdict, UNCHANGED <<ran, excused>>, InRun' = InRun
  PROVE  UNCHANGED Promise!pvars
BY AnsweredIsResult, ShownSame, PromiseStutter

LEMMA InRunSame ==
  /\ (UNCHANGED <<pc, job>> => InRun' = InRun)
  /\ (pc # "running" /\ pc' # "running" => InRun' = InRun)
BY DEF InRun

\* The operator's handlers, the polls and the posts change nothing the promise
\* speaks of.
LEMMA OutsideKeepsPromise ==
  ASSUME \/ \E id \in Ids : BeginOperation(id) \/ AttachCommand(id)
         \/ \E u \in Users, id \in Ids : EnqueueCommand(u, id) \/ ViewResult(u, id)
         \/ \E u \in Users : \/ TakeCommand(u) \/ ThrowExpired(u) \/ WriteEnds(u)
                             \/ TakeForDeadPoll(u) \/ WriteFails(u)
         \/ \E p \in posts : JournalFails(p)
  PROVE  UNCHANGED Promise!pvars
<1>1. results' = results /\ verdict' = verdict /\ UNCHANGED <<ran, excused, pc, job>>
  <2>1. ASSUME NEW id \in Ids, BeginOperation(id) \/ AttachCommand(id)
        PROVE  results' = results /\ verdict' = verdict /\ UNCHANGED <<ran, excused, pc, job>>
    BY <2>1 DEF BeginOperation, AttachCommand, vars, agentVars, histVars
  <2>2. ASSUME NEW u \in Users, NEW id \in Ids, EnqueueCommand(u, id) \/ ViewResult(u, id)
        PROVE  results' = results /\ verdict' = verdict /\ UNCHANGED <<ran, excused, pc, job>>
    BY <2>2 DEF EnqueueCommand, Enqueue, ViewResult, vars, agentVars, histVars
  <2>3. ASSUME NEW u \in Users, \/ TakeCommand(u) \/ ThrowExpired(u) \/ WriteEnds(u)
                                \/ TakeForDeadPoll(u) \/ WriteFails(u)
        PROVE  results' = results /\ verdict' = verdict /\ UNCHANGED <<ran, excused, pc, job>>
    BY <2>3 DEF TakeCommand, ThrowExpired, WriteEnds, TakeForDeadPoll, WriteFails,
                Issue, DropExpired, Deliver, ReturnUndelivered, agentVars, histVars
  <2>4. ASSUME NEW p \in posts, JournalFails(p)
        PROVE  results' = results /\ verdict' = verdict /\ UNCHANGED <<ran, excused, pc, job>>
    BY <2>4 DEF JournalFails, vars, agentVars, histVars
  <2> QED BY <2>1, <2>2, <2>3, <2>4
<1> QED BY <1>1, StutterOf, InRunSame

LEMMA AgentKeepsPromise ==
  ASSUME ChanInv,
         AgentStep \/ Remember(FALSE) \/ PollBreaks \/ PostFails \/ AgentCrash
  PROVE  [Promise!Next]_Promise!pvars
<1>0. AgentTyped /\ AgentFits /\ \A id \in Ids : Memory(id)
  BY DEF ChanInv, AgentInv
<1>a. UNCHANGED vars /\ verdict' = verdict
  BY DEF AgentStep, StartRun, AnswerFromCache, Remember, IdlePoll, Repost, EndRun,
         PollBreaks, PostFails, AgentCrash
<1>b. results' = results /\ Shown' = Shown
  BY <1>a, VarsSame, ShownSame DEF vars
<1>1. CASE StartRun
  <2>1. PICK id \in Ids : id = conn
    BY <1>0, <1>1 DEF StartRun, MustRun, AgentTyped
  <2>2. /\ pc = "polling" /\ pc' = "running" /\ job' = id /\ UNCHANGED <<ran, excused>>
        /\ Cached(id) => Stale(cache[id])
    BY <1>1, <2>1 DEF StartRun, MustRun, histVars
  <2>3. ran[id] = {} \/ id \in excused
    BY <1>0, <2>2 DEF Memory, Remembered
  <2>4. InRun = {} /\ InRun' = {id}
    BY <2>2 DEF InRun
  <2> QED BY <1>b, <2>2, <2>3, <2>4, PromiseBegin
<1>2. ASSUME NEW o \in Outcomes, EndRun(o) PROVE Promise!Next
  <2>1. PICK id \in Ids : id = job
    BY <1>0, <1>2 DEF EndRun, AgentFits
  <2>2. /\ pc = "running" /\ pc' = "remember" /\ job' = job /\ excused' = excused
        /\ ran' = [ran EXCEPT ![id] = @ \cup {o}]
    BY <1>2, <2>1 DEF EndRun
  <2>3. InRun = {id} /\ InRun' = {}
    BY <2>1, <2>2 DEF InRun
  <2> QED BY <1>b, <2>2, <2>3, PromiseFinish
<1>3. ASSUME NEW written \in BOOLEAN, Remember(written) PROVE Promise!Next
  <2>1. PICK gone \in Evictable : excused' = excused \cup ({gone} \cap Ids)
    BY <1>3 DEF Remember
  <2>2. ran' = ran /\ InRun' = InRun
    BY <1>3, InRunSame DEF Remember
  <2> DEFINE ids == {gone} \cap Ids
  <2>3. ids \in SUBSET Ids /\ excused' = excused \cup ids
    BY <2>1
  <2> HIDE DEF ids
  <2> QED BY <1>b, <2>2, <2>3, PromiseExcuse
<1>4. CASE AgentCrash
  <2> DEFINE ids == {id \in Ids : Cached(id) /\ cache'[id] = NoResult}
                    \cup {id \in Ids : id = job /\ pc \in {"running", "remember"}}
  <2>1. excused' = excused \cup ids /\ ran' = ran /\ pc' = "polling"
    BY <1>4 DEF AgentCrash
  <2>2. InRun' = {} /\ InRun \ ids = {}
    BY <2>1 DEF InRun
  <2>3. PICK given \in SUBSET Ids : given = ids
    OBVIOUS
  <2> HIDE DEF ids
  <2> QED BY <1>b, <2>1, <2>2, <2>3, PromiseExcuse
<1>5. CASE AnswerFromCache \/ IdlePoll \/ PollBreaks \/ PostFails \/ \E id \in Ids : Repost(id)
  <2>1. UNCHANGED <<ran, excused>>
    BY <1>5 DEF AnswerFromCache, IdlePoll, PollBreaks, PostFails, Repost, histVars
  <2>2. pc # "running" /\ pc' # "running"
    BY <1>5 DEF AnswerFromCache, IdlePoll, PollBreaks, PostFails, Repost, Resume
  <2> QED BY <1>a, <1>b, <2>1, <2>2, StutterOf, InRunSame
<1> QED BY <1>1, <1>2, <1>3, <1>4, <1>5 DEF AgentStep

\* A recorded result is the answer shown; no other router had one to show.
LEMMA RecordKeepsPromise ==
  ASSUME ChanInv, NEW p \in posts, NEW u \in Users, HandleRecord(u, p)
  PROVE  [Promise!Next]_Promise!pvars
<1>0. /\ p.id \in Ids /\ p.out \in Outcomes /\ p.out \in ran[p.id] /\ TypeOK
      /\ verdict \in [Ids -> Outcomes \cup {"none"}] /\ Home
  BY DEF ChanInv, BackendTyped, Post, PostTells, QueueInv
<1>1. UNCHANGED <<ran, excused, pc, job>>
  BY DEF HandleRecord, agentVars, histVars
<1>2. InRun' = InRun
  BY <1>1, InRunSame
<1>3. CASE RecordResult(u, p.id) /\ verdict' = [verdict EXCEPT ![p.id] = p.out]
  <2>1. PICK id \in Ids, o \in Outcomes : id = p.id /\ o = p.out
    BY <1>0
  <2>2. \A v \in Users : ~Answered(v, id)
    <3>1. Known(u, id) /\ ~Answered(u, id)
      BY <1>3, <2>1 DEF RecordResult, Known, Holds, IsIssued
    <3>2. \A v \in Users : Answered(v, id) => Known(v, id)
      BY DEF Known, Holds, Answered
    <3> QED BY <1>0, <3>1, <3>2 DEF Home
  <2>3. \A v \in Users, j \in Ids : Answered(v, j)' <=> Answered(v, j) \/ (v = u /\ j = id)
    BY <1>0, <1>3, <2>1, RecordKnown
  <2>4. verdict'[id] = o /\ \A j \in Ids : j # id => verdict'[j] = verdict[j]
    BY <1>0, <1>3, <2>1
  <2>5. Shown[id] = "none"
    BY <2>2 DEF Shown
  <2>6. Shown' = [Shown EXCEPT ![id] = o]
    BY <2>3, <2>4 DEF Shown
  <2> QED BY <1>0, <1>1, <1>2, <2>1, <2>5, <2>6, PromiseShow
<1>4. CASE UNCHANGED <<vars, verdict>>
  BY <1>1, <1>2, <1>4, StutterOf DEF vars
<1> QED BY <1>3, <1>4 DEF HandleRecord

\* The janitor and a restart only take answers away.
LEMMA LossKeepsPromise ==
  ASSUME NoNewAnswer, verdict' = verdict, UNCHANGED <<ran, excused, pc, job>>
  PROVE  Promise!Next
<1> DEFINE ids == {id \in Ids : \A u \in Users : ~Answered(u, id)'}
<1>1. Shown' = [id \in Ids |-> IF id \in ids THEN "none" ELSE Shown[id]]
  BY DEF Shown, NoNewAnswer
<1>2. PICK lost \in SUBSET Ids : lost = ids
  OBVIOUS
<1> HIDE DEF ids
<1> QED BY <1>1, <1>2, InRunSame, PromiseWithdraw

LEMMA StepKeepsPromise == ChanInv /\ [ChanNext]_chanVars => [Promise!Next]_Promise!pvars
<1> SUFFICES ASSUME ChanInv, ChanNext \/ UNCHANGED chanVars PROVE [Promise!Next]_Promise!pvars
  OBVIOUS
<1>0. TypeOK
  BY DEF ChanInv, QueueInv
<1>1. CASE UNCHANGED chanVars
  BY <1>1, StutterOf, InRunSame DEF chanVars, vars, agentVars, histVars
<1>2. ASSUME NEW p \in posts, HandleJournal(p) PROVE UNCHANGED Promise!pvars
  <2>1. results' = results /\ verdict' = verdict /\ UNCHANGED <<ran, excused>>
    BY <1>2 DEF HandleJournal, vars
  <2>2. UNCHANGED <<pc, job>> \/ (pc # "running" /\ pc' # "running")
    BY <1>2 DEF HandleJournal, Accept, Resume
  <2> QED BY <2>1, <2>2, StutterOf, InRunSame
<1>3. CASE ChanSweep \/ BackendCrash
  <2>1. NoNewAnswer
    BY <1>0, <1>3, SweepKnown, RestartKnown DEF ChanSweep, BackendCrash, NoNewAnswer
  <2> QED BY <1>3, <2>1, LossKeepsPromise DEF ChanSweep, BackendCrash, agentVars, histVars
<1>4. CASE ChanTick
  <2> DEFINE ids == {id \in Ids : Cached(id) /\ Stale(cache'[id])}
  <2>1. excused' = excused \cup ids /\ UNCHANGED <<pc, job, ran, verdict>>
    BY <1>4 DEF ChanTick
  <2>2. Shown' = Shown /\ InRun' = InRun
    BY <1>0, <1>4, <2>1, TickKnown, ShownSame, InRunSame DEF ChanTick
  <2>3. PICK given \in SUBSET Ids : given = ids
    OBVIOUS
  <2> HIDE DEF ids
  <2> QED BY <2>1, <2>2, <2>3, PromiseExcuse
<1> QED BY <1>1, <1>2, <1>3, <1>4, OutsideKeepsPromise, AgentKeepsPromise, RecordKeepsPromise
        DEF ChanNext, ChanStep, Adversity, Handle

\* The channel implements CommandPromise: whatever polls and posts break and
\* whatever crashes, a command is run a second time only when the agent had a
\* reason to forget the run, and the answer shown is the outcome of a run.
THEOREM ChannelKeepsPromise == ChanSpec => KeepsPromise
<1>1. ChanInit => Promise!Init
  <2> SUFFICES ASSUME ChanInit PROVE Promise!Init
    OBVIOUS
  <2>1. \A u \in Users, id \in Ids : ~Answered(u, id)
    BY DEF ChanInit, Init, Answered
  <2> QED BY <2>1, ChannelConstants DEF ChanInit, Promise!Init
<1> QED BY <1>1, StepKeepsPromise, SpecChanInv, PTL DEF ChanSpec, KeepsPromise, Promise!Spec
===============================================================================
