--------------------------- MODULE CommandChannel ---------------------------
(***************************************************************************)
(* One router's command channel from end to end: the operator's handlers   *)
(* that journal and queue a command, the queue (CmdQueue), the long poll   *)
(* that carries it, the agent's loop with its cache of results and the     *)
(* file behind it, and the handler of the posted result.                   *)
(*                                                                         *)
(* Polls and posts break at any moment, also after the other side has      *)
(* acted; the agent and the backend crash and restart at any moment; a     *)
(* file write or a database write may fail.                                *)
(*                                                                         *)
(* A command's identifier is used once.  Commands of UpdateIds are put in  *)
(* by agentDeployCore, which binds the journal entry to the command before *)
(* queueing it; commands of OtherIds by miniappCommandHandler, which binds *)
(* it after.  Not here: rows a handler closes itself because nothing was   *)
(* queued, and the updates that are sent again on contact or after a       *)
(* restart, which have no row (PendingDeploy).                             *)
(***************************************************************************)
EXTENDS CmdQueue

CONSTANTS
  CacheTTL,   \* Loop.cacheTTL (10 minutes)
  CacheMax,   \* Loop.cacheMax (128 results)
  Outcomes    \* outcomes of a run, as the journal tells them apart

NoCommand == "none"

\* "none" is no identifier, and an outcome is neither none nor a state of a row
\* that is not closed.
ASSUME ChannelConstants ==
  /\ CacheTTL \in Nat /\ CacheMax \in Nat \ {0}
  /\ NoCommand \notin Ids
  /\ Outcomes \cap {"none", "open", "bound"} = {}

VARIABLES
  desk,     \* how far the operator's handler of a command is
  journal,  \* the command's row of operation_journal
  pc,       \* the agent's loop
  job,      \* the command the loop is busy with
  out,      \* the outcome of the run that is not yet remembered
  conn,     \* the command the agent's current poll was given, or NoCommand
  todo,     \* results still to repost in this idle round
  cache,    \* Loop.resultCache
  disk,     \* the cache file
  posts,    \* result handlers at work in the backend
  verdict,  \* payload of q.results: the recorded outcome
  acked,    \* history: commands whose answer the agent saw accepted (200)
  ran,      \* history: the outcomes of each command's finished runs
  excused   \* history: commands whose run the agent had a reason to forget

agentVars == <<pc, job, out, conn, todo, cache, disk>>
deskVars == <<desk, journal>>
histVars == <<acked, ran, excused>>
chanVars == <<vars, agentVars, deskVars, histVars, posts, verdict>>

NoResult == [out |-> "none", age |-> 0, posted |-> FALSE]
Result == [out : Outcomes, age : 0 .. CacheTTL + 1, posted : BOOLEAN]

ChanInit ==
  /\ Init
  /\ desk = [id \in Ids |-> "idle"]
  /\ journal = [id \in Ids |-> "none"]
  /\ pc = "polling" /\ job = NoCommand /\ out = "none" /\ conn = NoCommand
  /\ todo = {}
  /\ cache = [id \in Ids |-> NoResult]
  /\ disk = [id \in Ids |-> NoResult]
  /\ posts = {}
  /\ verdict = [id \in Ids |-> "none"]
  /\ acked = {}
  /\ ran = [id \in Ids |-> {}]
  /\ excused = {}

-----------------------------------------------------------------------------
(* The operator's side: journal, bind, queue.                              *)

BeginOperation(id) ==
  /\ desk[id] = "idle"
  /\ desk' = [desk EXCEPT ![id] = "begun"]
  /\ journal' = [journal EXCEPT ![id] = "open"]
  /\ UNCHANGED <<vars, agentVars, histVars, posts, verdict>>

\* AttachCommand binds only an open, unbound row.
Bind(id) == journal' = [journal EXCEPT ![id] = IF @ = "open" THEN "bound" ELSE @]

\* The update path queues first and binds after, like the mini app.
NextDeskQueueFirst(id) == IF desk[id] = "begun" THEN "enqueue" ELSE "bind"

\* What the handler does after the row exists, and after its first step.
NextDesk(id) ==
  IF id \in UpdateIds
  THEN IF desk[id] = "begun" THEN "bind" ELSE "enqueue"
  ELSE IF desk[id] = "begun" THEN "enqueue" ELSE "bind"

Advance(id) == desk' = [desk EXCEPT ![id] = IF @ = "begun" THEN "half" ELSE "done"]

AttachCommand(id) ==
  /\ desk[id] \in {"begun", "half"}
  /\ NextDesk(id) = "bind"
  /\ Bind(id)
  /\ Advance(id)
  /\ UNCHANGED <<vars, agentVars, histVars, posts, verdict>>

EnqueueCommand(u, id) ==
  /\ desk[id] \in {"begun", "half"}
  /\ NextDesk(id) = "enqueue"
  /\ Enqueue(u, id)
  /\ Advance(id)
  /\ UNCHANGED <<journal, agentVars, histVars, posts, verdict>>

\* A handler that shows the answer also closes the row, with the recorded
\* outcome (miniappCommandResultHandler, wizardCmdResultHandler).
Close(id, o) == journal' = [journal EXCEPT ![id] = IF @ = "bound" THEN o ELSE @]

\* The row is closed before there is an answer.
ViewResultEarly(u, id) ==
  /\ desk[id] = "done"
  /\ \E o \in Outcomes : Close(id, o)
  /\ UNCHANGED <<vars, agentVars, desk, histVars, posts, verdict>>

ViewResult(u, id) ==
  /\ Answered(u, id)
  /\ Close(id, verdict[id])
  /\ UNCHANGED <<vars, agentVars, desk, histVars, posts, verdict>>

-----------------------------------------------------------------------------
(* The long poll.                                                          *)

\* The handler of the agent's current poll takes a command.
TakeCommand(u) ==
  /\ pc = "polling" /\ conn = NoCommand
  /\ \E i \in DOMAIN pending[u] : Issue(u, i) /\ conn' = pending[u][i].id
  /\ UNCHANGED <<pc, job, out, todo, cache, disk, deskVars, histVars, posts, verdict>>

\* So may the handler of a poll that the agent has given up.
TakeForDeadPoll(u) ==
  /\ \E i \in DOMAIN pending[u] : Issue(u, i)
  /\ UNCHANGED <<agentVars, deskVars, histVars, posts, verdict>>

\* Either handler throws expired commands away.
ThrowExpired(u) ==
  /\ \E i \in DOMAIN pending[u] : DropExpired(u, i)
  /\ UNCHANGED <<agentVars, deskVars, histVars, posts, verdict>>

\* The write ends well, or the handler sees the connection gone; neither
\* tells what the agent has read.
WriteEnds(u) ==
  /\ \E c \in writing[u] : Deliver(u, c)
  /\ UNCHANGED <<agentVars, deskVars, histVars, posts, verdict>>

WriteFails(u) ==
  /\ \E c \in writing[u] : ReturnUndelivered(u, c)
  /\ UNCHANGED <<agentVars, deskVars, histVars, posts, verdict>>

\* The poll times out or breaks; the loop backs off and polls again.
PollBreaks ==
  /\ pc = "polling" /\ conn # NoCommand
  /\ conn' = NoCommand
  /\ UNCHANGED <<vars, pc, job, out, todo, cache, disk, deskVars, histVars, posts, verdict>>

-----------------------------------------------------------------------------
(* The agent's loop.                                                       *)

Cached(id) == cache[id] # NoResult
\* An entry is dropped one step of the clock late.
StaleLate(r) == r.age > CacheTTL + 1

Stale(r) == r.age > CacheTTL
StartPost(id) == posts' = posts \cup {[id |-> id, out |-> cache'[id].out, step |-> "record"]}

\* A command that was run before is answered from the cache.
AnswerFromCache ==
  /\ pc = "polling" /\ conn # NoCommand
  /\ Cached(conn) /\ ~Stale(cache[conn])
  /\ job' = conn /\ conn' = NoCommand /\ pc' = "posting"
  /\ UNCHANGED cache
  /\ StartPost(conn)
  /\ UNCHANGED <<vars, out, todo, disk, deskVars, histVars, verdict>>

\* The loop runs every command it is given.
RunsRegardless == conn # NoCommand

MustRun == conn # NoCommand /\ (Cached(conn) => Stale(cache[conn]))

StartRun ==
  /\ pc = "polling" /\ MustRun
  /\ job' = conn /\ conn' = NoCommand /\ pc' = "running"
  /\ cache' = [cache EXCEPT ![conn] = NoResult]
  /\ UNCHANGED <<vars, out, todo, disk, deskVars, histVars, posts, verdict>>

EndRun(o) ==
  /\ pc = "running"
  /\ out' = o /\ pc' = "remember"
  /\ ran' = [ran EXCEPT ![job] = @ \cup {o}]
  /\ UNCHANGED <<vars, job, conn, todo, cache, disk, deskVars, acked, excused,
                 posts, verdict>>

\* The oldest results, when the cache is full.
Evictable ==
  LET full == {id \in Ids : Cached(id)} IN
  IF Cardinality(full) < CacheMax THEN {NoCommand}
  ELSE {id \in full : \A other \in full : cache[other].age <= cache[id].age}

\* The file holds what the cache holds, less what is stale.
Fresh(c) == [id \in Ids |-> IF Stale(c[id]) THEN NoResult ELSE c[id]]

\* The result goes to the cache and to the file before it is posted; a failed
\* write of the file is only logged.
Remember(written) ==
  /\ pc = "remember"
  /\ \E gone \in Evictable :
       /\ cache' = [id \in Ids |->
                      IF id = job THEN [out |-> out, age |-> 0, posted |-> FALSE]
                      ELSE IF id = gone THEN NoResult ELSE cache[id]]
       /\ excused' = excused \cup ({gone} \cap Ids)
  /\ disk' = IF written THEN Fresh(cache') ELSE disk
  /\ StartPost(job)
  /\ out' = "none" /\ pc' = "posting"
  /\ UNCHANGED <<vars, job, conn, todo, deskVars, acked, ran, verdict>>

\* The loop goes on with the round of reposts, or polls.
Resume == /\ pc' = IF todo' = {} THEN "polling" ELSE "reposting"
          /\ job' = NoCommand

\* The post times out, breaks or is refused: the agent will try again.
PostFails ==
  /\ pc = "posting"
  /\ todo' = todo \ {job}
  /\ Resume
  /\ cache' = [cache EXCEPT ![job].posted = FALSE]
  /\ posts' \in {posts} \cup
       {posts \ {p} : p \in {q \in posts : q.id = job /\ q.step = "record"}}
  /\ UNCHANGED <<vars, out, conn, disk, deskVars, histVars, verdict>>

\* An idle poll (204) is followed by a round over the results not yet posted.
IdlePoll ==
  /\ pc = "polling" /\ conn = NoCommand
  /\ todo' = {id \in Ids : Cached(id) /\ ~cache[id].posted}
  /\ todo' # {}
  /\ pc' = "reposting"
  /\ UNCHANGED <<vars, job, out, conn, cache, disk, deskVars, histVars, posts, verdict>>

Repost(id) ==
  /\ pc = "reposting" /\ id \in todo
  /\ IF Stale(cache[id])
     THEN /\ cache' = [cache EXCEPT ![id] = NoResult]
          /\ todo' = todo \ {id}
          /\ Resume
          /\ UNCHANGED posts
     ELSE /\ job' = id /\ pc' = "posting"
          /\ UNCHANGED <<cache, todo>>
          /\ StartPost(id)
  /\ UNCHANGED <<vars, out, conn, disk, deskVars, histVars, verdict>>

\* The agent dies and starts again with what the file holds, less what is
\* stale.  It may forget a run it was in the middle of.
AgentCrash ==
  /\ cache' = Fresh(disk)
  /\ disk' = disk
  /\ excused' = excused \cup {id \in Ids : Cached(id) /\ cache'[id] = NoResult}
                        \cup {id \in Ids : id = job /\ pc \in {"running", "remember"}}
  /\ pc' = "polling" /\ job' = NoCommand /\ out' = "none" /\ conn' = NoCommand
  /\ todo' = {}
  /\ UNCHANGED <<vars, deskVars, acked, ran, posts, verdict>>

-----------------------------------------------------------------------------
(* The result handler: record, close the journal row, answer.              *)

\* A duplicate and an answer to a command that is not issued are not
\* recorded, and are answered like the others.
HandleRecord(u, p) ==
  /\ p \in posts /\ p.step = "record"
  /\ \/ /\ RecordResult(u, p.id)
        /\ verdict' = [verdict EXCEPT ![p.id] = p.out]
     \/ /\ Answered(u, p.id) \/ ~IsIssued(u, p.id)
        /\ UNCHANGED <<vars, verdict>>
  /\ posts' = (posts \ {p}) \cup {[p EXCEPT !.step = "journal"]}
  /\ UNCHANGED <<agentVars, deskVars, histVars>>

\* 200: an agent still waiting for this answer marks the result as posted.
Accept(p) ==
  IF pc = "posting" /\ job = p.id
  THEN /\ cache' = [cache EXCEPT ![p.id].posted = TRUE]
       /\ acked' = acked \cup {p.id}
       /\ todo' = todo \ {p.id}
       /\ Resume
  ELSE UNCHANGED <<cache, acked, todo, pc, job>>

HandleJournal(p) ==
  /\ p \in posts /\ p.step = "journal"
  /\ posts' = posts \ {p}
  /\ Close(p.id, p.out)
  /\ Accept(p)
  /\ UNCHANGED <<vars, out, conn, disk, desk, ran, excused, verdict>>

\* The database refuses: 500, and the agent will post again.
JournalFails(p) ==
  /\ p \in posts /\ p.step = "journal"
  /\ posts' = posts \ {p}
  /\ UNCHANGED <<vars, agentVars, deskVars, histVars, verdict>>

\* The backend restarts: its handlers and its queue are gone, its database
\* is not.
BackendCrash ==
  /\ Restart
  /\ posts' = {}
  /\ desk' = [id \in Ids |-> IF desk[id] \in {"begun", "half"} THEN "done" ELSE desk[id]]
  /\ UNCHANGED <<journal, agentVars, histVars, verdict>>

\* Time passes on both sides.
ChanTick ==
  /\ Tick
  /\ LET Grow(c) == [id \in Ids |-> IF c[id] = NoResult \/ Stale(c[id]) THEN c[id]
                                    ELSE [c[id] EXCEPT !.age = @ + 1]]
     IN cache' = Grow(cache) /\ disk' = Grow(disk)
  /\ excused' = excused \cup {id \in Ids : Cached(id) /\ Stale(cache'[id])}
  /\ UNCHANGED <<pc, job, out, conn, todo, deskVars, acked, ran, posts, verdict>>

ChanSweep == Sweep /\ UNCHANGED <<agentVars, deskVars, histVars, posts, verdict>>

-----------------------------------------------------------------------------

AgentStep == \/ StartRun \/ AnswerFromCache \/ Remember(TRUE) \/ IdlePoll
             \/ \E id \in Ids : Repost(id)
             \/ \E o \in Outcomes : EndRun(o)

Handle == \E p \in posts : (\E u \in Users : HandleRecord(u, p)) \/ HandleJournal(p)

\* What the program does when it is left to run.
ChanStep ==
  \/ \E id \in Ids : BeginOperation(id) \/ AttachCommand(id)
  \/ \E u \in Users, id \in Ids : EnqueueCommand(u, id) \/ ViewResult(u, id)
  \/ \E u \in Users : TakeCommand(u) \/ ThrowExpired(u) \/ WriteEnds(u)
  \/ AgentStep
  \/ Handle
  \/ ChanSweep

\* What the world does to it.
Adversity == \/ \E u \in Users : TakeForDeadPoll(u) \/ WriteFails(u)
             \/ \E p \in posts : JournalFails(p)
             \/ Remember(FALSE)
             \/ PollBreaks \/ PostFails \/ AgentCrash \/ BackendCrash \/ ChanTick

ChanNext == ChanStep \/ Adversity

ChanSpec == ChanInit /\ [][ChanNext]_chanVars

-----------------------------------------------------------------------------

\* Every part of the channel holds values the code can put there.
ChanTypeOK ==
  /\ TypeOK
  /\ desk \in [Ids -> {"idle", "begun", "half", "done"}]
  /\ journal \in [Ids -> {"none", "open", "bound"} \cup Outcomes]
  /\ pc \in {"polling", "running", "remember", "posting", "reposting"}
  /\ job \in Ids \cup {NoCommand}
  /\ out \in Outcomes \cup {"none"}
  /\ conn \in Ids \cup {NoCommand}
  /\ todo \subseteq Ids
  /\ cache \in [Ids -> Result \cup {NoResult}]
  /\ disk \in [Ids -> Result \cup {NoResult}]
  /\ posts \subseteq [id : Ids, out : Outcomes, step : {"record", "journal"}]
  /\ verdict \in [Ids -> Outcomes \cup {"none"}]
  /\ acked \subseteq Ids
  /\ ran \in [Ids -> SUBSET Outcomes]
  /\ excused \subseteq Ids

\* The channel keeps its promise: whatever polls and posts break, and whatever
\* crashes, a command is run a second time only if the agent died in the middle
\* of it, or lost the cached result to age, to eviction or to a failed write
\* of the file; and the answer the backend shows is the outcome of a run.
Promise == INSTANCE CommandPromise WITH
  inRun <- {id \in Ids : id = job /\ pc = "running"},
  answer <- [id \in Ids |->
               IF \E u \in Users : Answered(u, id) THEN verdict[id] ELSE "none"],
  NoOutcome <- "none"

KeepsPromise == Promise!Spec

\* The journal tells what happened: a closed row holds the outcome of a run,
\* and the one the backend shows, unless the agent had to run the command
\* twice.  Results are recorded, and rows closed, by different handlers of
\* the same result, and by whoever looks at it.  It speaks of rows that a result
\* has closed.
JournalTellsAnswer ==
  \A u \in Users, id \in Ids :
    journal[id] \in Outcomes =>
      /\ journal[id] \in ran[id]
      /\ Answered(u, id) /\ id \notin excused => journal[id] = verdict[id]

\* The result post is the terminal event of an update: once the router saw its
\* answer accepted, it never sends it again, so the row must be closed.  It
\* speaks of the updates an operator sent: the others have no row.
UpdateJournalClosed == \A id \in acked \cap UpdateIds : journal[id] \in Outcomes

\* The same for every journalled command whose handler has done its part, as
\* the comment of cmdResultHandler says: "The result POST is the authoritative
\* terminal event. Polling is only a view concern and may never happen".
JournalClosed == \A id \in acked : desk[id] = "done" => journal[id] \in Outcomes
=============================================================================
