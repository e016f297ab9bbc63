------------------------- MODULE PendingDeployProofs -------------------------
(***************************************************************************)
(* Proofs about PendingDeploy, for any number of versions, commands,       *)
(* handlers at work at once and events: its types, and that people are     *)
(* told that an update does not install only after it was sent out         *)
(* MaxAttempts times.                                                      *)
(*                                                                         *)
(* The second is an action property about the moment of the give-up, but   *)
(* what earns it lies far back: the counter of the row was raised, one by  *)
(* one, by handlers that had dispatched a command earlier and count it at  *)
(* their leisure, while operators replaced the version and restarts lost   *)
(* the counts.  Covered is what all of them keep true: of every version,   *)
(* the attempts the row holds for it and the dispatches still to be        *)
(* counted for it are together no more than the times it was sent out.     *)
(* Earned carries that from the handler's look at the row to its step.     *)
(***************************************************************************)
EXTENDS PendingDeploy, FiniteSetTheorems, WellFoundedInduction, TLAPS

Outcomes == {"none", "ok", "fail", "busy"}
Rows == [pend : Versions \cup {None}, attempts : Nat, old : BOOLEAN]
Cmds == [st : {"gone", "waiting", "issued", "answered"}, target : Versions, out : Outcomes]
Polls == [pc : {"idle", "expire", "reset", "queue", "take", "write"},
          v : Versions \cup {None}, id : Ids \cup {NoCmd}, got : BOOLEAN, saw : BOOLEAN]
Reports == [pc : {"idle", "select", "update", "active", "exhausted", "giveup",
                  "ensure", "expire", "reset", "queue"},
            v : Versions \cup {None}, seen : Versions \cup {None}, saw : BOOLEAN]
Results == [pc : {"idle", "record", "fail", "busy", "giveup"}, id : Ids \cup {NoCmd},
            out : Outcomes, saw : BOOLEAN]
Operators == [pc : {"idle", "clear", "drop", "mark", "enqueue", "cancel", "unmark", "reset"},
              target : Versions \cup {None}, seen : Versions \cup {None}, saw : BOOLEAN]

\* What a handler holds at the stages that use it.
OpFits == op.pc \in {"clear", "drop", "mark", "enqueue"} => op.target \in Versions
PollFits == /\ poll.pc = "queue" => poll.v \in Versions
            /\ poll.pc = "write" => poll.id \in Ids
RepFits == /\ rep.pc \in {"select", "update"} => rep.v \in Versions
           /\ rep.pc \in {"giveup", "queue"} => rep.seen \in Versions
ResFits == /\ res.pc # "idle" => res.id \in Ids
           /\ res.pc = "record" => res.out # "none"
RouterFits == result # "none" => job \in Ids

Typed == DeployTypeOK /\ OpFits /\ PollFits /\ RepFits /\ ResFits /\ RouterFits

\* Dispatches of version v that a poll handler is still to count.
Uncounted(v) == {id \in counting : cmds[id].target = v}

\* What is, or can yet be, counted for version v.
Spent(v) == (IF row.pend = v THEN row.attempts ELSE 0) + Cardinality(Uncounted(v))

Enough(v) == shots[v] >= MaxAttempts

Covered == \A v \in Versions : Enough(v) \/ Spent(v) <= shots[v]

\* A handler that is about to give up has seen enough attempts.
Earned == /\ rep.pc = "giveup" => Enough(rep.seen)
          /\ res.pc = "giveup" => Enough(cmds[res.id].target)

DeployInv == Typed /\ Covered /\ Earned

-----------------------------------------------------------------------------
(* Constants, and the choice of an identifier.                             *)

LEMMA Constants ==
  /\ MaxVersion \in Nat \ {0} /\ MaxAttempts \in Nat \ {0} /\ MaxIds \in Nat \ {0}
  /\ 1 \in Versions /\ None \notin Versions /\ Versions \subseteq Nat
  /\ NoCmd \notin Ids /\ Ids \subseteq Nat /\ IsFiniteSet(Ids)
<1>1. IsFiniteSet(Ids)
  BY DeployConstants, FS_Interval DEF Ids
<1> QED BY <1>1, DeployConstants DEF Versions, Ids, None, NoCmd

LEMMA MinIsMember ==
  ASSUME NEW S, S \subseteq Nat, S # {}
  PROVE  Min(S) \in S
<1> DEFINE R == {ss \in Nat \X Nat : ss[1] < ss[2]}
<1>1. IsWellFoundedOn(R, Nat)
  BY NatLessThanWellFounded DEF OpToRel
<1> HIDE DEF R
<1>2. PICK x \in S : \A y \in S : ~ (<<y, x>> \in R)
  BY <1>1, WFMin
<1>3. ASSUME NEW y \in S PROVE x <= y
  <2>1. x \in Nat /\ y \in Nat /\ <<y, x>> \notin R
    BY <1>2, <1>3
  <2>2. ~ (y < x)
    BY <2>1 DEF R
  <2> QED BY <2>1, <2>2
<1> QED BY <1>3 DEF Min

LEMMA TypeParts ==
  DeployTypeOK <=>
    /\ row \in Rows /\ deployed \in Versions /\ cmds \in [Ids -> Cmds] /\ poll \in Polls
    /\ counting \subseteq Ids /\ rep \in Reports /\ res \in Results /\ op \in Operators
    /\ inst \in Versions /\ {swap, bak} \subseteq Versions \cup {None}
    /\ job \in Ids \cup {NoCmd} /\ result \in Outcomes
    /\ shots \in [Versions -> 0 .. MaxAttempts]
BY DEF DeployTypeOK, Rows, Cmds, Polls, Reports, Results, Operators, Outcomes

LEMMA TypePartsNext ==
  DeployTypeOK' <=>
    /\ row' \in Rows /\ deployed' \in Versions /\ cmds' \in [Ids -> Cmds] /\ poll' \in Polls
    /\ counting' \subseteq Ids /\ rep' \in Reports /\ res' \in Results /\ op' \in Operators
    /\ inst' \in Versions /\ {swap', bak'} \subseteq Versions \cup {None}
    /\ job' \in Ids \cup {NoCmd} /\ result' \in Outcomes
    /\ shots' \in [Versions -> 0 .. MaxAttempts]
BY DEF DeployTypeOK, Rows, Cmds, Polls, Reports, Results, Operators, Outcomes

-----------------------------------------------------------------------------
(* The operations on the queue's commands keep the targets of those that   *)
(* somebody still refers to.                                               *)

CmdsKept == cmds' \in [Ids -> Cmds] /\ \A id \in Ids : Held(id) => cmds'[id].target = cmds[id].target

LEMMA GoneFacts ==
  ASSUME DeployTypeOK, NEW id \in Ids
  PROVE  Gone(id) \in Cmds /\ (Held(id) => Gone(id).target = cmds[id].target)
<1>1. cmds[id] \in Cmds
  BY DEF DeployTypeOK, Cmds, Outcomes
<1> QED BY <1>1, Constants DEF Gone, Blank, Cmds, Outcomes

LEMMA DroppedFacts ==
  ASSUME DeployTypeOK
  PROVE  /\ Dropped \in [Ids -> Cmds]
         /\ \A id \in Ids : Held(id) => Dropped[id].target = cmds[id].target
<1>1. cmds \in [Ids -> Cmds]
  BY DEF DeployTypeOK, Cmds, Outcomes
<1> QED BY <1>1, GoneFacts DEF Dropped

LEMMA DroppedKeeps == ASSUME DeployTypeOK, cmds' = Dropped PROVE CmdsKept
BY DroppedFacts DEF CmdsKept

LEMMA EnqueueKeeps ==
  ASSUME DeployTypeOK, NEW v \in Versions, Enqueue(v)
  PROVE  CmdsKept
<1>1. Free \subseteq Ids /\ Free # {}
  BY DEF Free, Enqueue
<1>2. Min(Free) \in Free
  BY <1>1, Constants, MinIsMember
<1> DEFINE m == Min(Free)
           new == [st |-> "waiting", target |-> v, out |-> "none"]
<1>3. m \in Ids /\ ~Held(m)
  BY <1>2 DEF Free
<1>4. cmds' = [Dropped EXCEPT ![m] = new]
  BY DEF Enqueue, Queued
<1>5. new \in Cmds
  BY DEF Cmds, Outcomes
<1> HIDE DEF m, new
<1> QED BY <1>3, <1>4, <1>5, DroppedFacts DEF CmdsKept

LEMMA SameKeeps == ASSUME DeployTypeOK, cmds' = cmds PROVE CmdsKept
BY DEF CmdsKept, DeployTypeOK, Cmds, Outcomes

LEMMA EnqueueIfKeeps ==
  ASSUME DeployTypeOK, NEW v \in Versions, EnqueueIfNoActive(v)
  PROVE  CmdsKept
BY EnqueueKeeps, SameKeeps DEF EnqueueIfNoActive

\* One command changes, but not its target.
LEMMA OneKeeps ==
  ASSUME DeployTypeOK, NEW id \in Ids, NEW c \in Cmds, c.target = cmds[id].target,
         cmds' = [cmds EXCEPT ![id] = c]
  PROVE  CmdsKept
<1>1. cmds \in [Ids -> Cmds]
  BY DEF DeployTypeOK, Cmds, Outcomes
<1> QED BY <1>1 DEF CmdsKept

-----------------------------------------------------------------------------
(* Counting.                                                               *)

LEMMA UncountedFinite ==
  ASSUME DeployTypeOK, NEW v
  PROVE  IsFiniteSet(Uncounted(v)) /\ Cardinality(Uncounted(v)) \in Nat
BY Constants, FS_Subset, FS_CardinalityType DEF Uncounted, DeployTypeOK

LEMMA OneMore ==
  ASSUME NEW S, IsFiniteSet(S), NEW x
  PROVE  /\ Cardinality(S \cup {x}) \in Nat
         /\ Cardinality(S \cup {x}) <= Cardinality(S) + 1
<1>1. /\ Cardinality(S) \in Nat
      /\ Cardinality(S \cup {x}) = IF x \in S THEN Cardinality(S) ELSE Cardinality(S) + 1
  BY FS_AddElement, FS_CardinalityType
<1>2. CASE x \in S
  BY <1>1, <1>2
<1>3. CASE x \notin S
  BY <1>1, <1>3
<1> QED BY <1>2, <1>3

LEMMA OneLess ==
  ASSUME NEW S, IsFiniteSet(S), NEW x \in S
  PROVE  Cardinality(S \ {x}) = Cardinality(S) - 1
BY FS_RemoveElement

\* The row holds no more attempts for any version than it did.
RowQuiet == \A v \in Versions :
  row'.pend = v => row'.attempts = 0 \/ (row.pend = v /\ row'.attempts <= row.attempts)

\* No handler comes to give up.
NoOneEarns ==
  /\ rep'.pc = "giveup" => rep.pc = "giveup" /\ rep'.seen = rep.seen
  /\ res'.pc = "giveup" => res.pc = "giveup" /\ res'.id = res.id

LEMMA QuietCovered ==
  ASSUME DeployInv, DeployTypeOK', counting' \subseteq counting, shots' = shots,
         CmdsKept, RowQuiet
  PROVE  Covered'
<1> SUFFICES ASSUME NEW v \in Versions, ~Enough(v)
             PROVE  Spent(v)' <= shots[v]
  BY DEF Covered, Enough
<1>1. Uncounted(v)' \subseteq Uncounted(v)
  BY DEF Uncounted, CmdsKept, Held, DeployTypeOK, DeployInv, Typed
<1>2. /\ Cardinality(Uncounted(v)') <= Cardinality(Uncounted(v))
      /\ Cardinality(Uncounted(v)') \in Nat /\ Cardinality(Uncounted(v)) \in Nat
  BY <1>1, UncountedFinite, FS_Subset, FS_CardinalityType DEF DeployInv, Typed
<1>3. Spent(v) <= shots[v] /\ shots[v] \in Nat
  BY DeployConstants DEF DeployInv, Covered, Typed, DeployTypeOK
<1>4. /\ row.attempts \in Nat /\ row'.attempts \in Nat
      /\ row'.pend = v => row'.attempts = 0 \/ (row.pend = v /\ row'.attempts <= row.attempts)
  BY DEF DeployInv, Typed, DeployTypeOK, RowQuiet
<1> QED BY <1>2, <1>3, <1>4 DEF Spent

LEMMA QuietEarned ==
  ASSUME DeployInv, DeployTypeOK', shots' = shots, CmdsKept, NoOneEarns
  PROVE  Earned'
<1>1. res'.pc = "giveup" => cmds'[res.id].target = cmds[res.id].target
  BY DEF NoOneEarns, CmdsKept, Held, DeployInv, Typed, ResFits
<1> QED BY <1>1 DEF DeployInv, Earned, NoOneEarns, Enough

\* A step that neither dispatches nor counts, and leads nobody to give up.
LEMMA QuietStep ==
  ASSUME DeployInv, Typed', counting' \subseteq counting, shots' = shots,
         CmdsKept, RowQuiet, NoOneEarns
  PROVE  DeployInv'
BY QuietCovered, QuietEarned DEF DeployInv, Typed

LEMMA SameRow == ASSUME row \in Rows, row' = row PROVE RowQuiet
BY DEF RowQuiet, Rows

LEMMA RowFields ==
  ASSUME NEW p \in Versions \cup {None}, NEW n \in Nat, NEW o \in BOOLEAN
  PROVE  [pend |-> p, attempts |-> n, old |-> o] \in Rows
BY DEF Rows

LEMMA ClearMarkQuiet ==
  ASSUME row \in Rows, ClearMark \/ ResetAttempts
  PROVE  row' \in Rows /\ RowQuiet
<1>1. row \in [pend : Versions \cup {None}, attempts : Nat, old : BOOLEAN]
  BY DEF Rows
<1>2. CASE ClearMark
  <2>1. row' = [pend |-> None, attempts |-> row.attempts, old |-> FALSE]
    BY <1>1, <1>2 DEF ClearMark
  <2> QED BY <1>1, <2>1, Constants DEF Rows, RowQuiet
<1>3. CASE ResetAttempts
  <2>1. row' = [pend |-> row.pend, attempts |-> 0, old |-> row.old]
    BY <1>1, <1>3 DEF ResetAttempts
  <2> QED BY <1>1, <2>1 DEF Rows, RowQuiet
<1> QED BY <1>2, <1>3

LEMMA ClearMatchQuiet ==
  ASSUME row \in Rows, NEW v, ClearIfMatches(v)
  PROVE  row' \in Rows /\ RowQuiet
<1>1. CASE row.pend = v
  BY <1>1, ClearMarkQuiet DEF ClearIfMatches, ClearMark
<1>2. CASE row.pend # v
  BY <1>2 DEF ClearIfMatches, RowQuiet, Rows
<1> QED BY <1>1, <1>2

-----------------------------------------------------------------------------
(* The steps of each program, by what they leave alone.                    *)

Parts == DeployInv /\ row \in Rows /\ cmds \in [Ids -> Cmds] /\ poll \in Polls
         /\ rep \in Reports /\ res \in Results /\ op \in Operators
         /\ deployed \in Versions

LEMMA InvParts == DeployInv => Parts
BY TypeParts DEF DeployInv, Typed, Parts

LEMMA OperatorSteps ==
  ASSUME DeployInv, op' \in Operators, OpFits', row' \in Rows, RowQuiet, CmdsKept,
         UNCHANGED <<deployed, poll, counting, rep, res, agent, shots>>
  PROVE  DeployInv'
<1>1. Typed'
  BY TypeParts, TypePartsNext
     DEF DeployInv, Typed, PollFits, RepFits, ResFits, RouterFits, CmdsKept, agent, swapping
<1> QED BY <1>1, QuietStep DEF NoOneEarns

LEMMA PollSteps ==
  ASSUME DeployInv, poll' \in Polls, PollFits', row' \in Rows, RowQuiet, CmdsKept,
         UNCHANGED <<deployed, counting, rep, res, op, agent, shots>>
  PROVE  DeployInv'
<1>1. Typed'
  BY TypeParts, TypePartsNext
     DEF DeployInv, Typed, OpFits, RepFits, ResFits, RouterFits, CmdsKept, agent, swapping
<1> QED BY <1>1, QuietStep DEF NoOneEarns

LEMMA ReportSteps ==
  ASSUME DeployInv, rep' \in Reports, RepFits', row' \in Rows, RowQuiet, CmdsKept,
         deployed' \in Versions, rep'.pc = "giveup" => rep.pc = "giveup" /\ rep'.seen = rep.seen,
         UNCHANGED <<poll, counting, res, op, agent, shots>>
  PROVE  DeployInv'
<1>1. Typed'
  BY TypeParts, TypePartsNext
     DEF DeployInv, Typed, OpFits, PollFits, ResFits, RouterFits, CmdsKept, agent, swapping
<1> QED BY <1>1, QuietStep DEF NoOneEarns

LEMMA ResultSteps ==
  ASSUME DeployInv, res' \in Results, ResFits', row' \in Rows, RowQuiet, CmdsKept,
         res'.pc = "giveup" => res.pc = "giveup" /\ res'.id = res.id,
         UNCHANGED <<deployed, poll, counting, rep, op, agent, shots>>
  PROVE  DeployInv'
<1>1. Typed'
  BY TypeParts, TypePartsNext
     DEF DeployInv, Typed, OpFits, PollFits, RepFits, RouterFits, CmdsKept, agent, swapping
<1> QED BY <1>1, QuietStep DEF NoOneEarns

LEMMA RouterSteps ==
  ASSUME DeployInv, CmdsKept, RouterFits',
         inst' \in Versions, {swap', bak'} \subseteq Versions \cup {None},
         job' \in Ids \cup {NoCmd}, result' \in Outcomes,
         UNCHANGED <<row, deployed, handlers, counting, shots>>
  PROVE  DeployInv'
<1>1. Typed'
  BY TypeParts, TypePartsNext
     DEF DeployInv, Typed, OpFits, PollFits, RepFits, ResFits, CmdsKept, handlers
<1>2. RowQuiet
  BY SameRow, InvParts DEF Parts
<1> QED BY <1>1, <1>2, QuietStep DEF NoOneEarns, handlers

-----------------------------------------------------------------------------
(* The operator.                                                           *)

OpStages == {"idle", "clear", "drop", "mark", "enqueue", "cancel", "unmark", "reset"}

LEMMA OpDoneFits == ASSUME OpDone PROVE op' \in Operators /\ OpFits'
BY DEF OpDone, Operators, OpFits

LEMMA OpStepFits ==
  ASSUME op \in Operators, NEW next \in OpStages, OpStep(next),
         next \in {"clear", "drop", "mark", "enqueue"} => op.target \in Versions
  PROVE  op' \in Operators /\ OpFits'
<1>1. op' = [pc |-> next, target |-> op.target, seen |-> op.seen, saw |-> op.saw]
  BY DEF OpStep, Operators
<1> QED BY <1>1 DEF Operators, OpFits, OpStages

LEMMA OperatorInv ==
  ASSUME DeployInv, Operator
  PROVE  DeployInv'
<1> USE InvParts DEF Parts
<1>0. DeployTypeOK /\ OpFits
  BY DEF DeployInv, Typed
<1>1. ASSUME NEW v \in Versions, OpDeploy(v) PROVE DeployInv'
  <2>1. op' \in Operators /\ OpFits' /\ row' = row /\ cmds' = cmds
    BY <1>1 DEF OpDeploy, Operators, OpFits, Rows
  <2> QED BY <1>0, <1>1, <2>1, SameRow, SameKeeps, OperatorSteps DEF OpDeploy
<1>2. CASE OpClear
  <2>1. op' \in Operators /\ OpFits' /\ cmds' = cmds
    <3>1. CASE row.pend = op.seen
      BY <1>0, <1>2, <3>1, OpStepFits DEF OpClear, OpFits, OpStages
    <3>2. CASE row.pend # op.seen
      BY <1>2, <3>2, OpDoneFits DEF OpClear
    <3> QED BY <3>1, <3>2
  <2>2. row' \in Rows /\ RowQuiet
    BY <1>2, ClearMatchQuiet DEF OpClear
  <2> QED BY <1>0, <1>2, <2>1, <2>2, SameKeeps, OperatorSteps DEF OpClear
<1>3. CASE OpDrop
  <2>1. op' \in Operators /\ OpFits' /\ row' = row
    <3>1. CASE op.pc = "drop"
      BY <1>0, <1>3, <3>1, OpStepFits DEF OpDrop, OpFits, OpStages
    <3>2. CASE op.pc # "drop"
      BY <1>3, <3>2, OpStepFits DEF OpDrop, OpStages
    <3> QED BY <3>1, <3>2
  <2> QED BY <1>0, <1>3, <2>1, SameRow, DroppedKeeps, OperatorSteps DEF OpDrop
<1>4. CASE OpMark
  <2>1. op.target \in Versions /\ cmds' = cmds
    BY <1>0, <1>4 DEF OpMark, OpFits
  <2>2. CASE row.pend = None
    <3>1. op' \in Operators /\ OpFits'
      BY <1>4, <2>1, <2>2, OpStepFits DEF OpMark, OpStages
    <3>2. row' = [pend |-> op.target, attempts |-> 0, old |-> FALSE]
      BY <1>4, <2>2 DEF OpMark
    <3>3. row' \in Rows /\ RowQuiet
      BY <2>1, <3>2 DEF Rows, RowQuiet
    <3> QED BY <1>0, <1>4, <2>1, <3>1, <3>3, SameKeeps, OperatorSteps DEF OpMark
  <2>3. CASE row.pend # None
    <3>1. op' \in Operators /\ OpFits' /\ row' = row
      BY <1>4, <2>3, OpDoneFits DEF OpMark
    <3> QED BY <1>0, <1>4, <2>1, <3>1, SameRow, SameKeeps, OperatorSteps DEF OpMark
  <2> QED BY <2>2, <2>3
<1>5. CASE OpEnqueue
  <2>1. op' \in Operators /\ OpFits' /\ row' = row /\ op.target \in Versions
    BY <1>0, <1>5, OpDoneFits DEF OpEnqueue, OpFits
  <2> QED BY <1>0, <1>5, <2>1, SameRow, EnqueueKeeps, OperatorSteps DEF OpEnqueue
<1>6. CASE OpRollback
  <2>1. op' \in Operators /\ OpFits' /\ cmds' = cmds
    BY <1>6, OpDoneFits DEF OpRollback
  <2>2. row' \in Rows /\ RowQuiet
    BY <1>6, ClearMatchQuiet DEF OpRollback
  <2> QED BY <1>0, <1>6, <2>1, <2>2, SameKeeps, OperatorSteps DEF OpRollback
<1>7. CASE OpCancel
  <2>1. op' \in Operators /\ OpFits' /\ row' = row /\ cmds' = cmds
    BY <1>7, OpStepFits DEF OpCancel, OpStages
  <2> QED BY <1>0, <1>7, <2>1, SameRow, SameKeeps, OperatorSteps DEF OpCancel
<1>8. CASE OpUnmark
  <2>1. op' \in Operators /\ OpFits' /\ cmds' = cmds
    <3>1. CASE op.pc = "unmark"
      BY <1>8, <3>1, OpStepFits DEF OpUnmark, OpStages
    <3>2. CASE op.pc # "unmark"
      BY <1>8, <3>2, OpDoneFits DEF OpUnmark
    <3> QED BY <3>1, <3>2
  <2>2. row' \in Rows /\ RowQuiet
    BY <1>8, ClearMarkQuiet DEF OpUnmark
  <2> QED BY <1>0, <1>8, <2>1, <2>2, SameKeeps, OperatorSteps DEF OpUnmark
<1> QED BY <1>1, <1>2, <1>3, <1>4, <1>5, <1>6, <1>7, <1>8 DEF Operator

-----------------------------------------------------------------------------
(* The poll.                                                               *)

LEMMA EnsureFacts ==
  ASSUME NEW otherwise
  PROVE  /\ Ensure(otherwise) \in {otherwise, "expire", "queue"}
         /\ otherwise # "queue" /\ Ensure(otherwise) = "queue" => row.pend # None
BY DEF Ensure

LEMMA PollDoneFits == ASSUME PollDone PROVE poll' \in Polls /\ PollFits'
BY DEF PollDone, Polls, PollFits

LEMMA PollStepFits ==
  ASSUME poll \in Polls, NEW next \in {"reset", "take"}, PollStep(next)
  PROVE  poll' \in Polls /\ PollFits'
<1>1. poll' = [pc |-> next, v |-> poll.v, id |-> poll.id, got |-> poll.got, saw |-> poll.saw]
  BY DEF PollStep, Polls
<1> QED BY <1>1 DEF Polls, PollFits

\* A response was written: one more dispatch, which is still to be counted.
LEMMA PollWrittenInv == ASSUME DeployInv, PollWritten PROVE DeployInv'
<1> USE InvParts DEF Parts
<1> DEFINE t == cmds[poll.id].target
<1>1. poll.id \in Ids /\ t \in Versions
  BY DEF PollWritten, DeployInv, Typed, PollFits, Cmds
<1>2. /\ shots \in [Versions -> 0 .. MaxAttempts]
      /\ counting \subseteq Ids /\ counting' = counting \cup {poll.id}
      /\ shots' = [shots EXCEPT ![t] = IF @ < MaxAttempts THEN @ + 1 ELSE @]
  BY DEF PollWritten, DeployInv, Typed, DeployTypeOK
<1>3. shots' \in [Versions -> 0 .. MaxAttempts]
  BY <1>1, <1>2, DeployConstants
<1>4. poll' \in Polls /\ PollFits'
  BY PollDoneFits DEF PollWritten
<1>5. Typed'
  BY <1>1, <1>2, <1>3, <1>4, TypeParts, TypePartsNext
     DEF PollWritten, DeployInv, Typed, OpFits, RepFits, ResFits, RouterFits, agent, swapping
<1>6. \A v \in Versions : Enough(v) => Enough(v)'
  BY <1>1, <1>2, DeployConstants DEF Enough
<1>7. Covered'
  <2> SUFFICES ASSUME NEW v \in Versions, ~Enough(v)' PROVE Spent(v)' <= shots'[v]
    BY DEF Covered, Enough
  <2>1. /\ Spent(v) <= shots[v] /\ shots[v] \in Nat /\ shots[v] < MaxAttempts
        /\ row' = row /\ cmds' = cmds /\ row.attempts \in Nat
    BY <1>2, <1>6, DeployConstants DEF DeployInv, Covered, PollWritten, Rows, Enough
  <2>2. IsFiniteSet(Uncounted(v)) /\ Cardinality(Uncounted(v)) \in Nat
    BY UncountedFinite DEF DeployInv, Typed
  <2>3. CASE v = t
    <3>1. Uncounted(v)' = Uncounted(v) \cup {poll.id}
      BY <1>2, <2>1, <2>3 DEF Uncounted
    <3>2. /\ Cardinality(Uncounted(v)') \in Nat
          /\ Cardinality(Uncounted(v)') <= Cardinality(Uncounted(v)) + 1
      BY <2>2, <3>1, OneMore
    <3>4. shots'[v] = shots[v] + 1
      BY <1>1, <1>2, <2>1, <2>3
    <3> QED BY <2>1, <2>2, <3>2, <3>4 DEF Spent
  <2>4. CASE v # t
    <3>1. Uncounted(v)' = Uncounted(v) /\ shots'[v] = shots[v]
      BY <1>1, <1>2, <2>1, <2>4 DEF Uncounted
    <3> QED BY <2>1, <3>1 DEF Spent
  <2> QED BY <2>3, <2>4
<1>8. Earned'
  <2>1. rep' = rep /\ res' = res /\ cmds' = cmds
    BY DEF PollWritten
  <2>2. /\ rep.pc = "giveup" => rep.seen \in Versions
        /\ res.pc = "giveup" => cmds[res.id].target \in Versions
    BY DEF DeployInv, Typed, RepFits, ResFits, Cmds
  <2>3. Earned /\ rep' = rep /\ res'.pc = res.pc /\ res'.id = res.id /\ cmds' = cmds
    BY <2>1 DEF DeployInv
  <2> QED BY <1>6, <2>2, <2>3 DEF Earned, Enough
<1> QED BY <1>5, <1>7, <1>8 DEF DeployInv

LEMMA PollInv ==
  ASSUME DeployInv, PollRun \/ AgentGets \/ PollBreaks
  PROVE  DeployInv'
<1> USE InvParts DEF Parts
<1>0. DeployTypeOK /\ PollFits /\ job \in Ids \cup {NoCmd} /\ counting \subseteq Ids
  BY DEF DeployInv, Typed, DeployTypeOK
<1>1. CASE PollStart
  <2> DEFINE to == Ensure("take")
             v == IF to = "queue" THEN row.pend ELSE None
  <2>1. to \in {"take", "expire", "queue"} /\ (to = "queue" => row.pend # None)
    BY EnsureFacts
  <2>2. v \in Versions \cup {None} /\ (to = "queue" => v \in Versions)
    BY <2>1 DEF Rows
  <2>3. poll' = [poll EXCEPT !.pc = to, !.v = v] /\ row' = row /\ cmds' = cmds
    BY <1>1 DEF PollStart
  <2> HIDE DEF to, v
  <2>4. poll' = [pc |-> to, v |-> v, id |-> poll.id, got |-> poll.got, saw |-> poll.saw]
    BY <2>3 DEF Polls
  <2>5. poll' \in Polls /\ PollFits'
    BY <2>1, <2>2, <2>4 DEF Polls, PollFits
  <2> QED BY <1>0, <1>1, <2>3, <2>5, SameRow, SameKeeps, PollSteps DEF PollStart
<1>2. CASE PollExpire
  <2>1. poll' \in Polls /\ PollFits' /\ cmds' = cmds
    <3>1. CASE poll.pc = "expire"
      BY <1>2, <3>1, PollStepFits DEF PollExpire
    <3>2. CASE poll.pc # "expire"
      BY <1>2, <3>2, PollStepFits DEF PollExpire
    <3> QED BY <3>1, <3>2
  <2>2. row' \in Rows /\ RowQuiet
    BY <1>2, ClearMarkQuiet DEF PollExpire
  <2> QED BY <1>0, <1>2, <2>1, <2>2, SameKeeps, PollSteps DEF PollExpire
<1>3. CASE PollQueue
  <2>1. poll.v \in Versions /\ row' = row
    BY <1>0, <1>3 DEF PollQueue, PollFits
  <2>2. poll' = [pc |-> "take", v |-> None, id |-> poll.id, got |-> poll.got, saw |-> poll.saw]
    BY <1>3 DEF PollQueue, Polls
  <2>3. poll' \in Polls /\ PollFits'
    BY <2>2 DEF Polls, PollFits
  <2> QED BY <1>0, <1>3, <2>1, <2>3, SameRow, EnqueueIfKeeps, PollSteps DEF PollQueue
<1>4. CASE PollTake
  <2>1. PICK id \in Waiting : /\ cmds' = [cmds EXCEPT ![id].st = "issued"]
                              /\ poll' = [poll EXCEPT !.pc = "write", !.v = None, !.id = id]
    BY <1>4 DEF PollTake
  <2>2. id \in Ids
    BY DEF Waiting
  <2>3. CmdsKept
    BY <2>1, <2>2 DEF CmdsKept, Cmds
  <2>4. poll' = [pc |-> "write", v |-> None, id |-> id, got |-> poll.got, saw |-> poll.saw]
    BY <2>1 DEF Polls
  <2>5. poll' \in Polls /\ PollFits'
    BY <2>2, <2>4 DEF Polls, PollFits
  <2> QED BY <1>4, <2>3, <2>5, SameRow, PollSteps DEF PollTake
<1>5. CASE PollEmpty
  <2>1. poll' \in Polls /\ PollFits' /\ row' = row /\ cmds' = cmds
    BY <1>5, PollDoneFits DEF PollEmpty
  <2> QED BY <1>0, <1>5, <2>1, SameRow, SameKeeps, PollSteps DEF PollEmpty
<1>6. CASE PollWritten
  BY <1>6, PollWrittenInv
<1>7. CASE AgentGets
  <2>1. poll' = [poll EXCEPT !.got = TRUE] /\ poll.id \in Ids /\ job' = poll.id /\ row' = row
        /\ cmds' = cmds
    BY <1>0, <1>7 DEF AgentGets, PollFits
  <2>2. poll' = [pc |-> poll.pc, v |-> poll.v, id |-> poll.id, got |-> TRUE, saw |-> poll.saw]
    BY <2>1 DEF Polls
  <2>3. poll' \in Polls /\ PollFits'
    BY <1>0, <2>2 DEF Polls, PollFits
  <2>4. Typed'
    BY <1>7, <2>1, <2>3, TypeParts, TypePartsNext
       DEF AgentGets, DeployInv, Typed, OpFits, RepFits, ResFits, RouterFits, swapping
  <2> QED BY <1>0, <1>7, <2>1, <2>4, SameRow, SameKeeps, QuietStep DEF AgentGets, NoOneEarns
<1>8. CASE PollBreaks
  <2>1. poll' \in Polls /\ PollFits' /\ row' = row /\ poll.id \in Ids
    BY <1>0, <1>8, PollDoneFits DEF PollBreaks, PollFits
  <2>2. CmdsKept
    BY <1>8, <2>1 DEF PollBreaks, CmdsKept, Cmds
  <2> QED BY <1>8, <2>1, <2>2, SameRow, PollSteps DEF PollBreaks
<1> QED BY <1>1, <1>2, <1>3, <1>4, <1>5, <1>6, <1>7, <1>8 DEF PollRun

-----------------------------------------------------------------------------
(* The counting.                                                           *)

LEMMA CountTyped ==
  ASSUME DeployInv, row' \in Rows, counting' \subseteq Ids,
         UNCHANGED <<deployed, cmds, handlers, agent, shots>>
  PROVE  Typed'
<1>1. DeployTypeOK'
  BY TypeParts, TypePartsNext DEF DeployInv, Typed, handlers, agent, swapping
<1> QED BY <1>1 DEF DeployInv, Typed, OpFits, PollFits, RepFits, ResFits, RouterFits,
                    handlers, agent, swapping

LEMMA CountInv ==
  ASSUME DeployInv, NEW id \in Ids, Count(id) \/ CountFails(id)
  PROVE  DeployInv'
<1> USE InvParts DEF Parts
<1>0. /\ id \in counting /\ counting' = counting \ {id} /\ counting \subseteq Ids
      /\ cmds' = cmds /\ shots' = shots /\ rep' = rep /\ res' = res
      /\ UNCHANGED <<deployed, cmds, handlers, agent, shots>>
  BY DEF Count, CountFails, DeployInv, Typed, DeployTypeOK, handlers
<1>1. CmdsKept /\ NoOneEarns
  BY <1>0, SameKeeps DEF NoOneEarns, DeployInv, Typed
<1>2. CASE CountFails(id)
  <2>1. row' = row
    BY <1>2 DEF CountFails
  <2>2. Typed'
    BY <1>0, <2>1, CountTyped
  <2> QED BY <1>0, <1>1, <2>1, <2>2, SameRow, QuietStep
<1>3. CASE Count(id) /\ row.pend # cmds[id].target
  <2>1. row' = row
    BY <1>3 DEF Count
  <2>2. Typed'
    BY <1>0, <2>1, CountTyped
  <2> QED BY <1>0, <1>1, <2>1, <2>2, SameRow, QuietStep
<1>4. CASE Count(id) /\ row.pend = cmds[id].target
  <2>1. row' = [row EXCEPT !.attempts = @ + 1]
    BY <1>4 DEF Count
  <2>2. row' = [pend |-> row.pend, attempts |-> row.attempts + 1, old |-> row.old]
    BY <2>1 DEF Rows
  <2>3. row' \in Rows
    BY <2>2 DEF Rows
  <2>4. Typed'
    BY <1>0, <2>3, CountTyped
  <2>5. Covered'
    <3> SUFFICES ASSUME NEW v \in Versions, ~Enough(v) PROVE Spent(v)' <= shots[v]
      BY <1>0 DEF Covered, Enough
    <3>1. /\ Spent(v) <= shots[v] /\ shots[v] \in Nat /\ row.attempts \in Nat
      BY DeployConstants DEF DeployInv, Typed, DeployTypeOK, Covered, Rows
    <3>2. /\ IsFiniteSet(Uncounted(v)) /\ IsFiniteSet(Uncounted(v)')
          /\ Cardinality(Uncounted(v)) \in Nat /\ Cardinality(Uncounted(v)') \in Nat
      <4>1. Uncounted(v)' \subseteq Uncounted(v)
        BY <1>0 DEF Uncounted
      <4> QED BY <4>1, UncountedFinite, FS_Subset, FS_CardinalityType DEF DeployInv, Typed
    <3>3. CASE v = cmds[id].target
      <4>1. Uncounted(v)' = Uncounted(v) \ {id} /\ id \in Uncounted(v)
        BY <1>0, <3>3 DEF Uncounted
      <4>2. Cardinality(Uncounted(v)') = Cardinality(Uncounted(v)) - 1
        BY <3>2, <4>1, OneLess
      <4>3. row.pend = v /\ row'.pend = v /\ row'.attempts = row.attempts + 1
        BY <1>4, <2>2, <3>3
      <4> QED BY <3>1, <3>2, <4>2, <4>3 DEF Spent
    <3>4. CASE v # cmds[id].target
      <4>1. Uncounted(v)' = Uncounted(v)
        BY <1>0, <3>4 DEF Uncounted
      <4>2. row.pend # v /\ row'.pend # v
        BY <1>4, <2>2, <3>4
      <4> QED BY <3>1, <4>1, <4>2 DEF Spent
    <3> QED BY <3>3, <3>4
  <2>6. Earned'
    BY <1>0, <1>1, <2>4, QuietEarned DEF Typed
  <2> QED BY <2>4, <2>5, <2>6 DEF DeployInv
<1> QED BY <1>2, <1>3, <1>4

-----------------------------------------------------------------------------
(* The report.                                                             *)

RepStages == {"idle", "select", "update", "active", "exhausted", "giveup",
              "ensure", "expire", "reset", "queue"}

LEMMA RepDoneFits == ASSUME RepDone PROVE rep' \in Reports /\ RepFits' /\ rep'.pc = "idle"
BY DEF RepDone, Reports, RepFits

LEMMA RepStepFits ==
  ASSUME rep \in Reports, NEW next \in RepStages \ {"select", "update", "giveup", "queue"},
         RepStep(next)
  PROVE  rep' \in Reports /\ RepFits' /\ rep'.pc = next
<1>1. rep' = [pc |-> next, v |-> rep.v, seen |-> rep.seen, saw |-> rep.saw]
  BY DEF RepStep, Reports
<1> QED BY <1>1 DEF Reports, RepFits, RepStages

\* A row whose attempts are used up had them all sent out.
LEMMA ExhaustedEarned ==
  ASSUME DeployInv, row.pend # None, Exhausted
  PROVE  row.pend \in Versions /\ Enough(row.pend)
<1> USE InvParts DEF Parts
<1>1. row.pend \in Versions /\ row.attempts \in Nat /\ shots[row.pend] \in Nat
  BY DeployConstants DEF Rows, DeployInv, Typed, DeployTypeOK
<1>2. Cardinality(Uncounted(row.pend)) \in Nat
  BY <1>1, UncountedFinite DEF DeployInv, Typed
<1>3. Enough(row.pend) \/ row.attempts + Cardinality(Uncounted(row.pend)) <= shots[row.pend]
  BY <1>1 DEF DeployInv, Covered, Spent
<1> QED BY <1>1, <1>2, <1>3, DeployConstants DEF Enough, Exhausted

LEMMA RepExhaustedInv == ASSUME DeployInv, RepExhausted PROVE DeployInv'
<1> USE InvParts DEF Parts
<1>0. /\ row' = row /\ cmds' = cmds /\ shots' = shots /\ res' = res /\ DeployTypeOK
      /\ UNCHANGED <<deployed, poll, counting, res, op, agent, shots>>
  BY DEF RepExhausted, DeployInv, Typed
<1>1. CmdsKept /\ RowQuiet
  BY <1>0, SameKeeps, SameRow
<1>2. CASE row.pend # None /\ Exhausted
  <2>1. rep' = [rep EXCEPT !.pc = "giveup", !.seen = row.pend]
    BY <1>2 DEF RepExhausted
  <2>2. rep' = [pc |-> "giveup", v |-> rep.v, seen |-> row.pend, saw |-> rep.saw]
    BY <2>1 DEF Reports
  <2>3. row.pend \in Versions /\ Enough(row.pend)
    BY <1>2, ExhaustedEarned
  <2>4. rep' \in Reports /\ RepFits'
    BY <2>2, <2>3 DEF Reports, RepFits
  <2>5. Typed'
    BY <1>0, <2>4, TypeParts, TypePartsNext
       DEF DeployInv, Typed, OpFits, PollFits, ResFits, RouterFits, agent, swapping
  <2>6. Covered'
    BY <1>0, <1>1, <2>5, QuietCovered DEF Typed
  <2>7. Earned'
    <3>1. rep'.seen = row.pend
      BY <2>2
    <3> QED BY <1>0, <2>3, <3>1 DEF DeployInv, Earned, Enough
  <2> QED BY <2>5, <2>6, <2>7 DEF DeployInv
<1>3. CASE ~(row.pend # None /\ Exhausted)
  <2>1. rep' \in Reports /\ RepFits' /\ rep'.pc = "ensure"
    BY <1>3, RepStepFits DEF RepExhausted, RepStages
  <2> QED BY <1>0, <1>1, <2>1, ReportSteps
<1> QED BY <1>2, <1>3

LEMMA ReportInv ==
  ASSUME DeployInv, RepRun
  PROVE  DeployInv'
<1> USE InvParts DEF Parts
<1>0. DeployTypeOK /\ RepFits /\ inst \in Versions
  BY DEF DeployInv, Typed, DeployTypeOK
<1>1. CASE ReportSent
  <2>1. rep' = [rep EXCEPT !.pc = "select", !.v = inst] /\ row' = row /\ cmds' = cmds
    BY <1>1 DEF ReportSent
  <2>2. rep' = [pc |-> "select", v |-> inst, seen |-> rep.seen, saw |-> rep.saw]
    BY <2>1 DEF Reports
  <2>3. rep' \in Reports /\ RepFits' /\ rep'.pc = "select"
    BY <1>0, <2>2 DEF Reports, RepFits
  <2> QED BY <1>0, <1>1, <2>1, <2>3, SameRow, SameKeeps, ReportSteps DEF ReportSent
<1>2. CASE RepSelect
  <2>1. rep' = [rep EXCEPT !.pc = "update", !.seen = row.pend] /\ row' = row /\ cmds' = cmds
        /\ rep.v \in Versions
    BY <1>0, <1>2 DEF RepSelect, RepFits
  <2>2. rep' = [pc |-> "update", v |-> rep.v, seen |-> row.pend, saw |-> rep.saw]
    BY <2>1 DEF Reports
  <2>3. rep' \in Reports /\ RepFits' /\ rep'.pc = "update"
    BY <2>1, <2>2 DEF Reports, RepFits, Rows
  <2> QED BY <1>0, <1>2, <2>1, <2>3, SameRow, SameKeeps, ReportSteps DEF RepSelect
<1>3. CASE RepUpdate
  <2>1. rep.v \in Versions /\ deployed' = rep.v /\ cmds' = cmds
    BY <1>0, <1>3 DEF RepUpdate, RepFits
  <2>2. row' \in Rows /\ RowQuiet
    <3>1. row' \in {[pend |-> None, attempts |-> 0, old |-> FALSE],
                    [row EXCEPT !.attempts = 0], row}
      BY <1>3 DEF RepUpdate
    <3>2. CASE row' = [pend |-> None, attempts |-> 0, old |-> FALSE]
      BY <3>2 DEF Rows, RowQuiet
    <3>3. CASE row' = [row EXCEPT !.attempts = 0]
      BY <3>3, ClearMarkQuiet DEF ResetAttempts
    <3>4. CASE row' = row
      BY <3>4, SameRow
    <3> QED BY <3>1, <3>2, <3>3, <3>4
  <2>3. rep' \in Reports /\ RepFits' /\ rep'.pc # "giveup"
    <3>1. CASE rep.seen \in {None, rep.v}
      BY <1>3, <3>1, RepDoneFits DEF RepUpdate
    <3>2. CASE rep.seen \notin {None, rep.v}
      <4>1. rep' = [pc |-> "active", v |-> None, seen |-> None, saw |-> rep.saw]
        BY <1>3, <3>2 DEF RepUpdate, Reports
      <4> QED BY <4>1 DEF Reports, RepFits
    <3> QED BY <3>1, <3>2
  <2> QED BY <1>0, <1>3, <2>1, <2>2, <2>3, SameKeeps, ReportSteps DEF RepUpdate
<1>4. CASE RepActive
  <2>1. rep' \in Reports /\ RepFits' /\ rep'.pc # "giveup"
    <3>1. CASE HasActive
      BY <1>4, <3>1, RepStepFits DEF RepActive, RepStages
    <3>2. CASE ~HasActive
      BY <1>4, <3>2, RepStepFits DEF RepActive, RepStages
    <3> QED BY <3>1, <3>2
  <2>2. row' = row /\ cmds' = cmds
    BY <1>4 DEF RepActive
  <2> QED BY <1>0, <1>4, <2>1, <2>2, SameRow, SameKeeps, ReportSteps DEF RepActive
<1>5. CASE RepExhausted
  BY <1>5, RepExhaustedInv
<1>6. CASE RepGiveUp
  <2>1. rep' \in Reports /\ RepFits' /\ rep'.pc = "idle" /\ cmds' = cmds
    BY <1>6, RepDoneFits DEF RepGiveUp
  <2>2. row' \in Rows /\ RowQuiet
    BY <1>6, ClearMatchQuiet DEF RepGiveUp, GiveUp
  <2> QED BY <1>0, <1>6, <2>1, <2>2, SameKeeps, ReportSteps DEF RepGiveUp
<1>7. CASE RepEnsure
  <2> DEFINE to == Ensure("idle")
  <2>1. to \in {"idle", "expire", "queue"} /\ (to = "queue" => row.pend # None)
    BY EnsureFacts
  <2>2. row' = row /\ cmds' = cmds
    BY <1>7 DEF RepEnsure
  <2>3. rep' \in Reports /\ RepFits' /\ rep'.pc # "giveup"
    <3>1. CASE to = "idle"
      BY <1>7, <3>1, RepDoneFits DEF RepEnsure
    <3>2. CASE to # "idle"
      <4>1. rep' = [rep EXCEPT !.pc = to, !.seen = row.pend]
        BY <1>7, <3>2 DEF RepEnsure
      <4> HIDE DEF to
      <4>2. rep' = [pc |-> to, v |-> rep.v, seen |-> row.pend, saw |-> rep.saw]
        BY <4>1 DEF Reports
      <4> QED BY <2>1, <3>2, <4>2 DEF Reports, RepFits, Rows
    <3> QED BY <3>1, <3>2
  <2> QED BY <1>0, <1>7, <2>2, <2>3, SameRow, SameKeeps, ReportSteps DEF RepEnsure
<1>8. CASE RepExpire
  <2>1. rep' \in Reports /\ RepFits' /\ rep'.pc # "giveup" /\ cmds' = cmds
    <3>1. CASE rep.pc = "expire"
      BY <1>8, <3>1, RepStepFits DEF RepExpire, RepStages
    <3>2. CASE rep.pc # "expire"
      BY <1>8, <3>2, RepDoneFits DEF RepExpire
    <3> QED BY <3>1, <3>2
  <2>2. row' \in Rows /\ RowQuiet
    BY <1>8, ClearMarkQuiet DEF RepExpire
  <2> QED BY <1>0, <1>8, <2>1, <2>2, SameKeeps, ReportSteps DEF RepExpire
<1>9. CASE RepQueue
  <2>1. rep.seen \in Versions /\ row' = row
    BY <1>0, <1>9 DEF RepQueue, RepFits
  <2>2. rep' \in Reports /\ RepFits' /\ rep'.pc = "idle"
    BY <1>9, RepDoneFits DEF RepQueue
  <2> QED BY <1>0, <1>9, <2>1, <2>2, SameRow, EnqueueIfKeeps, ReportSteps DEF RepQueue
<1> QED BY <1>1, <1>2, <1>3, <1>4, <1>5, <1>6, <1>7, <1>8, <1>9 DEF RepRun

-----------------------------------------------------------------------------
(* The router.                                                             *)

RouterRun == \/ \E o \in {"ok", "fail", "busy"} : AgentEnds(o)
             \/ \E how \in {"stays", "goes", "refused"} : Swap(how)
             \/ GoBack \/ AgentDies

LEMMA RouterInv ==
  ASSUME DeployInv, RouterRun
  PROVE  DeployInv'
<1> USE InvParts DEF Parts
<1>0. /\ DeployTypeOK /\ inst \in Versions /\ job \in Ids \cup {NoCmd} /\ result \in Outcomes
      /\ swap \in Versions \cup {None} /\ bak \in Versions \cup {None}
  BY DEF DeployInv, Typed, DeployTypeOK, Outcomes
<1>1. ASSUME NEW o \in {"ok", "fail", "busy"}, AgentEnds(o) PROVE DeployInv'
  <2>1. job \in Ids /\ cmds' = [cmds EXCEPT ![job].out = o] /\ result' = o
        /\ (swap' = cmds[job].target \/ swap' = swap)
    BY <1>0, <1>1 DEF AgentEnds
  <2>2. CmdsKept
    BY <2>1 DEF CmdsKept, Cmds, Outcomes
  <2>3. cmds[job].target \in Versions
    BY <2>1 DEF Cmds
  <2>4. /\ UNCHANGED <<row, deployed, handlers, counting, shots>>
        /\ inst' = inst /\ job' = job /\ bak' = bak
    BY <1>1 DEF AgentEnds
  <2>5. RouterFits'
    BY <2>1, <2>4 DEF RouterFits
  <2>6. {swap', bak'} \subseteq Versions \cup {None} /\ result' \in Outcomes
    BY <1>0, <2>1, <2>3, <2>4 DEF Outcomes
  <2> QED BY <1>0, <2>2, <2>4, <2>5, <2>6, RouterSteps
<1>2. ASSUME NEW how \in {"stays", "goes", "refused"}, Swap(how) PROVE DeployInv'
  <2>1. /\ inst' \in {inst, swap} /\ swap # None /\ bak' \in {inst, None} /\ swap' = None
        /\ job' = NoCmd /\ result' = "none" /\ cmds' = cmds
        /\ UNCHANGED <<row, deployed, handlers, counting, shots>>
    BY <1>2 DEF Swap, Killed
  <2>2. /\ inst' \in Versions /\ {swap', bak'} \subseteq Versions \cup {None}
        /\ job' \in Ids \cup {NoCmd} /\ result' \in Outcomes /\ RouterFits'
    BY <1>0, <2>1 DEF Outcomes, RouterFits
  <2> QED BY <1>0, <2>1, <2>2, SameKeeps, RouterSteps
<1>3. CASE GoBack \/ AgentDies
  <2>1. /\ inst' \in {inst, bak} /\ (bak # None \/ inst' = inst) /\ bak' = None
        /\ swap' \in {swap, None}
        /\ job' = NoCmd /\ result' = "none" /\ cmds' = cmds
        /\ UNCHANGED <<row, deployed, handlers, counting, shots>>
    BY <1>3 DEF GoBack, AgentDies, Killed
  <2>2. /\ inst' \in Versions /\ {swap', bak'} \subseteq Versions \cup {None}
        /\ job' \in Ids \cup {NoCmd} /\ result' \in Outcomes /\ RouterFits'
    BY <1>0, <2>1 DEF Outcomes, RouterFits
  <2> QED BY <1>0, <2>1, <2>2, SameKeeps, RouterSteps
<1> QED BY <1>1, <1>2, <1>3 DEF RouterRun

-----------------------------------------------------------------------------
(* The result.                                                             *)

LEMMA ResDoneFits == ASSUME ResDone PROVE res' \in Results /\ ResFits' /\ res'.pc = "idle"
BY DEF ResDone, Results, ResFits, Outcomes

LEMMA ResStepFits ==
  ASSUME res \in Results, ResFits, res.pc # "idle", NEW next \in {"fail", "busy", "giveup"},
         res' = [res EXCEPT !.pc = next]
  PROVE  res' \in Results /\ ResFits' /\ res'.pc = next /\ res'.id = res.id
<1>1. res' = [pc |-> next, id |-> res.id, out |-> res.out, saw |-> res.saw]
  BY DEF Results
<1> QED BY <1>1 DEF Results, ResFits

LEMMA ResultComes ==
  ASSUME res \in Results, NEW id \in Ids, NEW o \in Outcomes \ {"none"},
         res' = [res EXCEPT !.pc = "record", !.id = id, !.out = o]
  PROVE  res' \in Results /\ ResFits' /\ res'.pc = "record"
<1>1. res' = [pc |-> "record", id |-> id, out |-> o, saw |-> res.saw]
  BY DEF Results
<1> QED BY <1>1 DEF Results, ResFits

LEMMA PostInv ==
  ASSUME DeployInv, AgentPosts \/ \E id \in Ids : AgentReposts(id)
  PROVE  DeployInv'
<1> USE InvParts DEF Parts
<1>0. DeployTypeOK /\ RouterFits /\ result \in Outcomes
  BY DEF DeployInv, Typed, DeployTypeOK, Outcomes
<1>1. CASE AgentPosts
  <2>1. /\ res' = [res EXCEPT !.pc = "record", !.id = job, !.out = result]
        /\ job \in Ids /\ result # "none" /\ row' = row /\ cmds' = cmds
        /\ job' = NoCmd /\ result' = "none"
    BY <1>0, <1>1 DEF AgentPosts, RouterFits, Killed
  <2>2. res' \in Results /\ ResFits' /\ res'.pc = "record"
    BY <1>0, <2>1, ResultComes
  <2>3. Typed'
    BY <1>1, <2>1, <2>2, TypeParts, TypePartsNext
       DEF AgentPosts, DeployInv, Typed, OpFits, PollFits, RepFits, RouterFits, swapping, Outcomes
  <2> QED BY <1>0, <1>1, <2>1, <2>2, <2>3, SameRow, SameKeeps, QuietStep DEF AgentPosts, NoOneEarns
<1>2. ASSUME NEW id \in Ids, AgentReposts(id) PROVE DeployInv'
  <2>1. /\ res' = [res EXCEPT !.pc = "record", !.id = id, !.out = cmds[id].out]
        /\ cmds[id].out # "none" /\ row' = row /\ cmds' = cmds
    BY <1>2 DEF AgentReposts
  <2>2. cmds[id].out \in Outcomes
    BY DEF Cmds
  <2>3. res' \in Results /\ ResFits' /\ res'.pc = "record"
    BY <2>1, <2>2, ResultComes
  <2> QED BY <1>0, <1>2, <2>1, <2>3, SameRow, SameKeeps, ResultSteps DEF AgentReposts
<1> QED BY <1>1, <1>2

LEMMA ResFailInv == ASSUME DeployInv, ResFail PROVE DeployInv'
<1> USE InvParts DEF Parts
<1>0. /\ row' = row /\ cmds' = cmds /\ shots' = shots /\ rep' = rep /\ DeployTypeOK
      /\ res.pc = "fail" /\ ResFits
      /\ UNCHANGED <<deployed, poll, counting, rep, op, agent, shots>>
  BY DEF ResFail, DeployInv, Typed
<1>1. CmdsKept /\ RowQuiet
  BY <1>0, SameKeeps, SameRow
<1>2. CASE row.pend = cmds[res.id].target /\ Exhausted
  <2>1. res' = [res EXCEPT !.pc = "giveup"]
    BY <1>2 DEF ResFail
  <2>2. res' \in Results /\ ResFits' /\ res'.id = res.id /\ res.id \in Ids
    BY <1>0, <2>1, ResStepFits DEF ResFits
  <2>3. row.pend # None
    <3>1. cmds[res.id].target \in Versions
      BY <2>2 DEF Cmds
    <3> QED BY <1>2, <3>1, Constants
  <2>4. Enough(cmds[res.id].target)
    BY <1>2, <2>3, ExhaustedEarned
  <2>5. Typed'
    BY <1>0, <2>2, TypeParts, TypePartsNext
       DEF DeployInv, Typed, OpFits, PollFits, RepFits, RouterFits, agent, swapping
  <2>6. Covered'
    BY <1>0, <1>1, <2>5, QuietCovered DEF Typed
  <2>7. Earned'
    BY <1>0, <2>2, <2>4 DEF DeployInv, Earned, Enough
  <2> QED BY <2>5, <2>6, <2>7 DEF DeployInv
<1>3. CASE ~(row.pend = cmds[res.id].target /\ Exhausted)
  <2>1. res' \in Results /\ ResFits' /\ res'.pc = "idle"
    BY <1>3, ResDoneFits DEF ResFail
  <2> QED BY <1>0, <1>1, <2>1, ResultSteps
<1> QED BY <1>2, <1>3

LEMMA ResultInv ==
  ASSUME DeployInv, ResRun \/ ResUnjournalled
  PROVE  DeployInv'
<1> USE InvParts DEF Parts
<1>0. DeployTypeOK /\ ResFits
  BY DEF DeployInv, Typed
<1>1. CASE ResRecord
  <2>1. row' = row /\ res.id \in Ids /\ res.out \in Outcomes \ {"none"}
    BY <1>0, <1>1 DEF ResRecord, ResFits, Results
  <2>2. CmdsKept
    <3>1. CASE cmds[res.id].st = "issued"
      BY <1>1, <2>1, <3>1 DEF ResRecord, CmdsKept, Cmds
    <3>2. CASE cmds[res.id].st # "issued"
      BY <1>0, <1>1, <3>2, SameKeeps DEF ResRecord
    <3> QED BY <3>1, <3>2
  <2>3. res' \in Results /\ ResFits' /\ res'.pc # "giveup"
    <3>1. ResDone \/ (res.out # "ok" /\ res' = [res EXCEPT !.pc = res.out])
      BY <1>1 DEF ResRecord
    <3>2. CASE ResDone
      BY <3>2, ResDoneFits
    <3>3. CASE res.out # "ok" /\ res' = [res EXCEPT !.pc = res.out]
      <4>1. res.pc # "idle" /\ res.out \in {"fail", "busy"}
        BY <1>1, <2>1, <3>3 DEF ResRecord, Outcomes
      <4> QED BY <1>0, <3>3, <4>1, ResStepFits
    <3> QED BY <3>1, <3>2, <3>3
  <2> QED BY <1>1, <2>1, <2>2, <2>3, SameRow, ResultSteps DEF ResRecord
<1>2. CASE ResBusy
  <2>1. res' \in Results /\ ResFits' /\ res'.pc = "idle" /\ cmds' = cmds
    BY <1>2, ResDoneFits DEF ResBusy
  <2>2. row' \in Rows /\ RowQuiet
    <3>1. CASE row.pend = cmds[res.id].target
      <4>1. row' = [row EXCEPT !.attempts = TakeBack(@)]
        BY <1>2, <3>1 DEF ResBusy
      <4>2. row' = [pend |-> row.pend, attempts |-> TakeBack(row.attempts), old |-> row.old]
        BY <4>1 DEF Rows
      <4>3. row.attempts \in Nat
        BY DEF Rows
      <4>4. TakeBack(row.attempts) \in Nat /\ TakeBack(row.attempts) <= row.attempts
        BY <4>3 DEF TakeBack
      <4> QED BY <4>2, <4>4 DEF Rows, RowQuiet
    <3>2. CASE row.pend # cmds[res.id].target
      BY <1>2, <3>2, SameRow DEF ResBusy
    <3> QED BY <3>1, <3>2
  <2> QED BY <1>0, <1>2, <2>1, <2>2, SameKeeps, ResultSteps DEF ResBusy
<1>3. CASE ResFail
  BY <1>3, ResFailInv
<1>4. CASE ResGiveUp
  <2>1. res' \in Results /\ ResFits' /\ res'.pc = "idle" /\ cmds' = cmds
    BY <1>4, ResDoneFits DEF ResGiveUp
  <2>2. row' \in Rows /\ RowQuiet
    BY <1>4, ClearMatchQuiet DEF ResGiveUp, GiveUp
  <2> QED BY <1>0, <1>4, <2>1, <2>2, SameKeeps, ResultSteps DEF ResGiveUp
<1>5. CASE ResUnjournalled
  <2>1. res' \in Results /\ ResFits' /\ res'.pc = "idle" /\ cmds' = cmds /\ row' = row
    BY <1>5, ResDoneFits DEF ResUnjournalled
  <2> QED BY <1>0, <1>5, <2>1, SameRow, SameKeeps, ResultSteps DEF ResUnjournalled
<1> QED BY <1>1, <1>2, <1>3, <1>4, <1>5 DEF ResRun

-----------------------------------------------------------------------------
(* Time and restarts.                                                      *)

LEMMA LapseInv ==
  ASSUME DeployInv, NEW id \in Ids, Lapse(id)
  PROVE  DeployInv'
<1> USE InvParts DEF Parts
<1>1. CmdsKept
  <2>1. cmds' = [cmds EXCEPT ![id] = Gone(id)]
    BY DEF Lapse
  <2>2. Gone(id) \in Cmds /\ (Held(id) => Gone(id).target = cmds[id].target)
    BY GoneFacts DEF DeployInv, Typed
  <2> QED BY <2>1, <2>2 DEF CmdsKept
<1>2. /\ poll' = [poll EXCEPT !.saw = poll.pc # "idle"] /\ rep' = [rep EXCEPT !.saw = rep.pc # "idle"]
      /\ res' = [res EXCEPT !.saw = res.pc # "idle"] /\ op' = [op EXCEPT !.saw = op.pc # "idle"]
      /\ UNCHANGED <<row, deployed, counting, agent, shots>>
  BY DEF Lapse, Seen
<1>3. /\ poll' \in Polls /\ poll'.pc = poll.pc /\ poll'.v = poll.v /\ poll'.id = poll.id
      /\ rep' \in Reports /\ rep'.pc = rep.pc /\ rep'.v = rep.v /\ rep'.seen = rep.seen
      /\ res' \in Results /\ res'.pc = res.pc /\ res'.id = res.id /\ res'.out = res.out
      /\ op' \in Operators /\ op'.pc = op.pc /\ op'.target = op.target
  <2>1. poll' \in Polls /\ poll'.pc = poll.pc /\ poll'.v = poll.v /\ poll'.id = poll.id
    BY <1>2 DEF Polls
  <2>2. rep' \in Reports /\ rep'.pc = rep.pc /\ rep'.v = rep.v /\ rep'.seen = rep.seen
    BY <1>2 DEF Reports
  <2>3. res' \in Results /\ res'.pc = res.pc /\ res'.id = res.id /\ res'.out = res.out
    BY <1>2 DEF Results
  <2>4. op' \in Operators /\ op'.pc = op.pc /\ op'.target = op.target
    BY <1>2 DEF Operators
  <2> QED BY <2>1, <2>2, <2>3, <2>4
<1>4. Typed'
  <2>1. OpFits' /\ PollFits' /\ RepFits' /\ ResFits' /\ RouterFits'
    BY <1>2, <1>3 DEF DeployInv, Typed, OpFits, PollFits, RepFits, ResFits, RouterFits, agent
  <2>2. DeployTypeOK'
    BY <1>1, <1>2, <1>3, TypeParts, TypePartsNext DEF DeployInv, Typed, CmdsKept, agent, swapping
  <2> QED BY <2>1, <2>2 DEF Typed
<1>5. RowQuiet /\ NoOneEarns
  BY <1>2, <1>3, SameRow DEF NoOneEarns
<1> QED BY <1>1, <1>2, <1>4, <1>5, QuietStep

LEMMA AgesInv == ASSUME DeployInv, RowAges PROVE DeployInv'
<1> USE InvParts DEF Parts
<1>1. row' = [row EXCEPT !.old = TRUE] /\ UNCHANGED <<deployed, cmds, handlers, counting, agent, shots>>
  BY DEF RowAges
<1>2. row' = [pend |-> row.pend, attempts |-> row.attempts, old |-> TRUE]
  BY <1>1 DEF Rows
<1>3. row' \in Rows /\ RowQuiet
  BY <1>2 DEF Rows, RowQuiet
<1>4. OpFits' /\ CmdsKept
  BY <1>1, SameKeeps DEF OpFits, DeployInv, Typed, handlers
<1> QED BY <1>1, <1>3, <1>4, OperatorSteps DEF handlers

LEMMA RestartInv == ASSUME DeployInv, Restart PROVE DeployInv'
<1> USE InvParts DEF Parts
<1>1. /\ counting' = {} /\ poll' \in Polls /\ PollFits' /\ rep' \in Reports /\ RepFits'
      /\ res' \in Results /\ ResFits' /\ op' \in Operators /\ OpFits'
      /\ rep'.pc = "idle" /\ res'.pc = "idle"
  BY PollDoneFits, RepDoneFits, ResDoneFits, OpDoneFits DEF Restart
<1>2. row' \in Rows /\ RowQuiet
  <2>1. CASE row.old
    <3>1. row' = [pend |-> None, attempts |-> 0, old |-> FALSE]
      BY <2>1 DEF Restart
    <3> QED BY <3>1 DEF Rows, RowQuiet
  <2>2. CASE ~row.old
    BY <2>2, SameRow DEF Restart
  <2> QED BY <2>1, <2>2
<1>3. cmds' \in [Ids -> Cmds]
  <2> DEFINE empty == [id \in Ids |-> IF id = job THEN [cmds[id] EXCEPT !.st = "gone"] ELSE Blank]
             m == Min(Ids \ {job})
             new == [st |-> "waiting", target |-> row.pend, out |-> "none"]
  <2>1. empty \in [Ids -> Cmds]
    BY Constants DEF Cmds, Blank, Outcomes
  <2>2. cmds' = empty \/ (row.pend # None /\ cmds' = [empty EXCEPT ![m] = new])
    BY DEF Restart
  <2>3. row.pend # None => new \in Cmds
    BY DEF Rows, Cmds, Outcomes
  <2> HIDE DEF empty, m, new
  <2> QED BY <2>1, <2>2, <2>3
<1>4. Typed'
  BY <1>1, <1>2, <1>3, TypeParts, TypePartsNext
     DEF Restart, DeployInv, Typed, RouterFits, agent, swapping
<1>5. Covered'
  <2> SUFFICES ASSUME NEW v \in Versions, ~Enough(v) PROVE Spent(v)' <= shots[v]
    BY DEF Covered, Enough, Restart
  <2>1. Uncounted(v)' = {}
    BY <1>1 DEF Uncounted
  <2>2. Cardinality(Uncounted(v)') = 0
    BY <2>1, FS_EmptySet
  <2>3. /\ Spent(v) <= shots[v] /\ shots[v] \in Nat /\ row.attempts \in Nat /\ row'.attempts \in Nat
        /\ Cardinality(Uncounted(v)) \in Nat
        /\ row'.pend = v => row'.attempts = 0 \/ (row.pend = v /\ row'.attempts <= row.attempts)
    BY <1>2, UncountedFinite, DeployConstants
       DEF DeployInv, Typed, DeployTypeOK, Covered, Rows, RowQuiet
  <2> QED BY <2>2, <2>3 DEF Spent
<1>6. Earned'
  BY <1>1 DEF Earned
<1> QED BY <1>4, <1>5, <1>6 DEF DeployInv

-----------------------------------------------------------------------------
(* The invariant, and what follows from it.                                *)

LEMMA DeployInit == Init => DeployInv
<1> SUFFICES ASSUME Init PROVE DeployInv
  OBVIOUS
<1>1. /\ row \in Rows /\ poll \in Polls /\ rep \in Reports /\ res \in Results /\ op \in Operators
      /\ cmds \in [Ids -> Cmds]
  BY Constants DEF Init, Rows, Polls, Reports, Results, Operators, Cmds, Outcomes
<1>2. shots \in [Versions -> 0 .. MaxAttempts] /\ \A v \in Versions : shots[v] = 0
  BY Constants DEF Init
<1>3. Typed
  BY <1>1, <1>2, Constants, TypeParts
     DEF Init, Typed, OpFits, PollFits, RepFits, ResFits, RouterFits, Outcomes
<1>4. \A v \in Versions : Spent(v) = 0
  <2> SUFFICES ASSUME NEW v \in Versions PROVE Spent(v) = 0
    OBVIOUS
  <2>1. Uncounted(v) = {}
    BY DEF Init, Uncounted
  <2>2. Cardinality(Uncounted(v)) = 0
    BY <2>1, FS_EmptySet
  <2>3. row.pend = None /\ v # None
    BY Constants DEF Init
  <2> QED BY <2>2, <2>3 DEF Spent
<1>5. Covered
  BY <1>2, <1>4 DEF Covered
<1>6. Earned
  BY DEF Init, Earned
<1> QED BY <1>3, <1>5, <1>6 DEF DeployInv

LEMMA DeployStutters == ASSUME DeployInv, UNCHANGED vars PROVE DeployInv'
<1> USE InvParts DEF Parts
<1>1. row' \in Rows /\ RowQuiet /\ OpFits' /\ CmdsKept
  BY SameRow, SameKeeps DEF vars, DeployInv, Typed, OpFits
<1> QED BY <1>1, OperatorSteps DEF vars, agent, swapping

LEMMA DeployNext == ASSUME DeployInv, [Next]_vars PROVE DeployInv'
<1>1. CASE Operator
  BY <1>1, OperatorInv
<1>2. CASE PollRun \/ AgentGets \/ PollBreaks
  BY <1>2, PollInv
<1>3. CASE RepRun
  BY <1>3, ReportInv
<1>4. CASE ResRun \/ ResUnjournalled
  BY <1>4, ResultInv
<1>5. CASE AgentRun \/ AgentDies \/ GoBack \/ \E how \in {"goes", "refused"} : Swap(how)
  BY <1>5, RouterInv, PostInv DEF AgentRun, RouterRun
<1>6. CASE RowAges \/ Restart
  BY <1>6, AgesInv, RestartInv
<1>7. CASE \E id \in Ids : AgentReposts(id) \/ Count(id) \/ CountFails(id) \/ Lapse(id)
  BY <1>7, PostInv, CountInv, LapseInv
<1>8. CASE UNCHANGED vars
  BY <1>8, DeployStutters
<1> QED BY <1>1, <1>2, <1>3, <1>4, <1>5, <1>6, <1>7, <1>8 DEF Next

LEMMA DeployAlways == Spec => []DeployInv
BY DeployInit, DeployNext, PTL DEF Spec

\* Types of the pending update, and that each handler holds what its stage
\* needs.
THEOREM DeployTypeCorrect == Spec => []DeployTypeOK
<1>1. DeployInv => DeployTypeOK
  BY DEF DeployInv, Typed
<1> QED BY <1>1, DeployAlways, PTL

\* Events are counted down.
LEMMA BudgetKept ==
  ASSUME budget \in Nat, [Next]_vars
  PROVE  budget' \in Nat
<1>1. budget' = budget \/ Event
  <2>1. Operator => budget' = budget \/ Event
    BY DEF Operator, OpDeploy, OpClear, OpDrop, OpMark, OpEnqueue, OpRollback, OpCancel, OpUnmark
  <2>2. PollRun => budget' = budget
    BY DEF PollRun, PollStart, PollExpire, PollQueue, PollTake, PollEmpty, PollWritten
  <2>3. RepRun => budget' = budget
    BY DEF RepRun, ReportSent, RepSelect, RepUpdate, RepActive, RepExhausted, RepGiveUp,
           RepEnsure, RepExpire, RepQueue
  <2>4. ResRun \/ ResUnjournalled => budget' = budget \/ Event
    BY DEF ResRun, ResUnjournalled, ResRecord, ResBusy, ResFail, ResGiveUp
  <2>5. AgentRun => budget' = budget \/ Event
    BY DEF AgentRun, AgentPosts, Swap, AgentEnds
  <2>6. AgentGets \/ PollBreaks \/ RowAges \/ Restart \/ AgentDies \/ GoBack
          => budget' = budget \/ Event
    BY DEF AgentGets, PollBreaks, RowAges, Restart, AgentDies, GoBack
  <2>7. (\E how \in {"goes", "refused"} : Swap(how)) => budget' = budget \/ Event
    BY DEF Swap
  <2>8. (\E id \in Ids : AgentReposts(id) \/ Count(id) \/ CountFails(id) \/ Lapse(id))
          => budget' = budget \/ Event
    BY DEF AgentReposts, Count, CountFails, Lapse
  <2>9. UNCHANGED vars => budget' = budget
    BY DEF vars
  <2> QED BY <2>1, <2>2, <2>3, <2>4, <2>5, <2>6, <2>7, <2>8, <2>9 DEF Next
<1> QED BY <1>1 DEF Event

EventsLeft == budget \in Nat

LEMMA BudgetAlways == Spec => []EventsLeft
<1>1. Init => EventsLeft
  BY DeployConstants DEF Init, EventsLeft
<1>2. EventsLeft /\ [Next]_vars => EventsLeft'
  BY BudgetKept DEF EventsLeft
<1> QED BY <1>1, <1>2, PTL DEF Spec

\* Only its own step takes a handler from its give-up to the end, but for a
\* restart, which is an event.
LEMMA RepGiveUpOnly ==
  ASSUME budget \in Nat, DeployInv, [Next]_vars, ReportGivesUp
  PROVE  RepGiveUp
<1>1. rep.pc = "giveup" /\ rep'.pc = "idle" /\ ~Event
  BY DEF ReportGivesUp, Event
<1>2. ~Operator /\ ~PollRun /\ ~(ResRun \/ ResUnjournalled) /\ ~(UNCHANGED vars)
  <2>1. ~(rep' = rep)
    BY <1>1
  <2>2. Operator => rep' = rep
    BY DEF Operator, OpDeploy, OpClear, OpDrop, OpMark, OpEnqueue, OpRollback, OpCancel, OpUnmark
  <2>3. PollRun => rep' = rep
    BY DEF PollRun, PollStart, PollExpire, PollQueue, PollTake, PollEmpty, PollWritten
  <2>4. ResRun \/ ResUnjournalled => rep' = rep
    BY DEF ResRun, ResUnjournalled, ResRecord, ResBusy, ResFail, ResGiveUp
  <2> QED BY <2>1, <2>2, <2>3, <2>4 DEF vars
<1>3. ~AgentRun /\ ~AgentGets /\ ~PollBreaks /\ ~AgentDies /\ ~GoBack
      /\ ~(\E how \in {"goes", "refused"} : Swap(how))
  BY <1>1 DEF AgentRun, AgentPosts, Swap, AgentEnds, AgentGets, PollBreaks, AgentDies, GoBack,
              handlers
<1>4. ~RowAges /\ ~Restart
  BY <1>1 DEF RowAges, Restart
<1>5. ~(\E id \in Ids : AgentReposts(id) \/ Count(id) \/ CountFails(id) \/ Lapse(id))
  <2> SUFFICES ASSUME NEW id \in Ids PROVE ~AgentReposts(id) /\ ~Count(id) /\ ~CountFails(id) /\ ~Lapse(id)
    OBVIOUS
  <2>1. ~AgentReposts(id) /\ ~Count(id) /\ ~CountFails(id)
    BY <1>1 DEF AgentReposts, Count, CountFails, handlers
  <2>2. ASSUME Lapse(id) PROVE FALSE
    <3>1. rep' = [rep EXCEPT !.saw = rep.pc # "idle"]
      BY <2>2 DEF Lapse, Seen
    <3>2. rep'.pc = rep.pc
      BY <3>1, InvParts DEF Parts, Reports
    <3> QED BY <1>1, <3>2
  <2> QED BY <2>1, <2>2
<1>6. RepRun
  BY <1>2, <1>3, <1>4, <1>5 DEF Next
<1> QED BY <1>1, <1>6 DEF RepRun, ReportSent, RepSelect, RepUpdate, RepActive, RepExhausted,
                         RepEnsure, RepExpire, RepQueue

LEMMA ResGiveUpOnly ==
  ASSUME budget \in Nat, DeployInv, [Next]_vars, ResultGivesUp
  PROVE  ResGiveUp
<1>1. res.pc = "giveup" /\ res'.pc = "idle" /\ ~Event
  BY DEF ResultGivesUp, Event
<1>2. ~Operator /\ ~PollRun /\ ~RepRun /\ ~(UNCHANGED vars)
  <2>1. ~(res' = res)
    BY <1>1
  <2>2. Operator => res' = res
    BY DEF Operator, OpDeploy, OpClear, OpDrop, OpMark, OpEnqueue, OpRollback, OpCancel, OpUnmark
  <2>3. PollRun => res' = res
    BY DEF PollRun, PollStart, PollExpire, PollQueue, PollTake, PollEmpty, PollWritten
  <2>4. RepRun => res' = res
    BY DEF RepRun, ReportSent, RepSelect, RepUpdate, RepActive, RepExhausted, RepGiveUp,
           RepEnsure, RepExpire, RepQueue
  <2> QED BY <2>1, <2>2, <2>3, <2>4 DEF vars
<1>3. ~AgentRun /\ ~AgentGets /\ ~PollBreaks /\ ~AgentDies /\ ~GoBack
      /\ ~(\E how \in {"goes", "refused"} : Swap(how))
  BY <1>1 DEF AgentRun, AgentPosts, Swap, AgentEnds, AgentGets, PollBreaks, AgentDies, GoBack,
              handlers
<1>4. ~RowAges /\ ~Restart
  BY <1>1 DEF RowAges, Restart
<1>5. ~(\E id \in Ids : AgentReposts(id) \/ Count(id) \/ CountFails(id) \/ Lapse(id))
  <2> SUFFICES ASSUME NEW id \in Ids PROVE ~AgentReposts(id) /\ ~Count(id) /\ ~CountFails(id) /\ ~Lapse(id)
    OBVIOUS
  <2>1. ~AgentReposts(id) /\ ~Count(id) /\ ~CountFails(id)
    BY <1>1 DEF AgentReposts, Count, CountFails, handlers
  <2>2. ASSUME Lapse(id) PROVE FALSE
    <3>1. res' = [res EXCEPT !.saw = res.pc # "idle"]
      BY <2>2 DEF Lapse, Seen
    <3>2. res'.pc = res.pc
      BY <3>1, InvParts DEF Parts, Results
    <3> QED BY <1>1, <3>2
  <2> QED BY <2>1, <2>2
<1>6. ResRun \/ ResUnjournalled
  BY <1>2, <1>3, <1>4, <1>5 DEF Next
<1> QED BY <1>1, <1>6 DEF ResRun, ResUnjournalled, ResRecord, ResBusy, ResFail

\* The handler that looks at the row and the one whose step takes the mark off
\* may be far apart; the mark is still that of the version it has looked at.
LEMMA GivenUpIsEarned ==
  ASSUME budget \in Nat, DeployInv, [Next]_vars, ReportGivesUp \/ ResultGivesUp
  PROVE  shots[row.pend] >= MaxAttempts
<1>1. CASE ReportGivesUp
  <2>1. RepGiveUp
    BY <1>1, RepGiveUpOnly
  <2>2. row.pend = rep.seen
    BY <1>1, <2>1 DEF ReportGivesUp, RepGiveUp, GiveUp, ClearIfMatches
  <2> QED BY <1>1, <2>2 DEF DeployInv, Earned, Enough, ReportGivesUp
<1>2. CASE ResultGivesUp
  <2>1. ResGiveUp
    BY <1>2, ResGiveUpOnly
  <2>2. row.pend = cmds[res.id].target
    BY <1>2, <2>1 DEF ResultGivesUp, ResGiveUp, GiveUp, ClearIfMatches
  <2> QED BY <1>2, <2>2 DEF DeployInv, Earned, Enough, ResultGivesUp
<1> QED BY <1>1, <1>2

\* People are told that an update does not install only after it was sent out
\* MaxAttempts times (recordPendingDeployFailure, giveUpIfExhausted in
\* deploy_attempts.go).
THEOREM GiveUpIsEarned == Spec => GiveUpEarned
<1> DEFINE Good == ReportGivesUp \/ ResultGivesUp => shots[row.pend] >= MaxAttempts
<1>1. EventsLeft /\ DeployInv /\ [Next]_vars => [Good]_vars
  BY GivenUpIsEarned DEF EventsLeft
<1>2. GiveUpEarned <=> [][Good]_vars
  BY DEF GiveUpEarned
<1> HIDE DEF Good
<1> QED BY <1>1, <1>2, BudgetAlways, DeployAlways, PTL DEF Spec
===============================================================================
