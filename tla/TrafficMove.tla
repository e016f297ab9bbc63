---------------------------- MODULE TrafficMove ----------------------------
(***************************************************************************)
(* How the backend takes traffic off a VPN tunnel that does not answer and *)
(* brings it back.  A set of rules on the router sends its traffic through *)
(* the first link of a chain of tunnels.  When the first one is down the   *)
(* backend promotes another one, and remembers the move in its database    *)
(* before it sends the command; when the tunnel answers again the chain is *)
(* restored.  Moves of several tunnels make a cascade, each with a record  *)
(* of its own.                                                             *)
(*                                                                         *)
(* A chain is what the backend sees of it: the identifiers of its links.   *)
(* That of a link past the VPN (an uplink, a bridge) is "", so such links  *)
(* are not told apart, are no reserve and cannot be promoted by a command. *)
(*                                                                         *)
(* Moves and returns run in the background, under the lock of the router;  *)
(* a report of the router about a tunnel starts them.  The router may not  *)
(* answer, the backend may restart and people may rearrange the chain.     *)
(***************************************************************************)
EXTENDS Integers, Sequences, FiniteSets, Functions

CONSTANTS
  Tunnels,
  Home,          \* the chain people have arranged
  attemptLimit,
  Hops,          \* how far a cascade is followed
  MaxBreaks,     \* bound: how often tunnels break
  MaxTroubles    \* bound: answers lost, refusals, restarts, edits by hand

\* The identifier of a link past the VPN.
Past == ""

\* A tunnel is one link of the chain; any number of links go past the VPN.
ASSUME MoveConstants ==
  /\ Home \in Seq(Tunnels \cup {Past}) /\ Past \notin Tunnels
  /\ \A i, j \in DOMAIN Home : Home[i] = Home[j] /\ Home[i] # Past => i = j
  /\ {attemptLimit, Hops} \subseteq Nat \ {0}
  /\ {MaxBreaks, MaxTroubles} \subseteq Nat

VARIABLES
  up,        \* the tunnels that answer
  chain,     \* the links of the set of rules on the router
  check,     \* what the backend makes of the reports about a tunnel
  rec,       \* the record of the move from a tunnel
  attempts,  \* moves and returns counted in the window
  move,      \* the background move of a tunnel
  back,      \* the background return to a tunnel
  breaks,    \* how often tunnels have broken
  edited,    \* history: people have rearranged the chain
  astray,    \* history: a step that may lose the order (see AlwaysComesBack)
  theirs,    \* history: the order people made since the last move, <<>> if none
  troubles   \* troubles left

vars == <<up, chain, check, rec, attempts, move, back, breaks, edited, astray, theirs, troubles>>
outside == <<up, breaks, edited>>
world == <<outside, astray, theirs>>

NoMove == [moved |-> FALSE, backup |-> "", origin |-> <<>>, expect |-> <<>>,
           unconfirmed |-> FALSE, heldSaid |-> FALSE]
Idle == [pc |-> "idle", backup |-> "", seen |-> <<>>]
IdleBack == [pc |-> "idle", cur |-> <<>>, plan |-> <<>>]

Init ==
  /\ up = Tunnels /\ chain = Home
  /\ check = [t \in Tunnels |-> "ok"]
  /\ rec = [t \in Tunnels |-> NoMove]
  /\ attempts = [t \in Tunnels |-> 0]
  /\ move = [t \in Tunnels |-> Idle]
  /\ back = [t \in Tunnels |-> IdleBack]
  /\ breaks = 0
  /\ edited = FALSE /\ astray = FALSE /\ theirs = <<>> /\ troubles = MaxTroubles

-----------------------------------------------------------------------------
(* Chains and records.                                                     *)

\* Where a link is in a chain: the last place, of links past the VPN.
pos(c, l) == CHOOSE i \in DOMAIN c : c[i] = l /\ \A j \in i + 1 .. Len(c) : c[j] # l

toFront(c, i) ==
  [k \in DOMAIN c |-> IF k = 1 THEN c[i] ELSE IF k <= i THEN c[k - 1] ELSE c[k]]
promoted(c, id) == toFront(c, pos(c, id))

\* The links to promote, in order, to make target of current: those that do
\* not move are the longest end of target that keeps its order in current.
\* A link past the VPN cannot be promoted: if one would have to move, the
\* first link alone is put back.
keepsOrder(current, target, k) ==
  \A i, j \in k + 1 .. Len(target) : i < j => pos(current, target[i]) < pos(current, target[j])
restorePlan(current, target) ==
  LET k == CHOOSE k \in 0 .. Len(target) :
             /\ keepsOrder(current, target, k)
             /\ \A i \in 0 .. k - 1 : ~keepsOrder(current, target, i)
  IN  IF \E i \in 1 .. k : target[i] = Past THEN <<target[1]>>
      ELSE [i \in 1 .. k |-> target[k + 1 - i]]

\* A plan of one promotion that does not make target of current.
LosesOrder(plan, current, target) ==
  Len(plan) = 1 /\ promoted(current, plan[1]) # target

\* The chains the moves that followed the one of t make of what it expects,
\* and where the traffic is then.
Further(chains) ==
  {[expect |-> promoted(w.expect, rec[w.cur].backup), cur |-> rec[w.cur].backup] :
     w \in {v \in chains : rec[v.cur].moved}}
Followed(t) ==
  LET after[n \in 0 .. Hops] ==
        IF n = 0 THEN {[expect |-> rec[t].expect, cur |-> rec[t].backup]}
        ELSE Further(after[n - 1])
  IN  after
Cascade(t) == {w.expect : w \in UNION {Followed(t)[n] : n \in 1 .. Hops}}

\* A chain is taken for ours by its first link alone.
byFirstLink(t, c) ==
  IF c[1] = rec[t].expect[1] THEN "ready"
  ELSE IF rec[t].unconfirmed /\ c = rec[t].origin THEN "not done" ELSE "foreign"

classify(t, c) ==
  IF c = rec[t].expect THEN "ready"
  ELSE IF rec[t].unconfirmed /\ c = rec[t].origin THEN "not done"
  ELSE IF c \in Cascade(t) THEN "waiting"
  ELSE "foreign"

overLimit(t) == attempts[t] >= attemptLimit
countAttempt(t) == [attempts EXCEPT ![t] = IF @ < attemptLimit THEN @ + 1 ELSE @]

\* The router's lock is held by a move or a return that deals with the router.
Locked ==
  \E t \in Tunnels : move[t].pc \in {"asks again", "sent"} \/ back[t].pc \in {"asks", "sent"}

\* No command is under way.
Quiet == \A t \in Tunnels : move[t].pc # "sent" /\ back[t].pc # "sent"

Trouble == troubles > 0 /\ troubles' = troubles - 1

\* A return of several promotions may be left with some of them done.
Midway(t) == Len(back[t].plan) > 1 \/ (back[t].plan # <<>> /\ back[t].cur # rec[t].expect)

\* What may become of a promotion for t: its effect and the answer to it.
Promotion(t, id, answer) ==
  LET done == promoted(chain, id) IN
  \/ answer = "ok" /\ chain' = done /\ UNCHANGED <<troubles, astray>>
  \/ answer = "silence" /\ chain' \in {chain, done} /\ Trouble /\ astray' = (astray \/ Midway(t))
  \/ answer = "refusal" /\ UNCHANGED chain /\ Trouble /\ astray' = (astray \/ Midway(t))
  \/ answer = "refusal" /\ chain' = done /\ Trouble /\ astray' = TRUE
Answers == {"ok", "silence", "refusal"}

\* A chain that shows a move nobody confirmed makes it a real one.
Confirmed(t, c) == rec[t].moved /\ rec[t].unconfirmed /\ classify(t, c) = "ready"
confirmMoves(t, c) ==
  IF Confirmed(t, c)
  THEN /\ rec' = [rec EXCEPT ![t].unconfirmed = FALSE]
       /\ attempts' = countAttempt(t)
  ELSE UNCHANGED <<rec, attempts>>

-----------------------------------------------------------------------------
(* Reports.                                                                *)

\* A move of the same tunnel that is under way is not started again.
startMoveOnly(t) ==
  move' = IF move[t].pc = "idle" THEN [move EXCEPT ![t].pc = "asks"] ELSE move

Hard(t) ==
  /\ t \notin up /\ check[t] = "ok"
  /\ check' = [check EXCEPT ![t] = "hard"]
  /\ startMoveOnly(t)
  /\ UNCHANGED <<world, chain, rec, attempts, back, troubles>>

\* The tunnel is the first link although another one of the chain answers.
Stuck(t) == chain[1] = t /\ up \cap (Range(chain) \ {t}) # {}

\* A move that did not take place is not tried again.
FailedReportNoRetry(t) ==
  /\ t \notin up /\ check[t] = "hard" /\ move[t].pc = "idle"
  /\ confirmMoves(t, chain)
  /\ UNCHANGED <<world, chain, check, move, back, troubles>>

AfterFailedReport(t) ==
  /\ t \notin up /\ check[t] = "hard" /\ move[t].pc = "idle"
  /\ confirmMoves(t, chain)
  /\ IF Stuck(t) /\ ~Locked THEN startMoveOnly(t) ELSE UNCHANGED move
  /\ UNCHANGED <<world, chain, check, back, troubles>>

\* Told that the return has met the limit: nobody is asked until it lets go.
Held(t) == overLimit(t) /\ rec[t].heldSaid

\* A return is tried once, when the tunnel recovers.
dueOnRecovery(t) ==
  rec[t].moved /\ check[t] = "hard" /\ classify(t, chain) # "waiting" /\ ~Held(t)

ReturnDue(t) ==
  /\ rec[t].moved /\ classify(t, chain) # "waiting"
  /\ ~Held(t)

Answering(t) ==
  /\ t \in up
  /\ check' = [check EXCEPT ![t] = "ok"]
  /\ back' = IF back[t].pc = "idle" /\ ReturnDue(t)
             THEN [back EXCEPT ![t].pc = "waits"] ELSE back
  /\ UNCHANGED <<world, chain, rec, attempts, move, troubles>>

-----------------------------------------------------------------------------
(* The move.                                                               *)

\* The reserve of a finished move stays.
EndMoveOnly(t) == move' = [move EXCEPT ![t].pc = "idle"]

EndMove(t) == move' = [move EXCEPT ![t] = Idle]

Alive(t) == {l \in Range(chain) \ {t, Past} : check[l] = "ok"}
pickBackup(t) ==
  chain[CHOOSE i \in DOMAIN chain :
          chain[i] \in Alive(t) /\ \A k \in 1 .. i - 1 : chain[k] \notin Alive(t)]

\* The record is saved before the command; the order of the chain is what a
\* return will restore.  seen is the chain of the snapshot.
RecordMove(t, seen, b) ==
  IF overLimit(t) THEN EndMove(t) /\ UNCHANGED <<rec, astray, theirs>>
  ELSE /\ astray' = (astray \/ rec[b].moved \/ seen # chain) /\ theirs' = <<>>
       /\ rec' = [rec EXCEPT ![t] = [moved |-> TRUE, backup |-> b, origin |-> seen,
            expect |-> promoted(seen, b), unconfirmed |-> TRUE, heldSaid |-> FALSE]]
       /\ move' = [move EXCEPT ![t] = [pc |-> "sent", backup |-> b, seen |-> <<>>]]

\* The snapshot is a reading and needs no lock, which is tried when the answer
\* is there, usually before anybody else has taken it.  A move that had to
\* wait for the lock reads again.
PlanMove(t) ==
  /\ move[t].pc \in {"asks", "asks again"}
  /\ \/ Trouble /\ EndMove(t) /\ UNCHANGED <<rec, attempts, astray, theirs>>
     \/ /\ UNCHANGED <<troubles, astray, theirs>>
        /\ chain[1] # t \/ Alive(t) = {}
        /\ confirmMoves(t, chain) /\ EndMove(t)
     \/ /\ UNCHANGED <<troubles, attempts>>
        /\ chain[1] = t /\ Alive(t) # {}
        /\ IF move[t].pc = "asks" /\ Locked
           THEN move' = [move EXCEPT ![t].pc = "waits"] /\ UNCHANGED <<rec, astray, theirs>>
           ELSE RecordMove(t, chain, pickBackup(t))
     \/ /\ Trouble
        /\ move[t].pc = "asks" /\ chain[1] = t /\ Alive(t) # {}
        /\ move' = [move EXCEPT ![t] = [pc |-> "late", backup |-> pickBackup(t), seen |-> chain]]
        /\ UNCHANGED <<rec, attempts, astray, theirs>>
  /\ UNCHANGED <<outside, chain, check, back>>

\* The snapshot is not read again when the lock was free by then.
LateSnapshot(t) ==
  /\ move[t].pc = "late"
  /\ IF Locked
     THEN move' = [move EXCEPT ![t] = [Idle EXCEPT !.pc = "waits"]] /\ UNCHANGED <<rec, astray, theirs>>
     ELSE RecordMove(t, move[t].seen, move[t].backup)
  /\ UNCHANGED <<outside, chain, check, attempts, back, troubles>>

MoveGetsLock(t) ==
  /\ move[t].pc = "waits"
  /\ IF Locked THEN EndMove(t) ELSE move' = [move EXCEPT ![t].pc = "asks again"]
  /\ UNCHANGED <<world, chain, check, rec, attempts, back, troubles>>

\* A silence is taken for a refusal.
SilenceIsRefusal(t) ==
  /\ move[t].pc = "sent" /\ EndMove(t)
  /\ \E answer \in Answers :
       /\ Promotion(t, move[t].backup, answer)
       /\ rec' = [rec EXCEPT ![t] = IF answer = "ok" THEN [@ EXCEPT !.unconfirmed = FALSE]
                                   ELSE NoMove]
       /\ attempts' = IF answer = "ok" THEN countAttempt(t) ELSE attempts
  /\ UNCHANGED <<outside, theirs, check, back>>

\* Only a refusal says that the command was not carried out.
MoveAnswered(t) ==
  /\ move[t].pc = "sent" /\ EndMove(t)
  /\ \E answer \in Answers :
       /\ Promotion(t, move[t].backup, answer)
       /\ CASE answer = "ok" ->
                 /\ rec' = [rec EXCEPT ![t].unconfirmed = FALSE]
                 /\ attempts' = countAttempt(t)
            [] answer = "silence" -> UNCHANGED <<rec, attempts>>
            [] answer = "refusal" ->
                 rec' = [rec EXCEPT ![t] = NoMove] /\ UNCHANGED attempts
  /\ UNCHANGED <<outside, theirs, check, back>>

-----------------------------------------------------------------------------
(* The return.                                                             *)

EndBack(t) == back' = [back EXCEPT ![t] = IdleBack]

ReturnGetsLock(t) ==
  /\ back[t].pc = "waits"
  /\ IF Locked THEN EndBack(t) ELSE back' = [back EXCEPT ![t].pc = "asks"]
  /\ UNCHANGED <<world, chain, check, rec, attempts, move, troubles>>

\* A chain our moves do not explain is somebody's decision: the record goes
\* and the chain stays.  At the limit the traffic stays on the live reserve.
PlanReturn(t) ==
  /\ back[t].pc = "asks"
  /\ \/ Trouble /\ EndBack(t) /\ UNCHANGED <<rec, astray>>
     \/ /\ ~rec[t].moved \/ Held(t)
        /\ EndBack(t) /\ UNCHANGED <<rec, astray, troubles>>
     \/ /\ rec[t].moved /\ ~Held(t)
        /\ CASE classify(t, chain) = "waiting" -> EndBack(t) /\ UNCHANGED <<rec, astray>>
             [] classify(t, chain) \in {"foreign", "not done"} ->
                  /\ rec' = [rec EXCEPT ![t] = NoMove]
                  /\ EndBack(t) /\ UNCHANGED astray
             [] classify(t, chain) = "ready" /\ overLimit(t) ->
                  /\ rec' = [rec EXCEPT ![t].heldSaid = TRUE, ![t].unconfirmed = FALSE]
                  /\ EndBack(t) /\ UNCHANGED astray
             [] classify(t, chain) = "ready" /\ ~overLimit(t) ->
                  LET plan == restorePlan(chain, rec[t].origin) IN
                  /\ back' = [back EXCEPT ![t] = [pc |-> "sent", cur |-> chain, plan |-> plan]]
                  /\ astray' = (astray \/ LosesOrder(plan, chain, rec[t].origin))
                  /\ UNCHANGED rec
        /\ UNCHANGED troubles
  /\ UNCHANGED <<outside, theirs, chain, check, attempts, move>>

\* The links are promoted one after another; the record is written at the end.
ReturnAnswered(t) ==
  /\ back[t].pc = "sent" /\ back[t].plan # <<>>
  /\ \E answer \in Answers :
       /\ Promotion(t, Head(back[t].plan), answer)
       /\ IF answer = "ok"
          THEN /\ back' = [back EXCEPT ![t].plan = Tail(@),
                                       ![t].cur = promoted(@, Head(back[t].plan))]
               /\ UNCHANGED rec
          ELSE /\ rec' = [rec EXCEPT ![t].expect = back[t].cur, ![t].unconfirmed = FALSE]
               /\ EndBack(t)
  /\ UNCHANGED <<outside, theirs, check, attempts, move>>

Returned(t) ==
  /\ back[t].pc = "sent" /\ back[t].plan = <<>>
  /\ rec' = [rec EXCEPT ![t] = NoMove]
  /\ attempts' = countAttempt(t)
  /\ EndBack(t)
  /\ UNCHANGED <<world, chain, check, move, troubles>>

-----------------------------------------------------------------------------
(* The world.                                                              *)

Break(t) ==
  /\ t \in up /\ breaks < MaxBreaks
  /\ up' = up \ {t} /\ breaks' = breaks + 1
  /\ UNCHANGED <<chain, check, rec, attempts, move, back, edited, astray, theirs, troubles>>

Mend(t) ==
  /\ t \notin up /\ up' = up \cup {t}
  /\ UNCHANGED <<chain, check, rec, attempts, move, back, breaks, edited, astray, theirs, troubles>>

\* The oldest attempt leaves the window.
WindowPasses(t) ==
  /\ attempts[t] > 0
  /\ attempts' = [attempts EXCEPT ![t] = @ - 1]
  /\ UNCHANGED <<world, chain, check, rec, move, back, troubles>>

\* A restart ends what runs in the background; a command that was sent may
\* have reached the router.
Underway ==
  {move[t].backup : t \in {u \in Tunnels : move[u].pc = "sent"}}
  \cup {Head(back[t].plan) : t \in {u \in Tunnels : back[u].plan # <<>>}}

Restart ==
  /\ Trouble /\ astray' = (astray \/ \E t \in Tunnels : Midway(t))
  /\ chain' \in {chain} \cup {promoted(chain, id) : id \in Underway}
  /\ move' = [t \in Tunnels |-> Idle]
  /\ back' = [t \in Tunnels |-> IdleBack]
  /\ UNCHANGED <<outside, theirs, check, rec, attempts>>

\* People put another link first, one past the VPN as well.  An order the
\* records know is not theirs.
Ours(c) == \E t \in Tunnels : rec[t].moved /\ c \in {rec[t].origin, rec[t].expect} \cup Cascade(t)

Edit ==
  /\ Trouble
  /\ \E i \in DOMAIN chain : chain' = toFront(chain, i) /\ chain' # chain
  /\ edited' = TRUE
  /\ theirs' = IF Quiet /\ ~Ours(chain') THEN chain' ELSE <<>>
  /\ UNCHANGED <<up, breaks, astray, check, rec, attempts, move, back>>

Report(t) == Hard(t) \/ AfterFailedReport(t) \/ Answering(t)
Moving(t) == PlanMove(t) \/ LateSnapshot(t) \/ MoveGetsLock(t) \/ MoveAnswered(t)
Returning(t) ==
  ReturnGetsLock(t) \/ PlanReturn(t) \/ ReturnAnswered(t) \/ Returned(t)

Next ==
  \/ \E t \in Tunnels : \/ Report(t) \/ Moving(t) \/ Returning(t)
                        \/ Break(t) \/ Mend(t) \/ WindowPasses(t)
  \/ Restart \/ Edit

Spec == Init /\ [][Next]_vars

FairSpec ==
  /\ Spec
  /\ \A t \in Tunnels : /\ WF_vars(Report(t)) /\ WF_vars(Moving(t))
                        /\ WF_vars(Returning(t)) /\ WF_vars(WindowPasses(t))

-----------------------------------------------------------------------------
(* Properties.                                                             *)

\* The links of Home in any order.
Chains == {[i \in DOMAIN Home |-> Home[p[i]]] : p \in Bijection(DOMAIN Home, DOMAIN Home)}

Records == {NoMove} \cup [moved : {TRUE}, backup : Tunnels, origin : Chains,
  expect : Chains, unconfirmed : BOOLEAN, heldSaid : BOOLEAN]

\* Every variable keeps its type.
MoveTypeOK ==
  /\ up \subseteq Tunnels /\ chain \in Chains
  /\ check \in [Tunnels -> {"ok", "hard"}]
  /\ \A t \in Tunnels :
       /\ rec[t] \in Records
       /\ move[t].pc \in {"idle", "asks", "waits", "asks again", "late", "sent"}
       /\ move[t].pc \in {"sent", "late"} <=> move[t].backup \in Tunnels \ {t}
       /\ back[t].pc \in {"idle", "waits", "asks", "sent"}
       /\ back[t].pc = "sent" => back[t].cur \in Chains /\ Range(back[t].plan) \subseteq Tunnels
  /\ attempts \in [Tunnels -> 0 .. attemptLimit]
  /\ breaks \in 0 .. MaxBreaks
  /\ {edited, astray} \subseteq BOOLEAN /\ theirs \in Chains \cup {<<>>} /\ troubles \in 0 .. MaxTroubles

\* The chain the i-th move of a trail has left behind.
EndOf(trail, i) == IF i = 0 THEN Home ELSE rec[trail[i]].expect

\* Recorded moves of different tunnels, each from the chain the one before left.
IsTrail(trail) ==
  /\ IsInjective(trail)
  /\ \A i \in DOMAIN trail :
       rec[trail[i]].moved /\ rec[trail[i]].origin = EndOf(trail, i - 1)

\* Whatever was lost on the way, the database knows how to restore the order
\* people have made: the record is written before the command, and goes only
\* when the command was not carried out or was undone (move.go:17-25).
WayHome ==
  Quiet /\ ~edited /\ ~astray =>
    \E n \in 0 .. Len(Home) : \E trail \in [1 .. n -> Tunnels] :
      IsTrail(trail) /\ chain = EndOf(trail, n)

\* An order people have made, and which no record explains, is never undone by
\* a return: "an order our moves do not explain is a person's decision"
\* (move.go:675-677); only a move off a dead tunnel changes it.
TheirsStays == theirs # <<>> => chain = theirs

\* When all tunnels answer for good, the chain is restored and stays so:
\* "I will return the traffic when it comes back" (movedText, move.go:405).
\* Five steps may lose the order, and set astray: a move to a tunnel traffic was
\* moved off (the circle of AlwaysComesBack), a move decided on a snapshot that
\* came late, a refusal that was carried out after all, a return of several
\* promotions left in the middle, and a return that would have to move a link
\* past the VPN and puts the first link back alone (LosesOrder).
ComesBack ==
  <>[](up = Tunnels) /\ []~(edited \/ astray) => <>[](chain = Home)

\* The same although traffic has gone round: off a tunnel, and off its reserve
\* to the tunnel that answers again.
AlwaysComesBack == <>[](up = Tunnels) /\ []~edited => <>[](chain = Home)

\* Traffic does not stay on a dead tunnel while another one of the chain answers
\* (people may have sent it past the VPN).
Leaves == <>[](up \cap Range(Home) # {}) => <>[](chain[1] \in up \cup {Past})
=============================================================================
