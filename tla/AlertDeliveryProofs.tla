------------------------- MODULE AlertDeliveryProofs -------------------------
(***************************************************************************)
(* Proofs about AlertDelivery, for any thresholds, any number of           *)
(* incidents, stops, kills and presses.                                    *)
(*                                                                         *)
(* The inductive invariant has four parts:                                 *)
(*                                                                         *)
(*   Fits     - types, what each handler holds, and room in the line: the  *)
(*              bound of ReportGet leaves a place for whatever the report  *)
(*              has begun to say, so that Free exists;                     *)
(*   InLine   - while the backend runs, the line is straight: its places   *)
(*              are a chain in which each waits for the one before it and  *)
(*              the tail is the last, only the first of them is at work,   *)
(*              and the pass, which does not wait, holds the first;        *)
(*   Answered - in a history without stop, kill or lost update: a person   *)
(*              whose last message was a card of an incident that is over  *)
(*              has its recovery in the report's hands or in the line,     *)
(*              or it is owed, or a pass is dropping it;                   *)
(*   CardInv  - while no update of the row is lost: the line is in the     *)
(*              order in which things are to be said, a card is in one     *)
(*              hand at a time, the recovery of an incident that is on is  *)
(*              in nobody's, and an incident that is on without a mark of  *)
(*              sending has left nothing in the line, so that the pass     *)
(*              may say its card before all else.                          *)
(*                                                                         *)
(* Places are named by numbers and used again, so who waits for whom has   *)
(* to be followed through Release and Enqueue; the chain is a function     *)
(* from positions to places, and both operations shift or extend it.       *)
(***************************************************************************)
EXTENDS AlertDelivery, FiniteSetTheorems, TLAPS

-----------------------------------------------------------------------------
(* Rows.                                                                   *)

Seen == {"ok", "fail"}

\* A mark of sending belongs to an incident that is on.
MarkFits(st) == st.sent # "never" => st.status = "hard"
GoodRow(st) == st \in Row /\ MarkFits(st)

\* The counters of a row stay within their thresholds.
LEMMA UptoFits ==
  ASSUME NEW b \in Nat \ {0}, NEW n \in 0 .. b
  PROVE  Upto(n + 1, b) \in 0 .. b
BY DEF Upto

LEMMA RowIs ==
  ASSUME NEW st \in Row
  PROVE  st = [status |-> st.status, fails |-> st.fails, oks |-> st.oks, sent |-> st.sent,
               silence |-> st.silence, acked |-> st.acked]
BY DEF Row

\* A change of one field of a row.
LEMMA RowFields ==
  ASSUME NEW st \in Row
  PROVE  /\ \A sent \in {"never", "recent", "due"} :
              LET x == [st EXCEPT !.sent = sent] IN
              /\ x \in Row /\ x.sent = sent /\ x.status = st.status
              /\ x.fails = st.fails /\ x.oks = st.oks
         /\ \A silence \in {"off", "on", "recent"} :
              LET x == [st EXCEPT !.silence = silence] IN
              /\ x \in Row /\ x.sent = st.sent /\ x.status = st.status
              /\ x.fails = st.fails /\ x.oks = st.oks
         /\ LET x == [st EXCEPT !.acked = TRUE] IN
            /\ x \in Row /\ x.sent = st.sent /\ x.status = st.status
            /\ x.fails = st.fails /\ x.oks = st.oks
BY DEF Row

Kinds == {"noop", "soft", "soft_flap", "hard", "recovery"}

\* What state.Apply makes of a row.
LEMMA TransitionFacts ==
  ASSUME NEW st, GoodRow(st), NEW seen \in Seen
  PROVE  LET tr == Transition(st, seen) IN
         /\ tr.kind \in Kinds /\ tr.next \in Row
         /\ tr.kind # "recovery" => MarkFits(tr.next)
         /\ tr.kind = "hard" => /\ seen = "fail" /\ st.status = "fail"
                                /\ tr.next.status = "hard" /\ tr.next.sent = "recent"
         /\ tr.kind = "recovery" => st.status = "hard" /\ tr.next.status = "ok"
         /\ tr.kind \in {"noop", "soft", "soft_flap"} =>
              (tr.next.status = "hard" <=> st.status = "hard") /\ tr.next.sent = st.sent
<1> DEFINE fails == Upto(st.fails + 1, FailThreshold)
           oks == Upto(st.oks + 1, RecoveryThreshold)
<1>1. /\ fails \in 0 .. FailThreshold /\ oks \in 0 .. RecoveryThreshold
      /\ 1 \in 0 .. FailThreshold /\ 1 \in 0 .. RecoveryThreshold /\ 0 \in 0 .. FailThreshold
      /\ 0 \in 0 .. RecoveryThreshold
  BY UptoFits, AlertConstants DEF GoodRow, Row
<1>2. /\ st.status \in {"ok", "fail", "hard"} /\ st.sent \in {"never", "recent", "due"}
      /\ st.silence \in {"off", "on", "recent"} /\ st.acked \in BOOLEAN
  BY DEF GoodRow, Row
<1>3. Transition(st, seen) =
        LET failed == [st EXCEPT !.fails = fails, !.oks = 0]
            good == [st EXCEPT !.oks = oks]
        IN CASE st.status = "ok" /\ seen = "ok" -> [kind |-> "noop", next |-> good]
             [] st.status = "ok" /\ seen = "fail" ->
                  [kind |-> "soft", next |-> [st EXCEPT !.fails = 1, !.oks = 0, !.status = "fail"]]
             [] st.status = "fail" /\ seen = "fail" /\ fails < FailThreshold ->
                  [kind |-> "soft", next |-> failed]
             [] st.status = "fail" /\ seen = "fail" /\ fails >= FailThreshold ->
                  [kind |-> "hard", next |-> [failed EXCEPT !.status = "hard", !.sent = "recent"]]
             [] st.status = "fail" /\ seen = "ok" ->
                  [kind |-> "soft_flap", next |-> [st EXCEPT !.fails = 0, !.oks = 1, !.status = "ok"]]
             [] st.status = "hard" /\ seen = "fail" -> [kind |-> "noop", next |-> failed]
             [] st.status = "hard" /\ seen = "ok" /\ oks < RecoveryThreshold ->
                  [kind |-> "noop", next |-> good]
             [] st.status = "hard" /\ seen = "ok" /\ oks >= RecoveryThreshold ->
                  [kind |-> "recovery", next |-> [good EXCEPT !.status = "ok", !.fails = 0, !.acked = FALSE]]
  BY DEF Transition
<1> HIDE DEF fails, oks
<1> DEFINE Fits(x, status, sent) == x \in Row /\ x.status = status /\ x.sent = sent
<1>4. st \in Row
  BY DEF GoodRow
<1>5. \A x, status, sent : Fits(x, status, sent) =>
        /\ \A v \in 0 .. FailThreshold : Fits([x EXCEPT !.fails = v], status, sent)
        /\ \A v \in 0 .. RecoveryThreshold : Fits([x EXCEPT !.oks = v], status, sent)
        /\ \A v \in {"ok", "fail", "hard"} : Fits([x EXCEPT !.status = v], v, sent)
        /\ \A v \in {"never", "recent", "due"} : Fits([x EXCEPT !.sent = v], status, v)
        /\ \A v \in BOOLEAN : Fits([x EXCEPT !.acked = v], status, sent)
  BY DEF Row
<1>6. Fits(st, st.status, st.sent)
  BY <1>4
<1> HIDE DEF Fits
<1>7. Fits([st EXCEPT !.oks = oks], st.status, st.sent)
  BY <1>1, <1>5, <1>6
<1>8. Fits([st EXCEPT !.fails = fails, !.oks = 0], st.status, st.sent)
  <2> DEFINE x == [st EXCEPT !.fails = fails]
  <2>1. Fits(x, st.status, st.sent)
    BY <1>1, <1>5, <1>6
  <2>2. [st EXCEPT !.fails = fails, !.oks = 0] = [x EXCEPT !.oks = 0]
    OBVIOUS
  <2> QED BY <1>1, <1>5, <2>1, <2>2
<1> DEFINE failed == [st EXCEPT !.fails = fails, !.oks = 0]
           good == [st EXCEPT !.oks = oks]
           soft == [st EXCEPT !.fails = 1, !.oks = 0, !.status = "fail"]
           flap == [st EXCEPT !.fails = 0, !.oks = 1, !.status = "ok"]
           hard == [failed EXCEPT !.status = "hard", !.sent = "recent"]
           over == [good EXCEPT !.status = "ok", !.fails = 0, !.acked = FALSE]
<1>9. Fits(soft, "fail", st.sent)
  <2> DEFINE x == [st EXCEPT !.fails = 1]
             y == [x EXCEPT !.oks = 0]
  <2>1. Fits(x, st.status, st.sent)
    BY <1>1, <1>5, <1>6
  <2>2. Fits(y, st.status, st.sent)
    BY <1>1, <1>5, <2>1
  <2>3. soft = [y EXCEPT !.status = "fail"]
    OBVIOUS
  <2> HIDE DEF x, y
  <2> QED BY <1>5, <2>2, <2>3
<1>10. Fits(flap, "ok", st.sent)
  <2> DEFINE x == [st EXCEPT !.fails = 0]
             y == [x EXCEPT !.oks = 1]
  <2>1. Fits(x, st.status, st.sent)
    BY <1>1, <1>5, <1>6
  <2>2. Fits(y, st.status, st.sent)
    BY <1>1, <1>5, <2>1
  <2>3. flap = [y EXCEPT !.status = "ok"]
    OBVIOUS
  <2> HIDE DEF x, y
  <2> QED BY <1>5, <2>2, <2>3
<1> HIDE DEF failed, good, soft, flap
<1>11. Fits(hard, "hard", "recent")
  <2> DEFINE x == [failed EXCEPT !.status = "hard"]
  <2>1. Fits(x, "hard", st.sent)
    BY <1>5, <1>8 DEF failed
  <2>2. hard = [x EXCEPT !.sent = "recent"]
    OBVIOUS
  <2> HIDE DEF x
  <2> QED BY <1>5, <2>1, <2>2
<1>12. Fits(over, "ok", st.sent)
  <2> DEFINE x == [good EXCEPT !.status = "ok"]
             y == [x EXCEPT !.fails = 0]
  <2>1. Fits(x, "ok", st.sent)
    BY <1>5, <1>7 DEF good
  <2>2. Fits(y, "ok", st.sent)
    BY <1>1, <1>5, <2>1
  <2>3. over = [y EXCEPT !.acked = FALSE]
    OBVIOUS
  <2> HIDE DEF x, y
  <2> QED BY <1>5, <2>2, <2>3
<1>13. Fits(good, st.status, st.sent) /\ Fits(failed, st.status, st.sent)
  BY <1>7, <1>8 DEF good, failed
<1> HIDE DEF hard, over
<1>14. Transition(st, seen) =
        CASE st.status = "ok" /\ seen = "ok" -> [kind |-> "noop", next |-> good]
          [] st.status = "ok" /\ seen = "fail" -> [kind |-> "soft", next |-> soft]
          [] st.status = "fail" /\ seen = "fail" /\ fails < FailThreshold ->
               [kind |-> "soft", next |-> failed]
          [] st.status = "fail" /\ seen = "fail" /\ fails >= FailThreshold ->
               [kind |-> "hard", next |-> hard]
          [] st.status = "fail" /\ seen = "ok" -> [kind |-> "soft_flap", next |-> flap]
          [] st.status = "hard" /\ seen = "fail" -> [kind |-> "noop", next |-> failed]
          [] st.status = "hard" /\ seen = "ok" /\ oks < RecoveryThreshold ->
               [kind |-> "noop", next |-> good]
          [] st.status = "hard" /\ seen = "ok" /\ oks >= RecoveryThreshold ->
               [kind |-> "recovery", next |-> over]
  BY <1>3 DEF good, failed, soft, flap, hard, over
<1>15. st.sent # "never" => st.status = "hard"
  BY DEF GoodRow, MarkFits
<1>16. fails \in Int /\ oks \in Int /\ FailThreshold \in Int /\ RecoveryThreshold \in Int
  BY <1>1, AlertConstants
<1> DEFINE tr == Transition(st, seen)
<1>17. \/ tr.kind = "noop" /\ tr.next = good
       \/ st.status = "ok" /\ tr.kind = "soft" /\ tr.next = soft
       \/ st.status = "fail" /\ tr.kind = "soft" /\ tr.next = failed
       \/ st.status = "fail" /\ seen = "fail" /\ tr.kind = "hard" /\ tr.next = hard
       \/ st.status = "fail" /\ tr.kind = "soft_flap" /\ tr.next = flap
       \/ tr.kind = "noop" /\ tr.next = failed
       \/ st.status = "hard" /\ tr.kind = "recovery" /\ tr.next = over
  <2>1. CASE st.status = "ok" /\ seen = "ok"
    BY <1>14, <2>1
  <2>2. CASE st.status = "ok" /\ seen = "fail"
    BY <1>14, <2>2
  <2>3. CASE st.status = "fail" /\ seen = "fail" /\ fails < FailThreshold
    BY <1>14, <1>16, <2>3
  <2>4. CASE st.status = "fail" /\ seen = "fail" /\ fails >= FailThreshold
    BY <1>14, <1>16, <2>4
  <2>5. CASE st.status = "fail" /\ seen = "ok"
    BY <1>14, <2>5
  <2>6. CASE st.status = "hard" /\ seen = "fail"
    BY <1>14, <2>6
  <2>7. CASE st.status = "hard" /\ seen = "ok" /\ oks < RecoveryThreshold
    BY <1>14, <1>16, <2>7
  <2>8. CASE st.status = "hard" /\ seen = "ok" /\ oks >= RecoveryThreshold
    BY <1>14, <1>16, <2>8
  <2> QED BY <1>2, <1>16, <2>1, <2>2, <2>3, <2>4, <2>5, <2>6, <2>7, <2>8 DEF Seen
<1> HIDE DEF tr
<1>18. /\ tr.kind \in Kinds /\ tr.next \in Row
       /\ tr.kind # "recovery" => MarkFits(tr.next)
       /\ tr.kind = "hard" => /\ seen = "fail" /\ st.status = "fail"
                              /\ tr.next.status = "hard" /\ tr.next.sent = "recent"
       /\ tr.kind = "recovery" => st.status = "hard" /\ tr.next.status = "ok"
       /\ tr.kind \in {"noop", "soft", "soft_flap"} =>
            (tr.next.status = "hard" <=> st.status = "hard") /\ tr.next.sent = st.sent
  BY <1>9, <1>10, <1>11, <1>12, <1>13, <1>15, <1>17 DEF Kinds, MarkFits, Fits
<1> QED BY <1>18 DEF tr

\* Only the status and the counters decide the kind of a transition.
KindOf(status, fails, oks, seen) ==
  IF status = "ok" THEN IF seen = "ok" THEN "noop" ELSE "soft"
  ELSE IF status = "fail"
    THEN IF seen = "ok" THEN "soft_flap" ELSE IF fails < FailThreshold THEN "soft" ELSE "hard"
  ELSE IF seen = "ok" /\ ~(oks < RecoveryThreshold) THEN "recovery" ELSE "noop"

LEMMA KindDecided ==
  ASSUME NEW st \in Row, NEW seen \in Seen
  PROVE  Transition(st, seen).kind =
           KindOf(st.status, Upto(st.fails + 1, FailThreshold), Upto(st.oks + 1, RecoveryThreshold), seen)
<1> DEFINE fails == Upto(st.fails + 1, FailThreshold)
           oks == Upto(st.oks + 1, RecoveryThreshold)
           kind == Transition(st, seen).kind
<1>1. /\ st.fails \in 0 .. FailThreshold /\ st.oks \in 0 .. RecoveryThreshold
      /\ st.status \in {"ok", "fail", "hard"}
      /\ FailThreshold \in Nat \ {0} /\ RecoveryThreshold \in Nat \ {0}
  BY AlertConstants DEF Row
<1>2. fails \in Int /\ oks \in Int /\ FailThreshold \in Int /\ RecoveryThreshold \in Int
  BY <1>1, UptoFits
<1>3. /\ st.status = "ok" /\ seen = "ok" => kind = "noop"
      /\ st.status = "ok" /\ seen = "fail" => kind = "soft"
      /\ st.status = "fail" /\ seen = "ok" => kind = "soft_flap"
      /\ st.status = "hard" /\ seen = "fail" => kind = "noop"
  BY DEF Transition
<1>4. /\ st.status = "fail" /\ seen = "fail" /\ fails < FailThreshold => kind = "soft"
      /\ st.status = "fail" /\ seen = "fail" /\ fails >= FailThreshold => kind = "hard"
  BY <1>2 DEF Transition
<1>5. /\ st.status = "hard" /\ seen = "ok" /\ oks < RecoveryThreshold => kind = "noop"
      /\ st.status = "hard" /\ seen = "ok" /\ oks >= RecoveryThreshold => kind = "recovery"
  BY <1>2 DEF Transition
<1> HIDE DEF fails, oks, kind
<1>6. kind = KindOf(st.status, fails, oks, seen)
  BY <1>1, <1>2, <1>3, <1>4, <1>5 DEF KindOf, Seen
<1> QED BY <1>6 DEF fails, oks, kind

\* Time changes the mark and the silence of a row.
Older(st) == IF st.sent = "recent" THEN [st EXCEPT !.sent = "due"] ELSE st
Quieter(st) == [st EXCEPT !.silence = IF st.silence = "on" THEN "recent" ELSE "off"]

LEMMA AgedRow ==
  ASSUME NEW st \in Row, NEW x \in {Older(st), Quieter(st)}
  PROVE  /\ x \in Row /\ x.status = st.status /\ x.fails = st.fails /\ x.oks = st.oks
         /\ MarkFits(st) => MarkFits(x)
         /\ \A seen \in Seen : Transition(x, seen).kind = Transition(st, seen).kind
<1>1. /\ x \in Row /\ x.status = st.status /\ x.fails = st.fails /\ x.oks = st.oks
      /\ x.sent # "never" => st.sent # "never"
  BY RowFields DEF Older, Quieter, Row
<1> QED BY <1>1, KindDecided DEF MarkFits

-----------------------------------------------------------------------------
(* The line: its shape.                                                    *)

Slot == [prev : {None} \cup Places, kind : {"card", "recovery", "pass"},
         inc : 0 .. MaxIncidents, known : BOOLEAN, pc : {"waiting", "cancelled"} \cup Outcomes]

Others == {p \in DOMAIN place : place[p].kind # "pass"}
Passes == {p \in DOMAIN place : place[p].kind = "pass"}

\* Every place waits for another of the line, or for none; what the line
\* carries of an incident is of one there was.
Shape ==
  /\ DOMAIN place \subseteq Places
  /\ place = [p \in DOMAIN place |-> place[p]]
  /\ \A p \in DOMAIN place :
       /\ place[p] \in Slot
       /\ place[p].prev \in {None} \cup (DOMAIN place \ {p})
       /\ place[p].kind # "pass" => place[p].inc \in Incidents
  /\ tail \in {None} \cup DOMAIN place

LEMMA PlacesAre == None \notin Places /\ IsFiniteSet(Places) /\ Cardinality(Places) = 2 * MaxIncidents + 1
<1>1. 2 * MaxIncidents + 1 \in Nat
  BY AlertConstants
<1> QED BY <1>1, FS_Interval DEF Places, None

\* A place for a new delivery is there as long as the line is not full.
LEMMA FreeIsThere ==
  ASSUME DOMAIN place \subseteq Places, Cardinality(DOMAIN place) <= 2 * MaxIncidents
  PROVE  Free \in Places /\ Free \notin DOMAIN place
<1>1. DOMAIN place # Places
  BY PlacesAre, AlertConstants
<1>2. \E p \in Places : p \notin DOMAIN place
  BY <1>1
<1> QED BY <1>2 DEF Free

LEMMA EnqueueShape ==
  ASSUME Shape, Free \in Places, Free \notin DOMAIN place,
         NEW kind \in {"card", "recovery", "pass"}, NEW inc \in 0 .. MaxIncidents,
         NEW known \in BOOLEAN, kind # "pass" => inc \in Incidents,
         Enqueue(kind, inc, known)
  PROVE  /\ Shape' /\ DOMAIN place' = DOMAIN place \cup {Free} /\ tail' = Free
         /\ \A p \in DOMAIN place : place'[p] = place[p]
         /\ place'[Free] = [prev |-> tail, kind |-> kind, inc |-> inc, known |-> known,
                            pc |-> IF phase = "up" THEN "waiting" ELSE "cancelled"]
<1> DEFINE new == [prev |-> tail, kind |-> kind, inc |-> inc, known |-> known,
                   pc |-> IF phase = "up" THEN "waiting" ELSE "cancelled"]
<1>1. /\ place' = [p \in DOMAIN place \cup {Free} |-> IF p = Free THEN new ELSE place[p]]
      /\ tail' = Free
  BY DEF Enqueue
<1>2. /\ DOMAIN place' = DOMAIN place \cup {Free}
      /\ \A p \in DOMAIN place : place'[p] = place[p]
      /\ place'[Free] = new
  BY <1>1
<1>3. tail \in {None} \cup DOMAIN place /\ DOMAIN place \subseteq Places
  BY DEF Shape
<1>4. /\ new \in Slot /\ new.prev = tail /\ new.kind = kind /\ new.inc = inc
  BY <1>3 DEF Slot
<1> HIDE DEF new
<1>5. Shape'
  <2>1. DOMAIN place' \subseteq Places
    BY <1>2, <1>3
  <2>2. place' = [p \in DOMAIN place' |-> place'[p]]
    BY <1>1
  <2>3. ASSUME NEW p \in DOMAIN place'
        PROVE /\ place'[p] \in Slot
              /\ place'[p].prev \in {None} \cup (DOMAIN place' \ {p})
              /\ place'[p].kind # "pass" => place'[p].inc \in Incidents
    <3>1. CASE p = Free
      BY <1>2, <1>3, <1>4, <3>1
    <3>2. CASE p # Free
      BY <1>2, <2>3, <3>2 DEF Shape
    <3> QED BY <3>1, <3>2
  <2>4. tail' \in {None} \cup DOMAIN place'
    BY <1>1, <1>2
  <2> QED BY <2>1, <2>2, <2>3, <2>4 DEF Shape
<1> QED BY <1>1, <1>2, <1>5 DEF new

LEMMA ReleaseShape ==
  ASSUME Shape, NEW p \in DOMAIN place, Release(p)
  PROVE  /\ Shape' /\ DOMAIN place' = DOMAIN place \ {p}
         /\ tail' = IF tail = p THEN None ELSE tail
         /\ \A q \in DOMAIN place' :
              /\ place'[q].prev = IF place[q].prev = p THEN None ELSE place[q].prev
              /\ place'[q].kind = place[q].kind /\ place'[q].inc = place[q].inc
              /\ place'[q].known = place[q].known /\ place'[q].pc = place[q].pc
<1>1. /\ place' = [q \in DOMAIN place \ {p} |->
                     IF place[q].prev = p THEN [place[q] EXCEPT !.prev = None] ELSE place[q]]
      /\ tail' = IF tail = p THEN None ELSE tail
  BY DEF Release
<1>2. ASSUME NEW q \in DOMAIN place \ {p}
      PROVE  /\ place'[q] \in Slot
             /\ place'[q].prev = IF place[q].prev = p THEN None ELSE place[q].prev
             /\ place'[q].kind = place[q].kind /\ place'[q].inc = place[q].inc
             /\ place'[q].known = place[q].known /\ place'[q].pc = place[q].pc
  <2>1. place[q] \in Slot
    BY DEF Shape
  <2>2. /\ [place[q] EXCEPT !.prev = None] \in Slot
        /\ [place[q] EXCEPT !.prev = None].prev = None
        /\ [place[q] EXCEPT !.prev = None].kind = place[q].kind
        /\ [place[q] EXCEPT !.prev = None].inc = place[q].inc
        /\ [place[q] EXCEPT !.prev = None].known = place[q].known
        /\ [place[q] EXCEPT !.prev = None].pc = place[q].pc
    BY <2>1 DEF Slot
  <2>3. place'[q] = IF place[q].prev = p THEN [place[q] EXCEPT !.prev = None] ELSE place[q]
    BY <1>1
  <2> QED BY <2>1, <2>2, <2>3
<1>3. DOMAIN place' = DOMAIN place \ {p}
  BY <1>1
<1>4. Shape'
  <2>1. place' = [q \in DOMAIN place' |-> place'[q]]
    BY <1>1
  <2>2. ASSUME NEW q \in DOMAIN place'
        PROVE /\ place'[q].prev \in {None} \cup (DOMAIN place' \ {q})
              /\ place'[q].kind # "pass" => place'[q].inc \in Incidents
    BY <1>2, <1>3, <2>2 DEF Shape
  <2>3. tail' \in {None} \cup DOMAIN place'
    BY <1>1, <1>3 DEF Shape
  <2> QED BY <1>2, <1>3, <2>1, <2>2, <2>3 DEF Shape
<1> QED BY <1>1, <1>2, <1>3, <1>4

LEMMA SendShape ==
  ASSUME Shape, NEW p \in DOMAIN place, NEW pc \in Outcomes, tail' = tail,
         place' = [place EXCEPT ![p].pc = pc]
  PROVE  /\ Shape' /\ DOMAIN place' = DOMAIN place
         /\ \A q \in DOMAIN place :
              /\ place'[q].prev = place[q].prev /\ place'[q].kind = place[q].kind
              /\ place'[q].inc = place[q].inc /\ place'[q].known = place[q].known
              /\ place'[q].pc = IF q = p THEN pc ELSE place[q].pc
<1>1. DOMAIN place' = DOMAIN place
  OBVIOUS
<1>2. ASSUME NEW q \in DOMAIN place
      PROVE  /\ place'[q] \in Slot
             /\ place'[q].prev = place[q].prev /\ place'[q].kind = place[q].kind
             /\ place'[q].inc = place[q].inc /\ place'[q].known = place[q].known
             /\ place'[q].pc = IF q = p THEN pc ELSE place[q].pc
  <2>1. place[q] \in Slot
    BY DEF Shape
  <2>2. place'[q] = IF q = p THEN [place[q] EXCEPT !.pc = pc] ELSE place[q]
    OBVIOUS
  <2>3. /\ [place[q] EXCEPT !.pc = pc] \in Slot
        /\ [place[q] EXCEPT !.pc = pc].prev = place[q].prev
        /\ [place[q] EXCEPT !.pc = pc].kind = place[q].kind
        /\ [place[q] EXCEPT !.pc = pc].inc = place[q].inc
        /\ [place[q] EXCEPT !.pc = pc].known = place[q].known
        /\ [place[q] EXCEPT !.pc = pc].pc = pc
    BY <2>1 DEF Slot
  <2> QED BY <2>1, <2>2, <2>3
<1>3. Shape'
  <2>1. place' = [q \in DOMAIN place' |-> place'[q]]
    OBVIOUS
  <2> QED BY <1>1, <1>2, <2>1 DEF Shape
<1> QED BY <1>1, <1>2, <1>3

LEMMA StopShape ==
  ASSUME Shape, Stop
  PROVE  /\ Shape' /\ DOMAIN place' = DOMAIN place /\ tail' = tail
         /\ \A q \in DOMAIN place : /\ place'[q].kind = place[q].kind
                                    /\ place'[q].inc = place[q].inc
                                    /\ place'[q].prev = place[q].prev
<1>1. /\ DOMAIN place' = DOMAIN place /\ tail' = tail
      /\ place' = [p \in DOMAIN place |->
                     IF place[p].prev = None THEN place[p] ELSE [place[p] EXCEPT !.pc = "cancelled"]]
  BY DEF Stop
<1>2. ASSUME NEW q \in DOMAIN place
      PROVE  /\ place'[q] \in Slot
             /\ place'[q].prev = place[q].prev /\ place'[q].kind = place[q].kind
             /\ place'[q].inc = place[q].inc
  <2>1. place[q] \in Slot
    BY DEF Shape
  <2>2. /\ [place[q] EXCEPT !.pc = "cancelled"] \in Slot
        /\ [place[q] EXCEPT !.pc = "cancelled"].prev = place[q].prev
        /\ [place[q] EXCEPT !.pc = "cancelled"].kind = place[q].kind
        /\ [place[q] EXCEPT !.pc = "cancelled"].inc = place[q].inc
    BY <2>1 DEF Slot
  <2>3. place'[q] = IF place[q].prev = None THEN place[q] ELSE [place[q] EXCEPT !.pc = "cancelled"]
    BY <1>1
  <2> QED BY <2>1, <2>2, <2>3
<1>3. place' = [q \in DOMAIN place' |-> place'[q]]
  BY <1>1
<1>4. Shape'
  BY <1>1, <1>2, <1>3 DEF Shape
<1> QED BY <1>1, <1>2, <1>4

-----------------------------------------------------------------------------
(* The line: its order.  While the backend runs, the places form one chain:  *)
(* the first waits for nothing, the last is the tail.                        *)

Chain(n, s) ==
  /\ s \in [1 .. n -> DOMAIN place]
  /\ \A i, j \in 1 .. n : s[i] = s[j] => i = j
  /\ \A p \in DOMAIN place : \E i \in 1 .. n : s[i] = p
  /\ tail = IF n = 0 THEN None ELSE s[n]
  /\ \A i \in 1 .. n : place[s[i]].prev = IF i = 1 THEN None ELSE s[i - 1]

Straight == \E n \in Nat : \E s \in [1 .. n -> Places] : Chain(n, s)

LEMMA HeadFirst ==
  ASSUME NEW n \in Nat, NEW s, Chain(n, s), None \notin DOMAIN place,
         NEW p \in DOMAIN place, place[p].prev = None
  PROVE  n # 0 /\ 1 \in 1 .. n /\ n \in 1 .. n /\ p = s[1]
<1>1. PICK i \in 1 .. n : s[i] = p
  BY DEF Chain
<1>2. place[s[i]].prev = IF i = 1 THEN None ELSE s[i - 1]
  BY <1>1 DEF Chain
<1>3. i # 1 => i - 1 \in 1 .. n
  BY <1>1
<1>4. \A j \in 1 .. n : s[j] \in DOMAIN place
  BY DEF Chain
<1>5. i = 1
  BY <1>1, <1>2, <1>3, <1>4
<1> QED BY <1>1, <1>5

LEMMA OneHead ==
  ASSUME Straight, Shape
  PROVE  /\ \A p, q \in DOMAIN place : place[p].prev = None /\ place[q].prev = None => p = q
         /\ tail = None => DOMAIN place = {}
         /\ tail # None => tail \in DOMAIN place
         /\ \A p \in DOMAIN place : place[p].prev = None /\ tail = p => DOMAIN place = {p}
<1> PICK n \in Nat : \E s \in [1 .. n -> Places] : Chain(n, s)
  BY DEF Straight
<1>1. PICK s \in [1 .. n -> Places] : Chain(n, s)
  OBVIOUS
<1>2. None \notin DOMAIN place
  BY PlacesAre DEF Shape
<1>3. \A p \in DOMAIN place : place[p].prev = None =>
        n # 0 /\ 1 \in 1 .. n /\ n \in 1 .. n /\ p = s[1]
  BY <1>1, <1>2, HeadFirst
<1>4. n # 0 => n \in 1 .. n /\ s[n] \in DOMAIN place /\ tail = s[n]
  BY <1>1 DEF Chain
<1>5. tail = None => DOMAIN place = {}
  <2>1. tail = None => n = 0
    BY <1>2, <1>4
  <2>2. n = 0 => \A i \in 1 .. n : FALSE
    OBVIOUS
  <2>3. \A p \in DOMAIN place : \E i \in 1 .. n : s[i] = p
    BY <1>1 DEF Chain
  <2> QED BY <2>1, <2>2, <2>3
<1>6. ASSUME NEW p \in DOMAIN place, place[p].prev = None, tail = p
      PROVE  DOMAIN place = {p}
  <2>1. s[1] = s[n] /\ 1 \in 1 .. n /\ n \in 1 .. n /\ p = s[1]
    BY <1>3, <1>4, <1>6
  <2>2. n = 1
    BY <1>1, <2>1 DEF Chain
  <2>3. \A q \in DOMAIN place : \E i \in 1 .. n : s[i] = q
    BY <1>1 DEF Chain
  <2>4. \A q \in DOMAIN place : q = p
    BY <2>1, <2>2, <2>3
  <2> QED BY <2>4
<1>7. \A p, q \in DOMAIN place : place[p].prev = None /\ place[q].prev = None => p = q
  BY <1>3
<1>8. tail # None => tail \in DOMAIN place
  BY DEF Shape
<1> QED BY <1>5, <1>6, <1>7, <1>8

LEMMA EmptyStraight ==
  ASSUME DOMAIN place = {}, tail = None
  PROVE  Straight
<1> DEFINE s == [i \in 1 .. 0 |-> 0]
<1>1. Chain(0, s) /\ s \in [1 .. 0 -> Places]
  BY DEF Chain
<1> QED BY <1>1 DEF Straight

LEMMA StraightOnceEmpty ==
  ASSUME DOMAIN place' = {}, tail' = None
  PROVE  Straight'
<1> PICK s : s = [i \in 1 .. 0 |-> 0]
  OBVIOUS
<1>1. Chain(0, s)' /\ s \in [1 .. 0 -> Places]
  BY DEF Chain
<1> QED BY <1>1 DEF Straight

LEMMA EnqueueChain ==
  ASSUME NEW n \in Nat, NEW s \in [1 .. n -> Places], Chain(n, s),
         NEW x \in Places, x \notin DOMAIN place,
         DOMAIN place' = DOMAIN place \cup {x}, tail' = x, place'[x].prev = tail,
         \A p \in DOMAIN place : place'[p] = place[p]
  PROVE  \E t \in [1 .. n + 1 -> Places] :
           /\ Chain(n + 1, t)'
           /\ t[n + 1] = x /\ \A i \in 1 .. n : t[i] = s[i]
<1> PICK t : t = [i \in 1 .. n + 1 |-> IF i = n + 1 THEN x ELSE s[i]]
  OBVIOUS
<1>3. /\ \A i \in 1 .. n : i \in 1 .. n + 1 /\ i # n + 1 /\ s[i] \in DOMAIN place
      /\ \A i \in 1 .. n + 1 : i # n + 1 => i \in 1 .. n
      /\ n + 1 \in 1 .. n + 1 /\ n + 1 # 0
      /\ n \in Nat /\ (n # 0 => n \in 1 .. n)
  BY DEF Chain
<1>4. t \in [1 .. n + 1 -> DOMAIN place'] /\ t \in [1 .. n + 1 -> Places]
  BY <1>3 DEF Chain
<1>5. /\ t[n + 1] = x /\ \A i \in 1 .. n : t[i] = s[i]
  BY <1>3
<1>6. \A i, j \in 1 .. n + 1 : t[i] = t[j] => i = j
  <2>1. \A i, j \in 1 .. n : s[i] = s[j] => i = j
    BY DEF Chain
  <2>2. \A i \in 1 .. n + 1 : i = n + 1 \/ (i \in 1 .. n /\ t[i] = s[i] /\ t[i] \in DOMAIN place)
    BY <1>3, <1>5
  <2>3. x \notin DOMAIN place
    OBVIOUS
  <2> QED BY <1>5, <2>1, <2>2, <2>3
<1>7. \A p \in DOMAIN place' : \E i \in 1 .. n + 1 : t[i] = p
  <2>1. TAKE p \in DOMAIN place'
  <2>2. CASE p = x
    BY <1>3, <1>5, <2>2
  <2>3. CASE p # x
    <3>1. p \in DOMAIN place
      BY <2>3
    <3>2. PICK i \in 1 .. n : s[i] = p
      BY <3>1 DEF Chain
    <3> QED BY <1>3, <1>5, <3>2
  <2> QED BY <2>2, <2>3
<1>8. \A i \in 1 .. n + 1 : place'[t[i]].prev = IF i = 1 THEN None ELSE t[i - 1]
  <2>1. TAKE i \in 1 .. n + 1
  <2>2. CASE i = n + 1
    <3>1. place'[t[i]].prev = tail
      BY <1>5, <2>2
    <3>2. CASE n = 0
      BY <2>2, <3>1, <3>2 DEF Chain
    <3>3. CASE n # 0
      <4>1. tail = s[n] /\ i - 1 = n /\ i # 1
        BY <2>2, <3>3 DEF Chain
      <4> QED BY <1>3, <1>5, <3>1, <3>3, <4>1
    <3> QED BY <3>2, <3>3
  <2>3. CASE i # n + 1
    <3>1. i \in 1 .. n /\ t[i] = s[i] /\ s[i] \in DOMAIN place
      BY <1>3, <1>5, <2>3
    <3>2. place'[t[i]].prev = IF i = 1 THEN None ELSE s[i - 1]
      BY <3>1 DEF Chain
    <3>3. i # 1 => i - 1 \in 1 .. n
      BY <3>1
    <3> QED BY <1>5, <3>2, <3>3
  <2> QED BY <2>2, <2>3
<1>9. tail' = IF n + 1 = 0 THEN None ELSE t[n + 1]
  BY <1>3, <1>5
<1>10. Chain(n + 1, t)'
  BY <1>4, <1>6, <1>7, <1>8, <1>9 DEF Chain
<1> QED BY <1>4, <1>5, <1>10

LEMMA EnqueueStraight ==
  ASSUME Straight, Free \in Places, Free \notin DOMAIN place,
         DOMAIN place' = DOMAIN place \cup {Free}, tail' = Free, place'[Free].prev = tail,
         \A p \in DOMAIN place : place'[p] = place[p]
  PROVE  Straight'
<1> PICK n \in Nat : \E s \in [1 .. n -> Places] : Chain(n, s)
  BY DEF Straight
<1>1. PICK s \in [1 .. n -> Places] : Chain(n, s)
  OBVIOUS
<1>2. PICK x \in Places : x = Free
  OBVIOUS
<1>3. \E t \in [1 .. n + 1 -> Places] : Chain(n + 1, t)'
  BY <1>1, <1>2, EnqueueChain
<1>4. n + 1 \in Nat
  OBVIOUS
<1> QED BY <1>3, <1>4 DEF Straight

LEMMA ReleaseChain ==
  ASSUME NEW n \in Nat, NEW s \in [1 .. n -> Places], Chain(n, s), Shape,
         NEW p \in DOMAIN place, place[p].prev = None,
         DOMAIN place' = DOMAIN place \ {p}, tail' = IF tail = p THEN None ELSE tail,
         \A q \in DOMAIN place' : place'[q].prev = IF place[q].prev = p THEN None ELSE place[q].prev
  PROVE  /\ n - 1 \in Nat /\ \A i \in 1 .. n - 1 : i + 1 \in 1 .. n
         /\ \E t \in [1 .. n - 1 -> Places] :
              /\ Chain(n - 1, t)'
              /\ \A i \in 1 .. n - 1 : t[i] = s[i + 1]
<1>2. None \notin DOMAIN place
  BY PlacesAre DEF Shape
<1>3. n # 0 /\ p = s[1]
  BY <1>2, HeadFirst
<1> DEFINE m == n - 1
<1> PICK t : t = [i \in 1 .. m |-> s[i + 1]]
  OBVIOUS
<1>4. /\ m \in Nat /\ n = m + 1 /\ 1 \in 1 .. n /\ n \in 1 .. n
      /\ \A i \in 1 .. m : i + 1 \in 1 .. n /\ i + 1 # 1 /\ s[i + 1] \in DOMAIN place
      /\ \A i \in 1 .. n : i # 1 => i - 1 \in 1 .. m /\ (i - 1) + 1 = i
  <2>1. \A i \in 1 .. n : s[i] \in DOMAIN place
    BY DEF Chain
  <2>2. n \in Nat \ {0}
    BY <1>3
  <2> QED BY <2>1, <2>2
<1>5. \A i \in 1 .. m : t[i] = s[i + 1]
  OBVIOUS
<1>6. \A i \in 1 .. m : s[i + 1] # p
  BY <1>3, <1>4 DEF Chain
<1>7. t \in [1 .. m -> DOMAIN place'] /\ t \in [1 .. m -> Places]
  BY <1>4, <1>6 DEF Chain
<1> HIDE DEF m
<1>8. \A i, j \in 1 .. m : t[i] = t[j] => i = j
  <2>1. TAKE i, j \in 1 .. m
  <2>2. t[i] = t[j] => i + 1 = j + 1
    BY <1>4, <1>5 DEF Chain
  <2> QED BY <1>4, <2>2
<1>9. \A q \in DOMAIN place' : \E i \in 1 .. m : t[i] = q
  <2>1. TAKE q \in DOMAIN place'
  <2>2. PICK i \in 1 .. n : s[i] = q
    BY DEF Chain
  <2>3. i # 1
    BY <1>3, <2>2
  <2>4. i - 1 \in 1 .. m /\ t[i - 1] = q
    BY <1>4, <1>5, <2>2, <2>3
  <2> QED BY <2>4
<1>10. \A i \in 1 .. m : place'[t[i]].prev = IF i = 1 THEN None ELSE t[i - 1]
  <2>1. TAKE i \in 1 .. m
  <2>2. t[i] = s[i + 1] /\ i + 1 \in 1 .. n /\ i + 1 # 1 /\ (i + 1) - 1 = i /\ t[i] \in DOMAIN place'
    BY <1>4, <1>5, <1>7
  <2>3. place[t[i]].prev = s[i]
    BY <2>2 DEF Chain
  <2>4. CASE i = 1
    BY <1>3, <2>2, <2>3, <2>4
  <2>5. CASE i # 1
    <3>1. i - 1 \in 1 .. m /\ (i - 1) + 1 = i
      BY <1>4, <2>5
    <3>2. t[i - 1] = s[i] /\ s[i] # p
      BY <1>5, <1>6, <3>1
    <3> QED BY <2>2, <2>3, <2>5, <3>2
  <2> QED BY <2>4, <2>5
<1>11. tail' = IF m = 0 THEN None ELSE t[m]
  <2>1. tail = s[n]
    BY <1>3 DEF Chain
  <2>2. CASE m = 0
    BY <1>3, <1>4, <2>1, <2>2
  <2>3. CASE m # 0
    <3>1. m \in 1 .. m
      BY <1>4, <2>3
    <3>2. t[m] = s[n] /\ s[n] # p
      BY <1>4, <1>5, <1>6, <3>1
    <3> QED BY <2>1, <2>3, <3>2
  <2> QED BY <2>2, <2>3
<1>12. Chain(m, t)'
  BY <1>7, <1>8, <1>9, <1>10, <1>11 DEF Chain
<1> QED BY <1>4, <1>5, <1>7, <1>12 DEF m

LEMMA ReleaseStraight ==
  ASSUME Straight, Shape, NEW p \in DOMAIN place, place[p].prev = None,
         DOMAIN place' = DOMAIN place \ {p}, tail' = IF tail = p THEN None ELSE tail,
         \A q \in DOMAIN place' : place'[q].prev = IF place[q].prev = p THEN None ELSE place[q].prev
  PROVE  Straight'
<1> PICK n \in Nat : \E s \in [1 .. n -> Places] : Chain(n, s)
  BY DEF Straight
<1>1. PICK s \in [1 .. n -> Places] : Chain(n, s)
  OBVIOUS
<1>2. n - 1 \in Nat /\ \E t \in [1 .. n - 1 -> Places] : Chain(n - 1, t)'
  BY <1>1, ReleaseChain
<1> QED BY <1>2 DEF Straight

LEMMA SameStraight ==
  ASSUME Straight, DOMAIN place' = DOMAIN place, tail' = tail,
         \A q \in DOMAIN place : place'[q].prev = place[q].prev
  PROVE  Straight'
<1> PICK n \in Nat : \E s \in [1 .. n -> Places] : Chain(n, s)
  BY DEF Straight
<1>1. PICK s \in [1 .. n -> Places] : Chain(n, s)
  OBVIOUS
<1>2. Chain(n, s)'
  BY <1>1 DEF Chain
<1> QED BY <1>2 DEF Straight

-----------------------------------------------------------------------------
(* The invariant: what the handlers hold.                                  *)

Debt == [inc : Incidents, old : BOOLEAN]

RepStates ==
  {Idle} \cup [pc : {"got"}, read : Row, seen : Seen] \cup [pc : {"hard"}]
    \cup [pc : {"recovered"}, read : Row, seen : Seen, known : BOOLEAN]
    \cup [pc : {"enqueue"}, kind : {"card", "recovery"}, known : BOOLEAN]

PersonStates == {Idle} \cup [pc : {"silence", "ack"}, read : Row]

PollStates ==
  [pc : {"idle", "select", "read"}]
    \cup [pc : {"debt", "drop", "take"}, debt : Debt]
    \cup [pc : {"reply", "replied", "clear"}, debt : Debt, at : Places]
    \cup [pc : {"try", "remind", "bump"}, inc : 0 .. MaxIncidents]
    \cup [pc : {"reread"}, inc : 0 .. MaxIncidents, at : Places]
    \cup [pc : {"card"}, inc : Incidents, at : Places]
    \cup [pc : {"mark"}, inc : 0 .. MaxIncidents, at : Places, outcome : Outcomes]

HoldsPlace == {"reply", "replied", "clear", "reread", "card", "mark"}

\* A read may be stale, but it was a row, and an incident it saw was one.
RepFits ==
  /\ rep \in RepStates
  /\ rep.pc \in {"got", "recovered"} => MarkFits(rep.read)
  /\ rep.pc = "got" /\ rep.read.status = "hard" => incident \in Incidents
  /\ rep.pc = "got" /\ rep.seen = "fail" /\ rep.read.status # "hard" => incident < MaxIncidents
  /\ rep.pc = "recovered" => Transition(rep.read, rep.seen).kind = "recovery"
  /\ rep.pc \in {"hard", "recovered", "enqueue"} => incident \in Incidents

PersonFits ==
  /\ person \in PersonStates
  /\ person.pc # "idle" => MarkFits(person.read)
  /\ person.pc # "idle" /\ person.read.status = "hard" => incident \in Incidents

RowFits ==
  /\ GoodRow(row)
  /\ row.status = "hard" => incident \in Incidents

RestFits ==
  /\ poll \in PollStates
  /\ msgs \in 0 .. MaxIncidents /\ owed \in {NoDebt} \cup Debt
  /\ incident \in 0 .. MaxIncidents /\ carded \cup closed \subseteq Incidents
  /\ told \in BOOLEAN /\ lost \in BOOLEAN /\ heard \in {"card", "recovery", "none"}
  /\ phase \in {"up", "stopping"}
  /\ stops \in 0 .. MaxStops /\ kills \in 0 .. MaxKills

\* The report at work will put at most one delivery in the line, and the pass
\* has one place there, or none: so there is always a place to take.
Committed ==
  \/ rep.pc \in {"hard", "recovered", "enqueue"}
  \/ rep.pc = "got" /\ Transition(rep.read, rep.seen).kind \in {"hard", "recovery"}

RoomFits ==
  /\ Passes = IF poll.pc \in HoldsPlace THEN {poll.at} ELSE {}
  /\ Cardinality(Others) + (IF Committed THEN 1 ELSE 0) <= 2 * MaxIncidents

Fits == RepFits /\ PersonFits /\ RowFits /\ RestFits /\ Shape /\ RoomFits

\* While the backend runs, the line is one chain, only its first works, and
\* the pass works only as the first.
InLine ==
  phase = "up" =>
    /\ Straight
    /\ \A p \in DOMAIN place : place[p].prev # None => place[p].pc = "waiting"
    /\ \A p \in DOMAIN place : place[p].pc # "cancelled"
    /\ poll.pc \in HoldsPlace => place[poll.at].prev = None

\* No update of the row was lost and the backend never ended.
Calm == ~lost /\ stops = MaxStops /\ kills = MaxKills

\* The recovery of the last incident is on its way.
RecoveryOut ==
  \/ rep.pc = "enqueue" /\ rep.kind = "recovery"
  \/ tail \in DOMAIN place /\ place[tail].kind = "recovery" /\ place[tail].inc = incident

OnlyPass == DOMAIN place = {} \/ (poll.pc \in HoldsPlace /\ DOMAIN place = {poll.at})

\* After an incident has ended, its recovery is on its way, or nothing but the
\* pass is; and the pass sends a card only of an incident that is on, or before
\* the recovery that waits behind it.
Answered ==
  Calm =>
    /\ phase = "up"
    /\ rep.pc = "hard" \/ (rep.pc = "enqueue" /\ rep.kind = "card") => row.status = "hard"
    /\ row.status # "hard" => RecoveryOut \/ OnlyPass
    /\ poll.pc = "card" => row.status = "hard" \/ RecoveryOut
    /\ poll.pc = "replied" => heard # "card"
    /\ row.status # "hard" /\ msgs # None /\ heard = "card" =>
         RecoveryOut \/ (owed # NoDebt /\ owed.inc = incident)

AlertInv == Fits /\ InLine /\ Answered

-----------------------------------------------------------------------------
(* Which states the handlers and the pass are in.                          *)

LEMMA RepIs ==
  ASSUME rep \in RepStates
  PROVE  /\ rep.pc = "idle" <=> rep = Idle
         /\ rep.pc = "got" => rep.read \in Row /\ rep.seen \in Seen
                              /\ rep = [pc |-> "got", read |-> rep.read, seen |-> rep.seen]
         /\ rep.pc = "recovered" =>
              /\ rep.read \in Row /\ rep.seen \in Seen /\ rep.known \in BOOLEAN
              /\ rep = [pc |-> "recovered", read |-> rep.read, seen |-> rep.seen, known |-> rep.known]
         /\ rep.pc = "enqueue" => rep.kind \in {"card", "recovery"} /\ rep.known \in BOOLEAN
         /\ "read" \in DOMAIN rep <=> rep.pc \in {"got", "recovered"}
BY DEF RepStates, Idle

LEMMA PersonIs ==
  ASSUME person \in PersonStates
  PROVE  /\ person.pc = "idle" <=> person = Idle
         /\ person # Idle => person.read \in Row /\ person.pc \in {"silence", "ack"}
                             /\ person = [pc |-> person.pc, read |-> person.read]
         /\ "read" \in DOMAIN person <=> person # Idle
BY DEF PersonStates, Idle

LEMMA PollIs ==
  ASSUME poll \in PollStates
  PROVE  /\ poll.pc = "idle" <=> poll = Idle
         /\ poll.pc \in {"debt", "drop", "take"} =>
              poll.debt \in Debt /\ poll = [pc |-> poll.pc, debt |-> poll.debt]
         /\ poll.pc \in {"reply", "replied", "clear"} =>
              /\ poll.debt \in Debt /\ poll.at \in Places
              /\ poll = [pc |-> poll.pc, debt |-> poll.debt, at |-> poll.at]
         /\ poll.pc \in {"try", "remind", "bump", "reread", "mark"} => poll.inc \in 0 .. MaxIncidents
         /\ poll.pc = "card" => poll.inc \in Incidents
         /\ poll.pc \in HoldsPlace => poll.at \in Places
         /\ poll.pc = "reread" => poll = [pc |-> "reread", inc |-> poll.inc, at |-> poll.at]
         /\ poll.pc = "mark" => poll.outcome \in Outcomes
BY DEF PollStates, Idle, HoldsPlace

-----------------------------------------------------------------------------
(* Who writes what.                                                        *)

MarkStep == /\ row.status = "hard"
            /\ \E sent \in {"never", "recent"} : row' = [row EXCEPT !.sent = sent]

Ages == ReminderDue \/ SilenceEnds

RowStep == UNCHANGED row \/ MarkStep \/ ReportSave \/ ReportHard \/ ReportRecovery \/ PressSave \/ Ages
RepStep == UNCHANGED rep \/ (\E seen \in Seen : ReportGet(seen)) \/ ReportStep \/ Ages \/ Kill
PersonStep == UNCHANGED person \/ (\E button \in Buttons : PressGet(button)) \/ PressSave \/ Ages \/ Kill
PassStep == UNCHANGED poll \/ PollStart \/ PollStep \/ Kill
IncidentStep == UNCHANGED incident \/ ReportHard

LEMMA DeliveryKeeps ==
  ASSUME NEW p \in DOMAIN place, Delivery(p)
  PROVE  UNCHANGED <<rep, person, poll, incident, phase, stops, kills>> /\ (UNCHANGED row \/ MarkStep)
<1>1. ASSUME NEW outcome \in Outcomes, DeliverCard(p, outcome)
      PROVE  UNCHANGED <<rep, person, poll, incident, phase, stops, kills>> /\ UNCHANGED row
  BY <1>1 DEF DeliverCard, SendCard, hands, world
<1>2. ASSUME NEW ok \in BOOLEAN, DeliverRecovery(p, ok)
      PROVE  UNCHANGED <<rep, person, poll, incident, phase, stops, kills>> /\ UNCHANGED row
  BY <1>2 DEF DeliverRecovery, hands, world, db
<1>3. ASSUME FinishCard(p)
      PROVE  UNCHANGED <<rep, person, poll, incident, phase, stops, kills>> /\ (UNCHANGED row \/ MarkStep)
  BY <1>3 DEF FinishCard, MarkCard, ClearLastAlertAt, BumpLastAlertAt, Mark, MarkStep, hands, world
<1>4. ASSUME FinishRecovery(p)
      PROVE  UNCHANGED <<rep, person, poll, incident, phase, stops, kills>> /\ UNCHANGED row
  BY <1>4 DEF FinishRecovery, hands, world, history
<1> QED BY <1>1, <1>2, <1>3, <1>4 DEF Delivery

LEMMA PollKeeps ==
  ASSUME PollStep
  PROVE  UNCHANGED <<rep, person, incident, phase, stops, kills>> /\ (UNCHANGED row \/ MarkStep)
<1> USE DEF db, history, world
<1>1. ASSUME PollDebtState \/ PollDebtDrop \/ PollDebtTake \/ PollDebtDelete \/ PollDebtClear
      PROVE  UNCHANGED <<rep, person, incident, phase, stops, kills>> /\ UNCHANGED row
  BY <1>1 DEF PollDebtState, PollDebtDrop, PollDebtTake, PollDebtDelete, PollDebtClear
<1>2. ASSUME PollSelect \/ PollRead \/ PollTake \/ PollReread
      PROVE  UNCHANGED <<rep, person, incident, phase, stops, kills>> /\ UNCHANGED row
  BY <1>2 DEF PollSelect, PollRead, PollTake, PollReread
<1>3. ASSUME PollMark \/ PollBump
      PROVE  UNCHANGED <<rep, person, incident, phase, stops, kills>> /\ (UNCHANGED row \/ MarkStep)
  BY <1>3 DEF PollMark, PollBump, MarkCard, ClearLastAlertAt, BumpLastAlertAt, Mark, MarkStep
<1>4. ASSUME NEW ok \in BOOLEAN, PollReply(ok) \/ PollRemind(ok)
      PROVE  UNCHANGED <<rep, person, incident, phase, stops, kills>> /\ UNCHANGED row
  BY <1>4 DEF PollReply, PollRemind
<1>5. ASSUME NEW outcome \in Outcomes, PollCard(outcome)
      PROVE  UNCHANGED <<rep, person, incident, phase, stops, kills>> /\ UNCHANGED row
  BY <1>5 DEF PollCard
<1> QED BY <1>1, <1>2, <1>3, <1>4, <1>5 DEF PollStep

LEMMA Frames ==
  ASSUME Next
  PROVE  RowStep /\ RepStep /\ PersonStep /\ PassStep /\ IncidentStep
<1> USE DEF RowStep, RepStep, PersonStep, PassStep, IncidentStep, Ages
<1>1. CASE \E seen \in Seen : ReportGet(seen)
  BY <1>1 DEF ReportGet, db, history
<1>2. CASE ReportStep
  <2>1. UNCHANGED <<person, poll>> /\ IncidentStep
    BY <1>2 DEF ReportStep, ReportSave, ReportHard, ReportDropDebt, ReportReread, ReportRecovery,
                ReportEnqueue, history
  <2>2. RowStep
    BY <1>2 DEF ReportStep, ReportDropDebt, ReportReread, ReportEnqueue, db
  <2> QED BY <1>2, <2>1, <2>2
<1>3. CASE \E p \in DOMAIN place : Delivery(p)
  BY <1>3, DeliveryKeeps
<1>4. CASE PollStart
  BY <1>4 DEF PollStart, db, history
<1>5. CASE PollStep
  BY <1>5, PollKeeps
<1>6. CASE \E button \in Buttons : PressGet(button)
  BY <1>6 DEF PressGet, db, history
<1>7. CASE PressSave
  BY <1>7 DEF PressSave
<1>8. CASE ReminderDue \/ SilenceEnds
  BY <1>8 DEF ReminderDue, SilenceEnds, Aging, history
<1>9. CASE DebtAges
  BY <1>9 DEF DebtAges, hands, history
<1>10. CASE Stop
  BY <1>10 DEF Stop, db, hands, history
<1>11. CASE Restart
  BY <1>11 DEF Restart, db, hands, history
<1>12. CASE Kill
  BY <1>12 DEF Kill, db, history
<1> QED BY <1>1, <1>2, <1>3, <1>4, <1>5, <1>6, <1>7, <1>8, <1>9, <1>10, <1>11, <1>12 DEF Next, Seen

-----------------------------------------------------------------------------
(* The handlers keep what they hold.                                       *)

LEMMA IncidentKeeps ==
  ASSUME RepFits, RestFits, IncidentStep
  PROVE  /\ incident' \in 0 .. MaxIncidents
         /\ incident \in Incidents => incident' \in Incidents
         /\ ReportHard => incident' \in Incidents
<1>1. CASE UNCHANGED incident /\ ~ReportHard
  BY <1>1 DEF RestFits
<1>2. CASE ReportHard
  <2>1. rep.pc = "got" /\ Transition(rep.read, rep.seen).kind = "hard" /\ incident' = incident + 1
    BY <1>2 DEF ReportHard
  <2>2. rep.read \in Row /\ rep.seen \in Seen /\ GoodRow(rep.read)
    BY <2>1, RepIs DEF RepFits, GoodRow
  <2>3. rep.seen = "fail" /\ rep.read.status = "fail"
    BY <2>1, <2>2, TransitionFacts
  <2>4. incident < MaxIncidents /\ incident \in 0 .. MaxIncidents /\ MaxIncidents \in Nat
    BY <2>1, <2>3, AlertConstants DEF RepFits, RestFits
  <2> QED BY <2>1, <2>4 DEF Incidents
<1> QED BY <1>1, <1>2 DEF IncidentStep

LEMMA RowKeeps ==
  ASSUME Fits, RowStep, IncidentStep
  PROVE  RowFits'
<1>1. RepFits /\ PersonFits /\ RestFits /\ GoodRow(row) /\ (row.status = "hard" => incident \in Incidents)
  BY DEF Fits, RowFits
<1>2. incident \in Incidents => incident' \in Incidents
  BY <1>1, IncidentKeeps
<1>3. rep.pc = "got" => rep.read \in Row /\ rep.seen \in Seen /\ GoodRow(rep.read)
  BY <1>1, RepIs DEF RepFits, GoodRow
<1> SUFFICES GoodRow(row') /\ (row'.status = "hard" => incident' \in Incidents)
  BY DEF RowFits, GoodRow, MarkFits
<1>4. CASE UNCHANGED row
  BY <1>1, <1>2, <1>4
<1>5. CASE MarkStep
  <2>1. PICK sent \in {"never", "recent"} : row' = [row EXCEPT !.sent = sent]
    BY <1>5 DEF MarkStep
  <2>2. row \in Row /\ row.status = "hard"
    BY <1>1, <1>5 DEF MarkStep, GoodRow
  <2>3. row' \in Row /\ row'.status = "hard"
    BY <2>1, <2>2 DEF Row
  <2> QED BY <1>1, <1>2, <2>2, <2>3 DEF GoodRow, MarkFits
<1>6. CASE ReportSave
  <2>1. /\ rep.pc = "got" /\ row' = Transition(rep.read, rep.seen).next
        /\ Transition(rep.read, rep.seen).kind \in {"noop", "soft", "soft_flap"}
    BY <1>6 DEF ReportSave, Save
  <2>2. GoodRow(row') /\ (row'.status = "hard" => rep.read.status = "hard")
    BY <1>3, <2>1, TransitionFacts DEF GoodRow
  <2> QED BY <1>1, <1>2, <2>1, <2>2 DEF RepFits
<1>7. CASE ReportHard
  <2>1. /\ rep.pc = "got" /\ row' = Transition(rep.read, rep.seen).next
        /\ Transition(rep.read, rep.seen).kind = "hard"
    BY <1>7 DEF ReportHard, Save
  <2>2. GoodRow(row')
    BY <1>3, <2>1, TransitionFacts DEF GoodRow
  <2> QED BY <1>1, <1>7, <2>2, IncidentKeeps
<1>8. CASE ReportRecovery
  <2> DEFINE next == Transition(rep.read, rep.seen).next
  <2>1. /\ rep.pc = "recovered" /\ row' = [next EXCEPT !.sent = "never"]
    BY <1>8 DEF ReportRecovery, Save
  <2>2. /\ rep.read \in Row /\ rep.seen \in Seen /\ GoodRow(rep.read)
        /\ Transition(rep.read, rep.seen).kind = "recovery"
    BY <1>1, <2>1, RepIs DEF RepFits, GoodRow
  <2>3. next \in Row /\ next.status = "ok"
    BY <2>2, TransitionFacts
  <2> HIDE DEF next
  <2>4. row' \in Row /\ row'.sent = "never" /\ row'.status = "ok"
    BY <2>1, <2>3, RowFields
  <2> QED BY <2>4 DEF GoodRow, MarkFits
<1>9. CASE PressSave
  <2>1. /\ person # Idle
        /\ row' = IF person.pc = "silence" THEN [person.read EXCEPT !.silence = "on"]
                  ELSE [person.read EXCEPT !.acked = TRUE]
    BY <1>9 DEF PressSave, Save, ApplySilence, ApplyAck
  <2>2. person.read \in Row /\ MarkFits(person.read) /\ person.pc # "idle"
    BY <1>1, <2>1, PersonIs DEF PersonFits
  <2>3. row' \in Row /\ row'.sent = person.read.sent /\ row'.status = person.read.status
    BY <2>1, <2>2, RowFields
  <2> QED BY <1>1, <1>2, <2>2, <2>3 DEF GoodRow, MarkFits, PersonFits
<1>10. CASE Ages
  <2>1. row' \in {Older(row), Quieter(row)}
    BY <1>10, Zenon DEF Ages, ReminderDue, SilenceEnds, Aging, Older, Quieter
  <2> QED BY <1>1, <1>2, <2>1, AgedRow DEF GoodRow
<1> QED BY <1>4, <1>5, <1>6, <1>7, <1>8, <1>9, <1>10 DEF RowStep

LEMMA PersonKeeps ==
  ASSUME Fits, PersonStep, IncidentStep
  PROVE  PersonFits'
<1>1. PersonFits /\ RowFits /\ (incident \in Incidents => incident' \in Incidents)
  BY IncidentKeeps DEF Fits
<1>2. PersonFits <=> /\ person \in PersonStates
                     /\ person # Idle => MarkFits(person.read)
                     /\ person # Idle /\ person.read.status = "hard" => incident \in Incidents
  BY PersonIs DEF PersonFits
<1> SUFFICES /\ person' \in PersonStates
             /\ person' # Idle => MarkFits(person'.read)
             /\ person' # Idle /\ person'.read.status = "hard" => incident' \in Incidents
  BY DEF PersonFits, PersonStates, MarkFits, Idle
<1>3. CASE UNCHANGED person
  BY <1>1, <1>2, <1>3
<1>4. CASE (\E button \in Buttons : PressGet(button))
  <2>1. PICK button \in Buttons : person' = [pc |-> button, read |-> row]
    BY <1>4 DEF PressGet
  <2>2. UNCHANGED incident
    BY <1>4 DEF PressGet, history
  <2> QED BY <1>1, <2>1, <2>2, AlertConstants DEF RowFits, GoodRow, PersonStates, MarkFits
<1>5. CASE PressSave \/ Kill
  BY <1>5 DEF PressSave, Kill, PersonStates
<1>6. CASE Ages
  <2>1. CASE person = Idle
    BY <1>6, <2>1 DEF Ages, ReminderDue, SilenceEnds, Aging, PersonStates
  <2>2. CASE person # Idle
    <3>1. person.read \in Row /\ person.pc \in {"silence", "ack"} /\ person \in PersonStates
          /\ person = [pc |-> person.pc, read |-> person.read] /\ MarkFits(person.read)
      BY <1>1, <1>2, <2>2, PersonIs
    <3>2. PICK x \in {Older(person.read), Quieter(person.read)} : person' = [person EXCEPT !.read = x]
      BY <1>6, <2>2, Zenon DEF Ages, ReminderDue, SilenceEnds, Aging, Older, Quieter
    <3>3. x \in Row /\ x.status = person.read.status /\ MarkFits(x)
      BY <3>1, <3>2, AgedRow
    <3>4. person' = [pc |-> person.pc, read |-> x]
      BY <3>1, <3>2
    <3> QED BY <1>1, <1>2, <2>2, <3>1, <3>3, <3>4 DEF PersonStates
  <2> QED BY <2>1, <2>2
<1> QED BY <1>3, <1>4, <1>5, <1>6 DEF PersonStep

LEMMA RepKeeps ==
  ASSUME Fits, RepStep, IncidentStep
  PROVE  RepFits'
<1>1. RepFits /\ RowFits /\ RestFits /\ (incident \in Incidents => incident' \in Incidents)
  BY IncidentKeeps DEF Fits
<1>2. CASE UNCHANGED rep
  <2>1. CASE UNCHANGED incident
    BY <1>1, <1>2, <2>1 DEF RepFits, MarkFits
  <2>2. CASE ReportHard
    BY <1>2, <2>2 DEF ReportHard
  <2> QED BY <2>1, <2>2 DEF IncidentStep
<1>3. CASE \E seen \in Seen : ReportGet(seen)
  <2>1. PICK seen \in Seen : /\ rep' = [pc |-> "got", read |-> row, seen |-> seen]
                             /\ seen = "fail" /\ row.status # "hard" => incident < MaxIncidents
                             /\ UNCHANGED incident
    BY <1>3 DEF ReportGet, history
  <2>2. rep' \in RepStates
    BY <1>1, <2>1 DEF RepStates, RowFits, GoodRow
  <2> QED BY <1>1, <2>1, <2>2 DEF RepFits, RowFits, GoodRow, MarkFits
<1>4. CASE ReportSave \/ ReportEnqueue \/ Kill
  <2>1. rep' = Idle
    BY <1>4 DEF ReportSave, ReportEnqueue, Kill
  <2> QED BY <2>1 DEF RepFits, RepStates, Idle
<1>5. CASE ReportHard
  <2>1. rep' = [pc |-> "hard"] /\ incident' \in Incidents
    BY <1>1, <1>5, IncidentKeeps DEF ReportHard
  <2> QED BY <2>1 DEF RepFits, RepStates
<1>6. CASE ReportDropDebt
  <2>1. rep' = [pc |-> "enqueue", kind |-> "card", known |-> TRUE] /\ incident' \in Incidents
    BY <1>1, <1>6 DEF ReportDropDebt, RepFits
  <2> QED BY <2>1 DEF RepFits, RepStates
<1>7. CASE ReportReread
  <2>1. /\ rep' = [pc |-> "recovered", read |-> rep.read, seen |-> rep.seen, known |-> row.sent # "never"]
        /\ rep.pc = "got" /\ Transition(rep.read, rep.seen).kind = "recovery"
    BY <1>7 DEF ReportReread
  <2>2. rep.read \in Row /\ rep.seen \in Seen /\ GoodRow(rep.read)
    BY <1>1, <2>1, RepIs DEF RepFits, GoodRow
  <2>3. incident' \in Incidents
    BY <1>1, <2>1, <2>2, TransitionFacts DEF RepFits
  <2>4. rep' \in RepStates
    BY <2>1, <2>2 DEF RepStates
  <2> QED BY <2>1, <2>2, <2>3, <2>4 DEF RepFits, GoodRow, MarkFits
<1>8. CASE ReportRecovery
  <2>1. rep' = [pc |-> "enqueue", kind |-> "recovery", known |-> rep.known] /\ rep.pc = "recovered"
        /\ UNCHANGED incident
    BY <1>8 DEF ReportRecovery
  <2>2. rep' \in RepStates /\ incident' \in Incidents
    BY <1>1, <2>1, RepIs DEF RepStates, RepFits
  <2> QED BY <2>1, <2>2 DEF RepFits
<1>9. CASE Ages
  <2>1. UNCHANGED incident
    BY <1>9 DEF Ages, ReminderDue, SilenceEnds, Aging, history
  <2>2. CASE rep.pc \notin {"got", "recovered"}
    <3>1. rep' = rep
      BY <1>1, <1>9, <2>2, RepIs, Zenon DEF Ages, ReminderDue, SilenceEnds, Aging, RepFits
    <3> QED BY <1>1, <2>1, <2>2, <3>1 DEF RepFits
  <2>3. CASE rep.pc \in {"got", "recovered"}
    <3>1. rep.read \in Row /\ rep.seen \in Seen /\ MarkFits(rep.read) /\ "read" \in DOMAIN rep
      BY <1>1, <2>3, RepIs DEF RepFits
    <3>2. PICK x \in {Older(rep.read), Quieter(rep.read)} : rep' = [rep EXCEPT !.read = x]
      BY <1>9, <3>1, Zenon DEF Ages, ReminderDue, SilenceEnds, Aging, Older, Quieter
    <3>3. /\ x \in Row /\ x.status = rep.read.status /\ MarkFits(x)
          /\ Transition(x, rep.seen).kind = Transition(rep.read, rep.seen).kind
      BY <3>1, <3>2, AgedRow
    <3>4. /\ rep'.pc = rep.pc /\ rep'.read = x /\ rep'.seen = rep.seen /\ rep' \in RepStates
      BY <1>1, <2>3, <3>2, <3>3 DEF RepFits, RepStates, Idle
    <3> QED BY <1>1, <2>1, <2>3, <3>3, <3>4 DEF RepFits, MarkFits
  <2> QED BY <2>2, <2>3
<1> QED BY <1>2, <1>3, <1>4, <1>5, <1>6, <1>7, <1>8, <1>9 DEF RepStep, ReportStep

\* A report is bound to put something in the line only by reading the row.
LEMMA CommittedKeeps ==
  ASSUME Fits, RepStep
  PROVE  Committed' => Committed \/ \E seen \in Seen : ReportGet(seen)
<1>1. CASE UNCHANGED rep
  BY <1>1 DEF Committed
<1>2. CASE ReportStep \/ Kill
  BY <1>2 DEF ReportStep, ReportSave, ReportHard, ReportDropDebt, ReportReread, ReportRecovery,
              ReportEnqueue, Kill, Committed, Idle
<1>3. CASE Ages
  <2>1. RepFits /\ rep \in RepStates
    BY DEF Fits, RepFits
  <2>2. CASE rep.pc \notin {"got", "recovered"}
    <3>1. rep' = rep
      BY <1>3, <2>1, <2>2, RepIs, Zenon DEF Ages, ReminderDue, SilenceEnds, Aging
    <3> QED BY <3>1 DEF Committed
  <2>3. CASE rep.pc \in {"got", "recovered"}
    <3>1. rep.read \in Row /\ rep.seen \in Seen /\ "read" \in DOMAIN rep
      BY <2>1, <2>3, RepIs
    <3>2. PICK x \in {Older(rep.read), Quieter(rep.read)} : rep' = [rep EXCEPT !.read = x]
      BY <1>3, <3>1, Zenon DEF Ages, ReminderDue, SilenceEnds, Aging, Older, Quieter
    <3>3. Transition(x, rep.seen).kind = Transition(rep.read, rep.seen).kind
      BY <3>1, <3>2, AgedRow
    <3>4. rep'.pc = rep.pc /\ rep'.read = x /\ rep'.seen = rep.seen
      BY <2>1, <2>3, <3>2 DEF RepStates, Idle
    <3> QED BY <2>3, <3>3, <3>4 DEF Committed
  <2> QED BY <2>2, <2>3
<1> QED BY <1>1, <1>2, <1>3 DEF RepStep

LEMMA OneMore ==
  ASSUME NEW S, IsFiniteSet(S), NEW x
  PROVE  /\ IsFiniteSet(S \cup {x}) /\ Cardinality(S \cup {x}) \in Nat
         /\ Cardinality(S \cup {x}) <= Cardinality(S) + 1
<1>1. /\ IsFiniteSet(S \cup {x})
      /\ Cardinality(S \cup {x}) = IF x \in S THEN Cardinality(S) ELSE Cardinality(S) + 1
  BY FS_AddElement, Zenon
<1>2. Cardinality(S) \in Nat
  BY FS_CardinalityType
<1> QED BY <1>1, <1>2

LEMMA LineFinite ==
  ASSUME Shape
  PROVE  /\ IsFiniteSet(DOMAIN place) /\ IsFiniteSet(Others) /\ IsFiniteSet(Passes)
         /\ DOMAIN place = Others \cup Passes /\ Cardinality(Others) \in Nat
         /\ Cardinality(Others) <= Cardinality(DOMAIN place)
<1>1. IsFiniteSet(DOMAIN place)
  BY PlacesAre, FS_Subset DEF Shape
<1>2. Others \subseteq DOMAIN place /\ Passes \subseteq DOMAIN place /\ DOMAIN place = Others \cup Passes
  BY DEF Others, Passes
<1> QED BY <1>1, <1>2, FS_Subset, FS_CardinalityType

\* There is a place to take for whoever takes one.
LEMMA RoomGives ==
  ASSUME Fits, rep.pc = "enqueue" \/ poll.pc \notin HoldsPlace
  PROVE  Free \in Places /\ Free \notin DOMAIN place
<1>1. Shape /\ RoomFits /\ MaxIncidents \in Nat
  BY AlertConstants DEF Fits
<1>2. CASE poll.pc \notin HoldsPlace
  <2>1. Passes = {} /\ DOMAIN place = Others
    BY <1>1, <1>2, LineFinite DEF RoomFits
  <2>2. Cardinality(DOMAIN place) <= 2 * MaxIncidents
    BY <1>1, <2>1, LineFinite DEF RoomFits
  <2> QED BY <1>1, <2>2, FreeIsThere DEF Shape
<1>3. CASE rep.pc = "enqueue" /\ poll.pc \in HoldsPlace
  <2>1. Cardinality(Others) + 1 <= 2 * MaxIncidents
    BY <1>1, <1>3 DEF RoomFits, Committed
  <2>2. DOMAIN place = Others \cup {poll.at}
    BY <1>1, <1>3, LineFinite DEF RoomFits
  <2>3. Cardinality(DOMAIN place) <= Cardinality(Others) + 1
    BY <1>1, <2>2, LineFinite, FS_AddElement
  <2>4. Cardinality(DOMAIN place) <= 2 * MaxIncidents
    BY <1>1, <2>1, <2>3, LineFinite, FS_CardinalityType
  <2> QED BY <1>1, <2>4, FreeIsThere DEF Shape
<1> QED BY <1>2, <1>3

-----------------------------------------------------------------------------
(* What a step does to the line.                                           *)

PassStays == /\ poll'.pc \in HoldsPlace <=> poll.pc \in HoldsPlace
             /\ poll.pc \in HoldsPlace => poll'.at = poll.at

LineStays == place' = place /\ tail' = tail /\ PassStays
LineSends == \E p \in DOMAIN place : \E pc \in Outcomes :
               /\ place[p].kind # "pass" /\ (Turn(p) \/ (Cancelled(p) /\ pc = "refused"))
               /\ place' = [place EXCEPT ![p].pc = pc] /\ tail' = tail
               /\ poll' = poll
LineDrops == \E p \in DOMAIN place :
               /\ place[p].kind # "pass" /\ place[p].pc \in Outcomes /\ Release(p) /\ poll' = poll
               /\ Delivery(p)
PassTakes == /\ poll.pc \notin HoldsPlace /\ tail = None /\ Enqueue("pass", None, FALSE)
             /\ poll'.pc \in HoldsPlace /\ poll'.at = Free
PassLeaves == poll.pc \in HoldsPlace /\ Release(poll.at) /\ poll'.pc \notin HoldsPlace

LineStep == LineStays \/ ReportEnqueue \/ LineSends \/ LineDrops \/ PassTakes \/ PassLeaves \/ Stop \/ Kill

LEMMA DeliveryLine ==
  ASSUME NEW p \in DOMAIN place, Delivery(p)
  PROVE  LineSends \/ LineDrops
<1>1. ASSUME NEW outcome \in Outcomes, DeliverCard(p, outcome)
      PROVE  LineSends
  BY <1>1 DEF DeliverCard, LineSends, hands
<1>2. ASSUME NEW ok \in BOOLEAN, DeliverRecovery(p, ok)
      PROVE  LineSends
  <2>1. CASE ok
    <3>1. Turn(p) /\ place' = [place EXCEPT ![p].pc = "delivered"]
      BY <1>2, <2>1 DEF DeliverRecovery
    <3> QED BY <1>2, <3>1 DEF DeliverRecovery, LineSends, hands, Outcomes
  <2>2. CASE ~ok
    <3>1. (Turn(p) \/ Cancelled(p)) /\ place' = [place EXCEPT ![p].pc = "refused"]
      BY <1>2, <2>2 DEF DeliverRecovery
    <3> QED BY <1>2, <3>1 DEF DeliverRecovery, LineSends, hands, Outcomes
  <2> QED BY <2>1, <2>2
<1>3. ASSUME FinishCard(p) \/ FinishRecovery(p)
      PROVE  LineDrops
  BY <1>3 DEF FinishCard, FinishRecovery, LineDrops, hands
<1> QED BY <1>1, <1>2, <1>3 DEF Delivery

LEMMA PollLine ==
  ASSUME poll \in PollStates, PollStep
  PROVE  LineStays \/ PassTakes \/ PassLeaves
<1> USE DEF queue, HoldsPlace
<1>1. ASSUME PollDebtState
      PROVE  LineStays
  <2>1. poll = [pc |-> "debt", debt |-> poll.debt] /\ queue' = queue
    BY <1>1, PollIs DEF PollDebtState
  <2>2. poll'.pc \in {"drop", "take"}
    BY <1>1, <2>1 DEF PollDebtState
  <2> QED BY <2>1, <2>2, <1>1 DEF LineStays, PassStays, PollDebtState
<1>2. ASSUME PollDebtDrop \/ PollSelect \/ PollRead \/ PollBump \/ \E ok \in BOOLEAN : PollRemind(ok)
      PROVE  LineStays
  BY <1>2 DEF LineStays, PassStays, PollDebtDrop, PollSelect, PollRead, PollBump, PollRemind, Idle
<1>3. ASSUME PollDebtTake \/ PollTake
      PROVE  LineStays \/ PassTakes
  <2>1. CASE tail # None
    BY <1>3, <2>1 DEF LineStays, PassStays, PollDebtTake, PollTake, Idle
  <2>2. CASE tail = None
    <3>1. poll.pc \notin HoldsPlace /\ Enqueue("pass", None, FALSE)
      BY <1>3, <2>2 DEF PollDebtTake, PollTake
    <3>2. poll'.pc \in {"reply", "reread"} /\ poll'.at = Free
      <4>1. PollDebtTake => poll' = [pc |-> "reply", debt |-> poll.debt, at |-> Free]
        BY <2>2 DEF PollDebtTake
      <4>2. PollTake => poll' = [pc |-> "reread", inc |-> poll.inc, at |-> Free]
        BY <2>2 DEF PollTake
      <4> QED BY <1>3, <4>1, <4>2
    <3> QED BY <2>2, <3>1, <3>2 DEF PassTakes
  <2> QED BY <2>1, <2>2
<1>4. ASSUME PollDebtDelete
      PROVE  LineStays
  <2>1. poll = [pc |-> "replied", debt |-> poll.debt, at |-> poll.at]
    BY <1>4, PollIs DEF PollDebtDelete
  <2>2. poll'.pc = "clear" /\ poll'.at = poll.at
    BY <1>4, <2>1 DEF PollDebtDelete
  <2> QED BY <1>4, <2>2 DEF LineStays, PassStays, PollDebtDelete
<1>5. ASSUME PollDebtClear \/ PollMark
      PROVE  PassLeaves
  BY <1>5 DEF PassLeaves, PollDebtClear, PollMark, Idle
<1>6. ASSUME PollReread
      PROVE  LineStays \/ PassLeaves
  <2>1. poll = [pc |-> "reread", inc |-> poll.inc, at |-> poll.at]
    BY <1>6, PollIs DEF PollReread
  <2>2. CASE StillUnsent(row)
    <3>1. poll'.pc = "card" /\ poll'.at = poll.at
      BY <1>6, <2>1, <2>2 DEF PollReread
    <3> QED BY <1>6, <2>2, <3>1 DEF LineStays, PassStays, PollReread
  <2>3. CASE ~StillUnsent(row)
    BY <1>6, <2>3 DEF PassLeaves, PollReread, Idle
  <2> QED BY <2>2, <2>3
<1>7. ASSUME NEW ok \in BOOLEAN, PollReply(ok)
      PROVE  LineStays \/ PassLeaves
  <2>1. poll = [pc |-> "reply", debt |-> poll.debt, at |-> poll.at]
    BY <1>7, PollIs DEF PollReply
  <2>2. CASE ok
    <3>1. poll'.pc = "replied" /\ poll'.at = poll.at
      BY <1>7, <2>1, <2>2 DEF PollReply
    <3> QED BY <1>7, <2>2, <3>1 DEF LineStays, PassStays, PollReply
  <2>3. CASE ~ok
    BY <1>7, <2>3 DEF PassLeaves, PollReply, Idle
  <2> QED BY <2>2, <2>3
<1>8. ASSUME NEW outcome \in Outcomes, PollCard(outcome)
      PROVE  LineStays
  BY <1>8 DEF LineStays, PassStays, PollCard
<1> QED BY <1>1, <1>2, <1>3, <1>4, <1>5, <1>6, <1>7, <1>8 DEF PollStep

LEMMA LineFollows ==
  ASSUME Fits, Next
  PROVE  LineStep
<1> USE DEF LineStep
<1>1. CASE \E seen \in Seen : ReportGet(seen)
  BY <1>1 DEF ReportGet, queue, LineStays, PassStays
<1>2. CASE ReportStep
  BY <1>2 DEF ReportStep, ReportSave, ReportHard, ReportDropDebt, ReportReread, ReportRecovery,
              queue, LineStays, PassStays
<1>3. CASE \E p \in DOMAIN place : Delivery(p)
  BY <1>3, DeliveryLine
<1>4. CASE PollStart
  BY <1>4 DEF PollStart, queue, LineStays, PassStays, HoldsPlace, Idle
<1>5. CASE PollStep
  BY <1>5, PollLine DEF Fits, RestFits
<1>6. CASE \E button \in Buttons : PressGet(button)
  BY <1>6 DEF PressGet, queue, LineStays, PassStays
<1>7. CASE PressSave
  BY <1>7 DEF PressSave, queue, LineStays, PassStays
<1>8. CASE ReminderDue \/ SilenceEnds
  BY <1>8 DEF ReminderDue, SilenceEnds, Aging, queue, LineStays, PassStays
<1>9. CASE DebtAges
  BY <1>9 DEF DebtAges, hands, queue, LineStays, PassStays
<1>10. CASE Stop
  BY <1>10
<1>11. CASE Restart
  BY <1>11 DEF Restart, hands, queue, LineStays, PassStays
<1>12. CASE Kill
  BY <1>12
<1> QED BY <1>1, <1>2, <1>3, <1>4, <1>5, <1>6, <1>7, <1>8, <1>9, <1>10, <1>11, <1>12 DEF Next, Seen

LEMMA ReportFills ==
  ASSUME Fits, ReportEnqueue
  PROVE  /\ rep.pc = "enqueue" /\ rep.kind \in {"card", "recovery"} /\ rep.known \in BOOLEAN
         /\ incident \in Incidents /\ incident \in 0 .. MaxIncidents
         /\ Enqueue(rep.kind, incident, rep.known)
         /\ Free \in Places /\ Free \notin DOMAIN place /\ UNCHANGED poll /\ rep' = Idle
<1>1. rep.pc = "enqueue" /\ Enqueue(rep.kind, incident, rep.known) /\ UNCHANGED poll /\ rep' = Idle
  BY DEF ReportEnqueue
<1> QED BY <1>1, RoomGives, RepIs DEF Fits, RepFits, RestFits

LEMMA NoIncident == None \in 0 .. MaxIncidents
BY AlertConstants DEF None

LEMMA ShapeKeeps ==
  ASSUME Fits, LineStep
  PROVE  Shape'
<1>1. Shape /\ RoomFits /\ RestFits
  BY DEF Fits
<1>2. CASE LineStays
  BY <1>1, <1>2 DEF LineStays, Shape
<1>3. CASE ReportEnqueue
  BY <1>1, <1>3, ReportFills, EnqueueShape
<1>4. CASE LineSends
  BY <1>1, <1>4, SendShape DEF LineSends
<1>5. CASE LineDrops
  BY <1>1, <1>5, ReleaseShape DEF LineDrops
<1>6. CASE PassTakes
  BY <1>1, <1>6, RoomGives, EnqueueShape, NoIncident DEF PassTakes
<1>7. CASE PassLeaves
  <2>1. poll.at \in DOMAIN place
    BY <1>1, <1>7 DEF PassLeaves, RoomFits, Passes
  <2> QED BY <1>1, <1>7, <2>1, ReleaseShape DEF PassLeaves
<1>8. CASE Stop
  BY <1>1, <1>8, StopShape
<1>9. CASE Kill
  BY <1>9 DEF Kill, Shape
<1> QED BY <1>2, <1>3, <1>4, <1>5, <1>6, <1>7, <1>8, <1>9 DEF LineStep

LEMMA RoomKeeps ==
  ASSUME Fits, LineStep, RepStep, Next
  PROVE  RoomFits'
<1>1. /\ Shape /\ RoomFits /\ RestFits /\ Shape'
      /\ IsFiniteSet(Others) /\ Cardinality(Others) \in Nat /\ MaxIncidents \in Nat
      /\ Cardinality(Others) <= Cardinality(DOMAIN place)
  BY ShapeKeeps, LineFinite, AlertConstants DEF Fits
<1> DEFINE due == IF Committed THEN 1 ELSE 0
<1>2. ASSUME Others' \subseteq Others, Committed' => Committed
      PROVE  Cardinality(Others') + due' <= 2 * MaxIncidents
  <2>1. Cardinality(Others') \in Nat /\ Cardinality(Others') <= Cardinality(Others)
    BY <1>1, <1>2, FS_Subset, FS_CardinalityType
  <2>2. due' <= due /\ due \in {0, 1} /\ due' \in {0, 1}
    BY <1>2
  <2>3. Cardinality(Others) + due <= 2 * MaxIncidents
    BY <1>1 DEF RoomFits
  <2> HIDE DEF due
  <2> QED BY <1>1, <2>1, <2>2, <2>3
<1>3. CASE \E seen \in Seen : ReportGet(seen)
  <2>1. PICK seen \in Seen : ReportGet(seen)
    BY <1>3
  <2>2. /\ place' = place /\ poll' = poll
        /\ rep' = [pc |-> "got", read |-> row, seen |-> seen]
        /\ Transition(row, seen).kind \in {"hard", "recovery"} =>
             Cardinality(DOMAIN place) + 1 < Cardinality(Places)
    BY <2>1 DEF ReportGet, queue
  <2>3. Others' = Others /\ Passes' = Passes
    BY <2>2 DEF Others, Passes
  <2>4. Committed' <=> Transition(row, seen).kind \in {"hard", "recovery"}
    BY <2>2 DEF Committed
  <2>5. Cardinality(Others) <= 2 * MaxIncidents
    BY <1>1 DEF RoomFits
  <2>6. Committed' => Cardinality(DOMAIN place) + 1 < 2 * MaxIncidents + 1
    BY <2>2, <2>4, PlacesAre
  <2>7. Cardinality(DOMAIN place) \in Nat
    BY <1>1, LineFinite, FS_CardinalityType
  <2>8. Cardinality(Others) + (IF Committed' THEN 1 ELSE 0) <= 2 * MaxIncidents
    BY <1>1, <2>5, <2>6, <2>7
  <2> QED BY <1>1, <2>2, <2>3, <2>8 DEF RoomFits
<1>4. CASE ~(\E seen \in Seen : ReportGet(seen))
  <2>1. Committed' => Committed
    BY <1>4, CommittedKeeps
  <2>2. SUFFICES ASSUME TRUE
                 PROVE  /\ Passes' = IF poll'.pc \in HoldsPlace THEN {poll'.at} ELSE {}
                        /\ Cardinality(Others') + due' <= 2 * MaxIncidents
    BY DEF RoomFits
  <2> HIDE DEF due
  <2>3. CASE LineStays
    <3>1. Others' = Others /\ Passes' = Passes
      BY <2>3 DEF LineStays, Others, Passes
    <3> QED BY <1>1, <1>2, <2>1, <2>3, <3>1 DEF LineStays, PassStays, RoomFits
  <2>4. CASE ReportEnqueue
    <3> DEFINE pc == IF phase = "up" THEN "waiting" ELSE "cancelled"
    <3>0. /\ DOMAIN place' = DOMAIN place \cup {Free}
          /\ place'[Free] = [prev |-> tail, kind |-> rep.kind, inc |-> incident, known |-> rep.known, pc |-> pc]
          /\ \A p \in DOMAIN place : place'[p] = place[p]
      BY <1>1, <2>4, ReportFills, EnqueueShape
    <3>1. /\ DOMAIN place' = DOMAIN place \cup {Free} /\ place'[Free].kind # "pass"
          /\ \A p \in DOMAIN place : place'[p] = place[p]
      <4>1. rep.kind # "pass"
        BY <2>4, ReportFills
      <4> HIDE DEF pc
      <4> QED BY <3>0, <4>1
    <3>2. Free \notin DOMAIN place /\ UNCHANGED poll /\ rep' = Idle /\ Committed
      BY <2>4, ReportFills DEF Committed
    <3>3. Passes' = Passes /\ Others' = Others \cup {Free}
      BY <3>1, <3>2 DEF Passes, Others
    <3>4. due' = 0 /\ due = 1
      BY <3>2 DEF due, Committed, Idle
    <3>5. Cardinality(Others') <= Cardinality(Others) + 1 /\ Cardinality(Others') \in Nat
      BY <1>1, <3>3, OneMore
    <3>6. Cardinality(Others) + due <= 2 * MaxIncidents
      BY <1>1 DEF RoomFits, due
    <3>7. Cardinality(Others') + due' <= 2 * MaxIncidents
      BY <1>1, <3>4, <3>5, <3>6
    <3> QED BY <1>1, <3>2, <3>3, <3>7 DEF RoomFits
  <2>5. CASE LineSends
    <3>1. PICK p \in DOMAIN place, pc \in Outcomes :
            place' = [place EXCEPT ![p].pc = pc] /\ tail' = tail /\ poll' = poll
      BY <2>5 DEF LineSends
    <3>2. DOMAIN place' = DOMAIN place /\ \A q \in DOMAIN place : place'[q].kind = place[q].kind
      BY <1>1, <3>1, SendShape
    <3>3. Passes' = Passes /\ Others' = Others
      BY <3>2 DEF Passes, Others
    <3> QED BY <1>1, <1>2, <2>1, <3>1, <3>3 DEF RoomFits
  <2>6. CASE LineDrops
    <3>1. PICK p \in DOMAIN place : place[p].kind # "pass" /\ Release(p) /\ poll' = poll
      BY <2>6 DEF LineDrops
    <3>2. DOMAIN place' = DOMAIN place \ {p} /\ \A q \in DOMAIN place' : place'[q].kind = place[q].kind
      BY <1>1, <3>1, ReleaseShape
    <3>3. Passes' = Passes /\ Others' = Others \ {p}
      BY <3>1, <3>2 DEF Passes, Others
    <3> QED BY <1>1, <1>2, <2>1, <3>1, <3>3 DEF RoomFits
  <2>7. CASE PassTakes
    <3>1. Free \notin DOMAIN place /\ Free \in Places /\ Enqueue("pass", None, FALSE)
      BY <2>7, RoomGives DEF PassTakes
    <3> DEFINE pc == IF phase = "up" THEN "waiting" ELSE "cancelled"
    <3>0. /\ DOMAIN place' = DOMAIN place \cup {Free}
          /\ place'[Free] = [prev |-> tail, kind |-> "pass", inc |-> None, known |-> FALSE, pc |-> pc]
          /\ \A p \in DOMAIN place : place'[p] = place[p]
      BY <1>1, <3>1, EnqueueShape, NoIncident
    <3>2. /\ DOMAIN place' = DOMAIN place \cup {Free} /\ place'[Free].kind = "pass"
          /\ \A p \in DOMAIN place : place'[p] = place[p]
      <4> HIDE DEF pc
      <4> QED BY <3>0
    <3>3. Passes = {}
      BY <1>1, <2>7 DEF PassTakes, RoomFits
    <3>4. Passes' = {Free} /\ Others' = Others
      BY <3>1, <3>2, <3>3 DEF Passes, Others
    <3> QED BY <1>1, <1>2, <2>1, <2>7, <3>4 DEF PassTakes
  <2>8. CASE PassLeaves
    <3>1. Passes = {poll.at} /\ poll.at \in DOMAIN place
      BY <1>1, <2>8 DEF PassLeaves, RoomFits, Passes
    <3>2. DOMAIN place' = DOMAIN place \ {poll.at} /\ \A q \in DOMAIN place' : place'[q].kind = place[q].kind
      BY <1>1, <2>8, <3>1, ReleaseShape DEF PassLeaves
    <3>3. Passes' = {} /\ Others' \subseteq Others
      BY <3>1, <3>2 DEF Passes, Others
    <3> QED BY <1>2, <2>1, <2>8, <3>3 DEF PassLeaves
  <2>9. CASE Stop
    <3>1. DOMAIN place' = DOMAIN place /\ \A q \in DOMAIN place : place'[q].kind = place[q].kind
      BY <1>1, <2>9, StopShape
    <3>2. Passes' = Passes /\ Others' = Others /\ poll' = poll
      BY <2>9, <3>1 DEF Passes, Others, Stop, hands
    <3> QED BY <1>1, <1>2, <2>1, <3>2 DEF RoomFits
  <2>10. CASE Kill
    <3>1. place' = <<>> /\ poll' = Idle
      BY <2>10 DEF Kill
    <3>2. Passes' = {} /\ Others' = {} /\ poll'.pc \notin HoldsPlace
      BY <3>1 DEF Passes, Others, HoldsPlace, Idle
    <3> QED BY <1>2, <2>1, <3>2
  <2> QED BY <2>3, <2>4, <2>5, <2>6, <2>7, <2>8, <2>9, <2>10 DEF LineStep
<1> QED BY <1>3, <1>4

-----------------------------------------------------------------------------
(* The pass and what was said keep to their types.                         *)

LEMMA PassKeeps ==
  ASSUME Fits, PassStep
  PROVE  poll' \in PollStates
<1>1. /\ poll \in PollStates /\ incident \in 0 .. MaxIncidents /\ RowFits
      /\ owed \in {NoDebt} \cup Debt
  BY DEF Fits, RestFits
<1>2. CASE UNCHANGED poll
  BY <1>1, <1>2
<1>3. CASE PollStart \/ Kill
  BY <1>1, <1>3 DEF PollStart, Kill, PollStates, Idle
<1>4. CASE PollStep
  <2>1. ASSUME PollDebtState \/ PollDebtDelete PROVE poll' \in PollStates
    <3>1. CASE PollDebtState
      <4>1. poll = [pc |-> "debt", debt |-> poll.debt] /\ poll.debt \in Debt
        BY <1>1, <3>1, PollIs DEF PollDebtState
      <4>2. PICK pc \in {"drop", "take"} : poll' = [poll EXCEPT !.pc = pc]
        BY <3>1 DEF PollDebtState
      <4>3. poll' = [pc |-> pc, debt |-> poll.debt]
        BY <4>1, <4>2
      <4> QED BY <4>1, <4>3 DEF PollStates
    <3>2. CASE PollDebtDelete
      <4>1. /\ poll = [pc |-> "replied", debt |-> poll.debt, at |-> poll.at]
            /\ poll.debt \in Debt /\ poll.at \in Places
        BY <1>1, <3>2, PollIs DEF PollDebtDelete
      <4>2. poll' = [pc |-> "clear", debt |-> poll.debt, at |-> poll.at]
        BY <3>2, <4>1 DEF PollDebtDelete
      <4> QED BY <4>1, <4>2 DEF PollStates
    <3> QED BY <2>1, <3>1, <3>2
  <2>2. ASSUME PollDebtDrop \/ PollDebtClear \/ PollSelect \/ PollMark \/ PollBump
        PROVE  poll' \in PollStates
    BY <2>2 DEF PollDebtDrop, PollDebtClear, PollSelect, PollMark, PollBump, PollStates, Idle
  <2>3. ASSUME PollRead PROVE poll' \in PollStates
    <3>1. \/ poll' = Idle
          \/ \E pc \in {"try", "remind"} : poll' = [pc |-> pc, inc |-> incident]
      BY <2>3 DEF PollRead
    <3> QED BY <1>1, <3>1 DEF PollStates, Idle
  <2>4. ASSUME PollDebtTake \/ PollTake PROVE poll' \in PollStates
    <3>1. poll.pc \in {"take", "try"} /\ poll.pc \notin HoldsPlace
      BY <2>4 DEF PollDebtTake, PollTake, HoldsPlace
    <3>2. PICK x \in Places : x = Free
      BY <3>1, RoomGives
    <3>3. PollDebtTake => \/ poll' = [pc |-> "select"]
                          \/ poll' = [pc |-> "reply", debt |-> poll.debt, at |-> x]
      BY <3>2 DEF PollDebtTake
    <3>4. PollTake => \/ poll' = Idle
                      \/ poll' = [pc |-> "reread", inc |-> poll.inc, at |-> x]
      BY <3>2 DEF PollTake
    <3>5. PollDebtTake => poll.debt \in Debt
      BY <1>1, PollIs DEF PollDebtTake
    <3>6. PollTake => poll.inc \in 0 .. MaxIncidents
      BY <1>1, PollIs DEF PollTake
    <3> QED BY <2>4, <3>3, <3>4, <3>5, <3>6 DEF PollStates, Idle
  <2>5. ASSUME PollReread PROVE poll' \in PollStates
    <3>1. poll = [pc |-> "reread", inc |-> poll.inc, at |-> poll.at] /\ poll.at \in Places
      BY <1>1, <2>5, PollIs DEF PollReread, HoldsPlace
    <3>2. CASE StillUnsent(row)
      <4>1. poll' = [pc |-> "card", inc |-> incident, at |-> poll.at]
        BY <2>5, <3>1, <3>2 DEF PollReread
      <4>2. incident \in Incidents
        BY <1>1, <3>2 DEF StillUnsent, RowFits
      <4> QED BY <3>1, <4>1, <4>2 DEF PollStates
    <3>3. CASE ~StillUnsent(row)
      BY <2>5, <3>3 DEF PollReread, PollStates, Idle
    <3> QED BY <3>2, <3>3
  <2>6. ASSUME NEW ok \in BOOLEAN, PollReply(ok) PROVE poll' \in PollStates
    <3>1. /\ poll = [pc |-> "reply", debt |-> poll.debt, at |-> poll.at]
          /\ poll.debt \in Debt /\ poll.at \in Places
      BY <1>1, <2>6, PollIs DEF PollReply
    <3>2. \/ poll' = [poll EXCEPT !.pc = "replied"]
          \/ poll' = [pc |-> "select"] \/ poll' = Idle
      BY <2>6 DEF PollReply
    <3>3. [poll EXCEPT !.pc = "replied"] = [pc |-> "replied", debt |-> poll.debt, at |-> poll.at]
      BY <3>1
    <3> QED BY <3>1, <3>2, <3>3 DEF PollStates, Idle
  <2>7. ASSUME NEW ok \in BOOLEAN, PollRemind(ok) PROVE poll' \in PollStates
    <3>1. poll.inc \in 0 .. MaxIncidents
      BY <1>1, <2>7, PollIs DEF PollRemind
    <3> QED BY <2>7, <3>1 DEF PollRemind, PollStates, Idle
  <2>8. ASSUME NEW outcome \in Outcomes, PollCard(outcome) PROVE poll' \in PollStates
    <3>1. poll.inc \in Incidents /\ poll.at \in Places /\ Incidents \subseteq 0 .. MaxIncidents
      BY <1>1, <2>8, PollIs, AlertConstants DEF PollCard, HoldsPlace, Incidents
    <3>2. poll' = [pc |-> "mark", inc |-> poll.inc, at |-> poll.at, outcome |-> outcome]
      BY <2>8 DEF PollCard
    <3> QED BY <3>1, <3>2 DEF PollStates
  <2> QED BY <1>4, <2>1, <2>2, <2>3, <2>4, <2>5, <2>6, <2>7, <2>8 DEF PollStep
<1> QED BY <1>2, <1>3, <1>4 DEF PassStep

\* What was said, what is owed of it, and the bounds.
TalkFits ==
  /\ msgs \in 0 .. MaxIncidents /\ owed \in {NoDebt} \cup Debt
  /\ carded \cup closed \subseteq Incidents
  /\ told \in BOOLEAN /\ lost \in BOOLEAN /\ heard \in {"card", "recovery", "none"}
  /\ phase \in {"up", "stopping"}
  /\ stops \in 0 .. MaxStops /\ kills \in 0 .. MaxKills

LEMMA DeliveryTalks ==
  ASSUME Fits, NEW p \in DOMAIN place, Delivery(p)
  PROVE  TalkFits'
<1>1. TalkFits /\ Shape /\ place[p] \in Slot /\ Incidents \subseteq 0 .. MaxIncidents /\ None \in 0 .. MaxIncidents
  BY AlertConstants DEF Fits, RestFits, TalkFits, Shape, Incidents, None
<1>2. place[p].kind # "pass" => place[p].inc \in Incidents
  BY <1>1 DEF Shape
<1> USE DEF TalkFits, world, history
<1>3. ASSUME NEW outcome \in Outcomes, DeliverCard(p, outcome)
      PROVE  TalkFits'
  <2>1. place[p].inc \in Incidents
    BY <1>2, <1>3 DEF DeliverCard
  <2>2. /\ SendCard(place[p].inc, outcome)
        /\ UNCHANGED <<owed, closed, lost, phase, stops, kills>>
    BY <1>3 DEF DeliverCard
  <2> QED BY <1>1, <2>1, <2>2 DEF SendCard
<1>4. ASSUME NEW ok \in BOOLEAN, DeliverRecovery(p, ok)
      PROVE  TalkFits'
  <2>1. place[p].inc \in Incidents
    BY <1>2, <1>4 DEF DeliverRecovery
  <2>2. /\ Reply(place[p].inc, ok) \/ UNCHANGED <<closed, heard>>
        /\ UNCHANGED <<msgs, owed, carded, told, lost, phase, stops, kills>>
    BY <1>4 DEF DeliverRecovery, db
  <2> QED BY <1>1, <2>1, <2>2 DEF Reply
<1>5. ASSUME FinishCard(p)
      PROVE  TalkFits'
  BY <1>1, <1>5 DEF FinishCard, MarkCard, ClearLastAlertAt, BumpLastAlertAt, Mark
<1>6. ASSUME FinishRecovery(p)
      PROVE  TalkFits'
  <2>1. place[p].inc \in Incidents
    BY <1>2, <1>6 DEF FinishRecovery
  <2>2. [inc |-> place[p].inc, old |-> FALSE] \in Debt
    BY <2>1 DEF Debt
  <2> QED BY <1>1, <1>6, <2>2 DEF FinishRecovery
<1> QED BY <1>3, <1>4, <1>5, <1>6 DEF Delivery

LEMMA PollTalks ==
  ASSUME Fits, PollStep
  PROVE  TalkFits'
<1>1. /\ TalkFits /\ poll \in PollStates /\ None \in 0 .. MaxIncidents
  BY NoIncident DEF Fits, RestFits, TalkFits
<1> USE DEF TalkFits, world, history, db
<1>2. ASSUME PollDebtState \/ PollDebtDrop \/ PollDebtTake \/ PollDebtDelete \/ PollDebtClear
      PROVE  TalkFits'
  BY <1>1, <1>2 DEF PollDebtState, PollDebtDrop, PollDebtTake, PollDebtDelete, PollDebtClear,
                    ClearSentBefore
<1>3. ASSUME PollSelect \/ PollRead \/ PollTake \/ PollReread
      PROVE  TalkFits'
  BY <1>1, <1>3 DEF PollSelect, PollRead, PollTake, PollReread
<1>4. ASSUME PollMark \/ PollBump
      PROVE  TalkFits'
  BY <1>1, <1>4 DEF PollMark, PollBump, MarkCard, ClearLastAlertAt, BumpLastAlertAt, Mark
<1>5. ASSUME NEW ok \in BOOLEAN, PollReply(ok)
      PROVE  TalkFits'
  <2>1. poll.debt.inc \in Incidents
    BY <1>1, <1>5, PollIs DEF PollReply, Debt
  <2>2. /\ Reply(poll.debt.inc, ok) \/ UNCHANGED <<closed, heard>>
        /\ UNCHANGED <<msgs, owed, carded, told, lost, phase, stops, kills>>
    BY <1>5 DEF PollReply
  <2> QED BY <1>1, <2>1, <2>2 DEF Reply
<1>6. ASSUME NEW ok \in BOOLEAN, PollRemind(ok)
      PROVE  TalkFits'
  BY <1>1, <1>6 DEF PollRemind
<1>7. ASSUME NEW outcome \in Outcomes, PollCard(outcome)
      PROVE  TalkFits'
  <2>1. poll.inc \in Incidents /\ Incidents \subseteq 0 .. MaxIncidents
    BY <1>1, <1>7, PollIs, AlertConstants DEF PollCard, Incidents
  <2>2. /\ SendCard(poll.inc, outcome)
        /\ UNCHANGED <<owed, closed, lost, phase, stops, kills>>
    BY <1>7 DEF PollCard
  <2> QED BY <1>1, <2>1, <2>2 DEF SendCard
<1> QED BY <1>2, <1>3, <1>4, <1>5, <1>6, <1>7 DEF PollStep

LEMMA RestKeeps ==
  ASSUME Fits, Next
  PROVE  RestFits'
<1>1. poll' \in PollStates /\ incident' \in 0 .. MaxIncidents
  BY Frames, PassKeeps, IncidentKeeps DEF Fits
<1>2. TalkFits /\ MaxStops \in Nat /\ MaxKills \in Nat
  BY AlertConstants DEF Fits, RestFits, TalkFits
<1>3. TalkFits'
  <2> USE DEF TalkFits, world, history, db
  <2>1. CASE \E seen \in Seen : ReportGet(seen)
    BY <1>2, <2>1 DEF ReportGet
  <2>2. CASE ReportStep
    <3>1. CASE ReportSave \/ ReportHard \/ ReportRecovery
      <4>1. lost' \in BOOLEAN
        BY <1>2, <3>1 DEF ReportSave, ReportHard, ReportRecovery, Save
      <4> QED BY <1>2, <3>1, <4>1 DEF ReportSave, ReportHard, ReportRecovery
    <3>2. CASE ReportDropDebt \/ ReportReread \/ ReportEnqueue
      BY <1>2, <3>2 DEF ReportDropDebt, ReportReread, ReportEnqueue
    <3> QED BY <2>2, <3>1, <3>2 DEF ReportStep
  <2>3. CASE \E p \in DOMAIN place : Delivery(p)
    BY <2>3, DeliveryTalks
  <2>4. CASE PollStart
    BY <1>2, <2>4 DEF PollStart
  <2>5. CASE PollStep
    BY <2>5, PollTalks
  <2>6. CASE \E button \in Buttons : PressGet(button)
    BY <1>2, <2>6 DEF PressGet
  <2>7. CASE PressSave
    <3>1. lost' \in BOOLEAN
      BY <1>2, <2>7 DEF PressSave, Save
    <3> QED BY <1>2, <2>7, <3>1 DEF PressSave
  <2>8. CASE ReminderDue \/ SilenceEnds
    BY <1>2, <2>8 DEF ReminderDue, SilenceEnds, Aging
  <2>9. CASE DebtAges
    <3>1. owed \in Debt /\ owed' = [owed EXCEPT !.old = TRUE]
      BY <1>2, <2>9 DEF DebtAges
    <3>2. owed' \in Debt
      BY <3>1 DEF Debt
    <3> QED BY <1>2, <2>9, <3>2 DEF DebtAges
  <2>10. CASE Stop
    BY <1>2, <2>10 DEF Stop
  <2>11. CASE Restart
    BY <1>2, <2>11 DEF Restart
  <2>12. CASE Kill
    BY <1>2, <2>12 DEF Kill
  <2> QED BY <2>1, <2>2, <2>3, <2>4, <2>5, <2>6, <2>7, <2>8, <2>9, <2>10, <2>11, <2>12 DEF Next, Seen
<1> QED BY <1>1, <1>3 DEF RestFits, TalkFits

LEMMA FitsStep ==
  ASSUME Fits, Next
  PROVE  Fits'
<1>1. RowStep /\ RepStep /\ PersonStep /\ PassStep /\ IncidentStep
  BY Frames
<1>2. LineStep
  BY LineFollows
<1> QED BY <1>1, <1>2, RepKeeps, PersonKeeps, RowKeeps, RestKeeps, ShapeKeeps, RoomKeeps DEF Fits

-----------------------------------------------------------------------------
(* The line keeps its order.                                               *)

WorldStep == UNCHANGED <<phase, stops, kills>> \/ Stop \/ Restart \/ Kill

LEMMA WorldFollows ==
  ASSUME Next
  PROVE  WorldStep
<1> USE DEF WorldStep, world
<1>1. CASE \E seen \in Seen : ReportGet(seen)
  BY <1>1 DEF ReportGet
<1>2. CASE ReportStep
  BY <1>2 DEF ReportStep, ReportSave, ReportHard, ReportDropDebt, ReportReread, ReportRecovery,
              ReportEnqueue
<1>3. CASE \E p \in DOMAIN place : Delivery(p)
  BY <1>3, DeliveryKeeps
<1>4. CASE PollStart
  BY <1>4 DEF PollStart
<1>5. CASE PollStep
  BY <1>5, PollKeeps
<1>6. CASE (\E button \in Buttons : PressGet(button)) \/ PressSave \/ DebtAges
  BY <1>6 DEF PressGet, PressSave, DebtAges
<1>7. CASE ReminderDue \/ SilenceEnds
  BY <1>7 DEF ReminderDue, SilenceEnds, Aging
<1> QED BY <1>1, <1>2, <1>3, <1>4, <1>5, <1>6, <1>7 DEF Next, Seen

LEMMA InLineStep ==
  ASSUME Fits, InLine, Next
  PROVE  InLine'
<1>1. Shape /\ Shape' /\ RoomFits /\ RoomFits' /\ LineStep /\ WorldStep
  BY FitsStep, LineFollows, WorldFollows DEF Fits
<1>2. CASE Kill \/ Restart
  <2>1. place' = <<>> /\ DOMAIN place' = {} /\ tail' = None
    BY <1>1, <1>2 DEF Kill, Restart, Shape, queue
  <2>2. poll'.pc \notin HoldsPlace
    BY <1>2 DEF Kill, Restart, hands, Idle, HoldsPlace
  <2>3. Straight'
    BY <2>1, StraightOnceEmpty
  <2> QED BY <2>1, <2>2, <2>3 DEF InLine
<1>3. CASE Stop
  BY <1>3 DEF Stop, InLine
<1>4. CASE phase # "up" /\ UNCHANGED phase
  BY <1>4 DEF InLine
<1>5. CASE phase = "up" /\ UNCHANGED phase
  <2>1. /\ Straight
        /\ \A p \in DOMAIN place : place[p].prev # None => place[p].pc = "waiting"
        /\ \A p \in DOMAIN place : place[p].pc # "cancelled"
        /\ poll.pc \in HoldsPlace => poll.at \in DOMAIN place /\ place[poll.at].prev = None
    BY <1>1, <1>5 DEF InLine, RoomFits, Passes
  <2>2. SUFFICES
          /\ Straight'
          /\ \A p \in DOMAIN place' : place'[p].prev # None => place'[p].pc = "waiting"
          /\ \A p \in DOMAIN place' : place'[p].pc # "cancelled"
          /\ poll'.pc \in HoldsPlace => place'[poll'.at].prev = None
    BY DEF InLine
  <2>3. CASE LineStays
    <3>1. Straight'
      BY <2>1, <2>3, SameStraight DEF LineStays
    <3> QED BY <2>1, <2>3, <3>1 DEF LineStays, PassStays
  <2>4. CASE ReportEnqueue
    <3> DEFINE new == [prev |-> tail, kind |-> rep.kind, inc |-> incident, known |-> rep.known,
                       pc |-> "waiting"]
    <3>1. /\ DOMAIN place' = DOMAIN place \cup {Free} /\ tail' = Free
          /\ place'[Free] = [prev |-> tail, kind |-> rep.kind, inc |-> incident, known |-> rep.known,
                             pc |-> IF phase = "up" THEN "waiting" ELSE "cancelled"]
          /\ \A p \in DOMAIN place : place'[p] = place[p]
          /\ Free \in Places /\ Free \notin DOMAIN place /\ UNCHANGED poll
      BY <1>1, <2>4, ReportFills, EnqueueShape
    <3>2. place'[Free] = new
      BY <1>5, <3>1
    <3>3. place'[Free].prev = tail /\ place'[Free].pc = "waiting"
      BY <3>2
    <3>4. Straight'
      BY <1>1, <2>1, <3>1, <3>3, EnqueueStraight
    <3> QED BY <2>1, <3>1, <3>3, <3>4
  <2>5. CASE LineSends
    <3>1. PICK p \in DOMAIN place, pc \in Outcomes :
            /\ Turn(p) \/ Cancelled(p)
            /\ place' = [place EXCEPT ![p].pc = pc] /\ tail' = tail /\ poll' = poll
      BY <2>5 DEF LineSends
    <3>2. /\ DOMAIN place' = DOMAIN place
          /\ \A q \in DOMAIN place : /\ place'[q].prev = place[q].prev
                                     /\ place'[q].pc = IF q = p THEN pc ELSE place[q].pc
      BY <1>1, <3>1, SendShape
    <3>3. place[p].prev = None /\ pc # "cancelled"
      BY <2>1, <3>1 DEF Turn, Cancelled, Outcomes
    <3>4. Straight'
      BY <2>1, <3>1, <3>2, SameStraight
    <3> QED BY <2>1, <3>1, <3>2, <3>3, <3>4
  <2>6. CASE LineDrops
    <3>1. PICK p \in DOMAIN place :
            place[p].kind # "pass" /\ place[p].pc \in Outcomes /\ Release(p) /\ poll' = poll
      BY <2>6 DEF LineDrops
    <3>2. /\ DOMAIN place' = DOMAIN place \ {p} /\ tail' = IF tail = p THEN None ELSE tail
          /\ \A q \in DOMAIN place' :
               /\ place'[q].prev = IF place[q].prev = p THEN None ELSE place[q].prev
               /\ place'[q].pc = place[q].pc
      BY <1>1, <3>1, ReleaseShape
    <3>3. place[p].prev = None
      BY <2>1, <3>1 DEF Outcomes
    <3>4. Straight'
      BY <1>1, <2>1, <3>2, <3>3, ReleaseStraight
    <3>5. poll.pc \in HoldsPlace => poll.at \in DOMAIN place'
      BY <1>1, <3>1 DEF RoomFits, Passes
    <3> QED BY <2>1, <3>1, <3>2, <3>4, <3>5
  <2>7. CASE PassTakes
    <3>1. Free \notin DOMAIN place /\ Free \in Places /\ Enqueue("pass", None, FALSE) /\ tail = None
      BY <2>7, RoomGives DEF PassTakes
    <3>2. /\ DOMAIN place' = DOMAIN place \cup {Free} /\ tail' = Free
          /\ place'[Free] = [prev |-> tail, kind |-> "pass", inc |-> None, known |-> FALSE,
                             pc |-> IF phase = "up" THEN "waiting" ELSE "cancelled"]
          /\ \A p \in DOMAIN place : place'[p] = place[p]
      BY <1>1, <3>1, EnqueueShape, NoIncident
    <3>3. place'[Free] = [prev |-> tail, kind |-> "pass", inc |-> None, known |-> FALSE, pc |-> "waiting"]
      BY <1>5, <3>2
    <3>4. place'[Free].prev = tail /\ place'[Free].pc = "waiting"
      BY <3>3
    <3>5. Straight'
      BY <1>1, <2>1, <3>1, <3>2, <3>4, EnqueueStraight
    <3> QED BY <2>1, <2>7, <3>1, <3>2, <3>4, <3>5 DEF PassTakes
  <2>8. CASE PassLeaves
    <3>1. poll.at \in DOMAIN place /\ Release(poll.at) /\ poll'.pc \notin HoldsPlace
          /\ place[poll.at].prev = None
      BY <2>1, <2>8 DEF PassLeaves
    <3>2. /\ DOMAIN place' = DOMAIN place \ {poll.at} /\ tail' = IF tail = poll.at THEN None ELSE tail
          /\ \A q \in DOMAIN place' :
               /\ place'[q].prev = IF place[q].prev = poll.at THEN None ELSE place[q].prev
               /\ place'[q].pc = place[q].pc
      BY <1>1, <3>1, ReleaseShape
    <3>3. PICK p \in DOMAIN place : p = poll.at
      BY <3>1
    <3>4. Straight'
      BY <1>1, <2>1, <3>1, <3>2, <3>3, ReleaseStraight
    <3> QED BY <2>1, <3>1, <3>2, <3>4
  <2>9. CASE Stop \/ Kill
    <3>1. InLine' /\ phase' = "up"
      BY <1>2, <1>3, <1>5, <2>9
    <3> QED BY <3>1 DEF InLine
  <2> QED BY <1>1, <2>3, <2>4, <2>5, <2>6, <2>7, <2>8, <2>9 DEF LineStep
<1> QED BY <1>1, <1>2, <1>3, <1>4, <1>5 DEF WorldStep

-----------------------------------------------------------------------------
(* While no update of the row is lost and the backend does not end.        *)

LEMMA LostGrows ==
  ASSUME Next
  PROVE  lost => lost'
<1> USE DEF world, history, db
<1>1. CASE \E seen \in Seen : ReportGet(seen)
  BY <1>1 DEF ReportGet
<1>2. CASE ReportStep
  BY <1>2 DEF ReportStep, ReportSave, ReportHard, ReportDropDebt, ReportReread, ReportRecovery,
              ReportEnqueue, Save
<1>3. CASE \E p \in DOMAIN place : Delivery(p)
  BY <1>3 DEF Delivery, DeliverCard, DeliverRecovery, FinishCard, FinishRecovery, MarkCard,
              ClearLastAlertAt, BumpLastAlertAt, Mark
<1>4. CASE PollStart
  BY <1>4 DEF PollStart
<1>5. CASE PollStep
  <2>1. CASE PollMark \/ PollBump
    BY <2>1 DEF PollMark, PollBump, MarkCard, ClearLastAlertAt, BumpLastAlertAt, Mark
  <2>2. CASE PollDebtState \/ PollDebtDrop \/ PollDebtTake \/ PollDebtDelete \/ PollDebtClear
             \/ PollSelect \/ PollRead \/ PollTake \/ PollReread
    BY <2>2 DEF PollDebtState, PollDebtDrop, PollDebtTake, PollDebtDelete, PollDebtClear,
                PollSelect, PollRead, PollTake, PollReread
  <2>3. CASE \E ok \in BOOLEAN : PollReply(ok) \/ PollRemind(ok)
    BY <2>3 DEF PollReply, PollRemind
  <2>4. CASE \E outcome \in Outcomes : PollCard(outcome)
    BY <2>4 DEF PollCard
  <2> QED BY <1>5, <2>1, <2>2, <2>3, <2>4 DEF PollStep
<1>6. CASE (\E button \in Buttons : PressGet(button)) \/ PressSave \/ DebtAges
  BY <1>6 DEF PressGet, PressSave, DebtAges, Save
<1>7. CASE ReminderDue \/ SilenceEnds
  BY <1>7 DEF ReminderDue, SilenceEnds, Aging
<1>8. CASE Stop \/ Restart \/ Kill
  BY <1>8 DEF Stop, Restart, Kill
<1> QED BY <1>1, <1>2, <1>3, <1>4, <1>5, <1>6, <1>7, <1>8 DEF Next, Seen

LEMMA CalmFollows ==
  ASSUME Fits, Answered, Next, Calm'
  PROVE  Calm /\ ~lost' /\ phase = "up" /\ UNCHANGED <<phase, stops, kills>>
<1>1. ~lost /\ ~lost'
  BY LostGrows DEF Calm
<1>2. stops \in 0 .. MaxStops /\ kills \in 0 .. MaxKills /\ MaxStops \in Nat /\ MaxKills \in Nat
  BY AlertConstants DEF Fits, RestFits
<1>3. ~Stop /\ ~Kill
  BY <1>2 DEF Stop, Kill, Calm
<1>4. stops = MaxStops /\ kills = MaxKills
  BY <1>3, WorldFollows DEF WorldStep, Restart, Calm
<1>5. phase = "up"
  BY <1>1, <1>4 DEF Calm, Answered
<1>6. ~Restart
  BY <1>5 DEF Restart
<1> QED BY <1>1, <1>3, <1>4, <1>5, <1>6, WorldFollows DEF WorldStep, Calm

LEMMA HardSets ==
  ASSUME Fits, ReportHard
  PROVE  row'.status = "hard"
<1>1. /\ rep.pc = "got" /\ row' = Transition(rep.read, rep.seen).next
      /\ Transition(rep.read, rep.seen).kind = "hard"
  BY DEF ReportHard, Save
<1>2. rep.read \in Row /\ rep.seen \in Seen /\ GoodRow(rep.read)
  BY <1>1, RepIs DEF Fits, RepFits, GoodRow
<1> QED BY <1>1, <1>2, TransitionFacts

\* A report ends an incident or begins one; whatever else writes the row leaves
\* its status, or writes over a change it has not seen.
LEMMA StatusFollows ==
  ASSUME Fits, Next, ~lost'
  PROVE  \/ ReportHard /\ row'.status = "hard"
         \/ ReportRecovery
         \/ (row'.status = "hard" <=> row.status = "hard")
<1>1. RepFits /\ PersonFits /\ row \in Row
  BY DEF Fits, RowFits, GoodRow
<1>2. rep.pc = "got" => rep.read \in Row /\ rep.seen \in Seen /\ GoodRow(rep.read)
  BY <1>1, RepIs DEF RepFits, GoodRow
<1>3. CASE UNCHANGED row
  BY <1>3
<1>4. CASE MarkStep
  <2>1. PICK sent \in {"never", "recent"} : row' = [row EXCEPT !.sent = sent]
    BY <1>4 DEF MarkStep
  <2> QED BY <1>1, <2>1 DEF Row
<1>5. CASE ReportSave
  <2>1. /\ rep.pc = "got" /\ row' = Transition(rep.read, rep.seen).next /\ row = rep.read
        /\ Transition(rep.read, rep.seen).kind \in {"noop", "soft", "soft_flap"}
    BY <1>5 DEF ReportSave, Save
  <2> QED BY <1>2, <2>1, TransitionFacts
<1>6. CASE ReportHard
  BY <1>6, HardSets
<1>7. CASE PressSave
  <2>1. /\ person # Idle /\ row = person.read
        /\ row' = IF person.pc = "silence" THEN [person.read EXCEPT !.silence = "on"]
                  ELSE [person.read EXCEPT !.acked = TRUE]
    BY <1>7 DEF PressSave, Save, ApplySilence, ApplyAck
  <2> QED BY <1>1, <2>1, RowFields
<1>8. CASE Ages
  <2>1. row' \in {Older(row), Quieter(row)}
    BY <1>8, Zenon DEF Ages, ReminderDue, SilenceEnds, Aging, Older, Quieter
  <2> QED BY <1>1, <2>1, AgedRow
<1> QED BY <1>3, <1>4, <1>5, <1>6, <1>7, <1>8, Frames DEF RowStep

\* The recovery of the last incident stays on its way until it has been dealt
\* with as the last of the line, or another incident has begun.
AloneEnds == \E p \in DOMAIN place :
  /\ DOMAIN place = {p} /\ DOMAIN place' = {} /\ poll.pc \notin HoldsPlace
  /\ place[p].kind = "recovery" /\ place[p].inc = incident /\ Delivery(p)

LEMMA EnqueueOut ==
  ASSUME Fits, ReportEnqueue, rep.kind = "recovery"
  PROVE  RecoveryOut'
<1>1. Shape
  BY DEF Fits
<1> DEFINE pc == IF phase = "up" THEN "waiting" ELSE "cancelled"
<1>2. /\ DOMAIN place' = DOMAIN place \cup {Free} /\ tail' = Free
      /\ place'[Free] = [prev |-> tail, kind |-> rep.kind, inc |-> incident, known |-> rep.known, pc |-> pc]
  BY <1>1, ReportFills, EnqueueShape
<1> HIDE DEF pc
<1>3. place'[tail'].kind = "recovery" /\ place'[tail'].inc = incident /\ tail' \in DOMAIN place'
  BY <1>2
<1>4. incident' = incident
  BY DEF ReportEnqueue, history
<1> QED BY <1>3, <1>4 DEF RecoveryOut

LEMMA OutStays ==
  ASSUME Fits, InLine, Answered, Next, Calm', RecoveryOut
  PROVE  RecoveryOut' \/ row'.status = "hard" \/ AloneEnds
<1>1. Shape /\ RoomFits /\ Calm /\ phase = "up" /\ rep \in RepStates /\ RepStep /\ IncidentStep /\ LineStep
  BY CalmFollows, Frames, LineFollows DEF Fits, RepFits
<1>2. ~Kill /\ ~Stop
  <2>1. stops \in 0 .. MaxStops /\ kills \in 0 .. MaxKills /\ MaxStops \in Nat /\ MaxKills \in Nat
    BY AlertConstants DEF Fits, RestFits
  <2> QED BY <2>1 DEF Kill, Stop, Calm
<1>3. CASE ReportHard
  BY <1>3, HardSets
<1>4. CASE rep.pc = "enqueue" /\ rep.kind = "recovery"
  <2>1. CASE ReportEnqueue
    BY <1>4, <2>1, EnqueueOut
  <2>2. CASE ~ReportEnqueue
    <3>1. rep' = rep
      <4>1. ~\E seen \in Seen : ReportGet(seen)
        BY <1>4 DEF ReportGet, Idle
      <4>2. ~ReportStep
        BY <1>4, <2>2 DEF ReportStep, ReportSave, ReportHard, ReportDropDebt, ReportReread, ReportRecovery
      <4>3. Ages => rep' = rep
        <5>1. "read" \notin DOMAIN rep
          BY <1>1, <1>4, RepIs
        <5> QED BY <5>1, Zenon DEF Ages, ReminderDue, SilenceEnds, Aging
      <4> QED BY <1>1, <1>2, <4>1, <4>2, <4>3 DEF RepStep
    <3> QED BY <1>4, <3>1 DEF RecoveryOut
  <2> QED BY <2>1, <2>2
<1>5. CASE ~ReportHard /\ tail \in DOMAIN place /\ place[tail].kind = "recovery" /\ place[tail].inc = incident
  <2>1. incident' = incident
    BY <1>1, <1>5 DEF IncidentStep
  <2>2. tail # None
    BY <1>1, <1>5, PlacesAre DEF Shape
  <2>3. CASE LineStays
    BY <1>5, <2>1, <2>3 DEF LineStays, RecoveryOut
  <2>4. CASE ReportEnqueue
    <3>1. CASE rep.kind = "recovery"
      BY <2>4, <3>1, EnqueueOut
    <3>2. CASE rep.kind = "card"
      BY <1>1, <2>4, <3>2 DEF ReportEnqueue, Answered, db
    <3> QED BY <2>4, <3>1, <3>2, ReportFills
  <2>5. CASE LineSends
    <3>1. PICK p \in DOMAIN place, pc \in Outcomes :
            place' = [place EXCEPT ![p].pc = pc] /\ tail' = tail
      BY <2>5 DEF LineSends
    <3>2. /\ DOMAIN place' = DOMAIN place
          /\ \A q \in DOMAIN place : place'[q].kind = place[q].kind /\ place'[q].inc = place[q].inc
      BY <1>1, <3>1, SendShape
    <3> QED BY <1>5, <2>1, <3>1, <3>2 DEF RecoveryOut
  <2>6. CASE LineDrops \/ PassLeaves
    <3>1. PICK p \in DOMAIN place : /\ Release(p) /\ place[p].prev = None
                                    /\ poll.pc \in HoldsPlace \/ Delivery(p)
                                    /\ poll.pc \in HoldsPlace => place[poll.at].prev = None
      BY <1>1, <2>6 DEF LineDrops, PassLeaves, InLine, RoomFits, Passes, Outcomes
    <3>2. /\ DOMAIN place' = DOMAIN place \ {p} /\ tail' = IF tail = p THEN None ELSE tail
          /\ \A q \in DOMAIN place' : place'[q].kind = place[q].kind /\ place'[q].inc = place[q].inc
      BY <1>1, <3>1, ReleaseShape
    <3>3. CASE tail # p
      BY <1>5, <2>1, <3>2, <3>3 DEF RecoveryOut
    <3>4. CASE tail = p
      <4>1. DOMAIN place = {p}
        BY <1>1, <3>1, <3>4, OneHead DEF InLine
      <4>2. poll.pc \notin HoldsPlace
        BY <1>1, <1>5, <3>4, <4>1 DEF RoomFits, Passes
      <4> QED BY <1>5, <3>1, <3>2, <3>4, <4>1, <4>2 DEF AloneEnds
    <3> QED BY <3>3, <3>4
  <2>7. CASE PassTakes
    BY <2>2, <2>7 DEF PassTakes
  <2> QED BY <1>1, <1>2, <2>3, <2>4, <2>5, <2>6, <2>7 DEF LineStep
<1> QED BY <1>3, <1>4, <1>5 DEF RecoveryOut

LEMMA TalkFollows ==
  ASSUME Next
  PROVE  \/ UNCHANGED <<msgs, owed, heard, carded, closed>>
         \/ ReportDropDebt
         \/ \E p \in DOMAIN place : Delivery(p)
         \/ PollDebtDrop \/ PollDebtDelete \/ PollDebtClear
         \/ \E ok \in BOOLEAN : PollReply(ok)
         \/ \E outcome \in Outcomes : PollCard(outcome)
         \/ DebtAges
<1> USE DEF db, history
<1>1. CASE \E seen \in Seen : ReportGet(seen)
  BY <1>1 DEF ReportGet
<1>2. CASE ReportStep
  BY <1>2 DEF ReportStep, ReportSave, ReportHard, ReportReread, ReportRecovery, ReportEnqueue
<1>3. CASE (\E p \in DOMAIN place : Delivery(p)) \/ DebtAges
  BY <1>3
<1>4. CASE PollStart
  BY <1>4 DEF PollStart
<1>5. CASE PollStep
  <2>1. CASE PollDebtState \/ PollDebtTake \/ PollSelect \/ PollRead \/ PollTake \/ PollReread
             \/ PollMark \/ PollBump
    BY <2>1 DEF PollDebtState, PollDebtTake, PollSelect, PollRead, PollTake, PollReread, PollMark,
                PollBump
  <2>2. CASE \E ok \in BOOLEAN : PollRemind(ok)
    BY <2>2 DEF PollRemind
  <2> QED BY <1>5, <2>1, <2>2 DEF PollStep
<1>6. CASE (\E button \in Buttons : PressGet(button)) \/ PressSave
  BY <1>6 DEF PressGet, PressSave
<1>7. CASE ReminderDue \/ SilenceEnds
  BY <1>7 DEF ReminderDue, SilenceEnds, Aging
<1>8. CASE Stop \/ Restart \/ Kill
  BY <1>8 DEF Stop, Restart, Kill
<1> QED BY <1>1, <1>2, <1>3, <1>4, <1>5, <1>6, <1>7, <1>8 DEF Next, Seen

LEMMA RecoverySends == ReportRecovery => RecoveryOut'
BY DEF ReportRecovery, RecoveryOut

\* Whoever is about to send a card of an incident has an incident that is on.
LEMMA AnsweredReport ==
  ASSUME Fits, Answered, Next, Calm'
  PROVE  rep'.pc = "hard" \/ (rep'.pc = "enqueue" /\ rep'.kind = "card") => row'.status = "hard"
<1>1. Calm /\ ~lost' /\ rep \in RepStates /\ RepStep
  BY CalmFollows, Frames DEF Fits, RepFits
<1>2. rep.pc = "hard" \/ (rep.pc = "enqueue" /\ rep.kind = "card") => row.status = "hard"
  BY <1>1 DEF Answered
<1>3. CASE ReportHard
  BY <1>3, HardSets
<1>4. CASE ReportDropDebt
  BY <1>2, <1>4 DEF ReportDropDebt
<1>5. CASE ReportSave \/ ReportReread \/ ReportRecovery \/ ReportEnqueue \/ Kill
           \/ \E seen \in Seen : ReportGet(seen)
  BY <1>5 DEF ReportSave, ReportReread, ReportRecovery, ReportEnqueue, Kill, ReportGet, Idle
<1>6. CASE rep.pc \in {"got", "recovered"} /\ Ages
  <2>1. "read" \in DOMAIN rep
    BY <1>1, <1>6, RepIs
  <2>2. PICK x : rep' = [rep EXCEPT !.read = x]
    BY <1>6, <2>1, Zenon DEF Ages, ReminderDue, SilenceEnds, Aging
  <2>3. rep'.pc = rep.pc
    BY <1>1, <1>6, <2>2 DEF RepStates, Idle
  <2> QED BY <1>6, <2>3
<1>7. CASE rep' = rep /\ ~ReportHard /\ ~ReportRecovery
  BY <1>1, <1>2, <1>7, StatusFollows
<1>8. rep.pc \notin {"got", "recovered"} /\ Ages => rep' = rep
  <2> SUFFICES ASSUME rep.pc \notin {"got", "recovered"}, Ages PROVE rep' = rep
    OBVIOUS
  <2>1. "read" \notin DOMAIN rep
    BY <1>1, RepIs
  <2> QED BY <2>1, Zenon DEF Ages, ReminderDue, SilenceEnds, Aging
<1> QED BY <1>1, <1>3, <1>4, <1>5, <1>6, <1>7, <1>8 DEF RepStep, ReportStep

LEMMA AnsweredLine ==
  ASSUME Fits, InLine, Answered, Next, Calm', row'.status # "hard"
  PROVE  RecoveryOut' \/ OnlyPass'
<1>1. Shape /\ RoomFits /\ RoomFits' /\ Calm /\ ~lost' /\ phase = "up" /\ LineStep
  BY CalmFollows, LineFollows, FitsStep DEF Fits
<1>2. ReportRecovery \/ row.status # "hard"
  BY <1>1, StatusFollows
<1>3. CASE ReportRecovery
  BY <1>3, RecoverySends
<1>4. CASE RecoveryOut
  BY <1>4, OutStays DEF AloneEnds, OnlyPass
<1>5. CASE row.status # "hard" /\ ~RecoveryOut
  <2>1. OnlyPass
    BY <1>1, <1>5 DEF Answered
  <2>2. \A p \in DOMAIN place : place[p].kind = "pass"
    BY <1>1, <2>1 DEF OnlyPass, RoomFits, Passes
  <2>3. CASE LineStays
    BY <2>1, <2>3 DEF LineStays, PassStays, OnlyPass
  <2>4. CASE ReportEnqueue
    <3>1. rep.kind # "card"
      BY <1>1, <1>5, <2>4 DEF Answered, ReportEnqueue
    <3> QED BY <2>4, <3>1, ReportFills, EnqueueOut
  <2>5. CASE LineSends \/ LineDrops
    BY <2>2, <2>5 DEF LineSends, LineDrops
  <2>6. CASE PassTakes
    <3>1. DOMAIN place = {}
      BY <1>1, <2>6, OneHead DEF PassTakes, InLine
    <3>2. DOMAIN place' = {Free}
      BY <2>6, <3>1 DEF PassTakes, Enqueue
    <3> QED BY <2>6, <3>2 DEF PassTakes, OnlyPass
  <2>7. CASE PassLeaves
    <3>1. DOMAIN place = {poll.at}
      BY <1>1, <2>1, <2>7 DEF PassLeaves, OnlyPass, RoomFits, Passes
    <3>2. DOMAIN place' = {}
      BY <2>7, <3>1 DEF PassLeaves, Release
    <3> QED BY <3>2 DEF OnlyPass
  <2>8. CASE Stop \/ Kill
    <3>1. DOMAIN place' = {} \/ (DOMAIN place' = DOMAIN place /\ poll' = poll)
      BY <1>1, <2>8, StopShape DEF Kill, Stop, hands
    <3> QED BY <2>1, <3>1 DEF OnlyPass
  <2> QED BY <1>1, <2>3, <2>4, <2>5, <2>6, <2>7, <2>8 DEF LineStep
<1> QED BY <1>2, <1>3, <1>4, <1>5

\* How the pass comes to send a card, or to have told a recovery.
LEMMA PassMoves ==
  ASSUME poll \in PollStates, PassStep, poll'.pc \in {"card", "replied"}
  PROVE  \/ poll' = poll
         \/ PollReread /\ StillUnsent(row) /\ poll'.pc = "card"
         \/ PollReply(TRUE) /\ poll'.pc = "replied"
<1>1. ~PollStart /\ ~Kill
  BY DEF PollStart, Kill, Idle
<1>2. ~PollDebtDrop /\ ~PollDebtClear /\ ~PollSelect /\ ~PollRead /\ ~PollMark /\ ~PollBump
  BY DEF PollDebtDrop, PollDebtClear, PollSelect, PollRead, PollMark, PollBump, Idle
<1>3. ~PollDebtTake
  <2>1. PollDebtTake => \/ poll' = [pc |-> "select"]
                        \/ poll' = [pc |-> "reply", debt |-> poll.debt, at |-> Free]
    BY DEF PollDebtTake
  <2> QED BY <2>1
<1>4. ~PollTake
  <2>1. PollTake => poll' = Idle \/ poll' = [pc |-> "reread", inc |-> poll.inc, at |-> Free]
    BY DEF PollTake
  <2> QED BY <2>1 DEF Idle
<1>5. PollReread => StillUnsent(row) /\ poll'.pc = "card"
  <2> SUFFICES ASSUME PollReread PROVE StillUnsent(row) /\ poll'.pc = "card"
    OBVIOUS
  <2>1. poll = [pc |-> "reread", inc |-> poll.inc, at |-> poll.at]
    BY PollIs DEF PollReread
  <2>2. StillUnsent(row)
    BY DEF PollReread, Idle
  <2> QED BY <2>1, <2>2 DEF PollReread
<1>6. ~PollDebtState
  <2>1. PollDebtState => poll = [pc |-> "debt", debt |-> poll.debt]
    BY PollIs DEF PollDebtState
  <2> QED BY <2>1 DEF PollDebtState
<1>7. ~PollDebtDelete
  <2>1. PollDebtDelete => poll = [pc |-> "replied", debt |-> poll.debt, at |-> poll.at]
    BY PollIs DEF PollDebtDelete
  <2> QED BY <2>1 DEF PollDebtDelete
<1>8. ASSUME NEW ok \in BOOLEAN, PollReply(ok)
      PROVE  ok /\ poll'.pc = "replied"
  <2>1. poll = [pc |-> "reply", debt |-> poll.debt, at |-> poll.at]
    BY <1>8, PollIs DEF PollReply
  <2>2. ok
    BY <1>8 DEF PollReply, Idle
  <2> QED BY <1>8, <2>1, <2>2 DEF PollReply
<1>9. ASSUME NEW ok \in BOOLEAN, PollRemind(ok) PROVE FALSE
  BY <1>9 DEF PollRemind, Idle
<1>10. ASSUME NEW outcome \in Outcomes, PollCard(outcome) PROVE FALSE
  BY <1>10 DEF PollCard
<1>11. PollStep => PollReread \/ PollReply(TRUE)
  BY <1>2, <1>3, <1>4, <1>6, <1>7, <1>8, <1>9, <1>10 DEF PollStep
<1>12. PollReply(TRUE) => poll'.pc = "replied"
  BY <1>8
<1> QED BY <1>1, <1>5, <1>11, <1>12 DEF PassStep

LEMMA AnsweredCard ==
  ASSUME Fits, InLine, Answered, Next, Calm', poll'.pc = "card", row'.status # "hard"
  PROVE  RecoveryOut'
<1>1. Calm /\ ~lost' /\ PassStep /\ poll \in PollStates
  BY CalmFollows, Frames DEF Fits, RestFits
<1>2. CASE ReportRecovery
  BY <1>2, RecoverySends
<1>3. CASE ~ReportRecovery
  <2>1. row.status # "hard"
    BY <1>1, <1>3, StatusFollows
  <2>2. poll' = poll
    BY <1>1, <2>1, PassMoves DEF StillUnsent
  <2>3. RecoveryOut /\ poll.pc \in HoldsPlace
    BY <1>1, <2>1, <2>2 DEF Answered, HoldsPlace
  <2> QED BY <2>3, OutStays DEF AloneEnds
<1> QED BY <1>2, <1>3

\* While the pass holds its place as the first, no other delivery is at work.
LEMMA PassAlone ==
  ASSUME Fits, InLine, phase = "up", poll.pc \in HoldsPlace,
         NEW p \in DOMAIN place, place[p].kind # "pass"
  PROVE  ~Turn(p) /\ ~Cancelled(p)
<1>1. poll.at \in DOMAIN place /\ place[poll.at].kind = "pass" /\ place[poll.at].prev = None /\ Shape
  BY DEF Fits, InLine, RoomFits, Passes
<1>2. place[p].prev # None
  BY <1>1, OneHead DEF InLine
<1> QED BY <1>2 DEF InLine, Turn, Cancelled

LEMMA AnsweredReplied ==
  ASSUME Fits, InLine, Answered, Next, Calm', poll'.pc = "replied"
  PROVE  heard' # "card"
<1>1. Calm /\ phase = "up" /\ PassStep /\ poll \in PollStates
  BY CalmFollows, Frames DEF Fits, RestFits
<1>2. CASE PollReply(TRUE)
  <2>1. Reply(poll.debt.inc, TRUE)
    BY <1>2 DEF PollReply
  <2> QED BY <2>1 DEF Reply
<1>3. CASE ~PollReply(TRUE)
  <2>1. poll' = poll
    BY <1>1, <1>3, PassMoves
  <2>2. heard # "card" /\ poll.pc \in HoldsPlace /\ poll.pc = "replied"
    BY <1>1, <2>1 DEF Answered, HoldsPlace
  <2>3. CASE UNCHANGED heard
    BY <2>2, <2>3
  <2>4. CASE \E p \in DOMAIN place : Delivery(p)
    <3>1. PICK p \in DOMAIN place : Delivery(p)
      BY <2>4
    <3>2. CASE \E outcome \in Outcomes : DeliverCard(p, outcome)
      BY <1>1, <2>2, <3>2, PassAlone DEF DeliverCard
    <3>3. CASE \E ok \in BOOLEAN : DeliverRecovery(p, ok)
      BY <1>1, <2>2, <3>3, PassAlone DEF DeliverRecovery
    <3>4. CASE FinishCard(p) \/ FinishRecovery(p)
      BY <2>2, <3>4 DEF FinishCard, FinishRecovery, history
    <3> QED BY <3>1, <3>2, <3>3, <3>4 DEF Delivery
  <2>5. CASE PollDebtDrop \/ PollDebtDelete \/ PollDebtClear \/ \E outcome \in Outcomes : PollCard(outcome)
    BY <2>2, <2>5 DEF PollDebtDrop, PollDebtDelete, PollDebtClear, PollCard, history
  <2>6. CASE DebtAges
    BY <2>2, <2>6 DEF DebtAges, history
  <2>7. CASE ReportDropDebt
    BY <2>2, <2>7 DEF ReportDropDebt, history
  <2>8. CASE PollReply(FALSE)
    BY <1>1, <2>1, <2>2, <2>8 DEF PollReply
  <2> QED BY <1>3, <2>3, <2>4, <2>5, <2>6, <2>7, <2>8, TalkFollows
<1> QED BY <1>2, <1>3

\* A person who has heard of the incident last by its card is owed its recovery
\* once it has ended.
LEMMA AnsweredDebt ==
  ASSUME Fits, InLine, Answered, Next, Calm', row'.status # "hard", msgs' # None, heard' = "card"
  PROVE  RecoveryOut' \/ (owed' # NoDebt /\ owed'.inc = incident')
<1>1. Calm /\ ~lost' /\ phase = "up" /\ poll \in PollStates /\ Shape /\ RoomFits /\ IncidentStep
      /\ owed \in {NoDebt} \cup Debt
  BY CalmFollows, Frames DEF Fits, RestFits
<1>2. CASE ReportRecovery
  BY <1>2, RecoverySends
<1>3. CASE ~ReportRecovery
  <2>1. row.status # "hard" /\ ~ReportHard /\ incident' = incident
    BY <1>1, <1>3, StatusFollows, HardSets DEF IncidentStep
  <2>2. RecoveryOut \/ OnlyPass
    BY <1>1, <2>1 DEF Answered
  <2>3. ASSUME NEW p \in DOMAIN place, place[p].kind # "pass"
        PROVE  RecoveryOut' \/ AloneEnds
    <3>1. RecoveryOut
      BY <1>1, <2>2, <2>3 DEF OnlyPass, RoomFits, Passes
    <3> QED BY <3>1, OutStays
  <2>4. msgs # None /\ heard = "card" => RecoveryOut \/ (owed # NoDebt /\ owed.inc = incident)
    BY <1>1, <2>1 DEF Answered
  <2>5. RecoveryOut => RecoveryOut' \/ AloneEnds
    BY OutStays
  <2>6. CASE ReportDropDebt
    BY <1>1, <2>1, <2>6 DEF ReportDropDebt, Answered
  <2>7. CASE \E p \in DOMAIN place : Delivery(p)
    <3>1. PICK p \in DOMAIN place : Delivery(p)
      BY <2>7
    <3>2. CASE \E outcome \in Outcomes : DeliverCard(p, outcome)
      BY <1>1, <2>3, <3>2 DEF DeliverCard, AloneEnds
    <3>3. CASE \E ok \in BOOLEAN : DeliverRecovery(p, ok)
      BY <1>1, <2>3, <3>3 DEF DeliverRecovery, AloneEnds
    <3>4. CASE FinishCard(p)
      BY <1>1, <2>3, <3>4 DEF FinishCard, AloneEnds
    <3>5. CASE FinishRecovery(p)
      <4>1. RecoveryOut' \/ place[p].inc = incident
        BY <2>3, <3>5 DEF FinishRecovery, AloneEnds
      <4>2. msgs' = msgs /\ msgs # None
        BY <3>5 DEF FinishRecovery
      <4>3. owed' = [inc |-> place[p].inc, old |-> FALSE]
        BY <3>5, <4>2 DEF FinishRecovery, NeverDelivered
      <4>4. place[p].inc # None
        BY <1>1, <3>5, PlacesAre DEF Shape, FinishRecovery, Incidents, None
      <4>5. owed' # NoDebt /\ owed'.inc = place[p].inc
        BY <4>3, <4>4 DEF NoDebt
      <4> QED BY <2>1, <4>1, <4>5
    <3> QED BY <3>1, <3>2, <3>3, <3>4, <3>5 DEF Delivery
  <2>8. CASE PollDebtDrop
    <3>1. heard = "card" /\ msgs' = msgs /\ owed.inc # incident /\ place' = place
      BY <2>8 DEF PollDebtDrop, queue
    <3>2. RecoveryOut
      BY <2>4, <3>1
    <3> QED BY <2>5, <3>1, <3>2 DEF AloneEnds
  <2>9. CASE PollDebtDelete
    BY <1>1, <2>9 DEF PollDebtDelete, Answered, history
  <2>10. CASE PollDebtClear
    <3>1. msgs # None /\ heard = "card" /\ owed' = owed /\ poll.pc \in HoldsPlace
      BY <2>10 DEF PollDebtClear, ClearSentBefore, history, HoldsPlace
    <3> QED BY <2>1, <2>4, <2>5, <3>1 DEF AloneEnds
  <2>11. CASE \E ok \in BOOLEAN : PollReply(ok)
    <3>1. PICK ok \in BOOLEAN : PollReply(ok)
      BY <2>11
    <3>2. msgs' = msgs /\ owed' = owed /\ poll.pc \in HoldsPlace
      BY <3>1 DEF PollReply, db, HoldsPlace
    <3>3. heard = "card"
      BY <3>1 DEF PollReply, Reply
    <3> QED BY <2>1, <2>4, <2>5, <3>2, <3>3 DEF AloneEnds
  <2>12. CASE \E outcome \in Outcomes : PollCard(outcome)
    <3>1. poll.pc = "card" /\ poll.pc \in HoldsPlace
      BY <2>12 DEF PollCard, HoldsPlace
    <3>2. RecoveryOut
      BY <1>1, <2>1, <3>1 DEF Answered
    <3> QED BY <2>5, <3>1, <3>2 DEF AloneEnds
  <2>13. CASE DebtAges
    <3>1. owed \in Debt /\ owed' = [owed EXCEPT !.old = TRUE]
          /\ msgs' = msgs /\ heard' = heard /\ place' = place
      BY <1>1, <2>13 DEF DebtAges, history, queue
    <3>2. owed' # NoDebt /\ owed'.inc = owed.inc
      BY <3>1 DEF Debt, NoDebt
    <3> QED BY <2>1, <2>4, <2>5, <3>1, <3>2 DEF AloneEnds
  <2>14. CASE UNCHANGED <<msgs, owed, heard>>
    <3>1. RecoveryOut \/ (owed' # NoDebt /\ owed'.inc = incident')
      BY <2>1, <2>4, <2>14
    <3>2. CASE AloneEnds
      BY <2>7, <3>2 DEF AloneEnds
    <3> QED BY <2>5, <3>1, <3>2
  <2> QED BY <2>6, <2>7, <2>8, <2>9, <2>10, <2>11, <2>12, <2>13, <2>14, TalkFollows
<1> QED BY <1>2, <1>3

LEMMA AnsweredStep ==
  ASSUME Fits, InLine, Answered, Next
  PROVE  Answered'
<1> SUFFICES ASSUME Calm' PROVE
      /\ phase' = "up"
      /\ rep'.pc = "hard" \/ (rep'.pc = "enqueue" /\ rep'.kind = "card") => row'.status = "hard"
      /\ row'.status # "hard" => RecoveryOut' \/ OnlyPass'
      /\ poll'.pc = "card" => row'.status = "hard" \/ RecoveryOut'
      /\ poll'.pc = "replied" => heard' # "card"
      /\ row'.status # "hard" /\ msgs' # None /\ heard' = "card" =>
           RecoveryOut' \/ (owed' # NoDebt /\ owed'.inc = incident')
  BY DEF Answered
<1>1. phase' = "up"
  BY CalmFollows
<1> QED BY <1>1, AnsweredReport, AnsweredLine, AnsweredCard, AnsweredReplied, AnsweredDebt

-----------------------------------------------------------------------------
(* The theorems.                                                           *)

LEMMA AlertInit ==
  ASSUME Init
  PROVE  AlertInv
<1>1. /\ row = [status |-> "ok", fails |-> 0, oks |-> 0, sent |-> "never", silence |-> "off", acked |-> FALSE]
      /\ msgs = None /\ owed = NoDebt /\ place = <<>> /\ tail = None
      /\ rep = Idle /\ poll = Idle /\ person = Idle
      /\ incident = None /\ carded = {} /\ told = FALSE /\ closed = {} /\ heard = "none"
      /\ lost = FALSE /\ phase = "up" /\ stops = MaxStops /\ kills = MaxKills
      /\ FailThreshold \in Nat /\ RecoveryThreshold \in Nat /\ MaxIncidents \in Nat \ {0}
      /\ MaxStops \in Nat /\ MaxKills \in Nat
  BY AlertConstants DEF Init
<1>2. DOMAIN place = {} /\ Others = {} /\ Passes = {} /\ Cardinality(Others) = 0
  BY <1>1, FS_EmptySet DEF Others, Passes
<1>3. row \in Row /\ row.status = "ok" /\ row.sent = "never"
  BY <1>1 DEF Row
<1>4. RowFits
  BY <1>3 DEF RowFits, GoodRow, MarkFits
<1>5. RepFits /\ PersonFits
  BY <1>1 DEF RepFits, PersonFits, RepStates, PersonStates, Idle
<1>6. poll \in PollStates
  BY <1>1 DEF PollStates, Idle
<1>7. RestFits
  <2>1. None \in 0 .. MaxIncidents /\ stops \in 0 .. MaxStops /\ kills \in 0 .. MaxKills
    BY <1>1 DEF None
  <2>2. carded \cup closed = {}
    BY <1>1
  <2> QED BY <1>1, <1>6, <2>1, <2>2 DEF RestFits
<1>8. Shape
  BY <1>1, <1>2 DEF Shape
<1>9. RoomFits
  <2>1. ~Committed
    BY <1>1 DEF Committed, Idle
  <2> QED BY <1>1, <1>2, <2>1 DEF RoomFits, HoldsPlace, Idle
<1>10. InLine
  BY <1>1, <1>2, EmptyStraight DEF InLine, HoldsPlace, Idle
<1>11. Answered
  BY <1>1, <1>2 DEF Answered, OnlyPass, Idle
<1> QED BY <1>4, <1>5, <1>7, <1>8, <1>9, <1>10, <1>11 DEF AlertInv, Fits

LEMMA AlertStep ==
  ASSUME AlertInv, [Next]_vars
  PROVE  AlertInv'
<1>1. CASE Next
  BY <1>1, FitsStep, InLineStep, AnsweredStep DEF AlertInv
<1>2. CASE UNCHANGED vars
  <2>1. UNCHANGED <<row, msgs, owed, place, tail, rep, poll, person, incident, carded, told, closed,
                    heard, lost, phase, stops, kills>>
    BY <1>2 DEF vars, db, queue, hands, history, world
  <2>2. Straight => Straight'
    BY <2>1, SameStraight
  <2>3. Fits'
    BY <2>1 DEF AlertInv, Fits, RepFits, PersonFits, RowFits, RestFits, Shape, RoomFits, GoodRow,
                MarkFits, Passes, Others, Committed
  <2>4. InLine'
    BY <2>1, <2>2 DEF AlertInv, InLine
  <2>5. Answered'
    BY <2>1 DEF AlertInv, Answered, Calm, RecoveryOut, OnlyPass
  <2> QED BY <2>3, <2>4, <2>5 DEF AlertInv
<1> QED BY <1>1, <1>2

LEMMA AlertInvHolds == Spec => []AlertInv
<1>1. Init => AlertInv
  BY AlertInit
<1>2. AlertInv /\ [Next]_vars => AlertInv'
  BY AlertStep
<1> QED BY <1>1, <1>2, PTL DEF Spec

\* Every variable has its type, and a mark of sending is only on the row of an
\* incident that is on: no delivery, pass or person writes one on a check that
\* works, however late (alerts.Dispatcher, realert.Poller).
THEOREM AlertTypeCorrect == Spec => []AlertTypeOK
<1>1. AlertInv => AlertTypeOK
  <2> SUFFICES ASSUME AlertInv PROVE AlertTypeOK
    OBVIOUS
  <2>1. RepFits /\ PersonFits /\ RowFits /\ RestFits /\ Shape
    BY DEF AlertInv, Fits
  <2>2. row \in Row /\ (row.sent # "never" => row.status = "hard")
    BY <2>1 DEF RowFits, GoodRow, MarkFits
  <2>3. \A hand \in {rep, person} : "read" \in DOMAIN hand => hand.read \in Row
    BY <2>1, RepIs, PersonIs DEF RepFits, PersonFits
  <2>4. owed \in [inc : 0 .. MaxIncidents, old : BOOLEAN]
    <3>1. None \in 0 .. MaxIncidents /\ Incidents \subseteq 0 .. MaxIncidents
      BY AlertConstants DEF None, Incidents
    <3>2. NoDebt \in [inc : 0 .. MaxIncidents, old : BOOLEAN]
      BY <3>1 DEF NoDebt
    <3>3. Debt \subseteq [inc : 0 .. MaxIncidents, old : BOOLEAN]
      BY <3>1 DEF Debt
    <3> QED BY <2>1, <3>2, <3>3 DEF RestFits
  <2>5. ASSUME NEW p \in DOMAIN place
        PROVE place[p] \in [prev : {None} \cup (DOMAIN place \ {p}), kind : {"card", "recovery", "pass"},
                            inc : 0 .. MaxIncidents, known : BOOLEAN,
                            pc : {"waiting", "cancelled"} \cup Outcomes]
    BY <2>1, <2>5 DEF Shape, Slot
  <2> QED BY <2>1, <2>2, <2>3, <2>4, <2>5 DEF AlertTypeOK, RestFits, Shape
<1> QED BY <1>1, AlertInvHolds, PTL

\* Of the deliveries of one check at most one is at work while the backend runs,
\* however many wait, and whoever of them ends (deliveryQueue: EnqueueDelivery,
\* TryEnqueueDelivery, release).
THEOREM OneIsAtWork == Spec => []OneSender
<1>1. AlertInv => OneSender
  <2> SUFFICES ASSUME AlertInv, phase = "up"
               PROVE  Cardinality({p \in DOMAIN place : place[p].prev = None}) <= 1
    BY DEF OneSender
  <2>1. Shape /\ Straight
    BY DEF AlertInv, Fits, InLine
  <2> DEFINE first == {p \in DOMAIN place : place[p].prev = None}
  <2>2. first = {} \/ \E p : first = {p}
    <3>1. \A p, q \in DOMAIN place : place[p].prev = None /\ place[q].prev = None => p = q
      BY <2>1, OneHead
    <3>2. CASE first # {}
      <4>1. PICK p : p \in first
        BY <3>2
      <4>2. \A q \in first : q = p
        BY <3>1, <4>1
      <4>3. first = {p}
        BY <4>1, <4>2
      <4> QED BY <4>3
    <3> QED BY <3>2
  <2>3. \A p : Cardinality({p}) = 1
    BY FS_Singleton
  <2>4. Cardinality(first) \in {0, 1}
    BY <2>2, <2>3, FS_EmptySet
  <2> QED BY <2>4
<1> QED BY <1>1, AlertInvHolds, PTL

\* A person whose last word of a check that works was its red card is owed the
\* recovery, unless a pass has dropped it (deliverRecovery, retryOwedReplies).
THEOREM RedCardIsAnswered == Spec => []RedCardAnswered
<1>1. AlertInv => RedCardAnswered
  <2> SUFFICES ASSUME AlertInv, Quiet, ~lost, stops = MaxStops, kills = MaxKills, row.status = "ok",
                      msgs # None, heard = "card"
               PROVE  owed # NoDebt
    BY DEF RedCardAnswered
  <2>1. Calm /\ row.status # "hard"
    BY DEF Calm
  <2>2. RecoveryOut \/ owed # NoDebt
    BY <2>1 DEF AlertInv, Answered
  <2>3. ~RecoveryOut
    BY DEF Quiet, RecoveryOut, Idle
  <2> QED BY <2>2, <2>3
<1> QED BY <1>1, AlertInvHolds, PTL

-----------------------------------------------------------------------------
(* Cards and recoveries keep their order.                                  *)

\* The order of what is to be said: card 1, recovery 1, card 2, and so on.
Rank(p) == 2 * place[p].inc + (IF place[p].kind = "recovery" THEN 1 ELSE 0)

\* A delivery that may still bring the person something, or has done so.
Live(p) == place[p].pc \in {"waiting", "delivered"}

Cards(k) == {p \in DOMAIN place : place[p].kind = "card" /\ place[p].inc = k}
Recoveries(k) == {p \in DOMAIN place : place[p].kind = "recovery" /\ place[p].inc = k}

\* The report is to put the card, or the recovery, of the last incident in the
\* line; the pass is at the card, or at the owed recovery, of an incident.
CardAhead == rep.pc = "hard" \/ (rep.pc = "enqueue" /\ rep.kind = "card")
RecoveryAhead == rep.pc = "enqueue" /\ rep.kind = "recovery"
PassCard(k) == poll.pc \in {"card", "mark"} /\ poll.inc = k
HasDebt == {"debt", "drop", "take", "reply", "replied", "clear"}
PassDebt(k) == poll.pc \in HasDebt /\ poll.debt.inc = k

\* Whatever is said, owed or to be said is of incidents there were.
Past ==
  /\ carded \cup closed \subseteq 1 .. incident
  /\ \A p \in Others : place[p].inc <= incident
  /\ poll.pc \in {"card", "mark"} => poll.inc <= incident
  /\ poll.pc \in HasDebt => poll.debt.inc <= incident
  /\ owed.inc <= incident /\ msgs <= incident

\* A stop leaves at work the delivery that was, and no other begins.
OneLive == phase = "stopping" => \A p, q \in DOMAIN place : Live(p) /\ Live(q) => p = q

\* The place of the pass is not what is sent.
PassUnsent == \A p \in Passes : place[p].pc \in {"waiting", "cancelled"}

\* Nothing of the recovery of an incident that is on is said, owed or to be
\* said; and once it has no mark its card has left the line, which then holds
\* nothing at all while the backend runs.
StillOn ==
  row.status = "hard" =>
    /\ incident \notin closed /\ Recoveries(incident) = {} /\ ~RecoveryAhead
    /\ owed.inc # incident /\ ~PassDebt(incident)
    /\ row.sent = "never" => Cards(incident) = {} /\ (phase = "up" => Others = {})

\* A card that is yet to enter the line is in nobody else's hands.
NewCard ==
  CardAhead =>
    /\ row.status = "hard" /\ row.sent # "never"
    /\ incident \notin carded /\ Cards(incident) = {} /\ ~PassCard(incident)
    /\ msgs < incident

NewRecovery == RecoveryAhead => Recoveries(incident) = {}

\* A card has one place in the line or is with the pass; the person does not
\* have it before it is sent, nor its recovery.
CardsOnce ==
  /\ \A p, q \in DOMAIN place :
       place[p].kind = "card" /\ place[q].kind = "card" /\ place[p].inc = place[q].inc => p = q
  /\ \A p \in DOMAIN place : place[p].kind = "card" =>
       /\ ~PassCard(place[p].inc) /\ ~PassDebt(place[p].inc)
       /\ phase = "up" => owed.inc # place[p].inc
       /\ place[p].pc \notin {"delivered", "maybe"} => place[p].inc \notin carded
       /\ place[p].pc = "waiting" => place[p].inc \notin closed

\* The pass with a card is before everything that is in the line.
PassFirst ==
  /\ poll.pc = "card" /\ place[poll.at].pc = "waiting" => poll.inc \notin closed /\ msgs <= poll.inc
  /\ phase = "up" /\ poll.pc \in {"card", "mark"} => \A p \in Others : Rank(p) > 2 * poll.inc

\* The line is in the order of what is to be said.
Sorted ==
  phase = "up" =>
    \E n \in Nat : \E s \in [1 .. n -> Places] :
      /\ Chain(n, s)
      /\ \A i, j \in 1 .. n : i < j /\ s[i] \in Others /\ s[j] \in Others => Rank(s[i]) < Rank(s[j])

\* The card that is remembered is not after anything that is still to be said.
Threaded ==
  msgs # None => \A p \in Others : phase = "up" \/ Live(p) => Rank(p) >= 2 * msgs

\* Without a kill, the pass has only cards that nobody got, and a card that
\* somebody got keeps its mark, or is about to get it back.
Unrepeated ==
  kills = MaxKills =>
    /\ poll.pc = "card" => poll.inc \notin carded
    /\ poll.pc = "mark" /\ poll.outcome = "refused" => poll.inc \notin carded
    /\ row.status = "hard" /\ row.sent = "never" /\ incident \in carded =>
         poll.pc = "mark" /\ poll.inc = incident /\ poll.outcome # "refused"

InOrder == /\ StillOn /\ NewCard /\ NewRecovery /\ CardsOnce /\ PassFirst
           /\ Sorted /\ Threaded /\ Unrepeated

CardInv == Past /\ OneLive /\ PassUnsent /\ (~lost => InOrder)

-----------------------------------------------------------------------------
(* What a step says, and who takes part in it.                             *)

SaysNothing == UNCHANGED <<carded, closed, msgs>> /\ owed'.inc \in {owed.inc, None}

SaysCard(p) ==
  /\ place[p].kind = "card" /\ Turn(p) /\ p \in DOMAIN place'
  /\ \/ carded' = carded
     \/ carded' = carded \cup {place[p].inc} /\ place'[p].pc \in {"delivered", "maybe"}
  /\ msgs' = msgs \/ (msgs' = place[p].inc /\ place'[p].pc = "delivered")
  /\ UNCHANGED <<closed, owed, row, hands, incident, phase>>

SaysRecovery(p) ==
  /\ place[p].kind = "recovery" /\ Turn(p)
  /\ closed' \in {closed, closed \cup {place[p].inc}}
  /\ UNCHANGED <<carded, msgs, owed, row, hands, incident, phase>>

EndsRecovery(p) ==
  /\ place[p].kind = "recovery" /\ place[p].pc \in Outcomes
  /\ \/ place[p].pc = "delivered" /\ msgs' = None /\ owed' = owed
     \/ msgs' = msgs /\ owed'.inc \in {owed.inc, place[p].inc}
  /\ UNCHANGED <<carded, closed, row, hands, incident, phase>>

PassSaysRecovery ==
  /\ poll.pc = "reply" /\ closed' \in {closed, closed \cup {poll.debt.inc}}
  /\ UNCHANGED <<carded, msgs, owed, row, rep, incident, phase>>

PassClears ==
  /\ poll.pc = "clear" /\ (msgs' = msgs \/ (msgs' = None /\ msgs <= poll.debt.inc))
  /\ UNCHANGED <<carded, closed, owed, row, rep, incident, phase>>

PassSaysCard ==
  /\ poll.pc = "card" /\ place[poll.at].pc # "cancelled"
  /\ poll'.pc = "mark" /\ poll'.inc = poll.inc
  /\ carded' = carded \/ (carded' = carded \cup {poll.inc} /\ poll'.outcome # "refused")
  /\ msgs' \in {msgs, poll.inc}
  /\ UNCHANGED <<closed, owed, row, place, rep, incident, phase>>

SaidStep == \/ SaysNothing \/ PassSaysRecovery \/ PassClears \/ PassSaysCard
            \/ \E p \in DOMAIN place : SaysCard(p) \/ SaysRecovery(p) \/ EndsRecovery(p)

LEMMA DeliverySays ==
  ASSUME Fits, NEW p \in DOMAIN place, Delivery(p)
  PROVE  SaidStep
<1>1. ASSUME NEW outcome \in Outcomes, DeliverCard(p, outcome)
      PROVE  SaidStep
  <2>1. /\ place[p].kind = "card" /\ SendCard(place[p].inc, outcome)
        /\ place' = [place EXCEPT ![p].pc = outcome]
        /\ UNCHANGED <<closed, owed, row, hands, incident, phase>>
    BY <1>1 DEF DeliverCard, world
  <2>2. CASE Turn(p)
    <3>1. p \in DOMAIN place' /\ place'[p].pc = outcome
      BY <1>1, <2>1, SendShape DEF Fits, DeliverCard
    <3> QED BY <2>1, <2>2, <3>1 DEF SendCard, SaysCard, SaidStep, Outcomes
  <2>3. CASE ~Turn(p)
    BY <1>1, <2>1, <2>3 DEF DeliverCard, SendCard, SaidStep, SaysNothing
  <2> QED BY <2>2, <2>3
<1>2. ASSUME NEW ok \in BOOLEAN, DeliverRecovery(p, ok)
      PROVE  SaidStep
  <2>1. /\ place[p].kind = "recovery"
        /\ (Turn(p) /\ Reply(place[p].inc, ok)) \/ UNCHANGED closed
        /\ UNCHANGED <<carded, msgs, owed, row, hands, incident, phase>>
    BY <1>2 DEF DeliverRecovery, world, db
  <2> QED BY <2>1 DEF Reply, SaidStep, SaysNothing, SaysRecovery
<1>3. ASSUME FinishCard(p)
      PROVE  SaidStep
  BY <1>3 DEF FinishCard, SaidStep, SaysNothing
<1>4. ASSUME FinishRecovery(p)
      PROVE  SaidStep
  BY <1>4 DEF FinishRecovery, SaidStep, EndsRecovery, history, world
<1> QED BY <1>1, <1>2, <1>3, <1>4 DEF Delivery

LEMMA SaidFollows ==
  ASSUME Fits, Next
  PROVE  SaidStep
<1>1. poll \in PollStates /\ Shape /\ RoomFits /\ owed \in {NoDebt} \cup Debt
  BY DEF Fits, RestFits
<1>2. CASE UNCHANGED <<msgs, owed, heard, carded, closed>>
  BY <1>2 DEF SaidStep, SaysNothing
<1>3. CASE ReportDropDebt \/ PollDebtDrop \/ PollDebtDelete
  BY <1>3 DEF ReportDropDebt, PollDebtDrop, PollDebtDelete, history, SaidStep, SaysNothing, NoDebt
<1>4. CASE \E p \in DOMAIN place : Delivery(p)
  BY <1>4, DeliverySays
<1>5. CASE PollDebtClear
  BY <1>5 DEF PollDebtClear, ClearSentBefore, history, world, SaidStep, PassClears
<1>6. CASE \E ok \in BOOLEAN : PollReply(ok)
  <2>1. PICK ok \in BOOLEAN : PollReply(ok)
    BY <1>6
  <2>2. /\ poll.pc = "reply" /\ (Reply(poll.debt.inc, ok) \/ UNCHANGED closed)
        /\ UNCHANGED <<carded, msgs, owed, row, rep, incident, phase>>
    BY <2>1 DEF PollReply, db, world
  <2> QED BY <2>1, <2>2 DEF Reply, SaidStep, PassSaysRecovery, PollReply
<1>7. CASE \E outcome \in Outcomes : PollCard(outcome)
  <2>1. PICK outcome \in Outcomes : PollCard(outcome)
    BY <1>7
  <2>2. /\ poll.pc = "card" /\ SendCard(poll.inc, outcome)
        /\ place[poll.at].pc = "cancelled" => outcome = "refused"
        /\ poll' = [pc |-> "mark", inc |-> poll.inc, at |-> poll.at, outcome |-> outcome]
        /\ UNCHANGED <<closed, owed, row, place, rep, incident, phase>>
    BY <2>1 DEF PollCard, Cancelled, queue, world
  <2>3. poll'.pc = "mark" /\ poll'.inc = poll.inc /\ poll'.outcome = outcome
    BY <2>2
  <2>4. CASE place[poll.at].pc = "cancelled"
    BY <2>2, <2>4 DEF SendCard, SaidStep, SaysNothing
  <2>5. CASE place[poll.at].pc # "cancelled"
    BY <2>2, <2>3, <2>5 DEF SendCard, SaidStep, PassSaysCard
  <2> QED BY <2>4, <2>5
<1>8. CASE DebtAges
  <2>1. owed \in Debt /\ owed' = [owed EXCEPT !.old = TRUE] /\ UNCHANGED <<msgs, carded, closed>>
    BY <1>1, <1>8 DEF DebtAges, history
  <2>2. owed'.inc = owed.inc
    BY <2>1 DEF Debt
  <2> QED BY <2>1, <2>2 DEF SaidStep, SaysNothing
<1> QED BY <1>2, <1>3, <1>4, <1>5, <1>6, <1>7, <1>8, TalkFollows

\* Who writes the row.
LEMMA RowWriters ==
  ASSUME Next
  PROVE  \/ UNCHANGED row
         \/ \E p \in DOMAIN place : FinishCard(p)
         \/ PollMark \/ PollBump
         \/ ReportSave \/ ReportHard \/ ReportRecovery \/ PressSave \/ Ages
<1> USE DEF db
<1>1. CASE \E seen \in Seen : ReportGet(seen)
  BY <1>1 DEF ReportGet
<1>2. CASE ReportStep
  BY <1>2 DEF ReportStep, ReportDropDebt, ReportReread, ReportEnqueue
<1>3. CASE \E p \in DOMAIN place : Delivery(p)
  BY <1>3 DEF Delivery, DeliverCard, DeliverRecovery, FinishRecovery
<1>4. CASE PollStart \/ DebtAges \/ Stop \/ Restart \/ Kill \/ \E button \in Buttons : PressGet(button)
  BY <1>4 DEF PollStart, DebtAges, Stop, Restart, Kill, PressGet
<1>5. CASE PollStep
  <2>1. CASE PollDebtState \/ PollDebtDrop \/ PollDebtTake \/ PollDebtDelete \/ PollDebtClear
             \/ PollSelect \/ PollRead \/ PollTake \/ PollReread
    BY <2>1 DEF PollDebtState, PollDebtDrop, PollDebtTake, PollDebtDelete, PollDebtClear,
                PollSelect, PollRead, PollTake, PollReread
  <2>2. CASE \E ok \in BOOLEAN : PollReply(ok) \/ PollRemind(ok)
    BY <2>2 DEF PollReply, PollRemind
  <2>3. CASE \E outcome \in Outcomes : PollCard(outcome)
    BY <2>3 DEF PollCard
  <2> QED BY <1>5, <2>1, <2>2, <2>3 DEF PollStep
<1>6. CASE PressSave \/ ReminderDue \/ SilenceEnds
  BY <1>6 DEF Ages
<1> QED BY <1>1, <1>2, <1>3, <1>4, <1>5, <1>6 DEF Next, Seen

\* How the row of an incident that is on comes to have no mark.
LEMMA MarkFollows ==
  ASSUME Fits, Next, ~lost', row'.status = "hard", row'.sent = "never"
  PROVE  /\ row.status = "hard"
         /\ \/ row.sent = "never" /\ ~(PollMark /\ poll.outcome # "refused")
            \/ \E p \in DOMAIN place :
                 FinishCard(p) /\ place[p].pc = "refused" /\ place[p].inc = incident
            \/ PollMark /\ poll.outcome = "refused" /\ poll.inc = incident
<1>1. RepFits /\ PersonFits /\ row \in Row /\ Shape
  BY DEF Fits, RowFits, GoodRow
<1>2. rep.pc = "got" => rep.read \in Row /\ rep.seen \in Seen /\ GoodRow(rep.read)
  BY <1>1, RepIs DEF RepFits, GoodRow
<1>3. ASSUME NEW sent \in {"never", "recent"}, NEW inc, Mark(inc, sent)
      PROVE  row.status = "hard" /\ sent = "never" /\ inc = incident
  <2>1. row'.status = row.status
    BY <1>1, <1>3 DEF Mark, Row
  <2>2. row' = [row EXCEPT !.sent = sent] /\ inc = incident
    BY <1>3, <2>1 DEF Mark
  <2>3. row'.sent = sent
    BY <1>1, <2>2 DEF Row
  <2> QED BY <2>1, <2>2, <2>3
<1>4. CASE PollMark
  <2>1. MarkCard(poll.inc, poll.outcome)
    BY <1>4 DEF PollMark
  <2> QED BY <1>3, <1>4, <2>1 DEF MarkCard, ClearLastAlertAt, BumpLastAlertAt
<1>5. CASE \E p \in DOMAIN place : FinishCard(p)
  <2>1. PICK p \in DOMAIN place : FinishCard(p)
    BY <1>5
  <2>2. MarkCard(place[p].inc, place[p].pc)
    BY <2>1 DEF FinishCard
  <2> QED BY <1>3, <2>1, <2>2 DEF MarkCard, ClearLastAlertAt, BumpLastAlertAt
<1>6. CASE PollBump
  BY <1>3, <1>6 DEF PollBump, BumpLastAlertAt
<1>7. CASE UNCHANGED row /\ ~PollMark
  BY <1>7
<1>8. CASE ReportSave /\ ~PollMark
  <2>1. /\ rep.pc = "got" /\ row' = Transition(rep.read, rep.seen).next /\ row = rep.read
        /\ Transition(rep.read, rep.seen).kind \in {"noop", "soft", "soft_flap"}
    BY <1>8 DEF ReportSave, Save
  <2>2. row.status = "hard"
    BY <1>2, <2>1, TransitionFacts
  <2>3. Transition(rep.read, rep.seen).next.sent = rep.read.sent
    BY <1>2, <2>1, <2>2, TransitionFacts
  <2> QED BY <1>8, <2>1, <2>2, <2>3
<1>9. CASE ReportHard \/ ReportRecovery
  <2>1. CASE ReportHard
    <3>1. /\ rep.pc = "got" /\ row' = Transition(rep.read, rep.seen).next
          /\ Transition(rep.read, rep.seen).kind = "hard"
      BY <2>1 DEF ReportHard, Save
    <3> QED BY <1>2, <3>1, TransitionFacts
  <2>2. CASE ReportRecovery
    <3>1. /\ rep.pc = "recovered" /\ rep.read \in Row /\ rep.seen \in Seen /\ GoodRow(rep.read)
          /\ Transition(rep.read, rep.seen).kind = "recovery"
          /\ row' = [Transition(rep.read, rep.seen).next EXCEPT !.sent = "never"]
      BY <1>1, <2>2, RepIs DEF ReportRecovery, Save, RepFits, GoodRow
    <3>2. Transition(rep.read, rep.seen).next \in Row /\ Transition(rep.read, rep.seen).next.status = "ok"
      BY <3>1, TransitionFacts
    <3>3. row'.status = "ok"
      BY <3>1, <3>2, RowFields
    <3> QED BY <3>3
  <2> QED BY <1>9, <2>1, <2>2
<1>10. CASE PressSave /\ ~PollMark
  <2>1. /\ person # Idle /\ row = person.read
        /\ row' = IF person.pc = "silence" THEN [person.read EXCEPT !.silence = "on"]
                  ELSE [person.read EXCEPT !.acked = TRUE]
    BY <1>10 DEF PressSave, Save, ApplySilence, ApplyAck
  <2>2. row'.status = row.status /\ row'.sent = row.sent
    BY <1>1, <2>1, RowFields
  <2> QED BY <1>10, <2>2
<1>11. CASE Ages /\ ~PollMark
  <2>1. \/ row.sent = "recent" /\ row' = Older(row)
        \/ row' = Quieter(row)
    BY <1>11, Zenon DEF Ages, ReminderDue, SilenceEnds, Aging, Older, Quieter
  <2>2. row.sent = "recent" => Older(row).sent = "due"
    BY <1>1 DEF Older, Row
  <2>3. Quieter(row).sent = row.sent /\ Quieter(row).status = row.status
    BY <1>1 DEF Quieter, Row
  <2> QED BY <1>11, <2>1, <2>2, <2>3
<1> QED BY <1>4, <1>5, <1>6, <1>7, <1>8, <1>9, <1>10, <1>11, RowWriters

\* What the report has in hand, it has had since the incident began or ended.
LEMMA ReportFollows ==
  ASSUME Fits, Next
  PROVE  /\ CardAhead' => (CardAhead /\ ~ReportEnqueue) \/ ReportHard
         /\ RecoveryAhead' => (RecoveryAhead /\ ~ReportEnqueue) \/ ReportRecovery
<1>1. rep \in RepStates /\ RepStep
  BY Frames DEF Fits, RepFits
<1>2. CASE ReportEnqueue \/ ReportSave \/ Kill \/ \E seen \in Seen : ReportGet(seen)
  BY <1>2 DEF ReportEnqueue, ReportSave, Kill, ReportGet, CardAhead, RecoveryAhead, Idle
<1>3. CASE ReportHard
  BY <1>3 DEF ReportHard, CardAhead, RecoveryAhead
<1>4. CASE ReportDropDebt
  BY <1>4 DEF ReportDropDebt, ReportEnqueue, CardAhead, RecoveryAhead
<1>5. CASE ReportReread
  BY <1>5 DEF ReportReread, CardAhead, RecoveryAhead
<1>6. CASE ReportRecovery
  BY <1>6 DEF ReportRecovery, CardAhead, RecoveryAhead
<1>7. CASE Ages
  <2>1. ~ReportEnqueue \/ rep' = Idle
    BY DEF ReportEnqueue
  <2>2. CASE rep.pc \notin {"got", "recovered"}
    <3>1. rep' = rep
      BY <1>1, <1>7, <2>2, RepIs, Zenon DEF Ages, ReminderDue, SilenceEnds, Aging
    <3> QED BY <2>1, <3>1 DEF CardAhead, RecoveryAhead, Idle
  <2>3. CASE rep.pc \in {"got", "recovered"}
    <3>1. "read" \in DOMAIN rep
      BY <1>1, <2>3, RepIs
    <3>2. PICK x : rep' = [rep EXCEPT !.read = x]
      BY <1>7, <3>1, Zenon DEF Ages, ReminderDue, SilenceEnds, Aging
    <3>3. rep'.pc = rep.pc
      BY <1>1, <2>3, <3>2 DEF RepStates, Idle
    <3> QED BY <2>3, <3>3 DEF CardAhead, RecoveryAhead
  <2> QED BY <2>2, <2>3
<1>8. CASE UNCHANGED rep
  BY <1>8 DEF ReportEnqueue, CardAhead, RecoveryAhead, Idle
<1> QED BY <1>1, <1>2, <1>3, <1>4, <1>5, <1>6, <1>7, <1>8 DEF RepStep, ReportStep

\* Where the pass has its card and its debt from, and how it ends its card.
LEMMA PassFollows ==
  ASSUME poll \in PollStates, PassStep
  PROVE  /\ poll'.pc = "card" =>
              poll' = poll \/ (PollReread /\ StillUnsent(row) /\ poll'.inc = incident)
         /\ poll'.pc = "mark" => poll' = poll \/ (poll.pc = "card" /\ poll'.inc = poll.inc)
         /\ poll'.pc \in HasDebt =>
              \/ poll.pc \in HasDebt /\ poll'.debt = poll.debt
              \/ PollStart /\ poll'.debt = owed
         /\ poll.pc = "mark" => poll' = poll \/ PollMark \/ Kill
<1> DEFINE Goal == /\ poll'.pc = "card" =>
                        poll' = poll \/ (PollReread /\ StillUnsent(row) /\ poll'.inc = incident)
                   /\ poll'.pc = "mark" => poll' = poll \/ (poll.pc = "card" /\ poll'.inc = poll.inc)
                   /\ poll'.pc \in HasDebt =>
                        \/ poll.pc \in HasDebt /\ poll'.debt = poll.debt
                        \/ PollStart /\ poll'.debt = owed
                   /\ poll.pc = "mark" => poll' = poll \/ PollMark \/ Kill
<1>1. CASE PollStart
  BY <1>1 DEF PollStart, HasDebt, Idle
<1>2. CASE Kill \/ PollMark \/ PollBump \/ PollSelect \/ PollRead
  BY <1>2 DEF Kill, PollMark, PollBump, PollSelect, PollRead, HasDebt, Idle
<1>3. CASE PollDebtDrop \/ PollDebtClear \/ \E ok \in BOOLEAN : PollRemind(ok)
  BY <1>3 DEF PollDebtDrop, PollDebtClear, PollRemind, HasDebt, Idle
<1>4. CASE PollDebtState
  <2>1. poll = [pc |-> "debt", debt |-> poll.debt]
    BY <1>4, PollIs DEF PollDebtState
  <2> QED BY <1>4, <2>1 DEF PollDebtState, HasDebt
<1>5. CASE PollDebtTake
  <2>1. /\ poll.pc = "take"
        /\ poll' = [pc |-> "select"] \/ poll' = [pc |-> "reply", debt |-> poll.debt, at |-> Free]
    BY <1>5, Zenon DEF PollDebtTake
  <2> QED BY <2>1 DEF HasDebt
<1>6. CASE PollDebtDelete
  <2>1. poll = [pc |-> "replied", debt |-> poll.debt, at |-> poll.at]
    BY <1>6, PollIs DEF PollDebtDelete
  <2> QED BY <1>6, <2>1 DEF PollDebtDelete, HasDebt
<1>7. CASE \E ok \in BOOLEAN : PollReply(ok)
  <2>1. poll = [pc |-> "reply", debt |-> poll.debt, at |-> poll.at]
    BY <1>7, PollIs DEF PollReply
  <2> QED BY <1>7, <2>1 DEF PollReply, HasDebt, Idle
<1>8. CASE PollTake
  <2>1. /\ poll.pc = "try"
        /\ poll' = Idle \/ poll' = [pc |-> "reread", inc |-> poll.inc, at |-> Free]
    BY <1>8, Zenon DEF PollTake
  <2> QED BY <2>1 DEF HasDebt, Idle
<1>9. CASE PollReread
  <2>1. poll = [pc |-> "reread", inc |-> poll.inc, at |-> poll.at]
    BY <1>9, PollIs DEF PollReread
  <2>2. \/ StillUnsent(row) /\ poll' = [poll EXCEPT !.pc = "card", !.inc = incident]
        \/ poll' = Idle
    BY <1>9, Zenon DEF PollReread
  <2> DEFINE x == [poll EXCEPT !.pc = "card"]
             y == [x EXCEPT !.inc = incident]
  <2>3. [poll EXCEPT !.pc = "card", !.inc = incident] = y
    OBVIOUS
  <2>4. x = [pc |-> "card", inc |-> poll.inc, at |-> poll.at]
    BY <2>1
  <2> HIDE DEF x
  <2>5. y.pc = "card" /\ y.inc = incident
    BY <2>4
  <2> HIDE DEF y
  <2>6. CASE poll' = Idle
    BY <1>9, <2>6 DEF PollReread, HasDebt, Idle
  <2>7. CASE StillUnsent(row) /\ poll' = y
    <3>1. poll'.pc = "card" /\ poll'.inc = incident /\ poll.pc = "reread"
      BY <2>1, <2>5, <2>7
    <3> QED BY <1>9, <2>7, <3>1 DEF HasDebt
  <2> QED BY <2>2, <2>3, <2>6, <2>7
<1>10. CASE \E outcome \in Outcomes : PollCard(outcome)
  BY <1>10 DEF PollCard, HasDebt
<1>11. CASE UNCHANGED poll
  BY <1>11
<1> QED BY <1>1, <1>2, <1>3, <1>4, <1>5, <1>6, <1>7, <1>8, <1>9, <1>10, <1>11 DEF PassStep, PollStep

\* A delivery of the line stays what it is, and goes from waiting to its end; the
\* place is new only for the report's delivery, or for the pass.
Kept(q) ==
  /\ q \in DOMAIN place /\ place'[q].kind = place[q].kind /\ place'[q].inc = place[q].inc
  /\ \/ place'[q].pc = place[q].pc
     \/ /\ place[q].pc \in {"waiting", "cancelled"} /\ place'[q].pc \in Outcomes \cup {"cancelled"}
        /\ place[q].kind = "pass" => place'[q].pc = "cancelled"
        /\ place[q].pc = "cancelled" => place'[q].pc \in {"refused", "cancelled"}

Begun(q) ==
  /\ q \notin DOMAIN place /\ q = Free
  /\ place'[q].pc = IF phase = "up" THEN "waiting" ELSE "cancelled"
  /\ \/ ReportEnqueue /\ place'[q].kind = rep.kind /\ place'[q].inc = incident
     \/ place'[q].kind = "pass"

LEMMA PlaceFollows ==
  ASSUME Fits, InLine, Next, NEW q \in DOMAIN place'
  PROVE  Kept(q) \/ Begun(q)
<1>1. Shape /\ RoomFits /\ LineStep
  BY LineFollows DEF Fits
<1>2. CASE LineStays
  BY <1>2 DEF LineStays, Kept
<1>3. CASE ReportEnqueue
  <2>1. /\ DOMAIN place' = DOMAIN place \cup {Free} /\ Free \notin DOMAIN place
        /\ \A p \in DOMAIN place : place'[p] = place[p]
        /\ place'[Free] = [prev |-> tail, kind |-> rep.kind, inc |-> incident, known |-> rep.known,
                           pc |-> IF phase = "up" THEN "waiting" ELSE "cancelled"]
    BY <1>1, <1>3, ReportFills, EnqueueShape
  <2> QED BY <1>3, <2>1 DEF Kept, Begun
<1>4. CASE LineSends
  <2>1. PICK p \in DOMAIN place, pc \in Outcomes :
          /\ place[p].kind # "pass" /\ (Turn(p) \/ (Cancelled(p) /\ pc = "refused"))
          /\ place' = [place EXCEPT ![p].pc = pc] /\ tail' = tail
    BY <1>4 DEF LineSends
  <2>2. /\ DOMAIN place' = DOMAIN place
        /\ \A x \in DOMAIN place :
              /\ place'[x].kind = place[x].kind /\ place'[x].inc = place[x].inc
              /\ place'[x].pc = IF x = p THEN pc ELSE place[x].pc
    BY <1>1, <2>1, SendShape
  <2> QED BY <2>1, <2>2 DEF Kept, Turn, Cancelled
<1>5. CASE LineDrops \/ PassLeaves
  <2>1. PICK p \in DOMAIN place : Release(p)
    BY <1>1, <1>5 DEF LineDrops, PassLeaves, RoomFits, Passes
  <2> QED BY <1>1, <2>1, ReleaseShape DEF Kept
<1>6. CASE PassTakes
  <2>1. Free \in Places /\ Free \notin DOMAIN place /\ None \in 0 .. MaxIncidents
    BY <1>6, RoomGives, NoIncident DEF PassTakes
  <2>2. /\ DOMAIN place' = DOMAIN place \cup {Free}
        /\ \A p \in DOMAIN place : place'[p] = place[p]
        /\ place'[Free] = [prev |-> tail, kind |-> "pass", inc |-> None, known |-> FALSE,
                           pc |-> IF phase = "up" THEN "waiting" ELSE "cancelled"]
    BY <1>1, <1>6, <2>1, EnqueueShape DEF PassTakes
  <2> QED BY <2>1, <2>2 DEF Kept, Begun
<1>7. CASE Stop
  <2>1. /\ q \in DOMAIN place /\ phase = "up"
        /\ place'[q] = IF place[q].prev = None THEN place[q] ELSE [place[q] EXCEPT !.pc = "cancelled"]
        /\ place[q] \in Slot
    BY <1>1, <1>7 DEF Stop, Shape
  <2>2. CASE place[q].prev = None
    BY <2>1, <2>2 DEF Kept
  <2>3. CASE place[q].prev # None
    <3>1. place[q].pc = "waiting"
      BY <2>1, <2>3 DEF InLine
    <3>2. /\ place'[q].kind = place[q].kind /\ place'[q].inc = place[q].inc
          /\ place'[q].pc = "cancelled"
      BY <2>1, <2>3 DEF Slot
    <3> QED BY <2>1, <3>1, <3>2 DEF Kept
  <2> QED BY <2>2, <2>3
<1>8. CASE Kill
  BY <1>8 DEF Kill
<1> QED BY <1>1, <1>2, <1>3, <1>4, <1>5, <1>6, <1>7, <1>8 DEF LineStep

LEMMA IncidentFollows ==
  ASSUME Fits, Next
  PROVE  /\ UNCHANGED incident \/ (ReportHard /\ incident' = incident + 1 /\ UNCHANGED <<place, poll, phase>>)
         /\ incident \in Nat /\ incident' \in Nat /\ incident <= incident'
<1>1. incident \in Nat /\ (UNCHANGED incident \/ ReportHard)
  BY Frames DEF Fits, RestFits, IncidentStep
<1> QED BY <1>1 DEF ReportHard, queue, world

\* Incidents are numbers wherever they are named.
LEMMA Numbers ==
  ASSUME Fits
  PROVE  /\ \A p \in Others : place[p].inc \in Nat \ {0} /\ place[p].kind \in {"card", "recovery"}
         /\ poll.pc = "card" => poll.inc \in Nat \ {0}
         /\ poll.pc = "mark" => poll.inc \in Nat
         /\ poll.pc \in HasDebt => poll.debt \in Debt /\ poll.debt.inc \in Nat \ {0}
         /\ owed.inc \in Nat /\ msgs \in Nat /\ incident \in Nat
         /\ row.status = "hard" => incident # None
         /\ carded \cup closed \subseteq Nat \ {0}
         /\ Incidents \subseteq Nat \ {0}
         /\ row \in Row
<1>1. /\ poll \in PollStates /\ Shape /\ msgs \in 0 .. MaxIncidents /\ owed \in {NoDebt} \cup Debt
      /\ incident \in 0 .. MaxIncidents /\ carded \cup closed \subseteq Incidents
      /\ RowFits /\ MaxIncidents \in Nat
  BY AlertConstants DEF Fits, RestFits
<1>2. Incidents \subseteq Nat \ {0}
  BY <1>1 DEF Incidents
<1>3. \A p \in Others : place[p].inc \in Nat \ {0} /\ place[p].kind \in {"card", "recovery"}
  BY <1>1, <1>2 DEF Others, Shape, Slot
<1>4. owed.inc \in Nat
  <2>1. CASE owed = NoDebt
    BY <2>1 DEF NoDebt, None
  <2>2. CASE owed \in Debt
    BY <1>2, <2>2 DEF Debt
  <2> QED BY <1>1, <2>1, <2>2
<1>5. poll.pc \in HasDebt => poll.debt \in Debt /\ poll.debt.inc \in Nat \ {0}
  BY <1>1, <1>2, PollIs DEF HasDebt, Debt
<1>6. /\ poll.pc = "card" => poll.inc \in Nat \ {0}
      /\ poll.pc = "mark" => poll.inc \in Nat
  BY <1>1, <1>2, PollIs
<1>7. row.status = "hard" => incident # None
  BY <1>1, <1>2 DEF RowFits, None
<1>8. row \in Row
  BY <1>1 DEF RowFits, GoodRow
<1>9. msgs \in Nat /\ incident \in Nat /\ carded \cup closed \subseteq Nat \ {0}
  <2>1. msgs \in 0 .. MaxIncidents /\ incident \in 0 .. MaxIncidents /\ MaxIncidents \in Nat
    BY <1>1
  <2>2. carded \cup closed \subseteq Incidents
    BY <1>1
  <2>3. msgs \in Nat /\ incident \in Nat
    BY <2>1
  <2> QED BY <1>2, <2>2, <2>3
<1> QED BY <1>2, <1>3, <1>4, <1>5, <1>6, <1>7, <1>8, <1>9

LEMMA PastStep ==
  ASSUME Fits, InLine, Past, Next
  PROVE  Past'
<1>1. /\ SaidStep /\ incident \in Nat /\ incident' \in Nat /\ incident <= incident'
      /\ UNCHANGED incident \/ (ReportHard /\ UNCHANGED <<place, poll>>)
  BY SaidFollows, IncidentFollows
<1>2. Fits' /\ poll \in PollStates /\ PassStep
  BY FitsStep, Frames DEF Fits, RestFits
<1>3. \A p \in Others : place[p].inc \in Nat /\ place[p].inc <= incident'
  BY <1>1, Numbers DEF Past
<1>4. /\ poll.pc \in {"card", "mark"} => poll.inc \in Nat /\ poll.inc <= incident'
      /\ poll.pc \in HasDebt => poll.debt.inc \in Nat /\ poll.debt.inc <= incident'
      /\ owed.inc \in Nat /\ owed.inc <= incident' /\ msgs \in Nat /\ msgs <= incident'
  BY <1>1, Numbers DEF Past
<1>5. carded \cup closed \subseteq Nat \ {0} /\ \A k \in carded \cup closed : k <= incident'
  <2>1. carded \cup closed \subseteq Nat \ {0}
    BY Numbers
  <2> QED BY <1>1, <2>1 DEF Past
<1>6. \A k \in carded' \cup closed' : k <= incident'
  <2>1. CASE SaysNothing \/ PassClears
    BY <1>5, <2>1 DEF SaysNothing, PassClears
  <2>2. CASE PassSaysRecovery \/ PassSaysCard
    BY <1>4, <1>5, <2>2 DEF PassSaysRecovery, PassSaysCard, HasDebt
  <2>3. CASE \E p \in DOMAIN place : SaysCard(p) \/ SaysRecovery(p) \/ EndsRecovery(p)
    <3>1. PICK p \in DOMAIN place : SaysCard(p) \/ SaysRecovery(p) \/ EndsRecovery(p)
      BY <2>3
    <3>2. p \in Others
      BY <3>1 DEF SaysCard, SaysRecovery, EndsRecovery, Others
    <3> QED BY <1>3, <1>5, <3>1, <3>2 DEF SaysCard, SaysRecovery, EndsRecovery
  <2> QED BY <1>1, <2>1, <2>2, <2>3 DEF SaidStep
<1>7. carded' \cup closed' \subseteq 1 .. incident'
  <2>1. carded' \cup closed' \subseteq Nat \ {0}
    BY <1>2, Numbers, AlertConstants DEF Fits, RestFits, Incidents
  <2> QED BY <1>1, <1>6, <2>1
<1>8. owed'.inc <= incident' /\ msgs' <= incident'
  <2>1. CASE SaysNothing \/ PassSaysRecovery \/ PassClears
    BY <1>1, <1>4, <2>1 DEF SaysNothing, PassSaysRecovery, PassClears, None
  <2>2. CASE PassSaysCard
    BY <1>4, <2>2 DEF PassSaysCard
  <2>3. CASE \E p \in DOMAIN place : SaysCard(p) \/ SaysRecovery(p) \/ EndsRecovery(p)
    <3>1. PICK p \in DOMAIN place : SaysCard(p) \/ SaysRecovery(p) \/ EndsRecovery(p)
      BY <2>3
    <3>2. p \in Others
      BY <3>1 DEF SaysCard, SaysRecovery, EndsRecovery, Others
    <3> QED BY <1>1, <1>3, <1>4, <3>1, <3>2 DEF SaysCard, SaysRecovery, EndsRecovery, None
  <2> QED BY <1>1, <2>1, <2>2, <2>3 DEF SaidStep
<1>9. ASSUME NEW p \in Others'
      PROVE  place'[p].inc <= incident'
  <2>1. p \in DOMAIN place' /\ place'[p].kind # "pass"
    BY <1>9 DEF Others
  <2>2. CASE Kept(p)
    BY <1>3, <2>1, <2>2 DEF Kept, Others
  <2>3. CASE Begun(p)
    BY <1>1, <2>1, <2>3 DEF Begun
  <2> QED BY <2>1, <2>2, <2>3, PlaceFollows
<1>10. poll'.pc \in {"card", "mark"} => poll'.inc <= incident'
  BY <1>1, <1>2, <1>4, PassFollows
<1>11. poll'.pc \in HasDebt => poll'.debt.inc <= incident'
  BY <1>2, <1>4, PassFollows
<1> QED BY <1>6, <1>7, <1>8, <1>9, <1>10, <1>11 DEF Past

\* What is alive after a step was alive before it, unless the backend runs.
LEMMA LiveBefore ==
  ASSUME NEW q, Kept(q), Live(q)'
  PROVE  Live(q)
BY DEF Kept, Live, Outcomes

LEMMA OneLiveStep ==
  ASSUME Fits, InLine, OneLive, Next
  PROVE  OneLive'
<1> SUFFICES ASSUME phase' = "stopping", NEW p \in DOMAIN place', NEW q \in DOMAIN place',
                    Live(p)', Live(q)'
             PROVE  p = q
  BY DEF OneLive
<1>1. CASE phase = "stopping"
  <2>1. ASSUME NEW x \in DOMAIN place', Live(x)' PROVE x \in DOMAIN place /\ Live(x)
    <3>1. CASE Kept(x)
      BY <2>1, <3>1, LiveBefore DEF Kept
    <3>2. CASE Begun(x)
      BY <1>1, <2>1, <3>2 DEF Begun, Live
    <3> QED BY <2>1, <3>1, <3>2, PlaceFollows
  <2> QED BY <1>1, <2>1 DEF OneLive
<1>2. CASE phase # "stopping"
  <2>1. Stop /\ phase = "up"
    <3>1. WorldStep
      BY WorldFollows
    <3> QED BY <1>2, <3>1 DEF WorldStep, Restart, Kill, Stop
  <2>2. Shape /\ Straight /\ \A x \in DOMAIN place : place[x].prev # None => place[x].pc = "waiting"
    BY <2>1 DEF Fits, InLine
  <2>3. DOMAIN place' = DOMAIN place
    BY <2>1, <2>2, StopShape
  <2>4. ASSUME NEW x \in DOMAIN place, Live(x)' PROVE place[x].prev = None
    <3>1. SUFFICES ASSUME place[x].prev # None PROVE FALSE
      OBVIOUS
    <3>2. place'[x] = [place[x] EXCEPT !.pc = "cancelled"] /\ place[x] \in Slot
      BY <2>1, <2>2, <3>1 DEF Stop, Shape
    <3>3. place'[x].pc = "cancelled"
      BY <3>2 DEF Slot
    <3> QED BY <2>4, <3>3 DEF Live
  <2> QED BY <2>2, <2>3, <2>4, OneHead
<1> QED BY <1>1, <1>2

LEMMA PassUnsentStep ==
  ASSUME Fits, InLine, PassUnsent, Next
  PROVE  PassUnsent'
<1> SUFFICES ASSUME NEW p \in DOMAIN place', place'[p].kind = "pass"
             PROVE  place'[p].pc \in {"waiting", "cancelled"}
  BY DEF PassUnsent, Passes
<1>1. CASE Kept(p)
  BY <1>1 DEF Kept, PassUnsent, Passes
<1>2. CASE Begun(p)
  BY <1>2 DEF Begun
<1> QED BY <1>1, <1>2, PlaceFollows

-----------------------------------------------------------------------------
(* The order is kept, step by step, while no update of the row is lost.    *)

Sound == Fits /\ InLine /\ Past /\ OneLive /\ PassUnsent /\ InOrder

LEMMA Ranks ==
  ASSUME Fits, NEW p \in Others
  PROVE  /\ Rank(p) \in Nat /\ place[p].inc \in Nat \ {0}
         /\ Rank(p) = 2 * place[p].inc \/ Rank(p) = 2 * place[p].inc + 1
         /\ place[p].kind = "card" => Rank(p) = 2 * place[p].inc
         /\ place[p].kind = "recovery" => Rank(p) = 2 * place[p].inc + 1
         /\ place[p].kind \in {"card", "recovery"}
<1>1. place[p].inc \in Nat \ {0} /\ place[p].kind \in {"card", "recovery"}
  BY Numbers
<1> QED BY <1>1 DEF Rank

\* Nothing in the line is to be said before its first.
LEMMA FirstLeast ==
  ASSUME Shape, Sorted, phase = "up", NEW p \in Others, place[p].prev = None,
         NEW q \in Others, q # p
  PROVE  Rank(p) < Rank(q)
<1>1. PICK n \in Nat : \E s \in [1 .. n -> Places] :
        /\ Chain(n, s)
        /\ \A i, j \in 1 .. n : i < j /\ s[i] \in Others /\ s[j] \in Others => Rank(s[i]) < Rank(s[j])
  BY DEF Sorted
<1>2. PICK s \in [1 .. n -> Places] :
        /\ Chain(n, s)
        /\ \A i, j \in 1 .. n : i < j /\ s[i] \in Others /\ s[j] \in Others => Rank(s[i]) < Rank(s[j])
  BY <1>1
<1>3. p \in DOMAIN place /\ q \in DOMAIN place /\ None \notin DOMAIN place
  BY PlacesAre DEF Others, Shape
<1>4. 1 \in 1 .. n /\ p = s[1]
  BY <1>2, <1>3, HeadFirst
<1>5. PICK j \in 1 .. n : s[j] = q
  BY <1>2, <1>3 DEF Chain
<1>6. 1 < j
  BY <1>4, <1>5
<1> QED BY <1>2, <1>4, <1>5, <1>6

LEMMA UpBefore ==
  ASSUME Next, phase' = "up"
  PROVE  \/ phase = "up" /\ ~Stop /\ ~Kill /\ ~Restart
         \/ DOMAIN place' = {} /\ poll' = Idle /\ (Restart \/ Kill)
<1>1. WorldStep
  BY WorldFollows
<1>2. CASE Restart
  BY <1>2 DEF Restart, queue, hands
<1>3. CASE Kill
  BY <1>3 DEF Kill
<1>4. ~Stop
  BY DEF Stop
<1> QED BY <1>1, <1>2, <1>3, <1>4 DEF WorldStep

\* What the report's recovery does to the status.
LEMMA RecoveryEnds ==
  ASSUME Fits, ReportRecovery, ~lost'
  PROVE  row.status = "hard" /\ row'.status # "hard" /\ UNCHANGED <<place, incident, phase>>
<1>1. /\ rep.pc = "recovered" /\ rep.read \in Row /\ rep.seen \in Seen /\ GoodRow(rep.read)
      /\ Transition(rep.read, rep.seen).kind = "recovery"
      /\ row' = [Transition(rep.read, rep.seen).next EXCEPT !.sent = "never"]
      /\ row = [rep.read EXCEPT !.sent = row.sent]
      /\ UNCHANGED <<place, incident, phase>>
  BY RepIs DEF Fits, ReportRecovery, Save, RepFits, GoodRow, queue, world
<1>2. /\ rep.read.status = "hard" /\ Transition(rep.read, rep.seen).next \in Row
      /\ Transition(rep.read, rep.seen).next.status = "ok"
  BY <1>1, TransitionFacts
<1>3. row'.status = "ok"
  BY <1>1, <1>2, RowFields
<1>4. row.status = rep.read.status
  <2>1. row.sent \in {"never", "recent", "due"}
    BY DEF Fits, RowFits, GoodRow, Row
  <2> DEFINE x == [rep.read EXCEPT !.sent = row.sent]
  <2>2. x.status = rep.read.status
    BY <1>1, <2>1, RowFields
  <2>3. row = x
    BY <1>1
  <2> HIDE DEF x
  <2> QED BY <2>2, <2>3
<1> QED BY <1>1, <1>2, <1>3, <1>4

LEMMA HardBegins ==
  ASSUME Fits, ReportHard
  PROVE  /\ row'.status = "hard" /\ row'.sent = "recent" /\ incident' = incident + 1
         /\ rep' = [pc |-> "hard"]
         /\ UNCHANGED <<msgs, owed, place, poll, carded, closed, phase>>
<1>1. /\ rep.pc = "got" /\ row' = Transition(rep.read, rep.seen).next
      /\ Transition(rep.read, rep.seen).kind = "hard"
      /\ incident' = incident + 1 /\ rep' = [pc |-> "hard"]
      /\ UNCHANGED <<msgs, owed, place, poll, carded, closed, phase>>
  BY DEF ReportHard, Save, queue, world
<1>2. rep.seen \in Seen /\ GoodRow(rep.read)
  BY <1>1, RepIs DEF Fits, RepFits, GoodRow
<1> QED BY <1>1, <1>2, TransitionFacts

\* An incident that is on was on before, or has just begun.
LEMMA OnBefore ==
  ASSUME Fits, Next, ~lost', row'.status = "hard", ~ReportHard
  PROVE  row.status = "hard" /\ incident' = incident /\ ~ReportRecovery
BY StatusFollows, RecoveryEnds, IncidentFollows

LEMMA NewRecoveryStep ==
  ASSUME Sound, Next, ~lost'
  PROVE  NewRecovery'
<1> SUFFICES ASSUME RecoveryAhead' PROVE Recoveries(incident)' = {}
  BY DEF NewRecovery
<1>1. Fits /\ StillOn /\ NewRecovery /\ InLine
  BY DEF Sound, InOrder
<1>2. CASE ReportRecovery
  <2>1. Recoveries(incident) = {} /\ UNCHANGED <<place, incident>>
    BY <1>1, <1>2, RecoveryEnds DEF StillOn
  <2> QED BY <2>1 DEF Recoveries
<1>3. CASE ~ReportRecovery
  <2>1. RecoveryAhead /\ ~ReportEnqueue
    BY <1>1, <1>3, ReportFollows
  <2>2. ~ReportHard
    BY <2>1 DEF ReportHard, RecoveryAhead
  <2>3. incident' = incident /\ Recoveries(incident) = {}
    BY <1>1, <2>1, <2>2, IncidentFollows DEF NewRecovery
  <2>4. ASSUME NEW p \in DOMAIN place', place'[p].kind = "recovery", place'[p].inc = incident
        PROVE  FALSE
    <3>1. Kept(p) \/ Begun(p)
      BY <1>1, <2>4, PlaceFollows
    <3> QED BY <2>1, <2>3, <2>4, <3>1 DEF Kept, Begun, Recoveries
  <2> QED BY <2>3, <2>4 DEF Recoveries
<1> QED BY <1>2, <1>3

LEMMA NewCardStep ==
  ASSUME Sound, Next, ~lost'
  PROVE  NewCard'
<1> SUFFICES ASSUME CardAhead'
             PROVE  /\ row'.status = "hard" /\ row'.sent # "never"
                    /\ incident' \notin carded' /\ Cards(incident)' = {} /\ ~PassCard(incident)'
                    /\ msgs' < incident'
  BY DEF NewCard
<1>1. Fits /\ StillOn /\ NewCard /\ InLine /\ Past /\ SaidStep /\ poll \in PollStates /\ PassStep
  BY SaidFollows, Frames DEF Sound, InOrder, Fits, RestFits
<1>2. /\ incident \in Nat /\ msgs \in Nat
      /\ \A p \in Others : place[p].inc \in Nat
      /\ poll.pc \in {"card", "mark"} => poll.inc \in Nat
  BY <1>1, Numbers
<1>3. CASE ReportHard
  <2>1. /\ row'.status = "hard" /\ row'.sent = "recent" /\ incident' = incident + 1
        /\ UNCHANGED <<msgs, place, poll, carded>>
    BY <1>1, <1>3, HardBegins
  <2>2. incident' \notin carded /\ msgs < incident'
    BY <1>1, <1>2, <2>1 DEF Past
  <2>3. ~PassCard(incident)'
    BY <1>1, <1>2, <2>1 DEF PassCard, Past
  <2>4. Cards(incident)' = {}
    <3>1. SUFFICES ASSUME NEW p \in DOMAIN place, place[p].kind = "card", place[p].inc = incident'
                   PROVE  FALSE
      BY <2>1 DEF Cards
    <3>2. p \in Others
      BY <3>1 DEF Others
    <3> QED BY <1>1, <1>2, <2>1, <3>1, <3>2 DEF Past
  <2> QED BY <2>1, <2>2, <2>3, <2>4
<1>4. CASE ~ReportHard
  <2>1. CardAhead /\ ~ReportEnqueue
    BY <1>1, <1>4, ReportFollows
  <2>2. /\ row.status = "hard" /\ row.sent # "never" /\ incident \notin carded
        /\ Cards(incident) = {} /\ ~PassCard(incident) /\ msgs < incident /\ incident' = incident
    BY <1>1, <1>4, <2>1, IncidentFollows DEF NewCard
  <2>3. row'.status = "hard"
    <3>1. ~ReportRecovery
      BY <2>1 DEF ReportRecovery, CardAhead
    <3> QED BY <1>1, <1>4, <2>2, <3>1, StatusFollows
  <2>4. row'.sent # "never"
    <3>1. SUFFICES ASSUME row'.sent = "never" PROVE FALSE
      OBVIOUS
    <3>2. \A p \in DOMAIN place : FinishCard(p) /\ place[p].inc = incident => FALSE
      BY <2>2 DEF FinishCard, Cards
    <3>3. PollMark /\ poll.inc = incident => FALSE
      BY <2>2 DEF PollMark, PassCard
    <3> QED BY <1>1, <2>2, <2>3, <3>1, <3>2, <3>3, MarkFollows
  <2>5. incident \notin carded' /\ msgs' < incident
    <3>1. CASE SaysNothing \/ PassSaysRecovery \/ PassClears
      BY <1>2, <2>2, <3>1 DEF SaysNothing, PassSaysRecovery, PassClears, None
    <3>2. CASE PassSaysCard
      <4>1. poll.inc # incident /\ poll.inc <= incident
        BY <1>1, <2>2, <3>2 DEF PassSaysCard, PassCard, Past
      <4> QED BY <1>2, <2>2, <3>2, <4>1 DEF PassSaysCard
    <3>3. CASE \E p \in DOMAIN place : SaysCard(p) \/ SaysRecovery(p) \/ EndsRecovery(p)
      <4>1. PICK p \in DOMAIN place : SaysCard(p) \/ SaysRecovery(p) \/ EndsRecovery(p)
        BY <3>3
      <4>2. CASE SaysCard(p)
        <5>1. p \in Others /\ place[p].inc # incident
          BY <2>2, <4>2 DEF SaysCard, Others, Cards
        <5>2. place[p].inc < incident
          BY <1>1, <1>2, <5>1 DEF Past
        <5> QED BY <2>2, <4>2, <5>1, <5>2 DEF SaysCard
      <4>3. CASE SaysRecovery(p) \/ EndsRecovery(p)
        BY <1>2, <2>2, <4>3 DEF SaysRecovery, EndsRecovery, None
      <4> QED BY <4>1, <4>2, <4>3
    <3> QED BY <1>1, <3>1, <3>2, <3>3 DEF SaidStep
  <2>6. Cards(incident)' = {}
    <3>1. SUFFICES ASSUME NEW p \in DOMAIN place', place'[p].kind = "card", place'[p].inc = incident
                   PROVE  FALSE
      BY <2>2 DEF Cards
    <3>2. Kept(p) \/ Begun(p)
      BY <1>1, PlaceFollows
    <3> QED BY <2>1, <2>2, <3>1, <3>2 DEF Kept, Begun, Cards
  <2>7. ~PassCard(incident)'
    <3>1. poll'.pc = "card" => poll' = poll
      BY <1>1, <2>2, PassFollows DEF StillUnsent
    <3>2. poll'.pc = "mark" => poll' = poll \/ (poll.pc = "card" /\ poll'.inc = poll.inc)
      BY <1>1, PassFollows
    <3> QED BY <2>2, <3>1, <3>2 DEF PassCard
  <2> QED BY <2>2, <2>3, <2>4, <2>5, <2>6, <2>7
<1> QED BY <1>3, <1>4

\* A delivery that has been sent is the first, while the backend runs.
LEMMA SentFirst ==
  ASSUME InLine, phase = "up", NEW p \in DOMAIN place, place[p].pc \in Outcomes \/ Turn(p)
  PROVE  place[p].prev = None
BY DEF InLine, Outcomes, Turn

\* With the card of an incident that is on gone from the line without a mark,
\* nothing is left of the line.
LEMMA NothingBehind ==
  ASSUME Sound, row.status = "hard", NEW q \in Others, Rank(q) > 2 * incident
  PROVE  FALSE
<1>1. Fits /\ Past /\ Recoveries(incident) = {} /\ incident \in Nat
  BY Numbers DEF Sound, InOrder, StillOn
<1>2. place[q].inc <= incident
  BY <1>1 DEF Past
<1>3. /\ Rank(q) \in Nat /\ place[q].inc \in Nat /\ place[q].kind \in {"card", "recovery"}
      /\ place[q].kind = "card" => Rank(q) = 2 * place[q].inc
      /\ place[q].kind = "recovery" => Rank(q) = 2 * place[q].inc + 1
  BY <1>1, Ranks
<1>4. place[q].kind = "recovery" /\ place[q].inc = incident
  BY <1>1, <1>2, <1>3
<1> QED BY <1>1, <1>4 DEF Recoveries, Others

LEMMA StillOnStep ==
  ASSUME Sound, Next, ~lost'
  PROVE  StillOn'
<1> SUFFICES ASSUME row'.status = "hard"
             PROVE  /\ incident' \notin closed' /\ Recoveries(incident)' = {} /\ ~RecoveryAhead'
                    /\ owed'.inc # incident' /\ ~PassDebt(incident)'
                    /\ row'.sent = "never" => Cards(incident)' = {} /\ (phase' = "up" => Others' = {})
  BY DEF StillOn
<1>1. /\ Fits /\ StillOn /\ NewCard /\ CardsOnce /\ PassFirst /\ InLine /\ Past
      /\ SaidStep /\ poll \in PollStates /\ PassStep
  BY SaidFollows, Frames DEF Sound, InOrder, Fits, RestFits
<1>2. CASE ReportHard
  <2>1. /\ row'.sent = "recent" /\ incident' = incident + 1 /\ rep' = [pc |-> "hard"]
        /\ UNCHANGED <<msgs, owed, place, poll, carded, closed>>
    BY <1>1, <1>2, HardBegins
  <2>2. /\ incident \in Nat /\ \A p \in Others : place[p].inc \in Nat
        /\ poll.pc \in HasDebt => poll.debt.inc \in Nat
        /\ owed.inc \in Nat
    BY <1>1, Numbers
  <2>3. incident' \notin closed /\ owed.inc # incident'
    BY <1>1, <2>1, <2>2 DEF Past
  <2>4. ~PassDebt(incident)'
    BY <1>1, <2>1, <2>2 DEF PassDebt, Past
  <2>5. Recoveries(incident)' = {}
    <3>1. SUFFICES ASSUME NEW p \in DOMAIN place, place[p].kind = "recovery", place[p].inc = incident'
                   PROVE  FALSE
      BY <2>1 DEF Recoveries
    <3>2. p \in Others
      BY <3>1 DEF Others
    <3> QED BY <1>1, <2>1, <2>2, <3>1, <3>2 DEF Past
  <2> QED BY <2>1, <2>3, <2>4, <2>5 DEF RecoveryAhead
<1>3. CASE ~ReportHard
  <2>1. row.status = "hard" /\ incident' = incident /\ ~ReportRecovery /\ incident # None
    BY <1>1, <1>3, OnBefore, Numbers
  <2>2. /\ incident \notin closed /\ Recoveries(incident) = {} /\ ~RecoveryAhead
        /\ owed.inc # incident /\ ~PassDebt(incident)
        /\ row.sent = "never" => Cards(incident) = {} /\ (phase = "up" => Others = {})
    BY <1>1, <2>1 DEF StillOn
  <2>3. ~RecoveryAhead'
    BY <1>1, <2>1, <2>2, ReportFollows
  <2>4. Recoveries(incident)' = {}
    <3>1. SUFFICES ASSUME NEW p \in DOMAIN place', place'[p].kind = "recovery", place'[p].inc = incident
                   PROVE  FALSE
      BY <2>1 DEF Recoveries
    <3>2. Kept(p) \/ Begun(p)
      BY <1>1, PlaceFollows
    <3> QED BY <2>2, <3>1, <3>2 DEF Kept, Begun, Recoveries, RecoveryAhead, ReportEnqueue
  <2>5. incident \notin closed' /\ owed'.inc # incident
    <3>1. CASE SaysNothing \/ PassClears \/ PassSaysCard
      BY <2>1, <2>2, <3>1 DEF SaysNothing, PassClears, PassSaysCard
    <3>2. CASE PassSaysRecovery
      BY <2>2, <3>2 DEF PassSaysRecovery, PassDebt, HasDebt
    <3>3. CASE \E p \in DOMAIN place : SaysCard(p) \/ SaysRecovery(p) \/ EndsRecovery(p)
      <4>1. PICK p \in DOMAIN place : SaysCard(p) \/ SaysRecovery(p) \/ EndsRecovery(p)
        BY <3>3
      <4>2. place[p].kind = "recovery" => place[p].inc # incident
        BY <2>2 DEF Recoveries
      <4> QED BY <2>2, <4>1, <4>2 DEF SaysCard, SaysRecovery, EndsRecovery
    <3> QED BY <1>1, <3>1, <3>2, <3>3 DEF SaidStep
  <2>6. ~PassDebt(incident)'
    BY <1>1, <2>1, <2>2, PassFollows DEF PassDebt
  <2>7. ASSUME row'.sent = "never"
        PROVE  Cards(incident)' = {} /\ (phase' = "up" => Others' = {})
    <3>1. ~CardAhead => \A p \in DOMAIN place' : place'[p].kind # "pass" => Kept(p)
      <4>1. ASSUME NEW p \in DOMAIN place', place'[p].kind # "pass", ~CardAhead
            PROVE  Kept(p)
        <5>1. Kept(p) \/ Begun(p)
          BY <1>1, PlaceFollows
        <5>2. ~ReportEnqueue
          BY <1>1, <2>2, <4>1, RepIs DEF ReportEnqueue, CardAhead, RecoveryAhead, Fits, RepFits
        <5> QED BY <4>1, <5>1, <5>2 DEF Begun
      <4> QED BY <4>1
    <3>2. \/ row.sent = "never"
          \/ \E p \in DOMAIN place :
               FinishCard(p) /\ place[p].pc = "refused" /\ place[p].inc = incident
          \/ PollMark /\ poll.outcome = "refused" /\ poll.inc = incident
      BY <1>1, <2>7, MarkFollows
    <3>3. CASE row.sent = "never"
      <4>1. ~CardAhead /\ Cards(incident) = {} /\ (phase = "up" => Others = {})
        BY <1>1, <2>2, <3>3 DEF NewCard
      <4>2. Cards(incident)' = {}
        BY <2>1, <3>1, <4>1 DEF Cards, Kept
      <4>3. phase' = "up" => Others' = {}
        <5>1. phase' = "up" => phase = "up" \/ DOMAIN place' = {}
          BY UpBefore
        <5> QED BY <3>1, <4>1, <5>1 DEF Others, Kept
      <4> QED BY <4>2, <4>3
    <3>4. CASE \E p \in DOMAIN place :
                 FinishCard(p) /\ place[p].pc = "refused" /\ place[p].inc = incident
      <4>1. PICK p \in DOMAIN place :
                 FinishCard(p) /\ place[p].pc = "refused" /\ place[p].inc = incident
        BY <3>4
      <4>2. /\ place[p].kind = "card" /\ p \in Others /\ p \in Cards(incident)
            /\ Release(p) /\ UNCHANGED <<rep, phase>>
        BY <4>1 DEF FinishCard, Others, Cards, hands, world
      <4>3. ~CardAhead
        BY <1>1, <4>2 DEF NewCard
      <4>4. p \notin DOMAIN place'
        BY <1>1, <4>2, ReleaseShape DEF Fits
      <4>5. Cards(incident) \subseteq {p}
        BY <1>1, <4>1, <4>2 DEF CardsOnce, Cards
      <4>6. Cards(incident)' = {}
        BY <2>1, <3>1, <4>3, <4>4, <4>5 DEF Cards, Kept
      <4>7. ASSUME phase = "up", NEW q \in Others, q # p PROVE FALSE
        <5>1. place[p].prev = None
          BY <1>1, <4>1, <4>7, SentFirst DEF Outcomes
        <5>2. Rank(p) < Rank(q)
          BY <1>1, <4>2, <4>7, <5>1, FirstLeast DEF Sound, InOrder, Fits
        <5>3. Rank(p) = 2 * incident /\ Rank(p) \in Nat /\ Rank(q) \in Nat
          BY <1>1, <4>1, <4>2, <4>7, Ranks
        <5> QED BY <2>1, <4>7, <5>2, <5>3, NothingBehind
      <4>8. phase' = "up" => Others' = {}
        BY <3>1, <4>2, <4>3, <4>4, <4>7 DEF Others, Kept
      <4> QED BY <4>6, <4>8
    <3>5. CASE PollMark /\ poll.outcome = "refused" /\ poll.inc = incident
      <4>1. poll.pc = "mark" /\ PassCard(incident) /\ UNCHANGED <<rep, phase>>
        BY <3>5 DEF PollMark, PassCard, world
      <4>2. ~CardAhead
        BY <1>1, <4>1 DEF NewCard
      <4>3. Cards(incident) = {}
        BY <1>1, <4>1 DEF CardsOnce, Cards
      <4>4. Cards(incident)' = {}
        BY <2>1, <3>1, <4>2, <4>3 DEF Cards, Kept
      <4>5. ASSUME phase = "up", NEW q \in Others PROVE FALSE
        <5>1. Rank(q) > 2 * incident
          BY <1>1, <3>5, <4>1, <4>5 DEF PassFirst
        <5> QED BY <2>1, <4>5, <5>1, NothingBehind
      <4>6. phase' = "up" => Others' = {}
        BY <3>1, <4>1, <4>2, <4>5 DEF Others, Kept
      <4> QED BY <4>4, <4>6
    <3> QED BY <3>2, <3>3, <3>4, <3>5
  <2> QED BY <2>1, <2>3, <2>4, <2>5, <2>6, <2>7
<1> QED BY <1>2, <1>3

\* What enters the line, enters behind its own.
LEMMA BegunFresh ==
  ASSUME Sound, Next, NEW p, Begun(p), place'[p].kind = "card"
  PROVE  /\ CardAhead /\ place'[p].inc = incident /\ row.status = "hard" /\ row.sent # "never"
         /\ Cards(incident) = {} /\ ~PassCard(incident) /\ ~PassDebt(incident)
         /\ incident \notin carded /\ incident \notin closed /\ owed.inc # incident
         /\ UNCHANGED <<row, msgs, owed, poll, carded, closed, incident, phase>>
<1>1. /\ ReportEnqueue /\ rep.kind = "card" /\ place'[p].inc = incident
      /\ UNCHANGED <<row, msgs, owed, poll, carded, closed, incident, phase>>
  BY DEF Begun, ReportEnqueue, db, history, world
<1>2. CardAhead
  BY <1>1 DEF ReportEnqueue, CardAhead
<1> QED BY <1>1, <1>2 DEF Sound, InOrder, NewCard, StillOn

LEMMA CardsOnceStep ==
  ASSUME Sound, Next, ~lost'
  PROVE  CardsOnce'
<1>1. /\ Fits /\ StillOn /\ NewCard /\ CardsOnce /\ PassFirst /\ InLine /\ Past /\ OneLive
      /\ SaidStep /\ poll \in PollStates /\ PassStep
  BY SaidFollows, Frames DEF Sound, InOrder, Fits, RestFits
<1>2. ASSUME NEW p \in DOMAIN place', NEW q \in DOMAIN place',
             place'[p].kind = "card", place'[q].kind = "card", place'[p].inc = place'[q].inc
      PROVE  p = q
  <2>1. (Kept(p) \/ Begun(p)) /\ (Kept(q) \/ Begun(q))
    BY <1>1, PlaceFollows
  <2>2. CASE Kept(p) /\ Kept(q)
    BY <1>1, <1>2, <2>2 DEF Kept, CardsOnce
  <2>3. CASE Begun(p) /\ Begun(q)
    BY <2>3 DEF Begun
  <2>4. CASE Begun(p) /\ Kept(q)
    BY <1>2, <2>4, BegunFresh DEF Kept, Cards
  <2>5. CASE Kept(p) /\ Begun(q)
    BY <1>2, <2>5, BegunFresh DEF Kept, Cards
  <2> QED BY <2>1, <2>2, <2>3, <2>4, <2>5
<1>3. ASSUME NEW p \in DOMAIN place', place'[p].kind = "card"
      PROVE  /\ ~PassCard(place[p].inc)' /\ ~PassDebt(place[p].inc)'
             /\ phase' = "up" => owed'.inc # place'[p].inc
             /\ place'[p].pc \notin {"delivered", "maybe"} => place'[p].inc \notin carded'
             /\ place'[p].pc = "waiting" => place'[p].inc \notin closed'
  <2>1. CASE Begun(p)
    BY <1>3, <2>1, BegunFresh DEF PassCard, PassDebt
  <2>2. CASE Kept(p)
    <3> DEFINE k == place[p].inc
    <3>1. /\ p \in DOMAIN place /\ place[p].kind = "card" /\ place'[p].inc = k /\ p \in Others
          /\ k \in Nat \ {0}
      BY <1>1, <1>3, <2>2, Numbers DEF Kept, Others
    <3>2. /\ ~PassCard(k) /\ ~PassDebt(k)
          /\ phase = "up" => owed.inc # k
          /\ place[p].pc \notin {"delivered", "maybe"} => k \notin carded
          /\ place[p].pc = "waiting" => k \notin closed
      BY <1>1, <3>1 DEF CardsOnce
    <3> HIDE DEF k
    <3>3. ~(poll'.pc \in {"card", "mark"} /\ poll'.inc = k)
      <4>1. PollReread /\ StillUnsent(row) => incident # k
        BY <1>1, <3>1 DEF StillOn, StillUnsent, Cards, k
      <4> QED BY <1>1, <3>2, <4>1, PassFollows DEF PassCard
    <3>4. ~(poll'.pc \in HasDebt /\ poll'.debt.inc = k)
      <4>1. PollStart => owed.inc # k
        BY <3>2 DEF PollStart
      <4> QED BY <1>1, <3>2, <4>1, PassFollows DEF PassDebt
    <3>5. ASSUME NEW q \in DOMAIN place, place[q].kind = "recovery", phase = "up",
                 place[q].pc \in Outcomes \/ Turn(q)
          PROVE  place[q].inc # k
      <4>1. place[q].prev = None /\ q \in Others /\ q # p
        BY <1>1, <3>1, <3>5, SentFirst DEF Others
      <4>2. Rank(q) < Rank(p)
        BY <1>1, <3>1, <3>5, <4>1, FirstLeast DEF Sound, InOrder, Fits
      <4>3. Rank(q) = 2 * place[q].inc + 1 /\ Rank(p) = 2 * k /\ place[q].inc \in Nat
        BY <1>1, <3>1, <3>5, <4>1, Ranks DEF k
      <4> QED BY <3>1, <4>2, <4>3
    <3>6. phase' = "up" => owed'.inc # k
      <4>1. SUFFICES ASSUME phase' = "up" PROVE owed'.inc # k
        OBVIOUS
      <4>2. phase = "up"
        BY <1>3, <4>1, UpBefore
      <4>3. CASE UNCHANGED owed \/ SaysNothing
        BY <3>1, <3>2, <4>2, <4>3 DEF SaysNothing, None
      <4>4. CASE \E q \in DOMAIN place : EndsRecovery(q)
        <5>1. PICK q \in DOMAIN place : EndsRecovery(q)
          BY <4>4
        <5> QED BY <3>2, <3>5, <4>2, <5>1 DEF EndsRecovery
      <4> QED BY <1>1, <4>3, <4>4
           DEF SaidStep, PassSaysRecovery, PassClears, PassSaysCard, SaysCard, SaysRecovery
    <3>7. place'[p].pc \notin {"delivered", "maybe"} => k \notin carded'
      <4>1. SUFFICES ASSUME place'[p].pc \notin {"delivered", "maybe"} PROVE k \notin carded'
        OBVIOUS
      <4>2. k \notin carded
        BY <2>2, <3>2, <4>1 DEF Kept
      <4>3. CASE \E q \in DOMAIN place : SaysCard(q)
        <5>1. PICK q \in DOMAIN place : SaysCard(q)
          BY <4>3
        <5>2. place[q].inc = k => q = p
          BY <1>1, <3>1, <5>1 DEF SaysCard, CardsOnce, k
        <5> QED BY <4>1, <4>2, <5>1, <5>2 DEF SaysCard
      <4>4. CASE PassSaysCard
        BY <3>2, <4>2, <4>4 DEF PassSaysCard, PassCard
      <4> QED BY <1>1, <4>2, <4>3, <4>4
           DEF SaidStep, SaysNothing, PassSaysRecovery, PassClears, SaysRecovery, EndsRecovery
    <3>8. place'[p].pc = "waiting" => k \notin closed'
      <4>1. SUFFICES ASSUME place'[p].pc = "waiting" PROVE k \notin closed'
        OBVIOUS
      <4>2. place[p].pc = "waiting" /\ k \notin closed
        BY <2>2, <3>2, <4>1 DEF Kept, Outcomes
      <4>3. CASE \E q \in DOMAIN place : SaysRecovery(q)
        <5>1. PICK q \in DOMAIN place : SaysRecovery(q)
          BY <4>3
        <5>2. place[q].kind = "recovery" /\ place[q].pc = "waiting" /\ Turn(q)
          BY <5>1 DEF SaysRecovery, Turn
        <5>3. phase = "up"
          <6>1. phase # "stopping"
            BY <1>1, <3>1, <4>2, <5>2 DEF OneLive, Live
          <6> QED BY <1>1, <6>1 DEF Fits, RestFits
        <5>4. place[q].inc # k
          BY <3>5, <5>2, <5>3
        <5> QED BY <4>2, <5>1, <5>4 DEF SaysRecovery
      <4>4. CASE PassSaysRecovery
        BY <3>2, <4>2, <4>4 DEF PassSaysRecovery, PassDebt, HasDebt
      <4> QED BY <1>1, <4>2, <4>3, <4>4
           DEF SaidStep, SaysNothing, PassSaysCard, PassClears, SaysCard, EndsRecovery
    <3> QED BY <3>1, <3>3, <3>4, <3>6, <3>7, <3>8 DEF PassCard, PassDebt
  <2> QED BY <1>1, <1>3, <2>1, <2>2, PlaceFollows
<1> QED BY <1>2, <1>3 DEF CardsOnce

\* What is new in the line is to be said after whatever there is.
LEMMA BegunLast ==
  ASSUME Sound, Next, NEW p \in Others', Begun(p)
  PROVE  /\ ReportEnqueue /\ UNCHANGED <<msgs, poll, incident, phase>>
         /\ Rank(p)' \in Nat /\ Rank(p)' >= 2 * incident
         /\ PassCard(poll.inc) => Rank(p)' > 2 * poll.inc
         /\ \A q \in Others : Rank(q) < Rank(p)'
<1>1. Fits /\ StillOn /\ NewCard /\ NewRecovery /\ InLine /\ Past /\ incident \in Nat
  BY Numbers DEF Sound, InOrder
<1>2. /\ ReportEnqueue /\ place'[p].kind = rep.kind /\ place'[p].inc = incident
      /\ rep.pc = "enqueue" /\ rep.kind \in {"card", "recovery"}
      /\ UNCHANGED <<msgs, poll, incident, phase>>
  BY <1>1, ReportFills DEF Begun, Others, ReportEnqueue, db, history, world
<1>3. /\ CardAhead <=> rep.kind = "card"
      /\ RecoveryAhead <=> rep.kind = "recovery"
  BY <1>2 DEF CardAhead, RecoveryAhead
<1>4. /\ rep.kind = "card" => Rank(p)' = 2 * incident
      /\ rep.kind = "recovery" => Rank(p)' = 2 * incident + 1
  BY <1>1, <1>2 DEF Rank
<1>5. ASSUME NEW q \in Others
      PROVE  Rank(q) < Rank(p)'
  <2>1. /\ Rank(q) \in Nat /\ place[q].inc \in Nat /\ place[q].kind \in {"card", "recovery"}
        /\ place[q].kind = "card" => Rank(q) = 2 * place[q].inc
        /\ place[q].kind = "recovery" => Rank(q) = 2 * place[q].inc + 1
        /\ place[q].inc <= incident /\ q \in DOMAIN place
    BY <1>1, Ranks DEF Past, Others
  <2>2. CASE rep.kind = "card"
    <3>1. place[q].inc # incident
      BY <1>1, <1>3, <2>1, <2>2 DEF NewCard, StillOn, Cards, Recoveries
    <3> QED BY <1>1, <1>4, <2>1, <2>2, <3>1
  <2>3. CASE rep.kind = "recovery"
    <3>1. place[q].kind = "recovery" => place[q].inc # incident
      BY <1>1, <1>3, <2>1, <2>3 DEF NewRecovery, Recoveries
    <3> QED BY <1>1, <1>4, <2>1, <2>3, <3>1
  <2> QED BY <1>2, <2>2, <2>3
<1>6. ASSUME PassCard(poll.inc)
      PROVE  Rank(p)' > 2 * poll.inc
  <2>1. poll.inc \in Nat /\ poll.inc <= incident
    BY <1>1, <1>6, Numbers DEF PassCard, Past
  <2>2. rep.kind = "card" => poll.inc # incident
    BY <1>1, <1>3, <1>6 DEF NewCard
  <2> QED BY <1>1, <1>2, <1>4, <2>1, <2>2
<1> QED BY <1>1, <1>2, <1>4, <1>5, <1>6

LEMMA KeptRank ==
  ASSUME NEW p, Kept(p)
  PROVE  Rank(p)' = Rank(p) /\ (p \in Others' => p \in Others)
BY DEF Kept, Rank, Others

LEMMA PassFirstStep ==
  ASSUME Sound, Next, ~lost'
  PROVE  PassFirst'
<1>1. /\ Fits /\ StillOn /\ NewCard /\ CardsOnce /\ PassFirst /\ InLine /\ Past /\ OneLive
      /\ SaidStep /\ poll \in PollStates /\ PassStep /\ RoomFits /\ Fits'
      /\ incident \in Nat /\ msgs \in Nat
  BY SaidFollows, Frames, FitsStep, Numbers DEF Sound, InOrder, Fits, RestFits
<1>2. PollReread /\ StillUnsent(row) =>
        /\ row.status = "hard" /\ row.sent = "never" /\ UNCHANGED <<msgs, closed, incident, phase>>
        /\ place' = place
  <2>1. SUFFICES ASSUME PollReread, StillUnsent(row) PROVE place' = place
    BY DEF StillUnsent, PollReread, db, history, world
  <2> QED BY <2>1 DEF PollReread, queue
<1>3. ASSUME poll'.pc = "card", place'[poll'.at].pc = "waiting"
      PROVE  poll'.inc \notin closed' /\ msgs' <= poll'.inc
  <2>1. CASE PollReread /\ StillUnsent(row) /\ poll'.inc = incident
    BY <1>1, <1>2, <2>1 DEF StillOn, Past
  <2>2. CASE poll' = poll
    <3>1. /\ poll.at \in DOMAIN place' /\ poll.at \in DOMAIN place /\ place[poll.at].kind = "pass"
          /\ poll.inc \in Nat
      BY <1>1, <1>3, <2>2, Numbers DEF Fits, RoomFits, HoldsPlace, Passes
    <3>2. place[poll.at].pc = "waiting"
      <4>1. Kept(poll.at)
        BY <1>1, <3>1, PlaceFollows DEF Begun
      <4> QED BY <1>3, <2>2, <4>1 DEF Kept, Outcomes
    <3>3. poll.inc \notin closed /\ msgs <= poll.inc
      BY <1>1, <1>3, <2>2, <3>2 DEF PassFirst
    <3>4. ASSUME NEW p \in DOMAIN place, Turn(p), place[p].kind # "pass"
          PROVE  FALSE
      <4>1. phase # "up"
        BY <1>1, <1>3, <2>2, <3>4, PassAlone DEF HoldsPlace
      <4>2. phase = "stopping"
        BY <1>1, <4>1 DEF Fits, RestFits
      <4> QED BY <1>1, <3>1, <3>2, <3>4, <4>2 DEF OneLive, Live, Turn
    <3>5. CASE SaysNothing
      BY <2>2, <3>3, <3>5 DEF SaysNothing
    <3>6. CASE PassSaysRecovery \/ PassClears \/ PassSaysCard
      BY <1>3, <2>2, <3>6 DEF PassSaysRecovery, PassClears, PassSaysCard
    <3>7. CASE \E p \in DOMAIN place : SaysCard(p) \/ SaysRecovery(p) \/ EndsRecovery(p)
      <4>1. PICK p \in DOMAIN place : EndsRecovery(p)
        BY <3>4, <3>7 DEF SaysCard, SaysRecovery
      <4> QED BY <2>2, <3>1, <3>3, <4>1 DEF EndsRecovery, None
    <3> QED BY <1>1, <3>5, <3>6, <3>7 DEF SaidStep
  <2> QED BY <1>1, <1>3, <2>1, <2>2, PassFollows
<1>4. ASSUME phase' = "up", poll'.pc \in {"card", "mark"}, NEW p \in Others'
      PROVE  Rank(p)' > 2 * poll'.inc
  <2>1. phase = "up" /\ p \in DOMAIN place'
    BY <1>4, UpBefore DEF Others
  <2>2. CASE poll.pc \in {"card", "mark"} /\ poll'.inc = poll.inc
    <3>1. PassCard(poll.inc)
      BY <2>2 DEF PassCard
    <3>2. CASE Kept(p)
      BY <1>1, <1>4, <2>1, <2>2, <3>2, KeptRank DEF PassFirst
    <3>3. CASE Begun(p)
      BY <1>4, <2>2, <3>1, <3>3, BegunLast
    <3> QED BY <1>1, <2>1, <3>2, <3>3, PlaceFollows
  <2>3. CASE PollReread /\ StillUnsent(row)
    BY <1>1, <1>2, <1>4, <2>1, <2>3 DEF StillOn, Others
  <2>4. poll' = poll => poll.pc \in {"card", "mark"} /\ poll'.inc = poll.inc
    BY <1>4
  <2> QED BY <1>1, <1>4, <2>2, <2>3, <2>4, PassFollows
<1> QED BY <1>3, <1>4 DEF PassFirst

LEMMA ThreadedStep ==
  ASSUME Sound, Next, ~lost'
  PROVE  Threaded'
<1>1. /\ Fits /\ PassFirst /\ InLine /\ Past /\ OneLive /\ PassUnsent /\ Threaded
      /\ SaidStep /\ poll \in PollStates /\ PassStep /\ RoomFits /\ phase \in {"up", "stopping"}
      /\ incident \in Nat /\ msgs \in Nat
  BY SaidFollows, Frames, Numbers DEF Sound, InOrder, Fits, RestFits
<1> SUFFICES ASSUME msgs' # None, NEW q \in Others', phase' = "up" \/ Live(q)'
             PROVE  Rank(q)' >= 2 * msgs'
  BY DEF Threaded
<1>2. q \in DOMAIN place'
  BY DEF Others
<1>3. CASE Begun(q)
  BY <1>1, <1>3, BegunLast DEF Past
<1>4. CASE Kept(q)
  <2>1. Rank(q)' = Rank(q) /\ q \in Others /\ Rank(q) \in Nat /\ q \in DOMAIN place /\ place[q].kind # "pass"
    BY <1>1, <1>4, KeptRank, Ranks DEF Others
  <2>2. phase = "up" \/ Live(q)
    BY <1>2, <1>4, UpBefore, LiveBefore
  <2>3. msgs # None => Rank(q) >= 2 * msgs
    BY <1>1, <2>1, <2>2 DEF Threaded
  <2>4. CASE PassSaysCard
    <3>1. CASE msgs' = msgs
      BY <2>1, <2>3, <3>1
    <3>2. CASE msgs' = poll.inc
      <4>1. /\ poll.pc = "card" /\ poll.at \in DOMAIN place /\ place[poll.at].pc = "waiting"
            /\ place[poll.at].kind = "pass" /\ poll.inc \in Nat
        BY <1>1, <2>4, Numbers DEF PassSaysCard, RoomFits, HoldsPlace, Passes, PassUnsent
      <4>2. phase = "up"
        BY <1>1, <2>1, <2>2, <4>1 DEF OneLive, Live
      <4>3. Rank(q) > 2 * poll.inc
        BY <1>1, <2>1, <4>1, <4>2 DEF PassFirst
      <4> QED BY <2>1, <3>2, <4>1, <4>3
    <3> QED BY <2>4, <3>1, <3>2 DEF PassSaysCard
  <2>5. CASE \E p \in DOMAIN place : SaysCard(p)
    <3>1. PICK p \in DOMAIN place : SaysCard(p)
      BY <2>5
    <3>2. CASE msgs' = msgs
      BY <2>1, <2>3, <3>2
    <3>3. CASE msgs' = place[p].inc
      <4>1. p \in Others /\ Turn(p) /\ place[p].kind = "card"
        BY <3>1 DEF SaysCard, Others
      <4>2. Rank(p) = 2 * place[p].inc /\ Rank(p) \in Nat
        BY <1>1, <4>1, Ranks
      <4>3. CASE p = q
        BY <2>1, <3>3, <4>2, <4>3
      <4>4. CASE p # q
        <5>1. phase = "up"
          BY <1>1, <2>1, <2>2, <3>1, <4>1, <4>4 DEF OneLive, Live, Turn
        <5>2. Rank(p) < Rank(q)
          BY <1>1, <2>1, <4>1, <4>4, <5>1, FirstLeast DEF Sound, InOrder, Fits, Turn
        <5> QED BY <2>1, <3>3, <4>2, <5>2
      <4> QED BY <4>3, <4>4
    <3> QED BY <3>1, <3>2, <3>3 DEF SaysCard
  <2>6. CASE msgs' \in {msgs, None}
    BY <2>1, <2>3, <2>6
  <2> QED BY <1>1, <2>4, <2>5, <2>6
       DEF SaidStep, SaysNothing, PassSaysRecovery, PassClears, SaysRecovery, EndsRecovery
<1> QED BY <1>1, <1>2, <1>3, <1>4, PlaceFollows

\* A line that keeps its places, or loses its first, or gets one more at its
\* end, keeps its order.
LEMMA SortedStep ==
  ASSUME Sound, Next, ~lost'
  PROVE  Sorted'
<1> SUFFICES ASSUME phase' = "up"
             PROVE  \E n \in Nat : \E t \in [1 .. n -> Places] :
                      /\ Chain(n, t)'
                      /\ \A i, j \in 1 .. n : i < j /\ t[i] \in Others' /\ t[j] \in Others'
                           => Rank(t[i])' < Rank(t[j])'
  BY DEF Sorted
<1>1. /\ Fits /\ InLine /\ Sorted /\ Shape /\ LineStep /\ Shape' /\ RoomFits
  BY LineFollows, FitsStep DEF Sound, InOrder, Fits
<1>2. CASE DOMAIN place' = {}
  <2>1. tail' = None
    BY <1>1, <1>2 DEF Shape
  <2> DEFINE t == [i \in 1 .. 0 |-> 1]
  <2>2. t \in [1 .. 0 -> Places]
    BY DEF Places
  <2>3. Chain(0, t)'
    BY <1>2, <2>1 DEF Chain
  <2>4. \A i, j \in 1 .. 0 : FALSE
    OBVIOUS
  <2> QED BY <2>2, <2>3, <2>4
<1>3. CASE DOMAIN place' # {}
  <2>1. phase = "up" /\ ~Stop /\ ~Kill
    BY <1>3, UpBefore
  <2>2. PICK n \in Nat : \E s \in [1 .. n -> Places] :
          /\ Chain(n, s)
          /\ \A i, j \in 1 .. n : i < j /\ s[i] \in Others /\ s[j] \in Others => Rank(s[i]) < Rank(s[j])
    BY <1>1, <2>1 DEF Sorted
  <2>3. PICK s \in [1 .. n -> Places] :
          /\ Chain(n, s)
          /\ \A i, j \in 1 .. n : i < j /\ s[i] \in Others /\ s[j] \in Others => Rank(s[i]) < Rank(s[j])
    BY <2>2
  <2>4. ASSUME NEW p, Kept(p), p \in Others'
        PROVE  p \in Others /\ Rank(p)' = Rank(p)
    BY <2>4, KeptRank
  <2>5. CASE LineStays \/ LineSends
    <3>1. /\ DOMAIN place' = DOMAIN place /\ tail' = tail
          /\ \A q \in DOMAIN place : place'[q].prev = place[q].prev
      <4>1. CASE LineStays
        BY <4>1 DEF LineStays
      <4>2. CASE LineSends
        <5>1. PICK p \in DOMAIN place, pc \in Outcomes :
                place' = [place EXCEPT ![p].pc = pc] /\ tail' = tail
          BY <4>2 DEF LineSends
        <5> QED BY <1>1, <5>1, SendShape
      <4> QED BY <2>5, <4>1, <4>2
    <3>2. Chain(n, s)'
      BY <2>3, <3>1 DEF Chain
    <3>3. \A i \in 1 .. n : s[i] \in Others' => s[i] \in Others /\ Rank(s[i])' = Rank(s[i])
      <4>1. ASSUME NEW i \in 1 .. n, s[i] \in Others' PROVE Kept(s[i])
        <5>1. s[i] \in DOMAIN place' /\ s[i] \in DOMAIN place
          BY <3>1, <4>1 DEF Others
        <5> QED BY <1>1, <5>1, PlaceFollows DEF Begun
      <4> QED BY <2>4, <4>1
    <3> QED BY <2>3, <3>2, <3>3
  <2>6. CASE LineDrops \/ PassLeaves
    <3>1. PICK p \in DOMAIN place : Release(p) /\ place[p].prev = None
      <4>1. CASE LineDrops
        BY <1>1, <2>1, <4>1, SentFirst DEF LineDrops
      <4>2. CASE PassLeaves
        BY <1>1, <2>1, <4>2 DEF PassLeaves, InLine, RoomFits, Passes
      <4> QED BY <2>6, <4>1, <4>2
    <3>2. /\ DOMAIN place' = DOMAIN place \ {p} /\ tail' = IF tail = p THEN None ELSE tail
          /\ \A q \in DOMAIN place' : place'[q].prev = IF place[q].prev = p THEN None ELSE place[q].prev
      BY <1>1, <3>1, ReleaseShape
    <3>3. n - 1 \in Nat /\ \A i \in 1 .. n - 1 : i + 1 \in 1 .. n
      BY <1>1, <2>3, <3>1, <3>2, ReleaseChain
    <3>4. PICK t \in [1 .. n - 1 -> Places] : Chain(n - 1, t)' /\ \A i \in 1 .. n - 1 : t[i] = s[i + 1]
      BY <1>1, <2>3, <3>1, <3>2, ReleaseChain
    <3>5. ASSUME NEW i \in 1 .. n - 1, t[i] \in Others'
          PROVE  t[i] \in Others /\ Rank(t[i])' = Rank(t[i])
      <4>1. t[i] \in DOMAIN place' /\ t[i] \in DOMAIN place
        BY <3>2, <3>5 DEF Others
      <4>2. Kept(t[i])
        BY <1>1, <4>1, PlaceFollows DEF Begun
      <4> QED BY <2>4, <3>5, <4>2
    <3>6. ASSUME NEW i \in 1 .. n - 1, NEW j \in 1 .. n - 1, i < j, t[i] \in Others', t[j] \in Others'
          PROVE  Rank(t[i])' < Rank(t[j])'
      <4>1. /\ i + 1 \in 1 .. n /\ j + 1 \in 1 .. n /\ i + 1 < j + 1
            /\ s[i + 1] = t[i] /\ s[j + 1] = t[j]
        BY <3>3, <3>4, <3>6
      <4>2. Rank(s[i + 1]) < Rank(s[j + 1])
        BY <2>3, <3>5, <3>6, <4>1
      <4> QED BY <3>5, <3>6, <4>1, <4>2
    <3> QED BY <3>3, <3>4, <3>6
  <2>7. CASE ReportEnqueue \/ PassTakes
    <3>1. /\ Free \in Places /\ Free \notin DOMAIN place
          /\ DOMAIN place' = DOMAIN place \cup {Free} /\ tail' = Free /\ place'[Free].prev = tail
          /\ \A p \in DOMAIN place : place'[p] = place[p]
      <4>1. CASE ReportEnqueue
        <5>1. /\ Free \in Places /\ Free \notin DOMAIN place
              /\ DOMAIN place' = DOMAIN place \cup {Free} /\ tail' = Free
              /\ place'[Free] = [prev |-> tail, kind |-> rep.kind, inc |-> incident, known |-> rep.known,
                                 pc |-> IF phase = "up" THEN "waiting" ELSE "cancelled"]
              /\ \A p \in DOMAIN place : place'[p] = place[p]
          BY <1>1, <4>1, ReportFills, EnqueueShape
        <5> QED BY <5>1
      <4>2. CASE PassTakes
        <5>1. Free \in Places /\ Free \notin DOMAIN place /\ None \in 0 .. MaxIncidents
          BY <1>1, <4>2, RoomGives, NoIncident DEF PassTakes
        <5>2. /\ DOMAIN place' = DOMAIN place \cup {Free} /\ tail' = Free
              /\ place'[Free] = [prev |-> tail, kind |-> "pass", inc |-> None, known |-> FALSE,
                                 pc |-> IF phase = "up" THEN "waiting" ELSE "cancelled"]
              /\ \A p \in DOMAIN place : place'[p] = place[p]
          BY <1>1, <4>2, <5>1, EnqueueShape DEF PassTakes
        <5> QED BY <5>1, <5>2
      <4> QED BY <2>7, <4>1, <4>2
    <3>2. PICK x \in Places : x = Free
      BY <3>1
    <3>3. PICK t \in [1 .. n + 1 -> Places] :
            Chain(n + 1, t)' /\ t[n + 1] = x /\ \A i \in 1 .. n : t[i] = s[i]
      BY <2>3, <3>1, <3>2, EnqueueChain
    <3>4. ASSUME NEW i \in 1 .. n
          PROVE  t[i] \in DOMAIN place /\ (t[i] \in Others' => t[i] \in Others /\ Rank(t[i])' = Rank(t[i]))
      <4>1. t[i] \in DOMAIN place
        BY <2>3, <3>3 DEF Chain
      <4>2. Kept(t[i])
        BY <3>1, <4>1 DEF Kept
      <4> QED BY <2>4, <4>1, <4>2
    <3>5. x \in Others' => \A q \in Others : Rank(q) < Rank(x)'
      <4>1. x \in DOMAIN place' /\ x \notin DOMAIN place
        BY <3>1, <3>2
      <4>2. Begun(x)
        BY <1>1, <4>1, PlaceFollows DEF Kept
      <4> QED BY <4>2, BegunLast
    <3>6. ASSUME NEW i \in 1 .. n + 1, NEW j \in 1 .. n + 1, i < j, t[i] \in Others', t[j] \in Others'
          PROVE  Rank(t[i])' < Rank(t[j])'
      <4>1. i \in 1 .. n
        BY <2>2, <3>6
      <4>2. CASE j = n + 1
        BY <3>3, <3>4, <3>5, <3>6, <4>1, <4>2
      <4>3. CASE j # n + 1
        <5>1. j \in 1 .. n
          BY <2>2, <3>6, <4>3
        <5>2. t[i] = s[i] /\ t[j] = s[j]
          BY <3>3, <4>1, <5>1
        <5>3. Rank(s[i]) < Rank(s[j])
          BY <2>3, <3>4, <3>6, <4>1, <5>1, <5>2
        <5> QED BY <3>4, <3>6, <4>1, <5>1, <5>2, <5>3
      <4> QED BY <4>2, <4>3
    <3>7. n + 1 \in Nat
      BY <2>2
    <3> QED BY <3>3, <3>6, <3>7
  <2> QED BY <1>1, <2>1, <2>5, <2>6, <2>7 DEF LineStep
<1> QED BY <1>2, <1>3

LEMMA UnrepeatedStep ==
  ASSUME Sound, Next, ~lost'
  PROVE  Unrepeated'
<1>1. /\ Fits /\ StillOn /\ NewCard /\ CardsOnce /\ InLine /\ Past /\ Unrepeated
      /\ SaidStep /\ poll \in PollStates /\ PassStep /\ incident \in Nat
  BY SaidFollows, Frames, Numbers DEF Sound, InOrder, Fits, RestFits
<1> SUFFICES ASSUME kills' = MaxKills
             PROVE  /\ poll'.pc = "card" => poll'.inc \notin carded'
                    /\ poll'.pc = "mark" /\ poll'.outcome = "refused" => poll'.inc \notin carded'
                    /\ row'.status = "hard" /\ row'.sent = "never" /\ incident' \in carded' =>
                         poll'.pc = "mark" /\ poll'.inc = incident' /\ poll'.outcome # "refused"
  BY DEF Unrepeated
<1>2. kills = MaxKills /\ ~Kill
  <2>1. kills \in 0 .. MaxKills /\ MaxKills \in Nat
    BY <1>1, AlertConstants DEF Fits, RestFits
  <2>2. WorldStep
    BY WorldFollows
  <2> QED BY <2>1, <2>2 DEF WorldStep, Stop, Restart, Kill
<1>3. /\ poll.pc = "card" => poll.inc \notin carded
      /\ poll.pc = "mark" /\ poll.outcome = "refused" => poll.inc \notin carded
      /\ row.status = "hard" /\ row.sent = "never" /\ incident \in carded =>
           poll.pc = "mark" /\ poll.inc = incident /\ poll.outcome # "refused"
  BY <1>1, <1>2 DEF Unrepeated
<1>4. ASSUME NEW k, k \in carded', k \notin carded
      PROVE  \/ k \in {place[p].inc : p \in {q \in DOMAIN place : place[q].kind = "card"}}
             \/ PassSaysCard /\ poll.inc = k /\ poll'.outcome # "refused"
  BY <1>1, <1>4 DEF SaidStep, SaysNothing, PassSaysRecovery, PassClears, PassSaysCard, SaysCard,
                    SaysRecovery, EndsRecovery
<1>5. poll'.pc = "card" => poll'.inc \notin carded'
  <2>1. SUFFICES ASSUME poll'.pc = "card" PROVE poll'.inc \notin carded'
    OBVIOUS
  <2>2. CASE poll' = poll
    <3>1. PassCard(poll.inc)
      BY <2>1, <2>2 DEF PassCard
    <3>2. poll.inc \notin {place[p].inc : p \in {q \in DOMAIN place : place[q].kind = "card"}}
      BY <1>1, <3>1 DEF CardsOnce
    <3> QED BY <1>3, <1>4, <2>1, <2>2, <3>2 DEF PassSaysCard
  <2>3. CASE PollReread /\ StillUnsent(row) /\ poll'.inc = incident
    <3>1. /\ row.status = "hard" /\ row.sent = "never" /\ poll.pc = "reread"
          /\ carded' = carded
      BY <2>3 DEF StillUnsent, PollReread, history
    <3> QED BY <1>3, <2>3, <3>1
  <2> QED BY <1>1, <2>1, <2>2, <2>3, PassFollows
<1>6. poll'.pc = "mark" /\ poll'.outcome = "refused" => poll'.inc \notin carded'
  <2>1. SUFFICES ASSUME poll'.pc = "mark", poll'.outcome = "refused" PROVE poll'.inc \notin carded'
    OBVIOUS
  <2>2. poll' = poll \/ (poll.pc = "card" /\ poll'.inc = poll.inc)
    BY <1>1, <2>1, PassFollows
  <2>3. PassCard(poll.inc) /\ poll'.inc = poll.inc /\ poll.inc \notin carded
    BY <1>3, <2>1, <2>2 DEF PassCard
  <2>4. poll.inc \notin {place[p].inc : p \in {q \in DOMAIN place : place[q].kind = "card"}}
    BY <1>1, <2>3 DEF CardsOnce
  <2> QED BY <1>4, <2>1, <2>3, <2>4
<1>7. ASSUME row'.status = "hard", row'.sent = "never", incident' \in carded'
      PROVE  poll'.pc = "mark" /\ poll'.inc = incident' /\ poll'.outcome # "refused"
  <2>1. ~ReportHard
    BY <1>1, <1>7, HardBegins
  <2>2. row.status = "hard" /\ incident' = incident
    BY <1>1, <1>7, <2>1, OnBefore
  <2>3. \/ row.sent = "never" /\ ~(PollMark /\ poll.outcome # "refused")
        \/ \E p \in DOMAIN place : FinishCard(p) /\ place[p].pc = "refused" /\ place[p].inc = incident
        \/ PollMark /\ poll.outcome = "refused" /\ poll.inc = incident
    BY <1>1, <1>7, MarkFollows
  <2>4. CASE row.sent = "never" /\ ~(PollMark /\ poll.outcome # "refused")
    <3>1. CASE incident \in carded
      <4>1. poll.pc = "mark" /\ poll.inc = incident /\ poll.outcome # "refused"
        BY <1>3, <2>2, <2>4, <3>1
      <4>2. poll' = poll
        BY <1>1, <1>2, <2>4, <4>1, PassFollows
      <4> QED BY <2>2, <4>1, <4>2
    <3>2. CASE incident \notin carded
      <4>1. incident \notin {place[p].inc : p \in {q \in DOMAIN place : place[q].kind = "card"}}
        BY <1>1, <2>2, <2>4 DEF StillOn, Cards
      <4>2. PassSaysCard /\ poll.inc = incident /\ poll'.outcome # "refused"
        BY <1>4, <1>7, <2>2, <3>2, <4>1
      <4> QED BY <2>2, <4>2 DEF PassSaysCard
    <3> QED BY <3>1, <3>2
  <2>5. CASE \E p \in DOMAIN place : FinishCard(p) /\ place[p].pc = "refused" /\ place[p].inc = incident
    <3>1. PICK p \in DOMAIN place : FinishCard(p) /\ place[p].pc = "refused" /\ place[p].inc = incident
      BY <2>5
    <3>2. place[p].kind = "card" /\ carded' = carded
      BY <3>1 DEF FinishCard
    <3>3. incident \notin carded
      BY <1>1, <3>1, <3>2 DEF CardsOnce
    <3> QED BY <1>7, <2>2, <3>2, <3>3
  <2>6. CASE PollMark /\ poll.outcome = "refused" /\ poll.inc = incident
    <3>1. poll.pc = "mark" /\ carded' = carded
      BY <2>6 DEF PollMark
    <3> QED BY <1>3, <1>7, <2>2, <2>6, <3>1
  <2> QED BY <2>3, <2>4, <2>5, <2>6
<1> QED BY <1>5, <1>6, <1>7

LEMMA CardInit ==
  ASSUME Init
  PROVE  CardInv
<1>1. /\ row.status = "ok" /\ msgs = 0 /\ owed = NoDebt /\ DOMAIN place = {} /\ tail = None
      /\ rep = Idle /\ poll = Idle /\ incident = 0 /\ carded = {} /\ closed = {} /\ phase = "up"
  BY DEF Init, None
<1>2. owed.inc = 0 /\ rep.pc = "idle" /\ poll.pc = "idle" /\ Others = {} /\ Passes = {}
  BY <1>1 DEF NoDebt, None, Idle, Others, Passes
<1>3. Past
  BY <1>1, <1>2 DEF Past, HasDebt
<1>4. OneLive /\ PassUnsent
  BY <1>1, <1>2 DEF OneLive, PassUnsent
<1>5. StillOn /\ NewCard /\ NewRecovery /\ CardsOnce /\ PassFirst /\ Threaded /\ Unrepeated
  BY <1>1, <1>2 DEF StillOn, NewCard, NewRecovery, CardAhead, RecoveryAhead, CardsOnce, PassFirst,
                    Threaded, Unrepeated
<1>6. Sorted
  <2> DEFINE t == [i \in 1 .. 0 |-> 1]
  <2>1. t \in [1 .. 0 -> Places] /\ Chain(0, t)
    BY <1>1 DEF Places, Chain
  <2>2. \A i, j \in 1 .. 0 : FALSE
    OBVIOUS
  <2> QED BY <2>1, <2>2 DEF Sorted
<1> QED BY <1>3, <1>4, <1>5, <1>6 DEF CardInv, InOrder

LEMMA CardStep ==
  ASSUME AlertInv, CardInv, [Next]_vars
  PROVE  CardInv'
<1>1. CASE Next
  <2>1. Past' /\ OneLive' /\ PassUnsent'
    BY <1>1, PastStep, OneLiveStep, PassUnsentStep DEF AlertInv, CardInv
  <2>2. ASSUME ~lost'
        PROVE  InOrder'
    <3>1. ~lost
      BY <1>1, <2>2, LostGrows
    <3>2. Sound
      BY <3>1 DEF Sound, AlertInv, CardInv
    <3> QED BY <1>1, <2>2, <3>2, StillOnStep, NewCardStep, NewRecoveryStep, CardsOnceStep,
               PassFirstStep, SortedStep, ThreadedStep, UnrepeatedStep DEF InOrder
  <2> QED BY <2>1, <2>2 DEF CardInv
<1>2. CASE UNCHANGED vars
  <2>1. UNCHANGED <<row, msgs, owed, place, tail, rep, poll, incident, carded, closed, lost, phase, kills>>
    BY <1>2 DEF vars, db, queue, hands, history, world
  <2>2. Past' /\ OneLive' /\ PassUnsent'
    BY <2>1 DEF CardInv, Past, OneLive, PassUnsent, Others, Passes, Live
  <2>3. StillOn => StillOn'
    BY <2>1 DEF StillOn, Recoveries, Cards, RecoveryAhead, PassDebt, Others
  <2>4. NewCard /\ NewRecovery => NewCard' /\ NewRecovery'
    BY <2>1 DEF NewCard, NewRecovery, Recoveries, Cards, CardAhead, RecoveryAhead, PassCard
  <2>5. CardsOnce => CardsOnce'
    BY <2>1 DEF CardsOnce, PassCard, PassDebt
  <2>6. PassFirst /\ Threaded /\ Unrepeated => PassFirst' /\ Threaded' /\ Unrepeated'
    BY <2>1 DEF PassFirst, Threaded, Unrepeated, Rank, Others, Live
  <2>7. Sorted => Sorted'
    <3>1. Others' = Others /\ \A p : Rank(p)' = Rank(p)
      BY <2>1 DEF Others, Rank
    <3>2. \A n, s : Chain(n, s) => Chain(n, s)'
      BY <2>1 DEF Chain
    <3> QED BY <2>1, <3>1, <3>2 DEF Sorted
  <2> QED BY <2>1, <2>2, <2>3, <2>4, <2>5, <2>6, <2>7 DEF CardInv, InOrder
<1> QED BY <1>1, <1>2

LEMMA CardInvHolds == Spec => [](AlertInv /\ CardInv)
<1>1. Init => AlertInv /\ CardInv
  BY AlertInit, CardInit
<1>2. AlertInv /\ CardInv /\ [Next]_vars => (AlertInv /\ CardInv)'
  BY AlertStep, CardStep
<1> QED BY <1>1, <1>2, PTL DEF Spec

LEMMA SoundHolds ==
  ASSUME AlertInv, CardInv, ~lost
  PROVE  Sound
BY DEF Sound, AlertInv, CardInv

\* The card that the pass is at is sent from a place that is not cancelled only
\* while the place still waits.
LEMMA PassWaits ==
  ASSUME Sound, PassSaysCard
  PROVE  place[poll.at].pc = "waiting"
<1>1. poll.at \in Passes
  BY DEF Sound, Fits, RoomFits, PassSaysCard, HoldsPlace
<1> QED BY <1>1 DEF Sound, PassUnsent, PassSaysCard

\* Nobody gets the card of an incident after its recovery was told, whatever
\* waits in line, is repeated by the pass, or is lost with the backend, as long
\* as the row has lost no update (alerts/queue.go, realert/poller.go).
THEOREM CardComesFirst == Spec => CardBeforeRecovery
<1> DEFINE A == [\A k \in Incidents : lost \/ k \in carded \/ k \notin closed \/ k \notin carded']_vars
<1>1. AlertInv /\ CardInv /\ [Next]_vars => A
  <2> SUFFICES ASSUME AlertInv, CardInv, Next, NEW k \in Incidents, ~lost, k \notin carded,
                      k \in closed, k \in carded'
               PROVE  FALSE
    OBVIOUS
  <2>1. Sound /\ CardsOnce /\ PassFirst
    BY SoundHolds DEF Sound, InOrder
  <2>2. SaidStep
    BY SaidFollows DEF AlertInv
  <2>3. CASE PassSaysCard
    <3>1. poll.pc = "card" /\ poll.inc = k
      BY <2>3 DEF PassSaysCard
    <3> QED BY <2>1, <2>3, <3>1, PassWaits DEF PassFirst
  <2>4. CASE \E p \in DOMAIN place : SaysCard(p)
    <3>1. PICK p \in DOMAIN place : SaysCard(p)
      BY <2>4
    <3>2. place[p].kind = "card" /\ place[p].pc = "waiting" /\ place[p].inc = k
      BY <3>1 DEF SaysCard, Turn
    <3> QED BY <2>1, <3>2 DEF CardsOnce
  <2> QED BY <2>2, <2>3, <2>4
       DEF SaidStep, SaysNothing, PassSaysRecovery, PassClears, SaysRecovery, EndsRecovery
<1> QED BY <1>1, CardInvHolds, PTL DEF Spec, CardBeforeRecovery

\* A card that a person got is not sent once more, by the line or by the pass,
\* whether Telegram confirmed it or not, as long as the row has lost no update
\* and the backend was not killed (I-2).
THEOREM CardIsSentOnce == Spec => CardOnce
<1> DEFINE A == [\A k \in Incidents \cap carded :
                   lost \/ kills < MaxKills \/
                   /\ \A p \in DOMAIN place :
                        ~(place[p].kind = "card" /\ place[p].pc = "waiting" /\ place[p].inc = k
                          /\ p \in DOMAIN place' /\ place'[p].pc = "delivered")
                   /\ ~(poll.pc = "card" /\ poll.inc = k /\ poll'.pc = "mark"
                        /\ poll'.outcome = "delivered")]_vars
<1>1. AlertInv /\ CardInv /\ [Next]_vars => A
  <2> SUFFICES ASSUME AlertInv, CardInv, Next, NEW k \in carded, ~lost, ~(kills < MaxKills)
               PROVE  /\ \A p \in DOMAIN place :
                           ~(place[p].kind = "card" /\ place[p].pc = "waiting" /\ place[p].inc = k)
                      /\ ~(poll.pc = "card" /\ poll.inc = k)
    OBVIOUS
  <2>1. CardsOnce /\ Unrepeated
    BY SoundHolds DEF Sound, InOrder
  <2>2. kills = MaxKills
    BY AlertConstants DEF AlertInv, Fits, RestFits
  <2> QED BY <2>1, <2>2 DEF CardsOnce, Unrepeated
<1> QED BY <1>1, CardInvHolds, PTL DEF Spec, CardOnce

\* While an incident is on, the card its recovery will answer is not forgotten,
\* neither for a late card or recovery of an earlier incident nor after a
\* repeated reply (ClearSentBefore, the line).
THEOREM ThreadIsKept == Spec => ThreadKept
<1> DEFINE A == [msgs # None /\ msgs' # msgs =>
                   \/ msgs' > msgs
                   \/ msgs < incident
                   \/ row.status # "hard"
                   \/ lost]_vars
<1>1. AlertInv /\ CardInv /\ [Next]_vars => A
  <2> SUFFICES ASSUME AlertInv, CardInv, Next, msgs # None, msgs' # msgs,
                      ~(msgs' > msgs), ~(msgs < incident), row.status = "hard", ~lost
               PROVE  FALSE
    BY DEF vars, db
  <2>1. Sound /\ Fits /\ Past /\ StillOn /\ PassFirst /\ Threaded
    BY SoundHolds DEF Sound, InOrder
  <2>2. msgs = incident /\ incident \in Nat
    BY <2>1, Numbers DEF Past
  <2>3. SaidStep
    BY <2>1, SaidFollows
  <2>4. ASSUME NEW p \in DOMAIN place, place[p].kind # "pass", Live(p)
        PROVE  p \in Others /\ place[p].inc <= incident /\ Rank(p) >= 2 * incident
    <3>1. p \in Others
      BY <2>4 DEF Others
    <3> QED BY <2>1, <2>2, <2>4, <3>1 DEF Past, Threaded
  <2>5. CASE PassSaysCard
    <3>1. place[poll.at].pc = "waiting" /\ poll.pc = "card" /\ msgs' = poll.inc /\ poll.inc \in Nat
      BY <2>1, <2>5, PassWaits, Numbers DEF PassSaysCard
    <3>2. msgs <= poll.inc /\ poll.inc <= incident
      BY <2>1, <3>1 DEF PassFirst, Past
    <3> QED BY <2>2, <3>1, <3>2
  <2>6. CASE PassClears
    <3>1. poll.pc = "clear" /\ msgs <= poll.debt.inc /\ poll.debt.inc \in Nat
      BY <2>1, <2>6, Numbers DEF PassClears, HasDebt
    <3>2. poll.debt.inc <= incident /\ poll.debt.inc # incident
      BY <2>1, <3>1 DEF Past, StillOn, PassDebt, HasDebt
    <3> QED BY <2>2, <3>1, <3>2
  <2>7. CASE \E p \in DOMAIN place : SaysCard(p) \/ EndsRecovery(p)
    <3>1. PICK p \in DOMAIN place : SaysCard(p) \/ EndsRecovery(p)
      BY <2>7
    <3>2. CASE SaysCard(p)
      <4>1. msgs' = place[p].inc /\ place[p].kind = "card" /\ Live(p)
        BY <3>2 DEF SaysCard, Turn, Live
      <4>2. p \in Others /\ place[p].inc <= incident /\ Rank(p) >= 2 * incident
        BY <2>4, <4>1
      <4>3. Rank(p) = 2 * place[p].inc /\ place[p].inc \in Nat
        BY <2>1, <4>1, <4>2, Ranks
      <4> QED BY <2>2, <4>1, <4>2, <4>3
    <3>3. CASE EndsRecovery(p)
      <4>1. place[p].kind = "recovery" /\ Live(p)
        BY <3>3 DEF EndsRecovery, Live
      <4>2. p \in Others /\ place[p].inc <= incident /\ Rank(p) >= 2 * incident
        BY <2>4, <4>1
      <4>3. Rank(p) = 2 * place[p].inc + 1 /\ place[p].inc \in Nat
        BY <2>1, <4>1, <4>2, Ranks
      <4>4. place[p].inc # incident
        BY <2>1, <4>1 DEF StillOn, Recoveries
      <4> QED BY <2>2, <4>2, <4>3, <4>4
    <3> QED BY <3>1, <3>2, <3>3
  <2> QED BY <2>3, <2>5, <2>6, <2>7 DEF SaidStep, SaysNothing, PassSaysRecovery, SaysRecovery
<1> QED BY <1>1, CardInvHolds, PTL DEF Spec, ThreadKept
===============================================================================
