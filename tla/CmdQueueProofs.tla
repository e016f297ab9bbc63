--------------------------- MODULE CmdQueueProofs ---------------------------
(***************************************************************************)
(* Proofs about CmdQueue, for every set of routers and of commands and for *)
(* all durations and limits that QueueConstants allows: types and the     *)
(* invariants NoDoubleLife, OnePendingUpdate, DispatchCap and              *)
(* DeferredNeverStack.                                                     *)
(*                                                                         *)
(* QueueInv is inductive.  Beside what the properties say it knows what    *)
(* the code relies on without a test: no two handlers write one command,   *)
(* an answer is not older than its issue (so the janitor never forgets an  *)
(* answer before its issue), only answered commands are released early,    *)
(* and what a command being written has left of its life began no later    *)
(* than its issue (so what a broken poll returns was still active).  It is *)
(* a statement about each router by itself; the lemmas ...User say what an *)
(* operation does to one router, ...Preserves lift them to the actions,    *)
(* and ...Calm say that nothing becomes active or in work but by Issue and *)
(* the two ways to enqueue.                                                *)
(***************************************************************************)
EXTENDS CmdQueue, WellFoundedInduction, SequenceTheorems, FiniteSetTheorems, TLAPS

-----------------------------------------------------------------------------
(* Induction over the naturals, for a set instead of a predicate.          *)

\* A set of naturals with 0 and with every successor has them all.
LEMMA NatSetInduction ==
  ASSUME NEW S, 0 \in S, \A n \in Nat : n \in S => n + 1 \in S
  PROVE  Nat \subseteq S
<1> DEFINE R == {ss \in Nat \X Nat : ss[1] < ss[2]}
           T == Nat \ S
<1>1. IsWellFoundedOn(R, Nat)
  BY NatLessThanWellFounded DEF OpToRel
<1>2. SUFFICES ASSUME T # {} PROVE FALSE
  OBVIOUS
<1> HIDE DEF R
<1>3. PICK x \in T : \A y \in T : ~ (<<y, x>> \in R)
  <2> HIDE DEF T
  <2>1. T \subseteq Nat
    BY DEF T
  <2> QED BY <1>1, <1>2, <2>1, WFMin
<1>4. x # 0 /\ x - 1 \in T
  BY <1>3
<1>5. <<x - 1, x>> \in R
  BY <1>4 DEF R
<1> HIDE DEF T
<1> QED BY <1>3, <1>4, <1>5

-----------------------------------------------------------------------------
(* What the queue's operations on a sequence of commands do.               *)

Distinct(q) == \A i, j \in DOMAIN q : q[i].id = q[j].id => i = j

OneUpdate(q) == \A i, j \in DOMAIN q :
                  q[i].id \in UpdateIds /\ q[j].id \in UpdateIds => i = j

\* Every command of r is one of q.
From(r, q) == \A k \in DOMAIN r : \E j \in DOMAIN q : r[k] = q[j]

\* WithoutUpdates, up to the i-th command of q.
Kept(q, f, i) == IF i = 0 THEN <<>>
                 ELSE IF q[i].id \in UpdateIds THEN f[i - 1]
                 ELSE Append(f[i - 1], q[i])

\* The recursive function of WithoutUpdates exists.
LEMMA KeptExists ==
  ASSUME NEW q, NEW m \in Nat
  PROVE  \E f : f = [i \in 0 .. m |-> Kept(q, f, i)]
<1> DEFINE S == {n \in Nat : \E f : f = [i \in 0 .. n |-> Kept(q, f, i)]}
<1>1. 0 \in S
  <2>1. [i \in 0 .. 0 |-> <<>>] = [i \in 0 .. 0 |-> Kept(q, [j \in 0 .. 0 |-> <<>>], i)]
    BY DEF Kept
  <2> QED BY <2>1
<1>2. ASSUME NEW n \in Nat, n \in S PROVE n + 1 \in S
  <2>1. PICK f : f = [i \in 0 .. n |-> Kept(q, f, i)]
    BY <1>2
  <2> DEFINE g == [i \in 0 .. n + 1 |-> IF i = n + 1 THEN Kept(q, f, i) ELSE f[i]]
  <2>2. \A i \in 0 .. n + 1 : g[i] = Kept(q, g, i)
    <3> SUFFICES ASSUME NEW i \in 0 .. n + 1 PROVE g[i] = Kept(q, g, i)
      OBVIOUS
    <3>1. i # 0 => g[i - 1] = f[i - 1]
      OBVIOUS
    <3>2. Kept(q, g, i) = Kept(q, f, i)
      BY <3>1 DEF Kept
    <3>3. g[i] = Kept(q, f, i)
      BY <2>1
    <3> QED BY <3>2, <3>3
  <2>3. g = [i \in 0 .. n + 1 |-> Kept(q, g, i)]
    BY <2>2
  <2> HIDE DEF g
  <2>4. \E h : h = [i \in 0 .. n + 1 |-> Kept(q, h, i)]
    BY <2>3
  <2> QED BY <2>4
<1> HIDE DEF S
<1>3. m \in S
  BY <1>1, <1>2, NatSetInduction
<1> QED BY <1>3 DEF S

\* WithoutUpdates is the last value of that function.
LEMMA WithoutUpdatesKept ==
  ASSUME NEW q \in Seq(Command)
  PROVE  \E f : /\ f = [i \in 0 .. Len(q) |-> Kept(q, f, i)]
                /\ WithoutUpdates(q) = f[Len(q)]
<1> DEFINE F == CHOOSE f : f = [i \in 0 .. Len(q) |-> Kept(q, f, i)]
<1>1. F = [i \in 0 .. Len(q) |-> Kept(q, F, i)]
  BY KeptExists
<1>2. WithoutUpdates(q) = F[Len(q)]
  BY DEF WithoutUpdates, Kept
<1> QED BY <1>1, <1>2

\* The commands that are kept are those of q, in their order, and no update.
LEMMA WithoutUpdatesKeeps ==
  ASSUME NEW q \in Seq(Command)
  PROVE  /\ WithoutUpdates(q) \in Seq(Command)
         /\ From(WithoutUpdates(q), q)
         /\ \A k \in DOMAIN WithoutUpdates(q) : WithoutUpdates(q)[k].id \notin UpdateIds
         /\ Distinct(q) => Distinct(WithoutUpdates(q))
<1>1. PICK f : /\ f = [i \in 0 .. Len(q) |-> Kept(q, f, i)]
               /\ WithoutUpdates(q) = f[Len(q)]
  BY WithoutUpdatesKept
<1>len. Len(q) \in Nat /\ DOMAIN q = 1 .. Len(q) /\ \A i \in 1 .. Len(q) : q[i] \in Command
  OBVIOUS
<1>rec. \A i \in 0 .. Len(q) : f[i] = Kept(q, f, i)
  BY <1>1
<1> DEFINE Good(r, n) ==
             /\ r \in Seq(Command)
             /\ \A k \in DOMAIN r : /\ r[k].id \notin UpdateIds
                                    /\ \E j \in 1 .. n : r[k] = q[j]
             /\ Distinct(q) => Distinct(r)
           S == {n \in Nat : n <= Len(q) => Good(f[n], n)}
<1>2. 0 \in S
  <2>1. f[0] = <<>>
    BY <1>rec, <1>len DEF Kept
  <2>2. Good(<<>>, 0)
    BY DEF Distinct
  <2> HIDE DEF Good
  <2> QED BY <2>1, <2>2
<1>3. ASSUME NEW n \in Nat, n \in S PROVE n + 1 \in S
  <2> SUFFICES ASSUME n + 1 <= Len(q) PROVE Good(f[n + 1], n + 1)
    OBVIOUS
  <2>1. Good(f[n], n)
    BY <1>3, <1>len
  <2>2. f[n + 1] = IF q[n + 1].id \in UpdateIds THEN f[n] ELSE Append(f[n], q[n + 1])
    BY <1>rec, <1>len DEF Kept
  <2>3. CASE q[n + 1].id \in UpdateIds
    <3>1. f[n + 1] = f[n]
      BY <2>2, <2>3
    <3> QED BY <3>1, <2>1
  <2>4. CASE q[n + 1].id \notin UpdateIds
    <3> DEFINE r == f[n]
               c == q[n + 1]
    <3>1. f[n + 1] = Append(r, c) /\ c \in Command
      BY <2>2, <2>4, <1>len
    <3>2. /\ Append(r, c) \in Seq(Command) /\ r \in Seq(Command)
          /\ DOMAIN Append(r, c) = 1 .. Len(r) + 1 /\ Len(r) \in Nat
          /\ DOMAIN r = 1 .. Len(r)
          /\ \A k \in 1 .. Len(r) : Append(r, c)[k] = r[k]
          /\ Append(r, c)[Len(r) + 1] = c
      BY <2>1, <3>1
    <3> HIDE DEF r, c
    <3>3. \A k \in DOMAIN r : /\ r[k].id \notin UpdateIds
                              /\ \E j \in 1 .. n : r[k] = q[j]
      BY <2>1 DEF r
    <3>4. c.id \notin UpdateIds /\ c = q[n + 1] /\ n + 1 \in 1 .. Len(q)
      BY <2>4 DEF c
    <3>5. \A k \in DOMAIN Append(r, c) : /\ Append(r, c)[k].id \notin UpdateIds
                                         /\ \E j \in 1 .. n + 1 : Append(r, c)[k] = q[j]
      BY <3>2, <3>3, <3>4
    <3>6. ASSUME Distinct(q) PROVE Distinct(Append(r, c))
      <4>1. \A k \in DOMAIN r : r[k].id # c.id
        BY <3>3, <3>4, <3>6, <1>len DEF Distinct
      <4>2. Distinct(r)
        BY <2>1, <3>6 DEF r
      <4> QED BY <4>1, <4>2, <3>2 DEF Distinct
    <3> QED BY <3>1, <3>2, <3>5, <3>6
  <2> QED BY <2>3, <2>4
<1> HIDE DEF S
<1>4. Len(q) \in S
  BY <1>2, <1>3, <1>len, NatSetInduction
<1>5. Good(f[Len(q)], Len(q))
  BY <1>4, <1>len DEF S
<1> QED BY <1>5, <1>1, <1>len DEF From

\* RemoveAt leaves the other commands, in their order.
LEMMA RemoveAtKeeps ==
  ASSUME NEW q \in Seq(Command), NEW n \in DOMAIN q
  PROVE  /\ RemoveAt(q, n) \in Seq(Command)
         /\ \A k \in DOMAIN RemoveAt(q, n) : \E j \in DOMAIN q : j # n /\ RemoveAt(q, n)[k] = q[j]
         /\ Distinct(q) => Distinct(RemoveAt(q, n))
         /\ OneUpdate(q) => OneUpdate(RemoveAt(q, n))
<1> DEFINE a == SubSeq(q, 1, n - 1)
           b == SubSeq(q, n + 1, Len(q))
           r == RemoveAt(q, n)
           old(k) == IF k < n THEN k ELSE k + 1
<1>1. /\ Len(q) \in Nat /\ DOMAIN q = 1 .. Len(q) /\ n \in 1 .. Len(q)
      /\ \A i \in 1 .. Len(q) : q[i] \in Command
  OBVIOUS
<1>2. /\ a \in Seq(Command) /\ Len(a) = n - 1
      /\ \A k \in 1 .. n - 1 : a[k] = q[k]
  BY <1>1, SubSeqProperties
<1>3. /\ b \in Seq(Command) /\ Len(b) = Len(q) - n
      /\ \A k \in 1 .. Len(q) - n : b[k] = q[n + k]
  BY <1>1, SubSeqProperties
<1>4. r = a \o b
  BY DEF RemoveAt
<1> HIDE DEF a, b, r
<1>5. /\ r \in Seq(Command) /\ DOMAIN r = 1 .. Len(q) - 1
      /\ \A k \in 1 .. Len(q) - 1 : r[k] = IF k <= n - 1 THEN a[k] ELSE b[k - (n - 1)]
  <2>1. /\ a \o b \in Seq(Command)
        /\ Len(a \o b) = Len(a) + Len(b)
        /\ \A k \in 1 .. Len(a) + Len(b) : (a \o b)[k] = IF k <= Len(a) THEN a[k] ELSE b[k - Len(a)]
    BY <1>2, <1>3, ConcatProperties
  <2>2. Len(a) = n - 1 /\ Len(a) + Len(b) = Len(q) - 1
    BY <1>1, <1>2, <1>3
  <2> QED BY <2>1, <2>2, <1>4
<1>6. ASSUME NEW k \in DOMAIN r PROVE old(k) \in DOMAIN q /\ old(k) # n /\ r[k] = q[old(k)]
  <2>1. k \in 1 .. Len(q) - 1
    BY <1>5
  <2>2. CASE k <= n - 1
    BY <2>1, <2>2, <1>1, <1>2, <1>5
  <2>3. CASE ~(k <= n - 1)
    <3>1. k - (n - 1) \in 1 .. Len(q) - n /\ n + (k - (n - 1)) = k + 1
      BY <2>1, <2>3, <1>1
    <3>2. r[k] = b[k - (n - 1)] /\ b[k - (n - 1)] = q[k + 1]
      BY <2>1, <2>3, <3>1, <1>3, <1>5
    <3> QED BY <3>2, <2>1, <2>3, <1>1
  <2> QED BY <2>2, <2>3
<1>7. \A k, l \in DOMAIN r : old(k) = old(l) => k = l
  BY <1>1, <1>5
<1> HIDE DEF old
<1>8. \A k \in DOMAIN r : \E j \in DOMAIN q : j # n /\ r[k] = q[j]
  BY <1>6
<1>9. Distinct(q) => Distinct(r)
  BY <1>6, <1>7 DEF Distinct
<1>10. OneUpdate(q) => OneUpdate(r)
  BY <1>6, <1>7 DEF OneUpdate
<1> QED BY <1>5, <1>8, <1>9, <1>10 DEF r

\* A command put at the head joins the old ones.
LEMMA ConsKeeps ==
  ASSUME NEW q \in Seq(Command), NEW c \in Command
  PROVE  /\ Cons(c, q) \in Seq(Command)
         /\ \A k \in DOMAIN Cons(c, q) : Cons(c, q)[k] = c \/ \E j \in DOMAIN q : Cons(c, q)[k] = q[j]
         /\ Distinct(q) /\ (\A j \in DOMAIN q : q[j].id # c.id) => Distinct(Cons(c, q))
         /\ OneUpdate(q) /\ (c.id \in UpdateIds => \A j \in DOMAIN q : q[j].id \notin UpdateIds)
            => OneUpdate(Cons(c, q))
<1> DEFINE r == Cons(c, q)
<1>1. Len(q) \in Nat /\ DOMAIN q = 1 .. Len(q)
  OBVIOUS
<1>2. /\ r \in Seq(Command) /\ DOMAIN r = 1 .. Len(q) + 1
      /\ r[1] = c /\ \A k \in 2 .. Len(q) + 1 : k - 1 \in DOMAIN q /\ r[k] = q[k - 1]
  <2>1. <<c>> \in Seq(Command) /\ Len(<<c>>) = 1 /\ <<c>>[1] = c
    OBVIOUS
  <2>2. r = <<c>> \o q
    BY DEF Cons
  <2>3. /\ r \in Seq(Command) /\ Len(r) = Len(q) + 1
        /\ \A k \in 1 .. Len(q) + 1 : r[k] = IF k <= 1 THEN c ELSE q[k - 1]
    BY <2>1, <2>2, <1>1, ConcatProperties
  <2> QED BY <2>3, <1>1
<1> HIDE DEF r
<1> DEFINE old(k) == k - 1
<1>3. /\ \A k \in DOMAIN r : \/ k = 1 /\ r[k] = c
                             \/ old(k) \in DOMAIN q /\ r[k] = q[old(k)]
      /\ \A k, l \in DOMAIN r : old(k) = old(l) => k = l
  BY <1>1, <1>2
<1> HIDE DEF old
<1>4. \A k \in DOMAIN r : r[k] = c \/ \E j \in DOMAIN q : r[k] = q[j]
  BY <1>3
<1>5. Distinct(q) /\ (\A j \in DOMAIN q : q[j].id # c.id) => Distinct(r)
  BY <1>3 DEF Distinct
<1>6. OneUpdate(q) /\ (c.id \in UpdateIds => \A j \in DOMAIN q : q[j].id \notin UpdateIds)
      => OneUpdate(r)
  BY <1>3 DEF OneUpdate
<1> QED BY <1>2, <1>4, <1>5, <1>6 DEF r

\* A command put at the end joins the old ones.
LEMMA AppendKeeps ==
  ASSUME NEW q \in Seq(Command), NEW c \in Command
  PROVE  /\ Append(q, c) \in Seq(Command)
         /\ \A k \in DOMAIN Append(q, c) : Append(q, c)[k] = c \/ \E j \in DOMAIN q : Append(q, c)[k] = q[j]
         /\ Distinct(q) /\ (\A j \in DOMAIN q : q[j].id # c.id) => Distinct(Append(q, c))
         /\ OneUpdate(q) /\ (c.id \in UpdateIds => \A j \in DOMAIN q : q[j].id \notin UpdateIds)
            => OneUpdate(Append(q, c))
<1> DEFINE r == Append(q, c)
<1>1. /\ Len(q) \in Nat /\ DOMAIN q = 1 .. Len(q)
      /\ r \in Seq(Command) /\ DOMAIN r = 1 .. Len(q) + 1
      /\ r[Len(q) + 1] = c /\ \A k \in 1 .. Len(q) : r[k] = q[k]
  OBVIOUS
<1> HIDE DEF r
<1>2. \A k \in DOMAIN r : k = Len(q) + 1 \/ k \in DOMAIN q
  BY <1>1
<1>3. \A k \in DOMAIN r : r[k] = c \/ \E j \in DOMAIN q : r[k] = q[j]
  BY <1>1, <1>2
<1>4. Distinct(q) /\ (\A j \in DOMAIN q : q[j].id # c.id) => Distinct(r)
  BY <1>1, <1>2 DEF Distinct
<1>5. OneUpdate(q) /\ (c.id \in UpdateIds => \A j \in DOMAIN q : q[j].id \notin UpdateIds)
      => OneUpdate(r)
  BY <1>1, <1>2 DEF OneUpdate
<1> QED BY <1>1, <1>3, <1>4, <1>5 DEF r

\* A new command in the queue: the old ones stay, or are superseded.
LEMMA EnqueuedKeeps ==
  ASSUME NEW q \in Seq(Command), NEW id \in Ids, \A j \in DOMAIN q : q[j].id # id
  PROVE  /\ Enqueued(q, id) \in Seq(Command)
         /\ \A k \in DOMAIN Enqueued(q, id) :
              \/ Enqueued(q, id)[k] = [id |-> id, left |-> TTL(id)]
              \/ \E j \in DOMAIN q : Enqueued(q, id)[k] = q[j]
         /\ Distinct(q) => Distinct(Enqueued(q, id))
         /\ OneUpdate(q) => OneUpdate(Enqueued(q, id))
<1> DEFINE c == [id |-> id, left |-> TTL(id)]
           w == IF id \in UpdateIds THEN WithoutUpdates(q) ELSE q
<1>1. c \in Command /\ c.id = id
  BY QueueConstants DEF Command, TTL, MaxTTL
<1>2. Enqueued(q, id) = Append(w, c)
  BY DEF Enqueued
<1>3. /\ w \in Seq(Command) /\ From(w, q)
      /\ Distinct(q) => Distinct(w)
      /\ id \in UpdateIds => \A k \in DOMAIN w : w[k].id \notin UpdateIds
      /\ OneUpdate(q) => OneUpdate(w)
  <2>1. CASE id \in UpdateIds
    BY <2>1, WithoutUpdatesKeeps DEF OneUpdate
  <2>2. CASE id \notin UpdateIds
    BY <2>2 DEF From
  <2> QED BY <2>1, <2>2
<1> HIDE DEF c, w
<1>4. \A k \in DOMAIN w : w[k].id # c.id
  BY <1>1, <1>3 DEF From
<1> DEFINE r == Append(w, c)
<1>5. /\ r \in Seq(Command)
      /\ \A k \in DOMAIN r : r[k] = c \/ \E j \in DOMAIN w : r[k] = w[j]
      /\ Distinct(w) => Distinct(r)
      /\ OneUpdate(w) => OneUpdate(r)
  BY <1>1, <1>3, <1>4, AppendKeeps
<1> HIDE DEF r
<1>6. \A k \in DOMAIN r : r[k] = c \/ \E j \in DOMAIN q : r[k] = q[j]
  BY <1>3, <1>5 DEF From
<1> QED BY <1>2, <1>3, <1>5, <1>6 DEF r, c

\* A queue that ages keeps its commands and its order.
LEMMA AgedKeeps ==
  ASSUME NEW q \in Seq(Command)
  PROVE  LET r == [i \in DOMAIN q |-> Aged(q[i])] IN
         /\ r \in Seq(Command) /\ DOMAIN r = DOMAIN q
         /\ \A i \in DOMAIN q : r[i].id = q[i].id /\ r[i].left = Less(q[i].left)
         /\ Distinct(q) => Distinct(r)
         /\ OneUpdate(q) => OneUpdate(r)
<1> DEFINE r == [i \in DOMAIN q |-> Aged(q[i])]
<1>1. Len(q) \in Nat /\ DOMAIN q = 1 .. Len(q) /\ \A i \in 1 .. Len(q) : q[i] \in Command
  OBVIOUS
<1>2. MaxTTL \in Nat
  BY QueueConstants DEF MaxTTL
<1>3. \A i \in 1 .. Len(q) : /\ Aged(q[i]) \in Command /\ Aged(q[i]).id = q[i].id
                              /\ Aged(q[i]).left = Less(q[i].left)
  BY <1>1, <1>2 DEF Aged, Command, Less
<1>4. r \in Seq(Command) /\ DOMAIN r = DOMAIN q
  BY <1>1, <1>3
<1>5. \A i \in DOMAIN q : r[i].id = q[i].id /\ r[i].left = Less(q[i].left)
  BY <1>1, <1>3
<1> HIDE DEF r
<1>6. (Distinct(q) => Distinct(r)) /\ (OneUpdate(q) => OneUpdate(r))
  BY <1>4, <1>5 DEF Distinct, OneUpdate
<1> QED BY <1>4, <1>5, <1>6 DEF r

-----------------------------------------------------------------------------
(* The invariant, for one router: its queue p, its issues s, its results r *)
(* and the commands w that poll handlers write.                            *)

OneUser(p, s, r, w) == /\ p \in Seq(Command)
                       /\ s \in [Ids -> Entry \cup {Absent}]
                       /\ r \in [Ids -> (0 .. SweepTTL + 1) \cup {None}]
                       /\ w \in SUBSET Command

\* A waiting command is not handed out, not being written, not answered.
OnlyWaits(p, s, r, w) == \A i \in DOMAIN p : /\ s[p[i].id] = Absent
                                             /\ r[p[i].id] = None
                                             /\ \A c \in w : c.id # p[i].id

\* A waiting update has no more life than it was given.
LifeInQueue(p) == \A i \in DOMAIN p : p[i].id \in UpdateIds => p[i].left <= UpdateTTL

\* No two handlers write the same command.
WritesOnce(w) == \A c, d \in w : c.id = d.id => c = d

\* An answer is not older than the issue it answers.
AnswerFollows(s, r) ==
  \A id \in Ids : s[id] # Absent /\ r[id] # None => r[id] <= s[id].age

\* Only an answered command is released early.
HeldAnswered(s, r) ==
  \A id \in Ids : s[id] # Absent /\ s[id].hold # None => r[id] # None

\* A command that is being written and has life left is issued, and what is
\* left of its life began no later than that issue.
LifeLeft(s, w) ==
  \A c \in w : c.id \in UpdateIds /\ c.left > 0 => /\ s[c.id] # Absent
                                                   /\ c.left + s[c.id].age <= UpdateTTL

UserInv(p, s, r, w) == /\ Distinct(p) /\ OneUpdate(p) /\ LifeInQueue(p)
                       /\ OnlyWaits(p, s, r, w) /\ WritesOnce(w)
                       /\ AnswerFollows(s, r) /\ HeldAnswered(s, r) /\ LifeLeft(s, w)

QueueInv ==
  /\ TypeOK
  /\ \A u \in Users : UserInv(pending[u], issued[u], results[u], writing[u])

\* The parts of a router's state have their types, and so have their elements.
LEMMA Types ==
  ASSUME TypeOK, NEW u \in Users
  PROVE  OneUser(pending[u], issued[u], results[u], writing[u])
BY DEF TypeOK, OneUser

\* What a router's parts contain.
LEMMA Elements ==
  ASSUME NEW p, NEW s, NEW r, NEW w, OneUser(p, s, r, w)
  PROVE  /\ \A i \in DOMAIN p : p[i] \in Command /\ p[i].id \in Ids /\ p[i].left \in 0 .. MaxTTL
         /\ \A c \in w : c \in Command /\ c.id \in Ids /\ c.left \in 0 .. MaxTTL
         /\ \A id \in Ids : s[id] # Absent => /\ s[id] \in Entry
                                              /\ s[id].left \in 0 .. MaxTTL
                                              /\ s[id].age \in 0 .. SweepTTL + 1
                                              /\ s[id].hold \in (0 .. MaxTTL) \cup {None}
         /\ \A id \in Ids : r[id] # None => r[id] \in 0 .. SweepTTL + 1
<1>1. \A i \in DOMAIN p : p[i] \in Command
  BY DEF OneUser
<1>2. \A c \in w : c \in Command
  BY DEF OneUser
<1>3. \A id \in Ids : s[id] # Absent => s[id] \in Entry
  BY DEF OneUser
<1>4. \A id \in Ids : r[id] # None => r[id] \in 0 .. SweepTTL + 1
  BY DEF OneUser
<1>5. \A c \in Command : c.id \in Ids /\ c.left \in 0 .. MaxTTL
  BY DEF Command
<1>6. \A e \in Entry : /\ e.left \in 0 .. MaxTTL /\ e.age \in 0 .. SweepTTL + 1
                       /\ e.hold \in (0 .. MaxTTL) \cup {None}
  BY DEF Entry
<1> QED BY <1>1, <1>2, <1>3, <1>4, <1>5, <1>6

\* A step that changes what one router has keeps the invariant when it keeps
\* that router's part of it.
LEMMA OneUserSteps ==
  ASSUME QueueInv, NEW u \in Users, NEW p, NEW s, NEW r, NEW w,
         OneUser(p, s, r, w), UserInv(p, s, r, w),
         pending' = [pending EXCEPT ![u] = p], issued' = [issued EXCEPT ![u] = s],
         results' = [results EXCEPT ![u] = r], writing' = [writing EXCEPT ![u] = w],
         deferred' \subseteq UpdateIds
  PROVE  QueueInv'
<1>1. TypeOK
  BY DEF QueueInv
<1>2. TypeOK'
  BY <1>1 DEF TypeOK, OneUser
<1>3. ASSUME NEW v \in Users PROVE UserInv(pending'[v], issued'[v], results'[v], writing'[v])
  <2>1. CASE v = u
    <3>1. pending'[v] = p /\ issued'[v] = s /\ results'[v] = r /\ writing'[v] = w
      BY <1>1, <2>1 DEF TypeOK
    <3> QED BY <3>1
  <2>2. CASE v # u
    <3>1. /\ pending'[v] = pending[v] /\ issued'[v] = issued[v]
          /\ results'[v] = results[v] /\ writing'[v] = writing[v]
      BY <1>1, <2>2 DEF TypeOK
    <3>2. UserInv(pending[v], issued[v], results[v], writing[v])
      BY DEF QueueInv
    <3> QED BY <3>1, <3>2
  <2> QED BY <2>1, <2>2
<1> QED BY <1>2, <1>3 DEF QueueInv

\* What is left alone is what it is changed to.
LEMMA SameForOne ==
  ASSUME TypeOK, NEW u \in Users
  PROVE  /\ pending = [pending EXCEPT ![u] = pending[u]]
         /\ issued = [issued EXCEPT ![u] = issued[u]]
         /\ results = [results EXCEPT ![u] = results[u]]
         /\ writing = [writing EXCEPT ![u] = writing[u]]
BY DEF TypeOK

-----------------------------------------------------------------------------
(* What each operation does to one router's part.                          *)

\* A new command that nothing knows joins the queue (enqueueLocked).
LEMMA EnqueueUser ==
  ASSUME NEW p, NEW s, NEW r, NEW w, OneUser(p, s, r, w), UserInv(p, s, r, w),
         NEW id \in Ids, \A j \in DOMAIN p : p[j].id # id,
         s[id] = Absent, r[id] = None, \A c \in w : c.id # id
  PROVE  OneUser(Enqueued(p, id), s, r, w) /\ UserInv(Enqueued(p, id), s, r, w)
<1> DEFINE q == Enqueued(p, id)
           c == [id |-> id, left |-> TTL(id)]
<1>1. /\ q \in Seq(Command)
      /\ \A k \in DOMAIN q : q[k] = c \/ \E j \in DOMAIN p : q[k] = p[j]
      /\ Distinct(q) /\ OneUpdate(q)
  BY EnqueuedKeeps DEF OneUser, UserInv
<1>2. c.id = id /\ (id \in UpdateIds => c.left = UpdateTTL)
  BY DEF TTL
<1> HIDE DEF q, c
<1>3. LifeInQueue(q)
  BY <1>1, <1>2, QueueConstants DEF UserInv, LifeInQueue
<1>4. OnlyWaits(q, s, r, w)
  BY <1>1, <1>2 DEF UserInv, OnlyWaits
<1> QED BY <1>1, <1>3, <1>4 DEF UserInv, OneUser, q

\* Commands leave the queue, in whatever way.
LEMMA LeaveUser ==
  ASSUME NEW p, NEW s, NEW r, NEW w, OneUser(p, s, r, w), UserInv(p, s, r, w),
         NEW q \in Seq(Command), From(q, p), Distinct(q), OneUpdate(q)
  PROVE  OneUser(q, s, r, w) /\ UserInv(q, s, r, w)
<1>1. LifeInQueue(q)
  BY DEF UserInv, LifeInQueue, From
<1>2. OnlyWaits(q, s, r, w)
  BY DEF UserInv, OnlyWaits, From
<1> QED BY <1>1, <1>2 DEF UserInv, OneUser

\* A command is taken from the queue, issued and written (Dequeue).
LEMMA IssueUser ==
  ASSUME NEW p, NEW s, NEW r, NEW w, OneUser(p, s, r, w), UserInv(p, s, r, w),
         NEW i \in DOMAIN p, NEW t,
         t = [s EXCEPT ![p[i].id] = [left |-> p[i].left, age |-> 0, hold |-> None]]
  PROVE  /\ OneUser(RemoveAt(p, i), t, r, w \cup {p[i]})
         /\ UserInv(RemoveAt(p, i), t, r, w \cup {p[i]})
<1> DEFINE q == RemoveAt(p, i)
           c == p[i]
           e == [left |-> c.left, age |-> 0, hold |-> None]
           x == w \cup {c}
<1>1. c \in Command /\ c.id \in Ids /\ c.left \in 0 .. MaxTTL
  BY Elements
<1>2. /\ q \in Seq(Command) /\ Distinct(q) /\ OneUpdate(q)
      /\ \A k \in DOMAIN q : \E j \in DOMAIN p : j # i /\ q[k] = p[j]
  BY RemoveAtKeeps DEF OneUser, UserInv
<1> HIDE DEF q
<1>3. \A k \in DOMAIN q : q[k].id # c.id
  BY <1>2 DEF UserInv, Distinct
<1>4. r[c.id] = None /\ s[c.id] = Absent /\ \A d \in w : d.id # c.id
  BY DEF UserInv, OnlyWaits
<1>5. c.id \in UpdateIds => c.left <= UpdateTTL
  BY DEF UserInv, LifeInQueue
<1>6. e \in Entry /\ e # Absent /\ e.age = 0 /\ e.hold = None
  BY <1>1, QueueConstants DEF Entry, Absent, None
<1>7. t = [s EXCEPT ![c.id] = e]
  OBVIOUS
<1>8. \A d \in x : d = c \/ d \in w
  OBVIOUS
<1> HIDE DEF c, e
<1>9. /\ t[c.id] = e /\ \A id \in Ids : id # c.id => t[id] = s[id]
      /\ t \in [Ids -> Entry \cup {Absent}]
  <2>1. s \in [Ids -> Entry \cup {Absent}]
    BY DEF OneUser
  <2>2. c.id \in Ids /\ e \in Entry \cup {Absent}
    BY <1>1, <1>6
  <2> QED BY <2>1, <2>2, <1>7
<1>10. OneUser(q, t, r, x)
  BY <1>1, <1>2, <1>9 DEF OneUser
<1> HIDE DEF x
<1>11. OnlyWaits(q, t, r, x)
  <2> SUFFICES ASSUME NEW k \in DOMAIN q
               PROVE  /\ t[q[k].id] = Absent /\ r[q[k].id] = None
                      /\ \A d \in x : d.id # q[k].id
    BY DEF OnlyWaits
  <2>1. PICK j \in DOMAIN p : q[k] = p[j]
    BY <1>2
  <2>2. q[k].id \in Ids /\ q[k].id # c.id
    BY <1>3, <2>1, Elements
  <2>3. s[q[k].id] = Absent /\ r[q[k].id] = None /\ \A d \in w : d.id # q[k].id
    BY <2>1 DEF UserInv, OnlyWaits
  <2> QED BY <2>2, <2>3, <1>8, <1>9
<1>12. WritesOnce(x)
  BY <1>4, <1>8 DEF UserInv, WritesOnce
<1>13. AnswerFollows(t, r)
  BY <1>1, <1>4, <1>9 DEF UserInv, AnswerFollows
<1>14. HeldAnswered(t, r)
  BY <1>1, <1>6, <1>9 DEF UserInv, HeldAnswered
<1>15. LifeLeft(t, x)
  <2> SUFFICES ASSUME NEW d \in x, d.id \in UpdateIds, d.left > 0
               PROVE  t[d.id] # Absent /\ d.left + t[d.id].age <= UpdateTTL
    BY DEF LifeLeft
  <2>1. CASE d = c
    BY <2>1, <1>1, <1>5, <1>6, <1>9
  <2>2. CASE d \in w
    <3>1. d.id \in Ids /\ d.id # c.id
      BY <2>2, <1>4 DEF Ids
    <3>2. s[d.id] # Absent /\ d.left + s[d.id].age <= UpdateTTL
      BY <2>2 DEF UserInv, LifeLeft
    <3> QED BY <3>1, <3>2, <1>9
  <2> QED BY <2>1, <2>2, <1>8
<1>16. LifeInQueue(q)
  BY <1>2 DEF UserInv, LifeInQueue
<1> QED BY <1>2, <1>10, <1>11, <1>12, <1>13, <1>14, <1>15, <1>16 DEF UserInv, q, x, c

\* Handlers stop writing.
LEMMA WrittenUser ==
  ASSUME NEW p, NEW s, NEW r, NEW w, OneUser(p, s, r, w), UserInv(p, s, r, w),
         NEW x, x \subseteq w
  PROVE  OneUser(p, s, r, x) /\ UserInv(p, s, r, x)
BY DEF OneUser, UserInv, OnlyWaits, WritesOnce, LifeLeft

\* An issue is forgotten that no handler writes.
LEMMA ForgetUser ==
  ASSUME NEW p, NEW s, NEW r, NEW w, OneUser(p, s, r, w), UserInv(p, s, r, w),
         NEW id \in Ids, \A d \in w : d.id # id, NEW t, t = [s EXCEPT ![id] = Absent]
  PROVE  OneUser(p, t, r, w) /\ UserInv(p, t, r, w)
<1>1. /\ t \in [Ids -> Entry \cup {Absent}] /\ t[id] = Absent
      /\ \A j \in Ids : j # id => t[j] = s[j]
  BY DEF OneUser
<1>2. OneUser(p, t, r, w)
  BY <1>1 DEF OneUser
<1>3. OnlyWaits(p, t, r, w)
  <2>1. \A i \in DOMAIN p : p[i].id \in Ids
    BY Elements
  <2> QED BY <1>1, <2>1 DEF UserInv, OnlyWaits
<1>4. AnswerFollows(t, r) /\ HeldAnswered(t, r)
  BY <1>1 DEF UserInv, AnswerFollows, HeldAnswered
<1>5. LifeLeft(t, w)
  BY <1>1 DEF UserInv, LifeLeft, Ids
<1> QED BY <1>2, <1>3, <1>4, <1>5 DEF UserInv

\* A command nothing else knows goes back to the head of its queue.
LEMMA BackUser ==
  ASSUME NEW p, NEW s, NEW r, NEW w, OneUser(p, s, r, w), UserInv(p, s, r, w),
         NEW c \in Command, s[c.id] = Absent, r[c.id] = None, \A d \in w : d.id # c.id,
         \A i \in DOMAIN p : /\ p[i].id # c.id
                             /\ ~(c.id \in UpdateIds /\ p[i].id \in UpdateIds),
         c.id \in UpdateIds => c.left <= UpdateTTL
  PROVE  OneUser(Cons(c, p), s, r, w) /\ UserInv(Cons(c, p), s, r, w)
<1> DEFINE q == Cons(c, p)
<1>1. /\ q \in Seq(Command)
      /\ \A k \in DOMAIN q : q[k] = c \/ \E j \in DOMAIN p : q[k] = p[j]
      /\ Distinct(q) /\ OneUpdate(q)
  BY ConsKeeps DEF OneUser, UserInv
<1> HIDE DEF q
<1>2. LifeInQueue(q)
  BY <1>1 DEF UserInv, LifeInQueue
<1>3. OnlyWaits(q, s, r, w)
  BY <1>1 DEF UserInv, OnlyWaits
<1> QED BY <1>1, <1>2, <1>3 DEF UserInv, OneUser, q

\* An answer to an issued command is recorded (RecordResult).
LEMMA RecordUser ==
  ASSUME NEW p, NEW s, NEW r, NEW w, OneUser(p, s, r, w), UserInv(p, s, r, w),
         NEW id \in Ids, s[id] # Absent, NEW t, t = [r EXCEPT ![id] = 0]
  PROVE  OneUser(p, s, t, w) /\ UserInv(p, s, t, w)
<1>1. /\ t \in [Ids -> (0 .. SweepTTL + 1) \cup {None}] /\ t[id] = 0
      /\ \A j \in Ids : j # id => t[j] = r[j]
  BY QueueConstants DEF OneUser
<1>2. OneUser(p, s, t, w)
  BY <1>1 DEF OneUser
<1>3. OnlyWaits(p, s, t, w)
  <2>1. \A i \in DOMAIN p : p[i].id \in Ids
    BY Elements
  <2> QED BY <1>1, <2>1 DEF UserInv, OnlyWaits
<1>4. AnswerFollows(s, t)
  <2>1. s[id].age >= 0
    BY Elements, QueueConstants
  <2> QED BY <1>1, <2>1 DEF UserInv, AnswerFollows
<1>5. HeldAnswered(s, t)
  BY <1>1 DEF UserInv, HeldAnswered, None
<1> QED BY <1>2, <1>3, <1>4, <1>5 DEF UserInv

\* An answered command is released early (ReleaseActive).
LEMMA ReleaseUser ==
  ASSUME NEW p, NEW s, NEW r, NEW w, OneUser(p, s, r, w), UserInv(p, s, r, w),
         NEW id \in Ids, s[id] # Absent, r[id] # None, NEW h \in 0 .. MaxTTL,
         NEW t, t = [s EXCEPT ![id].hold = h]
  PROVE  OneUser(p, t, r, w) /\ UserInv(p, t, r, w)
<1> DEFINE e == [s[id] EXCEPT !.hold = h]
<1>1. /\ e \in Entry /\ e # Absent /\ e.age = s[id].age
  <2>1. s[id] \in Entry
    BY Elements
  <2>2. h # None - 1
    BY DEF None
  <2> QED BY <2>1, <2>2 DEF Entry, Absent
<1>2. t = [s EXCEPT ![id] = e]
  OBVIOUS
<1> HIDE DEF e
<1>3. /\ t \in [Ids -> Entry \cup {Absent}] /\ t[id] = e
      /\ \A j \in Ids : j # id => t[j] = s[j]
  BY <1>1, <1>2 DEF OneUser
<1>4. OneUser(p, t, r, w)
  BY <1>3 DEF OneUser
<1>5. OnlyWaits(p, t, r, w)
  <2>1. \A i \in DOMAIN p : p[i].id \in Ids /\ p[i].id # id
    BY Elements DEF UserInv, OnlyWaits
  <2> QED BY <1>3, <2>1 DEF UserInv, OnlyWaits
<1>6. AnswerFollows(t, r)
  BY <1>1, <1>3 DEF UserInv, AnswerFollows
<1>7. HeldAnswered(t, r)
  BY <1>1, <1>3 DEF UserInv, HeldAnswered
<1>8. LifeLeft(t, w)
  BY <1>1, <1>3 DEF UserInv, LifeLeft, Ids
<1> QED BY <1>4, <1>5, <1>6, <1>7, <1>8 DEF UserInv
\* The janitor evicts what is old (Sweep).
LEMMA SweepUser ==
  ASSUME NEW p, NEW s, NEW r, NEW w, OneUser(p, s, r, w), UserInv(p, s, r, w),
         NEW t, t = [id \in Ids |-> IF TooOld(s[id].age) THEN Absent ELSE s[id]],
         NEW v, v = [id \in Ids |-> IF TooOld(r[id]) THEN None ELSE r[id]]
  PROVE  OneUser(p, t, v, w) /\ UserInv(p, t, v, w)
<1>1. s \in [Ids -> Entry \cup {Absent}] /\ r \in [Ids -> (0 .. SweepTTL + 1) \cup {None}]
  BY DEF OneUser
<1>2. \A id \in Ids : /\ t[id] = Absent \/ t[id] = s[id]
                      /\ t[id] = Absent \/ ~TooOld(s[id].age)
                      /\ s[id] # Absent /\ ~TooOld(s[id].age) => t[id] = s[id]
  OBVIOUS
<1>3. \A id \in Ids : /\ v[id] = None \/ v[id] = r[id]
                      /\ r[id] # None /\ ~TooOld(r[id]) => v[id] = r[id]
  OBVIOUS
<1>4. t \in [Ids -> Entry \cup {Absent}] /\ v \in [Ids -> (0 .. SweepTTL + 1) \cup {None}]
  BY <1>1
<1>5. OneUser(p, t, v, w)
  BY <1>4 DEF OneUser
<1>6. OnlyWaits(p, t, v, w)
  <2>1. \A i \in DOMAIN p : p[i].id \in Ids
    BY Elements
  <2> QED BY <1>2, <1>3, <2>1 DEF UserInv, OnlyWaits
<1>7. AnswerFollows(t, v)
  BY <1>2, <1>3 DEF UserInv, AnswerFollows
<1>8. HeldAnswered(t, v)
  <2> SUFFICES ASSUME NEW id \in Ids, t[id] # Absent, t[id].hold # None PROVE v[id] # None
    BY DEF HeldAnswered
  <2>1. t[id] = s[id] /\ ~TooOld(s[id].age)
    BY <1>2
  <2>2. r[id] # None /\ r[id] <= s[id].age
    BY <2>1 DEF UserInv, HeldAnswered, AnswerFollows
  <2>3. ~TooOld(r[id])
    BY <2>1, <2>2, Elements, QueueConstants DEF TooOld
  <2> QED BY <2>2, <2>3, <1>3
<1>9. LifeLeft(t, w)
  <2> SUFFICES ASSUME NEW c \in w, c.id \in UpdateIds, c.left > 0
               PROVE  t[c.id] # Absent /\ c.left + t[c.id].age <= UpdateTTL
    BY DEF LifeLeft
  <2>1. s[c.id] # Absent /\ c.left + s[c.id].age <= UpdateTTL /\ c.id \in Ids
    BY DEF UserInv, LifeLeft, Ids
  <2>2. c.left \in 0 .. MaxTTL /\ s[c.id].age \in 0 .. SweepTTL + 1
    BY <2>1, Elements
  <2>3. MaxTTL \in Nat
    BY QueueConstants DEF MaxTTL
  <2>4. ~TooOld(s[c.id].age)
    BY <2>1, <2>2, <2>3, QueueConstants DEF TooOld
  <2> QED BY <2>1, <2>4, <1>2
<1> QED BY <1>5, <1>6, <1>7, <1>8, <1>9 DEF UserInv

\* An entry that ages stays an entry.
LEMMA AgedEntryKeeps ==
  ASSUME NEW e \in Entry
  PROVE  /\ AgedEntry(e) \in Entry /\ AgedEntry(e) # Absent
         /\ AgedEntry(e).age = Older(e.age)
         /\ AgedEntry(e).hold = Less(e.hold)
         /\ AgedEntry(e).hold = None <=> e.hold = None
<1>1. /\ e.left \in 0 .. MaxTTL /\ e.age \in 0 .. SweepTTL + 1
      /\ e.hold \in (0 .. MaxTTL) \cup {None}
  BY DEF Entry
<1>2. MaxTTL \in Nat /\ SweepTTL \in Nat
  BY QueueConstants DEF MaxTTL
<1>3. Less(e.left) \in 0 .. MaxTTL /\ Older(e.age) \in 0 .. SweepTTL + 1
  BY <1>1, <1>2 DEF Less, Older
<1>4. /\ Less(e.hold) \in (0 .. MaxTTL) \cup {None}
      /\ Less(e.hold) = None <=> e.hold = None
      /\ Less(e.hold) # None - 1
  BY <1>1, <1>2 DEF Less, None
<1> QED BY <1>3, <1>4 DEF AgedEntry, Entry, Absent

\* Time passes.
LEMMA TickUser ==
  ASSUME NEW p, NEW s, NEW r, NEW w, OneUser(p, s, r, w), UserInv(p, s, r, w),
         NEW q, q = [i \in DOMAIN p |-> Aged(p[i])],
         NEW t, t = [id \in Ids |-> IF s[id] # Absent THEN AgedEntry(s[id]) ELSE Absent],
         NEW v, v = [id \in Ids |-> IF r[id] # None THEN Older(r[id]) ELSE None],
         NEW x, x = {Aged(c) : c \in w}
  PROVE  OneUser(q, t, v, x) /\ UserInv(q, t, v, x)
<1>1. SweepTTL \in Nat /\ MaxTTL \in Nat /\ UpdateTTL \in Nat /\ UpdateTTL <= SweepTTL
  BY QueueConstants DEF MaxTTL
<1>2. /\ q \in Seq(Command) /\ DOMAIN q = DOMAIN p
      /\ \A i \in DOMAIN p : q[i].id = p[i].id /\ q[i].left = Less(p[i].left)
      /\ Distinct(q) /\ OneUpdate(q)
  BY AgedKeeps DEF OneUser, UserInv
<1>3. \A id \in Ids : s[id] # Absent => /\ t[id] \in Entry /\ t[id] # Absent
                                        /\ t[id].age = Older(s[id].age)
                                        /\ t[id].hold = None <=> s[id].hold = None
  BY Elements, AgedEntryKeeps
<1>4. \A id \in Ids : s[id] = Absent => t[id] = Absent
  OBVIOUS
<1>5. \A id \in Ids : r[id] # None => /\ v[id] \in 0 .. SweepTTL + 1 /\ v[id] # None
                                      /\ v[id] = Older(r[id])
  BY <1>1, Elements DEF Older, None
<1>6. \A id \in Ids : r[id] = None => v[id] = None
  OBVIOUS
<1>7. \A d \in x : \E c \in w : /\ d = Aged(c) /\ d \in Command
                                /\ d.id = c.id /\ d.left = Less(c.left)
  <2> SUFFICES ASSUME NEW c \in w
               PROVE  /\ Aged(c) \in Command /\ Aged(c).id = c.id
                      /\ Aged(c).left = Less(c.left)
    OBVIOUS
  <2>1. c \in Command /\ c.left \in 0 .. MaxTTL
    BY Elements
  <2> QED BY <2>1, <1>1 DEF Aged, Command, Less
<1>8. OneUser(q, t, v, x)
  <2>1. t = [id \in Ids |-> t[id]] /\ v = [id \in Ids |-> v[id]]
    OBVIOUS
  <2>2. \A id \in Ids : t[id] \in Entry \cup {Absent}
    BY <1>3, <1>4
  <2>3. \A id \in Ids : v[id] \in (0 .. SweepTTL + 1) \cup {None}
    BY <1>5, <1>6
  <2>4. t \in [Ids -> Entry \cup {Absent}] /\ v \in [Ids -> (0 .. SweepTTL + 1) \cup {None}]
    BY <2>1, <2>2, <2>3
  <2>5. x \in SUBSET Command
    BY <1>7
  <2> QED BY <1>2, <2>4, <2>5 DEF OneUser
<1>9. LifeInQueue(q)
  <2>1. \A i \in DOMAIN p : p[i].left \in 0 .. MaxTTL
    BY Elements
  <2> QED BY <1>1, <1>2, <2>1 DEF UserInv, LifeInQueue, Less
<1>10. OnlyWaits(q, t, v, x)
  <2>1. \A i \in DOMAIN p : p[i].id \in Ids
    BY Elements
  <2>2. \A i \in DOMAIN p : /\ s[p[i].id] = Absent /\ r[p[i].id] = None
                            /\ \A c \in w : c.id # p[i].id
    BY DEF UserInv, OnlyWaits
  <2> QED BY <1>2, <1>4, <1>6, <1>7, <2>1, <2>2 DEF OnlyWaits
<1>11. WritesOnce(x)
  BY <1>7 DEF UserInv, WritesOnce
<1>12. AnswerFollows(t, v)
  <2> SUFFICES ASSUME NEW id \in Ids, t[id] # Absent, v[id] # None
               PROVE  v[id] <= t[id].age
    BY DEF AnswerFollows
  <2>1. s[id] # Absent /\ r[id] # None
    BY <1>4, <1>6
  <2>2. r[id] <= s[id].age /\ r[id] \in 0 .. SweepTTL + 1 /\ s[id].age \in 0 .. SweepTTL + 1
    BY <2>1, Elements DEF UserInv, AnswerFollows
  <2> QED BY <2>1, <2>2, <1>1, <1>3, <1>5 DEF Older
<1>13. HeldAnswered(t, v)
  BY <1>3, <1>4, <1>5 DEF UserInv, HeldAnswered
<1>14. LifeLeft(t, x)
  <2> SUFFICES ASSUME NEW d \in x, d.id \in UpdateIds, d.left > 0
               PROVE  t[d.id] # Absent /\ d.left + t[d.id].age <= UpdateTTL
    BY DEF LifeLeft
  <2>1. PICK c \in w : d.id = c.id /\ d.left = Less(c.left)
    BY <1>7
  <2>2. c.left \in 0 .. MaxTTL /\ c.id \in Ids
    BY Elements
  <2>3. c.left > 0 /\ d.left = c.left - 1
    BY <2>1, <2>2, <1>1 DEF Less
  <2>4. s[c.id] # Absent /\ c.left + s[c.id].age <= UpdateTTL
    BY <2>1, <2>3 DEF UserInv, LifeLeft
  <2>5. s[c.id].age \in 0 .. SweepTTL + 1
    BY <2>2, <2>4, Elements
  <2>6. Older(s[c.id].age) <= s[c.id].age + 1 /\ Older(s[c.id].age) \in Nat
    BY <2>5, <1>1 DEF Older
  <2>7. t[c.id] # Absent /\ t[c.id].age = Older(s[c.id].age)
    BY <2>2, <2>4, <1>3
  <2> QED BY <2>1, <2>2, <2>3, <2>4, <2>5, <2>6, <2>7, <1>1
<1> QED BY <1>2, <1>8, <1>9, <1>10, <1>11, <1>12, <1>13, <1>14 DEF UserInv

-----------------------------------------------------------------------------
(* The invariant holds initially and every operation keeps it.             *)

\* An empty queue has the invariant.
LEMMA InitQueueInv == Init => QueueInv
<1> SUFFICES ASSUME Init PROVE QueueInv
  OBVIOUS
<1>1. TypeOK
  BY DEF Init, TypeOK
<1>2. ASSUME NEW u \in Users
      PROVE  UserInv(pending[u], issued[u], results[u], writing[u])
  <2>1. /\ pending[u] = <<>> /\ writing[u] = {}
        /\ \A id \in Ids : issued[u][id] = Absent /\ results[u][id] = None
    BY DEF Init
  <2> QED BY <2>1 DEF UserInv, Distinct, OneUpdate, LifeInQueue, OnlyWaits, WritesOnce,
                      AnswerFollows, HeldAnswered, LifeLeft
<1> QED BY <1>1, <1>2 DEF QueueInv

\* Both ways to put a command in.
PutsIn(u, id) == /\ pending' = [pending EXCEPT ![u] = Enqueued(@, id)]
                 /\ UNCHANGED <<issued, results, writing>>

\* Enqueue and EnqueueIfNoActive keep the invariant.
LEMMA EnqueuePreserves ==
  ASSUME QueueInv, NEW u \in Users, NEW id \in Ids, ~InUse(id), PutsIn(u, id),
         deferred' \subseteq UpdateIds
  PROVE  QueueInv'
<1>1. /\ OneUser(pending[u], issued[u], results[u], writing[u])
      /\ UserInv(pending[u], issued[u], results[u], writing[u])
  BY Types DEF QueueInv
<1>2. /\ \A j \in DOMAIN pending[u] : pending[u][j].id # id
      /\ issued[u][id] = Absent /\ results[u][id] = None
      /\ \A c \in writing[u] : c.id # id
  BY DEF InUse, PendingIds, IsIssued, Answered
<1> DEFINE q == Enqueued(pending[u], id)
<1>3. /\ OneUser(q, issued[u], results[u], writing[u])
      /\ UserInv(q, issued[u], results[u], writing[u])
  BY <1>1, <1>2, EnqueueUser
<1>4. pending' = [pending EXCEPT ![u] = q] /\ UNCHANGED <<issued, results, writing>>
  BY DEF PutsIn
<1> HIDE DEF q
<1>5. /\ pending' = [pending EXCEPT ![u] = q]
      /\ issued' = [issued EXCEPT ![u] = issued[u]]
      /\ results' = [results EXCEPT ![u] = results[u]]
      /\ writing' = [writing EXCEPT ![u] = writing[u]]
  BY <1>4, SameForOne DEF QueueInv
<1> QED BY <1>3, <1>5, OneUserSteps

\* Commands leave the queue, in whatever way.
LeavesQueue(u, q) == /\ pending' = [pending EXCEPT ![u] = q]
                     /\ UNCHANGED <<issued, results, writing, deferred>>

\* Commands that leave the queue leave the invariant.
LEMMA LeavePreserves ==
  ASSUME QueueInv, NEW u \in Users, NEW q \in Seq(Command), From(q, pending[u]),
         Distinct(q), OneUpdate(q), LeavesQueue(u, q)
  PROVE  QueueInv'
<1>1. /\ OneUser(q, issued[u], results[u], writing[u])
      /\ UserInv(q, issued[u], results[u], writing[u])
  BY Types, LeaveUser DEF QueueInv
<1>2. deferred' \subseteq UpdateIds
  BY DEF QueueInv, TypeOK, LeavesQueue
<1>3. /\ pending' = [pending EXCEPT ![u] = q]
      /\ issued' = [issued EXCEPT ![u] = issued[u]]
      /\ results' = [results EXCEPT ![u] = results[u]]
      /\ writing' = [writing EXCEPT ![u] = writing[u]]
  BY SameForOne DEF QueueInv, LeavesQueue
<1> QED BY <1>1, <1>2, <1>3, OneUserSteps

\* Dropping the waiting updates keeps the invariant.
LEMMA DropPendingPreserves ==
  ASSUME QueueInv, NEW u \in Users, DropPending(u) PROVE QueueInv'
<1> DEFINE q == WithoutUpdates(pending[u])
<1>1. pending[u] \in Seq(Command) /\ Distinct(pending[u])
  BY Types DEF QueueInv, OneUser, UserInv
<1>2. /\ q \in Seq(Command) /\ From(q, pending[u]) /\ Distinct(q)
      /\ \A k \in DOMAIN q : q[k].id \notin UpdateIds
  BY <1>1, WithoutUpdatesKeeps
<1>3. LeavesQueue(u, q)
  BY DEF DropPending, LeavesQueue
<1> HIDE DEF q
<1>4. OneUpdate(q)
  BY <1>2 DEF OneUpdate
<1> QED BY <1>2, <1>3, <1>4, LeavePreserves

\* Dropping an expired command keeps the invariant.
LEMMA DropExpiredPreserves ==
  ASSUME QueueInv, NEW u \in Users, NEW i \in DOMAIN pending[u], DropExpired(u, i)
  PROVE  QueueInv'
<1> DEFINE q == RemoveAt(pending[u], i)
<1>1. pending[u] \in Seq(Command) /\ Distinct(pending[u]) /\ OneUpdate(pending[u])
  BY Types DEF QueueInv, OneUser, UserInv
<1>2. q \in Seq(Command) /\ From(q, pending[u]) /\ Distinct(q) /\ OneUpdate(q)
  BY <1>1, RemoveAtKeeps DEF From
<1>3. LeavesQueue(u, q)
  BY DEF DropExpired, LeavesQueue
<1> HIDE DEF q
<1> QED BY <1>2, <1>3, LeavePreserves

\* Handing a command out keeps the invariant.
LEMMA IssuePreserves ==
  ASSUME QueueInv, NEW u \in Users, NEW i \in DOMAIN pending[u], Issue(u, i)
  PROVE  QueueInv'
<1> DEFINE c == pending[u][i]
           q == RemoveAt(pending[u], i)
           t == [issued[u] EXCEPT ![c.id] = [left |-> c.left, age |-> 0, hold |-> None]]
           x == writing[u] \cup {c}
<1>1. OneUser(q, t, results[u], x) /\ UserInv(q, t, results[u], x)
  <2>1. /\ OneUser(pending[u], issued[u], results[u], writing[u])
        /\ UserInv(pending[u], issued[u], results[u], writing[u])
    BY Types DEF QueueInv
  <2> QED BY <2>1, IssueUser
<1>2. /\ pending' = [pending EXCEPT ![u] = q] /\ issued' = [issued EXCEPT ![u] = t]
      /\ writing' = [writing EXCEPT ![u] = x] /\ results' = results /\ deferred' = deferred
  BY DEF Issue
<1> HIDE DEF q, t, x
<1>3. deferred' \subseteq UpdateIds
  BY <1>2 DEF QueueInv, TypeOK
<1>4. /\ pending' = [pending EXCEPT ![u] = q]
      /\ issued' = [issued EXCEPT ![u] = t]
      /\ results' = [results EXCEPT ![u] = results[u]]
      /\ writing' = [writing EXCEPT ![u] = x]
  BY <1>2, SameForOne DEF QueueInv
<1> QED BY <1>1, <1>3, <1>4, OneUserSteps

\* A written response keeps the invariant.
LEMMA DeliverPreserves ==
  ASSUME QueueInv, NEW u \in Users, NEW c \in writing[u], Deliver(u, c)
  PROVE  QueueInv'
<1> DEFINE x == writing[u] \ {c}
<1>1. /\ OneUser(pending[u], issued[u], results[u], x)
      /\ UserInv(pending[u], issued[u], results[u], x)
  BY Types, WrittenUser DEF QueueInv
<1>2. /\ writing' = [writing EXCEPT ![u] = x]
      /\ UNCHANGED <<pending, issued, results, deferred>>
  BY DEF Deliver
<1> HIDE DEF x
<1>3. deferred' \subseteq UpdateIds
  BY <1>2 DEF QueueInv, TypeOK
<1>4. /\ pending' = [pending EXCEPT ![u] = pending[u]]
      /\ issued' = [issued EXCEPT ![u] = issued[u]]
      /\ results' = [results EXCEPT ![u] = results[u]]
      /\ writing' = [writing EXCEPT ![u] = x]
  BY <1>2, SameForOne DEF QueueInv
<1> QED BY <1>1, <1>3, <1>4, OneUserSteps

\* A broken poll keeps the invariant.
LEMMA ReturnUndeliveredPreserves ==
  ASSUME QueueInv, NEW u \in Users, NEW c \in writing[u], ReturnUndelivered(u, c)
  PROVE  QueueInv'
<1> DEFINE x == writing[u] \ {c}
           t == [issued[u] EXCEPT ![c.id] = Absent]
           q == IF Returns(u, c) THEN Cons(c, pending[u]) ELSE pending[u]
<1>1. /\ TypeOK
      /\ OneUser(pending[u], issued[u], results[u], writing[u])
      /\ UserInv(pending[u], issued[u], results[u], writing[u])
  BY Types DEF QueueInv
<1>2. /\ OneUser(pending[u], issued[u], results[u], x)
      /\ UserInv(pending[u], issued[u], results[u], x)
  BY <1>1, WrittenUser
<1>3. writing' = [writing EXCEPT ![u] = x] /\ results' = results /\ deferred' = deferred
  BY DEF ReturnUndelivered
<1>4. c \in Command /\ c.id \in Ids /\ c.left \in 0 .. MaxTTL
  BY <1>1, Elements
<1>5. \A d \in x : d.id # c.id
  BY <1>1 DEF UserInv, WritesOnce
<1> HIDE DEF x
<1>6. deferred' \subseteq UpdateIds
  BY <1>3 DEF QueueInv, TypeOK
<1>7. CASE Answered(u, c.id)
  <2>1. pending' = pending /\ issued' = issued
    BY <1>7 DEF ReturnUndelivered
  <2>2. /\ pending' = [pending EXCEPT ![u] = pending[u]]
        /\ issued' = [issued EXCEPT ![u] = issued[u]]
        /\ results' = [results EXCEPT ![u] = results[u]]
        /\ writing' = [writing EXCEPT ![u] = x]
    BY <1>1, <1>3, <2>1, SameForOne
  <2> QED BY <1>2, <1>6, <2>2, OneUserSteps
<1>8. CASE ~Answered(u, c.id)
  <2>1. pending' = [pending EXCEPT ![u] = q] /\ issued' = [issued EXCEPT ![u] = t]
    BY <1>8 DEF ReturnUndelivered
  <2>2. OneUser(pending[u], t, results[u], x) /\ UserInv(pending[u], t, results[u], x)
    BY <1>2, <1>4, <1>5, ForgetUser
  <2>3. t[c.id] = Absent /\ results[u][c.id] = None
    BY <1>1, <1>4, <1>8 DEF OneUser, Answered
  <2>4. c.id \in UpdateIds => c.left <= UpdateTTL
    <3> SUFFICES ASSUME c.id \in UpdateIds, c.left > 0 PROVE c.left <= UpdateTTL
      BY <1>4, QueueConstants DEF MaxTTL
    <3>1. issued[u][c.id] # Absent /\ c.left + issued[u][c.id].age <= UpdateTTL
      BY <1>1 DEF UserInv, LifeLeft
    <3>2. issued[u][c.id].age \in 0 .. SweepTTL + 1
      BY <1>1, <1>4, <3>1, Elements
    <3> QED BY <1>4, <3>1, <3>2, QueueConstants DEF MaxTTL
  <2> HIDE DEF t
  <2>5. OneUser(q, t, results[u], x) /\ UserInv(q, t, results[u], x)
    <3>1. CASE Returns(u, c)
      <4>1. \A i \in DOMAIN pending[u] :
              /\ pending[u][i].id # c.id
              /\ ~(c.id \in UpdateIds /\ pending[u][i].id \in UpdateIds)
        BY <3>1 DEF Returns
      <4>2. /\ OneUser(Cons(c, pending[u]), t, results[u], x)
            /\ UserInv(Cons(c, pending[u]), t, results[u], x)
        BY <1>4, <1>5, <2>2, <2>3, <2>4, <4>1, BackUser
      <4> QED BY <3>1, <4>2
    <3>2. CASE ~Returns(u, c)
      BY <3>2, <2>2
    <3> QED BY <3>1, <3>2
  <2> HIDE DEF q
  <2>6. /\ pending' = [pending EXCEPT ![u] = q]
        /\ issued' = [issued EXCEPT ![u] = t]
        /\ results' = [results EXCEPT ![u] = results[u]]
        /\ writing' = [writing EXCEPT ![u] = x]
    BY <1>1, <1>3, <2>1, SameForOne
  <2> QED BY <1>6, <2>5, <2>6, OneUserSteps
<1> QED BY <1>7, <1>8

\* An answer keeps the invariant.
LEMMA RecordResultPreserves ==
  ASSUME QueueInv, NEW u \in Users, NEW id \in Ids, RecordResult(u, id)
  PROVE  QueueInv'
<1> DEFINE v == [results[u] EXCEPT ![id] = 0]
<1>1. /\ results' = [results EXCEPT ![u] = v]
      /\ UNCHANGED <<pending, issued, writing, deferred>>
      /\ issued[u][id] # Absent
  BY DEF RecordResult, IsIssued
<1>2. /\ OneUser(pending[u], issued[u], v, writing[u])
      /\ UserInv(pending[u], issued[u], v, writing[u])
  BY <1>1, Types, RecordUser DEF QueueInv
<1> HIDE DEF v
<1>3. deferred' \subseteq UpdateIds
  BY <1>1 DEF QueueInv, TypeOK
<1>4. /\ pending' = [pending EXCEPT ![u] = pending[u]]
      /\ issued' = [issued EXCEPT ![u] = issued[u]]
      /\ results' = [results EXCEPT ![u] = v]
      /\ writing' = [writing EXCEPT ![u] = writing[u]]
  BY <1>1, SameForOne DEF QueueInv
<1> QED BY <1>2, <1>3, <1>4, OneUserSteps

\* The time an early release holds, as ReleaseActive computes it.
HoldFor(e, id) == LET rest == TTL(id) - e.age
                      until == IF Cooldown > rest THEN rest ELSE Cooldown
                  IN IF until > 0 THEN until ELSE 0

\* It is in range, and zero for an update that is over.
LEMMA HoldForBounds ==
  ASSUME NEW e, e.age \in 0 .. SweepTTL + 1, NEW id \in Ids
  PROVE  HoldFor(e, id) \in 0 .. MaxTTL /\ (HoldFor(e, id) > 0 => e.age < TTL(id))
BY QueueConstants DEF HoldFor, TTL, MaxTTL

\* An early release keeps the invariant.
LEMMA ReleaseActivePreserves ==
  ASSUME QueueInv, NEW u \in Users, NEW id \in Ids, ReleaseActive(u, id)
  PROVE  QueueInv'
<1> DEFINE h == HoldFor(issued[u][id], id)
           t == [issued[u] EXCEPT ![id].hold = h]
<1>1. /\ issued' = [issued EXCEPT ![u] = t]
      /\ UNCHANGED <<pending, results, writing, deferred>>
  BY DEF ReleaseActive, HoldFor
<1>2. issued[u][id] # Absent /\ results[u][id] # None
  BY DEF ReleaseActive, IsIssued, Answered
<1>3. /\ OneUser(pending[u], issued[u], results[u], writing[u])
      /\ UserInv(pending[u], issued[u], results[u], writing[u])
  BY Types DEF QueueInv
<1>4. h \in 0 .. MaxTTL
  BY <1>2, <1>3, Elements, HoldForBounds
<1> HIDE DEF h
<1>5. /\ OneUser(pending[u], t, results[u], writing[u])
      /\ UserInv(pending[u], t, results[u], writing[u])
  BY <1>2, <1>3, <1>4, ReleaseUser
<1> HIDE DEF t
<1>6. deferred' \subseteq UpdateIds
  BY <1>1 DEF QueueInv, TypeOK
<1>7. /\ pending' = [pending EXCEPT ![u] = pending[u]]
      /\ issued' = [issued EXCEPT ![u] = t]
      /\ results' = [results EXCEPT ![u] = results[u]]
      /\ writing' = [writing EXCEPT ![u] = writing[u]]
  BY <1>1, SameForOne DEF QueueInv
<1> QED BY <1>5, <1>6, <1>7, OneUserSteps

\* A step that changes what every router has.
LEMMA AllUsersStep ==
  ASSUME pending' = [u \in Users |-> pending'[u]], issued' = [u \in Users |-> issued'[u]],
         results' = [u \in Users |-> results'[u]], writing' = [u \in Users |-> writing'[u]],
         deferred' \subseteq UpdateIds,
         \A u \in Users : /\ OneUser(pending'[u], issued'[u], results'[u], writing'[u])
                          /\ UserInv(pending'[u], issued'[u], results'[u], writing'[u])
  PROVE  QueueInv'
<1>1. TypeOK'
  BY DEF TypeOK, OneUser
<1> QED BY <1>1 DEF QueueInv

\* The janitor keeps the invariant.
LEMMA SweepPreserves == ASSUME QueueInv, Sweep PROVE QueueInv'
<1>1. ASSUME NEW u \in Users
      PROVE  /\ OneUser(pending'[u], issued'[u], results'[u], writing'[u])
             /\ UserInv(pending'[u], issued'[u], results'[u], writing'[u])
  <2> DEFINE t == [id \in Ids |-> IF TooOld(issued[u][id].age) THEN Absent ELSE issued[u][id]]
             v == [id \in Ids |-> IF TooOld(results[u][id]) THEN None ELSE results[u][id]]
  <2>1. pending'[u] = pending[u] /\ issued'[u] = t /\ results'[u] = v /\ writing'[u] = writing[u]
    BY DEF Sweep
  <2>2. /\ OneUser(pending[u], issued[u], results[u], writing[u])
        /\ UserInv(pending[u], issued[u], results[u], writing[u])
    BY Types DEF QueueInv
  <2>3. OneUser(pending[u], t, v, writing[u]) /\ UserInv(pending[u], t, v, writing[u])
    BY <2>2, SweepUser
  <2> QED BY <2>1, <2>3
<1>2. /\ pending' = [u \in Users |-> pending'[u]] /\ issued' = [u \in Users |-> issued'[u]]
      /\ results' = [u \in Users |-> results'[u]] /\ writing' = [u \in Users |-> writing'[u]]
      /\ deferred' \subseteq UpdateIds
  BY DEF Sweep, QueueInv, TypeOK
<1> QED BY <1>1, <1>2, AllUsersStep

\* The passing of time keeps the invariant.
LEMMA TickPreserves == ASSUME QueueInv, Tick PROVE QueueInv'
<1>1. ASSUME NEW u \in Users
      PROVE  /\ OneUser(pending'[u], issued'[u], results'[u], writing'[u])
             /\ UserInv(pending'[u], issued'[u], results'[u], writing'[u])
  <2> DEFINE q == [i \in DOMAIN pending[u] |-> Aged(pending[u][i])]
             t == [id \in Ids |-> IF issued[u][id] # Absent THEN AgedEntry(issued[u][id])
                                  ELSE Absent]
             v == [id \in Ids |-> IF results[u][id] # None THEN Older(results[u][id]) ELSE None]
             x == {Aged(c) : c \in writing[u]}
  <2>1. pending'[u] = q /\ issued'[u] = t /\ results'[u] = v /\ writing'[u] = x
    BY DEF Tick, IsIssued, Answered
  <2>2. /\ OneUser(pending[u], issued[u], results[u], writing[u])
        /\ UserInv(pending[u], issued[u], results[u], writing[u])
    BY Types DEF QueueInv
  <2>3. OneUser(q, t, v, x) /\ UserInv(q, t, v, x)
    BY <2>2, TickUser
  <2> QED BY <2>1, <2>3
<1>2. /\ pending' = [u \in Users |-> pending'[u]] /\ issued' = [u \in Users |-> issued'[u]]
      /\ results' = [u \in Users |-> results'[u]] /\ writing' = [u \in Users |-> writing'[u]]
      /\ deferred' \subseteq UpdateIds
  BY DEF Tick, QueueInv, TypeOK
<1> QED BY <1>1, <1>2, AllUsersStep

\* A restart establishes the invariant.
LEMMA RestartPreserves == Restart => QueueInv'
<1> SUFFICES ASSUME Restart PROVE QueueInv'
  OBVIOUS
<1>1. TypeOK'
  BY DEF Restart, TypeOK
<1>2. ASSUME NEW u \in Users
      PROVE  UserInv(pending'[u], issued'[u], results'[u], writing'[u])
  <2>1. /\ pending'[u] = <<>> /\ writing'[u] = {}
        /\ \A id \in Ids : issued'[u][id] = Absent /\ results'[u][id] = None
    BY DEF Restart
  <2> QED BY <2>1 DEF UserInv, Distinct, OneUpdate, LifeInQueue, OnlyWaits, WritesOnce,
                      AnswerFollows, HeldAnswered, LifeLeft
<1> QED BY <1>1, <1>2 DEF QueueInv

\* Every step keeps the invariant.
LEMMA NextQueueInv == QueueInv /\ [Next]_vars => QueueInv'
<1> SUFFICES ASSUME QueueInv, [Next]_vars PROVE QueueInv'
  OBVIOUS
<1>def. deferred \subseteq UpdateIds
  BY DEF QueueInv, TypeOK
<1>1. ASSUME NEW u \in Users, NEW id \in Ids, Enqueue(u, id) PROVE QueueInv'
  BY <1>1, <1>def, EnqueuePreserves DEF Enqueue, PutsIn
<1>2. ASSUME NEW u \in Users, NEW id \in Ids, EnqueueIfNoActive(u, id) PROVE QueueInv'
  BY <1>2, <1>def, EnqueuePreserves DEF EnqueueIfNoActive, PutsIn
<1>3. ASSUME NEW u \in Users, Poll(u) PROVE QueueInv'
  BY <1>3, DropExpiredPreserves, IssuePreserves DEF Poll
<1>4. CASE UNCHANGED vars
  BY <1>4 DEF vars, QueueInv, TypeOK
<1> QED BY <1>1, <1>2, <1>3, <1>4, DropPendingPreserves, DeliverPreserves,
           ReturnUndeliveredPreserves, RecordResultPreserves, ReleaseActivePreserves,
           SweepPreserves, TickPreserves, RestartPreserves DEF Next

\* The invariant holds in every behaviour.
LEMMA SpecQueueInv == Spec => []QueueInv
BY InitQueueInv, NextQueueInv, PTL DEF Spec

-----------------------------------------------------------------------------

\* Every part of the queue keeps the values the code can put there, through
\* every handler, the janitor and the clock: ages and remaining lives stay in
\* range, only self_update commands are marked deferred.
THEOREM QueueTypeCorrect == Spec => []TypeOK
<1>1. QueueInv => TypeOK
  BY DEF QueueInv
<1> QED BY <1>1, SpecQueueInv, PTL

\* For any number of routers, commands and any durations, a command is in one
\* stage of its life only: Dequeue, ReturnUndelivered and RecordResult never
\* leave it queued twice, nor queued while handed out, written or answered.
THEOREM OneLife == Spec => []NoDoubleLife
<1>1. QueueInv => NoDoubleLife
  BY DEF QueueInv, UserInv, Distinct, OnlyWaits, NoDoubleLife, IsIssued, Answered
<1> QED BY <1>1, SpecQueueInv, PTL

\* enqueueLocked's superseding and ReturnUndelivered's test together never
\* leave two self_update commands waiting for one router.
THEOREM UpdatesSupersede == Spec => []OnePendingUpdate
<1>1. QueueInv => OnePendingUpdate
  BY DEF QueueInv, UserInv, OneUpdate, OnePendingUpdate
<1> QED BY <1>1, SpecQueueInv, PTL

-----------------------------------------------------------------------------
(* Active updates and updates in work: which steps may add one.            *)

ActiveIn(p, s, id) ==
  \/ \E i \in DOMAIN p : p[i].id = id /\ ~Expired(p[i])
  \/ /\ s[id] # Absent
     /\ IF s[id].hold # None THEN s[id].hold > 0 ELSE s[id].age < TTL(id)

NoNewActive(p, s, q, t) == \A id \in UpdateIds : ActiveIn(q, t, id) => ActiveIn(p, s, id)

WorksIn(s, r, id) == s[id] # Absent /\ s[id].age < Window /\ r[id] = None

NoNewWork(s, r, t, v) == \A id \in UpdateIds : WorksIn(t, v, id) => WorksIn(s, r, id)

\* A step after which nothing is active or in work that was not before it.
CalmFor(v) == /\ NoNewActive(pending[v], issued[v], pending'[v], issued'[v])
              /\ NoNewWork(issued[v], results[v], issued'[v], results'[v])

Calm == deferred' \subseteq deferred /\ \A v \in Users : CalmFor(v)

\* A step of one router is calm when it is calm for that router.
LEMMA OneUserCalm ==
  ASSUME QueueInv, NEW u \in Users, NEW p, NEW s, NEW r,
         NoNewActive(pending[u], issued[u], p, s), NoNewWork(issued[u], results[u], s, r),
         pending' = [pending EXCEPT ![u] = p], issued' = [issued EXCEPT ![u] = s],
         results' = [results EXCEPT ![u] = r], deferred' \subseteq deferred
  PROVE  Calm
<1>1. TypeOK
  BY DEF QueueInv
<1>2. ASSUME NEW v \in Users PROVE CalmFor(v)
  <2>1. CASE v = u
    <3>1. pending'[v] = p /\ issued'[v] = s /\ results'[v] = r
      BY <1>1, <2>1 DEF TypeOK
    <3> QED BY <2>1, <3>1 DEF CalmFor
  <2>2. CASE v # u
    <3>1. pending'[v] = pending[v] /\ issued'[v] = issued[v] /\ results'[v] = results[v]
      BY <1>1, <2>2 DEF TypeOK
    <3> QED BY <3>1 DEF CalmFor, NoNewActive, NoNewWork
  <2> QED BY <2>1, <2>2
<1> QED BY <1>2 DEF Calm

\* Commands that leave the queue make nothing active.
LEMMA LeaveCalm ==
  ASSUME QueueInv, NEW u \in Users, NEW q, From(q, pending[u]), LeavesQueue(u, q)
  PROVE  Calm
<1>1. NoNewActive(pending[u], issued[u], q, issued[u])
  BY DEF NoNewActive, ActiveIn, From
<1>2. NoNewWork(issued[u], results[u], issued[u], results[u])
  BY DEF NoNewWork
<1>3. /\ pending' = [pending EXCEPT ![u] = q]
      /\ issued' = [issued EXCEPT ![u] = issued[u]]
      /\ results' = [results EXCEPT ![u] = results[u]]
      /\ deferred' \subseteq deferred
  BY SameForOne DEF QueueInv, LeavesQueue
<1> QED BY <1>1, <1>2, <1>3, OneUserCalm

\* Dropping the waiting updates is calm.
LEMMA DropPendingCalm ==
  ASSUME QueueInv, NEW u \in Users, DropPending(u) PROVE Calm
<1>1. From(WithoutUpdates(pending[u]), pending[u])
  BY Types, WithoutUpdatesKeeps DEF QueueInv, OneUser
<1>2. LeavesQueue(u, WithoutUpdates(pending[u]))
  BY DEF DropPending, LeavesQueue
<1> QED BY <1>1, <1>2, LeaveCalm

\* Dropping an expired command is calm.
LEMMA DropExpiredCalm ==
  ASSUME QueueInv, NEW u \in Users, NEW i \in DOMAIN pending[u], DropExpired(u, i)
  PROVE  Calm
<1>1. From(RemoveAt(pending[u], i), pending[u])
  BY Types, RemoveAtKeeps DEF QueueInv, OneUser, From
<1>2. LeavesQueue(u, RemoveAt(pending[u], i))
  BY DEF DropExpired, LeavesQueue
<1> QED BY <1>1, <1>2, LeaveCalm

\* A written response is calm.
LEMMA DeliverCalm ==
  ASSUME QueueInv, NEW u \in Users, NEW c \in writing[u], Deliver(u, c) PROVE Calm
BY DEF Deliver, Calm, CalmFor, NoNewActive, NoNewWork

\* An answer is calm.
LEMMA RecordResultCalm ==
  ASSUME QueueInv, NEW u \in Users, NEW id \in Ids, RecordResult(u, id) PROVE Calm
<1> DEFINE v == [results[u] EXCEPT ![id] = 0]
<1>1. OneUser(pending[u], issued[u], results[u], writing[u])
  BY Types DEF QueueInv
<1>2. v[id] = 0 /\ \A j \in Ids : j # id => v[j] = results[u][j]
  BY <1>1 DEF OneUser
<1>3. results' = [results EXCEPT ![u] = v] /\ UNCHANGED <<pending, issued, deferred>>
  BY DEF RecordResult
<1> HIDE DEF v
<1>4. NoNewWork(issued[u], results[u], issued[u], v)
  BY <1>2 DEF NoNewWork, WorksIn, Ids, None
<1>5. NoNewActive(pending[u], issued[u], pending[u], issued[u])
  BY DEF NoNewActive
<1>6. /\ pending' = [pending EXCEPT ![u] = pending[u]]
      /\ issued' = [issued EXCEPT ![u] = issued[u]]
      /\ results' = [results EXCEPT ![u] = v]
      /\ deferred' \subseteq deferred
  BY <1>3, SameForOne DEF QueueInv
<1> QED BY <1>4, <1>5, <1>6, OneUserCalm

\* An early release holds no longer than the life it cuts short.
LEMMA ReleaseActiveCalm ==
  ASSUME QueueInv, NEW u \in Users, NEW id \in Ids, ReleaseActive(u, id) PROVE Calm
<1> DEFINE h == HoldFor(issued[u][id], id)
           t == [issued[u] EXCEPT ![id].hold = h]
<1>1. /\ OneUser(pending[u], issued[u], results[u], writing[u])
      /\ issued[u][id] # Absent /\ results[u][id] # None /\ issued[u][id].hold = None
  BY Types DEF QueueInv, ReleaseActive, IsIssued, Answered
<1>2. h \in 0 .. MaxTTL /\ (h > 0 => issued[u][id].age < TTL(id))
  BY <1>1, Elements, HoldForBounds
<1>3. issued' = [issued EXCEPT ![u] = t] /\ UNCHANGED <<pending, results, deferred>>
  BY DEF ReleaseActive, HoldFor
<1> HIDE DEF h
<1>4. /\ t[id].hold = h /\ t[id].age = issued[u][id].age
      /\ \A j \in Ids : j # id => t[j] = issued[u][j]
  <2>1. issued[u][id] \in Entry
    BY <1>1, Elements
  <2> QED BY <1>1, <2>1 DEF OneUser, Entry
<1> HIDE DEF t
<1>5. NoNewActive(pending[u], issued[u], pending[u], t)
  <2> SUFFICES ASSUME NEW j \in UpdateIds, ActiveIn(pending[u], t, j)
               PROVE  ActiveIn(pending[u], issued[u], j)
    BY DEF NoNewActive
  <2>1. CASE j # id
    BY <1>4, <2>1 DEF ActiveIn, Ids
  <2>2. CASE j = id
    <3>1. h # None
      BY <1>2 DEF None
    <3> QED BY <1>1, <1>2, <1>4, <2>2, <3>1 DEF ActiveIn
  <2> QED BY <2>1, <2>2
<1>6. NoNewWork(issued[u], results[u], t, results[u])
  BY <1>1, <1>4 DEF NoNewWork, WorksIn, Ids
<1>7. /\ pending' = [pending EXCEPT ![u] = pending[u]]
      /\ issued' = [issued EXCEPT ![u] = t]
      /\ results' = [results EXCEPT ![u] = results[u]]
      /\ deferred' \subseteq deferred
  BY <1>3, SameForOne DEF QueueInv
<1> QED BY <1>5, <1>6, <1>7, OneUserCalm

\* What comes back from a broken poll was active as issued.
LEMMA ReturnUndeliveredCalm ==
  ASSUME QueueInv, NEW u \in Users, NEW c \in writing[u], ReturnUndelivered(u, c)
  PROVE  Calm
<1> DEFINE t == [issued[u] EXCEPT ![c.id] = Absent]
           q == IF Returns(u, c) THEN Cons(c, pending[u]) ELSE pending[u]
<1>1. CASE Answered(u, c.id)
  BY <1>1 DEF ReturnUndelivered, Calm, CalmFor, NoNewActive, NoNewWork
<1>2. CASE ~Answered(u, c.id)
  <2>1. /\ OneUser(pending[u], issued[u], results[u], writing[u])
        /\ UserInv(pending[u], issued[u], results[u], writing[u])
    BY Types DEF QueueInv
  <2>2. c \in Command /\ c.id \in Ids /\ c.left \in 0 .. MaxTTL
    BY <2>1, Elements
  <2>3. t[c.id] = Absent /\ \A j \in Ids : j # c.id => t[j] = issued[u][j]
    BY <2>1, <2>2 DEF OneUser
  <2>4. /\ pending' = [pending EXCEPT ![u] = q] /\ issued' = [issued EXCEPT ![u] = t]
        /\ results' = results /\ deferred' = deferred
    BY <1>2 DEF ReturnUndelivered
  <2>5. \A k \in DOMAIN q : q[k] = c \/ \E j \in DOMAIN pending[u] : q[k] = pending[u][j]
    <3>1. CASE Returns(u, c)
      BY <2>1, <2>2, <3>1, ConsKeeps DEF OneUser
    <3>2. CASE ~Returns(u, c)
      BY <3>2
    <3> QED BY <3>1, <3>2
  <2> HIDE DEF q, t
  <2>6. ASSUME c.id \in UpdateIds, ~Expired(c)
        PROVE  ActiveIn(pending[u], issued[u], c.id)
    <3>1. c.left > 0
      BY <2>2, <2>6 DEF Expired
    <3>2. issued[u][c.id] # Absent /\ c.left + issued[u][c.id].age <= UpdateTTL
      BY <2>1, <2>6, <3>1 DEF UserInv, LifeLeft
    <3>3. issued[u][c.id].hold = None
      BY <1>2, <2>1, <2>2, <3>2 DEF UserInv, HeldAnswered, Answered
    <3>4. issued[u][c.id].age \in 0 .. SweepTTL + 1 /\ MaxTTL \in Nat
      BY <2>1, <2>2, <3>2, Elements, QueueConstants DEF MaxTTL
    <3>5. issued[u][c.id].age < TTL(c.id)
      BY <2>2, <2>6, <3>1, <3>2, <3>4, QueueConstants DEF TTL
    <3> QED BY <3>2, <3>3, <3>5 DEF ActiveIn
  <2>7. NoNewActive(pending[u], issued[u], q, t)
    <3> SUFFICES ASSUME NEW j \in UpdateIds, ActiveIn(q, t, j)
                 PROVE  ActiveIn(pending[u], issued[u], j)
      BY DEF NoNewActive
    <3>1. CASE \E k \in DOMAIN q : q[k].id = j /\ ~Expired(q[k])
      BY <2>5, <2>6, <3>1 DEF ActiveIn
    <3>2. CASE t[j] # Absent /\ IF t[j].hold # None THEN t[j].hold > 0 ELSE t[j].age < TTL(j)
      BY <2>3, <3>2 DEF ActiveIn, Ids
    <3> QED BY <3>1, <3>2 DEF ActiveIn
  <2>8. NoNewWork(issued[u], results[u], t, results[u])
    BY <2>3 DEF NoNewWork, WorksIn, Ids
  <2>9. /\ pending' = [pending EXCEPT ![u] = q]
        /\ issued' = [issued EXCEPT ![u] = t]
        /\ results' = [results EXCEPT ![u] = results[u]]
        /\ deferred' \subseteq deferred
    BY <2>4, SameForOne DEF QueueInv
  <2> QED BY <2>7, <2>8, <2>9, OneUserCalm
<1> QED BY <1>1, <1>2

\* The janitor does not forget the answer to an update in the window.
LEMMA SweepCalm == ASSUME QueueInv, Sweep PROVE Calm
<1>1. ASSUME NEW u \in Users PROVE CalmFor(u)
  <2>1. /\ OneUser(pending[u], issued[u], results[u], writing[u])
        /\ UserInv(pending[u], issued[u], results[u], writing[u])
    BY Types DEF QueueInv
  <2>2. pending'[u] = pending[u]
    BY DEF Sweep
  <2>3. \A id \in Ids : /\ issued'[u][id] = Absent \/ issued'[u][id] = issued[u][id]
                        /\ ~TooOld(results[u][id]) => results'[u][id] = results[u][id]
    BY DEF Sweep
  <2>4. NoNewActive(pending[u], issued[u], pending'[u], issued'[u])
    BY <2>2, <2>3 DEF NoNewActive, ActiveIn, Ids
  <2>5. NoNewWork(issued[u], results[u], issued'[u], results'[u])
    <3> SUFFICES ASSUME NEW id \in UpdateIds, WorksIn(issued'[u], results'[u], id),
                        results[u][id] # None
                 PROVE  FALSE
      BY <2>3 DEF NoNewWork, WorksIn, Ids
    <3>1. /\ id \in Ids /\ issued[u][id] # Absent
          /\ issued[u][id].age < Window /\ results'[u][id] = None
      BY <2>3 DEF WorksIn, Ids
    <3>2. results[u][id] <= issued[u][id].age
      BY <2>1, <3>1 DEF UserInv, AnswerFollows
    <3>3. results[u][id] \in 0 .. SweepTTL + 1 /\ issued[u][id].age \in 0 .. SweepTTL + 1
      BY <2>1, <3>1, Elements
    <3>4. ~TooOld(results[u][id])
      BY <3>1, <3>2, <3>3, QueueConstants DEF TooOld
    <3> QED BY <2>3, <3>1, <3>4
  <2> QED BY <2>4, <2>5 DEF CalmFor
<1> QED BY <1>1 DEF Sweep, Calm

\* Time only ends things.
LEMMA TickCalm == ASSUME QueueInv, Tick PROVE Calm
<1>1. ASSUME NEW u \in Users PROVE CalmFor(u)
  <2>1. OneUser(pending[u], issued[u], results[u], writing[u])
    BY Types DEF QueueInv
  <2>2. /\ SweepTTL \in Nat /\ MaxTTL \in Nat
        /\ \A id \in Ids : TTL(id) \in Nat /\ TTL(id) <= SweepTTL + TTL(id)
    BY QueueConstants DEF MaxTTL, TTL
  <2>3. /\ DOMAIN pending'[u] = DOMAIN pending[u]
        /\ \A i \in DOMAIN pending[u] : /\ pending'[u][i].id = pending[u][i].id
                                        /\ pending'[u][i].left = Less(pending[u][i].left)
    <3>1. pending'[u] = [i \in DOMAIN pending[u] |-> Aged(pending[u][i])]
      BY DEF Tick
    <3> QED BY <2>1, <3>1, AgedKeeps DEF OneUser
  <2>4. \A i \in DOMAIN pending[u] : Expired(pending[u][i]) => Expired(pending'[u][i])
    BY <2>3 DEF Expired, Less
  <2>5. ASSUME NEW id \in Ids, issued'[u][id] # Absent
        PROVE  /\ issued[u][id] # Absent
               /\ issued'[u][id].age = Older(issued[u][id].age)
               /\ issued'[u][id].hold = Less(issued[u][id].hold)
               /\ issued'[u][id].hold = None <=> issued[u][id].hold = None
    <3>1. issued'[u][id] = IF issued[u][id] # Absent THEN AgedEntry(issued[u][id]) ELSE Absent
      BY DEF Tick, IsIssued
    <3> QED BY <2>1, <2>5, <3>1, Elements, AgedEntryKeeps
  <2>6. \A id \in Ids : issued[u][id] # Absent =>
          /\ issued[u][id].age \in 0 .. SweepTTL + 1
          /\ issued[u][id].hold \in (0 .. MaxTTL) \cup {None}
    BY <2>1, Elements
  <2>7. \A n \in 0 .. SweepTTL + 1 : Older(n) \in Nat /\ Older(n) >= n
    BY <2>2 DEF Older
  <2>8. \A n \in (0 .. MaxTTL) \cup {None} : Less(n) > 0 => n > 0
    BY <2>2 DEF Less, None
  <2>9. NoNewActive(pending[u], issued[u], pending'[u], issued'[u])
    <3> SUFFICES ASSUME NEW id \in UpdateIds, ActiveIn(pending'[u], issued'[u], id)
                 PROVE  ActiveIn(pending[u], issued[u], id)
      BY DEF NoNewActive
    <3>1. CASE \E i \in DOMAIN pending'[u] : pending'[u][i].id = id /\ ~Expired(pending'[u][i])
      BY <2>3, <2>4, <3>1 DEF ActiveIn
    <3>2. CASE /\ issued'[u][id] # Absent
               /\ IF issued'[u][id].hold # None THEN issued'[u][id].hold > 0
                  ELSE issued'[u][id].age < TTL(id)
      <4>1. id \in Ids
        BY DEF Ids
      <4>2. IF issued[u][id].hold # None THEN issued[u][id].hold > 0
            ELSE issued[u][id].age < TTL(id)
        BY <2>2, <2>5, <2>6, <2>7, <2>8, <3>2, <4>1
      <4> QED BY <2>5, <3>2, <4>1, <4>2 DEF ActiveIn
    <3> QED BY <3>1, <3>2 DEF ActiveIn
  <2>10. NoNewWork(issued[u], results[u], issued'[u], results'[u])
    <3> SUFFICES ASSUME NEW id \in UpdateIds, WorksIn(issued'[u], results'[u], id)
                 PROVE  WorksIn(issued[u], results[u], id)
      BY DEF NoNewWork
    <3>1. id \in Ids
      BY DEF Ids
    <3>2. issued[u][id] # Absent /\ Older(issued[u][id].age) < Window
      BY <2>5, <3>1 DEF WorksIn
    <3>3. issued[u][id].age < Window
      BY <2>6, <2>7, <3>1, <3>2, QueueConstants
    <3>4. results[u][id] = None
      <4>1. results'[u][id] = IF results[u][id] # None THEN Older(results[u][id]) ELSE None
        BY <3>1 DEF Tick, Answered
      <4>2. results[u][id] # None => Older(results[u][id]) \in Nat
        BY <2>1, <2>7, <3>1, Elements
      <4> QED BY <4>1, <4>2 DEF WorksIn, None
    <3> QED BY <3>2, <3>3, <3>4 DEF WorksIn
  <2> QED BY <2>9, <2>10 DEF CalmFor
<1> QED BY <1>1 DEF Tick, Calm

\* After a restart nothing is active.
LEMMA RestartCalm == ASSUME Restart PROVE Calm
<1>1. ASSUME NEW u \in Users PROVE CalmFor(u)
  <2>1. pending'[u] = <<>> /\ \A id \in Ids : issued'[u][id] = Absent
    BY DEF Restart
  <2>2. \A id \in UpdateIds : id \in Ids
    BY DEF Ids
  <2>3. \A id \in UpdateIds : ~ActiveIn(pending'[u], issued'[u], id)
    BY <2>1, <2>2 DEF ActiveIn
  <2>4. \A id \in UpdateIds : ~WorksIn(issued'[u], results'[u], id)
    BY <2>1, <2>2 DEF WorksIn
  <2> QED BY <2>3, <2>4 DEF CalmFor, NoNewActive, NoNewWork
<1> QED BY <1>1 DEF Restart, Calm

-----------------------------------------------------------------------------
(* The dispatch limit.                                                     *)

\* Cardinality says something of finite sets only.
CapInv == IsFiniteSet(InWork) /\ Cardinality(InWork) <= MaxInFlight

InWorkOf(s, r) == {p \in Users \X UpdateIds : WorksIn(s[p[1]], r[p[1]], p[2])}

\* The updates in work, before and after a step.
LEMMA InWorkIs == /\ InWork = InWorkOf(issued, results)
                  /\ InWork' = InWorkOf(issued', results')
BY DEF InWork, InWorkOf, WorksIn, IsIssued, Answered

\* Nothing that was not in work is.
QuietFor(v) == NoNewWork(issued[v], results[v], issued'[v], results'[v])

\* A step that puts nothing in work keeps the limit.
LEMMA QuietKeepsCap ==
  ASSUME CapInv, \A v \in Users : QuietFor(v) PROVE CapInv'
<1>1. InWorkOf(issued', results') \subseteq InWorkOf(issued, results)
  BY DEF QuietFor, NoNewWork, InWorkOf
<1>2. InWork' \in SUBSET InWork
  BY <1>1, InWorkIs
<1> DEFINE A == InWork
           B == InWork'
<1>3. IsFiniteSet(A) /\ Cardinality(A) <= MaxInFlight /\ B \in SUBSET A
  BY <1>2 DEF CapInv
<1> HIDE DEF A, B
<1>4. /\ IsFiniteSet(B) /\ Cardinality(B) <= Cardinality(A)
      /\ Cardinality(A) \in Nat /\ Cardinality(B) \in Nat
  BY <1>3, FS_Subset, FS_CardinalityType
<1>5. IsFiniteSet(B) /\ Cardinality(B) <= MaxInFlight
  BY <1>3, <1>4, QueueConstants
<1> QED BY <1>5 DEF CapInv, B

\* So does a calm one.
LEMMA CalmKeepsCap == ASSUME CapInv, Calm PROVE CapInv'
BY QuietKeepsCap DEF Calm, CalmFor, QuietFor

\* The one step that puts an update in work tests the limit.
LEMMA IssueKeepsCap ==
  ASSUME QueueInv, CapInv, NEW u \in Users, NEW i \in DOMAIN pending[u], Issue(u, i)
  PROVE  CapInv'
<1> DEFINE c == pending[u][i]
           A == InWork
           B == InWork'
<1>1. OneUser(pending[u], issued[u], results[u], writing[u])
  BY Types DEF QueueInv
<1>2. c.id \in Ids
  BY <1>1, Elements
<1>3. /\ results' = results
      /\ issued' = [issued EXCEPT ![u][c.id] = [left |-> c.left, age |-> 0, hold |-> None]]
  BY DEF Issue
<1>4. ~DispatchBlocked(c.id)
  BY DEF Issue, NextDispatchable, Dispatchable
<1> HIDE DEF c
<1>5. \A v \in Users : \A id \in Ids : ~(v = u /\ id = c.id) => issued'[v][id] = issued[v][id]
  BY <1>1, <1>2, <1>3 DEF QueueInv, TypeOK
<1>6. CASE c.id \notin UpdateIds
  <2>1. \A v \in Users : QuietFor(v)
    BY <1>3, <1>5, <1>6 DEF QuietFor, NoNewWork, WorksIn, Ids
  <2> QED BY <2>1, QuietKeepsCap
<1>7. CASE c.id \in UpdateIds
  <2>1. B \in SUBSET (A \cup {<<u, c.id>>})
    <3>1. InWorkOf(issued', results') \subseteq InWorkOf(issued, results) \cup {<<u, c.id>>}
      BY <1>3, <1>5, <1>7 DEF InWorkOf, WorksIn, Ids
    <3> QED BY <3>1, InWorkIs
  <2>2. IsFiniteSet(A) /\ ~(Cardinality(A) >= MaxInFlight)
    BY <1>4, <1>7 DEF DispatchBlocked, CapInv
  <2> HIDE DEF A, B
  <2>3. /\ IsFiniteSet(A \cup {<<u, c.id>>}) /\ Cardinality(A) \in Nat
        /\ Cardinality(A \cup {<<u, c.id>>}) <= Cardinality(A) + 1
    <3> DEFINE x == <<u, c.id>>
    <3> HIDE DEF x
    <3>1. /\ IsFiniteSet(A \cup {x})
          /\ Cardinality(A \cup {x}) = IF x \in A THEN Cardinality(A) ELSE Cardinality(A) + 1
      BY <2>2, FS_AddElement
    <3>2. Cardinality(A) \in Nat
      BY <2>2, FS_CardinalityType
    <3>3. Cardinality(A \cup {x}) <= Cardinality(A) + 1
      BY <3>1, <3>2
    <3> QED BY <3>1, <3>2, <3>3 DEF x
  <2>4. IsFiniteSet(B) /\ Cardinality(B) <= Cardinality(A \cup {<<u, c.id>>})
    BY <2>1, <2>3, FS_Subset
  <2>5. Cardinality(B) \in Nat /\ Cardinality(A \cup {<<u, c.id>>}) \in Nat
    BY <2>3, <2>4, FS_CardinalityType
  <2>6. IsFiniteSet(B) /\ Cardinality(B) <= MaxInFlight
    BY <2>2, <2>3, <2>4, <2>5, QueueConstants
  <2> QED BY <2>6 DEF CapInv, B
<1> QED BY <1>6, <1>7

\* Every step keeps the limit.
LEMMA NextCapInv == QueueInv /\ CapInv /\ [Next]_vars => CapInv'
<1> SUFFICES ASSUME QueueInv, CapInv, [Next]_vars PROVE CapInv'
  OBVIOUS
<1>1. ASSUME NEW u \in Users, NEW id \in Ids, Enqueue(u, id) \/ EnqueueIfNoActive(u, id)
      PROVE CapInv'
  <2>1. issued' = issued /\ results' = results
    BY <1>1 DEF Enqueue, EnqueueIfNoActive
  <2> QED BY <2>1, QuietKeepsCap DEF QuietFor, NoNewWork
<1>2. ASSUME NEW u \in Users, Poll(u) PROVE CapInv'
  BY <1>2, IssueKeepsCap, DropExpiredCalm, CalmKeepsCap DEF Poll
<1>3. CASE UNCHANGED vars
  <2>1. issued' = issued /\ results' = results
    BY <1>3 DEF vars
  <2> QED BY <2>1, QuietKeepsCap DEF QuietFor, NoNewWork
<1> QED BY <1>1, <1>2, <1>3, CalmKeepsCap, DropPendingCalm, DeliverCalm, ReturnUndeliveredCalm,
           RecordResultCalm, ReleaseActiveCalm, SweepCalm, TickCalm, RestartCalm DEF Next

\* For every number of routers and every limit, no more routers than the
\* limit have an unanswered self_update inside the dispatch window: Dequeue's
\* test is the only one needed, whatever the janitor and broken polls forget.
THEOREM DispatchLimited == Spec => []DispatchCap
<1>1. Init => CapInv
  <2> SUFFICES ASSUME Init PROVE CapInv
    OBVIOUS
  <2>1. InWork = {}
    BY DEF Init, InWork, IsIssued, Ids
  <2> QED BY <2>1, FS_EmptySet, QueueConstants DEF CapInv
<1>2. CapInv => DispatchCap
  BY DEF CapInv, DispatchCap
<1> QED BY <1>1, <1>2, NextCapInv, SpecQueueInv, PTL DEF Spec

-----------------------------------------------------------------------------
(* Deferred updates never stack.                                           *)

OneDeferred(p, s, d) ==
  \A id1, id2 \in UpdateIds :
    /\ ActiveIn(p, s, id1) /\ id1 \in d
    /\ ActiveIn(p, s, id2) /\ id2 \in d
    => id1 = id2

\* The property, router by router, before and after a step.
LEMMA DeferredIs ==
  /\ DeferredNeverStack <=> \A u \in Users : OneDeferred(pending[u], issued[u], deferred)
  /\ DeferredNeverStack' <=> \A u \in Users : OneDeferred(pending'[u], issued'[u], deferred')
BY DEF DeferredNeverStack, OneDeferred, ActiveUpdates, PendingActive, IssueActive, ActiveIn, IsIssued

\* A calm step makes no second deferred update active.
LEMMA CalmKeepsOneDeferred == ASSUME DeferredNeverStack, Calm PROVE DeferredNeverStack'
<1>1. ASSUME NEW u \in Users PROVE OneDeferred(pending'[u], issued'[u], deferred')
  <2>1. OneDeferred(pending[u], issued[u], deferred)
    BY DeferredIs
  <2>2. /\ NoNewActive(pending[u], issued[u], pending'[u], issued'[u])
        /\ deferred' \subseteq deferred
    BY DEF Calm, CalmFor
  <2> QED BY <2>1, <2>2 DEF OneDeferred, NoNewActive
<1> QED BY <1>1, DeferredIs

\* A command that is handed out was active in the queue.
LEMMA IssueKeepsOneDeferred ==
  ASSUME QueueInv, DeferredNeverStack, NEW u \in Users, NEW i \in DOMAIN pending[u], Issue(u, i)
  PROVE  DeferredNeverStack'
<1> DEFINE c == pending[u][i]
           q == RemoveAt(pending[u], i)
           e == [left |-> c.left, age |-> 0, hold |-> None]
<1>1. OneUser(pending[u], issued[u], results[u], writing[u])
  BY Types DEF QueueInv
<1>2. c.id \in Ids /\ ActiveIn(pending[u], issued[u], c.id)
  BY <1>1, Elements DEF Issue, ActiveIn
<1>3. /\ pending' = [pending EXCEPT ![u] = q] /\ deferred' = deferred
      /\ issued' = [issued EXCEPT ![u][c.id] = e]
  BY DEF Issue
<1>4. \A k \in DOMAIN q : \E j \in DOMAIN pending[u] : q[k] = pending[u][j]
  BY <1>1, RemoveAtKeeps DEF OneUser
<1> HIDE DEF c, q, e
<1>5. /\ pending'[u] = q
      /\ \A id \in Ids : id # c.id => issued'[u][id] = issued[u][id]
      /\ \A v \in Users : v # u => pending'[v] = pending[v] /\ issued'[v] = issued[v]
  BY <1>1, <1>2, <1>3 DEF QueueInv, TypeOK
<1>6. ASSUME NEW v \in Users PROVE OneDeferred(pending'[v], issued'[v], deferred')
  <2>1. OneDeferred(pending[v], issued[v], deferred)
    BY DeferredIs
  <2>2. CASE v # u
    BY <1>3, <1>5, <2>1, <2>2
  <2>3. CASE v = u
    <3>1. NoNewActive(pending[u], issued[u], pending'[u], issued'[u])
      <4> SUFFICES ASSUME NEW id \in UpdateIds, ActiveIn(pending'[u], issued'[u], id), id # c.id
                   PROVE  ActiveIn(pending[u], issued[u], id)
        BY <1>2 DEF NoNewActive
      <4>1. issued'[u][id] = issued[u][id]
        BY <1>5 DEF Ids
      <4> QED BY <1>4, <1>5, <4>1 DEF ActiveIn
    <3> QED BY <1>3, <2>1, <2>3, <3>1 DEF OneDeferred, NoNewActive
  <2> QED BY <2>2, <2>3
<1> QED BY <1>6, DeferredIs

\* A new command: nothing else becomes active, and if it is a deferred one,
\* nothing else was active.
LEMMA EnqueueKeepsOneDeferred ==
  ASSUME QueueInv, DeferredNeverStack, NEW u \in Users, NEW id \in Ids, ~InUse(id),
         PutsIn(u, id),
         \/ deferred' = deferred \ {id}
         \/ ~HasActiveUpdate(u) /\ deferred' = deferred \cup {id}
  PROVE  DeferredNeverStack'
<1> DEFINE q == Enqueued(pending[u], id)
<1>1. OneUser(pending[u], issued[u], results[u], writing[u])
  BY Types DEF QueueInv
<1>2. \A k \in DOMAIN q : q[k].id = id \/ \E j \in DOMAIN pending[u] : q[k] = pending[u][j]
  <2>1. \A j \in DOMAIN pending[u] : pending[u][j].id # id
    BY DEF InUse, PendingIds
  <2> QED BY <1>1, <2>1, EnqueuedKeeps DEF OneUser
<1>3. pending' = [pending EXCEPT ![u] = q] /\ issued' = issued
  BY DEF PutsIn
<1> HIDE DEF q
<1>4. pending'[u] = q /\ \A v \in Users : v # u => pending'[v] = pending[v]
  BY <1>3 DEF QueueInv, TypeOK
<1>unused. \A v \in Users : ~ActiveIn(pending[v], issued[v], id)
  BY DEF InUse, PendingIds, IsIssued, ActiveIn
<1>5. ASSUME NEW v \in Users PROVE OneDeferred(pending'[v], issued'[v], deferred')
  <2>1. OneDeferred(pending[v], issued[v], deferred)
    BY DeferredIs
  <2>2. CASE v # u
    <3>1. pending'[v] = pending[v] /\ issued'[v] = issued[v]
      BY <1>3, <1>4, <2>2
    <3>2. ~ActiveIn(pending[v], issued[v], id)
      BY <1>unused
    <3> QED BY <2>1, <3>1, <3>2 DEF OneDeferred
  <2>3. CASE v = u
    <3>1. \A j \in UpdateIds : j # id /\ ActiveIn(pending'[u], issued'[u], j)
                                 => ActiveIn(pending[u], issued[u], j)
      BY <1>2, <1>3, <1>4 DEF ActiveIn
    <3>2. CASE deferred' = deferred \ {id}
      BY <2>1, <2>3, <3>1, <3>2 DEF OneDeferred
    <3>3. CASE ~HasActiveUpdate(u)
      <4>1. \A j \in UpdateIds : ~ActiveIn(pending[u], issued[u], j)
        BY <3>3 DEF HasActiveUpdate, PendingActive, IssueActive, ActiveIn, IsIssued
      <4>2. \A j \in UpdateIds : ActiveIn(pending'[u], issued'[u], j) => j = id
        BY <3>1, <4>1
      <4> QED BY <2>3, <4>2 DEF OneDeferred
    <3> QED BY <3>2, <3>3
  <2> QED BY <2>2, <2>3
<1> QED BY <1>5, DeferredIs

\* Every step keeps deferred updates from stacking.
LEMMA NextDeferred == QueueInv /\ DeferredNeverStack /\ [Next]_vars => DeferredNeverStack'
<1> SUFFICES ASSUME QueueInv, DeferredNeverStack, [Next]_vars PROVE DeferredNeverStack'
  OBVIOUS
<1>1. ASSUME NEW u \in Users, NEW id \in Ids, Enqueue(u, id) PROVE DeferredNeverStack'
  BY <1>1, EnqueueKeepsOneDeferred DEF Enqueue, PutsIn
<1>2. ASSUME NEW u \in Users, NEW id \in Ids, EnqueueIfNoActive(u, id)
      PROVE  DeferredNeverStack'
  BY <1>2, EnqueueKeepsOneDeferred DEF EnqueueIfNoActive, PutsIn
<1>3. ASSUME NEW u \in Users, Poll(u) PROVE DeferredNeverStack'
  BY <1>3, IssueKeepsOneDeferred, DropExpiredCalm, CalmKeepsOneDeferred DEF Poll
<1>4. CASE UNCHANGED vars
  BY <1>4, DeferredIs DEF vars
<1> QED BY <1>1, <1>2, <1>3, <1>4, CalmKeepsOneDeferred, DropPendingCalm, DeliverCalm,
           ReturnUndeliveredCalm, RecordResultCalm, ReleaseActiveCalm, SweepCalm, TickCalm,
           RestartCalm DEF Next

\* EnqueueIfNoActive's check and insert under one lock are enough: of the
\* updates it queued for a router at most one is ever active, through issues,
\* returns of undelivered commands, early releases, sweeps and restarts.
THEOREM DeferredOnce == Spec => []DeferredNeverStack
<1>1. Init => DeferredNeverStack
  BY DEF Init, DeferredNeverStack
<1> QED BY <1>1, NextDeferred, SpecQueueInv, PTL DEF Spec
=============================================================================
