-------------------------- MODULE TrafficMoveProofs --------------------------
(***************************************************************************)
(* Proofs about TrafficMove: the types, that an order people made is left  *)
(* alone, and that the database knows the way home.                        *)
(*                                                                         *)
(* Base says what state the moves and the returns can be in and that the   *)
(* lock has one holder.  Untouched says why no return disturbs an order of *)
(* the people: no record explains it.  Way is the invariant behind WayHome: *)
(* between commands the chain is led to by a trail of records none of      *)
(* which is the record of its first link, and a command that is under way  *)
(* starts, or ends, at the end of such a trail.                            *)
(***************************************************************************)
EXTENDS TrafficMove, FiniteSetTheorems, SequenceTheorems, WellFoundedInduction, TLAPS

-----------------------------------------------------------------------------
(* Naturals.                                                               *)

\* A set of naturals that is not empty has a least one.
LEMMA LeastNatural ==
  ASSUME NEW T, T \subseteq Nat, T # {}
  PROVE  \E x \in T : \A y \in T : x <= y
<1> DEFINE R == {ss \in Nat \X Nat : ss[1] < ss[2]}
<1>1. IsWellFoundedOn(R, Nat)
  BY NatLessThanWellFounded DEF OpToRel
<1> HIDE DEF R
<1>2. PICK x \in T : \A y \in T : ~ (<<y, x>> \in R)
  BY <1>1, WFMin
<1>3. ASSUME NEW y \in T PROVE x <= y
  <2>1. x \in Nat /\ y \in Nat /\ ~ (<<y, x>> \in R)
    BY <1>2
  <2>2. ~(y < x)
    BY <2>1 DEF R
  <2> QED BY <2>1, <2>2
<1> QED BY <1>3

\* A set of naturals with 0 and with every successor has them all.
LEMMA NaturalsOneByOne ==
  ASSUME NEW S, 0 \in S, \A n \in Nat : n \in S => n + 1 \in S
  PROVE  Nat \subseteq S
<1> DEFINE T == Nat \ S
<1> SUFFICES ASSUME T # {} PROVE FALSE
  OBVIOUS
<1>1. T \subseteq Nat
  OBVIOUS
<1> HIDE DEF T
<1>2. PICK x \in T : \A y \in T : x <= y
  BY <1>1, LeastNatural
<1> USE DEF T
<1>3. x # 0 /\ x - 1 \in Nat /\ x - 1 \notin S
  BY <1>2
<1>4. x - 1 \in T /\ ~(x <= x - 1)
  BY <1>3
<1> HIDE DEF T
<1> QED BY <1>2, <1>4

-----------------------------------------------------------------------------
(* Chains: they have the links of Home in different orders.  Links are     *)
(* the tunnels among them; the others, past the VPN, are all Past.          *)

N == Len(Home)
Ids == Range(Home)
Links == Ids \ {Past}

LEMMA UpTo ==
  ASSUME NEW n \in Nat
  PROVE  IsFiniteSet(1 .. n) /\ Cardinality(1 .. n) = n
<1>1. IsFiniteSet(1 .. n) /\ Cardinality(1 .. n) = IF 1 > n THEN 0 ELSE n - 1 + 1
  BY FS_Interval
<1> QED BY <1>1

LEMMA HomeFacts ==
  /\ N \in Nat /\ DOMAIN Home = 1 .. N /\ Home \in [1 .. N -> Ids]
  /\ \A i, j \in 1 .. N : Home[i] = Home[j] /\ Home[i] # Past => i = j
  /\ Links \subseteq Tunnels /\ Past \notin Tunnels
  /\ IsFiniteSet(Links) /\ Cardinality(Links) \in Nat /\ Cardinality(Links) <= N
<1>1. /\ N \in Nat /\ DOMAIN Home = 1 .. N /\ Home \in [1 .. N -> Tunnels \cup {Past}]
      /\ \A i, j \in 1 .. N : Home[i] = Home[j] /\ Home[i] # Past => i = j
      /\ Past \notin Tunnels
  <2>1. Home \in Seq(Tunnels \cup {Past})
    BY MoveConstants
  <2>2. Len(Home) \in Nat /\ Home \in [1 .. Len(Home) -> Tunnels \cup {Past}]
    BY <2>1
  <2>3. DOMAIN Home = 1 .. Len(Home)
    BY <2>2
  <2> QED BY <2>2, <2>3, MoveConstants DEF N
<1>2. Home \in [1 .. N -> Ids] /\ Links \subseteq Tunnels
  BY <1>1 DEF Ids, Links, Range
<1>3. Home \in Surjection(1 .. N, Ids)
  BY <1>1, <1>2 DEF Surjection, Ids, Range
<1>4. IsFiniteSet(1 .. N) /\ Cardinality(1 .. N) = N
  BY <1>1, UpTo
<1>5. IsFiniteSet(Ids) /\ Cardinality(Ids) <= N
  BY <1>3, <1>4, FS_Surjection
<1>6. IsFiniteSet(Links) /\ Cardinality(Links) <= Cardinality(Ids)
  BY <1>5, FS_Subset DEF Links
<1>7. Cardinality(Ids) \in Nat /\ Cardinality(Links) \in Nat
  BY <1>5, <1>6, FS_CardinalityType
<1> QED BY <1>1, <1>2, <1>5, <1>6, <1>7

LEMMA IsChain ==
  ASSUME NEW p \in [1 .. N -> 1 .. N],
         \A i, j \in 1 .. N : p[i] = p[j] => i = j,
         \A k \in 1 .. N : \E i \in 1 .. N : p[i] = k
  PROVE  [i \in 1 .. N |-> Home[p[i]]] \in Chains
<1>1. p \in Bijection(1 .. N, 1 .. N)
  BY DEF Bijection, Injection, Surjection, IsInjective
<1> QED BY <1>1, HomeFacts DEF Chains

\* A chain has every tunnel once and as many links past the VPN as Home.
LEMMA ChainFacts ==
  ASSUME NEW c \in Chains
  PROVE  /\ c \in [1 .. N -> Ids]
         /\ \A i, j \in 1 .. N : c[i] = c[j] /\ c[i] # Past => i = j
         /\ \A l \in Ids : \E i \in 1 .. N : c[i] = l
<1>1. PICK p \in Bijection(1 .. N, 1 .. N) : c = [i \in 1 .. N |-> Home[p[i]]]
  BY HomeFacts DEF Chains
<1>2. /\ p \in [1 .. N -> 1 .. N] /\ \A i, j \in 1 .. N : p[i] = p[j] => i = j
      /\ \A k \in 1 .. N : \E i \in 1 .. N : p[i] = k
  BY <1>1 DEF Bijection, Injection, Surjection, IsInjective
<1>3. \A l \in Ids : \E k \in 1 .. N : Home[k] = l
  BY HomeFacts DEF Ids, Range
<1>4. c \in [1 .. N -> Ids]
  BY <1>1, <1>2, HomeFacts
<1>5. \A i, j \in 1 .. N : c[i] = c[j] /\ c[i] # Past => i = j
  BY <1>1, <1>2, HomeFacts
<1>6. \A l \in Ids : \E i \in 1 .. N : c[i] = l
  BY <1>1, <1>2, <1>3
<1> QED BY <1>4, <1>5, <1>6

LEMMA HomeChain == Home \in Chains
<1> DEFINE p == [i \in 1 .. N |-> i]
<1>1. [i \in 1 .. N |-> Home[p[i]]] \in Chains
  <2>1. /\ p \in [1 .. N -> 1 .. N] /\ \A i, j \in 1 .. N : p[i] = p[j] => i = j
        /\ \A k \in 1 .. N : p[k] = k
    OBVIOUS
  <2> HIDE DEF p
  <2> QED BY <2>1, IsChain
<1>2. Home = [i \in 1 .. N |-> Home[p[i]]]
  BY HomeFacts
<1> QED BY <1>1, <1>2

LEMMA PosFacts ==
  ASSUME NEW c \in Chains, NEW l \in Ids
  PROVE  /\ pos(c, l) \in 1 .. N /\ c[pos(c, l)] = l
         /\ \A j \in pos(c, l) + 1 .. N : c[j] # l
<1> DEFINE S == {n \in Nat : n < N /\ c[N - n] = l}
           Last(i) == c[i] = l /\ \A j \in i + 1 .. Len(c) : c[j] # l
<1>1. N \in Nat /\ c \in [1 .. N -> Ids] /\ DOMAIN c = 1 .. N /\ Len(c) = N
  <2>1. N \in Nat /\ c \in [1 .. N -> Ids]
    BY HomeFacts, ChainFacts
  <2> QED BY <2>1
<1>2. PICK x \in S : \A y \in S : x <= y
  <2>1. PICK i \in 1 .. N : c[i] = l
    BY ChainFacts
  <2>2. N - i \in Nat /\ N - i < N /\ N - (N - i) = i
    BY <1>1
  <2>3. N - i \in S
    BY <2>1, <2>2
  <2>4. S \subseteq Nat /\ S # {}
    BY <2>3
  <2> HIDE DEF S
  <2> QED BY <2>4, LeastNatural
<1>3. N - x \in DOMAIN c /\ Last(N - x)
  <2>1. ASSUME NEW j \in N - x + 1 .. N, c[j] = l PROVE FALSE
    <3>1. N - j \in Nat /\ N - j < N /\ N - (N - j) = j /\ ~(x <= N - j)
      BY <1>1, <1>2
    <3>2. N - j \in S
      BY <2>1, <3>1
    <3> QED BY <1>2, <3>1, <3>2
  <2> QED BY <1>1, <1>2, <2>1
<1>4. pos(c, l) \in DOMAIN c /\ Last(pos(c, l))
  <2>1. pos(c, l) = CHOOSE i \in DOMAIN c : Last(i)
    BY DEF pos
  <2> HIDE DEF Last
  <2> QED BY <1>3, <2>1
<1> QED BY <1>1, <1>4

\* A tunnel has one place.
LEMMA OnePlace ==
  ASSUME NEW c \in Chains, NEW l \in Links, NEW i \in 1 .. N, c[i] = l
  PROVE  i = pos(c, l)
BY PosFacts, ChainFacts DEF Links

LEMMA ToFrontFacts ==
  ASSUME NEW c \in Chains, NEW k \in 1 .. N
  PROVE  /\ toFront(c, k) \in Chains
         /\ toFront(c, k) =
              [i \in 1 .. N |-> IF i = 1 THEN c[k] ELSE IF i <= k THEN c[i - 1] ELSE c[i]]
<1> DEFINE From(i) == IF i = 1 THEN k ELSE IF i <= k THEN i - 1 ELSE i
           Into(i) == IF i = k THEN 1 ELSE IF i < k THEN i + 1 ELSE i
<1>0. N \in Nat /\ c \in [1 .. N -> Ids] /\ DOMAIN Home = 1 .. N
  BY HomeFacts, ChainFacts
<1>1. \A i \in 1 .. N : From(i) \in 1 .. N /\ Into(i) \in 1 .. N /\ From(Into(i)) = i /\ Into(From(i)) = i
  BY <1>0
<1>2. PICK p \in Bijection(1 .. N, 1 .. N) : c = [i \in 1 .. N |-> Home[p[i]]]
  BY <1>0 DEF Chains
<1>3. /\ p \in [1 .. N -> 1 .. N] /\ \A i, j \in 1 .. N : p[i] = p[j] => i = j
      /\ \A m \in 1 .. N : \E i \in 1 .. N : p[i] = m
  BY <1>2 DEF Bijection, Injection, Surjection, IsInjective
<1>4. toFront(c, k) = [i \in 1 .. N |-> c[From(i)]]
  BY <1>0 DEF toFront
<1> HIDE DEF From, Into
<1> DEFINE q == [i \in 1 .. N |-> p[From(i)]]
<1>5. q \in [1 .. N -> 1 .. N]
  BY <1>1, <1>3
<1>6. ASSUME NEW i \in 1 .. N, NEW j \in 1 .. N, q[i] = q[j] PROVE i = j
  <2>1. From(i) = From(j)
    BY <1>1, <1>3, <1>6
  <2>2. Into(From(i)) = i /\ Into(From(j)) = j
    BY <1>1
  <2> QED BY <2>1, <2>2
<1>7. ASSUME NEW m \in 1 .. N PROVE \E i \in 1 .. N : q[i] = m
  <2>1. PICK i \in 1 .. N : p[i] = m
    BY <1>3
  <2>2. Into(i) \in 1 .. N /\ q[Into(i)] = m
    BY <1>1, <2>1
  <2> QED BY <2>2
<1>8. \A i \in 1 .. N : c[From(i)] = Home[q[i]]
  BY <1>1, <1>2
<1> HIDE DEF q
<1>9. [i \in 1 .. N |-> Home[q[i]]] \in Chains
  BY <1>5, <1>6, <1>7, IsChain
<1>10. toFront(c, k) \in Chains
  BY <1>4, <1>8, <1>9
<1> QED BY <1>0, <1>10 DEF toFront

\* The first two links of a chain whose tunnel id was put first, and where each
\* link is then.
LEMMA PromotedFacts ==
  ASSUME NEW c \in Chains, NEW id \in Links
  PROVE  /\ promoted(c, id) \in Chains
         /\ promoted(c, id)[1] = id
         /\ c[1] # id => promoted(c, id)[2] = c[1] /\ N >= 2
         /\ \A l \in Ids : pos(promoted(c, id), l) =
              IF l = id THEN 1
              ELSE IF pos(c, l) < pos(c, id) THEN pos(c, l) + 1 ELSE pos(c, l)
<1> DEFINE d == promoted(c, id)
           k == pos(c, id)
<1>1. /\ c \in [1 .. N -> Ids] /\ k \in 1 .. N /\ c[k] = id /\ N \in Nat
      /\ id \in Ids /\ \A i \in 1 .. N : c[i] = id => i = k
  BY ChainFacts, PosFacts, HomeFacts, OnePlace DEF Links
<1>2. /\ d = [i \in 1 .. N |-> IF i = 1 THEN c[k] ELSE IF i <= k THEN c[i - 1] ELSE c[i]]
      /\ d \in Chains
  BY <1>1, ToFrontFacts DEF promoted
<1> HIDE DEF d, k
<1>3. d[1] = id /\ \A i \in 2 .. N : d[i] = IF i <= k THEN c[i - 1] ELSE c[i]
  BY <1>1, <1>2
<1>4. c[1] # id => d[2] = c[1] /\ N >= 2
  BY <1>1, <1>3
<1>5. ASSUME NEW l \in Ids
      PROVE  pos(d, l) = IF l = id THEN 1
                         ELSE IF pos(c, l) < k THEN pos(c, l) + 1 ELSE pos(c, l)
  <2> DEFINE p == pos(c, l)
             q == pos(d, l)
  <2>1. /\ p \in 1 .. N /\ c[p] = l /\ \A j \in p + 1 .. N : c[j] # l
        /\ q \in 1 .. N /\ d[q] = l /\ \A j \in q + 1 .. N : d[j] # l
    BY <1>2, PosFacts
  <2> HIDE DEF p, q
  <2>2. CASE l = id
    <3>1. \A i \in 2 .. N : d[i] # id
      BY <1>1, <1>3
    <3> QED BY <1>1, <2>1, <2>2, <3>1 DEF q
  <2>3. CASE l # id /\ p < k
    <3>1. p + 1 \in 2 .. N /\ d[p + 1] = l
      BY <1>1, <1>3, <2>1, <2>3
    <3>2. ASSUME NEW j \in p + 2 .. N PROVE d[j] # l
      BY <1>1, <1>3, <2>1, <2>3
    <3>3. q = p + 1
      BY <1>1, <2>1, <3>1, <3>2
    <3> QED BY <2>3, <3>3 DEF p, q
  <2>4. CASE l # id /\ ~(p < k)
    <3>1. p # k
      BY <1>1, <2>1, <2>4
    <3>2. p \in 2 .. N /\ d[p] = l
      BY <1>1, <1>3, <2>1, <2>4, <3>1
    <3>3. ASSUME NEW j \in p + 1 .. N PROVE d[j] # l
      BY <1>1, <1>3, <2>1, <2>4, <3>1
    <3>4. q = p
      BY <1>1, <2>1, <3>2, <3>3
    <3> QED BY <2>4, <3>4 DEF p, q
  <2> QED BY <2>2, <2>3, <2>4 DEF p
<1> QED BY <1>2, <1>3, <1>4, <1>5 DEF d, k

\* Chains with the same order are the same.
LEMMA SameOrder ==
  ASSUME NEW c \in Chains, NEW d \in Chains,
         \A i, j \in 1 .. N : i < j => pos(c, d[i]) < pos(c, d[j])
  PROVE  c = d
<1> DEFINE f == [i \in 1 .. N |-> pos(c, d[i])]
<1>1. /\ N \in Nat /\ c \in [1 .. N -> Ids] /\ d \in [1 .. N -> Ids]
  BY HomeFacts, ChainFacts
<1>2. /\ f \in [1 .. N -> 1 .. N] /\ \A i \in 1 .. N : c[f[i]] = d[i]
      /\ \A i, j \in 1 .. N : i < j => f[i] < f[j]
  <2>1. \A i \in 1 .. N : pos(c, d[i]) \in 1 .. N /\ c[pos(c, d[i])] = d[i]
    BY <1>1, PosFacts
  <2> QED BY <2>1
<1> HIDE DEF f
<1>3. \A i \in 1 .. N : f[i] >= i
  <2> DEFINE S == {n \in Nat : n + 1 <= N => f[n + 1] >= n + 1}
  <2>1. 0 \in S
    BY <1>1, <1>2
  <2>2. ASSUME NEW n \in Nat, n \in S PROVE n + 1 \in S
    <3> SUFFICES ASSUME n + 2 <= N PROVE f[n + 2] >= n + 2
      OBVIOUS
    <3>1. n + 1 \in 1 .. N /\ n + 2 \in 1 .. N
      BY <1>1
    <3>2. f[n + 1] < f[n + 2] /\ f[n + 1] >= n + 1 /\ f[n + 1] \in Int /\ f[n + 2] \in Int
      BY <1>2, <2>2, <3>1
    <3> QED BY <3>2
  <2>3. Nat \subseteq S
    <3> HIDE DEF S
    <3> QED BY <2>1, <2>2, NaturalsOneByOne
  <2> SUFFICES ASSUME NEW i \in 1 .. N PROVE f[i] >= i
    OBVIOUS
  <2>4. i - 1 \in S
    BY <1>1, <2>3
  <2> QED BY <1>1, <2>4
<1>4. \A i \in 1 .. N : f[i] <= i
  <2> DEFINE S == {n \in Nat : n < N => f[N - n] <= N - n}
  <2>1. 0 \in S
    BY <1>1, <1>2
  <2>2. ASSUME NEW n \in Nat, n \in S PROVE n + 1 \in S
    <3> SUFFICES ASSUME n + 1 < N PROVE f[N - (n + 1)] <= N - (n + 1)
      OBVIOUS
    <3>1. N - n \in 1 .. N /\ N - (n + 1) \in 1 .. N
      BY <1>1
    <3>2. /\ f[N - (n + 1)] < f[N - n] /\ f[N - n] <= N - n
          /\ f[N - n] \in Int /\ f[N - (n + 1)] \in Int
      BY <1>1, <1>2, <2>2, <3>1
    <3> QED BY <1>1, <3>2
  <2>3. Nat \subseteq S
    <3> HIDE DEF S
    <3> QED BY <2>1, <2>2, NaturalsOneByOne
  <2> SUFFICES ASSUME NEW i \in 1 .. N PROVE f[i] <= i
    OBVIOUS
  <2>4. N - i \in S /\ N - (N - i) = i
    BY <1>1, <2>3
  <2> QED BY <1>1, <2>4
<1>5. \A i \in 1 .. N : f[i] = i
  BY <1>1, <1>2, <1>3, <1>4
<1>6. \A i \in 1 .. N : c[i] = d[i]
  BY <1>2, <1>5
<1> QED BY <1>1, <1>6

-----------------------------------------------------------------------------
(* Plans: the first m links of the target, the last of them first.         *)

PlanOf(target, m) == [i \in 1 .. m |-> target[m + 1 - i]]

\* A plan of promotions has tunnels only.
Plain(o, m) == \A i \in 1 .. m : o[i] # Past

\* Carrying out the plan makes o of c.
Restores(c, o, m) ==
  keepsOrder(c, o, m) \/ (m = 1 /\ promoted(c, o[1]) = o) \/ (m = 0 /\ c = o)

\* An order whose first link is a tunnel.
Headed == {c \in Chains : c[1] \in Links}

LEMMA IsHeaded ==
  ASSUME NEW c \in Chains, NEW t \in Tunnels, c[1] = t, Links # {}
  PROVE  c \in Headed
<1>1. N \in Nat /\ c \in [1 .. N -> Ids] /\ t # Past
  BY ChainFacts, HomeFacts
<1>2. PICK l \in Links : TRUE
  OBVIOUS
<1>3. pos(c, l) \in 1 .. N
  BY <1>2, PosFacts DEF Links
<1>4. 1 \in 1 .. N
  BY <1>1, <1>3
<1> QED BY <1>1, <1>4 DEF Headed, Links

\* A plan restores its target, or is known to lose the order.
LEMMA RestorePlanFacts ==
  ASSUME NEW c \in Chains, NEW o \in Headed
  PROVE  \E m \in 0 .. N :
           /\ restorePlan(c, o) = PlanOf(o, m) /\ Plain(o, m)
           /\ Restores(c, o, m) \/ LosesOrder(restorePlan(c, o), c, o)
<1> DEFINE Keeping == {m \in 0 .. N : keepsOrder(c, o, m)}
<1>1. /\ N \in Nat /\ o \in Chains /\ o \in [1 .. N -> Ids] /\ Len(o) = N
      /\ o[1] \in Links /\ o[1] # Past
  <2>1. o \in Chains /\ o[1] \in Links
    BY DEF Headed
  <2>2. N \in Nat /\ o \in [1 .. N -> Ids]
    BY <2>1, HomeFacts, ChainFacts
  <2> QED BY <2>1, <2>2 DEF Links
<1>2. N \in Keeping
  BY <1>1 DEF keepsOrder
<1>3. PICK x \in Keeping : \A y \in Keeping : x <= y
  <2>1. Keeping \subseteq Nat /\ Keeping # {}
    BY <1>1, <1>2
  <2> HIDE DEF Keeping
  <2> QED BY <2>1, LeastNatural
<1> DEFINE Least(k) == keepsOrder(c, o, k) /\ \A i \in 0 .. k - 1 : ~keepsOrder(c, o, i)
           m == CHOOSE k \in 0 .. Len(o) : Least(k)
<1>4. x \in 0 .. Len(o) /\ Least(x)
  <2>1. ASSUME NEW i \in 0 .. x - 1, keepsOrder(c, o, i) PROVE FALSE
    <3>1. i \in Keeping /\ ~(x <= i)
      BY <1>1, <2>1
    <3> QED BY <1>3, <3>1
  <2> QED BY <1>1, <2>1
<1>5. m \in 0 .. N /\ keepsOrder(c, o, m)
  <2>1. m \in 0 .. Len(o) /\ Least(m)
    <3> HIDE DEF Least
    <3> QED BY <1>4
  <2> QED BY <1>1, <2>1
<1>6. restorePlan(c, o) = IF \E i \in 1 .. m : o[i] = Past THEN <<o[1]>> ELSE PlanOf(o, m)
  BY DEF restorePlan, PlanOf
<1> HIDE DEF m
<1>7. CASE Plain(o, m)
  <2>1. restorePlan(c, o) = PlanOf(o, m)
    BY <1>6, <1>7 DEF Plain
  <2> QED BY <1>5, <1>7, <2>1 DEF Restores
<1>8. CASE ~Plain(o, m)
  <2>1. restorePlan(c, o) = <<o[1]>> /\ 1 \in 0 .. N
    BY <1>1, <1>5, <1>6, <1>8 DEF Plain
  <2>2. <<o[1]>> = PlanOf(o, 1) /\ Plain(o, 1)
    BY <1>1 DEF PlanOf, Plain
  <2>3. Restores(c, o, 1) \/ LosesOrder(<<o[1]>>, c, o)
    BY DEF Restores, LosesOrder
  <2> QED BY <2>1, <2>2, <2>3
<1> QED BY <1>7, <1>8

\* A plan is a sequence of links.
LEMMA PlanType ==
  ASSUME NEW o \in Chains, NEW m \in 0 .. N, Plain(o, m)
  PROVE  /\ PlanOf(o, m) \in Seq(Links) /\ Len(PlanOf(o, m)) = m
         /\ m # 0 => /\ Head(PlanOf(o, m)) = o[m] /\ o[m] \in Links
                     /\ Tail(PlanOf(o, m)) = PlanOf(o, m - 1)
<1>1. N \in Nat /\ o \in [1 .. N -> Ids] /\ m \in Nat /\ \A i \in 1 .. m : o[i] \in Links
  <2>1. N \in Nat /\ o \in [1 .. N -> Ids]
    BY HomeFacts, ChainFacts
  <2>2. ASSUME NEW i \in 1 .. m PROVE o[i] \in Links
    BY <2>1, <2>2 DEF Plain, Links
  <2> QED BY <2>1, <2>2
<1>2. PlanOf(o, m) \in [1 .. m -> Links]
  <2>1. \A i \in 1 .. m : m + 1 - i \in 1 .. m
    BY <1>1
  <2> QED BY <1>1, <2>1 DEF PlanOf
<1>3. PlanOf(o, m) \in Seq(Links) /\ Len(PlanOf(o, m)) = m
  <2>1. ASSUME NEW s \in [1 .. m -> Links] PROVE s \in Seq(Links) /\ Len(s) = m
    BY <1>1, <2>1
  <2> QED BY <1>2, <2>1
<1>4. ASSUME m # 0
      PROVE  /\ Head(PlanOf(o, m)) = o[m] /\ o[m] \in Links
             /\ Tail(PlanOf(o, m)) = PlanOf(o, m - 1)
  <2>1. 1 \in 1 .. m /\ m + 1 - 1 = m
    BY <1>1, <1>4
  <2>2. Head(PlanOf(o, m)) = PlanOf(o, m)[1] /\ PlanOf(o, m)[1] = o[m]
    BY <2>1, <1>3 DEF PlanOf
  <2>3. Tail(PlanOf(o, m)) = [i \in 1 .. m - 1 |-> PlanOf(o, m)[i + 1]]
    <3>1. ASSUME NEW s \in Seq(Links), Len(s) = m
          PROVE  Tail(s) = [i \in 1 .. m - 1 |-> s[i + 1]]
      <4>1. s # <<>>
        BY <1>1, <1>4, <3>1
      <4>2. /\ Tail(s) \in Seq(Links) /\ Len(Tail(s)) = m - 1
            /\ \A i \in 1 .. m - 1 : Tail(s)[i] = s[i + 1]
        BY <3>1, <4>1, HeadTailProperties
      <4>3. ASSUME NEW u \in Seq(Links), Len(u) = m - 1, \A i \in 1 .. m - 1 : u[i] = s[i + 1]
            PROVE  u = [i \in 1 .. m - 1 |-> s[i + 1]]
        <5>1. u = [i \in 1 .. m - 1 |-> u[i]]
          BY <4>3
        <5> QED BY <4>3, <5>1
      <4> QED BY <4>2, <4>3, Zenon
    <3> HIDE DEF PlanOf
    <3> QED BY <1>3, <3>1
  <2>4. \A i \in 1 .. m - 1 : PlanOf(o, m)[i + 1] = o[(m - 1) + 1 - i]
    <3> SUFFICES ASSUME NEW i \in 1 .. m - 1 PROVE PlanOf(o, m)[i + 1] = o[(m - 1) + 1 - i]
      OBVIOUS
    <3>1. i + 1 \in 1 .. m /\ m + 1 - (i + 1) = (m - 1) + 1 - i
      BY <1>1
    <3> QED BY <3>1 DEF PlanOf
  <2>5. Tail(PlanOf(o, m)) = PlanOf(o, m - 1)
    <3>1. PlanOf(o, m - 1) = [i \in 1 .. m - 1 |-> o[(m - 1) + 1 - i]]
      BY DEF PlanOf
    <3> QED BY <2>3, <2>4, <3>1
  <2> QED BY <1>1, <1>4, <2>2, <2>5
<1> QED BY <1>3, <1>4

\* Each step of a plan puts one more link in its place.
LEMMA PlanGoesOn ==
  ASSUME NEW c \in Chains, NEW o \in Chains, NEW m \in 1 .. N, o[m] \in Links,
         keepsOrder(c, o, m)
  PROVE  keepsOrder(promoted(c, o[m]), o, m - 1)
<1> DEFINE id == o[m]
           d == promoted(c, id)
<1>1. /\ N \in Nat /\ o \in [1 .. N -> Ids] /\ Len(o) = N /\ id \in Links /\ id \in Ids
      /\ \A i \in 1 .. N : o[i] = id => i = m
  <2>1. N \in Nat /\ o \in [1 .. N -> Ids]
    BY HomeFacts, ChainFacts
  <2>2. \A i \in 1 .. N : o[i] = id => i = m
    BY OnePlace
  <2> QED BY <2>1, <2>2 DEF Links
<1>2. \A l \in Ids : pos(c, l) \in 1 .. N /\ c[pos(c, l)] = l
  BY PosFacts
<1>3. \A l \in Ids : pos(d, l) = IF l = id THEN 1
                                   ELSE IF pos(c, l) < pos(c, id) THEN pos(c, l) + 1 ELSE pos(c, l)
  BY <1>1, PromotedFacts
<1> HIDE DEF d
<1> SUFFICES ASSUME NEW i \in m .. N, NEW j \in m .. N, i < j
             PROVE  pos(d, o[i]) < pos(d, o[j])
  BY <1>1 DEF keepsOrder, d
<1>4. i \in 1 .. N /\ j \in 1 .. N /\ j # m /\ o[i] \in Ids /\ o[j] \in Ids
  BY <1>1
<1>5. o[j] # id /\ pos(c, o[j]) # pos(c, id)
  BY <1>1, <1>2, <1>4
<1>6. CASE i = m
  <2>1. pos(d, o[i]) = 1 /\ pos(c, id) \in 1 .. N /\ pos(c, o[j]) \in 1 .. N
    BY <1>1, <1>2, <1>3, <1>4, <1>6
  <2>2. pos(d, o[j]) >= 2
    BY <1>1, <1>3, <1>4, <1>5, <2>1
  <2> QED BY <1>1, <1>3, <1>4, <1>5, <2>1, <2>2
<1>7. CASE i # m
  <2>1. pos(c, o[i]) < pos(c, o[j])
    <3>1. i \in m + 1 .. Len(o) /\ j \in m + 1 .. Len(o)
      BY <1>1, <1>7
    <3> QED BY <3>1 DEF keepsOrder
  <2>2. o[i] # id /\ pos(c, o[i]) # pos(c, id)
    BY <1>1, <1>2, <1>4, <1>7
  <2>3. pos(c, o[i]) \in 1 .. N /\ pos(c, o[j]) \in 1 .. N /\ pos(c, id) \in 1 .. N
    BY <1>1, <1>2, <1>4
  <2> QED BY <1>1, <1>3, <1>4, <1>5, <2>1, <2>2, <2>3
<1> QED BY <1>6, <1>7

\* A plan that is done has restored its target.
LEMMA PlanIsDone ==
  ASSUME NEW c \in Chains, NEW o \in Chains, keepsOrder(c, o, 0)
  PROVE  c = o
<1>1. N \in Nat /\ o \in [1 .. N -> Ids] /\ Len(o) = N
  <2>1. N \in Nat /\ o \in [1 .. N -> Ids]
    BY HomeFacts, ChainFacts
  <2> QED BY <2>1
<1>2. \A i, j \in 1 .. N : i < j => pos(c, o[i]) < pos(c, o[j])
  BY <1>1 DEF keepsOrder
<1> QED BY <1>2, SameOrder

LEMMA RestoresOn ==
  ASSUME NEW c \in Chains, NEW o \in Chains, NEW m \in 1 .. N, o[m] \in Links,
         Restores(c, o, m)
  PROVE  Restores(promoted(c, o[m]), o, m - 1)
<1>1. CASE keepsOrder(c, o, m)
  BY <1>1, PlanGoesOn DEF Restores
<1>2. CASE m = 1 /\ promoted(c, o[1]) = o
  BY <1>2 DEF Restores
<1> QED BY <1>1, <1>2 DEF Restores

LEMMA RestoresDone ==
  ASSUME NEW c \in Chains, NEW o \in Chains, Restores(c, o, 0)
  PROVE  c = o
BY PlanIsDone DEF Restores

-----------------------------------------------------------------------------
(* The reserve, and the chains that explain a chain.                       *)

LEMMA PickBackupFacts ==
  ASSUME chain \in Chains, NEW t \in Tunnels, Alive(t) # {}
  PROVE  pickBackup(t) \in Links \ {t}
<1> DEFINE S == {i \in 1 .. N : chain[i] \in Alive(t)}
           First(i) == chain[i] \in Alive(t) /\ \A k \in 1 .. i - 1 : chain[k] \notin Alive(t)
<1>1. N \in Nat /\ chain \in [1 .. N -> Ids]
  BY HomeFacts, ChainFacts
<1>2. S \subseteq Nat /\ S # {}
  <2>1. PICK l : l \in Alive(t)
    OBVIOUS
  <2>2. l \in Range(chain)
    BY <2>1 DEF Alive
  <2> QED BY <1>1, <2>1, <2>2 DEF Range
<1>3. PICK x \in S : \A y \in S : x <= y
  <2> HIDE DEF S
  <2> QED BY <1>2, LeastNatural
<1>4. x \in DOMAIN chain /\ First(x)
  <2>1. ASSUME NEW k \in 1 .. x - 1, chain[k] \in Alive(t) PROVE FALSE
    <3>1. k \in S /\ ~(x <= k)
      BY <1>1, <2>1
    <3> QED BY <1>3, <3>1
  <2> QED BY <1>1, <2>1
<1> DEFINE k == CHOOSE i \in DOMAIN chain : First(i)
<1>5. k \in DOMAIN chain /\ First(k)
  <2> HIDE DEF First
  <2> QED BY <1>4
<1>6. pickBackup(t) = chain[k]
  BY DEF pickBackup
<1>7. chain[k] \in Alive(t)
  BY <1>5
<1> HIDE DEF k
<1> QED BY <1>1, <1>5, <1>6, <1>7 DEF Alive, Links

\* The recursive function of Followed, its first values given.
Stretch(t, f, n) ==
  IF n = 0 THEN {[expect |-> rec[t].expect, cur |-> rec[t].backup]} ELSE Further(f[n - 1])

LEMMA StretchExists ==
  ASSUME NEW t, NEW m \in Nat
  PROVE  \E f : f = [n \in 0 .. m |-> Stretch(t, f, n)]
<1> DEFINE S == {k \in Nat : \E f : f = [n \in 0 .. k |-> Stretch(t, f, n)]}
<1>1. 0 \in S
  <2> DEFINE g == [n \in 0 .. 0 |-> {[expect |-> rec[t].expect, cur |-> rec[t].backup]}]
  <2>1. g = [n \in 0 .. 0 |-> Stretch(t, g, n)]
    BY DEF Stretch
  <2> HIDE DEF g
  <2> QED BY <2>1
<1>2. ASSUME NEW k \in Nat, k \in S PROVE k + 1 \in S
  <2>1. PICK f : f = [n \in 0 .. k |-> Stretch(t, f, n)]
    BY <1>2
  <2> DEFINE g == [n \in 0 .. k + 1 |-> IF n = k + 1 THEN Stretch(t, f, n) ELSE f[n]]
  <2>2. ASSUME NEW n \in 0 .. k + 1 PROVE g[n] = Stretch(t, g, n)
    <3>1. n # 0 => g[n - 1] = f[n - 1]
      OBVIOUS
    <3>2. Stretch(t, g, n) = Stretch(t, f, n)
      BY <3>1 DEF Stretch
    <3>3. g[n] = Stretch(t, f, n)
      BY <2>1
    <3> QED BY <3>2, <3>3
  <2>3. g = [n \in 0 .. k + 1 |-> Stretch(t, g, n)]
    BY <2>2
  <2> HIDE DEF g
  <2>4. \E h : h = [n \in 0 .. k + 1 |-> Stretch(t, h, n)]
    BY <2>3
  <2> QED BY <2>4
<1> HIDE DEF S
<1>3. m \in S
  BY <1>1, <1>2, NaturalsOneByOne
<1> QED BY <1>3 DEF S

\* What Followed says, step by step.
LEMMA FollowedSteps ==
  \A t : /\ Followed(t)[0] = {[expect |-> rec[t].expect, cur |-> rec[t].backup]}
         /\ \A n \in 0 .. Hops : n # 0 => Followed(t)[n] = Further(Followed(t)[n - 1])
<1> SUFFICES ASSUME NEW t
             PROVE  /\ Followed(t)[0] = {[expect |-> rec[t].expect, cur |-> rec[t].backup]}
                    /\ \A n \in 0 .. Hops : n # 0 => Followed(t)[n] = Further(Followed(t)[n - 1])
  OBVIOUS
<1> DEFINE F == CHOOSE f : f = [n \in 0 .. Hops |-> Stretch(t, f, n)]
<1>0. Hops \in Nat
  BY MoveConstants
<1>1. F = [n \in 0 .. Hops |-> Stretch(t, F, n)]
  BY <1>0, StretchExists
<1>2. Followed(t) = F
  BY DEF Followed, Stretch
<1> HIDE DEF F
<1>3. \A n \in 0 .. Hops : F[n] = Stretch(t, F, n)
  BY <1>1
<1> QED BY <1>0, <1>2, <1>3 DEF Stretch

-----------------------------------------------------------------------------
(* The shape of the state, and the lock.                                   *)

MovePcs == {"idle", "asks", "waits", "asks again", "late", "sent"}
BackPcs == {"idle", "waits", "asks", "sent"}
MoveRecs == [pc : MovePcs, backup : {""} \cup Links, seen : {<<>>} \cup Chains]
BackRecs == [pc : BackPcs, cur : {<<>>} \cup Chains, plan : Seq(Links)]
Moved == [moved : {TRUE}, backup : Links, origin : Headed, expect : Chains,
          unconfirmed : BOOLEAN, heldSaid : BOOLEAN]

Data ==
  /\ chain \in Chains /\ check \in [Tunnels -> {"ok", "hard"}]
  /\ rec \in [Tunnels -> {NoMove} \cup Moved]
  /\ attempts \in [Tunnels -> 0 .. attemptLimit]
  /\ move \in [Tunnels -> MoveRecs] /\ back \in [Tunnels -> BackRecs]
Marks ==
  /\ up \subseteq Tunnels /\ breaks \in 0 .. MaxBreaks /\ edited \in BOOLEAN
  /\ astray \in BOOLEAN /\ theirs \in Chains \cup {<<>>} /\ troubles \in 0 .. MaxTroubles

MoveShape(t) ==
  /\ IF move[t].pc \in {"sent", "late"} THEN move[t].backup \in Links \ {t}
     ELSE move[t].backup = ""
  /\ move[t].pc = "late" => move[t].seen \in Chains /\ move[t].seen[1] = t
  /\ move[t].pc = "sent" => rec[t].moved
BackShape(t) ==
  /\ back[t].pc = "sent" => back[t].cur \in Chains /\ rec[t].moved
  /\ back[t].pc # "sent" => back[t].plan = <<>>

\* The lock of the router has one holder.
HoldsMove(t) == move[t].pc \in {"asks again", "sent"}
HoldsBack(t) == back[t].pc \in {"asks", "sent"}
OneHolder ==
  \A t, u \in Tunnels :
    /\ HoldsMove(t) /\ HoldsMove(u) => t = u
    /\ HoldsBack(t) /\ HoldsBack(u) => t = u
    /\ ~(HoldsMove(t) /\ HoldsBack(u))

Base ==
  /\ Data /\ Marks /\ OneHolder
  /\ \A t \in Tunnels : MoveShape(t) /\ BackShape(t)

LEMMA NoMoveFacts ==
  /\ ~NoMove.moved /\ NoMove.backup = "" /\ NoMove.expect = <<>> /\ NoMove.origin = <<>>
  /\ NoMove \notin Moved
BY DEF NoMove, Moved

LEMMA IdleFacts ==
  /\ Idle \in MoveRecs /\ Idle.pc = "idle" /\ Idle.backup = ""
  /\ IdleBack \in BackRecs /\ IdleBack.pc = "idle" /\ IdleBack.plan = <<>>
<1>1. <<>> \in Seq(Links)
  OBVIOUS
<1> QED BY <1>1 DEF Idle, IdleBack, MoveRecs, BackRecs, MovePcs, BackPcs

\* A record that says moved has all its fields.
LEMMA MovedRecord ==
  ASSUME Data, NEW t \in Tunnels
  PROVE  /\ rec[t] \in {NoMove} \cup Moved /\ (rec[t].moved <=> rec[t] \in Moved)
         /\ rec[t].moved => /\ rec[t].backup \in Links /\ rec[t].origin \in Headed
                            /\ rec[t].origin \in Chains /\ rec[t].expect \in Chains
<1>1. rec[t] \in {NoMove} \cup Moved
  BY DEF Data
<1>2. rec[t].moved <=> rec[t] \in Moved
  <2>1. CASE rec[t] = NoMove
    BY <2>1, NoMoveFacts
  <2>2. CASE rec[t] \in Moved
    BY <2>2 DEF Moved
  <2> QED BY <1>1, <2>1, <2>2
<1>3. rec[t].moved => /\ rec[t].backup \in Links /\ rec[t].origin \in Headed
                      /\ rec[t].origin \in Chains /\ rec[t].expect \in Chains
  BY <1>2 DEF Moved, Headed
<1> QED BY <1>1, <1>2, <1>3

\* A step that deals with one tunnel, which takes the lock only when it is free.
Others(t) ==
  \A u \in Tunnels : u # t => move'[u] = move[u] /\ back'[u] = back[u] /\ rec'[u] = rec[u]

LEMMA OneTunnel ==
  ASSUME Base, Data', Marks', NEW t \in Tunnels, Others(t), MoveShape(t)', BackShape(t)',
         HoldsMove(t)' => HoldsMove(t) \/ ~Locked,
         HoldsBack(t)' => HoldsBack(t) \/ ~Locked,
         ~(HoldsMove(t)' /\ HoldsBack(t)')
  PROVE  Base'
<1>1. ASSUME NEW u \in Tunnels PROVE MoveShape(u)' /\ BackShape(u)'
  <2>1. CASE u = t
    BY <2>1
  <2>2. CASE u # t
    <3>1. move'[u] = move[u] /\ back'[u] = back[u] /\ rec'[u] = rec[u]
      BY <2>2 DEF Others
    <3>2. MoveShape(u) /\ BackShape(u)
      BY DEF Base
    <3> QED BY <3>1, <3>2 DEF MoveShape, BackShape
  <2> QED BY <2>1, <2>2
<1>2. ASSUME NEW u \in Tunnels, u # t
      PROVE  (HoldsMove(u)' <=> HoldsMove(u)) /\ (HoldsBack(u)' <=> HoldsBack(u))
  BY <1>2 DEF Others, HoldsMove, HoldsBack
<1>3. ASSUME NEW u \in Tunnels, ~Locked PROVE ~HoldsMove(u) /\ ~HoldsBack(u)
  BY <1>3 DEF Locked, HoldsMove, HoldsBack
<1>4. OneHolder'
  <2>1. ASSUME NEW u \in Tunnels, u # t, HoldsMove(t)' \/ HoldsBack(t)'
        PROVE  ~HoldsMove(u) /\ ~HoldsBack(u)
    BY <1>3, <2>1 DEF Base, OneHolder
  <2> SUFFICES ASSUME NEW u \in Tunnels, NEW v \in Tunnels
               PROVE  /\ HoldsMove(u)' /\ HoldsMove(v)' => u = v
                      /\ HoldsBack(u)' /\ HoldsBack(v)' => u = v
                      /\ ~(HoldsMove(u)' /\ HoldsBack(v)')
    BY DEF OneHolder
  <2>2. CASE u # t /\ v # t
    BY <1>2, <2>2 DEF Base, OneHolder
  <2>3. CASE u = t \/ v = t
    BY <1>2, <2>1, <2>3
  <2> QED BY <2>2, <2>3
<1> QED BY <1>1, <1>4 DEF Base

\* What the ways to write a table do to it.
LEMMA MoveTo ==
  ASSUME Data, NEW t \in Tunnels, NEW m \in MoveRecs, move' = [move EXCEPT ![t] = m]
  PROVE  /\ move' \in [Tunnels -> MoveRecs] /\ move'[t] = m
         /\ \A u \in Tunnels : u # t => move'[u] = move[u]
BY DEF Data

LEMMA MovePc ==
  ASSUME Data, NEW t \in Tunnels, NEW pc \in MovePcs, move' = [move EXCEPT ![t].pc = pc]
  PROVE  /\ move' \in [Tunnels -> MoveRecs]
         /\ move'[t].pc = pc /\ move'[t].backup = move[t].backup /\ move'[t].seen = move[t].seen
         /\ \A u \in Tunnels : u # t => move'[u] = move[u]
<1> DEFINE m == [move[t] EXCEPT !.pc = pc]
<1>1. m \in MoveRecs /\ m.pc = pc /\ m.backup = move[t].backup /\ m.seen = move[t].seen
  BY DEF Data, MoveRecs
<1>2. move' = [move EXCEPT ![t] = m]
  BY DEF Data
<1> HIDE DEF m
<1> QED BY <1>1, <1>2, MoveTo

LEMMA BackTo ==
  ASSUME Data, NEW t \in Tunnels, NEW b \in BackRecs, back' = [back EXCEPT ![t] = b]
  PROVE  /\ back' \in [Tunnels -> BackRecs] /\ back'[t] = b
         /\ \A u \in Tunnels : u # t => back'[u] = back[u]
BY DEF Data

LEMMA BackPc ==
  ASSUME Data, NEW t \in Tunnels, NEW pc \in BackPcs, back' = [back EXCEPT ![t].pc = pc]
  PROVE  /\ back' \in [Tunnels -> BackRecs]
         /\ back'[t].pc = pc /\ back'[t].cur = back[t].cur /\ back'[t].plan = back[t].plan
         /\ \A u \in Tunnels : u # t => back'[u] = back[u]
<1> DEFINE b == [back[t] EXCEPT !.pc = pc]
<1>1. b \in BackRecs /\ b.pc = pc /\ b.cur = back[t].cur /\ b.plan = back[t].plan
  BY DEF Data, BackRecs
<1>2. back' = [back EXCEPT ![t] = b]
  BY DEF Data
<1> HIDE DEF b
<1> QED BY <1>1, <1>2, BackTo

LEMMA RecTo ==
  ASSUME Data, NEW t \in Tunnels, NEW r \in {NoMove} \cup Moved, rec' = [rec EXCEPT ![t] = r]
  PROVE  /\ rec' \in [Tunnels -> {NoMove} \cup Moved] /\ rec'[t] = r
         /\ \A u \in Tunnels : u # t => rec'[u] = rec[u]
BY DEF Data

\* The record of a move, for all but the messages.
SameWay(u) ==
  /\ rec'[u].moved = rec[u].moved /\ rec'[u].backup = rec[u].backup
  /\ rec'[u].origin = rec[u].origin /\ rec'[u].expect = rec[u].expect

LEMMA RecConfirmed ==
  ASSUME Data, NEW t \in Tunnels, rec[t].moved, rec' = [rec EXCEPT ![t].unconfirmed = FALSE]
  PROVE  /\ rec' \in [Tunnels -> {NoMove} \cup Moved] /\ SameWay(t)
         /\ \A u \in Tunnels : u # t => rec'[u] = rec[u]
<1> DEFINE r == [rec[t] EXCEPT !.unconfirmed = FALSE]
<1>1. rec[t] \in Moved
  BY MovedRecord
<1>2. r \in Moved /\ r.moved = rec[t].moved /\ r.backup = rec[t].backup
      /\ r.origin = rec[t].origin /\ r.expect = rec[t].expect
  BY <1>1 DEF Moved
<1>3. rec' = [rec EXCEPT ![t] = r]
  BY DEF Data
<1> HIDE DEF r
<1> QED BY <1>2, <1>3, RecTo DEF SameWay

LEMMA AttemptsCounted ==
  ASSUME Data, NEW t \in Tunnels
  PROVE  countAttempt(t) \in [Tunnels -> 0 .. attemptLimit]
<1>1. attemptLimit \in Nat
  BY MoveConstants
<1>2. attempts[t] \in 0 .. attemptLimit /\ attempts \in [Tunnels -> 0 .. attemptLimit]
  BY DEF Data
<1> DEFINE n == IF attempts[t] < attemptLimit THEN attempts[t] + 1 ELSE attempts[t]
<1>3. n \in 0 .. attemptLimit
  BY <1>1, <1>2
<1>4. countAttempt(t) = [attempts EXCEPT ![t] = n]
  BY DEF countAttempt
<1> HIDE DEF n
<1> QED BY <1>2, <1>3, <1>4

LEMMA ConfirmFacts ==
  ASSUME Data, NEW t \in Tunnels, NEW c, confirmMoves(t, c)
  PROVE  /\ rec' \in [Tunnels -> {NoMove} \cup Moved]
         /\ attempts' \in [Tunnels -> 0 .. attemptLimit]
         /\ SameWay(t) /\ \A u \in Tunnels : u # t => rec'[u] = rec[u]
<1>1. CASE UNCHANGED <<rec, attempts>>
  BY <1>1 DEF Data, SameWay
<1>2. CASE /\ Confirmed(t, c) /\ rec' = [rec EXCEPT ![t].unconfirmed = FALSE]
           /\ attempts' = countAttempt(t)
  <2>1. rec[t].moved
    BY <1>2 DEF Confirmed
  <2> QED BY <1>2, <2>1, RecConfirmed, AttemptsCounted
<1> QED BY <1>1, <1>2 DEF confirmMoves

LEMMA TroubleFacts ==
  ASSUME Marks, Trouble \/ UNCHANGED troubles
  PROVE  troubles' \in 0 .. MaxTroubles
<1>1. MaxTroubles \in Nat /\ troubles \in 0 .. MaxTroubles
  BY MoveConstants DEF Marks
<1> QED BY <1>1 DEF Trouble

\* What a promotion does, whatever the answer.
LEMMA PromotionFacts ==
  ASSUME Data, Marks, NEW t \in Tunnels, NEW id \in Links, NEW a, Promotion(t, id, a)
  PROVE  /\ chain' \in Chains /\ chain' \in {chain, promoted(chain, id)}
         /\ astray' \in BOOLEAN /\ troubles' \in 0 .. MaxTroubles
<1>1. promoted(chain, id) \in Chains /\ chain \in Chains
  BY PromotedFacts DEF Data
<1>2. chain' \in {chain, promoted(chain, id)}
  BY DEF Promotion
<1>3. astray' \in BOOLEAN
  <2>1. astray \in BOOLEAN
    BY DEF Marks
  <2> QED BY <2>1 DEF Promotion, Midway
<1>4. troubles' \in 0 .. MaxTroubles
  BY TroubleFacts DEF Promotion
<1> QED BY <1>1, <1>2, <1>3, <1>4

\* A move, or a return, that ends or stays as it is.
LEMMA MoveEnds ==
  ASSUME Data, NEW t \in Tunnels, EndMove(t)
  PROVE  /\ move' \in [Tunnels -> MoveRecs] /\ move'[t] = Idle
         /\ \A u \in Tunnels : u # t => move'[u] = move[u]
         /\ MoveShape(t)' /\ ~HoldsMove(t)' /\ move'[t].pc = "idle"
<1>1. /\ move' \in [Tunnels -> MoveRecs] /\ move'[t] = Idle
      /\ \A u \in Tunnels : u # t => move'[u] = move[u]
  BY IdleFacts, MoveTo DEF EndMove
<1> QED BY <1>1, IdleFacts DEF MoveShape, HoldsMove

LEMMA BackEnds ==
  ASSUME Data, NEW t \in Tunnels, EndBack(t)
  PROVE  /\ back' \in [Tunnels -> BackRecs] /\ back'[t] = IdleBack
         /\ \A u \in Tunnels : u # t => back'[u] = back[u]
         /\ BackShape(t)' /\ ~HoldsBack(t)' /\ back'[t].pc = "idle"
<1>1. /\ back' \in [Tunnels -> BackRecs] /\ back'[t] = IdleBack
      /\ \A u \in Tunnels : u # t => back'[u] = back[u]
  BY IdleFacts, BackTo DEF EndBack
<1> QED BY <1>1, IdleFacts DEF BackShape, HoldsBack

LEMMA MoveStays ==
  ASSUME Base, NEW t \in Tunnels, move'[t] = move[t],
         move[t].pc = "sent" => (rec'[t].moved <=> rec[t].moved)
  PROVE  MoveShape(t)' /\ (HoldsMove(t)' <=> HoldsMove(t))
BY DEF Base, MoveShape, HoldsMove

LEMMA BackStays ==
  ASSUME Base, NEW t \in Tunnels, back'[t] = back[t],
         back[t].pc = "sent" => (rec'[t].moved <=> rec[t].moved)
  PROVE  BackShape(t)' /\ (HoldsBack(t)' <=> HoldsBack(t))
BY DEF Base, BackShape, HoldsBack

\* While the lock is free, or one's own, nobody else deals with the router.
LEMMA HolderAlone ==
  ASSUME Base, NEW t \in Tunnels
  PROVE  /\ ~Locked => ~HoldsMove(t) /\ ~HoldsBack(t)
         /\ HoldsMove(t) => ~HoldsBack(t)
BY DEF Base, OneHolder, Locked, HoldsMove, HoldsBack

\* A move that is started.
LEMMA StartFacts ==
  ASSUME Base, NEW t \in Tunnels, startMoveOnly(t) \/ UNCHANGED move
  PROVE  /\ move' \in [Tunnels -> MoveRecs]
         /\ \A u \in Tunnels : u # t => move'[u] = move[u]
         /\ (rec'[t].moved <=> rec[t].moved) => MoveShape(t)'
         /\ HoldsMove(t)' <=> HoldsMove(t)
         /\ move'[t].pc = "sent" <=> move[t].pc = "sent"
<1>1. Data /\ MoveShape(t)
  BY DEF Base
<1>2. CASE UNCHANGED move
  BY <1>1, <1>2 DEF Data, MoveShape, HoldsMove
<1>3. CASE move[t].pc = "idle" /\ move' = [move EXCEPT ![t].pc = "asks"]
  <2>1. /\ move' \in [Tunnels -> MoveRecs] /\ move'[t].pc = "asks"
        /\ move'[t].backup = move[t].backup
        /\ \A u \in Tunnels : u # t => move'[u] = move[u]
    BY <1>1, <1>3, MovePc DEF MovePcs
  <2> QED BY <1>1, <1>3, <2>1 DEF MoveShape, HoldsMove
<1> QED BY <1>2, <1>3 DEF startMoveOnly

LEMMA ReportBase == ASSUME Base, NEW t \in Tunnels, Report(t) PROVE Base'
<1>0. Data /\ Marks
  BY DEF Base
<1>1. CASE Hard(t) \/ AfterFailedReport(t)
  <2>1. /\ startMoveOnly(t) \/ UNCHANGED move
        /\ UNCHANGED <<world, chain, back, troubles>>
        /\ check' = [check EXCEPT ![t] = "hard"] \/ UNCHANGED check
        /\ confirmMoves(t, chain) \/ UNCHANGED <<rec, attempts>>
    BY <1>1 DEF Hard, AfterFailedReport
  <2>2. /\ rec' \in [Tunnels -> {NoMove} \cup Moved]
        /\ attempts' \in [Tunnels -> 0 .. attemptLimit]
        /\ rec'[t].moved = rec[t].moved /\ \A u \in Tunnels : u # t => rec'[u] = rec[u]
    BY <1>0, <2>1, ConfirmFacts DEF Data, SameWay
  <2>3. /\ move' \in [Tunnels -> MoveRecs]
        /\ \A u \in Tunnels : u # t => move'[u] = move[u]
        /\ MoveShape(t)' /\ (HoldsMove(t)' <=> HoldsMove(t))
    BY <2>1, <2>2, StartFacts
  <2>4. BackShape(t)' /\ (HoldsBack(t)' <=> HoldsBack(t))
    BY <2>1, <2>2, BackStays
  <2>5. Data' /\ Marks'
    BY <1>0, <2>1, <2>2, <2>3 DEF Data, Marks, world, outside
  <2>6. Others(t) /\ ~(HoldsMove(t)' /\ HoldsBack(t)')
    BY <2>1, <2>2, <2>3, <2>4, HolderAlone DEF Others
  <2> QED BY <2>3, <2>4, <2>5, <2>6, OneTunnel
<1>2. CASE Answering(t)
  <2>1. /\ UNCHANGED <<world, chain, rec, attempts, move, troubles>>
        /\ check' = [check EXCEPT ![t] = "ok"]
        /\ \/ UNCHANGED back
           \/ back[t].pc = "idle" /\ back' = [back EXCEPT ![t].pc = "waits"]
    BY <1>2 DEF Answering
  <2>2. /\ back' \in [Tunnels -> BackRecs]
        /\ \A u \in Tunnels : u # t => back'[u] = back[u]
        /\ BackShape(t)' /\ (HoldsBack(t)' <=> HoldsBack(t))
    <3>1. CASE UNCHANGED back
      BY <1>0, <2>1, <3>1, BackStays DEF Data
    <3>2. CASE back[t].pc = "idle" /\ back' = [back EXCEPT ![t].pc = "waits"]
      <4>1. /\ back' \in [Tunnels -> BackRecs] /\ back'[t].pc = "waits"
            /\ back'[t].plan = back[t].plan
            /\ \A u \in Tunnels : u # t => back'[u] = back[u]
        BY <1>0, <3>2, BackPc DEF BackPcs
      <4>2. BackShape(t)
        BY DEF Base
      <4> QED BY <3>2, <4>1, <4>2 DEF BackShape, HoldsBack
    <3> QED BY <2>1, <3>1, <3>2
  <2>3. MoveShape(t)' /\ (HoldsMove(t)' <=> HoldsMove(t))
    BY <2>1, MoveStays
  <2>4. Data' /\ Marks'
    BY <1>0, <2>1, <2>2 DEF Data, Marks, world, outside
  <2>5. Others(t) /\ ~(HoldsMove(t)' /\ HoldsBack(t)')
    BY <2>1, <2>2, <2>3, HolderAlone DEF Others
  <2> QED BY <2>2, <2>3, <2>4, <2>5, OneTunnel
<1> QED BY <1>1, <1>2 DEF Report

\* The record of a move is saved, and the command sent, under the lock.
LEMMA RecordMoveFacts ==
  ASSUME Base, NEW t \in Tunnels, NEW seen \in Chains, NEW b \in Links \ {t},
         RecordMove(t, seen, b), seen[1] = t
  PROVE  /\ rec' \in [Tunnels -> {NoMove} \cup Moved]
         /\ move' \in [Tunnels -> MoveRecs]
         /\ \A u \in Tunnels : u # t => move'[u] = move[u] /\ rec'[u] = rec[u]
         /\ MoveShape(t)' /\ astray' \in BOOLEAN /\ theirs' \in Chains \cup {<<>>}
         /\ \/ UNCHANGED <<rec, astray, theirs>> /\ move'[t] = Idle
            \/ /\ rec'[t] = [moved |-> TRUE, backup |-> b, origin |-> seen,
                             expect |-> promoted(seen, b), unconfirmed |-> TRUE,
                             heldSaid |-> FALSE]
               /\ move'[t] = [pc |-> "sent", backup |-> b, seen |-> <<>>]
               /\ astray' = (astray \/ rec[b].moved \/ seen # chain) /\ theirs' = <<>>
<1>0. Data /\ Marks
  BY DEF Base
<1>1. CASE overLimit(t)
  <2>0. EndMove(t) /\ UNCHANGED <<rec, astray, theirs>>
    BY <1>1 DEF RecordMove
  <2>1. /\ move' \in [Tunnels -> MoveRecs] /\ move'[t] = Idle
        /\ \A u \in Tunnels : u # t => move'[u] = move[u]
        /\ MoveShape(t)'
    BY <1>0, <2>0, MoveEnds
  <2> QED BY <1>0, <2>0, <2>1 DEF Data, Marks
<1>2. CASE ~overLimit(t)
  <2> DEFINE r == [moved |-> TRUE, backup |-> b, origin |-> seen,
                   expect |-> promoted(seen, b), unconfirmed |-> TRUE, heldSaid |-> FALSE]
             m == [pc |-> "sent", backup |-> b, seen |-> <<>>]
  <2>1. /\ astray' = (astray \/ rec[b].moved \/ seen # chain) /\ theirs' = <<>>
        /\ rec' = [rec EXCEPT ![t] = r] /\ move' = [move EXCEPT ![t] = m]
    BY <1>2 DEF RecordMove
  <2>2. r \in Moved /\ r.moved
    <3>1. seen \in Headed
      BY IsHeaded
    <3> QED BY <3>1, PromotedFacts DEF Moved
  <2>3. m \in MoveRecs /\ m.pc = "sent" /\ m.backup = b
    BY DEF MoveRecs, MovePcs
  <2> HIDE DEF r, m
  <2>4. /\ rec' \in [Tunnels -> {NoMove} \cup Moved] /\ rec'[t] = r
        /\ \A u \in Tunnels : u # t => rec'[u] = rec[u]
    BY <1>0, <2>1, <2>2, RecTo
  <2>5. /\ move' \in [Tunnels -> MoveRecs] /\ move'[t] = m
        /\ \A u \in Tunnels : u # t => move'[u] = move[u]
    BY <1>0, <2>1, <2>3, MoveTo
  <2>6. MoveShape(t)'
    BY <2>2, <2>3, <2>4, <2>5 DEF MoveShape
  <2>7. astray' \in BOOLEAN
    BY <2>1
  <2> QED BY <2>1, <2>4, <2>5, <2>6, <2>7 DEF r, m
<1> QED BY <1>1, <1>2

LEMMA PlanMoveBase == ASSUME Base, NEW t \in Tunnels, PlanMove(t) PROVE Base'
<1>0. /\ Data /\ Marks /\ move[t].pc \in {"asks", "asks again"} /\ chain \in Chains
      /\ UNCHANGED <<outside, chain, check, back>>
  BY DEF Base, PlanMove, Data
<1>1. troubles' \in 0 .. MaxTroubles
  BY <1>0, TroubleFacts DEF PlanMove
<1>2. ASSUME Data', Marks', Others(t), MoveShape(t)',
             HoldsMove(t)' => HoldsMove(t) \/ ~Locked,
             back[t].pc = "sent" => (rec'[t].moved <=> rec[t].moved),
             HoldsMove(t)' => ~HoldsBack(t)
      PROVE  Base'
  <2>1. BackShape(t)' /\ (HoldsBack(t)' <=> HoldsBack(t))
    BY <1>0, <1>2, BackStays
  <2> QED BY <1>2, <2>1, OneTunnel
<1>3. CASE EndMove(t) /\ UNCHANGED <<astray, theirs>>
           /\ (UNCHANGED <<rec, attempts>> \/ confirmMoves(t, chain))
  <2>1. /\ rec' \in [Tunnels -> {NoMove} \cup Moved]
        /\ attempts' \in [Tunnels -> 0 .. attemptLimit]
        /\ rec'[t].moved = rec[t].moved /\ \A u \in Tunnels : u # t => rec'[u] = rec[u]
    BY <1>0, <1>3, ConfirmFacts DEF Data, SameWay
  <2>2. /\ move' \in [Tunnels -> MoveRecs]
        /\ \A u \in Tunnels : u # t => move'[u] = move[u]
        /\ MoveShape(t)' /\ ~HoldsMove(t)'
    BY <1>0, <1>3, MoveEnds
  <2>3. Data' /\ Marks' /\ Others(t)
    BY <1>0, <1>1, <1>3, <2>1, <2>2 DEF Data, Marks, Others, outside
  <2> QED BY <1>2, <2>1, <2>2, <2>3
<1>4. CASE /\ UNCHANGED attempts /\ chain[1] = t /\ Alive(t) # {}
           /\ RecordMove(t, chain, pickBackup(t)) /\ ~(move[t].pc = "asks" /\ Locked)
  <2>1. pickBackup(t) \in Links \ {t}
    BY <1>0, <1>4, PickBackupFacts
  <2>2. /\ rec' \in [Tunnels -> {NoMove} \cup Moved]
        /\ move' \in [Tunnels -> MoveRecs]
        /\ \A u \in Tunnels : u # t => move'[u] = move[u] /\ rec'[u] = rec[u]
        /\ MoveShape(t)' /\ astray' \in BOOLEAN /\ theirs' \in Chains \cup {<<>>}
    BY <1>0, <1>4, <2>1, RecordMoveFacts
  <2>3. Data' /\ Marks' /\ Others(t)
    BY <1>0, <1>1, <1>4, <2>2 DEF Data, Marks, Others, outside
  <2>4. HoldsMove(t) \/ ~Locked
    BY <1>0, <1>4 DEF HoldsMove
  <2>5. back[t].pc # "sent" /\ ~HoldsBack(t)
    BY <2>4, HolderAlone DEF HoldsBack
  <2> QED BY <1>2, <2>2, <2>3, <2>4, <2>5
<1>5. CASE move' = [move EXCEPT ![t].pc = "waits"] /\ UNCHANGED <<rec, astray, theirs, attempts>>
  <2>1. /\ move' \in [Tunnels -> MoveRecs] /\ move'[t].pc = "waits"
        /\ move'[t].backup = move[t].backup /\ \A u \in Tunnels : u # t => move'[u] = move[u]
    BY <1>0, <1>5, MovePc DEF MovePcs
  <2>2. MoveShape(t)' /\ ~HoldsMove(t)'
    <3>1. MoveShape(t)
      BY DEF Base
    <3> QED BY <1>0, <2>1, <3>1 DEF MoveShape, HoldsMove
  <2>3. Data' /\ Marks' /\ Others(t)
    BY <1>0, <1>1, <1>5, <2>1 DEF Data, Marks, Others, outside
  <2> QED BY <1>2, <1>5, <2>2, <2>3
<1>6. CASE /\ chain[1] = t /\ Alive(t) # {} /\ UNCHANGED <<rec, astray, theirs, attempts>>
           /\ move' = [move EXCEPT ![t] = [pc |-> "late", backup |-> pickBackup(t), seen |-> chain]]
  <2> DEFINE m == [pc |-> "late", backup |-> pickBackup(t), seen |-> chain]
  <2>1. m \in MoveRecs /\ m.pc = "late" /\ m.backup \in Links \ {t} /\ m.seen = chain
    <3>1. pickBackup(t) \in Links \ {t}
      BY <1>0, <1>6, PickBackupFacts
    <3> QED BY <1>0, <3>1 DEF MoveRecs, MovePcs
  <2> HIDE DEF m
  <2>2. /\ move' \in [Tunnels -> MoveRecs] /\ move'[t] = m
        /\ \A u \in Tunnels : u # t => move'[u] = move[u]
    BY <1>0, <1>6, <2>1, MoveTo DEF m
  <2>3. MoveShape(t)' /\ ~HoldsMove(t)'
    BY <1>0, <1>6, <2>1, <2>2 DEF MoveShape, HoldsMove
  <2>4. Data' /\ Marks' /\ Others(t)
    BY <1>0, <1>1, <1>6, <2>2 DEF Data, Marks, Others, outside
  <2> QED BY <1>2, <1>6, <2>3, <2>4
<1> QED BY <1>3, <1>4, <1>5, <1>6 DEF PlanMove

LEMMA LateSnapshotBase == ASSUME Base, NEW t \in Tunnels, LateSnapshot(t) PROVE Base'
<1>0. /\ Data /\ Marks /\ move[t].pc = "late"
      /\ UNCHANGED <<outside, chain, check, attempts, back, troubles>>
      /\ move[t].seen \in Chains /\ move[t].seen[1] = t /\ move[t].backup \in Links \ {t}
  BY DEF Base, LateSnapshot, MoveShape
<1>1. CASE Locked
  <2> DEFINE m == [Idle EXCEPT !.pc = "waits"]
  <2>1. m \in MoveRecs /\ m.pc = "waits" /\ m.backup = ""
    BY IdleFacts DEF MoveRecs, MovePcs
  <2>2. move' = [move EXCEPT ![t] = m] /\ UNCHANGED <<rec, astray, theirs>>
    BY <1>1 DEF LateSnapshot
  <2> HIDE DEF m
  <2>3. /\ move' \in [Tunnels -> MoveRecs] /\ move'[t] = m
        /\ \A u \in Tunnels : u # t => move'[u] = move[u]
    BY <1>0, <2>1, <2>2, MoveTo
  <2>4. MoveShape(t)' /\ ~HoldsMove(t)'
    BY <2>1, <2>3 DEF MoveShape, HoldsMove
  <2>5. BackShape(t)' /\ (HoldsBack(t)' <=> HoldsBack(t))
    BY <1>0, <2>2, BackStays
  <2>6. Data' /\ Marks' /\ Others(t)
    BY <1>0, <2>2, <2>3 DEF Data, Marks, Others, outside
  <2>7. HoldsBack(t)' => HoldsBack(t) \/ ~Locked
    BY <2>5
  <2> QED BY <2>4, <2>5, <2>6, <2>7, OneTunnel
<1>2. CASE ~Locked
  <2>1. RecordMove(t, move[t].seen, move[t].backup)
    BY <1>2 DEF LateSnapshot
  <2>2. /\ rec' \in [Tunnels -> {NoMove} \cup Moved]
        /\ move' \in [Tunnels -> MoveRecs]
        /\ \A u \in Tunnels : u # t => move'[u] = move[u] /\ rec'[u] = rec[u]
        /\ MoveShape(t)' /\ astray' \in BOOLEAN /\ theirs' \in Chains \cup {<<>>}
    BY <1>0, <2>1, RecordMoveFacts
  <2>3. Data' /\ Marks' /\ Others(t)
    BY <1>0, <2>2 DEF Data, Marks, Others, outside
  <2>4. back[t].pc # "sent" /\ ~HoldsBack(t)
    BY <1>2, HolderAlone DEF HoldsBack
  <2>5. BackShape(t)' /\ (HoldsBack(t)' <=> HoldsBack(t))
    BY <1>0, <2>4, BackStays
  <2> QED BY <1>2, <2>2, <2>3, <2>4, <2>5, OneTunnel
<1> QED BY <1>1, <1>2

LEMMA MoveGetsLockBase == ASSUME Base, NEW t \in Tunnels, MoveGetsLock(t) PROVE Base'
<1>0. /\ Data /\ Marks /\ move[t].pc = "waits" /\ MoveShape(t)
      /\ UNCHANGED <<world, chain, check, rec, attempts, back, troubles>>
  BY DEF Base, MoveGetsLock
<1>1. /\ move' \in [Tunnels -> MoveRecs] /\ MoveShape(t)'
      /\ \A u \in Tunnels : u # t => move'[u] = move[u]
      /\ HoldsMove(t)' => ~Locked
  <2>1. CASE Locked
    BY <1>0, <2>1, MoveEnds DEF MoveGetsLock
  <2>2. CASE ~Locked
    <3>1. /\ move' \in [Tunnels -> MoveRecs] /\ move'[t].pc = "asks again"
          /\ move'[t].backup = move[t].backup
          /\ \A u \in Tunnels : u # t => move'[u] = move[u]
      BY <1>0, <2>2, MovePc DEF MoveGetsLock, MovePcs
    <3> QED BY <1>0, <2>2, <3>1 DEF MoveShape
  <2> QED BY <2>1, <2>2
<1>2. BackShape(t)' /\ (HoldsBack(t)' <=> HoldsBack(t))
  BY <1>0, BackStays
<1>3. Data' /\ Marks' /\ Others(t)
  BY <1>0, <1>1 DEF Data, Marks, Others, world, outside
<1>4. ~(HoldsMove(t)' /\ HoldsBack(t)')
  BY <1>1, <1>2, HolderAlone
<1> QED BY <1>1, <1>2, <1>3, <1>4, OneTunnel

\* What the answer to a move makes of its record.
LEMMA MoveAnsweredFacts ==
  ASSUME Base, NEW t \in Tunnels, MoveAnswered(t)
  PROVE  /\ move[t].pc = "sent" /\ EndMove(t) /\ UNCHANGED <<outside, theirs, check, back>>
         /\ \E a \in Answers :
              /\ Promotion(t, move[t].backup, a)
              /\ a = "refusal" => rec'[t] = NoMove
              /\ a # "refusal" => SameWay(t)
         /\ rec' \in [Tunnels -> {NoMove} \cup Moved]
         /\ attempts' \in [Tunnels -> 0 .. attemptLimit]
         /\ \A u \in Tunnels : u # t => rec'[u] = rec[u]
<1>0. /\ move[t].pc = "sent" /\ EndMove(t) /\ UNCHANGED <<outside, theirs, check, back>>
      /\ Data /\ rec[t].moved
  BY DEF Base, MoveAnswered, MoveShape
<1>1. PICK a \in Answers :
       /\ Promotion(t, move[t].backup, a)
       /\ CASE a = "ok" ->
                 /\ rec' = [rec EXCEPT ![t].unconfirmed = FALSE]
                 /\ attempts' = countAttempt(t)
            [] a = "silence" -> UNCHANGED <<rec, attempts>>
            [] a = "refusal" -> rec' = [rec EXCEPT ![t] = NoMove] /\ UNCHANGED attempts
  BY DEF MoveAnswered
<1>2. CASE a = "ok"
  <2>1. rec' = [rec EXCEPT ![t].unconfirmed = FALSE] /\ attempts' = countAttempt(t)
    BY <1>1, <1>2
  <2>2. /\ rec' \in [Tunnels -> {NoMove} \cup Moved] /\ SameWay(t)
        /\ \A u \in Tunnels : u # t => rec'[u] = rec[u]
    BY <1>0, <2>1, RecConfirmed
  <2>3. attempts' \in [Tunnels -> 0 .. attemptLimit]
    BY <1>0, <2>1, AttemptsCounted
  <2> QED BY <1>0, <1>1, <1>2, <2>2, <2>3
<1>3. CASE a = "silence"
  BY <1>0, <1>1, <1>3 DEF Data, SameWay
<1>4. CASE a = "refusal"
  <2>1. rec' = [rec EXCEPT ![t] = NoMove] /\ UNCHANGED attempts
    BY <1>1, <1>4
  <2>2. /\ rec' \in [Tunnels -> {NoMove} \cup Moved] /\ rec'[t] = NoMove
        /\ \A u \in Tunnels : u # t => rec'[u] = rec[u]
    BY <1>0, <2>1, RecTo
  <2> QED BY <1>0, <1>1, <1>4, <2>1, <2>2 DEF Data
<1> QED BY <1>2, <1>3, <1>4 DEF Answers

LEMMA MoveAnsweredBase == ASSUME Base, NEW t \in Tunnels, MoveAnswered(t) PROVE Base'
<1>0. /\ Data /\ Marks /\ move[t].pc = "sent" /\ move[t].backup \in Links
      /\ EndMove(t) /\ UNCHANGED <<outside, theirs, check, back>>
      /\ rec' \in [Tunnels -> {NoMove} \cup Moved]
      /\ attempts' \in [Tunnels -> 0 .. attemptLimit]
      /\ \A u \in Tunnels : u # t => rec'[u] = rec[u]
  BY MoveAnsweredFacts DEF Base, MoveShape
<1>1. chain' \in Chains /\ astray' \in BOOLEAN /\ troubles' \in 0 .. MaxTroubles
  <2>1. \E a \in Answers : Promotion(t, move[t].backup, a)
    BY MoveAnsweredFacts
  <2> QED BY <1>0, <2>1, PromotionFacts
<1>2. /\ move' \in [Tunnels -> MoveRecs] /\ MoveShape(t)' /\ ~HoldsMove(t)'
      /\ \A u \in Tunnels : u # t => move'[u] = move[u]
  BY <1>0, MoveEnds
<1>3. ~HoldsBack(t) /\ back[t].pc # "sent"
  BY <1>0, HolderAlone DEF HoldsMove, HoldsBack
<1>4. BackShape(t)' /\ (HoldsBack(t)' <=> HoldsBack(t))
  BY <1>0, <1>3, BackStays
<1>5. Data' /\ Marks' /\ Others(t)
  BY <1>0, <1>1, <1>2 DEF Data, Marks, Others, outside
<1> QED BY <1>2, <1>4, <1>5, <1>3, OneTunnel

LEMMA ReturnGetsLockBase == ASSUME Base, NEW t \in Tunnels, ReturnGetsLock(t) PROVE Base'
<1>0. /\ Data /\ Marks /\ back[t].pc = "waits" /\ BackShape(t)
      /\ UNCHANGED <<world, chain, check, rec, attempts, move, troubles>>
  BY DEF Base, ReturnGetsLock
<1>1. /\ back' \in [Tunnels -> BackRecs] /\ BackShape(t)'
      /\ \A u \in Tunnels : u # t => back'[u] = back[u]
      /\ HoldsBack(t)' => ~Locked
  <2>1. CASE Locked
    BY <1>0, <2>1, BackEnds DEF ReturnGetsLock
  <2>2. CASE ~Locked
    <3>1. /\ back' \in [Tunnels -> BackRecs] /\ back'[t].pc = "asks"
          /\ back'[t].plan = back[t].plan
          /\ \A u \in Tunnels : u # t => back'[u] = back[u]
      BY <1>0, <2>2, BackPc DEF ReturnGetsLock, BackPcs
    <3> QED BY <1>0, <2>2, <3>1 DEF BackShape
  <2> QED BY <2>1, <2>2
<1>2. MoveShape(t)' /\ (HoldsMove(t)' <=> HoldsMove(t))
  BY <1>0, MoveStays
<1>3. Data' /\ Marks' /\ Others(t)
  BY <1>0, <1>1 DEF Data, Marks, Others, world, outside
<1>4. ~(HoldsMove(t)' /\ HoldsBack(t)')
  BY <1>1, <1>2, HolderAlone
<1> QED BY <1>1, <1>2, <1>3, <1>4, OneTunnel

\* What the plan of a return does: it ends the return, or sends the command.
LEMMA PlanReturnFacts ==
  ASSUME Base, NEW t \in Tunnels, PlanReturn(t)
  PROVE  /\ back[t].pc = "asks" /\ UNCHANGED <<outside, theirs, chain, check, move, attempts>>
         /\ troubles' \in 0 .. MaxTroubles /\ astray' \in BOOLEAN /\ (astray => astray')
         /\ rec' \in [Tunnels -> {NoMove} \cup Moved] /\ back' \in [Tunnels -> BackRecs]
         /\ Others(t) /\ BackShape(t)'
         /\ \/ EndBack(t) /\ SameWay(t)
            \/ /\ EndBack(t) /\ rec'[t] = NoMove /\ rec[t].moved
               /\ classify(t, chain) \in {"foreign", "not done"}
            \/ /\ UNCHANGED rec /\ rec[t].moved /\ classify(t, chain) = "ready"
               /\ back'[t] = [pc |-> "sent", cur |-> chain,
                              plan |-> restorePlan(chain, rec[t].origin)]
               /\ LosesOrder(restorePlan(chain, rec[t].origin), chain, rec[t].origin) => astray'
<1>0. /\ Data /\ Marks /\ back[t].pc = "asks" /\ chain \in Chains /\ astray \in BOOLEAN
      /\ UNCHANGED <<outside, theirs, chain, check, attempts, move>>
  BY DEF Base, PlanReturn, Data, Marks
<1>1. troubles' \in 0 .. MaxTroubles
  BY <1>0, TroubleFacts DEF PlanReturn
<1>2. CASE EndBack(t) /\ UNCHANGED <<rec, astray>>
  BY <1>0, <1>1, <1>2, BackEnds DEF Data, SameWay, Others
<1>3. CASE /\ rec[t].moved /\ classify(t, chain) \in {"foreign", "not done"}
           /\ EndBack(t) /\ rec' = [rec EXCEPT ![t] = NoMove] /\ UNCHANGED astray
  BY <1>0, <1>1, <1>3, BackEnds, RecTo DEF Others
<1>4. CASE /\ rec[t].moved /\ classify(t, chain) = "ready" /\ EndBack(t) /\ UNCHANGED astray
           /\ rec' = [rec EXCEPT ![t].heldSaid = TRUE, ![t].unconfirmed = FALSE]
  <2> DEFINE r == [rec[t] EXCEPT !.heldSaid = TRUE, !.unconfirmed = FALSE]
  <2>1. rec[t] \in Moved
    BY <1>0, <1>4, MovedRecord
  <2>2. r \in Moved /\ r.moved = rec[t].moved /\ r.backup = rec[t].backup
        /\ r.origin = rec[t].origin /\ r.expect = rec[t].expect
    BY <2>1 DEF Moved
  <2>3. rec' = [rec EXCEPT ![t] = r]
    BY <1>0, <1>4 DEF Data
  <2> HIDE DEF r
  <2>4. /\ rec' \in [Tunnels -> {NoMove} \cup Moved] /\ SameWay(t)
        /\ \A u \in Tunnels : u # t => rec'[u] = rec[u]
    BY <1>0, <2>2, <2>3, RecTo DEF SameWay
  <2> QED BY <1>0, <1>1, <1>4, <2>4, BackEnds DEF Others
<1> DEFINE p == restorePlan(chain, rec[t].origin)
           b == [pc |-> "sent", cur |-> chain, plan |-> p]
           loses == LosesOrder(p, chain, rec[t].origin)
<1>5. CASE /\ rec[t].moved /\ classify(t, chain) = "ready" /\ UNCHANGED rec
           /\ back' = [back EXCEPT ![t] = b] /\ astray' = (astray \/ loses)
  <2>1. p \in Seq(Links)
    <3>1. rec[t].origin \in Headed /\ rec[t].origin \in Chains
      BY <1>0, <1>5, MovedRecord
    <3>2. PICK m \in 0 .. N : p = PlanOf(rec[t].origin, m) /\ Plain(rec[t].origin, m)
      BY <1>0, <3>1, RestorePlanFacts
    <3> QED BY <3>1, <3>2, PlanType
  <2> HIDE DEF p, loses
  <2>2. b \in BackRecs /\ b.pc = "sent" /\ b.cur = chain
    BY <1>0, <2>1 DEF BackRecs, BackPcs
  <2> HIDE DEF b
  <2>3. /\ back' \in [Tunnels -> BackRecs] /\ back'[t] = b
        /\ \A u \in Tunnels : u # t => back'[u] = back[u]
    BY <1>0, <1>5, <2>2, BackTo
  <2>4. BackShape(t)'
    BY <1>0, <1>5, <2>2, <2>3 DEF BackShape
  <2>5. astray' \in BOOLEAN /\ (astray => astray') /\ (loses => astray')
    BY <1>0, <1>5 DEF loses, LosesOrder
  <2>6. rec' \in [Tunnels -> {NoMove} \cup Moved] /\ Others(t)
    BY <1>0, <1>5, <2>3 DEF Data, Others
  <2> QED BY <1>0, <1>1, <1>5, <2>3, <2>4, <2>5, <2>6 DEF b, p, loses
<1> HIDE DEF p, b, loses
<1>6. \/ EndBack(t) /\ UNCHANGED <<rec, astray>>
      \/ /\ rec[t].moved /\ classify(t, chain) \in {"foreign", "not done"}
         /\ EndBack(t) /\ rec' = [rec EXCEPT ![t] = NoMove] /\ UNCHANGED astray
      \/ /\ rec[t].moved /\ classify(t, chain) = "ready" /\ EndBack(t) /\ UNCHANGED astray
         /\ rec' = [rec EXCEPT ![t].heldSaid = TRUE, ![t].unconfirmed = FALSE]
      \/ /\ rec[t].moved /\ classify(t, chain) = "ready" /\ UNCHANGED rec
         /\ back' = [back EXCEPT ![t] = b] /\ astray' = (astray \/ loses)
  <2>1. classify(t, chain) \in {"ready", "not done", "waiting", "foreign"}
    BY DEF classify
  <2> QED BY <2>1 DEF PlanReturn, p, b, loses
<1> QED BY <1>2, <1>3, <1>4, <1>5, <1>6

LEMMA PlanReturnBase == ASSUME Base, NEW t \in Tunnels, PlanReturn(t) PROVE Base'
<1>0. /\ back[t].pc = "asks" /\ UNCHANGED <<outside, theirs, chain, check, move, attempts>>
      /\ troubles' \in 0 .. MaxTroubles /\ astray' \in BOOLEAN
      /\ rec' \in [Tunnels -> {NoMove} \cup Moved] /\ back' \in [Tunnels -> BackRecs]
      /\ Others(t) /\ BackShape(t)' /\ Data /\ Marks
  BY PlanReturnFacts DEF Base
<1>1. HoldsBack(t) /\ ~HoldsMove(t) /\ move[t].pc # "sent"
  BY <1>0, HolderAlone DEF HoldsBack, HoldsMove
<1>2. MoveShape(t)' /\ (HoldsMove(t)' <=> HoldsMove(t))
  BY <1>0, <1>1, MoveStays
<1>3. Data' /\ Marks'
  BY <1>0 DEF Data, Marks, world, outside
<1> QED BY <1>0, <1>1, <1>2, <1>3, OneTunnel

\* What the answer to a promotion of a return does.
LEMMA ReturnAnsweredFacts ==
  ASSUME Base, NEW t \in Tunnels, ReturnAnswered(t)
  PROVE  /\ back[t].pc = "sent" /\ back[t].plan # <<>> /\ Head(back[t].plan) \in Links
         /\ UNCHANGED <<outside, theirs, check, attempts, move>>
         /\ rec' \in [Tunnels -> {NoMove} \cup Moved] /\ back' \in [Tunnels -> BackRecs]
         /\ Others(t) /\ BackShape(t)' /\ rec'[t].moved
         /\ \E a \in Answers :
              /\ Promotion(t, Head(back[t].plan), a)
              /\ \/ /\ a = "ok" /\ UNCHANGED rec /\ back'[t].pc = "sent"
                    /\ back'[t].plan = Tail(back[t].plan)
                    /\ back'[t].cur = promoted(back[t].cur, Head(back[t].plan))
                 \/ /\ a # "ok" /\ EndBack(t)
                    /\ rec'[t].backup = rec[t].backup /\ rec'[t].origin = rec[t].origin
                    /\ rec'[t].expect = back[t].cur
<1>0. /\ Data /\ Marks /\ back[t].pc = "sent" /\ back[t].plan # <<>> /\ rec[t].moved
      /\ back[t].cur \in Chains /\ UNCHANGED <<outside, theirs, check, attempts, move>>
  BY DEF Base, ReturnAnswered, BackShape
<1>1. PICK a \in Answers :
       /\ Promotion(t, Head(back[t].plan), a)
       /\ IF a = "ok"
          THEN /\ back' = [back EXCEPT ![t].plan = Tail(@),
                                       ![t].cur = promoted(@, Head(back[t].plan))]
               /\ UNCHANGED rec
          ELSE /\ rec' = [rec EXCEPT ![t].expect = back[t].cur, ![t].unconfirmed = FALSE]
               /\ EndBack(t)
  BY DEF ReturnAnswered
<1>2. /\ back[t] \in BackRecs /\ back[t].plan \in Seq(Links)
      /\ Head(back[t].plan) \in Links /\ Tail(back[t].plan) \in Seq(Links)
  <2>1. back[t] \in BackRecs /\ back[t].plan \in Seq(Links)
    BY <1>0 DEF Data, BackRecs
  <2>2. ASSUME NEW s \in Seq(Links), s # <<>> PROVE Head(s) \in Links /\ Tail(s) \in Seq(Links)
    BY <2>2, HeadTailProperties
  <2> QED BY <1>0, <2>1, <2>2
<1>3. CASE a = "ok"
  <2> DEFINE d == promoted(back[t].cur, Head(back[t].plan))
             s == Tail(back[t].plan)
             b == [back[t] EXCEPT !.plan = s, !.cur = d]
  <2>1. d \in Chains
    BY <1>0, <1>2, PromotedFacts
  <2>2. s \in Seq(Links) /\ back' = [back EXCEPT ![t] = b]
    BY <1>0, <1>1, <1>2, <1>3 DEF Data
  <2> HIDE DEF d, s
  <2>3. b \in BackRecs /\ b.pc = "sent" /\ b.cur = d /\ b.plan = s
    BY <1>0, <1>2, <2>1, <2>2 DEF BackRecs
  <2> HIDE DEF b
  <2>4. /\ back' \in [Tunnels -> BackRecs] /\ back'[t] = b
        /\ \A u \in Tunnels : u # t => back'[u] = back[u]
    BY <1>0, <2>2, <2>3, BackTo
  <2>5. UNCHANGED rec
    BY <1>1, <1>3
  <2>6. BackShape(t)'
    BY <1>0, <2>1, <2>3, <2>4, <2>5 DEF BackShape
  <2> QED BY <1>0, <1>1, <1>2, <1>3, <2>3, <2>4, <2>5, <2>6 DEF d, s, Data, Others
<1>4. CASE a # "ok"
  <2> DEFINE r == [rec[t] EXCEPT !.expect = back[t].cur, !.unconfirmed = FALSE]
  <2>1. rec[t] \in Moved
    BY <1>0, MovedRecord
  <2>2. r \in Moved /\ r.moved /\ r.backup = rec[t].backup
        /\ r.origin = rec[t].origin /\ r.expect = back[t].cur
    BY <1>0, <2>1 DEF Moved
  <2>3. rec' = [rec EXCEPT ![t] = r]
    BY <1>0, <1>1, <1>4 DEF Data
  <2> HIDE DEF r
  <2>4. /\ rec' \in [Tunnels -> {NoMove} \cup Moved] /\ rec'[t] = r
        /\ \A u \in Tunnels : u # t => rec'[u] = rec[u]
    BY <1>0, <2>2, <2>3, RecTo
  <2>5. EndBack(t)
    BY <1>1, <1>4
  <2> QED BY <1>0, <1>1, <1>2, <1>4, <2>2, <2>4, <2>5, BackEnds DEF Others
<1> QED BY <1>3, <1>4

LEMMA ReturnAnsweredBase == ASSUME Base, NEW t \in Tunnels, ReturnAnswered(t) PROVE Base'
<1>0. /\ back[t].pc = "sent" /\ Head(back[t].plan) \in Links
      /\ UNCHANGED <<outside, theirs, check, attempts, move>>
      /\ rec' \in [Tunnels -> {NoMove} \cup Moved] /\ back' \in [Tunnels -> BackRecs]
      /\ Others(t) /\ BackShape(t)' /\ Data /\ Marks
  BY ReturnAnsweredFacts DEF Base
<1>1. chain' \in Chains /\ astray' \in BOOLEAN /\ troubles' \in 0 .. MaxTroubles
  <2>1. \E a \in Answers : Promotion(t, Head(back[t].plan), a)
    BY ReturnAnsweredFacts
  <2> QED BY <1>0, <2>1, PromotionFacts
<1>2. HoldsBack(t) /\ ~HoldsMove(t) /\ move[t].pc # "sent"
  BY <1>0, HolderAlone DEF HoldsBack, HoldsMove
<1>3. MoveShape(t)' /\ (HoldsMove(t)' <=> HoldsMove(t))
  BY <1>0, <1>2, MoveStays
<1>4. Data' /\ Marks'
  BY <1>0, <1>1 DEF Data, Marks, outside
<1> QED BY <1>0, <1>2, <1>3, <1>4, OneTunnel

LEMMA ReturnedBase == ASSUME Base, NEW t \in Tunnels, Returned(t) PROVE Base'
<1>0. /\ Data /\ Marks /\ back[t].pc = "sent" /\ EndBack(t)
      /\ rec' = [rec EXCEPT ![t] = NoMove] /\ attempts' = countAttempt(t)
      /\ UNCHANGED <<world, chain, check, move, troubles>>
  BY DEF Base, Returned
<1>1. /\ rec' \in [Tunnels -> {NoMove} \cup Moved]
      /\ \A u \in Tunnels : u # t => rec'[u] = rec[u]
  BY <1>0, RecTo
<1>2. /\ back' \in [Tunnels -> BackRecs] /\ BackShape(t)' /\ ~HoldsBack(t)'
      /\ \A u \in Tunnels : u # t => back'[u] = back[u]
  BY <1>0, BackEnds
<1>3. attempts' \in [Tunnels -> 0 .. attemptLimit]
  BY <1>0, AttemptsCounted
<1>4. HoldsBack(t) /\ ~HoldsMove(t) /\ move[t].pc # "sent"
  BY <1>0, HolderAlone DEF HoldsBack, HoldsMove
<1>5. MoveShape(t)' /\ (HoldsMove(t)' <=> HoldsMove(t))
  BY <1>0, <1>4, MoveStays
<1>6. Data' /\ Marks' /\ Others(t)
  BY <1>0, <1>1, <1>2, <1>3 DEF Data, Marks, Others, world, outside
<1> QED BY <1>2, <1>4, <1>5, <1>6, OneTunnel

\* The steps that leave the records, the moves and the returns alone.
LEMMA StillBase ==
  ASSUME Base, Data', Marks', UNCHANGED <<rec, move, back>>
  PROVE  Base'
BY DEF Base, OneHolder, HoldsMove, HoldsBack, MoveShape, BackShape

LEMMA WindowPassesBase == ASSUME Base, NEW t \in Tunnels, WindowPasses(t) PROVE Base'
<1>0. /\ Data /\ Marks /\ attempts[t] > 0 /\ attempts' = [attempts EXCEPT ![t] = @ - 1]
      /\ UNCHANGED <<world, chain, check, rec, move, back, troubles>>
  BY DEF Base, WindowPasses
<1>1. attempts' \in [Tunnels -> 0 .. attemptLimit]
  <2>1. attemptLimit \in Nat /\ attempts \in [Tunnels -> 0 .. attemptLimit]
    BY <1>0, MoveConstants DEF Data
  <2>2. attempts[t] - 1 \in 0 .. attemptLimit
    BY <1>0, <2>1
  <2> QED BY <1>0, <2>1, <2>2
<1>2. Data' /\ Marks'
  BY <1>0, <1>1 DEF Data, Marks, world, outside
<1> QED BY <1>0, <1>2, StillBase

LEMMA OutsideBase == ASSUME Base, NEW t \in Tunnels, Break(t) \/ Mend(t) PROVE Base'
<1>0. /\ Data /\ Marks
      /\ UNCHANGED <<chain, check, rec, attempts, move, back, edited, astray, theirs, troubles>>
  BY DEF Base, Break, Mend
<1>1. up' \subseteq Tunnels /\ breaks' \in 0 .. MaxBreaks
  <2>1. MaxBreaks \in Nat /\ breaks \in 0 .. MaxBreaks /\ up \subseteq Tunnels
    BY <1>0, MoveConstants DEF Marks
  <2>2. breaks' = breaks \/ (breaks < MaxBreaks /\ breaks' = breaks + 1)
    BY DEF Break, Mend
  <2> QED BY <2>1, <2>2 DEF Break, Mend
<1>2. Data' /\ Marks'
  BY <1>0, <1>1 DEF Data, Marks
<1> QED BY <1>0, <1>2, StillBase

LEMMA RestartBase ==
  ASSUME Base, Restart
  PROVE  Base' /\ \A t \in Tunnels : move'[t] = Idle /\ back'[t] = IdleBack
<1>0. /\ Data /\ Marks /\ UNCHANGED <<outside, theirs, check, rec, attempts>>
      /\ chain' \in {chain} \cup {promoted(chain, id) : id \in Underway}
      /\ move' = [t \in Tunnels |-> Idle] /\ back' = [t \in Tunnels |-> IdleBack]
  BY DEF Base, Restart
<1>1. Underway \subseteq Links
  <2>1. ASSUME NEW t \in Tunnels, move[t].pc = "sent" PROVE move[t].backup \in Links
    BY <2>1 DEF Base, MoveShape
  <2>2. ASSUME NEW t \in Tunnels, back[t].plan # <<>> PROVE Head(back[t].plan) \in Links
    <3>1. back[t].plan \in Seq(Links)
      BY <1>0 DEF Data, BackRecs
    <3>2. ASSUME NEW s \in Seq(Links), s # <<>> PROVE Head(s) \in Links
      BY <3>2, HeadTailProperties
    <3> QED BY <2>2, <3>1, <3>2
  <2> QED BY <2>1, <2>2 DEF Underway
<1>2. chain' \in Chains
  BY <1>0, <1>1, PromotedFacts DEF Data
<1>3. astray' \in BOOLEAN /\ troubles' \in 0 .. MaxTroubles
  <2>1. astray' = (astray \/ \E t \in Tunnels : Midway(t)) /\ astray \in BOOLEAN
    BY <1>0 DEF Restart, Marks
  <2> QED BY <1>0, <2>1, TroubleFacts DEF Restart
<1>4. /\ move' \in [Tunnels -> MoveRecs] /\ back' \in [Tunnels -> BackRecs]
      /\ \A t \in Tunnels : move'[t] = Idle /\ back'[t] = IdleBack
  BY <1>0, IdleFacts
<1>5. Data' /\ Marks'
  BY <1>0, <1>2, <1>3, <1>4 DEF Data, Marks, outside
<1> QED BY <1>4, <1>5, IdleFacts DEF Base, OneHolder, HoldsMove, HoldsBack, MoveShape, BackShape

LEMMA EditBase == ASSUME Base, Edit PROVE Base'
<1>0. /\ Data /\ Marks /\ edited' = TRUE
      /\ UNCHANGED <<up, breaks, astray, check, rec, attempts, move, back>>
  BY DEF Base, Edit
<1>1. chain' \in Chains
  <2>1. chain \in Chains /\ DOMAIN chain = 1 .. N
    <3>1. chain \in Chains /\ chain \in [1 .. N -> Ids]
      BY <1>0, ChainFacts DEF Data
    <3> QED BY <3>1
  <2>2. PICK i \in 1 .. N : chain' = toFront(chain, i)
    BY <2>1 DEF Edit
  <2> QED BY <2>1, <2>2, ToFrontFacts
<1>2. theirs' \in Chains \cup {<<>>} /\ troubles' \in 0 .. MaxTroubles
  <2>1. theirs' = chain' \/ theirs' = <<>>
    BY DEF Edit
  <2> QED BY <1>0, <1>1, <2>1, TroubleFacts DEF Edit
<1>3. Data' /\ Marks'
  BY <1>0, <1>1, <1>2 DEF Data, Marks
<1> QED BY <1>0, <1>3, StillBase

LEMMA InitBase == Init => Base
<1> SUFFICES ASSUME Init PROVE Base
  OBVIOUS
<1>1. Data
  <2>1. 0 \in 0 .. attemptLimit
    <3>1. attemptLimit \in Nat
      BY MoveConstants
    <3> QED BY <3>1
  <2> QED BY <2>1, HomeChain, IdleFacts DEF Init, Data
<1>2. Marks
  <2>1. 0 \in 0 .. MaxBreaks /\ MaxTroubles \in 0 .. MaxTroubles
    <3>1. MaxBreaks \in Nat /\ MaxTroubles \in Nat
      BY MoveConstants
    <3> QED BY <3>1
  <2> QED BY <2>1 DEF Init, Marks
<1>3. \A t \in Tunnels : move[t] = Idle /\ back[t] = IdleBack
  BY DEF Init
<1> QED BY <1>1, <1>2, <1>3, IdleFacts
    DEF Base, OneHolder, HoldsMove, HoldsBack, MoveShape, BackShape

LEMMA NextBase == Base /\ [Next]_vars => Base'
<1> SUFFICES ASSUME Base, [Next]_vars PROVE Base'
  OBVIOUS
<1>1. CASE UNCHANGED vars
  BY <1>1 DEF vars, Base, Data, Marks, OneHolder, HoldsMove, HoldsBack, MoveShape, BackShape
<1>2. ASSUME NEW t \in Tunnels, Report(t) PROVE Base'
  BY <1>2, ReportBase
<1>3. ASSUME NEW t \in Tunnels, Moving(t) PROVE Base'
  BY <1>3, PlanMoveBase, LateSnapshotBase, MoveGetsLockBase, MoveAnsweredBase DEF Moving
<1>4. ASSUME NEW t \in Tunnels, Returning(t) PROVE Base'
  BY <1>4, ReturnGetsLockBase, PlanReturnBase, ReturnAnsweredBase, ReturnedBase DEF Returning
<1>5. ASSUME NEW t \in Tunnels, WindowPasses(t) \/ Break(t) \/ Mend(t) PROVE Base'
  BY <1>5, WindowPassesBase, OutsideBase
<1> QED BY <1>1, <1>2, <1>3, <1>4, <1>5, RestartBase, EditBase DEF Next

LEMMA BaseIsKept == Spec => []Base
BY InitBase, NextBase, PTL DEF Spec

\* Every variable keeps its type: chains stay orders of the same tunnels
\* whatever is promoted, a move that is under way has a reserve other than its
\* own tunnel, and a return knows the chain it works on (move.go).
THEOREM MoveTypeCorrect == Spec => []MoveTypeOK
<1>1. Base => MoveTypeOK
  <2> SUFFICES ASSUME Base PROVE MoveTypeOK
    OBVIOUS
  <2>1. Data /\ Marks /\ Links \subseteq Tunnels /\ "" \notin Tunnels
    BY HomeFacts DEF Base, Past
  <2>2. ASSUME NEW t \in Tunnels
        PROVE  /\ rec[t] \in Records
               /\ move[t].pc \in {"idle", "asks", "waits", "asks again", "late", "sent"}
               /\ move[t].pc \in {"sent", "late"} <=> move[t].backup \in Tunnels \ {t}
               /\ back[t].pc \in {"idle", "waits", "asks", "sent"}
               /\ back[t].pc = "sent" =>
                    back[t].cur \in Chains /\ Range(back[t].plan) \subseteq Tunnels
    <3>1. rec[t] \in Records
      <4>1. rec[t] \in {NoMove} \cup Moved
        BY <2>1 DEF Data
      <4> QED BY <2>1, <4>1 DEF Records, Moved, Headed
    <3>2. move[t] \in MoveRecs /\ back[t] \in BackRecs /\ MoveShape(t) /\ BackShape(t)
      BY <2>1 DEF Base, Data
    <3>3. Range(back[t].plan) \subseteq Tunnels
      <4>1. back[t].plan \in Seq(Links)
        BY <3>2 DEF BackRecs
      <4>2. ASSUME NEW s \in Seq(Links) PROVE Range(s) \subseteq Links
        BY <4>2 DEF Range
      <4> QED BY <2>1, <4>1, <4>2
    <3> QED BY <2>1, <3>1, <3>2, <3>3 DEF MoveShape, BackShape, MoveRecs, BackRecs, MovePcs, BackPcs
  <2> QED BY <2>1, <2>2 DEF MoveTypeOK, Data, Marks
<1> QED BY <1>1, BaseIsKept, PTL

-----------------------------------------------------------------------------
(* The order people made.  No record explains it, and the records that stay *)
(* explain no more chains than before; a return only works on a chain that  *)
(* its record explains.                                                     *)

Untouched == theirs # <<>> => chain = theirs /\ Quiet /\ ~Ours(chain)

LEMMA FollowedType ==
  \A t \in Tunnels : Data /\ rec[t].moved =>
    \A n \in 0 .. Hops : \A w \in Followed(t)[n] : w.cur \in Links /\ w.expect \in Chains
<1> SUFFICES ASSUME NEW t \in Tunnels, Data, rec[t].moved
             PROVE  \A n \in 0 .. Hops : \A w \in Followed(t)[n] :
                      w.cur \in Links /\ w.expect \in Chains
  OBVIOUS
<1> DEFINE S == {n \in Nat : n <= Hops =>
                   \A w \in Followed(t)[n] : w.cur \in Links /\ w.expect \in Chains}
<1>0. Hops \in Nat
  BY MoveConstants
<1>1. 0 \in S
  BY <1>0, FollowedSteps, MovedRecord
<1>2. ASSUME NEW n \in Nat, n \in S PROVE n + 1 \in S
  <2> SUFFICES ASSUME n + 1 <= Hops, NEW w \in Followed(t)[n + 1]
               PROVE  w.cur \in Links /\ w.expect \in Chains
    OBVIOUS
  <2>1. n + 1 \in 0 .. Hops /\ n + 1 # 0 /\ (n + 1) - 1 = n /\ n <= Hops
    BY <1>0
  <2>2. Followed(t)[n + 1] = Further(Followed(t)[n])
    BY <2>1, FollowedSteps
  <2>3. PICK v \in Followed(t)[n] :
          /\ rec[v.cur].moved
          /\ w = [expect |-> promoted(v.expect, rec[v.cur].backup), cur |-> rec[v.cur].backup]
    BY <2>2 DEF Further
  <2>4. v.cur \in Links /\ v.expect \in Chains
    BY <1>2, <2>1
  <2>5. v.cur \in Tunnels /\ rec[v.cur].backup \in Links
    BY <2>3, <2>4, MovedRecord, HomeFacts
  <2>6. promoted(v.expect, rec[v.cur].backup) \in Chains
    BY <2>4, <2>5, PromotedFacts
  <2> QED BY <2>3, <2>5, <2>6
<1> HIDE DEF S
<1>3. Nat \subseteq S
  BY <1>1, <1>2, NaturalsOneByOne
<1> QED BY <1>0, <1>3 DEF S

\* The records that stay are as they were.
Shrinks == \A u \in Tunnels : rec'[u].moved => SameWay(u)

LEMMA FollowedStepsNext ==
  (\A t : /\ Followed(t)[0] = {[expect |-> rec[t].expect, cur |-> rec[t].backup]}
          /\ \A n \in 0 .. Hops : n # 0 => Followed(t)[n] = Further(Followed(t)[n - 1]))'
BY FollowedSteps, PTL

LEMMA CascadeShrinks ==
  ASSUME Data, Shrinks, NEW t \in Tunnels, rec'[t].moved
  PROVE  Cascade(t)' \subseteq Cascade(t)
<1>0. Hops \in Nat /\ SameWay(t) /\ rec[t].moved
  BY MoveConstants DEF Shrinks, SameWay
<1>1. /\ Followed(t)'[0] = {[expect |-> rec'[t].expect, cur |-> rec'[t].backup]}
      /\ \A n \in 0 .. Hops : n # 0 => Followed(t)'[n] = Further(Followed(t)[n - 1])'
  BY FollowedStepsNext
<1> DEFINE S == {n \in Nat : n <= Hops => Followed(t)'[n] \subseteq Followed(t)[n]}
<1>2. 0 \in S
  BY <1>0, <1>1, FollowedSteps DEF SameWay
<1>3. ASSUME NEW n \in Nat, n \in S PROVE n + 1 \in S
  <2> SUFFICES ASSUME n + 1 <= Hops, NEW w \in Followed(t)'[n + 1]
               PROVE  w \in Followed(t)[n + 1]
    OBVIOUS
  <2>1. n + 1 \in 0 .. Hops /\ n + 1 # 0 /\ (n + 1) - 1 = n /\ n <= Hops /\ n \in 0 .. Hops
    BY <1>0
  <2>2. Followed(t)[n + 1] = Further(Followed(t)[n])
    BY <2>1, FollowedSteps
  <2>3. PICK v \in Followed(t)'[n] :
          /\ rec'[v.cur].moved
          /\ w = [expect |-> promoted(v.expect, rec'[v.cur].backup), cur |-> rec'[v.cur].backup]
    BY <1>1, <2>1 DEF Further
  <2>4. v \in Followed(t)[n]
    BY <1>3, <2>1
  <2>5. v.cur \in Tunnels
    BY <1>0, <2>1, <2>4, FollowedType, HomeFacts
  <2>6. rec[v.cur].moved /\ rec'[v.cur].backup = rec[v.cur].backup
    BY <2>3, <2>5 DEF Shrinks, SameWay
  <2> QED BY <2>2, <2>3, <2>4, <2>6 DEF Further
<1> HIDE DEF S
<1>4. Nat \subseteq S
  BY <1>2, <1>3, NaturalsOneByOne
<1>5. \A n \in 1 .. Hops : Followed(t)'[n] \subseteq Followed(t)[n]
  BY <1>0, <1>4 DEF S
<1> QED BY <1>5 DEF Cascade

LEMMA TheirsFrame ==
  ASSUME Base, Untouched, UNCHANGED chain, theirs' = theirs \/ theirs' = <<>>,
         Shrinks, Quiet => Quiet'
  PROVE  Untouched'
<1> SUFFICES ASSUME theirs' # <<>> PROVE (chain = theirs /\ Quiet /\ ~Ours(chain))'
  BY DEF Untouched
<1>1. theirs' = theirs /\ chain = theirs /\ Quiet /\ ~Ours(chain) /\ Data
  BY DEF Untouched, Base
<1>2. ASSUME Ours(chain)' PROVE FALSE
  <2>1. PICK t \in Tunnels : /\ rec'[t].moved
                             /\ chain \in {rec'[t].origin, rec'[t].expect} \cup Cascade(t)'
    BY <1>2 DEF Ours
  <2>2. SameWay(t) /\ Cascade(t)' \subseteq Cascade(t)
    BY <1>1, <2>1, CascadeShrinks DEF Shrinks
  <2>3. rec[t].moved /\ chain \in {rec[t].origin, rec[t].expect} \cup Cascade(t)
    BY <2>1, <2>2 DEF SameWay
  <2> QED BY <1>1, <2>3 DEF Ours
<1> QED BY <1>1, <1>2

\* Records that change in their messages only.
LEMMA SameShrinks ==
  ASSUME NEW t \in Tunnels, SameWay(t) \/ ~rec'[t].moved,
         \A u \in Tunnels : u # t => rec'[u] = rec[u]
  PROVE  Shrinks
BY DEF Shrinks, SameWay

LEMMA ReportTheirs ==
  ASSUME Base, Untouched, NEW t \in Tunnels, Report(t)
  PROVE  Untouched'
<1>0. Data
  BY DEF Base
<1>1. CASE Hard(t) \/ AfterFailedReport(t)
  <2>1. /\ startMoveOnly(t) \/ UNCHANGED move
        /\ UNCHANGED <<world, chain, back>>
        /\ confirmMoves(t, chain) \/ UNCHANGED <<rec, attempts>>
    BY <1>1 DEF Hard, AfterFailedReport
  <2>2. SameWay(t) /\ \A u \in Tunnels : u # t => rec'[u] = rec[u]
    BY <1>0, <2>1, ConfirmFacts DEF SameWay
  <2>3. Shrinks
    BY <2>2, SameShrinks
  <2>4. Quiet => Quiet'
    <3>1. /\ \A u \in Tunnels : u # t => move'[u] = move[u]
          /\ move'[t].pc = "sent" <=> move[t].pc = "sent"
      BY <2>1, StartFacts
    <3> QED BY <2>1, <3>1 DEF Quiet
  <2> QED BY <2>1, <2>3, <2>4, TheirsFrame DEF world
<1>2. CASE Answering(t)
  <2>1. /\ UNCHANGED <<world, chain, rec, move>>
        /\ \/ UNCHANGED back
           \/ back' = [back EXCEPT ![t].pc = "waits"]
    BY <1>2 DEF Answering
  <2>2. Shrinks
    BY <2>1 DEF Shrinks, SameWay
  <2>3. Quiet => Quiet'
    <3>1. CASE back' = [back EXCEPT ![t].pc = "waits"]
      BY <1>0, <2>1, <3>1, BackPc DEF Quiet, BackPcs
    <3> QED BY <2>1, <3>1 DEF Quiet
  <2> QED BY <2>1, <2>2, <2>3, TheirsFrame DEF world
<1> QED BY <1>1, <1>2 DEF Report

\* A move that is recorded ends the order of the people.
LEMMA RecordMoveTheirs ==
  ASSUME Base, Untouched, NEW t \in Tunnels, NEW seen, NEW b, RecordMove(t, seen, b),
         UNCHANGED <<chain, back>>
  PROVE  Untouched'
<1>1. CASE overLimit(t)
  <2>1. EndMove(t) /\ UNCHANGED <<rec, theirs>>
    BY <1>1 DEF RecordMove
  <2>2. Shrinks
    BY <2>1 DEF Shrinks, SameWay
  <2>3. Quiet => Quiet'
    BY <2>1, MoveEnds DEF Quiet, Base
  <2> QED BY <2>1, <2>2, <2>3, TheirsFrame
<1>2. CASE ~overLimit(t)
  BY <1>2 DEF RecordMove, Untouched
<1> QED BY <1>1, <1>2

LEMMA MovingTheirs ==
  ASSUME Base, Untouched, NEW t \in Tunnels, Moving(t)
  PROVE  Untouched'
<1>0. Data
  BY DEF Base
<1>1. CASE PlanMove(t)
  <2>0. UNCHANGED <<chain, back>>
    BY <1>1 DEF PlanMove
  <2>1. CASE /\ EndMove(t) /\ UNCHANGED theirs
             /\ UNCHANGED <<rec, attempts>> \/ confirmMoves(t, chain)
    <3>1. SameWay(t) /\ \A u \in Tunnels : u # t => rec'[u] = rec[u]
      BY <1>0, <2>1, ConfirmFacts DEF SameWay
    <3>2. Shrinks
      BY <3>1, SameShrinks
    <3>3. Quiet => Quiet'
      BY <1>0, <2>0, <2>1, MoveEnds DEF Quiet
    <3> QED BY <2>0, <2>1, <3>2, <3>3, TheirsFrame
  <2>2. CASE RecordMove(t, chain, pickBackup(t))
    BY <2>0, <2>2, RecordMoveTheirs
  <2>3. CASE /\ UNCHANGED <<rec, theirs>>
             /\ \/ move' = [move EXCEPT ![t].pc = "waits"]
                \/ move' = [move EXCEPT ![t] = [pc |-> "late", backup |-> pickBackup(t),
                                                seen |-> chain]]
    <3>1. /\ \A u \in Tunnels : u # t => move'[u] = move[u]
          /\ move'[t].pc # "sent"
      <4>1. CASE move' = [move EXCEPT ![t].pc = "waits"]
        BY <1>0, <4>1, MovePc DEF MovePcs
      <4>2. CASE move' = [move EXCEPT ![t] = [pc |-> "late", backup |-> pickBackup(t),
                                                seen |-> chain]]
        BY <1>0, <4>2 DEF Data
      <4> QED BY <2>3, <4>1, <4>2
    <3>2. Quiet => Quiet'
      BY <2>0, <3>1 DEF Quiet
    <3>3. Shrinks
      BY <2>3 DEF Shrinks, SameWay
    <3> QED BY <2>0, <2>3, <3>2, <3>3, TheirsFrame
  <2> QED BY <1>1, <2>1, <2>2, <2>3 DEF PlanMove
<1>2. CASE LateSnapshot(t)
  <2>0. UNCHANGED <<chain, back>>
    BY <1>2 DEF LateSnapshot
  <2>1. CASE Locked
    <3> DEFINE m == [Idle EXCEPT !.pc = "waits"]
    <3>1. m.pc = "waits" /\ move' = [move EXCEPT ![t] = m] /\ UNCHANGED <<rec, theirs>>
      BY <1>2, <2>1 DEF LateSnapshot, Idle
    <3> HIDE DEF m
    <3>2. move'[t].pc # "sent" /\ \A u \in Tunnels : u # t => move'[u] = move[u]
      BY <1>0, <3>1 DEF Data
    <3>3. Shrinks /\ (Quiet => Quiet')
      BY <2>0, <3>1, <3>2 DEF Shrinks, SameWay, Quiet
    <3> QED BY <2>0, <3>1, <3>3, TheirsFrame
  <2>2. CASE ~Locked
    <3>1. RecordMove(t, move[t].seen, move[t].backup)
      BY <1>2, <2>2 DEF LateSnapshot
    <3> QED BY <2>0, <3>1, RecordMoveTheirs
  <2> QED BY <2>1, <2>2
<1>3. CASE MoveGetsLock(t)
  <2>1. UNCHANGED <<world, chain, rec, back>>
    BY <1>3 DEF MoveGetsLock
  <2>2. move'[t].pc # "sent" /\ \A u \in Tunnels : u # t => move'[u] = move[u]
    <3>1. CASE Locked
      BY <1>0, <1>3, <3>1, MoveEnds DEF MoveGetsLock
    <3>2. CASE ~Locked
      BY <1>0, <1>3, <3>2, MovePc DEF MoveGetsLock, MovePcs
    <3> QED BY <3>1, <3>2
  <2>3. Shrinks /\ (Quiet => Quiet')
    BY <2>1, <2>2 DEF Shrinks, SameWay, Quiet
  <2> QED BY <2>1, <2>3, TheirsFrame DEF world
<1>4. CASE MoveAnswered(t)
  BY <1>4 DEF MoveAnswered, Untouched, Quiet
<1> QED BY <1>1, <1>2, <1>3, <1>4 DEF Moving

LEMMA ReturningTheirs ==
  ASSUME Base, Untouched, NEW t \in Tunnels, Returning(t)
  PROVE  Untouched'
<1>0. Data
  BY DEF Base
<1>1. CASE ReturnGetsLock(t)
  <2>1. UNCHANGED <<world, chain, rec, move>>
    BY <1>1 DEF ReturnGetsLock
  <2>2. back'[t].pc # "sent" /\ \A u \in Tunnels : u # t => back'[u] = back[u]
    <3>1. CASE Locked
      BY <1>0, <1>1, <3>1, BackEnds DEF ReturnGetsLock
    <3>2. CASE ~Locked
      BY <1>0, <1>1, <3>2, BackPc DEF ReturnGetsLock, BackPcs
    <3> QED BY <3>1, <3>2
  <2>3. Shrinks /\ (Quiet => Quiet')
    BY <2>1, <2>2 DEF Shrinks, SameWay, Quiet
  <2> QED BY <2>1, <2>3, TheirsFrame DEF world
<1>2. CASE PlanReturn(t)
  <2>1. /\ UNCHANGED <<theirs, chain, move>> /\ Others(t)
        /\ \/ EndBack(t) /\ (SameWay(t) \/ rec'[t] = NoMove)
           \/ UNCHANGED rec /\ rec[t].moved /\ classify(t, chain) = "ready"
    BY <1>2, PlanReturnFacts
  <2>2. CASE EndBack(t) /\ (SameWay(t) \/ rec'[t] = NoMove)
    <3>1. Shrinks
      BY <2>1, <2>2, SameShrinks, NoMoveFacts DEF Others
    <3>2. Quiet => Quiet'
      BY <1>0, <2>1, <2>2, BackEnds DEF Quiet
    <3> QED BY <2>1, <3>1, <3>2, TheirsFrame
  <2>3. CASE UNCHANGED rec /\ rec[t].moved /\ classify(t, chain) = "ready"
    <3>1. chain = rec[t].expect
      BY <2>3 DEF classify
    <3>2. Ours(chain)
      BY <2>3, <3>1 DEF Ours
    <3> QED BY <2>1, <3>2 DEF Untouched
  <2> QED BY <2>1, <2>2, <2>3
<1>3. CASE ReturnAnswered(t) \/ Returned(t)
  BY <1>3 DEF ReturnAnswered, Returned, Untouched, Quiet, world
<1> QED BY <1>1, <1>2, <1>3 DEF Returning

LEMMA RestartTheirs == ASSUME Base, Untouched, Restart PROVE Untouched'
<1>1. /\ UNCHANGED <<theirs, rec>> /\ Quiet'
      /\ chain' \in {chain} \cup {promoted(chain, id) : id \in Underway}
  BY RestartBase, IdleFacts DEF Restart, Quiet
<1>2. ASSUME Quiet PROVE Underway = {}
  BY <1>2 DEF Underway, Quiet, Base, BackShape
<1>3. Shrinks
  BY <1>1 DEF Shrinks, SameWay
<1>4. CASE Quiet
  BY <1>1, <1>2, <1>3, <1>4, TheirsFrame
<1>5. CASE ~Quiet
  BY <1>1, <1>5 DEF Untouched
<1> QED BY <1>4, <1>5

LEMMA EditTheirs == ASSUME Base, Untouched, Edit PROVE Untouched'
<1>1. /\ theirs' = IF Quiet /\ ~Ours(chain') THEN chain' ELSE <<>>
      /\ UNCHANGED <<rec, move, back>>
  BY DEF Edit
<1>2. CASE Quiet /\ ~Ours(chain')
  <2>1. Quiet'
    BY <1>1, <1>2 DEF Quiet
  <2>2. Shrinks
    BY <1>1 DEF Shrinks, SameWay
  <2>3. ASSUME Ours(chain)' PROVE FALSE
    <3>1. PICK t \in Tunnels : /\ rec'[t].moved
                               /\ chain' \in {rec'[t].origin, rec'[t].expect} \cup Cascade(t)'
      BY <2>3 DEF Ours
    <3>2. SameWay(t) /\ Cascade(t)' \subseteq Cascade(t)
      BY <2>2, <3>1, CascadeShrinks DEF Shrinks, Base
    <3> QED BY <1>2, <3>1, <3>2 DEF Ours, SameWay
  <2> QED BY <1>1, <1>2, <2>1, <2>3 DEF Untouched
<1>3. CASE ~(Quiet /\ ~Ours(chain'))
  BY <1>1, <1>3 DEF Untouched
<1> QED BY <1>2, <1>3

LEMMA NextTheirs == Base /\ Untouched /\ [Next]_vars => Untouched'
<1> SUFFICES ASSUME Base, Untouched, [Next]_vars PROVE Untouched'
  OBVIOUS
<1>1. CASE UNCHANGED <<chain, rec, move, back, theirs>>
  <2>1. Shrinks /\ (Quiet => Quiet')
    BY <1>1 DEF Shrinks, SameWay, Quiet
  <2> QED BY <1>1, <2>1, TheirsFrame
<1>2. ASSUME NEW t \in Tunnels, WindowPasses(t) \/ Break(t) \/ Mend(t) PROVE Untouched'
  BY <1>1, <1>2 DEF WindowPasses, Break, Mend, world
<1>3. ASSUME NEW t \in Tunnels, Report(t) \/ Moving(t) \/ Returning(t) PROVE Untouched'
  BY <1>3, ReportTheirs, MovingTheirs, ReturningTheirs
<1>4. CASE UNCHANGED vars
  BY <1>1, <1>4 DEF vars
<1> QED BY <1>2, <1>3, <1>4, RestartTheirs, EditTheirs DEF Next

\* An order people have made, and which no record explains, stays as it is:
\* no return touches it, whatever was lost, until a tunnel that carries traffic
\* dies and a move is recorded (move.go:675-677).
THEOREM TheirsIsKept == Spec => []TheirsStays
<1>1. Init => Untouched
  BY DEF Init, Untouched
<1>2. Untouched => TheirsStays
  BY DEF Untouched, TheirsStays
<1> QED BY <1>1, <1>2, BaseIsKept, NextTheirs, PTL DEF Spec

-----------------------------------------------------------------------------
(* The way home.  A trail that leads from the order people have made to a    *)
(* chain is a list of recorded moves, none of them off the first link of the *)
(* chain: the next move starts there, and its record goes to the end.        *)

LedBy(p, n, c) ==
  /\ p \in [1 .. n -> Links] /\ \A i, j \in 1 .. n : p[i] = p[j] => i = j
  /\ \A i \in 1 .. n : rec[p[i]].moved /\ rec[p[i]].origin = EndOf(p, i - 1)
  /\ c = EndOf(p, n) /\ \A i \in 1 .. n : p[i] # c[1]
Led(c) == \E n \in Nat : \E p : LedBy(p, n, c)

\* A record says what its move did: off its own tunnel, and not back home.
RecWay(t) ==
  rec[t].moved =>
    /\ rec[t].origin[1] = t /\ rec[t].backup # t
    /\ rec[t].expect = promoted(rec[t].origin, rec[t].backup) /\ rec[t].expect # Home

\* Where the traffic is after a recorded move, and where it was.
LEMMA RecWayFacts ==
  ASSUME Data, NEW t \in Tunnels, rec[t].moved, RecWay(t)
  PROVE  /\ t \in Links /\ rec[t].backup \in Links /\ rec[t].backup # t
         /\ rec[t].origin \in Chains /\ rec[t].expect \in Chains
         /\ rec[t].expect = promoted(rec[t].origin, rec[t].backup)
         /\ rec[t].origin[1] = t /\ rec[t].expect[1] = rec[t].backup
         /\ rec[t].expect[2] = t /\ rec[t].expect # Home
<1>1. /\ rec[t].backup \in Links /\ rec[t].origin \in Chains /\ rec[t].expect \in Chains
      /\ rec[t].origin[1] = t /\ rec[t].backup # t /\ rec[t].expect # Home
      /\ rec[t].expect = promoted(rec[t].origin, rec[t].backup)
  BY MovedRecord DEF RecWay
<1>2. /\ promoted(rec[t].origin, rec[t].backup)[1] = rec[t].backup
      /\ promoted(rec[t].origin, rec[t].backup)[2] = t /\ N >= 2
  BY <1>1, PromotedFacts
<1>3. t \in Links
  BY <1>1, MovedRecord DEF Headed
<1> QED BY <1>1, <1>2, <1>3

LEMMA LedShort ==
  ASSUME NEW n \in Nat, NEW l \in Links, NEW p \in [1 .. n -> Links],
         \A i, j \in 1 .. n : p[i] = p[j] => i = j, \A i \in 1 .. n : p[i] # l
  PROVE  n <= Cardinality(Links) - 1
<1>1. IsFiniteSet(Links)
  BY HomeFacts
<1>2. IsFiniteSet(Links \ {l}) /\ Cardinality(Links \ {l}) = Cardinality(Links) - 1
  BY <1>1, FS_RemoveElement
<1>3. p \in Injection(1 .. n, Links \ {l})
  BY DEF Injection, IsInjective
<1>4. Cardinality(1 .. n) = n
  BY UpTo
<1> QED BY <1>2, <1>3, <1>4, FS_Injection

LEMMA LedByFrame ==
  ASSUME NEW c, NEW n \in Nat, NEW p, LedBy(p, n, c), \A i \in 1 .. n : SameWay(p[i])
  PROVE  Led(c)'
<1>1. \A i \in 0 .. n : EndOf(p, i)' = EndOf(p, i)
  BY DEF EndOf, SameWay
<1>2. LedBy(p, n, c)'
  <2>1. \A i \in 1 .. n : i - 1 \in 0 .. n
    OBVIOUS
  <2>2. n \in 0 .. n
    OBVIOUS
  <2> QED BY <1>1, <2>1, <2>2 DEF LedBy, SameWay
<1> QED BY <1>2 DEF Led

LEMMA LedFrame ==
  ASSUME NEW c, Led(c), \A u \in Links : u = c[1] \/ SameWay(u)
  PROVE  Led(c)'
<1>0. PICK n \in Nat : \E p : LedBy(p, n, c)
  BY DEF Led
<1>1. PICK p : LedBy(p, n, c)
  BY <1>0
<1>2. \A i \in 1 .. n : SameWay(p[i])
  BY <1>1 DEF LedBy
<1> QED BY <1>1, <1>2, LedByFrame

\* A move to a reserve with no record of its own goes on along the trail.
LEMMA LedOn ==
  ASSUME Data, NEW t \in Tunnels, RecWay(t), rec[t].moved, ~rec[rec[t].backup].moved,
         NEW c, c = rec[t].origin, Led(c), NEW e, e = rec[t].expect
  PROVE  Led(e)
<1>1. /\ t \in Links /\ rec[t].backup # t /\ c[1] = t /\ e[1] = rec[t].backup
  BY RecWayFacts
<1>0. PICK n \in Nat : \E p : LedBy(p, n, c)
  BY DEF Led
<1>2. PICK p : LedBy(p, n, c)
  BY <1>0
<1> DEFINE q == [i \in 1 .. n + 1 |-> IF i = n + 1 THEN t ELSE p[i]]
<1>3. /\ p \in [1 .. n -> Links] /\ \A i, j \in 1 .. n : p[i] = p[j] => i = j
      /\ \A i \in 1 .. n : rec[p[i]].moved /\ rec[p[i]].origin = EndOf(p, i - 1)
      /\ c = EndOf(p, n) /\ \A i \in 1 .. n : p[i] # t
  BY <1>1, <1>2 DEF LedBy
<1>4. /\ q \in [1 .. n + 1 -> Links] /\ q[n + 1] = t /\ \A i \in 1 .. n : q[i] = p[i]
  BY <1>1, <1>3
<1> HIDE DEF q
<1>5. \A i \in 1 .. n + 1 : i = n + 1 \/ i \in 1 .. n
  OBVIOUS
<1>6. \A i, j \in 1 .. n + 1 : q[i] = q[j] => i = j
  BY <1>3, <1>4, <1>5
<1>7. (\A i \in 0 .. n : EndOf(q, i) = EndOf(p, i)) /\ EndOf(q, n + 1) = e
  BY <1>4 DEF EndOf
<1>8. ASSUME NEW i \in 1 .. n + 1
      PROVE  rec[q[i]].moved /\ rec[q[i]].origin = EndOf(q, i - 1) /\ q[i] # e[1]
  <2>1. CASE i \in 1 .. n
    <3>1. i - 1 \in 0 .. n
      BY <2>1
    <3> QED BY <1>1, <1>3, <1>4, <1>7, <2>1, <3>1
  <2>2. CASE i = n + 1
    <3>1. i - 1 = n /\ n \in 0 .. n
      BY <2>2
    <3> QED BY <1>1, <1>3, <1>4, <1>7, <2>2, <3>1
  <2> QED BY <1>5, <2>1, <2>2
<1>9. LedBy(q, n + 1, e) /\ n + 1 \in Nat
  BY <1>4, <1>6, <1>7, <1>8 DEF LedBy
<1> QED BY <1>9 DEF Led

\* A chain that a move is expected to leave was reached by that move.
LEMMA LedBack ==
  ASSUME Data, \A u \in Tunnels : RecWay(u), NEW t \in Tunnels, rec[t].moved,
         NEW e, e = rec[t].expect, Led(e), NEW o, o = rec[t].origin
  PROVE  Led(o)
<1>1. e # Home /\ e[2] = t /\ o[1] = t
  BY RecWayFacts
<1>0. PICK n \in Nat : \E p : LedBy(p, n, e)
  BY DEF Led
<1>2. PICK p : LedBy(p, n, e)
  BY <1>0
<1>3. n # 0 /\ e = rec[p[n]].expect
  BY <1>1, <1>2 DEF LedBy, EndOf
<1>4. n \in 1 .. n /\ n - 1 \in Nat /\ n - 1 \in 0 .. n
  BY <1>3
<1>5. p[n] \in Tunnels /\ rec[p[n]].moved
  BY <1>2, <1>4, HomeFacts DEF LedBy
<1>6. p[n] = t
  BY <1>1, <1>3, <1>5, RecWayFacts
<1> DEFINE r == [i \in 1 .. n - 1 |-> p[i]]
<1>7. \A i \in 1 .. n - 1 : r[i] = p[i] /\ i \in 1 .. n /\ i # n /\ i - 1 \in 0 .. n - 1
  BY <1>4
<1>8. r \in [1 .. n - 1 -> Links] /\ \A i \in 0 .. n - 1 : EndOf(r, i) = EndOf(p, i)
  <2>1. r \in [1 .. n - 1 -> Links]
    BY <1>2, <1>7 DEF LedBy
  <2>2. \A i \in 0 .. n - 1 : i = 0 \/ i \in 1 .. n - 1
    BY <1>4
  <2> HIDE DEF r
  <2> QED BY <1>7, <2>1, <2>2 DEF EndOf
<1> HIDE DEF r
<1>9. o = EndOf(r, n - 1)
  <2>1. o = EndOf(p, n - 1)
    BY <1>2, <1>4, <1>6 DEF LedBy
  <2>2. n - 1 \in 0 .. n - 1
    BY <1>4
  <2> QED BY <1>8, <2>1, <2>2
<1>10. LedBy(r, n - 1, o)
  <2>1. /\ \A i, j \in 1 .. n : p[i] = p[j] => i = j
        /\ \A i \in 1 .. n : rec[p[i]].moved /\ rec[p[i]].origin = EndOf(p, i - 1)
    BY <1>2 DEF LedBy
  <2>2. \A i, j \in 1 .. n - 1 : r[i] = r[j] => i = j
    BY <1>7, <2>1
  <2>3. ASSUME NEW i \in 1 .. n - 1
        PROVE  rec[r[i]].moved /\ rec[r[i]].origin = EndOf(r, i - 1) /\ r[i] # o[1]
    <3>1. r[i] = p[i] /\ i \in 1 .. n /\ i # n /\ i - 1 \in 0 .. n - 1
      BY <1>7
    <3> QED BY <1>1, <1>4, <1>6, <1>8, <2>1, <3>1
  <2> QED BY <1>8, <1>9, <2>2, <2>3 DEF LedBy
<1> QED BY <1>4, <1>10 DEF Led

\* A move never recreates the order people have made without a record saying so.
LEMMA NotHome ==
  ASSUME Data, \A u \in Tunnels : RecWay(u), NEW c \in Chains, Led(c),
         NEW b \in Links, ~rec[b].moved, b # c[1]
  PROVE  promoted(c, b) # Home
<1> SUFFICES ASSUME promoted(c, b) = Home PROVE FALSE
  OBVIOUS
<1>1. Home[1] = b
  BY PromotedFacts
<1>0. PICK n \in Nat : \E p : LedBy(p, n, c)
  BY DEF Led
<1>2. PICK p : LedBy(p, n, c)
  BY <1>0
<1>3. CASE n = 0
  BY <1>1, <1>2, <1>3 DEF LedBy, EndOf
<1>4. CASE n # 0
  <2>1. 1 \in 1 .. n /\ 1 - 1 = 0
    BY <1>4
  <2>2. p[1] \in Links /\ rec[p[1]].moved /\ rec[p[1]].origin = Home
    BY <1>2, <2>1 DEF LedBy, EndOf
  <2>3. p[1] \in Tunnels
    BY <2>2, HomeFacts
  <2>4. Home[1] = p[1]
    BY <2>2, <2>3, RecWayFacts
  <2> QED BY <1>1, <2>2, <2>4
<1> QED BY <1>3, <1>4

\* The first move of a cascade is followed along the trail, far enough.
FewTunnels == Cardinality(Links) <= Hops + 2

LEMMA OnTheWay ==
  ASSUME FewTunnels, Data, \A u \in Tunnels : RecWay(u), NEW c \in Chains,
         NEW n \in Nat, NEW p, LedBy(p, n, c), NEW i \in 1 .. n
  PROVE  c = rec[p[i]].expect \/ c \in Cascade(p[i])
<1> DEFINE t == p[i]
           W(k) == [expect |-> rec[p[i + k]].expect, cur |-> rec[p[i + k]].backup]
           S == {k \in Nat : k <= n - i => W(k) \in Followed(t)[k]}
<1>1. /\ \A j \in 1 .. n : /\ p[j] \in Links /\ p[j] \in Tunnels /\ rec[p[j]].moved
                           /\ rec[p[j]].origin = EndOf(p, j - 1)
      /\ c = EndOf(p, n)
  BY HomeFacts DEF LedBy
<1>2. n - i \in Nat /\ n - i <= Hops /\ Hops \in Nat
  <2>1. Cardinality(Links) \in Nat /\ Hops \in Nat /\ Cardinality(Links) <= Hops + 2
    BY HomeFacts, MoveConstants DEF FewTunnels
  <2>2. c[1] \in Links
    <3>1. n \in 1 .. n /\ n # 0
      OBVIOUS
    <3>2. c = rec[p[n]].expect /\ p[n] \in Tunnels /\ rec[p[n]].moved
      BY <1>1, <3>1 DEF EndOf
    <3> QED BY <3>2, RecWayFacts
  <2>3. n <= Cardinality(Links) - 1
    BY <2>2, LedShort DEF LedBy
  <2> QED BY <2>1, <2>3
<1>3. 0 \in S
  <2>1. i + 0 = i
    OBVIOUS
  <2> QED BY <2>1, FollowedSteps
<1>4. ASSUME NEW k \in Nat, k \in S PROVE k + 1 \in S
  <2> SUFFICES ASSUME k + 1 <= n - i PROVE W(k + 1) \in Followed(t)[k + 1]
    OBVIOUS
  <2>1. /\ i + k \in 1 .. n /\ i + (k + 1) \in 1 .. n /\ i + (k + 1) - 1 = i + k /\ i + k # 0
        /\ k + 1 \in 0 .. Hops /\ k + 1 # 0 /\ (k + 1) - 1 = k /\ k <= n - i
    BY <1>2
  <2>2. Followed(t)[k + 1] = Further(Followed(t)[k])
    BY <2>1, FollowedSteps
  <2>3. W(k) \in Followed(t)[k]
    BY <1>4, <2>1
  <2> DEFINE v == p[i + (k + 1)]
  <2>4. rec[v].origin = rec[p[i + k]].expect
    BY <1>1, <2>1 DEF EndOf
  <2>5. /\ rec[v].moved /\ rec[v].origin[1] = v
        /\ rec[v].expect = promoted(rec[v].origin, rec[v].backup)
        /\ rec[p[i + k]].expect[1] = rec[p[i + k]].backup
    BY <1>1, <2>1, RecWayFacts
  <2>6. rec[p[i + k]].backup = v
    BY <2>4, <2>5
  <2>7. W(k + 1) = [expect |-> promoted(W(k).expect, rec[W(k).cur].backup),
                    cur |-> rec[W(k).cur].backup]
    BY <2>4, <2>5, <2>6
  <2>8. rec[W(k).cur].moved
    BY <2>5, <2>6
  <2> HIDE DEF W
  <2> QED BY <2>2, <2>3, <2>7, <2>8 DEF Further
<1>5. W(n - i) \in Followed(t)[n - i]
  <2>1. n - i \in S
    <3> HIDE DEF S
    <3> QED BY <1>2, <1>3, <1>4, NaturalsOneByOne
  <2> QED BY <1>2, <2>1
<1>6. W(n - i).expect = c
  <2>1. i + (n - i) = n /\ n # 0
    BY <1>2
  <2> QED BY <1>1, <2>1 DEF EndOf
<1>7. CASE i = n
  <2>1. n # 0
    BY <1>7
  <2> QED BY <1>1, <1>7, <2>1 DEF EndOf
<1>8. CASE i # n
  <2>1. n - i \in 1 .. Hops
    BY <1>2, <1>8
  <2>2. W(n - i) \in UNION {Followed(t)[k] : k \in 1 .. Hops}
    BY <1>5, <2>1
  <2> HIDE DEF W
  <2> QED BY <1>6, <2>2 DEF Cascade
<1> QED BY <1>7, <1>8

LedChain == \E c \in Chains : c = chain /\ Led(c)
MoveWay(t) ==
  move[t].pc = "sent" =>
    /\ chain = rec[t].origin /\ move[t].backup = rec[t].backup
    /\ ~rec[rec[t].backup].moved /\ LedChain
BackWay(t) ==
  back[t].pc = "sent" =>
    /\ chain = back[t].cur
    /\ \E e \in Chains : e = rec[t].expect /\ Led(e)
    /\ \E m \in 0 .. N : /\ back[t].plan = PlanOf(rec[t].origin, m)
                         /\ Plain(rec[t].origin, m)
                         /\ Restores(back[t].cur, rec[t].origin, m)
Way ==
  /\ \A t \in Tunnels : RecWay(t) /\ MoveWay(t) /\ BackWay(t)
  /\ Quiet => LedChain

\* A chain that is known to be led to, after a step.
LEMMA LedStays ==
  ASSUME NEW c \in Chains, Led(c), chain' = c, \A u \in Links : u = c[1] \/ SameWay(u)
  PROVE  LedChain'
BY LedFrame DEF LedChain

\* A step that ends the work on the router.
LEMMA QuietWay ==
  ASSUME \A u \in Tunnels : RecWay(u), Shrinks, Quiet', LedChain'
  PROVE  Way'
BY DEF Way, RecWay, MoveWay, BackWay, Shrinks, SameWay, Quiet

\* A step that sends nothing, gets no answer and leaves the records as they are.
SentSame(u) ==
  /\ move'[u] = move[u] \/ (move'[u].pc # "sent" /\ move[u].pc # "sent")
  /\ back'[u] = back[u] \/ (back'[u].pc # "sent" /\ back[u].pc # "sent")

LEMMA WayFrame ==
  ASSUME Base, Way, UNCHANGED chain, \A u \in Tunnels : SameWay(u) /\ SentSame(u)
  PROVE  Way'
<1>0. Links \subseteq Tunnels
  BY HomeFacts
<1>1. LedChain => LedChain'
  BY <1>0, LedFrame DEF LedChain
<1>2. ASSUME NEW t \in Tunnels PROVE RecWay(t)' /\ MoveWay(t)' /\ BackWay(t)'
  <2>0. RecWay(t) /\ MoveWay(t) /\ BackWay(t) /\ SameWay(t) /\ SentSame(t)
    BY DEF Way
  <2>1. RecWay(t)'
    BY <2>0 DEF RecWay, SameWay
  <2>2. MoveWay(t)'
    <3> SUFFICES ASSUME move'[t].pc = "sent"
                 PROVE  /\ chain' = rec'[t].origin /\ move'[t].backup = rec'[t].backup
                        /\ ~rec'[rec'[t].backup].moved /\ LedChain'
      BY DEF MoveWay
    <3>1. move'[t] = move[t] /\ rec[t].moved
      BY <2>0 DEF SentSame, Base, MoveShape
    <3>2. rec[t].backup \in Tunnels
      BY <1>0, <3>1, MovedRecord DEF Base
    <3> QED BY <1>1, <2>0, <3>1, <3>2 DEF MoveWay, SameWay
  <2>3. BackWay(t)'
    <3> SUFFICES ASSUME back'[t].pc = "sent" PROVE BackWay(t)'
      BY DEF BackWay
    <3>1. back'[t] = back[t] /\ back[t].pc = "sent"
      BY <2>0 DEF SentSame
    <3>2. PICK e \in Chains : e = rec[t].expect /\ Led(e)
      BY <2>0, <3>1 DEF BackWay
    <3>3. Led(e)' /\ e = rec'[t].expect
      BY <1>0, <2>0, <3>2, LedFrame DEF SameWay
    <3> QED BY <2>0, <3>1, <3>3 DEF BackWay, SameWay
  <2> QED BY <2>1, <2>2, <2>3
<1>3. Quiet' => Quiet
  BY DEF Quiet, SentSame
<1> QED BY <1>1, <1>2, <1>3 DEF Way

\* Whoever has the lock, or takes it while it is free, is alone at work.
LEMMA AloneFacts ==
  ASSUME Base, NEW t \in Tunnels, HoldsMove(t) \/ HoldsBack(t) \/ ~Locked
  PROVE  /\ \A u \in Tunnels : u # t => move[u].pc # "sent" /\ back[u].pc # "sent"
         /\ move[t].pc # "sent" /\ back[t].pc # "sent" => Quiet
<1>1. \A u \in Tunnels : u # t => move[u].pc # "sent" /\ back[u].pc # "sent"
  BY DEF Base, OneHolder, HoldsMove, HoldsBack, Locked
<1> QED BY <1>1 DEF Quiet

\* The record of a move is written where the trail ends.
LEMMA RecordMoveWay ==
  ASSUME Base, Way, NEW t \in Tunnels, NEW seen \in Chains, NEW b \in Links \ {t},
         RecordMove(t, seen, b), seen[1] = t, HoldsMove(t) \/ ~Locked, move[t].pc # "sent",
         ~astray', UNCHANGED <<chain, back>>
  PROVE  Way'
<1>0. Data
  BY DEF Base
<1>1. back[t].pc # "sent"
  BY HolderAlone DEF HoldsBack
<1>2. /\ \A u \in Tunnels : u # t => move[u].pc # "sent" /\ back[u].pc # "sent"
      /\ Quiet
  BY <1>1, AloneFacts
<1>3. \A u \in Tunnels : u # t => move'[u] = move[u] /\ rec'[u] = rec[u]
  BY RecordMoveFacts
<1>4. CASE UNCHANGED <<rec, astray, theirs>> /\ move'[t] = Idle
  <2>1. \A u \in Tunnels : SameWay(u) /\ SentSame(u)
    BY <1>3, <1>4, IdleFacts DEF SameWay, SentSame
  <2> QED BY <2>1, WayFrame
<1>5. CASE /\ rec'[t] = [moved |-> TRUE, backup |-> b, origin |-> seen,
                         expect |-> promoted(seen, b), unconfirmed |-> TRUE,
                         heldSaid |-> FALSE]
           /\ move'[t] = [pc |-> "sent", backup |-> b, seen |-> <<>>]
           /\ astray' = (astray \/ rec[b].moved \/ seen # chain) /\ theirs' = <<>>
  <2>1. seen = chain /\ ~rec[b].moved /\ b # t /\ b \in Tunnels
    BY <1>5, HomeFacts
  <2>2. /\ rec'[t].moved /\ rec'[t].backup = b /\ rec'[t].origin = chain
        /\ rec'[t].expect = promoted(chain, b)
        /\ move'[t].pc = "sent" /\ move'[t].backup = b
    BY <1>5, <2>1
  <2>3. PICK c \in Chains : c = chain /\ Led(c)
    BY <1>2 DEF Way, LedChain
  <2>4. LedChain'
    BY <1>3, <2>1, <2>3, HomeFacts, LedStays DEF SameWay
  <2>5. promoted(chain, b) # Home
    BY <1>0, <2>1, <2>3, NotHome DEF Way
  <2>6. ASSUME NEW u \in Tunnels PROVE RecWay(u)' /\ MoveWay(u)' /\ BackWay(u)'
    <3>1. CASE u = t
      BY <1>1, <1>3, <2>1, <2>2, <2>4, <2>5, <3>1 DEF RecWay, MoveWay, BackWay
    <3>2. CASE u # t
      BY <1>2, <1>3, <3>2 DEF Way, RecWay, MoveWay, BackWay
    <3> QED BY <3>1, <3>2
  <2>7. ~Quiet'
    BY <2>2 DEF Quiet
  <2> QED BY <2>6, <2>7 DEF Way
<1> QED BY <1>4, <1>5, RecordMoveFacts

LEMMA MovingWay ==
  ASSUME Base, Way, NEW t \in Tunnels, PlanMove(t) \/ LateSnapshot(t) \/ MoveGetsLock(t),
         ~astray'
  PROVE  Way'
<1>0. Data /\ MoveShape(t)
  BY DEF Base
<1>1. CASE PlanMove(t)
  <2>0. UNCHANGED <<chain, back>> /\ move[t].pc \in {"asks", "asks again"}
    BY <1>1 DEF PlanMove
  <2>1. CASE EndMove(t) /\ (UNCHANGED <<rec, attempts>> \/ confirmMoves(t, chain))
    <3>1. SameWay(t) /\ \A u \in Tunnels : u # t => rec'[u] = rec[u]
      BY <1>0, <2>1, ConfirmFacts DEF SameWay
    <3>2. \A u \in Tunnels : SameWay(u) /\ SentSame(u)
      BY <1>0, <2>0, <2>1, <3>1, MoveEnds DEF SameWay, SentSame
    <3> QED BY <2>0, <3>2, WayFrame
  <2>2. CASE /\ chain[1] = t /\ Alive(t) # {}
             /\ RecordMove(t, chain, pickBackup(t)) /\ ~(move[t].pc = "asks" /\ Locked)
    <3>1. pickBackup(t) \in Links \ {t} /\ chain \in Chains
      BY <1>0, <2>2, PickBackupFacts DEF Data
    <3>2. HoldsMove(t) \/ ~Locked
      BY <2>0, <2>2 DEF HoldsMove
    <3> QED BY <2>0, <2>2, <3>1, <3>2, RecordMoveWay
  <2>3. CASE /\ UNCHANGED rec
             /\ \/ move' = [move EXCEPT ![t].pc = "waits"]
                \/ move' = [move EXCEPT ![t] = [pc |-> "late", backup |-> pickBackup(t),
                                                seen |-> chain]]
    <3>1. /\ \A u \in Tunnels : u # t => move'[u] = move[u]
          /\ move'[t].pc # "sent"
      <4>1. CASE move' = [move EXCEPT ![t].pc = "waits"]
        BY <1>0, <4>1, MovePc DEF MovePcs
      <4>2. CASE move' = [move EXCEPT ![t] = [pc |-> "late", backup |-> pickBackup(t),
                                              seen |-> chain]]
        BY <1>0, <4>2 DEF Data
      <4> QED BY <2>3, <4>1, <4>2
    <3>2. \A u \in Tunnels : SameWay(u) /\ SentSame(u)
      BY <2>0, <2>3, <3>1 DEF SameWay, SentSame
    <3> QED BY <2>0, <3>2, WayFrame
  <2> QED BY <1>1, <2>1, <2>2, <2>3 DEF PlanMove
<1>2. CASE LateSnapshot(t)
  <2>0. UNCHANGED <<chain, back>> /\ move[t].pc = "late"
    BY <1>2 DEF LateSnapshot
  <2>1. CASE Locked
    <3> DEFINE m == [Idle EXCEPT !.pc = "waits"]
    <3>1. m.pc = "waits" /\ move' = [move EXCEPT ![t] = m] /\ UNCHANGED rec
      BY <1>2, <2>1 DEF LateSnapshot, Idle
    <3> HIDE DEF m
    <3>2. move'[t].pc # "sent" /\ \A u \in Tunnels : u # t => move'[u] = move[u]
      BY <1>0, <3>1 DEF Data
    <3>3. \A u \in Tunnels : SameWay(u) /\ SentSame(u)
      BY <2>0, <3>1, <3>2 DEF SameWay, SentSame
    <3> QED BY <2>0, <3>3, WayFrame
  <2>2. CASE ~Locked
    <3>1. RecordMove(t, move[t].seen, move[t].backup)
      BY <1>2, <2>2 DEF LateSnapshot
    <3>2. /\ move[t].seen \in Chains /\ move[t].seen[1] = t
          /\ move[t].backup \in Links \ {t}
      BY <1>0, <2>0 DEF MoveShape
    <3> QED BY <2>0, <2>2, <3>1, <3>2, RecordMoveWay
  <2> QED BY <2>1, <2>2
<1>3. CASE MoveGetsLock(t)
  <2>1. UNCHANGED <<chain, rec, back>> /\ move[t].pc = "waits"
    BY <1>3 DEF MoveGetsLock, world
  <2>2. move'[t].pc # "sent" /\ \A u \in Tunnels : u # t => move'[u] = move[u]
    <3>1. CASE Locked
      BY <1>0, <1>3, <3>1, MoveEnds DEF MoveGetsLock
    <3>2. CASE ~Locked
      BY <1>0, <1>3, <3>2, MovePc DEF MoveGetsLock, MovePcs
    <3> QED BY <3>1, <3>2
  <2>3. \A u \in Tunnels : SameWay(u) /\ SentSame(u)
    BY <2>1, <2>2 DEF SameWay, SentSame
  <2> QED BY <2>1, <2>3, WayFrame
<1> QED BY <1>1, <1>2, <1>3

\* Where the trail ends when the command of a move has reached the router.
LEMMA SentMoveFacts ==
  ASSUME Base, Way, NEW t \in Tunnels, move[t].pc = "sent"
  PROVE  /\ \E c \in Chains : c = chain /\ Led(c) /\ c[1] = t
         /\ \E e \in Chains : e = promoted(chain, move[t].backup) /\ Led(e)
<1>1. /\ Data /\ rec[t].moved /\ RecWay(t) /\ chain = rec[t].origin
      /\ move[t].backup = rec[t].backup /\ ~rec[rec[t].backup].moved /\ LedChain
  BY DEF Base, MoveShape, Way, MoveWay
<1>2. PICK c \in Chains : c = chain /\ Led(c)
  BY <1>1 DEF LedChain
<1>3. /\ rec[t].origin[1] = t /\ rec[t].expect \in Chains
      /\ rec[t].expect = promoted(rec[t].origin, rec[t].backup)
  BY <1>1, RecWayFacts
<1>4. PICK e \in Chains : e = rec[t].expect
  BY <1>3
<1>5. Led(e)
  BY <1>1, <1>2, <1>4, LedOn
<1> QED BY <1>1, <1>2, <1>3, <1>4, <1>5

LEMMA MoveAnsweredWay ==
  ASSUME Base, Way, NEW t \in Tunnels, MoveAnswered(t), ~astray'
  PROVE  Way'
<1>1. /\ move[t].pc = "sent" /\ EndMove(t) /\ UNCHANGED back /\ Data
      /\ \A u \in Tunnels : u # t => rec'[u] = rec[u]
  BY MoveAnsweredFacts DEF Base
<1>2. PICK a \in Answers : /\ Promotion(t, move[t].backup, a)
                           /\ a = "refusal" => rec'[t] = NoMove
                           /\ a # "refusal" => SameWay(t)
  BY MoveAnsweredFacts
<1>3. Shrinks
  BY <1>1, <1>2, SameShrinks, NoMoveFacts
<1>4. Quiet'
  <2>1. \A u \in Tunnels : u # t => move[u].pc # "sent" /\ back[u].pc # "sent"
    BY <1>1, AloneFacts DEF HoldsMove
  <2>2. back[t].pc # "sent"
    BY <1>1, HolderAlone DEF HoldsMove, HoldsBack
  <2>3. move'[t].pc = "idle" /\ \A u \in Tunnels : u # t => move'[u] = move[u]
    BY <1>1, MoveEnds
  <2> QED BY <1>1, <2>1, <2>2, <2>3 DEF Quiet
<1>5. PICK c \in Chains : c = chain /\ Led(c) /\ c[1] = t
  BY <1>1, SentMoveFacts
<1>6. \A u \in Links : u = c[1] \/ SameWay(u)
  BY <1>1, <1>5, HomeFacts DEF SameWay
<1>7. CASE chain' = chain
  BY <1>3, <1>4, <1>5, <1>6, <1>7, LedStays, QuietWay DEF Way
<1>8. CASE chain' = promoted(chain, move[t].backup) /\ a # "refusal"
  <2>1. PICK e \in Chains : e = promoted(chain, move[t].backup) /\ Led(e)
    BY <1>1, SentMoveFacts
  <2>2. \A u \in Links : SameWay(u)
    BY <1>1, <1>2, <1>8, HomeFacts DEF SameWay
  <2>3. LedChain'
    BY <1>8, <2>1, <2>2, LedStays
  <2> QED BY <1>3, <1>4, <2>3, QuietWay DEF Way
<1>9. chain' = chain \/ (chain' = promoted(chain, move[t].backup) /\ a # "refusal")
  <2>1. CASE a = "refusal"
    BY <1>2, <2>1 DEF Promotion
  <2>2. CASE a # "refusal"
    BY <1>2, <2>2, PromotionFacts DEF Promotion
  <2> QED BY <2>1, <2>2
<1> QED BY <1>7, <1>8, <1>9

\* Where the trail ends while a return is under way: a plan that is done has
\* restored the chain before the move, and one that is whole starts after it.
LEMMA SentBackFacts ==
  ASSUME Base, Way, NEW t \in Tunnels, back[t].pc = "sent"
  PROVE  /\ \E e \in Chains : e = rec[t].expect /\ Led(e)
         /\ \E o \in Chains : o = rec[t].origin /\ Led(o) /\ o[1] = t
         /\ chain = back[t].cur /\ chain \in Chains /\ rec[t].moved
         /\ back[t].plan = <<>> => chain = rec[t].origin
         /\ back[t].plan # <<>> /\ ~Midway(t) =>
              chain = rec[t].expect /\ promoted(chain, Head(back[t].plan)) = rec[t].origin
<1>1. /\ Data /\ rec[t].moved /\ (\A u \in Tunnels : RecWay(u)) /\ chain = back[t].cur
      /\ chain \in Chains
  BY DEF Base, Data, BackShape, Way, BackWay
<1>2. PICK e \in Chains : e = rec[t].expect /\ Led(e)
  BY DEF Way, BackWay
<1>3. PICK o \in Chains : o = rec[t].origin /\ o[1] = t
  BY <1>1, RecWayFacts
<1>4. Led(o)
  BY <1>1, <1>2, <1>3, LedBack
<1>5. PICK m \in 0 .. N : back[t].plan = PlanOf(o, m) /\ Plain(o, m) /\ Restores(chain, o, m)
  BY <1>1, <1>3 DEF Way, BackWay
<1>6. /\ N \in Nat /\ PlanOf(o, m) \in Seq(Links) /\ Len(PlanOf(o, m)) = m
      /\ m # 0 => Head(PlanOf(o, m)) = o[m] /\ o[m] \in Links
  BY <1>5, HomeFacts, PlanType
<1>7. back[t].plan = <<>> => chain = o
  <2> SUFFICES ASSUME back[t].plan = <<>> PROVE chain = o
    OBVIOUS
  <2>1. m = 0
    BY <1>5, <1>6
  <2> QED BY <1>1, <1>5, <2>1, RestoresDone
<1>8. ASSUME back[t].plan # <<>>, ~Midway(t)
      PROVE  chain = rec[t].expect /\ promoted(chain, Head(back[t].plan)) = o
  <2>1. m # 0
    <3>1. ASSUME NEW s \in Seq(Links), Len(s) = 0 PROVE s = <<>>
      BY <3>1
    <3> QED BY <1>5, <1>6, <1>8, <3>1
  <2>2. chain = rec[t].expect /\ ~(m > 1)
    BY <1>1, <1>5, <1>6, <1>8 DEF Midway
  <2>3. m = 1 /\ 1 \in 1 .. N
    BY <1>6, <2>1, <2>2
  <2>4. /\ Restores(promoted(chain, o[1]), o, 1 - 1)
        /\ promoted(chain, o[1]) \in Chains
    <3>1. Restores(chain, o, 1) /\ o[1] \in Links
      BY <1>5, <1>6, <2>1, <2>3
    <3> QED BY <1>1, <2>3, <3>1, RestoresOn, PromotedFacts
  <2>5. promoted(chain, o[1]) = o
    <3>1. 1 - 1 = 0
      OBVIOUS
    <3> QED BY <2>4, <3>1, RestoresDone
  <2> QED BY <1>5, <1>6, <2>2, <2>3, <2>5
<1> QED BY <1>1, <1>2, <1>3, <1>4, <1>7, <1>8

LEMMA ReturnGetsLockWay ==
  ASSUME Base, Way, NEW t \in Tunnels, ReturnGetsLock(t)
  PROVE  Way'
<1>0. Data /\ UNCHANGED <<chain, rec, move>> /\ back[t].pc = "waits"
  BY DEF Base, ReturnGetsLock, world
<1>1. back'[t].pc # "sent" /\ \A u \in Tunnels : u # t => back'[u] = back[u]
  <2>1. CASE Locked
    BY <1>0, <2>1, BackEnds DEF ReturnGetsLock
  <2>2. CASE ~Locked
    BY <1>0, <2>2, BackPc DEF ReturnGetsLock, BackPcs
  <2> QED BY <2>1, <2>2
<1>2. \A u \in Tunnels : SameWay(u) /\ SentSame(u)
  BY <1>0, <1>1 DEF SameWay, SentSame
<1> QED BY <1>0, <1>2, WayFrame

\* A record is only dropped when the chain was not reached by its move.
LEMMA PlanReturnWay ==
  ASSUME FewTunnels, Base, Way, NEW t \in Tunnels, PlanReturn(t), ~astray'
  PROVE  Way'
<1>0. /\ Data /\ back[t].pc = "asks" /\ UNCHANGED <<chain, move>> /\ Others(t)
      /\ \A u \in Tunnels : RecWay(u)
  BY PlanReturnFacts DEF Base, Way
<1>1. /\ \A u \in Tunnels : u # t => move[u].pc # "sent" /\ back[u].pc # "sent"
      /\ move[t].pc # "sent" /\ back[t].pc # "sent" /\ Quiet
  BY <1>0, AloneFacts, HolderAlone DEF HoldsBack, HoldsMove
<1>2. PICK c \in Chains : c = chain /\ Led(c)
  BY <1>1 DEF Way, LedChain
<1>3. CASE EndBack(t) /\ SameWay(t)
  <2>1. \A u \in Tunnels : SameWay(u) /\ SentSame(u)
    BY <1>0, <1>3, BackEnds DEF SameWay, SentSame, Others
  <2> QED BY <1>0, <2>1, WayFrame
<1>4. CASE /\ EndBack(t) /\ rec'[t] = NoMove /\ rec[t].moved
           /\ classify(t, chain) \in {"foreign", "not done"}
  <2>1. PICK n \in Nat : \E p : LedBy(p, n, c)
    BY <1>2 DEF Led
  <2>2. PICK p : LedBy(p, n, c)
    BY <2>1
  <2>3. ASSUME NEW i \in 1 .. n, p[i] = t PROVE FALSE
    <3>1. c = rec[t].expect \/ c \in Cascade(t)
      BY <1>0, <2>2, <2>3, OnTheWay
    <3>2. c = rec[t].origin
      BY <1>2, <1>4, <3>1 DEF classify
    <3>3. c[1] = t
      BY <1>0, <1>4, <3>2, RecWayFacts
    <3> QED BY <2>2, <2>3, <3>3 DEF LedBy
  <2>4. \A i \in 1 .. n : SameWay(p[i])
    BY <1>0, <2>2, <2>3, HomeFacts DEF LedBy, Others, SameWay
  <2>5. LedChain'
    BY <1>0, <1>2, <2>2, <2>4, LedByFrame DEF LedChain
  <2>6. Shrinks
    BY <1>0, <1>4, SameShrinks, NoMoveFacts DEF Others
  <2>7. Quiet'
    BY <1>0, <1>1, <1>4, BackEnds DEF Quiet, Others
  <2> QED BY <1>0, <2>5, <2>6, <2>7, QuietWay
<1>5. CASE /\ UNCHANGED rec /\ rec[t].moved /\ classify(t, chain) = "ready"
           /\ back'[t] = [pc |-> "sent", cur |-> chain,
                          plan |-> restorePlan(chain, rec[t].origin)]
           /\ LosesOrder(restorePlan(chain, rec[t].origin), chain, rec[t].origin) => astray'
  <2>1. c = rec[t].expect
    BY <1>2, <1>5 DEF classify
  <2>2. PICK o \in Headed : o = rec[t].origin
    BY <1>0, <1>5, MovedRecord
  <2>3. PICK m \in 0 .. N : restorePlan(c, o) = PlanOf(o, m) /\ Plain(o, m) /\ Restores(c, o, m)
    BY <1>2, <1>5, <2>2, RestorePlanFacts
  <2>4. Led(c)'
    BY <1>2, <1>5, LedFrame DEF SameWay
  <2>5. BackWay(t)'
    <3>1. /\ back'[t].pc = "sent" /\ back'[t].cur = c
          /\ back'[t].plan = PlanOf(rec'[t].origin, m)
      BY <1>2, <1>5, <2>2, <2>3
    <3>2. /\ Plain(rec'[t].origin, m) /\ Restores(back'[t].cur, rec'[t].origin, m)
          /\ c = rec'[t].expect
      BY <1>5, <2>1, <2>2, <2>3, <3>1
    <3> QED BY <1>0, <1>2, <2>4, <3>1, <3>2 DEF BackWay
  <2>6. ASSUME NEW u \in Tunnels PROVE RecWay(u)' /\ MoveWay(u)' /\ BackWay(u)'
    <3>1. RecWay(u)' /\ move'[u].pc # "sent"
      BY <1>0, <1>1, <1>5 DEF RecWay
    <3>2. u # t => back'[u].pc # "sent"
      BY <1>0, <1>1 DEF Others
    <3> QED BY <2>5, <3>1, <3>2 DEF MoveWay, BackWay
  <2>7. ~Quiet'
    BY <1>5 DEF Quiet
  <2> QED BY <2>6, <2>7 DEF Way
<1> QED BY <1>3, <1>4, <1>5, PlanReturnFacts

LEMMA ReturnAnsweredWay ==
  ASSUME Base, Way, NEW t \in Tunnels, ReturnAnswered(t), ~astray'
  PROVE  Way'
<1>0. /\ Data /\ back[t].pc = "sent" /\ back[t].plan # <<>> /\ Head(back[t].plan) \in Links
      /\ UNCHANGED move /\ Others(t) /\ rec'[t].moved /\ \A u \in Tunnels : RecWay(u)
  BY ReturnAnsweredFacts DEF Base, Way
<1>1. /\ \A u \in Tunnels : u # t => move[u].pc # "sent" /\ back[u].pc # "sent"
      /\ move[t].pc # "sent"
  BY <1>0, AloneFacts, HolderAlone DEF HoldsBack, HoldsMove
<1>2. PICK a \in Answers :
        /\ Promotion(t, Head(back[t].plan), a)
        /\ \/ /\ a = "ok" /\ UNCHANGED rec /\ back'[t].pc = "sent"
              /\ back'[t].plan = Tail(back[t].plan)
              /\ back'[t].cur = promoted(back[t].cur, Head(back[t].plan))
           \/ /\ a # "ok" /\ EndBack(t)
              /\ rec'[t].backup = rec[t].backup /\ rec'[t].origin = rec[t].origin
              /\ rec'[t].expect = back[t].cur
  BY ReturnAnsweredFacts
<1>3. PICK e \in Chains : e = rec[t].expect /\ Led(e)
  BY <1>0, SentBackFacts
<1>4. PICK o \in Chains : o = rec[t].origin /\ Led(o) /\ o[1] = t
  BY <1>0, SentBackFacts
<1>5. chain = back[t].cur /\ chain \in Chains /\ rec[t].moved
  BY <1>0, SentBackFacts
<1>6. CASE /\ a = "ok" /\ UNCHANGED rec /\ back'[t].pc = "sent"
           /\ back'[t].plan = Tail(back[t].plan)
           /\ back'[t].cur = promoted(back[t].cur, Head(back[t].plan))
  <2>1. chain' = back'[t].cur
    BY <1>2, <1>5, <1>6 DEF Promotion
  <2>2. PICK m \in 0 .. N : back[t].plan = PlanOf(o, m) /\ Plain(o, m) /\ Restores(chain, o, m)
    BY <1>0, <1>4, <1>5 DEF Way, BackWay
  <2>3. /\ N \in Nat /\ PlanOf(o, m) \in Seq(Links) /\ Len(PlanOf(o, m)) = m
        /\ m # 0 => /\ Head(PlanOf(o, m)) = o[m] /\ o[m] \in Links
                    /\ Tail(PlanOf(o, m)) = PlanOf(o, m - 1)
    BY <2>2, HomeFacts, PlanType
  <2>4. m # 0
    <3>1. ASSUME NEW s \in Seq(Links), Len(s) = 0 PROVE s = <<>>
      BY <3>1
    <3> QED BY <1>0, <2>2, <2>3, <3>1
  <2>5. m \in 1 .. N /\ m - 1 \in 0 .. N
    BY <2>3, <2>4
  <2>6. Restores(promoted(chain, o[m]), o, m - 1) /\ Plain(o, m - 1)
    <3>1. Restores(promoted(chain, o[m]), o, m - 1)
      BY <1>5, <2>2, <2>3, <2>4, <2>5, RestoresOn
    <3>2. \A i \in 1 .. m - 1 : i \in 1 .. m
      BY <2>3
    <3> QED BY <2>2, <3>1, <3>2 DEF Plain
  <2>7. Led(e)'
    BY <1>3, <1>6, LedFrame DEF SameWay
  <2>8. BackWay(t)'
    <3>1. back'[t].plan = PlanOf(o, m - 1) /\ back'[t].cur = promoted(chain, o[m])
      BY <1>5, <1>6, <2>2, <2>3, <2>4
    <3>2. o = rec'[t].origin /\ e = rec'[t].expect
      BY <1>3, <1>4, <1>6
    <3>3. /\ back'[t].plan = PlanOf(rec'[t].origin, m - 1) /\ Plain(rec'[t].origin, m - 1)
          /\ Restores(back'[t].cur, rec'[t].origin, m - 1)
      BY <2>6, <3>1, <3>2
    <3> QED BY <2>1, <2>5, <2>7, <3>2, <3>3 DEF BackWay
  <2>9. ASSUME NEW u \in Tunnels PROVE RecWay(u)' /\ MoveWay(u)' /\ BackWay(u)'
    <3>1. RecWay(u)' /\ move'[u].pc # "sent"
      BY <1>0, <1>1, <1>6 DEF RecWay
    <3>2. u # t => back'[u].pc # "sent"
      BY <1>0, <1>1 DEF Others
    <3> QED BY <2>8, <3>1, <3>2 DEF MoveWay, BackWay
  <2>10. ~Quiet'
    BY <1>6 DEF Quiet
  <2> QED BY <2>9, <2>10 DEF Way
<1>7. CASE /\ a # "ok" /\ EndBack(t)
           /\ rec'[t].backup = rec[t].backup /\ rec'[t].origin = rec[t].origin
           /\ rec'[t].expect = back[t].cur
  <2>1. ~Midway(t) /\ chain' \in {chain, promoted(chain, Head(back[t].plan))}
    BY <1>2, <1>7 DEF Promotion
  <2>2. chain = rec[t].expect /\ promoted(chain, Head(back[t].plan)) = rec[t].origin
    BY <1>0, <2>1, SentBackFacts
  <2>3. \A u \in Tunnels : SameWay(u)
    <3>1. rec'[t] \in {NoMove} \cup Moved /\ rec[t] \in Moved
      BY <1>0, <1>5, ReturnAnsweredFacts, MovedRecord
    <3>2. rec'[t].moved = rec[t].moved
      BY <1>0, <3>1, NoMoveFacts DEF Moved
    <3>3. SameWay(t)
      BY <1>5, <1>7, <2>2, <3>2 DEF SameWay
    <3> QED BY <1>0, <3>3 DEF SameWay, Others
  <2>4. Shrinks
    BY <2>3 DEF Shrinks
  <2>5. LedChain'
    <3>1. \A u \in Links : SameWay(u)
      BY <2>3, HomeFacts
    <3>2. chain' = e \/ chain' = o
      BY <1>3, <1>4, <2>1, <2>2
    <3> QED BY <1>3, <1>4, <3>1, <3>2, LedStays
  <2>6. Quiet'
    BY <1>0, <1>1, <1>7, BackEnds DEF Quiet
  <2> QED BY <1>0, <2>4, <2>5, <2>6, QuietWay
<1> QED BY <1>2, <1>6, <1>7

LEMMA ReturnedWay ==
  ASSUME Base, Way, NEW t \in Tunnels, Returned(t)
  PROVE  Way'
<1>0. /\ Data /\ back[t].pc = "sent" /\ back[t].plan = <<>> /\ EndBack(t)
      /\ rec' = [rec EXCEPT ![t] = NoMove] /\ UNCHANGED <<chain, move>>
  BY DEF Base, Returned
<1>1. /\ \A u \in Tunnels : u # t => move[u].pc # "sent" /\ back[u].pc # "sent"
      /\ move[t].pc # "sent"
  BY <1>0, AloneFacts, HolderAlone DEF HoldsBack, HoldsMove
<1>2. PICK o \in Chains : o = rec[t].origin /\ Led(o) /\ o[1] = t
  BY <1>0, SentBackFacts
<1>3. chain = o
  BY <1>0, <1>2, SentBackFacts
<1>4. rec'[t] = NoMove /\ \A u \in Tunnels : u # t => rec'[u] = rec[u]
  BY <1>0, RecTo
<1>5. Shrinks
  BY <1>4, SameShrinks, NoMoveFacts
<1>6. LedChain'
  BY <1>0, <1>2, <1>3, <1>4, HomeFacts, LedStays DEF SameWay
<1>7. Quiet'
  BY <1>0, <1>1, BackEnds DEF Quiet
<1> QED BY <1>5, <1>6, <1>7, QuietWay DEF Way

LEMMA RestartWay == ASSUME Base, Way, Restart, ~astray' PROVE Way'
<1>0. /\ Data /\ UNCHANGED rec /\ chain' \in {chain} \cup {promoted(chain, id) : id \in Underway}
      /\ \A t \in Tunnels : ~Midway(t)
  BY DEF Base, Restart
<1>1. Quiet'
  BY RestartBase, IdleFacts DEF Quiet
<1>2. Shrinks /\ \A u \in Links : SameWay(u)
  BY <1>0 DEF Shrinks, SameWay
<1>3. \E c \in Chains : c = chain' /\ Led(c)
  <2>1. CASE chain' = chain
    <3>1. CASE Quiet
      BY <2>1, <3>1 DEF Way, LedChain
    <3>2. CASE \E t \in Tunnels : move[t].pc = "sent"
      BY <2>1, <3>2, SentMoveFacts
    <3>3. ASSUME NEW t \in Tunnels, back[t].pc = "sent"
          PROVE  \E c \in Chains : c = chain' /\ Led(c)
      <4>1. PICK e \in Chains : e = rec[t].expect /\ Led(e)
        BY <3>3, SentBackFacts
      <4>2. PICK o \in Chains : o = rec[t].origin /\ Led(o)
        BY <3>3, SentBackFacts
      <4>3. chain = e \/ chain = o
        BY <1>0, <3>3, <4>1, <4>2, SentBackFacts
      <4> QED BY <2>1, <4>1, <4>2, <4>3
    <3> QED BY <3>1, <3>2, <3>3 DEF Quiet
  <2>2. ASSUME NEW t \in Tunnels, move[t].pc = "sent", chain' = promoted(chain, move[t].backup)
        PROVE  \E c \in Chains : c = chain' /\ Led(c)
    BY <2>2, SentMoveFacts
  <2>3. ASSUME NEW t \in Tunnels, back[t].plan # <<>>,
               chain' = promoted(chain, Head(back[t].plan))
        PROVE  \E c \in Chains : c = chain' /\ Led(c)
    <3>1. back[t].pc = "sent"
      BY <2>3 DEF Base, BackShape
    <3> QED BY <1>0, <2>3, <3>1, SentBackFacts
  <2> QED BY <1>0, <2>1, <2>2, <2>3 DEF Underway
<1>4. LedChain'
  BY <1>2, <1>3, LedStays
<1> QED BY <1>1, <1>2, <1>4, QuietWay DEF Way

WayKept == ~edited /\ ~astray => Way

LEMMA InitWay == Init => WayKept
<1> SUFFICES ASSUME Init PROVE Way
  BY DEF WayKept
<1>1. /\ chain = Home /\ \A t \in Tunnels : rec[t] = NoMove /\ move[t] = Idle /\ back[t] = IdleBack
  BY DEF Init
<1>2. LedChain
  <2> DEFINE p == [i \in 1 .. 0 |-> Home]
  <2>1. p \in [1 .. 0 -> Links] /\ \A i \in 1 .. 0 : FALSE
    OBVIOUS
  <2>2. LedBy(p, 0, Home)
    <3> HIDE DEF p
    <3> QED BY <2>1 DEF LedBy, EndOf
  <2> QED BY <1>1, <2>2, HomeChain DEF LedChain, Led
<1> QED BY <1>1, <1>2, NoMoveFacts, IdleFacts DEF Way, RecWay, MoveWay, BackWay

LEMMA ReportWay == ASSUME Base, Way, NEW t \in Tunnels, Report(t) PROVE Way'
<1>0. Data
  BY DEF Base
<1>1. CASE Hard(t) \/ AfterFailedReport(t)
  <2>1. /\ startMoveOnly(t) \/ UNCHANGED move
        /\ UNCHANGED <<world, chain, back>>
        /\ confirmMoves(t, chain) \/ UNCHANGED <<rec, attempts>>
    BY <1>1 DEF Hard, AfterFailedReport
  <2>2. SameWay(t) /\ \A u \in Tunnels : u # t => rec'[u] = rec[u]
    BY <1>0, <2>1, ConfirmFacts DEF SameWay
  <2>3. move'[t] = move[t] \/ (move'[t].pc # "sent" /\ move[t].pc # "sent")
    <3>1. CASE move[t].pc = "idle" /\ move' = [move EXCEPT ![t].pc = "asks"]
      BY <1>0, <3>1, MovePc DEF MovePcs
    <3> QED BY <2>1, <3>1 DEF startMoveOnly
  <2>4. \A u \in Tunnels : u # t => move'[u] = move[u]
    BY <2>1, StartFacts
  <2>5. \A u \in Tunnels : SameWay(u) /\ SentSame(u)
    BY <2>1, <2>2, <2>3, <2>4 DEF SameWay, SentSame
  <2> QED BY <2>1, <2>5, WayFrame
<1>2. CASE Answering(t)
  <2>1. /\ UNCHANGED <<chain, rec, move>>
        /\ \/ UNCHANGED back
           \/ back[t].pc = "idle" /\ back' = [back EXCEPT ![t].pc = "waits"]
    BY <1>2 DEF Answering
  <2>2. \A u \in Tunnels : SameWay(u) /\ SentSame(u)
    <3>1. CASE back[t].pc = "idle" /\ back' = [back EXCEPT ![t].pc = "waits"]
      BY <1>0, <2>1, <3>1, BackPc DEF SameWay, SentSame, BackPcs
    <3> QED BY <2>1, <3>1 DEF SameWay, SentSame
  <2> QED BY <2>1, <2>2, WayFrame
<1> QED BY <1>1, <1>2 DEF Report

LEMMA StillWay == ASSUME Base, Way, UNCHANGED <<chain, rec, move, back>> PROVE Way'
<1>1. \A u \in Tunnels : SameWay(u) /\ SentSame(u)
  BY DEF SameWay, SentSame
<1> QED BY <1>1, WayFrame

\* What was lost before a promotion stays lost.
LEMMA PromotionAstray ==
  ASSUME NEW t, NEW id, NEW a, Promotion(t, id, a), ~astray'
  PROVE  ~astray
<1>1. astray' = astray \/ astray' = (astray \/ Midway(t)) \/ astray' = TRUE
  BY DEF Promotion
<1> QED BY <1>1

LEMMA NextWay == FewTunnels /\ Base /\ WayKept /\ [Next]_vars => WayKept'
<1> SUFFICES ASSUME FewTunnels, Base, WayKept, [Next]_vars, ~edited', ~astray' PROVE Way'
  BY DEF WayKept
<1>0. Base'
  BY NextBase
<1>1. ASSUME NEW t \in Tunnels, Report(t) PROVE Way'
  <2>1. edited' = edited /\ astray' = astray
    BY <1>1 DEF Report, Hard, AfterFailedReport, Answering, world, outside
  <2> QED BY <1>1, <2>1, ReportWay DEF WayKept
<1>2. ASSUME NEW t \in Tunnels, Moving(t) PROVE Way'
  <2>1. edited' = edited /\ ~astray
    <3>1. CASE PlanMove(t) \/ LateSnapshot(t)
      BY <3>1 DEF PlanMove, LateSnapshot, RecordMove, outside
    <3>2. CASE MoveGetsLock(t)
      BY <3>2 DEF MoveGetsLock, world, outside
    <3>3. CASE MoveAnswered(t)
      <4>1. /\ UNCHANGED outside
            /\ \E a \in Answers : Promotion(t, move[t].backup, a)
        BY <3>3, MoveAnsweredFacts
      <4> QED BY <4>1, PromotionAstray DEF outside
    <3> QED BY <1>2, <3>1, <3>2, <3>3 DEF Moving
  <2>2. Way
    BY <2>1 DEF WayKept
  <2> QED BY <1>2, <2>2, MovingWay, MoveAnsweredWay DEF Moving
<1>3. ASSUME NEW t \in Tunnels, Returning(t) PROVE Way'
  <2>1. edited' = edited /\ ~astray
    <3>1. CASE ReturnGetsLock(t) \/ Returned(t)
      BY <3>1 DEF ReturnGetsLock, Returned, world, outside
    <3>2. CASE ReturnAnswered(t)
      <4>1. /\ UNCHANGED outside
            /\ \E a \in Answers : Promotion(t, Head(back[t].plan), a)
        BY <3>2, ReturnAnsweredFacts
      <4> QED BY <4>1, PromotionAstray DEF outside
    <3>3. CASE PlanReturn(t)
      BY <3>3, PlanReturnFacts DEF outside
    <3> QED BY <1>3, <3>1, <3>2, <3>3 DEF Returning
  <2>2. Way
    BY <2>1 DEF WayKept
  <2> QED BY <1>3, <2>2, ReturnGetsLockWay, PlanReturnWay, ReturnAnsweredWay, ReturnedWay
          DEF Returning
<1>4. ASSUME NEW t \in Tunnels, WindowPasses(t) \/ Break(t) \/ Mend(t) PROVE Way'
  BY <1>4, StillWay DEF WindowPasses, Break, Mend, world, outside, WayKept
<1>5. CASE Restart
  <2>1. edited' = edited /\ ~astray
    BY <1>5 DEF Restart, outside
  <2> QED BY <1>5, <2>1, RestartWay DEF WayKept
<1>6. CASE Edit
  BY <1>6 DEF Edit
<1>7. CASE UNCHANGED vars
  BY <1>7, StillWay DEF vars, WayKept
<1> QED BY <1>1, <1>2, <1>3, <1>4, <1>5, <1>6, <1>7 DEF Next

\* Between commands the database knows the way from the order people have made
\* to the chain on the router, whatever failed in whatever order, unless one
\* of the five steps that may lose it was taken (move.go:17-25), a return that
\* cannot move a link past the VPN among them.  A cascade is followed for Hops
\* moves, which is enough for chains of Hops + 2 tunnels and any links past them.
THEOREM WayIsKnown == FewTunnels => (Spec => []WayHome)
<1>1. Base /\ WayKept => WayHome
  <2> SUFFICES ASSUME Base, Way, Quiet
               PROVE  \E n \in 0 .. Len(Home) : \E trail \in [1 .. n -> Tunnels] :
                        IsTrail(trail) /\ chain = EndOf(trail, n)
    BY DEF WayKept, WayHome
  <2>1. PICK c \in Chains : c = chain /\ Led(c)
    BY DEF Way, LedChain
  <2>2. PICK n \in Nat : \E p : LedBy(p, n, c)
    BY <2>1 DEF Led
  <2>3. PICK p : LedBy(p, n, c)
    BY <2>2
  <2>4. p \in [1 .. n -> Tunnels] /\ IsTrail(p) /\ chain = EndOf(p, n)
    BY <2>1, <2>3, HomeFacts DEF LedBy, IsTrail, IsInjective
  <2>5. n \in 0 .. Len(Home)
    <3>1. /\ N \in Nat /\ IsFiniteSet(Links) /\ Cardinality(Links) \in Nat
          /\ Cardinality(Links) <= N /\ Cardinality(1 .. n) = n
      BY HomeFacts, UpTo
    <3>2. p \in Injection(1 .. n, Links)
      BY <2>3 DEF LedBy, Injection, IsInjective
    <3>3. n <= N
      <4>1. n <= Cardinality(Links)
        BY <3>1, <3>2, FS_Injection
      <4> QED BY <3>1, <4>1
    <3> QED BY <3>1, <3>3 DEF N
  <2> QED BY <2>4, <2>5
<1>2. FewTunnels /\ Base /\ WayKept /\ [Next]_vars => WayKept'
  BY NextWay
<1> SUFFICES ASSUME FewTunnels PROVE Spec => []WayHome
  OBVIOUS
<1> QED BY <1>1, <1>2, InitWay, BaseIsKept, PTL DEF Spec
==============================================================================
