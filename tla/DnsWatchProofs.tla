---------------------------- MODULE DnsWatchProofs ----------------------------
(***************************************************************************)
(* Proofs about DnsWatch, for every set of lines, every set of fallback    *)
(* lines, any number of edits, crashes, reboots and refused commands.      *)
(*                                                                         *)
(* The three layers of the inductive invariant, each resting on the one    *)
(* before:                                                                 *)
(*                                                                         *)
(*   Typed     - types, and what kind of switch each stage belongs to;     *)
(*   ServedInv - while a switch is at work, the lines it will leave are    *)
(*               on the router whatever it still removes (StillServed);    *)
(*               from it follows that no switch leaves the router without  *)
(*               a line;                                                   *)
(*   WayInv    - on a router nobody has edited, what the agent holds in    *)
(*               memory agrees with the state file (Agreed), the file      *)
(*               names the way back (WayBack), and the stage of a switch   *)
(*               tells which lines are on the router (ProvenStage,         *)
(*               SwitchStage, SettleStage); Calm says that no step of the  *)
(*               program alone makes it give its record up.                *)
(*                                                                         *)
(* WayInv needs KeptApart: none of the lines the owner has anyway is       *)
(* itself a fallback candidate.  Such a line counts as a foreign one that  *)
(* is on the router (anyPresent, watch.go:623) though the record does not  *)
(* name it among the lines added; when none of the others took hold, an    *)
(* agent that dies once the own line is out finds neither on its return,   *)
(* and calls it an edit by hand (goneByHand, watch.go:1037-1041).          *)
(***************************************************************************)
EXTENDS DnsWatch, FiniteSetTheorems, TLAPS

Modes == {"primary", "fallback"}
Kinds == {"forward", "return", "rollback", "cleanup"}
Machines == [mode : Modes, fails : 0 .. FailThreshold,
             oks : 0 .. OKThreshold, recent : BOOLEAN]

Settling == {"settle", "cutLeft", "fill"}

\* What a switch is at its stages: only a known switch settles.
KindFits ==
  /\ pc = "cutOwn" => job.kind = "forward"
  /\ pc \in {"putOwn", "checkOwn", "cutSet"} => job.kind = "return"
  /\ pc \in Settling => job.kind # ""

Typed == DnsTypeOK /\ KindFits

-----------------------------------------------------------------------------
(* The operators the watchdog is built from.                               *)

LEMMA LineFacts ==
  /\ Boot \subseteq Lines /\ Own \in Lines /\ Foreign \subseteq Lines /\ Zoned \subseteq Lines
  /\ Own \notin Foreign
  /\ \A S \in SUBSET Lines : Ids(S) \in SUBSET Ids(Lines)
  /\ IdOf[Own] \in Ids(Lines)
  /\ \A S : WithIds(live, S) \subseteq live
BY DnsConstants DEF Boot, Lines, Ids, WithIds

LEMMA BlankType == \A r \in BOOLEAN : Blank(r) \in Records
BY LineFacts DEF Blank, Records

LEMMA MachineType ==
  \A m \in Modes, r \in BOOLEAN : Machine(m, r) \in Machines
BY DnsConstants DEF Machine, Machines, Modes

LEMMA NoJobType == NoJob \in Jobs
BY LineFacts DEF NoJob, Jobs

LEMMA DropType ==
  ASSUME NEW rec \in Records
  PROVE  DropIfClean(rec) \in Records
<1>1. rec.recent \in BOOLEAN
  BY DEF Records
<1> QED BY <1>1, BlankType DEF DropIfClean

LEMMA ObserveType ==
  ASSUME NEW s \in Machines, NEW ok \in BOOLEAN
  PROVE  Observe(s, ok) \in Machines /\ Observe(s, ok).mode = s.mode
<1>1. s.fails \in 0 .. FailThreshold /\ s.oks \in 0 .. OKThreshold
  BY DEF Machines
<1>2. /\ Least(s.fails + 1, FailThreshold) \in 0 .. FailThreshold
      /\ Least(s.oks + 1, OKThreshold) \in 0 .. OKThreshold
  BY <1>1, DnsConstants DEF Least
<1> DEFINE f == IF ok THEN 0 ELSE Least(s.fails + 1, FailThreshold)
           o == IF ok THEN Least(s.oks + 1, OKThreshold) ELSE 0
<1>3. f \in 0 .. FailThreshold /\ o \in 0 .. OKThreshold
  BY <1>1, <1>2, DnsConstants
<1>4. Observe(s, ok) = [s EXCEPT !.fails = f, !.oks = o]
  BY DEF Observe
<1> HIDE DEF f, o
<1> QED BY <1>3, <1>4 DEF Machines

LEMMA AdoptType ==
  ASSUME DnsTypeOK, NEW mode \in Modes, Adopt(mode)
  PROVE  saved' \in Records /\ file' = saved' /\ st' \in Machines /\ idle' \in BOOLEAN
<1> DEFINE left == Leftover(TargetGone(mode, saved), TargetWant(mode, saved))
           missing == Missing(TargetWant(mode, saved))
           rec == [saved EXCEPT !.mode = mode, !.pending = "", !.left = left, !.missing = missing]
<1>1. left \subseteq Lines /\ missing \subseteq Lines
  BY LineFacts DEF DnsTypeOK, Leftover, Missing, TargetWant, Records
<1>2. rec \in Records
  <2> HIDE DEF left, missing
  <2> QED BY <1>1 DEF DnsTypeOK, Records, Modes
<1>3. saved' = DropIfClean(rec) /\ file' = saved' /\ idle' = idle
  BY DEF Adopt, Save
<1>4. st' \in Machines
  BY MachineType DEF Adopt, DnsTypeOK, Records, Machines, Modes
<1> QED BY <1>2, <1>3, <1>4, DropType DEF DnsTypeOK

LEMMA SettledType ==
  ASSUME DnsTypeOK, job.kind # "", live' \subseteq Lines,
         NEW seen \in BOOLEAN, NEW left \in SUBSET Lines, NEW missing \in SUBSET Lines,
         Settled(seen, left, missing)
  PROVE  /\ saved' \in Records /\ file' \in Records /\ st' \in Machines
         /\ pc' = "rest" /\ job' = NoJob
<1> DEFINE rest == IF ~seen /\ left = {} THEN job.cut ELSE left
           rec(mode, pending) == [saved EXCEPT !.mode = mode, !.recent = job.recent,
             !.pending = pending, !.left = rest, !.missing = missing]
<1>1. rest \subseteq Lines /\ job.recent \in BOOLEAN /\ job.kind \in Kinds
  BY DEF DnsTypeOK, Jobs, Kinds
<1>2. \A m \in Modes, p \in {"", "forward", "return", "mixed"} : rec(m, p) \in Records
  <2> HIDE DEF rest
  <2> QED BY <1>1 DEF DnsTypeOK, Records, Modes
<1>3. pc' = "rest" /\ job' = NoJob
  BY DEF Settled, EndTick
<1>4. CASE job.kind = "forward"
  <2>1. /\ st' = Machine("fallback", job.recent)
        /\ \E p \in {"", "forward"} : saved' = rec("fallback", p) /\ file' = saved'
    BY <1>4 DEF Settled, Save
  <2> HIDE DEF rec
  <2> QED BY <1>1, <1>2, <1>3, <2>1, MachineType DEF Modes
<1>5. CASE job.kind = "return"
  <2>1. /\ st' = Machine("primary", job.recent)
        /\ saved' = DropIfClean(rec("primary", "")) /\ file' = saved'
    BY <1>5 DEF Settled, Save
  <2> HIDE DEF rec
  <2> QED BY <1>1, <1>2, <1>3, <2>1, MachineType, DropType DEF Modes
<1>6. CASE job.kind = "rollback"
  <2>1. /\ st' = [Observe(st, FALSE) EXCEPT !.recent = TRUE]
        /\ \E p \in {"", "return"} :
             saved' = DropIfClean(rec("primary", p)) /\ file' = saved'
    BY <1>6 DEF Settled, Save
  <2>2. st' \in Machines
    BY <2>1, ObserveType DEF DnsTypeOK, Machines, Modes
  <2> HIDE DEF rec
  <2> QED BY <1>1, <1>2, <1>3, <2>1, <2>2, DropType DEF Modes
<1>7. CASE job.kind = "cleanup"
  <2>1. st' = st
    BY <1>7 DEF Settled
  <2>2. saved' \in Records /\ file' \in Records
    <3>1. CASE seen
      <4>1. saved' = DropIfClean([saved EXCEPT !.left = left, !.missing = missing]) /\ file' = saved'
        BY <1>7, <3>1 DEF Settled, Save
      <4>2. [saved EXCEPT !.left = left, !.missing = missing] \in Records
        BY DEF DnsTypeOK, Records
      <4> QED BY <4>1, <4>2, DropType
    <3>2. CASE ~seen
      BY <1>7, <3>2 DEF Settled, DnsTypeOK
    <3> QED BY <3>1, <3>2
  <2> QED BY <1>3, <2>1, <2>2 DEF DnsTypeOK, Machines, Modes
<1> QED BY <1>1, <1>4, <1>5, <1>6, <1>7 DEF Kinds

-----------------------------------------------------------------------------
(* Every step keeps the types, and only a known switch settles.            *)

LEMMA JobFields ==
  ASSUME DnsTypeOK
  PROVE  /\ job.cut \subseteq Lines /\ job.left \subseteq Lines /\ job.missing \subseteq Lines
         /\ job.todo \subseteq Lines /\ job.want \subseteq Lines
         /\ job.recent \in BOOLEAN /\ job.streak \in BOOLEAN /\ job.budget \in Int
BY DEF DnsTypeOK, Jobs

LEMMA RecordFields ==
  ASSUME DnsTypeOK
  PROVE  /\ saved.applied \subseteq Lines /\ saved.shared \subseteq Lines
         /\ saved.removed \subseteq {Own} /\ saved.foreign \subseteq Foreign
         /\ saved.left \subseteq Lines /\ saved.missing \subseteq Lines
         /\ saved.mode \in Modes /\ saved.recent \in BOOLEAN
         /\ file.applied \subseteq Lines /\ file.shared \subseteq Lines
         /\ file.removed \subseteq {Own} /\ file.foreign \subseteq Foreign
         /\ file.left \subseteq Lines /\ file.missing \subseteq Lines
         /\ file.mode \in Modes /\ file.recent \in BOOLEAN
BY DEF DnsTypeOK, Records, Modes

LEMMA FinishForwardType ==
  ASSUME DnsTypeOK, NEW want \in SUBSET Lines, NEW recent \in BOOLEAN,
         FinishForward(want, recent)
  PROVE  /\ job' \in Jobs /\ pc' \in {"cutOwn", "settle"} /\ job'.kind = "forward"
         /\ job'.gone = {IdOf[Own]} /\ job'.want = want
         /\ (pc' = "settle") = (Own \notin live)
         /\ pc' = "cutOwn" => Own \in live
<1> DEFINE out == live \cap {Own}
           own == {IdOf[Own]}
<1>1. /\ job' = [kind |-> "forward", todo |-> {}, gone |-> own, want |-> want,
                 cut |-> out, left |-> {}, missing |-> {}, budget |-> 0,
                 recent |-> recent, streak |-> FALSE]
      /\ pc' = IF out = {} THEN "settle" ELSE "cutOwn"
  BY DEF FinishForward, NoJob
<1>2. out \subseteq Lines /\ own \subseteq Ids(Lines) /\ own = {IdOf[Own]}
  BY LineFacts
<1>3. (out = {}) = (Own \notin live)
  OBVIOUS
<1> HIDE DEF out, own
<1>4. job' \in Jobs /\ job'.kind = "forward" /\ job'.gone = own /\ job'.want = want
  BY <1>1, <1>2 DEF Jobs
<1> QED BY <1>1, <1>2, <1>3, <1>4

LEMMA FinishReturnType ==
  ASSUME DnsTypeOK, NEW recent \in BOOLEAN, NEW streak \in BOOLEAN,
         FinishReturn(recent, streak)
  PROVE  /\ job' \in Jobs /\ pc' \in {"putOwn", "cutSet"} /\ job'.kind = "return"
         /\ job'.gone = Ids(saved.applied) /\ job'.want = saved.removed \cup saved.shared
         /\ pc' = "putOwn" => job'.todo = saved.removed \ live
         /\ pc' = "cutSet" => Own \in live /\ job'.cut = live \cap saved.applied
<1> DEFINE gone == Ids(saved.applied)
           want == saved.removed \cup saved.shared
           own == saved.removed \ live
           out == live \cap saved.applied
           J(todo, cut) == [kind |-> "return", todo |-> todo, gone |-> gone, want |-> want,
                            cut |-> cut, left |-> {}, missing |-> {}, budget |-> 0,
                            recent |-> recent, streak |-> streak]
<1>1. \/ own # {} /\ pc' = "putOwn" /\ job' = J(own, {})
      \/ own = {} /\ Own \in live /\ pc' = "cutSet" /\ job' = J({}, out)
  BY DEF FinishReturn, NoJob
<1>2. gone \subseteq Ids(Lines) /\ want \subseteq Lines /\ own \subseteq Lines /\ out \subseteq Lines
  BY LineFacts, RecordFields
<1> HIDE DEF gone, want, own, out
<1>3. /\ job' \in Jobs /\ job'.kind = "return" /\ job'.gone = gone /\ job'.want = want
      /\ pc' = "putOwn" => job'.todo = own
      /\ pc' = "cutSet" => job'.cut = out
  <2>1. \A todo, cut \in SUBSET Lines : J(todo, cut) \in Jobs
    BY <1>2 DEF Jobs
  <2> QED BY <1>1, <1>2, <2>1
<1>4. CASE pc' = "putOwn"
  BY <1>1, <1>3, <1>4 DEF gone, want, own
<1>5. CASE pc' = "cutSet"
  BY <1>1, <1>3, <1>5 DEF gone, want, out
<1> QED BY <1>1, <1>4, <1>5

LEMMA LeftType ==
  ASSUME NEW lines \in SUBSET Lines, DnsTypeOK
  PROVE  /\ LeftNow(lines) \subseteq Lines /\ MissingNow(lines) \subseteq Lines
         /\ LeftNow(lines) \subseteq lines /\ MissingNow(lines) \subseteq job.want
         /\ Cardinality(LeftNow(lines)) \in Int
<1>1. LeftNow(lines) \subseteq lines
  BY DEF LeftNow, WithIds
<1>2. IsFiniteSet(LeftNow(lines))
  BY <1>1, DnsConstants, FS_Subset
<1>3. Cardinality(LeftNow(lines)) \in Nat
  BY <1>2, FS_CardinalityType
<1> QED BY <1>1, <1>3, JobFields DEF MissingNow

LEMMA OnwardType ==
  ASSUME DnsTypeOK, job.kind # "", live' \subseteq Lines, NEW budget \in Int,
         Onward(budget)
  PROVE  /\ saved' \in Records /\ file' \in Records /\ st' \in Machines /\ job' \in Jobs
         /\ \/ pc' = "rest"
            \/ pc' \in {"cutLeft", "fill"} /\ job'.kind = job.kind
<1> DEFINE left == LeftNow(live')
           missing == MissingNow(live')
<1>1. left \subseteq Lines /\ missing \subseteq Lines
  BY LeftType
<1>2. CASE (left # {} /\ budget > 0) \/ missing # {}
  <2>1. /\ pc' \in {"cutLeft", "fill"}
        /\ job' = [job EXCEPT !.left = left, !.missing = missing, !.budget = budget]
        /\ UNCHANGED <<file, saved, st>>
    BY <1>2 DEF Onward
  <2> HIDE DEF left, missing
  <2>2. job' \in Jobs /\ job'.kind = job.kind
    BY <1>1, <2>1 DEF DnsTypeOK, Jobs
  <2> QED BY <2>1, <2>2 DEF DnsTypeOK, Machines, Modes
<1>3. CASE ~((left # {} /\ budget > 0) \/ missing # {})
  <2>1. Settled(TRUE, left, missing)
    BY <1>3 DEF Onward
  <2> HIDE DEF left, missing
  <2> QED BY <1>1, <2>1, SettledType, NoJobType
<1> QED BY <1>2, <1>3

LEMMA AddedType ==
  ASSUME DnsTypeOK, NEW S \in SUBSET Lines
  PROVE  \A new \in Added(S) \cup {live \cup S} : new \subseteq Lines /\ live \subseteq new /\ new \subseteq live \cup S
BY DEF Added, DnsTypeOK

LEMMA RemovedType ==
  ASSUME DnsTypeOK, NEW S
  PROVE  \A new \in Removed(S) \cup {live \ WithIds(live, Ids(S))} :
           /\ new \subseteq live /\ new \subseteq Lines
           /\ \A l \in live \ new : IdOf[l] \in Ids(S)
BY DEF Removed, DnsTypeOK, WithIds

LEMMA TroublesType ==
  ASSUME DnsTypeOK, Trouble \/ UNCHANGED troubles
  PROVE  troubles' \in 0 .. MaxTroubles
BY DnsConstants DEF DnsTypeOK, Trouble

LEMMA AddType ==
  ASSUME DnsTypeOK, NEW S \in SUBSET Lines, Add(S)
  PROVE  /\ live' \subseteq Lines /\ live \subseteq live' /\ live' \subseteq live \cup S
         /\ hand' = hand /\ troubles' \in 0 .. MaxTroubles
BY AddedType, TroublesType DEF Add, Apply

LEMMA RemoveType ==
  ASSUME DnsTypeOK, NEW S, Remove(S)
  PROVE  /\ live' \subseteq Lines /\ live' \subseteq live
         /\ \A l \in live \ live' : IdOf[l] \in Ids(S)
         /\ hand' = hand /\ troubles' \in 0 .. MaxTroubles
BY RemovedType, TroublesType DEF Remove, Apply

LEMMA ReadingType ==
  ASSUME DnsTypeOK, Read \/ ReadFails
  PROVE  hand' \in BOOLEAN /\ hand' = hand /\ troubles' \in 0 .. MaxTroubles
BY TroublesType DEF Read, ReadFails, DnsTypeOK

LEMMA TypedInit == Init => Typed
<1> SUFFICES ASSUME Init PROVE Typed
  OBVIOUS
<1>1. /\ file \in Records /\ saved \in Records /\ st \in Machines /\ job \in Jobs
      /\ live \subseteq Lines
  BY LineFacts, BlankType, MachineType, NoJobType DEF Init, Modes
<1>2. troubles \in 0 .. MaxTroubles
  BY DnsConstants DEF Init
<1> QED
  BY <1>1, <1>2 DEF Init, Typed, KindFits, DnsTypeOK, Machines, Modes, Settling, Stages

\* The beginning of a tick.
LEMMA TickTyped ==
  ASSUME Typed, Tick \/ InitWatch \/ Unread \/ RecheckIdle
  PROVE  Typed'
<1> USE DEF Typed, DnsTypeOK, KindFits, world, memory, Stages, Settling
<1>1. CASE Tick
  BY <1>1 DEF Tick
<1>2. CASE InitWatch
  <2>1. file.recent \in BOOLEAN /\ Blank(file.recent) \in Records
        /\ Machine("primary", file.recent) \in Machines
        /\ Machine(file.mode, file.recent) \in Machines
    BY RecordFields, BlankType, MachineType DEF Modes
  <2>2. [file EXCEPT !.pending = IF @ = "" THEN "mixed" ELSE @] \in Records
    BY DEF Records
  <2>3. /\ pc' \in {"idle", "probe", "reconcile"} /\ UNCHANGED <<live, world, job, troubles>>
        /\ hand' = FALSE /\ ready' = TRUE
        /\ saved' \in Records /\ file' \in Records /\ st' \in Machines /\ idle' \in BOOLEAN
    BY <1>2, <2>1, <2>2 DEF InitWatch, AbandonRecord, Save, GoIdle
  <2> QED BY <2>3 DEF Machines, Modes
<1>3. CASE Unread
  BY <1>3, ReadingType, NoJobType DEF Unread, EndTick
<1>4. CASE RecheckIdle
  BY <1>4, MachineType DEF RecheckIdle, Read, Machines, Modes
<1> QED BY <1>1, <1>2, <1>3, <1>4

LEMMA ReconcileTyped ==
  ASSUME Typed, Reconcile
  PROVE  Typed'
<1> USE DEF Typed
<1>1. /\ Blank(saved.recent) \in Records /\ Machine("primary", saved.recent) \in Machines
      /\ [saved EXCEPT !.left = @ \cap live, !.mode = "primary", !.pending = ""] \in Records
  BY RecordFields, BlankType, MachineType DEF Modes, DnsTypeOK, Records
<1>2. Stamp("primary") \in BOOLEAN /\ Stamp("fallback") \in BOOLEAN
  BY DEF Stamp, DnsTypeOK
<1>3. saved.applied \cup saved.shared \in SUBSET Lines
  BY RecordFields
<1>4. /\ UNCHANGED <<live, world, ready, hand, troubles>>
      /\ \/ pc' \in {"rest", "probe"} /\ job' \in {NoJob, job}
         \/ pc' \in {"cutOwn", "settle"} /\ job' \in Jobs /\ job'.kind = "forward"
         \/ pc' \in {"putOwn", "cutSet"} /\ job' \in Jobs /\ job'.kind = "return"
      /\ saved' \in Records /\ file' \in Records /\ st' \in Machines /\ idle' \in BOOLEAN
  <2>1. UNCHANGED <<live, world, ready, hand, troubles>>
    BY DEF Reconcile, Read
  <2>2. CASE AbandonRecord(saved) /\ EndTick
    BY <1>1, <2>1, <2>2 DEF AbandonRecord, Save, GoIdle, EndTick
  <2>3. CASE Adopt("primary") /\ pc' = "probe" /\ UNCHANGED job
    BY <2>1, <2>3, AdoptType DEF Modes
  <2>4. CASE OwnLineRemovedByHand /\ EndTick
    BY <1>1, <2>1, <2>4 DEF OwnLineRemovedByHand, Save, GoIdle, EndTick
  <2>5. CASE Adopt("fallback") /\ pc' = "probe" /\ UNCHANGED job
    BY <2>1, <2>5, AdoptType DEF Modes
  <2>6. CASE /\ UNCHANGED <<file, saved, st, idle>>
             /\ \/ FinishReturn(Stamp("primary"), FALSE)
                \/ EndTick
                \/ FinishForward(saved.applied \cup saved.shared, Stamp("fallback"))
    <3>1. saved' \in Records /\ file' \in Records /\ st' \in Machines /\ idle' \in BOOLEAN
      BY <2>6 DEF DnsTypeOK, Machines, Modes
    <3>2. CASE FinishReturn(Stamp("primary"), FALSE)
      BY <1>2, <2>1, <3>1, <3>2, FinishReturnType
    <3>3. CASE FinishForward(saved.applied \cup saved.shared, Stamp("fallback"))
      BY <1>2, <1>3, <2>1, <3>1, <3>3, FinishForwardType
    <3>4. CASE EndTick
      BY <2>1, <3>1, <3>4 DEF EndTick
    <3> QED BY <2>6, <3>2, <3>3, <3>4
  <2> QED BY <2>2, <2>3, <2>4, <2>5, <2>6 DEF Reconcile
<1> QED
  BY <1>4, NoJobType DEF DnsTypeOK, KindFits, world, Stages, Settling, Machines, Modes

LEMMA ProbeTyped ==
  ASSUME Typed, Probe
  PROVE  Typed'
<1>1. Observe(st, ownUp) \in Machines /\ st \in Machines
  BY ObserveType DEF Typed, DnsTypeOK, Machines, Modes
<1>2. /\ st' \in Machines /\ pc' \in {"forward", "return", "clean", "rest"}
      /\ UNCHANGED <<live, world, file, saved, ready, idle, job, hand, troubles>>
  BY <1>1 DEF Probe
<1> QED
  BY <1>2 DEF Typed, DnsTypeOK, KindFits, world, Stages, Settling, Machines, Modes

\* The record of a switch names lines, the set and what of it is new.
LEMMA ForwardType ==
  ASSUME DnsTypeOK, NEW set \in SUBSET Lines
  PROVE  Forward(set) \in Records
<1> DEFINE ours == {l \in saved.left \cap live : IdOf[l] # IdOf[Own]}
           applied == (set \ live) \cup ours
           shared == (WithIds(live, Ids(applied)) \ (ours \cup {Own}))
                     \cup (saved.shared \cap live) \cup (saved.missing \ {Own})
           removed == {Own} \cup (saved.missing \cap {Own})
           foreign == set \cap Foreign
<1>1. /\ applied \subseteq Lines /\ shared \subseteq Lines
      /\ removed \subseteq {Own} /\ foreign \subseteq Foreign
  BY RecordFields DEF DnsTypeOK, WithIds
<1>2. Forward(set) = [mode |-> "primary", recent |-> st.recent, pending |-> "forward",
        removed |-> removed, applied |-> applied, shared |-> shared, foreign |-> foreign,
        left |-> {}, missing |-> {}]
  BY DEF Forward
<1>3. st.recent \in BOOLEAN
  BY DEF DnsTypeOK
<1> HIDE DEF applied, shared, removed, foreign
<1> QED BY <1>1, <1>2, <1>3 DEF Records

\* A fallback set is made of candidates and zoned lines.
LEMMA SetType ==
  ASSUME DnsTypeOK, NEW set \in UNION {Trims(s) : s \in FallbackSets}
  PROVE  set \subseteq Foreign \cup Zoned
<1>1. PICK s \in FallbackSets : set \in Trims(s)
  OBVIOUS
<1>2. s \subseteq Foreign \cup Zoned
  BY DEF FallbackSets, DnsTypeOK
<1>3. set \subseteq s
  BY <1>1 DEF Trims
<1> QED BY <1>2, <1>3

LEMMA ToFallbackTyped ==
  ASSUME Typed, ToFallback
  PROVE  Typed'
<1> USE DEF Typed
<1>1. st \in Machines /\ Observe(st, FALSE) \in Machines /\ Machine("primary", st.recent) \in Machines
  BY ObserveType, MachineType DEF DnsTypeOK, Machines, Modes
<1>2. hand' \in BOOLEAN /\ troubles' \in 0 .. MaxTroubles /\ UNCHANGED <<live, world, ready>>
  BY ReadingType DEF ToFallback
<1>3. CASE /\ st' \in {Observe(st, FALSE), Machine("primary", st.recent)} /\ EndTick
           /\ idle' \in BOOLEAN /\ UNCHANGED <<file, saved>>
  BY <1>1, <1>2, <1>3, NoJobType
     DEF EndTick, DnsTypeOK, KindFits, world, Stages, Settling, Machines, Modes
<1>4. ASSUME NEW set \in UNION {Trims(s) : s \in FallbackSets}, Save(Forward(set)),
             job' = [NoJob EXCEPT !.todo = set \ live, !.want = set],
             pc' = "addSet", UNCHANGED <<st, idle>>
      PROVE  Typed'
  <2>1. set \in SUBSET Lines
    BY SetType, LineFacts
  <2>2. saved' \in Records /\ file' \in Records
    BY <1>4, <2>1, ForwardType DEF Save
  <2>3. job' \in Jobs
    BY <1>4, <2>1, NoJobType DEF NoJob, Jobs
  <2> QED
    BY <1>2, <1>4, <2>2, <2>3 DEF DnsTypeOK, KindFits, world, Stages, Settling
<1> QED BY <1>3, <1>4 DEF ToFallback, GoIdle, DnsTypeOK

LEMMA AddSetTyped ==
  ASSUME Typed, AddSet \/ PutOwn
  PROVE  Typed'
<1>1. /\ live' \subseteq Lines /\ hand' = hand /\ troubles' \in 0 .. MaxTroubles
      /\ UNCHANGED <<world, file, memory, job>>
      /\ pc' \in {"checkSet", "checkOwn"} /\ (pc' = "checkOwn" => pc = "putOwn")
  BY JobFields, AddType DEF AddSet, PutOwn, Typed
<1> QED BY <1>1 DEF Typed, DnsTypeOK, KindFits, world, memory, Stages, Settling

LEMMA CutTyped ==
  ASSUME Typed, CutOwn \/ CutSet
  PROVE  Typed'
<1>1. /\ live' \subseteq Lines /\ hand' = hand /\ troubles' \in 0 .. MaxTroubles
      /\ UNCHANGED <<world, file, memory, job>> /\ pc' = "settle"
      /\ job.kind \in {"forward", "return"}
  BY RemoveType DEF CutOwn, CutSet, Typed, KindFits
<1> QED BY <1>1 DEF Typed, DnsTypeOK, KindFits, world, memory, Stages, Settling

LEMMA CheckSetTyped ==
  ASSUME Typed, CheckSet
  PROVE  Typed'
<1>1. /\ hand' \in BOOLEAN /\ troubles' \in 0 .. MaxTroubles
      /\ UNCHANGED <<live, world, file, memory>>
  BY ReadingType DEF CheckSet, Typed
<1>2. CASE pc' = "rollback" /\ UNCHANGED job
  BY <1>1, <1>2 DEF Typed, DnsTypeOK, KindFits, world, memory, Stages, Settling
<1>3. CASE FinishForward(job.want, TRUE)
  <2>1. job' \in Jobs /\ pc' \in {"cutOwn", "settle"} /\ job'.kind = "forward"
    BY <1>3, FinishForwardType, JobFields DEF Typed
  <2> QED BY <1>1, <2>1 DEF Typed, DnsTypeOK, KindFits, world, memory, Stages, Settling
<1> QED BY <1>2, <1>3 DEF CheckSet

LEMMA RollbackTyped ==
  ASSUME Typed, RollbackForward
  PROVE  Typed'
<1>1. /\ hand' \in BOOLEAN /\ troubles' \in 0 .. MaxTroubles
      /\ UNCHANGED <<live, world, file, memory>> /\ pc' = "cutBack"
  BY ReadingType DEF RollbackForward, Typed
<1>2. job' \in Jobs
  <2>1. \A cut \in SUBSET Lines : [NoJob EXCEPT !.cut = cut] \in Jobs
    BY NoJobType DEF NoJob, Jobs
  <2> QED BY <2>1, RecordFields DEF RollbackForward, Typed
<1> QED BY <1>1, <1>2 DEF Typed, DnsTypeOK, KindFits, world, memory, Stages, Settling

LEMMA CutBackTyped ==
  ASSUME Typed, CutBack
  PROVE  Typed'
<1> DEFINE gone == Ids(saved.applied)
           want == {Own} \cup saved.shared
<1>1. /\ live' \subseteq Lines /\ hand' = hand /\ troubles' \in 0 .. MaxTroubles
      /\ UNCHANGED <<world, file, memory>> /\ pc' = "settle"
      /\ job' = [job EXCEPT !.kind = "rollback", !.gone = gone, !.want = want, !.recent = TRUE]
  BY RemoveType DEF CutBack, Typed
<1>2. gone \subseteq Ids(Lines) /\ want \subseteq Lines
  BY LineFacts, RecordFields DEF Typed
<1> HIDE DEF gone, want
<1>3. job' \in Jobs /\ job'.kind = "rollback"
  BY <1>1, <1>2 DEF Typed, DnsTypeOK, Jobs
<1> QED BY <1>1, <1>3 DEF Typed, DnsTypeOK, KindFits, world, memory, Stages, Settling

LEMMA ToPrimaryTyped ==
  ASSUME Typed, ToPrimary
  PROVE  Typed'
<1>1. st \in Machines /\ Observe(st, TRUE) \in Machines
  BY ObserveType DEF Typed, DnsTypeOK, Machines, Modes
<1>2. /\ hand' \in BOOLEAN /\ troubles' \in 0 .. MaxTroubles
      /\ UNCHANGED <<live, world, ready, idle>>
  BY ReadingType DEF ToPrimary, Typed
<1>3. [saved EXCEPT !.pending = "return"] \in Records
  BY DEF Typed, DnsTypeOK, Records
<1>4. saved' \in Records /\ file' \in Records
  BY <1>3 DEF ToPrimary, Save, Typed, DnsTypeOK
<1>5. CASE st' = Observe(st, TRUE) /\ EndTick
  BY <1>1, <1>2, <1>4, <1>5, NoJobType
     DEF EndTick, Typed, DnsTypeOK, KindFits, world, Stages, Settling, Machines, Modes
<1>6. CASE FinishReturn(TRUE, TRUE) /\ UNCHANGED st
  <2>1. job' \in Jobs /\ pc' \in {"putOwn", "cutSet"} /\ job'.kind = "return"
    BY <1>6, FinishReturnType DEF Typed
  <2> QED BY <1>2, <1>4, <1>6, <2>1 DEF Typed, DnsTypeOK, KindFits, world, Stages, Settling
<1> QED BY <1>5, <1>6 DEF ToPrimary

LEMMA CheckOwnTyped ==
  ASSUME Typed, CheckOwn
  PROVE  Typed'
<1>1. st \in Machines /\ Observe(st, TRUE) \in Machines
  BY ObserveType DEF Typed, DnsTypeOK, Machines, Modes
<1>2. /\ hand' \in BOOLEAN /\ troubles' \in 0 .. MaxTroubles
      /\ UNCHANGED <<live, world, ready, idle>> /\ job.kind = "return"
  BY ReadingType DEF CheckOwn, Typed, memory, KindFits
<1>3. CASE /\ UNCHANGED <<file, memory>>
           /\ job' = [job EXCEPT !.todo = {}, !.cut = live \cap saved.applied]
           /\ pc' = "cutSet"
  <2>1. live \cap saved.applied \subseteq Lines
    BY RecordFields DEF Typed
  <2>2. job' \in Jobs /\ job'.kind = "return"
    BY <1>2, <1>3, <2>1 DEF Typed, DnsTypeOK, Jobs
  <2> QED
    BY <1>2, <1>3, <2>2 DEF Typed, DnsTypeOK, KindFits, world, memory, Stages, Settling
<1>4. CASE /\ \E p \in {"", "return"} : Save([saved EXCEPT !.pending = p])
           /\ st' \in {st, Observe(st, TRUE)} /\ EndTick
  <2>1. saved' \in Records /\ file' \in Records
    BY <1>4 DEF Save, Typed, DnsTypeOK, Records
  <2> QED
    BY <1>1, <1>2, <1>4, <2>1, NoJobType
       DEF EndTick, Typed, DnsTypeOK, KindFits, world, Stages, Settling, Machines, Modes
<1> QED BY <1>3, <1>4 DEF CheckOwn

LEMMA CleanupTyped ==
  ASSUME Typed, CleanupStep
  PROVE  Typed'
<1>1. /\ hand' \in BOOLEAN /\ troubles' \in 0 .. MaxTroubles
      /\ UNCHANGED <<live, world, ready>>
  BY ReadingType DEF CleanupStep, Typed
<1>2. CASE /\ job' = [NoJob EXCEPT !.kind = "cleanup",
                        !.gone = TargetGone(saved.mode, saved),
                        !.want = TargetWant(saved.mode, saved)]
           /\ pc' = "settle" /\ UNCHANGED <<file, saved, st, idle>>
  <2> DEFINE gone == TargetGone(saved.mode, saved)
             want == TargetWant(saved.mode, saved)
  <2>1. gone \subseteq Ids(Lines) /\ want \subseteq Lines
    BY LineFacts, RecordFields DEF TargetGone, TargetWant, Typed
  <2>2. job' = [NoJob EXCEPT !.kind = "cleanup", !.gone = gone, !.want = want]
    BY <1>2
  <2> HIDE DEF gone, want
  <2>3. job' \in Jobs /\ job'.kind = "cleanup"
    BY <2>1, <2>2, NoJobType DEF NoJob, Jobs
  <2> QED BY <1>1, <1>2, <2>3 DEF Typed, DnsTypeOK, KindFits, world, Stages, Settling
<1>3. CASE OwnLineRemovedByHand /\ EndTick
  <2>1. /\ [saved EXCEPT !.left = @ \cap live, !.mode = "primary", !.pending = ""] \in Records
        /\ Machine("primary", saved.recent) \in Machines
    BY RecordFields, MachineType DEF Typed, DnsTypeOK, Records, Modes
  <2> QED
    BY <1>1, <1>3, <2>1, NoJobType
       DEF OwnLineRemovedByHand, Save, GoIdle, EndTick, Typed, DnsTypeOK, KindFits, world,
           Stages, Settling, Machines, Modes
<1>4. CASE /\ Save([saved EXCEPT !.pending = "forward"]) /\ EndTick
           /\ UNCHANGED <<st, idle>>
  <2>1. [saved EXCEPT !.pending = "forward"] \in Records
    BY DEF Typed, DnsTypeOK, Records
  <2> QED
    BY <1>1, <1>4, <2>1, NoJobType
       DEF Save, EndTick, Typed, DnsTypeOK, KindFits, world, Stages, Settling
<1> QED BY <1>2, <1>3, <1>4 DEF CleanupStep

LEMMA SettleTyped ==
  ASSUME Typed, Settle \/ CutLeft \/ Fill
  PROVE  Typed'
<1>1. /\ job.kind # "" /\ UNCHANGED <<world, ready, idle>>
  BY DEF Settle, CutLeft, Fill, Typed, KindFits, Settling
<1>2. live' \subseteq Lines /\ hand' = hand /\ troubles' \in 0 .. MaxTroubles
  <2>1. CASE Settle
    BY <2>1, ReadingType DEF Settle, Typed, DnsTypeOK
  <2>2. CASE CutLeft
    <3>1. PICK l \in job.left :
            AndRead(Removed({l}), live \ WithIds(live, {IdOf[l]}), Onward(job.budget - 1))
      BY <2>2 DEF CutLeft
    <3>2. live' \in Removed({l}) \cup {live \ WithIds(live, {IdOf[l]})} /\ (Read \/ (Trouble /\ UNCHANGED hand))
      BY <3>1 DEF AndRead, ReadFails, Trouble
    <3>3. Ids({l}) = {IdOf[l]}
      BY DEF Ids
    <3> QED BY <3>2, <3>3, RemovedType, TroublesType DEF Read, Typed
  <2>3. CASE Fill
    <3>1. live' \in Added(job.missing) \cup {live \cup job.missing} /\ (Read \/ (Trouble /\ UNCHANGED hand))
      BY <2>3 DEF Fill, AndRead, ReadFails, Trouble
    <3> QED BY <3>1, AddedType, JobFields, TroublesType DEF Read, Typed
  <2> QED BY <2>1, <2>2, <2>3
<1>3. \/ \E seen \in BOOLEAN, left \in SUBSET Lines, missing \in SUBSET Lines :
           Settled(seen, left, missing)
      \/ \E budget \in Int : Onward(budget)
  <2>1. CASE Settle
    <3>1. Cardinality(LeftNow(live)) \in Int
      BY LeftType DEF Typed, DnsTypeOK
    <3> QED BY <2>1, <3>1 DEF Settle
  <2>2. CASE CutLeft
    <3>1. job.budget - 1 \in Int /\ job.left \in SUBSET Lines /\ job.missing \in SUBSET Lines
      BY JobFields DEF Typed
    <3> QED BY <2>2, <3>1 DEF CutLeft, AndRead
  <2>3. CASE Fill
    <3>1. /\ job.left \in SUBSET Lines /\ job.missing \in SUBSET Lines
          /\ LeftNow(live') \in SUBSET Lines /\ MissingNow(live') \in SUBSET Lines
      BY <1>2, JobFields, LeftType DEF Typed
    <3> QED BY <2>3, <3>1 DEF Fill, AndRead
  <2> QED BY <2>1, <2>2, <2>3
<1>4. /\ saved' \in Records /\ file' \in Records /\ st' \in Machines /\ job' \in Jobs
      /\ pc' = "rest" \/ (pc' \in {"cutLeft", "fill"} /\ job'.kind = job.kind)
  BY <1>1, <1>2, <1>3, SettledType, OnwardType, NoJobType DEF Typed
<1> QED
  BY <1>1, <1>2, <1>4 DEF Typed, DnsTypeOK, KindFits, world, Stages, Settling, Machines, Modes

LEMMA HalfwayType ==
  ASSUME DnsTypeOK
  PROVE  \A new \in Halfway : new \subseteq Lines
<1>1. \A S \in SUBSET Lines : \A new \in Added(S) : new \subseteq Lines
  BY AddedType
<1>2. \A S : \A new \in Removed(S) : new \subseteq Lines
  BY RemovedType
<1>3. live \subseteq Lines
  BY DEF DnsTypeOK
<1> QED BY <1>1, <1>2, <1>3, JobFields DEF Halfway

LEMMA WorldTyped ==
  ASSUME Typed, Crash \/ Reboot \/ AgentStarts \/ Edit \/ OwnResolver \/ CooldownOver
  PROVE  Typed'
<1> USE DEF Typed
<1>1. CASE Crash \/ Reboot
  <2>1. live' \subseteq Lines
    BY <1>1, HalfwayType, LineFacts DEF Crash, Reboot
  <2>2. /\ pc' = "down" /\ job' = NoJob /\ saved' = Blank(FALSE)
        /\ st' = Machine("primary", FALSE) /\ ready' = FALSE /\ idle' = FALSE
        /\ UNCHANGED <<world, file>> /\ hand' \in BOOLEAN /\ troubles' \in 0 .. MaxTroubles
    BY <1>1, TroublesType DEF Crash, Reboot, Dies, DnsTypeOK
  <2>3. saved' \in Records /\ st' \in Machines /\ job' \in Jobs
    BY <2>2, BlankType, MachineType, NoJobType DEF Modes
  <2> QED
    BY <2>1, <2>2, <2>3 DEF DnsTypeOK, KindFits, world, Stages, Settling, Machines, Modes
<1>2. CASE AgentStarts
  BY <1>2 DEF AgentStarts, DnsTypeOK, KindFits, world, memory, Stages, Settling
<1>3. CASE Edit
  <2>1. live' \subseteq Lines /\ troubles' \in 0 .. MaxTroubles
    BY <1>3, TroublesType DEF Edit, DnsTypeOK
  <2> QED BY <1>3, <2>1 DEF Edit, DnsTypeOK, KindFits, memory, Settling
<1>4. CASE OwnResolver
  <2>1. troubles' \in 0 .. MaxTroubles
    BY <1>4, TroublesType DEF OwnResolver
  <2> QED BY <1>4, <2>1 DEF OwnResolver, DnsTypeOK, KindFits, memory, Settling
<1>5. CASE CooldownOver
  <2>1. st' \in Machines
    BY <1>5 DEF CooldownOver, DnsTypeOK, Machines, Modes
  <2>2. saved' \in Records /\ file' \in Records
    BY <1>5 DEF CooldownOver, DnsTypeOK, Records
  <2> QED
    BY <1>5, <2>1, <2>2 DEF CooldownOver, DnsTypeOK, KindFits, world, Settling, Machines, Modes
<1> QED BY <1>1, <1>2, <1>3, <1>4, <1>5

LEMMA TypedNext == Typed /\ [Next]_vars => Typed'
<1> SUFFICES ASSUME Typed, [Next]_vars PROVE Typed'
  OBVIOUS
<1>1. CASE Watch
  BY <1>1, TickTyped, ReconcileTyped, ProbeTyped, ToFallbackTyped, AddSetTyped,
     CheckSetTyped, CutTyped, RollbackTyped, CutBackTyped, ToPrimaryTyped, CheckOwnTyped,
     CleanupTyped, SettleTyped DEF Watch
<1>2. CASE Crash \/ Reboot \/ AgentStarts \/ Edit \/ OwnResolver \/ CooldownOver
  BY <1>2, WorldTyped
<1>3. CASE UNCHANGED vars
  BY <1>3 DEF vars, Typed, DnsTypeOK, KindFits
<1> QED BY <1>1, <1>2, <1>3 DEF Next

\* Every variable keeps its type.
THEOREM DnsTypeCorrect == Spec => []DnsTypeOK
<1>1. Typed => DnsTypeOK
  BY DEF Typed
<1> QED BY <1>1, TypedInit, TypedNext, PTL DEF Spec

-----------------------------------------------------------------------------
(* What the operators that end a switch leave in the record.               *)

\* The lines a record owns, wants back and answers for.
SameLines(r, s) ==
  /\ r.removed = s.removed /\ r.applied = s.applied
  /\ r.shared = s.shared /\ r.foreign = s.foreign

LEMMA BlankFields ==
  \A r : /\ Blank(r).removed = {} /\ Blank(r).applied = {} /\ Blank(r).shared = {}
         /\ Blank(r).foreign = {} /\ Blank(r).left = {} /\ Blank(r).missing = {}
         /\ Blank(r).mode = "primary" /\ Blank(r).pending = ""
BY DEF Blank

LEMMA DropFields ==
  ASSUME NEW rec
  PROVE  \/ DropIfClean(rec) = rec
         \/ /\ DropIfClean(rec) = Blank(rec.recent)
            /\ rec.mode = "primary" /\ rec.pending = "" /\ rec.left = {} /\ rec.missing = {}
BY DEF DropIfClean

\* Adopting a mode cleans up what the router shows of the other one.
LEMMA AdoptFields ==
  ASSUME DnsTypeOK, NEW mode \in Modes, Adopt(mode)
  PROVE  /\ file' = saved' /\ saved'.mode = mode /\ saved'.pending = "" /\ st'.mode = mode
         /\ \/ /\ SameLines(saved', saved)
               /\ saved'.left = Leftover(TargetGone(mode, saved), TargetWant(mode, saved))
               /\ saved'.missing = Missing(TargetWant(mode, saved))
            \/ /\ saved' = Blank(saved.recent) /\ mode = "primary"
               /\ Leftover(TargetGone(mode, saved), TargetWant(mode, saved)) = {}
<1> DEFINE left == Leftover(TargetGone(mode, saved), TargetWant(mode, saved))
           missing == Missing(TargetWant(mode, saved))
           rec == [saved EXCEPT !.mode = mode, !.pending = "", !.left = left, !.missing = missing]
<1>1. saved' = DropIfClean(rec) /\ file' = saved' /\ st'.mode = mode
  BY DEF Adopt, Save, Machine
<1>2. /\ SameLines(rec, saved) /\ rec.mode = mode /\ rec.pending = "" /\ rec.recent = saved.recent
      /\ rec.left = left /\ rec.missing = missing
  BY DEF DnsTypeOK, Records, SameLines
<1> HIDE DEF rec, left, missing
<1>3. CASE saved' = rec
  BY <1>1, <1>2, <1>3 DEF left, missing
<1>4. CASE saved' = Blank(saved.recent) /\ mode = "primary" /\ left = {}
  BY <1>1, <1>4, BlankFields DEF left
<1> QED BY <1>1, <1>2, <1>3, <1>4, DropFields

\* The end of a switch keeps the lines of the record, or drops a record that
\* has nothing left to do.
Rest(seen, left) == IF ~seen /\ left = {} THEN job.cut ELSE left
Ended(mode, pending, rest, missing) ==
  [saved EXCEPT !.mode = mode, !.recent = job.recent,
    !.pending = pending, !.left = rest, !.missing = missing]

LEMMA SettledForward ==
  ASSUME DnsTypeOK, job.kind = "forward", NEW seen \in BOOLEAN, NEW left, NEW missing,
         Settled(seen, left, missing)
  PROVE  /\ pc' = "rest" /\ job' = NoJob
         /\ file' = saved' /\ SameLines(saved', saved)
         /\ saved'.mode = "fallback" /\ st'.mode = "fallback"
         /\ saved'.pending \in {"", "forward"}
         /\ saved'.pending = "" => Own \notin live'
<1>1. /\ pc' = "rest" /\ job' = NoJob /\ st' = Machine("fallback", job.recent)
      /\ \E p \in {"", "forward"} :
           /\ saved' = Ended("fallback", p, Rest(seen, left), missing)
           /\ file' = saved' /\ (p = "" => live' \cap {Own} = {})
  BY DEF Settled, Save, Rest, Ended, EndTick
<1>2. PICK p \in {"", "forward"} :
           /\ saved' = Ended("fallback", p, Rest(seen, left), missing)
           /\ file' = saved' /\ (p = "" => live' \cap {Own} = {})
  BY <1>1
<1>3. SameLines(saved', saved) /\ saved'.mode = "fallback" /\ saved'.pending = p
  BY <1>2 DEF DnsTypeOK, Records, SameLines, Ended
<1>4. st'.mode = "fallback"
  BY <1>1 DEF Machine
<1> QED BY <1>1, <1>2, <1>3, <1>4

LEMMA SettledReturn ==
  ASSUME DnsTypeOK, job.kind = "return", NEW seen \in BOOLEAN, NEW left, NEW missing,
         Settled(seen, left, missing)
  PROVE  /\ pc' = "rest" /\ job' = NoJob
         /\ file' = saved' /\ saved'.mode = "primary" /\ st'.mode = "primary"
         /\ saved'.pending = ""
         /\ \/ /\ SameLines(saved', saved)
               /\ saved'.left = Rest(seen, left) /\ saved'.missing = missing
            \/ saved' = Blank(job.recent) /\ Rest(seen, left) = {}
<1> DEFINE r == Ended("primary", "", Rest(seen, left), missing)
<1>1. /\ pc' = "rest" /\ job' = NoJob /\ st' = Machine("primary", job.recent)
      /\ saved' = DropIfClean(r) /\ file' = saved'
  BY DEF Settled, Save, Rest, Ended, EndTick
<1>2. /\ SameLines(r, saved) /\ r.mode = "primary" /\ r.pending = ""
      /\ r.left = Rest(seen, left) /\ r.missing = missing /\ r.recent = job.recent
  BY DEF DnsTypeOK, Records, SameLines, Ended
<1>3. st'.mode = "primary"
  BY <1>1 DEF Machine
<1> HIDE DEF r
<1>4. CASE saved' = r
  BY <1>1, <1>2, <1>3, <1>4
<1>5. CASE saved' = Blank(r.recent) /\ r.left = {}
  BY <1>1, <1>2, <1>3, <1>5, BlankFields
<1> QED BY <1>1, <1>4, <1>5, DropFields

LEMMA SettledRollback ==
  ASSUME DnsTypeOK, job.kind = "rollback", NEW seen \in BOOLEAN, NEW left, NEW missing,
         Settled(seen, left, missing)
  PROVE  /\ pc' = "rest" /\ job' = NoJob
         /\ file' = saved' /\ saved'.mode = "primary" /\ st'.mode = st.mode
         /\ saved'.pending \in {"", "return"}
         /\ \/ /\ SameLines(saved', saved)
               /\ saved'.left = Rest(seen, left) /\ saved'.missing = missing
               /\ saved'.pending = "" => seen
            \/ saved' = Blank(job.recent) /\ Rest(seen, left) = {}
<1>1. /\ pc' = "rest" /\ job' = NoJob /\ st' = [Observe(st, FALSE) EXCEPT !.recent = TRUE]
      /\ \E p \in {"", "return"} :
           /\ saved' = DropIfClean(Ended("primary", p, Rest(seen, left), missing))
           /\ file' = saved' /\ (p = "" => seen)
  BY DEF Settled, Save, Rest, Ended, EndTick
<1>2. PICK p \in {"", "return"} :
           /\ saved' = DropIfClean(Ended("primary", p, Rest(seen, left), missing))
           /\ file' = saved' /\ (p = "" => seen)
  BY <1>1
<1> DEFINE r == Ended("primary", p, Rest(seen, left), missing)
<1>3. /\ SameLines(r, saved) /\ r.mode = "primary" /\ r.pending = p
      /\ r.left = Rest(seen, left) /\ r.missing = missing /\ r.recent = job.recent
  BY DEF DnsTypeOK, Records, SameLines, Ended
<1>4. st'.mode = st.mode
  BY <1>1, ObserveType DEF DnsTypeOK, Machines, Modes
<1>5. saved' = DropIfClean(r)
  BY <1>2
<1> HIDE DEF r
<1>6. CASE saved' = r
  BY <1>1, <1>2, <1>3, <1>4, <1>6
<1>7. CASE saved' = Blank(r.recent) /\ r.left = {}
  BY <1>1, <1>2, <1>3, <1>4, <1>7, BlankFields
<1> QED BY <1>5, <1>6, <1>7, DropFields

LEMMA SettledCleanup ==
  ASSUME DnsTypeOK, job.kind = "cleanup", NEW seen \in BOOLEAN, NEW left, NEW missing,
         Settled(seen, left, missing)
  PROVE  /\ pc' = "rest" /\ job' = NoJob /\ st' = st
         /\ \/ ~seen /\ saved' = saved /\ file' = file
            \/ /\ seen /\ file' = saved' /\ SameLines(saved', saved)
               /\ saved'.mode = saved.mode /\ saved'.pending = saved.pending
               /\ saved'.left = left /\ saved'.missing = missing
            \/ /\ seen /\ file' = saved' /\ left = {}
               /\ saved' = Blank(saved.recent)
               /\ saved.mode = "primary" /\ saved.pending = ""
<1> DEFINE r == [saved EXCEPT !.left = left, !.missing = missing]
<1>1. /\ pc' = "rest" /\ job' = NoJob /\ st' = st
      /\ \/ seen /\ saved' = DropIfClean(r) /\ file' = saved'
         \/ ~seen /\ saved' = saved /\ file' = file
  BY DEF Settled, Save, EndTick
<1>2. /\ SameLines(r, saved) /\ r.mode = saved.mode /\ r.pending = saved.pending
      /\ r.left = left /\ r.missing = missing /\ r.recent = saved.recent
  BY DEF DnsTypeOK, Records, SameLines
<1> HIDE DEF r
<1>3. CASE seen /\ saved' = r
  BY <1>1, <1>2, <1>3
<1>4. CASE seen /\ saved' = Blank(r.recent) /\ r.mode = "primary" /\ r.pending = "" /\ r.left = {}
  BY <1>1, <1>2, <1>4
<1>5. CASE ~seen
  BY <1>1, <1>5
<1> QED BY <1>1, <1>3, <1>4, <1>5, DropFields

\* How a step of the settling moves the router and the switch.
LEMMA SettlingMoves ==
  ASSUME Typed, Settle \/ CutLeft \/ Fill,
         pc = "cutLeft" => Ids(job.left) \subseteq job.gone
  PROVE  /\ job.kind # "" /\ UNCHANGED <<world, ready, idle, hand>> /\ live' \subseteq Lines
         /\ \/ pc = "settle" /\ live' = live
            \/ pc = "fill" /\ live \subseteq live' /\ live' \subseteq live \cup job.missing
            \/ /\ pc = "cutLeft" /\ live' \subseteq live
               /\ \A l \in live \ live' : IdOf[l] \in job.gone
         /\ \/ Settled(TRUE, LeftNow(live'), MissingNow(live'))
            \/ pc = "settle" /\ Settled(FALSE, {}, {})
            \/ pc # "settle" /\ Settled(FALSE, job.left, job.missing)
            \/ /\ pc' \in {"cutLeft", "fill"} /\ UNCHANGED <<file, saved, st>>
               /\ job'.kind = job.kind /\ job'.gone = job.gone /\ job'.want = job.want
               /\ job'.cut = job.cut
               /\ job'.left = LeftNow(live') /\ job'.missing = MissingNow(live')
<1>1. \A budget : Onward(budget) =>
        \/ Settled(TRUE, LeftNow(live'), MissingNow(live'))
        \/ /\ pc' \in {"cutLeft", "fill"} /\ UNCHANGED <<file, saved, st>>
           /\ job'.kind = job.kind /\ job'.gone = job.gone /\ job'.want = job.want
           /\ job'.cut = job.cut
           /\ job'.left = LeftNow(live') /\ job'.missing = MissingNow(live')
  <2> TAKE budget
  <2> DEFINE left == LeftNow(live')
             missing == MissingNow(live')
  <2>1. CASE /\ pc' \in {"cutLeft", "fill"} /\ UNCHANGED <<file, saved, st>>
             /\ job' = [job EXCEPT !.left = left, !.missing = missing, !.budget = budget]
    <3> HIDE DEF left, missing
    <3>1. /\ job'.kind = job.kind /\ job'.gone = job.gone /\ job'.want = job.want
          /\ job'.cut = job.cut /\ job'.left = left /\ job'.missing = missing
      BY <2>1 DEF Typed, DnsTypeOK, Jobs
    <3> QED BY <2>1, <3>1 DEF left, missing
  <2>2. CASE Settled(TRUE, left, missing)
    BY <2>2
  <2> QED BY <2>1, <2>2 DEF Onward
<1>2. CASE Settle
  <2>1. /\ live' = live /\ pc = "settle" /\ UNCHANGED <<world, ready, idle, hand>>
        /\ Settled(FALSE, {}, {}) \/ Onward(Cardinality(LeftNow(live)))
    BY <1>2 DEF Settle, Read, ReadFails
  <2> QED BY <1>1, <2>1 DEF Typed, DnsTypeOK, KindFits, Settling
<1>3. CASE CutLeft
  <2>1. PICK l \in job.left :
          AndRead(Removed({l}), live \ WithIds(live, {IdOf[l]}), Onward(job.budget - 1))
    BY <1>3 DEF CutLeft
  <2>2. /\ live' \in Removed({l}) \cup {live \ WithIds(live, {IdOf[l]})}
        /\ Settled(FALSE, job.left, job.missing) \/ Onward(job.budget - 1)
        /\ hand' = hand
    BY <2>1 DEF AndRead, ReadFails, Read
  <2>3. Ids({l}) = {IdOf[l]} /\ IdOf[l] \in job.gone
    BY <1>3 DEF Ids, CutLeft
  <2>4. /\ live' \subseteq live /\ live' \subseteq Lines
        /\ \A k \in live \ live' : IdOf[k] \in job.gone
    BY <2>2, <2>3, RemovedType DEF Typed
  <2> QED BY <1>1, <1>3, <2>2, <2>4 DEF CutLeft, Typed, KindFits, Settling
<1>4. CASE Fill
  <2>1. /\ live' \in Added(job.missing) \cup {live \cup job.missing}
        /\ Settled(FALSE, job.left, job.missing) \/ Settled(TRUE, LeftNow(live'), MissingNow(live'))
        /\ hand' = hand
    BY <1>4 DEF Fill, AndRead, ReadFails, Read
  <2>2. live' \subseteq Lines /\ live \subseteq live' /\ live' \subseteq live \cup job.missing
    BY <2>1, AddedType, JobFields DEF Typed
  <2> QED BY <1>4, <2>1, <2>2 DEF Fill, Typed, KindFits, Settling
<1> QED BY <1>2, <1>3, <1>4

-----------------------------------------------------------------------------
(* The router is never left bare.                                          *)

\* A switch that leads away from the own line.
Away == job.kind = "forward" \/ (job.kind = "cleanup" /\ saved.mode = "fallback")

\* The own line is none of those the watchdog added or answers for.
Apart == Own \notin saved.applied \cup file.applied \cup saved.shared \cup file.shared

\* What a switch removes at each of its stages.
JobFits ==
  /\ pc \in {"cutBack", "cutSet"} => job.cut \subseteq saved.applied
  /\ pc \in Settling \cup {"cutOwn", "putOwn", "checkOwn", "cutSet"} =>
       job.gone = IF Away THEN {IdOf[Own]} ELSE Ids(saved.applied)
  /\ pc = "cutLeft" => Ids(job.left) \subseteq job.gone

\* Unless somebody edited the lines during the tick, what a stage removes is
\* not the last line that serves every zone.
StillServed ==
  ~hand =>
    /\ pc \in {"addSet", "checkSet", "rollback", "cutBack", "cutSet"} => Own \in live
    /\ pc = "cutOwn" => live \cap saved.foreign # {}
    /\ pc \in Settling =>
         IF Away THEN Own \notin live \/ live \cap Foreign # {} ELSE Own \in live

ServedInv == Typed /\ Apart /\ JobFits /\ StillServed

\* The stages at which no switch is under way.
Between == {"down", "rest", "reconcile", "idle", "probe", "forward", "return", "clean"}

LEMMA BetweenServed ==
  ASSUME pc' \in Between, Apart', Typed'
  PROVE  ServedInv'
BY DEF ServedInv, Between, JobFits, StillServed, Settling

LEMMA OwnId ==
  ASSUME NEW S \in SUBSET Lines
  PROVE  /\ Own \notin S => IdOf[Own] \notin Ids(S)
         /\ \A l \in S : IdOf[l] = IdOf[Own] => l = Own
BY DnsConstants DEF Ids

LEMMA ServedInit == Init => ServedInv
<1> SUFFICES ASSUME Init PROVE ServedInv
  OBVIOUS
<1>1. Apart
  BY BlankFields DEF Init, Apart
<1> QED BY <1>1, TypedInit DEF Init, ServedInv, JobFits, StillServed, Settling

LEMMA TickServed ==
  ASSUME ServedInv, Tick \/ InitWatch \/ Unread \/ RecheckIdle
  PROVE  ServedInv'
<1>1. Typed'
  BY TickTyped DEF ServedInv
<1>2. pc' \in Between
  BY DEF Tick, InitWatch, Unread, RecheckIdle, EndTick, Between
<1>3. Apart'
  <2>1. CASE InitWatch
    <3>1. [file EXCEPT !.pending = IF @ = "" THEN "mixed" ELSE @].applied = file.applied
          /\ [file EXCEPT !.pending = IF @ = "" THEN "mixed" ELSE @].shared = file.shared
      BY DEF ServedInv, Typed, DnsTypeOK, Records
    <3>2. CASE saved' \in {Blank(file.recent), file} /\ file' \in {saved', file}
      BY <3>2, BlankFields DEF ServedInv, Apart
    <3>3. CASE UNCHANGED <<saved, file>>
      BY <3>3 DEF ServedInv, Apart
    <3>4. CASE /\ saved' = [file EXCEPT !.pending = IF @ = "" THEN "mixed" ELSE @]
               /\ UNCHANGED file
      BY <3>1, <3>4 DEF ServedInv, Apart
    <3> QED BY <2>1, <3>2, <3>3, <3>4 DEF InitWatch, AbandonRecord, Save
  <2>2. CASE Tick \/ Unread \/ RecheckIdle
    BY <2>2 DEF Tick, Unread, RecheckIdle, memory, ServedInv, Apart
  <2> QED BY <2>1, <2>2
<1> QED BY <1>1, <1>2, <1>3, BetweenServed

\* The record keeps its lines, or is dropped.
LEMMA ApartKept ==
  ASSUME Apart,
         SameLines(saved', saved) \/ \E r : saved' = Blank(r),
         file' = saved' \/ SameLines(file', file)
  PROVE  Apart'
BY BlankFields DEF Apart, SameLines

LEMMA ReconcileServed ==
  ASSUME ServedInv, Reconcile
  PROVE  ServedInv'
<1> USE DEF ServedInv, Typed
<1>1. Typed' /\ UNCHANGED <<live, hand>>
  BY ReconcileTyped DEF Reconcile, Read
<1>2. CASE AbandonRecord(saved) /\ EndTick
  BY <1>1, <1>2, ApartKept, BetweenServed DEF AbandonRecord, Save, EndTick, Between
<1>3. ASSUME NEW mode \in Modes, Adopt(mode), pc' = "probe"
      PROVE  ServedInv'
  BY <1>1, <1>3, AdoptFields, ApartKept, BetweenServed DEF Between
<1>4. CASE OwnLineRemovedByHand /\ EndTick
  <2>1. SameLines(saved', saved) /\ file' = saved'
    BY <1>4 DEF OwnLineRemovedByHand, Save, SameLines, DnsTypeOK, Records
  <2> QED BY <1>1, <1>4, <2>1, ApartKept, BetweenServed DEF EndTick, Between
<1>5. CASE UNCHANGED <<file, saved>> /\ EndTick
  BY <1>1, <1>5, BetweenServed DEF EndTick, Between, Apart
<1>6. CASE UNCHANGED <<file, saved>> /\ FinishReturn(Stamp("primary"), FALSE)
  <2>1. Stamp("primary") \in BOOLEAN
    BY DEF Stamp, DnsTypeOK
  <2>2. /\ pc' \in {"putOwn", "cutSet"} /\ job'.kind = "return" /\ job'.gone = Ids(saved.applied)
        /\ pc' = "cutSet" => Own \in live /\ job'.cut = live \cap saved.applied
    BY <1>6, <2>1, FinishReturnType
  <2> QED BY <1>1, <1>6, <2>2 DEF Apart, JobFits, StillServed, Away, Settling
<1>7. CASE /\ UNCHANGED <<file, saved>> /\ Own \notin live
           /\ FinishForward(saved.applied \cup saved.shared, Stamp("fallback"))
  <2>1. Stamp("fallback") \in BOOLEAN /\ saved.applied \cup saved.shared \in SUBSET Lines
    BY RecordFields DEF Stamp, DnsTypeOK
  <2>2. pc' = "settle" /\ job'.kind = "forward" /\ job'.gone = {IdOf[Own]}
    BY <1>7, <2>1, FinishForwardType
  <2> QED BY <1>1, <1>7, <2>2 DEF Apart, JobFits, StillServed, Away, Settling
<1> QED BY <1>2, <1>3, <1>4, <1>5, <1>6, <1>7 DEF Reconcile, Modes

\* The record of a switch does not count the own line among the watchdog's.
LEMMA ForwardApart ==
  ASSUME DnsTypeOK, Own \notin saved.shared, NEW set \in SUBSET (Foreign \cup Zoned)
  PROVE  Own \notin Forward(set).applied \cup Forward(set).shared
BY DnsConstants DEF Forward

LEMMA ToFallbackServed ==
  ASSUME ServedInv, ToFallback
  PROVE  ServedInv'
<1>1. Typed' /\ UNCHANGED live
  BY ToFallbackTyped DEF ServedInv, ToFallback
<1>2. CASE EndTick /\ UNCHANGED <<file, saved>>
  BY <1>1, <1>2, BetweenServed DEF EndTick, Between, ServedInv, Apart
<1>3. ASSUME NEW set \in UNION {Trims(s) : s \in FallbackSets}, Save(Forward(set)),
             pc' = "addSet", Own \in live
      PROVE  ServedInv'
  <2>1. Apart'
    BY <1>3, SetType, ForwardApart DEF Apart, ServedInv, Typed, Save
  <2> QED BY <1>1, <1>3, <2>1 DEF ServedInv, JobFits, StillServed, Settling
<1> QED BY <1>2, <1>3 DEF ToFallback

LEMMA ProbeServed ==
  ASSUME ServedInv, Probe
  PROVE  ServedInv'
<1>1. Typed' /\ UNCHANGED <<file, saved>>
  BY ProbeTyped DEF ServedInv, Probe
<1>2. pc' \in Between
  BY DEF Probe, Between
<1> QED BY <1>1, <1>2, BetweenServed DEF ServedInv, Apart

\* Lines go in: the own line stays where it is.
LEMMA AddSetServed ==
  ASSUME ServedInv, AddSet \/ PutOwn
  PROVE  ServedInv'
<1>1. /\ Typed' /\ live \subseteq live' /\ hand' = hand
      /\ UNCHANGED <<file, saved, job>>
      /\ pc' \in {"checkSet", "checkOwn"}
      /\ pc' = "checkSet" => pc = "addSet"
      /\ pc' = "checkOwn" => pc = "putOwn"
  BY AddSetTyped, JobFields, AddType DEF AddSet, PutOwn, ServedInv, Typed, memory
<1> QED
  BY <1>1 DEF ServedInv, Apart, JobFits, StillServed, Away, Settling

LEMMA CheckSetServed ==
  ASSUME ServedInv, CheckSet
  PROVE  ServedInv'
<1>1. Typed' /\ hand' = hand /\ UNCHANGED <<live, file, saved>> /\ pc = "checkSet"
  BY CheckSetTyped, ReadingType DEF CheckSet, ServedInv, Typed, memory
<1>2. CASE pc' = "rollback" /\ UNCHANGED job
  BY <1>1, <1>2 DEF ServedInv, Apart, JobFits, StillServed, Settling
<1>3. CASE FinishForward(job.want, TRUE) /\ live \cap saved.foreign # {}
  <2>1. /\ pc' \in {"cutOwn", "settle"} /\ job'.kind = "forward" /\ job'.gone = {IdOf[Own]}
    BY <1>3, FinishForwardType, JobFields DEF ServedInv, Typed
  <2>2. live \cap Foreign # {}
    BY <1>3, RecordFields DEF ServedInv, Typed
  <2> QED BY <1>1, <1>3, <2>1, <2>2 DEF ServedInv, Apart, JobFits, StillServed, Away, Settling
<1> QED BY <1>2, <1>3 DEF CheckSet

\* The own line goes alone.
LEMMA CutOwnLeaves ==
  ASSUME ServedInv, CutOwn
  PROVE  live' \subseteq live /\ live \ live' \subseteq {Own} /\ hand' = hand
<1>1. /\ live' \subseteq live /\ hand' = hand
      /\ \A l \in live \ live' : IdOf[l] \in Ids({Own})
  BY RemoveType DEF CutOwn, ServedInv, Typed
<1> QED
  BY <1>1, OwnId, LineFacts DEF Ids, ServedInv, Typed, DnsTypeOK

LEMMA CutOwnServed ==
  ASSUME ServedInv, CutOwn
  PROVE  ServedInv'
<1>1. /\ Typed' /\ UNCHANGED <<file, saved, job>> /\ pc = "cutOwn" /\ pc' = "settle"
  BY CutTyped DEF CutOwn, ServedInv, memory
<1>2. live' \subseteq live /\ live \ live' \subseteq {Own} /\ hand' = hand
  BY CutOwnLeaves
<1>3. ~hand => live' \cap Foreign # {}
  BY <1>1, <1>2, RecordFields, LineFacts DEF ServedInv, Typed, StillServed
<1>4. job.kind = "forward"
  BY <1>1 DEF ServedInv, Typed, KindFits
<1> QED
  BY <1>1, <1>2, <1>3, <1>4 DEF ServedInv, Apart, JobFits, StillServed, Away, Settling

LEMMA RollbackServed ==
  ASSUME ServedInv, RollbackForward
  PROVE  ServedInv'
<1>1. /\ Typed' /\ hand' = hand /\ UNCHANGED <<live, file, saved>>
      /\ pc = "rollback" /\ pc' = "cutBack"
  BY RollbackTyped, ReadingType DEF RollbackForward, ServedInv, Typed, memory
<1>2. job'.cut \subseteq saved.applied
  BY DEF RollbackForward, NoJob
<1> QED
  BY <1>1, <1>2 DEF ServedInv, Apart, JobFits, StillServed, Settling

\* What the watchdog added comes out; the own line is none of it.
LEMMA CutKeepsOwn ==
  ASSUME ServedInv, NEW S \in SUBSET saved.applied, Remove(S)
  PROVE  Own \in live => Own \in live'
<1>1. IdOf[Own] \notin Ids(S)
  BY OwnId, RecordFields DEF ServedInv, Typed, Apart
<1> QED BY <1>1, RemoveType DEF ServedInv, Typed

LEMMA CutBackServed ==
  ASSUME ServedInv, CutBack
  PROVE  ServedInv'
<1>1. /\ Typed' /\ UNCHANGED <<file, saved>> /\ pc = "cutBack" /\ pc' = "settle"
      /\ hand' = hand
  BY CutBackTyped, RemoveType DEF CutBack, ServedInv, Typed, memory
<1>2. Own \in live => Own \in live'
  BY <1>1, CutKeepsOwn DEF CutBack, ServedInv, JobFits
<1>3. job'.kind = "rollback" /\ job'.gone = Ids(saved.applied)
  BY DEF CutBack, ServedInv, Typed, DnsTypeOK, Jobs
<1> QED
  BY <1>1, <1>2, <1>3 DEF ServedInv, Apart, JobFits, StillServed, Away, Settling

LEMMA ToPrimaryServed ==
  ASSUME ServedInv, ToPrimary
  PROVE  ServedInv'
<1>1. Typed' /\ UNCHANGED live
  BY ToPrimaryTyped DEF ServedInv, ToPrimary
<1>2. Apart'
  <2>1. SameLines([saved EXCEPT !.pending = "return"], saved)
    BY DEF SameLines, ServedInv, Typed, DnsTypeOK, Records
  <2> QED BY <2>1, ApartKept DEF ToPrimary, Save, ServedInv, SameLines
<1>3. CASE EndTick
  BY <1>1, <1>2, <1>3, BetweenServed DEF EndTick, Between
<1>4. CASE FinishReturn(TRUE, TRUE) /\ Save([saved EXCEPT !.pending = "return"])
  <2>1. saved'.applied = saved.applied
    BY <1>4 DEF Save, ServedInv, Typed, DnsTypeOK, Records
  <2>2. /\ pc' \in {"putOwn", "cutSet"} /\ job'.kind = "return" /\ job'.gone = Ids(saved.applied)
        /\ pc' = "cutSet" => Own \in live /\ job'.cut = live \cap saved.applied
    BY <1>4, FinishReturnType DEF ServedInv, Typed
  <2> QED
    BY <1>1, <1>2, <2>1, <2>2 DEF ServedInv, JobFits, StillServed, Away, Settling
<1> QED BY <1>3, <1>4 DEF ToPrimary

LEMMA CheckOwnServed ==
  ASSUME ServedInv, CheckOwn
  PROVE  ServedInv'
<1>1. Typed' /\ UNCHANGED live /\ pc = "checkOwn"
  BY CheckOwnTyped DEF ServedInv, CheckOwn
<1>2. CASE /\ Own \in live /\ UNCHANGED <<file, memory>>
           /\ job' = [job EXCEPT !.todo = {}, !.cut = live \cap saved.applied]
           /\ pc' = "cutSet"
  <2>1. job'.kind = job.kind /\ job'.gone = job.gone /\ job'.cut = live \cap saved.applied
    BY <1>2 DEF ServedInv, Typed, DnsTypeOK, Jobs
  <2> QED
    BY <1>1, <1>2, <2>1 DEF memory, ServedInv, Apart, JobFits, StillServed, Away, Settling
<1>3. CASE (\E p \in {"", "return"} : Save([saved EXCEPT !.pending = p])) /\ EndTick
  <2>1. SameLines(saved', saved) /\ file' = saved'
    BY <1>3 DEF Save, SameLines, ServedInv, Typed, DnsTypeOK, Records
  <2> QED BY <1>1, <1>3, <2>1, ApartKept, BetweenServed DEF ServedInv, EndTick, Between
<1> QED BY <1>2, <1>3 DEF CheckOwn

LEMMA CutSetServed ==
  ASSUME ServedInv, CutSet
  PROVE  ServedInv'
<1>1. /\ Typed' /\ UNCHANGED <<file, saved, job>> /\ pc = "cutSet" /\ pc' = "settle"
      /\ hand' = hand
  BY CutTyped, RemoveType DEF CutSet, ServedInv, Typed, memory
<1>2. Own \in live => Own \in live'
  BY <1>1, CutKeepsOwn DEF CutSet, ServedInv, JobFits
<1>3. job.kind = "return"
  BY <1>1 DEF ServedInv, Typed, KindFits
<1> QED
  BY <1>1, <1>2, <1>3 DEF ServedInv, Apart, JobFits, StillServed, Away, Settling

LEMMA CleanupServed ==
  ASSUME ServedInv, CleanupStep
  PROVE  ServedInv'
<1>1. Typed' /\ UNCHANGED <<live, hand>>
  BY CleanupTyped DEF ServedInv, CleanupStep, Read
<1>2. CASE /\ Proves(saved.mode, saved)
           /\ job' = [NoJob EXCEPT !.kind = "cleanup",
                        !.gone = TargetGone(saved.mode, saved),
                        !.want = TargetWant(saved.mode, saved)]
           /\ pc' = "settle" /\ UNCHANGED <<file, saved, st, idle>>
  <2>1. job'.kind = "cleanup" /\ job'.gone = TargetGone(saved.mode, saved)
    BY <1>2 DEF NoJob
  <2> QED
    BY <1>1, <1>2, <2>1 DEF ServedInv, Apart, JobFits, StillServed, Away, Settling,
       TargetGone, Proves
<1>3. CASE /\ EndTick
           /\ OwnLineRemovedByHand \/ Save([saved EXCEPT !.pending = "forward"])
  <2>1. SameLines(saved', saved) /\ file' = saved'
    BY <1>3 DEF OwnLineRemovedByHand, Save, SameLines, ServedInv, Typed, DnsTypeOK, Records
  <2> QED BY <1>1, <1>3, <2>1, ApartKept, BetweenServed DEF ServedInv, EndTick, Between
<1> QED BY <1>2, <1>3 DEF CleanupStep

\* The record after the end of a switch owns the lines it owned, or none.
LEMMA SettledApart ==
  ASSUME Typed, Apart, job.kind # "", NEW seen \in BOOLEAN, NEW left, NEW missing,
         Settled(seen, left, missing)
  PROVE  Apart' /\ pc' = "rest"
<1>1. job.kind \in Kinds
  BY DEF Typed, DnsTypeOK, Jobs, Kinds
<1>2. CASE job.kind \in {"forward", "return", "rollback"}
  BY <1>2, SettledForward, SettledReturn, SettledRollback, ApartKept DEF Typed
<1>3. CASE job.kind = "cleanup"
  <2>1. CASE saved' = saved /\ file' = file
    BY <1>3, <2>1, SettledCleanup DEF Typed, Apart
  <2>2. CASE file' = saved'
    BY <1>3, <2>2, SettledCleanup, ApartKept DEF Typed, SameLines
  <2> QED BY <1>3, <2>1, <2>2, SettledCleanup DEF Typed
<1> QED BY <1>1, <1>2, <1>3 DEF Kinds

\* A removal of the settling takes the own line only in a switch away from it,
\* and the foreign lines only in one that leads back to it.
LEMMA SettlingServes ==
  ASSUME ServedInv, Settle \/ CutLeft, ~hand
  PROVE  IF Away THEN Own \notin live' \/ live' \cap Foreign # {} ELSE Own \in live'
<1>1. pc \in Settling /\ pc # "fill"
  BY DEF Settle, CutLeft, Settling
<1>2. live' \subseteq live /\ \A l \in live \ live' : IdOf[l] \in job.gone
  BY <1>1, SettlingMoves DEF ServedInv, JobFits
<1>3. CASE Away
  <2>1. live \ live' \subseteq {Own}
    BY <1>1, <1>2, <1>3, OwnId DEF ServedInv, JobFits, Typed, DnsTypeOK
  <2>2. Own \notin Foreign
    BY LineFacts
  <2> QED BY <1>1, <1>2, <1>3, <2>1, <2>2 DEF ServedInv, StillServed
<1>4. CASE ~Away
  <2>1. IdOf[Own] \notin job.gone
    BY <1>1, <1>4, OwnId, RecordFields DEF ServedInv, JobFits, Typed, Apart
  <2> QED BY <1>1, <1>2, <1>4, <2>1 DEF ServedInv, StillServed
<1> QED BY <1>3, <1>4

LEMMA SettleServed ==
  ASSUME ServedInv, Settle \/ CutLeft \/ Fill
  PROVE  ServedInv'
<1>1. Typed'
  BY SettleTyped DEF ServedInv
<1>2. /\ job.kind # "" /\ hand' = hand /\ live' \subseteq Lines
      /\ \/ \E seen \in BOOLEAN : \E left, missing : Settled(seen, left, missing)
         \/ /\ pc' \in {"cutLeft", "fill"} /\ UNCHANGED <<file, saved>>
            /\ job'.kind = job.kind /\ job'.gone = job.gone
            /\ job'.left = LeftNow(live')
  BY SettlingMoves DEF ServedInv, JobFits
<1>3. ASSUME NEW seen \in BOOLEAN, NEW left, NEW missing, Settled(seen, left, missing)
      PROVE  ServedInv'
  BY <1>1, <1>2, <1>3, SettledApart, BetweenServed DEF ServedInv, Between
<1>4. CASE /\ pc' \in {"cutLeft", "fill"} /\ UNCHANGED <<file, saved>>
           /\ job'.kind = job.kind /\ job'.gone = job.gone
           /\ job'.left = LeftNow(live')
  <2>1. pc \in Settling
    BY DEF Settle, CutLeft, Fill, Settling
  <2>2. Away' = Away /\ Apart' /\ Apart
    BY <1>4 DEF Away, ServedInv, Apart
  <2>3. Ids(LeftNow(live')) \subseteq job.gone
    BY DEF LeftNow, WithIds, Ids
  <2>4. JobFits'
    BY <1>4, <2>1, <2>2, <2>3 DEF ServedInv, JobFits, Settling
  <2>5. StillServed'
    <3>1. CASE Settle \/ CutLeft
      BY <1>2, <1>4, <2>2, <3>1, SettlingServes DEF StillServed, Settling
    <3>2. CASE Fill
      <4>1. \E seen \in BOOLEAN : \E left, missing : Settled(seen, left, missing)
        BY <3>2 DEF Fill, AndRead
      <4>2. pc' = "rest"
        BY <4>1 DEF Settled, EndTick
      <4> QED BY <1>4, <4>2
    <3> QED BY <3>1, <3>2
  <2> QED BY <1>1, <2>2, <2>4, <2>5 DEF ServedInv
<1> QED BY <1>2, <1>3, <1>4

LEMMA WorldServed ==
  ASSUME ServedInv, Crash \/ Reboot \/ AgentStarts \/ Edit \/ OwnResolver \/ CooldownOver
  PROVE  ServedInv'
<1>1. Typed'
  BY WorldTyped DEF ServedInv
<1>2. CASE Crash \/ Reboot
  <2>1. pc' = "down" /\ saved' = Blank(FALSE) /\ file' = file
    BY <1>2 DEF Crash, Reboot, Dies
  <2> QED BY <1>1, <2>1, BlankFields, BetweenServed DEF ServedInv, Apart, Between
<1>3. CASE AgentStarts
  BY <1>1, <1>3, BetweenServed DEF AgentStarts, memory, ServedInv, Apart, Between
<1>4. CASE Edit
  BY <1>1, <1>4 DEF Edit, memory, ServedInv, Apart, JobFits, StillServed, Away, Settling
<1>5. CASE OwnResolver
  BY <1>1, <1>5 DEF OwnResolver, memory, ServedInv, Apart, JobFits, StillServed, Away, Settling
<1>6. CASE CooldownOver
  <2>1. /\ SameLines(saved', saved) /\ SameLines(file', file) /\ saved'.mode = saved.mode
        /\ UNCHANGED <<live, pc, job, hand>>
    BY <1>6 DEF CooldownOver, SameLines, ServedInv, Typed, DnsTypeOK, Records
  <2>2. Away' = Away
    BY <2>1 DEF Away
  <2> QED
    BY <1>1, <2>1, <2>2 DEF SameLines, ServedInv, Apart, JobFits, StillServed, Settling
<1> QED BY <1>2, <1>3, <1>4, <1>5, <1>6

LEMMA ServedNext == ServedInv /\ [Next]_vars => ServedInv'
<1> SUFFICES ASSUME ServedInv, [Next]_vars PROVE ServedInv'
  OBVIOUS
<1>1. CASE Watch
  BY <1>1, TickServed, ReconcileServed, ProbeServed, ToFallbackServed, AddSetServed,
     CheckSetServed, CutOwnServed, CutSetServed, RollbackServed, CutBackServed,
     ToPrimaryServed, CheckOwnServed, CleanupServed, SettleServed DEF Watch
<1>2. CASE Crash \/ Reboot \/ AgentStarts \/ Edit \/ OwnResolver \/ CooldownOver
  BY <1>2, WorldServed
<1>3. CASE UNCHANGED vars
  <2>1. Typed'
    BY <1>3, TypedNext DEF ServedInv
  <2> QED
    BY <1>3, <2>1 DEF vars, ServedInv, Apart, JobFits, StillServed, Away, Settling
<1> QED BY <1>1, <1>2, <1>3 DEF Next

\* No step of the watchdog, in a tick nobody edits, leaves the router bare.
LEMMA WatchServes ==
  ASSUME ServedInv, Watch, ~hand, Served(live)
  PROVE  Served(live')
<1> USE DEF Served
<1>1. CASE live' = live
  BY <1>1
<1>2. CASE AddSet \/ PutOwn
  BY <1>2, JobFields, AddType DEF AddSet, PutOwn, ServedInv, Typed
<1>3. CASE CutOwn
  BY <1>3, CutOwnLeaves, RecordFields, LineFacts DEF CutOwn, ServedInv, Typed, StillServed
<1>4. CASE CutBack \/ CutSet
  BY <1>4, CutKeepsOwn DEF CutBack, CutSet, ServedInv, JobFits, StillServed
<1>5. CASE CutLeft
  <2>1. pc = "cutLeft" /\ live' \subseteq live /\ \A l \in live \ live' : IdOf[l] \in job.gone
    BY <1>5, SettlingMoves DEF ServedInv, JobFits, CutLeft
  <2>2. CASE Away
    <3>1. live \ live' \subseteq {Own} /\ Own \notin Foreign
      BY <2>1, <2>2, OwnId, LineFacts DEF ServedInv, JobFits, Typed, DnsTypeOK, Settling
    <3>2. Own \notin live \/ live \cap Foreign # {}
      BY <2>1, <2>2 DEF ServedInv, StillServed, Settling
    <3> QED BY <2>1, <3>1, <3>2
  <2>3. CASE ~Away
    BY <1>5, <2>3, SettlingServes
  <2> QED BY <2>2, <2>3
<1>6. CASE Fill
  <2>1. live \subseteq live'
    BY <1>6, SettlingMoves DEF ServedInv, JobFits, Fill
  <2> QED BY <2>1
<1>7. live' = live \/ AddSet \/ PutOwn \/ CutOwn \/ CutBack \/ CutSet \/ CutLeft \/ Fill
  BY DEF Watch, Tick, InitWatch, Unread, RecheckIdle, Reconcile, Probe, ToFallback, CheckSet,
     RollbackForward, ToPrimary, CheckOwn, CleanupStep, Settle
<1> QED BY <1>1, <1>2, <1>3, <1>4, <1>5, <1>6, <1>7

\* The watchdog never takes the last resolver that serves every zone off the
\* router, whatever crashes, reboots, refused commands and edits came before
\* the tick (watch.go:618-627, 708-741).
THEOREM NeverLeftBare == Spec => NeverBare
<1> DEFINE Stays == Watch /\ ~hand /\ Served(live) => Served(live')
<1>1. ServedInv /\ [Next]_vars => [Stays]_vars
  BY WatchServes
<1>2. NeverBare <=> [][Stays]_vars
  BY DEF NeverBare
<1> HIDE DEF Stays
<1> QED BY <1>1, <1>2, ServedInit, ServedNext, PTL DEF Spec

-----------------------------------------------------------------------------
(* The way back, on a router nobody edits.                                 *)

\* No candidate for the fallback is a line the owner has anyway: see README
\* for what the code does with one that is.
KeptApart == Foreign \cap Kept = {}

\* The lines of the router that the watchdog put there.
NewLines == live \ Boot

\* The record in memory is the one in the file, but for a switch the router
\* shows half done and the record does not.
SameRecord(r, s) ==
  SameLines(r, s) /\ r.mode = s.mode /\ r.left = s.left /\ r.missing = s.missing
Agreed ==
  ready => /\ SameRecord(saved, file)
           /\ saved.pending = file.pending \/ (saved.pending = "mixed" /\ file.pending = "")

\* What the file says of the lines: without the own line there is a foreign
\* line of the set, and the record leads back; a record of a primary knows
\* what is left of the last switch.
WayBack ==
  /\ NewLines \subseteq file.applied
  /\ file.shared \subseteq Boot
  /\ Own \notin live =>
       /\ Own \in file.removed
       /\ live \cap file.foreign \cap file.applied # {}
       /\ GoingToFallback(file)
  /\ file.mode = "primary" /\ file.pending = "" =>
       NewLines \subseteq file.left /\ file.missing \subseteq Boot

\* The router is in the mode of the record and of the machine.
Proven ==
  /\ saved.pending = "" /\ st.mode = saved.mode
  /\ (saved.mode = "primary" <=> Own \in live)

ProvenStage ==
  /\ pc \in {"probe", "forward", "return", "clean"} => Proven
  /\ pc = "rest" /\ ready /\ saved.pending = "" => Proven
  /\ pc = "reconcile" => saved.pending # ""
  /\ pc = "forward" => saved.mode = "primary"
  /\ pc = "return" => saved.mode = "fallback"

\* Before the own line is out, and before it is back.
Forwarding ==
  /\ saved.mode = "primary" /\ saved.pending = "forward" /\ st.mode = "primary"
  /\ Own \in live /\ Own \in saved.removed
Returning ==
  /\ saved.mode = "fallback" /\ saved.pending = "return" /\ st.mode = "fallback"
  /\ job.want \subseteq Boot

SwitchStage ==
  /\ pc \in {"addSet", "checkSet", "rollback", "cutBack", "cutOwn"} => Forwarding
  /\ pc = "addSet" => job.todo \subseteq saved.applied
  /\ pc \in {"addSet", "checkSet", "cutOwn"} => job.want \subseteq saved.applied \cup Boot
  /\ pc \in {"putOwn", "checkOwn", "cutSet"} => Returning
  /\ pc = "putOwn" => job.todo \subseteq {Own}
  /\ pc \in {"cutBack", "cutSet"} => NewLines \subseteq job.cut

\* What the settling of each switch goes for.
Aim ==
  /\ job.kind = "forward" =>
       /\ GoingToFallback(saved) /\ Own \in saved.removed
       /\ live \cap saved.foreign \cap saved.applied # {}
       /\ job.want \subseteq saved.applied \cup Boot
  /\ job.kind = "cleanup" => Proven /\ job.want = TargetWant(saved.mode, saved)
  /\ job.kind = "return" => Returning /\ NewLines \subseteq job.cut
  /\ job.kind = "rollback" =>
       Forwarding /\ job.want \subseteq Boot /\ NewLines \subseteq job.cut

SettleStage ==
  /\ pc \in Settling => Aim
  /\ pc \in {"cutLeft", "fill"} =>
       /\ job.missing \subseteq job.want
       /\ ~Away => NewLines \subseteq job.left

Calm ==
  /\ ~hand /\ ~idle /\ pc # "idle"
  /\ pc \notin {"rest", "down"} => ready
  /\ pc = "down" => ~ready

Way == Calm /\ Agreed /\ WayBack /\ ProvenStage /\ SwitchStage /\ SettleStage

WayInv == KeptApart /\ ServedInv /\ (~edited => Way)

\* At the stages between the switches only the record and the mode matter.
LEMMA BetweenWay ==
  ASSUME Calm', Agreed', WayBack', ProvenStage', pc' \in Between
  PROVE  Way'
BY DEF Way, SwitchStage, SettleStage, Between, Settling

\* What the record in memory says, once the file has been read.
LEMMA SavedSays ==
  ASSUME Way, ready
  PROVE  /\ NewLines \subseteq saved.applied /\ saved.shared \subseteq Boot
         /\ Own \notin live =>
              /\ Own \in saved.removed
              /\ live \cap saved.foreign \cap saved.applied # {}
              /\ GoingToFallback(saved)
         /\ saved.mode = "primary" /\ saved.pending = "" =>
              NewLines \subseteq saved.left /\ saved.missing \subseteq Boot
         /\ ~GoneByHand(saved)
BY DEF Way, Agreed, SameRecord, SameLines, WayBack, GoingToFallback, GoneByHand

\* A record that is written is the one in memory.
LEMMA WrittenAgrees ==
  ASSUME file' = saved'
  PROVE  Agreed'
BY DEF Agreed, SameRecord, SameLines

LEMMA WayInit == Init => Way
<1> SUFFICES ASSUME Init PROVE Way
  OBVIOUS
<1>1. WayBack /\ Agreed
  BY BlankFields DEF Init, WayBack, NewLines, Boot, Agreed
<1> QED
  BY <1>1 DEF Init, Way, Calm, ProvenStage, SwitchStage, SettleStage, Settling

LEMMA TickWay ==
  ASSUME WayInv, ~edited, Tick \/ Unread \/ RecheckIdle
  PROVE  Way'
<1> USE DEF WayInv
<1>1. Agreed' /\ WayBack'
  <2>1. UNCHANGED <<live, file, saved, ready>> /\ Way
    BY DEF Tick, Unread, RecheckIdle, memory
  <2> QED BY <2>1 DEF Way, Agreed, WayBack, NewLines
<1>2. CASE Tick
  BY <1>1, <1>2, BetweenWay DEF Way, Tick, Calm, ProvenStage, Proven, Between, memory
<1>3. CASE Unread
  BY <1>1, <1>3, BetweenWay
     DEF Way, Unread, ReadFails, EndTick, Calm, ProvenStage, Proven, Between, memory
<1>4. ~RecheckIdle
  BY DEF RecheckIdle, Way, Calm
<1> QED BY <1>2, <1>3, <1>4

LEMMA InitWatchWay ==
  ASSUME WayInv, ~edited, InitWatch
  PROVE  Way'
<1> USE DEF WayInv
<1>1. ~GoneByHand(file) /\ ~(Own \notin live /\ file.applied = {})
  BY DEF Way, WayBack, GoneByHand
<1>2. ready' = TRUE /\ hand' = FALSE /\ UNCHANGED live /\ Way
  BY DEF InitWatch
<1>3. CASE /\ Own \in live /\ live \cap file.applied = {} /\ file.pending = ""
           /\ st' = Machine("primary", file.recent) /\ pc' = "probe" /\ UNCHANGED idle
           /\ file.mode = "fallback" /\ Save(Blank(file.recent))
  <2>1. NewLines = {}
    BY <1>2, <1>3 DEF Way, WayBack, NewLines
  <2>2. WayBack' /\ Agreed'
    BY <1>2, <1>3, <2>1, BlankFields, WrittenAgrees DEF WayBack, NewLines, Save
  <2>3. ProvenStage'
    BY <1>2, <1>3, BlankFields DEF ProvenStage, Proven, Save, Machine
  <2> QED BY <1>2, <1>3, <2>2, <2>3, BetweenWay DEF Way, Calm, Between
<1>4. CASE /\ Own \in live /\ file.pending = ""
           /\ st' = Machine("primary", file.recent) /\ pc' = "probe" /\ UNCHANGED idle
           /\ file.mode # "fallback" /\ saved' = file /\ UNCHANGED file
  <2>1. file.mode = "primary"
    BY <1>4, RecordFields DEF ServedInv, Typed, Modes
  <2>2. WayBack' /\ Agreed'
    BY <1>2, <1>4, WrittenAgrees DEF Way, WayBack, NewLines
  <2>3. ProvenStage'
    BY <1>2, <1>4, <2>1 DEF ProvenStage, Proven, Machine
  <2> QED BY <1>2, <1>4, <2>2, <2>3, BetweenWay DEF Way, Calm, Between
<1>5. CASE /\ saved' = [file EXCEPT !.pending = IF @ = "" THEN "mixed" ELSE @]
           /\ pc' = "reconcile" /\ UNCHANGED <<file, idle>>
  <2>1. /\ SameRecord(saved', file) /\ saved'.pending # ""
        /\ saved'.pending = file.pending \/ (saved'.pending = "mixed" /\ file.pending = "")
    BY <1>5 DEF SameRecord, SameLines, ServedInv, Typed, DnsTypeOK, Records
  <2>2. WayBack' /\ Agreed'
    BY <1>2, <1>5, <2>1 DEF Way, WayBack, NewLines, Agreed
  <2> QED BY <1>2, <1>5, <2>1, <2>2, BetweenWay DEF Way, Calm, ProvenStage, Between
<1> QED BY <1>1, <1>3, <1>4, <1>5 DEF InitWatch

\* Adopting the mode the router is in leaves a record that knows its lines.
LEMMA AdoptWay ==
  ASSUME WayInv, ~edited, ready, NEW mode \in Modes, Adopt(mode),
         (mode = "primary" <=> Own \in live), UNCHANGED <<live, ready, hand>>, pc' = "probe"
  PROVE  Way'
<1> USE DEF WayInv
<1>1. /\ file' = saved' /\ saved'.mode = mode /\ saved'.pending = "" /\ st'.mode = mode
      /\ idle' = idle /\ Way
  BY AdoptFields DEF ServedInv, Typed, Adopt
<1>2. WayBack'
  <2>1. CASE mode = "fallback"
    <3>1. SameLines(saved', saved)
      BY <2>1, AdoptFields DEF ServedInv, Typed
    <3> QED BY <1>1, <2>1, <3>1, SavedSays DEF WayBack, NewLines, SameLines, GoingToFallback
  <2>2. CASE mode = "primary"
    <3> DEFINE want == saved.shared \cup saved.removed
               left == WithIds(live, Ids(saved.applied)) \ want
               missing == want \ live
    <3>1. /\ Leftover(TargetGone(mode, saved), TargetWant(mode, saved)) = left
          /\ Missing(TargetWant(mode, saved)) = missing
      BY <2>2 DEF Leftover, Missing, TargetGone, TargetWant
    <3>2. want \subseteq Boot
      BY SavedSays, RecordFields DEF ServedInv, Typed, Boot
    <3>3. NewLines \subseteq left /\ NewLines \subseteq saved.applied
      BY <3>2, SavedSays DEF NewLines, WithIds, Ids
    <3>4. \/ SameLines(saved', saved) /\ saved'.left = left /\ saved'.missing = missing
          \/ saved' = Blank(saved.recent) /\ left = {}
      BY <3>1, AdoptFields DEF ServedInv, Typed
    <3>5. saved.shared \subseteq Boot /\ Own \in live
      BY <2>2, SavedSays
    <3> HIDE DEF want, left
    <3> QED
      BY <1>1, <3>2, <3>3, <3>4, <3>5, BlankFields DEF WayBack, NewLines, SameLines
  <2> QED BY <2>1, <2>2 DEF Modes
<1>3. ProvenStage'
  BY <1>1 DEF ProvenStage, Proven
<1> QED BY <1>1, <1>2, <1>3, WrittenAgrees, BetweenWay DEF Way, Calm, Between

LEMMA ReconcileWay ==
  ASSUME WayInv, ~edited, Reconcile
  PROVE  Way'
<1>1. /\ ready /\ UNCHANGED <<live, ready, hand>> /\ Way
  BY DEF WayInv, Way, Calm, Reconcile, Read
<1>2. /\ ~GoneByHand(saved)
      /\ Own \notin live => GoingToFallback(saved) /\ live \cap saved.foreign # {}
  BY <1>1, SavedSays
<1>3. \/ Own \in live /\ Adopt("primary") /\ pc' = "probe"
      \/ Own \notin live /\ Adopt("fallback") /\ pc' = "probe"
  BY <1>2 DEF Reconcile
<1> QED BY <1>1, <1>3, AdoptWay DEF Modes

LEMMA ProbeWay ==
  ASSUME WayInv, ~edited, Probe
  PROVE  Way'
<1>1. /\ pc = "probe" /\ Way /\ ready /\ Proven
      /\ UNCHANGED <<live, world, file, saved, ready, idle, job, hand, troubles>>
  BY DEF Probe, WayInv, Way, Calm, ProvenStage
<1>2. st'.mode = st.mode
  BY ObserveType DEF Probe, WayInv, ServedInv, Typed, DnsTypeOK, Machines, Modes
<1>3. /\ pc' \in {"forward", "return", "clean", "rest"}
      /\ pc' = "forward" => st.mode = "primary"
      /\ pc' = "return" => st.mode = "fallback"
  BY DEF Probe, Decide
<1>4. Agreed' /\ WayBack'
  BY <1>1 DEF Way, Agreed, WayBack, NewLines
<1>5. ProvenStage'
  BY <1>1, <1>2, <1>3 DEF ProvenStage, Proven
<1> QED BY <1>1, <1>3, <1>4, <1>5, BetweenWay DEF Way, Calm, Between

-----------------------------------------------------------------------------
(* The lines of the router while a switch is under way.                    *)

LEMMA AddSetLines ==
  ASSUME Way, pc = "addSet", live \subseteq live', live' \subseteq live \cup job.todo
  PROVE  Own \in live' /\ NewLines' \subseteq saved.applied
BY SavedSays DEF Way, Calm, SwitchStage, Forwarding, NewLines

\* A foreign line of the set that is on the router is one the watchdog added.
LEMMA CutOwnLines ==
  ASSUME WayInv, ~edited, pc = "cutOwn", live' \subseteq live, live \ live' \subseteq {Own}
  PROVE  /\ live' \cap saved.foreign \cap saved.applied # {}
         /\ NewLines' \subseteq saved.applied
<1>1. Way /\ ready
  BY DEF WayInv, Way, Calm
<1>2. PICK l \in live : l \in saved.foreign
  BY <1>1 DEF WayInv, ServedInv, StillServed, Way, Calm
<1>3. l \notin Boot /\ l # Own
  BY <1>2, RecordFields, DnsConstants DEF WayInv, ServedInv, Typed, KeptApart, Boot
<1>4. l \in live' \cap saved.foreign \cap saved.applied
  BY <1>1, <1>2, <1>3, SavedSays DEF NewLines
<1> QED BY <1>1, <1>4, SavedSays DEF NewLines

LEMMA CutHomeLines ==
  ASSUME WayInv, ~edited, pc \in {"cutSet", "cutBack"}, live' \subseteq live,
         \A l \in live \ live' : IdOf[l] \in Ids(job.cut)
  PROVE  Own \in live' /\ NewLines' \subseteq NewLines
<1>1. Own \in live
  BY DEF WayInv, Way, Calm, ServedInv, StillServed
<1>2. IdOf[Own] \notin Ids(job.cut)
  BY OwnId, RecordFields DEF WayInv, ServedInv, Typed, Apart, JobFits
<1> QED BY <1>1, <1>2 DEF NewLines

\* A step of the settling adds lines it wants, or removes what it is to remove.
LEMMA SettlingLines ==
  ASSUME WayInv, ~edited, pc \in Settling, live' \subseteq Lines,
         \/ live' = live
         \/ pc = "fill" /\ live \subseteq live' /\ live' \subseteq live \cup job.missing
         \/ /\ pc = "cutLeft" /\ live' \subseteq live
            /\ \A l \in live \ live' : IdOf[l] \in job.gone
  PROVE  /\ Away => /\ live' \cap saved.foreign \cap saved.applied # {}
                    /\ NewLines' \subseteq saved.applied
                    /\ Own \in saved.removed /\ GoingToFallback(saved)
                    /\ ~(saved.mode = "primary" /\ saved.pending = "")
                    /\ job.kind = "cleanup" => Own \notin live'
         /\ ~Away => /\ Own \in live' /\ NewLines' \subseteq NewLines
                     /\ job.want \subseteq Boot
                     /\ job.gone = Ids(saved.applied)
<1> USE DEF WayInv
<1>1. /\ Way /\ ready /\ ~hand /\ Aim
      /\ pc = "fill" => job.missing \subseteq job.want
  BY DEF Way, Calm, SettleStage, Settling
<1>2. job.gone = IF Away THEN {IdOf[Own]} ELSE Ids(saved.applied)
  BY DEF ServedInv, JobFits
<1>3. saved.removed \subseteq {Own} /\ live \subseteq Lines /\ job.kind \in Kinds
      /\ saved.foreign \subseteq Foreign /\ saved.mode \in Modes
      /\ Own \notin saved.applied \cup saved.shared
  BY RecordFields DEF ServedInv, Typed, KindFits, DnsTypeOK, Jobs, Kinds, Apart
<1>4. CASE Away
  <2>1. /\ live \cap saved.foreign \cap saved.applied # {}
        /\ job.want \subseteq saved.applied \cup Boot
        /\ Own \in saved.removed /\ GoingToFallback(saved)
        /\ ~(saved.mode = "primary" /\ saved.pending = "")
        /\ job.kind = "cleanup" => Own \notin live /\ Own \notin job.want
    <3>1. CASE job.kind = "forward"
      BY <1>1, <3>1 DEF Aim, GoingToFallback
    <3>2. CASE job.kind = "cleanup" /\ saved.mode = "fallback"
      BY <1>1, <1>3, <3>2, SavedSays DEF Aim, Proven, TargetWant, GoingToFallback
    <3> QED BY <1>4, <3>1, <3>2 DEF Away
  <2>2. \A l \in live \ live' : l = Own
    BY <1>2, <1>3, <1>4, OwnId
  <2>3. Own \notin Foreign
    BY LineFacts
  <2>4. live' \cap saved.foreign \cap saved.applied # {}
    BY <1>3, <2>1, <2>2, <2>3
  <2>5. NewLines' \subseteq saved.applied
    BY <1>1, <2>1, SavedSays DEF NewLines
  <2>6. job.kind = "cleanup" => Own \notin live'
    BY <1>1, <2>1
  <2> QED BY <1>4, <2>1, <2>4, <2>5, <2>6
<1>5. CASE ~Away
  <2>1. Own \in live /\ job.want \subseteq Boot
    <3>1. Own \in live
      BY <1>1, <1>5 DEF ServedInv, StillServed
    <3>2. saved.shared \cup saved.removed \subseteq Boot
      BY <1>1, <1>3, SavedSays DEF Boot
    <3>3. CASE job.kind \in {"return", "rollback"}
      BY <1>1, <3>1, <3>3 DEF Aim, Returning
    <3>4. CASE job.kind = "cleanup" /\ saved.mode = "primary"
      BY <1>1, <3>1, <3>2, <3>4 DEF Aim, TargetWant
    <3> QED BY <1>3, <1>5, <3>3, <3>4 DEF Away, Kinds, Modes
  <2>2. IdOf[Own] \notin job.gone
    BY <1>2, <1>3, <1>5, OwnId, RecordFields DEF ServedInv, Typed
  <2> QED BY <1>1, <1>2, <1>5, <2>1, <2>2 DEF NewLines
<1> QED BY <1>4, <1>5

-----------------------------------------------------------------------------
(* Forward.                                                                *)

LEMMA ToFallbackWay ==
  ASSUME WayInv, ~edited, ToFallback
  PROVE  Way'
<1> USE DEF WayInv
<1>1. /\ pc = "forward" /\ Way /\ ready /\ Proven /\ saved.mode = "primary" /\ Own \in live
      /\ UNCHANGED <<live, world, ready>> /\ hand' = hand
  BY DEF ToFallback, Way, Calm, ProvenStage, Proven, Read, ReadFails
<1>2. CASE st' = Observe(st, FALSE) /\ EndTick /\ UNCHANGED <<file, saved, idle>>
  <2>1. st'.mode = st.mode
    BY <1>2, ObserveType DEF ServedInv, Typed, DnsTypeOK, Machines, Modes
  <2>2. Agreed' /\ WayBack' /\ ProvenStage'
    BY <1>1, <1>2, <2>1 DEF EndTick, Way, Agreed, WayBack, NewLines, ProvenStage, Proven
  <2> QED BY <1>1, <1>2, <2>2, BetweenWay DEF EndTick, Way, Calm, Between
<1>3. ASSUME NEW set \in UNION {Trims(s) : s \in FallbackSets}, Save(Forward(set)),
             job' = [NoJob EXCEPT !.todo = set \ live, !.want = set],
             pc' = "addSet", UNCHANGED <<st, idle>>
      PROVE  Way'
  <2> DEFINE ours == {l \in saved.left \cap live : IdOf[l] # IdOf[Own]}
             applied == (set \ live) \cup ours
  <2>1. NewLines \subseteq ours /\ saved.missing \subseteq Boot /\ saved.shared \subseteq Boot
    <3>1. NewLines \subseteq saved.left
      BY <1>1, SavedSays DEF Proven
    <3>2. \A l \in NewLines : IdOf[l] # IdOf[Own]
      BY OwnId DEF NewLines, Boot, ServedInv, Typed, DnsTypeOK
    <3> QED BY <1>1, <3>1, <3>2, SavedSays DEF NewLines, Proven
  <2>2. /\ file' = saved' /\ saved'.mode = "primary" /\ saved'.pending = "forward"
        /\ Own \in saved'.removed /\ saved'.applied = applied
        /\ saved'.shared = (WithIds(live, Ids(applied)) \ (ours \cup {Own}))
                 \cup (saved.shared \cap live) \cup (saved.missing \ {Own})
    BY <1>3 DEF Save, Forward
  <2>3. job'.todo = set \ live /\ job'.want = set
    BY <1>3 DEF NoJob
  <2>4. saved'.shared \subseteq Boot
    BY <2>1, <2>2 DEF WithIds, NewLines
  <2>5. WayBack'
    BY <1>1, <2>1, <2>2, <2>4 DEF WayBack, NewLines
  <2>6. job'.want \subseteq saved'.applied \cup Boot
    BY <2>1, <2>2, <2>3 DEF NewLines
  <2>7. SwitchStage'
    BY <1>1, <1>3, <2>2, <2>3, <2>6 DEF SwitchStage, Forwarding, Proven
  <2> QED
    BY <1>1, <1>3, <2>2, <2>5, <2>7, WrittenAgrees
       DEF Way, Calm, ProvenStage, SettleStage, Settling
<1> QED BY <1>1, <1>2, <1>3 DEF ToFallback

LEMMA AddSetWay ==
  ASSUME WayInv, ~edited, AddSet
  PROVE  Way'
<1>1. /\ live \subseteq live' /\ live' \subseteq live \cup job.todo /\ hand' = hand
      /\ UNCHANGED <<file, memory, job>> /\ pc = "addSet" /\ pc' = "checkSet" /\ Way /\ ready
  BY JobFields, AddType DEF AddSet, WayInv, ServedInv, Typed, Way, Calm
<1>2. Own \in live' /\ NewLines' \subseteq saved.applied
  BY <1>1, AddSetLines
<1>3. Forwarding /\ job.want \subseteq saved.applied \cup Boot
  BY <1>1 DEF Way, SwitchStage
<1>4. WayBack' /\ Agreed'
  BY <1>1, <1>2, <1>3 DEF memory, Way, Agreed, SameRecord, SameLines, WayBack, Forwarding
<1>5. SwitchStage'
  BY <1>1, <1>2, <1>3 DEF memory, SwitchStage, Forwarding
<1> QED
  BY <1>1, <1>4, <1>5 DEF memory, Way, Calm, ProvenStage, SettleStage, Settling

LEMMA CheckSetWay ==
  ASSUME WayInv, ~edited, CheckSet
  PROVE  Way'
<1>1. /\ UNCHANGED <<live, world, file, memory>> /\ hand' = hand /\ pc = "checkSet"
      /\ Way /\ ready /\ Forwarding /\ job.want \subseteq saved.applied \cup Boot
  BY ReadingType DEF CheckSet, WayInv, ServedInv, Typed, Way, Calm, SwitchStage
<1>2. WayBack' /\ Agreed' /\ Forwarding'
  BY <1>1 DEF memory, Way, Agreed, WayBack, NewLines, Forwarding
<1>3. \/ pc' = "rollback"
      \/ pc' = "cutOwn" /\ job'.want = job.want
  BY <1>1, FinishForwardType, JobFields DEF CheckSet, WayInv, ServedInv, Typed, Forwarding
<1> QED
  BY <1>1, <1>2, <1>3
     DEF memory, Way, Calm, ProvenStage, SwitchStage, SettleStage, Settling

LEMMA CutOwnWay ==
  ASSUME WayInv, ~edited, CutOwn
  PROVE  Way'
<1>1. /\ live' \subseteq live /\ live \ live' \subseteq {Own} /\ hand' = hand
      /\ UNCHANGED <<file, memory, job>> /\ pc = "cutOwn" /\ pc' = "settle"
      /\ Way /\ ready /\ Forwarding /\ job.want \subseteq saved.applied \cup Boot
      /\ job.kind = "forward"
  BY CutOwnLeaves DEF CutOwn, WayInv, Way, Calm, SwitchStage, ServedInv, Typed, KindFits
<1>2. /\ live' \cap saved.foreign \cap saved.applied # {}
      /\ NewLines' \subseteq saved.applied
  BY <1>1, CutOwnLines
<1>3. WayBack' /\ Agreed'
  BY <1>1, <1>2
     DEF memory, Way, Agreed, SameRecord, SameLines, WayBack, Forwarding, GoingToFallback
<1>4. Aim'
  BY <1>1, <1>2 DEF memory, Aim, Forwarding, GoingToFallback
<1> QED
  BY <1>1, <1>3, <1>4 DEF memory, Way, Calm, ProvenStage, SwitchStage, SettleStage, Settling

LEMMA RollbackWay ==
  ASSUME WayInv, ~edited, RollbackForward
  PROVE  Way'
<1>1. /\ UNCHANGED <<live, world, file, memory>> /\ hand' = hand /\ pc = "rollback"
      /\ pc' = "cutBack" /\ Way /\ ready /\ Forwarding
  BY ReadingType DEF RollbackForward, WayInv, ServedInv, Typed, Way, Calm, SwitchStage
<1>2. WayBack' /\ Agreed' /\ Forwarding'
  BY <1>1 DEF memory, Way, Agreed, WayBack, NewLines, Forwarding
<1>3. NewLines' \subseteq job'.cut
  BY <1>1, SavedSays DEF RollbackForward, NoJob, NewLines
<1> QED
  BY <1>1, <1>2, <1>3
     DEF memory, Way, Calm, ProvenStage, SwitchStage, SettleStage, Settling

LEMMA CutBackWay ==
  ASSUME WayInv, ~edited, CutBack
  PROVE  Way'
<1>1. /\ live' \subseteq live /\ hand' = hand
      /\ \A l \in live \ live' : IdOf[l] \in Ids(job.cut)
      /\ UNCHANGED <<file, memory>> /\ pc = "cutBack" /\ pc' = "settle"
      /\ Way /\ ready /\ Forwarding /\ NewLines \subseteq job.cut
  BY RemoveType DEF CutBack, WayInv, ServedInv, Typed, Way, Calm, SwitchStage
<1>2. Own \in live' /\ NewLines' \subseteq NewLines
  BY <1>1, CutHomeLines
<1>3. job'.kind = "rollback" /\ job'.want = {Own} \cup saved.shared /\ job'.cut = job.cut
  BY DEF CutBack, WayInv, ServedInv, Typed, DnsTypeOK, Jobs
<1>4. WayBack' /\ Agreed'
  BY <1>1, <1>2 DEF memory, Way, Agreed, SameRecord, SameLines, WayBack
<1>5. Aim'
  BY <1>1, <1>2, <1>3, SavedSays DEF memory, Aim, Forwarding, Boot
<1> QED
  BY <1>1, <1>4, <1>5 DEF memory, Way, Calm, ProvenStage, SwitchStage, SettleStage, Settling

-----------------------------------------------------------------------------
(* Return, and the cleanup.                                                *)

LEMMA ToPrimaryWay ==
  ASSUME WayInv, ~edited, ToPrimary
  PROVE  Way'
<1> USE DEF WayInv
<1>1. /\ pc = "return" /\ Way /\ ready /\ Proven /\ saved.mode = "fallback" /\ Own \notin live
      /\ Own \in saved.removed /\ UNCHANGED <<live, world, ready, idle>> /\ hand' = hand
  BY SavedSays DEF ToPrimary, Way, Calm, ProvenStage, Proven, Read, ReadFails
<1>2. CASE st' = Observe(st, TRUE) /\ EndTick /\ UNCHANGED <<file, saved>>
  <2>1. st'.mode = st.mode
    BY <1>2, ObserveType DEF ServedInv, Typed, DnsTypeOK, Machines, Modes
  <2>2. Agreed' /\ WayBack' /\ ProvenStage'
    BY <1>1, <1>2, <2>1 DEF EndTick, Way, Agreed, WayBack, NewLines, ProvenStage, Proven
  <2> QED BY <1>1, <1>2, <2>2, BetweenWay DEF EndTick, Way, Calm, Between
<1>3. CASE Save([saved EXCEPT !.pending = "return"]) /\ FinishReturn(TRUE, TRUE) /\ UNCHANGED st
  <2>1. /\ SameRecord(saved', saved) /\ saved'.pending = "return" /\ file' = saved'
    BY <1>3 DEF Save, SameRecord, SameLines, ServedInv, Typed, DnsTypeOK, Records
  <2>2. /\ pc' = "putOwn" /\ job'.want = saved.removed \cup saved.shared
        /\ job'.todo = saved.removed \ live
    BY <1>1, <1>3, FinishReturnType DEF ServedInv, Typed, FinishReturn
  <2>3. saved.removed \subseteq {Own} /\ saved.shared \subseteq Boot
    BY <1>1, SavedSays, RecordFields DEF ServedInv, Typed
  <2>4. WayBack'
    BY <1>1, <2>1, SavedSays DEF SameRecord, SameLines, WayBack, NewLines, GoingToFallback
  <2>5. SwitchStage'
    BY <1>1, <1>3, <2>1, <2>2, <2>3 DEF SameRecord, SwitchStage, Returning, Proven, Boot
  <2> QED
    BY <1>1, <2>1, <2>2, <2>4, <2>5, WrittenAgrees
       DEF Way, Calm, ProvenStage, SettleStage, Settling
<1>4. ~(saved.removed \subseteq live)
  BY <1>1
<1> QED BY <1>1, <1>2, <1>3, <1>4 DEF ToPrimary

LEMMA PutOwnWay ==
  ASSUME WayInv, ~edited, PutOwn
  PROVE  Way'
<1>1. /\ live \subseteq live' /\ live' \subseteq live \cup job.todo /\ hand' = hand
      /\ UNCHANGED <<file, memory, job>> /\ pc = "putOwn" /\ pc' = "checkOwn" /\ Way /\ ready
      /\ Returning /\ job.todo \subseteq {Own}
  BY JobFields, AddType DEF PutOwn, WayInv, ServedInv, Typed, Way, Calm, SwitchStage
<1>2. NewLines' \subseteq NewLines
  BY <1>1 DEF NewLines, Boot
<1>3. WayBack' /\ Agreed'
  BY <1>1, <1>2 DEF memory, Way, Agreed, SameRecord, SameLines, WayBack
<1>4. Returning'
  BY <1>1 DEF memory, Returning
<1> QED
  BY <1>1, <1>3, <1>4
     DEF memory, Way, Calm, ProvenStage, SwitchStage, SettleStage, Settling

LEMMA CheckOwnWay ==
  ASSUME WayInv, ~edited, CheckOwn
  PROVE  Way'
<1> USE DEF WayInv
<1>1. /\ pc = "checkOwn" /\ Way /\ ready /\ Returning
      /\ UNCHANGED <<live, world, ready, idle>> /\ hand' = hand
  BY DEF CheckOwn, Way, Calm, SwitchStage, Read, ReadFails, memory
<1>2. CASE /\ Own \in live /\ UNCHANGED <<file, memory>>
           /\ job' = [job EXCEPT !.todo = {}, !.cut = live \cap saved.applied]
           /\ pc' = "cutSet"
  <2>1. job'.want = job.want /\ job'.cut = live \cap saved.applied
    BY <1>2 DEF ServedInv, Typed, DnsTypeOK, Jobs
  <2>2. WayBack' /\ Agreed' /\ Returning'
    BY <1>1, <1>2, <2>1 DEF memory, Way, Agreed, WayBack, NewLines, Returning
  <2>3. NewLines' \subseteq job'.cut
    BY <1>1, <2>1, SavedSays DEF NewLines
  <2> QED
    BY <1>1, <1>2, <2>2, <2>3
       DEF memory, Way, Calm, ProvenStage, SwitchStage, SettleStage, Settling
<1>3. CASE /\ EndTick /\ st' \in {st, Observe(st, TRUE)}
           /\ \E p \in {"", "return"} :
                /\ Save([saved EXCEPT !.pending = p])
                /\ p = "" => Own \notin live
  <2>1. /\ SameRecord(saved', saved) /\ file' = saved'
        /\ saved'.pending \in {"", "return"} /\ (saved'.pending = "" => Own \notin live)
    BY <1>3 DEF Save, SameRecord, SameLines, ServedInv, Typed, DnsTypeOK, Records
  <2>2. st'.mode = st.mode
    BY <1>3, ObserveType DEF ServedInv, Typed, DnsTypeOK, Machines, Modes
  <2>3. WayBack'
    BY <1>1, <2>1, SavedSays
       DEF SameRecord, SameLines, WayBack, NewLines, GoingToFallback, Returning
  <2>4. ProvenStage'
    BY <1>1, <1>3, <2>1, <2>2 DEF EndTick, SameRecord, ProvenStage, Proven, Returning
  <2> QED
    BY <1>1, <1>3, <2>1, <2>3, <2>4, WrittenAgrees, BetweenWay
       DEF EndTick, Way, Calm, Between
<1>4. Proves("fallback", saved) => Own \notin live
  BY DEF Proves
<1> QED BY <1>1, <1>2, <1>3, <1>4 DEF CheckOwn

LEMMA CutSetWay ==
  ASSUME WayInv, ~edited, CutSet
  PROVE  Way'
<1>1. /\ live' \subseteq live /\ hand' = hand
      /\ \A l \in live \ live' : IdOf[l] \in Ids(job.cut)
      /\ UNCHANGED <<file, memory, job>> /\ pc = "cutSet" /\ pc' = "settle"
      /\ Way /\ ready /\ Returning /\ NewLines \subseteq job.cut /\ job.kind = "return"
  BY RemoveType DEF CutSet, WayInv, ServedInv, Typed, KindFits, Way, Calm, SwitchStage
<1>2. Own \in live' /\ NewLines' \subseteq NewLines
  BY <1>1, CutHomeLines
<1>3. WayBack' /\ Agreed'
  BY <1>1, <1>2 DEF memory, Way, Agreed, SameRecord, SameLines, WayBack
<1>4. Aim'
  BY <1>1, <1>2 DEF memory, Aim, Returning
<1> QED
  BY <1>1, <1>3, <1>4 DEF memory, Way, Calm, ProvenStage, SwitchStage, SettleStage, Settling

LEMMA CleanupWay ==
  ASSUME WayInv, ~edited, CleanupStep
  PROVE  Way'
<1> USE DEF WayInv
<1>1. /\ pc = "clean" /\ Way /\ ready /\ Proven
      /\ UNCHANGED <<live, world, ready>> /\ hand' = hand
  BY DEF CleanupStep, Way, Calm, ProvenStage, Read
<1>2. Proves(saved.mode, saved)
  BY <1>1, SavedSays, RecordFields DEF Proves, Proven, Modes, ServedInv, Typed
<1>3. /\ job' = [NoJob EXCEPT !.kind = "cleanup",
                   !.gone = TargetGone(saved.mode, saved),
                   !.want = TargetWant(saved.mode, saved)]
      /\ pc' = "settle" /\ UNCHANGED <<file, saved, st, idle>>
  BY <1>2, RecordFields DEF CleanupStep, ServedInv, Typed, Modes
<1>4. job'.kind = "cleanup" /\ job'.want = TargetWant(saved.mode, saved)
  BY <1>3 DEF NoJob
<1>5. WayBack' /\ Agreed' /\ Aim'
  BY <1>1, <1>3, <1>4 DEF Way, Agreed, WayBack, NewLines, Aim, Proven, TargetWant
<1> QED
  BY <1>1, <1>3, <1>5 DEF Way, Calm, ProvenStage, SwitchStage, SettleStage, Settling

-----------------------------------------------------------------------------
(* The settling.                                                           *)

\* What the watchdog still has on the router is what it finds left over.
LEMMA LeftCovers ==
  ASSUME job.gone = Ids(saved.applied), job.want \subseteq Boot, NewLines' \subseteq saved.applied
  PROVE  NewLines' \subseteq LeftNow(live')
BY DEF LeftNow, WithIds, Ids, NewLines

LEMMA SettledWay ==
  ASSUME WayInv, ~edited, pc \in Settling, live' \subseteq Lines,
         UNCHANGED <<world, ready, idle, hand>>,
         NEW seen \in BOOLEAN, NEW left, NEW missing, Settled(seen, left, missing),
         Away => /\ live' \cap saved.foreign \cap saved.applied # {}
                 /\ NewLines' \subseteq saved.applied
                 /\ Own \in saved.removed /\ GoingToFallback(saved)
                 /\ job.kind = "cleanup" => Own \notin live',
         ~Away => /\ Own \in live' /\ NewLines' \subseteq NewLines /\ job.want \subseteq Boot
                  /\ missing \subseteq job.want
                  /\ seen => NewLines' \subseteq left
                  /\ ~seen => left = {} \/ NewLines' \subseteq left
  PROVE  Way'
<1> USE DEF WayInv
<1>1. /\ Way /\ ready /\ Aim /\ job.kind \in Kinds /\ saved.mode \in Modes
      /\ pc' = "rest" /\ job' = NoJob
  BY RecordFields DEF Way, Calm, SettleStage, Settling, ServedInv, Typed, KindFits, DnsTypeOK, Jobs,
     Kinds, Settled, EndTick
<1>2. saved.shared \subseteq Boot /\ NewLines \subseteq saved.applied
  BY <1>1, SavedSays
<1>3. ASSUME Agreed', WayBack', saved'.pending = "" => Proven'
      PROVE  Way'
  BY <1>1, <1>3, BetweenWay DEF Way, Calm, ProvenStage, Between
<1>4. CASE job.kind = "forward"
  <2>1. /\ file' = saved' /\ SameLines(saved', saved)
        /\ saved'.mode = "fallback" /\ st'.mode = "fallback"
        /\ saved'.pending = "" => Own \notin live'
    BY <1>4, SettledForward DEF ServedInv, Typed
  <2>2. WayBack'
    BY <1>2, <1>4, <2>1 DEF Away, WayBack, SameLines, GoingToFallback
  <2> QED BY <1>3, <2>1, <2>2, WrittenAgrees DEF Proven
<1>5. CASE job.kind \in {"return", "rollback"}
  <2>1. /\ file' = saved' /\ saved'.mode = "primary" /\ st'.mode = "primary"
        /\ \/ /\ SameLines(saved', saved)
              /\ saved'.left = Rest(seen, left) /\ saved'.missing = missing
           \/ saved' \in {Blank(job.recent)} /\ Rest(seen, left) = {}
    BY <1>1, <1>5, SettledReturn, SettledRollback DEF ServedInv, Typed, Aim, Forwarding
  <2>2. /\ Own \in live' /\ NewLines' \subseteq NewLines /\ missing \subseteq Boot
        /\ NewLines' \subseteq Rest(seen, left)
    BY <1>1, <1>5 DEF Away, Aim, Rest
  <2>3. WayBack'
    BY <1>2, <2>1, <2>2, BlankFields DEF WayBack, SameLines
  <2> QED BY <1>3, <2>1, <2>2, <2>3, WrittenAgrees DEF Proven
<1>6. CASE job.kind = "cleanup"
  <2>1. Proven /\ (saved.mode = "primary" <=> Own \in live')
    BY <1>1, <1>6 DEF Aim, Away, Modes
  <2>2. CASE ~seen /\ saved' = saved /\ file' = file
    <3>1. st' = st
      BY <1>6, SettledCleanup DEF ServedInv, Typed
    <3>2. WayBack' /\ Agreed'
      <4>1. CASE Away
        BY <1>1, <1>2, <1>6, <2>1, <2>2, <4>1
           DEF Way, Agreed, SameRecord, SameLines, WayBack, Away, GoingToFallback
      <4>2. CASE ~Away
        BY <1>1, <1>2, <2>2, <4>2 DEF Way, Agreed, SameRecord, SameLines, WayBack
      <4> QED BY <4>1, <4>2
    <3> QED BY <1>3, <2>1, <2>2, <3>1, <3>2 DEF Proven
  <2>3. CASE /\ seen /\ file' = saved' /\ SameLines(saved', saved) /\ st' = st
             /\ saved'.mode = saved.mode /\ saved'.pending = saved.pending
             /\ saved'.left = left /\ saved'.missing = missing
    <3>1. WayBack'
      BY <1>1, <1>2, <1>6, <2>1, <2>3 DEF WayBack, SameLines, Away, GoingToFallback, Modes, Proven
    <3> QED BY <1>3, <2>1, <2>3, <3>1, WrittenAgrees DEF Proven
  <2>4. CASE /\ seen /\ file' = saved' /\ left = {} /\ st' = st
             /\ saved' = Blank(saved.recent) /\ saved.mode = "primary"
    <3>1. Own \in live' /\ NewLines' = {}
      BY <1>6, <2>1, <2>4 DEF Away
    <3>2. WayBack'
      BY <2>4, <3>1, BlankFields DEF WayBack
    <3> QED BY <1>3, <2>1, <2>4, <3>1, <3>2, WrittenAgrees, BlankFields DEF Proven
  <2> QED BY <1>6, <2>2, <2>3, <2>4, SettledCleanup DEF ServedInv, Typed
<1> QED BY <1>1, <1>4, <1>5, <1>6 DEF Kinds

LEMMA SettleWay ==
  ASSUME WayInv, ~edited, Settle \/ CutLeft \/ Fill
  PROVE  Way'
<1> USE DEF WayInv
<1>1. /\ pc \in Settling /\ Way /\ ready /\ Aim
  BY DEF Settle, CutLeft, Fill, Way, Calm, SettleStage, Settling
<1>2. /\ job.kind # "" /\ UNCHANGED <<world, ready, idle, hand>> /\ live' \subseteq Lines
      /\ \/ live' = live
         \/ pc = "fill" /\ live \subseteq live' /\ live' \subseteq live \cup job.missing
         \/ /\ pc = "cutLeft" /\ live' \subseteq live
            /\ \A l \in live \ live' : IdOf[l] \in job.gone
      /\ \/ Settled(TRUE, LeftNow(live'), MissingNow(live'))
         \/ pc = "settle" /\ Settled(FALSE, {}, {})
         \/ pc # "settle" /\ Settled(FALSE, job.left, job.missing)
         \/ /\ pc' \in {"cutLeft", "fill"} /\ UNCHANGED <<file, saved, st>>
            /\ job'.kind = job.kind /\ job'.gone = job.gone /\ job'.want = job.want
            /\ job'.cut = job.cut
            /\ job'.left = LeftNow(live') /\ job'.missing = MissingNow(live')
  BY SettlingMoves DEF ServedInv, JobFits
<1>3. /\ Away => /\ live' \cap saved.foreign \cap saved.applied # {}
                 /\ NewLines' \subseteq saved.applied
                 /\ Own \in saved.removed /\ GoingToFallback(saved)
                 /\ ~(saved.mode = "primary" /\ saved.pending = "")
                 /\ job.kind = "cleanup" => Own \notin live'
      /\ ~Away => /\ Own \in live' /\ NewLines' \subseteq NewLines
                  /\ job.want \subseteq Boot
                  /\ job.gone = Ids(saved.applied)
  BY <1>1, <1>2, SettlingLines
<1>4. /\ ~Away => NewLines' \subseteq LeftNow(live')
      /\ MissingNow(live') \subseteq job.want
  BY <1>1, <1>3, LeftCovers, SavedSays DEF MissingNow
<1>5. CASE Settled(TRUE, LeftNow(live'), MissingNow(live'))
  BY <1>1, <1>2, <1>3, <1>4, <1>5, SettledWay
<1>6. CASE pc = "settle" /\ Settled(FALSE, {}, {})
  BY <1>1, <1>2, <1>3, <1>6, SettledWay
<1>7. CASE pc # "settle" /\ Settled(FALSE, job.left, job.missing)
  <2>1. /\ job.missing \subseteq job.want
        /\ ~Away => NewLines \subseteq job.left
    BY <1>1, <1>7 DEF Way, SettleStage, Settling
  <2> QED BY <1>1, <1>2, <1>3, <1>7, <2>1, SettledWay
<1>8. CASE /\ pc' \in {"cutLeft", "fill"} /\ UNCHANGED <<file, saved, st>>
           /\ job'.kind = job.kind /\ job'.gone = job.gone /\ job'.want = job.want
           /\ job'.cut = job.cut
           /\ job'.left = LeftNow(live') /\ job'.missing = MissingNow(live')
  <2>1. Away' = Away
    BY <1>8 DEF Away
  <2>2. WayBack' /\ Agreed'
    <3>1. CASE Away
      BY <1>1, <1>2, <1>3, <1>8, <3>1
         DEF Way, Agreed, SameRecord, SameLines, WayBack, GoingToFallback
    <3>2. CASE ~Away
      BY <1>1, <1>2, <1>3, <1>8, <3>2 DEF Way, Agreed, SameRecord, SameLines, WayBack
    <3> QED BY <3>1, <3>2
  <2>3. Aim'
    <3>1. CASE job.kind = "forward"
      BY <1>1, <1>3, <1>8, <3>1 DEF Aim, Away
    <3>2. CASE job.kind = "cleanup"
      <4>1. Proven /\ job.want = TargetWant(saved.mode, saved) /\ saved.mode \in Modes
        BY <1>1, <3>2, RecordFields DEF Aim, ServedInv, Typed
      <4>2. (saved.mode = "primary" <=> Own \in live')
        BY <1>3, <3>2, <4>1 DEF Away, Modes
      <4>3. Proven'
        BY <1>8, <4>1, <4>2 DEF Proven
      <4> QED BY <1>8, <3>2, <4>1, <4>3 DEF Aim
    <3>3. CASE job.kind \in {"return", "rollback"}
      BY <1>1, <1>3, <1>8, <3>3 DEF Aim, Away, Returning, Forwarding
    <3>4. job.kind \in Kinds
      BY <1>2 DEF ServedInv, Typed, DnsTypeOK, Jobs, Kinds
    <3> QED BY <3>1, <3>2, <3>3, <3>4 DEF Kinds
  <2>4. SettleStage'
    BY <1>4, <1>8, <2>1, <2>3 DEF SettleStage
  <2> QED
    BY <1>1, <1>2, <1>8, <2>2, <2>4 DEF Way, Calm, ProvenStage, SwitchStage
<1> QED BY <1>2, <1>5, <1>6, <1>7, <1>8

-----------------------------------------------------------------------------
(* Crashes, reboots and the rest of the world.                             *)

\* A batch cut in the middle leaves the router in a state the file explains.
LEMMA HalfwayLines ==
  ASSUME WayInv, ~edited, pc # "down", live' \in Halfway
  PROVE  WayBack' \/ UNCHANGED <<live, file>> \/ file' # file
<1> SUFFICES ASSUME file' = file, live' # live PROVE WayBack'
  BY DEF WayInv
<1> USE DEF WayInv
<1>1. /\ Way /\ DnsTypeOK
      /\ pc # "rest" =>
           /\ ready /\ SameRecord(saved, file)
           /\ saved.pending = file.pending \/ (saved.pending = "mixed" /\ file.pending = "")
  BY DEF Way, Calm, Agreed, ServedInv, Typed
<1>2. CASE pc = "addSet"
  <2>1. live \subseteq live' /\ live' \subseteq live \cup job.todo
    BY <1>1, <1>2, AddedType, JobFields DEF Halfway
  <2>2. Own \in live' /\ NewLines' \subseteq saved.applied
    BY <1>1, <1>2, <2>1, AddSetLines
  <2>3. Forwarding
    BY <1>1, <1>2 DEF Way, SwitchStage
  <2> QED BY <1>1, <1>2, <2>2, <2>3 DEF Way, WayBack, SameRecord, SameLines, Forwarding
<1>3. CASE pc = "putOwn"
  <2>1. live \subseteq live' /\ live' \subseteq live \cup job.todo
    BY <1>1, <1>3, AddedType, JobFields DEF Halfway
  <2>2. NewLines' \subseteq NewLines
    BY <1>1, <1>3, <2>1 DEF Way, SwitchStage, NewLines, Boot
  <2> QED BY <1>1, <2>1, <2>2 DEF Way, WayBack
<1>4. CASE pc = "cutOwn"
  <2>1. /\ live' \subseteq live /\ live' \subseteq Lines
        /\ \A l \in live \ live' : IdOf[l] \in Ids({Own})
    BY <1>1, <1>4, RemovedType DEF Halfway
  <2>2. live \ live' \subseteq {Own}
    <3>1. Ids({Own}) = {IdOf[Own]} /\ live \in SUBSET Lines
      BY <1>1 DEF Ids, DnsTypeOK
    <3>2. \A l \in live : IdOf[l] = IdOf[Own] => l = Own
      BY <3>1, OwnId
    <3> QED BY <2>1, <3>1, <3>2
  <2>3. /\ live' \cap saved.foreign \cap saved.applied # {}
        /\ NewLines' \subseteq saved.applied
    BY <1>4, <2>1, <2>2, CutOwnLines
  <2>4. Forwarding
    BY <1>1, <1>4 DEF Way, SwitchStage
  <2> QED
    BY <1>1, <1>4, <2>3, <2>4
       DEF Way, WayBack, SameRecord, SameLines, Forwarding, GoingToFallback
<1>5. CASE pc \in {"cutSet", "cutBack"}
  <2>1. /\ live' \subseteq live
        /\ \A l \in live \ live' : IdOf[l] \in Ids(job.cut)
    BY <1>1, <1>5, RemovedType DEF Halfway
  <2>2. Own \in live' /\ NewLines' \subseteq NewLines
    BY <1>5, <2>1, CutHomeLines
  <2> QED BY <1>1, <2>2 DEF Way, WayBack
<1>6. CASE pc \in {"cutLeft", "fill"}
  <2>1. /\ live' \subseteq Lines /\ pc \in Settling
        /\ \/ pc = "fill" /\ live \subseteq live' /\ live' \subseteq live \cup job.missing
           \/ /\ pc = "cutLeft" /\ live' \subseteq live
              /\ \A l \in live \ live' : IdOf[l] \in job.gone
    <3>1. CASE pc = "fill"
      BY <1>1, <3>1, AddedType, JobFields DEF Halfway, Settling
    <3>2. CASE pc = "cutLeft"
      <4>1. Ids(job.left) \subseteq job.gone
        BY <3>2 DEF ServedInv, JobFits
      <4> QED BY <1>1, <3>2, <4>1, RemovedType DEF Halfway, Settling
    <3> QED BY <1>6, <3>1, <3>2
  <2>2. /\ Away => /\ live' \cap saved.foreign \cap saved.applied # {}
                   /\ NewLines' \subseteq saved.applied
                   /\ Own \in saved.removed /\ GoingToFallback(saved)
                   /\ ~(saved.mode = "primary" /\ saved.pending = "")
        /\ ~Away => /\ Own \in live' /\ NewLines' \subseteq NewLines
    BY <2>1, SettlingLines
  <2>3. Away => saved.pending = file.pending \/ file.mode = "fallback"
    <3>1. Aim
      BY <1>1, <1>6 DEF Way, SettleStage, Settling
    <3> QED BY <1>1, <1>6, <3>1 DEF Away, Aim, GoingToFallback, SameRecord
  <2>4. CASE Away
    BY <1>1, <1>6, <2>2, <2>3, <2>4
       DEF Way, WayBack, SameRecord, SameLines, GoingToFallback
  <2>5. CASE ~Away
    BY <1>1, <1>6, <2>2, <2>5 DEF Way, WayBack
  <2> QED BY <2>4, <2>5
<1> QED BY <1>2, <1>3, <1>4, <1>5, <1>6 DEF Halfway

\* Only the router, the records and the stage of the watchdog matter.
LEMMA WayStutters ==
  ASSUME Way, UNCHANGED <<live, file, saved, st, ready, idle, pc, job, hand>>
  PROVE  Way'
<1>1. Calm' /\ Agreed' /\ WayBack' /\ NewLines' = NewLines
  BY DEF Way, Calm, Agreed, WayBack, NewLines
<1>2. (Proven => Proven') /\ (Forwarding => Forwarding') /\ (Returning => Returning') /\ (Away => Away')
  BY DEF Proven, Forwarding, Returning, Away
<1>3. ProvenStage'
  BY <1>2 DEF Way, ProvenStage
<1>4. SwitchStage'
  BY <1>1, <1>2 DEF Way, SwitchStage
<1>5. Aim => Aim'
  BY <1>1, <1>2 DEF Aim
<1>6. SettleStage'
  BY <1>1, <1>2, <1>5 DEF Way, SettleStage
<1> QED BY <1>1, <1>3, <1>4, <1>6 DEF Way

LEMMA WorldWay ==
  ASSUME WayInv, ~edited',
         Crash \/ Reboot \/ AgentStarts \/ Edit \/ OwnResolver \/ CooldownOver
  PROVE  Way'
<1> USE DEF WayInv
<1>1. /\ ~Edit /\ ~edited /\ Way
  BY DEF Edit, Crash, Reboot, AgentStarts, OwnResolver, CooldownOver, world
<1>2. CASE Crash \/ Reboot
  <2>1. /\ pc' = "down" /\ ready' = FALSE /\ idle' = FALSE /\ file' = file /\ ~hand'
    <3>1. CASE Crash
      BY <1>1, <3>1 DEF Crash, Dies, Way, Calm
    <3>2. CASE Reboot
      BY <3>2 DEF Reboot, Dies
    <3> QED BY <1>2, <3>1, <3>2
  <2>2. WayBack'
    <3>1. CASE Crash
      <4>1. WayBack' \/ UNCHANGED <<live, file>>
        BY <1>1, <2>1, <3>1, HalfwayLines DEF Crash
      <4> QED BY <1>1, <4>1 DEF Way, WayBack, NewLines
    <3>2. CASE Reboot
      <4>1. Own \in live' /\ NewLines' = {}
        BY <3>2 DEF Reboot, Boot, NewLines
      <4> QED BY <1>1, <2>1, <4>1 DEF Way, WayBack
    <3> QED BY <1>2, <3>1, <3>2
  <2> QED
    BY <2>1, <2>2, BetweenWay DEF Calm, Agreed, ProvenStage, Between
<1>3. CASE AgentStarts
  <2>1. UNCHANGED <<live, file, memory, hand>> /\ pc = "down" /\ pc' = "rest"
    BY <1>3 DEF AgentStarts
  <2>2. Agreed' /\ WayBack'
    BY <1>1, <2>1 DEF memory, Way, Agreed, WayBack, NewLines
  <2> QED
    BY <1>1, <2>1, <2>2, BetweenWay DEF memory, Way, Calm, ProvenStage, Between
<1>4. CASE OwnResolver
  BY <1>1, <1>4, WayStutters DEF OwnResolver, memory
<1>5. CASE CooldownOver
  <2>1. /\ SameRecord(saved', saved) /\ SameRecord(file', file) /\ st'.mode = st.mode
        /\ saved'.pending = saved.pending /\ file'.pending = file.pending
        /\ UNCHANGED <<live, ready, idle, pc, job, hand>>
    BY <1>5 DEF CooldownOver, SameRecord, SameLines, ServedInv, Typed, DnsTypeOK, Records
  <2>2. /\ Agreed' /\ WayBack'
    BY <1>1, <2>1 DEF SameRecord, SameLines, Way, Agreed, WayBack, NewLines, GoingToFallback
  <2>3. Proven' = Proven /\ Forwarding' = Forwarding /\ Returning' = Returning /\ Away' = Away
    BY <2>1 DEF SameRecord, SameLines, Proven, Forwarding, Returning, Away
  <2>4. ProvenStage' /\ SwitchStage'
    BY <1>1, <2>1, <2>3 DEF SameRecord, SameLines, Way, ProvenStage, SwitchStage, NewLines
  <2>5. Aim => Aim'
    BY <2>1, <2>3 DEF SameRecord, SameLines, Aim, NewLines, GoingToFallback, TargetWant
  <2>6. SettleStage'
    BY <1>1, <2>1, <2>3, <2>5 DEF Way, SettleStage, NewLines
  <2> QED BY <1>1, <2>1, <2>2, <2>4, <2>6 DEF Way, Calm
<1> QED BY <1>1, <1>2, <1>3, <1>4, <1>5

LEMMA WayNext == WayInv /\ [Next]_vars => WayInv'
<1> SUFFICES ASSUME WayInv, [Next]_vars PROVE WayInv'
  OBVIOUS
<1>1. KeptApart' /\ ServedInv'
  BY ServedNext DEF WayInv, KeptApart
<1>2. ASSUME ~edited' PROVE Way'
  <2>1. CASE Watch
    <3>1. ~edited
      BY <1>2, <2>1 DEF Watch, Tick, InitWatch, Unread, RecheckIdle, Reconcile, Probe,
         ToFallback, AddSet, CheckSet, CutOwn, RollbackForward, CutBack, ToPrimary, PutOwn,
         CheckOwn, CutSet, CleanupStep, Settle, CutLeft, Fill, world
    <3> QED
      BY <2>1, <3>1, TickWay, InitWatchWay, ReconcileWay, ProbeWay, ToFallbackWay, AddSetWay,
         CheckSetWay, CutOwnWay, RollbackWay, CutBackWay, ToPrimaryWay, PutOwnWay, CheckOwnWay,
         CutSetWay, CleanupWay, SettleWay DEF Watch
  <2>2. CASE Crash \/ Reboot \/ AgentStarts \/ Edit \/ OwnResolver \/ CooldownOver
    BY <1>2, <2>2, WorldWay
  <2>3. CASE UNCHANGED vars
    BY <1>2, <2>3, WayStutters DEF vars, WayInv
  <2> QED BY <2>1, <2>2, <2>3 DEF Next
<1> QED BY <1>1, <1>2 DEF WayInv

LEMMA WayAlways == KeptApart => (Spec => []WayInv)
<1>1. KeptApart /\ Init => WayInv
  BY ServedInit, WayInit DEF WayInv
<1> QED BY <1>1, WayNext, PTL DEF Spec

\* On a router nobody edits, the state file tells at every moment, a crash in
\* the middle of a switch included, that the own line is to be put back and
\* which lines are to be taken out (watch.go:606-617).
THEOREM WayBackKnown == KeptApart => (Spec => []RecordTellsWayBack)
<1>1. WayInv => RecordTellsWayBack
  BY DEF WayInv, Way, WayBack, NewLines, RecordTellsWayBack
<1> QED BY <1>1, WayAlways, PTL

\* Between the ticks a mode that is not pending is the one the router is in.
THEOREM ModeIsProven == KeptApart => (Spec => []ModeProven)
<1>1. WayInv => ModeProven
  <2> SUFFICES ASSUME WayInv, pc = "rest", ready, saved.pending = "", ~edited
               PROVE  /\ st.mode = saved.mode
                      /\ (saved.mode = "primary") <=> (Own \in live)
                      /\ saved.mode = "fallback" => live \cap Foreign # {}
    BY DEF ModeProven
  <2>1. Way /\ Proven
    BY DEF WayInv, Way, ProvenStage
  <2>2. saved.mode = "fallback" => live \cap Foreign # {}
    BY <2>1, SavedSays, RecordFields DEF Proven, WayInv, ServedInv, Typed
  <2>3. (saved.mode = "primary") <=> (Own \in live)
    BY <2>1 DEF Proven
  <2> QED BY <2>1, <2>2, <2>3 DEF Proven
<1> QED BY <1>1, WayAlways, PTL

\* The watchdog stops guarding only a router whose lines somebody has edited:
\* no crash, reboot or refused command makes it give its record up
\* (watch.go:1037-1053).
THEOREM GivesUpToPeople == KeptApart => (Spec => []GivesUpOnlyToPeople)
<1>1. WayInv => GivesUpOnlyToPeople
  BY DEF WayInv, Way, Calm, GivesUpOnlyToPeople
<1> QED BY <1>1, WayAlways, PTL
===============================================================================
