---------------------------- MODULE HealthProofs -----------------------------
(***************************************************************************)
(* Proofs about the daemon's view of the host's health: the internet       *)
(* probe, the collector and its report, and the layout of the manifests,   *)
(* for all delays, thresholds, readings and configurations.                *)
(***************************************************************************)
EXTENDS MCHealth, SequenceTheorems, WellFoundedInduction, TLAPS

-----------------------------------------------------------------------------
(* Sets of numbers.                                                        *)

\* A set of numbers with an element has a least one.
LEMMA Least ==
    ASSUME NEW T, T \subseteq Nat, T # {}
    PROVE  \E x \in T : \A y \in T : x <= y
<1>1. \E R : IsWellFoundedOn(R, Nat) /\ \A x, y \in Nat : <<y, x>> \in R <=> y < x
  <2> DEFINE Q == OpToRel(<, Nat)
  <2>1. IsWellFoundedOn(Q, Nat)
    BY NatLessThanWellFounded
  <2>2. \A x, y \in Nat : <<y, x>> \in Q <=> y < x
    BY DEF OpToRel
  <2> HIDE DEF Q
  <2> QED BY <2>1, <2>2
<1>2. PICK R : IsWellFoundedOn(R, Nat) /\ \A x, y \in Nat : <<y, x>> \in R <=> y < x
  BY <1>1
<1>3. \E x \in T : \A y \in T : ~(<<y, x>> \in R)
  BY <1>2, WFMin
<1>4. PICK x \in T : \A y \in T : ~(<<y, x>> \in R)
  BY <1>3
<1>5. ASSUME NEW y \in T PROVE x <= y
  <2>1. ~(y < x) /\ x \in Nat /\ y \in Nat
    BY <1>2, <1>4
  <2> QED BY <2>1
<1> QED BY <1>5

\* So a set of numbers with 0 and every successor holds them all.
LEMMA Induction ==
    ASSUME NEW N \in Nat, NEW T, 0 \in T, \A n \in 0..N : n > 0 /\ n - 1 \in T => n \in T
    PROVE  0..N \subseteq T
<1> DEFINE D == {n \in 0..N : n \notin T}
<1>1. SUFFICES ASSUME D # {} PROVE FALSE
  OBVIOUS
<1>2. D \subseteq Nat
  OBVIOUS
<1>3. PICK n \in D : \A k \in D : n <= k
  <2> HIDE DEF D
  <2> QED BY <1>1, <1>2, Least
<1>4. n \in 0..N /\ n \notin T /\ n # 0
  OBVIOUS
<1>5. n - 1 \in 0..N /\ ~(n <= n - 1)
  BY <1>4
<1>6. n - 1 \in T
  BY <1>3, <1>5
<1> QED BY <1>4, <1>6

\* A set of places in a sequence has a last one.
LEMMA Greatest ==
    ASSUME NEW n \in Nat, NEW T \in SUBSET (1..n), T # {}
    PROVE  \E x \in T : \A y \in T : y <= x
<1> DEFINE D == {n - x : x \in T}
<1>1. D \subseteq Nat /\ D # {}
  <2>1. \A x \in T : n - x \in Nat
    OBVIOUS
  <2> QED BY <2>1
<1>2. PICK d \in D : \A e \in D : d <= e
  <2> HIDE DEF D
  <2> QED BY <1>1, Least
<1>3. PICK x \in T : d = n - x
  OBVIOUS
<1>4. ASSUME NEW y \in T PROVE y <= x
  <2>1. n - x <= n - y
    BY <1>2, <1>3
  <2> QED BY <2>1
<1> QED BY <1>4

-----------------------------------------------------------------------------
(* The internet probe.  ProbeInv is inductive.                             *)

\* saturating_add keeps the counter in its range and never lowers it.
LEMMA SaturatingCount ==
    ASSUME TypeOK
    PROVE  /\ CountFailure \in 1..MaxCount
           /\ CountFailure <= consecutive_failures + 1
           /\ CountFailure >= consecutive_failures
           /\ FailedStatus(CountFailure) \in {"Missed", "Failed"}
           /\ FailedStatus(CountFailure) = "Failed" <=> CountFailure >= FailuresBeforeFailed
BY ProbeAssumption DEF TypeOK, CountFailure, FailedStatus

\* What Launch leaves of the schedule: a ping starts only when it is due, with the
\* generation it is given.
LEMMA LaunchEffect ==
    ASSUME TypeOK, NEW due \in Nat, NEW current \in Nat, Launch(due, current)
    PROVE  /\ next_probe' \in Nat
           /\ in_flight' \in BOOLEAN
           /\ probe' \in {probe, current}
           /\ in_flight => in_flight' /\ probe' = probe
           /\ in_flight' => in_flight \/ (due = 0 /\ probe' = current)
           /\ next_probe' = due \/ due = 0
<1>1. CASE ~in_flight /\ due = 0
  BY <1>1, ProbeAssumption DEF Launch, TypeOK
<1>2. CASE ~(~in_flight /\ due = 0)
  BY <1>2, ProbeAssumption DEF Launch, TypeOK
<1> QED
  BY <1>1, <1>2

\* The initial state of ProbeState::new_configured.
LEMMA ProbeInit == Init => ProbeInv
<1> SUFFICES ASSUME Init PROVE ProbeInv
  OBVIOUS
<1> USE ProbeAssumption
<1>1. TypeOK
  <2>1. in_flight \in BOOLEAN /\ link_up_grace_retry \in BOOLEAN /\ succeeded \in BOOLEAN
    BY Zenon DEF Init
  <2> QED
    BY <2>1 DEF Init, TypeOK, Status
<1>2. FailuresCounted
  BY DEF Init, FailuresCounted, Uncounted
<1>3. NotDueYet
  BY DEF Init, NotDueYet
<1> QED
  BY <1>1, <1>2, <1>3 DEF ProbeInv

\* Neither thread leaves the types.
LEMMA ProbeTypes == TypeOK /\ [Next]_vars => TypeOK'
<1> SUFFICES ASSUME TypeOK, [Next]_vars
             PROVE  TypeOK'
  OBVIOUS
<1> USE ProbeAssumption DEF TypeOK, Status, stateVars, ghostVars
<1>1. CASE Tick
  BY <1>1 DEF Tick
<1>2. CASE LinkChanges
  BY <1>2 DEF LinkChanges
<1>3. CASE SnapshotSameLink
  BY <1>3, LaunchEffect DEF SnapshotSameLink
<1>4. CASE SnapshotNewLink
  <2>1. (IF link = "up" THEN SettleDelay ELSE 0) \in Nat /\ generation + 1 \in Nat
    OBVIOUS
  <2>2. next_probe' \in Nat /\ in_flight' \in BOOLEAN /\ probe' \in {probe, generation + 1}
    BY <1>4, <2>1, LaunchEffect DEF SnapshotNewLink
  <2>3. link_up_grace_retry' \in BOOLEAN /\ succeeded' \in BOOLEAN
    BY <1>4, Zenon DEF SnapshotNewLink
  <2> QED
    BY <1>4, <2>2, <2>3 DEF SnapshotNewLink
<1>5. CASE StaleResult
  <2>1. in_flight' \in BOOLEAN /\ link_up_grace_retry' \in BOOLEAN /\ succeeded' \in BOOLEAN
    BY <1>5, Zenon DEF StaleResult
  <2> QED
    BY <1>5, <2>1 DEF StaleResult
<1>6. CASE Reached
  <2>1. in_flight' \in BOOLEAN /\ link_up_grace_retry' \in BOOLEAN /\ succeeded' \in BOOLEAN
    BY <1>6, Zenon DEF Reached
  <2> QED
    BY <1>6, <2>1 DEF Reached
<1>7. CASE GraceFailure
  <2>1. in_flight' \in BOOLEAN /\ link_up_grace_retry' \in BOOLEAN /\ succeeded' \in BOOLEAN
    BY <1>7, Zenon DEF GraceFailure
  <2> QED
    BY <1>7, <2>1 DEF GraceFailure, CountFailed
<1>8. CASE CountedFailure
  <2>1. in_flight' \in BOOLEAN /\ link_up_grace_retry' \in BOOLEAN /\ succeeded' \in BOOLEAN
    BY <1>8, Zenon DEF CountedFailure
  <2> QED
    BY <1>8, <2>1, SaturatingCount DEF CountedFailure, CountFailed
<1>9. CASE UNCHANGED vars
  BY <1>9 DEF vars
<1> QED
  BY <1>1, <1>2, <1>3, <1>4, <1>5, <1>6, <1>7, <1>8, <1>9 DEF Next, Snapshot, RecordResult

\* The failures that count are counted once each.
LEMMA CountStep == ProbeInv /\ [Next]_vars => FailuresCounted'
<1> SUFFICES ASSUME ProbeInv, [Next]_vars
             PROVE  FailuresCounted'
  OBVIOUS
<1> USE ProbeAssumption
<1>0. TypeOK /\ FailuresCounted
  BY DEF ProbeInv
<1>1. CASE UNCHANGED <<last_link_up, status, consecutive_failures, link_up_grace_retry,
                       failed, succeeded>>
  BY <1>0, <1>1 DEF FailuresCounted, Uncounted
<1>2. CASE SnapshotNewLink
  <2>1. /\ link_up_grace_retry' <=> last_link_up' = "up"
        /\ ~succeeded'
    BY <1>2, Zenon DEF SnapshotNewLink
  <2>2. /\ status' = "Checking" /\ consecutive_failures' = 0 /\ failed' = 0
    BY <1>2 DEF SnapshotNewLink
  <2> QED
    BY <2>1, <2>2 DEF FailuresCounted, Uncounted
<1>3. CASE Reached
  BY <1>0, <1>3 DEF Reached, FailuresCounted, Uncounted, TypeOK
<1>4. CASE GraceFailure
  BY <1>0, <1>4 DEF GraceFailure, FailuresCounted, Uncounted, TypeOK, CountFailed
<1>5. CASE CountedFailure
  BY <1>0, <1>5, SaturatingCount
  DEF CountedFailure, FailuresCounted, Uncounted, TypeOK, CountFailed
<1> QED
  BY <1>1, <1>2, <1>3, <1>4, <1>5
  DEF Next, Snapshot, RecordResult, Tick, LinkChanges, SnapshotSameLink, StaleResult, vars,
      stateVars, ghostVars

\* A probe is due only when the settle delay is over.
LEMMA DueStep == ProbeInv /\ [Next]_vars => NotDueYet'
<1> SUFFICES ASSUME ProbeInv, [Next]_vars
             PROVE  NotDueYet'
  OBVIOUS
<1> USE ProbeAssumption
<1>0. TypeOK /\ NotDueYet
  BY DEF ProbeInv
<1>1. CASE UNCHANGED <<last_link_up, next_probe, in_flight, generation, probe, age>>
  BY <1>0, <1>1 DEF NotDueYet
<1>2. CASE Tick
  BY <1>0, <1>2 DEF Tick, NotDueYet, TypeOK
<1>3. CASE SnapshotSameLink
  BY <1>0, <1>3, LaunchEffect DEF SnapshotSameLink, NotDueYet, TypeOK, ghostVars
<1>4. CASE SnapshotNewLink
  BY <1>0, <1>4 DEF SnapshotNewLink, Launch, NotDueYet, TypeOK
<1>5. CASE StaleResult
  BY <1>0, <1>5 DEF StaleResult, NotDueYet, TypeOK, ghostVars
<1>6. CASE Reached
  BY <1>0, <1>6 DEF Reached, NotDueYet, TypeOK
<1>7. CASE GraceFailure
  BY <1>0, <1>7 DEF GraceFailure, NotDueYet, TypeOK, CurrentProbe
<1>8. CASE CountedFailure
  BY <1>0, <1>8 DEF CountedFailure, NotDueYet, TypeOK
<1> QED
  BY <1>1, <1>2, <1>3, <1>4, <1>5, <1>6, <1>7, <1>8
  DEF Next, Snapshot, RecordResult, LinkChanges, vars, stateVars, ghostVars

-----------------------------------------------------------------------------
\* ProbeInv holds in every reachable state, whatever the delays and the thresholds.
THEOREM ProbeInvariant == Spec => []ProbeInv
<1>1. ProbeInv /\ [Next]_vars => ProbeInv'
  BY ProbeTypes, CountStep, DueStep DEF ProbeInv
<1> QED
  BY <1>1, ProbeInit, PTL DEF Spec

\* The status "Failed" is reported only after enough failures in this link period.
THEOREM FailureIsJustified == Spec => []FailedForAReason
<1>1. ProbeInv => FailedForAReason
  BY ProbeAssumption DEF ProbeInv, TypeOK, FailuresCounted, FailedForAReason, Uncounted
<1> QED
  BY <1>1, ProbeInvariant, PTL

\* The saturating counter keeps a failure reported until a ping gets through or
\* the link changes.
THEOREM FailureStays == Spec => FailedUntilReached
<1>1. ProbeInv /\ [Next]_vars =>
        [status = "Failed" /\ status' # "Failed"
            => status' = "Reachable" \/ generation' # generation]_vars
  <2> SUFFICES ASSUME ProbeInv, Next, status = "Failed", status' # "Failed"
               PROVE  status' = "Reachable" \/ generation' # generation
    OBVIOUS
  <2>0. TypeOK /\ FailuresCounted
    BY DEF ProbeInv
  <2>1. CASE SnapshotNewLink
    BY <2>0, <2>1 DEF SnapshotNewLink, TypeOK
  <2>2. CASE GraceFailure
    BY <2>0, <2>2 DEF GraceFailure, FailuresCounted
  <2>3. CASE CountedFailure
    BY <2>0, <2>3, SaturatingCount, ProbeAssumption
    DEF CountedFailure, FailuresCounted, TypeOK
  <2> QED
    BY <2>1, <2>2, <2>3
    DEF Next, Snapshot, RecordResult, Tick, LinkChanges, SnapshotSameLink, StaleResult, Reached,
        stateVars
<1> QED
  BY <1>1, ProbeInvariant, PTL DEF Spec, FailedUntilReached

\* No ping starts before the settle delay of its link period is over.
THEOREM SettleDelayKept == Spec => LinkSettled
<1>1. ProbeInv /\ ProbeInv' /\ [Next]_vars =>
        [~in_flight /\ in_flight' /\ last_link_up' = "up" => age' >= SettleDelay]_vars
  <2> SUFFICES ASSUME ProbeInv, ProbeInv', Next, ~in_flight, in_flight', last_link_up' = "up"
               PROVE  age' >= SettleDelay
    OBVIOUS
  <2>0. TypeOK /\ NotDueYet
    BY DEF ProbeInv
  <2>1. CASE SnapshotSameLink
    BY <2>0, <2>1, LaunchEffect, ProbeAssumption
    DEF SnapshotSameLink, NotDueYet, TypeOK, ghostVars
  <2>2. CASE SnapshotNewLink
    <3>1. link = "up" /\ age' = 0 /\ Launch(SettleDelay, generation + 1)
      BY <2>2 DEF SnapshotNewLink
    <3>2. SettleDelay = 0
      BY <2>0, <3>1, LaunchEffect, ProbeAssumption DEF TypeOK
    <3> QED
      BY <3>1, <3>2
  <2>3. ~(Tick \/ LinkChanges)
    BY Zenon DEF Tick, LinkChanges, stateVars
  <2>4. ~RecordResult
    BY Zenon DEF RecordResult, StaleResult, Reached, GraceFailure, CountedFailure
  <2> QED
    BY <2>1, <2>2, <2>3, <2>4 DEF Next, Snapshot
<1> QED
  BY <1>1, ProbeInvariant, PTL DEF Spec, LinkSettled

-----------------------------------------------------------------------------
(* Conditions.                                                             *)

\* The parts of an `all` or `any` come after it.
PartsFollow(condition) ==
    \A k \in 1..Len(condition) :
        condition[k].kind \in {"all", "any"} => condition[k].of \subseteq (k + 1)..Len(condition)

\* holds[k] says whether the condition's part k holds.
Judged(condition, snapshot, filesystems, holds) ==
    /\ \A k \in 1..Len(condition) :
          holds[k] = matches_part(condition[k], holds, snapshot, filesystems)
    /\ matches_condition(condition, snapshot, filesystems) = holds[1]

\* A part depends on those it is made of only.
LEMMA PartOfParts ==
    ASSUME NEW part, part.kind \in {"all", "any", "predicate"}, NEW f, NEW g, NEW snapshot,
           NEW filesystems,
           part.kind \in {"all", "any"} => \A l \in part.of : f[l] = g[l]
    PROVE  matches_part(part, f, snapshot, filesystems) = matches_part(part, g, snapshot, filesystems)
<1>1. CASE part.kind = "all"
  BY <1>1, Zenon DEF matches_part
<1>2. CASE part.kind = "any"
  BY <1>2, Zenon DEF matches_part
<1>3. CASE part.kind = "predicate"
  BY <1>3, Zenon DEF matches_part
<1> QED BY <1>1, <1>2, <1>3

\* The recursive function of matches_condition exists.
LEMMA ConditionJudged ==
    ASSUME NEW condition, Len(condition) \in Nat, PartsFollow(condition), NEW snapshot,
           NEW filesystems,
           \A k \in 1..Len(condition) : condition[k].kind \in {"all", "any", "predicate"}
    PROVE  \E holds : Judged(condition, snapshot, filesystems, holds)
<1> DEFINE N == Len(condition)
           P(k, f) == matches_part(condition[k], f, snapshot, filesystems)
           Fits(f, m) == f = [k \in 1..N |-> f[k]] /\ \A k \in (N - m + 1)..N : k \in 1..N => f[k] = P(k, f)
           T == {m \in 0..N : \E f : Fits(f, m)}
<1>1. 0 \in T
  <2> DEFINE g == [k \in 1..N |-> TRUE]
  <2>1. g = [k \in 1..N |-> g[k]] /\ \A k \in (N - 0 + 1)..N : k \notin 1..N
    OBVIOUS
  <2> HIDE DEF g, P
  <2>2. \E f : Fits(f, 0)
    BY <2>1
  <2> QED BY <2>2
<1>2. ASSUME NEW m \in 0..N, m > 0, m - 1 \in T
      PROVE  m \in T
  <2>1. PICK f : Fits(f, m - 1)
    BY <1>2
  <2> DEFINE n == N - m + 1
             g == [k \in 1..N |-> IF k = n THEN P(n, f) ELSE f[k]]
  <2>2. n \in 1..N /\ N - (m - 1) + 1 = n + 1
    BY <1>2
  <2> HIDE DEF n
  <2>3. ASSUME NEW k \in n..N
        PROVE  P(k, g) = P(k, f)
    <3>1. k \in 1..N
      BY <2>2
    <3>2. condition[k].kind \in {"all", "any"} => \A l \in condition[k].of : l \in 1..N /\ l # n
      <4>1. condition[k].kind \in {"all", "any"} => condition[k].of \subseteq (k + 1)..N
        BY <3>1 DEF PartsFollow
      <4>2. \A l \in (k + 1)..N : l \in 1..N /\ l # n
        BY <2>2, <3>1
      <4> QED BY <4>1, <4>2
    <3>3. \A l \in 1..N : l # n => g[l] = f[l]
      OBVIOUS
    <3> HIDE DEF g
    <3>4. condition[k].kind \in {"all", "any"} => \A l \in condition[k].of : g[l] = f[l]
      BY <3>2, <3>3
    <3> QED BY <3>1, <3>4, PartOfParts
  <2>4. g = [k \in 1..N |-> g[k]]
    OBVIOUS
  <2>5. g[n] = P(n, f) /\ \A k \in 1..N : k # n => g[k] = f[k]
    BY <2>2
  <2>6. \A k \in (n + 1)..N : k \in 1..N => f[k] = P(k, f)
    BY <2>1, <2>2
  <2> HIDE DEF g, P
  <2>7. ASSUME NEW k \in n..N, k \in 1..N
        PROVE  g[k] = P(k, g)
    <3>1. CASE k = n
      BY <2>2, <2>3, <2>5, <3>1
    <3>2. CASE k # n
      <4>1. k \in (n + 1)..N
        BY <2>2, <2>7, <3>2
      <4>2. f[k] = P(k, f)
        BY <2>6, <2>7, <4>1
      <4> QED BY <2>3, <2>5, <2>7, <3>2, <4>2
    <3> QED BY <3>1, <3>2
  <2>8. Fits(g, m)
    BY <2>4, <2>7 DEF n
  <2> HIDE DEF Fits
  <2> QED BY <2>8
<1>3. N \in T
  <2> HIDE DEF T, N
  <2>1. N \in Nat
    BY DEF N
  <2>2. 0..N \subseteq T
    BY <1>1, <1>2, <2>1, Induction
  <2> QED BY <2>1, <2>2
<1>4. PICK f : Fits(f, N)
  BY <1>3
<1>5. \A k \in 1..N : f[k] = P(k, f)
  BY <1>4
<1>6. f = [k \in 1..N |-> P(k, f)]
  BY <1>4, <1>5
<1> DEFINE holds == CHOOSE h : h = [k \in 1..N |-> P(k, h)]
<1>7. holds = [k \in 1..N |-> P(k, holds)]
  BY <1>6, Zenon
<1>8. matches_condition(condition, snapshot, filesystems) = holds[1]
  BY DEF matches_condition
<1> HIDE DEF holds
<1>9. \A k \in 1..N : holds[k] = P(k, holds)
  BY <1>7, Zenon
<1>10. Judged(condition, snapshot, filesystems, holds)
  BY <1>8, <1>9 DEF Judged
<1> QED BY <1>10

\* A condition that is a predicate, or an `any` of one.
LEMMA OnePredicate ==
    ASSUME NEW part, part.kind = "predicate", NEW snapshot, NEW filesystems
    PROVE  matches_condition(<<part>>, snapshot, filesystems)
             <=> matches_selector(part, snapshot, filesystems)
<1> DEFINE condition == <<part>>
<1>1. Len(condition) = 1 /\ 1..1 = {1} /\ condition[1] = part
  OBVIOUS
<1> HIDE DEF condition
<1>2. PICK holds : Judged(condition, snapshot, filesystems, holds)
  <2>1. \A k \in 1..Len(condition) : condition[k].kind = "predicate"
    BY <1>1
  <2>2. PartsFollow(condition)
    BY <2>1 DEF PartsFollow
  <2>3. Len(condition) \in Nat
    BY <1>1
  <2> QED BY <2>1, <2>2, <2>3, ConditionJudged
<1>3. holds[1] = matches_part(part, holds, snapshot, filesystems)
  BY <1>1, <1>2 DEF Judged
<1>4. matches_part(part, holds, snapshot, filesystems) = matches_selector(part, snapshot, filesystems)
  BY Zenon DEF matches_part
<1> QED BY <1>2, <1>3, <1>4, Zenon DEF Judged, condition

\* An `any` of one predicate.
LEMMA AnyOfOne ==
    ASSUME NEW part, part.kind = "predicate", NEW snapshot, NEW filesystems
    PROVE  matches_condition(<<AnyOf({2}), part>>, snapshot, filesystems)
             <=> matches_selector(part, snapshot, filesystems)
<1> DEFINE condition == <<AnyOf({2}), part>>
<1>1. /\ Len(condition) = 2 /\ 1..2 = {1, 2} /\ condition[1] = AnyOf({2}) /\ condition[2] = part
      /\ {2} \subseteq 2..2
  OBVIOUS
<1> HIDE DEF condition
<1>2. AnyOf({2}).kind = "any" /\ AnyOf({2}).of = {2}
  BY DEF AnyOf
<1>3. PICK holds : Judged(condition, snapshot, filesystems, holds)
  <2>1. \A k \in 1..Len(condition) : condition[k].kind \in {"all", "any", "predicate"}
    BY <1>1, <1>2
  <2>2. PartsFollow(condition)
    BY <1>1, <1>2 DEF PartsFollow
  <2>3. Len(condition) \in Nat
    BY <1>1
  <2> QED BY <2>1, <2>2, <2>3, ConditionJudged
<1>4. /\ holds[1] = matches_part(AnyOf({2}), holds, snapshot, filesystems)
      /\ holds[2] = matches_part(part, holds, snapshot, filesystems)
  BY <1>1, <1>3 DEF Judged
<1>5. matches_part(part, holds, snapshot, filesystems) = matches_selector(part, snapshot, filesystems)
  BY Zenon DEF matches_part
<1>6. matches_part(AnyOf({2}), holds, snapshot, filesystems) <=> holds[2]
  BY <1>2, Zenon DEF matches_part
<1> QED BY <1>3, <1>4, <1>5, <1>6, Zenon DEF Judged, condition

\* An `all` of two.
LEMMA AllOfTwo ==
    ASSUME NEW p, p.kind = "predicate", NEW q, q.kind = "predicate", NEW snapshot, NEW filesystems
    PROVE  matches_condition(<<AllOf({2, 3}), p, q>>, snapshot, filesystems)
             <=> /\ matches_selector(p, snapshot, filesystems)
                 /\ matches_selector(q, snapshot, filesystems)
<1> DEFINE condition == <<AllOf({2, 3}), p, q>>
<1>1. /\ Len(condition) = 3 /\ 1..3 = {1, 2, 3}
      /\ condition[1] = AllOf({2, 3}) /\ condition[2] = p /\ condition[3] = q
      /\ {2, 3} \subseteq 2..3
  OBVIOUS
<1> HIDE DEF condition
<1>2. AllOf({2, 3}).kind = "all" /\ AllOf({2, 3}).of = {2, 3}
  BY DEF AllOf
<1>3. PICK holds : Judged(condition, snapshot, filesystems, holds)
  <2>1. \A k \in 1..Len(condition) : condition[k].kind \in {"all", "any", "predicate"}
    BY <1>1, <1>2
  <2>2. PartsFollow(condition)
    BY <1>1, <1>2 DEF PartsFollow
  <2>3. Len(condition) \in Nat
    BY <1>1
  <2> QED BY <2>1, <2>2, <2>3, ConditionJudged
<1>4. /\ holds[1] = matches_part(AllOf({2, 3}), holds, snapshot, filesystems)
      /\ holds[2] = matches_part(p, holds, snapshot, filesystems)
      /\ holds[3] = matches_part(q, holds, snapshot, filesystems)
  BY <1>1, <1>3 DEF Judged
<1>5. /\ matches_part(p, holds, snapshot, filesystems) = matches_selector(p, snapshot, filesystems)
      /\ matches_part(q, holds, snapshot, filesystems) = matches_selector(q, snapshot, filesystems)
  BY Zenon DEF matches_part
<1>6. matches_part(AllOf({2, 3}), holds, snapshot, filesystems) <=> holds[2] /\ holds[3]
  BY <1>2, Zenon DEF matches_part
<1> QED BY <1>3, <1>4, <1>5, <1>6, Zenon DEF Judged, condition

\* The condition of ups_unavailable: an `any` of a predicate and an `all` of two.
LEMMA AnyOfOneOrTwo ==
    ASSUME NEW p, p.kind = "predicate", NEW q, q.kind = "predicate", NEW r, r.kind = "predicate",
           NEW snapshot, NEW filesystems
    PROVE  matches_condition(<<AnyOf({2, 3}), p, AllOf({4, 5}), q, r>>, snapshot, filesystems)
             <=> \/ matches_selector(p, snapshot, filesystems)
                 \/ /\ matches_selector(q, snapshot, filesystems)
                    /\ matches_selector(r, snapshot, filesystems)
<1> DEFINE condition == <<AnyOf({2, 3}), p, AllOf({4, 5}), q, r>>
<1>1. /\ Len(condition) = 5 /\ 1..5 = {1, 2, 3, 4, 5}
      /\ condition[1] = AnyOf({2, 3}) /\ condition[2] = p /\ condition[3] = AllOf({4, 5})
      /\ condition[4] = q /\ condition[5] = r
      /\ {2, 3} \subseteq 2..5 /\ {4, 5} \subseteq 4..5
  OBVIOUS
<1> HIDE DEF condition
<1>2. /\ AnyOf({2, 3}).kind = "any" /\ AnyOf({2, 3}).of = {2, 3}
      /\ AllOf({4, 5}).kind = "all" /\ AllOf({4, 5}).of = {4, 5}
  BY DEF AllOf, AnyOf
<1>3. PICK holds : Judged(condition, snapshot, filesystems, holds)
  <2>1. \A k \in 1..Len(condition) : condition[k].kind \in {"all", "any", "predicate"}
    BY <1>1, <1>2
  <2>2. PartsFollow(condition)
    BY <1>1, <1>2 DEF PartsFollow
  <2>3. Len(condition) \in Nat
    BY <1>1
  <2> QED BY <2>1, <2>2, <2>3, ConditionJudged
<1>4. /\ holds[1] = matches_part(AnyOf({2, 3}), holds, snapshot, filesystems)
      /\ holds[2] = matches_part(p, holds, snapshot, filesystems)
      /\ holds[3] = matches_part(AllOf({4, 5}), holds, snapshot, filesystems)
      /\ holds[4] = matches_part(q, holds, snapshot, filesystems)
      /\ holds[5] = matches_part(r, holds, snapshot, filesystems)
  BY <1>1, <1>3 DEF Judged
<1>5. /\ matches_part(p, holds, snapshot, filesystems) = matches_selector(p, snapshot, filesystems)
      /\ matches_part(q, holds, snapshot, filesystems) = matches_selector(q, snapshot, filesystems)
      /\ matches_part(r, holds, snapshot, filesystems) = matches_selector(r, snapshot, filesystems)
  BY Zenon DEF matches_part
<1>6. /\ matches_part(AnyOf({2, 3}), holds, snapshot, filesystems) <=> holds[2] \/ holds[3]
      /\ matches_part(AllOf({4, 5}), holds, snapshot, filesystems) <=> holds[4] /\ holds[5]
  BY <1>2, Zenon DEF matches_part
<1> QED BY <1>3, <1>4, <1>5, <1>6, Zenon DEF Judged, condition

-----------------------------------------------------------------------------
(* The report.                                                             *)

\* primary[n] is the incident to report of the first n rules.
RulesInTurn(config, snapshot, primary) ==
    /\ primary[0] = <<>>
    /\ \A n \in 0..Len(config.rules) :
          n > 0 => primary[n] = AfterRule(config, snapshot, primary[n - 1], n)
    /\ Primary(config, snapshot) = primary[Len(config.rules)]

\* The recursive function of Primary exists.
LEMMA PrimaryInTurn ==
    ASSUME NEW config, Len(config.rules) \in Nat, NEW snapshot
    PROVE  \E primary : RulesInTurn(config, snapshot, primary)
<1> DEFINE Fits(f, N) ==
               f = [n \in 0..N |-> IF n = 0 THEN <<>> ELSE AfterRule(config, snapshot, f[n - 1], n)]
           T == {N \in 0..Len(config.rules) : \E f : Fits(f, N)}
<1>1. 0 \in T
  <2> DEFINE g == [n \in 0..0 |-> <<>>]
  <2>1. \A n \in 0..0 : n = 0
    OBVIOUS
  <2>2. Fits(g, 0)
    BY <2>1
  <2>3. \E f : Fits(f, 0)
    <3> HIDE DEF Fits
    <3> QED BY <2>2
  <2> QED BY <2>3
<1>2. ASSUME NEW N \in 0..Len(config.rules), N > 0, N - 1 \in T
      PROVE  N \in T
  <2>1. PICK f : Fits(f, N - 1)
    BY <1>2
  <2> DEFINE g == [n \in 0..N |-> IF n = 0 THEN <<>> ELSE AfterRule(config, snapshot, f[n - 1], n)]
  <2>2. \A n \in 0..(N - 1) : g[n] = f[n]
    <3>1. \A n \in 0..(N - 1) : n \in 0..N
      OBVIOUS
    <3>2. \A n \in 0..(N - 1) :
             f[n] = IF n = 0 THEN <<>> ELSE AfterRule(config, snapshot, f[n - 1], n)
      BY <2>1
    <3> QED BY <3>1, <3>2
  <2>3. \A n \in 0..N : n # 0 => n - 1 \in 0..(N - 1)
    OBVIOUS
  <2>4. Fits(g, N)
    BY <2>2, <2>3
  <2> QED BY <2>4
<1>3. Len(config.rules) \in T
  <2> HIDE DEF T
  <2>1. 0..Len(config.rules) \subseteq T
    BY <1>1, <1>2, Induction
  <2> QED BY <2>1
<1> DEFINE primary == CHOOSE f : Fits(f, Len(config.rules))
<1>4. Fits(primary, Len(config.rules))
  BY <1>3
<1>5. Primary(config, snapshot) = primary[Len(config.rules)]
  BY DEF Primary
<1> HIDE DEF primary
<1>6. primary[0] = <<>>
  <2>1. 0 \in 0..Len(config.rules)
    OBVIOUS
  <2> QED BY <1>4, <2>1, Zenon
<1>7. ASSUME NEW n \in 0..Len(config.rules), n > 0
      PROVE  primary[n] = AfterRule(config, snapshot, primary[n - 1], n)
  <2>1. n # 0
    BY <1>7
  <2> QED BY <1>4, <2>1, Zenon
<1>8. RulesInTurn(config, snapshot, primary)
  BY <1>5, <1>6, <1>7 DEF RulesInTurn
<1> QED BY <1>8

Severities == {"healthy", "warning", "critical"}

\* The rule at k is the first of the worst of the first n rules that match.
FirstWorst(config, snapshot, k, n) ==
    /\ k \in 1..n /\ Matches(config, snapshot, k)
    /\ \A l \in 1..n : Matches(config, snapshot, l) =>
          /\ Priority(config.rules[l].severity) <= Priority(config.rules[k].severity)
          /\ l < k => Priority(config.rules[l].severity) < Priority(config.rules[k].severity)

\* What is to be reported of the first n rules.
Reports(config, snapshot, current, n) ==
    \/ current = <<>> /\ \A k \in 1..n : ~Matches(config, snapshot, k)
    \/ \E k \in 1..n : current = <<config.rules[k]>> /\ FirstWorst(config, snapshot, k, n)

\* One more rule.
LEMMA RuleReported ==
    ASSUME NEW config, NEW snapshot, NEW current, NEW n \in Nat, n > 0,
           \A k \in 1..n : config.rules[k].severity \in Severities,
           Reports(config, snapshot, current, n - 1)
    PROVE  Reports(config, snapshot, AfterRule(config, snapshot, current, n), n)
<1> DEFINE p(k) == Priority(config.rules[k].severity)
           new == AfterRule(config, snapshot, current, n)
<1>1. \A k \in 1..n : p(k) \in Nat
  BY DEF Priority, Severities
<1>2. \A k \in 1..n : k = n \/ k \in 1..(n - 1)
  OBVIOUS
<1>3. n \in 1..n /\ ~(n < n) /\ \A k \in 1..(n - 1) : k \in 1..n /\ k < n /\ ~(n < k)
  OBVIOUS
<1>4. CASE ~Matches(config, snapshot, n)
  <2>1. new = current
    BY <1>4 DEF AfterRule
  <2> QED BY <1>2, <1>3, <1>4, <2>1 DEF Reports, FirstWorst
<1>5. CASE Matches(config, snapshot, n)
  <2>1. new = Worse(current, config.rules[n])
    BY <1>5 DEF AfterRule
  <2>2. CASE current = <<>> /\ \A k \in 1..(n - 1) : ~Matches(config, snapshot, k)
    <3>1. new = <<config.rules[n]>>
      BY <2>1, <2>2 DEF Worse
    <3>2. FirstWorst(config, snapshot, n, n)
      BY <1>1, <1>2, <1>3, <1>5, <2>2 DEF FirstWorst
    <3> QED BY <1>3, <3>1, <3>2 DEF Reports
  <2>3. CASE \E k \in 1..(n - 1) :
                current = <<config.rules[k]>> /\ FirstWorst(config, snapshot, k, n - 1)
    <3>1. PICK k \in 1..(n - 1) :
                 current = <<config.rules[k]>> /\ FirstWorst(config, snapshot, k, n - 1)
      BY <2>3
    <3>2. current # <<>> /\ current[1] = config.rules[k]
      BY <3>1
    <3> HIDE DEF p
    <3>3. CASE p(n) > p(k)
      <4>1. new = <<config.rules[n]>>
        BY <2>1, <3>2, <3>3 DEF Worse, p
      <4>2. \A l \in 1..(n - 1) : Matches(config, snapshot, l) => p(l) < p(n)
        <5>1. \A l \in 1..(n - 1) : Matches(config, snapshot, l) => p(l) <= p(k)
          BY <3>1 DEF FirstWorst, p
        <5> QED BY <1>1, <1>3, <3>3, <5>1
      <4>3. \A l \in 1..n : Matches(config, snapshot, l) => p(l) <= p(n) /\ (l < n => p(l) < p(n))
        BY <1>1, <1>2, <1>3, <4>2
      <4>4. FirstWorst(config, snapshot, n, n)
        BY <1>3, <1>5, <4>3 DEF FirstWorst, p
      <4> QED BY <1>3, <4>1, <4>4 DEF Reports
    <3>4. CASE ~(p(n) > p(k))
      <4>1. new = current
        BY <2>1, <3>2, <3>4 DEF Worse, p
      <4>2. p(n) <= p(k)
        BY <1>1, <1>3, <3>4
      <4>3. FirstWorst(config, snapshot, k, n)
        BY <1>2, <1>3, <3>1, <4>2 DEF FirstWorst, p
      <4> QED BY <1>3, <3>1, <4>1, <4>3 DEF Reports
    <3> QED BY <3>3, <3>4
  <2> QED BY <2>2, <2>3 DEF Reports
<1> QED BY <1>4, <1>5

\* All rules.
LEMMA PrimaryReports ==
    ASSUME NEW config, Len(config.rules) \in Nat, NEW snapshot,
           \A k \in 1..Len(config.rules) : config.rules[k].severity \in Severities
    PROVE  Reports(config, snapshot, Primary(config, snapshot), Len(config.rules))
<1>1. PICK primary : RulesInTurn(config, snapshot, primary)
  BY PrimaryInTurn
<1> DEFINE N == Len(config.rules)
           T == {n \in 0..N : Reports(config, snapshot, primary[n], n)}
<1>2. 0 \in T
  <2>1. primary[0] = <<>> /\ 1..0 = {} /\ 0 \in 0..N
    BY <1>1 DEF RulesInTurn
  <2> QED BY <2>1 DEF Reports
<1>3. ASSUME NEW n \in 0..N, n > 0, n - 1 \in T
      PROVE  n \in T
  <2>1. primary[n] = AfterRule(config, snapshot, primary[n - 1], n)
    BY <1>1, <1>3 DEF RulesInTurn
  <2>2. Reports(config, snapshot, primary[n - 1], n - 1)
    BY <1>3
  <2>3. \A k \in 1..n : config.rules[k].severity \in Severities
    OBVIOUS
  <2>4. n \in Nat
    OBVIOUS
  <2>5. Reports(config, snapshot, primary[n], n)
    BY <1>3, <2>1, <2>2, <2>3, <2>4, RuleReported
  <2> QED BY <2>5
<1>4. 0..N \subseteq T
  <2> HIDE DEF T
  <2> QED BY <1>2, <1>3, Induction
<1> QED BY <1>1, <1>4 DEF RulesInTurn

-----------------------------------------------------------------------------
(* The installed rules.                                                    *)

\* They are 25 incidents.
LEMMA DeployedSeverities ==
    /\ Len(DeployedRules) = 25
    /\ \A k \in 1..25 : DeployedRules[k].severity \in {"warning", "critical"}
<1>1. Len(DeployedRules) = 25
  BY DEF DeployedRules
<1>2. ASSUME NEW k \in 1..25 PROVE DeployedRules[k].severity \in {"warning", "critical"}
  BY DEF DeployedRules, Rule
<1> QED BY <1>1, <1>2

\* What is reported of a snapshot.
LEMMA ReportedOfSnapshot ==
    ASSUME NEW snapshot
    PROVE  LET matches(k) == Matches(DeployedConfig, snapshot, k)
               report == HealthReport(DeployedConfig, snapshot)
           IN  \/ /\ \A k \in 1..25 : ~matches(k)
                  /\ report = [severity |-> "healthy", rule |-> "default"]
               \/ \E k \in 1..25 : /\ FirstWorst(DeployedConfig, snapshot, k, 25)
                                   /\ report.severity \in {"warning", "critical"}
                                   /\ report.rule = DeployedRules[k].id
<1> DEFINE config == DeployedConfig
<1>1. config.rules = DeployedRules /\ config.default.severity = "healthy"
  BY DEF DeployedConfig
<1> HIDE DEF config
<1>2. /\ Len(config.rules) = 25
      /\ \A k \in 1..25 : config.rules[k].severity \in {"warning", "critical"}
  BY <1>1, DeployedSeverities
<1>3. Reports(config, snapshot, Primary(config, snapshot), 25)
  <2>1. Len(config.rules) \in Nat
    BY <1>2
  <2>2. \A k \in 1..Len(config.rules) : config.rules[k].severity \in Severities
    BY <1>2 DEF Severities
  <2>3. Reports(config, snapshot, Primary(config, snapshot), Len(config.rules))
    BY <2>1, <2>2, PrimaryReports
  <2> QED BY <1>2, <2>3
<1>4. CASE Primary(config, snapshot) = <<>> /\ \A k \in 1..25 : ~Matches(config, snapshot, k)
  BY <1>1, <1>4 DEF HealthReport, config
<1>5. CASE \E k \in 1..25 : /\ Primary(config, snapshot) = <<config.rules[k]>>
                            /\ FirstWorst(config, snapshot, k, 25)
  <2>1. PICK k \in 1..25 : /\ Primary(config, snapshot) = <<config.rules[k]>>
                           /\ FirstWorst(config, snapshot, k, 25)
    BY <1>5
  <2>2. Primary(config, snapshot) # <<>> /\ Primary(config, snapshot)[1] = config.rules[k]
    BY <2>1
  <2>3. HealthReport(config, snapshot) =
          [severity |-> config.rules[k].severity, rule |-> config.rules[k].id]
    BY <2>2 DEF HealthReport
  <2> QED BY <1>1, <1>2, <2>1, <2>3 DEF config
<1> QED BY <1>3, <1>4, <1>5 DEF Reports

\* Of several incidents the first of the worst is reported.
LEMMA FirstOfTheWorst == FirstWorstReported
<1> SUFFICES ASSUME running PROVE FirstWorstReported
  BY Zenon DEF FirstWorstReported
<1> DEFINE active == {k \in 1..Len(DeployedRules) : Matches(DeployedConfig, HealthSnapshot, k)}
           p(k) == Priority(DeployedRules[k].severity)
           worst == {k \in active : \A l \in active : p(l) <= p(k)}
           first == CHOOSE k \in worst : \A l \in worst : k <= l
<1>0. active \subseteq 1..25 /\ \A k \in 1..25 : k \in active <=> Matches(DeployedConfig, HealthSnapshot, k)
  BY DeployedSeverities
<1> HIDE DEF active
<1>1. CASE \A k \in 1..25 : ~Matches(DeployedConfig, HealthSnapshot, k)
  <2>1. active = {}
    BY <1>0, <1>1
  <2>2. Report.rule = "default"
    <3>1. \A k \in 1..25 : ~FirstWorst(DeployedConfig, HealthSnapshot, k, 25)
      BY <1>1 DEF FirstWorst
    <3> QED BY <3>1, ReportedOfSnapshot DEF Report
  <2> QED BY <2>1, <2>2, Zenon DEF FirstWorstReported, active
<1>2. CASE \E k \in 1..25 : Matches(DeployedConfig, HealthSnapshot, k)
  <2>1. PICK k \in 1..25 : /\ FirstWorst(DeployedConfig, HealthSnapshot, k, 25)
                           /\ Report.rule = DeployedRules[k].id
    BY <1>2, ReportedOfSnapshot DEF Report
  <2>2. /\ k \in active
        /\ \A l \in active : p(l) <= p(k) /\ (l < k => p(l) < p(k))
    <3>1. DeployedConfig.rules = DeployedRules
      BY DEF DeployedConfig
    <3> QED BY <1>0, <2>1, <3>1 DEF FirstWorst
  <2>3. \A l \in active : p(l) \in Nat
    BY <1>0, DeployedSeverities DEF Priority
  <2> HIDE DEF p
  <2>4. k \in worst
    BY <2>2
  <2>5. \A l \in worst : k <= l
    <3>1. ASSUME NEW l \in worst, l < k PROVE FALSE
      <4>1. l \in active /\ p(k) <= p(l) /\ p(l) < p(k)
        BY <2>2, <3>1
      <4> QED BY <2>2, <2>3, <4>1
    <3>2. worst \subseteq 1..25
      BY <1>0
    <3> HIDE DEF worst
    <3> QED BY <3>1, <3>2
  <2>6. \A l \in worst : (\A m \in worst : l <= m) => l = k
    <3>1. worst \subseteq 1..25
      BY <1>0
    <3> HIDE DEF worst
    <3> QED BY <2>4, <2>5, <3>1
  <2>7. first = k
    <3> HIDE DEF worst
    <3> QED BY <2>4, <2>5, <2>6
  <2>8. active # {}
    BY <2>2
  <2> HIDE DEF worst
  <2>9. Report.rule = IF active = {} THEN "default" ELSE DeployedRules[first].id
    BY <2>1, <2>7, <2>8
  <2> QED BY <2>9, Zenon DEF FirstWorstReported, active, worst, first, p
<1> QED BY <1>1, <1>2

\* A rule of one predicate that compares with a value.
LEMMA EqualsMatches ==
    ASSUME NEW measurement, measurement # <<"smart", "status">>, NEW expected, NEW snapshot,
           NEW filesystems
    PROVE  matches_condition(<<Equals(measurement, expected)>>, snapshot, filesystems)
             <=> metric_equals(metric(measurement, snapshot, filesystems), expected)
<1> DEFINE part == Equals(measurement, expected)
           comparison == [op |-> "equals", arg |-> expected]
           value == metric(measurement, snapshot, filesystems)
<1>1. /\ part.kind = "predicate" /\ part.measurement = measurement
      /\ part.comparisons = <<comparison>> /\ <<comparison>> # <<>> /\ <<comparison>>[1] = comparison
  BY DEF Equals, When
<1>2. comparison.op = "equals" /\ comparison.arg = expected
  OBVIOUS
<1> HIDE DEF part, comparison, value
<1>3. Compares(value, comparison) <=> metric_equals(value, expected)
  BY <1>2, Zenon DEF Compares
<1>4. matches_predicate(value, part) <=> metric_equals(value, expected)
  BY <1>1, <1>3 DEF matches_predicate
<1>5. matches_selector(part, snapshot, filesystems) <=> matches_predicate(value, part)
  BY <1>1, Zenon DEF matches_selector, value
<1> QED BY <1>1, <1>4, <1>5, OnePredicate DEF part, value

\* What the measurements are.
LEMMA Measurements ==
    ASSUME NEW snapshot, NEW filesystems
    PROVE  /\ metric(<<"ups", "status">>, snapshot, filesystems) = Text(snapshot.ups.status)
           /\ metric(<<"ups", "stale">>, snapshot, filesystems) = Bool(snapshot.ups.stale)
           /\ metric(<<"network", "up">>, snapshot, filesystems) = Bool(snapshot.network_up)
           /\ metric(<<"internet", "status">>, snapshot, filesystems) = Text(snapshot.internet_status)
           /\ metric(<<"backup", "status">>, snapshot, filesystems) = Text(snapshot.backup.status)
           /\ metric(<<"backup", "age">>, snapshot, filesystems)
                = IF snapshot.backup.age = <<>> THEN Missing ELSE Number(snapshot.backup.age[1])
           /\ \A id, field : metric(<<"filesystem", id, field>>, snapshot, filesystems)
                               = FilesystemMetric(id, field, snapshot, filesystems)
<1>1. metric(<<"ups", "status">>, snapshot, filesystems) = Text(snapshot.ups.status)
  BY DEF metric
<1>2. metric(<<"ups", "stale">>, snapshot, filesystems) = Bool(snapshot.ups.stale)
  BY DEF metric
<1>3. metric(<<"network", "up">>, snapshot, filesystems) = Bool(snapshot.network_up)
  BY DEF metric
<1>4. metric(<<"internet", "status">>, snapshot, filesystems) = Text(snapshot.internet_status)
  BY DEF metric
<1>5. metric(<<"backup", "status">>, snapshot, filesystems) = Text(snapshot.backup.status)
  BY DEF metric
<1>6. metric(<<"backup", "age">>, snapshot, filesystems)
        = IF snapshot.backup.age = <<>> THEN Missing ELSE Number(snapshot.backup.age[1])
  BY DEF metric
<1>7. ASSUME NEW id, NEW field
      PROVE  metric(<<"filesystem", id, field>>, snapshot, filesystems)
               = FilesystemMetric(id, field, snapshot, filesystems)
  BY DEF metric
<1> QED BY <1>1, <1>2, <1>3, <1>4, <1>5, <1>6, <1>7

\* Texts and flags are equal when their values are.
LEMMA Equalities ==
    /\ \A v, w : metric_equals(Text(v), Text(w)) <=> v = w
    /\ \A v, w : metric_equals(Bool(v), Bool(w)) <=> v = w
<1>1. ASSUME NEW v, NEW w PROVE metric_equals(Text(v), Text(w)) <=> v = w
  BY DEF metric_equals, Text
<1>2. ASSUME NEW v, NEW w PROVE metric_equals(Bool(v), Bool(w)) <=> v = w
  BY DEF metric_equals, Bool
<1> QED BY <1>1, <1>2

\* No installed rule matches.
Quiet(snapshot) == \A k \in 1..25 : ~Matches(DeployedConfig, snapshot, k)

\* What a rule says is not the case, then.
LEMMA QuietRule ==
    ASSUME NEW snapshot, Quiet(snapshot), NEW k \in 1..25
    PROVE  ~matches_condition(DeployedRules[k].when, snapshot, DeployedConfig.filesystems)
<1>1. DeployedConfig.rules = DeployedRules
  BY DEF DeployedConfig
<1> QED BY <1>1 DEF Quiet, Matches

\* No rule about the UPS matches: it is fine, or unknown and stale.
LEMMA QuietUps ==
    ASSUME NEW snapshot, Quiet(snapshot)
    PROVE  /\ snapshot.ups.status \notin {"low_battery", "output_off", "replace_battery", "on_battery",
                                          "bypass", "unavailable"}
           /\ ~(snapshot.ups.status = "unknown" /\ snapshot.ups.stale = FALSE)
<1> DEFINE fs == DeployedConfig.filesystems
           holds(c) == matches_condition(c, snapshot, fs)
<1>1. \A value : holds(<<UpsIs(value)>>) <=> snapshot.ups.status = value
  BY EqualsMatches, Measurements, Equalities DEF UpsIs
<1>2. /\ DeployedRules[1].when = <<UpsIs("low_battery")>>
      /\ DeployedRules[2].when = <<UpsIs("output_off")>>
      /\ DeployedRules[3].when = <<UpsIs("replace_battery")>>
      /\ DeployedRules[14].when = <<UpsIs("on_battery")>>
      /\ DeployedRules[15].when = <<UpsIs("bypass")>>
  BY DEF DeployedRules, Rule
<1> DEFINE p == UpsIs("unavailable")
           q == UpsIs("unknown")
           r == Equals(<<"ups", "stale">>, Bool(FALSE))
<1>3. DeployedRules[16].when = <<AnyOf({2, 3}), p, AllOf({4, 5}), q, r>>
  BY DEF DeployedRules, Rule
<1>4. p.kind = "predicate" /\ q.kind = "predicate" /\ r.kind = "predicate"
  BY DEF UpsIs, Equals, When
<1>5. holds(<<r>>) <=> snapshot.ups.stale = FALSE
  <2>1. holds(<<r>>) <=> metric_equals(metric(<<"ups", "stale">>, snapshot, fs), Bool(FALSE))
    BY EqualsMatches
  <2>2. metric(<<"ups", "stale">>, snapshot, fs) = Bool(snapshot.ups.stale)
    BY Measurements, Zenon
  <2>3. metric_equals(Bool(snapshot.ups.stale), Bool(FALSE)) <=> snapshot.ups.stale = FALSE
    BY Equalities, Zenon
  <2> QED BY <2>1, <2>2, <2>3, Zenon
<1>6. holds(DeployedRules[16].when) <=> holds(<<p>>) \/ (holds(<<q>>) /\ holds(<<r>>))
  <2> HIDE DEF p, q, r
  <2> QED BY <1>3, <1>4, OnePredicate, AnyOfOneOrTwo
<1>7. \A k \in 1..25 : ~holds(DeployedRules[k].when)
  BY QuietRule
<1> HIDE DEF holds
<1>8. 1 \in 1..25 /\ 2 \in 1..25 /\ 3 \in 1..25 /\ 14 \in 1..25 /\ 15 \in 1..25 /\ 16 \in 1..25
  OBVIOUS
<1>9. /\ ~holds(<<UpsIs("low_battery")>>) /\ ~holds(<<UpsIs("output_off")>>)
      /\ ~holds(<<UpsIs("replace_battery")>>) /\ ~holds(<<UpsIs("on_battery")>>)
      /\ ~holds(<<UpsIs("bypass")>>) /\ ~holds(<<p>>) /\ ~(holds(<<q>>) /\ holds(<<r>>))
  BY <1>2, <1>6, <1>7, <1>8
<1> QED BY <1>1, <1>5, <1>9

\* No rule about the disks matches.
LEMMA QuietDisks ==
    ASSUME NEW snapshot, Quiet(snapshot)
    PROVE  \A k \in 1..Len(snapshot.smart) : snapshot.smart[k] \notin {"failed", "warning", "unknown"}
<1> DEFINE fs == DeployedConfig.filesystems
           m == <<"smart", "status">>
           p == Equals(m, Text("failed"))
           q == When(m, "in", <<Text("warning"), Text("unknown")>>)
<1>1. /\ DeployedRules[4].when = <<AnyOf({2}), p>>
      /\ DeployedRules[17].when = <<AnyOf({2}), q>>
  BY DEF DeployedRules, Rule
<1>2. /\ p.kind = "predicate" /\ p.measurement = m
      /\ p.comparisons = <<[op |-> "equals", arg |-> Text("failed")]>>
      /\ q.kind = "predicate" /\ q.measurement = m
      /\ q.comparisons = <<[op |-> "in", arg |-> <<Text("warning"), Text("unknown")>>]>>
  BY DEF Equals, When
<1> HIDE DEF p, q
<1>3. ~matches_selector(p, snapshot, fs) /\ ~matches_selector(q, snapshot, fs)
  <2>1. 4 \in 1..25 /\ 17 \in 1..25
    OBVIOUS
  <2> QED BY <1>1, <1>2, <2>1, QuietRule, AnyOfOne
<1>4. ASSUME NEW k \in 1..Len(snapshot.smart)
      PROVE  snapshot.smart[k] \notin {"failed", "warning", "unknown"}
  <2> DEFINE v == Text(snapshot.smart[k])
  <2>1. ~matches_predicate(v, p) /\ ~matches_predicate(v, q)
    BY <1>2, <1>3 DEF matches_selector
  <2>2. matches_predicate(v, p) <=> metric_equals(v, Text("failed"))
    <3> DEFINE c == [op |-> "equals", arg |-> Text("failed")]
    <3>1. c.op = "equals" /\ c.arg = Text("failed")
      OBVIOUS
    <3>2. p.comparisons # <<>> /\ p.comparisons[1] = c
      BY <1>2
    <3> HIDE DEF c, v
    <3>3. Compares(v, c) <=> metric_equals(v, Text("failed"))
      BY <3>1, Zenon DEF Compares
    <3> QED BY <3>2, <3>3 DEF matches_predicate
  <2>3. matches_predicate(v, q) <=> metric_equals(v, Text("warning")) \/ metric_equals(v, Text("unknown"))
    <3> DEFINE arg == <<Text("warning"), Text("unknown")>>
               c == [op |-> "in", arg |-> arg]
    <3>1. Len(arg) = 2 /\ arg[1] = Text("warning") /\ arg[2] = Text("unknown") /\ 1..2 = {1, 2}
      OBVIOUS
    <3>2. c.op = "in" /\ c.arg = arg
      OBVIOUS
    <3>3. q.comparisons # <<>> /\ q.comparisons[1] = c
      BY <1>2
    <3> HIDE DEF c, arg, v
    <3>4. Compares(v, c) <=> \E j \in 1..Len(arg) : metric_equals(v, arg[j])
      BY <3>2, Zenon DEF Compares
    <3> QED BY <3>1, <3>3, <3>4 DEF matches_predicate
  <2> QED BY <2>1, <2>2, <2>3, Equalities
<1> QED BY <1>4

\* No rule about the link and the internet matches.
LEMMA QuietNetwork ==
    ASSUME NEW snapshot, Quiet(snapshot)
    PROVE  snapshot.network_up # FALSE /\ snapshot.internet_status # "failed"
<1>1. /\ DeployedRules[5].when = <<Equals(<<"network", "up">>, Bool(FALSE))>>
      /\ DeployedRules[6].when = <<Equals(<<"internet", "status">>, Text("failed"))>>
  BY DEF DeployedRules, Rule
<1>2. 5 \in 1..25 /\ 6 \in 1..25
  OBVIOUS
<1> DEFINE up == metric(<<"network", "up">>, snapshot, DeployedConfig.filesystems)
           internet == metric(<<"internet", "status">>, snapshot, DeployedConfig.filesystems)
<1>3. ~metric_equals(up, Bool(FALSE)) /\ ~metric_equals(internet, Text("failed"))
  BY <1>1, <1>2, QuietRule, EqualsMatches
<1>4. up = Bool(snapshot.network_up) /\ internet = Text(snapshot.internet_status)
  BY Measurements, Zenon
<1> HIDE DEF up, internet
<1>5. metric_equals(up, Bool(FALSE)) <=> snapshot.network_up = FALSE
  BY <1>4, Equalities, Zenon
<1>6. metric_equals(internet, Text("failed")) <=> snapshot.internet_status = "failed"
  BY <1>4, Equalities, Zenon
<1> QED BY <1>3, <1>5, <1>6

\* A rule of one comparison of a number.
LEMMA GreaterMatches ==
    ASSUME NEW measurement, measurement # <<"smart", "status">>, NEW limit, NEW snapshot,
           NEW filesystems
    PROVE  LET value == metric(measurement, snapshot, filesystems)
           IN  /\ matches_condition(<<When(measurement, "greater_than", limit)>>, snapshot, filesystems)
                    <=> value.type = "number" /\ value.value > limit
               /\ matches_selector(When(measurement, "missing_or_greater_than", limit), snapshot,
                                   filesystems)
                    <=> value.type = "missing" \/ (value.type = "number" /\ value.value > limit)
<1> DEFINE value == metric(measurement, snapshot, filesystems)
<1>1. ASSUME NEW op, NEW part, part = When(measurement, op, limit)
      PROVE  /\ part.kind = "predicate"
             /\ matches_selector(part, snapshot, filesystems)
                  <=> Compares(value, [op |-> op, arg |-> limit])
  <2> DEFINE c == [op |-> op, arg |-> limit]
  <2>1. /\ part.kind = "predicate" /\ part.measurement = measurement
        /\ part.comparisons # <<>> /\ part.comparisons[1] = c
    BY <1>1 DEF When
  <2> HIDE DEF c, value
  <2>2. matches_selector(part, snapshot, filesystems) <=> matches_predicate(value, part)
    BY <2>1, Zenon DEF matches_selector, value
  <2> QED BY <2>1, <2>2 DEF matches_predicate, c
<1> DEFINE c == [op |-> "greater_than", arg |-> limit]
           d == [op |-> "missing_or_greater_than", arg |-> limit]
<1>2. c.op = "greater_than" /\ c.arg = limit /\ d.op = "missing_or_greater_than" /\ d.arg = limit
  OBVIOUS
<1> HIDE DEF c, d, value
<1>3. Compares(value, c) <=> value.type = "number" /\ value.value > limit
  BY <1>2, Zenon DEF Compares
<1>4. Compares(value, d) <=> value.type = "missing" \/ (value.type = "number" /\ value.value > limit)
  BY <1>2, Zenon DEF Compares
<1> DEFINE p == When(measurement, "greater_than", limit)
           q == When(measurement, "missing_or_greater_than", limit)
<1>5. p.kind = "predicate" /\ (matches_selector(p, snapshot, filesystems) <=> Compares(value, c))
  BY <1>1 DEF c
<1>6. matches_selector(q, snapshot, filesystems) <=> Compares(value, d)
  BY <1>1 DEF d
<1>7. matches_condition(<<p>>, snapshot, filesystems) <=> matches_selector(p, snapshot, filesystems)
  <2> HIDE DEF p
  <2> QED BY <1>5, OnePredicate
<1> HIDE DEF p, q
<1>8. /\ matches_condition(<<p>>, snapshot, filesystems) <=> value.type = "number" /\ value.value > limit
      /\ matches_selector(q, snapshot, filesystems)
           <=> value.type = "missing" \/ (value.type = "number" /\ value.value > limit)
  BY <1>3, <1>4, <1>5, <1>6, <1>7
<1> QED BY <1>8 DEF value, p, q

\* The measurements of the k-th filesystem of the installed configuration.
LEMMA FilesystemMeasured ==
    ASSUME NEW snapshot, Len(snapshot.filesystems) = 3, NEW k \in 1..3
    PROVE  LET id == <<"root", "hdd", "backup">>[k]
               fs == DeployedConfig.filesystems
           IN  /\ metric(<<"filesystem", id, "mounted">>, snapshot, fs)
                    = Bool(snapshot.filesystems[k].mounted)
               /\ metric(<<"filesystem", id, "used_percent">>, snapshot, fs)
                    = Number(snapshot.filesystems[k].used_percent)
<1> DEFINE ids == <<"root", "hdd", "backup">>
           fs == DeployedConfig.filesystems
           found == {j \in 1..Len(fs) : fs[j].id = ids[k] /\ j <= Len(snapshot.filesystems)}
<1>1. fs = <<Source("root"), Source("hdd"), Source("backup")>>
  BY DEF DeployedConfig
<1>2. Len(fs) = 3 /\ fs[1].id = "root" /\ fs[2].id = "hdd" /\ fs[3].id = "backup"
  BY <1>1 DEF Source
<1>3. \A j \in 1..3 : fs[j].id = ids[k] <=> j = k
  BY <1>2
<1> HIDE DEF fs
<1>4. found = {k}
  BY <1>2, <1>3
<1>5. (CHOOSE j \in found : \A l \in found : j <= l) = k
  BY <1>4
<1>6. found # {}
  BY <1>4
<1>7. /\ FilesystemMetric(ids[k], "mounted", snapshot, fs) = Bool(snapshot.filesystems[k].mounted)
      /\ FilesystemMetric(ids[k], "used_percent", snapshot, fs)
           = Number(snapshot.filesystems[k].used_percent)
  <2> HIDE DEF ids
  <2> DEFINE first == CHOOSE j \in found : \A l \in found : j <= l
  <2> HIDE DEF found
  <2>1. FilesystemMetric(ids[k], "mounted", snapshot, fs) = Bool(snapshot.filesystems[first].mounted)
    BY <1>6, Zenon DEF FilesystemMetric, found
  <2>2. FilesystemMetric(ids[k], "used_percent", snapshot, fs)
          = Number(snapshot.filesystems[first].used_percent)
    BY <1>6, Zenon DEF FilesystemMetric, found
  <2> QED BY <1>5, <2>1, <2>2
<1>8. \A field : metric(<<"filesystem", ids[k], field>>, snapshot, fs)
                   = FilesystemMetric(ids[k], field, snapshot, fs)
  BY Measurements, Zenon
<1> HIDE DEF ids
<1>9. /\ metric(<<"filesystem", ids[k], "mounted">>, snapshot, fs)
           = Bool(snapshot.filesystems[k].mounted)
      /\ metric(<<"filesystem", ids[k], "used_percent">>, snapshot, fs)
           = Number(snapshot.filesystems[k].used_percent)
  BY <1>7, <1>8, Zenon
<1> QED BY <1>9, Zenon DEF fs, ids

\* No rule about the filesystems matches.
LEMMA QuietFilesystems ==
    ASSUME NEW snapshot, Quiet(snapshot), Len(snapshot.filesystems) = 3, NEW k \in 1..3
    PROVE  snapshot.filesystems[k].mounted # FALSE /\ ~(snapshot.filesystems[k].used_percent > 90)
<1> DEFINE ids == <<"root", "hdd", "backup">>
           fs == DeployedConfig.filesystems
           mounted == metric(<<"filesystem", ids[k], "mounted">>, snapshot, fs)
           used == metric(<<"filesystem", ids[k], "used_percent">>, snapshot, fs)
<1>1. /\ DeployedRules[7].when = <<NotMounted("root")>> /\ DeployedRules[8].when = <<Full("root")>>
      /\ DeployedRules[9].when = <<NotMounted("hdd")>> /\ DeployedRules[10].when = <<Full("hdd")>>
      /\ DeployedRules[11].when = <<NotMounted("backup")>>
      /\ DeployedRules[12].when = <<Full("backup")>>
  BY DEF DeployedRules, Rule
<1>2. /\ ~matches_condition(<<NotMounted(ids[k])>>, snapshot, fs)
      /\ ~matches_condition(<<Full(ids[k])>>, snapshot, fs)
  <2>1. /\ 7 \in 1..25 /\ 8 \in 1..25 /\ 9 \in 1..25 /\ 10 \in 1..25 /\ 11 \in 1..25 /\ 12 \in 1..25
        /\ k = 1 \/ k = 2 \/ k = 3
        /\ ids[1] = "root" /\ ids[2] = "hdd" /\ ids[3] = "backup"
    OBVIOUS
  <2> HIDE DEF ids
  <2> QED BY <1>1, <2>1, QuietRule
<1> HIDE DEF ids
<1>3. mounted = Bool(snapshot.filesystems[k].mounted) /\ used = Number(snapshot.filesystems[k].used_percent)
  BY FilesystemMeasured, Zenon DEF ids
<1>4. \A field : <<"filesystem", ids[k], field>> # <<"smart", "status">>
  OBVIOUS
<1>5. ~metric_equals(mounted, Bool(FALSE))
  BY <1>2, <1>4, EqualsMatches DEF NotMounted
<1>6. ~(used.type = "number" /\ used.value > 90)
  BY <1>2, <1>4, GreaterMatches DEF Full
<1> HIDE DEF mounted, used
<1>7. snapshot.filesystems[k].mounted # FALSE
  BY <1>3, <1>5, Equalities, Zenon
<1>8. ~(snapshot.filesystems[k].used_percent > 90)
  BY <1>3, <1>6 DEF Number
<1> QED BY <1>7, <1>8

\* No rule about the backup matches: there is a healthy or running one and a success in time.
LEMMA QuietBackup ==
    ASSUME NEW snapshot, Quiet(snapshot)
    PROVE  /\ snapshot.backup.status \notin {"unknown", "no_job", "failed", "stale"}
           /\ snapshot.backup.status \in {"healthy", "running"} =>
                 snapshot.backup.age # <<>> /\ ~(snapshot.backup.age[1] > 24)
<1> DEFINE fs == DeployedConfig.filesystems
           holds(c) == matches_condition(c, snapshot, fs)
           old == metric(<<"backup", "age">>, snapshot, fs)
<1>1. \A value : holds(<<BackupIs(value)>>) <=> snapshot.backup.status = value
  BY EqualsMatches, Measurements, Equalities DEF BackupIs
<1>2. /\ DeployedRules[13].when = <<BackupIs("unknown")>>
      /\ DeployedRules[21].when = <<BackupIs("no_job")>>
      /\ DeployedRules[22].when = <<BackupIs("failed")>>
      /\ DeployedRules[23].when = <<BackupIs("stale")>>
      /\ DeployedRules[24].when = <<AllOf({2, 3}), BackupIs("healthy"), Overdue>>
      /\ DeployedRules[25].when = <<AllOf({2, 3}), BackupIs("running"), Overdue>>
  BY DEF DeployedRules, Rule
<1>3. 13 \in 1..25 /\ 21 \in 1..25 /\ 22 \in 1..25 /\ 23 \in 1..25 /\ 24 \in 1..25 /\ 25 \in 1..25
  OBVIOUS
<1>4. \A k \in 1..25 : ~holds(DeployedRules[k].when)
  BY QuietRule
<1>5. Overdue.kind = "predicate" /\ \A value : BackupIs(value).kind = "predicate"
  BY DEF Overdue, BackupIs, Equals, When
<1>6. \A value : holds(<<AllOf({2, 3}), BackupIs(value), Overdue>>)
                   <=> snapshot.backup.status = value /\ matches_selector(Overdue, snapshot, fs)
  <2> SUFFICES ASSUME NEW value
               PROVE  holds(<<AllOf({2, 3}), BackupIs(value), Overdue>>)
                        <=> snapshot.backup.status = value /\ matches_selector(Overdue, snapshot, fs)
    OBVIOUS
  <2> QED BY <1>1, <1>5, AllOfTwo, OnePredicate
<1>7. matches_selector(Overdue, snapshot, fs)
        <=> old.type = "missing" \/ (old.type = "number" /\ old.value > 24)
  <2>1. <<"backup", "age">> # <<"smart", "status">>
    OBVIOUS
  <2> QED BY <2>1, GreaterMatches DEF Overdue
<1>8. old = IF snapshot.backup.age = <<>> THEN Missing ELSE Number(snapshot.backup.age[1])
  BY Measurements, Zenon
<1> HIDE DEF holds, old
<1>9. snapshot.backup.status \notin {"unknown", "no_job", "failed", "stale"}
  <2>1. /\ ~holds(<<BackupIs("unknown")>>) /\ ~holds(<<BackupIs("no_job")>>)
        /\ ~holds(<<BackupIs("failed")>>) /\ ~holds(<<BackupIs("stale")>>)
    BY <1>2, <1>3, <1>4
  <2> QED BY <1>1, <2>1
<1>10. snapshot.backup.status \in {"healthy", "running"} => ~matches_selector(Overdue, snapshot, fs)
  BY <1>2, <1>3, <1>4, <1>6
<1>11. snapshot.backup.status \in {"healthy", "running"} =>
          snapshot.backup.age # <<>> /\ ~(snapshot.backup.age[1] > 24)
  BY <1>7, <1>8, <1>10 DEF Missing, Number
<1> QED BY <1>9, <1>11

-----------------------------------------------------------------------------
(* What is read.                                                           *)

UpsStatuses ==
    {"low_battery", "replace_battery", "output_off", "on_battery", "bypass", "charging", "online", "unknown"}

\* parse_upsc returns one of the statuses.
LEMMA FlagsParsed == \A flags : parse_upsc(flags) \in UpsStatuses
<1> SUFFICES ASSUME NEW flags PROVE parse_upsc(flags) \in UpsStatuses
  OBVIOUS
<1> DEFINE known == {k \in 1..Len(FlagStatus) : FlagStatus[k][1] \in flags}
           first == CHOOSE k \in known : \A l \in known : k <= l
<1>1. Len(FlagStatus) = 7 /\ \A k \in 1..7 : FlagStatus[k][2] \in UpsStatuses
  BY DEF FlagStatus, UpsStatuses
<1>2. known \subseteq 1..7
  BY <1>1
<1> HIDE DEF known
<1>3. CASE known = {}
  BY <1>3 DEF parse_upsc, known, UpsStatuses
<1>4. CASE known # {}
  <2>1. \E k \in known : \A l \in known : k <= l
    <3>1. known \subseteq Nat
      BY <1>2
    <3> QED BY <1>4, <3>1, Least
  <2>2. first \in known
    BY <2>1
  <2>3. FlagStatus[first][2] \in UpsStatuses
    BY <1>1, <1>2, <2>2
  <2> QED BY <1>4, <2>3, Zenon DEF parse_upsc, known, first
<1> QED BY <1>3, <1>4

\* read_smart_device returns one of the statuses.
LEMMA DiskJudged ==
    ASSUME NEW answer \in Disks
    PROVE  SmartStatus(answer) \in {"healthy", "sleeping", "failed", "warning", "unknown"}
<1>1. answer.answered \in BOOLEAN /\ answer.standby \in BOOLEAN
  BY DEF Disks
<1>2. CASE ~answer.answered
  BY <1>2 DEF SmartStatus
<1>3. CASE answer.answered /\ answer.standby
  BY <1>3 DEF SmartStatus
<1>4. CASE answer.answered /\ ~answer.standby
  BY <1>4 DEF SmartStatus
<1> QED BY <1>1, <1>2, <1>3, <1>4

\* A stable sort of some positions by a number has a last one.
LEMMA SortHasLast ==
    ASSUME NEW N \in Nat, NEW S \in SUBSET (1..N), S # {}, NEW key, \A k \in S : key[k] \in Nat
    PROVE  \E k \in S : \A l \in S : key[l] < key[k] \/ (key[l] = key[k] /\ l <= k)
<1> DEFINE Upto(l, k) == key[l] < key[k] \/ (key[l] = key[k] /\ l <= k)
           Best(n, k) == k \in S /\ \A l \in S : l <= n => Upto(l, k)
           T == {n \in 0..N : (\E k \in S : k <= n) => \E k \in S : Best(n, k)}
<1>0. S \subseteq 1..N
  OBVIOUS
<1>1. 0 \in T
  BY <1>0
<1>2. ASSUME NEW n \in 0..N, n > 0, n - 1 \in T
      PROVE  n \in T
  <2> SUFFICES ASSUME \E k \in S : k <= n PROVE \E k \in S : Best(n, k)
    OBVIOUS
  <2>1. \A l \in S : l <= n <=> l = n \/ l <= n - 1
    BY <1>0, <1>2
  <2>2. CASE ~\E k \in S : k <= n - 1
    <3>1. n \in S /\ \A l \in S : l <= n => l = n
      BY <2>1, <2>2
    <3>2. Upto(n, n)
      BY <1>0, <3>1
    <3>3. Best(n, n)
      BY <3>1, <3>2
    <3> QED BY <3>1, <3>3
  <2>3. CASE \E k \in S : k <= n - 1
    <3>1. PICK k \in S : Best(n - 1, k)
      BY <1>2, <2>3
    <3>2. CASE n \notin S
      <4>1. Best(n, k)
        BY <2>1, <3>1, <3>2
      <4> QED BY <4>1
    <3>3. CASE n \in S /\ Upto(n, k)
      <4>1. Best(n, k)
        BY <2>1, <3>1, <3>3
      <4> QED BY <4>1
    <3>4. CASE n \in S /\ ~Upto(n, k)
      <4>1. ASSUME NEW l \in S, l <= n
            PROVE  Upto(l, n)
        <5>1. CASE l = n
          BY <1>0, <3>4, <5>1
        <5>2. CASE l <= n - 1
          <6>1. Upto(l, k)
            BY <3>1, <5>2
          <6>2. key[l] \in Nat /\ key[k] \in Nat /\ key[n] \in Nat /\ l \in Nat /\ k \in Nat
            BY <1>0, <3>4
          <6> QED BY <1>2, <3>4, <5>2, <6>1, <6>2
        <5> QED BY <2>1, <4>1, <5>1, <5>2
      <4> QED BY <3>4, <4>1
    <3> QED BY <3>2, <3>3, <3>4
  <2> QED BY <2>2, <2>3
<1>3. N \in T
  <2> HIDE DEF T
  <2>1. 0..N \subseteq T
    BY <1>1, <1>2, Induction
  <2> QED BY <2>1
<1>4. PICK k \in S : Best(N, k)
  BY <1>0, <1>3
<1>5. \A l \in S : Upto(l, k)
  BY <1>0, <1>4
<1> QED BY <1>5

\* A status and age of which no rule says anything mean a recent backup.
LEMMA RecentBackup ==
    ASSUME Now \in Nat, read.answered \in BOOLEAN, read.tasks \in Seq(Tasks), backup = BackupStatus(read),
           backup.status \notin {"unknown", "no_job", "failed", "stale"},
           backup.status \in {"healthy", "running"} => backup.age # <<>> /\ ~(backup.age[1] > 24)
    PROVE  BackedUp
<1> DEFINE S == LocalTasks(read)
           latest == LatestTask(read)
<1>1. S \in SUBSET (1..Len(read.tasks)) /\ Len(read.tasks) \in Nat
  BY DEF LocalTasks
<1>0. \A k \in S : read.tasks[k].starttime \in Nat /\ read.tasks[k].endtime \in Seq(Nat)
  <2>1. \A k \in S : read.tasks[k] \in Tasks
    <3> HIDE DEF S
    <3> QED BY <1>1
  <2> QED BY <2>1 DEF Tasks
<1>2. read.answered /\ JobsHere(read) # {}
  BY DEF BackupStatus
<1>3. backup = IF S = {} THEN [status |-> "stale", age |-> <<>>]
               ELSE [status |-> IF latest.endtime = <<>> THEN "running"
                                ELSE IF ~latest.ok THEN "failed" ELSE "healthy",
                     age |-> SuccessAge(read)]
  BY <1>2, Zenon DEF BackupStatus
<1> HIDE DEF S, latest
<1>4. /\ S # {} /\ (latest.endtime # <<>> => latest.ok)
      /\ SuccessAge(read) # <<>> /\ ~(SuccessAge(read)[1] > 24)
  BY <1>3
<1> DEFINE last == CHOOSE k \in S : \A l \in S : SortedBefore(read.tasks, l, k)
           tasks == {read.tasks[k] : k \in S}
<1>5. last \in S /\ \A l \in S : SortedBefore(read.tasks, l, last)
  <2> DEFINE key == [k \in S |-> read.tasks[k].starttime]
  <2>1. \A k \in S : key[k] \in Nat /\ key[k] = read.tasks[k].starttime
    BY <1>0
  <2>2. \E k \in S : \A l \in S : key[l] < key[k] \/ (key[l] = key[k] /\ l <= k)
    <3> HIDE DEF key
    <3> QED BY <1>1, <1>4, <2>1, SortHasLast
  <2>3. \E k \in S : \A l \in S : SortedBefore(read.tasks, l, k)
    <3> HIDE DEF key
    <3> QED BY <2>1, <2>2 DEF SortedBefore
  <2> QED BY <2>3
<1>6. latest = read.tasks[last]
  BY Zenon DEF latest, LatestTask, S, last
<1> HIDE DEF last
<1>7. \A other \in tasks : other.starttime <= latest.starttime
  <2>1. latest.starttime \in Nat
    BY <1>0, <1>5, <1>6
  <2> QED BY <1>0, <1>5, <1>6, <2>1 DEF SortedBefore
<1> DEFINE good == {l \in S : read.tasks[l].ok /\ read.tasks[l].endtime # <<>>}
           ends == {read.tasks[k].endtime[1] : k \in good}
           end == CHOOSE e \in ends : \A other \in ends : other <= e
<1>8. SuccessAge(read) = IF ends = {} THEN <<>> ELSE <<IF end <= Now THEN Now - end ELSE 0>>
  BY Zenon DEF SuccessAge, SuccessEnds, S
<1>9. ends \subseteq Nat
  <2>1. \A k \in good : read.tasks[k].endtime \in Seq(Nat) /\ read.tasks[k].endtime # <<>>
    BY <1>0
  <2>2. \A k \in good : read.tasks[k].endtime[1] \in Nat
    BY <2>1
  <2> QED BY <2>2
<1> HIDE DEF end
<1>10. ends # {} /\ end + 24 >= Now /\ end \in ends
  <2>1. ends # {}
    <3> HIDE DEF ends
    <3> QED BY <1>4, <1>8
  <2>2. end \in ends
    <3> DEFINE key == [k \in good |-> read.tasks[k].endtime[1]]
    <3>1. \E e \in ends : \A other \in ends : other <= e
      <4>1. good \in SUBSET (1..Len(read.tasks)) /\ good # {}
        BY <1>1, <2>1
      <4>2. \A k \in good : key[k] \in Nat /\ key[k] = read.tasks[k].endtime[1]
        BY <1>9
      <4> HIDE DEF key, good
      <4>3. PICK k \in good : \A l \in good : key[l] < key[k] \/ (key[l] = key[k] /\ l <= k)
        BY <1>1, <4>1, <4>2, SortHasLast
      <4>4. \A other \in ends : other <= key[k]
        BY <4>2, <4>3
      <4> QED BY <4>2, <4>4
    <3> HIDE DEF ends
    <3> QED BY <3>1 DEF end
  <2>3. ~((IF end <= Now THEN Now - end ELSE 0) > 24)
    <3> HIDE DEF ends
    <3> QED BY <1>4, <1>8, <2>1
  <2> HIDE DEF ends
  <2> QED BY <1>9, <2>1, <2>2, <2>3
<1>11. PICK k \in good : read.tasks[k].endtime[1] = end
  BY <1>10
<1>12. /\ read.tasks[k] \in tasks /\ read.tasks[k].ok /\ read.tasks[k].endtime # <<>>
       /\ read.tasks[k].endtime[1] + 24 >= Now
  BY <1>10, <1>11
<1>13. latest \in tasks
  BY <1>5, <1>6
<1> HIDE DEF good, ends
<1> QED BY <1>4, <1>7, <1>12, <1>13, Zenon DEF BackedUp, S, tasks

-----------------------------------------------------------------------------
(* The collector.  SourceInv is inductive.                                 *)

DiskStates == {"healthy", "sleeping", "failed", "warning", "unknown"}

\* The UPS collector counts the failures since the last answer, up to the largest u8, and
\* its snapshot is what they make of that answer.
UpsCounted ==
    /\ missed \in 0..(MaxCount + 1)
    /\ ups.last_good \in {<<>>} \cup {<<s>> : s \in UpsStatuses}
    /\ ups.consecutive_failures = Smaller(missed, MaxCount)

UpsShown ==
    /\ missed = 0 => /\ ups.last_good # <<>>
                     /\ ups.snapshot = [status |-> ups.last_good[1], stale |-> FALSE]
    /\ missed > 0 => ups.snapshot = [status |-> IF missed >= DeployedConfig.failures_before_unavailable
                                                THEN "unavailable" ELSE UpsKept,
                                     stale |-> TRUE]

\* What the other sources have said last.
SourcesRead ==
    /\ Len(filesystem_usage) = 3
    /\ \A k \in 1..3 : filesystem_usage[k].mounted \in BOOLEAN /\ filesystem_usage[k].used_percent \in Nat
    /\ \A k \in 1..Len(smart) : smart[k] \in DiskStates
    /\ read \in BackupReadings /\ backup = BackupStatus(read)

SourceInv ==
    /\ running \in BOOLEAN
    /\ DOMAIN ups = {"last_good", "consecutive_failures", "snapshot"}
    /\ UpsCounted
    /\ running => UpsShown /\ SourcesRead

\* HealthCollector::new counts no failures.
LEMMA CollectorStarts == CollectorInit => SourceInv
<1> SUFFICES ASSUME CollectorInit PROVE SourceInv
  OBVIOUS
<1>1. /\ missed = 0 /\ running = FALSE
      /\ ups = [last_good |-> <<>>, consecutive_failures |-> 0,
                snapshot |-> [status |-> "not_configured", stale |-> FALSE]]
  BY DEF CollectorInit
<1>2. UpsCounted
  BY <1>1, ProbeAssumption DEF UpsCounted, Smaller
<1>3. DOMAIN ups = {"last_good", "consecutive_failures", "snapshot"}
  BY <1>1
<1> QED BY <1>1, <1>2, <1>3 DEF SourceInv

\* A query of the UPS, answered or not.
LEMMA UpsStep ==
    ASSUME UpsCounted, DOMAIN ups = {"last_good", "consecutive_failures", "snapshot"}, UpsReads
    PROVE  UpsCounted' /\ UpsShown' /\ DOMAIN ups' = {"last_good", "consecutive_failures", "snapshot"}
<1>0. MaxCount \in Nat /\ 1 <= MaxCount
  BY ProbeAssumption
<1>1. CASE \E flags \in UpsReadings : ups' = UpsAnswered(flags) /\ missed' = 0
  <2>1. PICK flags \in UpsReadings : ups' = UpsAnswered(flags) /\ missed' = 0
    BY <1>1
  <2>2. PICK s \in UpsStatuses : s = parse_upsc(flags)
    BY FlagsParsed
  <2>3. ups' = [last_good |-> <<s>>, consecutive_failures |-> 0,
                snapshot |-> [status |-> s, stale |-> FALSE]]
    BY <2>1, <2>2 DEF UpsAnswered
  <2>4. UpsCounted'
    BY <1>0, <2>1, <2>2, <2>3 DEF UpsCounted, Smaller
  <2>5. UpsShown'
    BY <2>1, <2>3 DEF UpsShown
  <2>6. DOMAIN ups' = {"last_good", "consecutive_failures", "snapshot"}
    BY <2>3
  <2> QED BY <2>4, <2>5, <2>6
<1>2. CASE ups' = UpsMissed /\ missed' = Smaller(missed + 1, MaxCount + 1)
  <2>1. /\ missed \in 0..(MaxCount + 1) /\ ups.consecutive_failures = Smaller(missed, MaxCount)
        /\ ups.last_good \in {<<>>} \cup {<<s>> : s \in UpsStatuses}
    BY DEF UpsCounted
  <2>2. /\ missed' \in 0..(MaxCount + 1) /\ missed' > 0
        /\ UpsFailure = Smaller(missed', MaxCount)
    BY <1>0, <1>2, <2>1 DEF UpsFailure, Smaller
  <2>3. /\ ups'.last_good = ups.last_good /\ ups'.consecutive_failures = UpsFailure
        /\ ups'.snapshot = [status |-> IF UpsFailure >= DeployedConfig.failures_before_unavailable
                                       THEN "unavailable" ELSE UpsKept,
                            stale |-> TRUE]
        /\ DOMAIN ups' = DOMAIN ups
    BY <1>2 DEF UpsMissed
  <2>4. UpsCounted'
    BY <2>1, <2>2, <2>3 DEF UpsCounted
  <2>5. UpsFailure >= DeployedConfig.failures_before_unavailable
          <=> missed' >= DeployedConfig.failures_before_unavailable
    <3>1. DeployedConfig.failures_before_unavailable = 2
      BY DEF DeployedConfig
    <3>2. 2 <= MaxCount
      BY <3>1, CollectorAssumption
    <3> QED BY <1>0, <2>2, <3>1, <3>2 DEF Smaller
  <2>6. UpsKept' = UpsKept
    BY <2>3 DEF UpsKept
  <2>7. ups'.snapshot = [status |-> IF missed' >= DeployedConfig.failures_before_unavailable
                                    THEN "unavailable" ELSE UpsKept',
                         stale |-> TRUE]
    BY <2>3, <2>5, <2>6
  <2>8. UpsShown'
    BY <2>2, <2>7 DEF UpsShown
  <2> QED BY <2>3, <2>4, <2>8
<1> QED BY <1>1, <1>2 DEF UpsReads

\* The first of the deployed filesystems and so on, mounted or not.
LEMMA FilesystemsStep ==
    ASSUME FilesystemsRead
    PROVE  /\ Len(filesystem_usage') = 3
           /\ \A k \in 1..3 : /\ filesystem_usage'[k].mounted \in BOOLEAN
                              /\ filesystem_usage'[k].used_percent \in Nat
<1>1. PICK answers \in FilesystemReadings :
        filesystem_usage' = [k \in 1..Len(answers) |-> FilesystemUsage(answers[k])]
  BY DEF FilesystemsRead
<1>2. Len(DeployedConfig.filesystems) = 3
  BY DEF DeployedConfig
<1>3. Len(answers) = 3 /\ \A k \in 1..3 : answers[k] \in Usage
  BY <1>2, CollectorAssumption
<1>4. Len(filesystem_usage') = 3 /\ \A k \in 1..3 : filesystem_usage'[k] = FilesystemUsage(answers[k])
  BY <1>1, <1>3
<1>5. \A answer \in Usage : /\ FilesystemUsage(answer).mounted \in BOOLEAN
                            /\ FilesystemUsage(answer).used_percent \in Nat
  BY DEF Usage, FilesystemUsage
<1> QED BY <1>3, <1>4, <1>5

\* Every device gets a status.
LEMMA SmartStep ==
    ASSUME SmartReads
    PROVE  \A k \in 1..Len(smart') : smart'[k] \in DiskStates
<1>1. PICK answers \in SmartReadings : smart' = [k \in 1..Len(answers) |-> SmartStatus(answers[k])]
  BY DEF SmartReads
<1>2. Len(answers) = 5 /\ \A k \in 1..5 : answers[k] \in Disks
  <2>1. Len(DeployedConfig.smart) = 5
    BY DEF DeployedConfig
  <2> QED BY <2>1, CollectorAssumption
<1>3. Len(smart') = 5 /\ \A k \in 1..5 : smart'[k] = SmartStatus(answers[k])
  BY <1>1, <1>2
<1> QED BY <1>2, <1>3, DiskJudged DEF DiskStates

\* The answer of pvesh is judged.
LEMMA BackupStep ==
    ASSUME BackupReads
    PROVE  read' \in BackupReadings /\ (backup = BackupStatus(read))'
<1>1. PICK answer \in BackupReadings : backup' = BackupStatus(answer) /\ read' = answer
  BY DEF BackupReads
<1> QED BY <1>1

\* No refresh of one source disturbs what is kept of another.
LEMMA SourceStep == SourceInv /\ [CollectorNext]_allVars => SourceInv'
<1> SUFFICES ASSUME SourceInv, [CollectorNext]_allVars PROVE SourceInv'
  OBVIOUS
<1> DEFINE typed == DOMAIN ups = {"last_good", "consecutive_failures", "snapshot"}
<1>0. running \in BOOLEAN /\ typed /\ UpsCounted /\ (running => UpsShown /\ SourcesRead)
  BY DEF SourceInv
<1>1. CASE UNCHANGED <<running, sourceVars>>
  <2>1. UNCHANGED <<running, ups, backup, filesystem_usage, smart, read, missed>>
    BY <1>1 DEF sourceVars
  <2>2. UpsCounted' /\ typed'
    BY <1>0, <2>1 DEF UpsCounted
  <2>3. running' => UpsShown'
    BY <1>0, <2>1 DEF UpsShown, UpsKept
  <2>4. running' => SourcesRead'
    BY <1>0, <2>1 DEF SourcesRead
  <2> QED BY <1>0, <2>1, <2>2, <2>3, <2>4 DEF SourceInv
<1>2. CASE Start
  <2>1. running' = TRUE /\ UpsReads /\ FilesystemsRead /\ SmartReads /\ BackupReads
    BY <1>2 DEF Start
  <2>2. UpsCounted' /\ UpsShown' /\ typed'
    BY <1>0, <2>1, UpsStep
  <2>3. SourcesRead'
    BY <2>1, FilesystemsStep, SmartStep, BackupStep DEF SourcesRead
  <2> QED BY <2>1, <2>2, <2>3 DEF SourceInv
<1>3. CASE RefreshUps
  <2>1. /\ running /\ running' = running /\ UpsReads
        /\ UNCHANGED <<backup, filesystem_usage, smart, read>>
    BY <1>3 DEF RefreshUps, Collects
  <2>2. UpsCounted' /\ UpsShown' /\ typed'
    BY <1>0, <2>1, UpsStep
  <2>3. SourcesRead'
    BY <1>0, <2>1 DEF SourcesRead
  <2> QED BY <1>0, <2>1, <2>2, <2>3 DEF SourceInv
<1>4. ASSUME Collects, UNCHANGED <<ups, missed>>, SourcesRead'
      PROVE  SourceInv'
  <2>1. running /\ running' = running
    BY <1>4 DEF Collects
  <2>2. UpsCounted' /\ typed'
    BY <1>0, <1>4 DEF UpsCounted
  <2>3. UpsShown'
    BY <1>0, <1>4, <2>1 DEF UpsShown, UpsKept
  <2> QED BY <1>0, <1>4, <2>1, <2>2, <2>3 DEF SourceInv
<1>5. CASE RefreshFilesystems
  <2>1. /\ Collects /\ running /\ FilesystemsRead
        /\ UNCHANGED <<ups, backup, smart, read, missed>>
    BY <1>5 DEF RefreshFilesystems, Collects
  <2>2. SourcesRead'
    BY <1>0, <2>1, FilesystemsStep DEF SourcesRead
  <2> QED BY <1>4, <2>1, <2>2
<1>6. CASE RefreshSmart
  <2>1. /\ Collects /\ running /\ SmartReads
        /\ UNCHANGED <<ups, backup, filesystem_usage, read, missed>>
    BY <1>6 DEF RefreshSmart, Collects
  <2>2. SourcesRead'
    BY <1>0, <2>1, SmartStep DEF SourcesRead
  <2> QED BY <1>4, <2>1, <2>2
<1>7. CASE RefreshBackup
  <2>1. /\ Collects /\ running /\ BackupReads
        /\ UNCHANGED <<ups, filesystem_usage, smart, missed>>
    BY <1>7 DEF RefreshBackup, Collects
  <2>2. SourcesRead'
    BY <1>0, <2>1, BackupStep DEF SourcesRead
  <2> QED BY <1>4, <2>1, <2>2
<1>8. CASE ProbeSnapshot
  <2>1. /\ running /\ running' = running
        /\ UNCHANGED <<ups, backup, filesystem_usage, smart, read, missed>>
    BY <1>8 DEF ProbeSnapshot
  <2>2. UpsCounted' /\ typed'
    BY <1>0, <2>1 DEF UpsCounted
  <2>3. UpsShown'
    BY <1>0, <2>1 DEF UpsShown, UpsKept
  <2>4. SourcesRead'
    BY <1>0, <2>1 DEF SourcesRead
  <2> QED BY <1>0, <2>1, <2>2, <2>3, <2>4 DEF SourceInv
<1> QED
  BY <1>1, <1>2, <1>3, <1>5, <1>6, <1>7, <1>8
  DEF CollectorNext, CheckConfig, CheckExits, ProbeTick, ProbeResult, Others, allVars

\* What the collector keeps of each source is what that source has said last, in every reachable
\* state: refreshes of the sources at their own intervals do not get mixed up.
THEOREM SourcesKept == CollectorSpec => []SourceInv
BY CollectorStarts, SourceStep, PTL DEF CollectorSpec

\* HEALTHY is shown only while everything is well: no rule of the 25 says otherwise of what
\* the sources have said.
LEMMA HealthyIsWell == SourceInv => HealthyMeansWell
<1> SUFFICES ASSUME SourceInv, running, Report.severity = "healthy"
             PROVE  HealthyMeansWell
  BY Zenon DEF HealthyMeansWell
<1>1. /\ missed \in 0..(MaxCount + 1) /\ UpsShown /\ SourcesRead
      /\ ups.last_good \in {<<>>} \cup {<<s>> : s \in UpsStatuses}
  BY DEF SourceInv, UpsCounted
<1> DEFINE snapshot == HealthSnapshot
<1>2. /\ snapshot.ups = ups.snapshot /\ snapshot.smart = smart /\ snapshot.backup = backup
      /\ snapshot.filesystems = filesystem_usage /\ snapshot.network_up = (last_link_up = "up")
      /\ snapshot.internet_status = StatusText[status]
  BY DEF HealthSnapshot
<1> HIDE DEF snapshot
<1>3. Quiet(snapshot)
  BY ReportedOfSnapshot DEF Report, Quiet, snapshot
<1>4. last_link_up = "up" /\ status # "Failed"
  <2>1. snapshot.network_up # FALSE /\ snapshot.internet_status # "failed"
    BY <1>3, QuietNetwork
  <2>2. StatusText["Failed"] = "failed"
    BY DEF StatusText
  <2> QED BY <1>2, <2>1, <2>2
<1>5. PowerGood
  <2>0. DeployedConfig.failures_before_unavailable = 2 /\ MaxCount \in Nat
    BY ProbeAssumption DEF DeployedConfig
  <2>1. /\ ups.snapshot.status \notin {"low_battery", "output_off", "replace_battery", "on_battery",
                                       "bypass", "unavailable"}
        /\ ~(ups.snapshot.status = "unknown" /\ ups.snapshot.stale = FALSE)
    BY <1>2, <1>3, QuietUps
  <2>2. CASE missed = 0
    <3>1. /\ ups.last_good # <<>> /\ ups.snapshot.status = ups.last_good[1]
          /\ ups.snapshot.stale = FALSE
      BY <1>1, <2>2 DEF UpsShown
    <3>2. ups.last_good[1] \in UpsStatuses
      BY <1>1, <3>1
    <3> QED BY <2>1, <2>2, <3>1, <3>2 DEF PowerGood, UpsStatuses
  <2>3. CASE missed > 0
    <3>1. ups.snapshot.status = IF missed >= 2 THEN "unavailable" ELSE UpsKept
      BY <1>1, <2>0, <2>3 DEF UpsShown
    <3>2. ~(missed >= 2) /\ UpsKept = ups.snapshot.status
      BY <2>1, <3>1
    <3>3. missed \in 1..(2 - 1)
      BY <1>1, <2>0, <2>3, <3>2
    <3>4. ups.last_good = <<>> \/ ups.last_good[1] \in {"online", "charging", "unknown"}
      BY <1>1, <2>1, <3>2 DEF UpsKept, UpsStatuses
    <3> QED BY <2>0, <3>3, <3>4 DEF PowerGood
  <2> QED BY <1>1, <2>0, <2>2, <2>3
<1>6. BackedUp
  <2>1. /\ Now \in Nat /\ read \in BackupReadings /\ backup = BackupStatus(read)
        /\ read.answered \in BOOLEAN /\ read.tasks \in Seq(Tasks)
    BY <1>1, CollectorAssumption DEF SourcesRead
  <2>2. /\ backup.status \notin {"unknown", "no_job", "failed", "stale"}
        /\ backup.status \in {"healthy", "running"} => backup.age # <<>> /\ ~(backup.age[1] > 24)
    BY <1>2, <1>3, QuietBackup
  <2> QED BY <2>1, <2>2, RecentBackup
<1>7. \A k \in 1..Len(smart) : smart[k] \in {"healthy", "sleeping"}
  <2>1. \A k \in 1..Len(smart) : smart[k] \notin {"failed", "warning", "unknown"}
    BY <1>2, <1>3, QuietDisks
  <2> QED BY <1>1, <2>1 DEF SourcesRead, DiskStates
<1>8. \A k \in 1..Len(filesystem_usage) :
        filesystem_usage[k].mounted /\ filesystem_usage[k].used_percent <= 90
  <2>1. Len(filesystem_usage) = 3
    BY <1>1 DEF SourcesRead
  <2>2. ASSUME NEW k \in 1..3
        PROVE  filesystem_usage[k].mounted /\ filesystem_usage[k].used_percent <= 90
    <3>1. filesystem_usage[k].mounted # FALSE /\ ~(filesystem_usage[k].used_percent > 90)
      BY <1>2, <1>3, <2>1, QuietFilesystems
    <3>2. filesystem_usage[k].mounted \in BOOLEAN /\ filesystem_usage[k].used_percent \in Nat
      BY <1>1 DEF SourcesRead
    <3>3. filesystem_usage[k].mounted
      BY <3>1, <3>2, Zenon
    <3> QED BY <3>1, <3>2, <3>3
  <2> QED BY <2>1, <2>2
<1> QED BY <1>4, <1>5, <1>6, <1>7, <1>8, Zenon DEF HealthyMeansWell

\* As many failures as configured, and no fewer, make the UPS unavailable.
LEMMA OutageShown == SourceInv => UnavailableOnTime
<1> SUFFICES ASSUME SourceInv, running PROVE UnavailableOnTime
  BY Zenon DEF UnavailableOnTime
<1>1. /\ missed \in 0..(MaxCount + 1) /\ UpsShown /\ MaxCount \in Nat
      /\ ups.last_good \in {<<>>} \cup {<<s>> : s \in UpsStatuses}
  BY ProbeAssumption DEF SourceInv, UpsCounted
<1>2. DeployedConfig.failures_before_unavailable = 2
  BY DEF DeployedConfig
<1>3. ups.last_good # <<>> => ups.last_good[1] # "unavailable"
  BY <1>1 DEF UpsStatuses
<1>4. UpsKept # "unavailable"
  BY <1>3 DEF UpsKept
<1>5. ups.snapshot.status = "unavailable" <=> missed >= 2
  <2>1. CASE missed = 0
    <3>1. ups.last_good # <<>> /\ ups.snapshot.status = ups.last_good[1]
      BY <1>1, <2>1 DEF UpsShown
    <3> QED BY <1>3, <2>1, <3>1
  <2>2. CASE missed > 0
    <3>1. ups.snapshot.status = IF missed >= 2 THEN "unavailable" ELSE UpsKept
      BY <1>1, <1>2, <2>2 DEF UpsShown
    <3> QED BY <1>4, <3>1
  <2> QED BY <1>1, <2>1, <2>2
<1> QED BY <1>2, <1>5 DEF UnavailableOnTime

\* What the stick shows follows what the sources say: HEALTHY only while everything is well,
\* the UPS unavailable after exactly as many failures as configured, and of several
\* incidents the first of the worst.
THEOREM ReportFollowsSources == CollectorSpec => []CollectorInv
<1>1. SourceInv => CollectorInv
  BY HealthyIsWell, OutageShown, FirstOfTheWorst DEF CollectorInv
<1> QED BY <1>1, SourcesKept, PTL

\* The daemon's other threads leave the probe's state alone, so what holds of the probe by
\* itself holds of it in the daemon.
THEOREM CollectorProbes == CollectorSpec => Spec
<1>1. CollectorInit => Init
  BY DEF CollectorInit
<1>2. [CollectorNext]_allVars => [Next]_vars
  <2> SUFFICES ASSUME [CollectorNext]_allVars PROVE [Next]_vars
    OBVIOUS
  <2> QED
    BY DEF CollectorNext, CheckConfig, CheckExits, Start, RefreshUps, RefreshFilesystems, RefreshSmart,
        RefreshBackup, Collects, ProbeTick, ProbeSnapshot, ProbeResult, Others, allVars, Next, Snapshot
<1> QED BY <1>1, <1>2, PTL DEF CollectorSpec, Spec

-----------------------------------------------------------------------------
(* Flattening.                                                             *)

\* flat[n] is the first n sequences, joined.
Flattens(seqs, flat) ==
    /\ flat[1] = seqs[1]
    /\ \A n \in 2..Len(seqs) : flat[n] = flat[n - 1] \o seqs[n]
    /\ FlattenSeq(seqs) = flat[Len(seqs)]

\* The recursive function of FlattenSeq exists: it joins the sequences one after the other.
LEMMA FlattenedInTurn ==
    ASSUME NEW seqs, Len(seqs) \in Nat, Len(seqs) > 0
    PROVE  \E flat : Flattens(seqs, flat)
<1> DEFINE Fits(f, N) == f = [n \in 1..N |-> IF n = 1 THEN seqs[n] ELSE f[n - 1] \o seqs[n]]
           T == {N \in 0..Len(seqs) : \E f : Fits(f, N)}
<1>1. 0 \in T
  <2> DEFINE g == [n \in 1..0 |-> seqs[n]]
  <2>1. \A n \in 1..0 : n = 0
    OBVIOUS
  <2>2. Fits(g, 0)
    BY <2>1
  <2>3. \E f : Fits(f, 0)
    <3> HIDE DEF Fits
    <3> QED BY <2>2
  <2> HIDE DEF Fits
  <2> QED BY <2>3
<1>2. ASSUME NEW N \in 0..Len(seqs), N > 0, N - 1 \in T
      PROVE  N \in T
  <2>1. PICK f : Fits(f, N - 1)
    BY <1>2
  <2> DEFINE g == [n \in 1..N |-> IF n = 1 THEN seqs[n] ELSE f[n - 1] \o seqs[n]]
  <2>2. \A n \in 1..(N - 1) : g[n] = f[n]
    <3>1. \A n \in 1..(N - 1) : n \in 1..N
      OBVIOUS
    <3>2. \A n \in 1..(N - 1) : f[n] = IF n = 1 THEN seqs[n] ELSE f[n - 1] \o seqs[n]
      BY <2>1
    <3> QED BY <3>1, <3>2
  <2>3. \A n \in 1..N : n # 1 => n - 1 \in 1..(N - 1)
    OBVIOUS
  <2>4. Fits(g, N)
    BY <2>2, <2>3
  <2> QED BY <2>4
<1>3. Len(seqs) \in T
  <2> HIDE DEF T
  <2>1. 0..Len(seqs) \subseteq T
    BY <1>1, <1>2, Induction
  <2> QED BY <2>1
<1> DEFINE flat == CHOOSE f : Fits(f, Len(seqs))
<1>4. Fits(flat, Len(seqs))
  BY <1>3
<1>5. FlattenSeq(seqs) = flat[Len(seqs)]
  BY DEF FlattenSeq
<1> HIDE DEF flat
<1>6. flat[1] = seqs[1]
  <2>1. 1 \in 1..Len(seqs)
    OBVIOUS
  <2> QED BY <1>4, <2>1, Zenon
<1>7. ASSUME NEW n \in 2..Len(seqs)
      PROVE  flat[n] = flat[n - 1] \o seqs[n]
  <2>1. n \in 1..Len(seqs) /\ n # 1
    BY <1>7
  <2> QED BY <1>4, <2>1, Zenon
<1>8. Flattens(seqs, flat)
  BY <1>5, <1>6, <1>7 DEF Flattens
<1> QED BY <1>8

\* Nothing is lost of sequences that are not empty.
LEMMA FlattenedNotEmpty ==
    ASSUME NEW S, NEW seqs \in Seq(Seq(S)), seqs # <<>>, \A n \in 1..Len(seqs) : seqs[n] # <<>>
    PROVE  FlattenSeq(seqs) # <<>>
<1>1. Len(seqs) \in Nat /\ Len(seqs) > 0 /\ \A n \in 1..Len(seqs) : seqs[n] \in Seq(S)
  OBVIOUS
<1>2. PICK flat : Flattens(seqs, flat)
  BY <1>1, FlattenedInTurn
<1> DEFINE T == {n \in 0..Len(seqs) : n > 0 => flat[n] \in Seq(S) /\ flat[n] # <<>>}
<1>3. 0 \in T
  BY <1>1
<1>4. ASSUME NEW n \in 0..Len(seqs), n > 0, n - 1 \in T
      PROVE  n \in T
  <2>1. CASE n = 1
    BY <1>1, <1>2, <2>1 DEF Flattens
  <2>2. CASE n # 1
    <3>1. /\ n \in 2..Len(seqs) /\ flat[n - 1] \in Seq(S) /\ flat[n - 1] # <<>>
          /\ seqs[n] \in Seq(S)
      BY <1>1, <1>4, <2>2
    <3>2. flat[n] = flat[n - 1] \o seqs[n]
      BY <1>2, <3>1 DEF Flattens
    <3>3. flat[n] \in Seq(S) /\ Len(flat[n]) = Len(flat[n - 1]) + Len(seqs[n])
      BY <3>1, <3>2, ConcatProperties
    <3>4. Len(flat[n - 1]) \in Nat /\ Len(flat[n - 1]) > 0 /\ Len(seqs[n]) \in Nat
      BY <3>1
    <3>5. Len(flat[n]) > 0
      <4> DEFINE a == Len(flat[n - 1])
                 b == Len(seqs[n])
                 c == Len(flat[n])
      <4>1. c = a + b /\ a \in Nat /\ a > 0 /\ b \in Nat
        BY <3>3, <3>4, Zenon
      <4> HIDE DEF a, b, c
      <4>2. c > 0
        BY <4>1
      <4> QED BY <4>2, Zenon DEF c
    <3>6. flat[n] # <<>>
      BY <3>5
    <3> QED BY <3>3, <3>6
  <2> QED BY <2>1, <2>2
<1>5. Len(seqs) \in T
  <2> HIDE DEF T
  <2>1. 0..Len(seqs) \subseteq T
    BY <1>1, <1>3, <1>4, Induction
  <2> QED BY <1>1, <2>1
<1> QED BY <1>1, <1>2, <1>5 DEF Flattens

\* As many chunks as are needed show all of a list once, in order.
LEMMA ChunksShowAll ==
    ASSUME NEW S, NEW all \in Seq(S), NEW size \in {3, 4, 5}, NEW pages \in Nat, pages > 0,
           size * pages >= Len(all), NEW rows, rows = [k \in 1..pages |-> Chunk(all, k - 1, size)]
    PROVE  ShownOnce(rows, all, size)
<1> DEFINE L == Len(all)
           upto(n) == Smaller(n * size, L)
<1>1. L \in Nat /\ Len(rows) = pages
  OBVIOUS
<1>2. \A k \in 1..pages : rows[k] = SubSeq(all, (k - 1) * size + 1, upto(k))
  <2>1. ASSUME NEW k \in 1..pages
        PROVE  rows[k] = SubSeq(all, (k - 1) * size + 1, upto(k))
    <3>1. rows[k] = Chunk(all, k - 1, size) /\ (k - 1) + 1 = k
      OBVIOUS
    <3> QED BY <3>1 DEF Chunk
  <2> QED BY <2>1
<1>3. \A n \in Nat : n > 0 =>
         /\ (n - 1) * size \in Nat /\ n * size = (n - 1) * size + size
         /\ upto(n) \in 0..L /\ upto(n - 1) \in 0..L /\ upto(n - 1) <= upto(n)
         /\ upto(n) <= (n - 1) * size + size
  <2>1. CASE size = 3
    BY <1>1, <2>1 DEF Smaller
  <2>2. CASE size = 4
    BY <1>1, <2>2 DEF Smaller
  <2>3. CASE size = 5
    BY <1>1, <2>3 DEF Smaller
  <2> QED BY <2>1, <2>2, <2>3
<1>4. upto(pages) = L
  <2>1. size * pages = pages * size /\ pages * size \in Nat
    OBVIOUS
  <2> QED BY <1>1, <2>1 DEF Smaller
<1>5. 0 * size = 0
  OBVIOUS
<1> HIDE DEF L
<1>6. PICK flat : Flattens(rows, flat)
  BY <1>1, FlattenedInTurn
<1> DEFINE T == {n \in 0..pages : n > 0 => flat[n] = SubSeq(all, 1, upto(n))}
<1>7. 0 \in T
  OBVIOUS
<1>8. ASSUME NEW n \in 0..pages, n > 0, n - 1 \in T
      PROVE  n \in T
  <2>1. n \in 1..pages /\ n \in Nat /\ n - 1 \in Nat
    BY <1>8
  <2>2. CASE n = 1
    <3>1. flat[1] = rows[1] /\ 1 \in 1..pages /\ (1 - 1) * size + 1 = 1
      BY <1>6 DEF Flattens
    <3> HIDE DEF upto
    <3>2. flat[1] = SubSeq(all, 1, upto(1))
      BY <1>2, <3>1
    <3> QED BY <2>2, <3>2
  <2>3. CASE n # 1
    <3>1. flat[n] = SubSeq(all, 1, upto(n - 1)) \o SubSeq(all, (n - 1) * size + 1, upto(n))
      <4>1. n \in 2..Len(rows) /\ n - 1 > 0
        BY <1>1, <2>1, <2>3
      <4>2. flat[n] = flat[n - 1] \o rows[n]
        BY <1>6, <4>1 DEF Flattens
      <4>3. flat[n - 1] = SubSeq(all, 1, upto(n - 1))
        BY <1>8, <4>1
      <4> HIDE DEF upto
      <4> QED BY <1>2, <2>1, <4>2, <4>3
    <3> DEFINE from == (n - 1) * size
    <3>2. from \in Nat /\ upto(n - 1) = Smaller(from, L) /\ upto(n - 1) \in 0..L /\ upto(n) \in 0..L
          /\ upto(n - 1) <= upto(n)
      BY <1>3, <2>1
    <3> HIDE DEF upto, from
    <3>3. CASE from <= L
      <4>1. upto(n - 1) = from
        BY <1>1, <3>2, <3>3 DEF Smaller
      <4>2. from \in 1 - 1 .. Len(all) /\ upto(n) \in from .. Len(all) /\ 1 \in 1 .. Len(all) + 1
        BY <1>1, <3>2, <4>1 DEF L
      <4>3. SubSeq(all, 1, from) \o SubSeq(all, from + 1, upto(n)) = SubSeq(all, 1, upto(n))
        BY <4>2, ConcatAdjacentSubSeq
      <4>4. flat[n] = SubSeq(all, 1, upto(n))
        BY <3>1, <4>1, <4>3 DEF from
      <4> QED BY <4>4
    <3>4. CASE ~(from <= L)
      <4>1. upto(n - 1) = L /\ upto(n) = L /\ L < from + 1
        BY <1>1, <3>2, <3>4 DEF Smaller
      <4>2. SubSeq(all, from + 1, upto(n)) = <<>>
        BY <1>1, <3>2, <4>1, SubSeqEmpty
      <4>3. SubSeq(all, 1, L) = all
        BY SubSeqFull DEF L
      <4>4. all \o <<>> = all
        BY ConcatEmptySeq
      <4>5. flat[n] = SubSeq(all, 1, upto(n))
        BY <3>1, <4>1, <4>2, <4>3, <4>4 DEF from
      <4> QED BY <4>5
    <3> QED BY <1>1, <3>2, <3>3, <3>4
  <2> QED BY <2>2, <2>3
<1>9. FlattenSeq(rows) = all
  <2>1. pages \in T
    <3> HIDE DEF T
    <3>1. 0..pages \subseteq T
      BY <1>7, <1>8, Induction
    <3> QED BY <3>1
  <2>2. flat[pages] = SubSeq(all, 1, L)
    <3>1. flat[pages] = SubSeq(all, 1, upto(pages))
      BY <2>1
    <3> HIDE DEF upto
    <3> QED BY <1>4, <3>1
  <2>3. SubSeq(all, 1, L) = all
    BY SubSeqFull DEF L
  <2> QED BY <1>1, <1>6, <2>2, <2>3 DEF Flattens
<1>10. ASSUME NEW k \in 1..Len(rows)
       PROVE  Len(rows[k]) <= size
  <2> DEFINE from == (k - 1) * size
  <2>1. from \in Nat /\ upto(k) \in 0..L /\ upto(k) <= from + size /\ k \in 1..pages
    BY <1>1, <1>3
  <2>2. rows[k] = SubSeq(all, from + 1, upto(k))
    BY <1>2, <2>1
  <2> HIDE DEF upto, from
  <2>3. \A i \in (from + 1)..upto(k) : all[i] \in S
    <3>1. \A i \in (from + 1)..upto(k) : i \in 1..Len(all)
      BY <1>1, <2>1 DEF L
    <3> QED BY <3>1
  <2>4. from + 1 \in Int /\ upto(k) \in Int
    BY <1>1, <2>1
  <2>5. Len(rows[k]) = IF from + 1 <= upto(k) THEN upto(k) - (from + 1) + 1 ELSE 0
    BY <2>2, <2>3, <2>4, SubSeqProperties
  <2> QED BY <1>1, <2>1, <2>5
<1> QED BY <1>9, <1>10 DEF ShownOnce

-----------------------------------------------------------------------------
(* The layout.                                                             *)

\* What --check-config says is what validation finds.
CheckedInv ==
    checked = <<>> \/ \E config \in Configs : checked = <<[config |-> config, valid |-> Valid(config)]>>

\* The answer of --check-config is the result of Config::validate, in every reachable state.
THEOREM AnswersAreValidations == CollectorSpec => []CheckedInv
<1>1. CollectorInit => CheckedInv
  BY DEF CollectorInit, CheckedInv
<1>2. CheckedInv /\ [CollectorNext]_allVars => CheckedInv'
  <2> SUFFICES ASSUME CheckedInv, [CollectorNext]_allVars PROVE CheckedInv'
    OBVIOUS
  <2>1. CASE CheckConfig
    BY <2>1 DEF CheckConfig, CheckedInv
  <2>2. CASE CheckExits
    BY <2>2 DEF CheckExits, CheckedInv
  <2>3. CASE checked' = checked
    BY <2>3, Zenon DEF CheckedInv
  <2>4. CheckConfig \/ CheckExits \/ checked' = checked
    BY DEF CollectorNext, Start, RefreshUps, RefreshFilesystems, RefreshSmart, RefreshBackup, Collects,
           ProbeTick, ProbeSnapshot, ProbeResult, Others, allVars
  <2> QED BY <2>1, <2>2, <2>3, <2>4
<1> QED BY <1>1, <1>2, PTL DEF CollectorSpec

\* Only validated configurations are called valid.
LEMMA CheckedConfigs ==
    ASSUME CheckedInv, NEW config \in ValidConfigs
    PROVE  Valid(config) /\ Typed(config)
<1>1. PICK answer \in ToSet(checked) : answer.valid /\ config = answer.config
  BY DEF ValidConfigs
<1>2. PICK i \in DOMAIN checked : answer = checked[i]
  BY <1>1 DEF ToSet
<1>3. PICK tried \in Configs : checked = <<[config |-> tried, valid |-> Valid(tried)]>>
  BY <1>2 DEF CheckedInv
<1>4. answer = [config |-> tried, valid |-> Valid(tried)]
  BY <1>2, <1>3
<1>5. config = tried /\ (answer.valid <=> Valid(tried))
  BY <1>1, <1>4
<1> QED BY <1>1, <1>5, CollectorAssumption

\* A view that can be laid out.
ViewTyped(view) ==
    /\ view.layout \in {"overview", "resources", "storage", "power_network", "guests"}
    /\ view.layout = "guests" => view.paginate \in BOOLEAN
    /\ view.layout = "storage" => view.filesystems \in Seq(STRING) /\ view.smart \in Seq(STRING)

\* The kinds of views, one by one.
LEMMA PagesOfViews ==
    ASSUME NEW config, NEW id, NEW n \in Nat, ViewTyped(config.views[id])
    PROVE  LET view == config.views[id]
               filesystems == resolve_indices(config.filesystems, view.filesystems)
               disks == resolve_indices(config.smart, view.smart)
           IN  \/ /\ view.layout = "guests" /\ view.paginate
                  /\ ViewPages(config, id, n) =
                       [k \in 1..guest_page_count(n) |->
                          [title |-> id, page |-> "guests", offset |-> (k - 1) * 4, limit |-> 4]]
               \/ /\ view.layout = "storage"
                  /\ ViewPages(config, id, n) =
                       [k \in 1..StoragePages(filesystems, disks) |->
                          [title |-> id, page |-> "storage", filesystems_left |-> view.filesystems_left,
                           filesystem_indices |-> Chunk(filesystems, k - 1, 3),
                           smart_indices |-> Chunk(disks, k - 1, 5)]]
               \/ /\ ~(view.layout = "guests" /\ view.paginate) /\ view.layout # "storage"
                  /\ \E page : ViewPages(config, id, n) = <<page>>
<1> DEFINE view == config.views[id]
<1>1. CASE view.layout = "guests" /\ view.paginate
  BY <1>1 DEF ViewPages, guest_page_count
<1>2. CASE view.layout = "guests" /\ ~view.paginate
  BY <1>2 DEF ViewPages
<1>3. CASE view.layout = "storage"
  BY <1>3 DEF ViewPages
<1>4. CASE view.layout = "power_network"
  BY <1>4 DEF ViewPages
<1>5. CASE view.layout \in {"overview", "resources"}
  BY <1>5 DEF ViewPages
<1> QED BY <1>1, <1>2, <1>3, <1>4, <1>5 DEF ViewTyped

\* The numbers of pages are enough.
LEMMA EnoughPages ==
    /\ \A n \in Nat : /\ guest_page_count(n) \in Nat /\ guest_page_count(n) > 0
                      /\ 4 * guest_page_count(n) >= n
                      /\ \A k \in 1..guest_page_count(n) : k = 1 \/ 4 * (k - 1) <= n
    /\ \A S, U : \A filesystems \in Seq(S), disks \in Seq(U) :
          LET pages == StoragePages(filesystems, disks)
          IN  pages \in Nat /\ pages > 0 /\ 3 * pages >= Len(filesystems) /\ 5 * pages >= Len(disks)
<1>1. ASSUME NEW n \in Nat
      PROVE  /\ guest_page_count(n) \in Nat /\ guest_page_count(n) > 0
             /\ 4 * guest_page_count(n) >= n
             /\ \A k \in 1..guest_page_count(n) : k = 1 \/ 4 * (k - 1) <= n
  BY DEF guest_page_count, DivCeil, Larger
<1>2. ASSUME NEW a \in Nat, NEW b \in Nat
      PROVE  LET pages == Larger(Larger(DivCeil(a, 3), DivCeil(b, 5)), 1)
             IN  pages \in Nat /\ pages > 0 /\ 3 * pages >= a /\ 5 * pages >= b
  BY DEF Larger, DivCeil
<1>3. ASSUME NEW S, NEW U, NEW filesystems \in Seq(S), NEW disks \in Seq(U)
      PROVE  LET pages == StoragePages(filesystems, disks)
             IN  pages \in Nat /\ pages > 0 /\ 3 * pages >= Len(filesystems) /\ 5 * pages >= Len(disks)
  <2>1. Len(filesystems) \in Nat /\ Len(disks) \in Nat
    OBVIOUS
  <2> QED BY <1>2, <2>1 DEF StoragePages
<1> QED BY <1>1, <1>3

\* Every view has a page.
LEMMA ViewHasPage ==
    ASSUME NEW config, NEW id, NEW n \in Nat, ViewTyped(config.views[id])
    PROVE  \E S : ViewPages(config, id, n) \in Seq(S) /\ ViewPages(config, id, n) # <<>>
<1> DEFINE view == config.views[id]
           filesystems == resolve_indices(config.filesystems, view.filesystems)
           disks == resolve_indices(config.smart, view.smart)
           pages == ViewPages(config, id, n)
<1>1. ASSUME NEW N \in Nat, N > 0, NEW f, DOMAIN f = 1..N, f = [k \in 1..N |-> f[k]], pages = f
      PROVE  \E S : pages \in Seq(S) /\ pages # <<>>
  <2> DEFINE S == {f[k] : k \in 1..N}
  <2>1. f \in [1..N -> S]
    BY <1>1
  <2> HIDE DEF S
  <2>2. f \in Seq(S) /\ Len(f) = N
    BY <1>1, <2>1
  <2>3. f # <<>>
    BY <1>1, <2>2
  <2> QED BY <1>1, <2>2, <2>3
<1> HIDE DEF pages
<1>2. CASE view.layout = "guests" /\ view.paginate
  <2>1. pages = [k \in 1..guest_page_count(n) |->
                   [title |-> id, page |-> "guests", offset |-> (k - 1) * 4, limit |-> 4]]
    BY <1>2, PagesOfViews DEF pages
  <2>2. guest_page_count(n) \in Nat /\ guest_page_count(n) > 0
    BY EnoughPages
  <2> QED BY <1>1, <2>1, <2>2 DEF pages
<1>3. CASE view.layout = "storage"
  <2>1. pages = [k \in 1..StoragePages(filesystems, disks) |->
                   [title |-> id, page |-> "storage", filesystems_left |-> view.filesystems_left,
                    filesystem_indices |-> Chunk(filesystems, k - 1, 3),
                    smart_indices |-> Chunk(disks, k - 1, 5)]]
    BY <1>3, PagesOfViews DEF pages
  <2>2. StoragePages(filesystems, disks) \in Nat /\ StoragePages(filesystems, disks) > 0
    <3>1. Len(view.filesystems) \in Nat /\ Len(view.smart) \in Nat
      BY <1>3 DEF ViewTyped
    <3>2. Len(filesystems) = Len(view.filesystems) /\ Len(disks) = Len(view.smart)
      BY <3>1 DEF resolve_indices
    <3> HIDE DEF filesystems, disks
    <3>3. Len(filesystems) \in Nat /\ Len(disks) \in Nat
      BY <3>1, <3>2
    <3> QED BY <3>3 DEF StoragePages, Larger, DivCeil
  <2> QED BY <1>1, <2>1, <2>2 DEF pages
<1>4. CASE ~(view.layout = "guests" /\ view.paginate) /\ view.layout # "storage"
  <2>1. PICK page : pages = <<page>>
    BY <1>4, PagesOfViews DEF pages
  <2>2. pages \in Seq({page}) /\ pages # <<>>
    BY <2>1
  <2> QED BY <2>2 DEF pages
<1> QED BY <1>2, <1>3, <1>4

\* So every output has a page.
LEMMA OutputHasPage ==
    ASSUME NEW config, NEW views \in Seq(STRING), views # <<>>, NEW n \in Nat,
           \A k \in 1..Len(views) : ViewTyped(config.views[views[k]])
    PROVE  compile_pages_for(config, views, n) # <<>>
<1> DEFINE Of(k) == ViewPages(config, views[k], n)
           rows == [k \in 1..Len(views) |-> Of(k)]
           S == UNION {{Of(k)[j] : j \in 1..Len(Of(k))} : k \in 1..Len(views)}
<1>1. Len(views) \in Nat /\ Len(views) > 0
  OBVIOUS
<1>2. ASSUME NEW k \in 1..Len(views)
      PROVE  Of(k) \in Seq(S) /\ Of(k) # <<>>
  <2>1. PICK R : Of(k) \in Seq(R) /\ Of(k) # <<>>
    BY ViewHasPage
  <2>2. \A j \in 1..Len(Of(k)) : Of(k)[j] \in S
    OBVIOUS
  <2> HIDE DEF Of, S
  <2> QED BY <2>1, <2>2
<1> HIDE DEF Of, S
<1>3. /\ rows \in Seq(Seq(S)) /\ rows # <<>> /\ \A k \in 1..Len(rows) : rows[k] # <<>>
  <2>1. rows \in [1..Len(views) -> Seq(S)]
    BY <1>2
  <2>2. rows \in Seq(Seq(S)) /\ Len(rows) = Len(views)
    BY <1>1, <2>1
  <2>3. rows # <<>>
    BY <1>1, <2>2
  <2> QED BY <1>2, <2>2, <2>3
<1> HIDE DEF rows
<1>4. FlattenSeq(rows) # <<>>
  BY <1>3, FlattenedNotEmpty
<1> QED BY <1>4, Zenon DEF compile_pages_for, rows, Of

\* The views of a valid configuration's outputs.
LEMMA OutputViews ==
    ASSUME NEW config, Valid(config), Typed(config), NEW views \in Outputs(config)
    PROVE  /\ views \in Seq(STRING)
           /\ \A id \in ToSet(views) : id \in DOMAIN config.views /\ ViewTyped(config.views[id])
           /\ \A k \in 1..Len(views) : ViewTyped(config.views[views[k]])
<1>1. \A id \in DOMAIN config.views : ViewTyped(config.views[id])
  BY DEF Typed, ViewTyped
<1>2. CASE views = config.lcd
  <2>1. views \in Seq(STRING) /\ \A k \in 1..Len(views) : views[k] \in DOMAIN config.views
    BY <1>2 DEF Valid, ManifestsFit, DisplayFits, DisplayConfigured, Compiles, Typed
  <2>2. \A id \in ToSet(views) : \E k \in 1..Len(views) : id = views[k]
    BY <2>1 DEF ToSet
  <2> QED BY <1>1, <2>1, <2>2
<1>3. CASE \E http \in ToSet(config.http) : views = http.views
  <2>1. views \in Seq(STRING) /\ \A id \in ToSet(views) : id \in DOMAIN config.views
    BY <1>3 DEF Valid, OutputsValid, Typed
  <2>2. \A k \in 1..Len(views) : views[k] \in ToSet(views)
    BY <2>1 DEF ToSet
  <2> QED BY <1>1, <2>1, <2>2
<1> QED BY <1>2, <1>3 DEF Outputs

\* Validation, which tries no guests, stands for every number of them.
LEMMA ValidWorks == CheckedInv => ValidConfigWorks
<1> SUFFICES ASSUME CheckedInv, NEW config \in ValidConfigs, NEW n \in 0..MaxGuests
             PROVE  DisplayConfigured(config, n) /\ NetworkConfigured(config, n)
  BY Zenon DEF ValidConfigWorks
<1>1. Valid(config) /\ Typed(config)
  BY CheckedConfigs
<1>2. DisplayConfigured(config, 0) /\ NetworkConfigured(config, 0)
  BY <1>1 DEF Valid, ManifestsFit, DisplayFits
<1>3. /\ config.hold_time <= MaxMillis /\ config.animation_delay <= MaxMillis
      /\ Compiles(config, config.lcd) /\ config.hold_time # 0
      /\ config.animation_delay < config.hold_time
  BY <1>2 DEF DisplayConfigured, DisplayConfigNew
<1>4. compile_pages_for(config, config.lcd, n) # <<>>
  <2>1. config.lcd \in Outputs(config)
    BY DEF Outputs
  <2>2. /\ config.lcd \in Seq(STRING)
        /\ \A k \in 1..Len(config.lcd) : ViewTyped(config.views[config.lcd[k]])
    BY <1>1, <2>1, OutputViews
  <2>3. config.lcd # <<>> /\ n \in Nat
    BY <1>3, CollectorAssumption DEF Compiles
  <2> QED BY <2>2, <2>3, OutputHasPage
<1>5. DisplayConfigured(config, n)
  BY <1>3, <1>4 DEF DisplayConfigured, DisplayConfigNew
<1>6. NetworkConfigured(config, n)
  BY <1>2 DEF NetworkConfigured
<1> QED BY <1>5, <1>6

\* The pages depend on the number of guests by guest_page_count only.
LEMMA CountTracks == CheckedInv => PageCountTracksPages
<1> SUFFICES ASSUME CheckedInv, NEW config \in ValidConfigs, NEW views \in Outputs(config),
                    NEW m \in 0..MaxGuests, NEW n \in 0..MaxGuests,
                    guest_page_count(m) = guest_page_count(n)
             PROVE  compile_pages_for(config, views, m) = compile_pages_for(config, views, n)
  BY Zenon DEF PageCountTracksPages
<1>1. \A k \in 1..Len(views) : ViewTyped(config.views[views[k]])
  BY CheckedConfigs, OutputViews
<1>2. ASSUME NEW k \in 1..Len(views)
      PROVE  ViewPages(config, views[k], m) = ViewPages(config, views[k], n)
  BY Zenon DEF ViewPages, guest_page_count
<1> DEFINE Of(l) == [k \in 1..Len(views) |-> ViewPages(config, views[k], l)]
<1>3. Of(m) = Of(n)
  BY <1>2
<1> HIDE DEF Of
<1>4. FlattenSeq(Of(m)) = FlattenSeq(Of(n))
  BY <1>3
<1> QED BY <1>4, Zenon DEF compile_pages_for, Of

\* The pages of a view are chunks of its lists.
LEMMA AllShown == CheckedInv => EverythingShown
<1> SUFFICES ASSUME CheckedInv, NEW config \in ValidConfigs,
                    NEW id \in UNION {ToSet(views) : views \in Outputs(config)}, NEW n \in 0..MaxGuests
             PROVE  LET view == config.views[id]
                        pages == ViewPages(config, id, n)
                    IN  /\ view.layout = "guests" /\ view.paginate =>
                             ShownOnce([k \in 1..Len(pages) |-> GuestRows(pages[k], n)],
                                       [k \in 1..n |-> k - 1], 4)
                        /\ view.layout = "storage" =>
                             /\ ShownOnce([k \in 1..Len(pages) |-> pages[k].filesystem_indices],
                                          resolve_indices(config.filesystems, view.filesystems), 3)
                             /\ ShownOnce([k \in 1..Len(pages) |-> pages[k].smart_indices],
                                          resolve_indices(config.smart, view.smart), 5)
  BY Zenon DEF EverythingShown
<1> DEFINE view == config.views[id]
           pages == ViewPages(config, id, n)
<1>1. ViewTyped(view) /\ n \in Nat
  BY CheckedConfigs, OutputViews, CollectorAssumption
<1>2. ASSUME view.layout = "guests", view.paginate
      PROVE  ShownOnce([k \in 1..Len(pages) |-> GuestRows(pages[k], n)], [k \in 1..n |-> k - 1], 4)
  <2> DEFINE N == guest_page_count(n)
             all == [k \in 1..n |-> k - 1]
             rows == [k \in 1..Len(pages) |-> GuestRows(pages[k], n)]
  <2>1. pages = [k \in 1..N |->
                   [title |-> id, page |-> "guests", offset |-> (k - 1) * 4, limit |-> 4]]
    BY <1>1, <1>2, PagesOfViews
  <2>2. /\ N \in Nat /\ N > 0 /\ 4 * N >= n
        /\ \A k \in 1..N : k = 1 \/ 4 * (k - 1) <= n
    BY <1>1, EnoughPages
  <2> HIDE DEF N, pages
  <2>3. Len(pages) = N /\ \A k \in 1..N : pages[k].offset = (k - 1) * 4 /\ pages[k].limit = 4
    BY <2>1, <2>2
  <2>4. all \in Seq(Nat) /\ Len(all) = n
    BY <1>1
  <2>5. ASSUME NEW k \in 1..N
        PROVE  GuestRows(pages[k], n) = Chunk(all, k - 1, 4)
    <3> DEFINE from == (k - 1) * 4
               rest == Smaller(4, n - Smaller(n, from))
               end == Smaller((k - 1 + 1) * 4, n)
    <3>1. from \in Nat /\ from <= n /\ rest = end - from /\ rest \in Nat /\ end <= n /\ end \in Nat
      BY <1>1, <2>2 DEF Smaller
    <3>2. GuestRows(pages[k], n) = [j \in 1..rest |-> from + j - 1]
      BY <2>3 DEF GuestRows
    <3>3. Chunk(all, k - 1, 4) = SubSeq(all, from + 1, end)
      BY <2>4 DEF Chunk
    <3> HIDE DEF from, rest, end
    <3>4. \A i \in (from + 1)..end : all[i] = i - 1
      BY <1>1, <3>1
    <3> HIDE DEF all
    <3>5. SubSeq(all, from + 1, end) = [j \in 1..rest |-> from + j - 1]
      <4>1. \A i \in (from + 1)..end : all[i] \in Nat
        BY <3>1, <3>4
      <4>2. from + 1 \in Int /\ end \in Int
        BY <3>1
      <4> DEFINE part == SubSeq(all, from + 1, end)
      <4>3. /\ part \in Seq(Nat)
            /\ Len(part) = IF from + 1 <= end THEN end - (from + 1) + 1 ELSE 0
            /\ \A i \in 1..(end - (from + 1) + 1) : part[i] = all[from + 1 + i - 1]
        BY <4>1, <4>2, SubSeqProperties
      <4> HIDE DEF part
      <4>4. Len(part) = rest /\ \A i \in 1..rest : part[i] = from + i - 1
        BY <3>1, <3>4, <4>3
      <4> QED BY <4>3, <4>4 DEF part
    <3> QED BY <3>2, <3>3, <3>5
  <2> HIDE DEF all
  <2>6. rows = [k \in 1..N |-> Chunk(all, k - 1, 4)]
    BY <2>3, <2>5
  <2> HIDE DEF rows
  <2>7. ShownOnce(rows, all, 4)
    BY <2>2, <2>4, <2>6, ChunksShowAll
  <2> QED BY <2>7 DEF rows, all
<1>3. ASSUME view.layout = "storage"
      PROVE  /\ ShownOnce([k \in 1..Len(pages) |-> pages[k].filesystem_indices],
                          resolve_indices(config.filesystems, view.filesystems), 3)
             /\ ShownOnce([k \in 1..Len(pages) |-> pages[k].smart_indices],
                          resolve_indices(config.smart, view.smart), 5)
  <2> DEFINE filesystems == resolve_indices(config.filesystems, view.filesystems)
             disks == resolve_indices(config.smart, view.smart)
             N == StoragePages(filesystems, disks)
             R == {filesystems[k] : k \in 1..Len(view.filesystems)}
             S == {disks[k] : k \in 1..Len(view.smart)}
  <2>1. pages = [k \in 1..N |->
                   [title |-> id, page |-> "storage", filesystems_left |-> view.filesystems_left,
                    filesystem_indices |-> Chunk(filesystems, k - 1, 3),
                    smart_indices |-> Chunk(disks, k - 1, 5)]]
    BY <1>1, <1>3, PagesOfViews
  <2>2. filesystems \in Seq(R) /\ disks \in Seq(S)
    <3>1. Len(view.filesystems) \in Nat /\ Len(view.smart) \in Nat
      BY <1>1, <1>3 DEF ViewTyped
    <3>2. filesystems \in [1..Len(view.filesystems) -> R] /\ disks \in [1..Len(view.smart) -> S]
      BY DEF resolve_indices
    <3> HIDE DEF filesystems, disks, R, S
    <3> QED BY <3>1, <3>2
  <2> HIDE DEF filesystems, disks, R, S
  <2>3. N \in Nat /\ N > 0 /\ 3 * N >= Len(filesystems) /\ 5 * N >= Len(disks)
    BY <2>2, EnoughPages
  <2> HIDE DEF N, pages
  <2>4. /\ Len(pages) = N
        /\ \A k \in 1..N : /\ pages[k].filesystem_indices = Chunk(filesystems, k - 1, 3)
                           /\ pages[k].smart_indices = Chunk(disks, k - 1, 5)
    BY <2>1, <2>3
  <2> DEFINE first == [k \in 1..Len(pages) |-> pages[k].filesystem_indices]
             second == [k \in 1..Len(pages) |-> pages[k].smart_indices]
  <2>5. /\ first = [k \in 1..N |-> Chunk(filesystems, k - 1, 3)]
        /\ second = [k \in 1..N |-> Chunk(disks, k - 1, 5)]
    BY <2>4
  <2> HIDE DEF first, second
  <2>6. ShownOnce(first, filesystems, 3)
    BY <2>2, <2>3, <2>5, ChunksShowAll
  <2>7. ShownOnce(second, disks, 5)
    BY <2>2, <2>3, <2>5, ChunksShowAll
  <2> QED BY <2>6, <2>7 DEF first, second, filesystems, disks
<1> QED BY <1>2, <1>3

\* A configuration that --check-config calls valid never fails the daemon later: its manifests
\* can be built for every number of guests, they show every guest, disk and filesystem once
\* on pages that hold no more than the LCD draws, and they change only with the page count.
THEOREM ValidMeansUsable == CollectorSpec => []LayoutInv
<1>1. CheckedInv => LayoutInv
  BY ValidWorks, AllShown, CountTracks DEF LayoutInv
<1> QED BY <1>1, AnswersAreValidations, PTL

=============================================================================
