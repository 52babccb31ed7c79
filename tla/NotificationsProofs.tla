------------------------ MODULE NotificationsProofs -------------------------
(***************************************************************************)
(* Proofs about Notifications, for any number of health rules, any set of  *)
(* ntfy configurations and any capacity of the queue.                      *)
(***************************************************************************)
EXTENDS MCNotifications, FiniteSetTheorems, WellFoundedInduction, TLAPS

-----------------------------------------------------------------------------
(* Numbers and finite sets.                                                *)

\* A set of numbers that is not empty has a least one.
LEMMA Least ==
    ASSUME NEW T, T \subseteq Nat, T # {}
    PROVE  \E x \in T : \A y \in T : x <= y
<1>1. \E R : IsWellFoundedOn(R, Nat) /\ \A x, y \in Nat : <<y, x>> \in R <=> y < x
  <2> DEFINE Q == OpToRel(<, Nat)
  <2>1. IsWellFoundedOn(Q, Nat)
    BY NatLessThanWellFounded
  <2>2. \A x, y \in Nat : <<y, x>> \in Q <=> y < x
    BY DEF OpToRel
  <2> HIDE DEF Q
  <2> QED BY <2>1, <2>2
<1>2. PICK R : IsWellFoundedOn(R, Nat) /\ \A x, y \in Nat : <<y, x>> \in R <=> y < x
  BY <1>1
<1>3. \E x \in T : \A y \in T : ~(<<y, x>> \in R)
  BY <1>2, WFMin
<1>4. PICK x \in T : \A y \in T : ~(<<y, x>> \in R)
  BY <1>3
<1>5. ASSUME NEW y \in T PROVE x <= y
  <2>1. ~(y < x) /\ x \in Nat /\ y \in Nat
    BY <1>2, <1>4
  <2> QED BY <2>1
<1> QED BY <1>5

\* So a set of places in a queue has a last one.
LEMMA Last ==
    ASSUME NEW n \in Nat, NEW T \in SUBSET (1..n), T # {}
    PROVE  \E x \in T : \A y \in T : y <= x
<1> DEFINE D == {n - x : x \in T}
<1>1. D \subseteq Nat /\ D # {}
  OBVIOUS
<1>2. PICK d \in D : \A e \in D : d <= e
  <2> HIDE DEF D
  <2> QED BY <1>1, Least
<1>3. PICK x \in T : d = n - x
  OBVIOUS
<1>4. ASSUME NEW y \in T PROVE y <= x
  <2>1. n - x <= n - y
    BY <1>2, <1>3
  <2> QED BY <2>1
<1> QED BY <1>4

Before(S, i) == {j \in S : j < i}

\* Of two incidents of a set the later one has more before it.
LEMMA RankGrows ==
    ASSUME NEW S \in SUBSET Nat, IsFiniteSet(S), NEW i \in S, NEW j \in S, i < j
    PROVE  Cardinality(Before(S, i)) < Cardinality(Before(S, j))
<1>1. Before(S, i) \subseteq Before(S, j) /\ Before(S, i) # Before(S, j)
  <2>1. i \in Before(S, j) /\ i \notin Before(S, i)
    BY DEF Before
  <2>2. \A x \in S : x < i => x < j
    OBVIOUS
  <2>3. Before(S, i) \subseteq Before(S, j)
    BY <2>2 DEF Before
  <2> QED BY <2>1, <2>3
<1>2. IsFiniteSet(Before(S, j))
  BY FS_Subset DEF Before
<1>3. /\ Cardinality(Before(S, i)) <= Cardinality(Before(S, j))
      /\ Cardinality(Before(S, i)) # Cardinality(Before(S, j))
  BY <1>1, <1>2, FS_Subset
<1>4. Cardinality(Before(S, i)) \in Nat /\ Cardinality(Before(S, j)) \in Nat
  BY <1>1, <1>2, FS_Subset, FS_CardinalityType
<1> QED BY <1>3, <1>4

\* Ordered lists the whole set, and nothing else.
LEMMA OrderedRange ==
    ASSUME NEW S \in SUBSET Nat, IsFiniteSet(S)
    PROVE  /\ Cardinality(S) \in Nat
           /\ \A k \in 1..Cardinality(S) : Ordered(S)[k] \in S
           /\ \A i \in S : \E k \in 1..Cardinality(S) : Ordered(S)[k] = i
<1> DEFINE n == Cardinality(S)
           rank == [i \in S |-> Cardinality(Before(S, i))]
           places == 0..(n - 1)
<1>1. n \in Nat
  BY FS_CardinalityType
<1>2. \A i \in S : rank[i] \in places
  <2> TAKE i \in S
  <2>1. Before(S, i) \subseteq S /\ Before(S, i) # S
    <3>1. i \notin Before(S, i)
      BY DEF Before
    <3> QED BY <3>1 DEF Before
  <2>2. IsFiniteSet(Before(S, i)) /\ Cardinality(Before(S, i)) <= n /\ Cardinality(Before(S, i)) # n
    BY <2>1, FS_Subset
  <2>3. Cardinality(Before(S, i)) \in Nat
    BY <2>2, FS_CardinalityType
  <2> QED BY <1>1, <2>2, <2>3
<1>3. \A i, j \in S : rank[i] = rank[j] => i = j
  <2> TAKE i, j \in S
  <2>1. i < j => rank[i] < rank[j]
    BY RankGrows
  <2>2. j < i => rank[j] < rank[i]
    BY RankGrows
  <2>3. rank[i] \in Int /\ rank[j] \in Int
    BY <1>1, <1>2
  <2> HIDE DEF rank
  <2> QED BY <2>1, <2>2, <2>3
<1>4. rank \in Injection(S, places)
  <2>1. rank \in [S -> places]
    BY <1>2
  <2> HIDE DEF rank, places
  <2> QED BY <1>3, <2>1 DEF Injection, IsInjective
<1>5. IsFiniteSet(places) /\ Cardinality(places) = n
  <2> HIDE DEF n
  <2>1. 0 \in Int /\ n - 1 \in Int
    BY <1>1
  <2>2. /\ IsFiniteSet(0..(n - 1))
        /\ Cardinality(0..(n - 1)) = IF 0 > n - 1 THEN 0 ELSE (n - 1) - 0 + 1
    BY <2>1, FS_Interval
  <2> QED BY <1>1, <2>2
<1>6. \A p \in places : \E i \in S : rank[i] = p
  <2> HIDE DEF rank, places
  <2>1. rank \in Surjection(S, places)
    BY <1>4, <1>5, FS_Injection
  <2> QED BY <2>1 DEF Surjection
<1>7. \A k \in 1..n : Ordered(S)[k] \in S /\ rank[Ordered(S)[k]] = k - 1
  <2> TAKE k \in 1..n
  <2>1. Ordered(S)[k] = CHOOSE i \in S : Cardinality({j \in S : j < i}) = k - 1
    BY DEF Ordered
  <2>2. k - 1 \in places
    BY <1>1
  <2>3. \E i \in S : Cardinality({j \in S : j < i}) = k - 1
    BY <1>6, <2>2 DEF Before
  <2> QED BY <2>1, <2>3 DEF Before
<1>8. \A i \in S : \E k \in 1..n : Ordered(S)[k] = i
  <2> TAKE i \in S
  <2>1. rank[i] + 1 \in 1..n
    BY <1>1, <1>2
  <2>2. rank[Ordered(S)[rank[i] + 1]] = (rank[i] + 1) - 1 /\ Ordered(S)[rank[i] + 1] \in S
    BY <1>7, <2>1
  <2>3. rank[i] \in Int
    BY <1>1, <1>2
  <2>4. Ordered(S)[rank[i] + 1] = i
    <3>1. (rank[i] + 1) - 1 = rank[i]
      BY <2>3
    <3> HIDE DEF rank
    <3> QED BY <1>3, <2>2, <3>1
  <2> QED BY <2>1, <2>4
<1> QED BY <1>1, <1>7, <1>8

-----------------------------------------------------------------------------
(* What a queue says of an incident.                                       *)

News == [id : Incidents, says : Levels \cup {"Recovered"}] \cup {[id |-> TestId, says |-> "Test"]}

Newest(queue, i, k) == k \in About(queue, i) /\ \A l \in About(queue, i) : l <= k

\* Told, of any queue and subscriber.
Latest(queue, heard, i) ==
    LET ks == About(queue, i) IN
    IF ks = {} THEN heard[i]
    ELSE queue[CHOOSE k \in ks : \A l \in ks : l <= k].says

\* Told is the newest message of the queue about an incident, if there is one.
LEMMA NewestExists ==
    ASSUME NEW queue \in Seq(News), NEW i, About(queue, i) # {}
    PROVE  \E k \in 1..Len(queue) : Newest(queue, i, k)
<1>1. Len(queue) \in Nat /\ About(queue, i) \in SUBSET (1..Len(queue))
  BY DEF About
<1> QED BY <1>1, Last DEF Newest

\* There is one newest message.
LEMMA LatestIs ==
    ASSUME NEW queue \in Seq(News), NEW heard, NEW i, NEW k, Newest(queue, i, k)
    PROVE  Latest(queue, heard, i) = queue[k].says
<1> DEFINE ks == About(queue, i)
           m == CHOOSE l \in ks : \A x \in ks : x <= l
<1>1. k \in ks /\ (\A x \in ks : x <= k) /\ ks # {}
  BY DEF Newest
<1>2. m \in ks /\ \A x \in ks : x <= m
  BY <1>1
<1>3. ks \subseteq Nat
  BY DEF About
<1>4. m = k
  <2>1. m <= k /\ k <= m /\ m \in Nat /\ k \in Nat
    BY <1>1, <1>2, <1>3
  <2> HIDE DEF m
  <2> QED BY <2>1
<1> QED BY <1>1, <1>4 DEF Latest

\* Without a message it is what the subscriber has heard.
LEMMA LatestHeard ==
    ASSUME NEW queue, NEW heard, NEW i, About(queue, i) = {}
    PROVE  Latest(queue, heard, i) = heard[i]
BY DEF Latest

\* A message that is delivered is what the subscriber has heard then.
LEMMA LatestTail ==
    ASSUME NEW queue \in Seq(News), queue # <<>>, NEW R,
           NEW heard \in [Incidents -> R], NEW i \in Incidents
    PROVE  LET m == Head(queue)
               then == IF m.id \in Incidents THEN [heard EXCEPT ![m.id] = m.says] ELSE heard
           IN  Latest(Tail(queue), then, i) = Latest(queue, heard, i)
<1> DEFINE m == Head(queue)
           then == IF m.id \in Incidents THEN [heard EXCEPT ![m.id] = m.says] ELSE heard
           rest == Tail(queue)
<1>1. /\ Len(queue) \in Nat \ {0} /\ rest \in Seq(News) /\ Len(rest) = Len(queue) - 1
      /\ \A k \in 1..Len(rest) : rest[k] = queue[k + 1]
      /\ m = queue[1]
  OBVIOUS
<1>2. \A k \in Nat : k \in About(rest, i) <=> k >= 1 /\ k + 1 \in About(queue, i)
  <2> HIDE DEF rest
  <2> QED BY <1>1 DEF About
<1>3. 1 \in About(queue, i) <=> m.id = i
  BY <1>1 DEF About
<1>4. About(queue, i) \subseteq Nat \ {0} /\ About(rest, i) \subseteq Nat \ {0}
  BY <1>1 DEF About
<1> HIDE DEF rest, m
<1>5. CASE About(rest, i) # {}
  <2>1. PICK k \in 1..Len(rest) : Newest(rest, i, k)
    BY <1>1, <1>5, NewestExists
  <2>2. Newest(queue, i, k + 1)
    <3>1. k + 1 \in About(queue, i)
      BY <1>2, <2>1 DEF Newest
    <3>2. ASSUME NEW l \in About(queue, i) PROVE l <= k + 1
      <4>1. CASE l = 1
        BY <4>1
      <4>2. CASE l # 1
        <5>1. l - 1 \in Nat /\ l - 1 >= 1 /\ (l - 1) + 1 = l
          BY <1>4, <4>2
        <5>2. l - 1 <= k
          BY <1>2, <2>1, <5>1 DEF Newest
        <5> QED BY <5>1, <5>2
      <4> QED BY <4>1, <4>2
    <3> QED BY <3>1, <3>2 DEF Newest
  <2>3. rest[k] = queue[k + 1]
    BY <1>1
  <2>4. Latest(rest, then, i) = rest[k].says /\ Latest(queue, heard, i) = queue[k + 1].says
    <3> HIDE DEF then
    <3> QED BY <1>1, <2>1, <2>2, LatestIs
  <2> QED BY <2>3, <2>4 DEF rest, m
<1>6. CASE About(rest, i) = {} /\ m.id = i
  <2>1. Newest(queue, i, 1)
    <3>1. ASSUME NEW l \in About(queue, i) PROVE l <= 1
      <4>1. l # 1 => l - 1 \in Nat /\ l - 1 >= 1 /\ (l - 1) + 1 = l
        BY <1>4
      <4> QED BY <1>2, <1>6, <4>1
    <3> QED BY <1>3, <1>6, <3>1 DEF Newest
  <2>2. then[i] = m.says
    BY <1>6
  <2>3. Latest(queue, heard, i) = m.says
    BY <1>1, <2>1, LatestIs
  <2> HIDE DEF then
  <2>4. Latest(rest, then, i) = then[i]
    BY <1>6, LatestHeard
  <2> QED BY <2>2, <2>3, <2>4 DEF then, rest, m
<1>7. CASE About(rest, i) = {} /\ m.id # i
  <2>1. About(queue, i) = {}
    <3> SUFFICES ASSUME NEW l \in About(queue, i) PROVE FALSE
      OBVIOUS
    <3>1. l # 1 => l - 1 \in Nat /\ l - 1 >= 1 /\ (l - 1) + 1 = l
      BY <1>4
    <3> QED BY <1>2, <1>3, <1>7, <3>1
  <2>2. then[i] = heard[i]
    BY <1>7
  <2> HIDE DEF then
  <2>3. Latest(rest, then, i) = then[i] /\ Latest(queue, heard, i) = heard[i]
    BY <1>7, <2>1, LatestHeard
  <2> QED BY <2>2, <2>3 DEF then, rest, m
<1> QED BY <1>5, <1>6, <1>7

\* Push keeps the newest messages.
LEMMA PushKeeps ==
    ASSUME NEW queue \in Seq(News)
    PROVE  /\ Push(queue) \in Seq(News) /\ Len(Push(queue)) <= QueueCap
           /\ \E d \in Nat : /\ Len(queue) = Len(Push(queue)) + d
                            /\ \A k \in 1..Len(Push(queue)) : Push(queue)[k] = queue[k + d]
<1> DEFINE Keeps(kept) ==
              /\ kept \in Seq(News) /\ Len(kept) <= QueueCap
              /\ \E d \in Nat : /\ Len(queue) = Len(kept) + d
                               /\ \A k \in 1..Len(kept) : kept[k] = queue[k + d]
<1> SUFFICES Keeps(Push(queue))
  OBVIOUS
<1>1. QueueCap \in Nat \ {0} /\ Len(queue) \in Nat
  BY NotificationAssumption
<1>2. CASE Len(queue) <= QueueCap
  <2>1. Push(queue) = queue
    BY <1>2 DEF Push
  <2>2. \E d \in Nat : /\ Len(queue) = Len(queue) + d
                       /\ \A k \in 1..Len(queue) : queue[k] = queue[k + d]
    <3>1. /\ 0 \in Nat /\ Len(queue) = Len(queue) + 0
          /\ \A k \in 1..Len(queue) : queue[k] = queue[k + 0]
      BY <1>1
    <3> QED BY <3>1
  <2>3. Keeps(queue)
    BY <1>2, <2>2
  <2> HIDE DEF Keeps
  <2> QED BY <2>1, <2>3
<1>3. CASE ~(Len(queue) <= QueueCap)
  <2> DEFINE d == Len(queue) - QueueCap
             kept == SubSeq(queue, d + 1, Len(queue))
  <2>1. Push(queue) = kept
    BY <1>3 DEF Push
  <2>2. d \in Nat /\ Len(queue) - (d + 1) + 1 = QueueCap
    BY <1>1, <1>3
  <2>3. /\ kept \in Seq(News) /\ Len(kept) = QueueCap
        /\ \A k \in 1..QueueCap : kept[k] = queue[k + d]
    <3>1. d + 1 \in 1..(Len(queue) + 1) /\ Len(queue) \in Nat
      BY <1>1, <1>3
    <3> HIDE DEF d
    <3> QED BY <1>1, <2>2, <3>1
  <2> HIDE DEF kept
  <2>4. Len(queue) = Len(kept) + d /\ \A k \in 1..Len(kept) : kept[k] = queue[k + d]
    BY <1>1, <2>3
  <2>5. Keeps(kept)
    <3>1. d \in Nat /\ kept \in Seq(News) /\ Len(kept) <= QueueCap
      BY <1>1, <2>2, <2>3
    <3> HIDE DEF d
    <3> QED BY <2>4, <3>1
  <2> HIDE DEF Keeps
  <2> QED BY <2>1, <2>5
<1> QED BY <1>2, <1>3

\* What is said of an incident is said by the messages that stay, unless none stays.
LEMMA LatestPush ==
    ASSUME NEW queue \in Seq(News), NEW heard, NEW i,
           About(queue, i) = {} \/ About(Push(queue), i) # {}
    PROVE  Latest(Push(queue), heard, i) = Latest(queue, heard, i)
<1> DEFINE kept == Push(queue)
<1>0. kept \in Seq(News)
  BY PushKeeps
<1>1. PICK d \in Nat : /\ Len(queue) = Len(kept) + d
                       /\ \A k \in 1..Len(kept) : kept[k] = queue[k + d]
  BY PushKeeps
<1> HIDE DEF kept
<1>2. \A k \in 1..Len(kept) : k \in About(kept, i) <=> k + d \in About(queue, i)
  <2> TAKE k \in 1..Len(kept)
  <2>1. k + d \in 1..Len(queue)
    BY <1>0, <1>1
  <2> QED BY <1>1, <2>1 DEF About
<1>3. CASE About(queue, i) = {}
  <2>1. About(kept, i) = {}
    BY <1>2, <1>3 DEF About
  <2> QED BY <1>3, <2>1, LatestHeard DEF kept
<1>4. CASE About(kept, i) # {}
  <2>1. PICK k \in 1..Len(kept) : Newest(kept, i, k)
    BY <1>0, <1>4, NewestExists
  <2>2. Newest(queue, i, k + d)
    <3>1. ASSUME NEW l \in About(queue, i) PROVE l <= k + d
      <4>1. l \in 1..Len(queue) /\ k \in Nat /\ Len(kept) \in Nat
        BY <1>0 DEF About
      <4>2. CASE l <= d
        BY <4>1, <4>2
      <4>3. CASE ~(l <= d)
        <5>1. l - d \in 1..Len(kept) /\ (l - d) + d = l
          BY <1>1, <4>1, <4>3
        <5>2. l - d <= k
          BY <1>2, <2>1, <5>1 DEF Newest
        <5> QED BY <4>1, <5>1, <5>2
      <4> QED BY <4>2, <4>3
    <3> QED BY <1>2, <2>1, <3>1 DEF Newest
  <2>3. Latest(kept, heard, i) = kept[k].says /\ Latest(queue, heard, i) = queue[k + d].says
    BY <1>0, <2>1, <2>2, LatestIs
  <2> QED BY <1>1, <2>3 DEF kept
<1> QED BY <1>3, <1>4 DEF kept

\* A round that says nothing of an incident changes nothing for it; otherwise what the
\* round says counts.
LEMMA LatestRound ==
    ASSUME NEW queue \in Seq(News), NEW round \in Seq(News), NEW heard, NEW i
    PROVE  /\ About(queue \o round, i) = {} <=> About(queue, i) = {} /\ About(round, i) = {}
           /\ About(round, i) = {} => Latest(queue \o round, heard, i) = Latest(queue, heard, i)
           /\ About(round, i) # {} =>
                \E k \in About(round, i) : Latest(queue \o round, heard, i) = round[k].says
<1> DEFINE both == queue \o round
           n == Len(queue)
<1>1. /\ both \in Seq(News) /\ n \in Nat /\ Len(round) \in Nat /\ Len(both) = n + Len(round)
      /\ \A k \in 1..n : both[k] = queue[k]
      /\ \A k \in 1..Len(round) : both[n + k] = round[k]
  OBVIOUS
<1> HIDE DEF both, n
<1>2. \A k \in 1..n : k \in About(both, i) <=> k \in About(queue, i)
  BY <1>1 DEF About, n
<1>3. \A k \in 1..Len(round) : n + k \in About(both, i) <=> k \in About(round, i)
  BY <1>1 DEF About
<1>4. \A k \in About(both, i) : k \in 1..n \/ (k - n \in 1..Len(round) /\ n + (k - n) = k)
  BY <1>1 DEF About
<1>5. About(queue, i) \subseteq 1..n /\ About(round, i) \subseteq 1..Len(round)
  BY DEF About, n
<1>6. About(both, i) = {} <=> About(queue, i) = {} /\ About(round, i) = {}
  BY <1>2, <1>3, <1>4, <1>5
<1>7. ASSUME About(round, i) = {}
      PROVE  Latest(both, heard, i) = Latest(queue, heard, i)
  <2>1. CASE About(queue, i) = {}
    BY <1>6, <1>7, <2>1, LatestHeard
  <2>2. CASE About(queue, i) # {}
    <3>1. PICK k \in 1..n : Newest(queue, i, k)
      BY <2>2, NewestExists DEF n
    <3>2. Newest(both, i, k)
      BY <1>2, <1>3, <1>4, <1>7, <3>1 DEF Newest
    <3> QED BY <1>1, <3>1, <3>2, LatestIs
  <2> QED BY <2>1, <2>2
<1>8. ASSUME About(round, i) # {}
      PROVE  \E k \in About(round, i) : Latest(both, heard, i) = round[k].says
  <2>1. PICK k \in 1..Len(round) : Newest(round, i, k)
    BY <1>8, NewestExists
  <2>2. Newest(both, i, n + k)
    <3>1. n + k \in About(both, i)
      BY <1>3, <2>1 DEF Newest
    <3>2. ASSUME NEW l \in About(both, i) PROVE l <= n + k
      <4>1. CASE l \in 1..n
        BY <1>1, <4>1
      <4>2. CASE l - n \in 1..Len(round) /\ n + (l - n) = l
        <5>1. l - n <= k
          BY <1>3, <2>1, <4>2 DEF Newest
        <5>2. l - n \in Int /\ k \in Int
          BY <4>2
        <5> QED BY <1>1, <4>2, <5>1, <5>2
      <4> QED BY <1>4, <4>1, <4>2
    <3> QED BY <3>1, <3>2 DEF Newest
  <2>3. Latest(both, heard, i) = both[n + k].says
    BY <1>1, <2>2, LatestIs
  <2> QED BY <1>1, <2>1, <2>3 DEF Newest
<1> QED BY <1>6, <1>7, <1>8 DEF both

-----------------------------------------------------------------------------
(* What a round says.                                                      *)

StateInv ==
    /\ snapshot \in [DOMAIN snapshot -> Levels] /\ DOMAIN snapshot \subseteq Rules
    /\ has_snapshot \in BOOLEAN /\ fresh \in BOOLEAN /\ config \in Configs
    /\ ~has_snapshot => snapshot = None

WorkerInv ==
    /\ at \in {"loop", "publish"}
    /\ at = "publish" => pending # <<>>
    /\ previous \in [DOMAIN previous -> Levels] /\ DOMAIN previous \subseteq Incidents
    /\ pending \in Seq(News) /\ Len(pending) <= QueueCap
    /\ next_critical_repeat \in {"unset", "armed", "due"}
    /\ TEST_NOTIFICATIONS \in BOOLEAN /\ failures \in Nat
    /\ received \in [Incidents -> Levels \cup {"Nothing", "Recovered"}]
    /\ unannounced \subseteq Incidents

KnownInv ==
    /\ \A i \in Incidents \ unannounced : Knows(Latest(pending, received, i), i, previous)
    /\ ~has_snapshot => /\ DOMAIN previous = {}
                        /\ \A k \in 1..Len(pending) : pending[k].id = TestId

NotificationsIInv == StateInv /\ WorkerInv /\ KnownInv

\* The incidents of a round are those of the snapshot, and a lost host only after one.
LEMMA NotifiableIs ==
    ASSUME StateInv
    PROVE  /\ Notifiable \in [DOMAIN Notifiable -> Levels]
           /\ DOMAIN Notifiable \subseteq Incidents
           /\ ~has_snapshot => DOMAIN Notifiable = {}
<1>1. HostOffline \notin Rules /\ Incidents = Rules \cup {HostOffline}
  BY NotificationAssumption DEF HostOffline, Rules, Incidents
<1>2. DOMAIN None = {}
  BY DEF None
<1> QED BY <1>1, <1>2 DEF StateInv, Notifiable, OfflineNotified, Levels

\* Messages has one message for each incident of its set, and no other.
LEMMA MessagesAre ==
    ASSUME NEW S \in SUBSET Incidents, NEW says, \A i \in S : says[i] \in Levels \cup {"Recovered"}
    PROVE  /\ Messages(S, says) \in Seq(News)
           /\ \A k \in 1..Len(Messages(S, says)) :
                LET m == Messages(S, says)[k] IN m.id \in S /\ m.says = says[m.id]
           /\ \A i \in S : About(Messages(S, says), i) # {}
<1> DEFINE n == Cardinality(S)
           said == Messages(S, says)
<1>1. S \in SUBSET Nat /\ IsFiniteSet(S)
  <2>1. Incidents \subseteq Nat /\ IsFiniteSet(Incidents)
    BY NotificationAssumption, FS_Interval DEF Incidents
  <2> QED BY <2>1, FS_Subset
<1>2. /\ n \in Nat /\ \A k \in 1..n : Ordered(S)[k] \in S
      /\ \A i \in S : \E k \in 1..n : Ordered(S)[k] = i
  BY <1>1, OrderedRange
<1>3. said = [k \in 1..n |-> [id |-> Ordered(S)[k], says |-> says[Ordered(S)[k]]]]
  BY DEF Messages
<1> HIDE DEF n, said
<1>4. \A k \in 1..n : said[k].id = Ordered(S)[k] /\ said[k].says = says[Ordered(S)[k]] /\ said[k] \in News
  BY <1>2, <1>3 DEF News
<1>5. said \in Seq(News) /\ Len(said) = n
  <2>1. said \in [1..n -> News]
    BY <1>3, <1>4
  <2> QED BY <1>2, <2>1
<1>6. \A k \in 1..Len(said) : said[k].id \in S /\ said[k].says = says[said[k].id]
  BY <1>2, <1>4, <1>5
<1>7. \A i \in S : About(said, i) # {}
  BY <1>2, <1>4, <1>5 DEF About
<1> QED BY <1>5, <1>6, <1>7 DEF said

Says(queue, P) == \A k \in 1..Len(queue) : queue[k] \in P

\* A queue of messages of a kind and another one make a queue of that kind.
LEMMA SaysBoth ==
    ASSUME NEW P, NEW p \in Seq(News), NEW q \in Seq(News), Says(p, P), Says(q, P)
    PROVE  p \o q \in Seq(News) /\ Says(p \o q, P)
<1>1. /\ p \o q \in Seq(News) /\ Len(p \o q) = Len(p) + Len(q)
      /\ \A k \in 1..Len(p) : (p \o q)[k] = p[k]
      /\ \A k \in (Len(p) + 1)..(Len(p) + Len(q)) : (p \o q)[k] = q[k - Len(p)]
      /\ Len(p) \in Nat /\ Len(q) \in Nat
  OBVIOUS
<1>2. ASSUME NEW k \in 1..Len(p \o q) PROVE (p \o q)[k] \in P
  <2>1. CASE k \in 1..Len(p)
    BY <1>1, <2>1 DEF Says
  <2>2. CASE k \notin 1..Len(p)
    <3>1. k \in (Len(p) + 1)..(Len(p) + Len(q)) /\ k - Len(p) \in 1..Len(q)
      BY <1>1, <2>2
    <3> QED BY <1>1, <3>1 DEF Says
  <2> QED BY <2>1, <2>2
<1> QED BY <1>1, <1>2 DEF Says

\* What a round may say: the test, or of an incident of this round or the last what it
\* is now.
True(now) ==
    {m \in News : m.id = TestId \/ (m.id \in DOMAIN now \cup DOMAIN previous /\ Knows(m.says, m.id, now))}

\* A round says nothing else.
LEMMA RoundTells ==
    ASSUME WorkerInv, NEW now, now \in [DOMAIN now -> Levels], DOMAIN now \subseteq Incidents
    PROVE  RoundMessages(now) \in Seq(News) /\ Says(RoundMessages(now), True(now))
<1>1. TestMessages \in Seq(News) /\ Says(TestMessages, True(now))
  <2>1. [id |-> TestId, says |-> "Test"] \in News
    BY DEF News
  <2>2. [id |-> TestId, says |-> "Test"] \in True(now)
    BY <2>1 DEF True
  <2> QED BY <2>1, <2>2 DEF TestMessages, Says
<1>2. ASSUME NEW S \in SUBSET DOMAIN now
      PROVE  Messages(S, now) \in Seq(News) /\ Says(Messages(S, now), True(now))
  <2>1. /\ Messages(S, now) \in Seq(News)
        /\ \A k \in 1..Len(Messages(S, now)) :
             LET m == Messages(S, now)[k] IN m.id \in S /\ m.says = now[m.id]
    <3>1. S \in SUBSET Incidents /\ \A i \in S : now[i] \in Levels \cup {"Recovered"}
      OBVIOUS
    <3> QED BY <3>1, MessagesAre
  <2>2. ASSUME NEW k \in 1..Len(Messages(S, now)) PROVE Messages(S, now)[k] \in True(now)
    <3> DEFINE m == Messages(S, now)[k]
    <3>1. m \in News /\ m.id \in DOMAIN now /\ m.says = now[m.id]
      BY <2>1
    <3> HIDE DEF m
    <3>2. m \in True(now)
      BY <3>1 DEF True, Knows, Priority, Levels
    <3> QED BY <3>2 DEF m
  <2> QED BY <2>1, <2>2 DEF Says
<1>3. /\ {i \in Started(now) : Selected(config, now[i])} \in SUBSET DOMAIN now
      /\ Criticals(now) \in SUBSET DOMAIN now
  BY DEF Started, Criticals
<1>4. <<>> \in Seq(News) /\ Says(<<>>, True(now))
  BY DEF Says
<1> DEFINE gone == DOMAIN previous \ DOMAIN now
           recovered == [i \in DOMAIN previous |-> "Recovered"]
<1>5. Messages(gone, recovered) \in Seq(News) /\ Says(Messages(gone, recovered), True(now))
  <2>1. /\ Messages(gone, recovered) \in Seq(News)
        /\ \A k \in 1..Len(Messages(gone, recovered)) :
             LET m == Messages(gone, recovered)[k] IN m.id \in gone /\ m.says = recovered[m.id]
    BY MessagesAre DEF WorkerInv
  <2>2. ASSUME NEW k \in 1..Len(Messages(gone, recovered))
        PROVE  Messages(gone, recovered)[k] \in True(now)
    <3> DEFINE m == Messages(gone, recovered)[k]
    <3>1. m \in News
      <4> HIDE DEF gone, recovered
      <4> QED BY <2>1
    <3>2. m.id \in gone /\ m.says = recovered[m.id]
      <4> HIDE DEF gone, recovered
      <4> QED BY <2>1
    <3>3. m.says = "Recovered"
      BY <3>2
    <3> HIDE DEF m
    <3>4. m \in True(now)
      BY <3>1, <3>2, <3>3 DEF True, Knows
    <3> QED BY <3>4 DEF m
  <2> HIDE DEF gone, recovered
  <2> QED BY <2>1, <2>2 DEF Says
<1> DEFINE started == Messages({i \in Started(now) : Selected(config, now[i])}, now)
           repeated == IF Repeats(now) THEN Messages(Criticals(now), now) ELSE <<>>
           ended == IF config.notify_recovery THEN Messages(gone, recovered) ELSE <<>>
<1>6. RoundMessages(now) = ((TestMessages \o started) \o repeated) \o ended
  BY DEF RoundMessages
<1>7. started \in Seq(News) /\ Says(started, True(now))
  BY <1>2, <1>3
<1>8. repeated \in Seq(News) /\ Says(repeated, True(now))
  BY <1>2, <1>3, <1>4
<1>9. ended \in Seq(News) /\ Says(ended, True(now))
  BY <1>4, <1>5
<1> HIDE DEF started, repeated, ended
<1>10. TestMessages \o started \in Seq(News) /\ Says(TestMessages \o started, True(now))
  BY <1>1, <1>7, SaysBoth
<1>11. /\ (TestMessages \o started) \o repeated \in Seq(News)
       /\ Says((TestMessages \o started) \o repeated, True(now))
  BY <1>8, <1>10, SaysBoth
<1> QED BY <1>6, <1>9, <1>11, SaysBoth

\* What is known of an incident that has no news stays true.
LEMMA KnowsUnchanged ==
    ASSUME NEW now, now \in [DOMAIN now -> Levels], previous \in [DOMAIN previous -> Levels],
           NEW i, i \notin Changed(now), NEW says, Knows(says, i, previous)
    PROVE  Knows(says, i, now)
<1>1. i \in DOMAIN now <=> i \in DOMAIN previous
  BY DEF Changed, Started
<1>2. CASE i \in DOMAIN now
  <2>1. ~(Priority(previous[i]) < Priority(now[i]))
    BY <1>1, <1>2 DEF Changed, Started
  <2>2. says \in Levels /\ Priority(says) >= Priority(previous[i])
    BY <1>1, <1>2 DEF Knows
  <2>3. Priority(says) \in Nat /\ Priority(previous[i]) \in Nat /\ Priority(now[i]) \in Nat
    BY DEF Priority
  <2> QED BY <1>2, <2>1, <2>2, <2>3 DEF Knows
<1> QED BY <1>1, <1>2 DEF Knows

-----------------------------------------------------------------------------
(* The invariant.                                                          *)

\* At the start nothing is known, queued or heard.
LEMMA InitInv == Init => NotificationsIInv
<1> SUFFICES ASSUME Init PROVE NotificationsIInv
  OBVIOUS
<1>1. DOMAIN None = {} /\ None \in [{} -> Levels]
  BY DEF None
<1>2. <<>> \in Seq(News) /\ Len(<<>>) = 0 /\ \A i : About(<<>>, i) = {}
  BY DEF About
<1>3. StateInv
  BY <1>1 DEF Init, StateInv
<1>4. WorkerInv
  <2>1. previous \in [DOMAIN previous -> Levels] /\ DOMAIN previous \subseteq Incidents
    BY <1>1 DEF Init
  <2>2. pending \in Seq(News) /\ Len(pending) <= QueueCap /\ failures \in Nat
    BY <1>2, NotificationAssumption DEF Init
  <2>3. received \in [Incidents -> Levels \cup {"Nothing", "Recovered"}]
    BY DEF Init
  <2> QED BY <2>1, <2>2, <2>3 DEF Init, WorkerInv
<1>5. KnownInv
  BY <1>1, <1>2 DEF Init, KnownInv, Latest, Knows
<1> QED BY <1>3, <1>4, <1>5 DEF NotificationsIInv

\* What changes around the worker.
LEMMA AroundStep ==
    ASSUME NotificationsIInv,
           UpdateSnapshot \/ GoStale \/ UpdateManifest \/ PostTest \/ RepeatDue \/ UNCHANGED vars
    PROVE  NotificationsIInv'
<1> USE DEF NotificationsIInv
<1>1. StateInv'
  <2>1. CASE UpdateSnapshot
    <3>1. snapshot' \in [DOMAIN snapshot' -> Levels] /\ DOMAIN snapshot' \subseteq Rules
      BY <2>1 DEF UpdateSnapshot
    <3> QED BY <2>1, <3>1 DEF UpdateSnapshot, StateInv
  <2>2. CASE ~UpdateSnapshot
    BY <2>2 DEF StateInv, GoStale, UpdateManifest, PostTest, RepeatDue, vars, stateVars
  <2> QED BY <2>1, <2>2
<1>2. /\ UNCHANGED <<at, previous, pending, failures, received, unannounced>>
      /\ next_critical_repeat' \in {"unset", "armed", "due"} /\ TEST_NOTIFICATIONS' \in BOOLEAN
      /\ has_snapshot \/ has_snapshot' \/ ~has_snapshot'
  BY DEF UpdateSnapshot, GoStale, UpdateManifest, PostTest, RepeatDue, vars, stateVars, workerVars,
         ghostVars, WorkerInv
<1>3. has_snapshot => has_snapshot'
  BY DEF UpdateSnapshot, GoStale, UpdateManifest, PostTest, RepeatDue, vars, stateVars
<1>4. WorkerInv'
  BY <1>2 DEF WorkerInv
<1>5. KnownInv'
  BY <1>2, <1>3 DEF KnownInv, Latest, About, Knows
<1> QED BY <1>1, <1>4, <1>5

\* A round that is skipped only remembers the incidents.
LEMMA SkipStep ==
    ASSUME NotificationsIInv, SkipRound
    PROVE  NotificationsIInv'
<1> USE DEF NotificationsIInv
<1>1. /\ previous' = Notifiable /\ unannounced' = unannounced \cup Changed(Notifiable)
      /\ UNCHANGED <<stateVars, TEST_NOTIFICATIONS, at, pending, next_critical_repeat, failures,
                     received>>
  BY DEF SkipRound
<1> DEFINE now == Notifiable
<1>2. /\ now \in [DOMAIN now -> Levels] /\ DOMAIN now \subseteq Incidents
      /\ ~has_snapshot => DOMAIN now = {}
  BY NotifiableIs
<1> HIDE DEF now
<1>3. StateInv'
  BY <1>1 DEF StateInv, stateVars
<1>4. unannounced' \subseteq Incidents
  BY <1>1, <1>2 DEF Changed, Started, WorkerInv, now
<1>5. WorkerInv'
  BY <1>1, <1>2, <1>4 DEF WorkerInv, now
<1>6. \A i \in Incidents \ unannounced' : Knows(Latest(pending, received, i), i, now)
  BY <1>1, <1>2, KnowsUnchanged DEF KnownInv, WorkerInv, now
<1>7. KnownInv'
  <2>1. \A i \in Incidents \ unannounced' : Knows(Latest(pending', received', i), i, previous')
    BY <1>1, <1>6 DEF now
  <2> QED BY <1>1, <1>2, <2>1 DEF KnownInv, stateVars, now
<1> QED BY <1>3, <1>5, <1>7

\* A delivery tells the subscriber what the queue said.
LEMMA PublishedStep ==
    ASSUME NotificationsIInv, Published
    PROVE  NotificationsIInv'
<1> USE DEF NotificationsIInv
<1> DEFINE m == Head(pending)
<1>1. /\ pending # <<>> /\ pending' = Tail(pending) /\ at' = "loop"
      /\ received' = IF m.id \in Incidents THEN [received EXCEPT ![m.id] = m.says] ELSE received
      /\ UNCHANGED <<stateVars, TEST_NOTIFICATIONS, previous, next_critical_repeat, failures,
                     unannounced>>
  BY DEF Published, Deliver, WorkerInv
<1>2. /\ pending \in Seq(News) /\ pending' \in Seq(News) /\ Len(pending') = Len(pending) - 1
      /\ m = pending[1] /\ m \in News /\ Len(pending) \in Nat \ {0}
      /\ \A k \in 1..Len(pending') : pending'[k] = pending[k + 1]
  BY <1>1 DEF WorkerInv
<1>3. m.id \in Incidents => m.says \in Levels \cup {"Recovered"}
  BY <1>2, NotificationAssumption DEF News, Incidents, TestId
<1> HIDE DEF m
<1>4. StateInv'
  BY <1>1 DEF StateInv, stateVars
<1>5. received' \in [Incidents -> Levels \cup {"Nothing", "Recovered"}]
  BY <1>1, <1>3 DEF WorkerInv
<1>6. WorkerInv'
  <2>1. Len(pending') <= QueueCap
    BY <1>2, NotificationAssumption DEF WorkerInv
  <2> QED BY <1>1, <1>2, <1>5, <2>1 DEF WorkerInv
<1>7. \A i \in Incidents : Latest(pending', received', i) = Latest(pending, received, i)
  <2>1. received \in [Incidents -> Levels \cup {"Nothing", "Recovered"}]
    BY DEF WorkerInv
  <2> QED BY <1>1, <1>2, <2>1, LatestTail DEF m
<1>8. \A i \in Incidents \ unannounced' : Knows(Latest(pending', received', i), i, previous')
  BY <1>1, <1>7 DEF KnownInv
<1>9. ~has_snapshot' => /\ DOMAIN previous' = {}
                        /\ \A k \in 1..Len(pending') : pending'[k].id = TestId
  <2>1. \A k \in 1..Len(pending') : k + 1 \in 1..Len(pending)
    BY <1>2
  <2> QED BY <1>1, <1>2, <2>1 DEF KnownInv, stateVars
<1>10. KnownInv'
  BY <1>8, <1>9 DEF KnownInv
<1> QED BY <1>4, <1>6, <1>10

\* A failed delivery leaves its message in front, whether it got through or not.
LEMMA PublishFailsStep ==
    ASSUME NotificationsIInv, PublishFails
    PROVE  NotificationsIInv'
<1> USE DEF NotificationsIInv
<1> DEFINE m == Head(pending)
<1>1. /\ pending # <<>> /\ at' = "loop" /\ failures' \in Nat
      /\ \/ received' = IF m.id \in Incidents THEN [received EXCEPT ![m.id] = m.says] ELSE received
         \/ UNCHANGED received
      /\ UNCHANGED <<stateVars, TEST_NOTIFICATIONS, previous, pending, next_critical_repeat,
                     unannounced>>
  BY DEF PublishFails, Deliver, WorkerInv
<1>2. pending \in Seq(News) /\ m = pending[1] /\ m \in News /\ 1 \in 1..Len(pending)
  BY <1>1 DEF WorkerInv
<1>3. m.id \in Incidents => m.says \in Levels \cup {"Recovered"}
  BY <1>2, NotificationAssumption DEF News, Incidents, TestId
<1> HIDE DEF m
<1>4. StateInv'
  BY <1>1 DEF StateInv, stateVars
<1>5. received' \in [Incidents -> Levels \cup {"Nothing", "Recovered"}]
  BY <1>1, <1>3 DEF WorkerInv
<1>6. WorkerInv'
  BY <1>1, <1>5 DEF WorkerInv
<1>7. ASSUME NEW i \in Incidents
      PROVE  Latest(pending, received', i) = Latest(pending, received, i)
  <2>1. CASE About(pending, i) # {}
    BY <2>1 DEF Latest
  <2>2. CASE About(pending, i) = {}
    <3>1. m.id # i
      BY <1>2, <2>2 DEF About
    <3>2. received'[i] = received[i]
      BY <1>1, <3>1 DEF WorkerInv
    <3> QED BY <2>2, <3>2, LatestHeard
  <2> QED BY <2>1, <2>2
<1>8. \A i \in Incidents \ unannounced' : Knows(Latest(pending', received', i), i, previous')
  BY <1>1, <1>7 DEF KnownInv
<1>9. KnownInv'
  BY <1>1, <1>8 DEF KnownInv, stateVars
<1> QED BY <1>4, <1>6, <1>9

\* A round: what it says of an incident is true, and of the others it says nothing.
LEMMA EvaluateStep ==
    ASSUME NotificationsIInv, Evaluate
    PROVE  NotificationsIInv'
<1> USE DEF NotificationsIInv
<1> DEFINE now == Notifiable
           round == RoundMessages(now)
           queue == pending \o round
<1>1. /\ pending' = Push(queue) /\ previous' = now /\ TEST_NOTIFICATIONS' = FALSE
      /\ next_critical_repeat' \in {"unset", "armed", "due"}
      /\ unannounced' = {i \in Incidents : About(queue, i) # {} /\ About(pending', i) = {}}
                        \cup {i \in unannounced \cup Changed(now) : About(round, i) = {}}
      /\ at' = IF pending' = <<>> THEN "loop" ELSE "publish"
      /\ UNCHANGED <<stateVars, failures, received>>
  BY DEF Evaluate
<1>2. /\ now \in [DOMAIN now -> Levels] /\ DOMAIN now \subseteq Incidents
      /\ ~has_snapshot => DOMAIN now = {}
  BY NotifiableIs
<1>3. round \in Seq(News) /\ Says(round, True(now))
  <2> HIDE DEF now
  <2> QED BY <1>2, RoundTells
<1> HIDE DEF now, round
<1>4. queue \in Seq(News)
  BY <1>3 DEF WorkerInv
<1> HIDE DEF queue
<1>5. pending' \in Seq(News) /\ Len(pending') <= QueueCap
  BY <1>1, <1>4, PushKeeps
<1>6. StateInv'
  BY <1>1 DEF StateInv, stateVars
<1>7. unannounced' \subseteq Incidents
  BY <1>1, <1>2 DEF Changed, Started, WorkerInv
<1>8. WorkerInv'
  BY <1>1, <1>2, <1>5, <1>7 DEF WorkerInv
<1>9. ASSUME NEW i \in Incidents \ unannounced'
      PROVE  Knows(Latest(pending', received', i), i, previous')
  <2>1. Latest(pending', received, i) = Latest(queue, received, i)
    BY <1>1, <1>4, LatestPush
  <2>2. CASE About(round, i) # {}
    <3>1. PICK k \in About(round, i) : Latest(queue, received, i) = round[k].says
      BY <1>3, <2>2, LatestRound DEF WorkerInv, queue
    <3>2. k \in 1..Len(round) /\ round[k].id = i
      BY DEF About
    <3>3. round[k] \in True(now)
      BY <1>3, <3>2 DEF Says
    <3>4. i # TestId
      BY NotificationAssumption DEF Incidents, TestId
    <3>5. Knows(round[k].says, i, now)
      BY <3>2, <3>3, <3>4 DEF True
    <3> QED BY <1>1, <2>1, <3>1, <3>5
  <2>3. CASE About(round, i) = {}
    <3>1. Latest(queue, received, i) = Latest(pending, received, i)
      BY <1>3, <2>3, LatestRound DEF WorkerInv, queue
    <3>2. i \notin unannounced /\ i \notin Changed(now)
      BY <1>1, <2>3
    <3>3. Knows(Latest(pending, received, i), i, previous)
      BY <3>2 DEF KnownInv
    <3>4. Knows(Latest(pending, received, i), i, now)
      BY <1>2, <3>2, <3>3, KnowsUnchanged DEF WorkerInv
    <3> QED BY <1>1, <2>1, <3>1, <3>4
  <2> QED BY <2>2, <2>3
<1>10. ASSUME ~has_snapshot', NEW k \in 1..Len(pending')
       PROVE  pending'[k].id = TestId
  <2>1. ~has_snapshot /\ DOMAIN now = {} /\ DOMAIN previous = {}
    BY <1>1, <1>2, <1>10 DEF stateVars, KnownInv
  <2> DEFINE Tests == {m \in News : m.id = TestId}
  <2>2. Says(pending, Tests)
    BY <2>1 DEF KnownInv, WorkerInv, Says
  <2>3. Says(round, Tests)
    BY <1>3, <2>1 DEF Says, True
  <2>4. Says(queue, Tests)
    <3> HIDE DEF Tests
    <3> QED BY <1>3, <2>2, <2>3, SaysBoth DEF WorkerInv, queue
  <2>5. PICK d \in Nat : /\ Len(queue) = Len(pending') + d
                         /\ \A l \in 1..Len(pending') : pending'[l] = queue[l + d]
    BY <1>1, <1>4, PushKeeps
  <2>6. k + d \in 1..Len(queue) /\ pending'[k] = queue[k + d]
    BY <1>5, <2>5
  <2> QED BY <2>4, <2>6 DEF Says
<1>11. KnownInv'
  BY <1>1, <1>2, <1>9, <1>10 DEF KnownInv, stateVars
<1> QED BY <1>6, <1>8, <1>11

\* The invariant implies the safety properties.
LEMMA InvImplies == NotificationsIInv => NotificationsInv
<1> SUFFICES ASSUME NotificationsIInv PROVE NotificationsInv
  OBVIOUS
<1> USE DEF NotificationsIInv
<1>1. TypeOK
  <2>1. News \subseteq Message
    BY NotificationAssumption DEF News, Message, Incidents, TestId
  <2>2. pending \in Seq(Message)
    BY <2>1 DEF WorkerInv
  <2>3. snapshot \in Active /\ previous \in Active
    <3>1. Rules \subseteq Incidents
      BY NotificationAssumption DEF Rules, Incidents
    <3>2. DOMAIN snapshot \in SUBSET Incidents /\ DOMAIN previous \in SUBSET Incidents
      BY <3>1 DEF StateInv, WorkerInv
    <3> QED BY <3>2 DEF StateInv, WorkerInv, Active
  <2>4. HostOffline \notin DOMAIN snapshot
    BY NotificationAssumption DEF StateInv, HostOffline, Rules
  <2> QED BY <2>2, <2>3, <2>4 DEF TypeOK, StateInv, WorkerInv
<1>2. NewerStateRetained
  BY DEF NewerStateRetained, Told, Latest, KnownInv
<1>3. SilentBeforeSnapshot
  BY DEF SilentBeforeSnapshot, KnownInv
<1> QED BY <1>1, <1>2, <1>3 DEF NotificationsInv

\* Whatever snapshots and manifests arrive and whichever deliveries fail, are doubled or
\* displaced: once the queue has been sent the subscriber knows the state of every
\* incident whose newest message was kept and whose change was announced, and a stick that
\* has had no snapshot says nothing of the host.
THEOREM NotificationsSafe == Spec => []NotificationsInv
<1>1. NotificationsIInv /\ [Next]_vars => NotificationsIInv'
  BY AroundStep, SkipStep, PublishedStep, PublishFailsStep, EvaluateStep DEF Next
<1> QED BY InitInv, <1>1, InvImplies, PTL DEF Spec

=============================================================================
