-------------------------- MODULE DashboardProofs ---------------------------
(***************************************************************************)
(* Proofs about Dashboard, for any number of workers, any limit on the age *)
(* of a snapshot and any time a response may take.                         *)
(***************************************************************************)
EXTENDS MCDashboard, FiniteSetTheorems, TLAPS

-----------------------------------------------------------------------------
(* What the workers and the page know of the age of the snapshot.          *)

Ages(limit) == {<<>>} \cup {<<n>> : n \in 0..limit}

Body == [age : Ages(StaleAfter), stale : BOOLEAN, incident : BOOLEAN, budget : BOOLEAN]

Request == [at : {"locking", "writing"}, client : {"browser", "other"},
            path : Dynamic \cup {"health", "static", "test"}, time : 0..MaxTransfer, body : Body]

\* The age is known, and of at most so many ticks.
Younger(age, ticks) == age # <<>> /\ age[1] <= ticks

\* An age below HOST_STALE_AFTER that was sent is outdated at most by the time since.
AgeHonest(sent, since, age) ==
    sent # <<>> /\ sent[1] < StaleAfter => Younger(age, sent[1] + since)

Consistent(path, body) ==
    /\ path \in Dynamic /\ body.incident => body.stale
    /\ path = "health" /\ body.stale => body.incident
    /\ body.budget => body.age = <<>>

Serves(r, age) ==
    \/ r = Idle
    \/ /\ r \in Request
       /\ r.at = "locking" => r.path \in Dynamic /\ r.time = 0
       /\ r.at = "writing" =>
             /\ Consistent(r.path, r.body)
             /\ r.client = "browser" => AgeHonest(r.body.age, r.time, age)

Writers == {w \in Workers : worker[w].at = "writing" /\ worker[w].path \in Dynamic}

ServerInv ==
    /\ DOMAIN worker = Workers /\ worker = [w \in Workers |-> worker[w]]
    /\ \A w \in Workers : Serves(worker[w], last_update)
    /\ lock = Writers
    /\ \A v, w \in Writers : v = w

Page == [base : Ages(StaleAfter), elapsed : 0..StaleAfter, budget : BOOLEAN]

\* A page that is not yet stale by its own clock.
ShownHonest(page, age) ==
    /\ page \in Page
    /\ page.budget => page.base = <<>>
    /\ page.base # <<>> /\ ShownAge(page) < StaleAfter => Younger(age, ShownAge(page) + MaxTransfer)

ShellInv ==
    /\ ShownHonest(shell, last_update)
    /\ badge = "LIVE" /\ ~hidden => BadgeOf(shell, FALSE) = "LIVE"

StateInv ==
    /\ last_update \in Ages(MaxAge) /\ oversize \in BOOLEAN
    /\ manifest \in [enabled : BOOLEAN, port : Ports] /\ bound \in Ports \cup {0}
    /\ busy \in {"no", "refresh", "test", "feedback"}
    /\ refreshFailed \in BOOLEAN /\ hidden \in BOOLEAN
    /\ badge \in {"", "NO DATA", "STALE", "RETRYING", "LIVE"}

DashboardIInv == StateInv /\ ServerInv /\ ShellInv

-----------------------------------------------------------------------------
(* Ages.                                                                   *)

\* An age is absent or one number.
LEMMA AgeIs ==
    ASSUME NEW limit \in Nat, NEW age \in Ages(limit), age # <<>>
    PROVE  age[1] \in 0..limit /\ age = <<age[1]>>
BY DEF Ages

\* A number makes an age.
LEMMA AgeOf ==
    ASSUME NEW limit \in Nat, NEW n \in 0..limit
    PROVE  <<n>> \in Ages(limit) /\ <<n>> # <<>> /\ <<n>>[1] = n
BY DEF Ages

\* The limits are numbers, and ages are counted beyond HOST_STALE_AFTER.
LEMMA Limits ==
    /\ MaxAge \in Nat /\ StaleAfter \in Nat \ {0} /\ MaxTransfer \in Nat \ {0}
    /\ StaleAfter < MaxAge
BY DashboardAssumption DEF MaxAge

\* A snapshot that has just arrived has an age.
LEMMA FreshAge == <<0>> \in Ages(MaxAge)
<1>1. 0 \in 0..MaxAge
  BY Limits
<1> QED BY <1>1 DEF Ages

\* A tick adds at most one to an age, and makes nothing fresh.
LEMMA AgedAge ==
    ASSUME NEW age \in Ages(MaxAge)
    PROVE  /\ Aged(age) \in Ages(MaxAge)
           /\ Old(age) => Old(Aged(age))
           /\ age = <<>> <=> Aged(age) = <<>>
           /\ age # <<>> => Aged(age)[1] \in {age[1], age[1] + 1}
<1>0. MaxAge \in Nat /\ StaleAfter \in Nat /\ StaleAfter < MaxAge
  BY Limits
<1>1. CASE age = <<>>
  BY <1>1 DEF Aged, Old
<1>2. CASE age # <<>>
  <2>1. age[1] \in 0..MaxAge /\ age = <<age[1]>>
    BY <1>0, <1>2, AgeIs
  <2>2. CASE age[1] = MaxAge
    <3>1. Aged(age) = age
      BY <2>1, <2>2 DEF Aged
    <3> QED BY <1>2, <3>1
  <2>3. CASE age[1] # MaxAge
    <3>1. Aged(age) = <<age[1] + 1>>
      BY <1>2, <2>1, <2>3, <1>0 DEF Aged
    <3>2. age[1] + 1 \in 0..MaxAge
      BY <2>1, <2>3, <1>0
    <3>3. Aged(age) \in Ages(MaxAge) /\ Aged(age) # <<>> /\ Aged(age)[1] = age[1] + 1
      BY <1>0, <3>1, <3>2, AgeOf
    <3> QED BY <1>0, <1>2, <2>1, <3>3 DEF Old
  <2> QED BY <2>2, <2>3
<1> QED BY <1>1, <1>2

\* Capping an age loses nothing of a fresh one.
LEMMA CappedAge ==
    ASSUME NEW age \in Ages(MaxAge)
    PROVE  /\ Capped(age) \in Ages(StaleAfter)
           /\ Capped(age) # <<>> /\ Capped(age)[1] < StaleAfter => Capped(age) = age
<1>0. MaxAge \in Nat /\ StaleAfter \in Nat /\ StaleAfter < MaxAge
  BY Limits
<1>1. CASE age = <<>>
  BY <1>1 DEF Capped, Ages
<1>2. CASE age # <<>>
  <2>1. age[1] \in 0..MaxAge /\ age = <<age[1]>>
    BY <1>0, <1>2, AgeIs
  <2>2. CASE age[1] > StaleAfter
    <3>1. Capped(age) = <<StaleAfter>>
      BY <1>2, <2>2 DEF Capped
    <3>2. StaleAfter \in 0..StaleAfter
      BY <1>0
    <3> QED BY <1>0, <3>1, <3>2, AgeOf
  <2>3. CASE ~(age[1] > StaleAfter)
    <3>1. Capped(age) = age /\ age[1] \in 0..StaleAfter
      BY <1>0, <2>1, <2>3 DEF Capped
    <3> QED BY <1>0, <2>1, <3>1, AgeOf
  <2> QED BY <2>2, <2>3
<1> QED BY <1>1, <1>2

\* A dashboard made between two readings of the clock gives an honest age, and its
\* incidents agree with its flag.
LEMMA MarkupBody ==
    ASSUME StateInv, NEW r \in Readings, NEW path \in Dynamic
    PROVE  LET body == dashboard_markup(r[1], r[2])
           IN  body \in Body /\ Consistent(path, body) /\ AgeHonest(body.age, 0, last_update)
<1> DEFINE body == dashboard_markup(r[1], r[2])
<1>0. last_update \in Ages(MaxAge) /\ oversize \in BOOLEAN /\ StaleAfter \in Nat /\ MaxAge \in Nat
  BY Limits DEF StateInv
<1>1. /\ r[1] = last_update /\ r[2] \in {last_update, Aged(last_update)}
      /\ r[2] \in Ages(MaxAge)
  BY <1>0, AgedAge DEF Readings
<1>2. /\ body.age = (IF oversize THEN <<>> ELSE Capped(r[2]))
      /\ body.stale = Old(r[2]) /\ body.incident = Old(r[1]) /\ body.budget = oversize
      /\ body = [age |-> body.age, stale |-> body.stale, incident |-> body.incident,
                 budget |-> body.budget]
  BY DEF dashboard_markup, MarkupClock, FinishAge
<1>3. body.age \in Ages(StaleAfter)
  BY <1>1, <1>2, CappedAge DEF Ages
<1>4. body.stale \in BOOLEAN /\ body.incident \in BOOLEAN /\ body.budget \in BOOLEAN
  BY <1>0, <1>2 DEF Old
<1>5. body \in Body
  <2> HIDE DEF body
  <2> QED BY <1>2, <1>3, <1>4 DEF Body
<1>6. Consistent(path, body)
  <2>1. Old(r[1]) => Old(r[2])
    BY <1>0, <1>1, AgedAge
  <2>2. path # "health"
    BY DEF Dynamic
  <2> HIDE DEF body
  <2> QED BY <1>2, <2>1, <2>2 DEF Consistent
<1>7. AgeHonest(body.age, 0, last_update)
  <2> SUFFICES ASSUME body.age # <<>>, body.age[1] < StaleAfter
               PROVE  Younger(last_update, body.age[1] + 0)
    BY DEF AgeHonest
  <2>1. body.age = r[2] /\ r[2] # <<>>
    BY <1>1, <1>2, CappedAge
  <2> HIDE DEF body
  <2>2. last_update # <<>> /\ r[2][1] \in {last_update[1], last_update[1] + 1}
    BY <1>0, <1>1, <2>1, AgedAge
  <2>3. last_update[1] \in Nat
    BY <1>0, <2>2, AgeIs
  <2> QED BY <2>1, <2>2, <2>3 DEF Younger
<1> HIDE DEF body
<1> QED BY <1>5, <1>6, <1>7 DEF body

-----------------------------------------------------------------------------
(* The workers.                                                            *)

\* A fresh snapshot is younger than any age that was sent.
LEMMA ServesFresh ==
    ASSUME NEW r, NEW age, Serves(r, age)
    PROVE  Serves(r, <<0>>)
<1>1. ASSUME r \in Request
      PROVE  AgeHonest(r.body.age, r.time, <<0>>)
  <2>1. r.body.age \in Ages(StaleAfter) /\ r.time \in Nat
    BY <1>1 DEF Request, Body
  <2>2. r.body.age # <<>> => r.body.age[1] \in Nat
    BY <2>1, AgeIs, Limits
  <2> QED BY <2>1, <2>2 DEF AgeHonest, Younger
<1> QED BY <1>1 DEF Serves

\* Time that passes for a response that is being written counts for it.
LEMMA ServesLater ==
    ASSUME NEW r, NEW age \in Ages(MaxAge), Serves(r, age),
           r # Idle => r.time < MaxTransfer
    PROVE  Serves(IF r.at # "writing" \/ r.client = "other" THEN r
                  ELSE [r EXCEPT !.time = @ + 1], Aged(age))
<1> DEFINE later == IF r.at # "writing" \/ r.client = "other" THEN r
                    ELSE [r EXCEPT !.time = @ + 1]
<1> SUFFICES Serves(later, Aged(age))
  OBVIOUS
<1>1. CASE r = Idle
  BY <1>1 DEF Serves, Idle
<1>2. CASE r # Idle /\ (r.at # "writing" \/ r.client = "other")
  BY <1>2 DEF Serves, Request
<1>3. CASE r # Idle /\ r.at = "writing" /\ r.client # "other"
  <2>1. /\ r \in Request /\ r.client = "browser" /\ r.time \in 0..MaxTransfer /\ r.time < MaxTransfer
        /\ Consistent(r.path, r.body) /\ AgeHonest(r.body.age, r.time, age)
    BY <1>3 DEF Serves, Request
  <2>2. later = [r EXCEPT !.time = r.time + 1]
    BY <1>3
  <2>3. /\ later \in Request /\ later.at = "writing" /\ later.path = r.path
        /\ later.body = r.body /\ later.time = r.time + 1
    BY <1>3, <2>1, <2>2, Limits DEF Request
  <2>4. AgeHonest(r.body.age, r.time + 1, Aged(age))
    <3> SUFFICES ASSUME r.body.age # <<>>, r.body.age[1] < StaleAfter
                 PROVE  Younger(Aged(age), r.body.age[1] + (r.time + 1))
      BY DEF AgeHonest
    <3>1. age # <<>> /\ age[1] <= r.body.age[1] + r.time
      BY <2>1 DEF AgeHonest, Younger
    <3>2. Aged(age) # <<>> /\ Aged(age)[1] \in {age[1], age[1] + 1} /\ age[1] \in Nat
      BY <3>1, AgedAge, AgeIs, Limits
    <3>3. r.body.age[1] \in Nat
      BY <2>1, AgeIs, Limits DEF Request, Body
    <3> QED BY <2>1, <3>1, <3>2, <3>3 DEF Younger
  <2> HIDE DEF later
  <2> QED BY <2>1, <2>3, <2>4 DEF Serves
<1>4. r = Idle \/ r \in Request
  BY DEF Serves
<1> QED BY <1>1, <1>2, <1>3

\* Handlers that end give back the lock with their worker.
LEMMA FreedInv ==
    ASSUME ServerInv, NEW M,
           worker' = [w \in Workers |-> IF w \in M THEN Idle ELSE worker[w]],
           lock' = lock \ M, UNCHANGED last_update
    PROVE  ServerInv'
<1>1. \A w \in Workers : worker'[w] = (IF w \in M THEN Idle ELSE worker[w])
  OBVIOUS
<1>2. DOMAIN worker' = Workers /\ worker' = [w \in Workers |-> worker'[w]]
  OBVIOUS
<1>3. \A w \in Workers : Serves(worker'[w], last_update')
  BY <1>1 DEF ServerInv, Serves
<1>4. Writers' = Writers \ M
  BY <1>1 DEF Writers, Idle
<1> QED BY <1>2, <1>3, <1>4 DEF ServerInv

\* One worker ends.
LEMMA FreedOne ==
    ASSUME ServerInv, NEW w \in Workers, Freed(w), UNCHANGED last_update
    PROVE  ServerInv'
<1>1. worker' = [v \in Workers |-> IF v \in {w} THEN Idle ELSE worker[v]]
  BY DEF Freed, ServerInv
<1>2. lock' = lock \ {w}
  BY DEF Freed, Unlocks
<1> QED BY <1>1, <1>2, FreedInv

\* A connection that is accepted waits for the lock, or gets a body that needs none.
LEMMA ArrivesInv ==
    ASSUME ServerInv, StateInv, NEW w \in Workers, NEW client \in {"browser", "other"},
           NEW path \in Dynamic \cup {"health", "static", "test"},
           Arrives(w, client, path), UNCHANGED <<last_update, lock>>
    PROVE  ServerInv'
<1>1. PICK r \in Readings :
         worker' = [worker EXCEPT ![w] =
            [at |-> IF Locks(path) THEN "locking" ELSE "writing", client |-> client, path |-> path,
             time |-> 0, body |-> IF path = "health" THEN health_json(r[1], r[2])
                                  ELSE IF path \in Dynamic /\ ~Locks(path) THEN dashboard_markup(r[1], r[2])
                                  ELSE Static]]
  BY DEF Arrives
<1> DEFINE body == IF path = "health" THEN health_json(r[1], r[2]) ELSE Static
           new == [at |-> IF path \in Dynamic THEN "locking" ELSE "writing", client |-> client,
                   path |-> path, time |-> 0, body |-> body]
<1>2. worker' = [worker EXCEPT ![w] = new]
  BY <1>1 DEF Locks
<1>3. body \in Body /\ (path \notin Dynamic => Consistent(path, body)) /\ body.age = <<>>
  <2>1. <<>> \in Ages(StaleAfter)
    BY DEF Ages
  <2>2. Old(r[1]) => Old(r[2])
    <3>1. r[1] = last_update /\ r[2] \in {last_update, Aged(last_update)}
      BY DEF Readings
    <3>2. Old(last_update) => Old(Aged(last_update))
      BY AgedAge DEF StateInv
    <3> QED BY <3>1, <3>2
  <2> QED BY <2>1, <2>2 DEF health_json, Static, Body, Consistent, Old
<1>4. Serves(new, last_update)
  <2> HIDE DEF body
  <2>1. new \in Request
    BY <1>3, Limits DEF Request
  <2> QED BY <1>3, <2>1 DEF Serves, AgeHonest
<1>5. \A v \in Workers : worker'[v] = (IF v = w THEN new ELSE worker[v])
  BY <1>2 DEF ServerInv
<1>6. worker[w] = Idle
  BY DEF Arrives
<1>7. Writers' = Writers
  <2>1. \A v \in Workers : worker'[v].at = "writing" /\ worker'[v].path \in Dynamic
                          <=> worker[v].at = "writing" /\ worker[v].path \in Dynamic
    <3> TAKE v \in Workers
    <3>1. CASE v = w
      <4>1. worker'[v] = new /\ worker[v] = Idle
        BY <1>5, <1>6, <3>1
      <4>2. ~(new.at = "writing" /\ new.path \in Dynamic)
        OBVIOUS
      <4> HIDE DEF new
      <4> QED BY <4>1, <4>2 DEF Idle
    <3>2. CASE v # w
      BY <1>5, <3>2
    <3> QED BY <3>1, <3>2
  <2> QED BY <2>1 DEF Writers
<1>8. \A v \in Workers : Serves(worker'[v], last_update')
  <2> HIDE DEF new
  <2> QED BY <1>4, <1>5 DEF ServerInv
<1>9. DOMAIN worker' = Workers /\ worker' = [v \in Workers |-> worker'[v]]
  <2> HIDE DEF new
  <2> QED BY <1>2 DEF ServerInv
<1> QED BY <1>7, <1>8, <1>9 DEF ServerInv

\* A body is made only by the worker that got the lock.
LEMMA RendersInv ==
    ASSUME ServerInv, StateInv, NEW w \in Workers, Renders(w)
    PROVE  ServerInv'
<1>1. PICK r \in Readings :
        worker' = [worker EXCEPT ![w].at = "writing", ![w].body = dashboard_markup(r[1], r[2])]
  BY DEF Renders
<1> DEFINE body == dashboard_markup(r[1], r[2])
           new == [[worker[w] EXCEPT !.at = "writing"] EXCEPT !.body = body]
<1>2. worker[w] \in Request /\ worker[w].at = "locking" /\ worker[w].path \in Dynamic /\ worker[w].time = 0
  BY DEF Renders, ServerInv, Serves, Idle
<1>3. worker' = [worker EXCEPT ![w] = new]
  <2> HIDE DEF body
  <2> QED BY <1>1, <1>2 DEF ServerInv, Request, body
<1>4. body \in Body /\ Consistent(worker[w].path, body) /\ AgeHonest(body.age, 0, last_update)
  BY <1>2, MarkupBody
<1>5. Serves(new, last_update) /\ new.at = "writing" /\ new.path = worker[w].path
  <2> HIDE DEF body
  <2>1. /\ new \in Request /\ new.at = "writing" /\ new.path = worker[w].path
        /\ new.time = 0 /\ new.body = body
    BY <1>2, <1>4 DEF Request
  <2> HIDE DEF new
  <2> QED BY <1>4, <2>1 DEF Serves
<1>6. \A v \in Workers : worker'[v] = (IF v = w THEN new ELSE worker[v])
  <2> HIDE DEF new
  <2> QED BY <1>3 DEF ServerInv
<1>7. Writers = {} /\ lock' = {w} /\ UNCHANGED last_update
  BY DEF Renders, ServerInv
<1>8. Writers' = {w}
  <2> HIDE DEF new
  <2>1. \A v \in Workers : v # w => ~(worker[v].at = "writing" /\ worker[v].path \in Dynamic)
    BY <1>7 DEF Writers
  <2> QED BY <1>2, <1>5, <1>6, <2>1 DEF Writers
<1>9. \A v \in Workers : Serves(worker'[v], last_update')
  <2> HIDE DEF new
  <2> QED BY <1>5, <1>6, <1>7 DEF ServerInv
<1>10. DOMAIN worker' = Workers /\ worker' = [v \in Workers |-> worker'[v]]
  <2> HIDE DEF new
  <2> QED BY <1>3 DEF ServerInv
<1> QED BY <1>7, <1>8, <1>9, <1>10 DEF ServerInv

-----------------------------------------------------------------------------
(* The page.                                                               *)

\* The badge is never LIVE over a page whose own clock says otherwise.
LEMMA LiveShown ==
    ASSUME NEW page, NEW failed, BadgeOf(page, failed) = "LIVE"
    PROVE  /\ BadgeOf(page, FALSE) = "LIVE"
           /\ ~page.budget /\ page.base # <<>> /\ ~(ShownAge(page) >= StaleAfter)
BY DEF BadgeOf

\* A fresh snapshot is younger than any page.
LEMMA ShownFresh ==
    ASSUME NEW page, NEW age, ShownHonest(page, age)
    PROVE  ShownHonest(page, <<0>>)
<1>1. ASSUME page.base # <<>>
      PROVE  ShownAge(page) + MaxTransfer \in Nat
  BY <1>1, AgeIs, Limits DEF ShownHonest, Page, ShownAge
<1> QED BY <1>1, Limits DEF ShownHonest, Younger

\* While the page is not stale its clock keeps up with the age of the snapshot.
LEMMA ShownLater ==
    ASSUME NEW page, NEW age \in Ages(MaxAge), ShownHonest(page, age)
    PROVE  ShownHonest([page EXCEPT !.elapsed = IF @ < StaleAfter THEN @ + 1 ELSE @], Aged(age))
<1> DEFINE later == [page EXCEPT !.elapsed = IF @ < StaleAfter THEN @ + 1 ELSE @]
<1>1. /\ page \in Page /\ later \in Page /\ later.base = page.base /\ later.budget = page.budget
      /\ later.elapsed = IF page.elapsed < StaleAfter THEN page.elapsed + 1 ELSE page.elapsed
  BY Limits DEF ShownHonest, Page
<1> HIDE DEF later
<1>2. ASSUME later.base # <<>>, ShownAge(later) < StaleAfter
      PROVE  Younger(Aged(age), ShownAge(later) + MaxTransfer)
  <2>1. page.base # <<>> /\ page.base[1] \in Nat /\ page.elapsed \in Nat
    BY <1>1, <1>2, AgeIs, Limits DEF Page
  <2>2. ShownAge(later) = ShownAge(page) + 1 /\ ShownAge(page) < StaleAfter
    BY <1>1, <1>2, <2>1, Limits DEF ShownAge
  <2>3. age # <<>> /\ age[1] <= ShownAge(page) + MaxTransfer
    BY <2>1, <2>2 DEF ShownHonest, Younger
  <2>4. Aged(age) # <<>> /\ Aged(age)[1] \in {age[1], age[1] + 1} /\ age[1] \in Nat
    BY <2>3, AgedAge, AgeIs, Limits
  <2>5. ShownAge(page) \in Nat
    BY <2>1 DEF ShownAge
  <2> QED BY <2>2, <2>3, <2>4, <2>5, Limits DEF Younger
<1>3. ShownHonest(later, Aged(age))
  BY <1>1, <1>2 DEF ShownHonest
<1> QED BY <1>3 DEF later

\* The page a response brings is as old as its body says, and its time on the wire.
LEMMA ShownReceived ==
    ASSUME StateInv, ServerInv, NEW w \in Workers,
           worker[w].at = "writing", worker[w].client = "browser"
    PROVE  ShownHonest([base |-> worker[w].body.age, elapsed |-> 0,
                        budget |-> worker[w].body.budget], last_update)
<1> DEFINE r == worker[w]
           page == [base |-> r.body.age, elapsed |-> 0, budget |-> r.body.budget]
<1>1. /\ r.body \in Body /\ r.time \in 0..MaxTransfer
      /\ Consistent(r.path, r.body) /\ AgeHonest(r.body.age, r.time, last_update)
  BY DEF ServerInv, Serves, Idle, Request
<1> HIDE DEF r
<1>2. page \in Page /\ (page.budget => page.base = <<>>)
  BY <1>1, Limits DEF Page, Body, Consistent
<1>3. ASSUME page.base # <<>>, ShownAge(page) < StaleAfter
      PROVE  Younger(last_update, ShownAge(page) + MaxTransfer)
  <2>1. r.body.age[1] \in Nat /\ ShownAge(page) = r.body.age[1]
    BY <1>1, <1>3, AgeIs, Limits DEF Body, ShownAge
  <2>2. last_update # <<>> /\ last_update[1] <= r.body.age[1] + r.time
    BY <1>1, <1>3, <2>1 DEF AgeHonest, Younger
  <2>3. last_update[1] \in Nat
    <3>1. last_update \in Ages(MaxAge) /\ MaxAge \in Nat
      BY Limits DEF StateInv
    <3> QED BY <2>2, <3>1, AgeIs
  <2> QED BY <1>1, <2>1, <2>2, <2>3, Limits DEF Younger
<1>4. ShownHonest(page, last_update)
  <2> HIDE DEF page
  <2> QED BY <1>2, <1>3 DEF ShownHonest
<1> QED BY <1>4 DEF r

-----------------------------------------------------------------------------
(* The invariant.                                                          *)

\* At the start there is no request, and the page says NO DATA.
LEMMA InitInv == Init => DashboardIInv
<1> SUFFICES ASSUME Init PROVE DashboardIInv
  OBVIOUS
<1>1. StateInv
  BY DEF Init, StateInv, Ages
<1>2. ServerInv
  <2>1. \A w \in Workers : worker[w] = Idle
    BY DEF Init
  <2>2. Writers = {}
    BY <2>1 DEF Writers, Idle
  <2> QED BY <2>1, <2>2 DEF Init, ServerInv, Serves
<1>3. ShellInv
  <2>1. <<>> \in Ages(StaleAfter) /\ 0 \in 0..StaleAfter
    BY Limits DEF Ages
  <2> QED BY <2>1 DEF Init, ShellInv, ShownHonest, Page
<1> QED BY <1>1, <1>2, <1>3 DEF DashboardIInv

\* What a step does to the server's workers.
LEMMA ServerStep ==
    ASSUME DashboardIInv, [Next]_vars
    PROVE  ServerInv'
<1> USE DEF DashboardIInv
<1>1. CASE UNCHANGED <<last_update, worker, lock>>
  BY <1>1 DEF ServerInv, Writers, Serves
<1>2. CASE \E w \in Workers : Renders(w)
  BY <1>2, RendersInv
<1>3. ASSUME NEW w \in Workers, Answers(w) \/ Refreshed(w) \/ TestAnswered(w)
      PROVE  ServerInv'
  BY <1>3, FreedOne DEF Answers, Refreshed, TestAnswered
<1>4. CASE UpdateSnapshot
  <2>1. \A w \in Workers : Serves(worker[w], <<0>>)
    BY ServesFresh DEF ServerInv
  <2> QED BY <1>4, <2>1 DEF UpdateSnapshot, ServerInv, Writers
<1>5. CASE AcceptFails
  <2>1. worker' = [w \in Workers |-> IF w \in Workers THEN Idle ELSE worker[w]]
    BY <1>5 DEF AcceptFails
  <2>2. lock' = lock \ Workers /\ UNCHANGED last_update
    BY <1>5 DEF AcceptFails, ServerInv, Writers
  <2> QED BY <2>1, <2>2, FreedInv
<1>6. CASE OtherRequest
  BY <1>6, ArrivesInv DEF OtherRequest
<1>7. CASE Refresh \/ SendTest
  <2>1. UNCHANGED <<last_update, lock>>
    BY <1>7 DEF Refresh, SendTest
  <2>2. CASE UNCHANGED worker
    BY <1>1, <2>1, <2>2
  <2>3. CASE \E w \in Workers, path \in {"dashboard-fragment", "test"} : Arrives(w, "browser", path)
    BY <2>1, <2>3, ArrivesInv DEF Dynamic
  <2> QED BY <1>7, <2>2, <2>3 DEF Refresh, SendTest
<1>8. CASE FetchFails
  <2> DEFINE mine == {w \in Workers : worker[w] # Idle /\ worker[w].client = "browser"}
  <2>1. CASE UNCHANGED <<worker, lock>>
    BY <1>1, <1>8, <2>1 DEF FetchFails
  <2>2. CASE /\ worker' = [w \in Workers |-> IF w \in mine THEN Idle ELSE worker[w]]
             /\ lock' = lock \ mine
    <3>1. UNCHANGED last_update
      BY <1>8 DEF FetchFails
    <3> HIDE DEF mine
    <3> QED BY <2>2, <3>1, FreedInv
  <2> QED BY <1>8, <2>1, <2>2 DEF FetchFails
<1>9. CASE Tick
  <2> DEFINE later(r) == IF r.at # "writing" \/ r.client = "other" THEN r
                         ELSE [r EXCEPT !.time = @ + 1]
  <2>1. /\ \A w \in Workers : worker'[w] = later(worker[w])
        /\ DOMAIN worker' = Workers /\ worker' = [w \in Workers |-> worker'[w]]
        /\ last_update' = Aged(last_update) /\ UNCHANGED lock
    BY <1>9 DEF Tick
  <2>2. \A w \in Workers : Serves(worker'[w], last_update')
    <3> TAKE w \in Workers
    <3>1. Serves(later(worker[w]), Aged(last_update))
      BY <1>9, ServesLater DEF Tick, ServerInv, StateInv
    <3> HIDE DEF later
    <3> QED BY <2>1, <3>1
  <2>3. \A w \in Workers : worker'[w].at = worker[w].at /\ worker'[w].path = worker[w].path
    BY <2>1 DEF ServerInv, Serves, Idle, Request
  <2>4. Writers' = Writers
    BY <2>3 DEF Writers
  <2> HIDE DEF later
  <2> QED BY <2>1, <2>2, <2>4 DEF ServerInv
<1>10. CASE UpdateManifest \/ Binds \/ FeedbackEnds \/ VisibilityChange \/ UNCHANGED vars
  BY <1>1, <1>10 DEF UpdateManifest, Binds, FeedbackEnds, VisibilityChange, vars, serverVars
<1> QED BY <1>2, <1>3, <1>4, <1>5, <1>6, <1>7, <1>8, <1>9, <1>10 DEF Next, Handles

\* What a step does to the page.
LEMMA ShellStep ==
    ASSUME DashboardIInv, [Next]_vars
    PROVE  ShellInv'
<1> USE DEF DashboardIInv
<1>1. CASE UNCHANGED <<last_update, shell, badge, hidden>>
  BY <1>1 DEF ShellInv
<1>2. CASE \E w \in Workers : Renders(w) \/ Answers(w) \/ TestAnswered(w)
  BY <1>1, <1>2 DEF Renders, Answers, TestAnswered, browserVars
<1>3. CASE UpdateManifest \/ Binds \/ AcceptFails \/ OtherRequest \/ Refresh \/ SendTest
           \/ FeedbackEnds \/ UNCHANGED vars
  BY <1>1, <1>3 DEF UpdateManifest, Binds, AcceptFails, OtherRequest, Refresh, SendTest,
                    FeedbackEnds, vars, serverVars, browserVars
<1>4. CASE UpdateSnapshot
  <2>1. ShownHonest(shell, <<0>>)
    BY ShownFresh DEF ShellInv
  <2> QED BY <1>4, <2>1 DEF UpdateSnapshot, browserVars, ShellInv
<1>5. ASSUME NEW w \in Workers, Refreshed(w)
      PROVE  ShellInv'
  <2>1. ShownHonest(shell', last_update')
    BY <1>5, ShownReceived DEF Refreshed
  <2>2. badge' = BadgeOf(shell', FALSE)
    BY <1>5 DEF Refreshed
  <2> QED BY <2>1, <2>2 DEF ShellInv
<1>6. CASE FetchFails \/ VisibilityChange
  <2>1. UNCHANGED <<last_update, shell>>
    BY <1>6 DEF FetchFails, VisibilityChange, serverVars
  <2>2. badge' = BadgeOf(shell, refreshFailed')
    BY <1>6 DEF FetchFails, VisibilityChange
  <2> QED BY <2>1, <2>2, LiveShown DEF ShellInv
<1>7. CASE Tick
  <2>1. last_update' = Aged(last_update) /\ UNCHANGED <<hidden, refreshFailed>>
    BY <1>7 DEF Tick
  <2>2. ShownHonest(shell', last_update')
    BY <1>7, <2>1, ShownLater DEF Tick, ShellInv, StateInv
  <2>3. ~hidden => badge' = BadgeOf(shell', refreshFailed)
    BY <1>7 DEF Tick
  <2>4. badge' = "LIVE" /\ ~hidden => BadgeOf(shell', FALSE) = "LIVE"
    BY <2>3, LiveShown
  <2> QED BY <2>1, <2>2, <2>4 DEF ShellInv
<1> QED BY <1>2, <1>3, <1>4, <1>5, <1>6, <1>7 DEF Next, Handles

\* What a step does to the rest.
LEMMA StateStep ==
    ASSUME DashboardIInv, [Next]_vars
    PROVE  StateInv'
<1> USE DEF DashboardIInv, StateInv
<1>1. last_update' \in Ages(MaxAge)
  <2>1. <<0>> \in Ages(MaxAge)
    BY FreshAge
  <2>2. Aged(last_update) \in Ages(MaxAge)
    BY AgedAge
  <2>3. last_update' \in {last_update, <<0>>, Aged(last_update)}
    BY DEF Next, Handles, Renders, Answers, Refreshed, TestAnswered, UpdateSnapshot, UpdateManifest,
           Binds, AcceptFails, OtherRequest, Refresh, SendTest, FetchFails, FeedbackEnds,
           VisibilityChange, Tick, vars, serverVars
  <2> QED BY <2>1, <2>2, <2>3
<1>2. /\ oversize' \in BOOLEAN /\ manifest' \in [enabled : BOOLEAN, port : Ports]
      /\ bound' \in Ports \cup {0}
  BY DashboardAssumption
     DEF Next, Handles, Renders, Answers, Refreshed, TestAnswered, UpdateSnapshot, UpdateManifest,
         Binds, AcceptFails, OtherRequest, Refresh, SendTest, FetchFails, FeedbackEnds,
         VisibilityChange, Tick, vars, serverVars
<1>3. /\ busy' \in {"no", "refresh", "test", "feedback"}
      /\ refreshFailed' \in BOOLEAN /\ hidden' \in BOOLEAN
  BY DEF Next, Handles, Renders, Answers, Refreshed, TestAnswered, UpdateSnapshot, UpdateManifest,
         Binds, AcceptFails, OtherRequest, Refresh, SendTest, FetchFails, FeedbackEnds,
         VisibilityChange, Tick, vars, browserVars
<1>4. badge' \in {"", "NO DATA", "STALE", "RETRYING", "LIVE"}
  BY DEF Next, Handles, Renders, Answers, Refreshed, TestAnswered, UpdateSnapshot, UpdateManifest,
         Binds, AcceptFails, OtherRequest, Refresh, SendTest, FetchFails, FeedbackEnds,
         VisibilityChange, Tick, BadgeOf, vars, browserVars
<1> QED BY <1>1, <1>2, <1>3, <1>4

\* The invariant implies the safety properties of the server and of the page.
LEMMA InvImplies == DashboardIInv => DashboardInv
<1> SUFFICES ASSUME DashboardIInv PROVE DashboardInv
  OBVIOUS
<1> USE DEF DashboardIInv
<1>1. TypeOK
  <2>1. \A w \in Workers : worker[w].at \in {"idle", "locking", "writing"}
    BY DEF ServerInv, Serves, Idle, Request
  <2>2. lock \subseteq Workers
    BY DEF ServerInv, Writers
  <2>3. /\ shell.base \in Ages(StaleAfter) /\ shell.elapsed \in 0..StaleAfter
        /\ shell.budget => shell.base = <<>>
    BY DEF ShellInv, ShownHonest, Page
  <2> QED BY <2>1, <2>2, <2>3 DEF TypeOK, StateInv, Ages
<1>2. LiveMeansRecent
  <2> SUFFICES ASSUME badge = "LIVE", ~hidden
               PROVE  last_update # <<>> /\ last_update[1] <= StaleAfter + MaxTransfer
    BY DEF LiveMeansRecent
  <2>1. BadgeOf(shell, FALSE) = "LIVE"
    BY DEF ShellInv
  <2>2. shell.base # <<>> /\ ~(ShownAge(shell) >= StaleAfter)
    BY <2>1, LiveShown
  <2>3. ShownAge(shell) \in Nat
    BY <2>2, AgeIs, Limits DEF ShellInv, ShownHonest, Page, ShownAge
  <2>4. last_update # <<>> /\ last_update[1] <= ShownAge(shell) + MaxTransfer
    BY <2>2, <2>3, Limits DEF ShellInv, ShownHonest, Younger
  <2>5. last_update[1] \in Nat
    BY <2>4, AgeIs, Limits DEF StateInv
  <2> QED BY <2>2, <2>3, <2>4, <2>5, Limits
<1>3. IncidentsMatchAge
  BY DEF IncidentsMatchAge, ServerInv, Serves, Idle, Consistent
<1>4. OneDynamicBody
  <2>1. CASE Writers = {}
    BY <2>1, FS_EmptySet DEF OneDynamicBody, Writers
  <2>2. CASE Writers # {}
    <3>1. PICK w \in Writers : TRUE
      BY <2>2
    <3>2. Writers = {w}
      BY <3>1 DEF ServerInv
    <3>3. Cardinality(Writers) = 1
      BY <3>2, FS_Singleton
    <3> QED BY <3>3 DEF OneDynamicBody, Writers
  <2> QED BY <2>1, <2>2
<1> QED BY <1>1, <1>2, <1>3, <1>4 DEF DashboardInv

\* Whatever the workers, the snapshots, the faults and the time a response takes: a
\* page says LIVE only over recent data, what a body lists agrees with the age it gives,
\* and one dashboard body exists at a time.
THEOREM DashboardSafe == Spec => []DashboardInv
<1>1. DashboardIInv /\ [Next]_vars => DashboardIInv'
  BY StateStep, ServerStep, ShellStep DEF DashboardIInv
<1> QED BY InitInv, <1>1, InvImplies, PTL DEF Spec

=============================================================================
