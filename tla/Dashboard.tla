----------------------------- MODULE Dashboard ------------------------------
(***************************************************************************)
(* The dashboard: the stick's web server with its workers and the lock     *)
(* that admits one dashboard body at a time (firmware/src/network.rs), and *)
(* a browser that shows the page and refreshes it (dashboard.js).          *)
(*                                                                         *)
(* Time is in ticks of five seconds, the browser's refresh interval.  Of a *)
(* response only what the browser looks at is kept.  Values of a snapshot  *)
(* are the subject of WebViews, topics of Persistence, the test message of *)
(* Notifications.  edge_http and the network are external: a write that    *)
(* makes no progress fails after HTTP_IO_TIMEOUT, and any connection may   *)
(* break.                                                                  *)
(***************************************************************************)
EXTENDS Naturals, Sequences, FiniteSets

CONSTANTS Workers,       \* HTTP_WORKERS
          StaleAfter,    \* HOST_STALE_AFTER, in ticks
          MaxTransfer,   \* bound on the ticks a response takes to be written
          Ports,         \* ports a manifest may name
          Oversize,      \* whether a snapshot may, must or must not exceed the body's capacity
          MaxFaults,     \* budget of broken connections
          MaxOthers      \* budget of requests of other clients

ASSUME DashboardAssumption ==
    /\ IsFiniteSet(Workers) /\ StaleAfter \in Nat \ {0} /\ MaxTransfer \in Nat \ {0}
    /\ 0 \notin Ports /\ Oversize \subseteq BOOLEAN /\ MaxFaults \in Nat /\ MaxOthers \in Nat

VARIABLES last_update,    \* age of the snapshot of STATE, as an Option
          oversize,       \* its dashboard exceeds DASHBOARD_BODY_CAPACITY
          manifest,       \* http part of STATE.manifest: [enabled, port]
          bound,          \* port the server listens on, 0 without one
          worker,         \* for each worker, its request
          lock,           \* DASHBOARD_RESPONSE: the workers that hold it
          shell,          \* the page in the browser
          busy,           \* dashboardBusy, and for what: "no", "refresh", "test" or "feedback"
          refreshFailed, hidden, badge,
          faults, others

serverVars == <<last_update, oversize, manifest, bound, worker, lock>>
browserVars == <<shell, busy, refreshFailed, hidden, badge>>
vars == <<serverVars, browserVars, faults, others>>

\* Ages are counted as far as they make a difference, in the browser up to StaleAfter.
MaxAge == StaleAfter + MaxTransfer + 1

Capped(age) == IF age # <<>> /\ age[1] > StaleAfter THEN <<StaleAfter>> ELSE age

Aged(age) == IF age = <<>> \/ age = <<MaxAge>> THEN age ELSE <<age[1] + 1>>

Old(age) == age = <<>> \/ age[1] >= StaleAfter

Dynamic == {"/", "dashboard-fragment"}

Idle == [at |-> "idle"]

TypeOK ==
    /\ last_update \in {<<>>} \cup {<<n>> : n \in 0..MaxAge}
    /\ oversize \in BOOLEAN
    /\ manifest \in [enabled : BOOLEAN, port : Ports] /\ bound \in Ports \cup {0}
    /\ \A w \in Workers : worker[w].at \in {"idle", "locking", "writing"}
    /\ lock \subseteq Workers
    /\ shell.base \in {<<>>} \cup {<<n>> : n \in 0..StaleAfter} /\ shell.elapsed \in 0..StaleAfter
    /\ shell.budget => shell.base = <<>>     \* the replacement has no data-snapshot-age
    /\ busy \in {"no", "refresh", "test", "feedback"}
    /\ refreshFailed \in BOOLEAN /\ hidden \in BOOLEAN
    /\ badge \in {"", "NO DATA", "STALE", "RETRYING", "LIVE"}

-----------------------------------------------------------------------------
(* The server.                                                             *)

\* Mutant: the age is taken before the incidents.
MarkupAges(earlier, later) == <<later, earlier>>

\* dashboard_markup reads the clock twice: for active_incidents, then for the badge.
MarkupClock(earlier, later) == <<earlier, later>>

\* Mutant: the replacement keeps the attributes of the page that did not fit.
FinishKeepsAge(age) == age

\* finish replaces a page that does not fit by one without attributes.
FinishAge(age) == IF oversize THEN <<>> ELSE age

\* A fragment or document.
dashboard_markup(earlier, later) ==
    LET clock == MarkupClock(earlier, later)
    IN  [age |-> FinishAge(Capped(clock[2])),
         stale |-> Old(clock[2]), incident |-> Old(clock[1]), budget |-> oversize]

\* health_json: the flag, then the incidents.
health_json(earlier, later) ==
    [age |-> <<>>, stale |-> Old(earlier), incident |-> Old(later), budget |-> FALSE]

\* Mutant: only the whole page takes the lock.
LocksPage(path) == path = "/"

Locks(path) == path \in Dynamic

\* The clock between two readings: the second may see the next tick.
Readings == {<<last_update, last_update>>, <<last_update, Aged(last_update)>>}

\* device, dashboard.css, dashboard.js, healthz, the answers to POST and 405.
Static == [age |-> <<>>, stale |-> FALSE, incident |-> FALSE, budget |-> FALSE]

\* A connection is accepted while a worker is free.  A body that needs no lock is
\* made at once.
Arrives(w, client, path) ==
    /\ bound # 0 /\ worker[w] = Idle
    /\ \E r \in Readings :
          worker' = [worker EXCEPT ![w] =
            [at |-> IF Locks(path) THEN "locking" ELSE "writing", client |-> client, path |-> path,
             time |-> 0, body |-> IF path = "health" THEN health_json(r[1], r[2])
                                  ELSE IF path \in Dynamic /\ ~Locks(path) THEN dashboard_markup(r[1], r[2])
                                  ELSE Static]]

\* With the lock, STATE is copied, the body is made of the copy, and written.
Renders(w) ==
    /\ worker[w].at = "locking" /\ lock = {}
    /\ lock' = {w}
    /\ \E r \in Readings :
          worker' = [worker EXCEPT ![w].at = "writing", ![w].body = dashboard_markup(r[1], r[2])]
    /\ UNCHANGED <<last_update, oversize, manifest, bound, browserVars, faults, others>>

\* Mutant: an early return keeps the lock.
KeepsLock(w) == lock

\* The guard is dropped when the handler returns, also on an error.
Unlocks(w) == lock \ {w}

Freed(w) ==
    /\ lock' = Unlocks(w)
    /\ worker' = [worker EXCEPT ![w] = Idle]

\* The answer to another client is written, or its connection fails.
Answers(w) ==
    /\ worker[w].at = "writing" /\ worker[w].client = "other"
    /\ Freed(w)
    /\ UNCHANGED <<last_update, oversize, manifest, bound, browserVars, faults, others>>

-----------------------------------------------------------------------------
(* What the web server is about.                                           *)

UpdateSnapshot ==
    /\ last_update' = <<0>> /\ oversize' \in Oversize
    /\ UNCHANGED <<manifest, bound, worker, lock, browserVars, faults, others>>

UpdateManifest ==
    /\ manifest' \in [enabled : BOOLEAN, port : Ports]
    /\ UNCHANGED <<last_update, oversize, bound, worker, lock, browserVars, faults, others>>

\* http_server: bind to the port of the manifest, then run until accepting fails.
Binds ==
    /\ bound = 0 /\ manifest.enabled
    /\ bound' = manifest.port
    /\ UNCHANGED <<last_update, oversize, manifest, worker, lock, browserVars, faults, others>>

\* run ends and drops its handlers.
AcceptFails ==
    /\ bound # 0 /\ faults > 0 /\ faults' = faults - 1
    /\ bound' = 0 /\ lock' = {} /\ worker' = [w \in Workers |-> Idle]
    /\ refreshFailed' = (refreshFailed \/ busy = "refresh")
    /\ busy' = IF busy = "refresh" THEN "no" ELSE IF busy = "test" THEN "feedback" ELSE busy
    /\ UNCHANGED <<last_update, oversize, manifest, shell, hidden, badge, others>>

OtherRequest ==
    /\ others > 0 /\ others' = others - 1
    /\ \E w \in Workers, path \in Dynamic \cup {"health", "static"} : Arrives(w, "other", path)
    /\ UNCHANGED <<last_update, oversize, manifest, bound, lock, browserVars, faults>>

-----------------------------------------------------------------------------
(* The browser.                                                            *)

\* Mutant: the time since the page was received is not added.
ShownAgeReceived(page) == page.base[1]

ShownAge(page) == page.base[1] + page.elapsed

\* updateSnapshotAge; the replacement of an oversized page has no badge.
BadgeOf(page, failed) ==
    IF page.budget THEN ""
    ELSE IF page.base = <<>> THEN "NO DATA"
    ELSE IF ShownAge(page) >= StaleAfter THEN "STALE"
    ELSE IF failed THEN "RETRYING" ELSE "LIVE"

\* refreshDashboard, by the interval.
Refresh ==
    /\ busy = "no" /\ ~hidden
    /\ busy' = "refresh"
    /\ IF \E w \in Workers : bound # 0 /\ worker[w] = Idle
       THEN \E w \in Workers : Arrives(w, "browser", "dashboard-fragment")
       ELSE UNCHANGED worker
    /\ UNCHANGED <<last_update, oversize, manifest, bound, lock, shell, refreshFailed, hidden, badge,
                   faults, others>>

SendTest ==
    /\ busy = "no" /\ ~hidden
    /\ busy' = "test"
    /\ IF \E w \in Workers : bound # 0 /\ worker[w] = Idle
       THEN \E w \in Workers : Arrives(w, "browser", "test")
       ELSE UNCHANGED worker
    /\ UNCHANGED <<last_update, oversize, manifest, bound, lock, shell, refreshFailed, hidden, badge,
                   faults, others>>

\* The fragment is there: it replaces the page and starts its clock.
Refreshed(w) ==
    /\ worker[w].at = "writing" /\ worker[w].client = "browser"
    /\ busy = "refresh"
    /\ LET body == worker[w].body
           page == [base |-> body.age, elapsed |-> 0, budget |-> body.budget]
       IN  shell' = page /\ badge' = BadgeOf(page, FALSE)
    /\ busy' = "no" /\ refreshFailed' = FALSE
    /\ Freed(w)
    /\ UNCHANGED <<last_update, oversize, manifest, bound, hidden, faults, others>>

\* The answer to the test, or none: both are shown for two seconds.
TestAnswered(w) ==
    /\ worker[w].at = "writing" /\ worker[w].client = "browser"
    /\ busy = "test"
    /\ busy' = "feedback"
    /\ Freed(w)
    /\ UNCHANGED <<last_update, oversize, manifest, bound, shell, refreshFailed, hidden, badge, faults,
                   others>>

FeedbackEnds ==
    /\ busy = "feedback"
    /\ busy' = "no"
    /\ UNCHANGED <<serverVars, shell, refreshFailed, hidden, badge, faults, others>>

\* Mutant: a failure leaves dashboardBusy set.
FailsBusy ==
    /\ busy \in {"refresh", "test"}
    /\ {w \in Workers : worker[w] # Idle /\ worker[w].client = "browser"} = {}
    /\ refreshFailed' = TRUE /\ badge' = BadgeOf(shell, TRUE)
    /\ UNCHANGED <<serverVars, shell, busy, hidden, faults, others>>

\* fetch fails: no worker took the connection, or it broke.
FetchFails ==
    /\ busy \in {"refresh", "test"}
    /\ LET mine == {w \in Workers : worker[w] # Idle /\ worker[w].client = "browser"}
       IN  \/ /\ mine = {} /\ UNCHANGED <<worker, lock, faults>>
           \/ /\ mine # {} /\ faults > 0 /\ faults' = faults - 1
              /\ worker' = [w \in Workers |-> IF w \in mine THEN Idle ELSE worker[w]]
              /\ lock' = lock \ mine
    /\ busy' = IF busy = "refresh" THEN "no" ELSE "feedback"
    /\ refreshFailed' = (refreshFailed \/ busy = "refresh")
    /\ badge' = BadgeOf(shell, refreshFailed')
    /\ UNCHANGED <<last_update, oversize, manifest, bound, shell, hidden, others>>

\* The tab is hidden or shown: updateSnapshotAge, and refreshDashboard by the interval.
VisibilityChange ==
    /\ hidden' = ~hidden
    /\ badge' = BadgeOf(shell, refreshFailed)
    /\ UNCHANGED <<serverVars, shell, busy, refreshFailed, faults, others>>

\* Time passes: for the snapshot, for the responses, and for the page.
Tick ==
    /\ \A w \in Workers : worker[w] # Idle => worker[w].time < MaxTransfer
    /\ last_update' = Aged(last_update)
    /\ worker' = [w \in Workers |-> IF worker[w].at # "writing" \/ worker[w].client = "other"
                                    THEN worker[w] ELSE [worker[w] EXCEPT !.time = @ + 1]]
    /\ shell' = [shell EXCEPT !.elapsed = IF @ < StaleAfter THEN @ + 1 ELSE @]
    /\ badge' = IF hidden THEN badge ELSE BadgeOf(shell', refreshFailed)
    /\ UNCHANGED <<oversize, manifest, bound, lock, busy, refreshFailed, hidden, faults, others>>

-----------------------------------------------------------------------------

\* The page is opened before there is a snapshot.
Init ==
    /\ last_update = <<>> /\ oversize = FALSE
    /\ manifest \in [enabled : {TRUE}, port : Ports] /\ bound = manifest.port
    /\ worker = [w \in Workers |-> Idle] /\ lock = {}
    /\ shell = [base |-> <<>>, elapsed |-> 0, budget |-> FALSE]
    /\ busy = "no" /\ refreshFailed = FALSE /\ hidden = FALSE /\ badge = "NO DATA"
    /\ faults = MaxFaults /\ others = MaxOthers

Handles(w) == Renders(w) \/ Answers(w) \/ Refreshed(w) \/ TestAnswered(w)

Next == \/ \E w \in Workers : Handles(w)
        \/ UpdateSnapshot \/ UpdateManifest \/ Binds \/ AcceptFails \/ OtherRequest
        \/ Refresh \/ SendTest \/ FetchFails \/ FeedbackEnds \/ VisibilityChange \/ Tick

Spec == Init /\ [][Next]_vars

\* The executor polls every handler, an unlock wakes the worker that waits before
\* another request is accepted, timers fire, and a fetch ends.
Fairness ==
    /\ \A w \in Workers : SF_vars(Handles(w))
    /\ WF_vars(Binds) /\ WF_vars(FeedbackEnds) /\ WF_vars(FetchFails)
    /\ SF_vars(Refresh)

FairSpec == Spec /\ Fairness

-----------------------------------------------------------------------------
(* Properties.                                                             *)

\* A page that says LIVE shows a snapshot that was fresh when it was sent: its age
\* exceeds HOST_STALE_AFTER at most by the time the response took, also when later
\* refreshes fail or the host has gone.
LiveMeansRecent ==
    (badge = "LIVE" /\ ~hidden) => last_update # <<>> /\ last_update[1] <= StaleAfter + MaxTransfer

\* A dashboard that lists HOST CONNECTION LOST never carries the badge LIVE, and a
\* health_json that says stale always lists it, although each reads the clock twice.
IncidentsMatchAge ==
    \A w \in Workers : worker[w].at = "writing" =>
        LET body == worker[w].body
        IN  /\ worker[w].path \in Dynamic /\ body.incident => body.stale
            /\ worker[w].path = "health" /\ body.stale => body.incident

\* There is one dashboard body at a time, as the heap budget assumes
\* (DASHBOARD_DYNAMIC_RESPONSES).
OneDynamicBody ==
    Cardinality({w \in Workers : worker[w].at = "writing" /\ worker[w].path \in Dynamic}) <= 1

\* Whatever breaks, each worker gets through its request: the lock is not kept by
\* one whose client has gone, and none waits for ever.
WorkersReturn == \A w \in Workers : []<>(worker[w] = Idle)

\* "Dashboard values update in place every five seconds": after a failed refresh the
\* page gets back to current data, while it is visible and the server runs.
RefreshRecovers == []<>(~refreshFailed \/ hidden \/ bound = 0)

\* configuration.md: "port is the listening TCP port."  A server that is enabled gets
\* to listen on the port of the manifest.
ListensOnPort ==
    \A p \in Ports : (manifest = [enabled |-> TRUE, port |-> p])
        ~> (bound = p \/ manifest # [enabled |-> TRUE, port |-> p])

=============================================================================
