--------------------------- MODULE Notifications ----------------------------
(***************************************************************************)
(* The stick's notification_worker: it compares the incidents of the last  *)
(* snapshot with those of its previous round, queues a message for each    *)
(* difference, and publishes the front of the queue to ntfy, one message   *)
(* per round.                                                              *)
(*                                                                         *)
(* An incident is a rule of the daemon's configuration, numbered in YAML   *)
(* order (the order of the snapshot), or HostOffline, which the stick puts *)
(* in front of them.  A set of active incidents is a function from its     *)
(* identities to their levels.  Time is abstracted: a snapshot may become  *)
(* stale and an armed repeat may become due at any moment.                 *)
(***************************************************************************)
EXTENDS Naturals, Sequences, FiniteSets

CONSTANTS N,            \* number of health rules
          Configs,      \* ntfy parts of the manifests the daemon may send
          QueueCap,     \* MAX_PENDING_NOTIFICATIONS
          MaxFailures   \* bound on failed deliveries

HostOffline == 0
Rules == 1..N
Incidents == 0..N
TestId == N + 1

Levels == {"Warning", "Critical"}

Config == [enabled : BOOLEAN, warning : BOOLEAN, critical : BOOLEAN,
           notify_recovery : BOOLEAN, repeat_critical : BOOLEAN]

ASSUME NotificationAssumption ==
    /\ N \in Nat
    /\ Configs \subseteq Config
    /\ QueueCap \in Nat \ {0}
    /\ MaxFailures \in Nat

\* What active_incidents can return.
Active == UNION {[S -> Levels] : S \in SUBSET Incidents}

\* `says` is the state a message reports; STILL ACTIVE and the start of a
\* critical incident both report Critical.
Message == [id : 0..(N + 1), says : Levels \cup {"Recovered", "Test"}]

VARIABLES snapshot,               \* incidents of STATE.snapshot
          has_snapshot, fresh,    \* there is one; it is younger than HOST_STALE_AFTER
          config,                 \* ntfy part of STATE.manifest
          TEST_NOTIFICATIONS,     \* the channel of capacity one is full
          at,                     \* the worker: "loop" or "publish"
          previous,               \* the incidents of its last round
          pending,
          next_critical_repeat,   \* "unset", "armed" or "due"
          failures,               \* failures still to come
          received,               \* ghost: what the subscriber last heard of each incident
          unannounced             \* ghost: incidents whose newest change is not announced

stateVars == <<snapshot, has_snapshot, fresh, config>>
workerVars == <<at, previous, pending, next_critical_repeat>>
ghostVars == <<received, unannounced>>
vars == <<stateVars, TEST_NOTIFICATIONS, workerVars, failures, ghostVars>>

TypeOK ==
    /\ snapshot \in Active /\ HostOffline \notin DOMAIN snapshot
    /\ has_snapshot \in BOOLEAN /\ fresh \in BOOLEAN
    /\ config \in Configs
    /\ TEST_NOTIFICATIONS \in BOOLEAN
    /\ at \in {"loop", "publish"}
    /\ previous \in Active
    /\ pending \in Seq(Message) /\ Len(pending) <= QueueCap
    /\ next_critical_repeat \in {"unset", "armed", "due"}
    /\ failures \in Nat
    /\ received \in [Incidents -> Levels \cup {"Nothing", "Recovered"}]
    /\ unannounced \subseteq Incidents

None == [i \in {} |-> "Warning"]

Init ==
    /\ snapshot = None
    /\ has_snapshot = FALSE /\ fresh = FALSE
    /\ config \in Configs
    /\ TEST_NOTIFICATIONS = FALSE
    /\ at = "loop"
    /\ previous = None
    /\ pending = <<>>
    /\ next_critical_repeat = "unset"
    /\ failures = MaxFailures
    /\ received = [i \in Incidents |-> "Nothing"]
    /\ unannounced = {}

-----------------------------------------------------------------------------
(* What changes around the worker.                                         *)

UpdateSnapshot ==
    /\ snapshot' \in UNION {[S -> Levels] : S \in SUBSET Rules}
    /\ has_snapshot' = TRUE /\ fresh' = TRUE
    /\ UNCHANGED <<config, TEST_NOTIFICATIONS, workerVars, failures, ghostVars>>

GoStale ==
    /\ fresh
    /\ fresh' = FALSE
    /\ UNCHANGED <<snapshot, has_snapshot, config, TEST_NOTIFICATIONS, workerVars, failures,
                   ghostVars>>

UpdateManifest ==
    /\ config' \in Configs
    /\ UNCHANGED <<snapshot, has_snapshot, fresh, TEST_NOTIFICATIONS, workerVars, failures,
                   ghostVars>>

\* POST /api/v1/notifications/test: a second request while one waits is dropped.
PostTest ==
    /\ TEST_NOTIFICATIONS' = TRUE
    /\ UNCHANGED <<stateVars, workerVars, failures, ghostVars>>

RepeatDue ==
    /\ next_critical_repeat = "armed"
    /\ next_critical_repeat' = "due"
    /\ UNCHANGED <<stateVars, TEST_NOTIFICATIONS, at, previous, pending, failures,
                   ghostVars>>

-----------------------------------------------------------------------------
(* A round of the worker up to the publish.                                *)

\* Mutant: a lost host is reported before it was ever seen.
OfflineWhenNotFresh == ~fresh

OfflineNotified == has_snapshot /\ ~fresh

\* notifiable_incidents
Notifiable ==
    [i \in DOMAIN snapshot \cup (IF OfflineNotified THEN {HostOffline} ELSE {}) |->
        IF i = HostOffline THEN "Critical" ELSE snapshot[i]]

\* A set of incidents in the order of the snapshot: the k-th has k - 1 before it.
Ordered(S) ==
    [k \in 1..Cardinality(S) |-> CHOOSE i \in S : Cardinality({j \in S : j < i}) = k - 1]

Priority(level) == IF level = "Critical" THEN 2 ELSE 1

Selected(c, level) == (level = "Warning" /\ c.warning) \/ (level = "Critical" /\ c.critical)

\* Mutant: an incident known from the last round is never announced again.
StartedOnly(now) == {i \in DOMAIN now : i \notin DOMAIN previous}

\* Incidents that are new or have escalated since the previous round.
Started(now) ==
    {i \in DOMAIN now :
        i \in DOMAIN previous => Priority(previous[i]) < Priority(now[i])}

Criticals(now) == {i \in DOMAIN now : now[i] = "Critical"}

Messages(S, says) ==
    [k \in 1..Cardinality(S) |-> [id |-> Ordered(S)[k], says |-> says[Ordered(S)[k]]]]

TestMessages ==
    IF TEST_NOTIFICATIONS THEN <<[id |-> TestId, says |-> "Test"]>> ELSE <<>>

RepeatArms(now) == config.repeat_critical /\ Criticals(now) # {}

Repeats(now) == RepeatArms(now) /\ next_critical_repeat = "due"

\* Everything one round pushes, in order.
RoundMessages(now) ==
    TestMessages
    \o Messages({i \in Started(now) : Selected(config, now[i])}, now)
    \o (IF Repeats(now) THEN Messages(Criticals(now), now) ELSE <<>>)
    \o (IF config.notify_recovery
        THEN Messages(DOMAIN previous \ DOMAIN now, [i \in DOMAIN previous |-> "Recovered"])
        ELSE <<>>)

\* Mutant: the limit is not checked.
PushAll(queue) == queue

\* Mutant: a full queue refuses the new message.
PushOldest(queue) == IF Len(queue) <= QueueCap THEN queue ELSE SubSeq(queue, 1, QueueCap)

\* push_pending for each message: the oldest ones are discarded.
Push(queue) ==
    IF Len(queue) <= QueueCap THEN queue
    ELSE SubSeq(queue, Len(queue) - QueueCap + 1, Len(queue))

About(queue, i) == {k \in 1..Len(queue) : queue[k].id = i}

\* Ghost: the incidents of which there is news since the previous round.
Changed(now) == Started(now) \cup (DOMAIN previous \ DOMAIN now)

\* `previous` is assigned after the publish, but nothing reads it before.
Evaluate ==
    LET now == Notifiable
        queue == pending \o RoundMessages(now) IN
    /\ at = "loop" /\ config.enabled
    /\ TEST_NOTIFICATIONS' = FALSE
    /\ pending' = Push(queue)
    /\ next_critical_repeat' = IF RepeatArms(now) THEN "armed" ELSE "unset"
    /\ unannounced' =
         {i \in Incidents : About(queue, i) # {} /\ About(pending', i) = {}}
         \cup {i \in unannounced \cup Changed(now) : About(RoundMessages(now), i) = {}}
    /\ previous' = now
    /\ at' = IF pending' = <<>> THEN "loop" ELSE "publish"
    /\ UNCHANGED <<stateVars, failures, received>>

\* With ntfy disabled the round only remembers the incidents.
SkipRound ==
    /\ at = "loop" /\ ~config.enabled
    /\ previous' = Notifiable
    /\ unannounced' = unannounced \cup Changed(Notifiable)
    /\ UNCHANGED <<stateVars, TEST_NOTIFICATIONS, at, pending, next_critical_repeat, failures,
                   received>>

-----------------------------------------------------------------------------
(* publish_notification: an await, during which STATE moves on.            *)

Deliver(m) ==
    received' = IF m.id \in Incidents THEN [received EXCEPT ![m.id] = m.says] ELSE received

Published ==
    /\ at = "publish"
    /\ Deliver(Head(pending))
    /\ pending' = Tail(pending)
    /\ at' = "loop"
    /\ UNCHANGED <<stateVars, TEST_NOTIFICATIONS, previous, next_critical_repeat, failures,
                   unannounced>>

\* The message did not get through, or it did and its response was lost; either
\* way it stays in front.
PublishFails ==
    /\ at = "publish"
    /\ failures > 0 /\ failures' = failures - 1
    /\ Deliver(Head(pending)) \/ UNCHANGED received
    /\ at' = "loop"
    /\ UNCHANGED <<stateVars, TEST_NOTIFICATIONS, previous, pending, next_critical_repeat,
                   unannounced>>

Next ==
    \/ UpdateSnapshot \/ GoStale \/ UpdateManifest \/ PostTest \/ RepeatDue
    \/ Evaluate \/ SkipRound \/ Published \/ PublishFails

Spec == Init /\ [][Next]_vars

-----------------------------------------------------------------------------
(* Safety.                                                                 *)

\* The newest thing the subscriber has heard or will hear of an incident.
Told(i) ==
    LET ks == About(pending, i) IN
    IF ks = {} THEN received[i]
    ELSE pending[CHOOSE k \in ks : \A l \in ks : l <= k].says

\* A subscriber who last heard `says` of incident i knows that it is active, at no
\* lower level than it is, or that it is not.
Knows(says, i, active) ==
    IF i \in DOMAIN active
    THEN says \in Levels /\ Priority(says) >= Priority(active[i])
    ELSE says \in {"Nothing", "Recovered"}

\* network.md: "When the queue is full, the oldest pending item is discarded so
\* newer state is retained."  Once the queue has been sent, the subscriber knows
\* the state of every incident, whatever was repeated, delivered twice or
\* displaced in between.  The only exceptions are an incident whose newest
\* message itself was displaced, and one whose newest change the configuration
\* kept quiet.
NewerStateRetained ==
    \A i \in Incidents \ unannounced : Knows(Told(i), i, previous)

\* A stick that has not had a snapshot since it started says nothing of the host.
SilentBeforeSnapshot ==
    ~has_snapshot => \A k \in 1..Len(pending) : pending[k].id = TestId

\* network.md: a critical notification is sent again when the incident "remains
\* critical for the configured repeat interval".  A round that repeats the
\* critical incidents repeats none that has only just started or escalated.
RepeatsRemaining ==
    [][Evaluate /\ Repeats(Notifiable)
         => Criticals(Notifiable) \cap Started(Notifiable) = {}]_vars

-----------------------------------------------------------------------------
(* Liveness.                                                               *)

\* The worker's loop goes on; deliveries fail finitely often (MaxFailures).
FairSpec ==
    /\ Spec
    /\ WF_vars(Evaluate \/ SkipRound) /\ WF_vars(Published \/ PublishFails)

\* When the incidents settle and are not repeated, the queue drains and the subscriber ends up knowing
\* the state they settled in, whatever the failures and changes before.
SettledStateKnown ==
    \A active \in Active :
        <>[](/\ Notifiable = active /\ ~TEST_NOTIFICATIONS
             /\ config.enabled /\ ~config.repeat_critical)
            => <>[](/\ pending = <<>>
                    /\ \A i \in Incidents \ unannounced : Knows(received[i], i, active))

=============================================================================
