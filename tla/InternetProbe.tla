--------------------------- MODULE InternetProbe ----------------------------
(***************************************************************************)
(* The daemon's internet probe: ProbeState, shared by the collector thread *)
(* (prepare_probe, on every snapshot) and the thread of the ping that is   *)
(* under way (record_result), while the link goes up and down.             *)
(*                                                                         *)
(* next_probe is kept as the ticks left until it is due; last_success, of  *)
(* which only the age is displayed, is left out; generation, a wrapping    *)
(* u32, is a natural number.  A link period is the time between two link   *)
(* changes the collector observes.                                         *)
(***************************************************************************)
EXTENDS Naturals

CONSTANTS Interval, SettleDelay, RetryDelay,   \* in ticks
          FailuresBeforeFailed,
          MaxCount,     \* largest value of the failure counter, a u8
          MaxChanges    \* bound on link changes

ASSUME ProbeAssumption ==
    /\ Interval \in Nat /\ SettleDelay \in Nat /\ RetryDelay \in Nat
    /\ MaxCount \in Nat /\ FailuresBeforeFailed \in 1..MaxCount
    /\ MaxChanges \in Nat

VARIABLES link,                   \* "up" or "down", as read_network finds it
          last_link_up,           \* the link at the last snapshot, or "none"
          status,                 \* InternetStatus
          consecutive_failures,
          next_probe,             \* ticks until the next probe is due
          in_flight,
          generation,
          link_up_grace_retry,
          probe,                  \* generation the running ping was started with
          changes,                \* link changes still to come
          age,                    \* ghost: ticks in this link period, up to SettleDelay
          failed, succeeded       \* ghost: this period's probes, failures in a row and any success

stateVars == <<last_link_up, status, consecutive_failures, next_probe, in_flight, generation,
               link_up_grace_retry>>
ghostVars == <<age, failed, succeeded>>
vars == <<link, stateVars, probe, changes, ghostVars>>

Status == {"Checking", "Reachable", "Missed", "Failed"}

TypeOK ==
    /\ link \in {"up", "down"}
    /\ last_link_up \in {"none", "up", "down"}
    /\ status \in Status
    /\ consecutive_failures \in 0..MaxCount
    /\ next_probe \in Nat
    /\ in_flight \in BOOLEAN
    /\ generation \in Nat
    /\ link_up_grace_retry \in BOOLEAN
    /\ probe \in Nat
    /\ changes \in Nat
    /\ age \in Nat
    /\ failed \in Nat
    /\ succeeded \in BOOLEAN

Init ==
    /\ link \in {"up", "down"}
    /\ last_link_up = "none"
    /\ status = "Checking"
    /\ consecutive_failures = 0
    /\ next_probe = 0
    /\ in_flight = FALSE
    /\ generation = 0
    /\ link_up_grace_retry = FALSE
    /\ probe = 0
    /\ changes = MaxChanges
    /\ age = 0
    /\ failed = 0
    /\ succeeded = FALSE

-----------------------------------------------------------------------------
(* The environment.                                                        *)

Tick ==
    /\ next_probe' = IF next_probe = 0 THEN 0 ELSE next_probe - 1
    /\ age' = IF age < SettleDelay THEN age + 1 ELSE age
    /\ UNCHANGED <<link, last_link_up, status, consecutive_failures, in_flight, generation,
                   link_up_grace_retry, probe, changes, failed, succeeded>>

LinkChanges ==
    /\ changes > 0
    /\ changes' = changes - 1
    /\ link' = IF link = "up" THEN "down" ELSE "up"
    /\ UNCHANGED <<stateVars, probe, ghostVars>>

-----------------------------------------------------------------------------
(* ConnectivityProbe::snapshot by the collector thread.                    *)

\* The ping thread is started with the generation it belongs to.
Launch(due, current) ==
    IF ~in_flight /\ due = 0
    THEN in_flight' = TRUE /\ next_probe' = Interval /\ probe' = current
    ELSE next_probe' = due /\ UNCHANGED <<in_flight, probe>>

\* prepare_probe on a link that is as it was.
SnapshotSameLink ==
    /\ last_link_up = link
    /\ Launch(next_probe, generation)
    /\ UNCHANGED <<link, last_link_up, status, consecutive_failures, generation,
                   link_up_grace_retry, changes, ghostVars>>

\* prepare_probe on a link that has changed: a new generation, which a running
\* ping does not belong to.
SnapshotNewLink ==
    /\ last_link_up # link
    /\ last_link_up' = link
    /\ status' = "Checking"
    /\ consecutive_failures' = 0
    /\ generation' = generation + 1
    /\ link_up_grace_retry' = (link = "up")
    /\ Launch(IF link = "up" THEN SettleDelay ELSE 0, generation + 1)
    /\ age' = 0 /\ failed' = 0 /\ succeeded' = FALSE
    /\ UNCHANGED <<link, changes>>

-----------------------------------------------------------------------------
(* record_result by the thread of the ping, or by the collector when that  *)
(* thread cannot be started.                                               *)

\* Mutant: a result is recorded whatever link it was obtained on.
AnyProbe == TRUE

CurrentProbe == generation = probe

\* Mutant: the counter wraps around.
CountWrapping == (consecutive_failures + 1) % (MaxCount + 1)

\* saturating_add
CountFailure == IF consecutive_failures < MaxCount THEN consecutive_failures + 1 ELSE MaxCount

\* Mutant: off by one.
FailedStatusEarly(count) == IF count + 1 < FailuresBeforeFailed THEN "Missed" ELSE "Failed"

FailedStatus(count) == IF count < FailuresBeforeFailed THEN "Missed" ELSE "Failed"

\* Mutant: a stale result returns before in_flight is cleared.
StaleKeepsInFlight == in_flight /\ ~CurrentProbe /\ UNCHANGED vars

\* The result of a ping that an earlier link period started is dropped.
StaleResult ==
    /\ in_flight /\ ~CurrentProbe
    /\ in_flight' = FALSE
    /\ UNCHANGED <<link, last_link_up, status, consecutive_failures, next_probe, generation,
                   link_up_grace_retry, probe, changes, ghostVars>>

Reached ==
    /\ in_flight /\ CurrentProbe
    /\ in_flight' = FALSE
    /\ status' = "Reachable"
    /\ consecutive_failures' = 0
    /\ link_up_grace_retry' = FALSE
    /\ succeeded' = TRUE /\ failed' = 0
    /\ UNCHANGED <<link, last_link_up, next_probe, generation, probe, changes, age>>

\* Ghost: how many probes of this period have failed in a row.
CountFailed == IF failed <= MaxCount THEN failed + 1 ELSE failed

\* The first failure after the link came up is retried soon and not counted.
GraceFailure ==
    /\ in_flight /\ CurrentProbe /\ link_up_grace_retry
    /\ in_flight' = FALSE
    /\ status' = "Checking"
    /\ link_up_grace_retry' = FALSE
    /\ next_probe' = RetryDelay
    /\ failed' = CountFailed
    /\ UNCHANGED <<link, last_link_up, consecutive_failures, generation, probe, changes, age,
                   succeeded>>

CountedFailure ==
    /\ in_flight /\ CurrentProbe /\ ~link_up_grace_retry
    /\ in_flight' = FALSE
    /\ consecutive_failures' = CountFailure
    /\ status' = FailedStatus(CountFailure)
    /\ failed' = CountFailed
    /\ UNCHANGED <<link, last_link_up, next_probe, generation, link_up_grace_retry, probe,
                   changes, age, succeeded>>

Snapshot == SnapshotSameLink \/ SnapshotNewLink

RecordResult == StaleResult \/ Reached \/ GraceFailure \/ CountedFailure

Next == Tick \/ LinkChanges \/ Snapshot \/ RecordResult

Spec == Init /\ [][Next]_vars

-----------------------------------------------------------------------------
(* Safety.                                                                 *)

\* The failure that is not counted: the first after the link came up, unless a
\* probe got through before it.
Uncounted == IF last_link_up = "up" /\ ~succeeded THEN 1 ELSE 0

\* configuration.md: the first failure after a link came up is retried, and
\* failures_before_failed consecutive misses are reported as failed.  The internet
\* is reported as failed only after that many probes of the present link period
\* failed in a row, one more if none has succeeded since the link came up.
FailedForAReason == status = "Failed" => failed >= FailuresBeforeFailed + Uncounted

\* Only a probe that got through, or a link change, ends a reported failure,
\* however long it lasts.
FailedUntilReached ==
    [][status = "Failed" /\ status' # "Failed" => status' = "Reachable" \/ generation' # generation]_vars

\* "After a link comes up, link_up_settle_delay allows the route to become
\* usable": no ping is started earlier, whatever result of a ping from before the
\* link change comes in meanwhile.
LinkSettled ==
    [][~in_flight /\ in_flight' /\ last_link_up' = "up" => age' >= SettleDelay]_vars

\* The counter never exceeds the failures of this period that count.
FailuresCounted ==
    /\ failed <= MaxCount + 1
    /\ link_up_grace_retry => /\ last_link_up = "up" /\ ~succeeded
                              /\ failed = 0 /\ consecutive_failures = 0
                              /\ status = "Checking"
    /\ consecutive_failures > 0 => failed >= consecutive_failures + Uncounted
    /\ last_link_up = "up" /\ ~succeeded /\ ~link_up_grace_retry => failed >= 1
    /\ status = "Failed" => consecutive_failures >= FailuresBeforeFailed

\* While the route may still be unusable no probe is due, and a running ping is of
\* an earlier period.
NotDueYet ==
    /\ probe <= generation
    /\ last_link_up = "none" => ~in_flight
    /\ last_link_up = "up" => next_probe + age >= SettleDelay \/ age >= SettleDelay
    /\ last_link_up = "up" /\ in_flight /\ probe = generation => age >= SettleDelay

\* The inductive invariant behind the three.
ProbeInv == TypeOK /\ FailuresCounted /\ NotDueYet

-----------------------------------------------------------------------------
(* Liveness.                                                               *)

\* Time passes, the collector thread keeps taking snapshots, and every ping ends
\* (ping_target kills it at its deadline).
FairSpec == Spec /\ WF_vars(Tick) /\ WF_vars(Snapshot) /\ WF_vars(RecordResult)

\* Link changes being bounded, the probe arrives at a verdict and keeps giving one:
\* it is not left waiting for a dropped result or an expired retry.
VerdictReached == <>[](status # "Checking")

=============================================================================
