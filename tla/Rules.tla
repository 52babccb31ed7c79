------------------------------- MODULE Rules --------------------------------
(***************************************************************************)
(* The health rules of config.rs: conditions over the measurements of a    *)
(* snapshot, and the report and incidents they give.                       *)
(*                                                                         *)
(* A measurement is a path, such as <<"ups", "status">>; a value has a     *)
(* type beside it, as Metric and serde's Value do.  An Option is a         *)
(* sequence of at most one value.                                          *)
(***************************************************************************)
EXTENDS Naturals, Sequences

Text(value) == [type |-> "text", value |-> value]
Bool(value) == [type |-> "bool", value |-> value]
Number(value) == [type |-> "number", value |-> value]
Missing == [type |-> "missing"]

\* The measurements that MetricSelector knows.
Selectors ==
    { <<"ups", "status">>, <<"ups", "stale">>, <<"smart", "status">>, <<"network", "up">>,
      <<"internet", "status">>, <<"backup", "status">>, <<"backup", "age">>,
      <<"cpu">>, <<"memory">>, <<"io_pressure">> }

FilesystemFields == {"mounted", "used_percent"}

Known(measurement) ==
    \/ measurement \in Selectors
    \/ /\ Len(measurement) = 3 /\ measurement[1] = "filesystem"
       /\ measurement[3] \in FilesystemFields

memory_percent(snapshot) ==
    IF snapshot.memory_total = 0 THEN 0
    ELSE LET percent == (snapshot.memory_used * 100) \div snapshot.memory_total
         IN  IF percent < 2^8 THEN percent ELSE 100

\* The measurements of the filesystem with that ID, which the snapshot holds at
\* the position the configuration gives it.
FilesystemMetric(id, field, snapshot, filesystems) ==
    LET found == {k \in 1..Len(filesystems) : filesystems[k].id = id /\ k <= Len(snapshot.filesystems)}
        usage == snapshot.filesystems[CHOOSE k \in found : \A l \in found : k <= l]
    IN  CASE found = {} -> Missing
          [] found # {} /\ field = "mounted" -> Bool(usage.mounted)
          [] found # {} /\ field = "used_percent" -> Number(usage.used_percent)

metric(measurement, snapshot, filesystems) ==
    CASE measurement = <<"ups", "status">> -> Text(snapshot.ups.status)
      [] measurement = <<"ups", "stale">> -> Bool(snapshot.ups.stale)
      [] measurement = <<"network", "up">> -> Bool(snapshot.network_up)
      [] measurement = <<"internet", "status">> -> Text(snapshot.internet_status)
      [] measurement = <<"backup", "status">> -> Text(snapshot.backup.status)
      [] measurement = <<"backup", "age">> ->
           IF snapshot.backup.age = <<>> THEN Missing ELSE Number(snapshot.backup.age[1])
      [] measurement = <<"cpu">> -> Number(snapshot.cpu)
      [] measurement = <<"memory">> -> Number(memory_percent(snapshot))
      [] measurement = <<"io_pressure">> -> Number(snapshot.io_pressure)
      [] measurement[1] = "filesystem" ->
           FilesystemMetric(measurement[2], measurement[3], snapshot, filesystems)

-----------------------------------------------------------------------------
(* Conditions.                                                             *)

metric_equals(value, expected) == value.type = expected.type /\ value = expected

\* One comparison of a predicate with its argument.
Compares(value, comparison) ==
    CASE comparison.op = "equals" -> metric_equals(value, comparison.arg)
      [] comparison.op = "in" -> \E k \in 1..Len(comparison.arg) : metric_equals(value, comparison.arg[k])
      [] comparison.op = "at_least" -> value.type = "number" /\ value.value >= comparison.arg
      [] comparison.op = "greater_than" -> value.type = "number" /\ value.value > comparison.arg
      [] comparison.op = "missing_or_greater_than" ->
           value.type = "missing" \/ (value.type = "number" /\ value.value > comparison.arg)

\* Of several comparisons, which validation rejects, the first would decide.
matches_predicate(value, predicate) ==
    predicate.comparisons # <<>> /\ Compares(value, predicate.comparisons[1])

\* smart.*.status: any of the devices.
matches_selector(predicate, snapshot, filesystems) ==
    IF predicate.measurement = <<"smart", "status">>
    THEN \E k \in 1..Len(snapshot.smart) : matches_predicate(Text(snapshot.smart[k]), predicate)
    ELSE matches_predicate(metric(predicate.measurement, snapshot, filesystems), predicate)

\* A condition is the sequence of its parts, itself first.  An `all` or `any` has the
\* positions of the conditions it is made of, which come after it.

\* Whether a part holds, given which of those after it do.
matches_part(part, holds, snapshot, filesystems) ==
    CASE part.kind = "all" -> \A l \in part.of : holds[l]
      [] part.kind = "any" -> \E l \in part.of : holds[l]
      [] part.kind = "predicate" -> matches_selector(part, snapshot, filesystems)

matches_condition(condition, snapshot, filesystems) ==
    LET holds[k \in 1..Len(condition)] ==
            matches_part(condition[k], holds, snapshot, filesystems)
    IN  holds[1]

PartValid(part, filesystems) ==
    IF part.kind \in {"all", "any"} THEN part.of # {}
    ELSE /\ Known(part.measurement)
         /\ Len(part.comparisons) = 1
         /\ part.measurement[1] = "filesystem" =>
               \E k \in 1..Len(filesystems) : filesystems[k].id = part.measurement[2]

ConditionValid(condition, filesystems) ==
    \A k \in 1..Len(condition) : PartValid(condition[k], filesystems)

-----------------------------------------------------------------------------
(* The report.                                                             *)

Priority(severity) ==
    CASE severity = "healthy" -> 0 [] severity = "warning" -> 1 [] severity = "critical" -> 2

\* Mutant: of incidents of the same severity the last one is shown.
LastWorst(current, rule) ==
    IF current = <<>> \/ Priority(rule.severity) >= Priority(current[1].severity)
    THEN <<rule>> ELSE current

Worse(current, rule) ==
    IF current = <<>> \/ Priority(rule.severity) > Priority(current[1].severity)
    THEN <<rule>> ELSE current

Matches(config, snapshot, k) ==
    matches_condition(config.rules[k].when, snapshot, config.filesystems)

\* The incident to report after one more rule.
AfterRule(config, snapshot, current, k) ==
    IF Matches(config, snapshot, k) THEN Worse(current, config.rules[k]) ELSE current

\* The one to report of all, as an Option.
Primary(config, snapshot) ==
    LET primary[n \in 0..Len(config.rules)] ==
            IF n = 0 THEN <<>> ELSE AfterRule(config, snapshot, primary[n - 1], n)
    IN  primary[Len(config.rules)]

\* evaluate_health's report: the severity of the primary incident and, for its
\* message, the rule that is the incident.
HealthReport(config, snapshot) ==
    LET primary == Primary(config, snapshot)
    IN  IF primary = <<>> THEN [severity |-> config.default.severity, rule |-> "default"]
        ELSE [severity |-> primary[1].severity, rule |-> primary[1].id]

=============================================================================
