------------------------------ MODULE Deployed ------------------------------
(***************************************************************************)
(* The configuration that is installed with the daemon,                    *)
(* deploy/servatory.yaml.  The message of a rule is reduced to whether     *)
(* there is one, a percentage and a duration are as in the file (the limit *)
(* on the age of a backup in hours).                                       *)
(***************************************************************************)
EXTENDS Naturals, Sequences, Rules

When(measurement, op, arg) ==
    [kind |-> "predicate", measurement |-> measurement, comparisons |-> <<[op |-> op, arg |-> arg]>>]
Equals(measurement, value) == When(measurement, "equals", value)
AllOf(parts) == [kind |-> "all", of |-> parts]
AnyOf(parts) == [kind |-> "any", of |-> parts]
Rule(id, severity, when) ==
    [id |-> id, severity |-> severity, when |-> when, message |-> "text"]

UpsIs(value) == Equals(<<"ups", "status">>, Text(value))
BackupIs(value) == Equals(<<"backup", "status">>, Text(value))
NotMounted(id) == Equals(<<"filesystem", id, "mounted">>, Bool(FALSE))
Full(id) == When(<<"filesystem", id, "used_percent">>, "greater_than", 90)
Overdue == When(<<"backup", "age">>, "missing_or_greater_than", 24)

DeployedRules ==
    << Rule("ups_low_battery", "critical", <<UpsIs("low_battery")>>),
       Rule("ups_output_off", "critical", <<UpsIs("output_off")>>),
       Rule("ups_replace_battery", "critical", <<UpsIs("replace_battery")>>),
       Rule("smart_failed", "critical", <<AnyOf({2}), Equals(<<"smart", "status">>, Text("failed"))>>),
       Rule("link_down", "critical", <<Equals(<<"network", "up">>, Bool(FALSE))>>),
       Rule("internet_failed", "critical", <<Equals(<<"internet", "status">>, Text("failed"))>>),
       Rule("root_missing", "critical", <<NotMounted("root")>>),
       Rule("root_full", "critical", <<Full("root")>>),
       Rule("hdd_missing", "critical", <<NotMounted("hdd")>>),
       Rule("hdd_full", "critical", <<Full("hdd")>>),
       Rule("backup_storage_missing", "critical", <<NotMounted("backup")>>),
       Rule("backup_storage_full", "critical", <<Full("backup")>>),
       Rule("backup_unknown", "critical", <<BackupIs("unknown")>>),
       Rule("ups_on_battery", "warning", <<UpsIs("on_battery")>>),
       Rule("ups_bypass", "warning", <<UpsIs("bypass")>>),
       Rule("ups_unavailable", "warning",
            <<AnyOf({2, 3}), UpsIs("unavailable"),
              AllOf({4, 5}), UpsIs("unknown"), Equals(<<"ups", "stale">>, Bool(FALSE))>>),
       Rule("smart_warning", "warning",
            <<AnyOf({2}), When(<<"smart", "status">>, "in", <<Text("warning"), Text("unknown")>>)>>),
       Rule("cpu_high", "warning", <<When(<<"cpu">>, "at_least", 85)>>),
       Rule("memory_high", "warning", <<When(<<"memory">>, "at_least", 90)>>),
       Rule("io_pressure_high", "warning", <<When(<<"io_pressure">>, "at_least", 50)>>),
       Rule("backup_no_job", "warning", <<BackupIs("no_job")>>),
       Rule("backup_failed", "warning", <<BackupIs("failed")>>),
       Rule("backup_stale", "warning", <<BackupIs("stale")>>),
       Rule("backup_healthy_but_overdue", "warning", <<AllOf({2, 3}), BackupIs("healthy"), Overdue>>),
       Rule("backup_running_without_recent_success", "warning",
            <<AllOf({2, 3}), BackupIs("running"), Overdue>>) >>

Source(id) == [id |-> id, label |-> "text", path_valid |-> TRUE]

DeployedViews ==
    [overview |-> [layout |-> "overview"],
     resources |-> [layout |-> "resources"],
     storage |-> [layout |-> "storage", filesystems_left |-> TRUE,
                  filesystems |-> <<"root", "hdd", "backup">>,
                  smart |-> <<"root", "hdd", "backup", "sdd", "sde">>],
     power_network |-> [layout |-> "power_network", ups_left |-> TRUE],
     guests |-> [layout |-> "guests", paginate |-> TRUE, offset |-> 0, limit |-> 4]]

DeployedConfig ==
    LET all == <<"overview", "resources", "storage", "power_network", "guests">>
    IN  [version |-> 2, update_interval |-> 5000, reconnect_interval |-> 1000,
         hold_time |-> 3000, animation_delay |-> 200,
         filesystems |-> <<Source("root"), Source("hdd"), Source("backup")>>,
         smart |-> <<Source("root"), Source("hdd"), Source("backup"), Source("sdd"), Source("sde")>>,
         failures_before_unavailable |-> 2, task_history_limit |-> 50,
         internet |-> [target |-> "text", interval |-> 30000, timeout |-> 4000,
                       failures_before_failed |-> 2],
         default |-> [severity |-> "healthy", message |-> "text"],
         rules |-> DeployedRules,
         views |-> DeployedViews,
         lcd |-> all,
         http |-> <<[enabled |-> TRUE, hostname_valid |-> TRUE, port |-> 80, views |-> all]>>,
         ntfy |-> <<[enabled |-> TRUE, server_is_url |-> TRUE,
                     severities |-> {"warning", "critical"}, repeat_critical |-> <<3600000>>]>>]

=============================================================================
