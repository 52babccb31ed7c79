-------------------------- MODULE HealthCollector ---------------------------
(***************************************************************************)
(* The daemon's start-up and its collector thread (health.rs, main.rs):    *)
(* the configuration is validated, then the sources are read, each at its  *)
(* own interval, and what the collector remembers of them is judged by the *)
(* rules of the configuration.                                             *)
(*                                                                         *)
(* collect reads the sources that are due one after the other.  They do    *)
(* not depend on each other, and their intervals are not multiples of the  *)
(* configurable pace of collect, so each refresh is an action of its own;  *)
(* only in the first collect, in Start, all of them are due.  The probe of *)
(* the internet is that of InternetProbe.                                  *)
(***************************************************************************)
EXTENDS InternetProbe, Config, Deployed

CONSTANTS Configs,               \* configurations an administrator may try
          MaxGuests,             \* bound on guests
          UpsReadings,           \* flags that upsc may report
          BackupReadings,        \* answers of pvesh
          FilesystemReadings,    \* answers of df, one per filesystem
          SmartReadings,         \* answers of smartctl, one per device
          ResourceReadings,      \* /proc
          Now                    \* the hour, in the time of the backup tasks

\* What df, smartctl and pvesh may say of one filesystem, one device and one task.
Usage == [success : BOOLEAN, mounted_there : BOOLEAN, used_percent : Nat]

Disks == [answered : BOOLEAN, standby : BOOLEAN, failing : BOOLEAN, prefail : BOOLEAN, success : BOOLEAN,
          passed : {<<>>, <<FALSE>>, <<TRUE>>}, temperature : Seq(Nat)]

Tasks == [local : BOOLEAN, starttime : Nat, endtime : Seq(Nat), ok : BOOLEAN]

ASSUME CollectorAssumption ==
    /\ MaxGuests \in Nat /\ Now \in Nat
    /\ FailuresBeforeFailed = DeployedConfig.internet.failures_before_failed
    /\ DeployedConfig.failures_before_unavailable <= MaxCount
    /\ \A config \in Configs : Typed(config)
    /\ \A answers \in FilesystemReadings :
          /\ Len(answers) = Len(DeployedConfig.filesystems)
          /\ \A k \in 1..Len(answers) : answers[k] \in Usage
    /\ \A answers \in SmartReadings :
          /\ Len(answers) = Len(DeployedConfig.smart)
          /\ \A k \in 1..Len(answers) : answers[k] \in Disks
    /\ \A answer \in BackupReadings : answer.answered \in BOOLEAN /\ answer.tasks \in Seq(Tasks)

VARIABLES running,               \* the daemon has been started
          checked,               \* what --check-config was given and says of it, if it was run
          ups,                   \* UpsCollector and ups_snapshot
          backup,                \* the status and age read last
          filesystem_usage, smart, resources,
          read,                  \* ghost: the answer of pvesh that backup comes from
          missed                 \* ghost: how often in a row upsc has failed

sourceVars == <<ups, backup, filesystem_usage, smart, resources, read, missed>>
allVars == <<vars, running, checked, sourceVars>>

-----------------------------------------------------------------------------
(* UpsCollector.                                                           *)

\* parse_upsc: the first of these flags decides.
FlagStatus ==
    << <<"LB", "low_battery">>, <<"RB", "replace_battery">>, <<"OFF", "output_off">>,
       <<"OB", "on_battery">>, <<"BYPASS", "bypass">>, <<"CHRG", "charging">>, <<"OL", "online">> >>

parse_upsc(flags) ==
    LET known == {k \in 1..Len(FlagStatus) : FlagStatus[k][1] \in flags}
    IN  IF known = {} THEN "unknown"
        ELSE FlagStatus[CHOOSE k \in known : \A l \in known : k <= l][2]

\* Mutant: the failure counter wraps around.
UpsFailureWraps == (ups.consecutive_failures + 1) % (MaxCount + 1)

UpsFailure == Smaller(ups.consecutive_failures + 1, MaxCount)

\* Mutant: a failed query forgets the sample before it.
UpsForgotten == "unknown"

\* The status that is kept while upsc fails.
UpsKept == IF ups.last_good = <<>> THEN "unknown" ELSE ups.last_good[1]

\* collect with an answer of upsc, and without.
UpsAnswered(flags) ==
    [last_good |-> <<parse_upsc(flags)>>, consecutive_failures |-> 0,
     snapshot |-> [status |-> parse_upsc(flags), stale |-> FALSE]]

UpsMissed ==
    [ups EXCEPT
       !.consecutive_failures = UpsFailure,
       !.snapshot = [status |-> IF UpsFailure >= DeployedConfig.failures_before_unavailable
                                THEN "unavailable" ELSE UpsKept,
                     stale |-> TRUE]]

-----------------------------------------------------------------------------
(* The other sources.                                                      *)

\* read_filesystem_usage: df must answer, and for a mount of that very path.
FilesystemUsage(answer) ==
    IF answer.success /\ answer.mounted_there
    THEN [mounted |-> TRUE, used_percent |-> answer.used_percent]
    ELSE [mounted |-> FALSE, used_percent |-> 0]

\* read_smart_device
SmartStatus(answer) ==
    CASE ~answer.answered -> "unknown"
      [] answer.answered /\ answer.standby -> "sleeping"
      [] answer.answered /\ ~answer.standby ->
           IF answer.passed = <<FALSE>> \/ answer.failing THEN "failed"
           ELSE IF answer.prefail \/ (answer.temperature # <<>> /\ answer.temperature[1] >= 55)
           THEN "warning"
           ELSE IF answer.passed = <<TRUE>> \/ answer.success THEN "healthy"
           ELSE "unknown"

\* backup_job_enabled, on the JSON value of the field, and its node.
JobEnabled(job) == job.enabled \in {"absent", "true", "nonzero", "text"}

JobsHere(answer) == {job \in ToSet(answer.jobs) : JobEnabled(job) /\ job.here}

\* The positions of the tasks of this node.
LocalTasks(answer) == {k \in 1..Len(answer.tasks) : answer.tasks[k].local}

\* Mutant: the order of the answer is taken for the order of the tasks.
LastListed(answer) == answer.tasks[CHOOSE k \in LocalTasks(answer) : \A l \in LocalTasks(answer) : l <= k]

\* In the stable sort by start time the task at l is not behind the one at k.
SortedBefore(tasks, l, k) ==
    \/ tasks[l].starttime < tasks[k].starttime
    \/ tasks[l].starttime = tasks[k].starttime /\ l <= k

\* The last local task after the sort.
LatestTask(answer) ==
    answer.tasks[CHOOSE k \in LocalTasks(answer) :
                   \A l \in LocalTasks(answer) : SortedBefore(answer.tasks, l, k)]

\* When the local successes ended.
SuccessEnds(answer) ==
    {answer.tasks[k].endtime[1] :
       k \in {l \in LocalTasks(answer) : answer.tasks[l].ok /\ answer.tasks[l].endtime # <<>>}}

\* Hours since the last of them.
SuccessAge(answer) ==
    LET ends == SuccessEnds(answer)
        last == CHOOSE end \in ends : \A other \in ends : other <= end
    IN  IF ends = {} THEN <<>> ELSE <<IF last <= Now THEN Now - last ELSE 0>>

\* read_backup_job_status
BackupStatus(answer) ==
    LET latest == LatestTask(answer)
    IN  CASE ~answer.answered -> [status |-> "unknown", age |-> <<>>]
          [] answer.answered /\ JobsHere(answer) = {} ->
               [status |-> "no_job", age |-> <<>>]
          [] answer.answered /\ JobsHere(answer) # {} ->
               IF LocalTasks(answer) = {} THEN [status |-> "stale", age |-> <<>>]
               ELSE [status |-> IF latest.endtime = <<>> THEN "running"
                                ELSE IF ~latest.ok THEN "failed" ELSE "healthy",
                     age |-> SuccessAge(answer)]

-----------------------------------------------------------------------------
(* The daemon.                                                             *)

CollectorInit ==
    /\ Init
    /\ running = FALSE
    /\ checked = <<>>
    /\ ups = [last_good |-> <<>>, consecutive_failures |-> 0,
              snapshot |-> [status |-> "not_configured", stale |-> FALSE]]
    /\ backup = [status |-> "unknown", age |-> <<>>]
    /\ filesystem_usage = <<>> /\ smart = <<>>
    /\ resources \in ResourceReadings
    /\ read = [answered |-> FALSE, jobs |-> <<>>, tasks |-> <<>>]
    /\ missed = 0

\* --check-config, which leaves nothing behind but its answer.
CheckConfig ==
    /\ ~running /\ checked = <<>>
    /\ \E tried \in Configs : checked' = <<[config |-> tried, valid |-> Valid(tried)]>>
    /\ UNCHANGED <<vars, running, sourceVars>>

CheckExits ==
    /\ ~running /\ checked # <<>>
    /\ checked' = <<>>
    /\ UNCHANGED <<vars, running, sourceVars>>

UpsReads ==
    \/ \E flags \in UpsReadings : ups' = UpsAnswered(flags) /\ missed' = 0
    \/ ups' = UpsMissed /\ missed' = Smaller(missed + 1, MaxCount + 1)

FilesystemsRead ==
    \E answers \in FilesystemReadings :
        filesystem_usage' = [k \in 1..Len(answers) |-> FilesystemUsage(answers[k])]

SmartReads ==
    \E answers \in SmartReadings : smart' = [k \in 1..Len(answers) |-> SmartStatus(answers[k])]

BackupReads == \E answer \in BackupReadings : backup' = BackupStatus(answer) /\ read' = answer

\* The daemon is started with the installed configuration and collects for the
\* first time.
Start ==
    /\ ~running /\ checked = <<>> /\ Valid(DeployedConfig)
    /\ running' = TRUE
    /\ SnapshotNewLink
    /\ UpsReads /\ FilesystemsRead /\ SmartReads /\ BackupReads
    /\ resources' \in ResourceReadings
    /\ UNCHANGED checked

\* The further refreshes.
Collects == running /\ UNCHANGED <<vars, running, checked>>

RefreshUps == Collects /\ UpsReads /\ UNCHANGED <<backup, filesystem_usage, smart, resources, read>>
RefreshFilesystems ==
    Collects /\ FilesystemsRead /\ UNCHANGED <<ups, backup, smart, resources, read, missed>>
RefreshSmart ==
    Collects /\ SmartReads /\ UNCHANGED <<ups, backup, filesystem_usage, resources, read, missed>>
RefreshBackup ==
    Collects /\ BackupReads /\ UNCHANGED <<ups, filesystem_usage, smart, resources, missed>>

\* What every collect does: the probe's part and the readings of /proc.
ProbeSnapshot ==
    /\ running /\ Snapshot /\ resources' \in ResourceReadings
    /\ UNCHANGED <<running, checked, ups, backup, filesystem_usage, smart, read, missed>>

\* Time, the ping thread and the link.
Others == UNCHANGED <<running, checked, sourceVars>>

ProbeTick == running /\ Tick /\ Others
ProbeResult == running /\ RecordResult /\ Others

CollectorNext ==
    \/ CheckConfig \/ CheckExits \/ Start
    \/ RefreshUps \/ RefreshFilesystems \/ RefreshSmart \/ RefreshBackup
    \/ ProbeTick \/ ProbeSnapshot \/ ProbeResult
    \/ running /\ LinkChanges /\ Others

CollectorSpec == CollectorInit /\ [][CollectorNext]_allVars

-----------------------------------------------------------------------------
(* The report on what has been collected.                                  *)

StatusText ==
    [Checking |-> "checking", Reachable |-> "reachable", Missed |-> "missed", Failed |-> "failed"]

HealthSnapshot ==
    [ups |-> ups.snapshot, smart |-> smart, network_up |-> last_link_up = "up",
     internet_status |-> StatusText[status], backup |-> backup,
     filesystems |-> filesystem_usage, cpu |-> resources.cpu,
     memory_used |-> resources.memory_used, memory_total |-> resources.memory_total,
     io_pressure |-> resources.io_pressure]

Report == HealthReport(DeployedConfig, HealthSnapshot)

-----------------------------------------------------------------------------
(* Safety.                                                                 *)

\* The newest local backup task by its start time has not failed, and a backup has
\* ended successfully within a day.
BackedUp ==
    LET tasks == {read.tasks[k] : k \in LocalTasks(read)}
    IN  /\ \E task \in tasks :
              /\ \A other \in tasks : other.starttime <= task.starttime
              /\ task.endtime # <<>> => task.ok
        /\ \E task \in tasks : task.ok /\ task.endtime # <<>> /\ task.endtime[1] + 24 >= Now

\* The UPS answers and is fine, or has failed to answer only just now and was fine when it
\* last did, or said nothing that parse_upsc knows: a status that is unknown counts as an
\* incident only until it is stale (deploy/servatory.yaml:118).
PowerGood ==
    \/ missed = 0 /\ ups.last_good[1] \in {"online", "charging"}
    \/ /\ missed \in 1..(DeployedConfig.failures_before_unavailable - 1)
       /\ ups.last_good = <<>> \/ ups.last_good[1] \in {"online", "charging", "unknown"}

\* The installed rules leave no gap: while the stick shows HEALTHY, the link is up
\* and the internet has not failed, the power is good, disks and filesystems
\* are in order, and there is a recent backup, whatever sources have stopped
\* answering since and in whatever order the tasks are listed.
HealthyMeansWell ==
    running /\ Report.severity = "healthy" =>
        /\ last_link_up = "up" /\ status # "Failed"
        /\ PowerGood
        /\ BackedUp
        /\ \A k \in 1..Len(smart) : smart[k] \in {"healthy", "sleeping"}
        /\ \A k \in 1..Len(filesystem_usage) :
              filesystem_usage[k].mounted /\ filesystem_usage[k].used_percent <= 90

\* configuration.md: failures_before_unavailable "sets the number of consecutive
\* failures after which the UPS becomes unavailable".  It does so then, not
\* earlier, and stays so however long the outage lasts.
UnavailableOnTime ==
    running => (ups.snapshot.status = "unavailable" <=> missed >= DeployedConfig.failures_before_unavailable)

\* configuration.md: "The primary status shown on the LCD is the matching incident
\* with the highest severity. Ties use YAML order."
FirstWorstReported ==
    running =>
        LET active == {k \in 1..Len(DeployedRules) : Matches(DeployedConfig, HealthSnapshot, k)}
            worst == {k \in active : \A l \in active :
                        Priority(DeployedRules[l].severity) <= Priority(DeployedRules[k].severity)}
        IN  Report.rule = IF active = {} THEN "default"
                          ELSE DeployedRules[CHOOSE k \in worst : \A l \in worst : k <= l].id

ValidConfigs == {answer.config : answer \in {answer \in ToSet(checked) : answer.valid}}

\* A configuration that --check-config calls valid never fails later: both
\* manifests can be built for every number of guests, not only for the none that
\* validation tries.
ValidConfigWorks ==
    \A config \in ValidConfigs, n \in 0..MaxGuests :
        DisplayConfigured(config, n) /\ NetworkConfigured(config, n)

\* The lists of views that are laid out.
Outputs(config) == {config.lcd} \cup {http.views : http \in ToSet(config.http)}

\* The rows of the pages, joined, and their number.
ShownOnce(rows, all, limit) ==
    /\ FlattenSeq(rows) = all
    /\ \A k \in 1..Len(rows) : Len(rows[k]) <= limit

GuestRows(page, n) ==
    [k \in 1..Smaller(page.limit, n - Smaller(n, page.offset)) |-> page.offset + k - 1]

\* Each guest and each configured disk and filesystem is shown on one page of its
\* view, in order, and no page has more rows of them than the LCD draws.
EverythingShown ==
    \A config \in ValidConfigs :
        \A id \in UNION {ToSet(views) : views \in Outputs(config)}, n \in 0..MaxGuests :
            LET view == config.views[id]
                pages == ViewPages(config, id, n)
            IN  /\ view.layout = "guests" /\ view.paginate =>
                     ShownOnce([k \in 1..Len(pages) |-> GuestRows(pages[k], n)],
                               [k \in 1..n |-> k - 1], 4)
                /\ view.layout = "storage" =>
                     /\ ShownOnce([k \in 1..Len(pages) |-> pages[k].filesystem_indices],
                                  resolve_indices(config.filesystems, view.filesystems), 3)
                     /\ ShownOnce([k \in 1..Len(pages) |-> pages[k].smart_indices],
                                  resolve_indices(config.smart, view.smart), 5)

\* The main loop sends new manifests only when guest_page_count changes.  That is
\* enough: guest lists of the same count have the same manifests.
PageCountTracksPages ==
    \A config \in ValidConfigs :
        \A views \in Outputs(config), m, n \in 0..MaxGuests :
            guest_page_count(m) = guest_page_count(n) =>
                compile_pages_for(config, views, m) = compile_pages_for(config, views, n)

-----------------------------------------------------------------------------
(* Liveness.                                                               *)

\* A check ends, and however many configurations are tried, the service is started;
\* then as in InternetProbe.
CollectorFairSpec ==
    /\ CollectorSpec
    /\ WF_allVars(CheckExits) /\ SF_allVars(Start)
    /\ WF_allVars(ProbeTick) /\ WF_allVars(ProbeSnapshot) /\ WF_allVars(ProbeResult)

=============================================================================
