------------------------------ MODULE WebViews ------------------------------
(***************************************************************************)
(* What the sections of the web dashboard say of a health snapshot         *)
(* (render_page of firmware/src/network.rs).                               *)
(*                                                                         *)
(* A value is what it is `of`, named as in LcdViews, with its text and the *)
(* class that gives it its colour.  Headings, labels and the escaping of   *)
(* names are left out.                                                     *)
(***************************************************************************)
EXTENDS Integers, Sequences, SequencesExt, FiniteSets

Text(format, numbers) == [format |-> format, numbers |-> numbers]

Words(format) == Text(format, <<>>)

Value(of, text, class) == [of |-> of, text |-> text, class |-> class]

level_class(level) == CASE level = "healthy" -> "ok" [] level = "warning" -> "warn" [] level = "critical" -> "crit"

MemoryPercent(s) ==
    IF s.memory_total = 0 THEN 0
    ELSE LET percent == (s.memory_used * 100) \div s.memory_total
         IN  IF percent < 2^8 THEN percent ELSE 100

format_capacity_mib(capacity) ==
    LET tebi == (capacity.mib * 10) \div 2^20
        gibi == (capacity.mib * 10) \div 1024
    IN  IF capacity.tib > 0 THEN Text("{}.{} TiB", <<capacity.tib + tebi \div 10, tebi % 10>>)
        ELSE IF capacity.mib >= 1024 THEN Text("{}.{} GiB", <<gibi \div 10, gibi % 10>>)
        ELSE Text("{} MiB", <<capacity.mib>>)

format_duration_compact(before, age, after) ==
    IF age.h >= 24 THEN Text(before \o "{}d {}h" \o after, <<age.h \div 24, age.h % 24>>)
    ELSE IF age.h >= 1 THEN Text(before \o "{}h {}m" \o after, <<age.h, age.s \div 60>>)
    ELSE Text(before \o "{}m" \o after, <<age.s \div 60>>)

backup_status_text(backup) ==
    CASE backup.status = "healthy" -> IF backup.age = <<>> THEN Words("Healthy")
                                      ELSE format_duration_compact("Healthy ", backup.age[1], " ago")
      [] backup.status = "running" -> Words("Running")
      [] backup.status = "failed" -> Words("Failed")
      [] backup.status = "stale" -> IF backup.age = <<>> THEN Words("Overdue")
                                    ELSE format_duration_compact("", backup.age[1], " old")
      [] backup.status = "no_job" -> Words("No job")
      [] backup.status = "unknown" -> Words("Unknown")

backup_status_class(status) ==
    CASE status \in {"healthy", "running"} -> "ok"
      [] status \in {"failed", "stale", "no_job"} -> "warn"
      [] status = "unknown" -> "crit"

smart_status_text(status) ==
    CASE status = "healthy" -> "HEALTHY" [] status = "warning" -> "WARNING" [] status = "failed" -> "FAILED"
      [] status = "sleeping" -> "SLEEPING" [] status = "unknown" -> "UNKNOWN"

smart_status_class(status) ==
    CASE status = "healthy" -> "ok" [] status = "sleeping" -> ""
      [] status \in {"warning", "unknown"} -> "warn" [] status = "failed" -> "crit"

UpsWords == [not_configured |-> "NOT CONFIGURED", unknown |-> "NO DATA", unavailable |-> "NO DATA",
             online |-> "ONLINE", on_battery |-> "ON BATTERY", low_battery |-> "LOW BATTERY",
             charging |-> "CHARGING", bypass |-> "BYPASS", output_off |-> "OUTPUT OFF",
             replace_battery |-> "REPLACE BATTERY"]

\* Mutant: old data are shown like fresh ones.
UpsTextAlwaysFresh(ups) == UpsWords[ups.status]

ups_status_text(ups) ==
    IF ups.stale /\ ups.status # "unavailable" THEN "STALE" ELSE UpsWords[ups.status]

ups_status_class(status) ==
    CASE status \in {"online", "charging"} -> "ok"
      [] status = "not_configured" -> ""
      [] status \in {"on_battery", "bypass", "unknown", "unavailable"} -> "warn"
      [] status \in {"low_battery", "output_off", "replace_battery"} -> "crit"

internet_status_text(status) ==
    CASE status = "reachable" -> "REACHABLE" [] status = "checking" -> "CHECKING"
      [] status = "missed" -> "RETRYING" [] status = "failed" -> "FAILED"

internet_status_class(status) ==
    CASE status = "reachable" -> "ok" [] status \in {"checking", "missed"} -> "warn"
      [] status = "failed" -> "crit"

-----------------------------------------------------------------------------
(* One section for each kind of page.                                      *)

Interface(s, none) == Value(<<"interface">>, Words(IF s.interface = "" THEN none ELSE s.interface), "")

OverviewSection(s) ==
    << Value(<<"health">>, Words(s.message), level_class(s.level)),
       Value(<<"uptime">>, Text("{}d {}h", <<s.uptime \div 24, s.uptime % 24>>), ""),
       Interface(s, "No interface"),
       Value(<<"speed">>, Text("{} Mbps", <<s.mbps>>), ""),
       Value(<<"guest count">>,
             Text("{} / {}", <<Cardinality({k \in 1..Len(s.guests) : s.guests[k].status = "running"}),
                               Len(s.guests)>>), "") >>

\* render_metric: the percentage, and a detail.
ResourcesSection(s) ==
    << Value(<<"cpu">>, Text("{}%", <<s.cpu>>), ""),
       Value(<<"memory">>, Text("{}%", <<MemoryPercent(s)>>), ""),
       Value(<<"memory size">>, Text("{} / {} MiB", <<s.memory_used, s.memory_total>>), ""),
       Value(<<"io_pressure">>, Text("{}%", <<s.io_pressure>>), ""),
       Value(<<"load">>, Text("{}.{}{}", <<s.load \div 100, (s.load % 100) \div 10, s.load % 10>>), "") >>

\* A filesystem has a bar of its percentage instead of a class.
StorageSection(s) ==
    [k \in 1..Len(s.filesystems) |->
        Value(<<"filesystem", k - 1>>,
              IF s.filesystems[k].mounted THEN format_capacity_mib(s.filesystems[k].available)
              ELSE Words("MISSING"), s.filesystems[k].used_percent)]
    \o (IF s.smart = <<>> THEN << Value(<<"no smart">>, Words("Not configured"), "") >>
        ELSE [k \in 1..Len(s.smart) |->
                Value(<<"smart", k - 1>>,
                      IF s.smart[k].temperature = <<>> THEN Words(smart_status_text(s.smart[k].status))
                      ELSE Text(smart_status_text(s.smart[k].status) \o " {} C", s.smart[k].temperature),
                      smart_status_class(s.smart[k].status))])
    \o << Value(<<"backup">>, backup_status_text(s.backup), backup_status_class(s.backup.status)) >>

PowerNetworkSection(s) ==
    LET ups == s.ups
    IN  << Value(<<"ups">>, Words(ups_status_text(ups)), ups_status_class(ups.status)),
           Value(<<"battery">>, IF ups.battery = <<>> THEN Words("-") ELSE Text("{}%", ups.battery), ""),
           Value(<<"ups load">>, IF ups.load = <<>> THEN Words("-")
                                 ELSE IF ups.watts = <<>> THEN Text("{}%", ups.load)
                                 ELSE Text("{}% ~{} W", ups.load \o ups.watts), ""),
           Value(<<"runtime">>, IF ups.runtime = <<>> THEN Words("-")
                                ELSE format_duration_compact("", ups.runtime[1], ""), ""),
           Interface(s, "Not found"),
           Value(<<"link">>, Text((IF s.network_up THEN "UP" ELSE "DOWN") \o " {} Mbps", <<s.mbps>>),
                 IF s.network_up THEN "ok" ELSE "crit"),
           Value(<<"internet">>, Words(internet_status_text(s.internet)), internet_status_class(s.internet)),
           Value(<<"ipv4">>, Text("{}.{}.{}.{}", s.ipv4), "") >>
        \o (IF s.internet = "reachable" THEN <<>>
            ELSE << Value(<<"last ok">>, IF s.last_ok = <<>> THEN Words("Unknown")
                                         ELSE format_duration_compact("", s.last_ok[1], " ago"), "") >>)

GuestsSection(s) ==
    IF s.guests = <<>> THEN << Value(<<"no guests">>, Words("No guests reported"), "") >>
    ELSE FlattenSeq([k \in 1..Len(s.guests) |->
            << Value(<<"guest", k - 1>>,
                     Words(IF s.guests[k].status = "running" THEN "RUNNING" ELSE "STOPPED"),
                     IF s.guests[k].status = "running" THEN "ok" ELSE "crit"),
               Value(<<"guest cpu", k - 1>>, Text("{}%", <<s.guests[k].cpu>>), "") >>])

\* Section of the first page of each kind: it takes the whole snapshot, not the page.
render_page(page, s) ==
    CASE page = "overview" -> OverviewSection(s) [] page = "resources" -> ResourcesSection(s)
      [] page = "storage" -> StorageSection(s) [] page = "power_network" -> PowerNetworkSection(s)
      [] page = "guests" -> GuestsSection(s)

\* shown[kind], in dashboard_markup
Shown(pages) ==
    SelectSeq([k \in 1..Len(pages) |-> k],
              LAMBDA k : \A earlier \in 1..(k - 1) : pages[earlier].page # pages[k].page)

Sections(pages, s) ==
    LET shown == Shown(pages)
    IN  FlattenSeq([k \in 1..Len(shown) |-> render_page(pages[shown[k]].page, s)])

=============================================================================
