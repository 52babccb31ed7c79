------------------------------ MODULE LcdViews ------------------------------
(***************************************************************************)
(* What the five views of the LCD draw of a health snapshot (the draw_     *)
(* functions of firmware/src/main.rs).                                     *)
(*                                                                         *)
(* A text is the column it is drawn in ("left", "right", ...), its         *)
(* baseline, its font (6 pixels wide and 10 high, or 10 and 20), the       *)
(* capacity of the buffer it is formatted into (Direct without one), its   *)
(* format with the numbers in it, and its colour; `of` names what it is    *)
(* about.  Headings, labels, icons, frames and bars are not drawn.  A      *)
(* duration is in hours and seconds, storage in TiB and MiB, because u32   *)
(* exceeds TLC's integers.                                                 *)
(***************************************************************************)
EXTENDS Integers, Sequences, SequencesExt, FiniteSets

\* A text drawn as it is.
Direct == 1000

\* A format, with {} for each of the numbers.
Text(format, numbers) == [format |-> format, numbers |-> numbers]

Words(format) == Text(format, <<>>)

Drawn(of, column, y, font, capacity, text, colour) ==
    [of |-> of, column |-> column, y |-> y, font |-> font, capacity |-> capacity,
     text |-> text, colour |-> colour]

\* The number of characters of a text.
Length(text) ==
    FoldLeft(LAMBDA sum, number : sum + Len(ToString(number)) - 2, Len(text.format), text.numbers)

OtherColumn(column) == IF column = "left" THEN "right" ELSE "left"

\* The five fixed thresholds of the firmware.
health_status_color(level) ==
    CASE level = "healthy" -> "GREEN" [] level = "warning" -> "YELLOW" [] level = "critical" -> "RED"

usage_color(percent) == IF percent >= 95 THEN "RED" ELSE IF percent >= 85 THEN "YELLOW" ELSE "GREEN"

memory_percent(s) ==
    IF s.memory_total = 0 THEN 0
    ELSE LET percent == (s.memory_used * 100) \div s.memory_total
         IN  IF percent < 2^8 THEN percent ELSE 100

Running(s) == Cardinality({k \in 1..Len(s.guests) : s.guests[k].status = "running"})

-----------------------------------------------------------------------------
(* Overview and resources.                                                 *)

format_link(s) ==
    IF ~s.network_up THEN Words("DOWN")
    ELSE IF s.mbps >= 1000 /\ s.mbps % 1000 = 0 THEN Text("{}G UP", <<s.mbps \div 1000>>)
    ELSE IF s.mbps >= 1000 THEN Text("{}.{}G UP", <<s.mbps \div 1000, (s.mbps % 1000) \div 100>>)
    ELSE IF s.mbps > 0 THEN Text("{}M UP", <<s.mbps>>)
    ELSE Words("UP")

network_color(s) ==
    IF ~s.network_up \/ s.internet = "failed" THEN "RED"
    ELSE IF s.internet = "missed" THEN "YELLOW" ELSE "GREEN"

network_has_error(s) == ~s.network_up \/ s.internet \in {"missed", "failed"}

network_status_text(s) ==
    IF ~s.network_up THEN Words("LINK DOWN")
    ELSE CASE s.internet = "checking" -> Words("CHECKING")
           [] s.internet = "reachable" -> Words("ONLINE")
           [] s.internet = "missed" -> Words("PING MISSED")
           [] s.internet = "failed" -> Words("PING FAILED")

format_ipv4(s) == IF s.ipv4 = <<0, 0, 0, 0>> THEN Words("NO ADDRESS")
                  ELSE Text("{}.{}.{}.{}", s.ipv4)

format_network_summary(s) ==
    IF s.network_up /\ s.internet = "reachable" THEN format_ipv4(s) ELSE network_status_text(s)

draw_overview(s) ==
    << Drawn(<<"health">>, "left", 46, 10, Direct, Words(s.level), health_status_color(s.level)),
       Drawn(<<"uptime">>, "left", 70, 6, 24, Text("UP {}d {}h", <<s.uptime \div 24, s.uptime % 24>>), "WHITE") >>
    \o (IF s.level = "healthy" THEN <<>>
        ELSE << Drawn(<<"cause">>, "left", 108, 6, 16, Words(s.message), health_status_color(s.level)) >>)
    \o << Drawn(<<"host">>, "right", 44, 6, 48,
                Text("CPU {}% MEM {}%", <<s.cpu, memory_percent(s)>>),
                usage_color(IF s.cpu > memory_percent(s) THEN s.cpu ELSE memory_percent(s))),
          Drawn(<<"link">>, "right", 67, 6, 24, format_link(s), network_color(s)),
          Drawn(<<"internet">>, "right", 79, 6, 16, format_network_summary(s), "WHITE"),
          Drawn(<<"guest count">>, "right", 115, 6, 24, Text("{}/{} RUN", <<Running(s), Len(s.guests)>>), "GREEN") >>

draw_resources(s) ==
    << Drawn(<<"cpu">>, "left", 58, 10, 12, Text("{}%", <<s.cpu>>), "GREEN"),
       Drawn(<<"memory">>, "right", 58, 10, 12, Text("{}%", <<memory_percent(s)>>), "GREEN"),
       Drawn(<<"memory size">>, "right", 34, 6, 24,
             Text("{}/{}G", <<s.memory_used \div 1024, s.memory_total \div 1024>>), "WHITE"),
       Drawn(<<"io_pressure">>, "left", 111, 10, 12, Text("{}%", <<s.io_pressure>>), "GREEN"),
       Drawn(<<"load">>, "right", 111, 10, 16,
             Text("{}.{}{}", <<s.load \div 100, (s.load % 100) \div 10, s.load % 10>>), "GREEN") >>

-----------------------------------------------------------------------------
(* Storage and SMART.                                                      *)

storage_color(usage) == IF ~usage.mounted \/ usage.used_percent > 90 THEN "RED" ELSE "GREEN"

format_available_storage(available) ==
    LET tenths == (available.mib * 10) \div 2^20
    IN  IF available.tib > 0 THEN Text("{}.{}T", <<available.tib + tenths \div 10, tenths % 10>>)
        ELSE IF available.mib >= 1024 THEN Text("{}G", <<(available.mib + 512) \div 1024>>)
        ELSE Text("{}M", <<available.mib>>)

\* What is available, or that it is not there.
draw_storage_row(column, y, index, usage) ==
    Drawn(<<"filesystem", index>>, column, y, 6, 8,
          IF usage.mounted THEN format_available_storage(usage.available) ELSE Words("MISSING"),
          storage_color(usage))

\* write_backup_age
BackupAge(before, age, after) ==
    IF age.h >= 48 THEN Text(before \o "{}d" \o after, <<age.h \div 24>>)
    ELSE IF age.h >= 1 THEN Text(before \o "{}h" \o after, <<age.h>>)
    ELSE Text(before \o "{}m" \o after, <<age.s \div 60>>)

Zero == [h |-> 0, s |-> 0]

MoreThanADay(age) == age.h > 24 \/ (age.h = 24 /\ age.s > 0)

\* Text and colour of the backup line.
format_backup_job(backup) ==
    LET age == IF backup.age = <<>> THEN Zero ELSE backup.age[1]
    IN  CASE backup.status = "healthy" -> <<BackupAge("BACKUP OK ", age, " AGO"), "GREEN">>
          [] backup.status = "running" ->
               << Words("BACKUP RUNNING"),
                  IF backup.age = <<>> \/ MoreThanADay(age) THEN "YELLOW" ELSE "CYAN" >>
          [] backup.status = "failed" -> <<Words("BACKUP FAILED"), "YELLOW">>
          [] backup.status = "stale" ->
               <<IF backup.age = <<>> THEN Words("BACKUP OVERDUE") ELSE BackupAge("BACKUP ", age, " OLD"), "YELLOW">>
          [] backup.status = "no_job" -> <<Words("BACKUP NO JOB"), "YELLOW">>
          [] backup.status = "unknown" -> <<Words("BACKUP UNKNOWN"), "RED">>

smart_color(status) ==
    CASE status = "healthy" -> "GREEN" [] status = "sleeping" -> "CYAN"
      [] status \in {"warning", "unknown"} -> "YELLOW" [] status = "failed" -> "RED"

format_smart_detail(device) ==
    LET words == [healthy |-> "OK", warning |-> "WARN", failed |-> "FAIL", sleeping |-> "SLEEP",
                  unknown |-> "UNK"]
    IN  IF device.temperature # <<>> THEN Text(words[device.status] \o " {}C", device.temperature)
        ELSE IF device.status = "sleeping" THEN Words("SLEEP --") ELSE Words(words[device.status])

draw_smart_row(column, y, index, device) ==
    Drawn(<<"smart", index>>, column, y, 6, 12, format_smart_detail(device), smart_color(device.status))

\* Mutant: the first filesystem is drawn in the second row.
FilesystemBaselineLow(row) == 51 + row * 18

FilesystemBaseline(row) == 51 + (row - 1) * 18

\* Indices that the snapshot does not have are skipped, and leave their row empty.
draw_storage_smart(s, page) ==
    LET filesystems == IF page.filesystems_left THEN "left" ELSE "right"
        disks == OtherColumn(filesystems)
        backup == format_backup_job(s.backup)
        fs_rows == SelectSeq([k \in 1..Len(page.filesystem_indices) |-> k],
                             LAMBDA k : page.filesystem_indices[k] < Len(s.filesystems))
        smart_rows == SelectSeq([k \in 1..Len(page.smart_indices) |-> k],
                                LAMBDA k : page.smart_indices[k] < Len(s.smart))
    IN  [r \in 1..Len(fs_rows) |->
            LET index == page.filesystem_indices[fs_rows[r]]
            IN  draw_storage_row(filesystems, FilesystemBaseline(fs_rows[r]), index,
                                 s.filesystems[index + 1])]
        \o << Drawn(<<"backup">>, filesystems, 112, 6, 24, backup[1], backup[2]) >>
        \o (IF page.smart_indices = <<>>
            THEN << Drawn(<<"no smart">>, disks, 58, 6, Direct, Words("NOT CONFIGURED"), "WHITE") >>
            ELSE [r \in 1..Len(smart_rows) |->
                    LET index == page.smart_indices[smart_rows[r]]
                    IN  draw_smart_row(disks, 51 + (smart_rows[r] - 1) * 17, index, s.smart[index + 1])])

-----------------------------------------------------------------------------
(* UPS and network.                                                        *)

UpsWords == [not_configured |-> "NO UPS", unknown |-> "NO DATA", unavailable |-> "NO DATA",
             online |-> "ONLINE", on_battery |-> "ON BATTERY", low_battery |-> "LOW BATTERY",
             charging |-> "CHARGING", bypass |-> "BYPASS", output_off |-> "OUTPUT OFF",
             replace_battery |-> "REPLACE BAT"]

ups_status_text(ups) ==
    IF ups.stale /\ ups.status # "unavailable" THEN "STALE" ELSE UpsWords[ups.status]

ups_color(ups) ==
    CASE ups.status \in {"online", "charging"} -> "GREEN"
      [] ups.status = "not_configured" -> "WHITE"
      [] ups.status \in {"on_battery", "bypass", "unknown", "unavailable"} -> "YELLOW"
      [] ups.status \in {"low_battery", "output_off", "replace_battery"} -> "RED"

format_ups_battery(ups) ==
    IF ups.battery = <<>> THEN Words("BAT        --") ELSE Text("BAT       {}%", ups.battery)

format_ups_load(ups) ==
    IF ups.load = <<>> THEN Words("LOAD       --")
    ELSE IF ups.watts = <<>> THEN Text("LOAD      {}%", ups.load)
    ELSE Text("LOAD {}% ~{}W", ups.load \o ups.watts)

\* Mutant: the buffer has only room for runtimes below a day.
RuntimeCapacityShort == 14

RuntimeCapacity == 20

format_ups_runtime(ups) ==
    IF ups.runtime = <<>> THEN Words("RUNTIME    --")
    ELSE IF ups.runtime[1].h >= 1
    THEN Text("RUNTIME {}h{}m", <<ups.runtime[1].h, ups.runtime[1].s \div 60>>)
    ELSE Text("RUNTIME    {}m", <<ups.runtime[1].s \div 60>>)

format_last_internet_success(age) ==
    IF age = <<>> THEN Words("LAST OK NEVER")
    ELSE IF age[1].h >= 24 THEN Text("LAST OK {}d AGO", <<age[1].h \div 24>>)
    ELSE IF age[1].h >= 1 THEN Text("LAST OK {}h{}m AGO", <<age[1].h, age[1].s \div 60>>)
    ELSE IF age[1].s >= 60 THEN Text("LAST OK {}m AGO", <<age[1].s \div 60>>)
    ELSE Text("LAST OK {}s AGO", <<age[1].s>>)

\* With an error, the network texts move up to make room for a line.
draw_ups_network(s, page) ==
    LET ups == IF page.ups_left THEN "left" ELSE "right"
        network == OtherColumn(ups)
        error == network_has_error(s)
    IN  << Drawn(<<"ups">>, ups, 57, 10, Direct, Words(ups_status_text(s.ups)), ups_color(s.ups)),
           Drawn(<<"battery">>, ups, 76, 6, 16, format_ups_battery(s.ups), "WHITE"),
           Drawn(<<"ups load">>, ups, 92, 6, 20, format_ups_load(s.ups), "WHITE"),
           Drawn(<<"runtime">>, ups, 108, 6, RuntimeCapacity, format_ups_runtime(s.ups), "WHITE"),
           Drawn(<<"interface">>, network, 48, 6, Direct,
                 Words(IF s.interface = "" THEN "NO INTERFACE" ELSE s.interface), "WHITE"),
           Drawn(<<"link">>, network, IF error THEN 68 ELSE 78, 10, 24, format_link(s), network_color(s)),
           Drawn(<<"internet">>, network, IF error THEN 82 ELSE 92, 6, Direct, network_status_text(s),
                 network_color(s)),
           Drawn(<<"ipv4">>, network, IF error THEN 96 ELSE 108, 6, 16, format_ipv4(s), "CYAN") >>
        \o IF error THEN << Drawn(<<"last ok">>, network, 112, 6, 20,
                                  format_last_internet_success(s.last_ok), "WHITE") >> ELSE <<>>

-----------------------------------------------------------------------------
(* Guests.                                                                 *)

\* Mutant: the firmware draws a guest less than the daemon puts on a page.
ThreeGuestsPerPage == 3

GUESTS_PER_PAGE == 4

\* skip(offset).take(limit.min(GUESTS_PER_PAGE))
draw_guests(s, page) ==
    LET taken == IF page.limit < GUESTS_PER_PAGE THEN page.limit ELSE GUESTS_PER_PAGE
        last == IF page.offset + taken < Len(s.guests) THEN page.offset + taken ELSE Len(s.guests)
    IN  << Drawn(<<"guest count">>, "wide", 31, 6, 16, Text("{}/{} RUN", <<Running(s), Len(s.guests)>>), "GREEN") >>
        \o FlattenSeq([row \in 1..(IF last < page.offset THEN 0 ELSE last - page.offset) |->
             LET guest == s.guests[page.offset + row]
                 index == page.offset + row - 1
                 y == 49 + (row - 1) * 22
             IN  << Drawn(<<"guest", index>>, "wide", y, 6, Direct,
                          Words(IF guest.status = "running" THEN "RUN" ELSE "STOP"),
                          IF guest.status = "running" THEN "GREEN" ELSE "RED"),
                    Drawn(<<"guest cpu", index>>, "cpu", y, 6, 8, Text("{}%", <<guest.cpu>>), "WHITE") >>])

\* The texts of a page, which render picks by its kind.
DrawPage(s, page) ==
    CASE page.page = "overview" -> draw_overview(s)
      [] page.page = "resources" -> draw_resources(s)
      [] page.page = "storage" -> draw_storage_smart(s, page)
      [] page.page = "power_network" -> draw_ups_network(s, page)
      [] page.page = "guests" -> draw_guests(s, page)

\* The dots under a page, up to 15, and the one that is lit.
PageDots(page, count) ==
    [dots |-> IF count < 15 THEN count ELSE 15, lit |-> IF page < 14 THEN page ELSE 14]

=============================================================================
