------------------------------ MODULE MCViews -------------------------------
(***************************************************************************)
(* Values of Views for TLC: a configuration that needs several pages of    *)
(* filesystems, disks and guests, and the extremes of the snapshot's       *)
(* fields.                                                                 *)
(***************************************************************************)
EXTENDS Integers, Sequences

Items(n) == [k \in 1..n |-> [id |-> k]]

FullConfiguration ==
    [views |-> [overview |-> [layout |-> "overview"],
                resources |-> [layout |-> "resources"],
                storage |-> [layout |-> "storage", filesystems |-> <<4, 3, 2, 1>>,
                             smart |-> <<1, 2, 3, 4, 5, 6>>, filesystems_left |-> FALSE],
                power |-> [layout |-> "power_network", ups_left |-> TRUE],
                guests |-> [layout |-> "guests", paginate |-> TRUE]],
     filesystems |-> Items(4), smart |-> Items(6),
     lcd |-> <<"overview", "resources", "storage", "power", "guests">>,
     http |-> <<"guests", "storage", "power", "resources", "overview">>]

Span(h, s) == [h |-> h, s |-> s]

Filesystem(mounted, percent, tib, mib) ==
    [mounted |-> mounted, used_percent |-> percent, available |-> [tib |-> tib, mib |-> mib]]

Disk(status, temperature) == [status |-> status, temperature |-> temperature]

Guest(status, cpu) == [status |-> status, cpu |-> cpu]

Ups(status, stale, battery, load, watts, runtime) ==
    [status |-> status, stale |-> stale, battery |-> battery, load |-> load, watts |-> watts,
     runtime |-> runtime]

Filesystems(first) == <<first, Filesystem(TRUE, 40, 0, 2048), Filesystem(TRUE, 50, 3, 4096),
                        Filesystem(FALSE, 0, 0, 0)>>

Disks(first) == <<first>> \o [k \in 1..5 |-> Disk("healthy", <<30>>)]

Guests(n, status) == [k \in 1..n |-> Guest(IF k = n THEN status ELSE "running", 10 * k)]

\* The largest u32 of seconds.
LongestAge == Span(1193046, 1695)

PossibleAges == {<<>>} \cup {<<age>> : age \in {Span(0, 59), Span(0, 3599), Span(1, 0), Span(23, 3599), Span(24, 0),
                                         Span(47, 3599), Span(48, 0), LongestAge}}

UsualSnapshot ==
    [level |-> "healthy", message |-> "OK", uptime |-> 30, network_up |-> TRUE, mbps |-> 1000,
     internet |-> "reachable", ipv4 |-> <<192, 168, 178, 20>>, interface |-> "eth0",
     cpu |-> 10, memory_used |-> 4096, memory_total |-> 16384, io_pressure |-> 0, load |-> 50,
     filesystems |-> Filesystems(Filesystem(TRUE, 30, 0, 100)), smart |-> Disks(Disk("healthy", <<30>>)),
     backup |-> [status |-> "healthy", age |-> <<Span(5, 0)>>],
     ups |-> Ups("online", FALSE, <<100>>, <<20>>, <<100>>, <<Span(0, 1800)>>),
     last_ok |-> <<Span(0, 5)>>, guests |-> Guests(3, "running")]

UpsStates == {"not_configured", "unknown", "unavailable", "online", "on_battery", "low_battery",
              "charging", "bypass", "output_off", "replace_battery"}

\* Strings stand for the messages; the longest is longer than the buffer of the LCD.
AllChanges ==
    [level |-> {"warning", "critical"},
     message |-> {"ROOT DISK AT 97 PERCENT"},
     uptime |-> {0, 31, LongestAge.h},
     network_up |-> {FALSE},
     mbps |-> {0, 100, 2500, 65535},
     internet |-> {"checking", "missed", "failed"},
     ipv4 |-> {<<0, 0, 0, 0>>, <<255, 255, 255, 255>>},
     interface |-> {""},
     cpu |-> {0, 86, 95, 100},
     memory_used |-> {0, 16384, 2^16 * 20}, memory_total |-> {0, 1024, 4096},
     io_pressure |-> {100}, load |-> {0, 5, 65535},
     filesystems |-> {Filesystems(f) : f \in {Filesystem(FALSE, 0, 0, 0)} \cup
                        {Filesystem(TRUE, p, 0, 100) : p \in {90, 91}} \cup
                        {Filesystem(TRUE, 30, 0, m) : m \in {1023, 1024, 1535, 1536, 2^20 - 1}} \cup
                        {Filesystem(TRUE, 30, t, m) : t \in {1, 4095}, m \in {0, 2^20 - 1}}},
     smart |-> {Disks(Disk(status, t)) : status \in {"healthy", "warning", "failed", "sleeping", "unknown"},
                                         t \in {<<>>, <<0>>, <<-128>>, <<127>>}},
     backup |-> {[status |-> status, age |-> age] :
                   status \in {"healthy", "running", "failed", "stale", "no_job", "unknown"}, age \in PossibleAges},
     ups |-> {Ups(status, stale, <<100>>, <<100>>, <<65535>>, <<LongestAge>>) :
                status \in UpsStates, stale \in BOOLEAN}
             \cup {Ups("online", FALSE, b, l, w, r) : b \in {<<>>, <<0>>}, l \in {<<>>, <<100>>},
                                                      w \in {<<>>, <<0>>}, r \in {<<>>, <<Span(23, 3599)>>}},
     last_ok |-> PossibleAges,
     guests |-> {Guests(n, status) : n \in {0, 1, 4, 5, 8, 9}, status \in {"running", "stopped"}}]

\* The message of a rule comes with its level.
UnwellSnapshot == [UsualSnapshot EXCEPT !.level = "warning"]

=============================================================================
