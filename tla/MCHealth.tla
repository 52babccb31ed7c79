------------------------------ MODULE MCHealth ------------------------------
(* HealthCollector for TLC.                                                *)
EXTENDS HealthCollector

\* What the collector reports follows its readings: HEALTHY only while everything is
\* well, a UPS that does not answer unavailable in time, and of several incidents the
\* worst, the first of its severity.
CollectorInv == HealthyMeansWell /\ UnavailableOnTime /\ FirstWorstReported

\* A configuration found valid works for every number of guests: its manifests can be
\* built, they show everything once, and they change only with the number of pages.
LayoutInv == ValidConfigWorks /\ EverythingShown /\ PageCountTracksPages

-----------------------------------------------------------------------------
(* Configurations: the installed one with one or two sections changed.     *)

Names == <<"a", "b", "c", "d", "e", "f", "g", "h", "i", "j", "k">>
FirstIds(n) == SubSeq(Names, 1, n)
Sources(n) == [k \in 1..n |-> Source(Names[k])]
NoRules == [DeployedConfig EXCEPT !.rules = <<>>]

Views(n, m) ==
    [storage |-> [layout |-> "storage", filesystems_left |-> FALSE,
                  filesystems |-> FirstIds(n), smart |-> FirstIds(m)],
     guests |-> [layout |-> "guests", paginate |-> TRUE, offset |-> 0, limit |-> 4],
     first |-> [layout |-> "guests", paginate |-> FALSE, offset |-> 2, limit |-> 2]]

Http(enabled, views, port) ==
    <<[enabled |-> enabled, hostname_valid |-> TRUE, port |-> port, views |-> views]>>

\* Storage views of up to 7 filesystems and 11 disks, of which a source may be missing.
StorageConfigs ==
    {[NoRules EXCEPT !.filesystems = Sources(7), !.smart = Sources(disks), !.views = Views(n, m),
                     !.lcd = lcd, !.http = http] :
        disks \in {5, 11}, n \in {0, 1, 3, 4, 7}, m \in {0, 5, 6, 11},
        lcd \in {<<>>, <<"guests">>, <<"first", "storage", "guests">>},
        http \in {<<>>, Http(TRUE, <<"storage">>, 80), Http(TRUE, <<>>, 80), Http(FALSE, <<>>, 80),
                  Http(TRUE, <<"guests", "unknown">>, 80)}}

TimingConfigs ==
    {[NoRules EXCEPT !.hold_time = hold, !.animation_delay = delay, !.version = version] :
        hold \in {0, 1, 65535, 65536}, delay \in {0, 1, 65535}, version \in {1, 2}}

RuleConfigs ==
    {[DeployedConfig EXCEPT !.rules[1].id = id, !.rules[7].when = when, !.filesystems[2].id = fs] :
        id \in {"ups", "", "smart_failed"}, fs \in {"hdd", "root"},
        when \in {<<NotMounted("root")>>, <<NotMounted("nowhere")>>, <<AllOf({})>>,
                  <<AnyOf({2, 3}), NotMounted("root"), NotMounted("nowhere")>>,
                  <<[NotMounted("root") EXCEPT !.comparisons = <<>>]>>}}

TriedConfigs == {DeployedConfig} \cup StorageConfigs \cup TimingConfigs \cup RuleConfigs

-----------------------------------------------------------------------------
(* Readings.                                                               *)

\* On line, discharged, and a flag that parse_upsc does not know; upsc may also fail.
ThreeFlags == {{"OL", "CHRG"}, {"OB", "LB"}, {"CAL"}}

Task(start, end, ok) == [local |-> TRUE, starttime |-> start, endtime |-> end, ok |-> ok]
Answer(tasks) == [answered |-> TRUE, jobs |-> <<[enabled |-> "nonzero", here |-> TRUE]>>, tasks |-> tasks]

\* In hour 48, newest first: a recent success; a failure after one; a run in
\* progress long after the last success; no answer.
FourHistories ==
    {Answer(<<Task(40, <<41>>, TRUE), Task(16, <<17>>, TRUE)>>),
     Answer(<<Task(44, <<45>>, FALSE), Task(40, <<41>>, TRUE)>>),
     Answer(<<Task(47, <<>>, FALSE), Task(10, <<11>>, TRUE)>>),
     [Answer(<<>>) EXCEPT !.answered = FALSE]}

Df(used) == [success |-> TRUE, mounted_there |-> TRUE, used_percent |-> used]

\* At the limit, and one filesystem not mounted.
TwoUsages == {<<Df(90), Df(20), Df(20)>>, <<Df(20), [Df(20) EXCEPT !.mounted_there = FALSE], Df(20)>>}

Disk == [answered |-> TRUE, standby |-> FALSE, passed |-> <<TRUE>>, failing |-> FALSE,
         prefail |-> FALSE, temperature |-> <<54>>, success |-> TRUE]

\* One disk asleep, and one too hot.
TwoDisks ==
    {<<Disk, Disk, [Disk EXCEPT !.standby = TRUE], Disk, Disk>>,
     <<Disk, Disk, Disk, Disk, [Disk EXCEPT !.temperature = <<55>>]>>}

\* Just below every limit.
UsualLoad == {[cpu |-> 84, memory_used |-> 89, memory_total |-> 100, io_pressure |-> 49]}
=============================================================================
