----------------------------- MODULE MCNetwork ------------------------------
(***************************************************************************)
(* The stick's network tasks, for TLC: Persistence, SetupForm with values  *)
(* of every kind of byte, at and past limits, Station, and Notifications   *)
(* without repeats, which would never let its queue come to rest.  They    *)
(* share no variable here, so what one does is independent of the others:  *)
(* in a behaviour one of them moves, and the others stay as they start.    *)
(***************************************************************************)
EXTENDS Persistence

CONSTANTS Ssids, Passwords, Hostnames, EnteredTopics, MaxName, MaxPassword, MaxTopic, MaxRequest,
          Addresses, MaxEvents,
          N, Configs, QueueCap, MaxFailures

VARIABLES part,     \* the one that moves
          server, form, wire, request, ended, answer, saved,
          reachable, controller, config_v4, tracker, station_ipv4, STATION_IPV4, mdns, announced,
          joined, events,
          incidents, has_snapshot, fresh, config, TEST_NOTIFICATIONS, worker_at, previous, pending,
          next_critical_repeat, failures, received, unannounced

Setup == INSTANCE SetupForm WITH at <- server, Topics <- EnteredTopics
Wifi == INSTANCE Station WITH serving <- joined
Ntfy == INSTANCE Notifications WITH snapshot <- incidents, at <- worker_at

ASSUME Setup!FormAssumption /\ Setup!RequestsFit
ASSUME Wifi!StationAssumption

MCSsids == {<<"!">>, <<"a", " ">>, <<"!", "xC3", "xA9">>, <<"xC3", "xA9", "a", "b">>}
MCPasswords == {<<>>, <<"&", "=">>, <<"%">>, <<"+", "!">>, <<"xC3", "xA9", "a">>}
MCHostnames == {<<"a", "-", "b">>, <<"a", "_">>}
MCTopics == {<<"a">>, <<"b", "_", "2">>, <<"a", "%">>}

\* All messages but repeats.
WithoutRepeats ==
    {[enabled |-> TRUE, warning |-> TRUE, critical |-> TRUE, notify_recovery |-> TRUE,
      repeat_critical |-> FALSE]}

settings == vars
setup == <<server, form, wire, request, ended, answer, saved>>
wifi == <<reachable, controller, config_v4, tracker, station_ipv4, STATION_IPV4, mdns, announced,
          joined, events>>
ntfy == <<incidents, has_snapshot, fresh, config, TEST_NOTIFICATIONS, worker_at, previous, pending,
          next_critical_repeat, failures, received, unannounced>>

NetworkInit ==
    /\ part \in {"settings", "setup", "wifi", "ntfy"}
    /\ Init /\ Setup!Init /\ Wifi!Init /\ Ntfy!Init
    /\ part # "wifi" => ~reachable

NetworkNext ==
    \/ part = "settings" /\ Next /\ UNCHANGED <<setup, wifi, ntfy, part>>
    \/ part = "setup" /\ Setup!Next /\ UNCHANGED <<settings, wifi, ntfy, part>>
    \/ part = "wifi" /\ Wifi!Next /\ UNCHANGED <<settings, setup, ntfy, part>>
    \/ part = "ntfy" /\ Ntfy!Next /\ UNCHANGED <<settings, setup, wifi, part>>

\* The fairness of each, for the behaviours in which it moves.
SettingsFairness ==
    /\ WF_settings(part = "settings" /\ WriteRecord)
    /\ WF_settings(part = "settings" /\ StoreManifest)
    /\ SF_settings(part = "settings" /\ StoreTopic)

SetupFairness ==
    /\ WF_setup(part = "setup" /\ Setup!ReadEnds)
    /\ WF_setup(part = "setup" /\ Setup!Responds)
    /\ WF_setup(part = "setup" /\ Setup!Restarts)

WifiFairness ==
    /\ WF_wifi(part = "wifi" /\ Wifi!Tracks)
    /\ WF_wifi(part = "wifi" /\ Wifi!MdnsStarts)
    /\ WF_wifi(part = "wifi" /\ Wifi!MdnsEnds)
    /\ WF_wifi(part = "wifi" /\ Wifi!MdnsTimer)
    /\ WF_wifi(part = "wifi" /\ Wifi!HttpStarts)
    /\ WF_wifi(part = "wifi" /\ Wifi!Connect)
    /\ WF_wifi(part = "wifi" /\ Wifi!RetryTimer)
    /\ WF_wifi(part = "wifi" /\ Wifi!Leases)
    /\ WF_wifi(part = "wifi" /\ Wifi!Disconnect /\ ~reachable)

NtfyFairness ==
    /\ WF_ntfy(part = "ntfy" /\ (Ntfy!Evaluate \/ Ntfy!SkipRound))
    /\ WF_ntfy(part = "ntfy" /\ (Ntfy!Published \/ Ntfy!PublishFails))

NetworkSpec ==
    /\ NetworkInit /\ [][NetworkNext]_<<settings, setup, wifi, ntfy, part>>
    /\ SettingsFairness /\ SetupFairness /\ WifiFairness /\ NtfyFairness

-----------------------------------------------------------------------------
(* The properties of the parts.  A part that does not move keeps what holds *)
(* of its start, but does not come to what must happen.                     *)

\* The setup form is read to its end however TCP delivers it, saved as it was typed
\* and only with settings that can be used, and the one socket gets back to its next
\* client.
FormKept ==
    /\ [](Setup!SavedUsable /\ Setup!SavedAsTyped /\ Setup!ReadToItsEnd)
    /\ Setup!ServesAgain

\* The address of the lease gets to the LCD, the web page and mDNS, each a task of its
\* own, and all come back after an outage.
AddressFollowed ==
    /\ [](Wifi!TypeOK /\ Wifi!AddressCurrent /\ Wifi!AnnouncesCurrent)
    /\ Wifi!Rejoins

\* When the incidents settle, the subscriber comes to know the state they settled in,
\* through failed deliveries and a queue that overflows.
SettledStateKnown == part = "ntfy" => Ntfy!SettledStateKnown

-----------------------------------------------------------------------------
(* What the documents promise and the code does not do: these fail.        *)

FormIsSaved == Setup!FormIsSaved

=============================================================================
