------------------------------ MODULE Station -------------------------------
(***************************************************************************)
(* Station mode of the stick: the tasks of firmware/src/network.rs that    *)
(* join the Wi-Fi network, follow the address DHCP leases, announce the    *)
(* hostname by mDNS, and start the web server.                             *)
(*                                                                         *)
(* The access point, the DHCP server, the radio and embassy-net are        *)
(* external.  The tasks share one cooperative executor, which polls every  *)
(* task an event of the network stack has woken before that stack runs     *)
(* again; so events of the stack need the tasks to be settled.             *)
(***************************************************************************)
EXTENDS Naturals

CONSTANTS Addresses,     \* addresses DHCP may lease
          MaxEvents      \* budget of changes of the environment

None == 0

StationAssumption == None \notin Addresses /\ MaxEvents \in Nat

VARIABLES reachable,       \* the access point accepts the stick
          controller,      \* station_connection: "connecting", "connected" or "waiting"
          config_v4,       \* address of the stack's configuration
          tracker,         \* address_tracker waits for the configuration to be "up" or "down"
          station_ipv4,    \* STATE.station_ipv4
          STATION_IPV4,    \* the copy the LCD reads
          mdns,            \* mdns_responder: "up", "running" or "waiting"
          announced,       \* address its host answers with
          serving,         \* http_server is past wait_config_up
          events

taskVars == <<tracker, station_ipv4, STATION_IPV4, mdns, announced, serving>>
vars == <<reachable, controller, config_v4, taskVars, events>>

TypeOK ==
    /\ reachable \in BOOLEAN
    /\ controller \in {"connecting", "connected", "waiting"}
    /\ {config_v4, station_ipv4, STATION_IPV4, announced} \subseteq Addresses \cup {None}
    /\ tracker \in {"up", "down"} /\ mdns \in {"up", "running", "waiting"}
    /\ serving \in BOOLEAN
    /\ controller # "connected" => config_v4 = None

Init ==
    /\ reachable \in BOOLEAN /\ controller = "connecting" /\ config_v4 = None
    /\ tracker = "up" /\ station_ipv4 = None /\ STATION_IPV4 = None
    /\ mdns = "up" /\ announced = None /\ serving = FALSE
    /\ events = MaxEvents

Up == config_v4 # None

-----------------------------------------------------------------------------
(* The tasks.                                                              *)

\* Mutant: the LCD keeps the last address.
LcdAddressKept == IF Up THEN config_v4 ELSE STATION_IPV4

LcdAddress == config_v4

\* address_tracker, woken by the configuration it waits for.
Tracks ==
    /\ tracker = IF Up THEN "up" ELSE "down"
    /\ tracker' = IF Up THEN "down" ELSE "up"
    /\ station_ipv4' = config_v4
    /\ STATION_IPV4' = LcdAddress
    /\ UNCHANGED <<reachable, controller, config_v4, mdns, announced, serving, events>>

\* mdns_responder binds for the address; an error is tried again after a second.
MdnsStarts ==
    /\ mdns = "up" /\ Up
    /\ \/ mdns' = "running" /\ announced' = config_v4
       \/ mdns' = "waiting" /\ announced' = None /\ events > 0
    /\ events' = IF mdns' = "waiting" THEN events - 1 ELSE events
    /\ UNCHANGED <<reachable, controller, config_v4, tracker, station_ipv4, STATION_IPV4, serving>>

\* Mutant: the responder runs until it fails.
MdnsKeepsRunning == FALSE

\* select: the configuration has gone.
MdnsLosesConfig == mdns = "running" /\ ~Up

MdnsEnds ==
    /\ MdnsLosesConfig
    /\ mdns' = "up" /\ announced' = None
    /\ UNCHANGED <<reachable, controller, config_v4, tracker, station_ipv4, STATION_IPV4, serving, events>>

\* run returns on an error of the socket.
MdnsFails ==
    /\ mdns = "running" /\ events > 0 /\ events' = events - 1
    /\ mdns' = "waiting" /\ announced' = None
    /\ UNCHANGED <<reachable, controller, config_v4, tracker, station_ipv4, STATION_IPV4, serving>>

\* Mutant: after an error the responder waits for the configuration to change.
MdnsTimerWhenDown ==
    /\ mdns = "waiting" /\ ~Up
    /\ mdns' = "up"
    /\ UNCHANGED <<reachable, controller, config_v4, tracker, station_ipv4, STATION_IPV4, announced,
                   serving, events>>

MdnsTimer ==
    /\ mdns = "waiting"
    /\ mdns' = "up"
    /\ UNCHANGED <<reachable, controller, config_v4, tracker, station_ipv4, STATION_IPV4, announced,
                   serving, events>>

\* http_server waits for an address once; Dashboard goes on from here.
HttpStarts ==
    /\ ~serving /\ Up
    /\ serving' = TRUE
    /\ UNCHANGED <<reachable, controller, config_v4, tracker, station_ipv4, STATION_IPV4, mdns,
                   announced, events>>

\* No task has been woken that has not run.
Settled ==
    /\ tracker = IF Up THEN "down" ELSE "up"
    /\ ~(mdns = "up" /\ Up) /\ ~MdnsLosesConfig
    /\ Up => serving

-----------------------------------------------------------------------------
(* station_connection and the network.                                     *)

\* connect_async returns; after a failure the task waits five seconds.
Connect ==
    /\ controller = "connecting"
    /\ controller' = IF reachable THEN "connected" ELSE "waiting"
    /\ UNCHANGED <<reachable, config_v4, taskVars, events>>

\* Mutant: the task ends after a connection it has lost.
AfterDisconnectEnds == "disconnected"

AfterDisconnect == "waiting"

\* wait_for_disconnect_async returns: the link is down, and the stack drops its address.
Disconnect ==
    /\ controller = "connected" /\ Settled
    /\ ~reachable \/ events > 0
    /\ events' = IF reachable THEN events - 1 ELSE events
    /\ controller' = AfterDisconnect
    /\ config_v4' = None
    /\ UNCHANGED <<reachable, taskVars>>

RetryTimer ==
    /\ controller = "waiting"
    /\ controller' = "connecting"
    /\ UNCHANGED <<reachable, config_v4, taskVars, events>>

\* DHCP: a lease, not necessarily of the address the stick had before.
Leases ==
    /\ controller = "connected" /\ Settled /\ ~Up
    /\ config_v4' \in Addresses
    /\ UNCHANGED <<reachable, controller, taskVars, events>>

\* The lease expires, or the server refuses to renew it.
LosesLease ==
    /\ Up /\ Settled /\ events > 0 /\ events' = events - 1
    /\ config_v4' = None
    /\ UNCHANGED <<reachable, controller, taskVars>>

AccessPointChanges ==
    /\ events > 0 /\ events' = events - 1
    /\ reachable' = ~reachable
    /\ UNCHANGED <<controller, config_v4, taskVars>>

Next ==
    \/ Tracks \/ MdnsStarts \/ MdnsEnds \/ MdnsFails \/ MdnsTimer \/ HttpStarts
    \/ Connect \/ Disconnect \/ RetryTimer \/ Leases \/ LosesLease \/ AccessPointChanges

Spec == Init /\ [][Next]_vars

\* Woken tasks are polled, timers fire, connect_async returns, the radio reports a link
\* that is gone, and the DHCP server of a network the stick has joined answers.
Fairness ==
    /\ WF_vars(Tracks) /\ WF_vars(MdnsStarts) /\ WF_vars(MdnsEnds) /\ WF_vars(MdnsTimer)
    /\ WF_vars(HttpStarts) /\ WF_vars(Connect) /\ WF_vars(RetryTimer)
    /\ WF_vars(Leases) /\ WF_vars(Disconnect /\ ~reachable)

FairSpec == Spec /\ Fairness

-----------------------------------------------------------------------------
(* Properties.                                                             *)

\* network.md: the About card shows "the stick's current DHCP address".  When the tasks
\* have run, the web page and the LCD have the same address, the leased one or none.
AddressCurrent == Settled => station_ipv4 = config_v4 /\ STATION_IPV4 = config_v4

\* mDNS never goes on answering with an address the stick no longer has.
AnnouncesCurrent == Settled => announced \in {None, config_v4}

\* After any outage of the access point, loss of the lease or error of a socket, the
\* stick has an address again, answers to its hostname with it and shows it, for as
\* long as the access point is there.
Rejoins ==
    []<>(reachable => Up /\ serving /\ station_ipv4 = config_v4 /\ announced = config_v4)

=============================================================================
