------------------------------- MODULE Uplink -------------------------------
(***************************************************************************)
(* read_network of host/src/health.rs: which interface the host's traffic  *)
(* leaves by, found from the default route down through bridges, bonds and *)
(* VLANs, and the state of its link.                                       *)
(*                                                                         *)
(* ip and the kernel (/proc/net/route, /sys/class/net) are external.  A    *)
(* directory of sysfs lists its entries in any order, so a choice of the   *)
(* first is a choice of any.  Each interface is read as it is when         *)
(* read_network runs.                                                      *)
(***************************************************************************)
EXTENDS Naturals, FiniteSets, SequencesExt, FiniteSetsExt

CONSTANTS Interfaces,     \* names of interfaces; numbers, for their order
          Hosts,          \* sysfs as an administrator may have set it up
          Tables,         \* /proc/net/route
          IpAnswers       \* what the executables of ip may answer

NoAddress == 0

\* active_slave, ports and lower name interfaces that need not be there; only a bridge
\* has ports (an Option), NoInterface is an empty active_slave or none.
NoInterface == 0

Devices ==
    [present : BOOLEAN, device : BOOLEAN, virtual : BOOLEAN, up : BOOLEAN, speed : Nat,
     active_slave : Interfaces \cup {NoInterface}, lower : SUBSET Interfaces,
     ports : {<<>>} \cup {<<ports>> : ports \in SUBSET Interfaces}]

UplinkAssumption ==
    /\ Interfaces \subseteq Nat \ {0} /\ IsFiniteSet(Interfaces)
    /\ Hosts \subseteq [Interfaces -> Devices]
    /\ \A answer \in IpAnswers : answer.route \in Interfaces \cup {NoInterface}
    /\ \A table \in Tables : \A r \in table : r.interface \in Interfaces

VARIABLES sysfs,      \* /sys/class/net
          ip,         \* answer of ip: route and src of `route get`, address of `address show`
          routes,     \* /proc/net/route
          network     \* HealthCollector.network

vars == <<sysfs, ip, routes, network>>

Exists(i) == sysfs[i].present

Unknown == [interface |-> NoInterface, up |-> FALSE, mbps |-> 0, ipv4 |-> NoAddress]

-----------------------------------------------------------------------------
(* The route.                                                              *)

\* Mutant: routes whose interface is down count.
DefaultsOfAny == {r \in routes : r.default}

\* Destination and mask zero, and flag RTF_UP.
Defaults == {r \in routes : r.default /\ r.up}

\* parse_default_route: the lowest metric, the first of several.
parse_default_route ==
    IF Defaults = {} THEN {}
    ELSE {r.interface : r \in {s \in Defaults : \A t \in Defaults : s.metric <= t.metric}}

\* read_route: what ip says, or the kernel's table and the address ip gives for it.
Routes ==
    IF ip.route # NoInterface THEN {[interface |-> ip.route, ipv4 |-> ip.src]}
    ELSE {[interface |-> i, ipv4 |-> ip.address] : i \in parse_default_route}

-----------------------------------------------------------------------------
(* resolve_interface.                                                      *)

\* Mutant: what is plugged in where the interface is not physical counts first.
LinkFirst(i) == (IF sysfs[i].up THEN 100 ELSE 0) + (IF sysfs[i].device THEN 10 ELSE 0) + sysfs[i].speed

\* The key of max_by_key: physical, then up, then fast.
Preference(i) ==
    (IF sysfs[i].device THEN 100 ELSE 0) + (IF sysfs[i].up THEN 10 ELSE 0) + sysfs[i].speed

\* The last of the best in the order of the names.
Preferred(candidates) ==
    Max({i \in candidates : \A j \in candidates : Preference(j) <= Preference(i)})

\* What resolve_interface may return for an interface that is there, where it may return
\* below[l] for what is below it: by the active slave, else by the ports of a bridge, else
\* by the first lower interface, else the interface itself.  NoInterface is None.
ResolvedBy(j, below) ==
    LET bySlave == IF sysfs[j].active_slave = NoInterface THEN {NoInterface}
                   ELSE below[sysfs[j].active_slave]
        \* one resolution for each port that has one
        ports == {p \in sysfs[j].ports[1] : below[p] # {NoInterface}}
        choices == {g \in [ports -> UNION {below[p] : p \in ports}] : \A p \in ports : g[p] \in below[p]}
        byPort == {Preferred(Range(g) \ {NoInterface}) :
                     g \in {h \in choices : Range(h) \ {NoInterface} # {}}}
        byLower == IF sysfs[j].lower = {} THEN {NoInterface}
                   ELSE UNION {below[l] : l \in sysfs[j].lower}
        others == IF sysfs[j].ports # <<>>
                  THEN IF byPort = {} THEN {NoInterface} ELSE byPort
                  ELSE {IF r = NoInterface THEN j ELSE r : r \in byLower}
    IN  (bySlave \ {NoInterface}) \cup (IF NoInterface \in bySlave THEN others ELSE {})

\* The interfaces resolve_interface may return.  Every branch starts with what leads to
\* it as visited: what a branch that failed has visited fails again.
Resolved(i, visited) ==
    LET resolved[seen \in SUBSET Interfaces] == [j \in Interfaces |->
          IF j \in seen \/ ~Exists(j) THEN {NoInterface}
          ELSE ResolvedBy(j, resolved[seen \cup {j}])]
    IN  resolved[visited][i]

\* Mutant: without a physical interface it is any card of the host.
AnyCard(routed) ==
    {IF r = NoInterface /\ \E i \in Interfaces : sysfs[i].device
     THEN Min({i \in Interfaces : sysfs[i].device}) ELSE r : r \in Resolved(routed, {})}

\* read_network: without a physical interface it is the routed one.
Physical(routed) == {IF r = NoInterface THEN routed ELSE r : r \in Resolved(routed, {})}

\* read_link of an interface that may not be there.
read_link(i) == IF Exists(i) THEN [up |-> sysfs[i].up, mbps |-> sysfs[i].speed]
                ELSE [up |-> FALSE, mbps |-> 0]

\* read_network
Refresh ==
    /\ IF Routes = {} THEN network' = Unknown
       ELSE \E route \in Routes : \E i \in Physical(route.interface) :
              network' = [interface |-> i, ipv4 |-> route.ipv4,
                          up |-> read_link(i).up, mbps |-> read_link(i).mbps]
    /\ UNCHANGED <<sysfs, ip, routes>>

-----------------------------------------------------------------------------
(* The host.                                                               *)

\* A cable is plugged in or out; a bond with an active slave changes to another member
\* that is up.
Replug(i) ==
    /\ Exists(i) /\ sysfs[i].device
    /\ LET plugged == [sysfs EXCEPT ![i].up = ~@]
           Failover(b) ==
             LET members == {m \in sysfs[b].lower : plugged[m].present /\ plugged[m].up}
             IN  IF sysfs[b].active_slave = NoInterface \/ sysfs[b].active_slave \in members \/ members = {}
                 THEN sysfs[b].active_slave ELSE Min(members)
       IN  sysfs' = [j \in Interfaces |-> [plugged[j] EXCEPT !.active_slave = Failover(j)]]
    /\ UNCHANGED <<ip, routes, network>>

\* ip fails, or finds a route again.
IpChanges ==
    /\ ip' \in IpAnswers
    /\ UNCHANGED <<sysfs, routes, network>>

Init ==
    /\ sysfs \in Hosts
    /\ ip \in IpAnswers
    /\ routes \in Tables
    /\ network = Unknown

Next == Refresh \/ IpChanges \/ \E i \in Interfaces : Replug(i)

Spec == Init /\ [][Next]_vars

-----------------------------------------------------------------------------
(* Properties.                                                             *)

Below(i) ==
    {j \in sysfs[i].lower \cup {sysfs[i].active_slave}
           \cup (IF sysfs[i].ports = <<>> THEN {} ELSE sysfs[i].ports[1]) : j # NoInterface}

\* What the interfaces of a set are built on: the least set that holds them and, with an
\* interface that is there, what is below it.
Reach(set) ==
    {j \in Interfaces :
        \A closed \in SUBSET Interfaces :
            /\ set \subseteq closed
            /\ \A i \in closed : Exists(i) => {l \in Below(i) : Exists(l)} \subseteq closed
            => j \in closed}

\* The routed interface of a host whose stack is sound: no cycle, nothing missing, and
\* something under every bridge, bond and VLAN.
Sound(routed) ==
    /\ Exists(routed)
    /\ \A i \in Reach({routed}) :
          /\ \A j \in Below(i) : Exists(j) /\ i \notin Reach({j})
          /\ sysfs[i].ports # <<>> => sysfs[i].ports[1] # {}
          /\ Below(i) = {} => sysfs[i].device \/ sysfs[i].virtual

\* Whatever the stack, cycles and vanished members included, the interface that is
\* reported carries the routed traffic: it is the routed one or lies below it.
CarriesRoute ==
    [][Refresh /\ network'.interface # NoInterface
         => \E route \in Routes : network'.interface \in Reach({route.interface})]_vars

\* Through any sound stack of bridges, bonds and VLANs that ends in a physical interface
\* a physical interface is found, not the tap of a guest, however fast.
FindsPhysical ==
    [][Refresh /\ network'.interface # NoInterface =>
         \A route \in Routes :
            (Routes = {route} /\ Sound(route.interface)
               /\ \E i \in Reach({route.interface}) : sysfs[i].device)
            => sysfs[network'.interface].device]_vars

\* With ip failing, an address is never reported for a route the kernel does not use:
\* the interface lies below an active default route of the lowest metric.
FallbackUsesActive ==
    [][Refresh /\ ip.route = NoInterface /\ network'.interface # NoInterface
         => \E r \in routes : /\ r.default /\ r.up
                              /\ \A s \in routes : s.default /\ s.up => r.metric <= s.metric
                              /\ network'.interface \in Reach({r.interface})]_vars

\* configuration.md: "the network interface is always resolved from the default IPv4 route
\* through any Proxmox bridge, bond, or VLAN."  While the bond that has the route has a
\* member that is up, network.uplink.up holds.
BondUp ==
    [][Refresh /\ ip.route # NoInterface /\ Cardinality(sysfs[ip.route].lower) = 2
         /\ (\A m \in sysfs[ip.route].lower : Exists(m) /\ sysfs[m].device)
         /\ (\E m \in sysfs[ip.route].lower : sysfs[m].up) => network'.up]_vars

=============================================================================
