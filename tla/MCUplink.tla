------------------------------ MODULE MCUplink ------------------------------
(***************************************************************************)
(* Uplink for TLC: 1 has the route; 2 is a bond or a VLAN, 3 and 4 network *)
(* cards, 5 the tap of a guest.                                            *)
(***************************************************************************)
EXTENDS Naturals, FiniteSets

Node(slave, ports, lower) ==
    [present |-> TRUE, active_slave |-> slave, ports |-> ports, lower |-> lower,
     device |-> FALSE, virtual |-> FALSE, up |-> TRUE, speed |-> 0]

Card(up, speed) == [Node(0, <<>>, {}) EXCEPT !.device = TRUE, !.up = up, !.speed = speed]
Tap == [Node(0, <<>>, {}) EXCEPT !.virtual = TRUE, !.speed = 5]
Gone == [Tap EXCEPT !.present = FALSE]

Bridges == {Node(0, <<ports>>, {}) : ports \in SUBSET {2, 3, 4, 5}}
Vlans == {Node(0, <<>>, {l}) : l \in {1, 2, 3}}
Bonds == {Node(slave, <<>>, {3, 4}) : slave \in {0, 3, 4}}
Top == Bridges \cup Vlans \cup Bonds \cup {Card(TRUE, 2)}
Second == Vlans \cup Bonds

MCHosts ==
    {<<top, second, card, Card(TRUE, 1), tap>> :
        top \in Top, second \in Second, card \in {Card(TRUE, 2), Card(FALSE, 0), Gone}, tap \in {Tap, Gone}}

Default(i, up, metric) == [interface |-> i, default |-> TRUE, up |-> up, metric |-> metric]

MCTables ==
    {{Default(1, TRUE, 100), Default(2, TRUE, 200)}, {Default(1, FALSE, 100), Default(2, TRUE, 200)},
     {[Default(1, TRUE, 100) EXCEPT !.default = FALSE]}}

MCIpAnswers == {[route |-> 1, src |-> 12, address |-> 12], [route |-> 0, src |-> 0, address |-> 12]}

=============================================================================
