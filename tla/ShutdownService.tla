-------------------------- MODULE ShutdownService ---------------------------
(***************************************************************************)
(* What holding the button promises, whatever carries it out: a request    *)
(* belongs to the connection it is made in.  It may be lost, but it is     *)
(* served at most once, never after that connection has ended, and every   *)
(* power-off of the host is the single effect of one served request.       *)
(***************************************************************************)
EXTENDS Naturals

VARIABLES session,   \* the connection, 0 before the first
          pending,   \* requests made in it that have not been served or lost
          serving,   \* the request being served: "none", "accepted" or "issued"
          power      \* the host: "up", "stopping" or "off"

serviceVars == <<session, pending, serving, power>>

Init ==
    /\ session = 0
    /\ pending = 0
    /\ serving = "none"
    /\ power = "up"

\* A new connection: what was asked in the old one is void.
Connect ==
    /\ serving = "none"
    /\ session' = session + 1
    /\ pending' = 0
    /\ UNCHANGED <<serving, power>>

Request ==
    /\ session # 0
    /\ pending' = pending + 1
    /\ UNCHANGED <<session, serving, power>>

Lose ==
    /\ pending > 0
    /\ pending' \in 0..(pending - 1)
    /\ UNCHANGED <<session, serving, power>>

Accept ==
    /\ serving = "none" /\ pending > 0
    /\ serving' = "accepted"
    /\ pending' = pending - 1
    /\ UNCHANGED <<session, power>>

\* The one step that powers the host off.
PowerOff ==
    /\ serving = "accepted"
    /\ serving' = "issued"
    /\ power' = "stopping"
    /\ UNCHANGED <<session, pending>>

\* Service ends: refused by the system, cut short, or complete.
Finish ==
    /\ serving # "none"
    /\ serving' = "none"
    /\ UNCHANGED <<session, pending, power>>

Halt ==
    /\ power = "stopping"
    /\ power' = "off"
    /\ serving' = "none"
    /\ UNCHANGED <<session, pending>>

Boot ==
    /\ power = "off"
    /\ power' = "up"
    /\ UNCHANGED <<session, pending, serving>>

Next == Connect \/ Request \/ Lose \/ Accept \/ PowerOff \/ Finish \/ Halt \/ Boot

Spec == Init /\ [][Next]_serviceVars

=============================================================================
