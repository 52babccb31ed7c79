------------------------------ MODULE MockHost ------------------------------
(***************************************************************************)
(* The mock host (mock-host/src) on the other end of the stick's USB link: *)
(* a program for trying the display with sample data on any computer.  It  *)
(* opens the port without skipping to a delimiter, sends one fixed         *)
(* snapshot again and again, and plays a shutdown when the button is held. *)
(* The snapshot's values are of no account here, and neither is their      *)
(* interval, as long as it is shorter than LINK_TIMEOUT.                   *)
(***************************************************************************)
EXTENDS Stick

CONSTANT MaxSessions     \* bound on starts of the program

MockAssumption == MaxSessions \in Nat \ {0}

VARIABLES proc,                    \* "down" or "running"
          started,                 \* starts so far
          handshake_established,
          step,                    \* of poweroff, 0 outside it
          exited                   \* ghost: the program has ended by itself

mockVars == <<proc, started, handshake_established, step, exited>>
linkVars == <<toStick, toHost, faults>>
vars == <<mockVars, stickVars, linkVars>>

\* The nonce is the time of the start.
handshake_nonce == started

\* ConsoleShutdown::poweroff: the phases, one every half second.
Progress == <<"PreparingGuests", "StoppingGuests", "StoppingGuests", "StoppingGuests",
              "StoppingGuests", "GuestsStopped", "PoweringOff">>

TypeOK ==
    /\ proc \in {"down", "running"} /\ started \in 0..MaxSessions
    /\ handshake_established \in BOOLEAN /\ exited \in BOOLEAN
    /\ step \in 0..Len(Progress)
    /\ step > 0 => proc = "running"
    /\ StickTypeOK /\ LinkTypeOK

Init ==
    /\ LinkInit /\ StickInit
    /\ proc = "down" /\ started = 0 /\ handshake_established = FALSE /\ step = 0 /\ exited = FALSE

InLoop == proc = "running" /\ step = 0

Writes(frame) == HasRoom(toStick) /\ toStick' = PutHost(frame) /\ UNCHANGED faults

\* main: the port is opened and a nonce drawn.
Start ==
    /\ proc = "down" /\ started < MaxSessions
    /\ proc' = "running" /\ started' = started + 1
    /\ handshake_established' = FALSE /\ exited' = FALSE
    /\ UNCHANGED <<step, linkVars>>

\* The next_hello timer.
SendHello ==
    /\ InLoop /\ ~handshake_established
    /\ Writes(HostFrame("Hello", handshake_nonce, 0))
    /\ UNCHANGED <<mockVars, toHost>>

\* Mutant: sample data is sent from the start.
FromTheStart == TRUE

MaySend == handshake_established

\* The next_update timer.
SendSnapshot ==
    /\ InLoop /\ MaySend
    /\ Writes(HostFrame("HealthSnapshot", handshake_nonce, 1))
    /\ UNCHANGED <<mockVars, toHost>>

Reads(kinds) == Readable(toHost) /\ Head(toHost).kind \in kinds /\ toHost' = Tail(toHost)

\* Mutant: the nonce of another start is waited for.
AcknowledgesOther(m) == m.kind = "Hello" /\ m.session \notin {NoSession, handshake_nonce}

Acknowledges(m) == m.kind = "Hello" /\ m.session = handshake_nonce

\* A Hello counts if it acknowledges this start; anything else but a request is passed over.
ReadOther ==
    /\ InLoop /\ Reads({"Hello", "Garbled", "Foreign"})
    /\ handshake_established' = (handshake_established \/ Acknowledges(Head(toHost)))
    /\ UNCHANGED <<proc, started, step, exited, toStick, faults>>

\* Mutant: the request is acknowledged, and the loop goes on.
RequestKeepsLoop == 0

RequestStep == 1

\* EventHandler::handle, with shutdown allowed.
ReadRequest ==
    /\ InLoop /\ Reads({"ShutdownRequested"})
    /\ Writes(HostFrame("ShutdownAccepted", handshake_nonce, 0))
    /\ step' = RequestStep
    /\ UNCHANGED <<proc, started, handshake_established, exited>>

\* poweroff: a phase, and after the last of them the message and the end of main.
Plays ==
    /\ step > 0
    /\ Writes(HostFrame(Progress[step], handshake_nonce, 0))
    /\ IF step < Len(Progress)
       THEN step' = step + 1 /\ UNCHANGED <<proc, exited>>
       ELSE step' = 0 /\ proc' = "down" /\ exited' = TRUE
    /\ UNCHANGED <<started, handshake_established, toHost>>

\* The program is stopped, or the port fails under it; a frame may be cut.
Stops ==
    /\ proc = "running" /\ Fault
    /\ proc' = "down" /\ step' = 0
    /\ toStick' \in {toStick} \cup (IF HasRoom(toStick) THEN {PutHost(HostNoise("Fragment"))} ELSE {})
    /\ UNCHANGED <<started, handshake_established, exited, toHost>>

\* What nobody has read while the port was closed may be gone.
LosesInput ==
    /\ proc = "down" /\ toHost # <<>>
    /\ toHost' = Tail(toHost)
    /\ UNCHANGED <<mockVars, toStick, faults>>

MockStep == SendHello \/ SendSnapshot \/ ReadOther \/ ReadRequest \/ Plays

Next ==
    \/ (Start \/ MockStep \/ Stops \/ LosesInput) /\ UNCHANGED stickVars
    \/ StickNext /\ UNCHANGED mockVars

Spec == Init /\ [][Next]_vars

ByMock(A) == A /\ UNCHANGED stickVars
ByStick(A) == A /\ UNCHANGED mockVars

\* The program is started once, its timers fire and it reads, and the stick's loop runs.
Fairness ==
    /\ WF_vars(ByMock(Start /\ started = 0)) /\ WF_vars(ByMock(Plays))
    /\ SF_vars(ByMock(SendHello)) /\ SF_vars(ByMock(SendSnapshot))
    /\ WF_vars(ByMock(ReadOther)) /\ SF_vars(ByMock(ReadRequest))
    /\ WF_vars(ByStick(TxPoll)) /\ WF_vars(ByStick(HelloTimer))
    /\ WF_vars(ByStick(ReceiveHello)) /\ WF_vars(ByStick(IgnoreFrame))
    /\ WF_vars(ByStick(ReceiveSnapshot \/ ReceiveProgress))

FairSpec == Spec /\ Fairness

-----------------------------------------------------------------------------
(* Properties.                                                             *)

\* Whatever an earlier start of the mock host has left on the wire, the stick shows
\* sample data only in the session it was sent in.
SnapshotScoped == [][ReceiveSnapshot => Head(toStick).session = daemon_session]_vars

\* No fault so far.
Undisturbed == faults = MaxFaults

\* README: "The mock host sends deterministic sample metrics": once it runs, undisturbed,
\* the stick shows them.
SamplesShown == <>(daemon = "Connected" \/ ~Undisturbed)

Pressed == \E i \in DOMAIN queue : queue[i].kind = "ShutdownRequested"

\* README: "A long press in mock mode prints the shutdown request and exits."
PressExits == Pressed ~> (exited \/ ~Undisturbed)

=============================================================================
