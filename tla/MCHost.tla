------------------------------- MODULE MCHost -------------------------------
(***************************************************************************)
(* What surrounds the daemon's main loop, for TLC: FrameReader, and the    *)
(* frames of the display (Codec), the programs it runs (Command), its      *)
(* uplink (Uplink) and the mock host, which takes its place (MockHost).    *)
(* They share no variable, so what one does is independent of the others:  *)
(* in a behaviour one of them moves, and the others stay as they start.    *)
(***************************************************************************)
EXTENDS FrameReader, MCUplink

CONSTANTS Versions, Sessions, VarintBytes, OldVersions, MaxCuts,
          PipeCap, MaxOutput, Deadline, Faults,
          Interfaces, Hosts, Tables, IpAnswers,
          WireCap, MaxFaults, FramePages, QueueCap, MaxPresses, MaxSessions

VARIABLES part,     \* the one that moves
          stream, cuts, received,
          child, killed, descendant, written, buffered, reader, caller, polls, errors,
          sysfs, ip, routes, network,
          proc, started, handshake_established, step, exited,
          daemon, daemon_session, queue, last_update, display_pages, page, web_manifest,
          shutdown_display, presses, toStick, toHost, faults

Frames == INSTANCE Codec
Program == INSTANCE Command
Link == INSTANCE Uplink
Mock == INSTANCE MockHost

ASSUME CodecAssumed == Frames!CodecAssumption
ASSUME Program!CommandAssumption
ASSUME UplinkAssumed == Link!UplinkAssumption
ASSUME MockAssumed == /\ Mock!MockAssumption /\ QueueCap \in Nat \ {0} /\ MaxPresses \in Nat
                      /\ WireCap \in Nat \ {0} /\ MaxFaults \in Nat /\ FramePages \in Nat \ {0}

MCVersions == {<<48, 46, 50>>, <<48, 46, 50, 46, 48>>}

\* Where the uplink starts when it does not move.
SomeUplink == <<CHOOSE host \in Hosts : TRUE, CHOOSE answer \in IpAnswers : TRUE,
                CHOOSE table \in Tables : TRUE>>

HostInit ==
    /\ part \in {"reader", "frames", "program", "link", "mock"}
    /\ Init /\ Frames!Init /\ Program!Init /\ Link!Init /\ Mock!Init
    /\ part # "link" => <<sysfs, ip, routes>> = SomeUplink

readerVars == vars
framesVars == <<stream, cuts, received>>
programVars == <<child, killed, descendant, written, buffered, reader, caller, polls, errors>>
linkVars == <<sysfs, ip, routes, network>>
mockVars == <<proc, started, handshake_established, step, exited, daemon, daemon_session, queue,
              last_update, display_pages, page, web_manifest, shutdown_display, presses,
              toStick, toHost, faults>>

HostNext ==
    \/ part = "reader" /\ Next /\ UNCHANGED <<framesVars, programVars, linkVars, mockVars, part>>
    \/ part = "frames" /\ Frames!Next /\ UNCHANGED <<readerVars, programVars, linkVars, mockVars, part>>
    \/ part = "program" /\ Program!Next /\ UNCHANGED <<readerVars, framesVars, linkVars, mockVars, part>>
    \/ part = "link" /\ Link!Next /\ UNCHANGED <<readerVars, framesVars, programVars, mockVars, part>>
    \/ part = "mock" /\ Mock!Next /\ UNCHANGED <<readerVars, framesVars, programVars, linkVars, part>>

\* The fairness of Command and of MockHost, for the behaviours in which they move.
ProgramFairness ==
    /\ WF_programVars(part = "program" /\ Program!Caller)
    /\ \A p \in Program!Pipes :
          WF_programVars(part = "program" /\ (Program!Reads(p) \/ Program!Ends(p)))

ByMock(A) == part = "mock" /\ Mock!ByMock(A)
ByStick(A) == part = "mock" /\ Mock!ByStick(A)

MockFairness ==
    /\ WF_mockVars(ByMock(Mock!Start /\ started = 0)) /\ WF_mockVars(ByMock(Mock!Plays))
    /\ SF_mockVars(ByMock(Mock!SendHello)) /\ SF_mockVars(ByMock(Mock!SendSnapshot))
    /\ WF_mockVars(ByMock(Mock!ReadOther)) /\ SF_mockVars(ByMock(Mock!ReadRequest))
    /\ WF_mockVars(ByStick(Mock!TxPoll)) /\ WF_mockVars(ByStick(Mock!HelloTimer))
    /\ WF_mockVars(ByStick(Mock!ReceiveHello)) /\ WF_mockVars(ByStick(Mock!IgnoreFrame))
    /\ WF_mockVars(ByStick(Mock!ReceiveSnapshot \/ Mock!ReceiveProgress))

HostSpec ==
    HostInit /\ [][HostNext]_<<readerVars, framesVars, programVars, linkVars, mockVars, part>>
             /\ ProgramFairness /\ MockFairness

-----------------------------------------------------------------------------
(* The properties of the parts.  A part that does not move keeps what holds *)
(* of its start, but does not come to what must happen.                     *)

\* What the display sends means the same to the daemon: a whole frame is its message,
\* another protocol is told by its version, and nothing that unfinished frames leave
\* on the wire becomes a shutdown request.
DecodedAsWritten == Frames!RoundTrip /\ Frames!VersionsTold /\ Frames!NoPhantomShutdown

\* command_output returns the whole output, kills a child only at its deadline or when
\* its state cannot be asked for, and returns in the end unless something it cannot kill
\* holds the pipes.
OutputInTime ==
    /\ [](Program!TypeOK /\ Program!OutputComplete /\ Program!KilledAtDeadline)
    /\ part = "program" => Program!ReturnsWhenReleased

\* read_network reports an interface that carries the routed traffic, the physical one
\* where there is one, and none by a route that is not in use.
UplinkFound == Link!CarriesRoute /\ Link!FindsPhysical /\ Link!FallbackUsesActive

\* The mock host gets its samples shown, in its own session, and a long press ends it,
\* over what an earlier start has left on the wire.
MockServes ==
    /\ []Mock!TypeOK /\ Mock!SnapshotScoped
    /\ part = "mock" => Mock!SamplesShown
    /\ Mock!PressExits

-----------------------------------------------------------------------------
(* What the documents promise and the code does not do: these fail.        *)

HardDeadline == part = "program" => Program!HardDeadline
GluedRefused == Frames!GluedRefused
BondUp == Link!BondUp

=============================================================================
