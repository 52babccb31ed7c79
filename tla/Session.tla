------------------------------ MODULE Session -------------------------------
(***************************************************************************)
(* The daemon and the stick, joined by the USB link, with the faults the   *)
(* code is written to survive: a process that dies at any step, a port     *)
(* that fails, a stick that resets, frames lost or cut when a connection   *)
(* closes, a daemon of another protocol version, and a host that powers    *)
(* off and boots again.                                                    *)
(***************************************************************************)
EXTENDS Daemon, Stick

linkVars == <<toStick, toHost, faults>>
vars == <<daemonVars, stickVars, linkVars>>

Init == LinkInit /\ DaemonInit /\ StickInit

-----------------------------------------------------------------------------
(* The environment.                                                        *)

\* The process dies; Restart=on-failure brings it back (Start).
DaemonCrash ==
    /\ proc = "running"
    /\ Fault
    /\ proc' = "down"
    /\ port' = FALSE
    /\ UNCHANGED <<os, at, sessionVars, latest_health, taken, manifestVars, toStick, toHost>>

\* A daemon speaking another protocol version runs in its place for a while.
ForeignDaemon ==
    /\ os = "up" /\ proc = "down"
    /\ Fault
    /\ HasRoom(toStick)
    /\ toStick' = PutHost(HostNoise("Foreign"))
    /\ UNCHANGED <<daemonVars, toHost>>

\* With the port closed, buffered output may be discarded from its end, the
\* last frame possibly in the middle, and buffered input from its start.
LoseFrames ==
    /\ ~port
    /\ \/ /\ toStick # <<>>
          /\ LET kept == SubSeq(toStick, 1, Len(toStick) - 1) IN
             toStick' \in {kept, Append(kept, HostNoise("Fragment"))}
          /\ UNCHANGED toHost
       \/ /\ toHost # <<>>
          /\ toHost' = Tail(toHost)
          /\ UNCHANGED toStick
    /\ UNCHANGED <<daemonVars, faults>>

HostOff ==
    /\ os = "stopping"
    /\ os' = "off"
    /\ proc' = "down"
    /\ port' = FALSE
    /\ UNCHANGED <<at, sessionVars, latest_health, taken, manifestVars, linkVars>>

HostBoot ==
    /\ os = "off"
    /\ os' = "up"
    /\ UNCHANGED <<proc, at, port, sessionVars, latest_health, taken, manifestVars, linkVars>>

HostEnvironment == DaemonCrash \/ ForeignDaemon \/ LoseFrames \/ HostOff \/ HostBoot

Next ==
    \/ DaemonNext /\ UNCHANGED stickVars
    \/ StickNext /\ UNCHANGED daemonVars
    \/ HostEnvironment /\ UNCHANGED stickVars

Spec == Init /\ [][Next]_vars

-----------------------------------------------------------------------------
(* Safety.                                                                 *)

\* Every variable of the daemon, the stick and the link has its type, and the
\* stick's transmit queue never exceeds its fixed capacity.
TypeOK == LinkTypeOK /\ DaemonTypeOK /\ StickTypeOK

\* The step in which EventHandler::handle accepts a shutdown request.
Accepts == at = "loop" /\ at' = "accepting"

\* README: "A request is never saved and replayed after a disconnected session."
\* A shutdown request is accepted only by the connection it was made in: the
\* nonce the stick had acknowledged when the button was held is the nonce the
\* daemon drew when it opened the port.
NeverReplayed == [][Accepts => Head(toHost).session = handshake_nonce]_vars

\* The steps in which the stick acts on a frame that belongs to a session.
ActsOnFrame ==
    \/ ReceiveSnapshot \/ ReceiveDisplayConfig \/ ReceiveNetworkConfig
    \/ ReceiveProgress \/ ReceiveFailure

\* Whatever session frame the stick acts on, the daemon wrote it in the very
\* session the stick has acknowledged: manifests, snapshots and shutdown
\* reports of an earlier connection are never taken for the current one's.
SessionScoped == [][ActsOnFrame => Head(toStick).session = daemon_session]_vars

\* When the daemon holds the session for established and the stick does not,
\* the stick is in a state in which it keeps sending Hello, so the daemon will
\* learn of it.  (A stick that showed Connected or PoweringOff would stay
\* silent, and both sides would wait for the other.)
NoHalfOpenSession ==
    (handshake_established /\ daemon_session # handshake_nonce)
        => daemon \notin {"Connected", "PoweringOff"}

\* The stick accepts a snapshot only over the manifests the daemon held when it
\* wrote it, whatever was cut, lost or resent before.
SnapshotOverManifest ==
    [][ReceiveSnapshot => /\ display_pages = Head(toStick).display
                          /\ web_manifest = Head(toStick).network]_vars

\* README: "A request is never saved and replayed after a disconnected session",
\* taken to the stick's side: when the daemon accepts a request, the stick has
\* not given up the session it was made in.
RequestDiesWithSession == [][Accepts => daemon_session = Head(toHost).session]_vars

\* configuration.md: "The daemon creates one page per four guests and updates
\* the page count when the guest list changes."  A snapshot is shown over a
\* manifest with as many guest pages as its guests need.
GuestPagesFollowGuests == [][ReceiveSnapshot => display_pages = Head(toStick).pages]_vars

\* The page on the LCD exists in the manifest the stick holds.
PageExists == page < display_pages

-----------------------------------------------------------------------------
(* The inductive invariant behind NeverReplayed, SessionScoped and         *)
(* NoHalfOpenSession.                                                      *)

\* What ProtocolInv depends on.
protocolVars == <<toStick, toHost, queue, handshake_nonce, handshake_established,
                  daemon_session, daemon>>

\* The main thread leaves the head of the loop only in an established session,
\* and a closed port leaves it there.
BlockInSession ==
    /\ at # "loop" => handshake_established
    /\ proc = "running" /\ ~port => at = "loop"

\* Nothing carries a nonce that has not been drawn yet.
NoncesDrawn ==
    /\ daemon_session <= handshake_nonce
    /\ \A i \in 1..Len(toStick) : toStick[i].session <= handshake_nonce
    /\ \A i \in 1..Len(toHost) : toHost[i].session <= handshake_nonce
    /\ \A i \in 1..Len(queue) : queue[i].session <= handshake_nonce

\* A live or closing session on the stick is one it has acknowledged.
LiveInSession == daemon \in {"Connected", "PoweringOff"} => daemon_session # NoSession

IsAcknowledgement(m) == m.kind = "Hello" /\ m.session = handshake_nonce

IsRequest(m) == m.kind = "ShutdownRequested"

\* The stick has acknowledged the current nonce, as seen on either side or
\* anywhere on the way.
Acknowledged ==
    \/ handshake_established
    \/ daemon_session = handshake_nonce
    \/ \E i \in 1..Len(toHost) : IsAcknowledgement(toHost[i])
    \/ \E i \in 1..Len(queue) : IsAcknowledgement(queue[i])

\* Once acknowledged, the stick holds the current session or none, and every
\* challenge still on its way repeats the current one.
AcknowledgedSession ==
    Acknowledged =>
        /\ daemon_session \in {NoSession, handshake_nonce}
        /\ \A i \in 1..Len(toStick) :
              toStick[i].kind = "Hello" => toStick[i].session = handshake_nonce

\* Behind an acknowledgement of the current nonce, only requests of the current
\* session are on their way to the daemon.
RequestsAfterAcknowledgement ==
    /\ \A i, j \in 1..Len(toHost) :
         i < j /\ IsAcknowledgement(toHost[i]) /\ IsRequest(toHost[j])
            => toHost[j].session = handshake_nonce
    /\ \A i \in 1..Len(toHost), j \in 1..Len(queue) :
         IsAcknowledgement(toHost[i]) /\ IsRequest(queue[j]) => queue[j].session = handshake_nonce
    /\ \A i, j \in 1..Len(queue) :
         i < j /\ IsAcknowledgement(queue[i]) /\ IsRequest(queue[j])
            => queue[j].session = handshake_nonce

\* In an established session, every request on its way belongs to it.
RequestsEstablished ==
    handshake_established =>
        /\ \A i \in 1..Len(toHost) : IsRequest(toHost[i]) => toHost[i].session = handshake_nonce
        /\ \A i \in 1..Len(queue) : IsRequest(queue[i]) => queue[i].session = handshake_nonce

\* On the wire to the stick challenges are in the order they were drawn, a
\* session frame has the session of every challenge in front of it, and
\* without one in front of it the session the stick holds, if it holds any.
FramesInOrder ==
    /\ \A i, j \in 1..Len(toStick) :
         i < j /\ toStick[i].kind = "Hello" /\ toStick[j].kind = "Hello"
            => toStick[i].session <= toStick[j].session
    /\ \A i, j \in 1..Len(toStick) :
         i < j /\ toStick[i].kind = "Hello" /\ toStick[j].kind \in SessionKinds
            => toStick[i].session = toStick[j].session
    /\ \A j \in 1..Len(toStick) :
         toStick[j].kind \in SessionKinds
            => \/ daemon_session \in {NoSession, toStick[j].session}
               \/ \E i \in 1..Len(toStick) : i < j /\ toStick[i].kind = "Hello"

ProtocolInv ==
    /\ NoncesDrawn
    /\ LiveInSession
    /\ AcknowledgedSession
    /\ RequestsAfterAcknowledgement
    /\ RequestsEstablished
    /\ FramesInOrder

SessionInv == TypeOK /\ BlockInSession /\ ProtocolInv

-----------------------------------------------------------------------------
(* Liveness.                                                               *)

ByDaemon(A) == A /\ UNCHANGED stickVars
ByStick(A) == A /\ UNCHANGED daemonVars

DaemonRead ==
    ReadUnsynchronized \/ ReadAcknowledgement \/ ReadOtherHello \/ HandleShutdown \/ DiscardFrame

\* The straight-line code inside a block of the loop or inside poweroff.
DaemonStep ==
    \/ SendManifestNetwork \/ UpdateDisplay \/ UpdateNetwork \/ SendSnapshot
    \/ AcceptShutdown \/ PrepareGuests \/ CountGuests \/ SystemPoweroff \/ ReportFailure
    \/ MonitorGuests \/ GuestsStopped \/ FinishPoweroff

StickReceive ==
    \/ ReceiveHello \/ IgnoreFrame \/ ReceiveForeign \/ ReceiveSnapshot \/ ReceiveDisplayConfig
    \/ ReceiveNetworkConfig \/ ReceiveProgress \/ ReceiveFailure

\* systemd restarts the service, the daemon retries the port, every block of
\* the main loop comes round again (each is skipped while another one runs,
\* hence strong fairness), the collector thread and the stick's loop keep
\* running, and a host that was told to power off does so and is booted again.
Fairness ==
    /\ WF_vars(ByDaemon(Start)) /\ WF_vars(ByDaemon(Open)) /\ WF_vars(ByDaemon(Collect))
    /\ WF_vars(ByDaemon(DaemonStep))
    /\ SF_vars(ByDaemon(SendHello)) /\ SF_vars(ByDaemon(SendManifestDisplay))
    /\ SF_vars(ByDaemon(TakeSnapshot)) /\ SF_vars(ByDaemon(DaemonRead))
    /\ WF_vars(ByStick(TxPoll)) /\ WF_vars(ByStick(HelloTimer)) /\ WF_vars(ByStick(StickReceive))
    /\ WF_vars(ByDaemon(HostOff)) /\ WF_vars(ByDaemon(HostBoot))

FairSpec == Spec /\ Fairness

\* Whatever happened before - a crash, a reset, a port error, a daemon of
\* another version, an aborted or a completed shutdown - the stick always gets
\* back to showing live data: the handshake completes even when acknowledgements
\* are dropped from a full queue or merged into a malformed frame, and no side
\* waits silently for the other.
AlwaysReconnects == []<>(daemon = "Connected")

=============================================================================
