------------------------------- MODULE Daemon -------------------------------
(***************************************************************************)
(* The servatory daemon: main() of host/src/main.rs with the poweroff      *)
(* sequence of host/src/lib.rs that its message handler runs.              *)
(*                                                                         *)
(* `at` is where the main thread is.  "loop" is the head of the main loop; *)
(* a block of the loop that writes several frames has one value per write, *)
(* because each write can fail on its own.  While the thread is inside a   *)
(* block, or inside poweroff, it reads nothing.  Timers (next_hello,       *)
(* next_update, the reconnect delay) are abstracted: a block whose timer   *)
(* gates it may run at any time.                                           *)
(***************************************************************************)
EXTENDS UsbLink

CONSTANTS GuestPages,      \* page counts the collected guest list may need
          MaxSessions,     \* bound on the nonces drawn
          AllowShutdown    \* actions.shutdown.enabled

ASSUME DaemonAssumption == /\ GuestPages \subseteq Nat \ {0}
                           /\ MaxSessions \in Nat
                           /\ AllowShutdown \in BOOLEAN

VARIABLES os,                      \* the host: "up", "stopping" or "off"
          proc,                    \* the process: "down", "running" or "exited"
          at,                      \* program counter of the main thread
          port,                    \* the serial port is open
          handshake_nonce,         \* current nonce, fresh on every open
          handshake_established,
          manifest_pending,
          input_synchronized,      \* a delimiter was seen since the port opened
          latest_health,           \* collector slot: 0 or the pages its guests need
          taken,                   \* snapshot taken from the slot, 0 for none
          display_config,          \* page counts of the two manifests
          network_config,
          configured_guest_pages

sessionVars == <<handshake_nonce, handshake_established, manifest_pending, input_synchronized>>
manifestVars == <<display_config, network_config, configured_guest_pages>>
daemonVars == <<os, proc, at, port, sessionVars, latest_health, taken, manifestVars>>

Places == {"loop", "manifest_network", "update_display", "update_network", "snapshot",
           "accepting", "accepted", "count", "poweroff_counted", "poweroff_uncounted", "failed",
           "monitor", "stopped", "last"}

DaemonTypeOK ==
    /\ os \in {"up", "stopping", "off"}
    /\ proc \in {"down", "running", "exited"}
    /\ at \in Places
    /\ port \in BOOLEAN
    /\ handshake_nonce \in Nat
    /\ handshake_established \in BOOLEAN
    /\ manifest_pending \in BOOLEAN
    /\ input_synchronized \in BOOLEAN
    /\ latest_health \in Nat
    /\ taken \in Nat
    /\ display_config \in Nat
    /\ network_config \in Nat
    /\ configured_guest_pages \in Nat

DaemonInit ==
    /\ os = "up"
    /\ proc = "down"
    /\ at = "loop"
    /\ port = FALSE
    /\ handshake_nonce = NoSession
    /\ handshake_established = FALSE
    /\ manifest_pending = TRUE
    /\ input_synchronized = FALSE
    /\ latest_health = 0
    /\ taken = 0
    /\ display_config = 1
    /\ network_config = 1
    /\ configured_guest_pages = 1

-----------------------------------------------------------------------------
(* Writing a frame: write_host_message encodes it and calls write_all.     *)

Write(m) ==
    /\ Fits(m)
    /\ HasRoom(toStick)
    /\ toStick' = PutHost(m)
    /\ UNCHANGED faults

\* The frame is too long to encode, or the port accepts none or only a part of it.
WriteFails(m) ==
    \/ ~Fits(m) /\ UNCHANGED <<toStick, faults>>
    \/ Fault /\ toStick' \in {toStick, PutHost(HostNoise("Fragment"))}

\* connection_error: the port is dropped at the end of the loop iteration.
Disconnect ==
    /\ port' = FALSE
    /\ at' = "loop"
    /\ taken' = 0

Running(place) == proc = "running" /\ port /\ at = place

-----------------------------------------------------------------------------
(* Process and connection.                                                 *)

\* systemd starts the service, at boot or after a failure (Restart=on-failure).
Start ==
    /\ os = "up" /\ proc = "down"
    /\ proc' = "running"
    /\ at' = "loop"
    /\ port' = FALSE
    /\ handshake_established' = FALSE
    /\ manifest_pending' = TRUE
    /\ input_synchronized' = FALSE
    /\ latest_health' = 0
    /\ taken' = 0
    /\ display_config' = 1
    /\ network_config' = 1
    /\ configured_guest_pages' = 1
    /\ UNCHANGED <<os, handshake_nonce, toStick, toHost, faults>>

\* The port opens: a fresh nonce, and nothing of the previous connection counts.
Open ==
    /\ proc = "running" /\ ~port
    /\ handshake_nonce < MaxSessions
    /\ port' = TRUE
    /\ handshake_nonce' = handshake_nonce + 1
    /\ handshake_established' = FALSE
    /\ manifest_pending' = TRUE
    /\ input_synchronized' = FALSE
    /\ UNCHANGED <<os, proc, at, latest_health, taken, manifestVars, toStick, toHost, faults>>

\* The collector thread replaces whatever snapshot is in the slot.
Collect ==
    /\ proc = "running"
    /\ latest_health' \in GuestPages
    /\ UNCHANGED <<os, proc, at, port, sessionVars, taken, manifestVars, toStick, toHost, faults>>

-----------------------------------------------------------------------------
(* The blocks of the main loop that write.                                 *)

SendHello ==
    LET m == HostFrame("Hello", handshake_nonce, 0) IN
    /\ Running("loop")
    /\ ~handshake_established
    /\ \/ Write(m) /\ UNCHANGED <<port, at, taken>>
       \/ WriteFails(m) /\ Disconnect
    /\ UNCHANGED <<os, proc, sessionVars, latest_health, manifestVars, toHost>>

SendManifestDisplay ==
    LET m == HostFrame("DisplayConfig", handshake_nonce, display_config) IN
    /\ Running("loop")
    /\ handshake_established /\ manifest_pending
    /\ \/ Write(m) /\ at' = "manifest_network" /\ UNCHANGED <<port, taken>>
       \/ WriteFails(m) /\ Disconnect
    /\ UNCHANGED <<os, proc, sessionVars, latest_health, manifestVars, toHost>>

SendManifestNetwork ==
    LET m == HostFrame("NetworkConfig", handshake_nonce, network_config) IN
    /\ Running("manifest_network")
    /\ \/ Write(m) /\ manifest_pending' = FALSE /\ at' = "loop" /\ UNCHANGED <<port, taken>>
       \/ WriteFails(m) /\ Disconnect /\ UNCHANGED manifest_pending
    /\ UNCHANGED <<os, proc, handshake_nonce, handshake_established, input_synchronized,
                   latest_health, manifestVars, toHost>>

\* take_latest_health empties the slot before anything is written.
TakeSnapshot ==
    /\ Running("loop")
    /\ handshake_established /\ ~manifest_pending
    /\ latest_health # 0
    /\ taken' = latest_health
    /\ latest_health' = 0
    /\ at' = IF latest_health # configured_guest_pages THEN "update_display" ELSE "snapshot"
    /\ UNCHANGED <<os, proc, port, sessionVars, manifestVars, toStick, toHost, faults>>

UpdateDisplay ==
    LET m == HostFrame("DisplayConfig", handshake_nonce, taken) IN
    /\ Running("update_display")
    /\ \/ /\ taken = display_config
          /\ at' = "update_network"
          /\ UNCHANGED <<port, taken, display_config, toStick, faults>>
       \/ /\ taken # display_config
          /\ \/ Write(m) /\ display_config' = taken /\ at' = "update_network"
                         /\ UNCHANGED <<port, taken>>
             \/ WriteFails(m) /\ Disconnect /\ UNCHANGED display_config
    /\ UNCHANGED <<os, proc, sessionVars, latest_health, network_config,
                   configured_guest_pages, toHost>>

UpdateNetwork ==
    LET m == HostFrame("NetworkConfig", handshake_nonce, taken)
        done == configured_guest_pages' = taken /\ at' = "snapshot" IN
    /\ Running("update_network")
    /\ \/ /\ taken = network_config
          /\ done
          /\ UNCHANGED <<port, taken, network_config, toStick, faults>>
       \/ /\ taken # network_config
          /\ \/ Write(m) /\ network_config' = taken /\ done /\ UNCHANGED <<port, taken>>
             \/ WriteFails(m) /\ Disconnect /\ UNCHANGED <<network_config, configured_guest_pages>>
    /\ UNCHANGED <<os, proc, sessionVars, latest_health, display_config, toHost>>

SendSnapshot ==
    LET m == [HostFrame("HealthSnapshot", handshake_nonce, taken)
                EXCEPT !.display = display_config, !.network = network_config] IN
    /\ Running("snapshot")
    /\ \/ Write(m) /\ at' = "loop" /\ taken' = 0 /\ UNCHANGED port
       \/ WriteFails(m) /\ Disconnect
    /\ UNCHANGED <<os, proc, sessionVars, latest_health, manifestVars, toHost>>

-----------------------------------------------------------------------------
(* The read block: one action per kind of frame.                           *)

CanRead == Running("loop") /\ Readable(toHost)

\* Mutant: the manifests are sent once per port only, not once per handshake.
PendingOnceOpened == manifest_pending

\* Mutant: messages are handled without a completed handshake.
HandlesShutdownAlways == AllowShutdown

\* A repeated acknowledgement of an established session changes nothing.
PendingOnceAcknowledged == manifest_pending \/ ~handshake_established

\* Messages are handled only in a session, shutdown only when it is enabled.
HandlesShutdown == handshake_established /\ AllowShutdown

\* Everything up to the first delimiter after the open is thrown away.
ReadUnsynchronized ==
    /\ CanRead /\ ~input_synchronized
    /\ input_synchronized' = TRUE
    /\ toHost' = Tail(toHost)
    /\ UNCHANGED <<os, proc, at, port, handshake_nonce, handshake_established, manifest_pending,
                   latest_health, taken, manifestVars, toStick, faults>>

\* The stick echoes this connection's nonce.
ReadAcknowledgement ==
    /\ CanRead /\ input_synchronized
    /\ Head(toHost).kind = "Hello" /\ Head(toHost).session = handshake_nonce
    /\ handshake_established' = TRUE
    /\ manifest_pending' = PendingOnceAcknowledged
    /\ toHost' = Tail(toHost)
    /\ UNCHANGED <<os, proc, at, port, handshake_nonce, input_synchronized, latest_health, taken,
                   manifestVars, toStick, faults>>

\* Any other Hello: the stick restarted, or answers an earlier connection.
ReadOtherHello ==
    /\ CanRead /\ input_synchronized
    /\ Head(toHost).kind = "Hello" /\ Head(toHost).session # handshake_nonce
    /\ handshake_established' = FALSE
    /\ toHost' = Tail(toHost)
    /\ UNCHANGED <<os, proc, at, port, handshake_nonce, manifest_pending, input_synchronized,
                   latest_health, taken, manifestVars, toStick, faults>>

\* EventHandler::handle with shutdown enabled.
HandleShutdown ==
    /\ CanRead /\ input_synchronized
    /\ Head(toHost).kind = "ShutdownRequested"
    /\ HandlesShutdown
    /\ toHost' = Tail(toHost)
    /\ at' = "accepting"
    /\ UNCHANGED <<os, proc, port, sessionVars, latest_health, taken, manifestVars,
                   toStick, faults>>

\* A request outside a session or with the action disabled, and a malformed frame.
DiscardFrame ==
    /\ CanRead /\ input_synchronized
    /\ \/ Head(toHost).kind \in NoiseKinds
       \/ /\ Head(toHost).kind = "ShutdownRequested"
          /\ ~HandlesShutdown
    /\ toHost' = Tail(toHost)
    /\ UNCHANGED <<os, proc, at, port, sessionVars, latest_health, taken, manifestVars,
                   toStick, faults>>

\* read() fails with anything but a timeout.
ReadError ==
    /\ Running("loop")
    /\ Fault /\ Disconnect
    /\ UNCHANGED <<os, proc, sessionVars, latest_health, manifestVars, toStick, toHost>>

-----------------------------------------------------------------------------
(* SystemdShutdown::poweroff.  Guest counts are reduced to whether any     *)
(* guest is left; a failed progress write makes poweroff return an error,  *)
(* which handle logs: the main loop goes on with the port still open.      *)

poweroffUnchanged == <<proc, port, sessionVars, latest_health, taken, manifestVars, toHost>>

Report(phase, next) ==
    LET m == HostFrame(phase, handshake_nonce, 0) IN
    \/ Write(m) /\ at' = next
    \/ WriteFails(m) /\ at' = "loop"

\* handle acknowledges before poweroff; this failure is a connection error.
AcceptShutdown ==
    LET m == HostFrame("ShutdownAccepted", handshake_nonce, 0) IN
    /\ Running("accepting")
    /\ \/ Write(m) /\ at' = "accepted" /\ UNCHANGED <<port, taken>>
       \/ WriteFails(m) /\ Disconnect
    /\ UNCHANGED <<os, proc, sessionVars, latest_health, manifestVars, toHost>>

PrepareGuests ==
    /\ Running("accepted")
    /\ Report("PreparingGuests", "count")
    /\ UNCHANGED <<os, poweroffUnchanged>>

CountGuests ==
    /\ Running("count")
    /\ \/ Report("StoppingGuests", "poweroff_counted")
       \/ at' = "poweroff_uncounted" /\ UNCHANGED <<toStick, faults>>
    /\ UNCHANGED <<os, poweroffUnchanged>>

\* systemctl poweroff --no-block
SystemPoweroff ==
    /\ Running(at) /\ at \in {"poweroff_counted", "poweroff_uncounted"}
    /\ \/ /\ os' = "stopping"
          /\ at' = IF at = "poweroff_counted" THEN "monitor" ELSE "last"
       \/ /\ at' = "failed"
          /\ UNCHANGED os
    /\ UNCHANGED <<poweroffUnchanged, toStick, faults>>

ReportFailure ==
    /\ Running("failed")
    /\ Report("ShutdownFailed", "loop")
    /\ UNCHANGED <<os, poweroffUnchanged>>

\* One round of monitor_system_guest_shutdown: guests remain, none remains, or
\* the query fails and the last count (zero or not) stands.
MonitorGuests ==
    /\ Running("monitor")
    /\ \/ \E next \in {"monitor", "stopped"} : Report("StoppingGuests", next)
       \/ at' \in {"stopped", "last"} /\ UNCHANGED <<toStick, faults>>
    /\ UNCHANGED <<os, poweroffUnchanged>>

GuestsStopped ==
    /\ Running("stopped")
    /\ Report("GuestsStopped", "last")
    /\ UNCHANGED <<os, poweroffUnchanged>>

\* The last progress frame; then main returns Ok and systemd leaves it stopped.
FinishPoweroff ==
    LET m == HostFrame("PoweringOff", handshake_nonce, 0) IN
    /\ Running("last")
    /\ \/ Write(m) /\ proc' = "exited" /\ port' = FALSE
       \/ WriteFails(m) /\ UNCHANGED <<proc, port>>
    /\ at' = "loop"
    /\ UNCHANGED <<os, sessionVars, latest_health, taken, manifestVars, toHost>>

DaemonNext ==
    \/ Start \/ Open \/ Collect
    \/ SendHello \/ SendManifestDisplay \/ SendManifestNetwork
    \/ TakeSnapshot \/ UpdateDisplay \/ UpdateNetwork \/ SendSnapshot
    \/ ReadUnsynchronized \/ ReadAcknowledgement \/ ReadOtherHello
    \/ HandleShutdown \/ DiscardFrame \/ ReadError
    \/ AcceptShutdown \/ PrepareGuests \/ CountGuests \/ SystemPoweroff \/ ReportFailure
    \/ MonitorGuests \/ GuestsStopped \/ FinishPoweroff

=============================================================================
