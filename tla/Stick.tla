------------------------------- MODULE Stick --------------------------------
(***************************************************************************)
(* The StickS3 main task: the loop of firmware/src/main.rs with its USB    *)
(* transmit queue.  One action per handler or timer of the loop.  Elapsed  *)
(* time is abstracted: a timeout may fire whenever the state it is armed   *)
(* in holds.  The button is reduced to the two actions it can deliver.     *)
(***************************************************************************)
EXTENDS UsbLink

CONSTANTS QueueCap,     \* capacity of UsbTx.queue (8 in the firmware)
          MaxPresses    \* bound on long presses of the button

ASSUME StickAssumption == QueueCap \in Nat \ {0} /\ MaxPresses \in Nat

VARIABLES daemon,             \* DaemonState
          daemon_session,     \* acknowledged nonce, NoSession for None
          queue,              \* UsbTx.queue
          last_update,        \* last_update.is_some()
          display_pages,      \* number of pages of display_config
          page,               \* page on the LCD
          web_manifest,       \* pages of the network manifest, 0 for none
          shutdown_display,   \* ShutdownDisplay
          presses             \* long presses still to come

screenVars == <<display_pages, page, web_manifest>>
stickVars == <<daemon, daemon_session, queue, last_update, screenVars, shutdown_display, presses>>

DaemonState == {"Waiting", "Connected", "Stale", "Incompatible", "PoweringOff"}

ShutdownDisplay == {"Accepted", "Guests", "GuestsStopped", "HostPoweroff",
                    "ReportingLost", "ConnectionLost", "Failed"}

StickTypeOK ==
    /\ daemon \in DaemonState
    /\ daemon_session \in Nat
    /\ queue \in Seq(DeviceMessage) /\ Len(queue) <= QueueCap
    /\ last_update \in BOOLEAN
    /\ display_pages \in Nat
    /\ page \in Nat
    /\ web_manifest \in Nat
    /\ shutdown_display \in ShutdownDisplay
    /\ presses \in Nat

StickInit ==
    /\ daemon = "Waiting"
    /\ daemon_session = NoSession
    /\ queue = <<DeviceFrame("Hello", NoSession)>>
    /\ last_update = FALSE
    /\ display_pages = 1
    /\ page = 0
    /\ web_manifest = 0
    /\ shutdown_display = "Accepted"
    /\ presses = MaxPresses

-----------------------------------------------------------------------------
(* UsbTx.                                                                  *)

\* Mutant: the capacity of the queue is not checked.
EnqueueUnbounded(q, m) == Append(q, m)

\* A full queue drops the message, except that a shutdown request displaces
\* the oldest entry.
Enqueue(q, m) ==
    IF Len(q) < QueueCap THEN Append(q, m)
    ELSE IF m.kind = "ShutdownRequested" THEN Append(Tail(q), m)
    ELSE q

\* UsbTx::poll moves the front message to the endpoint when it has room.
TxPoll ==
    /\ queue # <<>>
    /\ HasRoom(toHost)
    /\ toHost' = PutDevice(Head(queue))
    /\ queue' = Tail(queue)
    /\ UNCHANGED <<daemon, daemon_session, last_update, screenVars, shutdown_display, presses,
                   toStick, faults>>

\* Mutant: a stale link is not announced either.
SilentStatesAndStale == {"Connected", "PoweringOff", "Stale"}

\* The states in which the stick sends no Hello: a live session, a shutdown.
SilentStates == {"Connected", "PoweringOff"}

\* The repeated Hello.
HelloTimer ==
    /\ daemon \notin SilentStates
    /\ queue' = Enqueue(queue, DeviceFrame("Hello", daemon_session))
    /\ UNCHANGED <<daemon, daemon_session, last_update, screenVars, shutdown_display, presses,
                   toStick, toHost, faults>>

-----------------------------------------------------------------------------
(* Frames from the daemon.                                                 *)

Receive(kinds) ==
    /\ Readable(toStick)
    /\ Head(toStick).kind \in kinds
    /\ toStick' = Tail(toStick)
    /\ UNCHANGED <<toHost, faults, presses>>

\* Mutant: a session once acknowledged is kept.
FirstSession(m) == IF daemon_session = NoSession THEN m.session ELSE daemon_session

AdoptedSession(m) == m.session

\* A challenge: forget the previous session, acknowledge the new one.
ReceiveHello ==
    /\ Receive({"Hello"})
    /\ daemon' = "Waiting"
    /\ last_update' = FALSE
    /\ daemon_session' = AdoptedSession(Head(toStick))
    /\ queue' = Enqueue(queue, DeviceFrame("Hello", Head(toStick).session))
    /\ UNCHANGED <<screenVars, shutdown_display>>

\* Session data before a challenge is ignored, as are malformed frames.
IgnoreFrame ==
    /\ \/ Receive({"Garbled"})
       \/ Receive(SessionKinds) /\ daemon_session = NoSession
    /\ UNCHANGED <<daemon, daemon_session, queue, last_update, screenVars, shutdown_display>>

\* UnsupportedVersion: a daemon of another version, or a malformed frame that was
\* cut where the version byte should be.
ReceiveForeign ==
    /\ Receive({"Foreign", "Garbled"})
    /\ daemon' = "Incompatible"
    /\ UNCHANGED <<daemon_session, queue, last_update, screenVars, shutdown_display>>

\* Mutant: session data is accepted without a challenge.
InAnySession == TRUE

InSession == daemon_session # NoSession

ReceiveSnapshot ==
    /\ Receive({"HealthSnapshot"}) /\ InSession
    /\ daemon' = "Connected"
    /\ last_update' = TRUE
    /\ UNCHANGED <<daemon_session, queue, screenVars, shutdown_display>>

\* Mutant: the page survives a shorter manifest.
PageKept(pages) == page

PageWithin(pages) == IF pages = 0 THEN 0 ELSE page % pages

ReceiveDisplayConfig ==
    /\ Receive({"DisplayConfig"}) /\ InSession
    /\ display_pages' = Head(toStick).pages
    /\ page' = PageWithin(Head(toStick).pages)
    /\ UNCHANGED <<daemon, daemon_session, queue, last_update, web_manifest, shutdown_display>>

ReceiveNetworkConfig ==
    /\ Receive({"NetworkConfig"}) /\ InSession
    /\ web_manifest' = Head(toStick).pages
    /\ UNCHANGED <<daemon, daemon_session, queue, last_update, display_pages, page,
                   shutdown_display>>

\* ShutdownAccepted and the phases of ShutdownProgress.
PhaseDisplay(kind) ==
    CASE kind = "StoppingGuests" -> "Guests"
      [] kind = "GuestsStopped" -> "GuestsStopped"
      [] kind = "PoweringOff" -> "HostPoweroff"
      [] OTHER -> "Accepted"

ReceiveProgress ==
    /\ Receive({"ShutdownAccepted"} \cup ShutdownPhase) /\ InSession
    /\ daemon' = "PoweringOff"
    /\ last_update' = TRUE
    /\ shutdown_display' = PhaseDisplay(Head(toStick).kind)
    /\ UNCHANGED <<daemon_session, queue, screenVars>>

ReceiveFailure ==
    /\ Receive({"ShutdownFailed"}) /\ InSession
    /\ daemon' = "PoweringOff"
    /\ shutdown_display' = "Failed"
    /\ UNCHANGED <<daemon_session, queue, last_update, screenVars>>

-----------------------------------------------------------------------------
(* Timeouts, button and reset.                                             *)

\* No snapshot for LINK_TIMEOUT: the session is given up.
LinkTimeout ==
    /\ daemon = "Connected" /\ last_update
    /\ daemon' = "Stale"
    /\ daemon_session' = NoSession
    /\ UNCHANGED <<queue, last_update, screenVars, shutdown_display, presses,
                   toStick, toHost, faults>>

\* USB activity gone for SHUTDOWN_USB_LOST_CONFIRM, or no progress frame for
\* SHUTDOWN_REPORT_TIMEOUT, while a shutdown is shown.
ShutdownTimeout ==
    /\ daemon = "PoweringOff"
    /\ \/ /\ shutdown_display \notin {"Failed", "ConnectionLost"}
          /\ shutdown_display' = "ConnectionLost"
       \/ /\ shutdown_display \notin {"Failed", "ConnectionLost", "ReportingLost"}
          /\ last_update
          /\ shutdown_display' = "ReportingLost"
    /\ UNCHANGED <<daemon, daemon_session, queue, last_update, screenVars, presses,
                   toStick, toHost, faults>>

\* ButtonAction::NextScreen outside ABOUT and outside the hold animation.
NextScreen ==
    /\ page' = IF display_pages = 0 THEN 0 ELSE (page + 1) % display_pages
    /\ UNCHANGED <<daemon, daemon_session, queue, last_update, display_pages, web_manifest,
                   shutdown_display, presses, toStick, toHost, faults>>

\* ButtonAction::ShutdownRequested: a request exists only in a live session.
LongPress ==
    /\ presses > 0
    /\ presses' = presses - 1
    /\ queue' = IF daemon = "Connected"
                THEN Enqueue(queue, DeviceFrame("ShutdownRequested", daemon_session))
                ELSE queue
    /\ UNCHANGED <<daemon, daemon_session, last_update, screenVars, shutdown_display,
                   toStick, toHost, faults>>

\* Reset or power loss.  Frames the endpoint had not delivered are lost, the
\* last one possibly in the middle, and so is what had been received; the web
\* manifest is whichever one was last saved to flash, or none.
StickReboot ==
    /\ Fault
    /\ daemon' = "Waiting"
    /\ daemon_session' = NoSession
    /\ queue' = <<DeviceFrame("Hello", NoSession)>>
    /\ last_update' = FALSE
    /\ display_pages' = 1
    /\ page' = 0
    /\ web_manifest' \in 0..FramePages
    /\ shutdown_display' = "Accepted"
    /\ \E i \in 0..Len(toStick) : toStick' = SubSeq(toStick, i + 1, Len(toStick))
    /\ \E j \in 0..Len(toHost) :
         \/ toHost' = SubSeq(toHost, 1, j)
         \/ j < Len(toHost) /\ toHost' = Append(SubSeq(toHost, 1, j), DeviceNoise("Fragment"))
    /\ UNCHANGED presses

StickNext ==
    \/ TxPoll \/ HelloTimer
    \/ ReceiveHello \/ IgnoreFrame \/ ReceiveForeign
    \/ ReceiveSnapshot \/ ReceiveDisplayConfig \/ ReceiveNetworkConfig
    \/ ReceiveProgress \/ ReceiveFailure
    \/ LinkTimeout \/ ShutdownTimeout \/ NextScreen \/ LongPress \/ StickReboot

=============================================================================
