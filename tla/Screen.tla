------------------------------- MODULE Screen -------------------------------
(***************************************************************************)
(* What the stick's LCD shows, and when: the main loop of                  *)
(* firmware/src/main.rs with its clocks, and render.                       *)
(*                                                                         *)
(* `stick` holds the variables of the loop.  An iteration is one step: the *)
(* stages of the loop body are functions of that record, applied in the    *)
(* order of the code.  Instants are kept as their ages in ticks (of one    *)
(* second, so that USB_ACTIVITY_TIMEOUT and the spinner's interval are     *)
(* less than one), an Option as a sequence of at most one.  The hold       *)
(* animation and the page turned by a click are the subject of Button.     *)
(***************************************************************************)
EXTENDS Naturals, Sequences

CONSTANTS UsbLostConfirm, ReportTimeout, LinkTimeout,   \* timeouts, in ticks
          Batches,                                      \* frames an iteration may find
          Provisioning,                                 \* the stick is in set-up mode
          WifiInReach                                   \* there is a network to get an address from

\* HostMessage as the daemon writes it (host/src/lib.rs): no guests are left in the
\* phases before they are counted and after they have stopped.
HostFrame ==
    [kind : {"Hello", "UnsupportedVersion", "HealthSnapshot", "DisplayConfig", "ShutdownAccepted"}]
    \cup [kind : {"NetworkConfig"}, enabled : BOOLEAN]
    \cup [kind : {"ShutdownProgress"}, phase : {"PreparingGuests", "GuestsStopped"}, total : Nat,
          remaining : {0}]
    \cup [kind : {"ShutdownProgress"}, phase : {"StoppingGuests", "PoweringOff"}, total : Nat,
          remaining : Nat]
    \cup [kind : {"ShutdownFailed"}, remaining : Nat]

ScreenAssumption ==
    /\ UsbLostConfirm \in Nat \ {0} /\ ReportTimeout \in Nat \ {0} /\ LinkTimeout \in Nat
    /\ UsbLostConfirm < LinkTimeout /\ ReportTimeout < LinkTimeout
    /\ Provisioning \in BOOLEAN /\ WifiInReach \in BOOLEAN
    /\ Batches \subseteq Seq(HostFrame)

VARIABLES stick,     \* the variables of the main loop
          address,   \* station_ipv4().is_some()
          lcd,       \* what was drawn last
          host,      \* the host: "on" or "off"
          usb_age,   \* ghost: ticks since the bus last showed activity, as an Option
          last,      \* ghost: the count of guests in the last shutdown frame acted on
          report_age,\* ghost: ticks since the last report of the shutdown that is shown, as an Option
          clock      \* flips with every tick

vars == <<stick, address, lcd, host, usb_age, last, report_age, clock>>

\* Ages are counted up to the timeout they are compared with.
Older(age, ticks, limit) == IF age + ticks < limit THEN age + ticks ELSE limit

OlderOption(age, ticks, limit) == IF age = <<>> THEN age ELSE <<Older(age[1], ticks, limit)>>

-----------------------------------------------------------------------------
(* ShutdownDisplay.                                                        *)

Display(kind, total, remaining) ==
    [kind |-> kind, total |-> total, remaining |-> remaining, spinner |-> 0]

\* The count is kept in the variants that have one.
Accepted == Display("Accepted", 0, 0)

\* Mutant: a lost connection forgets the count.
RemainingOfProgress(display) ==
    IF display.kind \in {"Guests", "HostPoweroff", "Failed"} THEN display.remaining ELSE 0

shutdown_remaining(display) ==
    IF display.kind \in {"Guests", "HostPoweroff", "ReportingLost", "ConnectionLost", "Failed"}
    THEN display.remaining ELSE 0

PhaseDisplay(m) ==
    CASE m.phase = "PreparingGuests" -> Accepted
      [] m.phase = "StoppingGuests" -> Display("Guests", m.total, m.remaining)
      [] m.phase = "GuestsStopped" -> Display("GuestsStopped", 0, 0)
      [] m.phase = "PoweringOff" -> Display("HostPoweroff", 0, m.remaining)

-----------------------------------------------------------------------------
(* The stages of an iteration.                                             *)

Aged(s, ticks) ==
    [s EXCEPT !.last_update = OlderOption(@, ticks, LinkTimeout),
              !.usb_activity = OlderOption(@, ticks, 1),
              !.lost_since = OlderOption(@, ticks, UsbLostConfirm),
              !.spinner_age = Older(@, ticks, 1),
              !.render_pending = FALSE]

\* poll_usb_connection; only the waiting screens depend on its result.
AfterUsb(s, sof) ==
    LET activity == IF sof THEN <<0>> ELSE s.usb_activity
        connected == activity = <<0>>
    IN  [s EXCEPT !.usb_activity = activity, !.usb_connected = connected,
                  !.render_pending = connected # s.usb_connected /\ s.daemon = "Waiting"]

\* Mutant: a report does not stop the clock of a lost connection.
LostSinceKept(s) == s.lost_since

LostSinceAfterReport(s) == <<>>

\* Mutant: a report does not count as an update.
ReportUntimed(s, display) ==
    [s EXCEPT !.lost_since = <<>>, !.daemon = "PoweringOff", !.display = display, !.render_pending = TRUE]

\* Mutant: a repeated phase does not count as an update.
RepeatUncounted(s, display) ==
    [s EXCEPT !.last_update = IF s.daemon = "PoweringOff" /\ s.display.kind = display.kind THEN @ ELSE <<0>>,
              !.lost_since = <<>>, !.daemon = "PoweringOff", !.display = display, !.render_pending = TRUE]

\* ShutdownAccepted and ShutdownProgress.
Report(s, display) ==
    [s EXCEPT !.last_update = <<0>>, !.lost_since = LostSinceAfterReport(s),
              !.daemon = "PoweringOff", !.display = display, !.render_pending = TRUE,
              !.spinner_age = IF display.kind = "HostPoweroff" THEN 0 ELSE @]

\* A frame; what belongs to a session is ignored without one.
AfterFrame(s, m) ==
    CASE m.kind = "Hello" ->
           [s EXCEPT !.daemon = "Waiting", !.last_update = <<>>, !.session = TRUE,
                     !.render_pending = TRUE]
      [] m.kind = "UnsupportedVersion" -> [s EXCEPT !.daemon = "Incompatible", !.render_pending = TRUE]
      [] m.kind \notin {"Hello", "UnsupportedVersion"} /\ ~s.session -> s
      [] m.kind = "HealthSnapshot" /\ s.session ->
           [s EXCEPT !.daemon = "Connected", !.last_update = <<0>>, !.snapshot = TRUE,
                     !.render_pending = TRUE]
      [] m.kind = "ShutdownAccepted" /\ s.session -> Report(s, Accepted)
      [] m.kind = "ShutdownProgress" /\ s.session -> Report(s, PhaseDisplay(m))
      [] m.kind = "ShutdownFailed" /\ s.session ->
           [s EXCEPT !.daemon = "PoweringOff", !.display = Display("Failed", 0, m.remaining),
                     !.render_pending = TRUE]
      [] m.kind = "DisplayConfig" /\ s.session -> [s EXCEPT !.render_pending = TRUE]
      [] m.kind = "NetworkConfig" /\ s.session -> [s EXCEPT !.port = m.enabled]

\* Mutant: a lost host is not drawn.
StaleUndrawn(s) ==
    IF s.daemon = "Connected" /\ s.last_update # <<>> /\ s.last_update[1] >= LinkTimeout
    THEN [s EXCEPT !.daemon = "Stale", !.session = FALSE] ELSE s

\* Mutant: a page never times out.
NeverStale(s) == s

AfterLink(s) ==
    IF s.daemon = "Connected" /\ s.last_update # <<>> /\ s.last_update[1] >= LinkTimeout
    THEN [s EXCEPT !.daemon = "Stale", !.session = FALSE, !.render_pending = TRUE]
    ELSE s

\* A double click opens ABOUT, a click closes it; any other turns the page.
AfterButton(s, click) ==
    CASE click = "none" -> s
      [] click = "single" -> [s EXCEPT !.show_about = FALSE, !.render_pending = TRUE]
      [] click = "double" -> [s EXCEPT !.show_about = ~@, !.render_pending = TRUE]

\* USB activity gone for SHUTDOWN_USB_LOST_CONFIRM during a shutdown.
AfterUsbLost(s) ==
    IF s.daemon # "PoweringOff" THEN [s EXCEPT !.lost_since = <<>>]
    ELSE IF s.display.kind \in {"Failed", "ConnectionLost"} THEN s
    ELSE IF s.usb_connected THEN [s EXCEPT !.lost_since = <<>>]
    ELSE LET since == IF s.lost_since = <<>> THEN 0 ELSE s.lost_since[1]
         IN  IF since < UsbLostConfirm THEN [s EXCEPT !.lost_since = <<since>>]
             ELSE [s EXCEPT !.lost_since = <<since>>, !.render_pending = TRUE,
                            !.display = Display("ConnectionLost", 0, shutdown_remaining(@))]

\* No report for SHUTDOWN_REPORT_TIMEOUT.
AfterReportTimeout(s) ==
    IF /\ s.daemon = "PoweringOff"
       /\ s.display.kind \notin {"ReportingLost", "ConnectionLost", "Failed"}
       /\ s.last_update # <<>> /\ s.last_update[1] >= ReportTimeout
    THEN [s EXCEPT !.display = Display("ReportingLost", 0, shutdown_remaining(@)),
                   !.render_pending = TRUE]
    ELSE s

AfterSpinner(s) ==
    IF s.daemon = "PoweringOff" /\ s.spinner_age > 0 /\ s.display.kind = "HostPoweroff"
    THEN [s EXCEPT !.display.spinner = (@ + 1) % 4, !.spinner_age = 0, !.render_pending = TRUE]
    ELSE s

ShutdownKinds == {"ShutdownAccepted", "ShutdownProgress", "ShutdownFailed"}

\* A frame after others: the stick, the count of guests in the last frame of a shutdown
\* that fell into a session, and the time since the last that reported its progress.
Reads(seen, m) ==
    LET shutdown == m.kind \in ShutdownKinds /\ seen.stick.session
    IN  [stick |-> AfterFrame(seen.stick, m),
         count |-> IF ~shutdown THEN seen.count
                   ELSE IF m.kind = "ShutdownAccepted" THEN 0 ELSE m.remaining,
         age |-> IF shutdown /\ m.kind # "ShutdownFailed" THEN <<0>> ELSE seen.age]

\* All that have arrived, one after the other.
AfterFrames(seen, batch) ==
    LET after[n \in 0..Len(batch)] == IF n = 0 THEN seen ELSE Reads(after[n - 1], batch[n])
    IN  after[Len(batch)]

\* The loop body after its frames.
AfterStages(s, click) ==
    AfterSpinner(AfterReportTimeout(AfterUsbLost(AfterButton(AfterLink(s), click))))

-----------------------------------------------------------------------------
(* render.                                                                 *)

Screens == {"QR ABOUT", "DETAILED ABOUT", "SHUTDOWN", "HOST LOST", "UPDATE REQUIRED", "PAGE",
            "WAITING", "WIFI SETUP", "USB READY", "OFFLINE"}

\* Mutant: more guests than were counted at first are not expected.
BarOfFewer(display) ==
    IF display.total = 0 THEN 198 ELSE ((display.total - display.remaining) * 198) \div display.total

\* The progress bar of STOPPING GUESTS, 198 pixels wide.
GuestShutdownBar(display) ==
    LET left == IF display.remaining < display.total THEN display.remaining ELSE display.total
    IN  IF display.total = 0 THEN 198 ELSE ((display.total - left) * 198) \div display.total

\* The screen and, for a shutdown, its phase, count, bar and spinner.
Rendered(s, ipv4) ==
    IF s.show_about /\ s.daemon # "PoweringOff"
    THEN <<IF ipv4 /\ s.port THEN "QR ABOUT" ELSE "DETAILED ABOUT">>
    ELSE CASE s.daemon = "PoweringOff" ->
                <<"SHUTDOWN", s.display, IF s.display.kind = "Guests" THEN GuestShutdownBar(s.display) ELSE 0>>
           [] s.daemon = "Stale" -> <<"HOST LOST">>
           [] s.daemon = "Incompatible" -> <<"UPDATE REQUIRED">>
           [] s.daemon = "Connected" -> <<IF s.snapshot THEN "PAGE" ELSE "WAITING">>
           [] s.daemon = "Waiting" ->
                <<IF Provisioning THEN "WIFI SETUP" ELSE IF s.usb_connected THEN "USB READY" ELSE "OFFLINE">>

-----------------------------------------------------------------------------

DaemonState == {"Waiting", "Connected", "Stale", "Incompatible", "PoweringOff"}

TypeOK ==
    /\ stick.daemon \in DaemonState
    /\ stick.session \in BOOLEAN /\ stick.snapshot \in BOOLEAN /\ stick.usb_connected \in BOOLEAN
    /\ stick.show_about \in BOOLEAN /\ stick.port \in BOOLEAN /\ address \in BOOLEAN
    /\ \A age \in {stick.last_update, stick.usb_activity, stick.lost_since, usb_age, report_age} :
          Len(age) <= 1 /\ (age # <<>> => age[1] \in 0..LinkTimeout)
    /\ stick.display.spinner \in 0..3
    /\ lcd[1] \in Screens /\ (lcd[1] = "SHUTDOWN" => lcd[3] \in 0..198)
    /\ host \in {"on", "off"}
    /\ clock \in {0, 1}

Boot ==
    [daemon |-> "Waiting", session |-> FALSE, snapshot |-> FALSE, last_update |-> <<>>,
     usb_connected |-> FALSE, usb_activity |-> <<>>, lost_since |-> <<>>, display |-> Accepted,
     spinner_age |-> 0, show_about |-> FALSE, port |-> FALSE, render_pending |-> FALSE]

Init ==
    /\ stick = Boot
    /\ address = FALSE
    /\ lcd = Rendered(Boot, FALSE)
    /\ host = "on"
    /\ usb_age = <<>>
    /\ last = 0
    /\ report_age = <<>>
    /\ clock = 0

\* A shutdown that has not failed is shown.
AwaitsReports(s) == s.daemon = "PoweringOff" /\ s.display.kind # "Failed"

\* The whole loop body.
Iterate(ticks, sof, batch, click) ==
    LET seen == AfterFrames([stick |-> AfterUsb(Aged(stick, ticks), sof), count |-> last,
                             age |-> OlderOption(report_age, ticks, LinkTimeout)], batch)
        s == AfterStages(seen.stick, click)
    IN  /\ stick' = s
        /\ lcd' = IF s.render_pending THEN Rendered(s, address) ELSE lcd
        /\ usb_age' = IF sof THEN <<0>> ELSE OlderOption(usb_age, ticks, UsbLostConfirm)
        /\ last' = seen.count
        /\ report_age' = IF AwaitsReports(s) THEN seen.age ELSE <<>>
        /\ clock' = (clock + ticks) % 2

Clicks == {"none", "single", "double"}

\* A host that is off neither polls the bus nor sends frames.
Iteration ==
    /\ \E ticks \in {0, 1}, sof \in BOOLEAN, batch \in Batches, click \in Clicks :
          /\ host = "off" => ~sof /\ batch = <<>>
          /\ Iterate(ticks, sof, batch, click)
    /\ UNCHANGED <<address, host>>

\* address_tracker: the lease comes and goes.
AddressChanges ==
    /\ WifiInReach /\ ~Provisioning
    /\ address' = ~address
    /\ UNCHANGED <<stick, lcd, host, usb_age, last, report_age, clock>>

HostPower ==
    /\ host' = IF host = "on" THEN "off" ELSE "on"
    /\ UNCHANGED <<stick, address, lcd, usb_age, last, report_age, clock>>

Next == Iteration \/ AddressChanges \/ HostPower

Spec == Init /\ [][Next]_vars

\* The loop runs for ever, and time passes in it.
FairSpec == Spec /\ WF_clock(clock' = 1 - clock)

-----------------------------------------------------------------------------
(* Properties.                                                             *)

\* Whatever was received, timed out or clicked, the LCD shows what render would
\* draw of the present state: no change of it goes without a redraw.  (The two
\* ABOUT screens differ by the address, of which the loop is not told.)
LcdShowsState ==
    \/ lcd = Rendered(stick, address)
    \/ {lcd[1], Rendered(stick, address)[1]} = {"QR ABOUT", "DETAILED ABOUT"}

\* CONNECTION LOST and REPORTING LOST show the number of guests the daemon last
\* reported, through any sequence of timeouts.
LastCountKept ==
    (stick.daemon = "PoweringOff" /\ stick.display.kind \in {"ReportingLost", "ConnectionLost", "Failed"})
        => shutdown_remaining(stick.display) = last

\* CONNECTION LOST is shown only after the bus has been quiet for the whole of
\* SHUTDOWN_USB_LOST_CONFIRM: a quiet moment, an earlier loss or an earlier
\* shutdown never count.
LostOnlyWhenQuiet ==
    [][/\ stick.display.kind # "ConnectionLost" /\ stick'.display.kind = "ConnectionLost"
       => usb_age' = <<>> \/ usb_age'[1] >= UsbLostConfirm]_vars

\* A shutdown is timed by its reports and by nothing else that is received: a screen of
\* its progress is given up SHUTDOWN_REPORT_TIMEOUT after the last one, while snapshots,
\* failures, lost buses and other sessions come and go; REPORTING LOST is never shown
\* before that, and the next report takes it back.
ReportsTimed ==
    AwaitsReports(stick) =>
        /\ report_age # <<>>
        /\ stick.display.kind = "ReportingLost" => report_age[1] >= ReportTimeout
        /\ stick.display.kind \notin {"ReportingLost", "ConnectionLost"} =>
              report_age[1] < ReportTimeout

\* README: "Its offline screens distinguish a missing USB data connection ..."
\* When the host goes off, the LCD gets to a screen that says so and does not
\* stay on live pages, on USB READY or on a shutdown in progress.
HostOffShown ==
    host = "off" ~> \/ host = "on"
                    \/ lcd[1] \in {"HOST LOST", "OFFLINE", "UPDATE REQUIRED", "WIFI SETUP",
                                   "QR ABOUT", "DETAILED ABOUT"}
                    \/ lcd[1] = "SHUTDOWN" /\ lcd[2].kind \in {"ConnectionLost", "Failed"}

\* README: "The display follows guest shutdown progress and then shows the final
\* host power-off phase locally after the USB connection disappears."
PowerOffPhaseStays ==
    [][stick.display.kind = "HostPoweroff"
         => stick'.display.kind \notin {"ConnectionLost", "ReportingLost"}]_vars

\* network.md: "On the first boot, the display shows WIFI SETUP, a temporary
\* network name, and the address."
SetupShown == Provisioning => lcd[1] # "PAGE"

\* network.md: "When the HTTP server is enabled and DHCP has assigned an address,
\* the Stick's About screen shows a QR code for the dashboard root URL."
AboutFollowsAddress ==
    (lcd[1] = "DETAILED ABOUT" /\ stick.port /\ address)
        ~> (lcd[1] # "DETAILED ABOUT" \/ ~stick.port \/ ~address)

=============================================================================
