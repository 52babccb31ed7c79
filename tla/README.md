# Servatory: TLA+ models and proofs

Servatory shows the health of a home server on a small ESP32-S3 stick with an
LCD, one button and Wi-Fi.  A daemon on the host collects health data and sends
it over USB serial; the stick displays it, serves it as a web page, sends
notifications through ntfy, and can ask the daemon to power the host off when its
button is held.  This directory holds TLA+ models of the parts of the system
whose correctness depends on the order of events, TLC configurations that check
them on small instances, and TLAPS proofs of their main safety properties for
all values of the parameters.

## 1. Inventory

| Component (source) | State it keeps | Operations | Interacts with |
|---|---|---|---|
| USB link, framing (`protocol/src/lib.rs`) | bytes in flight; `FrameDecoder`'s buffer and discard flag | encode, decode, push | daemon and stick |
| Daemon main loop (`host/src/main.rs`) | port, handshake nonce, established, pending manifest, last guest pages, collector slot | open, challenge, resend manifests, update pages, send snapshot, read and handle a frame, disconnect | stick (frames), collector thread (one-slot mutex), systemd |
| Shutdown sequence (`host/src/lib.rs`) | place in the sequence | accept, prepare, count guests, `systemctl poweroff`, monitor guests, report progress or failure | stick (progress frames), systemd |
| Stick main loop (`firmware/src/main.rs`) | `DaemonState`, acknowledged session, transmit queue of 8, display manifest, page, shutdown display | hello timer, one handler per frame, link and shutdown timeouts, button | daemon (frames), network tasks (shared `STATE`) |
| Running programs (`host/src/lib.rs`) | a child, two pipes with their reader threads, a deadline | `command_output` | every reader, the shutdown sequence |
| Button, screens, LCD (`firmware/src/main.rs`, `framebuffer.rs`) | debounce and hold timers, page, ABOUT, hold animation, frame buffer | update, turn page, animate, render, draw each view | stick main loop, network tasks (address, mode) |
| Settings in flash (`firmware/src/provisioning.rs`, `network.rs`) | one flash sector, `STATE.manifest`, `STATE.ntfy_topic`, two one-slot channels | load, save, provisioning form, `update_manifest`, regenerate topic, `manifest_store` | stick main loop (manifests), web server (topic) |
| Notifications (`firmware/src/network.rs`) | previous incidents, queue of 8, repeat timer | evaluate a round, queue, publish | `STATE`, ntfy server |
| Web server and dashboard (`firmware/src/network.rs`, `dashboard.js`) | a lock for one body, two workers, a port; in the browser the age and the badge | HTTP routes, refresh, test message | `STATE`, browser |
| Wi-Fi, DHCP, DNS, mDNS (`firmware/src/network.rs`) | connection, lease, address shown and announced | join, track the address, announce, start the server | access point, `STATE` |
| Setup network (`firmware/src/network.rs`, `provisioning.rs`) | one request buffer | read the form, decode, check, save, restart | browser, flash |
| Internet probe (`host/src/health.rs`) | `ProbeState` behind a mutex | snapshot, record result | collector thread, one ping thread |
| Collector, UPS collector and metric readers (`host/src/health.rs`) | last UPS sample and its failures, what each source said last, when each is due | collect, find the uplink | collector thread, programs of the host |
| Configuration, rules, pages (`host/src/config.rs`, `deploy/servatory.yaml`) | none (pure) | validate, evaluate rules, compile pages | daemon start and main loop |
| Mock host (`mock-host/src`) | port, acknowledged or not, step of the scripted shutdown | send hello and samples, play a shutdown | stick (frames) |
| Board and memory set-up, deployment scripts | - | initialisation, installation aids | - |

What makes the system hard: both ends of the USB link restart independently while
bytes of the old connection are still buffered; one frame of several can fail; the
stick drops frames when its queue is full; the only copy of the settings is erased
before it is rewritten; notifications are lost, doubled and displaced while the
incidents they are about move on; a ping outlives the link it was started on; the
LCD, the web page and mDNS follow the same state as separate tasks; a screen is
left by whichever of several timers fires first; frames have no checksum.

What makes each component correct:

- *link*: the decoder returns exactly the whole frames that fit its buffer; a frame
  decodes to the message that was sent, another version to its number, and nothing
  glued together to a shutdown request;
- *running programs*: the whole output is returned or none, a child is killed only at its
  deadline or when its state cannot be asked for, and the call returns once nothing holds
  the pipes;
- *daemon and stick*: a shutdown request is carried out at most once, and only in the
  session it was made in; no frame of an old session is acted on; the display agrees with the
  manifest it is drawn from; after any fault live data come back;
- *settings*: what is in use is what a restart will load; credentials survive;
- *notifications*: the subscriber ends up knowing the state of every incident;
- *button*: only a real hold of the configured length requests a shutdown; a press
  has one result; the LCD does not stay behind;
- *screens and views*: the LCD shows the state of the loop, keeps the last guest
  count, and ends up on a screen that says so when the host goes off; every row of a
  snapshot is drawn once, whole and apart from the others; the dashboard follows;
- *dashboard*: LIVE is shown only for a recent snapshot, incidents agree with the
  age, one body exists at a time, and a failed refresh is made up for;
- *setup and Wi-Fi*: settings are saved as typed and usable; the server gets back to
  its next client; LCD, page and mDNS have the address the stick has, also after an
  outage;
- *uplink*: the interface that is reported carries the route;
- *collector, rules and pages*: HEALTHY is shown only when all is well, although
  sources fail and remembered samples age; the worst incident is the one shown; a
  configuration that passed validation works for every guest list;
- *internet probe*: an outage is reported only for good reason, stays reported
  while it lasts, and probing never stops.

`PROJECT.json` lists the hazards with the line where each bites and the
properties that would catch it.

## 2. Modules and how they correspond to the code

```
UsbLink  <- Daemon --\
         <- Stick  ---> Session <- SessionRefinement <- MCSession (5), SessionProofs
                                   (implements ShutdownService)
Stick <- MockHost
FrameReader, Codec, Command, Uplink, MockHost            <- MCHost
Button, Screen, Views                                    <- MCStick
Persistence, SetupForm, Station, Notifications           <- MCNetwork
LcdViews, Pages  <- Views -- WebViews
Persistence   <- MCPersistence          Notifications <- MCNotifications
Dashboard     <- MCDashboard
InternetProbe, Config, Deployed  <- HealthCollector <- MCHealth
Pages, Rules  <- Config
SessionProofs <- ManifestProofs       MCHost      <- HostProofs
MCStick       <- StickProofs          MCDashboard <- DashboardProofs
Persistence, Station, SetupForm <- PersistenceProofs
MCNotifications <- NotificationsProofs  MCHealth      <- HealthProofs
```

`MCHost`, `MCStick` and `MCNetwork` each check several components in one run: a
variable `part`, chosen at the start, says which of them moves.  The components of
one such module share no variable, so an invariant of one is violated in the sum
exactly if it is violated alone; action properties allow the stuttering of the
others; fairness is that of the component, conditional on its `part`, and a property
of what must happen is asked only of the part that moves.  Their invariants, and those
of the larger modules, bundle the named properties of a component (`ScreenInv`,
`LayoutInv`, ...): each of the named ones can be broken by itself by a change of the
model that PROJECT.json lists.  `MCUplink`, `MCScreen`
and `MCViews` hold the values they are instantiated with.

The `map` of `PROJECT.json` gives the lines of every definition.  Operators that
a comment marks "Mutant" are deliberately wrong variants of the operator below
them; no specification uses them.  Each is a plausible bug, and substituting it
makes TLC report the property it is listed with.

**UsbLink.**  Two FIFO wires of at most `WireCap` frames.  A message keeps its
kind and the session nonce it carries or was written in (a ghost where the real
frame carries none).  A frame cut by a crash is a `Fragment`, which merges with
the frame behind it into a malformed one, because the receiver finds the next
delimiter only at that frame's end.  `Fits` is the 4096-byte limit of `encode`,
expressed in pages.

**Daemon.**  `at` is the program counter of the main thread; a block of the loop
that writes several frames has one value per write, since each write can fail.
`ReadUnsynchronized` drops the first frame after opening the port; the
acknowledgement, other hellos, shutdown requests and everything else are separate
read actions.  The collector thread fills the one-slot `latest_health` at any
time.  The shutdown sequence follows `EventHandler::handle` and
`SystemdShutdown::poweroff` step by step, including the failing steps.  Guest
counts are reduced to the number of pages they need.

**Stick.**  One action per branch of the main loop.  `Enqueue` models
`UsbTx::enqueue`, in which a shutdown request displaces the oldest entry of a full
queue and anything else is dropped.  Timeouts may fire at any time in the state
that arms them, so every race of a timeout with a late frame is covered.

**Session.**  The two joined by the link, with the environment: a daemon that
dies at any step, a stick that resets, port errors, frames lost from closed
buffers, a daemon of another protocol version, power-off and boot.

**ShutdownService, SessionRefinement.**  What holding the button promises, without
frames or loops: in a connection requests become pending, are lost or are served
one at a time; one that is served makes the host power off at most once, or fails; a
new connection starts with none.  The refinement mapping takes the daemon's nonce for
the connection, the requests of that nonce in the stick's queue and on the wire for
what is pending, and the place in `handle` and `poweroff` for what is served.  A
request of an older connection that were still carried out, a second `systemctl`
for one request, or a power-off out of nowhere would be a step the service does not
have.

**FrameReader.**  `FrameDecoder::push` and the daemon's resynchronisation byte by
byte, the port being opened at any point of the byte stream.

**Codec.**  The same direction byte for byte: version marker, postcard, COBS and the
delimiter, frames of the versions before the marker, and what the receiver decodes
after frames of which the stick wrote only a part.  A message that does not fit the
buffer of the transmitter is dropped, as `UsbTx::poll` does (`Sendable`).

**Command.**  `command_output`: the caller's polls, the kill at the deadline, the
two reader threads and the pipes, with a child that writes more than a pipe holds,
exits at any poll, leaves a descendant with its pipes, or is stuck in the kernel.
`try_wait` may fail at any poll, which kills the child before its deadline (the `Err(_)`
of `host/src/lib.rs:47`), and so may the wait for it, which gives up the result but not
the readers.  That the kill reaches the child and that its pipes can be read is assumed.

**MockHost.**  The mock daemon joined with the very actions of `Stick`, started again
over what the previous one left on the wire.

**Persistence.**  `STATE`, the channels `MANIFESTS` and `TOPIC_UPDATES`, the
`manifest_store` task with its own copies, and the sector, whose erase and write
are two steps.  `TooBig` are the manifests whose record exceeds 2048 bytes, which
`save` refuses; `Http` those that enable the web server.

**Notifications.**  `notification_worker`: a round compares the notifiable
incidents with the previous ones and queues test messages, starts, escalations,
recoveries and repeats; then one message is published across an await.  A failed
publish may have been delivered all the same.  `unannounced` is a ghost: incidents
whose newest message was displaced or which the configuration kept quiet.

**InternetProbe.**  `ProbeState` with the two threads that share it and the
clock.  The ghosts count what the pings of the present link period returned.
`generation` is a wrapping `u32` in the code and a natural number here: the two
differ only if the link changes 2^32 times during one ping.

**Button.**  `Button::update`, sampled once per iteration of the loop at varying
distances, and what the loop does with its result.  Instants are ages in ticks up
to `MaxAge`, beyond which no comparison in the code changes.  `lcd` tells whether
the LCD shows the present state, an outdated one, the hold animation or the full
bar of a completed hold.  `Stick` has the same two button actions without their
timing: there a press may come at any moment.

**Screen.**  An iteration of the stick's main loop as one step: its stages are
functions of the record of the loop's variables, applied in the order of the code
(`Iterate`); the frames that are waiting are taken one after the other by a recursive
function (`AfterFrames`); `render` is one more stage.  Everything that depends on clocks is here: the link timeout,
the shutdown display with the loss of the bus and of the reports, the redraws.
Frames of a shutdown come at any distance and in any order, with other frames between
them: the model takes nothing from how often the daemon reports.  `report_age` is a ghost,
the time since the last report of the shutdown that is on the LCD, against which
`ReportsTimed` holds the stick's own clock.

**LcdViews, WebViews, Views.**  What the draw functions and `render_page` make of a
snapshot: text, number, place, buffer and colour of every value.  `Views` lays pages
out with the daemon's `Pages` and changes one field of the snapshot after the other.

**Dashboard.**  Two HTTP workers, the lock that admits one body at a time, routes
with the snapshot and the two readings of the clock they render, the listening port,
and `dashboard.js` with its timers, requests that fail or overtake nothing, and a tab
that is hidden.

**SetupForm.**  The setup server from the portions TCP delivers to the settings it
saves: end of the headers, content-length, the end of the stream, percent decoding,
limits, validation, response and restart.

**Station.**  The connection loop, `address_tracker`, the mDNS responder and the
start of the web server as separate tasks over an access point and a DHCP server
that come, go and change the address.

**Uplink.**  `read_network`: `ip` or the routing table, then sysfs down to the
interface.  sysfs changes between two readings.  `ResolvedBy` is one call of
`resolve_interface`, `Resolved` the recursion.

**Pages, Rules, Config, Deployed.**  The pure part of `config.rs` as operators:
page layout, conditions and report, validation, and the installed configuration.
Texts are reduced to what validation asks of them, durations to numbers, messages
to the rule they belong to; a manifest's size is its number of pages (`FramePages`).
A condition is the sequence of its parts, itself first, each `all` and `any` with the
positions of the conditions it is made of; a recursive function from the last part to
the first evaluates it, as `matches_condition` does by recursion.

**HealthCollector.**  Validation and `--check-config`, then the collector: each
refresh of a source is an action, the first collect reads them all.  An answer of
`upsc`, `df`, `smartctl` or `pvesh` is a record of the fields that the code looks
at.  `ups` is `UpsCollector` with the snapshot it returned; `read` and `missed` are
ghosts.  The probe's actions are those of InternetProbe, with the same variables.

## 3. Runs

| Run | Question | Bounds |
|---|---|---|
| `session_shutdown` | Can a shutdown request or a session frame cross from one connection into another, or both sides wait silently? Do the two loops implement ShutdownService? | 3 nonces, 2 long presses, 1 fault anywhere, wires of 2 frames, transmit queue of 2 |
| `session_manifest` | Does the stick show a snapshot only over the manifests the daemon held when it wrote it? | guest lists of 1, 2, 3 pages, the last too big for a frame, 2 nonces, 1 fault |
| `session_live` | Does the stick always get back to live data? | 3 nonces, 1 press, 1 fault, wires and queue of 1 |
| `late_request` (violation) | Is a request dropped when the stick gives the session up? | 1 nonce, 1 press |
| `guest_pages` (violation) | Does the page count follow the guest list? | 2 page counts, 1 fault |
| `frame_reader` | Does the decoder return exactly the whole frames, and decode to what was sent? Does `command_output` return the whole output in time? Is the right uplink found? Does the mock host work over old frames? | buffer of 4, segments up to 6 of 2 byte values; nonces of 1-4 bytes (`VarintBytes`, 10 in the code), 2 firmware versions and those of 3 old protocols, 2 unfinished frames; pipes of 2, output of 4, 4 polls; 5 interfaces; 2 mock sessions, 1 press, 1 fault |
| `button` | Does only a real hold request a shutdown, has a press one result? Does the LCD show the state, and the loss of the host? Is every row drawn, whole and apart? | debounce 3, double click 6, hold 6 and 3 ticks, iterations of 1 and 2 ticks; timeouts of 2, 3 and 4 s, up to 2 frames an iteration; snapshots with one or two extreme values, 9 guests |
| `settings` | Is what is in use what a restart will load? Is the form saved as typed? Does the address reach every task? Does the subscriber end up knowing? | 2 topics, 3 manifests, 2 resets, 2 flash errors; 4 names, 5 passwords, 2 hostnames, 3 topics at and past limits of 2-3 bytes; 2 addresses, 6 events; 1 incident, queue of 2, 1 failure, no repeats |
| `power_loss` (violation) | Do the credentials persist? | 1 topic, 2 manifests, 1 reset |
| `dashboard` | Does LIVE mean recent data, do incidents agree with the age, is there one body at a time? Do workers return and refreshes recover? | 2 workers, stale after 1 tick (5 s), transfers up to 1 tick, 1 broken connection, 1 other client |
| `notifications` | Does what is queued or delivered tell the newest state? | 1 incident besides host-offline, 3 configurations, queue of 2, 1 failure |
| `health` | Is HEALTHY shown only when all is well, is an outage reported for a reason and kept, does probing go on; does a valid configuration work? | 2 link changes, delays of 1-2 ticks, counters up to 2, 3 UPS samples, one of an unknown flag, 4 backup histories, 2 readings of the filesystems and of the disks, one load; about 650 configurations, 0-9 guests, up to 7 filesystems and 11 disks |

Why the bounds are enough to be interesting: three nonces allow a frame to be two
connections old; two presses allow an old and a new request to coexist; a queue of
one or two overflows; one fault may fall between any two steps (two consecutive
faults are covered by the proofs, which have no such bound); the frame buffer of 4
is crossed by segments of 5 and 6; the failure counters of the probe and the UPS
reach their maximum and are pushed beyond it; nine guests need three pages, and
the storage views have lists below, at and above the rows of one and two pages;
readings lie on and one beside the limits of the installed rules; the values of a
snapshot are the least and the greatest its fields can carry and those at which a
format changes; passwords and names have spaces, separators, percent signs and
characters of two bytes, at the limits and one beyond; a child fills its pipe twice.
One tick of staleness is enough for the dashboard, since only the order of an age and
its limit counts.

**Fairness.**  Session: the daemon's loop executes its blocks in turn, but each is
skipped while another runs or its timer is not due, so the blocks get strong
fairness and straight-line code weak fairness; the stick's loop polls transmitter,
timer and receiver every iteration (weak).  systemd restarts the process; a host
told to power off does so and is switched on again.  Faults are finite.
Persistence: the executor polls the store task when a channel is filled, and after
a manifest the task polls both channels before it yields (strong for the topic).
Notifications: the worker's loop goes on and a publish returns, which the code
does not guarantee with a silent server, as `publish_notification` has no timeout.
Button: the loop goes round, and a contact does not bounce at every sample for ever
(strong fairness of a settled release or a completed hold); holding the button for
ever is allowed.  Health: a check ends and the service is started; the collector
keeps taking snapshots, and a ping ends because `ping_target` kills it at its
deadline.  Screen: the loop goes round.  Dashboard: the executor polls every handler
and wakes the worker that waits for the lock (strong: others may be quicker), a fetch
ends, timers fire.  Command: the caller's thread and the readers run whenever they
are not blocked.  SetupForm: a read ends with data, the end of the stream or the 15 s
timeout of the socket.  Station: the executor polls the woken tasks, timers fire, and
a connection attempt to a reachable access point succeeds in the end.  MockHost: as
Session.

**Deadlock** is checked in every run but `frame_reader` and `settings`, in which a
part comes to a proper end: the call of `command_output` returns, the mock host
exits, and the budgets of events and requests are used up.

### Disagreements between the code and its documentation

- `late_request`: README.md says a request "is never saved and replayed after a
  disconnected session".  On the daemon's side that holds, and is proved
  (`NeverReplayed`).  On the stick's side it does not: after `LINK_TIMEOUT` the
  stick has given the session up while its request is still queued, and the daemon
  carries it out.
- `guest_pages`: `configured_guest_pages` is updated only after both frames of a
  page update were written, `display_config` before the first; a failure between
  the two leaves the wrong page count on the LCD for a later guest list.
- `power_loss`: `Store::save` erases the only record before it writes the new one.

Observations.  These properties are stated in the modules, quote what a document says
and fail: TLC gives a counterexample when one is put into the configuration in place
of its properties, with the change of a value where one is named.

| Property (configuration) | What the code does | What is said |
|---|---|---|
| `PowerOffPhaseStays` (`MCStick`) | `HostPoweroff` gives way to `ConnectionLost` after two seconds without USB and to `ReportingLost` after three without a report (`firmware/src/main.rs:537`) | README.md:168 "then shows the final host power-off phase locally after the USB connection disappears" |
| `SetupShown` (`MCStick`, `Provisioning = TRUE`) | the setup screen is drawn in `Waiting` only; the first snapshot replaces it (`firmware/src/main.rs:798`) | `docs/network.md:11` "On the first boot, the display shows `WIFI SETUP`, a temporary network name, and the address" |
| `AboutFollowsAddress` (`MCStick`, `WifiInReach = TRUE`, `Batches <- AboutFrames`) | the loop is not told of a new address; an open ABOUT keeps its form (`firmware/src/main.rs:580`) | `docs/network.md:65` "When the HTTP server is enabled and DHCP has assigned an address, the Stick's About screen shows a QR code" |
| `CauseShown` (`MCStick`, `Usual <- UnwellSnapshot`) | a cause of more than 16 bytes is left out, since `String<16>` refuses it and the error is dropped (`firmware/src/main.rs:882`) | `docs/configuration.md:282` "Other text in a message is displayed literally." |
| `SameInformation` (`MCStick`) | a running backup with an old success is yellow on the LCD, "ok" on the dashboard (`firmware/src/network.rs:1395`) | `docs/network.md:48` "It presents the same information as the LCD" |
| `HardDeadline` (`MCHost`) | after the kill, the wait for the child and for the readers has no limit (`host/src/lib.rs:55`) | `host/src/lib.rs:17` "Runs a child process with captured output and a hard deadline." |
| `GluedRefused` (`MCHost`) | an unfinished frame and the one behind it can decode as a Hello nobody sent (`protocol/src/lib.rs:785`) | `protocol/src/lib.rs:768` "Returns an error for malformed data" |
| `BondUp` (`MCHost`) | a bond without an active slave is reported by any of its members, an unplugged one included (`host/src/health.rs:890`) | `docs/configuration.md:90` "resolved from the default IPv4 route through any Proxmox bridge, bond, or VLAN" |
| `FormIsSaved` (`MCNetwork`) | a request that ends within its body is parsed and saved with a shorter topic (`firmware/src/network.rs:866`) | `docs/network.md:21` "Saving the form writes the settings to the final flash sector" |
| `GeneratedTopicSaved` (`MCNetwork`) | a topic generated while a manifest of more than 2 KiB is in use is used and not written; the error is dropped (`firmware/src/provisioning.rs:104`) | `docs/network.md:57` "Topic generation writes the replacement to flash immediately" |
| `ListensOnPort` (`MCDashboard`, two `Ports`) | the server keeps the port of the first manifest that enables it (`firmware/src/network.rs:633`) | `docs/configuration.md:402` "`port` is the listening TCP port" |
| `RepeatsRemaining` (`MCNotifications`) | one repeat timer serves all critical incidents: it repeats one that started in the same round (`firmware/src/network.rs:1639`) | `docs/network.md:81` "remains critical for the configured repeat interval" |

Others, that no property states: more than eight simultaneous incidents displace each
other's first message; a manifest received in provisioning mode is not persisted;
`docs/configuration.md` speaks of a 16 KiB frame, the code has 4 KiB; an HTTP output
without views is rejected even when it is disabled, since `network_config` compiles
its pages, although the check in `validate_outputs` is meant for enabled outputs
only; a UPS that reported a low battery (critical) is reported as unavailable (a
warning) once its queries fail; a UPS whose flags `parse_upsc` does not know is a warning
(`deploy/servatory.yaml:118`), but not while that reading is stale, so that one failed
query turns the stick from the warning to HEALTHY until the UPS counts as unavailable
(`PowerGood` admits this case; the attempt to prove it without failed here);
`host/src/lib.rs:142` says "Repeating unchanged counts acts as a shutdown heartbeat for the
display", but a report comes a second and a query of up to `COMMAND_TIMEOUT` (10 s) after
the last one, and before the monitor's first report come a blocking `systemctl`, a second
and another query, while the stick waits `SHUTDOWN_REPORT_TIMEOUT` (3 s): during a slow query it shows
REPORTING LOST, until the next report takes it back (`ReportsTimed`).

## 4. Proofs

All theorems hold for every value of the constants that satisfies the named
assumptions (`LinkAssumption`, `DaemonAssumption`, `StickAssumption` and so on,
which only give the constants their types and make capacities positive).  Where a
theorem needs more, its statement says so.

| Module | Theorems | Argument |
|---|---|---|
| SessionProofs | `TypeCorrect`, `SessionInvariant`, `NeverHalfOpen`, `RequestsNotReplayed`, `FramesOfTheSession`, `SessionImplementsService` | `SessionInv`; counting requests |
| ManifestProofs | `PageAlwaysExists`, `SnapshotsOverManifests`, `SnapshotsWithoutShutdown` | `PageInv`; `ManifestInv` on top of `SessionInv` |
| HostProofs | `BufferIsSegment`, `FramesComeOutIntact`, `OnlyWholeFrames`, `OutputIsComplete`, `KillsOnlyLate`; `DecodesAsWritten`; `UplinkCarriesRoute`, `FallbackIsActive`; `SamplesInSession` | `ReaderInv`; `CommandInv`; `OnWire`; induction over what has been visited; `MockInv` |
| StickProofs | `ButtonInvariant`, `LcdIsCurrent`, `RequestWasHeld`, `PressHasOneResult`, `ScreenSafe`, `LostWhenQuiet` | `ButtonInv`; `ScreenIInv`, `LossIInv` |
| PersistenceProofs | `PersistenceInvariant`, `SettingsAreSaved`; `AddressIsCurrent`; `FormSavedAsTyped`, `FormReadToItsEnd` | `PersistenceInv`; `WifiInv`; `RequestInv`, induction over the bytes |
| HealthProofs | `ProbeInvariant`, `FailureIsJustified`, `FailureStays`, `SettleDelayKept`, `CollectorProbes`; `SourcesKept`, `ReportFollowsSources`; `ValidMeansUsable` | `ProbeInv`; `SourceInv`; `CheckedInv` |
| DashboardProofs | `DashboardSafe` | `DashboardIInv` |
| NotificationsProofs | `NotificationsSafe` | `NotificationsIInv` |

**SessionProofs.**  `NeverReplayed`, `SessionScoped` and `NoHalfOpenSession` are
not inductive.  `SessionInv` is, and says where a nonce can be: nothing carries a
nonce not yet drawn; once the current nonce has been acknowledged anywhere (either
side, wire or queue), the stick holds it or nothing and no older challenge is on
its way; behind an acknowledgement only requests of the current session follow; in
an established session every request on its way belongs to it; a session frame on
the wire has the session of the challenge in front of it.  The argument is the
order of the FIFO wire: the stick acknowledges a challenge only after everything
older has been read, and the daemon drops everything in front of the
acknowledgement.  Lemmas state how each wire operation (put, take, lose at either
end, displace from the queue) preserves the conjuncts; each action cites them.

The refinement, `Spec => ImplementsService`: the initial state of Session maps to
that of ShutdownService, and every step to a step of it or to a stutter.  The lemmas
count the requests of a connection in a sequence of frames: what a write, a
loss, a read, and an enqueue that displaces another message make of the number.  Of
`SessionInv` three facts are used: the state is well typed; no frame carries the nonce
of a connection that is still to come, so that a new one starts with nothing pending;
and a daemon that has a session accepts requests of its own nonce only, so that what
it serves was pending.

**ManifestProofs.**  `PageInv` is `PageExists` with what it rests on: every manifest on
the wire, the one the daemon has, and the guest list it is about to lay out again have a
page; a write that fails leaves a prefix that is no manifest.

`ManifestInv` is what `SnapshotOverManifest` rests on.  `Brings(wire, n, kind, ...)`
says what the stick will hold once it has read the first n frames of the wire: the last
manifest of the kind among them, if no challenge follows it, or what it holds already if
there is neither.  Every snapshot on the wire finds both its manifests this way
(`SnapshotsFit`); once the daemon has sent its manifests in a session, the whole wire
brings the present ones, so that the next snapshot may be written (`ManifestsSent`);
behind the challenge of the connection no frame is cut (`NothingCut`), because a failed
write of the main loop closes the port.  A frame that is read, written, lost from the
end of a closed buffer or merged with a fragment preserves `Brings` (one lemma each).

The last part fails for one kind of write.  `poweroff` returns the error of a progress
report that was cut (`host/src/lib.rs:117`), and the loop goes on with the port open
until the host is off; a `DisplayConfig` written meanwhile only completes the fragment
and reaches the stick garbled, while `display_config` counts it as sent
(`host/src/main.rs:173`).  The
next snapshot is drawn over the old manifest, and TLC shows the run when
`session_manifest` has `AllowShutdown = TRUE`.  So there are two theorems:
`SnapshotsOverManifests` assumes that no write that leaves the port open is cut
(`WholeReports`), and `SnapshotsWithoutShutdown`, which has no such assumption, is about
a daemon whose shutdown action is disabled, the configuration of the run.

**HostProofs.**  `ReaderInv` relates the buffer to the bytes since the last
delimiter; `FramesIntact` and `WholeFrames` follow.  `CommandInv`: a reader thread ends
only when its pipe is empty and has no writer, and the caller returns after joining
both, whether the wait for the child succeeded or not; a child is killed at the deadline
or by a poll that failed.  `OutputComplete` and `KilledAtDeadline` follow, for all pipe
sizes, outputs and deadlines.

`DecodesAsWritten` holds for every set of firmware versions of ASCII characters and of
nonces that fit a varint.  What postcard and cobs do is defined by recursive functions,
whose existence `Recursion` shows.  `VarintRead`: the bytes that start with the varint of a
number are read as it (an induction over its bytes, from the last).  `CobsRoundTrip`: the
decoder, after k bytes of an encoded sequence, has given back the first k - 1 and stands in
a block that ends at the next zero of the sequence.  With `Deserializes` for the messages
this gives `Returned`, the round trip; `LegacyTold` and `NextTold` tell the other protocols.
For the last part the invariant (`OnWire`) is that what unfinished frames leave starts with
a prefix of one frame and, if it goes on, with the first byte of a mark.  `NotRequest` shows
that such bytes are no request wherever the prefix ends: in the header the mark or the
version is wrong; in the body of a request the byte 165 of the mark stands where a length
is due, and exceeds the 128 bytes of the frame; and a Hello gives its own first byte, which
is not 0.

`UplinkCarriesRoute` and `FallbackIsActive` hold for every finite set of interfaces and
for every stack, one with cycles and members that vanish included.  `resolve_interface`
is a recursive function over the sets of interfaces visited: `ResolutionExists` shows that
it exists, since every call visits one more, and `ResolvedReaches`, by the same induction,
that what it returns lies below what it was given.  That sysfs may change between two
refreshes needs no more than `LinkInv`, its type.

`SamplesInSession` is the safety part of `MockServes`.  Frames of the mock host carry no
nonce, so that a sample on the wire belongs to the session the stick is in only if no
older challenge is still to come and no newer one has been taken up.  `MockInv`: the
challenges and samples on the wire are those of starts in their order, none older than the
session the stick is in; and once a session has been taken up (the mock host knows of it,
or its acknowledgement or a sample of it is under way), no challenge on the wire and no
session the stick is in is older (`NoneOlder`).  A reset of either side, a cut frame and
lost input only take frames from the wires (`Passes`).

**StickProofs.**  `ButtonInv`: the pin has been down for at least the hold time
counted so far plus the debounce, which makes up for the release being counted;
the animation belongs to an undecided hold; an outdated LCD has a redraw pending;
only a press that was answered as a hold has requested.  `HeldLongEnough`,
`OneActionPerPress` and `LcdCurrent` follow, for all thresholds and manifests.

The screens have one lemma for each stage of the main loop, which says what the stage
keeps (`Keeps`: a change that needs a redraw asks for it, a shutdown is timed from its
last report, the last count stays), and the iteration composes them.  A batch may have
any number of frames: `FramesInTurn` shows that the recursive function that reads them
exists, and an induction over its frames that each of them keeps `Receives`.  For
`ReportsTimed` the invariant has two halves.  `Timed`: in a shutdown that has not failed,
the stick's `last_update`, which snapshots set and a Hello clears as well, is the age of the
last report, and REPORTING LOST is shown only when that has reached the timeout.
`InTime`: after the stage that looks at the clock, a screen of progress is younger than the
timeout.  `ScreenSafe` follows, for all timeouts and with no assumption on the daemon.
For `LostWhenQuiet`, `LossIInv` says that `shutdown_usb_lost_since` never reaches
further back than the bus has been quiet, which each transition out of the shutdown views
has to re-establish.

**PersistenceProofs.**  `PersistenceInv`: `STATE` is what the store task has taken
up overridden by what is queued, and after a successful save the flash equals the
task's copies.  `SettingsSaved` follows.

`AddressIsCurrent` is the safety part of `AddressFollowed`.  `AddressCurrent` speaks of
the states in which the tasks have run, and is not inductive.  `WifiInv` says what holds
between them: while `address_tracker` waits for the configuration to change from the one
it saw last, what it has passed on is that one (`TrackedShown`); a responder that runs,
and only such a one, answers, with the address of the configuration while there is one
(`RunningAnswers`).

`FormSavedAsTyped` and `FormReadToItsEnd` are the safety part of `FormKept`.
`RoundTrip` says that `form_decode` undoes the browser's encoding: after the turns of its
loop for the first n bytes it is at the end of what stands for them and has these bytes
(`Encodes`, `Decodes`, `TurnTakes`).  `BodyIs` says where the fields are: no token of a value is a
name or a separator, so each name occurs once (`FieldAt`).  A connection may end anywhere,
and the server parses what it has: settings are accepted only if the name of the last
required field, the topic, has come, so that the fields before it are there in full
(`FieldInPrefix`).  This is why the topic is not part of the theorem, and `FormIsSaved`
fails for it.  `RequestInv` ties the form to the wire: what has been read and what is to come
make up what the client sends.

`FormReadToItsEnd` assumes that the buffer holds every request the page can make
(`RequestsFit`, which `MCNetwork` checks of its instance).  In the code the page admits 255
UTF-16 units, of at most 9 bytes each when encoded, and 37 bytes of names and
separators, which leaves more than 700 of the 3072 bytes for the request line and the
headers.

**HealthProofs.**  `ProbeInv`: the counter never exceeds the failures of this link
period that count, a pending grace retry means that none has been seen, and during the
settle delay no probe is due while a running ping belongs to an earlier period.
`FailedForAReason`, `FailedUntilReached` and `LinkSettled` follow; `CollectorProbes`
carries them over to the daemon, whose other threads leave the probe's state alone.

`ReportFollowsSources` has three layers.  `ConditionJudged` shows that the recursive
function that evaluates a condition exists, and `AnyOfOne`, `AllOfTwo` and so on what it
makes of the shapes of conditions that are installed; `PrimaryInTurn` does the same for the
fold over the rules, and `PrimaryReports`, an induction over any number of rules, says
that it returns the first of the worst.  One lemma for each source (`QuietUps`,
`QuietDisks`, ...) says what remains of the 25 installed rules when none matches.
`SourceInv` says that what the collector keeps is what each source said last, and that
the UPS counter, which saturates, agrees with the failures in a row, which do not; it needs
`failures_before_unavailable <= MaxCount`, true of a `u8`.  `RecentBackup` goes from the
task that `sort_by_key` puts last, and the greatest end of a success, to the tasks in any
order.

`ValidMeansUsable`: `ViewHasPage`, and `FlattenedNotEmpty` by the technique of
`FramesInTurn`, give a page to every output; `ChunksShowAll` says that enough
chunks of a list, joined, are the list, and `EnoughPages` that the page counts are enough.
The answer of `--check-config` (`CheckedInv`) is used for any set of configurations; what
parsing grants of their types is `Typed`.

**DashboardProofs.**  `DashboardIInv`: the worker that holds the lock is the only one
with a body; an age in a body is outdated by at most the time its transfer has taken
(`AgeHonest`), and the page, which counts on from it, by at most `MaxTransfer`
(`ShownHonest`); a body with incidents is that of an age beyond `HOST_STALE_AFTER`.

**NotificationsProofs.**  `NotificationsIInv`: what the subscriber will know of an
incident is the newest message about it in the queue, or what it heard last if there is
none (`Latest`); for every incident that is not `unannounced` this agrees with the
worker's `previous`.  A round adds messages at the end, displaces some at the front,
and sets `previous`; a publish takes the first.  The lemmas say what each of these makes
of the newest message about an incident, for queues of any length.

**Induction.**  Neither prover can instantiate the induction theorems of the library.
Where an induction is needed it is made with sets: a set of natural numbers that is
not empty has a least element (`Least`, by `WFMin` and `NatLessThanWellFounded`), so a set
that contains 0 and with n - 1 also n contains all of them (`Induction`).  `Recursion` derives from
it that a recursive function over 0..n exists, which is what `EncodedIs` and `DecodedIs` need.

**Only model-checked**

| Property | Why |
|---|---|
| `AlwaysReconnects`, `PressAnswered`, `TopicReachesFlash`, `SettledStateKnown`, `ServiceRecovers`, `VerdictReached`, and what must happen in `OutputInTime`, `MockServes`, `FormKept`, `AddressFollowed`, `LossShown` (`HostOffShown`) | they need fairness, which the prover does not handle |
| `FindsPhysical` of `UplinkFound` | it depends on the hosts (`MCHosts`): on a bond without an active slave, and on how far a speed counts |
| `ViewsShown` | a finite comparison of two renderings, which TLC evaluates |

## 5. Not modelled, and the plan

Not modelled: the bytes of the daemon's messages (their kinds and sizes are), the
syntax of YAML and of the programs' output, message templates, the readers of
`/proc` and the guest list, TLS, icons, the ABOUT texts, the QR code, page dots and
pixels, the access point's own DHCP and DNS replies, which keep no state, a lease
that changes its address in place, memory set-up, installation scripts.  Nonces are
assumed fresh: a clock set back to the same nanosecond, or a failing one with a
recycled process id, would repeat one (`host/src/main.rs:333`).

Plan, most important first:

1. done: link, daemon, stick and their composition; framing; their proofs;
2. done: settings and their proof; notifications; internet probe and its proof;
3. done: the button with its timing and screens, and its proof; collector, rules,
   page layout and validation;
4. done: an abstract specification of the shutdown service that Session implements;
   the LCD and the views; the dashboard and its page; Wi-Fi and the setup form;
   running programs, the uplink, the codec and the mock host;
5. done: the proof that Session implements the shutdown service, of `PageExists`, of
   `SnapshotOverManifest`, and of the invariants of Screen, Dashboard and Notifications;
6. done: conditions as flat sequences of their parts, and with them the proofs of
   `CollectorInv` and of the page layout (`LayoutInv`);
7. done: the proofs of the codec's round trip, of what the uplink reports, of the address
   that is shown and announced, of the mock host's sessions, and of the setup form;
8. next: an abstract notification service that Notifications implements.
