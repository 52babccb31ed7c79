--------------------------- MODULE ManifestProofs ---------------------------
(***************************************************************************)
(* What the stick shows is laid out by the manifests it holds, for every   *)
(* value of the constants.  First PageExists: the page on the LCD is in    *)
(* the manifest, since every manifest that reaches the stick has a page.   *)
(* Then SnapshotOverManifest: a snapshot finds the manifests that the      *)
(* daemon wrote it for, by where they are on the wire.                     *)
(***************************************************************************)
EXTENDS SessionProofs

-----------------------------------------------------------------------------
(* Every manifest has a page.                                              *)

\* Frames of the daemon; a display manifest has a page.
PagedMessage == {m \in HostMessage : m.kind = "DisplayConfig" => m.pages > 0}

\* The manifest of the daemon, and the guest list it lays a new one out for, have pages.
DaemonHasPages == display_config > 0 /\ (at = "update_display" => taken > 0)

PageInv ==
    /\ toStick \in Seq(PagedMessage)
    /\ DaemonHasPages
    /\ display_pages > 0
    /\ PageExists

-----------------------------------------------------------------------------
(* Frames.                                                                 *)

\* What the two sides put on the wire besides manifests.
LEMMA PagedFrames ==
    /\ \A k \in ({"Hello"} \cup SessionKinds) \ {"DisplayConfig"} : \A s, p \in Nat :
         HostFrame(k, s, p) \in PagedMessage
    /\ \A s \in Nat, p \in Nat \ {0} : HostFrame("DisplayConfig", s, p) \in PagedMessage
    /\ \A s, p, d, n \in Nat :
         [HostFrame("HealthSnapshot", s, p) EXCEPT !.display = d, !.network = n] \in PagedMessage
    /\ \A k \in NoiseKinds : HostNoise(k) \in PagedMessage
<1>1. \A k \in ({"Hello"} \cup SessionKinds) \ {"DisplayConfig"} : \A s, p \in Nat :
        HostFrame(k, s, p) \in PagedMessage
  <2> TAKE k \in ({"Hello"} \cup SessionKinds) \ {"DisplayConfig"}, s \in Nat, p \in Nat
  <2>1. HostFrame(k, s, p) \in HostMessage
    BY FrameTypes
  <2>2. HostFrame(k, s, p).kind # "DisplayConfig"
    BY DEF HostFrame
  <2> QED BY <2>1, <2>2 DEF PagedMessage
<1>2. \A s \in Nat, p \in Nat \ {0} : HostFrame("DisplayConfig", s, p) \in PagedMessage
  <2> TAKE s \in Nat, p \in Nat \ {0}
  <2>1. HostFrame("DisplayConfig", s, p) \in HostMessage
    BY FrameTypes DEF SessionKinds
  <2>2. HostFrame("DisplayConfig", s, p).pages > 0
    BY DEF HostFrame
  <2> QED BY <2>1, <2>2 DEF PagedMessage
<1>3. \A s, p, d, n \in Nat :
        [HostFrame("HealthSnapshot", s, p) EXCEPT !.display = d, !.network = n] \in PagedMessage
  <2> TAKE s, p, d, n \in Nat
  <2> DEFINE m == [HostFrame("HealthSnapshot", s, p) EXCEPT !.display = d, !.network = n]
  <2>1. m \in HostMessage
    BY FrameTypes DEF SessionKinds
  <2>2. m.kind = "HealthSnapshot"
    BY DEF HostFrame
  <2>3. m \in PagedMessage
    <3> HIDE DEF m
    <3> QED BY <2>1, <2>2 DEF PagedMessage
  <2> QED BY <2>3 DEF m
<1>4. \A k \in NoiseKinds : HostNoise(k) \in PagedMessage
  <2> TAKE k \in NoiseKinds
  <2>1. HostNoise(k) \in HostMessage
    BY FrameTypes
  <2>2. HostNoise(k).kind # "DisplayConfig"
    BY DEF HostNoise, HostFrame, NoiseKinds
  <2> QED BY <2>1, <2>2 DEF PagedMessage
<1> QED BY <1>1, <1>2, <1>3, <1>4

\* A write of such a frame, completed, failed or not attempted.
LEMMA PagedWrites ==
    ASSUME toStick \in Seq(PagedMessage), NEW m \in PagedMessage,
           Write(m) \/ WriteFails(m) \/ UNCHANGED toStick
    PROVE  toStick' \in Seq(PagedMessage)
<1>1. HostNoise("Garbled") \in PagedMessage /\ HostNoise("Fragment") \in PagedMessage
  BY PagedFrames DEF NoiseKinds
<1>2. PutHost(m) \in Seq(PagedMessage) /\ PutHost(HostNoise("Fragment")) \in Seq(PagedMessage)
  BY <1>1, PutFrames DEF PutHost
<1> QED BY <1>2 DEF Write, WriteFails

-----------------------------------------------------------------------------
(* The steps.                                                              *)

\* What the daemon writes: manifests only of its configuration or of a guest list.
LEMMA DaemonPagedFrames ==
    ASSUME TypeOK, PageInv, DaemonNext
    PROVE  toStick' \in Seq(PagedMessage)
<1>1. /\ handshake_nonce \in Nat /\ display_config \in Nat /\ network_config \in Nat
      /\ taken \in Nat /\ 0 \in Nat
  BY DEF TypeOK, DaemonTypeOK
<1>2. ASSUME NEW m \in PagedMessage, Write(m) \/ WriteFails(m) \/ UNCHANGED toStick
      PROVE  toStick' \in Seq(PagedMessage)
  BY <1>2, PagedWrites DEF PageInv
<1>3. ASSUME NEW k \in ({"Hello"} \cup SessionKinds) \ {"DisplayConfig"}, NEW p \in Nat
      PROVE  HostFrame(k, handshake_nonce, p) \in PagedMessage
  BY <1>1, PagedFrames
<1>4. CASE SendHello
  <2>1. HostFrame("Hello", handshake_nonce, 0) \in PagedMessage
    BY <1>1, <1>3
  <2> QED BY <1>2, <1>4, <2>1 DEF SendHello
<1>5. CASE SendManifestDisplay
  <2>1. display_config \in Nat \ {0}
    BY <1>1 DEF PageInv, DaemonHasPages
  <2>2. HostFrame("DisplayConfig", handshake_nonce, display_config) \in PagedMessage
    BY <1>1, <2>1, PagedFrames
  <2> QED BY <1>2, <1>5, <2>2 DEF SendManifestDisplay
<1>6. CASE SendManifestNetwork \/ UpdateNetwork
  <2>1. /\ HostFrame("NetworkConfig", handshake_nonce, network_config) \in PagedMessage
        /\ HostFrame("NetworkConfig", handshake_nonce, taken) \in PagedMessage
    BY <1>1, <1>3 DEF SessionKinds
  <2> QED BY <1>2, <1>6, <2>1 DEF SendManifestNetwork, UpdateNetwork
<1>7. CASE UpdateDisplay
  <2>1. taken \in Nat \ {0}
    BY <1>1, <1>7 DEF PageInv, DaemonHasPages, UpdateDisplay, Running
  <2>2. HostFrame("DisplayConfig", handshake_nonce, taken) \in PagedMessage
    BY <1>1, <2>1, PagedFrames
  <2> QED BY <1>2, <1>7, <2>2 DEF UpdateDisplay
<1>8. CASE SendSnapshot
  <2>1. [HostFrame("HealthSnapshot", handshake_nonce, taken)
           EXCEPT !.display = display_config, !.network = network_config] \in PagedMessage
    BY <1>1, PagedFrames
  <2> QED BY <1>2, <1>8, <2>1 DEF SendSnapshot
<1>9. CASE \/ AcceptShutdown \/ PrepareGuests \/ CountGuests \/ ReportFailure
           \/ MonitorGuests \/ GuestsStopped \/ FinishPoweroff
  <2>1. \A k \in {"ShutdownAccepted", "ShutdownFailed"} \cup ShutdownPhase :
          HostFrame(k, handshake_nonce, 0) \in PagedMessage
    BY <1>1, <1>3 DEF SessionKinds, ShutdownPhase
  <2>2. PICK k \in {"ShutdownAccepted", "ShutdownFailed"} \cup ShutdownPhase :
          \/ Write(HostFrame(k, handshake_nonce, 0))
          \/ WriteFails(HostFrame(k, handshake_nonce, 0))
          \/ UNCHANGED toStick
    BY <1>9 DEF AcceptShutdown, PrepareGuests, CountGuests, ReportFailure, MonitorGuests,
                GuestsStopped, FinishPoweroff, Report, ShutdownPhase
  <2> QED BY <1>2, <2>1, <2>2
<1>10. CASE \/ Start \/ Open \/ Collect \/ TakeSnapshot \/ ReadError \/ SystemPoweroff
            \/ ReadUnsynchronized \/ ReadAcknowledgement \/ ReadOtherHello \/ HandleShutdown
            \/ DiscardFrame
  <2>1. UNCHANGED toStick
    BY <1>10 DEF Start, Open, Collect, TakeSnapshot, ReadError, SystemPoweroff,
                 ReadUnsynchronized, ReadAcknowledgement, ReadOtherHello, HandleShutdown,
                 DiscardFrame
  <2> QED BY <2>1 DEF PageInv
<1> QED BY <1>4, <1>5, <1>6, <1>7, <1>8, <1>9, <1>10 DEF DaemonNext

\* A new manifest is made of a guest list that was collected.
LEMMA DaemonKeepsPages ==
    ASSUME TypeOK, PageInv, DaemonNext
    PROVE  DaemonHasPages'
<1> USE DEF PageInv, DaemonHasPages
<1>1. latest_health \in Nat /\ taken \in Nat
  BY DEF TypeOK, DaemonTypeOK
<1>2. CASE Start
  BY <1>2 DEF Start
<1>3. CASE Open \/ Collect
  BY <1>3 DEF Open, Collect, manifestVars
<1>4. CASE \/ SendHello \/ SendManifestDisplay \/ SendManifestNetwork \/ SendSnapshot \/ ReadError
           \/ AcceptShutdown
  BY <1>4 DEF SendHello, SendManifestDisplay, SendManifestNetwork, SendSnapshot, ReadError,
              AcceptShutdown, Disconnect, Running, manifestVars
<1>5. CASE TakeSnapshot
  BY <1>1, <1>5 DEF TakeSnapshot, manifestVars
<1>6. CASE UpdateDisplay
  BY <1>1, <1>6 DEF UpdateDisplay, Running, Disconnect
<1>7. CASE UpdateNetwork
  BY <1>7 DEF UpdateNetwork, Disconnect
<1>8. CASE \/ ReadUnsynchronized \/ ReadAcknowledgement \/ ReadOtherHello \/ HandleShutdown
           \/ DiscardFrame
  BY <1>8 DEF ReadUnsynchronized, ReadAcknowledgement, ReadOtherHello, HandleShutdown,
              DiscardFrame, manifestVars
<1>9. CASE \/ PrepareGuests \/ CountGuests \/ SystemPoweroff \/ ReportFailure
           \/ MonitorGuests \/ GuestsStopped \/ FinishPoweroff
  BY <1>9 DEF PrepareGuests, CountGuests, SystemPoweroff, ReportFailure, MonitorGuests,
              GuestsStopped, FinishPoweroff, Report, poweroffUnchanged, manifestVars
<1> QED BY <1>2, <1>3, <1>4, <1>5, <1>6, <1>7, <1>8, <1>9 DEF DaemonNext

\* Frames the stick has read or lost are gone, the others unchanged.
LEMMA StickPagedFrames ==
    ASSUME PageInv, StickNext
    PROVE  toStick' \in Seq(PagedMessage)
<1>1. toStick \in Seq(PagedMessage)
  BY DEF PageInv
<1>2. CASE TxPoll \/ HelloTimer \/ LinkTimeout \/ ShutdownTimeout \/ NextScreen \/ LongPress
  BY <1>1, <1>2 DEF TxPoll, HelloTimer, LinkTimeout, ShutdownTimeout, NextScreen, LongPress
<1>3. CASE \/ ReceiveHello \/ IgnoreFrame \/ ReceiveForeign \/ ReceiveSnapshot
           \/ ReceiveDisplayConfig \/ ReceiveNetworkConfig \/ ReceiveProgress \/ ReceiveFailure
  <2>1. toStick # <<>> /\ toStick' = Tail(toStick)
    BY <1>3 DEF ReceiveHello, IgnoreFrame, ReceiveForeign, ReceiveSnapshot, ReceiveDisplayConfig,
                ReceiveNetworkConfig, ReceiveProgress, ReceiveFailure, Receive, Readable
  <2> QED BY <1>1, <2>1
<1>4. CASE StickReboot
  <2>1. PICK k \in 0..Len(toStick) : toStick' = SubSeq(toStick, k + 1, Len(toStick))
    BY <1>4 DEF StickReboot
  <2> QED BY <1>1, <2>1
<1> QED BY <1>2, <1>3, <1>4 DEF StickNext

\* The stick turns pages within its manifest, and takes a new manifest's pages over.
LEMMA StickKeepsPage ==
    ASSUME TypeOK, PageInv, StickNext
    PROVE  display_pages' > 0 /\ PageExists'
<1>1. display_pages \in Nat \ {0} /\ page \in Nat /\ page < display_pages
  BY DEF PageInv, PageExists, TypeOK, StickTypeOK
<1>2. \A n \in Nat, d \in Nat \ {0} : n % d < d
  OBVIOUS
<1>3. CASE NextScreen
  <2>1. page' = (page + 1) % display_pages /\ UNCHANGED display_pages
    BY <1>1, <1>3 DEF NextScreen
  <2> QED BY <1>1, <1>2, <2>1 DEF PageExists
<1>4. CASE ReceiveDisplayConfig
  <2>1. toStick # <<>> /\ toStick \in Seq(PagedMessage) /\ Head(toStick).kind = "DisplayConfig"
    BY <1>4 DEF ReceiveDisplayConfig, Receive, Readable, PageInv
  <2>2. Head(toStick) \in PagedMessage
    BY <2>1
  <2>3. Head(toStick).pages \in Nat \ {0}
    BY <2>1, <2>2 DEF PagedMessage, HostMessage
  <2>4. display_pages' = Head(toStick).pages /\ page' = page % Head(toStick).pages
    BY <1>4, <2>3 DEF ReceiveDisplayConfig, PageWithin
  <2> QED BY <1>1, <1>2, <2>3, <2>4 DEF PageExists
<1>5. CASE StickReboot
  BY <1>5 DEF StickReboot, PageExists
<1>6. CASE \/ TxPoll \/ HelloTimer \/ LinkTimeout \/ ShutdownTimeout \/ LongPress
           \/ ReceiveHello \/ IgnoreFrame \/ ReceiveForeign \/ ReceiveSnapshot
           \/ ReceiveNetworkConfig \/ ReceiveProgress \/ ReceiveFailure
  <2>1. UNCHANGED <<display_pages, page>>
    BY <1>6 DEF TxPoll, HelloTimer, LinkTimeout, ShutdownTimeout, LongPress, ReceiveHello,
                IgnoreFrame, ReceiveForeign, ReceiveSnapshot, ReceiveNetworkConfig,
                ReceiveProgress, ReceiveFailure, screenVars
  <2> QED BY <1>1, <2>1 DEF PageExists
<1> QED BY <1>3, <1>4, <1>5, <1>6 DEF StickNext

\* The environment cuts frames off and adds noise.
LEMMA EnvironmentPagedFrames ==
    ASSUME PageInv, HostEnvironment
    PROVE  toStick' \in Seq(PagedMessage) /\ DaemonHasPages'
<1>1. toStick \in Seq(PagedMessage)
  BY DEF PageInv
<1>2. \A k \in NoiseKinds : HostNoise(k) \in PagedMessage
  BY PagedFrames
<1>3. DaemonHasPages'
  BY DEF PageInv, DaemonHasPages, HostEnvironment, DaemonCrash, ForeignDaemon, LoseFrames,
         HostOff, HostBoot, daemonVars, manifestVars
<1>4. CASE DaemonCrash \/ HostOff \/ HostBoot
  BY <1>1, <1>3, <1>4 DEF DaemonCrash, HostOff, HostBoot, linkVars
<1>5. CASE ForeignDaemon
  <2>1. PutHost(HostNoise("Foreign")) \in Seq(PagedMessage)
    BY <1>1, <1>2, PutFrames DEF PutHost, NoiseKinds
  <2> QED BY <1>3, <1>5, <2>1 DEF ForeignDaemon
<1>6. CASE LoseFrames
  <2> DEFINE kept == SubSeq(toStick, 1, Len(toStick) - 1)
  <2>1. toStick # <<>> => kept \in Seq(PagedMessage)
    BY <1>1, FrontFrames
  <2>2. \/ toStick' = toStick
        \/ toStick # <<>> /\ toStick' \in {kept, Append(kept, HostNoise("Fragment"))}
    BY <1>6 DEF LoseFrames
  <2>3. HostNoise("Fragment") \in PagedMessage
    BY <1>2 DEF NoiseKinds
  <2> HIDE DEF kept
  <2> QED BY <1>1, <1>3, <2>1, <2>2, <2>3
<1> QED BY <1>4, <1>5, <1>6 DEF HostEnvironment

-----------------------------------------------------------------------------

\* The daemon starts with a manifest of one page, the stick with its waiting screen.
LEMMA InitPage == Init => PageInv
<1> SUFFICES ASSUME Init PROVE PageInv
  OBVIOUS
<1>1. toStick \in Seq(PagedMessage)
  BY DEF Init, LinkInit
<1> QED BY <1>1 DEF Init, DaemonInit, StickInit, PageInv, DaemonHasPages, PageExists

\* The manifests on the wire, in the daemon and in the stick keep having pages.
LEMMA PageStep == TypeOK /\ PageInv /\ [Next]_vars => PageInv'
<1> SUFFICES ASSUME TypeOK, PageInv, [Next]_vars PROVE PageInv'
  OBVIOUS
<1>1. CASE DaemonNext /\ UNCHANGED stickVars
  <2>1. display_pages' > 0 /\ PageExists'
    BY <1>1 DEF PageInv, PageExists, stickVars, screenVars
  <2> QED BY <1>1, <2>1, DaemonPagedFrames, DaemonKeepsPages DEF PageInv
<1>2. CASE StickNext /\ UNCHANGED daemonVars
  <2>1. DaemonHasPages'
    BY <1>2 DEF PageInv, DaemonHasPages, daemonVars, manifestVars
  <2> QED BY <1>2, <2>1, StickPagedFrames, StickKeepsPage DEF PageInv
<1>3. CASE HostEnvironment /\ UNCHANGED stickVars
  <2>1. display_pages' > 0 /\ PageExists'
    BY <1>3 DEF PageInv, PageExists, stickVars, screenVars
  <2> QED BY <1>3, <2>1, EnvironmentPagedFrames DEF PageInv
<1>4. CASE UNCHANGED vars
  BY <1>4 DEF vars, linkVars, daemonVars, manifestVars, stickVars, screenVars, PageInv,
              DaemonHasPages, PageExists
<1> QED BY <1>1, <1>2, <1>3, <1>4 DEF Next

\* Whatever guest lists come and go, and whatever is lost between the daemon and the
\* stick, the page the LCD shows is one of the manifest it holds (the modulo of the
\* stick's DisplayConfig handler and of the button's NextScreen).
THEOREM PageAlwaysExists == Spec => []PageExists
<1>1. Init => PageInv
  BY InitPage
<1>2. TypeOK /\ PageInv /\ [Next]_vars => PageInv'
  BY PageStep
<1>3. PageInv => PageExists
  BY DEF PageInv
<1> QED BY <1>1, <1>2, <1>3, TypeCorrect, PTL DEF Spec

-----------------------------------------------------------------------------
(* Snapshots over their manifests.                                         *)

\* Once the stick has read the first n frames of the wire it holds the manifest d of
\* this kind, if it has a session: the last one in them is d, and no challenge follows,
\* or there is none in them and it holds d already.
Brings(wire, n, kind, session, held, d) ==
    \/ \E i \in 1..n : /\ wire[i].kind = kind /\ wire[i].pages = d
                       /\ \A k \in (i + 1)..n : wire[k].kind \notin {"Hello", kind}
    \/ /\ \A k \in 1..n : wire[k].kind \notin {"Hello", kind}
       /\ session = NoSession \/ held = d

\* Every snapshot on the wire finds the manifests the daemon wrote it for.
SnapshotsFit(wire, session, pages, web) ==
    \A j \in 1..Len(wire) : wire[j].kind = "HealthSnapshot" =>
        /\ Brings(wire, j - 1, "DisplayConfig", session, pages, wire[j].display)
        /\ Brings(wire, j - 1, "NetworkConfig", session, web, wire[j].network)

\* The daemon has sent its manifests in this session.
DisplaySent == port /\ handshake_established /\ (~manifest_pending \/ at = "manifest_network")

NetworkSent == port /\ handshake_established /\ ~manifest_pending

ManifestsSent ==
    /\ DisplaySent => Brings(toStick, Len(toStick), "DisplayConfig", daemon_session, display_pages,
                             display_config)
    /\ NetworkSent => Brings(toStick, Len(toStick), "NetworkConfig", daemon_session, web_manifest,
                             network_config)

\* The stick has the challenge of this connection, or it is on its way.
Challenged ==
    \/ Acknowledged
    \/ \E i \in 1..Len(toStick) : toStick[i].kind = "Hello" /\ toStick[i].session = handshake_nonce

\* Behind the challenge no frame is cut.
NothingCut == port /\ Challenged => ~EndsInFragment(toStick)

DaemonPlaces ==
    /\ port => proc = "running"
    /\ at \in {"update_display", "update_network", "snapshot"} => ~manifest_pending

ManifestInv ==
    /\ DaemonPlaces
    /\ NothingCut
    /\ SnapshotsFit(toStick, daemon_session, display_pages, web_manifest)
    /\ ManifestsSent

\* No write that leaves the port open cuts its frame.  The writes that could are those
\* of progress reports, whose failure poweroff only returns.
WholeReports == [][port' => (EndsInFragment(toStick') => EndsInFragment(toStick))]_vars

-----------------------------------------------------------------------------
(* Wires.                                                                  *)

\* The frame m has been written to the wire w: v is the result.
Written(w, v, m) ==
    \/ /\ ~EndsInFragment(w)
       /\ Len(v) = Len(w) + 1 /\ v[Len(w) + 1] = m
       /\ \A i \in 1..Len(w) : v[i] = w[i]
    \/ /\ EndsInFragment(w) /\ m.kind = "Fragment"
       /\ v = w
    \/ /\ EndsInFragment(w) /\ m.kind # "Fragment"
       /\ Len(v) = Len(w) /\ v[Len(w)].kind = "Garbled"
       /\ \A i \in 1..Len(w) - 1 : v[i] = w[i]

\* Put writes a frame.
LEMMA PutWrites ==
    ASSUME NEW w \in Seq(HostMessage), NEW m \in HostMessage, NEW g \in HostMessage,
           g.kind = "Garbled"
    PROVE  Put(w, m, g) \in Seq(HostMessage) /\ Written(w, Put(w, m, g), m)
<1>1. CASE EndsInFragment(w) /\ m.kind = "Fragment"
  <2>1. Put(w, m, g) = w
    BY <1>1 DEF Put
  <2> QED BY <1>1, <2>1 DEF Written
<1>2. CASE EndsInFragment(w) /\ m.kind # "Fragment"
  <2>1. Put(w, m, g) = [w EXCEPT ![Len(w)] = g]
    BY <1>2 DEF Put
  <2>2. Len(w) \in 1..Len(w)
    BY <1>2 DEF EndsInFragment
  <2> DEFINE v == [w EXCEPT ![Len(w)] = g]
  <2>3. /\ v \in Seq(HostMessage) /\ Len(v) = Len(w) /\ v[Len(w)] = g
        /\ \A i \in 1..Len(w) - 1 : v[i] = w[i]
    BY <2>2
  <2> HIDE DEF v
  <2> QED BY <1>2, <2>1, <2>3 DEF Written, v
<1>3. CASE ~EndsInFragment(w)
  <2>1. Put(w, m, g) = Append(w, m)
    BY <1>3 DEF Put
  <2> DEFINE v == Append(w, m)
  <2>2. /\ v \in Seq(HostMessage) /\ Len(v) = Len(w) + 1 /\ v[Len(w) + 1] = m
        /\ \A i \in 1..Len(w) : v[i] = w[i]
    OBVIOUS
  <2> HIDE DEF v
  <2> QED BY <1>3, <2>1, <2>2 DEF Written, v
<1> QED BY <1>1, <1>2, <1>3

\* Only the first part of a frame leaves a fragment behind.
LEMMA WholeFrame ==
    ASSUME NEW w \in Seq(HostMessage), NEW v \in Seq(HostMessage), NEW m, Written(w, v, m),
           m.kind # "Fragment"
    PROVE  ~EndsInFragment(v)
BY DEF Written, EndsInFragment

-----------------------------------------------------------------------------
(* The manifest the frames of a wire bring.                                *)

\* Only those frames count.
LEMMA BringsPrefix ==
    ASSUME NEW w, NEW v, NEW n \in Nat, \A k \in 1..n : v[k] = w[k],
           NEW kind, NEW s, NEW h, NEW d, Brings(w, n, kind, s, h, d)
    PROVE  Brings(v, n, kind, s, h, d)
<1>1. \A i \in 1..n : \A k \in (i + 1)..n : k \in 1..n
  OBVIOUS
<1> QED BY <1>1 DEF Brings

\* One more frame, neither a challenge nor a manifest of the kind, changes nothing.
LEMMA BringsMore ==
    ASSUME NEW w, NEW n \in Nat, NEW kind, w[n + 1].kind \notin {"Hello", kind},
           NEW s, NEW h, NEW d, Brings(w, n, kind, s, h, d)
    PROVE  Brings(w, n + 1, kind, s, h, d)
<1>1. \A i \in 1..n : \A k \in (i + 1)..(n + 1) : k \in (i + 1)..n \/ k = n + 1
  OBVIOUS
<1>2. \A k \in 1..(n + 1) : k \in 1..n \/ k = n + 1
  OBVIOUS
<1>3. \A i \in 1..n : i \in 1..(n + 1)
  OBVIOUS
<1> QED BY <1>1, <1>2, <1>3 DEF Brings

\* A manifest that has just been read is the one brought.
LEMMA BringsLast ==
    ASSUME NEW w, NEW n \in Nat \ {0}, NEW kind, w[n].kind = kind, NEW s, NEW h
    PROVE  Brings(w, n, kind, s, h, w[n].pages)
<1>1. n \in 1..n /\ (n + 1)..n = {}
  OBVIOUS
<1> QED BY <1>1 DEF Brings

\* The stick reads a frame: it takes over a manifest of the kind, and keeps session and
\* manifest on any other frame but a challenge.
LEMMA BringsTail ==
    ASSUME NEW w, NEW v, NEW n \in Nat \ {0}, \A k \in 1..n - 1 : v[k] = w[k + 1],
           NEW kind, NEW s, NEW h, NEW d, Brings(w, n, kind, s, h, d),
           NEW t, NEW g,
           w[1].kind = kind => t = NoSession \/ g = w[1].pages,
           w[1].kind \notin {"Hello", kind} => t = s /\ g = h
    PROVE  Brings(v, n - 1, kind, t, g, d)
<1>1. CASE \E i \in 1..n : /\ w[i].kind = kind /\ w[i].pages = d
                          /\ \A k \in (i + 1)..n : w[k].kind \notin {"Hello", kind}
  <2>1. PICK i \in 1..n : /\ w[i].kind = kind /\ w[i].pages = d
                          /\ \A k \in (i + 1)..n : w[k].kind \notin {"Hello", kind}
    BY <1>1
  <2>2. CASE i = 1
    <3>1. \A k \in 1..n - 1 : k + 1 \in (i + 1)..n
      BY <2>2
    <3>2. \A k \in 1..n - 1 : v[k].kind \notin {"Hello", kind}
      BY <2>1, <3>1
    <3> QED BY <2>1, <2>2, <3>2 DEF Brings
  <2>3. CASE i # 1
    <3>1. i - 1 \in 1..n - 1 /\ (i - 1) + 1 = i
      BY <2>3
    <3>2. \A k \in ((i - 1) + 1)..n - 1 : k \in 1..n - 1 /\ k + 1 \in (i + 1)..n
      BY <2>3
    <3>3. v[i - 1] = w[i]
      BY <3>1
    <3>4. \A k \in ((i - 1) + 1)..n - 1 : v[k].kind \notin {"Hello", kind}
      BY <2>1, <3>2
    <3> QED BY <2>1, <3>1, <3>3, <3>4 DEF Brings
  <2> QED BY <2>2, <2>3
<1>2. CASE /\ \A k \in 1..n : w[k].kind \notin {"Hello", kind}
           /\ s = NoSession \/ h = d
  <2>1. 1 \in 1..n /\ \A k \in 1..n - 1 : k + 1 \in 1..n
    OBVIOUS
  <2> QED BY <1>2, <2>1 DEF Brings
<1> QED BY <1>1, <1>2 DEF Brings

\* A stick that loses its session and the first frames on the wire.
LEMMA BringsNoSession ==
    ASSUME NEW w, NEW v, NEW n \in Nat, NEW c \in 0..n, \A k \in 1..n - c : v[k] = w[k + c],
           NEW kind, NEW s, NEW h, NEW d, Brings(w, n, kind, s, h, d), NEW g
    PROVE  Brings(v, n - c, kind, NoSession, g, d)
<1>1. CASE \E i \in 1..n : /\ w[i].kind = kind /\ w[i].pages = d
                          /\ \A k \in (i + 1)..n : w[k].kind \notin {"Hello", kind}
  <2>1. PICK i \in 1..n : /\ w[i].kind = kind /\ w[i].pages = d
                          /\ \A k \in (i + 1)..n : w[k].kind \notin {"Hello", kind}
    BY <1>1
  <2>2. CASE i <= c
    <3>1. \A k \in 1..n - c : k + c \in (i + 1)..n
      BY <2>2
    <3> QED BY <2>1, <3>1 DEF Brings
  <2>3. CASE i > c
    <3>1. i - c \in 1..n - c /\ (i - c) + c = i
      BY <2>3
    <3>2. \A k \in ((i - c) + 1)..n - c : k \in 1..n - c /\ k + c \in (i + 1)..n
      BY <2>3
    <3>3. v[i - c] = w[i]
      BY <3>1
    <3>4. \A k \in ((i - c) + 1)..n - c : v[k].kind \notin {"Hello", kind}
      BY <2>1, <3>2
    <3> QED BY <2>1, <3>1, <3>3, <3>4 DEF Brings
  <2> QED BY <2>2, <2>3
<1>2. CASE \A k \in 1..n : w[k].kind \notin {"Hello", kind}
  <2>1. \A k \in 1..n - c : k + c \in 1..n
    OBVIOUS
  <2> QED BY <1>2, <2>1 DEF Brings
<1> QED BY <1>1, <1>2 DEF Brings

-----------------------------------------------------------------------------
(* Writing.                                                                *)

\* A frame that is neither a challenge nor a manifest of the kind is written.
LEMMA BringsWritten ==
    ASSUME NEW w \in Seq(HostMessage), NEW v, NEW m, Written(w, v, m),
           NEW kind, kind \notin {"Fragment", "Garbled"}, m.kind \notin {"Hello", kind},
           NEW s, NEW h, NEW d, Brings(w, Len(w), kind, s, h, d)
    PROVE  Brings(v, Len(v), kind, s, h, d)
<1>1. Len(w) \in Nat
  OBVIOUS
<1>2. CASE /\ Len(v) = Len(w) + 1 /\ v[Len(w) + 1] = m
           /\ \A i \in 1..Len(w) : v[i] = w[i]
  <2>1. Brings(v, Len(w), kind, s, h, d)
    BY <1>1, <1>2, BringsPrefix
  <2> QED BY <1>1, <1>2, <2>1, BringsMore
<1>3. CASE v = w
  BY <1>3
<1>4. CASE /\ EndsInFragment(w) /\ Len(v) = Len(w) /\ v[Len(w)].kind = "Garbled"
           /\ \A i \in 1..Len(w) - 1 : v[i] = w[i]
  <2> DEFINE n == Len(w)
  <2>1. n \in Nat /\ n > 0 /\ w[n].kind = "Fragment"
    BY <1>4 DEF EndsInFragment
  <2>2. v[n].kind = "Garbled" /\ Len(v) = n /\ \A i \in 1..n - 1 : v[i] = w[i]
    BY <1>4
  <2>3. Brings(w, n, kind, s, h, d)
    OBVIOUS
  <2> HIDE DEF n
  <2>4. n - 1 \in Nat /\ (n - 1) + 1 = n
    BY <2>1
  <2>5. Brings(w, n - 1, kind, s, h, d)
    <3>1. ASSUME NEW i \in 1..n, w[i].kind = kind, w[i].pages = d,
                 \A k \in (i + 1)..n : w[k].kind \notin {"Hello", kind}
          PROVE  Brings(w, n - 1, kind, s, h, d)
      <4>1. i # n
        BY <2>1, <3>1
      <4>2. i \in 1..n - 1 /\ \A k \in (i + 1)..n - 1 : k \in (i + 1)..n
        BY <2>1, <4>1
      <4> QED BY <3>1, <4>2 DEF Brings
    <3>2. \A k \in 1..n - 1 : k \in 1..n
      BY <2>1
    <3> QED BY <2>3, <3>1, <3>2 DEF Brings
  <2>6. Brings(v, n - 1, kind, s, h, d)
    BY <2>2, <2>4, <2>5, BringsPrefix
  <2>7. Brings(v, (n - 1) + 1, kind, s, h, d)
    BY <2>2, <2>4, <2>6, BringsMore
  <2> QED BY <2>2, <2>4, <2>7
<1> QED BY <1>2, <1>3, <1>4 DEF Written

\* A manifest is written behind frames none of which is cut.
LEMMA BringsManifest ==
    ASSUME NEW w \in Seq(HostMessage), NEW v, NEW m, Written(w, v, m), ~EndsInFragment(w),
           NEW s, NEW h
    PROVE  Brings(v, Len(v), m.kind, s, h, m.pages)
<1>1. Len(v) \in Nat \ {0} /\ v[Len(v)] = m
  BY DEF Written
<1> QED BY <1>1, BringsLast
\* What the daemon writes may be behind every snapshot on the wire; a snapshot itself
\* has to fit there.
LEMMA FitsWritten ==
    ASSUME NEW w \in Seq(HostMessage), NEW v, NEW m, Written(w, v, m),
           NEW s, NEW p, NEW b, SnapshotsFit(w, s, p, b),
           m.kind = "HealthSnapshot" =>
              /\ Brings(w, Len(w), "DisplayConfig", s, p, m.display)
              /\ Brings(w, Len(w), "NetworkConfig", s, b, m.network)
    PROVE  SnapshotsFit(v, s, p, b)
<1>1. Len(w) \in Nat
  OBVIOUS
<1>2. ASSUME NEW j \in 1..Len(w), v[j] = w[j], \A k \in 1..j - 1 : v[k] = w[k],
             v[j].kind = "HealthSnapshot"
      PROVE  /\ Brings(v, j - 1, "DisplayConfig", s, p, v[j].display)
             /\ Brings(v, j - 1, "NetworkConfig", s, b, v[j].network)
  <2>1. /\ Brings(w, j - 1, "DisplayConfig", s, p, w[j].display)
        /\ Brings(w, j - 1, "NetworkConfig", s, b, w[j].network)
    BY <1>2 DEF SnapshotsFit
  <2>2. j - 1 \in Nat
    BY <1>1
  <2> QED BY <1>2, <2>1, <2>2, BringsPrefix
<1>3. CASE /\ Len(v) = Len(w) + 1 /\ v[Len(w) + 1] = m
           /\ \A i \in 1..Len(w) : v[i] = w[i]
  <2>1. ASSUME NEW j \in 1..Len(v), v[j].kind = "HealthSnapshot"
        PROVE  /\ Brings(v, j - 1, "DisplayConfig", s, p, v[j].display)
               /\ Brings(v, j - 1, "NetworkConfig", s, b, v[j].network)
    <3>1. CASE j \in 1..Len(w)
      <4>1. v[j] = w[j] /\ \A k \in 1..j - 1 : v[k] = w[k]
        BY <1>1, <1>3, <3>1
      <4> QED BY <1>2, <2>1, <3>1, <4>1
    <3>2. CASE j = Len(w) + 1
      <4>1. v[j] = m /\ j - 1 = Len(w)
        BY <1>1, <1>3, <3>2
      <4>2. /\ Brings(w, Len(w), "DisplayConfig", s, p, m.display)
            /\ Brings(w, Len(w), "NetworkConfig", s, b, m.network)
        BY <2>1, <4>1
      <4>3. /\ Brings(v, Len(w), "DisplayConfig", s, p, m.display)
            /\ Brings(v, Len(w), "NetworkConfig", s, b, m.network)
        BY <1>1, <1>3, <4>2, BringsPrefix
      <4> QED BY <4>1, <4>3
    <3> QED BY <1>1, <1>3, <2>1, <3>1, <3>2
  <2> QED BY <2>1 DEF SnapshotsFit
<1>4. CASE v = w
  BY <1>4
<1>5. CASE /\ Len(v) = Len(w) /\ v[Len(w)].kind = "Garbled"
           /\ \A i \in 1..Len(w) - 1 : v[i] = w[i]
  <2>1. ASSUME NEW j \in 1..Len(v), v[j].kind = "HealthSnapshot"
        PROVE  /\ Brings(v, j - 1, "DisplayConfig", s, p, v[j].display)
               /\ Brings(v, j - 1, "NetworkConfig", s, b, v[j].network)
    <3>1. j # Len(w)
      BY <1>5, <2>1
    <3>2. j \in 1..Len(w) /\ j \in 1..Len(w) - 1 /\ \A k \in 1..j - 1 : k \in 1..Len(w) - 1
      BY <1>1, <1>5, <2>1, <3>1
    <3> QED BY <1>2, <1>5, <2>1, <3>2
  <2> QED BY <2>1 DEF SnapshotsFit
<1> QED BY <1>3, <1>4, <1>5 DEF Written

\* Frames lost from the end of the wire, the last one perhaps in pieces.
LEMMA FitsLost ==
    ASSUME NEW w \in Seq(HostMessage), NEW v \in Seq(HostMessage), Len(v) <= Len(w),
           \A i \in 1..Len(v) : v[i] = w[i] \/ (i = Len(v) /\ v[i].kind = "Fragment"),
           NEW s, NEW p, NEW b, SnapshotsFit(w, s, p, b)
    PROVE  SnapshotsFit(v, s, p, b)
<1>1. SUFFICES ASSUME NEW j \in 1..Len(v), v[j].kind = "HealthSnapshot"
               PROVE  /\ Brings(v, j - 1, "DisplayConfig", s, p, v[j].display)
                      /\ Brings(v, j - 1, "NetworkConfig", s, b, v[j].network)
  BY DEF SnapshotsFit
<1>2. j \in 1..Len(w) /\ j - 1 \in Nat /\ v[j] = w[j] /\ \A k \in 1..j - 1 : v[k] = w[k]
  BY <1>1
<1>3. /\ Brings(w, j - 1, "DisplayConfig", s, p, w[j].display)
      /\ Brings(w, j - 1, "NetworkConfig", s, b, w[j].network)
  BY <1>1, <1>2 DEF SnapshotsFit
<1> QED BY <1>2, <1>3, BringsPrefix

\* The stick reads the first frame.
LEMMA FitsTail ==
    ASSUME NEW w \in Seq(HostMessage), w # <<>>,
           NEW s, NEW p, NEW b, SnapshotsFit(w, s, p, b), NEW t, NEW q, NEW c,
           w[1].kind = "DisplayConfig" => t = NoSession \/ q = w[1].pages,
           w[1].kind \notin {"Hello", "DisplayConfig"} => t = s /\ q = p,
           w[1].kind = "NetworkConfig" => t = NoSession \/ c = w[1].pages,
           w[1].kind \notin {"Hello", "NetworkConfig"} => t = s /\ c = b
    PROVE  SnapshotsFit(Tail(w), t, q, c)
<1> DEFINE v == Tail(w)
<1>1. /\ Len(w) \in Nat \ {0} /\ Len(v) = Len(w) - 1
      /\ \A i \in 1..Len(v) : v[i] = w[i + 1]
  OBVIOUS
<1> HIDE DEF v
<1>2. SUFFICES ASSUME NEW j \in 1..Len(v), v[j].kind = "HealthSnapshot"
               PROVE  /\ Brings(v, j - 1, "DisplayConfig", t, q, v[j].display)
                      /\ Brings(v, j - 1, "NetworkConfig", t, c, v[j].network)
  BY DEF SnapshotsFit, v
<1>3. /\ j + 1 \in 1..Len(w) /\ (j + 1) - 1 = j /\ j \in Nat \ {0} /\ v[j] = w[j + 1]
      /\ \A k \in 1..j - 1 : v[k] = w[k + 1]
  BY <1>1
<1>4. /\ Brings(w, j, "DisplayConfig", s, p, v[j].display)
      /\ Brings(w, j, "NetworkConfig", s, b, v[j].network)
  BY <1>2, <1>3 DEF SnapshotsFit
<1>5. Brings(v, j - 1, "DisplayConfig", t, q, v[j].display)
  BY <1>3, <1>4, BringsTail
<1>6. Brings(v, j - 1, "NetworkConfig", t, c, v[j].network)
  BY <1>3, <1>4, BringsTail
<1> QED BY <1>5, <1>6

\* The stick loses its session and the first c frames.
LEMMA FitsNoSession ==
    ASSUME NEW w \in Seq(HostMessage), NEW c \in 0..Len(w), NEW v, Len(v) = Len(w) - c,
           \A k \in 1..Len(v) : v[k] = w[k + c],
           NEW s, NEW p, NEW b, SnapshotsFit(w, s, p, b), NEW q, NEW g
    PROVE  SnapshotsFit(v, NoSession, q, g)
<1>1. SUFFICES ASSUME NEW j \in 1..Len(v), v[j].kind = "HealthSnapshot"
               PROVE  /\ Brings(v, j - 1, "DisplayConfig", NoSession, q, v[j].display)
                      /\ Brings(v, j - 1, "NetworkConfig", NoSession, g, v[j].network)
  BY DEF SnapshotsFit
<1> DEFINE n == (j + c) - 1
<1>2. /\ j + c \in 1..Len(w) /\ n \in Nat /\ c \in 0..n /\ n - c = j - 1 /\ v[j] = w[j + c]
      /\ \A k \in 1..n - c : v[k] = w[k + c]
  <2>1. Len(w) \in Nat /\ Len(v) = Len(w) - c
    OBVIOUS
  <2> QED BY <2>1
<1>3. /\ Brings(w, n, "DisplayConfig", s, p, v[j].display)
      /\ Brings(w, n, "NetworkConfig", s, b, v[j].network)
  BY <1>1, <1>2 DEF SnapshotsFit
<1> HIDE DEF n
<1>4. /\ Brings(v, n - c, "DisplayConfig", NoSession, q, v[j].display)
      /\ Brings(v, n - c, "NetworkConfig", NoSession, g, v[j].network)
  BY <1>2, <1>3, BringsNoSession
<1> QED BY <1>2, <1>4

-----------------------------------------------------------------------------
(* The daemon.                                                             *)

\* A write, completed or not: the frame, the first part of it, or nothing is on the wire.
LEMMA DaemonWire ==
    ASSUME TypeOK, NEW m \in HostMessage, Write(m) \/ WriteFails(m)
    PROVE  \/ toStick' = toStick
           \/ Written(toStick, toStick', m)
           \/ \E f \in HostMessage : f.kind = "Fragment" /\ Written(toStick, toStick', f)
<1> DEFINE f == HostNoise("Fragment")
<1> DEFINE g == HostNoise("Garbled")
<1>1. f \in HostMessage /\ f.kind = "Fragment" /\ g \in HostMessage /\ g.kind = "Garbled"
  <2>1. f \in HostMessage /\ g \in HostMessage
    BY FrameTypes DEF NoiseKinds
  <2> QED BY <2>1 DEF HostNoise, HostFrame
<1>2. toStick' = toStick \/ toStick' = Put(toStick, m, g) \/ toStick' = Put(toStick, f, g)
  BY DEF Write, WriteFails, PutHost
<1> HIDE DEF f, g
<1>3. toStick \in Seq(HostMessage)
  BY ProtocolTypes
<1>4. Written(toStick, Put(toStick, m, g), m) /\ Written(toStick, Put(toStick, f, g), f)
  BY <1>1, <1>3, PutWrites
<1> QED BY <1>1, <1>2, <1>4

\* A completed write.
LEMMA CompleteWrite ==
    ASSUME TypeOK, NEW m \in HostMessage, Write(m)
    PROVE  Written(toStick, toStick', m)
<1> DEFINE g == HostNoise("Garbled")
<1>1. g \in HostMessage /\ g.kind = "Garbled"
  <2>1. g \in HostMessage
    BY FrameTypes DEF NoiseKinds
  <2> QED BY <2>1 DEF HostNoise, HostFrame
<1>2. toStick' = Put(toStick, m, g)
  BY DEF Write, PutHost
<1> HIDE DEF g
<1>3. toStick \in Seq(HostMessage)
  BY ProtocolTypes
<1> QED BY <1>1, <1>2, <1>3, PutWrites

\* The frames of the daemon have their kinds, and manifests the pages they were built for.
LEMMA FrameFields ==
    \A k, s, p, d, n : /\ HostFrame(k, s, p).kind = k /\ HostFrame(k, s, p).pages = p
                       /\ [HostFrame(k, s, p) EXCEPT !.display = d, !.network = n].kind = k
                       /\ [HostFrame(k, s, p) EXCEPT !.display = d, !.network = n].display = d
                       /\ [HostFrame(k, s, p) EXCEPT !.display = d, !.network = n].network = n
BY DEF HostFrame

\* A report or a part of a frame was written to the wire, or nothing.
OtherWrite ==
    \/ toStick' = toStick
    \/ \E m \in HostMessage :
         /\ m.kind \notin {"Hello", "HealthSnapshot", "DisplayConfig", "NetworkConfig"}
         /\ Written(toStick, toStick', m)

\* The reports of a shutdown.
LEMMA ReportWire ==
    ASSUME TypeOK, \/ AcceptShutdown \/ PrepareGuests \/ CountGuests \/ ReportFailure
                   \/ MonitorGuests \/ GuestsStopped \/ FinishPoweroff
    PROVE  OtherWrite
<1> DEFINE Ks == {"ShutdownAccepted", "ShutdownFailed"} \cup ShutdownPhase
<1>1. PICK k \in Ks :
        \/ Write(HostFrame(k, handshake_nonce, 0))
        \/ WriteFails(HostFrame(k, handshake_nonce, 0))
        \/ UNCHANGED toStick
  BY DEF AcceptShutdown, PrepareGuests, CountGuests, ReportFailure, MonitorGuests,
         GuestsStopped, FinishPoweroff, Report, ShutdownPhase
<1> DEFINE m == HostFrame(k, handshake_nonce, 0)
<1>2. m \in HostMessage
  <2>1. handshake_nonce \in Nat /\ 0 \in Nat
    BY ProtocolTypes
  <2>2. k \in {"Hello"} \cup SessionKinds \cup NoiseKinds
    BY DEF SessionKinds
  <2> QED BY <2>1, <2>2, FrameTypes
<1>3. m.kind \notin {"Hello", "HealthSnapshot", "DisplayConfig", "NetworkConfig"}
  <2>1. m.kind = k
    BY FrameFields
  <2> QED BY <2>1 DEF ShutdownPhase
<1> HIDE DEF m, Ks
<1>4. CASE UNCHANGED toStick
  BY <1>4 DEF OtherWrite
<1>5. CASE Write(m) \/ WriteFails(m)
  BY <1>2, <1>3, <1>5, DaemonWire DEF OtherWrite
<1> QED BY <1>1, <1>4, <1>5 DEF m

\* Such a write changes neither what the snapshots find nor what the wire brings.
LEMMA OtherWriteKeeps ==
    ASSUME TypeOK, OtherWrite, NEW s, NEW p, NEW b
    PROVE  /\ SnapshotsFit(toStick, s, p, b) => SnapshotsFit(toStick', s, p, b)
           /\ \A kind \in {"DisplayConfig", "NetworkConfig"} : \A h, d :
                Brings(toStick, Len(toStick), kind, s, h, d)
                   => Brings(toStick', Len(toStick'), kind, s, h, d)
<1>1. CASE toStick' = toStick
  BY <1>1
<1>2. CASE \E m \in HostMessage :
             /\ m.kind \notin {"Hello", "HealthSnapshot", "DisplayConfig", "NetworkConfig"}
             /\ Written(toStick, toStick', m)
  <2>1. PICK m \in HostMessage :
             /\ m.kind \notin {"Hello", "HealthSnapshot", "DisplayConfig", "NetworkConfig"}
             /\ Written(toStick, toStick', m)
    BY <1>2
  <2>2. toStick \in Seq(HostMessage)
    BY ProtocolTypes
  <2>3. SnapshotsFit(toStick, s, p, b) => SnapshotsFit(toStick', s, p, b)
    BY <2>1, <2>2, FitsWritten
  <2>4. ASSUME NEW kind \in {"DisplayConfig", "NetworkConfig"}, NEW h, NEW d,
               Brings(toStick, Len(toStick), kind, s, h, d)
        PROVE  Brings(toStick', Len(toStick'), kind, s, h, d)
    BY <2>1, <2>2, <2>4, BringsWritten
  <2> QED BY <2>3, <2>4
<1> QED BY <1>1, <1>2 DEF OtherWrite

\* The frames of the main loop are messages.
LEMMA LoopFrames ==
    TypeOK =>
        /\ HostFrame("Hello", handshake_nonce, 0) \in HostMessage
        /\ HostFrame("DisplayConfig", handshake_nonce, display_config) \in HostMessage
        /\ HostFrame("DisplayConfig", handshake_nonce, taken) \in HostMessage
        /\ HostFrame("NetworkConfig", handshake_nonce, network_config) \in HostMessage
        /\ HostFrame("NetworkConfig", handshake_nonce, taken) \in HostMessage
        /\ [HostFrame("HealthSnapshot", handshake_nonce, taken)
              EXCEPT !.display = display_config, !.network = network_config] \in HostMessage
<1> SUFFICES ASSUME TypeOK
             PROVE  /\ HostFrame("Hello", handshake_nonce, 0) \in HostMessage
                    /\ HostFrame("DisplayConfig", handshake_nonce, display_config) \in HostMessage
                    /\ HostFrame("DisplayConfig", handshake_nonce, taken) \in HostMessage
                    /\ HostFrame("NetworkConfig", handshake_nonce, network_config) \in HostMessage
                    /\ HostFrame("NetworkConfig", handshake_nonce, taken) \in HostMessage
                    /\ [HostFrame("HealthSnapshot", handshake_nonce, taken)
                          EXCEPT !.display = display_config, !.network = network_config]
                         \in HostMessage
  OBVIOUS
<1>1. /\ handshake_nonce \in Nat /\ display_config \in Nat /\ network_config \in Nat
      /\ taken \in Nat /\ 0 \in Nat
  BY DEF TypeOK, DaemonTypeOK
<1>2. "DisplayConfig" \in SessionKinds /\ "NetworkConfig" \in SessionKinds
      /\ "HealthSnapshot" \in SessionKinds
  BY DEF SessionKinds
<1> QED BY <1>1, <1>2, FrameTypes

\* What a snapshot finds: the daemon writes it when it has sent both manifests.
LEMMA SnapshotReady ==
    ASSUME SessionInv, ManifestInv, Running("snapshot")
    PROVE  DisplaySent /\ NetworkSent
BY DEF SessionInv, BlockInSession, ManifestInv, DaemonPlaces, Running, DisplaySent, NetworkSent

\* What the daemon writes: only SendHello a challenge, only SendSnapshot a snapshot.
LEMMA DaemonWrote ==
    ASSUME TypeOK, DaemonNext
    PROVE  \/ toStick' = toStick
           \/ \E m \in HostMessage :
                /\ Written(toStick, toStick', m)
                /\ m.kind = "Hello" => SendHello
                /\ m.kind = "HealthSnapshot" => /\ Running("snapshot")
                                               /\ m.display = display_config
                                               /\ m.network = network_config
<1> DEFINE Wrote ==
         \/ toStick' = toStick
         \/ \E m \in HostMessage :
              /\ Written(toStick, toStick', m)
              /\ m.kind = "Hello" => SendHello
              /\ m.kind = "HealthSnapshot" => /\ Running("snapshot")
                                             /\ m.display = display_config
                                             /\ m.network = network_config
<1> SUFFICES Wrote
  OBVIOUS
<1>1. ASSUME NEW m \in HostMessage, Write(m) \/ WriteFails(m) \/ UNCHANGED toStick,
             m.kind = "Hello" => SendHello,
             m.kind = "HealthSnapshot" => /\ Running("snapshot")
                                          /\ m.display = display_config
                                          /\ m.network = network_config
      PROVE  Wrote
  <2>1. CASE \E f \in HostMessage : f.kind = "Fragment" /\ Written(toStick, toStick', f)
    BY <2>1
  <2>2. CASE toStick' = toStick
    BY <2>2
  <2>3. CASE Written(toStick, toStick', m)
    BY <1>1, <2>3
  <2> QED BY <1>1, <2>1, <2>2, <2>3, DaemonWire
<1>3. CASE SendHello
  <2> DEFINE m == HostFrame("Hello", handshake_nonce, 0)
  <2>1. m \in HostMessage /\ m.kind = "Hello" /\ (Write(m) \/ WriteFails(m))
    BY <1>3, LoopFrames, FrameFields DEF SendHello
  <2> HIDE DEF m, Wrote
  <2> QED BY <1>1, <1>3, <2>1
<1>4. CASE SendManifestDisplay
  <2> DEFINE m == HostFrame("DisplayConfig", handshake_nonce, display_config)
  <2>1. m \in HostMessage /\ m.kind = "DisplayConfig" /\ (Write(m) \/ WriteFails(m))
    BY <1>4, LoopFrames, FrameFields DEF SendManifestDisplay
  <2> HIDE DEF m, Wrote
  <2> QED BY <1>1, <2>1
<1>5. CASE SendManifestNetwork
  <2> DEFINE m == HostFrame("NetworkConfig", handshake_nonce, network_config)
  <2>1. m \in HostMessage /\ m.kind = "NetworkConfig" /\ (Write(m) \/ WriteFails(m))
    BY <1>5, LoopFrames, FrameFields DEF SendManifestNetwork
  <2> HIDE DEF m, Wrote
  <2> QED BY <1>1, <2>1
<1>6. CASE UpdateDisplay
  <2> DEFINE m == HostFrame("DisplayConfig", handshake_nonce, taken)
  <2>1. m \in HostMessage /\ m.kind = "DisplayConfig"
        /\ (Write(m) \/ WriteFails(m) \/ UNCHANGED toStick)
    BY <1>6, LoopFrames, FrameFields DEF UpdateDisplay
  <2> HIDE DEF m, Wrote
  <2> QED BY <1>1, <2>1
<1>7. CASE UpdateNetwork
  <2> DEFINE m == HostFrame("NetworkConfig", handshake_nonce, taken)
  <2>1. m \in HostMessage /\ m.kind = "NetworkConfig"
        /\ (Write(m) \/ WriteFails(m) \/ UNCHANGED toStick)
    BY <1>7, LoopFrames, FrameFields DEF UpdateNetwork
  <2> HIDE DEF m, Wrote
  <2> QED BY <1>1, <2>1
<1>8. CASE SendSnapshot
  <2> DEFINE m == [HostFrame("HealthSnapshot", handshake_nonce, taken)
                     EXCEPT !.display = display_config, !.network = network_config]
  <2>1. /\ m \in HostMessage /\ m.kind = "HealthSnapshot"
        /\ m.display = display_config /\ m.network = network_config
    BY LoopFrames, FrameFields
  <2>2. (Write(m) \/ WriteFails(m)) /\ Running("snapshot")
    BY <1>8 DEF SendSnapshot
  <2> HIDE DEF m, Wrote
  <2> QED BY <1>1, <2>1, <2>2
<1>9. CASE \/ AcceptShutdown \/ PrepareGuests \/ CountGuests \/ ReportFailure
           \/ MonitorGuests \/ GuestsStopped \/ FinishPoweroff
  BY <1>9, ReportWire DEF OtherWrite
<1>10. CASE \/ Start \/ Open \/ Collect \/ TakeSnapshot \/ ReadError \/ SystemPoweroff
            \/ ReadUnsynchronized \/ ReadAcknowledgement \/ ReadOtherHello \/ HandleShutdown
            \/ DiscardFrame
  BY <1>10 DEF Start, Open, Collect, TakeSnapshot, ReadError, SystemPoweroff,
               ReadUnsynchronized, ReadAcknowledgement, ReadOtherHello, HandleShutdown,
               DiscardFrame
<1> QED BY <1>3, <1>4, <1>5, <1>6, <1>7, <1>8, <1>9, <1>10 DEF DaemonNext

\* Every daemon step leaves the snapshots on the wire behind their manifests.
LEMMA DaemonFits ==
    ASSUME SessionInv, ManifestInv, DaemonNext, UNCHANGED stickVars
    PROVE  SnapshotsFit(toStick', daemon_session', display_pages', web_manifest')
<1>1. UNCHANGED <<daemon_session, display_pages, web_manifest>>
  BY DEF stickVars, screenVars
<1>2. /\ TypeOK /\ toStick \in Seq(HostMessage)
      /\ SnapshotsFit(toStick, daemon_session, display_pages, web_manifest)
  BY ProtocolTypes DEF SessionInv, ManifestInv
<1>3. CASE toStick' = toStick
  BY <1>1, <1>2, <1>3
<1>4. ASSUME NEW m \in HostMessage, Written(toStick, toStick', m),
             m.kind = "HealthSnapshot" => /\ Running("snapshot")
                                          /\ m.display = display_config
                                          /\ m.network = network_config
      PROVE  SnapshotsFit(toStick', daemon_session', display_pages', web_manifest')
  <2>1. m.kind = "HealthSnapshot" =>
          /\ Brings(toStick, Len(toStick), "DisplayConfig", daemon_session, display_pages, m.display)
          /\ Brings(toStick, Len(toStick), "NetworkConfig", daemon_session, web_manifest, m.network)
    BY <1>4, SnapshotReady DEF ManifestInv, ManifestsSent
  <2>2. SnapshotsFit(toStick', daemon_session, display_pages, web_manifest)
    BY <1>2, <1>4, <2>1, FitsWritten
  <2> QED BY <1>1, <2>2
<1> QED BY <1>2, <1>3, <1>4, DaemonWrote

\* A completed write brings its manifest and keeps the other one, once no frame is cut.
LEMMA ManifestWritten ==
    ASSUME TypeOK, ~EndsInFragment(toStick), NEW m \in HostMessage, Write(m),
           m.kind \in {"DisplayConfig", "NetworkConfig"}, NEW s
    PROVE  /\ \A h : Brings(toStick', Len(toStick'), m.kind, s, h, m.pages)
           /\ \A kind \in {"DisplayConfig", "NetworkConfig"} \ {m.kind} : \A h, d :
                Brings(toStick, Len(toStick), kind, s, h, d)
                   => Brings(toStick', Len(toStick'), kind, s, h, d)
<1>1. toStick \in Seq(HostMessage) /\ Written(toStick, toStick', m)
  BY ProtocolTypes, CompleteWrite
<1>2. ASSUME NEW h
      PROVE  Brings(toStick', Len(toStick'), m.kind, s, h, m.pages)
  BY <1>1, BringsManifest
<1>3. ASSUME NEW kind \in {"DisplayConfig", "NetworkConfig"} \ {m.kind}, NEW h, NEW d,
             Brings(toStick, Len(toStick), kind, s, h, d)
      PROVE  Brings(toStick', Len(toStick'), kind, s, h, d)
  BY <1>1, <1>3, BringsWritten
<1> QED BY <1>2, <1>3

\* Every daemon step leaves what the daemon has sent in this session on its way.
LEMMA DaemonSends ==
    ASSUME SessionInv, ManifestInv, DaemonNext, UNCHANGED stickVars
    PROVE  ManifestsSent'
<1>1. TypeOK /\ UNCHANGED <<daemon_session, display_pages, web_manifest>>
  BY DEF SessionInv, stickVars, screenVars
<1>2. handshake_established /\ port => ~EndsInFragment(toStick)
  BY DEF ManifestInv, NothingCut, Challenged, Acknowledged
<1>3. ManifestsSent
  BY DEF ManifestInv
<1>4. ASSUME \/ toStick' = toStick
             \/ OtherWrite,
             UNCHANGED <<display_config, network_config>>,
             DisplaySent' => DisplaySent, NetworkSent' => NetworkSent
      PROVE  ManifestsSent'
  <2>1. \A kind \in {"DisplayConfig", "NetworkConfig"} : \A h, d :
           Brings(toStick, Len(toStick), kind, daemon_session, h, d)
              => Brings(toStick', Len(toStick'), kind, daemon_session, h, d)
    BY <1>1, <1>4, OtherWriteKeeps
  <2> QED BY <1>1, <1>3, <1>4, <2>1 DEF ManifestsSent
<1>5. CASE ~port' \/ ~handshake_established'
  BY <1>5 DEF ManifestsSent, DisplaySent, NetworkSent
<1>6. CASE Start \/ Open \/ ReadError \/ ReadOtherHello \/ SendHello
  BY <1>5, <1>6 DEF Start, Open, ReadError, ReadOtherHello, SendHello, Disconnect, sessionVars
<1>7. CASE /\ port'
           /\ \/ Collect \/ TakeSnapshot \/ SystemPoweroff \/ ReadUnsynchronized
              \/ ReadAcknowledgement \/ HandleShutdown \/ DiscardFrame
  <2>1. UNCHANGED <<toStick, display_config, network_config>>
    BY <1>7 DEF Collect, TakeSnapshot, SystemPoweroff, ReadUnsynchronized, ReadAcknowledgement,
                HandleShutdown, DiscardFrame, manifestVars, poweroffUnchanged
  <2>2. CASE ReadAcknowledgement
    <3>1. /\ port /\ at' = "loop" /\ (~manifest_pending' => ~manifest_pending /\ handshake_established)
      BY <2>2 DEF ReadAcknowledgement, PendingOnceAcknowledged, CanRead, Running
    <3> QED BY <1>4, <2>1, <3>1 DEF DisplaySent, NetworkSent
  <2>3. CASE ~ReadAcknowledgement
    <3>1. /\ UNCHANGED <<handshake_established, manifest_pending, port>>
          /\ at' = "manifest_network" => at = "manifest_network"
      BY <1>7, <2>3 DEF Collect, TakeSnapshot, SystemPoweroff, ReadUnsynchronized, HandleShutdown,
                        DiscardFrame, sessionVars, poweroffUnchanged
    <3> QED BY <1>4, <2>1, <3>1 DEF DisplaySent, NetworkSent
  <2> QED BY <2>2, <2>3
<1>8. CASE /\ port'
           /\ \/ AcceptShutdown \/ PrepareGuests \/ CountGuests \/ ReportFailure
              \/ MonitorGuests \/ GuestsStopped \/ FinishPoweroff
  <2>1. OtherWrite
    BY <1>1, <1>8, ReportWire
  <2>2. UNCHANGED <<display_config, network_config, manifest_pending, handshake_established>>
        /\ at' # "manifest_network" /\ port
    BY <1>8 DEF AcceptShutdown, PrepareGuests, CountGuests, ReportFailure, MonitorGuests,
                GuestsStopped, FinishPoweroff, Report, Disconnect, Running, manifestVars,
                sessionVars, poweroffUnchanged
  <2> QED BY <1>4, <2>1, <2>2 DEF DisplaySent, NetworkSent
<1>9. CASE SendManifestDisplay /\ port'
  <2> DEFINE m == HostFrame("DisplayConfig", handshake_nonce, display_config)
  <2>1. m \in HostMessage /\ m.kind = "DisplayConfig" /\ m.pages = display_config
    BY <1>1, LoopFrames, FrameFields
  <2>2. /\ Write(m) /\ port /\ handshake_established /\ manifest_pending'
        /\ UNCHANGED display_config
    BY <1>9 DEF SendManifestDisplay, Disconnect, Running, sessionVars, manifestVars
  <2> HIDE DEF m
  <2>3. Brings(toStick', Len(toStick'), "DisplayConfig", daemon_session', display_pages',
               display_config')
    BY <1>1, <1>2, <2>1, <2>2, ManifestWritten
  <2> QED BY <2>2, <2>3 DEF ManifestsSent, NetworkSent
<1>10. CASE SendManifestNetwork /\ port'
  <2> DEFINE m == HostFrame("NetworkConfig", handshake_nonce, network_config)
  <2>1. m \in HostMessage /\ m.kind = "NetworkConfig" /\ m.pages = network_config
    BY <1>1, LoopFrames, FrameFields
  <2>2. /\ Write(m) /\ port /\ at = "manifest_network"
        /\ UNCHANGED <<display_config, network_config>>
    BY <1>10 DEF SendManifestNetwork, Disconnect, Running, manifestVars
  <2> HIDE DEF m
  <2>3. handshake_established /\ DisplaySent
    BY <2>2 DEF SessionInv, BlockInSession, DisplaySent
  <2>4. /\ Brings(toStick', Len(toStick'), "NetworkConfig", daemon_session', web_manifest',
                  network_config')
        /\ Brings(toStick', Len(toStick'), "DisplayConfig", daemon_session', display_pages',
                  display_config')
    BY <1>1, <1>2, <1>3, <2>1, <2>2, <2>3, ManifestWritten DEF ManifestsSent
  <2> QED BY <2>4 DEF ManifestsSent
<1>11. CASE UpdateDisplay /\ port'
  <2> DEFINE m == HostFrame("DisplayConfig", handshake_nonce, taken)
  <2>1. m \in HostMessage /\ m.kind = "DisplayConfig" /\ m.pages = taken
    BY <1>1, LoopFrames, FrameFields
  <2>2. /\ port /\ at = "update_display" /\ UNCHANGED <<network_config, manifest_pending>>
        /\ \/ UNCHANGED <<toStick, display_config>>
           \/ Write(m) /\ display_config' = taken
    BY <1>11 DEF UpdateDisplay, Disconnect, Running, sessionVars
  <2> HIDE DEF m
  <2>3. handshake_established /\ ~manifest_pending /\ DisplaySent /\ NetworkSent
    BY <2>2 DEF SessionInv, BlockInSession, ManifestInv, DaemonPlaces, DisplaySent, NetworkSent
  <2>4. CASE UNCHANGED <<toStick, display_config>>
    BY <1>4, <2>2, <2>3, <2>4
  <2>5. CASE Write(m) /\ display_config' = taken
    <3>1. /\ Brings(toStick', Len(toStick'), "DisplayConfig", daemon_session', display_pages',
                    display_config')
          /\ Brings(toStick', Len(toStick'), "NetworkConfig", daemon_session', web_manifest',
                    network_config')
      BY <1>1, <1>2, <1>3, <2>1, <2>2, <2>3, <2>5, ManifestWritten DEF ManifestsSent
    <3> QED BY <3>1 DEF ManifestsSent
  <2> QED BY <2>2, <2>4, <2>5
<1>12. CASE UpdateNetwork /\ port'
  <2> DEFINE m == HostFrame("NetworkConfig", handshake_nonce, taken)
  <2>1. m \in HostMessage /\ m.kind = "NetworkConfig" /\ m.pages = taken
    BY <1>1, LoopFrames, FrameFields
  <2>2. /\ port /\ at = "update_network" /\ UNCHANGED <<display_config, manifest_pending>>
        /\ \/ UNCHANGED <<toStick, network_config>>
           \/ Write(m) /\ network_config' = taken
    BY <1>12 DEF UpdateNetwork, Disconnect, Running, sessionVars
  <2> HIDE DEF m
  <2>3. handshake_established /\ ~manifest_pending /\ DisplaySent /\ NetworkSent
    BY <2>2 DEF SessionInv, BlockInSession, ManifestInv, DaemonPlaces, DisplaySent, NetworkSent
  <2>4. CASE UNCHANGED <<toStick, network_config>>
    BY <1>4, <2>2, <2>3, <2>4
  <2>5. CASE Write(m) /\ network_config' = taken
    <3>1. /\ Brings(toStick', Len(toStick'), "DisplayConfig", daemon_session', display_pages',
                    display_config')
          /\ Brings(toStick', Len(toStick'), "NetworkConfig", daemon_session', web_manifest',
                    network_config')
      BY <1>1, <1>2, <1>3, <2>1, <2>2, <2>3, <2>5, ManifestWritten DEF ManifestsSent
    <3> QED BY <3>1 DEF ManifestsSent
  <2> QED BY <2>2, <2>4, <2>5
<1>13. CASE SendSnapshot /\ port'
  <2> DEFINE m == [HostFrame("HealthSnapshot", handshake_nonce, taken)
                     EXCEPT !.display = display_config, !.network = network_config]
  <2>1. m \in HostMessage /\ m.kind = "HealthSnapshot"
    BY <1>1, LoopFrames, FrameFields
  <2>2. Write(m) /\ Running("snapshot") /\ UNCHANGED <<display_config, network_config>>
    BY <1>13 DEF SendSnapshot, Disconnect, manifestVars
  <2> HIDE DEF m
  <2>3. DisplaySent /\ NetworkSent
    BY <2>2, SnapshotReady
  <2>4. toStick \in Seq(HostMessage) /\ Written(toStick, toStick', m)
    BY <1>1, <2>1, <2>2, ProtocolTypes, CompleteWrite
  <2>5. /\ Brings(toStick', Len(toStick'), "DisplayConfig", daemon_session', display_pages',
                  display_config')
        /\ Brings(toStick', Len(toStick'), "NetworkConfig", daemon_session', web_manifest',
                  network_config')
    BY <1>1, <1>3, <2>1, <2>2, <2>3, <2>4, BringsWritten DEF ManifestsSent
  <2> QED BY <2>5 DEF ManifestsSent
<1> QED BY <1>5, <1>6, <1>7, <1>8, <1>9, <1>10, <1>11, <1>12, <1>13 DEF DaemonNext

-----------------------------------------------------------------------------
(* The stick and the environment.                                          *)

\* What the stick makes of a frame: it takes a manifest over or has no session.
LEMMA StickTakes ==
    ASSUME TypeOK,
           \/ ReceiveHello \/ IgnoreFrame \/ ReceiveForeign \/ ReceiveSnapshot
           \/ ReceiveDisplayConfig \/ ReceiveNetworkConfig \/ ReceiveProgress \/ ReceiveFailure
    PROVE  /\ toStick # <<>> /\ toStick' = Tail(toStick)
           /\ toStick[1].kind = "DisplayConfig" =>
                daemon_session' = NoSession \/ display_pages' = toStick[1].pages
           /\ toStick[1].kind \notin {"Hello", "DisplayConfig"} =>
                daemon_session' = daemon_session /\ display_pages' = display_pages
           /\ toStick[1].kind = "NetworkConfig" =>
                daemon_session' = NoSession \/ web_manifest' = toStick[1].pages
           /\ toStick[1].kind \notin {"Hello", "NetworkConfig"} =>
                daemon_session' = daemon_session /\ web_manifest' = web_manifest
<1>1. toStick # <<>> /\ toStick' = Tail(toStick)
  BY DEF ReceiveHello, IgnoreFrame, ReceiveForeign, ReceiveSnapshot, ReceiveDisplayConfig,
         ReceiveNetworkConfig, ReceiveProgress, ReceiveFailure, Receive, Readable
<1>2. Head(toStick) = toStick[1]
  BY <1>1, ProtocolTypes
<1>3. CASE ReceiveHello
  <2>1. toStick[1].kind = "Hello"
    BY <1>2, <1>3 DEF ReceiveHello, Receive
  <2> QED BY <1>1, <2>1
<1>4. CASE ReceiveDisplayConfig
  <2>1. /\ toStick[1].kind = "DisplayConfig" /\ display_pages' = toStick[1].pages
        /\ UNCHANGED <<daemon_session, web_manifest>>
    BY <1>2, <1>4 DEF ReceiveDisplayConfig, Receive
  <2> QED BY <1>1, <2>1
<1>5. CASE ReceiveNetworkConfig
  <2>1. /\ toStick[1].kind = "NetworkConfig" /\ web_manifest' = toStick[1].pages
        /\ UNCHANGED <<daemon_session, display_pages>>
    BY <1>2, <1>5 DEF ReceiveNetworkConfig, Receive
  <2> QED BY <1>1, <2>1
<1>6. CASE IgnoreFrame \/ ReceiveForeign \/ ReceiveSnapshot \/ ReceiveProgress \/ ReceiveFailure
  <2>1. UNCHANGED <<daemon_session, display_pages, web_manifest>>
    BY <1>6 DEF IgnoreFrame, ReceiveForeign, ReceiveSnapshot, ReceiveProgress, ReceiveFailure,
                screenVars
  <2>2. toStick[1].kind \in {"DisplayConfig", "NetworkConfig"} => daemon_session = NoSession
    BY <1>2, <1>6 DEF IgnoreFrame, ReceiveForeign, ReceiveSnapshot, ReceiveProgress,
                      ReceiveFailure, Receive, ShutdownPhase
  <2> QED BY <1>1, <2>1, <2>2
<1> QED BY <1>3, <1>4, <1>5, <1>6

\* Every stick step leaves the snapshots on the wire fitting, and what was sent on its way.
LEMMA StickFits ==
    ASSUME TypeOK, ManifestInv, StickNext, UNCHANGED daemonVars
    PROVE  /\ SnapshotsFit(toStick', daemon_session', display_pages', web_manifest')
           /\ ManifestsSent'
<1>1. toStick \in Seq(HostMessage)
  BY ProtocolTypes
<1>2. /\ SnapshotsFit(toStick, daemon_session, display_pages, web_manifest)
      /\ ManifestsSent
  BY DEF ManifestInv
<1>3. /\ DisplaySent' => DisplaySent
      /\ NetworkSent' => NetworkSent
      /\ UNCHANGED <<display_config, network_config>>
  BY DEF DisplaySent, NetworkSent, daemonVars, sessionVars, manifestVars
<1>4. CASE TxPoll \/ HelloTimer \/ ShutdownTimeout \/ NextScreen \/ LongPress
  <2>1. UNCHANGED <<toStick, daemon_session, display_pages, web_manifest>>
    BY <1>4 DEF TxPoll, HelloTimer, ShutdownTimeout, NextScreen, LongPress, screenVars
  <2> QED BY <1>2, <1>3, <2>1 DEF ManifestsSent
<1>5. CASE \/ ReceiveHello \/ IgnoreFrame \/ ReceiveForeign \/ ReceiveSnapshot
           \/ ReceiveDisplayConfig \/ ReceiveNetworkConfig \/ ReceiveProgress \/ ReceiveFailure
  <2> DEFINE Takes ==
           /\ toStick[1].kind = "DisplayConfig" =>
                daemon_session' = NoSession \/ display_pages' = toStick[1].pages
           /\ toStick[1].kind \notin {"Hello", "DisplayConfig"} =>
                daemon_session' = daemon_session /\ display_pages' = display_pages
           /\ toStick[1].kind = "NetworkConfig" =>
                daemon_session' = NoSession \/ web_manifest' = toStick[1].pages
           /\ toStick[1].kind \notin {"Hello", "NetworkConfig"} =>
                daemon_session' = daemon_session /\ web_manifest' = web_manifest
  <2>1. toStick # <<>> /\ toStick' = Tail(toStick) /\ Takes
    BY <1>5, StickTakes
  <2>2. SnapshotsFit(toStick', daemon_session', display_pages', web_manifest')
    BY <1>1, <1>2, <2>1, FitsTail
  <2>3. /\ Len(toStick) \in Nat \ {0} /\ Len(toStick') = Len(toStick) - 1
        /\ \A k \in 1..Len(toStick) - 1 : toStick'[k] = toStick[k + 1]
    BY <1>1, <2>1
  <2>4. ASSUME NEW d, Brings(toStick, Len(toStick), "DisplayConfig", daemon_session, display_pages, d)
        PROVE  Brings(toStick', Len(toStick'), "DisplayConfig", daemon_session', display_pages', d)
    BY <2>1, <2>3, <2>4, BringsTail
  <2>5. ASSUME NEW d, Brings(toStick, Len(toStick), "NetworkConfig", daemon_session, web_manifest, d)
        PROVE  Brings(toStick', Len(toStick'), "NetworkConfig", daemon_session', web_manifest', d)
    BY <2>1, <2>3, <2>5, BringsTail
  <2> QED BY <1>2, <1>3, <2>2, <2>4, <2>5 DEF ManifestsSent
<1>6. CASE LinkTimeout \/ StickReboot
  <2>1. PICK c \in 0..Len(toStick) :
          (toStick' = toStick /\ c = 0) \/ toStick' = SubSeq(toStick, c + 1, Len(toStick))
    BY <1>1, <1>6 DEF LinkTimeout, StickReboot
  <2>2. daemon_session' = NoSession
    BY <1>6 DEF LinkTimeout, StickReboot
  <2>3. /\ Len(toStick) \in Nat /\ Len(toStick') = Len(toStick) - c
        /\ \A k \in 1..Len(toStick) - c : toStick'[k] = toStick[k + c]
    BY <1>1, <2>1
  <2>4. SnapshotsFit(toStick', NoSession, display_pages', web_manifest')
    BY <1>1, <1>2, <2>3, FitsNoSession
  <2>5. ASSUME NEW kind, NEW h, NEW d, NEW g,
               Brings(toStick, Len(toStick), kind, daemon_session, h, d)
        PROVE  Brings(toStick', Len(toStick'), kind, NoSession, g, d)
    BY <2>3, <2>5, BringsNoSession
  <2> QED BY <1>2, <1>3, <2>2, <2>4, <2>5 DEF ManifestsSent
<1> QED BY <1>4, <1>5, <1>6 DEF StickNext

\* The environment touches the wire to the stick only while the port is closed.
LEMMA EnvironmentFits ==
    ASSUME TypeOK, ManifestInv, HostEnvironment, UNCHANGED stickVars
    PROVE  /\ SnapshotsFit(toStick', daemon_session', display_pages', web_manifest')
           /\ ManifestsSent'
<1>1. /\ toStick \in Seq(HostMessage)
      /\ UNCHANGED <<daemon_session, display_pages, web_manifest>>
  BY ProtocolTypes DEF stickVars, screenVars
<1>2. /\ SnapshotsFit(toStick, daemon_session, display_pages, web_manifest)
      /\ ManifestsSent
  BY DEF ManifestInv
<1>3. CASE DaemonCrash \/ HostOff \/ HostBoot
  <2>1. /\ UNCHANGED <<toStick, display_config, network_config, at>>
        /\ port' => port /\ UNCHANGED <<handshake_established, manifest_pending>>
    BY <1>3 DEF DaemonCrash, HostOff, HostBoot, linkVars, manifestVars, sessionVars
  <2>2. (DisplaySent' => DisplaySent) /\ (NetworkSent' => NetworkSent)
    BY <2>1 DEF DisplaySent, NetworkSent
  <2> QED BY <1>1, <1>2, <2>1, <2>2 DEF ManifestsSent
<1>4. CASE ForeignDaemon
  <2> DEFINE m == HostNoise("Foreign")
  <2> DEFINE g == HostNoise("Garbled")
  <2>1. ~port'
    BY <1>4 DEF ForeignDaemon, daemonVars, ManifestInv, DaemonPlaces
  <2>2. m \in HostMessage /\ m.kind = "Foreign" /\ g \in HostMessage /\ g.kind = "Garbled"
    <3>1. m \in HostMessage /\ g \in HostMessage
      BY FrameTypes DEF NoiseKinds
    <3> QED BY <3>1 DEF HostNoise, HostFrame
  <2>3. toStick' = Put(toStick, m, g)
    BY <1>4 DEF ForeignDaemon, PutHost
  <2> HIDE DEF m, g
  <2>4. Written(toStick, toStick', m)
    BY <1>1, <2>2, <2>3, PutWrites
  <2>5. SnapshotsFit(toStick', daemon_session', display_pages', web_manifest')
    BY <1>1, <1>2, <2>2, <2>4, FitsWritten
  <2> QED BY <2>1, <2>5 DEF ManifestsSent, DisplaySent, NetworkSent
<1>5. CASE LoseFrames
  <2>1. ~port'
    BY <1>5 DEF LoseFrames, daemonVars
  <2>2. CASE toStick' = toStick
    BY <1>1, <1>2, <2>1, <2>2 DEF ManifestsSent, DisplaySent, NetworkSent
  <2>3. CASE toStick # <<>>
             /\ toStick' \in {SubSeq(toStick, 1, Len(toStick) - 1),
                              Append(SubSeq(toStick, 1, Len(toStick) - 1), HostNoise("Fragment"))}
    <3> DEFINE kept == SubSeq(toStick, 1, Len(toStick) - 1)
    <3> DEFINE f == HostNoise("Fragment")
    <3>1. f \in HostMessage /\ f.kind = "Fragment"
      <4>1. f \in HostMessage
        BY FrameTypes DEF NoiseKinds
      <4> QED BY <4>1 DEF HostNoise, HostFrame
    <3>2. /\ kept \in Seq(HostMessage) /\ Len(kept) = Len(toStick) - 1
          /\ \A i \in 1..Len(toStick) - 1 : kept[i] = toStick[i]
      BY <1>1, <2>3, FrontFrames
    <3>3. toStick' = kept \/ toStick' = Append(kept, f)
      BY <2>3, Zenon
    <3> HIDE DEF kept, f
    <3>4. Len(toStick) \in Nat /\ Len(toStick) > 0
      BY <1>1, <2>3
    <3>5. /\ toStick' \in Seq(HostMessage) /\ Len(toStick') <= Len(toStick)
          /\ \A i \in 1..Len(toStick') :
               toStick'[i] = toStick[i] \/ (i = Len(toStick') /\ toStick'[i].kind = "Fragment")
      <4>1. CASE toStick' = kept
        BY <3>2, <3>4, <4>1
      <4>2. CASE toStick' = Append(kept, f)
        <5>1. /\ toStick' \in Seq(HostMessage) /\ Len(toStick') = Len(toStick)
              /\ toStick'[Len(toStick)] = f
              /\ \A i \in 1..Len(toStick) - 1 : toStick'[i] = kept[i]
          BY <3>1, <3>2, <3>4, <4>2
        <5> QED BY <3>1, <3>2, <3>4, <5>1
      <4> QED BY <3>3, <4>1, <4>2
    <3>6. SnapshotsFit(toStick', daemon_session', display_pages', web_manifest')
      BY <1>1, <1>2, <3>5, FitsLost
    <3> QED BY <2>1, <3>6 DEF ManifestsSent, DisplaySent, NetworkSent
  <2> QED BY <1>5, <2>2, <2>3 DEF LoseFrames
<1> QED BY <1>3, <1>4, <1>5 DEF HostEnvironment

-----------------------------------------------------------------------------
(* The cut frames.                                                         *)

\* Challenges come only from SendHello.
LEMMA HellosKept ==
    ASSUME TypeOK, Next, ~SendHello, NEW i \in 1..Len(toStick'), toStick'[i].kind = "Hello"
    PROVE  \E k \in 1..Len(toStick) : toStick[k] = toStick'[i]
<1>1. toStick \in Seq(HostMessage)
  BY ProtocolTypes
<1>2. CASE toStick' = toStick
  BY <1>2
<1>3. ASSUME NEW m \in HostMessage, Written(toStick, toStick', m), m.kind # "Hello"
      PROVE  \E k \in 1..Len(toStick) : toStick[k] = toStick'[i]
  BY <1>1, <1>3 DEF Written, EndsInFragment
<1>4. CASE DaemonNext
  BY <1>2, <1>3, <1>4, DaemonWrote
<1>5. CASE StickNext
  <2>1. CASE toStick # <<>> /\ toStick' = Tail(toStick)
    BY <1>1, <2>1
  <2>2. CASE StickReboot
    <3>1. PICK c \in 0..Len(toStick) : toStick' = SubSeq(toStick, c + 1, Len(toStick))
      BY <2>2 DEF StickReboot
    <3>2. i + c \in 1..Len(toStick) /\ toStick'[i] = toStick[i + c]
      BY <1>1, <3>1
    <3> QED BY <3>2
  <2>3. CASE \/ ReceiveHello \/ IgnoreFrame \/ ReceiveForeign \/ ReceiveSnapshot
             \/ ReceiveDisplayConfig \/ ReceiveNetworkConfig \/ ReceiveProgress \/ ReceiveFailure
    BY <2>1, <2>3, StickTakes
  <2>4. CASE \/ TxPoll \/ HelloTimer \/ LinkTimeout \/ ShutdownTimeout \/ NextScreen \/ LongPress
    BY <1>2, <2>4 DEF TxPoll, HelloTimer, LinkTimeout, ShutdownTimeout, NextScreen, LongPress
  <2> QED BY <1>5, <2>2, <2>3, <2>4 DEF StickNext
<1>6. CASE HostEnvironment
  <2>1. CASE DaemonCrash \/ HostOff \/ HostBoot
    BY <1>2, <2>1 DEF DaemonCrash, HostOff, HostBoot, linkVars
  <2>2. CASE ForeignDaemon
    <3> DEFINE m == HostNoise("Foreign")
    <3> DEFINE g == HostNoise("Garbled")
    <3>1. m \in HostMessage /\ m.kind = "Foreign" /\ g \in HostMessage /\ g.kind = "Garbled"
      <4>1. m \in HostMessage /\ g \in HostMessage
        BY FrameTypes DEF NoiseKinds
      <4> QED BY <4>1 DEF HostNoise, HostFrame
    <3>2. toStick' = Put(toStick, m, g)
      BY <2>2 DEF ForeignDaemon, PutHost
    <3> HIDE DEF m, g
    <3> QED BY <1>1, <1>3, <3>1, <3>2, PutWrites
  <2>3. CASE toStick # <<>>
             /\ toStick' \in {SubSeq(toStick, 1, Len(toStick) - 1),
                              Append(SubSeq(toStick, 1, Len(toStick) - 1), HostNoise("Fragment"))}
    <3> DEFINE kept == SubSeq(toStick, 1, Len(toStick) - 1)
    <3> DEFINE f == HostNoise("Fragment")
    <3>1. f.kind = "Fragment"
      BY DEF HostNoise, HostFrame
    <3>2. /\ kept \in Seq(HostMessage) /\ Len(kept) = Len(toStick) - 1
          /\ \A k \in 1..Len(toStick) - 1 : kept[k] = toStick[k]
      BY <1>1, <2>3, FrontFrames
    <3>3. toStick' = kept \/ toStick' = Append(kept, f)
      BY <2>3, Zenon
    <3> HIDE DEF kept, f
    <3>4. Len(toStick) \in Nat /\ Len(toStick) > 0
      BY <1>1, <2>3
    <3>5. (i <= Len(kept) /\ toStick'[i] = kept[i]) \/ toStick'[i] = f
      BY <3>2, <3>3, <3>4
    <3>6. i \in 1..Len(toStick) - 1 /\ toStick'[i] = toStick[i]
      BY <3>1, <3>2, <3>4, <3>5
    <3> QED BY <3>4, <3>6
  <2> QED BY <1>2, <1>6, <2>1, <2>2, <2>3 DEF HostEnvironment, LoseFrames
<1> QED BY <1>4, <1>5, <1>6 DEF Next

\* Acknowledgements come only from a stick that has the challenge.
LEMMA AcknowledgementsKept ==
    ASSUME SessionInv, Next, handshake_nonce' = handshake_nonce, Acknowledged'
    PROVE  Challenged
<1>1. TypeOK /\ NoncesDrawn
  BY DEF SessionInv, ProtocolInv
<1>2. /\ toStick \in Seq(HostMessage) /\ toHost \in Seq(DeviceMessage)
      /\ queue \in Seq(DeviceMessage) /\ Len(queue) \in Nat /\ Len(queue) <= QueueCap
      /\ handshake_nonce \in Nat /\ daemon_session \in Nat
  BY <1>1, ProtocolTypes
<1>3. /\ Acknowledged' <=>
           \/ handshake_established'
           \/ daemon_session' = handshake_nonce
           \/ \E i \in 1..Len(toHost') : IsAcknowledgement(toHost'[i])
           \/ \E i \in 1..Len(queue') : IsAcknowledgement(queue'[i])
  BY DEF Acknowledged, IsAcknowledgement
<1>4. ASSUME \A i \in 1..Len(toHost') : IsAcknowledgement(toHost'[i]) => Acknowledged,
             handshake_established' => Acknowledged,
             UNCHANGED <<queue, daemon_session>>
      PROVE  Challenged
  BY <1>3, <1>4 DEF Challenged, Acknowledged
<1>5. ASSUME toHost # <<>>, toHost' = Tail(toHost), NEW i \in 1..Len(toHost')
      PROVE  IsAcknowledgement(toHost'[i]) => Acknowledged
  <2>1. i + 1 \in 1..Len(toHost) /\ toHost'[i] = toHost[i + 1]
    BY <1>2, <1>5
  <2> QED BY <2>1 DEF Acknowledged
<1>6. CASE DaemonNext /\ UNCHANGED stickVars
  <2>1. CASE toHost' = toHost /\ handshake_established' \in {handshake_established, FALSE}
    BY <1>4, <1>6, <2>1 DEF stickVars, Acknowledged
  <2>2. CASE \/ ReadUnsynchronized \/ ReadAcknowledgement \/ ReadOtherHello \/ HandleShutdown
             \/ DiscardFrame
    <3>1. /\ toHost # <<>> /\ toHost' = Tail(toHost)
          /\ \/ handshake_established' \in {handshake_established, FALSE}
             \/ IsAcknowledgement(Head(toHost))
      BY <2>2 DEF ReadUnsynchronized, ReadAcknowledgement, ReadOtherHello, HandleShutdown,
                  DiscardFrame, CanRead, Readable, sessionVars, IsAcknowledgement
    <3>2. 1 \in 1..Len(toHost) /\ Head(toHost) = toHost[1]
      BY <1>2, <3>1
    <3>3. handshake_established' => Acknowledged
      BY <3>1, <3>2 DEF Acknowledged
    <3>4. \A i \in 1..Len(toHost') : IsAcknowledgement(toHost'[i]) => Acknowledged
      BY <1>5, <3>1
    <3>5. UNCHANGED <<queue, daemon_session>>
      BY <1>6 DEF stickVars
    <3> QED BY <1>4, <3>3, <3>4, <3>5
  <2>3. CASE Open
    BY <1>2, <2>3 DEF Open
  <2>4. CASE \/ Start \/ Collect \/ SendHello \/ SendManifestDisplay \/ SendManifestNetwork
             \/ TakeSnapshot \/ UpdateDisplay \/ UpdateNetwork \/ SendSnapshot \/ ReadError
             \/ AcceptShutdown \/ PrepareGuests \/ CountGuests \/ SystemPoweroff \/ ReportFailure
             \/ MonitorGuests \/ GuestsStopped \/ FinishPoweroff
    BY <2>1, <2>4 DEF Start, Collect, SendHello, SendManifestDisplay, SendManifestNetwork,
         TakeSnapshot, UpdateDisplay, UpdateNetwork, SendSnapshot, ReadError, AcceptShutdown,
         PrepareGuests, CountGuests, SystemPoweroff, ReportFailure, MonitorGuests, GuestsStopped,
         FinishPoweroff, poweroffUnchanged, sessionVars
  <2> QED BY <1>6, <2>2, <2>3, <2>4 DEF DaemonNext
<1>7. CASE StickNext /\ UNCHANGED daemonVars
  <2>1. UNCHANGED handshake_established
    BY <1>7 DEF daemonVars, sessionVars
  <2>2. ASSUME NEW m \in DeviceMessage, queue' = Enqueue(queue, m), IsAcknowledgement(m) => Challenged,
               UNCHANGED toHost, daemon_session' = handshake_nonce => Challenged
        PROVE  Challenged
    <3>1. ASSUME NEW i \in 1..Len(queue') PROVE  IsAcknowledgement(queue'[i]) => Challenged
      <4>1. PICK d \in {0, 1} : \A k \in 1..Len(queue') :
               \/ k + d <= Len(queue) /\ queue'[k] = queue[k + d]
               \/ k + d = Len(queue) + 1 /\ queue'[k] = m
        <5>1. \E d \in {0, 1} : \A k \in 1..Len(Enqueue(queue, m)) :
                \/ k + d <= Len(queue) /\ Enqueue(queue, m)[k] = queue[k + d]
                \/ k + d = Len(queue) + 1 /\ Enqueue(queue, m)[k] = m
          BY <1>2, EnqueueEntries
        <5> DEFINE e == Enqueue(queue, m)
        <5>2. queue' = e
          BY <2>2
        <5>3. \E d \in {0, 1} : \A k \in 1..Len(e) :
                \/ k + d <= Len(queue) /\ e[k] = queue[k + d]
                \/ k + d = Len(queue) + 1 /\ e[k] = m
          BY <5>1, Zenon
        <5> HIDE DEF e
        <5> QED BY <5>2, <5>3
      <4>2. CASE i + d <= Len(queue) /\ queue'[i] = queue[i + d]
        <5>1. i + d \in 1..Len(queue)
          BY <1>2, <4>2
        <5> QED BY <4>2, <5>1 DEF Challenged, Acknowledged
      <4>3. CASE queue'[i] = m
        BY <2>2, <4>3
      <4> QED BY <4>1, <4>2, <4>3
    <3> QED BY <1>3, <2>1, <2>2, <3>1 DEF Challenged, Acknowledged
  <2>3. CASE TxPoll
    <3> DEFINE m == Head(queue)
    <3> DEFINE g == DeviceNoise("Garbled")
    <3>1. /\ g \in DeviceMessage /\ ~IsAcknowledgement(g)
          /\ m \in DeviceMessage /\ 1 \in 1..Len(queue) /\ m = queue[1]
          /\ \A i \in 1..Len(queue') : i + 1 \in 1..Len(queue) /\ queue'[i] = queue[i + 1]
      <4>1. g \in DeviceMessage
        BY FrameTypes DEF NoiseKinds
      <4>2. ~IsAcknowledgement(g)
        BY DEF DeviceNoise, DeviceFrame, IsAcknowledgement
      <4> QED BY <1>2, <2>3, <4>1, <4>2 DEF TxPoll
    <3>2. toHost' = Put(toHost, m, g) /\ UNCHANGED daemon_session
      BY <2>3 DEF TxPoll, PutDevice
    <3> HIDE DEF m, g
    <3>3. \A i \in 1..Len(toHost') : \/ i <= Len(toHost) /\ toHost'[i] = toHost[i]
                                     \/ toHost'[i] = m
                                     \/ toHost'[i] = g
      <4>1. \A i \in 1..Len(Put(toHost, m, g)) :
              \/ i <= Len(toHost) /\ Put(toHost, m, g)[i] = toHost[i]
              \/ i > Len(toHost) /\ Put(toHost, m, g)[i] = m
              \/ i = Len(Put(toHost, m, g)) /\ Put(toHost, m, g)[i] = g
        <5>1. toHost \in Seq(DeviceMessage) /\ m \in DeviceMessage /\ g \in DeviceMessage
          BY <1>2, <3>1
        <5> QED BY <5>1, PutFrames
      <4> DEFINE w == Put(toHost, m, g)
      <4>2. toHost' = w
        BY <3>2
      <4>3. \A i \in 1..Len(w) : \/ i <= Len(toHost) /\ w[i] = toHost[i]
                                 \/ i > Len(toHost) /\ w[i] = m
                                 \/ i = Len(w) /\ w[i] = g
        BY <4>1, Zenon
      <4> HIDE DEF w
      <4> QED BY <4>2, <4>3
    <3>4. IsAcknowledgement(m) => Acknowledged
      BY <3>1 DEF Acknowledged
    <3>5. ASSUME NEW i \in 1..Len(toHost') PROVE  IsAcknowledgement(toHost'[i]) => Acknowledged
      <4>1. CASE i <= Len(toHost) /\ toHost'[i] = toHost[i]
        <5>1. i \in 1..Len(toHost)
          BY <1>2, <4>1
        <5> QED BY <4>1, <5>1 DEF Acknowledged
      <4>2. CASE toHost'[i] = m \/ toHost'[i] = g
        BY <3>1, <3>4, <4>2
      <4> QED BY <3>3, <4>1, <4>2
    <3>6. ASSUME NEW i \in 1..Len(queue') PROVE  IsAcknowledgement(queue'[i]) => Acknowledged
      BY <3>1 DEF Acknowledged
    <3>7. handshake_established' \/ daemon_session' = handshake_nonce => Acknowledged
      BY <2>1, <3>2 DEF Acknowledged
    <3> QED BY <1>3, <3>5, <3>6, <3>7 DEF Challenged
  <2>4. CASE HelloTimer
    <3> DEFINE m == DeviceFrame("Hello", daemon_session)
    <3>1. m \in DeviceMessage /\ m.session = daemon_session
      BY <1>2, FrameTypes DEF DeviceFrame
    <3>2. queue' = Enqueue(queue, m) /\ UNCHANGED <<toHost, daemon_session>>
      BY <2>4 DEF HelloTimer
    <3> HIDE DEF m
    <3>3. daemon_session = handshake_nonce => Challenged
      BY DEF Challenged, Acknowledged
    <3> QED BY <2>2, <3>1, <3>2, <3>3 DEF IsAcknowledgement
  <2>5. CASE ReceiveHello
    <3> DEFINE m == DeviceFrame("Hello", Head(toStick).session)
    <3>1. /\ 1 \in 1..Len(toStick) /\ Head(toStick) = toStick[1] /\ toStick[1].kind = "Hello"
      BY <1>2, <2>5 DEF ReceiveHello, Receive, Readable
    <3>2. toStick[1].session \in Nat
      BY <1>1, <3>1, ProtocolTypes
    <3>3. m \in DeviceMessage /\ m.session = toStick[1].session
      BY <3>1, <3>2, FrameTypes DEF DeviceFrame
    <3>4. queue' = Enqueue(queue, m) /\ UNCHANGED toHost /\ daemon_session' = toStick[1].session
      BY <2>5, <3>1 DEF ReceiveHello, Receive, AdoptedSession
    <3> HIDE DEF m
    <3>5. toStick[1].session = handshake_nonce => Challenged
      BY <3>1 DEF Challenged
    <3> QED BY <2>2, <3>3, <3>4, <3>5 DEF IsAcknowledgement
  <2>6. CASE LongPress /\ daemon = "Connected"
    <3> DEFINE m == DeviceFrame("ShutdownRequested", daemon_session)
    <3>1. m \in DeviceMessage /\ m.kind = "ShutdownRequested"
      BY <1>2, FrameTypes DEF DeviceFrame
    <3>2. queue' = Enqueue(queue, m) /\ UNCHANGED <<toHost, daemon_session>>
      BY <2>6 DEF LongPress
    <3> HIDE DEF m
    <3>3. daemon_session = handshake_nonce => Challenged
      BY DEF Challenged, Acknowledged
    <3> QED BY <2>2, <3>1, <3>2, <3>3 DEF IsAcknowledgement
  <2>7. CASE \/ LongPress /\ daemon # "Connected"
             \/ IgnoreFrame \/ ReceiveForeign \/ ReceiveSnapshot \/ ReceiveDisplayConfig
             \/ ReceiveNetworkConfig \/ ReceiveProgress \/ ReceiveFailure
             \/ ShutdownTimeout \/ NextScreen
    <3>1. UNCHANGED <<toHost, queue, daemon_session>>
      BY <2>7 DEF LongPress, IgnoreFrame, ReceiveForeign, ReceiveSnapshot, ReceiveDisplayConfig,
           ReceiveNetworkConfig, ReceiveProgress, ReceiveFailure, ShutdownTimeout, NextScreen, Receive
    <3> QED BY <1>4, <2>1, <3>1 DEF Acknowledged
  <2>8. handshake_nonce = NoSession => Acknowledged
    BY <1>1, <1>2 DEF NoncesDrawn, Acknowledged, NoSession
  <2>9. CASE LinkTimeout
    <3>1. UNCHANGED <<toHost, queue>> /\ daemon_session' = NoSession
      BY <2>9 DEF LinkTimeout
    <3> QED BY <1>3, <2>1, <2>8, <3>1 DEF Challenged, Acknowledged
  <2>10. CASE StickReboot
    <3> DEFINE f == DeviceNoise("Fragment")
    <3>1. f \in DeviceMessage /\ ~IsAcknowledgement(f)
      <4>1. f \in DeviceMessage
        BY FrameTypes DEF NoiseKinds
      <4> QED BY <4>1 DEF DeviceNoise, DeviceFrame, IsAcknowledgement
    <3>2. /\ daemon_session' = NoSession /\ Len(queue') = 1 /\ queue'[1].session = NoSession
      BY <2>10 DEF StickReboot, DeviceFrame
    <3>3. PICK n \in 0..Len(toHost) : \/ toHost' = SubSeq(toHost, 1, n)
                                      \/ toHost' = Append(SubSeq(toHost, 1, n), f)
      BY <2>10 DEF StickReboot
    <3> DEFINE kept == SubSeq(toHost, 1, n)
    <3>4. /\ kept \in Seq(DeviceMessage) /\ Len(kept) = n
          /\ \A i \in 1..n : i \in 1..Len(toHost) /\ kept[i] = toHost[i]
      BY <1>2
    <3> HIDE DEF f, kept
    <3>5. \A i \in 1..Len(toHost') : \/ i \in 1..n /\ toHost'[i] = kept[i]
                                     \/ toHost'[i] = f
      <4>1. CASE toHost' = kept
        BY <3>4, <4>1
      <4>2. CASE toHost' = Append(kept, f)
        <5>1. Len(toHost') = n + 1 /\ toHost'[n + 1] = f /\ \A i \in 1..n : toHost'[i] = kept[i]
          BY <3>1, <3>4, <4>2
        <5> QED BY <5>1
      <4> QED BY <3>3, <4>1, <4>2 DEF kept
    <3>6. ASSUME NEW i \in 1..Len(toHost') PROVE  IsAcknowledgement(toHost'[i]) => Acknowledged
      BY <3>1, <3>4, <3>5 DEF Acknowledged
    <3>7. ASSUME NEW i \in 1..Len(queue') PROVE  IsAcknowledgement(queue'[i]) => Acknowledged
      BY <2>8, <3>2 DEF IsAcknowledgement
    <3> QED BY <1>3, <2>1, <2>8, <3>2, <3>6, <3>7 DEF Challenged, Acknowledged
  <2> QED BY <1>7, <2>3, <2>4, <2>5, <2>6, <2>7, <2>9, <2>10 DEF StickNext
<1>8. CASE HostEnvironment /\ UNCHANGED stickVars
  <2>1. UNCHANGED <<handshake_established, queue, daemon_session>>
    BY <1>8 DEF HostEnvironment, DaemonCrash, ForeignDaemon, LoseFrames, HostOff, HostBoot,
                daemonVars, sessionVars, stickVars
  <2>2. toHost' = toHost \/ (toHost # <<>> /\ toHost' = Tail(toHost))
    BY <1>8 DEF HostEnvironment, DaemonCrash, ForeignDaemon, LoseFrames, HostOff, HostBoot, linkVars
  <2>3. \A i \in 1..Len(toHost') : IsAcknowledgement(toHost'[i]) => Acknowledged
    BY <1>5, <2>2 DEF Acknowledged
  <2> QED BY <1>4, <2>1, <2>3 DEF Acknowledged
<1> QED BY <1>6, <1>7, <1>8 DEF Next

\* Nothing that has been sent in the connection just opened can be answered yet.
LEMMA FreshUnchallenged ==
    ASSUME SessionInv, Open, UNCHANGED stickVars
    PROVE  ~Challenged'
<1>1. TypeOK /\ NoncesDrawn
  BY DEF SessionInv, ProtocolInv
<1>2. /\ handshake_nonce \in Nat /\ daemon_session \in Nat
      /\ \A i \in 1..Len(toStick) : toStick[i].session \in Nat
      /\ \A i \in 1..Len(toHost) : toHost[i].session \in Nat
      /\ \A i \in 1..Len(queue) : queue[i].session \in Nat
  BY <1>1, ProtocolTypes
<1>3. /\ handshake_nonce' = handshake_nonce + 1 /\ ~handshake_established'
      /\ UNCHANGED <<toStick, toHost, queue, daemon_session>>
  BY DEF Open, stickVars
<1>4. /\ daemon_session # handshake_nonce + 1
      /\ \A i \in 1..Len(toStick) : toStick[i].session # handshake_nonce + 1
      /\ \A i \in 1..Len(toHost) : toHost[i].session # handshake_nonce + 1
      /\ \A i \in 1..Len(queue) : queue[i].session # handshake_nonce + 1
  BY <1>1, <1>2 DEF NoncesDrawn
<1> QED BY <1>3, <1>4 DEF Challenged, Acknowledged, IsAcknowledgement

\* If no write cuts its frame and leaves the port open, nothing behind the challenge is cut.
LEMMA NothingCutStep ==
    ASSUME SessionInv, ManifestInv, Next, port' => (EndsInFragment(toStick') => EndsInFragment(toStick))
    PROVE  NothingCut'
<1>1. SUFFICES ASSUME port', Challenged', EndsInFragment(toStick')
               PROVE  FALSE
  BY DEF NothingCut
<1>2. TypeOK /\ toStick \in Seq(HostMessage)
  BY ProtocolTypes DEF SessionInv
<1>3. CASE Open /\ UNCHANGED stickVars
  BY <1>1, <1>3, FreshUnchallenged
<1>4. CASE SendHello
  <2> DEFINE m == HostFrame("Hello", handshake_nonce, 0)
  <2>1. m \in HostMessage /\ m.kind = "Hello"
    BY <1>2, LoopFrames, FrameFields
  <2>2. Write(m)
    BY <1>1, <1>4 DEF SendHello, Disconnect
  <2> HIDE DEF m
  <2>3. Written(toStick, toStick', m) /\ toStick' \in Seq(HostMessage)
    <3>1. TypeOK'
      BY <1>2, TypeStep
    <3> QED BY <1>2, <2>1, <2>2, <3>1, CompleteWrite DEF TypeOK, LinkTypeOK
  <2> QED BY <1>1, <1>2, <2>1, <2>3, WholeFrame
<1>5. CASE ~(Open /\ UNCHANGED stickVars) /\ ~SendHello
  <2>1. port /\ handshake_nonce' = handshake_nonce
    <3>1. CASE DaemonNext /\ UNCHANGED stickVars
      BY <1>1, <1>5, <3>1 DEF DaemonNext, Start, Open, Collect, SendHello, SendManifestDisplay,
         SendManifestNetwork, TakeSnapshot, UpdateDisplay, UpdateNetwork, SendSnapshot,
         ReadUnsynchronized, ReadAcknowledgement, ReadOtherHello, HandleShutdown, DiscardFrame,
         ReadError, AcceptShutdown, PrepareGuests, CountGuests, SystemPoweroff, ReportFailure,
         MonitorGuests, GuestsStopped, FinishPoweroff, CanRead, Running, Disconnect,
         poweroffUnchanged, sessionVars
    <3>2. CASE StickNext /\ UNCHANGED daemonVars
      BY <1>1, <3>2 DEF daemonVars, sessionVars
    <3>3. CASE HostEnvironment
      BY <1>1, <3>3 DEF HostEnvironment, DaemonCrash, ForeignDaemon, LoseFrames, HostOff, HostBoot,
         daemonVars, sessionVars
    <3> QED BY <3>1, <3>2, <3>3 DEF Next
  <2>2. Challenged
    <3>1. CASE Acknowledged'
      BY <2>1, <3>1, AcknowledgementsKept
    <3>2. CASE \E i \in 1..Len(toStick') : /\ toStick'[i].kind = "Hello"
                                           /\ toStick'[i].session = handshake_nonce'
      BY <1>2, <1>5, <2>1, <3>2, HellosKept DEF Challenged
    <3> QED BY <1>1, <3>1, <3>2 DEF Challenged
  <2> QED BY <1>1, <2>1, <2>2 DEF ManifestInv, NothingCut
<1> QED BY <1>3, <1>4, <1>5

\* The port is open only in a running process; between the manifests and the snapshot
\* none is pending.
LEMMA PlacesStep ==
    ASSUME SessionInv, DaemonPlaces, Next
    PROVE  DaemonPlaces'
<1> USE DEF DaemonPlaces
<1>1. DaemonPlaces /\ BlockInSession
  BY DEF SessionInv
<1>2. CASE StickNext /\ UNCHANGED daemonVars
  BY <1>1, <1>2 DEF daemonVars, sessionVars
<1>3. CASE HostEnvironment
  BY <1>1, <1>3 DEF HostEnvironment, DaemonCrash, ForeignDaemon, LoseFrames, HostOff, HostBoot,
                    daemonVars, sessionVars
<1>4. CASE Start \/ Open \/ Collect \/ TakeSnapshot \/ ReadError
  BY <1>1, <1>4 DEF Start, Open, Collect, TakeSnapshot, ReadError, Disconnect, Running, sessionVars,
                    BlockInSession
<1>5. CASE \/ SendHello \/ SendManifestDisplay \/ SendManifestNetwork \/ UpdateDisplay
           \/ UpdateNetwork \/ SendSnapshot
  BY <1>1, <1>5 DEF SendHello, SendManifestDisplay, SendManifestNetwork, UpdateDisplay,
                    UpdateNetwork, SendSnapshot, Disconnect, Running, sessionVars
<1>6. CASE \/ ReadUnsynchronized \/ ReadAcknowledgement \/ ReadOtherHello \/ HandleShutdown
           \/ DiscardFrame
  BY <1>1, <1>6 DEF ReadUnsynchronized, ReadAcknowledgement, ReadOtherHello, HandleShutdown,
                    DiscardFrame, CanRead, Running, sessionVars
<1>7. CASE \/ AcceptShutdown \/ PrepareGuests \/ CountGuests \/ SystemPoweroff \/ ReportFailure
           \/ MonitorGuests \/ GuestsStopped \/ FinishPoweroff
  BY <1>1, <1>7 DEF AcceptShutdown, PrepareGuests, CountGuests, SystemPoweroff, ReportFailure,
                    MonitorGuests, GuestsStopped, FinishPoweroff, Report, Disconnect, Running,
                    poweroffUnchanged, sessionVars
<1> QED BY <1>2, <1>3, <1>4, <1>5, <1>6, <1>7 DEF Next, DaemonNext

\* The inductive invariant behind SnapshotOverManifest.
LEMMA ManifestStep ==
    SessionInv /\ ManifestInv /\ [Next]_vars
      /\ [port' => (EndsInFragment(toStick') => EndsInFragment(toStick))]_vars
      => ManifestInv'
<1> SUFFICES ASSUME SessionInv, ManifestInv, [Next]_vars,
                    [port' => (EndsInFragment(toStick') => EndsInFragment(toStick))]_vars
             PROVE  ManifestInv'
  OBVIOUS
<1>1. CASE UNCHANGED vars
  BY <1>1 DEF vars, linkVars, daemonVars, sessionVars, manifestVars, stickVars, screenVars,
     ManifestInv, DaemonPlaces, NothingCut, Challenged, Acknowledged, IsAcknowledgement,
     ManifestsSent, DisplaySent, NetworkSent
<1>2. CASE Next /\ ~UNCHANGED vars
  <2>1. TypeOK
    BY DEF SessionInv
  <2>2. DaemonPlaces'
    BY <1>2, PlacesStep DEF ManifestInv
  <2>3. NothingCut'
    BY <1>2, NothingCutStep
  <2>4. /\ SnapshotsFit(toStick', daemon_session', display_pages', web_manifest')
        /\ ManifestsSent'
    <3>1. CASE DaemonNext /\ UNCHANGED stickVars
      BY <3>1, DaemonFits, DaemonSends
    <3>2. CASE StickNext /\ UNCHANGED daemonVars
      BY <2>1, <3>2, StickFits
    <3>3. CASE HostEnvironment /\ UNCHANGED stickVars
      BY <2>1, <3>3, EnvironmentFits
    <3> QED BY <1>2, <3>1, <3>2, <3>3 DEF Next
  <2> QED BY <2>2, <2>3, <2>4 DEF ManifestInv
<1> QED BY <1>1, <1>2

\* Nothing is on the wire, and the daemon is not running.
LEMMA InitManifest == Init => ManifestInv
<1> SUFFICES ASSUME Init PROVE ManifestInv
  OBVIOUS
<1>1. toStick = <<>> /\ port = FALSE /\ at = "loop"
  BY DEF Init, LinkInit, DaemonInit
<1>2. Len(toStick) = 0
  BY <1>1
<1> QED BY <1>1, <1>2 DEF ManifestInv, DaemonPlaces, NothingCut, SnapshotsFit, ManifestsSent,
           DisplaySent, NetworkSent

\* The first frame on the wire, if it is a snapshot, fits the stick.
LEMMA SnapshotTaken ==
    ASSUME SessionInv, ManifestInv, ReceiveSnapshot
    PROVE  display_pages = Head(toStick).display /\ web_manifest = Head(toStick).network
<1>1. /\ toStick # <<>> /\ Head(toStick).kind = "HealthSnapshot" /\ daemon_session # NoSession
  BY DEF ReceiveSnapshot, Receive, Readable, InSession
<1>2. toStick \in Seq(HostMessage)
  BY DEF SessionInv, TypeOK, LinkTypeOK
<1>3. 1 \in 1..Len(toStick) /\ Head(toStick) = toStick[1] /\ 1 - 1 = 0 /\ 1..0 = {}
  BY <1>1, <1>2
<1>4. /\ Brings(toStick, 0, "DisplayConfig", daemon_session, display_pages, toStick[1].display)
      /\ Brings(toStick, 0, "NetworkConfig", daemon_session, web_manifest, toStick[1].network)
  BY <1>1, <1>3 DEF ManifestInv, SnapshotsFit
<1> QED BY <1>1, <1>3, <1>4 DEF Brings

\* As long as no progress report is cut with the port left open, the stick accepts a
\* snapshot only over the manifests the daemon held when it wrote it (host/src/main.rs
\* sends both manifests once per session, and a changed one before the snapshot).
THEOREM SnapshotsOverManifests == Spec /\ WholeReports => SnapshotOverManifest
<1>1. SessionInv /\ ManifestInv =>
        [ReceiveSnapshot => /\ display_pages = Head(toStick).display
                            /\ web_manifest = Head(toStick).network]_vars
  BY SnapshotTaken
<1> QED BY <1>1, InitManifest, ManifestStep, SessionInvariant, PTL
        DEF Spec, WholeReports, SnapshotOverManifest

-----------------------------------------------------------------------------
(* Without the shutdown action there are no reports.                       *)

\* The main thread is in a block of the main loop.
NoReports == at \in {"loop", "manifest_network", "update_display", "update_network", "snapshot"}

\* A daemon whose shutdown action is disabled never gets to a report.
LEMMA NoReportsStep ==
    ASSUME AllowShutdown = FALSE, NoReports, [Next]_vars
    PROVE  NoReports'
<1> USE DEF NoReports
<1>1. CASE DaemonNext
  BY <1>1 DEF DaemonNext, Start, Open, Collect, SendHello, SendManifestDisplay, SendManifestNetwork,
     TakeSnapshot, UpdateDisplay, UpdateNetwork, SendSnapshot, ReadUnsynchronized,
     ReadAcknowledgement, ReadOtherHello, HandleShutdown, HandlesShutdown, DiscardFrame, ReadError,
     AcceptShutdown, PrepareGuests, CountGuests, SystemPoweroff, ReportFailure, MonitorGuests,
     GuestsStopped, FinishPoweroff, CanRead, Running, Disconnect
<1>2. CASE UNCHANGED at
  BY <1>2
<1> QED BY <1>1, <1>2 DEF Next, vars, daemonVars, HostEnvironment, DaemonCrash, ForeignDaemon,
        LoseFrames, HostOff, HostBoot

\* Every other write that fails drops the port.
LEMMA WholeStep ==
    ASSUME SessionInv, DaemonPlaces, NoReports, Next
    PROVE  port' => (EndsInFragment(toStick') => EndsInFragment(toStick))
<1>1. SUFFICES ASSUME port', EndsInFragment(toStick')
               PROVE  EndsInFragment(toStick)
  OBVIOUS
<1>2. TypeOK /\ TypeOK' /\ toStick \in Seq(HostMessage) /\ toStick' \in Seq(HostMessage)
  <2>1. TypeOK /\ TypeOK'
    BY TypeStep DEF SessionInv
  <2> QED BY <2>1 DEF TypeOK, LinkTypeOK
<1>3. CASE toStick' = toStick
  BY <1>1, <1>3
<1>4. ASSUME NEW m \in HostMessage, Write(m), m.kind # "Fragment"
      PROVE  FALSE
  BY <1>1, <1>2, <1>4, CompleteWrite, WholeFrame
<1>5. CASE DaemonNext
  <2>1. CASE \/ SendHello \/ SendManifestDisplay \/ SendManifestNetwork \/ UpdateDisplay
             \/ UpdateNetwork \/ SendSnapshot
    <3>1. \E m \in HostMessage :
            /\ m.kind # "Fragment"
            /\ Write(m) \/ toStick' = toStick
      <4>1. CASE SendHello
        BY <1>1, <1>2, <4>1, LoopFrames, FrameFields DEF SendHello, Disconnect
      <4>2. CASE SendManifestDisplay
        BY <1>1, <1>2, <4>2, LoopFrames, FrameFields DEF SendManifestDisplay, Disconnect
      <4>3. CASE SendManifestNetwork
        BY <1>1, <1>2, <4>3, LoopFrames, FrameFields DEF SendManifestNetwork, Disconnect
      <4>4. CASE UpdateDisplay
        <5>1. Write(HostFrame("DisplayConfig", handshake_nonce, taken)) \/ toStick' = toStick
          BY <1>1, <4>4 DEF UpdateDisplay, Disconnect
        <5> QED BY <1>2, <5>1, LoopFrames, FrameFields
      <4>5. CASE UpdateNetwork
        <5>1. Write(HostFrame("NetworkConfig", handshake_nonce, taken)) \/ toStick' = toStick
          BY <1>1, <4>5 DEF UpdateNetwork, Disconnect
        <5> QED BY <1>2, <5>1, LoopFrames, FrameFields
      <4>6. CASE SendSnapshot
        <5> DEFINE m == [HostFrame("HealthSnapshot", handshake_nonce, taken)
                           EXCEPT !.display = display_config, !.network = network_config]
        <5>1. m \in HostMessage /\ m.kind = "HealthSnapshot"
          BY <1>2, LoopFrames, FrameFields
        <5>2. Write(m)
          BY <1>1, <4>6 DEF SendSnapshot, Disconnect
        <5> HIDE DEF m
        <5> QED BY <5>1, <5>2
      <4> QED BY <2>1, <4>1, <4>2, <4>3, <4>4, <4>5, <4>6
    <3> QED BY <1>3, <1>4, <3>1
  <2>2. CASE \/ Start \/ Open \/ Collect \/ TakeSnapshot \/ ReadError
             \/ ReadUnsynchronized \/ ReadAcknowledgement \/ ReadOtherHello \/ HandleShutdown
             \/ DiscardFrame \/ SystemPoweroff
    BY <1>3, <2>2 DEF Start, Open, Collect, TakeSnapshot, ReadError, ReadUnsynchronized,
       ReadAcknowledgement, ReadOtherHello, HandleShutdown, DiscardFrame, SystemPoweroff
  <2>3. CASE \/ AcceptShutdown \/ PrepareGuests \/ CountGuests \/ ReportFailure
             \/ MonitorGuests \/ GuestsStopped \/ FinishPoweroff
    BY <2>3 DEF AcceptShutdown, PrepareGuests, CountGuests, ReportFailure, MonitorGuests,
       GuestsStopped, FinishPoweroff, Running, NoReports
  <2> QED BY <1>5, <2>1, <2>2, <2>3 DEF DaemonNext
<1>6. CASE StickNext
  <2>1. CASE \E c \in 0..Len(toStick) : toStick' = SubSeq(toStick, c + 1, Len(toStick))
    <3>1. PICK c \in 0..Len(toStick) : toStick' = SubSeq(toStick, c + 1, Len(toStick))
      BY <2>1
    <3>2. /\ Len(toStick) \in Nat /\ Len(toStick') = Len(toStick) - c
          /\ \A k \in 1..Len(toStick') : toStick'[k] = toStick[k + c]
      BY <1>2, <3>1
    <3>3. Len(toStick') \in 1..Len(toStick') /\ toStick # <<>>
      BY <1>1, <1>2, <3>2 DEF EndsInFragment
    <3>4. toStick'[Len(toStick')] = toStick[Len(toStick)]
      BY <3>2, <3>3
    <3> QED BY <1>1, <3>3, <3>4 DEF EndsInFragment
  <2>2. CASE toStick # <<>> /\ toStick' = Tail(toStick)
    <3>1. /\ Len(toStick) \in Nat /\ Len(toStick') = Len(toStick) - 1
          /\ \A k \in 1..Len(toStick') : toStick'[k] = toStick[k + 1]
      BY <1>2, <2>2
    <3>2. Len(toStick') \in 1..Len(toStick')
      BY <1>1, <1>2, <3>1 DEF EndsInFragment
    <3>3. toStick'[Len(toStick')] = toStick[Len(toStick)]
      BY <3>1, <3>2
    <3> QED BY <1>1, <2>2, <3>3 DEF EndsInFragment
  <2>3. CASE StickReboot
    BY <2>1, <2>3 DEF StickReboot
  <2>4. CASE \/ ReceiveHello \/ IgnoreFrame \/ ReceiveForeign \/ ReceiveSnapshot
             \/ ReceiveDisplayConfig \/ ReceiveNetworkConfig \/ ReceiveProgress \/ ReceiveFailure
    BY <1>2, <2>2, <2>4, StickTakes
  <2>5. CASE \/ TxPoll \/ HelloTimer \/ LinkTimeout \/ ShutdownTimeout \/ NextScreen \/ LongPress
    BY <1>3, <2>5 DEF TxPoll, HelloTimer, LinkTimeout, ShutdownTimeout, NextScreen, LongPress
  <2> QED BY <1>6, <2>3, <2>4, <2>5 DEF StickNext
<1>7. CASE HostEnvironment
  <2>1. CASE DaemonCrash \/ HostOff \/ HostBoot
    BY <1>3, <2>1 DEF DaemonCrash, HostOff, HostBoot, linkVars
  <2>2. CASE ForeignDaemon \/ LoseFrames
    BY <1>1, <2>2 DEF ForeignDaemon, LoseFrames, daemonVars, DaemonPlaces
  <2> QED BY <1>7, <2>1, <2>2 DEF HostEnvironment
<1> QED BY <1>5, <1>6, <1>7 DEF Next

\* A daemon whose shutdown action is disabled never leaves a cut frame behind an open port.
LEMMA WholeWithoutShutdown ==
    ASSUME AllowShutdown = FALSE
    PROVE  Spec => WholeReports
<1> DEFINE I == DaemonPlaces /\ NoReports
<1>1. Init => I
  BY InitManifest DEF Init, DaemonInit, NoReports, DaemonPlaces
<1>2. SessionInv /\ I /\ [Next]_vars => I'
  <2> SUFFICES ASSUME SessionInv, I, [Next]_vars PROVE I'
    OBVIOUS
  <2>1. CASE Next
    BY <2>1, PlacesStep, NoReportsStep
  <2>2. CASE UNCHANGED vars
    BY <2>2 DEF vars, daemonVars, sessionVars, DaemonPlaces, NoReports
  <2> QED BY <2>1, <2>2
<1>3. SessionInv /\ I /\ [Next]_vars
        => [port' => (EndsInFragment(toStick') => EndsInFragment(toStick))]_vars
  BY WholeStep
<1> HIDE DEF I
<1> QED BY <1>1, <1>2, <1>3, SessionInvariant, PTL DEF Spec, WholeReports

\* Where the shutdown action is disabled nothing more is needed: the stick accepts a
\* snapshot only over the manifests the daemon held when it wrote it.
THEOREM SnapshotsWithoutShutdown ==
    ASSUME AllowShutdown = FALSE
    PROVE  Spec => SnapshotOverManifest
<1>1. Spec => WholeReports
  BY WholeWithoutShutdown
<1> QED BY <1>1, SnapshotsOverManifests, PTL
=============================================================================
