--------------------------- MODULE SessionProofs ----------------------------
(***************************************************************************)
(* Proofs about the session protocol, for every value of the constants.    *)
(***************************************************************************)
EXTENDS SessionRefinement, SequenceTheorems, FiniteSetTheorems, FunctionTheorems, TLAPS

\* What writing a frame does to a wire, position by position: every frame of
\* the new wire is an old one in its place, the new one at the end, or the
\* malformed frame a fragment turned into.
LEMMA PutFrames ==
    ASSUME NEW S, NEW w \in Seq(S), NEW m \in S, NEW g \in S
    PROVE  /\ Put(w, m, g) \in Seq(S)
           /\ Len(w) <= Len(Put(w, m, g))
           /\ \A i \in 1..Len(Put(w, m, g)) :
                \/ i <= Len(w) /\ Put(w, m, g)[i] = w[i]
                \/ i > Len(w) /\ Put(w, m, g)[i] = m
                \/ i = Len(Put(w, m, g)) /\ Put(w, m, g)[i] = g
<1>1. CASE EndsInFragment(w)
  <2>1. CASE m.kind = "Fragment"
    BY <1>1, <2>1 DEF Put
  <2>2. CASE m.kind # "Fragment"
    <3>1. Put(w, m, g) = [w EXCEPT ![Len(w)] = g]
      BY <1>1, <2>2 DEF Put
    <3>2. Len(w) \in 1..Len(w)
      BY <1>1 DEF EndsInFragment
    <3> QED BY <3>1, <3>2
  <2> QED BY <2>1, <2>2
<1>2. CASE ~EndsInFragment(w)
  BY <1>2 DEF Put
<1> QED BY <1>1, <1>2

\* A wire without its last frame.
LEMMA FrontFrames ==
    ASSUME NEW S, NEW w \in Seq(S), w # <<>>
    PROVE  /\ SubSeq(w, 1, Len(w) - 1) \in Seq(S)
           /\ Len(SubSeq(w, 1, Len(w) - 1)) = Len(w) - 1
           /\ \A i \in 1..Len(w) - 1 : SubSeq(w, 1, Len(w) - 1)[i] = w[i]
<1>1. Len(w) - 1 \in 0..Len(w)
  OBVIOUS
<1>2. SUFFICES ASSUME NEW n \in 0..Len(w)
               PROVE  /\ SubSeq(w, 1, n) \in Seq(S)
                      /\ Len(SubSeq(w, 1, n)) = n
                      /\ \A i \in 1..n : SubSeq(w, 1, n)[i] = w[i]
  BY <1>1, Zenon
<1> QED OBVIOUS

\* The entries of a queue whose front made room for a new entry at the back.
LEMMA DisplacedEntries ==
    ASSUME NEW S, NEW q \in Seq(S), NEW m \in S, q # <<>>
    PROVE  /\ Append(Tail(q), m) \in Seq(S)
           /\ Len(Append(Tail(q), m)) = Len(q)
           /\ \A i \in 1..Len(Append(Tail(q), m)) :
                \/ i + 1 <= Len(q) /\ Append(Tail(q), m)[i] = q[i + 1]
                \/ i + 1 = Len(q) + 1 /\ Append(Tail(q), m)[i] = m
<1>1. /\ Tail(q) \in Seq(S)
      /\ Len(Tail(q)) = Len(q) - 1
      /\ \A i \in 1..Len(Tail(q)) : Tail(q)[i] = q[i + 1]
  BY HeadTailProperties, Zenon
<1>2. SUFFICES ASSUME NEW t \in Seq(S), Len(t) = Len(q) - 1,
                      \A i \in 1..Len(t) : t[i] = q[i + 1]
               PROVE  /\ Append(t, m) \in Seq(S)
                      /\ Len(Append(t, m)) = Len(q)
                      /\ \A i \in 1..Len(Append(t, m)) :
                           \/ i + 1 <= Len(q) /\ Append(t, m)[i] = q[i + 1]
                           \/ i + 1 = Len(q) + 1 /\ Append(t, m)[i] = m
  BY <1>1, Zenon
<1> QED BY <1>2

\* The stick's queue after Enqueue: within its capacity, and every entry is an
\* old one, moved forward by at most one place, or the new one at the end.
LEMMA EnqueueEntries ==
    ASSUME NEW q \in Seq(DeviceMessage), NEW m \in DeviceMessage, Len(q) <= QueueCap
    PROVE  /\ Enqueue(q, m) \in Seq(DeviceMessage)
           /\ Len(Enqueue(q, m)) <= QueueCap
           /\ \E d \in {0, 1} : \A i \in 1..Len(Enqueue(q, m)) :
                \/ i + d <= Len(q) /\ Enqueue(q, m)[i] = q[i + d]
                \/ i + d = Len(q) + 1 /\ Enqueue(q, m)[i] = m
<1> USE StickAssumption
<1> DEFINE e == Enqueue(q, m)
<1>1. CASE Len(q) < QueueCap
  <2>1. e = Append(q, m)
    BY <1>1 DEF Enqueue
  <2>2. \A i \in 1..Len(e) :
          \/ i + 0 <= Len(q) /\ e[i] = q[i + 0]
          \/ i + 0 = Len(q) + 1 /\ e[i] = m
    BY <2>1
  <2>3. e \in Seq(DeviceMessage) /\ Len(e) <= QueueCap
    BY <1>1, <2>1
  <2> QED BY <2>2, <2>3
<1>2. CASE Len(q) >= QueueCap /\ m.kind = "ShutdownRequested"
  <2>1. e = Append(Tail(q), m) /\ q # <<>>
    BY <1>2 DEF Enqueue
  <2>2. /\ e \in Seq(DeviceMessage)
        /\ Len(e) = Len(q)
        /\ \A i \in 1..Len(e) :
             \/ i + 1 <= Len(q) /\ e[i] = q[i + 1]
             \/ i + 1 = Len(q) + 1 /\ e[i] = m
    <3>1. /\ Append(Tail(q), m) \in Seq(DeviceMessage)
          /\ Len(Append(Tail(q), m)) = Len(q)
          /\ \A i \in 1..Len(Append(Tail(q), m)) :
               \/ i + 1 <= Len(q) /\ Append(Tail(q), m)[i] = q[i + 1]
               \/ i + 1 = Len(q) + 1 /\ Append(Tail(q), m)[i] = m
      <4>1. q # <<>>
        BY <2>1
      <4> QED BY <4>1, DisplacedEntries
    <3> HIDE DEF e
    <3> QED BY <2>1, <3>1, Zenon
  <2> QED BY <2>2
<1>3. CASE Len(q) >= QueueCap /\ m.kind # "ShutdownRequested"
  <2>1. e = q
    BY <1>3 DEF Enqueue
  <2>2. \A i \in 1..Len(e) : i + 0 <= Len(q) /\ e[i] = q[i + 0]
    BY <2>1
  <2> QED BY <2>1, <2>2
<1> QED BY <1>1, <1>2, <1>3

-----------------------------------------------------------------------------
(* Type correctness.                                                       *)

\* Frames the two sides build are messages.
LEMMA FrameTypes ==
    /\ \A k \in {"Hello"} \cup SessionKinds \cup NoiseKinds : \A s, p \in Nat :
         HostFrame(k, s, p) \in HostMessage
    /\ \A k \in {"Hello"} \cup SessionKinds \cup NoiseKinds : \A s, p, d, n \in Nat :
         [HostFrame(k, s, p) EXCEPT !.display = d, !.network = n] \in HostMessage
    /\ \A k \in NoiseKinds : HostNoise(k) \in HostMessage
    /\ \A k \in {"Hello", "ShutdownRequested"} \cup NoiseKinds : \A s \in Nat :
         DeviceFrame(k, s) \in DeviceMessage
    /\ \A k \in NoiseKinds : DeviceNoise(k) \in DeviceMessage
BY DEF HostFrame, HostNoise, DeviceFrame, DeviceNoise, HostMessage, DeviceMessage, NoSession

\* Writing to the port, successfully or not, leaves messages on the wire.
LEMMA WriteType ==
    ASSUME LinkTypeOK, NEW m \in HostMessage, Write(m) \/ WriteFails(m)
    PROVE  toStick' \in Seq(HostMessage) /\ faults' \in Nat
<1>1. HostNoise("Garbled") \in HostMessage /\ HostNoise("Fragment") \in HostMessage
  BY FrameTypes DEF NoiseKinds
<1>2. toStick \in Seq(HostMessage) /\ faults \in Nat
  BY DEF LinkTypeOK
<1>3. PutHost(m) \in Seq(HostMessage) /\ PutHost(HostNoise("Fragment")) \in Seq(HostMessage)
  BY <1>1, <1>2, PutFrames DEF PutHost
<1> QED BY <1>2, <1>3 DEF Write, WriteFails, Fault

\* Every daemon step preserves the types.
LEMMA DaemonTypeStep ==
    ASSUME TypeOK, DaemonNext, UNCHANGED stickVars
    PROVE  TypeOK'
<1> USE DEF TypeOK
<1>0. LinkTypeOK /\ DaemonTypeOK /\ StickTypeOK
  OBVIOUS
<1>1. StickTypeOK'
  BY DEF StickTypeOK, stickVars, screenVars
<1>2. toHost # <<>> => Tail(toHost) \in Seq(DeviceMessage)
  BY <1>0 DEF LinkTypeOK
<1>a. 0 \in Nat /\ 1 \in Nat
  OBVIOUS
<1>3. CASE Start
  BY <1>0, <1>1, <1>3, DaemonAssumption DEF Start, DaemonTypeOK, LinkTypeOK, sessionVars, manifestVars, Places, NoSession
<1>4. CASE Open
  <2>1. handshake_nonce' \in Nat
    BY <1>0, <1>4 DEF Open, DaemonTypeOK
  <2> QED BY <1>0, <1>1, <1>4, <2>1, Zenon DEF Open, DaemonTypeOK, LinkTypeOK, manifestVars
<1>5. CASE Collect
  BY <1>0, <1>1, <1>5, DaemonAssumption DEF Collect, DaemonTypeOK, LinkTypeOK, sessionVars, manifestVars, Places, NoSession
<1>6. CASE TakeSnapshot
  BY <1>0, <1>1, <1>6, DaemonAssumption DEF TakeSnapshot, DaemonTypeOK, LinkTypeOK, sessionVars, manifestVars, Places, NoSession, Running
<1>7. CASE ReadUnsynchronized
  BY <1>0, <1>1, <1>2, <1>7 DEF ReadUnsynchronized, DaemonTypeOK, LinkTypeOK, sessionVars, manifestVars, CanRead, Readable, Places
<1>8. CASE ReadAcknowledgement
  BY <1>0, <1>1, <1>2, <1>8 DEF ReadAcknowledgement, DaemonTypeOK, LinkTypeOK, sessionVars, manifestVars, CanRead, Readable, Places, PendingOnceAcknowledged
<1>9. CASE ReadOtherHello
  BY <1>0, <1>1, <1>2, <1>9 DEF ReadOtherHello, DaemonTypeOK, LinkTypeOK, sessionVars, manifestVars, CanRead, Readable, Places
<1>10. CASE HandleShutdown
  BY <1>0, <1>1, <1>2, <1>10 DEF HandleShutdown, DaemonTypeOK, LinkTypeOK, sessionVars, manifestVars, CanRead, Readable, Places
<1>11. CASE DiscardFrame
  BY <1>0, <1>1, <1>2, <1>11 DEF DiscardFrame, DaemonTypeOK, LinkTypeOK, sessionVars, manifestVars, CanRead, Readable, Places
<1>12. CASE ReadError
  <2>1. faults' \in Nat
    BY <1>0, <1>12 DEF ReadError, Fault, LinkTypeOK
  <2> QED BY <1>0, <1>1, <1>12, <1>a, <2>1, Zenon
          DEF ReadError, Disconnect, DaemonTypeOK, LinkTypeOK, sessionVars, manifestVars, Places
<1>13. CASE SystemPoweroff
  BY <1>0, <1>1, <1>13 DEF SystemPoweroff, poweroffUnchanged, DaemonTypeOK, LinkTypeOK, sessionVars, manifestVars, Places
<1>14. CASE SendHello
  <2> DEFINE m == HostFrame("Hello", handshake_nonce, 0)
  <2>1. m \in HostMessage
    BY <1>0, FrameTypes DEF DaemonTypeOK, SessionKinds
  <2> HIDE DEF m
  <2>2. Write(m) \/ WriteFails(m) \/ UNCHANGED <<toStick, faults>>
    BY <1>14 DEF SendHello, m
  <2>3. toStick' \in Seq(HostMessage) /\ faults' \in Nat
    BY <1>0, <2>1, <2>2, WriteType DEF LinkTypeOK
  <2> QED BY <1>0, <1>1, <1>14, <2>3, <1>a DEF SendHello, Disconnect, DaemonTypeOK, LinkTypeOK, sessionVars, manifestVars, Places
<1>15. CASE SendManifestDisplay
  <2> DEFINE m == HostFrame("DisplayConfig", handshake_nonce, display_config)
  <2>1. m \in HostMessage
    BY <1>0, FrameTypes DEF DaemonTypeOK, SessionKinds
  <2> HIDE DEF m
  <2>2. Write(m) \/ WriteFails(m) \/ UNCHANGED <<toStick, faults>>
    BY <1>15 DEF SendManifestDisplay, m
  <2>3. toStick' \in Seq(HostMessage) /\ faults' \in Nat
    BY <1>0, <2>1, <2>2, WriteType DEF LinkTypeOK
  <2> QED BY <1>0, <1>1, <1>15, <2>3, <1>a DEF SendManifestDisplay, Disconnect, DaemonTypeOK, LinkTypeOK, sessionVars, manifestVars, Places
<1>16. CASE SendManifestNetwork
  <2> DEFINE m == HostFrame("NetworkConfig", handshake_nonce, network_config)
  <2>1. m \in HostMessage
    BY <1>0, FrameTypes DEF DaemonTypeOK, SessionKinds
  <2> HIDE DEF m
  <2>2. Write(m) \/ WriteFails(m) \/ UNCHANGED <<toStick, faults>>
    BY <1>16 DEF SendManifestNetwork, m
  <2>3. toStick' \in Seq(HostMessage) /\ faults' \in Nat
    BY <1>0, <2>1, <2>2, WriteType DEF LinkTypeOK
  <2> QED BY <1>0, <1>1, <1>16, <2>3, <1>a DEF SendManifestNetwork, Disconnect, DaemonTypeOK, LinkTypeOK, sessionVars, manifestVars, Places
<1>17. CASE UpdateDisplay
  <2> DEFINE m == HostFrame("DisplayConfig", handshake_nonce, taken)
  <2>1. m \in HostMessage
    BY <1>0, FrameTypes DEF DaemonTypeOK, SessionKinds
  <2> HIDE DEF m
  <2>2. Write(m) \/ WriteFails(m) \/ UNCHANGED <<toStick, faults>>
    BY <1>17 DEF UpdateDisplay, m
  <2>3. toStick' \in Seq(HostMessage) /\ faults' \in Nat
    BY <1>0, <2>1, <2>2, WriteType DEF LinkTypeOK
  <2> QED BY <1>0, <1>1, <1>17, <2>3, <1>a DEF UpdateDisplay, Disconnect, DaemonTypeOK, LinkTypeOK, sessionVars, manifestVars, Places
<1>18. CASE UpdateNetwork
  <2> DEFINE m == HostFrame("NetworkConfig", handshake_nonce, taken)
  <2>1. m \in HostMessage
    BY <1>0, FrameTypes DEF DaemonTypeOK, SessionKinds
  <2> HIDE DEF m
  <2>2. Write(m) \/ WriteFails(m) \/ UNCHANGED <<toStick, faults>>
    BY <1>18 DEF UpdateNetwork, m
  <2>3. toStick' \in Seq(HostMessage) /\ faults' \in Nat
    BY <1>0, <2>1, <2>2, WriteType DEF LinkTypeOK
  <2> QED BY <1>0, <1>1, <1>18, <2>3, <1>a DEF UpdateNetwork, Disconnect, DaemonTypeOK, LinkTypeOK, sessionVars, manifestVars, Places
<1>19. CASE AcceptShutdown
  <2> DEFINE m == HostFrame("ShutdownAccepted", handshake_nonce, 0)
  <2>1. m \in HostMessage
    BY <1>0, FrameTypes DEF DaemonTypeOK, SessionKinds
  <2> HIDE DEF m
  <2>2. Write(m) \/ WriteFails(m) \/ UNCHANGED <<toStick, faults>>
    BY <1>19 DEF AcceptShutdown, m
  <2>3. toStick' \in Seq(HostMessage) /\ faults' \in Nat
    BY <1>0, <2>1, <2>2, WriteType DEF LinkTypeOK
  <2> QED BY <1>0, <1>1, <1>19, <2>3, <1>a DEF AcceptShutdown, Disconnect, DaemonTypeOK, LinkTypeOK, sessionVars, manifestVars, Places
<1>20. CASE SendSnapshot
  <2> DEFINE m == [HostFrame("HealthSnapshot", handshake_nonce, taken)
                     EXCEPT !.display = display_config, !.network = network_config]
  <2>1. m \in HostMessage
    BY <1>0, FrameTypes DEF DaemonTypeOK, SessionKinds
  <2> HIDE DEF m
  <2>2. Write(m) \/ WriteFails(m)
    BY <1>20 DEF SendSnapshot, m
  <2>3. toStick' \in Seq(HostMessage) /\ faults' \in Nat
    BY <1>0, <2>1, <2>2, WriteType
  <2> QED BY <1>0, <1>1, <1>20, <2>3, <1>a DEF SendSnapshot, Disconnect, DaemonTypeOK, LinkTypeOK, sessionVars, manifestVars, Places
<1>21. CASE PrepareGuests
  <2> DEFINE m == HostFrame("PreparingGuests", handshake_nonce, 0)
  <2>1. m \in HostMessage
    BY <1>0, FrameTypes DEF DaemonTypeOK, SessionKinds, ShutdownPhase
  <2> HIDE DEF m
  <2>2. Write(m) \/ WriteFails(m) \/ UNCHANGED <<toStick, faults>>
    BY <1>21 DEF PrepareGuests, Report, m
  <2>3. toStick' \in Seq(HostMessage) /\ faults' \in Nat
    BY <1>0, <2>1, <2>2, WriteType DEF LinkTypeOK
  <2> QED BY <1>0, <1>1, <1>21, <2>3, <1>a DEF PrepareGuests, Report, poweroffUnchanged, DaemonTypeOK, LinkTypeOK, sessionVars, manifestVars, Places
<1>22. CASE CountGuests
  <2> DEFINE m == HostFrame("StoppingGuests", handshake_nonce, 0)
  <2>1. m \in HostMessage
    BY <1>0, FrameTypes DEF DaemonTypeOK, SessionKinds, ShutdownPhase
  <2> HIDE DEF m
  <2>2. Write(m) \/ WriteFails(m) \/ UNCHANGED <<toStick, faults>>
    BY <1>22 DEF CountGuests, Report, m
  <2>3. toStick' \in Seq(HostMessage) /\ faults' \in Nat
    BY <1>0, <2>1, <2>2, WriteType DEF LinkTypeOK
  <2> QED BY <1>0, <1>1, <1>22, <2>3, <1>a DEF CountGuests, Report, poweroffUnchanged, DaemonTypeOK, LinkTypeOK, sessionVars, manifestVars, Places
<1>23. CASE ReportFailure
  <2> DEFINE m == HostFrame("ShutdownFailed", handshake_nonce, 0)
  <2>1. m \in HostMessage
    BY <1>0, FrameTypes DEF DaemonTypeOK, SessionKinds, ShutdownPhase
  <2> HIDE DEF m
  <2>2. Write(m) \/ WriteFails(m) \/ UNCHANGED <<toStick, faults>>
    BY <1>23 DEF ReportFailure, Report, m
  <2>3. toStick' \in Seq(HostMessage) /\ faults' \in Nat
    BY <1>0, <2>1, <2>2, WriteType DEF LinkTypeOK
  <2> QED BY <1>0, <1>1, <1>23, <2>3, <1>a DEF ReportFailure, Report, poweroffUnchanged, DaemonTypeOK, LinkTypeOK, sessionVars, manifestVars, Places
<1>24. CASE MonitorGuests
  <2> DEFINE m == HostFrame("StoppingGuests", handshake_nonce, 0)
  <2>1. m \in HostMessage
    BY <1>0, FrameTypes DEF DaemonTypeOK, SessionKinds, ShutdownPhase
  <2> HIDE DEF m
  <2>2. Write(m) \/ WriteFails(m) \/ UNCHANGED <<toStick, faults>>
    BY <1>24 DEF MonitorGuests, Report, m
  <2>3. toStick' \in Seq(HostMessage) /\ faults' \in Nat
    BY <1>0, <2>1, <2>2, WriteType DEF LinkTypeOK
  <2> QED BY <1>0, <1>1, <1>24, <2>3, <1>a DEF MonitorGuests, Report, poweroffUnchanged, DaemonTypeOK, LinkTypeOK, sessionVars, manifestVars, Places
<1>25. CASE GuestsStopped
  <2> DEFINE m == HostFrame("GuestsStopped", handshake_nonce, 0)
  <2>1. m \in HostMessage
    BY <1>0, FrameTypes DEF DaemonTypeOK, SessionKinds, ShutdownPhase
  <2> HIDE DEF m
  <2>2. Write(m) \/ WriteFails(m) \/ UNCHANGED <<toStick, faults>>
    BY <1>25 DEF GuestsStopped, Report, m
  <2>3. toStick' \in Seq(HostMessage) /\ faults' \in Nat
    BY <1>0, <2>1, <2>2, WriteType DEF LinkTypeOK
  <2> QED BY <1>0, <1>1, <1>25, <2>3, <1>a DEF GuestsStopped, Report, poweroffUnchanged, DaemonTypeOK, LinkTypeOK, sessionVars, manifestVars, Places
<1>26. CASE FinishPoweroff
  <2> DEFINE m == HostFrame("PoweringOff", handshake_nonce, 0)
  <2>1. m \in HostMessage
    BY <1>0, FrameTypes DEF DaemonTypeOK, SessionKinds, ShutdownPhase
  <2> HIDE DEF m
  <2>2. Write(m) \/ WriteFails(m) \/ UNCHANGED <<toStick, faults>>
    BY <1>26 DEF FinishPoweroff, Report, m
  <2>3. toStick' \in Seq(HostMessage) /\ faults' \in Nat
    BY <1>0, <2>1, <2>2, WriteType DEF LinkTypeOK
  <2> QED BY <1>0, <1>1, <1>26, <2>3, <1>a DEF FinishPoweroff, Report, poweroffUnchanged, DaemonTypeOK, LinkTypeOK, sessionVars, manifestVars, Places
<1> QED BY <1>3, <1>4, <1>5, <1>6, <1>7, <1>8, <1>9, <1>10, <1>11, <1>12, <1>13, <1>14, <1>15, <1>16, <1>17, <1>18, <1>19, <1>20, <1>21, <1>22, <1>23, <1>24, <1>25, <1>26 DEF DaemonNext

\* Every stick step preserves the types.
LEMMA StickTypeStep ==
    ASSUME TypeOK, StickNext, UNCHANGED daemonVars
    PROVE  TypeOK'
<1> USE DEF TypeOK
<1>0. LinkTypeOK /\ DaemonTypeOK /\ StickTypeOK
  OBVIOUS
<1>1. DaemonTypeOK'
  BY DEF DaemonTypeOK, daemonVars, sessionVars, manifestVars
<1>2. Readable(toStick) => /\ Head(toStick) \in HostMessage
                           /\ Tail(toStick) \in Seq(HostMessage)
  BY <1>0 DEF Readable, LinkTypeOK
<1>3. \A k \in {"Hello", "ShutdownRequested"}, n \in Nat :
        /\ Enqueue(queue, DeviceFrame(k, n)) \in Seq(DeviceMessage)
        /\ Len(Enqueue(queue, DeviceFrame(k, n))) <= QueueCap
  BY <1>0, FrameTypes, EnqueueEntries DEF StickTypeOK
<1>4. \A m \in HostMessage : m.session \in Nat /\ m.pages \in Nat
  BY DEF HostMessage
<1>5. \A p, q \in Nat : q # 0 => p % q \in Nat
  OBVIOUS
<1>a. 0 \in Nat /\ 1 \in Nat
  OBVIOUS
<1>6. CASE TxPoll
  <2>1. Head(queue) \in DeviceMessage /\ Tail(queue) \in Seq(DeviceMessage)
        /\ Len(Tail(queue)) <= QueueCap
    BY <1>0, <1>6, StickAssumption DEF TxPoll, StickTypeOK
  <2>2. DeviceNoise("Garbled") \in DeviceMessage
    BY FrameTypes DEF NoiseKinds
  <2>3. toHost' \in Seq(DeviceMessage)
    BY <1>0, <1>6, <2>1, <2>2, PutFrames DEF TxPoll, PutDevice, LinkTypeOK
  <2> QED BY <1>0, <1>1, <1>6, <2>1, <2>3, Zenon DEF TxPoll, StickTypeOK, LinkTypeOK, screenVars
<1>7. CASE HelloTimer
  BY <1>0, <1>1, <1>3, <1>7, Zenon DEF HelloTimer, StickTypeOK, LinkTypeOK, screenVars
<1>8. CASE ReceiveHello
  BY <1>0, <1>1, <1>2, <1>3, <1>4, <1>8, Zenon
     DEF ReceiveHello, Receive, AdoptedSession, DaemonState, StickTypeOK, LinkTypeOK, screenVars
<1>9. CASE IgnoreFrame
  BY <1>0, <1>1, <1>2, <1>4, <1>9, Zenon DEF IgnoreFrame, Receive, StickTypeOK, LinkTypeOK, screenVars
<1>10. CASE ReceiveForeign
  BY <1>0, <1>1, <1>2, <1>4, <1>10, Zenon DEF ReceiveForeign, Receive, DaemonState, StickTypeOK, LinkTypeOK, screenVars
<1>11. CASE ReceiveSnapshot
  BY <1>0, <1>1, <1>2, <1>4, <1>11, Zenon DEF ReceiveSnapshot, Receive, DaemonState, StickTypeOK, LinkTypeOK, screenVars
<1>12. CASE ReceiveNetworkConfig
  BY <1>0, <1>1, <1>2, <1>4, <1>12, Zenon DEF ReceiveNetworkConfig, Receive, StickTypeOK, LinkTypeOK, screenVars
<1>13. CASE ReceiveFailure
  BY <1>0, <1>1, <1>2, <1>4, <1>13, Zenon DEF ReceiveFailure, Receive, DaemonState, ShutdownDisplay, StickTypeOK, LinkTypeOK, screenVars
<1>14. CASE ReceiveProgress
  <2>1. PhaseDisplay(Head(toStick).kind) \in ShutdownDisplay
    BY DEF PhaseDisplay, ShutdownDisplay
  <2> QED BY <1>0, <1>1, <1>2, <1>14, <2>1, Zenon DEF ReceiveProgress, Receive, DaemonState, StickTypeOK, LinkTypeOK, screenVars
<1>15. CASE ReceiveDisplayConfig
  <2>1. page' \in Nat
    BY <1>0, <1>2, <1>4, <1>5, <1>15 DEF ReceiveDisplayConfig, Receive, PageWithin, StickTypeOK
  <2> QED BY <1>0, <1>1, <1>2, <1>4, <1>15, <2>1, Zenon DEF ReceiveDisplayConfig, Receive, StickTypeOK, LinkTypeOK, screenVars
<1>16. CASE LinkTimeout
  BY <1>0, <1>1, <1>a, <1>16, Zenon DEF LinkTimeout, DaemonState, NoSession, StickTypeOK, LinkTypeOK, screenVars
<1>17. CASE ShutdownTimeout
  BY <1>0, <1>1, <1>17, Zenon DEF ShutdownTimeout, ShutdownDisplay, StickTypeOK, LinkTypeOK, screenVars
<1>18. CASE NextScreen
  <2>1. page' \in Nat
    BY <1>0, <1>5, <1>18 DEF NextScreen, StickTypeOK
  <2> QED BY <1>0, <1>1, <1>18, <2>1, Zenon DEF NextScreen, StickTypeOK, LinkTypeOK, screenVars
<1>19. CASE LongPress
  <2>1. presses' \in Nat
    BY <1>0, <1>19 DEF LongPress, StickTypeOK
  <2>2. queue' \in Seq(DeviceMessage) /\ Len(queue') <= QueueCap
    BY <1>0, <1>3, <1>19 DEF LongPress, StickTypeOK
  <2> QED BY <1>0, <1>1, <1>19, <2>1, <2>2, Zenon DEF LongPress, StickTypeOK, LinkTypeOK, screenVars
<1>20. CASE StickReboot
  <2>1. faults' \in Nat
    BY <1>0, <1>20 DEF StickReboot, Fault, LinkTypeOK
  <2>2. DeviceFrame("Hello", NoSession) \in DeviceMessage /\ DeviceNoise("Fragment") \in DeviceMessage
    BY FrameTypes DEF NoSession, NoiseKinds
  <2>3. queue' \in Seq(DeviceMessage) /\ Len(queue') <= QueueCap
    BY <1>20, <2>2, StickAssumption DEF StickReboot
  <2>4. toStick' \in Seq(HostMessage)
    <3>1. PICK k \in 0..Len(toStick) : toStick' = SubSeq(toStick, k + 1, Len(toStick))
      BY <1>20 DEF StickReboot
    <3> QED BY <1>0, <3>1 DEF LinkTypeOK
  <2>5. toHost' \in Seq(DeviceMessage)
    <3>1. PICK j \in 0..Len(toHost) :
            \/ toHost' = SubSeq(toHost, 1, j)
            \/ toHost' = Append(SubSeq(toHost, 1, j), DeviceNoise("Fragment"))
      BY <1>20 DEF StickReboot
    <3>2. SubSeq(toHost, 1, j) \in Seq(DeviceMessage)
      BY <1>0 DEF LinkTypeOK
    <3> QED BY <2>2, <3>1, <3>2
  <2>6. web_manifest' \in Nat
    BY <1>20, LinkAssumption DEF StickReboot
  <2> QED BY <1>0, <1>1, <1>a, <1>20, <2>1, <2>3, <2>4, <2>5, <2>6, Zenon
          DEF StickReboot, DaemonState, ShutdownDisplay, NoSession, StickTypeOK, LinkTypeOK, screenVars
<1> QED BY <1>6, <1>7, <1>8, <1>9, <1>10, <1>11, <1>12, <1>13, <1>14, <1>15, <1>16, <1>17, <1>18, <1>19, <1>20 DEF StickNext

\* So does every step of the environment.
LEMMA EnvironmentTypeStep ==
    ASSUME TypeOK, HostEnvironment, UNCHANGED stickVars
    PROVE  TypeOK'
<1> USE DEF TypeOK
<1>0. LinkTypeOK /\ DaemonTypeOK /\ StickTypeOK
  OBVIOUS
<1>1. StickTypeOK'
  BY DEF StickTypeOK, stickVars, screenVars
<1>2. \A k \in NoiseKinds : HostNoise(k) \in HostMessage
  BY FrameTypes
<1>3. CASE DaemonCrash
  <2>1. faults' \in Nat
    BY <1>0, <1>3 DEF DaemonCrash, Fault, LinkTypeOK
  <2> QED BY <1>0, <1>1, <1>3, <2>1, Zenon DEF DaemonCrash, DaemonTypeOK, LinkTypeOK, sessionVars, manifestVars
<1>4. CASE ForeignDaemon
  <2>1. faults' \in Nat
    BY <1>0, <1>4 DEF ForeignDaemon, Fault, LinkTypeOK
  <2>2. toStick' \in Seq(HostMessage)
    BY <1>0, <1>2, <1>4, PutFrames DEF ForeignDaemon, PutHost, LinkTypeOK, NoiseKinds
  <2> QED BY <1>0, <1>1, <1>4, <2>1, <2>2, Zenon DEF ForeignDaemon, daemonVars, DaemonTypeOK, LinkTypeOK, sessionVars, manifestVars
<1>5. CASE LoseFrames
  <2>1. toStick' \in Seq(HostMessage)
    <3>1. HostNoise("Fragment") \in HostMessage
      BY <1>2 DEF NoiseKinds
    <3> DEFINE kept == SubSeq(toStick, 1, Len(toStick) - 1)
    <3>2. toStick # <<>> => kept \in Seq(HostMessage)
      BY <1>0 DEF LinkTypeOK
    <3>3. \/ toStick' = toStick
          \/ toStick # <<>> /\ toStick' \in {kept, Append(kept, HostNoise("Fragment"))}
      BY <1>5 DEF LoseFrames
    <3> HIDE DEF kept
    <3> QED BY <1>0, <3>1, <3>2, <3>3 DEF LinkTypeOK
  <2>2. toHost' \in Seq(DeviceMessage)
    BY <1>0, <1>5 DEF LoseFrames, LinkTypeOK
  <2> QED BY <1>0, <1>1, <1>5, <2>1, <2>2, Zenon DEF LoseFrames, daemonVars, DaemonTypeOK, LinkTypeOK, sessionVars, manifestVars
<1>6. CASE HostOff
  BY <1>0, <1>1, <1>6, Zenon DEF HostOff, linkVars, DaemonTypeOK, LinkTypeOK, sessionVars, manifestVars
<1>7. CASE HostBoot
  BY <1>0, <1>1, <1>7, Zenon DEF HostBoot, linkVars, DaemonTypeOK, LinkTypeOK, sessionVars, manifestVars
<1> QED BY <1>3, <1>4, <1>5, <1>6, <1>7 DEF HostEnvironment

\* The initial state is well typed.
LEMMA InitType == Init => TypeOK
<1> SUFFICES ASSUME Init PROVE TypeOK
  OBVIOUS
<1>1. LinkTypeOK
  BY LinkAssumption DEF Init, LinkInit, LinkTypeOK
<1>2. DaemonTypeOK
  BY DEF Init, DaemonInit, DaemonTypeOK, Places, NoSession
<1>3. StickTypeOK
  <2>1. DeviceFrame("Hello", NoSession) \in DeviceMessage
    BY FrameTypes DEF NoSession
  <2>2. queue \in Seq(DeviceMessage) /\ Len(queue) <= QueueCap
    BY <2>1, StickAssumption DEF Init, StickInit
  <2> QED BY <2>2, StickAssumption
          DEF Init, StickInit, StickTypeOK, DaemonState, ShutdownDisplay, NoSession
<1> QED BY <1>1, <1>2, <1>3 DEF TypeOK

\* Every step preserves the types.
LEMMA TypeStep ==
    ASSUME TypeOK, [Next]_vars
    PROVE  TypeOK'
<1>1. CASE Next
  BY <1>1, DaemonTypeStep, StickTypeStep, EnvironmentTypeStep DEF Next
<1>2. CASE UNCHANGED vars
  BY <1>2 DEF vars, linkVars, daemonVars, sessionVars, manifestVars, stickVars, screenVars,
              TypeOK, LinkTypeOK, DaemonTypeOK, StickTypeOK
<1> QED BY <1>1, <1>2

\* In every behaviour of the daemon and the stick each variable keeps its type
\* and the transmit queue stays within the capacity UsbTx gives it.
THEOREM TypeCorrect == Spec => []TypeOK
<1>1. Init => TypeOK
  BY InitType
<1>2. TypeOK /\ [Next]_vars => TypeOK'
  BY TypeStep
<1> QED BY <1>1, <1>2, PTL DEF Spec

-----------------------------------------------------------------------------
(* The session protocol.  ProtocolInv is preserved by every kind of change *)
(* the actions make to the wires, the queue and the two session states;    *)
(* one lemma per kind.                                                     *)

\* The types the following lemmas need, spelled out.
LEMMA ProtocolTypes ==
    TypeOK => /\ toStick \in Seq(HostMessage) /\ toHost \in Seq(DeviceMessage)
              /\ queue \in Seq(DeviceMessage) /\ Len(queue) <= QueueCap
              /\ handshake_nonce \in Nat /\ daemon_session \in Nat
              /\ \A i \in 1..Len(toStick) : toStick[i] \in HostMessage /\ toStick[i].session \in Nat
              /\ \A i \in 1..Len(toHost) : toHost[i] \in DeviceMessage /\ toHost[i].session \in Nat
              /\ \A i \in 1..Len(queue) : queue[i] \in DeviceMessage /\ queue[i].session \in Nat
<1> SUFFICES ASSUME TypeOK
             PROVE  /\ toStick \in Seq(HostMessage) /\ toHost \in Seq(DeviceMessage)
                    /\ queue \in Seq(DeviceMessage) /\ Len(queue) <= QueueCap
                    /\ handshake_nonce \in Nat /\ daemon_session \in Nat
                    /\ \A i \in 1..Len(toStick) :
                         toStick[i] \in HostMessage /\ toStick[i].session \in Nat
                    /\ \A i \in 1..Len(toHost) :
                         toHost[i] \in DeviceMessage /\ toHost[i].session \in Nat
                    /\ \A i \in 1..Len(queue) :
                         queue[i] \in DeviceMessage /\ queue[i].session \in Nat
  OBVIOUS
<1>1. /\ toStick \in Seq(HostMessage) /\ toHost \in Seq(DeviceMessage)
      /\ queue \in Seq(DeviceMessage) /\ Len(queue) <= QueueCap
      /\ handshake_nonce \in Nat /\ daemon_session \in Nat
  BY DEF TypeOK, LinkTypeOK, DaemonTypeOK, StickTypeOK
<1>2. /\ \A m \in HostMessage : m.session \in Nat
      /\ \A m \in DeviceMessage : m.session \in Nat
  BY DEF HostMessage, DeviceMessage
<1> QED BY <1>1, <1>2

\* The frames the daemon writes: a challenge, a frame of the established
\* session, or noise.
Writable(m) ==
    /\ m \in HostMessage
    /\ \/ m.kind = "Hello" /\ m.session = handshake_nonce
       \/ m.kind \in SessionKinds /\ m.session = handshake_nonce /\ handshake_established
       \/ m.kind \in NoiseKinds /\ m.session = NoSession

\* The kinds of frames are apart.
LEMMA KindsApart ==
    /\ "Hello" \notin SessionKinds /\ "Hello" \notin NoiseKinds
    /\ \A k \in SessionKinds : k \notin NoiseKinds /\ k # "Hello" /\ k # "ShutdownRequested"
    /\ "Garbled" \in NoiseKinds /\ "Fragment" \in NoiseKinds /\ "Foreign" \in NoiseKinds
    /\ "ShutdownRequested" \notin NoiseKinds
BY DEF SessionKinds, NoiseKinds, ShutdownPhase

\* The daemon writes a frame, or part of one.
LEMMA HostWrites ==
    ASSUME TypeOK, ProtocolInv, NEW m, Writable(m), toStick' = PutHost(m),
           UNCHANGED <<toHost, queue, handshake_nonce, handshake_established,
                       daemon_session, daemon>>
    PROVE  ProtocolInv'
<1> DEFINE g == HostNoise("Garbled")
<1> DEFINE w == PutHost(m)
<1>1. g \in HostMessage /\ g.kind \in NoiseKinds /\ g.session = 0
  BY FrameTypes DEF HostNoise, HostFrame, NoSession, NoiseKinds
<1>2. toStick \in Seq(HostMessage) /\ m \in HostMessage
  BY ProtocolTypes DEF Writable
<1>3. w = Put(toStick, m, g) /\ toStick' = w
  BY DEF PutHost
<1> HIDE DEF g, w
<1>4. /\ w \in Seq(HostMessage)
      /\ Len(toStick) <= Len(w)
      /\ \A i \in 1..Len(w) : \/ i <= Len(toStick) /\ w[i] = toStick[i]
                              \/ i > Len(toStick) /\ w[i] = m
                              \/ i = Len(w) /\ w[i] = g
  <2>1. /\ Put(toStick, m, g) \in Seq(HostMessage)
        /\ Len(toStick) <= Len(Put(toStick, m, g))
        /\ \A i \in 1..Len(Put(toStick, m, g)) :
             \/ i <= Len(toStick) /\ Put(toStick, m, g)[i] = toStick[i]
             \/ i > Len(toStick) /\ Put(toStick, m, g)[i] = m
             \/ i = Len(Put(toStick, m, g)) /\ Put(toStick, m, g)[i] = g
    BY <1>1, <1>2, PutFrames
  <2> QED BY <1>3, <2>1, Zenon
<1>5. NoncesDrawn'
  BY <1>1, <1>3, <1>4, ProtocolTypes DEF ProtocolInv, NoncesDrawn, Writable, NoSession
<1>6. LiveInSession'
  BY DEF ProtocolInv, LiveInSession
<1>7. AcknowledgedSession'
  <2>1. Acknowledged' => Acknowledged
    BY DEF Acknowledged, IsAcknowledgement
  <2>2. SUFFICES ASSUME Acknowledged
                 PROVE  /\ daemon_session \in {NoSession, handshake_nonce}
                        /\ \A i \in 1..Len(w) : w[i].kind = "Hello" => w[i].session = handshake_nonce
    BY <1>3, <2>1 DEF AcknowledgedSession
  <2>3. /\ daemon_session \in {NoSession, handshake_nonce}
        /\ \A i \in 1..Len(toStick) :
             toStick[i].kind = "Hello" => toStick[i].session = handshake_nonce
    BY <2>2 DEF ProtocolInv, AcknowledgedSession
  <2>4. m.kind = "Hello" => m.session = handshake_nonce
    BY KindsApart DEF Writable
  <2> QED BY <1>1, <1>2, <1>4, <2>3, <2>4, KindsApart
<1>8. RequestsAfterAcknowledgement' /\ RequestsEstablished'
  BY DEF ProtocolInv, RequestsAfterAcknowledgement, RequestsEstablished, IsAcknowledgement, IsRequest
<1>9. FramesInOrder'
  <2>1. m.kind = "Hello" => m.session = handshake_nonce
    BY KindsApart DEF Writable
  <2>2. m.kind \in SessionKinds =>
          /\ m.session = handshake_nonce
          /\ daemon_session \in {NoSession, handshake_nonce}
          /\ \A i \in 1..Len(toStick) :
               toStick[i].kind = "Hello" => toStick[i].session = handshake_nonce
    BY KindsApart DEF Writable, ProtocolInv, AcknowledgedSession, Acknowledged
  <2>3. \A i \in 1..Len(toStick) : toStick[i].session <= handshake_nonce
    BY DEF ProtocolInv, NoncesDrawn
  <2>4. g.kind # "Hello" /\ g.kind \notin SessionKinds
    BY <1>1, KindsApart
  <2>5. m.kind \in SessionKinds => m.kind # "Hello"
    BY KindsApart
  <2>6. handshake_nonce \in Nat /\ Len(toStick) \in Nat /\ Len(w) \in Nat
        /\ \A i \in 1..Len(toStick) : toStick[i].session \in Nat
    BY <1>2, <1>4, ProtocolTypes
  <2>7. ASSUME NEW i \in 1..Len(w), NEW j \in 1..Len(w), i < j, w[i].kind = "Hello"
        PROVE  /\ w[j].kind = "Hello" => w[i].session <= w[j].session
               /\ w[j].kind \in SessionKinds => w[i].session = w[j].session
    <3>1. \/ i <= Len(toStick) /\ w[i] = toStick[i]
          \/ i > Len(toStick) /\ w[i] = m
      <4>1. i # Len(w)
        BY <2>6, <2>7
      <4> QED BY <1>4, <2>7, <4>1
    <3>2. CASE j <= Len(toStick) /\ w[j] = toStick[j]
      <4>1. i \in 1..Len(toStick) /\ j \in 1..Len(toStick) /\ w[i] = toStick[i]
        BY <2>6, <2>7, <3>1, <3>2
      <4> QED BY <4>1, <2>7, <3>2 DEF ProtocolInv, FramesInOrder
    <3>3. CASE j > Len(toStick) /\ w[j] = m
      <4>1. CASE i <= Len(toStick) /\ w[i] = toStick[i]
        BY <4>1, <2>1, <2>2, <2>3, <2>6, <2>7, <3>3
      <4>2. CASE i > Len(toStick) /\ w[i] = m
        BY <4>2, <2>1, <2>2, <2>5, <2>6, <2>7, <3>3
      <4> QED BY <3>1, <4>1, <4>2
    <3>4. CASE w[j] = g
      BY <2>4, <3>4
    <3> QED BY <1>4, <2>7, <3>2, <3>3, <3>4
  <2>8. ASSUME NEW j \in 1..Len(w), w[j].kind \in SessionKinds
        PROVE  \/ daemon_session \in {NoSession, w[j].session}
               \/ \E i \in 1..Len(w) : i < j /\ w[i].kind = "Hello"
    <3>1. CASE j <= Len(toStick) /\ w[j] = toStick[j]
      <4>1. \/ daemon_session \in {NoSession, toStick[j].session}
            \/ \E i \in 1..Len(toStick) : i < j /\ toStick[i].kind = "Hello"
        BY <2>6, <2>8, <3>1 DEF ProtocolInv, FramesInOrder
      <4>2. \A i \in 1..Len(toStick) : i < j => i \in 1..Len(w) /\ w[i] = toStick[i]
        BY <1>4, <2>6, <3>1
      <4> QED BY <3>1, <4>1, <4>2
    <3>2. CASE w[j] = m
      BY <2>2, <2>8, <3>2
    <3>3. CASE w[j] = g
      BY <2>4, <2>8, <3>3
    <3> QED BY <1>4, <2>8, <3>1, <3>2, <3>3
  <2> QED BY <1>3, <2>7, <2>8 DEF FramesInOrder
<1> QED BY <1>5, <1>6, <1>7, <1>8, <1>9 DEF ProtocolInv

\* Frames disappear from the end of the wire to the stick, the last one left
\* perhaps in pieces.
LEMMA HostTailLost ==
    ASSUME TypeOK, TypeOK', ProtocolInv,
           Len(toStick') <= Len(toStick),
           \A i \in 1..Len(toStick') :
              \/ toStick'[i] = toStick[i]
              \/ i = Len(toStick') /\ toStick'[i] = HostNoise("Fragment"),
           UNCHANGED <<toHost, queue, handshake_nonce, handshake_established,
                       daemon_session, daemon>>
    PROVE  ProtocolInv'
<1> DEFINE f == HostNoise("Fragment")
<1>1. f.kind # "Hello" /\ f.kind \notin SessionKinds /\ f.session = 0
  BY KindsApart DEF HostNoise, HostFrame, NoSession
<1> HIDE DEF f
<1>2. /\ Len(toStick) \in Nat /\ Len(toStick') \in Nat /\ handshake_nonce \in Nat
      /\ \A i \in 1..Len(toStick') :
           /\ i \in 1..Len(toStick)
           /\ \/ toStick'[i] = toStick[i]
              \/ i = Len(toStick') /\ toStick'[i] = f
  BY ProtocolTypes DEF f, TypeOK, LinkTypeOK
<1>3. NoncesDrawn'
  BY <1>1, <1>2 DEF ProtocolInv, NoncesDrawn
<1>4. LiveInSession'
  BY DEF ProtocolInv, LiveInSession
<1>5. AcknowledgedSession'
  <2>1. Acknowledged' => Acknowledged
    BY DEF Acknowledged, IsAcknowledgement
  <2> QED BY <1>1, <1>2, <2>1 DEF ProtocolInv, AcknowledgedSession
<1>6. RequestsAfterAcknowledgement' /\ RequestsEstablished'
  BY DEF ProtocolInv, RequestsAfterAcknowledgement, RequestsEstablished, IsAcknowledgement, IsRequest
<1>7. FramesInOrder'
  <2>1. \A i, j \in 1..Len(toStick') : i < j => toStick'[i] = toStick[i]
    BY <1>2
  <2>2. \A j \in 1..Len(toStick') :
          toStick'[j].kind = "Hello" \/ toStick'[j].kind \in SessionKinds
             => toStick'[j] = toStick[j]
    BY <1>1, <1>2
  <2>3. ASSUME NEW j \in 1..Len(toStick'), toStick'[j].kind \in SessionKinds
        PROVE  \/ daemon_session' \in {NoSession, toStick'[j].session}
               \/ \E i \in 1..Len(toStick') : i < j /\ toStick'[i].kind = "Hello"
    <3>1. \/ daemon_session \in {NoSession, toStick[j].session}
          \/ \E i \in 1..Len(toStick) : i < j /\ toStick[i].kind = "Hello"
      BY <1>2, <2>2, <2>3 DEF ProtocolInv, FramesInOrder
    <3>2. \A i \in 1..Len(toStick) : i < j => i \in 1..Len(toStick')
      BY <1>2
    <3> QED BY <2>1, <2>2, <2>3, <3>1, <3>2
  <2>4. ASSUME NEW i \in 1..Len(toStick'), NEW j \in 1..Len(toStick'), i < j,
               toStick'[i].kind = "Hello"
        PROVE  /\ toStick'[j].kind = "Hello" => toStick'[i].session <= toStick'[j].session
               /\ toStick'[j].kind \in SessionKinds => toStick'[i].session = toStick'[j].session
    BY <1>2, <2>1, <2>2, <2>4 DEF ProtocolInv, FramesInOrder
  <2> QED BY <2>3, <2>4 DEF FramesInOrder
<1> QED BY <1>3, <1>4, <1>5, <1>6, <1>7 DEF ProtocolInv

\* A frame leaves the front of the wire to the host.  The session becomes
\* established only on an acknowledgement of the current nonce.
LEMMA HostReads ==
    ASSUME TypeOK, ProtocolInv, toHost # <<>>, toHost' = Tail(toHost),
           \/ handshake_established' = handshake_established
           \/ handshake_established' = FALSE
           \/ IsAcknowledgement(Head(toHost)),
           UNCHANGED <<toStick, queue, handshake_nonce, daemon_session, daemon>>
    PROVE  ProtocolInv'
<1>1. /\ Len(toHost) \in Nat /\ Len(toHost) > 0 /\ Len(toHost') = Len(toHost) - 1
      /\ 1 \in 1..Len(toHost) /\ Head(toHost) = toHost[1]
      /\ \A i \in 1..Len(toHost') : i + 1 \in 1..Len(toHost) /\ toHost'[i] = toHost[i + 1]
  BY ProtocolTypes
<1>2. NoncesDrawn'
  BY <1>1 DEF ProtocolInv, NoncesDrawn
<1>3. LiveInSession'
  BY DEF ProtocolInv, LiveInSession
<1>4. AcknowledgedSession'
  <2>1. (\E i \in 1..Len(toHost') : IsAcknowledgement(toHost'[i])) => Acknowledged
    BY <1>1 DEF Acknowledged
  <2>2. IsAcknowledgement(Head(toHost)) => Acknowledged
    BY <1>1 DEF Acknowledged
  <2>3. Acknowledged' => Acknowledged
    BY <2>1, <2>2, Zenon DEF Acknowledged, IsAcknowledgement
  <2> QED BY <2>3 DEF ProtocolInv, AcknowledgedSession
<1>5. RequestsAfterAcknowledgement'
  BY <1>1 DEF ProtocolInv, RequestsAfterAcknowledgement, IsAcknowledgement, IsRequest
<1>6. RequestsEstablished'
  <2>1. CASE handshake_established
    BY <1>1, <2>1 DEF ProtocolInv, RequestsEstablished, IsRequest
  <2>2. CASE IsAcknowledgement(Head(toHost))
    <3>1. \A j \in 1..Len(toHost') : IsRequest(toHost'[j]) => toHost'[j].session = handshake_nonce
      BY <1>1, <2>2 DEF ProtocolInv, RequestsAfterAcknowledgement
    <3>2. \A j \in 1..Len(queue) : IsRequest(queue[j]) => queue[j].session = handshake_nonce
      BY <1>1, <2>2 DEF ProtocolInv, RequestsAfterAcknowledgement
    <3> QED BY <3>1, <3>2 DEF RequestsEstablished, IsRequest
  <2>3. CASE ~handshake_established /\ ~IsAcknowledgement(Head(toHost))
    BY <2>3, Zenon DEF RequestsEstablished
  <2> QED BY <2>1, <2>2, <2>3
<1>7. FramesInOrder'
  BY DEF ProtocolInv, FramesInOrder
<1> QED BY <1>2, <1>3, <1>4, <1>5, <1>6, <1>7 DEF ProtocolInv

\* Nothing the invariant speaks of changes, except that a session may end.
LEMMA SessionEnds ==
    ASSUME TypeOK, ProtocolInv,
           handshake_established' \in {handshake_established, FALSE},
           UNCHANGED <<toStick, toHost, queue, handshake_nonce, daemon_session, daemon>>
    PROVE  ProtocolInv'
<1>1. handshake_established' => handshake_established
  OBVIOUS
<1>2. NoncesDrawn' /\ LiveInSession' /\ RequestsAfterAcknowledgement' /\ FramesInOrder'
  BY DEF ProtocolInv, NoncesDrawn, LiveInSession, RequestsAfterAcknowledgement, FramesInOrder,
         IsAcknowledgement, IsRequest
<1>3. AcknowledgedSession'
  <2>1. Acknowledged' => Acknowledged
    BY <1>1, Zenon DEF Acknowledged, IsAcknowledgement
  <2> QED BY <2>1 DEF ProtocolInv, AcknowledgedSession
<1>4. RequestsEstablished'
  BY <1>1, Zenon DEF ProtocolInv, RequestsEstablished, IsRequest
<1> QED BY <1>2, <1>3, <1>4 DEF ProtocolInv

\* The port is opened: nothing anywhere carries the fresh nonce.
LEMMA FreshNonce ==
    ASSUME TypeOK, ProtocolInv, handshake_nonce' = handshake_nonce + 1,
           handshake_established' = FALSE,
           UNCHANGED <<toStick, toHost, queue, daemon_session, daemon>>
    PROVE  ProtocolInv'
<1>1. /\ handshake_nonce \in Nat /\ daemon_session \in Nat
      /\ \A i \in 1..Len(toStick) : toStick[i].session \in Nat
      /\ \A i \in 1..Len(toHost) : toHost[i].session \in Nat
      /\ \A i \in 1..Len(queue) : queue[i].session \in Nat
  BY ProtocolTypes
<1>2. /\ daemon_session # handshake_nonce + 1
      /\ \A i \in 1..Len(toHost) : toHost[i].session # handshake_nonce + 1
      /\ \A i \in 1..Len(queue) : queue[i].session # handshake_nonce + 1
  BY <1>1 DEF ProtocolInv, NoncesDrawn
<1>3. NoncesDrawn'
  BY <1>1 DEF ProtocolInv, NoncesDrawn
<1>4. LiveInSession' /\ FramesInOrder'
  BY DEF ProtocolInv, LiveInSession, FramesInOrder
<1>5. AcknowledgedSession'
  <2>1. ~Acknowledged'
    BY <1>2, Zenon DEF Acknowledged, IsAcknowledgement
  <2> QED BY <2>1 DEF AcknowledgedSession
<1>6. RequestsAfterAcknowledgement'
  BY <1>2, Zenon DEF RequestsAfterAcknowledgement, IsAcknowledgement
<1>7. RequestsEstablished'
  BY Zenon DEF RequestsEstablished
<1> QED BY <1>3, <1>4, <1>5, <1>6, <1>7 DEF ProtocolInv

\* The stick moves the front of its queue to the endpoint.
LEMMA StickTransmits ==
    ASSUME TypeOK, ProtocolInv, queue # <<>>, toHost' = PutDevice(Head(queue)),
           queue' = Tail(queue),
           UNCHANGED <<toStick, handshake_nonce, handshake_established, daemon_session, daemon>>
    PROVE  ProtocolInv'
<1> DEFINE m == Head(queue)
<1> DEFINE g == DeviceNoise("Garbled")
<1> DEFINE w == PutDevice(m)
<1>1. g \in DeviceMessage /\ g.session = 0 /\ g.kind # "Hello" /\ g.kind # "ShutdownRequested"
  BY FrameTypes DEF DeviceNoise, DeviceFrame, NoSession, NoiseKinds
<1>2. /\ toHost \in Seq(DeviceMessage) /\ m \in DeviceMessage
      /\ Len(queue) \in Nat /\ Len(queue) > 0 /\ Len(queue') = Len(queue) - 1
      /\ 1 \in 1..Len(queue) /\ m = queue[1]
      /\ \A i \in 1..Len(queue') : i + 1 \in 1..Len(queue) /\ i + 1 > 1 /\ queue'[i] = queue[i + 1]
  BY ProtocolTypes
<1>3. w = Put(toHost, m, g) /\ toHost' = w
  BY DEF PutDevice
<1> HIDE DEF m, g, w
<1>4. /\ w \in Seq(DeviceMessage)
      /\ Len(toHost) <= Len(w)
      /\ \A i \in 1..Len(w) : \/ i <= Len(toHost) /\ w[i] = toHost[i]
                              \/ i > Len(toHost) /\ w[i] = m
                              \/ i = Len(w) /\ w[i] = g
  <2>1. /\ Put(toHost, m, g) \in Seq(DeviceMessage)
        /\ Len(toHost) <= Len(Put(toHost, m, g))
        /\ \A i \in 1..Len(Put(toHost, m, g)) :
             \/ i <= Len(toHost) /\ Put(toHost, m, g)[i] = toHost[i]
             \/ i > Len(toHost) /\ Put(toHost, m, g)[i] = m
             \/ i = Len(Put(toHost, m, g)) /\ Put(toHost, m, g)[i] = g
    <3>1. toHost \in Seq(DeviceMessage) /\ m \in DeviceMessage /\ g \in DeviceMessage
      BY <1>1, <1>2
    <3> QED BY <3>1, PutFrames
  <2> QED BY <1>3, <2>1, Zenon
<1>5. /\ Len(toHost) \in Nat /\ Len(w) \in Nat /\ handshake_nonce \in Nat
      /\ \A i \in 1..Len(w) : \/ i \in 1..Len(toHost) /\ w[i] = toHost[i]
                              \/ i > Len(toHost) /\ w[i] = queue[1]
                              \/ w[i] = g
  BY <1>2, <1>4, ProtocolTypes
<1>6. NoncesDrawn'
  BY <1>1, <1>2, <1>3, <1>5 DEF ProtocolInv, NoncesDrawn
<1>7. LiveInSession' /\ FramesInOrder'
  BY DEF ProtocolInv, LiveInSession, FramesInOrder
<1>8. AcknowledgedSession'
  <2>1. (\E i \in 1..Len(w) : IsAcknowledgement(w[i])) => Acknowledged
    BY <1>1, <1>2, <1>5 DEF Acknowledged, IsAcknowledgement
  <2>2. (\E i \in 1..Len(queue') : IsAcknowledgement(queue'[i])) => Acknowledged
    BY <1>2 DEF Acknowledged
  <2>3. Acknowledged' => Acknowledged
    BY <1>3, <2>1, <2>2, Zenon DEF Acknowledged, IsAcknowledgement
  <2> QED BY <2>3 DEF ProtocolInv, AcknowledgedSession
<1>9. RequestsAfterAcknowledgement'
  <2>1. ASSUME NEW i \in 1..Len(w), NEW j \in 1..Len(w), i < j,
               IsAcknowledgement(w[i]), IsRequest(w[j])
        PROVE  w[j].session = handshake_nonce
    <3>1. ~(IsAcknowledgement(g) \/ IsRequest(g))
      BY <1>1 DEF IsAcknowledgement, IsRequest
    <3>2. CASE i \in 1..Len(toHost) /\ w[i] = toHost[i]
      <4>1. CASE j \in 1..Len(toHost) /\ w[j] = toHost[j]
        BY <2>1, <3>2, <4>1 DEF ProtocolInv, RequestsAfterAcknowledgement
      <4>2. CASE w[j] = queue[1]
        BY <1>2, <2>1, <3>2, <4>2 DEF ProtocolInv, RequestsAfterAcknowledgement
      <4> QED BY <1>5, <2>1, <3>1, <4>1, <4>2
    <3>3. CASE i > Len(toHost) /\ w[i] = queue[1]
      <4>1. w[j] = queue[1] \/ w[j] = g
        BY <1>5, <2>1, <3>3
      <4> QED BY <2>1, <3>1, <3>3, <4>1 DEF IsAcknowledgement, IsRequest
    <3> QED BY <1>5, <2>1, <3>1, <3>2, <3>3
  <2>2. ASSUME NEW i \in 1..Len(w), NEW j \in 1..Len(queue'),
               IsAcknowledgement(w[i]), IsRequest(queue'[j])
        PROVE  queue'[j].session = handshake_nonce
    <3>1. ~IsAcknowledgement(g)
      BY <1>1 DEF IsAcknowledgement
    <3>2. CASE i \in 1..Len(toHost) /\ w[i] = toHost[i]
      BY <1>2, <2>2, <3>2 DEF ProtocolInv, RequestsAfterAcknowledgement
    <3>3. CASE w[i] = queue[1]
      BY <1>2, <2>2, <3>3 DEF ProtocolInv, RequestsAfterAcknowledgement
    <3> QED BY <1>5, <2>2, <3>1, <3>2, <3>3
  <2>3. ASSUME NEW i \in 1..Len(queue'), NEW j \in 1..Len(queue'), i < j,
               IsAcknowledgement(queue'[i]), IsRequest(queue'[j])
        PROVE  queue'[j].session = handshake_nonce
    BY <1>2, <2>3 DEF ProtocolInv, RequestsAfterAcknowledgement
  <2> QED BY <1>3, <2>1, <2>2, <2>3 DEF RequestsAfterAcknowledgement, IsAcknowledgement, IsRequest
<1>10. RequestsEstablished'
  <2>1. SUFFICES ASSUME handshake_established
                 PROVE  /\ \A i \in 1..Len(w) : IsRequest(w[i]) => w[i].session = handshake_nonce
                        /\ \A i \in 1..Len(queue') :
                             IsRequest(queue'[i]) => queue'[i].session = handshake_nonce
    BY <1>3 DEF RequestsEstablished, IsRequest
  <2>2. ~IsRequest(g)
    BY <1>1 DEF IsRequest
  <2> QED BY <1>2, <1>5, <2>1, <2>2 DEF ProtocolInv, RequestsEstablished
<1> QED BY <1>6, <1>7, <1>8, <1>9, <1>10 DEF ProtocolInv

\* The stick's queue gets a new entry: what that does to the parts of the
\* invariant about the lane from the stick to the daemon.
LEMMA StickEnqueues ==
    ASSUME TypeOK, ProtocolInv, NEW m \in DeviceMessage, m.session <= handshake_nonce,
           IsRequest(m) /\ Acknowledged => m.session = handshake_nonce,
           queue' = Enqueue(queue, m),
           UNCHANGED <<toHost, handshake_nonce, handshake_established>>
    PROVE  /\ \A i \in 1..Len(queue') : queue'[i].session <= handshake_nonce
           /\ \A i \in 1..Len(queue') :
                IsAcknowledgement(queue'[i]) => Acknowledged \/ IsAcknowledgement(m)
           /\ RequestsAfterAcknowledgement'
           /\ RequestsEstablished'
<1> DEFINE e == Enqueue(queue, m)
<1>1. /\ queue \in Seq(DeviceMessage) /\ Len(queue) \in Nat /\ handshake_nonce \in Nat
      /\ Len(queue) <= QueueCap
  BY ProtocolTypes
<1>2. /\ e \in Seq(DeviceMessage)
      /\ \E d \in {0, 1} : \A i \in 1..Len(e) :
           \/ i + d <= Len(queue) /\ e[i] = queue[i + d]
           \/ i + d = Len(queue) + 1 /\ e[i] = m
  <2>1. queue \in Seq(DeviceMessage) /\ m \in DeviceMessage /\ Len(queue) <= QueueCap
    BY <1>1
  <2>2. /\ Enqueue(queue, m) \in Seq(DeviceMessage)
        /\ \E d \in {0, 1} : \A i \in 1..Len(Enqueue(queue, m)) :
             \/ i + d <= Len(queue) /\ Enqueue(queue, m)[i] = queue[i + d]
             \/ i + d = Len(queue) + 1 /\ Enqueue(queue, m)[i] = m
    BY <2>1, EnqueueEntries
  <2> QED BY <2>2, Zenon
<1>3. e = queue'
  OBVIOUS
<1> HIDE DEF e
<1>4. PICK d \in {0, 1} : \A i \in 1..Len(e) :
           \/ i + d <= Len(queue) /\ e[i] = queue[i + d]
           \/ i + d = Len(queue) + 1 /\ e[i] = m
  BY <1>2
<1>5. /\ Len(e) \in Nat
      /\ \A i \in 1..Len(e) : \/ i + d \in 1..Len(queue) /\ e[i] = queue[i + d]
                              \/ i + d = Len(queue) + 1 /\ e[i] = m
  BY <1>1, <1>2, <1>4
<1>6. \A i \in 1..Len(e) : e[i].session <= handshake_nonce
  BY <1>5 DEF ProtocolInv, NoncesDrawn
<1>7. \A i \in 1..Len(e) : IsAcknowledgement(e[i]) => Acknowledged \/ IsAcknowledgement(m)
  BY <1>5 DEF Acknowledged
<1>8. ASSUME NEW i \in 1..Len(toHost), NEW j \in 1..Len(e),
             IsAcknowledgement(toHost[i]), IsRequest(e[j])
      PROVE  e[j].session = handshake_nonce
  <2>1. Acknowledged
    BY <1>8 DEF Acknowledged
  <2>2. CASE j + d \in 1..Len(queue) /\ e[j] = queue[j + d]
    BY <1>8, <2>2 DEF ProtocolInv, RequestsAfterAcknowledgement
  <2>3. CASE e[j] = m
    BY <1>8, <2>1, <2>3
  <2> QED BY <1>5, <2>2, <2>3
<1>9. ASSUME NEW i \in 1..Len(e), NEW j \in 1..Len(e), i < j,
             IsAcknowledgement(e[i]), IsRequest(e[j])
      PROVE  e[j].session = handshake_nonce
  <2>1. i + d \in 1..Len(queue) /\ e[i] = queue[i + d] /\ i + d < j + d
    BY <1>1, <1>5, <1>9
  <2>2. Acknowledged
    BY <1>9, <2>1 DEF Acknowledged
  <2>3. CASE j + d \in 1..Len(queue) /\ e[j] = queue[j + d]
    BY <1>9, <2>1, <2>3 DEF ProtocolInv, RequestsAfterAcknowledgement
  <2>4. CASE e[j] = m
    BY <1>9, <2>2, <2>4
  <2> QED BY <1>5, <2>3, <2>4
<1>10. RequestsAfterAcknowledgement'
  <2>1. \A i, j \in 1..Len(toHost) :
          i < j /\ IsAcknowledgement(toHost[i]) /\ IsRequest(toHost[j])
             => toHost[j].session = handshake_nonce
    BY DEF ProtocolInv, RequestsAfterAcknowledgement
  <2> QED BY <1>3, <1>8, <1>9, <2>1
          DEF RequestsAfterAcknowledgement, IsAcknowledgement, IsRequest
<1>11. RequestsEstablished'
  <2>1. SUFFICES ASSUME handshake_established
                 PROVE  /\ \A i \in 1..Len(toHost) :
                             IsRequest(toHost[i]) => toHost[i].session = handshake_nonce
                        /\ \A i \in 1..Len(e) : IsRequest(e[i]) => e[i].session = handshake_nonce
    BY <1>3 DEF RequestsEstablished, IsRequest
  <2>2. Acknowledged
    BY <2>1 DEF Acknowledged
  <2> QED BY <1>5, <2>1, <2>2 DEF ProtocolInv, RequestsEstablished
<1> QED BY <1>3, <1>6, <1>7, <1>10, <1>11

\* A frame leaves the front of the wire to the stick, which takes over the
\* session of a challenge.
LEMMA StickReceives ==
    ASSUME TypeOK, ProtocolInv, toStick # <<>>, toStick' = Tail(toStick),
           daemon_session' = IF Head(toStick).kind = "Hello" THEN Head(toStick).session
                             ELSE daemon_session,
           UNCHANGED handshake_nonce
    PROVE  /\ \A i \in 1..Len(toStick') : toStick'[i].session <= handshake_nonce
           /\ daemon_session' <= handshake_nonce
           /\ FramesInOrder'
<1>1. /\ Len(toStick) \in Nat /\ Len(toStick) > 0 /\ Len(toStick') = Len(toStick) - 1
      /\ 1 \in 1..Len(toStick) /\ Head(toStick) = toStick[1]
      /\ \A i \in 1..Len(toStick') :
           /\ i + 1 \in 1..Len(toStick) /\ i + 1 > 1
           /\ toStick'[i] = toStick[i + 1]
  BY ProtocolTypes
<1>2. \A i \in 1..Len(toStick') : toStick'[i].session <= handshake_nonce
  BY <1>1 DEF ProtocolInv, NoncesDrawn
<1>3. daemon_session' <= handshake_nonce
  BY <1>1 DEF ProtocolInv, NoncesDrawn
<1>4. ASSUME NEW i \in 1..Len(toStick'), NEW j \in 1..Len(toStick'), i < j,
             toStick'[i].kind = "Hello"
      PROVE  /\ toStick'[j].kind = "Hello" => toStick'[i].session <= toStick'[j].session
             /\ toStick'[j].kind \in SessionKinds => toStick'[i].session = toStick'[j].session
  BY <1>1, <1>4 DEF ProtocolInv, FramesInOrder
<1>5. ASSUME NEW j \in 1..Len(toStick'), toStick'[j].kind \in SessionKinds
      PROVE  \/ daemon_session' \in {NoSession, toStick'[j].session}
             \/ \E i \in 1..Len(toStick') : i < j /\ toStick'[i].kind = "Hello"
  <2>1. CASE Head(toStick).kind = "Hello"
    <3>1. toStick[1].session = toStick[j + 1].session
      BY <1>1, <1>5, <2>1 DEF ProtocolInv, FramesInOrder
    <3> QED BY <1>1, <2>1, <3>1
  <2>2. CASE Head(toStick).kind # "Hello"
    <3>1. \/ daemon_session \in {NoSession, toStick[j + 1].session}
          \/ \E i \in 1..Len(toStick) : i < j + 1 /\ toStick[i].kind = "Hello"
      BY <1>1, <1>5 DEF ProtocolInv, FramesInOrder
    <3>2. ASSUME NEW i \in 1..Len(toStick), i < j + 1, toStick[i].kind = "Hello"
          PROVE  i - 1 \in 1..Len(toStick') /\ i - 1 < j /\ toStick'[i - 1].kind = "Hello"
      <4>1. i - 1 \in 1..Len(toStick')
        BY <1>1, <2>2, <3>2
      <4>2. toStick'[i - 1] = toStick[(i - 1) + 1] /\ (i - 1) + 1 = i
        BY <1>1, <4>1
      <4> QED BY <3>2, <4>1, <4>2
    <3> QED BY <1>1, <2>2, <3>1, <3>2
  <2> QED BY <2>1, <2>2
<1>6. FramesInOrder'
  BY <1>4, <1>5 DEF FramesInOrder
<1> QED BY <1>2, <1>3, <1>6

\* The stick resets: it forgets the session, its queue and part of both wires.
LEMMA StickResets ==
    ASSUME TypeOK, TypeOK', ProtocolInv, StickReboot,
           UNCHANGED <<handshake_nonce, handshake_established>>
    PROVE  ProtocolInv'
<1> DEFINE f == DeviceNoise("Fragment")
<1>1. f \in DeviceMessage /\ f.session = 0 /\ f.kind # "Hello" /\ f.kind # "ShutdownRequested"
  BY FrameTypes DEF DeviceNoise, DeviceFrame, NoSession, NoiseKinds
<1>2. /\ daemon' = "Waiting" /\ daemon_session' = NoSession /\ Len(queue') = 1
      /\ queue'[1].kind = "Hello" /\ queue'[1].session = 0
  BY DEF StickReboot, DeviceFrame, NoSession
<1>3. /\ toStick \in Seq(HostMessage) /\ toHost \in Seq(DeviceMessage)
      /\ Len(toStick) \in Nat /\ Len(toHost) \in Nat /\ handshake_nonce \in Nat
      /\ daemon_session \in Nat
  BY ProtocolTypes
<1>4. PICK k \in 0..Len(toStick) : toStick' = SubSeq(toStick, k + 1, Len(toStick))
  BY DEF StickReboot
<1>5. /\ Len(toStick') = Len(toStick) - k
      /\ \A i \in 1..Len(toStick') : i + k \in 1..Len(toStick) /\ toStick'[i] = toStick[i + k]
  BY <1>3, <1>4
<1>6. PICK n \in 0..Len(toHost) :
        \/ toHost' = SubSeq(toHost, 1, n)
        \/ n < Len(toHost) /\ toHost' = Append(SubSeq(toHost, 1, n), f)
  BY DEF StickReboot
<1> HIDE DEF f
<1>7. \A i \in 1..Len(toHost') : \/ i \in 1..Len(toHost) /\ toHost'[i] = toHost[i]
                                 \/ toHost'[i] = f
  <2>1. CASE toHost' = SubSeq(toHost, 1, n)
    BY <1>3, <2>1
  <2>2. CASE toHost' = Append(SubSeq(toHost, 1, n), f)
    <3>1. /\ SubSeq(toHost, 1, n) \in Seq(DeviceMessage)
          /\ Len(SubSeq(toHost, 1, n)) = n
          /\ \A i \in 1..n : i \in 1..Len(toHost) /\ SubSeq(toHost, 1, n)[i] = toHost[i]
      BY <1>3
    <3>2. /\ Len(toHost') = n + 1
          /\ \A i \in 1..n : toHost'[i] = SubSeq(toHost, 1, n)[i]
          /\ toHost'[n + 1] = f
      BY <1>1, <2>2, <3>1
    <3> QED BY <3>1, <3>2
  <2> QED BY <1>6, <2>1, <2>2
<1>8. NoncesDrawn'
  <2>1. \A i \in 1..Len(toStick') : toStick'[i].session <= handshake_nonce
    BY <1>5 DEF ProtocolInv, NoncesDrawn
  <2>2. \A i \in 1..Len(toHost') : toHost'[i].session <= handshake_nonce
    BY <1>1, <1>3, <1>7 DEF ProtocolInv, NoncesDrawn
  <2>3. \A i \in 1..Len(queue') : queue'[i].session <= handshake_nonce
    BY <1>2, <1>3
  <2> QED BY <1>2, <1>3, <2>1, <2>2, <2>3 DEF NoncesDrawn, NoSession
<1>9. LiveInSession'
  BY <1>2 DEF LiveInSession
<1>10. ~IsRequest(f) /\ ~IsAcknowledgement(f) /\ ~IsRequest(queue'[1])
  BY <1>1, <1>2 DEF IsRequest, IsAcknowledgement
<1>11. AcknowledgedSession'
  <2>1. handshake_nonce = NoSession => Acknowledged
    BY <1>3 DEF ProtocolInv, NoncesDrawn, Acknowledged, NoSession
  <2>2. (\E i \in 1..Len(toHost') : IsAcknowledgement(toHost'[i])) => Acknowledged
    BY <1>7, <1>10 DEF Acknowledged
  <2>3. (\E i \in 1..Len(queue') : IsAcknowledgement(queue'[i])) => handshake_nonce = NoSession
    BY <1>2 DEF IsAcknowledgement, NoSession
  <2>4. Acknowledged' => Acknowledged
    BY <1>2, <2>1, <2>2, <2>3, Zenon DEF Acknowledged, IsAcknowledgement
  <2> QED BY <1>2, <1>5, <2>4 DEF ProtocolInv, AcknowledgedSession
<1>12. RequestsAfterAcknowledgement'
  <2>1. \A j \in 1..Len(queue') : ~IsRequest(queue'[j])
    BY <1>2, <1>10
  <2>2. \A i, j \in 1..Len(toHost') :
          i < j /\ IsAcknowledgement(toHost'[i]) /\ IsRequest(toHost'[j])
             => toHost'[j].session = handshake_nonce
    BY <1>7, <1>10 DEF ProtocolInv, RequestsAfterAcknowledgement
  <2> QED BY <2>1, <2>2 DEF RequestsAfterAcknowledgement, IsAcknowledgement, IsRequest
<1>13. RequestsEstablished'
  <2>1. \A j \in 1..Len(queue') : ~IsRequest(queue'[j])
    BY <1>2, <1>10
  <2>2. handshake_established => \A i \in 1..Len(toHost') :
          IsRequest(toHost'[i]) => toHost'[i].session = handshake_nonce
    BY <1>7, <1>10 DEF ProtocolInv, RequestsEstablished
  <2> QED BY <2>1, <2>2 DEF RequestsEstablished, IsRequest
<1>14. FramesInOrder'
  <2>1. ASSUME NEW i \in 1..Len(toStick'), NEW j \in 1..Len(toStick'), i < j,
               toStick'[i].kind = "Hello"
        PROVE  /\ toStick'[j].kind = "Hello" => toStick'[i].session <= toStick'[j].session
               /\ toStick'[j].kind \in SessionKinds => toStick'[i].session = toStick'[j].session
    <3>1. /\ i + k \in 1..Len(toStick) /\ toStick'[i] = toStick[i + k]
          /\ j + k \in 1..Len(toStick) /\ toStick'[j] = toStick[j + k]
          /\ i + k < j + k
      BY <1>3, <1>4, <1>5, <2>1
    <3> QED BY <2>1, <3>1 DEF ProtocolInv, FramesInOrder
  <2> QED BY <1>2, <2>1 DEF FramesInOrder
<1> QED BY <1>8, <1>9, <1>11, <1>12, <1>13, <1>14 DEF ProtocolInv

\* Every stick step preserves the protocol invariant.
LEMMA StickProtocolStep ==
    ASSUME TypeOK, TypeOK', ProtocolInv, StickNext, UNCHANGED daemonVars
    PROVE  ProtocolInv'
<1>1. UNCHANGED <<handshake_nonce, handshake_established>>
  BY DEF daemonVars, sessionVars
<1>2. /\ toStick \in Seq(HostMessage) /\ handshake_nonce \in Nat /\ daemon_session \in Nat
      /\ \A i \in 1..Len(toStick) : toStick[i] \in HostMessage /\ toStick[i].session \in Nat
  BY ProtocolTypes
<1>3. toStick # <<>> => Len(toStick) \in Nat /\ 1 \in 1..Len(toStick) /\ Head(toStick) = toStick[1]
  BY <1>2
<1>4. CASE TxPoll
  BY <1>1, <1>4, StickTransmits DEF TxPoll
<1>5. CASE HelloTimer
  <2> DEFINE m == DeviceFrame("Hello", daemon_session)
  <2>1. m \in DeviceMessage /\ m.kind = "Hello" /\ m.session = daemon_session
    BY <1>2, FrameTypes DEF DeviceFrame
  <2>2. queue' = Enqueue(queue, m) /\ UNCHANGED <<toStick, toHost, daemon_session, daemon>>
    BY <1>5 DEF HelloTimer
  <2> HIDE DEF m
  <2>3. m.session <= handshake_nonce /\ ~IsRequest(m)
    BY <2>1 DEF ProtocolInv, NoncesDrawn, IsRequest
  <2>4. /\ \A i \in 1..Len(queue') : queue'[i].session <= handshake_nonce
        /\ \A i \in 1..Len(queue') :
             IsAcknowledgement(queue'[i]) => Acknowledged \/ IsAcknowledgement(m)
        /\ RequestsAfterAcknowledgement'
        /\ RequestsEstablished'
    BY <1>1, <2>1, <2>2, <2>3, StickEnqueues
  <2>5. IsAcknowledgement(m) => Acknowledged
    BY <2>1 DEF IsAcknowledgement, Acknowledged
  <2>6. Acknowledged' => Acknowledged
    BY <1>1, <2>2, <2>4, <2>5, Zenon DEF Acknowledged, IsAcknowledgement
  <2>7. AcknowledgedSession'
    BY <1>1, <2>2, <2>6 DEF ProtocolInv, AcknowledgedSession
  <2>8. NoncesDrawn' /\ LiveInSession' /\ FramesInOrder'
    BY <1>1, <2>2, <2>4 DEF ProtocolInv, NoncesDrawn, LiveInSession, FramesInOrder
  <2> QED BY <2>4, <2>7, <2>8 DEF ProtocolInv
<1>6. CASE ReceiveHello
  <2> DEFINE m == DeviceFrame("Hello", Head(toStick).session)
  <2>1. /\ toStick # <<>> /\ Head(toStick).kind = "Hello" /\ toStick' = Tail(toStick)
        /\ daemon' = "Waiting" /\ daemon_session' = Head(toStick).session
        /\ queue' = Enqueue(queue, m) /\ UNCHANGED toHost
    BY <1>6 DEF ReceiveHello, Receive, Readable, AdoptedSession
  <2>2. m \in DeviceMessage /\ m.kind = "Hello" /\ m.session = Head(toStick).session
    BY <1>2, <1>3, <2>1, FrameTypes DEF DeviceFrame
  <2> HIDE DEF m
  <2>3. m.session <= handshake_nonce /\ ~IsRequest(m)
    BY <1>3, <2>1, <2>2 DEF ProtocolInv, NoncesDrawn, IsRequest
  <2>4. /\ \A i \in 1..Len(queue') : queue'[i].session <= handshake_nonce
        /\ \A i \in 1..Len(queue') :
             IsAcknowledgement(queue'[i]) => Acknowledged \/ IsAcknowledgement(m)
        /\ RequestsAfterAcknowledgement'
        /\ RequestsEstablished'
    BY <1>1, <2>1, <2>2, <2>3, StickEnqueues
  <2>5. /\ \A i \in 1..Len(toStick') : toStick'[i].session <= handshake_nonce
        /\ daemon_session' <= handshake_nonce
        /\ FramesInOrder'
    BY <1>1, <2>1, StickReceives
  <2>6. \A i \in 1..Len(toStick') : i + 1 \in 1..Len(toStick) /\ toStick'[i] = toStick[i + 1]
    BY <1>2, <2>1
  <2>7. AcknowledgedSession'
    <3>1. CASE Acknowledged
      <4>1. \A i \in 1..Len(toStick) :
              toStick[i].kind = "Hello" => toStick[i].session = handshake_nonce
        BY <3>1 DEF ProtocolInv, AcknowledgedSession
      <4> QED BY <1>1, <1>3, <2>1, <2>6, <4>1 DEF AcknowledgedSession
    <3>2. CASE Head(toStick).session = handshake_nonce
      <4>1. \A i \in 1..Len(toStick') :
              toStick'[i].kind = "Hello" => toStick[1].session <= toStick'[i].session
        BY <1>3, <2>1, <2>6 DEF ProtocolInv, FramesInOrder
      <4>2. \A i \in 1..Len(toStick') :
              toStick'[i].kind = "Hello" => toStick'[i].session = handshake_nonce
        BY <1>2, <1>3, <2>1, <2>5, <2>6, <3>2, <4>1
      <4> QED BY <1>1, <2>1, <3>2, <4>2 DEF AcknowledgedSession
    <3>3. CASE ~Acknowledged /\ Head(toStick).session # handshake_nonce
      <4>1. ~IsAcknowledgement(m)
        BY <2>2, <3>3 DEF IsAcknowledgement
      <4>2. ~Acknowledged'
        BY <1>1, <2>1, <2>4, <3>3, <4>1, Zenon DEF Acknowledged, IsAcknowledgement
      <4> QED BY <4>2 DEF AcknowledgedSession
    <3> QED BY <3>1, <3>2, <3>3
  <2>8. NoncesDrawn' /\ LiveInSession'
    BY <1>1, <2>1, <2>4, <2>5 DEF ProtocolInv, NoncesDrawn, LiveInSession
  <2> QED BY <2>4, <2>5, <2>7, <2>8 DEF ProtocolInv
<1>7. CASE \/ IgnoreFrame \/ ReceiveForeign \/ ReceiveSnapshot \/ ReceiveDisplayConfig
           \/ ReceiveNetworkConfig \/ ReceiveProgress \/ ReceiveFailure
  <2>1. /\ toStick # <<>> /\ Head(toStick).kind # "Hello" /\ toStick' = Tail(toStick)
        /\ UNCHANGED <<toHost, queue, daemon_session>>
    BY <1>7, KindsApart
       DEF IgnoreFrame, ReceiveForeign, ReceiveSnapshot, ReceiveDisplayConfig,
           ReceiveNetworkConfig, ReceiveProgress, ReceiveFailure, Receive, Readable,
           SessionKinds, ShutdownPhase
  <2>2. daemon' = daemon \/ daemon' = "Incompatible" \/ daemon_session # NoSession
    BY <1>7 DEF IgnoreFrame, ReceiveForeign, ReceiveSnapshot, ReceiveDisplayConfig,
                ReceiveNetworkConfig, ReceiveProgress, ReceiveFailure, InSession
  <2>3. /\ \A i \in 1..Len(toStick') : toStick'[i].session <= handshake_nonce
        /\ FramesInOrder'
    BY <1>1, <2>1, StickReceives
  <2>4. NoncesDrawn' /\ LiveInSession'
    BY <1>1, <2>1, <2>2, <2>3 DEF ProtocolInv, NoncesDrawn, LiveInSession
  <2>5. AcknowledgedSession'
    <3>1. Acknowledged' => Acknowledged
      BY <1>1, <2>1 DEF Acknowledged, IsAcknowledgement
    <3>2. \A i \in 1..Len(toStick') : i + 1 \in 1..Len(toStick) /\ toStick'[i] = toStick[i + 1]
      BY <1>2, <2>1
    <3> QED BY <1>1, <2>1, <3>1, <3>2 DEF ProtocolInv, AcknowledgedSession
  <2>6. RequestsAfterAcknowledgement' /\ RequestsEstablished'
    BY <1>1, <2>1 DEF ProtocolInv, RequestsAfterAcknowledgement, RequestsEstablished,
                      IsAcknowledgement, IsRequest
  <2> QED BY <2>3, <2>4, <2>5, <2>6 DEF ProtocolInv
<1>8. CASE LinkTimeout
  <2>1. /\ daemon' = "Stale" /\ daemon_session' = NoSession
        /\ UNCHANGED <<toStick, toHost, queue>>
    BY <1>8 DEF LinkTimeout
  <2>2. handshake_nonce = NoSession => Acknowledged
    BY <1>2 DEF ProtocolInv, NoncesDrawn, Acknowledged, NoSession
  <2>3. Acknowledged' => Acknowledged
    BY <1>1, <2>1, <2>2, Zenon DEF Acknowledged, IsAcknowledgement
  <2>4. AcknowledgedSession'
    BY <1>1, <2>1, <2>3 DEF ProtocolInv, AcknowledgedSession
  <2>5. NoncesDrawn' /\ LiveInSession'
    BY <1>1, <1>2, <2>1 DEF ProtocolInv, NoncesDrawn, LiveInSession, NoSession
  <2>6. RequestsAfterAcknowledgement' /\ RequestsEstablished' /\ FramesInOrder'
    BY <1>1, <2>1 DEF ProtocolInv, RequestsAfterAcknowledgement, RequestsEstablished,
                      FramesInOrder, IsAcknowledgement, IsRequest
  <2> QED BY <2>4, <2>5, <2>6 DEF ProtocolInv
<1>9. CASE LongPress /\ daemon = "Connected"
  <2> DEFINE m == DeviceFrame("ShutdownRequested", daemon_session)
  <2>1. m \in DeviceMessage /\ m.kind = "ShutdownRequested" /\ m.session = daemon_session
    BY <1>2, FrameTypes DEF DeviceFrame
  <2>2. queue' = Enqueue(queue, m) /\ UNCHANGED <<toStick, toHost, daemon_session, daemon>>
    BY <1>9 DEF LongPress
  <2> HIDE DEF m
  <2>3. /\ m.session <= handshake_nonce /\ ~IsAcknowledgement(m)
        /\ Acknowledged => m.session = handshake_nonce
    BY <1>9, <2>1 DEF ProtocolInv, NoncesDrawn, IsAcknowledgement, LiveInSession,
                      AcknowledgedSession
  <2>4. /\ \A i \in 1..Len(queue') : queue'[i].session <= handshake_nonce
        /\ \A i \in 1..Len(queue') :
             IsAcknowledgement(queue'[i]) => Acknowledged \/ IsAcknowledgement(m)
        /\ RequestsAfterAcknowledgement'
        /\ RequestsEstablished'
    BY <1>1, <2>1, <2>2, <2>3, StickEnqueues
  <2>5. Acknowledged' => Acknowledged
    BY <1>1, <2>2, <2>3, <2>4, Zenon DEF Acknowledged, IsAcknowledgement
  <2>6. AcknowledgedSession'
    BY <1>1, <2>2, <2>5 DEF ProtocolInv, AcknowledgedSession
  <2>7. NoncesDrawn' /\ LiveInSession' /\ FramesInOrder'
    BY <1>1, <2>2, <2>4 DEF ProtocolInv, NoncesDrawn, LiveInSession, FramesInOrder
  <2> QED BY <2>4, <2>6, <2>7 DEF ProtocolInv
<1>10. CASE StickReboot
  BY <1>1, <1>10, StickResets
<1>11. CASE ShutdownTimeout \/ NextScreen \/ (LongPress /\ daemon # "Connected")
  <2>1. UNCHANGED <<toStick, toHost, queue, handshake_nonce, handshake_established,
                    daemon_session, daemon>>
    BY <1>1, <1>11 DEF ShutdownTimeout, NextScreen, LongPress
  <2> QED BY <2>1, SessionEnds
<1> QED BY <1>4, <1>5, <1>6, <1>7, <1>8, <1>9, <1>10, <1>11 DEF StickNext

\* A write by the daemon, completed, failed or not attempted.
LEMMA DaemonWrites ==
    ASSUME TypeOK, ProtocolInv, NEW m, Writable(m),
           Write(m) \/ WriteFails(m) \/ UNCHANGED toStick,
           UNCHANGED <<toHost, handshake_nonce, handshake_established, stickVars>>
    PROVE  ProtocolInv'
<1> DEFINE f == HostNoise("Fragment")
<1>1. Writable(f)
  BY FrameTypes, KindsApart DEF Writable, HostNoise, HostFrame
<1>2. UNCHANGED <<queue, daemon_session, daemon>>
  BY DEF stickVars
<1> HIDE DEF f
<1>3. toStick' = PutHost(m) \/ toStick' = toStick \/ toStick' = PutHost(f)
  BY DEF Write, WriteFails, f
<1>4. CASE toStick' = PutHost(m)
  BY <1>2, <1>4, HostWrites
<1>5. CASE toStick' = PutHost(f)
  BY <1>1, <1>2, <1>5, HostWrites
<1>6. CASE toStick' = toStick
  BY <1>2, <1>6, SessionEnds
<1> QED BY <1>3, <1>4, <1>5, <1>6

\* What the daemon builds in an established session is a frame of that session.
LEMMA SessionFrames ==
    ASSUME TypeOK
    PROVE  /\ Writable(HostFrame("Hello", handshake_nonce, 0))
           /\ handshake_established =>
                /\ \A k \in SessionKinds, p \in Nat : Writable(HostFrame(k, handshake_nonce, p))
                /\ \A p, d, n \in Nat :
                     Writable([HostFrame("HealthSnapshot", handshake_nonce, p)
                                 EXCEPT !.display = d, !.network = n])
<1>1. handshake_nonce \in Nat
  BY ProtocolTypes
<1> QED BY <1>1, FrameTypes DEF Writable, HostFrame, SessionKinds

\* Every daemon step preserves the protocol invariant.
LEMMA DaemonProtocolStep ==
    ASSUME TypeOK, BlockInSession, ProtocolInv, DaemonNext, UNCHANGED stickVars
    PROVE  ProtocolInv'
<1>1. UNCHANGED <<queue, daemon_session, daemon>>
  BY DEF stickVars
<1>2. display_config \in Nat /\ network_config \in Nat /\ taken \in Nat /\ 0 \in Nat
  BY DEF TypeOK, DaemonTypeOK
<1>3. at # "loop" => handshake_established
  BY DEF BlockInSession
<1>4. CASE SendHello
  <2> DEFINE m == HostFrame("Hello", handshake_nonce, 0)
  <2>1. Write(m) \/ WriteFails(m)
    BY <1>4 DEF SendHello
  <2>2. UNCHANGED <<toHost, handshake_nonce, handshake_established>>
    BY <1>4 DEF SendHello, sessionVars
  <2>3. Writable(m)
    BY SessionFrames
  <2> QED BY <2>1, <2>2, <2>3, DaemonWrites
<1>5. CASE \/ SendManifestDisplay \/ SendManifestNetwork \/ UpdateDisplay \/ UpdateNetwork
           \/ SendSnapshot \/ AcceptShutdown \/ PrepareGuests \/ CountGuests \/ ReportFailure
           \/ MonitorGuests \/ GuestsStopped \/ FinishPoweroff
  <2>1. UNCHANGED <<toHost, handshake_nonce, handshake_established>>
    BY <1>5 DEF SendManifestDisplay, SendManifestNetwork, UpdateDisplay, UpdateNetwork,
                SendSnapshot, AcceptShutdown, PrepareGuests, CountGuests, ReportFailure,
                MonitorGuests, GuestsStopped, FinishPoweroff, poweroffUnchanged, sessionVars
  <2>2. handshake_established
    BY <1>3, <1>5
       DEF SendManifestDisplay, SendManifestNetwork, UpdateDisplay, UpdateNetwork,
           SendSnapshot, AcceptShutdown, PrepareGuests, CountGuests, ReportFailure,
           MonitorGuests, GuestsStopped, FinishPoweroff, Running
  <2>3. /\ \A k \in SessionKinds, p \in Nat : Writable(HostFrame(k, handshake_nonce, p))
        /\ Writable([HostFrame("HealthSnapshot", handshake_nonce, taken)
                       EXCEPT !.display = display_config, !.network = network_config])
    BY <1>2, <2>2, SessionFrames
  <2>4. ASSUME NEW m, Writable(m), Write(m) \/ WriteFails(m) \/ UNCHANGED toStick
        PROVE  ProtocolInv'
    BY <2>1, <2>4, DaemonWrites
  <2>5. CASE SendManifestDisplay
    <3>1. Writable(HostFrame("DisplayConfig", handshake_nonce, display_config))
      BY <1>2, <2>3 DEF SessionKinds
    <3> QED BY <2>4, <2>5, <3>1 DEF SendManifestDisplay
  <2>6. CASE SendManifestNetwork
    <3>1. Writable(HostFrame("NetworkConfig", handshake_nonce, network_config))
      BY <1>2, <2>3 DEF SessionKinds
    <3> QED BY <2>4, <2>6, <3>1 DEF SendManifestNetwork
  <2>7. CASE UpdateDisplay
    <3>1. Writable(HostFrame("DisplayConfig", handshake_nonce, taken))
      BY <1>2, <2>3 DEF SessionKinds
    <3> QED BY <2>4, <2>7, <3>1 DEF UpdateDisplay
  <2>8. CASE UpdateNetwork
    <3>1. Writable(HostFrame("NetworkConfig", handshake_nonce, taken))
      BY <1>2, <2>3 DEF SessionKinds
    <3> QED BY <2>4, <2>8, <3>1 DEF UpdateNetwork
  <2>9. CASE SendSnapshot
    BY <2>3, <2>4, <2>9 DEF SendSnapshot
  <2>10. CASE AcceptShutdown
    <3>1. Writable(HostFrame("ShutdownAccepted", handshake_nonce, 0))
      BY <1>2, <2>3 DEF SessionKinds
    <3> QED BY <2>4, <2>10, <3>1 DEF AcceptShutdown
  <2>11. CASE PrepareGuests
    <3>1. Writable(HostFrame("PreparingGuests", handshake_nonce, 0))
      BY <1>2, <2>3 DEF SessionKinds, ShutdownPhase
    <3> QED BY <2>4, <2>11, <3>1 DEF PrepareGuests, Report
  <2>12. CASE CountGuests \/ MonitorGuests
    <3>1. Writable(HostFrame("StoppingGuests", handshake_nonce, 0))
      BY <1>2, <2>3 DEF SessionKinds, ShutdownPhase
    <3> QED BY <2>4, <2>12, <3>1 DEF CountGuests, MonitorGuests, Report
  <2>13. CASE ReportFailure
    <3>1. Writable(HostFrame("ShutdownFailed", handshake_nonce, 0))
      BY <1>2, <2>3 DEF SessionKinds
    <3> QED BY <2>4, <2>13, <3>1 DEF ReportFailure, Report
  <2>14. CASE GuestsStopped
    <3>1. Writable(HostFrame("GuestsStopped", handshake_nonce, 0))
      BY <1>2, <2>3 DEF SessionKinds, ShutdownPhase
    <3> QED BY <2>4, <2>14, <3>1 DEF GuestsStopped, Report
  <2>15. CASE FinishPoweroff
    <3>1. Writable(HostFrame("PoweringOff", handshake_nonce, 0))
      BY <1>2, <2>3 DEF SessionKinds, ShutdownPhase
    <3> QED BY <2>4, <2>15, <3>1 DEF FinishPoweroff
  <2> QED BY <1>5, <2>5, <2>6, <2>7, <2>8, <2>9, <2>10, <2>11, <2>12, <2>13, <2>14, <2>15
<1>6. CASE Open
  BY <1>1, <1>6, FreshNonce DEF Open
<1>7. CASE Start \/ Collect \/ TakeSnapshot \/ ReadError \/ SystemPoweroff
  <2>1. /\ handshake_established' \in {handshake_established, FALSE}
        /\ UNCHANGED <<toStick, toHost, handshake_nonce>>
    BY <1>7 DEF Start, Collect, TakeSnapshot, ReadError, SystemPoweroff, poweroffUnchanged,
                sessionVars
  <2> QED BY <1>1, <2>1, SessionEnds
<1>8. CASE \/ ReadUnsynchronized \/ ReadAcknowledgement \/ ReadOtherHello \/ HandleShutdown
           \/ DiscardFrame
  <2>1. /\ toHost # <<>> /\ toHost' = Tail(toHost) /\ UNCHANGED <<toStick, handshake_nonce>>
        /\ \/ handshake_established' = handshake_established
           \/ handshake_established' = FALSE
           \/ IsAcknowledgement(Head(toHost))
    BY <1>8 DEF ReadUnsynchronized, ReadAcknowledgement, ReadOtherHello, HandleShutdown,
                DiscardFrame, CanRead, Readable, sessionVars, IsAcknowledgement
  <2> QED BY <1>1, <2>1, HostReads
<1> QED BY <1>4, <1>5, <1>6, <1>7, <1>8 DEF DaemonNext

\* Every step of the environment preserves the protocol invariant.
LEMMA EnvironmentProtocolStep ==
    ASSUME TypeOK, TypeOK', ProtocolInv, HostEnvironment, UNCHANGED stickVars
    PROVE  ProtocolInv'
<1>1. UNCHANGED <<queue, daemon_session, daemon>>
  BY DEF stickVars
<1>2. CASE DaemonCrash \/ HostOff \/ HostBoot
  BY <1>1, <1>2, SessionEnds DEF DaemonCrash, HostOff, HostBoot, linkVars, sessionVars
<1>3. CASE ForeignDaemon
  <2>1. Writable(HostNoise("Foreign"))
    BY FrameTypes, KindsApart DEF Writable, HostNoise, HostFrame
  <2>2. toStick' = PutHost(HostNoise("Foreign")) /\ UNCHANGED <<toHost, handshake_nonce, handshake_established>>
    BY <1>3 DEF ForeignDaemon, daemonVars, sessionVars
  <2> QED BY <1>1, <2>1, <2>2, HostWrites
<1>4. CASE LoseFrames
  <2>1. UNCHANGED <<handshake_nonce, handshake_established>>
    BY <1>4 DEF LoseFrames, daemonVars, sessionVars
  <2>2. CASE toHost # <<>> /\ toHost' = Tail(toHost) /\ UNCHANGED toStick
    BY <1>1, <2>1, <2>2, HostReads
  <2>3. CASE UNCHANGED toHost /\ toStick # <<>>
             /\ toStick' \in {SubSeq(toStick, 1, Len(toStick) - 1),
                              Append(SubSeq(toStick, 1, Len(toStick) - 1), HostNoise("Fragment"))}
    <3> DEFINE kept == SubSeq(toStick, 1, Len(toStick) - 1)
    <3> DEFINE f == HostNoise("Fragment")
    <3>1. /\ toStick \in Seq(HostMessage) /\ Len(toStick) \in Nat /\ Len(toStick) > 0
          /\ f \in HostMessage
      <4>1. toStick \in Seq(HostMessage)
        BY ProtocolTypes
      <4>2. f \in HostMessage
        BY FrameTypes DEF NoiseKinds
      <4> QED BY <2>3, <4>1, <4>2
    <3>2. /\ SubSeq(toStick, 1, Len(toStick) - 1) \in Seq(HostMessage)
          /\ Len(SubSeq(toStick, 1, Len(toStick) - 1)) = Len(toStick) - 1
          /\ \A i \in 1..Len(toStick) - 1 : SubSeq(toStick, 1, Len(toStick) - 1)[i] = toStick[i]
      BY <2>3, <3>1, FrontFrames
    <3>3. toStick' = kept \/ toStick' = Append(kept, f)
      BY <2>3, Zenon
    <3>a. /\ kept \in Seq(HostMessage) /\ Len(kept) = Len(toStick) - 1
          /\ \A i \in 1..Len(toStick) - 1 : kept[i] = toStick[i]
      BY <3>2, Zenon
    <3> HIDE DEF kept, f
    <3>4. /\ Len(toStick') <= Len(toStick)
          /\ \A i \in 1..Len(toStick') : \/ toStick'[i] = toStick[i]
                                         \/ i = Len(toStick') /\ toStick'[i] = f
      BY <3>1, <3>a, <3>3
    <3> QED BY <1>1, <2>1, <2>3, <3>4, HostTailLost DEF f
  <2> QED BY <1>4, <2>2, <2>3 DEF LoseFrames
<1> QED BY <1>2, <1>3, <1>4 DEF HostEnvironment

-----------------------------------------------------------------------------
(* The session theorems.                                                   *)

\* Initially nothing is on its way and no nonce has been drawn.
LEMMA InitSession == Init => SessionInv
<1> SUFFICES ASSUME Init PROVE SessionInv
  OBVIOUS
<1>1. TypeOK
  BY InitType
<1>2. BlockInSession
  BY DEF Init, DaemonInit, BlockInSession
<1>3. /\ toStick = <<>> /\ toHost = <<>> /\ handshake_nonce = 0 /\ daemon_session = 0
      /\ handshake_established = FALSE /\ daemon = "Waiting"
      /\ queue = <<DeviceFrame("Hello", 0)>>
  BY DEF Init, LinkInit, DaemonInit, StickInit, NoSession
<1>4. /\ Len(toStick) = 0 /\ Len(toHost) = 0 /\ Len(queue) = 1
      /\ queue[1].session = 0 /\ queue[1].kind = "Hello"
  BY <1>3 DEF DeviceFrame
<1>5. NoncesDrawn /\ LiveInSession
  BY <1>3, <1>4 DEF NoncesDrawn, LiveInSession
<1>6. AcknowledgedSession /\ FramesInOrder
  BY <1>3, <1>4 DEF AcknowledgedSession, FramesInOrder
<1>7. RequestsAfterAcknowledgement /\ RequestsEstablished
  BY <1>3, <1>4 DEF RequestsAfterAcknowledgement, RequestsEstablished, IsRequest
<1> QED BY <1>1, <1>2, <1>5, <1>6, <1>7 DEF SessionInv, ProtocolInv

\* The main thread is inside a block only in an established session.
LEMMA BlockStep ==
    ASSUME TypeOK, BlockInSession, [Next]_vars
    PROVE  BlockInSession'
<1> USE DEF BlockInSession
<1>1. CASE StickNext /\ UNCHANGED daemonVars
  BY <1>1 DEF daemonVars, sessionVars
<1>2. CASE HostEnvironment
  BY <1>2 DEF HostEnvironment, DaemonCrash, ForeignDaemon, LoseFrames, HostOff, HostBoot,
              daemonVars, sessionVars
<1>3. CASE UNCHANGED vars
  BY <1>3 DEF vars, daemonVars, sessionVars
<1>4. CASE Start \/ Open \/ Collect \/ TakeSnapshot \/ ReadError
  BY <1>4 DEF Start, Open, Collect, TakeSnapshot, ReadError, Disconnect, Running, sessionVars
<1>5. CASE \/ SendHello \/ SendManifestDisplay \/ SendManifestNetwork \/ UpdateDisplay
           \/ UpdateNetwork \/ SendSnapshot
  BY <1>5 DEF SendHello, SendManifestDisplay, SendManifestNetwork, UpdateDisplay, UpdateNetwork,
              SendSnapshot, Disconnect, Running, sessionVars
<1>6. CASE \/ ReadUnsynchronized \/ ReadAcknowledgement \/ ReadOtherHello \/ HandleShutdown
           \/ DiscardFrame
  BY <1>6 DEF ReadUnsynchronized, ReadAcknowledgement, ReadOtherHello, HandleShutdown,
              DiscardFrame, CanRead, Running, HandlesShutdown, sessionVars
<1>7. CASE \/ AcceptShutdown \/ PrepareGuests \/ CountGuests \/ SystemPoweroff \/ ReportFailure
           \/ MonitorGuests \/ GuestsStopped \/ FinishPoweroff
  BY <1>7 DEF AcceptShutdown, PrepareGuests, CountGuests, SystemPoweroff, ReportFailure,
              MonitorGuests, GuestsStopped, FinishPoweroff, Report, Disconnect, Running,
              poweroffUnchanged, sessionVars
<1> QED BY <1>1, <1>2, <1>3, <1>4, <1>5, <1>6, <1>7 DEF Next, DaemonNext

\* The inductive invariant is preserved by every step.
LEMMA SessionStep == SessionInv /\ [Next]_vars => SessionInv'
<1> SUFFICES ASSUME SessionInv, [Next]_vars PROVE SessionInv'
  OBVIOUS
<1>1. TypeOK /\ BlockInSession /\ ProtocolInv
  BY DEF SessionInv
<1>2. TypeOK'
  BY <1>1, TypeStep
<1>3. BlockInSession'
  BY <1>1, BlockStep
<1>4. ProtocolInv'
  <2>1. CASE DaemonNext /\ UNCHANGED stickVars
    BY <1>1, <2>1, DaemonProtocolStep
  <2>2. CASE StickNext /\ UNCHANGED daemonVars
    BY <1>1, <1>2, <2>2, StickProtocolStep
  <2>3. CASE HostEnvironment /\ UNCHANGED stickVars
    BY <1>1, <1>2, <2>3, EnvironmentProtocolStep
  <2>4. CASE UNCHANGED vars
    <3>1. /\ handshake_established' \in {handshake_established, FALSE}
          /\ UNCHANGED <<toStick, toHost, queue, handshake_nonce, daemon_session, daemon>>
      BY <2>4 DEF vars, daemonVars, stickVars, linkVars, sessionVars
    <3> QED BY <1>1, <3>1, SessionEnds
  <2> QED BY <2>1, <2>2, <2>3, <2>4 DEF Next
<1> QED BY <1>2, <1>3, <1>4 DEF SessionInv

\* The inductive invariant of the session protocol: what is on the wires and in
\* the stick's queue fits the sessions the two sides hold.
THEOREM SessionInvariant == Spec => []SessionInv
BY InitSession, SessionStep, PTL DEF Spec

\* A stick that takes the session for established elsewhere keeps announcing
\* itself: a session is never half open with both sides waiting.
THEOREM NeverHalfOpen == Spec => []NoHalfOpenSession
<1>1. SessionInv => NoHalfOpenSession
  BY DEF SessionInv, ProtocolInv, AcknowledgedSession, Acknowledged, LiveInSession,
         NoHalfOpenSession
<1> QED BY <1>1, SessionInvariant, PTL

\* A shutdown request is accepted only by the connection it was made in.
THEOREM RequestsNotReplayed == Spec => NeverReplayed
<1>1. SessionInv /\ [Next]_vars => [Accepts => Head(toHost).session = handshake_nonce]_vars
  <2> SUFFICES ASSUME SessionInv, Next, Accepts
               PROVE  Head(toHost).session = handshake_nonce
    OBVIOUS
  <2>1. CASE HandleShutdown
    <3>1. handshake_established /\ toHost # <<>> /\ IsRequest(Head(toHost))
      BY <2>1 DEF HandleShutdown, HandlesShutdown, CanRead, Readable, IsRequest
    <3>2. toHost \in Seq(DeviceMessage)
      BY DEF SessionInv, TypeOK, LinkTypeOK
    <3>3. 1 \in 1..Len(toHost) /\ Head(toHost) = toHost[1]
      BY <3>1, <3>2
    <3> QED BY <3>1, <3>3 DEF SessionInv, ProtocolInv, RequestsEstablished
  <2>2. CASE DaemonNext /\ ~HandleShutdown
    BY <2>2 DEF Accepts, DaemonNext, Start, Open, Collect, SendHello, SendManifestDisplay,
       SendManifestNetwork, TakeSnapshot, UpdateDisplay, UpdateNetwork, SendSnapshot,
       ReadUnsynchronized, ReadAcknowledgement, ReadOtherHello, DiscardFrame, ReadError,
       AcceptShutdown, PrepareGuests, CountGuests, SystemPoweroff, ReportFailure, MonitorGuests,
       GuestsStopped, FinishPoweroff, Disconnect, Running
  <2>3. CASE UNCHANGED at
    BY <2>3 DEF Accepts
  <2>4. DaemonNext \/ UNCHANGED at
    BY DEF Next, HostEnvironment, DaemonCrash, ForeignDaemon, LoseFrames, HostOff, HostBoot,
           daemonVars
  <2> QED BY <2>1, <2>2, <2>3, <2>4
<1> QED BY <1>1, SessionInvariant, PTL DEF Spec, NeverReplayed

\* The stick acts on session data only of the session it has acknowledged.
THEOREM FramesOfTheSession == Spec => SessionScoped
<1>1. SessionInv => [ActsOnFrame => Head(toStick).session = daemon_session]_vars
  <2> SUFFICES ASSUME SessionInv, ActsOnFrame
               PROVE  Head(toStick).session = daemon_session
    OBVIOUS
  <2>1. toStick # <<>> /\ Head(toStick).kind \in SessionKinds /\ daemon_session # NoSession
    BY DEF ActsOnFrame, ReceiveSnapshot, ReceiveDisplayConfig, ReceiveNetworkConfig,
           ReceiveProgress, ReceiveFailure, Receive, Readable, InSession, SessionKinds
  <2>2. toStick \in Seq(HostMessage)
    BY DEF SessionInv, TypeOK, LinkTypeOK
  <2>3. 1 \in 1..Len(toStick) /\ Head(toStick) = toStick[1] /\ ~\E i \in 1..Len(toStick) : i < 1
    BY <2>1, <2>2
  <2> QED BY <2>1, <2>3 DEF SessionInv, ProtocolInv, FramesInOrder
<1> QED BY <1>1, SessionInvariant, PTL DEF SessionScoped

-----------------------------------------------------------------------------
(* The daemon and the stick implement ShutdownService.  A step of either is *)
(* a step of the service or leaves it alone: what it does to the requests   *)
(* of the current connection is counted, and SessionInv says that there are *)
(* none of a later one and that an established session accepts no other.    *)

\* A shutdown request of the connection with this nonce.
IsCurrent(m, nonce) == IsRequest(m) /\ m.session = nonce

\* The places of these in a sequence of frames.
CurrentAt(frames, nonce) == {i \in 1..Len(frames) : IsCurrent(frames[i], nonce)}

\* 1 if m is a request of the connection.
One(m, nonce) == IF IsCurrent(m, nonce) THEN 1 ELSE 0

-----------------------------------------------------------------------------
(* Counting requests.                                                      *)

LEMMA CountType ==
    ASSUME NEW s \in Seq(DeviceMessage), NEW nonce
    PROVE  /\ IsFiniteSet(CurrentAt(s, nonce))
           /\ RequestsIn(s, nonce) = Cardinality(CurrentAt(s, nonce))
           /\ RequestsIn(s, nonce) \in Nat
<1>1. IsFiniteSet(1..Len(s))
  BY FS_Interval
<1>2. IsFiniteSet(CurrentAt(s, nonce))
  BY <1>1, FS_Subset DEF CurrentAt
<1>3. RequestsIn(s, nonce) = Cardinality(CurrentAt(s, nonce))
  BY DEF RequestsIn, CurrentAt, IsCurrent
<1> QED BY <1>2, <1>3, FS_CardinalityType

\* Frames of which each request is one of the others, d places further on.
LEMMA CountBound ==
    ASSUME NEW s \in Seq(DeviceMessage), NEW t \in Seq(DeviceMessage), NEW nonce, NEW d \in Nat,
           \A i \in 1..Len(t) :
              IsCurrent(t[i], nonce) => i + d \in 1..Len(s) /\ IsCurrent(s[i + d], nonce)
    PROVE  RequestsIn(t, nonce) <= RequestsIn(s, nonce)
<1> DEFINE f == [i \in CurrentAt(t, nonce) |-> i + d]
<1>1. \A i \in CurrentAt(t, nonce) : i \in Nat /\ i + d \in CurrentAt(s, nonce)
  BY DEF CurrentAt
<1>2. f \in [CurrentAt(t, nonce) -> CurrentAt(s, nonce)]
  BY <1>1
<1>3. \A i, j \in CurrentAt(t, nonce) : f[i] = f[j] => i = j
  BY <1>1
<1>4. f \in Injection(CurrentAt(t, nonce), CurrentAt(s, nonce))
  <2> HIDE DEF f
  <2> QED BY <1>2, <1>3 DEF Injection, IsInjective
<1>5. Cardinality(CurrentAt(t, nonce)) <= Cardinality(CurrentAt(s, nonce))
  <2> HIDE DEF f
  <2>1. IsFiniteSet(CurrentAt(s, nonce))
    BY CountType
  <2> QED BY <1>4, <2>1, FS_Injection
<1> QED BY <1>5, CountType

LEMMA CountNone ==
    ASSUME NEW s \in Seq(DeviceMessage), NEW nonce, \A i \in 1..Len(s) : ~IsCurrent(s[i], nonce)
    PROVE  RequestsIn(s, nonce) = 0
<1>1. CurrentAt(s, nonce) = {}
  BY DEF CurrentAt
<1> QED BY <1>1, CountType, FS_EmptySet

LEMMA CountAppend ==
    ASSUME NEW s \in Seq(DeviceMessage), NEW m \in DeviceMessage, NEW nonce
    PROVE  RequestsIn(Append(s, m), nonce) = RequestsIn(s, nonce) + One(m, nonce)
<1> DEFINE t == Append(s, m)
           last == Len(s) + 1
<1>1. /\ t \in Seq(DeviceMessage) /\ Len(t) = last /\ t[last] = m
      /\ \A i \in 1..Len(s) : t[i] = s[i]
      /\ 1..Len(t) = (1..Len(s)) \cup {last} /\ last \notin 1..Len(s)
  OBVIOUS
<1> HIDE DEF t, last
<1>2. last \notin CurrentAt(s, nonce)
  BY <1>1 DEF CurrentAt
<1>3. CASE IsCurrent(m, nonce)
  <2>1. CurrentAt(t, nonce) = CurrentAt(s, nonce) \cup {last}
    BY <1>1, <1>3 DEF CurrentAt
  <2>2. Cardinality(CurrentAt(t, nonce)) = Cardinality(CurrentAt(s, nonce)) + 1
    BY <1>2, <2>1, CountType, FS_AddElement
  <2>3. RequestsIn(t, nonce) = RequestsIn(s, nonce) + 1
    BY <1>1, <2>2, CountType
  <2> QED BY <1>3, <2>3 DEF One, t
<1>4. CASE ~IsCurrent(m, nonce)
  <2>1. CurrentAt(t, nonce) = CurrentAt(s, nonce)
    BY <1>1, <1>4 DEF CurrentAt
  <2>2. RequestsIn(t, nonce) = RequestsIn(s, nonce)
    BY <1>1, <2>1, CountType
  <2>3. RequestsIn(s, nonce) + 0 = RequestsIn(s, nonce)
    BY CountType
  <2> QED BY <1>4, <2>2, <2>3 DEF One, t
<1> QED BY <1>3, <1>4

LEMMA CountTail ==
    ASSUME NEW s \in Seq(DeviceMessage), s # <<>>, NEW nonce
    PROVE  RequestsIn(Tail(s), nonce) = RequestsIn(s, nonce) - One(Head(s), nonce)
<1> DEFINE t == Tail(s)
           rest == CurrentAt(s, nonce) \ {1}
           f == [i \in CurrentAt(t, nonce) |-> i + 1]
<1>1. /\ t \in Seq(DeviceMessage) /\ Len(t) = Len(s) - 1 /\ Len(s) \in Nat \ {0}
      /\ \A i \in 1..Len(t) : t[i] = s[i + 1]
  BY HeadTailProperties
<1>2. Head(s) = s[1]
  OBVIOUS
<1> HIDE DEF t
<1>3. \A i \in CurrentAt(t, nonce) : i \in Nat /\ i + 1 \in rest
  BY <1>1 DEF CurrentAt
<1>4. \A k \in rest : k \in Nat /\ k - 1 \in CurrentAt(t, nonce) /\ (k - 1) + 1 = k
  BY <1>1 DEF CurrentAt
<1>5. f \in Bijection(CurrentAt(t, nonce), rest)
  <2>1. f \in [CurrentAt(t, nonce) -> rest]
    BY <1>3
  <2>2. \A i, j \in CurrentAt(t, nonce) : f[i] = f[j] => i = j
    BY <1>3
  <2>3. \A k \in rest : \E i \in CurrentAt(t, nonce) : f[i] = k
    BY <1>4
  <2> HIDE DEF f, rest
  <2> QED BY <2>1, <2>2, <2>3 DEF Bijection, Injection, IsInjective, Surjection
<1>6. Cardinality(rest) = Cardinality(CurrentAt(t, nonce))
  <2> HIDE DEF rest, f
  <2>1. ExistsBijection(CurrentAt(t, nonce), rest)
    BY <1>5 DEF ExistsBijection
  <2> QED BY <1>1, <2>1, CountType, FS_Bijection
<1>7. RequestsIn(t, nonce) = Cardinality(rest)
  <2> HIDE DEF rest
  <2> QED BY <1>1, <1>6, CountType
<1>8. Cardinality(rest) = IF 1 \in CurrentAt(s, nonce) THEN RequestsIn(s, nonce) - 1
                                                       ELSE RequestsIn(s, nonce)
  BY CountType, FS_RemoveElement
<1>9. 1 \in CurrentAt(s, nonce) <=> IsCurrent(Head(s), nonce)
  BY <1>1, <1>2 DEF CurrentAt
<1>10. RequestsIn(s, nonce) - 0 = RequestsIn(s, nonce)
  BY CountType
<1> HIDE DEF rest, f
<1> QED BY <1>7, <1>8, <1>9, <1>10 DEF One, t

-----------------------------------------------------------------------------
(* What the operations of the wires and the queue do to the count.         *)

\* A frame written, or merged with a fragment into a malformed one.
LEMMA CountPut ==
    ASSUME NEW w \in Seq(DeviceMessage), NEW m \in DeviceMessage, NEW nonce
    PROVE  RequestsIn(Put(w, m, DeviceNoise("Garbled")), nonce)
             \in {RequestsIn(w, nonce), RequestsIn(w, nonce) + One(m, nonce)}
                 \cup 0..RequestsIn(w, nonce)
<1> DEFINE g == DeviceNoise("Garbled")
<1>1. g \in DeviceMessage /\ ~IsCurrent(g, nonce)
  BY FrameTypes DEF IsCurrent, IsRequest, DeviceNoise, DeviceFrame, NoiseKinds
<1> HIDE DEF g
<1>2. CASE EndsInFragment(w) /\ m.kind = "Fragment"
  <2>1. Put(w, m, g) = w
    BY <1>2 DEF Put
  <2> QED BY <2>1 DEF g
<1>3. CASE EndsInFragment(w) /\ m.kind # "Fragment"
  <2> DEFINE t == [w EXCEPT ![Len(w)] = g]
  <2>1. Put(w, m, g) = t
    BY <1>3 DEF Put
  <2>2. /\ t \in Seq(DeviceMessage) /\ Len(t) = Len(w)
        /\ \A i \in 1..Len(t) : t[i] = g \/ t[i] = w[i]
    <3>1. Len(w) \in 1..Len(w)
      BY <1>3 DEF EndsInFragment
    <3> QED BY <1>1, <3>1
  <2> HIDE DEF t
  <2>3. \A i \in 1..Len(t) :
           IsCurrent(t[i], nonce) => i + 0 \in 1..Len(w) /\ IsCurrent(w[i + 0], nonce)
    BY <1>1, <2>2
  <2>4. RequestsIn(t, nonce) <= RequestsIn(w, nonce)
    BY <2>2, <2>3, CountBound
  <2>5. RequestsIn(t, nonce) \in 0..RequestsIn(w, nonce)
    BY <2>2, <2>4, CountType
  <2> QED BY <2>1, <2>5 DEF g
<1>4. CASE ~EndsInFragment(w)
  <2>1. Put(w, m, g) = Append(w, m)
    BY <1>4 DEF Put
  <2> QED BY <2>1, CountAppend DEF g
<1> QED BY <1>2, <1>3, <1>4

\* What is no request adds none, and displaces none.
LEMMA CountEnqueueOther ==
    ASSUME NEW q \in Seq(DeviceMessage), NEW m \in DeviceMessage, ~IsRequest(m), NEW nonce
    PROVE  RequestsIn(Enqueue(q, m), nonce) = RequestsIn(q, nonce)
<1>1. m.kind # "ShutdownRequested" /\ One(m, nonce) = 0
  BY DEF IsRequest, One, IsCurrent
<1>2. Enqueue(q, m) \in {q, Append(q, m)}
  BY <1>1 DEF Enqueue
<1>3. RequestsIn(Append(q, m), nonce) = RequestsIn(q, nonce) + 0
  BY <1>1, CountAppend
<1>4. RequestsIn(q, nonce) \in Nat
  BY CountType
<1>5. RequestsIn(Append(q, m), nonce) = RequestsIn(q, nonce)
  BY <1>3, <1>4
<1>6. CASE Enqueue(q, m) = q
  BY <1>6
<1>7. CASE Enqueue(q, m) = Append(q, m)
  BY <1>5, <1>7
<1> QED BY <1>2, <1>6, <1>7

\* A request is added, and the oldest entry, perhaps a request as well, may go for it.
LEMMA CountEnqueueRequest ==
    ASSUME NEW q \in Seq(DeviceMessage), NEW m \in DeviceMessage, IsRequest(m), NEW nonce
    PROVE  \E gone \in {0, 1} :
              /\ gone <= RequestsIn(q, nonce)
              /\ RequestsIn(Enqueue(q, m), nonce) = (RequestsIn(q, nonce) - gone) + One(m, nonce)
<1>1. CASE Len(q) < QueueCap
  <2>1. Enqueue(q, m) = Append(q, m)
    BY <1>1 DEF Enqueue
  <2>2. RequestsIn(q, nonce) - 0 = RequestsIn(q, nonce) /\ 0 <= RequestsIn(q, nonce)
    BY CountType
  <2> QED BY <2>1, <2>2, CountAppend
<1>2. CASE ~(Len(q) < QueueCap)
  <2>1. Enqueue(q, m) = Append(Tail(q), m) /\ q # <<>>
    BY <1>2, StickAssumption DEF Enqueue, IsRequest
  <2>2. Tail(q) \in Seq(DeviceMessage)
    BY <2>1
  <2>3. RequestsIn(Enqueue(q, m), nonce) = RequestsIn(Tail(q), nonce) + One(m, nonce)
    BY <2>1, <2>2, CountAppend
  <2>4. RequestsIn(Tail(q), nonce) = RequestsIn(q, nonce) - One(Head(q), nonce)
    BY <2>1, CountTail
  <2>5. One(Head(q), nonce) \in {0, 1}
    BY DEF One
  <2>6. One(Head(q), nonce) <= RequestsIn(q, nonce)
    <3>1. RequestsIn(q, nonce) \in Nat /\ RequestsIn(Tail(q), nonce) \in Nat
      BY <2>2, CountType
    <3> QED BY <2>4, <2>5, <3>1
  <2> QED BY <2>3, <2>4, <2>5, <2>6
<1> QED BY <1>1, <1>2

-----------------------------------------------------------------------------
(* Steps of the service.                                                   *)

LEMMA PendingType ==
    TypeOK => /\ Pending \in Nat /\ handshake_nonce \in Nat
              /\ queue \in Seq(DeviceMessage) /\ toHost \in Seq(DeviceMessage)
              /\ RequestsIn(queue, handshake_nonce) \in Nat
              /\ RequestsIn(toHost, handshake_nonce) \in Nat
<1> SUFFICES ASSUME TypeOK
             PROVE  /\ Pending \in Nat /\ handshake_nonce \in Nat
                    /\ queue \in Seq(DeviceMessage) /\ toHost \in Seq(DeviceMessage)
                    /\ RequestsIn(queue, handshake_nonce) \in Nat
                    /\ RequestsIn(toHost, handshake_nonce) \in Nat
  OBVIOUS
<1>1. queue \in Seq(DeviceMessage) /\ toHost \in Seq(DeviceMessage) /\ handshake_nonce \in Nat
  BY ProtocolTypes
<1> QED BY <1>1, CountType DEF Pending

ServiceStep == [Service!Next]_(Service!serviceVars)

\* Requests that are lost, or none.
LEMMA Loses ==
    ASSUME TypeOK, Pending' \in 0..Pending, UNCHANGED <<handshake_nonce, Serving, os>>
    PROVE  ServiceStep
<1>1. Pending \in Nat
  BY PendingType
<1>2. CASE Pending' = Pending
  BY <1>2 DEF ServiceStep, Service!serviceVars
<1>3. CASE Pending' # Pending
  <2>1. Pending > 0 /\ Pending' \in 0..(Pending - 1)
    BY <1>1, <1>3
  <2> QED BY <2>1 DEF ServiceStep, Service!Next, Service!Lose
<1> QED BY <1>2, <1>3

\* The service that is under way ends, or there is none.
LEMMA Finishes ==
    ASSUME Serving' = "none", UNCHANGED <<Pending, handshake_nonce, os>>
    PROVE  ServiceStep
<1>1. CASE Serving = "none"
  BY <1>1 DEF ServiceStep, Service!serviceVars
<1>2. CASE Serving # "none"
  BY <1>2 DEF ServiceStep, Service!Next, Service!Finish
<1> QED BY <1>1, <1>2

\* A step of the daemon that leaves the requests, the connection and the host alone.
LEMMA Continues ==
    ASSUME UNCHANGED <<Pending, handshake_nonce, os>>, Serving' \in {Serving, "none"}
    PROVE  ServiceStep
<1>1. CASE Serving' = Serving
  BY <1>1 DEF ServiceStep, Service!serviceVars
<1> QED BY <1>1, Finishes

-----------------------------------------------------------------------------
(* The stick.                                                              *)

\* Another place of a request, another frame, a screen: nothing the service sees.
LEMMA StickQuiet ==
    ASSUME TypeOK, UNCHANGED daemonVars,
           UNCHANGED toHost, RequestsIn(queue', handshake_nonce) = RequestsIn(queue, handshake_nonce)
    PROVE  ServiceStep
<1>1. UNCHANGED <<handshake_nonce, os, Serving>>
  BY DEF daemonVars, sessionVars, Serving
<1>2. Pending' = Pending
  BY <1>1 DEF Pending
<1> QED BY <1>1, <1>2, Continues

\* The front of the queue goes onto the wire, or is merged with a fragment there.
LEMMA StickSends ==
    ASSUME TypeOK, UNCHANGED daemonVars, TxPoll
    PROVE  ServiceStep
<1> DEFINE n == handshake_nonce
           m == Head(queue)
<1>1. UNCHANGED <<handshake_nonce, os, Serving>>
  BY DEF daemonVars, sessionVars, Serving
<1>2. /\ queue # <<>> /\ queue' = Tail(queue)
      /\ toHost' = Put(toHost, m, DeviceNoise("Garbled"))
  BY DEF TxPoll, PutDevice
<1>3. /\ queue \in Seq(DeviceMessage) /\ toHost \in Seq(DeviceMessage)
      /\ RequestsIn(queue, n) \in Nat /\ RequestsIn(toHost, n) \in Nat
  BY PendingType
<1>4. m \in DeviceMessage /\ Tail(queue) \in Seq(DeviceMessage)
  BY <1>2, <1>3
<1>5. One(m, n) \in {0, 1}
  BY DEF One
<1>6. RequestsIn(queue', n) = RequestsIn(queue, n) - One(m, n)
  BY <1>2, <1>3, CountTail
<1>7. RequestsIn(queue', n) \in Nat
  BY <1>2, <1>4, CountType
<1>8. RequestsIn(toHost', n) \in {RequestsIn(toHost, n), RequestsIn(toHost, n) + One(m, n)}
                                   \cup 0..RequestsIn(toHost, n)
  BY <1>2, <1>3, <1>4, CountPut
<1> HIDE DEF m
<1>9. RequestsIn(queue', n) + RequestsIn(toHost', n)
        \in 0..(RequestsIn(queue, n) + RequestsIn(toHost, n))
  BY <1>3, <1>5, <1>6, <1>7, <1>8
<1>10. Pending' \in 0..Pending
  BY <1>1, <1>9 DEF Pending
<1> QED BY <1>1, <1>10, Loses

\* A long press asks for a shutdown in a live session.
LEMMA StickRequests ==
    ASSUME TypeOK, ProtocolInv, UNCHANGED daemonVars, LongPress
    PROVE  ServiceStep
<1> DEFINE n == handshake_nonce
           m == DeviceFrame("ShutdownRequested", daemon_session)
<1>1. UNCHANGED <<handshake_nonce, os, Serving, toHost>>
  BY DEF daemonVars, sessionVars, Serving, LongPress
<1>2. /\ queue \in Seq(DeviceMessage) /\ daemon_session \in Nat
      /\ RequestsIn(queue, n) \in Nat /\ RequestsIn(toHost, n) \in Nat
  BY PendingType, ProtocolTypes
<1>3. CASE daemon # "Connected"
  <2>1. queue' = queue
    BY <1>3 DEF LongPress
  <2> QED BY <1>1, <2>1, StickQuiet
<1>4. CASE daemon = "Connected"
  <2>1. queue' = Enqueue(queue, m)
    BY <1>4 DEF LongPress
  <2>2. m \in DeviceMessage /\ IsRequest(m) /\ m.session = daemon_session
    BY <1>2, FrameTypes DEF IsRequest, DeviceFrame
  <2>3. daemon_session # 0
    BY <1>4 DEF ProtocolInv, LiveInSession, NoSession
  <2>4. One(m, n) = IF daemon_session = n THEN 1 ELSE 0
    BY <2>2 DEF One, IsCurrent
  <2> HIDE DEF m
  <2>5. PICK gone \in {0, 1} :
           /\ gone <= RequestsIn(queue, n)
           /\ RequestsIn(queue', n) = (RequestsIn(queue, n) - gone) + One(m, n)
    BY <1>2, <2>1, <2>2, CountEnqueueRequest
  <2>6. /\ Pending = RequestsIn(queue, n) + RequestsIn(toHost, n)
        /\ Pending' = RequestsIn(queue', n) + RequestsIn(toHost, n)
    BY <1>1 DEF Pending
  <2>7. CASE daemon_session = n /\ gone = 0
    <3>1. Pending' = Pending + 1 /\ handshake_nonce # 0
      BY <1>2, <2>3, <2>4, <2>5, <2>6, <2>7
    <3> QED BY <1>1, <3>1 DEF ServiceStep, Service!Next, Service!Request
  <2>8. CASE ~(daemon_session = n /\ gone = 0)
    <3>1. Pending' \in 0..Pending
      BY <1>2, <2>4, <2>5, <2>6, <2>8
    <3> QED BY <1>1, <3>1, Loses
  <2> QED BY <2>7, <2>8
<1> QED BY <1>3, <1>4

\* A reset forgets the queue and what the endpoint has not delivered.
LEMMA StickForgets ==
    ASSUME TypeOK, UNCHANGED daemonVars, StickReboot
    PROVE  ServiceStep
<1> DEFINE n == handshake_nonce
           f == DeviceNoise("Fragment")
           h == DeviceFrame("Hello", NoSession)
<1>1. UNCHANGED <<handshake_nonce, os, Serving>>
  BY DEF daemonVars, sessionVars, Serving
<1>2. /\ f \in DeviceMessage /\ ~IsCurrent(f, n)
      /\ h \in DeviceMessage /\ ~IsCurrent(h, n)
  BY FrameTypes DEF DeviceNoise, DeviceFrame, NoSession, NoiseKinds, IsCurrent, IsRequest
<1>3. /\ toHost \in Seq(DeviceMessage) /\ Len(toHost) \in Nat
      /\ RequestsIn(queue, n) \in Nat /\ RequestsIn(toHost, n) \in Nat
  BY PendingType
<1>4. queue' = <<h>>
  BY DEF StickReboot
<1>5. PICK k \in 0..Len(toHost) :
        \/ toHost' = SubSeq(toHost, 1, k)
        \/ k < Len(toHost) /\ toHost' = Append(SubSeq(toHost, 1, k), f)
  BY DEF StickReboot
<1> HIDE DEF f, h
<1>6. RequestsIn(queue', n) = 0
  <2>1. <<h>> \in Seq(DeviceMessage) /\ \A i \in 1..Len(<<h>>) : ~IsCurrent(<<h>>[i], n)
    BY <1>2
  <2> QED BY <1>4, <2>1, CountNone
<1>7. /\ toHost' \in Seq(DeviceMessage)
      /\ \A i \in 1..Len(toHost') : \/ i \in 1..Len(toHost) /\ toHost'[i] = toHost[i]
                                    \/ toHost'[i] = f
  <2>1. /\ SubSeq(toHost, 1, k) \in Seq(DeviceMessage)
        /\ Len(SubSeq(toHost, 1, k)) = k
        /\ \A i \in 1..k : i \in 1..Len(toHost) /\ SubSeq(toHost, 1, k)[i] = toHost[i]
    BY <1>3
  <2>2. CASE toHost' = SubSeq(toHost, 1, k)
    BY <2>1, <2>2
  <2>3. CASE toHost' = Append(SubSeq(toHost, 1, k), f)
    <3>1. /\ toHost' \in Seq(DeviceMessage)
          /\ Len(toHost') = k + 1
          /\ \A i \in 1..k : toHost'[i] = SubSeq(toHost, 1, k)[i]
          /\ toHost'[k + 1] = f
      BY <1>2, <2>1, <2>3
    <3> QED BY <2>1, <3>1
  <2> QED BY <1>5, <2>2, <2>3
<1>8. RequestsIn(toHost', n) \in 0..RequestsIn(toHost, n)
  <2>1. \A i \in 1..Len(toHost') :
           IsCurrent(toHost'[i], n) => i + 0 \in 1..Len(toHost) /\ IsCurrent(toHost[i + 0], n)
    BY <1>2, <1>7
  <2>2. RequestsIn(toHost', n) <= RequestsIn(toHost, n)
    BY <1>3, <1>7, <2>1, CountBound
  <2>3. RequestsIn(toHost', n) \in Nat
    BY <1>7, CountType
  <2> QED BY <1>3, <2>2, <2>3
<1>9. Pending' \in 0..Pending
  <2>1. Pending' = RequestsIn(queue', n) + RequestsIn(toHost', n)
    BY <1>1 DEF Pending
  <2> QED BY <1>3, <1>6, <1>8, <2>1 DEF Pending
<1> QED BY <1>1, <1>9, Loses

LEMMA StickServes ==
    ASSUME TypeOK, ProtocolInv, UNCHANGED daemonVars, StickNext
    PROVE  ServiceStep
<1> DEFINE n == handshake_nonce
<1>1. queue \in Seq(DeviceMessage) /\ daemon_session \in Nat /\ toStick \in Seq(HostMessage)
  BY ProtocolTypes
<1>2. ASSUME NEW k \in Nat, queue' = Enqueue(queue, DeviceFrame("Hello", k)), UNCHANGED toHost
      PROVE  ServiceStep
  <2>1. DeviceFrame("Hello", k) \in DeviceMessage /\ ~IsRequest(DeviceFrame("Hello", k))
    BY FrameTypes DEF IsRequest, DeviceFrame
  <2>2. RequestsIn(queue', n) = RequestsIn(queue, n)
    BY <1>1, <1>2, <2>1, CountEnqueueOther
  <2> QED BY <1>2, <2>2, StickQuiet
<1>3. CASE HelloTimer
  BY <1>1, <1>2, <1>3 DEF HelloTimer
<1>4. CASE ReceiveHello
  <2>1. toStick # <<>> /\ UNCHANGED toHost
    BY <1>4 DEF ReceiveHello, Receive, Readable
  <2>2. Head(toStick) \in HostMessage
    BY <1>1, <2>1
  <2>3. Head(toStick).session \in Nat
    BY <2>2 DEF HostMessage
  <2>4. queue' = Enqueue(queue, DeviceFrame("Hello", Head(toStick).session))
    BY <1>4 DEF ReceiveHello
  <2> QED BY <1>2, <2>1, <2>3, <2>4
<1>5. CASE \/ IgnoreFrame \/ ReceiveForeign \/ ReceiveSnapshot \/ ReceiveDisplayConfig
           \/ ReceiveNetworkConfig \/ ReceiveProgress \/ ReceiveFailure
           \/ LinkTimeout \/ ShutdownTimeout \/ NextScreen
  <2>1. UNCHANGED <<queue, toHost>>
    BY <1>5 DEF IgnoreFrame, ReceiveForeign, ReceiveSnapshot, ReceiveDisplayConfig,
                ReceiveNetworkConfig, ReceiveProgress, ReceiveFailure, Receive,
                LinkTimeout, ShutdownTimeout, NextScreen
  <2> QED BY <2>1, StickQuiet
<1> QED BY <1>3, <1>4, <1>5, StickSends, StickRequests, StickForgets DEF StickNext

-----------------------------------------------------------------------------
(* The daemon.                                                             *)

\* The daemon goes on writing, gives up the service or has none to give up.
LEMMA DaemonQuiet ==
    ASSUME UNCHANGED <<queue, toHost, handshake_nonce, os>>, Serving' \in {Serving, "none"}
    PROVE  ServiceStep
<1>1. UNCHANGED Pending
  BY DEF Pending
<1> QED BY <1>1, Continues

\* Opening the port starts a connection, in which nothing has been asked yet.
LEMMA DaemonConnects ==
    ASSUME TypeOK, BlockInSession, ProtocolInv, Open, UNCHANGED queue
    PROVE  ServiceStep
<1> DEFINE n == handshake_nonce + 1
<1>1. handshake_nonce' = n /\ UNCHANGED <<os, toHost>>
  BY DEF Open
<1>2. Serving = "none" /\ Serving' = "none"
  BY DEF Open, BlockInSession, Serving
<1>3. /\ handshake_nonce \in Nat
      /\ queue \in Seq(DeviceMessage) /\ toHost \in Seq(DeviceMessage)
      /\ \A i \in 1..Len(toHost) : toHost[i].session \in Nat
      /\ \A i \in 1..Len(queue) : queue[i].session \in Nat
  BY ProtocolTypes
<1>4. /\ \A i \in 1..Len(queue) : ~IsCurrent(queue[i], n)
      /\ \A i \in 1..Len(toHost) : ~IsCurrent(toHost[i], n)
  BY <1>3 DEF ProtocolInv, NoncesDrawn, IsCurrent
<1>5. RequestsIn(queue, n) = 0 /\ RequestsIn(toHost, n) = 0
  BY <1>3, <1>4, CountNone
<1>6. Pending' = 0
  BY <1>1, <1>5 DEF Pending
<1> QED BY <1>1, <1>2, <1>6 DEF ServiceStep, Service!Next, Service!Connect

\* A frame that is read is gone; the daemon serves the request of its session.
LEMMA DaemonReads ==
    ASSUME TypeOK, ProtocolInv, UNCHANGED queue,
           \/ ReadUnsynchronized \/ ReadAcknowledgement \/ ReadOtherHello
           \/ HandleShutdown \/ DiscardFrame
    PROVE  ServiceStep
<1> DEFINE n == handshake_nonce
<1>1. /\ toHost # <<>> /\ toHost' = Tail(toHost)
      /\ proc = "running" /\ at = "loop"
      /\ UNCHANGED <<handshake_nonce, os, proc>>
  BY DEF ReadUnsynchronized, ReadAcknowledgement, ReadOtherHello, HandleShutdown, DiscardFrame,
         CanRead, Running, Readable, sessionVars
<1>2. /\ toHost \in Seq(DeviceMessage)
      /\ RequestsIn(queue, n) \in Nat /\ RequestsIn(toHost, n) \in Nat /\ Pending \in Nat
  BY PendingType
<1>3. RequestsIn(toHost', n) = RequestsIn(toHost, n) - One(Head(toHost), n)
  BY <1>1, <1>2, CountTail
<1>4. RequestsIn(toHost', n) \in Nat
  <2>1. Tail(toHost) \in Seq(DeviceMessage)
    BY <1>1, <1>2
  <2> QED BY <1>1, <2>1, CountType
<1>5. One(Head(toHost), n) \in {0, 1}
  BY DEF One
<1>6. /\ Pending = RequestsIn(queue, n) + RequestsIn(toHost, n)
      /\ Pending' = RequestsIn(queue, n) + RequestsIn(toHost', n)
  BY <1>1 DEF Pending
<1>7. Serving = "none"
  BY <1>1 DEF Serving
<1>8. CASE HandleShutdown
  <2>1. handshake_established /\ IsRequest(Head(toHost)) /\ at' = "accepting"
    BY <1>8 DEF HandleShutdown, HandlesShutdown, IsRequest
  <2>2. Head(toHost).session = n
    <3>1. 1 \in 1..Len(toHost) /\ Head(toHost) = toHost[1]
      BY <1>1, <1>2
    <3> QED BY <2>1, <3>1 DEF ProtocolInv, RequestsEstablished
  <2>3. One(Head(toHost), n) = 1
    BY <2>1, <2>2 DEF One, IsCurrent
  <2>4. Pending > 0 /\ Pending' = Pending - 1
    BY <1>2, <1>3, <1>4, <1>6, <2>3
  <2>5. Serving' = "accepted"
    BY <1>1, <2>1 DEF Serving
  <2> QED BY <1>1, <1>7, <2>4, <2>5 DEF ServiceStep, Service!Next, Service!Accept
<1>9. CASE ReadUnsynchronized \/ ReadAcknowledgement \/ ReadOtherHello \/ DiscardFrame
  <2>1. UNCHANGED at
    BY <1>9 DEF ReadUnsynchronized, ReadAcknowledgement, ReadOtherHello, DiscardFrame
  <2>2. UNCHANGED Serving
    BY <1>1, <2>1 DEF Serving
  <2>3. Pending' \in 0..Pending
    BY <1>2, <1>3, <1>4, <1>5, <1>6
  <2> QED BY <1>1, <2>2, <2>3, Loses
<1> QED BY <1>8, <1>9

LEMMA DaemonServes ==
    ASSUME TypeOK, BlockInSession, ProtocolInv, DaemonNext, UNCHANGED queue
    PROVE  ServiceStep
<1>1. CASE Start \/ Collect \/ TakeSnapshot \/ ReadError
  <2>1. Serving' \in {Serving, "none"}
    BY <1>1 DEF Start, Collect, TakeSnapshot, ReadError, Disconnect, Running, Serving
  <2>2. UNCHANGED <<toHost, handshake_nonce, os>>
    BY <1>1 DEF Start, Collect, TakeSnapshot, ReadError, sessionVars
  <2> QED BY <2>1, <2>2, DaemonQuiet
<1>2. CASE \/ SendHello \/ SendManifestDisplay \/ SendManifestNetwork \/ UpdateDisplay
           \/ UpdateNetwork \/ SendSnapshot
  <2>1. Serving' \in {Serving, "none"}
    BY <1>2 DEF SendHello, SendManifestDisplay, SendManifestNetwork, UpdateDisplay,
                UpdateNetwork, SendSnapshot, Disconnect, Running, Serving
  <2>2. UNCHANGED <<toHost, handshake_nonce, os>>
    BY <1>2 DEF SendHello, SendManifestDisplay, SendManifestNetwork, UpdateDisplay,
                UpdateNetwork, SendSnapshot, sessionVars
  <2> QED BY <2>1, <2>2, DaemonQuiet
<1>3. CASE \/ AcceptShutdown \/ PrepareGuests \/ CountGuests \/ ReportFailure
           \/ MonitorGuests \/ GuestsStopped \/ FinishPoweroff
  <2>1. Serving' \in {Serving, "none"}
    BY <1>3 DEF AcceptShutdown, PrepareGuests, CountGuests, ReportFailure, MonitorGuests,
                GuestsStopped, FinishPoweroff, Report, Disconnect, Running, poweroffUnchanged,
                Serving
  <2>2. UNCHANGED <<toHost, handshake_nonce, os>>
    BY <1>3 DEF AcceptShutdown, PrepareGuests, CountGuests, ReportFailure, MonitorGuests,
                GuestsStopped, FinishPoweroff, poweroffUnchanged, sessionVars
  <2> QED BY <2>1, <2>2, DaemonQuiet
<1>4. CASE SystemPoweroff
  <2>1. /\ Serving = "accepted" /\ UNCHANGED <<toHost, handshake_nonce>>
        /\ \/ os' = "stopping" /\ Serving' = "issued"
           \/ UNCHANGED os /\ Serving' = "none"
    BY <1>4 DEF SystemPoweroff, Running, poweroffUnchanged, sessionVars, Serving
  <2>2. UNCHANGED Pending
    BY <2>1 DEF Pending
  <2> QED BY <2>1, <2>2 DEF ServiceStep, Service!Next, Service!PowerOff, Service!Finish
<1> QED BY <1>1, <1>2, <1>3, <1>4, DaemonConnects, DaemonReads DEF DaemonNext

-----------------------------------------------------------------------------
(* The environment.                                                        *)

LEMMA EnvironmentServes ==
    ASSUME TypeOK, BlockInSession, HostEnvironment, UNCHANGED queue
    PROVE  ServiceStep
<1> DEFINE n == handshake_nonce
<1>1. CASE DaemonCrash \/ ForeignDaemon
  <2>1. UNCHANGED <<toHost, handshake_nonce, os>> /\ Serving' \in {Serving, "none"}
    BY <1>1 DEF DaemonCrash, ForeignDaemon, daemonVars, sessionVars, Serving
  <2> QED BY <2>1, DaemonQuiet
<1>2. CASE LoseFrames
  <2>1. /\ UNCHANGED <<handshake_nonce, os, Serving>>
        /\ \/ UNCHANGED toHost
           \/ toHost # <<>> /\ toHost' = Tail(toHost)
    BY <1>2 DEF LoseFrames, daemonVars, sessionVars, Serving
  <2>2. /\ toHost \in Seq(DeviceMessage) /\ Pending \in Nat
        /\ RequestsIn(queue, n) \in Nat /\ RequestsIn(toHost, n) \in Nat
    BY PendingType
  <2>3. RequestsIn(toHost', n) \in 0..RequestsIn(toHost, n)
    <3>1. CASE UNCHANGED toHost
      BY <2>2, <3>1
    <3>2. CASE toHost # <<>> /\ toHost' = Tail(toHost)
      <4>1. RequestsIn(toHost', n) = RequestsIn(toHost, n) - One(Head(toHost), n)
        BY <2>2, <3>2, CountTail
      <4>2. Tail(toHost) \in Seq(DeviceMessage)
        BY <2>2, <3>2
      <4>3. RequestsIn(toHost', n) \in Nat
        BY <3>2, <4>2, CountType
      <4>4. One(Head(toHost), n) \in {0, 1}
        BY DEF One
      <4> QED BY <2>2, <4>1, <4>3, <4>4
    <3> QED BY <2>1, <3>1, <3>2
  <2>4. /\ Pending = RequestsIn(queue, n) + RequestsIn(toHost, n)
        /\ Pending' = RequestsIn(queue, n) + RequestsIn(toHost', n)
    BY <2>1 DEF Pending
  <2>5. Pending' \in 0..Pending
    BY <2>2, <2>3, <2>4
  <2> QED BY <2>1, <2>5, Loses
<1>3. CASE HostOff
  <2>1. os = "stopping" /\ os' = "off" /\ Serving' = "none" /\ UNCHANGED <<toHost, handshake_nonce>>
    BY <1>3 DEF HostOff, sessionVars, linkVars, Serving
  <2>2. UNCHANGED Pending
    BY <2>1 DEF Pending
  <2> QED BY <2>1, <2>2 DEF ServiceStep, Service!Next, Service!Halt
<1>4. CASE HostBoot
  <2>1. os = "off" /\ os' = "up" /\ UNCHANGED <<Serving, toHost, handshake_nonce>>
    BY <1>4 DEF HostBoot, sessionVars, linkVars, Serving
  <2>2. UNCHANGED Pending
    BY <2>1 DEF Pending
  <2> QED BY <2>1, <2>2 DEF ServiceStep, Service!Next, Service!Boot
<1> QED BY <1>1, <1>2, <1>3, <1>4 DEF HostEnvironment

-----------------------------------------------------------------------------

LEMMA ServiceStarts == Init => Service!Init
<1> SUFFICES ASSUME Init PROVE Service!Init
  OBVIOUS
<1>1. /\ queue = <<DeviceFrame("Hello", NoSession)>> /\ toHost = <<>>
      /\ handshake_nonce = 0 /\ os = "up" /\ Serving = "none"
  BY DEF Init, LinkInit, DaemonInit, StickInit, NoSession, Serving
<1>2. DeviceFrame("Hello", NoSession) \in DeviceMessage
  BY FrameTypes DEF NoSession
<1> DEFINE h == DeviceFrame("Hello", NoSession)
<1>3. h \in DeviceMessage /\ ~IsCurrent(h, 0)
  BY <1>2 DEF IsCurrent, IsRequest, DeviceFrame
<1>4. RequestsIn(queue, 0) = 0
  <2> HIDE DEF h
  <2>1. queue = <<h>>
    BY <1>1 DEF h
  <2>2. <<h>> \in Seq(DeviceMessage) /\ \A i \in 1..Len(<<h>>) : ~IsCurrent(<<h>>[i], 0)
    BY <1>3
  <2> QED BY <2>1, <2>2, CountNone
<1>5. RequestsIn(toHost, 0) = 0
  <2>1. <<>> \in Seq(DeviceMessage) /\ \A i \in 1..Len(<<>>) : ~IsCurrent(<<>>[i], 0)
    OBVIOUS
  <2> QED BY <1>1, <2>1, CountNone
<1>6. Pending = 0
  BY <1>1, <1>4, <1>5 DEF Pending
<1> QED BY <1>1, <1>6 DEF Service!Init

LEMMA EachStepServes == SessionInv /\ [Next]_vars => ServiceStep
<1> SUFFICES ASSUME SessionInv, [Next]_vars PROVE ServiceStep
  OBVIOUS
<1>1. TypeOK /\ BlockInSession /\ ProtocolInv
  BY DEF SessionInv
<1>2. CASE DaemonNext /\ UNCHANGED stickVars
  BY <1>1, <1>2, DaemonServes DEF stickVars
<1>3. CASE StickNext /\ UNCHANGED daemonVars
  BY <1>1, <1>3, StickServes
<1>4. CASE HostEnvironment /\ UNCHANGED stickVars
  BY <1>1, <1>4, EnvironmentServes DEF stickVars
<1>5. CASE UNCHANGED vars
  <2>1. UNCHANGED <<queue, toHost, handshake_nonce, os, Serving>>
    BY <1>5 DEF vars, daemonVars, stickVars, linkVars, sessionVars, Serving
  <2> QED BY <2>1, DaemonQuiet
<1> QED BY <1>2, <1>3, <1>4, <1>5 DEF Next

\* The daemon and the stick implement ShutdownService: whatever is lost, cut, repeated
\* or restarted, a long press is served at most once and only in the connection it was
\* made in, and the host is told to power off once for each press that is served.
THEOREM SessionImplementsService == Spec => ImplementsService
<1>1. Init => Service!Init
  BY ServiceStarts
<1>2. SessionInv /\ [Next]_vars => [Service!Next]_(Service!serviceVars)
  BY EachStepServes DEF ServiceStep
<1> QED BY <1>1, <1>2, SessionInvariant, PTL DEF Spec, ImplementsService, Service!Spec

=============================================================================
