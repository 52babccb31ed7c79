------------------------------ MODULE UsbLink ------------------------------
(***************************************************************************)
(* The USB serial link between the servatory daemon on the Proxmox host    *)
(* and the StickS3, as typed COBS frames in two first-in first-out wires.  *)
(* A wire holds everything between a completed write and the reader's      *)
(* frame decoder: kernel buffers, endpoint FIFOs, and the frame being      *)
(* written.  A write that stops in the middle of a frame leaves a          *)
(* Fragment: it has no delimiter, so the bytes of the next frame complete  *)
(* it, and the reader's decoder sees one malformed (Garbled) frame instead *)
(* of two.                                                                 *)
(*                                                                         *)
(* A payload is reduced to what the properties tell apart: the number of   *)
(* LCD pages a manifest describes.  Fields marked "ghost" are not in the   *)
(* encoded frame; they record the sender's state for the properties and no *)
(* action reads them.                                                      *)
(***************************************************************************)
EXTENDS Naturals, Sequences

CONSTANTS WireCap,     \* frames a wire holds before its writer has to wait
          MaxFaults,   \* budget of failed writes, crashes and reboots
          FramePages   \* largest page count whose frame fits MAX_HOST_FRAME_LEN

\* validate_manifest_sizes refuses a configuration whose manifests for zero
\* guests (one guest page) do not fit.
ASSUME LinkAssumption == /\ WireCap \in Nat \ {0}
                         /\ MaxFaults \in Nat
                         /\ FramePages \in Nat \ {0}

VARIABLES toStick,   \* host to stick wire
          toHost,    \* stick to host wire
          faults     \* faults the environment may still inject

NoSession == 0

ShutdownPhase == {"PreparingGuests", "StoppingGuests", "GuestsStopped", "PoweringOff"}

\* "Foreign" is a frame of a daemon with another PROTOCOL_VERSION.
SessionKinds == {"DisplayConfig", "NetworkConfig", "HealthSnapshot",
                 "ShutdownAccepted", "ShutdownFailed"} \cup ShutdownPhase

NoiseKinds == {"Fragment", "Garbled", "Foreign"}

\* `session` is the nonce of Hello and ghost otherwise.  `pages` is the page
\* count of a manifest, or the number of guest pages a HealthSnapshot needs;
\* `display` and `network` are ghost: the manifests the daemon held when it
\* wrote a HealthSnapshot.
HostMessage == [kind : {"Hello"} \cup SessionKinds \cup NoiseKinds,
                session : Nat, pages : Nat, display : Nat, network : Nat]

\* `session` is acknowledged_session of Hello (NoSession for None) and, ghost,
\* the stick's session when a shutdown was requested.
DeviceMessage == [kind : {"Hello", "ShutdownRequested"} \cup NoiseKinds, session : Nat]

HostFrame(k, s, p) ==
    [kind |-> k, session |-> s, pages |-> p, display |-> 0, network |-> 0]

HostNoise(k) == HostFrame(k, NoSession, 0)

DeviceFrame(k, s) == [kind |-> k, session |-> s]

DeviceNoise(k) == DeviceFrame(k, NoSession)

\* A reader gets a frame only once its delimiter has arrived.
Readable(wire) == wire # <<>> /\ Head(wire).kind # "Fragment"

EndsInFragment(wire) == wire # <<>> /\ wire[Len(wire)].kind = "Fragment"

\* A fragment waits in the reader's decoder and takes no room.
HasRoom(wire) == Len(wire) < WireCap \/ EndsInFragment(wire)

\* The frame m written behind what is on the wire: after a fragment, m's bytes
\* only serve to complete the malformed frame.
Put(wire, m, garbled) ==
    IF EndsInFragment(wire)
    THEN IF m.kind = "Fragment" THEN wire ELSE [wire EXCEPT ![Len(wire)] = garbled]
    ELSE Append(wire, m)

PutHost(m) == Put(toStick, m, HostNoise("Garbled"))

PutDevice(m) == Put(toHost, m, DeviceNoise("Garbled"))

\* encode_host: a frame longer than MAX_HOST_FRAME_LEN is an encoding error.
Fits(m) == m.pages <= FramePages

LinkTypeOK ==
    /\ toStick \in Seq(HostMessage)
    /\ toHost \in Seq(DeviceMessage)
    /\ faults \in Nat

LinkInit ==
    /\ toStick = <<>>
    /\ toHost = <<>>
    /\ faults = MaxFaults

Fault == faults > 0 /\ faults' = faults - 1

=============================================================================
