------------------------------- MODULE Codec --------------------------------
(***************************************************************************)
(* The frames of the protocol crate, byte for byte, in the direction from  *)
(* the stick to the daemon: encode and decode of protocol/src/lib.rs, and  *)
(* what becomes of frames the stick did not finish.                        *)
(*                                                                         *)
(* postcard and cobs are external and modelled by what they do: varints,   *)
(* length-prefixed strings, tagged options, unused bytes ignored, blocks   *)
(* of bytes that are not zero.  No message here has a block of 254 bytes.  *)
(***************************************************************************)
EXTENDS Naturals, Sequences

CONSTANTS Versions,      \* firmware versions, as their bytes
          Sessions,      \* acknowledged nonces
          VarintBytes,   \* the longest varint: 10 bytes, for the 64 bits of a nonce
          OldVersions,   \* versions of the protocol through v5
          MaxCuts        \* bound on unfinished frames in a row

VARIABLES stream,     \* bytes since the last delimiter
          cuts,       \* unfinished frames among them
          received    \* what the daemon made of the last delimiter

vars == <<stream, cuts, received>>

PROTOCOL_VERSION == 10

\* Mutant: a mark whose bytes are small block lengths.
SmallMagic == <<1, 2>>

FRAME_MAGIC == <<165, 90>>

MAX_DEVICE_FRAME_LEN == 128

\* DeviceMessage; an acknowledged_session is an option.
ShutdownRequested == [kind |-> "ShutdownRequested"]

Hello(version, session) ==
    [kind |-> "Hello", firmware_version |-> version, acknowledged_session |-> session]

DeviceMessage == {ShutdownRequested}
    \cup {Hello(v, s) : v \in Versions, s \in {<<>>} \cup {<<n>> : n \in Sessions}}

Error(kind) == [kind |-> kind, received |-> 0]

UnsupportedVersion(version) == [kind |-> "UnsupportedVersion", received |-> version]

-----------------------------------------------------------------------------
(* postcard.                                                               *)

\* The number without its lowest 7, 14, ... bits.
Shifted(n) ==
    LET shifted[k \in 0..VarintBytes] == IF k = 0 THEN n ELSE shifted[k - 1] \div 128
    IN  shifted

CodecAssumption ==
    /\ \A v \in Versions : v \in Seq(1..127)
    /\ OldVersions \subseteq 1..5 /\ MaxCuts \in Nat /\ VarintBytes \in Nat \ {0}
    /\ \A n \in Sessions : n \in Nat /\ Shifted(n)[VarintBytes] = 0

\* Seven bits a byte, the lowest first; every byte but the last has its highest bit set.
VarintLength(n) ==
    CHOOSE k \in 1..VarintBytes :
        Shifted(n)[k] = 0 /\ \A j \in 1..(k - 1) : Shifted(n)[j] # 0

Varint(n) ==
    [i \in 1..VarintLength(n) |->
        (Shifted(n)[i - 1] % 128) + (IF i = VarintLength(n) THEN 0 ELSE 128)]

Serialized(m) ==
    IF m.kind = "ShutdownRequested" THEN <<0>>
    ELSE <<1, Len(m.firmware_version)>> \o m.firmware_version
         \o (IF m.acknowledged_session = <<>> THEN <<0>>
             ELSE <<1>> \o Varint(m.acknowledged_session[1]))

\* The varint at the start of a sequence: its value and its length, length 0 when
\* the sequence or the longest varint ends first.
ReadVarint(s) ==
    LET ends == {i \in 1..VarintBytes : i <= Len(s) /\ s[i] < 128 /\ \A j \in 1..(i - 1) : s[j] >= 128}
        n == CHOOSE i \in ends : TRUE
        \* the last k bytes of it
        value[k \in 0..n] == IF k = 0 THEN 0 ELSE (s[n + 1 - k] % 128) + 128 * value[k - 1]
    IN  IF ends = {} THEN [value |-> 0, length |-> 0] ELSE [value |-> value[n], length |-> n]

Drop(s, n) == SubSeq(s, n + 1, Len(s))

\* from_bytes: a message, or Deserialize.
Deserialized(s) ==
    IF s = <<>> THEN Error("Deserialize")
    ELSE IF s[1] = 0 THEN ShutdownRequested
    ELSE IF s[1] # 1 THEN Error("Deserialize")
    ELSE LET size == ReadVarint(Drop(s, 1))
             text == SubSeq(s, 2 + size.length, 1 + size.length + size.value)
             rest == Drop(s, 1 + size.length + size.value)
             session == ReadVarint(Drop(rest, 1))
         IN  IF \/ size.length = 0 \/ Len(s) < 1 + size.length + size.value
                \/ \E i \in DOMAIN text : text[i] > 127
                \/ rest = <<>>
             THEN Error("Deserialize")
             ELSE IF rest[1] = 0 THEN Hello(text, <<>>)
             ELSE IF rest[1] # 1 \/ session.length = 0 THEN Error("Deserialize")
             ELSE Hello(text, <<session.value>>)

-----------------------------------------------------------------------------
(* cobs.                                                                   *)

\* The distance to the next zero, the one after the last byte included.
Distance(s, i) ==
    LET zeros == {j \in i..(Len(s) + 1) : Append(s, 0)[j] = 0}
    IN  (CHOOSE j \in zeros : \A k \in zeros : j <= k) - i + 1

\* Every zero, and the start, is replaced by the distance to the next.
CobsEncoded(s) ==
    [i \in 1..(Len(s) + 1) |->
        IF i = 1 THEN Distance(s, 1) ELSE IF s[i - 1] = 0 THEN Distance(s, i) ELSE s[i - 1]]

\* decode_in_place takes a byte: one of a block, or the length of the next, behind which
\* there are `behind` bytes.  Every block but one of 254 bytes gives a zero, unless it is
\* the last.
Takes(state, byte, behind) ==
    IF state.left > 0 THEN [state EXCEPT !.left = @ - 1, !.bytes = Append(@, byte)]
    ELSE [ok |-> state.ok /\ (byte <= behind + 1 \/ byte = 1),
          left |-> IF byte = 0 THEN 0 ELSE byte - 1,
          zero |-> byte # 255,
          bytes |-> IF state.zero THEN Append(state.bytes, 0) ELSE state.bytes]

\* decode_in_place, the delimiter included in s: not ok where a block would exceed s.
CobsDecoded(s) ==
    LET after[k \in 0..Len(s)] ==
            IF k = 0 THEN [ok |-> TRUE, left |-> 0, zero |-> FALSE, bytes |-> <<>>]
            ELSE Takes(after[k - 1], s[k], Len(s) - k)
    IN  after[Len(s)]

-----------------------------------------------------------------------------

\* Mutant: the version goes into the COBS body, as through v5.
EncodeVersionInBody(message) ==
    FRAME_MAGIC \o CobsEncoded(<<PROTOCOL_VERSION>> \o Serialized(message))

\* encode, without the delimiter: the header is not part of the COBS body.
encode(message) == FRAME_MAGIC \o <<PROTOCOL_VERSION>> \o CobsEncoded(Serialized(message))

\* UsbTx::poll drops a message whose frame, with the delimiter, its buffer cannot hold.
Sendable == {m \in DeviceMessage : Len(encode(m)) < MAX_DEVICE_FRAME_LEN}

\* Protocols through v5: the version inside the body, and a message of their own.
legacy(version) == CobsEncoded(<<version, 254, 237, 0>>)

\* starts_with
Marked(frame) == Len(frame) >= 2 /\ SubSeq(frame, 1, 2) = FRAME_MAGIC

\* Mutant: a frame without the mark is taken for malformed.
DecodeMarkedOnly(frame) ==
    LET body == CobsDecoded(Drop(frame, 3))
    IN  IF ~Marked(frame) THEN Error("Deserialize")
        ELSE IF frame[3] # PROTOCOL_VERSION THEN UnsupportedVersion(frame[3])
        ELSE IF body.ok THEN Deserialized(body.bytes) ELSE Error("Deserialize")

decode(frame) ==
    IF Marked(frame)
    THEN LET body == CobsDecoded(Drop(frame, 3))
         IN  IF frame[3] # PROTOCOL_VERSION THEN UnsupportedVersion(frame[3])
             ELSE IF body.ok THEN Deserialized(body.bytes) ELSE Error("Deserialize")
    ELSE LET whole == CobsDecoded(frame)
         IN  IF ~whole.ok \/ whole.bytes = <<>> THEN Error("Deserialize")
             ELSE UnsupportedVersion(whole.bytes[1])

\* FrameDecoder, then decode_device.
Receives(bytes) ==
    IF bytes = <<>> THEN Error("EmptyFrame")
    ELSE IF Len(bytes) + 1 > MAX_DEVICE_FRAME_LEN THEN Error("FrameTooLong")
    ELSE decode(Append(bytes, 0))

Nothing == [result |-> Error("EmptyFrame"), of |-> Error("EmptyFrame"), glued |-> FALSE, legacy |-> FALSE]

Init == stream = <<>> /\ cuts = 0 /\ received = Nothing

\* The stick resets, or the port fails, in the middle of a frame.
Cut(message) ==
    /\ cuts < MaxCuts
    /\ \E n \in 0..Len(encode(message)) : stream' = stream \o SubSeq(encode(message), 1, n)
    /\ cuts' = cuts + 1
    /\ received' = Nothing

\* A frame is written to its end.
Sends(message) ==
    /\ received' = [result |-> Receives(stream \o encode(message)), of |-> message,
                    glued |-> stream # <<>>, legacy |-> FALSE]
    /\ stream' = <<>> /\ cuts' = 0

\* A stick with an old firmware, or with one of the next version.
SendsOther ==
    /\ stream = <<>>
    /\ \/ \E v \in OldVersions :
             received' = [result |-> Receives(legacy(v)), of |-> UnsupportedVersion(v),
                          glued |-> FALSE, legacy |-> TRUE]
       \/ \E m \in Sendable :
             LET next == [encode(m) EXCEPT ![3] = PROTOCOL_VERSION + 1]
             IN  received' = [result |-> Receives(next), of |-> UnsupportedVersion(PROTOCOL_VERSION + 1),
                              glued |-> FALSE, legacy |-> TRUE]
    /\ UNCHANGED <<stream, cuts>>

Next == SendsOther \/ \E m \in Sendable : Cut(m) \/ Sends(m)

Spec == Init /\ [][Next]_vars

-----------------------------------------------------------------------------
(* Properties.                                                             *)

\* A frame that arrives whole is decoded to the message encode was given.
RoundTrip == (received.of.kind # "EmptyFrame" /\ ~received.glued /\ ~received.legacy)
                => received.result = received.of

\* The display of another protocol, v5 and before included, is told by its version and
\* never taken for a message, whatever its message looks like.
VersionsTold == received.legacy => received.result = received.of

\* Unfinished frames and the frame that completes them are never decoded as a request
\* to shut the host down, although frames have no checksum.
NoPhantomShutdown == received.glued => received.result # ShutdownRequested

\* decode_device: "Returns an error for malformed data".  Unfinished frames and the
\* one that completes them give an error, or the message of a frame written whole.
GluedRefused ==
    received.glued => received.result.kind \notin {"Hello", "ShutdownRequested"}
                      \/ received.result = received.of

=============================================================================
