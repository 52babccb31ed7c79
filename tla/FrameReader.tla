---------------------------- MODULE FrameReader -----------------------------
(***************************************************************************)
(* The daemon's side of the byte stream: the FrameDecoder of the protocol  *)
(* crate and the loop of main() that feeds it.  The port may be opened in  *)
(* the middle of a frame, so everything up to the first delimiter is       *)
(* skipped; from there on the decoder cuts the stream into frames, and     *)
(* drops one that does not fit its buffer without losing its place.        *)
(*                                                                         *)
(* `segment` and `cut` are ghost: the bytes the stick has sent since its   *)
(* last delimiter, and whether the port was opened somewhere among them.   *)
(***************************************************************************)
EXTENDS Naturals, Sequences

CONSTANTS N,            \* buffer size of FrameDecoder<N>
          Bytes,        \* the bytes of a COBS frame; none of them is the delimiter
          MaxSegment    \* bound on the bytes between two delimiters

Delimiter == 0

ASSUME ReaderAssumption == N \in Nat /\ MaxSegment \in Nat /\ Delimiter \notin Bytes

VARIABLES bytes,                \* FrameDecoder.bytes[..len]
          discarding,           \* FrameDecoder.discarding
          input_synchronized,
          out,                  \* what the last push returned
          segment, cut

vars == <<bytes, discarding, input_synchronized, out, segment, cut>>

Result(kind, frame) == [kind |-> kind, frame |-> frame]

Nothing == Result("None", <<>>)

Results == [kind : {"None", "Frame", "EmptyFrame", "FrameTooLong"}, frame : Seq(Bytes)]

TypeOK ==
    /\ bytes \in Seq(Bytes)
    /\ discarding \in BOOLEAN
    /\ input_synchronized \in BOOLEAN
    /\ out \in Results
    /\ segment \in Seq(Bytes)
    /\ cut \in BOOLEAN

Init ==
    /\ bytes = <<>>
    /\ discarding = FALSE
    /\ input_synchronized = FALSE
    /\ out = Nothing
    /\ segment = <<>>
    /\ cut = TRUE

\* The port is opened, or reopened, wherever the stick is in its output.
Open ==
    /\ bytes' = <<>>
    /\ discarding' = FALSE
    /\ input_synchronized' = FALSE
    /\ out' = Nothing
    /\ cut' = TRUE
    /\ UNCHANGED segment

\* Mutant: the buffer is filled to its last byte, where the delimiter goes.
FullWithoutDelimiter == Len(bytes) >= N

\* Room for the delimiter is reserved.
Full == Len(bytes) + 1 >= N

\* FrameDecoder::push of a byte that is not the delimiter.
Push(byte) ==
    /\ out' = Nothing
    /\ IF discarding THEN UNCHANGED <<bytes, discarding>>
       ELSE IF Full THEN bytes' = <<>> /\ discarding' = TRUE
       ELSE bytes' = Append(bytes, byte) /\ UNCHANGED discarding

\* FrameDecoder::push of the delimiter.
PushDelimiter ==
    /\ out' = IF discarding THEN Result("FrameTooLong", <<>>)
              ELSE IF bytes = <<>> THEN Result("EmptyFrame", <<>>)
              ELSE Result("Frame", bytes)
    /\ bytes' = <<>>
    /\ discarding' = FALSE

\* Mutant: the first bytes after the open are pushed as well.
SkipsNothing == FALSE

Skips == ~input_synchronized

ReadByte(byte) ==
    /\ Len(segment) < MaxSegment
    /\ segment' = Append(segment, byte)
    /\ IF Skips THEN UNCHANGED <<bytes, discarding, out>> ELSE Push(byte)
    /\ UNCHANGED <<input_synchronized, cut>>

ReadDelimiter ==
    /\ segment' = <<>>
    /\ cut' = FALSE
    /\ IF Skips
       THEN bytes' = <<>> /\ discarding' = FALSE /\ UNCHANGED out
       ELSE PushDelimiter
    /\ input_synchronized' = TRUE

Next == Open \/ ReadDelimiter \/ \E byte \in Bytes : ReadByte(byte)

Spec == Init /\ [][Next]_vars

-----------------------------------------------------------------------------
(* Properties.                                                             *)

\* What a delimiter must produce: the whole segment, if encode could have
\* produced it in a buffer of N bytes.
Deframed(s) ==
    IF s = <<>> THEN Result("EmptyFrame", <<>>)
    ELSE IF Len(s) + 1 <= N THEN Result("Frame", s)
    ELSE Result("FrameTooLong", <<>>)

\* Every frame the stick's encoder can produce is returned byte for byte, and
\* only a longer one is refused, no matter how many long, empty or interrupted
\* frames and reopened ports came before it.
FramesIntact ==
    [][ReadDelimiter /\ input_synchronized => out' = Deframed(segment)]_vars

\* No frame is returned whose beginning was sent before the port was opened.
WholeFrames == [][ReadDelimiter /\ out'.kind = "Frame" => ~cut]_vars

\* The decoder's buffer is exactly what has arrived since the last delimiter,
\* or it is discarding a segment that cannot fit.
ReaderInv ==
    /\ TypeOK
    /\ ~input_synchronized => bytes = <<>> /\ ~discarding /\ out = Nothing
    /\ input_synchronized /\ discarding => Len(segment) + 1 > N /\ segment # <<>>
    /\ input_synchronized /\ ~discarding =>
          /\ bytes = segment
          /\ segment # <<>> => Len(segment) + 1 <= N
    /\ input_synchronized => ~cut

=============================================================================
