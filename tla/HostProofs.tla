----------------------------- MODULE HostProofs -----------------------------
(***************************************************************************)
(* Proofs about what surrounds the daemon's main loop: its frame reader,   *)
(* for every buffer size and byte set, the commands it runs, for pipes,    *)
(* outputs and timeouts of any size; the frames of the display, for every  *)
(* firmware version and nonce, where the argument goes through the varints *)
(* of postcard, the blocks of COBS and the messages to what unfinished     *)
(* frames may leave before a whole one; its uplink, for every stack of     *)
(* interfaces: the recursion ends, as each step visits one more, and by    *)
(* induction on what is left it stays below the routed one; and the mock   *)
(* host in its place, for any number of starts, faults and frames.         *)
(***************************************************************************)
EXTENDS MCHost, TLAPS, SequenceTheorems, FiniteSetTheorems, NaturalsInduction,
        WellFoundedInduction

-----------------------------------------------------------------------------
(* FrameReader.                                                            *)

\* What push returns has its type.
LEMMA ResultTypes ==
    /\ <<>> \in Seq(Bytes)
    /\ Nothing \in Results /\ Nothing.kind = "None"
    /\ \A k \in {"Frame", "EmptyFrame", "FrameTooLong"}, f \in Seq(Bytes) : Result(k, f) \in Results
<1>1. <<>> \in Seq(Bytes)
  OBVIOUS
<1> QED BY <1>1 DEF Nothing, Result, Results

\* The reader starts with an empty buffer, before any delimiter.
LEMMA ReaderInit == Init => ReaderInv
BY ResultTypes DEF Init, ReaderInv, TypeOK

\* Every byte read keeps the buffer equal to the segment, or marks the segment
\* as too long.
LEMMA ReaderStep == ReaderInv /\ [Next]_vars => ReaderInv'
<1> SUFFICES ASSUME ReaderInv, [Next]_vars PROVE ReaderInv'
  OBVIOUS
<1> USE ReaderAssumption
<1>1. CASE Open
  BY <1>1, ResultTypes, Zenon DEF ReaderInv, TypeOK, Open
<1>2. CASE ReadDelimiter
  <2>1. TypeOK'
    <3>1. out' \in Results
      BY <1>2, ResultTypes DEF ReaderInv, TypeOK, ReadDelimiter, PushDelimiter
    <3> QED BY <1>2, <3>1, ResultTypes, Zenon DEF TypeOK, ReadDelimiter, PushDelimiter
  <2>2. /\ bytes' = <<>> /\ discarding' = FALSE /\ input_synchronized' = TRUE
        /\ segment' = <<>> /\ cut' = FALSE
    BY <1>2 DEF ReadDelimiter, PushDelimiter
  <2> QED BY <2>1, <2>2 DEF ReaderInv
<1>3. ASSUME NEW byte \in Bytes, ReadByte(byte)
      PROVE  ReaderInv'
  <2>1. /\ segment' = Append(segment, byte) /\ segment' \in Seq(Bytes)
        /\ Len(segment') = Len(segment) + 1 /\ segment' # <<>>
        /\ UNCHANGED <<input_synchronized, cut>>
    BY <1>3 DEF ReaderInv, TypeOK, ReadByte
  <2>2. CASE ~input_synchronized
    BY <1>3, <2>1, <2>2 DEF ReaderInv, TypeOK, ReadByte, Skips
  <2>3. CASE input_synchronized /\ discarding
    <3>1. UNCHANGED <<bytes, discarding>> /\ out' = Nothing
      BY <1>3, <2>3 DEF ReadByte, Skips, Push
    <3>2. TypeOK'
      BY <2>1, <3>1, ResultTypes DEF ReaderInv, TypeOK
    <3>3. Len(segment') + 1 > N
      BY <2>1, <2>3 DEF ReaderInv, TypeOK
    <3> QED BY <2>1, <2>3, <3>1, <3>2, <3>3 DEF ReaderInv
  <2>4. CASE input_synchronized /\ ~discarding /\ Full
    <3>1. bytes' = <<>> /\ discarding' = TRUE /\ out' = Nothing
      BY <1>3, <2>4 DEF ReadByte, Skips, Push
    <3>2. TypeOK'
      BY <2>1, <3>1, ResultTypes DEF ReaderInv, TypeOK
    <3>3. bytes = segment /\ Len(segment) + 1 >= N
      BY <2>4 DEF ReaderInv, Full
    <3>4. Len(segment') + 1 > N
      BY <2>1, <3>3 DEF ReaderInv, TypeOK
    <3> QED BY <2>1, <2>4, <3>1, <3>2, <3>4 DEF ReaderInv
  <2>5. CASE input_synchronized /\ ~discarding /\ ~Full
    <3>1. bytes' = Append(bytes, byte) /\ discarding' = discarding /\ out' = Nothing
      BY <1>3, <2>5 DEF ReadByte, Skips, Push
    <3>2. bytes = segment
      BY <2>5 DEF ReaderInv
    <3>3. TypeOK'
      BY <2>1, <3>1, <3>2, ResultTypes DEF ReaderInv, TypeOK
    <3>4. Len(segment') + 1 <= N
      BY <2>1, <2>5, <3>2 DEF ReaderInv, TypeOK, Full
    <3> QED BY <2>1, <2>5, <3>1, <3>2, <3>3, <3>4 DEF ReaderInv
  <2> QED BY <2>2, <2>3, <2>4, <2>5
<1>4. CASE UNCHANGED vars
  BY <1>4 DEF ReaderInv, TypeOK, vars
<1> QED BY <1>1, <1>2, <1>3, <1>4 DEF Next

\* The decoder's state stands for the whole segment read so far.
THEOREM BufferIsSegment == Spec => []ReaderInv
BY ReaderInit, ReaderStep, PTL DEF Spec

\* Every frame that encode can produce comes out as it was sent.
THEOREM FramesComeOutIntact == Spec => FramesIntact
<1>1. ReaderInv =>
        [ReadDelimiter /\ input_synchronized => out' = Deframed(segment)]_vars
  <2> SUFFICES ASSUME ReaderInv, ReadDelimiter, input_synchronized
               PROVE  out' = Deframed(segment)
    OBVIOUS
  <2>1. PushDelimiter
    BY DEF ReadDelimiter, Skips
  <2>2. CASE discarding
    <3>1. segment # <<>> /\ Len(segment) + 1 > N /\ Len(segment) \in Nat
      BY <2>2 DEF ReaderInv, TypeOK
    <3> QED BY <2>1, <2>2, <3>1, ReaderAssumption DEF PushDelimiter, Deframed
  <2>3. CASE ~discarding
    BY <2>1, <2>3 DEF PushDelimiter, Deframed, ReaderInv
  <2> QED BY <2>2, <2>3
<1> QED BY <1>1, BufferIsSegment, PTL DEF FramesIntact

\* A frame cut by the opening of the port is never returned.
THEOREM OnlyWholeFrames == Spec => WholeFrames
<1>1. ReaderInv => [ReadDelimiter /\ out'.kind = "Frame" => ~cut]_vars
  <2> SUFFICES ASSUME ReaderInv, ReadDelimiter, out'.kind = "Frame"
               PROVE  ~cut
    OBVIOUS
  <2>1. CASE input_synchronized
    BY <2>1 DEF ReaderInv
  <2>2. CASE ~input_synchronized
    <3>1. out' = Nothing
      BY <2>2, Zenon DEF ReaderInv, ReadDelimiter, Skips
    <3> QED BY <3>1, ResultTypes
  <2> QED BY <2>1, <2>2
<1> QED BY <1>1, BufferIsSegment, PTL DEF WholeFrames

-----------------------------------------------------------------------------
(* Command: the output is complete, and a child is killed only at the       *)
(* deadline or when its state could not be asked for.                      *)

\* A reader that has ended has found its pipe empty with nobody left to write.
EndedReaders ==
    \A p \in Program!Pipes : reader[p] = "done" => buffered[p] = 0 /\ child = "gone" /\ ~descendant

\* The caller joins one reader after the other.
JoinedReaders ==
    /\ caller \in {"joining stderr", "returned"} => reader["stdout"] = "done"
    /\ caller = "returned" => reader["stderr"] = "done"

CommandInv ==
    Program!TypeOK /\ EndedReaders /\ JoinedReaders /\ Program!KilledAtDeadline

-----------------------------------------------------------------------------

\* A pipe that is not full takes one more byte, and one that is not empty gives one.
LEMMA RoomForOne == ASSUME NEW n \in Nat, NEW k \in 0..n, k < n PROVE k + 1 \in 0..n
  OBVIOUS

LEMMA OneLess == ASSUME NEW n \in Nat, NEW k \in 0..n, k > 0 PROVE k - 1 \in 0..n
  OBVIOUS

\* The child runs, with empty pipes.
LEMMA InitialCommand == ASSUME Program!CommandAssumption, Program!Init PROVE CommandInv
<1>1. Program!TypeOK
  <2>1. /\ written \in [Program!Pipes -> 0..MaxOutput] /\ buffered \in [Program!Pipes -> 0..PipeCap]
        /\ reader \in [Program!Pipes -> {"reading", "done"}]
    BY DEF Program!Init, Program!CommandAssumption
  <2>2. /\ child = "running" /\ killed = FALSE /\ descendant = FALSE
        /\ caller = "polling" /\ polls \in 0..Deadline /\ errors = {}
    BY DEF Program!Init, Program!CommandAssumption
  <2> QED BY <2>1, <2>2 DEF Program!TypeOK
<1>2. EndedReaders /\ JoinedReaders /\ Program!KilledAtDeadline
  BY DEF Program!Init, EndedReaders, JoinedReaders, Program!KilledAtDeadline
<1> QED BY <1>1, <1>2 DEF CommandInv

\* The caller's steps: polls, the kill, the wait and the joins.
LEMMA CallerKeepsInv == ASSUME Program!CommandAssumption, CommandInv, Program!Caller PROVE CommandInv'
<1> USE DEF CommandInv, Program!TypeOK, EndedReaders, JoinedReaders, Program!KilledAtDeadline,
            Program!CommandAssumption
<1>1. CASE Program!Exited
  BY <1>1 DEF Program!Exited
<1>2. CASE Program!Sleeps
  BY <1>2 DEF Program!Sleeps
<1>3. CASE Program!Kills
  <2>1. polls = Deadline \/ "poll" \in errors'
    BY <1>3 DEF Program!Kills
  <2>2. errors' \subseteq {"poll", "wait"} /\ child' \in {"running", "blocked", "dying", "gone"}
    BY <1>3 DEF Program!Kills
  <2>3. child = "gone" => child' = "gone"
    BY <1>3 DEF Program!Kills
  <2> QED BY <1>3, <2>1, <2>2, <2>3 DEF Program!Kills
<1>4. CASE Program!Waits
  <2>1. errors \subseteq errors' /\ errors' \subseteq {"poll", "wait"}
    BY <1>4 DEF Program!Waits
  <2> QED BY <1>4, <2>1 DEF Program!Waits
<1>5. CASE Program!Joins
  BY <1>5 DEF Program!Joins
<1> QED BY <1>1, <1>2, <1>3, <1>4, <1>5 DEF Program!Caller

\* The steps of the child and of its descendant, which the caller does not control.
LEMMA ChildKeepsInv == ASSUME Program!CommandAssumption, CommandInv, Program!Child PROVE CommandInv'
<1> USE DEF CommandInv, Program!TypeOK, EndedReaders, JoinedReaders, Program!KilledAtDeadline,
            Program!CommandAssumption
<1>1. ASSUME NEW p \in Program!Pipes, Program!ChildWrites(p) PROVE CommandInv'
  <2>1. written' \in [Program!Pipes -> 0..MaxOutput] /\ buffered' \in [Program!Pipes -> 0..PipeCap]
    <3>1. /\ written[p] \in 0..MaxOutput /\ written[p] < MaxOutput
          /\ buffered[p] \in 0..PipeCap /\ buffered[p] < PipeCap
      BY <1>1 DEF Program!ChildWrites
    <3>2. written[p] + 1 \in 0..MaxOutput /\ buffered[p] + 1 \in 0..PipeCap
      BY <3>1, RoomForOne
    <3> QED BY <1>1, <3>2 DEF Program!ChildWrites
  <2>2. EndedReaders'
    <3>1. \A q \in Program!Pipes : reader'[q] # "done"
      BY <1>1 DEF Program!ChildWrites
    <3> QED BY <3>1
  <2>3. JoinedReaders' /\ Program!KilledAtDeadline'
    BY <1>1 DEF Program!ChildWrites
  <2> QED BY <1>1, <2>1, <2>2, <2>3 DEF Program!ChildWrites
<1>2. CASE Program!ChildExits
  BY <1>2 DEF Program!ChildExits
<1>3. CASE Program!ChildForks
  BY <1>3 DEF Program!ChildForks
<1>4. CASE Program!DescendantEnds
  BY <1>4 DEF Program!DescendantEnds
<1>5. CASE Program!ChildBlocks
  BY <1>5 DEF Program!ChildBlocks
<1>6. CASE Program!CallReturns
  BY <1>6 DEF Program!CallReturns
<1> QED BY <1>1, <1>2, <1>3, <1>4, <1>5, <1>6 DEF Program!Child

\* The steps of the reader threads.
LEMMA ReadersKeepInv ==
    ASSUME Program!CommandAssumption, CommandInv, NEW p \in Program!Pipes,
           Program!Reads(p) \/ Program!Ends(p)
    PROVE CommandInv'
<1> USE DEF CommandInv, Program!TypeOK, EndedReaders, JoinedReaders, Program!KilledAtDeadline,
            Program!CommandAssumption
<1>1. CASE Program!Reads(p)
  <2>1. buffered' \in [Program!Pipes -> 0..PipeCap]
    <3>1. buffered[p] \in 0..PipeCap /\ buffered[p] > 0
      BY <1>1 DEF Program!Reads
    <3>2. buffered[p] - 1 \in 0..PipeCap
      BY <3>1, OneLess
    <3> QED BY <1>1, <3>2 DEF Program!Reads
  <2>2. EndedReaders'
    <3> SUFFICES ASSUME NEW q \in Program!Pipes, reader'[q] = "done"
                 PROVE  buffered'[q] = 0 /\ child' = "gone" /\ ~descendant'
      OBVIOUS
    <3>1. reader[q] = "done" /\ q # p
      BY <1>1 DEF Program!Reads
    <3>2. buffered[q] = 0 /\ child = "gone" /\ ~descendant
      BY <3>1
    <3> QED BY <1>1, <3>1, <3>2 DEF Program!Reads
  <2>3. JoinedReaders' /\ Program!KilledAtDeadline'
    BY <1>1 DEF Program!Reads
  <2> QED BY <1>1, <2>1, <2>2, <2>3 DEF Program!Reads
<1>2. CASE Program!Ends(p)
  <2>1. reader' \in [Program!Pipes -> {"reading", "done"}]
    BY <1>2 DEF Program!Ends
  <2>2. EndedReaders'
    BY <1>2 DEF Program!Ends
  <2>3. JoinedReaders'
    <3>1. \A q \in Program!Pipes : reader[q] = "done" => reader'[q] = "done"
      BY <1>2 DEF Program!Ends
    <3> QED BY <1>2, <3>1 DEF Program!Ends, Program!Pipes
  <2>4. Program!KilledAtDeadline'
    BY <1>2 DEF Program!Ends
  <2> QED BY <1>2, <2>1, <2>2, <2>3, <2>4 DEF Program!Ends
<1> QED BY <1>1, <1>2

\* command_output: the variables keep their types, a reader ends only at the end of the
\* output, and the caller returns only after both.
THEOREM CommandInvariant == ASSUME Program!CommandAssumption PROVE Program!Spec => []CommandInv
<1>1. Program!Init => CommandInv
  BY InitialCommand
<1>2. CommandInv /\ [Program!Next]_(Program!vars) => CommandInv'
  <2>1. CASE UNCHANGED Program!vars
    BY <2>1 DEF Program!vars, CommandInv, Program!TypeOK, EndedReaders, JoinedReaders,
                Program!KilledAtDeadline
  <2>2. CASE Program!Next
    BY <2>2, CallerKeepsInv, ChildKeepsInv, ReadersKeepInv DEF Program!Next
  <2> QED BY <2>1, <2>2
<1> QED BY <1>1, <1>2, PTL DEF Program!Spec

\* What command_output returns is the whole output of the child, however it came to
\* its end: nothing is left in the pipes, also when a poll or the wait has failed.
THEOREM OutputIsComplete ==
    ASSUME Program!CommandAssumption PROVE Program!Spec => []Program!OutputComplete
<1>1. CommandInv => Program!OutputComplete
  BY DEF CommandInv, EndedReaders, JoinedReaders, Program!OutputComplete, Program!Pipes
<1> QED BY <1>1, CommandInvariant, PTL

\* command_output kills the child only when the whole timeout has passed or try_wait has
\* failed: no order of its polls, of the child's exit and of the readers kills it earlier.
THEOREM KillsOnlyLate ==
    ASSUME Program!CommandAssumption PROVE Program!Spec => []Program!KilledAtDeadline
<1>1. CommandInv => Program!KilledAtDeadline
  BY DEF CommandInv
<1> QED BY <1>1, CommandInvariant, PTL

-----------------------------------------------------------------------------
(* Sets of numbers.                                                        *)

\* A set of numbers with an element has a least one.
LEMMA Least ==
    ASSUME NEW T, T \subseteq Nat, T # {}
    PROVE  \E x \in T : \A y \in T : x <= y
<1>1. \E R : IsWellFoundedOn(R, Nat) /\ \A x, y \in Nat : <<y, x>> \in R <=> y < x
  <2> DEFINE Q == OpToRel(<, Nat)
  <2>1. IsWellFoundedOn(Q, Nat)
    BY NatLessThanWellFounded
  <2>2. \A x, y \in Nat : <<y, x>> \in Q <=> y < x
    BY DEF OpToRel
  <2> HIDE DEF Q
  <2> QED BY <2>1, <2>2
<1>2. PICK R : IsWellFoundedOn(R, Nat) /\ \A x, y \in Nat : <<y, x>> \in R <=> y < x
  BY <1>1
<1>3. \E x \in T : \A y \in T : ~(<<y, x>> \in R)
  BY <1>2, WFMin
<1>4. PICK x \in T : \A y \in T : ~(<<y, x>> \in R)
  BY <1>3
<1>5. ASSUME NEW y \in T PROVE x <= y
  <2>1. ~(y < x) /\ x \in Nat /\ y \in Nat
    BY <1>2, <1>4
  <2> QED BY <2>1
<1> QED BY <1>5

\* So a set of numbers with 0 and every successor holds them all.
LEMMA Induction ==
    ASSUME NEW End \in Nat, NEW T, 0 \in T, \A n \in 0..End : n > 0 /\ n - 1 \in T => n \in T
    PROVE  0..End \subseteq T
<1> DEFINE D == {n \in 0..End : n \notin T}
<1>1. SUFFICES ASSUME D # {} PROVE FALSE
  OBVIOUS
<1>2. D \subseteq Nat
  OBVIOUS
<1>3. PICK n \in D : \A k \in D : n <= k
  <2> HIDE DEF D
  <2> QED BY <1>1, <1>2, Least
<1>4. n \in 0..End /\ n \notin T /\ n # 0
  OBVIOUS
<1>5. n - 1 \in 0..End /\ ~(n <= n - 1)
  BY <1>4
<1>6. n - 1 \in T
  BY <1>3, <1>5
<1> QED BY <1>4, <1>6

-----------------------------------------------------------------------------
(* The codec.                                                              *)

\* A function over 0..End is defined by its first value and by the step from each value to
\* the next, here the function g.
Recurs(f, End, V, base, g) ==
    f \in [0..End -> V] /\ f[0] = base /\ \A k \in 1..End : f[k] = g[k][f[k - 1]]

\* There is such a function.
LEMMA Recursion ==
    ASSUME NEW End \in Nat, NEW V, NEW base \in V, NEW g \in [1..End -> [V -> V]]
    PROVE  \E f : Recurs(f, End, V, base, g)
<1> DEFINE Fits(f, m) == f[0] = base /\ \A k \in 1..m : f[k] = g[k][f[k - 1]]
           T == {m \in 0..End : \E f \in [0..m -> V] : Fits(f, m)}
<1>1. 0 \in T
  <2> DEFINE f == [k \in 0..0 |-> base]
  <2>1. f \in [0..0 -> V] /\ Fits(f, 0)
    OBVIOUS
  <2> HIDE DEF f, Fits
  <2> QED BY <2>1
<1>2. ASSUME NEW m \in 0..End, m > 0, m - 1 \in T
      PROVE  m \in T
  <2>1. PICK f \in [0..(m - 1) -> V] : Fits(f, m - 1)
    BY <1>2
  <2> DEFINE h == [k \in 0..m |-> IF k = m THEN g[m][f[m - 1]] ELSE f[k]]
  <2>2. m \in 1..End /\ m - 1 \in 0..(m - 1) /\ f[m - 1] \in V
    BY <1>2, <2>1
  <2>3. g[m][f[m - 1]] \in V
    BY <2>2
  <2>4. h \in [0..m -> V]
    BY <2>3, <2>1
  <2>5. h[0] = base
    BY <2>1, <1>2
  <2>6. ASSUME NEW k \in 1..m PROVE h[k] = g[k][h[k - 1]]
    <3>1. k - 1 \in 0..m /\ k - 1 # m /\ h[k - 1] = f[k - 1] /\ k \in 0..m
      BY <1>2
    <3>2. CASE k = m
      BY <3>1, <3>2
    <3>3. CASE k # m
      <4>1. k \in 1..(m - 1) /\ h[k] = f[k]
        BY <3>3, <3>1, <1>2
      <4> QED BY <4>1, <3>1, <2>1
    <3> QED BY <3>2, <3>3
  <2> HIDE DEF h
  <2>7. Fits(h, m)
    BY <2>5, <2>6
  <2> HIDE DEF Fits
  <2> QED BY <2>4, <2>7
<1> HIDE DEF T
<1>3. 0..End \subseteq T
  BY <1>1, <1>2, Induction
<1>4. End \in T
  BY <1>3
<1>5. PICK f \in [0..End -> V] : Fits(f, End)
  BY <1>4 DEF T
<1>6. Recurs(f, End, V, base, g)
  BY <1>5 DEF Recurs
<1> QED BY <1>6

\* Shifted(n) is what its definition says.
LEMMA Shifts ==
    ASSUME VarintBytes \in Nat, NEW n \in Nat
    PROVE  /\ Frames!Shifted(n) \in [0..VarintBytes -> Nat]
           /\ Frames!Shifted(n)[0] = n
           /\ \A k \in 1..VarintBytes : Frames!Shifted(n)[k] = Frames!Shifted(n)[k - 1] \div 128
<1> DEFINE g == [k \in 1..VarintBytes |-> [v \in Nat |-> v \div 128]]
           Fits(f) == f = [k \in 0..VarintBytes |-> IF k = 0 THEN n ELSE f[k - 1] \div 128]
<1>1. g \in [1..VarintBytes -> [Nat -> Nat]]
  OBVIOUS
<1>2. PICK f : Recurs(f, VarintBytes, Nat, n, g)
  <2> HIDE DEF g
  <2> QED BY <1>1, Recursion
<1>0. f \in [0..VarintBytes -> Nat] /\ f[0] = n /\ \A k \in 1..VarintBytes : f[k] = g[k][f[k - 1]]
  BY <1>2 DEF Recurs
<1>3. ASSUME NEW k \in 1..VarintBytes PROVE f[k] = f[k - 1] \div 128
  <2>1. k - 1 \in 0..VarintBytes /\ f[k - 1] \in Nat
    BY <1>0
  <2> QED BY <1>0, <2>1
<1>4. Fits(f)
  BY <1>0, <1>3
<1> DEFINE s == CHOOSE h : Fits(h)
<1>5. Fits(s)
  <2> HIDE DEF Fits
  <2> QED BY <1>4
<1>6. Frames!Shifted(n) = s
  BY DEF Frames!Shifted
<1> HIDE DEF s
<1>7. \A h : Fits(h) => h = f
  \* by induction
  <2> SUFFICES ASSUME NEW h, Fits(h) PROVE h = f
    OBVIOUS
  <2> DEFINE T == {k \in 0..VarintBytes : h[k] = f[k]}
  <2>1. 0 \in T
    BY <1>0
  <2>2. ASSUME NEW k \in 0..VarintBytes, k > 0, k - 1 \in T PROVE k \in T
    BY <1>3, <2>2
  <2> HIDE DEF T
  <2>3. 0..VarintBytes \subseteq T
    BY <2>1, <2>2, Induction
  <2> QED BY <2>3, <1>4 DEF T
<1>8. Frames!Shifted(n) = f
  <2> HIDE DEF Fits
  <2> QED BY <1>5, <1>6, <1>7
<1> HIDE DEF g
<1> QED BY <1>0, <1>3, <1>8

\* A number that fits ends at its last byte.
Fits(n) == n \in Nat /\ Frames!Shifted(n)[VarintBytes] = 0

\* The varint of a number that fits ends where nothing is left of the number.
LEMMA Lengths ==
    ASSUME VarintBytes \in Nat \ {0}, NEW n, Fits(n)
    PROVE  /\ Frames!VarintLength(n) \in 1..VarintBytes
           /\ Frames!Shifted(n)[Frames!VarintLength(n)] = 0
           /\ \A j \in 1..(Frames!VarintLength(n) - 1) : Frames!Shifted(n)[j] # 0
<1> DEFINE s == Frames!Shifted(n)
           T == {k \in 1..VarintBytes : s[k] = 0}
           Ends(k) == s[k] = 0 /\ \A j \in 1..(k - 1) : s[j] # 0
<1>0. n \in Nat /\ VarintBytes \in Nat /\ VarintBytes \in 1..VarintBytes
  BY DEF Fits
<1>1. T \subseteq Nat /\ VarintBytes \in T
  BY <1>0 DEF Fits
<1>2. PICK k \in T : \A y \in T : k <= y
  <2> HIDE DEF T
  <2> QED BY <1>1, Least
<1>3. k \in 1..VarintBytes /\ s[k] = 0
  BY <1>2
<1>4. ASSUME NEW j \in 1..(k - 1) PROVE s[j] # 0
  <2>1. j \in 1..VarintBytes /\ ~(k <= j)
    BY <1>3, <1>0
  <2> QED BY <2>1, <1>2
<1>5. k \in 1..VarintBytes /\ Ends(k)
  BY <1>3, <1>4
<1>6. Frames!VarintLength(n) = CHOOSE l \in 1..VarintBytes : Ends(l)
  BY DEF Frames!VarintLength
<1> HIDE DEF Ends
<1>7. Frames!VarintLength(n) \in 1..VarintBytes /\ Ends(Frames!VarintLength(n))
  BY <1>5, <1>6
<1> QED BY <1>7 DEF Ends

\* Its bytes: the highest bit is set in every one but the last.
LEMMA Bytes7 ==
    ASSUME VarintBytes \in Nat \ {0}, NEW n, Fits(n)
    PROVE  /\ Frames!Varint(n) \in Seq(Nat)
           /\ Len(Frames!Varint(n)) = Frames!VarintLength(n)
           /\ \A i \in 1..Frames!VarintLength(n) :
                 /\ Frames!Varint(n)[i] \in Nat
                 /\ Frames!Varint(n)[i] % 128 = Frames!Shifted(n)[i - 1] % 128
                 /\ Frames!Varint(n)[i] < 128 <=> i = Frames!VarintLength(n)
<1> DEFINE L == Frames!VarintLength(n)
           s == Frames!Shifted(n)
           v == [i \in 1..L |-> (s[i - 1] % 128) + (IF i = L THEN 0 ELSE 128)]
<1>1. L \in Nat /\ L \in 1..VarintBytes
  BY Lengths
<1>2. s \in [0..VarintBytes -> Nat]
  BY Shifts DEF Fits
<1>3. Frames!Varint(n) = v
  BY DEF Frames!Varint
<1> HIDE DEF L, s
<1>4. ASSUME NEW i \in 1..L
      PROVE  v[i] \in Nat /\ v[i] % 128 = s[i - 1] % 128 /\ (v[i] < 128 <=> i = L)
  <2>1. i - 1 \in 0..VarintBytes /\ s[i - 1] \in Nat
    BY <1>1, <1>2
  <2>2. s[i - 1] % 128 \in 0..127
    BY <2>1
  <2>3. v[i] = (s[i - 1] % 128) + (IF i = L THEN 0 ELSE 128)
    OBVIOUS
  <2> HIDE DEF v
  <2>4. CASE i = L
    BY <2>2, <2>3, <2>4
  <2>5. CASE i # L
    BY <2>2, <2>3, <2>5
  <2> QED BY <2>4, <2>5
<1>5. v \in [1..L -> Nat]
  BY <1>4
<1>6. v \in Seq(Nat) /\ Len(v) = L
  BY <1>1, <1>5
<1> HIDE DEF v
<1> QED BY <1>3, <1>4, <1>6 DEF L, s

\* A sequence that starts with the varint of a number is read as that number.
LEMMA VarintRead ==
    ASSUME VarintBytes \in Nat \ {0}, NEW n, Fits(n), NEW r \in Seq(Nat),
           Frames!VarintLength(n) <= Len(r),
           \A i \in 1..Frames!VarintLength(n) : r[i] = Frames!Varint(n)[i]
    PROVE  Frames!ReadVarint(r) = [value |-> n, length |-> Frames!VarintLength(n)]
<1> DEFINE L == Frames!VarintLength(n)
           s == Frames!Shifted(n)
           ends == {i \in 1..VarintBytes :
                      i <= Len(r) /\ r[i] < 128 /\ \A j \in 1..(i - 1) : r[j] >= 128}
<1>1. L \in Nat /\ L \in 1..VarintBytes /\ s[L] = 0
  BY Lengths
<1>2. s \in [0..VarintBytes -> Nat] /\ s[0] = n /\ \A k \in 1..VarintBytes : s[k] = s[k - 1] \div 128
  <2>1. VarintBytes \in Nat /\ n \in Nat
    BY DEF Fits
  <2> QED BY <2>1, Shifts
<1>3. \A i \in 1..L : r[i] \in Nat /\ r[i] % 128 = s[i - 1] % 128 /\ (r[i] < 128 <=> i = L)
  BY Bytes7
<1>4. L <= Len(r)
  OBVIOUS
<1> HIDE DEF L, s
<1>5. L \in ends
  BY <1>1, <1>3, <1>4
<1>6. ASSUME NEW i \in ends PROVE i = L
  <2>1. i \in Nat /\ i >= 1 /\ r[i] < 128 /\ \A j \in 1..(i - 1) : r[j] >= 128
    OBVIOUS
  <2>2. CASE i < L
    <3>1. i \in 1..L /\ i # L
      BY <2>1, <2>2, <1>1
    <3> QED BY <3>1, <2>1, <1>3
  <2>3. CASE i > L
    <3>1. L \in 1..(i - 1) /\ L \in 1..L
      BY <2>1, <2>3, <1>1
    <3>2. r[L] >= 128 /\ r[L] < 128 /\ r[L] \in Nat
      BY <3>1, <2>1, <1>3
    <3> QED BY <3>2
  <2> QED BY <2>1, <2>2, <2>3, <1>1
<1> DEFINE m == CHOOSE i \in ends : TRUE
<1>7. m = L
  <2> HIDE DEF ends
  <2> QED BY <1>5, <1>6
<1> DEFINE Reads(f, l) == f = [k \in 0..l |-> IF k = 0 THEN 0 ELSE (r[l + 1 - k] % 128) + 128 * f[k - 1]]
           g == [k \in 1..L |-> [v \in Nat |-> (r[L + 1 - k] % 128) + 128 * v]]
<1>8. g \in [1..L -> [Nat -> Nat]]
  <2>1. \A k \in 1..L : L + 1 - k \in 1..L /\ r[L + 1 - k] \in Nat
    BY <1>1, <1>3
  <2>2. \A k \in 1..L : r[L + 1 - k] % 128 \in Nat
    BY <2>1
  <2>3. \A k \in 1..L, v \in Nat : (r[L + 1 - k] % 128) + 128 * v \in Nat
    BY <2>2
  <2> QED BY <2>3
<1>9. PICK f : Recurs(f, L, Nat, 0, g)
  <2>1. 0 \in Nat /\ L \in Nat
    BY <1>1
  <2> HIDE DEF g
  <2> QED BY <2>1, <1>8, Recursion, Zenon
<1>10. Reads(f, L)
  <2>1. f \in [0..L -> Nat] /\ f[0] = 0 /\ \A k \in 1..L : f[k] = g[k][f[k - 1]]
    BY <1>9 DEF Recurs
  <2>2. ASSUME NEW k \in 1..L PROVE f[k] = (r[L + 1 - k] % 128) + 128 * f[k - 1]
    <3>1. k - 1 \in 0..L /\ f[k - 1] \in Nat
      BY <2>1, <1>1
    <3> QED BY <2>1, <3>1
  <2>3. \A k \in 0..L : k # 0 => k \in 1..L
    BY <1>1
  <2> QED BY <2>1, <2>2, <2>3
<1> DEFINE value == CHOOSE h : Reads(h, L)
<1>11. Reads(value, L)
  <2> HIDE DEF Reads
  <2> QED BY <1>10
<1>12. Frames!ReadVarint(r) = [value |-> value[L], length |-> L]
  <2>1. ends # {}
    BY <1>5
  <2>2. Frames!ReadVarint(r)
          = IF ends = {} THEN [value |-> 0, length |-> 0]
            ELSE [value |-> (CHOOSE h : Reads(h, m))[m], length |-> m]
    BY DEF Frames!ReadVarint
  <2> HIDE DEF ends, m, Reads
  <2> QED BY <2>1, <2>2, <1>7
<1> HIDE DEF value, ends, m, g
<1>13. value[L] = n
  <2> DEFINE T == {k \in 0..L : value[k] = s[L - k]}
  <2>1. 0 \in T
    <3>1. 0 \in 0..L /\ L - 0 = L
      BY <1>1
    <3>2. value[0] = 0
      BY <1>11, <3>1
    <3> QED BY <3>1, <3>2, <1>1
  <2>2. ASSUME NEW k \in 0..L, k > 0, k - 1 \in T PROVE k \in T
    <3> DEFINE i == L + 1 - k
    <3>1. /\ k # 0 /\ i \in 1..L /\ i \in 1..VarintBytes /\ i - 1 \in 0..VarintBytes
          /\ L - (k - 1) = i /\ L - k = i - 1
      BY <2>2, <1>1
    <3>2. value[k] = (r[i] % 128) + 128 * value[k - 1]
      BY <1>11, <3>1
    <3>3. value[k - 1] = s[i]
      BY <2>2, <3>1
    <3>4. s[i] = s[i - 1] \div 128 /\ s[i - 1] \in Nat /\ r[i] % 128 = s[i - 1] % 128
      BY <3>1, <1>2, <1>3
    <3>5. value[k] = s[i - 1]
      BY <3>2, <3>3, <3>4
    <3> QED BY <3>5, <3>1
  <2> HIDE DEF T
  <2>3. 0..L \subseteq T
    BY <2>1, <2>2, <1>1, Induction
  <2>4. L \in T
    BY <2>3, <1>1
  <2>5. value[L] = s[L - L] /\ L - L = 0
    BY <2>4, <1>1 DEF T
  <2> QED BY <2>5, <1>2
<1> QED BY <1>12, <1>13 DEF L

\* What decode_in_place has after some bytes.
States == [ok : BOOLEAN, left : Nat, zero : BOOLEAN, bytes : Seq(Nat)]

\* A byte of a block.
LEMMA TakesByte ==
    ASSUME NEW state \in States, NEW byte \in Nat, NEW behind, state.left > 0
    PROVE  /\ Frames!Takes(state, byte, behind) \in States
           /\ Frames!Takes(state, byte, behind).ok = state.ok
           /\ Frames!Takes(state, byte, behind).left = state.left - 1
           /\ Frames!Takes(state, byte, behind).zero = state.zero
           /\ Frames!Takes(state, byte, behind).bytes = Append(state.bytes, byte)
<1> DEFINE next == [ok |-> state.ok, left |-> state.left - 1, zero |-> state.zero,
                    bytes |-> Append(state.bytes, byte)]
<1>1. /\ state.ok \in BOOLEAN /\ state.left \in Nat /\ state.zero \in BOOLEAN
      /\ state.bytes \in Seq(Nat) /\ Append(state.bytes, byte) \in Seq(Nat)
  BY DEF States
<1>2. Frames!Takes(state, byte, behind)
        = [state EXCEPT !.left = state.left - 1, !.bytes = Append(state.bytes, byte)]
  BY DEF Frames!Takes
<1>3. Frames!Takes(state, byte, behind) = next
  BY <1>2 DEF States
<1>4. state.left - 1 \in Nat
  BY <1>1
<1>5. next \in States
  BY <1>1, <1>4, Zenon DEF States
<1>6. /\ next.ok = state.ok /\ next.left = state.left - 1 /\ next.zero = state.zero
      /\ next.bytes = Append(state.bytes, byte)
  OBVIOUS
<1> HIDE DEF next
<1> QED BY <1>3, <1>5, <1>6

\* The length of a block.
LEMMA TakesLength ==
    ASSUME NEW state \in States, NEW byte \in Nat, NEW behind, state.left = 0
    PROVE  /\ Frames!Takes(state, byte, behind) \in States
           /\ Frames!Takes(state, byte, behind).ok = (state.ok /\ (byte <= behind + 1 \/ byte = 1))
           /\ Frames!Takes(state, byte, behind).left = IF byte = 0 THEN 0 ELSE byte - 1
           /\ Frames!Takes(state, byte, behind).zero = (byte # 255)
           /\ Frames!Takes(state, byte, behind).bytes
                = IF state.zero THEN Append(state.bytes, 0) ELSE state.bytes
<1> DEFINE next == [ok |-> state.ok /\ (byte <= behind + 1 \/ byte = 1),
                    left |-> IF byte = 0 THEN 0 ELSE byte - 1,
                    zero |-> byte # 255,
                    bytes |-> IF state.zero THEN Append(state.bytes, 0) ELSE state.bytes]
<1>1. state.bytes \in Seq(Nat) /\ Append(state.bytes, 0) \in Seq(Nat) /\ ~(state.left > 0)
  BY DEF States
<1>2. Frames!Takes(state, byte, behind) = next
  BY <1>1, Zenon DEF Frames!Takes
<1>3. (IF byte = 0 THEN 0 ELSE byte - 1) \in Nat
  OBVIOUS
<1>4. (IF state.zero THEN Append(state.bytes, 0) ELSE state.bytes) \in Seq(Nat)
  BY <1>1
<1>5. next \in States
  BY <1>3, <1>4, Zenon DEF States
<1>6. /\ next.ok = (state.ok /\ (byte <= behind + 1 \/ byte = 1)) /\ next.zero = (byte # 255)
      /\ next.left = (IF byte = 0 THEN 0 ELSE byte - 1)
      /\ next.bytes = (IF state.zero THEN Append(state.bytes, 0) ELSE state.bytes)
  BY Zenon
<1> HIDE DEF next
<1> QED BY <1>2, <1>5, <1>6, Zenon

\* Whatever the byte.
LEMMA TakesType ==
    ASSUME NEW state \in States, NEW byte \in Nat, NEW behind
    PROVE  Frames!Takes(state, byte, behind) \in States
<1>1. state.left \in Nat
  BY DEF States
<1>2. CASE state.left > 0
  BY <1>2, TakesByte, Zenon
<1>3. CASE state.left = 0
  BY <1>3, TakesLength, Zenon
<1> QED BY <1>1, <1>2, <1>3

\* after[k] is what it has after k bytes of r.
Decodes(r, End, after) ==
    /\ after \in [0..End -> States]
    /\ after[0] = [ok |-> TRUE, left |-> 0, zero |-> FALSE, bytes |-> <<>>]
    /\ \A k \in 1..End : after[k] = Frames!Takes(after[k - 1], r[k], End - k)
    /\ Frames!CobsDecoded(r) = after[End]

\* There is such a function: what decode_in_place has after each byte.
LEMMA Decoding ==
    ASSUME NEW r \in Seq(Nat), NEW End, End = Len(r)
    PROVE  \E after : Decodes(r, End, after)
<1> DEFINE start == [ok |-> TRUE, left |-> 0, zero |-> FALSE, bytes |-> <<>>]
           Fit(f) == f = [k \in 0..End |-> IF k = 0 THEN start
                                               ELSE Frames!Takes(f[k - 1], r[k], End - k)]
           g == [k \in 1..End |-> [state \in States |-> Frames!Takes(state, r[k], End - k)]]
<1>1. End \in Nat /\ \A k \in 1..End : r[k] \in Nat /\ End - k \in Nat
  OBVIOUS
<1>2. start \in States
  <2>1. <<>> \in Seq(Nat) /\ 0 \in Nat /\ TRUE \in BOOLEAN /\ FALSE \in BOOLEAN
    OBVIOUS
  <2> QED BY <2>1, Zenon DEF States
<1>3. g \in [1..End -> [States -> States]]
  <2>1. \A k \in 1..End, state \in States : Frames!Takes(state, r[k], End - k) \in States
    BY <1>1, TakesType
  <2> QED BY <2>1, Zenon
<1>4. PICK f : Recurs(f, End, States, start, g)
  <2> HIDE DEF g, start
  <2> QED BY <1>1, <1>2, <1>3, Recursion, Zenon
<1> HIDE DEF start
<1>5. f \in [0..End -> States] /\ f[0] = start
  BY <1>4 DEF Recurs
<1>6. ASSUME NEW k \in 1..End
      PROVE  f[k] = Frames!Takes(f[k - 1], r[k], End - k)
  <2>1. k - 1 \in 0..End
    BY <1>1
  <2>2. f[k - 1] \in States
    BY <2>1, <1>5
  <2>3. f[k] = g[k][f[k - 1]]
    BY <1>4 DEF Recurs
  <2> QED BY <2>2, <2>3
<1>7. Fit(f)
  <2>1. \A k \in 0..End : k # 0 => k \in 1..End
    BY <1>1
  <2> QED BY <1>5, <1>6, <2>1
<1> DEFINE after == CHOOSE h : Fit(h)
<1>8. Fit(after)
  <2> HIDE DEF Fit
  <2> QED BY <1>7
<1>9. Frames!CobsDecoded(r) = after[End]
  BY DEF Frames!CobsDecoded, start
<1> HIDE DEF after, g
<1>10. after[0] = start
  <2>1. 0 \in 0..End
    BY <1>1
  <2> QED BY <1>8, <2>1, Zenon
<1>11. ASSUME NEW k \in 1..End
       PROVE  after[k] = Frames!Takes(after[k - 1], r[k], End - k)
  <2>1. k \in 0..End /\ k # 0
    BY <1>1
  <2> QED BY <1>8, <2>1, Zenon
<1>12. after \in [0..End -> States]
  <2> DEFINE T == {k \in 0..End : after[k] \in States}
  <2>1. 0 \in T
    BY <1>10, <1>2, <1>1
  <2>2. ASSUME NEW k \in 0..End, k > 0, k - 1 \in T PROVE k \in T
    <3>1. k \in 1..End
      BY <2>2
    <3>3. after[k - 1] \in States
      BY <2>2
    <3> HIDE DEF T
    <3>4. Frames!Takes(after[k - 1], r[k], End - k) \in States
      BY <3>1, <3>3, <1>1, TakesType
    <3>2. after[k] \in States
      BY <3>1, <3>4, <1>11
    <3> QED BY <3>2 DEF T
  <2> HIDE DEF T
  <2>3. 0..End \subseteq T
    BY <2>1, <2>2, <1>1, Induction
  <2>4. \A k \in 0..End : after[k] \in States
    BY <2>3 DEF T
  <2>5. after = [k \in 0..End |-> after[k]]
    BY <1>8, Zenon
  <2> HIDE DEF Fit
  <2> QED BY <2>4, <2>5, Zenon
<1> HIDE DEF Fit
<1>13. Decodes(r, End, after)
  BY <1>9, <1>10, <1>11, <1>12, Zenon DEF Decodes, start
<1> QED BY <1>13

\* The distance to the next zero.
LEMMA Distances ==
    ASSUME NEW s \in Seq(Nat), NEW i \in 1..(Len(s) + 1)
    PROVE  /\ Frames!Distance(s, i) \in 1..(Len(s) + 2 - i)
           /\ Append(s, 0)[i + Frames!Distance(s, i) - 1] = 0
           /\ \A j \in i..(i + Frames!Distance(s, i) - 2) : Append(s, 0)[j] # 0
<1> DEFINE t == Append(s, 0)
           zeros == {j \in i..(Len(s) + 1) : t[j] = 0}
           First(j) == \A k \in zeros : j <= k
           d == Frames!Distance(s, i)
<1>1. Len(s) \in Nat /\ i \in Nat /\ t[Len(s) + 1] = 0
  OBVIOUS
<1> HIDE DEF t
<1>2. zeros \subseteq Nat /\ Len(s) + 1 \in zeros
  BY <1>1
<1>3. PICK j \in zeros : First(j)
  <2> HIDE DEF zeros
  <2> QED BY <1>2, Least
<1> DEFINE m == CHOOSE k \in zeros : First(k)
<1>4. m \in zeros /\ First(m)
  <2> HIDE DEF zeros, First
  <2> QED BY <1>3
<1>5. d = m - i + 1
  BY DEF Frames!Distance, t
<1> HIDE DEF m, d
<1>6. m \in i..(Len(s) + 1) /\ t[m] = 0
  BY <1>4
<1>7. d \in 1..(Len(s) + 2 - i) /\ i + d - 1 = m /\ i + d - 2 = m - 1
  BY <1>1, <1>5, <1>6
<1>8. ASSUME NEW k \in i..(m - 1) PROVE t[k] # 0
  <2>1. k \in i..(Len(s) + 1) /\ ~(m <= k)
    BY <1>1, <1>6
  <2> QED BY <2>1, <1>4
<1> QED BY <1>6, <1>7, <1>8 DEF d, t

\* What is encoded: one byte more, and no delimiter among them.
LEMMA Encoded ==
    ASSUME NEW s \in Seq(Nat)
    PROVE  /\ Frames!CobsEncoded(s) \in Seq(Nat)
           /\ Len(Frames!CobsEncoded(s)) = Len(s) + 1
           /\ Frames!CobsEncoded(s)[1] = Frames!Distance(s, 1)
           /\ \A i \in 2..(Len(s) + 1) :
                Frames!CobsEncoded(s)[i] = IF s[i - 1] = 0 THEN Frames!Distance(s, i) ELSE s[i - 1]
           /\ \A i \in 1..(Len(s) + 1) : Frames!CobsEncoded(s)[i] # 0
<1> DEFINE e == [i \in 1..(Len(s) + 1) |->
                   IF i = 1 THEN Frames!Distance(s, 1)
                   ELSE IF s[i - 1] = 0 THEN Frames!Distance(s, i) ELSE s[i - 1]]
<1>1. Frames!CobsEncoded(s) = e
  BY DEF Frames!CobsEncoded
<1>2. Len(s) \in Nat /\ 1 \in 1..(Len(s) + 1) /\ Len(s) + 1 \in Nat
  OBVIOUS
<1>3. \A i \in 1..(Len(s) + 1) : Frames!Distance(s, i) \in Nat /\ Frames!Distance(s, i) # 0
  <2> TAKE i \in 1..(Len(s) + 1)
  <2>1. Frames!Distance(s, i) \in 1..(Len(s) + 2 - i)
    BY Distances
  <2> QED BY <2>1, <1>2
<1>4. ASSUME NEW i \in 2..(Len(s) + 1)
      PROVE  /\ e[i] = IF s[i - 1] = 0 THEN Frames!Distance(s, i) ELSE s[i - 1]
             /\ e[i] \in Nat /\ e[i] # 0
  <2>1. i \in 1..(Len(s) + 1) /\ i # 1 /\ i - 1 \in 1..Len(s) /\ s[i - 1] \in Nat
    BY <1>2
  <2> QED BY <2>1, <1>3
<1>5. e[1] = Frames!Distance(s, 1) /\ e[1] \in Nat /\ e[1] # 0
  BY <1>2, <1>3
<1>6. \A i \in 1..(Len(s) + 1) : i = 1 \/ i \in 2..(Len(s) + 1)
  OBVIOUS
<1>7. e = [i \in 1..(Len(s) + 1) |-> e[i]]
  OBVIOUS
<1> HIDE DEF e
<1>8. \A i \in 1..(Len(s) + 1) : e[i] \in Nat /\ e[i] # 0
  BY <1>4, <1>5, <1>6
<1>9. e \in [1..(Len(s) + 1) -> Nat]
  BY <1>7, <1>8, Zenon
<1>10. e \in Seq(Nat) /\ Len(e) = Len(s) + 1
  BY <1>2, <1>9
<1> QED BY <1>1, <1>4, <1>5, <1>8, <1>10

\* Decoding gives back what was encoded, and the zero that stands for the delimiter.
LEMMA CobsRoundTrip ==
    ASSUME NEW s \in Seq(Nat), Len(s) < 254
    PROVE  LET decoded == Frames!CobsDecoded(Append(Frames!CobsEncoded(s), 0))
           IN  decoded.ok /\ decoded.bytes = Append(s, 0)
<1> DEFINE e == Frames!CobsEncoded(s)
           r == Append(e, 0)
           t == Append(s, 0)
           n == Len(s)
<1>1. n \in Nat /\ n < 254
  OBVIOUS
<1>2. e \in Seq(Nat) /\ Len(e) = n + 1
  BY Encoded
<1>3. r \in Seq(Nat) /\ Len(r) = n + 2 /\ r[n + 2] = 0 /\ \A i \in 1..(n + 1) : r[i] = e[i]
  <2> HIDE DEF e
  <2> QED BY <1>1, <1>2
<1>4. /\ t \in Seq(Nat) /\ Len(t) = n + 1 /\ t[n + 1] = 0
      /\ \A i \in 1..n : t[i] = s[i]
      /\ \A i \in 1..(n + 1) : t[i] \in Nat
  BY <1>1
<1>5. ASSUME NEW i \in 1..(n + 1)
      PROVE  /\ Frames!Distance(s, i) \in 1..(n + 2 - i)
             /\ t[i + Frames!Distance(s, i) - 1] = 0
             /\ \A j \in i..(i + Frames!Distance(s, i) - 2) : t[j] # 0
  BY Distances
<1>6. r[1] = Frames!Distance(s, 1)
  BY Encoded, <1>1, <1>3
<1>7. ASSUME NEW i \in 2..(n + 1)
      PROVE  r[i] = IF t[i - 1] = 0 THEN Frames!Distance(s, i) ELSE t[i - 1]
  <2>1. i - 1 \in 1..n /\ i \in 1..(n + 1)
    BY <1>1
  <2>2. e[i] = IF s[i - 1] = 0 THEN Frames!Distance(s, i) ELSE s[i - 1]
    BY Encoded
  <2> HIDE DEF e, r, t, n
  <2>3. r[i] = e[i] /\ t[i - 1] = s[i - 1]
    BY <2>1, <1>3, <1>4
  <2> QED BY <2>2, <2>3
<1> DEFINE M == n + 2
<1>0. M = n + 2 /\ M \in Nat
  BY <1>1
<1>8. PICK after : Decodes(r, M, after)
  BY <1>3, <1>0, Decoding, Zenon
<1> HIDE DEF e, r, t, n, M
<1>9. /\ after \in [0..M -> States]
      /\ after[0] = [ok |-> TRUE, left |-> 0, zero |-> FALSE, bytes |-> <<>>]
      /\ \A k \in 1..M : after[k] = Frames!Takes(after[k - 1], r[k], M - k)
      /\ Frames!CobsDecoded(r) = after[M]
  BY <1>8, Zenon DEF Decodes
<1>16. ASSUME NEW k \in 1..M, NEW j, j = k - 1, NEW m, m = M - k
       PROVE  after[k] = Frames!Takes(after[j], r[k], m)
  BY <1>9, <1>16
<1>17. ASSUME NEW j \in 0..(n + 1)
       PROVE  /\ j + 1 \in 1..M /\ after[j] \in States /\ after[j].left \in Nat /\ r[j + 1] \in Nat
              /\ \E m \in Nat : after[j + 1] = Frames!Takes(after[j], r[j + 1], m)
  <2>1. j + 1 \in 1..M /\ j = j + 1 - 1 /\ j \in 0..M
    BY <1>1, <1>0
  <2> DEFINE m == M - (j + 1)
  <2>2. m \in Nat
    BY <2>1, <1>1, <1>0
  <2>3. after[j + 1] = Frames!Takes(after[j], r[j + 1], m)
    BY <2>1, <1>16
  <2>6. after[j] \in States
    BY <2>1, <1>9
  <2>7. r[j + 1] \in Nat
    BY <2>1, <1>3, <1>0
  <2>4. after[j] \in States /\ r[j + 1] \in Nat
    BY <2>6, <2>7
  <2>5. after[j].left \in Nat
    BY <2>4 DEF States
  <2> QED BY <2>1, <2>2, <2>3, <2>4, <2>5
<1>18. ASSUME NEW j \in 0..(n + 1), after[j].left > 0
       PROVE  /\ after[j + 1].ok = after[j].ok /\ after[j + 1].left = after[j].left - 1
              /\ after[j + 1].zero = after[j].zero
              /\ after[j + 1].bytes = Append(after[j].bytes, r[j + 1])
  <2>1. PICK m \in Nat : after[j + 1] = Frames!Takes(after[j], r[j + 1], m)
    BY <1>17
  <2> DEFINE st == after[j]
             byte == r[j + 1]
             next == after[j + 1]
  <2>2. st \in States /\ byte \in Nat /\ st.left > 0 /\ next = Frames!Takes(st, byte, m)
    BY <1>17, <1>18, <2>1
  <2> HIDE DEF st, byte, next
  <2>3. /\ next.ok = st.ok /\ next.left = st.left - 1 /\ next.zero = st.zero
        /\ next.bytes = Append(st.bytes, byte)
    BY <2>2, TakesByte
  <2> QED BY <2>3 DEF st, byte, next
<1>19. ASSUME NEW j \in 0..(n + 1), after[j].left = 0, after[j].ok, after[j].zero, r[j + 1] = 0
       PROVE  after[j + 1].ok /\ after[j + 1].bytes = Append(after[j].bytes, 0)
  <2>1. PICK m \in Nat : after[j + 1] = Frames!Takes(after[j], r[j + 1], m)
    BY <1>17
  <2> DEFINE st == after[j]
             byte == r[j + 1]
             next == after[j + 1]
  <2>2. st \in States /\ byte \in Nat /\ st.left = 0 /\ next = Frames!Takes(st, byte, m)
    BY <1>17, <1>19, <2>1
  <2>6. st.ok /\ st.zero
    BY <1>19
  <2>4. byte <= m + 1
    BY <1>19
  <2> HIDE DEF st, byte, next
  <2>3. /\ next.ok = (st.ok /\ (byte <= m + 1 \/ byte = 1))
        /\ next.bytes = IF st.zero THEN Append(st.bytes, 0) ELSE st.bytes
    <3>1. Frames!Takes(st, byte, m).ok = (st.ok /\ (byte <= m + 1 \/ byte = 1))
      BY <2>2, TakesLength
    <3>2. Frames!Takes(st, byte, m).bytes = IF st.zero THEN Append(st.bytes, 0) ELSE st.bytes
      BY <2>2, TakesLength
    <3> QED BY <2>2, <3>1, <3>2
  <2>5. next.ok /\ next.bytes = Append(st.bytes, 0)
    BY <2>3, <2>4, <2>6
  <2> QED BY <2>5 DEF st, next
<1> DEFINE Before(k) == Len(after[k].bytes) = k - 1 /\ \A i \in 1..(k - 1) : after[k].bytes[i] = t[i]
           Block(k) == /\ k + after[k].left <= n + 1 /\ t[k + after[k].left] = 0
                       /\ \A j \in k..(k + after[k].left - 1) : t[j] # 0
           Right(k) == after[k].ok /\ after[k].zero /\ Before(k) /\ Block(k)
<1>10. ASSUME NEW k \in 0..M
       PROVE  /\ after[k] \in States /\ after[k].left \in Nat /\ after[k].bytes \in Seq(Nat)
              /\ after[k].ok \in BOOLEAN /\ after[k].zero \in BOOLEAN
  BY <1>9 DEF States
\* a byte that is the length of a block
<1>11. ASSUME NEW k \in 1..(n + 1), after[k - 1].left = 0, r[k] = Frames!Distance(s, k),
              after[k - 1].ok
       PROVE  after[k].ok /\ after[k].zero /\ Block(k)
  <2> DEFINE d == Frames!Distance(s, k)
  <2>1. k - 1 \in 0..M /\ k \in 1..M /\ M - k \in Nat
    BY <1>1, <1>0
  <2>2. /\ d \in 1..(n + 2 - k) /\ t[k + d - 1] = 0
        /\ \A j \in k..(k + d - 2) : t[j] # 0
    BY <1>5
  <2>3. after[k - 1] \in States
    BY <2>1, <1>10
  <2>4. r[k] \in Nat
    BY <2>1, <1>3, <1>0
  <2>5. after[k] = Frames!Takes(after[k - 1], r[k], M - k)
    BY <2>1, <1>9
  <2> HIDE DEF d
  <2>6. r[k] = d
    BY <1>11 DEF d
  <2>7. /\ after[k].ok = (after[k - 1].ok /\ (r[k] <= M - k + 1 \/ r[k] = 1))
        /\ after[k].left = IF r[k] = 0 THEN 0 ELSE r[k] - 1
        /\ after[k].zero = (r[k] # 255)
    <3>1. after[k - 1].left = 0
      BY <1>11
    <3>2. LET next == Frames!Takes(after[k - 1], r[k], M - k)
          IN  /\ next.ok = (after[k - 1].ok /\ (r[k] <= M - k + 1 \/ r[k] = 1))
              /\ next.left = IF r[k] = 0 THEN 0 ELSE r[k] - 1
              /\ next.zero = (r[k] # 255)
      BY <2>3, <2>4, <3>1, TakesLength
    <3> QED BY <2>5, <3>2
  <2>8. d \in Nat /\ d # 0 /\ d # 255 /\ d <= M - k + 1
    BY <2>1, <2>2, <1>1, <1>0
  <2>9. after[k].ok /\ after[k].zero /\ after[k].left = d - 1
    BY <2>6, <2>7, <2>8, <1>11
  <2>10. k + (d - 1) = k + d - 1 /\ k + (d - 1) - 1 = k + d - 2 /\ k + (d - 1) <= n + 1
    BY <2>2, <2>8, <1>1, <1>0
  <2> QED BY <2>2, <2>9, <2>10
<1>12. Right(1)
  <2>1. 1 \in 1..(n + 1) /\ 1 - 1 = 0 /\ 0 \in 0..M /\ 1 \in 1..M
    BY <1>1, <1>0
  <2>2. after[0].left = 0 /\ after[0].ok /\ ~after[0].zero /\ after[0].bytes = <<>>
    BY <1>9
  <2>3. after[1].ok /\ after[1].zero /\ Block(1)
    <3> HIDE DEF Block
    <3> QED BY <2>1, <2>2, <1>6, <1>11
  <2>4. after[1].bytes = <<>>
    <3>1. r[1] \in Nat
      BY <2>1, <1>3, <1>0
    <3>3. after[1] = Frames!Takes(after[0], r[1], M - 1)
      BY <2>1, <1>9, Zenon
    <3>2. after[0] \in States
      BY <2>1, <1>10
    <3>4. Frames!Takes(after[0], r[1], M - 1).bytes = IF after[0].zero THEN Append(after[0].bytes, 0)
                                                         ELSE after[0].bytes
      BY <3>1, <3>2, <2>2, TakesLength
    <3> QED BY <3>3, <3>4, <2>2
  <2>5. Before(1)
    BY <2>4
  <2> QED BY <2>3, <2>5
<1>13. ASSUME NEW k \in 1..n, Right(k) PROVE Right(k + 1)
  <2>1. /\ k + 1 \in 2..(n + 1) /\ k + 1 \in 1..M /\ k \in 0..M /\ k + 1 - 1 = k
        /\ M - (k + 1) \in Nat /\ k + 1 \in 1..(n + 1) /\ k \in 1..(n + 1)
    BY <1>1, <1>0
  <2>2. /\ after[k] \in States /\ after[k].left \in Nat /\ after[k].bytes \in Seq(Nat)
        /\ r[k + 1] \in Nat /\ t[k] \in Nat
    <3>1. after[k] \in States /\ after[k].left \in Nat /\ after[k].bytes \in Seq(Nat)
      BY <2>1, <1>10
    <3>2. r[k + 1] \in Nat
      BY <2>1, <1>3, <1>0
    <3>3. t[k] \in Nat
      BY <2>1, <1>4
    <3> QED BY <3>1, <3>2, <3>3
  <2>3. after[k + 1] = Frames!Takes(after[k], r[k + 1], M - (k + 1))
    <3>1. k = k + 1 - 1
      BY <2>1
    <3> QED BY <3>1, <2>1, <1>16
  <2>4. r[k + 1] = IF t[k] = 0 THEN Frames!Distance(s, k + 1) ELSE t[k]
    BY <2>1, <1>7
  <2>5. after[k + 1].bytes = Append(after[k].bytes, t[k]) => Before(k + 1)
    <3> DEFINE b == after[k].bytes
               c == after[k + 1].bytes
    <3> SUFFICES ASSUME c = Append(b, t[k])
                 PROVE  Len(c) = k /\ \A i \in 1..k : c[i] = t[i]
      BY <2>1
    <3>1. b \in Seq(Nat) /\ Len(b) = k - 1 /\ \A i \in 1..(k - 1) : b[i] = t[i]
      BY <1>13, <2>2
    <3> HIDE DEF b, c
    <3>2. Len(c) = k /\ c[k] = t[k] /\ \A i \in 1..(k - 1) : c[i] = b[i]
      BY <3>1, <2>2
    <3> QED BY <3>1, <3>2
  <2>6. CASE after[k].left = 0
    <3>1. t[k] = 0 /\ r[k + 1] = Frames!Distance(s, k + 1)
      BY <1>13, <2>4, <2>6, <2>1
    <3>2. after[k + 1].ok /\ after[k + 1].zero /\ Block(k + 1)
      <4> HIDE DEF Block, Before
      <4> QED BY <2>1, <2>6, <3>1, <1>11, <1>13
    <3>3. after[k + 1].bytes = Append(after[k].bytes, t[k])
      <4>1. after[k].zero
        BY <1>13
      <4>2. after[k + 1].bytes = IF after[k].zero THEN Append(after[k].bytes, 0) ELSE after[k].bytes
        <5>1. Frames!Takes(after[k], r[k + 1], M - (k + 1)).bytes
                = IF after[k].zero THEN Append(after[k].bytes, 0) ELSE after[k].bytes
          BY <2>2, <2>6, TakesLength
        <5> QED BY <5>1, <2>3
      <4> QED BY <3>1, <4>1, <4>2
    <3> HIDE DEF Block, Before
    <3> QED BY <3>2, <3>3, <2>5
  <2>7. CASE after[k].left > 0
    <3> DEFINE l == after[k].left
    <3>1. /\ k + l <= n + 1 /\ t[k + l] = 0 /\ \A j \in k..(k + l - 1) : t[j] # 0
          /\ after[k].ok /\ after[k].zero /\ l \in Nat
      BY <1>13, <2>2
    <3>2. k \in k..(k + l - 1)
      BY <2>7, <2>2, <2>1
    <3>3. t[k] # 0 /\ r[k + 1] = t[k]
      BY <3>1, <3>2, <2>4
    <3>4. /\ after[k + 1].ok /\ after[k + 1].zero /\ after[k + 1].left = l - 1
          /\ after[k + 1].bytes = Append(after[k].bytes, t[k])
      <4>1. /\ after[k + 1].ok = after[k].ok /\ after[k + 1].zero = after[k].zero
            /\ after[k + 1].left = after[k].left - 1
            /\ after[k + 1].bytes = Append(after[k].bytes, r[k + 1])
        <5>1. k \in 0..(n + 1)
          BY <2>1
        <5> HIDE DEF l
        <5> QED BY <5>1, <2>7, <1>18
      <4> QED BY <3>1, <3>3, <4>1
    <3> HIDE DEF l, Before
    <3>5. k + 1 + (l - 1) = k + l /\ \A j \in (k + 1)..(k + l - 1) : j \in k..(k + l - 1)
      BY <3>1, <2>1
    <3>6. Block(k + 1)
      BY <3>1, <3>4, <3>5
    <3> HIDE DEF Block
    <3> QED BY <3>4, <3>6, <2>5
  <2> QED BY <2>2, <2>6, <2>7
<1> HIDE DEF Right
<1>14. Right(n + 1)
  <2> DEFINE T == {k \in 0..n : Right(k + 1)}
  <2>1. 0 \in T
    BY <1>1, <1>0, <1>12
  <2>2. ASSUME NEW k \in 0..n, k > 0, k - 1 \in T PROVE k \in T
    <3>1. k \in 1..n /\ k - 1 + 1 = k
      BY <2>2
    <3>2. Right(k)
      BY <2>2, <3>1
    <3> QED BY <3>1, <3>2, <1>13
  <2> HIDE DEF T
  <2>3. 0..n \subseteq T
    BY <2>1, <2>2, <1>1, <1>0, Induction
  <2>4. n \in T
    BY <2>3, <1>1, <1>0
  <2> QED BY <2>4 DEF T
<1>15. after[M].ok /\ after[M].bytes = t
  <2>1. /\ n + 1 \in 0..M /\ M \in 1..M /\ M - 1 = n + 1 /\ M - M = 0
        /\ n + 1 - 1 = n
    BY <1>1, <1>0
  <2>2. after[M] = Frames!Takes(after[n + 1], 0, 0)
    <3>1. n + 1 = M - 1 /\ 0 = M - M
      BY <1>1, <1>0
    <3>2. after[M] = Frames!Takes(after[n + 1], r[M], 0)
      <4> DEFINE K == M
      <4>1. K \in 1..M /\ n + 1 = K - 1 /\ 0 = M - K
        BY <1>1, <1>0
      <4> HIDE DEF K
      <4>2. after[K] = Frames!Takes(after[n + 1], r[K], 0)
        BY <4>1, <1>16
      <4> QED BY <4>2 DEF K
    <3> QED BY <3>2, <1>3, <1>0
  <2>3. /\ after[n + 1] \in States /\ after[n + 1].bytes \in Seq(Nat) /\ after[n + 1].left \in Nat
        /\ after[n + 1].ok \in BOOLEAN
    BY <2>1, <1>10
  <2>4. /\ after[n + 1].ok /\ after[n + 1].zero /\ after[n + 1].left = 0
        /\ Len(after[n + 1].bytes) = n /\ \A i \in 1..n : after[n + 1].bytes[i] = t[i]
    <3> DEFINE K == n + 1
    <3>1. /\ after[K].ok /\ after[K].zero /\ K + after[K].left <= n + 1
          /\ Len(after[K].bytes) = K - 1 /\ \A i \in 1..(K - 1) : after[K].bytes[i] = t[i]
      <4> HIDE DEF K
      <4>1. Right(K)
        BY <1>14 DEF K
      <4>2. after[K].ok /\ after[K].zero /\ Before(K) /\ Block(K)
        BY <4>1 DEF Right
      <4>3. after[K].ok /\ after[K].zero /\ K + after[K].left <= n + 1
        BY <4>2 
      <4>4. Len(after[K].bytes) = K - 1 /\ \A i \in 1..(K - 1) : after[K].bytes[i] = t[i]
        BY <4>2
      <4> QED BY <4>3, <4>4
    <3>2. K = n + 1 /\ K - 1 = n
      BY <1>1, <1>0
    <3> HIDE DEF K
    <3>4. after[K].left \in Nat
      BY <2>3, <3>2
    <3>3. after[K].left = 0
      BY <3>1, <3>2, <3>4, <1>1, <1>0
    <3> QED BY <3>1, <3>2, <3>3
  <2>5. after[M].ok /\ after[M].bytes = Append(after[n + 1].bytes, 0)
    <3>1. 0 \in Nat
      OBVIOUS
    <3>2. after[M].ok /\ after[M].bytes = Append(after[n + 1].bytes, 0)
      <4> DEFINE K == n + 1
      <4>1. K \in 0..(n + 1) /\ M = K + 1 /\ K = n + 1
        BY <1>1, <1>0
      <4> HIDE DEF K
      <4>2. after[K] \in States /\ after[K].left = 0 /\ after[K].zero /\ after[K].ok
        BY <2>3, <2>4, <4>1
      <4>3. r[K + 1] = 0
        BY <1>3, <1>0, <4>1
      <4>4. after[K + 1].ok /\ after[K + 1].bytes = Append(after[K].bytes, 0)
        BY <4>1, <4>2, <4>3, <1>19
      <4> QED BY <4>1, <4>4
    <3> QED BY <3>2
  <2> DEFINE b == after[n + 1].bytes
             c == after[M].bytes
  <2> HIDE DEF b, c
  <2>6. /\ c \in Seq(Nat) /\ Len(c) = n + 1 /\ c[n + 1] = 0 /\ \A i \in 1..n : c[i] = t[i]
    BY <2>3, <2>4, <2>5, <1>1, <1>0 DEF b, c
  <2>7. c = t
    <3>1. \A i \in 1..(n + 1) : i \in 1..n \/ i = n + 1
      BY <1>1, <1>0
    <3> QED BY <2>6, <3>1, <1>1, <1>0, <1>4, SeqEqual
  <2> QED BY <2>4, <2>5, <2>7 DEF c
<1> QED BY <1>9, <1>15 DEF r, e, t

-----------------------------------------------------------------------------
(* Messages.                                                               *)

\* A byte below 128 is a varint by itself.
LEMMA ReadByte7 ==
    ASSUME VarintBytes \in Nat \ {0}, NEW r \in Seq(Nat), Len(r) >= 1, r[1] < 128
    PROVE  Frames!ReadVarint(r) = [value |-> r[1], length |-> 1]
<1> DEFINE n == r[1]
           s == Frames!Shifted(n)
<1>1. n \in Nat /\ n < 128 /\ VarintBytes \in Nat /\ 1 \in 1..VarintBytes
  BY ElementOfSeq
<1> HIDE DEF n
<1>2. s[0] = n /\ \A k \in 1..VarintBytes : s[k] = s[k - 1] \div 128
  BY <1>1, Shifts
<1> HIDE DEF s
<1>3. \A k \in 1..VarintBytes : s[k] = 0
  <2> DEFINE T == {k \in 0..VarintBytes : k > 0 => s[k] = 0}
  <2>1. 0 \in T
    BY <1>1
  <2>2. ASSUME NEW k \in 0..VarintBytes, k > 0, k - 1 \in T PROVE k \in T
    <3>1. s[k] = s[k - 1] \div 128
      BY <1>2, <2>2
    <3>2. CASE k = 1
      BY <1>1, <1>2, <3>1, <3>2
    <3>3. CASE k # 1
      <4>1. s[k - 1] = 0
        BY <2>2, <3>3
      <4> QED BY <3>1, <4>1
    <3> QED BY <3>2, <3>3
  <2> HIDE DEF T
  <2>3. 0..VarintBytes \subseteq T
    BY <2>1, <2>2, <1>1, Induction
  <2>4. ASSUME NEW k \in 1..VarintBytes PROVE s[k] = 0
    <3>1. k \in T /\ k > 0
      BY <2>3
    <3> QED BY <3>1 DEF T
  <2> QED BY <2>4
<1>4. Fits(n)
  BY <1>1, <1>3 DEF Fits, s
<1> DEFINE L == Frames!VarintLength(n)
<1>5. L = 1
  <2>1. L \in 1..VarintBytes /\ \A j \in 1..(L - 1) : s[j] # 0
    BY <1>4, Lengths DEF s
  <2> HIDE DEF L
  <2>2. L > 1 => 1 \in 1..(L - 1)
    BY <2>1
  <2> QED BY <1>1, <1>3, <2>1, <2>2
<1>6. Frames!Varint(n)[1] = n
  <2> DEFINE b == Frames!Varint(n)[1]
  <2>1. b \in Nat /\ b % 128 = s[1 - 1] % 128 /\ (b < 128 <=> 1 = L)
    BY <1>4, <1>5, Bytes7 DEF s
  <2> HIDE DEF b, L
  <2>2. b % 128 = n /\ b < 128
    BY <1>1, <1>2, <1>5, <2>1
  <2>3. b = n
    BY <2>1, <2>2
  <2> QED BY <2>3 DEF b
<1>7. \A i \in 1..L : r[i] = Frames!Varint(n)[i]
  <2> HIDE DEF L
  <2> QED BY <1>5, <1>6 DEF n
<1>8. Frames!ReadVarint(r) = [value |-> n, length |-> L]
  BY <1>4, <1>5, <1>7, VarintRead
<1> QED BY <1>5, <1>8 DEF n

\* The acknowledged session of a Hello.
Acknowledged(m) ==
    IF m.acknowledged_session = <<>> THEN <<0>> ELSE <<1>> \o Frames!Varint(m.acknowledged_session[1])

\* A message is a request or a Hello.
LEMMA Messages ==
    ASSUME NEW m \in Frames!DeviceMessage
    PROVE  \/ m = Frames!ShutdownRequested /\ m.kind = "ShutdownRequested"
           \/ /\ m.kind = "Hello" /\ m.firmware_version \in Versions
              /\ m = Frames!Hello(m.firmware_version, m.acknowledged_session)
              /\ \/ m.acknowledged_session = <<>>
                 \/ \E n \in Sessions : m.acknowledged_session = <<n>>
BY DEF Frames!DeviceMessage, Frames!ShutdownRequested, Frames!Hello

\* What postcard writes of the acknowledged session.
LEMMA AcknowledgedBytes ==
    ASSUME Frames!CodecAssumption, NEW m \in Frames!DeviceMessage, m.kind = "Hello"
    PROVE  /\ Acknowledged(m) \in Seq(Nat) /\ Len(Acknowledged(m)) \in Nat /\ Len(Acknowledged(m)) >= 1
           /\ m.acknowledged_session = <<>> => Acknowledged(m)[1] = 0
           /\ \A n \in Sessions : m.acknowledged_session = <<n>> =>
                /\ Acknowledged(m)[1] = 1
                /\ Len(Acknowledged(m)) = 1 + Frames!VarintLength(n)
                /\ \A i \in 1..Frames!VarintLength(n) : Acknowledged(m)[1 + i] = Frames!Varint(n)[i]
<1>1. CASE m.acknowledged_session = <<>>
  <2>1. Acknowledged(m) = <<0>>
    BY <1>1 DEF Acknowledged
  <2>2. \A n : m.acknowledged_session # <<n>>
    BY <1>1
  <2> QED BY <2>1, <2>2
<1>2. ASSUME NEW n \in Sessions, m.acknowledged_session = <<n>>
      PROVE  /\ Acknowledged(m) \in Seq(Nat) /\ Acknowledged(m)[1] = 1
             /\ Len(Acknowledged(m)) = 1 + Frames!VarintLength(n) /\ Frames!VarintLength(n) \in Nat
             /\ \A i \in 1..Frames!VarintLength(n) : Acknowledged(m)[1 + i] = Frames!Varint(n)[i]
  <2> DEFINE v == Frames!Varint(n)
             L == Frames!VarintLength(n)
  <2>1. Acknowledged(m) = <<1>> \o v
    BY <1>2 DEF Acknowledged
  <2>2. Fits(n) /\ VarintBytes \in Nat \ {0}
    BY DEF Frames!CodecAssumption, Fits
  <2>3. v \in Seq(Nat) /\ Len(v) = L /\ L \in 1..VarintBytes
    BY <2>2, Bytes7, Lengths
  <2> HIDE DEF v, L
  <2>4. <<1>> \in Seq(Nat) /\ Len(<<1>>) = 1 /\ <<1>>[1] = 1
    OBVIOUS
  <2>5. /\ <<1>> \o v \in Seq(Nat) /\ Len(<<1>> \o v) = 1 + L /\ (<<1>> \o v)[1] = 1
        /\ \A i \in 1..L : (<<1>> \o v)[1 + i] = v[i]
    BY <2>2, <2>3, <2>4, ConcatProperties
  <2>6. L \in Nat
    BY <2>2, <2>3
  <2> QED BY <2>1, <2>5, <2>6 DEF v, L
<1>3. ASSUME NEW n \in Sessions, m.acknowledged_session = <<n>>
      PROVE  Len(Acknowledged(m)) \in Nat /\ Len(Acknowledged(m)) >= 1 /\ m.acknowledged_session # <<>>
  BY <1>2, <1>3
<1>4. m.acknowledged_session = <<>> \/ \E n \in Sessions : m.acknowledged_session = <<n>>
  BY Messages
<1> QED BY <1>1, <1>2, <1>3, <1>4

\* The elements of a concatenation.
LEMMA Concatenated ==
    ASSUME NEW a \in Seq(Nat), NEW b \in Seq(Nat), NEW n, n = Len(a)
    PROVE  /\ a \o b \in Seq(Nat) /\ Len(a \o b) = n + Len(b) /\ n \in Nat /\ Len(b) \in Nat
           /\ \A i \in 1..n : (a \o b)[i] = a[i]
           /\ \A i \in 1..Len(b) : (a \o b)[n + i] = b[i]
<1>1. /\ a \o b \in Seq(Nat) /\ Len(a \o b) = n + Len(b)
      /\ \A i \in 1..(n + Len(b)) : (a \o b)[i] = IF i <= n THEN a[i] ELSE b[i - n]
  BY ConcatProperties
<1>2. n \in Nat /\ Len(b) \in Nat
  OBVIOUS
<1>3. ASSUME NEW i \in 1..n PROVE (a \o b)[i] = a[i]
  BY <1>1, <1>2
<1>4. ASSUME NEW i \in 1..Len(b) PROVE (a \o b)[n + i] = b[i]
  <2>1. n + i \in 1..(n + Len(b)) /\ ~(n + i <= n) /\ n + i - n = i
    BY <1>2
  <2>2. (a \o b)[n + i] = IF n + i <= n THEN a[n + i] ELSE b[n + i - n]
    BY <1>1, <2>1
  <2> QED BY <2>1, <2>2
<1> QED BY <1>1, <1>2, <1>3, <1>4

\* What postcard writes of a Hello.
LEMMA HelloBytes ==
    ASSUME Frames!CodecAssumption, NEW m \in Frames!DeviceMessage, m.kind = "Hello"
    PROVE  LET s == Frames!Serialized(m)
               v == m.firmware_version
               a == Acknowledged(m)
           IN  /\ v \in Seq(1..127) /\ Len(v) \in Nat
               /\ s \in Seq(Nat) /\ Len(s) = 2 + Len(v) + Len(a)
               /\ s[1] = 1 /\ s[2] = Len(v)
               /\ \A i \in 1..Len(v) : s[2 + i] = v[i]
               /\ \A i \in 1..Len(a) : s[2 + Len(v) + i] = a[i]
<1> DEFINE s == Frames!Serialized(m)
           v == m.firmware_version
           a == Acknowledged(m)
           h == <<1, Len(v)>>
<1>1. v \in Seq(1..127)
  BY Messages DEF Frames!CodecAssumption
<1>2. a \in Seq(Nat) /\ Len(a) \in Nat
  BY AcknowledgedBytes
<1>3. s = h \o v \o a
  BY DEF Frames!Serialized, Acknowledged
<1> HIDE DEF s, v, a
<1>4. v \in Seq(Nat) /\ Len(v) \in Nat
  <2>1. 1..127 \subseteq Nat
    OBVIOUS
  <2>2. v \in Seq(Nat)
    BY <1>1, <2>1, SeqMonotonic
  <2> QED BY <2>2
<1>5. h \in Seq(Nat) /\ 2 = Len(h) /\ h[1] = 1 /\ h[2] = Len(v)
  BY <1>4
<1> DEFINE hv == h \o v
           n == 2 + Len(v)
<1>8. s = hv \o a
  BY <1>3
<1> HIDE DEF h
<1>6. /\ hv \in Seq(Nat) /\ Len(hv) = n
      /\ (\A i \in 1..2 : hv[i] = h[i])
      /\ (\A i \in 1..Len(v) : hv[2 + i] = v[i])
  <2> DEFINE k == 2
  <2>1. h \in Seq(Nat) /\ v \in Seq(Nat) /\ k = Len(h)
    BY <1>4, <1>5
  <2> HIDE DEF k
  <2>2. /\ hv \in Seq(Nat) /\ Len(hv) = k + Len(v)
        /\ (\A i \in 1..k : hv[i] = h[i])
        /\ (\A i \in 1..Len(v) : hv[k + i] = v[i])
    BY <2>1, Concatenated
  <2> HIDE DEF hv
  <2> QED BY <2>2 DEF k
<1>7. n \in Nat /\ 1 \in 1..n /\ 2 \in 1..n /\ \A i \in 1..Len(v) : 2 + i \in 1..n
  BY <1>4
<1>11. hv[1] = 1 /\ hv[2] = Len(v) /\ \A i \in 1..Len(v) : hv[2 + i] = v[i]
  BY <1>5, <1>6
<1> HIDE DEF hv, n
<1>9. /\ s \in Seq(Nat) /\ Len(s) = n + Len(a)
      /\ \A i \in 1..n : s[i] = hv[i]
      /\ \A i \in 1..Len(a) : s[n + i] = a[i]
  BY <1>2, <1>6, <1>8, Concatenated
<1>10. /\ s[1] = 1 /\ s[2] = Len(v) /\ \A i \in 1..Len(v) : s[2 + i] = v[i]
  BY <1>7, <1>9, <1>11
<1> QED BY <1>1, <1>4, <1>9, <1>10 DEF s, v, a, n

\* The elements behind the first n.
LEMMA Dropped ==
    ASSUME NEW s \in Seq(Nat), NEW n \in Nat, n <= Len(s)
    PROVE  /\ Frames!Drop(s, n) \in Seq(Nat) /\ Len(Frames!Drop(s, n)) = Len(s) - n
           /\ \A i \in 1..(Len(s) - n) : Frames!Drop(s, n)[i] = s[n + i]
<1> DEFINE d == SubSeq(s, n + 1, Len(s))
<1>1. Len(s) \in Nat /\ (n + 1 <= Len(s) => n + 1 \in 1..Len(s))
  OBVIOUS
<1>2. Len(d) = Len(s) - n /\ d \in Seq(Nat)
  BY <1>1
<1>3. ASSUME NEW i \in 1..(Len(s) - n) PROVE d[i] = s[n + i]
  BY <1>1
<1>4. Frames!Drop(s, n) = d
  BY DEF Frames!Drop
<1> HIDE DEF d
<1> QED BY <1>2, <1>3, <1>4

\* The elements of a sequence with one more.
LEMMA Appended ==
    ASSUME NEW s \in Seq(Nat), NEW b \in Nat, NEW n, n = Len(s)
    PROVE  /\ Append(s, b) \in Seq(Nat) /\ Len(Append(s, b)) = n + 1 /\ n \in Nat
           /\ Append(s, b)[n + 1] = b
           /\ \A i \in 1..n : Append(s, b)[i] = s[i]
OBVIOUS

\* A part of a sequence.
LEMMA Parts ==
    ASSUME NEW s \in Seq(Nat), NEW n \in Nat, NEW k \in Nat, n + k <= Len(s)
    PROVE  /\ SubSeq(s, n + 1, n + k) \in Seq(Nat) /\ Len(SubSeq(s, n + 1, n + k)) = k
           /\ \A i \in 1..k : SubSeq(s, n + 1, n + k)[i] = s[n + i]
<1>1. Len(s) \in Nat /\ n + 1 \in 1..(Len(s) + 1) /\ n + k \in n..Len(s)
  OBVIOUS
<1> DEFINE d == SubSeq(s, n + 1, n + k)
           hi == n + k
           lo == n + 1
<1>2. lo \in 1..(Len(s) + 1) /\ hi \in (lo - 1)..Len(s) /\ hi - lo + 1 = k
  BY <1>1
<1>3. \A i \in 1..k : lo + i - 1 = n + i
  OBVIOUS
<1> HIDE DEF hi, lo
<1>4. /\ SubSeq(s, lo, hi) \in Seq(Nat) /\ Len(SubSeq(s, lo, hi)) = hi - lo + 1
      /\ \A i \in 1..(hi - lo + 1) : SubSeq(s, lo, hi)[i] = s[lo + i - 1]
  BY <1>2, SubSeqProperties
<1> QED BY <1>2, <1>3, <1>4 DEF hi, lo

\* from_bytes gives back what to_slice was given, before the zero at the end.
LEMMA Deserializes ==
    ASSUME Frames!CodecAssumption, NEW m \in Frames!DeviceMessage, Len(Frames!Serialized(m)) < 124
    PROVE  Frames!Deserialized(Append(Frames!Serialized(m), 0)) = m
<1>1. CASE m.kind = "ShutdownRequested"
  <2>1. m = Frames!ShutdownRequested
    BY <1>1, Messages
  <2> DEFINE s == Append(Frames!Serialized(m), 0)
  <2>2. s # <<>> /\ s[1] = 0
    <3>1. Frames!Serialized(m) = <<0>>
      BY <1>1, Zenon DEF Frames!Serialized
    <3>2. <<0>> \in Seq(Nat) /\ 1 = Len(<<0>>) /\ 0 \in Nat /\ <<0>>[1] = 0 /\ 1 \in 1..1
      OBVIOUS
    <3>3. Len(Append(<<0>>, 0)) = 1 + 1 /\ \A i \in 1..1 : Append(<<0>>, 0)[i] = <<0>>[i]
      BY <3>2, Appended
    <3>4. Append(<<0>>, 0)[1] = 0 /\ Append(<<0>>, 0) # <<>>
      BY <3>2, <3>3
    <3> QED BY <3>1, <3>4
  <2> SUFFICES Frames!Deserialized(s) = m
    OBVIOUS
  <2> HIDE DEF s
  <2> QED BY <2>1, <2>2, Zenon DEF Frames!Deserialized
<1>2. CASE m.kind = "Hello"
  <2> DEFINE p == Frames!Serialized(m)
             v == m.firmware_version
             a == Acknowledged(m)
             l == Len(v)
             z == Len(a)
             s == Append(p, 0)
  <2>1. /\ v \in Seq(1..127) /\ l \in Nat /\ p \in Seq(Nat) /\ Len(p) = 2 + l + z
        /\ p[1] = 1 /\ p[2] = l
        /\ (\A i \in 1..l : p[2 + i] = v[i])
        /\ (\A i \in 1..z : p[2 + l + i] = a[i])
    BY <1>2, HelloBytes
  <2>2. a \in Seq(Nat) /\ z \in Nat /\ z >= 1 /\ (m.acknowledged_session = <<>> => a[1] = 0)
    BY <1>2, AcknowledgedBytes
  <2>3. \A n \in Sessions : m.acknowledged_session = <<n>> =>
            /\ a[1] = 1 /\ z = 1 + Frames!VarintLength(n)
            /\ \A i \in 1..Frames!VarintLength(n) : a[1 + i] = Frames!Varint(n)[i]
    BY <1>2, AcknowledgedBytes
  <2>4. Len(p) < 124
    OBVIOUS
  <2>5. /\ m = Frames!Hello(v, m.acknowledged_session)
        /\ (m.acknowledged_session = <<>> \/ \E n \in Sessions : m.acknowledged_session = <<n>>)
    BY <1>2, Messages
  <2>6. VarintBytes \in Nat \ {0} /\ \A n \in Sessions : Fits(n)
    BY DEF Frames!CodecAssumption, Fits
  <2> SUFFICES Frames!Deserialized(s) = m
    OBVIOUS
  <2>7. s \in Seq(Nat) /\ Len(s) = 3 + l + z /\ \A i \in 1..(2 + l + z) : s[i] = p[i]
    <3> HIDE DEF p, l, z
    <3>1. 0 \in Nat /\ 2 + l + z = Len(p) /\ 2 + l + z + 1 = 3 + l + z
      BY <2>1, <2>2
    <3> DEFINE n == 2 + l + z
    <3> HIDE DEF n
    <3>2. s \in Seq(Nat) /\ Len(s) = n + 1 /\ \A i \in 1..n : s[i] = p[i]
      BY <3>1, <2>1, Appended DEF n
    <3> HIDE DEF s
    <3> QED BY <3>1, <3>2 DEF n
  <2> HIDE DEF p, a, l, z, s, v
  <2>8. s # <<>> /\ s[1] = 1 /\ s[2] = l
    <3>1. 1 \in 1..(2 + l + z) /\ 2 \in 1..(2 + l + z) /\ Len(s) # 0
      BY <2>1, <2>2, <2>7
    <3> QED BY <3>1, <2>1, <2>7
  <2>9. Frames!ReadVarint(Frames!Drop(s, 1)) = [value |-> l, length |-> 1]
    <3> DEFINE d == Frames!Drop(s, 1)
    <3>1. 1 <= Len(s) /\ 1 \in Nat /\ 1 \in 1..(Len(s) - 1) /\ l < 128
      BY <2>1, <2>2, <2>4, <2>7
    <3>2. d \in Seq(Nat) /\ Len(d) = Len(s) - 1 /\ d[1] = s[1 + 1]
      BY <2>7, <3>1, Dropped
    <3> HIDE DEF d
    <3>3. Len(d) >= 1 /\ d[1] = l
      BY <3>1, <3>2, <2>8, <2>1, <2>2, <2>7
    <3> QED BY <3>1, <3>2, <3>3, <2>6, ReadByte7 DEF d
  <2>10. SubSeq(s, 3, 2 + l) = v
    <3> DEFINE t == SubSeq(s, 3, 2 + l)
    <3>1. 1..127 \subseteq Nat
      OBVIOUS
    <3>2. v \in Seq(Nat) /\ Len(v) = l
      BY <2>1, <3>1, SeqMonotonic DEF l
    <3>3. t \in Seq(Nat) /\ Len(t) = l /\ \A i \in 1..l : t[i] = s[2 + i]
      <4>1. 2 \in Nat /\ 2 + l <= Len(s) /\ 2 + 1 = 3
        BY <2>1, <2>2, <2>7
      <4>2. /\ SubSeq(s, 2 + 1, 2 + l) \in Seq(Nat) /\ Len(SubSeq(s, 2 + 1, 2 + l)) = l
            /\ \A i \in 1..l : SubSeq(s, 2 + 1, 2 + l)[i] = s[2 + i]
        BY <4>1, <2>1, <2>7, Parts
      <4> QED BY <4>1, <4>2
    <3>4. ASSUME NEW i \in 1..l PROVE t[i] = v[i]
      <4>1. t[i] = s[2 + i]
        BY <3>3
      <4>2. 2 + i \in 1..(2 + l + z)
        BY <2>1, <2>2
      <4> QED BY <4>1, <4>2, <2>1, <2>7
    <3> HIDE DEF t
    <3>5. t = v
      BY <3>2, <3>3, <3>4, SeqEqual
    <3> QED BY <3>5 DEF t
  <2> DEFINE rest == Frames!Drop(s, 2 + l)
  <2>11. /\ rest \in Seq(Nat) /\ Len(rest) = 1 + z
         /\ \A i \in 1..z : rest[i] = a[i]
    <3> DEFINE n == 2 + l
    <3>1. n \in Nat /\ n <= Len(s) /\ Len(s) - n = 1 + z
      BY <2>1, <2>2, <2>7
    <3>2. rest \in Seq(Nat) /\ Len(rest) = 1 + z /\ \A i \in 1..(1 + z) : rest[i] = s[n + i]
      <4> HIDE DEF n
      <4>1. /\ Frames!Drop(s, n) \in Seq(Nat) /\ Len(Frames!Drop(s, n)) = Len(s) - n
            /\ \A i \in 1..(Len(s) - n) : Frames!Drop(s, n)[i] = s[n + i]
        BY <3>1, <2>7, Dropped
      <4> QED BY <3>1, <4>1 DEF n
    <3> HIDE DEF rest
    <3>3. ASSUME NEW i \in 1..z PROVE rest[i] = a[i]
      <4>1. l \in Nat /\ z \in Nat
        BY <2>1, <2>2
      <4>2. i \in 1..(1 + z) /\ 2 + l + i \in 1..(2 + l + z)
        BY <4>1
      <4> QED BY <4>2, <3>2, <2>1, <2>7
    <3> QED BY <3>2, <3>3
  <2> HIDE DEF rest
  <2>12. rest # <<>> /\ rest[1] = a[1] /\ 1 \in 1..z
    BY <2>2, <2>11
  <2> DEFINE session == Frames!ReadVarint(Frames!Drop(rest, 1))
  <2>13. Frames!Deserialized(s) = IF rest[1] = 0 THEN Frames!Hello(v, <<>>)
                                  ELSE IF rest[1] # 1 \/ session.length = 0 THEN Frames!Error("Deserialize")
                                  ELSE Frames!Hello(v, <<session.value>>)
    <3> DEFINE size == [value |-> l, length |-> 1]
    <3>1. size.value = l /\ size.length = 1 /\ 2 + 1 = 3 /\ 1 + 1 = 2 /\ 1 # 0 /\ ~(Len(s) < 2 + l)
      BY <2>1, <2>2, <2>7
    <3>2. ASSUME NEW i \in DOMAIN v PROVE ~(v[i] > 127)
      <4>1. DOMAIN v = 1..Len(v) /\ \A j \in 1..Len(v) : v[j] \in 1..127
        BY <2>1, LenProperties, ElementOfSeq
      <4>2. v[i] \in 1..127
        BY <4>1
      <4>3. \A x \in 1..127 : ~(x > 127)
        OBVIOUS
      <4> QED BY <4>2, <4>3, Zenon
    <3> HIDE DEF size, session
    <3>3. Frames!ReadVarint(Frames!Drop(s, 1)) = size
      BY <2>9 DEF size
    <3>4. Frames!Deserialized(s) =
            LET text == SubSeq(s, 2 + size.length, 1 + size.length + size.value)
                left == Frames!Drop(s, 1 + size.length + size.value)
                nonce == Frames!ReadVarint(Frames!Drop(left, 1))
            IN  IF \/ size.length = 0 \/ Len(s) < 1 + size.length + size.value
                   \/ \E i \in DOMAIN text : text[i] > 127
                   \/ left = <<>>
                THEN Frames!Error("Deserialize")
                ELSE IF left[1] = 0 THEN Frames!Hello(text, <<>>)
                ELSE IF left[1] # 1 \/ nonce.length = 0 THEN Frames!Error("Deserialize")
                ELSE Frames!Hello(text, <<nonce.value>>)
      <4>1. s[1] # 0 /\ s[1] = 1 /\ s # <<>>
        BY <2>8
      <4> QED BY <3>3, <4>1, Zenon DEF Frames!Deserialized
    <3>5. /\ 2 + size.length = 3 /\ 1 + size.length + size.value = 2 + l /\ size.length # 0
          /\ ~(Len(s) < 1 + size.length + size.value)
      BY <3>1, <2>1
    <3>6. /\ SubSeq(s, 2 + size.length, 1 + size.length + size.value) = v
          /\ Frames!Drop(s, 1 + size.length + size.value) = rest
      BY <3>5, <2>10 DEF rest
    <3>7. ~\E i \in DOMAIN v : v[i] > 127
      BY <3>2
    <3> QED BY <3>4, <3>5, <3>6, <3>7, <2>12, Zenon DEF session
  <2>14. CASE m.acknowledged_session = <<>>
    BY <2>2, <2>5, <2>12, <2>13, <2>14
  <2>15. ASSUME NEW n \in Sessions, m.acknowledged_session = <<n>> PROVE Frames!Deserialized(s) = m
    <3> DEFINE d == Frames!Drop(rest, 1)
               L == Frames!VarintLength(n)
    <3>1. L \in Nat /\ L >= 1
      BY <2>6, Lengths
    <3>2. z = 1 + L /\ a[1] = 1 /\ \A i \in 1..L : a[1 + i] = Frames!Varint(n)[i]
      BY <2>3, <2>15
    <3> HIDE DEF L
    <3>3. 1 <= Len(rest) /\ 1 \in Nat /\ Len(rest) - 1 = z
      BY <2>11, <2>2
    <3>4. d \in Seq(Nat) /\ Len(d) = z /\ \A i \in 1..z : d[i] = rest[1 + i]
      BY <3>3, <2>11, Dropped
    <3> HIDE DEF d
    <3>5. L <= Len(d)
      BY <3>1, <3>2, <3>4
    <3>6. ASSUME NEW i \in 1..L PROVE d[i] = Frames!Varint(n)[i]
      <4>1. i \in 1..z /\ 1 + i \in 1..z
        BY <3>1, <3>2
      <4> QED BY <4>1, <3>2, <3>4, <2>11
    <3>7. Frames!ReadVarint(d) = [value |-> n, length |-> L]
      BY <2>6, <3>4, <3>5, <3>6, VarintRead DEF L
    <3>8. session.value = n /\ session.length = L
      BY <3>7 DEF d
    <3>9. L # 0 /\ rest[1] = 1 /\ 1 # 0
      BY <3>1, <3>2, <2>12
    <3> HIDE DEF session
    <3> QED BY <2>5, <2>13, <2>15, <3>8, <3>9
  <2> QED BY <2>5, <2>14, <2>15
<1> QED BY <1>1, <1>2, Messages

\* What postcard writes is a sequence of bytes, of one at least.
LEMMA SerializedType ==
    ASSUME Frames!CodecAssumption, NEW m \in Frames!DeviceMessage
    PROVE  Frames!Serialized(m) \in Seq(Nat) /\ Len(Frames!Serialized(m)) \in Nat
           /\ Len(Frames!Serialized(m)) >= 1
<1>1. CASE m.kind = "ShutdownRequested"
  <2>1. Frames!Serialized(m) = <<0>>
    BY <1>1, Zenon DEF Frames!Serialized
  <2> QED BY <2>1
<1>2. CASE m.kind = "Hello"
  <2> DEFINE s == Frames!Serialized(m)
             l == Len(m.firmware_version)
             z == Len(Acknowledged(m))
  <2>1. s \in Seq(Nat) /\ Len(s) = 2 + l + z /\ l \in Nat
    BY <1>2, HelloBytes
  <2>2. z \in Nat
    BY <1>2, AcknowledgedBytes
  <2> HIDE DEF s, l, z
  <2>3. Len(s) \in Nat /\ Len(s) >= 1
    BY <2>1, <2>2
  <2> QED BY <2>1, <2>3 DEF s
<1> QED BY <1>1, <1>2, Messages

\* The frame of a message: the mark, the version and the COBS body.
LEMMA Framed ==
    ASSUME Frames!CodecAssumption, NEW m \in Frames!DeviceMessage,
           NEW n, n = Len(Frames!Serialized(m))
    PROVE  /\ Frames!encode(m) \in Seq(Nat) /\ Len(Frames!encode(m)) = 4 + n /\ n \in Nat /\ n >= 1
           /\ Frames!encode(m)[1] = 165 /\ Frames!encode(m)[2] = 90 /\ Frames!encode(m)[3] = 10
           /\ \A i \in 1..(n + 1) :
                Frames!encode(m)[3 + i] = Frames!CobsEncoded(Frames!Serialized(m))[i]
<1> DEFINE s == Frames!Serialized(m)
           e == Frames!CobsEncoded(s)
           h == <<165, 90, 10>>
           f == h \o e
<1>1. s \in Seq(Nat) /\ n \in Nat /\ n >= 1
  BY SerializedType
<1>2. e \in Seq(Nat) /\ Len(e) = n + 1
  BY <1>1, Encoded
<1>3. Frames!encode(m) = f
  <2>1. <<165, 90>> \o <<10>> = h
    <3> DEFINE a == <<165, 90>>
               b == <<10>>
               c == a \o b
    <3>1. /\ a \in Seq(Nat) /\ b \in Seq(Nat) /\ 2 = Len(a) /\ Len(b) = 1
          /\ a[1] = 165 /\ a[2] = 90 /\ b[1] = 10
      OBVIOUS
    <3>2. h \in Seq(Nat) /\ Len(h) = 3 /\ h[1] = 165 /\ h[2] = 90 /\ h[3] = 10
      OBVIOUS
    <3> DEFINE k == 2
    <3>0. a \in Seq(Nat) /\ b \in Seq(Nat) /\ k = Len(a)
      BY <3>1
    <3> HIDE DEF a, b, h, k
    <3>3. c \in Seq(Nat) /\ Len(c) = k + Len(b) /\ (\A i \in 1..k : c[i] = a[i])
          /\ \A i \in 1..Len(b) : c[k + i] = b[i]
      BY <3>0, Concatenated
    <3> HIDE DEF c
    <3>4. Len(c) = 3 /\ c[1] = 165 /\ c[2] = 90 /\ c[3] = 10
      BY <3>1, <3>3 DEF k
    <3>5. \A i \in 1..3 : i = 1 \/ i = 2 \/ i = 3
      OBVIOUS
    <3>6. c = h
      <4>1. \A i \in 1..Len(c) : c[i] = h[i]
        BY <3>2, <3>4, <3>5
      <4>2. c \in Seq(Nat) /\ h \in Seq(Nat) /\ Len(c) = Len(h)
        BY <3>2, <3>3, <3>4
      <4> HIDE DEF c
      <4> QED BY <4>1, <4>2, SeqEqual, Zenon
    <3> QED BY <3>6 DEF a, b, c
  <2> HIDE DEF e, h
  <2> QED BY <2>1 DEF Frames!encode, Frames!FRAME_MAGIC, Frames!PROTOCOL_VERSION, e
<1>4. h \in Seq(Nat) /\ 3 = Len(h) /\ h[1] = 165 /\ h[2] = 90 /\ h[3] = 10
  OBVIOUS
<1> HIDE DEF s, e, h
<1>5. /\ f \in Seq(Nat) /\ Len(f) = 3 + Len(e)
      /\ (\A i \in 1..3 : f[i] = h[i])
      /\ (\A i \in 1..Len(e) : f[3 + i] = e[i])
  <2> DEFINE k == 3
  <2>1. h \in Seq(Nat) /\ k = Len(h) /\ e \in Seq(Nat)
    BY <1>2, <1>4
  <2> HIDE DEF k
  <2>2. /\ f \in Seq(Nat) /\ Len(f) = k + Len(e)
        /\ (\A i \in 1..k : f[i] = h[i])
        /\ (\A i \in 1..Len(e) : f[k + i] = e[i])
    BY <2>1, Concatenated
  <2> HIDE DEF f
  <2> QED BY <2>2 DEF k
<1> HIDE DEF f
<1>6. Len(f) = 4 + n /\ f[1] = 165 /\ f[2] = 90 /\ f[3] = 10
  BY <1>1, <1>2, <1>4, <1>5
<1> QED BY <1>1, <1>2, <1>3, <1>5, <1>6 DEF e, s

\* What starts_with finds.
LEMMA Marks ==
    ASSUME NEW r \in Seq(Nat)
    PROVE  Frames!Marked(r) <=> (Len(r) >= 2 /\ r[1] = 165 /\ r[2] = 90)
<1> DEFINE p == SubSeq(r, 1, 2)
<1>1. ASSUME Len(r) >= 2 PROVE p = <<165, 90>> <=> (r[1] = 165 /\ r[2] = 90)
  <2>1. p \in Seq(Nat) /\ Len(p) = 2 /\ p[1] = r[1] /\ p[2] = r[2]
    <3>1. 0 \in Nat /\ 2 \in Nat /\ 0 + 2 <= Len(r) /\ 0 + 1 = 1 /\ 0 + 2 = 2 /\ 1 \in 1..2 /\ 2 \in 1..2
      BY <1>1
    <3>2. /\ SubSeq(r, 0 + 1, 0 + 2) \in Seq(Nat) /\ Len(SubSeq(r, 0 + 1, 0 + 2)) = 2
          /\ \A i \in 1..2 : SubSeq(r, 0 + 1, 0 + 2)[i] = r[0 + i]
      BY <3>1, Parts
    <3> QED BY <3>1, <3>2
  <2> HIDE DEF p
  <2>2. <<165, 90>> \in Seq(Nat) /\ Len(<<165, 90>>) = 2 /\ <<165, 90>>[1] = 165 /\ <<165, 90>>[2] = 90
    OBVIOUS
  <2>3. \A i \in 1..2 : i = 1 \/ i = 2
    OBVIOUS
  <2>4. p[1] = 165 /\ p[2] = 90 => p = <<165, 90>>
    BY <2>1, <2>2, <2>3, SeqEqual
  <2> QED BY <2>1, <2>2, <2>4
<1> HIDE DEF p
<1> QED BY <1>1 DEF Frames!Marked, Frames!FRAME_MAGIC, p

\* A frame that arrives by itself is decoded as it was encoded.
LEMMA Returned ==
    ASSUME Frames!CodecAssumption, NEW m \in Frames!Sendable
    PROVE  Frames!Receives(Frames!encode(m)) = m
<1> DEFINE p == Frames!Serialized(m)
           f == Frames!encode(m)
           e == Frames!CobsEncoded(p)
           n == Len(p)
           r == Append(f, 0)
<1>1. m \in Frames!DeviceMessage /\ Len(f) < 128
  BY DEF Frames!Sendable, Frames!MAX_DEVICE_FRAME_LEN
<1>0. n = Len(Frames!Serialized(m))
  OBVIOUS
<1> HIDE DEF n
<1>2. /\ f \in Seq(Nat) /\ Len(f) = 4 + n /\ n \in Nat /\ n >= 1
      /\ f[1] = 165 /\ f[2] = 90 /\ f[3] = 10
      /\ \A i \in 1..(n + 1) : f[3 + i] = e[i]
  BY <1>0, <1>1, Framed
<1>3. n < 124 /\ n < 254
  <2> HIDE DEF f
  <2> QED BY <1>1, <1>2
<1>4. p \in Seq(Nat)
  BY <1>1, SerializedType
<1>5. Frames!Deserialized(Append(p, 0)) = m
  BY <1>0, <1>1, <1>3, Deserializes
<1>6. Frames!CobsDecoded(Append(e, 0)).ok /\ Frames!CobsDecoded(Append(e, 0)).bytes = Append(p, 0)
  BY <1>0, <1>3, <1>4, CobsRoundTrip
<1>7. e \in Seq(Nat) /\ Len(e) = n + 1
  BY <1>0, <1>4, Encoded
<1> HIDE DEF p, f, e
<1>8. /\ r \in Seq(Nat) /\ Len(r) = 5 + n /\ r[5 + n] = 0
      /\ \A i \in 1..(4 + n) : r[i] = f[i]
  <2> DEFINE k == 4 + n
  <2>1. k = Len(f) /\ 0 \in Nat /\ k + 1 = 5 + n
    BY <1>2
  <2> HIDE DEF k
  <2>2. r \in Seq(Nat) /\ Len(r) = k + 1 /\ r[k + 1] = 0 /\ \A i \in 1..k : r[i] = f[i]
    BY <2>1, <1>2, Appended
  <2> HIDE DEF r
  <2> QED BY <2>1, <2>2 DEF k
<1> HIDE DEF r
<1>9. Len(r) >= 3 /\ r[1] = 165 /\ r[2] = 90 /\ r[3] = 10
  <2>1. 1 \in 1..(4 + n) /\ 2 \in 1..(4 + n) /\ 3 \in 1..(4 + n)
    BY <1>2
  <2> QED BY <2>1, <1>2, <1>8
<1>10. Frames!Drop(r, 3) = Append(e, 0)
  <2> DEFINE d == Frames!Drop(r, 3)
             c == Append(e, 0)
  <2>1. 3 \in Nat /\ 3 <= Len(r) /\ Len(r) - 3 = n + 2
    BY <1>2, <1>8
  <2>2. d \in Seq(Nat) /\ Len(d) = n + 2 /\ \A i \in 1..(n + 2) : d[i] = r[3 + i]
    <3> DEFINE k == 3
               l == n + 2
    <3>1. k \in Nat /\ k <= Len(r) /\ Len(r) - k = l /\ r \in Seq(Nat)
      BY <2>1, <1>8
    <3> HIDE DEF k, l
    <3>2. /\ Frames!Drop(r, k) \in Seq(Nat) /\ Len(Frames!Drop(r, k)) = l
          /\ \A i \in 1..l : Frames!Drop(r, k)[i] = r[k + i]
      BY <3>1, Dropped, Zenon
    <3> QED BY <3>2 DEF k, l
  <2>3. c \in Seq(Nat) /\ Len(c) = n + 2 /\ c[n + 2] = 0 /\ \A i \in 1..(n + 1) : c[i] = e[i]
    <3> DEFINE k == n + 1
    <3>1. k = Len(e) /\ 0 \in Nat /\ k + 1 = n + 2
      BY <1>2, <1>7
    <3> HIDE DEF k
    <3>2. c \in Seq(Nat) /\ Len(c) = k + 1 /\ c[k + 1] = 0 /\ \A i \in 1..k : c[i] = e[i]
      BY <3>1, <1>7, Appended
    <3> HIDE DEF c
    <3> QED BY <3>1, <3>2 DEF k
  <2> HIDE DEF d, c
  <2>4. ASSUME NEW i \in 1..(n + 2) PROVE d[i] = c[i]
    <3>1. CASE i \in 1..(n + 1)
      <4>1. 3 + i \in 1..(4 + n)
        BY <3>1, <1>2
      <4> QED BY <4>1, <3>1, <2>2, <2>3, <1>2, <1>8
    <3>2. CASE i = n + 2
      <4>1. 3 + i = 5 + n /\ i \in 1..(n + 2)
        BY <3>2, <1>2
      <4> QED BY <4>1, <3>2, <2>2, <2>3, <1>8
    <3> QED BY <3>1, <3>2, <1>2
  <2>5. d = c
    BY <2>2, <2>3, <2>4, SeqEqual
  <2> QED BY <2>5 DEF d, c
<1>11. Frames!Marked(r)
  BY <1>8, <1>9, Marks
<1>12. Frames!decode(r) = m
  BY <1>5, <1>6, <1>9, <1>10, <1>11, Zenon DEF Frames!decode, Frames!PROTOCOL_VERSION
<1>13. f # <<>> /\ ~(Len(f) + 1 > 128)
  BY <1>1, <1>2, <1>3
<1>14. Frames!Receives(f) = Frames!decode(r)
  BY <1>13, Zenon DEF Frames!Receives, Frames!MAX_DEVICE_FRAME_LEN, r
<1> QED BY <1>12, <1>14 DEF f

\* The bytes before a delimiter, and the delimiter.
LEMMA Delimited ==
    ASSUME NEW f \in Seq(Nat), NEW n, n = Len(f)
    PROVE  /\ Append(f, 0) \in Seq(Nat) /\ Len(Append(f, 0)) = n + 1 /\ n \in Nat
           /\ Append(f, 0)[n + 1] = 0 /\ \A i \in 1..n : Append(f, 0)[i] = f[i]
           /\ n >= 1 /\ n < 128 => Frames!Receives(f) = Frames!decode(Append(f, 0))
<1>1. /\ Append(f, 0) \in Seq(Nat) /\ Len(Append(f, 0)) = n + 1 /\ n \in Nat
      /\ Append(f, 0)[n + 1] = 0 /\ \A i \in 1..n : Append(f, 0)[i] = f[i]
  <2>1. 0 \in Nat
    OBVIOUS
  <2> QED BY <2>1, Appended
<1>2. ASSUME n >= 1, n < 128 PROVE Frames!Receives(f) = Frames!decode(Append(f, 0))
  <2>1. f # <<>> /\ ~(Len(f) + 1 > 128)
    BY <1>2
  <2> QED BY <2>1, Zenon DEF Frames!Receives, Frames!MAX_DEVICE_FRAME_LEN
<1> QED BY <1>1, <1>2

\* The display of another protocol: of one before the mark, and of the next.
LEMMA LegacyTold ==
    ASSUME Frames!CodecAssumption, NEW v \in OldVersions
    PROVE  Frames!Receives(Frames!legacy(v)) = Frames!UnsupportedVersion(v)
<1> DEFINE p == <<v, 254, 237, 0>>
           e == Frames!CobsEncoded(p)
           r == Append(e, 0)
           q == Append(p, 0)
<1>1. v \in Nat
  BY DEF Frames!CodecAssumption
<1>2. p \in Seq(Nat) /\ Len(p) = 4 /\ p[1] = v
  BY <1>1
<1>3. Frames!legacy(v) = e
  BY DEF Frames!legacy
<1> HIDE DEF p
<1>4. Frames!CobsDecoded(r).ok /\ Frames!CobsDecoded(r).bytes = q
  <2>1. p \in Seq(Nat) /\ Len(p) < 254
    BY <1>2
  <2> QED BY <2>1, CobsRoundTrip, Zenon
<1>5. q # <<>> /\ q[1] = v
  <2> DEFINE n == 4
  <2>1. p \in Seq(Nat) /\ n = Len(p) /\ 1 \in 1..n
    BY <1>2
  <2> HIDE DEF n
  <2>2. Len(q) = n + 1 /\ n \in Nat /\ \A i \in 1..n : q[i] = p[i]
    BY <2>1, Delimited
  <2> HIDE DEF q
  <2> QED BY <1>2, <2>1, <2>2
<1>6. /\ e \in Seq(Nat) /\ Len(e) = 5 /\ e[1] = Frames!Distance(p, 1)
  <2>1. p \in Seq(Nat)
    BY <1>2
  <2>2. e \in Seq(Nat) /\ Len(e) = Len(p) + 1 /\ e[1] = Frames!Distance(p, 1)
    BY <2>1, Encoded, Zenon
  <2> HIDE DEF e
  <2> QED BY <1>2, <2>2
<1>7. e[1] < 165
  <2>1. 1 \in 1..(Len(p) + 1) /\ Len(p) + 2 - 1 = 5
    BY <1>2
  <2>2. Frames!Distance(p, 1) \in 1..(Len(p) + 2 - 1)
    BY <1>2, <2>1, Distances
  <2> HIDE DEF e
  <2> QED BY <1>6, <2>1, <2>2
<1> HIDE DEF e, q
<1>8. r \in Seq(Nat) /\ r[1] = e[1] /\ Frames!Receives(e) = Frames!decode(r)
  <2> DEFINE n == 5
  <2>1. e \in Seq(Nat) /\ n = Len(e) /\ 1 \in 1..n /\ n >= 1 /\ n < 128
    BY <1>6
  <2> HIDE DEF n
  <2> QED BY <2>1, Delimited
<1> HIDE DEF r
<1>9. ~Frames!Marked(r)
  BY <1>7, <1>8, Marks
<1>10. Frames!decode(r) = Frames!UnsupportedVersion(v)
  BY <1>4, <1>5, <1>9, Zenon DEF Frames!decode
<1> QED BY <1>3, <1>8, <1>10

\* The display of the next protocol.
LEMMA NextTold ==
    ASSUME Frames!CodecAssumption, NEW m \in Frames!Sendable
    PROVE  Frames!Receives([Frames!encode(m) EXCEPT ![3] = Frames!PROTOCOL_VERSION + 1])
             = Frames!UnsupportedVersion(Frames!PROTOCOL_VERSION + 1)
<1> DEFINE n == Len(Frames!Serialized(m))
           f == Frames!encode(m)
           g == [f EXCEPT ![3] = 11]
           r == Append(g, 0)
           l == 4 + n
<1>0. n = Len(Frames!Serialized(m))
  OBVIOUS
<1>1. m \in Frames!DeviceMessage /\ Len(f) < 128
  BY DEF Frames!Sendable, Frames!MAX_DEVICE_FRAME_LEN
<1> HIDE DEF n
<1>2. f \in Seq(Nat) /\ Len(f) = 4 + n /\ n \in Nat /\ n >= 1 /\ f[1] = 165 /\ f[2] = 90
  BY <1>0, <1>1, Framed
<1>3. Frames!PROTOCOL_VERSION + 1 = 11
  BY DEF Frames!PROTOCOL_VERSION
<1> HIDE DEF f
<1>4. g \in Seq(Nat) /\ Len(g) = l /\ g[1] = 165 /\ g[2] = 90 /\ g[3] = 11
  <2>1. 1 \in 1..Len(f) /\ 2 \in 1..Len(f) /\ 3 \in 1..Len(f) /\ Len(f) \in Nat
    BY <1>2
  <2>2. f \in [1..Len(f) -> Nat]
    BY <1>2
  <2>3. g \in [1..Len(f) -> Nat] /\ g[1] = 165 /\ g[2] = 90 /\ g[3] = 11
    BY <1>2, <2>1, <2>2
  <2> HIDE DEF g
  <2> QED BY <1>2, <2>1, <2>3
<1> HIDE DEF g
<1>5. l \in Nat /\ l >= 5 /\ l < 128 /\ 1 \in 1..l /\ 2 \in 1..l /\ 3 \in 1..l
  BY <1>1, <1>2
<1> HIDE DEF l
<1>6. /\ r \in Seq(Nat) /\ Len(r) = l + 1 /\ r[1] = 165 /\ r[2] = 90 /\ r[3] = 11
      /\ Frames!Receives(g) = Frames!decode(r)
  <2>1. l >= 1
    BY <1>5
  <2> QED BY <1>4, <1>5, <2>1, Delimited
<1> HIDE DEF r
<1>7. Frames!Marked(r)
  <2>1. Len(r) >= 2
    BY <1>5, <1>6
  <2> QED BY <1>6, <2>1, Marks
<1>8. 11 # 10
  OBVIOUS
<1>9. Frames!decode(r) = Frames!UnsupportedVersion(11)
  BY <1>6, <1>7, <1>8, Zenon DEF Frames!decode, Frames!PROTOCOL_VERSION
<1> QED BY <1>3, <1>6, <1>9 DEF g, f

\* What a byte does not take back: a block that exceeds, and the first byte decoded.
LEMMA TakesKeeps ==
    ASSUME NEW state \in States, NEW byte \in Nat, NEW behind
    PROVE  /\ ~state.ok => ~Frames!Takes(state, byte, behind).ok
           /\ state.bytes # <<>> =>
                /\ Frames!Takes(state, byte, behind).bytes # <<>>
                /\ Frames!Takes(state, byte, behind).bytes[1] = state.bytes[1]
<1>1. state.left \in Nat /\ state.bytes \in Seq(Nat)
  BY DEF States
<1>2. ASSUME NEW s \in Seq(Nat), s # <<>>, NEW b \in Nat
      PROVE  Append(s, b) # <<>> /\ Append(s, b)[1] = s[1]
  BY <1>2
<1> DEFINE next == Frames!Takes(state, byte, behind)
<1>3. CASE state.left > 0
  <2>1. next.ok = state.ok /\ next.bytes = Append(state.bytes, byte)
    BY <1>3, TakesByte, Zenon
  <2> HIDE DEF next
  <2>2. state.bytes # <<>> => next.bytes # <<>> /\ next.bytes[1] = state.bytes[1]
    BY <1>1, <1>2, <2>1, Zenon
  <2>3. ~state.ok => ~next.ok
    BY <2>1, Zenon
  <2> QED BY <2>2, <2>3, Zenon DEF next
<1>4. CASE state.left = 0
  <2>1. /\ next.ok = (state.ok /\ (byte <= behind + 1 \/ byte = 1))
        /\ next.bytes = IF state.zero THEN Append(state.bytes, 0) ELSE state.bytes
    BY <1>4, TakesLength
  <2> HIDE DEF next
  <2>2. ~state.ok => ~next.ok
    BY <2>1, Zenon
  <2>3. 0 \in Nat
    OBVIOUS
  <2>4. state.bytes # <<>> => next.bytes # <<>> /\ next.bytes[1] = state.bytes[1]
    BY <1>1, <1>2, <2>1, <2>3, Zenon
  <2> QED BY <2>2, <2>4, Zenon DEF next
<1> QED BY <1>1, <1>3, <1>4

\* So both are kept to the end of the body.
LEMMA Remains ==
    ASSUME NEW r \in Seq(Nat), NEW End, End = Len(r), NEW after, Decodes(r, End, after), NEW j \in 0..End
    PROVE  /\ ~after[j].ok => ~Frames!CobsDecoded(r).ok
           /\ after[j].bytes # <<>> =>
                /\ Frames!CobsDecoded(r).bytes # <<>>
                /\ Frames!CobsDecoded(r).bytes[1] = after[j].bytes[1]
<1> DEFINE Kept(k) == /\ ~after[j].ok => ~after[k].ok
                      /\ after[j].bytes # <<>> =>
                           after[k].bytes # <<>> /\ after[k].bytes[1] = after[j].bytes[1]
           T == {k \in 0..End : k >= j => Kept(k)}
<1>1. /\ after \in [0..End -> States] /\ Frames!CobsDecoded(r) = after[End] /\ End \in Nat
      /\ \A k \in 1..End : after[k] = Frames!Takes(after[k - 1], r[k], End - k)
  BY Zenon, LenProperties DEF Decodes
<1>2. 0 \in T
  <2>1. j \in Nat /\ 0 \in 0..End /\ (0 >= j => j = 0)
    BY <1>1
  <2>2. Kept(j)
    OBVIOUS
  <2> HIDE DEF Kept
  <2> QED BY <2>1, <2>2
<1>3. ASSUME NEW k \in 0..End, k > 0, k - 1 \in T PROVE k \in T
  <2> SUFFICES ASSUME k >= j PROVE Kept(k)
    OBVIOUS
  <2>1. CASE k = j
    BY <2>1
  <2>2. CASE k # j
    <3> DEFINE i == k - 1
    <3>1. k \in 1..End /\ i \in 0..End /\ i >= j /\ i \in T
      BY <1>1, <1>3, <2>2
    <3>2. Kept(i)
      <4> HIDE DEF i, Kept
      <4> QED BY <3>1
    <3>3. after[i] \in States /\ r[k] \in Nat
      <4>1. after[i] \in States
        BY <1>1, <3>1
      <4>2. r[k] \in Nat
        BY <3>1
      <4> QED BY <4>1, <4>2
    <3>4. after[k] = Frames!Takes(after[i], r[k], End - k)
      BY <1>1, <3>1
    <3> DEFINE b == End - k
    <3>6. after[k] = Frames!Takes(after[i], r[k], b)
      BY <3>4
    <3> HIDE DEF i, b
    <3>5. /\ ~after[i].ok => ~after[k].ok
          /\ after[i].bytes # <<>> => after[k].bytes # <<>> /\ after[k].bytes[1] = after[i].bytes[1]
      BY <3>3, <3>6, TakesKeeps
    <3> QED BY <3>2, <3>5, Zenon
  <2> QED BY <2>1, <2>2
<1> HIDE DEF Kept
<1>4. End \in T
  <2> HIDE DEF T
  <2>1. 0..End \subseteq T
    BY <1>1, <1>2, <1>3, Induction
  <2> QED BY <1>1, <2>1
<1>5. Kept(End)
  BY <1>1, <1>4
<1> QED BY <1>1, <1>5, Zenon DEF Kept

\* A mark where a block starts: a length that exceeds the frame.
LEMMA Exceeds ==
    ASSUME NEW r \in Seq(Nat), NEW End, End = Len(r), NEW after, Decodes(r, End, after),
           NEW k \in 1..End, after[k - 1].left = 0, r[k] = 165, End < 165
    PROVE  ~Frames!CobsDecoded(r).ok
<1> DEFINE j == k - 1
           state == after[j]
           behind == End - k
<1>1. /\ after \in [0..End -> States] /\ End \in Nat /\ j \in 0..End
      /\ after[k] = Frames!Takes(state, r[k], behind) /\ k \in 0..End
  <2>1. /\ after \in [0..End -> States]
        /\ \A i \in 1..End : after[i] = Frames!Takes(after[i - 1], r[i], End - i)
    BY Zenon DEF Decodes
  <2>2. End \in Nat
    OBVIOUS
  <2> QED BY <2>1, <2>2
<1>2. ~(165 <= behind + 1) /\ 165 # 1 /\ 165 \in Nat
  BY <1>1
<1>3. state \in States /\ state.left = 0
  BY <1>1
<1> HIDE DEF state, behind
<1>4. after[k].ok = (state.ok /\ (165 <= behind + 1 \/ 165 = 1))
  BY <1>1, <1>2, <1>3, TakesLength
<1>5. ~after[k].ok
  BY <1>2, <1>4, Zenon
<1> QED BY <1>1, <1>5, Remains, Zenon

\* When a frame is decoded as a request to shut down.
LEMMA RequestDecoded ==
    ASSUME NEW w \in Seq(Nat), Frames!Receives(w) = Frames!ShutdownRequested,
           NEW r, r = Append(w, 0)
    PROVE  /\ r \in Seq(Nat) /\ Len(r) = Len(w) + 1 /\ Len(w) < 128 /\ \A i \in 1..Len(w) : r[i] = w[i]
           /\ Len(r) >= 2 /\ r[1] = 165 /\ r[2] = 90 /\ r[3] = 10
           /\ Frames!CobsDecoded(Frames!Drop(r, 3)).ok
           /\ Frames!CobsDecoded(Frames!Drop(r, 3)).bytes # <<>> =>
                 Frames!CobsDecoded(Frames!Drop(r, 3)).bytes[1] = 0
<1> DEFINE request == Frames!ShutdownRequested
           body == Frames!CobsDecoded(Frames!Drop(r, 3))
           whole == Frames!CobsDecoded(r)
<1>1. /\ \A k \in {"Deserialize", "EmptyFrame", "FrameTooLong"} : Frames!Error(k) # request
      /\ \A v : Frames!UnsupportedVersion(v) # request
      /\ \A v, s : Frames!Hello(v, s) # request
  BY DEF Frames!Error, Frames!UnsupportedVersion, Frames!Hello, Frames!ShutdownRequested
<1>2. Frames!Receives(w) = IF w = <<>> THEN Frames!Error("EmptyFrame")
                           ELSE IF Len(w) + 1 > 128 THEN Frames!Error("FrameTooLong")
                           ELSE Frames!decode(r)
  BY Zenon DEF Frames!Receives, Frames!MAX_DEVICE_FRAME_LEN
<1> HIDE DEF request
<1>3. ~(Len(w) + 1 > 128) /\ Frames!decode(r) = request
  BY <1>1, <1>2, Zenon DEF request
<1>4. Len(w) < 128
  BY <1>3
<1>5. r \in Seq(Nat) /\ Len(r) = Len(w) + 1 /\ \A i \in 1..Len(w) : r[i] = w[i]
  BY Delimited
<1>6. Frames!decode(r) =
        IF Frames!Marked(r)
        THEN IF r[3] # 10 THEN Frames!UnsupportedVersion(r[3])
             ELSE IF body.ok THEN Frames!Deserialized(body.bytes) ELSE Frames!Error("Deserialize")
        ELSE IF ~whole.ok \/ whole.bytes = <<>> THEN Frames!Error("Deserialize")
             ELSE Frames!UnsupportedVersion(whole.bytes[1])
  BY Zenon DEF Frames!decode, Frames!PROTOCOL_VERSION
<1> HIDE DEF body, whole
<1>7. Frames!Marked(r) /\ r[3] = 10 /\ body.ok /\ Frames!Deserialized(body.bytes) = request
  BY <1>1, <1>3, <1>6, Zenon
<1>8. ASSUME NEW s, s # <<>>, s[1] # 0 PROVE Frames!Deserialized(s) # request
  BY <1>1, <1>8, Zenon DEF Frames!Deserialized
<1>9. body.bytes # <<>> => body.bytes[1] = 0
  BY <1>7, <1>8, Zenon
<1>10. Len(r) >= 2 /\ r[1] = 165 /\ r[2] = 90
  BY <1>5, <1>7, Marks
<1> QED BY <1>4, <1>5, <1>7, <1>9, <1>10 DEF body

\* The body of a frame: what the first two of its bytes give.
LEMMA FirstBytes ==
    ASSUME NEW b \in Seq(Nat), NEW End, End = Len(b), End >= 2, b[1] >= 1, b[1] < 255,
           NEW after, Decodes(b, End, after)
    PROVE  /\ after[0].left = 0 /\ after[1].left = b[1] - 1
           /\ b[1] > 1 => after[2].bytes # <<>> /\ after[2].bytes[1] = b[2]
           /\ b[1] = 1 /\ b[2] = 1 => after[2].left = 0
<1>1. /\ after \in [0..End -> States]
      /\ after[0] = [ok |-> TRUE, left |-> 0, zero |-> FALSE, bytes |-> <<>>]
      /\ \A k \in 1..End : after[k] = Frames!Takes(after[k - 1], b[k], End - k)
  BY Zenon DEF Decodes
<1>2. /\ End \in Nat /\ 1 \in 1..End /\ 2 \in 1..End /\ 0 \in 0..End /\ 1 \in 0..End /\ 2 \in 0..End
      /\ 1 - 1 = 0 /\ 2 - 1 = 1
  OBVIOUS
<1>3. b[1] \in Nat /\ b[2] \in Nat /\ b[1] # 0
  BY <1>2
<1> DEFINE a0 == after[0]
           a1 == after[1]
           a2 == after[2]
           x == b[1]
           y == b[2]
           n1 == End - 1
           n2 == End - 2
<1>4. a0 \in States /\ a1 \in States /\ a2 \in States
  BY <1>1, <1>2
<1>5. a0.left = 0 /\ ~a0.zero /\ a0.bytes = <<>>
  BY <1>1
<1>6. a1 = Frames!Takes(a0, x, n1)
  BY <1>1, <1>2
<1>7. a2 = Frames!Takes(a1, y, n2)
  BY <1>1, <1>2
<1>8. x \in Nat /\ y \in Nat /\ x # 0
  BY <1>3
<1> HIDE DEF a0, a1, a2, x, y, n1, n2
<1>9. /\ a1.left = (IF x = 0 THEN 0 ELSE x - 1)
      /\ a1.bytes = (IF a0.zero THEN Append(a0.bytes, 0) ELSE a0.bytes)
  <2>1. a0 \in States /\ a0.left = 0 /\ x \in Nat
    BY <1>4, <1>5, <1>8
  <2>2. a1.left = (IF x = 0 THEN 0 ELSE x - 1)
    BY <2>1, <1>6, TakesLength
  <2>3. a1.bytes = (IF a0.zero THEN Append(a0.bytes, 0) ELSE a0.bytes)
    BY <2>1, <1>6, TakesLength
  <2> QED BY <2>2, <2>3
<1>10. a1.left = x - 1 /\ a1.bytes = <<>>
  BY <1>5, <1>8, <1>9, Zenon
<1>11. ASSUME x > 1 PROVE a2.bytes # <<>> /\ a2.bytes[1] = y
  <2>1. a1.left > 0
    BY <1>8, <1>10, <1>11
  <2>2. a2.bytes = Append(a1.bytes, y)
    BY <1>4, <1>7, <1>8, <2>1, TakesByte
  <2>3. Append(<<>>, y) # <<>> /\ Append(<<>>, y)[1] = y
    BY <1>8
  <2> QED BY <1>10, <2>2, <2>3
<1>12. ASSUME x = 1, y = 1 PROVE a2.left = 0
  <2>1. a1.left = 0
    BY <1>10, <1>12
  <2>2. a2.left = (IF y = 0 THEN 0 ELSE y - 1)
    BY <1>4, <1>7, <1>8, <2>1, TakesLength
  <2> QED BY <1>12, <2>2
<1> QED BY <1>5, <1>10, <1>11, <1>12 DEF a0, a1, a2, x, y

\* The first bytes of a COBS body: of a request both are 1, of a Hello neither is 0 and
\* the first is larger.
LEMMA Bodies ==
    ASSUME Frames!CodecAssumption, NEW m \in Frames!Sendable,
           NEW e, e = Frames!CobsEncoded(Frames!Serialized(m)), NEW n, n = Len(Frames!Serialized(m))
    PROVE  /\ n \in Nat /\ n < 124
           /\ \/ n = 1 /\ e[1] = 1 /\ e[2] = 1
              \/ e[1] > 1 /\ e[1] < 255 /\ e[2] # 0 /\ e[1] \in Nat
<1> DEFINE p == Frames!Serialized(m)
           t == Append(p, 0)
           d == Frames!Distance(p, 1)
<1>1. m \in Frames!DeviceMessage /\ Len(Frames!encode(m)) < 128
  BY DEF Frames!Sendable, Frames!MAX_DEVICE_FRAME_LEN
<1>2. Len(Frames!encode(m)) = 4 + n /\ n \in Nat /\ n >= 1
  BY <1>1, Framed
<1>3. n < 124
  BY <1>1, <1>2
<1>4. p \in Seq(Nat) /\ n = Len(p)
  BY <1>1, SerializedType
<1>6. m.kind = "ShutdownRequested" \/ m.kind = "Hello"
  BY <1>1, Messages
<1>7. m.kind = "ShutdownRequested" => p[1] = 0 /\ n = 1
  <2>1. ASSUME m.kind = "ShutdownRequested" PROVE p = <<0>>
    BY <2>1, Zenon DEF Frames!Serialized
  <2>2. <<0>>[1] = 0 /\ Len(<<0>>) = 1
    OBVIOUS
  <2> HIDE DEF p
  <2> QED BY <1>4, <2>1, <2>2, Zenon
<1>8. m.kind = "Hello" => p[1] = 1
  BY <1>1, HelloBytes
<1> HIDE DEF p
<1>5. e[1] = d /\ \A i \in 2..(n + 1) : e[i] = IF p[i - 1] = 0 THEN Frames!Distance(p, i) ELSE p[i - 1]
  <2>1. e = Frames!CobsEncoded(p)
    BY DEF p
  <2>2. p \in Seq(Nat)
    BY <1>4
  <2>3. /\ e[1] = d
        /\ \A i \in 2..(Len(p) + 1) : e[i] = IF p[i - 1] = 0 THEN Frames!Distance(p, i) ELSE p[i - 1]
    BY <2>1, <2>2, Encoded, Zenon
  <2> QED BY <1>4, <2>3, Zenon
<1>9. e[2] = IF p[1] = 0 THEN Frames!Distance(p, 2) ELSE p[1]
  <2>1. 2 \in 2..(n + 1) /\ 2 - 1 = 1
    BY <1>2
  <2> QED BY <2>1, <1>5
<1>10. t[1] = p[1]
  <2>1. 1 \in 1..n
    BY <1>2
  <2> QED BY <2>1, <1>4, Delimited
<1>11. /\ d \in 1..(n + 1) /\ t[1 + d - 1] = 0 /\ \A j \in 1..(1 + d - 2) : t[j] # 0
  <2>1. 1 \in 1..(Len(p) + 1) /\ Len(p) + 2 - 1 = n + 1
    BY <1>2, <1>4
  <2>2. d \in 1..(Len(p) + 2 - 1) /\ t[1 + d - 1] = 0 /\ \A j \in 1..(1 + d - 2) : t[j] # 0
    BY <2>1, <1>4, Distances
  <2> QED BY <2>1, <2>2
<1>12. Frames!Distance(p, 2) \in 1..n
  <2>1. 2 \in 1..(Len(p) + 1) /\ Len(p) + 2 - 2 = n
    BY <1>2, <1>4
  <2>2. Frames!Distance(p, 2) \in 1..(Len(p) + 2 - 2)
    BY <2>1, <1>4, Distances
  <2> QED BY <2>1, <2>2
<1> HIDE DEF t, d
<1>13. CASE m.kind = "ShutdownRequested"
  <2>1. p[1] = 0 /\ n = 1
    BY <1>7, <1>13
  <2>2. e[2] = 1
    BY <2>1, <1>9, <1>12
  <2>3. d = 1
    <3>1. d = 2 => 1 \in 1..(1 + d - 2)
      OBVIOUS
    <3>2. d # 2
      BY <3>1, <2>1, <1>10, <1>11
    <3> QED BY <3>2, <2>1, <1>11
  <2> QED BY <2>1, <2>2, <2>3, <1>3, <1>5
<1>14. CASE m.kind = "Hello"
  <2>1. p[1] = 1
    BY <1>8, <1>14
  <2>2. e[2] = 1
    BY <2>1, <1>9
  <2>3. d # 1
    <3>1. d = 1 => 1 + d - 1 = 1
      OBVIOUS
    <3> QED BY <3>1, <2>1, <1>10, <1>11
  <2>4. d \in Nat /\ d > 1 /\ d < 255
    BY <2>3, <1>2, <1>3, <1>11
  <2> QED BY <2>2, <2>4, <1>2, <1>3, <1>5
<1> QED BY <1>6, <1>13, <1>14

\* Bytes that start like a frame, for n bytes, and go on with the mark of another.
GoesOn(w, m, n) ==
    /\ m \in Frames!Sendable /\ n \in 1..Len(Frames!encode(m)) /\ n <= Len(w)
    /\ \A i \in 1..n : w[i] = Frames!encode(m)[i]
    /\ n < Len(w) => w[n + 1] = 165

\* They are no request.
LEMMA NotRequest ==
    ASSUME Frames!CodecAssumption, NEW w \in Seq(Nat), NEW m, NEW n, GoesOn(w, m, n),
           NEW L, L = Len(w), n < L
    PROVE  Frames!Receives(w) # Frames!ShutdownRequested
<1> SUFFICES ASSUME Frames!Receives(w) = Frames!ShutdownRequested PROVE FALSE
  OBVIOUS
<1> DEFINE r == Append(w, 0)
           b == Frames!Drop(r, 3)
           f == Frames!encode(m)
           e == Frames!CobsEncoded(Frames!Serialized(m))
           l == Len(Frames!Serialized(m))
           End == L - 2
<1>0. r = Append(w, 0) /\ b = Frames!Drop(r, 3)
  OBVIOUS
<1>30. /\ (\A i \in 1..n : w[i] = f[i]) /\ w[n + 1] = 165
       /\ n \in 1..Len(f) /\ n < L /\ m \in Frames!Sendable
  BY DEF GoesOn
<1> HIDE DEF r, f, b
<1>1. /\ r \in Seq(Nat) /\ Len(r) = L + 1 /\ L < 128 /\ (\A i \in 1..L : r[i] = w[i])
      /\ r[2] = 90 /\ r[3] = 10
  <2>1. r \in Seq(Nat) /\ Len(r) = Len(w) + 1 /\ Len(w) < 128 /\ r[2] = 90 /\ r[3] = 10
    <3>1. r \in Seq(Nat) /\ Len(r) = Len(w) + 1
      BY <1>0, RequestDecoded
    <3>2. Len(w) < 128
      BY <1>0, RequestDecoded
    <3>3. r[2] = 90
      BY <1>0, RequestDecoded, SMTT(30)
    <3>4. r[3] = 10
      BY <1>0, RequestDecoded, SMTT(30)
    <3> QED BY <3>1, <3>2, <3>3, <3>4
  <2>2. \A i \in 1..Len(w) : r[i] = w[i]
    BY <1>0, RequestDecoded
  <2> QED BY <2>1, <2>2
<1>2. /\ Frames!CobsDecoded(b).ok
      /\ Frames!CobsDecoded(b).bytes # <<>> => Frames!CobsDecoded(b).bytes[1] = 0
  BY <1>0, RequestDecoded
<1>3. m \in Frames!DeviceMessage
  BY <1>30 DEF Frames!Sendable
<1>4. l = Len(Frames!Serialized(m))
  OBVIOUS
<1>5. e = Frames!CobsEncoded(Frames!Serialized(m))
  OBVIOUS
<1> HIDE DEF l, e
<1>6. /\ Len(f) = 4 + l /\ l \in Nat /\ l >= 1
      /\ \A i \in 1..(l + 1) : f[3 + i] = e[i]
  <2>1. Len(f) = 4 + l /\ l \in Nat /\ l >= 1 /\ \A i \in 1..(l + 1) : f[3 + i] = e[i]
    <3>1. Len(f) = 4 + l /\ l \in Nat /\ l >= 1
      BY <1>3, <1>4, Framed DEF f
    <3>2. \A i \in 1..(l + 1) : f[3 + i] = Frames!CobsEncoded(Frames!Serialized(m))[i]
      BY <1>3, <1>4, Framed DEF f
    <3> QED BY <3>1, <3>2, <1>5
  <2> QED BY <2>1
<1>7. \/ l = 1 /\ e[1] = 1 /\ e[2] = 1
      \/ e[1] > 1 /\ e[1] < 255 /\ e[2] # 0 /\ e[1] \in Nat
  BY <1>4, <1>5, <1>30, Bodies
<1>8. /\ (\A i \in 1..n : w[i] = f[i]) /\ w[n + 1] = 165 /\ n \in 1..(4 + l) /\ n < L /\ L \in Nat
  <2>1. L \in Nat
    OBVIOUS
  <2> QED BY <1>30, <1>6, <2>1
<1>9. n # 1
  <2>1. n = 1 => n + 1 = 2 /\ 2 \in 1..L
    BY <1>8
  <2> QED BY <2>1, <1>1, <1>8
<1>10. n # 2
  <2>1. n = 2 => n + 1 = 3 /\ 3 \in 1..L
    BY <1>8
  <2> QED BY <2>1, <1>1, <1>8
<1>20. n \in Nat /\ n >= 1
  BY <1>6, <1>8
<1>11. n >= 3 /\ n \in Nat /\ End \in Nat /\ End >= n - 1 /\ End < 165 /\ End >= 2
  <2>1. L < 128 /\ n < L /\ L \in Nat
    BY <1>1, <1>8
  <2> QED BY <1>20, <1>9, <1>10, <2>1
<1>12. b \in Seq(Nat) /\ End = Len(b) /\ \A i \in 1..End : b[i] = r[3 + i]
  <2> DEFINE k == 3
  <2>1. k \in Nat /\ k <= Len(r) /\ Len(r) - k = End
    BY <1>1, <1>8, <1>11
  <2> HIDE DEF k, End
  <2>2. r \in Seq(Nat)
    BY <1>1
  <2>3. b \in Seq(Nat) /\ End = Len(b) /\ \A i \in 1..End : b[i] = r[k + i]
    <3>1. b = Frames!Drop(r, k)
      BY DEF b, k
    <3> QED BY <2>1, <2>2, <3>1, Dropped, Zenon
  <2> QED BY <2>3 DEF k
<1>13. b[End] = 0 /\ \A i \in 1..(End - 1) : b[i] = w[3 + i]
  <2>1. End \in 1..End /\ 3 + End = L + 1
    BY <1>8, <1>11
  <2>2. r[L + 1] = 0
    BY <1>0, Delimited
  <2>3. ASSUME NEW i \in 1..(End - 1) PROVE b[i] = w[3 + i]
    <3>1. i \in 1..End /\ 3 + i \in 1..L
      BY <1>8, <1>11
    <3> QED BY <3>1, <1>1, <1>12
  <2> HIDE DEF End
  <2> QED BY <2>1, <2>2, <2>3, <1>12
<1>14. PICK after : Decodes(b, End, after)
  <2> HIDE DEF End
  <2> QED BY <1>12, Decoding
<1> HIDE DEF End
<1>15. ASSUME NEW k \in 1..End, after[k - 1].left = 0, b[k] = 165 PROVE FALSE
  <2>1. b \in Seq(Nat) /\ End = Len(b) /\ End < 165
    BY <1>11, <1>12
  <2>2. ~Frames!CobsDecoded(b).ok
    BY <1>14, <1>15, <2>1, Exceeds
  <2> QED BY <1>2, <2>2, Zenon
<1>16. /\ 1 \in 1..End /\ 2 \in 1..End
       /\ 1 - 1 = 0 /\ 2 - 1 = 1 /\ 3 - 1 = 2 /\ 3 + 1 = 4 /\ 3 + 2 = 5 /\ 3 + 3 = 6
  BY <1>11
<1>17. CASE n = 3
  <2>1. b[1] = 165
    <3>1. 1 \in 1..(End - 1) /\ n + 1 = 3 + 1
      BY <1>8, <1>17 DEF End
    <3> QED BY <3>1, <1>8, <1>13
  <2>2. after[0].left = 0
    <3>1. b \in Seq(Nat) /\ End = Len(b) /\ End >= 2 /\ b[1] >= 1 /\ b[1] < 255
      BY <1>11, <1>12, <2>1
    <3> QED BY <1>14, <3>1, FirstBytes, Zenon
  <2> QED BY <1>15, <1>16, <2>1, <2>2
<1>18. CASE n >= 4
  <2>1. b[1] = e[1]
    <3>1. 1 \in 1..(End - 1) /\ 3 + 1 \in 1..n /\ 1 \in 1..(l + 1)
      BY <1>6, <1>8, <1>18 DEF End
    <3> QED BY <3>1, <1>6, <1>8, <1>13
  <2>2. n = 4 => b[2] = 165
    <3>1. n = 4 => 2 \in 1..(End - 1) /\ n + 1 = 3 + 2
      BY <1>8, <1>18 DEF End
    <3> QED BY <3>1, <1>8, <1>13
  <2>3. n > 4 => b[2] = e[2]
    <3>1. n > 4 => 2 \in 1..(End - 1) /\ 3 + 2 \in 1..n /\ 2 \in 1..(l + 1)
      BY <1>6, <1>8, <1>18 DEF End
    <3> QED BY <3>1, <1>6, <1>8, <1>13
  <2>4. n = 5 => b[3] = 165 /\ 3 \in 1..End
    <3>1. n = 5 => 3 \in 1..(End - 1) /\ n + 1 = 3 + 3 /\ 3 \in 1..End
      BY <1>8, <1>18 DEF End
    <3> QED BY <3>1, <1>8, <1>13
  <2>5. /\ after[1].left = b[1] - 1
        /\ b[1] > 1 => after[2].bytes # <<>> /\ after[2].bytes[1] = b[2]
        /\ b[1] = 1 /\ b[2] = 1 => after[2].left = 0
    <3>1. b[1] >= 1 /\ b[1] < 255
      BY <1>7, <2>1
    <3>2. b \in Seq(Nat) /\ End = Len(b) /\ End >= 2
      BY <1>11, <1>12
    <3> QED BY <1>14, <3>1, <3>2, FirstBytes, Zenon
  <2>6. CASE l = 1 /\ e[1] = 1 /\ e[2] = 1
    <3>1. n = 4 \/ n = 5
      BY <1>8, <1>18, <2>6
    <3>2. CASE n = 4
      <4>1. after[2 - 1].left = 0 /\ b[2] = 165
        BY <1>16, <2>1, <2>2, <2>5, <2>6, <3>2
      <4> QED BY <4>1, <1>15, <1>16
    <3>3. CASE n = 5
      <4>1. after[3 - 1].left = 0 /\ b[3] = 165 /\ 3 \in 1..End
        BY <1>16, <2>1, <2>3, <2>4, <2>5, <2>6, <3>3
      <4> QED BY <4>1, <1>15
    <3> QED BY <3>1, <3>2, <3>3
  <2>7. CASE e[1] > 1 /\ e[2] # 0
    <3>1. b[2] # 0
      BY <1>18, <2>2, <2>3, <2>7, <1>11
    <3>2. after[2].bytes # <<>> /\ after[2].bytes[1] = b[2]
      BY <2>1, <2>5, <2>7
    <3>3. 2 \in 0..End
      BY <1>11
    <3>5. b \in Seq(Nat) /\ End = Len(b)
      BY <1>12
    <3>4. Frames!CobsDecoded(b).bytes # <<>> /\ Frames!CobsDecoded(b).bytes[1] = b[2]
      BY <3>2, <3>3, <3>5, <1>14, Remains
    <3> QED BY <3>1, <3>4, <1>2
  <2> QED BY <1>7, <2>6, <2>7
<1> QED BY <1>11, <1>17, <1>18

\* The start of a frame, and what is written after it.
LEMMA Starts ==
    ASSUME Frames!CodecAssumption, NEW m \in Frames!Sendable, NEW k \in 0..Len(Frames!encode(m)),
           NEW x, x = SubSeq(Frames!encode(m), 1, k)
    PROVE  /\ x \in Seq(Nat) /\ Len(x) = k /\ k \in Nat
           /\ k > 0 => x[1] = 165 /\ GoesOn(x, m, k)
<1> DEFINE f == Frames!encode(m)
           n == Len(Frames!Serialized(m))
<1>1. m \in Frames!DeviceMessage /\ n = Len(Frames!Serialized(m))
  BY DEF Frames!Sendable
<1> HIDE DEF n
<1>2. f \in Seq(Nat) /\ Len(f) = 4 + n /\ n \in Nat /\ f[1] = 165
  BY <1>1, Framed
<1>3. k \in 0..Len(f) /\ x = SubSeq(f, 1, k)
  OBVIOUS
<1> HIDE DEF f
<1>4. k \in Nat /\ 0 \in Nat /\ 0 + k <= Len(f) /\ 0 + 1 = 1 /\ 0 + k = k
  BY <1>2, <1>3
<1>5. /\ SubSeq(f, 0 + 1, 0 + k) \in Seq(Nat) /\ Len(SubSeq(f, 0 + 1, 0 + k)) = k
      /\ \A i \in 1..k : SubSeq(f, 0 + 1, 0 + k)[i] = f[0 + i]
  BY <1>2, <1>4, Parts
<1>6. x \in Seq(Nat) /\ Len(x) = k /\ \A i \in 1..k : x[i] = f[i]
  <2>1. \A i \in 1..k : 0 + i = i
    BY <1>4
  <2> QED BY <1>3, <1>4, <1>5, <2>1
<1>7. ASSUME k > 0 PROVE x[1] = 165 /\ GoesOn(x, m, k)
  <2>1. 1 \in 1..k /\ k \in 1..Len(f) /\ k <= Len(x) /\ ~(k < Len(x))
    BY <1>2, <1>3, <1>4, <1>6, <1>7
  <2>2. x[1] = 165
    BY <1>2, <1>6, <2>1
  <2>3. GoesOn(x, m, k)
    BY <1>6, <2>1, Zenon DEF GoesOn, f
  <2> QED BY <2>2, <2>3
<1> QED BY <1>4, <1>6, <1>7

\* What is written behind a start of a frame is a mark again.
LEMMA GoesOnLonger ==
    ASSUME NEW w \in Seq(Nat), NEW m, NEW n, GoesOn(w, m, n), NEW x \in Seq(Nat),
           x # <<>> => x[1] = 165
    PROVE  GoesOn(w \o x, m, n) /\ (x # <<>> => n < Len(w \o x)) /\ w \o x \in Seq(Nat)
<1> DEFINE y == w \o x
           L == Len(w)
           X == Len(x)
           M == Len(Frames!encode(m))
<1>1. L = Len(w) /\ X = Len(x)
  OBVIOUS
<1>2. n \in 1..M /\ n <= L /\ m \in Frames!Sendable /\ (n < L => w[n + 1] = 165)
      /\ \A i \in 1..n : w[i] = Frames!encode(m)[i]
  BY DEF GoesOn
<1> HIDE DEF L, X, M
<1>3. /\ y \in Seq(Nat) /\ Len(y) = L + X /\ L \in Nat /\ X \in Nat
      /\ (\A i \in 1..L : y[i] = w[i])
      /\ (\A i \in 1..X : y[L + i] = x[i])
  BY <1>1, Concatenated
<1> HIDE DEF y
<1>0. n \in Nat /\ n >= 1
  BY <1>2
<1>4. x # <<>> => X >= 1
  BY <1>1, <1>3
<1>5. n <= Len(y) /\ (x # <<>> => n < Len(y))
  BY <1>0, <1>2, <1>3, <1>4
<1>6. ASSUME NEW i \in 1..n PROVE y[i] = Frames!encode(m)[i]
  <2>1. i \in 1..L
    BY <1>0, <1>2, <1>3
  <2> QED BY <2>1, <1>2, <1>3
<1>7. ASSUME n < Len(y) PROVE y[n + 1] = 165
  <2>1. CASE n < L
    <3>1. n + 1 \in 1..L
      BY <1>0, <1>3, <2>1
    <3> QED BY <3>1, <2>1, <1>2, <1>3
  <2>2. CASE n = L
    <3>1. X >= 1 /\ 1 \in 1..X
      BY <1>3, <1>7, <2>2
    <3>2. x # <<>>
      BY <3>1, <1>1
    <3> QED BY <3>1, <3>2, <2>2, <1>3
  <2> QED BY <2>1, <2>2, <1>0, <1>2, <1>3
<1>8. GoesOn(y, m, n)
  BY <1>2, <1>5, <1>6, <1>7, Zenon DEF GoesOn, M
<1> QED BY <1>3, <1>5, <1>8 DEF y

\* What is on the wire, and what the daemon has made of the last frame.
Decoded == Frames!RoundTrip /\ Frames!VersionsTold /\ Frames!NoPhantomShutdown

OnWire(w) == w \in Seq(Nat) /\ (w = <<>> \/ \E m, n : GoesOn(w, m, n))

\* Another start of a frame on the wire.
LEMMA OnWireLonger ==
    ASSUME NEW w, OnWire(w), NEW x \in Seq(Nat), NEW m, NEW k,
           x # <<>> => x[1] = 165 /\ GoesOn(x, m, k)
    PROVE  OnWire(w \o x)
<1>1. w \in Seq(Nat)
  BY DEF OnWire
<1>2. CASE w = <<>>
  <2>1. w \o x = x
    BY <1>2, ConcatEmptySeq
  <2> QED BY <2>1 DEF OnWire
<1>3. CASE w # <<>>
  <2>1. PICK n, l : GoesOn(w, n, l)
    BY <1>3 DEF OnWire
  <2>2. GoesOn(w \o x, n, l) /\ w \o x \in Seq(Nat)
    BY <1>1, <2>1, GoesOnLonger
  <2> QED BY <2>2, Zenon DEF OnWire
<1> QED BY <1>2, <1>3

\* A frame that completes what is on the wire.
LEMMA Completed ==
    ASSUME Frames!CodecAssumption, NEW w, OnWire(w), NEW m \in Frames!Sendable
    PROVE  /\ w = <<>> => Frames!Receives(w \o Frames!encode(m)) = m
           /\ w # <<>> => Frames!Receives(w \o Frames!encode(m)) # Frames!ShutdownRequested
<1> DEFINE f == Frames!encode(m)
           n == Len(Frames!Serialized(m))
<1>1. w \in Seq(Nat) /\ m \in Frames!DeviceMessage /\ n = Len(Frames!Serialized(m))
  BY DEF OnWire, Frames!Sendable
<1>2. Frames!Receives(f) = m
  BY Returned
<1> HIDE DEF n
<1>3. f \in Seq(Nat) /\ Len(f) = 4 + n /\ n \in Nat /\ f[1] = 165
  <2>1. m \in Frames!DeviceMessage /\ n = Len(Frames!Serialized(m))
    BY <1>1
  <2>2. f \in Seq(Nat)
    BY <2>1, Framed
  <2>3. Len(f) = 4 + n /\ n \in Nat /\ f[1] = 165
    BY <2>1, Framed
  <2> QED BY <2>2, <2>3
<1> HIDE DEF f
<1>4. f # <<>>
  BY <1>3
<1>5. CASE w = <<>>
  <2>1. w \o f = f
    BY <1>3, <1>5, ConcatEmptySeq
  <2> QED BY <1>2, <1>5, <2>1 DEF f
<1>6. CASE w # <<>>
  <2>1. PICK k, l : GoesOn(w, k, l)
    BY <1>6 DEF OnWire
  <2> DEFINE y == w \o f
             L == Len(y)
  <2>2. GoesOn(y, k, l) /\ l < L /\ y \in Seq(Nat) /\ L = Len(y)
    BY <1>1, <1>3, <1>4, <2>1, GoesOnLonger
  <2> HIDE DEF y, L
  <2>3. Frames!Receives(y) # Frames!ShutdownRequested
    BY <2>2, NotRequest
  <2> QED BY <1>6, <2>3 DEF y, f
<1> QED BY <1>5, <1>6

\* A step of the display keeps both.
LEMMA FramesStep ==
    ASSUME Frames!CodecAssumption, OnWire(stream), Decoded, Frames!Next
    PROVE  OnWire(stream') /\ Decoded'
<1> USE DEF Decoded
<1>1. ASSUME NEW m \in Frames!Sendable, Frames!Cut(m) PROVE OnWire(stream') /\ Decoded'
  <2>1. PICK k \in 0..Len(Frames!encode(m)) : stream' = stream \o SubSeq(Frames!encode(m), 1, k)
    BY <1>1 DEF Frames!Cut
  <2> DEFINE x == SubSeq(Frames!encode(m), 1, k)
  <2>2. x \in Seq(Nat) /\ Len(x) = k /\ k \in Nat /\ (k > 0 => x[1] = 165 /\ GoesOn(x, m, k))
    BY Starts
  <2>3. stream' = stream \o x
    BY <2>1
  <2> HIDE DEF x
  <2>4. x # <<>> => k > 0
    BY <2>2
  <2>5. OnWire(stream')
    BY <2>2, <2>3, <2>4, OnWireLonger
  <2>6. Decoded'
    <3>1. received' = Frames!Nothing
      BY <1>1 DEF Frames!Cut
    <3> QED BY <3>1 DEF Frames!Nothing, Frames!Error, Frames!RoundTrip, Frames!VersionsTold,
                        Frames!NoPhantomShutdown
  <2> QED BY <2>5, <2>6
<1>2. ASSUME NEW m \in Frames!Sendable, Frames!Sends(m) PROVE OnWire(stream') /\ Decoded'
  <2> DEFINE result == Frames!Receives(stream \o Frames!encode(m))
  <2>1. /\ stream = <<>> => result = m
        /\ stream # <<>> => result # Frames!ShutdownRequested
    BY Completed
  <2>2. /\ received' = [result |-> result, of |-> m, glued |-> stream # <<>>, legacy |-> FALSE]
        /\ stream' = <<>>
    BY <1>2 DEF Frames!Sends
  <2> HIDE DEF result
  <2>3. OnWire(stream')
    BY <2>2 DEF OnWire
  <2>4. Decoded'
    BY <2>1, <2>2 DEF Frames!RoundTrip, Frames!VersionsTold, Frames!NoPhantomShutdown
  <2> QED BY <2>3, <2>4
<1>3. ASSUME Frames!SendsOther PROVE OnWire(stream') /\ Decoded'
  <2>1. stream' = stream
    BY <1>3 DEF Frames!SendsOther
  <2>2. CASE \E v \in OldVersions :
               received' = [result |-> Frames!Receives(Frames!legacy(v)),
                            of |-> Frames!UnsupportedVersion(v), glued |-> FALSE, legacy |-> TRUE]
    <3>1. PICK v \in OldVersions :
             received' = [result |-> Frames!Receives(Frames!legacy(v)),
                          of |-> Frames!UnsupportedVersion(v), glued |-> FALSE, legacy |-> TRUE]
      BY <2>2
    <3>2. Frames!Receives(Frames!legacy(v)) = Frames!UnsupportedVersion(v)
      BY LegacyTold
    <3> QED BY <2>1, <3>1, <3>2
            DEF Frames!RoundTrip, Frames!VersionsTold, Frames!NoPhantomShutdown
  <2>3. CASE \E m \in Frames!Sendable :
               LET next == [Frames!encode(m) EXCEPT ![3] = Frames!PROTOCOL_VERSION + 1]
               IN  received' = [result |-> Frames!Receives(next),
                                of |-> Frames!UnsupportedVersion(Frames!PROTOCOL_VERSION + 1),
                                glued |-> FALSE, legacy |-> TRUE]
    <3>1. PICK m \in Frames!Sendable :
             received' = [result |-> Frames!Receives([Frames!encode(m) EXCEPT
                                                        ![3] = Frames!PROTOCOL_VERSION + 1]),
                          of |-> Frames!UnsupportedVersion(Frames!PROTOCOL_VERSION + 1),
                          glued |-> FALSE, legacy |-> TRUE]
      BY <2>3
    <3> DEFINE result == Frames!Receives([Frames!encode(m) EXCEPT ![3] = Frames!PROTOCOL_VERSION + 1])
               told == Frames!UnsupportedVersion(Frames!PROTOCOL_VERSION + 1)
    <3>2. result = told
      BY NextTold
    <3>3. received' = [result |-> result, of |-> told, glued |-> FALSE, legacy |-> TRUE]
      BY <3>1
    <3> HIDE DEF result, told
    <3> QED BY <2>1, <3>2, <3>3
            DEF Frames!RoundTrip, Frames!VersionsTold, Frames!NoPhantomShutdown
  <2> QED BY <1>3, <2>2, <2>3 DEF Frames!SendsOther
<1> QED BY <1>1, <1>2, <1>3 DEF Frames!Next

\* It starts with nothing on the wire, and nothing decoded.
LEMMA FramesInit == Frames!Init => OnWire(stream) /\ Decoded
<1> SUFFICES ASSUME Frames!Init PROVE OnWire(stream) /\ Decoded
  OBVIOUS
<1>1. stream = <<>> /\ received = Frames!Nothing
  BY DEF Frames!Init
<1>2. OnWire(stream)
  BY <1>1 DEF OnWire
<1>3. Decoded
  BY <1>1 DEF Decoded, Frames!Nothing, Frames!Error, Frames!RoundTrip, Frames!VersionsTold,
              Frames!NoPhantomShutdown
<1> QED BY <1>2, <1>3

\* A frame that arrives whole is decoded as the message it was encoded from, a display of
\* another protocol is told by its version, and nothing that unfinished frames leave on
\* the wire becomes a request to shut the host down.
THEOREM DecodesAsWritten == HostSpec => []DecodedAsWritten
<1> DEFINE Inv == OnWire(stream) /\ Decoded
<1>1. HostInit => Inv
  BY FramesInit DEF HostInit
<1>2. Inv /\ [HostNext]_<<readerVars, framesVars, programVars, linkVars, mockVars, part>> => Inv'
  <2> SUFFICES ASSUME Inv, [HostNext]_<<readerVars, framesVars, programVars, linkVars, mockVars, part>>
               PROVE  Inv'
    OBVIOUS
  <2>1. CASE Frames!Next
    BY <2>1, CodecAssumed, FramesStep
  <2>2. CASE UNCHANGED framesVars
    <3>1. stream' = stream /\ received' = received
      BY <2>2 DEF framesVars
    <3> QED BY <3>1 DEF Decoded, OnWire, GoesOn, Frames!RoundTrip, Frames!VersionsTold,
                        Frames!NoPhantomShutdown
  <2>3. Frames!Next \/ UNCHANGED framesVars
    BY DEF HostNext
  <2> QED BY <2>1, <2>2, <2>3
<1>3. Inv => DecodedAsWritten
  BY DEF Decoded, DecodedAsWritten
<1> QED BY <1>1, <1>2, <1>3, PTL DEF HostSpec

-----------------------------------------------------------------------------
(* The uplink.                                                             *)

\* The greatest of a finite set of numbers.
LEMMA Greatest ==
    ASSUME NEW S, S \subseteq Nat, IsFiniteSet(S), S # {}
    PROVE  \E x \in S : \A y \in S : y <= x
<1>0. PICK n \in Nat : ExistsSurjection(1..n, S)
  BY FS_NatSurjection
<1>1. PICK f \in [1..n -> S] : \A x \in S : \E k \in 1..n : f[k] = x
  BY <1>0 DEF ExistsSurjection, Surjection, Range
<1> DEFINE T == {m \in 0..n : \E b \in Nat : \A k \in 1..m : f[k] <= b}
<1>2. 0 \in T
  OBVIOUS
<1>3. ASSUME NEW m \in 0..n, m > 0, m - 1 \in T PROVE m \in T
  <2>1. PICK b \in Nat : \A k \in 1..(m - 1) : f[k] <= b
    BY <1>3
  <2>0. m \in 1..n /\ m \in Nat
    BY <1>3
  <2>2. f[m] \in Nat
    BY <2>0, <1>1
  <2>3. PICK c \in Nat : b <= c /\ f[m] <= c
    <3>1. CASE b <= f[m]
      BY <2>2, <3>1
    <3>2. CASE f[m] <= b
      BY <2>2, <3>2
    <3> QED BY <2>2, <3>1, <3>2
  <2>4. \A k \in 1..m : f[k] <= c
    <3> SUFFICES ASSUME NEW k \in 1..m PROVE f[k] <= c
      OBVIOUS
    <3>1. CASE k = m
      BY <3>1, <2>3
    <3>2. CASE k # m
      <4>1. k \in 1..(m - 1) /\ k \in 1..n
        BY <3>2, <2>0
      <4>2. f[k] \in Nat /\ f[k] <= b
        BY <4>1, <2>1, <1>1
      <4> QED BY <4>2, <2>3
    <3> QED BY <3>1, <3>2
  <2> QED BY <2>4
<1> HIDE DEF T
<1>4. 0..n \subseteq T
  BY <1>2, <1>3, Induction
<1>9. n \in T
  BY <1>4
<1>5. PICK b \in Nat : \A k \in 1..n : f[k] <= b
  BY <1>9 DEF T
<1> DEFINE B == {c \in Nat : \A y \in S : y <= c}
<1>6. b \in B
  BY <1>1, <1>5
<1>7. PICK c \in B : \A d \in B : c <= d
  <2>1. B \subseteq Nat /\ B # {}
    BY <1>6
  <2> HIDE DEF B
  <2> QED BY <2>1, Least
<1>8. c \in S
  <2> SUFFICES ASSUME c \notin S PROVE FALSE
    OBVIOUS
  <2>1. \A y \in S : y \in Nat /\ y <= c /\ y # c
    BY <1>7
  <2>4. PICK y \in S : TRUE
    OBVIOUS
  <2>2. c # 0
    BY <2>1, <2>4
  <2>3. c - 1 \in B
    BY <2>1, <2>2
  <2> QED BY <1>7, <2>3
<1> QED BY <1>7, <1>8

\* FiniteSets is the same in Uplink.
LEMMA LinkFinite == Link!UplinkAssumption => IsFiniteSet(Interfaces)
BY DEF Link!UplinkAssumption, Link!IsFiniteSet, IsFiniteSet

\* sysfs as it may be at any time.
LinkInv == sysfs \in [Interfaces -> Link!Devices] /\ ip \in IpAnswers /\ routes \in Tables

\* sort and max_by_key return one of the candidates.
LEMMA PreferredIsOne ==
    ASSUME Link!UplinkAssumption, sysfs \in [Interfaces -> Link!Devices],
           NEW C \in SUBSET Interfaces, C # {}
    PROVE  Link!Preferred(C) \in C
<1>1. IsFiniteSet(C) /\ C \subseteq Nat
  BY LinkFinite, FS_Subset DEF Link!UplinkAssumption
<1>2. \A i \in Interfaces : Link!Preference(i) \in Nat
  BY DEF Link!Preference, Link!Devices
<1> DEFINE best == {i \in C : \A j \in C : Link!Preference(j) <= Link!Preference(i)}
           P == {Link!Preference(i) : i \in C}
<1>3. P \subseteq Nat /\ P # {}
  BY <1>2
<1>4. IsFiniteSet(P)
  <2> DEFINE f == [i \in C |-> Link!Preference(i)]
  <2>1. f \in Surjection(C, P)
    BY DEF Surjection
  <2> QED BY <1>1, <2>1, FS_Surjection
<1>5. PICK x \in P : \A y \in P : y <= x
  <2> HIDE DEF P
  <2> QED BY <1>3, <1>4, Greatest
<1>6. best # {}
  <2>1. PICK i \in C : x = Link!Preference(i)
    OBVIOUS
  <2>2. \A j \in C : Link!Preference(j) \in P
    OBVIOUS
  <2>3. i \in best
    BY <1>5, <2>1, <2>2
  <2> QED BY <2>3
<1>7. best \subseteq C /\ best \subseteq Nat /\ IsFiniteSet(best)
  BY <1>1, FS_Subset
<1>8. Link!Preferred(C) = Link!Max(best)
  BY DEF Link!Preferred
<1> HIDE DEF best
<1>9. PICK m \in best : \A y \in best : y <= m
  BY <1>6, <1>7, Greatest
<1>10. \A y \in best : m >= y
  BY <1>7, <1>9
<1>11. Link!Max(best) \in best
  BY <1>10 DEF Link!Max
<1> QED BY <1>7, <1>8, <1>11

\* What may be found from each interface.
Found == [Interfaces -> SUBSET (Interfaces \cup {Link!NoInterface})]

\* resolve_interface finds nothing, the interface itself, or what it finds from one of
\* those right below it.
LEMMA ResolvedByBelow ==
    ASSUME Link!UplinkAssumption, sysfs \in [Interfaces -> Link!Devices],
           NEW j \in Interfaces, NEW below \in Found, NEW r \in Link!ResolvedBy(j, below)
    PROVE  \/ r = Link!NoInterface \/ r = j
           \/ r \in Interfaces /\ \E l \in Interfaces \cap Link!Below(j) : r \in below[l]
<1> SUFFICES ASSUME r # Link!NoInterface, r # j
             PROVE  r \in Interfaces /\ \E l \in Interfaces \cap Link!Below(j) : r \in below[l]
  OBVIOUS
<1> DEFINE Zero == {Link!NoInterface}
           bySlave == IF sysfs[j].active_slave = Link!NoInterface THEN Zero
                      ELSE below[sysfs[j].active_slave]
           ports == {p \in sysfs[j].ports[1] : below[p] # Zero}
           choices == {g \in [ports -> UNION {below[p] : p \in ports}] : \A p \in ports : g[p] \in below[p]}
           byPort == {Link!Preferred(Link!Range(g) \ Zero) :
                        g \in {h \in choices : Link!Range(h) \ Zero # {}}}
           byLower == IF sysfs[j].lower = {} THEN Zero ELSE UNION {below[l] : l \in sysfs[j].lower}
           others == IF sysfs[j].ports # <<>> THEN IF byPort = {} THEN Zero ELSE byPort
                     ELSE {IF s = Link!NoInterface THEN j ELSE s : s \in byLower}
<1>1. Link!ResolvedBy(j, below) =
        (bySlave \ Zero) \cup (IF Link!NoInterface \in bySlave THEN others ELSE {})
  BY Zenon DEF Link!ResolvedBy
<1>2. /\ sysfs[j].active_slave \in Interfaces \cup Zero
      /\ sysfs[j].lower \subseteq Interfaces
      /\ sysfs[j].ports # <<>> => sysfs[j].ports[1] \subseteq Interfaces
  BY DEF Link!Devices
<1>3. Link!NoInterface \notin Interfaces
  BY DEF Link!UplinkAssumption, Link!NoInterface
<1>4. \A l \in Interfaces : below[l] \subseteq Interfaces \cup Zero
  BY DEF Found
<1>5. CASE r \in bySlave
  <2>1. sysfs[j].active_slave \in Interfaces /\ r \in below[sysfs[j].active_slave]
    BY <1>2, <1>5
  <2>2. sysfs[j].active_slave \in Link!Below(j)
    BY <2>1, <1>3 DEF Link!Below
  <2> QED BY <2>1, <2>2, <1>4
<1>6. CASE r \in others /\ sysfs[j].ports = <<>>
  <2>1. r \in byLower
    BY <1>6
  <2>2. PICK l \in sysfs[j].lower : r \in below[l]
    BY <2>1
  <2>3. l \in Interfaces /\ l \in Link!Below(j)
    BY <1>2, <1>3, <2>2 DEF Link!Below
  <2> QED BY <2>2, <2>3, <1>4
<1>7. CASE r \in others /\ sysfs[j].ports # <<>>
  <2>1. r \in byPort
    <3> HIDE DEF byPort
    <3> QED BY <1>7
  <2>2. PICK g \in choices : Link!Range(g) \ Zero # {} /\ r = Link!Preferred(Link!Range(g) \ Zero)
    <3> HIDE DEF choices
    <3> QED BY <2>1
  <2>3. \A x \in Link!Range(g) : \E p \in ports : x \in below[p]
    BY <2>2 DEF Link!Range
  <2>4. ports \subseteq Interfaces /\ ports \subseteq Link!Below(j)
    BY <1>2, <1>3, <1>7 DEF Link!Below
  <2>5. Link!Range(g) \ Zero \subseteq Interfaces
    <3> HIDE DEF ports
    <3> QED BY <2>3, <2>4, <1>4
  <2>6. r \in Link!Range(g) \ Zero
    BY <2>2, <2>5, PreferredIsOne
  <2> HIDE DEF ports
  <2> QED BY <2>3, <2>4, <2>5, <2>6
<1> HIDE DEF bySlave, others
<1> QED BY <1>1, <1>5, <1>6, <1>7

\* How many interfaces are not visited.
Unvisited(seen) == Cardinality(Interfaces \ seen)

\* Visiting one more leaves one fewer.
LEMMA UnvisitedFalls ==
    ASSUME Link!UplinkAssumption, NEW seen \in SUBSET Interfaces
    PROVE  /\ Unvisited(seen) \in Nat /\ Unvisited(seen) <= Cardinality(Interfaces)
           /\ \A j \in Interfaces \ seen : Unvisited(seen \cup {j}) = Unvisited(seen) - 1
           /\ Unvisited(seen) = 0 => seen = Interfaces
<1>1. IsFiniteSet(Interfaces) /\ IsFiniteSet(Interfaces \ seen)
  BY LinkFinite, FS_Subset
<1>2. Unvisited(seen) \in Nat
  BY <1>1, FS_CardinalityType DEF Unvisited
<1>3. Unvisited(seen) <= Cardinality(Interfaces)
  BY <1>1, FS_Subset DEF Unvisited
<1>4. ASSUME NEW j \in Interfaces \ seen
      PROVE  Unvisited(seen \cup {j}) = Unvisited(seen) - 1
  <2>1. Interfaces \ (seen \cup {j}) = (Interfaces \ seen) \ {j}
    OBVIOUS
  <2>2. Cardinality((Interfaces \ seen) \ {j}) = Cardinality(Interfaces \ seen) - 1
    BY <1>1, FS_RemoveElement
  <2> QED BY <2>1, <2>2 DEF Unvisited
<1>5. ASSUME Unvisited(seen) = 0 PROVE seen = Interfaces
  <2>1. Interfaces \ seen = {}
    BY <1>1, <1>5, FS_EmptySet DEF Unvisited
  <2> QED BY <2>1
<1> QED BY <1>2, <1>3, <1>4, <1>5

\* What is found, having visited seen, when f says what is found having visited more.
Step(f, seen) ==
    [j \in Interfaces |-> IF j \in seen \/ ~Link!Exists(j) THEN {Link!NoInterface}
                          ELSE Link!ResolvedBy(j, f[seen \cup {j}])]

\* A step finds what can be found, and looks only at what is found having visited more.
LEMMA StepFound ==
    ASSUME Link!UplinkAssumption, sysfs \in [Interfaces -> Link!Devices],
           NEW f \in [SUBSET Interfaces -> Found], NEW seen \in SUBSET Interfaces
    PROVE  /\ Step(f, seen) \in Found
           /\ \A g : (\A j \in Interfaces \ seen : g[seen \cup {j}] = f[seen \cup {j}])
                        => Step(g, seen) = Step(f, seen)
<1>1. ASSUME NEW j \in Interfaces, j \notin seen
      PROVE  Link!ResolvedBy(j, f[seen \cup {j}]) \subseteq Interfaces \cup {Link!NoInterface}
  <2>1. f[seen \cup {j}] \in Found
    OBVIOUS
  <2> QED BY <2>1, ResolvedByBelow
<1>2. Step(f, seen) \in Found
  BY <1>1 DEF Step, Found
<1>3. ASSUME NEW g, \A j \in Interfaces \ seen : g[seen \cup {j}] = f[seen \cup {j}]
      PROVE  Step(g, seen) = Step(f, seen)
  BY <1>3 DEF Step
<1> QED BY <1>2, <1>3

\* The recursion of resolve_interface is well-founded: it defines a function.
LEMMA ResolutionExists ==
    ASSUME Link!UplinkAssumption, sysfs \in [Interfaces -> Link!Devices]
    PROVE  \E f \in [SUBSET Interfaces -> Found] : f = [seen \in SUBSET Interfaces |-> Step(f, seen)]
<1> DEFINE All == Cardinality(Interfaces)
           Solves(f, n) == \A seen \in SUBSET Interfaces : Unvisited(seen) <= n => f[seen] = Step(f, seen)
           T == {n \in 0..All : \E f \in [SUBSET Interfaces -> Found] : Solves(f, n)}
<1>0. All \in Nat
  BY LinkFinite, FS_CardinalityType
<1>1. 0 \in T
  <2> DEFINE none == [j \in Interfaces |-> {Link!NoInterface}]
             f == [seen \in SUBSET Interfaces |-> none]
  <2>1. f \in [SUBSET Interfaces -> Found]
    BY DEF Found
  <2>2. ASSUME NEW seen \in SUBSET Interfaces, Unvisited(seen) <= 0
        PROVE  f[seen] = Step(f, seen)
    <3>1. seen = Interfaces
      BY <2>2, UnvisitedFalls
    <3>2. Step(f, seen) = none
      BY <3>1 DEF Step
    <3> QED BY <3>2
  <2>3. Solves(f, 0)
    BY <2>2
  <2> HIDE DEF f, Solves
  <2> QED BY <1>0, <2>1, <2>3
<1>2. ASSUME NEW n \in 0..All, n > 0, n - 1 \in T
      PROVE  n \in T
  <2> DEFINE m == n - 1
  <2>0. m \in Nat /\ m < n /\ n \in Nat /\ \A k \in Nat : k <= n => k <= m \/ k = n
    BY <1>0, <1>2
  <2>1. PICK f \in [SUBSET Interfaces -> Found] : Solves(f, m)
    <3> HIDE DEF Solves
    <3> QED BY <1>2
  <2> HIDE DEF m
  <2> DEFINE g == [seen \in SUBSET Interfaces |-> IF Unvisited(seen) = n THEN Step(f, seen) ELSE f[seen]]
  <2>2. g \in [SUBSET Interfaces -> Found]
    <3>1. \A seen \in SUBSET Interfaces : Step(f, seen) \in Found
      BY StepFound
    <3> QED BY <3>1
  <2>3. ASSUME NEW seen \in SUBSET Interfaces, Unvisited(seen) <= n
        PROVE  g[seen] = Step(g, seen)
    <3>1. g[seen] = Step(f, seen)
      <4>1. CASE Unvisited(seen) = n
        BY <4>1
      <4>2. CASE Unvisited(seen) # n
        <5>1. Unvisited(seen) <= m
          BY <2>0, <2>3, <4>2, UnvisitedFalls
        <5> QED BY <2>1, <4>2, <5>1
      <4> QED BY <4>1, <4>2
    <3>2. ASSUME NEW j \in Interfaces \ seen
          PROVE  g[seen \cup {j}] = f[seen \cup {j}]
      <4>1. seen \cup {j} \in SUBSET Interfaces
        OBVIOUS
      <4>2. Unvisited(seen \cup {j}) = Unvisited(seen) - 1 /\ Unvisited(seen) \in Nat
        BY UnvisitedFalls
      <4>3. Unvisited(seen \cup {j}) # n
        BY <2>0, <2>3, <4>2
      <4> QED BY <4>1, <4>3
    <3> HIDE DEF g
    <3>3. Step(g, seen) = Step(f, seen)
      BY <3>2, StepFound
    <3> QED BY <3>1, <3>3
  <2> HIDE DEF g
  <2>4. Solves(g, n)
    BY <2>3
  <2> HIDE DEF Solves
  <2> QED BY <2>2, <2>4
<1> HIDE DEF T
<1>3. 0..All \subseteq T
  <2> HIDE DEF All
  <2> QED BY <1>0, <1>1, <1>2, Induction
<1>4. All \in T
  BY <1>0, <1>3
<1>5. PICK f \in [SUBSET Interfaces -> Found] : Solves(f, All)
  BY <1>4 DEF T
<1>6. \A seen \in SUBSET Interfaces : f[seen] = Step(f, seen)
  BY <1>5, UnvisitedFalls
<1>7. f = [seen \in SUBSET Interfaces |-> Step(f, seen)]
  BY <1>6
<1> QED BY <1>7

\* What lies below an interface is reached from it.
LEMMA ReachesBelow ==
    ASSUME NEW j \in Interfaces
    PROVE  /\ j \in Link!Reach({j})
           /\ \A l \in Interfaces : \A r : Link!Exists(j) /\ l \in Link!Below(j) /\ Link!Exists(l)
                                         /\ r \in Link!Reach({l}) => r \in Link!Reach({j})
<1>1. j \in Link!Reach({j})
  BY DEF Link!Reach
<1>2. ASSUME NEW l \in Interfaces, NEW r, Link!Exists(j), l \in Link!Below(j), Link!Exists(l),
             r \in Link!Reach({l})
      PROVE  r \in Link!Reach({j})
  <2>1. r \in Interfaces
    BY <1>2 DEF Link!Reach
  <2>2. ASSUME NEW closed \in SUBSET Interfaces, {j} \subseteq closed,
               \A i \in closed : Link!Exists(i) => {k \in Link!Below(i) : Link!Exists(k)} \subseteq closed
        PROVE  r \in closed
    <3>1. l \in closed
      BY <1>2, <2>2
    <3> QED BY <1>2, <2>2, <3>1 DEF Link!Reach
  <2> QED BY <2>1, <2>2 DEF Link!Reach
<1> QED BY <1>1, <1>2

\* resolve_interface finds something only from an interface that is there, and it is that
\* one or lies below it, through cycles, missing members and any choice of entries.
LEMMA ResolvedReaches ==
    ASSUME Link!UplinkAssumption, sysfs \in [Interfaces -> Link!Devices],
           NEW i \in Interfaces, NEW r \in Link!Resolved(i, {}), r # Link!NoInterface
    PROVE  r \in Link!Reach({i})
<1> DEFINE Rec(f) == f = [seen \in SUBSET Interfaces |-> Step(f, seen)]
           h == CHOOSE f : Rec(f)
<1>1. PICK f \in [SUBSET Interfaces -> Found] : Rec(f)
  BY ResolutionExists
<1>2. Rec(h)
  <2> HIDE DEF Rec
  <2> QED BY <1>1
<1>3. Link!Resolved(i, {}) = h[{}][i]
  BY DEF Link!Resolved, Step
<1> HIDE DEF h
<1> DEFINE All == Cardinality(Interfaces)
           Reaches(seen) == \A j \in Interfaces : \A x \in h[seen][j] :
                              x = Link!NoInterface \/ (Link!Exists(j) /\ x \in Link!Reach({j}))
           T == {n \in 0..All : \A seen \in SUBSET Interfaces :
                                  Unvisited(seen) <= n => h[seen] \in Found /\ Reaches(seen)}
<1>4. All \in Nat
  BY LinkFinite, FS_CardinalityType
<1>5. \A seen \in SUBSET Interfaces : h[seen] = Step(h, seen)
  BY <1>2
<1>6. 0 \in T
  <2>1. ASSUME NEW seen \in SUBSET Interfaces, Unvisited(seen) <= 0
        PROVE  h[seen] \in Found /\ Reaches(seen)
    <3>1. seen = Interfaces
      BY <2>1, UnvisitedFalls
    <3>2. h[seen] = [j \in Interfaces |-> {Link!NoInterface}]
      BY <1>5, <3>1 DEF Step
    <3> QED BY <3>2 DEF Found
  <2> HIDE DEF Reaches
  <2> QED BY <1>4, <2>1
<1>7. ASSUME NEW n \in 0..All, n > 0, n - 1 \in T
      PROVE  n \in T
  <2> DEFINE m == n - 1
  <2>0. m \in Nat /\ m < n /\ n \in Nat /\ \A k \in Nat : k <= n => k - 1 <= m
    BY <1>4, <1>7
  <2>1. \A seen \in SUBSET Interfaces : Unvisited(seen) <= m => h[seen] \in Found /\ Reaches(seen)
    <3> HIDE DEF Reaches
    <3> QED BY <1>7
  <2> HIDE DEF m
  <2>2. ASSUME NEW seen \in SUBSET Interfaces, Unvisited(seen) <= n
        PROVE  h[seen] \in Found /\ Reaches(seen)
    <3>1. ASSUME NEW j \in Interfaces \ seen
          PROVE  h[seen \cup {j}] \in Found /\ Reaches(seen \cup {j})
      <4>1. seen \cup {j} \in SUBSET Interfaces
        OBVIOUS
      <4>2. Unvisited(seen \cup {j}) <= m
        BY <2>0, <2>2, UnvisitedFalls
      <4> HIDE DEF Reaches
      <4> QED BY <2>1, <4>1, <4>2
    <3>2. ASSUME NEW j \in Interfaces, NEW x \in h[seen][j]
          PROVE  \/ x = Link!NoInterface
                 \/ x \in Interfaces /\ Link!Exists(j) /\ x \in Link!Reach({j})
      <4>1. h[seen][j] = IF j \in seen \/ ~Link!Exists(j) THEN {Link!NoInterface}
                         ELSE Link!ResolvedBy(j, h[seen \cup {j}])
        BY <1>5 DEF Step
      <4>2. SUFFICES ASSUME x # Link!NoInterface
                     PROVE  x \in Interfaces /\ Link!Exists(j) /\ x \in Link!Reach({j})
        OBVIOUS
      <4>3. j \notin seen /\ Link!Exists(j) /\ x \in Link!ResolvedBy(j, h[seen \cup {j}])
        BY <4>1, <4>2
      <4>4. h[seen \cup {j}] \in Found /\ Reaches(seen \cup {j})
        BY <3>1, <4>3
      <4>5. \/ x = j
            \/ x \in Interfaces /\ \E l \in Interfaces \cap Link!Below(j) : x \in h[seen \cup {j}][l]
        <5> HIDE DEF Reaches
        <5> QED BY <4>2, <4>3, <4>4, ResolvedByBelow
      <4>6. CASE x = j
        BY <4>3, <4>6, ReachesBelow
      <4>7. CASE x \in Interfaces /\ \E l \in Interfaces \cap Link!Below(j) : x \in h[seen \cup {j}][l]
        <5>1. PICK l \in Interfaces \cap Link!Below(j) : x \in h[seen \cup {j}][l]
          BY <4>7
        <5>2. Link!Exists(l) /\ x \in Link!Reach({l})
          BY <4>2, <4>4, <5>1
        <5> QED BY <4>3, <4>7, <5>1, <5>2, ReachesBelow
      <4> QED BY <4>5, <4>6, <4>7
    <3>3. h[seen] \in Found
      <4>1. h[seen] = [j \in Interfaces |-> h[seen][j]]
        BY <1>5 DEF Step
      <4>2. \A j \in Interfaces : h[seen][j] \subseteq Interfaces \cup {Link!NoInterface}
        BY <3>2
      <4> QED BY <4>1, <4>2 DEF Found
    <3> QED BY <3>2, <3>3
  <2> HIDE DEF Reaches
  <2> QED BY <2>2
<1> HIDE DEF T
<1>8. 0..All \subseteq T
  <2> HIDE DEF All
  <2> QED BY <1>4, <1>6, <1>7, Induction
<1>9. All \in T /\ Unvisited({}) <= All
  BY <1>4, <1>8, UnvisitedFalls
<1>10. Reaches({})
  <2> HIDE DEF Reaches
  <2> QED BY <1>9 DEF T
<1> QED BY <1>3, <1>10

\* read_network reports only what it has resolved from a route, or the routed interface.
LEMMA RefreshReaches ==
    ASSUME Link!UplinkAssumption, LinkInv, Link!Refresh, network'.interface # Link!NoInterface
    PROVE  \E route \in Link!Routes : network'.interface \in Link!Reach({route.interface})
<1>1. Link!Routes # {}
  BY DEF Link!Refresh, Link!Unknown
<1>2. PICK route \in Link!Routes : \E i \in Link!Physical(route.interface) :
        network' = [interface |-> i, ipv4 |-> route.ipv4,
                    up |-> Link!read_link(i).up, mbps |-> Link!read_link(i).mbps]
  BY <1>1 DEF Link!Refresh
<1>6. PICK i \in Link!Physical(route.interface) : network'.interface = i
  BY <1>2
<1>3. route.interface \in Interfaces
  BY DEF Link!UplinkAssumption, LinkInv, Link!Routes, Link!parse_default_route, Link!Defaults
<1>4. PICK r \in Link!Resolved(route.interface, {}) :
        i = IF r = Link!NoInterface THEN route.interface ELSE r
  BY DEF Link!Physical
<1>5. i \in Link!Reach({route.interface})
  <2>1. CASE r = Link!NoInterface
    BY <1>3, <1>4, <2>1, ReachesBelow
  <2>2. CASE r # Link!NoInterface
    BY <1>3, <1>4, <2>2, ResolvedReaches DEF LinkInv
  <2> QED BY <2>1, <2>2
<1> QED BY <1>5, <1>6

\* sysfs stays as it may be when a cable is plugged in or out and a bond fails over.
LEMMA LinkStep ==
    ASSUME Link!UplinkAssumption, LinkInv, Link!Next
    PROVE  LinkInv'
<1>1. CASE Link!Refresh
  BY <1>1 DEF LinkInv, Link!Refresh
<1>2. CASE Link!IpChanges
  BY <1>2 DEF LinkInv, Link!IpChanges
<1>3. ASSUME NEW i \in Interfaces, Link!Replug(i)
      PROVE  LinkInv'
  <2> DEFINE plugged == [sysfs EXCEPT ![i].up = ~@]
             members(b) == {m \in sysfs[b].lower : plugged[m].present /\ plugged[m].up}
             Failover(b) == IF sysfs[b].active_slave = Link!NoInterface
                                 \/ sysfs[b].active_slave \in members(b) \/ members(b) = {}
                            THEN sysfs[b].active_slave ELSE Link!Min(members(b))
  <2>1. sysfs' = [j \in Interfaces |-> [plugged[j] EXCEPT !.active_slave = Failover(j)]]
    BY <1>3, Zenon DEF Link!Replug
  <2>2. plugged \in [Interfaces -> Link!Devices]
    BY DEF LinkInv, Link!Devices
  <2>3. ASSUME NEW j \in Interfaces PROVE Failover(j) \in Interfaces \cup {Link!NoInterface}
    <3> DEFINE M == members(j)
    <3>1. M \subseteq Interfaces /\ M \subseteq Nat
      BY DEF LinkInv, Link!Devices, Link!UplinkAssumption
    <3>2. sysfs[j].active_slave \in Interfaces \cup {Link!NoInterface}
      BY DEF LinkInv, Link!Devices
    <3>3. ASSUME M # {} PROVE Link!Min(M) \in M
      <4> HIDE DEF M
      <4>1. PICK x \in M : \A y \in M : x <= y
        BY <3>1, <3>3, Least
      <4> QED BY <4>1 DEF Link!Min
    <3> QED BY <3>1, <3>2, <3>3
  <2> HIDE DEF plugged, Failover
  <2>4. \A j \in Interfaces : [plugged[j] EXCEPT !.active_slave = Failover(j)] \in Link!Devices
    BY <2>2, <2>3 DEF Link!Devices
  <2>5. ip' = ip /\ routes' = routes
    BY <1>3 DEF Link!Replug
  <2> QED BY <2>1, <2>4, <2>5 DEF LinkInv
<1> QED BY <1>1, <1>2, <1>3 DEF Link!Next

\* At any time the uplink moves as Uplink says or stays.
LEMMA LinkInductive ==
    /\ HostInit => LinkInv
    /\ LinkInv /\ [HostNext]_<<readerVars, framesVars, programVars, linkVars, mockVars, part>>
         => LinkInv'
<1>1. HostInit => LinkInv
  BY UplinkAssumed DEF HostInit, Link!Init, LinkInv, Link!UplinkAssumption
<1>2. ASSUME LinkInv, [HostNext]_<<readerVars, framesVars, programVars, linkVars, mockVars, part>>
      PROVE  LinkInv'
  <2>1. Link!Next \/ UNCHANGED linkVars
    BY <1>2 DEF HostNext
  <2>2. CASE UNCHANGED linkVars
    BY <1>2, <2>2 DEF linkVars, LinkInv
  <2> QED BY <1>2, <2>1, <2>2, LinkStep, UplinkAssumed
<1> QED BY <1>1, <1>2

\* read_network: whatever the stack of bridges, bonds and VLANs, cycles and vanished
\* members included, the interface that is reported is the routed one or lies below it.
THEOREM UplinkCarriesRoute == HostSpec => Link!CarriesRoute
<1>1. LinkInv /\ Link!Refresh
        => (network'.interface # Link!NoInterface
              => \E route \in Link!Routes : network'.interface \in Link!Reach({route.interface}))
  BY RefreshReaches, UplinkAssumed
<1> QED BY <1>1, LinkInductive, PTL DEF HostSpec, Link!CarriesRoute

\* read_route, with ip failing: the interface reported lies below an active default route
\* of the lowest metric.
THEOREM FallbackIsActive == HostSpec => Link!FallbackUsesActive
<1>1. ASSUME LinkInv, Link!Refresh, ip.route = Link!NoInterface,
             network'.interface # Link!NoInterface
      PROVE  \E r \in routes : /\ r.default /\ r.up
                               /\ \A s \in routes : s.default /\ s.up => r.metric <= s.metric
                               /\ network'.interface \in Link!Reach({r.interface})
  <2>1. PICK route \in Link!Routes : network'.interface \in Link!Reach({route.interface})
    BY <1>1, RefreshReaches, UplinkAssumed
  <2>2. route.interface \in Link!parse_default_route
    BY <1>1 DEF Link!Routes
  <2>3. PICK r \in Link!Defaults : /\ \A t \in Link!Defaults : r.metric <= t.metric
                                   /\ r.interface = route.interface
    BY <2>2 DEF Link!parse_default_route
  <2> QED BY <2>1, <2>3 DEF Link!Defaults
<1> QED BY <1>1, LinkInductive, PTL DEF HostSpec, Link!FallbackUsesActive

-----------------------------------------------------------------------------
(* The mock host.                                                          *)

\* What writing a frame does to a wire, position by position.
LEMMA WirePut ==
    ASSUME NEW S, NEW w \in Seq(S), NEW m \in S, NEW g \in S
    PROVE  /\ Mock!Put(w, m, g) \in Seq(S)
           /\ Len(w) <= Len(Mock!Put(w, m, g))
           /\ \A i \in 1..Len(Mock!Put(w, m, g)) :
                \/ i <= Len(w) /\ Mock!Put(w, m, g)[i] = w[i]
                \/ i > Len(w) /\ Mock!Put(w, m, g)[i] = m
                \/ i = Len(Mock!Put(w, m, g)) /\ Mock!Put(w, m, g)[i] = g
<1>1. CASE Mock!EndsInFragment(w)
  <2>1. CASE m.kind = "Fragment"
    BY <1>1, <2>1 DEF Mock!Put
  <2>2. CASE m.kind # "Fragment"
    <3>1. Mock!Put(w, m, g) = [w EXCEPT ![Len(w)] = g]
      BY <1>1, <2>2 DEF Mock!Put
    <3>2. Len(w) \in 1..Len(w)
      BY <1>1 DEF Mock!EndsInFragment
    <3> QED BY <3>1, <3>2
  <2> QED BY <2>1, <2>2
<1>2. CASE ~Mock!EndsInFragment(w)
  BY <1>2 DEF Mock!Put
<1> QED BY <1>1, <1>2

\* A queue whose front made room for a new entry at the back.
LEMMA QueueDisplaced ==
    ASSUME NEW S, NEW q \in Seq(S), NEW m \in S, q # <<>>
    PROVE  /\ Append(Tail(q), m) \in Seq(S)
           /\ Len(Append(Tail(q), m)) = Len(q)
           /\ \A i \in 1..Len(Append(Tail(q), m)) :
                \/ i + 1 <= Len(q) /\ Append(Tail(q), m)[i] = q[i + 1]
                \/ i + 1 = Len(q) + 1 /\ Append(Tail(q), m)[i] = m
<1>1. /\ Tail(q) \in Seq(S)
      /\ Len(Tail(q)) = Len(q) - 1
      /\ \A i \in 1..Len(Tail(q)) : Tail(q)[i] = q[i + 1]
  BY HeadTailProperties, Zenon
<1>2. SUFFICES ASSUME NEW t \in Seq(S), Len(t) = Len(q) - 1,
                      \A i \in 1..Len(t) : t[i] = q[i + 1]
               PROVE  /\ Append(t, m) \in Seq(S)
                      /\ Len(Append(t, m)) = Len(q)
                      /\ \A i \in 1..Len(Append(t, m)) :
                           \/ i + 1 <= Len(q) /\ Append(t, m)[i] = q[i + 1]
                           \/ i + 1 = Len(q) + 1 /\ Append(t, m)[i] = m
  BY <1>1, Zenon
<1> QED BY <1>2

\* Every stick step preserves the types.

\* The stick's queue after Enqueue: within its capacity, each entry an old one, at most one
\* place further on, or the new one at the end.
LEMMA QueueEntries ==
    ASSUME NEW q \in Seq(Mock!DeviceMessage), NEW m \in Mock!DeviceMessage, Len(q) <= QueueCap
    PROVE  /\ Mock!Enqueue(q, m) \in Seq(Mock!DeviceMessage)
           /\ Len(Mock!Enqueue(q, m)) <= QueueCap
           /\ \E d \in {0, 1} : \A i \in 1..Len(Mock!Enqueue(q, m)) :
                \/ i + d <= Len(q) /\ Mock!Enqueue(q, m)[i] = q[i + d]
                \/ i + d = Len(q) + 1 /\ Mock!Enqueue(q, m)[i] = m
<1> USE MockAssumed
<1> DEFINE e == Mock!Enqueue(q, m)
<1>1. CASE Len(q) < QueueCap
  <2>1. e = Append(q, m)
    BY <1>1 DEF Mock!Enqueue
  <2>2. \A i \in 1..Len(e) :
          \/ i + 0 <= Len(q) /\ e[i] = q[i + 0]
          \/ i + 0 = Len(q) + 1 /\ e[i] = m
    BY <2>1
  <2>3. e \in Seq(Mock!DeviceMessage) /\ Len(e) <= QueueCap
    BY <1>1, <2>1
  <2> QED BY <2>2, <2>3
<1>2. CASE Len(q) >= QueueCap /\ m.kind = "ShutdownRequested"
  <2>1. e = Append(Tail(q), m) /\ q # <<>>
    BY <1>2 DEF Mock!Enqueue
  <2>2. /\ e \in Seq(Mock!DeviceMessage)
        /\ Len(e) = Len(q)
        /\ \A i \in 1..Len(e) :
             \/ i + 1 <= Len(q) /\ e[i] = q[i + 1]
             \/ i + 1 = Len(q) + 1 /\ e[i] = m
    <3>1. /\ Append(Tail(q), m) \in Seq(Mock!DeviceMessage)
          /\ Len(Append(Tail(q), m)) = Len(q)
          /\ \A i \in 1..Len(Append(Tail(q), m)) :
               \/ i + 1 <= Len(q) /\ Append(Tail(q), m)[i] = q[i + 1]
               \/ i + 1 = Len(q) + 1 /\ Append(Tail(q), m)[i] = m
      <4>1. q # <<>>
        BY <2>1
      <4> QED BY <4>1, QueueDisplaced
    <3> HIDE DEF e
    <3> QED BY <2>1, <3>1, Zenon
  <2> QED BY <2>2
<1>3. CASE Len(q) >= QueueCap /\ m.kind # "ShutdownRequested"
  <2>1. e = q
    BY <1>3 DEF Mock!Enqueue
  <2>2. \A i \in 1..Len(e) : i + 0 <= Len(q) /\ e[i] = q[i + 0]
    BY <2>1
  <2> QED BY <2>1, <2>2
<1> QED BY <1>1, <1>2, <1>3

\* The frames of the link.
LEMMA MockFrameTypes ==
    /\ \A k \in {"Hello"} \cup Mock!SessionKinds \cup Mock!NoiseKinds : \A s, p \in Nat :
         Mock!HostFrame(k, s, p) \in Mock!HostMessage
    /\ \A k \in Mock!NoiseKinds : Mock!HostNoise(k) \in Mock!HostMessage
    /\ \A k \in {"Hello", "ShutdownRequested"} \cup Mock!NoiseKinds : \A s \in Nat :
         Mock!DeviceFrame(k, s) \in Mock!DeviceMessage
    /\ \A k \in Mock!NoiseKinds : Mock!DeviceNoise(k) \in Mock!DeviceMessage
BY DEF Mock!HostFrame, Mock!HostNoise, Mock!DeviceFrame, Mock!DeviceNoise, Mock!HostMessage,
       Mock!DeviceMessage, Mock!NoSession

\* Every step of the stick keeps the types.
LEMMA MockStickTypes ==
    ASSUME Mock!TypeOK, Mock!StickNext, UNCHANGED <<proc, started, handshake_established, step, exited>>
    PROVE  Mock!TypeOK'
<1> USE DEF Mock!TypeOK
<1>0. Mock!LinkTypeOK /\ Mock!StickTypeOK
  OBVIOUS
<1>1. Mock!TypeOK' <=> (Mock!StickTypeOK /\ Mock!LinkTypeOK)'
  OBVIOUS
<1>2. Mock!Readable(toStick) => /\ Head(toStick) \in Mock!HostMessage
                           /\ Tail(toStick) \in Seq(Mock!HostMessage)
  BY <1>0 DEF Mock!Readable, Mock!LinkTypeOK
<1>3. \A k \in {"Hello", "ShutdownRequested"}, n \in Nat :
        /\ Mock!Enqueue(queue, Mock!DeviceFrame(k, n)) \in Seq(Mock!DeviceMessage)
        /\ Len(Mock!Enqueue(queue, Mock!DeviceFrame(k, n))) <= QueueCap
  BY <1>0, MockFrameTypes, QueueEntries DEF Mock!StickTypeOK
<1>4. \A m \in Mock!HostMessage : m.session \in Nat /\ m.pages \in Nat
  BY DEF Mock!HostMessage
<1>5. \A p, q \in Nat : q # 0 => p % q \in Nat
  OBVIOUS
<1>a. 0 \in Nat /\ 1 \in Nat
  OBVIOUS
<1>6. CASE Mock!TxPoll
  <2>1. Head(queue) \in Mock!DeviceMessage /\ Tail(queue) \in Seq(Mock!DeviceMessage)
        /\ Len(Tail(queue)) <= QueueCap
    BY <1>0, <1>6, MockAssumed DEF Mock!TxPoll, Mock!StickTypeOK
  <2>2. Mock!DeviceNoise("Garbled") \in Mock!DeviceMessage
    BY MockFrameTypes DEF Mock!NoiseKinds
  <2>3. toHost' \in Seq(Mock!DeviceMessage)
    BY <1>0, <1>6, <2>1, <2>2, WirePut DEF Mock!TxPoll, Mock!PutDevice, Mock!LinkTypeOK
  <2> QED BY <1>0, <1>1, <1>6, <2>1, <2>3, Zenon
             DEF Mock!TxPoll, Mock!StickTypeOK, Mock!LinkTypeOK, Mock!screenVars
<1>7. CASE Mock!HelloTimer
  BY <1>0, <1>1, <1>3, <1>7, Zenon
     DEF Mock!HelloTimer, Mock!StickTypeOK, Mock!LinkTypeOK, Mock!screenVars
<1>8. CASE Mock!ReceiveHello
  BY <1>0, <1>1, <1>2, <1>3, <1>4, <1>8, Zenon
     DEF Mock!ReceiveHello, Mock!Receive, Mock!AdoptedSession, Mock!DaemonState,
         Mock!StickTypeOK, Mock!LinkTypeOK, Mock!screenVars
<1>9. CASE Mock!IgnoreFrame
  BY <1>0, <1>1, <1>2, <1>4, <1>9, Zenon
     DEF Mock!IgnoreFrame, Mock!Receive, Mock!StickTypeOK, Mock!LinkTypeOK, Mock!screenVars
<1>10. CASE Mock!ReceiveForeign
  BY <1>0, <1>1, <1>2, <1>4, <1>10, Zenon
     DEF Mock!ReceiveForeign, Mock!Receive, Mock!DaemonState, Mock!StickTypeOK,
         Mock!LinkTypeOK, Mock!screenVars
<1>11. CASE Mock!ReceiveSnapshot
  BY <1>0, <1>1, <1>2, <1>4, <1>11, Zenon
     DEF Mock!ReceiveSnapshot, Mock!Receive, Mock!DaemonState, Mock!StickTypeOK,
         Mock!LinkTypeOK, Mock!screenVars
<1>12. CASE Mock!ReceiveNetworkConfig
  BY <1>0, <1>1, <1>2, <1>4, <1>12, Zenon
     DEF Mock!ReceiveNetworkConfig, Mock!Receive, Mock!StickTypeOK, Mock!LinkTypeOK,
         Mock!screenVars
<1>13. CASE Mock!ReceiveFailure
  BY <1>0, <1>1, <1>2, <1>4, <1>13, Zenon
     DEF Mock!ReceiveFailure, Mock!Receive, Mock!DaemonState, Mock!ShutdownDisplay,
         Mock!StickTypeOK, Mock!LinkTypeOK, Mock!screenVars
<1>14. CASE Mock!ReceiveProgress
  <2>1. Mock!PhaseDisplay(Head(toStick).kind) \in Mock!ShutdownDisplay
    BY DEF Mock!PhaseDisplay, Mock!ShutdownDisplay
  <2> QED BY <1>0, <1>1, <1>2, <1>14, <2>1, Zenon
             DEF Mock!ReceiveProgress, Mock!Receive, Mock!DaemonState, Mock!StickTypeOK,
                 Mock!LinkTypeOK, Mock!screenVars
<1>15. CASE Mock!ReceiveDisplayConfig
  <2>1. page' \in Nat
    BY <1>0, <1>2, <1>4, <1>5, <1>15
       DEF Mock!ReceiveDisplayConfig, Mock!Receive, Mock!PageWithin, Mock!StickTypeOK
  <2> QED BY <1>0, <1>1, <1>2, <1>4, <1>15, <2>1, Zenon
             DEF Mock!ReceiveDisplayConfig, Mock!Receive, Mock!StickTypeOK, Mock!LinkTypeOK,
                 Mock!screenVars
<1>16. CASE Mock!LinkTimeout
  BY <1>0, <1>1, <1>a, <1>16, Zenon
     DEF Mock!LinkTimeout, Mock!DaemonState, Mock!NoSession, Mock!StickTypeOK, Mock!LinkTypeOK,
         Mock!screenVars
<1>17. CASE Mock!ShutdownTimeout
  BY <1>0, <1>1, <1>17, Zenon
     DEF Mock!ShutdownTimeout, Mock!ShutdownDisplay, Mock!StickTypeOK, Mock!LinkTypeOK,
         Mock!screenVars
<1>18. CASE Mock!NextScreen
  <2>1. page' \in Nat
    BY <1>0, <1>5, <1>18 DEF Mock!NextScreen, Mock!StickTypeOK
  <2> QED BY <1>0, <1>1, <1>18, <2>1, Zenon
             DEF Mock!NextScreen, Mock!StickTypeOK, Mock!LinkTypeOK, Mock!screenVars
<1>19. CASE Mock!LongPress
  <2>1. presses' \in Nat
    BY <1>0, <1>19 DEF Mock!LongPress, Mock!StickTypeOK
  <2>2. queue' \in Seq(Mock!DeviceMessage) /\ Len(queue') <= QueueCap
    BY <1>0, <1>3, <1>19 DEF Mock!LongPress, Mock!StickTypeOK
  <2> QED BY <1>0, <1>1, <1>19, <2>1, <2>2, Zenon
             DEF Mock!LongPress, Mock!StickTypeOK, Mock!LinkTypeOK, Mock!screenVars
<1>20. CASE Mock!StickReboot
  <2>1. faults' \in Nat
    BY <1>0, <1>20 DEF Mock!StickReboot, Mock!Fault, Mock!LinkTypeOK
  <2>2. Mock!DeviceFrame("Hello", Mock!NoSession) \in Mock!DeviceMessage
        /\ Mock!DeviceNoise("Fragment") \in Mock!DeviceMessage
    BY MockFrameTypes DEF Mock!NoSession, Mock!NoiseKinds
  <2>3. queue' \in Seq(Mock!DeviceMessage) /\ Len(queue') <= QueueCap
    BY <1>20, <2>2, MockAssumed DEF Mock!StickReboot
  <2>4. toStick' \in Seq(Mock!HostMessage)
    <3>1. PICK k \in 0..Len(toStick) : toStick' = SubSeq(toStick, k + 1, Len(toStick))
      BY <1>20 DEF Mock!StickReboot
    <3> QED BY <1>0, <3>1 DEF Mock!LinkTypeOK
  <2>5. toHost' \in Seq(Mock!DeviceMessage)
    <3>1. PICK j \in 0..Len(toHost) :
            \/ toHost' = SubSeq(toHost, 1, j)
            \/ toHost' = Append(SubSeq(toHost, 1, j), Mock!DeviceNoise("Fragment"))
      BY <1>20 DEF Mock!StickReboot
    <3>2. SubSeq(toHost, 1, j) \in Seq(Mock!DeviceMessage)
      BY <1>0 DEF Mock!LinkTypeOK
    <3> QED BY <2>2, <3>1, <3>2
  <2>6. web_manifest' \in Nat
    BY <1>20, MockAssumed DEF Mock!StickReboot
  <2> QED BY <1>0, <1>1, <1>a, <1>20, <2>1, <2>3, <2>4, <2>5, <2>6, Zenon
          DEF Mock!StickReboot, Mock!DaemonState, Mock!ShutdownDisplay, Mock!NoSession,
              Mock!StickTypeOK, Mock!LinkTypeOK, Mock!screenVars
<1> QED BY <1>6, <1>7, <1>8, <1>9, <1>10, <1>11, <1>12, <1>13, <1>14, <1>15, <1>16, <1>17,
           <1>18, <1>19, <1>20
           DEF Mock!StickNext

\* The frames of the mock host whose session matters.
Said == {"Hello", "HealthSnapshot"}

\* The wire w2 is w from frame k + 1 on, as far as those frames go.
Passes(w2, w, k) ==
    \A i \in 1..Len(w2) : w2[i].kind \in Said => i + k \in 1..Len(w) /\ w2[i] = w[i + k]

\* The frames say sessions that have been, none before an earlier one.
InOrder(w, low, high) ==
    /\ \A i \in 1..Len(w) : w[i].kind \in Said => w[i].session \in 1..high /\ low <= w[i].session
    /\ \A i, j \in 1..Len(w) :
          i < j /\ w[i].kind \in Said /\ w[j].kind \in Said => w[i].session <= w[j].session

Tells(w, kind, s) == \E i \in 1..Len(w) : w[i].kind = kind /\ w[i].session = s

\* The stick has taken up session s, some time ago.
TakenUp(s) ==
    \/ handshake_established /\ s = started
    \/ Tells(toStick, "HealthSnapshot", s)
    \/ Tells(toHost, "Hello", s)
    \/ Tells(queue, "Hello", s)

\* What is still to be taken up is no older.
NoneOlder(s) ==
    /\ \A i \in 1..Len(toStick) : toStick[i].kind = "Hello" => s <= toStick[i].session
    /\ daemon_session = Mock!NoSession \/ s <= daemon_session

MockInv ==
    /\ Mock!TypeOK
    /\ daemon_session <= started
    /\ proc = "running" => started # 0
    /\ InOrder(toStick, daemon_session, started)
    /\ \A s \in Nat \ {0} : TakenUp(s) => s <= started /\ NoneOlder(s)

\* What is left of a wire is in order.
LEMMA PassesInOrder ==
    ASSUME NEW M, NEW w \in Seq(M), NEW w2 \in Seq(M), NEW k \in Nat, Passes(w2, w, k),
           NEW low \in Nat, NEW high \in Nat, NEW more \in Nat, high <= more,
           \A i \in 1..Len(w) : w[i].kind \in Said => w[i].session \in Nat,
           InOrder(w, low, high)
    PROVE  /\ InOrder(w2, low, more)
           /\ InOrder(w2, 0, more)
           /\ \A kind \in Said : \A s : Tells(w2, kind, s) => Tells(w, kind, s)
<1>1. ASSUME NEW i \in 1..Len(w2), w2[i].kind \in Said
      PROVE  i + k \in 1..Len(w) /\ w2[i] = w[i + k]
  BY <1>1 DEF Passes
<1>2. \A i \in 1..Len(w2) : w2[i].kind \in Said
        => w2[i].session \in 1..more /\ low <= w2[i].session /\ 0 <= w2[i].session
  <2> SUFFICES ASSUME NEW i \in 1..Len(w2), w2[i].kind \in Said
               PROVE  w2[i].session \in 1..more /\ low <= w2[i].session /\ 0 <= w2[i].session
    OBVIOUS
  <2>1. w[i + k].kind \in Said /\ i + k \in 1..Len(w) /\ w2[i] = w[i + k]
    BY <1>1
  <2>2. w[i + k].session \in 1..high /\ low <= w[i + k].session
    BY <2>1 DEF InOrder
  <2> QED BY <2>1, <2>2
<1>3. ASSUME NEW i \in 1..Len(w2), NEW j \in 1..Len(w2), i < j, w2[i].kind \in Said,
             w2[j].kind \in Said
      PROVE  w2[i].session <= w2[j].session
  <2>1. i + k \in 1..Len(w) /\ w2[i] = w[i + k] /\ j + k \in 1..Len(w) /\ w2[j] = w[j + k]
    BY <1>1, <1>3
  <2>2. i + k < j + k
    BY <1>3
  <2> QED BY <1>3, <2>1, <2>2 DEF InOrder
<1>4. ASSUME NEW kind \in Said, NEW s, Tells(w2, kind, s) PROVE Tells(w, kind, s)
  BY <1>1, <1>4 DEF Tells
<1> QED BY <1>2, <1>3, <1>4 DEF InOrder

\* A frame that is written comes last, or completes the frame that was cut.
LEMMA PutLast ==
    ASSUME NEW M, NEW w \in Seq(M), NEW m \in M, NEW garbled \in M, garbled.kind = "Garbled"
    PROVE  LET w2 == Mock!Put(w, m, garbled)
           IN  /\ w2 \in Seq(M)
               /\ \/ Passes(w2, w, 0)
                  \/ w2 = Append(w, m)
<1>1. CASE Mock!EndsInFragment(w) /\ m.kind # "Fragment"
  <2>1. w # <<>> /\ Mock!Put(w, m, garbled) = [w EXCEPT ![Len(w)] = garbled]
    BY <1>1 DEF Mock!Put, Mock!EndsInFragment
  <2> DEFINE w2 == [w EXCEPT ![Len(w)] = garbled]
  <2>2. w2 \in Seq(M) /\ Len(w2) = Len(w)
    BY <2>1
  <2>3. \A i \in 1..Len(w2) : w2[i] = w[i] \/ w2[i].kind = "Garbled"
    BY <2>1
  <2> HIDE DEF w2
  <2>4. Passes(w2, w, 0)
    <3> SUFFICES ASSUME NEW i \in 1..Len(w2), w2[i].kind \in Said
                 PROVE  i + 0 \in 1..Len(w) /\ w2[i] = w[i + 0]
      BY Zenon DEF Passes
    <3>1. w2[i] = w[i]
      BY <2>3 DEF Said
    <3>2. i + 0 = i /\ i \in 1..Len(w)
      BY <2>2
    <3> QED BY <3>1, <3>2
  <2> QED BY <2>1, <2>2, <2>4 DEF w2
<1>2. CASE Mock!EndsInFragment(w) /\ m.kind = "Fragment"
  BY <1>2 DEF Mock!Put, Passes
<1>3. CASE ~Mock!EndsInFragment(w)
  BY <1>3 DEF Mock!Put
<1> QED BY <1>1, <1>2, <1>3

\* Enqueue adds a message or drops one.
LEMMA EnqueueTells ==
    ASSUME NEW q \in Seq(Mock!DeviceMessage), NEW m \in Mock!DeviceMessage, Len(q) <= QueueCap,
           NEW s, Tells(Mock!Enqueue(q, m), "Hello", s)
    PROVE  Tells(q, "Hello", s) \/ (m.kind = "Hello" /\ m.session = s)
<1> DEFINE e == Mock!Enqueue(q, m)
<1> DEFINE Moved(d) == \A i \in 1..Len(e) :
                          \/ i + d <= Len(q) /\ e[i] = q[i + d]
                          \/ i + d = Len(q) + 1 /\ e[i] = m
<1>1. e \in Seq(Mock!DeviceMessage) /\ \E d \in {0, 1} : Moved(d)
  BY QueueEntries, Zenon
<1>2. PICK d \in {0, 1} : Moved(d)
  <2> HIDE DEF Moved
  <2> QED BY <1>1
<1>3. PICK i \in 1..Len(e) : e[i].kind = "Hello" /\ e[i].session = s
  BY DEF Tells
<1> HIDE DEF e
<1>4. e[i] = m \/ (i + d \in 1..Len(q) /\ e[i] = q[i + d])
  BY <1>1, <1>2
<1> QED BY <1>3, <1>4 DEF Tells

\* MockInv, when nothing is taken up but what was, or is now, the stick's session.
LEMMA NothingNewer ==
    ASSUME MockInv, Mock!TypeOK', started' = started, proc' \in {proc, "down"},
           NEW k \in Nat, Passes(toStick', toStick, k),
           daemon_session' \in {daemon_session, Mock!NoSession},
           \A s \in Nat \ {0} : TakenUp(s)' => TakenUp(s) \/ s = daemon_session
    PROVE  MockInv'
<1>0. /\ toStick \in Seq(Mock!HostMessage) /\ toStick' \in Seq(Mock!HostMessage)
      /\ started \in Nat /\ daemon_session \in Nat /\ daemon_session' \in Nat
  BY DEF MockInv, Mock!TypeOK, Mock!LinkTypeOK, Mock!StickTypeOK
<1>1. \A i \in 1..Len(toStick) : toStick[i].session \in Nat
  <2>1. \A m \in Mock!HostMessage : m.session \in Nat
    BY DEF Mock!HostMessage
  <2> QED BY <1>0, <2>1
<1>2. InOrder(toStick, daemon_session, started) /\ daemon_session <= started
  BY DEF MockInv
<1>3. InOrder(toStick', daemon_session, started) /\ InOrder(toStick', 0, started)
  BY <1>0, <1>1, <1>2, PassesInOrder
<1>4. InOrder(toStick', daemon_session', started')
  BY <1>3 DEF Mock!NoSession
<1>5. ASSUME NEW s \in Nat \ {0}, TakenUp(s)' PROVE s <= started' /\ NoneOlder(s)'
  <2>1. TakenUp(s) \/ s = daemon_session
    BY <1>5
  <2>2. s <= started /\ (daemon_session = Mock!NoSession \/ s <= daemon_session)
    BY <1>0, <1>2, <2>1 DEF MockInv, NoneOlder
  <2>3. \A i \in 1..Len(toStick) : toStick[i].kind = "Hello" => s <= toStick[i].session
    BY <1>2, <2>1 DEF MockInv, NoneOlder, InOrder, Said
  <2>4. \A i \in 1..Len(toStick') : toStick'[i].kind = "Hello" => s <= toStick'[i].session
    BY <2>3 DEF Passes, Said
  <2> QED BY <2>2, <2>4 DEF NoneOlder
<1>6. daemon_session' <= started'
  BY <1>0, <1>2 DEF Mock!NoSession
<1> HIDE DEF Passes, InOrder, TakenUp, NoneOlder
<1> QED BY <1>4, <1>5, <1>6 DEF MockInv

\* A frame of this start is written behind all others.
LEMMA WriteKeepsOrder ==
    ASSUME MockInv, Mock!TypeOK', NEW m \in Mock!HostMessage, toStick' = Mock!PutHost(m),
           m.session = started, started # 0,
           m.kind = "HealthSnapshot" => handshake_established,
           UNCHANGED <<proc, started, handshake_established, daemon_session, toHost, queue>>
    PROVE  MockInv'
<1>1. /\ toStick \in Seq(Mock!HostMessage) /\ toStick' \in Seq(Mock!HostMessage)
      /\ started \in Nat /\ daemon_session \in Nat
      /\ Mock!HostNoise("Garbled") \in Mock!HostMessage /\ Mock!HostNoise("Garbled").kind = "Garbled"
  BY MockFrameTypes DEF MockInv, Mock!TypeOK, Mock!LinkTypeOK, Mock!StickTypeOK, Mock!HostNoise,
     Mock!HostFrame, Mock!NoiseKinds
<1>2. Passes(toStick', toStick, 0) \/ toStick' = Append(toStick, m)
  BY <1>1, PutLast DEF Mock!PutHost
<1>3. ASSUME Passes(toStick', toStick, 0) PROVE MockInv'
  <2>1. \A s : TakenUp(s)' => TakenUp(s)
    BY <1>3 DEF TakenUp, Tells, Passes, Said
  <2> QED BY <1>3, <2>1, NothingNewer
<1>4. ASSUME toStick' = Append(toStick, m) PROVE MockInv'
  <2>1. /\ Len(toStick') = Len(toStick) + 1 /\ toStick'[Len(toStick) + 1] = m
        /\ \A i \in 1..Len(toStick) : toStick'[i] = toStick[i]
    BY <1>1, <1>4
  <2>2. InOrder(toStick, daemon_session, started) /\ daemon_session <= started
    BY DEF MockInv
  <2>5. \A i \in 1..Len(toStick') : toStick'[i].kind \in Said
          => toStick'[i].session \in 1..started /\ daemon_session <= toStick'[i].session
    BY <1>1, <2>1, <2>2 DEF InOrder
  <2>6. ASSUME NEW i \in 1..Len(toStick'), NEW j \in 1..Len(toStick'), i < j,
               toStick'[i].kind \in Said, toStick'[j].kind \in Said
        PROVE  toStick'[i].session <= toStick'[j].session
    <3>1. i \in 1..Len(toStick) /\ toStick'[i] = toStick[i]
      BY <1>1, <2>1, <2>6
    <3>2. CASE j = Len(toStick) + 1
      BY <1>1, <2>1, <2>5, <2>6, <3>1, <3>2
    <3>3. CASE j \in 1..Len(toStick)
      <4>1. toStick'[j] = toStick[j]
        BY <2>1, <3>3
      <4> QED BY <2>2, <2>6, <3>1, <3>3, <4>1 DEF InOrder
    <3> QED BY <1>1, <2>1, <3>2, <3>3
  <2>3. InOrder(toStick', daemon_session, started)
    BY <2>5, <2>6 DEF InOrder
  <2>4. ASSUME NEW s \in Nat \ {0}, TakenUp(s)' PROVE s <= started /\ NoneOlder(s)'
    <3>1. TakenUp(s)
      BY <1>1, <2>1, <2>4 DEF TakenUp, Tells
    <3>2. s <= started /\ NoneOlder(s)
      BY <3>1 DEF MockInv
    <3> QED BY <1>1, <2>1, <3>2 DEF NoneOlder
  <2> HIDE DEF InOrder, TakenUp, NoneOlder
  <2> QED BY <2>2, <2>3, <2>4 DEF MockInv
<1> QED BY <1>2, <1>3, <1>4

\* Every step of the mock host keeps the types.
LEMMA MockProcessTypes ==
    ASSUME Mock!TypeOK, Mock!Start \/ Mock!MockStep \/ Mock!Stops \/ Mock!LosesInput,
           UNCHANGED Mock!stickVars
    PROVE  Mock!TypeOK'
<1>0. /\ proc \in {"down", "running"} /\ started \in 0..MaxSessions
      /\ handshake_established \in BOOLEAN /\ exited \in BOOLEAN
      /\ step \in 0..7 /\ (step > 0 => proc = "running")
      /\ Len(Mock!Progress) = 7 /\ MaxSessions \in Nat
  BY MockAssumed DEF Mock!TypeOK, Mock!Progress, Mock!MockAssumption
<1>1. toStick \in Seq(Mock!HostMessage) /\ toHost \in Seq(Mock!DeviceMessage) /\ faults \in Nat
  BY DEF Mock!TypeOK, Mock!LinkTypeOK
<1>2. Mock!StickTypeOK'
  BY DEF Mock!TypeOK, Mock!StickTypeOK, Mock!stickVars, Mock!screenVars
<1>3. Mock!HostNoise("Garbled") \in Mock!HostMessage /\ Mock!HostNoise("Fragment") \in Mock!HostMessage
  BY MockFrameTypes DEF Mock!NoiseKinds
<1>4. ASSUME NEW m \in Mock!HostMessage PROVE Mock!PutHost(m) \in Seq(Mock!HostMessage)
  BY <1>1, <1>3, WirePut DEF Mock!PutHost
<1>5. \A k \in {"Hello", "HealthSnapshot", "ShutdownAccepted"} \cup Mock!ShutdownPhase : \A s, p \in Nat :
        Mock!HostFrame(k, s, p) \in Mock!HostMessage
  BY MockFrameTypes DEF Mock!SessionKinds
<1>6. toHost # <<>> => Tail(toHost) \in Seq(Mock!DeviceMessage)
  BY <1>1
<1> DEFINE Proc == /\ proc \in {"down", "running"} /\ started \in 0..MaxSessions
                   /\ handshake_established \in BOOLEAN /\ exited \in BOOLEAN
                   /\ step \in 0..7 /\ (step > 0 => proc = "running")
           Wires == /\ toStick' \in Seq(Mock!HostMessage) /\ toHost' \in Seq(Mock!DeviceMessage)
                    /\ faults' \in Nat
<1>7. SUFFICES Proc' /\ Wires
  BY <1>2 DEF Mock!TypeOK, Mock!LinkTypeOK, Mock!Progress
<1>8. CASE Mock!Start
  <2>1. UNCHANGED <<step, toStick, toHost, faults>>
    BY <1>8 DEF Mock!Start, Mock!linkVars
  <2>2. proc' = "running" /\ started' = started + 1 /\ started < MaxSessions
        /\ handshake_established' = FALSE /\ exited' = FALSE
    BY <1>8 DEF Mock!Start
  <2>3. started' \in 0..MaxSessions
    BY <1>0, <2>2
  <2>4. Wires
    BY <1>1, <2>1
  <2>5. Proc'
    BY <1>0, <2>1, <2>2, <2>3
  <2> QED BY <2>4, <2>5
<1>9. CASE Mock!SendHello
  <2>1. toStick' \in Seq(Mock!HostMessage)
    BY <1>0, <1>4, <1>5, <1>9 DEF Mock!SendHello, Mock!Writes, Mock!handshake_nonce
  <2> QED BY <1>0, <1>1, <1>9, <2>1 DEF Mock!SendHello, Mock!Writes, Mock!mockVars
<1>10. CASE Mock!SendSnapshot
  <2>1. toStick' \in Seq(Mock!HostMessage)
    BY <1>0, <1>4, <1>5, <1>10 DEF Mock!SendSnapshot, Mock!Writes, Mock!handshake_nonce
  <2> QED BY <1>0, <1>1, <1>10, <2>1 DEF Mock!SendSnapshot, Mock!Writes, Mock!mockVars
<1>11. CASE Mock!ReadOther
  BY <1>0, <1>1, <1>6, <1>11 DEF Mock!ReadOther, Mock!Reads, Mock!Readable, Mock!Acknowledges
<1>12. CASE Mock!ReadRequest
  <2>1. toStick' \in Seq(Mock!HostMessage)
    BY <1>0, <1>4, <1>5, <1>12 DEF Mock!ReadRequest, Mock!Writes, Mock!handshake_nonce
  <2> QED BY <1>0, <1>1, <1>6, <1>12, <2>1
          DEF Mock!ReadRequest, Mock!Reads, Mock!Readable, Mock!Writes, Mock!RequestStep,
              Mock!InLoop
<1>13. CASE Mock!Plays
  <2>1. step \in 1..7
    BY <1>0, <1>13 DEF Mock!Plays
  <2>2. Mock!Progress[step] \in Mock!ShutdownPhase
    BY <2>1 DEF Mock!Progress, Mock!ShutdownPhase
  <2> DEFINE m == Mock!HostFrame(Mock!Progress[step], started, 0)
  <2>4. toStick' = Mock!PutHost(m)
    BY <1>13 DEF Mock!Plays, Mock!Writes, Mock!handshake_nonce
  <2>6. started \in Nat /\ 0 \in Nat
    BY <1>0
  <2>5. m \in Mock!HostMessage
    <3> DEFINE kind == Mock!Progress[step]
    <3>1. kind \in {"Hello", "HealthSnapshot", "ShutdownAccepted"} \cup Mock!ShutdownPhase
      BY <2>2
    <3> HIDE DEF kind
    <3>2. Mock!HostFrame(kind, started, 0) \in Mock!HostMessage
      BY <1>5, <2>6, <3>1
    <3> QED BY <3>2 DEF kind
  <2>3. toStick' \in Seq(Mock!HostMessage)
    <3> HIDE DEF m
    <3> QED BY <1>4, <2>4, <2>5
  <2> HIDE DEF m
  <2>7. Wires
    BY <1>1, <1>13, <2>3 DEF Mock!Plays, Mock!Writes
  <2>8. UNCHANGED <<started, handshake_established>>
    BY <1>13 DEF Mock!Plays
  <2>9. CASE step < 7
    <3>1. step' = step + 1 /\ UNCHANGED <<proc, exited>>
      BY <1>0, <1>13, <2>9 DEF Mock!Plays
    <3> QED BY <1>0, <2>1, <2>7, <2>8, <2>9, <3>1
  <2>10. CASE step = 7
    <3>1. step' = 0 /\ proc' = "down" /\ exited' = TRUE
      BY <1>0, <1>13, <2>10 DEF Mock!Plays
    <3> QED BY <1>0, <2>7, <2>8, <3>1
  <2> QED BY <2>1, <2>9, <2>10
<1>14. CASE Mock!Stops
  <2>1. toStick' = toStick \/ toStick' = Mock!PutHost(Mock!HostNoise("Fragment"))
    BY <1>14 DEF Mock!Stops
  <2>2. toStick' \in Seq(Mock!HostMessage)
    BY <1>1, <1>3, <1>4, <2>1
  <2> QED BY <1>0, <1>1, <1>14, <2>2 DEF Mock!Stops, Mock!Fault
<1>15. CASE Mock!LosesInput
  BY <1>0, <1>1, <1>6, <1>15 DEF Mock!LosesInput, Mock!mockVars
<1> QED BY <1>8, <1>9, <1>10, <1>11, <1>12, <1>13, <1>14, <1>15 DEF Mock!MockStep

\* The rest of a wire, and its front.
LEMMA CutPasses ==
    ASSUME NEW M, NEW w \in Seq(M)
    PROVE  /\ Passes(w, w, 0)
           /\ w # <<>> => Passes(Tail(w), w, 1)
           /\ \A k \in 0..Len(w) : Passes(SubSeq(w, k + 1, Len(w)), w, k)
           /\ \A j \in 0..Len(w) : Passes(SubSeq(w, 1, j), w, 0)
           /\ \A j \in 0..Len(w) : \A m \in M :
                m.kind \notin Said => Passes(Append(SubSeq(w, 1, j), m), w, 0)
<1>1. Passes(w, w, 0)
  BY DEF Passes
<1>2. w # <<>> => Passes(Tail(w), w, 1)
  BY DEF Passes
<1>3. ASSUME NEW k \in 0..Len(w) PROVE Passes(SubSeq(w, k + 1, Len(w)), w, k)
  <2> DEFINE t == SubSeq(w, k + 1, Len(w))
  <2>1. Len(t) = Len(w) - k /\ \A i \in 1..Len(w) - k : t[i] = w[i + k]
    OBVIOUS
  <2> HIDE DEF t
  <2>2. Passes(t, w, k)
    BY <2>1 DEF Passes
  <2> QED BY <2>2 DEF t
<1>4. ASSUME NEW j \in 0..Len(w)
      PROVE  /\ Passes(SubSeq(w, 1, j), w, 0)
             /\ \A m \in M : m.kind \notin Said => Passes(Append(SubSeq(w, 1, j), m), w, 0)
  <2> DEFINE t == SubSeq(w, 1, j)
  <2>1. t \in Seq(M) /\ Len(t) = j /\ \A i \in 1..j : t[i] = w[i]
    OBVIOUS
  <2> HIDE DEF t
  <2>2. Passes(t, w, 0)
    BY <2>1 DEF Passes
  <2>3. ASSUME NEW m \in M, m.kind \notin Said PROVE Passes(Append(t, m), w, 0)
    <3>1. /\ Len(Append(t, m)) = j + 1 /\ Append(t, m)[j + 1] = m
          /\ \A i \in 1..j : Append(t, m)[i] = w[i]
      BY <2>1
    <3> QED BY <2>3, <3>1 DEF Passes
  <2> QED BY <2>2, <2>3 DEF t
<1> QED BY <1>1, <1>2, <1>3, <1>4

\* A frame that carries nothing of the session does not disturb the order.
LEMMA QuietWrite ==
    ASSUME NEW w \in Seq(Mock!HostMessage), NEW m \in Mock!HostMessage, m.kind \notin Said
    PROVE  Passes(Mock!Put(w, m, Mock!HostNoise("Garbled")), w, 0)
<1>1. Mock!HostNoise("Garbled") \in Mock!HostMessage /\ Mock!HostNoise("Garbled").kind = "Garbled"
  BY MockFrameTypes DEF Mock!HostNoise, Mock!HostFrame, Mock!NoiseKinds
<1>2. SubSeq(w, 1, Len(w)) = w /\ Len(w) \in 0..Len(w)
  OBVIOUS
<1>3. Passes(Append(w, m), w, 0)
  BY <1>2, CutPasses
<1> HIDE DEF Passes
<1> QED BY <1>1, <1>3, PutLast

\* The mock host draws a nonce greater than all before, and writes what it may.
LEMMA MockProcessOrder ==
    ASSUME MockInv, Mock!Start \/ Mock!MockStep \/ Mock!Stops \/ Mock!LosesInput,
           UNCHANGED Mock!stickVars
    PROVE  MockInv'
<1>0. /\ Mock!TypeOK /\ Mock!TypeOK'
      /\ UNCHANGED <<daemon_session, queue>>
      /\ toStick \in Seq(Mock!HostMessage) /\ toHost \in Seq(Mock!DeviceMessage)
      /\ started \in Nat /\ started' \in Nat /\ daemon_session \in Nat
  BY MockProcessTypes DEF MockInv, Mock!stickVars, Mock!TypeOK, Mock!LinkTypeOK, Mock!StickTypeOK
<1>1. \A k \in {"Hello", "HealthSnapshot", "ShutdownAccepted"} \cup Mock!ShutdownPhase : \A p \in Nat :
        Mock!HostFrame(k, started, p) \in Mock!HostMessage
        /\ Mock!HostFrame(k, started, p).kind = k /\ Mock!HostFrame(k, started, p).session = started
  BY <1>0, MockFrameTypes DEF Mock!SessionKinds, Mock!HostFrame
<1>2. Passes(toStick, toStick, 0) /\ 0 \in Nat
  BY <1>0, CutPasses
<1>3. proc = "running" => started # 0
  BY DEF MockInv
<1>4. CASE Mock!Start
  <2>1. started' = started + 1 /\ handshake_established' = FALSE /\ UNCHANGED <<toStick, toHost>>
    BY <1>4 DEF Mock!Start, Mock!linkVars
  <2>2. InOrder(toStick', daemon_session', started')
    BY <1>0, <2>1 DEF MockInv, InOrder
  <2>3. ASSUME NEW s \in Nat \ {0}, TakenUp(s)' PROVE s <= started' /\ NoneOlder(s)'
    <3>1. TakenUp(s)
      BY <1>0, <2>1, <2>3 DEF TakenUp
    <3> QED BY <1>0, <2>1, <3>1 DEF MockInv, NoneOlder
  <2> QED BY <1>0, <2>1, <2>2, <2>3 DEF MockInv
<1>5. CASE Mock!SendHello
  BY <1>0, <1>1, <1>3, <1>5, WriteKeepsOrder
     DEF Mock!SendHello, Mock!Writes, Mock!handshake_nonce, Mock!InLoop, Mock!mockVars
<1>6. CASE Mock!SendSnapshot
  BY <1>0, <1>1, <1>3, <1>6, WriteKeepsOrder
     DEF Mock!SendSnapshot, Mock!Writes, Mock!handshake_nonce, Mock!InLoop, Mock!mockVars,
         Mock!MaySend
<1>7. CASE Mock!ReadOther
  <2>1. /\ toHost # <<>> /\ toHost' = Tail(toHost) /\ UNCHANGED <<proc, started, toStick>>
        /\ handshake_established' = (handshake_established \/ Mock!Acknowledges(Head(toHost)))
    BY <1>7 DEF Mock!ReadOther, Mock!Reads, Mock!Readable
  <2>2. Mock!Acknowledges(Head(toHost)) => Tells(toHost, "Hello", started)
    BY <1>0, <2>1 DEF Tells, Mock!Acknowledges, Mock!handshake_nonce
  <2>3. \A s : Tells(toHost', "Hello", s) => Tells(toHost, "Hello", s)
    BY <1>0, <2>1 DEF Tells
  <2>4. \A s : TakenUp(s)' => TakenUp(s)
    BY <1>0, <2>1, <2>2, <2>3, Zenon DEF TakenUp
  <2> QED BY <1>0, <1>2, <2>1, <2>4, NothingNewer
<1>8. CASE Mock!ReadRequest
  <2> DEFINE m == Mock!HostFrame("ShutdownAccepted", started, 0)
  <2>1. /\ toHost # <<>> /\ toHost' = Tail(toHost) /\ toStick' = Mock!PutHost(m)
        /\ UNCHANGED <<proc, started, handshake_established>>
    BY <1>8 DEF Mock!ReadRequest, Mock!Reads, Mock!Readable, Mock!Writes, Mock!handshake_nonce
  <2>2. m \in Mock!HostMessage /\ m.kind \notin Said
    BY <1>1 DEF Said
  <2> HIDE DEF m
  <2>3. Passes(toStick', toStick, 0)
    BY <1>0, <2>1, <2>2, QuietWrite DEF Mock!PutHost
  <2>4. \A s : Tells(toHost', "Hello", s) => Tells(toHost, "Hello", s)
    BY <1>0, <2>1 DEF Tells
  <2>5. \A s : Tells(toStick', "HealthSnapshot", s) => Tells(toStick, "HealthSnapshot", s)
    BY <2>3 DEF Tells, Passes, Said
  <2>6. \A s : TakenUp(s)' => TakenUp(s)
    BY <1>0, <2>1, <2>4, <2>5, Zenon DEF TakenUp
  <2> QED BY <1>0, <1>2, <2>1, <2>3, <2>6, NothingNewer
<1>9. CASE Mock!Plays \/ Mock!Stops
  <2>1. /\ proc' \in {proc, "down"} /\ UNCHANGED <<started, handshake_established, toHost>>
        /\ \/ toStick' = toStick
           \/ toStick' = Mock!PutHost(Mock!HostNoise("Fragment"))
           \/ step > 0 /\ toStick' = Mock!PutHost(Mock!HostFrame(Mock!Progress[step], started, 0))
    BY <1>9 DEF Mock!Plays, Mock!Stops, Mock!Writes, Mock!handshake_nonce
  <2>2. Mock!HostNoise("Fragment") \in Mock!HostMessage /\ Mock!HostNoise("Fragment").kind \notin Said
    BY MockFrameTypes DEF Mock!NoiseKinds, Mock!HostNoise, Mock!HostFrame, Said
  <2>3. ASSUME step > 0
        PROVE  /\ Mock!HostFrame(Mock!Progress[step], started, 0) \in Mock!HostMessage
               /\ Mock!HostFrame(Mock!Progress[step], started, 0).kind \notin Said
    <3> DEFINE kind == Mock!Progress[step]
    <3>1. step \in 1..7
      BY <2>3 DEF MockInv, Mock!TypeOK, Mock!Progress
    <3>2. kind \in Mock!ShutdownPhase
      BY <3>1 DEF Mock!Progress, Mock!ShutdownPhase
    <3> HIDE DEF kind
    <3>3. Mock!HostFrame(kind, started, 0) \in Mock!HostMessage
          /\ Mock!HostFrame(kind, started, 0).kind \notin Said
      BY <1>1, <3>2 DEF Said, Mock!ShutdownPhase
    <3> QED BY <3>3 DEF kind
  <2>4. Passes(toStick', toStick, 0)
    <3> HIDE DEF Passes
    <3> QED BY <1>0, <1>2, <2>1, <2>2, <2>3, QuietWrite DEF Mock!PutHost
  <2>5. \A s : Tells(toStick', "HealthSnapshot", s) => Tells(toStick, "HealthSnapshot", s)
    BY <2>4 DEF Tells, Passes, Said
  <2>6. \A s : TakenUp(s)' => TakenUp(s)
    BY <1>0, <2>1, <2>5, Zenon DEF TakenUp
  <2> QED BY <1>0, <1>2, <2>1, <2>4, <2>6, NothingNewer
<1>10. CASE Mock!LosesInput
  <2>1. /\ toHost # <<>> /\ toHost' = Tail(toHost)
        /\ UNCHANGED <<proc, started, handshake_established, toStick>>
    BY <1>10 DEF Mock!LosesInput, Mock!mockVars
  <2>2. \A s : Tells(toHost', "Hello", s) => Tells(toHost, "Hello", s)
    BY <1>0, <2>1 DEF Tells
  <2>3. \A s : TakenUp(s)' => TakenUp(s)
    BY <1>0, <2>1, <2>2, Zenon DEF TakenUp
  <2> QED BY <1>0, <1>2, <2>1, <2>3, NothingNewer
<1> QED BY <1>4, <1>5, <1>6, <1>7, <1>8, <1>9, <1>10 DEF Mock!MockStep

\* The stick takes up a session from the front of the wire, or none.
LEMMA MockStickOrder ==
    ASSUME MockInv, Mock!StickNext,
           UNCHANGED <<proc, started, handshake_established, step, exited>>
    PROVE  MockInv'
<1>0. /\ Mock!TypeOK /\ Mock!TypeOK'
      /\ toStick \in Seq(Mock!HostMessage) /\ toHost \in Seq(Mock!DeviceMessage)
      /\ queue \in Seq(Mock!DeviceMessage) /\ Len(queue) <= QueueCap
      /\ toStick' \in Seq(Mock!HostMessage)
      /\ started \in Nat /\ daemon_session \in Nat
      /\ Mock!NoSession = 0
  BY MockStickTypes DEF MockInv, Mock!TypeOK, Mock!LinkTypeOK, Mock!StickTypeOK, Mock!NoSession
<1>1. \A k \in {"Hello", "ShutdownRequested"}, s \in Nat :
        Mock!DeviceFrame(k, s) \in Mock!DeviceMessage
        /\ Mock!DeviceFrame(k, s).kind = k /\ Mock!DeviceFrame(k, s).session = s
  BY MockFrameTypes DEF Mock!DeviceFrame
<1>2. Passes(toStick, toStick, 0) /\ (toStick # <<>> => Passes(Tail(toStick), toStick, 1))
      /\ 0 \in Nat /\ 1 \in Nat
  BY <1>0, CutPasses
<1>3. ASSUME NEW k \in Nat, Passes(toStick', toStick, k)
      PROVE  \A s : Tells(toStick', "HealthSnapshot", s) => Tells(toStick, "HealthSnapshot", s)
  BY <1>3 DEF Tells, Passes, Said
<1>4. CASE Mock!TxPoll
  <2>1. queue # <<>> /\ queue' = Tail(queue) /\ toHost' = Mock!PutDevice(Head(queue))
        /\ UNCHANGED <<toStick, daemon_session>>
    BY <1>4 DEF Mock!TxPoll
  <2>2. \A s : Tells(toHost', "Hello", s) => Tells(toHost, "Hello", s) \/ Tells(queue, "Hello", s)
    <3>1. Head(queue) \in Mock!DeviceMessage /\ Head(queue) = queue[1] /\ 1 \in 1..Len(queue)
          /\ Mock!DeviceNoise("Garbled") \in Mock!DeviceMessage
          /\ Mock!DeviceNoise("Garbled").kind = "Garbled"
      BY <1>0, <2>1, MockFrameTypes DEF Mock!NoiseKinds, Mock!DeviceNoise, Mock!DeviceFrame
    <3>2. Passes(toHost', toHost, 0) \/ toHost' = Append(toHost, Head(queue))
      BY <1>0, <2>1, <3>1, PutLast DEF Mock!PutDevice
    <3>3. CASE Passes(toHost', toHost, 0)
      BY <3>3 DEF Tells, Passes, Said
    <3>4. CASE toHost' = Append(toHost, Head(queue))
      BY <1>0, <3>1, <3>4 DEF Tells
    <3> QED BY <3>2, <3>3, <3>4
  <2>3. \A s : Tells(queue', "Hello", s) => Tells(queue, "Hello", s)
    BY <1>0, <2>1 DEF Tells
  <2>4. \A s : TakenUp(s)' => TakenUp(s)
    BY <2>1, <2>2, <2>3, Zenon DEF TakenUp
  <2> QED BY <1>0, <1>2, <2>1, <2>4, NothingNewer
<1>5. ASSUME queue' = queue \/ queue' = Mock!Enqueue(queue, Mock!DeviceFrame("Hello", daemon_session))
                \/ queue' = Mock!Enqueue(queue, Mock!DeviceFrame("ShutdownRequested", daemon_session)),
             toHost' = toHost, daemon_session' \in {daemon_session, Mock!NoSession},
             toStick' = toStick \/ (toStick # <<>> /\ toStick' = Tail(toStick))
      PROVE  MockInv'
  <2>1. PICK k \in Nat : Passes(toStick', toStick, k)
    BY <1>2, <1>5
  <2>2. \A s : Tells(queue', "Hello", s) => Tells(queue, "Hello", s) \/ s = daemon_session
    BY <1>0, <1>1, <1>5, EnqueueTells
  <2>3. \A s : TakenUp(s)' => TakenUp(s) \/ s = daemon_session
    BY <1>3, <1>5, <2>1, <2>2, Zenon DEF TakenUp
  <2> QED BY <1>0, <1>5, <2>1, <2>3, NothingNewer
<1>6. CASE \/ Mock!HelloTimer \/ Mock!IgnoreFrame \/ Mock!ReceiveForeign \/ Mock!ReceiveSnapshot
           \/ Mock!ReceiveDisplayConfig \/ Mock!ReceiveNetworkConfig \/ Mock!ReceiveProgress
           \/ Mock!ReceiveFailure \/ Mock!LinkTimeout \/ Mock!ShutdownTimeout \/ Mock!NextScreen
           \/ Mock!LongPress
  BY <1>5, <1>6
     DEF Mock!HelloTimer, Mock!IgnoreFrame, Mock!ReceiveForeign, Mock!ReceiveSnapshot,
         Mock!ReceiveDisplayConfig, Mock!ReceiveNetworkConfig, Mock!ReceiveProgress,
         Mock!ReceiveFailure, Mock!LinkTimeout, Mock!ShutdownTimeout, Mock!NextScreen,
         Mock!LongPress, Mock!Receive, Mock!Readable
<1>7. CASE Mock!ReceiveHello
  <2> DEFINE n == Head(toStick).session
  <2>1. /\ toStick # <<>> /\ toStick[1].kind = "Hello" /\ toStick' = Tail(toStick)
        /\ n = toStick[1].session /\ toHost' = toHost /\ daemon_session' = n
        /\ queue' = Mock!Enqueue(queue, Mock!DeviceFrame("Hello", n))
    BY <1>0, <1>7 DEF Mock!ReceiveHello, Mock!Receive, Mock!Readable, Mock!AdoptedSession
  <2>2. InOrder(toStick, daemon_session, started) /\ 1 \in 1..Len(toStick)
    BY <1>0, <2>1 DEF MockInv
  <2>3. n \in 1..started
    BY <2>1, <2>2 DEF InOrder, Said
  <2> HIDE DEF n
  <2>4. Passes(toStick', toStick, 1)
    BY <1>2, <2>1
  <2>5. \A i \in 1..Len(toStick') : toStick'[i].kind \in Said
          => /\ i + 1 \in 1..Len(toStick) /\ toStick'[i] = toStick[i + 1]
             /\ n <= toStick[i + 1].session /\ toStick[i + 1].session \in 1..started
    BY <2>1, <2>2, <2>4 DEF InOrder, Passes, Said
  <2>6. ASSUME NEW i \in 1..Len(toStick'), NEW j \in 1..Len(toStick'), i < j,
               toStick'[i].kind \in Said, toStick'[j].kind \in Said
        PROVE  toStick'[i].session <= toStick'[j].session
    <3>1. /\ i + 1 \in 1..Len(toStick) /\ toStick'[i] = toStick[i + 1]
          /\ j + 1 \in 1..Len(toStick) /\ toStick'[j] = toStick[j + 1]
      BY <2>5, <2>6
    <3>2. i + 1 < j + 1
      BY <2>6
    <3> QED BY <2>2, <2>6, <3>1, <3>2 DEF InOrder
  <2>7. InOrder(toStick', n, started)
    BY <2>5, <2>6 DEF InOrder
  <2>8. ASSUME NEW s, Tells(queue', "Hello", s) PROVE Tells(queue, "Hello", s) \/ s = n
    <3> DEFINE m == Mock!DeviceFrame("Hello", n)
    <3>1. m \in Mock!DeviceMessage /\ m.session = n
      BY <1>0, <1>1, <2>3
    <3>2. Tells(Mock!Enqueue(queue, m), "Hello", s)
      BY <2>1, <2>8
    <3> HIDE DEF m
    <3> QED BY <1>0, <3>1, <3>2, EnqueueTells
  <2>9. \A s : TakenUp(s)' => TakenUp(s) \/ s = n
    BY <1>2, <1>3, <2>1, <2>4, <2>8, Zenon DEF TakenUp
  <2>10. ASSUME NEW s \in Nat \ {0}, TakenUp(s)' PROVE s <= started /\ s <= n
    <3>1. CASE s = n
      BY <2>3, <3>1
    <3>2. CASE TakenUp(s)
      BY <2>1, <2>2, <3>2 DEF MockInv, NoneOlder
    <3> QED BY <2>9, <2>10, <3>1, <3>2
  <2>11. ASSUME NEW s \in Nat \ {0}, TakenUp(s)' PROVE s <= started' /\ NoneOlder(s)'
    <3>1. s <= started /\ s <= n
      BY <2>10, <2>11
    <3>2. \A i \in 1..Len(toStick') : toStick'[i].kind = "Hello" => s <= toStick'[i].session
      BY <2>3, <2>5, <3>1 DEF Said
    <3> QED BY <2>1, <3>1, <3>2 DEF NoneOlder
  <2>12. daemon_session' <= started'
    BY <2>1, <2>3
  <2>13. InOrder(toStick', daemon_session', started')
    BY <2>1, <2>7
  <2> HIDE DEF InOrder, TakenUp, NoneOlder
  <2> QED BY <1>0, <2>11, <2>12, <2>13 DEF MockInv
<1>8. CASE Mock!StickReboot
  <2>1. PICK k \in 0..Len(toStick) : toStick' = SubSeq(toStick, k + 1, Len(toStick))
    BY <1>8 DEF Mock!StickReboot
  <2>2. Passes(toStick', toStick, k) /\ k \in Nat
    BY <1>0, <2>1, CutPasses
  <2>3. PICK j \in 0..Len(toHost) :
          \/ toHost' = SubSeq(toHost, 1, j)
          \/ toHost' = Append(SubSeq(toHost, 1, j), Mock!DeviceNoise("Fragment"))
    BY <1>8 DEF Mock!StickReboot
  <2>4. Mock!DeviceNoise("Fragment") \in Mock!DeviceMessage /\ Mock!DeviceNoise("Fragment").kind \notin Said
    BY MockFrameTypes DEF Mock!NoiseKinds, Mock!DeviceNoise, Mock!DeviceFrame, Said
  <2>5. Passes(toHost', toHost, 0)
    BY <1>0, <2>3, <2>4, CutPasses
  <2>6. \A s : Tells(toHost', "Hello", s) => Tells(toHost, "Hello", s)
    BY <2>5 DEF Tells, Passes, Said
  <2>7. \A s : Tells(queue', "Hello", s) => s = 0
    BY <1>1, <1>8 DEF Mock!StickReboot, Mock!NoSession, Tells
  <2>8. daemon_session' = 0
    BY <1>8 DEF Mock!StickReboot, Mock!NoSession
  <2>9. \A s \in Nat \ {0} : TakenUp(s)' => TakenUp(s)
    BY <1>3, <2>2, <2>6, <2>7, Zenon DEF TakenUp
  <2> QED BY <1>0, <2>2, <2>8, <2>9, NothingNewer
<1> QED BY <1>4, <1>6, <1>7, <1>8 DEF Mock!StickNext

\* MockInv holds from the start.
LEMMA MockStarts == HostInit => MockInv
<1> SUFFICES ASSUME HostInit PROVE MockInv
  OBVIOUS
<1>1. Mock!Init
  BY DEF HostInit
<1>2. Mock!DeviceFrame("Hello", 0) \in Mock!DeviceMessage
      /\ Mock!DeviceFrame("Hello", 0).session = 0
  BY MockFrameTypes DEF Mock!DeviceFrame
<1>3. Mock!LinkTypeOK /\ toStick = <<>> /\ toHost = <<>>
  BY <1>1, MockAssumed DEF Mock!Init, Mock!LinkInit, Mock!LinkTypeOK
<1>4. queue = <<Mock!DeviceFrame("Hello", 0)>> /\ daemon_session = 0
  BY <1>1 DEF Mock!Init, Mock!StickInit, Mock!NoSession
<1>5. queue \in Seq(Mock!DeviceMessage) /\ Len(queue) = 1
  BY <1>2, <1>4
<1>6. Mock!StickTypeOK
  <2>1. /\ daemon = "Waiting" /\ last_update = FALSE /\ display_pages = 1 /\ page = 0
        /\ web_manifest = 0 /\ shutdown_display = "Accepted" /\ presses = MaxPresses
    BY <1>1 DEF Mock!Init, Mock!StickInit
  <2>2. Len(queue) <= QueueCap /\ presses \in Nat
    BY <1>5, <2>1, MockAssumed
  <2> QED BY <1>4, <1>5, <2>1, <2>2 DEF Mock!StickTypeOK, Mock!DaemonState, Mock!ShutdownDisplay
<1>7. Mock!TypeOK
  <2>1. /\ proc = "down" /\ started = 0 /\ handshake_established = FALSE /\ step = 0
        /\ exited = FALSE
    BY <1>1 DEF Mock!Init
  <2>2. started \in 0..MaxSessions
    BY <2>1, MockAssumed DEF Mock!MockAssumption
  <2>3. Len(Mock!Progress) = 7
    BY DEF Mock!Progress
  <2>4. step \in 0..Len(Mock!Progress) /\ ~(step > 0)
    BY <2>1, <2>3
  <2>5. proc \in {"down", "running"} /\ handshake_established \in BOOLEAN /\ exited \in BOOLEAN
    BY <2>1
  <2> QED BY <1>3, <1>6, <2>2, <2>4, <2>5, Zenon DEF Mock!TypeOK
<1>8. \A s \in Nat \ {0} : ~TakenUp(s)
  BY <1>1, <1>2, <1>3, <1>4, <1>5 DEF TakenUp, Tells, Mock!Init
<1>9. InOrder(toStick, daemon_session, started)
  BY <1>3 DEF InOrder
<1> HIDE DEF TakenUp, InOrder
<1> QED BY <1>1, <1>4, <1>7, <1>8, <1>9 DEF MockInv, Mock!Init

\* The mock host on the other end of the link: whatever an earlier start has left on the
\* wire, the stick shows sample data only in the session it was sent in.
THEOREM SamplesInSession == HostSpec => []Mock!TypeOK /\ Mock!SnapshotScoped
<1> DEFINE allVars == <<readerVars, framesVars, programVars, linkVars, mockVars, part>>
<1>1. HostInit => MockInv
  BY MockStarts
<1>2. ASSUME MockInv, [HostNext]_allVars PROVE MockInv'
  <2>1. Mock!Next \/ UNCHANGED mockVars
    BY <1>2 DEF HostNext
  <2>2. CASE Mock!Next
    BY <1>2, <2>2, MockProcessOrder, MockStickOrder DEF Mock!Next, Mock!mockVars
  <2>3. CASE UNCHANGED mockVars
    BY <1>2, <2>3 DEF mockVars, MockInv, InOrder, TakenUp, NoneOlder, Tells, Mock!TypeOK,
                      Mock!LinkTypeOK, Mock!StickTypeOK
  <2> QED BY <2>1, <2>2, <2>3
<1>3. MockInv /\ Mock!ReceiveSnapshot => Head(toStick).session = daemon_session
  <2> SUFFICES ASSUME MockInv, Mock!ReceiveSnapshot PROVE Head(toStick).session = daemon_session
    OBVIOUS
  <2>1. /\ toStick \in Seq(Mock!HostMessage) /\ toStick # <<>> /\ toStick[1].kind = "HealthSnapshot"
        /\ Head(toStick) = toStick[1] /\ 1 \in 1..Len(toStick) /\ daemon_session # Mock!NoSession
        /\ daemon_session \in Nat
    BY DEF MockInv, Mock!TypeOK, Mock!LinkTypeOK, Mock!StickTypeOK, Mock!ReceiveSnapshot,
           Mock!Receive, Mock!Readable, Mock!InSession
  <2>2. toStick[1].session \in 1..started /\ daemon_session <= toStick[1].session
    BY <2>1 DEF MockInv, InOrder, Said
  <2>3. TakenUp(toStick[1].session)
    BY <2>1 DEF TakenUp, Tells
  <2>4. toStick[1].session <= daemon_session
    BY <2>1, <2>2, <2>3 DEF MockInv, NoneOlder
  <2> QED BY <2>1, <2>2, <2>4
<1>4. MockInv => Mock!TypeOK
  BY DEF MockInv
<1> QED BY <1>1, <1>2, <1>3, <1>4, PTL DEF HostSpec, Mock!SnapshotScoped

=============================================================================
