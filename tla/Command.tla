------------------------------ MODULE Command -------------------------------
(***************************************************************************)
(* command_output (host/src/lib.rs): every command of the daemon runs as a *)
(* child process whose two outputs are read by two threads, while the      *)
(* caller polls for its exit and kills it at the deadline.                 *)
(*                                                                         *)
(* The child, its descendants and the pipes are the environment.  A pipe   *)
(* holds PipeCap pieces of output; a descendant of the child may hold its  *)
(* end of the pipes open, and a child in an uninterruptible system call    *)
(* (a dead disk or network file system) dies only when it returns.         *)
(***************************************************************************)
EXTENDS Naturals, FiniteSets

CONSTANTS PipeCap,     \* capacity of a pipe
          MaxOutput,   \* bound on the output of the child, on each pipe
          Deadline,    \* the timeout, in polls
          Faults       \* what may happen: the child may "fork" or be "uninterruptible", and
                       \* a "poll" of its state or the "wait" for it may fail

CommandAssumption ==
    /\ PipeCap \in Nat \ {0} /\ MaxOutput \in Nat /\ Deadline \in Nat
    /\ Faults \subseteq {"fork", "uninterruptible", "poll", "wait"}

Pipes == {"stdout", "stderr"}

VARIABLES child,        \* "running", "blocked" in a system call, "dying" or "gone"
          killed,       \* the caller killed it
          descendant,   \* a process that inherited the pipes is alive
          written,      \* output of the child, by pipe
          buffered,     \* the part of it that is in the pipe
          reader,       \* the threads: "reading" or "done"
          caller,       \* "polling", "waiting", "joining stdout", "joining stderr", "returned"
          polls,        \* polls since the start
          errors        \* the calls that have failed: "poll" (try_wait), "wait"

vars == <<child, killed, descendant, written, buffered, reader, caller, polls, errors>>

TypeOK ==
    /\ child \in {"running", "blocked", "dying", "gone"}
    /\ killed \in BOOLEAN /\ descendant \in BOOLEAN
    /\ written \in [Pipes -> 0..MaxOutput] /\ buffered \in [Pipes -> 0..PipeCap]
    /\ reader \in [Pipes -> {"reading", "done"}]
    /\ caller \in {"polling", "waiting", "joining stdout", "joining stderr", "returned"}
    /\ polls \in 0..Deadline /\ errors \subseteq {"poll", "wait"}

Init ==
    /\ child = "running" /\ killed = FALSE /\ descendant = FALSE
    /\ written = [p \in Pipes |-> 0] /\ buffered = [p \in Pipes |-> 0]
    /\ reader = [p \in Pipes |-> "reading"]
    /\ caller = "polling" /\ polls = 0 /\ errors = {}

-----------------------------------------------------------------------------
(* The child.                                                              *)

\* A write to a full pipe blocks.
ChildWrites(p) ==
    /\ child = "running" /\ written[p] < MaxOutput /\ buffered[p] < PipeCap
    /\ written' = [written EXCEPT ![p] = @ + 1]
    /\ buffered' = [buffered EXCEPT ![p] = @ + 1]
    /\ UNCHANGED <<child, killed, descendant, reader, caller, polls, errors>>

\* The child that has written all its output exits.
ChildExits ==
    /\ child = "running" /\ \A p \in Pipes : written[p] = MaxOutput
    /\ child' = "gone"
    /\ UNCHANGED <<killed, descendant, written, buffered, reader, caller, polls, errors>>

ChildForks ==
    /\ "fork" \in Faults /\ child = "running" /\ ~descendant
    /\ descendant' = TRUE
    /\ UNCHANGED <<child, killed, written, buffered, reader, caller, polls, errors>>

DescendantEnds ==
    /\ descendant
    /\ descendant' = FALSE
    /\ UNCHANGED <<child, killed, written, buffered, reader, caller, polls, errors>>

ChildBlocks ==
    /\ "uninterruptible" \in Faults /\ child = "running"
    /\ child' = "blocked"
    /\ UNCHANGED <<killed, descendant, written, buffered, reader, caller, polls, errors>>

\* The system call returns.
CallReturns ==
    /\ child \in {"blocked", "dying"}
    /\ child' = IF child = "blocked" THEN "running" ELSE "gone"
    /\ UNCHANGED <<killed, descendant, written, buffered, reader, caller, polls, errors>>

-----------------------------------------------------------------------------
(* The reader threads: read_to_end.                                        *)

Reads(p) ==
    /\ reader[p] = "reading" /\ buffered[p] > 0
    /\ buffered' = [buffered EXCEPT ![p] = @ - 1]
    /\ UNCHANGED <<child, killed, descendant, written, reader, caller, polls, errors>>

\* Mutant: an empty pipe is taken for the end of the output.
EndsWhenEmpty(p) ==
    /\ reader[p] = "reading" /\ buffered[p] = 0
    /\ reader' = [reader EXCEPT ![p] = "done"]
    /\ UNCHANGED <<child, killed, descendant, written, buffered, caller, polls, errors>>

\* End of file: the pipe is empty and nobody can write to it any more.
Ends(p) ==
    /\ reader[p] = "reading" /\ buffered[p] = 0 /\ child = "gone" /\ ~descendant
    /\ reader' = [reader EXCEPT ![p] = "done"]
    /\ UNCHANGED <<child, killed, descendant, written, buffered, caller, polls, errors>>

-----------------------------------------------------------------------------
(* The caller.                                                             *)

Exited ==
    /\ caller = "polling" /\ child = "gone"
    /\ caller' = "joining stdout"
    /\ UNCHANGED <<child, killed, descendant, written, buffered, reader, polls, errors>>

\* Mutant: the deadline is not looked at.
SleepsOn ==
    /\ caller = "polling" /\ child # "gone"
    /\ polls' = polls + 1
    /\ UNCHANGED <<child, killed, descendant, written, buffered, reader, caller, errors>>

Sleeps ==
    /\ caller = "polling" /\ child # "gone" /\ polls < Deadline
    /\ polls' = polls + 1
    /\ UNCHANGED <<child, killed, descendant, written, buffered, reader, caller, errors>>

\* Mutant: the child is waited for without being killed.
OnlyWaits ==
    /\ caller = "polling" /\ child # "gone" /\ polls >= Deadline
    /\ caller' = "waiting"
    /\ UNCHANGED <<child, killed, descendant, written, buffered, reader, polls, errors>>

\* Mutant: the child is killed at the first poll.
KillsAtOnce ==
    /\ caller = "polling" /\ child # "gone"
    /\ child' = "gone" /\ killed' = TRUE /\ caller' = "waiting"
    /\ UNCHANGED <<descendant, written, buffered, reader, polls, errors>>

\* `Ok(None) | Err(_)`: the deadline has passed, or try_wait fails, at any poll.
Kills ==
    /\ caller = "polling"
    /\ \/ child # "gone" /\ polls >= Deadline /\ errors' = errors
       \/ "poll" \in Faults /\ errors' = errors \cup {"poll"}
    /\ child' = IF child = "blocked" THEN "dying" ELSE "gone"
    /\ killed' = TRUE
    /\ caller' = "waiting"
    /\ UNCHANGED <<descendant, written, buffered, reader, polls>>

\* A wait that fails gives up the status, and with it the result, but not the readers:
\* the scope of the threads ends only when they do.
Waits ==
    /\ caller = "waiting"
    /\ \/ child = "gone" /\ errors' = errors
       \/ "wait" \in Faults /\ errors' = errors \cup {"wait"}
    /\ caller' = "joining stdout"
    /\ UNCHANGED <<child, killed, descendant, written, buffered, reader, polls>>

Joins ==
    /\ \/ caller = "joining stdout" /\ reader["stdout"] = "done" /\ caller' = "joining stderr"
       \/ caller = "joining stderr" /\ reader["stderr"] = "done" /\ caller' = "returned"
    /\ UNCHANGED <<child, killed, descendant, written, buffered, reader, polls, errors>>

Caller == Exited \/ Sleeps \/ Kills \/ Waits \/ Joins

Child == \/ \E p \in Pipes : ChildWrites(p)
         \/ ChildExits \/ ChildForks \/ DescendantEnds \/ ChildBlocks \/ CallReturns

Next == Caller \/ Child \/ \E p \in Pipes : Reads(p) \/ Ends(p)

\* Threads of the daemon are scheduled; the child need not do anything.
Fairness == WF_vars(Caller) /\ \A p \in Pipes : WF_vars(Reads(p) \/ Ends(p))

Spec == Init /\ [][Next]_vars /\ Fairness

-----------------------------------------------------------------------------
(* Properties.                                                             *)

\* The whole output is captured, also what is in the pipe when the child exits or is
\* killed: what command_output returns, if anything, is never a part of it.
OutputComplete == caller = "returned" => \A p \in Pipes : buffered[p] = 0

\* A child is killed only when the whole timeout has passed or its state could not be
\* asked for: one that is slow but well has all its time.
KilledAtDeadline == killed => polls = Deadline \/ "poll" \in errors

\* The call returns at its deadline, unless the child stays in a system call or a
\* descendant of it keeps a pipe open: neither a full pipe nor a child that never
\* exits holds it.
ReturnsWhenReleased ==
    <>[](~descendant /\ child \notin {"blocked", "dying"}) => <>(caller = "returned")

\* host/src/lib.rs: "Runs a child process with captured output and a hard deadline."
\* The call returns, whatever the child does.
HardDeadline == <>(caller = "returned")

=============================================================================
