------------------------------ MODULE MCScreen ------------------------------
(* Values of Screen for TLC: the frames an iteration may find.             *)
EXTENDS Naturals

Frame(kind) == [kind |-> kind]
Progress(phase, total, remaining) ==
    [kind |-> "ShutdownProgress", phase |-> phase, total |-> total, remaining |-> remaining]

\* A guest may start after they were counted: 2 of 1 are left.
Frames ==
    { Frame("Hello"), Frame("UnsupportedVersion"), Frame("HealthSnapshot"), Frame("ShutdownAccepted"),
      Frame("DisplayConfig"), Progress("PreparingGuests", 0, 0), Progress("StoppingGuests", 1, 2),
      Progress("GuestsStopped", 2, 0), Progress("PoweringOff", 2, 1),
      [kind |-> "ShutdownFailed", remaining |-> 1] }

\* What opens the ABOUT screens: a session and the manifest of the dashboard.
AboutFrames == {<<>>, <<Frame("Hello")>>, <<[kind |-> "NetworkConfig", enabled |-> TRUE]>>}

\* Nothing, or a frame.
UpToOneFrame == {<<>>} \cup {<<m>> : m \in Frames}

\* Or two frames that are read in one iteration, the first of which opens the
\* session of the second, or has the stick leave the state the second finds it in.
UpToTwoFrames ==
    LET guests == Progress("StoppingGuests", 2, 2)
    IN  UpToOneFrame \cup
          {<<Frame("Hello"), Frame("HealthSnapshot")>>, <<Frame("Hello"), guests>>,
           <<Frame("HealthSnapshot"), guests>>}

=============================================================================
