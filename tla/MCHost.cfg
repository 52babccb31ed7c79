SPECIFICATION HostSpec
CONSTANTS
    N = 4
    Bytes = {1, 2}
    MaxSegment = 6
    Versions <- MCVersions
    Sessions = {0, 81, 16640, 268435455}
    VarintBytes = 4
    OldVersions = {1, 4, 5}
    MaxCuts = 2
    PipeCap = 2
    MaxOutput = 4
    Deadline = 4
    Faults = {"fork", "uninterruptible", "poll", "wait"}
    Interfaces = {1, 2, 3, 4, 5}
    Hosts <- MCHosts
    Tables <- MCTables
    IpAnswers <- MCIpAnswers
    WireCap = 2
    MaxFaults = 1
    FramePages = 1
    QueueCap = 1
    MaxPresses = 1
    MaxSessions = 2
INVARIANTS ReaderInv DecodedAsWritten
PROPERTIES FramesIntact WholeFrames OutputInTime UplinkFound MockServes
CHECK_DEADLOCK FALSE
