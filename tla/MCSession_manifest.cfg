SPECIFICATION Spec
CONSTANTS
    WireCap = 2
    MaxFaults = 1
    FramePages = 2
    GuestPages = {1, 2, 3}
    MaxSessions = 2
    AllowShutdown = FALSE
    QueueCap = 1
    MaxPresses = 0
INVARIANTS PageExists
PROPERTIES SnapshotOverManifest
