SPECIFICATION Spec
CONSTANTS
    WireCap = 1
    MaxFaults = 0
    FramePages = 1
    GuestPages = {1}
    MaxSessions = 1
    AllowShutdown = TRUE
    QueueCap = 1
    MaxPresses = 1
PROPERTIES RequestDiesWithSession
