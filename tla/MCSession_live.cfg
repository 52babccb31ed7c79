SPECIFICATION FairSpec
CONSTANTS
    WireCap = 1
    MaxFaults = 1
    FramePages = 1
    GuestPages = {1}
    MaxSessions = 3
    AllowShutdown = TRUE
    QueueCap = 1
    MaxPresses = 1
PROPERTIES AlwaysReconnects
