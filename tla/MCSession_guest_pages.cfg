SPECIFICATION Spec
CONSTANTS
    WireCap = 2
    MaxFaults = 1
    FramePages = 2
    GuestPages = {1, 2}
    MaxSessions = 2
    AllowShutdown = TRUE
    QueueCap = 1
    MaxPresses = 0
PROPERTIES GuestPagesFollowGuests
