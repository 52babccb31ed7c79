SPECIFICATION Spec
CONSTANTS
    WireCap = 2
    MaxFaults = 1
    FramePages = 1
    GuestPages = {1}
    MaxSessions = 3
    AllowShutdown = TRUE
    QueueCap = 2
    MaxPresses = 2
INVARIANTS TypeOK NoHalfOpenSession SessionInv
PROPERTIES NeverReplayed SessionScoped ImplementsService
