SPECIFICATION CollectorFairSpec
CONSTANTS
    Interval = 2
    SettleDelay = 2
    RetryDelay = 1
    FailuresBeforeFailed = 2
    MaxCount = 2
    MaxChanges = 2
    BadIds = {""}
    FramePages = 8
    Configs <- TriedConfigs
    MaxGuests = 9
    UpsReadings <- ThreeFlags
    BackupReadings <- FourHistories
    FilesystemReadings <- TwoUsages
    SmartReadings <- TwoDisks
    ResourceReadings <- UsualLoad
    Now = 48
INVARIANTS ProbeInv FailedForAReason CollectorInv LayoutInv
PROPERTIES FailedUntilReached LinkSettled VerdictReached
