SPECIFICATION NetworkSpec
CONSTANTS
    Topics = {t1, t2}
    NoTopic = NoTopic
    NoManifest = NoManifest
    Manifests = {m1, m2, m3}
    TooBig = {m3}
    Http = {m1, m3}
    MaxResets = 2
    MaxFlashErrors = 2
    Ssids <- MCSsids
    Passwords <- MCPasswords
    Hostnames <- MCHostnames
    EnteredTopics <- MCTopics
    MaxName = 3
    MaxPassword = 2
    MaxTopic = 3
    MaxRequest = 40
    Addresses = {12, 13}
    MaxEvents = 6
    N = 1
    Configs <- WithoutRepeats
    QueueCap = 2
    MaxFailures = 1
INVARIANTS PersistenceInv SettingsSaved
PROPERTIES TopicReachesFlash FormKept AddressFollowed SettledStateKnown
CHECK_DEADLOCK FALSE
