SPECIFICATION FairSpec
CONSTANTS
    Workers = {w1, w2}
    StaleAfter = 1
    MaxTransfer = 1
    Ports = {80}
    Oversize = {FALSE, TRUE}
    MaxFaults = 1
    MaxOthers = 1
INVARIANTS DashboardInv
PROPERTIES ServiceRecovers
