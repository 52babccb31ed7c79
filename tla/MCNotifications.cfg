SPECIFICATION Spec
CONSTANTS
    N = 1
    Configs <- ThreeConfigs
    QueueCap = 2
    MaxFailures = 1
INVARIANTS NotificationsInv
