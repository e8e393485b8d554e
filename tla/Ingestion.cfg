\* Two tasks, rebalances, pause and resume, poison messages, failures and crashes.
CONSTANTS
    k1 = k1
    t1 = t1
    t2 = t2
    NoTask = NoTask
    Tasks = {t1, t2}
    NumPartitions = 1
    Keys = {k1}
    Configs <- MCConfigs
    BatchMax = 2
    MaxRebalances = 1
    MaxRequests = 3
    MaxFaults = 1
SPECIFICATION FairSpec
INVARIANTS
    DeliveryInv RunningHasTask
PROPERTY
    TopicIsConsumed
