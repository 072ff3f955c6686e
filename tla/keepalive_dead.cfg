SPECIFICATION FairSpec
CONSTANTS
    Periods <- OnePeriod
    MaxLag = 3
    MaxFlush = 1
    Horizon = 4
PROPERTIES DeadPeerDetected
CHECK_DEADLOCK FALSE
