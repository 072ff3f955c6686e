SPECIFICATION FairSpec
CONSTANTS
    Periods <- MCPeriods
    MaxLag = 6
    MaxFlush = 3
    Horizon = 4
INVARIANTS TypeOK TimesOutOnlyLate
PROPERTIES PingSpacing PingsRecur
CHECK_DEADLOCK FALSE
