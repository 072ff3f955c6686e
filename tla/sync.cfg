SPECIFICATION FairSpec
CONSTANTS
    client = client
    server = server
    Node <- MCNode
    Initiator = client
    MaxCalls = 4
INVARIANTS TypeOK NoReentry HandledOnce Settled
PROPERTIES CallsReturn StepsRunOut
CHECK_DEADLOCK FALSE
