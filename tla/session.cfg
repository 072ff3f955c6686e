SPECIFICATION FairSpec
CONSTANTS
    client = client
    server = server
    Client = client
    Server = server
    Room = 1
    MaxNet = 2
INVARIANTS TypeOK TimeoutTellsPeer NothingOutstanding
PROPERTIES Reclaimed
CHECK_DEADLOCK FALSE
