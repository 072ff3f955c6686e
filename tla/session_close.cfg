SPECIFICATION FairSpec
CONSTANTS
    client = client
    server = server
    Client = client
    Server = server
    Room = 1
    MaxNet = 2
PROPERTIES ConnectionsClose
CHECK_DEADLOCK FALSE
