SPECIFICATION FairSpec
CONSTANTS
    client = client
    server = server
    Node <- MCNode
    Initiator <- MCNode
    Registered <- WithZstd
    Accepts <- WithZstd
    OpenMayFail <- Nobody
    MaxSent <- TextsAndCloses
PROPERTIES CloseCompletes HandshakeCompletes StreamSpec
CHECK_DEADLOCK FALSE
