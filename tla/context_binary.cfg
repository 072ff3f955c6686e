SPECIFICATION Spec
CONSTANTS
    client = client
    server = server
    Node <- MCNode
    Initiator <- MCNode
    Registered <- WithZstd
    Accepts <- WithZstd
    OpenMayFail <- Nobody
    MaxSent <- EachCallOnce
INVARIANTS BinaryIntact
CHECK_DEADLOCK FALSE
