SPECIFICATION Spec
CONSTANTS
    client = client
    server = server
    Node <- MCNode
    Initiator <- MCNode
    Registered <- WithZstd
    Accepts <- WithZstd
    OpenMayFail <- MCNode
    MaxSent <- MostCalls
INVARIANTS TypeOK AssertsHold CallbacksOnce CloseReachesPeer CloseFlushesTexts TextIntact
CHECK_DEADLOCK FALSE
