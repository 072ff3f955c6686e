SPECIFICATION Spec
CONSTANTS
    Radix = 4
    Wide = 6
    Frames <- Large
    MaxFrames = 2
    Capacity = 8
INVARIANTS FramesIntact
CHECK_DEADLOCK FALSE
