SPECIFICATION FairSpec
CONSTANTS
    Radix = 4
    Wide = 6
    Frames <- TooLong
    MaxFrames = 2
    Capacity = 12
PROPERTIES FramesArrive
CHECK_DEADLOCK FALSE
