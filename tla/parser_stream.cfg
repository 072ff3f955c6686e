SPECIFICATION FairSpec
CONSTANTS
    Radix = 4
    Wide = 6
    Frames <- ShortAndMedium
    MaxFrames = 3
    Capacity = 12
INVARIANTS TypeOK BytesConserved
PROPERTIES ChannelSpec
CHECK_DEADLOCK FALSE
