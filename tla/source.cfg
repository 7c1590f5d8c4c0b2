CONSTANTS
    Capacity = 2
    MaxFrames = 3
SPECIFICATION FairSpec
PROPERTIES ImplementsChunkSource FramesKept EndDelivered StopEnds
CHECK_DEADLOCK FALSE
