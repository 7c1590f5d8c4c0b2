CONSTANTS
    RingSize = 5
    ReadSize = 3
    InitialProbes = 1
    Skipped = 1
    Unsupported = FALSE
    MaxOthers = 3
    MaxWire = 2
    MaxCapacity = 4
SPECIFICATION FairSpec
INVARIANTS TypeOK Framed OneProbe OffsetMeasured
PROPERTY OffsetKnown
