\* Chunks fit into the reserve, as those of up to 48 kHz do.  Bounded: a stream has three
\* chunks, then there is nothing to do.
CONSTANTS
    Sessions = {s1, s2}
    Channels = 2
    SampleSize = 4
    BitsPerValue = 32
    BlockFrames = 2
    PoolSize = 3
    BufferSize = 3
    Reserve = 2
    MaxFrames = 2
    MaxChunks = 3
SPECIFICATION Spec
INVARIANTS TypeOK Lossless
CHECK_DEADLOCK FALSE
