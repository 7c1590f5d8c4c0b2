\* Three buffers, two of which a chunk may need.  A session that was removed, with its
\* connection, has nothing to do; undefined behaviour ends the program.
CONSTANTS
    PoolSize = 3
    Reserve = 2
    MaxEncoded = 2
    MaxTail = 1
    MaxProduced = 4
    MaxStops = 2
SPECIFICATION FairSpec
INVARIANTS WritesFromQueue OneTransfer NoStall
PROPERTIES ImplementsAudioStream FlushEnds
CHECK_DEADLOCK FALSE
