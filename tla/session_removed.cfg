CONSTANTS
    PoolSize = 3
    Reserve = 2
    MaxEncoded = 2
    MaxTail = 0
    MaxProduced = 4
    MaxStops = 2
SPECIFICATION Spec
INVARIANTS DeferredCancelled
CHECK_DEADLOCK FALSE
