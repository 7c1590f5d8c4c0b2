CONSTANTS
    c1 = c1
    c2 = c2
    h1 = h1
    h2 = h2
    None = None
    Clients <- MCClients
    Streams <- MCStreams
    Rates = {44}
    MaxChunks = 2
    MinBuffered = 0
    Slow = {h2}
SPECIFICATION FairSpec
INVARIANT InStep
PROPERTIES PreparingEnds PlayedOutDrains
CHECK_DEADLOCK FALSE
