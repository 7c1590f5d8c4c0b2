CONSTANTS
    c1 = c1
    c2 = c2
    h1 = h1
    h2 = h2
    None = None
    Clients <- MCClients
    Streams <- MCStreams
    Rates = {44}
    MaxChunks = 2
    MinBuffered = 0
    Slow <- MCStreams
SPECIFICATION Spec
INVARIANT NoneLeftStreaming
CHECK_DEADLOCK FALSE
