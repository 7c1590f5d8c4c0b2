CONSTANTS
    c1 = c1
    c2 = c2
    h1 = h1
    h2 = h2
    None = None
    Clients <- MCClients
    Streams <- MCStreams
    Rates = {44, 48}
    MaxChunks = 3
    MinBuffered = 1
    Slow = {}
SPECIFICATION Spec
SYMMETRY MCSymmetry
INVARIANTS TypeOK HeadInStep RefValid DrainingEndsStream NoOrphanStream
PROPERTIES Contiguous StartTogether
CHECK_DEADLOCK FALSE
