CONSTANTS
    Rates = {r44, r48}
    None = None
    HeaderSize = 1
    MaxChunks = 2
SPECIFICATION Spec
INVARIANT Dumped
CHECK_DEADLOCK FALSE
