\* When main has left and the event loop has ended, or the program has crashed, there is
\* nothing to do.
CONSTANTS
    Connections = {c1, c2, c3}
    maxConnections = 2
    MaxErrors = 1
    None = None
    MaxPolls = 1
SPECIFICATION FairSpec
INVARIANTS TypeOK HandlersHaveConnection Serves DiscoveryListens StopOrder
PROPERTY ShutdownEnds StopCleansUp
CHECK_DEADLOCK FALSE
