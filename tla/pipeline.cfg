CONSTANTS
    NumSources = 3
    Capacity = 2
    Quantum = 2
SPECIFICATION FairSpec
INVARIANT TypeOK
PROPERTIES OneStreamAtATime RefusedIsNext Served PollsUntilStopped
CHECK_DEADLOCK FALSE
