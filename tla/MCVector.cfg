\* Two backends between which the settings change, one of whose requests fails.
CONSTANTS
    a = a
    b = b
    x = x
    off = off
    Files = {x}
    Backends = {a, b}
    Disabled = off
    Threads = 2
    MaxVersion = 2
    MaxMessages = 1
    MaxRefreshes = 2
    MaxFaults = 1
SPECIFICATION IndexingFairSpec
CHECK_DEADLOCK FALSE
INVARIANTS
    IndexingTypeOK
    StateIsBacked
    IndexIsCurrent
PROPERTIES
    QueuedWorkStarts
