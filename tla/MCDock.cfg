\* Four requests, started, queued or put off, with reloads of the session.
CONSTANTS
    MaxRequests = 4
    ClicksWhileConnecting = FALSE
    Reloads = TRUE
    ImageFaults = FALSE
    PostedFirst = TRUE
SPECIFICATION DockFairSpec
CHECK_DEADLOCK FALSE
INVARIANTS
    DockTypeOK
    NoRequestVanishes
    RunsAtMostOnce
    StopMatchesRun
PROPERTIES
    WaitingRequestsGoOn
