\* Two requests, one cancel_active() and two backend threads.
CONSTANTS
    MaxRequests = 2
    MaxCancels = 1
    Callbacks = {"STREAMING", "COMPLETED", "FAILED"}
    Reporters = {r1, r2}
SPECIFICATION SessionFairSpec
CHECK_DEADLOCK FALSE
INVARIANTS
    SessionTypeOK
    OneEndPerRequest
    AbandonedIsTold
    NothingStaleBegins
PROPERTIES
    EveryRequestEnds
