\* One call at a time, as the agent controller makes them.
CONSTANTS
    MaxCalls = 3
    MaxDeltas = 2
    Overlap = FALSE
SPECIFICATION HttpFairSpec
CHECK_DEADLOCK FALSE
INVARIANTS
    HttpTypeOK
    CalledOnce
    AnswerIsOwnText
PROPERTIES
    CallsAreAnswered
