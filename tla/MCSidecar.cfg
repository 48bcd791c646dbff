\* Three requests with two session keys, two of them unanswered at a time.
CONSTANTS
    agent = agent
    compact = compact
    MaxRequests = 3
    Keys = {agent, compact}
    Overlap = TRUE
SPECIFICATION SidecarSpec
CHECK_DEADLOCK FALSE
INVARIANTS
    SidecarTypeOK
    ReusableIsOpen
    NoSessionLeak
    DoneIsAnswered
    PromptMeetsItsKey
    NobodyStalls
