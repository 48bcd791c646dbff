\* One request at a time as far as the plugin knows: a stop, then the next one.
CONSTANTS
    agent = agent
    compact = compact
    MaxRequests = 2
    Keys = {agent, compact}
    Overlap = FALSE
SPECIFICATION SidecarSpec
CHECK_DEADLOCK FALSE
INVARIANTS
    WantedSessionIsOpen
