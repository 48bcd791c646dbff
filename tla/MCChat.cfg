\* Agent mode scaled down: the window holds two messages more than the
\* refresh threshold leaves, enough for the two faults.
CONSTANTS
    c1 = c1
    r1 = r1
    none = none
    Conversations = {c1}
    Runs = {r1}
    NoConversation = none
    NoRun = none
    MessageKinds <- Kinds
    RefreshMessages = 3
    RefreshTokens = 4
    ChunkMessages = 4
    ChunkTokens = 4
    WindowMessages = 4
    WindowTokens = 7
    MaxMessages = 5
    MaxSummaries = 3
    MaxFaults = 2
SPECIFICATION ContextSpec
CHECK_DEADLOCK FALSE
INVARIANTS
    ContextTypeOK
    SummaryCoversItsMessages
    RenameIsKept
