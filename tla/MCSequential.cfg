\* No tool spins an event loop; every kind of reply and every user action, and
\* hidden compaction requests in the middle of a run.
CONSTANTS
    read = read
    patch = patch
    unknown = unknown
    Tools = {read, patch}
    NoTool = unknown
    RequiresApproval = {patch}
    PolicyListed = {patch}
    PatchTool = patch
    Looping = {}
    ApprovalActions = {unknown}
    ReplyTypes = {"error", "plan", "tool_call", "final", "final_diff", "need_approval", "decision", "invalid_decision", "text"}
    MaxIterations = 2
    MaxToolCalls = 1
    AutoCompact = TRUE
    InlineRefinement = TRUE
    RefreshLoops = FALSE
    ZeroTimersFirst = TRUE
    MaxRuns = 2
    MaxSteers = 2
SPECIFICATION Spec
CHECK_DEADLOCK FALSE
INVARIANTS
    TypeOK
    OneOutstandingRequest
    WatchdogCoversWait
    PendingMatchesWait
    RequestsAreBounded
PROPERTIES
    ImplementsLifecycle
