\* The mcp tool spins a nested event loop: stop, start, steers, replies and the
\* watchdog may all come while a tool call is suspended.
CONSTANTS
    mcp = mcp
    patch = patch
    unknown = unknown
    Tools = {mcp, patch}
    NoTool = unknown
    RequiresApproval = {patch}
    PolicyListed = {patch}
    PatchTool = patch
    Looping = {mcp}
    ApprovalActions = {mcp}
    ReplyTypes = {"error", "tool_call", "final", "need_approval"}
    MaxIterations = 2
    MaxToolCalls = 0
    AutoCompact = FALSE
    InlineRefinement = FALSE
    RefreshLoops = FALSE
    ZeroTimersFirst = TRUE
    MaxRuns = 2
    MaxSteers = 1
SPECIFICATION Spec
CHECK_DEADLOCK FALSE
INVARIANTS
    SteersKeptInOrder
    CompletedRunHeardEverySteer
    RowsFollowRuns
PROPERTIES
    ImplementsLifecycle
