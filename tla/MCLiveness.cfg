\* Progress, with tools and run starts that spin a nested event loop.
CONSTANTS
    mcp = mcp
    patch = patch
    unknown = unknown
    Tools = {mcp, patch}
    NoTool = unknown
    RequiresApproval = {patch}
    PolicyListed = {patch}
    PatchTool = patch
    Looping = {mcp}
    ApprovalActions = {mcp}
    ReplyTypes = {"error", "tool_call", "final", "final_diff", "need_approval", "decision"}
    MaxIterations = 2
    MaxToolCalls = 0
    AutoCompact = TRUE
    InlineRefinement = TRUE
    RefreshLoops = TRUE
    ZeroTimersFirst = TRUE
    MaxRuns = 1
    MaxSteers = 2
SPECIFICATION FairSpec
CHECK_DEADLOCK FALSE
PROPERTIES
    RunSettles
    SteerIsDelivered
