\* A follow-up message sent while the hidden compaction request is out.
CONSTANTS
    read = read
    patch = patch
    unknown = unknown
    Tools = {read, patch}
    NoTool = unknown
    RequiresApproval = {patch}
    PolicyListed = {patch}
    PatchTool = patch
    Looping = {}
    ApprovalActions = {unknown}
    ReplyTypes = {"error", "tool_call", "final", "text"}
    MaxIterations = 3
    MaxToolCalls = 2
    AutoCompact = TRUE
    InlineRefinement = FALSE
    RefreshLoops = FALSE
    ZeroTimersFirst = TRUE
    MaxRuns = 1
    MaxSteers = 1
SPECIFICATION Spec
CHECK_DEADLOCK FALSE
INVARIANTS
    CompactionFlagMeansRequest
