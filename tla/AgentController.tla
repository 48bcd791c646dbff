--------------------------- MODULE AgentController --------------------------
(***************************************************************************)
(* agent_controller_t: one agent run from start() to the `stopped' signal. *)
(*                                                                         *)
(* Everything runs on the GUI thread.  A step of this module is one event  *)
(* the Qt event loop dispatches: a click, a provider callback, a timer.    *)
(* Its handler runs to the end, except that a tool (or the MCP refresh of  *)
(* start()) may spin a nested QEventLoop: the C++ call is then suspended   *)
(* on `frames' and any other event may be handled before it returns.       *)
(*                                                                         *)
(* A handler is written as a chain of edits of the controller record c     *)
(* that ends in Commit or Send, the way the C++ handlers end in            *)
(* run_next_iteration() or in a return.                                    *)
(***************************************************************************)
EXTENDS Naturals, Sequences, FiniteSets, RunStateMachine

CONSTANTS
    Tools,             \* registered tools
    NoTool,            \* a name that is not registered
    RequiresApproval,  \* tools whose requires_approval() is true
    PolicyListed,      \* tools safety_policy_t::requires_approval names
    PatchTool,         \* apply_patch, which may be reviewed as inline diffs
    Looping,           \* tools whose execute() spins a nested event loop
    ApprovalActions,   \* actions a need_approval reply may name
    ReplyTypes,        \* kinds of reply the provider may give
    MaxIterations,     \* safety policy limits; 0 means unlimited
    MaxToolCalls,
    AutoCompact,       \* settings: auto-compact enabled
    InlineRefinement,  \* settings: inline_diff_refinement_enabled
    RefreshLoops,      \* MCP servers to connect when an agent run starts
    ZeroTimersFirst,   \* posted zero timers are served before other events
    MaxRuns,           \* bound: runs started
    MaxSteers          \* bound: follow-up messages accepted per run

ASSUME ToolAssumption ==
    /\ RequiresApproval \subseteq Tools
    /\ PolicyListed \subseteq Tools
    /\ Looping \subseteq Tools
    /\ NoTool \notin Tools
    /\ ApprovalActions \subseteq Tools \cup {NoTool}

ASSUME LimitAssumption ==
    /\ MaxIterations \in Nat
    /\ MaxToolCalls \in Nat
    /\ MaxRuns \in Nat
    /\ MaxSteers \in Nat

ASSUME SettingAssumption ==
    /\ AutoCompact \in BOOLEAN
    /\ InlineRefinement \in BOOLEAN
    /\ RefreshLoops \in BOOLEAN
    /\ ZeroTimersFirst \in BOOLEAN

(* response_type_t, with FINAL split by whether it carries a usable diff   *)
(* and DECISION_REQUEST by validity; "error" is a non-empty error string.  *)
(* TEXT and ERROR share a case label in handle_response.                   *)
AllReplyTypes == {"error", "plan", "tool_call", "final", "final_diff",
                  "need_approval", "decision", "invalid_decision", "text"}

ASSUME ReplyAssumption == ReplyTypes \subseteq AllReplyTypes

VARIABLES
    ctl,       \* the controller: see Controller below
    inflight   \* requests handed to the provider and not yet answered

vars == <<ctl, inflight>>

Runs == 1..MaxRuns

Names == Tools \cup {NoTool}

(* A provider request; iter makes it unique within its run.                *)
Request == [run : Nat, iter : Nat, kind : {"agent", "compaction"}]

(* pending_provider_response_t, with the request it answers.  high: the    *)
(* reported usage reaches auto_compact_threshold_tokens.                   *)
Response == [req : Request, type : AllReplyTypes, tool : Names, high : BOOLEAN]

(* pending_approval_t.                                                     *)
Approval == [id : Nat, tool : Names]

(* A C++ call suspended by a nested event loop: execute_tool or            *)
(* approve_action inside tool->execute(), or start() inside the MCP        *)
(* refresh.  run is the run the call belongs to (0 for start).  draining   *)
(* says the call sits on top of the loop of                                *)
(* drain_queued_provider_responses.                                        *)
Frame == [call : {"execute_tool", "approve_action", "start"}, run : Nat,
          dryRun : BOOLEAN, ask : BOOLEAN, compaction : BOOLEAN,
          draining : BOOLEAN]

Controller ==
    [rsm : States,                   \* run_state_machine
     dryRun : BOOLEAN,
     ask : BOOLEAN,                  \* run_mode is ASK
     compaction : BOOLEAN,           \* run_options.is_compaction
     iter : Nat,                     \* current_iteration
     calls : Nat,                    \* current_tool_call_count
     textRetries : Nat,
     modeRetries : Nat,
     approvals : SUBSET Approval,    \* pending_approvals
     nextApproval : Nat,             \* next_approval_id
     decision : BOOLEAN,             \* has_pending_decision_request
     steers : Seq(Nat),              \* pending_soft_steer_messages
     steerTimers : Nat,              \* zero timers enqueue_soft_steer posted
     midRun : BOOLEAN,               \* mid_run_compaction_in_progress
     high : BOOLEAN,                 \* last usage is over the threshold
     runId : Nat,                    \* run_id, 0 when empty
     watchdog : BOOLEAN,             \* provider_watchdog is active
     responses : Seq(Response),      \* pending_provider_responses
     dispatch : BOOLEAN,             \* provider_response_dispatch_scheduled
     draining : BOOLEAN,             \* inside the drain loop
     frames : Seq(Frame),            \* suspended calls, innermost first
     store : [Runs -> RowStatus],    \* rows of the runs in the database
     run : Nat,                      \* history: runs started
     endings : [Runs -> Seq(Verdicts)],  \* history: `stopped' signals
     accepted : Nat,                 \* history: steers accepted by the run
     delivered : Seq(Nat),           \* history: steers put in the prompt
     compactions : Nat,              \* history: hidden requests of the run
     unrecorded : SUBSET Nat]        \* history: rows left "running" by a
                                     \* final write that failed

TypeOK ==
    /\ ctl \in Controller
    /\ inflight \in SUBSET Request

Init ==
    /\ ctl = [rsm |-> "IDLE", dryRun |-> TRUE, ask |-> FALSE,
              compaction |-> FALSE, iter |-> 0, calls |-> 0,
              textRetries |-> 0, modeRetries |-> 0, approvals |-> {},
              nextApproval |-> 1, decision |-> FALSE, steers |-> <<>>,
              steerTimers |-> 0, midRun |-> FALSE, high |-> FALSE,
              runId |-> 0, watchdog |-> FALSE, responses |-> <<>>,
              dispatch |-> FALSE, draining |-> FALSE, frames |-> <<>>,
              store |-> [r \in Runs |-> "absent"], run |-> 0,
              endings |-> [r \in Runs |-> <<>>], accepted |-> 0,
              delivered |-> <<>>, compactions |-> 0, unrecorded |-> {}]
    /\ inflight = {}

-----------------------------------------------------------------------------
(* Pure edits of the controller record.                                    *)

Running(c) == c.rsm \in RunningStates

AtLimit(count, limit) == limit > 0 /\ count >= limit

CompactionActive(c) == c.compaction \/ c.midRun

ShouldCompact(c) == ~c.compaction /\ ~c.midRun /\ AutoCompact /\ c.runId # 0 /\ c.high

(* finalize_persistent_run: a run that is not stored has no row to update, *)
(* and a write that fails (only a log message tells) leaves the row.       *)
FinalizePersistentRun(store, runId, verdict, written) ==
    IF runId = 0 \/ ~written THEN store ELSE [store EXCEPT ![runId] = StatusOf(verdict)]

(* emit stopped().                                                         *)
Announce(endings, run, verdict) ==
    [endings EXCEPT ![run] = Append(@, verdict)]

Unrecorded(c, written) ==
    IF c.runId = 0 \/ written THEN c.unrecorded ELSE c.unrecorded \cup {c.runId}

(* Mutant: the row of the run is not finalised.                           *)
FinishRunNotStored(c, verdict, written) ==
    [c EXCEPT !.rsm = Mark(@, verdict),
              !.unrecorded = Unrecorded(c, written),
              !.runId = 0,
              !.endings = Announce(@, c.run, verdict)]

(* mark_completed() and the like, finalize_persistent_run(), emit stopped() *)
FinishRun(c, verdict, written) ==
    [c EXCEPT !.rsm = Mark(@, verdict),
              !.store = FinalizePersistentRun(@, c.runId, verdict, written),
              !.unrecorded = Unrecorded(c, written),
              !.runId = 0,
              !.endings = Announce(@, c.run, verdict)]

(* Mutant: pending approvals survive the steer.                           *)
ApplySoftSteerKeepsApprovals(c) ==
    IF c.steers = <<>> THEN c
    ELSE [c EXCEPT !.decision = FALSE, !.delivered = @ \o c.steers, !.steers = <<>>]

(* Mutant: the messages are put to the model twice.                       *)
ApplySoftSteerTwice(c) ==
    IF c.steers = <<>> THEN c
    ELSE [c EXCEPT !.approvals = {}, !.decision = FALSE,
                   !.delivered = @ \o c.steers \o c.steers, !.steers = <<>>]

(* Mutant: the messages are cleared and not put to the model.             *)
ApplySoftSteerDrops(c) ==
    IF c.steers = <<>> THEN c
    ELSE [c EXCEPT !.approvals = {}, !.decision = FALSE, !.steers = <<>>]

ApplySoftSteer(c) ==
    IF c.steers = <<>> THEN c
    ELSE [c EXCEPT !.approvals = {},
                   !.decision = FALSE,
                   !.delivered = @ \o c.steers,
                   !.steers = <<>>]

RequestApproval(c, tool) ==
    [c EXCEPT !.approvals = @ \cup {[id |-> c.nextApproval, tool |-> tool]},
              !.nextApproval = @ + 1,
              !.rsm = AwaitUser(@, "WAITING_FOR_APPROVAL")]

(* tool->execute() enters a nested event loop.                             *)
Suspend(c, frame) ==
    [c EXCEPT !.frames = <<[frame EXCEPT !.draining = c.draining]>> \o @,
              !.draining = FALSE]

(* The while loop of drain_queued_provider_responses ends when the queue   *)
(* is empty.                                                               *)
Settle(c) == [c EXCEPT !.draining = @ /\ c.responses # <<>>]

-----------------------------------------------------------------------------
(* Tails of handlers: each fixes ctl' and inflight'.                       *)

Commit(c) == ctl' = Settle(c) /\ UNCHANGED inflight

(* The run ends, whether or not its final row can be written.              *)
Finish(c, verdict) == \E written \in BOOLEAN : Commit(FinishRun(c, verdict, written))

(* Mutant: a request leaves without the watchdog.                         *)
SendUnarmed(c, kind) ==
    /\ ctl' = Settle([c EXCEPT !.rsm = AwaitProvider(@)])
    /\ inflight' = inflight \cup {[run |-> c.run, iter |-> c.iter, kind |-> kind]}

(* provider->complete(): the request goes out, unless the provider refuses *)
(* an attachment of the conversation.  (A callback the provider invokes    *)
(* inside complete() is a Reply that directly follows.)                    *)
Send(c, kind) ==
    \/ Finish([c EXCEPT !.watchdog = FALSE, !.midRun = @ /\ kind # "compaction"], "FAILED")
    \/ /\ ctl' = Settle([c EXCEPT !.rsm = AwaitProvider(@), !.watchdog = TRUE])
       /\ inflight' = inflight \cup {[run |-> c.run, iter |-> c.iter, kind |-> kind]}

(* The prompt reconstruction may fail or be empty; otherwise the hidden    *)
(* compaction request goes out.                                            *)
StartMidRunAutoCompaction(c) ==
    \/ Finish(c, "FAILED")
    \/ Send([c EXCEPT !.midRun = TRUE, !.high = FALSE, !.compactions = @ + 1], "compaction")

(* Mutant: the limit is looked at after the compaction.                   *)
RunNextIterationCompactsFirst(c) ==
    LET d == ApplySoftSteer(c) IN
    \/ ~Running(c) /\ Commit(c)
    \/ Running(c) /\ ShouldCompact(d) /\ StartMidRunAutoCompaction(d)
    \/ /\ Running(c)
       /\ ~ShouldCompact(d)
       /\ IF AtLimit(d.iter, MaxIterations)
          THEN Finish(d, "FAILED")
          ELSE Send([d EXCEPT !.iter = @ + 1], "agent")

RunNextIteration(c) ==
    LET d == ApplySoftSteer(c) IN
    \/ /\ ~Running(c)
       /\ Commit(c)
    \/ /\ Running(c)
       /\ AtLimit(d.iter, MaxIterations)
       /\ Finish(d, "FAILED")
    \/ /\ Running(c)
       /\ ~AtLimit(d.iter, MaxIterations)
       /\ ShouldCompact(d)
       /\ StartMidRunAutoCompaction(d)
    \/ /\ Running(c)
       /\ ~AtLimit(d.iter, MaxIterations)
       /\ ~ShouldCompact(d)
       /\ Send([d EXCEPT !.iter = @ + 1], "agent")

(* Mutant: no request follows a tool result.                              *)
AfterToolStops(c) == Commit(ApplySoftSteer(c))

(* The rest of execute_tool once tool->execute() has returned.             *)
AfterTool(c) == RunNextIteration(ApplySoftSteer(c))

NewFrame(call, run, dryRun, ask, compaction) ==
    [call |-> call, run |-> run, dryRun |-> dryRun, ask |-> ask,
     compaction |-> compaction, draining |-> FALSE]

ToolFrame(call, c) == NewFrame(call, c.run, c.dryRun, c.ask, c.compaction)

(* execute_tool asks the user when the tool says so and the policy gives a *)
(* reason; in a dry run a tool that says so is only described.             *)
NeedsApproval(c, tool) ==
    tool \in RequiresApproval /\ ~c.dryRun /\ tool \in PolicyListed

PreviewOnly(c, tool) == tool \in RequiresApproval /\ c.dryRun

ExecuteTool(c, tool) ==
    LET counted == [c EXCEPT !.calls = @ + 1] IN
    \/ /\ AtLimit(c.calls, MaxToolCalls)
       /\ Finish(c, "FAILED")
    \/ /\ ~AtLimit(c.calls, MaxToolCalls)
       /\ tool \notin Tools
       /\ RunNextIteration(c)
    \/ /\ ~AtLimit(c.calls, MaxToolCalls)
       /\ tool \in Tools
       /\ NeedsApproval(c, tool)
       /\ Commit(RequestApproval(c, tool))
    \/ /\ ~AtLimit(c.calls, MaxToolCalls)
       /\ tool \in Tools
       /\ PreviewOnly(c, tool)
       /\ AfterTool(counted)
    \/ /\ ~AtLimit(c.calls, MaxToolCalls)
       /\ tool \in Tools
       /\ ~NeedsApproval(c, tool)
       /\ ~PreviewOnly(c, tool)
       /\ IF tool \in Looping
          THEN Commit(Suspend(counted, ToolFrame("execute_tool", c)))
          ELSE AfterTool(counted)

-----------------------------------------------------------------------------
(* handle_response                                                         *)

CompactionDone(c) == [c EXCEPT !.midRun = FALSE, !.high = FALSE]

(* The reply to a compaction request.  A reply without usable text fails   *)
(* the run, and so do a summary that cannot be stored and, mid-run, a      *)
(* prompt that cannot be rebuilt.                                          *)
HandleCompactionReply(c, reply) ==
    \/ Finish(c, "FAILED")
    \/ /\ reply.type \in {"final", "final_diff", "text"}
       /\ c.compaction
       /\ Finish(c, "COMPLETED")
    \/ /\ reply.type \in {"final", "final_diff", "text"}
       /\ ~c.compaction
       /\ \/ Finish(CompactionDone(c), "FAILED")
          \/ RunNextIteration(CompactionDone(c))

(* Ask mode accepts only a final or a text; one correction is sent.        *)
AskModeRejects(c, reply) == c.ask /\ reply.type \notin {"final", "final_diff", "text"}

HandleAgentReply(c, reply) ==
    \/ /\ AskModeRejects(c, reply)
       /\ IF c.modeRetries >= 1
          THEN Finish(c, "FAILED")
          ELSE RunNextIteration([c EXCEPT !.modeRetries = @ + 1])
    \/ /\ ~AskModeRejects(c, reply)
       /\ \/ /\ reply.type \in {"plan", "invalid_decision"}
             /\ RunNextIteration(c)
          \/ /\ reply.type = "tool_call"
             /\ ExecuteTool(c, reply.tool)
          \/ /\ \/ reply.type = "final"
                \/ reply.type = "final_diff" /\ ~InlineRefinement
             /\ Finish(c, "COMPLETED")
          \/ /\ reply.type = "final_diff"
             /\ InlineRefinement
             /\ Commit([c EXCEPT !.rsm = AwaitUser(@, "WAITING_FOR_INLINE_DIFF_REVIEW")])
          \/ /\ reply.type = "need_approval"
             /\ Commit(RequestApproval(c, reply.tool))
          \/ /\ reply.type = "decision"
             /\ Commit([c EXCEPT !.decision = TRUE,
                                 !.rsm = AwaitUser(@, "WAITING_FOR_USER_DECISION")])
          \/ /\ reply.type = "text"
             /\ IF c.textRetries >= 1
                THEN Finish(c, "COMPLETED")
                ELSE RunNextIteration([c EXCEPT !.textRetries = @ + 1])

(* A pending steer supersedes the reply; otherwise it is dispatched on     *)
(* whether a compaction is believed to be under way.                       *)
HandleResponse(c, reply) ==
    LET answered == [c EXCEPT !.watchdog = FALSE]
        metered  == [answered EXCEPT !.high = IF CompactionActive(c) THEN @ ELSE reply.high]
        parsed   == [metered EXCEPT !.textRetries = IF reply.type = "text" THEN @ ELSE 0]
    IN  \/ /\ ~Running(c)
           /\ Commit(c)
        \/ /\ Running(c)
           /\ reply.type = "error"
           /\ Finish([answered EXCEPT !.midRun = FALSE], "FAILED")
        \/ /\ Running(c)
           /\ reply.type # "error"
           /\ c.steers # <<>>
           /\ RunNextIteration(ApplySoftSteer(metered))
        \/ /\ Running(c)
           /\ reply.type # "error"
           /\ c.steers = <<>>
           /\ CompactionActive(c)
           /\ HandleCompactionReply(metered, reply)
        \/ /\ Running(c)
           /\ reply.type # "error"
           /\ c.steers = <<>>
           /\ ~CompactionActive(c)
           /\ HandleAgentReply(parsed, reply)

-----------------------------------------------------------------------------
(* Which events the innermost event loop may dispatch.                     *)

(* A posted zero timer: nothing runs but the loop itself.                  *)
PostedEvent == ~ctl.draining

(* Clicks, sockets, the watchdog, the return of a nested loop.             *)
OtherEvent ==
    /\ ~ctl.draining
    /\ ZeroTimersFirst => ~ctl.dispatch /\ ctl.steerTimers = 0

-----------------------------------------------------------------------------
(* Starting and stopping runs.                                             *)

(* start() after the MCP refresh: everything is reset, whatever state the  *)
(* machine is in by now.  row: the run is not stored, is stored, or its    *)
(* storage failed on the way and was given up; then the row says "error",  *)
(* or still "running" if that cannot be written either.                    *)
StartAfterRefresh(c, ask, dryRun, compaction) ==
    \E row \in {"absent", "running", "error"}, stored \in BOOLEAN :
        LET run == c.run + 1
            lost == row = "running" /\ ~stored IN
        /\ stored => row = "running"
        /\ RunNextIteration(
            [c EXCEPT !.rsm = StartRun(@), !.dryRun = dryRun, !.ask = ask,
                      !.compaction = compaction, !.iter = 0, !.calls = 0,
                      !.textRetries = 0, !.modeRetries = 0, !.approvals = {},
                      !.decision = FALSE, !.steers = <<>>, !.midRun = FALSE,
                      !.high = FALSE, !.responses = <<>>, !.dispatch = FALSE,
                      !.store = [@ EXCEPT ![run] = row],
                      !.runId = IF stored THEN run ELSE 0,
                      !.unrecorded = IF lost THEN @ \cup {run} ELSE @,
                      !.run = run, !.accepted = 0, !.delivered = <<>>,
                      !.compactions = 0])

StartsPending == Cardinality({i \in DOMAIN ctl.frames : ctl.frames[i].call = "start"})

(* Connecting MCP servers of an agent run may spin a nested event loop.    *)
Start(ask, dryRun, compaction) ==
    /\ OtherEvent
    /\ ~Running(ctl)
    /\ ctl.run + StartsPending < MaxRuns
    /\ \/ StartAfterRefresh(ctl, ask, dryRun, compaction)
       \/ /\ RefreshLoops
          /\ ~ask
          /\ Commit(Suspend(ctl, NewFrame("start", 0, dryRun, ask, compaction)))

(* Mutant: the provider is not told.                                      *)
CancelNothing(c) == Commit(c)

(* provider->cancel(): nothing stays in flight; a provider may report the  *)
(* cancellation through the callbacks (one report stands for several: the  *)
(* run they belong to is over).                                            *)
CancelAndCommit(c) ==
    /\ \/ ctl' = Settle(c)
       \/ \E req \in inflight :
             ctl' = Settle([c EXCEPT !.responses =
                                 Append(@, [req |-> req, type |-> "error",
                                            tool |-> NoTool, high |-> FALSE]),
                                     !.dispatch = TRUE])
    /\ inflight' = {}

CancelAndFinish(c, verdict) ==
    \E written \in BOOLEAN : CancelAndCommit(FinishRun(c, verdict, written))

Stop ==
    /\ OtherEvent
    /\ Running(ctl)
    /\ CancelAndFinish([ctl EXCEPT !.midRun = FALSE, !.high = FALSE, !.steers = <<>>,
                                   !.decision = FALSE, !.watchdog = FALSE], "STOPPED")

(* The watchdog is single-shot; it is also disarmed when it fires outside  *)
(* a wait for the provider.                                                *)
ProviderInactivityTimeout ==
    /\ OtherEvent
    /\ ctl.watchdog
    /\ LET fired == [ctl EXCEPT !.watchdog = FALSE] IN
       IF ctl.rsm = "WAITING_FOR_PROVIDER"
       THEN CancelAndFinish(fired, "FAILED")
       ELSE Commit(fired)

-----------------------------------------------------------------------------
(* The provider.                                                           *)

(* The completion callback: the reply is queued and a drain is posted.     *)
ProviderReplies(req, type, tool, high) ==
    /\ OtherEvent
    /\ req \in inflight
    /\ inflight' = inflight \ {req}
    /\ ctl' = [ctl EXCEPT !.responses = Append(@, [req |-> req, type |-> type,
                                                   tool |-> tool, high |-> high]),
                          !.dispatch = TRUE]

(* A stream delta re-arms the watchdog, whichever request it belongs to.   *)
ProviderStreams ==
    /\ OtherEvent
    /\ inflight # {}
    /\ ctl' = [ctl EXCEPT !.watchdog = @ \/ ctl.rsm = "WAITING_FOR_PROVIDER"]
    /\ UNCHANGED inflight

(* The posted drain handles the first reply, and then, before anything     *)
(* else happens in this event loop, the others.                            *)
DrainResponses ==
    /\ \/ ctl.draining
       \/ PostedEvent /\ ctl.dispatch
    /\ LET c == [ctl EXCEPT !.dispatch = @ /\ ctl.draining, !.draining = TRUE] IN
       IF c.responses = <<>>
       THEN Commit(c)
       ELSE HandleResponse([c EXCEPT !.responses = Tail(@)], Head(c.responses))

-----------------------------------------------------------------------------
(* Follow-up messages of the user.                                         *)

(* Mutant: no timer at all.                                               *)
EnqueueWithoutTimer ==
    /\ OtherEvent
    /\ Running(ctl)
    /\ ctl.accepted < MaxSteers
    /\ Commit([ctl EXCEPT !.steers = Append(@, ctl.accepted + 1), !.accepted = @ + 1])

EnqueueSoftSteerMessage ==
    /\ OtherEvent
    /\ Running(ctl)
    /\ ctl.accepted < MaxSteers
    /\ Commit([ctl EXCEPT
           !.steers = Append(@, ctl.accepted + 1),
           !.accepted = @ + 1,
           !.steerTimers = IF ctl.rsm \in {"WAITING_FOR_APPROVAL",
                                           "WAITING_FOR_INLINE_DIFF_REVIEW"}
                           THEN @ + 1 ELSE @])

(* The lambda posted by enqueue_soft_steer_message.                        *)
SoftSteerTimer ==
    /\ PostedEvent
    /\ ctl.steerTimers > 0
    /\ LET c == [ctl EXCEPT !.steerTimers = @ - 1] IN
       IF Running(c) /\ c.steers # <<>>
       THEN RunNextIteration(ApplySoftSteer(c))
       ELSE Commit(c)

-----------------------------------------------------------------------------
(* Answers of the user.                                                    *)

(* approve_action: neither the run nor the limits are looked at.           *)
ApproveAction(approval) ==
    /\ OtherEvent
    /\ approval \in ctl.approvals
    /\ LET c == [ctl EXCEPT !.approvals = @ \ {approval}]
           counted == [c EXCEPT !.calls = @ + 1]
       IN  \/ /\ approval.tool \notin Tools
              /\ RunNextIteration(c)
           \/ /\ approval.tool \in Tools
              /\ IF approval.tool \in Looping
                 THEN Commit(Suspend(counted, ToolFrame("approve_action", c)))
                 ELSE RunNextIteration(counted)

DenyAction(approval) ==
    /\ OtherEvent
    /\ approval \in ctl.approvals
    /\ RunNextIteration([ctl EXCEPT !.approvals = @ \ {approval}])

(* resolve_apply_patch_inline_approval: accepted hunks are in the files    *)
(* already, so the tool is counted and not run.                            *)
ResolveInlineApproval(approval, anyAccepted) ==
    /\ OtherEvent
    /\ Running(ctl)
    /\ approval \in ctl.approvals
    /\ approval.tool = PatchTool
    /\ RunNextIteration([ctl EXCEPT !.approvals = @ \ {approval},
                                    !.calls = IF anyAccepted THEN @ + 1 ELSE @])

SubmitUserDecision ==
    /\ OtherEvent
    /\ ctl.rsm = "WAITING_FOR_USER_DECISION"
    /\ ctl.decision
    /\ RunNextIteration([ctl EXCEPT !.decision = FALSE])

(* Both are called from a zero timer of the dock, after the last hunk.     *)
RequestInlineDiffRefinement ==
    /\ OtherEvent
    /\ ctl.rsm = "WAITING_FOR_INLINE_DIFF_REVIEW"
    /\ RunNextIteration(ctl)

FinalizeInlineDiffReview ==
    /\ OtherEvent
    /\ ctl.rsm = "WAITING_FOR_INLINE_DIFF_REVIEW"
    /\ Finish(ctl, "COMPLETED")

-----------------------------------------------------------------------------
(* The innermost nested event loop ends and the suspended call goes on, in *)
(* whatever state the controller is by now.                                *)

Resumed == [ctl EXCEPT !.frames = Tail(@), !.draining = Head(ctl.frames).draining]

NestedLoopReturns(call) == OtherEvent /\ ctl.frames # <<>> /\ Head(ctl.frames).call = call

ExecuteToolReturns == NestedLoopReturns("execute_tool") /\ AfterTool(Resumed)

ApproveActionReturns == NestedLoopReturns("approve_action") /\ RunNextIteration(Resumed)

StartReturns ==
    /\ NestedLoopReturns("start")
    /\ LET frame == Head(ctl.frames) IN
       StartAfterRefresh(Resumed, frame.ask, frame.dryRun, frame.compaction)

-----------------------------------------------------------------------------
(* A reply names a tool or an action only where its type carries one, and  *)
(* usage matters only where auto-compaction is enabled.                    *)
ToolOf(type) == CASE type = "tool_call"     -> Names
                  [] type = "need_approval" -> ApprovalActions
                  [] OTHER                  -> {NoTool}

Usage == IF AutoCompact THEN BOOLEAN ELSE {FALSE}

(* A compaction run is an agent run started by the dock.                   *)
UserStarts == \E ask, dryRun, compaction \in BOOLEAN :
                ~(ask /\ compaction) /\ Start(ask, dryRun, compaction)

ProviderAnswers == \E req \in inflight, type \in ReplyTypes, high \in Usage :
                     \E tool \in ToolOf(type) : ProviderReplies(req, type, tool, high)

UserAnswersApproval ==
    \E approval \in ctl.approvals :
        \/ ApproveAction(approval)
        \/ DenyAction(approval)
        \/ \E anyAccepted \in BOOLEAN : ResolveInlineApproval(approval, anyAccepted)

Next ==
    \/ UserStarts
    \/ Stop
    \/ ProviderInactivityTimeout
    \/ ProviderAnswers
    \/ ProviderStreams
    \/ DrainResponses
    \/ EnqueueSoftSteerMessage
    \/ SoftSteerTimer
    \/ UserAnswersApproval
    \/ SubmitUserDecision
    \/ RequestInlineDiffRefinement
    \/ FinalizeInlineDiffReview
    \/ ExecuteToolReturns
    \/ ApproveActionReturns
    \/ StartReturns

Spec == Init /\ [][Next]_vars

(* The event loop keeps serving its posted events, a nested loop returns   *)
(* (its tool answers or times out), and a request is answered or goes      *)
(* silent long enough for the watchdog: no provider streams for ever.      *)
Fairness ==
    /\ WF_vars(DrainResponses)
    /\ WF_vars(SoftSteerTimer)
    /\ WF_vars(ProviderAnswers \/ ProviderInactivityTimeout)
    /\ WF_vars(ExecuteToolReturns \/ ApproveActionReturns \/ StartReturns)

FairSpec == Spec /\ Fairness
=============================================================================
