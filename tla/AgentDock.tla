----------------------------- MODULE AgentDock ------------------------------
(***************************************************************************)
(* agent_dock_widget.cpp: what becomes of the requests a user makes.       *)
(*                                                                         *)
(* The dock starts a request, queues it (request_queue.cpp), or defers it  *)
(* behind an automatic compaction.  It drives agent_controller_t, seen     *)
(* here through its state machine: start(), stop() and `stopped'.  Calls   *)
(* the dock posts to itself (Qt::QueuedConnection) come back from the      *)
(* event loop, also from a nested one: start() spins one while MCP         *)
(* servers connect.                                                        *)
(***************************************************************************)
EXTENDS RunStateMachine, Naturals, SequencesExt

CONSTANTS
    MaxRequests,            \* bound: requests the user makes, numbered in order
    ClicksWhileConnecting,  \* does the user click while start() connects?
    Reloads,                \* may session files change on disk?
    ImageFaults,            \* may an image attachment fail to load?
    PostedFirst             \* are posted calls served before any other event?

ASSUME DockAssumption ==
    /\ MaxRequests \in Nat
    /\ {ClicksWhileConnecting, Reloads, ImageFaults, PostedFirst} \subseteq BOOLEAN

Requests == 1..MaxRequests

NoRequest == 0   \* also the request of a /compact run

Run == [req : Requests \cup {NoRequest}, compaction : BOOLEAN]

(* Calls posted by on_stopped: start the deferred request, or the next one *)
(* of the queue.                                                           *)
PostedCall == [call : {"start"}, req : Requests] \cup [call : {"next"}, req : {NoRequest}]

NoFault == "none"

(* What a start may meet: an image that cannot be loaded, an event loop    *)
(* while MCP servers connect, a failure of the new run's context.          *)
Faults == {NoFault, "start", "connecting"} \cup (IF ImageFaults THEN {"image"} ELSE {})

VARIABLE dock

dockVars == <<dock>>

Dock ==
    [queue : Seq(Requests),                     \* request_queue
     deferred : Requests \cup {NoRequest},      \* deferred_request
     skip : BOOLEAN,                            \* skip_auto_compact_once
     over : BOOLEAN,                            \* displayed_usage over threshold
     stopEnabled : BOOLEAN,                     \* stop_btn->isEnabled()
     shown : BOOLEAN,                           \* an open question is displayed
     posted : Seq(PostedCall),
     starting : Seq(Run),                       \* start() calls in the MCP refresh
     rsm : States,                              \* the controller's state machine
     active : Run,                              \* the request of its run
     made : 0..MaxRequests,                     \* history: requests made,
     begun : [Requests -> Nat],                 \*   runs begun for each,
     compacted : [Requests -> Nat],             \*   compactions run ahead of it,
     ended : SUBSET Requests,                   \*   those whose run has ended,
     discarded : SUBSET Requests]               \*   those given up visibly

DockTypeOK == dock \in Dock

DockInit ==
    dock = [queue |-> <<>>, deferred |-> NoRequest, skip |-> FALSE,
            over |-> FALSE, stopEnabled |-> FALSE, shown |-> FALSE,
            posted |-> <<>>, starting |-> <<>>, rsm |-> "IDLE",
            active |-> [req |-> NoRequest, compaction |-> FALSE],
            made |-> 0, begun |-> [r \in Requests |-> 0],
            compacted |-> [r \in Requests |-> 0],
            ended |-> {}, discarded |-> {}]

-----------------------------------------------------------------------------
(* Edits of the record, in the order in which the code makes them.         *)

Running(d) == d.rsm \in RunningStates

Waiting(d) == d.rsm \in UserWaits

Held(d) == ToSet(d.queue) \cup {d.deferred}

Discard(d, requests) == [d EXCEPT !.discarded = @ \cup (requests \cap Requests)]

PostNext(d) == [d EXCEPT !.posted = Append(@, [call |-> "next", req |-> NoRequest])]

PostStart(d, r) == [d EXCEPT !.posted = Append(@, [call |-> "start", req |-> r])]

(* Mutant: the deferred request is read after it was cleared.              *)
AfterCompletionReadsCleared(d) ==
    IF d.deferred = NoRequest THEN PostNext(d)
    ELSE LET cleared == [d EXCEPT !.deferred = NoRequest, !.skip = TRUE]
         IN  PostStart(cleared, cleared.deferred)

(* Mutant: has_deferred_request is not cleared.                            *)
AfterCompletionKeepsDeferred(d) ==
    IF d.deferred = NoRequest THEN PostNext(d)
    ELSE PostStart([d EXCEPT !.skip = TRUE], d.deferred)

(* Mutant: the queue goes on as well, before the deferred request.         *)
AfterCompletionPostsBoth(d) ==
    IF d.deferred = NoRequest THEN PostNext(d)
    ELSE PostStart([PostNext(d) EXCEPT !.deferred = NoRequest, !.skip = TRUE], d.deferred)

(* Mutant: a compaction run does not advance the queue.                    *)
AfterCompletionIdles(d) ==
    IF d.deferred # NoRequest
    THEN PostStart([d EXCEPT !.deferred = NoRequest, !.skip = TRUE], d.deferred)
    ELSE IF d.active.compaction THEN d ELSE PostNext(d)

(* After success the deferred request, or else the queue, goes on from a   *)
(* posted call.                                                            *)
AfterCompletion(d) ==
    IF d.deferred = NoRequest THEN PostNext(d)
    ELSE PostStart([d EXCEPT !.deferred = NoRequest, !.skip = TRUE], d.deferred)

(* After a failed or stopped run nothing goes on.                          *)
AfterFailure(d) == [Discard(d, {d.deferred}) EXCEPT !.deferred = NoRequest]

(* The run ends: the controller marks its verdict and emits stopped, which *)
(* on_stopped answers at once.                                             *)
EndRun(d, verdict) ==
    LET over == [d EXCEPT !.rsm = Mark(@, verdict), !.stopEnabled = FALSE,
                          !.shown = FALSE,
                          !.ended = @ \cup (IF d.active.compaction THEN {}
                                            ELSE {d.active.req} \cap Requests)]
    IN  IF verdict = "COMPLETED" THEN AfterCompletion(over) ELSE AfterFailure(over)

(* Past the MCP refresh, start() asks no more whether a run is active.     *)
Begin(d, run, fault) ==
    LET count(n, r, counted) == IF counted /\ r = run.req THEN n + 1 ELSE n
        begun == [d EXCEPT !.rsm = AwaitProvider(StartRun(@)),
                           !.active = run,
                           !.begun = [r \in Requests |-> count(@[r], r, ~run.compaction)],
                           !.compacted = [r \in Requests |-> count(@[r], r, run.compaction)]]
    IN  IF fault = "start" THEN EndRun(begun, "FAILED") ELSE begun

(* The end of start_request, and agent_controller_t::start(): it returns   *)
(* early while a run is active.                                            *)
StartController(d, run, fault) ==
    LET ready == [d EXCEPT !.over = FALSE, !.stopEnabled = TRUE]
    IN  IF Running(d) THEN ready
        ELSE IF fault = "connecting"
        THEN [ready EXCEPT !.starting = <<run>> \o @]
        ELSE Begin(ready, run, fault)

AutoCompactNeeded(d, compaction) ==
    ~compaction /\ ~d.skip /\ d.over /\ d.deferred = NoRequest

(* start_request; an automatic compaction takes the request's place.       *)
StartRequest(d, run, fault) ==
    LET next == [d EXCEPT !.skip = FALSE]
    IN  IF fault = "image" /\ ~run.compaction
        THEN Discard(d, {run.req})
        ELSE IF AutoCompactNeeded(d, run.compaction)
        THEN StartController([next EXCEPT !.deferred = run.req],
                             [run EXCEPT !.compaction = TRUE], fault)
        ELSE StartController(next, run, fault)

Plain(r) == [req |-> r, compaction |-> FALSE]

MaybeStartNextQueuedRequest(d, fault) ==
    IF Running(d) \/ d.queue = <<>> THEN d
    ELSE StartRequest([d EXCEPT !.queue = Tail(@)], Plain(Head(d.queue)), fault)

ClearChatState(d) ==
    [Discard(d, Held(d)) EXCEPT !.queue = <<>>, !.deferred = NoRequest,
                                !.skip = FALSE, !.over = FALSE, !.shown = FALSE]

(* on_stop_clicked with agent_controller_t::stop().                        *)
StopClicked(d) ==
    LET dropped == [Discard(d, {d.deferred}) EXCEPT !.deferred = NoRequest]
    IN  [(IF Running(d) THEN EndRun(dropped, "STOPPED") ELSE dropped)
           EXCEPT !.stopEnabled = FALSE]

-----------------------------------------------------------------------------
(* Events.                                                                 *)

(* Posted calls are served at the start of an event loop's turn.           *)
LoopIsFree == PostedFirst => dock.posted = <<>>

UserMayClick == LoopIsFree /\ (ClicksWhileConnecting \/ dock.starting = <<>>)

NextRequest == dock.made + 1

(* on_run_clicked with no run active; while one is, the text steers it.    *)
OnRunClicked ==
    /\ UserMayClick
    /\ NextRequest \in Requests
    /\ ~Running(dock)
    /\ \E fault \in Faults :
        dock' = StartRequest([dock EXCEPT !.made = NextRequest], Plain(NextRequest), fault)

OnQueueClicked ==
    /\ UserMayClick
    /\ NextRequest \in Requests
    /\ LET queued == [dock EXCEPT !.made = NextRequest, !.queue = Append(@, NextRequest)]
       IN  IF Running(dock) \/ dock.deferred # NoRequest
           THEN dock' = queued
           ELSE \E fault \in Faults : dock' = MaybeStartNextQueuedRequest(queued, fault)

(* Run with /compact: refused while a run is active.                       *)
OnCompactCommand ==
    /\ UserMayClick
    /\ ~Running(dock)
    /\ \E fault \in Faults \ {"image"} :
        dock' = StartRequest(dock, [req |-> NoRequest, compaction |-> TRUE], fault)

OnStopClicked ==
    /\ UserMayClick
    /\ dock.stopEnabled
    /\ dock' = StopClicked(dock)

(* New chat stops the run; another conversation is refused until then.     *)
OnNewChatClicked ==
    /\ UserMayClick
    /\ dock' = ClearChatState(IF dock.stopEnabled THEN StopClicked(dock) ELSE dock)

OnConversationSelected ==
    /\ UserMayClick
    /\ ~dock.stopEnabled
    /\ dock' = ClearChatState(dock)

(* Mutant: a reload shows the dock at rest.                                *)
ReloadSessionAtRest ==
    /\ LoopIsFree
    /\ Reloads
    /\ dock' = [ClearChatState(dock) EXCEPT !.stopEnabled = FALSE]

(* reload_session_from_disk: the chat is cleared, the buttons stay.        *)
ReloadSessionFromDisk ==
    /\ LoopIsFree
    /\ Reloads
    /\ dock' = ClearChatState(dock)

(* The run asks the user, the user answers, or a follow-up message takes   *)
(* the question back.  A compaction run asks nothing.                      *)
RunAsks ==
    /\ LoopIsFree
    /\ ~dock.active.compaction
    /\ \E wait \in UserWaits :
        /\ AwaitUser(dock.rsm, wait) = wait
        /\ dock.rsm # wait
        /\ dock' = [dock EXCEPT !.rsm = wait, !.shown = TRUE]

UserAnswers ==
    /\ LoopIsFree
    /\ Waiting(dock)
    /\ dock.shown
    /\ dock' = [dock EXCEPT !.rsm = AwaitProvider(@), !.shown = FALSE]

UserSteers ==
    /\ LoopIsFree
    /\ dock.rsm \in UserWaits \ {"WAITING_FOR_USER_DECISION"}
    /\ dock' = [dock EXCEPT !.rsm = AwaitProvider(@), !.shown = FALSE]

(* Usage reports add up in displayed_usage.                                *)
OnProviderUsage ==
    /\ LoopIsFree
    /\ dock.rsm = "WAITING_FOR_PROVIDER"
    /\ ~dock.over
    /\ dock' = [dock EXCEPT !.over = TRUE]

RunEnds ==
    /\ LoopIsFree
    /\ dock.rsm = "WAITING_FOR_PROVIDER"
    /\ \E verdict \in {"COMPLETED", "FAILED"} : dock' = EndRun(dock, verdict)

(* The last hunk of an inline review completes the run.                    *)
ReviewEnds ==
    /\ LoopIsFree
    /\ dock.rsm = "WAITING_FOR_INLINE_DIFF_REVIEW"
    /\ dock.shown
    /\ dock' = EndRun(dock, "COMPLETED")

(* The event loop serves the first posted call.                            *)
ServePosted ==
    /\ dock.posted # <<>>
    /\ LET head == Head(dock.posted)
           rest == [dock EXCEPT !.posted = Tail(@)]
       IN  \E fault \in Faults :
             \/ head.call = "start" /\ dock' = StartRequest(rest, Plain(head.req), fault)
             \/ head.call = "next" /\ dock' = MaybeStartNextQueuedRequest(rest, fault)

(* The MCP refresh of the innermost start() is over.                       *)
StartReturns ==
    /\ dock.starting # <<>>
    /\ \E fault \in {NoFault, "start"} :
        dock' = Begin([dock EXCEPT !.starting = Tail(@)], Head(dock.starting), fault)

DockNext ==
    \/ OnRunClicked
    \/ OnQueueClicked
    \/ OnCompactCommand
    \/ OnStopClicked
    \/ OnNewChatClicked
    \/ OnConversationSelected
    \/ ReloadSessionFromDisk
    \/ RunAsks
    \/ UserAnswers
    \/ UserSteers
    \/ OnProviderUsage
    \/ RunEnds
    \/ ReviewEnds
    \/ ServePosted
    \/ StartReturns

DockSpec == DockInit /\ [][DockNext]_dockVars

(* The event loop serves posted calls, connecting times out, and a run     *)
(* that waits for its provider ends (the controller's watchdog).           *)
DockFairness ==
    /\ WF_dockVars(ServePosted)
    /\ WF_dockVars(StartReturns)
    /\ WF_dockVars(RunEnds)

DockFairSpec == DockSpec /\ DockFairness
=============================================================================
