------------------------ MODULE AgentControllerProofs -----------------------
(***************************************************************************)
(* Theorems about AgentController, for all values of its constants.  There *)
(* are four parts.                                                         *)
(*                                                                         *)
(* Types (TypeCorrect).  A handler is a chain of record edits that ends in *)
(* a tail action: there is one lemma per field of the record, one per      *)
(* named edit, one per tail and one per event.                             *)
(*                                                                         *)
(* Progress of a run.  An active run keeps its follow-up messages in order *)
(* and loses none (SteersKeptInOrder), and a run that completes has        *)
(* delivered them all (CompletedRunHeardEverySteer).  The second needs     *)
(* ZeroTimersFirst and is not inductive: a review of inline diffs can be   *)
(* finalised over a queued message unless the zero timer that delivers the *)
(* message is still posted, and is served first; TimerPosted says that it  *)
(* is.                                                                     *)
(*                                                                         *)
(* Requests and waits.  At most one request of an active run is            *)
(* outstanding (OneOutstandingRequest), the watchdog is armed exactly      *)
(* while one is (WatchdogCoversWait), an approval or a decision is pending *)
(* exactly while it is waited for (PendingMatchesWait), and max_iterations  *)
(* bounds the requests of a run with the uncounted compaction requests     *)
(* included (RequestsAreBounded).                                          *)
(*                                                                         *)
(* The life of runs.  The controller implements RunLifecycle               *)
(* (ImplementsLifecycle), and the rows of the database follow the runs     *)
(* (RowsFollowRuns).  Both hold when no MCP refresh spins an event loop in *)
(* start(), whatever the tools do: a start() suspended there comes back    *)
(* without looking whether another run has begun.  Every handler does one  *)
(* of three things to the fields that make up a run's life: it leaves them *)
(* (SameRun), it ends the active run (Ends), or it resets them for a new   *)
(* run that goes on or ends at once (Begins).  One lemma per handler says  *)
(* which, without any invariant; the invariant and the refinement are then *)
(* proved from StepMoves alone.                                            *)
(***************************************************************************)
EXTENDS AgentControllerProperties, FiniteSetTheorems, TLAPS

-----------------------------------------------------------------------------
(***************************************************************************)
(* PART 1.  TYPES                                                          *)
(***************************************************************************)

(* A field may be replaced by any value of its type.                       *)

(* Replacing the state of the lifecycle machine keeps the record's type.   *)
LEMMA RsmEdit == ASSUME NEW c \in Controller, NEW x \in States
                 PROVE  [c EXCEPT !.rsm = x] \in Controller
BY DEF Controller

(* Replacing the dry-run switch keeps the record's type.                   *)
LEMMA DryRunEdit == ASSUME NEW c \in Controller, NEW x \in BOOLEAN
                    PROVE  [c EXCEPT !.dryRun = x] \in Controller
BY DEF Controller

(* Replacing the ask-mode switch keeps the record's type.                  *)
LEMMA AskEdit == ASSUME NEW c \in Controller, NEW x \in BOOLEAN
                 PROVE  [c EXCEPT !.ask = x] \in Controller
BY DEF Controller

(* Replacing the compaction-run switch keeps the record's type.            *)
LEMMA CompactionEdit == ASSUME NEW c \in Controller, NEW x \in BOOLEAN
                        PROVE  [c EXCEPT !.compaction = x] \in Controller
BY DEF Controller

(* Replacing the request counter keeps the record's type.                  *)
LEMMA IterEdit == ASSUME NEW c \in Controller, NEW x \in Nat
                  PROVE  [c EXCEPT !.iter = x] \in Controller
BY DEF Controller

(* Replacing the tool call counter keeps the record's type.                *)
LEMMA CallsEdit == ASSUME NEW c \in Controller, NEW x \in Nat
                   PROVE  [c EXCEPT !.calls = x] \in Controller
BY DEF Controller

(* Replacing the retries of malformed replies keeps the record's type.     *)
LEMMA TextRetriesEdit == ASSUME NEW c \in Controller, NEW x \in Nat
                         PROVE  [c EXCEPT !.textRetries = x] \in Controller
BY DEF Controller

(* Replacing the retries of ask mode keeps the record's type.              *)
LEMMA ModeRetriesEdit == ASSUME NEW c \in Controller, NEW x \in Nat
                         PROVE  [c EXCEPT !.modeRetries = x] \in Controller
BY DEF Controller

(* Replacing the pending approvals keeps the record's type.                *)
LEMMA ApprovalsEdit == ASSUME NEW c \in Controller, NEW x \in SUBSET Approval
                       PROVE  [c EXCEPT !.approvals = x] \in Controller
BY DEF Controller

(* Replacing the next approval id keeps the record's type.                 *)
LEMMA NextApprovalEdit == ASSUME NEW c \in Controller, NEW x \in Nat
                          PROVE  [c EXCEPT !.nextApproval = x] \in Controller
BY DEF Controller

(* Replacing the pending decision keeps the record's type.                 *)
LEMMA DecisionEdit == ASSUME NEW c \in Controller, NEW x \in BOOLEAN
                      PROVE  [c EXCEPT !.decision = x] \in Controller
BY DEF Controller

(* Replacing the queued follow-up messages keeps the record's type.        *)
LEMMA SteersEdit == ASSUME NEW c \in Controller, NEW x \in Seq(Nat)
                    PROVE  [c EXCEPT !.steers = x] \in Controller
BY DEF Controller

(* Replacing the posted follow-up timers keeps the record's type.          *)
LEMMA SteerTimersEdit == ASSUME NEW c \in Controller, NEW x \in Nat
                         PROVE  [c EXCEPT !.steerTimers = x] \in Controller
BY DEF Controller

(* Replacing the mid-run compaction flag keeps the record's type.          *)
LEMMA MidRunEdit == ASSUME NEW c \in Controller, NEW x \in BOOLEAN
                    PROVE  [c EXCEPT !.midRun = x] \in Controller
BY DEF Controller

(* Replacing the usage over the threshold keeps the record's type.         *)
LEMMA HighEdit == ASSUME NEW c \in Controller, NEW x \in BOOLEAN
                  PROVE  [c EXCEPT !.high = x] \in Controller
BY DEF Controller

(* Replacing the stored run's id keeps the record's type.                  *)
LEMMA RunIdEdit == ASSUME NEW c \in Controller, NEW x \in Nat
                   PROVE  [c EXCEPT !.runId = x] \in Controller
BY DEF Controller

(* Replacing the armed watchdog keeps the record's type.                   *)
LEMMA WatchdogEdit == ASSUME NEW c \in Controller, NEW x \in BOOLEAN
                      PROVE  [c EXCEPT !.watchdog = x] \in Controller
BY DEF Controller

(* Replacing the queued replies keeps the record's type.                   *)
LEMMA ResponsesEdit == ASSUME NEW c \in Controller, NEW x \in Seq(Response)
                       PROVE  [c EXCEPT !.responses = x] \in Controller
BY DEF Controller

(* Replacing the posted drain keeps the record's type.                     *)
LEMMA DispatchEdit == ASSUME NEW c \in Controller, NEW x \in BOOLEAN
                      PROVE  [c EXCEPT !.dispatch = x] \in Controller
BY DEF Controller

(* Replacing the running drain keeps the record's type.                    *)
LEMMA DrainingEdit == ASSUME NEW c \in Controller, NEW x \in BOOLEAN
                      PROVE  [c EXCEPT !.draining = x] \in Controller
BY DEF Controller

(* Replacing the suspended calls keeps the record's type.                  *)
LEMMA FramesEdit == ASSUME NEW c \in Controller, NEW x \in Seq(Frame)
                    PROVE  [c EXCEPT !.frames = x] \in Controller
BY DEF Controller

(* Replacing the rows keeps the record's type.                             *)
LEMMA StoreEdit == ASSUME NEW c \in Controller, NEW x \in [Runs -> RowStatus]
                   PROVE  [c EXCEPT !.store = x] \in Controller
BY DEF Controller

(* Replacing the number of runs keeps the record's type.                   *)
LEMMA RunEdit == ASSUME NEW c \in Controller, NEW x \in Nat
                 PROVE  [c EXCEPT !.run = x] \in Controller
BY DEF Controller

(* Replacing the announced verdicts keeps the record's type.               *)
LEMMA EndingsEdit == ASSUME NEW c \in Controller, NEW x \in [Runs -> Seq(Verdicts)]
                     PROVE  [c EXCEPT !.endings = x] \in Controller
BY DEF Controller

(* Replacing the accepted messages keeps the record's type.                *)
LEMMA AcceptedEdit == ASSUME NEW c \in Controller, NEW x \in Nat
                      PROVE  [c EXCEPT !.accepted = x] \in Controller
BY DEF Controller

(* Replacing the delivered messages keeps the record's type.               *)
LEMMA DeliveredEdit == ASSUME NEW c \in Controller, NEW x \in Seq(Nat)
                       PROVE  [c EXCEPT !.delivered = x] \in Controller
BY DEF Controller

(* Replacing the compaction requests keeps the record's type.              *)
LEMMA CompactionsEdit == ASSUME NEW c \in Controller, NEW x \in Nat
                         PROVE  [c EXCEPT !.compactions = x] \in Controller
BY DEF Controller

(* Replacing the unrecorded runs keeps the record's type.                  *)
LEMMA UnrecordedEdit == ASSUME NEW c \in Controller, NEW x \in SUBSET Nat
                        PROVE  [c EXCEPT !.unrecorded = x] \in Controller
BY DEF Controller

-----------------------------------------------------------------------------
(* Named edits of the record                                               *)

(* Announcing a verdict extends one run's sequence of verdicts.            *)
LEMMA AnnounceType ==
    ASSUME NEW endings \in [Runs -> Seq(Verdicts)], NEW run, NEW verdict \in Verdicts
    PROVE  Announce(endings, run, verdict) \in [Runs -> Seq(Verdicts)]
<1>1. CASE run \in Runs
  <2>1. endings[run] \in Seq(Verdicts)
    BY <1>1
  <2>2. Append(endings[run], verdict) \in Seq(Verdicts)
    BY <2>1
  <2> QED
    BY <2>2 DEF Announce
<1>2. CASE run \notin Runs
  BY <1>2 DEF Announce
<1> QED
  BY <1>1, <1>2

(* FinishRun: the verdict, the final row and the announcement are typed.   *)
LEMMA FinishRunType ==
    ASSUME NEW c \in Controller, NEW verdict \in Verdicts, NEW written \in BOOLEAN
    PROVE  FinishRun(c, verdict, written) \in Controller
<1> DEFINE state == Mark(c.rsm, verdict)
           rows == FinalizePersistentRun(c.store, c.runId, verdict, written)
           lost == Unrecorded(c, written)
           said == Announce(c.endings, c.run, verdict)
<1>1. state \in States
  BY DEF Controller, Mark, States
<1>2. rows \in [Runs -> RowStatus]
  BY DEF Controller, FinalizePersistentRun, StatusOf, RowStatus
<1>3. said \in [Runs -> Seq(Verdicts)]
  <2>1. c.endings \in [Runs -> Seq(Verdicts)]
    BY DEF Controller
  <2> QED
    BY <2>1, AnnounceType
<1>4. lost \in SUBSET Nat
  BY DEF Controller, Unrecorded
<1>5. FinishRun(c, verdict, written) =
        [c EXCEPT !.rsm = state, !.store = rows, !.unrecorded = lost,
                  !.runId = 0, !.endings = said]
  BY DEF FinishRun
<1> HIDE DEF state, rows, lost, said
<1> DEFINE d == [c EXCEPT !.rsm = state, !.store = rows]
<1>6. d \in Controller
  BY <1>1, <1>2, RsmEdit, StoreEdit
<1> DEFINE e == [d EXCEPT !.unrecorded = lost, !.runId = 0]
<1>7. FinishRun(c, verdict, written) = [e EXCEPT !.endings = said]
  BY <1>5
<1> HIDE DEF d
<1>8. 0 \in Nat
  OBVIOUS
<1>9. e \in Controller
  BY <1>4, <1>6, <1>8, UnrecordedEdit, RunIdEdit
<1> HIDE DEF e
<1> QED
  BY <1>3, <1>7, <1>9, EndingsEdit

(* ApplySoftSteer moves queued messages to the prompt.                     *)
LEMMA ApplySoftSteerType ==
    ASSUME NEW c \in Controller
    PROVE  ApplySoftSteer(c) \in Controller
<1>1. c.delivered \o c.steers \in Seq(Nat)
  BY DEF Controller
<1>2. <<>> \in Seq(Nat)
  OBVIOUS
<1> QED
  BY <1>1, <1>2, ApprovalsEdit, DecisionEdit, DeliveredEdit, SteersEdit DEF ApplySoftSteer

(* RequestApproval adds a pending approval and waits for the user.         *)
LEMMA RequestApprovalType ==
    ASSUME NEW c \in Controller, NEW tool \in Names
    PROVE  RequestApproval(c, tool) \in Controller
<1>1. c.approvals \cup {[id |-> c.nextApproval, tool |-> tool]} \in SUBSET Approval
  BY DEF Controller, Approval
<1>2. c.nextApproval + 1 \in Nat
  BY DEF Controller
<1>3. AwaitUser(c.rsm, "WAITING_FOR_APPROVAL") \in States
  BY DEF Controller, AwaitUser, States, RunningStates, UserWaits
<1> QED
  BY <1>1, <1>2, <1>3, ApprovalsEdit, NextApprovalEdit, RsmEdit DEF RequestApproval

(* ToolFrame describes a suspended tool call of the current run.           *)
LEMMA ToolFrameType ==
    ASSUME NEW c \in Controller, NEW call \in {"execute_tool", "approve_action"}
    PROVE  ToolFrame(call, c) \in Frame
<1>1. c.run \in Nat /\ c.dryRun \in BOOLEAN /\ c.ask \in BOOLEAN /\ c.compaction \in BOOLEAN
  BY DEF Controller
<1> QED
  BY <1>1 DEF ToolFrame, NewFrame, Frame

(* Suspend pushes the frame of the suspended call.                         *)
LEMMA SuspendType ==
    ASSUME NEW c \in Controller, NEW frame \in Frame
    PROVE  Suspend(c, frame) \in Controller
<1>1. c.draining \in BOOLEAN /\ c.frames \in Seq(Frame)
  BY DEF Controller
<1> DEFINE top == [frame EXCEPT !.draining = c.draining]
<1>2. top \in Frame
  BY <1>1 DEF Frame
<1> HIDE DEF top
<1>3. <<top>> \o c.frames \in Seq(Frame)
  BY <1>1, <1>2
<1> QED
  BY <1>3, FramesEdit, DrainingEdit DEF Suspend, top

(* Settle: the drain loop goes on while replies are queued.                *)
LEMMA SettleType ==
    ASSUME NEW c \in Controller
    PROVE  Settle(c) \in Controller
<1>1. (c.draining /\ c.responses # <<>>) \in BOOLEAN
  OBVIOUS
<1> QED
  BY <1>1, DrainingEdit DEF Settle

-----------------------------------------------------------------------------
(* Tails of handlers                                                       *)

(* Commit ends a handler.                                                  *)
LEMMA CommitType ==
    ASSUME NEW c \in Controller, inflight \in SUBSET Request, Commit(c)
    PROVE  TypeOK'
BY SettleType DEF Commit, TypeOK

(* So does the end of a run.                                               *)
LEMMA FinishType ==
    ASSUME NEW c \in Controller, NEW verdict \in Verdicts, inflight \in SUBSET Request,
           Finish(c, verdict)
    PROVE  TypeOK'
BY FinishRunType, CommitType DEF Finish

(* Send puts one request of the current run in flight.                     *)
LEMMA SendType ==
    ASSUME NEW c \in Controller, NEW kind \in {"agent", "compaction"},
           inflight \in SUBSET Request, Send(c, kind)
    PROVE  TypeOK'
<1> DEFINE refused == [c EXCEPT !.watchdog = FALSE, !.midRun = @ /\ kind # "compaction"]
           waiting == [c EXCEPT !.rsm = AwaitProvider(@), !.watchdog = TRUE]
           req == [run |-> c.run, iter |-> c.iter, kind |-> kind]
<1>1. refused \in Controller
  <2>1. (c.midRun /\ kind # "compaction") \in BOOLEAN
    OBVIOUS
  <2> QED
    BY <2>1, WatchdogEdit, MidRunEdit
<1>2. waiting \in Controller
  <2>1. AwaitProvider(c.rsm) \in States
    BY DEF Controller, AwaitProvider, States, RunningStates
  <2> QED
    BY <2>1, RsmEdit, WatchdogEdit
<1>3. req \in Request
  <2>1. c.run \in Nat /\ c.iter \in Nat
    BY DEF Controller
  <2> QED
    BY <2>1 DEF Request
<1> HIDE DEF refused, waiting, req
<1>4. \/ Finish(refused, "FAILED")
      \/ ctl' = Settle(waiting) /\ inflight' = inflight \cup {req}
  BY DEF Send, refused, waiting, req
<1> QED
  BY <1>1, <1>2, <1>3, <1>4, FinishType, CommitType, SettleType DEF TypeOK, Verdicts

(* A mid-run compaction fails the run or sends its hidden request.         *)
LEMMA StartMidRunAutoCompactionType ==
    ASSUME NEW c \in Controller, inflight \in SUBSET Request,
           StartMidRunAutoCompaction(c)
    PROVE  TypeOK'
<1> DEFINE n == c.compactions + 1
           d == [c EXCEPT !.midRun = TRUE, !.high = FALSE, !.compactions = n]
<1>1. n \in Nat
  BY DEF Controller
<1>2. Finish(c, "FAILED") \/ Send(d, "compaction")
  BY DEF StartMidRunAutoCompaction
<1> HIDE DEF n
<1>3. d \in Controller
  BY <1>1, MidRunEdit, HighEdit, CompactionsEdit
<1> QED
  BY <1>2, <1>3, FinishType, SendType DEF Verdicts

(* Counting one more request keeps the record's type.                      *)
LEMMA NextIterType ==
    ASSUME NEW c \in Controller
    PROVE  [c EXCEPT !.iter = @ + 1] \in Controller
<1>1. c.iter + 1 \in Nat
  BY DEF Controller
<1> QED
  BY <1>1, IterEdit

(* The tail nearly every handler ends in.                                  *)
LEMMA RunNextIterationType ==
    ASSUME NEW c \in Controller, inflight \in SUBSET Request, RunNextIteration(c)
    PROVE  TypeOK'
<1> DEFINE d == ApplySoftSteer(c)
<1>1. d \in Controller
  BY ApplySoftSteerType
<1> HIDE DEF d
<1>2. [d EXCEPT !.iter = @ + 1] \in Controller
  BY <1>1, NextIterType
<1>3. \/ Commit(c)
      \/ Finish(d, "FAILED")
      \/ StartMidRunAutoCompaction(d)
      \/ Send([d EXCEPT !.iter = @ + 1], "agent")
  BY DEF RunNextIteration, d
<1> QED
  BY <1>1, <1>2, <1>3, FinishType, CommitType, SendType,
     StartMidRunAutoCompactionType DEF Verdicts

(* The rest of execute_tool.                                               *)
LEMMA AfterToolType ==
    ASSUME NEW c \in Controller, inflight \in SUBSET Request, AfterTool(c)
    PROVE  TypeOK'
BY ApplySoftSteerType, RunNextIterationType DEF AfterTool

(* execute_tool.                                                           *)
LEMMA ExecuteToolType ==
    ASSUME NEW c \in Controller, NEW tool \in Names,
           inflight \in SUBSET Request, ExecuteTool(c, tool)
    PROVE  TypeOK'
<1> DEFINE counted == [c EXCEPT !.calls = @ + 1]
<1>1. counted \in Controller
  <2>1. c.calls + 1 \in Nat
    BY DEF Controller
  <2> QED
    BY <2>1, CallsEdit
<1>2. ToolFrame("execute_tool", c) \in Frame
  BY ToolFrameType
<1> HIDE DEF counted
<1>3. \/ Finish(c, "FAILED")
      \/ RunNextIteration(c)
      \/ Commit(RequestApproval(c, tool))
      \/ AfterTool(counted)
      \/ Commit(Suspend(counted, ToolFrame("execute_tool", c)))
  BY DEF ExecuteTool, counted
<1> QED
  BY <1>1, <1>2, <1>3, FinishType, RunNextIterationType, CommitType,
     RequestApprovalType, AfterToolType, SuspendType DEF Verdicts

-----------------------------------------------------------------------------
(* Replies                                                                 *)

(* The reply to a compaction request.                                      *)
LEMMA HandleCompactionReplyType ==
    ASSUME NEW c \in Controller, NEW reply, inflight \in SUBSET Request,
           HandleCompactionReply(c, reply)
    PROVE  TypeOK'
<1> DEFINE done == CompactionDone(c)
<1>1. done \in Controller
  BY MidRunEdit, HighEdit DEF CompactionDone
<1> HIDE DEF done
<1>2. \/ \E verdict \in Verdicts : Finish(c, verdict)
      \/ Finish(done, "FAILED")
      \/ RunNextIteration(done)
  BY DEF HandleCompactionReply, done, Verdicts
<1> QED
  BY <1>1, <1>2, FinishType, CommitType, RunNextIterationType DEF Verdicts

(* One more correction or reformat request.                                *)
LEMMA RetryType ==
    ASSUME NEW c \in Controller
    PROVE  /\ [c EXCEPT !.modeRetries = @ + 1] \in Controller
           /\ [c EXCEPT !.textRetries = @ + 1] \in Controller
<1>1. c.modeRetries + 1 \in Nat /\ c.textRetries + 1 \in Nat
  BY DEF Controller
<1> QED
  BY <1>1, ModeRetriesEdit, TextRetriesEdit

(* Waiting for a decision or for the review of inline diffs.               *)
LEMMA AwaitUserType ==
    ASSUME NEW c \in Controller, NEW wait \in UserWaits
    PROVE  /\ [c EXCEPT !.rsm = AwaitUser(@, wait)] \in Controller
           /\ [c EXCEPT !.decision = TRUE, !.rsm = AwaitUser(@, wait)] \in Controller
<1>1. AwaitUser(c.rsm, wait) \in States
  BY DEF Controller, AwaitUser, States, RunningStates
<1> QED
  BY <1>1, DecisionEdit, RsmEdit

(* The reply to a request of the agent.                                    *)
LEMMA HandleAgentReplyType ==
    ASSUME NEW c \in Controller, NEW reply \in Response, inflight \in SUBSET Request,
           HandleAgentReply(c, reply)
    PROVE  TypeOK'
<1> DEFINE corrected == [c EXCEPT !.modeRetries = @ + 1]
           reformatted == [c EXCEPT !.textRetries = @ + 1]
           review == [c EXCEPT !.rsm = AwaitUser(@, "WAITING_FOR_INLINE_DIFF_REVIEW")]
           asked == [c EXCEPT !.decision = TRUE,
                              !.rsm = AwaitUser(@, "WAITING_FOR_USER_DECISION")]
<1>1. corrected \in Controller /\ reformatted \in Controller
  BY RetryType
<1>2. review \in Controller /\ asked \in Controller
  BY AwaitUserType DEF UserWaits
<1>3. reply.tool \in Names
  BY DEF Response
<1> HIDE DEF corrected, reformatted, review, asked
<1>4. \/ \E verdict \in Verdicts : Finish(c, verdict)
      \/ RunNextIteration(corrected)
      \/ RunNextIteration(reformatted)
      \/ RunNextIteration(c)
      \/ ExecuteTool(c, reply.tool)
      \/ Commit(review)
      \/ Commit(asked)
      \/ Commit(RequestApproval(c, reply.tool))
  BY DEF HandleAgentReply, corrected, reformatted, review, asked, Verdicts
<1> QED
  BY <1>1, <1>2, <1>3, <1>4, FinishType, CommitType, RunNextIterationType,
     ExecuteToolType, RequestApprovalType

(* One queued reply.                                                       *)
LEMMA HandleResponseType ==
    ASSUME NEW c \in Controller, NEW reply \in Response, inflight \in SUBSET Request,
           HandleResponse(c, reply)
    PROVE  TypeOK'
<1> DEFINE answered == [c EXCEPT !.watchdog = FALSE]
           high == IF CompactionActive(c) THEN answered.high ELSE reply.high
           metered == [answered EXCEPT !.high = IF CompactionActive(c) THEN @ ELSE reply.high]
           retries == IF reply.type = "text" THEN metered.textRetries ELSE 0
           parsed == [metered EXCEPT !.textRetries = IF reply.type = "text" THEN @ ELSE 0]
           failed == [answered EXCEPT !.midRun = FALSE]
<1>1. answered \in Controller
  BY WatchdogEdit
<1>2. failed \in Controller
  BY <1>1, MidRunEdit
<1>3. metered \in Controller
  <2>1. high \in BOOLEAN
    BY <1>1 DEF Response, Controller
  <2>2. metered = [answered EXCEPT !.high = high]
    OBVIOUS
  <2> QED
    BY <1>1, <2>1, <2>2, HighEdit
<1>4. parsed \in Controller
  <2> HIDE DEF metered
  <2>1. retries \in Nat
    BY <1>3 DEF Controller
  <2>2. parsed = [metered EXCEPT !.textRetries = retries]
    OBVIOUS
  <2> QED
    BY <1>3, <2>1, <2>2, TextRetriesEdit
<1> HIDE DEF answered, metered, parsed, failed
<1>5. \/ Commit(c)
      \/ Finish(failed, "FAILED")
      \/ RunNextIteration(ApplySoftSteer(metered))
      \/ HandleCompactionReply(metered, reply)
      \/ HandleAgentReply(parsed, reply)
  BY DEF HandleResponse, answered, metered, parsed, failed
<1> QED
  BY <1>2, <1>3, <1>4, <1>5, FinishType, CommitType, RunNextIterationType,
     ApplySoftSteerType, HandleCompactionReplyType, HandleAgentReplyType DEF Verdicts

(* The drain loop takes one reply off its queue.                           *)
LEMMA DrainResponsesType ==
    ASSUME TypeOK, DrainResponses
    PROVE  TypeOK'
<1> DEFINE c == [ctl EXCEPT !.dispatch = @ /\ ctl.draining, !.draining = TRUE]
           left == Tail(c.responses)
<1>1. c \in Controller
  <2>1. (ctl.dispatch /\ ctl.draining) \in BOOLEAN
    OBVIOUS
  <2> QED
    BY <2>1, DispatchEdit, DrainingEdit DEF TypeOK
<1> HIDE DEF c
<1>2. c.responses \in Seq(Response)
  BY <1>1 DEF Controller
<1>3. CASE c.responses = <<>>
  BY <1>1, <1>3, CommitType DEF DrainResponses, TypeOK, c
<1>4. CASE c.responses # <<>>
  <2>1. Head(c.responses) \in Response /\ left \in Seq(Response)
    BY <1>2, <1>4
  <2>2. [c EXCEPT !.responses = left] \in Controller
    BY <1>1, <2>1, ResponsesEdit
  <2>3. HandleResponse([c EXCEPT !.responses = left], Head(c.responses))
    BY <1>4 DEF DrainResponses, c
  <2> QED
    BY <2>1, <2>2, <2>3, HandleResponseType DEF TypeOK
<1> QED
  BY <1>3, <1>4

-----------------------------------------------------------------------------
(* Starting and stopping                                                   *)

(* start() after the MCP refresh asks a freshly reset controller for its   *)
(* first request.  lost: the storage of the run was given up and its row   *)
(* could not be corrected.                                                 *)
LEMMA FreshRunType ==
    ASSUME NEW c \in Controller, NEW ask \in BOOLEAN, NEW dryRun \in BOOLEAN,
           NEW compaction \in BOOLEAN, StartAfterRefresh(c, ask, dryRun, compaction)
    PROVE  \E d \in Controller, row \in {"absent", "running", "error"}, lost \in BOOLEAN :
               /\ lost => row = "running"
               /\ RunNextIteration(d)
               /\ d.rsm = StartRun(c.rsm)
               /\ d.iter = 0
               /\ d.approvals = {}
               /\ d.decision = FALSE
               /\ d.steers = <<>>
               /\ d.delivered = <<>>
               /\ d.accepted = 0
               /\ d.responses = <<>>
               /\ d.store = [c.store EXCEPT ![c.run + 1] = row]
               /\ d.runId = (IF row = "running" /\ ~lost THEN c.run + 1 ELSE 0)
               /\ d.unrecorded = c.unrecorded \cup (IF lost THEN {c.run + 1} ELSE {})
               /\ d.run = c.run + 1
               /\ d.endings = c.endings
               /\ d.frames = c.frames
               /\ d.steerTimers = c.steerTimers
               /\ d.watchdog = c.watchdog
               /\ d.compactions = 0
               /\ d.high = FALSE
<1>1. PICK row \in {"absent", "running", "error"}, stored \in BOOLEAN :
        /\ stored => row = "running"
        /\ RunNextIteration(
            [c EXCEPT !.rsm = StartRun(@), !.dryRun = dryRun, !.ask = ask,
                      !.compaction = compaction, !.iter = 0, !.calls = 0,
                      !.textRetries = 0, !.modeRetries = 0, !.approvals = {},
                      !.decision = FALSE, !.steers = <<>>, !.midRun = FALSE,
                      !.high = FALSE, !.responses = <<>>, !.dispatch = FALSE,
                      !.store = [@ EXCEPT ![c.run + 1] = row],
                      !.runId = IF stored THEN c.run + 1 ELSE 0,
                      !.unrecorded = IF row = "running" /\ ~stored
                                     THEN @ \cup {c.run + 1} ELSE @,
                      !.run = c.run + 1, !.accepted = 0, !.delivered = <<>>,
                      !.compactions = 0])
  BY Zenon DEF StartAfterRefresh
<1> DEFINE s == StartRun(c.rsm)
           lost == row = "running" /\ ~stored
           st == [c.store EXCEPT ![c.run + 1] = row]
           id == IF stored THEN c.run + 1 ELSE 0
           un == IF lost THEN c.unrecorded \cup {c.run + 1} ELSE c.unrecorded
           r == c.run + 1
           c1 == [c EXCEPT !.rsm = s, !.dryRun = dryRun, !.ask = ask,
                           !.compaction = compaction, !.iter = 0, !.calls = 0,
                           !.textRetries = 0, !.modeRetries = 0, !.approvals = {}]
           c2 == [c1 EXCEPT !.decision = FALSE, !.steers = <<>>, !.midRun = FALSE,
                            !.high = FALSE, !.responses = <<>>, !.dispatch = FALSE]
           c3 == [c2 EXCEPT !.store = st, !.runId = id, !.unrecorded = un, !.run = r,
                            !.accepted = 0, !.delivered = <<>>, !.compactions = 0]
<1>2. s \in States
  BY DEF Controller, StartRun, States, RunningStates
<1>3. st \in [Runs -> RowStatus] /\ un \in SUBSET Nat
  <2>1. st \in [Runs -> RowStatus]
    BY DEF Controller, RowStatus
  <2>2. c.unrecorded \in SUBSET Nat /\ c.run \in Nat
    BY DEF Controller
  <2>3. un \in SUBSET Nat
    BY <2>2
  <2> QED
    BY <2>1, <2>3
<1>4. id \in Nat /\ r \in Nat
  BY DEF Controller
<1>5. <<>> \in Seq(Nat) /\ <<>> \in Seq(Response)
  OBVIOUS
<1>6. RunNextIteration(c3)
  <2>1. c3 = [c EXCEPT !.rsm = StartRun(@), !.dryRun = dryRun, !.ask = ask,
                     !.compaction = compaction, !.iter = 0, !.calls = 0,
                     !.textRetries = 0, !.modeRetries = 0, !.approvals = {},
                     !.decision = FALSE, !.steers = <<>>, !.midRun = FALSE,
                     !.high = FALSE, !.responses = <<>>, !.dispatch = FALSE,
                     !.store = [@ EXCEPT ![c.run + 1] = row],
                     !.runId = IF stored THEN c.run + 1 ELSE 0,
                     !.unrecorded = IF row = "running" /\ ~stored
                                    THEN @ \cup {c.run + 1} ELSE @,
                     !.run = c.run + 1, !.accepted = 0, !.delivered = <<>>,
                     !.compactions = 0]
    BY DEF Controller
  <2> HIDE DEF c3
  <2> QED
    BY <1>1, <2>1
<1>7. /\ lost \in BOOLEAN
      /\ lost => row = "running"
      /\ id = (IF row = "running" /\ ~lost THEN r ELSE 0)
      /\ un = c.unrecorded \cup (IF lost THEN {r} ELSE {})
  BY <1>1
<1> HIDE DEF s, st, id, un, r, lost
<1>8. c1 \in Controller
  BY <1>2, RsmEdit, DryRunEdit, AskEdit, CompactionEdit, IterEdit, CallsEdit,
     TextRetriesEdit, ModeRetriesEdit, ApprovalsEdit
<1> HIDE DEF c1
<1>9. c2 \in Controller
  BY <1>5, <1>8, DecisionEdit, SteersEdit, MidRunEdit, HighEdit, ResponsesEdit, DispatchEdit
<1> HIDE DEF c2
<1>10. c3 \in Controller
  BY <1>3, <1>4, <1>5, <1>9, StoreEdit, RunIdEdit, UnrecordedEdit, RunEdit, AcceptedEdit,
     DeliveredEdit, CompactionsEdit
<1>11. /\ c3.rsm = s
       /\ c3.iter = 0
       /\ c3.approvals = {}
       /\ c3.decision = FALSE
       /\ c3.steers = <<>>
       /\ c3.delivered = <<>>
       /\ c3.accepted = 0
       /\ c3.responses = <<>>
       /\ c3.high = FALSE
  BY DEF c1, c2, Controller
<1>12. /\ c3.store = st
       /\ c3.runId = id
       /\ c3.unrecorded = un
       /\ c3.run = r
       /\ c3.endings = c.endings
       /\ c3.frames = c.frames
       /\ c3.steerTimers = c.steerTimers
       /\ c3.watchdog = c.watchdog
       /\ c3.compactions = 0
  BY DEF c1, c2, Controller
<1> HIDE DEF c3
<1>13. /\ c3.rsm = StartRun(c.rsm)
       /\ c3.store = [c.store EXCEPT ![c.run + 1] = row]
       /\ c3.runId = (IF row = "running" /\ ~lost THEN c.run + 1 ELSE 0)
       /\ c3.unrecorded = c.unrecorded \cup (IF lost THEN {c.run + 1} ELSE {})
       /\ c3.run = c.run + 1
  BY <1>7, <1>11, <1>12 DEF s, st, r
<1> QED
  BY <1>6, <1>7, <1>10, <1>11, <1>12, <1>13

(* start() after the MCP refresh.                                          *)
LEMMA StartAfterRefreshType ==
    ASSUME NEW c \in Controller, NEW ask \in BOOLEAN, NEW dryRun \in BOOLEAN,
           NEW compaction \in BOOLEAN, inflight \in SUBSET Request,
           StartAfterRefresh(c, ask, dryRun, compaction)
    PROVE  TypeOK'
BY FreshRunType, RunNextIterationType

(* provider->cancel(), with or without a report of the cancellation.       *)
LEMMA CancelAndCommitType ==
    ASSUME NEW c \in Controller, inflight \in SUBSET Request, CancelAndCommit(c)
    PROVE  TypeOK'
<1>1. CASE ctl' = Settle(c)
  BY <1>1, SettleType DEF CancelAndCommit, TypeOK
<1>2. CASE \E req \in inflight :
             ctl' = Settle([c EXCEPT !.responses =
                                 Append(@, [req |-> req, type |-> "error",
                                            tool |-> NoTool, high |-> FALSE]),
                                     !.dispatch = TRUE])
  <2>1. PICK req \in inflight :
             ctl' = Settle([c EXCEPT !.responses =
                                 Append(@, [req |-> req, type |-> "error",
                                            tool |-> NoTool, high |-> FALSE]),
                                     !.dispatch = TRUE])
    BY <1>2
  <2> DEFINE reply == [req |-> req, type |-> "error", tool |-> NoTool, high |-> FALSE]
             queue == Append(c.responses, reply)
  <2>2. reply \in Response
    BY DEF Response, AllReplyTypes, Names
  <2> HIDE DEF reply
  <2>3. queue \in Seq(Response)
    BY <2>2 DEF Controller
  <2>4. [c EXCEPT !.responses = queue, !.dispatch = TRUE] \in Controller
    BY <2>3, ResponsesEdit, DispatchEdit
  <2> QED
    BY <2>1, <2>4, SettleType DEF CancelAndCommit, TypeOK, reply
<1> QED
  BY <1>1, <1>2 DEF CancelAndCommit

(* So with the end of a run.                                               *)
LEMMA CancelAndFinishType ==
    ASSUME NEW c \in Controller, NEW verdict \in Verdicts, inflight \in SUBSET Request,
           CancelAndFinish(c, verdict)
    PROVE  TypeOK'
BY FinishRunType, CancelAndCommitType DEF CancelAndFinish

(* start(), at once or suspended by the MCP refresh.                       *)
LEMMA UserStartsType == ASSUME TypeOK, UserStarts PROVE TypeOK'
<1>1. PICK ask \in BOOLEAN, dryRun \in BOOLEAN, compaction \in BOOLEAN :
        Start(ask, dryRun, compaction)
  BY DEF UserStarts
<1>2. ctl \in Controller /\ inflight \in SUBSET Request
  BY DEF TypeOK
<1>3. CASE StartAfterRefresh(ctl, ask, dryRun, compaction)
  BY <1>2, <1>3, StartAfterRefreshType
<1>4. CASE Commit(Suspend(ctl, NewFrame("start", 0, dryRun, ask, compaction)))
  <2>1. NewFrame("start", 0, dryRun, ask, compaction) \in Frame
    BY DEF NewFrame, Frame
  <2> QED
    BY <1>2, <1>4, <2>1, SuspendType, CommitType
<1> QED
  BY <1>1, <1>3, <1>4 DEF Start

(* stop().                                                                 *)
LEMMA StopType == ASSUME TypeOK, Stop PROVE TypeOK'
<1> DEFINE c == [ctl EXCEPT !.midRun = FALSE, !.high = FALSE, !.steers = <<>>,
                            !.decision = FALSE, !.watchdog = FALSE]
<1>1. <<>> \in Seq(Nat)
  OBVIOUS
<1>2. c \in Controller
  BY <1>1, MidRunEdit, HighEdit, SteersEdit, DecisionEdit, WatchdogEdit DEF TypeOK
<1> HIDE DEF c
<1>3. CancelAndFinish(c, "STOPPED")
  BY DEF Stop, c
<1> QED
  BY <1>2, <1>3, CancelAndFinishType DEF TypeOK, Verdicts

(* handle_provider_inactivity_timeout.                                     *)
LEMMA TimeoutType == ASSUME TypeOK, ProviderInactivityTimeout PROVE TypeOK'
<1> DEFINE fired == [ctl EXCEPT !.watchdog = FALSE]
<1>1. fired \in Controller
  BY WatchdogEdit DEF TypeOK
<1>2. CancelAndFinish(fired, "FAILED") \/ Commit(fired)
  BY DEF ProviderInactivityTimeout
<1> HIDE DEF fired
<1> QED
  BY <1>1, <1>2, CancelAndFinishType, CommitType DEF TypeOK, Verdicts

-----------------------------------------------------------------------------
(* The provider                                                            *)

(* The completion callback queues a reply.                                 *)
LEMMA ProviderAnswersType == ASSUME TypeOK, ProviderAnswers PROVE TypeOK'
<1>0. PICK req \in inflight, type \in ReplyTypes, high \in Usage :
        \E tool \in ToolOf(type) : ProviderReplies(req, type, tool, high)
  BY DEF ProviderAnswers
<1>1. PICK tool \in ToolOf(type) : ProviderReplies(req, type, tool, high)
  BY <1>0
<1>2. ctl \in Controller /\ inflight \in SUBSET Request /\ req \in Request
  BY DEF TypeOK
<1> DEFINE reply == [req |-> req, type |-> type, tool |-> tool, high |-> high]
           queue == Append(ctl.responses, reply)
<1>3. high \in BOOLEAN
  BY DEF Usage
<1>4. tool \in Names
  BY ToolAssumption DEF ToolOf, Names
<1>5. reply \in Response
  BY <1>2, <1>3, <1>4, ReplyAssumption DEF Response
<1> HIDE DEF reply
<1>6. queue \in Seq(Response)
  BY <1>2, <1>5 DEF Controller
<1>7. [ctl EXCEPT !.responses = queue, !.dispatch = TRUE] \in Controller
  BY <1>2, <1>6, ResponsesEdit, DispatchEdit
<1> QED
  BY <1>1, <1>2, <1>7 DEF ProviderReplies, TypeOK, reply

(* A stream delta.                                                         *)
LEMMA ProviderStreamsType == ASSUME TypeOK, ProviderStreams PROVE TypeOK'
<1>1. (ctl.watchdog \/ ctl.rsm = "WAITING_FOR_PROVIDER") \in BOOLEAN
  OBVIOUS
<1> QED
  BY <1>1, WatchdogEdit DEF ProviderStreams, TypeOK

-----------------------------------------------------------------------------
(* The user                                                                *)

(* A follow-up message is queued and may post a timer.                     *)
LEMMA EnqueueType == ASSUME TypeOK, EnqueueSoftSteerMessage PROVE TypeOK'
<1>1. ctl \in Controller /\ inflight \in SUBSET Request
  BY DEF TypeOK
<1> DEFINE queue == Append(ctl.steers, ctl.accepted + 1)
           count == ctl.accepted + 1
           timers == IF ctl.rsm \in {"WAITING_FOR_APPROVAL", "WAITING_FOR_INLINE_DIFF_REVIEW"}
                     THEN ctl.steerTimers + 1 ELSE ctl.steerTimers
           c == [ctl EXCEPT !.steers = queue, !.accepted = count, !.steerTimers = timers]
<1>2. ctl.steers \in Seq(Nat) /\ ctl.accepted \in Nat /\ ctl.steerTimers \in Nat
  BY <1>1 DEF Controller
<1>3. queue \in Seq(Nat) /\ count \in Nat /\ timers \in Nat
  BY <1>2
<1>4. Commit(c)
  BY DEF EnqueueSoftSteerMessage
<1> HIDE DEF queue, count, timers
<1>5. c \in Controller
  BY <1>1, <1>3, SteersEdit, AcceptedEdit, SteerTimersEdit
<1> HIDE DEF c
<1> QED
  BY <1>1, <1>4, <1>5, CommitType

(* The lambda posted for a follow-up message.                              *)
LEMMA SoftSteerTimerType == ASSUME TypeOK, SoftSteerTimer PROVE TypeOK'
<1>1. ctl \in Controller /\ inflight \in SUBSET Request
  BY DEF TypeOK
<1> DEFINE left == ctl.steerTimers - 1
           c == [ctl EXCEPT !.steerTimers = left]
<1>2. ctl.steerTimers \in Nat /\ ctl.steerTimers > 0
  BY <1>1 DEF Controller, SoftSteerTimer
<1>3. left \in Nat
  BY <1>2
<1>4. RunNextIteration(ApplySoftSteer(c)) \/ Commit(c)
  BY DEF SoftSteerTimer
<1> HIDE DEF left
<1>5. c \in Controller
  BY <1>1, <1>3, SteerTimersEdit
<1> HIDE DEF c
<1> QED
  BY <1>1, <1>4, <1>5, ApplySoftSteerType, RunNextIterationType, CommitType

(* The user approves, denies or resolves a pending approval.               *)
LEMMA UserAnswersApprovalType == ASSUME TypeOK, UserAnswersApproval PROVE TypeOK'
<1>1. PICK approval \in ctl.approvals :
        \/ ApproveAction(approval)
        \/ DenyAction(approval)
        \/ \E anyAccepted \in BOOLEAN : ResolveInlineApproval(approval, anyAccepted)
  BY DEF UserAnswersApproval
<1>2. ctl \in Controller /\ inflight \in SUBSET Request
  BY DEF TypeOK
<1> DEFINE left == ctl.approvals \ {approval}
           c == [ctl EXCEPT !.approvals = left]
           n == c.calls + 1
           counted == [c EXCEPT !.calls = n]
<1>3. left \in SUBSET Approval
  BY <1>2 DEF Controller
<1> HIDE DEF left
<1>4. c \in Controller
  BY <1>2, <1>3, ApprovalsEdit
<1> HIDE DEF c
<1>5. n \in Nat
  BY <1>4 DEF Controller
<1> HIDE DEF n
<1>6. counted \in Controller
  BY <1>4, <1>5, CallsEdit
<1> HIDE DEF counted
<1>7. CASE ApproveAction(approval)
  <2>1. ToolFrame("approve_action", c) \in Frame
    BY <1>4, ToolFrameType
  <2>2. \/ RunNextIteration(c)
        \/ Commit(Suspend(counted, ToolFrame("approve_action", c)))
        \/ RunNextIteration(counted)
    BY <1>7 DEF ApproveAction, c, counted, n, left
  <2> QED
    BY <1>2, <1>4, <1>6, <2>1, <2>2, SuspendType, CommitType, RunNextIterationType
<1>8. CASE DenyAction(approval)
  <2>1. RunNextIteration(c)
    BY <1>8 DEF DenyAction, c, left
  <2> QED
    BY <1>2, <1>4, <2>1, RunNextIterationType
<1>9. CASE \E anyAccepted \in BOOLEAN : ResolveInlineApproval(approval, anyAccepted)
  <2>1. PICK anyAccepted \in BOOLEAN : ResolveInlineApproval(approval, anyAccepted)
    BY <1>9
  <2> DEFINE m == IF anyAccepted THEN ctl.calls + 1 ELSE ctl.calls
             resolved == [ctl EXCEPT !.approvals = left, !.calls = m]
  <2>2. m \in Nat
    BY <1>2 DEF Controller
  <2>3. RunNextIteration(resolved)
    BY <2>1 DEF ResolveInlineApproval, left
  <2> HIDE DEF m
  <2>4. resolved \in Controller
    BY <1>2, <1>3, <2>2, ApprovalsEdit, CallsEdit
  <2> HIDE DEF resolved
  <2> QED
    BY <1>2, <2>3, <2>4, RunNextIterationType
<1> QED
  BY <1>1, <1>7, <1>8, <1>9

(* A decision of the user.                                                 *)
LEMMA SubmitUserDecisionType == ASSUME TypeOK, SubmitUserDecision PROVE TypeOK'
BY DecisionEdit, RunNextIterationType DEF SubmitUserDecision, TypeOK

(* The outcome of an inline diff review.                                   *)
LEMMA ReviewType ==
    ASSUME TypeOK, RequestInlineDiffRefinement \/ FinalizeInlineDiffReview
    PROVE  TypeOK'
BY FinishType, CommitType, RunNextIterationType
DEF RequestInlineDiffRefinement, FinalizeInlineDiffReview, TypeOK, Verdicts

-----------------------------------------------------------------------------
(* Return of a nested event loop                                           *)

(* Popping the innermost frame keeps the record's type.                    *)
LEMMA ResumedType ==
    ASSUME TypeOK, ctl.frames # <<>>
    PROVE  Resumed \in Controller /\ Head(ctl.frames) \in Frame
<1>1. ctl.frames \in Seq(Frame)
  BY DEF TypeOK, Controller
<1>2. Head(ctl.frames) \in Frame /\ Tail(ctl.frames) \in Seq(Frame)
  BY <1>1
<1>3. Head(ctl.frames).draining \in BOOLEAN
  BY <1>2 DEF Frame
<1> QED
  BY <1>2, <1>3, FramesEdit, DrainingEdit DEF Resumed, TypeOK

(* A suspended tool call or start goes on.                                 *)
LEMMA ReturnsType ==
    ASSUME TypeOK, ExecuteToolReturns \/ ApproveActionReturns \/ StartReturns
    PROVE  TypeOK'
<1>1. ctl.frames # <<>>
  BY DEF ExecuteToolReturns, ApproveActionReturns, StartReturns, NestedLoopReturns
<1>2. Resumed \in Controller /\ Head(ctl.frames) \in Frame
  BY <1>1, ResumedType
<1>3. /\ Head(ctl.frames).ask \in BOOLEAN
      /\ Head(ctl.frames).dryRun \in BOOLEAN
      /\ Head(ctl.frames).compaction \in BOOLEAN
  BY <1>2 DEF Frame
<1> QED
  BY <1>2, <1>3, AfterToolType, RunNextIterationType, StartAfterRefreshType
  DEF ExecuteToolReturns, ApproveActionReturns, StartReturns, TypeOK

-----------------------------------------------------------------------------
(* The initial state is well typed.                                        *)
LEMMA InitType == Init => TypeOK
<1> SUFFICES ASSUME Init PROVE TypeOK
  OBVIOUS
<1>1. [r \in Runs |-> "absent"] \in [Runs -> RowStatus]
  BY DEF RowStatus
<1>2. [r \in Runs |-> <<>>] \in [Runs -> Seq(Verdicts)]
  OBVIOUS
<1>3. "IDLE" \in States
  BY DEF States
<1> QED
  BY <1>1, <1>2, <1>3 DEF Init, TypeOK, Controller

(* Every step of the controller keeps it well typed.                       *)
LEMMA NextType == TypeOK /\ [Next]_vars => TypeOK'
<1> SUFFICES ASSUME TypeOK, [Next]_vars PROVE TypeOK'
  OBVIOUS
<1>1. CASE UserStarts
  BY <1>1, UserStartsType
<1>2. CASE Stop
  BY <1>2, StopType
<1>3. CASE ProviderInactivityTimeout
  BY <1>3, TimeoutType
<1>4. CASE ProviderAnswers \/ ProviderStreams
  BY <1>4, ProviderAnswersType, ProviderStreamsType
<1>5. CASE DrainResponses
  BY <1>5, DrainResponsesType
<1>6. CASE EnqueueSoftSteerMessage \/ SoftSteerTimer
  BY <1>6, EnqueueType, SoftSteerTimerType
<1>7. CASE UserAnswersApproval
  BY <1>7, UserAnswersApprovalType
<1>8. CASE SubmitUserDecision
  BY <1>8, SubmitUserDecisionType
<1>9. CASE RequestInlineDiffRefinement \/ FinalizeInlineDiffReview
  BY <1>9, ReviewType
<1>10. CASE ExecuteToolReturns \/ ApproveActionReturns \/ StartReturns
  BY <1>10, ReturnsType
<1>11. CASE UNCHANGED vars
  BY <1>11 DEF vars, TypeOK
<1> QED
  BY <1>1, <1>2, <1>3, <1>4, <1>5, <1>6, <1>7, <1>8, <1>9, <1>10, <1>11 DEF Next

(* The controller's record always has its type: every handler, in every    *)
(* interleaving and with any number of suspended calls, leaves the machine *)
(* in a declared state, the rows with a declared status, and the queues    *)
(* with well-formed messages.                                              *)
THEOREM TypeCorrect == Spec => []TypeOK
BY InitType, NextType, PTL DEF Spec

-----------------------------------------------------------------------------
(***************************************************************************)
(* PART 2.  PROGRESS OF A RUN                                              *)
(***************************************************************************)

CountTo(n) == [i \in 1..n |-> i]

InOrder(c) == Running(c) => c.delivered \o c.steers = CountTo(c.accepted)

Heard(c) ==
    ZeroTimersFirst /\ c.rsm = "COMPLETED"
        => c.steers = <<>> /\ Len(c.delivered) = c.accepted

TimerPosted(c) ==
    /\ c.steers # <<>>
    /\ c.rsm \in {"WAITING_FOR_APPROVAL", "WAITING_FOR_INLINE_DIFF_REVIEW"}
    => c.steerTimers > 0

WithinLimit(c) == MaxIterations > 0 => c.iter <= MaxIterations

SafetyInv(c) ==
    c \in Controller /\ InOrder(c) /\ Heard(c) /\ TimerPosted(c) /\ WithinLimit(c)

(* d differs from c in nothing the invariant looks at.                     *)
Same(c, d) ==
    /\ d \in Controller
    /\ d.rsm = c.rsm
    /\ d.steers = c.steers
    /\ d.delivered = c.delivered
    /\ d.accepted = c.accepted
    /\ d.steerTimers = c.steerTimers
    /\ d.iter = c.iter

-----------------------------------------------------------------------------
(* Edits                                                                   *)

(* The invariant looks at these fields only.                               *)
LEMMA SameKeeps ==
    ASSUME NEW c, NEW d, SafetyInv(c), Same(c, d)
    PROVE  SafetyInv(d)
BY DEF SafetyInv, Same, InOrder, Heard, TimerPosted, WithinLimit, Running

(* Same is transitive.                                               *)
LEMMA SameTrans ==
    ASSUME NEW c, NEW d, NEW e, Same(c, d), Same(d, e)
    PROVE  Same(c, e)
BY DEF Same

(* Settling the drain loop changes none of them.                           *)
LEMMA SettleSame == ASSUME NEW c \in Controller PROVE Same(c, Settle(c))
<1>1. Settle(c) \in Controller
  BY SettleType
<1> QED
  BY <1>1 DEF Same, Settle, Controller

(* Nor does suspending a call.                                             *)
LEMMA SuspendSame ==
    ASSUME NEW c \in Controller, NEW frame \in Frame
    PROVE  Same(c, Suspend(c, frame))
<1>1. Suspend(c, frame) \in Controller
  BY SuspendType
<1> QED
  BY <1>1 DEF Same, Suspend, Controller

(* A run ends with a verdict other than "completed", or with nothing       *)
(* queued where zero timers come first.                                    *)
LEMMA FinishRunSafe ==
    ASSUME NEW c, SafetyInv(c), NEW verdict \in Verdicts, NEW written \in BOOLEAN,
           verdict = "COMPLETED" => Running(c) /\ (ZeroTimersFirst => c.steers = <<>>)
    PROVE  SafetyInv(FinishRun(c, verdict, written))
<1> DEFINE d == FinishRun(c, verdict, written)
<1>1. c \in Controller /\ d \in Controller
  BY FinishRunType DEF SafetyInv
<1>2. /\ d.rsm = Mark(c.rsm, verdict)
      /\ d.steers = c.steers
      /\ d.delivered = c.delivered
      /\ d.accepted = c.accepted
      /\ d.steerTimers = c.steerTimers
      /\ d.iter = c.iter
  BY <1>1 DEF FinishRun, Controller
<1>3. c.delivered \in Seq(Nat) /\ c.accepted \in Nat
  BY <1>1 DEF Controller
<1> HIDE DEF d
<1>4. InOrder(d)
  BY <1>2 DEF InOrder, SafetyInv, Running, Mark, RunningStates, UserWaits, Verdicts
<1>5. TimerPosted(d) /\ WithinLimit(d)
  BY <1>2 DEF TimerPosted, WithinLimit, SafetyInv, Mark, RunningStates, UserWaits, Verdicts
<1>6. Heard(d)
  <2>1. CASE verdict = "COMPLETED" /\ ZeroTimersFirst
    <3>1. c.delivered \o c.steers = CountTo(c.accepted) /\ c.steers = <<>>
      BY <2>1 DEF SafetyInv, InOrder
    <3>2. c.delivered = CountTo(c.accepted)
      BY <1>3, <3>1
    <3>3. Len(CountTo(c.accepted)) = c.accepted
      BY <1>3 DEF CountTo
    <3> QED
      BY <1>2, <2>1, <3>1, <3>2, <3>3 DEF Heard
  <2>2. CASE verdict # "COMPLETED"
    BY <1>2, <2>2 DEF Heard, SafetyInv, Mark
  <2>3. CASE ~ZeroTimersFirst
    BY <2>3 DEF Heard
  <2> QED
    BY <2>1, <2>2, <2>3
<1> QED
  BY <1>1, <1>4, <1>5, <1>6 DEF SafetyInv, d

(* Delivering the queued messages keeps them in order, and none is queued  *)
(* any more.                                                               *)
LEMMA ApplySoftSteerSafe ==
    ASSUME NEW c, SafetyInv(c)
    PROVE  /\ SafetyInv(ApplySoftSteer(c))
           /\ ApplySoftSteer(c).steers = <<>>
           /\ ApplySoftSteer(c).rsm = c.rsm
           /\ ApplySoftSteer(c).iter = c.iter
<1> DEFINE d == ApplySoftSteer(c)
<1>1. c \in Controller /\ d \in Controller
  BY ApplySoftSteerType DEF SafetyInv
<1>2. CASE c.steers = <<>>
  BY <1>2 DEF ApplySoftSteer
<1>3. CASE c.steers # <<>>
  <2>1. /\ d.rsm = c.rsm
        /\ d.steers = <<>>
        /\ d.delivered = c.delivered \o c.steers
        /\ d.accepted = c.accepted
        /\ d.steerTimers = c.steerTimers
        /\ d.iter = c.iter
    BY <1>1, <1>3 DEF ApplySoftSteer, Controller
  <2>2. d.delivered \in Seq(Nat)
    BY <1>1 DEF Controller
  <2> HIDE DEF d
  <2>3. d.delivered \o <<>> = d.delivered
    BY <2>2
  <2>4. InOrder(d)
    BY <2>1, <2>3 DEF InOrder, SafetyInv, Running
  <2>5. TimerPosted(d) /\ Heard(d) /\ WithinLimit(d)
    BY <1>3, <2>1 DEF TimerPosted, Heard, WithinLimit, SafetyInv
  <2> QED
    BY <1>1, <2>1, <2>4, <2>5 DEF SafetyInv, d
<1> QED
  BY <1>2, <1>3

(* A running machine may move to another running state; a wait that a      *)
(* message would have to interrupt is entered with nothing queued.         *)
LEMMA MoveSafe ==
    ASSUME NEW c, SafetyInv(c), NEW d \in Controller,
           d.steers = c.steers, d.delivered = c.delivered,
           d.accepted = c.accepted, d.steerTimers = c.steerTimers, d.iter = c.iter,
           \/ d.rsm = c.rsm
           \/ /\ Running(c)
              /\ d.rsm \in RunningStates
              /\ \/ d.rsm \in {"WAITING_FOR_PROVIDER", "WAITING_FOR_USER_DECISION"}
                 \/ c.steers = <<>>
    PROVE  SafetyInv(d)
<1>1. CASE d.rsm = c.rsm
  BY <1>1 DEF SafetyInv, InOrder, Heard, TimerPosted, WithinLimit, Running
<1>2. CASE Running(c) /\ d.rsm \in RunningStates
  <2>1. InOrder(d)
    BY <1>2 DEF SafetyInv, InOrder
  <2>2. Heard(d)
    BY <1>2 DEF Heard, RunningStates, UserWaits
  <2>3. TimerPosted(d) /\ WithinLimit(d)
    BY DEF TimerPosted, WithinLimit, SafetyInv
  <2> QED
    BY <2>1, <2>2, <2>3 DEF SafetyInv
<1> QED
  BY <1>1, <1>2

(* AwaitUser moves a machine that waits for the provider.                  *)
LEMMA AwaitUserMoves ==
    ASSUME NEW state \in States, NEW wait \in UserWaits
    PROVE  \/ AwaitUser(state, wait) = state
           \/ /\ state \in RunningStates
              /\ AwaitUser(state, wait) = wait
              /\ wait \in RunningStates
BY DEF AwaitUser, RunningStates

(* Asking for an approval with nothing queued.                             *)
LEMMA RequestApprovalSafe ==
    ASSUME NEW c, SafetyInv(c), c.steers = <<>>, NEW tool \in Names
    PROVE  SafetyInv(RequestApproval(c, tool))
<1> DEFINE d == RequestApproval(c, tool)
<1>1. c \in Controller /\ d \in Controller
  BY RequestApprovalType DEF SafetyInv
<1>2. /\ d.rsm = AwaitUser(c.rsm, "WAITING_FOR_APPROVAL")
      /\ d.steers = c.steers
      /\ d.delivered = c.delivered
      /\ d.accepted = c.accepted
      /\ d.steerTimers = c.steerTimers
      /\ d.iter = c.iter
  BY <1>1 DEF RequestApproval, Controller
<1>3. c.rsm \in States
  BY <1>1 DEF Controller
<1>4. \/ d.rsm = c.rsm
      \/ Running(c) /\ d.rsm \in RunningStates
  BY <1>2, <1>3, AwaitUserMoves DEF UserWaits, Running
<1> HIDE DEF d
<1>5. SafetyInv(d)
  BY <1>1, <1>2, <1>4, MoveSafe
<1> QED
  BY <1>5 DEF d

-----------------------------------------------------------------------------
(* Tails of handlers                                                       *)

(* Commit ends a handler.                                                  *)
LEMMA CommitSafe ==
    ASSUME NEW c, SafetyInv(c), Commit(c)
    PROVE  SafetyInv(ctl')
<1>1. Same(c, Settle(c))
  BY SettleSame DEF SafetyInv
<1> QED
  BY <1>1, SameKeeps DEF Commit

(* So does the end of a run.                                               *)
LEMMA FinishSafe ==
    ASSUME NEW c, SafetyInv(c), NEW verdict \in Verdicts,
           verdict = "COMPLETED" => Running(c) /\ (ZeroTimersFirst => c.steers = <<>>),
           Finish(c, verdict)
    PROVE  SafetyInv(ctl')
BY FinishRunSafe, CommitSafe DEF Finish

(* A sent request, or a refused one, concerns no message.                  *)
LEMMA SendSafe ==
    ASSUME NEW c, SafetyInv(c), NEW kind \in {"agent", "compaction"}, Send(c, kind)
    PROVE  SafetyInv(ctl')
<1> DEFINE refused == [c EXCEPT !.watchdog = FALSE, !.midRun = @ /\ kind # "compaction"]
           state == AwaitProvider(c.rsm)
           waiting == [c EXCEPT !.rsm = state, !.watchdog = TRUE]
<1>1. c \in Controller
  BY DEF SafetyInv
<1>2. CASE Finish(refused, "FAILED")
  <2> DEFINE mid == c.midRun /\ kind # "compaction"
             d == [c EXCEPT !.watchdog = FALSE, !.midRun = mid]
  <2>1. mid \in BOOLEAN
    OBVIOUS
  <2> HIDE DEF mid
  <2>2. d \in Controller
    BY <1>1, <2>1, WatchdogEdit, MidRunEdit
  <2>3. Same(c, d)
    BY <1>1, <2>2 DEF Same, Controller
  <2>4. d = refused
    BY DEF mid
  <2> HIDE DEF d, refused
  <2>5. SafetyInv(refused)
    BY <2>3, <2>4, SameKeeps
  <2> QED
    BY <1>2, <2>5, FinishSafe DEF Verdicts
<1>3. CASE ctl' = Settle(waiting)
  <2>1. state \in States
    BY <1>1 DEF Controller, AwaitProvider, States, RunningStates
  <2>2. \/ state = c.rsm
        \/ Running(c) /\ state = "WAITING_FOR_PROVIDER"
    BY DEF AwaitProvider, Running
  <2> HIDE DEF state
  <2>3. waiting \in Controller
    BY <1>1, <2>1, RsmEdit, WatchdogEdit
  <2>4. /\ waiting.rsm = state
        /\ waiting.steers = c.steers
        /\ waiting.delivered = c.delivered
        /\ waiting.accepted = c.accepted
        /\ waiting.steerTimers = c.steerTimers
        /\ waiting.iter = c.iter
    BY <1>1 DEF Controller
  <2> HIDE DEF waiting
  <2>5. SafetyInv(waiting)
    BY <2>2, <2>3, <2>4, MoveSafe DEF RunningStates
  <2> QED
    BY <1>3, <2>3, <2>5, SettleSame, SameKeeps
<1> QED
  BY <1>2, <1>3 DEF Send

(* So does a mid-run compaction.                                           *)
LEMMA StartMidRunAutoCompactionSafe ==
    ASSUME NEW c, SafetyInv(c), StartMidRunAutoCompaction(c)
    PROVE  SafetyInv(ctl')
<1> DEFINE n == c.compactions + 1
           d == [c EXCEPT !.midRun = TRUE, !.high = FALSE, !.compactions = n]
<1>1. c \in Controller
  BY DEF SafetyInv
<1>2. n \in Nat
  BY <1>1 DEF Controller
<1>3. Finish(c, "FAILED") \/ Send(d, "compaction")
  BY DEF StartMidRunAutoCompaction
<1> HIDE DEF n
<1>4. d \in Controller
  BY <1>1, <1>2, MidRunEdit, HighEdit, CompactionsEdit
<1>5. Same(c, d)
  BY <1>1, <1>4 DEF Same, Controller
<1> HIDE DEF d
<1> QED
  BY <1>3, <1>5, SameKeeps, FinishSafe, SendSafe DEF Verdicts

(* The tail nearly every handler ends in delivers what is queued, and      *)
(* sends a request only below the limit.                                   *)
LEMMA RunNextIterationSafe ==
    ASSUME NEW c, SafetyInv(c), RunNextIteration(c)
    PROVE  SafetyInv(ctl')
<1> DEFINE d == ApplySoftSteer(c)
<1>1. SafetyInv(d)
  BY ApplySoftSteerSafe
<1> HIDE DEF d
<1> DEFINE n == d.iter + 1
           e == [d EXCEPT !.iter = n]
<1>2. d \in Controller
  BY <1>1 DEF SafetyInv
<1>3. d.iter \in Nat
  BY <1>2 DEF Controller
<1>4. \/ Commit(c)
      \/ Finish(d, "FAILED")
      \/ StartMidRunAutoCompaction(d)
      \/ ~AtLimit(d.iter, MaxIterations) /\ Send(e, "agent")
  BY DEF RunNextIteration, d
<1>5. ASSUME ~AtLimit(d.iter, MaxIterations)
      PROVE  SafetyInv(e)
  <2>1. n \in Nat /\ (MaxIterations > 0 => n <= MaxIterations)
    BY <1>3, <1>5, LimitAssumption DEF AtLimit
  <2> HIDE DEF n
  <2>2. e \in Controller
    BY <1>2, <2>1, IterEdit
  <2>3. /\ e.rsm = d.rsm
        /\ e.steers = d.steers
        /\ e.delivered = d.delivered
        /\ e.accepted = d.accepted
        /\ e.steerTimers = d.steerTimers
        /\ e.iter = n
    BY <1>2 DEF Controller
  <2> HIDE DEF e
  <2> QED
    BY <1>1, <2>1, <2>2, <2>3
    DEF SafetyInv, InOrder, Heard, TimerPosted, WithinLimit, Running
<1> HIDE DEF e
<1> QED
  BY <1>1, <1>4, <1>5, FinishSafe, CommitSafe, SendSafe,
     StartMidRunAutoCompactionSafe DEF Verdicts

(* execute_tool's tail.                                                    *)
LEMMA AfterToolSafe ==
    ASSUME NEW c, SafetyInv(c), AfterTool(c)
    PROVE  SafetyInv(ctl')
BY ApplySoftSteerSafe, RunNextIterationSafe DEF AfterTool

(* execute_tool is entered with nothing queued.                            *)
LEMMA ExecuteToolSafe ==
    ASSUME NEW c, SafetyInv(c), c.steers = <<>>, NEW tool \in Names, ExecuteTool(c, tool)
    PROVE  SafetyInv(ctl')
<1> DEFINE n == c.calls + 1
           counted == [c EXCEPT !.calls = n]
           frame == ToolFrame("execute_tool", c)
<1>1. c \in Controller
  BY DEF SafetyInv
<1>2. n \in Nat
  BY <1>1 DEF Controller
<1>3. frame \in Frame
  BY <1>1, ToolFrameType
<1>4. \/ Finish(c, "FAILED")
      \/ RunNextIteration(c)
      \/ Commit(RequestApproval(c, tool))
      \/ AfterTool(counted)
      \/ Commit(Suspend(counted, frame))
  BY DEF ExecuteTool
<1> HIDE DEF n, frame
<1>5. counted \in Controller
  BY <1>1, <1>2, CallsEdit
<1>6. Same(c, counted)
  BY <1>1, <1>5 DEF Same, Controller
<1> HIDE DEF counted
<1>7. SafetyInv(counted)
  BY <1>6, SameKeeps
<1>8. SafetyInv(Suspend(counted, frame))
  BY <1>3, <1>5, <1>7, SuspendSame, SameKeeps
<1> QED
  BY <1>4, <1>7, <1>8, FinishSafe, RequestApprovalSafe,
     CommitSafe, RunNextIterationSafe, AfterToolSafe DEF Verdicts

-----------------------------------------------------------------------------
(* Replies                                                                 *)

(* A compaction reply is handled with nothing queued.                      *)
LEMMA HandleCompactionReplySafe ==
    ASSUME NEW c, SafetyInv(c), Running(c), c.steers = <<>>, NEW reply,
           HandleCompactionReply(c, reply)
    PROVE  SafetyInv(ctl')
<1> DEFINE done == CompactionDone(c)
<1>1. c \in Controller
  BY DEF SafetyInv
<1>2. done \in Controller
  BY <1>1, MidRunEdit, HighEdit DEF CompactionDone
<1>3. Same(c, done)
  BY <1>1, <1>2 DEF Same, CompactionDone, Controller
<1> HIDE DEF done
<1>4. \/ \E verdict \in Verdicts : Finish(c, verdict)
      \/ Finish(done, "FAILED")
      \/ RunNextIteration(done)
  BY DEF HandleCompactionReply, done, Verdicts
<1> QED
  BY <1>3, <1>4, SameKeeps, FinishSafe, RunNextIterationSafe
  DEF Verdicts

(* So is an agent reply: a final answer, a question or a tool call is      *)
(* never taken over a queued message.                                      *)
LEMMA HandleAgentReplySafe ==
    ASSUME NEW c, SafetyInv(c), Running(c), c.steers = <<>>, NEW reply \in Response,
           HandleAgentReply(c, reply)
    PROVE  SafetyInv(ctl')
<1> DEFINE nm == c.modeRetries + 1
           nt == c.textRetries + 1
           rs == AwaitUser(c.rsm, "WAITING_FOR_INLINE_DIFF_REVIEW")
           ds == AwaitUser(c.rsm, "WAITING_FOR_USER_DECISION")
           corrected == [c EXCEPT !.modeRetries = nm]
           reformatted == [c EXCEPT !.textRetries = nt]
           review == [c EXCEPT !.rsm = rs]
           asked == [c EXCEPT !.decision = TRUE, !.rsm = ds]
<1>1. c \in Controller /\ c.rsm \in States
  BY DEF SafetyInv, Controller
<1>2. \/ \E verdict \in Verdicts : Finish(c, verdict)
      \/ RunNextIteration(corrected)
      \/ RunNextIteration(reformatted)
      \/ RunNextIteration(c)
      \/ ExecuteTool(c, reply.tool)
      \/ Commit(review)
      \/ Commit(asked)
      \/ Commit(RequestApproval(c, reply.tool))
  BY DEF HandleAgentReply, Verdicts
<1>3. nm \in Nat /\ nt \in Nat
  BY <1>1 DEF Controller
<1>4. /\ rs = c.rsm \/ rs \in RunningStates
      /\ ds = c.rsm \/ ds \in RunningStates
  BY <1>1, AwaitUserMoves DEF UserWaits
<1>5. rs \in States /\ ds \in States
  BY <1>1, <1>4 DEF States
<1> HIDE DEF nm, nt, rs, ds
<1>6. Same(c, corrected) /\ Same(c, reformatted)
  <2>1. corrected \in Controller /\ reformatted \in Controller
    BY <1>1, <1>3, ModeRetriesEdit, TextRetriesEdit
  <2> QED
    BY <1>1, <2>1 DEF Same, Controller
<1>7. SafetyInv(review)
  <2>1. review \in Controller
    BY <1>1, <1>5, RsmEdit
  <2>2. /\ review.rsm = rs
        /\ review.steers = c.steers
        /\ review.delivered = c.delivered
        /\ review.accepted = c.accepted
        /\ review.steerTimers = c.steerTimers
        /\ review.iter = c.iter
    BY <1>1 DEF Controller
  <2> HIDE DEF review
  <2> QED
    BY <1>4, <2>1, <2>2, MoveSafe
<1>8. SafetyInv(asked)
  <2>1. asked \in Controller
    BY <1>1, <1>5, RsmEdit, DecisionEdit
  <2>2. /\ asked.rsm = ds
        /\ asked.steers = c.steers
        /\ asked.delivered = c.delivered
        /\ asked.accepted = c.accepted
        /\ asked.steerTimers = c.steerTimers
        /\ asked.iter = c.iter
    BY <1>1 DEF Controller
  <2> HIDE DEF asked
  <2> QED
    BY <1>4, <2>1, <2>2, MoveSafe
<1>9. reply.tool \in Names
  BY DEF Response
<1> HIDE DEF corrected, reformatted, review, asked
<1> QED
  BY <1>2, <1>6, <1>7, <1>8, <1>9, SameKeeps, FinishSafe, CommitSafe,
     RunNextIterationSafe, ExecuteToolSafe, RequestApprovalSafe

(* One queued reply.                                                       *)
LEMMA HandleResponseSafe ==
    ASSUME NEW c, SafetyInv(c), NEW reply \in Response, HandleResponse(c, reply)
    PROVE  SafetyInv(ctl')
<1> DEFINE answered == [c EXCEPT !.watchdog = FALSE]
           high == IF CompactionActive(c) THEN answered.high ELSE reply.high
           metered == [answered EXCEPT !.high = high]
           retries == IF reply.type = "text" THEN metered.textRetries ELSE 0
           parsed == [metered EXCEPT !.textRetries = retries]
           failed == [answered EXCEPT !.midRun = FALSE]
<1>1. c \in Controller
  BY DEF SafetyInv
<1>2. answered \in Controller
  BY <1>1, WatchdogEdit
<1>3. high \in BOOLEAN
  BY <1>2 DEF Response, Controller
<1>4. \/ Commit(c)
      \/ Finish(failed, "FAILED")
      \/ RunNextIteration(ApplySoftSteer(metered))
      \/ Running(c) /\ c.steers = <<>> /\ HandleCompactionReply(metered, reply)
      \/ Running(c) /\ c.steers = <<>> /\ HandleAgentReply(parsed, reply)
  BY DEF HandleResponse
<1> HIDE DEF high
<1>5. metered \in Controller /\ failed \in Controller
  BY <1>2, <1>3, HighEdit, MidRunEdit
<1>6. Same(c, metered) /\ Same(c, failed)
  BY <1>1, <1>5 DEF Same, Controller
<1> HIDE DEF metered
<1>7. retries \in Nat
  BY <1>5 DEF Controller
<1> HIDE DEF retries
<1>8. parsed \in Controller
  BY <1>5, <1>7, TextRetriesEdit
<1>9. Same(metered, parsed)
  BY <1>5, <1>8 DEF Same, Controller
<1>10. Same(c, parsed)
  BY <1>6, <1>9, SameTrans
<1>11. /\ SafetyInv(metered) /\ SafetyInv(failed) /\ SafetyInv(parsed)
       /\ Running(c) => Running(metered) /\ Running(parsed)
       /\ metered.steers = c.steers /\ parsed.steers = c.steers
  BY <1>6, <1>10, SameKeeps DEF Same, Running
<1> HIDE DEF answered, parsed, failed
<1> QED
  BY <1>4, <1>11, FinishSafe, CommitSafe, RunNextIterationSafe,
     ApplySoftSteerSafe, HandleCompactionReplySafe, HandleAgentReplySafe
  DEF Verdicts

(* The drain loop.                                                         *)
LEMMA DrainResponsesSafe ==
    ASSUME SafetyInv(ctl), DrainResponses
    PROVE  SafetyInv(ctl')
<1> DEFINE again == ctl.dispatch /\ ctl.draining
           c == [ctl EXCEPT !.dispatch = again, !.draining = TRUE]
           left == Tail(c.responses)
           d == [c EXCEPT !.responses = left]
<1>1. ctl \in Controller /\ again \in BOOLEAN
  BY DEF SafetyInv
<1>2. \/ Commit(c)
      \/ c.responses # <<>> /\ HandleResponse(d, Head(c.responses))
  BY DEF DrainResponses
<1> HIDE DEF again
<1>3. c \in Controller
  BY <1>1, DispatchEdit, DrainingEdit
<1>4. Same(ctl, c)
  BY <1>1, <1>3 DEF Same, Controller
<1> HIDE DEF c
<1>5. CASE c.responses # <<>> /\ HandleResponse(d, Head(c.responses))
  <2>1. c.responses \in Seq(Response)
    BY <1>3 DEF Controller
  <2>2. Head(c.responses) \in Response /\ left \in Seq(Response)
    BY <1>5, <2>1
  <2> HIDE DEF left
  <2>3. d \in Controller
    BY <1>3, <2>2, ResponsesEdit
  <2>4. Same(c, d)
    BY <1>3, <2>3 DEF Same, Controller
  <2> HIDE DEF d
  <2> QED
    BY <1>4, <1>5, <2>2, <2>4, SameKeeps, HandleResponseSafe
<1> QED
  BY <1>2, <1>4, <1>5, SameKeeps, CommitSafe

-----------------------------------------------------------------------------
(* Starting and stopping                                                   *)

(* A fresh run has accepted nothing, delivered nothing and queued nothing. *)
LEMMA FreshSafe ==
    ASSUME NEW c, SafetyInv(c), NEW d \in Controller,
           d.rsm = StartRun(c.rsm), d.iter = 0, d.steers = <<>>,
           d.delivered = <<>>, d.accepted = 0
    PROVE  SafetyInv(d)
<1>1. InOrder(d)
  <2>1. <<>> \o <<>> = CountTo(0)
    BY DEF CountTo
  <2> QED
    BY <2>1 DEF InOrder
<1>2. d.rsm # "COMPLETED"
  BY DEF StartRun, RunningStates, UserWaits
<1> QED
  BY <1>1, <1>2, LimitAssumption DEF SafetyInv, Heard, TimerPosted, WithinLimit

(* start() after the MCP refresh.                                          *)
LEMMA StartAfterRefreshSafe ==
    ASSUME NEW c, SafetyInv(c), NEW ask \in BOOLEAN, NEW dryRun \in BOOLEAN,
           NEW compaction \in BOOLEAN, StartAfterRefresh(c, ask, dryRun, compaction)
    PROVE  SafetyInv(ctl')
<1>1. c \in Controller
  BY DEF SafetyInv
<1>2. PICK d \in Controller :
        /\ RunNextIteration(d)
        /\ d.rsm = StartRun(c.rsm)
        /\ d.iter = 0
        /\ d.steers = <<>>
        /\ d.delivered = <<>>
        /\ d.accepted = 0
  BY <1>1, FreshRunType
<1> QED
  BY <1>2, FreshSafe, RunNextIterationSafe

(* provider->cancel().                                                     *)
LEMMA CancelAndCommitSafe ==
    ASSUME NEW c, SafetyInv(c), inflight \in SUBSET Request, CancelAndCommit(c)
    PROVE  SafetyInv(ctl')
<1>1. c \in Controller
  BY DEF SafetyInv
<1>2. CASE ctl' = Settle(c)
  BY <1>1, <1>2, SettleSame, SameKeeps
<1>3. CASE \E req \in inflight :
             ctl' = Settle([c EXCEPT !.responses =
                                 Append(@, [req |-> req, type |-> "error",
                                            tool |-> NoTool, high |-> FALSE]),
                                     !.dispatch = TRUE])
  <2>1. PICK req \in inflight :
             ctl' = Settle([c EXCEPT !.responses =
                                 Append(@, [req |-> req, type |-> "error",
                                            tool |-> NoTool, high |-> FALSE]),
                                     !.dispatch = TRUE])
    BY <1>3
  <2> DEFINE reply == [req |-> req, type |-> "error", tool |-> NoTool, high |-> FALSE]
             queue == Append(c.responses, reply)
             d == [c EXCEPT !.responses = queue, !.dispatch = TRUE]
  <2>2. reply \in Response
    BY DEF Response, AllReplyTypes, Names
  <2>3. ctl' = Settle(d)
    BY <2>1
  <2> HIDE DEF reply
  <2>4. queue \in Seq(Response)
    BY <1>1, <2>2 DEF Controller
  <2> HIDE DEF queue
  <2>5. d \in Controller
    BY <1>1, <2>4, ResponsesEdit, DispatchEdit
  <2>6. Same(c, d)
    BY <1>1, <2>5 DEF Same, Controller
  <2> HIDE DEF d
  <2> QED
    BY <2>3, <2>5, <2>6, SettleSame, SameKeeps
<1> QED
  BY <1>2, <1>3 DEF CancelAndCommit

(* A run that is cancelled ends, and not as completed.                     *)
LEMMA CancelAndFinishSafe ==
    ASSUME NEW c, SafetyInv(c), inflight \in SUBSET Request, CancelAndFinish(c, "FAILED")
    PROVE  SafetyInv(ctl')
BY FinishRunSafe, CancelAndCommitSafe DEF CancelAndFinish, Verdicts

(* start() by the user.                                                    *)
LEMMA UserStartsSafe ==
    ASSUME SafetyInv(ctl), UserStarts
    PROVE  SafetyInv(ctl')
<1>1. PICK ask \in BOOLEAN, dryRun \in BOOLEAN, compaction \in BOOLEAN :
        Start(ask, dryRun, compaction)
  BY DEF UserStarts
<1> DEFINE frame == NewFrame("start", 0, dryRun, ask, compaction)
<1>2. CASE StartAfterRefresh(ctl, ask, dryRun, compaction)
  BY <1>2, StartAfterRefreshSafe
<1>3. CASE Commit(Suspend(ctl, frame))
  <2>1. frame \in Frame
    BY DEF NewFrame, Frame
  <2> HIDE DEF frame
  <2>2. Same(ctl, Suspend(ctl, frame))
    BY <2>1, SuspendSame DEF SafetyInv
  <2> QED
    BY <1>3, <2>2, SameKeeps, CommitSafe
<1> QED
  BY <1>1, <1>2, <1>3 DEF Start

(* stop() drops what is queued and ends the run.                           *)
LEMMA StopSafe ==
    ASSUME SafetyInv(ctl), inflight \in SUBSET Request, Stop
    PROVE  SafetyInv(ctl')
<1> DEFINE c == [ctl EXCEPT !.midRun = FALSE, !.high = FALSE, !.steers = <<>>,
                            !.decision = FALSE, !.watchdog = FALSE]
<1>1. ctl \in Controller /\ Running(ctl) /\ CancelAndFinish(c, "STOPPED")
  BY DEF SafetyInv, Stop
<1>2. <<>> \in Seq(Nat)
  OBVIOUS
<1>3. c \in Controller
  BY <1>1, <1>2, MidRunEdit, HighEdit, SteersEdit, DecisionEdit, WatchdogEdit
<1>4. c.rsm = ctl.rsm /\ c.iter = ctl.iter
  BY <1>1 DEF Controller
<1> HIDE DEF c
<1>5. PICK written \in BOOLEAN : CancelAndCommit(FinishRun(c, "STOPPED", written))
  BY <1>1 DEF CancelAndFinish
<1> DEFINE d == FinishRun(c, "STOPPED", written)
<1>6. d \in Controller
  BY <1>3, FinishRunType DEF Verdicts
<1>7. d.rsm = "STOPPED" /\ d.iter = ctl.iter
  BY <1>1, <1>3, <1>4 DEF FinishRun, Controller, Mark, Running
<1> HIDE DEF d
<1>8. SafetyInv(d)
  BY <1>6, <1>7 DEF SafetyInv, InOrder, Heard, TimerPosted, WithinLimit, Running,
     RunningStates, UserWaits
<1> QED
  BY <1>5, <1>8, CancelAndCommitSafe DEF d

(* The watchdog fires.                                                     *)
LEMMA TimeoutSafe ==
    ASSUME SafetyInv(ctl), inflight \in SUBSET Request, ProviderInactivityTimeout
    PROVE  SafetyInv(ctl')
<1> DEFINE fired == [ctl EXCEPT !.watchdog = FALSE]
<1>1. ctl \in Controller
  BY DEF SafetyInv
<1>2. fired \in Controller
  BY <1>1, WatchdogEdit
<1>3. Same(ctl, fired)
  BY <1>1, <1>2 DEF Same, Controller
<1>4. CancelAndFinish(fired, "FAILED") \/ Commit(fired)
  BY DEF ProviderInactivityTimeout
<1> HIDE DEF fired
<1> QED
  BY <1>3, <1>4, SameKeeps, CancelAndFinishSafe, CommitSafe

-----------------------------------------------------------------------------
(* The other events                                                        *)

(* The provider's callbacks concern no message.                            *)
LEMMA ProviderSafe ==
    ASSUME TypeOK, SafetyInv(ctl), ProviderAnswers \/ ProviderStreams
    PROVE  SafetyInv(ctl')
<1>1. ctl \in Controller
  BY DEF SafetyInv
<1>2. ctl' \in Controller
  BY ProviderAnswersType, ProviderStreamsType DEF TypeOK
<1>3. CASE ProviderAnswers
  <2>1. \E req, type, tool, high : ProviderReplies(req, type, tool, high)
    BY <1>3 DEF ProviderAnswers
  <2>2. Same(ctl, ctl')
    BY <1>1, <1>2, <2>1 DEF ProviderReplies, Same, Controller
  <2> QED
    BY <2>2, SameKeeps
<1>4. CASE ProviderStreams
  <2>1. Same(ctl, ctl')
    BY <1>1, <1>2, <1>4 DEF ProviderStreams, Same, Controller
  <2> QED
    BY <2>1, SameKeeps
<1> QED
  BY <1>3, <1>4

(* Appending the next number to a sequence that counts up.                 *)
LEMMA CountUp ==
    ASSUME NEW s \in Seq(Nat), NEW t \in Seq(Nat), NEW n \in Nat, s \o t = CountTo(n)
    PROVE  s \o Append(t, n + 1) = CountTo(n + 1)
<1>1. /\ s \o Append(t, n + 1) \in Seq(Nat)
      /\ Len(s \o Append(t, n + 1)) = Len(s) + Len(t) + 1
  OBVIOUS
<1>2. Len(s) + Len(t) = n
  <2>1. Len(s \o t) = Len(s) + Len(t)
    OBVIOUS
  <2>2. Len(CountTo(n)) = n
    BY DEF CountTo
  <2> QED
    BY <2>1, <2>2
<1>3. \A i \in 1..n : (s \o Append(t, n + 1))[i] = i
  <2> SUFFICES ASSUME NEW i \in 1..n
               PROVE  (s \o Append(t, n + 1))[i] = i
    OBVIOUS
  <2>1. (s \o t)[i] = i
    BY DEF CountTo
  <2>2. (s \o Append(t, n + 1))[i] = (s \o t)[i]
    BY <1>2
  <2> QED
    BY <2>1, <2>2
<1>4. (s \o Append(t, n + 1))[n + 1] = n + 1
  BY <1>2
<1> DEFINE u == s \o Append(t, n + 1)
<1>5. u = [i \in 1..(n + 1) |-> u[i]]
  BY <1>1, <1>2
<1>6. \A i \in 1..(n + 1) : u[i] = i
  <2> SUFFICES ASSUME NEW i \in 1..(n + 1)
               PROVE  u[i] = i
    OBVIOUS
  <2>1. i \in 1..n \/ i = n + 1
    OBVIOUS
  <2> QED
    BY <1>3, <1>4, <2>1
<1> HIDE DEF u
<1>7. u = [i \in 1..(n + 1) |-> i]
  BY <1>5, <1>6, Zenon
<1> QED
  BY <1>7 DEF u, CountTo

(* Queueing one more message.                                              *)
LEMMA EnqueueSafe ==
    ASSUME SafetyInv(ctl), EnqueueSoftSteerMessage
    PROVE  SafetyInv(ctl')
<1> DEFINE n == ctl.accepted + 1
           queue == Append(ctl.steers, n)
           timers == IF ctl.rsm \in {"WAITING_FOR_APPROVAL", "WAITING_FOR_INLINE_DIFF_REVIEW"}
                     THEN ctl.steerTimers + 1 ELSE ctl.steerTimers
           c == [ctl EXCEPT !.steers = queue, !.accepted = n, !.steerTimers = timers]
<1>1. ctl \in Controller /\ Running(ctl) /\ Commit(c)
  BY DEF SafetyInv, EnqueueSoftSteerMessage
<1>2. /\ ctl.steers \in Seq(Nat) /\ ctl.delivered \in Seq(Nat)
      /\ ctl.accepted \in Nat /\ ctl.steerTimers \in Nat
  BY <1>1 DEF Controller
<1>3. queue \in Seq(Nat) /\ n \in Nat /\ timers \in Nat
  BY <1>2
<1>4. ctl.delivered \o queue = CountTo(n)
  BY <1>1, <1>2, CountUp DEF SafetyInv, InOrder
<1>5. ctl.rsm \in {"WAITING_FOR_APPROVAL", "WAITING_FOR_INLINE_DIFF_REVIEW"} => timers > 0
  BY <1>2
<1> HIDE DEF n, queue, timers
<1>6. c \in Controller
  BY <1>1, <1>3, SteersEdit, AcceptedEdit, SteerTimersEdit
<1>7. /\ c.rsm = ctl.rsm
      /\ c.steers = queue
      /\ c.delivered = ctl.delivered
      /\ c.accepted = n
      /\ c.steerTimers = timers
      /\ c.iter = ctl.iter
  BY <1>1 DEF Controller
<1> HIDE DEF c
<1>8. InOrder(c) /\ TimerPosted(c) /\ WithinLimit(c)
  BY <1>4, <1>5, <1>7 DEF SafetyInv, InOrder, TimerPosted, WithinLimit
<1>9. Heard(c)
  BY <1>1, <1>7 DEF Heard, Running, RunningStates, UserWaits
<1> QED
  BY <1>1, <1>6, <1>8, <1>9, CommitSafe DEF SafetyInv

(* The posted timer delivers what is queued; a timer that outlived its     *)
(* wait is spent.                                                          *)
LEMMA SoftSteerTimerSafe ==
    ASSUME SafetyInv(ctl), SoftSteerTimer
    PROVE  SafetyInv(ctl')
<1> DEFINE left == ctl.steerTimers - 1
           c == [ctl EXCEPT !.steerTimers = left]
<1>1. ctl \in Controller /\ ctl.steerTimers \in Nat /\ ctl.steerTimers > 0
  BY DEF SafetyInv, Controller, SoftSteerTimer
<1>2. left \in Nat
  BY <1>1
<1>3. \/ Running(c) /\ RunNextIteration(ApplySoftSteer(c))
      \/ ~(Running(c) /\ c.steers # <<>>) /\ Commit(c)
  BY DEF SoftSteerTimer
<1> HIDE DEF left
<1>4. c \in Controller
  BY <1>1, <1>2, SteerTimersEdit
<1>5. /\ c.rsm = ctl.rsm
      /\ c.steers = ctl.steers
      /\ c.delivered = ctl.delivered
      /\ c.accepted = ctl.accepted
      /\ c.iter = ctl.iter
  BY <1>1 DEF Controller
<1> HIDE DEF c
<1>6. InOrder(c) /\ Heard(c) /\ WithinLimit(c)
  BY <1>5 DEF SafetyInv, InOrder, Heard, WithinLimit, Running
<1>7. CASE c.steers = <<>> \/ ~Running(c)
  <2>1. SafetyInv(c)
    BY <1>4, <1>6, <1>7 DEF SafetyInv, TimerPosted, Running, RunningStates, UserWaits
  <2> QED
    BY <1>3, <2>1, ApplySoftSteerSafe, RunNextIterationSafe, CommitSafe
<1>8. CASE Running(c) /\ c.steers # <<>>
  <2> DEFINE d == ApplySoftSteer(c)
  <2>1. d \in Controller
    BY <1>4, ApplySoftSteerType
  <2>2. /\ d.rsm = c.rsm
        /\ d.steers = <<>>
        /\ d.delivered = c.delivered \o c.steers
        /\ d.accepted = c.accepted
        /\ d.iter = c.iter
    BY <1>4, <1>8 DEF ApplySoftSteer, Controller
  <2>3. d.delivered \in Seq(Nat)
    BY <2>1 DEF Controller
  <2>4. RunNextIteration(d)
    BY <1>3, <1>8
  <2> HIDE DEF d
  <2>5. d.delivered \o <<>> = d.delivered
    BY <2>3
  <2>6. InOrder(d)
    BY <1>6, <2>2, <2>5 DEF InOrder, Running
  <2>7. Heard(d) /\ TimerPosted(d) /\ WithinLimit(d)
    BY <1>6, <1>8, <2>2 DEF Heard, TimerPosted, WithinLimit, Running, RunningStates, UserWaits
  <2> QED
    BY <2>1, <2>4, <2>6, <2>7, RunNextIterationSafe DEF SafetyInv
<1> QED
  BY <1>7, <1>8

(* Answers to an approval.                                                 *)
LEMMA UserAnswersApprovalSafe ==
    ASSUME SafetyInv(ctl), UserAnswersApproval
    PROVE  SafetyInv(ctl')
<1>1. PICK approval \in ctl.approvals :
        \/ ApproveAction(approval)
        \/ DenyAction(approval)
        \/ \E anyAccepted \in BOOLEAN : ResolveInlineApproval(approval, anyAccepted)
  BY DEF UserAnswersApproval
<1> DEFINE left == ctl.approvals \ {approval}
           c == [ctl EXCEPT !.approvals = left]
           n == c.calls + 1
           counted == [c EXCEPT !.calls = n]
           tool == approval.tool
           frame == ToolFrame("approve_action", c)
<1>2. ctl \in Controller
  BY DEF SafetyInv
<1>3. left \in SUBSET Approval
  BY <1>2 DEF Controller
<1>4. CASE ApproveAction(approval)
  <2>1. \/ RunNextIteration(c)
        \/ Commit(Suspend(counted, frame))
        \/ RunNextIteration(counted)
    BY <1>4 DEF ApproveAction
  <2> HIDE DEF left, tool
  <2>2. c \in Controller
    BY <1>2, <1>3, ApprovalsEdit
  <2>3. Same(ctl, c)
    BY <1>2, <2>2 DEF Same, Controller
  <2>4. frame \in Frame
    BY <2>2, ToolFrameType
  <2> HIDE DEF c, frame
  <2>5. n \in Nat
    BY <2>2 DEF Controller
  <2> HIDE DEF n
  <2>6. counted \in Controller
    BY <2>2, <2>5, CallsEdit
  <2>7. Same(c, counted)
    BY <2>2, <2>6 DEF Same, Controller
  <2> HIDE DEF counted
  <2>8. SafetyInv(c) /\ SafetyInv(counted)
    BY <2>3, <2>7, SameKeeps
  <2>9. SafetyInv(Suspend(counted, frame))
    BY <2>4, <2>6, <2>8, SuspendSame, SameKeeps
  <2> QED
    BY <2>1, <2>8, <2>9, CommitSafe, RunNextIterationSafe
<1>5. CASE DenyAction(approval)
  <2>1. RunNextIteration(c)
    BY <1>5 DEF DenyAction
  <2> HIDE DEF left
  <2>2. c \in Controller
    BY <1>2, <1>3, ApprovalsEdit
  <2>3. Same(ctl, c)
    BY <1>2, <2>2 DEF Same, Controller
  <2> HIDE DEF c
  <2> QED
    BY <2>1, <2>3, SameKeeps, RunNextIterationSafe
<1>6. CASE \E anyAccepted \in BOOLEAN : ResolveInlineApproval(approval, anyAccepted)
  <2>1. PICK anyAccepted \in BOOLEAN : ResolveInlineApproval(approval, anyAccepted)
    BY <1>6
  <2> DEFINE m == IF anyAccepted THEN ctl.calls + 1 ELSE ctl.calls
             resolved == [ctl EXCEPT !.approvals = left, !.calls = m]
  <2>2. m \in Nat
    BY <1>2 DEF Controller
  <2>3. RunNextIteration(resolved)
    BY <2>1 DEF ResolveInlineApproval
  <2> HIDE DEF m, left
  <2>4. resolved \in Controller
    BY <1>2, <1>3, <2>2, ApprovalsEdit, CallsEdit
  <2>5. Same(ctl, resolved)
    BY <1>2, <2>4 DEF Same, Controller
  <2> HIDE DEF resolved
  <2> QED
    BY <2>3, <2>5, SameKeeps, RunNextIterationSafe
<1> QED
  BY <1>1, <1>4, <1>5, <1>6

(* A decision of the user.                                                 *)
LEMMA SubmitUserDecisionSafe ==
    ASSUME SafetyInv(ctl), SubmitUserDecision
    PROVE  SafetyInv(ctl')
<1> DEFINE c == [ctl EXCEPT !.decision = FALSE]
<1>1. ctl \in Controller /\ RunNextIteration(c)
  BY DEF SafetyInv, SubmitUserDecision
<1>2. c \in Controller
  BY <1>1, DecisionEdit
<1>3. Same(ctl, c)
  BY <1>1, <1>2 DEF Same, Controller
<1> HIDE DEF c
<1> QED
  BY <1>1, <1>3, SameKeeps, RunNextIterationSafe

(* The end of an inline diff review.  Where zero timers come first no      *)
(* timer is posted when the review is finalised, so nothing is queued.     *)
LEMMA ReviewSafe ==
    ASSUME SafetyInv(ctl), RequestInlineDiffRefinement \/ FinalizeInlineDiffReview
    PROVE  SafetyInv(ctl')
<1>1. CASE RequestInlineDiffRefinement
  BY <1>1, RunNextIterationSafe DEF RequestInlineDiffRefinement
<1>2. CASE FinalizeInlineDiffReview
  <2>1. Running(ctl)
    BY <1>2 DEF FinalizeInlineDiffReview, Running, RunningStates, UserWaits
  <2>2. ZeroTimersFirst => ctl.steers = <<>>
    BY <1>2 DEF FinalizeInlineDiffReview, OtherEvent, SafetyInv, TimerPosted
  <2> QED
    BY <1>2, <2>1, <2>2, FinishSafe DEF FinalizeInlineDiffReview, Verdicts
<1> QED
  BY <1>1, <1>2

(* A suspended call goes on.                                               *)
LEMMA ReturnsSafe ==
    ASSUME TypeOK, SafetyInv(ctl),
           ExecuteToolReturns \/ ApproveActionReturns \/ StartReturns
    PROVE  SafetyInv(ctl')
<1>1. ctl.frames # <<>>
  BY DEF ExecuteToolReturns, ApproveActionReturns, StartReturns, NestedLoopReturns
<1>2. Resumed \in Controller /\ Head(ctl.frames) \in Frame
  BY <1>1, ResumedType
<1>3. Same(ctl, Resumed)
  BY <1>2 DEF Same, SafetyInv, Resumed, Controller
<1>4. SafetyInv(Resumed)
  BY <1>3, SameKeeps
<1>5. /\ Head(ctl.frames).ask \in BOOLEAN
      /\ Head(ctl.frames).dryRun \in BOOLEAN
      /\ Head(ctl.frames).compaction \in BOOLEAN
  BY <1>2 DEF Frame
<1> QED
  BY <1>4, <1>5, AfterToolSafe, RunNextIterationSafe, StartAfterRefreshSafe
  DEF ExecuteToolReturns, ApproveActionReturns, StartReturns

-----------------------------------------------------------------------------
(* Nothing is accepted before the first run.                               *)
LEMMA InitSafe == Init => SafetyInv(ctl)
<1> SUFFICES ASSUME Init PROVE SafetyInv(ctl)
  OBVIOUS
<1>1. ctl \in Controller
  BY InitType DEF TypeOK
<1>2. ctl.rsm = "IDLE" /\ ctl.iter = 0
  BY DEF Init
<1> QED
  BY <1>1, <1>2, LimitAssumption
  DEF SafetyInv, InOrder, Heard, TimerPosted, WithinLimit, Running,
     RunningStates, UserWaits

(* Every step of the controller preserves the invariant.                   *)
LEMMA NextSafe == TypeOK /\ SafetyInv(ctl) /\ [Next]_vars => SafetyInv(ctl')
<1> SUFFICES ASSUME TypeOK, SafetyInv(ctl), [Next]_vars PROVE SafetyInv(ctl')
  OBVIOUS
<1>1. inflight \in SUBSET Request
  BY DEF TypeOK
<1>2. CASE UserStarts
  BY <1>2, UserStartsSafe
<1>3. CASE Stop
  BY <1>1, <1>3, StopSafe
<1>4. CASE ProviderInactivityTimeout
  BY <1>1, <1>4, TimeoutSafe
<1>5. CASE ProviderAnswers \/ ProviderStreams
  BY <1>5, ProviderSafe
<1>6. CASE DrainResponses
  BY <1>6, DrainResponsesSafe
<1>7. CASE EnqueueSoftSteerMessage \/ SoftSteerTimer
  BY <1>7, EnqueueSafe, SoftSteerTimerSafe
<1>8. CASE UserAnswersApproval
  BY <1>8, UserAnswersApprovalSafe
<1>9. CASE SubmitUserDecision
  BY <1>9, SubmitUserDecisionSafe
<1>10. CASE RequestInlineDiffRefinement \/ FinalizeInlineDiffReview
  BY <1>10, ReviewSafe
<1>11. CASE ExecuteToolReturns \/ ApproveActionReturns \/ StartReturns
  BY <1>11, ReturnsSafe
<1>12. CASE UNCHANGED vars
  BY <1>12 DEF vars
<1> QED
  BY <1>2, <1>3, <1>4, <1>5, <1>6, <1>7, <1>8, <1>9, <1>10, <1>11, <1>12 DEF Next

(* The inductive argument, once for both theorems.                         *)
LEMMA AlwaysSafe == Spec => [](SafetyInv(ctl))
<1>1. Init => TypeOK /\ SafetyInv(ctl)
  BY InitType, InitSafe
<1>2. TypeOK /\ SafetyInv(ctl) /\ [Next]_vars => TypeOK' /\ SafetyInv(ctl)'
  BY NextType, NextSafe
<1> QED
  BY <1>1, <1>2, PTL DEF Spec

(* An active run has delivered, or still queues, exactly the messages it   *)
(* accepted, each once and in order: whatever handlers are suspended, and  *)
(* whether or not zero timers come first.                                  *)
THEOREM SteersAreKept == Spec => []SteersKeptInOrder
<1>1. SafetyInv(ctl) => SteersKeptInOrder
  BY DEF SafetyInv, InOrder, SteersKeptInOrder, Active, CountTo
<1> QED
  BY <1>1, AlwaysSafe, PTL

(* A run whose verdict is "completed" had delivered every message it       *)
(* accepted, provided that posted zero timers are served before clicks.    *)
THEOREM CompletedHeardAll ==
    ASSUME ZeroTimersFirst
    PROVE  Spec => []CompletedRunHeardEverySteer
<1>1. SafetyInv(ctl) => CompletedRunHeardEverySteer
  BY DEF SafetyInv, Heard, CompletedRunHeardEverySteer
<1> QED
  BY <1>1, AlwaysSafe, PTL

-----------------------------------------------------------------------------
(***************************************************************************)
(* PART 3.  REQUESTS AND WAITS                                             *)
(*                                                                         *)
(* Where no tool and no MCP refresh spins a nested event loop and posted   *)
(* zero timers come first, the wait a run is in says what is outstanding:  *)
(* one request while it waits for the provider, with the watchdog armed,   *)
(* and one question while it waits for the user.                           *)
(***************************************************************************)

(* The run's one request is at the provider, or its reply is queued.       *)
OneRequestOut(c, q) ==
    \E req \in Request :
        /\ req.run = c.run
        /\ \/ q = {req} /\ c.responses = <<>>
           \/ /\ q = {}
              /\ \E reply \in Response : c.responses = <<reply>> /\ reply.req = req

WaitInv(c, q) ==
    /\ c \in Controller
    /\ c.frames = <<>>
    /\ ~c.draining
    /\ c.rsm # "STARTING"
    /\ c.watchdog <=> c.rsm = "WAITING_FOR_PROVIDER"
    /\ c.rsm = "WAITING_FOR_PROVIDER" => OneRequestOut(c, q)
    /\ c.rsm # "WAITING_FOR_PROVIDER" => q = {}
    /\ c.rsm \in UserWaits => c.responses = <<>>
    /\ Len(c.responses) <= 1
    /\ Running(c) =>
           /\ c.decision <=> c.rsm = "WAITING_FOR_USER_DECISION"
           /\ IF c.rsm = "WAITING_FOR_APPROVAL"
              THEN \E approval : c.approvals = {approval}
              ELSE c.approvals = {}
    /\ c.steerTimers > 0 =>
           /\ c.steerTimers = 1
           /\ c.steers # <<>>
           /\ c.rsm \in {"WAITING_FOR_APPROVAL", "WAITING_FOR_INLINE_DIFF_REVIEW"}

(* A handler that may ask for the next request: nothing is outstanding.    *)
Ready(c) ==
    /\ c \in Controller
    /\ Running(c)
    /\ c.frames = <<>>
    /\ c.responses = <<>>
    /\ inflight = {}
    /\ ~c.watchdog
    /\ c.steerTimers = 0
    /\ c.approvals = {}
    /\ ~c.decision

SameWait(c, d) ==
    /\ d \in Controller
    /\ d.rsm = c.rsm
    /\ d.frames = c.frames
    /\ d.responses = c.responses
    /\ d.watchdog = c.watchdog
    /\ d.steerTimers = c.steerTimers
    /\ d.approvals = c.approvals
    /\ d.decision = c.decision

(* An edit of other fields leaves the handler ready.                       *)
LEMMA ReadyEdit ==
    ASSUME NEW c, NEW d, Ready(c), SameWait(c, d)
    PROVE  Ready(d)
BY DEF Ready, SameWait, Running

(* Settle stops a drain loop whose queue is empty.                         *)
LEMMA SettleWait ==
    ASSUME NEW c \in Controller
    PROVE  /\ SameWait(c, Settle(c))
           /\ Settle(c).run = c.run
           /\ Settle(c).steers = c.steers
           /\ Settle(c).draining <=> c.draining /\ c.responses # <<>>
<1>1. Settle(c) \in Controller
  BY SettleType
<1> QED
  BY <1>1 DEF SameWait, Settle, Controller

(* The run ends with nothing outstanding.                                  *)
LEMMA FinishWait ==
    ASSUME NEW c, Ready(c), NEW verdict \in Verdicts, Finish(c, verdict)
    PROVE  WaitInv(ctl', inflight')
<1>0. PICK written \in BOOLEAN : Commit(FinishRun(c, verdict, written))
  BY DEF Finish
<1> DEFINE d == FinishRun(c, verdict, written)
           e == Settle(d)
<1>1. c \in Controller /\ d \in Controller
  BY FinishRunType DEF Ready
<1>2. /\ d.rsm = Mark(c.rsm, verdict)
      /\ d.frames = c.frames
      /\ d.responses = c.responses
      /\ d.watchdog = c.watchdog
      /\ d.steerTimers = c.steerTimers
  BY <1>1 DEF FinishRun, Controller
<1> HIDE DEF d
<1>3. d.rsm \in Verdicts
  BY <1>2 DEF Ready, Running, Mark
<1>4. SameWait(d, e) /\ ~e.draining
  BY <1>1, <1>2, SettleWait DEF Ready
<1>5. ctl' = e /\ inflight' = inflight
  BY <1>0 DEF Commit, d
<1> HIDE DEF e
<1> QED
  BY <1>2, <1>3, <1>4, <1>5
  DEF WaitInv, SameWait, Ready, Running, RunningStates, UserWaits, Verdicts

(* The run asks the user, and nothing else.                                *)
LEMMA CommitAskedWait ==
    ASSUME NEW c, Ready(c), NEW d \in Controller, Commit(d),
           d.frames = c.frames, d.responses = c.responses, d.watchdog = c.watchdog,
           d.steerTimers = c.steerTimers,
           \/ /\ d.rsm = "WAITING_FOR_APPROVAL"
              /\ \E approval : d.approvals = {approval}
              /\ ~d.decision
           \/ /\ d.rsm = "WAITING_FOR_USER_DECISION"
              /\ d.approvals = {}
              /\ d.decision
           \/ /\ d.rsm = "WAITING_FOR_INLINE_DIFF_REVIEW"
              /\ d.approvals = {}
              /\ ~d.decision
    PROVE  WaitInv(ctl', inflight')
<1> DEFINE e == Settle(d)
<1>1. SameWait(d, e) /\ ~e.draining
  BY SettleWait DEF Ready
<1>2. ctl' = e /\ inflight' = inflight
  BY DEF Commit
<1> HIDE DEF e
<1>3. e.rsm \in UserWaits /\ e.rsm # "WAITING_FOR_PROVIDER"
  BY <1>1 DEF SameWait, UserWaits
<1>4. e.responses = <<>> /\ e.frames = <<>> /\ ~e.watchdog /\ e.steerTimers = 0
  BY <1>1 DEF SameWait, Ready
<1>5. /\ e.decision <=> e.rsm = "WAITING_FOR_USER_DECISION"
      /\ IF e.rsm = "WAITING_FOR_APPROVAL"
         THEN \E approval : e.approvals = {approval}
         ELSE e.approvals = {}
  BY <1>1 DEF SameWait
<1>6. e \in Controller /\ inflight = {} /\ e.rsm # "STARTING"
  BY <1>1, <1>3 DEF SameWait, Ready, UserWaits
<1>7. Len(e.responses) <= 1
  BY <1>4
<1>8. WaitInv(e, inflight)
  <2>1. e.watchdog <=> e.rsm = "WAITING_FOR_PROVIDER"
    BY <1>3, <1>4
  <2>2. ~(e.steerTimers > 0)
    BY <1>4
  <2> QED
    BY <1>1, <1>3, <1>4, <1>5, <1>6, <1>7, <2>1, <2>2, Zenon DEF WaitInv
<1> QED
  BY <1>2, <1>8

(* A request goes out, with the watchdog armed, or the run fails.          *)
LEMMA SendWait ==
    ASSUME NEW c, Ready(c), NEW kind \in {"agent", "compaction"}, Send(c, kind)
    PROVE  WaitInv(ctl', inflight')
<1> DEFINE mid == c.midRun /\ kind # "compaction"
           refused == [c EXCEPT !.watchdog = FALSE, !.midRun = mid]
           state == AwaitProvider(c.rsm)
           waiting == [c EXCEPT !.rsm = state, !.watchdog = TRUE]
           req == [run |-> c.run, iter |-> c.iter, kind |-> kind]
           e == Settle(waiting)
<1>1. \/ Finish(refused, "FAILED")
      \/ ctl' = e /\ inflight' = inflight \cup {req}
  BY DEF Send
<1>2. c \in Controller /\ mid \in BOOLEAN
  BY DEF Ready
<1>3. state = "WAITING_FOR_PROVIDER"
  BY DEF Ready, Running, AwaitProvider
<1>4. req \in Request /\ req.run = c.run
  BY <1>2 DEF Request, Controller
<1> HIDE DEF mid, state, req
<1>5. CASE Finish(refused, "FAILED")
  <2>1. refused \in Controller
    BY <1>2, WatchdogEdit, MidRunEdit
  <2>2. SameWait(c, refused)
    BY <1>2, <2>1 DEF SameWait, Ready, Controller
  <2> HIDE DEF refused
  <2> QED
    BY <1>5, <2>2, ReadyEdit, FinishWait DEF Verdicts
<1>6. CASE ctl' = e /\ inflight' = inflight \cup {req}
  <2>1. waiting \in Controller
    BY <1>2, <1>3, RsmEdit, WatchdogEdit DEF States, RunningStates
  <2>2. /\ waiting.rsm = state /\ waiting.watchdog = TRUE
        /\ waiting.frames = c.frames /\ waiting.responses = c.responses
        /\ waiting.steerTimers = c.steerTimers /\ waiting.approvals = c.approvals
        /\ waiting.decision = c.decision /\ waiting.run = c.run
    BY <1>2 DEF Controller
  <2> HIDE DEF waiting
  <2>3. SameWait(waiting, e) /\ e.run = c.run /\ ~e.draining
    BY <2>1, <2>2, SettleWait DEF Ready
  <2> HIDE DEF e
  <2>4. inflight' = {req}
    BY <1>6 DEF Ready
  <2>5. e.responses = <<>>
    BY <2>2, <2>3 DEF Ready, SameWait
  <2>6. OneRequestOut(e, inflight')
    BY <1>4, <2>3, <2>4, <2>5 DEF OneRequestOut
  <2> QED
    BY <1>3, <1>6, <2>2, <2>3, <2>5, <2>6 DEF WaitInv, SameWait, Ready, UserWaits
<1> QED
  BY <1>1, <1>5, <1>6

(* So with a mid-run compaction.                                           *)
LEMMA StartMidRunAutoCompactionWait ==
    ASSUME NEW c, Ready(c), StartMidRunAutoCompaction(c)
    PROVE  WaitInv(ctl', inflight')
<1> DEFINE n == c.compactions + 1
           d == [c EXCEPT !.midRun = TRUE, !.high = FALSE, !.compactions = n]
<1>1. c \in Controller /\ n \in Nat
  BY DEF Ready, Controller
<1>2. Finish(c, "FAILED") \/ Send(d, "compaction")
  BY DEF StartMidRunAutoCompaction
<1> HIDE DEF n
<1>3. d \in Controller
  BY <1>1, MidRunEdit, HighEdit, CompactionsEdit
<1>4. SameWait(c, d)
  BY <1>1, <1>3 DEF SameWait, Controller
<1> HIDE DEF d
<1> QED
  BY <1>2, <1>4, ReadyEdit, FinishWait, SendWait DEF Verdicts

(* Delivering queued messages withdraws the question.                      *)
LEMMA ApplySoftSteerReady ==
    ASSUME NEW c, Ready(c)
    PROVE  Ready(ApplySoftSteer(c))
<1>1. c \in Controller /\ ApplySoftSteer(c) \in Controller
  BY ApplySoftSteerType DEF Ready
<1> QED
  BY <1>1 DEF Ready, ApplySoftSteer, Controller, Running

(* The tail nearly every handler ends in sends one request at most.        *)
LEMMA RunNextIterationWait ==
    ASSUME NEW c, Ready(c), RunNextIteration(c)
    PROVE  WaitInv(ctl', inflight')
<1> DEFINE d == ApplySoftSteer(c)
           e == [d EXCEPT !.iter = @ + 1]
<1>1. Ready(d)
  BY ApplySoftSteerReady
<1>2. \/ Finish(d, "FAILED")
      \/ StartMidRunAutoCompaction(d)
      \/ Send(e, "agent")
  BY DEF RunNextIteration, Ready
<1> HIDE DEF d
<1>3. d \in Controller
  BY <1>1 DEF Ready
<1>4. e \in Controller
  BY <1>3, NextIterType
<1>5. SameWait(d, e)
  BY <1>3, <1>4 DEF SameWait, Controller
<1> HIDE DEF e
<1> QED
  BY <1>1, <1>2, <1>5, ReadyEdit, FinishWait, SendWait,
     StartMidRunAutoCompactionWait DEF Verdicts

(* execute_tool of a tool that spins no event loop.                        *)
LEMMA ExecuteToolWait ==
    ASSUME Looping = {}, NEW c, Ready(c), c.rsm = "WAITING_FOR_PROVIDER",
           NEW tool \in Names, ExecuteTool(c, tool)
    PROVE  WaitInv(ctl', inflight')
<1> DEFINE n == c.calls + 1
           counted == [c EXCEPT !.calls = n]
           asked == RequestApproval(c, tool)
<1>1. \/ Finish(c, "FAILED")
      \/ RunNextIteration(c)
      \/ Commit(asked)
      \/ AfterTool(counted)
  BY DEF ExecuteTool
<1>2. c \in Controller /\ n \in Nat
  BY DEF Ready, Controller
<1> HIDE DEF n
<1>3. counted \in Controller
  BY <1>2, CallsEdit
<1>4. SameWait(c, counted)
  BY <1>2, <1>3 DEF SameWait, Controller
<1> HIDE DEF counted
<1>5. Ready(counted)
  BY <1>4, ReadyEdit
<1>6. CASE Commit(asked)
  <2>1. asked \in Controller
    BY <1>2, RequestApprovalType
  <2>2. /\ asked.rsm = "WAITING_FOR_APPROVAL"
        /\ asked.approvals = {[id |-> c.nextApproval, tool |-> tool]}
        /\ asked.frames = c.frames /\ asked.responses = c.responses
        /\ asked.watchdog = c.watchdog /\ asked.steerTimers = c.steerTimers
        /\ asked.decision = c.decision
    BY <1>2, <2>1 DEF RequestApproval, Controller, AwaitUser, Ready
  <2> HIDE DEF asked
  <2> QED
    BY <1>6, <2>1, <2>2, CommitAskedWait DEF Ready
<1> HIDE DEF asked
<1>7. CASE AfterTool(counted)
  BY <1>5, <1>7, ApplySoftSteerReady, RunNextIterationWait DEF AfterTool
<1> QED
  BY <1>1, <1>6, <1>7, FinishWait, RunNextIterationWait DEF Verdicts

(* A compaction reply.                                                     *)
LEMMA HandleCompactionReplyWait ==
    ASSUME NEW c, Ready(c), NEW reply, HandleCompactionReply(c, reply)
    PROVE  WaitInv(ctl', inflight')
<1> DEFINE done == CompactionDone(c)
<1>1. c \in Controller
  BY DEF Ready
<1>2. done \in Controller
  BY <1>1, MidRunEdit, HighEdit DEF CompactionDone
<1>3. SameWait(c, done)
  BY <1>1, <1>2 DEF SameWait, CompactionDone, Controller
<1>4. \/ \E verdict \in Verdicts : Finish(c, verdict)
      \/ Finish(done, "FAILED")
      \/ RunNextIteration(done)
  BY DEF HandleCompactionReply, Verdicts
<1> HIDE DEF done
<1> QED
  BY <1>3, <1>4, ReadyEdit, FinishWait, RunNextIterationWait DEF Verdicts

(* An agent reply.                                                         *)
LEMMA HandleAgentReplyWait ==
    ASSUME Looping = {}, NEW c, Ready(c), c.rsm = "WAITING_FOR_PROVIDER",
           NEW reply \in Response, HandleAgentReply(c, reply)
    PROVE  WaitInv(ctl', inflight')
<1> DEFINE corrected == [c EXCEPT !.modeRetries = @ + 1]
           reformatted == [c EXCEPT !.textRetries = @ + 1]
           review == [c EXCEPT !.rsm = AwaitUser(@, "WAITING_FOR_INLINE_DIFF_REVIEW")]
           asked == [c EXCEPT !.decision = TRUE,
                              !.rsm = AwaitUser(@, "WAITING_FOR_USER_DECISION")]
           approval == RequestApproval(c, reply.tool)
<1>1. \/ \E verdict \in Verdicts : Finish(c, verdict)
      \/ RunNextIteration(corrected)
      \/ RunNextIteration(reformatted)
      \/ RunNextIteration(c)
      \/ ExecuteTool(c, reply.tool)
      \/ Commit(review)
      \/ Commit(asked)
      \/ Commit(approval)
  BY DEF HandleAgentReply, Verdicts
<1>2. c \in Controller /\ reply.tool \in Names
  BY DEF Ready, Response
<1>3. corrected \in Controller /\ reformatted \in Controller
  BY <1>2, RetryType
<1>4. SameWait(c, corrected) /\ SameWait(c, reformatted)
  BY <1>2, <1>3 DEF SameWait, Controller
<1>5. CASE Commit(review)
  <2>1. review \in Controller
    BY <1>2, AwaitUserType DEF UserWaits
  <2>2. /\ review.rsm = "WAITING_FOR_INLINE_DIFF_REVIEW"
        /\ review.approvals = c.approvals
        /\ review.frames = c.frames /\ review.responses = c.responses
        /\ review.watchdog = c.watchdog /\ review.steerTimers = c.steerTimers
        /\ review.decision = c.decision
    BY <1>2 DEF Controller, AwaitUser
  <2> HIDE DEF review
  <2> QED
    BY <1>5, <2>1, <2>2, CommitAskedWait DEF Ready
<1>6. CASE Commit(asked)
  <2>1. asked \in Controller
    BY <1>2, AwaitUserType DEF UserWaits
  <2>2. /\ asked.rsm = "WAITING_FOR_USER_DECISION"
        /\ asked.approvals = c.approvals
        /\ asked.frames = c.frames /\ asked.responses = c.responses
        /\ asked.watchdog = c.watchdog /\ asked.steerTimers = c.steerTimers
        /\ asked.decision = TRUE
    BY <1>2 DEF Controller, AwaitUser
  <2> HIDE DEF asked
  <2> QED
    BY <1>6, <2>1, <2>2, CommitAskedWait DEF Ready
<1>7. CASE Commit(approval)
  <2>1. approval \in Controller
    BY <1>2, RequestApprovalType
  <2>2. /\ approval.rsm = "WAITING_FOR_APPROVAL"
        /\ approval.approvals = {[id |-> c.nextApproval, tool |-> reply.tool]}
        /\ approval.frames = c.frames /\ approval.responses = c.responses
        /\ approval.watchdog = c.watchdog /\ approval.steerTimers = c.steerTimers
        /\ approval.decision = c.decision
    BY <1>2, <2>1 DEF RequestApproval, Controller, AwaitUser, Ready
  <2> HIDE DEF approval
  <2> QED
    BY <1>7, <2>1, <2>2, CommitAskedWait DEF Ready
<1> HIDE DEF corrected, reformatted, review, asked, approval
<1>8. CASE ExecuteTool(c, reply.tool)
  BY <1>2, <1>8, ExecuteToolWait
<1> QED
  BY <1>1, <1>4, <1>5, <1>6, <1>7, <1>8, ReadyEdit, FinishWait, RunNextIterationWait

(* The reply to the run's one request.                                     *)
LEMMA HandleResponseWait ==
    ASSUME Looping = {}, NEW c \in Controller, c.rsm = "WAITING_FOR_PROVIDER",
           c.frames = <<>>, c.responses = <<>>, inflight = {}, c.steerTimers = 0,
           c.approvals = {}, ~c.decision,
           NEW reply \in Response, HandleResponse(c, reply)
    PROVE  WaitInv(ctl', inflight')
<1> DEFINE answered == [c EXCEPT !.watchdog = FALSE]
           high == IF CompactionActive(c) THEN answered.high ELSE reply.high
           metered == [answered EXCEPT !.high = high]
           retries == IF reply.type = "text" THEN metered.textRetries ELSE 0
           parsed == [metered EXCEPT !.textRetries = retries]
           failed == [answered EXCEPT !.midRun = FALSE]
<1>1. answered \in Controller
  BY WatchdogEdit
<1>2. high \in BOOLEAN
  BY <1>1 DEF Response, Controller
<1>3. Running(c)
  BY DEF Running, RunningStates
<1>4. \/ Finish(failed, "FAILED")
      \/ RunNextIteration(ApplySoftSteer(metered))
      \/ HandleCompactionReply(metered, reply)
      \/ HandleAgentReply(parsed, reply)
  BY <1>3 DEF HandleResponse
<1> HIDE DEF high
<1>5. Ready(answered) /\ answered.rsm = c.rsm
  <2>1. /\ answered.rsm = c.rsm /\ answered.frames = c.frames
        /\ answered.responses = c.responses /\ answered.watchdog = FALSE
        /\ answered.steerTimers = c.steerTimers /\ answered.approvals = c.approvals
        /\ answered.decision = c.decision
    BY DEF Controller
  <2> HIDE DEF answered
  <2> QED
    BY <1>1, <1>3, <2>1 DEF Ready, Running
<1> HIDE DEF answered
<1>6. metered \in Controller /\ failed \in Controller
  BY <1>1, <1>2, HighEdit, MidRunEdit
<1>7. SameWait(answered, metered) /\ SameWait(answered, failed)
  BY <1>1, <1>6 DEF SameWait, Controller
<1> HIDE DEF metered, failed
<1>8. retries \in Nat
  BY <1>6 DEF Controller
<1> HIDE DEF retries
<1>9. parsed \in Controller
  BY <1>6, <1>8, TextRetriesEdit
<1>10. SameWait(metered, parsed)
  BY <1>6, <1>9 DEF SameWait, Controller
<1> HIDE DEF parsed
<1>11. /\ Ready(metered) /\ Ready(failed) /\ Ready(parsed)
       /\ parsed.rsm = "WAITING_FOR_PROVIDER"
  BY <1>5, <1>7, <1>10, ReadyEdit DEF SameWait
<1> QED
  BY <1>4, <1>11, FinishWait, RunNextIterationWait, ApplySoftSteerReady,
     HandleCompactionReplyWait, HandleAgentReplyWait DEF Verdicts

-----------------------------------------------------------------------------
(* Events                                                                  *)

(* An edit that concerns neither requests nor questions.                   *)
LEMMA OtherEdit ==
    ASSUME NEW c, NEW d, NEW q, WaitInv(c, q), SameWait(c, d),
           d.run = c.run, d.steers = c.steers, ~d.draining
    PROVE  WaitInv(d, q)
<1>1. c.rsm = "WAITING_FOR_PROVIDER" => OneRequestOut(d, q)
  BY DEF WaitInv, OneRequestOut, SameWait
<1> QED
  BY <1>1 DEF WaitInv, SameWait, Running

(* Outside a run only a late reply may be left.                            *)
LEMMA RestWait ==
    ASSUME NEW c \in Controller, ~Running(c), c.frames = <<>>, ~c.draining,
           ~c.watchdog, Len(c.responses) <= 1, c.steerTimers = 0
    PROVE  WaitInv(c, {})
BY DEF WaitInv, Running, RunningStates, UserWaits

(* A reply is taken off the queue.                                         *)
LEMMA DrainResponsesWait ==
    ASSUME Looping = {}, TypeOK, WaitInv(ctl, inflight), DrainResponses
    PROVE  WaitInv(ctl', inflight')
<1> DEFINE again == ctl.dispatch /\ ctl.draining
           c == [ctl EXCEPT !.dispatch = again, !.draining = TRUE]
           left == Tail(c.responses)
           d == [c EXCEPT !.responses = left]
<1>1. ctl \in Controller /\ again \in BOOLEAN
  BY DEF TypeOK
<1>2. \/ c.responses = <<>> /\ Commit(c)
      \/ c.responses # <<>> /\ HandleResponse(d, Head(c.responses))
  BY DEF DrainResponses
<1> HIDE DEF again
<1>3. c \in Controller
  BY <1>1, DispatchEdit, DrainingEdit
<1>4. SameWait(ctl, c) /\ c.run = ctl.run /\ c.steers = ctl.steers
  BY <1>1, <1>3 DEF SameWait, Controller
<1> HIDE DEF c
<1>5. CASE c.responses = <<>> /\ Commit(c)
  <2> DEFINE e == Settle(c)
  <2>1. SameWait(c, e) /\ e.run = c.run /\ e.steers = c.steers /\ ~e.draining
    BY <1>3, <1>5, SettleWait
  <2>2. ctl' = e /\ inflight' = inflight
    BY <1>5 DEF Commit
  <2> HIDE DEF e
  <2>3. SameWait(ctl, e)
    BY <1>4, <2>1 DEF SameWait
  <2> QED
    BY <1>4, <2>1, <2>2, <2>3, OtherEdit
<1>6. CASE c.responses # <<>> /\ HandleResponse(d, Head(c.responses))
  <2>1. c.responses \in Seq(Response) /\ Len(c.responses) <= 1
    BY <1>3, <1>4 DEF Controller, WaitInv, SameWait
  <2>2. Head(c.responses) \in Response /\ left = <<>> /\ left \in Seq(Response)
    BY <1>6, <2>1
  <2> HIDE DEF left
  <2>3. d \in Controller
    BY <1>3, <2>2, ResponsesEdit
  <2>4. /\ d.rsm = ctl.rsm /\ d.frames = ctl.frames /\ d.responses = <<>>
        /\ d.watchdog = ctl.watchdog /\ d.steerTimers = ctl.steerTimers
        /\ d.approvals = ctl.approvals /\ d.decision = ctl.decision
    BY <1>3, <1>4, <2>2 DEF SameWait, Controller
  <2> HIDE DEF d
  <2>5. ctl.responses # <<>> /\ ctl.rsm \notin UserWaits
    BY <1>4, <1>6 DEF WaitInv, SameWait
  <2>6. CASE Running(ctl)
    <3>1. ctl.rsm = "WAITING_FOR_PROVIDER"
      BY <2>5, <2>6 DEF WaitInv, Running, RunningStates
    <3>2. inflight = {}
      BY <2>5, <3>1 DEF WaitInv, OneRequestOut
    <3>3. ctl.steerTimers = 0
      BY <1>1, <3>1 DEF WaitInv, Controller
    <3>4. ctl.approvals = {} /\ ~ctl.decision /\ ctl.frames = <<>>
      BY <2>6, <3>1 DEF WaitInv
    <3> QED
      BY <1>6, <2>2, <2>3, <2>4, <3>1, <3>2, <3>3, <3>4, HandleResponseWait
  <2>7. CASE ~Running(ctl)
    <3>1. Commit(d)
      BY <1>6, <2>4, <2>7 DEF HandleResponse, Running
    <3> DEFINE e == Settle(d)
    <3>2. SameWait(d, e) /\ ~e.draining
      BY <2>3, <2>4, SettleWait
    <3>3. ctl' = e /\ inflight' = inflight
      BY <3>1 DEF Commit
    <3> HIDE DEF e
    <3>4. inflight = {} /\ ~ctl.watchdog /\ ctl.frames = <<>> /\ ctl.steerTimers = 0
      BY <1>1, <2>7 DEF WaitInv, Running, RunningStates, UserWaits, Controller
    <3>5. e.responses = <<>> /\ Len(e.responses) <= 1
      BY <2>4, <3>2 DEF SameWait
    <3> QED
      BY <2>4, <2>7, <3>2, <3>3, <3>4, <3>5, RestWait DEF SameWait, Running
  <2> QED
    BY <2>6, <2>7
<1> QED
  BY <1>2, <1>5, <1>6

(* provider->cancel() after the run has ended: the report of the           *)
(* cancellation may stay queued.                                           *)
LEMMA CancelWait ==
    ASSUME TypeOK, NEW c \in Controller, Running(c), NEW verdict \in Verdicts,
           CancelAndFinish(c, verdict),
           c.frames = <<>>, ~c.draining, ~c.watchdog, c.steerTimers = 0,
           Len(c.responses) <= 1, inflight # {} => c.responses = <<>>
    PROVE  WaitInv(ctl', inflight')
<1>0. PICK written \in BOOLEAN : CancelAndCommit(FinishRun(c, verdict, written))
  BY DEF CancelAndFinish
<1> DEFINE d == FinishRun(c, verdict, written)
<1>1. d \in Controller
  BY FinishRunType
<1>2. /\ d.rsm = Mark(c.rsm, verdict) /\ d.frames = c.frames
      /\ d.draining = c.draining /\ d.watchdog = c.watchdog
      /\ d.steerTimers = c.steerTimers /\ d.responses = c.responses
  BY <1>1 DEF FinishRun, Controller
<1> HIDE DEF d
<1>3. ~Running(d)
  BY <1>2 DEF Running, Mark, RunningStates, UserWaits, Verdicts
<1>4. inflight' = {}
  BY <1>0 DEF CancelAndCommit
<1>5. ASSUME NEW e \in Controller, ctl' = Settle(e), e.rsm = d.rsm,
             e.frames = d.frames, e.draining = d.draining, e.watchdog = d.watchdog,
             e.steerTimers = d.steerTimers, Len(e.responses) <= 1
      PROVE  WaitInv(ctl', inflight')
  <2> DEFINE f == Settle(e)
  <2>1. SameWait(e, f) /\ ~f.draining
    BY <1>2, <1>5, SettleWait
  <2> HIDE DEF f
  <2>2. WaitInv(f, {})
    BY <1>2, <1>3, <1>5, <2>1, RestWait DEF SameWait, Running
  <2> QED
    BY <1>4, <1>5, <2>2 DEF f
<1>6. CASE ctl' = Settle(d)
  BY <1>1, <1>2, <1>5, <1>6
<1>7. CASE \E req \in inflight :
             ctl' = Settle([d EXCEPT !.responses =
                                 Append(@, [req |-> req, type |-> "error",
                                            tool |-> NoTool, high |-> FALSE]),
                                     !.dispatch = TRUE])
  <2>1. PICK req \in inflight :
             ctl' = Settle([d EXCEPT !.responses =
                                 Append(@, [req |-> req, type |-> "error",
                                            tool |-> NoTool, high |-> FALSE]),
                                     !.dispatch = TRUE])
    BY <1>7
  <2> DEFINE reply == [req |-> req, type |-> "error", tool |-> NoTool, high |-> FALSE]
             queue == Append(d.responses, reply)
             e == [d EXCEPT !.responses = queue, !.dispatch = TRUE]
  <2>2. reply \in Response
    BY DEF Response, AllReplyTypes, Names, TypeOK
  <2>3. ctl' = Settle(e)
    BY <2>1
  <2> HIDE DEF reply
  <2>4. queue \in Seq(Response) /\ Len(queue) <= 1
    <3>1. d.responses \in Seq(Response)
      BY <1>1 DEF Controller
    <3>2. d.responses = <<>>
      BY <1>2, <2>1
    <3> QED
      BY <2>2, <3>1, <3>2
  <2> HIDE DEF queue
  <2>5. e \in Controller
    BY <1>1, <2>4, ResponsesEdit, DispatchEdit
  <2>6. /\ e.rsm = d.rsm /\ e.frames = d.frames /\ e.draining = d.draining
        /\ e.watchdog = d.watchdog /\ e.steerTimers = d.steerTimers
        /\ e.responses = queue
    BY <1>1 DEF Controller
  <2> HIDE DEF e
  <2> QED
    BY <1>5, <2>3, <2>4, <2>5, <2>6
<1> QED
  BY <1>0, <1>6, <1>7 DEF CancelAndCommit, d

(* A request that is out has not been answered yet.                        *)
LEMMA InflightUnanswered ==
    ASSUME NEW c, NEW q, WaitInv(c, q), q # {}
    PROVE  c.responses = <<>> /\ c.rsm = "WAITING_FOR_PROVIDER"
BY DEF WaitInv, OneRequestOut

(* stop().                                                                 *)
LEMMA StopWait ==
    ASSUME ZeroTimersFirst, TypeOK, WaitInv(ctl, inflight), Stop
    PROVE  WaitInv(ctl', inflight')
<1> DEFINE c == [ctl EXCEPT !.midRun = FALSE, !.high = FALSE, !.steers = <<>>,
                            !.decision = FALSE, !.watchdog = FALSE]
<1>1. ctl \in Controller /\ <<>> \in Seq(Nat)
  BY DEF TypeOK
<1>2. /\ Running(ctl) /\ CancelAndFinish(c, "STOPPED")
      /\ ctl.steerTimers = 0
  BY DEF Stop, OtherEvent
<1>3. c \in Controller
  BY <1>1, MidRunEdit, HighEdit, SteersEdit, DecisionEdit, WatchdogEdit
<1>4. /\ c.rsm = ctl.rsm /\ c.frames = ctl.frames /\ c.draining = ctl.draining
      /\ c.watchdog = FALSE /\ c.steerTimers = ctl.steerTimers
      /\ c.responses = ctl.responses
  BY <1>1 DEF Controller
<1> HIDE DEF c
<1>5. inflight # {} => c.responses = <<>>
  BY <1>4, InflightUnanswered
<1>6. c.frames = <<>> /\ ~c.draining /\ Len(c.responses) <= 1
  BY <1>4 DEF WaitInv
<1> QED
  BY <1>2, <1>3, <1>4, <1>5, <1>6, CancelWait DEF Running, Verdicts

(* The watchdog.                                                           *)
LEMMA TimeoutWait ==
    ASSUME TypeOK, WaitInv(ctl, inflight), ProviderInactivityTimeout
    PROVE  WaitInv(ctl', inflight')
<1> DEFINE fired == [ctl EXCEPT !.watchdog = FALSE]
<1>1. ctl \in Controller
  BY DEF TypeOK
<1>2. fired \in Controller
  BY <1>1, WatchdogEdit
<1>3. /\ fired.rsm = ctl.rsm /\ fired.frames = ctl.frames
      /\ fired.draining = ctl.draining /\ fired.watchdog = FALSE
      /\ fired.steerTimers = ctl.steerTimers /\ fired.responses = ctl.responses
  BY <1>1 DEF Controller
<1>4. ctl.rsm = "WAITING_FOR_PROVIDER"
  BY DEF WaitInv, ProviderInactivityTimeout
<1>5. CancelAndFinish(fired, "FAILED")
  BY <1>4 DEF ProviderInactivityTimeout
<1> HIDE DEF fired
<1>6. inflight # {} => fired.responses = <<>>
  BY <1>3, InflightUnanswered
<1>7. fired.frames = <<>> /\ ~fired.draining /\ Len(fired.responses) <= 1
  BY <1>3 DEF WaitInv
<1>8. fired.steerTimers = 0
  BY <1>1, <1>3, <1>4 DEF WaitInv, Controller
<1>9. Running(fired)
  BY <1>3, <1>4 DEF Running, RunningStates
<1> QED
  BY <1>2, <1>3, <1>5, <1>6, <1>7, <1>8, <1>9, CancelWait DEF Verdicts

(* start(), which asks for its first request with nothing outstanding.     *)
LEMMA UserStartsWait ==
    ASSUME ~RefreshLoops, ZeroTimersFirst, TypeOK, WaitInv(ctl, inflight), UserStarts
    PROVE  WaitInv(ctl', inflight')
<1>1. PICK ask \in BOOLEAN, dryRun \in BOOLEAN, compaction \in BOOLEAN :
        Start(ask, dryRun, compaction)
  BY DEF UserStarts
<1>2. /\ ctl \in Controller /\ ~Running(ctl) /\ ctl.steerTimers = 0
      /\ StartAfterRefresh(ctl, ask, dryRun, compaction)
  BY <1>1 DEF Start, OtherEvent, TypeOK
<1>3. PICK d \in Controller :
        /\ RunNextIteration(d)
        /\ d.rsm = StartRun(ctl.rsm)
        /\ d.approvals = {}
        /\ d.decision = FALSE
        /\ d.responses = <<>>
        /\ d.frames = ctl.frames
        /\ d.steerTimers = ctl.steerTimers
        /\ d.watchdog = ctl.watchdog
  BY <1>2, FreshRunType
<1>4. Running(d)
  BY <1>3 DEF Running, StartRun, RunningStates
<1>5. ~ctl.watchdog /\ inflight = {} /\ ctl.frames = <<>>
  BY <1>2 DEF WaitInv, Running, RunningStates
<1> QED
  BY <1>2, <1>3, <1>4, <1>5, RunNextIterationWait DEF Ready

(* The provider answers or streams.                                        *)
LEMMA ProviderWait ==
    ASSUME TypeOK, WaitInv(ctl, inflight), ProviderAnswers \/ ProviderStreams
    PROVE  WaitInv(ctl', inflight')
<1>1. ctl \in Controller /\ ctl' \in Controller /\ inflight \in SUBSET Request
  BY ProviderAnswersType, ProviderStreamsType DEF TypeOK
<1>2. inflight # {}
  BY DEF ProviderAnswers, ProviderStreams
<1>3. ctl.responses = <<>> /\ ctl.rsm = "WAITING_FOR_PROVIDER"
  BY <1>2, InflightUnanswered
<1>4. CASE ProviderAnswers
  <2>1. PICK req \in inflight, type \in ReplyTypes, high \in Usage :
          \E tool \in ToolOf(type) : ProviderReplies(req, type, tool, high)
    BY <1>4 DEF ProviderAnswers
  <2>2. PICK tool \in ToolOf(type) : ProviderReplies(req, type, tool, high)
    BY <2>1
  <2> DEFINE reply == [req |-> req, type |-> type, tool |-> tool, high |-> high]
  <2>3. /\ ctl'.rsm = ctl.rsm /\ ctl'.run = ctl.run /\ ctl'.frames = ctl.frames
        /\ ctl'.draining = ctl.draining /\ ctl'.watchdog = ctl.watchdog
        /\ ctl'.approvals = ctl.approvals /\ ctl'.decision = ctl.decision
        /\ ctl'.steerTimers = ctl.steerTimers /\ ctl'.steers = ctl.steers
        /\ ctl'.responses = Append(ctl.responses, reply)
    BY <1>1, <2>2 DEF ProviderReplies, Controller
  <2>4. reply.req = req
    OBVIOUS
  <2>5. high \in BOOLEAN /\ tool \in Names
    BY ToolAssumption DEF Usage, ToolOf, Names
  <2>6. reply \in Response
    BY <1>1, <2>5, ReplyAssumption DEF Response
  <2> HIDE DEF reply
  <2>7. ctl'.responses = <<reply>> /\ Len(ctl'.responses) = 1
    BY <1>3, <2>3
  <2>8. inflight = {req} /\ req.run = ctl.run /\ req \in Request
    BY <1>1, <1>2, <1>3 DEF WaitInv, OneRequestOut
  <2>9. inflight' = {}
    BY <2>2, <2>8 DEF ProviderReplies
  <2>10. OneRequestOut(ctl', inflight')
    BY <2>3, <2>4, <2>6, <2>7, <2>8, <2>9 DEF OneRequestOut
  <2> QED
    BY <1>1, <1>3, <2>3, <2>7, <2>9, <2>10 DEF WaitInv, Running, UserWaits
<1>5. CASE ProviderStreams
  <2>1. ctl.watchdog = TRUE
    BY <1>1, <1>3 DEF WaitInv, Controller
  <2>2. SameWait(ctl, ctl') /\ ctl'.run = ctl.run /\ ctl'.steers = ctl.steers
        /\ ctl'.draining = ctl.draining
    BY <1>1, <1>5, <2>1 DEF ProviderStreams, SameWait, Controller
  <2>3. ~ctl'.draining
    BY <2>2 DEF WaitInv
  <2> QED
    BY <1>5, <2>2, <2>3, OtherEdit DEF ProviderStreams
<1> QED
  BY <1>4, <1>5

(* A follow-up message that finds the user asked posts one timer.          *)
LEMMA EnqueueWait ==
    ASSUME ZeroTimersFirst, TypeOK, WaitInv(ctl, inflight), EnqueueSoftSteerMessage
    PROVE  WaitInv(ctl', inflight')
<1> DEFINE queue == Append(ctl.steers, ctl.accepted + 1)
           count == ctl.accepted + 1
           timers == IF ctl.rsm \in {"WAITING_FOR_APPROVAL", "WAITING_FOR_INLINE_DIFF_REVIEW"}
                     THEN ctl.steerTimers + 1 ELSE ctl.steerTimers
           c == [ctl EXCEPT !.steers = queue, !.accepted = count, !.steerTimers = timers]
           e == Settle(c)
<1>1. ctl \in Controller /\ ctl.steerTimers = 0
  BY DEF TypeOK, EnqueueSoftSteerMessage, OtherEvent
<1>2. queue \in Seq(Nat) /\ queue # <<>> /\ count \in Nat /\ timers \in Nat
  <2>1. ctl.steers \in Seq(Nat) /\ ctl.accepted \in Nat
    BY <1>1 DEF Controller
  <2>2. count \in Nat
    BY <2>1
  <2>3. timers \in Nat
    BY <1>1
  <2> HIDE DEF count
  <2>4. queue = Append(ctl.steers, count)
    BY DEF count
  <2>5. queue \in Seq(Nat) /\ queue # <<>>
    BY <2>1, <2>2, <2>4
  <2> QED
    BY <2>2, <2>3, <2>5
<1>3. timers > 0 => /\ timers = 1
                    /\ ctl.rsm \in {"WAITING_FOR_APPROVAL", "WAITING_FOR_INLINE_DIFF_REVIEW"}
  BY <1>1
<1>4. ctl' = e /\ inflight' = inflight
  BY DEF EnqueueSoftSteerMessage, Commit
<1> HIDE DEF queue, count, timers
<1>5. c \in Controller
  BY <1>1, <1>2, SteersEdit, AcceptedEdit, SteerTimersEdit
<1>6. /\ c.rsm = ctl.rsm /\ c.run = ctl.run /\ c.frames = ctl.frames
      /\ c.draining = ctl.draining /\ c.watchdog = ctl.watchdog
      /\ c.approvals = ctl.approvals /\ c.decision = ctl.decision
      /\ c.responses = ctl.responses
      /\ c.steerTimers = timers /\ c.steers = queue
  BY <1>1 DEF Controller
<1> HIDE DEF c
<1>7. /\ e \in Controller
      /\ e.rsm = ctl.rsm /\ e.run = ctl.run /\ e.frames = ctl.frames
      /\ ~e.draining /\ e.watchdog = ctl.watchdog
      /\ e.approvals = ctl.approvals /\ e.decision = ctl.decision
      /\ e.responses = ctl.responses
      /\ e.steerTimers = timers /\ e.steers = queue
  BY <1>5, <1>6, SettleWait DEF SameWait, WaitInv
<1> HIDE DEF e
<1>8. ctl.rsm = "WAITING_FOR_PROVIDER" => OneRequestOut(e, inflight)
  BY <1>7 DEF WaitInv, OneRequestOut
<1>9. e.steerTimers > 0 =>
           /\ e.steerTimers = 1
           /\ e.steers # <<>>
           /\ e.rsm \in {"WAITING_FOR_APPROVAL", "WAITING_FOR_INLINE_DIFF_REVIEW"}
  BY <1>2, <1>3, <1>7
<1>10. WaitInv(e, inflight)
  BY <1>7, <1>8, <1>9 DEF WaitInv, Running
<1> QED
  BY <1>4, <1>10

(* The timer delivers the message and withdraws the question.              *)
LEMMA SoftSteerTimerWait ==
    ASSUME TypeOK, WaitInv(ctl, inflight), SoftSteerTimer
    PROVE  WaitInv(ctl', inflight')
<1> DEFINE left == ctl.steerTimers - 1
           c == [ctl EXCEPT !.steerTimers = left]
           d == ApplySoftSteer(c)
<1>1. ctl \in Controller /\ ctl.steerTimers \in Nat /\ ctl.steerTimers > 0
  BY DEF TypeOK, Controller, SoftSteerTimer
<1>2. /\ left = 0 /\ ctl.steers # <<>>
      /\ ctl.rsm \in {"WAITING_FOR_APPROVAL", "WAITING_FOR_INLINE_DIFF_REVIEW"}
  BY <1>1 DEF WaitInv
<1>3. Running(c) /\ c.steers # <<>> => RunNextIteration(d)
  BY DEF SoftSteerTimer
<1> HIDE DEF left
<1>4. c \in Controller
  BY <1>1, <1>2, SteerTimersEdit
<1>5. /\ c.rsm = ctl.rsm /\ c.frames = ctl.frames /\ c.watchdog = ctl.watchdog
      /\ c.responses = ctl.responses /\ c.steerTimers = 0 /\ c.steers = ctl.steers
  BY <1>1, <1>2 DEF Controller
<1> HIDE DEF c
<1>6. Running(c) /\ c.rsm \in UserWaits /\ c.rsm # "WAITING_FOR_PROVIDER"
  BY <1>2, <1>5 DEF Running, RunningStates, UserWaits
<1>7. c.frames = <<>> /\ c.responses = <<>> /\ inflight = {} /\ ~c.watchdog
  BY <1>5, <1>6 DEF WaitInv
<1>8. d \in Controller
  BY <1>4, ApplySoftSteerType
<1>9. /\ d.rsm = c.rsm /\ d.frames = c.frames /\ d.watchdog = c.watchdog
      /\ d.responses = c.responses /\ d.steerTimers = c.steerTimers
      /\ d.approvals = {} /\ d.decision = FALSE
  BY <1>2, <1>4, <1>5, <1>8 DEF ApplySoftSteer, Controller
<1> HIDE DEF d
<1>10. Ready(d)
  BY <1>5, <1>6, <1>7, <1>8, <1>9 DEF Ready, Running
<1> QED
  BY <1>2, <1>3, <1>5, <1>6, <1>10, RunNextIterationWait

(* An answer takes the one pending approval of an active run; one that is  *)
(* left over from an ended run sends no request.                           *)
LEMMA AnsweredWait ==
    ASSUME ZeroTimersFirst, OtherEvent, TypeOK, WaitInv(ctl, inflight),
           NEW approval \in ctl.approvals, NEW d \in Controller,
           d.rsm = ctl.rsm, d.run = ctl.run, d.frames = ctl.frames,
           d.draining = ctl.draining, d.watchdog = ctl.watchdog,
           d.decision = ctl.decision, d.responses = ctl.responses,
           d.steerTimers = ctl.steerTimers, d.approvals = ctl.approvals \ {approval},
           RunNextIteration(d)
    PROVE  WaitInv(ctl', inflight')
<1>1. ctl \in Controller /\ ctl.steerTimers = 0 /\ ctl.frames = <<>> /\ ~ctl.draining
  BY DEF TypeOK, OtherEvent, WaitInv
<1>2. CASE Running(ctl)
  <2>1. ctl.rsm = "WAITING_FOR_APPROVAL" /\ d.approvals = {}
    BY <1>2 DEF WaitInv
  <2>2. ctl.responses = <<>> /\ inflight = {} /\ ~ctl.watchdog /\ ~ctl.decision
    BY <1>2, <2>1 DEF WaitInv, UserWaits
  <2>3. Ready(d)
    BY <1>1, <1>2, <2>1, <2>2 DEF Ready, Running
  <2> QED
    BY <2>3, RunNextIterationWait
<1>3. CASE ~Running(ctl)
  <2> DEFINE e == Settle(d)
  <2>1. ctl' = e /\ inflight' = inflight
    BY <1>3 DEF RunNextIteration, Running, Commit
  <2>2. SameWait(d, e) /\ ~e.draining
    BY <1>1, SettleWait
  <2> HIDE DEF e
  <2>3. ~ctl.watchdog /\ inflight = {} /\ Len(ctl.responses) <= 1
    BY <1>3 DEF WaitInv, Running, RunningStates
  <2>4. WaitInv(e, {})
    BY <1>1, <1>3, <2>2, <2>3, RestWait DEF SameWait, Running
  <2> QED
    BY <2>1, <2>3, <2>4
<1> QED
  BY <1>2, <1>3

(* The three ways to answer an approval.                                   *)
LEMMA UserAnswersApprovalWait ==
    ASSUME Looping = {}, ZeroTimersFirst, TypeOK, WaitInv(ctl, inflight),
           UserAnswersApproval
    PROVE  WaitInv(ctl', inflight')
<1>1. PICK approval \in ctl.approvals :
        \/ ApproveAction(approval)
        \/ DenyAction(approval)
        \/ \E anyAccepted \in BOOLEAN : ResolveInlineApproval(approval, anyAccepted)
  BY DEF UserAnswersApproval
<1> DEFINE left == ctl.approvals \ {approval}
           c == [ctl EXCEPT !.approvals = left]
<1>2. ctl \in Controller
  BY DEF TypeOK
<1>3. left \in SUBSET Approval
  BY <1>2 DEF Controller
<1>4. OtherEvent
  BY <1>1 DEF ApproveAction, DenyAction, ResolveInlineApproval
<1>5. c \in Controller
  <2> HIDE DEF left
  <2> QED
    BY <1>2, <1>3, ApprovalsEdit
<1>6. /\ c.rsm = ctl.rsm /\ c.run = ctl.run /\ c.frames = ctl.frames
      /\ c.draining = ctl.draining /\ c.watchdog = ctl.watchdog
      /\ c.decision = ctl.decision /\ c.responses = ctl.responses
      /\ c.steerTimers = ctl.steerTimers /\ c.approvals = left
  BY <1>2 DEF Controller
<1>7. CASE ApproveAction(approval)
  <2> DEFINE n == c.calls + 1
             counted == [c EXCEPT !.calls = n]
             tool == approval.tool
  <2>1. \/ RunNextIteration(c)
        \/ tool \in Looping
        \/ RunNextIteration(counted)
    BY <1>7, Zenon DEF ApproveAction
  <2> HIDE DEF c, tool
  <2>2. n \in Nat
    BY <1>5 DEF Controller
  <2> HIDE DEF n
  <2>3. counted \in Controller
    BY <1>5, <2>2, CallsEdit
  <2>4. /\ counted.rsm = c.rsm /\ counted.run = c.run /\ counted.frames = c.frames
        /\ counted.draining = c.draining /\ counted.watchdog = c.watchdog
        /\ counted.decision = c.decision /\ counted.responses = c.responses
        /\ counted.steerTimers = c.steerTimers /\ counted.approvals = c.approvals
    BY <1>5 DEF Controller
  <2> HIDE DEF counted
  <2> QED
    BY <1>4, <1>5, <1>6, <2>1, <2>3, <2>4, AnsweredWait
<1>8. CASE DenyAction(approval)
  <2>1. RunNextIteration(c)
    BY <1>8 DEF DenyAction
  <2> HIDE DEF c
  <2> QED
    BY <1>4, <1>5, <1>6, <2>1, AnsweredWait
<1>9. CASE \E anyAccepted \in BOOLEAN : ResolveInlineApproval(approval, anyAccepted)
  <2>1. PICK anyAccepted \in BOOLEAN : ResolveInlineApproval(approval, anyAccepted)
    BY <1>9
  <2> DEFINE m == IF anyAccepted THEN ctl.calls + 1 ELSE ctl.calls
             d == [ctl EXCEPT !.approvals = left, !.calls = m]
  <2>2. m \in Nat
    BY <1>2 DEF Controller
  <2>3. RunNextIteration(d)
    BY <2>1 DEF ResolveInlineApproval
  <2> HIDE DEF m
  <2>4. d \in Controller
    <3> HIDE DEF left
    <3> QED
      BY <1>2, <1>3, <2>2, ApprovalsEdit, CallsEdit
  <2>5. /\ d.rsm = ctl.rsm /\ d.run = ctl.run /\ d.frames = ctl.frames
        /\ d.draining = ctl.draining /\ d.watchdog = ctl.watchdog
        /\ d.decision = ctl.decision /\ d.responses = ctl.responses
        /\ d.steerTimers = ctl.steerTimers /\ d.approvals = left
    BY <1>2 DEF Controller
  <2> HIDE DEF d
  <2> QED
    BY <1>4, <2>3, <2>4, <2>5, AnsweredWait
<1> QED
  BY <1>1, <1>7, <1>8, <1>9

(* A decision, or a review that ends.                                      *)
LEMMA DecisionWait ==
    ASSUME ZeroTimersFirst, TypeOK, WaitInv(ctl, inflight),
           SubmitUserDecision \/ RequestInlineDiffRefinement \/ FinalizeInlineDiffReview
    PROVE  WaitInv(ctl', inflight')
<1> DEFINE c == [ctl EXCEPT !.decision = FALSE]
<1>1. /\ ctl \in Controller /\ ctl.steerTimers = 0
      /\ ctl.rsm \in {"WAITING_FOR_USER_DECISION", "WAITING_FOR_INLINE_DIFF_REVIEW"}
  BY DEF TypeOK, OtherEvent, SubmitUserDecision, RequestInlineDiffRefinement,
     FinalizeInlineDiffReview
<1>2. Running(ctl)
  BY <1>1 DEF Running, RunningStates, UserWaits
<1>3. /\ ctl.frames = <<>> /\ ctl.responses = <<>> /\ inflight = {}
      /\ ~ctl.watchdog /\ ctl.approvals = {}
      /\ ctl.rsm = "WAITING_FOR_INLINE_DIFF_REVIEW" => ~ctl.decision
  BY <1>1, <1>2 DEF WaitInv, UserWaits
<1>4. c \in Controller
  BY <1>1, DecisionEdit
<1>5. /\ c.rsm = ctl.rsm /\ c.frames = ctl.frames /\ c.responses = ctl.responses
      /\ c.watchdog = ctl.watchdog /\ c.approvals = ctl.approvals
      /\ c.steerTimers = ctl.steerTimers /\ c.decision = FALSE
  BY <1>1 DEF Controller
<1>6. SubmitUserDecision => RunNextIteration(c)
  BY DEF SubmitUserDecision
<1> HIDE DEF c
<1>7. Ready(c)
  BY <1>1, <1>2, <1>3, <1>4, <1>5 DEF Ready, Running
<1>8. ctl.rsm = "WAITING_FOR_INLINE_DIFF_REVIEW" => Ready(ctl)
  BY <1>1, <1>2, <1>3 DEF Ready
<1> QED
  BY <1>6, <1>7, <1>8, RunNextIterationWait, FinishWait
  DEF RequestInlineDiffRefinement, FinalizeInlineDiffReview, Verdicts

(* Nothing is outstanding before the first run.                            *)
LEMMA InitWait == Init => WaitInv(ctl, inflight)
<1> SUFFICES ASSUME Init PROVE WaitInv(ctl, inflight)
  OBVIOUS
<1>1. ctl \in Controller
  BY InitType DEF TypeOK
<1>2. /\ ctl.rsm = "IDLE" /\ ctl.frames = <<>> /\ ~ctl.draining /\ ~ctl.watchdog
      /\ ctl.responses = <<>> /\ ctl.steerTimers = 0 /\ inflight = {}
  BY DEF Init
<1>3. ~Running(ctl) /\ Len(ctl.responses) <= 1
  BY <1>2 DEF Running, RunningStates, UserWaits
<1> QED
  BY <1>1, <1>2, <1>3, RestWait

(* Every step preserves the invariant.                                     *)
LEMMA NextWait ==
    ASSUME Looping = {}, ~RefreshLoops, ZeroTimersFirst
    PROVE  TypeOK /\ WaitInv(ctl, inflight) /\ [Next]_vars => WaitInv(ctl', inflight')
<1> SUFFICES ASSUME TypeOK, WaitInv(ctl, inflight), [Next]_vars
             PROVE  WaitInv(ctl', inflight')
  OBVIOUS
<1>1. CASE UserStarts
  BY <1>1, UserStartsWait
<1>2. CASE Stop
  BY <1>2, StopWait
<1>3. CASE ProviderInactivityTimeout
  BY <1>3, TimeoutWait
<1>4. CASE ProviderAnswers \/ ProviderStreams
  BY <1>4, ProviderWait
<1>5. CASE DrainResponses
  BY <1>5, DrainResponsesWait
<1>6. CASE EnqueueSoftSteerMessage \/ SoftSteerTimer
  BY <1>6, EnqueueWait, SoftSteerTimerWait
<1>7. CASE UserAnswersApproval
  BY <1>7, UserAnswersApprovalWait
<1>8. CASE SubmitUserDecision \/ RequestInlineDiffRefinement \/ FinalizeInlineDiffReview
  BY <1>8, DecisionWait
<1>9. CASE ExecuteToolReturns \/ ApproveActionReturns \/ StartReturns
  BY <1>9 DEF ExecuteToolReturns, ApproveActionReturns, StartReturns,
     NestedLoopReturns, WaitInv
<1>10. CASE UNCHANGED vars
  BY <1>10 DEF vars
<1> QED
  BY <1>1, <1>2, <1>3, <1>4, <1>5, <1>6, <1>7, <1>8, <1>9, <1>10 DEF Next

(* The inductive argument.                                                 *)
LEMMA AlwaysWait ==
    ASSUME Looping = {}, ~RefreshLoops, ZeroTimersFirst
    PROVE  Spec => [](TypeOK /\ WaitInv(ctl, inflight))
<1>1. Init => TypeOK /\ WaitInv(ctl, inflight)
  BY InitType, InitWait
<1>2. TypeOK /\ WaitInv(ctl, inflight) /\ [Next]_vars
          => TypeOK' /\ WaitInv(ctl, inflight)'
  BY NextType, NextWait
<1> QED
  BY <1>1, <1>2, PTL DEF Spec

(* While the run waits for the provider one request is outstanding.        *)
LEMMA OutstandingIsOne ==
    ASSUME WaitInv(ctl, inflight), ctl.rsm = "WAITING_FOR_PROVIDER"
    PROVE  /\ Outstanding = 1
           /\ \A req \in inflight \cup QueuedRequests : req.run = ctl.run
<1>1. PICK req \in Request :
        /\ req.run = ctl.run
        /\ \/ inflight = {req} /\ ctl.responses = <<>>
           \/ /\ inflight = {}
              /\ \E reply \in Response : ctl.responses = <<reply>> /\ reply.req = req
  BY DEF WaitInv, OneRequestOut
<1>2. CASE inflight = {req} /\ ctl.responses = <<>>
  <2>1. Cardinality(inflight) = 1
    BY <1>2, FS_Singleton
  <2>2. Len(ctl.responses) = 0 /\ QueuedRequests = {}
    BY <1>2 DEF QueuedRequests
  <2> QED
    BY <1>1, <1>2, <2>1, <2>2 DEF Outstanding
<1>3. CASE inflight = {} /\ \E reply \in Response : ctl.responses = <<reply>> /\ reply.req = req
  <2>1. Cardinality(inflight) = 0
    BY <1>3, FS_EmptySet
  <2>2. Len(ctl.responses) = 1 /\ QueuedRequests = {req}
    BY <1>3 DEF QueuedRequests
  <2> QED
    BY <1>1, <1>3, <2>1, <2>2 DEF Outstanding
<1> QED
  BY <1>1, <1>2, <1>3

(* An active run has at most one request out, and it is its own: no reply  *)
(* of an abandoned run is ever taken as the answer to a later one.         *)
THEOREM OneRequest ==
    ASSUME Looping = {}, ~RefreshLoops, ZeroTimersFirst
    PROVE  Spec => []OneOutstandingRequest
<1>1. WaitInv(ctl, inflight) => OneOutstandingRequest
  <2> SUFFICES ASSUME WaitInv(ctl, inflight), Active
               PROVE  /\ Outstanding <= 1
                      /\ \A req \in inflight \cup QueuedRequests : req.run = ctl.run
    BY DEF OneOutstandingRequest
  <2>1. CASE ctl.rsm = "WAITING_FOR_PROVIDER"
    BY <2>1, OutstandingIsOne
  <2>2. CASE ctl.rsm \in UserWaits
    <3>1. inflight = {} /\ ctl.responses = <<>>
      BY <2>2 DEF WaitInv, UserWaits
    <3>2. Cardinality(inflight) = 0 /\ Len(ctl.responses) = 0 /\ QueuedRequests = {}
      BY <3>1, FS_EmptySet DEF QueuedRequests
    <3> QED
      BY <3>1, <3>2 DEF Outstanding
  <2> QED
    BY <2>1, <2>2 DEF WaitInv, Active, Running, RunningStates
<1> QED
  BY <1>1, AlwaysWait, PTL

(* The watchdog is armed exactly while the run waits for the provider, and *)
(* then exactly one request is out.                                        *)
THEOREM WatchdogCovers ==
    ASSUME Looping = {}, ~RefreshLoops, ZeroTimersFirst
    PROVE  Spec => []WatchdogCoversWait
<1>1. WaitInv(ctl, inflight) => WatchdogCoversWait
  BY OutstandingIsOne DEF WaitInv, WatchdogCoversWait
<1> QED
  BY <1>1, AlwaysWait, PTL

(* An active run has an approval pending exactly while it waits for one,   *)
(* and one at most; so for a decision.                                     *)
THEOREM PendingMatches ==
    ASSUME Looping = {}, ~RefreshLoops, ZeroTimersFirst
    PROVE  Spec => []PendingMatchesWait
<1>1. WaitInv(ctl, inflight) => PendingMatchesWait
  <2> SUFFICES ASSUME WaitInv(ctl, inflight), Active
               PROVE  /\ Cardinality(ctl.approvals) =
                             IF ctl.rsm = "WAITING_FOR_APPROVAL" THEN 1 ELSE 0
                      /\ ctl.decision <=> ctl.rsm = "WAITING_FOR_USER_DECISION"
    BY DEF PendingMatchesWait
  <2>1. /\ ctl.decision <=> ctl.rsm = "WAITING_FOR_USER_DECISION"
        /\ IF ctl.rsm = "WAITING_FOR_APPROVAL"
           THEN \E approval : ctl.approvals = {approval}
           ELSE ctl.approvals = {}
    BY DEF WaitInv, Active
  <2>2. CASE ctl.rsm = "WAITING_FOR_APPROVAL"
    BY <2>1, <2>2, FS_Singleton
  <2>3. CASE ctl.rsm # "WAITING_FOR_APPROVAL"
    BY <2>1, <2>3, FS_EmptySet
  <2> QED
    BY <2>1, <2>2, <2>3
<1> QED
  BY <1>1, AlwaysWait, PTL

-----------------------------------------------------------------------------
(* The requests of a run.  Each reply that reports a full context pays for *)
(* one compaction request, and only a reply to an agent request reports.   *)

(* What is paid for does not exceed the iterations, nor they the limit.    *)
Spent(c) ==
    /\ c.compactions + (IF c.high THEN 1 ELSE 0) <= c.iter
    /\ MaxIterations > 0 => c.iter <= MaxIterations /\ c.compactions < MaxIterations

(* While an agent request is out, its report is not paid for yet.          *)
BudgetInv(c) ==
    /\ Spent(c)
    /\ c.rsm = "WAITING_FOR_PROVIDER" /\ ~c.midRun => c.compactions < c.iter

(* d has spent what c has.                                                 *)
Spends(c, d) ==
    /\ d \in Controller
    /\ d.iter = c.iter
    /\ d.compactions = c.compactions
    /\ d.high => c.high

(* An edit that adds neither a request nor a report.                       *)
LEMMA SpentEdit ==
    ASSUME NEW c \in Controller, NEW d, Spent(c), Spends(c, d)
    PROVE  Spent(d)
<1>1. c.compactions \in Nat /\ c.iter \in Nat
  BY DEF Controller
<1> QED
  BY <1>1, LimitAssumption DEF Spent, Spends

(* An edit that also keeps the wait.                                       *)
LEMMA BudgetEdit ==
    ASSUME NEW c \in Controller, NEW d, BudgetInv(c), Spends(c, d),
           d.rsm = c.rsm, d.midRun = c.midRun
    PROVE  BudgetInv(d)
BY SpentEdit DEF BudgetInv, Spends

(* Settling the drain loop spends nothing.                                 *)
LEMMA SettleBudget ==
    ASSUME NEW c \in Controller, BudgetInv(c)
    PROVE  BudgetInv(Settle(c))
<1> DEFINE d == Settle(c)
<1>1. d \in Controller
  BY SettleType
<1>2. /\ d.rsm = c.rsm /\ d.midRun = c.midRun /\ d.iter = c.iter
      /\ d.compactions = c.compactions /\ d.high = c.high
  BY <1>1 DEF Settle, Controller
<1> HIDE DEF d
<1>3. BudgetInv(d)
  BY <1>1, <1>2, BudgetEdit DEF Spends
<1> QED
  BY <1>3 DEF d

(* Commit ends a handler.                                                  *)
LEMMA CommitBudget ==
    ASSUME NEW c \in Controller, BudgetInv(c), Commit(c)
    PROVE  BudgetInv(ctl')
BY SettleBudget DEF Commit

(* A handler that leaves the wait for the provider.                        *)
LEMMA CommitRest ==
    ASSUME NEW c \in Controller, Spent(c), c.rsm # "WAITING_FOR_PROVIDER", Commit(c)
    PROVE  BudgetInv(ctl')
BY CommitBudget DEF BudgetInv

(* A run that is over waits for nothing.                                   *)
LEMMA FinishRunBudget ==
    ASSUME NEW c \in Controller, Spent(c), NEW verdict \in Verdicts, NEW written \in BOOLEAN
    PROVE  /\ Spent(FinishRun(c, verdict, written))
           /\ FinishRun(c, verdict, written).rsm # "WAITING_FOR_PROVIDER"
<1> DEFINE d == FinishRun(c, verdict, written)
<1>1. d \in Controller
  BY FinishRunType
<1>2. /\ d.rsm = Mark(c.rsm, verdict) /\ d.iter = c.iter
      /\ d.compactions = c.compactions /\ d.high = c.high
  BY <1>1 DEF FinishRun, Controller
<1> HIDE DEF d
<1>3. d.rsm # "WAITING_FOR_PROVIDER"
  BY <1>2 DEF Mark, RunningStates, Verdicts
<1>4. Spent(d)
  BY <1>1, <1>2, SpentEdit DEF Spends
<1> QED
  BY <1>3, <1>4 DEF d

(* The end of a run.                                                       *)
LEMMA FinishBudget ==
    ASSUME NEW c \in Controller, Spent(c), NEW verdict \in Verdicts, Finish(c, verdict)
    PROVE  BudgetInv(ctl')
<1>1. PICK written \in BOOLEAN : Commit(FinishRun(c, verdict, written))
  BY DEF Finish
<1> DEFINE d == FinishRun(c, verdict, written)
<1>2. d \in Controller /\ Spent(d) /\ d.rsm # "WAITING_FOR_PROVIDER"
  BY FinishRunType, FinishRunBudget
<1>3. Commit(d)
  BY <1>1
<1> HIDE DEF d
<1> QED
  BY <1>2, <1>3, CommitRest

(* A request goes out that is paid for, or is refused.                     *)
LEMMA SendBudget ==
    ASSUME NEW c \in Controller, Spent(c), NEW kind \in {"agent", "compaction"},
           Send(c, kind), c.midRun \/ c.compactions < c.iter
    PROVE  BudgetInv(ctl')
<1> DEFINE mid == c.midRun /\ kind # "compaction"
           refused == [c EXCEPT !.watchdog = FALSE, !.midRun = mid]
           state == AwaitProvider(c.rsm)
           waiting == [c EXCEPT !.rsm = state, !.watchdog = TRUE]
<1>1. Finish(refused, "FAILED") \/ ctl' = Settle(waiting)
  BY DEF Send
<1>2. mid \in BOOLEAN /\ state \in States
  BY DEF Controller, AwaitProvider, States, RunningStates
<1> HIDE DEF mid, state
<1>3. refused \in Controller /\ waiting \in Controller
  BY <1>2, WatchdogEdit, MidRunEdit, RsmEdit
<1>4. Spends(c, refused)
  BY <1>3 DEF Spends, Controller
<1>5. Spends(c, waiting) /\ waiting.midRun = c.midRun
  BY <1>3 DEF Spends, Controller
<1> HIDE DEF refused, waiting
<1>6. Spent(refused) /\ BudgetInv(waiting)
  BY <1>4, <1>5, SpentEdit DEF BudgetInv, Spends
<1> QED
  BY <1>1, <1>3, <1>6, FinishBudget, SettleBudget DEF Verdicts

(* A mid-run compaction is paid for by the report that calls for it.       *)
LEMMA StartMidRunAutoCompactionBudget ==
    ASSUME NEW c \in Controller, Spent(c), c.high, ~AtLimit(c.iter, MaxIterations),
           StartMidRunAutoCompaction(c)
    PROVE  BudgetInv(ctl')
<1> DEFINE n == c.compactions + 1
           d == [c EXCEPT !.midRun = TRUE, !.high = FALSE, !.compactions = n]
<1>1. Finish(c, "FAILED") \/ Send(d, "compaction")
  BY DEF StartMidRunAutoCompaction
<1>2. n \in Nat /\ c.iter \in Nat
  BY DEF Controller
<1>3. n <= c.iter /\ (MaxIterations > 0 => c.iter <= MaxIterations /\ n < MaxIterations)
  BY <1>2, LimitAssumption DEF Spent, AtLimit, Controller
<1> HIDE DEF n
<1>4. d \in Controller
  BY <1>2, MidRunEdit, HighEdit, CompactionsEdit
<1>5. d.iter = c.iter /\ d.compactions = n /\ d.high = FALSE /\ d.midRun = TRUE
  BY DEF Controller
<1> HIDE DEF d
<1>6. Spent(d)
  BY <1>2, <1>3, <1>5 DEF Spent
<1> QED
  BY <1>1, <1>4, <1>5, <1>6, FinishBudget, SendBudget DEF Verdicts

(* Delivering queued messages spends nothing.                              *)
LEMMA ApplySoftSteerSpends ==
    ASSUME NEW c \in Controller
    PROVE  Spends(c, ApplySoftSteer(c))
<1>1. ApplySoftSteer(c) \in Controller
  BY ApplySoftSteerType
<1> QED
  BY <1>1 DEF Spends, ApplySoftSteer, Controller

(* The tail nearly every handler ends in.                                  *)
LEMMA RunNextIterationBudget ==
    ASSUME NEW c \in Controller, Spent(c), RunNextIteration(c)
    PROVE  BudgetInv(ctl')
<1> DEFINE d == ApplySoftSteer(c)
           n == d.iter + 1
           e == [d EXCEPT !.iter = n]
<1>1. d \in Controller /\ Spent(d)
  BY ApplySoftSteerType, ApplySoftSteerSpends, SpentEdit
<1>2. \/ ~Running(c) /\ Commit(c)
      \/ Finish(d, "FAILED")
      \/ ~AtLimit(d.iter, MaxIterations) /\ d.high /\ StartMidRunAutoCompaction(d)
      \/ ~AtLimit(d.iter, MaxIterations) /\ Send(e, "agent")
  BY DEF RunNextIteration, ShouldCompact
<1> HIDE DEF d
<1>3. CASE ~Running(c) /\ Commit(c)
  BY <1>3, CommitRest DEF Running, RunningStates
<1>4. CASE ~AtLimit(d.iter, MaxIterations) /\ Send(e, "agent")
  <2>1. n \in Nat /\ d.iter \in Nat /\ d.compactions \in Nat
    <3>1. d.iter \in Nat /\ d.compactions \in Nat
      BY <1>1 DEF Controller
    <3> QED
      BY <3>1
  <2>2. /\ d.compactions + (IF d.high THEN 1 ELSE 0) <= n
        /\ d.compactions < n
        /\ MaxIterations > 0 => n <= MaxIterations /\ d.compactions < MaxIterations
    BY <1>1, <1>4, <2>1, LimitAssumption DEF Spent, AtLimit
  <2> HIDE DEF n
  <2>3. e \in Controller
    BY <1>1, <2>1, IterEdit
  <2>4. e.iter = n /\ e.compactions = d.compactions /\ e.high = d.high
    BY <1>1 DEF Controller
  <2> HIDE DEF e
  <2>5. Spent(e)
    BY <2>2, <2>4 DEF Spent
  <2> QED
    BY <1>4, <2>2, <2>3, <2>4, <2>5, SendBudget
<1> HIDE DEF e
<1> QED
  BY <1>1, <1>2, <1>3, <1>4, FinishBudget, StartMidRunAutoCompactionBudget DEF Verdicts

(* A handler that delivers what is queued first, like the rest of          *)
(* execute_tool.                                                           *)
LEMMA AfterToolBudget ==
    ASSUME NEW c \in Controller, Spent(c), RunNextIteration(ApplySoftSteer(c))
    PROVE  BudgetInv(ctl')
BY ApplySoftSteerType, ApplySoftSteerSpends, SpentEdit, RunNextIterationBudget

(* A question to the user.                                                 *)
LEMMA AskedBudget ==
    ASSUME NEW c \in Controller, Spent(c), NEW d, Spends(c, d), Commit(d),
           NEW wait \in UserWaits, d.rsm = AwaitUser(c.rsm, wait)
    PROVE  BudgetInv(ctl')
<1>1. d.rsm # "WAITING_FOR_PROVIDER"
  BY DEF AwaitUser, UserWaits
<1> QED
  BY <1>1, SpentEdit, CommitRest DEF Spends

(* An approval that is asked for.                                          *)
LEMMA RequestApprovalBudget ==
    ASSUME NEW c \in Controller, Spent(c), NEW tool \in Names,
           Commit(RequestApproval(c, tool))
    PROVE  BudgetInv(ctl')
<1> DEFINE d == RequestApproval(c, tool)
<1>1. d \in Controller
  BY RequestApprovalType
<1>2. Spends(c, d) /\ d.rsm = AwaitUser(c.rsm, "WAITING_FOR_APPROVAL")
  BY <1>1 DEF Spends, RequestApproval, Controller
<1> HIDE DEF d
<1> QED
  BY <1>2, AskedBudget DEF UserWaits, d

(* execute_tool of a tool that spins no event loop.                        *)
LEMMA ExecuteToolBudget ==
    ASSUME Looping = {}, NEW c \in Controller, Spent(c), NEW tool \in Names,
           ExecuteTool(c, tool)
    PROVE  BudgetInv(ctl')
<1> DEFINE n == c.calls + 1
           counted == [c EXCEPT !.calls = n]
<1>1. \/ Finish(c, "FAILED")
      \/ RunNextIteration(c)
      \/ Commit(RequestApproval(c, tool))
      \/ RunNextIteration(ApplySoftSteer(counted))
  BY DEF ExecuteTool, AfterTool
<1>2. n \in Nat
  BY DEF Controller
<1> HIDE DEF n
<1>3. counted \in Controller
  BY <1>2, CallsEdit
<1>4. Spends(c, counted)
  BY <1>3 DEF Spends, Controller
<1> HIDE DEF counted
<1>5. Spent(counted)
  BY <1>4, SpentEdit
<1> QED
  BY <1>1, <1>3, <1>5, FinishBudget, RunNextIterationBudget, RequestApprovalBudget,
     AfterToolBudget DEF Verdicts

(* A compaction reply.                                                     *)
LEMMA HandleCompactionReplyBudget ==
    ASSUME NEW c \in Controller, Spent(c), NEW reply, HandleCompactionReply(c, reply)
    PROVE  BudgetInv(ctl')
<1> DEFINE done == CompactionDone(c)
<1>1. done \in Controller
  BY MidRunEdit, HighEdit DEF CompactionDone
<1>2. Spends(c, done)
  BY <1>1 DEF Spends, CompactionDone, Controller
<1>3. \/ \E verdict \in Verdicts : Finish(c, verdict)
      \/ Finish(done, "FAILED")
      \/ RunNextIteration(done)
  BY DEF HandleCompactionReply, Verdicts
<1> HIDE DEF done
<1>4. Spent(done)
  BY <1>2, SpentEdit
<1> QED
  BY <1>1, <1>3, <1>4, FinishBudget, RunNextIterationBudget DEF Verdicts

(* An agent reply.                                                         *)
LEMMA HandleAgentReplyBudget ==
    ASSUME Looping = {}, NEW c \in Controller, Spent(c), NEW reply \in Response,
           HandleAgentReply(c, reply)
    PROVE  BudgetInv(ctl')
<1> DEFINE corrected == [c EXCEPT !.modeRetries = @ + 1]
           reformatted == [c EXCEPT !.textRetries = @ + 1]
           review == [c EXCEPT !.rsm = AwaitUser(@, "WAITING_FOR_INLINE_DIFF_REVIEW")]
           asked == [c EXCEPT !.decision = TRUE,
                              !.rsm = AwaitUser(@, "WAITING_FOR_USER_DECISION")]
<1>1. \/ \E verdict \in Verdicts : Finish(c, verdict)
      \/ RunNextIteration(corrected)
      \/ RunNextIteration(reformatted)
      \/ RunNextIteration(c)
      \/ ExecuteTool(c, reply.tool)
      \/ Commit(review)
      \/ Commit(asked)
      \/ Commit(RequestApproval(c, reply.tool))
  BY DEF HandleAgentReply, Verdicts
<1>2. reply.tool \in Names
  BY DEF Response
<1>3. corrected \in Controller /\ reformatted \in Controller
  BY RetryType
<1>4. Spends(c, corrected) /\ Spends(c, reformatted)
  BY <1>3 DEF Spends, Controller
<1>5. review \in Controller /\ asked \in Controller
  BY AwaitUserType DEF UserWaits
<1>6. /\ Spends(c, review) /\ Spends(c, asked)
      /\ review.rsm = AwaitUser(c.rsm, "WAITING_FOR_INLINE_DIFF_REVIEW")
      /\ asked.rsm = AwaitUser(c.rsm, "WAITING_FOR_USER_DECISION")
  BY <1>5 DEF Spends, Controller
<1> HIDE DEF corrected, reformatted, review, asked
<1>7. Spent(corrected) /\ Spent(reformatted)
  BY <1>4, SpentEdit
<1>8. CASE Commit(review) \/ Commit(asked)
  BY <1>6, <1>8, AskedBudget DEF UserWaits
<1> QED
  BY <1>1, <1>2, <1>3, <1>7, <1>8, FinishBudget, RunNextIterationBudget,
     ExecuteToolBudget, RequestApprovalBudget

(* The reply to the run's one request: a report is taken from a reply to   *)
(* an agent request only.                                                  *)
LEMMA HandleResponseBudget ==
    ASSUME Looping = {}, NEW c \in Controller, BudgetInv(c),
           c.rsm = "WAITING_FOR_PROVIDER", NEW reply \in Response, HandleResponse(c, reply)
    PROVE  BudgetInv(ctl')
<1> DEFINE answered == [c EXCEPT !.watchdog = FALSE]
           high == IF CompactionActive(c) THEN answered.high ELSE reply.high
           metered == [answered EXCEPT !.high = high]
           retries == IF reply.type = "text" THEN metered.textRetries ELSE 0
           parsed == [metered EXCEPT !.textRetries = retries]
           failed == [answered EXCEPT !.midRun = FALSE]
<1>1. answered \in Controller
  BY WatchdogEdit
<1>2. high \in BOOLEAN
  BY <1>1 DEF Response, Controller
<1>3. Running(c)
  BY DEF Running, RunningStates
<1>4. \/ Finish(failed, "FAILED")
      \/ RunNextIteration(ApplySoftSteer(metered))
      \/ HandleCompactionReply(metered, reply)
      \/ HandleAgentReply(parsed, reply)
  BY <1>3 DEF HandleResponse
<1>5. answered.high = c.high
  BY DEF Controller
<1>6. high => c.high \/ ~c.midRun
  BY <1>5 DEF CompactionActive
<1> HIDE DEF high
<1>7. metered \in Controller /\ failed \in Controller
  BY <1>1, <1>2, HighEdit, MidRunEdit
<1>8. /\ metered.iter = c.iter /\ metered.compactions = c.compactions
      /\ metered.high = high
  BY DEF Controller
<1>9. Spends(c, failed)
  BY <1>7 DEF Spends, Controller
<1> HIDE DEF metered
<1>10. retries \in Nat
  BY <1>7 DEF Controller
<1> HIDE DEF retries
<1>11. parsed \in Controller
  BY <1>7, <1>10, TextRetriesEdit
<1>12. Spends(metered, parsed)
  BY <1>7, <1>11 DEF Spends, Controller
<1> HIDE DEF answered, parsed, failed
<1>13. Spent(metered)
  <2>1. c.compactions \in Nat /\ c.iter \in Nat
    BY DEF Controller
  <2>2. ~c.midRun => c.compactions < c.iter
    BY DEF BudgetInv
  <2> QED
    BY <1>6, <1>8, <2>1, <2>2 DEF Spent, BudgetInv
<1>14. Spent(failed) /\ Spent(parsed)
  BY <1>7, <1>9, <1>12, <1>13, SpentEdit DEF BudgetInv
<1> QED
  BY <1>4, <1>7, <1>11, <1>13, <1>14, FinishBudget, AfterToolBudget,
     HandleCompactionReplyBudget, HandleAgentReplyBudget DEF Verdicts

(* The drain loop: an active run that has a reply queued waits for it.     *)
LEMMA DrainResponsesBudget ==
    ASSUME Looping = {}, TypeOK, WaitInv(ctl, inflight), BudgetInv(ctl), DrainResponses
    PROVE  BudgetInv(ctl')
<1> DEFINE again == ctl.dispatch /\ ctl.draining
           c == [ctl EXCEPT !.dispatch = again, !.draining = TRUE]
           left == Tail(c.responses)
           d == [c EXCEPT !.responses = left]
<1>1. ctl \in Controller /\ again \in BOOLEAN
  BY DEF TypeOK
<1>2. \/ Commit(c)
      \/ c.responses # <<>> /\ HandleResponse(d, Head(c.responses))
  BY DEF DrainResponses
<1> HIDE DEF again
<1>3. c \in Controller
  BY <1>1, DispatchEdit, DrainingEdit
<1>4. /\ Spends(ctl, c) /\ c.rsm = ctl.rsm /\ c.midRun = ctl.midRun
      /\ c.responses = ctl.responses
  BY <1>1, <1>3 DEF Spends, Controller
<1> HIDE DEF c
<1>5. BudgetInv(c)
  BY <1>1, <1>4, BudgetEdit
<1>6. CASE c.responses # <<>> /\ HandleResponse(d, Head(c.responses))
  <2>1. c.responses \in Seq(Response)
    BY <1>3 DEF Controller
  <2>2. Head(c.responses) \in Response /\ left \in Seq(Response)
    BY <1>6, <2>1
  <2> HIDE DEF left
  <2>3. d \in Controller
    BY <1>3, <2>2, ResponsesEdit
  <2>4. Spends(c, d) /\ d.rsm = c.rsm /\ d.midRun = c.midRun
    BY <1>3, <2>3 DEF Spends, Controller
  <2> HIDE DEF d
  <2>5. BudgetInv(d)
    BY <1>3, <1>5, <2>4, BudgetEdit
  <2>6. CASE Running(d)
    <3>1. d.rsm = "WAITING_FOR_PROVIDER"
      BY <1>4, <1>6, <2>4, <2>6 DEF WaitInv, Running, RunningStates
    <3> QED
      BY <1>6, <2>2, <2>3, <2>5, <3>1, HandleResponseBudget
  <2>7. CASE ~Running(d)
    BY <1>6, <2>3, <2>5, <2>7, CommitBudget DEF HandleResponse
  <2> QED
    BY <2>6, <2>7
<1> QED
  BY <1>2, <1>3, <1>5, <1>6, CommitBudget

(* A fresh run has spent nothing.                                          *)
LEMMA UserStartsBudget ==
    ASSUME ~RefreshLoops, TypeOK, UserStarts
    PROVE  BudgetInv(ctl')
<1>1. PICK ask \in BOOLEAN, dryRun \in BOOLEAN, compaction \in BOOLEAN :
        Start(ask, dryRun, compaction)
  BY DEF UserStarts
<1>2. ctl \in Controller /\ StartAfterRefresh(ctl, ask, dryRun, compaction)
  BY <1>1 DEF Start, TypeOK
<1>3. PICK d \in Controller :
        RunNextIteration(d) /\ d.iter = 0 /\ d.compactions = 0 /\ d.high = FALSE
  BY <1>2, FreshRunType
<1>4. Spent(d)
  BY <1>3, LimitAssumption DEF Spent
<1> QED
  BY <1>3, <1>4, RunNextIterationBudget

(* A run that is ended and cancelled.                                      *)
LEMMA CancelAndFinishBudget ==
    ASSUME NEW c \in Controller, Spent(c), inflight \in SUBSET Request,
           NEW verdict \in Verdicts, CancelAndFinish(c, verdict)
    PROVE  BudgetInv(ctl')
<1>1. PICK written \in BOOLEAN : CancelAndCommit(FinishRun(c, verdict, written))
  BY DEF CancelAndFinish
<1> DEFINE d == FinishRun(c, verdict, written)
<1>2. d \in Controller /\ Spent(d) /\ d.rsm # "WAITING_FOR_PROVIDER"
  BY FinishRunType, FinishRunBudget
<1>3. CancelAndCommit(d)
  BY <1>1
<1> HIDE DEF d
<1>4. BudgetInv(d)
  BY <1>2 DEF BudgetInv
<1>5. CASE ctl' = Settle(d)
  BY <1>2, <1>4, <1>5, SettleBudget
<1>6. CASE \E req \in inflight :
             ctl' = Settle([d EXCEPT !.responses =
                                 Append(@, [req |-> req, type |-> "error",
                                            tool |-> NoTool, high |-> FALSE]),
                                     !.dispatch = TRUE])
  <2>1. PICK req \in inflight :
             ctl' = Settle([d EXCEPT !.responses =
                                 Append(@, [req |-> req, type |-> "error",
                                            tool |-> NoTool, high |-> FALSE]),
                                     !.dispatch = TRUE])
    BY <1>6
  <2> DEFINE reply == [req |-> req, type |-> "error", tool |-> NoTool, high |-> FALSE]
             queue == Append(d.responses, reply)
             e == [d EXCEPT !.responses = queue, !.dispatch = TRUE]
  <2>2. reply \in Response
    BY DEF Response, AllReplyTypes, Names
  <2>3. ctl' = Settle(e)
    BY <2>1
  <2> HIDE DEF reply
  <2>4. queue \in Seq(Response)
    BY <1>2, <2>2 DEF Controller
  <2> HIDE DEF queue
  <2>5. e \in Controller
    BY <1>2, <2>4, ResponsesEdit, DispatchEdit
  <2>6. Spends(d, e) /\ e.rsm = d.rsm /\ e.midRun = d.midRun
    BY <1>2, <2>5 DEF Spends, Controller
  <2> HIDE DEF e
  <2> QED
    BY <1>2, <1>4, <2>3, <2>5, <2>6, BudgetEdit, SettleBudget
<1> QED
  BY <1>3, <1>5, <1>6 DEF CancelAndCommit

(* stop() and the watchdog end the run.                                    *)
LEMMA StopOrTimeoutBudget ==
    ASSUME TypeOK, BudgetInv(ctl), Stop \/ ProviderInactivityTimeout
    PROVE  BudgetInv(ctl')
<1> DEFINE c == [ctl EXCEPT !.midRun = FALSE, !.high = FALSE, !.steers = <<>>,
                            !.decision = FALSE, !.watchdog = FALSE]
           fired == [ctl EXCEPT !.watchdog = FALSE]
<1>1. ctl \in Controller /\ inflight \in SUBSET Request /\ <<>> \in Seq(Nat)
  BY DEF TypeOK
<1>2. c \in Controller /\ fired \in Controller
  BY <1>1, MidRunEdit, HighEdit, SteersEdit, DecisionEdit, WatchdogEdit
<1>3. Spends(ctl, c)
  BY <1>1, <1>2 DEF Spends, Controller
<1>4. Spends(ctl, fired) /\ fired.rsm = ctl.rsm /\ fired.midRun = ctl.midRun
  BY <1>1, <1>2 DEF Spends, Controller
<1>5. Stop => CancelAndFinish(c, "STOPPED")
  BY DEF Stop
<1>6. ProviderInactivityTimeout => CancelAndFinish(fired, "FAILED") \/ Commit(fired)
  BY DEF ProviderInactivityTimeout
<1> HIDE DEF c, fired
<1>7. Spent(c) /\ BudgetInv(fired)
  BY <1>1, <1>3, <1>4, SpentEdit, BudgetEdit DEF BudgetInv
<1> QED
  BY <1>1, <1>2, <1>5, <1>6, <1>7, CancelAndFinishBudget, CommitBudget
  DEF BudgetInv, Verdicts

(* The provider's callbacks.                                               *)
LEMMA ProviderBudget ==
    ASSUME TypeOK, BudgetInv(ctl), ProviderAnswers \/ ProviderStreams
    PROVE  BudgetInv(ctl')
<1>1. ctl \in Controller /\ ctl' \in Controller
  BY ProviderAnswersType, ProviderStreamsType DEF TypeOK
<1>2. (\E req, type, tool, high : ProviderReplies(req, type, tool, high)) \/ ProviderStreams
  BY DEF ProviderAnswers
<1>3. Spends(ctl, ctl') /\ ctl'.rsm = ctl.rsm /\ ctl'.midRun = ctl.midRun
  BY <1>1, <1>2 DEF ProviderReplies, ProviderStreams, Spends, Controller
<1> QED
  BY <1>1, <1>3, BudgetEdit

(* Follow-up messages.                                                     *)
LEMMA SteerBudget ==
    ASSUME TypeOK, BudgetInv(ctl), EnqueueSoftSteerMessage \/ SoftSteerTimer
    PROVE  BudgetInv(ctl')
<1>1. ctl \in Controller
  BY DEF TypeOK
<1>2. CASE EnqueueSoftSteerMessage
  <2> DEFINE queue == Append(ctl.steers, ctl.accepted + 1)
             count == ctl.accepted + 1
             timers == IF ctl.rsm \in {"WAITING_FOR_APPROVAL", "WAITING_FOR_INLINE_DIFF_REVIEW"}
                       THEN ctl.steerTimers + 1 ELSE ctl.steerTimers
             c == [ctl EXCEPT !.steers = queue, !.accepted = count, !.steerTimers = timers]
  <2>1. queue \in Seq(Nat) /\ count \in Nat /\ timers \in Nat
    BY <1>1 DEF Controller
  <2>2. Commit(c)
    BY <1>2 DEF EnqueueSoftSteerMessage
  <2> HIDE DEF queue, count, timers
  <2>3. c \in Controller
    BY <1>1, <2>1, SteersEdit, AcceptedEdit, SteerTimersEdit
  <2>4. Spends(ctl, c) /\ c.rsm = ctl.rsm /\ c.midRun = ctl.midRun
    BY <1>1, <2>3 DEF Spends, Controller
  <2> HIDE DEF c
  <2> QED
    BY <1>1, <2>2, <2>3, <2>4, BudgetEdit, CommitBudget
<1>3. CASE SoftSteerTimer
  <2> DEFINE left == ctl.steerTimers - 1
             c == [ctl EXCEPT !.steerTimers = left]
  <2>1. ctl.steerTimers \in Nat /\ ctl.steerTimers > 0
    BY <1>1, <1>3 DEF Controller, SoftSteerTimer
  <2>2. left \in Nat
    BY <2>1
  <2>3. RunNextIteration(ApplySoftSteer(c)) \/ Commit(c)
    BY <1>3 DEF SoftSteerTimer
  <2> HIDE DEF left
  <2>4. c \in Controller
    BY <1>1, <2>2, SteerTimersEdit
  <2>5. Spends(ctl, c) /\ c.rsm = ctl.rsm /\ c.midRun = ctl.midRun
    BY <1>1, <2>4 DEF Spends, Controller
  <2> HIDE DEF c
  <2>6. BudgetInv(c)
    BY <1>1, <2>5, BudgetEdit
  <2> QED
    BY <2>3, <2>4, <2>6, AfterToolBudget, CommitBudget DEF BudgetInv
<1> QED
  BY <1>2, <1>3

(* Answers of the user ask for the next request or end the run.            *)
LEMMA AnswersBudget ==
    ASSUME Looping = {}, TypeOK, BudgetInv(ctl),
           \/ UserAnswersApproval
           \/ SubmitUserDecision
           \/ RequestInlineDiffRefinement
           \/ FinalizeInlineDiffReview
    PROVE  BudgetInv(ctl')
<1>1. ctl \in Controller /\ Spent(ctl)
  BY DEF TypeOK, BudgetInv
<1>2. CASE UserAnswersApproval
  <2>1. PICK approval \in ctl.approvals :
          \/ ApproveAction(approval)
          \/ DenyAction(approval)
          \/ \E anyAccepted \in BOOLEAN : ResolveInlineApproval(approval, anyAccepted)
    BY <1>2 DEF UserAnswersApproval
  <2> DEFINE left == ctl.approvals \ {approval}
             c == [ctl EXCEPT !.approvals = left]
             n == c.calls + 1
             counted == [c EXCEPT !.calls = n]
             d == [ctl EXCEPT !.approvals = left, !.calls = ctl.calls + 1]
             e == [ctl EXCEPT !.approvals = left, !.calls = ctl.calls]
  <2>2. \/ RunNextIteration(c)
        \/ RunNextIteration(counted)
        \/ RunNextIteration(d)
        \/ RunNextIteration(e)
    BY <2>1 DEF ApproveAction, DenyAction, ResolveInlineApproval
  <2>3. left \in SUBSET Approval /\ ctl.calls \in Nat /\ ctl.calls + 1 \in Nat
    BY <1>1 DEF Controller
  <2> HIDE DEF left
  <2>4. c \in Controller /\ d \in Controller /\ e \in Controller
    BY <1>1, <2>3, ApprovalsEdit, CallsEdit
  <2>5. Spends(ctl, c) /\ Spends(ctl, d) /\ Spends(ctl, e)
    BY <1>1, <2>4 DEF Spends, Controller
  <2> HIDE DEF c, d, e
  <2>6. n \in Nat
    <3>1. c.calls \in Nat
      BY <2>4 DEF Controller
    <3> QED
      BY <3>1
  <2> HIDE DEF n
  <2>7. counted \in Controller
    BY <2>4, <2>6, CallsEdit
  <2>8. Spends(c, counted)
    BY <2>4, <2>7 DEF Spends, Controller
  <2> HIDE DEF counted
  <2>9. Spent(c) /\ Spent(counted) /\ Spent(d) /\ Spent(e)
    BY <1>1, <2>4, <2>5, <2>8, SpentEdit
  <2> QED
    BY <2>2, <2>4, <2>7, <2>9, RunNextIterationBudget
<1>3. CASE SubmitUserDecision
  <2> DEFINE c == [ctl EXCEPT !.decision = FALSE]
  <2>1. RunNextIteration(c)
    BY <1>3 DEF SubmitUserDecision
  <2>2. c \in Controller
    BY <1>1, DecisionEdit
  <2>3. Spends(ctl, c)
    BY <1>1, <2>2 DEF Spends, Controller
  <2> HIDE DEF c
  <2> QED
    BY <1>1, <2>1, <2>2, <2>3, SpentEdit, RunNextIterationBudget
<1>4. CASE RequestInlineDiffRefinement \/ FinalizeInlineDiffReview
  BY <1>1, <1>4, RunNextIterationBudget, FinishBudget
  DEF RequestInlineDiffRefinement, FinalizeInlineDiffReview, Verdicts
<1> QED
  BY <1>2, <1>3, <1>4

(* Every step keeps the budget.                                            *)
LEMMA NextBudget ==
    ASSUME Looping = {}, ~RefreshLoops
    PROVE  TypeOK /\ WaitInv(ctl, inflight) /\ BudgetInv(ctl) /\ [Next]_vars => BudgetInv(ctl')
<1> SUFFICES ASSUME TypeOK, WaitInv(ctl, inflight), BudgetInv(ctl), [Next]_vars
             PROVE  BudgetInv(ctl')
  OBVIOUS
<1>1. CASE UserStarts
  BY <1>1, UserStartsBudget
<1>2. CASE Stop \/ ProviderInactivityTimeout
  BY <1>2, StopOrTimeoutBudget
<1>3. CASE ProviderAnswers \/ ProviderStreams
  BY <1>3, ProviderBudget
<1>4. CASE DrainResponses
  BY <1>4, DrainResponsesBudget
<1>5. CASE EnqueueSoftSteerMessage \/ SoftSteerTimer
  BY <1>5, SteerBudget
<1>6. CASE \/ UserAnswersApproval
           \/ SubmitUserDecision
           \/ RequestInlineDiffRefinement
           \/ FinalizeInlineDiffReview
  BY <1>6, AnswersBudget
<1>7. CASE ExecuteToolReturns \/ ApproveActionReturns \/ StartReturns
  BY <1>7 DEF ExecuteToolReturns, ApproveActionReturns, StartReturns,
     NestedLoopReturns, WaitInv
<1>8. CASE UNCHANGED vars
  BY <1>8 DEF vars
<1> QED
  BY <1>1, <1>2, <1>3, <1>4, <1>5, <1>6, <1>7, <1>8 DEF Next

(* A run sends at most 2 * max_iterations - 1 requests, the hidden         *)
(* compaction requests included, which run_next_iteration does not count:  *)
(* a compaction is paid for by a reply of its own to an agent request, and *)
(* is asked for only where another iteration is left.                      *)
THEOREM RequestsBounded ==
    ASSUME Looping = {}, ~RefreshLoops, ZeroTimersFirst
    PROVE  Spec => []RequestsAreBounded
<1>1. Init => BudgetInv(ctl)
  BY LimitAssumption DEF Init, BudgetInv, Spent
<1>2. TypeOK /\ WaitInv(ctl, inflight) /\ BudgetInv(ctl) /\ [Next]_vars => BudgetInv(ctl)'
  BY NextBudget
<1>3. TypeOK /\ BudgetInv(ctl) => RequestsAreBounded
  <2>1. ctl \in Controller => ctl.iter \in Nat /\ ctl.compactions \in Nat
    BY DEF Controller
  <2> QED
    BY <2>1, LimitAssumption DEF TypeOK, BudgetInv, Spent, RequestsAreBounded
<1> QED
  BY <1>1, <1>2, <1>3, AlwaysWait, PTL DEF Spec

-----------------------------------------------------------------------------
(***************************************************************************)
(* PART 4.  THE LIFE OF RUNS                                               *)
(***************************************************************************)

(* No start() is suspended.                                                *)
Startless(c) == \A i \in DOMAIN c.frames : c.frames[i].call # "start"

(* What both SameRun and Ends keep.                                        *)
Keeps(c, d) ==
    /\ d \in Controller
    /\ d.run = c.run
    /\ Startless(c) => Startless(d)

SameRun(c, d) ==
    /\ Keeps(c, d)
    /\ Running(d) <=> Running(c)
    /\ d.runId = c.runId
    /\ d.store = c.store
    /\ d.unrecorded = c.unrecorded
    /\ d.endings = c.endings

(* The final row is written, or the run joins those whose row is not.      *)
Filed(store, lost, runId, verdict, newStore, newLost) ==
    \E written \in BOOLEAN :
        /\ newStore = FinalizePersistentRun(store, runId, verdict, written)
        /\ newLost = IF runId = 0 \/ written THEN lost ELSE lost \cup {runId}

EndsWith(c, d, verdict) ==
    /\ Keeps(c, d)
    /\ Running(c)
    /\ ~Running(d)
    /\ d.runId = 0
    /\ Filed(c.store, c.unrecorded, c.runId, verdict, d.store, d.unrecorded)
    /\ d.endings = Announce(c.endings, c.run, verdict)

Ends(c, d) == \E verdict \in Verdicts : EndsWith(c, d, verdict)

(* The outcome of asking for the next request: the run goes on or fails.   *)
GoesOn(c, d) == SameRun(c, d) \/ EndsWith(c, d, "FAILED")

Moves(c, d) == SameRun(c, d) \/ Ends(c, d)

(* d is c reset for its next run.                                          *)
Fresh(c, d, row, lost) ==
    /\ lost => row = "running"
    /\ d \in Controller
    /\ Running(d)
    /\ d.run = c.run + 1
    /\ d.store = [c.store EXCEPT ![c.run + 1] = row]
    /\ d.runId = (IF row = "running" /\ ~lost THEN c.run + 1 ELSE 0)
    /\ d.unrecorded = c.unrecorded \cup (IF lost THEN {c.run + 1} ELSE {})
    /\ d.endings = c.endings
    /\ Startless(c) => Startless(d)

Rows == {"absent", "running", "error"}

Begins(c, e) ==
    \E row \in Rows, lost \in BOOLEAN : \E d : Fresh(c, d, row, lost) /\ GoesOn(d, e)

-----------------------------------------------------------------------------
(* Edits                                                                   *)

(* An edit of other fields than these changes nothing in the run's life.   *)
LEMMA OtherFields ==
    ASSUME NEW c \in Controller, NEW d \in Controller,
           d.rsm = c.rsm, d.run = c.run, d.runId = c.runId, d.store = c.store,
           d.endings = c.endings, d.unrecorded = c.unrecorded, d.frames = c.frames
    PROVE  SameRun(c, d)
BY DEF SameRun, Keeps, Startless, Running

(* Nothing changes twice: SameRun is transitive.                           *)
LEMMA SameRunTrans ==
    ASSUME NEW c, NEW d, NEW e, SameRun(c, d), SameRun(d, e)
    PROVE  SameRun(c, e)
BY DEF SameRun, Keeps

(* What happens after an edit that changes nothing happens to c.           *)
LEMMA MovesAfterSame ==
    ASSUME NEW c, NEW d, NEW e, SameRun(c, d), Moves(d, e)
    PROVE  Moves(c, e)
<1>1. CASE SameRun(d, e)
  BY <1>1, SameRunTrans DEF Moves
<1>2. CASE Ends(d, e)
  BY <1>2 DEF Moves, Ends, EndsWith, SameRun, Keeps
<1> QED
  BY <1>1, <1>2 DEF Moves

(* The same when the run goes on or fails.                                 *)
LEMMA GoesOnAfterSame ==
    ASSUME NEW c, NEW d, NEW e, SameRun(c, d), GoesOn(d, e)
    PROVE  GoesOn(c, e)
<1>1. CASE SameRun(d, e)
  BY <1>1, SameRunTrans DEF GoesOn
<1>2. CASE EndsWith(d, e, "FAILED")
  BY <1>2 DEF GoesOn, EndsWith, SameRun, Keeps
<1> QED
  BY <1>1, <1>2 DEF GoesOn

(* Settling the drain loop changes nothing.                                *)
LEMMA SettleSameRun == ASSUME NEW c \in Controller PROVE SameRun(c, Settle(c))
<1>1. Settle(c) \in Controller
  BY SettleType
<1>2. LET d == Settle(c)
      IN  /\ d.rsm = c.rsm /\ d.run = c.run /\ d.runId = c.runId
          /\ d.store = c.store /\ d.endings = c.endings
          /\ d.unrecorded = c.unrecorded /\ d.frames = c.frames
  BY <1>1 DEF Settle, Controller
<1> QED
  BY <1>1, <1>2, OtherFields

(* Suspending a tool call, like resuming one, leaves no start() behind.    *)
LEMMA SuspendSameRun ==
    ASSUME NEW c \in Controller, NEW frame \in Frame, frame.call # "start"
    PROVE  SameRun(c, Suspend(c, frame))
<1> DEFINE d == Suspend(c, frame)
           top == [frame EXCEPT !.draining = c.draining]
<1>1. d \in Controller
  BY SuspendType
<1>2. /\ d.rsm = c.rsm /\ d.run = c.run /\ d.runId = c.runId
      /\ d.store = c.store /\ d.endings = c.endings
      /\ d.unrecorded = c.unrecorded /\ d.frames = <<top>> \o c.frames
  BY <1>1 DEF Suspend, Controller
<1>3. top \in Frame /\ top.call # "start"
  BY DEF Frame, Controller
<1>4. c.frames \in Seq(Frame)
  BY DEF Controller
<1> HIDE DEF d, top
<1>5. ASSUME Startless(c) PROVE Startless(d)
  <2> SUFFICES ASSUME NEW i \in DOMAIN d.frames PROVE d.frames[i].call # "start"
    BY DEF Startless
  <2>1. i \in 1..(Len(c.frames) + 1)
    BY <1>2, <1>3, <1>4
  <2>2. CASE i = 1
    BY <1>2, <1>3, <1>4, <2>2
  <2>3. CASE i # 1
    <3>1. i - 1 \in DOMAIN c.frames /\ d.frames[i] = c.frames[i - 1]
      BY <1>2, <1>3, <1>4, <2>1, <2>3
    <3> QED
      BY <1>5, <3>1 DEF Startless
  <2> QED
    BY <2>2, <2>3
<1>6. SameRun(c, d)
  BY <1>1, <1>2, <1>5 DEF SameRun, Keeps, Running
<1> QED
  BY <1>6 DEF d

(* FinishRun ends the active run.                                          *)
LEMMA FinishRunEnds ==
    ASSUME NEW c \in Controller, Running(c), NEW verdict \in Verdicts, NEW written \in BOOLEAN
    PROVE  EndsWith(c, FinishRun(c, verdict, written), verdict)
<1> DEFINE d == FinishRun(c, verdict, written)
           rows == FinalizePersistentRun(c.store, c.runId, verdict, written)
           lost == Unrecorded(c, written)
           said == Announce(c.endings, c.run, verdict)
<1>1. d \in Controller
  BY FinishRunType
<1>2. /\ d.rsm = Mark(c.rsm, verdict) /\ d.run = c.run /\ d.runId = 0
      /\ d.store = rows /\ d.endings = said
      /\ d.unrecorded = lost /\ d.frames = c.frames
  BY <1>1 DEF FinishRun, Controller
<1>3. Filed(c.store, c.unrecorded, c.runId, verdict, rows, lost)
  BY DEF Filed, Unrecorded
<1> HIDE DEF d, rows, lost, said
<1>4. ~Running(d)
  BY <1>2 DEF Running, Mark, RunningStates, UserWaits, Verdicts
<1>5. EndsWith(c, d, verdict)
  BY <1>1, <1>2, <1>3, <1>4 DEF EndsWith, Keeps, Startless, said
<1> QED
  BY <1>5 DEF d

(* Delivering queued messages changes nothing.                             *)
LEMMA ApplySoftSteerSameRun ==
    ASSUME NEW c \in Controller
    PROVE  SameRun(c, ApplySoftSteer(c))
<1>1. ApplySoftSteer(c) \in Controller
  BY ApplySoftSteerType
<1>2. LET d == ApplySoftSteer(c)
      IN  /\ d.rsm = c.rsm /\ d.run = c.run /\ d.runId = c.runId
          /\ d.store = c.store /\ d.endings = c.endings
          /\ d.unrecorded = c.unrecorded /\ d.frames = c.frames
  BY <1>1 DEF ApplySoftSteer, Controller
<1> QED
  BY <1>1, <1>2, OtherFields

(* Moving to a wait keeps a running machine running.                       *)
LEMMA MachineMoves ==
    ASSUME NEW c \in Controller, NEW d \in Controller,
           \/ d.rsm = AwaitProvider(c.rsm)
           \/ \E wait \in UserWaits : d.rsm = AwaitUser(c.rsm, wait),
           d.run = c.run, d.runId = c.runId, d.store = c.store,
           d.endings = c.endings, d.unrecorded = c.unrecorded, d.frames = c.frames
    PROVE  SameRun(c, d)
<1>1. Running(d) <=> Running(c)
  BY DEF Running, AwaitProvider, AwaitUser, RunningStates
<1> QED
  BY <1>1 DEF SameRun, Keeps, Startless

(* Asking for an approval.                                                 *)
LEMMA RequestApprovalSameRun ==
    ASSUME NEW c \in Controller, NEW tool \in Names
    PROVE  SameRun(c, RequestApproval(c, tool))
<1>1. RequestApproval(c, tool) \in Controller
  BY RequestApprovalType
<1>2. LET d == RequestApproval(c, tool)
      IN  /\ d.rsm = AwaitUser(c.rsm, "WAITING_FOR_APPROVAL")
          /\ d.run = c.run /\ d.runId = c.runId
          /\ d.store = c.store /\ d.endings = c.endings
          /\ d.unrecorded = c.unrecorded /\ d.frames = c.frames
  BY <1>1 DEF RequestApproval, Controller
<1> QED
  BY <1>1, <1>2, MachineMoves DEF UserWaits

-----------------------------------------------------------------------------
(* Tails of handlers                                                       *)

(* Commit ends a handler.                                                  *)
LEMMA CommitMoves ==
    ASSUME NEW c \in Controller, NEW d, Commit(d), Moves(c, d)
    PROVE  Moves(c, ctl')
<1>1. d \in Controller
  BY DEF Moves, SameRun, Ends, EndsWith, Keeps
<1>2. SameRun(d, ctl')
  BY <1>1, SettleSameRun DEF Commit
<1>3. CASE SameRun(c, d)
  BY <1>2, <1>3, SameRunTrans DEF Moves
<1>4. CASE Ends(c, d)
  BY <1>2, <1>4 DEF Moves, Ends, EndsWith, SameRun, Keeps
<1> QED
  BY <1>3, <1>4 DEF Moves

(* A handler that leaves the run as it is.                                 *)
LEMMA CommitSameRun ==
    ASSUME NEW c \in Controller, NEW d, SameRun(c, d), Commit(d)
    PROVE  Moves(c, ctl')
BY CommitMoves DEF Moves

(* A handler that ends the run.                                            *)
LEMMA FinishMoves ==
    ASSUME NEW c \in Controller, Running(c), NEW verdict \in Verdicts,
           Finish(c, verdict)
    PROVE  Moves(c, ctl')
BY FinishRunEnds, CommitMoves DEF Moves, Ends, Finish

(* A handler that fails the run.                                           *)
LEMMA FinishGoesOn ==
    ASSUME NEW c \in Controller, Running(c), Finish(c, "FAILED")
    PROVE  GoesOn(c, ctl')
<1>0. PICK written \in BOOLEAN : Commit(FinishRun(c, "FAILED", written))
  BY DEF Finish
<1> DEFINE d == FinishRun(c, "FAILED", written)
<1>1. d \in Controller /\ EndsWith(c, d, "FAILED")
  BY FinishRunType, FinishRunEnds DEF Verdicts
<1>2. SameRun(d, ctl')
  BY <1>0, <1>1, SettleSameRun DEF Commit
<1> HIDE DEF d
<1> QED
  BY <1>1, <1>2 DEF GoesOn, EndsWith, SameRun, Keeps

(* A request is sent, or refused and the run fails.                        *)
LEMMA SendGoesOn ==
    ASSUME NEW c \in Controller, Running(c), NEW kind \in {"agent", "compaction"},
           Send(c, kind)
    PROVE  GoesOn(c, ctl')
<1> DEFINE mid == c.midRun /\ kind # "compaction"
           refused == [c EXCEPT !.watchdog = FALSE, !.midRun = mid]
           state == AwaitProvider(c.rsm)
           waiting == [c EXCEPT !.rsm = state, !.watchdog = TRUE]
<1>1. Finish(refused, "FAILED") \/ ctl' = Settle(waiting)
  BY DEF Send
<1>2. mid \in BOOLEAN /\ state \in States
  BY DEF Controller, AwaitProvider, States, RunningStates
<1> HIDE DEF mid
<1>3. refused \in Controller
  BY <1>2, WatchdogEdit, MidRunEdit
<1>4. SameRun(c, refused)
  <2>1. /\ refused.rsm = c.rsm /\ refused.run = c.run /\ refused.runId = c.runId
        /\ refused.store = c.store /\ refused.endings = c.endings
        /\ refused.unrecorded = c.unrecorded /\ refused.frames = c.frames
    BY DEF Controller
  <2> HIDE DEF refused
  <2> QED
    BY <1>3, <2>1, OtherFields
<1>5. waiting \in Controller /\ SameRun(c, waiting)
  <2> HIDE DEF state
  <2>1. waiting \in Controller
    BY <1>2, RsmEdit, WatchdogEdit
  <2>2. /\ waiting.rsm = state /\ waiting.run = c.run /\ waiting.runId = c.runId
        /\ waiting.store = c.store /\ waiting.endings = c.endings
        /\ waiting.unrecorded = c.unrecorded /\ waiting.frames = c.frames
    BY DEF Controller
  <2> HIDE DEF waiting
  <2> QED
    BY <2>1, <2>2, MachineMoves DEF state
<1> HIDE DEF refused, waiting
<1>6. CASE Finish(refused, "FAILED")
  BY <1>3, <1>4, <1>6, FinishGoesOn, GoesOnAfterSame DEF SameRun
<1>7. CASE ctl' = Settle(waiting)
  BY <1>5, <1>7, SettleSameRun, SameRunTrans DEF GoesOn
<1> QED
  BY <1>1, <1>6, <1>7

(* A mid-run compaction sends its hidden request or fails the run.         *)
LEMMA StartMidRunAutoCompactionGoesOn ==
    ASSUME NEW c \in Controller, Running(c), StartMidRunAutoCompaction(c)
    PROVE  GoesOn(c, ctl')
<1> DEFINE n == c.compactions + 1
           d == [c EXCEPT !.midRun = TRUE, !.high = FALSE, !.compactions = n]
<1>1. n \in Nat
  BY DEF Controller
<1>2. Finish(c, "FAILED") \/ Send(d, "compaction")
  BY DEF StartMidRunAutoCompaction
<1> HIDE DEF n
<1>3. d \in Controller
  BY <1>1, MidRunEdit, HighEdit, CompactionsEdit
<1>4. SameRun(c, d)
  <2>1. /\ d.rsm = c.rsm /\ d.run = c.run /\ d.runId = c.runId
        /\ d.store = c.store /\ d.endings = c.endings
        /\ d.unrecorded = c.unrecorded /\ d.frames = c.frames
    BY DEF Controller
  <2> HIDE DEF d
  <2> QED
    BY <1>3, <2>1, OtherFields
<1> HIDE DEF d
<1>5. CASE Finish(c, "FAILED")
  BY <1>5, FinishGoesOn
<1>6. CASE Send(d, "compaction")
  BY <1>3, <1>4, <1>6, SendGoesOn, GoesOnAfterSame DEF SameRun
<1> QED
  BY <1>2, <1>5, <1>6

(* The tail nearly every handler ends in.                                  *)
LEMMA RunNextIterationGoesOn ==
    ASSUME NEW c \in Controller, RunNextIteration(c)
    PROVE  GoesOn(c, ctl')
<1> DEFINE d == ApplySoftSteer(c)
           e == [d EXCEPT !.iter = @ + 1]
<1>1. d \in Controller /\ SameRun(c, d)
  BY ApplySoftSteerType, ApplySoftSteerSameRun
<1>2. \/ Commit(c)
      \/ Running(c) /\ Finish(d, "FAILED")
      \/ Running(c) /\ StartMidRunAutoCompaction(d)
      \/ Running(c) /\ Send(e, "agent")
  BY DEF RunNextIteration
<1> HIDE DEF d
<1>3. e \in Controller
  BY <1>1, NextIterType
<1>4. SameRun(d, e)
  <2>1. /\ e.rsm = d.rsm /\ e.run = d.run /\ e.runId = d.runId
        /\ e.store = d.store /\ e.endings = d.endings
        /\ e.unrecorded = d.unrecorded /\ e.frames = d.frames
    BY <1>1 DEF Controller
  <2> HIDE DEF e
  <2> QED
    BY <1>1, <1>3, <2>1, OtherFields
<1> HIDE DEF e
<1>5. CASE Commit(c)
  BY <1>5, SettleSameRun DEF Commit, GoesOn
<1>6. CASE Running(c) /\ Finish(d, "FAILED")
  BY <1>1, <1>6, FinishGoesOn, GoesOnAfterSame DEF SameRun
<1>7. CASE Running(c) /\ StartMidRunAutoCompaction(d)
  BY <1>1, <1>7, StartMidRunAutoCompactionGoesOn, GoesOnAfterSame DEF SameRun
<1>8. CASE Running(c) /\ Send(e, "agent")
  BY <1>1, <1>3, <1>4, <1>8, SendGoesOn, GoesOnAfterSame DEF SameRun
<1> QED
  BY <1>2, <1>5, <1>6, <1>7, <1>8

(* The same, among the other ends a run may come to.                       *)
LEMMA RunNextIterationMoves ==
    ASSUME NEW c \in Controller, RunNextIteration(c)
    PROVE  Moves(c, ctl')
BY RunNextIterationGoesOn DEF GoesOn, Moves, Ends, Verdicts

(* The rest of execute_tool.                                               *)
LEMMA AfterToolMoves ==
    ASSUME NEW c \in Controller, AfterTool(c)
    PROVE  Moves(c, ctl')
BY ApplySoftSteerType, ApplySoftSteerSameRun, RunNextIterationMoves, MovesAfterSame
DEF AfterTool

(* execute_tool.                                                           *)
LEMMA ExecuteToolMoves ==
    ASSUME NEW c \in Controller, Running(c), NEW tool \in Names, ExecuteTool(c, tool)
    PROVE  Moves(c, ctl')
<1> DEFINE n == c.calls + 1
           counted == [c EXCEPT !.calls = n]
           frame == ToolFrame("execute_tool", c)
<1>1. \/ Finish(c, "FAILED")
      \/ RunNextIteration(c)
      \/ Commit(RequestApproval(c, tool))
      \/ AfterTool(counted)
      \/ Commit(Suspend(counted, frame))
  BY DEF ExecuteTool
<1>2. n \in Nat
  BY DEF Controller
<1>3. frame \in Frame /\ frame.call # "start"
  BY ToolFrameType DEF ToolFrame, NewFrame
<1> HIDE DEF n, frame
<1>4. counted \in Controller /\ SameRun(c, counted)
  <2>1. counted \in Controller
    BY <1>2, CallsEdit
  <2>2. /\ counted.rsm = c.rsm /\ counted.run = c.run /\ counted.runId = c.runId
        /\ counted.store = c.store /\ counted.endings = c.endings
        /\ counted.unrecorded = c.unrecorded /\ counted.frames = c.frames
    BY DEF Controller
  <2> HIDE DEF counted
  <2> QED
    BY <2>1, <2>2, OtherFields
<1> HIDE DEF counted
<1>5. SameRun(c, Suspend(counted, frame))
  BY <1>3, <1>4, SuspendSameRun, SameRunTrans
<1>6. CASE Finish(c, "FAILED")
  BY <1>6, FinishMoves DEF Verdicts
<1>7. CASE RunNextIteration(c)
  BY <1>7, RunNextIterationMoves
<1>8. CASE Commit(RequestApproval(c, tool))
  BY <1>8, RequestApprovalSameRun, CommitSameRun
<1>9. CASE AfterTool(counted)
  BY <1>4, <1>9, AfterToolMoves, MovesAfterSame
<1>10. CASE Commit(Suspend(counted, frame))
  BY <1>5, <1>10, CommitSameRun
<1> QED
  BY <1>1, <1>6, <1>7, <1>8, <1>9, <1>10

-----------------------------------------------------------------------------
(* Replies                                                                 *)

(* A compaction reply ends the run or lets it go on.                       *)
LEMMA HandleCompactionReplyMoves ==
    ASSUME NEW c \in Controller, Running(c), NEW reply, HandleCompactionReply(c, reply)
    PROVE  Moves(c, ctl')
<1> DEFINE done == CompactionDone(c)
<1>1. done \in Controller
  BY MidRunEdit, HighEdit DEF CompactionDone
<1>2. SameRun(c, done)
  <2>1. /\ done.rsm = c.rsm /\ done.run = c.run /\ done.runId = c.runId
        /\ done.store = c.store /\ done.endings = c.endings
        /\ done.unrecorded = c.unrecorded /\ done.frames = c.frames
    BY <1>1 DEF CompactionDone, Controller
  <2> HIDE DEF done
  <2> QED
    BY <1>1, <2>1, OtherFields
<1>3. \/ \E verdict \in Verdicts : Finish(c, verdict)
      \/ Finish(done, "FAILED")
      \/ RunNextIteration(done)
  BY DEF HandleCompactionReply, Verdicts
<1> HIDE DEF done
<1>4. CASE \E verdict \in Verdicts : Finish(c, verdict)
  BY <1>4, FinishMoves
<1>5. CASE Finish(done, "FAILED")
  BY <1>1, <1>2, <1>5, FinishMoves, MovesAfterSame DEF Verdicts, SameRun
<1>6. CASE RunNextIteration(done)
  BY <1>1, <1>2, <1>6, RunNextIterationMoves, MovesAfterSame
<1> QED
  BY <1>3, <1>4, <1>5, <1>6

(* An agent reply ends the run, asks the user or lets it go on.            *)
LEMMA HandleAgentReplyMoves ==
    ASSUME NEW c \in Controller, Running(c), NEW reply \in Response,
           HandleAgentReply(c, reply)
    PROVE  Moves(c, ctl')
<1> DEFINE corrected == [c EXCEPT !.modeRetries = @ + 1]
           reformatted == [c EXCEPT !.textRetries = @ + 1]
           review == [c EXCEPT !.rsm = AwaitUser(@, "WAITING_FOR_INLINE_DIFF_REVIEW")]
           asked == [c EXCEPT !.decision = TRUE,
                              !.rsm = AwaitUser(@, "WAITING_FOR_USER_DECISION")]
<1>1. \/ \E verdict \in Verdicts : Finish(c, verdict)
      \/ RunNextIteration(corrected)
      \/ RunNextIteration(reformatted)
      \/ RunNextIteration(c)
      \/ ExecuteTool(c, reply.tool)
      \/ Commit(review)
      \/ Commit(asked)
      \/ Commit(RequestApproval(c, reply.tool))
  BY DEF HandleAgentReply, Verdicts
<1>2. corrected \in Controller /\ reformatted \in Controller
  BY RetryType
<1>3. review \in Controller /\ asked \in Controller
  BY AwaitUserType DEF UserWaits
<1>4. SameRun(c, corrected) /\ SameRun(c, reformatted)
  <2>1. /\ corrected.rsm = c.rsm /\ corrected.run = c.run /\ corrected.runId = c.runId
        /\ corrected.store = c.store /\ corrected.endings = c.endings
        /\ corrected.unrecorded = c.unrecorded /\ corrected.frames = c.frames
    BY DEF Controller
  <2>2. /\ reformatted.rsm = c.rsm /\ reformatted.run = c.run /\ reformatted.runId = c.runId
        /\ reformatted.store = c.store /\ reformatted.endings = c.endings
        /\ reformatted.unrecorded = c.unrecorded /\ reformatted.frames = c.frames
    BY DEF Controller
  <2> HIDE DEF corrected, reformatted
  <2> QED
    BY <1>2, <2>1, <2>2, OtherFields
<1>5. SameRun(c, review) /\ SameRun(c, asked)
  <2>1. /\ review.rsm = AwaitUser(c.rsm, "WAITING_FOR_INLINE_DIFF_REVIEW")
        /\ review.run = c.run /\ review.runId = c.runId
        /\ review.store = c.store /\ review.endings = c.endings
        /\ review.unrecorded = c.unrecorded /\ review.frames = c.frames
    BY DEF Controller
  <2>2. /\ asked.rsm = AwaitUser(c.rsm, "WAITING_FOR_USER_DECISION")
        /\ asked.run = c.run /\ asked.runId = c.runId
        /\ asked.store = c.store /\ asked.endings = c.endings
        /\ asked.unrecorded = c.unrecorded /\ asked.frames = c.frames
    BY DEF Controller
  <2> HIDE DEF review, asked
  <2> QED
    BY <1>3, <2>1, <2>2, MachineMoves DEF UserWaits
<1>6. reply.tool \in Names
  BY DEF Response
<1> HIDE DEF corrected, reformatted, review, asked
<1>7. CASE \E verdict \in Verdicts : Finish(c, verdict)
  BY <1>7, FinishMoves
<1>8. CASE RunNextIteration(corrected) \/ RunNextIteration(reformatted) \/ RunNextIteration(c)
  BY <1>2, <1>4, <1>8, RunNextIterationMoves, MovesAfterSame
<1>9. CASE ExecuteTool(c, reply.tool)
  BY <1>6, <1>9, ExecuteToolMoves
<1>10. CASE Commit(review) \/ Commit(asked) \/ Commit(RequestApproval(c, reply.tool))
  BY <1>5, <1>6, <1>10, RequestApprovalSameRun, CommitSameRun
<1> QED
  BY <1>1, <1>7, <1>8, <1>9, <1>10

(* One queued reply; a reply to no active run is dropped.                  *)
LEMMA HandleResponseMoves ==
    ASSUME NEW c \in Controller, NEW reply \in Response, HandleResponse(c, reply)
    PROVE  Moves(c, ctl')
<1> DEFINE answered == [c EXCEPT !.watchdog = FALSE]
           high == IF CompactionActive(c) THEN answered.high ELSE reply.high
           metered == [answered EXCEPT !.high = high]
           retries == IF reply.type = "text" THEN metered.textRetries ELSE 0
           parsed == [metered EXCEPT !.textRetries = retries]
           failed == [answered EXCEPT !.midRun = FALSE]
<1>1. answered \in Controller
  BY WatchdogEdit
<1>2. high \in BOOLEAN
  BY <1>1 DEF Response, Controller
<1>3. \/ Commit(c)
      \/ Running(c) /\ Finish(failed, "FAILED")
      \/ RunNextIteration(ApplySoftSteer(metered))
      \/ Running(c) /\ HandleCompactionReply(metered, reply)
      \/ Running(c) /\ HandleAgentReply(parsed, reply)
  BY DEF HandleResponse
<1> HIDE DEF high
<1>4. metered \in Controller /\ failed \in Controller
  BY <1>1, <1>2, HighEdit, MidRunEdit
<1>5. SameRun(c, metered) /\ SameRun(c, failed)
  <2>1. /\ metered.rsm = c.rsm /\ metered.run = c.run /\ metered.runId = c.runId
        /\ metered.store = c.store /\ metered.endings = c.endings
        /\ metered.unrecorded = c.unrecorded /\ metered.frames = c.frames
    BY DEF Controller
  <2>2. /\ failed.rsm = c.rsm /\ failed.run = c.run /\ failed.runId = c.runId
        /\ failed.store = c.store /\ failed.endings = c.endings
        /\ failed.unrecorded = c.unrecorded /\ failed.frames = c.frames
    BY DEF Controller
  <2> HIDE DEF metered, failed
  <2> QED
    BY <1>4, <2>1, <2>2, OtherFields
<1> HIDE DEF metered
<1>6. retries \in Nat
  BY <1>4 DEF Controller
<1> HIDE DEF retries
<1>7. parsed \in Controller
  BY <1>4, <1>6, TextRetriesEdit
<1>8. SameRun(c, parsed)
  <2>1. /\ parsed.rsm = metered.rsm /\ parsed.run = metered.run
        /\ parsed.runId = metered.runId /\ parsed.store = metered.store
        /\ parsed.endings = metered.endings /\ parsed.unrecorded = metered.unrecorded
        /\ parsed.frames = metered.frames
    BY <1>4 DEF Controller
  <2> HIDE DEF parsed
  <2> QED
    BY <1>4, <1>5, <1>7, <2>1, OtherFields, SameRunTrans
<1>9. Running(c) => Running(metered) /\ Running(failed) /\ Running(parsed)
  BY <1>5, <1>8 DEF SameRun
<1> HIDE DEF answered, parsed, failed
<1>10. CASE Commit(c)
  BY <1>10, SettleSameRun DEF Commit, Moves
<1>11. CASE Running(c) /\ Finish(failed, "FAILED")
  BY <1>4, <1>5, <1>9, <1>11, FinishMoves, MovesAfterSame DEF Verdicts
<1>12. CASE RunNextIteration(ApplySoftSteer(metered))
  BY <1>4, <1>5, <1>12, ApplySoftSteerType, ApplySoftSteerSameRun, SameRunTrans,
     RunNextIterationMoves, MovesAfterSame
<1>13. CASE Running(c) /\ HandleCompactionReply(metered, reply)
  BY <1>4, <1>5, <1>9, <1>13, HandleCompactionReplyMoves, MovesAfterSame
<1>14. CASE Running(c) /\ HandleAgentReply(parsed, reply)
  BY <1>7, <1>8, <1>9, <1>14, HandleAgentReplyMoves, MovesAfterSame
<1> QED
  BY <1>3, <1>10, <1>11, <1>12, <1>13, <1>14

(* The drain loop.                                                         *)
LEMMA DrainResponsesMoves == ASSUME TypeOK, DrainResponses PROVE Moves(ctl, ctl')
<1> DEFINE again == ctl.dispatch /\ ctl.draining
           c == [ctl EXCEPT !.dispatch = again, !.draining = TRUE]
           left == Tail(c.responses)
           d == [c EXCEPT !.responses = left]
<1>1. ctl \in Controller /\ again \in BOOLEAN
  BY DEF TypeOK
<1>2. \/ Commit(c)
      \/ c.responses # <<>> /\ HandleResponse(d, Head(c.responses))
  BY DEF DrainResponses
<1> HIDE DEF again
<1>3. c \in Controller
  BY <1>1, DispatchEdit, DrainingEdit
<1>4. SameRun(ctl, c)
  <2>1. /\ c.rsm = ctl.rsm /\ c.run = ctl.run /\ c.runId = ctl.runId
        /\ c.store = ctl.store /\ c.endings = ctl.endings
        /\ c.unrecorded = ctl.unrecorded /\ c.frames = ctl.frames
    BY <1>1 DEF Controller
  <2> HIDE DEF c
  <2> QED
    BY <1>1, <1>3, <2>1, OtherFields
<1> HIDE DEF c
<1>5. CASE c.responses # <<>> /\ HandleResponse(d, Head(c.responses))
  <2>1. c.responses \in Seq(Response)
    BY <1>3 DEF Controller
  <2>2. Head(c.responses) \in Response /\ left \in Seq(Response)
    BY <1>5, <2>1
  <2> HIDE DEF left
  <2>3. d \in Controller
    BY <1>3, <2>2, ResponsesEdit
  <2>4. SameRun(c, d)
    <3>1. /\ d.rsm = c.rsm /\ d.run = c.run /\ d.runId = c.runId
          /\ d.store = c.store /\ d.endings = c.endings
          /\ d.unrecorded = c.unrecorded /\ d.frames = c.frames
      BY <1>3 DEF Controller
    <3> HIDE DEF d
    <3> QED
      BY <1>3, <2>3, <3>1, OtherFields
  <2> HIDE DEF d
  <2> QED
    BY <1>4, <1>5, <2>2, <2>3, <2>4, SameRunTrans, HandleResponseMoves, MovesAfterSame
<1>6. CASE Commit(c)
  BY <1>1, <1>4, <1>6, CommitSameRun
<1> QED
  BY <1>2, <1>5, <1>6

-----------------------------------------------------------------------------
(* Starting and stopping                                                   *)

(* start() after the MCP refresh begins a run.                             *)
LEMMA StartAfterRefreshBegins ==
    ASSUME NEW c \in Controller, NEW ask \in BOOLEAN, NEW dryRun \in BOOLEAN,
           NEW compaction \in BOOLEAN, StartAfterRefresh(c, ask, dryRun, compaction)
    PROVE  Begins(c, ctl')
<1>1. PICK d \in Controller, row \in {"absent", "running", "error"}, lost \in BOOLEAN :
        /\ lost => row = "running"
        /\ RunNextIteration(d)
        /\ d.rsm = StartRun(c.rsm)
        /\ d.iter = 0
        /\ d.approvals = {}
        /\ d.decision = FALSE
        /\ d.steers = <<>>
        /\ d.delivered = <<>>
        /\ d.accepted = 0
        /\ d.responses = <<>>
        /\ d.store = [c.store EXCEPT ![c.run + 1] = row]
        /\ d.runId = (IF row = "running" /\ ~lost THEN c.run + 1 ELSE 0)
        /\ d.unrecorded = c.unrecorded \cup (IF lost THEN {c.run + 1} ELSE {})
        /\ d.run = c.run + 1
        /\ d.endings = c.endings
        /\ d.frames = c.frames
        /\ d.steerTimers = c.steerTimers
        /\ d.watchdog = c.watchdog
        /\ d.compactions = 0
        /\ d.high = FALSE
  BY FreshRunType
<1>2. Running(d)
  BY <1>1 DEF Running, StartRun, RunningStates
<1>3. Fresh(c, d, row, lost)
  BY <1>1, <1>2 DEF Fresh, Startless
<1>4. GoesOn(d, ctl')
  BY <1>1, RunNextIterationGoesOn
<1> QED
  BY <1>3, <1>4 DEF Begins, Rows

(* provider->cancel() changes nothing in the run's life.                   *)
LEMMA CancelAndCommitSameRun ==
    ASSUME NEW c \in Controller, inflight \in SUBSET Request, CancelAndCommit(c)
    PROVE  SameRun(c, ctl')
<1>1. CASE ctl' = Settle(c)
  BY <1>1, SettleSameRun
<1>2. CASE \E req \in inflight :
             ctl' = Settle([c EXCEPT !.responses =
                                 Append(@, [req |-> req, type |-> "error",
                                            tool |-> NoTool, high |-> FALSE]),
                                     !.dispatch = TRUE])
  <2>1. PICK req \in inflight :
             ctl' = Settle([c EXCEPT !.responses =
                                 Append(@, [req |-> req, type |-> "error",
                                            tool |-> NoTool, high |-> FALSE]),
                                     !.dispatch = TRUE])
    BY <1>2
  <2> DEFINE reply == [req |-> req, type |-> "error", tool |-> NoTool, high |-> FALSE]
             queue == Append(c.responses, reply)
             d == [c EXCEPT !.responses = queue, !.dispatch = TRUE]
  <2>2. reply \in Response
    BY DEF Response, AllReplyTypes, Names
  <2>3. ctl' = Settle(d)
    BY <2>1
  <2> HIDE DEF reply
  <2>4. queue \in Seq(Response)
    BY <2>2 DEF Controller
  <2> HIDE DEF queue
  <2>5. d \in Controller
    BY <2>4, ResponsesEdit, DispatchEdit
  <2>6. /\ d.rsm = c.rsm /\ d.run = c.run /\ d.runId = c.runId
        /\ d.store = c.store /\ d.endings = c.endings
        /\ d.unrecorded = c.unrecorded /\ d.frames = c.frames
    BY DEF Controller
  <2> HIDE DEF d
  <2> QED
    BY <2>3, <2>5, <2>6, OtherFields, SettleSameRun, SameRunTrans
<1> QED
  BY <1>1, <1>2 DEF CancelAndCommit

(* A run that is ended and cancelled.                                      *)
LEMMA CancelAndFinishMoves ==
    ASSUME NEW c \in Controller, Running(c), inflight \in SUBSET Request,
           NEW verdict \in Verdicts, CancelAndFinish(c, verdict)
    PROVE  Moves(c, ctl')
<1>0. PICK written \in BOOLEAN : CancelAndCommit(FinishRun(c, verdict, written))
  BY DEF CancelAndFinish
<1> DEFINE d == FinishRun(c, verdict, written)
<1>1. d \in Controller /\ EndsWith(c, d, verdict)
  BY FinishRunType, FinishRunEnds
<1>2. SameRun(d, ctl')
  BY <1>0, <1>1, CancelAndCommitSameRun
<1> HIDE DEF d
<1> QED
  BY <1>1, <1>2 DEF Moves, Ends, EndsWith, SameRun, Keeps

(* stop() ends the active run.                                             *)
LEMMA StopMoves == ASSUME TypeOK, Stop PROVE Moves(ctl, ctl')
<1> DEFINE c == [ctl EXCEPT !.midRun = FALSE, !.high = FALSE, !.steers = <<>>,
                            !.decision = FALSE, !.watchdog = FALSE]
<1>1. ctl \in Controller /\ inflight \in SUBSET Request /\ <<>> \in Seq(Nat)
  BY DEF TypeOK
<1>2. Running(ctl) /\ CancelAndFinish(c, "STOPPED")
  BY DEF Stop
<1>3. c \in Controller
  BY <1>1, MidRunEdit, HighEdit, SteersEdit, DecisionEdit, WatchdogEdit
<1>4. /\ c.rsm = ctl.rsm /\ c.run = ctl.run /\ c.runId = ctl.runId
      /\ c.store = ctl.store /\ c.endings = ctl.endings
      /\ c.unrecorded = ctl.unrecorded /\ c.frames = ctl.frames
  BY <1>1 DEF Controller
<1> HIDE DEF c
<1>5. SameRun(ctl, c)
  BY <1>1, <1>3, <1>4, OtherFields
<1> QED
  BY <1>1, <1>2, <1>3, <1>5, CancelAndFinishMoves, MovesAfterSame DEF Verdicts, SameRun

(* The watchdog ends a run that waits for the provider.                    *)
LEMMA TimeoutMoves == ASSUME TypeOK, ProviderInactivityTimeout PROVE Moves(ctl, ctl')
<1> DEFINE fired == [ctl EXCEPT !.watchdog = FALSE]
<1>1. ctl \in Controller /\ inflight \in SUBSET Request
  BY DEF TypeOK
<1>2. fired \in Controller
  BY <1>1, WatchdogEdit
<1>3. /\ fired.rsm = ctl.rsm /\ fired.run = ctl.run /\ fired.runId = ctl.runId
      /\ fired.store = ctl.store /\ fired.endings = ctl.endings
      /\ fired.unrecorded = ctl.unrecorded /\ fired.frames = ctl.frames
  BY <1>1 DEF Controller
<1>4. \/ /\ ctl.rsm = "WAITING_FOR_PROVIDER"
         /\ CancelAndFinish(fired, "FAILED")
      \/ Commit(fired)
  BY DEF ProviderInactivityTimeout
<1> HIDE DEF fired
<1>5. SameRun(ctl, fired)
  BY <1>1, <1>2, <1>3, OtherFields
<1>6. ctl.rsm = "WAITING_FOR_PROVIDER" => Running(fired)
  BY <1>3 DEF Running, RunningStates
<1> QED
  BY <1>1, <1>2, <1>4, <1>5, <1>6, CancelAndFinishMoves, CommitSameRun, MovesAfterSame
  DEF Verdicts

(* start() by the user begins a run, at once or after the MCP refresh.     *)
LEMMA UserStartsMoves ==
    ASSUME TypeOK, UserStarts
    PROVE  \/ Begins(ctl, ctl') /\ ~Running(ctl) /\ ctl.run + StartsPending < MaxRuns
           \/ RefreshLoops
<1>1. PICK ask \in BOOLEAN, dryRun \in BOOLEAN, compaction \in BOOLEAN :
        Start(ask, dryRun, compaction)
  BY DEF UserStarts
<1>2. ctl \in Controller
  BY DEF TypeOK
<1>3. CASE StartAfterRefresh(ctl, ask, dryRun, compaction)
  BY <1>1, <1>2, <1>3, StartAfterRefreshBegins DEF Start
<1> QED
  BY <1>1, <1>3 DEF Start

-----------------------------------------------------------------------------
(* The other events                                                        *)

(* The provider's callbacks only queue replies and arm the watchdog.       *)
LEMMA ProviderSameRun ==
    ASSUME TypeOK, ProviderAnswers \/ ProviderStreams
    PROVE  SameRun(ctl, ctl')
<1>1. ctl \in Controller /\ ctl' \in Controller
  BY ProviderAnswersType, ProviderStreamsType DEF TypeOK
<1>2. CASE ProviderAnswers
  <2>1. \E req, type, tool, high : ProviderReplies(req, type, tool, high)
    BY <1>2 DEF ProviderAnswers
  <2>2. /\ ctl'.rsm = ctl.rsm /\ ctl'.run = ctl.run /\ ctl'.runId = ctl.runId
        /\ ctl'.store = ctl.store /\ ctl'.endings = ctl.endings
        /\ ctl'.unrecorded = ctl.unrecorded /\ ctl'.frames = ctl.frames
    BY <1>1, <2>1 DEF ProviderReplies, Controller
  <2> QED
    BY <1>1, <2>2, OtherFields
<1>3. CASE ProviderStreams
  <2>1. /\ ctl'.rsm = ctl.rsm /\ ctl'.run = ctl.run /\ ctl'.runId = ctl.runId
        /\ ctl'.store = ctl.store /\ ctl'.endings = ctl.endings
        /\ ctl'.unrecorded = ctl.unrecorded /\ ctl'.frames = ctl.frames
    BY <1>1, <1>3 DEF ProviderStreams, Controller
  <2> QED
    BY <1>1, <2>1, OtherFields
<1> QED
  BY <1>2, <1>3

(* A follow-up message is only queued.                                     *)
LEMMA EnqueueMoves == ASSUME TypeOK, EnqueueSoftSteerMessage PROVE Moves(ctl, ctl')
<1> DEFINE queue == Append(ctl.steers, ctl.accepted + 1)
           count == ctl.accepted + 1
           timers == IF ctl.rsm \in {"WAITING_FOR_APPROVAL", "WAITING_FOR_INLINE_DIFF_REVIEW"}
                     THEN ctl.steerTimers + 1 ELSE ctl.steerTimers
           c == [ctl EXCEPT !.steers = queue, !.accepted = count, !.steerTimers = timers]
<1>1. ctl \in Controller
  BY DEF TypeOK
<1>2. queue \in Seq(Nat) /\ count \in Nat /\ timers \in Nat
  BY <1>1 DEF Controller
<1>3. Commit(c)
  BY DEF EnqueueSoftSteerMessage
<1> HIDE DEF queue, count, timers
<1>4. c \in Controller
  BY <1>1, <1>2, SteersEdit, AcceptedEdit, SteerTimersEdit
<1>5. /\ c.rsm = ctl.rsm /\ c.run = ctl.run /\ c.runId = ctl.runId
      /\ c.store = ctl.store /\ c.endings = ctl.endings
      /\ c.unrecorded = ctl.unrecorded /\ c.frames = ctl.frames
  BY <1>1 DEF Controller
<1> HIDE DEF c
<1> QED
  BY <1>1, <1>3, <1>4, <1>5, OtherFields, CommitSameRun

(* The timer of a follow-up message asks for the next request.             *)
LEMMA SoftSteerTimerMoves == ASSUME TypeOK, SoftSteerTimer PROVE Moves(ctl, ctl')
<1> DEFINE left == ctl.steerTimers - 1
           c == [ctl EXCEPT !.steerTimers = left]
<1>1. ctl \in Controller /\ ctl.steerTimers \in Nat /\ ctl.steerTimers > 0
  BY DEF TypeOK, Controller, SoftSteerTimer
<1>2. left \in Nat
  BY <1>1
<1>3. RunNextIteration(ApplySoftSteer(c)) \/ Commit(c)
  BY DEF SoftSteerTimer
<1> HIDE DEF left
<1>4. c \in Controller
  BY <1>1, <1>2, SteerTimersEdit
<1>5. /\ c.rsm = ctl.rsm /\ c.run = ctl.run /\ c.runId = ctl.runId
      /\ c.store = ctl.store /\ c.endings = ctl.endings
      /\ c.unrecorded = ctl.unrecorded /\ c.frames = ctl.frames
  BY <1>1 DEF Controller
<1> HIDE DEF c
<1>6. SameRun(ctl, c)
  BY <1>1, <1>4, <1>5, OtherFields
<1>7. CASE RunNextIteration(ApplySoftSteer(c))
  BY <1>4, <1>6, <1>7, ApplySoftSteerType, ApplySoftSteerSameRun, SameRunTrans,
     RunNextIterationMoves, MovesAfterSame
<1> QED
  BY <1>1, <1>3, <1>6, <1>7, CommitSameRun

(* Answers to an approval.                                                 *)
LEMMA UserAnswersApprovalMoves ==
    ASSUME TypeOK, UserAnswersApproval
    PROVE  Moves(ctl, ctl')
<1>1. PICK approval \in ctl.approvals :
        \/ ApproveAction(approval)
        \/ DenyAction(approval)
        \/ \E anyAccepted \in BOOLEAN : ResolveInlineApproval(approval, anyAccepted)
  BY DEF UserAnswersApproval
<1> DEFINE left == ctl.approvals \ {approval}
           c == [ctl EXCEPT !.approvals = left]
<1>2. ctl \in Controller
  BY DEF TypeOK
<1>3. left \in SUBSET Approval
  BY <1>2 DEF Controller
<1>4. ASSUME NEW m \in Nat
      PROVE  LET d == [ctl EXCEPT !.approvals = left, !.calls = m]
             IN  d \in Controller /\ SameRun(ctl, d)
  <2> DEFINE d == [ctl EXCEPT !.approvals = left, !.calls = m]
  <2> HIDE DEF left
  <2>1. d \in Controller
    BY <1>2, <1>3, ApprovalsEdit, CallsEdit
  <2>2. /\ d.rsm = ctl.rsm /\ d.run = ctl.run /\ d.runId = ctl.runId
        /\ d.store = ctl.store /\ d.endings = ctl.endings
        /\ d.unrecorded = ctl.unrecorded /\ d.frames = ctl.frames
    BY <1>2 DEF Controller
  <2>3. SameRun(ctl, d)
    <3> HIDE DEF d
    <3> QED
      BY <1>2, <2>1, <2>2, OtherFields
  <2> QED
    BY <2>1, <2>3
<1>5. c \in Controller /\ SameRun(ctl, c)
  <2> HIDE DEF left
  <2>1. c \in Controller
    BY <1>2, <1>3, ApprovalsEdit
  <2>2. /\ c.rsm = ctl.rsm /\ c.run = ctl.run /\ c.runId = ctl.runId
        /\ c.store = ctl.store /\ c.endings = ctl.endings
        /\ c.unrecorded = ctl.unrecorded /\ c.frames = ctl.frames
    BY <1>2 DEF Controller
  <2> HIDE DEF c
  <2> QED
    BY <1>2, <2>1, <2>2, OtherFields
<1>6. CASE ApproveAction(approval)
  <2> DEFINE n == c.calls + 1
             counted == [c EXCEPT !.calls = n]
             tool == approval.tool
             frame == ToolFrame("approve_action", c)
  <2>1. \/ RunNextIteration(c)
        \/ Commit(Suspend(counted, frame))
        \/ RunNextIteration(counted)
    BY <1>6 DEF ApproveAction
  <2> HIDE DEF left, tool, c
  <2>2. frame \in Frame /\ frame.call # "start"
    BY <1>5, ToolFrameType DEF ToolFrame, NewFrame
  <2>3. n \in Nat
    BY <1>5 DEF Controller
  <2> HIDE DEF n, frame
  <2>4. counted \in Controller
    BY <1>5, <2>3, CallsEdit
  <2>5. /\ counted.rsm = c.rsm /\ counted.run = c.run /\ counted.runId = c.runId
        /\ counted.store = c.store /\ counted.endings = c.endings
        /\ counted.unrecorded = c.unrecorded /\ counted.frames = c.frames
    BY <1>5 DEF Controller
  <2> HIDE DEF counted
  <2>6. SameRun(ctl, counted)
    BY <1>5, <2>4, <2>5, OtherFields, SameRunTrans
  <2>7. SameRun(ctl, Suspend(counted, frame))
    BY <2>2, <2>4, <2>6, SuspendSameRun, SameRunTrans
  <2>8. CASE RunNextIteration(c)
    BY <1>5, <2>8, RunNextIterationMoves, MovesAfterSame
  <2>9. CASE Commit(Suspend(counted, frame))
    BY <1>2, <2>7, <2>9, CommitSameRun
  <2>10. CASE RunNextIteration(counted)
    BY <2>4, <2>6, <2>10, RunNextIterationMoves, MovesAfterSame
  <2> QED
    BY <2>1, <2>8, <2>9, <2>10
<1>7. CASE DenyAction(approval)
  <2>1. RunNextIteration(c)
    BY <1>7 DEF DenyAction
  <2> HIDE DEF c
  <2> QED
    BY <1>5, <2>1, RunNextIterationMoves, MovesAfterSame
<1>8. CASE \E anyAccepted \in BOOLEAN : ResolveInlineApproval(approval, anyAccepted)
  <2>1. PICK anyAccepted \in BOOLEAN : ResolveInlineApproval(approval, anyAccepted)
    BY <1>8
  <2> DEFINE m == IF anyAccepted THEN ctl.calls + 1 ELSE ctl.calls
             d == [ctl EXCEPT !.approvals = left, !.calls = m]
  <2>2. m \in Nat
    BY <1>2 DEF Controller
  <2>3. RunNextIteration(d)
    BY <2>1 DEF ResolveInlineApproval
  <2> HIDE DEF m, left
  <2>4. d \in Controller /\ SameRun(ctl, d)
    BY <1>4, <2>2
  <2> HIDE DEF d
  <2> QED
    BY <2>3, <2>4, RunNextIterationMoves, MovesAfterSame
<1> QED
  BY <1>1, <1>6, <1>7, <1>8

(* A decision of the user.                                                 *)
LEMMA SubmitUserDecisionMoves == ASSUME TypeOK, SubmitUserDecision PROVE Moves(ctl, ctl')
<1> DEFINE c == [ctl EXCEPT !.decision = FALSE]
<1>1. ctl \in Controller /\ RunNextIteration(c)
  BY DEF TypeOK, SubmitUserDecision
<1>2. c \in Controller
  BY <1>1, DecisionEdit
<1>3. /\ c.rsm = ctl.rsm /\ c.run = ctl.run /\ c.runId = ctl.runId
      /\ c.store = ctl.store /\ c.endings = ctl.endings
      /\ c.unrecorded = ctl.unrecorded /\ c.frames = ctl.frames
  BY <1>1 DEF Controller
<1> HIDE DEF c
<1> QED
  BY <1>1, <1>2, <1>3, OtherFields, RunNextIterationMoves, MovesAfterSame

(* The end of an inline diff review.                                       *)
LEMMA ReviewMoves ==
    ASSUME TypeOK, RequestInlineDiffRefinement \/ FinalizeInlineDiffReview
    PROVE  Moves(ctl, ctl')
<1>1. ctl \in Controller
  BY DEF TypeOK
<1>2. CASE RequestInlineDiffRefinement
  BY <1>1, <1>2, RunNextIterationMoves DEF RequestInlineDiffRefinement
<1>3. CASE FinalizeInlineDiffReview
  <2>1. Running(ctl)
    BY <1>3 DEF FinalizeInlineDiffReview, Running, RunningStates, UserWaits
  <2> QED
    BY <1>1, <1>3, <2>1, FinishMoves DEF FinalizeInlineDiffReview, Verdicts
<1> QED
  BY <1>2, <1>3

(* A resumed call finds the run's life as it is now.                       *)
LEMMA ResumedSameRun ==
    ASSUME TypeOK, ctl.frames # <<>>
    PROVE  SameRun(ctl, Resumed)
<1>1. ctl \in Controller /\ Resumed \in Controller
  BY ResumedType DEF TypeOK
<1>2. /\ Resumed.rsm = ctl.rsm /\ Resumed.run = ctl.run /\ Resumed.runId = ctl.runId
      /\ Resumed.store = ctl.store /\ Resumed.endings = ctl.endings
      /\ Resumed.unrecorded = ctl.unrecorded /\ Resumed.frames = Tail(ctl.frames)
  BY <1>1 DEF Resumed, Controller
<1>3. ctl.frames \in Seq(Frame)
  BY <1>1 DEF Controller
<1>4. ASSUME Startless(ctl) PROVE Startless(Resumed)
  <2> SUFFICES ASSUME NEW i \in DOMAIN Tail(ctl.frames)
               PROVE  Tail(ctl.frames)[i].call # "start"
    BY <1>2 DEF Startless
  <2>1. i + 1 \in DOMAIN ctl.frames /\ Tail(ctl.frames)[i] = ctl.frames[i + 1]
    BY <1>3
  <2> QED
    BY <1>4, <2>1 DEF Startless
<1> QED
  BY <1>1, <1>2, <1>4 DEF SameRun, Keeps, Running

(* A suspended tool call goes on with the run, a suspended start() begins  *)
(* another one.                                                            *)
LEMMA ReturnsMoves ==
    ASSUME TypeOK, ExecuteToolReturns \/ ApproveActionReturns \/ StartReturns
    PROVE  \/ Moves(ctl, ctl')
           \/ ~Startless(ctl)
<1>1. ctl.frames # <<>>
  BY DEF ExecuteToolReturns, ApproveActionReturns, StartReturns, NestedLoopReturns
<1>2. Resumed \in Controller /\ Head(ctl.frames) \in Frame
  BY <1>1, ResumedType
<1>3. SameRun(ctl, Resumed)
  BY <1>1, ResumedSameRun
<1>4. CASE ExecuteToolReturns \/ ApproveActionReturns
  BY <1>2, <1>3, <1>4, AfterToolMoves, RunNextIterationMoves, MovesAfterSame
  DEF ExecuteToolReturns, ApproveActionReturns
<1>5. CASE StartReturns
  <2>1. ctl.frames \in Seq(Frame)
    BY DEF TypeOK, Controller
  <2>2. 1 \in DOMAIN ctl.frames /\ ctl.frames[1].call = "start"
    BY <1>1, <1>5, <2>1 DEF StartReturns, NestedLoopReturns
  <2> QED
    BY <2>2 DEF Startless
<1> QED
  BY <1>4, <1>5

(* Every step, with no assumption: it leaves the run's life alone, ends    *)
(* the active run, begins a run where none is active, or has to do with a  *)
(* start() that waits for its MCP refresh.                                 *)
LEMMA StepMoves ==
    ASSUME TypeOK, [Next]_vars
    PROVE  \/ Moves(ctl, ctl')
           \/ Begins(ctl, ctl') /\ ~Running(ctl) /\ ctl.run + StartsPending < MaxRuns
           \/ RefreshLoops \/ ~Startless(ctl)
<1>1. CASE UserStarts
  BY <1>1, UserStartsMoves
<1>2. CASE Stop
  BY <1>2, StopMoves
<1>3. CASE ProviderInactivityTimeout
  BY <1>3, TimeoutMoves
<1>4. CASE ProviderAnswers \/ ProviderStreams
  BY <1>4, ProviderSameRun DEF Moves
<1>5. CASE DrainResponses
  BY <1>5, DrainResponsesMoves
<1>6. CASE EnqueueSoftSteerMessage \/ SoftSteerTimer
  BY <1>6, EnqueueMoves, SoftSteerTimerMoves
<1>7. CASE UserAnswersApproval
  BY <1>7, UserAnswersApprovalMoves
<1>8. CASE SubmitUserDecision
  BY <1>8, SubmitUserDecisionMoves
<1>9. CASE RequestInlineDiffRefinement \/ FinalizeInlineDiffReview
  BY <1>9, ReviewMoves
<1>10. CASE ExecuteToolReturns \/ ApproveActionReturns \/ StartReturns
  BY <1>10, ReturnsMoves
<1>11. CASE UNCHANGED vars
  BY <1>11, OtherFields DEF vars, TypeOK, Moves
<1> QED
  BY <1>1, <1>2, <1>3, <1>4, <1>5, <1>6, <1>7, <1>8, <1>9, <1>10, <1>11 DEF Next

-----------------------------------------------------------------------------
(* Rows and endings                                                        *)

(* A run that has not ended has announced nothing, and only a run that has *)
(* announced its verdict can have the matching row.                        *)
RowOf(c, r) ==
    /\ c.store[r] = "running" <=> c.runId = r \/ r \in c.unrecorded
    /\ r \in c.unrecorded => r <= c.run /\ c.runId # r
    /\ IF r < c.run \/ (r = c.run /\ ~Running(c))
       THEN Len(c.endings[r]) = 1
       ELSE c.endings[r] = <<>>
    /\ c.store[r] \in {"completed", "stopped"} =>
           c.endings[r] # <<>> /\ c.store[r] = StatusOf(c.endings[r][1])

LifeInv(c) ==
    /\ c \in Controller
    /\ c.run <= MaxRuns
    /\ Running(c) => c.run > 0
    /\ c.runId # 0 => Running(c) /\ c.runId = c.run
    /\ Startless(c)
    /\ \A r \in Runs : RowOf(c, r)

(* A step that leaves the run's life alone keeps the invariant.            *)
LEMMA SameRunLife ==
    ASSUME NEW c, NEW d, LifeInv(c), SameRun(c, d)
    PROVE  LifeInv(d)
BY DEF LifeInv, SameRun, Keeps, RowOf

(* The end of the active run writes its row and its one ending.            *)
LEMMA EndsLife ==
    ASSUME NEW c, NEW d, LifeInv(c), NEW verdict \in Verdicts, EndsWith(c, d, verdict)
    PROVE  LifeInv(d)
<1>1. /\ c \in Controller /\ d \in Controller /\ c.run \in Nat
      /\ c.store \in [Runs -> RowStatus] /\ c.endings \in [Runs -> Seq(Verdicts)]
  BY DEF LifeInv, EndsWith, Keeps, Controller
<1>2. c.run \in Runs /\ d.run = c.run
  BY <1>1, LimitAssumption DEF LifeInv, EndsWith, Keeps, Runs
<1>3. c.endings[c.run] = <<>>
  BY <1>1, <1>2 DEF LifeInv, RowOf, EndsWith
<1> DEFINE said == Append(c.endings[c.run], verdict)
<1>4. Len(said) = 1 /\ said # <<>> /\ said[1] = verdict
  BY <1>3
<1>5. StatusOf(verdict) # "running"
  BY DEF StatusOf
<1>6. d.endings = [c.endings EXCEPT ![c.run] = said]
  BY DEF EndsWith, Announce
<1>7. PICK written \in BOOLEAN :
        /\ d.store = FinalizePersistentRun(c.store, c.runId, verdict, written)
        /\ d.unrecorded = IF c.runId = 0 \/ written THEN c.unrecorded
                          ELSE c.unrecorded \cup {c.runId}
  BY DEF EndsWith, Filed
<1> HIDE DEF said
<1>8. ASSUME NEW r \in Runs
      PROVE  RowOf(d, r)
  <2>1. RowOf(c, r)
    BY DEF LifeInv
  <2>2. r \in Nat /\ r # 0
    BY DEF Runs
  <2>3. d.runId = 0 /\ ~Running(d) /\ (c.runId # 0 => c.runId = c.run)
    BY DEF LifeInv, EndsWith
  <2>4. CASE r = c.run
    <3>1. d.endings[r] = said
      BY <1>1, <1>6, <2>4
    <3>2. d.store[r] = IF c.runId = 0 \/ ~written THEN c.store[r] ELSE StatusOf(verdict)
      BY <1>1, <1>7, <2>3, <2>4 DEF FinalizePersistentRun
    <3>3. c.store[r] \notin {"completed", "stopped"}
      BY <1>3, <2>1, <2>4 DEF RowOf
    <3>4. r \in d.unrecorded <=> r \in c.unrecorded \/ (c.runId = r /\ ~written)
      BY <1>7, <2>2, <2>3, <2>4
    <3>5. d.store[r] = "running" <=> r \in d.unrecorded
      BY <1>5, <2>1, <2>2, <2>3, <2>4, <3>2, <3>4 DEF RowOf
    <3>6. d.store[r] \in {"completed", "stopped"} => d.store[r] = StatusOf(verdict)
      BY <3>2, <3>3
    <3> QED
      BY <1>2, <1>4, <2>2, <2>3, <2>4, <3>1, <3>5, <3>6 DEF RowOf
  <2>5. CASE r # c.run
    <3>1. d.endings[r] = c.endings[r]
      BY <1>1, <1>6, <2>5
    <3>2. d.store[r] = c.store[r]
      BY <1>1, <1>7, <2>3, <2>5 DEF FinalizePersistentRun
    <3>3. c.runId # r
      BY <2>2, <2>3, <2>5
    <3>4. r \in d.unrecorded <=> r \in c.unrecorded
      BY <1>7, <3>3
    <3> QED
      BY <1>2, <2>1, <2>2, <2>3, <2>5, <3>1, <3>2, <3>3, <3>4 DEF RowOf
  <2> QED
    BY <2>4, <2>5
<1> QED
  BY <1>1, <1>2, <1>8 DEF LifeInv, EndsWith, Keeps

(* A run begins where none is active.                                      *)
LEMMA FreshLife ==
    ASSUME NEW c, NEW d, LifeInv(c), ~Running(c), c.run < MaxRuns,
           NEW row \in Rows, NEW lost \in BOOLEAN, Fresh(c, d, row, lost)
    PROVE  LifeInv(d)
<1>1. /\ c \in Controller /\ d \in Controller /\ c.run \in Nat
      /\ c.store \in [Runs -> RowStatus] /\ c.endings \in [Runs -> Seq(Verdicts)]
  BY DEF LifeInv, Fresh, Controller
<1>2. /\ c.runId = 0
      /\ lost => row = "running"
      /\ d.runId = (IF row = "running" /\ ~lost THEN c.run + 1 ELSE 0)
      /\ d.unrecorded = c.unrecorded \cup (IF lost THEN {c.run + 1} ELSE {})
      /\ d.run = c.run + 1
      /\ d.endings = c.endings
      /\ d.store = [c.store EXCEPT ![c.run + 1] = row]
      /\ Running(d)
  BY DEF LifeInv, Fresh
<1>3. ASSUME NEW r \in Runs
      PROVE  RowOf(d, r)
  <2>1. RowOf(c, r) /\ r \in Nat /\ r # 0
    BY DEF LifeInv, Runs
  <2>2. d.store[r] = IF r = c.run + 1 THEN row ELSE c.store[r]
    BY <1>1, <1>2
  <2>3. CASE r = c.run + 1
    <3>1. r \notin c.unrecorded /\ c.endings[r] = <<>>
      BY <1>1, <2>1, <2>3 DEF RowOf
    <3>2. r \in d.unrecorded <=> lost
      BY <1>2, <2>3, <3>1
    <3>3. d.runId = r <=> row = "running" /\ ~lost
      BY <1>2, <2>1, <2>3
    <3> QED
      BY <1>1, <1>2, <2>1, <2>2, <2>3, <3>1, <3>2, <3>3 DEF RowOf, Rows
  <2>4. CASE r # c.run + 1
    <3>1. r \in d.unrecorded <=> r \in c.unrecorded
      BY <1>2, <2>4
    <3>2. d.runId # r
      BY <1>2, <2>1, <2>4
    <3> QED
      BY <1>1, <1>2, <2>1, <2>2, <2>4, <3>1, <3>2 DEF RowOf
  <2> QED
    BY <2>3, <2>4
<1> QED
  BY <1>1, <1>2, <1>3, LimitAssumption DEF LifeInv, Fresh

(* Without suspended starts the starts pending are none.                   *)
LEMMA NoStartsPending ==
    ASSUME LifeInv(ctl)
    PROVE  StartsPending = 0
<1>1. {i \in DOMAIN ctl.frames : ctl.frames[i].call = "start"} = {}
  BY DEF LifeInv, Startless
<1> QED
  BY <1>1, FS_EmptySet DEF StartsPending

(* What a step does where no MCP refresh spins an event loop.              *)
LEMMA StepLife ==
    ASSUME TypeOK, LifeInv(ctl), ~RefreshLoops, [Next]_vars
    PROVE  \/ Moves(ctl, ctl')
           \/ Begins(ctl, ctl') /\ ~Running(ctl) /\ ctl.run < MaxRuns
<1>1. Startless(ctl) /\ ctl.run \in Nat
  BY DEF LifeInv, Controller
<1> QED
  BY <1>1, StepMoves, NoStartsPending

(* Nothing has happened before the first run.                              *)
LEMMA InitLife == Init => LifeInv(ctl)
<1> SUFFICES ASSUME Init PROVE LifeInv(ctl)
  OBVIOUS
<1>1. ctl \in Controller
  BY InitType DEF TypeOK
<1>2. /\ ctl.rsm = "IDLE" /\ ctl.run = 0 /\ ctl.runId = 0 /\ ctl.frames = <<>>
      /\ ctl.store = [r \in Runs |-> "absent"] /\ ctl.unrecorded = {}
      /\ ctl.endings = [r \in Runs |-> <<>>]
  BY DEF Init
<1>3. ~Running(ctl)
  BY <1>2 DEF Running, RunningStates, UserWaits
<1>4. ASSUME NEW r \in Runs
      PROVE  RowOf(ctl, r)
  BY <1>2, <1>3 DEF RowOf, Runs
<1>5. Startless(ctl)
  BY <1>2 DEF Startless
<1> QED
  BY <1>1, <1>2, <1>3, <1>4, <1>5, LimitAssumption DEF LifeInv

(* Every step preserves the invariant.                                     *)
LEMMA NextLife ==
    ASSUME ~RefreshLoops
    PROVE  TypeOK /\ LifeInv(ctl) /\ [Next]_vars => LifeInv(ctl')
<1> SUFFICES ASSUME TypeOK, LifeInv(ctl), [Next]_vars PROVE LifeInv(ctl')
  OBVIOUS
<1>1. CASE Moves(ctl, ctl')
  BY <1>1, SameRunLife, EndsLife DEF Moves, Ends
<1>2. CASE Begins(ctl, ctl') /\ ~Running(ctl) /\ ctl.run < MaxRuns
  <2>1. PICK row \in Rows, lost \in BOOLEAN : \E d : Fresh(ctl, d, row, lost) /\ GoesOn(d, ctl')
    BY <1>2 DEF Begins
  <2>2. PICK d : Fresh(ctl, d, row, lost) /\ GoesOn(d, ctl')
    BY <2>1
  <2>3. LifeInv(d)
    BY <1>2, <2>2, FreshLife
  <2> QED
    BY <2>2, <2>3, SameRunLife, EndsLife DEF GoesOn, Verdicts
<1> QED
  BY <1>1, <1>2, StepLife

(* The inductive argument.                                                 *)
LEMMA AlwaysLife ==
    ASSUME ~RefreshLoops
    PROVE  Spec => [](TypeOK /\ LifeInv(ctl))
<1>1. Init => TypeOK /\ LifeInv(ctl)
  BY InitType, InitLife
<1>2. TypeOK /\ LifeInv(ctl) /\ [Next]_vars => TypeOK' /\ LifeInv(ctl)'
  BY NextType, NextLife
<1> QED
  BY <1>1, <1>2, PTL DEF Spec

(* The row of a stored run is "running" exactly while the run is active,   *)
(* and a run that is over has one ending, which its row repeats: through   *)
(* suspended tools, stops inside them and late approvals.                  *)
THEOREM RowsFollow ==
    ASSUME ~RefreshLoops
    PROVE  Spec => []RowsFollowRuns
<1>1. LifeInv(ctl) => RowsFollowRuns
  <2> SUFFICES ASSUME LifeInv(ctl), NEW r \in Runs
               PROVE  /\ ctl.store[r] = "running" <=>
                             (ctl.runId = r /\ Active) \/ r \in ctl.unrecorded
                      /\ Len(ctl.endings[r]) =
                             IF r < ctl.run \/ (r = ctl.run /\ ~Active) THEN 1 ELSE 0
                      /\ ctl.store[r] \in {"completed", "stopped"} =>
                             ctl.store[r] = StatusOf(ctl.endings[r][1])
    BY DEF RowsFollowRuns
  <2>1. RowOf(ctl, r) /\ r # 0 /\ (ctl.runId # 0 => Running(ctl))
    BY DEF LifeInv, Runs
  <2>2. ctl.store[r] = "running" <=>
                             (ctl.runId = r /\ Active) \/ r \in ctl.unrecorded
    BY <2>1 DEF RowOf, Active
  <2>3. Len(ctl.endings[r]) = IF r < ctl.run \/ (r = ctl.run /\ ~Active) THEN 1 ELSE 0
    <3>1. Len(<<>>) = 0
      OBVIOUS
    <3>2. CASE r < ctl.run \/ (r = ctl.run /\ ~Active)
      BY <2>1, <3>2 DEF RowOf, Active
    <3>3. CASE ~(r < ctl.run \/ (r = ctl.run /\ ~Active))
      BY <2>1, <3>1, <3>3 DEF RowOf, Active
    <3> QED
      BY <3>2, <3>3
  <2>4. ctl.store[r] \in {"completed", "stopped"} =>
            ctl.store[r] = StatusOf(ctl.endings[r][1])
    BY <2>1 DEF RowOf
  <2> QED
    BY <2>2, <2>3, <2>4
<1> QED
  BY <1>1, AlwaysLife, PTL

-----------------------------------------------------------------------------
(* Refinement                                                              *)

(* The initial state is an initial state of the lifecycle.                 *)
LEMMA InitRefines == Init => Lifecycle!LifecycleInit
BY DEF Init, Lifecycle!LifecycleInit, Lifecycle!Runs, Runs, Active, Running,
   RunningStates, UserWaits

(* A step that leaves the run's life alone is a stutter.                   *)
LEMMA SameRunRefines ==
    ASSUME SameRun(ctl, ctl')
    PROVE  UNCHANGED Lifecycle!lifecycleVars
BY DEF SameRun, Keeps, Active, Lifecycle!lifecycleVars

(* The end of the active run is the lifecycle's EndRun: the row that       *)
(* FinishRun writes is the one that says "running".                        *)
LEMMA EndsRefines ==
    ASSUME LifeInv(ctl), NEW verdict \in Verdicts, EndsWith(ctl, ctl', verdict)
    PROVE  \E written \in BOOLEAN : Lifecycle!EndRun(verdict, written)
<1>1. /\ ctl.run \in Nat /\ ctl.store \in [Runs -> RowStatus]
      /\ ctl.endings \in [Runs -> Seq(Verdicts)]
  BY DEF LifeInv, Controller
<1>2. ctl.run \in Runs /\ RowOf(ctl, ctl.run)
  BY <1>1, LimitAssumption DEF LifeInv, EndsWith, Runs
<1>3. Active /\ ~Active' /\ ctl'.run = ctl.run /\ ctl.run # 0
  BY <1>2 DEF EndsWith, Keeps, Active, Runs
<1>4. ctl'.endings = [ctl.endings EXCEPT ![ctl.run] = Append(@, verdict)]
  BY DEF EndsWith, Announce
<1>5. PICK written \in BOOLEAN :
        /\ ctl'.store = FinalizePersistentRun(ctl.store, ctl.runId, verdict, written)
        /\ ctl'.unrecorded = IF ctl.runId = 0 \/ written THEN ctl.unrecorded
                             ELSE ctl.unrecorded \cup {ctl.runId}
  BY DEF EndsWith, Filed
<1> DEFINE row == IF /\ ctl.store[ctl.run] = "running"
                     /\ ctl.run \notin ctl.unrecorded
                     /\ written
                  THEN StatusOf(verdict) ELSE ctl.store[ctl.run]
           lost == IF ctl.store[ctl.run] = "running" /\ ~written
                   THEN ctl.unrecorded \cup {ctl.run} ELSE ctl.unrecorded
<1>6. ctl'.store = [ctl.store EXCEPT ![ctl.run] = row] /\ ctl'.unrecorded = lost
  <2>1. CASE ctl.runId = 0
    <3>1. ctl.store[ctl.run] = "running" <=> ctl.run \in ctl.unrecorded
      BY <1>2, <1>3, <2>1 DEF RowOf
    <3>2. ctl'.store = ctl.store /\ ctl'.unrecorded = ctl.unrecorded
      BY <1>5, <2>1 DEF FinalizePersistentRun
    <3>3. row = ctl.store[ctl.run] /\ lost = ctl.unrecorded
      BY <3>1
    <3> QED
      BY <1>1, <3>2, <3>3
  <2>2. CASE ctl.runId # 0
    <3>1. /\ ctl.runId = ctl.run /\ ctl.store[ctl.run] = "running"
          /\ ctl.run \notin ctl.unrecorded
      BY <1>2, <2>2 DEF LifeInv, RowOf
    <3>2. CASE written
      BY <1>5, <2>2, <3>1, <3>2 DEF FinalizePersistentRun
    <3>3. CASE ~written
      <4>1. ctl'.store = ctl.store /\ row = ctl.store[ctl.run]
        BY <1>5, <2>2, <3>3 DEF FinalizePersistentRun
      <4>2. ctl'.unrecorded = lost
        BY <1>5, <2>2, <3>1, <3>3
      <4> QED
        BY <1>1, <4>1, <4>2
    <3> QED
      BY <3>2, <3>3
  <2> QED
    BY <2>1, <2>2
<1>7. StatusOf(verdict) = Lifecycle!StatusOf(verdict)
  BY DEF StatusOf, Lifecycle!StatusOf
<1>8. Lifecycle!EndRun(verdict, written)
  BY <1>3, <1>4, <1>6, <1>7 DEF Lifecycle!EndRun
<1> QED
  BY <1>8

(* The start of a run is the lifecycle's BeginRun, or its BeginAndEndRun   *)
(* when the run fails before its first request is out.                     *)
LEMMA BeginsRefines ==
    ASSUME LifeInv(ctl), ~Running(ctl), ctl.run < MaxRuns, Begins(ctl, ctl')
    PROVE  \E row \in Rows :
               \/ Lifecycle!BeginAndEndRun(row)
               \/ \E lost \in BOOLEAN : Lifecycle!BeginRun(row, lost)
<1>1. PICK row \in Rows, lost \in BOOLEAN :
        \E d : Fresh(ctl, d, row, lost) /\ GoesOn(d, ctl')
  BY DEF Begins
<1>2. PICK d : Fresh(ctl, d, row, lost) /\ GoesOn(d, ctl')
  BY <1>1
<1>3. /\ ctl.run \in Nat /\ ctl.store \in [Runs -> RowStatus]
      /\ ctl.endings \in [Runs -> Seq(Verdicts)]
  BY DEF LifeInv, Controller
<1>4. /\ lost => row = "running"
      /\ d.run = ctl.run + 1 /\ Running(d) /\ d.endings = ctl.endings
      /\ d.store = [ctl.store EXCEPT ![ctl.run + 1] = row]
      /\ d.runId = (IF row = "running" /\ ~lost THEN ctl.run + 1 ELSE 0)
      /\ d.unrecorded = ctl.unrecorded \cup (IF lost THEN {ctl.run + 1} ELSE {})
  BY <1>2 DEF Fresh
<1>5. ctl.run + 1 \in Runs /\ ctl.run + 1 # 0
  BY <1>3, LimitAssumption DEF Runs
<1>6. ~Active
  BY DEF Active
<1>7. CASE SameRun(d, ctl')
  <2>1. /\ ctl'.run = ctl.run + 1 /\ Active' /\ ctl'.endings = ctl.endings
        /\ ctl'.store = [ctl.store EXCEPT ![ctl.run + 1] = row]
    BY <1>4, <1>7 DEF SameRun, Keeps, Active
  <2>2. ctl'.unrecorded =
            IF lost THEN ctl.unrecorded \cup {ctl.run + 1} ELSE ctl.unrecorded
    BY <1>4, <1>7 DEF SameRun
  <2>3. Lifecycle!NewRow(row, lost)
    BY <1>6, <2>1, <2>2 DEF Lifecycle!NewRow
  <2> QED
    BY <1>4, <2>1, <2>3 DEF Lifecycle!BeginRun
<1>8. CASE EndsWith(d, ctl', "FAILED")
  <2>1. /\ ctl'.run = ctl.run + 1 /\ ~Active'
        /\ ctl'.endings = [ctl.endings EXCEPT ![ctl.run + 1] = Append(@, "FAILED")]
    BY <1>4, <1>8 DEF EndsWith, Keeps, Active, Announce
  <2>2. PICK written \in BOOLEAN :
          /\ ctl'.store = FinalizePersistentRun(d.store, d.runId, "FAILED", written)
          /\ ctl'.unrecorded = IF d.runId = 0 \/ written THEN d.unrecorded
                               ELSE d.unrecorded \cup {d.runId}
    BY <1>8 DEF EndsWith, Filed
  <2>3. StatusOf("FAILED") = "error"
    BY DEF StatusOf
  <2> DEFINE last == IF row = "running" /\ ~lost /\ written THEN "error" ELSE row
  <2>4. last \in Rows /\ (last = "running" <=> row = "running" /\ (lost \/ ~written))
    BY DEF Rows
  <2>5. ctl'.store = [ctl.store EXCEPT ![ctl.run + 1] = last]
    BY <1>3, <1>4, <1>5, <2>2, <2>3 DEF FinalizePersistentRun
  <2>6. ctl'.unrecorded =
            IF last = "running" THEN ctl.unrecorded \cup {ctl.run + 1} ELSE ctl.unrecorded
    BY <1>4, <1>5, <2>2, <2>4
  <2> HIDE DEF last
  <2>7. Lifecycle!NewRow(last, last = "running")
    BY <1>6, <2>1, <2>5, <2>6 DEF Lifecycle!NewRow
  <2>8. Lifecycle!BeginAndEndRun(last)
    BY <1>6, <2>1, <2>7 DEF Lifecycle!BeginAndEndRun
  <2> QED
    BY <2>4, <2>8
<1> QED
  BY <1>2, <1>7, <1>8 DEF GoesOn

(* The controller implements the lifecycle it promises: one active run at  *)
(* a time, one ending per run, and the row written by the step that ends   *)
(* it, whatever tools suspend their handlers.                              *)
THEOREM Refinement ==
    ASSUME ~RefreshLoops
    PROVE  Spec => ImplementsLifecycle
<1>1. TypeOK /\ LifeInv(ctl) /\ [Next]_vars
          => [Lifecycle!LifecycleNext]_(Lifecycle!lifecycleVars)
  <2> SUFFICES ASSUME TypeOK, LifeInv(ctl), [Next]_vars
               PROVE  Lifecycle!LifecycleNext \/ UNCHANGED Lifecycle!lifecycleVars
    OBVIOUS
  <2>1. CASE SameRun(ctl, ctl')
    BY <2>1, SameRunRefines
  <2>2. CASE Ends(ctl, ctl')
    BY <2>2, EndsRefines DEF Ends, Lifecycle!LifecycleNext, Verdicts, Lifecycle!Verdicts
  <2>3. CASE Begins(ctl, ctl') /\ ~Running(ctl) /\ ctl.run < MaxRuns
    BY <2>3, BeginsRefines DEF Rows, Lifecycle!LifecycleNext
  <2> QED
    BY <2>1, <2>2, <2>3, StepLife DEF Moves
<1> QED
  BY <1>1, InitRefines, AlwaysLife, PTL DEF Spec, ImplementsLifecycle, Lifecycle!LifecycleSpec
=============================================================================
