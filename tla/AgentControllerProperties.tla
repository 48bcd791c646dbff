---------------------- MODULE AgentControllerProperties ---------------------
(***************************************************************************)
(* What agent_controller_t is expected to guarantee.  Each property is     *)
(* followed by runs of MCAgentController; a few of them hold only while no *)
(* handler is suspended by a nested event loop, and say so.                *)
(***************************************************************************)
EXTENDS AgentController

Active == Running(ctl)

(* Requests on their way: at the provider, or answered and queued.         *)
Outstanding == Cardinality(inflight) + Len(ctl.responses)

QueuedRequests == {ctl.responses[i].req : i \in DOMAIN ctl.responses}

(* While a run is active at most one request is outstanding, and it is a   *)
(* request of that run: no reply of an abandoned run or iteration can be   *)
(* handled as the answer to a later one (drain_queued_provider_responses   *)
(* passes replies on without looking where they come from).                *)
OneOutstandingRequest ==
    Active => /\ Outstanding <= 1
              /\ \A req \in inflight \cup QueuedRequests : req.run = ctl.run

(* The run waits for the provider exactly while it has a request out, and  *)
(* the watchdog of arm_provider_watchdog is armed exactly then: no run is  *)
(* left waiting without a timer, and no timer survives into a user wait or *)
(* into the next run.                                                      *)
WatchdogCoversWait ==
    /\ ctl.watchdog <=> ctl.rsm = "WAITING_FOR_PROVIDER"
    /\ ctl.rsm = "WAITING_FOR_PROVIDER" => Outstanding = 1

(* What the user is asked agrees with what the run waits for: approvals    *)
(* and decisions are pending exactly in their wait states, one at a time,  *)
(* so an answer can neither be missing nor act on a superseded question.   *)
PendingMatchesWait ==
    Active => /\ Cardinality(ctl.approvals) =
                     IF ctl.rsm = "WAITING_FOR_APPROVAL" THEN 1 ELSE 0
              /\ ctl.decision <=> ctl.rsm = "WAITING_FOR_USER_DECISION"

(* Every follow-up message a run accepted reaches its prompt once and in   *)
(* order, or is still queued: nothing is dropped, doubled or swapped by    *)
(* the safe points of apply_soft_steer_if_pending.                         *)
SteersKeptInOrder ==
    Active => ctl.delivered \o ctl.steers = [i \in 1..ctl.accepted |-> i]

(* A run that completes has put every accepted follow-up message to the    *)
(* model: no answer is taken as final over the user's objection.           *)
CompletedRunHeardEverySteer ==
    ctl.rsm = "COMPLETED" => Len(ctl.delivered) = ctl.accepted

(* max_iterations bounds what a run sends, the hidden compaction requests  *)
(* that run_next_iteration does not count included: each of them uses up   *)
(* the report of an agent reply and leaves room for a further iteration,   *)
(* whatever mix of replies, steers, approvals and retries leads to it.     *)
RequestsAreBounded ==
    MaxIterations > 0 => ctl.iter + ctl.compactions <= 2 * MaxIterations - 1

(* In a run, the compaction flag stands for a hidden request on its way;   *)
(* otherwise the next ordinary answer is stored as the summary of the      *)
(* conversation.                                                           *)
CompactionFlagMeansRequest ==
    Active /\ ctl.midRun => \E req \in inflight \cup QueuedRequests :
                              req.kind = "compaction" /\ req.run = ctl.run

(* A row says "running" while its run is active and stored, and after that *)
(* only if its final write failed: another run neither takes over such a   *)
(* row nor leaves one behind.  A run that is over has one ending, and a    *)
(* final row agrees with it.                                               *)
RowsFollowRuns ==
    \A r \in Runs :
        /\ ctl.store[r] = "running" <=>
               (ctl.runId = r /\ Active) \/ r \in ctl.unrecorded
        /\ Len(ctl.endings[r]) = IF r < ctl.run \/ (r = ctl.run /\ ~Active) THEN 1 ELSE 0
        /\ ctl.store[r] \in {"completed", "stopped"} =>
               ctl.store[r] = StatusOf(ctl.endings[r][1])

(* The controller implements the lifecycle it promises.                    *)
Lifecycle == INSTANCE RunLifecycle
    WITH started <- ctl.run,
         active <- IF Active THEN ctl.run ELSE 0,
         endings <- ctl.endings,
         store <- ctl.store,
         unrecorded <- ctl.unrecorded

ImplementsLifecycle == Lifecycle!LifecycleSpec

(* A run that is working ends or asks the user something.                  *)
RunSettles == Active ~> (~Active \/ ctl.rsm \in UserWaits)

(* A follow-up message is delivered, unless the run ends first or waits    *)
(* for a decision of the user (which delivers it when answered).           *)
SteerIsDelivered ==
    ctl.steers # <<>> ~>
        \/ ctl.steers = <<>>
        \/ ~Active
        \/ ctl.rsm = "WAITING_FOR_USER_DECISION"
=============================================================================
