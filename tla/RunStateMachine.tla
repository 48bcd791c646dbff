-------------------------- MODULE RunStateMachine ---------------------------
(***************************************************************************)
(* The run lifecycle machine of agent_run_state_machine.cpp.               *)
(*                                                                         *)
(* The C++ class wraps a QStateMachine and flushes it after every trigger, *)
(* so a trigger is a synchronous function from the current state to the    *)
(* next one.  A trigger for which the current state declares no transition *)
(* is ignored: the functions below return their argument unchanged.        *)
(***************************************************************************)

(* States in which a run is active: is_running_state.                      *)
UserWaits == {"WAITING_FOR_APPROVAL", "WAITING_FOR_USER_DECISION",
              "WAITING_FOR_INLINE_DIFF_REVIEW"}

RunningStates == {"STARTING", "WAITING_FOR_PROVIDER"} \cup UserWaits

(* States a run ends in, and the verdicts a run can be given.              *)
Verdicts == {"COMPLETED", "FAILED", "STOPPED"}

States == {"IDLE"} \cup RunningStates \cup Verdicts

(* start_run: only a machine at rest accepts it.                           *)
StartRun(state) == IF state \in RunningStates THEN state ELSE "STARTING"

(* await_provider_response: every running state has this transition.       *)
AwaitProvider(state) ==
    IF state \in RunningStates THEN "WAITING_FOR_PROVIDER" ELSE state

(* await_user_approval, await_user_decision and await_inline_diff_review   *)
(* are declared on waiting_for_provider_state alone.                       *)
AwaitUser(state, wait) == IF state = "WAITING_FOR_PROVIDER" THEN wait ELSE state

(* Mutant: runs that wait for the user cannot end.                        *)
MarkOnlyAtProvider(state, verdict) ==
    IF state = "WAITING_FOR_PROVIDER" THEN verdict ELSE state

(* mark_completed, mark_failed and mark_stopped: add_terminal_transitions. *)
Mark(state, verdict) == IF state \in RunningStates THEN verdict ELSE state

(* Statuses of a run's row in the chat database, and the one that          *)
(* finalize_persistent_run's callers write together with each verdict.     *)
RowStatus == {"absent", "running", "completed", "error", "stopped"}

(* Mutant: the row stores the state's name.                               *)
StatusOfIsState(verdict) == verdict

StatusOf(verdict) == CASE verdict = "COMPLETED" -> "completed"
                       [] verdict = "STOPPED"   -> "stopped"
                       [] OTHER                 -> "error"
=============================================================================
