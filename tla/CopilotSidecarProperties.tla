---------------------- MODULE CopilotSidecarProperties ----------------------
(***************************************************************************)
(* What copilot-sidecar.js is expected to guarantee.                       *)
(***************************************************************************)
EXTENDS CopilotSidecar, Functions

Unfinished(r) == req[r].pc \notin {"idle", "done"}

(* The reusable session is never one that was destroyed or replaced,       *)
(* though sessions are destroyed from three places, two of them under the  *)
(* lock and one outside.                                                   *)
ReusableIsOpen ==
    reusable.session # NoSession => sessions[reusable.session].status = "open"

(* Every open session is the reusable one or will be cleaned up by an      *)
(* unfinished request: none is left behind, whatever is cancelled or fails *)
(* on the way.                                                             *)
NoSessionLeak ==
    \A s \in Sessions : sessions[s].status = "open" =>
        \/ reusable.session = s
        \/ \E r \in Requests : Unfinished(r) /\ req[r].lease = s

(* A request the sidecar has not been told to cancel is answered, once,    *)
(* before it is forgotten.                                                 *)
DoneIsAnswered ==
    \A r \in Requests :
        /\ req[r].answers <= 1
        /\ req[r].pc = "done" /\ ~req[r].cancelled => req[r].answers = 1

(* Requests after r that have resumed, under their own key, the SDK        *)
(* session that r has.                                                     *)
ResumedUnder(r) ==
    {q \in Requests : /\ q > r
                      /\ sessions[q].status # "none"
                      /\ sessions[q].id = sessions[req[r].session].id}

(* A prompt is processed under the model, effort, limit and system prompt  *)
(* of its own request, unless a later request resumed the session under    *)
(* it: the last request, the one a plugin that asks once at a time waits   *)
(* for, always gets its own.                                               *)
PromptMeetsItsKey ==
    \A r \in Requests : req[r].pc = "waiting" /\ ResumedUnder(r) = {} =>
        options[sessions[req[r].session].id] = req[r].key

(* Nobody waits for ever: an unfinished request is queued as a microtask,  *)
(* awaits the SDK, or is in line behind a holder of the lock that does,    *)
(* also when what the holder does under the lock fails or it is cancelled. *)
Moves(r) == req[r].pc \in External \/ r \in Range(micro)

NobodyStalls ==
    \A r \in Requests : Unfinished(r) =>
        \/ Moves(r)
        \/ r \in Range(lock) /\ Moves(Head(lock))

(* The session of a request the plugin waits for is not destroyed or       *)
(* replaced before its prompt ends: the request has it to itself, though   *)
(* an earlier, cancelled request may still clean up after itself.          *)
WantedSessionIsOpen ==
    \A r \in wanted : req[r].pc = "waiting" =>
        sessions[req[r].session].status = "open"
=============================================================================
