--------------------- MODULE CompletionSessionProperties ---------------------
(***************************************************************************)
(* What the session promises its editor and its backend.                   *)
(***************************************************************************)
EXTENDS CompletionSession

(* completion_sink.h says of on_completed and on_failed that each is       *)
(* called once: one request has one end for its consumer, also when the    *)
(* answer, a timeout and a cancellation come from three threads at once.   *)
OneEndPerRequest == \A o \in Ops : ends[o] <= 1

(* Nobody is between the steps of a cancel or of attaching the handle.     *)
AtRest == editor.at = "idle" /\ canceler.at = "idle"

(* Of several requests only the last can still cost the backend work: at   *)
(* rest every other operation has ended, and the backend has been told     *)
(* unless it had ended the request itself.  The handle arrives after the   *)
(* operation is public, so a cancel may come before, while or after it is  *)
(* attached.                                                               *)
EndedByBackend(o) == made[o] \cap Final # {}

AbandonedIsTold ==
    AtRest => \A o \in started :
                  /\ o # active => state[o] \in Terminal
                  /\ state[o] = "CANCELLED" => o \in told \/ EndedByBackend(o)

(* Stale results: the filter looks at the session and at the operation,   *)
(* then calls the consumer outside the lock, so that a callback may arrive *)
(* after the cancellation it raced with; but none that the backend began   *)
(* when its operation was already cancelled or superseded.                 *)
NothingStaleBegins == stale = {}

(* No request is left open: it is answered, fails or is cancelled, and one *)
(* that is neither cancelled nor superseded is answered to its consumer.   *)
EveryRequestEnds ==
    \A o \in Ops : (o \in started) ~> (~ Wanted(o) \/ ends[o] > 0)
=============================================================================
