------------------------ MODULE AgentDockProperties -------------------------
(***************************************************************************)
(* What the dock is expected to do with the requests a user makes.         *)
(***************************************************************************)
EXTENDS AgentDock

Made == 1..dock.made

(* No request vanishes: what the user asked for is queued, deferred, on    *)
(* its way to the controller, running, has run, or was given up visibly    *)
(* (stopped, cleared, failed to load).  start() of the controller returns  *)
(* silently while a run is active, so every path to it must know that none *)
(* is: clicks, posted calls and the end of a compaction.                   *)
InPosted(r) == \E i \in DOMAIN dock.posted : dock.posted[i].req = r
InStarting(r) == \E i \in DOMAIN dock.starting : dock.starting[i].req = r
IsActive(r) == Running(dock) /\ dock.active.req = r

NoRequestVanishes ==
    \A r \in Made : \/ r \in Held(dock) \cup dock.ended \cup dock.discarded
                    \/ InPosted(r) \/ InStarting(r) \/ IsActive(r)

(* A request runs at most once, and never after it was given up, though    *)
(* it passes through the queue, a deferral and a posted call; and one      *)
(* compaction is all that is run ahead of it, also if the compaction       *)
(* itself reports usage over the threshold.                                *)
RunsAtMostOnce ==
    \A r \in Requests :
        /\ dock.begun[r] <= 1
        /\ r \in dock.discarded => dock.begun[r] = 0
        /\ dock.compacted[r] <= 1

(* The user can stop whatever is running, and nothing else: the button is  *)
(* set by the starts, the ends and the reloads of a session, not by the    *)
(* state of the controller.                                                *)
StopMatchesRun == dock.stopEnabled <=> Running(dock) \/ dock.starting # <<>>

(* Requests that wait go on by themselves.  After a completed run the next *)
(* queued request is started; a request put off behind a compaction runs   *)
(* after it or is given up with it.                                        *)
WaitingRequestsGoOn ==
    /\ (dock.rsm = "COMPLETED" /\ dock.queue # <<>>)
           ~> (dock.rsm # "COMPLETED" \/ dock.queue = <<>>)
    /\ \A r \in Requests :
           (dock.deferred = r) ~> (dock.begun[r] > 0 \/ r \in dock.discarded)

=============================================================================
