---------------------------- MODULE RunLifecycle ----------------------------
(***************************************************************************)
(* What the controller promises about runs, whatever the provider, the     *)
(* tools, the user and the chat database do:                               *)
(*   - at most one run is active at a time;                                *)
(*   - a run ends once, with one verdict, which `stopped' announces;       *)
(*   - a run stored in the chat database is "running" there exactly while  *)
(*     it is active, and the step that ends the run writes the matching    *)
(*     final status.  A run whose storage failed while it was being set up *)
(*     is recorded as "error" and goes on without storage.                 *)
(* A final write may fail.  Then the row says "running" for ever, and that *)
(* is all that comes of it: later runs begin, end and are stored as usual. *)
(***************************************************************************)
EXTENDS Naturals, Sequences, RunStateMachine

CONSTANT MaxRuns   \* number of runs a behaviour may start

VARIABLES
    started,    \* number of runs started so far
    active,     \* the active run, 0 when there is none
    endings,    \* endings[r]: the verdicts `stopped' announced for run r
    store,      \* store[r]: status of run r's row in the chat database
    unrecorded  \* runs whose final status could not be written

lifecycleVars == <<started, active, endings, store, unrecorded>>

Runs == 1..MaxRuns

LifecycleInit ==
    /\ started = 0
    /\ active = 0
    /\ endings = [r \in Runs |-> <<>>]
    /\ store = [r \in Runs |-> "absent"]
    /\ unrecorded = {}

(* The run takes the next row.                                             *)
NewRow(row, lost) ==
    /\ active = 0
    /\ started < MaxRuns
    /\ started' = started + 1
    /\ store' = [store EXCEPT ![started + 1] = row]
    /\ unrecorded' = IF lost THEN unrecorded \cup {started + 1} ELSE unrecorded

(* A run begins and, at once or later, ends: see EndRun.  lost: its        *)
(* storage was given up and the row could not be corrected.                *)
BeginRun(row, lost) ==
    /\ lost => row = "running"
    /\ NewRow(row, lost)
    /\ active' = started + 1
    /\ UNCHANGED endings

EndRun(verdict, written) ==
    /\ active # 0
    /\ active' = 0
    /\ endings' = [endings EXCEPT ![active] = Append(@, verdict)]
    /\ store' = [store EXCEPT ![active] =
                    IF @ = "running" /\ active \notin unrecorded /\ written
                    THEN StatusOf(verdict) ELSE @]
    /\ unrecorded' = IF store[active] = "running" /\ ~written
                     THEN unrecorded \cup {active} ELSE unrecorded
    /\ UNCHANGED started

(* A run that fails before its first request is sent: both in one step.    *)
BeginAndEndRun(row) ==
    /\ NewRow(row, row = "running")
    /\ endings' = [endings EXCEPT ![started + 1] = Append(@, "FAILED")]
    /\ UNCHANGED active

LifecycleNext ==
    \/ \E row \in {"absent", "running", "error"} :
          BeginAndEndRun(row) \/ \E lost \in BOOLEAN : BeginRun(row, lost)
    \/ \E verdict \in Verdicts, written \in BOOLEAN : EndRun(verdict, written)

LifecycleSpec == LifecycleInit /\ [][LifecycleNext]_lifecycleVars
=============================================================================
