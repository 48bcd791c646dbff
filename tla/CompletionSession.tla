-------------------------- MODULE CompletionSession --------------------------
(***************************************************************************)
(* lib/qompi completion_session.cpp: the latest-wins session of one        *)
(* editor, as its mutexes and atomics let threads interleave.              *)
(*                                                                         *)
(* The editor's thread makes requests, each of which cancels the one       *)
(* before; a second thread cancels whatever is active; reporters, the      *)
(* threads of the backend, call the filtering sink.  A step is one atomic  *)
(* access, one section under a lock, or one call out of the library.       *)
(***************************************************************************)
EXTENDS Naturals, FiniteSets

CONSTANTS
    MaxRequests,   \* bound: requests made in the session
    MaxCancels,    \* bound: calls of cancel_active()
    Callbacks,     \* bound: callbacks of the sink, each made once for a request
    Reporters      \* backend threads

Final == {"COMPLETED", "FAILED"}

ASSUME SessionAssumption ==
    /\ MaxRequests \in Nat /\ MaxCancels \in Nat
    /\ Callbacks \subseteq {"STARTED", "STREAMING"} \cup Final
    /\ Final \subseteq Callbacks

(* An operation is named by its generation, the number of its request.     *)
Ops == 1..MaxRequests

NoOp == 0

Terminal == {"COMPLETED", "FAILED", "CANCELLED"}

OpStates == {"QUEUED", "STARTED", "STREAMING"} \cup Terminal

(* Where the threads that cancel may be.  The editor's thread is in        *)
(* request_completion, and cancels the previous operation on its way.      *)
CancelSteps == {"exchange", "read", "call"}

EditorSteps == {"idle", "start", "check", "store", "recheck"} \cup CancelSteps

CancelerSteps == {"idle"} \cup CancelSteps

ReporterSteps == {"idle", "current", "state", "forward"}

VARIABLES
    active,      \* active_operation of the session; its generation
    state,       \* current_state of the operations
    attached,    \* operations whose backend_operation is stored
    started,     \* operations the backend has started
    told,        \* operations whose backend handle was cancelled
    editor,      \* the editor's thread: step, its request, the op it cancels
    canceler,    \* the cancelling thread: step and op; calls made
    reporter,    \* the backend's threads: step, op, callback, and whether the
                 \*   op was wanted when the callback began
    made,        \* callbacks the backend has made, for each operation
    ends,        \* history: on_completed, on_failed that reached the consumer
    stale        \*   and operations with a callback begun too late that did

sessionVars == <<active, state, attached, started, told, editor, canceler,
                 reporter, made, ends, stale>>

SessionTypeOK ==
    /\ active \in Ops \cup {NoOp}
    /\ state \in [Ops -> OpStates]
    /\ attached \in SUBSET Ops /\ started \in SUBSET Ops /\ told \in SUBSET Ops
    /\ editor \in [at : EditorSteps, op : Ops \cup {NoOp}, target : Ops \cup {NoOp}]
    /\ canceler \in [at : CancelerSteps, target : Ops \cup {NoOp}, calls : 0..MaxCancels]
    /\ reporter \in [Reporters -> [at : ReporterSteps, op : Ops \cup {NoOp},
                                   callback : Callbacks, wanted : BOOLEAN]]
    /\ made \in [Ops -> SUBSET Callbacks]
    /\ ends \in [Ops -> Nat]
    /\ stale \in SUBSET Ops

AwayFromSession == [at |-> "idle", op |-> NoOp, callback |-> "COMPLETED", wanted |-> FALSE]

Wanted(o) == o = active /\ state[o] # "CANCELLED"

SessionInit ==
    /\ active = NoOp
    /\ state = [o \in Ops |-> "QUEUED"]
    /\ attached = {} /\ started = {} /\ told = {}
    /\ editor = [at |-> "idle", op |-> NoOp, target |-> NoOp]
    /\ canceler = [at |-> "idle", target |-> NoOp, calls |-> 0]
    /\ reporter = [r \in Reporters |-> AwayFromSession]
    /\ made = [o \in Ops |-> {}]
    /\ ends = [o \in Ops |-> 0]
    /\ stale = {}

-----------------------------------------------------------------------------
(* session_completion_operation_t::cancel(), by either thread: the state   *)
(* is exchanged whatever it was, the handle is read under the lock, and    *)
(* cancelled.  The thread goes on at `next'.                               *)

Exchange(o, next) ==
    /\ state' = [state EXCEPT ![o] = "CANCELLED"]
    /\ next = IF state[o] \in Terminal THEN "done" ELSE "read"
    /\ UNCHANGED told

ReadHandle(o, next) ==
    /\ next = IF o \in attached THEN "call" ELSE "done"
    /\ UNCHANGED <<state, told>>

CallHandle(o, next) ==
    /\ told' = told \cup {o}
    /\ next = "done"
    /\ UNCHANGED state

CancelStep(at, o, next) ==
    \/ at = "exchange" /\ Exchange(o, next)
    \/ at = "read" /\ ReadHandle(o, next)
    \/ at = "call" /\ CallHandle(o, next)

-----------------------------------------------------------------------------
(* request_completion() on the editor's thread.                            *)

EditorTo(step) == editor' = [editor EXCEPT !.at = step]

(* The new operation becomes the active one under the lock.                *)
Request ==
    /\ editor.at = "idle" /\ editor.op < MaxRequests
    /\ LET o == editor.op + 1 IN
       /\ active' = o
       /\ editor' = [at |-> IF active # NoOp THEN "exchange" ELSE "start",
                     op |-> o, target |-> active]
    /\ UNCHANGED <<state, attached, started, told, canceler, reporter, made, ends, stale>>

CancelPrevious ==
    /\ \E next \in {"read", "call", "done"} :
          /\ CancelStep(editor.at, editor.target, next)
          /\ editor' = IF next = "done"
                       THEN [editor EXCEPT !.at = "start", !.target = NoOp]
                       ELSE [editor EXCEPT !.at = next]
    /\ UNCHANGED <<active, attached, started, canceler, reporter, made, ends, stale>>

(* backend->start_completion(): the backend may call back from now on.     *)
(* Mutant: it is started for the operation just cancelled.                 *)
StartBackendForPrevious ==
    /\ editor.at = "start"
    /\ started' = started \cup {editor.op - 1}
    /\ EditorTo("check")
    /\ UNCHANGED <<active, state, attached, told, canceler, reporter, made, ends, stale>>

StartBackend ==
    /\ editor.at = "start"
    /\ started' = started \cup {editor.op}
    /\ EditorTo("check")
    /\ UNCHANGED <<active, state, attached, told, canceler, reporter, made, ends, stale>>

(* set_backend_operation(): an operation cancelled meanwhile is not        *)
(* attached, its handle is cancelled here.                                 *)
CheckCancelled ==
    /\ editor.at = "check"
    /\ IF state[editor.op] = "CANCELLED"
       THEN told' = told \cup {editor.op} /\ EditorTo("idle")
       ELSE EditorTo("store") /\ UNCHANGED told
    /\ UNCHANGED <<active, state, attached, started, canceler, reporter, made, ends, stale>>

(* Mutant: the state is not looked at again once the handle is stored.     *)
StoreHandleForgetsRecheck ==
    /\ editor.at = "store"
    /\ attached' = attached \cup {editor.op}
    /\ EditorTo("idle")
    /\ UNCHANGED <<active, state, started, told, canceler, reporter, made, ends, stale>>

StoreHandle ==
    /\ editor.at = "store"
    /\ attached' = attached \cup {editor.op}
    /\ EditorTo("recheck")
    /\ UNCHANGED <<active, state, started, told, canceler, reporter, made, ends, stale>>

RecheckCancelled ==
    /\ editor.at = "recheck"
    /\ told' = told \cup (IF state[editor.op] = "CANCELLED" THEN {editor.op} ELSE {})
    /\ EditorTo("idle")
    /\ UNCHANGED <<active, state, attached, started, canceler, reporter, made, ends, stale>>

-----------------------------------------------------------------------------
(* cancel_active() on another thread.                                      *)

CancelActive ==
    /\ canceler.at = "idle" /\ canceler.calls < MaxCancels
    /\ canceler' = [at |-> IF active # NoOp THEN "exchange" ELSE "idle",
                    target |-> active, calls |-> canceler.calls + 1]
    /\ UNCHANGED <<active, state, attached, started, told, editor, reporter, made, ends, stale>>

CancelOther ==
    /\ \E next \in {"read", "call", "done"} :
          /\ CancelStep(canceler.at, canceler.target, next)
          /\ canceler' = IF next = "done"
                         THEN [canceler EXCEPT !.at = "idle", !.target = NoOp]
                         ELSE [canceler EXCEPT !.at = next]
    /\ UNCHANGED <<active, attached, started, editor, reporter, made, ends, stale>>

-----------------------------------------------------------------------------
(* The filtering sink, on a thread of the backend.                         *)

ReporterTo(r, step) ==
    reporter' = [reporter EXCEPT ![r] = IF step = "idle" THEN AwayFromSession
                                        ELSE [@ EXCEPT !.at = step]]

(* The backend calls on_started, on_chunk, on_completed or on_failed, and  *)
(* mark_*() takes effect at once: transition_to() loops until it has set   *)
(* the state or found the operation ended.  A callback that ends the       *)
(* request is dropped in that case; the others go on in any.               *)
CallsBack(r, o, c, step) ==
    /\ reporter[r].at = "idle"
    /\ c \notin made[o]
    /\ made' = [made EXCEPT ![o] = @ \cup {c}]
    /\ reporter' = [reporter EXCEPT ![r] =
                       IF step = "idle" THEN AwayFromSession
                       ELSE [at |-> step, op |-> o, callback |-> c, wanted |-> Wanted(o)]]

(* Mutant: the result of mark_completed and mark_failed is not looked at.  *)
ReportKeepsGoing(r) ==
    /\ \E o \in started, c \in Callbacks :
          /\ state' = [state EXCEPT ![o] = IF @ \in Terminal THEN @ ELSE c]
          /\ CallsBack(r, o, c, "current")
    /\ UNCHANGED <<active, attached, started, told, editor, canceler, ends, stale>>

(* Mutant: transition_to() tries once, and may lose to another thread.     *)
ReportTriesOnce(r) ==
    /\ \E o \in started, c \in Callbacks :
          \/ /\ state[o] \notin Terminal
             /\ state' = [state EXCEPT ![o] = c]
             /\ CallsBack(r, o, c, "current")
          \/ /\ UNCHANGED state
             /\ CallsBack(r, o, c, IF c \in Final THEN "idle" ELSE "current")
    /\ UNCHANGED <<active, attached, started, told, editor, canceler, ends, stale>>

Report(r) ==
    /\ \E o \in started, c \in Callbacks :
          /\ state' = [state EXCEPT ![o] = IF @ \in Terminal THEN @ ELSE c]
          /\ CallsBack(r, o, c, IF c \in Final /\ state[o] \in Terminal
                                THEN "idle" ELSE "current")
    /\ UNCHANGED <<active, attached, started, told, editor, canceler, ends, stale>>

(* should_forward(): is_current() under the session's lock, then the state.*)
CheckCurrent(r) ==
    /\ reporter[r].at = "current"
    /\ ReporterTo(r, IF reporter[r].op = active THEN "state" ELSE "idle")
    /\ UNCHANGED <<active, state, attached, started, told, editor, canceler, made, ends, stale>>

(* Mutant: should_forward() asks only is_current().                        *)
CheckStateSkipped(r) ==
    /\ reporter[r].at = "state"
    /\ ReporterTo(r, "forward")
    /\ UNCHANGED <<active, state, attached, started, told, editor, canceler, made, ends, stale>>

CheckState(r) ==
    /\ reporter[r].at = "state"
    /\ ReporterTo(r, IF state[reporter[r].op] = "CANCELLED" THEN "idle" ELSE "forward")
    /\ UNCHANGED <<active, state, attached, started, told, editor, canceler, made, ends, stale>>

(* The consumer is called outside the lock.                                *)
Forward(r) ==
    /\ reporter[r].at = "forward"
    /\ LET o == reporter[r].op  c == reporter[r].callback IN
       /\ ends' = IF c \in Final THEN [ends EXCEPT ![o] = @ + 1] ELSE ends
       /\ stale' = stale \cup (IF reporter[r].wanted THEN {} ELSE {o})
    /\ ReporterTo(r, "idle")
    /\ UNCHANGED <<active, state, attached, started, told, editor, canceler, made>>

Filter(r) == CheckCurrent(r) \/ CheckState(r) \/ Forward(r)

EditorNext ==
    \/ Request \/ CancelPrevious \/ StartBackend
    \/ CheckCancelled \/ StoreHandle \/ RecheckCancelled

SessionNext ==
    \/ EditorNext
    \/ CancelActive \/ CancelOther
    \/ \E r \in Reporters : Report(r) \/ Filter(r)

SessionSpec == SessionInit /\ [][SessionNext]_sessionVars

(* Threads that are inside a call go on; the backend does answer.          *)
EndReport(r) == Report(r) /\ \E o \in Ops : (made'[o] \ made[o]) \cap Final # {}

SessionFairSpec ==
    /\ SessionSpec
    /\ WF_sessionVars(CancelPrevious \/ StartBackend \/ CheckCancelled
                          \/ StoreHandle \/ RecheckCancelled)
    /\ WF_sessionVars(CancelOther)
    /\ \A r \in Reporters : WF_sessionVars(Filter(r))
    /\ WF_sessionVars(\E r \in Reporters : EndReport(r))
=============================================================================
