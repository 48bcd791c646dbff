----------------------- MODULE CompletionSessionProofs -----------------------
(***************************************************************************)
(* The session's safety, for any number of requests, cancellations and     *)
(* backend threads.  The invariant says, beside the types,                 *)
(*   Places: where a thread can be, and with which operation;              *)
(*   Told:   who is still going to cancel the backend's handle of a        *)
(*           cancelled operation, if nobody has;                           *)
(*   Ended:  that at most one thread carries the end of a request to the   *)
(*           consumer, after it ended the operation and before any other;  *)
(*   Fresh:  that a callback begun too late never gets past both checks.   *)
(***************************************************************************)
EXTENDS CompletionSessionProperties, TLAPS

Places ==
    /\ active = editor.op
    /\ started \subseteq {o \in Ops : o <= active}
    /\ editor.at # "idle" => editor.op \in Ops
    /\ editor.at \in CancelSteps => editor.target \in Ops /\ editor.target < editor.op
    /\ editor.at = "start" \/ editor.at \in CancelSteps => editor.op \notin started
    /\ canceler.at # "idle" => canceler.target \in Ops
    /\ editor.at \in {"check", "store", "recheck"} => editor.op \in started
    /\ \A r \in Reporters : reporter[r].at # "idle" =>
           reporter[r].op \in started /\ reporter[r].callback \in made[reporter[r].op]

WillTell(o) ==
    \/ editor.op = o /\ editor.at \in {"check", "store", "recheck"}
    \/ editor.target = o /\ editor.at \in {"read", "call"}
    \/ canceler.target = o /\ canceler.at \in {"read", "call"}

Told ==
    /\ \A o \in Ops : state[o] \in Final => EndedByBackend(o)
    /\ \A o \in started :
        /\ o \in attached \cup told \/ (editor.op = o /\ editor.at \in {"check", "store"})
        /\ o # active => state[o] \in Terminal \/ (editor.at = "exchange" /\ editor.target = o)
        /\ state[o] = "CANCELLED" => o \in told \/ EndedByBackend(o) \/ WillTell(o)

Carries(r, o) ==
    /\ reporter[r].op = o /\ reporter[r].callback \in Final
    /\ reporter[r].at \in {"current", "state", "forward"}

Ended ==
    /\ \A o \in Ops : ends[o] <= 1 /\ (ends[o] = 1 => state[o] \in Terminal)
    /\ \A r \in Reporters, o \in Ops : Carries(r, o) =>
           /\ ends[o] = 0 /\ state[o] \in Terminal
           /\ \A q \in Reporters : Carries(q, o) => q = r

Fresh ==
    /\ stale = {}
    /\ \A r \in Reporters : reporter[r].at # "idle" /\ ~ reporter[r].wanted =>
           /\ reporter[r].op # active \/ state[reporter[r].op] = "CANCELLED"
           /\ reporter[r].at = "state" => state[reporter[r].op] = "CANCELLED"
           /\ reporter[r].at # "forward"

IInv == SessionTypeOK /\ Places /\ Told /\ Ended /\ Fresh

USE SessionAssumption DEF SessionAssumption, Ops, NoOp, Final, Terminal, OpStates, CancelSteps,
    EditorSteps, CancelerSteps, ReporterSteps

(* What a cancel does to the operations: it cancels one, or tells one.     *)
LEMMA CancelStepOps ==
    ASSUME SessionTypeOK, NEW at, NEW o \in Ops, NEW next, CancelStep(at, o, next)
    PROVE  /\ state' \in [Ops -> OpStates]
           /\ told' \in SUBSET Ops
           /\ \A p \in Ops : state'[p] = state[p] \/ state'[p] = "CANCELLED"
           /\ \A p \in Ops : state[p] \in Terminal => state'[p] \in Terminal
BY DEF SessionTypeOK, CancelStep, Exchange, ReadHandle, CallHandle

(* An operation that has ended stays so: the carriers of ends are not      *)
(* disturbed by a change of states and threads that keeps this.            *)
LEMMA EndedKept ==
    ASSUME SessionTypeOK, Ended, ends' = ends,
           \A o \in Ops : state[o] \in Terminal => state'[o] \in Terminal,
           \A r \in Reporters, o \in Ops : Carries(r, o)' => Carries(r, o)
    PROVE  Ended'
BY DEF SessionTypeOK, Ended

(* Nothing has been requested.                                             *)
LEMMA InitIInv == ASSUME SessionInit PROVE IInv
BY DEF SessionInit, IInv, SessionTypeOK, Places, Told, Ended, Fresh, Carries, AwayFromSession

(* A new request.                                                          *)
LEMMA RequestIInv == ASSUME IInv, Request PROVE IInv'
<1>1. SessionTypeOK'
  BY DEF IInv, SessionTypeOK, Places, Request
<1>2. Places'
  BY DEF IInv, SessionTypeOK, Places, Request
<1>3. Told'
  BY DEF IInv, SessionTypeOK, Places, Told, WillTell, EndedByBackend, Request
<1>4. Ended'
  BY DEF IInv, SessionTypeOK, Places, Ended, Carries, Request
<1>5. Fresh'
  BY DEF IInv, SessionTypeOK, Places, Fresh, Request
<1> QED
  BY <1>1, <1>2, <1>3, <1>4, <1>5 DEF IInv

(* The editor cancels the operation before.                                *)
LEMMA CancelPreviousIInv == ASSUME IInv, CancelPrevious PROVE IInv'
<1>1. SessionTypeOK'
  <2>1. PICK next \in {"read", "call", "done"} :
                /\ CancelStep(editor.at, editor.target, next)
                /\ editor' = IF next = "done"
                             THEN [editor EXCEPT !.at = "start", !.target = NoOp]
                             ELSE [editor EXCEPT !.at = next]
    BY DEF CancelPrevious
  <2>2. editor.target \in Ops
    BY <2>1 DEF IInv, Places, CancelStep
  <2>3. state' \in [Ops -> OpStates] /\ told' \in SUBSET Ops
    BY <2>1, <2>2, CancelStepOps DEF IInv
  <2>4. editor' \in [at : EditorSteps, op : Ops \cup {NoOp},
                     target : Ops \cup {NoOp}]
    BY <2>1 DEF IInv, SessionTypeOK
  <2> QED
    BY <2>3, <2>4 DEF IInv, SessionTypeOK, CancelPrevious
<1>2. Places'
  BY DEF IInv, SessionTypeOK, Places, CancelPrevious, CancelStep, Exchange, ReadHandle, CallHandle
<1>3. Told'
  BY DEF IInv, SessionTypeOK, Places, Told, WillTell, EndedByBackend, CancelPrevious, CancelStep, Exchange, ReadHandle, CallHandle
<1>4. Ended'
  <2>1. PICK next \in {"read", "call", "done"} : CancelStep(editor.at, editor.target, next)
    BY DEF CancelPrevious
  <2>2. editor.target \in Ops
    BY <2>1 DEF IInv, Places, CancelStep
  <2>3. \A o \in Ops : state[o] \in Terminal => state'[o] \in Terminal
    BY <2>1, <2>2, CancelStepOps DEF IInv
  <2>4. ends' = ends /\ reporter' = reporter
    BY DEF CancelPrevious
  <2>5. \A r \in Reporters, o \in Ops : Carries(r, o)' => Carries(r, o)
    BY <2>4 DEF Carries
  <2> QED
    BY <2>3, <2>4, <2>5, EndedKept DEF IInv
<1>5. Fresh'
  BY DEF IInv, SessionTypeOK, Places, Fresh, CancelPrevious, CancelStep, Exchange, ReadHandle, CallHandle
<1> QED
  BY <1>1, <1>2, <1>3, <1>4, <1>5 DEF IInv

(* The backend starts.                                                     *)
LEMMA StartBackendIInv == ASSUME IInv, StartBackend PROVE IInv'
<1>1. SessionTypeOK'
  BY DEF IInv, SessionTypeOK, Places, StartBackend, EditorTo
<1>2. Places'
  BY DEF IInv, SessionTypeOK, Places, StartBackend, EditorTo
<1>3. Told'
  <2>1. \A o \in Ops : (state[o] \in Final => EndedByBackend(o))'
    BY DEF IInv, Told, EndedByBackend, StartBackend
  <2>2. ASSUME NEW o \in started'
        PROVE  (/\ o \in attached \cup told \/ (editor.op = o /\ editor.at \in {"check", "store"})
                /\ o # active => state[o] \in Terminal \/ (editor.at = "exchange" /\ editor.target = o)
                /\ state[o] = "CANCELLED" => o \in told \/ EndedByBackend(o) \/ WillTell(o))'
    <3>1. CASE o = editor.op
      BY <3>1 DEF IInv, SessionTypeOK, Places, StartBackend, EditorTo, WillTell
    <3>2. CASE o \in started /\ o # editor.op
      BY <3>2 DEF IInv, SessionTypeOK, Places, Told, WillTell, EndedByBackend, StartBackend, EditorTo
    <3> QED
      BY <3>1, <3>2, <2>2 DEF StartBackend
  <2> QED
    BY <2>1, <2>2 DEF Told
<1>4. Ended'
  BY DEF IInv, SessionTypeOK, Places, Ended, Carries, StartBackend, EditorTo
<1>5. Fresh'
  BY DEF IInv, SessionTypeOK, Places, Fresh, StartBackend, EditorTo
<1> QED
  BY <1>1, <1>2, <1>3, <1>4, <1>5 DEF IInv

(* First look at the new operation.                                        *)
LEMMA CheckCancelledIInv == ASSUME IInv, CheckCancelled PROVE IInv'
<1>1. SessionTypeOK'
  <2>1. editor' \in [at : EditorSteps, op : Ops \cup {NoOp}, target : Ops \cup {NoOp}]
    BY DEF IInv, SessionTypeOK, CheckCancelled, EditorTo
  <2>2. told' \in SUBSET Ops
    BY DEF IInv, SessionTypeOK, Places, CheckCancelled
  <2> QED
    BY <2>1, <2>2 DEF IInv, SessionTypeOK, CheckCancelled
<1>2. Places'
  BY DEF IInv, SessionTypeOK, Places, CheckCancelled, EditorTo
<1>3. Told'
  BY DEF IInv, SessionTypeOK, Places, Told, WillTell, EndedByBackend, CheckCancelled, EditorTo
<1>4. Ended'
  BY DEF IInv, SessionTypeOK, Places, Ended, Carries, CheckCancelled, EditorTo
<1>5. Fresh'
  BY DEF IInv, SessionTypeOK, Places, Fresh, CheckCancelled, EditorTo
<1> QED
  BY <1>1, <1>2, <1>3, <1>4, <1>5 DEF IInv

(* The handle is attached.                                                 *)
LEMMA StoreHandleIInv == ASSUME IInv, StoreHandle PROVE IInv'
<1>1. SessionTypeOK'
  BY DEF IInv, SessionTypeOK, Places, StoreHandle, EditorTo
<1>2. Places'
  BY DEF IInv, SessionTypeOK, Places, StoreHandle, EditorTo
<1>3. Told'
  BY DEF IInv, SessionTypeOK, Places, Told, WillTell, EndedByBackend, StoreHandle, EditorTo
<1>4. Ended'
  BY DEF IInv, SessionTypeOK, Places, Ended, Carries, StoreHandle, EditorTo
<1>5. Fresh'
  BY DEF IInv, SessionTypeOK, Places, Fresh, StoreHandle, EditorTo
<1> QED
  BY <1>1, <1>2, <1>3, <1>4, <1>5 DEF IInv

(* Second look.                                                            *)
LEMMA RecheckCancelledIInv == ASSUME IInv, RecheckCancelled PROVE IInv'
<1>1. SessionTypeOK'
  BY DEF IInv, SessionTypeOK, Places, RecheckCancelled, EditorTo
<1>2. Places'
  BY DEF IInv, SessionTypeOK, Places, RecheckCancelled, EditorTo
<1>3. Told'
  BY DEF IInv, SessionTypeOK, Places, Told, WillTell, EndedByBackend, RecheckCancelled, EditorTo
<1>4. Ended'
  BY DEF IInv, SessionTypeOK, Places, Ended, Carries, RecheckCancelled, EditorTo
<1>5. Fresh'
  BY DEF IInv, SessionTypeOK, Places, Fresh, RecheckCancelled, EditorTo
<1> QED
  BY <1>1, <1>2, <1>3, <1>4, <1>5 DEF IInv

(* cancel_active() begins.                                                 *)
LEMMA CancelActiveIInv == ASSUME IInv, CancelActive PROVE IInv'
<1>1. SessionTypeOK'
  BY DEF IInv, SessionTypeOK, Places, CancelActive
<1>2. Places'
  BY DEF IInv, SessionTypeOK, Places, CancelActive
<1>3. Told'
  BY DEF IInv, SessionTypeOK, Places, Told, WillTell, EndedByBackend, CancelActive
<1>4. Ended'
  BY DEF IInv, SessionTypeOK, Places, Ended, Carries, CancelActive
<1>5. Fresh'
  BY DEF IInv, SessionTypeOK, Places, Fresh, CancelActive
<1> QED
  BY <1>1, <1>2, <1>3, <1>4, <1>5 DEF IInv

(* cancel_active() goes on.                                                *)
LEMMA CancelOtherIInv == ASSUME IInv, CancelOther PROVE IInv'
<1>1. SessionTypeOK'
  <2>1. PICK next \in {"read", "call", "done"} :
                /\ CancelStep(canceler.at, canceler.target, next)
                /\ canceler' = IF next = "done"
                             THEN [canceler EXCEPT !.at = "idle", !.target = NoOp]
                             ELSE [canceler EXCEPT !.at = next]
    BY DEF CancelOther
  <2>2. canceler.target \in Ops
    BY <2>1 DEF IInv, Places, CancelStep
  <2>3. state' \in [Ops -> OpStates] /\ told' \in SUBSET Ops
    BY <2>1, <2>2, CancelStepOps DEF IInv
  <2>4. canceler' \in [at : CancelerSteps, target : Ops \cup {NoOp},
                       calls : 0..MaxCancels]
    BY <2>1 DEF IInv, SessionTypeOK
  <2> QED
    BY <2>3, <2>4 DEF IInv, SessionTypeOK, CancelOther
<1>2. Places'
  BY DEF IInv, SessionTypeOK, Places, CancelOther, CancelStep, Exchange, ReadHandle, CallHandle
<1>3. Told'
  <2>1. PICK next \in {"read", "call", "done"} :
                /\ CancelStep(canceler.at, canceler.target, next)
                /\ canceler' = IF next = "done"
                               THEN [canceler EXCEPT !.at = "idle", !.target = NoOp]
                               ELSE [canceler EXCEPT !.at = next]
    BY DEF CancelOther
  <2>2. /\ active' = active /\ attached' = attached /\ started' = started
        /\ editor' = editor /\ made' = made
    BY DEF CancelOther
  <2>3. canceler.target \in Ops
    BY <2>1 DEF IInv, Places, CancelStep
  <2>4. CASE canceler.at = "exchange" /\ Exchange(canceler.target, next)
    BY <2>1, <2>2, <2>3, <2>4 DEF IInv, SessionTypeOK, Told, WillTell, EndedByBackend, Exchange
  <2>5. CASE canceler.at = "read" /\ ReadHandle(canceler.target, next)
    BY <2>1, <2>2, <2>3, <2>5 DEF IInv, SessionTypeOK, Told, WillTell, EndedByBackend, ReadHandle
  <2>6. CASE canceler.at = "call" /\ CallHandle(canceler.target, next)
    BY <2>1, <2>2, <2>3, <2>6 DEF IInv, SessionTypeOK, Told, WillTell, EndedByBackend, CallHandle
  <2> QED
    BY <2>1, <2>4, <2>5, <2>6 DEF CancelStep
<1>4. Ended'
  <2>1. PICK next \in {"read", "call", "done"} : CancelStep(canceler.at, canceler.target, next)
    BY DEF CancelOther
  <2>2. canceler.target \in Ops
    BY <2>1 DEF IInv, Places, CancelStep
  <2>3. \A o \in Ops : state[o] \in Terminal => state'[o] \in Terminal
    BY <2>1, <2>2, CancelStepOps DEF IInv
  <2>4. ends' = ends /\ reporter' = reporter
    BY DEF CancelOther
  <2>5. \A r \in Reporters, o \in Ops : Carries(r, o)' => Carries(r, o)
    BY <2>4 DEF Carries
  <2> QED
    BY <2>3, <2>4, <2>5, EndedKept DEF IInv
<1>5. Fresh'
  BY DEF IInv, SessionTypeOK, Places, Fresh, CancelOther, CancelStep, Exchange, ReadHandle, CallHandle
<1> QED
  BY <1>1, <1>2, <1>3, <1>4, <1>5 DEF IInv

(* The backend calls back.                                                 *)
LEMMA ReportIInv == ASSUME IInv, NEW r \in Reporters, Report(r) PROVE IInv'
<1>1. PICK o \in started, c \in Callbacks :
        /\ state' = [state EXCEPT ![o] = IF @ \in Terminal THEN @ ELSE c]
        /\ CallsBack(r, o, c, IF c \in Final /\ state[o] \in Terminal THEN "idle" ELSE "current")
  BY DEF Report
<1>2. o \in Ops /\ c \in OpStates
  BY DEF IInv, SessionTypeOK
<1>3. /\ active' = active /\ attached' = attached /\ started' = started /\ told' = told
      /\ editor' = editor /\ canceler' = canceler /\ ends' = ends /\ stale' = stale
  BY DEF Report
<1>4. /\ made' \in [Ops -> SUBSET Callbacks]
      /\ \A p \in Ops : made[p] \subseteq made'[p]
      /\ c \in made'[o]
  BY <1>1, <1>2 DEF CallsBack, IInv, SessionTypeOK
<1>5. /\ state' \in [Ops -> OpStates]
      /\ \A p \in Ops : state'[p] = state[p]
                            \/ (p = o /\ state[o] \notin Terminal /\ state'[o] = c)
  BY <1>1, <1>2 DEF IInv, SessionTypeOK
<1>6. /\ reporter' \in [Reporters -> [at : ReporterSteps, op : Ops \cup {NoOp},
                                      callback : Callbacks, wanted : BOOLEAN]]
      /\ \A q \in Reporters : q # r => reporter'[q] = reporter[q]
      /\ \/ reporter'[r] = AwayFromSession
         \/ /\ c \in Final => state[o] \notin Terminal /\ state'[o] = c
            /\ reporter'[r] = [at |-> "current", op |-> o, callback |-> c, wanted |-> Wanted(o)]
  BY <1>1, <1>2 DEF CallsBack, AwayFromSession, Wanted, IInv, SessionTypeOK
<1>7. SessionTypeOK'
  BY <1>3, <1>4, <1>5, <1>6 DEF IInv, SessionTypeOK
<1>8. Places'
  <2>1. ASSUME NEW q \in Reporters, (reporter[q].at # "idle")'
        PROVE  (reporter[q].op \in started /\ reporter[q].callback \in made[reporter[q].op])'
    <3>1. CASE q = r
      BY <1>3, <1>4, <1>6, <2>1, <3>1 DEF AwayFromSession
    <3>2. CASE q # r
      <4>1. reporter[q].op \in started /\ reporter[q].callback \in made[reporter[q].op]
        BY <1>6, <2>1, <3>2 DEF IInv, Places
      <4>2. reporter[q].op \in Ops
        BY <4>1 DEF IInv, SessionTypeOK
      <4> QED
        BY <1>3, <1>4, <1>6, <3>2, <4>1, <4>2
    <3> QED
      BY <3>1, <3>2
  <2> QED
    BY <1>3, <2>1 DEF IInv, Places
<1>9. Told'
  <2>1. \A p \in Ops : (state[p] \in Final => EndedByBackend(p))'
    BY <1>2, <1>4, <1>5 DEF IInv, SessionTypeOK, Told, EndedByBackend
  <2> SUFFICES ASSUME NEW p \in started
               PROVE  (/\ p \in attached \cup told \/ (editor.op = p /\ editor.at \in {"check", "store"})
                       /\ p # active => state[p] \in Terminal \/ (editor.at = "exchange" /\ editor.target = p)
                       /\ state[p] = "CANCELLED" => p \in told \/ EndedByBackend(p) \/ WillTell(p))'
    BY <1>3, <2>1 DEF Told
  <2> QED
    BY <1>2, <1>3, <1>4, <1>5 DEF IInv, SessionTypeOK, Told, WillTell, EndedByBackend
<1>10. Ended'
  <2>1. \A p \in Ops : state[p] \in Terminal => state'[p] \in Terminal
    BY <1>5
  <2>2. CASE reporter'[r] = AwayFromSession
    <3>1. \A q \in Reporters, p \in Ops : Carries(q, p)' => Carries(q, p)
      BY <1>6, <2>2 DEF Carries, AwayFromSession
    <3> QED
      BY <1>3, <2>1, <3>1, EndedKept DEF IInv
  <2>3. CASE c \notin Final
    <3>1. \A q \in Reporters, p \in Ops : Carries(q, p)' => Carries(q, p)
      BY <1>6, <2>3 DEF Carries, AwayFromSession
    <3> QED
      BY <1>3, <2>1, <3>1, EndedKept DEF IInv
  <2>4. CASE c \in Final /\ reporter'[r] # AwayFromSession
    <3>1. state[o] \notin Terminal /\ state'[o] \in Terminal
      BY <1>6, <2>4
    <3>2. ends[o] = 0 /\ \A q \in Reporters : ~ Carries(q, o)
      BY <1>2, <3>1 DEF IInv, SessionTypeOK, Ended
    <3>3. \A q \in Reporters, p \in Ops :
             Carries(q, p)' => (p # o /\ Carries(q, p)) \/ (q = r /\ p = o)
      BY <1>6, <2>4, <3>2 DEF Carries, AwayFromSession
    <3> QED
      BY <1>2, <1>3, <2>1, <3>1, <3>2, <3>3 DEF IInv, SessionTypeOK, Ended
  <2> QED
    BY <2>2, <2>3, <2>4
<1>11. Fresh'
  <2> SUFFICES ASSUME NEW q \in Reporters,
                      (reporter[q].at # "idle" /\ ~ reporter[q].wanted)'
               PROVE  (/\ reporter[q].op # active \/ state[reporter[q].op] = "CANCELLED"
                       /\ reporter[q].at = "state" => state[reporter[q].op] = "CANCELLED"
                       /\ reporter[q].at # "forward")'
    BY <1>3 DEF IInv, Fresh
  <2>1. CASE q = r
    BY <1>2, <1>3, <1>5, <1>6, <2>1 DEF AwayFromSession, Wanted, Terminal
  <2>2. CASE q # r
    <3>1. reporter[q].op \in Ops
      BY <1>6, <2>2 DEF IInv, SessionTypeOK, Places
    <3> QED
      BY <1>3, <1>5, <1>6, <2>2, <3>1 DEF IInv, Fresh, Terminal
  <2> QED
    BY <2>1, <2>2
<1> QED
  BY <1>7, <1>8, <1>9, <1>10, <1>11 DEF IInv

(* Is the operation current?                                               *)
LEMMA CheckCurrentIInv == ASSUME IInv, NEW r \in Reporters, CheckCurrent(r) PROVE IInv'
<1>1. SessionTypeOK'
  <2>1. reporter' \in [Reporters -> [at : ReporterSteps, op : Ops \cup {NoOp},
                                    callback : Callbacks, wanted : BOOLEAN]]
    <3>1. reporter[r] \in [at : ReporterSteps, op : Ops \cup {NoOp},
                          callback : Callbacks, wanted : BOOLEAN]
      BY DEF IInv, SessionTypeOK
    <3>2. \A step \in ReporterSteps :
             [reporter[r] EXCEPT !.at = step]
                 \in [at : ReporterSteps, op : Ops \cup {NoOp},
                      callback : Callbacks, wanted : BOOLEAN]
      BY <3>1
    <3>3. AwayFromSession \in [at : ReporterSteps, op : Ops \cup {NoOp},
                              callback : Callbacks, wanted : BOOLEAN]
      BY DEF AwayFromSession
    <3> QED
      BY <3>2, <3>3 DEF IInv, SessionTypeOK, CheckCurrent, ReporterTo
  <2> QED
    BY <2>1 DEF IInv, SessionTypeOK, CheckCurrent
<1>2. Places'
  BY DEF IInv, SessionTypeOK, Places, CheckCurrent, ReporterTo, AwayFromSession
<1>3. Told'
  BY DEF IInv, SessionTypeOK, Places, Told, WillTell, EndedByBackend, CheckCurrent, ReporterTo, AwayFromSession
<1>4. Ended'
  BY DEF IInv, SessionTypeOK, Places, Ended, Carries, CheckCurrent, ReporterTo, AwayFromSession
<1>5. Fresh'
  BY DEF IInv, SessionTypeOK, Places, Fresh, CheckCurrent, ReporterTo, AwayFromSession
<1> QED
  BY <1>1, <1>2, <1>3, <1>4, <1>5 DEF IInv

(* Is it cancelled?                                                        *)
LEMMA CheckStateIInv == ASSUME IInv, NEW r \in Reporters, CheckState(r) PROVE IInv'
<1>1. SessionTypeOK'
  <2>1. reporter' \in [Reporters -> [at : ReporterSteps, op : Ops \cup {NoOp},
                                    callback : Callbacks, wanted : BOOLEAN]]
    <3>1. reporter[r] \in [at : ReporterSteps, op : Ops \cup {NoOp},
                          callback : Callbacks, wanted : BOOLEAN]
      BY DEF IInv, SessionTypeOK
    <3>2. \A step \in ReporterSteps :
             [reporter[r] EXCEPT !.at = step]
                 \in [at : ReporterSteps, op : Ops \cup {NoOp},
                      callback : Callbacks, wanted : BOOLEAN]
      BY <3>1
    <3>3. AwayFromSession \in [at : ReporterSteps, op : Ops \cup {NoOp},
                              callback : Callbacks, wanted : BOOLEAN]
      BY DEF AwayFromSession
    <3> QED
      BY <3>2, <3>3 DEF IInv, SessionTypeOK, CheckState, ReporterTo
  <2> QED
    BY <2>1 DEF IInv, SessionTypeOK, CheckState
<1>2. Places'
  BY DEF IInv, SessionTypeOK, Places, CheckState, ReporterTo, AwayFromSession
<1>3. Told'
  BY DEF IInv, SessionTypeOK, Places, Told, WillTell, EndedByBackend, CheckState, ReporterTo, AwayFromSession
<1>4. Ended'
  BY DEF IInv, SessionTypeOK, Places, Ended, Carries, CheckState, ReporterTo, AwayFromSession
<1>5. Fresh'
  BY DEF IInv, SessionTypeOK, Places, Fresh, CheckState, ReporterTo, AwayFromSession
<1> QED
  BY <1>1, <1>2, <1>3, <1>4, <1>5 DEF IInv

(* The consumer is called.                                                 *)
LEMMA ForwardIInv == ASSUME IInv, NEW r \in Reporters, Forward(r) PROVE IInv'
<1>1. SessionTypeOK'
  <2>1. reporter' \in [Reporters -> [at : ReporterSteps, op : Ops \cup {NoOp},
                                    callback : Callbacks, wanted : BOOLEAN]]
    BY DEF IInv, SessionTypeOK, Forward, ReporterTo, AwayFromSession
  <2>2. reporter[r].op \in Ops
    BY DEF IInv, SessionTypeOK, Places, Forward
  <2>3. ends' \in [Ops -> Nat]
    <3>1. \A p \in Ops : [ends EXCEPT ![p] = @ + 1] \in [Ops -> Nat]
      BY DEF IInv, SessionTypeOK
    <3> QED
      BY <2>2, <3>1 DEF IInv, SessionTypeOK, Forward
  <2>4. stale' \in SUBSET Ops
    BY <2>2 DEF IInv, SessionTypeOK, Forward
  <2> QED
    BY <2>1, <2>3, <2>4 DEF IInv, SessionTypeOK, Forward
<1>2. Places'
  BY DEF IInv, SessionTypeOK, Places, Forward, ReporterTo, AwayFromSession
<1>3. Told'
  BY DEF IInv, SessionTypeOK, Places, Told, WillTell, EndedByBackend, Forward, ReporterTo, AwayFromSession
<1>4. Ended'
  <2> DEFINE o == reporter[r].op
  <2>1. o \in Ops /\ state' = state
    BY DEF IInv, SessionTypeOK, Places, Forward
  <2>2. \A q \in Reporters, p \in Ops : Carries(q, p)' => Carries(q, p) /\ q # r
    BY DEF IInv, SessionTypeOK, Carries, Forward, ReporterTo, AwayFromSession
  <2>3. CASE reporter[r].callback \notin Final
    <3>1. ends' = ends
      BY <2>3 DEF Forward
    <3> QED
      BY <2>1, <2>2, <3>1, EndedKept DEF IInv
  <2>4. CASE reporter[r].callback \in Final
    <3>1. Carries(r, o)
      BY <2>4 DEF Carries, Forward
    <3>2. ends' = [ends EXCEPT ![o] = @ + 1] /\ ends \in [Ops -> Nat]
      BY <2>4 DEF IInv, SessionTypeOK, Forward
    <3>3. ends[o] = 0 /\ state[o] \in Terminal
      BY <2>1, <3>1 DEF IInv, Ended
    <3>4. \A q \in Reporters, p \in Ops : Carries(q, p)' => p # o
      BY <2>1, <2>2, <3>1 DEF IInv, Ended
    <3> HIDE DEF o
    <3>5. \A p \in Ops : ends'[p] = IF p = o THEN 1 ELSE ends[p]
      BY <2>1, <3>2, <3>3
    <3> QED
      BY <2>1, <2>2, <3>3, <3>4, <3>5 DEF IInv, Ended
  <2> QED
    BY <2>3, <2>4
<1>5. Fresh'
  BY DEF IInv, SessionTypeOK, Places, Fresh, Forward, ReporterTo, AwayFromSession
<1> QED
  BY <1>1, <1>2, <1>3, <1>4, <1>5 DEF IInv

(* Every step keeps the invariant.                                         *)
LEMMA NextIInv == ASSUME IInv, [SessionNext]_sessionVars PROVE IInv'
<1>1. CASE EditorNext
  BY <1>1, RequestIInv, CancelPreviousIInv, StartBackendIInv, CheckCancelledIInv,
     StoreHandleIInv, RecheckCancelledIInv DEF EditorNext
<1>2. CASE CancelActive \/ CancelOther
  BY <1>2, CancelActiveIInv, CancelOtherIInv
<1>3. ASSUME NEW r \in Reporters, Report(r) \/ Filter(r)
      PROVE  IInv'
  BY <1>3, ReportIInv, CheckCurrentIInv, CheckStateIInv, ForwardIInv DEF Filter
<1>4. CASE UNCHANGED sessionVars
  BY <1>4 DEF sessionVars, IInv, SessionTypeOK, Places, Told, WillTell, EndedByBackend,
     Ended, Carries, Fresh
<1> QED
  BY <1>1, <1>2, <1>3, <1>4 DEF SessionNext

(* The session of completion_session.cpp stays in its types.               *)
THEOREM SessionTypes == SessionSpec => []SessionTypeOK
<1>1. IInv => SessionTypeOK
  BY DEF IInv
<1> QED
  BY <1>1, InitIInv, NextIInv, PTL DEF SessionSpec

(* One request has one end for its consumer, whatever the backend's        *)
(* threads answer (mark_completed and mark_failed decide).                 *)
THEOREM OneEnd == SessionSpec => []OneEndPerRequest
<1>1. IInv => OneEndPerRequest
  BY DEF IInv, Ended, OneEndPerRequest
<1> QED
  BY <1>1, InitIInv, NextIInv, PTL DEF SessionSpec

(* An operation that was superseded or cancelled has cost the backend its  *)
(* handle: cancel() and set_backend_operation() between them miss none.    *)
THEOREM AbandonedTold == SessionSpec => []AbandonedIsTold
<1>1. IInv => AbandonedIsTold
  BY DEF IInv, SessionTypeOK, Told, WillTell, AbandonedIsTold, AtRest
<1> QED
  BY <1>1, InitIInv, NextIInv, PTL DEF SessionSpec

(* What the backend begins to say of an operation that was cancelled or    *)
(* superseded does not reach the consumer (should_forward).                *)
THEOREM NothingStale == SessionSpec => []NothingStaleBegins
<1>1. IInv => NothingStaleBegins
  BY DEF IInv, Fresh, NothingStaleBegins
<1> QED
  BY <1>1, InitIInv, NextIInv, PTL DEF SessionSpec
=============================================================================
