--------------------------- MODULE AgentDockProofs ---------------------------
(***************************************************************************)
(* What the dock keeps of the user's requests, for any number of them.     *)
(*                                                                         *)
(* Two orders of events carry the proofs: posted calls come before what    *)
(* happens later (PostedFirst), and the user does not click while MCP      *)
(* servers connect (~ClicksWhileConnecting).  Then at most one call is     *)
(* posted, at most one start() is suspended, neither while a run is        *)
(* active, and never both.  The second half proves from it that no request *)
(* is run twice.                                                           *)
(***************************************************************************)
EXTENDS AgentDockProperties, TLAPS

(* One thing at a time.                                                    *)
Quiet(d) ==
    /\ d.starting = <<>> \/ \E run \in Run : d.starting = <<run>>
    /\ d.posted = <<>> \/ \E p \in PostedCall : d.posted = <<p>>
    /\ d.starting = <<>> \/ d.posted = <<>>
    /\ Running(d) => d.starting = <<>> /\ d.posted = <<>>

(* Where a request that was made is kept.  A compaction that is run ahead  *)
(* of a request does not keep it: the deferral does.                       *)
Kept(d, r) ==
    \/ r \in ToSet(d.queue) \cup {d.deferred} \cup d.ended \cup d.discarded
    \/ \E i \in DOMAIN d.posted : d.posted[i].req = r
    \/ \E i \in DOMAIN d.starting : d.starting[i].req = r /\ ~d.starting[i].compaction
    \/ Running(d) /\ d.active.req = r /\ ~d.active.compaction

StopButton(d) == d.stopEnabled <=> Running(d) \/ d.starting # <<>>

DockInv(d) ==
    /\ d \in Dock
    /\ Quiet(d)
    /\ StopButton(d)
    /\ \A r \in 1..d.made : Kept(d, r)

-----------------------------------------------------------------------------
(* Sequences.                                                              *)

(* Appending to a queue adds one element.                                  *)
LEMMA SetOfAppend ==
    ASSUME NEW S, NEW s \in Seq(S), NEW x \in S
    PROVE  ToSet(Append(s, x)) = ToSet(s) \cup {x}
<1> DEFINE n == Len(s) + 1
           t == Append(s, x)
<1>1. /\ Len(s) \in Nat /\ DOMAIN s = 1..Len(s) /\ DOMAIN t = 1..n
      /\ \A i \in 1..Len(s) : t[i] = s[i]
      /\ t[n] = x
  OBVIOUS
<1>2. n \in 1..n /\ \A i \in 1..n : i = n \/ i \in 1..Len(s)
  BY <1>1
<1>3. 1..Len(s) \subseteq 1..n
  BY <1>1
<1> HIDE DEF n, t
<1>4. ToSet(t) \subseteq ToSet(s) \cup {x}
  BY <1>1, <1>2 DEF ToSet
<1>5. ToSet(s) \cup {x} \subseteq ToSet(t)
  BY <1>1, <1>2, <1>3 DEF ToSet
<1> QED
  BY <1>4, <1>5 DEF t

(* A queue is its head and the rest.                                       *)
LEMMA SetOfTail ==
    ASSUME NEW S, NEW s \in Seq(S), s # <<>>
    PROVE  /\ ToSet(s) = {Head(s)} \cup ToSet(Tail(s))
           /\ Head(s) \in S /\ Tail(s) \in Seq(S)
<1>1. Len(s) \in Nat \ {0} /\ DOMAIN s = 1..Len(s)
  OBVIOUS
<1>2. /\ Tail(s) \in Seq(S) /\ DOMAIN Tail(s) = 1..(Len(s) - 1)
      /\ \A i \in 1..(Len(s) - 1) : Tail(s)[i] = s[i + 1]
  BY <1>1
<1>3. Head(s) = s[1] /\ s[1] \in S
  BY <1>1
<1>4. \A i \in 1..Len(s) : i = 1 \/ i - 1 \in 1..(Len(s) - 1)
  BY <1>1
<1>5. ToSet(s) \subseteq {Head(s)} \cup ToSet(Tail(s))
  <2> SUFFICES ASSUME NEW i \in 1..Len(s), i # 1
               PROVE  s[i] \in ToSet(Tail(s))
    BY <1>1, <1>3 DEF ToSet
  <2> DEFINE j == i - 1
  <2>1. j \in 1..(Len(s) - 1) /\ j + 1 = i
    BY <1>4, <1>1
  <2> HIDE DEF j
  <2> QED
    BY <1>2, <2>1 DEF ToSet
<1>6. {Head(s)} \cup ToSet(Tail(s)) \subseteq ToSet(s)
  BY <1>1, <1>2, <1>3 DEF ToSet
<1> QED
  BY <1>2, <1>3, <1>5, <1>6

(* Nobody is in an empty queue.                                            *)
LEMMA SetOfEmpty == ToSet(<<>>) = {}
BY DEF ToSet

(* The queue of one element.                                               *)
LEMMA OneOf ==
    ASSUME NEW S, NEW x \in S
    PROVE  /\ Append(<<>>, x) = <<x>> /\ <<x>> \o <<>> = <<x>>
           /\ <<x>> \in Seq(S) /\ <<x>> # <<>> /\ Len(<<x>>) = 1
           /\ Head(<<x>>) = x /\ Tail(<<x>>) = <<>>
           /\ DOMAIN <<x>> = {1} /\ <<x>>[1] = x
<1>1. <<>> \in Seq(S)
  OBVIOUS
<1> QED
  BY <1>1

-----------------------------------------------------------------------------
(* The machine of the run.                                                 *)

(* What the dock relies on of the lifecycle machine: a start leads to a    *)
(* running state, a verdict out of it.                                     *)
LEMMA Machine ==
    /\ \A s \in States : s \notin RunningStates => AwaitProvider(StartRun(s)) = "WAITING_FOR_PROVIDER"
    /\ \A s \in RunningStates, v \in Verdicts : Mark(s, v) = v
    /\ Verdicts \subseteq States /\ RunningStates \subseteq States
    /\ \A v \in Verdicts : v \notin RunningStates
    /\ "WAITING_FOR_PROVIDER" \in RunningStates
BY DEF AwaitProvider, StartRun, Mark, States, RunningStates, UserWaits, Verdicts

(* At first everything is empty and nothing runs.                          *)
LEMMA InitDock == DockInit => DockInv(dock)
<1> SUFFICES ASSUME DockInit PROVE DockInv(dock)
  OBVIOUS
<1>1. dock \in Dock
  BY DockAssumption DEF DockInit, Dock, States, Run, NoRequest, Requests
<1>2. ~Running(dock)
  BY DEF DockInit, Running, RunningStates, UserWaits
<1>3. Quiet(dock) /\ StopButton(dock)
  BY <1>2 DEF DockInit, Quiet, StopButton
<1> QED
  BY <1>1, <1>3 DEF DockInit, DockInv

-----------------------------------------------------------------------------
(* Edits of the record: types first.                                       *)

(* Giving requests up keeps the record's shape.                            *)
LEMMA DiscardType ==
    ASSUME NEW d \in Dock, NEW requests
    PROVE  Discard(d, requests) \in Dock
BY DEF Discard, Dock

(* Posting the advance of the queue posts one call and nothing else.       *)
LEMMA PostNextEdit ==
    ASSUME NEW d \in Dock, d.posted = <<>>, NEW n, n = PostNext(d)
    PROVE  /\ n \in Dock
           /\ \E p \in PostedCall : n.posted = <<p>>
           /\ n = [d EXCEPT !.posted = n.posted]
<1> DEFINE p == [call |-> "next", req |-> NoRequest]
<1>1. p \in PostedCall
  BY DEF PostedCall
<1> HIDE DEF p
<1>2. n = [d EXCEPT !.posted = <<p>>]
  BY <1>1, OneOf DEF PostNext, p
<1>3. <<p>> \in Seq(PostedCall)
  BY <1>1, OneOf
<1> QED
  BY <1>1, <1>2, <1>3 DEF Dock

(* So does posting a start, of the request it names.                       *)
LEMMA PostStartEdit ==
    ASSUME NEW d \in Dock, d.posted = <<>>, NEW r \in Requests, NEW n, n = PostStart(d, r)
    PROVE  /\ n \in Dock
           /\ \E p \in PostedCall : n.posted = <<p>> /\ p.req = r
           /\ n = [d EXCEPT !.posted = n.posted]
<1> DEFINE p == [call |-> "start", req |-> r]
<1>1. p \in PostedCall /\ p.req = r
  BY DEF PostedCall
<1> HIDE DEF p
<1>2. n = [d EXCEPT !.posted = <<p>>]
  BY <1>1, OneOf DEF PostStart, p
<1>3. <<p>> \in Seq(PostedCall)
  BY <1>1, OneOf
<1> QED
  BY <1>1, <1>2, <1>3 DEF Dock

(* The end of a run keeps every request: that of the run has ended, one    *)
(* put off behind it is posted, or given up with it.                       *)
LEMMA EndRunInv ==
    ASSUME NEW d \in Dock, Quiet(d), Running(d), \A r \in 1..d.made : Kept(d, r),
           NEW verdict \in Verdicts,
           NEW n, n = EndRun(d, verdict)
    PROVE  DockInv(n) /\ n.rsm = verdict /\ n.stopEnabled = FALSE /\ n.starting = <<>>
           /\ n.made = d.made
<1> DEFINE over == [d EXCEPT !.rsm = Mark(@, verdict), !.stopEnabled = FALSE,
                             !.shown = FALSE,
                             !.ended = @ \cup (IF d.active.compaction THEN {}
                                               ELSE {d.active.req} \cap Requests)]
<1>1. /\ over \in Dock /\ over.rsm = verdict /\ ~Running(over)
      /\ over.stopEnabled = FALSE /\ over.starting = <<>> /\ over.posted = <<>>
      /\ over.made = d.made /\ over.queue = d.queue /\ over.deferred = d.deferred
      /\ over.discarded = d.discarded
      /\ over.ended = d.ended \cup (IF d.active.compaction THEN {}
                                    ELSE {d.active.req} \cap Requests)
  BY Machine DEF Dock, Running, Quiet
<1> HIDE DEF over
<1>2. \A r \in 1..d.made : r \in Requests
  BY DockAssumption DEF Dock, Requests
<1>3. \A r \in 1..d.made : r \in ToSet(over.queue) \cup {over.deferred} \cup over.ended
                                  \cup over.discarded
  BY <1>1, <1>2 DEF Kept, Quiet
<1>4. n = IF verdict = "COMPLETED" THEN AfterCompletion(over) ELSE AfterFailure(over)
  BY DEF EndRun, over
<1>5. ASSUME n \in Dock, n.rsm = verdict, n.stopEnabled = FALSE, n.starting = <<>>,
             n.posted = <<>> \/ \E p \in PostedCall : n.posted = <<p>>,
             n.made = d.made, \A r \in 1..d.made : Kept(n, r)
      PROVE  DockInv(n)
  BY <1>5, Machine DEF DockInv, Quiet, StopButton, Running
<1>6. CASE verdict # "COMPLETED"
  <2>1. n = [Discard(over, {over.deferred}) EXCEPT !.deferred = NoRequest]
    BY <1>4, <1>6 DEF AfterFailure
  <2>2. /\ n \in Dock /\ n.rsm = verdict /\ n.stopEnabled = FALSE /\ n.starting = <<>>
        /\ n.posted = <<>> /\ n.made = d.made
        /\ n.queue = over.queue /\ n.ended = over.ended
        /\ n.discarded = over.discarded \cup ({over.deferred} \cap Requests)
    BY <1>1, <2>1 DEF Dock, Discard
  <2>3. \A r \in 1..d.made : Kept(n, r)
    BY <1>2, <1>3, <2>2 DEF Kept
  <2> QED
    BY <1>5, <2>2, <2>3
<1>7. CASE verdict = "COMPLETED" /\ over.deferred = NoRequest
  <2>1. n = PostNext(over)
    BY <1>4, <1>7 DEF AfterCompletion
  <2>2. /\ n \in Dock /\ \E p \in PostedCall : n.posted = <<p>>
        /\ n = [over EXCEPT !.posted = n.posted]
    BY <1>1, <2>1, PostNextEdit
  <2>3. /\ n.rsm = verdict /\ n.stopEnabled = FALSE /\ n.starting = <<>>
        /\ n.made = d.made
        /\ n.queue = over.queue /\ n.ended = over.ended /\ n.deferred = over.deferred
        /\ n.discarded = over.discarded
    BY <1>1, <2>2 DEF Dock
  <2>4. \A r \in 1..d.made : Kept(n, r)
    BY <1>3, <2>3 DEF Kept
  <2> QED
    BY <1>5, <2>2, <2>3, <2>4
<1>8. CASE verdict = "COMPLETED" /\ over.deferred # NoRequest
  <2> DEFINE cleared == [over EXCEPT !.deferred = NoRequest, !.skip = TRUE]
             r0 == over.deferred
  <2>1. /\ cleared \in Dock /\ cleared.rsm = verdict /\ cleared.stopEnabled = FALSE
        /\ cleared.starting = <<>> /\ cleared.posted = <<>> /\ cleared.made = d.made
        /\ cleared.queue = over.queue /\ cleared.ended = over.ended
        /\ cleared.discarded = over.discarded
    BY <1>1 DEF Dock
  <2>2. n = PostStart(cleared, r0) /\ r0 \in Requests
    BY <1>1, <1>4, <1>8 DEF AfterCompletion, Dock
  <2> HIDE DEF cleared
  <2>3. /\ n \in Dock
        /\ \E p \in PostedCall : n.posted = <<p>> /\ p.req = r0
        /\ n = [cleared EXCEPT !.posted = n.posted]
    BY <2>1, <2>2, PostStartEdit
  <2>4. /\ n.rsm = verdict /\ n.stopEnabled = FALSE /\ n.starting = <<>>
        /\ n.made = d.made
        /\ n.queue = over.queue /\ n.ended = over.ended
        /\ n.discarded = over.discarded
    BY <2>1, <2>3 DEF Dock
  <2>5. \A r \in 1..d.made : Kept(n, r)
    <3>1. \E i \in DOMAIN n.posted : n.posted[i].req = r0
      BY <2>3, OneOf
    <3> QED
      BY <1>3, <2>4, <3>1 DEF Kept
  <2> QED
    BY <1>5, <2>3, <2>4, <2>5
<1> QED
  BY <1>6, <1>7, <1>8, <1>5, <1>1

-----------------------------------------------------------------------------
(* Starting a run.  The request it is for may be kept nowhere else.        *)

KeptOrOf(d, run) ==
    \A r \in 1..d.made : Kept(d, r) \/ (r = run.req /\ ~run.compaction)

AtRest(d) == d.starting = <<>> /\ d.posted = <<>> /\ ~Running(d)

(* The requests made so far are requests.                                  *)
LEMMA MadeAreRequests == ASSUME NEW d \in Dock PROVE \A r \in 1..d.made : r \in Requests
BY DockAssumption DEF Dock, Requests

(* A run begins, or fails at once.                                         *)
LEMMA BeginInv ==
    ASSUME NEW d \in Dock, AtRest(d), d.stopEnabled = TRUE,
           NEW run \in Run, KeptOrOf(d, run), NEW fault,
           NEW n, n = Begin(d, run, fault)
    PROVE  DockInv(n) /\ n.made = d.made
<1> DEFINE count(m, r, counted) == IF counted /\ r = run.req THEN m + 1 ELSE m
           begun == [r \in Requests |-> count(d.begun[r], r, ~run.compaction)]
           compacted == [r \in Requests |-> count(d.compacted[r], r, run.compaction)]
           b == [d EXCEPT !.rsm = AwaitProvider(StartRun(@)), !.active = run,
                          !.begun = begun, !.compacted = compacted]
<1>1. begun \in [Requests -> Nat] /\ compacted \in [Requests -> Nat]
  BY DEF Dock
<1>2. n = IF fault = "start" THEN EndRun(b, "FAILED") ELSE b
  BY DEF Begin
<1> HIDE DEF begun, compacted
<1>3. AwaitProvider(StartRun(d.rsm)) = "WAITING_FOR_PROVIDER"
  BY Machine DEF AtRest, Running, Dock
<1>4. /\ b \in Dock /\ b.rsm = "WAITING_FOR_PROVIDER" /\ b.active = run
      /\ b.starting = <<>> /\ b.posted = <<>> /\ b.stopEnabled = TRUE
      /\ b.made = d.made /\ b.queue = d.queue /\ b.deferred = d.deferred
      /\ b.ended = d.ended /\ b.discarded = d.discarded
  BY <1>1, <1>3, Machine DEF Dock, AtRest
<1> HIDE DEF b
<1>5. Running(b) /\ Quiet(b) /\ StopButton(b)
  BY <1>4, Machine DEF Running, Quiet, StopButton
<1>6. \A r \in 1..b.made : Kept(b, r)
  BY <1>4, <1>5 DEF Kept, KeptOrOf, AtRest
<1>7. "FAILED" \in Verdicts
  BY DEF Verdicts
<1>8. CASE fault = "start"
  BY <1>2, <1>4, <1>5, <1>6, <1>7, <1>8, EndRunInv
<1>9. CASE fault # "start"
  BY <1>2, <1>4, <1>5, <1>6, <1>9 DEF DockInv
<1> QED
  BY <1>8, <1>9

(* At rest the early return is not taken: the start is suspended, or a run *)
(* begins.                                                                 *)
LEMMA StartControllerInv ==
    ASSUME NEW d \in Dock, AtRest(d),
           NEW run \in Run, KeptOrOf(d, run), NEW fault,
           NEW n, n = StartController(d, run, fault)
    PROVE  DockInv(n) /\ n.made = d.made
<1> DEFINE ready == [d EXCEPT !.over = FALSE, !.stopEnabled = TRUE]
           started == [ready EXCEPT !.starting = <<run>> \o @]
<1>1. n = IF fault = "connecting" THEN started ELSE Begin(ready, run, fault)
  BY DEF StartController, AtRest
<1>2. /\ ready \in Dock /\ ready.starting = <<>> /\ ready.posted = <<>>
      /\ ready.rsm = d.rsm /\ ready.stopEnabled = TRUE
      /\ ready.made = d.made /\ ready.queue = d.queue /\ ready.deferred = d.deferred
      /\ ready.ended = d.ended /\ ready.discarded = d.discarded
  BY DEF Dock, AtRest
<1> HIDE DEF ready
<1>3. AtRest(ready) /\ KeptOrOf(ready, run)
  BY <1>2 DEF AtRest, KeptOrOf, Kept, Running
<1>4. CASE fault = "connecting"
  <2>1. <<run>> \in Seq(Run) /\ started = [ready EXCEPT !.starting = <<run>>]
    BY <1>2, OneOf
  <2>2. /\ started \in Dock /\ started.starting = <<run>> /\ started.posted = <<>>
        /\ started.rsm = d.rsm /\ started.stopEnabled = TRUE
        /\ started.made = d.made /\ started.queue = d.queue
        /\ started.deferred = d.deferred /\ started.ended = d.ended
        /\ started.discarded = d.discarded
    BY <1>2, <2>1 DEF Dock
  <2> HIDE DEF started
  <2>3. ~Running(started) /\ Quiet(started) /\ StopButton(started)
    BY <2>2, OneOf DEF AtRest, Running, Quiet, StopButton
  <2>4. /\ 1 \in DOMAIN started.starting /\ started.starting[1] = run
    BY <2>2, OneOf
  <2>5. \A r \in 1..started.made : Kept(started, r)
    BY <2>2, <2>4 DEF Kept, KeptOrOf, AtRest
  <2> QED
    BY <1>1, <1>4, <2>2, <2>3, <2>5 DEF DockInv
<1>5. CASE fault # "connecting"
  BY <1>1, <1>2, <1>3, <1>5, BeginInv
<1> QED
  BY <1>4, <1>5

(* The request is started, put behind a compaction, or given up.           *)
LEMMA StartRequestInv ==
    ASSUME NEW d \in Dock, AtRest(d), d.stopEnabled = FALSE,
           NEW run \in Run, KeptOrOf(d, run), NEW fault,
           NEW n, n = StartRequest(d, run, fault)
    PROVE  DockInv(n) /\ n.made = d.made
<1> DEFINE next == [d EXCEPT !.skip = FALSE]
           put == [next EXCEPT !.deferred = run.req]
           compaction == [run EXCEPT !.compaction = TRUE]
<1>1. CASE fault = "image" /\ ~run.compaction
  <2>1. n = Discard(d, {run.req})
    BY <1>1 DEF StartRequest
  <2>2. /\ n \in Dock /\ n.starting = <<>> /\ n.posted = <<>>
        /\ n.rsm = d.rsm /\ n.stopEnabled = FALSE
        /\ n.made = d.made /\ n.queue = d.queue /\ n.deferred = d.deferred
        /\ n.ended = d.ended /\ n.discarded = d.discarded \cup ({run.req} \cap Requests)
    BY <2>1 DEF Discard, Dock, AtRest
  <2>3. Quiet(n) /\ StopButton(n)
    BY <2>2 DEF AtRest, Running, Quiet, StopButton
  <2>4. \A r \in 1..n.made : Kept(n, r)
    BY <2>2, MadeAreRequests DEF Kept, KeptOrOf, AtRest
  <2> QED
    BY <2>2, <2>3, <2>4 DEF DockInv
<1>2. CASE ~(fault = "image" /\ ~run.compaction) /\ AutoCompactNeeded(d, run.compaction)
  <2>1. n = StartController(put, compaction, fault)
    BY <1>2 DEF StartRequest
  <2>2. /\ put \in Dock /\ put.starting = <<>> /\ put.posted = <<>>
        /\ put.rsm = d.rsm /\ put.made = d.made /\ put.queue = d.queue
        /\ put.deferred = run.req /\ put.ended = d.ended /\ put.discarded = d.discarded
    BY DEF Dock, AtRest, Run
  <2>3. compaction \in Run
    BY DEF Run
  <2>4. d.deferred = NoRequest
    BY <1>2 DEF AutoCompactNeeded
  <2> HIDE DEF put, compaction
  <2>5. \A r \in 1..d.made : r # NoRequest
    BY MadeAreRequests DEF Requests, NoRequest
  <2>6. \A r \in 1..d.made : Kept(put, r)
    BY <2>2, <2>4, <2>5 DEF Kept, KeptOrOf, AtRest
  <2>7. AtRest(put) /\ KeptOrOf(put, compaction)
    BY <2>2, <2>6 DEF AtRest, KeptOrOf, Running
  <2> QED
    BY <2>1, <2>2, <2>3, <2>7, StartControllerInv
<1>3. CASE ~(fault = "image" /\ ~run.compaction) /\ ~AutoCompactNeeded(d, run.compaction)
  <2>1. n = StartController(next, run, fault)
    BY <1>3 DEF StartRequest
  <2>2. /\ next \in Dock /\ next.starting = <<>> /\ next.posted = <<>>
        /\ next.rsm = d.rsm /\ next.made = d.made /\ next.queue = d.queue
        /\ next.deferred = d.deferred /\ next.ended = d.ended
        /\ next.discarded = d.discarded
    BY DEF Dock, AtRest
  <2> HIDE DEF next
  <2>3. AtRest(next) /\ KeptOrOf(next, run)
    BY <2>2 DEF AtRest, KeptOrOf, Kept, Running
  <2> QED
    BY <2>1, <2>2, <2>3, StartControllerInv
<1> QED
  BY <1>1, <1>2, <1>3

(* A request without a compaction ahead of it.                             *)
LEMMA PlainRun == ASSUME NEW r \in Requests
                  PROVE Plain(r) \in Run /\ Plain(r).req = r /\ ~Plain(r).compaction
BY DEF Plain, Run

(* Advancing the queue takes its head to a start, or leaves the queue      *)
(* alone.                                                                  *)
LEMMA MaybeStartInv ==
    ASSUME NEW d, DockInv(d), d.starting = <<>>, d.posted = <<>>, NEW fault,
           NEW n, n = MaybeStartNextQueuedRequest(d, fault)
    PROVE  DockInv(n)
<1>1. CASE Running(d) \/ d.queue = <<>>
  BY <1>1 DEF MaybeStartNextQueuedRequest
<1>2. CASE ~Running(d) /\ d.queue # <<>>
  <2> DEFINE r0 == Head(d.queue)
             rest == [d EXCEPT !.queue = Tail(@)]
  <2>1. d \in Dock /\ d.queue \in Seq(Requests) /\ d.stopEnabled \in BOOLEAN
    BY DEF DockInv, Dock
  <2>2. /\ r0 \in Requests /\ Tail(d.queue) \in Seq(Requests)
        /\ ToSet(d.queue) = {r0} \cup ToSet(Tail(d.queue))
    BY <1>2, <2>1, SetOfTail
  <2>3. n = StartRequest(rest, Plain(r0), fault)
    BY <1>2 DEF MaybeStartNextQueuedRequest
  <2>4. d.stopEnabled = FALSE
    BY <1>2, <2>1 DEF DockInv, StopButton
  <2>5. /\ rest \in Dock /\ rest.starting = <<>> /\ rest.posted = <<>>
        /\ rest.rsm = d.rsm /\ rest.stopEnabled = FALSE /\ rest.made = d.made
        /\ rest.queue = Tail(d.queue) /\ rest.deferred = d.deferred
        /\ rest.ended = d.ended /\ rest.discarded = d.discarded
    BY <2>1, <2>2, <2>4 DEF Dock
  <2> HIDE DEF r0, rest
  <2>6. AtRest(rest)
    BY <1>2, <2>5 DEF AtRest, Running
  <2>7. KeptOrOf(rest, Plain(r0))
    BY <1>2, <2>2, <2>5, PlainRun DEF KeptOrOf, Kept, DockInv
  <2> QED
    BY <2>2, <2>3, <2>5, <2>6, <2>7, PlainRun, StartRequestInv
<1> QED
  BY <1>1, <1>2

-----------------------------------------------------------------------------
(* Clearing the chat, and the stop button.                                 *)

(* Clearing the chat gives up every request that waits.                    *)
LEMMA ClearInv ==
    ASSUME NEW d, DockInv(d), NEW n, n = ClearChatState(d)
    PROVE  DockInv(n)
<1>1. d \in Dock
  BY DEF DockInv
<1> DEFINE given == Held(d) \cap Requests
<1>2. n = [[d EXCEPT !.discarded = @ \cup given]
             EXCEPT !.queue = <<>>, !.deferred = NoRequest,
                    !.skip = FALSE, !.over = FALSE, !.shown = FALSE]
  BY DEF ClearChatState, Discard
<1>3. <<>> \in Seq(Requests) /\ given \subseteq Requests
  OBVIOUS
<1> HIDE DEF given
<1>4. /\ n \in Dock /\ n.starting = d.starting /\ n.posted = d.posted
      /\ n.rsm = d.rsm /\ n.stopEnabled = d.stopEnabled /\ n.active = d.active
      /\ n.made = d.made /\ n.ended = d.ended
      /\ n.discarded = d.discarded \cup given
  BY <1>1, <1>2, <1>3 DEF Dock
<1>5. Quiet(n) /\ StopButton(n)
  BY <1>4 DEF DockInv, Quiet, StopButton, Running
<1>6. \A r \in 1..n.made : Kept(n, r)
  BY <1>1, <1>4, MadeAreRequests DEF DockInv, Kept, Held, Running, given
<1> QED
  BY <1>4, <1>5, <1>6 DEF DockInv

(* Stop ends the run there is, and gives up the deferred request.          *)
LEMMA StopInv ==
    ASSUME NEW d, DockInv(d), d.starting = <<>>, NEW n, n = StopClicked(d)
    PROVE  DockInv(n) /\ n.starting = <<>>
<1> DEFINE dropped == [Discard(d, {d.deferred}) EXCEPT !.deferred = NoRequest]
           left == IF Running(d) THEN EndRun(dropped, "STOPPED") ELSE dropped
<1>1. d \in Dock /\ n = [left EXCEPT !.stopEnabled = FALSE]
  BY DEF DockInv, StopClicked
<1>2. /\ dropped \in Dock /\ dropped.starting = <<>> /\ dropped.posted = d.posted
      /\ dropped.rsm = d.rsm /\ dropped.active = d.active
      /\ dropped.stopEnabled = d.stopEnabled
      /\ dropped.made = d.made /\ dropped.queue = d.queue /\ dropped.ended = d.ended
      /\ dropped.discarded = d.discarded \cup ({d.deferred} \cap Requests)
  BY <1>1 DEF Discard, Dock
<1>3. left = IF Running(d) THEN EndRun(dropped, "STOPPED") ELSE dropped
  OBVIOUS
<1> HIDE DEF dropped, left
<1>4. Quiet(dropped) /\ StopButton(dropped)
  BY <1>2 DEF DockInv, Quiet, StopButton, Running
<1>5. \A r \in 1..dropped.made : Kept(dropped, r)
  BY <1>1, <1>2, MadeAreRequests DEF DockInv, Kept, Running
<1>6. DockInv(left) /\ left.stopEnabled = FALSE /\ left.starting = <<>>
  <2>1. CASE Running(d)
    <3>1. Running(dropped) /\ "STOPPED" \in Verdicts
      BY <1>2, <2>1 DEF Running, Verdicts
    <3> QED
      BY <1>2, <1>3, <1>4, <1>5, <2>1, <3>1, EndRunInv
  <2>2. CASE ~Running(d)
    <3>1. dropped.stopEnabled \in BOOLEAN
      BY <1>2 DEF Dock
    <3> QED
      BY <1>2, <1>3, <1>4, <1>5, <2>2, <3>1 DEF DockInv, StopButton, Running
  <2> QED
    BY <2>1, <2>2
<1>7. n = left
  BY <1>1, <1>6 DEF DockInv, Dock
<1> QED
  BY <1>6, <1>7

(* An edit that moves no request and no run.                               *)
LEMMA SameRequests ==
    ASSUME NEW d, DockInv(d), NEW n \in Dock,
           n.starting = d.starting, n.posted = d.posted, n.queue = d.queue,
           n.deferred = d.deferred, n.made = d.made, n.ended = d.ended,
           n.discarded = d.discarded, n.active = d.active,
           n.stopEnabled = d.stopEnabled, Running(n) <=> Running(d)
    PROVE  DockInv(n)
BY DEF DockInv, Quiet, StopButton, Kept

-----------------------------------------------------------------------------
(* The events.                                                             *)

OneAtATime == PostedFirst /\ ~ClicksWhileConnecting

(* When the user may click, no call is posted and no start suspended.      *)
LEMMA ClickAtRest ==
    ASSUME OneAtATime, UserMayClick, DockInv(dock)
    PROVE  /\ dock \in Dock /\ dock.posted = <<>> /\ dock.starting = <<>>
           /\ ~Running(dock) => AtRest(dock) /\ dock.stopEnabled = FALSE
<1>1. dock \in Dock /\ dock.posted = <<>> /\ dock.starting = <<>>
  BY DEF OneAtATime, UserMayClick, LoopIsFree, DockInv
<1>2. dock.stopEnabled \in BOOLEAN
  BY <1>1 DEF Dock
<1> QED
  BY <1>1, <1>2 DEF AtRest, DockInv, StopButton

(* A new request takes the next number.                                    *)
LEMMA NextNumber ==
    ASSUME dock \in Dock, NextRequest \in Requests
    PROVE  /\ NextRequest \in 0..MaxRequests
           /\ \A r \in 1..NextRequest : r = NextRequest \/ r \in 1..dock.made
<1>1. dock.made \in Nat
  BY DockAssumption DEF Dock
<1> QED
  BY <1>1, DockAssumption DEF Requests, NextRequest

(* The user runs a request.                                                *)
LEMMA RunClickedInv ==
    ASSUME OneAtATime, DockInv(dock), OnRunClicked
    PROVE  DockInv(dock')
<1> DEFINE asked == [dock EXCEPT !.made = NextRequest]
<1>1. /\ dock \in Dock /\ AtRest(dock) /\ dock.stopEnabled = FALSE
      /\ NextRequest \in Requests
  BY ClickAtRest DEF OnRunClicked
<1>2. PICK fault \in Faults : dock' = StartRequest(asked, Plain(NextRequest), fault)
  BY DEF OnRunClicked
<1>3. /\ NextRequest \in 0..MaxRequests
      /\ \A r \in 1..NextRequest : r = NextRequest \/ r \in 1..dock.made
  BY <1>1, NextNumber
<1>4. /\ asked \in Dock /\ asked.starting = dock.starting /\ asked.posted = dock.posted
      /\ asked.rsm = dock.rsm /\ asked.stopEnabled = FALSE /\ asked.made = NextRequest
      /\ asked.queue = dock.queue /\ asked.deferred = dock.deferred
      /\ asked.ended = dock.ended /\ asked.discarded = dock.discarded
      /\ asked.active = dock.active
  BY <1>1, <1>3 DEF Dock
<1> HIDE DEF asked
<1>5. AtRest(asked)
  BY <1>1, <1>4 DEF AtRest, Running
<1>6. KeptOrOf(asked, Plain(NextRequest))
  BY <1>1, <1>3, <1>4, PlainRun DEF KeptOrOf, Kept, DockInv, Running
<1> QED
  BY <1>1, <1>2, <1>4, <1>5, <1>6, PlainRun, StartRequestInv

(* The user queues one.                                                    *)
LEMMA QueueClickedInv ==
    ASSUME OneAtATime, DockInv(dock), OnQueueClicked
    PROVE  DockInv(dock')
<1> DEFINE queued == [dock EXCEPT !.made = NextRequest, !.queue = Append(@, NextRequest)]
<1>1. /\ dock \in Dock /\ dock.posted = <<>> /\ dock.starting = <<>>
      /\ NextRequest \in Requests
  BY ClickAtRest DEF OnQueueClicked
<1>2. \/ dock' = queued
      \/ \E fault \in Faults : dock' = MaybeStartNextQueuedRequest(queued, fault)
  BY DEF OnQueueClicked
<1>3. /\ NextRequest \in 0..MaxRequests
      /\ \A r \in 1..NextRequest : r = NextRequest \/ r \in 1..dock.made
  BY <1>1, NextNumber
<1>4. dock.queue \in Seq(Requests)
  BY <1>1 DEF Dock
<1>5. /\ Append(dock.queue, NextRequest) \in Seq(Requests)
      /\ ToSet(Append(dock.queue, NextRequest)) = ToSet(dock.queue) \cup {NextRequest}
  BY <1>1, <1>4, SetOfAppend
<1>6. /\ queued \in Dock /\ queued.starting = dock.starting
      /\ queued.posted = dock.posted /\ queued.rsm = dock.rsm
      /\ queued.stopEnabled = dock.stopEnabled /\ queued.made = NextRequest
      /\ queued.queue = Append(dock.queue, NextRequest)
      /\ queued.deferred = dock.deferred /\ queued.ended = dock.ended
      /\ queued.discarded = dock.discarded /\ queued.active = dock.active
  BY <1>1, <1>3, <1>5 DEF Dock
<1> HIDE DEF queued
<1>7. Quiet(queued) /\ StopButton(queued)
  BY <1>6 DEF DockInv, Quiet, StopButton, Running
<1>8. \A r \in 1..queued.made : Kept(queued, r)
  BY <1>3, <1>5, <1>6 DEF DockInv, Kept, Running
<1>9. DockInv(queued)
  BY <1>6, <1>7, <1>8 DEF DockInv
<1> QED
  BY <1>1, <1>2, <1>6, <1>9, MaybeStartInv

(* The user asks for a compaction.                                         *)
LEMMA CompactInv ==
    ASSUME OneAtATime, DockInv(dock), OnCompactCommand
    PROVE  DockInv(dock')
<1> DEFINE run == [req |-> NoRequest, compaction |-> TRUE]
<1>1. dock \in Dock /\ AtRest(dock) /\ dock.stopEnabled = FALSE
  BY ClickAtRest DEF OnCompactCommand
<1>2. PICK fault \in Faults : dock' = StartRequest(dock, run, fault)
  BY DEF OnCompactCommand
<1>3. run \in Run
  BY DEF Run
<1> HIDE DEF run
<1>4. KeptOrOf(dock, run)
  BY DEF KeptOrOf, DockInv
<1> QED
  BY <1>1, <1>2, <1>3, <1>4, StartRequestInv

(* A run ends, by itself or with its review.                               *)
LEMMA EndsInv ==
    ASSUME DockInv(dock), RunEnds \/ ReviewEnds
    PROVE  DockInv(dock')
<1>1. PICK verdict \in Verdicts : dock' = EndRun(dock, verdict)
  BY DEF RunEnds, ReviewEnds, Verdicts
<1>2. Running(dock)
  BY DEF RunEnds, ReviewEnds, Running, RunningStates, UserWaits
<1> QED
  BY <1>1, <1>2, EndRunInv DEF DockInv

(* A run waits for the user, and goes on.                                  *)
LEMMA TurnsInv ==
    ASSUME DockInv(dock), RunAsks \/ UserAnswers \/ UserSteers
    PROVE  DockInv(dock')
<1>1. PICK state \in RunningStates, shown \in BOOLEAN :
          dock' = [dock EXCEPT !.rsm = state, !.shown = shown]
  <2>1. CASE RunAsks
    BY <2>1 DEF RunAsks, RunningStates
  <2>2. CASE UserAnswers
    BY <2>2, Machine DEF UserAnswers, Waiting, RunningStates, AwaitProvider
  <2>3. CASE UserSteers
    BY <2>3, Machine DEF UserSteers, RunningStates, AwaitProvider
  <2> QED
    BY <2>1, <2>2, <2>3
<1>2. Running(dock)
  BY DEF RunAsks, UserAnswers, UserSteers, AwaitUser, Waiting, Running, RunningStates
<1>3. dock \in Dock
  BY DEF DockInv
<1>4. /\ dock' \in Dock /\ dock'.starting = dock.starting /\ dock'.posted = dock.posted
      /\ dock'.queue = dock.queue /\ dock'.deferred = dock.deferred
      /\ dock'.made = dock.made /\ dock'.ended = dock.ended
      /\ dock'.discarded = dock.discarded /\ dock'.active = dock.active
      /\ dock'.stopEnabled = dock.stopEnabled /\ dock'.rsm = state
  BY <1>1, <1>3, Machine DEF Dock
<1>5. Running(dock')
  BY <1>4 DEF Running
<1> QED
  BY <1>2, <1>4, <1>5, SameRequests

(* A usage report arrives.                                                 *)
LEMMA UsageInv ==
    ASSUME DockInv(dock), OnProviderUsage
    PROVE  DockInv(dock')
<1>1. dock \in Dock /\ dock' = [dock EXCEPT !.over = TRUE]
  BY DEF DockInv, OnProviderUsage
<1>2. /\ dock' \in Dock /\ dock'.starting = dock.starting /\ dock'.posted = dock.posted
      /\ dock'.queue = dock.queue /\ dock'.deferred = dock.deferred
      /\ dock'.made = dock.made /\ dock'.ended = dock.ended
      /\ dock'.discarded = dock.discarded /\ dock'.active = dock.active
      /\ dock'.stopEnabled = dock.stopEnabled /\ dock'.rsm = dock.rsm
  BY <1>1 DEF Dock
<1>3. Running(dock') <=> Running(dock)
  BY <1>2 DEF Running
<1> QED
  BY <1>2, <1>3, SameRequests

(* Empty queues have their types.                                          *)
LEMMA NothingPosted == <<>> \in Seq(PostedCall) /\ <<>> \in Seq(Run)
OBVIOUS

(* The posted call is served.                                              *)
LEMMA ServeInv ==
    ASSUME DockInv(dock), ServePosted
    PROVE  DockInv(dock')
<1> DEFINE rest == [dock EXCEPT !.posted = Tail(@)]
<1>1. dock \in Dock /\ dock.posted # <<>> /\ dock.starting = <<>> /\ ~Running(dock)
  BY DEF DockInv, Quiet, ServePosted
<1>2. PICK p \in PostedCall : dock.posted = <<p>>
  BY <1>1 DEF DockInv, Quiet
<1>3. Head(dock.posted) = p /\ Tail(dock.posted) = <<>>
  BY <1>2, OneOf
<1>4. PICK fault \in Faults :
          \/ p.call = "start" /\ dock' = StartRequest(rest, Plain(p.req), fault)
          \/ p.call = "next" /\ dock' = MaybeStartNextQueuedRequest(rest, fault)
  BY <1>3 DEF ServePosted
<1>5. /\ rest \in Dock /\ rest.starting = <<>> /\ rest.posted = <<>>
      /\ rest.rsm = dock.rsm /\ rest.stopEnabled = dock.stopEnabled
      /\ rest.made = dock.made /\ rest.queue = dock.queue
      /\ rest.deferred = dock.deferred /\ rest.ended = dock.ended
      /\ rest.discarded = dock.discarded /\ rest.active = dock.active
  BY <1>1, <1>3, NothingPosted DEF Dock
<1>6. dock.stopEnabled \in BOOLEAN
  BY <1>1 DEF Dock
<1> HIDE DEF rest
<1>7. AtRest(rest) /\ Quiet(rest) /\ StopButton(rest) /\ rest.stopEnabled = FALSE
  BY <1>1, <1>5, <1>6 DEF AtRest, Quiet, StopButton, DockInv, Running
<1>8. \A r \in 1..rest.made : Kept(rest, r) \/ r = p.req
  BY <1>1, <1>2, <1>5, OneOf DEF Kept, DockInv
<1>9. CASE p.call = "start" /\ dock' = StartRequest(rest, Plain(p.req), fault)
  <2>1. p.req \in Requests
    BY <1>9 DEF PostedCall
  <2>2. KeptOrOf(rest, Plain(p.req))
    BY <1>8, <2>1, PlainRun DEF KeptOrOf
  <2> QED
    BY <1>5, <1>7, <1>9, <2>1, <2>2, PlainRun, StartRequestInv
<1>10. CASE p.call = "next" /\ dock' = MaybeStartNextQueuedRequest(rest, fault)
  <2>1. p.req = NoRequest
    BY <1>10 DEF PostedCall
  <2>2. \A r \in 1..rest.made : r # NoRequest
    BY <1>5, MadeAreRequests DEF Requests, NoRequest
  <2>3. DockInv(rest)
    BY <1>5, <1>7, <1>8, <2>1, <2>2 DEF DockInv
  <2> QED
    BY <1>5, <1>10, <2>3, MaybeStartInv
<1> QED
  BY <1>4, <1>9, <1>10

(* A start comes back from the nested loop.                                *)
LEMMA ReturnsInv ==
    ASSUME DockInv(dock), StartReturns
    PROVE  DockInv(dock')
<1> DEFINE rest == [dock EXCEPT !.starting = Tail(@)]
<1>1. /\ dock \in Dock /\ dock.starting # <<>> /\ dock.posted = <<>> /\ ~Running(dock)
      /\ dock.stopEnabled \in BOOLEAN
  BY DEF DockInv, Quiet, StartReturns, Dock
<1>2. PICK run \in Run : dock.starting = <<run>>
  BY <1>1 DEF DockInv, Quiet
<1>3. Head(dock.starting) = run /\ Tail(dock.starting) = <<>>
  BY <1>2, OneOf
<1>4. PICK fault \in {NoFault, "start"} : dock' = Begin(rest, run, fault)
  BY <1>3 DEF StartReturns
<1>5. dock.stopEnabled = TRUE
  BY <1>1 DEF DockInv, StopButton
<1>6. /\ rest \in Dock /\ rest.starting = <<>> /\ rest.posted = <<>>
      /\ rest.rsm = dock.rsm /\ rest.stopEnabled = TRUE
      /\ rest.made = dock.made /\ rest.queue = dock.queue
      /\ rest.deferred = dock.deferred /\ rest.ended = dock.ended
      /\ rest.discarded = dock.discarded
  BY <1>1, <1>3, <1>5, NothingPosted DEF Dock
<1> HIDE DEF rest
<1>7. AtRest(rest)
  BY <1>1, <1>6 DEF AtRest, Running
<1>8. KeptOrOf(rest, run)
  BY <1>1, <1>2, <1>6, OneOf DEF KeptOrOf, Kept, DockInv
<1> QED
  BY <1>4, <1>6, <1>7, <1>8, BeginInv

(* Every step keeps the invariant.                                         *)
LEMMA NextDock ==
    ASSUME OneAtATime, DockInv(dock), [DockNext]_dockVars
    PROVE  DockInv(dock')
<1>1. CASE OnStopClicked
  BY <1>1, ClickAtRest, StopInv DEF OnStopClicked
<1>2. CASE OnNewChatClicked
  BY <1>2, ClickAtRest, StopInv, ClearInv DEF OnNewChatClicked
<1>3. CASE OnConversationSelected
  BY <1>3, ClearInv DEF OnConversationSelected
<1>4. CASE ReloadSessionFromDisk
  BY <1>4, ClearInv DEF ReloadSessionFromDisk
<1>5. CASE UNCHANGED dockVars
  BY <1>5 DEF dockVars
<1> QED
  BY <1>1, <1>2, <1>3, <1>4, <1>5, RunClickedInv, QueueClickedInv, CompactInv, EndsInv,
     TurnsInv, UsageInv, ServeInv, ReturnsInv DEF DockNext

-----------------------------------------------------------------------------
(* The dock's record keeps its shape.                                      *)
THEOREM DockTypes == ASSUME OneAtATime PROVE DockSpec => []DockTypeOK
<1>1. DockInv(dock) => DockTypeOK
  BY DEF DockInv, DockTypeOK
<1>2. DockInv(dock) /\ [DockNext]_dockVars => DockInv(dock)'
  BY NextDock
<1> QED
  BY <1>1, <1>2, InitDock, PTL DEF DockSpec

(* No request the user made is lost: it is kept by the queue, the          *)
(* deferral, a posted call, a suspended start() or the run, or it has      *)
(* ended, or was given up visibly.                                         *)
THEOREM RequestsAreKept == ASSUME OneAtATime PROVE DockSpec => []NoRequestVanishes
<1>1. DockInv(dock) => NoRequestVanishes
  BY DEF DockInv, Kept, NoRequestVanishes, Made, Held, InPosted, InStarting, IsActive
<1>2. DockInv(dock) /\ [DockNext]_dockVars => DockInv(dock)'
  BY NextDock
<1> QED
  BY <1>1, <1>2, InitDock, PTL DEF DockSpec

(* The stop button is enabled exactly while a run is active or starting.   *)
THEOREM ButtonMatchesRun == ASSUME OneAtATime PROVE DockSpec => []StopMatchesRun
<1>1. DockInv(dock) => StopMatchesRun
  BY DEF DockInv, StopButton, StopMatchesRun
<1>2. DockInv(dock) /\ [DockNext]_dockVars => DockInv(dock)'
  BY NextDock
<1> QED
  BY <1>1, <1>2, InitDock, PTL DEF DockSpec

-----------------------------------------------------------------------------
(* No request is run twice                                                 *)
(*                                                                         *)
(* A request waits in one place at a time: in the queue, as the deferred   *)
(* one, in a posted call or in a suspended start().  While it waits it has *)
(* not begun and was not given up.  A compaction is run ahead of it only   *)
(* on its way into the deferral, and the posted call that brings it back   *)
(* finds skip_auto_compact_once set.                                       *)

Queued(d, r) == r \in ToSet(d.queue)

Posted(d, r) == \E i \in DOMAIN d.posted : d.posted[i].req = r

Starting(d, r) == \E i \in DOMAIN d.starting : d.starting[i].req = r /\ ~d.starting[i].compaction

Compacting(d, r) == \E i \in DOMAIN d.starting : d.starting[i].req = r /\ d.starting[i].compaction

Waits(d, r) == Queued(d, r) \/ d.deferred = r \/ Posted(d, r) \/ Starting(d, r)

Unheard(d, r) ==
    /\ ~Waits(d, r) /\ ~Compacting(d, r)
    /\ d.begun[r] = 0 /\ d.compacted[r] = 0 /\ r \notin d.discarded

OnceFor(d, r) ==
    /\ d.begun[r] <= 1 /\ d.compacted[r] <= 1
    /\ r \in d.discarded => d.begun[r] = 0
    /\ ~(r <= d.made) => Unheard(d, r)
    /\ Waits(d, r) => d.begun[r] = 0 /\ r \notin d.discarded
    /\ Queued(d, r) => /\ d.deferred # r /\ ~Posted(d, r)
                       /\ ~Starting(d, r) /\ ~Compacting(d, r)
                       /\ d.compacted[r] = 0
    /\ d.deferred = r => ~Posted(d, r) /\ ~Starting(d, r)
    /\ Posted(d, r) => d.skip
    /\ Compacting(d, r) => d.compacted[r] = 0

NoRepeat(q) == \A i, j \in DOMAIN q : q[i] = q[j] => i = j

Once(d) == NoRepeat(d.queue) /\ \A r \in Requests : OnceFor(d, r)

(* What a start must find of the request it is for.                        *)
MayRun(d, run) ==
    \A r \in Requests : r = run.req =>
        /\ r <= d.made
        /\ ~Queued(d, r)
        /\ run.compaction => d.compacted[r] = 0
        /\ ~run.compaction => /\ ~Waits(d, r)
                              /\ d.begun[r] = 0 /\ r \notin d.discarded

(* It need not be compacted for again.                                     *)
MayStart(d, run) ==
    /\ MayRun(d, run)
    /\ \A r \in Requests : r = run.req /\ ~run.compaction => d.skip \/ d.compacted[r] = 0

-----------------------------------------------------------------------------
(* Queues without repetition.                                              *)

(* Nothing repeats in an empty queue.                                      *)
LEMMA EmptyNoRepeat == NoRepeat(<<>>) /\ ToSet(<<>>) = {}
BY SetOfEmpty DEF NoRepeat

(* The head of a queue without repetition is not in the rest.              *)
LEMMA TailNoRepeat ==
    ASSUME NEW S, NEW s \in Seq(S), s # <<>>, NoRepeat(s)
    PROVE  NoRepeat(Tail(s)) /\ Head(s) \notin ToSet(Tail(s))
<1>1. Len(s) \in Nat \ {0} /\ DOMAIN s = 1..Len(s) /\ Head(s) = s[1]
  OBVIOUS
<1>2. /\ DOMAIN Tail(s) = 1..(Len(s) - 1)
      /\ \A i \in 1..(Len(s) - 1) : Tail(s)[i] = s[i + 1]
  BY <1>1
<1>3. \A i \in 1..(Len(s) - 1) : i + 1 \in 1..Len(s) /\ i + 1 # 1
  BY <1>1
<1>4. 1 \in 1..Len(s)
  BY <1>1
<1>5. ASSUME NEW i \in 1..(Len(s) - 1), NEW j \in 1..(Len(s) - 1), Tail(s)[i] = Tail(s)[j]
      PROVE  i = j
  <2>1. i + 1 = j + 1
    BY <1>1, <1>2, <1>3, <1>5 DEF NoRepeat
  <2> QED
    BY <1>1, <2>1
<1>6. \A i \in 1..(Len(s) - 1) : s[i + 1] # s[1]
  BY <1>1, <1>3, <1>4 DEF NoRepeat
<1> QED
  BY <1>1, <1>2, <1>5, <1>6 DEF NoRepeat, ToSet

(* A newcomer does not repeat anybody.                                     *)
LEMMA AppendNoRepeat ==
    ASSUME NEW S, NEW s \in Seq(S), NEW x \in S, NoRepeat(s), x \notin ToSet(s)
    PROVE  NoRepeat(Append(s, x))
<1> DEFINE n == Len(s) + 1
           t == Append(s, x)
<1>1. /\ Len(s) \in Nat /\ DOMAIN s = 1..Len(s) /\ DOMAIN t = 1..n
      /\ \A i \in 1..Len(s) : t[i] = s[i]
      /\ t[n] = x
  OBVIOUS
<1>2. \A i \in 1..n : i = n \/ i \in 1..Len(s)
  BY <1>1
<1> HIDE DEF n, t
<1>3. \A i \in 1..Len(s) : s[i] # x
  BY <1>1 DEF ToSet
<1>4. NoRepeat(t)
  BY <1>1, <1>2, <1>3 DEF NoRepeat
<1> QED
  BY <1>4 DEF t

-----------------------------------------------------------------------------
(* Edits of the record.                                                    *)

(* The invariant looks at these fields only.                               *)
LEMMA OnceSame ==
    ASSUME NEW d, NEW n, Once(d),
           n.queue = d.queue, n.deferred = d.deferred, n.posted = d.posted,
           n.starting = d.starting, n.made = d.made, n.skip = d.skip,
           n.begun = d.begun, n.compacted = d.compacted, n.discarded = d.discarded
    PROVE  Once(n)
BY DEF Once, OnceFor, Unheard, Waits, Queued, Posted, Starting, Compacting

(* No request has the number that stands for none.                         *)
LEMMA NoneIsARequest == \A r \in Requests : r # NoRequest
BY DEF Requests, NoRequest

(* The end of a run brings nobody back twice; without completion it posts  *)
(* nothing.                                                                *)
LEMMA EndRunOnce ==
    ASSUME NEW d \in Dock, Quiet(d), Running(d), Once(d),
           NEW verdict \in Verdicts,
           NEW n, n = EndRun(d, verdict)
    PROVE  n \in Dock /\ Once(n) /\ (verdict # "COMPLETED" => n.posted = <<>>)
<1> DEFINE over == [d EXCEPT !.rsm = Mark(@, verdict), !.stopEnabled = FALSE,
                             !.shown = FALSE,
                             !.ended = @ \cup (IF d.active.compaction THEN {}
                                               ELSE {d.active.req} \cap Requests)]
<1>1. /\ over \in Dock /\ over.starting = <<>> /\ over.posted = <<>>
      /\ over.queue = d.queue /\ over.deferred = d.deferred /\ over.posted = d.posted
      /\ over.starting = d.starting /\ over.made = d.made /\ over.skip = d.skip
      /\ over.begun = d.begun /\ over.compacted = d.compacted
      /\ over.discarded = d.discarded
  BY Machine DEF Dock, Running, Quiet
<1>2. n = IF verdict = "COMPLETED" THEN AfterCompletion(over) ELSE AfterFailure(over)
  BY DEF EndRun
<1> HIDE DEF over
<1>3. Once(over)
  BY <1>1, OnceSame
<1>4. CASE verdict # "COMPLETED"
  <2>1. n = [Discard(over, {over.deferred}) EXCEPT !.deferred = NoRequest]
    BY <1>2, <1>4 DEF AfterFailure
  <2>2. /\ n \in Dock
        /\ n.queue = over.queue /\ n.deferred = NoRequest /\ n.posted = <<>>
        /\ n.starting = <<>> /\ n.made = over.made /\ n.skip = over.skip
        /\ n.begun = over.begun /\ n.compacted = over.compacted
        /\ n.discarded = over.discarded \cup ({over.deferred} \cap Requests)
    BY <1>1, <2>1 DEF Dock, Discard
  <2> QED
    BY <1>1, <1>3, <2>2, NoneIsARequest
       DEF Once, OnceFor, Unheard, Waits, Queued, Posted, Starting, Compacting
<1>5. CASE verdict = "COMPLETED" /\ over.deferred = NoRequest
  <2> DEFINE p == [call |-> "next", req |-> NoRequest]
  <2>1. n = PostNext(over) /\ p.req = NoRequest
    BY <1>2, <1>5 DEF AfterCompletion
  <2>2. n = [over EXCEPT !.posted = <<p>>] /\ <<p>> \in Seq(PostedCall)
    <3>1. p \in PostedCall
      BY DEF PostedCall
    <3> QED
      BY <1>1, <2>1, <3>1, OneOf DEF PostNext
  <2> HIDE DEF p
  <2>3. /\ n \in Dock
        /\ n.queue = over.queue /\ n.deferred = over.deferred /\ n.posted = <<p>>
        /\ n.starting = <<>> /\ n.made = over.made /\ n.skip = over.skip
        /\ n.begun = over.begun /\ n.compacted = over.compacted
        /\ n.discarded = over.discarded
    BY <1>1, <2>2 DEF Dock
  <2>4. \A r \in Requests : ~Posted(n, r)
    BY <2>1, <2>3, OneOf, NoneIsARequest DEF Posted
  <2> QED
    BY <1>1, <1>3, <1>5, <2>3, <2>4
       DEF Once, OnceFor, Unheard, Waits, Queued, Posted, Starting, Compacting
<1>6. CASE verdict = "COMPLETED" /\ over.deferred # NoRequest
  <2> DEFINE r0 == over.deferred
             p == [call |-> "start", req |-> r0]
             cleared == [over EXCEPT !.deferred = NoRequest, !.skip = TRUE]
  <2>1. n = PostStart(cleared, r0) /\ p.req = r0 /\ r0 \in Requests
    BY <1>1, <1>2, <1>6 DEF AfterCompletion, Dock
  <2>2. n = [cleared EXCEPT !.posted = <<p>>] /\ <<p>> \in Seq(PostedCall)
    <3>1. p \in PostedCall
      BY <2>1 DEF PostedCall
    <3>2. cleared.posted = <<>>
      BY <1>1 DEF Dock
    <3> QED
      BY <2>1, <3>1, <3>2, OneOf DEF PostStart
  <2> HIDE DEF p
  <2>3. /\ n \in Dock
        /\ n.queue = over.queue /\ n.deferred = NoRequest /\ n.posted = <<p>>
        /\ n.starting = <<>> /\ n.made = over.made /\ n.skip = TRUE
        /\ n.begun = over.begun /\ n.compacted = over.compacted
        /\ n.discarded = over.discarded
    BY <1>1, <2>2 DEF Dock
  <2>4. \A r \in Requests : Posted(n, r) <=> r = r0
    BY <2>1, <2>3, OneOf DEF Posted
  <2>5. ASSUME NEW r \in Requests PROVE OnceFor(n, r)
    <3>1. OnceFor(over, r)
      BY <1>3 DEF Once
    <3>2. /\ ~Starting(n, r) /\ ~Compacting(n, r)
          /\ ~Posted(over, r) /\ ~Starting(over, r) /\ ~Compacting(over, r)
          /\ Queued(n, r) <=> Queued(over, r)
      BY <1>1, <2>3 DEF Posted, Starting, Compacting, Queued
    <3> QED
      BY <2>1, <2>3, <2>4, <3>1, <3>2, NoneIsARequest DEF OnceFor, Unheard, Waits
  <2> QED
    BY <1>3, <1>6, <2>3, <2>5 DEF Once
<1> QED
  BY <1>4, <1>5, <1>6

(* The run that begins has not begun before.                               *)
LEMMA BeginOnce ==
    ASSUME NEW d \in Dock, AtRest(d), Once(d),
           NEW run \in Run, MayRun(d, run), NEW fault,
           NEW n, n = Begin(d, run, fault)
    PROVE  Once(n)
<1> DEFINE count(m, r, counted) == IF counted /\ r = run.req THEN m + 1 ELSE m
           begun == [r \in Requests |-> count(d.begun[r], r, ~run.compaction)]
           compacted == [r \in Requests |-> count(d.compacted[r], r, run.compaction)]
           b == [d EXCEPT !.rsm = AwaitProvider(StartRun(@)), !.active = run,
                          !.begun = begun, !.compacted = compacted]
<1>1. d.begun \in [Requests -> Nat] /\ d.compacted \in [Requests -> Nat]
  BY DEF Dock
<1>2. begun \in [Requests -> Nat] /\ compacted \in [Requests -> Nat]
  BY <1>1
<1>3. \A r \in Requests :
         /\ begun[r] = IF ~run.compaction /\ r = run.req THEN d.begun[r] + 1 ELSE d.begun[r]
         /\ compacted[r] = IF run.compaction /\ r = run.req THEN d.compacted[r] + 1
                           ELSE d.compacted[r]
  OBVIOUS
<1>4. n = IF fault = "start" THEN EndRun(b, "FAILED") ELSE b
  BY DEF Begin
<1> HIDE DEF begun, compacted
<1>5. AwaitProvider(StartRun(d.rsm)) = "WAITING_FOR_PROVIDER"
  BY Machine DEF AtRest, Running, Dock
<1>6. /\ b \in Dock /\ b.rsm = "WAITING_FOR_PROVIDER"
      /\ b.starting = <<>> /\ b.posted = <<>>
      /\ b.queue = d.queue /\ b.deferred = d.deferred /\ b.made = d.made
      /\ b.skip = d.skip /\ b.begun = begun /\ b.compacted = compacted
      /\ b.discarded = d.discarded
  BY <1>2, <1>5, Machine DEF Dock, AtRest
<1> HIDE DEF b
<1>7. Running(b) /\ Quiet(b)
  BY <1>6, Machine DEF Running, Quiet
<1>8. Once(b)
  <2> SUFFICES ASSUME NEW r \in Requests PROVE OnceFor(b, r)
    BY <1>6 DEF Once
  <2>1. OnceFor(d, r)
    BY DEF Once
  <2>2. /\ ~Posted(b, r) /\ ~Starting(b, r) /\ ~Compacting(b, r)
        /\ ~Posted(d, r) /\ ~Starting(d, r)
        /\ Queued(b, r) <=> Queued(d, r)
    BY <1>6 DEF Posted, Starting, Compacting, Queued, AtRest
  <2>3. CASE r # run.req
    BY <1>3, <1>6, <2>1, <2>2, <2>3 DEF OnceFor, Unheard, Waits
  <2>4. CASE r = run.req /\ run.compaction
    BY <1>1, <1>3, <1>6, <2>1, <2>2, <2>4 DEF OnceFor, Unheard, Waits, MayRun
  <2>5. CASE r = run.req /\ ~run.compaction
    BY <1>1, <1>3, <1>6, <2>1, <2>2, <2>5 DEF OnceFor, Unheard, Waits, MayRun
  <2> QED
    BY <2>3, <2>4, <2>5
<1>9. "FAILED" \in Verdicts
  BY DEF Verdicts
<1> QED
  BY <1>4, <1>6, <1>7, <1>8, <1>9, EndRunOnce

(* Nor has one handed to the controller.                                   *)
LEMMA StartControllerOnce ==
    ASSUME NEW d \in Dock, AtRest(d), Once(d),
           NEW run \in Run, MayRun(d, run), NEW fault,
           NEW n, n = StartController(d, run, fault)
    PROVE  Once(n)
<1> DEFINE ready == [d EXCEPT !.over = FALSE, !.stopEnabled = TRUE]
<1>1. n = IF fault = "connecting" THEN [ready EXCEPT !.starting = <<run>> \o @]
          ELSE Begin(ready, run, fault)
  BY DEF StartController, AtRest
<1>2. /\ ready \in Dock /\ ready.starting = <<>> /\ ready.posted = <<>>
      /\ ready.rsm = d.rsm
      /\ ready.queue = d.queue /\ ready.deferred = d.deferred /\ ready.posted = d.posted
      /\ ready.starting = d.starting /\ ready.made = d.made /\ ready.skip = d.skip
      /\ ready.begun = d.begun /\ ready.compacted = d.compacted
      /\ ready.discarded = d.discarded
  BY DEF Dock, AtRest
<1> HIDE DEF ready
<1>3. Once(ready) /\ AtRest(ready)
  BY <1>2, OnceSame DEF AtRest, Running
<1>4. MayRun(ready, run)
  BY <1>2 DEF MayRun, Queued, Waits, Posted, Starting
<1>5. CASE fault = "connecting"
  <2>1. n = [ready EXCEPT !.starting = <<run>>]
    BY <1>1, <1>2, <1>5, OneOf
  <2>2. /\ n.starting = <<run>> /\ n.posted = <<>>
        /\ n.queue = ready.queue /\ n.deferred = ready.deferred
        /\ n.made = ready.made /\ n.skip = ready.skip
        /\ n.begun = ready.begun /\ n.compacted = ready.compacted
        /\ n.discarded = ready.discarded
    BY <1>2, <2>1 DEF Dock
  <2> SUFFICES ASSUME NEW r \in Requests PROVE OnceFor(n, r)
    BY <1>3, <2>2 DEF Once
  <2>3. OnceFor(ready, r)
    BY <1>3 DEF Once
  <2>4. /\ Starting(n, r) <=> r = run.req /\ ~run.compaction
        /\ Compacting(n, r) <=> r = run.req /\ run.compaction
        /\ ~Posted(n, r)
        /\ Queued(n, r) <=> Queued(ready, r)
        /\ ~Posted(ready, r) /\ ~Starting(ready, r) /\ ~Compacting(ready, r)
    BY <1>2, <2>2, OneOf DEF Posted, Starting, Compacting, Queued
  <2> QED
    BY <1>4, <2>2, <2>3, <2>4 DEF OnceFor, Unheard, Waits, MayRun
<1>6. CASE fault # "connecting"
  BY <1>1, <1>2, <1>3, <1>4, <1>6, BeginOnce
<1> QED
  BY <1>5, <1>6

(* Nor has the request that start_request takes.                           *)
LEMMA StartRequestOnce ==
    ASSUME NEW d \in Dock, AtRest(d), Once(d),
           NEW run \in Run, MayStart(d, run), NEW fault,
           NEW n, n = StartRequest(d, run, fault)
    PROVE  Once(n)
<1> DEFINE next == [d EXCEPT !.skip = FALSE]
           put == [next EXCEPT !.deferred = run.req]
           compaction == [run EXCEPT !.compaction = TRUE]
<1>1. CASE fault = "image" /\ ~run.compaction
  <2>1. n = Discard(d, {run.req})
    BY <1>1 DEF StartRequest
  <2>2. /\ n.starting = d.starting /\ n.posted = d.posted
        /\ n.queue = d.queue /\ n.deferred = d.deferred
        /\ n.made = d.made /\ n.skip = d.skip
        /\ n.begun = d.begun /\ n.compacted = d.compacted
        /\ n.discarded = d.discarded \cup ({run.req} \cap Requests)
    BY <2>1 DEF Discard, Dock
  <2> QED
    BY <1>1, <2>2 DEF Once, OnceFor, Unheard, Waits, Queued, Posted, Starting, Compacting,
           MayRun, MayStart
<1>2. CASE ~(fault = "image" /\ ~run.compaction) /\ AutoCompactNeeded(d, run.compaction)
  <2>1. n = StartController(put, compaction, fault)
    BY <1>2 DEF StartRequest
  <2>2. /\ put \in Dock /\ put.starting = <<>> /\ put.posted = <<>> /\ put.rsm = d.rsm
        /\ put.queue = d.queue /\ put.deferred = run.req
        /\ put.made = d.made
        /\ put.begun = d.begun /\ put.compacted = d.compacted
        /\ put.discarded = d.discarded
    BY DEF Dock, AtRest, Run
  <2>3. compaction \in Run /\ compaction.req = run.req /\ compaction.compaction
    BY DEF Run
  <2>4. d.deferred = NoRequest /\ ~run.compaction /\ ~d.skip
    BY <1>2 DEF AutoCompactNeeded
  <2> HIDE DEF put, compaction
  <2>5. ASSUME NEW r \in Requests PROVE OnceFor(put, r)
    <3>1. OnceFor(d, r)
      BY DEF Once
    <3>2. /\ ~Posted(put, r) /\ ~Starting(put, r) /\ ~Compacting(put, r)
          /\ ~Posted(d, r) /\ ~Starting(d, r) /\ ~Compacting(d, r)
          /\ Queued(put, r) <=> Queued(d, r)
      BY <2>2 DEF Posted, Starting, Compacting, Queued, AtRest
    <3> QED
      BY <2>2, <2>4, <3>1, <3>2 DEF OnceFor, Unheard, Waits, MayRun, MayStart
  <2>6. Once(put)
    BY <2>2, <2>5 DEF Once
  <2>7. MayRun(put, compaction)
    BY <2>2, <2>3, <2>4 DEF MayRun, MayStart, Queued, Waits
  <2>8. AtRest(put)
    BY <2>2 DEF AtRest, Running
  <2> QED
    BY <2>1, <2>2, <2>3, <2>6, <2>7, <2>8, StartControllerOnce
<1>3. CASE ~(fault = "image" /\ ~run.compaction) /\ ~AutoCompactNeeded(d, run.compaction)
  <2>1. n = StartController(next, run, fault)
    BY <1>3 DEF StartRequest
  <2>2. /\ next \in Dock /\ next.starting = <<>> /\ next.posted = <<>> /\ next.rsm = d.rsm
        /\ next.queue = d.queue /\ next.deferred = d.deferred
        /\ next.made = d.made
        /\ next.begun = d.begun /\ next.compacted = d.compacted
        /\ next.discarded = d.discarded
    BY DEF Dock, AtRest
  <2> HIDE DEF next
  <2>3. ASSUME NEW r \in Requests PROVE OnceFor(next, r)
    <3>1. OnceFor(d, r)
      BY DEF Once
    <3>2. /\ ~Posted(next, r) /\ ~Starting(next, r) /\ ~Compacting(next, r)
          /\ ~Posted(d, r) /\ ~Starting(d, r) /\ ~Compacting(d, r)
          /\ Queued(next, r) <=> Queued(d, r)
      BY <2>2 DEF Posted, Starting, Compacting, Queued, AtRest
    <3> QED
      BY <2>2, <3>1, <3>2 DEF OnceFor, Unheard, Waits
  <2>4. Once(next)
    BY <2>2, <2>3 DEF Once
  <2>5. AtRest(next) /\ MayRun(next, run)
    BY <2>2 DEF AtRest, Running, MayRun, MayStart, Queued, Waits, Posted, Starting
  <2> QED
    BY <2>1, <2>2, <2>4, <2>5, StartControllerOnce
<1> QED
  BY <1>1, <1>2, <1>3

(* The head of the queue leaves the queue as it is started.                *)
LEMMA MaybeStartOnce ==
    ASSUME NEW d \in Dock, d.starting = <<>>, d.posted = <<>>, Once(d), NEW fault,
           NEW n, n = MaybeStartNextQueuedRequest(d, fault)
    PROVE  Once(n)
<1>1. CASE Running(d) \/ d.queue = <<>>
  BY <1>1 DEF MaybeStartNextQueuedRequest
<1>2. CASE ~Running(d) /\ d.queue # <<>>
  <2> DEFINE r0 == Head(d.queue)
             rest == [d EXCEPT !.queue = Tail(@)]
  <2>1. d.queue \in Seq(Requests) /\ NoRepeat(d.queue)
    BY DEF Dock, Once
  <2>2. /\ r0 \in Requests /\ Tail(d.queue) \in Seq(Requests)
        /\ ToSet(d.queue) = {r0} \cup ToSet(Tail(d.queue))
        /\ NoRepeat(Tail(d.queue)) /\ r0 \notin ToSet(Tail(d.queue))
    BY <1>2, <2>1, SetOfTail, TailNoRepeat
  <2>3. n = StartRequest(rest, Plain(r0), fault)
    BY <1>2 DEF MaybeStartNextQueuedRequest
  <2>4. /\ rest \in Dock /\ rest.starting = <<>> /\ rest.posted = <<>>
        /\ rest.rsm = d.rsm /\ rest.queue = Tail(d.queue)
        /\ rest.deferred = d.deferred /\ rest.made = d.made /\ rest.skip = d.skip
        /\ rest.begun = d.begun /\ rest.compacted = d.compacted
        /\ rest.discarded = d.discarded
    BY <2>2 DEF Dock
  <2> HIDE DEF r0, rest
  <2>5. ASSUME NEW r \in Requests
        PROVE  /\ OnceFor(d, r)
               /\ ~Posted(rest, r) /\ ~Starting(rest, r) /\ ~Compacting(rest, r)
               /\ ~Posted(d, r) /\ ~Starting(d, r) /\ ~Compacting(d, r)
               /\ Queued(d, r) <=> r = r0 \/ Queued(rest, r)
    BY <2>2, <2>4 DEF Once, Posted, Starting, Compacting, Queued
  <2>6. ASSUME NEW r \in Requests PROVE OnceFor(rest, r)
    BY <2>4, <2>5 DEF OnceFor, Unheard, Waits
  <2>7. Once(rest)
    BY <2>2, <2>4, <2>6 DEF Once
  <2>8. ~Queued(rest, r0)
    BY <2>2, <2>4 DEF Queued
  <2>9. /\ r0 <= rest.made /\ rest.compacted[r0] = 0 /\ ~Waits(rest, r0)
        /\ rest.begun[r0] = 0 /\ r0 \notin rest.discarded
    BY <2>2, <2>4, <2>5, <2>8 DEF OnceFor, Unheard, Waits
  <2>10. AtRest(rest) /\ MayStart(rest, Plain(r0))
    BY <1>2, <2>2, <2>4, <2>8, <2>9, PlainRun DEF AtRest, Running, MayStart, MayRun
  <2> QED
    BY <2>2, <2>3, <2>4, <2>7, <2>10, PlainRun, StartRequestOnce
<1> QED
  BY <1>1, <1>2

(* What is given up does not wait anywhere any more.                       *)
LEMMA ClearOnce ==
    ASSUME NEW d \in Dock, d.posted = <<>>, Once(d), NEW n, n = ClearChatState(d)
    PROVE  Once(n)
<1> DEFINE given == Held(d) \cap Requests
<1>1. n = [[d EXCEPT !.discarded = @ \cup given]
             EXCEPT !.queue = <<>>, !.deferred = NoRequest,
                    !.skip = FALSE, !.over = FALSE, !.shown = FALSE]
  BY DEF ClearChatState, Discard
<1>2. \A r \in Requests : r \in given <=> Queued(d, r) \/ d.deferred = r
  BY DEF Held, Queued
<1> HIDE DEF given
<1>3. /\ n.queue = <<>> /\ n.deferred = NoRequest /\ n.posted = <<>>
      /\ n.starting = d.starting /\ n.made = d.made
      /\ n.begun = d.begun /\ n.compacted = d.compacted
      /\ n.discarded = d.discarded \cup given
  BY <1>1 DEF Dock
<1>4. ASSUME NEW r \in Requests PROVE OnceFor(n, r)
  <2>1. OnceFor(d, r)
    BY DEF Once
  <2>2. /\ ~Posted(n, r) /\ ~Queued(n, r) /\ n.deferred # r
        /\ Starting(n, r) <=> Starting(d, r)
        /\ Compacting(n, r) <=> Compacting(d, r)
    BY <1>3, EmptyNoRepeat, NoneIsARequest DEF Posted, Starting, Compacting, Queued
  <2> QED
    BY <1>2, <1>3, <2>1, <2>2 DEF OnceFor, Unheard, Waits
<1> QED
  BY <1>3, <1>4, EmptyNoRepeat DEF Once

(* The same at a stop, which posts nothing.                                *)
LEMMA StopOnce ==
    ASSUME NEW d, DockInv(d), d.starting = <<>>, d.posted = <<>>, Once(d),
           NEW n, n = StopClicked(d)
    PROVE  Once(n) /\ n.posted = <<>>
<1> DEFINE given == {d.deferred} \cap Requests
           dropped == [[d EXCEPT !.discarded = @ \cup given] EXCEPT !.deferred = NoRequest]
           left == IF Running(d) THEN EndRun(dropped, "STOPPED") ELSE dropped
<1>1. d \in Dock /\ n = [left EXCEPT !.stopEnabled = FALSE]
  BY DEF DockInv, StopClicked, Discard
<1>2. /\ dropped \in Dock /\ dropped.starting = <<>> /\ dropped.posted = <<>>
      /\ dropped.rsm = d.rsm /\ dropped.queue = d.queue
      /\ dropped.deferred = NoRequest /\ dropped.made = d.made
      /\ dropped.skip = d.skip
      /\ dropped.begun = d.begun /\ dropped.compacted = d.compacted
      /\ dropped.discarded = d.discarded \cup given
  BY <1>1 DEF Dock
<1>3. left = IF Running(d) THEN EndRun(dropped, "STOPPED") ELSE dropped
  OBVIOUS
<1>4. \A r \in Requests : r \in given <=> d.deferred = r
  OBVIOUS
<1> HIDE DEF given, dropped, left
<1>5. ASSUME NEW r \in Requests PROVE OnceFor(dropped, r)
  <2>1. OnceFor(d, r)
    BY DEF Once
  <2>2. /\ ~Posted(dropped, r) /\ ~Starting(dropped, r) /\ ~Compacting(dropped, r)
        /\ ~Posted(d, r) /\ ~Starting(d, r) /\ ~Compacting(d, r)
        /\ Queued(dropped, r) <=> Queued(d, r)
        /\ dropped.deferred # r
    BY <1>2, NoneIsARequest DEF Posted, Starting, Compacting, Queued
  <2> QED
    BY <1>2, <1>4, <2>1, <2>2 DEF OnceFor, Unheard, Waits
<1>6. Once(dropped)
  BY <1>2, <1>5 DEF Once
<1>7. left \in Dock /\ Once(left) /\ left.posted = <<>>
  <2>1. CASE Running(d)
    <3>1. Running(dropped) /\ Quiet(dropped)
      BY <1>2, <2>1 DEF Running, Quiet
    <3>2. "STOPPED" \in Verdicts /\ "STOPPED" # "COMPLETED"
      BY DEF Verdicts
    <3> QED
      BY <1>2, <1>3, <1>6, <2>1, <3>1, <3>2, EndRunOnce
  <2>2. CASE ~Running(d)
    BY <1>2, <1>3, <1>6, <2>2
  <2> QED
    BY <2>1, <2>2
<1>8. /\ n.queue = left.queue /\ n.deferred = left.deferred /\ n.posted = left.posted
      /\ n.starting = left.starting /\ n.made = left.made /\ n.skip = left.skip
      /\ n.begun = left.begun /\ n.compacted = left.compacted
      /\ n.discarded = left.discarded
  BY <1>1, <1>7 DEF Dock
<1> QED
  BY <1>7, <1>8, OnceSame

-----------------------------------------------------------------------------
(* The events.                                                             *)

OneDock(d) == DockInv(d) /\ Once(d)

(* No request has been made.                                               *)
LEMMA InitOnce == DockInit => Once(dock)
<1> SUFFICES ASSUME DockInit PROVE Once(dock)
  OBVIOUS
<1>1. /\ dock.queue = <<>> /\ dock.posted = <<>> /\ dock.starting = <<>>
      /\ dock.deferred = NoRequest /\ dock.discarded = {}
      /\ \A r \in Requests : dock.begun[r] = 0 /\ dock.compacted[r] = 0
  BY DEF DockInit
<1>2. ASSUME NEW r \in Requests PROVE OnceFor(dock, r)
  <2>1. /\ ~Posted(dock, r) /\ ~Starting(dock, r) /\ ~Compacting(dock, r)
        /\ ~Queued(dock, r) /\ dock.deferred # r
    BY <1>1, EmptyNoRepeat, NoneIsARequest DEF Posted, Starting, Compacting, Queued
  <2> QED
    BY <1>1, <2>1 DEF OnceFor, Unheard, Waits
<1> QED
  BY <1>1, <1>2, EmptyNoRepeat DEF Once

(* A new request has a number no other has.                                *)
LEMMA LaterNumber ==
    ASSUME dock \in Dock, NextRequest \in Requests
    PROVE  /\ NextRequest \in 0..MaxRequests
           /\ ~(NextRequest <= dock.made) /\ NextRequest <= NextRequest
           /\ \A r \in Requests : r <= dock.made => r <= NextRequest
<1>1. dock.made \in Nat
  BY DockAssumption DEF Dock
<1> QED
  BY <1>1, DockAssumption DEF Requests, NextRequest

(* The user runs a request.                                                *)
LEMMA RunClickedOnce ==
    ASSUME OneAtATime, OneDock(dock), OnRunClicked
    PROVE  Once(dock')
<1> DEFINE asked == [dock EXCEPT !.made = NextRequest]
<1>1. /\ dock \in Dock /\ AtRest(dock) /\ dock.stopEnabled = FALSE
      /\ NextRequest \in Requests /\ Once(dock)
  BY ClickAtRest DEF OnRunClicked, OneDock
<1>2. PICK fault \in Faults : dock' = StartRequest(asked, Plain(NextRequest), fault)
  BY DEF OnRunClicked
<1>3. /\ NextRequest \in 0..MaxRequests
      /\ ~(NextRequest <= dock.made) /\ NextRequest <= NextRequest
      /\ \A r \in Requests : r <= dock.made => r <= NextRequest
  BY <1>1, LaterNumber
<1>4. /\ asked \in Dock /\ asked.starting = <<>> /\ asked.posted = <<>>
      /\ asked.rsm = dock.rsm /\ asked.made = NextRequest
      /\ asked.queue = dock.queue /\ asked.deferred = dock.deferred
      /\ asked.skip = dock.skip /\ asked.begun = dock.begun
      /\ asked.compacted = dock.compacted /\ asked.discarded = dock.discarded
  BY <1>1, <1>3 DEF Dock, AtRest
<1> HIDE DEF asked
<1>5. ASSUME NEW r \in Requests
      PROVE  /\ OnceFor(dock, r)
             /\ ~Posted(asked, r) /\ ~Starting(asked, r) /\ ~Compacting(asked, r)
             /\ ~Posted(dock, r) /\ ~Starting(dock, r) /\ ~Compacting(dock, r)
             /\ Queued(asked, r) <=> Queued(dock, r)
  BY <1>1, <1>4 DEF Once, Posted, Starting, Compacting, Queued, AtRest
<1>6. ASSUME NEW r \in Requests PROVE OnceFor(asked, r)
  BY <1>3, <1>4, <1>5 DEF OnceFor, Unheard, Waits
<1>7. Once(asked)
  BY <1>1, <1>4, <1>6 DEF Once
<1>8. Unheard(asked, NextRequest)
  BY <1>1, <1>3, <1>4, <1>5 DEF OnceFor, Unheard, Waits
<1>9. AtRest(asked) /\ MayStart(asked, Plain(NextRequest))
  BY <1>1, <1>3, <1>4, <1>8, PlainRun
     DEF AtRest, Running, MayStart, MayRun, Unheard, Waits
<1> QED
  BY <1>1, <1>2, <1>4, <1>7, <1>9, PlainRun, StartRequestOnce

(* The user queues one.                                                    *)
LEMMA QueueClickedOnce ==
    ASSUME OneAtATime, OneDock(dock), OnQueueClicked
    PROVE  Once(dock')
<1> DEFINE q == Append(dock.queue, NextRequest)
           queued == [dock EXCEPT !.made = NextRequest, !.queue = q]
<1>1. /\ dock \in Dock /\ dock.posted = <<>> /\ dock.starting = <<>>
      /\ NextRequest \in Requests /\ Once(dock)
  BY ClickAtRest DEF OnQueueClicked, OneDock
<1>2. \/ dock' = queued
      \/ \E fault \in Faults : dock' = MaybeStartNextQueuedRequest(queued, fault)
  BY DEF OnQueueClicked
<1>3. /\ NextRequest \in 0..MaxRequests
      /\ ~(NextRequest <= dock.made) /\ NextRequest <= NextRequest
      /\ \A r \in Requests : r <= dock.made => r <= NextRequest
  BY <1>1, LaterNumber
<1>4. dock.queue \in Seq(Requests) /\ NoRepeat(dock.queue)
  BY <1>1 DEF Dock, Once
<1>5. Unheard(dock, NextRequest)
  BY <1>1, <1>3 DEF Once, OnceFor
<1>6. /\ q \in Seq(Requests) /\ NoRepeat(q)
      /\ ToSet(q) = ToSet(dock.queue) \cup {NextRequest}
  BY <1>1, <1>4, <1>5, SetOfAppend, AppendNoRepeat DEF Unheard, Waits, Queued
<1> HIDE DEF q
<1>7. /\ queued \in Dock /\ queued.starting = <<>> /\ queued.posted = <<>>
      /\ queued.queue = q /\ queued.made = NextRequest
      /\ queued.deferred = dock.deferred
      /\ queued.skip = dock.skip /\ queued.begun = dock.begun
      /\ queued.compacted = dock.compacted /\ queued.discarded = dock.discarded
  BY <1>1, <1>3, <1>6 DEF Dock
<1> HIDE DEF queued
<1>8. ASSUME NEW r \in Requests
      PROVE  /\ OnceFor(dock, r)
             /\ ~Posted(queued, r) /\ ~Starting(queued, r) /\ ~Compacting(queued, r)
             /\ Queued(queued, r) <=> Queued(dock, r) \/ r = NextRequest
  BY <1>1, <1>6, <1>7 DEF Once, Posted, Starting, Compacting, Queued
<1>9. ASSUME NEW r \in Requests PROVE OnceFor(queued, r)
  BY <1>3, <1>5, <1>7, <1>8 DEF OnceFor, Unheard, Waits
<1>10. Once(queued)
  BY <1>6, <1>7, <1>9 DEF Once
<1> QED
  BY <1>2, <1>7, <1>10, MaybeStartOnce

(* The user asks for a compaction.                                         *)
LEMMA CompactOnce ==
    ASSUME OneAtATime, OneDock(dock), OnCompactCommand
    PROVE  Once(dock')
<1> DEFINE run == [req |-> NoRequest, compaction |-> TRUE]
<1>1. dock \in Dock /\ AtRest(dock) /\ Once(dock)
  BY ClickAtRest DEF OnCompactCommand, OneDock
<1>2. PICK fault \in Faults : dock' = StartRequest(dock, run, fault)
  BY DEF OnCompactCommand
<1>3. run \in Run /\ run.req = NoRequest
  BY DEF Run
<1> HIDE DEF run
<1>4. MayStart(dock, run)
  BY <1>3, NoneIsARequest DEF MayStart, MayRun
<1> QED
  BY <1>1, <1>2, <1>3, <1>4, StartRequestOnce

(* A run ends, by itself or with its review.                               *)
LEMMA EndsOnce ==
    ASSUME OneDock(dock), RunEnds \/ ReviewEnds
    PROVE  Once(dock')
<1>1. PICK verdict \in Verdicts : dock' = EndRun(dock, verdict)
  BY DEF RunEnds, ReviewEnds, Verdicts
<1>2. Running(dock)
  BY DEF RunEnds, ReviewEnds, Running, RunningStates, UserWaits
<1> QED
  BY <1>1, <1>2, EndRunOnce DEF DockInv, OneDock

(* A run waits for the user, goes on, or reports its usage.                *)
LEMMA TurnsOnce ==
    ASSUME OneDock(dock), RunAsks \/ UserAnswers \/ UserSteers \/ OnProviderUsage
    PROVE  Once(dock')
<1>1. \/ \E state, shown : dock' = [dock EXCEPT !.rsm = state, !.shown = shown]
      \/ dock' = [dock EXCEPT !.over = TRUE]
  BY DEF RunAsks, UserAnswers, UserSteers, OnProviderUsage
<1>2. dock \in Dock /\ Once(dock)
  BY DEF OneDock, DockInv
<1>3. /\ dock'.queue = dock.queue /\ dock'.deferred = dock.deferred
      /\ dock'.posted = dock.posted /\ dock'.starting = dock.starting
      /\ dock'.made = dock.made /\ dock'.skip = dock.skip
      /\ dock'.begun = dock.begun /\ dock'.compacted = dock.compacted
      /\ dock'.discarded = dock.discarded
  BY <1>1, <1>2 DEF Dock
<1> QED
  BY <1>2, <1>3, OnceSame

(* The posted call leaves the queue of calls as it is served.              *)
LEMMA ServeOnce ==
    ASSUME OneDock(dock), ServePosted
    PROVE  Once(dock')
<1> DEFINE rest == [dock EXCEPT !.posted = Tail(@)]
<1>1. /\ dock \in Dock /\ dock.posted # <<>> /\ dock.starting = <<>> /\ ~Running(dock)
      /\ Once(dock)
  BY DEF OneDock, DockInv, Quiet, ServePosted
<1>2. PICK p \in PostedCall : dock.posted = <<p>>
  BY <1>1 DEF OneDock, DockInv, Quiet
<1>3. Head(dock.posted) = p /\ Tail(dock.posted) = <<>>
  BY <1>2, OneOf
<1>4. PICK fault \in Faults :
          \/ p.call = "start" /\ dock' = StartRequest(rest, Plain(p.req), fault)
          \/ p.call = "next" /\ dock' = MaybeStartNextQueuedRequest(rest, fault)
  BY <1>3 DEF ServePosted
<1>5. /\ rest \in Dock /\ rest.starting = <<>> /\ rest.posted = <<>>
      /\ rest.rsm = dock.rsm /\ rest.made = dock.made /\ rest.queue = dock.queue
      /\ rest.deferred = dock.deferred /\ rest.skip = dock.skip
      /\ rest.begun = dock.begun /\ rest.compacted = dock.compacted
      /\ rest.discarded = dock.discarded
  BY <1>1, <1>3, NothingPosted DEF Dock
<1> HIDE DEF rest
<1>6. ASSUME NEW r \in Requests
      PROVE  /\ OnceFor(dock, r)
             /\ ~Posted(rest, r) /\ ~Starting(rest, r) /\ ~Compacting(rest, r)
             /\ ~Starting(dock, r) /\ ~Compacting(dock, r)
             /\ Queued(rest, r) <=> Queued(dock, r)
             /\ Posted(dock, r) <=> r = p.req
  BY <1>1, <1>2, <1>5, OneOf DEF Once, Posted, Starting, Compacting, Queued
<1>7. ASSUME NEW r \in Requests PROVE OnceFor(rest, r)
  BY <1>5, <1>6 DEF OnceFor, Unheard, Waits
<1>8. Once(rest) /\ AtRest(rest)
  BY <1>1, <1>5, <1>7 DEF Once, AtRest, Running
<1>9. CASE p.call = "start" /\ dock' = StartRequest(rest, Plain(p.req), fault)
  <2>1. p.req \in Requests
    BY <1>9 DEF PostedCall
  <2>2. /\ p.req <= rest.made /\ ~Waits(rest, p.req) /\ rest.begun[p.req] = 0
        /\ p.req \notin rest.discarded /\ rest.skip
    BY <1>5, <1>6, <2>1 DEF OnceFor, Unheard, Waits
  <2>3. MayStart(rest, Plain(p.req))
    BY <2>1, <2>2, PlainRun DEF MayStart, MayRun, Waits
  <2> QED
    BY <1>5, <1>8, <1>9, <2>1, <2>3, PlainRun, StartRequestOnce
<1>10. CASE p.call = "next" /\ dock' = MaybeStartNextQueuedRequest(rest, fault)
  BY <1>5, <1>8, <1>10, MaybeStartOnce
<1> QED
  BY <1>4, <1>9, <1>10

(* A start that comes back leaves the stack of suspended starts.           *)
LEMMA ReturnsOnce ==
    ASSUME OneDock(dock), StartReturns
    PROVE  Once(dock')
<1> DEFINE rest == [dock EXCEPT !.starting = Tail(@)]
<1>1. /\ dock \in Dock /\ dock.starting # <<>> /\ dock.posted = <<>> /\ ~Running(dock)
      /\ Once(dock)
  BY DEF OneDock, DockInv, Quiet, StartReturns
<1>2. PICK run \in Run : dock.starting = <<run>>
  BY <1>1 DEF OneDock, DockInv, Quiet
<1>3. Head(dock.starting) = run /\ Tail(dock.starting) = <<>>
  BY <1>2, OneOf
<1>4. PICK fault \in {NoFault, "start"} : dock' = Begin(rest, run, fault)
  BY <1>3 DEF StartReturns
<1>5. /\ rest \in Dock /\ rest.starting = <<>> /\ rest.posted = <<>>
      /\ rest.rsm = dock.rsm /\ rest.made = dock.made /\ rest.queue = dock.queue
      /\ rest.deferred = dock.deferred /\ rest.skip = dock.skip
      /\ rest.begun = dock.begun /\ rest.compacted = dock.compacted
      /\ rest.discarded = dock.discarded
  BY <1>1, <1>3, NothingPosted DEF Dock
<1> HIDE DEF rest
<1>6. ASSUME NEW r \in Requests
      PROVE  /\ OnceFor(dock, r)
             /\ ~Posted(rest, r) /\ ~Starting(rest, r) /\ ~Compacting(rest, r)
             /\ ~Posted(dock, r)
             /\ Starting(dock, r) <=> r = run.req /\ ~run.compaction
             /\ Compacting(dock, r) <=> r = run.req /\ run.compaction
             /\ Queued(rest, r) <=> Queued(dock, r)
  BY <1>1, <1>2, <1>5, OneOf DEF Once, Posted, Starting, Compacting, Queued
<1>7. ASSUME NEW r \in Requests PROVE OnceFor(rest, r)
  BY <1>5, <1>6 DEF OnceFor, Unheard, Waits
<1>8. Once(rest) /\ AtRest(rest)
  BY <1>1, <1>5, <1>7 DEF Once, AtRest, Running
<1>9. MayRun(rest, run)
  BY <1>5, <1>6 DEF MayRun, OnceFor, Unheard, Waits
<1> QED
  BY <1>4, <1>5, <1>8, <1>9, BeginOnce

(* Every step keeps both invariants.                                       *)
LEMMA NextOnce ==
    ASSUME OneAtATime, OneDock(dock), [DockNext]_dockVars
    PROVE  OneDock(dock')
<1>1. DockInv(dock) /\ DockInv(dock') /\ Once(dock)
  BY NextDock DEF OneDock
<1>2. CASE OnStopClicked
  BY <1>1, <1>2, ClickAtRest, StopOnce DEF OnStopClicked, OneDock
<1>3. CASE OnNewChatClicked
  <2>1. dock.posted = <<>> /\ dock.starting = <<>> /\ dock \in Dock
    BY <1>1, <1>3, ClickAtRest DEF OnNewChatClicked
  <2>2. CASE dock.stopEnabled
    <3>1. DockInv(StopClicked(dock))
      BY <1>1, <2>1, StopInv
    <3>2. Once(StopClicked(dock)) /\ StopClicked(dock).posted = <<>>
      BY <1>1, <2>1, StopOnce
    <3> QED
      BY <1>1, <1>3, <2>2, <3>1, <3>2, ClearOnce DEF OnNewChatClicked, DockInv, OneDock
  <2>3. CASE ~dock.stopEnabled
    BY <1>1, <1>3, <2>1, <2>3, ClearOnce DEF OnNewChatClicked, OneDock
  <2> QED
    BY <2>2, <2>3
<1>4. CASE OnConversationSelected \/ ReloadSessionFromDisk
  BY <1>1, <1>4, ClearOnce
     DEF OnConversationSelected, ReloadSessionFromDisk, UserMayClick, LoopIsFree,
         OneAtATime, DockInv, OneDock
<1>5. CASE UNCHANGED dockVars
  BY <1>1, <1>5 DEF dockVars, OneDock
<1> QED
  BY <1>1, <1>2, <1>3, <1>4, <1>5, RunClickedOnce, QueueClickedOnce, CompactOnce, EndsOnce,
     TurnsOnce, ServeOnce, ReturnsOnce DEF DockNext, OneDock

-----------------------------------------------------------------------------
(* A request is run at most once, never after it was given up, and with    *)
(* at most one compaction ahead of it.                                     *)
THEOREM RunOnce == ASSUME OneAtATime PROVE DockSpec => []RunsAtMostOnce
<1>1. OneDock(dock) => RunsAtMostOnce
  BY DEF OneDock, Once, OnceFor, RunsAtMostOnce
<1>2. OneDock(dock) /\ [DockNext]_dockVars => OneDock(dock)'
  BY NextOnce
<1>3. DockInit => OneDock(dock)
  BY InitDock, InitOnce DEF OneDock
<1> QED
  BY <1>1, <1>2, <1>3, PTL DEF DockSpec
=============================================================================
