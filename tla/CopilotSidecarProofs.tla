------------------------ MODULE CopilotSidecarProofs -------------------------
(***************************************************************************)
(* What the sidecar guarantees for any number of overlapping requests and  *)
(* any session keys, cancelled or failing at any await.                    *)
(*                                                                         *)
(* Three things hold the coroutines together.  The lock has one holder,    *)
(* who is in a microtask or awaits the SDK (Scheduled).  Each request      *)
(* knows from where it is what it has leased and answered (Stage).  A      *)
(* session belongs to the request that made it until it becomes the        *)
(* reusable one or is destroyed (Belongs).                                 *)
(*                                                                         *)
(* What an SDK session is set up with needs more: requests get their       *)
(* leases in the order of their numbers (Order), and the newest object of  *)
(* an SDK session is the one its options are those of (Follows).           *)
(***************************************************************************)
EXTENDS CopilotSidecarProperties, SequenceTheorems, FiniteSetTheorems, TLAPS

-----------------------------------------------------------------------------
(* The inductive invariant.                                                *)

(* Between a call of withReusableSessionLock and the release of its lock.  *)
Locked == {"enterLock", "creating", "created", "creatingExtra", "resuming",
           "resumed", "resumeFailed", "destroyingOld", "destroyedOld",
           "destroyingInvalid", "release"}

NoDuplicates(s) == \A i, j \in DOMAIN s : s[i] = s[j] => i = j

(* Where r is queued.  Only the first in line for the lock is past it.     *)
Queued(at, line, tasks, r) ==
    /\ r \in Range(line) <=> at \in Locked
    /\ r \in Range(tasks) <=> at \in Pieces /\ (at = "enterLock" => r = Head(line))
    /\ at \in Locked \ {"enterLock"} => r = Head(line)

Scheduled ==
    /\ NoDuplicates(micro)
    /\ NoDuplicates(lock)
    /\ \A r \in Requests : Queued(req[r].pc, lock, micro, r)

(* A request that has no session yet, and none on order that it could have *)
(* got.                                                                    *)
NotYet(q) ==
    \/ q.pc \in {"idle", "client", "creating", "creatingExtra", "creatingOwn",
                 "resuming", "resumeFailed", "destroyingOld", "destroyedOld"}
    \/ q.pc = "enterLock" /\ q.does = "acquire"

(* A request that has sent its prompt, or was about to.                    *)
Prompted(q) ==
    \/ q.pc \in {"waiting", "settled", "rejected", "recorded", "quota", "reply"}
    \/ q.does = "record" /\ q.pc # "done"

(* The finally block has been reached: nothing but cleaning up is left.    *)
Over(q) == q.pc = "done" \/ q.does = "invalidate"

LeaseStage(r, q) ==
    /\ NotYet(q) => /\ q.does = "acquire" /\ ~q.failed
                    /\ q.lease = NoSession /\ ~q.leaseReusable
    /\ q.failed => q.lease = NoSession
    /\ q.lease # NoSession /\ q.lease # r => q.leaseReusable
    /\ q.pc \in {"created", "resumed"} =>
          q.does = "acquire" /\ ~q.failed /\ q.lease = r /\ q.leaseReusable
    /\ q.pc \in {"release", "leased"} /\ q.does = "acquire" /\ ~q.failed
          => q.lease # NoSession
    /\ Prompted(q) => /\ q.lease # NoSession /\ q.session = q.lease
                      /\ q.reusable = q.leaseReusable

DoesStage(q) ==
    /\ q.does = "invalidate" =>
          /\ q.pc \in {"enterLock", "destroyingInvalid", "release", "done"}
          /\ q.lease # NoSession /\ q.leaseReusable
    /\ q.does = "record" =>
          q.pc \in {"enterLock", "release", "recorded", "quota", "reply", "done"}
    /\ q.pc = "destroyingInvalid" => q.does = "invalidate"
    /\ q.pc = "recorded" => q.does = "record"

AnswerStage(q) ==
    IF Over(q) THEN q.answers <= 1 /\ (~q.cancelled => q.answers = 1)
               ELSE q.answers = 0

Stage(r, q) == LeaseStage(r, q) /\ DoesStage(q) /\ AnswerStage(q)

(* r alone knows of the session it made: it keeps it for itself, or has    *)
(* not offered it yet.                                                     *)
Owned(r, q) ==
    /\ q.lease = r
    /\ ~q.leaseReusable \/ q.pc \in {"created", "resumed"}

(* Nobody but r refers to the session that r made, or is about to make.    *)
Exclusive(r) ==
    /\ reusable.session # r
    /\ \A p \in Requests \ {r} : req[p].lease # r

Belongs ==
    /\ reusable.session # NoSession =>
          /\ sessions[reusable.session].status = "open"
          /\ sessions[reusable.session].key = reusable.key
    /\ \A r \in Requests :
        /\ req[r].lease # NoSession => sessions[req[r].lease].key = req[r].key
        /\ NotYet(req[r]) => sessions[r].status = "none" /\ Exclusive(r)
        /\ Owned(r, req[r]) => Exclusive(r)
        /\ req[r].pc \in {"created", "resumed"} => sessions[r].status = "open"
        /\ req[r].pc \in {"creating", "created", "destroyingOld", "destroyedOld"}
              => reusable.session = NoSession
        /\ req[r].pc \in {"resuming", "resumeFailed"} => reusable.session # NoSession
        /\ sessions[r].status = "open" =>
              reusable.session = r \/ (Owned(r, req[r]) /\ req[r].pc # "done")

(* The type invariant, but for the options of SDK sessions.                *)
Shapes ==
    /\ req \in [Requests -> Coroutine]
    /\ reusable \in Reusable
    /\ lock \in Seq(Requests)
    /\ micro \in Seq(Requests)
    /\ sessions \in [Sessions -> SessionObject]
    /\ wanted \in SUBSET Requests
    /\ chunk \in BOOLEAN

SidecarInv ==
    /\ Shapes
    /\ Scheduled
    /\ \A r \in Requests : Stage(r, req[r])
    /\ Belongs

-----------------------------------------------------------------------------
(* Queues without duplicates.                                              *)

Pcs == {"idle", "done"} \cup External \cup Pieces

(* Without duplicates, the first one leaves and the others stay.           *)
LEMMA TailRange ==
    ASSUME NEW S, NEW s \in Seq(S), s # <<>>, NoDuplicates(s)
    PROVE  /\ Head(s) \in S /\ Head(s) \in Range(s)
           /\ Tail(s) \in Seq(S)
           /\ NoDuplicates(Tail(s))
           /\ Range(Tail(s)) = Range(s) \ {Head(s)}
           /\ Tail(s) # <<>> => Head(Tail(s)) \in Range(Tail(s))
<1>1. /\ Head(s) = s[1] /\ Head(s) \in S /\ Len(s) \in Nat \ {0}
      /\ DOMAIN s = 1..Len(s)
  BY HeadTailProperties
<1>2. /\ Tail(s) \in Seq(S) /\ Len(Tail(s)) = Len(s) - 1
      /\ \A i \in 1..Len(Tail(s)) : Tail(s)[i] = s[i + 1]
      /\ DOMAIN Tail(s) = 1..(Len(s) - 1)
  BY HeadTailProperties
<1>3. NoDuplicates(Tail(s))
  BY <1>1, <1>2 DEF NoDuplicates
<1>4. ASSUME NEW x \in Range(Tail(s))
      PROVE  x \in Range(s) /\ x # Head(s)
  <2>1. PICK i \in 1..(Len(s) - 1) : x = Tail(s)[i]
    BY <1>2 DEF Range
  <2>2. x = s[i + 1] /\ i + 1 \in DOMAIN s /\ i + 1 # 1 /\ 1 \in DOMAIN s
    BY <1>1, <1>2, <2>1
  <2> QED
    BY <1>1, <2>2 DEF Range, NoDuplicates
<1>5. ASSUME NEW x \in Range(s), x # Head(s)
      PROVE  x \in Range(Tail(s))
  <2>1. PICK i \in DOMAIN s : x = s[i]
    BY <1>5 DEF Range
  <2>2. i - 1 \in DOMAIN Tail(s) /\ Tail(s)[i - 1] = x
    BY <1>1, <1>2, <1>5, <2>1
  <2> QED
    BY <2>2 DEF Range
<1>6. Head(s) \in Range(s)
  BY <1>1 DEF Range
<1>7. ASSUME Tail(s) # <<>> PROVE Head(Tail(s)) \in Range(Tail(s))
  <2>1. Head(Tail(s)) = Tail(s)[1] /\ 1 \in DOMAIN Tail(s)
    BY <1>2, <1>7
  <2> QED
    BY <2>1 DEF Range
<1> QED
  BY <1>1, <1>2, <1>3, <1>4, <1>5, <1>6, <1>7

(* A newcomer goes last, and first only where nobody was.                  *)
LEMMA AppendRange ==
    ASSUME NEW S, NEW s \in Seq(S), NoDuplicates(s), NEW x \in S, x \notin Range(s)
    PROVE  /\ Append(s, x) \in Seq(S)
           /\ NoDuplicates(Append(s, x))
           /\ Range(Append(s, x)) = Range(s) \cup {x}
           /\ Append(s, x) # <<>>
           /\ Head(Append(s, x)) = IF s = <<>> THEN x ELSE Head(s)
<1> DEFINE n == Len(s)
           t == Append(s, x)
<1>1. /\ t \in Seq(S) /\ t # <<>> /\ Len(t) = n + 1 /\ n \in Nat
      /\ DOMAIN t = 1..(n + 1) /\ DOMAIN s = 1..n
      /\ \A i \in 1..n : t[i] = s[i]
      /\ t[n + 1] = x
  BY AppendProperties
<1>2. Head(t) = IF s = <<>> THEN x ELSE Head(s)
  BY HeadTailAppend
<1> HIDE DEF t, n
<1>3. \A i \in 1..n : s[i] # x
  BY <1>1 DEF Range
<1>4. NoDuplicates(t)
  <2> SUFFICES ASSUME NEW i \in 1..(n + 1), NEW j \in 1..(n + 1), t[i] = t[j]
               PROVE  i = j
    BY <1>1 DEF NoDuplicates
  <2>1. CASE i \in 1..n /\ j \in 1..n
    BY <1>1, <2>1 DEF NoDuplicates
  <2>2. CASE i \in 1..n /\ j = n + 1
    BY <1>1, <1>3, <2>2
  <2>3. CASE i = n + 1 /\ j \in 1..n
    BY <1>1, <1>3, <2>3
  <2> QED
    BY <1>1, <2>1, <2>2, <2>3
<1>5. Range(t) = Range(s) \cup {x}
  <2>1. ASSUME NEW y \in Range(t) PROVE y \in Range(s) \cup {x}
    BY <1>1, <2>1 DEF Range
  <2>2. ASSUME NEW y \in Range(s) PROVE y \in Range(t)
    BY <1>1, <2>2 DEF Range
  <2>3. x \in Range(t)
    BY <1>1 DEF Range
  <2> QED
    BY <2>1, <2>2, <2>3
<1> QED
  BY <1>1, <1>2, <1>4, <1>5 DEF t

(* A queue is empty when nobody is in it.                                  *)
LEMMA EmptyRange ==
    ASSUME NEW S, NEW s \in Seq(S)
    PROVE  /\ s = <<>> <=> Range(s) = {}
           /\ NoDuplicates(<<>>) /\ Range(<<>>) = {} /\ <<>> \in Seq(S)
           /\ s # <<>> => Head(s) \in Range(s)
<1>1. DOMAIN s = 1..Len(s) /\ Len(s) \in Nat
  OBVIOUS
<1>2. ASSUME s # <<>> PROVE Head(s) \in Range(s)
  <2>1. Head(s) = s[1] /\ 1 \in DOMAIN s
    BY <1>1, <1>2
  <2> QED
    BY <2>1 DEF Range
<1>3. NoDuplicates(<<>>) /\ Range(<<>>) = {} /\ <<>> \in Seq(S)
  BY DEF Range, NoDuplicates
<1> QED
  BY <1>2, <1>3

-----------------------------------------------------------------------------
(* Edits of a coroutine.                                                   *)

(* What no await changes.                                                  *)
SameRequest(q, p) ==
    /\ p.key = q.key
    /\ p.lease = q.lease /\ p.leaseReusable = q.leaseReusable
    /\ p.failed = q.failed
    /\ p.answers = q.answers /\ p.cancelled = q.cancelled
    /\ p.session = q.session /\ p.reusable = q.reusable

(* Waiting at an await changes nothing but the place.                      *)
LEMMA AtFields ==
    ASSUME NEW q \in Coroutine, NEW at \in Pcs, NEW n \in 0..2
    PROVE  /\ At(q, at, n) \in Coroutine
           /\ At(q, at, n).pc = at /\ At(q, at, n).does = q.does
           /\ SameRequest(q, At(q, at, n))
<1>1. /\ At(q, at, n) \in Coroutine /\ At(q, at, n).pc = at
  BY DEF At, Coroutine, Pcs
<1> QED
  BY <1>1 DEF At, Coroutine, SameRequest

(* Choosing what to do under the lock changes nothing else.                *)
LEMMA DoesFields ==
    ASSUME NEW q \in Coroutine, NEW does \in LockActions
    PROVE  LET p == [q EXCEPT !.does = does]
           IN  /\ p \in Coroutine /\ p.does = does /\ p.pc = q.pc
               /\ SameRequest(q, p)
<1> DEFINE p == [q EXCEPT !.does = does]
<1>1. p \in Coroutine
  BY DEF Coroutine
<1> QED
  BY <1>1 DEF Coroutine, SameRequest

(* Nor does joining the active requests, or leaving them.                  *)
LEMMA ActiveFields ==
    ASSUME NEW q \in Coroutine, NEW b \in BOOLEAN
    PROVE  LET p == [q EXCEPT !.active = b]
           IN  /\ p \in Coroutine /\ p.does = q.does /\ p.pc = q.pc
               /\ SameRequest(q, p)
<1> DEFINE p == [q EXCEPT !.active = b]
<1>1. p \in Coroutine
  BY DEF Coroutine
<1> QED
  BY <1>1 DEF Coroutine, SameRequest

(* Nor does noting that the session is to be invalidated.                  *)
LEMMA InvalidateFields ==
    ASSUME NEW q \in Coroutine, NEW b \in BOOLEAN
    PROVE  LET p == [q EXCEPT !.invalidate = b]
           IN  /\ p \in Coroutine /\ p.does = q.does /\ p.pc = q.pc
               /\ SameRequest(q, p)
<1> DEFINE p == [q EXCEPT !.invalidate = b]
<1>1. p \in Coroutine
  BY DEF Coroutine
<1> QED
  BY <1>1 DEF Coroutine, SameRequest

(* An answer is counted, and changes nothing else the invariant looks at.  *)
LEMMA AnswerFields ==
    ASSUME NEW r, NEW q \in Coroutine
    PROVE  LET p == Answer(r, q)
           IN  /\ p \in Coroutine /\ p.answers = q.answers + 1
               /\ p.does = q.does /\ p.pc = q.pc
               /\ p.key = q.key /\ p.lease = q.lease
               /\ p.leaseReusable = q.leaseReusable /\ p.failed = q.failed
               /\ p.cancelled = q.cancelled
               /\ p.session = q.session /\ p.reusable = q.reusable
<1> DEFINE p == Answer(r, q)
<1>1. p \in Coroutine
  BY DEF Coroutine, Answer
<1> QED
  BY <1>1 DEF Coroutine, Answer

-----------------------------------------------------------------------------
(* The schedule.                                                           *)

(* It is the turn of r, and rest is the microtask queue without it.        *)
Turn(r, rest) ==
    /\ rest \in Seq(Requests)
    /\ NoDuplicates(rest)
    /\ Range(rest) = Range(micro) \ {r}
    /\ req[r].pc = "enterLock" => r = Head(lock)

(* The first microtask resumes a request whose next piece is due.          *)
LEMMA HeadTurn ==
    ASSUME Shapes, Scheduled, micro # <<>>
    PROVE  /\ Head(micro) \in Requests
           /\ req[Head(micro)].pc \in Pieces
           /\ Turn(Head(micro), Tail(micro))
<1>1. /\ Head(micro) \in Requests /\ Head(micro) \in Range(micro)
      /\ Tail(micro) \in Seq(Requests) /\ NoDuplicates(Tail(micro))
      /\ Range(Tail(micro)) = Range(micro) \ {Head(micro)}
  BY TailRange DEF Shapes, Scheduled
<1> QED
  BY <1>1 DEF Turn, Scheduled, Queued

(* An event resumes a request that is in no queue.                         *)
LEMMA EventTurn ==
    ASSUME Shapes, Scheduled, NEW r \in Requests,
           req[r].pc \in External \cup {"idle"}
    PROVE  Turn(r, micro)
<1>1. r \notin Range(micro) /\ req[r].pc # "enterLock"
  BY DEF Scheduled, Queued, External, Pieces
<1> QED
  BY <1>1 DEF Turn, Shapes, Scheduled

(* One request moves, and not in or out of the lock.                       *)
LEMMA AwaitSchedule ==
    ASSUME Shapes, Scheduled, NEW r \in Requests, NEW rest, Turn(r, rest),
           NEW n, req' = [req EXCEPT ![r] = n], lock' = lock, micro' = rest,
           n.pc \in External \cup {"idle", "done"},
           n.pc \in Locked <=> req[r].pc \in Locked
    PROVE  micro' \in Seq(Requests) /\ Scheduled'
<1>1. ASSUME NEW p \in Requests PROVE Queued(req'[p].pc, lock', micro', p)
  <2>1. Queued(req[p].pc, lock, micro, p) /\ Queued(req[r].pc, lock, micro, r)
    BY DEF Scheduled
  <2>2. CASE p = r
    <3>1. req'[p] = n
      BY <2>2 DEF Shapes
    <3> QED
      BY <2>1, <2>2, <3>1 DEF Turn, Queued, External, Pieces
  <2>3. CASE p # r
    <3>1. req'[p] = req[p]
      BY <2>3 DEF Shapes
    <3> QED
      BY <2>1, <2>3, <3>1 DEF Turn, Queued
  <2> QED
    BY <2>2, <2>3
<1> QED
  BY <1>1 DEF Turn, Scheduled

(* A request goes on in a later microtask.                                 *)
LEMMA GoOnSchedule ==
    ASSUME Shapes, Scheduled, NEW r \in Requests, NEW rest, Turn(r, rest),
           NEW n, req' = [req EXCEPT ![r] = n], lock' = lock,
           micro' = Append(rest, r), n.pc \in Pieces,
           n.pc \in Locked <=> req[r].pc \in Locked
    PROVE  micro' \in Seq(Requests) /\ Scheduled'
<1>1. /\ micro' \in Seq(Requests) /\ NoDuplicates(micro')
      /\ Range(micro') = Range(micro) \cup {r}
  BY AppendRange DEF Turn
<1>2. ASSUME NEW p \in Requests PROVE Queued(req'[p].pc, lock', micro', p)
  <2>1. Queued(req[p].pc, lock, micro, p) /\ Queued(req[r].pc, lock, micro, r)
    BY DEF Scheduled
  <2>2. CASE p = r
    <3>1. req'[p] = n
      BY <2>2 DEF Shapes
    <3>2. n.pc \in Locked => r = Head(lock)
      BY <2>1 DEF Turn, Queued
    <3> QED
      BY <1>1, <2>1, <2>2, <3>1, <3>2 DEF Queued, Locked
  <2>3. CASE p # r
    <3>1. req'[p] = req[p]
      BY <2>3 DEF Shapes
    <3> QED
      BY <1>1, <2>1, <2>3, <3>1 DEF Queued
  <2> QED
    BY <2>2, <2>3
<1> QED
  BY <1>1, <1>2 DEF Scheduled

(* r gets in line for the lock, and goes on if it is the first.            *)
LEMMA EnterSchedule ==
    ASSUME Shapes, Scheduled, NEW r \in Requests, NEW rest, Turn(r, rest),
           NEW n, req' = [req EXCEPT ![r] = n], lock' = Append(lock, r),
           micro' = (IF lock = <<>> THEN Append(rest, r) ELSE rest),
           n.pc = "enterLock", req[r].pc \notin Locked
    PROVE  micro' \in Seq(Requests) /\ lock' \in Seq(Requests) /\ Scheduled'
<1>1. r \notin Range(lock)
  BY DEF Scheduled, Queued
<1>2. /\ lock' \in Seq(Requests) /\ NoDuplicates(lock')
      /\ Range(lock') = Range(lock) \cup {r}
      /\ Head(lock') = IF lock = <<>> THEN r ELSE Head(lock)
  BY <1>1, AppendRange DEF Shapes, Scheduled
<1>3. /\ Append(rest, r) \in Seq(Requests) /\ NoDuplicates(Append(rest, r))
      /\ Range(Append(rest, r)) = Range(micro) \cup {r}
      /\ rest \in Seq(Requests) /\ NoDuplicates(rest)
      /\ Range(rest) = Range(micro) \ {r}
  BY AppendRange DEF Turn
<1>4. lock = <<>> <=> Range(lock) = {}
  BY EmptyRange DEF Shapes
<1>5. lock # <<>> => Head(lock) \in Range(lock)
  BY EmptyRange DEF Shapes
<1>6. ASSUME NEW p \in Requests PROVE Queued(req'[p].pc, lock', micro', p)
  <2>1. Queued(req[p].pc, lock, micro, p)
    BY DEF Scheduled
  <2>2. CASE p = r
    <3>1. req'[p] = n
      BY <2>2 DEF Shapes
    <3>2. n.pc \in Pieces /\ n.pc \in Locked /\ n.pc \notin Locked \ {"enterLock"}
      BY DEF Pieces, Locked
    <3>3. r \in Range(micro') <=> r = Head(lock')
      BY <1>1, <1>2, <1>3, <1>5
    <3> QED
      BY <1>2, <2>2, <3>1, <3>2, <3>3 DEF Queued
  <2>3. CASE p # r
    <3>1. req'[p] = req[p]
      BY <2>3 DEF Shapes
    <3>2. p \in Range(lock') <=> p \in Range(lock)
      BY <1>2, <2>3
    <3>3. p \in Range(micro') <=> p \in Range(micro)
      BY <1>3, <2>3
    <3>4. req[p].pc \in Locked => Head(lock') = Head(lock)
      BY <1>2, <1>4, <2>1 DEF Queued
    <3>5. "enterLock" \in Locked
      BY DEF Locked
    <3> QED
      BY <2>1, <3>1, <3>2, <3>3, <3>4, <3>5 DEF Queued
  <2> QED
    BY <2>2, <2>3
<1> QED
  BY <1>2, <1>3, <1>6 DEF Scheduled

(* The holder of the lock wakes the next in line.                          *)
LEMMA ReleaseSchedule ==
    ASSUME Shapes, Scheduled, NEW r \in Requests, NEW rest, Turn(r, rest),
           req[r].pc = "release", lock' = Tail(lock),
           NEW woken,
           woken = (IF Tail(lock) = <<>> THEN rest ELSE Append(rest, Head(Tail(lock)))),
           NEW n, req' = [req EXCEPT ![r] = n],
           \/ n.pc = "done" /\ micro' = woken
           \/ n.pc \in {"leased", "recorded"} /\ micro' = Append(woken, r)
    PROVE  micro' \in Seq(Requests) /\ lock' \in Seq(Requests) /\ Scheduled'
<1> DEFINE others == Tail(lock)
           next == Head(others)
<1>0. ASSUME NEW s \in Seq(Requests), NoDuplicates(s), r \notin Range(s)
      PROVE  /\ Append(s, r) \in Seq(Requests) /\ NoDuplicates(Append(s, r))
             /\ Range(Append(s, r)) = Range(s) \cup {r}
  BY <1>0, AppendRange
<1>1. r \in Range(lock) /\ r = Head(lock)
  BY DEF Scheduled, Queued, Locked
<1>2. lock # <<>>
  BY <1>1 DEF Range
<1>3. /\ others \in Seq(Requests) /\ NoDuplicates(others)
      /\ Range(others) = Range(lock) \ {r}
      /\ others # <<>> => next \in Range(others)
  BY <1>1, <1>2, TailRange DEF Shapes, Scheduled
<1>4. others = <<>> <=> Range(others) = {}
  BY <1>3, EmptyRange
<1>5. ASSUME others # <<>>
      PROVE  next \in Requests /\ next # r /\ req[next].pc = "enterLock" /\ next \notin Range(micro)
  <2>1. next \in Range(others)
    BY <1>3, <1>5
  <2>2. \A p \in Range(others) : p \in Requests
    BY <1>3 DEF Range
  <2>3. next \in Requests /\ next # r /\ next \in Range(lock)
    BY <1>3, <2>1, <2>2
  <2>4. Queued(req[next].pc, lock, micro, next)
    BY <2>3 DEF Scheduled
  <2> QED
    BY <1>1, <2>3, <2>4 DEF Queued
<1> HIDE DEF next, others
<1>6. /\ rest \in Seq(Requests) /\ NoDuplicates(rest)
      /\ Range(rest) = Range(micro) \ {r}
  BY DEF Turn
<1>7. /\ woken \in Seq(Requests) /\ NoDuplicates(woken) /\ r \notin Range(woken)
      /\ \A p \in Requests \ {r} :
            p \in Range(woken) <=> p \in Range(micro) \/ (others # <<>> /\ p = next)
  <2>1. CASE others = <<>>
    BY <1>6, <2>1 DEF others
  <2>2. CASE others # <<>>
    <3>1. woken = Append(rest, next)
      BY <2>2 DEF others, next
    <3>2. next \notin Range(rest) /\ next \in Requests /\ next # r
      BY <1>5, <1>6, <2>2
    <3>3. /\ Append(rest, next) \in Seq(Requests) /\ NoDuplicates(Append(rest, next))
          /\ Range(Append(rest, next)) = Range(rest) \cup {next}
      BY <1>6, <3>2, AppendRange
    <3> QED
      BY <1>6, <2>2, <3>1, <3>2, <3>3
  <2> QED
    BY <2>1, <2>2
<1>8. /\ micro' \in Seq(Requests) /\ NoDuplicates(micro')
      /\ r \in Range(micro') <=> n.pc # "done"
      /\ \A p \in Requests \ {r} : p \in Range(micro') <=> p \in Range(woken)
  <2>1. CASE n.pc = "done" /\ micro' = woken
    BY <1>7, <2>1
  <2>2. CASE n.pc \in {"leased", "recorded"} /\ micro' = Append(woken, r)
    <3>1. woken \in Seq(Requests) /\ NoDuplicates(woken) /\ r \notin Range(woken)
      BY <1>7
    <3>2. /\ Append(woken, r) \in Seq(Requests) /\ NoDuplicates(Append(woken, r))
          /\ Range(Append(woken, r)) = Range(woken) \cup {r}
      BY <1>0, <3>1
    <3> QED
      BY <2>2, <3>1, <3>2
  <2> QED
    BY <2>1, <2>2
<1>9. ASSUME NEW p \in Requests PROVE Queued(req'[p].pc, lock', micro', p)
  <2>1. lock' = others
    BY DEF others
  <2>2. CASE p = r
    <3>1. req'[p] = n
      BY <2>2 DEF Shapes
    <3> QED
      BY <1>3, <1>8, <2>1, <2>2, <3>1 DEF Queued, Locked, Pieces
  <2>3. CASE p # r
    <3>1. req'[p] = req[p]
      BY <2>3 DEF Shapes
    <3>2. Queued(req[p].pc, lock, micro, p)
      BY DEF Scheduled
    <3>3. p \in Range(lock') <=> p \in Range(lock)
      BY <1>3, <2>1, <2>3
    <3>4. p \in Range(micro') <=> p \in Range(micro) \/ (others # <<>> /\ p = next)
      BY <1>7, <1>8, <2>3
    <3>5. "enterLock" \in Pieces /\ "enterLock" \in Locked
      BY DEF Pieces, Locked
    <3>6. req[p].pc \in Locked => req[p].pc = "enterLock" /\ p # Head(lock) /\ others # <<>>
      BY <1>1, <1>3, <1>4, <2>3, <3>2 DEF Queued
    <3>7. Head(lock') = next
      BY <2>1 DEF next
    <3>8. CASE req[p].pc \in Locked
      <4>1. p \notin Range(micro) /\ req[p].pc = "enterLock" /\ others # <<>>
        BY <3>2, <3>5, <3>6, <3>8 DEF Queued
      <4> QED
        BY <3>1, <3>2, <3>3, <3>4, <3>5, <3>7, <3>8, <4>1 DEF Queued
    <3>9. CASE req[p].pc \notin Locked
      <4>1. p # next \/ others = <<>>
        BY <1>5, <3>5, <3>9
      <4> QED
        BY <3>1, <3>2, <3>3, <3>4, <3>5, <3>9, <4>1 DEF Queued
    <3> QED
      BY <3>8, <3>9
  <2> QED
    BY <2>2, <2>3
<1> QED
  BY <1>3, <1>8, <1>9 DEF Scheduled, others

-----------------------------------------------------------------------------
(* Sessions.                                                               *)

(* Sessions are numbered by the requests that made them.                   *)
LEMMA Numbers == Sessions = Requests /\ NoSession \notin Requests
BY SidecarAssumption DEF Sessions, Requests, NoSession

(* Where the reusable session is known to be gone.                         *)
Replacing == {"creating", "created", "destroyingOld", "destroyedOld"}

Offering == {"created", "resumed"}

Resuming == {"resuming", "resumeFailed"}

(* A move that leaves p with the session it had.                           *)
Quiet(p, q, n) ==
    /\ n.lease = q.lease /\ n.leaseReusable = q.leaseReusable
    /\ n.key = q.key \/ n.lease = NoSession
    /\ NotYet(n) => NotYet(q)
    /\ n.pc \in Offering => n.pc = q.pc
    /\ Owned(p, q) /\ q.pc # "done" => Owned(p, n) /\ n.pc # "done"
    /\ n.pc \in Replacing => reusable.session = NoSession
    /\ n.pc \in Resuming => reusable.session # NoSession

(* While no session changes, and no request lays claim to one, all belong  *)
(* where they did.                                                         *)
LEMMA QuietBelongs ==
    ASSUME Shapes, Belongs, sessions' = sessions,
           reusable'.session = reusable.session, reusable'.key = reusable.key,
           \A p \in Requests : Quiet(p, req[p], req'[p])
    PROVE  Belongs'
<1>1. ASSUME NEW p \in Requests
      PROVE  /\ req'[p].lease = req[p].lease
             /\ req'[p].lease # NoSession => req'[p].key = req[p].key
             /\ NotYet(req'[p]) => NotYet(req[p])
             /\ Owned(p, req'[p]) => Owned(p, req[p])
             /\ req'[p].pc \in Offering => req[p].pc \in Offering
             /\ Owned(p, req[p]) /\ req[p].pc # "done"
                   => Owned(p, req'[p]) /\ req'[p].pc # "done"
             /\ req'[p].pc \in Replacing => reusable.session = NoSession
             /\ req'[p].pc \in Resuming => reusable.session # NoSession
  BY DEF Quiet, Owned, Offering
<1>2. ASSUME NEW p \in Requests, Exclusive(p) PROVE Exclusive(p)'
  BY <1>1, <1>2 DEF Exclusive
<1>3. ASSUME NEW p \in Requests
      PROVE  /\ (req[p].lease # NoSession => sessions[req[p].lease].key = req[p].key)'
             /\ (NotYet(req[p]) => sessions[p].status = "none" /\ Exclusive(p))'
             /\ (Owned(p, req[p]) => Exclusive(p))'
             /\ (req[p].pc \in Offering => sessions[p].status = "open")'
             /\ (req[p].pc \in Replacing => reusable.session = NoSession)'
             /\ (req[p].pc \in Resuming => reusable.session # NoSession)'
             /\ (sessions[p].status = "open" =>
                   reusable.session = p \/ (Owned(p, req[p]) /\ req[p].pc # "done"))'
  BY <1>1, <1>2 DEF Belongs, Offering, Replacing, Resuming
<1>4. (reusable.session # NoSession =>
          /\ sessions[reusable.session].status = "open"
          /\ sessions[reusable.session].key = reusable.key)'
  BY DEF Belongs
<1> QED
  BY <1>3, <1>4 DEF Belongs, Offering, Replacing, Resuming

(* The finally block destroys a session that nobody else knows of.         *)
LEMMA DestroyBelongs ==
    ASSUME Shapes, Belongs, NEW r \in Requests, Owned(r, req[r]),
           NEW n, req' = [req EXCEPT ![r] = n], reusable' = reusable, Destroy(r),
           n.lease = req[r].lease, n.key = req[r].key, n.pc = "done"
    PROVE  Belongs'
<1>1. /\ req'[r] = n
      /\ \A p \in Requests \ {r} : req'[p] = req[p]
  BY DEF Shapes
<1>2. /\ sessions'[r].status = "destroyed"
      /\ \A p \in Requests : sessions'[p].key = sessions[p].key
      /\ \A p \in Requests \ {r} : sessions'[p] = sessions[p]
  BY Numbers DEF Destroy, Shapes, SessionObject
<1>3. Exclusive(r)
  BY DEF Belongs
<1>4. ASSUME NEW p \in Requests, Exclusive(p) PROVE Exclusive(p)'
  BY <1>1, <1>4 DEF Exclusive
<1>5. ~NotYet(n)
  BY DEF NotYet
<1>6. \A p \in Requests : req[p].lease \in Requests \cup {NoSession}
  BY Numbers DEF Shapes, Coroutine
<1>7. ASSUME NEW p \in Requests
      PROVE  /\ (req[p].lease # NoSession => sessions[req[p].lease].key = req[p].key)'
             /\ (NotYet(req[p]) => sessions[p].status = "none" /\ Exclusive(p))'
             /\ (Owned(p, req[p]) => Exclusive(p))'
             /\ (req[p].pc \in Offering => sessions[p].status = "open")'
             /\ (req[p].pc \in Replacing => reusable.session = NoSession)'
             /\ (req[p].pc \in Resuming => reusable.session # NoSession)'
             /\ (sessions[p].status = "open" =>
                   reusable.session = p \/ (Owned(p, req[p]) /\ req[p].pc # "done"))'
  <2>1. CASE p = r
    BY <1>1, <1>2, <1>3, <1>4, <1>5, <1>6, <2>1 DEF Belongs, Offering, Replacing, Resuming
  <2>2. CASE p # r
    BY <1>1, <1>2, <1>4, <1>6, <2>2 DEF Belongs, Offering, Replacing, Resuming
  <2> QED
    BY <2>1, <2>2
<1>8. (reusable.session # NoSession =>
          /\ sessions[reusable.session].status = "open"
          /\ sessions[reusable.session].key = reusable.key)'
  <2>1. reusable.session \in Requests \cup {NoSession} /\ reusable.session # r
    BY <1>3, Numbers DEF Shapes, Reusable, Exclusive
  <2> QED
    BY <1>2, <2>1 DEF Belongs
<1> QED
  BY <1>7, <1>8 DEF Belongs, Offering, Replacing, Resuming

(* The reusable session is destroyed, and there is none.                   *)
LEMMA DropBelongs ==
    ASSUME Shapes, Belongs, \A p \in Requests : Stage(p, req[p]),
           Scheduled, NEW r \in Requests, r = Head(lock), ~Owned(r, req[r]),
           NEW n, req' = [req EXCEPT ![r] = n], n.pc \notin Resuming,
           n.leaseReusable = req[r].leaseReusable, n.lease = req[r].lease,
           n.key = req[r].key, NotYet(n) => NotYet(req[r]), n.pc \notin Offering,
           reusable.session # NoSession, Destroy(reusable.session),
           reusable' = NoReusable
    PROVE  Belongs'
<1> DEFINE s == reusable.session
<1>1. /\ req'[r] = n
      /\ \A p \in Requests \ {r} : req'[p] = req[p]
  BY DEF Shapes
<1>2. /\ s \in Requests
      /\ sessions'[s].status = "destroyed"
      /\ \A p \in Requests : sessions'[p].key = sessions[p].key
      /\ \A p \in Requests \ {s} : sessions'[p] = sessions[p]
  BY Numbers DEF Destroy, Shapes, SessionObject, Reusable
<1>3. reusable'.session = NoSession
  BY DEF NoReusable
<1>4. ASSUME NEW p \in Requests, Exclusive(p) PROVE Exclusive(p)' /\ p # s
  BY <1>1, <1>3, <1>4, Numbers DEF Exclusive
<1>5. ~Owned(r, n)
  BY DEF Owned, Offering
<1>6. \A p \in Requests : req[p].lease \in Requests \cup {NoSession}
  BY Numbers DEF Shapes, Coroutine
<1>7. ASSUME NEW p \in Requests, req[p].pc \in Offering PROVE Owned(p, req[p])
  BY <1>7 DEF Offering, Stage, LeaseStage, Owned
<1>9. ASSUME NEW p \in Requests \ {r} PROVE req[p].pc \notin Resuming
  BY DEF Scheduled, Queued, Resuming, Locked
<1> HIDE DEF s
<1>8. ASSUME NEW p \in Requests
      PROVE  /\ (req[p].lease # NoSession => sessions[req[p].lease].key = req[p].key)'
             /\ (NotYet(req[p]) => sessions[p].status = "none" /\ Exclusive(p))'
             /\ (Owned(p, req[p]) => Exclusive(p))'
             /\ (req[p].pc \in Offering => sessions[p].status = "open")'
             /\ (req[p].pc \in Resuming => reusable.session # NoSession)'
             /\ (sessions[p].status = "open" =>
                   reusable.session = p \/ (Owned(p, req[p]) /\ req[p].pc # "done"))'
  <2>1. CASE p = r
    BY <1>1, <1>2, <1>4, <1>5, <1>6, <2>1 DEF Belongs, Offering, s
  <2>2. CASE p # r
    BY <1>1, <1>2, <1>4, <1>6, <1>7, <1>9, <2>2 DEF Belongs, Offering, s
  <2> QED
    BY <2>1, <2>2
<1> QED
  BY <1>3, <1>8 DEF Belongs, Offering, Resuming

(* The reusable session is leased to one more request.                     *)
LEMMA LeaseBelongs ==
    ASSUME Shapes, Belongs, NEW r \in Requests, NotYet(req[r]),
           NEW n, req' = [req EXCEPT ![r] = n], UNCHANGED <<reusable, sessions>>,
           reusable.session # NoSession, reusable.key = n.key,
           n.lease = reusable.session, n.leaseReusable, n.pc = "release"
    PROVE  Belongs'
<1>1. /\ req'[r] = n
      /\ \A p \in Requests \ {r} : req'[p] = req[p]
  BY DEF Shapes
<1>2. ASSUME NEW p \in Requests, Exclusive(p) PROVE Exclusive(p)'
  BY <1>1, <1>2 DEF Exclusive
<1>3. ~Owned(r, n) /\ ~NotYet(n)
  BY DEF Owned, NotYet
<1>4. Exclusive(r) /\ sessions[r].status = "none"
  BY DEF Belongs
<1>5. ASSUME NEW p \in Requests
      PROVE  /\ (req[p].lease # NoSession => sessions[req[p].lease].key = req[p].key)'
             /\ (NotYet(req[p]) => sessions[p].status = "none" /\ Exclusive(p))'
             /\ (Owned(p, req[p]) => Exclusive(p))'
             /\ (req[p].pc \in Offering => sessions[p].status = "open")'
             /\ (req[p].pc \in Replacing => reusable.session = NoSession)'
             /\ (req[p].pc \in Resuming => reusable.session # NoSession)'
             /\ (sessions[p].status = "open" =>
                   reusable.session = p \/ (Owned(p, req[p]) /\ req[p].pc # "done"))'
  <2>1. CASE p = r
    BY <1>1, <1>3, <1>4, <2>1 DEF Belongs, Offering, Replacing, Resuming
  <2>2. CASE p # r
    BY <1>1, <1>2, <2>2 DEF Belongs, Offering, Replacing, Resuming
  <2> QED
    BY <2>1, <2>2
<1> QED
  BY <1>5 DEF Belongs, Offering, Replacing, Resuming

(* A request offers the session it made.  An older one is gone with it.    *)
LEMMA OfferBelongs ==
    ASSUME Shapes, Scheduled, Belongs, \A p \in Requests : Stage(p, req[p]),
           NEW r \in Requests, req[r].pc \in Offering,
           NEW n, req' = [req EXCEPT ![r] = n],
           n.lease = req[r].lease, n.leaseReusable, n.key = req[r].key, n.pc = "release",
           reusable' = [session |-> r, key |-> n.key, invalidated |-> FALSE],
           \/ req[r].pc = "created" /\ sessions' = sessions
           \/ sessions' = [sessions EXCEPT ![reusable.session].status = "replaced"]
    PROVE  Belongs'
<1> DEFINE s == reusable.session
<1>1. /\ req'[r] = n
      /\ \A p \in Requests \ {r} : req'[p] = req[p]
  BY DEF Shapes
<1>2. Owned(r, req[r])
  BY DEF Offering, Stage, LeaseStage, Owned
<1>3. Exclusive(r) /\ sessions[r].status = "open" /\ n.lease = r /\ sessions[r].key = n.key
  BY <1>2, Numbers DEF Belongs, Owned, Offering
<1>4. s \in Requests \cup {NoSession} /\ s # r
  BY <1>3, Numbers DEF Shapes, Reusable, Exclusive
<1>5. /\ \A p \in Requests : sessions'[p].key = sessions[p].key
      /\ \A p \in Requests \ {s} : sessions'[p] = sessions[p]
      /\ s \in Requests => sessions'[s].status # "open"
  <2>1. CASE req[r].pc = "created" /\ sessions' = sessions
    BY <2>1, Numbers DEF Belongs
  <2>2. CASE sessions' = [sessions EXCEPT ![s].status = "replaced"]
    BY <2>2, Numbers DEF Shapes, SessionObject
  <2> QED
    BY <2>1, <2>2
<1>6. reusable'.session = r /\ reusable'.key = n.key
  OBVIOUS
<1>7. ASSUME NEW p \in Requests \ {r}, Exclusive(p) PROVE Exclusive(p)' /\ p # s
  BY <1>1, <1>3, <1>6, <1>7 DEF Exclusive
<1>8. \A p \in Requests : req[p].lease \in Requests \cup {NoSession}
  BY Numbers DEF Shapes, Coroutine
<1>9. ASSUME NEW p \in Requests \ {r} PROVE req[p].pc \notin Replacing \cup Offering \cup Resuming
  <2>1. Queued(req[p].pc, lock, micro, p) /\ Queued(req[r].pc, lock, micro, r)
    BY DEF Scheduled
  <2> QED
    BY <2>1 DEF Queued, Replacing, Offering, Resuming, Locked
<1>10. ~Owned(r, n) /\ ~NotYet(n)
  BY DEF Owned, NotYet
<1> HIDE DEF s
<1>11. ASSUME NEW p \in Requests
      PROVE  /\ (req[p].lease # NoSession => sessions[req[p].lease].key = req[p].key)'
             /\ (NotYet(req[p]) => sessions[p].status = "none" /\ Exclusive(p))'
             /\ (Owned(p, req[p]) => Exclusive(p))'
             /\ (req[p].pc \in Offering => sessions[p].status = "open")'
             /\ (req[p].pc \in Replacing => reusable.session = NoSession)'
             /\ (req[p].pc \in Resuming => reusable.session # NoSession)'
             /\ (sessions[p].status = "open" =>
                   reusable.session = p \/ (Owned(p, req[p]) /\ req[p].pc # "done"))'
  <2>1. CASE p = r
    BY <1>1, <1>3, <1>5, <1>6, <1>10, <2>1 DEF Offering, Replacing, Resuming
  <2>2. CASE p # r
    BY <1>1, <1>5, <1>7, <1>8, <1>9, <2>2 DEF Belongs, s
  <2> QED
    BY <2>1, <2>2
<1>12. sessions'[r].status = "open" /\ sessions'[r].key = n.key
  BY <1>3, <1>4, <1>5
<1> QED
  BY <1>6, <1>11, <1>12 DEF Belongs, Offering, Replacing, Resuming

(* A session object arrives for the request that ordered it.               *)
LEMMA ArriveBelongs ==
    ASSUME Shapes, Belongs, NEW r \in Requests, NotYet(req[r]),
           NEW n, req' = [req EXCEPT ![r] = n], reusable' = reusable,
           NEW id,
           sessions' = [sessions EXCEPT ![r] = [status |-> "open", key |-> n.key, id |-> id]],
           n.lease = r, ~n.leaseReusable \/ n.pc \in Offering, n.pc # "done", ~NotYet(n),
           n.pc \in Replacing => reusable.session = NoSession, n.pc \notin Resuming
    PROVE  Belongs'
<1>1. /\ req'[r] = n
      /\ \A p \in Requests \ {r} : req'[p] = req[p]
  BY DEF Shapes
<1>2. /\ sessions'[r].status = "open" /\ sessions'[r].key = n.key
      /\ \A p \in Requests \ {r} : sessions'[p] = sessions[p]
  BY Numbers DEF Shapes
<1>3. Exclusive(r) /\ sessions[r].status = "none"
  BY DEF Belongs
<1>4. ASSUME NEW p \in Requests, Exclusive(p) PROVE Exclusive(p)'
  BY <1>1, <1>4 DEF Exclusive
<1>5. Owned(r, n)
  BY DEF Owned, Offering
<1>6. \A p \in Requests : req[p].lease \in Requests \cup {NoSession}
  BY Numbers DEF Shapes, Coroutine
<1>7. ASSUME NEW p \in Requests
      PROVE  /\ (req[p].lease # NoSession => sessions[req[p].lease].key = req[p].key)'
             /\ (NotYet(req[p]) => sessions[p].status = "none" /\ Exclusive(p))'
             /\ (Owned(p, req[p]) => Exclusive(p))'
             /\ (req[p].pc \in Offering => sessions[p].status = "open")'
             /\ (req[p].pc \in Replacing => reusable.session = NoSession)'
             /\ (req[p].pc \in Resuming => reusable.session # NoSession)'
             /\ (sessions[p].status = "open" =>
                   reusable.session = p \/ (Owned(p, req[p]) /\ req[p].pc # "done"))'
  <2>1. CASE p = r
    BY <1>1, <1>2, <1>3, <1>4, <1>5, <2>1
  <2>2. CASE p # r
    BY <1>1, <1>2, <1>3, <1>4, <1>6, <2>2 DEF Belongs, Offering, Replacing, Resuming, Exclusive
  <2> QED
    BY <2>1, <2>2
<1>8. (reusable.session # NoSession =>
          /\ sessions[reusable.session].status = "open"
          /\ sessions[reusable.session].key = reusable.key)'
  <2>1. reusable.session \in Requests \cup {NoSession} /\ reusable.session # r
    BY <1>3, Numbers DEF Shapes, Reusable, Exclusive
  <2> QED
    BY <1>2, <2>1 DEF Belongs
<1> QED
  BY <1>7, <1>8 DEF Belongs, Offering, Replacing, Resuming

-----------------------------------------------------------------------------
(* One move of one request.                                                *)

SidecarTypes ==
    /\ reusable \in Reusable
    /\ sessions \in [Sessions -> SessionObject]
    /\ wanted \in SUBSET Requests
    /\ chunk \in BOOLEAN

(* One request moves: its stage, the queues and the sessions fit again.    *)
LEMMA MoveKeeps ==
    ASSUME SidecarInv, NEW r \in Requests, NEW n \in Coroutine,
           req' = [req EXCEPT ![r] = n], Stage(r, n),
           micro' \in Seq(Requests), lock' \in Seq(Requests), Scheduled',
           Belongs', SidecarTypes'
    PROVE  SidecarInv'
<1>1. Shapes'
  BY DEF SidecarInv, Shapes, SidecarTypes
<1>2. \A p \in Requests : req'[p] = IF p = r THEN n ELSE req[p]
  BY DEF SidecarInv, Shapes
<1>3. \A p \in Requests : Stage(p, req'[p])
  BY <1>2 DEF SidecarInv
<1> QED
  BY <1>1, <1>3 DEF SidecarInv

(* One request moves, and claims no session by it.                         *)
LEMMA OneQuiet ==
    ASSUME SidecarInv, NEW r \in Requests, NEW n, req' = [req EXCEPT ![r] = n],
           Quiet(r, req[r], n), sessions' = sessions,
           reusable'.session = reusable.session, reusable'.key = reusable.key
    PROVE  Belongs'
<1>1. \A p \in Requests : req'[p] = IF p = r THEN n ELSE req[p]
  BY DEF SidecarInv, Shapes
<1>2. \A p \in Requests : Quiet(p, req[p], req[p])
  BY DEF SidecarInv, Belongs, Quiet, Replacing, Resuming
<1> QED
  BY <1>1, <1>2, QuietBelongs DEF SidecarInv

(* Such a request awaits the SDK, or is done.                              *)
LEMMA QuietAwait ==
    ASSUME SidecarInv, NEW r \in Requests, NEW rest, Turn(r, rest),
           NEW n \in Coroutine, Stage(r, n), Quiet(r, req[r], n),
           req' = [req EXCEPT ![r] = n], micro' = rest, lock' = lock,
           n.pc \in External \cup {"done"},
           n.pc \in Locked <=> req[r].pc \in Locked,
           reusable' = reusable, sessions' = sessions, SidecarTypes'
    PROVE  SidecarInv'
<1>1. micro' \in Seq(Requests) /\ Scheduled'
  BY AwaitSchedule DEF SidecarInv
<1>2. Belongs'
  BY OneQuiet
<1>3. lock' \in Seq(Requests)
  BY DEF SidecarInv, Shapes
<1> QED
  BY <1>1, <1>2, <1>3, MoveKeeps

(* Such a request goes on in a later microtask.                            *)
LEMMA QuietGoOn ==
    ASSUME SidecarInv, NEW r \in Requests, NEW rest, Turn(r, rest),
           NEW n \in Coroutine, Stage(r, n), Quiet(r, req[r], n),
           req' = [req EXCEPT ![r] = n], micro' = Append(rest, r), lock' = lock,
           n.pc \in Pieces, n.pc \in Locked <=> req[r].pc \in Locked,
           reusable'.session = reusable.session, reusable'.key = reusable.key,
           sessions' = sessions, SidecarTypes'
    PROVE  SidecarInv'
<1>1. micro' \in Seq(Requests) /\ Scheduled'
  BY GoOnSchedule DEF SidecarInv
<1>2. Belongs'
  BY OneQuiet
<1>3. lock' \in Seq(Requests)
  BY DEF SidecarInv, Shapes
<1> QED
  BY <1>1, <1>2, <1>3, MoveKeeps

(* Such a request gets in line for the lock.                               *)
LEMMA QuietEnter ==
    ASSUME SidecarInv, NEW r \in Requests, NEW rest, Turn(r, rest),
           NEW q \in Coroutine, NEW does \in LockActions, EnterLock(r, q, does, rest),
           req[r].pc \notin Locked,
           \A n \in Coroutine : n.pc = "enterLock" /\ n.does = does /\ SameRequest(q, n)
               => Stage(r, n) /\ Quiet(r, req[r], n),
           reusable' = reusable, sessions' = sessions, SidecarTypes'
    PROVE  SidecarInv'
<1> DEFINE p == [q EXCEPT !.does = does]
           n == At(p, "enterLock", 0)
<1>1. p \in Coroutine /\ p.does = does /\ SameRequest(q, p)
  BY DoesFields
<1> HIDE DEF p
<1>2. /\ n \in Coroutine /\ n.pc = "enterLock" /\ n.does = p.does
      /\ SameRequest(p, n)
  BY <1>1, AtFields DEF Pcs, Pieces
<1>3. SameRequest(q, n)
  BY <1>1, <1>2 DEF SameRequest
<1>4. /\ req' = [req EXCEPT ![r] = n] /\ lock' = Append(lock, r)
      /\ micro' = IF lock = <<>> THEN Append(rest, r) ELSE rest
  BY DEF EnterLock, p
<1> HIDE DEF n
<1>5. Stage(r, n) /\ Quiet(r, req[r], n)
  BY <1>1, <1>2, <1>3
<1>6. micro' \in Seq(Requests) /\ lock' \in Seq(Requests) /\ Scheduled'
  BY <1>2, <1>4, EnterSchedule DEF SidecarInv
<1>7. Belongs'
  BY <1>4, <1>5, OneQuiet
<1> QED
  BY <1>2, <1>4, <1>5, <1>6, <1>7, MoveKeeps

-----------------------------------------------------------------------------
(* The finally block, reached from the catch block or the end of the try.  *)

(* What the finally block may be entered with.                             *)
Ending(r, q) ==
    /\ q \in Coroutine
    /\ q.key = req[r].key /\ q.lease = req[r].lease
    /\ q.leaseReusable = req[r].leaseReusable /\ q.failed = req[r].failed
    /\ q.does = req[r].does
    /\ q.lease # NoSession => q.reusable = q.leaseReusable
    /\ q.answers <= 1 /\ (~q.cancelled => q.answers = 1)

(* The finally block: a session of its own is destroyed here, the reusable *)
(* one under the lock.                                                     *)
LEMMA FinallyKeeps ==
    ASSUME SidecarInv, NEW r \in Requests, NEW rest, Turn(r, rest),
           req[r].pc \in {"leased", "settled", "rejected", "reply"},
           NEW q, Ending(r, q), Finally(r, q, rest), reusable' = reusable,
           (wanted \in SUBSET Requests)', (chunk \in BOOLEAN)'
    PROVE  SidecarInv'
<1> DEFINE left == [q EXCEPT !.active = FALSE]
           over == At(left, "done", 0)
<1>1. /\ left \in Coroutine /\ left.does = q.does /\ left.pc = q.pc
      /\ SameRequest(q, left)
  BY ActiveFields DEF Ending
<1>2. /\ \/ EnterLock(r, left, "invalidate", rest)
            /\ q.lease # NoSession /\ q.reusable /\ sessions' = sessions
         \/ Await(r, left, "done", rest) /\ lock' = lock
            /\ q.lease # NoSession /\ ~q.reusable /\ Destroy(q.lease)
         \/ Await(r, left, "done", rest) /\ lock' = lock
            /\ (q.lease = NoSession \/ q.reusable) /\ sessions' = sessions
  BY DEF Finally
<1>3. Stage(r, req[r]) /\ ~NotYet(req[r]) /\ req[r].does # "invalidate"
  BY DEF SidecarInv, Stage, DoesStage, NotYet
<1> HIDE DEF left
<1>4. /\ over \in Coroutine /\ over.pc = "done" /\ over.does = left.does
      /\ SameRequest(left, over)
  BY <1>1, AtFields DEF Pcs
<1>5. Await(r, left, "done", rest) => req' = [req EXCEPT ![r] = over] /\ micro' = rest
  BY DEF Await
<1> HIDE DEF over
<1>6. req[r].pc \notin Locked
  BY DEF Locked
<1>7. Stage(r, over)
  BY <1>1, <1>3, <1>4
  DEF Ending, SameRequest, Stage, LeaseStage, DoesStage, AnswerStage, NotYet, Prompted, Over
<1>8. q.reusable /\ q.lease # NoSession => ~Owned(r, req[r])
  BY DEF Ending, Owned
<1>9. (reusable \in Reusable)'
  BY DEF SidecarInv, Shapes
<1>10. sessions' = sessions => SidecarTypes'
  BY <1>9 DEF SidecarInv, Shapes, SidecarTypes
<1>11. CASE /\ EnterLock(r, left, "invalidate", rest)
            /\ q.lease # NoSession /\ q.reusable /\ sessions' = sessions
  <2>1. ASSUME NEW n \in Coroutine, n.pc = "enterLock", n.does = "invalidate",
               SameRequest(left, n)
        PROVE  Stage(r, n) /\ Quiet(r, req[r], n)
    <3>1. Stage(r, n)
      BY <1>1, <1>3, <1>11, <2>1
      DEF Ending, SameRequest, Stage, LeaseStage, DoesStage, AnswerStage, NotYet, Prompted, Over
    <3>2. Quiet(r, req[r], n)
      BY <1>1, <1>8, <1>11, <2>1
      DEF Ending, SameRequest, Quiet, NotYet, Offering, Replacing, Resuming
    <3> QED
      BY <3>1, <3>2
  <2> QED
    BY <1>1, <1>6, <1>10, <1>11, <2>1, QuietEnter DEF LockActions
<1>12. CASE /\ Await(r, left, "done", rest) /\ lock' = lock
            /\ q.lease # NoSession /\ ~q.reusable /\ Destroy(q.lease)
  <2>1. q.lease = r /\ Owned(r, req[r])
    BY <1>3, <1>12 DEF Ending, Stage, LeaseStage, Owned
  <2>2. Destroy(r)
    BY <1>12, <2>1
  <2>3. Belongs'
    <3>1. over.lease = req[r].lease /\ over.key = req[r].key
      BY <1>1, <1>4 DEF SameRequest, Ending
    <3> QED
      BY <1>4, <1>5, <1>12, <2>1, <2>2, <3>1, DestroyBelongs DEF SidecarInv
  <2>4. micro' \in Seq(Requests) /\ Scheduled'
    BY <1>4, <1>5, <1>6, <1>12, AwaitSchedule DEF SidecarInv, Locked
  <2>5. (sessions \in [Sessions -> SessionObject])'
    BY <2>2 DEF SidecarInv, Shapes, Destroy, SessionObject
  <2>6. lock' \in Seq(Requests) /\ SidecarTypes'
    BY <1>9, <1>12, <2>5 DEF SidecarInv, Shapes, SidecarTypes
  <2> QED
    BY <1>4, <1>5, <1>7, <1>12, <2>3, <2>4, <2>6, MoveKeeps
<1>13. CASE /\ Await(r, left, "done", rest) /\ lock' = lock
            /\ (q.lease = NoSession \/ q.reusable) /\ sessions' = sessions
  <2>1. ~Owned(r, req[r])
    BY <1>8, <1>13, Numbers DEF Ending, Owned
  <2>2. Quiet(r, req[r], over)
    BY <1>1, <1>4, <2>1
    DEF Ending, SameRequest, Quiet, NotYet, Offering, Replacing, Resuming, Stage, DoesStage
  <2> QED
    BY <1>4, <1>5, <1>6, <1>7, <1>10, <1>13, <2>2, QuietAwait DEF Locked
<1> QED
  BY <1>2, <1>11, <1>12, <1>13

(* The catch block reports the error unless the request was cancelled.     *)
LEMMA CatchEnds ==
    ASSUME SidecarInv, NEW r \in Requests, NEW rest,
           req[r].pc \in {"leased", "rejected"},
           req[r].lease # NoSession => req[r].reusable = req[r].leaseReusable,
           Catch(r, req[r], rest)
    PROVE  /\ \E q : Ending(r, q) /\ Finally(r, q, rest)
           /\ wanted' = wanted \ {r}
<1> DEFINE old == req[r]
           said == IF old.cancelled THEN old ELSE Answer(r, old)
           q == [said EXCEPT !.invalidate = said.invalidate \/ old.reusable]
<1>1. old \in Coroutine /\ Stage(r, old)
  BY DEF SidecarInv, Shapes
<1>2. old.does # "invalidate" /\ old.answers = 0
  BY <1>1 DEF Stage, DoesStage, AnswerStage, Over
<1> HIDE DEF old
<1>3. /\ old.cancelled => said = old
      /\ ~old.cancelled => said = Answer(r, old)
      /\ Finally(r, q, rest) /\ wanted' = wanted \ {r}
  BY DEF Catch, old
<1> HIDE DEF said
<1>4. /\ said \in Coroutine /\ said.does = old.does
      /\ said.key = old.key /\ said.lease = old.lease
      /\ said.leaseReusable = old.leaseReusable /\ said.failed = old.failed
      /\ said.cancelled = old.cancelled /\ said.reusable = old.reusable
      /\ said.answers <= 1 /\ (~said.cancelled => said.answers = 1)
  <2>1. CASE old.cancelled
    <3>1. said = old
      BY <1>3, <2>1
    <3>2. said.cancelled
      BY <2>1, <3>1, Zenon
    <3>3. 0 <= 1
      OBVIOUS
    <3> QED
      BY <1>1, <1>2, <3>1, <3>2, <3>3, Zenon
  <2>2. CASE ~old.cancelled
    BY <1>1, <1>2, <1>3, <2>2, AnswerFields
  <2> QED
    BY <2>1, <2>2
<1>5. q \in Coroutine /\ q.does = said.does /\ SameRequest(said, q)
  <2>1. said.invalidate \in BOOLEAN /\ old.reusable \in BOOLEAN
    BY <1>1, <1>4 DEF Coroutine
  <2> QED
    BY <1>4, <2>1, InvalidateFields
<1> HIDE DEF q
<1>6. Ending(r, q)
  BY <1>4, <1>5 DEF Ending, SameRequest, old
<1> QED
  BY <1>3, <1>6

(* After the catch block comes the finally block.                          *)
LEMMA CatchKeeps ==
    ASSUME SidecarInv, NEW r \in Requests, NEW rest, Turn(r, rest),
           req[r].pc \in {"leased", "rejected"},
           req[r].lease # NoSession => req[r].reusable = req[r].leaseReusable,
           Catch(r, req[r], rest), reusable' = reusable, (chunk \in BOOLEAN)'
    PROVE  SidecarInv'
<1>1. wanted' = wanted \ {r}
  BY CatchEnds
<1>2. PICK q : Ending(r, q) /\ Finally(r, q, rest)
  BY CatchEnds
<1> QED
  BY <1>1, <1>2, FinallyKeeps DEF SidecarInv, Shapes

-----------------------------------------------------------------------------
(* The ends of a piece that leave the sessions alone.                      *)

(* A piece that ends in an await of the SDK.                               *)
LEMMA AwaitKeeps ==
    ASSUME SidecarInv, NEW r \in Requests, NEW rest, Turn(r, rest),
           NEW q \in Coroutine, NEW at \in External \cup {"done"}, Await(r, q, at, rest),
           at \in Locked <=> req[r].pc \in Locked,
           \A n \in Coroutine : n.pc = at /\ n.does = q.does /\ SameRequest(q, n)
               => Stage(r, n) /\ Quiet(r, req[r], n),
           lock' = lock, reusable' = reusable, sessions' = sessions, SidecarTypes'
    PROVE  SidecarInv'
<1> DEFINE n == At(q, at, 0)
<1>0. at \in Pcs /\ 0 \in 0..2
  BY DEF Pcs
<1>1. /\ n \in Coroutine /\ n.pc = at /\ n.does = q.does
      /\ SameRequest(q, n)
  BY <1>0, AtFields
<1>2. req' = [req EXCEPT ![r] = n] /\ micro' = rest
  BY DEF Await
<1> HIDE DEF n
<1>3. Stage(r, n) /\ Quiet(r, req[r], n)
  BY <1>1
<1> QED
  BY <1>1, <1>2, <1>3, QuietAwait

(* A piece that ends in an await of what is settled already.               *)
LEMMA GoOnKeeps ==
    ASSUME SidecarInv, NEW r \in Requests, NEW rest, Turn(r, rest),
           NEW q \in Coroutine, NEW at \in Pieces, NEW hops \in 0..2,
           GoOn(r, q, at, hops, rest),
           at \in Locked <=> req[r].pc \in Locked,
           \A n \in Coroutine : n.pc = at /\ n.does = q.does /\ SameRequest(q, n)
               => Stage(r, n) /\ Quiet(r, req[r], n),
           lock' = lock, sessions' = sessions, SidecarTypes',
           reusable'.session = reusable.session, reusable'.key = reusable.key
    PROVE  SidecarInv'
<1> DEFINE n == At(q, at, hops)
<1>1. /\ n \in Coroutine /\ n.pc = at /\ n.does = q.does
      /\ SameRequest(q, n)
  BY AtFields DEF Pcs
<1>2. req' = [req EXCEPT ![r] = n] /\ micro' = Append(rest, r)
  BY DEF GoOn
<1> HIDE DEF n
<1>3. Stage(r, n) /\ Quiet(r, req[r], n)
  BY <1>1
<1> QED
  BY <1>1, <1>2, <1>3, QuietGoOn

(* What any step may rely on.                                              *)
LEMMA Known ==
    ASSUME SidecarInv
    PROVE  /\ Shapes /\ Scheduled /\ Belongs
           /\ \A r \in Requests : req[r] \in Coroutine /\ Stage(r, req[r])
           /\ UNCHANGED <<reusable, sessions, wanted>> /\ chunk' \in BOOLEAN => SidecarTypes'
           /\ UNCHANGED <<reusable, sessions>> /\ chunk' \in BOOLEAN
                /\ wanted' \subseteq Requests => SidecarTypes'
BY DEF SidecarInv, Shapes, SidecarTypes

-----------------------------------------------------------------------------
(* Pieces of handleComplete.                                               *)

(* The client is there: the request gets in line for a session, or makes   *)
(* one of its own.                                                         *)
LEMMA ClientReadyKeeps ==
    ASSUME SidecarInv, NEW r \in Requests, NEW rest, Turn(r, rest),
           req[r].pc = "client", ClientReady(r, req[r], rest), (chunk \in BOOLEAN)'
    PROVE  SidecarInv'
<1> DEFINE q == req[r]
           known == [q EXCEPT !.active = TRUE]
<1>1. q \in Coroutine /\ Stage(r, q) /\ q.pc = "client" /\ SidecarTypes'
  BY Known DEF ClientReady
<1>2. known \in Coroutine /\ known.does = q.does /\ SameRequest(q, known)
  BY <1>1, ActiveFields
<1>3. /\ \/ EnterLock(r, known, "acquire", rest)
         \/ Await(r, known, "creatingOwn", rest) /\ lock' = lock
      /\ UNCHANGED <<reusable, sessions>>
  BY DEF ClientReady
<1> HIDE DEF known
<1>4. ASSUME NEW n \in Coroutine, n.pc \in {"enterLock", "creatingOwn"}, n.does = "acquire",
             SameRequest(known, n)
      PROVE  Stage(r, n) /\ Quiet(r, q, n)
  BY <1>1, <1>2, <1>4
  DEF SameRequest, Stage, LeaseStage, DoesStage, AnswerStage, NotYet, Prompted, Over,
      Quiet, Owned, Offering, Replacing, Resuming
<1>5. q.does = "acquire"
  BY <1>1 DEF Stage, LeaseStage, NotYet
<1>6. CASE EnterLock(r, known, "acquire", rest)
  BY <1>1, <1>2, <1>3, <1>4, <1>6, QuietEnter DEF Locked, LockActions
<1>7. CASE Await(r, known, "creatingOwn", rest) /\ lock' = lock
  BY <1>1, <1>2, <1>3, <1>4, <1>5, <1>7, AwaitKeeps DEF Locked, External
<1> QED
  BY <1>3, <1>6, <1>7

(* The session is there or has failed: the prompt is sent, or the request  *)
(* ends.                                                                   *)
LEMMA LeasedKeeps ==
    ASSUME SidecarInv, NEW r \in Requests, NEW rest, Turn(r, rest),
           req[r].pc = "leased", Leased(r, req[r], rest), (chunk \in BOOLEAN)'
    PROVE  SidecarInv'
<1> DEFINE q == req[r]
           has == [q EXCEPT !.session = q.lease, !.reusable = q.leaseReusable]
           gaveUp == [has EXCEPT !.invalidate = has.invalidate \/ q.leaseReusable]
<1>1. q \in Coroutine /\ Stage(r, q) /\ q.pc = "leased" /\ Shapes
  BY Known
<1>2. /\ q.does = "acquire" /\ q.answers = 0
      /\ q.failed => q.lease = NoSession
      /\ ~q.failed => q.lease # NoSession
      /\ q.lease # NoSession /\ q.lease # r => q.leaseReusable
  BY <1>1 DEF Stage, LeaseStage, DoesStage, AnswerStage, Over, Coroutine, LockActions
<1>3. /\ has \in Coroutine /\ has.does = q.does /\ has.key = q.key
      /\ has.lease = q.lease /\ has.leaseReusable = q.leaseReusable
      /\ has.failed = q.failed /\ has.answers = q.answers /\ has.cancelled = q.cancelled
      /\ has.session = q.lease /\ has.reusable = q.leaseReusable
  <2>1. has \in Coroutine
    BY <1>1 DEF Coroutine
  <2> QED
    BY <1>1, <2>1 DEF Coroutine
<1>4. /\ \/ q.failed /\ Catch(r, q, rest)
         \/ ~q.failed /\ q.cancelled /\ Finally(r, gaveUp, rest) /\ wanted' = wanted
         \/ /\ ~q.failed /\ ~q.cancelled /\ Await(r, has, "waiting", rest)
            /\ UNCHANGED <<lock, sessions, wanted>>
      /\ reusable' = reusable
  BY DEF Leased
<1> HIDE DEF has
<1>5. CASE q.failed /\ Catch(r, q, rest)
  BY <1>1, <1>2, <1>4, <1>5, CatchKeeps
<1>6. CASE ~q.failed /\ q.cancelled /\ Finally(r, gaveUp, rest) /\ wanted' = wanted
  <2>1. has.invalidate \in BOOLEAN /\ q.leaseReusable \in BOOLEAN
    BY <1>1, <1>3 DEF Coroutine
  <2>2. gaveUp \in Coroutine /\ gaveUp.does = has.does /\ SameRequest(has, gaveUp)
    BY <1>3, <2>1, InvalidateFields
  <2> HIDE DEF gaveUp
  <2>3. gaveUp.cancelled
    BY <1>3, <1>6, <2>2 DEF SameRequest
  <2>4. gaveUp.answers = 0 /\ 0 <= 1
    BY <1>2, <1>3, <2>2 DEF SameRequest
  <2>5. Ending(r, gaveUp)
    BY <1>3, <2>2, <2>3, <2>4, Zenon DEF Ending, SameRequest
  <2> QED
    BY <1>1, <1>4, <1>6, <2>5, FinallyKeeps DEF Shapes
<1>7. CASE /\ ~q.failed /\ ~q.cancelled /\ Await(r, has, "waiting", rest)
           /\ UNCHANGED <<lock, sessions, wanted>>
  <2>1. ASSUME NEW n \in Coroutine, n.pc = "waiting", n.does = has.does, SameRequest(has, n)
        PROVE  Stage(r, n) /\ Quiet(r, q, n)
    <3>1. Stage(r, n)
      BY <1>1, <1>2, <1>3, <1>7, <2>1
      DEF SameRequest, Stage, LeaseStage, DoesStage, AnswerStage, NotYet, Prompted, Over
    <3>2. Quiet(r, q, n)
      BY <1>1, <1>3, <2>1
      DEF SameRequest, NotYet, Quiet, Owned, Offering, Replacing, Resuming
    <3> QED
      BY <3>1, <3>2
  <2>2. SidecarTypes'
    BY <1>4, <1>7, Known
  <2> QED
    BY <1>1, <1>3, <1>4, <1>7, <2>1, <2>2, AwaitKeeps DEF Locked, External
<1> QED
  BY <1>4, <1>5, <1>6, <1>7

(* The prompt has ended: the request goes on to the lock, to the quota, or *)
(* to its end.                                                             *)
LEMMA SettledKeeps ==
    ASSUME SidecarInv, NEW r \in Requests, NEW rest, Turn(r, rest),
           req[r].pc = "settled", Settled(r, req[r], rest), (chunk \in BOOLEAN)'
    PROVE  SidecarInv'
<1> DEFINE q == req[r]
<1>1. q \in Coroutine /\ Stage(r, q) /\ q.pc = "settled" /\ Shapes
  BY Known
<1>2. /\ q.answers = 0 /\ q.does = "acquire" /\ q.lease # NoSession
      /\ q.session = q.lease /\ q.reusable = q.leaseReusable
  BY <1>1
  DEF Stage, LeaseStage, DoesStage, AnswerStage, Over, Prompted, Coroutine, LockActions
<1>3. /\ \/ q.cancelled /\ Finally(r, q, rest)
         \/ /\ q.reusable /\ EnterLock(r, q, "record", rest)
            /\ UNCHANGED sessions
         \/ /\ Await(r, q, "quota", rest)
            /\ UNCHANGED <<lock, sessions>>
      /\ UNCHANGED <<reusable, wanted>>
  BY DEF Settled
<1>4. CASE q.cancelled /\ Finally(r, q, rest)
  <2>1. Ending(r, q)
    BY <1>1, <1>2, <1>4 DEF Ending
  <2> QED
    BY <1>1, <1>3, <1>4, <2>1, FinallyKeeps DEF Shapes
<1>5. ASSUME NEW n \in Coroutine, SameRequest(q, n),
             \/ n.pc = "enterLock" /\ n.does = "record"
             \/ n.pc = "quota" /\ n.does = "acquire"
      PROVE  Stage(r, n) /\ Quiet(r, q, n)
  <2>1. Stage(r, n)
    BY <1>1, <1>2, <1>5
    DEF SameRequest, Stage, LeaseStage, DoesStage, AnswerStage, NotYet, Prompted, Over
  <2>2. Quiet(r, q, n)
    BY <1>1, <1>5 DEF SameRequest, NotYet, Quiet, Owned, Offering, Replacing, Resuming
  <2> QED
    BY <2>1, <2>2
<1>6. CASE q.reusable /\ EnterLock(r, q, "record", rest) /\ UNCHANGED sessions
  <2>1. SidecarTypes'
    BY <1>3, <1>6, Known
  <2> QED
    BY <1>1, <1>3, <1>5, <1>6, <2>1, QuietEnter DEF Locked, LockActions
<1>7. CASE Await(r, q, "quota", rest) /\ UNCHANGED <<lock, sessions>>
  <2>1. SidecarTypes'
    BY <1>3, <1>7, Known
  <2> QED
    BY <1>1, <1>2, <1>3, <1>5, <1>7, <2>1, AwaitKeeps DEF Locked, External
<1> QED
  BY <1>3, <1>4, <1>6, <1>7

(* The prompt has failed: the request ends, with an error unless it was    *)
(* cancelled.                                                              *)
LEMMA RejectedKeeps ==
    ASSUME SidecarInv, NEW r \in Requests, NEW rest, Turn(r, rest),
           req[r].pc = "rejected", Rejected(r, req[r], rest), (chunk \in BOOLEAN)'
    PROVE  SidecarInv'
<1>1. req[r].reusable = req[r].leaseReusable
  BY Known DEF Stage, LeaseStage, Prompted
<1> QED
  BY <1>1, CatchKeeps DEF Rejected

(* The context is recorded: the quota is asked for.                        *)
LEMMA RecordedKeeps ==
    ASSUME SidecarInv, NEW r \in Requests, NEW rest, Turn(r, rest),
           req[r].pc = "recorded", Recorded(r, req[r], rest), (chunk \in BOOLEAN)'
    PROVE  SidecarInv'
<1> DEFINE q == req[r]
<1>1. q \in Coroutine /\ Stage(r, q) /\ q.pc = "recorded" /\ SidecarTypes'
  BY Known DEF Recorded
<1>2. ASSUME NEW n \in Coroutine, n.pc = "quota", n.does = q.does, SameRequest(q, n)
      PROVE  Stage(r, n) /\ Quiet(r, q, n)
  BY <1>1, <1>2
  DEF SameRequest, Stage, LeaseStage, DoesStage, AnswerStage, NotYet, Prompted, Over,
      Quiet, Owned, Offering, Replacing, Resuming
<1> QED
  BY <1>1, <1>2, AwaitKeeps DEF Recorded, Locked, External

(* The result is sent, once.                                               *)
LEMMA ReplyKeeps ==
    ASSUME SidecarInv, NEW r \in Requests, NEW rest, Turn(r, rest),
           req[r].pc = "reply", Reply(r, req[r], rest), (chunk \in BOOLEAN)'
    PROVE  SidecarInv'
<1> DEFINE q == req[r]
           said == Answer(r, q)
<1>1. q \in Coroutine /\ Stage(r, q) /\ q.pc = "reply" /\ Shapes
  BY Known
<1>2. q.answers = 0 /\ q.reusable = q.leaseReusable
  BY <1>1 DEF Stage, LeaseStage, DoesStage, AnswerStage, Over, Prompted
<1>3. Finally(r, said, rest) /\ wanted' \subseteq Requests /\ reusable' = reusable
  BY <1>1 DEF Reply, Shapes
<1>4. Ending(r, said)
  BY <1>1, <1>2, AnswerFields DEF Ending
<1> HIDE DEF said
<1> QED
  BY <1>1, <1>3, <1>4, FinallyKeeps

-----------------------------------------------------------------------------
(* Pieces under the lock.                                                  *)

(* Under the lock: the context is recorded.                                *)
LEMMA RecordKeeps ==
    ASSUME SidecarInv, NEW r \in Requests, NEW rest, Turn(r, rest),
           req[r].pc = "enterLock", req[r].does = "record",
           GoOn(r, req[r], "release", 0, rest),
           UNCHANGED <<reusable, sessions, lock, wanted>>, (chunk \in BOOLEAN)'
    PROVE  SidecarInv'
<1> DEFINE q == req[r]
<1>1. q \in Coroutine /\ Stage(r, q) /\ SidecarTypes'
  BY Known
<1>2. ASSUME NEW n \in Coroutine, n.pc = "release", n.does = q.does, SameRequest(q, n)
      PROVE  Stage(r, n) /\ Quiet(r, q, n)
  BY <1>1, <1>2
  DEF SameRequest, Stage, LeaseStage, DoesStage, AnswerStage, NotYet, Prompted, Over,
      Quiet, Owned, Offering, Replacing, Resuming
<1> QED
  BY <1>1, <1>2, GoOnKeeps DEF Locked, Pieces

(* The reusable session is dropped under the lock.                         *)
LEMMA DropKeeps ==
    ASSUME SidecarInv, NEW r \in Requests, NEW rest, Turn(r, rest),
           req[r].pc \in Locked, ~Owned(r, req[r]), NEW at \in External, at \in Locked,
           Await(r, req[r], at, rest),
           \A n \in Coroutine : n.pc = at /\ n.does = req[r].does /\ SameRequest(req[r], n)
               => Stage(r, n) /\ (NotYet(n) => NotYet(req[r])),
           reusable.session # NoSession, Destroy(reusable.session), reusable' = NoReusable,
           UNCHANGED <<lock, wanted>>, (chunk \in BOOLEAN)', at \notin Resuming
    PROVE  SidecarInv'
<1> DEFINE q == req[r]
           n == At(q, at, 0)
<1>0. at \in Pcs /\ 0 \in 0..2 /\ q \in Coroutine /\ Shapes
  BY Known DEF Pcs
<1>1. /\ n \in Coroutine /\ n.pc = at /\ n.does = q.does
      /\ SameRequest(q, n)
  BY <1>0, AtFields
<1>2. req' = [req EXCEPT ![r] = n] /\ micro' = rest
  BY DEF Await
<1> HIDE DEF n
<1>3. Stage(r, n) /\ (NotYet(n) => NotYet(q)) /\ n.pc \notin Offering
  BY <1>1 DEF Offering, External
<1>4. Belongs'
  <2>1. r = Head(lock) /\ n.pc \notin Resuming
    BY <1>1 DEF SidecarInv, Scheduled, Queued, Turn, Resuming, Locked
  <2> QED
    BY <1>1, <1>2, <1>3, <2>1, DropBelongs DEF SidecarInv, SameRequest
<1>5. micro' \in Seq(Requests) /\ Scheduled'
  BY <1>1, <1>2, AwaitSchedule DEF SidecarInv
<1>6. AnyKey \in Keys
  BY SidecarAssumption DEF AnyKey
<1>7. SidecarTypes' /\ lock' \in Seq(Requests)
  BY <1>0, <1>6
  DEF Shapes, SidecarTypes, Destroy, SessionObject, NoReusable, Reusable
<1> QED
  BY <1>1, <1>2, <1>3, <1>4, <1>5, <1>7, MoveKeeps

(* Under the lock: the reusable session is reused, resumed, or replaced.   *)
LEMMA AcquireKeeps ==
    ASSUME SidecarInv, NEW r \in Requests, NEW rest, Turn(r, rest),
           req[r].pc = "enterLock", req[r].does = "acquire",
           Acquire(r, req[r], rest), UNCHANGED <<lock, wanted>>, (chunk \in BOOLEAN)'
    PROVE  SidecarInv'
<1> DEFINE q == req[r]
           leased == [q EXCEPT !.lease = reusable.session, !.leaseReusable = TRUE]
<1>1. q \in Coroutine /\ Stage(r, q) /\ NotYet(q) /\ Shapes
  BY Known DEF NotYet
<1>2. q.lease = NoSession /\ ~q.leaseReusable /\ ~q.failed /\ ~Owned(r, q)
  BY <1>1, Numbers DEF Stage, LeaseStage, Owned
<1>3. ASSUME NEW n \in Coroutine, n.does = q.does, SameRequest(q, n),
             n.pc \in {"destroyingOld", "resuming", "creating", "creatingExtra"}
      PROVE  /\ Stage(r, n)
             /\ (n.pc \in Replacing <=> reusable.session = NoSession) => Quiet(r, q, n)
  BY <1>1, <1>2, <1>3
  DEF SameRequest, Stage, LeaseStage, DoesStage, AnswerStage, NotYet, Prompted, Over,
      Quiet, Owned, Offering, Replacing, Resuming
<1>4. \/ /\ reusable.session # NoSession /\ Destroy(reusable.session)
         /\ reusable' = NoReusable /\ Await(r, q, "destroyingOld", rest)
      \/ /\ CanReuse(q) /\ GoOn(r, leased, "release", 0, rest)
         /\ UNCHANGED <<reusable, sessions>>
      \/ /\ \E at \in {"resuming", "creating", "creatingExtra"} :
               /\ at = "creating" <=> reusable.session = NoSession
               /\ Await(r, q, at, rest)
         /\ UNCHANGED <<reusable, sessions>>
  BY DEF Acquire, MustDrop, CanResume
<1>5. CASE /\ reusable.session # NoSession /\ Destroy(reusable.session)
           /\ reusable' = NoReusable /\ Await(r, q, "destroyingOld", rest)
  <2>1. ASSUME NEW n \in Coroutine, n.does = q.does, SameRequest(q, n), n.pc = "destroyingOld"
        PROVE  Stage(r, n) /\ (NotYet(n) => NotYet(q))
    BY <1>1, <1>3, <2>1
  <2> QED
    BY <1>2, <1>5, <2>1, DropKeeps DEF Locked, External, Resuming
<1>6. CASE /\ CanReuse(q) /\ GoOn(r, leased, "release", 0, rest)
           /\ UNCHANGED <<reusable, sessions>>
  <2> DEFINE n == At(leased, "release", 0)
  <2>1. /\ leased \in Coroutine /\ leased.does = q.does /\ leased.key = q.key
        /\ leased.lease = reusable.session /\ leased.leaseReusable
        /\ leased.failed = q.failed /\ leased.answers = q.answers
        /\ leased.cancelled = q.cancelled
    <3>1. leased \in Coroutine
      BY <1>1 DEF Coroutine, Shapes, Reusable
    <3> QED
      BY <1>1, <3>1 DEF Coroutine
  <2> HIDE DEF leased
  <2>2. "release" \in Pcs /\ 0 \in 0..2 /\ "release" \in Pieces /\ "release" \in Locked
    BY DEF Pcs, Pieces, Locked
  <2>3. n \in Coroutine /\ n.pc = "release" /\ n.does = "acquire" /\ SameRequest(leased, n)
    BY <2>1, <2>2, AtFields
  <2>4. req' = [req EXCEPT ![r] = n] /\ micro' = Append(rest, r)
    BY <1>6 DEF GoOn
  <2> HIDE DEF n
  <2>5. /\ n.key = q.key /\ n.lease = reusable.session /\ n.leaseReusable
        /\ n.failed = q.failed /\ n.answers = q.answers /\ n.cancelled = q.cancelled
    BY <2>1, <2>3 DEF SameRequest
  <2>6. reusable.session # NoSession /\ reusable.key = n.key
    BY <1>6, <2>5 DEF CanReuse
  <2>7. Belongs'
    BY <1>1, <1>6, <2>3, <2>4, <2>5, <2>6, LeaseBelongs DEF SidecarInv
  <2>8. Stage(r, n)
    BY <1>1, <1>2, <2>3, <2>5, <2>6
    DEF Stage, LeaseStage, DoesStage, AnswerStage, NotYet, Prompted, Over
  <2>9. micro' \in Seq(Requests) /\ Scheduled'
    BY <2>2, <2>3, <2>4, GoOnSchedule DEF SidecarInv, Locked
  <2>10. SidecarTypes' /\ lock' \in Seq(Requests)
    BY <1>1, <1>6, Known DEF Shapes
  <2> QED
    BY <2>3, <2>4, <2>7, <2>8, <2>9, <2>10, MoveKeeps
<1>7. CASE /\ \E at \in {"resuming", "creating", "creatingExtra"} :
                 /\ at = "creating" <=> reusable.session = NoSession
                 /\ Await(r, q, at, rest)
           /\ UNCHANGED <<reusable, sessions>>
  <2>1. PICK at \in {"resuming", "creating", "creatingExtra"} :
                 /\ at = "creating" <=> reusable.session = NoSession
                 /\ Await(r, q, at, rest)
    BY <1>7
  <2>2. SidecarTypes'
    BY <1>7, Known
  <2>3. ASSUME NEW n \in Coroutine, n.does = q.does, SameRequest(q, n), n.pc = at
        PROVE  Stage(r, n) /\ Quiet(r, q, n)
    BY <1>3, <2>1, <2>3 DEF Replacing
  <2>4. at \in External /\ at \in Locked /\ q.pc \in Locked
    BY DEF External, Locked
  <2> QED
    BY <1>1, <1>7, <2>1, <2>2, <2>3, <2>4, AwaitKeeps
<1> QED
  BY <1>4, <1>5, <1>6, <1>7

(* Under the lock: if the reusable session is still the request's, it is   *)
(* destroyed, or marked while it is busy.                                  *)
LEMMA InvalidateKeeps ==
    ASSUME SidecarInv, NEW r \in Requests, NEW rest, Turn(r, rest),
           req[r].pc = "enterLock", req[r].does = "invalidate",
           Invalidate(r, req[r], rest), UNCHANGED <<lock, wanted>>, (chunk \in BOOLEAN)'
    PROVE  SidecarInv'
<1> DEFINE q == req[r]
<1>1. q \in Coroutine /\ Stage(r, q) /\ Shapes /\ Belongs
  BY Known
<1>2. q.lease # NoSession /\ q.leaseReusable /\ ~Owned(r, q)
  BY <1>1 DEF Stage, DoesStage, Owned
<1>3. ASSUME NEW n \in Coroutine, n.does = q.does, SameRequest(q, n),
             n.pc \in {"release", "destroyingInvalid"}
      PROVE  Stage(r, n) /\ Quiet(r, q, n)
  BY <1>1, <1>2, <1>3
  DEF SameRequest, Stage, LeaseStage, DoesStage, AnswerStage, NotYet, Prompted, Over,
      Quiet, Owned, Offering, Replacing, Resuming
<1>4. \/ /\ GoOn(r, q, "release", 0, rest) /\ sessions' = sessions
         /\ reusable' = reusable \/ reusable' = [reusable EXCEPT !.invalidated = TRUE]
      \/ /\ reusable.session = q.lease /\ Destroy(q.lease) /\ reusable' = NoReusable
         /\ Await(r, q, "destroyingInvalid", rest)
  BY DEF Invalidate
<1>5. CASE /\ GoOn(r, q, "release", 0, rest) /\ sessions' = sessions
           /\ reusable' = reusable \/ reusable' = [reusable EXCEPT !.invalidated = TRUE]
  <2>1. /\ reusable' \in Reusable
        /\ reusable'.session = reusable.session /\ reusable'.key = reusable.key
    BY <1>1, <1>5 DEF Shapes, Reusable
  <2>2. SidecarTypes'
    BY <1>1, <1>5, <2>1 DEF Shapes, SidecarTypes
  <2> QED
    BY <1>1, <1>3, <1>5, <2>1, <2>2, GoOnKeeps DEF Locked, Pieces
<1>6. CASE /\ reusable.session = q.lease /\ Destroy(q.lease) /\ reusable' = NoReusable
           /\ Await(r, q, "destroyingInvalid", rest)
  <2>1. ASSUME NEW n \in Coroutine, n.does = q.does, SameRequest(q, n),
               n.pc = "destroyingInvalid"
        PROVE  Stage(r, n) /\ (NotYet(n) => NotYet(q))
    BY <1>3, <2>1 DEF Quiet
  <2> QED
    BY <1>2, <1>6, <2>1, DropKeeps DEF Locked, External, Resuming
<1> QED
  BY <1>4, <1>5, <1>6

(* Under the lock: the new or resumed session becomes the reusable one.    *)
LEMMA CreatedKeeps ==
    ASSUME SidecarInv, NEW r \in Requests, NEW rest, Turn(r, rest),
           \/ req[r].pc = "created" /\ Created(r, req[r], rest)
           \/ req[r].pc = "resumed" /\ Resumed(r, req[r], rest),
           (chunk \in BOOLEAN)'
    PROVE  SidecarInv'
<1> DEFINE q == req[r]
           n == At(q, "release", 0)
<1>1. q \in Coroutine /\ Stage(r, q) /\ Shapes /\ q.pc \in Offering
  BY Known DEF Offering
<1>2. "release" \in Pcs /\ 0 \in 0..2 /\ "release" \in Pieces /\ "release" \in Locked
  BY DEF Pcs, Pieces, Locked
<1>3. /\ q.lease = r /\ q.leaseReusable /\ q.does = "acquire" /\ ~q.failed
      /\ q.pc \in Locked /\ q.answers = 0
  BY <1>1, Numbers DEF Offering, Locked, Stage, LeaseStage, AnswerStage, Over
<1>4. n \in Coroutine /\ n.pc = "release" /\ n.does = "acquire" /\ SameRequest(q, n)
  BY <1>1, <1>2, <1>3, AtFields
<1>5. /\ req' = [req EXCEPT ![r] = n] /\ micro' = Append(rest, r)
      /\ reusable' = [session |-> r, key |-> q.key, invalidated |-> FALSE]
      /\ \/ q.pc = "created" /\ sessions' = sessions
         \/ sessions' = [sessions EXCEPT ![reusable.session].status = "replaced"]
      /\ UNCHANGED <<lock, wanted>>
  BY <1>3 DEF Created, Resumed, GoOn
<1> HIDE DEF n
<1>6. n.lease = q.lease /\ n.leaseReusable /\ n.key = q.key
  BY <1>3, <1>4 DEF SameRequest
<1>7. Belongs'
  BY <1>1, <1>4, <1>5, <1>6, OfferBelongs DEF SidecarInv
<1>8. Stage(r, n)
  BY <1>1, <1>3, <1>4, Numbers
  DEF SameRequest, Stage, LeaseStage, DoesStage, AnswerStage, NotYet, Prompted, Over
<1>9. micro' \in Seq(Requests) /\ Scheduled'
  BY <1>2, <1>3, <1>4, <1>5, GoOnSchedule DEF SidecarInv
<1>10. reusable' \in Reusable
  BY <1>1, <1>5, Numbers DEF Reusable, Coroutine
<1>11. sessions' \in [Sessions -> SessionObject]
  BY <1>1, <1>5 DEF Shapes, SessionObject
<1>12. SidecarTypes' /\ lock' \in Seq(Requests)
  BY <1>1, <1>5, <1>10, <1>11 DEF Shapes, SidecarTypes
<1> QED
  BY <1>4, <1>5, <1>7, <1>8, <1>9, <1>12, MoveKeeps

(* resumeSession fails: the old session is destroyed, if there still is    *)
(* one, and a new one is ordered.                                          *)
LEMMA ResumeFailedKeeps ==
    ASSUME SidecarInv, NEW r \in Requests, NEW rest, Turn(r, rest),
           req[r].pc = "resumeFailed", ResumeFailed(r, req[r], rest), (chunk \in BOOLEAN)'
    PROVE  SidecarInv'
<1> DEFINE q == req[r]
<1>1. q \in Coroutine /\ Stage(r, q) /\ Shapes /\ NotYet(q) /\ Belongs
  BY Known DEF NotYet
<1>2. ~Owned(r, q)
  BY <1>1, Numbers DEF Stage, LeaseStage, Owned
<1>3. ASSUME NEW n \in Coroutine, n.does = q.does, SameRequest(q, n), n.pc = "destroyingOld"
      PROVE  Stage(r, n) /\ (NotYet(n) => NotYet(q))
  BY <1>1, <1>3
  DEF SameRequest, Stage, LeaseStage, DoesStage, AnswerStage, NotYet, Prompted, Over
<1>4. /\ Destroy(reusable.session) /\ reusable' = NoReusable
      /\ Await(r, q, "destroyingOld", rest) /\ UNCHANGED <<lock, wanted>>
  BY DEF ResumeFailed
<1>5. reusable.session # NoSession
  BY <1>1 DEF Belongs
<1> QED
  BY <1>2, <1>3, <1>4, <1>5, DropKeeps DEF Locked, External, Resuming

(* Under the lock: the old session is gone, and its successor is created.  *)
LEMMA DestroyedOldKeeps ==
    ASSUME SidecarInv, NEW r \in Requests, NEW rest, Turn(r, rest),
           req[r].pc = "destroyedOld", DestroyedOld(r, req[r], rest), (chunk \in BOOLEAN)'
    PROVE  SidecarInv'
<1> DEFINE q == req[r]
<1>1. q \in Coroutine /\ Stage(r, q) /\ SidecarTypes'
  BY Known DEF DestroyedOld
<1>2. reusable.session = NoSession
  BY Known DEF Belongs
<1>3. ASSUME NEW n \in Coroutine, n.pc = "creating", n.does = q.does, SameRequest(q, n)
      PROVE  Stage(r, n) /\ Quiet(r, q, n)
  BY <1>1, <1>2, <1>3
  DEF SameRequest, Stage, LeaseStage, DoesStage, AnswerStage, NotYet, Prompted, Over,
      Quiet, Owned, Offering, Replacing, Resuming
<1> QED
  BY <1>1, <1>3, AwaitKeeps DEF DestroyedOld, Locked, External

(* The lock is passed on to the next in line.                              *)
LEMMA ReleaseKeeps ==
    ASSUME SidecarInv, NEW r \in Requests, NEW rest, Turn(r, rest),
           req[r].pc = "release", Release(r, req[r], rest), (chunk \in BOOLEAN)'
    PROVE  SidecarInv'
<1> DEFINE q == req[r]
           woken == IF Tail(lock) = <<>> THEN rest ELSE Append(rest, Head(Tail(lock)))
<1>1. q \in Coroutine /\ Stage(r, q) /\ Shapes /\ q.pc = "release"
  BY Known
<1>2. \E at \in {"done", "leased", "recorded"}, hops \in 0..2 :
        /\ at = "done" <=> q.does = "invalidate"
        /\ at = "leased" <=> q.does = "acquire"
        /\ at = "recorded" <=> q.does = "record"
        /\ req' = [req EXCEPT ![r] = At(q, at, hops)]
        /\ \/ at = "done" /\ micro' = woken
           \/ at \in {"leased", "recorded"} /\ micro' = Append(woken, r)
  <2>1. 0 \in 0..2 /\ 1 \in 0..2
    OBVIOUS
  <2>2. CASE q.does = "invalidate" /\ Await(r, q, "done", woken)
    BY <2>1, <2>2 DEF Await
  <2>3. CASE q.does = "acquire" /\ GoOn(r, q, "leased", 1, woken)
    BY <2>1, <2>3 DEF GoOn
  <2>4. CASE q.does = "record" /\ GoOn(r, q, "recorded", 1, woken)
    BY <2>1, <2>4 DEF GoOn
  <2> QED
    BY <2>2, <2>3, <2>4 DEF Release
<1>3. PICK at \in {"done", "leased", "recorded"}, hops \in 0..2 :
        /\ at = "done" <=> q.does = "invalidate"
        /\ at = "leased" <=> q.does = "acquire"
        /\ at = "recorded" <=> q.does = "record"
        /\ req' = [req EXCEPT ![r] = At(q, at, hops)]
        /\ \/ at = "done" /\ micro' = woken
           \/ at \in {"leased", "recorded"} /\ micro' = Append(woken, r)
  BY <1>2
<1> DEFINE n == At(q, at, hops)
<1>4. at \in Pcs
  BY DEF Pcs, Pieces
<1>5. n \in Coroutine /\ n.pc = at /\ n.does = q.does /\ SameRequest(q, n)
  BY <1>1, <1>4, AtFields
<1>6. req' = [req EXCEPT ![r] = n] /\ lock' = Tail(lock) /\ UNCHANGED <<reusable, sessions, wanted>>
  BY <1>3 DEF Release
<1> HIDE DEF n
<1>7. Stage(r, n)
  BY <1>1, <1>3, <1>5
  DEF SameRequest, Stage, LeaseStage, DoesStage, AnswerStage, NotYet, Prompted, Over
<1>8. Quiet(r, q, n)
  <2>1. Owned(r, q) => at # "done"
    BY <1>1, <1>3 DEF Owned, Stage, DoesStage
  <2> QED
    BY <1>1, <1>5, <2>1 DEF SameRequest, NotYet, Quiet, Owned, Offering, Replacing, Resuming
<1>9. Belongs'
  BY <1>6, <1>8, OneQuiet
<1>10. micro' \in Seq(Requests) /\ lock' \in Seq(Requests) /\ Scheduled'
  <2>1. \/ n.pc = "done" /\ micro' = woken
        \/ n.pc \in {"leased", "recorded"} /\ micro' = Append(woken, r)
    BY <1>3, <1>5
  <2> HIDE DEF woken
  <2>2. woken = IF Tail(lock) = <<>> THEN rest ELSE Append(rest, Head(Tail(lock)))
    BY DEF woken
  <2> QED
    BY <1>1, <1>6, <2>1, <2>2, ReleaseSchedule DEF SidecarInv
<1>11. SidecarTypes'
  BY <1>6, Known
<1> QED
  BY <1>5, <1>6, <1>7, <1>9, <1>10, <1>11, MoveKeeps

-----------------------------------------------------------------------------
(* Microtasks and external events.                                         *)

(* Every piece of handleComplete.                                          *)
LEMMA PieceKeeps ==
    ASSUME SidecarInv, NEW r \in Requests, NEW rest, Turn(r, rest),
           Piece(r, req[r], rest), (chunk \in BOOLEAN)'
    PROVE  SidecarInv'
<1>1. CASE req[r].pc = "client" /\ ClientReady(r, req[r], rest)
  BY <1>1, ClientReadyKeeps
<1>2. CASE req[r].pc = "enterLock" /\ LockedPiece(r, req[r], rest)
  <2>1. UNCHANGED <<lock, wanted>>
    BY <1>2 DEF LockedPiece
  <2>2. CASE req[r].does = "acquire" /\ Acquire(r, req[r], rest)
    BY <1>2, <2>1, <2>2, AcquireKeeps
  <2>3. CASE req[r].does = "invalidate" /\ Invalidate(r, req[r], rest)
    BY <1>2, <2>1, <2>3, InvalidateKeeps
  <2>4. CASE /\ req[r].does = "record"
             /\ GoOn(r, req[r], "release", 0, rest)
             /\ UNCHANGED <<reusable, sessions>>
    BY <1>2, <2>1, <2>4, RecordKeeps
  <2> QED
    BY <1>2, <2>2, <2>3, <2>4 DEF LockedPiece
<1>3. CASE \/ req[r].pc = "created" /\ Created(r, req[r], rest)
           \/ req[r].pc = "resumed" /\ Resumed(r, req[r], rest)
  BY <1>3, CreatedKeeps
<1>4. CASE req[r].pc = "resumeFailed" /\ ResumeFailed(r, req[r], rest)
  BY <1>4, ResumeFailedKeeps
<1>5. CASE req[r].pc = "destroyedOld" /\ DestroyedOld(r, req[r], rest)
  BY <1>5, DestroyedOldKeeps
<1>6. CASE req[r].pc = "release" /\ Release(r, req[r], rest)
  BY <1>6, ReleaseKeeps
<1>7. CASE req[r].pc = "leased" /\ Leased(r, req[r], rest)
  BY <1>7, LeasedKeeps
<1>8. CASE req[r].pc = "settled" /\ Settled(r, req[r], rest)
  BY <1>8, SettledKeeps
<1>9. CASE req[r].pc = "rejected" /\ Rejected(r, req[r], rest)
  BY <1>9, RejectedKeeps
<1>10. CASE req[r].pc = "recorded" /\ Recorded(r, req[r], rest)
  BY <1>10, RecordedKeeps
<1>11. CASE req[r].pc = "reply" /\ Reply(r, req[r], rest)
  BY <1>11, ReplyKeeps
<1> QED
  BY <1>1, <1>2, <1>3, <1>4, <1>5, <1>6, <1>7, <1>8, <1>9, <1>10, <1>11 DEF Piece

(* A coroutine that stays where it is, or goes on without a new stage.     *)
LEMMA SameStage ==
    ASSUME NEW r \in Requests, NEW q \in Coroutine, Stage(r, q), Quiet(r, q, q),
           NEW n \in Coroutine, n.pc = q.pc, n.does = q.does, SameRequest(q, n)
    PROVE  Stage(r, n) /\ Quiet(r, q, n)
<1>1. /\ NotYet(n) <=> NotYet(q)
      /\ Prompted(n) <=> Prompted(q)
      /\ Over(n) <=> Over(q)
      /\ Owned(r, n) <=> Owned(r, q)
  BY DEF SameRequest, NotYet, Prompted, Over, Owned
<1>2. LeaseStage(r, n)
  BY <1>1 DEF SameRequest, Stage, LeaseStage
<1>3. DoesStage(n)
  BY DEF SameRequest, Stage, DoesStage
<1>4. AnswerStage(n)
  BY <1>1 DEF SameRequest, Stage, AnswerStage
<1>5. Quiet(r, q, n)
  BY <1>1 DEF SameRequest, Quiet
<1> QED
  BY <1>2, <1>3, <1>4, <1>5 DEF Stage

(* A request that does not move claims nothing.                            *)
LEMMA Stays ==
    ASSUME SidecarInv, NEW r \in Requests
    PROVE  Quiet(r, req[r], req[r])
BY DEF SidecarInv, Belongs, Quiet, Replacing, Resuming

(* The first microtask runs.                                               *)
LEMMA MicrotaskKeeps == ASSUME SidecarInv, RunMicrotask PROVE SidecarInv'
<1> DEFINE r == Head(micro)
           rest == Tail(micro)
           q == req[r]
<1>1. micro # <<>> /\ (chunk \in BOOLEAN)'
  BY DEF RunMicrotask
<1>2. r \in Requests /\ q.pc \in Pieces /\ Turn(r, rest)
  BY <1>1, HeadTurn DEF SidecarInv
<1>3. \/ Piece(r, q, rest)
      \/ /\ q.hops > 0 /\ GoOn(r, q, q.pc, q.hops - 1, rest)
         /\ UNCHANGED <<reusable, lock, sessions, wanted>>
  BY DEF RunMicrotask
<1>4. q \in Coroutine /\ Stage(r, q) /\ Quiet(r, q, q)
  BY <1>2, Known, Stays
<1> HIDE DEF r, rest
<1>5. CASE Piece(r, q, rest)
  BY <1>1, <1>2, <1>5, PieceKeeps
<1>6. CASE /\ q.hops > 0 /\ GoOn(r, q, q.pc, q.hops - 1, rest)
           /\ UNCHANGED <<reusable, lock, sessions, wanted>>
  <2>1. q.hops - 1 \in 0..2
    BY <1>4, <1>6 DEF Coroutine
  <2>2. SidecarTypes'
    BY <1>1, <1>6, Known
  <2>3. ASSUME NEW n \in Coroutine, n.pc = q.pc, n.does = q.does, SameRequest(q, n)
        PROVE  Stage(r, n) /\ Quiet(r, q, n)
    BY <1>2, <1>4, <2>3, SameStage
  <2> QED
    BY <1>2, <1>4, <1>6, <2>1, <2>2, <2>3, GoOnKeeps
<1> QED
  BY <1>3, <1>5, <1>6

(* A request arrives.                                                      *)
LEMMA CompleteKeeps ==
    ASSUME SidecarInv, NEW r \in Requests, NEW key \in Keys, NEW reuse \in BOOLEAN,
           Complete(r, key, reuse)
    PROVE  SidecarInv'
<1> DEFINE q == req[r]
           asked == [q EXCEPT !.key = key, !.reuse = reuse]
<1>1. q \in Coroutine /\ Stage(r, q) /\ q.pc = "idle" /\ Turn(r, micro)
  BY Known, EventTurn DEF Complete
<1>2. asked \in Coroutine
  BY <1>1 DEF Coroutine
<1>3. /\ asked.does = q.does /\ asked.lease = q.lease
      /\ asked.leaseReusable = q.leaseReusable /\ asked.failed = q.failed
      /\ asked.answers = q.answers
  BY <1>1, <1>2 DEF Coroutine
<1>4. /\ GoOn(r, asked, "client", 0, micro) /\ UNCHANGED <<reusable, lock, sessions>>
      /\ wanted' = wanted \cup {r} /\ chunk' = TRUE
  BY DEF Complete
<1> HIDE DEF asked
<1>5. SidecarTypes'
  BY <1>4 DEF SidecarInv, Shapes, SidecarTypes
<1>6. ASSUME NEW n \in Coroutine, n.pc = "client", n.does = asked.does, SameRequest(asked, n)
      PROVE  Stage(r, n) /\ Quiet(r, q, n)
  <2>1. q.lease = NoSession /\ ~q.leaseReusable /\ ~q.failed /\ q.does = "acquire"
    BY <1>1 DEF Stage, LeaseStage, NotYet
  <2>2. q.answers = 0
    BY <1>1, <2>1 DEF Stage, AnswerStage, Over
  <2> QED
    BY <1>1, <1>3, <1>6, <2>1, <2>2, Numbers
    DEF SameRequest, Stage, LeaseStage, DoesStage, AnswerStage, NotYet, Prompted, Over,
        Quiet, Owned, Offering, Replacing, Resuming
<1> QED
  BY <1>1, <1>2, <1>4, <1>5, <1>6, GoOnKeeps DEF Locked, Pieces

(* All active requests are cancelled; their sessions stay as they are.     *)
LEMMA CancelKeeps == ASSUME SidecarInv, Cancel PROVE SidecarInv'
<1>1. /\ \A r \in Requests : req[r] \in Coroutine /\ Stage(r, req[r])
      /\ Shapes /\ Scheduled /\ Belongs
  BY Known
<1>2. /\ req' = [r \in Requests |->
                    IF req[r].active
                    THEN [req[r] EXCEPT !.cancelled = TRUE, !.invalidate = @ \/ req[r].reusable]
                    ELSE req[r]]
      /\ wanted' = {} /\ chunk' = TRUE /\ UNCHANGED <<reusable, lock, micro, sessions>>
  BY DEF Cancel
<1>3. ASSUME NEW r \in Requests
      PROVE  /\ req'[r] \in Coroutine /\ Stage(r, req'[r])
             /\ Quiet(r, req[r], req'[r]) /\ req'[r].pc = req[r].pc
  <2> DEFINE q == req[r]
             n == req'[r]
  <2>1. q \in Coroutine /\ Stage(r, q) /\ Quiet(r, q, q)
    BY <1>1, Stays
  <2>2. n = q \/ n = [q EXCEPT !.cancelled = TRUE, !.invalidate = @ \/ q.reusable]
    BY <1>2
  <2>3. CASE n = q
    BY <2>1, <2>3
  <2>4. CASE n = [q EXCEPT !.cancelled = TRUE, !.invalidate = @ \/ q.reusable]
    <3> DEFINE p == [q EXCEPT !.invalidate = q.invalidate \/ q.reusable]
               t == [p EXCEPT !.cancelled = TRUE]
    <3>1. q.invalidate \in BOOLEAN /\ q.reusable \in BOOLEAN
      BY <2>1 DEF Coroutine
    <3>2. p \in Coroutine /\ p.does = q.does /\ p.pc = q.pc /\ SameRequest(q, p)
      BY <2>1, <3>1, InvalidateFields
    <3>3. n = t
      BY <2>1, <2>4 DEF Coroutine
    <3> HIDE DEF p
    <3>4. t \in Coroutine
      BY <3>2 DEF Coroutine
    <3>5. /\ t.pc = p.pc /\ t.does = p.does /\ t.key = p.key
          /\ t.lease = p.lease /\ t.leaseReusable = p.leaseReusable
          /\ t.failed = p.failed /\ t.answers = p.answers /\ t.cancelled
          /\ t.session = p.session /\ t.reusable = p.reusable
      BY <3>2, <3>4 DEF Coroutine
    <3> HIDE DEF t
    <3>6. /\ t.pc = q.pc /\ t.does = q.does /\ t.key = q.key
          /\ t.lease = q.lease /\ t.leaseReusable = q.leaseReusable
          /\ t.failed = q.failed /\ t.answers = q.answers
          /\ t.session = q.session /\ t.reusable = q.reusable
      BY <3>2, <3>5 DEF SameRequest
    <3>7. /\ NotYet(t) <=> NotYet(q)
          /\ Prompted(t) <=> Prompted(q)
          /\ Over(t) <=> Over(q)
          /\ Owned(r, t) <=> Owned(r, q)
      BY <3>6 DEF NotYet, Prompted, Over, Owned
    <3>8. LeaseStage(r, t) /\ DoesStage(t)
      BY <2>1, <3>6, <3>7 DEF Stage, LeaseStage, DoesStage
    <3>9. AnswerStage(t)
      BY <2>1, <3>5, <3>6, <3>7 DEF Stage, AnswerStage
    <3>10. Quiet(r, q, t)
      BY <2>1, <3>6, <3>7 DEF Quiet
    <3> QED
      BY <3>3, <3>4, <3>6, <3>8, <3>9, <3>10 DEF Stage
  <2> QED
    BY <2>2, <2>3, <2>4
<1>4. Scheduled'
  BY <1>1, <1>2, <1>3 DEF Scheduled
<1>5. Belongs'
  BY <1>1, <1>2, <1>3, QuietBelongs
<1>6. req' \in [Requests -> Coroutine]
  BY <1>2, <1>3
<1> QED
  BY <1>1, <1>2, <1>3, <1>4, <1>5, <1>6 DEF SidecarInv, Shapes

(* A session arrives: its maker, and nobody else, has it.                  *)
LEMMA ArrivesKeeps ==
    ASSUME SidecarInv, NEW r \in Requests, SessionArrives(r)
    PROVE  SidecarInv'
<1> DEFINE old == req[r]
           shared == old.pc \in {"creating", "resuming"}
           q == [old EXCEPT !.lease = r, !.leaseReusable = shared]
<1>1. /\ old \in Coroutine /\ Stage(r, old) /\ Shapes /\ Belongs
      /\ old.pc \in {"creating", "creatingExtra", "creatingOwn", "resuming"}
  BY Known DEF SessionArrives
<1>2. /\ micro = <<>> /\ UNCHANGED <<lock, reusable, wanted>> /\ chunk' = FALSE
      /\ sessions' = [sessions EXCEPT ![r] =
                        [status |-> "open", key |-> old.key, id |-> SdkSession(r)]]
  BY DEF SessionArrives, ExternalEvent
<1>3. /\ q \in Coroutine /\ q.pc = old.pc /\ q.does = old.does /\ q.key = old.key
      /\ q.lease = r /\ q.failed = old.failed /\ q.answers = old.answers
      /\ q.cancelled = old.cancelled
      /\ q.leaseReusable = shared
  <2>1. shared \in BOOLEAN /\ r \in Sessions
    BY Numbers
  <2> HIDE DEF shared
  <2>2. q \in Coroutine
    BY <1>1, <2>1 DEF Coroutine
  <2> QED
    BY <1>1, <2>2 DEF Coroutine
<1>4. \/ q.pc = "creating" /\ GoOn(r, q, "created", 0, micro)
      \/ q.pc = "resuming" /\ GoOn(r, q, "resumed", 0, micro)
      \/ q.pc = "creatingExtra" /\ GoOn(r, q, "release", 1, micro)
      \/ q.pc = "creatingOwn" /\ GoOn(r, q, "leased", 0, micro)
  BY DEF SessionArrives
<1> HIDE DEF q
<1>5. \E at \in {"created", "resumed", "release", "leased"}, hops \in 0..2 :
        /\ at = "created" <=> old.pc = "creating"
        /\ at = "resumed" <=> old.pc = "resuming"
        /\ at = "release" <=> old.pc = "creatingExtra"
        /\ at = "leased" <=> old.pc = "creatingOwn"
        /\ GoOn(r, q, at, hops, micro)
  BY <1>1, <1>3, <1>4
<1>6. PICK at \in {"created", "resumed", "release", "leased"}, hops \in 0..2 :
        /\ at = "created" <=> old.pc = "creating"
        /\ at = "resumed" <=> old.pc = "resuming"
        /\ at = "release" <=> old.pc = "creatingExtra"
        /\ at = "leased" <=> old.pc = "creatingOwn"
        /\ GoOn(r, q, at, hops, micro)
  BY <1>5
<1> DEFINE n == At(q, at, hops)
<1>7. at \in Pcs /\ at \in Pieces /\ (at \in Locked <=> old.pc \in Locked)
  BY <1>1, <1>6 DEF Pcs, Pieces, Locked
<1>8. n \in Coroutine /\ n.pc = at /\ n.does = q.does /\ SameRequest(q, n)
  BY <1>3, <1>7, AtFields
<1>9. req' = [req EXCEPT ![r] = n] /\ micro' = Append(micro, r)
  BY <1>6 DEF GoOn
<1> HIDE DEF n
<1>10. /\ NotYet(old) /\ old.does = "acquire" /\ ~old.failed /\ old.answers = 0
  BY <1>1 DEF Stage, LeaseStage, AnswerStage, NotYet, Over
<1>11. /\ n.lease = r /\ n.key = old.key /\ n.does = "acquire"
       /\ ~n.leaseReusable \/ n.pc \in Offering
       /\ n.pc \in Offering => n.leaseReusable
       /\ n.pc # "done" /\ ~NotYet(n) /\ n.pc \notin Resuming
       /\ n.pc \in Replacing => old.pc = "creating"
  BY <1>3, <1>6, <1>8, <1>10 DEF SameRequest, NotYet, Offering, Resuming, Replacing
<1>12. Turn(r, micro)
  BY <1>1, EventTurn DEF SidecarInv, External
<1>13. micro' \in Seq(Requests) /\ Scheduled'
  BY <1>2, <1>7, <1>8, <1>9, <1>12, GoOnSchedule DEF SidecarInv
<1>14. n.pc \in Replacing => reusable.session = NoSession
  BY <1>1, <1>11 DEF Belongs
<1>15. Belongs'
  <2>1. sessions' = [sessions EXCEPT ![r] =
                       [status |-> "open", key |-> n.key, id |-> SdkSession(r)]]
    BY <1>2, <1>11
  <2> QED
    BY <1>1, <1>2, <1>9, <1>10, <1>11, <1>14, <2>1, ArriveBelongs
<1>16. Stage(r, n)
  BY <1>3, <1>6, <1>8, <1>10, <1>11, Numbers
  DEF SameRequest, Stage, LeaseStage, DoesStage, AnswerStage, NotYet, Prompted, Over, Offering
<1>17. SidecarTypes' /\ lock' \in Seq(Requests)
  <2>0. SdkSession(r) \in Sessions \cup {NoSession}
    <3>1. old.pc = "resuming" => reusable.session \in Sessions
      BY <1>1 DEF Belongs, Shapes, Reusable
    <3>2. old.pc = "resuming" => sessions[reusable.session].id \in Sessions  \cup {NoSession}
      BY <1>1, <3>1 DEF Shapes, SessionObject
    <3> QED
      BY <3>2, Numbers DEF SdkSession
  <2>1. [status |-> "open", key |-> old.key, id |-> SdkSession(r)] \in SessionObject
    BY <1>1, <2>0 DEF Coroutine, SessionObject
  <2> QED
    BY <1>1, <1>2, <2>1 DEF Shapes, SidecarTypes
<1> QED
  BY <1>8, <1>9, <1>13, <1>15, <1>16, <1>17, MoveKeeps

(* A session does not arrive: nobody has it.                               *)
LEMMA FailsKeeps ==
    ASSUME SidecarInv, NEW r \in Requests, SessionFails(r)
    PROVE  SidecarInv'
<1> DEFINE old == req[r]
           q == [old EXCEPT !.failed = TRUE]
<1>1. old \in Coroutine /\ Stage(r, old)
  BY Known
<1>2. /\ q \in Coroutine /\ q.pc = old.pc /\ q.does = old.does /\ q.key = old.key
      /\ q.lease = old.lease /\ q.leaseReusable = old.leaseReusable
      /\ q.failed /\ q.answers = old.answers
  <2>1. q \in Coroutine
    BY <1>1 DEF Coroutine
  <2> QED
    BY <1>1, <2>1 DEF Coroutine
<1>3. /\ \/ /\ q.pc \in {"creating", "creatingExtra"}
            /\ GoOn(r, q, "release", 1, micro)
         \/ q.pc = "creatingOwn" /\ GoOn(r, q, "leased", 0, micro)
         \/ q.pc = "resuming" /\ GoOn(r, old, "resumeFailed", 0, micro)
      /\ UNCHANGED <<sessions, lock, reusable, wanted>> /\ chunk' = FALSE
  BY DEF SessionFails, ExternalEvent
<1> HIDE DEF q
<1>4. SidecarTypes'
  <2>1. UNCHANGED <<reusable, sessions, wanted>> /\ chunk' \in BOOLEAN
    BY <1>3
  <2> QED
    BY <2>1, Known
<1>5. Turn(r, micro) /\ NotYet(old)
  BY <1>1, <1>2, <1>3, EventTurn DEF SidecarInv, External, NotYet
<1>6. /\ old.lease = NoSession /\ ~old.leaseReusable /\ old.does = "acquire"
      /\ old.answers = 0 /\ ~Owned(r, old)
  BY <1>1, <1>2, <1>3, <1>5, Numbers DEF Stage, LeaseStage, AnswerStage, Over, Owned
<1>7. CASE /\ q.pc \in {"creating", "creatingExtra"}
           /\ GoOn(r, q, "release", 1, micro)
  <2>1. ASSUME NEW n \in Coroutine, n.pc = "release", n.does = q.does, SameRequest(q, n)
        PROVE  Stage(r, n) /\ Quiet(r, old, n)
    BY <1>2, <1>6, <2>1, Numbers
    DEF SameRequest, Stage, LeaseStage, DoesStage, AnswerStage, NotYet, Prompted, Over,
        Quiet, Owned, Offering, Replacing, Resuming
  <2> QED
    BY <1>2, <1>3, <1>4, <1>5, <1>7, <2>1, GoOnKeeps DEF Locked, Pieces
<1>8. CASE q.pc = "creatingOwn" /\ GoOn(r, q, "leased", 0, micro)
  <2>1. ASSUME NEW n \in Coroutine, n.pc = "leased", n.does = q.does, SameRequest(q, n)
        PROVE  Stage(r, n) /\ Quiet(r, old, n)
    BY <1>2, <1>6, <2>1, Numbers
    DEF SameRequest, Stage, LeaseStage, DoesStage, AnswerStage, NotYet, Prompted, Over,
        Quiet, Owned, Offering, Replacing, Resuming
  <2>2. "leased" \in Pieces /\ ("leased" \in Locked <=> old.pc \in Locked) /\ 0 \in 0..2
    BY <1>2, <1>8 DEF Locked, Pieces
  <2> QED
    BY <1>2, <1>3, <1>4, <1>5, <1>8, <2>1, <2>2, GoOnKeeps
<1>9. CASE q.pc = "resuming" /\ GoOn(r, old, "resumeFailed", 0, micro)
  <2>1. reusable.session # NoSession
    BY <1>2, <1>9, Known DEF Belongs
  <2>2. ASSUME NEW n \in Coroutine, n.pc = "resumeFailed", n.does = old.does,
               SameRequest(old, n)
        PROVE  Stage(r, n) /\ Quiet(r, old, n)
    BY <1>1, <1>2, <1>5, <1>6, <1>9, <2>1, <2>2, Numbers
    DEF SameRequest, Stage, LeaseStage, DoesStage, AnswerStage, NotYet, Prompted, Over,
        Quiet, Owned, Offering, Replacing, Resuming
  <2>3. "resumeFailed" \in Pieces /\ ("resumeFailed" \in Locked <=> old.pc \in Locked) /\ 0 \in 0..2
    BY <1>2, <1>9 DEF Locked, Pieces
  <2> QED
    BY <1>1, <1>3, <1>4, <1>5, <1>9, <2>2, <2>3, GoOnKeeps
<1> QED
  BY <1>3, <1>7, <1>8, <1>9

(* A destroyed session is gone, a prompt fails, the quota is there.        *)
LEMMA SettlesKeeps ==
    ASSUME SidecarInv, NEW r \in Requests,
           DestroySettles(r) \/ PromptFails(r) \/ QuotaSettles(r)
    PROVE  SidecarInv'
<1> DEFINE q == req[r]
<1>1. q \in Coroutine /\ Stage(r, q) /\ Quiet(r, q, q)
  BY Known, Stays
<1>2. /\ UNCHANGED <<sessions, lock, reusable, wanted>> /\ chunk' = FALSE
      /\ \/ q.pc = "destroyingOld" /\ GoOn(r, q, "destroyedOld", 1, micro)
         \/ q.pc = "destroyingInvalid" /\ GoOn(r, q, "release", 2, micro)
         \/ q.pc = "waiting" /\ GoOn(r, q, "rejected", 1, micro)
         \/ q.pc = "quota" /\ GoOn(r, q, "reply", 0, micro)
  BY DEF DestroySettles, PromptFails, QuotaSettles, ExternalEvent
<1>3. \E at \in {"destroyedOld", "release", "rejected", "reply"}, hops \in 0..2 :
        /\ at = "destroyedOld" <=> q.pc = "destroyingOld"
        /\ at = "release" <=> q.pc = "destroyingInvalid"
        /\ at = "rejected" <=> q.pc = "waiting"
        /\ at = "reply" <=> q.pc = "quota"
        /\ GoOn(r, q, at, hops, micro)
  BY <1>2
<1>4. PICK at \in {"destroyedOld", "release", "rejected", "reply"}, hops \in 0..2 :
        /\ at = "destroyedOld" <=> q.pc = "destroyingOld"
        /\ at = "release" <=> q.pc = "destroyingInvalid"
        /\ at = "rejected" <=> q.pc = "waiting"
        /\ at = "reply" <=> q.pc = "quota"
        /\ GoOn(r, q, at, hops, micro)
  BY <1>3
<1>5. SidecarTypes'
  BY <1>2, Known
<1>6. q.pc \in {"destroyingOld", "destroyingInvalid", "waiting", "quota"}
  BY <1>2
<1>7. Turn(r, micro)
  BY <1>6, EventTurn DEF SidecarInv, External
<1>8. at \in Pieces /\ (at \in Locked <=> q.pc \in Locked)
  BY <1>4, <1>6 DEF Locked, Pieces
<1>9. ASSUME NEW n \in Coroutine, n.pc = at, n.does = q.does, SameRequest(q, n)
      PROVE  Stage(r, n) /\ Quiet(r, q, n)
  <2>1. Stage(r, n)
    BY <1>1, <1>4, <1>6, <1>9, Numbers
    DEF SameRequest, Stage, LeaseStage, DoesStage, AnswerStage, NotYet, Prompted, Over
  <2>2. Quiet(r, q, n)
    BY <1>1, <1>4, <1>6, <1>9
    DEF SameRequest, NotYet, Quiet, Owned, Offering, Replacing, Resuming
  <2> QED
    BY <2>1, <2>2
<1> QED
  BY <1>1, <1>2, <1>4, <1>5, <1>7, <1>8, <1>9, GoOnKeeps

(* session.idle wakes all that wait for the session, and no one else runs. *)
LEMMA IdleKeeps ==
    ASSUME SidecarInv, NEW s \in Sessions, SessionIdle(s)
    PROVE  SidecarInv'
<1> DEFINE W == WaitingOn(s)
<1>1. /\ \A r \in Requests : req[r] \in Coroutine /\ Stage(r, req[r])
      /\ Shapes /\ Scheduled /\ Belongs
  BY Known
<1>2. /\ micro = <<>> /\ chunk' = FALSE /\ UNCHANGED <<lock, reusable, wanted, sessions>>
      /\ req' = [r \in Requests |-> IF r \in W THEN At(req[r], "settled", 1) ELSE req[r]]
  BY DEF SessionIdle, ExternalEvent
<1>3. PICK order \in [1..Cardinality(W) -> W] :
        /\ \A i, j \in DOMAIN order : i < j => order[i] < order[j]
        /\ micro' = order
  BY DEF SessionIdle
<1>4. W \subseteq Requests /\ \A r \in W : req[r].pc = "waiting"
  BY DEF WaitingOn
<1>5. IsFiniteSet(W) /\ Cardinality(W) \in Nat
  <2>1. IsFiniteSet(Requests)
    BY SidecarAssumption, FS_Interval DEF Requests
  <2> QED
    BY <1>4, <2>1, FS_Subset, FS_CardinalityType
<1> DEFINE k == Cardinality(W)
<1> HIDE DEF W, k
<1>6. /\ order \in [1..k -> W] /\ k \in Nat /\ DOMAIN order = 1..k
      /\ \A i \in 1..k : order[i] \in Requests
  BY <1>3, <1>4, <1>5 DEF k
<1>7. micro' \in Seq(Requests)
  <2>1. order \in [1..k -> Requests]
    BY <1>6
  <2> QED
    BY <1>3, <1>6, <2>1
<1>8. NoDuplicates(order)
  <2> SUFFICES ASSUME NEW i \in 1..k, NEW j \in 1..k, i < j PROVE order[i] # order[j]
    BY <1>6 DEF NoDuplicates
  <2>1. order[i] < order[j] /\ order[i] \in Nat
    BY <1>3, <1>6, SidecarAssumption DEF Requests
  <2> QED
    BY <2>1
<1>9. Range(order) = W
  <2>0. \A i, j \in 1..k : order[i] = order[j] => i = j
    BY <1>6, <1>8 DEF NoDuplicates
  <2>1. order \in Injection(1..k, W)
    BY <1>6, <2>0 DEF Injection, IsInjective
  <2>2. Cardinality(1..k) = Cardinality(W)
    BY <1>6, FS_Interval DEF k
  <2>3. order \in Surjection(1..k, W)
    BY <1>5, <2>1, <2>2, FS_Injection
  <2> QED
    BY <1>6, <2>3 DEF Surjection, Range
<1>10. ASSUME NEW r \in W
       PROVE  /\ req'[r] \in Coroutine /\ req'[r].pc = "settled"
              /\ Stage(r, req'[r]) /\ Quiet(r, req[r], req'[r])
  <2> DEFINE q == req[r]
             n == At(q, "settled", 1)
  <2>1. r \in Requests /\ q \in Coroutine /\ Stage(r, q) /\ q.pc = "waiting"
    BY <1>1, <1>4
  <2>2. "settled" \in Pcs /\ 1 \in 0..2
    BY DEF Pcs, Pieces
  <2>3. n \in Coroutine /\ n.pc = "settled" /\ n.does = q.does /\ SameRequest(q, n)
    BY <2>1, <2>2, AtFields
  <2>4. req'[r] = n
    BY <1>2, <2>1
  <2> HIDE DEF n
  <2>5. Stage(r, n)
    BY <2>1, <2>3
    DEF SameRequest, Stage, LeaseStage, DoesStage, AnswerStage, NotYet, Prompted, Over
  <2>6. Quiet(r, q, n)
    BY <2>1, <2>3
    DEF SameRequest, NotYet, Quiet, Owned, Offering, Replacing, Resuming
  <2> QED
    BY <2>3, <2>4, <2>5, <2>6
<1>11. ASSUME NEW r \in Requests \ W
       PROVE  /\ req'[r] = req[r] /\ req'[r] \in Coroutine
              /\ Stage(r, req'[r]) /\ Quiet(r, req[r], req'[r])
  BY <1>1, <1>2, Stays
<1>12. req' \in [Requests -> Coroutine]
  BY <1>2, <1>10, <1>11
<1>13. ASSUME NEW r \in Requests PROVE Queued(req'[r].pc, lock', micro', r)
  <2>1. Queued(req[r].pc, lock, micro, r) /\ r \notin Range(micro)
    BY <1>1, <1>2 DEF Scheduled, Range
  <2>2. r \in Range(micro') <=> r \in W
    BY <1>3, <1>9
  <2>3. CASE r \in W
    <3>1. req[r].pc = "waiting" /\ req'[r].pc = "settled"
      BY <1>4, <1>10, <2>3
    <3> QED
      BY <1>2, <2>1, <2>2, <2>3, <3>1 DEF Queued, Locked, Pieces
  <2>4. CASE r \notin W
    BY <1>2, <1>11, <2>1, <2>2, <2>4 DEF Queued
  <2> QED
    BY <2>3, <2>4
<1>14. Scheduled'
  BY <1>1, <1>2, <1>3, <1>8, <1>13 DEF Scheduled
<1>15. Belongs'
  BY <1>1, <1>2, <1>10, <1>11, QuietBelongs
<1>16. \A r \in Requests : Stage(r, req'[r])
  BY <1>10, <1>11
<1> QED
  BY <1>1, <1>2, <1>7, <1>12, <1>14, <1>15, <1>16 DEF SidecarInv, Shapes

-----------------------------------------------------------------------------
(* SDK sessions.  A resumed session keeps its name and gets new options:   *)
(* who resumes whose session is a matter of order: requests come to the    *)
(* lock, and leave it with a lease, in the order of their numbers.         *)

(* The members of S come in order in the queue s.                          *)
Ascending(s, S) ==
    \A i, j \in DOMAIN s : i < j /\ s[i] \in S /\ s[j] \in S => s[i] < s[j]

(* Requests that have not yet got in line for the lock.                    *)
Clients == {r \in Requests : req[r].pc = "client"}

(* Requests that are in line for a lease, or hold the lock for one.        *)
Acquiring(q) == q.pc \in Locked /\ NotYet(q)

Acquirers == {r \in Requests : Acquiring(req[r])}

Order ==
    /\ \A p, r \in Requests : p < r =>
          /\ req[r].pc # "idle" => req[p].pc # "idle"
          /\ req[p].pc = "client" => req[r].pc \in {"idle", "client"}
    /\ Ascending(micro, Clients)
    /\ Ascending(lock, Acquirers)
    /\ \A p \in Acquirers, r \in Requests : req[r].leaseReusable => r < p
    /\ \A r \in Requests : req[r].pc \in {"client"} \cup Offering => req[r].hops = 0

Made == {s \in Requests : sessions[s].status # "none"}

(* The objects made for the SDK session of s.                              *)
Kin(s) == {t \in Made : sessions[t].id = sessions[s].id}

(* Only sessions that were offered for reuse have a second object.         *)
Named ==
    \A s \in Made :
        /\ sessions[s].id \in Requests
        /\ req[s].lease = s
        /\ sessions[s].id # s =>
              req[s].leaseReusable /\ req[sessions[s].id].leaseReusable

(* The newest object of an SDK session has its options.                    *)
Current ==
    \A s \in Made : (\A t \in Kin(s) : t <= s) => options[sessions[s].id] = sessions[s].key

(* The object a request leases is the newest, but for those later requests *)
(* have got by resuming its session.                                       *)
Leases ==
    \A r \in Requests : req[r].lease # NoSession =>
        /\ req[r].lease \in Made
        /\ \A t \in Kin(req[r].lease) :
              t > req[r].lease => t > r /\ req[r].pc \notin Offering

(* The reusable object is the newest, but for one that was just resumed.   *)
Offered ==
    reusable.session # NoSession =>
        /\ reusable.session \in Made
        /\ req[reusable.session].leaseReusable
        /\ \A t \in Kin(reusable.session) :
              t <= reusable.session \/ req[t].pc = "resumed"

Follows == Named /\ Current /\ Leases /\ Offered

Tracked == Order /\ Follows /\ options \in [Sessions -> Keys]

(* The first leaves, and the others stay in order.                         *)
LEMMA TailAscends ==
    ASSUME NEW s \in Seq(Requests), s # <<>>, NEW S, Ascending(s, S)
    PROVE  /\ Ascending(Tail(s), S)
           /\ \A x \in Range(Tail(s)) : Head(s) \in S /\ x \in S => Head(s) < x
<1>1. /\ Len(s) \in Nat \ {0} /\ DOMAIN s = 1..Len(s) /\ Head(s) = s[1]
      /\ DOMAIN Tail(s) = 1..(Len(s) - 1)
      /\ \A i \in 1..(Len(s) - 1) : Tail(s)[i] = s[i + 1]
  BY HeadTailProperties
<1> DEFINE t == Tail(s)
<1>2. /\ DOMAIN t = 1..(Len(s) - 1)
      /\ \A i \in 1..(Len(s) - 1) : t[i] = s[i + 1]
  BY <1>1
<1> HIDE DEF t
<1>3. Ascending(t, S)
  <2> SUFFICES ASSUME NEW i \in DOMAIN t, NEW j \in DOMAIN t, i < j, t[i] \in S, t[j] \in S
               PROVE  t[i] < t[j]
    BY DEF Ascending
  <2>1. /\ i + 1 \in DOMAIN s /\ j + 1 \in DOMAIN s /\ i + 1 < j + 1
        /\ t[i] = s[i + 1] /\ t[j] = s[j + 1]
    BY <1>1, <1>2
  <2> QED
    BY <2>1 DEF Ascending
<1>4. ASSUME NEW x \in Range(t), Head(s) \in S, x \in S PROVE Head(s) < x
  <2>1. PICK i \in DOMAIN t : t[i] = x
    BY <1>4 DEF Range
  <2>2. 1 \in DOMAIN s /\ i + 1 \in DOMAIN s /\ 1 < i + 1 /\ x = s[i + 1]
    BY <1>1, <1>2, <2>1
  <2> QED
    BY <1>1, <1>4, <2>2 DEF Ascending
<1> QED
  BY <1>3, <1>4 DEF t

(* One who comes after all others may go last; one who does not count may  *)
(* go anywhere.                                                            *)
LEMMA AppendAscends ==
    ASSUME NEW s \in Seq(Requests), NEW S, Ascending(s, S), NEW x \in Requests,
           x \in S => \A y \in Range(s) : y \in S => y < x
    PROVE  Append(s, x) \in Seq(Requests) /\ Ascending(Append(s, x), S)
<1> DEFINE n == Len(s)
           t == Append(s, x)
<1>1. /\ t \in Seq(Requests) /\ n \in Nat
      /\ DOMAIN t = 1..(n + 1) /\ DOMAIN s = 1..n
      /\ \A i \in 1..n : t[i] = s[i]
      /\ t[n + 1] = x
  BY AppendProperties
<1> HIDE DEF t, n
<1>2. Ascending(t, S)
  <2> SUFFICES ASSUME NEW i \in 1..(n + 1), NEW j \in 1..(n + 1), i < j,
                      t[i] \in S, t[j] \in S
               PROVE  t[i] < t[j]
    BY <1>1 DEF Ascending
  <2>1. i \in 1..n /\ t[i] = s[i]
    BY <1>1
  <2>2. CASE j \in 1..n
    BY <1>1, <2>1, <2>2 DEF Ascending
  <2>3. CASE j = n + 1
    BY <1>1, <2>1, <2>3 DEF Range
  <2> QED
    BY <1>1, <2>2, <2>3
<1> QED
  BY <1>1, <1>2 DEF t

(* Of those in order, any are in order.                                    *)
LEMMA FewerAscend ==
    ASSUME NEW s, NEW S, Ascending(s, S), NEW T, \A x \in T : x \in S
    PROVE  Ascending(s, T)
BY DEF Ascending

(* One request moves on, and the order stays.                              *)
LEMMA MoveOrder ==
    ASSUME Shapes, Order, NEW r \in Requests, req[r].pc # "idle",
           NEW n, req' = [req EXCEPT ![r] = n], n.pc \notin {"idle", "client"},
           req[r].pc = "client" => \A p \in Clients : p # r => r < p,
           Acquiring(n) =>
              Acquiring(req[r]) \/ \A p \in Requests : req[p].leaseReusable => p < r,
           n.leaseReusable =>
              req[r].leaseReusable \/ (~Acquiring(n) /\ \A p \in Acquirers : p # r => r < p),
           Acquiring(n) => ~n.leaseReusable,
           n.pc \in Offering => n.hops = 0,
           Ascending(micro', Clients \ {r}),
           Ascending(lock', IF Acquiring(n) THEN Acquirers \cup {r} ELSE Acquirers)
    PROVE  Order'
<1>1. req'[r] = n /\ \A p \in Requests : p # r => req'[p] = req[p]
  BY DEF Shapes
<1>2. Clients' = Clients \ {r}
  BY <1>1 DEF Clients
<1>3. \A p \in Requests : p \in Acquirers' => IF p = r THEN Acquiring(n) ELSE p \in Acquirers
  BY <1>1 DEF Acquirers
<1>4. \A p \in Acquirers' :
         p \in IF Acquiring(n) THEN Acquirers \cup {r} ELSE Acquirers
  BY <1>3 DEF Acquirers
<1>5. Ascending(lock', Acquirers')
  BY <1>4, FewerAscend
<1>6. ASSUME NEW p \in Requests, NEW x \in Requests, p < x
      PROVE  /\ (req[x].pc # "idle" => req[p].pc # "idle")'
             /\ (req[p].pc = "client" => req[x].pc \in {"idle", "client"})'
  <2>1. /\ req[x].pc # "idle" => req[p].pc # "idle"
        /\ req[p].pc = "client" => req[x].pc \in {"idle", "client"}
    BY <1>6 DEF Order
  <2>2. p \in Int /\ x \in Int
    BY SidecarAssumption DEF Requests
  <2>3. p = r => ~(x = r)
    BY <1>6, <2>2
  <2>4. p \in Clients /\ p # r /\ x = r => req[r].pc # "client"
    BY <1>6, <2>2
  <2>5. CASE x = r
    BY <1>1, <2>1, <2>3, <2>4, <2>5 DEF Clients
  <2>6. CASE x # r
    BY <1>1, <2>1, <2>6
  <2> QED
    BY <2>5, <2>6
<1>7. ASSUME NEW p \in Requests, p \in Acquirers', NEW x \in Requests, req'[x].leaseReusable
      PROVE  x < p
  <2>1. CASE p = r
    <3>1. Acquiring(n) /\ x # r
      BY <1>1, <1>3, <1>7, <2>1
    <3>2. req[x].leaseReusable
      BY <1>1, <1>7, <3>1
    <3> QED
      BY <2>1, <3>1, <3>2 DEF Order, Acquirers
  <2>2. CASE p # r
    <3>1. p \in Acquirers
      BY <1>3, <1>7, <2>2
    <3>2. CASE x = r
      BY <1>1, <1>7, <2>2, <3>1, <3>2 DEF Order
    <3>3. CASE x # r
      BY <1>1, <1>7, <3>1, <3>3 DEF Order
    <3> QED
      BY <3>2, <3>3
  <2> QED
    BY <2>1, <2>2
<1>8. \A p \in Acquirers' : p \in Requests
  BY DEF Acquirers
<1>9. (\A p \in Requests : req[p].pc \in {"client"} \cup Offering => req[p].hops = 0)'
  BY <1>1 DEF Order
<1> QED
  BY <1>2, <1>5, <1>6, <1>7, <1>8, <1>9 DEF Order

(* No session is made, and no request gets a lease.                        *)
SameObjects ==
    \A s \in Requests :
        /\ sessions'[s].id = sessions[s].id /\ sessions'[s].key = sessions[s].key
        /\ sessions'[s].status = "none" <=> sessions[s].status = "none"

SameLeases ==
    \A r \in Requests :
        /\ req'[r].lease = req[r].lease /\ req'[r].leaseReusable = req[r].leaseReusable
        /\ req'[r].pc \in Offering => req[r].pc \in Offering

(* Without new sessions and leases, objects and sessions stay as they are. *)
LEMMA SameOthers ==
    ASSUME Follows, SameObjects, SameLeases, options' = options
    PROVE  Made' = Made /\ Named' /\ Current' /\ Leases'
<1>1. Made' = Made /\ \A s \in Made : s \in Requests
  BY DEF SameObjects, Made
<1>2. ASSUME NEW s \in Made PROVE Kin(s)' = Kin(s)
  BY <1>1 DEF Kin, SameObjects
<1>3. Named'
  BY <1>1 DEF Follows, Named, SameObjects, SameLeases
<1>4. Current'
  <2> SUFFICES ASSUME NEW s \in Made, \A t \in Kin(s) : t <= s
               PROVE  options[sessions'[s].id] = sessions'[s].key
    BY <1>1, <1>2 DEF Current
  <2> QED
    BY <1>1 DEF Follows, Current, SameObjects
<1>5. Leases'
  <2> SUFFICES ASSUME NEW r \in Requests, req'[r].lease # NoSession
               PROVE  /\ req'[r].lease \in Made'
                      /\ \A t \in Made' :
                            /\ sessions'[t].id = sessions'[req'[r].lease].id
                            /\ t > req'[r].lease
                            => t > r /\ req'[r].pc \notin Offering
    BY DEF Leases, Kin
  <2>1. /\ req'[r].lease = req[r].lease /\ req[r].lease \in Made
        /\ \A t \in Kin(req[r].lease) :
              t > req[r].lease => t > r /\ req[r].pc \notin Offering
        /\ req'[r].pc \in Offering => req[r].pc \in Offering
    BY DEF Follows, Leases, SameLeases
  <2>2. \A t \in Made : /\ sessions'[t].id = sessions[t].id
                        /\ sessions'[req[r].lease].id = sessions[req[r].lease].id
    BY <1>1, <2>1 DEF SameObjects
  <2> QED
    BY <1>1, <2>1, <2>2 DEF Kin
<1> QED
  BY <1>1, <1>3, <1>4, <1>5

(* And so it is with the reusable one, which may be dropped.               *)
LEMMA SameFollows ==
    ASSUME Follows, SameObjects, SameLeases, options' = options,
           reusable'.session \in {reusable.session, NoSession},
           \A r \in Requests : req[r].pc = "resumed" => req'[r].pc = "resumed"
    PROVE  Follows'
<1>1. Made' = Made /\ Named' /\ Current' /\ Leases' /\ \A s \in Made : s \in Requests
  BY SameOthers DEF Made
<1>2. Offered'
  <2> SUFFICES ASSUME reusable'.session # NoSession
               PROVE  /\ reusable'.session \in Made'
                      /\ req'[reusable'.session].leaseReusable
                      /\ \A t \in Made' :
                            sessions'[t].id = sessions'[reusable'.session].id =>
                               t <= reusable'.session \/ req'[t].pc = "resumed"
    BY DEF Offered, Kin
  <2>1. reusable'.session = reusable.session /\ reusable.session \in Made
    BY DEF Follows, Offered
  <2>2. \A t \in Made : /\ sessions'[t].id = sessions[t].id
                        /\ sessions'[reusable.session].id = sessions[reusable.session].id
    BY <1>1, <2>1 DEF SameObjects
  <2> QED
    BY <1>1, <2>1, <2>2 DEF Follows, Offered, SameLeases, Kin
<1> QED
  BY <1>1, <1>2 DEF Follows

(* Destroying or replacing a session object makes none.                    *)
LEMMA EditObjects ==
    ASSUME Shapes
    PROVE  /\ sessions' = sessions => SameObjects
           /\ \A s \in Made : Destroy(s) => SameObjects
           /\ \A s \in Made :
                sessions' = [sessions EXCEPT ![s].status = "replaced"] => SameObjects
<1>1. \A s \in Requests : sessions[s] \in SessionObject
  BY Numbers DEF Shapes
<1>2. ASSUME NEW s \in Made, NEW status \in {"destroyed", "replaced"},
             sessions' = [sessions EXCEPT ![s].status = status]
      PROVE  SameObjects
  <2> SUFFICES ASSUME NEW t \in Requests
               PROVE  /\ sessions'[t].id = sessions[t].id /\ sessions'[t].key = sessions[t].key
                      /\ sessions'[t].status = "none" <=> sessions[t].status = "none"
    BY DEF SameObjects
  <2>1. CASE t = s
    <3>1. sessions'[t] = [sessions[s] EXCEPT !.status = status]
      BY <1>2, <2>1, Numbers DEF Shapes
    <3>2. /\ sessions'[t].id = sessions[s].id /\ sessions'[t].key = sessions[s].key
          /\ sessions'[t].status = status
      BY <1>1, <2>1, <3>1 DEF SessionObject
    <3> QED
      BY <2>1, <3>2 DEF Made
  <2>2. CASE t # s
    BY <1>2, <2>2, Numbers DEF Shapes
  <2> QED
    BY <2>1, <2>2
<1>3. sessions' = sessions => SameObjects
  BY DEF SameObjects
<1> QED
  BY <1>2, <1>3 DEF Destroy

(* It is the turn of r, in order.                                          *)
First(r, rest) ==
    /\ rest \in Seq(Requests)
    /\ Ascending(rest, Clients)
    /\ req[r].pc # "idle"
    /\ req[r].pc = "client" => \A p \in Clients : p # r => r < p

(* The microtask queue ascends when others than clients join it.           *)
LEMMA RestAscends ==
    ASSUME NEW r \in Requests, NEW rest, First(r, rest)
    PROVE  /\ Ascending(rest, Clients \ {r})
           /\ Ascending(Append(rest, r), Clients \ {r})
<1>1. Ascending(rest, Clients \ {r})
  BY FewerAscend DEF First
<1> QED
  BY <1>1, AppendAscends DEF First

(* What a move that gets no lease leaves alone.                            *)
Still(q, n) ==
    /\ n.lease = q.lease /\ n.leaseReusable = q.leaseReusable
    /\ n.pc \notin {"idle", "client"} \cup Offering
    /\ Acquiring(n) => Acquiring(q)

(* A request moves on without a new lease.                                 *)
LEMMA StillTracked ==
    ASSUME SidecarInv, Tracked, NEW r \in Requests, NEW rest, First(r, rest),
           NEW n, req' = [req EXCEPT ![r] = n], Still(req[r], n),
           req[r].pc # "resumed", SameObjects,
           Ascending(micro', Clients \ {r}), Ascending(lock', Acquirers),
           reusable'.session \in {reusable.session, NoSession}, options' = options
    PROVE  Tracked'
<1>1. req'[r] = n /\ \A p \in Requests : p # r => req'[p] = req[p]
  BY DEF SidecarInv, Shapes
<1>2. Shapes /\ Stage(r, req[r])
  BY DEF SidecarInv
<1>3. Acquiring(n) => ~n.leaseReusable /\ r \in Acquirers
  BY <1>2 DEF Still, Acquiring, Stage, LeaseStage, Acquirers
<1>4. Ascending(lock', IF Acquiring(n) THEN Acquirers \cup {r} ELSE Acquirers)
  <2>1. Acquiring(n) => Acquirers \cup {r} = Acquirers
    BY <1>3
  <2> QED
    BY <2>1
<1>5. Order'
  BY <1>2, <1>3, <1>4, MoveOrder DEF Tracked, First, Still
<1>6. SameLeases
  BY <1>1 DEF SameLeases, Still
<1>7. \A p \in Requests : req[p].pc = "resumed" => req'[p].pc = "resumed"
  BY <1>1
<1>8. Follows'
  BY <1>6, <1>7, SameFollows DEF Tracked
<1> QED
  BY <1>5, <1>8 DEF Tracked

(* A piece without a new lease ends in an await of the SDK.                *)
LEMMA AwaitTracks ==
    ASSUME SidecarInv, Tracked, NEW r \in Requests, NEW rest, First(r, rest),
           NEW q \in Coroutine, q.lease = req[r].lease,
           q.leaseReusable = req[r].leaseReusable,
           NEW at \in External \cup {"done"}, Await(r, q, at, rest),
           \A n : n.pc = at /\ n.does = q.does /\ Acquiring(n) => Acquiring(req[r]),
           req[r].pc # "resumed", SameObjects, lock' = lock,
           reusable'.session \in {reusable.session, NoSession}, options' = options
    PROVE  Tracked'
<1> DEFINE n == At(q, at, 0)
<1>1. at \in Pcs /\ 0 \in 0..2
  BY DEF Pcs
<1>2. n \in Coroutine /\ n.pc = at /\ n.does = q.does /\ SameRequest(q, n)
  BY <1>1, AtFields
<1>3. req' = [req EXCEPT ![r] = n] /\ micro' = rest
  BY DEF Await
<1> HIDE DEF n
<1>4. Still(req[r], n)
  BY <1>2 DEF Still, SameRequest, External, Offering
<1>5. Ascending(micro', Clients \ {r}) /\ Ascending(lock', Acquirers)
  BY <1>3, RestAscends DEF Tracked, Order
<1> QED
  BY <1>3, <1>4, <1>5, StillTracked

(* A piece without a new lease ends in an await of what is settled.        *)
LEMMA GoOnTracks ==
    ASSUME SidecarInv, Tracked, NEW r \in Requests, NEW rest, First(r, rest),
           NEW q \in Coroutine, q.lease = req[r].lease,
           q.leaseReusable = req[r].leaseReusable,
           NEW at \in Pieces \ ({"client"} \cup Offering), NEW hops \in 0..2,
           GoOn(r, q, at, hops, rest),
           \A n : n.pc = at /\ n.does = q.does /\ Acquiring(n) => Acquiring(req[r]),
           req[r].pc # "resumed", SameObjects, lock' = lock,
           reusable'.session \in {reusable.session, NoSession}, options' = options
    PROVE  Tracked'
<1> DEFINE n == At(q, at, hops)
<1>1. at \in Pcs
  BY DEF Pcs
<1>2. n \in Coroutine /\ n.pc = at /\ n.does = q.does /\ SameRequest(q, n)
  BY <1>1, AtFields
<1>3. req' = [req EXCEPT ![r] = n] /\ micro' = Append(rest, r)
  BY DEF GoOn
<1> HIDE DEF n
<1>4. Still(req[r], n)
  BY <1>2 DEF Still, SameRequest, Pieces
<1>5. Ascending(micro', Clients \ {r}) /\ Ascending(lock', Acquirers)
  BY <1>3, RestAscends DEF Tracked, Order
<1> QED
  BY <1>3, <1>4, <1>5, StillTracked

(* A piece with a lease ends in line for the lock.                         *)
LEMMA EnterTracks ==
    ASSUME SidecarInv, Tracked, NEW r \in Requests, NEW rest, First(r, rest),
           NEW q \in Coroutine, q.lease = req[r].lease,
           q.leaseReusable = req[r].leaseReusable,
           NEW does \in LockActions \ {"acquire"}, EnterLock(r, q, does, rest),
           req[r].pc \notin Locked, SameObjects,
           reusable'.session \in {reusable.session, NoSession}, options' = options
    PROVE  Tracked'
<1> DEFINE p == [q EXCEPT !.does = does]
           n == At(p, "enterLock", 0)
<1>1. p \in Coroutine /\ p.does = does /\ SameRequest(q, p)
  BY DoesFields
<1> HIDE DEF p
<1>2. n \in Coroutine /\ n.pc = "enterLock" /\ n.does = p.does /\ SameRequest(p, n)
  BY <1>1, AtFields DEF Pcs, Pieces
<1>3. /\ req' = [req EXCEPT ![r] = n] /\ lock' = Append(lock, r)
      /\ micro' = IF lock = <<>> THEN Append(rest, r) ELSE rest
  BY DEF EnterLock, p
<1> HIDE DEF n
<1>4. Still(req[r], n)
  BY <1>1, <1>2 DEF Still, SameRequest, Offering, Acquiring, NotYet
<1>5. Ascending(micro', Clients \ {r})
  BY <1>3, RestAscends
<1>6. r \notin Acquirers
  BY DEF Acquirers, Acquiring
<1>7. Ascending(lock', Acquirers)
  BY <1>3, <1>6, AppendAscends DEF Tracked, Order, SidecarInv, Shapes
<1>8. req[r].pc # "resumed"
  BY DEF Locked
<1> QED
  BY <1>3, <1>4, <1>5, <1>7, <1>8, StillTracked

(* The finally block gets no lease.                                        *)
LEMMA FinallyTracks ==
    ASSUME SidecarInv, Tracked, NEW r \in Requests, NEW rest, First(r, rest),
           req[r].pc \in {"leased", "settled", "rejected", "reply"},
           NEW q \in Coroutine, q.lease = req[r].lease,
           q.leaseReusable = req[r].leaseReusable, Finally(r, q, rest),
           reusable' = reusable, options' = options
    PROVE  Tracked'
<1> DEFINE left == [q EXCEPT !.active = FALSE]
<1>1. /\ left \in Coroutine /\ left.does = q.does /\ SameRequest(q, left)
  BY ActiveFields
<1>2. /\ \/ EnterLock(r, left, "invalidate", rest) /\ sessions' = sessions
         \/ Await(r, left, "done", rest) /\ lock' = lock
            /\ q.lease # NoSession /\ Destroy(q.lease)
         \/ Await(r, left, "done", rest) /\ lock' = lock /\ sessions' = sessions
  BY DEF Finally
<1> HIDE DEF left
<1>3. left.lease = req[r].lease /\ left.leaseReusable = req[r].leaseReusable
  BY <1>1 DEF SameRequest
<1>4. req[r].pc \notin Locked /\ req[r].pc # "resumed"
  BY DEF Locked
<1>5. q.lease # NoSession => q.lease \in Made
  BY DEF Tracked, Follows, Leases
<1>6. SameObjects
  BY <1>2, <1>5, EditObjects DEF SidecarInv
<1>7. \A n : n.pc = "done" /\ n.does = left.does /\ Acquiring(n) => Acquiring(req[r])
  BY DEF Acquiring, Locked
<1>8. CASE EnterLock(r, left, "invalidate", rest)
  BY <1>1, <1>3, <1>4, <1>6, <1>8, EnterTracks DEF LockActions
<1>9. CASE Await(r, left, "done", rest) /\ lock' = lock
  BY <1>1, <1>3, <1>4, <1>6, <1>7, <1>9, AwaitTracks
<1> QED
  BY <1>2, <1>8, <1>9

(* Nor does the catch block.                                               *)
LEMMA CatchTracks ==
    ASSUME SidecarInv, Tracked, NEW r \in Requests, NEW rest, First(r, rest),
           req[r].pc \in {"leased", "rejected"},
           req[r].lease # NoSession => req[r].reusable = req[r].leaseReusable,
           Catch(r, req[r], rest), reusable' = reusable, options' = options
    PROVE  Tracked'
<1>1. PICK q : Ending(r, q) /\ Finally(r, q, rest)
  BY CatchEnds
<1> QED
  BY <1>1, FinallyTracks DEF Ending

(* The holder of the lock has come before all others in line.              *)
LEMMA HolderFirst ==
    ASSUME SidecarInv, Tracked, NEW r \in Requests, r \in Acquirers, r = Head(lock)
    PROVE  \A p \in Acquirers : p # r => r < p
<1>1. \A p \in Acquirers : p \in Range(lock)
  BY DEF Acquirers, Acquiring, SidecarInv, Scheduled, Queued
<1>2. lock \in Seq(Requests) /\ NoDuplicates(lock) /\ lock # <<>>
  BY <1>1, EmptyRange DEF SidecarInv, Scheduled, Shapes
<1>3. Range(Tail(lock)) = Range(lock) \ {r}
  BY <1>2, TailRange
<1>4. \A x \in Range(Tail(lock)) : x \in Acquirers => r < x
  BY <1>2, TailAscends DEF Tracked, Order
<1> QED
  BY <1>1, <1>3, <1>4

(* The client is there: the request joins the line after all others.       *)
LEMMA ClientTracks ==
    ASSUME SidecarInv, Tracked, NEW r \in Requests, NEW rest, First(r, rest),
           req[r].pc = "client", ClientReady(r, req[r], rest), options' = options
    PROVE  Tracked'
<1> DEFINE q == req[r]
           known == [q EXCEPT !.active = TRUE]
<1>1. /\ q \in Coroutine /\ Stage(r, q) /\ Shapes /\ Scheduled /\ Order
      /\ \A p \in Requests : Stage(p, req[p])
  BY Known DEF Tracked
<1>2. known \in Coroutine /\ known.does = q.does /\ SameRequest(q, known)
  BY <1>1, ActiveFields
<1>3. /\ \/ EnterLock(r, known, "acquire", rest)
         \/ Await(r, known, "creatingOwn", rest) /\ lock' = lock
      /\ UNCHANGED <<reusable, sessions>>
  BY DEF ClientReady
<1> HIDE DEF known
<1>4. known.lease = q.lease /\ known.leaseReusable = q.leaseReusable /\ ~q.leaseReusable
  BY <1>1, <1>2 DEF SameRequest, Stage, LeaseStage, NotYet
<1>5. SameObjects
  BY <1>1, <1>3, EditObjects
<1>6. CASE Await(r, known, "creatingOwn", rest) /\ lock' = lock
  <2>1. \A n : n.pc = "creatingOwn" /\ n.does = known.does /\ Acquiring(n) => Acquiring(q)
    BY DEF Acquiring, Locked
  <2> QED
    BY <1>2, <1>3, <1>4, <1>5, <1>6, <2>1, AwaitTracks DEF External
<1>7. CASE EnterLock(r, known, "acquire", rest)
  <2> DEFINE p == [known EXCEPT !.does = "acquire"]
             n == At(p, "enterLock", 0)
  <2>1. p \in Coroutine /\ p.does = "acquire" /\ SameRequest(known, p)
    BY <1>2, DoesFields DEF LockActions
  <2> HIDE DEF p
  <2>2. n \in Coroutine /\ n.pc = "enterLock" /\ n.does = p.does /\ SameRequest(p, n)
    BY <2>1, AtFields DEF Pcs, Pieces
  <2>3. /\ req' = [req EXCEPT ![r] = n] /\ lock' = Append(lock, r)
        /\ micro' = IF lock = <<>> THEN Append(rest, r) ELSE rest
    BY <1>7 DEF EnterLock, p
  <2> HIDE DEF n
  <2>4. Acquiring(n) /\ ~n.leaseReusable /\ n.lease = q.lease
        /\ n.leaseReusable = q.leaseReusable
    BY <1>4, <2>1, <2>2 DEF SameRequest, Acquiring, NotYet, Locked
  <2>5. Ascending(micro', Clients \ {r})
    BY <2>3, RestAscends
  <2>6. ASSUME NEW x \in Requests, x # r, req[x].pc \notin {"idle", "client"} PROVE x < r
    <3>1. ~(r < x)
      BY <1>1, <2>6 DEF Order
    <3> QED
      BY <2>6, <3>1, SidecarAssumption DEF Requests
  <2>7. \A x \in Requests : req[x].leaseReusable => x < r
    <3>1. \A x \in Requests : req[x].leaseReusable => x # r /\ req[x].pc \notin {"idle", "client"}
      BY <1>1, <1>4 DEF Stage, LeaseStage, NotYet
    <3> QED
      BY <2>6, <3>1
  <2>8. \A y \in Acquirers : y # r /\ y < r
    BY <2>6 DEF Acquirers, Acquiring, Locked
  <2>9. r \notin Range(lock)
    BY <1>1 DEF Scheduled, Queued, Locked
  <2>10. Ascending(lock, Acquirers \cup {r})
    BY <1>1, <2>9 DEF Order, Ascending, Range
  <2>11. \A y \in Range(lock) : y \in Acquirers \cup {r} => y < r
    BY <2>8, <2>9
  <2>12. lock \in Seq(Requests)
    BY <1>1 DEF Shapes
  <2>13. Ascending(lock', Acquirers \cup {r})
    BY <2>3, <2>10, <2>11, <2>12, AppendAscends
  <2>14. Order'
    BY <1>1, <2>2, <2>3, <2>4, <2>5, <2>7, <2>13, MoveOrder DEF First, Offering
  <2>15. req'[r] = n /\ \A x \in Requests : x # r => req'[x] = req[x]
    BY <1>1, <2>3 DEF Shapes
  <2>16. SameLeases
    BY <2>2, <2>4, <2>15 DEF SameLeases, Offering
  <2>17. \A x \in Requests : req[x].pc = "resumed" => req'[x].pc = "resumed"
    BY <2>15
  <2>18. Follows'
    BY <1>3, <1>5, <2>16, <2>17, SameFollows DEF Tracked
  <2> QED
    BY <2>14, <2>18 DEF Tracked
<1> QED
  BY <1>3, <1>6, <1>7

(* The holder of the lock is lent the reusable session, which is the       *)
(* newest object.                                                          *)
LEMMA LendTracks ==
    ASSUME SidecarInv, Tracked, NEW r \in Requests, NEW rest, First(r, rest),
           req[r].pc = "enterLock", req[r].does = "acquire", r = Head(lock),
           reusable.session # NoSession,
           GoOn(r, [req[r] EXCEPT !.lease = reusable.session, !.leaseReusable = TRUE],
                "release", 0, rest),
           UNCHANGED <<reusable, sessions, lock, options>>
    PROVE  Tracked'
<1> DEFINE q == req[r]
           h == reusable.session
           has == [q EXCEPT !.lease = h, !.leaseReusable = TRUE]
           n == At(has, "release", 0)
<1>1. /\ q \in Coroutine /\ Stage(r, q) /\ Shapes /\ Scheduled /\ Belongs /\ Order
      /\ NotYet(q) /\ Follows
  BY Known DEF Tracked, NotYet
<1>2. h \in Sessions /\ h \in Made
  BY <1>1 DEF Shapes, Reusable, Follows, Offered
<1>3. has \in Coroutine /\ has.lease = h /\ has.leaseReusable
  <2>1. has \in Coroutine
    BY <1>1, <1>2 DEF Coroutine
  <2> QED
    BY <1>1, <2>1 DEF Coroutine
<1>4. n \in Coroutine /\ n.pc = "release" /\ SameRequest(has, n)
  BY <1>3, AtFields DEF Pcs, Pieces
<1>5. req' = [req EXCEPT ![r] = n] /\ micro' = Append(rest, r)
  BY DEF GoOn
<1> HIDE DEF n, has
<1>6. n.lease = h /\ n.leaseReusable /\ ~Acquiring(n)
  BY <1>3, <1>4 DEF SameRequest, Acquiring, NotYet
<1>7. req'[r] = n /\ \A x \in Requests : x # r => req'[x] = req[x]
  BY <1>1, <1>5 DEF Shapes
<1>8. r \in Acquirers /\ Acquiring(q)
  BY <1>1 DEF Acquirers, Acquiring, Locked
<1>9. \A p \in Acquirers : p # r => r < p
  BY <1>8, HolderFirst
<1>10. Ascending(micro', Clients \ {r}) /\ Ascending(lock', Acquirers)
  BY <1>1, <1>5, RestAscends DEF Order
<1>11. Order'
  BY <1>1, <1>4, <1>5, <1>6, <1>9, <1>10, MoveOrder DEF First, Offering
<1>12. Made' = Made /\ r \notin Made /\ \A t \in Made : t \in Requests
  BY <1>1 DEF Made, Belongs
<1>13. Named'
  <2> SUFFICES ASSUME NEW s \in Made
               PROVE  /\ sessions[s].id \in Requests
                      /\ req'[s].lease = s
                      /\ sessions[s].id # s =>
                            req'[s].leaseReusable /\ req'[sessions[s].id].leaseReusable
    BY <1>12 DEF Named
  <2>1. /\ sessions[s].id \in Requests /\ req[s].lease = s /\ s # r
        /\ sessions[s].id # s =>
              req[s].leaseReusable /\ req[sessions[s].id].leaseReusable
    BY <1>1, <1>12 DEF Follows, Named
  <2> QED
    BY <1>6, <1>7, <1>12, <2>1
<1>14. Current'
  BY <1>1, <1>12 DEF Follows, Current, Kin
<1>15. \A t \in Kin(h) : t <= h
  <2> SUFFICES ASSUME NEW t \in Kin(h), ~(t <= h) PROVE FALSE
    OBVIOUS
  <2>1. t \in Requests /\ req[t].pc = "resumed"
    BY <1>1, <1>12 DEF Follows, Offered, Kin
  <2>2. t = Head(lock)
    BY <1>1, <2>1 DEF Scheduled, Queued, Locked
  <2> QED
    BY <2>1, <2>2
<1>16. Leases'
  <2> SUFFICES ASSUME NEW p \in Requests, req'[p].lease # NoSession
               PROVE  /\ req'[p].lease \in Made
                      /\ \A t \in Made :
                            /\ sessions[t].id = sessions[req'[p].lease].id
                            /\ t > req'[p].lease
                            => t > p /\ req'[p].pc \notin Offering
    BY <1>12 DEF Leases, Kin
  <2>1. CASE p = r
    <3>1. req'[p].lease = h
      BY <1>6, <1>7, <2>1
    <3>2. \A t \in Made : sessions[t].id = sessions[h].id => ~(t > h)
      <4> SUFFICES ASSUME NEW t \in Made, sessions[t].id = sessions[h].id PROVE ~(t > h)
        OBVIOUS
      <4>1. t <= h
        BY <1>15 DEF Kin
      <4>2. t \in Int /\ h \in Int
        BY <1>2, <1>12, SidecarAssumption DEF Requests
      <4> QED
        BY <4>1, <4>2
    <3> QED
      BY <1>2, <3>1, <3>2
  <2>2. CASE p # r
    BY <1>1, <1>7, <2>2 DEF Follows, Leases, Kin
  <2> QED
    BY <2>1, <2>2
<1>17. Offered'
  <2> SUFFICES /\ h \in Made /\ req'[h].leaseReusable
               /\ \A t \in Made : sessions[t].id = sessions[h].id =>
                      t <= h \/ req'[t].pc = "resumed"
    BY <1>12 DEF Offered, Kin
  <2>1. req[h].leaseReusable /\ h # r
    BY <1>1, <1>2, <1>12 DEF Follows, Offered
  <2> QED
    BY <1>2, <1>7, <1>12, <1>15, <2>1 DEF Kin
<1>18. Follows'
  BY <1>13, <1>14, <1>16, <1>17 DEF Follows
<1> QED
  BY <1>11, <1>18 DEF Tracked

(* Under the lock nobody gets ahead of the holder.                         *)
LEMMA LockedTracks ==
    ASSUME SidecarInv, Tracked, NEW r \in Requests, NEW rest, First(r, rest),
           req[r].pc = "enterLock", r = Head(lock), LockedPiece(r, req[r], rest),
           options' = options
    PROVE  Tracked'
<1> DEFINE q == req[r]
<1>1. q \in Coroutine /\ Shapes /\ lock' = lock /\ q.pc # "resumed"
  BY Known DEF LockedPiece
<1>2. \A n : n.pc \in {"release", "destroyingInvalid"} => ~Acquiring(n)
  BY DEF Acquiring, NotYet
<1>3. q.does = "acquire" => Acquiring(q)
  BY DEF Acquiring, NotYet, Locked
<1>4. reusable.session # NoSession => reusable.session \in Made
  BY DEF Tracked, Follows, Offered
<1>5. q.lease # NoSession => q.lease \in Made
  BY DEF Tracked, Follows, Leases
<1>6. NoReusable.session = NoSession
  BY DEF NoReusable
<1>7. \/ /\ GoOn(r, q, "release", 0, rest) /\ sessions' = sessions
         /\ reusable' = reusable \/ reusable' = [reusable EXCEPT !.invalidated = TRUE]
      \/ /\ reusable.session # NoSession /\ sessions' = sessions /\ reusable' = reusable
         /\ q.does = "acquire"
         /\ GoOn(r, [q EXCEPT !.lease = reusable.session, !.leaseReusable = TRUE],
                 "release", 0, rest)
      \/ \E at \in {"destroyingOld", "destroyingInvalid", "resuming", "creating",
                    "creatingExtra"} :
            /\ at # "destroyingInvalid" => q.does = "acquire"
            /\ Await(r, q, at, rest)
            /\ \/ sessions' = sessions /\ reusable' = reusable
               \/ /\ reusable.session # NoSession /\ Destroy(reusable.session)
                  /\ reusable' = NoReusable
  <2> SUFFICES
        \/ /\ GoOn(r, q, "release", 0, rest) /\ sessions' = sessions
           /\ reusable' = reusable \/ reusable' = [reusable EXCEPT !.invalidated = TRUE]
        \/ /\ reusable.session # NoSession /\ sessions' = sessions /\ reusable' = reusable
           /\ q.does = "acquire"
           /\ GoOn(r, [q EXCEPT !.lease = reusable.session, !.leaseReusable = TRUE],
                   "release", 0, rest)
        \/ /\ q.does = "acquire"
           /\ \/ Await(r, q, "destroyingOld", rest)
              \/ Await(r, q, "resuming", rest)
              \/ Await(r, q, "creating", rest)
              \/ Await(r, q, "creatingExtra", rest)
           /\ \/ sessions' = sessions /\ reusable' = reusable
              \/ /\ reusable.session # NoSession /\ Destroy(reusable.session)
                 /\ reusable' = NoReusable
        \/ /\ Await(r, q, "destroyingInvalid", rest)
           /\ reusable.session # NoSession /\ Destroy(reusable.session)
           /\ reusable' = NoReusable
    OBVIOUS
  <2>1. CASE q.does = "acquire" /\ Acquire(r, q, rest)
    BY <2>1 DEF Acquire, MustDrop, CanReuse, CanResume
  <2>2. CASE q.does = "invalidate" /\ Invalidate(r, q, rest)
    <3>1. q.lease # NoSession
      BY <2>2, Known DEF Stage, DoesStage
    <3> QED
      BY <2>2, <3>1 DEF Invalidate
  <2>3. CASE GoOn(r, q, "release", 0, rest) /\ UNCHANGED <<reusable, sessions>>
    BY <2>3
  <2> QED
    BY <2>1, <2>2, <2>3 DEF LockedPiece
<1>8. CASE /\ GoOn(r, q, "release", 0, rest) /\ sessions' = sessions
           /\ reusable' = reusable \/ reusable' = [reusable EXCEPT !.invalidated = TRUE]
  <2>1. reusable'.session = reusable.session
    BY <1>1, <1>8 DEF Shapes, Reusable
  <2>2. SameObjects /\ "release" \in Pieces \ ({"client"} \cup Offering) /\ 0 \in 0..2
    BY <1>1, <1>8, EditObjects DEF Pieces, Offering
  <2> QED
    BY <1>1, <1>2, <1>8, <2>1, <2>2, GoOnTracks
<1>9. CASE /\ reusable.session # NoSession /\ sessions' = sessions /\ reusable' = reusable
           /\ q.does = "acquire"
           /\ GoOn(r, [q EXCEPT !.lease = reusable.session, !.leaseReusable = TRUE],
                   "release", 0, rest)
  BY <1>1, <1>9, LendTracks
<1>10. ASSUME NEW at \in {"destroyingOld", "destroyingInvalid", "resuming", "creating",
                          "creatingExtra"},
              at # "destroyingInvalid" => q.does = "acquire",
              Await(r, q, at, rest),
              \/ sessions' = sessions /\ reusable' = reusable
              \/ /\ reusable.session # NoSession /\ Destroy(reusable.session)
                 /\ reusable' = NoReusable
       PROVE  Tracked'
  <2>1. \A n : n.pc = at /\ n.does = q.does /\ Acquiring(n) => Acquiring(q)
    BY <1>2, <1>3, <1>10
  <2>2. at \in External \cup {"done"}
    BY DEF External
  <2>3. SameObjects
    BY <1>1, <1>4, <1>10, EditObjects
  <2>4. reusable'.session \in {reusable.session, NoSession}
    BY <1>6, <1>10
  <2> QED
    BY <1>1, <1>10, <2>1, <2>2, <2>3, <2>4, AwaitTracks
<1> QED
  BY <1>7, <1>8, <1>9, <1>10

(* The new or resumed session is the newest object of its SDK session when *)
(* it is offered for reuse.                                                *)
LEMMA OfferTracks ==
    ASSUME SidecarInv, Tracked, NEW r \in Requests, NEW rest, First(r, rest),
           \/ req[r].pc = "created" /\ Created(r, req[r], rest)
           \/ req[r].pc = "resumed" /\ Resumed(r, req[r], rest),
           options' = options
    PROVE  Tracked'
<1> DEFINE q == req[r]
           n == At(q, "release", 0)
<1>1. q \in Coroutine /\ Stage(r, q) /\ Shapes /\ q.pc \in Offering /\ Belongs
      /\ Order /\ Follows
  BY Known DEF Offering, Tracked
<1>2. q.lease = r /\ q.leaseReusable
  BY <1>1 DEF Offering, Stage, LeaseStage
<1>3. n \in Coroutine /\ n.pc = "release" /\ SameRequest(q, n)
  BY <1>1, AtFields DEF Pcs, Pieces
<1>4. /\ req' = [req EXCEPT ![r] = n] /\ micro' = Append(rest, r) /\ lock' = lock
      /\ reusable'.session = r
      /\ \/ sessions' = sessions
         \/ /\ q.pc = "resumed"
            /\ sessions' = [sessions EXCEPT ![reusable.session].status = "replaced"]
  BY <1>2 DEF Created, Resumed, GoOn
<1> HIDE DEF n
<1>5. n.lease = r /\ n.leaseReusable /\ ~Acquiring(n)
  BY <1>2, <1>3 DEF SameRequest, Acquiring, NotYet
<1>6. req'[r] = n /\ \A x \in Requests : x # r => req'[x] = req[x]
  BY <1>1, <1>4 DEF Shapes
<1>7. SameObjects
  <2>1. CASE reusable.session \in Made
    BY <1>1, <1>4, <2>1, EditObjects
  <2>2. CASE reusable.session = NoSession
    <3>1. NoSession \notin DOMAIN sessions
      BY <1>1, Numbers DEF Shapes
    <3>2. sessions' = sessions
      BY <1>1, <1>4, <2>2, <3>1 DEF Shapes
    <3> QED
      BY <1>1, <3>2, EditObjects
  <2> QED
    BY <1>1, <2>1, <2>2 DEF Follows, Offered
<1>8. Ascending(micro', Clients \ {r}) /\ Ascending(lock', Acquirers)
  BY <1>1, <1>4, RestAscends DEF Order
<1>9. Order'
  <2>1. Ascending(lock', IF Acquiring(n) THEN Acquirers \cup {r} ELSE Acquirers)
    BY <1>5, <1>8
  <2>2. n.pc \notin {"idle", "client"} /\ req[r].pc \notin {"idle", "client"}
    BY <1>1, <1>3 DEF Offering
  <2>3. /\ req[r].leaseReusable /\ req' = [req EXCEPT ![r] = n]
        /\ n.leaseReusable /\ ~Acquiring(n) /\ n.pc \notin Offering
    BY <1>2, <1>3, <1>4, <1>5 DEF Offering
  <2>4. Shapes /\ Order /\ Ascending(micro', Clients \ {r})
    BY <1>1, <1>8
  <2> QED
    BY <2>1, <2>2, <2>3, <2>4, MoveOrder
<1>10. SameLeases
  <2>1. n.lease = q.lease /\ n.leaseReusable = q.leaseReusable /\ n.pc \notin Offering
    BY <1>3 DEF SameRequest, Offering
  <2> QED
    BY <1>6, <2>1 DEF SameLeases
<1>11. Made' = Made /\ Named' /\ Current' /\ Leases'
  BY <1>1, <1>7, <1>10, SameOthers
<1>12. r \in Made /\ \A t \in Kin(r) : ~(t > r)
  BY <1>1, <1>2, Numbers DEF Follows, Leases
<1>13. Offered'
  <2> SUFFICES ASSUME NEW t \in Made, sessions'[t].id = sessions'[r].id
               PROVE  t <= r
    BY <1>4, <1>5, <1>6, <1>11, <1>12 DEF Offered, Kin
  <2>1. t \in Kin(r)
    BY <1>7, <1>12 DEF Kin, SameObjects, Made
  <2>2. t \in Int /\ r \in Int
    BY SidecarAssumption DEF Made, Requests
  <2> QED
    BY <1>12, <2>1, <2>2
<1> QED
  BY <1>9, <1>11, <1>13 DEF Tracked, Follows

(* The lock is passed on to the next in line, which holds no client.       *)
LEMMA ReleaseTracks ==
    ASSUME SidecarInv, Tracked, NEW r \in Requests, NEW rest, First(r, rest),
           req[r].pc = "release", Release(r, req[r], rest), options' = options
    PROVE  Tracked'
<1> DEFINE q == req[r]
           woken == IF Tail(lock) = <<>> THEN rest ELSE Append(rest, Head(Tail(lock)))
<1>1. q \in Coroutine /\ Shapes /\ Scheduled /\ Order
  BY Known DEF Tracked
<1>2. lock \in Seq(Requests) /\ NoDuplicates(lock) /\ lock # <<>>
  <2>1. r \in Range(lock)
    BY <1>1 DEF Scheduled, Queued, Locked
  <2> QED
    BY <1>1, <2>1, EmptyRange DEF Shapes, Scheduled
<1>3. /\ Tail(lock) \in Seq(Requests) /\ Range(Tail(lock)) \subseteq Range(lock)
      /\ Tail(lock) # <<>> => Head(Tail(lock)) \in Range(Tail(lock))
  BY <1>2, TailRange
<1>4. Ascending(Tail(lock), Acquirers)
  BY <1>1, <1>2, TailAscends DEF Order
<1>5. woken \in Seq(Requests) /\ Ascending(woken, Clients \ {r})
  <2>1. rest \in Seq(Requests) /\ Ascending(rest, Clients \ {r})
    BY RestAscends DEF First
  <2>2. CASE Tail(lock) # <<>>
    <3> DEFINE h == Head(Tail(lock))
    <3>1. h \in Range(lock) /\ h \in Requests
      BY <1>2, <1>3, <2>2 DEF Range
    <3>2. h \notin Clients
      BY <1>1, <3>1 DEF Clients, Scheduled, Queued, Locked
    <3>3. h \notin Clients \ {r} /\ woken = Append(rest, h)
      BY <2>2, <3>2
    <3> HIDE DEF h, woken
    <3> QED
      BY <2>1, <3>1, <3>3, AppendAscends
  <2> QED
    BY <2>1, <2>2
<1> HIDE DEF woken
<1>6. Ascending(Append(woken, r), Clients \ {r})
  BY <1>5, AppendAscends
<1>7. \E at \in {"done", "leased", "recorded"}, hops \in 0..2 :
        /\ req' = [req EXCEPT ![r] = At(q, at, hops)]
        /\ micro' = woken \/ micro' = Append(woken, r)
  <2>1. 0 \in 0..2 /\ 1 \in 0..2
    OBVIOUS
  <2>2. CASE q.does = "invalidate" /\ Await(r, q, "done", woken)
    BY <2>1, <2>2 DEF Await
  <2>3. CASE q.does = "acquire" /\ GoOn(r, q, "leased", 1, woken)
    BY <2>1, <2>3 DEF GoOn
  <2>4. CASE q.does = "record" /\ GoOn(r, q, "recorded", 1, woken)
    BY <2>1, <2>4 DEF GoOn
  <2> QED
    BY <2>2, <2>3, <2>4 DEF Release, woken
<1>8. PICK at \in {"done", "leased", "recorded"}, hops \in 0..2 :
        /\ req' = [req EXCEPT ![r] = At(q, at, hops)]
        /\ micro' = woken \/ micro' = Append(woken, r)
  BY <1>7
<1> DEFINE n == At(q, at, hops)
<1>9. at \in Pcs
  BY DEF Pcs, Pieces
<1>10. n \in Coroutine /\ n.pc = at /\ n.does = q.does /\ SameRequest(q, n)
  BY <1>1, <1>9, AtFields
<1>11. req' = [req EXCEPT ![r] = n] /\ lock' = Tail(lock) /\ UNCHANGED <<reusable, sessions>>
  BY <1>8 DEF Release
<1> HIDE DEF n
<1>12. Still(q, n)
  BY <1>10 DEF Still, SameRequest, Offering, Acquiring, Locked
<1>13. Ascending(micro', Clients \ {r})
  BY <1>5, <1>6, <1>8
<1>14. SameObjects
  BY <1>1, <1>11, EditObjects
<1>15. req[r].pc # "resumed" /\ reusable'.session \in {reusable.session, NoSession}
  BY <1>11
<1> QED
  BY <1>4, <1>11, <1>12, <1>13, <1>14, <1>15, StillTracked

(* The other pieces get no lease.                                          *)
LEMMA OthersTrack ==
    ASSUME SidecarInv, Tracked, NEW r \in Requests, NEW rest, First(r, rest),
           \/ req[r].pc = "resumeFailed" /\ ResumeFailed(r, req[r], rest)
           \/ req[r].pc = "destroyedOld" /\ DestroyedOld(r, req[r], rest)
           \/ req[r].pc = "leased" /\ Leased(r, req[r], rest)
           \/ req[r].pc = "settled" /\ Settled(r, req[r], rest)
           \/ req[r].pc = "rejected" /\ Rejected(r, req[r], rest)
           \/ req[r].pc = "recorded" /\ Recorded(r, req[r], rest)
           \/ req[r].pc = "reply" /\ Reply(r, req[r], rest),
           options' = options
    PROVE  Tracked'
<1> DEFINE q == req[r]
<1>1. q \in Coroutine /\ Stage(r, q) /\ Shapes /\ Belongs
  BY Known
<1>2. sessions' = sessions => SameObjects
  BY <1>1, EditObjects
<1>3. CASE q.pc = "resumeFailed" /\ ResumeFailed(r, q, rest)
  <2>1. reusable.session # NoSession
    BY <1>1, <1>3 DEF Belongs
  <2>2. reusable.session \in Made
    BY <2>1 DEF Tracked, Follows, Offered
  <2>3. SameObjects
    BY <1>1, <1>3, <2>2, EditObjects DEF ResumeFailed
  <2>4. /\ Await(r, q, "destroyingOld", rest) /\ reusable'.session = NoSession
        /\ lock' = lock
    BY <1>3 DEF ResumeFailed, NoReusable
  <2>5. Acquiring(q) /\ q.pc # "resumed"
    BY <1>3 DEF Acquiring, NotYet, Locked
  <2> QED
    BY <1>1, <2>3, <2>4, <2>5, AwaitTracks DEF External
<1>4. CASE q.pc = "destroyedOld" /\ DestroyedOld(r, q, rest)
  <2>1. Acquiring(q) /\ q.pc # "resumed"
    BY <1>4 DEF Acquiring, NotYet, Locked
  <2>2. SameObjects /\ Await(r, q, "creating", rest) /\ lock' = lock /\ reusable' = reusable
    BY <1>2, <1>4 DEF DestroyedOld
  <2> QED
    BY <1>1, <2>1, <2>2, AwaitTracks DEF External
<1>5. ASSUME q.pc \in {"leased", "settled", "recorded"},
             NEW p \in Coroutine, p.lease = q.lease, p.leaseReusable = q.leaseReusable,
             NEW at \in {"waiting", "quota"}, Await(r, p, at, rest),
             UNCHANGED <<sessions, lock, reusable>>
      PROVE  Tracked'
  <2>1. \A n : n.pc = at => ~Acquiring(n)
    BY DEF Acquiring, Locked
  <2>2. at \in External \cup {"done"}
    BY DEF External
  <2> QED
    BY <1>2, <1>5, <2>1, <2>2, AwaitTracks
<1>6. CASE q.pc = "leased" /\ Leased(r, q, rest)
  <2> DEFINE has == [q EXCEPT !.session = q.lease, !.reusable = q.leaseReusable]
             gaveUp == [has EXCEPT !.invalidate = has.invalidate \/ q.leaseReusable]
  <2>1. /\ has \in Coroutine /\ has.lease = q.lease /\ has.leaseReusable = q.leaseReusable
    <3>1. has \in Coroutine
      BY <1>1 DEF Coroutine
    <3> QED
      BY <1>1, <3>1 DEF Coroutine
  <2>2. /\ \/ q.failed /\ Catch(r, q, rest)
           \/ ~q.failed /\ q.cancelled /\ Finally(r, gaveUp, rest) /\ wanted' = wanted
           \/ /\ ~q.failed /\ ~q.cancelled /\ Await(r, has, "waiting", rest)
              /\ UNCHANGED <<lock, sessions, wanted>>
        /\ reusable' = reusable
    BY <1>6 DEF Leased
  <2> HIDE DEF has
  <2>3. CASE q.failed /\ Catch(r, q, rest)
    <3>1. q.lease = NoSession
      BY <1>1, <2>3 DEF Stage, LeaseStage
    <3> QED
      BY <1>6, <2>2, <2>3, <3>1, CatchTracks
  <2>4. CASE ~q.failed /\ q.cancelled /\ Finally(r, gaveUp, rest) /\ wanted' = wanted
    <3>1. has.invalidate \in BOOLEAN /\ q.leaseReusable \in BOOLEAN
      BY <1>1, <2>1 DEF Coroutine
    <3>2. gaveUp \in Coroutine /\ gaveUp.does = has.does /\ SameRequest(has, gaveUp)
      BY <2>1, <3>1, InvalidateFields
    <3> HIDE DEF gaveUp
    <3>3. gaveUp.lease = q.lease /\ gaveUp.leaseReusable = q.leaseReusable
      BY <2>1, <3>2 DEF SameRequest
    <3> QED
      BY <1>6, <2>2, <2>4, <3>2, <3>3, FinallyTracks
  <2>5. CASE /\ ~q.failed /\ ~q.cancelled /\ Await(r, has, "waiting", rest)
             /\ UNCHANGED <<lock, sessions, wanted>>
    BY <1>5, <1>6, <2>1, <2>2, <2>5
  <2> QED
    BY <2>2, <2>3, <2>4, <2>5
<1>7. CASE q.pc = "settled" /\ Settled(r, q, rest)
  <2>1. /\ \/ q.cancelled /\ Finally(r, q, rest)
           \/ /\ q.reusable /\ EnterLock(r, q, "record", rest)
              /\ UNCHANGED sessions
           \/ /\ Await(r, q, "quota", rest)
              /\ UNCHANGED <<lock, sessions>>
        /\ UNCHANGED <<reusable, wanted>>
    BY <1>7 DEF Settled
  <2>2. CASE q.cancelled /\ Finally(r, q, rest)
    BY <1>1, <1>7, <2>1, <2>2, FinallyTracks
  <2>3. CASE q.reusable /\ EnterLock(r, q, "record", rest) /\ UNCHANGED sessions
    BY <1>1, <1>2, <1>7, <2>1, <2>3, EnterTracks DEF Locked, LockActions
  <2>4. CASE Await(r, q, "quota", rest) /\ UNCHANGED <<lock, sessions>>
    BY <1>1, <1>5, <1>7, <2>1, <2>4
  <2> QED
    BY <2>1, <2>2, <2>3, <2>4
<1>8. CASE q.pc = "rejected" /\ Rejected(r, q, rest)
  <2>1. q.reusable = q.leaseReusable
    BY <1>1, <1>8 DEF Stage, LeaseStage, Prompted
  <2> QED
    BY <1>8, <2>1, CatchTracks DEF Rejected
<1>9. CASE q.pc = "recorded" /\ Recorded(r, q, rest)
  BY <1>1, <1>5, <1>9 DEF Recorded
<1>10. CASE q.pc = "reply" /\ Reply(r, q, rest)
  <2> DEFINE said == Answer(r, q)
  <2>1. Finally(r, said, rest) /\ reusable' = reusable
    BY <1>10 DEF Reply
  <2>2. said \in Coroutine /\ said.lease = q.lease /\ said.leaseReusable = q.leaseReusable
    BY <1>1, AnswerFields
  <2> HIDE DEF said
  <2> QED
    BY <1>10, <2>1, <2>2, FinallyTracks
<1> QED
  BY <1>3, <1>4, <1>6, <1>7, <1>8, <1>9, <1>10

(* Every piece of handleComplete keeps the order, and what it leases.      *)
LEMMA PieceTracks ==
    ASSUME SidecarInv, Tracked, NEW r \in Requests, NEW rest, First(r, rest),
           Turn(r, rest), Piece(r, req[r], rest), options' = options
    PROVE  Tracked'
<1>1. CASE req[r].pc = "client" /\ ClientReady(r, req[r], rest)
  BY <1>1, ClientTracks
<1>2. CASE req[r].pc = "enterLock" /\ LockedPiece(r, req[r], rest)
  BY <1>2, LockedTracks DEF Turn
<1>3. CASE \/ req[r].pc = "created" /\ Created(r, req[r], rest)
           \/ req[r].pc = "resumed" /\ Resumed(r, req[r], rest)
  BY <1>3, OfferTracks
<1>4. CASE req[r].pc = "release" /\ Release(r, req[r], rest)
  BY <1>4, ReleaseTracks
<1> QED
  BY <1>1, <1>2, <1>3, <1>4, OthersTrack DEF Piece

(* The first microtask runs.                                               *)
LEMMA MicrotaskTracks == ASSUME SidecarInv, Tracked, RunMicrotask PROVE Tracked'
<1> DEFINE r == Head(micro)
           rest == Tail(micro)
           q == req[r]
<1>1. micro # <<>> /\ options' = options
  BY DEF RunMicrotask
<1>2. Shapes /\ Scheduled /\ Order /\ micro \in Seq(Requests) /\ NoDuplicates(micro)
  BY Known DEF Tracked, Shapes, Scheduled
<1>3. r \in Requests /\ q.pc \in Pieces /\ Turn(r, rest)
  BY <1>1, <1>2, HeadTurn
<1>4. /\ Ascending(rest, Clients)
      /\ \A x \in Range(rest) : r \in Clients /\ x \in Clients => r < x
  BY <1>1, <1>2, TailAscends DEF Order
<1>5. \/ Piece(r, q, rest)
      \/ /\ q.hops > 0 /\ GoOn(r, q, q.pc, q.hops - 1, rest)
         /\ UNCHANGED <<reusable, lock, sessions>>
  BY DEF RunMicrotask
<1> HIDE DEF r, rest
<1>6. First(r, rest)
  <2>1. \A p \in Clients : p \in Range(micro) /\ p \in Requests
    BY <1>2 DEF Clients, Scheduled, Queued, Pieces
  <2>2. rest \in Seq(Requests) /\ Range(rest) = Range(micro) \ {r}
    BY <1>3 DEF Turn
  <2>3. \A p \in Clients : p # r /\ r \in Clients => r < p
    BY <1>4, <2>1, <2>2
  <2>4. q.pc # "idle"
    BY <1>3 DEF Pieces
  <2> QED
    BY <1>3, <1>4, <2>2, <2>3, <2>4 DEF First, Clients
<1>7. CASE Piece(r, q, rest)
  BY <1>1, <1>3, <1>6, <1>7, PieceTracks
<1>8. CASE /\ q.hops > 0 /\ GoOn(r, q, q.pc, q.hops - 1, rest)
           /\ UNCHANGED <<reusable, lock, sessions>>
  <2>1. q \in Coroutine /\ q.hops - 1 \in 0..2 /\ q.hops # 0
    BY <1>3, <1>8, Known DEF Coroutine
  <2>2. q.pc \notin {"client"} \cup Offering
    BY <1>2, <1>3, <2>1 DEF Order
  <2>3. q.pc \in Pieces \ ({"client"} \cup Offering) /\ q.pc # "resumed"
    BY <1>3, <2>2 DEF Offering
  <2>4. \A n : n.pc = q.pc /\ n.does = q.does /\ Acquiring(n) => Acquiring(q)
    BY DEF Acquiring, NotYet
  <2>5. SameObjects /\ lock' = lock /\ reusable'.session \in {reusable.session, NoSession}
    BY <1>2, <1>8, EditObjects
  <2> QED
    BY <1>1, <1>3, <1>6, <1>8, <2>1, <2>3, <2>4, <2>5, GoOnTracks
<1> QED
  BY <1>5, <1>7, <1>8

(* An event resumes a request that no client gets ahead of.                *)
LEMMA EventFirst ==
    ASSUME SidecarInv, Tracked, NEW r \in Requests, req[r].pc \in External
    PROVE  First(r, micro)
BY DEF First, Tracked, Order, SidecarInv, Shapes, External

(* A request arrives: it is the last client.                               *)
LEMMA CompleteTracks ==
    ASSUME SidecarInv, Tracked, NEW r \in Requests, NEW key \in Keys,
           NEW reuse \in BOOLEAN, Complete(r, key, reuse)
    PROVE  Tracked'
<1> DEFINE q == req[r]
           asked == [q EXCEPT !.key = key, !.reuse = reuse]
           n == At(asked, "client", 0)
<1>1. q \in Coroutine /\ Stage(r, q) /\ q.pc = "idle" /\ Shapes /\ Scheduled /\ Order
  BY Known DEF Complete, Tracked
<1>2. asked \in Coroutine
  BY <1>1 DEF Coroutine
<1>3. asked.lease = q.lease /\ asked.leaseReusable = q.leaseReusable
  BY <1>1, <1>2 DEF Coroutine
<1>4. /\ req' = [req EXCEPT ![r] = n] /\ micro' = Append(micro, r)
      /\ UNCHANGED <<reusable, lock, sessions, options>>
      /\ \A p \in Requests : p < r => req[p].pc # "idle"
  BY DEF Complete, GoOn
<1> HIDE DEF asked
<1>5. "client" \in Pcs /\ 0 \in 0..2
  BY DEF Pcs, Pieces
<1>6. n \in Coroutine /\ n.pc = "client" /\ SameRequest(asked, n)
  BY <1>2, <1>5, AtFields
<1>7. n.hops = 0
  BY <1>2, <1>6 DEF At, Coroutine
<1> HIDE DEF n
<1>8. n.lease = q.lease /\ n.leaseReusable = q.leaseReusable /\ ~n.leaseReusable
  BY <1>1, <1>3, <1>6 DEF SameRequest, Stage, LeaseStage, NotYet
<1>9. req'[r] = n /\ \A x \in Requests : x # r => req'[x] = req[x]
  BY <1>1, <1>4 DEF Shapes
<1>10. Clients' = Clients \cup {r}
  BY <1>6, <1>9 DEF Clients
<1>11. Acquirers' = Acquirers /\ r \notin Acquirers
  BY <1>1, <1>6, <1>9 DEF Acquirers, Acquiring, Locked
<1>12. \A x \in Requests : x \in Int
  BY SidecarAssumption DEF Requests
<1>13. \A x \in Clients : x \in Requests /\ x # r /\ x < r
  <2> SUFFICES ASSUME NEW x \in Clients PROVE x \in Requests /\ x # r /\ x < r
    OBVIOUS
  <2>1. x \in Requests /\ req[x].pc = "client" /\ x # r
    BY <1>1 DEF Clients
  <2>2. ~(r < x)
    BY <1>1, <2>1 DEF Order
  <2> QED
    BY <1>12, <2>1, <2>2
<1>14. Ascending(micro', Clients')
  <2>1. r \notin Range(micro)
    BY <1>1 DEF Scheduled, Queued, Pieces
  <2>2. Ascending(micro, Clients \cup {r})
    BY <1>1, <2>1 DEF Order, Ascending, Range
  <2>3. \A y \in Range(micro) : y \in Clients \cup {r} => y < r
    BY <1>13, <2>1
  <2>4. micro \in Seq(Requests)
    BY <1>1 DEF Shapes
  <2> QED
    BY <1>4, <1>10, <2>2, <2>3, <2>4, AppendAscends
<1>15. Ascending(lock', Acquirers')
  BY <1>1, <1>4, <1>11 DEF Order
<1>16. ASSUME NEW p \in Requests, NEW x \in Requests, p < x
       PROVE  /\ (req[x].pc # "idle" => req[p].pc # "idle")'
              /\ (req[p].pc = "client" => req[x].pc \in {"idle", "client"})'
  <2>1. /\ req[x].pc # "idle" => req[p].pc # "idle"
        /\ req[p].pc = "client" => req[x].pc \in {"idle", "client"}
    BY <1>1, <1>16 DEF Order
  <2>2. CASE x = r
    <3>1. p # r /\ req[p].pc # "idle"
      BY <1>4, <1>12, <1>16, <2>2
    <3> QED
      BY <1>6, <1>9, <2>2, <3>1
  <2>3. CASE p = r
    <3>1. x # r /\ req[x].pc = "idle"
      BY <1>1, <1>12, <1>16, <2>1, <2>3
    <3> QED
      BY <1>6, <1>9, <2>3, <3>1
  <2>4. CASE p # r /\ x # r
    BY <1>9, <2>1, <2>4
  <2> QED
    BY <2>2, <2>3, <2>4
<1>17. \A p \in Acquirers', x \in Requests : req'[x].leaseReusable => x < p
  BY <1>1, <1>8, <1>9, <1>11 DEF Order
<1>18. (\A x \in Requests : req[x].pc \in {"client"} \cup Offering => req[x].hops = 0)'
  BY <1>1, <1>7, <1>9 DEF Order
<1>19. Order'
  BY <1>14, <1>15, <1>16, <1>17, <1>18 DEF Order
<1>20. SameLeases
  BY <1>6, <1>8, <1>9 DEF SameLeases, Offering
<1>21. \A x \in Requests : req[x].pc = "resumed" => req'[x].pc = "resumed"
  BY <1>1, <1>9
<1>22. SameObjects
  BY <1>1, <1>4, EditObjects
<1>23. Follows'
  BY <1>4, <1>20, <1>21, <1>22, SameFollows DEF Tracked
<1> QED
  BY <1>4, <1>19, <1>23 DEF Tracked

(* What an event that wakes nobody in line leaves of the order.            *)
LEMMA SameOrder ==
    ASSUME Order, lock' = lock,
           \A r \in Requests :
              /\ req[r].pc = "idle" <=> req'[r].pc = "idle"
              /\ req[r].pc = "client" <=> req'[r].pc = "client"
              /\ Acquiring(req'[r]) => Acquiring(req[r])
              /\ req'[r].leaseReusable = req[r].leaseReusable
              /\ req'[r].pc \in {"client"} \cup Offering =>
                    req[r].pc = req'[r].pc /\ req'[r].hops = req[r].hops,
           Ascending(micro', Clients)
    PROVE  Order'
<1>1. Clients' = Clients
  BY DEF Clients
<1>2. \A r \in Acquirers' : r \in Acquirers
  BY DEF Acquirers
<1>3. Ascending(lock', Acquirers')
  BY <1>2, FewerAscend DEF Order
<1>4. ASSUME NEW p \in Requests, NEW r \in Requests, p < r
      PROVE  /\ (req[r].pc # "idle" => req[p].pc # "idle")'
             /\ (req[p].pc = "client" => req[r].pc \in {"idle", "client"})'
  BY <1>4 DEF Order
<1>5. \A p \in Acquirers', r \in Requests : req'[r].leaseReusable => r < p
  BY <1>2 DEF Order
<1>6. (\A r \in Requests : req[r].pc \in {"client"} \cup Offering => req[r].hops = 0)'
  BY DEF Order
<1> QED
  BY <1>1, <1>3, <1>4, <1>5, <1>6 DEF Order

(* A cancelled request stays where it is and keeps its lease.              *)
LEMMA CancelTracks == ASSUME SidecarInv, Tracked, Cancel PROVE Tracked'
<1>1. /\ req' = [r \in Requests |->
                    IF req[r].active
                    THEN [req[r] EXCEPT !.cancelled = TRUE, !.invalidate = @ \/ req[r].reusable]
                    ELSE req[r]]
      /\ UNCHANGED <<reusable, lock, micro, sessions, options>>
  BY DEF Cancel
<1>2. ASSUME NEW r \in Requests
      PROVE  /\ req'[r].pc = req[r].pc /\ req'[r].hops = req[r].hops
             /\ req'[r].does = req[r].does /\ req'[r].lease = req[r].lease
             /\ req'[r].leaseReusable = req[r].leaseReusable
  BY <1>1, Known DEF Coroutine
<1>3. \A r \in Requests : Acquiring(req'[r]) <=> Acquiring(req[r])
  BY <1>2 DEF Acquiring, NotYet
<1>4. Ascending(micro', Clients)
  BY <1>1 DEF Tracked, Order
<1>5. Order'
  BY <1>1, <1>2, <1>3, <1>4, SameOrder DEF Tracked
<1>6. SameLeases /\ \A r \in Requests : req[r].pc = "resumed" => req'[r].pc = "resumed"
  BY <1>2 DEF SameLeases
<1>7. SameObjects
  BY <1>1, Known, EditObjects
<1>8. Follows'
  BY <1>1, <1>6, <1>7, SameFollows DEF Tracked
<1> QED
  BY <1>1, <1>5, <1>8 DEF Tracked

(* Those who wait for a session are no clients, and keep their leases.     *)
LEMMA IdleTracks ==
    ASSUME SidecarInv, Tracked, NEW s \in Sessions, SessionIdle(s)
    PROVE  Tracked'
<1> DEFINE W == WaitingOn(s)
<1>1. /\ UNCHANGED <<lock, reusable, sessions, options>>
      /\ req' = [r \in Requests |-> IF r \in W THEN At(req[r], "settled", 1) ELSE req[r]]
  BY DEF SessionIdle, ExternalEvent
<1>2. PICK order \in [1..Cardinality(W) -> W] : micro' = order
  BY DEF SessionIdle
<1>3. W \subseteq Requests /\ \A r \in W : req[r].pc = "waiting"
  BY DEF WaitingOn
<1>4. ASSUME NEW r \in W
      PROVE  /\ req[r].pc = "waiting" /\ req'[r].pc = "settled"
             /\ req'[r].lease = req[r].lease
             /\ req'[r].leaseReusable = req[r].leaseReusable
  <2> DEFINE q == req[r]
             n == At(q, "settled", 1)
  <2>1. r \in Requests /\ q \in Coroutine /\ q.pc = "waiting"
    BY <1>3, Known
  <2>2. "settled" \in Pcs /\ 1 \in 0..2
    BY DEF Pcs, Pieces
  <2>3. n \in Coroutine /\ n.pc = "settled" /\ SameRequest(q, n)
    BY <2>1, <2>2, AtFields
  <2>4. req'[r] = n
    BY <1>1, <2>1
  <2> HIDE DEF n
  <2> QED
    BY <2>1, <2>3, <2>4 DEF SameRequest
<1> HIDE DEF W
<1>5. \A r \in Requests \ W : req'[r] = req[r]
  BY <1>1
<1>6. Ascending(micro', Clients)
  <2>1. \A i \in DOMAIN order : order[i] \in W
    OBVIOUS
  <2>2. \A i \in DOMAIN order : order[i] \notin Clients
    BY <1>4, <2>1 DEF Clients
  <2> QED
    BY <1>2, <2>2 DEF Ascending
<1>7. ASSUME NEW r \in Requests
      PROVE  /\ req[r].pc = "idle" <=> req'[r].pc = "idle"
             /\ req[r].pc = "client" <=> req'[r].pc = "client"
             /\ Acquiring(req'[r]) => Acquiring(req[r])
             /\ req'[r].lease = req[r].lease
             /\ req'[r].leaseReusable = req[r].leaseReusable
             /\ req[r].pc = "resumed" => req'[r].pc = "resumed"
             /\ req'[r].pc \in {"client"} \cup Offering =>
                   req[r].pc = req'[r].pc /\ req'[r].hops = req[r].hops
  <2>1. CASE r \in W
    BY <1>4, <2>1 DEF Acquiring, Locked, Offering
  <2>2. CASE r \notin W
    BY <1>5, <2>2
  <2> QED
    BY <2>1, <2>2
<1>8. Order'
  BY <1>1, <1>6, <1>7, SameOrder DEF Tracked
<1>9. SameLeases
  BY <1>7 DEF SameLeases
<1>10. SameObjects
  BY <1>1, Known, EditObjects
<1>11. Follows'
  BY <1>1, <1>7, <1>9, <1>10, SameFollows DEF Tracked
<1> QED
  BY <1>1, <1>8, <1>11 DEF Tracked

(* No session has come, or what was awaited is there: nobody gets a lease. *)
LEMMA SettlesTracks ==
    ASSUME SidecarInv, Tracked, NEW r \in Requests,
           SessionFails(r) \/ DestroySettles(r) \/ PromptFails(r) \/ QuotaSettles(r)
    PROVE  Tracked'
<1> DEFINE old == req[r]
           failed == [old EXCEPT !.failed = TRUE]
<1>1. old \in Coroutine
  BY Known
<1>2. /\ failed \in Coroutine /\ failed.lease = old.lease /\ failed.pc = old.pc
      /\ failed.leaseReusable = old.leaseReusable
  <2>1. failed \in Coroutine
    BY <1>1 DEF Coroutine
  <2> QED
    BY <1>1, <2>1 DEF Coroutine
<1>3. /\ UNCHANGED <<lock, reusable, sessions, options>>
      /\ \/ /\ old.pc \in {"creating", "creatingExtra", "creatingOwn"}
            /\ \/ GoOn(r, failed, "release", 1, micro)
               \/ GoOn(r, failed, "leased", 0, micro)
         \/ old.pc = "resuming" /\ GoOn(r, old, "resumeFailed", 0, micro)
         \/ old.pc = "destroyingOld" /\ GoOn(r, old, "destroyedOld", 1, micro)
         \/ old.pc = "destroyingInvalid" /\ GoOn(r, old, "release", 2, micro)
         \/ old.pc = "waiting" /\ GoOn(r, old, "rejected", 1, micro)
         \/ old.pc = "quota" /\ GoOn(r, old, "reply", 0, micro)
  BY <1>2 DEF SessionFails, DestroySettles, PromptFails, QuotaSettles, ExternalEvent
<1> HIDE DEF failed
<1>4. \E q \in {old, failed}, hops \in 0..2,
         at \in {"release", "leased", "resumeFailed", "destroyedOld", "rejected", "reply"} :
        /\ GoOn(r, q, at, hops, micro)
        /\ at = "resumeFailed" => old.pc = "resuming"
        /\ at = "destroyedOld" => old.pc = "destroyingOld"
  BY <1>3
<1>5. PICK q \in {old, failed}, hops \in 0..2,
           at \in {"release", "leased", "resumeFailed", "destroyedOld", "rejected", "reply"} :
        /\ GoOn(r, q, at, hops, micro)
        /\ at = "resumeFailed" => old.pc = "resuming"
        /\ at = "destroyedOld" => old.pc = "destroyingOld"
  BY <1>4
<1>6. q \in Coroutine /\ q.lease = old.lease /\ q.leaseReusable = old.leaseReusable
  BY <1>1, <1>2
<1>7. at \in Pieces \ ({"client"} \cup Offering)
  BY DEF Pieces, Offering
<1>8. old.pc \in External /\ old.pc # "resumed"
  BY <1>3 DEF External
<1>9. First(r, micro)
  BY <1>8, EventFirst
<1>10. \A n : n.pc = at /\ n.does = q.does /\ Acquiring(n) => Acquiring(old)
  BY <1>5 DEF Acquiring, NotYet, Locked
<1>11. SameObjects /\ lock' = lock /\ reusable'.session \in {reusable.session, NoSession}
  BY <1>3, Known, EditObjects
<1> QED
  BY <1>3, <1>5, <1>6, <1>7, <1>8, <1>9, <1>10, <1>11, GoOnTracks

(* The SDK session that r is to have is new, or that of the reusable       *)
(* object, whose other objects were all made by requests before r.         *)
LEMMA SdkSessions ==
    ASSUME SidecarInv, Tracked, NEW r \in Requests,
           req[r].pc \in {"creating", "creatingExtra", "creatingOwn", "resuming"}
    PROVE  /\ SdkSession(r) \in Requests
           /\ SdkSession(r) # r =>
                 req[r].pc = "resuming" /\ req[SdkSession(r)].leaseReusable
           /\ \A t \in Made : /\ t \in Requests /\ t # r
                              /\ sessions[t].id = SdkSession(r) =>
                                    /\ req[t].leaseReusable /\ t < r
                                    /\ req[r].pc = "resuming"
<1> DEFINE id == SdkSession(r)
           h == reusable.session
<1>1. Shapes /\ Belongs /\ Order /\ Follows /\ Stage(r, req[r]) /\ NotYet(req[r])
  BY Known DEF Tracked, NotYet
<1>2. r \notin Made /\ ~req[r].leaseReusable /\ \A t \in Made : t \in Requests
  BY <1>1 DEF Belongs, Made, Stage, LeaseStage
<1>3. ASSUME NEW t \in Made
      PROVE  /\ sessions[t].id \in Requests /\ t # r /\ sessions[t].id # r
             /\ sessions[t].id # t =>
                   req[t].leaseReusable /\ req[sessions[t].id].leaseReusable
  BY <1>1, <1>2 DEF Follows, Named
<1>4. CASE req[r].pc # "resuming"
  <2>1. id = r
    BY <1>4 DEF SdkSession
  <2> QED
    BY <1>2, <1>3, <2>1
<1>5. CASE req[r].pc = "resuming"
  <2>1. id = sessions[h].id /\ h \in Made /\ req[h].leaseReusable
    BY <1>1, <1>5 DEF SdkSession, Belongs, Follows, Offered
  <2>2. id \in Requests /\ id # r /\ req[id].leaseReusable
    BY <1>3, <2>1
  <2>3. r \in Acquirers
    BY <1>1, <1>5 DEF Acquirers, Acquiring, Locked
  <2>4. ASSUME NEW t \in Made, sessions[t].id = id PROVE req[t].leaseReusable /\ t < r
    <3>1. req[t].leaseReusable
      BY <1>3, <2>2, <2>4
    <3> QED
      BY <1>1, <1>2, <2>3, <3>1 DEF Order
  <2> QED
    BY <1>2, <1>5, <2>2, <2>4
<1> QED
  BY <1>4, <1>5

(* A new object is the newest of its SDK session, and sets its options.    *)
LEMMA ArrivesTracks ==
    ASSUME SidecarInv, Tracked, NEW r \in Requests, SessionArrives(r)
    PROVE  Tracked'
<1> DEFINE old == req[r]
           id == SdkSession(r)
           shared == old.pc \in {"creating", "resuming"}
           q == [old EXCEPT !.lease = r, !.leaseReusable = shared]
<1>1. /\ old \in Coroutine /\ Stage(r, old) /\ Shapes /\ Scheduled /\ Belongs
      /\ Order /\ Follows
      /\ old.pc \in {"creating", "creatingExtra", "creatingOwn", "resuming"}
      /\ NotYet(old)
  BY Known DEF SessionArrives, Tracked, NotYet
<1>2. /\ UNCHANGED <<lock, reusable>>
      /\ sessions' = [sessions EXCEPT ![r] =
                        [status |-> "open", key |-> old.key, id |-> id]]
      /\ options' = [options EXCEPT ![id] = old.key]
  BY DEF SessionArrives, ExternalEvent
<1>3. /\ q \in Coroutine /\ q.pc = old.pc /\ q.lease = r /\ q.leaseReusable = shared
  <2>1. shared \in BOOLEAN /\ r \in Sessions
    BY Numbers
  <2> HIDE DEF shared
  <2>2. q \in Coroutine
    BY <1>1, <2>1 DEF Coroutine
  <2> QED
    BY <1>1, <2>2 DEF Coroutine
<1>4. \/ q.pc = "creating" /\ GoOn(r, q, "created", 0, micro)
      \/ q.pc = "resuming" /\ GoOn(r, q, "resumed", 0, micro)
      \/ q.pc = "creatingExtra" /\ GoOn(r, q, "release", 1, micro)
      \/ q.pc = "creatingOwn" /\ GoOn(r, q, "leased", 0, micro)
  BY DEF SessionArrives
<1> HIDE DEF q
<1>5. \E at \in {"created", "resumed", "release", "leased"}, hops \in 0..2 :
        /\ at = "created" <=> old.pc = "creating"
        /\ at = "resumed" <=> old.pc = "resuming"
        /\ at \in Offering => hops = 0
        /\ GoOn(r, q, at, hops, micro)
  BY <1>1, <1>3, <1>4 DEF Offering
<1>6. PICK at \in {"created", "resumed", "release", "leased"}, hops \in 0..2 :
        /\ at = "created" <=> old.pc = "creating"
        /\ at = "resumed" <=> old.pc = "resuming"
        /\ at \in Offering => hops = 0
        /\ GoOn(r, q, at, hops, micro)
  BY <1>5
<1> DEFINE n == At(q, at, hops)
<1>7. at \in Pcs
  BY DEF Pcs, Pieces
<1>8. n \in Coroutine /\ n.pc = at /\ SameRequest(q, n)
  BY <1>3, <1>7, AtFields
<1>9. n.hops = hops
  BY <1>3, <1>8 DEF At, Coroutine
<1>10. req' = [req EXCEPT ![r] = n] /\ micro' = Append(micro, r)
  BY <1>6 DEF GoOn
<1> HIDE DEF n
<1>11. /\ n.lease = r /\ n.leaseReusable = shared /\ n.pc \notin {"idle", "client"}
       /\ ~Acquiring(n) \/ ~n.leaseReusable
       /\ n.pc = "resumed" <=> old.pc = "resuming"
       /\ n.pc \in Offering => n.hops = 0
  BY <1>3, <1>6, <1>8, <1>9 DEF SameRequest, Acquiring, NotYet
<1>12. req'[r] = n /\ \A x \in Requests : x # r => req'[x] = req[x]
  BY <1>1, <1>10 DEF Shapes
<1>13. Order'
  <2>1. First(r, micro)
    BY <1>1, EventFirst DEF External
  <2>2. Ascending(micro', Clients \ {r})
    BY <1>10, <2>1, RestAscends
  <2>3. ~Acquiring(n)
    BY <1>6, <1>8 DEF Acquiring, NotYet
  <2>4. Ascending(lock', IF Acquiring(n) THEN Acquirers \cup {r} ELSE Acquirers)
    BY <1>1, <1>2, <2>3 DEF Order
  <2>5. n.leaseReusable => \A p \in Acquirers : p # r => r < p
    <3> SUFFICES ASSUME n.leaseReusable PROVE \A p \in Acquirers : p # r => r < p
      OBVIOUS
    <3>1. old.pc \in {"creating", "resuming"}
      BY <1>11
    <3>2. r \in Acquirers
      BY <1>1, <3>1 DEF Acquirers, Acquiring, Locked
    <3>3. r = Head(lock)
      BY <1>1, <3>1 DEF Scheduled, Queued, Locked
    <3> QED
      BY <3>2, <3>3, HolderFirst
  <2>6. req[r].pc \notin {"idle", "client"} /\ Shapes /\ Order
    BY <1>1
  <2>7. n.pc \notin {"idle", "client"} /\ (n.pc \in Offering => n.hops = 0)
    BY <1>11
  <2> QED
    BY <1>10, <2>2, <2>3, <2>4, <2>5, <2>6, <2>7, MoveOrder
<1> HIDE DEF shared
<1>14. /\ id \in Requests
       /\ id # r => old.pc = "resuming" /\ req[id].leaseReusable
       /\ \A t \in Made : /\ t \in Requests /\ t # r
                          /\ sessions[t].id = id =>
                                req[t].leaseReusable /\ t < r /\ old.pc = "resuming"
  BY <1>1, SdkSessions
<1> HIDE DEF id
<1>15. /\ sessions'[r].id = id /\ sessions'[r].key = old.key /\ sessions'[r].status = "open"
       /\ \A t \in Requests : t # r => sessions'[t] = sessions[t]
  BY <1>1, <1>2, Numbers DEF Shapes
<1>16. Made' = Made \cup {r}
  BY <1>15 DEF Made
<1>17. Named'
  <2> SUFFICES ASSUME NEW s \in Made \cup {r}
               PROVE  /\ sessions'[s].id \in Requests
                      /\ req'[s].lease = s
                      /\ sessions'[s].id # s =>
                            req'[s].leaseReusable /\ req'[sessions'[s].id].leaseReusable
    BY <1>16 DEF Named
  <2>1. CASE s = r
    <3>1. req'[r].lease = r /\ (old.pc = "resuming" => req'[r].leaseReusable)
      BY <1>11, <1>12 DEF shared
    <3>2. id # r => req'[id] = req[id]
      BY <1>12, <1>14
    <3>3. sessions'[s].id = id /\ id \in Requests
      BY <1>14, <1>15, <2>1
    <3> QED
      BY <1>14, <2>1, <3>1, <3>2, <3>3
  <2>2. CASE s \in Made
    <3>1. /\ sessions[s].id \in Requests /\ req[s].lease = s
          /\ sessions[s].id # s =>
                req[s].leaseReusable /\ req[sessions[s].id].leaseReusable
      BY <1>1, <2>2 DEF Follows, Named
    <3>2. s # r /\ s \in Requests /\ ~req[r].leaseReusable
      BY <1>1, <1>14, <2>2 DEF Stage, LeaseStage
    <3> QED
      BY <1>12, <1>15, <3>1, <3>2
  <2> QED
    BY <2>1, <2>2
<1>18. Current'
  <2> SUFFICES ASSUME NEW s \in Made \cup {r},
                      \A t \in Made \cup {r} : sessions'[t].id = sessions'[s].id => t <= s
               PROVE  options'[sessions'[s].id] = sessions'[s].key
    BY <1>16 DEF Current, Kin
  <2>1. DOMAIN options = Requests
    BY Numbers DEF Tracked
  <2>2. CASE s = r
    BY <1>2, <1>14, <1>15, <2>1, <2>2
  <2>3. CASE s \in Made
    <3>1. s \in Requests /\ s # r /\ sessions'[s] = sessions[s]
      BY <1>14, <1>15, <2>3
    <3>2. sessions[s].id # id
      <4> SUFFICES ASSUME sessions[s].id = id PROVE FALSE
        OBVIOUS
      <4>1. s < r /\ r <= s
        BY <1>14, <1>15, <2>3, <3>1
      <4> QED
        BY <3>1, <4>1, SidecarAssumption DEF Requests
    <3>3. \A t \in Made : t \in Requests /\ sessions'[t] = sessions[t]
      BY <1>14, <1>15
    <3>4. \A t \in Kin(s) : t <= s
      BY <3>1, <3>3 DEF Kin
    <3>5. options[sessions[s].id] = sessions[s].key
      BY <1>1, <2>3, <3>4 DEF Follows, Current
    <3>6. options'[sessions[s].id] = options[sessions[s].id]
      BY <1>1, <1>2, <2>1, <2>3, <3>2 DEF Follows, Named
    <3> QED
      BY <3>1, <3>5, <3>6
  <2> QED
    BY <2>2, <2>3
<1>19. Leases'
  <2> SUFFICES ASSUME NEW p \in Requests, req'[p].lease # NoSession
               PROVE  /\ req'[p].lease \in Made \cup {r}
                      /\ \A t \in Made \cup {r} :
                            /\ sessions'[t].id = sessions'[req'[p].lease].id
                            /\ t > req'[p].lease
                            => t > p /\ req'[p].pc \notin Offering
    BY <1>16 DEF Leases, Kin
  <2>1. CASE p = r
    <3>1. req'[p].lease = r
      BY <1>11, <1>12, <2>1
    <3>2. \A t \in Made \cup {r} : sessions'[t].id = id => ~(t > r)
      <4> SUFFICES ASSUME NEW t \in Made \cup {r}, sessions'[t].id = id PROVE ~(t > r)
        OBVIOUS
      <4>1. t = r \/ (t \in Requests /\ t < r)
        BY <1>14, <1>15
      <4> QED
        BY <4>1, SidecarAssumption DEF Requests
    <3> QED
      BY <1>15, <3>1, <3>2
  <2>2. CASE p # r
    <3> DEFINE l == req[p].lease
    <3>1. req'[p] = req[p] /\ l # NoSession
      BY <1>12, <2>2
    <3>2. /\ l \in Made
          /\ \A t \in Kin(l) : t > l => t > p /\ req[p].pc \notin Offering
      BY <1>1, <3>1 DEF Follows, Leases
    <3>3. \A t \in Made : t \in Requests /\ t # r /\ sessions'[t] = sessions[t]
      BY <1>14, <1>15
    <3> HIDE DEF l
    <3>4. ASSUME NEW t \in Made, sessions'[t].id = sessions'[l].id, t > l
          PROVE  t > p /\ req[p].pc \notin Offering
      BY <3>2, <3>3, <3>4 DEF Kin
    <3>5. ASSUME id = sessions'[l].id
          PROVE  r > p /\ req[p].pc \notin Offering
      <4>1. sessions[l].id = id
        BY <3>2, <3>3, <3>5
      <4>2. req[l].leaseReusable /\ old.pc = "resuming"
        BY <1>14, <3>2, <4>1
      <4>3. req[p].leaseReusable
        <5>1. Stage(p, req[p])
          BY Known
        <5> QED
          BY <3>1, <4>2, <5>1 DEF Stage, LeaseStage, l
      <4>4. r \in Acquirers
        BY <1>1, <4>2 DEF Acquirers, Acquiring, Locked
      <4>5. p < r
        BY <1>1, <4>3, <4>4 DEF Order
      <4>6. r > p
        BY <4>5, SidecarAssumption DEF Requests
      <4>7. req[p].pc \in Offering => p = Head(lock)
        BY <1>1 DEF Scheduled, Queued, Locked, Offering
      <4>8. r = Head(lock)
        BY <1>1, <4>2 DEF Scheduled, Queued, Locked
      <4> QED
        BY <2>2, <4>6, <4>7, <4>8
    <3> QED
      BY <1>15, <3>1, <3>2, <3>4, <3>5 DEF l
  <2> QED
    BY <2>1, <2>2
<1>20. Offered'
  <2> DEFINE h == reusable.session
  <2> SUFFICES ASSUME h # NoSession
               PROVE  /\ h \in Made \cup {r} /\ req'[h].leaseReusable
                      /\ \A t \in Made \cup {r} : sessions'[t].id = sessions'[h].id =>
                             t <= h \/ req'[t].pc = "resumed"
    BY <1>2, <1>16 DEF Offered, Kin
  <2>1. /\ h \in Made /\ req[h].leaseReusable
        /\ \A t \in Kin(h) : t <= h \/ req[t].pc = "resumed"
    BY <1>1 DEF Follows, Offered
  <2>2. \A t \in Made : /\ t \in Requests /\ t # r /\ sessions'[t] = sessions[t]
                        /\ req'[t] = req[t]
    BY <1>12, <1>14, <1>15
  <2> HIDE DEF h
  <2>3. ASSUME NEW t \in Made, sessions'[t].id = sessions'[h].id
        PROVE  t <= h \/ req'[t].pc = "resumed"
    BY <2>1, <2>2, <2>3 DEF Kin
  <2>4. ASSUME id = sessions'[h].id PROVE req'[r].pc = "resumed"
    <3>1. sessions[h].id = id
      BY <2>1, <2>2, <2>4
    <3> QED
      BY <1>11, <1>12, <1>14, <2>1, <3>1
  <2> QED
    BY <1>15, <2>1, <2>2, <2>3, <2>4
<1>21. options' \in [Sessions -> Keys]
  BY <1>1, <1>2 DEF Tracked, Coroutine
<1> QED
  BY <1>13, <1>17, <1>18, <1>19, <1>20, <1>21 DEF Tracked, Follows

-----------------------------------------------------------------------------
(* The theorems.                                                           *)

(* At first there are no requests and no sessions.                         *)
LEMMA InitKeeps == SidecarInit => SidecarInv
<1> SUFFICES ASSUME SidecarInit PROVE SidecarInv
  OBVIOUS
<1>1. AnyKey \in Keys
  BY SidecarAssumption DEF AnyKey
<1> DEFINE q == [pc |-> "idle", hops |-> 0, key |-> AnyKey, reuse |-> FALSE,
                 does |-> "acquire", failed |-> FALSE, lease |-> NoSession,
                 leaseReusable |-> FALSE, active |-> FALSE,
                 cancelled |-> FALSE, session |-> NoSession,
                 reusable |-> FALSE, invalidate |-> FALSE, answers |-> 0]
<1>2. /\ q \in Coroutine /\ q.pc = "idle" /\ q.does = "acquire" /\ ~q.failed
      /\ q.lease = NoSession /\ ~q.leaseReusable /\ q.answers = 0
  BY <1>1 DEF Coroutine, LockActions
<1>3. \A r \in Requests : req[r] = q
  BY DEF SidecarInit
<1>4. req = [r \in Requests |-> q]
  BY DEF SidecarInit
<1> HIDE DEF q
<1>5. /\ reusable = NoReusable /\ lock = <<>> /\ micro = <<>> /\ wanted = {} /\ chunk = FALSE
      /\ sessions = [s \in Sessions |->
                        [status |-> "none", key |-> AnyKey, id |-> NoSession]]
  BY DEF SidecarInit
<1>6. Shapes
  <2>1. reusable \in Reusable
    BY <1>1, <1>5 DEF NoReusable, Reusable
  <2>2. sessions \in [Sessions -> SessionObject]
    BY <1>1, <1>5 DEF SessionObject
  <2>3. lock \in Seq(Requests) /\ micro \in Seq(Requests)
    BY <1>5
  <2> QED
    BY <1>2, <1>4, <1>5, <2>1, <2>2, <2>3 DEF Shapes
<1>7. Scheduled
  BY <1>2, <1>3, <1>5 DEF Scheduled, NoDuplicates, Queued, Range, Locked, Pieces
<1>8. \A r \in Requests : Stage(r, q)
  BY <1>2 DEF Stage, LeaseStage, DoesStage, AnswerStage, Prompted, Over
<1>9. Belongs
  <2>1. reusable.session = NoSession
    BY <1>5 DEF NoReusable
  <2>2. \A s \in Requests : sessions[s].status = "none"
    BY <1>5, Numbers
  <2> QED
    BY <1>2, <1>3, <2>1, <2>2, Numbers DEF Belongs, Exclusive, Owned
<1> QED
  BY <1>3, <1>6, <1>7, <1>8, <1>9 DEF SidecarInv

(* A step of somebody else.                                                *)
LEMMA IdleStepKeeps == ASSUME SidecarInv, UNCHANGED sidecarVars PROVE SidecarInv'
BY DEF SidecarInv, Shapes, Scheduled, Belongs, Exclusive, sidecarVars

(* Every step keeps the invariant.                                         *)
LEMMA StepKeeps == SidecarInv /\ [SidecarNext]_sidecarVars => SidecarInv'
<1> SUFFICES ASSUME SidecarInv, [SidecarNext]_sidecarVars PROVE SidecarInv'
  OBVIOUS
<1>1. CASE RunMicrotask
  BY <1>1, MicrotaskKeeps
<1>2. ASSUME NEW r \in Requests, NEW key \in Keys, NEW reuse \in BOOLEAN,
             Complete(r, key, reuse)
      PROVE  SidecarInv'
  BY <1>2, CompleteKeeps
<1>3. CASE Cancel
  BY <1>3, CancelKeeps
<1>4. ASSUME NEW r \in Requests, SdkSettles(r) PROVE SidecarInv'
  BY <1>4, ArrivesKeeps, FailsKeeps, SettlesKeeps DEF SdkSettles
<1>5. ASSUME NEW s \in Sessions, SessionIdle(s) PROVE SidecarInv'
  BY <1>5, IdleKeeps
<1>6. CASE UNCHANGED sidecarVars
  BY <1>6, IdleStepKeeps
<1> QED
  BY <1>1, <1>2, <1>3, <1>4, <1>5, <1>6 DEF SidecarNext

(* copilot-sidecar.js keeps all three parts at every await.                *)
THEOREM SidecarInvHolds == SidecarSpec => []SidecarInv
BY InitKeeps, StepKeeps, PTL DEF SidecarSpec

(* At first there is nothing to be in order.                               *)
LEMMA InitTracks == SidecarInit => Tracked
<1> SUFFICES ASSUME SidecarInit PROVE Tracked
  OBVIOUS
<1>1. \A r \in Requests : /\ req[r].pc = "idle" /\ req[r].lease = NoSession
                          /\ ~req[r].leaseReusable /\ sessions[r].status = "none"
  BY Numbers DEF SidecarInit
<1>2. lock = <<>> /\ micro = <<>> /\ reusable.session = NoSession
  BY DEF SidecarInit, NoReusable
<1>3. options \in [Sessions -> Keys]
  BY SidecarAssumption DEF SidecarInit, AnyKey
<1>4. Order
  BY <1>1, <1>2 DEF Order, Ascending, Acquirers, Acquiring, Locked, Offering
<1>5. Made = {}
  BY <1>1 DEF Made
<1>6. Follows
  BY <1>1, <1>2, <1>5 DEF Follows, Named, Current, Leases, Offered
<1> QED
  BY <1>3, <1>4, <1>6 DEF Tracked

(* Every step keeps track of the SDK sessions.                             *)
LEMMA StepTracks == SidecarInv /\ Tracked /\ [SidecarNext]_sidecarVars => Tracked'
<1> SUFFICES ASSUME SidecarInv, Tracked, [SidecarNext]_sidecarVars PROVE Tracked'
  OBVIOUS
<1>1. CASE RunMicrotask
  BY <1>1, MicrotaskTracks
<1>2. ASSUME NEW r \in Requests, NEW key \in Keys, NEW reuse \in BOOLEAN,
             Complete(r, key, reuse)
      PROVE  Tracked'
  BY <1>2, CompleteTracks
<1>3. CASE Cancel
  BY <1>3, CancelTracks
<1>4. ASSUME NEW r \in Requests, SdkSettles(r) PROVE Tracked'
  BY <1>4, ArrivesTracks, SettlesTracks DEF SdkSettles
<1>5. ASSUME NEW s \in Sessions, SessionIdle(s) PROVE Tracked'
  BY <1>5, IdleTracks
<1>6. CASE UNCHANGED sidecarVars
  BY <1>6 DEF sidecarVars, Tracked, Order, Follows, Named, Current, Leases, Offered,
              Made, Kin, Acquirers, Acquiring, Clients
<1> QED
  BY <1>1, <1>2, <1>3, <1>4, <1>5, <1>6 DEF SidecarNext

(* The order of the requests and the SDK sessions hold together.           *)
THEOREM TrackedHolds == SidecarSpec => []Tracked
BY InitTracks, StepTracks, SidecarInvHolds, PTL DEF SidecarSpec

(* The coroutines, the lock and the sessions keep their shape.             *)
THEOREM TypedSidecar == SidecarSpec => []SidecarTypeOK
<1>1. SidecarInv /\ Tracked => SidecarTypeOK
  BY DEF SidecarInv, Shapes, Tracked, SidecarTypeOK
<1> QED
  BY <1>1, SidecarInvHolds, TrackedHolds, PTL

(* acquireSession, invalidateReusableSession and the finally block of      *)
(* handleComplete destroy sessions, the last without the lock; the         *)
(* reusable session is never among them.                                   *)
THEOREM OpenReusable == SidecarSpec => []ReusableIsOpen
<1>1. SidecarInv => ReusableIsOpen
  BY DEF SidecarInv, Belongs, ReusableIsOpen
<1> QED
  BY <1>1, SidecarInvHolds, PTL

(* An open session is the reusable one, or that of the unfinished request  *)
(* that made it and will destroy or offer it.                              *)
THEOREM NothingLeaks == SidecarSpec => []NoSessionLeak
<1>1. SidecarInv => NoSessionLeak
  <2> SUFFICES ASSUME SidecarInv, NEW s \in Requests, sessions[s].status = "open",
                      reusable.session # s
               PROVE  \E r \in Requests : Unfinished(r) /\ req[r].lease = s
    BY Numbers DEF NoSessionLeak
  <2>1. Owned(s, req[s]) /\ req[s].pc # "done"
    BY DEF SidecarInv, Belongs
  <2>2. req[s].pc # "idle"
    <3>1. CASE req[s].pc = "idle"
      <4>1. req[s].lease = NoSession
        BY <3>1 DEF SidecarInv, Stage, LeaseStage, NotYet
      <4> QED
        BY <2>1, <4>1, Numbers DEF Owned
    <3> QED
      BY <3>1
  <2> QED
    BY <2>1, <2>2 DEF Owned, Unfinished
<1> QED
  BY <1>1, SidecarInvHolds, PTL

(* handleComplete answers once before its end, in the try or in the catch  *)
(* block, unless the request was cancelled.                                *)
THEOREM EachAnswered == SidecarSpec => []DoneIsAnswered
<1>1. SidecarInv => DoneIsAnswered
  <2> SUFFICES ASSUME SidecarInv, NEW r \in Requests
               PROVE  /\ req[r].answers <= 1
                      /\ req[r].pc = "done" /\ ~req[r].cancelled => req[r].answers = 1
    BY DEF DoneIsAnswered
  <2>1. AnswerStage(req[r])
    BY DEF SidecarInv, Stage
  <2> QED
    BY <2>1 DEF AnswerStage, Over
<1> QED
  BY <1>1, SidecarInvHolds, PTL

(* acquireSession hands out a session only under the key of the request,   *)
(* and resumeSession sets the same SDK session up anew: a prompt meets the *)
(* options of its own request unless a later request got the session by    *)
(* resuming it.                                                            *)
THEOREM PromptsMeetTheirKeys == SidecarSpec => []PromptMeetsItsKey
<1>1. SidecarInv /\ Tracked => PromptMeetsItsKey
  <2> SUFFICES ASSUME SidecarInv, Tracked, NEW r \in Requests, req[r].pc = "waiting",
                      ResumedUnder(r) = {}
               PROVE  options[sessions[req[r].session].id] = req[r].key
    BY DEF PromptMeetsItsKey
  <2> DEFINE h == req[r].session
  <2>1. req[r].lease # NoSession /\ h = req[r].lease
    BY DEF SidecarInv, Stage, LeaseStage, Prompted
  <2>2. sessions[h].key = req[r].key
    BY <2>1 DEF SidecarInv, Belongs
  <2>3. /\ h \in Made
        /\ \A t \in Kin(h) : t > h => t > r
    BY <2>1 DEF Tracked, Follows, Leases
  <2>4. \A t \in Kin(h) : ~(t > r)
    BY DEF ResumedUnder, Kin, Made
  <2>5. \A t \in Made : t \in Int
    BY SidecarAssumption DEF Made, Requests
  <2> HIDE DEF h
  <2>6. \A t \in Kin(h) : t <= h
    BY <2>3, <2>4, <2>5 DEF Kin
  <2>7. options[sessions[h].id] = sessions[h].key
    BY <2>3, <2>6 DEF Tracked, Follows, Current
  <2> QED
    BY <2>2, <2>7 DEF h
<1> QED
  BY <1>1, SidecarInvHolds, TrackedHolds, PTL

(* The promise lock is passed on whatever fails under it: every unfinished *)
(* request moves by itself or stands behind a holder that does.            *)
THEOREM LockIsPassedOn == SidecarSpec => []NobodyStalls
<1>1. SidecarInv => NobodyStalls
  <2> SUFFICES ASSUME SidecarInv, NEW r \in Requests, Unfinished(r)
               PROVE  Moves(r) \/ (r \in Range(lock) /\ Moves(Head(lock)))
    BY DEF NobodyStalls
  <2>1. req[r] \in Coroutine /\ Queued(req[r].pc, lock, micro, r)
    BY DEF SidecarInv, Shapes, Scheduled
  <2>2. CASE req[r].pc # "enterLock"
    <3>1. req[r].pc \in External \cup Pieces
      BY <2>1 DEF Unfinished, Coroutine
    <3> QED
      BY <2>1, <2>2, <3>1 DEF Queued, Moves
  <2>3. CASE req[r].pc = "enterLock"
    <3> DEFINE h == Head(lock)
    <3>1. r \in Range(lock)
      BY <2>1, <2>3 DEF Queued, Locked
    <3>2. h \in Range(lock)
      BY <3>1, EmptyRange DEF SidecarInv, Shapes
    <3>3. h \in Requests
      BY <3>2 DEF SidecarInv, Shapes, Range
    <3>4. Queued(req[h].pc, lock, micro, h) /\ req[h].pc \in Locked
      BY <3>2, <3>3 DEF SidecarInv, Scheduled, Queued
    <3>5. req[h].pc \in External \cup Pieces
      BY <3>4 DEF Locked, External, Pieces
    <3> QED
      BY <3>1, <3>4, <3>5 DEF Queued, Moves
  <2> QED
    BY <2>2, <2>3
<1> QED
  BY <1>1, SidecarInvHolds, PTL
=============================================================================
