--------------------------- MODULE CopilotSidecar ---------------------------
(***************************************************************************)
(* copilot-sidecar.js: completion requests that share one reusable Copilot *)
(* session under a promise lock.                                           *)
(*                                                                         *)
(* Node runs one piece of JavaScript at a time, up to its next await.  A   *)
(* request is a coroutine: pc says which piece runs when it is resumed.    *)
(* Settling a promise puts the coroutines that await it at the end of      *)
(* `micro', the microtask queue, which is emptied before the next external *)
(* event: a chunk on stdin, a settled SDK call, a session event, a timer.  *)
(* The order of microtasks decides who sees whose state, so every await on *)
(* the way counts: `hops' microtasks pass before pc is reached.            *)
(***************************************************************************)
EXTENDS Naturals, Sequences, FiniteSets

CONSTANTS
    MaxRequests,   \* bound: completion requests, numbered in order
    Keys,          \* session keys: model, effort, output limit, system prompt
    Overlap        \* may the plugin have two unanswered requests?

ASSUME SidecarAssumption ==
    /\ MaxRequests \in Nat
    /\ Keys # {}
    /\ Overlap \in BOOLEAN

Requests == 1..MaxRequests

NoSession == 0

(* Session objects: a request creates or resumes at most one, its own      *)
(* number; requests may come to hold sessions of others.  resumeSession    *)
(* gives a new object for the SDK session that an older object stands for; *)
(* the SDK session is named after the first object made for it.            *)
Sessions == 1..MaxRequests

(* Awaited: SDK calls, and the end of the prompt's processing.             *)
External == {"creating", "creatingExtra", "creatingOwn", "resuming",
             "destroyingOld", "destroyingInvalid", "waiting", "quota"}

(* Pieces of handleComplete and of what it calls.                          *)
Pieces == {"client", "enterLock", "created", "resumed", "resumeFailed",
           "destroyedOld", "release", "leased", "settled", "rejected",
           "recorded", "reply"}

(* What a request does under the lock.                                     *)
LockActions == {"acquire", "record", "invalidate"}

AnyKey == CHOOSE k \in Keys : TRUE

VARIABLES
    req,        \* req[r]: the coroutine of request r
    reusable,   \* reusableSession; its session is NoSession for null
    lock,       \* requests with an unreleased lock, in the order they came
    micro,      \* the microtask queue
    sessions,   \* sessions[s]: the session object s
    options,    \* options[id]: what the SDK session id was last set up with
    wanted,     \* requests the plugin still expects an answer to
    chunk       \* the chunk being read may hold one more message

sidecarVars == <<req, reusable, lock, micro, sessions, options, wanted, chunk>>

Coroutine ==
    [pc : {"idle", "done"} \cup External \cup Pieces,
     hops : 0..2,
     key : Keys,
     reuse : BOOLEAN,                        \* shouldReuseSessionForComplete
     does : LockActions,
     failed : BOOLEAN,                       \* the session was not created
     lease : Sessions \cup {NoSession},      \* session of the lease
     leaseReusable : BOOLEAN,
     active : BOOLEAN,                       \* in activeRequests
     cancelled : BOOLEAN,                    \* state.cancelled
     session : Sessions \cup {NoSession},    \* state.session
     reusable : BOOLEAN,                     \* state.reusable
     invalidate : BOOLEAN,                   \* state.invalidateReusable
     answers : Nat]                          \* history: results, errors sent

Reusable == [session : Sessions \cup {NoSession}, key : Keys, invalidated : BOOLEAN]

SessionObject ==
    [status : {"none", "open", "destroyed", "replaced"},
     key : Keys,                             \* it was created or resumed with
     id : Sessions \cup {NoSession}]         \* sessionId

NoReusable == [session |-> NoSession, key |-> AnyKey, invalidated |-> FALSE]

SidecarTypeOK ==
    /\ req \in [Requests -> Coroutine]
    /\ reusable \in Reusable
    /\ lock \in Seq(Requests)
    /\ micro \in Seq(Requests)
    /\ sessions \in [Sessions -> SessionObject]
    /\ options \in [Sessions -> Keys]
    /\ wanted \in SUBSET Requests
    /\ chunk \in BOOLEAN

SidecarInit ==
    /\ req = [r \in Requests |->
                [pc |-> "idle", hops |-> 0, key |-> AnyKey, reuse |-> FALSE,
                 does |-> "acquire", failed |-> FALSE, lease |-> NoSession,
                 leaseReusable |-> FALSE, active |-> FALSE,
                 cancelled |-> FALSE, session |-> NoSession,
                 reusable |-> FALSE, invalidate |-> FALSE, answers |-> 0]]
    /\ reusable = NoReusable
    /\ lock = <<>>
    /\ micro = <<>>
    /\ sessions = [s \in Sessions |->
                     [status |-> "none", key |-> AnyKey, id |-> NoSession]]
    /\ options = [s \in Sessions |-> AnyKey]
    /\ wanted = {}
    /\ chunk = FALSE

-----------------------------------------------------------------------------
(* isSessionBusy: a cancelled request does not count, nor one that has the *)
(* session and has not stored it in its state yet.                         *)
Busy(s) == \E r \in Requests : /\ req[r].active
                               /\ ~req[r].cancelled
                               /\ req[r].session = s

(* q goes on at piece `at' after n further microtasks.                     *)
At(q, at, n) == [q EXCEPT !.pc = at, !.hops = n]

Destroy(s) == sessions' = [sessions EXCEPT ![s].status = "destroyed"]

(* Ends of a piece of r, in whose microtask the queue is down to `rest':   *)
(* r awaits an external event, has finished, or goes on in a microtask.    *)
Await(r, q, event, rest) ==
    /\ req' = [req EXCEPT ![r] = At(q, event, 0)]
    /\ micro' = rest

GoOn(r, q, at, n, rest) ==
    /\ req' = [req EXCEPT ![r] = At(q, at, n)]
    /\ micro' = Append(rest, r)

(* withReusableSessionLock up to its first await.                          *)
EnterLock(r, q, does, rest) ==
    /\ req' = [req EXCEPT ![r] = At([q EXCEPT !.does = does], "enterLock", 0)]
    /\ lock' = Append(lock, r)
    /\ micro' = IF lock = <<>> THEN Append(rest, r) ELSE rest

(* Mutant: a session made for one request is left open after it.           *)
FinallyKeepsSession(r, q, rest) ==
    LET left == [q EXCEPT !.active = FALSE] IN
    /\ \/ q.invalidate /\ EnterLock(r, left, "invalidate", rest)
       \/ ~q.invalidate /\ Await(r, left, "done", rest) /\ UNCHANGED lock
    /\ UNCHANGED sessions

(* The finally block of handleComplete.                                    *)
Finally(r, q, rest) ==
    LET left == [q EXCEPT !.active = FALSE]
        invalidates == q.reusable /\ q.invalidate
    IN  \/ /\ q.lease # NoSession
           /\ invalidates
           /\ EnterLock(r, left, "invalidate", rest)
           /\ UNCHANGED sessions
        \/ /\ q.lease # NoSession
           /\ ~q.reusable
           /\ Destroy(q.lease)
           /\ Await(r, left, "done", rest)
           /\ UNCHANGED lock
        \/ /\ q.lease = NoSession \/ (q.reusable /\ ~q.invalidate)
           /\ Await(r, left, "done", rest)
           /\ UNCHANGED <<sessions, lock>>

Answer(r, q) == [q EXCEPT !.answers = @ + 1]

(* Mutant: the error is logged and not sent.                               *)
CatchSilently(r, q, rest) ==
    /\ Finally(r, [q EXCEPT !.invalidate = @ \/ q.reusable], rest)
    /\ wanted' = wanted \ {r}

(* The catch block, and the finally block after it.                        *)
Catch(r, q, rest) ==
    /\ Finally(r, [(IF q.cancelled THEN q ELSE Answer(r, q))
                     EXCEPT !.invalidate = @ \/ q.reusable], rest)
    /\ wanted' = wanted \ {r}

-----------------------------------------------------------------------------
(* Under the lock.                                                         *)

(* Mutant: the key of the session is not compared.                         *)
CanReuseAnyKey(q) == /\ reusable.session # NoSession
                     /\ ~reusable.invalidated
                     /\ ~Busy(reusable.session)

CanReuse(q) == /\ reusable.session # NoSession
               /\ reusable.key = q.key
               /\ ~reusable.invalidated
               /\ ~Busy(reusable.session)

MustDrop == /\ reusable.session # NoSession
            /\ reusable.invalidated
            /\ ~Busy(reusable.session)

CanResume(q) == /\ reusable.session # NoSession
                /\ ~reusable.invalidated
                /\ reusable.key # q.key
                /\ ~Busy(reusable.session)

(* acquireSession: drop an invalidated session, reuse or resume an idle    *)
(* one, create the reusable one, or create one more for this request.      *)
Acquire(r, q, rest) ==
    \/ /\ MustDrop
       /\ Destroy(reusable.session)
       /\ reusable' = NoReusable
       /\ Await(r, q, "destroyingOld", rest)
    \/ /\ CanReuse(q)
       /\ GoOn(r, [q EXCEPT !.lease = reusable.session, !.leaseReusable = TRUE],
               "release", 0, rest)
       /\ UNCHANGED <<reusable, sessions>>
    \/ /\ CanResume(q)
       /\ Await(r, q, "resuming", rest)
       /\ UNCHANGED <<reusable, sessions>>
    \/ /\ reusable.session = NoSession
       /\ Await(r, q, "creating", rest)
       /\ UNCHANGED <<reusable, sessions>>
    \/ /\ reusable.session # NoSession
       /\ Busy(reusable.session)
       /\ Await(r, q, "creatingExtra", rest)
       /\ UNCHANGED <<reusable, sessions>>

(* Mutant: the session is destroyed and still offered to others.           *)
InvalidateKeepsReusable(r, q, rest) ==
    \/ /\ reusable.session # q.lease
       /\ GoOn(r, q, "release", 0, rest)
       /\ UNCHANGED <<reusable, sessions>>
    \/ /\ reusable.session = q.lease
       /\ Destroy(q.lease)
       /\ Await(r, q, "destroyingInvalid", rest)
       /\ UNCHANGED reusable

(* invalidateReusableSession.                                              *)
Invalidate(r, q, rest) ==
    \/ /\ reusable.session # q.lease
       /\ GoOn(r, q, "release", 0, rest)
       /\ UNCHANGED <<reusable, sessions>>
    \/ /\ reusable.session = q.lease
       /\ Busy(q.lease)
       /\ reusable' = [reusable EXCEPT !.invalidated = TRUE]
       /\ GoOn(r, q, "release", 0, rest)
       /\ UNCHANGED sessions
    \/ /\ reusable.session = q.lease
       /\ ~Busy(q.lease)
       /\ reusable' = NoReusable
       /\ Destroy(q.lease)
       /\ Await(r, q, "destroyingInvalid", rest)

LockedPiece(r, q, rest) ==
    /\ \/ q.does = "acquire" /\ Acquire(r, q, rest)
       \/ q.does = "invalidate" /\ Invalidate(r, q, rest)
       \/ /\ q.does = "record"   \* updateReusableSessionDynamicContext
          /\ GoOn(r, q, "release", 0, rest)
          /\ UNCHANGED <<reusable, sessions>>
    /\ UNCHANGED <<lock, wanted>>

(* Mutant: the new session is stored without its key.                      *)
CreatedWithoutKey(r, q, rest) ==
    /\ reusable' = [session |-> q.lease, key |-> "", invalidated |-> FALSE]
    /\ GoOn(r, q, "release", 0, rest)
    /\ UNCHANGED <<lock, sessions, wanted>>

Created(r, q, rest) ==
    /\ reusable' = [session |-> q.lease, key |-> q.key, invalidated |-> FALSE]
    /\ GoOn(r, q, "release", 0, rest)
    /\ UNCHANGED <<lock, sessions, wanted>>

(* The object the session was known by is forgotten here; a request that   *)
(* leased it under the old key still has it.                               *)
Resumed(r, q, rest) ==
    /\ reusable' = [session |-> q.lease, key |-> q.key, invalidated |-> FALSE]
    /\ sessions' = [sessions EXCEPT ![reusable.session].status = "replaced"]
    /\ GoOn(r, q, "release", 0, rest)
    /\ UNCHANGED <<lock, wanted>>

ResumeFailed(r, q, rest) ==
    /\ Destroy(reusable.session)
    /\ reusable' = NoReusable
    /\ Await(r, q, "destroyingOld", rest)
    /\ UNCHANGED <<lock, wanted>>

(* After the old session is gone there is none to reuse.                   *)
DestroyedOld(r, q, rest) ==
    /\ Await(r, q, "creating", rest)
    /\ UNCHANGED <<lock, reusable, sessions, wanted>>

(* Mutant: the lock is not released when the action throws.                *)
ReleaseUnlessFailed(r, q, rest) ==
    LET others == IF q.failed THEN lock ELSE Tail(lock)
        woken  == IF q.failed \/ others = <<>> THEN rest ELSE Append(rest, Head(others))
    IN  /\ lock' = others
        /\ \/ q.does = "invalidate" /\ Await(r, q, "done", woken)
           \/ q.does = "acquire" /\ GoOn(r, q, "leased", 1, woken)
           \/ q.does = "record" /\ GoOn(r, q, "recorded", 1, woken)
        /\ UNCHANGED <<reusable, sessions, wanted>>

(* The finally block of withReusableSessionLock: the next one in line is   *)
(* resumed before the caller, who is two more returns away.                *)
Release(r, q, rest) ==
    LET others == Tail(lock)
        woken  == IF others = <<>> THEN rest ELSE Append(rest, Head(others))
    IN  /\ lock' = others
        /\ \/ q.does = "acquire" /\ GoOn(r, q, "leased", 1, woken)
           \/ q.does = "record" /\ GoOn(r, q, "recorded", 1, woken)
           \/ q.does = "invalidate" /\ Await(r, q, "done", woken)
        /\ UNCHANGED <<reusable, sessions, wanted>>

-----------------------------------------------------------------------------
(* The pieces of handleComplete.                                           *)

ClientReady(r, q, rest) ==
    LET known == [q EXCEPT !.active = TRUE] IN
    /\ \/ q.reuse /\ EnterLock(r, known, "acquire", rest)
       \/ ~q.reuse /\ Await(r, known, "creatingOwn", rest) /\ UNCHANGED lock
    /\ UNCHANGED <<reusable, sessions, wanted>>

(* state.session is assigned; a request cancelled meanwhile gives up, any  *)
(* other sends its prompt.                                                 *)
Leased(r, q, rest) ==
    LET has == [q EXCEPT !.session = q.lease, !.reusable = q.leaseReusable] IN
    /\ \/ q.failed /\ Catch(r, q, rest)
       \/ /\ ~q.failed /\ q.cancelled
          /\ Finally(r, [has EXCEPT !.invalidate = @ \/ q.leaseReusable], rest)
          /\ UNCHANGED wanted
       \/ /\ ~q.failed /\ ~q.cancelled
          /\ Await(r, has, "waiting", rest)
          /\ UNCHANGED <<lock, sessions, wanted>>
    /\ UNCHANGED reusable

Settled(r, q, rest) ==
    /\ \/ q.cancelled /\ Finally(r, q, rest)
       \/ /\ ~q.cancelled /\ q.reusable
          /\ EnterLock(r, q, "record", rest)
          /\ UNCHANGED sessions
       \/ /\ ~q.cancelled /\ ~q.reusable
          /\ Await(r, q, "quota", rest)
          /\ UNCHANGED <<lock, sessions>>
    /\ UNCHANGED <<reusable, wanted>>

Rejected(r, q, rest) == Catch(r, q, rest) /\ UNCHANGED reusable

Recorded(r, q, rest) ==
    /\ Await(r, q, "quota", rest)
    /\ UNCHANGED <<lock, reusable, sessions, wanted>>

(* The result is sent without another look at state.cancelled.             *)
Reply(r, q, rest) ==
    /\ Finally(r, Answer(r, q), rest)
    /\ wanted' = wanted \ {r}
    /\ UNCHANGED reusable

Piece(r, q, rest) ==
    \/ q.pc = "client" /\ ClientReady(r, q, rest)
    \/ q.pc = "enterLock" /\ LockedPiece(r, q, rest)
    \/ q.pc = "created" /\ Created(r, q, rest)
    \/ q.pc = "resumed" /\ Resumed(r, q, rest)
    \/ q.pc = "resumeFailed" /\ ResumeFailed(r, q, rest)
    \/ q.pc = "destroyedOld" /\ DestroyedOld(r, q, rest)
    \/ q.pc = "release" /\ Release(r, q, rest)
    \/ q.pc = "leased" /\ Leased(r, q, rest)
    \/ q.pc = "settled" /\ Settled(r, q, rest)
    \/ q.pc = "rejected" /\ Rejected(r, q, rest)
    \/ q.pc = "recorded" /\ Recorded(r, q, rest)
    \/ q.pc = "reply" /\ Reply(r, q, rest)

RunMicrotask ==
    /\ micro # <<>>
    /\ chunk' = FALSE
    /\ UNCHANGED options
    /\ LET r == Head(micro)
           q == req[r]
       IN  \/ /\ q.hops = 0
              /\ Piece(r, q, Tail(micro))
           \/ /\ q.hops > 0
              /\ GoOn(r, q, q.pc, q.hops - 1, Tail(micro))
              /\ UNCHANGED <<reusable, lock, sessions, wanted>>

-----------------------------------------------------------------------------
(* External events: none while a microtask is queued, except that a chunk  *)
(* read from stdin may hold several messages.                              *)

(* dispatch("complete"): handleComplete up to its await of ensureClient.   *)
Complete(r, key, reuse) ==
    /\ micro = <<>> \/ chunk
    /\ req[r].pc = "idle"
    /\ \A q \in Requests : q < r => req[q].pc # "idle"
    /\ Overlap \/ wanted = {}
    /\ GoOn(r, [req[r] EXCEPT !.key = key, !.reuse = reuse], "client", 0, micro)
    /\ wanted' = wanted \cup {r}
    /\ chunk' = TRUE
    /\ UNCHANGED <<reusable, lock, sessions, options>>

(* dispatch("cancel"): copilot_provider_t::cancel names no request.  What  *)
(* has not reached activeRequests is not cancelled.                        *)
Cancel ==
    /\ micro = <<>> \/ chunk
    /\ wanted # {}
    /\ req' = [r \in Requests |->
                 IF req[r].active
                 THEN [req[r] EXCEPT !.cancelled = TRUE, !.invalidate = @ \/ req[r].reusable]
                 ELSE req[r]]
    /\ wanted' = {}
    /\ chunk' = TRUE
    /\ UNCHANGED <<reusable, lock, micro, sessions, options>>

ExternalEvent == micro = <<>> /\ chunk' = FALSE /\ UNCHANGED <<lock, reusable, wanted>>

(* The SDK session that r is to have: resumeSession is called with the id  *)
(* of the reusable session.                                                *)
SdkSession(r) == IF req[r].pc = "resuming" THEN sessions[reusable.session].id ELSE r

(* createSession or resumeSession gives r a new session object; resuming   *)
(* sets the same SDK session up with the options of r.                     *)
SessionArrives(r) ==
    /\ req[r].pc \in {"creating", "creatingExtra", "creatingOwn", "resuming"}
    /\ ExternalEvent
    /\ sessions' = [sessions EXCEPT ![r] =
                      [status |-> "open", key |-> req[r].key, id |-> SdkSession(r)]]
    /\ options' = [options EXCEPT ![SdkSession(r)] = req[r].key]
    /\ LET q == [req[r] EXCEPT !.lease = r,
                               !.leaseReusable = req[r].pc \in {"creating", "resuming"}]
       IN  \/ q.pc = "creating" /\ GoOn(r, q, "created", 0, micro)
           \/ q.pc = "resuming" /\ GoOn(r, q, "resumed", 0, micro)
           \/ q.pc = "creatingExtra" /\ GoOn(r, q, "release", 1, micro)
           \/ q.pc = "creatingOwn" /\ GoOn(r, q, "leased", 0, micro)

SessionFails(r) ==
    /\ ExternalEvent
    /\ LET q == [req[r] EXCEPT !.failed = TRUE]
       IN  \/ /\ q.pc \in {"creating", "creatingExtra"}
              /\ GoOn(r, q, "release", 1, micro)
           \/ q.pc = "creatingOwn" /\ GoOn(r, q, "leased", 0, micro)
           \/ q.pc = "resuming" /\ GoOn(r, req[r], "resumeFailed", 0, micro)
    /\ UNCHANGED <<sessions, options>>

DestroySettles(r) ==
    /\ ExternalEvent
    /\ \/ req[r].pc = "destroyingOld" /\ GoOn(r, req[r], "destroyedOld", 1, micro)
       \/ req[r].pc = "destroyingInvalid" /\ GoOn(r, req[r], "release", 2, micro)
    /\ UNCHANGED <<sessions, options>>

WaitingOn(s) == {r \in Requests : req[r].pc = "waiting" /\ req[r].session = s}

(* The SDK session of s has not been destroyed.                            *)
Alive(s) == \E t \in Sessions : sessions[t].id = sessions[s].id /\ sessions[t].status = "open"

(* session.idle: every sendAndWaitForSessionIdle of the session object     *)
(* settles, in the order in which they subscribed.  Whether an object that *)
(* was replaced still hears of the SDK session is left open.               *)
SessionIdle(s) ==
    /\ ExternalEvent
    /\ Alive(s)
    /\ WaitingOn(s) # {}
    /\ req' = [r \in Requests |-> IF r \in WaitingOn(s)
                                  THEN At(req[r], "settled", 1) ELSE req[r]]
    /\ \E order \in [1..Cardinality(WaitingOn(s)) -> WaitingOn(s)] :
          /\ \A i, j \in DOMAIN order : i < j => order[i] < order[j]
          /\ micro' = order
    /\ UNCHANGED <<sessions, options>>

(* session.send fails, the session reports an error, or time runs out.     *)
PromptFails(r) ==
    /\ ExternalEvent
    /\ req[r].pc = "waiting"
    /\ GoOn(r, req[r], "rejected", 1, micro)
    /\ UNCHANGED <<sessions, options>>

(* getQuota settles, either way.                                           *)
QuotaSettles(r) ==
    /\ ExternalEvent
    /\ req[r].pc = "quota"
    /\ GoOn(r, req[r], "reply", 0, micro)
    /\ UNCHANGED <<sessions, options>>

SdkSettles(r) == \/ SessionArrives(r)
                 \/ SessionFails(r)
                 \/ DestroySettles(r)
                 \/ PromptFails(r)
                 \/ QuotaSettles(r)

SidecarNext ==
    \/ RunMicrotask
    \/ \E r \in Requests, key \in Keys, reuse \in BOOLEAN : Complete(r, key, reuse)
    \/ Cancel
    \/ \E r \in Requests : SdkSettles(r)
    \/ \E s \in Sessions : SessionIdle(s)

SidecarSpec == SidecarInit /\ [][SidecarNext]_sidecarVars
=============================================================================
