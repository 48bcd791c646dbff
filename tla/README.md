# A TLA+ model of qcai2

qcai2 is an AI-agent plugin for Qt Creator. The user states a goal in a dock; an
*agent controller* turns it into a run: it sends the conversation to a model provider,
executes the tools the model asks for, waits for the user where approval or a decision is
needed, and stops when the model is done, a limit is reached or the user says so. Around
that run sit a chat store on disk, providers over HTTP and through a Node sidecar, code
completion with its own latest-wins session, and an indexer that feeds a vector database.
This directory holds TLA+ modules for that machinery, TLC configurations that check them on
small instances, and TLAPS proofs of results that hold for every instance.

Paths below are relative to the repository (`src/src/...` is the plugin's source).

## 1. Inventory

| component | state | operations | what makes it correct |
|---|---|---|---|
| run state machine (`agent_run_state_machine.*`) | one of nine states | `start_run`, `await_*`, `mark_*`; each flushes its `QStateMachine` and is synchronous | a trigger that the state does not declare is ignored; a running state can always end |
| agent controller (`agent_controller.*`) | state machine, limits, pending approvals and decision, queue of follow-up messages, queue of provider replies, watchdog, compaction flag, run id | `start`, `stop`, reply/stream/progress callbacks, `approve_action`, `deny_action`, `resolve_apply_patch_inline_approval`, `submit_user_decision`, `enqueue_soft_steer_message`, inline review, watchdog | one request at a time; each run ends once and its row says how, or the failed write of the row harms nothing else; the iterations bound all requests of a run, the hidden ones too; follow-up messages are neither lost nor doubled; the run never hangs |
| agent dock (`ui/agent_dock_widget.cpp`, `ui/request_queue.cpp`) | request queue, deferred request, skip flag, displayed usage, stop button | run, queue, `/compact`, stop, new chat, conversation, reload, `on_stopped`, posted calls | a request runs once or is given up visibly; what waits goes on; the stop button matches the run |
| chat context (`context/*`) | per conversation `messages.jsonl`, `summaries.jsonl`, `latest-summary.json`, `conversation.json`, and a file per run, under `.qcai2/chat-context/`; a cached record and the active runs | `begin_run`, `finish_run`, `append_*`, `maybe_refresh_summary`, `append_compaction_summary`, `rename_conversation`, `delete_conversation`, `set_active_workspace` | a summary speaks for everything it replaces; the user's title stands; failed writes and crashes lose nothing else |
| safety policy (`safety/*`) | limits, lists | `requires_approval`, `is_command_allowed` | what is gated is gated on every path |
| providers over HTTP (`providers/*`) | one reply slot, line buffer, accumulator | `complete`, `cancel`, `readyRead`, `finished` | each call is answered once, with the text of its own reply |
| Copilot provider and sidecar (`providers/copilot_provider.cpp`, `sidecar/copilot-sidecar.js`) | pending map and process; active requests, one reusable session, a promise lock | `start`, `complete`, `cancel`, `stop` | a request keeps its session until it ends; no session is left behind; the lock is passed on whatever fails; each request is answered once |
| completion session (`lib/qompi`, used by `completion/*`) | active operation, generation, an operation's state and backend handle | `request_completion`, `cancel_active`, filtering sink | one end per request; an abandoned request is cancelled at its backend; nothing stale reaches the editor |
| vector indexing (`vector_search/vector_indexing_manager.cpp`) | job queue, keys against duplicates, current job, cancellation generation, preparation pool, `vector-index.json` | save, append, project opened, settings applied, worker jobs | the state file claims no points the backend lacks; no change is lost; no job starves |
| tools, MCP (`tools/*`, `mcp/*`, `lib/qtmcp`) | registry, clients, HTTP session | `execute`, `refresh_for_project` (nested event loops), handshake | replies reach their call; a lost session is re-established |
| inline diff (`diff/*`) | hunks, anchors, statuses | accept, reject, all resolved | accepted hunks are exactly the applied ones |
| session controller (`session/*`) | files, watcher, debounce timer | save, reload | no write is lost |
| migrations, clangd, debugger, progress, goal editor, linked files, settings, logging | see `PROJECT.json` | | |

**Interaction.** The dock owns the request and drives the controller by calls; the
controller reports back by signals (`stopped`, approvals, decisions), some of which the dock
answers inside the emission. The controller calls the provider, the tools and the chat
context manager. All of that runs on the GUI thread; concurrency comes from the event loop:
provider callbacks, timers, posted calls and clicks in any order. Provider completions are
queued by `enqueue_provider_response` and handled from a posted zero timer. Tools (MCP, web,
clangd, vector search) and the MCP refresh of `start` *spin nested event loops*: the caller
is suspended in the middle while any other handler may run. Other threads exist in two
places: the indexing worker with its preparation pool, and the completion session, a library
that is safe for backends calling from threads of their own. The sidecar is a separate
process whose coroutines interleave at every `await`.

**Hard behaviours**: late replies of stopped runs; watchdog against reply; follow-up
messages against replies, approvals and reviews; nested event loops against stop and
restart; failures between the steps of `start`; requests passed along by posted calls;
writes that fail halfway and crashes between them; handlers that share one reply slot;
cancellation against the late attachment of a backend handle; a job of old settings that
goes on beside the new ones. `PROJECT.json` lists them under `hazards`, each with its line.

## 2. Modules

| module | what it is |
|---|---|
| `RunStateMachine` | the lifecycle machine, as functions `StartRun`, `AwaitProvider`, `AwaitUser`, `Mark` from state to state |
| `RunLifecycle` | **abstract specification**: at most one active run, each run ends once, its row follows unless its final write fails |
| `AgentController` | **the controller**: one action per handler |
| `AgentDock` | **the dock**: every path of a request, on top of `RunStateMachine` |
| `ChatContext` | **the chat store**: every operation as the sequence of its writes |
| `HttpProvider` | **a provider over HTTP**: the reply slot shared by its calls |
| `CopilotSidecar` | **the sidecar**: completion requests around one shared session and its promise lock |
| `CompletionSession` | **qompi's session**, to the atomic access |
| `VectorIndexing` | **the indexer**: GUI thread, worker thread, preparation pool, failing backend |
| `<Module>Properties` | invariants, action and liveness properties, the refinement mapping of the controller |
| `MC<Module>` | roots of the TLC runs |
| `AgentControllerProofs`, `AgentDockProofs`, `ChatContextProofs`, `HttpProviderProofs`, `CompletionSessionProofs`, `CopilotSidecarProofs`, `VectorIndexingProofs` | theorems and proofs |

`RunStateMachine` is used by both the controller and the dock: the dock sees the controller
through it (`start`, `stop`, `stopped`), and the controller implements `RunLifecycle`, which
is what the dock relies on (a run that was started ends once, and says how).

Definitions marked *Mutant* are plausible bugs of the definition they precede. No
specification uses them; `PROJECT.json` lists which property each of them breaks.

### How the controller is modelled

`ctl` is one record holding the members of `agent_controller_t` that control flow depends
on (the comments of `Controller` name the C++ members) plus history fields; `inflight` is
the set of requests the provider has. An action is one event handled by the event loop.
A C++ handler is a chain of edits of the record that ends in a *tail* operator:
`Commit(c)` (return), `Send(c, kind)` (call `complete`), `RunNextIteration(c)`, and so on.
This mirrors the code, whose handlers end in `run_next_iteration()` or `return`.

| model | code |
|---|---|
| `Start`, `StartAfterRefresh`, `StartReturns` | `start()`; the MCP refresh may suspend it |
| `RunNextIteration`, `StartMidRunAutoCompaction`, `Send` | `run_next_iteration`, `start_mid_run_auto_compaction`, the `complete` call |
| `ProviderReplies`, `DrainResponses`, `HandleResponse` | `enqueue_provider_response`, `drain_queued_provider_responses`, `handle_response` |
| `HandleCompactionReply`, `HandleAgentReply`, `ExecuteTool`, `AfterTool` | the branches of `handle_response`, `execute_tool` |
| `ProviderStreams`, `ProviderInactivityTimeout` | the stream callback, which re-arms the watchdog (`agent_controller.cpp:2304`; progress callbacks do not), and the watchdog |
| `EnqueueSoftSteerMessage`, `SoftSteerTimer`, `ApplySoftSteer` | `enqueue_soft_steer_message`, its zero timer, `apply_soft_steer_if_pending` |
| `ApproveAction`, `DenyAction`, `ResolveInlineApproval`, `SubmitUserDecision`, `RequestInlineDiffRefinement`, `FinalizeInlineDiffReview` | the functions of those names |
| `Stop` | `stop()` with `cancel()`, which may report back through the callbacks |
| `Suspend`, `ExecuteToolReturns`, `ApproveActionReturns` | a nested `QEventLoop::exec()` and its return |

Nested loops are the stack `frames`: only the innermost one returns, and the call goes on
with its own locals but with whatever the members have become. `draining` tells whether the
current loop sits inside `drain_queued_provider_responses`, whose `while` handles the queued
replies before any other event; it is saved in the frame of a call suspended inside it.

Data is abstracted to what control depends on: a reply is its type, its tool and whether its
usage exceeds the compaction threshold; a message is a number; a request is its run and
iteration. Failures of I/O (store, attachments, prompt reconstruction) are nondeterministic
choices at the place where the code tests them. The end of a run is one of these places:
`Finish` and `CancelAndFinish` choose whether `finish_run` writes the final row. If it does not,
the error is only logged and `run_id` cleared (`:2194`), and the row stays `running`; the
history `unrecorded` names such rows, so that a property can say that a row is `running` for
this reason and no other. The history `compactions` counts the hidden requests of a run, which
`current_iteration` does not. The provider is external, modelled from `iai_provider_t`: it
answers each request at most once, may stream, and may answer `cancel` through the callbacks.

**Zero timers.** Follow-up messages and the reply queue use `QTimer::singleShot(0)`; the
dock finalises a review from another zero timer. Qt delivers zero timers in the order they
were posted, before it polls for new input. The constant `ZeroTimersFirst` says so. It is
`TRUE` in the runs; `CompletedHeardAll`, `OneRequest`, `WatchdogCovers`, `PendingMatches` and
`RequestsBounded` are proved under it, the controller's other theorems without.

### How the dock is modelled

`dock` is a record: the queue, the deferred request, the skip flag, whether the displayed
usage is over the compaction threshold, the stop button, the calls the dock has posted to
itself, the `start()` calls suspended in their MCP refresh, and the controller seen as its
state machine and the request of its run. Operators edit the record in the order of the code;
`EndRun` is a verdict of the controller together with `on_stopped`, which runs inside the
emission of `stopped`.

| model | code |
|---|---|
| `StartRequest`, `AutoCompactNeeded`, `StartController`, `Begin` | `start_request`, its automatic compaction, `agent_controller_t::start` before and after the MCP refresh |
| `MaybeStartNextQueuedRequest`, `EndRun`, `AfterCompletion`, `AfterFailure` | the functions, `on_stopped` and its two posted calls |
| `OnRunClicked`, `OnQueueClicked`, `OnCompactCommand`, `OnStopClicked`, `OnNewChatClicked`, `OnConversationSelected`, `ReloadSessionFromDisk` | the slots of those names |
| `RunAsks`, `UserAnswers`, `UserSteers`, `OnProviderUsage`, `RunEnds`, `ReviewEnds` | what the run does while the dock watches |
| `ServePosted`, `StartReturns` | the event loop |

Three constants name what is assumed of the surroundings. `PostedFirst`: Qt delivers posted
calls before it looks for input. `ClicksWhileConnecting` (FALSE): the user does not click
while `start()` connects MCP servers. `ImageFaults` (FALSE): image attachments load. With
the last two TRUE the code misbehaves; section 5 says how.

### How the chat context is modelled

An operation runs to its end without an event loop, but it is several writes. Each operation
is a sequence of *stages*, the directory and the manager after each write; `Perform` takes
all of them, or stops at a failing write with an error, or crashes between two writes (the
memory is lost and the program starts again), or crashes inside the append to a journal,
whose last line is then half written: `read_jsonl` refuses the whole journal from then on
(`torn`). JSON files are replaced atomically (`QSaveFile`).

Message text is the set of sequence numbers a text was made from, so that a summary says which
messages it speaks for: `content`. `RefreshSummary` takes the messages after the latest summary
in chunks and carries the previous summary; a compaction summary is made from what the model was
shown, `seen`. That is at first what `Prompt` tells of (the summary and the window of recent
messages). But a follow-up message of the user may supersede the compaction's reply
(`agent_controller.cpp:1389`): then messages are appended while the compaction is out, and the
reply that is stored as the summary answers a request made from the run's own messages. `prompt`
is what these tell of: `RestoreContext` builds them from the store at the start of the run,
`Tell` adds what is appended, and `Rebuild` makes them anew after a compaction. Token estimates
are 1 or 2 per message, and thresholds are scaled to them. The loops of the code that add up
tokens and fill the window are recursive functions (`Tokens`, and `newest` in `RecentMessages`);
a chunk is the longest run of messages that fits. `MaxMessages` and `MaxSummaries` bound what is
appended to each conversation. `FinishRun` may fail to open the store or to write the run's
file; the run is dropped all the same. The code also clips the text of a summary to a number of
characters; `content` says what a text was made from, not what survives the clipping.

### How a provider over HTTP is modelled

The OpenAI-compatible, Anthropic and local providers are built the same way, and one module
stands for them. A provider has one slot `current`, one line buffer and one accumulator; the
`readyRead` and `finished` handlers of every reply work on *whatever the slot holds*. A delta
arrives in a line that is split into two pieces, so every split point matters. `Cancel` is
`abort()`, which emits `finished` before it returns, followed by the `deleteLater()` through
the slot that handler has just emptied: calling through null is undefined behaviour, and
the model lets the process die of it or ignore it (`down`). `DeferredDelete` is the event loop
deleting what `deleteLater()` marked.

### How the sidecar is modelled

Node runs JavaScript up to the next `await`; what interleaves is the code between awaits. A
request is a coroutine: `pc` names the piece of `handleComplete` (or of what it calls) that
runs when it is resumed. Settling a promise appends the waiting coroutine to `micro`, the
microtask queue, and external events (a chunk on stdin, a settled SDK call, `session.idle`,
a timer) come only when it is empty; one chunk may hold several messages. Each `await` on the
way back through async functions costs a microtask (`hops`), and the order of those decides
who sees `state.session` set, so they are counted exactly.

| model | code |
|---|---|
| `Complete`, `ClientReady`, `Leased`, `Settled`, `Recorded`, `Reply`, `Rejected`, `Catch`, `Finally` | `handleComplete`, from await to await |
| `EnterLock`, `LockedPiece`, `Release` | `withReusableSessionLock` |
| `Acquire`, `Created`, `Resumed`, `ResumeFailed`, `DestroyedOld` | `acquireSession` |
| `Invalidate`, `Busy` | `invalidateReusableSession`, `isSessionBusy` |
| `Cancel` | `handleCancel` without an id, as `copilot_provider_t::cancel` sends it |
| `SessionArrives`, `SessionFails`, `DestroySettles`, `SessionIdle`, `PromptFails`, `QuotaSettles` | the SDK's promises and events (external), failures included |

`wanted` is the plugin's side: the requests it still expects an answer to. The client is
taken as started.

A session of the model is a JavaScript session *object*, named by the request that made it; its
`id` is the SDK session behind it, and `options[id]` is what that SDK session was last set up
with. `createSession` makes both. `resumeSession` makes a new object for the *same* SDK session
and sets it up with the options of its own request (`copilot-sidecar.js:190`), under the feet of
a request that leased the old object and has not stored it in its state yet. Whether the SDK
still reports events to an object replaced in that way is not to be seen in this repository and
left open: `SessionIdle` may come for it or not. Prompts and their incremental contents are not
modelled; `does = "record"` keeps the lock operation that stores them.

### How the completion session is modelled

The editor's thread makes requests, each of which cancels the one before it; a second thread
calls `cancel_active()`; reporters are the backend's threads and call the filtering sink. A
step is one atomic access, one section under a lock, or one call out of the library: the
exchange of the state, the read of the handle and the call of its `cancel` are three steps,
and the two questions of `should_forward` and the call of the consumer are three more.
Operations are named by their generation. `wanted` records whether the operation was still
active when a callback began, so that a callback overtaken by a cancellation (which no
implementation could withhold) is told apart from one begun too late.

### How vector indexing is modelled

The GUI thread saves files, appends messages, opens projects and applies settings; the
worker thread runs one job at a time, each step of it between two calls to the backend an
action of its own. Preparing a file takes its state and later reads its text; the pool has
`Threads` slots. `points` holds, for each backend, the version a file's points were made from;
`index` is `vector-index.json`. `cancellation_generation` is a plain `int` written by one
thread and read by the other: the read may return a value from before any earlier write, so
`Cancelled` only *may* see a cancellation. A request to the backend may fail (`Fails`), after
which the job ends without writing its state. Reading the chat store may fail too, and then
the job does not end: `store.open`, `conversations` and `messages_range` only warn
(`vector_indexing_manager.cpp:949`), and `LoadWorkspace` goes on with any part of the history,
at the cost of one of `MaxFaults`.

Histories say what a property may ask for: `announced` (files the manager was told of as they
are), `spoiled` (backends on which a job failed since they were built), `dropped` (files that a
full job takes for deleted because its list is older than they are), `unread` (messages that the
last full job could not read and no job has indexed since). Section 5 says what the code does in
the last three cases.

## 3. Runs

Deadlock is not checked because each system may stop: when all runs, calls or jobs have
ended there is nothing left to do.

| run | question | distinct states |
|---|---|---|
| `MCSequential` | no nested loops; every kind of reply, every user action, hidden compaction, failing final writes: one request at a time, watchdog and questions match the wait, all requests bounded by the iterations, and the refinement of `RunLifecycle` | 556k |
| `MCNested` | stop, start, steers, replies and timeouts during a suspended tool: which guarantees survive (follow-up messages, rows, `RunLifecycle`) | 564k |
| `MCLiveness` | does a run settle, is a steer delivered? (compaction, suspended tool and start) | 21k |
| `MCDock` | four requests run, queued, deferred, with stops, new chats, reloads and failing starts: none vanishes or runs twice, the button follows, what waits goes on | 40k |
| `MCChat` | failed writes, half-written lines, crashes, messages appended under an open compaction: summaries cover what they replace, titles stand | 826k |
| `MCHttp` | split data, errors, timeouts, cancellation: one answer per call, with its own text | 135k |
| `MCSidecar` | three overlapping requests, two session keys, cancellation and failure at every await | 1.4M |
| `MCSession` | two requests, a cancelling thread, two backend threads: one end each, abandoned ones told, nothing stale, every request ends | 383k |
| `MCVector` | settings changed under a running job, cancelled jobs, a failing request or a partly read history: the state file is backed, nothing else is missing at rest, no job starves | 572k |

Runs that are expected to be violated record where the code departs from its own
documentation (`findings` in `PROJECT.json` quotes both):

| run | what TLC shows |
|---|---|
| `MCSteerDuringCompaction` | a follow-up message that supersedes the hidden compaction reply leaves `mid_run_compaction_in_progress` set; the next ordinary answer is stored as the summary |
| `MCHttpOverlap` | a second `complete()` takes over the reply slot; the end of the first reply deletes the second, whose callback is never called |
| `MCSidecarStopRestart` | a request cancelled while its session is created destroys the session just leased to the next request |

### Bounds

* Controller: `MaxRuns = 2` (the effects of an old run on a new one), `MaxIterations = 2` and
  `MaxToolCalls = 1` reach each limit and let every kind of reply follow every other;
  `MaxSteers = 2` is what order needs. `MCNested` uses one steer and fewer kinds of reply, since
  suspended calls multiply the states. It does not list `OneOutstandingRequest` and
  `WatchdogCoversWait` and excludes `RefreshLoops` (section 5).
* Dock: four requests let one run, one be deferred and two queue up.
* Chat: agent mode scaled down. A summary is refreshed at 3 messages or 4 tokens, and the
  window shows 4 messages or 7 tokens. In the code (thresholds 12 and 900, window 14 messages) the
  window is 14 − 11 = 3 messages above what a refresh may leave unsummarized. Each fault may
  keep one message from being summarized, so `MaxFaults = 2` is enough for faults to be felt
  and stays within the margin, which is one smaller in the model. Five messages and three
  summaries suffice for a summary made from a summary, and for messages before, during and
  after a compaction.
* HTTP: three calls, because what a call leaves behind must pass over a failed or
  cancelled one to reach the next; two deltas of two pieces each.
* Sidecar: three requests, one to invalidate the session while a second uses it, and a
  third to drop it. Every request makes finitely many steps, so `NobodyStalls` (an unfinished
  request is queued, awaits the SDK, or is in line behind one that is) is what its liveness
  comes down to. It relies on the SDK settling its promises; a prompt that is never answered
  ends by its timeout, unless the timeout is set to 0.
* Session: two requests (one superseded by the other), one further cancellation, and two
  backend threads, so that two callbacks of one request are under way at once.
* Vector: one file, one message, two backends, two versions, two changes of the settings (one
  enables indexing, the next changes the backend under a running job), one fault. Settings
  that go there *and back* take a third change; the theorems cover any number.

### Fairness

* `FairSpec` (controller): the event loop serves the posted drain and the steer timer;
  the innermost nested loop returns (each has a timeout or a reply; an MCP timeout of 0 means
  none and is excluded); and *reply or watchdog*: a provider that stays silent is ended by the
  watchdog, and none streams for ever. Nothing is assumed of the user: `RunSettles` promises
  only that a run ends **or waits for the user**, and `SteerIsDelivered` excepts a decision.
* `DockFairSpec`: posted calls are served, connecting times out, and a run that waits for its
  provider ends (what `RunSettles` shows of the controller).
* `HttpFairSpec`: the network delivers or ends, or the caller cancels (the watchdog of the
  controller). Without that disjunct a reply without transfer timeout may stay open for ever.
* `SessionFairSpec`: threads inside a call go on, and the backend reports an end for what
  it was started for.
* `IndexingFairSpec`: the worker runs, and `handle_job_finished` is called.

## 4. Proofs

Checked by TLAPS for every value of the constants:

* **Controller.** `TypeCorrect`: `Spec => []TypeOK`. The record has 28 fields; each kind of edit
  has a lemma, each tail operator one, and each action a step. `SteersAreKept`: `Spec =>
  []SteersKeptInOrder`; `CompletedHeardAll`: assuming `ZeroTimersFirst`, `Spec =>
  []CompletedRunHeardEverySteer`. These rest on the inductive invariant `SafetyInv`: `InOrder`
  (`delivered \o steers` counts up to `accepted`, in every state and not just an active one),
  `Heard` (a completed run has an empty queue), `TimerPosted` (a message queued while the run is
  in an inline review has a zero timer posted: this is what keeps the last hunk from completing
  the run over it, and what makes `Heard` inductive) and `WithinLimit` (`current_iteration` does
  not pass the limit).
* **Controller: requests and waits**, assuming `Looping = {}`, `~RefreshLoops` (no tool and no
  MCP refresh spins an event loop) and `ZeroTimersFirst`: `OneRequest`: `Spec =>
  []OneOutstandingRequest`; `WatchdogCovers`: `Spec => []WatchdogCoversWait`; `PendingMatches`:
  `Spec => []PendingMatchesWait`. The inductive invariant `WaitInv` says that the state of the
  run determines what is outstanding: waiting for the provider, one request of this run, at the
  provider or with its reply queued, and the watchdog armed; waiting for the user, that one
  question; otherwise nothing. A handler gives up what is outstanding before it ends in a tail
  operator (`Ready`), and each tail has a lemma. The assumptions are needed: with nested loops
  two requests of one run do occur (section 5). `RequestsBounded`: `Spec =>
  []RequestsAreBounded`, under the same assumptions. `max_iterations` is compared with
  `current_iteration` alone, and `run_next_iteration` sends compaction requests without counting
  them; that a run still sends at most `2 * MaxIterations - 1` requests is an argument over
  several handlers. The invariant `BudgetInv` keeps the account: only the usage of an agent
  reply can set `high`, a compaction request clears it, and so each compaction is paid for by an
  iteration of its own, while the guard in front of it leaves one iteration over.
* **Controller: runs.** `StepMoves` sorts every step by what it does to the life of runs:
  nothing (`SameRun`), it ends the active one, it begins one, or it begins one that fails at
  once. Assuming `~RefreshLoops`, this gives `RowsFollow`: `Spec => []RowsFollowRuns` (invariant
  `LifeInv`: a row is `running` exactly while the member `run_id` names its run or because its
  final write failed, a run that is not active has one ending, and a final row agrees with it)
  and `Refinement`: `Spec => ImplementsLifecycle`, that is, the controller implements
  `RunLifecycle` under the mapping of `AgentControllerProperties`; the invariant makes each kind
  of step one action of the lifecycle, or a stutter. Overlapping refreshes are a real exception
  (section 5).
* **Dock**, assuming `PostedFirst` and `~ClicksWhileConnecting`, for any number of requests, with
  or without image faults and reloads: `RequestsAreKept`: `DockSpec => []NoRequestVanishes`;
  `ButtonMatchesRun`: `DockSpec => []StopMatchesRun`; `DockTypes`. The inductive invariant
  `DockInv` adds what makes it true, `Quiet`: at most one call is posted and at most one
  `start()` suspended, never both, and neither while a run is active. Whoever reaches
  `start()` therefore finds the controller at rest, and its silent early return is never taken.
  `RunOnce`: `DockSpec => []RunsAtMostOnce`, by the invariant `Once`: a
  request waits in one place at a time, while it waits it has neither begun nor been given up,
  and the posted call that brings it back from behind a compaction finds
  `skip_auto_compact_once` set.
* **HTTP**, for any number of calls and deltas. `HttpTypes`: `HttpSpec => []HttpTypeOK`,
  overlapping calls included. Assuming `~Overlap`: `OneAnswer`: `HttpSpec => []CalledOnce`.
  `HttpInv` says that the slot is either empty or holds the last call, whose reply is open,
  alive and unanswered (`Slot`), and that every other call has exactly one answer (`Answered`).
  `MCHttpOverlap` shows that the assumption is needed. Also assuming `~Overlap`: `OwnAnswer`:
  `HttpSpec => []AnswerIsOwnText`. The invariant `TextInv` says that what a reply has received
  so far is a beginning of its own text, whole lines parsed into the accumulator and the split
  rest in the line buffer (`Received`), and that each answer is such a beginning, or all of it
  if the network ended (`OwnText`). What `Feed` makes of the unread pieces is a fold over a
  sequence: the lemmas about it look at the least number of pieces after which a claim would
  fail, and refute it.
* **Completion session**, for any number of requests, cancellations, callbacks and threads:
  `SessionTypes`; `OneEnd`: `SessionSpec => []OneEndPerRequest`; `AbandonedTold`:
  `SessionSpec => []AbandonedIsTold`; `NothingStale`: `SessionSpec => []NothingStaleBegins`.
  The invariants are `Places` (which operation a thread's step is about), `Told` (a
  cancelled operation with a handle has been told, or the thread that will tell it is on its way:
  the recheck after the handle is stored closes the window), `Ended` (at most one thread
  carries the end of a request to the consumer, after it ended the operation and before any
  other has) and `Fresh` (a callback begun too late never gets past both questions of
  `should_forward`).
* **Chat context**, for any limits, kinds of messages and number of faults: `RenamesAreKept`:
  `ContextSpec => []RenameIsKept`. Every append writes the cached title over the stored one, so
  the invariant `TitleInv` says that the cache agrees with the disk about a title given by the
  user, and that a run or a compaction belongs to an active conversation. It is shown of every
  stage of an operation (`SafeAt`) and not of its end alone: an operation may fail, or the
  program crash, after any of its writes (`PerformKeeps`). `ContextTypes`: `ContextSpec =>
  []ContextTypeOK`, without assumption. `SummariesCover`: assuming `WindowHolds`, `ContextSpec
  => []SummaryCoversItsMessages`. The invariant `CoverInv` says of each directory (`GoodDir`)
  that message i has number i, that every summary's text is made from all messages up to its
  end, and that little is behind: after the end of the latest summary comes what a refresh may
  leave, and then at most one message for each fault so far (`Leaves`). Of a run it says that
  its messages, and the request whose reply will be the summary, tell of every message stored
  (`Owes`), those included that were appended since the request for the compaction went out.
  Both are shown of every stage (`GoodStages`), with one fault more wherever an operation is
  broken off. `RecentShows` is the heart of it: a backlog of that size is wholly in the window,
  so a compaction summary covers it. `WindowHolds` says that a chunk and the window take what a
  refresh leaves and, if there are faults, one message of greatest length for each. It is a
  condition on the limits, and holds of agent mode (thresholds 12 and 900, chunks 24 and 1400, a
  window of 14 messages and, with `max_tokens` at 4000 or more, 4000 tokens) without faults for
  messages of any length, and with up to 3 faults for messages of up to 1000 tokens. The
  condition is needed: with one failed write and a message longer than the window a compaction
  summary covers a message that it was not made from.
* **Sidecar**, for any number of requests and session keys, overlapping or not, cancelled and
  failing at every await, without an assumption: `OpenReusable`: `SidecarSpec =>
  []ReusableIsOpen`; `NothingLeaks`: `SidecarSpec => []NoSessionLeak`; `EachAnswered`:
  `SidecarSpec => []DoneIsAnswered`; `PromptsMeetTheirKeys`: `SidecarSpec =>
  []PromptMeetsItsKey`; `LockIsPassedOn`: `SidecarSpec => []NobodyStalls`; `TypedSidecar`. The
  inductive invariant `SidecarInv` has three parts. `Scheduled`: a request stands in the line
  for the lock exactly while it is between the call and the release, only the first in line is
  past the wait, and the microtask queue holds exactly the requests whose next piece is due
  (this is `NobodyStalls`). `Stage`: how far a request is determines what it has leased,
  recorded and answered. `Belongs`: a session is leased and touched by nobody but the request
  that made it until it becomes the reusable one or is destroyed, an open session is the
  reusable one or its maker's, and there is no reusable one while its successor is being made.
  `PromptsMeetTheirKeys` and `TypedSidecar` rest on a second invariant, `Tracked`: requests pass
  the lock in the order of their arrival (`Order`), and the last of the session objects of an
  SDK session says what it was last set up with (`Follows`). A request may find its session
  re-keyed, but only by a later one (section 5), so the property excepts just that: the last
  request always gets its own options. `SidecarInv` says nothing of a session in use by a
  request that has not come to `state.session` yet, which is where the finding of
  `MCSidecarStopRestart` lies.
* **Vector indexing**, for any number of files, messages, backends, threads and changes of the
  settings, with failures and without an assumption: `BackedState`: `IndexingSpec =>
  []StateIsBacked`; `CurrentIndex`: `IndexingSpec => []IndexIsCurrent`; `IndexTypes`:
  `IndexingSpec => []IndexingTypeOK`. The inductive invariant `IndexInv` has a conjunct for each
  part of the argument. `QueueInv`: the queue holds one job per key and the keys say which (so
  the queue has no more jobs than there are keys: `QueueIsShort` maps it injectively into them).
  `WorkInv`: how far the running job is and what it may have noted by then. `PassInv`: after a
  change of the settings a full job goes ahead of everything else, so that a job of one file
  never adds to the state of another backend. `BackedInv`: the state file, and the one the job
  will write, agree with the points except for the one file in hand. `ListsInv` and `CoverInv`:
  for each announced file, and each message that was not left `unread`, where the work on it
  waits, in the queue, in the running job, or nowhere because it is done. `StateIsBacked` and
  `IndexIsCurrent` speak of the moments between jobs only; the invariant is what they come to in
  the middle of one.

Model-checked only is liveness, which is out of the prover's reach (fairness, `ENABLED`):
`RunSettles`, `SteerIsDelivered`, `WaitingRequestsGoOn`, `EveryRequestEnds`, `QueuedWorkStarts`
and `CallsAreAnswered`. Every invariant and action property that a run checks is stated by a
theorem. The theorems whose assumptions are named above (about overlapping starts and calls,
clicks while connecting, and the width of the window) are false without them.

Induction over data has no theorem to cite, since the library's induction theorems take an
operator as parameter. Where the argument needs it (folds over a buffer, sums over a journal,
the window) the proofs use the well-foundedness of the naturals instead: a set of
counterexamples that is not empty has a least element, and that one is refuted by the one
before it (`LeastNumber`). The modules proved about contain no `RECURSIVE` operator.

## 5. Where the code departs from what one would expect

Besides the three findings, modelling met the following. They are described here and kept out
of the properties by the assumptions or histories named.

*Controller.* `approve_action` counts tool calls but does not compare them with
`max_tool_calls` (`agent_controller.cpp:2368`). A `need_approval` reply lets a dry run execute a
gated tool, and an approval left over by `stop()` still executes its tool (`:2374`). Stop and
restart inside a suspended tool send two requests for one run (`:1856`). Of two starts that
overlap in the MCP refresh the second takes over, and the first run's row stays `running`
(`:782`). `run_command` and `create_file` declare `requires_approval()`, but `safety_policy.cpp`
does not list them, so they run without approval; its diff limits never gate anything
(`safety_policy.cpp:45`), because the only caller passes no counts. The model takes both sets
as constants (`RequiresApproval`, `PolicyListed`).

A final write of a row that fails is only logged: the member `run_id` is cleared and the row
says `running` for ever (`:2194`; `start()` ignores the same error at `:945`). Nothing looks at
such rows again. `RowsFollowRuns` and `RunLifecycle` name them (`unrecorded`) and show that this
is all the harm.

*Dock.* Stop while MCP servers connect does nothing but disable the button; the run then
begins with no way to stop it (`agent_dock_widget.cpp:2329`, `ClicksWhileConnecting`). A queued
request whose image cannot be loaded is taken off the queue and the queue is not advanced
(`:2261`, `ImageFaults`). After a failed or stopped run the queue waits for the user
(`:2904`); `WaitingRequestsGoOn` speaks of completed runs only.

*Chat context.* With `max_tokens` set below about 900 the window is smaller than the threshold
of the rolling summary, and a compaction summary covers messages its text was not made from
(`chat_context_manager.cpp:1501`). An automatic title is overwritten by a cached empty one. A
half-written journal line makes the conversation unusable. A reload while a run is active
makes `finish_run` lose its conversation, and a crash leaves the run's file `running`.

*Providers.* A cancelled stream reports the text received so far as a success
(`AnswerIsOwnText` asks for a prefix then). `deleteLater()` is called through a null pointer
after every `cancel()` that reports back (`open_ai_compatible_provider.cpp:526`).

*Completion session.* The filtering sink keeps a raw pointer to its session
(`completion_session.cpp:207`). `cancel()` overwrites `COMPLETED` and `FAILED` with `CANCELLED`. A
callback that has passed its questions may reach the consumer after a cancellation; in the
plugin everything runs on the GUI thread, where that cannot happen.

*Sidecar.* When a request with another key resumes the reusable session, the SDK session changes
its options also for a request that leased it and has not stored it in `state.session` yet: that
one is invisible to `isSessionBusy`, and its prompt is processed under the options of the other
(`copilot-sidecar.js:188`). It takes two requests at a time; the plugin cancels the first.
`PromptMeetsItsKey` excepts it.

*Vector indexing.* A full job whose reading of the chat store fails deletes all points of the
history, uploads what it could read, and finishes as a success
(`vector_indexing_manager.cpp:974`, `:1198`): the messages are missing until a later full job
reads them. A save is kept out while a full job is pending even if that job's list of files does
not contain the file; the job then takes the file for deleted (`:1001`). A job that fails
between deleting a file's points and uploading the new ones leaves the state file claiming them
(`:1148`). A job for one file takes over the state of another backend. Points of files that were
removed while their job was cancelled stay behind.

*Elsewhere, hazards not modelled yet.* `stop_sidecar` clears the pending map without calling
the callbacks, so the controller is left to its watchdog (`copilot_provider.cpp:683`). The
session controller ignores changes of its files for 500 ms after a write of its own, those
made by another process included (`agent_dock_session_controller.cpp:301`). The ghost text
manager compares the cursor position, not the document revision, when a late completion
arrives (`ghost_text_manager.cpp:989`). Hunks are accepted and rejected in any order while the
document is edited under their anchors (`inline_diff_manager.cpp:912`). Overlapping MCP calls
return in the order of their nested loops, not of their replies (`mcp_tool_manager.cpp:559`).
A migration may be interrupted between two versions (`util/migration.cpp`).

## 6. Plan

1. *(done)* Controller, lifecycle, type correctness, first safety theorems; the sidecar's
   requests and session lock.
2. *(done)* Dock, chat context, HTTP providers, completion session, vector indexing, each
   with its faults and, where something must happen, its liveness; proofs for the session,
   the HTTP provider and the dock.
3. Further theorems. *(done)* The controller implements `RunLifecycle`, its requests, approvals
   and rows; the indexer; the sidecar; renamed titles; what summaries cover; the types and texts
   of the HTTP provider. Every invariant of the runs is proved.
4. `CopilotProvider` around the sidecar (pending map, start, exit with requests pending),
   against an abstract provider that answers each completion once, which `HttpProvider`
   implements too.
5. `McpToolManager` and the qtmcp handshake; `SessionController` (debounce and watcher).
6. `InlineDiff` (hunks and anchors), `GhostText` (debounce over `CompletionSession`),
   `Migration`, `SafetyPolicy`.

## 7. Not modelled

Wording of prompts, plans, logs and status; token accounting beyond the thresholds; the
contents of files and diffs; object lifetimes other than a reply's. Of the indexer: excludes,
hidden directories, several workspaces, chunking and batches of 24, and the search. Of the chat
context: artifacts, memory items, usage statistics, a switch of the workspace. Of the
providers: request bodies, attachments, progress events, listing models.

Components without asynchronous state (goal editor, slash commands, linked files, settings
pages, progress wording) are left out on purpose, as are the debugger's and clangd's thin
layers. About 190,000 of the repository's 251,000 lines of implementation are the Qdrant
client under `src/lib/qdrant_client/generated`, produced by a generator from an API
description: one serialiser per message and one method per endpoint, with no logic of the
program's own. The share of lines the model maps is therefore small by construction; the rest
of the *not modelled* list in `PROJECT.json` is the plan above.
