---------------------------- MODULE ChatContext -----------------------------
(***************************************************************************)
(* chat_context_manager.cpp over chat_context_store.cpp: the conversations *)
(* of a workspace on disk, the rolling summary, and the prompt rebuilt     *)
(* from them.                                                              *)
(*                                                                         *)
(* An operation runs to its end without an event loop, but it is several   *)
(* writes.  It is modelled as the sequence of states after each of them:   *)
(* a failing write stops it with an error, a crash also loses the memory,  *)
(* and an interrupted append to a journal leaves half a line, which makes  *)
(* the journal unreadable.  JSON files are replaced atomically.            *)
(***************************************************************************)
EXTENDS Naturals, SequencesExt, FiniteSetsExt

CONSTANTS
    Conversations,     \* identifiers new_context_id() may return, and
    Runs,              \*   those of runs
    NoConversation,
    NoRun,
    MessageKinds,      \* token estimate, in prompts?, by the user?
    RefreshMessages,   \* kSummaryRefreshMessageThreshold
    RefreshTokens,     \* kSummaryRefreshTokenThreshold
    ChunkMessages,     \* kSummaryChunkMaxMessages
    ChunkTokens,       \* kSummaryChunkMaxTokens
    WindowMessages,    \* budget.max_recent_messages
    WindowTokens,      \* budget.recent_message_tokens
    MaxMessages,       \* bound: messages of a conversation
    MaxSummaries,      \* bound: summaries of a conversation, when one is requested
    MaxFaults          \* bound: failed writes and crashes

ASSUME ContextAssumption ==
    /\ NoConversation \notin Conversations
    /\ NoRun \notin Runs
    /\ MessageKinds \subseteq [tokens : Nat \ {0}, prompt : BOOLEAN, user : BOOLEAN]
    /\ {RefreshMessages, RefreshTokens, ChunkMessages, ChunkTokens} \subseteq Nat \ {0}
    /\ {WindowMessages, WindowTokens, MaxMessages, MaxSummaries, MaxFaults} \subseteq Nat

Numbers == 1..MaxMessages

Titles == {"", "from first message", "by user"}

Message ==
    [sequence : Numbers,
     tokens : Nat,
     prompt : BOOLEAN]    \* include_in_prompt()

(* A summary, with the messages its text was made from.                    *)
Summary == [version : Nat, end : 0..MaxMessages, content : SUBSET Numbers]

NoSummary == [version |-> 0, end |-> 0, content |-> {}]

(* The directory of a conversation.                                        *)
Directory ==
    [exists : BOOLEAN,                \* conversation.json:
     title : Titles,
     messages : Seq(Message),         \* messages.jsonl
     summaries : Seq(Summary),        \* summaries.jsonl
     latest : Summary,                \* latest-summary.json
     torn : SUBSET {"messages", "summaries"},   \* unreadable journals
     renamed : BOOLEAN]               \* history: does the user's title stand?

EmptyDirectory ==
    [exists |-> FALSE, title |-> "", messages |-> <<>>,
     summaries |-> <<>>, latest |-> NoSummary, torn |-> {}, renamed |-> FALSE]

RunFile == [status : {"none", "running", "finished"},
            conversation : Conversations \cup {NoConversation}]

NoRunFile == [status |-> "none", conversation |-> NoConversation]

(* The manager, and what agent_controller_t keeps of a run.                *)
Manager ==
    [conversation : Conversations \cup {NoConversation},  \* the cached record:
     title : Titles,
     activeRuns : SUBSET Runs,
     run : Runs \cup {NoRun},            \* agent_controller_t::run_id
     restored : BOOLEAN,                 \* the run's messages were built from the
     prompt : SUBSET Numbers,            \*   store, and tell of these messages
     compacting : BOOLEAN,               \* the reply that is out will be stored as
     seen : SUBSET Numbers]              \*   a summary: what its request tells of

AtRest ==
    [conversation |-> NoConversation, title |-> "",
     activeRuns |-> {}, run |-> NoRun, restored |-> FALSE, prompt |-> {},
     compacting |-> FALSE, seen |-> {}]

VARIABLES
    disk,      \* the directory of each conversation
    runs,      \* the file of each run
    manager,
    faults     \* bound: failed writes and crashes so far

contextVars == <<disk, runs, manager, faults>>

ContextTypeOK ==
    /\ disk \in [Conversations -> Directory]
    /\ runs \in [Runs -> RunFile]
    /\ manager \in Manager
    /\ faults \in 0..MaxFaults

ContextInit ==
    /\ disk = [c \in Conversations |-> EmptyDirectory]
    /\ runs = [r \in Runs |-> NoRunFile]
    /\ manager = AtRest
    /\ faults = 0

-----------------------------------------------------------------------------
(* An operation on the active conversation.  A stage is the directory and  *)
(* the manager after a write, and the journal that write appended to.      *)

NoJournal == "none"

Stage(d, m, journal) == [dir |-> d, manager |-> m, journal |-> journal]

Failures(stages) ==
    {k \in 1..(Len(stages) - 1) : faults < MaxFaults}

(* All the writes, or those before a failing one.                          *)
Perform(c, stages) ==
    \/ /\ disk' = [disk EXCEPT ![c] = Last(stages).dir]
       /\ manager' = Last(stages).manager
       /\ UNCHANGED faults
    \/ \E k \in Failures(stages) :
         /\ faults' = faults + 1
         /\ \E torn \in SUBSET ({stages[k + 1].journal} \ {NoJournal}) :
               disk' = [disk EXCEPT ![c] = [stages[k].dir EXCEPT !.torn = @ \cup torn]]
         /\ manager' \in {stages[k].manager, AtRest}

(* Mutant: the next number is counted twice.                               *)
LatestSequenceSkips(d) ==
    Max({0} \cup {d.messages[i].sequence + 1 : i \in DOMAIN d.messages})

LatestSequence(d) == Max({0} \cup {d.messages[i].sequence : i \in DOMAIN d.messages})

(* latest_summary: the state file, or else the journal.                    *)
LatestSummary(d) ==
    IF d.latest # NoSummary \/ d.summaries = <<>> THEN d.latest
    ELSE d.summaries[Min({i \in DOMAIN d.summaries :
             \A j \in DOMAIN d.summaries : d.summaries[j].version <= d.summaries[i].version})]

SummaryReadable(d) == d.latest # NoSummary \/ "summaries" \notin d.torn

(* Mutant: messages_range is taken to include its lower bound.             *)
UnsummarizedOffByOne(d) ==
    {i \in DOMAIN d.messages : d.messages[i].sequence > LatestSummary(d).end + 1}

(* messages_range: what the latest summary does not replace, by its place  *)
(* in the journal.                                                         *)
Unsummarized(d) ==
    {i \in DOMAIN d.messages : d.messages[i].sequence > LatestSummary(d).end}

(* The tokens of those among the first n messages.                         *)
Tokens(d) ==
    LET rest == Unsummarized(d)
        sum[n \in 0..Len(d.messages)] ==
            IF n = 0 THEN 0
            ELSE IF n \in rest THEN sum[n - 1] + d.messages[n].tokens
            ELSE sum[n - 1]
    IN  sum

(* The next messages to be summarised: at least one.                       *)
Chunk(d) ==
    LET upTo(n) == {i \in Unsummarized(d) : i <= n}
        fits == {n \in Unsummarized(d) :
                    /\ Cardinality(upTo(n)) <= ChunkMessages
                    /\ upTo(n) = {n} \/ Tokens(d)[n] <= ChunkTokens}
    IN  upTo(Max(fits))

(* select_recent_messages: newest first, what is too large is skipped.     *)
RecentMessages(d) ==
    LET count == Len(d.messages)
        recent == Min({count, 2 * WindowMessages})
        fits(m, s) == s.used + m.tokens <= WindowTokens \/ s.selected = {}
        take(s, m) ==
            IF /\ m.sequence > LatestSummary(d).end
               /\ m.prompt
               /\ Cardinality(s.selected) < WindowMessages
               /\ fits(m, s)
            THEN [selected |-> s.selected \cup {m.sequence}, used |-> s.used + m.tokens]
            ELSE s
        newest[n \in 0..recent] ==
            IF n = 0 THEN [selected |-> {}, used |-> 0]
            ELSE take(newest[n - 1], d.messages[count - n + 1])
    IN  newest[recent].selected

PromptReadable(d) == "messages" \notin d.torn /\ SummaryReadable(d)

(* What a prompt built now tells of the conversation.                      *)
Prompt(d) == LatestSummary(d).content \cup RecentMessages(d)

(* The store's ensure_conversation: the cached record replaces the state   *)
(* file, and is read back.                                                 *)
Ensure(s) ==
    Stage([s.dir EXCEPT !.exists = TRUE, !.title = s.manager.title], s.manager, NoJournal)

(* add_summary appends to the journal, then replaces the state file.       *)
AddSummary(s, summary) ==
    LET journaled == [s.dir EXCEPT !.summaries = Append(@, summary)]
    IN  <<Stage(journaled, s.manager, "summaries"),
          Stage([journaled EXCEPT !.latest = summary], s.manager, NoJournal)>>

RefreshDue(d) ==
    \/ Cardinality(Unsummarized(d)) >= RefreshMessages
    \/ Tokens(d)[Len(d.messages)] >= RefreshTokens

(* compose_next_summary carries the previous text forward.                 *)
NextSummary(d) ==
    [version |-> LatestSummary(d).version + 1,
     end |-> d.messages[Max(Chunk(d))].sequence,
     content |-> LatestSummary(d).content \cup {d.messages[i].sequence : i \in Chunk(d)}]

(* maybe_refresh_summary, at the end of every append.                      *)
RefreshSummary(s) ==
    LET ensured == Ensure(s)
    IN  <<ensured>> \o (IF SummaryReadable(s.dir) /\ RefreshDue(s.dir)
                        THEN AddSummary(ensured, NextSummary(s.dir)) ELSE <<>>)

(* What is stored as message n has been added to the run's messages first, *)
(* and what is out will have been sent with them.                          *)
Tell(m, n) ==
    [m EXCEPT !.prompt = IF m.restored THEN @ \cup {n} ELSE @,
              !.seen = IF m.compacting THEN @ \cup {n} ELSE @]

(* The store's append_message; a first message of the user names the       *)
(* conversation.                                                           *)
StoreMessage(s, kind) ==
    LET n == LatestSequence(s.dir) + 1
        message == [sequence |-> n, tokens |-> kind.tokens, prompt |-> kind.prompt]
        told == IF kind.prompt THEN Tell(s.manager, n) ELSE s.manager
        journaled == Stage([s.dir EXCEPT !.messages = Append(@, message)],
                           told, "messages")
        title == IF journaled.dir.title = "" /\ kind.user THEN "from first message"
                 ELSE journaled.dir.title
        stored == Stage([journaled.dir EXCEPT !.title = title], journaled.manager, NoJournal)
    IN  <<journaled, stored>> \o RefreshSummary(stored)

-----------------------------------------------------------------------------
(* Operations.                                                             *)

Active == manager.conversation

Directly(c, m) == Stage(disk[c], m, NoJournal)

(* set_active_workspace reloads the cached record, and forgets the runs.   *)
SetActiveWorkspace(c) ==
    [manager EXCEPT !.conversation = c, !.title = disk[c].title, !.activeRuns = {}]

StartNewConversation ==
    /\ manager.run = NoRun
    /\ \E c \in Conversations :
        /\ disk[c] = EmptyDirectory
        /\ LET s == Directly(c, [manager EXCEPT !.conversation = c, !.title = ""])
           IN  Perform(c, <<s, Ensure(s)>>)
    /\ UNCHANGED runs

(* restore_chat, at startup, when the user selects a conversation, and,    *)
(* also during a run, when session files have changed.                     *)
RestoreChat ==
    /\ \E c \in Conversations :
        /\ disk[c].exists
        /\ manager.run = NoRun \/ c = Active
        /\ LET s == Directly(c, SetActiveWorkspace(c)) IN Perform(c, <<s, Ensure(s)>>)
    /\ UNCHANGED runs

(* Mutant: the cached record stays.                                        *)
RenameConversationOnDisk ==
    \E c \in Conversations :
        /\ disk[c].exists
        /\ LET renamed == [disk[c] EXCEPT !.title = "by user", !.renamed = TRUE]
           IN  Perform(c, <<Directly(c, manager), Stage(renamed, manager, NoJournal)>>)
        /\ UNCHANGED runs

RenameConversation ==
    \E c \in Conversations :
        /\ disk[c].exists
        /\ LET renamed == [disk[c] EXCEPT !.title = "by user", !.renamed = TRUE]
               cached == IF c # Active THEN manager
                         ELSE [manager EXCEPT !.title = "by user"]
           IN  Perform(c, <<Directly(c, manager), Stage(renamed, cached, NoJournal)>>)
        /\ UNCHANGED runs

(* delete_conversation: the files of its runs go first, one by one.        *)
DeleteConversation ==
    /\ manager.run = NoRun
    /\ \E c \in Conversations :
        /\ disk[c].exists
        /\ LET gone == IF c # Active THEN manager
                       ELSE [manager EXCEPT !.conversation = NoConversation, !.title = ""]
           IN  Perform(c, <<Directly(c, manager), Stage(EmptyDirectory, gone, NoJournal)>>)
        /\ \E removed \in SUBSET {r \in Runs : runs[r].conversation = c} :
            /\ ~disk'[c].exists => removed = {r \in Runs : runs[r].conversation = c}
            /\ runs' = [r \in Runs |-> IF r \in removed THEN NoRunFile ELSE runs[r]]

(* agent_controller_t::start with begin_run.  An ordinary run then appends *)
(* its goal, and RestoreContext builds its messages.                       *)
BeginRun ==
    /\ manager.run = NoRun
    /\ Active # NoConversation
    /\ \E r \in Runs :
        /\ runs[r].status = "none"
        /\ LET s == Directly(Active, SetActiveWorkspace(Active))
               begun == [s.manager EXCEPT !.activeRuns = {r}, !.run = r]
           IN  /\ Perform(Active, <<s, Ensure(s), [Ensure(s) EXCEPT !.manager = begun]>>)
               /\ runs' = IF manager'.run = r
                          THEN [runs EXCEPT ![r] = [status |-> "running",
                                                    conversation |-> Active]]
                          ELSE runs

(* The rest of start, with build_context_envelope.  A run whose goal or    *)
(* prompt fails is finished instead.                                       *)
RestoreContext ==
    /\ manager.run # NoRun
    /\ ~manager.restored
    /\ PromptReadable(disk[Active])
    /\ manager' = [manager EXCEPT !.restored = TRUE, !.prompt = Prompt(disk[Active])]
    /\ UNCHANGED <<disk, runs, faults>>

(* append_user_message and append_assistant_message.  During a compaction  *)
(* these are a superseded reply and the follow-up messages of the user,    *)
(* which apply_soft_steer_if_pending appends.  The next request, whose     *)
(* reply is then taken for the summary, is made from the run's messages.   *)
AppendMessage ==
    /\ Active # NoConversation
    /\ Len(disk[Active].messages) < MaxMessages
    /\ \E kind \in MessageKinds :
        LET next == IF manager.compacting THEN [manager EXCEPT !.seen = manager.prompt]
                    ELSE manager
            here == Directly(Active, next)
            s == Ensure(here)
            stored == IF "messages" \in s.dir.torn THEN <<>>
                      ELSE StoreMessage(s, kind)
        IN  Perform(Active, <<here, s>> \o stored)
    /\ UNCHANGED runs

(* A /compact run or an automatic compaction within a run asks the model   *)
(* for a summary of the prompt built here, always in agent mode.           *)
RequestCompaction ==
    /\ manager.restored
    /\ ~manager.compacting
    /\ PromptReadable(disk[Active])
    /\ Len(disk[Active].summaries) + MaxMessages - Len(disk[Active].messages) < MaxSummaries
    /\ manager' = [manager EXCEPT !.compacting = TRUE, !.seen = Prompt(disk[Active])]
    /\ UNCHANGED <<disk, runs, faults>>

(* What the model wrote is made from what it saw.                          *)
CompactionSummary(d, seen) ==
    [version |-> LatestSummary(d).version + 1,
     end |-> LatestSequence(d),
     content |-> seen]

(* rebuild_messages_from_persistent_context.                               *)
Rebuild(s) == Stage(s.dir, [s.manager EXCEPT !.prompt = Prompt(s.dir)], NoJournal)

(* The reply, with append_compaction_summary.  The run then goes on with   *)
(* messages built anew, or ends.  MaxSummaries leaves room for one refresh *)
(* per message.                                                            *)
AppendCompactionSummary ==
    /\ manager.compacting
    /\ LET here == Directly(Active, [manager EXCEPT !.compacting = FALSE, !.seen = {}])
           added == AddSummary(Ensure(here), CompactionSummary(disk[Active], manager.seen))
       IN  Perform(Active, <<here, Ensure(here)>> \o
                           (IF PromptReadable(disk[Active])
                            THEN added \o <<Rebuild(Last(added))>> ELSE <<>>))
    /\ UNCHANGED runs

(* finish_run, also when the context of the run could not be built.  The   *)
(* controller only reports an error, and drops the run: if the store does  *)
(* not open the manager keeps its record, and without the write of         *)
(* update_run the file says "running" for good.                            *)
FinishRun ==
    /\ manager.run # NoRun
    /\ LET over == [manager EXCEPT !.run = NoRun, !.restored = FALSE, !.prompt = {},
                                   !.compacting = FALSE, !.seen = {}]
           dropped == [over EXCEPT !.activeRuns = @ \ {manager.run}]
           finished == [status |-> "finished",
                        conversation |-> IF manager.run \in manager.activeRuns THEN Active
                                         ELSE NoConversation]
       IN  \/ /\ manager' = dropped
              /\ runs' = [runs EXCEPT ![manager.run] = finished]
              /\ UNCHANGED faults
           \/ /\ faults < MaxFaults
              /\ faults' = faults + 1
              /\ manager' \in {over, dropped}
              /\ UNCHANGED runs
    /\ UNCHANGED disk

(* The program ends or crashes between two operations.                     *)
Quit ==
    /\ manager # AtRest
    /\ manager' = AtRest
    /\ UNCHANGED <<disk, runs, faults>>

ContextNext ==
    \/ StartNewConversation
    \/ RestoreChat
    \/ RenameConversation
    \/ DeleteConversation
    \/ BeginRun
    \/ RestoreContext
    \/ AppendMessage
    \/ RequestCompaction
    \/ AppendCompactionSummary
    \/ FinishRun
    \/ Quit

ContextSpec == ContextInit /\ [][ContextNext]_contextVars
=============================================================================
