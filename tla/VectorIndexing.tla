--------------------------- MODULE VectorIndexing ----------------------------
(***************************************************************************)
(* vector_indexing_manager.cpp: one workspace is indexed by jobs that run  *)
(* one after another on a worker thread, while the GUI thread goes on      *)
(* saving files, appending messages and changing the settings.             *)
(*                                                                         *)
(* The backend holds the points; vector-index.json says which version of   *)
(* each file they were made from, and of which backend that is true.  A    *)
(* version stands for the modification time and size of a file.            *)
(***************************************************************************)
EXTENDS Naturals, FiniteSets, SequencesExt

CONSTANTS
    Files,
    Backends,       \* a URL and a collection of the settings
    Disabled,       \* the setting without vector search
    Threads,        \* vector_search_max_indexing_threads
    MaxVersion,     \* bound: versions of a file
    MaxMessages,    \* bound: chat messages
    MaxRefreshes,   \* bound: settings applied
    MaxFaults       \* bound: requests to the backend and readings that fail

ASSUME IndexingAssumption ==
    /\ IsFiniteSet(Files)
    /\ Disabled \notin Backends
    /\ Threads \in Nat \ {0}
    /\ {MaxVersion, MaxMessages, MaxRefreshes, MaxFaults} \subseteq Nat

Versions == 0..MaxVersion   \* 0: none

Messages == 1..MaxMessages

NoMessage == 0

Job == [kind : {"full", "file", "history"},
        files : SUBSET Files,                     \* project_files, or the file
        message : Messages \cup {NoMessage}]

Keys == [root : BOOLEAN, files : SUBSET Files, messages : SUBSET Messages]

NoKeys == [root |-> FALSE, files |-> {}, messages |-> {}]

(* A job on the worker thread.                                             *)
Steps == {"load", "reset", "delete", "index", "messages", "stat", "upload", "write", "over"}

Running ==
    [job : Job,
     at : Steps,
     backend : Backends,                \* settings_snapshot, and generation
     generation : 0..MaxRefreshes,      \*   when the job was started
     state : [Files -> Versions],       \* index_state.files
     toDelete : SUBSET Files,           \* files_to_delete, and
     toIndex : SUBSET Files,            \*   files_to_index, still to be done
     history : SUBSET Messages]         \* history_messages, still to be done

Idle == [at |-> "idle"]

(* A file being prepared: its state is taken, then its text is read.       *)
Task == [at : {"none", "taken", "read"}, state : Versions, text : Versions]

NoTask == [at |-> "none", state |-> 0, text |-> 0]

VARIABLES
    version, present,     \* the files on disk
    messages,             \* number of messages in the chat store
    settings,
    generation,           \* cancellation_generation
    pending, keys,        \* pending_jobs and the keys that keep out duplicates
    current,              \* the job on the worker thread
    tasks,                \* the files its preparation pool works on
    index,                \* vector-index.json
    points,               \* of each backend: the version a file's are made from,
    historyPoints,        \*   and the messages it has
    faults,               \* bound: failed requests and readings so far
    announced,            \* history: files the manager was told of as they are
    spoiled,              \* history: backends a job failed on since it was built
    dropped,              \* history: files that exist, whose points were deleted
                          \*   while vector-index.json lists them
    unread                \* history: messages the last full job could not read,
                          \*   and no job has indexed since

guiVars == <<version, present, messages, settings, generation, announced>>
backendVars == <<points, historyPoints, faults, spoiled, dropped, unread>>
indexingVars == <<guiVars, pending, keys, current, tasks, index, backendVars>>

Nothing == [f \in Files |-> 0]

(* Keys keep the queue short: no file and no message is queued twice.      *)
IndexingTypeOK ==
    /\ version \in [Files -> Versions] /\ present \subseteq Files
    /\ messages \in 0..MaxMessages
    /\ settings \in Backends \cup {Disabled}
    /\ generation \in 0..MaxRefreshes
    /\ pending \in Seq(Job) /\ keys \in Keys
    /\ Len(pending) <= 1 + Cardinality(Files) + MaxMessages
    /\ current \in Running \cup {Idle}
    /\ tasks \in [Files -> Task]
    /\ Cardinality({f \in Files : tasks[f].at # "none"}) <= Threads
    /\ index \in [backend : Backends \cup {Disabled}, files : [Files -> Versions]]
    /\ points \in [Backends -> [Files -> Versions]]
    /\ historyPoints \in [Backends -> SUBSET Messages]
    /\ faults \in 0..MaxFaults
    /\ announced \subseteq Files /\ spoiled \subseteq Backends /\ dropped \subseteq Files
    /\ unread \subseteq Messages

IndexingInit ==
    /\ version = Nothing /\ present = {} /\ messages = 0
    /\ settings = Disabled /\ generation = 0
    /\ pending = <<>> /\ keys = NoKeys
    /\ current = Idle /\ tasks = [f \in Files |-> NoTask]
    /\ index = [backend |-> Disabled, files |-> Nothing]
    /\ points = [b \in Backends |-> Nothing]
    /\ historyPoints = [b \in Backends |-> {}]
    /\ faults = 0 /\ announced = {} /\ spoiled = {} /\ dropped = {} /\ unread = {}

-----------------------------------------------------------------------------
(* The queue, on the GUI thread.                                           *)

Released(ks, j) ==
    CASE j.kind = "full" -> [ks EXCEPT !.root = FALSE]
      [] j.kind = "file" -> [ks EXCEPT !.files = @ \ j.files]
      [] j.kind = "history" -> [ks EXCEPT !.messages = @ \ {j.message}]

Started(j) ==
    [job |-> j, at |-> "load", backend |-> settings', generation |-> generation',
     state |-> Nothing, toDelete |-> {}, toIndex |-> {}, history |-> {}]

(* Mutant: the keys are released when the job is over.                     *)
StartNextJobKeepsKeys(queue, ks, running) ==
    LET done == IF running = Idle /\ current # Idle THEN Released(ks, current.job) ELSE ks
    IN  IF running # Idle \/ queue = <<>>
        THEN pending' = queue /\ keys' = done /\ current' = running
        ELSE pending' = Tail(queue) /\ keys' = done /\ current' = Started(Head(queue))

(* start_next_job takes the first job, unless one is running.              *)
StartNextJob(queue, ks, running) ==
    IF running # Idle \/ queue = <<>>
    THEN pending' = queue /\ keys' = ks /\ current' = running
    ELSE /\ pending' = Tail(queue)
         /\ keys' = Released(ks, Head(queue))
         /\ current' = Started(Head(queue))

FullJob(files) == [kind |-> "full", files |-> files, message |-> NoMessage]

FileJob(f) == [kind |-> "file", files |-> {f}, message |-> NoMessage]

HistoryJob(m) == [kind |-> "history", files |-> {}, message |-> m]

EnqueueFullWorkspaceJob(queue, ks) ==
    IF settings' = Disabled \/ ks.root
    THEN StartNextJob(queue, ks, current)
    ELSE StartNextJob(Append(queue, FullJob(present)), [ks EXCEPT !.root = TRUE], current)

(* Mutant: duplicates are not kept out.                                    *)
EnqueueFileJobTwice(f) ==
    IF settings = Disabled \/ keys.root
    THEN UNCHANGED <<pending, keys, current>>
    ELSE StartNextJob(Append(pending, FileJob(f)), [keys EXCEPT !.files = @ \cup {f}], current)

(* A full job that is pending will look at every file and message.         *)
EnqueueFileJob(f) ==
    IF settings = Disabled \/ keys.root \/ f \in keys.files
    THEN UNCHANGED <<pending, keys, current>>
    ELSE StartNextJob(Append(pending, FileJob(f)), [keys EXCEPT !.files = @ \cup {f}], current)

EnqueueHistoryJob(m) ==
    IF settings = Disabled \/ keys.root \/ m \in keys.messages
    THEN UNCHANGED <<pending, keys, current>>
    ELSE StartNextJob(Append(pending, HistoryJob(m)), [keys EXCEPT !.messages = @ \cup {m}], current)

(* Saving a file that a pending full job does not list tells nobody.       *)
WillBeSeen(f) ==
    /\ settings # Disabled
    /\ keys.root => \E i \in DOMAIN pending : pending[i].kind = "full" /\ f \in pending[i].files

DocumentSaved ==
    \E f \in Files :
        /\ version[f] < MaxVersion
        /\ version' = [version EXCEPT ![f] = @ + 1]
        /\ present' = present \cup {f}
        /\ announced' = IF WillBeSeen(f) THEN announced \cup {f} ELSE announced \ {f}
        /\ UNCHANGED <<messages, settings, generation, tasks, index, backendVars>>
        /\ EnqueueFileJob(f)

(* Files also change and vanish without a signal.                          *)
FileChangesOutside ==
    \E f \in present :
        /\ \/ version[f] < MaxVersion /\ version' = [version EXCEPT ![f] = @ + 1]
              /\ UNCHANGED present
           \/ present' = present \ {f} /\ UNCHANGED version
        /\ announced' = announced \ {f}
        /\ UNCHANGED <<messages, settings, generation, pending, keys, current, tasks,
                       index, backendVars>>

MessageAppended ==
    /\ messages < MaxMessages
    /\ messages' = messages + 1
    /\ UNCHANGED <<version, present, settings, generation, tasks, index, announced,
                   backendVars>>
    /\ EnqueueHistoryJob(messages + 1)

(* A project is opened or becomes the startup project.                     *)
ProjectAdded ==
    /\ settings # Disabled
    /\ announced' = IF keys.root THEN announced ELSE announced \cup present
    /\ UNCHANGED <<version, present, messages, settings, generation, tasks, index,
                   backendVars>>
    /\ EnqueueFullWorkspaceJob(pending, keys)

(* refresh_from_settings: what is queued is dropped, what runs is          *)
(* cancelled, everything is looked at anew.                                *)
RefreshFromSettings ==
    /\ generation < MaxRefreshes
    /\ generation' = generation + 1
    /\ settings' \in Backends \cup {Disabled}
    /\ announced' = IF settings' = Disabled THEN {} ELSE present
    /\ UNCHANGED <<version, present, messages, tasks, index, backendVars>>
    /\ EnqueueFullWorkspaceJob(<<>>, NoKeys)

(* Mutant: the next job is started only after a job that was not cancelled.*)
HandleJobFinishedOnlyDone ==
    /\ current # Idle /\ current.at = "over"
    /\ tasks' = [f \in Files |-> NoTask]
    /\ UNCHANGED <<guiVars, index, backendVars>>
    /\ IF current.generation = generation THEN StartNextJob(pending, keys, Idle)
       ELSE current' = Idle /\ UNCHANGED <<pending, keys>>

(* handle_job_finished; the preparation pool has been waited for.          *)
HandleJobFinished ==
    /\ current # Idle /\ current.at = "over"
    /\ tasks' = [f \in Files |-> NoTask]
    /\ UNCHANGED <<guiVars, index, backendVars>>
    /\ StartNextJob(pending, keys, Idle)

-----------------------------------------------------------------------------
(* The worker thread.                                                      *)

At(kind, step) == current # Idle /\ current.job.kind = kind /\ current.at = step

GoTo(step) == current' = [current EXCEPT !.at = step]

(* What a step of the worker leaves alone, beside the points.              *)
WorkerOnly == UNCHANGED <<guiVars, pending, keys>>

(* The generation is a plain int that the GUI thread writes: a worker may  *)
(* notice the new value or still see the old one.                          *)
Cancelled ==
    /\ current.generation # generation
    /\ GoTo("over")
    /\ WorkerOnly
    /\ UNCHANGED <<tasks, index, backendVars>>

(* A request to the backend fails, or a file cannot be written or read:    *)
(* the job ends as it is.                                                  *)
Fails ==
    /\ spoiled' = spoiled \cup {current.backend}
    /\ GoTo("over")
    /\ WorkerOnly
    /\ UNCHANGED <<tasks, index, dropped, unread>>

RequestFails ==
    /\ faults < MaxFaults
    /\ faults' = faults + 1
    /\ Fails
    /\ UNCHANGED <<points, historyPoints>>

(* run_full_workspace_job up to the first request that changes the backend.*)
(* Messages are left out when the chat store cannot be opened, or a        *)
(* conversation cannot be read: a warning, after which the job goes on.    *)
LoadWorkspace ==
    /\ At("full", "load")
    /\ \/ RequestFails
       \/ LET reset == index.backend # current.backend
              listed == current.job.files
              changed == {f \in listed \cap present : index.files[f] # version[f]}
          IN  \E read \in SUBSET (1..messages) :
                /\ \/ read = 1..messages /\ UNCHANGED faults
                   \/ faults < MaxFaults /\ faults' = faults + 1
                /\ current' = [current EXCEPT
                      !.at = IF reset THEN "reset" ELSE "delete",
                      !.state = IF reset THEN Nothing ELSE index.files,
                      !.toDelete = IF reset THEN {}
                                   ELSE {f \in Files \ listed : index.files[f] > 0},
                      !.toIndex = IF reset THEN listed ELSE changed,
                      !.history = read]
                /\ unread' = (1..messages) \ read
                /\ WorkerOnly
                /\ UNCHANGED <<tasks, index, points, historyPoints, spoiled, dropped>>

(* The files of another backend's state: all points go first.              *)
ResetFiles ==
    /\ At("full", "reset")
    /\ \/ RequestFails
       \/ /\ points' = [points EXCEPT ![current.backend] = Nothing]
          /\ GoTo("delete")
          /\ WorkerOnly
          /\ UNCHANGED <<tasks, index, historyPoints, faults, spoiled, dropped, unread>>

DeleteStale ==
    /\ At("full", "delete")
    /\ \/ current.toDelete # {} /\ (Cancelled \/ RequestFails)
       \/ \E f \in current.toDelete :
            /\ points' = [points EXCEPT ![current.backend][f] = 0]
            /\ current' = [current EXCEPT !.state[f] = 0, !.toDelete = @ \ {f}]
            /\ dropped' = dropped \cup ({f} \cap present)
            /\ WorkerOnly
            /\ UNCHANGED <<tasks, index, historyPoints, faults, spoiled, unread>>
       \/ /\ current.toDelete = {}
          /\ GoTo("index")
          /\ WorkerOnly
          /\ UNCHANGED <<tasks, index, backendVars>>

(* prepare_file, in the pool: the state of the file is taken from the      *)
(* QFileInfo filled before the text is read.                               *)
Preparing == {f \in Files : tasks[f].at # "none"}

TakeState ==
    /\ At("full", "index")
    /\ Cardinality(Preparing) < Threads
    /\ \E f \in current.toIndex \ Preparing :
        tasks' = [tasks EXCEPT ![f] =
                    [at |-> "taken", state |-> IF f \in present THEN version[f] ELSE 0, text |-> 0]]
    /\ WorkerOnly
    /\ UNCHANGED <<current, index, backendVars>>

(* Mutant: the state of the file is taken after its text was read.         *)
ReadTextFirst ==
    /\ At("full", "index")
    /\ \E f \in Files :
        /\ tasks[f].at = "taken"
        /\ tasks' = [tasks EXCEPT ![f] =
                       [at |-> "read", state |-> IF f \in present THEN version[f] ELSE 0,
                        text |-> @.state]]
    /\ WorkerOnly
    /\ UNCHANGED <<current, index, backendVars>>

ReadText ==
    /\ At("full", "index")
    /\ \E f \in Files :
        /\ tasks[f].at = "taken"
        /\ tasks' = [tasks EXCEPT ![f].at = "read",
                                  ![f].text = IF f \in present THEN version[f] ELSE 0]
    /\ WorkerOnly
    /\ UNCHANGED <<current, index, backendVars>>

(* A prepared file replaces its points, one that could not be read only    *)
(* leaves the state.                                                       *)
UploadFile ==
    /\ At("full", "index")
    /\ \/ \E f \in Files :
            /\ tasks[f].at = "read"
            /\ \/ Cancelled
               \/ LET indexable == tasks[f].state > 0 /\ tasks[f].text > 0
                  IN  \/ /\ indexable
                         /\ faults < MaxFaults
                         /\ faults' = faults + 1
                         /\ \/ UNCHANGED points
                            \/ points' = [points EXCEPT ![current.backend][f] = 0]
                         /\ Fails
                         /\ UNCHANGED historyPoints
                      \/ /\ points' = IF indexable
                                      THEN [points EXCEPT ![current.backend][f] = tasks[f].text]
                                      ELSE points
                         /\ current' = [current EXCEPT
                                !.state[f] = IF indexable THEN tasks[f].state ELSE 0,
                                !.toIndex = @ \ {f}]
                         /\ tasks' = [tasks EXCEPT ![f] = NoTask]
                         /\ WorkerOnly
                         /\ UNCHANGED <<index, historyPoints, faults, spoiled, dropped, unread>>
       \/ Preparing # {} /\ Cancelled

(* The messages are all deleted, then uploaded one by one.                 *)
DeleteHistory ==
    /\ At("full", "index")
    /\ current.toIndex = {}
    /\ \/ RequestFails
       \/ /\ historyPoints' = [historyPoints EXCEPT ![current.backend] = {}]
          /\ GoTo("messages")
          /\ WorkerOnly
          /\ UNCHANGED <<tasks, index, points, faults, spoiled, dropped, unread>>

UploadMessage ==
    /\ At("full", "messages")
    /\ \/ current.history # {} /\ (Cancelled \/ RequestFails)
       \/ \E m \in current.history :
            /\ historyPoints' = [historyPoints EXCEPT ![current.backend] = @ \cup {m}]
            /\ current' = [current EXCEPT !.history = @ \ {m}]
            /\ unread' = unread \ {m}
            /\ WorkerOnly
            /\ UNCHANGED <<tasks, index, points, faults, spoiled, dropped>>
       \/ current.history = {} /\ GoTo("write") /\ WorkerOnly
          /\ UNCHANGED <<tasks, index, backendVars>>

(* write_index_state.  A full job that found another backend's state has   *)
(* built everything anew.                                                  *)
WriteIndexState ==
    /\ current # Idle /\ current.at = "write"
    /\ \/ RequestFails
       \/ /\ index' = [backend |-> current.backend, files |-> current.state]
          /\ spoiled' = IF current.job.kind = "full" /\ index.backend # current.backend
                        THEN spoiled \ {current.backend} ELSE spoiled
          /\ dropped' = {f \in dropped : current.state[f] > 0}
          /\ GoTo("over")
          /\ WorkerOnly
          /\ UNCHANGED <<tasks, points, historyPoints, faults, unread>>

TheFile == CHOOSE f \in current.job.files : TRUE

(* run_file_job, which looks at no generation: the old points go first,    *)
(* and the state is that on disk, whatever backend it speaks of.           *)
DeleteFilePoints ==
    /\ At("file", "load")
    /\ \/ RequestFails
       \/ /\ points' = [points EXCEPT ![current.backend][TheFile] = 0]
          /\ current' = [current EXCEPT !.at = "stat", !.state = index.files]
          /\ WorkerOnly
          /\ UNCHANGED <<tasks, index, historyPoints, faults, spoiled, dropped, unread>>

TakeFileState ==
    /\ At("file", "stat")
    /\ current' = [current EXCEPT
           !.state[TheFile] = IF TheFile \in present THEN version[TheFile] ELSE 0,
           !.at = IF TheFile \in present THEN "upload" ELSE "write"]
    /\ WorkerOnly
    /\ UNCHANGED <<tasks, index, backendVars>>

UploadFileText ==
    /\ At("file", "upload")
    /\ \/ RequestFails
       \/ TheFile \notin present /\ Fails /\ UNCHANGED <<points, historyPoints, faults>>
       \/ /\ TheFile \in present
          /\ points' = [points EXCEPT ![current.backend][TheFile] = version[TheFile]]
          /\ GoTo("write")
          /\ WorkerOnly
          /\ UNCHANGED <<tasks, index, historyPoints, faults, spoiled, dropped, unread>>

(* run_history_job: the old points of the message go first.                *)
IndexMessage ==
    /\ At("history", "load")
    /\ LET m == current.job.message
       IN  \/ /\ faults < MaxFaults
              /\ faults' = faults + 1
              /\ historyPoints' \in {historyPoints,
                                     [historyPoints EXCEPT ![current.backend] = @ \ {m}]}
              /\ Fails
              /\ UNCHANGED points
           \/ /\ historyPoints' = [historyPoints EXCEPT ![current.backend] = @ \cup {m}]
              /\ unread' = unread \ {m}
              /\ GoTo("over")
              /\ WorkerOnly
              /\ UNCHANGED <<tasks, index, points, faults, spoiled, dropped>>

WorkerStep ==
    \/ LoadWorkspace
    \/ ResetFiles
    \/ DeleteStale
    \/ TakeState
    \/ ReadText
    \/ UploadFile
    \/ DeleteHistory
    \/ UploadMessage
    \/ WriteIndexState
    \/ DeleteFilePoints
    \/ TakeFileState
    \/ UploadFileText
    \/ IndexMessage

IndexingNext ==
    \/ DocumentSaved
    \/ FileChangesOutside
    \/ MessageAppended
    \/ ProjectAdded
    \/ RefreshFromSettings
    \/ HandleJobFinished
    \/ WorkerStep

IndexingSpec == IndexingInit /\ [][IndexingNext]_indexingVars

(* The worker thread runs, and its watcher is heard.                       *)
IndexingFairSpec ==
    IndexingSpec /\ WF_indexingVars(WorkerStep) /\ WF_indexingVars(HandleJobFinished)
=============================================================================
