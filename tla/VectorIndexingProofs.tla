------------------------ MODULE VectorIndexingProofs -------------------------
(***************************************************************************)
(* What the vector index is worth, for any number of files, messages,      *)
(* backends, threads and changes of the settings.                          *)
(*                                                                         *)
(* StateIsBacked says what holds between jobs, so the invariant has to say *)
(* how far each job has got: which files the state it will write lists     *)
(* rightly, and that a job of one file never writes the state of another   *)
(* backend as that of its own (PassInv: a full job goes ahead of it).      *)
(* IndexIsCurrent needs of every file that was announced where the work on *)
(* it waits: in the queue, in the running job, or nowhere because it is    *)
(* done (FileCovered); and of every message (MessageCovered).              *)
(***************************************************************************)
EXTENDS VectorIndexingProperties, FiniteSetTheorems, TLAPS

IsFull == current.job.kind = "full"

Busy == current # Idle /\ current.at # "over"

UpToDate == current.generation = generation

(* A full job that no change of the settings has cancelled.                *)
InPass == Busy /\ IsFull /\ UpToDate

(* A full job that found the state of another backend.                     *)
Rebuilt == IsFull /\ index.backend # current.backend

-----------------------------------------------------------------------------
(* The inductive invariant.                                                *)

(* The type invariant, but for the length of the queue.                    *)
Shape ==
    /\ version \in [Files -> Versions] /\ present \subseteq Files
    /\ messages \in 0..MaxMessages
    /\ settings \in Backends \cup {Disabled}
    /\ generation \in 0..MaxRefreshes
    /\ pending \in Seq(Job) /\ keys \in Keys
    /\ current \in Running \cup {Idle}
    /\ tasks \in [Files -> Task]
    /\ Cardinality({f \in Files : tasks[f].at # "none"}) <= Threads
    /\ index \in [backend : Backends \cup {Disabled}, files : [Files -> Versions]]
    /\ points \in [Backends -> [Files -> Versions]]
    /\ historyPoints \in [Backends -> SUBSET Messages]
    /\ faults \in 0..MaxFaults
    /\ announced \subseteq Files /\ spoiled \subseteq Backends /\ dropped \subseteq Files
    /\ unread \subseteq Messages

(* Versions only grow, and whatever was noted of a file was a version of   *)
(* it once.                                                                *)
VersionInv ==
    /\ \A f \in present : version[f] > 0
    /\ \A f \in Files :
        /\ index.files[f] <= version[f]
        /\ tasks[f].state <= version[f]
        /\ tasks[f].text <= version[f]
        /\ \A b \in Backends : points[b][f] <= version[f]
        /\ current # Idle => current.state[f] <= version[f]

Formed(j) ==
    \/ j = FullJob(j.files)
    \/ \E f \in Files : j = FileJob(f)
    \/ \E m \in Messages : j = HistoryJob(m)

SameWork(j, k) == j.kind = k.kind /\ (j.kind # "full" => j = k)

(* The queue holds one job per key.                                        *)
QueueOK(queue, ks) ==
    /\ \A i \in DOMAIN queue : Formed(queue[i])
    /\ \A i, j \in DOMAIN queue : SameWork(queue[i], queue[j]) => i = j
    /\ ks.root <=> \E i \in DOMAIN queue : queue[i].kind = "full"
    /\ \A f \in Files : f \in ks.files <=> \E i \in DOMAIN queue : queue[i] = FileJob(f)
    /\ \A m \in Messages : m \in ks.messages <=> \E i \in DOMAIN queue : queue[i] = HistoryJob(m)

QueueInv ==
    /\ QueueOK(pending, keys)
    /\ settings = Disabled \/ current = Idle => pending = <<>>

(* How far a job can be, and what it may have noted by then.               *)
StepsOf(kind) ==
    CASE kind = "full" -> Steps \ {"stat", "upload"}
      [] kind = "file" -> {"load", "stat", "upload", "write", "over"}
      [] kind = "history" -> {"load", "over"}

WorkInv ==
    /\ current # Idle =>
        /\ Formed(current.job)
        /\ current.at \in StepsOf(current.job.kind)
        /\ current.at = "load" \/ current.job.kind # "full" =>
              current.toDelete = {} /\ current.toIndex = {} /\ current.history = {}
        /\ current.at = "reset" =>
              Rebuilt /\ current.toIndex = current.job.files /\ current.state = Nothing
        /\ current.at \in {"messages", "write"} => current.toIndex = {}
        /\ current.at = "write" => current.history = {}
        /\ current.toIndex \subseteq current.job.files
        /\ Busy => \A f \in current.toDelete :
                      f \notin current.job.files /\ index.files[f] > 0
        /\ Busy /\ index.backend = current.backend =>
              \A f \in current.toIndex : index.files[f] < version[f]
    /\ \A f \in Files : tasks[f].at # "none" =>
        /\ current # Idle
        /\ Busy => IsFull /\ current.at = "index" /\ f \in current.toIndex
        /\ tasks[f].at = "read" /\ tasks[f].text > 0 => tasks[f].state <= tasks[f].text
    /\ \A f \in dropped : index.files[f] > 0

(* After a change of the settings a full job goes first, so that the state *)
(* file is of the backend of the settings before a file job adds to it.    *)
HeadFull == pending # <<>> /\ Head(pending).kind = "full"

Settled == index.backend = settings \/ settings \in spoiled

PassInv ==
    /\ settings # Disabled => HeadFull \/ Settled \/ InPass
    /\ current # Idle =>
        /\ current.generation <= generation
        /\ UpToDate => settings = current.backend
        /\ ~UpToDate /\ settings # Disabled => HeadFull
        /\ Busy /\ current.job.kind = "file"
              => index.backend = current.backend \/ current.backend \in spoiled

(* A state that lists a file as it is on disk, and a backend that has it.  *)
Agrees(state, b, f) ==
    f \in present \ dropped /\ state[f] = version[f] => points[b][f] = version[f]

(* The file whose points the running job has deleted, as it goes on.       *)
InHand(f, steps) ==
    current # Idle /\ current.job.kind = "file" /\ f \in current.job.files /\ current.at \in steps

BackedInv ==
    /\ index.backend \in Backends \ spoiled =>
        \A f \in Files :
            \/ Agrees(index.files, index.backend, f)
            \/ InHand(f, {"stat", "upload", "write"}) /\ current.backend = index.backend
    /\ Busy /\ current.at # "load" /\ (current.backend \notin spoiled \/ Rebuilt) =>
        \A f \in Files :
            Agrees(current.state, current.backend, f) \/ InHand(f, {"stat", "upload"})

FilePending(f) == \E i \in DOMAIN pending : f \in pending[i].files

ListsInv ==
    /\ announced \subseteq present
    /\ \A i \in DOMAIN pending : pending[i].kind = "full" => announced \subseteq pending[i].files
    /\ InPass => \A f \in announced : f \in current.job.files \/ FilePending(f)

(* Where the work on a file waits.  A full job may have taken the state of *)
(* the file, and read its text, since when it has not changed.             *)
TaskIsFresh(f) ==
    \/ tasks[f].at = "none"
    \/ tasks[f].at = "taken" /\ tasks[f].state > 0
    \/ tasks[f].at = "read" /\ tasks[f].state > 0 /\ tasks[f].text = version[f]

FileAtHand(f) ==
    /\ Busy /\ UpToDate
    /\ \/ f \in current.job.files /\ current.at \in {"load", "stat", "upload"}
       \/ IsFull /\ f \in current.toIndex /\ TaskIsFresh(f)

(* No step that the running job has left takes the points of the file.     *)
FileLeftAlone(f) ==
    Busy => IF IsFull THEN current.at # "load" /\ f \in current.job.files \ current.toIndex
            ELSE f \in current.job.files => current.at = "write"

FileDone(f) ==
    /\ FileLeftAlone(f)
    /\ \/ points[settings][f] = version[f]
       \/ f \in dropped /\ (Busy /\ current.at # "load" => current.state[f] > 0)

FileCovered(f) == FilePending(f) \/ FileAtHand(f) \/ FileDone(f)

MessagePending(m) ==
    \E i \in DOMAIN pending : pending[i].kind = "full" \/ pending[i].message = m

MessageAtHand(m) ==
    /\ Busy /\ UpToDate
    /\ \/ current.at = "load" /\ (IsFull \/ current.job.message = m)
       \/ IsFull /\ m \in current.history

MessageDone(m) ==
    /\ m \in historyPoints[settings]
    /\ Busy /\ IsFull => current.at \in {"messages", "write"}

MessageCovered(m) == MessagePending(m) \/ MessageAtHand(m) \/ MessageDone(m)

(* The backend of the settings has had no failure, or is being built anew. *)
Trusted ==
    settings # Disabled /\ (settings \notin spoiled \/ (InPass /\ Rebuilt))

CoverInv ==
    Trusted => /\ \A f \in announced : FileCovered(f)
               /\ \A m \in (1..messages) \ unread : MessageCovered(m)

IndexInv ==
    /\ Shape
    /\ VersionInv
    /\ QueueInv
    /\ WorkInv
    /\ PassInv
    /\ BackedInv
    /\ ListsInv
    /\ CoverInv

-----------------------------------------------------------------------------
(* Records and the queue.                                                  *)

(* The types of a running job.                                             *)
LEMMA RunningFields ==
    ASSUME NEW r \in Running
    PROVE  /\ r # Idle
           /\ r.job \in Job /\ r.at \in Steps /\ r.backend \in Backends
           /\ r.generation \in 0..MaxRefreshes
           /\ r.state \in [Files -> Versions]
           /\ r.toDelete \in SUBSET Files /\ r.toIndex \in SUBSET Files
           /\ r.history \in SUBSET Messages
<1>1. r.at # Idle.at
  BY DEF Running, Steps, Idle
<1> QED
  BY <1>1 DEF Running

(* The types of a job.                                                     *)
LEMMA JobFields ==
    ASSUME NEW j \in Job
    PROVE  /\ j.kind \in {"full", "file", "history"}
           /\ j.files \in SUBSET Files
           /\ j.message \in Messages \cup {NoMessage}
BY DEF Job

(* The jobs that are made are well formed.                                 *)
LEMMA JobsMade ==
    /\ \A fs \in SUBSET Files :
        /\ FullJob(fs) \in Job /\ Formed(FullJob(fs))
        /\ FullJob(fs).kind = "full" /\ FullJob(fs).files = fs
        /\ FullJob(fs).message = NoMessage
    /\ \A f \in Files :
        /\ FileJob(f) \in Job /\ Formed(FileJob(f))
        /\ FileJob(f).kind = "file" /\ FileJob(f).files = {f}
        /\ FileJob(f).message = NoMessage
    /\ \A m \in Messages :
        /\ HistoryJob(m) \in Job /\ Formed(HistoryJob(m))
        /\ HistoryJob(m).kind = "history" /\ HistoryJob(m).files = {}
        /\ HistoryJob(m).message = m
BY DEF Job, Formed, FullJob, FileJob, HistoryJob

(* What a well formed job is, by its kind.                                 *)
LEMMA FormedKinds ==
    ASSUME NEW j \in Job, Formed(j)
    PROVE  /\ j.kind = "full" => j = FullJob(j.files)
           /\ j.kind = "file" => \E f \in Files : j = FileJob(f)
           /\ j.kind = "history" => \E m \in Messages : j = HistoryJob(m)
BY JobsMade, JobFields DEF Formed, FullJob

(* A started job has done nothing yet.                                     *)
LEMMA StartedFields ==
    ASSUME NEW j \in Job, settings' \in Backends, generation' \in 0..MaxRefreshes
    PROVE  /\ Started(j) \in Running /\ Started(j) # Idle
           /\ Started(j).job = j /\ Started(j).at = "load"
           /\ Started(j).backend = settings' /\ Started(j).generation = generation'
           /\ Started(j).state = Nothing /\ Started(j).toDelete = {}
           /\ Started(j).toIndex = {} /\ Started(j).history = {}
<1>1. Nothing \in [Files -> Versions]
  BY IndexingAssumption DEF Nothing, Versions
<1> HIDE DEF Nothing
<1>2. Started(j) \in Running
  BY <1>1 DEF Started, Running, Steps
<1> QED
  BY <1>2, RunningFields DEF Started

WithKey(ks, j) ==
    CASE j.kind = "full" -> [ks EXCEPT !.root = TRUE]
      [] j.kind = "file" -> [ks EXCEPT !.files = @ \cup j.files]
      [] j.kind = "history" -> [ks EXCEPT !.messages = @ \cup {j.message}]

HasKey(ks, j) ==
    CASE j.kind = "full" -> ks.root
      [] j.kind = "file" -> j.files \subseteq ks.files
      [] j.kind = "history" -> j.message \in ks.messages

(* A key is added for a job, and released with it.                         *)
LEMMA KeysEdit ==
    ASSUME NEW ks \in Keys, NEW j \in Job, Formed(j)
    PROVE  /\ WithKey(ks, j) \in Keys
           /\ Released(ks, j) \in Keys
           /\ WithKey(ks, j).root <=> ks.root \/ j.kind = "full"
           /\ \A f \in Files : f \in WithKey(ks, j).files <=> f \in ks.files \/ j = FileJob(f)
           /\ \A m \in Messages :
                 m \in WithKey(ks, j).messages <=> m \in ks.messages \/ j = HistoryJob(m)
           /\ Released(ks, j).root <=> ks.root /\ j.kind # "full"
           /\ \A f \in Files : f \in Released(ks, j).files <=> f \in ks.files /\ j # FileJob(f)
           /\ \A m \in Messages :
                 m \in Released(ks, j).messages <=> m \in ks.messages /\ j # HistoryJob(m)
<1>1. /\ ks.root \in BOOLEAN /\ ks.files \in SUBSET Files /\ ks.messages \in SUBSET Messages
      /\ ks = [root |-> ks.root, files |-> ks.files, messages |-> ks.messages]
  BY DEF Keys
<1>2. CASE j.kind = "full"
  <2>1. /\ WithKey(ks, j) = [ks EXCEPT !.root = TRUE]
        /\ Released(ks, j) = [ks EXCEPT !.root = FALSE]
    BY <1>2 DEF WithKey, Released
  <2>2. (\A f \in Files : j # FileJob(f)) /\ (\A m \in Messages : j # HistoryJob(m))
    BY <1>2, JobsMade
  <2> QED
    BY <1>1, <1>2, <2>1, <2>2 DEF Keys
<1>3. CASE j.kind = "file"
  <2>1. PICK g \in Files : j = FileJob(g)
    BY <1>3, FormedKinds
  <2>2. /\ WithKey(ks, j) = [ks EXCEPT !.files = @ \cup {g}]
        /\ Released(ks, j) = [ks EXCEPT !.files = @ \ {g}]
    BY <1>3, <2>1, JobsMade DEF WithKey, Released
  <2>3. (\A f \in Files : j = FileJob(f) <=> f = g) /\ (\A m \in Messages : j # HistoryJob(m))
    BY <1>3, <2>1, JobsMade
  <2> QED
    BY <1>1, <1>3, <2>2, <2>3 DEF Keys
<1>4. CASE j.kind = "history"
  <2>1. PICK n \in Messages : j = HistoryJob(n)
    BY <1>4, FormedKinds
  <2>2. /\ WithKey(ks, j) = [ks EXCEPT !.messages = @ \cup {n}]
        /\ Released(ks, j) = [ks EXCEPT !.messages = @ \ {n}]
    BY <1>4, <2>1, JobsMade DEF WithKey, Released
  <2>3. (\A f \in Files : j # FileJob(f)) /\ (\A m \in Messages : j = HistoryJob(m) <=> m = n)
    BY <1>4, <2>1, JobsMade
  <2> QED
    BY <1>1, <1>4, <2>2, <2>3 DEF Keys
<1> QED
  BY <1>2, <1>3, <1>4, JobFields

(* Where everything is after an append.                                    *)
LEMMA AppendAt ==
    ASSUME NEW S, NEW q \in Seq(S), NEW e \in S
    PROVE  /\ Append(q, e) \in Seq(S) /\ Append(q, e) # <<>>
           /\ DOMAIN Append(q, e) = DOMAIN q \cup {Len(q) + 1}
           /\ Append(q, e)[Len(q) + 1] = e
           /\ \A i \in DOMAIN q : Append(q, e)[i] = q[i] /\ i # Len(q) + 1
OBVIOUS

(* Where everything is after the first has left.                           *)
LEMMA TailAt ==
    ASSUME NEW S, NEW q \in Seq(S), q # <<>>
    PROVE  /\ Tail(q) \in Seq(S) /\ Head(q) \in S /\ Head(q) = q[1] /\ 1 \in DOMAIN q
           /\ \A i \in DOMAIN Tail(q) : i + 1 \in DOMAIN q /\ i + 1 # 1 /\ Tail(q)[i] = q[i + 1]
           /\ \A i \in DOMAIN q \ {1} : i - 1 \in DOMAIN Tail(q) /\ Tail(q)[i - 1] = q[i]
OBVIOUS

(* A job whose key is new joins the queue with its key.                    *)
LEMMA AppendJob ==
    ASSUME NEW q \in Seq(Job), NEW ks \in Keys, NEW j \in Job, Formed(j),
           QueueOK(q, ks), ~HasKey(ks, j)
    PROVE  QueueOK(Append(q, j), WithKey(ks, j))
<1> DEFINE p == Append(q, j)
           n == Len(q) + 1
<1>1. /\ DOMAIN p = DOMAIN q \cup {n} /\ p[n] = j
      /\ \A i \in DOMAIN q : p[i] = q[i] /\ i # n
  BY AppendAt
<1> HIDE DEF p, n
<1>2. \A i \in DOMAIN p : Formed(p[i])
  BY <1>1 DEF QueueOK
<1>3. \A i \in DOMAIN q : q[i] \in Job
  OBVIOUS
<1>4. \A i \in DOMAIN q : ~SameWork(q[i], j) /\ ~SameWork(j, q[i])
  <2>1. SUFFICES ASSUME NEW i \in DOMAIN q, SameWork(q[i], j) \/ SameWork(j, q[i])
                 PROVE  HasKey(ks, j)
    OBVIOUS
  <2>2. q[i].kind = j.kind /\ (j.kind # "full" => q[i] = j)
    BY <2>1 DEF SameWork
  <2>3. CASE j.kind = "full"
    BY <2>2, <2>3 DEF QueueOK, HasKey
  <2>4. CASE j.kind = "file"
    BY <2>2, <2>4, FormedKinds, JobsMade DEF QueueOK, HasKey
  <2>5. CASE j.kind = "history"
    BY <2>2, <2>5, FormedKinds, JobsMade DEF QueueOK, HasKey
  <2> QED
    BY <2>3, <2>4, <2>5, JobFields
<1>5. \A i, k \in DOMAIN p : SameWork(p[i], p[k]) => i = k
  BY <1>1, <1>4 DEF QueueOK
<1>6. WithKey(ks, j).root <=> \E i \in DOMAIN p : p[i].kind = "full"
  BY <1>1, KeysEdit DEF QueueOK
<1>7. \A f \in Files : f \in WithKey(ks, j).files <=> \E i \in DOMAIN p : p[i] = FileJob(f)
  <2>1. \A f \in Files : f \in WithKey(ks, j).files <=> f \in ks.files \/ j = FileJob(f)
    BY KeysEdit
  <2>2. \A f \in Files : f \in ks.files <=> \E i \in DOMAIN q : q[i] = FileJob(f)
    BY DEF QueueOK
  <2> QED
    BY <1>1, <2>1, <2>2
<1>8. \A m \in Messages :
         m \in WithKey(ks, j).messages <=> \E i \in DOMAIN p : p[i] = HistoryJob(m)
  <2>1. \A m \in Messages :
           m \in WithKey(ks, j).messages <=> m \in ks.messages \/ j = HistoryJob(m)
    BY KeysEdit
  <2>2. \A m \in Messages : m \in ks.messages <=> \E i \in DOMAIN q : q[i] = HistoryJob(m)
    BY DEF QueueOK
  <2> QED
    BY <1>1, <2>1, <2>2
<1> QED
  BY <1>2, <1>5, <1>6, <1>7, <1>8 DEF QueueOK, p

(* The first job leaves the queue, and its key is released.                *)
LEMMA TakeJob ==
    ASSUME NEW q \in Seq(Job), NEW ks \in Keys, QueueOK(q, ks), q # <<>>
    PROVE  /\ Head(q) \in Job /\ Formed(Head(q)) /\ Tail(q) \in Seq(Job)
           /\ QueueOK(Tail(q), Released(ks, Head(q)))
<1> DEFINE p == Tail(q)
           j == Head(q)
<1>1. /\ p \in Seq(Job) /\ j \in Job /\ j = q[1] /\ 1 \in DOMAIN q
      /\ \A i \in DOMAIN p : i + 1 \in DOMAIN q /\ i + 1 # 1 /\ p[i] = q[i + 1]
      /\ \A i \in DOMAIN q \ {1} : i - 1 \in DOMAIN p /\ p[i - 1] = q[i]
  BY TailAt
<1> HIDE DEF p, j
<1>2. Formed(j) /\ \A i \in DOMAIN p : Formed(p[i])
  BY <1>1 DEF QueueOK
<1>3. \A i \in DOMAIN p : ~SameWork(p[i], j)
  BY <1>1 DEF QueueOK
<1>4. \A i, k \in DOMAIN p : SameWork(p[i], p[k]) => i = k
  <2>1. SUFFICES ASSUME NEW i \in DOMAIN p, NEW k \in DOMAIN p, SameWork(p[i], p[k])
                 PROVE  i = k
    OBVIOUS
  <2>2. i + 1 = k + 1
    BY <1>1, <2>1 DEF QueueOK
  <2> QED
    BY <1>1, <2>2
<1>5. Released(ks, j).root <=> \E i \in DOMAIN p : p[i].kind = "full"
  <2>1. ASSUME j.kind = "full" PROVE \A i \in DOMAIN p : p[i].kind # "full"
    BY <1>3, <2>1 DEF SameWork
  <2>2. ASSUME j.kind # "full", ks.root PROVE \E i \in DOMAIN p : p[i].kind = "full"
    <3>1. PICK i \in DOMAIN q : q[i].kind = "full"
      BY <2>2 DEF QueueOK
    <3>2. i \in DOMAIN q \ {1}
      BY <1>1, <2>2, <3>1
    <3> QED
      BY <1>1, <3>1, <3>2
  <2>3. ASSUME NEW i \in DOMAIN p, p[i].kind = "full" PROVE ks.root
    BY <1>1, <2>3 DEF QueueOK
  <2> QED
    BY <1>1, <1>2, <2>1, <2>2, <2>3, KeysEdit
<1>6. \A f \in Files : f \in Released(ks, j).files <=> \E i \in DOMAIN p : p[i] = FileJob(f)
  <2> SUFFICES ASSUME NEW f \in Files
               PROVE  f \in Released(ks, j).files <=> \E i \in DOMAIN p : p[i] = FileJob(f)
    OBVIOUS
  <2>1. ASSUME NEW i \in DOMAIN p, p[i] = FileJob(f) PROVE j # FileJob(f) /\ f \in ks.files
    <3>1. j # FileJob(f)
      BY <1>3, <2>1 DEF SameWork
    <3>2. q[i + 1] = FileJob(f) /\ i + 1 \in DOMAIN q
      BY <1>1, <2>1
    <3> QED
      BY <3>1, <3>2 DEF QueueOK
  <2>2. ASSUME j # FileJob(f), f \in ks.files PROVE \E i \in DOMAIN p : p[i] = FileJob(f)
    <3>1. PICK i \in DOMAIN q : q[i] = FileJob(f)
      BY <2>2 DEF QueueOK
    <3>2. i \in DOMAIN q \ {1}
      BY <1>1, <2>2, <3>1
    <3> QED
      BY <1>1, <3>1, <3>2
  <2>3. f \in Released(ks, j).files <=> f \in ks.files /\ j # FileJob(f)
    BY <1>1, <1>2, KeysEdit
  <2> QED
    BY <2>1, <2>2, <2>3
<1>7. \A m \in Messages :
         m \in Released(ks, j).messages <=> \E i \in DOMAIN p : p[i] = HistoryJob(m)
  <2> SUFFICES ASSUME NEW m \in Messages
               PROVE  m \in Released(ks, j).messages
                         <=> \E i \in DOMAIN p : p[i] = HistoryJob(m)
    OBVIOUS
  <2>1. ASSUME NEW i \in DOMAIN p, p[i] = HistoryJob(m)
        PROVE  j # HistoryJob(m) /\ m \in ks.messages
    <3>1. j # HistoryJob(m)
      BY <1>3, <2>1 DEF SameWork
    <3>2. q[i + 1] = HistoryJob(m) /\ i + 1 \in DOMAIN q
      BY <1>1, <2>1
    <3> QED
      BY <3>1, <3>2 DEF QueueOK
  <2>2. ASSUME j # HistoryJob(m), m \in ks.messages
        PROVE  \E i \in DOMAIN p : p[i] = HistoryJob(m)
    <3>1. PICK i \in DOMAIN q : q[i] = HistoryJob(m)
      BY <2>2 DEF QueueOK
    <3>2. i \in DOMAIN q \ {1}
      BY <1>1, <2>2, <3>1
    <3> QED
      BY <1>1, <3>1, <3>2
  <2>3. m \in Released(ks, j).messages <=> m \in ks.messages /\ j # HistoryJob(m)
    BY <1>1, <1>2, KeysEdit
  <2> QED
    BY <2>1, <2>2, <2>3
<1> QED
  BY <1>1, <1>2, <1>4, <1>5, <1>6, <1>7 DEF QueueOK, p, j

-----------------------------------------------------------------------------
(* What enqueueing a job does: it waits behind a running one, or starts.   *)
Adds(queue, j) ==
    \/ current # Idle /\ current' = current /\ pending' = Append(queue, j)
    \/ current = Idle /\ queue = <<>> /\ pending' = <<>> /\ current' = Started(j)

(* A job that is enqueued starts at once on an idle worker, and waits      *)
(* otherwise.                                                              *)
LEMMA Enqueued ==
    ASSUME NEW q \in Seq(Job), NEW ks \in Keys, QueueOK(q, ks),
           NEW j \in Job, Formed(j), ~HasKey(ks, j),
           current \in Running \cup {Idle}, current = Idle => q = <<>>,
           settings' \in Backends, generation' \in 0..MaxRefreshes,
           StartNextJob(Append(q, j), WithKey(ks, j), current)
    PROVE  /\ Adds(q, j)
           /\ pending' \in Seq(Job) /\ keys' \in Keys /\ current' \in Running
           /\ QueueOK(pending', keys')
<1> DEFINE p == Append(q, j)
           kk == WithKey(ks, j)
<1>1. p \in Seq(Job) /\ p # <<>> /\ kk \in Keys /\ QueueOK(p, kk)
  <2>1. p \in Seq(Job) /\ p # <<>>
    OBVIOUS
  <2>2. kk \in Keys
    BY KeysEdit
  <2>3. QueueOK(p, kk)
    BY AppendJob
  <2> QED
    BY <2>1, <2>2, <2>3
<1>2. CASE current # Idle
  <2>1. pending' = p /\ keys' = kk /\ current' = current
    BY <1>2 DEF StartNextJob
  <2> QED
    BY <1>1, <1>2, <2>1 DEF Adds
<1>3. CASE current = Idle
  <2>1. q = <<>> /\ p = <<j>> /\ Head(p) = j /\ Tail(p) = <<>>
    BY <1>3
  <2>2. pending' = Tail(p) /\ keys' = Released(kk, Head(p)) /\ current' = Started(Head(p))
    BY <1>1, <1>3 DEF StartNextJob
  <2> HIDE DEF p, kk
  <2>3. Tail(p) \in Seq(Job) /\ QueueOK(Tail(p), Released(kk, Head(p)))
    BY <1>1, TakeJob
  <2>4. Released(kk, Head(p)) \in Keys
    BY <1>1, <2>1, KeysEdit
  <2>5. Started(j) \in Running
    BY StartedFields
  <2> QED
    BY <1>3, <2>1, <2>2, <2>3, <2>4, <2>5 DEF Adds
<1> QED
  BY <1>2, <1>3

(* No job of the queue is lost by that, and no other is added.             *)
LEMMA AddedJobs ==
    ASSUME NEW q \in Seq(Job), NEW j \in Job, Adds(q, j)
    PROVE  /\ \A i \in DOMAIN q : \E k \in DOMAIN pending' : pending'[k] = q[i]
           /\ \A k \in DOMAIN pending' :
                 pending'[k] = j \/ \E i \in DOMAIN q : pending'[k] = q[i]
           /\ current # Idle => \E k \in DOMAIN pending' : pending'[k] = j
           /\ q # <<>> => pending' # <<>> /\ Head(pending') = Head(q)
           /\ current # Idle /\ q = <<>> => pending' # <<>> /\ Head(pending') = j
<1>1. CASE current # Idle
  <2> DEFINE p == Append(q, j)
  <2>1. /\ p # <<>> /\ DOMAIN p = DOMAIN q \cup {Len(q) + 1} /\ p[Len(q) + 1] = j
        /\ \A i \in DOMAIN q : p[i] = q[i] /\ i # Len(q) + 1
    BY AppendAt
  <2>2. q # <<>> => Head(p) = Head(q)
    OBVIOUS
  <2>3. q = <<>> => Head(p) = j
    OBVIOUS
  <2>4. pending' = p
    BY <1>1 DEF Adds
  <2> HIDE DEF p
  <2> QED
    BY <1>1, <2>1, <2>2, <2>3, <2>4
<1>2. CASE current = Idle
  BY <1>2 DEF Adds
<1> QED
  BY <1>1, <1>2

-----------------------------------------------------------------------------
(* Files change, and jobs start, while nothing of the backend does.        *)

GuiStep ==
    /\ UNCHANGED <<tasks, index, points, historyPoints, faults, spoiled, dropped, unread>>
    /\ version' \in [Files -> Versions]
    /\ \A f \in present' : version'[f] > 0
    /\ \A f \in Files : \/ version'[f] = version[f] /\ (f \in present' => f \in present)
                        \/ version'[f] > version[f]
    /\ \/ current' = current
       \/ /\ current = Idle
          /\ settings' \in Backends /\ generation' \in 0..MaxRefreshes
          /\ \E j \in Job : Formed(j) /\ current' = Started(j)

(* The GUI thread does not disturb the running job.                        *)
LEMMA GuiKeepsWork ==
    ASSUME Shape, VersionInv, WorkInv, BackedInv, GuiStep
    PROVE  VersionInv' /\ WorkInv' /\ BackedInv'
<1>1. /\ version \in [Files -> Versions] /\ present \subseteq Files
      /\ index.files \in [Files -> Versions] /\ tasks \in [Files -> Task]
      /\ points \in [Backends -> [Files -> Versions]]
      /\ current \in Running \cup {Idle}
  BY DEF Shape
<1>2. Versions \subseteq Nat
  BY DEF Versions
<1>3. \A f \in Files : /\ version'[f] >= version[f]
                       /\ f \in present' => f \in present \/ version'[f] > version[f]
                       /\ version[f] \in Nat /\ version'[f] \in Nat
  <2>1. \A f \in Files : version[f] \in Nat /\ version'[f] \in Nat
    BY <1>1, <1>2 DEF GuiStep
  <2> QED
    BY <2>1 DEF GuiStep
<1>4. CASE current' = current
  <2>1. VersionInv'
    <3>1. \A f \in Files :
            /\ index'.files[f] <= version'[f] /\ tasks'[f].state <= version'[f]
            /\ tasks'[f].text <= version'[f]
            /\ \A b \in Backends : points'[b][f] <= version'[f]
            /\ current' # Idle => current'.state[f] <= version'[f]
      <4> TAKE f \in Files
      <4>1. /\ version[f] \in Nat /\ version'[f] \in Nat /\ index.files[f] \in Nat
            /\ tasks[f].state \in Nat /\ tasks[f].text \in Nat
            /\ \A b \in Backends : points[b][f] \in Nat
        BY <1>1, <1>2 DEF GuiStep, Task
      <4>2. current # Idle => current.state[f] \in Nat
        BY <1>1, <1>2, RunningFields
      <4> QED
        BY <1>3, <1>4, <4>1, <4>2 DEF GuiStep, VersionInv
    <3> QED
      BY <3>1 DEF VersionInv, GuiStep
  <2>2. WorkInv'
    <3>1. \A f \in Files : index.files[f] < version[f] => index.files[f] < version'[f]
      <4>1. \A f \in Files : index.files[f] \in Nat
        BY <1>1, <1>2
      <4> QED
        BY <1>3, <4>1
    <3>2. current # Idle => current.toIndex \subseteq Files
      BY <1>1, RunningFields
    <3> QED
      BY <1>4, <3>1, <3>2 DEF WorkInv, GuiStep, Busy, IsFull, Rebuilt
  <2>3. BackedInv'
    <3>1. \A f \in Files : /\ index.files[f] \in Nat /\ index.files[f] <= version[f]
                           /\ version[f] \in Nat /\ version'[f] \in Nat
                           /\ current # Idle =>
                                 current.state[f] \in Nat /\ current.state[f] <= version[f]
      BY <1>1, <1>2, RunningFields DEF VersionInv, GuiStep
    <3>2. \A f \in Files, b \in Backends :
             Agrees(index.files, b, f) => Agrees(index.files, b, f)'
      BY <3>1 DEF Agrees, GuiStep
    <3>3. ASSUME current # Idle
          PROVE  \A f \in Files, b \in Backends :
                    Agrees(current.state, b, f) => Agrees(current.state, b, f)'
      BY <1>4, <3>1, <3>3 DEF Agrees, GuiStep
    <3>4. current # Idle => current.backend \in Backends
      BY <1>1, RunningFields
    <3>5. index'.backend = index.backend /\ spoiled' = spoiled
      BY DEF GuiStep
    <3>6. \A f, steps : InHand(f, steps)' <=> InHand(f, steps)
      BY <1>4 DEF InHand
    <3>7. (Busy' <=> Busy) /\ (Rebuilt' <=> Rebuilt)
      BY <1>4, <3>5 DEF Busy, Rebuilt, IsFull
    <3> QED
      BY <1>4, <3>2, <3>3, <3>4, <3>5, <3>6, <3>7 DEF BackedInv, Busy
  <2> QED
    BY <2>1, <2>2, <2>3
<1>5. CASE current' # current
  <2>1. PICK j \in Job : Formed(j) /\ current' = Started(j)
    BY <1>5 DEF GuiStep
  <2>2. current = Idle /\ settings' \in Backends /\ generation' \in 0..MaxRefreshes
    BY <1>5 DEF GuiStep
  <2>3. /\ current' # Idle /\ current'.job = j /\ current'.at = "load"
        /\ current'.state = Nothing /\ current'.toDelete = {} /\ current'.toIndex = {}
        /\ current'.history = {}
    BY <2>1, <2>2, StartedFields
  <2>4. VersionInv'
    <3>1. \A f \in Files :
            /\ index'.files[f] <= version'[f] /\ tasks'[f].state <= version'[f]
            /\ tasks'[f].text <= version'[f]
            /\ \A b \in Backends : points'[b][f] <= version'[f]
            /\ current'.state[f] <= version'[f]
      <4> TAKE f \in Files
      <4>1. /\ version[f] \in Nat /\ version'[f] \in Nat /\ index.files[f] \in Nat
            /\ tasks[f].state \in Nat /\ tasks[f].text \in Nat
            /\ \A b \in Backends : points[b][f] \in Nat
        BY <1>1, <1>2 DEF GuiStep, Task
      <4>2. current'.state[f] = 0
        BY <2>3 DEF Nothing
      <4> QED
        BY <1>3, <4>1, <4>2 DEF GuiStep, VersionInv
    <3> QED
      BY <3>1 DEF VersionInv, GuiStep
  <2>5. WorkInv'
    <3>1. j.kind \in {"full", "file", "history"}
      BY JobFields
    <3>2. "load" \in StepsOf(j.kind)
      BY <3>1 DEF StepsOf, Steps
    <3>3. \A f \in Files : tasks[f].at = "none"
      BY <2>2 DEF WorkInv
    <3> QED
      BY <2>1, <2>3, <3>2, <3>3 DEF WorkInv, GuiStep
  <2>6. BackedInv'
    <3>1. \A f \in Files : /\ index.files[f] \in Nat /\ index.files[f] <= version[f]
                           /\ version[f] \in Nat /\ version'[f] \in Nat
      BY <1>1, <1>2 DEF VersionInv, GuiStep
    <3>2. \A f \in Files, b \in Backends :
             Agrees(index.files, b, f) => Agrees(index.files, b, f)'
      BY <3>1 DEF Agrees, GuiStep
    <3>3. \A f, steps : ~InHand(f, steps)
      BY <2>2 DEF InHand
    <3> QED
      BY <2>3, <3>2, <3>3 DEF BackedInv, GuiStep
  <2> QED
    BY <2>4, <2>5, <2>6
<1> QED
  BY <1>4, <1>5

(* The settings stay, and the queue stays or grows by a job.               *)
LEMMA GuiKeepsPass ==
    ASSUME Shape, WorkInv, QueueInv, PassInv,
           UNCHANGED <<settings, generation, index, spoiled>>,
           \/ UNCHANGED <<pending, current>>
           \/ settings # Disabled /\ \E j \in Job : Formed(j) /\ Adds(pending, j)
    PROVE  PassInv'
<1>1. CASE UNCHANGED <<pending, current>>
  BY <1>1 DEF PassInv, HeadFull, Settled, InPass, Busy, IsFull, UpToDate
<1>2. ASSUME settings # Disabled, NEW j \in Job, Formed(j), Adds(pending, j) PROVE PassInv'
  <2>1. pending \in Seq(Job)
    BY DEF Shape
  <2>2. CASE current # Idle
    <3>1. current' = current
      BY <1>2, <2>2 DEF Adds
    <3>2. HeadFull => HeadFull'
      BY <1>2, <2>1, AddedJobs DEF HeadFull
    <3> QED
      BY <2>2, <3>1, <3>2 DEF PassInv, Settled, InPass, Busy, IsFull, UpToDate
  <2>3. CASE current = Idle
    <3>1. pending = <<>> /\ pending' = <<>> /\ current' = Started(j)
      BY <1>2, <2>3 DEF Adds
    <3>2. settings # Disabled => Settled
      BY <2>3, <3>1 DEF PassInv, HeadFull, InPass, Busy
    <3>3. settings' \in Backends /\ generation' \in 0..MaxRefreshes /\ generation' \in Nat
      BY <1>2 DEF Shape
    <3>4. /\ current' # Idle /\ current'.backend = settings
          /\ current'.generation = generation
      BY <3>1, <3>3, StartedFields
    <3> QED
      BY <1>2, <3>2, <3>3, <3>4 DEF PassInv, Settled, UpToDate
  <2> QED
    BY <2>2, <2>3
<1> QED
  BY <1>1, <1>2

-----------------------------------------------------------------------------
(* The three ways to enqueue a job.                                        *)
LEMMA FileQueued ==
    ASSUME Shape, QueueInv, NEW f \in Files, EnqueueFileJob(f),
           UNCHANGED <<settings, generation>>
    PROVE  /\ pending' \in Seq(Job) /\ keys' \in Keys /\ current' \in Running \cup {Idle}
           /\ QueueInv'
           /\ \/ /\ UNCHANGED <<pending, current>>
                 /\ settings = Disabled \/ keys.root \/ FilePending(f)
              \/ /\ settings # Disabled /\ ~keys.root
                 /\ Adds(pending, FileJob(f))
<1>1. /\ pending \in Seq(Job) /\ keys \in Keys /\ current \in Running \cup {Idle}
      /\ settings \in Backends \cup {Disabled} /\ generation \in 0..MaxRefreshes
  BY DEF Shape
<1>2. CASE settings = Disabled \/ keys.root \/ f \in keys.files
  <2>1. UNCHANGED <<pending, keys, current>>
    BY <1>2 DEF EnqueueFileJob
  <2>2. f \in keys.files => FilePending(f)
    BY JobsMade DEF QueueInv, QueueOK, FilePending
  <2>3. QueueInv'
    BY <2>1 DEF QueueInv, QueueOK
  <2> QED
    BY <1>1, <1>2, <2>1, <2>2, <2>3
<1>3. CASE ~(settings = Disabled \/ keys.root \/ f \in keys.files)
  <2> DEFINE j == FileJob(f)
  <2>1. j \in Job /\ Formed(j) /\ j.kind = "file" /\ j.files = {f}
    BY JobsMade
  <2>2. StartNextJob(Append(pending, j), [keys EXCEPT !.files = @ \cup {f}], current)
    BY <1>3 DEF EnqueueFileJob
  <2> HIDE DEF j
  <2>3. WithKey(keys, j) = [keys EXCEPT !.files = @ \cup {f}] /\ ~HasKey(keys, j)
    BY <1>3, <2>1 DEF WithKey, HasKey
  <2>4. /\ QueueOK(pending, keys) /\ (current = Idle => pending = <<>>)
        /\ settings' \in Backends /\ generation' \in 0..MaxRefreshes
        /\ StartNextJob(Append(pending, j), WithKey(keys, j), current)
    BY <1>1, <1>3, <2>2, <2>3 DEF QueueInv
  <2>5. /\ Adds(pending, j)
        /\ pending' \in Seq(Job) /\ keys' \in Keys /\ current' \in Running
        /\ QueueOK(pending', keys')
    BY <1>1, <2>1, <2>3, <2>4, Enqueued
  <2>6. QueueInv'
    BY <1>3, <2>5, RunningFields DEF QueueInv, QueueOK
  <2> QED
    BY <1>3, <2>5, <2>6 DEF j
<1> QED
  BY <1>2, <1>3

(* A message is queued, or its job is pending already.                     *)
LEMMA HistoryQueued ==
    ASSUME Shape, QueueInv, NEW m \in Messages, EnqueueHistoryJob(m),
           UNCHANGED <<settings, generation>>
    PROVE  /\ pending' \in Seq(Job) /\ keys' \in Keys /\ current' \in Running \cup {Idle}
           /\ QueueInv'
           /\ \/ /\ UNCHANGED <<pending, current>>
                 /\ settings = Disabled \/ MessagePending(m)
              \/ settings # Disabled /\ Adds(pending, HistoryJob(m))
<1>1. /\ pending \in Seq(Job) /\ keys \in Keys /\ current \in Running \cup {Idle}
      /\ settings \in Backends \cup {Disabled} /\ generation \in 0..MaxRefreshes
  BY DEF Shape
<1>2. CASE settings = Disabled \/ keys.root \/ m \in keys.messages
  <2>1. UNCHANGED <<pending, keys, current>>
    BY <1>2 DEF EnqueueHistoryJob
  <2>2. keys.root \/ m \in keys.messages => MessagePending(m)
    BY JobsMade DEF QueueInv, QueueOK, MessagePending
  <2>3. QueueInv'
    BY <2>1 DEF QueueInv, QueueOK
  <2> QED
    BY <1>1, <1>2, <2>1, <2>2, <2>3
<1>3. CASE ~(settings = Disabled \/ keys.root \/ m \in keys.messages)
  <2> DEFINE j == HistoryJob(m)
  <2>1. j \in Job /\ Formed(j) /\ j.kind = "history" /\ j.message = m
    BY JobsMade
  <2>2. StartNextJob(Append(pending, j), [keys EXCEPT !.messages = @ \cup {m}], current)
    BY <1>3 DEF EnqueueHistoryJob
  <2> HIDE DEF j
  <2>3. WithKey(keys, j) = [keys EXCEPT !.messages = @ \cup {m}] /\ ~HasKey(keys, j)
    BY <1>3, <2>1 DEF WithKey, HasKey
  <2>4. /\ QueueOK(pending, keys) /\ (current = Idle => pending = <<>>)
        /\ settings' \in Backends /\ generation' \in 0..MaxRefreshes
        /\ StartNextJob(Append(pending, j), WithKey(keys, j), current)
    BY <1>1, <1>3, <2>2, <2>3 DEF QueueInv
  <2>5. /\ Adds(pending, j)
        /\ pending' \in Seq(Job) /\ keys' \in Keys /\ current' \in Running
        /\ QueueOK(pending', keys')
    BY <1>1, <2>1, <2>3, <2>4, Enqueued
  <2>6. QueueInv'
    BY <1>3, <2>5, RunningFields DEF QueueInv, QueueOK
  <2> QED
    BY <1>3, <2>5, <2>6 DEF j
<1> QED
  BY <1>2, <1>3

(* In a queue without a full job.                                          *)
LEMMA WorkspaceQueued ==
    ASSUME present \in SUBSET Files, current \in Running \cup {Idle},
           settings' \in Backends, generation' \in 0..MaxRefreshes,
           NEW q \in Seq(Job), NEW ks \in Keys, QueueOK(q, ks), current = Idle => q = <<>>,
           ~ks.root, EnqueueFullWorkspaceJob(q, ks)
    PROVE  /\ pending' \in Seq(Job) /\ keys' \in Keys /\ current' \in Running
           /\ QueueInv'
           /\ Adds(q, FullJob(present))
<1> DEFINE j == FullJob(present)
<1>1. j \in Job /\ Formed(j) /\ j.kind = "full"
  BY JobsMade
<1>2. StartNextJob(Append(q, j), [ks EXCEPT !.root = TRUE], current)
  BY IndexingAssumption DEF EnqueueFullWorkspaceJob
<1> HIDE DEF j
<1>3. WithKey(ks, j) = [ks EXCEPT !.root = TRUE] /\ ~HasKey(ks, j)
  BY <1>1 DEF WithKey, HasKey
<1>4. StartNextJob(Append(q, j), WithKey(ks, j), current)
  BY <1>2, <1>3
<1>5. /\ Adds(q, j)
      /\ pending' \in Seq(Job) /\ keys' \in Keys /\ current' \in Running
      /\ QueueOK(pending', keys')
  BY <1>1, <1>3, <1>4, Enqueued
<1>6. QueueInv'
  BY <1>5, RunningFields, IndexingAssumption DEF QueueInv, QueueOK
<1> QED
  BY <1>5, <1>6 DEF j

-----------------------------------------------------------------------------
(* What is covered stays so while the queue grows.                         *)
LEMMA FileStaysCovered ==
    ASSUME Shape, NEW f \in Files, FileCovered(f), version'[f] = version[f],
           UNCHANGED <<settings, generation, tasks, index, points, dropped>>,
           \/ UNCHANGED <<pending, current>>
           \/ /\ settings # Disabled
              /\ \E j \in Job : Adds(pending, j) /\ (j.kind = "full" => f \in j.files)
    PROVE  FileCovered(f)'
<1>1. CASE UNCHANGED <<pending, current>>
  BY <1>1 DEF FileCovered, FilePending, FileAtHand, FileDone, FileLeftAlone, TaskIsFresh,
              Busy, UpToDate, IsFull
<1>2. ASSUME settings # Disabled,
             NEW j \in Job, Adds(pending, j), j.kind = "full" => f \in j.files
      PROVE  FileCovered(f)'
  <2>1. pending \in Seq(Job)
    BY DEF Shape
  <2>2. FilePending(f) => FilePending(f)'
    BY <1>2, <2>1, AddedJobs DEF FilePending
  <2>3. CASE current # Idle
    <3>1. current' = current
      BY <1>2, <2>3 DEF Adds
    <3> QED
      BY <2>2, <3>1 DEF FileCovered, FileAtHand, FileDone, FileLeftAlone, TaskIsFresh,
                        Busy, UpToDate, IsFull
  <2>4. CASE current = Idle
    <3>1. pending = <<>> /\ current' = Started(j)
      BY <1>2, <2>4 DEF Adds
    <3>2. settings' \in Backends /\ generation' \in 0..MaxRefreshes
      BY <1>2 DEF Shape
    <3>3. /\ current' # Idle /\ current'.job = j /\ current'.at = "load"
          /\ current'.generation = generation'
      BY <3>1, <3>2, StartedFields
    <3>4. Busy' /\ UpToDate'
      BY <3>3 DEF Busy, UpToDate
    <3>5. FileDone(f)
      BY <2>4, <3>1 DEF FileCovered, FilePending, FileAtHand, Busy
    <3>6. CASE f \in j.files
      BY <3>3, <3>4, <3>6 DEF FileCovered, FileAtHand
    <3>7. CASE f \notin j.files
      <4>1. FileLeftAlone(f)'
        BY <1>2, <3>3, <3>7 DEF FileLeftAlone, IsFull
      <4> QED
        BY <3>3, <3>5, <4>1 DEF FileCovered, FileDone
    <3> QED
      BY <3>6, <3>7
  <2> QED
    BY <2>3, <2>4
<1> QED
  BY <1>1, <1>2

(* What waits for a message goes on waiting as jobs are added.             *)
LEMMA MessageStaysCovered ==
    ASSUME Shape, NEW m \in Messages, MessageCovered(m),
           UNCHANGED <<settings, generation, historyPoints>>,
           \/ UNCHANGED <<pending, current>>
           \/ settings # Disabled /\ \E j \in Job : Adds(pending, j)
    PROVE  MessageCovered(m)'
<1>1. CASE UNCHANGED <<pending, current>>
  BY <1>1 DEF MessageCovered, MessagePending, MessageAtHand, MessageDone,
              Busy, UpToDate, IsFull
<1>2. ASSUME settings # Disabled, NEW j \in Job, Adds(pending, j)
      PROVE  MessageCovered(m)'
  <2>1. pending \in Seq(Job)
    BY DEF Shape
  <2>2. MessagePending(m) => MessagePending(m)'
    BY <1>2, <2>1, AddedJobs DEF MessagePending
  <2>3. CASE current # Idle
    <3>1. current' = current
      BY <1>2, <2>3 DEF Adds
    <3> QED
      BY <2>2, <3>1 DEF MessageCovered, MessageAtHand, MessageDone, Busy, UpToDate, IsFull
  <2>4. CASE current = Idle
    <3>1. pending = <<>> /\ current' = Started(j)
      BY <1>2, <2>4 DEF Adds
    <3>2. settings' \in Backends /\ generation' \in 0..MaxRefreshes
      BY <1>2 DEF Shape
    <3>3. /\ current' # Idle /\ current'.job = j /\ current'.at = "load"
          /\ current'.generation = generation'
      BY <3>1, <3>2, StartedFields
    <3>4. Busy' /\ UpToDate'
      BY <3>3 DEF Busy, UpToDate
    <3>5. MessageDone(m)
      BY <2>4, <3>1 DEF MessageCovered, MessagePending, MessageAtHand, Busy
    <3>6. CASE j.kind = "full"
      BY <3>3, <3>4, <3>6 DEF MessageCovered, MessageAtHand, IsFull
    <3>7. CASE j.kind # "full"
      BY <3>3, <3>5, <3>7 DEF MessageCovered, MessageDone, IsFull
    <3> QED
      BY <3>6, <3>7
  <2> QED
    BY <2>3, <2>4
<1> QED
  BY <1>1, <1>2

-----------------------------------------------------------------------------
(* The GUI thread.                                                         *)

(* Versions and bounds are numbers.                                        *)
LEMMA Bounds ==
    /\ Versions \subseteq Nat /\ 0 \in Versions
    /\ MaxVersion \in Nat /\ MaxMessages \in Nat /\ MaxRefreshes \in Nat /\ MaxFaults \in Nat
BY IndexingAssumption DEF Versions

(* Enqueueing what is not a full job begins no pass.                       *)
LEMMA NoPassBegins ==
    ASSUME Shape, UNCHANGED <<settings, generation, index, spoiled>>,
           \/ UNCHANGED <<pending, current>>
           \/ /\ settings # Disabled
              /\ \E j \in Job : Adds(pending, j) /\ j.kind # "full"
    PROVE  /\ InPass' => InPass /\ current' = current
           /\ Trusted' => Trusted
<1>1. InPass' => InPass /\ current' = current
  <2>1. CASE UNCHANGED <<pending, current>>
    BY <2>1 DEF InPass, Busy, IsFull, UpToDate
  <2>2. ASSUME settings # Disabled, NEW j \in Job, Adds(pending, j), j.kind # "full"
        PROVE  InPass' => InPass /\ current' = current
    <3>1. CASE current' = current
      BY <3>1 DEF InPass, Busy, IsFull, UpToDate
    <3>2. CASE current' = Started(j)
      <4>1. settings' \in Backends /\ generation' \in 0..MaxRefreshes
        BY <2>2 DEF Shape
      <4> QED
        BY <2>2, <3>2, <4>1, StartedFields DEF InPass, IsFull
    <3> QED
      BY <2>2, <3>1, <3>2 DEF Adds
  <2> QED
    BY <2>1, <2>2
<1> QED
  BY <1>1 DEF Trusted, Rebuilt, IsFull

(* A document is saved: its job is queued, unless one is or a full job is  *)
(* pending.                                                                *)
LEMMA SavedKeeps == ASSUME IndexInv, DocumentSaved PROVE IndexInv'
<1>1. PICK f \in Files :
        /\ version[f] < MaxVersion
        /\ version' = [version EXCEPT ![f] = @ + 1]
        /\ present' = present \cup {f}
        /\ announced' = IF WillBeSeen(f) THEN announced \cup {f} ELSE announced \ {f}
        /\ UNCHANGED <<messages, settings, generation, tasks, index, backendVars>>
        /\ EnqueueFileJob(f)
  BY DEF DocumentSaved
<1>2. /\ version \in [Files -> Versions] /\ pending \in Seq(Job) /\ messages \in 0..MaxMessages
      /\ announced \subseteq Files /\ present \subseteq Files
  BY DEF IndexInv, Shape
<1>3. UNCHANGED <<tasks, index, points, historyPoints, faults, spoiled, dropped, unread>>
  BY <1>1 DEF backendVars
<1>4. /\ pending' \in Seq(Job) /\ keys' \in Keys /\ current' \in Running \cup {Idle}
      /\ QueueInv'
      /\ \/ /\ UNCHANGED <<pending, current>>
            /\ settings = Disabled \/ keys.root \/ FilePending(f)
         \/ /\ settings # Disabled /\ ~keys.root
            /\ Adds(pending, FileJob(f))
  BY <1>1, FileQueued DEF IndexInv
<1>5. version[f] + 1 \in Versions
  BY <1>1, <1>2, Bounds DEF Versions
<1>6. /\ version' \in [Files -> Versions] /\ version'[f] = version[f] + 1
      /\ \A g \in Files \ {f} : version'[g] = version[g]
  BY <1>1, <1>2, <1>5
<1>7. /\ FileJob(f) \in Job /\ Formed(FileJob(f)) /\ FileJob(f).kind # "full"
      /\ FileJob(f).files = {f}
  BY JobsMade
<1>8. \/ UNCHANGED <<pending, current>>
      \/ settings # Disabled /\ \E j \in Job : Formed(j) /\ Adds(pending, j) /\ j.kind # "full"
  BY <1>4, <1>7
<1>9. Shape'
  BY <1>1, <1>2, <1>3, <1>4, <1>6 DEF IndexInv, Shape
<1>10. GuiStep
  <2>1. \A g \in present' : version'[g] > 0
    <3>1. \A g \in Files : version[g] \in Nat
      BY <1>2, Bounds
    <3> QED
      BY <1>1, <1>2, <1>6, <3>1 DEF IndexInv, VersionInv
  <2>2. \A g \in Files : \/ version'[g] = version[g] /\ (g \in present' => g \in present)
                         \/ version'[g] > version[g]
    <3>1. \A g \in Files : version[g] \in Nat
      BY <1>2, Bounds
    <3> QED
      BY <1>1, <1>6, <3>1
  <2>3. \/ current' = current
        \/ /\ current = Idle
           /\ settings' \in Backends /\ generation' \in 0..MaxRefreshes
           /\ \E j \in Job : Formed(j) /\ current' = Started(j)
    BY <1>1, <1>8 DEF Adds, IndexInv, Shape
  <2> QED
    BY <1>3, <1>6, <2>1, <2>2, <2>3 DEF GuiStep
<1>11. VersionInv' /\ WorkInv' /\ BackedInv'
  BY <1>10, GuiKeepsWork DEF IndexInv
<1>12. PassInv'
  BY <1>1, <1>3, <1>8, GuiKeepsPass DEF IndexInv
<1>13. (InPass' => InPass /\ current' = current) /\ (Trusted' => Trusted)
  BY <1>1, <1>3, <1>8, NoPassBegins DEF IndexInv
<1>14. /\ \A i \in DOMAIN pending : \E k \in DOMAIN pending' : pending'[k] = pending[i]
       /\ \A k \in DOMAIN pending' :
             pending'[k].kind = "full" => \E i \in DOMAIN pending : pending'[k] = pending[i]
  <2>1. CASE UNCHANGED <<pending, current>>
    BY <2>1
  <2>2. CASE Adds(pending, FileJob(f))
    <3> DEFINE j == FileJob(f)
    <3>1. j \in Job /\ j.kind # "full" /\ Adds(pending, j)
      BY <1>7, <2>2
    <3> HIDE DEF j
    <3>2. /\ \A i \in DOMAIN pending : \E k \in DOMAIN pending' : pending'[k] = pending[i]
          /\ \A k \in DOMAIN pending' :
                pending'[k] = j \/ \E i \in DOMAIN pending : pending'[k] = pending[i]
      BY <1>2, <3>1, AddedJobs
    <3> QED
      BY <3>1, <3>2
  <2> QED
    BY <1>4, <2>1, <2>2
<1>15. \A g : FilePending(g) => FilePending(g)'
  BY <1>14 DEF FilePending
<1>16. f \in announced' =>
          /\ settings # Disabled
          /\ keys.root => \E i \in DOMAIN pending :
                             pending[i].kind = "full" /\ f \in pending[i].files
  BY <1>1 DEF WillBeSeen
<1>17. f \in announced' /\ current # Idle => FilePending(f)'
  <2>1. CASE UNCHANGED <<pending, current>>
    BY <1>4, <1>15, <1>16, <2>1, <1>7 DEF FilePending, Adds
  <2>2. CASE Adds(pending, FileJob(f))
    BY <1>2, <1>7, <2>2, AddedJobs DEF FilePending
  <2> QED
    BY <1>4, <2>1, <2>2
<1>18. ListsInv'
  <2>1. announced' \subseteq present'
    BY <1>1 DEF IndexInv, ListsInv
  <2>2. ASSUME NEW k \in DOMAIN pending', pending'[k].kind = "full"
        PROVE  announced' \subseteq pending'[k].files
    <3>1. PICK i \in DOMAIN pending : pending'[k] = pending[i]
      BY <1>14, <2>2
    <3>2. announced \subseteq pending[i].files
      BY <2>2, <3>1 DEF IndexInv, ListsInv
    <3>3. keys.root
      BY <2>2, <3>1 DEF IndexInv, QueueInv, QueueOK
    <3>4. f \in announced' => f \in pending[i].files
      BY <1>16, <2>2, <3>1, <3>3 DEF IndexInv, QueueInv, QueueOK, SameWork
    <3> QED
      BY <1>1, <3>1, <3>2, <3>4
  <2>3. ASSUME InPass', NEW g \in announced'
        PROVE  g \in current'.job.files \/ FilePending(g)'
    <3>1. InPass /\ current' = current /\ current # Idle
      BY <1>13, <2>3 DEF InPass, Busy
    <3>2. CASE g = f
      BY <1>17, <2>3, <3>1, <3>2
    <3>3. CASE g # f
      BY <1>1, <1>15, <2>3, <3>1, <3>3 DEF IndexInv, ListsInv
    <3> QED
      BY <3>2, <3>3
  <2> QED
    BY <2>1, <2>2, <2>3 DEF ListsInv
<1>19. CoverInv'
  <2> SUFFICES ASSUME Trusted'
               PROVE  /\ \A g \in announced' : FileCovered(g)'
                      /\ \A m \in (1..messages') \ unread' : MessageCovered(m)'
    BY DEF CoverInv
  <2>1. Trusted
    BY <1>13
  <2>2. ASSUME NEW g \in announced' PROVE FileCovered(g)'
    <3>1. CASE g # f
      <4>1. g \in Files /\ FileCovered(g) /\ version'[g] = version[g]
        BY <1>1, <1>2, <1>6, <2>1, <2>2, <3>1 DEF IndexInv, CoverInv
      <4> QED
        BY <1>1, <1>3, <1>8, <4>1, FileStaysCovered DEF IndexInv
    <3>2. CASE g = f /\ current # Idle
      BY <1>17, <2>2, <3>2 DEF FileCovered
    <3>3. CASE g = f /\ current = Idle
      <4>1. pending = <<>>
        BY <3>3 DEF IndexInv, QueueInv
      <4>2. ~FilePending(f) /\ ~keys.root /\ settings # Disabled
        BY <1>16, <2>2, <3>3, <4>1 DEF FilePending, IndexInv, QueueInv, QueueOK
      <4>3. current' = Started(FileJob(f))
        BY <1>4, <3>3, <4>2 DEF Adds
      <4>4. settings' \in Backends /\ generation' \in 0..MaxRefreshes
        BY <1>1, <4>2 DEF IndexInv, Shape
      <4>5. FileAtHand(f)'
        BY <1>7, <4>3, <4>4, StartedFields DEF FileAtHand, Busy, UpToDate
      <4> QED
        BY <3>3, <4>5 DEF FileCovered
    <3> QED
      BY <3>1, <3>2, <3>3
  <2>3. ASSUME NEW m \in (1..messages') \ unread' PROVE MessageCovered(m)'
    <3>1. m \in Messages /\ MessageCovered(m)
      BY <1>1, <1>2, <1>3, <2>1, <2>3, Bounds DEF IndexInv, CoverInv, Messages
    <3> QED
      BY <1>1, <1>3, <1>8, <3>1, MessageStaysCovered DEF IndexInv
  <2> QED
    BY <2>2, <2>3
<1> QED
  BY <1>4, <1>9, <1>11, <1>12, <1>18, <1>19 DEF IndexInv

(* A file changes outside, unannounced.                                    *)
LEMMA OutsideKeeps == ASSUME IndexInv, FileChangesOutside PROVE IndexInv'
<1>1. PICK f \in present :
        /\ \/ version[f] < MaxVersion /\ version' = [version EXCEPT ![f] = @ + 1]
              /\ UNCHANGED present
           \/ present' = present \ {f} /\ UNCHANGED version
        /\ announced' = announced \ {f}
        /\ UNCHANGED <<messages, settings, generation, pending, keys, current, tasks,
                       index, backendVars>>
  BY DEF FileChangesOutside
<1>2. /\ version \in [Files -> Versions] /\ present \subseteq Files /\ f \in Files
      /\ announced \subseteq Files
  BY DEF IndexInv, Shape
<1>3. UNCHANGED <<tasks, index, points, historyPoints, faults, spoiled, dropped, unread>>
  BY <1>1 DEF backendVars
<1>4. /\ version' \in [Files -> Versions] /\ present' \subseteq present
      /\ \A g \in Files \ {f} : version'[g] = version[g]
      /\ version'[f] = version[f] \/ version'[f] = version[f] + 1
  <2>1. version[f] < MaxVersion => version[f] + 1 \in Versions
    BY <1>2, Bounds DEF Versions
  <2> QED
    BY <1>1, <1>2, <2>1
<1>5. \A g \in Files : version[g] \in Nat
  BY <1>2, Bounds
<1>6. Shape'
  BY <1>1, <1>2, <1>3, <1>4 DEF IndexInv, Shape
<1>7. QueueInv'
  BY <1>1 DEF IndexInv, QueueInv, QueueOK
<1>8. GuiStep
  <2>1. \A g \in present' : version'[g] > 0
    BY <1>2, <1>4, <1>5 DEF IndexInv, VersionInv
  <2>2. \A g \in Files : \/ version'[g] = version[g] /\ (g \in present' => g \in present)
                         \/ version'[g] > version[g]
    BY <1>4, <1>5
  <2> QED
    BY <1>1, <1>3, <1>4, <2>1, <2>2 DEF GuiStep
<1>9. VersionInv' /\ WorkInv' /\ BackedInv'
  BY <1>8, GuiKeepsWork DEF IndexInv
<1>10. PassInv'
  BY <1>1, <1>3, GuiKeepsPass DEF IndexInv
<1>11. ListsInv'
  BY <1>1 DEF IndexInv, ListsInv, InPass, Busy, IsFull, UpToDate, FilePending
<1>12. CoverInv'
  <2> SUFFICES ASSUME Trusted'
               PROVE  /\ \A g \in announced' : FileCovered(g)'
                      /\ \A m \in (1..messages') \ unread' : MessageCovered(m)'
    BY DEF CoverInv
  <2>1. Trusted
    BY <1>1, <1>3 DEF Trusted, InPass, Rebuilt, Busy, IsFull, UpToDate
  <2>2. ASSUME NEW g \in announced' PROVE FileCovered(g)'
    <3>1. g \in Files /\ FileCovered(g) /\ version'[g] = version[g]
      BY <1>1, <1>2, <1>4, <2>1, <2>2 DEF IndexInv, CoverInv
    <3> QED
      BY <1>1, <1>3, <3>1, FileStaysCovered DEF IndexInv
  <2>3. ASSUME NEW m \in (1..messages') \ unread' PROVE MessageCovered(m)'
    <3>1. messages \in 0..MaxMessages
      BY DEF IndexInv, Shape
    <3>2. m \in Messages /\ MessageCovered(m)
      BY <1>1, <1>3, <2>1, <2>3, <3>1, Bounds DEF IndexInv, CoverInv, Messages
    <3> QED
      BY <1>1, <1>3, <3>2, MessageStaysCovered DEF IndexInv
  <2> QED
    BY <2>2, <2>3
<1> QED
  BY <1>6, <1>7, <1>9, <1>10, <1>11, <1>12 DEF IndexInv

(* A message is appended to the chat.                                      *)
LEMMA AppendedKeeps == ASSUME IndexInv, MessageAppended PROVE IndexInv'
<1>0. PICK n \in Nat : n = messages + 1
  BY Bounds DEF IndexInv, Shape
<1>1. /\ messages < MaxMessages /\ messages' = n
      /\ UNCHANGED <<version, present, settings, generation, tasks, index, announced,
                     backendVars>>
      /\ EnqueueHistoryJob(n)
  BY <1>0 DEF MessageAppended
<1>2. /\ messages \in 0..MaxMessages /\ n \in Messages /\ n \in 0..MaxMessages
      /\ pending \in Seq(Job) /\ announced \subseteq Files
  BY <1>0, <1>1, Bounds DEF IndexInv, Shape, Messages
<1>3. 1..n = (1..messages) \cup {n}
  BY <1>0, <1>2, Bounds
<1>4. 1..messages \subseteq Messages
  BY <1>2, Bounds DEF Messages
<1>5. UNCHANGED <<tasks, index, points, historyPoints, faults, spoiled, dropped, unread>>
  BY <1>1 DEF backendVars
<1>6. /\ pending' \in Seq(Job) /\ keys' \in Keys /\ current' \in Running \cup {Idle}
      /\ QueueInv'
      /\ \/ /\ UNCHANGED <<pending, current>>
            /\ settings = Disabled \/ MessagePending(n)
         \/ settings # Disabled /\ Adds(pending, HistoryJob(n))
  BY <1>1, <1>2, HistoryQueued DEF IndexInv
<1>7. /\ HistoryJob(n) \in Job /\ Formed(HistoryJob(n)) /\ HistoryJob(n).kind # "full"
      /\ HistoryJob(n).message = n
  BY <1>2, JobsMade
<1>8. \/ UNCHANGED <<pending, current>>
      \/ settings # Disabled /\ \E j \in Job : Formed(j) /\ Adds(pending, j) /\ j.kind # "full"
  BY <1>6, <1>7
<1>9. Shape'
  BY <1>1, <1>2, <1>5, <1>6 DEF IndexInv, Shape
<1>10. GuiStep
  <2>1. \/ current' = current
        \/ /\ current = Idle
           /\ settings' \in Backends /\ generation' \in 0..MaxRefreshes
           /\ \E j \in Job : Formed(j) /\ current' = Started(j)
    BY <1>1, <1>8 DEF Adds, IndexInv, Shape
  <2> QED
    BY <1>1, <1>5, <2>1 DEF GuiStep, IndexInv, Shape, VersionInv
<1>11. VersionInv' /\ WorkInv' /\ BackedInv'
  BY <1>10, GuiKeepsWork DEF IndexInv
<1>12. PassInv'
  BY <1>1, <1>5, <1>8, GuiKeepsPass DEF IndexInv
<1>13. (InPass' => InPass /\ current' = current) /\ (Trusted' => Trusted)
  BY <1>1, <1>5, <1>8, NoPassBegins DEF IndexInv
<1>14. /\ \A i \in DOMAIN pending : \E k \in DOMAIN pending' : pending'[k] = pending[i]
       /\ \A k \in DOMAIN pending' :
             pending'[k].kind = "full" => \E i \in DOMAIN pending : pending'[k] = pending[i]
       /\ current # Idle /\ Adds(pending, HistoryJob(n)) => MessagePending(n)'
  <2>1. CASE UNCHANGED <<pending, current>> /\ ~Adds(pending, HistoryJob(n))
    BY <2>1
  <2>2. CASE Adds(pending, HistoryJob(n))
    <3> DEFINE j == HistoryJob(n)
    <3>1. j \in Job /\ j.kind # "full" /\ Adds(pending, j) /\ j.message = n
      BY <1>7, <2>2
    <3> HIDE DEF j
    <3>2. /\ \A i \in DOMAIN pending : \E k \in DOMAIN pending' : pending'[k] = pending[i]
          /\ \A k \in DOMAIN pending' :
                pending'[k] = j \/ \E i \in DOMAIN pending : pending'[k] = pending[i]
          /\ current # Idle => \E k \in DOMAIN pending' : pending'[k] = j
      BY <1>2, <3>1, AddedJobs
    <3> QED
      BY <3>1, <3>2 DEF MessagePending
  <2> QED
    BY <1>6, <2>1, <2>2
<1>15. ListsInv'
  <2>1. \A g : FilePending(g) => FilePending(g)'
    BY <1>14 DEF FilePending
  <2>2. \A k \in DOMAIN pending' : pending'[k].kind = "full" => announced' \subseteq pending'[k].files
    BY <1>1, <1>14 DEF IndexInv, ListsInv
  <2> QED
    BY <1>1, <1>13, <2>1, <2>2 DEF IndexInv, ListsInv
<1>16. CoverInv'
  <2> SUFFICES ASSUME Trusted'
               PROVE  /\ \A g \in announced' : FileCovered(g)'
                      /\ \A m \in (1..messages') \ unread' : MessageCovered(m)'
    BY DEF CoverInv
  <2>1. Trusted
    BY <1>13
  <2>2. ASSUME NEW g \in announced' PROVE FileCovered(g)'
    <3>1. g \in Files /\ FileCovered(g) /\ version'[g] = version[g]
      BY <1>1, <1>2, <2>1, <2>2 DEF IndexInv, CoverInv
    <3> QED
      BY <1>1, <1>5, <1>8, <3>1, FileStaysCovered DEF IndexInv
  <2>3. ASSUME NEW m \in (1..messages') \ unread' PROVE MessageCovered(m)'
    <3>1. CASE m # n
      <4>1. m \in Messages /\ MessageCovered(m)
        BY <1>1, <1>3, <1>4, <1>5, <2>1, <2>3, <3>1 DEF IndexInv, CoverInv
      <4> QED
        BY <1>1, <1>5, <1>8, <4>1, MessageStaysCovered DEF IndexInv
    <3>2. CASE m = n /\ UNCHANGED <<pending, current>> /\ MessagePending(n)
      BY <3>2 DEF MessageCovered, MessagePending
    <3>3. CASE m = n /\ Adds(pending, HistoryJob(n)) /\ current # Idle
      BY <1>14, <3>3 DEF MessageCovered
    <3>4. CASE m = n /\ Adds(pending, HistoryJob(n)) /\ current = Idle
      <4>1. current' = Started(HistoryJob(n))
        BY <3>4 DEF Adds
      <4>2. settings' \in Backends /\ generation' \in 0..MaxRefreshes
        BY <1>1, <2>1 DEF IndexInv, Shape, Trusted
      <4>3. MessageAtHand(n)'
        BY <1>7, <4>1, <4>2, StartedFields DEF MessageAtHand, Busy, UpToDate
      <4> QED
        BY <3>4, <4>3 DEF MessageCovered
    <3> QED
      BY <1>6, <2>1, <3>1, <3>2, <3>3, <3>4 DEF Trusted
  <2> QED
    BY <2>2, <2>3
<1> QED
  BY <1>6, <1>9, <1>11, <1>12, <1>15, <1>16 DEF IndexInv

(* All that there is becomes work of a full job that waits or begins.      *)
LEMMA FullJobCovers ==
    ASSUME NEW q \in Seq(Job), NEW fs \in SUBSET Files, Adds(q, FullJob(fs)),
           settings' \in Backends, generation' \in 0..MaxRefreshes
    PROVE  /\ \A f \in fs : FileCovered(f)'
           /\ \A m : MessageCovered(m)'
           /\ \A f \in fs : current' = current => FilePending(f)'
<1> DEFINE j == FullJob(fs)
<1>1. j \in Job /\ j.kind = "full" /\ j.files = fs /\ Adds(q, j)
  BY JobsMade
<1> HIDE DEF j
<1>2. CASE current # Idle
  <2>1. \E k \in DOMAIN pending' : pending'[k] = j
    BY <1>1, <1>2, AddedJobs
  <2> QED
    BY <1>1, <2>1 DEF FileCovered, FilePending, MessageCovered, MessagePending
<1>3. CASE current = Idle
  <2>1. current' = Started(j)
    BY <1>1, <1>3 DEF Adds
  <2>2. Busy' /\ UpToDate' /\ IsFull' /\ current'.at = "load" /\ current'.job = j
    BY <1>1, <2>1, StartedFields DEF Busy, UpToDate, IsFull
  <2> QED
    BY <1>1, <1>3, <2>2 DEF FileCovered, FileAtHand, MessageCovered, MessageAtHand, Busy
<1> QED
  BY <1>2, <1>3

(* A step of somebody else.                                                *)
LEMMA NothingKeeps == ASSUME IndexInv, UNCHANGED indexingVars PROVE IndexInv'
<1>1. UNCHANGED <<version, present, messages, settings, generation, pending, keys, current,
                  tasks, index, points, historyPoints, faults, announced, spoiled, dropped, unread>>
  BY DEF indexingVars, guiVars, backendVars
<1>2. Shape' /\ VersionInv' /\ QueueInv'
  BY <1>1 DEF IndexInv, Shape, VersionInv, QueueInv, QueueOK
<1>3. WorkInv'
  BY <1>1 DEF IndexInv, WorkInv, Busy, IsFull, Rebuilt
<1>4. PassInv'
  BY <1>1 DEF IndexInv, PassInv, HeadFull, Settled, InPass, Busy, IsFull, UpToDate
<1>5. BackedInv'
  BY <1>1 DEF IndexInv, BackedInv, Agrees, InHand, Busy, Rebuilt, IsFull
<1>6. ListsInv'
  BY <1>1 DEF IndexInv, ListsInv, InPass, Busy, IsFull, UpToDate, FilePending
<1>7. CoverInv'
  <2>1. Trusted' => Trusted
    BY <1>1 DEF Trusted, InPass, Rebuilt, Busy, IsFull, UpToDate
  <2>2. \A f : FileCovered(f) => FileCovered(f)'
    BY <1>1 DEF FileCovered, FilePending, FileAtHand, FileDone, FileLeftAlone, TaskIsFresh,
                Busy, UpToDate, IsFull
  <2>3. \A m : MessageCovered(m) => MessageCovered(m)'
    BY <1>1 DEF MessageCovered, MessagePending, MessageAtHand, MessageDone,
                Busy, UpToDate, IsFull
  <2> QED
    BY <1>1, <2>1, <2>2, <2>3 DEF IndexInv, CoverInv
<1> QED
  BY <1>2, <1>3, <1>4, <1>5, <1>6, <1>7 DEF IndexInv

(* A project is added: a full job is queued, unless one is.                *)
LEMMA AddedKeeps == ASSUME IndexInv, ProjectAdded PROVE IndexInv'
<1>1. /\ settings # Disabled
      /\ announced' = IF keys.root THEN announced ELSE announced \cup present
      /\ UNCHANGED <<version, present, messages, settings, generation, tasks, index,
                     backendVars>>
      /\ EnqueueFullWorkspaceJob(pending, keys)
  BY DEF ProjectAdded
<1>2. /\ pending \in Seq(Job) /\ keys \in Keys /\ current \in Running \cup {Idle}
      /\ present \in SUBSET Files /\ announced \subseteq present
      /\ QueueOK(pending, keys) /\ (current = Idle => pending = <<>>)
  BY DEF IndexInv, Shape, QueueInv, ListsInv
<1>3. UNCHANGED <<tasks, index, points, historyPoints, faults, spoiled, dropped, unread>>
  BY <1>1 DEF backendVars
<1>4. CASE keys.root
  <2>1. StartNextJob(pending, keys, current)
    BY <1>1, <1>4 DEF EnqueueFullWorkspaceJob
  <2>2. UNCHANGED <<pending, keys, current>>
    BY <1>2, <2>1 DEF StartNextJob
  <2> QED
    BY <1>1, <1>4, <2>2, NothingKeeps DEF indexingVars, guiVars
<1>5. CASE ~keys.root
  <2> DEFINE j == FullJob(present)
  <2>1. settings' \in Backends /\ generation' \in 0..MaxRefreshes
    BY <1>1 DEF IndexInv, Shape
  <2>2. /\ pending' \in Seq(Job) /\ keys' \in Keys /\ current' \in Running
        /\ QueueInv' /\ Adds(pending, FullJob(present))
    BY <1>1, <1>2, <1>5, <2>1, WorkspaceQueued
  <2>3. PICK fs \in SUBSET Files : fs = present
    BY <1>2
  <2>4. /\ FullJob(fs) \in Job /\ Formed(FullJob(fs)) /\ FullJob(fs).kind = "full"
        /\ FullJob(fs).files = fs /\ Adds(pending, FullJob(fs))
    BY <2>2, <2>3, JobsMade
  <2>5. announced' = fs /\ present' = fs
    BY <1>1, <1>2, <1>5, <2>3
  <2>6. Shape'
    BY <1>1, <1>2, <1>3, <2>2, <2>5 DEF IndexInv, Shape
  <2>7. GuiStep
    <3>1. \/ current' = current
          \/ /\ current = Idle
             /\ settings' \in Backends /\ generation' \in 0..MaxRefreshes
             /\ \E k \in Job : Formed(k) /\ current' = Started(k)
      BY <2>1, <2>4 DEF Adds
    <3> QED
      BY <1>1, <1>3, <3>1 DEF GuiStep, IndexInv, Shape, VersionInv
  <2>8. VersionInv' /\ WorkInv' /\ BackedInv'
    BY <2>7, GuiKeepsWork DEF IndexInv
  <2>9. PassInv'
    BY <1>1, <1>3, <2>4, GuiKeepsPass DEF IndexInv
  <2>10. /\ \A f \in fs : FileCovered(f)'
         /\ \A m : MessageCovered(m)'
         /\ \A f \in fs : current' = current => FilePending(f)'
    BY <1>2, <2>1, <2>4, FullJobCovers
  <2>11. ListsInv'
    <3>1. ASSUME NEW k \in DOMAIN pending', pending'[k].kind = "full"
          PROVE  announced' \subseteq pending'[k].files
      <4>1. pending'[k] = FullJob(fs) \/ \E i \in DOMAIN pending : pending'[k] = pending[i]
        BY <1>2, <2>4, AddedJobs
      <4>2. \A i \in DOMAIN pending : pending[i].kind # "full"
        BY <1>2, <1>5 DEF QueueOK
      <4> QED
        BY <2>4, <2>5, <3>1, <4>1, <4>2
    <3>2. ASSUME InPass', NEW f \in announced' PROVE f \in current'.job.files \/ FilePending(f)'
      <4>1. CASE current' = current
        BY <2>5, <2>10, <3>2, <4>1
      <4>2. CASE current' = Started(FullJob(fs))
        BY <2>1, <2>4, <2>5, <3>2, <4>2, StartedFields
      <4> QED
        BY <2>4, <4>1, <4>2 DEF Adds
    <3> QED
      BY <2>5, <3>1, <3>2 DEF ListsInv
  <2>12. CoverInv'
    BY <2>5, <2>10 DEF CoverInv
  <2> QED
    BY <2>2, <2>6, <2>8, <2>9, <2>11, <2>12 DEF IndexInv
<1> QED
  BY <1>4, <1>5

(* Whatever ran is cancelled: a full job of the new settings is the first. *)
LEMMA RefreshKeeps == ASSUME IndexInv, RefreshFromSettings PROVE IndexInv'
<1>1. /\ generation < MaxRefreshes
      /\ generation' = generation + 1
      /\ settings' \in Backends \cup {Disabled}
      /\ announced' = IF settings' = Disabled THEN {} ELSE present
      /\ UNCHANGED <<version, present, messages, tasks, index, backendVars>>
      /\ EnqueueFullWorkspaceJob(<<>>, NoKeys)
  BY DEF RefreshFromSettings
<1>2. /\ current \in Running \cup {Idle} /\ present \in SUBSET Files
      /\ generation \in Nat /\ generation' \in 0..MaxRefreshes
      /\ <<>> \in Seq(Job)
  BY <1>1, Bounds DEF IndexInv, Shape
<1>3. UNCHANGED <<tasks, index, points, historyPoints, faults, spoiled, dropped, unread>>
  BY <1>1 DEF backendVars
<1>4. NoKeys \in Keys /\ QueueOK(<<>>, NoKeys) /\ ~NoKeys.root
  BY DEF NoKeys, Keys, QueueOK
<1>5. current # Idle =>
          /\ current.generation \in Nat /\ current.generation <= generation
          /\ (Busy /\ current.job.kind = "file"
                 => index.backend = current.backend \/ current.backend \in spoiled)
  <2> SUFFICES ASSUME current # Idle
               PROVE  /\ current.generation \in Nat /\ current.generation <= generation
                      /\ (Busy /\ current.job.kind = "file"
                             => index.backend = current.backend \/ current.backend \in spoiled)
    OBVIOUS
  <2>1. current.generation \in 0..MaxRefreshes
    BY <1>2, RunningFields
  <2>2. current.generation \in Nat
    BY <2>1, Bounds
  <2> QED
    BY <2>2 DEF IndexInv, PassInv
<1>6. CASE settings' = Disabled
  <2>1. StartNextJob(<<>>, NoKeys, current)
    BY <1>1, <1>6 DEF EnqueueFullWorkspaceJob
  <2>2. pending' = <<>> /\ keys' = NoKeys /\ current' = current
    BY <2>1 DEF StartNextJob
  <2>3. Shape'
    BY <1>1, <1>2, <1>3, <1>4, <1>6, <2>2 DEF IndexInv, Shape
  <2>4. QueueInv'
    BY <1>4, <2>2 DEF QueueInv, QueueOK
  <2>5. GuiStep
    BY <1>1, <1>3, <2>2 DEF GuiStep, IndexInv, Shape, VersionInv
  <2>6. VersionInv' /\ WorkInv' /\ BackedInv'
    BY <2>5, GuiKeepsWork DEF IndexInv
  <2>7. PassInv'
    BY <1>1, <1>2, <1>3, <1>5, <1>6, <2>2 DEF PassInv, UpToDate, Busy
  <2>8. ListsInv'
    BY <1>1, <1>6, <2>2 DEF ListsInv
  <2>9. CoverInv'
    BY <1>6 DEF CoverInv, Trusted
  <2> QED
    BY <2>3, <2>4, <2>6, <2>7, <2>8, <2>9 DEF IndexInv
<1>7. CASE settings' # Disabled
  <2>1. settings' \in Backends
    BY <1>1, <1>7
  <2>2. /\ pending' \in Seq(Job) /\ keys' \in Keys /\ current' \in Running
        /\ QueueInv' /\ Adds(<<>>, FullJob(present))
    BY <1>1, <1>2, <1>4, <2>1, WorkspaceQueued
  <2>3. PICK fs \in SUBSET Files : fs = present
    BY <1>2
  <2>4. /\ FullJob(fs) \in Job /\ Formed(FullJob(fs)) /\ FullJob(fs).kind = "full"
        /\ FullJob(fs).files = fs /\ Adds(<<>>, FullJob(fs))
    BY <2>2, <2>3, JobsMade
  <2>5. announced' = fs /\ present' = fs
    BY <1>1, <1>7, <2>3
  <2>6. Shape'
    BY <1>1, <1>2, <1>3, <2>2, <2>5 DEF IndexInv, Shape
  <2>7. GuiStep
    <3>1. \/ current' = current
          \/ /\ current = Idle
             /\ settings' \in Backends /\ generation' \in 0..MaxRefreshes
             /\ \E k \in Job : Formed(k) /\ current' = Started(k)
      BY <1>2, <2>1, <2>4 DEF Adds
    <3> QED
      BY <1>1, <1>3, <3>1 DEF GuiStep, IndexInv, Shape, VersionInv
  <2>8. VersionInv' /\ WorkInv' /\ BackedInv'
    BY <2>7, GuiKeepsWork DEF IndexInv
  <2>9. /\ \A f \in fs : FileCovered(f)'
        /\ \A m : MessageCovered(m)'
        /\ \A f \in fs : current' = current => FilePending(f)'
    BY <1>2, <2>1, <2>4, FullJobCovers
  <2>10. ASSUME current # Idle PROVE PassInv' /\ ListsInv'
    <3>1. current' = current /\ pending' = <<FullJob(fs)>>
      BY <2>4, <2>10 DEF Adds
    <3>2. ~UpToDate'
      BY <1>1, <1>2, <1>5, <2>10, <3>1 DEF UpToDate
    <3>3. HeadFull'
      BY <2>4, <3>1 DEF HeadFull
    <3>4. PassInv'
      BY <1>1, <1>2, <1>3, <1>5, <2>10, <3>1, <3>2, <3>3 DEF PassInv, Busy
    <3>5. \A i \in DOMAIN pending' : pending'[i] = FullJob(fs)
      BY <3>1
    <3>6. ListsInv'
      BY <2>4, <2>5, <3>2, <3>5 DEF ListsInv, InPass
    <3> QED
      BY <3>4, <3>6
  <2>11. ASSUME current = Idle PROVE PassInv' /\ ListsInv'
    <3>1. current' = Started(FullJob(fs)) /\ pending' = <<>>
      BY <2>4, <2>11 DEF Adds
    <3>2. /\ current' # Idle /\ current'.job = FullJob(fs) /\ current'.at = "load"
          /\ current'.backend = settings' /\ current'.generation = generation'
      BY <1>2, <2>1, <2>4, <3>1, StartedFields
    <3>3. InPass'
      BY <2>4, <3>2 DEF InPass, Busy, IsFull, UpToDate
    <3>4. PassInv'
      BY <1>2, <2>4, <3>2, <3>3 DEF PassInv, UpToDate
    <3>5. DOMAIN pending' = {}
      BY <3>1
    <3>6. ListsInv'
      BY <2>4, <2>5, <3>2, <3>5 DEF ListsInv
    <3> QED
      BY <3>4, <3>6
  <2>12. CoverInv'
    BY <2>5, <2>9 DEF CoverInv
  <2> QED
    BY <2>2, <2>6, <2>8, <2>10, <2>11, <2>12 DEF IndexInv
<1> QED
  BY <1>6, <1>7

(* The job is over: the next one starts.                                   *)
LEMMA FinishedKeeps == ASSUME IndexInv, HandleJobFinished PROVE IndexInv'
<1>1. /\ current # Idle /\ current.at = "over"
      /\ tasks' = [f \in Files |-> NoTask]
      /\ UNCHANGED <<version, present, messages, settings, generation, announced>>
      /\ UNCHANGED <<index, points, historyPoints, faults, spoiled, dropped, unread>>
      /\ StartNextJob(pending, keys, Idle)
  BY DEF HandleJobFinished, guiVars, backendVars
<1>2. /\ pending \in Seq(Job) /\ keys \in Keys /\ QueueOK(pending, keys)
      /\ announced \subseteq Files
  BY DEF IndexInv, Shape, QueueInv
<1>3. ~Busy /\ ~InPass
  BY <1>1 DEF Busy, InPass
<1>4. /\ tasks' \in [Files -> Task]
      /\ \A f \in Files : tasks'[f].at = "none" /\ tasks'[f].state = 0 /\ tasks'[f].text = 0
  BY <1>1, Bounds DEF NoTask, Task
<1>5. Cardinality({f \in Files : tasks'[f].at # "none"}) <= Threads
  <2>1. {f \in Files : tasks'[f].at # "none"} = {}
    BY <1>4
  <2>2. Cardinality({}) = 0 /\ 0 <= Threads
    BY FS_EmptySet, IndexingAssumption
  <2> QED
    BY <2>1, <2>2
<1>6. CASE pending = <<>>
  <2>1. pending' = <<>> /\ keys' = keys /\ current' = Idle
    BY <1>1, <1>6 DEF StartNextJob
  <2>2. Shape'
    BY <1>1, <1>4, <1>5, <1>6, <2>1 DEF IndexInv, Shape
  <2>3. VersionInv'
    <3>1. \A f \in Files : version[f] \in Nat
      BY Bounds DEF IndexInv, Shape
    <3> QED
      BY <1>1, <1>4, <2>1, <3>1 DEF IndexInv, VersionInv
  <2>4. QueueInv' /\ WorkInv'
    BY <1>1, <1>4, <1>6, <2>1 DEF IndexInv, QueueInv, QueueOK, WorkInv
  <2>5. PassInv'
    BY <1>1, <1>3, <1>6, <2>1 DEF IndexInv, PassInv, HeadFull, Settled
  <2>6. BackedInv'
    BY <1>1, <2>1 DEF IndexInv, BackedInv, Agrees, InHand, Busy
  <2>7. ListsInv'
    BY <1>1, <2>1 DEF IndexInv, ListsInv, InPass, Busy
  <2>8. Trusted' => Trusted
    BY <1>1, <2>1 DEF Trusted, InPass, Busy
  <2>9. ASSUME NEW f \in announced, FileCovered(f) PROVE FileCovered(f)'
    BY <1>1, <1>3, <1>6, <2>1, <2>9
       DEF FileCovered, FilePending, FileAtHand, FileDone, FileLeftAlone, Busy
  <2>10. ASSUME NEW m, MessageCovered(m) PROVE MessageCovered(m)'
    BY <1>1, <1>3, <1>6, <2>1, <2>10
       DEF MessageCovered, MessagePending, MessageAtHand, MessageDone, Busy
  <2>11. CoverInv'
    BY <1>1, <2>8, <2>9, <2>10 DEF IndexInv, CoverInv
  <2> QED
    BY <2>2, <2>3, <2>4, <2>5, <2>6, <2>7, <2>11 DEF IndexInv
<1>7. CASE pending # <<>>
  <2>1. PICK j \in Job : j = Head(pending) /\ j = pending[1] /\ 1 \in DOMAIN pending
    BY <1>2, <1>7
  <2>2. pending' = Tail(pending) /\ keys' = Released(keys, j) /\ current' = Started(j)
    BY <1>1, <1>7, <2>1 DEF StartNextJob
  <2>3. Formed(j) /\ pending' \in Seq(Job) /\ QueueOK(pending', keys') /\ keys' \in Keys
    BY <1>2, <1>7, <2>1, <2>2, TakeJob, KeysEdit
  <2>4. settings # Disabled /\ settings' \in Backends /\ generation' \in 0..MaxRefreshes
    BY <1>1, <1>7 DEF IndexInv, QueueInv, Shape
  <2>5. /\ current' \in Running /\ current' # Idle /\ current'.job = j /\ current'.at = "load"
        /\ current'.backend = settings' /\ current'.generation = generation'
        /\ current'.state = Nothing /\ current'.toDelete = {} /\ current'.toIndex = {}
        /\ current'.history = {}
    BY <2>2, <2>4, StartedFields
  <2>6. Busy' /\ UpToDate' /\ (IsFull' <=> j.kind = "full")
    BY <2>5 DEF Busy, UpToDate, IsFull
  <2>7. Shape'
    BY <1>1, <1>4, <1>5, <2>3, <2>5 DEF IndexInv, Shape
  <2>8. VersionInv'
    <3>1. \A f \in Files : version[f] \in Nat
      BY Bounds DEF IndexInv, Shape
    <3>2. \A f \in Files : current'.state[f] = 0
      BY <2>5 DEF Nothing
    <3> QED
      BY <1>1, <1>4, <3>1, <3>2 DEF IndexInv, VersionInv
  <2>9. QueueInv'
    BY <1>1, <2>3, <2>4, <2>5 DEF QueueInv, QueueOK
  <2>10. WorkInv'
    <3>1. j.kind \in {"full", "file", "history"}
      BY JobFields
    <3>2. "load" \in StepsOf(j.kind)
      BY <3>1 DEF StepsOf, Steps
    <3> QED
      BY <1>1, <1>4, <2>3, <2>5, <3>2 DEF IndexInv, WorkInv
  <2>11. PassInv'
    <3>1. j.kind = "full" \/ Settled
      BY <1>3, <2>1, <2>4 DEF IndexInv, PassInv, HeadFull
    <3>2. generation' \in Nat
      BY <2>4, Bounds
    <3> QED
      BY <1>1, <2>5, <2>6, <3>1, <3>2 DEF PassInv, Settled, InPass, UpToDate
  <2>12. BackedInv'
    BY <1>1, <2>5 DEF IndexInv, BackedInv, Agrees, InHand, Busy
  <2>13. \A k \in DOMAIN pending' : \E i \in DOMAIN pending : pending'[k] = pending[i]
    BY <1>2, <1>7, <2>2, TailAt
  <2>14. \A i \in DOMAIN pending : pending[i] = j \/ \E k \in DOMAIN pending' : pending'[k] = pending[i]
    BY <1>2, <1>7, <2>1, <2>2, TailAt
  <2>15. j.kind = "full" => announced \subseteq j.files
    BY <2>1 DEF IndexInv, ListsInv
  <2>16. ListsInv'
    BY <1>1, <2>5, <2>6, <2>13, <2>15 DEF IndexInv, ListsInv, InPass
  <2>17. ASSUME NEW f \in announced, f \in j.files \/ FileCovered(f)
         PROVE  FileCovered(f)'
    <3>1. CASE f \in j.files
      BY <2>5, <2>6, <3>1 DEF FileCovered, FileAtHand
    <3>2. CASE f \notin j.files /\ FilePending(f)
      BY <2>14, <3>2 DEF FileCovered, FilePending
    <3>3. CASE f \notin j.files /\ FileDone(f)
      <4>1. j.kind # "full"
        BY <2>15, <3>3
      <4> QED
        BY <1>1, <2>5, <2>6, <3>3, <4>1 DEF FileCovered, FileDone, FileLeftAlone
    <3> QED
      BY <1>3, <2>17, <3>1, <3>2, <3>3 DEF FileCovered, FileAtHand
  <2>18. ASSUME NEW m, j.kind = "full" \/ MessageCovered(m)
         PROVE  MessageCovered(m)'
    <3>1. CASE j.kind = "full" \/ j.message = m
      BY <2>5, <2>6, <3>1 DEF MessageCovered, MessageAtHand
    <3>2. CASE ~(j.kind = "full" \/ j.message = m) /\ MessagePending(m)
      BY <2>14, <3>2 DEF MessageCovered, MessagePending
    <3>3. CASE j.kind # "full" /\ MessageDone(m)
      BY <1>1, <2>6, <3>3 DEF MessageCovered, MessageDone
    <3> QED
      BY <1>3, <2>18, <3>1, <3>2, <3>3 DEF MessageCovered, MessageAtHand
  <2>19. CoverInv'
    <3>1. Trusted' => j.kind = "full" \/ Trusted
      BY <1>1, <2>6 DEF Trusted, InPass
    <3> QED
      BY <1>1, <2>15, <2>17, <2>18, <3>1 DEF IndexInv, CoverInv
  <2> QED
    BY <2>7, <2>8, <2>9, <2>10, <2>11, <2>12, <2>16, <2>19 DEF IndexInv
<1> QED
  BY <1>6, <1>7

-----------------------------------------------------------------------------
(* The worker thread: its steps leave the queue and the files alone.       *)

WorkerFrame ==
    /\ current \in Running /\ current' \in Running /\ Busy
    /\ current'.job = current.job
    /\ current'.backend = current.backend /\ current'.generation = current.generation
    /\ UNCHANGED <<version, present, messages, settings, generation, announced,
                   pending, keys>>

(* A step of the worker leaves the queue, and the lists of the jobs in it. *)
LEMMA WorkerKeepsQueue ==
    ASSUME IndexInv, WorkerFrame
    PROVE  /\ QueueInv' /\ ListsInv'
           /\ (UpToDate' <=> UpToDate) /\ (IsFull' <=> IsFull)
           /\ InPass' => InPass
           /\ Busy' => (InPass' <=> InPass)
<1>1. current' # Idle /\ current # Idle
  BY RunningFields DEF WorkerFrame
<1>2. QueueInv'
  BY <1>1 DEF WorkerFrame, IndexInv, QueueInv, QueueOK
<1>3. (UpToDate' <=> UpToDate) /\ (IsFull' <=> IsFull)
  BY DEF WorkerFrame, UpToDate, IsFull
<1>4. InPass' => InPass
  BY <1>3 DEF WorkerFrame, InPass
<1>5. ListsInv'
  BY <1>4 DEF WorkerFrame, IndexInv, ListsInv, FilePending
<1> QED
  BY <1>2, <1>3, <1>4, <1>5 DEF WorkerFrame, InPass

(* While a cancelled job winds down, a full job that looks at everything   *)
(* is the next.                                                            *)
LEMMA StaleIsCovered ==
    ASSUME IndexInv, WorkerFrame, ~UpToDate
    PROVE  CoverInv'
<1>1. CASE settings # Disabled
  <2>1. current # Idle
    BY RunningFields DEF WorkerFrame
  <2>2. HeadFull
    BY <1>1, <2>1 DEF IndexInv, PassInv
  <2>3. 1 \in DOMAIN pending /\ Head(pending) = pending[1]
    BY <2>2 DEF HeadFull, IndexInv, Shape
  <2>4. \A f \in announced : FilePending(f)
    BY <2>2, <2>3 DEF HeadFull, FilePending, IndexInv, ListsInv
  <2>5. \A m : MessagePending(m)
    BY <2>2, <2>3 DEF HeadFull, MessagePending
  <2> QED
    BY <2>4, <2>5 DEF CoverInv, FileCovered, MessageCovered, FilePending, MessagePending,
                      WorkerFrame
<1>2. CASE settings = Disabled
  BY <1>2 DEF CoverInv, Trusted, WorkerFrame
<1> QED
  BY <1>1, <1>2

(* A step after which the job goes on.                                     *)
LEMMA WorkerKeeps ==
    ASSUME IndexInv, WorkerFrame, Busy', UNCHANGED <<index, spoiled>>,
           Shape', VersionInv', WorkInv', BackedInv',
           UpToDate /\ Trusted /\ settings = current.backend =>
               /\ \A f \in announced : FileCovered(f) => FileCovered(f)'
               /\ \A m \in (1..messages) \ unread' :
                      (m \notin unread => MessageCovered(m)) => MessageCovered(m)'
    PROVE  IndexInv'
<1>1. /\ QueueInv' /\ ListsInv'
      /\ (UpToDate' <=> UpToDate) /\ (IsFull' <=> IsFull) /\ (InPass' <=> InPass)
  BY WorkerKeepsQueue
<1>2. current # Idle /\ current' # Idle
  BY RunningFields DEF WorkerFrame
<1>3. PassInv'
  BY <1>1, <1>2 DEF WorkerFrame, IndexInv, PassInv, HeadFull, Settled
<1>4. CoverInv'
  <2>1. CASE ~UpToDate
    BY <2>1, StaleIsCovered
  <2>2. CASE UpToDate
    <3>1. settings = current.backend
      BY <1>2, <2>2 DEF IndexInv, PassInv
    <3>2. Trusted' => Trusted
      BY <1>1 DEF Trusted, Rebuilt, IsFull, WorkerFrame
    <3> QED
      BY <2>2, <3>1, <3>2 DEF CoverInv, IndexInv, WorkerFrame
  <2> QED
    BY <2>1, <2>2
<1> QED
  BY <1>1, <1>3, <1>4 DEF IndexInv

(* The job ends: cancelled, or with a failure that spoils its backend.     *)
LEMMA EndKeeps ==
    ASSUME IndexInv, Busy, GoTo("over"), WorkerOnly, UNCHANGED <<tasks, index, dropped, unread>>,
           faults' \in 0..MaxFaults,
           points' \in [Backends -> [Files -> Versions]],
           historyPoints' \in [Backends -> SUBSET Messages],
           \A b \in Backends, f \in Files :
               points'[b][f] = points[b][f] \/ (b = current.backend /\ points'[b][f] = 0),
           \/ ~UpToDate /\ IsFull /\ spoiled' = spoiled
              /\ UNCHANGED <<points, historyPoints>>
           \/ spoiled' = spoiled \cup {current.backend}
    PROVE  IndexInv'
<1>1. /\ current \in Running /\ current # Idle /\ current.backend \in Backends
      /\ current.state \in [Files -> Versions]
  BY RunningFields DEF IndexInv, Shape, Busy
<1>2. UNCHANGED <<version, present, messages, settings, generation, announced, pending, keys>>
  BY DEF WorkerOnly, guiVars
<1>3. current' = [current EXCEPT !.at = "over"]
  BY DEF GoTo
<1>4. /\ current' \in Running /\ current'.at = "over" /\ current' # Idle
      /\ current'.job = current.job /\ current'.backend = current.backend
      /\ current'.generation = current.generation /\ current'.state = current.state
      /\ current'.toDelete = current.toDelete /\ current'.toIndex = current.toIndex
      /\ current'.history = current.history
  <2>1. current' \in Running
    BY <1>1, <1>3 DEF Running, Steps
  <2> QED
    BY <1>1, <1>3, <2>1, RunningFields DEF Running
<1>5. WorkerFrame
  BY <1>1, <1>2, <1>4 DEF WorkerFrame
<1>6. QueueInv' /\ ListsInv' /\ (UpToDate' <=> UpToDate)
  BY <1>5, WorkerKeepsQueue
<1>7. ~Busy'
  BY <1>4 DEF Busy
<1>8. Shape'
  BY <1>1, <1>2, <1>4 DEF IndexInv, Shape
<1>9. VersionInv'
  <2>1. \A f \in Files : version[f] \in Nat
    BY Bounds DEF IndexInv, Shape
  <2> QED
    BY <1>1, <1>2, <1>4, <2>1 DEF IndexInv, VersionInv
<1>10. WorkInv'
  <2>1. current.job.kind \in {"full", "file", "history"}
    BY <1>1, RunningFields, JobFields
  <2>2. "over" \in StepsOf(current.job.kind)
    BY <2>1 DEF StepsOf, Steps
  <2> QED
    BY <1>1, <1>2, <1>4, <1>7, <2>2 DEF IndexInv, WorkInv
<1>11. PassInv'
  <2>1. Settled => Settled'
    BY <1>2 DEF Settled
  <2>2. InPass => Settled'
    BY <1>1, <1>2 DEF InPass, Settled, IndexInv, PassInv
  <2> QED
    BY <1>1, <1>2, <1>4, <1>6, <1>7, <2>1, <2>2 DEF IndexInv, PassInv, HeadFull
<1>12. BackedInv'
  <2> SUFFICES ASSUME index.backend \in Backends \ spoiled', NEW f \in Files
               PROVE  Agrees(index.files, index.backend, f)'
    BY <1>7 DEF BackedInv
  <2>1. index.backend \in Backends \ spoiled
    OBVIOUS
  <2>2. Agrees(index.files, index.backend, f)
    BY <1>1, <2>1 DEF IndexInv, BackedInv, InHand, IsFull
  <2>3. points'[index.backend][f] = points[index.backend][f]
    BY <1>1
  <2> QED
    BY <1>2, <2>2, <2>3 DEF Agrees
<1>13. CoverInv'
  <2>1. CASE ~UpToDate
    BY <1>5, <2>1, StaleIsCovered
  <2>2. CASE UpToDate
    <3>1. settings = current.backend /\ settings' \in spoiled'
      BY <1>1, <1>2, <2>2 DEF IndexInv, PassInv
    <3>2. ~Trusted'
      BY <1>7, <3>1 DEF Trusted, InPass
    <3> QED
      BY <3>2 DEF CoverInv
  <2> QED
    BY <2>1, <2>2
<1> QED
  BY <1>6, <1>8, <1>9, <1>10, <1>11, <1>12, <1>13 DEF IndexInv

(* The three ways to end.                                                  *)
LEMMA CancelledKeeps ==
    ASSUME IndexInv, Busy, IsFull, Cancelled PROVE IndexInv'
<1>1. GoTo("over") /\ WorkerOnly /\ ~UpToDate /\ UNCHANGED <<tasks, index, dropped, unread>>
  BY DEF Cancelled, UpToDate, backendVars
<1>2. UNCHANGED <<faults, points, historyPoints, spoiled>>
  BY DEF Cancelled, backendVars
<1>3. /\ faults' \in 0..MaxFaults /\ points' \in [Backends -> [Files -> Versions]]
      /\ historyPoints' \in [Backends -> SUBSET Messages]
  BY <1>2 DEF IndexInv, Shape
<1> QED
  BY <1>1, <1>2, <1>3, EndKeeps

(* A request of the backend fails, and the job is over.                    *)
LEMMA RequestFailsKeeps ==
    ASSUME IndexInv, Busy, RequestFails PROVE IndexInv'
<1>1. /\ GoTo("over") /\ WorkerOnly
      /\ UNCHANGED <<tasks, index, dropped, unread, points, historyPoints>>
      /\ spoiled' = spoiled \cup {current.backend}
  BY DEF RequestFails, Fails
<1>2. faults' \in 0..MaxFaults
  BY Bounds DEF RequestFails, IndexInv, Shape
<1>3. /\ points' \in [Backends -> [Files -> Versions]]
      /\ historyPoints' \in [Backends -> SUBSET Messages]
  BY <1>1 DEF IndexInv, Shape
<1> QED
  BY <1>1, <1>2, <1>3, EndKeeps

-----------------------------------------------------------------------------
(* The steps of a full job.                                                *)

(* What is at hand when a full job is past its first step.                 *)
LEMMA AtFields ==
    ASSUME IndexInv, NEW kind, NEW step, At(kind, step), step # "over"
    PROVE  /\ current \in Running /\ current # Idle /\ Busy
           /\ current.job \in Job /\ current.backend \in Backends
           /\ current.state \in [Files -> Versions]
           /\ current.toDelete \in SUBSET Files /\ current.toIndex \in SUBSET Files
           /\ current.history \in SUBSET Messages
           /\ current.job.kind = kind /\ current.at = step /\ (IsFull <=> kind = "full")
           /\ Formed(current.job) /\ current.job.files \in SUBSET Files
BY RunningFields, JobFields DEF IndexInv, Shape, WorkInv, At, Busy, IsFull

(* The job goes to its next step with what it has noted.                   *)
LEMMA GoToFields ==
    ASSUME current \in Running, NEW step \in Steps, GoTo(step)
    PROVE  /\ current' \in Running /\ current'.at = step
           /\ current'.job = current.job /\ current'.backend = current.backend
           /\ current'.generation = current.generation /\ current'.state = current.state
           /\ current'.toDelete = current.toDelete /\ current'.toIndex = current.toIndex
           /\ current'.history = current.history
<1>1. current' = [current EXCEPT !.at = step]
  BY DEF GoTo
<1>2. current' \in Running
  BY <1>1 DEF Running
<1> QED
  BY <1>1, <1>2 DEF Running

(* What the first step of a full job notes, of the messages it could read. *)
LoadReads(read) ==
    LET reset == index.backend # current.backend
        listed == current.job.files
        changed == {f \in listed \cap present : index.files[f] # version[f]}
    IN  /\ current' = [current EXCEPT
              !.at = IF reset THEN "reset" ELSE "delete",
              !.state = IF reset THEN Nothing ELSE index.files,
              !.toDelete = IF reset THEN {} ELSE {f \in Files \ listed : index.files[f] > 0},
              !.toIndex = IF reset THEN listed ELSE changed,
              !.history = read]
        /\ unread' = (1..messages) \ read
        /\ WorkerOnly
        /\ UNCHANGED <<tasks, index, points, historyPoints, spoiled, dropped>>

(* Full job: what to delete and to index follows from the state file, or   *)
(* from nothing if that is another backend's.                              *)
LEMMA LoadKeeps == ASSUME IndexInv, LoadWorkspace PROVE IndexInv'
<1>1. At("full", "load")
  BY DEF LoadWorkspace
<1>2. /\ current \in Running /\ current # Idle /\ Busy /\ IsFull
      /\ current.backend \in Backends /\ current.job.kind = "full" /\ current.at = "load"
      /\ current.job.files \in SUBSET Files
  BY <1>1, AtFields
<1>3. CASE RequestFails
  BY <1>2, <1>3, RequestFailsKeeps
<1>4. ASSUME NEW read \in SUBSET (1..messages),
             \/ read = 1..messages /\ UNCHANGED faults
             \/ faults < MaxFaults /\ faults' = faults + 1,
             LoadReads(read)
      PROVE  IndexInv'
  <2> DEFINE reset == index.backend # current.backend
             changed == {f \in current.job.files \cap present : index.files[f] # version[f]}
             step == IF reset THEN "reset" ELSE "delete"
             state == IF reset THEN Nothing ELSE index.files
             gone == IF reset THEN {} ELSE {f \in Files \ current.job.files : index.files[f] > 0}
             todo == IF reset THEN current.job.files ELSE changed
  <2>1. /\ current' = [current EXCEPT !.at = step, !.state = state, !.toDelete = gone,
                                      !.toIndex = todo, !.history = read]
        /\ unread' = (1..messages) \ read
        /\ WorkerOnly /\ UNCHANGED <<tasks, index, points, historyPoints, spoiled, dropped>>
    BY <1>4 DEF LoadReads
  <2>2. UNCHANGED <<version, present, messages, settings, generation, announced, pending, keys,
                    tasks, index, points, historyPoints, spoiled, dropped>>
    BY <2>1 DEF WorkerOnly, guiVars
  <2>3. step \in Steps /\ gone \in SUBSET Files /\ todo \in SUBSET Files
    BY <1>2 DEF Steps
  <2>4. state \in [Files -> Versions]
    BY Bounds DEF Nothing, IndexInv, Shape
  <2>5. read \in SUBSET Messages /\ unread' \subseteq Messages /\ faults' \in 0..MaxFaults
    <3>1. messages \in 0..MaxMessages /\ faults \in 0..MaxFaults
      BY DEF IndexInv, Shape
    <3>2. 1..messages \subseteq Messages
      BY <3>1, Bounds DEF Messages
    <3>3. faults' \in 0..MaxFaults
      BY <1>4, <3>1, Bounds
    <3> QED
      BY <2>1, <3>2, <3>3
  <2>6. /\ \A f \in gone : f \notin current.job.files /\ index.files[f] > 0
        /\ todo \subseteq current.job.files
        /\ step \in {"reset", "delete"} /\ (step = "reset" => reset /\ todo = current.job.files
                                                             /\ state = Nothing)
        /\ \A f \in Files : state[f] = 0 \/ (~reset /\ state[f] = index.files[f])
    BY <1>2 DEF Nothing
  <2>7. ASSUME NEW f \in current.job.files \ todo, f \in present
        PROVE  ~reset /\ state = index.files /\ index.files[f] = version[f]
    BY <2>7
  <2>8. ASSUME ~reset, NEW f \in todo PROVE index.files[f] < version[f]
    <3>1. f \in Files /\ index.files[f] # version[f]
      BY <1>2, <2>8
    <3>2. index.files[f] \in Nat /\ version[f] \in Nat /\ index.files[f] <= version[f]
      BY <3>1, Bounds DEF IndexInv, Shape, VersionInv
    <3> QED
      BY <3>1, <3>2
  <2>9. ~reset => state = index.files
    OBVIOUS
  <2> HIDE DEF step, state, gone, todo
  <2>10. current' \in Running
    BY <1>2, <2>1, <2>3, <2>4, <2>5 DEF Running
  <2>11. /\ current'.job = current.job /\ current'.backend = current.backend
         /\ current'.generation = current.generation
         /\ current'.at = step /\ current'.state = state /\ current'.toDelete = gone
         /\ current'.toIndex = todo /\ current'.history = read
    BY <1>2, <2>1 DEF Running
  <2>12. WorkerFrame
    BY <1>2, <2>2, <2>10, <2>11 DEF WorkerFrame
  <2>13. /\ (UpToDate' <=> UpToDate) /\ IsFull' /\ current' # Idle /\ Busy'
         /\ (Rebuilt' <=> reset)
    BY <1>2, <2>2, <2>6, <2>10, <2>11, <2>12, WorkerKeepsQueue, RunningFields
       DEF Busy, Rebuilt
  <2>14. Shape'
    BY <2>2, <2>5, <2>10 DEF IndexInv, Shape
  <2>15. VersionInv'
    <3>1. \A f \in Files : version[f] \in Nat /\ index.files[f] \in Nat
      BY Bounds DEF IndexInv, Shape
    <3> QED
      BY <2>2, <2>6, <2>11, <3>1 DEF IndexInv, VersionInv
  <2>16. WorkInv'
    <3>1. \A f \in Files : tasks[f].at = "none"
      BY <1>2 DEF IndexInv, WorkInv
    <3>2. current'.at \in StepsOf(current'.job.kind)
      BY <1>2, <2>6, <2>11 DEF StepsOf, Steps
    <3>3. Formed(current'.job)
      BY <1>2, <2>11 DEF IndexInv, WorkInv
    <3>4. \A f \in dropped : index.files[f] > 0
      BY DEF IndexInv, WorkInv
    <3>5. current'.at # "load" /\ current'.at \notin {"messages", "write"}
      BY <2>6, <2>11
    <3>6. Busy' /\ index'.backend = current'.backend =>
             \A f \in current'.toIndex : index'.files[f] < version'[f]
      BY <2>2, <2>8, <2>11
    <3> QED
      BY <1>2, <2>2, <2>6, <2>11, <2>13, <3>1, <3>2, <3>3, <3>4, <3>5, <3>6 DEF WorkInv
  <2>17. BackedInv'
    <3>1. \A f, steps : ~InHand(f, steps) /\ ~InHand(f, steps)'
      BY <1>2, <2>11 DEF InHand
    <3>2. ASSUME index'.backend \in Backends \ spoiled', NEW f \in Files
          PROVE  Agrees(index.files, index.backend, f)'
      BY <2>2, <3>1, <3>2 DEF IndexInv, BackedInv, Agrees
    <3>3. ASSUME current'.backend \notin spoiled' \/ Rebuilt', NEW f \in Files
          PROVE  Agrees(current.state, current.backend, f)'
      <4>1. CASE f \in present /\ state[f] = 0
        <5>1. version[f] # 0
          BY <4>1 DEF IndexInv, VersionInv
        <5> QED
          BY <2>2, <2>11, <4>1, <5>1 DEF Agrees
      <4>2. CASE f \notin present
        BY <2>2, <4>2 DEF Agrees
      <4>3. CASE ~reset
        BY <1>2, <2>2, <2>9, <2>11, <2>13, <3>2, <3>3, <4>3 DEF Agrees
      <4> QED
        BY <2>6, <4>1, <4>2, <4>3
    <3> QED
      BY <3>2, <3>3 DEF BackedInv
  <2>18. ASSUME UpToDate, Trusted, settings = current.backend
         PROVE  /\ \A f \in announced : FileCovered(f)'
                /\ \A m \in (1..messages) \ unread' : MessageCovered(m)'
    <3>1. ASSUME NEW f \in announced, ~FilePending(f) PROVE FileAtHand(f)' \/ FileDone(f)'
      <4>1. f \in current.job.files /\ f \in present /\ f \in Files
        BY <1>2, <2>18, <3>1 DEF IndexInv, ListsInv, InPass
      <4>2. CASE f \in todo
        <5>1. tasks[f].at = "none"
          BY <1>2, <4>1 DEF IndexInv, WorkInv
        <5> QED
          BY <2>2, <2>11, <2>13, <2>18, <4>1, <4>2, <5>1 DEF FileAtHand, TaskIsFresh
      <4>3. CASE f \notin todo
        <5>1. ~reset /\ state = index.files /\ index.files[f] = version[f]
          BY <2>7, <4>1, <4>3
        <5>2. FileLeftAlone(f)'
          BY <2>6, <2>11, <2>13, <4>1, <4>3 DEF FileLeftAlone
        <5>3. f \in dropped => state[f] > 0
          BY <5>1 DEF IndexInv, WorkInv
        <5>4. index.backend \in Backends \ spoiled
          BY <1>2, <2>18, <5>1 DEF Trusted, Rebuilt
        <5>5. f \notin dropped => points[settings][f] = version[f]
          BY <1>2, <2>18, <4>1, <5>1, <5>4 DEF IndexInv, BackedInv, Agrees, InHand
        <5> QED
          BY <2>2, <2>11, <5>2, <5>3, <5>5 DEF FileDone
      <4> QED
        BY <4>2, <4>3
    <3>2. \A m \in (1..messages) \ unread' : MessageAtHand(m)'
      BY <2>1, <2>11, <2>13, <2>18 DEF MessageAtHand
    <3> QED
      BY <2>2, <3>1, <3>2 DEF FileCovered, FilePending, MessageCovered
  <2> QED
    BY <2>2, <2>12, <2>13, <2>14, <2>15, <2>16, <2>17, <2>18, WorkerKeeps
<1> QED
  <2> SUFFICES ASSUME ~RequestFails PROVE IndexInv'
    BY <1>3
  <2> DEFINE reset == index.backend # current.backend
             listed == current.job.files
             changed == {f \in listed \cap present : index.files[f] # version[f]}
  <2>1. PICK read \in SUBSET (1..messages) :
          /\ \/ read = 1..messages /\ UNCHANGED faults
             \/ faults < MaxFaults /\ faults' = faults + 1
          /\ current' = [current EXCEPT
                !.at = IF reset THEN "reset" ELSE "delete",
                !.state = IF reset THEN Nothing ELSE index.files,
                !.toDelete = IF reset THEN {} ELSE {f \in Files \ listed : index.files[f] > 0},
                !.toIndex = IF reset THEN listed ELSE changed,
                !.history = read]
          /\ unread' = (1..messages) \ read
          /\ WorkerOnly
          /\ UNCHANGED <<tasks, index, points, historyPoints, spoiled, dropped>>
    BY DEF LoadWorkspace
  <2>2. LoadReads(read)
    BY <2>1 DEF LoadReads
  <2> QED
    BY <1>4, <2>1, <2>2

(* The points of one file of one backend.                                  *)
LEMMA PointsEdit ==
    ASSUME points \in [Backends -> [Files -> Versions]],
           NEW b \in Backends, NEW f \in Files, NEW v \in Versions,
           points' = [points EXCEPT ![b][f] = v]
    PROVE  /\ points' \in [Backends -> [Files -> Versions]]
           /\ points'[b][f] = v
           /\ \A c \in Backends, g \in Files : c # b \/ g # f => points'[c][g] = points[c][g]
OBVIOUS

(* Full job, after another backend's state: all points of files go.        *)
LEMMA ResetKeeps == ASSUME IndexInv, ResetFiles PROVE IndexInv'
<1>1. At("full", "reset")
  BY DEF ResetFiles
<1>2. /\ current \in Running /\ current # Idle /\ Busy /\ IsFull
      /\ current.backend \in Backends /\ current.job.kind = "full" /\ current.at = "reset"
  BY <1>1, AtFields
<1>3. CASE RequestFails
  BY <1>2, <1>3, RequestFailsKeeps
<1>4. CASE ~RequestFails
  <2>1. /\ points' = [points EXCEPT ![current.backend] = Nothing]
        /\ GoTo("delete") /\ WorkerOnly
        /\ UNCHANGED <<tasks, index, historyPoints, faults, spoiled, dropped, unread>>
    BY <1>4 DEF ResetFiles
  <2>2. UNCHANGED <<version, present, messages, settings, generation, announced, pending, keys>>
    BY <2>1 DEF WorkerOnly, guiVars
  <2>3. /\ current' \in Running /\ current'.at = "delete"
        /\ current'.job = current.job /\ current'.backend = current.backend
        /\ current'.generation = current.generation /\ current'.state = current.state
        /\ current'.toDelete = current.toDelete /\ current'.toIndex = current.toIndex
        /\ current'.history = current.history
    BY <1>2, <2>1, GoToFields DEF Steps
  <2>4. WorkerFrame
    BY <1>2, <2>2, <2>3 DEF WorkerFrame
  <2>5. (UpToDate' <=> UpToDate) /\ IsFull' /\ current' # Idle /\ Busy' /\ (Rebuilt' <=> Rebuilt)
    BY <1>2, <2>1, <2>3, <2>4, WorkerKeepsQueue, RunningFields DEF Busy, Rebuilt
  <2>6. points \in [Backends -> [Files -> Versions]] /\ Nothing \in [Files -> Versions]
    BY Bounds DEF IndexInv, Shape, Nothing
  <2>7. /\ points' \in [Backends -> [Files -> Versions]]
        /\ \A b \in Backends, f \in Files : points'[b][f] = points[b][f] \/ points'[b][f] = 0
        /\ \A b \in Backends : b # current.backend => points'[b] = points[b]
    <3>1. \A f \in Files : Nothing[f] = 0
      BY DEF Nothing
    <3> HIDE DEF Nothing
    <3> QED
      BY <1>2, <2>1, <2>6, <3>1
  <2>8. Shape'
    BY <2>1, <2>2, <2>3, <2>7 DEF IndexInv, Shape
  <2>9. VersionInv'
    <3>1. \A f \in Files : version[f] \in Nat
      BY Bounds DEF IndexInv, Shape
    <3> QED
      BY <1>2, <2>1, <2>2, <2>3, <2>7, <3>1 DEF IndexInv, VersionInv
  <2>10. Rebuilt /\ current.toIndex = current.job.files /\ current.state = Nothing
    BY <1>2 DEF IndexInv, WorkInv
  <2>11. WorkInv'
    <3>1. "delete" \in StepsOf(current.job.kind)
      BY <1>2 DEF StepsOf, Steps
    <3> QED
      BY <1>2, <2>1, <2>2, <2>3, <2>5, <3>1 DEF IndexInv, WorkInv
  <2>12. BackedInv'
    <3>1. \A f, steps : ~InHand(f, steps) /\ ~InHand(f, steps)'
      BY <1>2, <2>3 DEF InHand
    <3>2. ASSUME index'.backend \in Backends \ spoiled', NEW f \in Files
          PROVE  Agrees(index.files, index.backend, f)'
      BY <2>1, <2>2, <2>7, <2>10, <3>1, <3>2 DEF IndexInv, BackedInv, Agrees, Rebuilt
    <3>3. ASSUME NEW f \in Files PROVE Agrees(current.state, current.backend, f)'
      <4>1. f \in present => version[f] # 0
        BY DEF IndexInv, VersionInv
      <4>2. current'.state[f] = 0
        BY <2>3, <2>10 DEF Nothing
      <4> QED
        BY <2>2, <4>1, <4>2 DEF Agrees
    <3> QED
      BY <3>2, <3>3 DEF BackedInv
  <2>13. ASSUME UpToDate, NEW f, FileCovered(f) PROVE FileCovered(f)'
    <3>1. ~FileDone(f)
      BY <1>2, <2>10 DEF FileDone, FileLeftAlone
    <3> QED
      BY <1>2, <2>1, <2>2, <2>3, <2>5, <2>13, <3>1
         DEF FileCovered, FilePending, FileAtHand, TaskIsFresh
  <2>14. ASSUME UpToDate, NEW m, MessageCovered(m) PROVE MessageCovered(m)'
    <3>1. ~MessageDone(m)
      BY <1>2 DEF MessageDone
    <3> QED
      BY <1>2, <2>1, <2>2, <2>3, <2>5, <2>14, <3>1
         DEF MessageCovered, MessagePending, MessageAtHand
  <2> QED
    BY <2>1, <2>4, <2>5, <2>8, <2>9, <2>11, <2>12, <2>13, <2>14, WorkerKeeps
<1> QED
  BY <1>3, <1>4

(* The next phase of the job, with nothing else changed.                   *)
LEMMA MovesOn ==
    ASSUME IndexInv, Busy, IsFull,
           \/ current.at = "delete" /\ GoTo("index")
           \/ current.at = "messages" /\ current.history = {} /\ GoTo("write"),
           WorkerOnly, UNCHANGED <<tasks, index, backendVars>>
    PROVE  IndexInv'
<1>1. current \in Running /\ current # Idle /\ current.job.kind = "full"
  BY RunningFields DEF IndexInv, Shape, Busy, IsFull
<1>2. PICK step \in {"index", "write"} :
        /\ GoTo(step)
        /\ \/ step = "index" /\ current.at = "delete"
           \/ step = "write" /\ current.at = "messages" /\ current.history = {}
  OBVIOUS
<1>3. UNCHANGED <<version, present, messages, settings, generation, announced, pending, keys,
                  tasks, index, points, historyPoints, faults, spoiled, dropped, unread>>
  BY DEF WorkerOnly, guiVars, backendVars
<1>4. /\ current' \in Running /\ current'.at = step
      /\ current'.job = current.job /\ current'.backend = current.backend
      /\ current'.generation = current.generation /\ current'.state = current.state
      /\ current'.toDelete = current.toDelete /\ current'.toIndex = current.toIndex
      /\ current'.history = current.history
  BY <1>1, <1>2, GoToFields DEF Steps
<1>5. WorkerFrame
  BY <1>1, <1>3, <1>4 DEF WorkerFrame
<1>6. (UpToDate' <=> UpToDate) /\ IsFull' /\ current' # Idle /\ Busy' /\ (Rebuilt' <=> Rebuilt)
  BY <1>2, <1>3, <1>4, <1>5, WorkerKeepsQueue, RunningFields DEF Busy, Rebuilt
<1>7. Shape' /\ VersionInv'
  BY <1>1, <1>3, <1>4 DEF IndexInv, Shape, VersionInv
<1>8. WorkInv'
  <2>1. step \in StepsOf(current.job.kind)
    BY <1>1 DEF StepsOf, Steps
  <2>2. \A f \in Files : current.at = "messages" => tasks[f].at = "none"
    BY <1>1 DEF IndexInv, WorkInv, Busy
  <2>3. \A f \in Files : tasks[f].at = "none"
    BY <1>1, <1>2, <2>2 DEF IndexInv, WorkInv, Busy
  <2> QED
    BY <1>1, <1>2, <1>3, <1>4, <1>6, <2>1, <2>3 DEF IndexInv, WorkInv
<1>9. BackedInv'
  BY <1>1, <1>2, <1>3, <1>4, <1>6 DEF IndexInv, BackedInv, Agrees, InHand
<1>10. ASSUME NEW f, FileCovered(f) PROVE FileCovered(f)'
  BY <1>1, <1>2, <1>3, <1>4, <1>6, <1>10
     DEF FileCovered, FilePending, FileAtHand, FileDone, FileLeftAlone, TaskIsFresh
<1>11. ASSUME NEW m, MessageCovered(m) PROVE MessageCovered(m)'
  BY <1>1, <1>2, <1>3, <1>4, <1>6, <1>11
     DEF MessageCovered, MessagePending, MessageAtHand, MessageDone
<1> QED
  BY <1>3, <1>5, <1>6, <1>7, <1>8, <1>9, <1>10, <1>11, WorkerKeeps

(* Full job: the points of a stale file are deleted.                       *)
LEMMA DeleteKeeps == ASSUME IndexInv, DeleteStale PROVE IndexInv'
<1>1. At("full", "delete")
  BY DEF DeleteStale
<1>2. /\ current \in Running /\ current # Idle /\ Busy /\ IsFull
      /\ current.backend \in Backends /\ current.job.kind = "full" /\ current.at = "delete"
      /\ current.state \in [Files -> Versions] /\ current.toDelete \in SUBSET Files
      /\ current.toIndex \in SUBSET Files
  BY <1>1, AtFields
<1>3. CASE Cancelled
  BY <1>2, <1>3, CancelledKeeps
<1>4. CASE RequestFails
  BY <1>2, <1>4, RequestFailsKeeps
<1>5. CASE GoTo("index") /\ WorkerOnly /\ UNCHANGED <<tasks, index, backendVars>>
  BY <1>2, <1>5, MovesOn
<1>6. ASSUME NEW f \in current.toDelete,
             points' = [points EXCEPT ![current.backend][f] = 0],
             current' = [current EXCEPT !.state[f] = 0, !.toDelete = @ \ {f}],
             dropped' = dropped \cup ({f} \cap present),
             WorkerOnly,
             UNCHANGED <<tasks, index, historyPoints, faults, spoiled, unread>>
      PROVE  IndexInv'
  <2>1. UNCHANGED <<version, present, messages, settings, generation, announced, pending, keys>>
    BY <1>6 DEF WorkerOnly, guiVars
  <2>2. f \in Files /\ f \notin current.job.files /\ index.files[f] > 0
    BY <1>2 DEF IndexInv, WorkInv
  <2> DEFINE state == [current.state EXCEPT ![f] = 0]
             gone == current.toDelete \ {f}
  <2>3. /\ state \in [Files -> Versions] /\ state[f] = 0
        /\ \A g \in Files : g # f => state[g] = current.state[g]
    BY <1>2, <2>2, Bounds
  <2>4. current' = [current EXCEPT !.state = state, !.toDelete = gone]
    BY <1>2, <1>6 DEF Running
  <2>5. gone \in SUBSET Files /\ gone \subseteq current.toDelete
    BY <1>2
  <2> HIDE DEF state, gone
  <2>6. /\ current' \in Running
        /\ current'.job = current.job /\ current'.backend = current.backend
        /\ current'.generation = current.generation /\ current'.at = current.at
        /\ current'.state = state /\ current'.toDelete = gone
        /\ current'.toIndex = current.toIndex /\ current'.history = current.history
    <3>1. current' \in Running
      BY <1>2, <2>3, <2>4, <2>5 DEF Running
    <3> QED
      BY <1>2, <2>4, <3>1 DEF Running
  <2>7. WorkerFrame
    BY <1>2, <2>1, <2>6 DEF WorkerFrame
  <2>8. (UpToDate' <=> UpToDate) /\ IsFull' /\ current' # Idle /\ Busy' /\ (Rebuilt' <=> Rebuilt)
    BY <1>2, <1>6, <2>6, <2>7, WorkerKeepsQueue, RunningFields DEF Busy, Rebuilt
  <2>9. /\ points' \in [Backends -> [Files -> Versions]]
        /\ points'[current.backend][f] = 0
        /\ \A c \in Backends, g \in Files :
              c # current.backend \/ g # f => points'[c][g] = points[c][g]
    BY <1>2, <1>6, <2>2, Bounds, PointsEdit DEF IndexInv, Shape
  <2>10. Shape'
    BY <1>6, <2>1, <2>2, <2>6, <2>9 DEF IndexInv, Shape
  <2>11. VersionInv'
    <3>1. \A g \in Files : version[g] \in Nat
      BY Bounds DEF IndexInv, Shape
    <3> QED
      BY <1>2, <1>6, <2>1, <2>3, <2>6, <2>9, <3>1 DEF IndexInv, VersionInv
  <2>12. WorkInv'
    BY <1>2, <1>6, <2>1, <2>2, <2>5, <2>6, <2>8 DEF IndexInv, WorkInv
  <2>13. f \in present => version[f] # 0
    BY DEF IndexInv, VersionInv
  <2>14. BackedInv'
    <3>1. \A g, steps : ~InHand(g, steps) /\ ~InHand(g, steps)'
      BY <1>2, <2>6 DEF InHand
    <3>2. ASSUME index.backend \in Backends \ spoiled, NEW g \in Files
          PROVE  Agrees(index.files, index.backend, g)'
      <4>1. Agrees(index.files, index.backend, g)
        BY <3>1, <3>2 DEF IndexInv, BackedInv
      <4> QED
        BY <1>6, <2>1, <2>9, <3>2, <4>1 DEF Agrees
    <3>3. ASSUME current.backend \notin spoiled \/ Rebuilt, NEW g \in Files
          PROVE  Agrees(current.state, current.backend, g)'
      <4>1. Agrees(current.state, current.backend, g)
        BY <1>2, <3>1, <3>3 DEF IndexInv, BackedInv
      <4> QED
        BY <1>2, <1>6, <2>1, <2>3, <2>6, <2>9, <2>13, <4>1 DEF Agrees
    <3> QED
      BY <1>6, <2>6, <2>8, <3>2, <3>3 DEF BackedInv
  <2>15. ASSUME settings = current.backend, NEW g \in announced, FileCovered(g)
         PROVE  FileCovered(g)'
    <3>1. CASE FilePending(g) \/ FileAtHand(g)
      BY <1>2, <1>6, <2>1, <2>6, <2>8, <3>1
         DEF FileCovered, FilePending, FileAtHand, TaskIsFresh
    <3>2. CASE FileDone(g)
      <4>1. g # f /\ g \in Files
        BY <1>2, <2>2, <3>2 DEF FileDone, FileLeftAlone, IndexInv, Shape
      <4>2. FileLeftAlone(g)'
        BY <1>2, <2>6, <2>8, <3>2 DEF FileDone, FileLeftAlone
      <4>3. points'[settings][g] = points[settings][g] /\ current'.state[g] = current.state[g]
        BY <1>2, <2>3, <2>6, <2>9, <2>15, <4>1
      <4> QED
        BY <1>2, <1>6, <2>1, <3>2, <4>2, <4>3 DEF FileCovered, FileDone
    <3> QED
      BY <2>15, <3>1, <3>2 DEF FileCovered
  <2>16. ASSUME NEW m, MessageCovered(m) PROVE MessageCovered(m)'
    BY <1>2, <1>6, <2>1, <2>6, <2>8, <2>16
       DEF MessageCovered, MessagePending, MessageAtHand, MessageDone
  <2> QED
    BY <1>6, <2>7, <2>8, <2>10, <2>11, <2>12, <2>14, <2>15, <2>16, WorkerKeeps
<1> QED
  BY <1>3, <1>4, <1>5, <1>6 DEF DeleteStale

(* The pool works on a file, and the job waits.                            *)
LEMMA PoolKeeps ==
    ASSUME IndexInv, At("full", "index"), WorkerOnly, UNCHANGED <<current, index, backendVars>>,
           tasks' \in [Files -> Task],
           Cardinality({g \in Files : tasks'[g].at # "none"}) <= Threads,
           NEW f \in current.toIndex, \A g \in Files \ {f} : tasks'[g] = tasks[g],
           tasks'[f].state <= version[f], tasks'[f].text <= version[f],
           tasks'[f].at = "read" /\ tasks'[f].text > 0 => tasks'[f].state <= tasks'[f].text,
           f \in announced /\ TaskIsFresh(f) => TaskIsFresh(f)'
    PROVE  IndexInv'
<1>1. /\ current \in Running /\ current # Idle /\ Busy /\ IsFull /\ f \in Files
      /\ current.job.kind = "full" /\ current.at = "index"
  BY AtFields
<1>2. UNCHANGED <<version, present, messages, settings, generation, announced, pending, keys,
                  current, index, points, historyPoints, faults, spoiled, dropped, unread>>
  BY DEF WorkerOnly, guiVars, backendVars
<1>3. WorkerFrame
  BY <1>1, <1>2 DEF WorkerFrame
<1>4. /\ (UpToDate' <=> UpToDate) /\ (IsFull' <=> IsFull) /\ (Busy' <=> Busy)
      /\ (Rebuilt' <=> Rebuilt)
  BY <1>2 DEF UpToDate, IsFull, Busy, Rebuilt
<1>5. Shape'
  BY <1>2 DEF IndexInv, Shape
<1>6. VersionInv'
  BY <1>2 DEF IndexInv, VersionInv
<1>7. WorkInv'
  <2>1. \A g \in Files : tasks'[g].at # "none" =>
          /\ g \in current.toIndex
          /\ tasks'[g].at = "read" /\ tasks'[g].text > 0 => tasks'[g].state <= tasks'[g].text
    BY <1>1 DEF IndexInv, WorkInv
  <2> QED
    BY <1>1, <1>2, <1>4, <2>1 DEF IndexInv, WorkInv
<1>8. BackedInv'
  BY <1>2, <1>4 DEF IndexInv, BackedInv, Agrees, InHand
<1>9. ASSUME NEW g \in announced, FileCovered(g) PROVE FileCovered(g)'
  <2>1. TaskIsFresh(g) => TaskIsFresh(g)'
    <3>1. CASE g = f
      BY <3>1
    <3>2. CASE g # f
      <4>1. tasks'[g] = tasks[g]
        BY <3>2 DEF IndexInv, Shape
      <4> QED
        BY <1>2, <4>1 DEF TaskIsFresh
    <3> QED
      BY <3>1, <3>2
  <2> QED
    BY <1>2, <1>4, <1>9, <2>1
       DEF FileCovered, FilePending, FileAtHand, FileDone, FileLeftAlone
<1>10. ASSUME NEW m, MessageCovered(m) PROVE MessageCovered(m)'
  BY <1>2, <1>4, <1>10 DEF MessageCovered, MessagePending, MessageAtHand, MessageDone
<1> QED
  BY <1>1, <1>2, <1>3, <1>4, <1>5, <1>6, <1>7, <1>8, <1>9, <1>10, WorkerKeeps

(* A task of the pool.                                                     *)
LEMMA TaskEdit ==
    ASSUME Shape, NEW f \in Files, NEW t \in Task, tasks' = [tasks EXCEPT ![f] = t]
    PROVE  /\ tasks' \in [Files -> Task] /\ tasks'[f] = t
           /\ \A g \in Files \ {f} : tasks'[g] = tasks[g]
           /\ {g \in Files : tasks'[g].at # "none"} =
                 IF t.at = "none" THEN Preparing \ {f} ELSE Preparing \cup {f}
           /\ IsFiniteSet(Preparing)
           /\ Cardinality(Preparing) \in Nat
<1>1. tasks \in [Files -> Task] /\ IsFiniteSet(Files)
  BY IndexingAssumption DEF Shape
<1>2. /\ tasks' \in [Files -> Task] /\ tasks'[f] = t
      /\ \A g \in Files \ {f} : tasks'[g] = tasks[g]
  BY <1>1
<1>3. Preparing \in SUBSET Files
  BY DEF Preparing
<1>4. IsFiniteSet(Preparing)
  BY <1>1, <1>3, FS_Subset
<1>5. Cardinality(Preparing) \in Nat
  BY <1>4, FS_CardinalityType
<1> QED
  BY <1>1, <1>2, <1>4, <1>5 DEF Preparing

(* Full job: the state of a file is taken before its text is read.         *)
LEMMA TakeKeeps == ASSUME IndexInv, TakeState PROVE IndexInv'
<1>1. At("full", "index") /\ Cardinality(Preparing) < Threads
  BY DEF TakeState
<1>2. PICK f \in current.toIndex \ Preparing :
        tasks' = [tasks EXCEPT ![f] = [at |-> "taken",
                                       state |-> IF f \in present THEN version[f] ELSE 0,
                                       text |-> 0]]
  BY DEF TakeState
<1>3. WorkerOnly /\ UNCHANGED <<current, index, backendVars>>
  BY DEF TakeState
<1>4. f \in Files /\ f \notin Preparing
  BY <1>1, <1>2, AtFields
<1> DEFINE v == IF f \in present THEN version[f] ELSE 0
           t == [at |-> "taken", state |-> v, text |-> 0]
<1>5. v \in Versions /\ v \in Nat /\ version[f] \in Nat /\ v <= version[f] /\ 0 <= version[f]
  <2>1. version[f] \in Versions /\ 0 \in Versions /\ version[f] \in Nat
    BY <1>4, Bounds DEF IndexInv, Shape
  <2> QED
    BY <2>1
<1>6. f \in present => v > 0
  BY DEF IndexInv, VersionInv
<1> HIDE DEF v
<1>7. t \in Task /\ t.at = "taken" /\ t.state = v /\ t.text = 0
  BY <1>5, Bounds DEF Task
<1>8. tasks' = [tasks EXCEPT ![f] = t]
  BY <1>2 DEF v
<1> HIDE DEF t
<1>9. /\ tasks' \in [Files -> Task] /\ tasks'[f] = t
      /\ \A g \in Files \ {f} : tasks'[g] = tasks[g]
      /\ {g \in Files : tasks'[g].at # "none"} = Preparing \cup {f}
      /\ IsFiniteSet(Preparing) /\ Cardinality(Preparing) \in Nat
  BY <1>4, <1>7, <1>8, TaskEdit DEF IndexInv
<1>10. Cardinality(Preparing \cup {f}) <= Threads
  <2>1. Cardinality(Preparing \cup {f}) = Cardinality(Preparing) + 1
    BY <1>4, <1>9, FS_AddElement
  <2> QED
    BY <1>1, <1>9, <2>1, IndexingAssumption
<1>11. f \in announced => TaskIsFresh(f)'
  BY <1>6, <1>7, <1>9 DEF TaskIsFresh, IndexInv, ListsInv
<1>12. /\ tasks'[f].state <= version[f] /\ tasks'[f].text <= version[f]
       /\ tasks'[f].at # "read"
       /\ Cardinality({g \in Files : tasks'[g].at # "none"}) <= Threads
  BY <1>5, <1>7, <1>9, <1>10
<1>13. f \in current.toIndex
  BY <1>2
<1> QED
  BY <1>1, <1>3, <1>9, <1>11, <1>12, <1>13, PoolKeeps

(* Full job: the text read is not older than the state taken.              *)
LEMMA ReadKeeps == ASSUME IndexInv, ReadText PROVE IndexInv'
<1>1. At("full", "index") /\ WorkerOnly /\ UNCHANGED <<current, index, backendVars>>
  BY DEF ReadText
<1>2. PICK f \in Files :
        /\ tasks[f].at = "taken"
        /\ tasks' = [tasks EXCEPT ![f].at = "read",
                                  ![f].text = IF f \in present THEN version[f] ELSE 0]
  BY DEF ReadText
<1> DEFINE v == IF f \in present THEN version[f] ELSE 0
           t == [at |-> "read", state |-> tasks[f].state, text |-> v]
<1>3. v \in Versions /\ v \in Nat /\ version[f] \in Nat /\ v <= version[f]
  <2>1. version[f] \in Versions /\ 0 \in Versions /\ version[f] \in Nat
    BY <1>2, Bounds DEF IndexInv, Shape
  <2> QED
    BY <2>1
<1>4. v > 0 => v = version[f]
  OBVIOUS
<1>5. f \in present => v = version[f]
  OBVIOUS
<1>6. tasks \in [Files -> Task] /\ tasks[f] \in Task
  BY DEF IndexInv, Shape
<1>7. /\ tasks[f].state \in Versions /\ tasks[f].state \in Nat
      /\ tasks[f].state <= version[f]
      /\ f \in current.toIndex
  BY <1>1, <1>2, <1>6, Bounds, AtFields DEF Task, IndexInv, VersionInv, WorkInv
<1>8. tasks' = [tasks EXCEPT ![f] = t]
  <2> DEFINE a == [tasks EXCEPT ![f].at = "read"]
  <2>1. tasks' = [a EXCEPT ![f].text = v]
    BY <1>2
  <2>2. /\ a = [g \in Files |-> IF g = f THEN [tasks[f] EXCEPT !.at = "read"] ELSE tasks[g]]
    BY <1>2, <1>6
  <2>3. a[f] = [at |-> "read", state |-> tasks[f].state, text |-> tasks[f].text]
    BY <1>2, <1>6, <2>2 DEF Task
  <2>4. [a[f] EXCEPT !.text = v] = t
    BY <2>3
  <2> HIDE DEF v, t
  <2>5. tasks' = [a EXCEPT ![f] = t]
    <3> HIDE DEF a
    <3> QED
      BY <2>1, <2>4
  <2> QED
    BY <1>2, <1>6, <2>2, <2>5
<1> HIDE DEF v
<1>9. t \in Task /\ t.at = "read" /\ t.state = tasks[f].state /\ t.text = v
  BY <1>3, <1>7 DEF Task
<1> HIDE DEF t
<1>10. /\ tasks' \in [Files -> Task] /\ tasks'[f] = t
       /\ \A g \in Files \ {f} : tasks'[g] = tasks[g]
       /\ {g \in Files : tasks'[g].at # "none"} = Preparing \cup {f}
  BY <1>8, <1>9, TaskEdit DEF IndexInv
<1>11. Cardinality(Preparing \cup {f}) <= Threads
  <2>1. Preparing \cup {f} = Preparing
    BY <1>2 DEF Preparing
  <2> QED
    BY <2>1 DEF IndexInv, Shape, Preparing
<1>12. f \in announced /\ TaskIsFresh(f) => TaskIsFresh(f)'
  <2>1. version' = version
    BY <1>1 DEF WorkerOnly, guiVars
  <2> QED
    BY <1>2, <1>5, <1>9, <1>10, <2>1 DEF TaskIsFresh, IndexInv, ListsInv
<1> QED
  BY <1>1, <1>3, <1>4, <1>7, <1>9, <1>10, <1>11, <1>12, PoolKeeps


(* Full job: the points of the text are uploaded.                          *)
LEMMA UploadKeeps == ASSUME IndexInv, UploadFile PROVE IndexInv'
<1>1. At("full", "index")
  BY DEF UploadFile
<1>2. /\ current \in Running /\ current # Idle /\ Busy /\ IsFull
      /\ current.backend \in Backends /\ current.job.kind = "full" /\ current.at = "index"
      /\ current.state \in [Files -> Versions] /\ current.toDelete \in SUBSET Files
      /\ current.toIndex \in SUBSET Files
  BY <1>1, AtFields
<1>3. CASE Cancelled
  BY <1>2, <1>3, CancelledKeeps
<1>4. ASSUME NEW f \in Files, Fails, faults < MaxFaults, faults' = faults + 1,
             \/ UNCHANGED points
             \/ points' = [points EXCEPT ![current.backend][f] = 0],
             UNCHANGED historyPoints
      PROVE  IndexInv'
  <2>1. /\ GoTo("over") /\ WorkerOnly /\ UNCHANGED <<tasks, index, dropped, unread>>
        /\ spoiled' = spoiled \cup {current.backend}
    BY <1>4 DEF Fails
  <2>2. faults' \in 0..MaxFaults
    BY <1>4, Bounds DEF IndexInv, Shape
  <2>3. historyPoints' \in [Backends -> SUBSET Messages]
    BY <1>4 DEF IndexInv, Shape
  <2>4. points \in [Backends -> [Files -> Versions]]
    BY DEF IndexInv, Shape
  <2>5. /\ points' \in [Backends -> [Files -> Versions]]
        /\ \A b \in Backends, g \in Files :
               points'[b][g] = points[b][g] \/ (b = current.backend /\ points'[b][g] = 0)
    BY <1>2, <1>4, <2>4, Bounds, PointsEdit
  <2> QED
    BY <1>2, <2>1, <2>2, <2>3, <2>5, EndKeeps
<1>5. ASSUME NEW f \in Files, tasks[f].at = "read", NEW indexable \in BOOLEAN,
             indexable <=> tasks[f].state > 0 /\ tasks[f].text > 0,
             points' = IF indexable
                       THEN [points EXCEPT ![current.backend][f] = tasks[f].text]
                       ELSE points,
             current' = [current EXCEPT !.state[f] = IF indexable THEN tasks[f].state ELSE 0,
                                        !.toIndex = @ \ {f}],
             tasks' = [tasks EXCEPT ![f] = NoTask],
             WorkerOnly, UNCHANGED <<index, historyPoints, faults, spoiled, dropped, unread>>
      PROVE  IndexInv'
  <2>1. UNCHANGED <<version, present, messages, settings, generation, announced, pending, keys>>
    BY <1>5 DEF WorkerOnly, guiVars
  <2>2. tasks[f] \in Task /\ version[f] \in Nat
    BY Bounds DEF IndexInv, Shape
  <2>3. PICK taken \in Versions, text \in Versions :
          taken = tasks[f].state /\ text = tasks[f].text
    BY <2>2 DEF Task
  <2>4. /\ taken \in Nat /\ text \in Nat /\ taken <= version[f] /\ text <= version[f]
        /\ text > 0 => taken <= text
        /\ f \in current.toIndex /\ f \in current.job.files
        /\ index.backend = current.backend => index.files[f] < version[f]
    BY <1>2, <1>5, <2>3, Bounds DEF IndexInv, VersionInv, WorkInv
  <2>5. PICK v \in Versions : v = IF indexable THEN taken ELSE 0
    BY Bounds
  <2>6. /\ v \in Nat /\ v <= version[f]
        /\ v > 0 => indexable /\ taken <= text /\ v = taken
    BY <1>5, <2>2, <2>3, <2>4, <2>5
  <2> DEFINE state == [current.state EXCEPT ![f] = v]
             todo == current.toIndex \ {f}
  <2>7. /\ state \in [Files -> Versions] /\ state[f] = v
        /\ \A g \in Files : g # f => state[g] = current.state[g]
    BY <1>2
  <2>8. current' = [current EXCEPT !.state = state, !.toIndex = todo]
    BY <1>2, <1>5, <2>3, <2>5 DEF Running
  <2>9. todo \in SUBSET Files /\ \A g : g \in todo <=> g \in current.toIndex /\ g # f
    BY <1>2
  <2> HIDE DEF state, todo
  <2>10. /\ current' \in Running
         /\ current'.job = current.job /\ current'.backend = current.backend
         /\ current'.generation = current.generation /\ current'.at = current.at
         /\ current'.state = state /\ current'.toIndex = todo
         /\ current'.toDelete = current.toDelete /\ current'.history = current.history
    <3>1. current' \in Running
      BY <1>2, <2>7, <2>8, <2>9 DEF Running
    <3> QED
      BY <1>2, <2>8, <3>1 DEF Running
  <2>11. WorkerFrame
    BY <1>2, <2>1, <2>10 DEF WorkerFrame
  <2>12. (UpToDate' <=> UpToDate) /\ IsFull' /\ current' # Idle /\ Busy' /\ (Rebuilt' <=> Rebuilt)
    BY <1>2, <1>5, <2>10, <2>11, WorkerKeepsQueue, RunningFields DEF Busy, Rebuilt
  <2>13. points \in [Backends -> [Files -> Versions]]
    BY DEF IndexInv, Shape
  <2>14. /\ points' \in [Backends -> [Files -> Versions]]
         /\ points'[current.backend][f] = IF indexable THEN text ELSE points[current.backend][f]
         /\ \A c \in Backends, g \in Files :
               c # current.backend \/ g # f => points'[c][g] = points[c][g]
    <3>1. CASE indexable
      BY <1>2, <1>5, <2>3, <2>13, <3>1, PointsEdit
    <3>2. CASE ~indexable
      BY <1>2, <1>5, <2>13, <3>2
    <3> QED
      BY <3>1, <3>2
  <2>15. NoTask \in Task /\ NoTask.at = "none" /\ NoTask.state = 0 /\ NoTask.text = 0
    BY Bounds DEF NoTask, Task
  <2>16. /\ tasks' \in [Files -> Task] /\ tasks'[f] = NoTask
         /\ \A g \in Files \ {f} : tasks'[g] = tasks[g]
         /\ {g \in Files : tasks'[g].at # "none"} = Preparing \ {f}
         /\ IsFiniteSet(Preparing) /\ Cardinality(Preparing) \in Nat
    BY <1>5, <2>15, TaskEdit DEF IndexInv
  <2>17. Cardinality({g \in Files : tasks'[g].at # "none"}) <= Threads
    <3>1. Cardinality(Preparing \ {f}) <= Cardinality(Preparing)
      BY <2>16, FS_Subset
    <3>2. Cardinality(Preparing) <= Threads
      BY DEF IndexInv, Shape, Preparing
    <3>3. Cardinality(Preparing \ {f}) \in Nat
      BY <2>16, FS_Subset, FS_CardinalityType
    <3>4. Cardinality(Preparing \ {f}) <= Threads
      BY <2>16, <3>1, <3>2, <3>3, IndexingAssumption
    <3> QED
      BY <2>16, <3>4
  <2>18. Shape'
    BY <1>5, <2>1, <2>10, <2>14, <2>16, <2>17 DEF IndexInv, Shape
  <2>19. VersionInv'
    <3>1. \A g \in Files : version[g] \in Nat
      BY Bounds DEF IndexInv, Shape
    <3>2. \A g \in Files : state[g] <= version[g]
      BY <1>2, <2>6, <2>7 DEF IndexInv, VersionInv
    <3>3. \A g \in Files, c \in Backends : points'[c][g] <= version[g]
      BY <1>2, <2>4, <2>14 DEF IndexInv, VersionInv
    <3>4. \A g \in Files : tasks'[g].state <= version[g] /\ tasks'[g].text <= version[g]
      BY <2>15, <2>16, <3>1 DEF IndexInv, VersionInv
    <3> QED
      BY <1>5, <2>1, <2>10, <3>2, <3>3, <3>4 DEF IndexInv, VersionInv
  <2>20. WorkInv'
    <3>1. \A g \in Files : tasks'[g].at # "none" =>
            /\ g \in todo
            /\ tasks'[g].at = "read" /\ tasks'[g].text > 0 => tasks'[g].state <= tasks'[g].text
      <4> SUFFICES ASSUME NEW g \in Files, tasks'[g].at # "none"
                   PROVE  /\ g \in todo
                          /\ tasks'[g].at = "read" /\ tasks'[g].text > 0
                                => tasks'[g].state <= tasks'[g].text
        OBVIOUS
      <4>1. g # f /\ tasks'[g] = tasks[g]
        BY <2>15, <2>16
      <4> QED
        BY <1>2, <2>9, <4>1 DEF IndexInv, WorkInv
    <3> QED
      BY <1>2, <1>5, <2>1, <2>9, <2>10, <2>12, <3>1 DEF IndexInv, WorkInv
  <2>21. f \in present => version[f] > 0
    BY DEF IndexInv, VersionInv
  <2>22. BackedInv'
    <3>1. \A g, steps : ~InHand(g, steps) /\ ~InHand(g, steps)'
      BY <1>2, <2>10 DEF InHand
    <3>2. ASSUME index.backend \in Backends \ spoiled, NEW g \in Files
          PROVE  Agrees(index.files, index.backend, g)'
      <4>1. Agrees(index.files, index.backend, g)
        BY <3>1, <3>2 DEF IndexInv, BackedInv
      <4>2. CASE g = f /\ index.backend = current.backend
        <5>1. index.files[f] \in Nat
          BY Bounds DEF IndexInv, Shape
        <5>2. index.files[f] # version[f]
          BY <2>2, <2>4, <4>2, <5>1
        <5> QED
          BY <1>5, <2>1, <4>2, <5>2 DEF Agrees
      <4>3. CASE g # f \/ index.backend # current.backend
        BY <1>5, <2>1, <2>14, <3>2, <4>1, <4>3 DEF Agrees
      <4> QED
        BY <4>2, <4>3
    <3>3. ASSUME current.backend \notin spoiled \/ Rebuilt, NEW g \in Files
          PROVE  Agrees(current.state, current.backend, g)'
      <4>1. CASE g # f
        <5>1. Agrees(current.state, current.backend, g)
          BY <1>2, <3>1, <3>3 DEF IndexInv, BackedInv
        <5> QED
          BY <1>2, <1>5, <2>1, <2>7, <2>10, <2>14, <4>1, <5>1 DEF Agrees
      <4>2. CASE g = f
        <5>1. ASSUME f \in present, v = version[f] PROVE indexable /\ text = version[f]
          BY <2>2, <2>4, <2>6, <2>21, <5>1
        <5> QED
          BY <1>5, <2>1, <2>7, <2>10, <2>14, <4>2, <5>1 DEF Agrees
      <4> QED
        BY <4>1, <4>2
    <3> QED
      BY <1>5, <2>10, <2>12, <3>2, <3>3 DEF BackedInv
  <2>23. ASSUME UpToDate, settings = current.backend, NEW g \in announced, FileCovered(g)
         PROVE  FileCovered(g)'
    <3>1. CASE FilePending(g)
      BY <2>1, <3>1 DEF FileCovered, FilePending
    <3>2. g \in Files /\ g \in present
      BY DEF IndexInv, Shape, ListsInv
    <3>3. CASE g = f /\ FileAtHand(g)
      <4>1. TaskIsFresh(f)
        BY <1>2, <3>3 DEF FileAtHand
      <4>2. taken > 0 /\ text = version[f]
        BY <1>5, <2>3, <4>1 DEF TaskIsFresh
      <4>3. indexable
        BY <1>5, <2>3, <2>21, <3>2, <3>3, <4>2
      <4>4. points'[settings][f] = version[f]
        BY <2>14, <2>23, <4>2, <4>3
      <4>5. FileLeftAlone(f)'
        BY <1>2, <2>4, <2>9, <2>10, <2>12 DEF FileLeftAlone
      <4> QED
        BY <2>1, <3>3, <4>4, <4>5 DEF FileCovered, FileDone
    <3>4. CASE g # f /\ FileAtHand(g)
      <4>1. tasks'[g] = tasks[g]
        BY <2>16, <3>2, <3>4
      <4> QED
        BY <1>2, <2>1, <2>9, <2>10, <2>12, <3>4, <4>1
           DEF FileCovered, FileAtHand, TaskIsFresh
    <3>5. CASE FileDone(g)
      <4>1. g # f
        BY <1>2, <2>4, <3>5 DEF FileDone, FileLeftAlone
      <4>2. FileLeftAlone(g)'
        BY <1>2, <2>9, <2>10, <2>12, <3>5 DEF FileDone, FileLeftAlone
      <4>3. points'[settings][g] = points[settings][g] /\ current'.state[g] = current.state[g]
        BY <1>2, <2>7, <2>10, <2>14, <2>23, <3>2, <4>1
      <4> QED
        BY <1>2, <1>5, <2>1, <2>10, <3>5, <4>2, <4>3 DEF FileCovered, FileDone
    <3> QED
      BY <2>23, <3>1, <3>3, <3>4, <3>5 DEF FileCovered
  <2>24. ASSUME NEW m, MessageCovered(m) PROVE MessageCovered(m)'
    BY <1>2, <1>5, <2>1, <2>10, <2>12, <2>24
       DEF MessageCovered, MessagePending, MessageAtHand, MessageDone
  <2> QED
    BY <1>5, <2>11, <2>12, <2>18, <2>19, <2>20, <2>22, <2>23, <2>24, WorkerKeeps
<1>6. ASSUME NEW f \in Files, tasks[f].at = "read",
             LET indexable == tasks[f].state > 0 /\ tasks[f].text > 0
             IN  /\ points' = IF indexable
                              THEN [points EXCEPT ![current.backend][f] = tasks[f].text]
                              ELSE points
                 /\ current' = [current EXCEPT
                        !.state[f] = IF indexable THEN tasks[f].state ELSE 0,
                        !.toIndex = @ \ {f}]
                 /\ tasks' = [tasks EXCEPT ![f] = NoTask]
                 /\ WorkerOnly
                 /\ UNCHANGED <<index, historyPoints, faults, spoiled, dropped, unread>>
      PROVE  IndexInv'
  <2>1. PICK indexable \in BOOLEAN : indexable <=> tasks[f].state > 0 /\ tasks[f].text > 0
    OBVIOUS
  <2> QED
    BY <1>5, <1>6, <2>1
<1> QED
  BY <1>3, <1>4, <1>6 DEF UploadFile

(* Full job: the points of the chat are deleted.                           *)
LEMMA HistoryKeeps == ASSUME IndexInv, DeleteHistory PROVE IndexInv'
<1>1. At("full", "index") /\ current.toIndex = {}
  BY DEF DeleteHistory
<1>2. /\ current \in Running /\ current # Idle /\ Busy /\ IsFull
      /\ current.backend \in Backends /\ current.job.kind = "full" /\ current.at = "index"
  BY <1>1, AtFields
<1>3. CASE RequestFails
  BY <1>2, <1>3, RequestFailsKeeps
<1>4. CASE ~RequestFails
  <2>1. /\ historyPoints' = [historyPoints EXCEPT ![current.backend] = {}]
        /\ GoTo("messages") /\ WorkerOnly
        /\ UNCHANGED <<tasks, index, points, faults, spoiled, dropped, unread>>
    BY <1>4 DEF DeleteHistory
  <2>2. UNCHANGED <<version, present, messages, settings, generation, announced, pending, keys>>
    BY <2>1 DEF WorkerOnly, guiVars
  <2>3. /\ current' \in Running /\ current'.at = "messages"
        /\ current'.job = current.job /\ current'.backend = current.backend
        /\ current'.generation = current.generation /\ current'.state = current.state
        /\ current'.toDelete = current.toDelete /\ current'.toIndex = current.toIndex
        /\ current'.history = current.history
    BY <1>2, <2>1, GoToFields DEF Steps
  <2>4. WorkerFrame
    BY <1>2, <2>2, <2>3 DEF WorkerFrame
  <2>5. (UpToDate' <=> UpToDate) /\ IsFull' /\ current' # Idle /\ Busy' /\ (Rebuilt' <=> Rebuilt)
    BY <1>2, <2>1, <2>3, <2>4, WorkerKeepsQueue, RunningFields DEF Busy, Rebuilt
  <2>6. historyPoints' \in [Backends -> SUBSET Messages]
    BY <2>1 DEF IndexInv, Shape
  <2>7. Shape' /\ VersionInv'
    BY <1>2, <2>1, <2>2, <2>3, <2>6 DEF IndexInv, Shape, VersionInv
  <2>8. WorkInv'
    <3>1. "messages" \in StepsOf(current.job.kind)
      BY <1>2 DEF StepsOf, Steps
    <3>2. \A f \in Files : tasks[f].at = "none"
      BY <1>1, <1>2 DEF IndexInv, WorkInv
    <3> QED
      BY <1>1, <1>2, <2>1, <2>2, <2>3, <2>5, <3>1, <3>2 DEF IndexInv, WorkInv
  <2>9. BackedInv'
    BY <1>2, <2>1, <2>2, <2>3, <2>5 DEF IndexInv, BackedInv, Agrees, InHand
  <2>10. ASSUME NEW f, FileCovered(f) PROVE FileCovered(f)'
    BY <1>2, <2>1, <2>2, <2>3, <2>5, <2>10
       DEF FileCovered, FilePending, FileAtHand, FileDone, FileLeftAlone, TaskIsFresh
  <2>11. ASSUME NEW m, MessageCovered(m) PROVE MessageCovered(m)'
    <3>1. ~MessageDone(m)
      BY <1>2 DEF MessageDone
    <3> QED
      BY <1>2, <2>2, <2>3, <2>5, <2>11, <3>1 DEF MessageCovered, MessagePending, MessageAtHand
  <2> QED
    BY <2>1, <2>4, <2>5, <2>7, <2>8, <2>9, <2>10, <2>11, WorkerKeeps
<1> QED
  BY <1>3, <1>4

(* Full job: those of a message are uploaded again.                        *)
LEMMA UploadMessageKeeps == ASSUME IndexInv, UploadMessage PROVE IndexInv'
<1>1. At("full", "messages")
  BY DEF UploadMessage
<1>2. /\ current \in Running /\ current # Idle /\ Busy /\ IsFull
      /\ current.backend \in Backends /\ current.job.kind = "full" /\ current.at = "messages"
      /\ current.history \in SUBSET Messages
  BY <1>1, AtFields
<1>3. CASE Cancelled
  BY <1>2, <1>3, CancelledKeeps
<1>4. CASE RequestFails
  BY <1>2, <1>4, RequestFailsKeeps
<1>5. CASE current.history = {} /\ GoTo("write") /\ WorkerOnly
           /\ UNCHANGED <<tasks, index, backendVars>>
  BY <1>2, <1>5, MovesOn
<1>6. ASSUME NEW m \in current.history,
             historyPoints' = [historyPoints EXCEPT ![current.backend] = @ \cup {m}],
             current' = [current EXCEPT !.history = @ \ {m}],
             unread' = unread \ {m},
             WorkerOnly,
             UNCHANGED <<tasks, index, points, faults, spoiled, dropped>>
      PROVE  IndexInv'
  <2>1. UNCHANGED <<version, present, messages, settings, generation, announced, pending, keys>>
    BY <1>6 DEF WorkerOnly, guiVars
  <2> DEFINE left == current.history \ {m}
  <2>2. left \in SUBSET Messages /\ \A n : n \in left <=> n \in current.history /\ n # m
    BY <1>2
  <2>3. current' = [current EXCEPT !.history = left]
    BY <1>2, <1>6 DEF Running
  <2> HIDE DEF left
  <2>4. /\ current' \in Running
        /\ current'.job = current.job /\ current'.backend = current.backend
        /\ current'.generation = current.generation /\ current'.at = current.at
        /\ current'.state = current.state /\ current'.toDelete = current.toDelete
        /\ current'.toIndex = current.toIndex /\ current'.history = left
    <3>1. current' \in Running
      BY <1>2, <2>2, <2>3 DEF Running
    <3> QED
      BY <1>2, <2>3, <3>1 DEF Running
  <2>5. WorkerFrame
    BY <1>2, <2>1, <2>4 DEF WorkerFrame
  <2>6. (UpToDate' <=> UpToDate) /\ IsFull' /\ current' # Idle /\ Busy' /\ (Rebuilt' <=> Rebuilt)
    BY <1>2, <1>6, <2>4, <2>5, WorkerKeepsQueue, RunningFields DEF Busy, Rebuilt
  <2>7. historyPoints \in [Backends -> SUBSET Messages]
    BY DEF IndexInv, Shape
  <2>8. /\ historyPoints' \in [Backends -> SUBSET Messages]
        /\ historyPoints'[current.backend] = historyPoints[current.backend] \cup {m}
    BY <1>2, <1>6, <2>7
  <2>9. Shape' /\ VersionInv'
    BY <1>2, <1>6, <2>1, <2>4, <2>8 DEF IndexInv, Shape, VersionInv
  <2>10. WorkInv'
    BY <1>2, <1>6, <2>1, <2>4, <2>6 DEF IndexInv, WorkInv
  <2>11. BackedInv'
    BY <1>2, <1>6, <2>1, <2>4, <2>6 DEF IndexInv, BackedInv, Agrees, InHand
  <2>12. ASSUME NEW f, FileCovered(f) PROVE FileCovered(f)'
    BY <1>2, <1>6, <2>1, <2>4, <2>6, <2>12
       DEF FileCovered, FilePending, FileAtHand, FileDone, FileLeftAlone, TaskIsFresh
  <2>13. ASSUME UpToDate, settings = current.backend, NEW n, n = m \/ MessageCovered(n)
         PROVE  MessageCovered(n)'
    <3>1. CASE MessagePending(n)
      BY <2>1, <3>1 DEF MessageCovered, MessagePending
    <3>2. CASE n = m \/ MessageDone(n)
      <4>1. n \in historyPoints'[settings']
        BY <2>1, <2>8, <2>13, <3>2 DEF MessageDone
      <4> QED
        BY <1>2, <2>4, <4>1 DEF MessageCovered, MessageDone
    <3>3. CASE n # m /\ MessageAtHand(n)
      BY <1>2, <2>2, <2>4, <2>6, <3>3 DEF MessageCovered, MessageAtHand
    <3> QED
      BY <2>13, <3>1, <3>2, <3>3 DEF MessageCovered
  <2> QED
    <3>1. ASSUME UpToDate, settings = current.backend, NEW n \in (1..messages) \ unread',
                 n \notin unread => MessageCovered(n)
          PROVE  MessageCovered(n)'
      BY <1>6, <2>13, <3>1
    <3> QED
      BY <1>6, <2>5, <2>6, <2>9, <2>10, <2>11, <2>12, <3>1, WorkerKeeps
<1> QED
  BY <1>3, <1>4, <1>5, <1>6 DEF UploadMessage

(* The state file is replaced by what the job has noted.                   *)
LEMMA WriteKeeps == ASSUME IndexInv, WriteIndexState PROVE IndexInv'
<1>1. current # Idle /\ current.at = "write"
  BY DEF WriteIndexState
<1>2. /\ current \in Running /\ Busy /\ current.backend \in Backends
      /\ current.state \in [Files -> Versions]
  BY <1>1, RunningFields DEF IndexInv, Shape, Busy
<1>3. CASE RequestFails
  BY <1>2, <1>3, RequestFailsKeeps
<1>4. CASE ~RequestFails
  <2>1. /\ index' = [backend |-> current.backend, files |-> current.state]
        /\ spoiled' = IF IsFull /\ index.backend # current.backend
                      THEN spoiled \ {current.backend} ELSE spoiled
        /\ dropped' = {f \in dropped : current.state[f] > 0}
        /\ GoTo("over") /\ WorkerOnly /\ UNCHANGED <<tasks, points, historyPoints, faults, unread>>
    BY <1>4 DEF WriteIndexState, IsFull
  <2>2. UNCHANGED <<version, present, messages, settings, generation, announced, pending, keys>>
    BY <2>1 DEF WorkerOnly, guiVars
  <2>3. /\ current' \in Running /\ current'.at = "over"
        /\ current'.job = current.job /\ current'.backend = current.backend
        /\ current'.generation = current.generation /\ current'.state = current.state
        /\ current'.toDelete = current.toDelete /\ current'.toIndex = current.toIndex
        /\ current'.history = current.history
    BY <1>2, <2>1, GoToFields DEF Steps
  <2>4. WorkerFrame
    BY <1>2, <2>2, <2>3 DEF WorkerFrame
  <2>5. QueueInv' /\ ListsInv' /\ (UpToDate' <=> UpToDate)
    BY <2>4, WorkerKeepsQueue
  <2>6. ~Busy' /\ current' # Idle
    BY <2>3, RunningFields DEF Busy
  <2>7. /\ index'.backend = current.backend /\ index'.files = current.state
        /\ spoiled' \subseteq spoiled /\ dropped' \subseteq dropped
        /\ current.backend \in spoiled \ spoiled' => Rebuilt
        /\ \A b \in spoiled : b # current.backend => b \in spoiled'
        /\ \A f : f \in dropped' <=> f \in dropped /\ current.state[f] > 0
    BY <2>1 DEF Rebuilt
  <2>8. index' \in [backend : Backends \cup {Disabled}, files : [Files -> Versions]]
    BY <1>2, <2>1
  <2>9. Shape'
    BY <2>1, <2>2, <2>3, <2>7, <2>8 DEF IndexInv, Shape
  <2>10. VersionInv'
    BY <1>1, <2>1, <2>2, <2>3, <2>7 DEF IndexInv, VersionInv
  <2>11. \A f \in Files : tasks[f].at = "none"
    BY <1>1, <1>2 DEF IndexInv, WorkInv
  <2>12. WorkInv'
    <3>1. current.job.kind \in {"full", "file", "history"}
      BY <1>2, RunningFields, JobFields
    <3>2. "over" \in StepsOf(current.job.kind)
      BY <3>1 DEF StepsOf, Steps
    <3>3. \A f \in dropped' : index'.files[f] > 0
      BY <2>7
    <3>4. Formed(current'.job)
      BY <1>1, <2>3 DEF IndexInv, WorkInv
    <3> QED
      BY <1>1, <2>1, <2>3, <2>6, <2>11, <3>2, <3>3, <3>4 DEF IndexInv, WorkInv
  <2>13. UpToDate => settings = current.backend
    BY <1>1 DEF IndexInv, PassInv
  <2>14. PassInv'
    <3>1. settings # Disabled => HeadFull \/ Settled'
      BY <1>1, <2>2, <2>7, <2>13 DEF IndexInv, PassInv, Settled
    <3> QED
      BY <1>1, <2>2, <2>3, <2>5, <2>6, <3>1 DEF IndexInv, PassInv, HeadFull
  <2>15. BackedInv'
    <3> SUFFICES ASSUME current.backend \notin spoiled', NEW f \in Files
                 PROVE  Agrees(index.files, index.backend, f)'
      BY <2>6, <2>7 DEF BackedInv
    <3>1. Agrees(current.state, current.backend, f)
      <4>1. current.backend \notin spoiled \/ Rebuilt
        BY <2>7
      <4>2. ~InHand(f, {"stat", "upload"})
        BY <1>1 DEF InHand
      <4> QED
        BY <1>1, <1>2, <4>1, <4>2 DEF IndexInv, BackedInv
    <3>2. f \in present => version[f] > 0
      BY DEF IndexInv, VersionInv
    <3> QED
      BY <2>1, <2>2, <2>7, <3>1, <3>2 DEF Agrees
  <2>16. CoverInv'
    <3>1. CASE ~UpToDate
      BY <2>4, <3>1, StaleIsCovered
    <3>2. CASE UpToDate
      <4> SUFFICES ASSUME Trusted'
                   PROVE  /\ \A f \in announced : FileCovered(f)'
                          /\ \A m \in (1..messages) \ unread : MessageCovered(m)'
        BY <2>1, <2>2 DEF CoverInv
      <4>1. settings \notin spoiled'
        BY <2>2, <2>6 DEF Trusted, InPass
      <4>2. Trusted
        BY <1>2, <2>2, <2>7, <2>13, <3>2, <4>1 DEF Trusted, InPass, Rebuilt
      <4>3. /\ \A f \in announced : FileCovered(f)
            /\ \A m \in (1..messages) \ unread : MessageCovered(m)
        BY <4>2 DEF IndexInv, CoverInv
      <4>4. ASSUME NEW f \in announced PROVE FileCovered(f)'
        <5>1. ~FileAtHand(f)
          BY <1>1 DEF IndexInv, WorkInv, FileAtHand
        <5>2. CASE FilePending(f)
          BY <2>2, <5>2 DEF FileCovered, FilePending
        <5>3. CASE FileDone(f)
          <6>1. FileLeftAlone(f)'
            BY <2>6 DEF FileLeftAlone
          <6>2. points[settings][f] = version[f] \/ f \in dropped'
            BY <1>1, <1>2, <2>7, <5>3 DEF FileDone
          <6> QED
            BY <2>1, <2>2, <2>6, <6>1, <6>2 DEF FileCovered, FileDone
        <5> QED
          BY <4>3, <5>1, <5>2, <5>3 DEF FileCovered
      <4>5. ASSUME NEW m \in (1..messages) \ unread PROVE MessageCovered(m)'
        <5>1. ~MessageAtHand(m)
          BY <1>1 DEF IndexInv, WorkInv, MessageAtHand
        <5>2. CASE MessagePending(m)
          BY <2>2, <5>2 DEF MessageCovered, MessagePending
        <5>3. CASE MessageDone(m)
          BY <2>1, <2>2, <2>6, <5>3 DEF MessageCovered, MessageDone
        <5> QED
          BY <4>3, <5>1, <5>2, <5>3 DEF MessageCovered
      <4> QED
        BY <4>4, <4>5
    <3> QED
      BY <3>1, <3>2
  <2> QED
    BY <2>5, <2>9, <2>10, <2>12, <2>14, <2>15, <2>16 DEF IndexInv
<1> QED
  BY <1>3, <1>4

-----------------------------------------------------------------------------
(* The steps of a job of one file, and of one message.                     *)

(* A job for a file is about one file.                                     *)
LEMMA TheFileIs ==
    ASSUME IndexInv, NEW step, At("file", step), step # "over"
    PROVE  \E f \in Files : /\ current.job = FileJob(f) /\ current.job.files = {f} /\ TheFile = f
                            /\ current.job.message = NoMessage
<1>1. current.job \in Job /\ Formed(current.job) /\ current.job.kind = "file"
  BY AtFields
<1>2. PICK f \in Files : current.job = FileJob(f)
  BY <1>1, FormedKinds
<1>3. current.job.files = {f} /\ current.job.message = NoMessage
  BY <1>2, JobsMade
<1>4. TheFile = f
  BY <1>3 DEF TheFile
<1> QED
  BY <1>2, <1>3, <1>4

(* Job of a file: its points are deleted.                                  *)
LEMMA DeletePointsKeeps == ASSUME IndexInv, DeleteFilePoints PROVE IndexInv'
<1>1. At("file", "load")
  BY DEF DeleteFilePoints
<1>2. /\ current \in Running /\ current # Idle /\ Busy /\ ~IsFull
      /\ current.backend \in Backends /\ current.job.kind = "file" /\ current.at = "load"
  BY <1>1, AtFields
<1>3. PICK f \in Files : /\ current.job.files = {f} /\ TheFile = f
                         /\ current.job.message = NoMessage
  BY <1>1, TheFileIs
<1>4. CASE RequestFails
  BY <1>2, <1>4, RequestFailsKeeps
<1>5. CASE ~RequestFails
  <2>1. /\ points' = [points EXCEPT ![current.backend][f] = 0]
        /\ current' = [current EXCEPT !.at = "stat", !.state = index.files]
        /\ WorkerOnly /\ UNCHANGED <<tasks, index, historyPoints, faults, spoiled, dropped, unread>>
    BY <1>3, <1>5 DEF DeleteFilePoints
  <2>2. UNCHANGED <<version, present, messages, settings, generation, announced, pending, keys>>
    BY <2>1 DEF WorkerOnly, guiVars
  <2>3. index.files \in [Files -> Versions]
    BY DEF IndexInv, Shape
  <2>4. /\ current' \in Running /\ current'.at = "stat" /\ current'.state = index.files
        /\ current'.job = current.job /\ current'.backend = current.backend
        /\ current'.generation = current.generation
        /\ current'.toDelete = current.toDelete /\ current'.toIndex = current.toIndex
        /\ current'.history = current.history
    <3>1. current' \in Running
      BY <1>2, <2>1, <2>3 DEF Running, Steps
    <3> QED
      BY <1>2, <2>1, <3>1 DEF Running
  <2>5. WorkerFrame
    BY <1>2, <2>2, <2>4 DEF WorkerFrame
  <2>6. (UpToDate' <=> UpToDate) /\ ~IsFull' /\ current' # Idle /\ Busy'
    BY <1>2, <2>4, <2>5, WorkerKeepsQueue, RunningFields DEF Busy
  <2>7. /\ points' \in [Backends -> [Files -> Versions]]
        /\ points'[current.backend][f] = 0
        /\ \A c \in Backends, g \in Files :
              c # current.backend \/ g # f => points'[c][g] = points[c][g]
    BY <1>2, <2>1, Bounds, PointsEdit DEF IndexInv, Shape
  <2>8. Shape'
    BY <2>1, <2>2, <2>4, <2>7 DEF IndexInv, Shape
  <2>9. VersionInv'
    <3>1. \A g \in Files : version[g] \in Nat
      BY Bounds DEF IndexInv, Shape
    <3> QED
      BY <1>2, <2>1, <2>2, <2>4, <2>7, <3>1 DEF IndexInv, VersionInv
  <2>10. WorkInv'
    <3>1. "stat" \in StepsOf(current.job.kind)
      BY <1>2 DEF StepsOf
    <3> QED
      BY <1>2, <2>1, <2>2, <2>4, <2>6, <3>1 DEF IndexInv, WorkInv
  <2>11. BackedInv'
    <3>1. \A g : ~InHand(g, {"stat", "upload", "write"})
      BY <1>2 DEF InHand
    <3>2. InHand(f, {"stat", "upload", "write"})' /\ InHand(f, {"stat", "upload"})'
      BY <1>2, <1>3, <2>4, <2>6 DEF InHand
    <3>3. ASSUME index.backend \in Backends \ spoiled, NEW g \in Files,
                 g # f \/ index.backend # current.backend
          PROVE  Agrees(index.files, index.backend, g) /\ Agrees(index.files, index.backend, g)'
      <4>1. Agrees(index.files, index.backend, g)
        BY <3>1, <3>3 DEF IndexInv, BackedInv
      <4> QED
        BY <2>1, <2>2, <2>7, <3>3, <4>1 DEF Agrees
    <3>4. ASSUME current.backend \notin spoiled, NEW g \in Files, g # f
          PROVE  Agrees(current.state, current.backend, g)'
      <4>1. index.backend = current.backend
        BY <1>2, <3>4 DEF IndexInv, PassInv
      <4>2. Agrees(index.files, index.backend, g)
        BY <1>2, <3>3, <3>4, <4>1
      <4> QED
        BY <1>2, <2>1, <2>2, <2>4, <2>7, <3>4, <4>1, <4>2 DEF Agrees
    <3> QED
      BY <2>1, <2>4, <2>6, <3>2, <3>3, <3>4 DEF BackedInv, Rebuilt
  <2>12. ASSUME settings = current.backend, NEW g \in announced, FileCovered(g)
         PROVE  FileCovered(g)'
    <3>1. CASE FilePending(g) \/ FileAtHand(g)
      BY <1>2, <2>1, <2>2, <2>4, <2>6, <3>1
         DEF FileCovered, FilePending, FileAtHand, TaskIsFresh
    <3>2. CASE FileDone(g)
      <4>1. g # f /\ g \in Files
        BY <1>2, <1>3, <3>2 DEF FileDone, FileLeftAlone, IndexInv, Shape
      <4>2. FileLeftAlone(g)'
        BY <1>3, <2>4, <2>6, <4>1 DEF FileLeftAlone
      <4>3. points'[settings][g] = points[settings][g]
        BY <1>2, <2>7, <2>12, <4>1
      <4>4. g \in dropped => current'.state[g] > 0
        BY <2>4 DEF IndexInv, WorkInv
      <4> QED
        BY <2>1, <2>2, <3>2, <4>2, <4>3, <4>4 DEF FileCovered, FileDone
    <3> QED
      BY <2>12, <3>1, <3>2 DEF FileCovered
  <2>13. ASSUME NEW m \in (1..messages) \ unread, MessageCovered(m) PROVE MessageCovered(m)'
    <3>1. current.job.message # m
      BY <1>3, <2>13 DEF NoMessage
    <3> QED
      BY <1>2, <2>1, <2>2, <2>6, <2>13, <3>1
         DEF MessageCovered, MessagePending, MessageAtHand, MessageDone
  <2> QED
    BY <2>1, <2>5, <2>6, <2>8, <2>9, <2>10, <2>11, <2>12, <2>13, WorkerKeeps
<1> QED
  BY <1>4, <1>5

(* Job of a file: the state is taken before the text is read.              *)
LEMMA StatKeeps == ASSUME IndexInv, TakeFileState PROVE IndexInv'
<1>1. At("file", "stat")
  BY DEF TakeFileState
<1>2. /\ current \in Running /\ current # Idle /\ Busy /\ ~IsFull
      /\ current.backend \in Backends /\ current.job.kind = "file" /\ current.at = "stat"
      /\ current.state \in [Files -> Versions]
  BY <1>1, AtFields
<1>3. PICK f \in Files : /\ current.job.files = {f} /\ TheFile = f
                         /\ current.job.message = NoMessage
  BY <1>1, TheFileIs
<1>4. PICK v \in Versions : v = IF f \in present THEN version[f] ELSE 0
  <2>1. version[f] \in Versions
    BY DEF IndexInv, Shape
  <2> QED
    BY <2>1, Bounds
<1>5. PICK step \in {"upload", "write"} : step = IF f \in present THEN "upload" ELSE "write"
  OBVIOUS
<1> DEFINE state == [current.state EXCEPT ![f] = v]
<1>6. /\ state \in [Files -> Versions] /\ state[f] = v
      /\ \A g \in Files : g # f => state[g] = current.state[g]
  BY <1>2
<1>7. current' = [current EXCEPT !.state = state, !.at = step]
  BY <1>2, <1>3, <1>4, <1>5 DEF TakeFileState, Running
<1> HIDE DEF state
<1>8. UNCHANGED <<version, present, messages, settings, generation, announced, pending, keys,
                  tasks, index, points, historyPoints, faults, spoiled, dropped, unread>>
  BY DEF TakeFileState, WorkerOnly, guiVars, backendVars
<1>9. /\ current' \in Running /\ current'.at = step /\ current'.state = state
      /\ current'.job = current.job /\ current'.backend = current.backend
      /\ current'.generation = current.generation
      /\ current'.toDelete = current.toDelete /\ current'.toIndex = current.toIndex
      /\ current'.history = current.history
  <2>1. current' \in Running
    BY <1>2, <1>5, <1>6, <1>7 DEF Running, Steps
  <2> QED
    BY <1>2, <1>7, <2>1 DEF Running
<1>10. WorkerFrame
  BY <1>2, <1>8, <1>9 DEF WorkerFrame
<1>11. (UpToDate' <=> UpToDate) /\ ~IsFull' /\ current' # Idle /\ Busy'
  BY <1>2, <1>9, <1>10, WorkerKeepsQueue, RunningFields DEF Busy
<1>12. Shape'
  BY <1>8, <1>9 DEF IndexInv, Shape
<1>13. VersionInv'
  <2>1. version[f] \in Nat /\ v <= version[f]
    <3>1. version[f] \in Nat
      BY Bounds DEF IndexInv, Shape
    <3> QED
      BY <1>4, <3>1
  <2>2. \A g \in Files : state[g] <= version[g]
    BY <1>2, <1>6, <2>1 DEF IndexInv, VersionInv
  <2> QED
    BY <1>8, <1>9, <2>2 DEF IndexInv, VersionInv
<1>14. WorkInv'
  <2>1. step \in StepsOf(current.job.kind)
    BY <1>2 DEF StepsOf
  <2> QED
    BY <1>2, <1>8, <1>9, <1>11, <2>1 DEF IndexInv, WorkInv
<1>15. BackedInv'
  <2>1. ASSUME index.backend \in Backends \ spoiled, NEW g \in Files
        PROVE  \/ Agrees(index.files, index.backend, g)'
               \/ InHand(g, {"stat", "upload", "write"})' /\ current.backend = index.backend
    BY <1>2, <1>8, <1>9, <1>11, <2>1 DEF IndexInv, BackedInv, Agrees, InHand
  <2>2. ASSUME current.backend \notin spoiled, NEW g \in Files
        PROVE  Agrees(current.state, current.backend, g)' \/ InHand(g, {"stat", "upload"})'
    <3>1. CASE g # f
      <4>1. Agrees(current.state, current.backend, g)
        BY <1>2, <1>3, <2>2, <3>1 DEF IndexInv, BackedInv, InHand
      <4> QED
        BY <1>6, <1>8, <1>9, <3>1, <4>1 DEF Agrees
    <3>2. CASE g = f /\ f \in present
      BY <1>2, <1>3, <1>5, <1>9, <1>11, <3>2 DEF InHand
    <3>3. CASE g = f /\ f \notin present
      BY <1>8, <3>3 DEF Agrees
    <3> QED
      BY <3>1, <3>2, <3>3
  <2> QED
    BY <1>8, <1>9, <1>11, <2>1, <2>2 DEF BackedInv, Rebuilt
<1>16. ASSUME NEW g \in announced, FileCovered(g) PROVE FileCovered(g)'
  <2>1. CASE FilePending(g)
    BY <1>8, <2>1 DEF FileCovered, FilePending
  <2>2. CASE FileAtHand(g)
    <3>1. g = f /\ step = "upload"
      BY <1>2, <1>3, <1>5, <2>2 DEF FileAtHand, IndexInv, ListsInv
    <3> QED
      BY <1>3, <1>9, <1>11, <2>2, <3>1 DEF FileCovered, FileAtHand
  <2>3. CASE FileDone(g)
    <3>1. g # f /\ g \in Files
      BY <1>2, <1>3, <2>3 DEF FileDone, FileLeftAlone, IndexInv, Shape
    <3>2. FileLeftAlone(g)'
      BY <1>3, <1>9, <1>11, <3>1 DEF FileLeftAlone
    <3> QED
      BY <1>2, <1>6, <1>8, <1>9, <2>3, <3>1, <3>2 DEF FileCovered, FileDone
  <2> QED
    BY <1>16, <2>1, <2>2, <2>3 DEF FileCovered
<1>17. ASSUME NEW m, MessageCovered(m) PROVE MessageCovered(m)'
  BY <1>2, <1>8, <1>9, <1>11, <1>17
     DEF MessageCovered, MessagePending, MessageAtHand, MessageDone
<1> QED
  BY <1>8, <1>10, <1>11, <1>12, <1>13, <1>14, <1>15, <1>16, <1>17, WorkerKeeps

(* Job of a file: the points of its text are uploaded.                     *)
LEMMA TextKeeps == ASSUME IndexInv, UploadFileText PROVE IndexInv'
<1>1. At("file", "upload")
  BY DEF UploadFileText
<1>2. /\ current \in Running /\ current # Idle /\ Busy /\ ~IsFull
      /\ current.backend \in Backends /\ current.job.kind = "file" /\ current.at = "upload"
  BY <1>1, AtFields
<1>3. PICK f \in Files : /\ current.job.files = {f} /\ TheFile = f
                         /\ current.job.message = NoMessage
  BY <1>1, TheFileIs
<1>4. CASE RequestFails
  BY <1>2, <1>4, RequestFailsKeeps
<1>5. CASE Fails /\ UNCHANGED <<points, historyPoints, faults>>
  <2>1. /\ GoTo("over") /\ WorkerOnly /\ UNCHANGED <<tasks, index, dropped, unread, points>>
        /\ spoiled' = spoiled \cup {current.backend}
    BY <1>5 DEF Fails
  <2>2. /\ faults' \in 0..MaxFaults /\ points' \in [Backends -> [Files -> Versions]]
        /\ historyPoints' \in [Backends -> SUBSET Messages]
    BY <1>5 DEF IndexInv, Shape
  <2> QED
    BY <1>2, <2>1, <2>2, EndKeeps
<1>6. ASSUME points' = [points EXCEPT ![current.backend][f] = version[f]],
             GoTo("write"), WorkerOnly,
             UNCHANGED <<tasks, index, historyPoints, faults, spoiled, dropped, unread>>
      PROVE  IndexInv'
  <2>1. UNCHANGED <<version, present, messages, settings, generation, announced, pending, keys>>
    BY <1>6 DEF WorkerOnly, guiVars
  <2>2. /\ current' \in Running /\ current'.at = "write"
        /\ current'.job = current.job /\ current'.backend = current.backend
        /\ current'.generation = current.generation /\ current'.state = current.state
        /\ current'.toDelete = current.toDelete /\ current'.toIndex = current.toIndex
        /\ current'.history = current.history
    BY <1>2, <1>6, GoToFields DEF Steps
  <2>3. WorkerFrame
    BY <1>2, <2>1, <2>2 DEF WorkerFrame
  <2>4. (UpToDate' <=> UpToDate) /\ ~IsFull' /\ current' # Idle /\ Busy'
    BY <1>2, <2>2, <2>3, WorkerKeepsQueue, RunningFields DEF Busy
  <2>5. version[f] \in Versions
    BY DEF IndexInv, Shape
  <2>6. /\ points' \in [Backends -> [Files -> Versions]]
        /\ points'[current.backend][f] = version[f]
        /\ \A c \in Backends, g \in Files :
              c # current.backend \/ g # f => points'[c][g] = points[c][g]
    BY <1>2, <1>6, <2>5, PointsEdit DEF IndexInv, Shape
  <2>7. Shape'
    BY <1>6, <2>1, <2>2, <2>6 DEF IndexInv, Shape
  <2>8. VersionInv'
    <3>1. \A g \in Files : version[g] \in Nat
      BY Bounds DEF IndexInv, Shape
    <3>2. \A c \in Backends, g \in Files : points'[c][g] <= version[g]
      BY <2>6, <3>1 DEF IndexInv, VersionInv
    <3> QED
      BY <1>2, <1>6, <2>1, <2>2, <3>2 DEF IndexInv, VersionInv
  <2>9. WorkInv'
    <3>1. "write" \in StepsOf(current.job.kind)
      BY <1>2 DEF StepsOf
    <3> QED
      BY <1>2, <1>6, <2>1, <2>2, <2>4, <3>1 DEF IndexInv, WorkInv
  <2>10. BackedInv'
    <3>1. InHand(f, {"stat", "upload", "write"})'
      BY <1>2, <1>3, <2>2, <2>4 DEF InHand
    <3>2. ASSUME index.backend \in Backends \ spoiled, NEW g \in Files,
                 g # f \/ index.backend # current.backend
          PROVE  Agrees(index.files, index.backend, g)'
      <4>1. Agrees(index.files, index.backend, g)
        BY <1>2, <1>3, <3>2 DEF IndexInv, BackedInv, InHand
      <4> QED
        BY <1>6, <2>1, <2>6, <3>2, <4>1 DEF Agrees
    <3>3. ASSUME current.backend \notin spoiled, NEW g \in Files
          PROVE  Agrees(current.state, current.backend, g)'
      <4>1. CASE g # f
        <5>1. Agrees(current.state, current.backend, g)
          BY <1>2, <1>3, <3>3, <4>1 DEF IndexInv, BackedInv, InHand
        <5> QED
          BY <1>2, <1>6, <2>1, <2>2, <2>6, <4>1, <5>1 DEF Agrees
      <4>2. CASE g = f
        BY <1>2, <2>1, <2>2, <2>6, <4>2 DEF Agrees
      <4> QED
        BY <4>1, <4>2
    <3> QED
      BY <1>6, <2>2, <2>4, <3>1, <3>2, <3>3 DEF BackedInv, Rebuilt
  <2>11. ASSUME settings = current.backend, NEW g \in announced, FileCovered(g)
         PROVE  FileCovered(g)'
    <3>1. FileLeftAlone(g)'
      BY <2>2, <2>4 DEF FileLeftAlone
    <3>2. CASE FilePending(g)
      BY <2>1, <3>2 DEF FileCovered, FilePending
    <3>3. CASE g = f
      BY <1>2, <2>1, <2>6, <2>11, <3>1, <3>3 DEF FileCovered, FileDone
    <3>4. CASE g # f
      <4>1. ~FileAtHand(g)
        BY <1>2, <1>3, <3>4 DEF FileAtHand
      <4>2. g \in Files
        BY DEF IndexInv, Shape
      <4>3. points'[settings][g] = points[settings][g]
        BY <1>2, <2>6, <2>11, <3>4, <4>2
      <4> QED
        BY <1>2, <1>6, <2>1, <2>2, <2>11, <3>1, <3>2, <4>1, <4>3 DEF FileCovered, FileDone
    <3> QED
      BY <3>3, <3>4
  <2>12. ASSUME NEW m, MessageCovered(m) PROVE MessageCovered(m)'
    BY <1>2, <1>6, <2>1, <2>2, <2>4, <2>12
       DEF MessageCovered, MessagePending, MessageAtHand, MessageDone
  <2> QED
    BY <1>6, <2>3, <2>4, <2>7, <2>8, <2>9, <2>10, <2>11, <2>12, WorkerKeeps
<1> QED
  BY <1>3, <1>4, <1>5, <1>6 DEF UploadFileText

(* Job of a message: its points are uploaded.                              *)
LEMMA MessageKeeps == ASSUME IndexInv, IndexMessage PROVE IndexInv'
<1>1. At("history", "load")
  BY DEF IndexMessage
<1>2. /\ current \in Running /\ current # Idle /\ Busy /\ ~IsFull
      /\ current.backend \in Backends /\ current.job.kind = "history" /\ current.at = "load"
      /\ current.job \in Job /\ Formed(current.job)
  BY <1>1, AtFields
<1>3. PICK m \in Messages : current.job.message = m /\ current.job.files = {}
  BY <1>2, FormedKinds, JobsMade
<1>4. historyPoints \in [Backends -> SUBSET Messages]
  BY DEF IndexInv, Shape
<1>5. ASSUME faults < MaxFaults, faults' = faults + 1,
             historyPoints' \in {historyPoints,
                                 [historyPoints EXCEPT ![current.backend] = @ \ {m}]},
             Fails, UNCHANGED points
      PROVE  IndexInv'
  <2>1. /\ GoTo("over") /\ WorkerOnly /\ UNCHANGED <<tasks, index, dropped, unread>>
        /\ spoiled' = spoiled \cup {current.backend}
    BY <1>5 DEF Fails
  <2>2. faults' \in 0..MaxFaults
    BY <1>5, Bounds DEF IndexInv, Shape
  <2>3. historyPoints' \in [Backends -> SUBSET Messages]
    BY <1>2, <1>4, <1>5
  <2>4. points' \in [Backends -> [Files -> Versions]]
    BY <1>5 DEF IndexInv, Shape
  <2> QED
    BY <1>2, <1>5, <2>1, <2>2, <2>3, <2>4, EndKeeps
<1>6. ASSUME historyPoints' = [historyPoints EXCEPT ![current.backend] = @ \cup {m}],
             unread' = unread \ {m}, GoTo("over"), WorkerOnly,
             UNCHANGED <<tasks, index, points, faults, spoiled, dropped>>
      PROVE  IndexInv'
  <2>1. UNCHANGED <<version, present, messages, settings, generation, announced, pending, keys>>
    BY <1>6 DEF WorkerOnly, guiVars
  <2>2. /\ current' \in Running /\ current'.at = "over"
        /\ current'.job = current.job /\ current'.backend = current.backend
        /\ current'.generation = current.generation /\ current'.state = current.state
        /\ current'.toDelete = current.toDelete /\ current'.toIndex = current.toIndex
        /\ current'.history = current.history
    BY <1>2, <1>6, GoToFields DEF Steps
  <2>3. WorkerFrame
    BY <1>2, <2>1, <2>2 DEF WorkerFrame
  <2>4. QueueInv' /\ ListsInv' /\ (UpToDate' <=> UpToDate)
    BY <2>3, WorkerKeepsQueue
  <2>5. ~Busy' /\ current' # Idle
    BY <2>2, RunningFields DEF Busy
  <2>6. /\ historyPoints' \in [Backends -> SUBSET Messages]
        /\ historyPoints'[current.backend] = historyPoints[current.backend] \cup {m}
        /\ \A b \in Backends : historyPoints[b] \subseteq historyPoints'[b]
    BY <1>2, <1>4, <1>6
  <2>7. Shape' /\ VersionInv'
    BY <1>2, <1>6, <2>1, <2>2, <2>6 DEF IndexInv, Shape, VersionInv
  <2>8. WorkInv'
    <3>1. "over" \in StepsOf(current.job.kind)
      BY <1>2 DEF StepsOf
    <3> QED
      BY <1>2, <1>6, <2>1, <2>2, <2>5, <3>1 DEF IndexInv, WorkInv
  <2>9. PassInv'
    <3>1. settings # Disabled => HeadFull \/ Settled
      BY <1>2 DEF IndexInv, PassInv, InPass
    <3> QED
      BY <1>2, <1>6, <2>1, <2>2, <2>4, <2>5, <3>1 DEF IndexInv, PassInv, HeadFull, Settled
  <2>10. BackedInv'
    <3> SUFFICES ASSUME index.backend \in Backends \ spoiled, NEW f \in Files
                 PROVE  Agrees(index.files, index.backend, f)'
      BY <1>6, <2>5 DEF BackedInv
    <3>1. Agrees(index.files, index.backend, f)
      BY <1>2 DEF IndexInv, BackedInv, InHand
    <3> QED
      BY <1>6, <2>1, <3>1 DEF Agrees
  <2>11. CoverInv'
    <3> SUFFICES ASSUME Trusted'
                 PROVE  /\ \A f \in announced : FileCovered(f)'
                        /\ \A n \in (1..messages) \ unread' : MessageCovered(n)'
      BY <2>1 DEF CoverInv
    <3>1. Trusted /\ settings \in Backends
      BY <1>6, <2>1, <2>5 DEF Trusted, InPass, IndexInv, Shape
    <3>2. ASSUME NEW f \in announced PROVE FileCovered(f)'
      <4>1. FilePending(f) \/ FileDone(f)
        BY <1>2, <1>3, <3>1 DEF IndexInv, CoverInv, FileCovered, FileAtHand
      <4> QED
        BY <1>2, <1>6, <2>1, <2>5, <4>1
           DEF FileCovered, FilePending, FileDone, FileLeftAlone
    <3>3. ASSUME NEW n \in (1..messages) \ unread' PROVE MessageCovered(n)'
      <4>0. CASE n = m /\ ~MessageCovered(m)
        <5>1. CASE UpToDate
          <6>1. settings = current.backend
            BY <1>2, <5>1 DEF IndexInv, PassInv
          <6> QED
            BY <2>1, <2>5, <2>6, <4>0, <6>1 DEF MessageCovered, MessageDone
        <5>2. CASE ~UpToDate
          <6>1. CoverInv'
            BY <2>3, <5>2, StaleIsCovered
          <6> QED
            BY <2>1, <6>1 DEF CoverInv
        <5> QED
          BY <5>1, <5>2
      <4>1. MessageCovered(n) \/ (n = m /\ ~MessageCovered(m))
        BY <1>6, <3>1 DEF IndexInv, CoverInv
      <4>2. CASE MessagePending(n)
        BY <2>1, <4>2 DEF MessageCovered, MessagePending
      <4>3. CASE MessageAtHand(n)
        <5>1. n = m /\ settings = current.backend
          BY <1>2, <1>3, <4>3 DEF MessageAtHand, IndexInv, PassInv
        <5> QED
          BY <2>1, <2>5, <2>6, <5>1 DEF MessageCovered, MessageDone
      <4>4. CASE MessageDone(n)
        BY <2>1, <2>5, <2>6, <3>1, <4>4 DEF MessageCovered, MessageDone
      <4> QED
        BY <4>0, <4>1, <4>2, <4>3, <4>4 DEF MessageCovered
    <3> QED
      BY <3>2, <3>3
  <2> QED
    BY <2>4, <2>7, <2>8, <2>9, <2>10, <2>11 DEF IndexInv
<1> QED
  BY <1>3, <1>5, <1>6 DEF IndexMessage

-----------------------------------------------------------------------------
(* The invariant holds.                                                    *)

(* At first nothing is indexed and nothing promised.                       *)
LEMMA InitInv == IndexingInit => IndexInv
<1> SUFFICES ASSUME IndexingInit PROVE IndexInv
  OBVIOUS
<1>1. /\ version = Nothing /\ present = {} /\ messages = 0
      /\ settings = Disabled /\ generation = 0
      /\ pending = <<>> /\ keys = NoKeys
      /\ current = Idle /\ tasks = [f \in Files |-> NoTask]
      /\ index = [backend |-> Disabled, files |-> Nothing]
      /\ points = [b \in Backends |-> Nothing]
      /\ historyPoints = [b \in Backends |-> {}]
      /\ faults = 0 /\ announced = {} /\ spoiled = {} /\ dropped = {} /\ unread = {}
  BY DEF IndexingInit
<1>2. Nothing \in [Files -> Versions] /\ \A f \in Files : Nothing[f] = 0
  BY Bounds DEF Nothing
<1>3. NoTask \in Task /\ NoTask.at = "none" /\ NoTask.state = 0 /\ NoTask.text = 0
  BY Bounds DEF NoTask, Task
<1>4. /\ 0 \in 0..MaxMessages /\ 0 \in 0..MaxRefreshes /\ 0 \in 0..MaxFaults
  BY Bounds
<1>5. pending \in Seq(Job) /\ DOMAIN pending = {}
  BY <1>1
<1>6. \A f \in Files : tasks[f] = NoTask
  BY <1>1
<1>7. {f \in Files : tasks[f].at # "none"} = {}
  BY <1>3, <1>6
<1>8. Cardinality({f \in Files : tasks[f].at # "none"}) <= Threads
  <2>1. Cardinality({}) = 0
    BY FS_EmptySet
  <2>2. 0 <= Threads
    BY IndexingAssumption
  <2> QED
    BY <1>7, <2>1, <2>2
<1>9. keys \in Keys
  BY <1>1 DEF NoKeys, Keys
<1>10. tasks \in [Files -> Task]
  BY <1>1, <1>3
<1>11. /\ points \in [Backends -> [Files -> Versions]]
       /\ historyPoints \in [Backends -> SUBSET Messages]
       /\ index \in [backend : Backends \cup {Disabled}, files : [Files -> Versions]]
  BY <1>1, <1>2
<1>12. Shape
  BY <1>1, <1>2, <1>4, <1>5, <1>8, <1>9, <1>10, <1>11 DEF Shape
<1>13. VersionInv
  <2>1. \A f \in Files : /\ version[f] = 0 /\ index.files[f] = 0
                         /\ \A b \in Backends : points[b][f] = 0
    BY <1>1, <1>2
  <2> QED
    BY <1>1, <1>3, <1>6, <2>1 DEF VersionInv
<1>14. QueueInv
  BY <1>1, <1>5 DEF QueueInv, QueueOK, NoKeys
<1>15. WorkInv
  BY <1>1, <1>3, <1>6 DEF WorkInv
<1>16. PassInv /\ ListsInv
  BY <1>1, <1>5 DEF PassInv, ListsInv, InPass, Busy
<1>17. BackedInv
  BY <1>1, IndexingAssumption DEF BackedInv, Busy
<1>18. CoverInv
  BY <1>1 DEF CoverInv, Trusted
<1> QED
  BY <1>12, <1>13, <1>14, <1>15, <1>16, <1>17, <1>18 DEF IndexInv

(* Every step keeps the invariant.                                         *)
LEMMA NextKeeps == IndexInv /\ [IndexingNext]_indexingVars => IndexInv'
<1> SUFFICES ASSUME IndexInv, [IndexingNext]_indexingVars PROVE IndexInv'
  OBVIOUS
<1>1. CASE DocumentSaved
  BY <1>1, SavedKeeps
<1>2. CASE FileChangesOutside
  BY <1>2, OutsideKeeps
<1>3. CASE MessageAppended
  BY <1>3, AppendedKeeps
<1>4. CASE ProjectAdded
  BY <1>4, AddedKeeps
<1>5. CASE RefreshFromSettings
  BY <1>5, RefreshKeeps
<1>6. CASE HandleJobFinished
  BY <1>6, FinishedKeeps
<1>7. CASE WorkerStep
  BY <1>7, LoadKeeps, ResetKeeps, DeleteKeeps, TakeKeeps, ReadKeeps, UploadKeeps, HistoryKeeps,
     UploadMessageKeeps, WriteKeeps, DeletePointsKeeps, StatKeeps, TextKeeps, MessageKeeps
     DEF WorkerStep
<1>8. CASE UNCHANGED indexingVars
  BY <1>8, NothingKeeps
<1> QED
  BY <1>1, <1>2, <1>3, <1>4, <1>5, <1>6, <1>7, <1>8 DEF IndexingNext

(* Every reachable state satisfies the invariant.                          *)
THEOREM IndexInvHolds == IndexingSpec => []IndexInv
BY InitInv, NextKeeps, PTL DEF IndexingSpec

(* StateIsBacked: between jobs no file is in hand, so BackedInv says of    *)
(* every file that the state file lists as it is on disk that the backend  *)
(* has it.                                                                 *)
THEOREM BackedState == IndexingSpec => []StateIsBacked
<1>1. IndexInv => StateIsBacked
  <2> SUFFICES ASSUME IndexInv, current = Idle, index.backend \in Backends \ spoiled,
                      NEW f \in present \ dropped, index.files[f] = version[f]
               PROVE  points[index.backend][f] = version[f]
    BY DEF StateIsBacked
  <2>1. f \in Files
    BY DEF IndexInv, Shape
  <2>2. Agrees(index.files, index.backend, f)
    BY <2>1 DEF IndexInv, BackedInv, InHand
  <2> QED
    BY <2>2 DEF Agrees
<1> QED
  BY <1>1, IndexInvHolds, PTL

(* IndexIsCurrent: with the queue empty and no job running, a file or a    *)
(* message that is covered is done.                                        *)
THEOREM CurrentIndex == IndexingSpec => []IndexIsCurrent
<1>1. IndexInv => IndexIsCurrent
  <2> SUFFICES ASSUME IndexInv, AtRest, settings \in Backends \ spoiled
               PROVE  /\ \A f \in (announced \cap present) \ dropped :
                            points[settings][f] = version[f]
                      /\ (1..messages) \ unread \subseteq historyPoints[settings]
    BY DEF IndexIsCurrent
  <2>1. current = Idle /\ DOMAIN pending = {}
    BY DEF AtRest
  <2>2. Trusted
    BY IndexingAssumption DEF Trusted
  <2>3. ASSUME NEW f \in announced \ dropped PROVE points[settings][f] = version[f]
    <3>1. FileCovered(f)
      BY <2>2 DEF IndexInv, CoverInv
    <3> QED
      BY <2>1, <3>1 DEF FileCovered, FilePending, FileAtHand, FileDone, Busy
  <2>4. ASSUME NEW m \in (1..messages) \ unread PROVE m \in historyPoints[settings]
    <3>1. MessageCovered(m)
      BY <2>2 DEF IndexInv, CoverInv
    <3> QED
      BY <2>1, <3>1 DEF MessageCovered, MessagePending, MessageAtHand, MessageDone, Busy
  <2> QED
    BY <2>3, <2>4
<1> QED
  BY <1>1, IndexInvHolds, PTL

(* What a job of the queue is queued for: one thing of everything, of each *)
(* file and of each message.                                               *)
Works == {FullJob({})} \cup {FileJob(f) : f \in Files} \cup {HistoryJob(m) : m \in Messages}

WorkOf(j) == IF j.kind = "full" THEN FullJob({}) ELSE j

(* There are finitely many keys.                                           *)
LEMMA WorksCount ==
    /\ IsFiniteSet(Works) /\ Cardinality(Works) \in Nat
    /\ Cardinality(Works) <= 1 + Cardinality(Files) + MaxMessages
<1> DEFINE P == {FileJob(f) : f \in Files}
           Q == {HistoryJob(m) : m \in Messages}
           p == [f \in Files |-> FileJob(f)]
           q == [m \in Messages |-> HistoryJob(m)]
<1>1. IsFiniteSet(Files) /\ Cardinality(Files) \in Nat
  BY IndexingAssumption, FS_CardinalityType
<1>2. IsFiniteSet(Messages) /\ Cardinality(Messages) = MaxMessages
  <2>1. MaxMessages \in Nat /\ MaxMessages \in Int /\ 1 \in Int
    BY Bounds
  <2>2. IsFiniteSet(Messages) /\ Cardinality(Messages) = IF 1 > MaxMessages THEN 0 ELSE MaxMessages - 1 + 1
    BY <2>1, FS_Interval DEF Messages
  <2> QED
    BY <2>1, <2>2
<1>3. p \in Surjection(Files, P)
  BY DEF Surjection
<1>4. q \in Surjection(Messages, Q)
  BY DEF Surjection
<1>5. Works = (P \cup Q) \cup {FullJob({})}
  BY DEF Works
<1> HIDE DEF P, Q, p, q
<1>6. IsFiniteSet(P) /\ Cardinality(P) <= Cardinality(Files) /\ Cardinality(P) \in Nat
  BY <1>1, <1>3, FS_Surjection, FS_CardinalityType
<1>7. IsFiniteSet(Q) /\ Cardinality(Q) <= MaxMessages /\ Cardinality(Q) \in Nat
  BY <1>2, <1>4, FS_Surjection, FS_CardinalityType
<1>8. /\ IsFiniteSet(P \cup Q) /\ Cardinality(P \cup Q) \in Nat
      /\ Cardinality(P \cup Q) = Cardinality(P) + Cardinality(Q) - Cardinality(P \cap Q)
      /\ Cardinality(P \cap Q) \in Nat
  <2>1. P \cap Q \in SUBSET P
    OBVIOUS
  <2>2. IsFiniteSet(P \cap Q)
    BY <1>6, <2>1, FS_Subset
  <2> QED
    BY <1>6, <1>7, <2>2, FS_Union, FS_CardinalityType
<1>9. /\ IsFiniteSet(Works) /\ Cardinality(Works) \in Nat
      /\ \/ Cardinality(Works) = Cardinality(P \cup Q)
         \/ Cardinality(Works) = Cardinality(P \cup Q) + 1
  BY <1>5, <1>8, FS_AddElement, FS_CardinalityType
<1>10. Cardinality(P \cup Q) <= Cardinality(Files) + MaxMessages
  BY <1>1, <1>6, <1>7, <1>8, Bounds
<1> QED
  BY <1>1, <1>8, <1>9, <1>10, Bounds

(* The queue has no more jobs than there are keys.                         *)
LEMMA QueueIsShort ==
    ASSUME IndexInv PROVE Len(pending) <= 1 + Cardinality(Files) + MaxMessages
<1> DEFINE n == Len(pending)
           g == [i \in 1..n |-> WorkOf(pending[i])]
<1>1. pending \in Seq(Job) /\ n \in Nat /\ DOMAIN pending = 1..n
  BY DEF IndexInv, Shape
<1>2. QueueOK(pending, keys)
  BY DEF IndexInv, QueueInv
<1>3. ASSUME NEW i \in 1..n
      PROVE  /\ WorkOf(pending[i]) \in Works
             /\ pending[i].kind = "full" => WorkOf(pending[i]).kind = "full"
             /\ pending[i].kind # "full" => WorkOf(pending[i]) = pending[i]
  <2>1. pending[i] \in Job /\ Formed(pending[i])
    BY <1>1, <1>2 DEF QueueOK
  <2>2. pending[i].kind \in {"full", "file", "history"}
    BY <2>1, JobFields
  <2>3. WorkOf(pending[i]) \in Works
    BY <2>1, <2>2, FormedKinds DEF WorkOf, Works
  <2>4. FullJob({}).kind = "full"
    BY JobsMade
  <2> QED
    BY <2>3, <2>4 DEF WorkOf
<1>4. ASSUME NEW i \in 1..n, NEW k \in 1..n, WorkOf(pending[i]) = WorkOf(pending[k])
      PROVE  i = k
  <2>1. SameWork(pending[i], pending[k])
    BY <1>3, <1>4 DEF SameWork
  <2> QED
    BY <1>1, <1>2, <2>1 DEF QueueOK
<1>5. g \in Injection(1..n, Works)
  BY <1>3, <1>4 DEF Injection, IsInjective
<1> HIDE DEF g
<1>6. Cardinality(1..n) <= Cardinality(Works)
  BY <1>5, WorksCount, FS_Injection
<1>7. Cardinality(1..n) = n
  <2>1. n \in Int /\ 1 \in Int
    BY <1>1
  <2>2. Cardinality(1..n) = IF 1 > n THEN 0 ELSE n - 1 + 1
    BY <2>1, FS_Interval
  <2> QED
    BY <1>1, <2>2
<1>8. Cardinality(Files) \in Nat /\ MaxMessages \in Nat
  BY Bounds, IndexingAssumption, FS_CardinalityType
<1>9. n <= Cardinality(Works)
  BY <1>6, <1>7
<1> QED
  BY <1>1, <1>8, <1>9, WorksCount

(* IndexingTypeOK, with the length of the queue: the keys let in one full  *)
(* job, one job of each file and one of each message, however often files  *)
(* are saved.                                                              *)
THEOREM IndexTypes == IndexingSpec => []IndexingTypeOK
<1>1. IndexInv => IndexingTypeOK
  BY QueueIsShort DEF IndexInv, Shape, IndexingTypeOK
<1> QED
  BY <1>1, IndexInvHolds, PTL
=============================================================================
