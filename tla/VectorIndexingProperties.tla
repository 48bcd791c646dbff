----------------------- MODULE VectorIndexingProperties ----------------------
(***************************************************************************)
(* What the index is worth to vector search.                               *)
(***************************************************************************)
EXTENDS VectorIndexing

(* The state file is believed: a full job skips a file whose state agrees  *)
(* with the disk.  So between jobs, on a backend where none has failed     *)
(* since it was built, what the state says of a file as it is on disk the  *)
(* backend has: whatever saves came between taking the state of a file and *)
(* reading it, and whatever jobs of other settings were cancelled halfway. *)
(* The exception is a file made after a full job was queued: the job takes *)
(* it for deleted, and when it is cancelled the state file goes on listing *)
(* what has no points.                                                     *)
StateIsBacked ==
    current = Idle /\ index.backend \in Backends \ spoiled =>
        \A f \in present \ dropped :
            index.files[f] = version[f] => points[index.backend][f] = version[f]

(* No change is lost: when the queue is empty, every file the manager was  *)
(* told of is indexed as it is on disk, and so is every message of the     *)
(* chat that the last full job could read or that a job has indexed since, *)
(* although jobs that are pending keep out others, jobs that run do not,   *)
(* and a change of the settings empties the queue.                         *)
AtRest == current = Idle /\ pending = <<>>

IndexIsCurrent ==
    AtRest /\ settings \in Backends \ spoiled =>
        /\ \A f \in (announced \cap present) \ dropped : points[settings][f] = version[f]
        /\ (1..messages) \ unread \subseteq historyPoints[settings]

(* No job starves: what is queued is started (or dropped by a change of    *)
(* the settings), also behind jobs that fail or are cancelled, and while   *)
(* projects go on being opened.                                            *)
QueuedWorkStarts ==
    /\ keys.root ~> ~keys.root
    /\ \A f \in Files : (f \in keys.files) ~> (f \notin keys.files)
    /\ \A m \in Messages : (m \in keys.messages) ~> (m \notin keys.messages)
=============================================================================
