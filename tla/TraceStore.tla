----------------------------- MODULE TraceStore -----------------------------
(***************************************************************************)
(* Execution traces after the answer: the detached task of a run that      *)
(* writes the trace object and then its index row, the object versions and *)
(* their retention, and the replay endpoints with their cache.             *)
(*                                                                         *)
(* A request has several traces when a clarification is answered more than *)
(* once: every reply is a run of the same request id and writes the same   *)
(* object key and the same index row.  Nothing orders the tasks of two     *)
(* runs, and the object and the row are written in two systems.            *)
(*                                                                         *)
(* The version id of an object is the run that wrote it.  Until the API    *)
(* process has enabled versioning, objects get no version id and replace   *)
(* one another.                                                            *)
(***************************************************************************)
EXTENDS Naturals, Sequences, SequencesExt

CONSTANTS
    Requests,  \* request ids
    Runs,      \* pipeline runs and builtin tool calls that reach the trace writer
    Readers,   \* replay requests in progress at a time
    None       \* no run, no version id, no row


Entries == [object_version : Runs \cup {None},  \* None: "", the latest object
            first : Runs,                       \* the run of user, intent and model
            last  : Runs]                       \* the run of the governance columns

ASSUME NoneAssumption ==
    None \notin Runs /\ None \notin Requests /\ None \notin Entries

Tasks == [pc : {"none", "dispatched", "stored", "done", "lost"},
          of : Requests \cup {None}, version : Runs \cup {None}]

Replays == [pc : {"idle", "looked", "read"}, of : Requests \cup {None},
            version : Runs \cup {None}, got : Runs \cup {None}]

VARIABLES
    versioning,  \* whether the bucket keeps versions
    task,        \* task[r]: the step of the task of run r and its request
    objects,     \* objects[q]: the runs whose objects are kept, in order of writing
    expired,     \* runs whose object the lifecycle rule has removed
    index,       \* index[q]: the row of the request
    cache,       \* cache[q]: the run whose trace is cached
    replay,      \* replay[d]: a replay request
    disturbed,   \* (history) requests with overlapping or failed tasks
    errors       \* (history) requests whose indexed trace could not be read

vars == <<versioning, task, objects, expired, index, cache, replay, disturbed, errors>>

Idle == [pc |-> "idle", of |-> None, version |-> None, got |-> None]

Init ==
    /\ versioning = FALSE
    /\ task = [r \in Runs |-> [pc |-> "none", of |-> None, version |-> None]]
    /\ objects = [q \in Requests |-> <<>>]
    /\ expired = {}
    /\ index = [q \in Requests |-> None]
    /\ cache = [q \in Requests |-> None]
    /\ replay = [d \in Readers |-> Idle]
    /\ disturbed = {}
    /\ errors = {}

\* The API process starts and makes the bucket ready.
EnableVersioning ==
    /\ ~versioning
    /\ versioning' = TRUE
    /\ UNCHANGED <<task, objects, expired, index, cache, replay, disturbed, errors>>

-----------------------------------------------------------------------------
(* The task of a run.                                                      *)

Pending(q) == {r \in Runs : task[r].of = q /\ task[r].pc \in {"dispatched", "stored"}}

\* The run reaches trace_writer; its answer does not wait for the task.
Dispatch(r, q) ==
    /\ task[r].pc = "none"
    /\ task' = [task EXCEPT ![r].pc = "dispatched", ![r].of = q]
    /\ disturbed' = IF Pending(q) = {} THEN disturbed ELSE disturbed \cup {q}
    /\ UNCHANGED <<versioning, objects, expired, index, cache, replay, errors>>

\* put_object; what it returns as the version id goes into the index row.
WriteObject(r) ==
    LET q == task[r].of IN
    /\ task[r].pc = "dispatched"
    /\ objects' = [objects EXCEPT ![q] = IF versioning THEN Append(@, r) ELSE <<r>>]
    /\ task' = [task EXCEPT ![r].pc = "stored",
                            ![r].version = IF versioning THEN r ELSE None]
    /\ UNCHANGED <<versioning, expired, index, cache, replay, disturbed, errors>>

\* Mutation of Upserted: ON CONFLICT DO NOTHING.
UpsertedOnce(row, r, version) ==
    IF row = None THEN [object_version |-> version, first |-> r, last |-> r] ELSE row

\* The row after INSERT ... ON CONFLICT (request_id) DO UPDATE: the columns of
\* the object and of the governance are replaced, the others stay.
Upserted(row, r, version) ==
    [object_version |-> version,
     first |-> IF row = None THEN r ELSE row.first,
     last  |-> r]

\* Mutation of UpsertIndex: the row is written before the object.
UpsertFirst(r) ==
    LET q == task[r].of IN
    /\ task[r].pc \in {"dispatched", "stored"}
    /\ index' = [index EXCEPT ![q] = Upserted(@, r, task[r].version)]
    /\ task' = [task EXCEPT ![r].pc = IF @ = "stored" THEN "done" ELSE @]
    /\ UNCHANGED <<versioning, objects, expired, cache, replay, disturbed, errors>>

UpsertIndex(r) ==
    LET q == task[r].of IN
    /\ task[r].pc = "stored"
    /\ index' = [index EXCEPT ![q] = Upserted(@, r, task[r].version)]
    /\ task' = [task EXCEPT ![r].pc = "done"]
    /\ UNCHANGED <<versioning, objects, expired, cache, replay, disturbed, errors>>

\* A write fails and the exception is swallowed, or the process stops: the
\* trace is lost, or its object has no row.
LoseTask(r) ==
    /\ task[r].pc \in {"dispatched", "stored"}
    /\ task' = [task EXCEPT ![r].pc = "lost"]
    /\ disturbed' = disturbed \cup {task[r].of}
    /\ UNCHANGED <<versioning, objects, expired, index, cache, replay, errors>>

\* The lifecycle rule removes an object: by its age when it is the current
\* version, later when it is another one.  Index rows stay.
ExpireObject(r) ==
    /\ task[r].pc \in {"done", "lost"}
    /\ r \in ToSet(objects[task[r].of]) \ expired
    /\ expired' = expired \cup {r}
    /\ UNCHANGED <<versioning, task, objects, index, cache, replay, disturbed, errors>>

-----------------------------------------------------------------------------
(* Replay: detail and export.                                              *)

\* The run whose object a row's version id names.
Target(q, version) == IF version = None THEN Last(objects[q]) ELSE version

\* A cached trace, or no row (404), ends the request; else the row is kept.
Lookup(d, q) ==
    /\ replay[d].pc = "idle"
    /\ cache[q] = None
    /\ index[q] # None
    /\ replay' = [replay EXCEPT ![d] = [pc |-> "looked", of |-> q, got |-> None,
                                        version |-> index[q].object_version]]
    /\ UNCHANGED <<versioning, task, objects, expired, index, cache, disturbed, errors>>

\* get_object; a version that is gone ends the request with an error.
ReadObject(d) ==
    LET q == replay[d].of
        r == Target(q, replay[d].version)
    IN
    /\ replay[d].pc = "looked"
    /\ IF objects[q] # <<>> /\ r \in ToSet(objects[q]) \ expired
       THEN /\ replay' = [replay EXCEPT ![d].pc = "read", ![d].got = r]
            /\ UNCHANGED errors
       ELSE /\ replay' = [replay EXCEPT ![d] = Idle]
            /\ errors' = errors \cup {q}
    /\ UNCHANGED <<versioning, task, objects, expired, index, cache, disturbed>>

\* SETEX and the answer.
FillCache(d) ==
    /\ replay[d].pc = "read"
    /\ cache' = [cache EXCEPT ![replay[d].of] = replay[d].got]
    /\ replay' = [replay EXCEPT ![d] = Idle]
    /\ UNCHANGED <<versioning, task, objects, expired, index, disturbed, errors>>

\* A connection fails, or the caller goes away.
AbandonReplay(d) ==
    /\ replay[d].pc # "idle"
    /\ replay' = [replay EXCEPT ![d] = Idle]
    /\ UNCHANGED <<versioning, task, objects, expired, index, cache, disturbed, errors>>

\* Mutation of ExpireCache: the entry has no time to live.
KeepCache(q) ==
    /\ cache[q] # None
    /\ UNCHANGED vars

\* The time to live of the entry ends.
ExpireCache(q) ==
    /\ cache[q] # None
    /\ cache' = [cache EXCEPT ![q] = None]
    /\ UNCHANGED <<versioning, task, objects, expired, index, replay, disturbed, errors>>

-----------------------------------------------------------------------------
Next ==
    \/ EnableVersioning
    \/ \E r \in Runs :
        \/ \E q \in Requests : Dispatch(r, q)
        \/ WriteObject(r) \/ UpsertIndex(r) \/ LoseTask(r) \/ ExpireObject(r)
    \/ \E d \in Readers :
        \/ \E q \in Requests : Lookup(d, q)
        \/ ReadObject(d) \/ FillCache(d) \/ AbandonReplay(d)
    \/ \E q \in Requests : ExpireCache(q)

Spec == Init /\ [][Next]_vars

FairSpec == Spec /\ \A q \in Requests : WF_vars(ExpireCache(q))

-----------------------------------------------------------------------------
(* Properties.                                                             *)

TypeOK ==
    /\ versioning \in BOOLEAN
    /\ task \in [Runs -> Tasks]
    /\ \A r \in Runs : task[r].pc # "none" => task[r].of \in Requests
    /\ objects \in [Requests -> Seq(Runs)]
    /\ expired \subseteq Runs
    /\ index \in [Requests -> Entries \cup {None}]
    /\ cache \in [Requests -> Runs \cup {None}]
    /\ replay \in [Readers -> Replays]
    /\ \A d \in Readers : replay[d].pc # "idle" => replay[d].of \in Requests
    /\ disturbed \subseteq Requests
    /\ errors \subseteq Requests

\* A trace that has a row can be read until the retention of one of the
\* objects of the request has ended, however tasks fail, overlap and are cut
\* short: no row is ahead of its object.
OnlyRetentionLosesTraces ==
    errors \subseteq {task[r].of : r \in expired}

\* When the runs of a request wrote their traces one after the other and no
\* write failed, the row leads to the trace of the last of them, and its
\* governance columns, which the search filters by, are of that trace too.
SerialRunsAreShown ==
    \A q \in Requests \ disturbed :
        Pending(q) = {} /\ objects[q] # <<>> =>
            /\ index[q] # None
            /\ Target(q, index[q].object_version) = Last(objects[q])
            /\ index[q].last = Last(objects[q])

\* The cached trace that the row has left behind goes away: when runs have
\* come to an end, replays show what the row points to, or nothing yet.
StaleReplayEnds ==
    \A q \in Requests :
        <>[](cache[q] # None =>
                index[q] # None /\ cache[q] = Target(q, index[q].object_version))
=============================================================================
