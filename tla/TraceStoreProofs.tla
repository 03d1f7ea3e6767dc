-------------------------- MODULE TraceStoreProofs --------------------------
(***************************************************************************)
(* Proofs about TraceStore, for any numbers of requests, runs and readers. *)
(***************************************************************************)
EXTENDS TraceStore, SequenceTheorems, TLAPS

\* What an appended object changes in a sequence of objects.
LEMMA AppendFacts ==
    ASSUME NEW s \in Seq(Runs), NEW r \in Runs
    PROVE  /\ Append(s, r) \in Seq(Runs)
           /\ Append(s, r) # <<>>
           /\ Last(Append(s, r)) = r
           /\ ToSet(Append(s, r)) = ToSet(s) \cup {r}
<1>1. /\ Len(Append(s, r)) = Len(s) + 1
      /\ \A i \in 1 .. Len(s) : Append(s, r)[i] = s[i]
      /\ Append(s, r)[Len(s) + 1] = r
  OBVIOUS
<1>2. DOMAIN s = 1 .. Len(s) /\ DOMAIN Append(s, r) = 1 .. Len(s) + 1 /\ Len(s) \in Nat
  OBVIOUS
<1>3. ToSet(Append(s, r)) = ToSet(s) \cup {r}
  BY <1>1, <1>2 DEF ToSet
<1>. QED  BY <1>1, <1>3 DEF Last

\* The sequence of one object.
LEMMA SingleFacts ==
    ASSUME NEW r \in Runs
    PROVE  <<r>> \in Seq(Runs) /\ <<r>> # <<>> /\ Last(<<r>>) = r /\ ToSet(<<r>>) = {r}
  BY DEF Last, ToSet

\* The latest object is one of the objects.
LEMMA LastIsIn ==
    ASSUME NEW s \in Seq(Runs), s # <<>>
    PROVE  Last(s) \in ToSet(s) /\ Last(s) \in Runs
<1>1. Len(s) \in 1 .. Len(s) /\ DOMAIN s = 1 .. Len(s)
  OBVIOUS
<1>. QED  BY <1>1 DEF Last, ToSet

\* There is no object of a run in the empty sequence.
LEMMA MembersAreRuns ==
    ASSUME NEW s \in Seq(Runs)
    PROVE  ToSet(s) \subseteq Runs
  BY DEF ToSet

-----------------------------------------------------------------------------
\* Every variable keeps its type: a row always has the columns of its first
\* and of its last run.
THEOREM TraceTypeCorrect == Spec => []TypeOK
<1>1. Init => TypeOK
  <2> SUFFICES ASSUME Init PROVE TypeOK
    OBVIOUS
  <2>1. task \in [Runs -> Tasks] /\ \A r \in Runs : task[r].pc = "none"
    BY DEF Init, Tasks
  <2>2. replay \in [Readers -> Replays] /\ \A d \in Readers : replay[d].pc = "idle"
    BY DEF Init, Replays, Idle
  <2>3. objects \in [Requests -> Seq(Runs)]
    BY DEF Init
  <2>. QED  BY <2>1, <2>2, <2>3 DEF Init, TypeOK
<1>2. TypeOK /\ [Next]_vars => TypeOK'
  <2> SUFFICES ASSUME TypeOK, [Next]_vars PROVE TypeOK'
    OBVIOUS
  <2>0. /\ task \in [Runs -> Tasks]
        /\ \A r \in Runs : task[r].pc # "none" => task[r].of \in Requests
        /\ replay \in [Readers -> Replays]
        /\ \A d \in Readers : replay[d].pc # "idle" => replay[d].of \in Requests
    BY DEF TypeOK
  <2>1. CASE EnableVersioning
    BY <2>1 DEF EnableVersioning, TypeOK
  <2>2. ASSUME NEW r \in Runs, NEW q \in Requests, Dispatch(r, q) PROVE TypeOK'
    <3>1. task' = [task EXCEPT ![r].pc = "dispatched", ![r].of = q]
      BY <2>2 DEF Dispatch
    <3>2. /\ task' \in [Runs -> Tasks]
          /\ \A s \in Runs : task'[s].pc # "none" => task'[s].of \in Requests
      BY <2>0, <3>1 DEF Tasks
    <3>. QED  BY <2>2, <3>2 DEF Dispatch, TypeOK
  <2>3. ASSUME NEW r \in Runs, WriteObject(r) PROVE TypeOK'
    <3>. DEFINE q == task[r].of
    <3>1. q \in Requests /\ objects \in [Requests -> Seq(Runs)]
      BY <2>3 DEF WriteObject, TypeOK
    <3>2. objects' = [objects EXCEPT ![q] = IF versioning THEN Append(@, r) ELSE <<r>>]
      BY <2>3 DEF WriteObject
    <3>3. Append(objects[q], r) \in Seq(Runs) /\ <<r>> \in Seq(Runs)
      BY <3>1
    <3>4. objects' \in [Requests -> Seq(Runs)]
      BY <3>1, <3>2, <3>3
    <3>5. task' = [task EXCEPT ![r].pc = "stored",
                               ![r].version = IF versioning THEN r ELSE None]
      BY <2>3 DEF WriteObject
    <3>6. /\ task' \in [Runs -> Tasks]
          /\ \A s \in Runs : task'[s].pc # "none" => task'[s].of \in Requests
      BY <2>0, <3>1, <3>5 DEF Tasks
    <3>. QED  BY <2>3, <3>4, <3>6 DEF WriteObject, TypeOK
  <2>4. ASSUME NEW r \in Runs, UpsertIndex(r) PROVE TypeOK'
    <3>. DEFINE q == task[r].of
    <3>1. /\ q \in Requests /\ index[q] \in Entries \cup {None}
          /\ task[r].version \in Runs \cup {None}
      BY <2>4 DEF UpsertIndex, TypeOK, Tasks
    <3>2. index[q] # None => index[q].first \in Runs
      BY <3>1 DEF Entries
    <3>3. Upserted(index[q], r, task[r].version) \in Entries
      BY <3>1, <3>2 DEF Upserted, Entries
    <3>4. index' \in [Requests -> Entries \cup {None}]
      BY <2>4, <3>1, <3>3 DEF UpsertIndex, TypeOK
    <3>5. task' = [task EXCEPT ![r].pc = "done"]
      BY <2>4 DEF UpsertIndex
    <3>6. /\ task' \in [Runs -> Tasks]
          /\ \A s \in Runs : task'[s].pc # "none" => task'[s].of \in Requests
      BY <2>0, <3>1, <3>5 DEF Tasks
    <3>. QED  BY <2>4, <3>4, <3>6 DEF UpsertIndex, TypeOK
  <2>5. ASSUME NEW r \in Runs, LoseTask(r) PROVE TypeOK'
    <3>1. task[r].of \in Requests /\ task' = [task EXCEPT ![r].pc = "lost"]
      BY <2>5 DEF LoseTask, TypeOK
    <3>2. /\ task' \in [Runs -> Tasks]
          /\ \A s \in Runs : task'[s].pc # "none" => task'[s].of \in Requests
      BY <2>0, <3>1 DEF Tasks
    <3>. QED  BY <2>5, <3>1, <3>2 DEF LoseTask, TypeOK
  <2>6. ASSUME NEW r \in Runs, ExpireObject(r) PROVE TypeOK'
    BY <2>6 DEF ExpireObject, TypeOK
  <2>7. ASSUME NEW d \in Readers, NEW q \in Requests, Lookup(d, q) PROVE TypeOK'
    <3>1. index[q].object_version \in Runs \cup {None}
      BY <2>7 DEF Lookup, TypeOK, Entries
    <3>2. replay' = [replay EXCEPT ![d] = [pc |-> "looked", of |-> q, got |-> None,
                                           version |-> index[q].object_version]]
      BY <2>7 DEF Lookup
    <3>3. /\ replay' \in [Readers -> Replays]
          /\ \A e \in Readers : replay'[e].pc # "idle" => replay'[e].of \in Requests
      BY <2>0, <3>1, <3>2 DEF Replays
    <3>. QED  BY <2>7, <3>3 DEF Lookup, TypeOK
  <2>8. ASSUME NEW d \in Readers, ReadObject(d) PROVE TypeOK'
    <3>. DEFINE q == replay[d].of
                r == Target(q, replay[d].version)
    <3>1. q \in Requests /\ ToSet(objects[q]) \subseteq Runs
      BY <2>8, MembersAreRuns DEF ReadObject, TypeOK
    <3>2. \/ replay' = [replay EXCEPT ![d] = Idle]
          \/ r \in Runs /\ replay' = [replay EXCEPT ![d].pc = "read", ![d].got = r]
      BY <2>8, <3>1 DEF ReadObject
    <3>3. Idle \in Replays /\ Idle.pc = "idle"
      BY DEF Idle, Replays
    <3>4. replay' \in [Readers -> Replays]
      BY <2>0, <3>2, <3>3 DEF Replays
    <3>5. \A e \in Readers : replay'[e].pc # "idle" => replay'[e].of \in Requests
      BY <2>0, <3>1, <3>2, <3>3 DEF Replays
    <3>6. errors' \subseteq Requests
      BY <2>8, <3>1 DEF ReadObject, TypeOK
    <3>. QED  BY <2>8, <3>4, <3>5, <3>6 DEF ReadObject, TypeOK
  <2>9. ASSUME NEW d \in Readers, FillCache(d) \/ AbandonReplay(d) PROVE TypeOK'
    <3>1. Idle \in Replays /\ Idle.pc = "idle" /\ replay' = [replay EXCEPT ![d] = Idle]
      BY <2>9 DEF FillCache, AbandonReplay, Idle, Replays
    <3>2. /\ replay' \in [Readers -> Replays]
          /\ \A e \in Readers : replay'[e].pc # "idle" => replay'[e].of \in Requests
      BY <2>0, <3>1
    <3>3. replay[d].got \in Runs \cup {None}
      BY <2>0 DEF Replays
    <3>4. cache' \in [Requests -> Runs \cup {None}]
      BY <2>9, <3>3 DEF FillCache, AbandonReplay, TypeOK
    <3>. QED  BY <2>9, <3>2, <3>4 DEF FillCache, AbandonReplay, TypeOK
  <2>10. ASSUME NEW q \in Requests, ExpireCache(q) PROVE TypeOK'
    BY <2>10 DEF ExpireCache, TypeOK
  <2>11. CASE UNCHANGED vars
    BY <2>11 DEF vars, TypeOK
  <2>. QED  BY <2>1, <2>2, <2>3, <2>4, <2>5, <2>6, <2>7, <2>8, <2>9, <2>10, <2>11 DEF Next
<1>. QED  BY <1>1, <1>2, PTL DEF Spec

-----------------------------------------------------------------------------
(* No row is ahead of its object.                                          *)

\* What a version id kept anywhere promises of the objects of its request:
\* there is one, and the one it names is among them.
Backed(objs, version) ==
    /\ objs # <<>>
    /\ version # None => version \in ToSet(objs)

ObjectsAreOfTasks ==
    \A q \in Requests : \A r \in ToSet(objects[q]) : task[r].of = q /\ task[r].pc # "none"
TasksAreBacked ==
    \A r \in Runs : task[r].pc = "stored" =>
        /\ Backed(objects[task[r].of], task[r].version)
        /\ ~versioning => task[r].version = None
RowsAreBacked ==
    \A q \in Requests : index[q] # None =>
        /\ Backed(objects[q], index[q].object_version)
        /\ ~versioning => index[q].object_version = None
ReplaysAreBacked ==
    \A d \in Readers : replay[d].pc # "idle" =>
        /\ Backed(objects[replay[d].of], replay[d].version)
        /\ ~versioning => replay[d].version = None
ExpiredAreOver ==
    \A r \in expired : task[r].pc \in {"done", "lost"}

BackedInv ==
    /\ ObjectsAreOfTasks /\ TasksAreBacked /\ RowsAreBacked /\ ReplaysAreBacked
    /\ ExpiredAreOver /\ OnlyRetentionLosesTraces

\* What WriteObject does to the objects of a request: what was backed stays
\* so, since objects are only added, or replaced while there are no version
\* ids, and the new object backs the task that wrote it.
LEMMA WrittenIsBacked ==
    ASSUME TypeOK, NEW r \in Runs, WriteObject(r)
    PROVE  /\ Backed(objects'[task[r].of], IF versioning THEN r ELSE None)
           /\ \A q \in Requests :
                 /\ ToSet(objects'[q]) \subseteq
                       IF q = task[r].of THEN ToSet(objects[q]) \cup {r} ELSE ToSet(objects[q])
                 /\ \A version : Backed(objects[q], version) /\ (~versioning => version = None)
                       => Backed(objects'[q], version)
<1>. DEFINE q == task[r].of
<1>1. q \in Requests /\ objects \in [Requests -> Seq(Runs)]
  BY DEF WriteObject, TypeOK
<1>2. objects' = [objects EXCEPT ![q] = IF versioning THEN Append(@, r) ELSE <<r>>]
  BY DEF WriteObject
<1>3. /\ objects'[q] # <<>> /\ r \in ToSet(objects'[q])
      /\ ToSet(objects'[q]) \subseteq ToSet(objects[q]) \cup {r}
      /\ versioning => ToSet(objects[q]) \subseteq ToSet(objects'[q])
  <2>1. CASE versioning
    <3>1. objects'[q] = Append(objects[q], r) /\ objects[q] \in Seq(Runs)
      BY <1>1, <1>2, <2>1
    <3>. QED  BY <3>1, AppendFacts
  <2>2. CASE ~versioning
    <3>1. objects'[q] = <<r>>
      BY <1>1, <1>2, <2>2
    <3>. QED  BY <2>2, <3>1, SingleFacts
  <2>. QED  BY <2>1, <2>2
<1>4. Backed(objects'[q], IF versioning THEN r ELSE None)
  BY <1>3 DEF Backed
<1>5. \A version : Backed(objects[q], version) /\ (~versioning => version = None)
          => Backed(objects'[q], version)
  BY <1>3 DEF Backed
<1>6. \A p \in Requests : p # q => objects'[p] = objects[p]
  BY <1>1, <1>2
<1>. QED  BY <1>3, <1>4, <1>5, <1>6

\* A replay that cannot read the trace of a row has met an object that the
\* retention removed, however the tasks of the runs of a request overlap,
\* fail or are cut short by a crash.
THEOREM RowsLeadToObjects == Spec => []OnlyRetentionLosesTraces
<1>1. Init => BackedInv
  <2>1. ToSet(<<>>) = {}
    BY DEF ToSet
  <2>. QED  BY <2>1 DEF Init, Idle, BackedInv, ObjectsAreOfTasks, TasksAreBacked, RowsAreBacked,
                    ReplaysAreBacked, ExpiredAreOver, OnlyRetentionLosesTraces
<1>2. TypeOK /\ BackedInv /\ [Next]_vars => BackedInv'
  <2> SUFFICES ASSUME TypeOK, BackedInv, [Next]_vars PROVE BackedInv'
    OBVIOUS
  <2>. USE DEF BackedInv
  <2>0. /\ task \in [Runs -> Tasks]
        /\ \A r \in Runs : task[r].pc # "none" => task[r].of \in Requests
        /\ replay \in [Readers -> Replays]
        /\ \A d \in Readers : replay[d].pc # "idle" => replay[d].of \in Requests
        /\ expired \subseteq Runs
        /\ index \in [Requests -> Entries \cup {None}]
        /\ objects \in [Requests -> Seq(Runs)]
        /\ \A q \in Requests : ToSet(objects[q]) \subseteq Runs
    BY MembersAreRuns DEF TypeOK
  <2>a. ASSUME UNCHANGED <<objects, versioning>>, UNCHANGED index PROVE RowsAreBacked'
    BY <2>a DEF RowsAreBacked
  <2>b. ASSUME UNCHANGED <<objects, versioning>>, UNCHANGED replay PROVE ReplaysAreBacked'
    BY <2>b DEF ReplaysAreBacked
  <2>c. ASSUME UNCHANGED <<objects, versioning>>, UNCHANGED task
        PROVE  ObjectsAreOfTasks' /\ TasksAreBacked'
    BY <2>c DEF ObjectsAreOfTasks, TasksAreBacked
  <2>d. ASSUME UNCHANGED <<task, expired, errors>>
        PROVE  ExpiredAreOver' /\ OnlyRetentionLosesTraces'
    BY <2>d DEF ExpiredAreOver, OnlyRetentionLosesTraces
  \* The task of a run moves on from its step.
  <2>e. ASSUME NEW r \in Runs, NEW step \in {"done", "lost"},
               task[r].pc \in {"dispatched", "stored"},
               task' = [task EXCEPT ![r].pc = step],
               UNCHANGED <<objects, versioning, expired, errors>>
        PROVE  ObjectsAreOfTasks' /\ TasksAreBacked' /\ ExpiredAreOver'
               /\ OnlyRetentionLosesTraces'
    <3>1. /\ \A s \in Runs \ {r} : task'[s] = task[s]
          /\ task'[r].pc = step
          /\ task'[r].of = task[r].of
      BY <2>0, <2>e DEF Tasks
    <3>2. ObjectsAreOfTasks'
      BY <2>0, <2>e, <3>1 DEF ObjectsAreOfTasks
    <3>3. TasksAreBacked'
      BY <2>e, <3>1 DEF TasksAreBacked
    <3>4. ExpiredAreOver' /\ OnlyRetentionLosesTraces'
      BY <2>0, <2>e, <3>1 DEF ExpiredAreOver, OnlyRetentionLosesTraces
    <3>. QED  BY <3>2, <3>3, <3>4
  <2>1. CASE EnableVersioning
    <3>1. TasksAreBacked' /\ RowsAreBacked' /\ ReplaysAreBacked'
      BY <2>1 DEF EnableVersioning, TasksAreBacked, RowsAreBacked, ReplaysAreBacked
    <3>2. ObjectsAreOfTasks'
      BY <2>1 DEF EnableVersioning, ObjectsAreOfTasks
    <3>. QED  BY <2>1, <2>d, <3>1, <3>2 DEF EnableVersioning
  <2>2. ASSUME NEW r \in Runs, NEW q \in Requests, Dispatch(r, q) PROVE BackedInv'
    <3>1. /\ task' = [task EXCEPT ![r].pc = "dispatched", ![r].of = q]
          /\ task[r].pc = "none"
          /\ UNCHANGED <<versioning, objects, expired, index, replay, errors>>
      BY <2>2 DEF Dispatch
    <3>2. task'[r].pc = "dispatched" /\ \A s \in Runs \ {r} : task'[s] = task[s]
      BY <2>0, <3>1 DEF Tasks
    <3>3. ObjectsAreOfTasks'
      BY <2>0, <3>1, <3>2 DEF ObjectsAreOfTasks
    <3>4. TasksAreBacked'
      BY <3>1, <3>2 DEF TasksAreBacked
    <3>5. r \notin expired
      BY <3>1 DEF ExpiredAreOver
    <3>6. ExpiredAreOver' /\ OnlyRetentionLosesTraces'
      BY <2>0, <3>1, <3>2, <3>5 DEF ExpiredAreOver, OnlyRetentionLosesTraces
    <3>. QED  BY <2>a, <2>b, <3>1, <3>3, <3>4, <3>6
  <2>3. ASSUME NEW r \in Runs, WriteObject(r) PROVE BackedInv'
    <3>. DEFINE q == task[r].of
                v == IF versioning THEN r ELSE None
    <3>1. /\ task' = [task EXCEPT ![r].pc = "stored", ![r].version = v]
          /\ task[r].pc = "dispatched" /\ q \in Requests
          /\ UNCHANGED <<versioning, expired, index, replay, errors>>
      BY <2>0, <2>3 DEF WriteObject
    <3>2. /\ \A s \in Runs \ {r} : task'[s] = task[s]
          /\ task'[r].pc = "stored" /\ task'[r].of = q /\ task'[r].version = v
      BY <2>0, <3>1 DEF Tasks
    <3>3. ObjectsAreOfTasks'
      BY <2>0, <2>3, <3>2, WrittenIsBacked DEF ObjectsAreOfTasks
    <3>4. TasksAreBacked'
      BY <2>0, <2>3, <3>1, <3>2, WrittenIsBacked DEF TasksAreBacked
    <3>5. RowsAreBacked'
      BY <2>3, <3>1, WrittenIsBacked DEF RowsAreBacked
    <3>6. ReplaysAreBacked'
      BY <2>0, <2>3, <3>1, WrittenIsBacked DEF ReplaysAreBacked
    <3>8. r \notin expired
      BY <3>1 DEF ExpiredAreOver
    <3>9. ExpiredAreOver' /\ OnlyRetentionLosesTraces'
      BY <2>0, <3>1, <3>2, <3>8 DEF ExpiredAreOver, OnlyRetentionLosesTraces
    <3>. QED  BY <3>3, <3>4, <3>5, <3>6, <3>9
  <2>4. ASSUME NEW r \in Runs, UpsertIndex(r) PROVE BackedInv'
    <3>. DEFINE q == task[r].of
                row == Upserted(index[q], r, task[r].version)
    <3>1. /\ task[r].pc = "stored" /\ q \in Requests
          /\ index' = [index EXCEPT ![q] = row]
          /\ task' = [task EXCEPT ![r].pc = "done"]
          /\ UNCHANGED <<versioning, objects, expired, replay, errors>>
      BY <2>0, <2>4 DEF UpsertIndex
    <3>2. row.object_version = task[r].version
      BY DEF Upserted
    <3>3. Backed(objects[q], row.object_version) /\ (~versioning => row.object_version = None)
      BY <3>1, <3>2 DEF TasksAreBacked
    <3>4. index'[q] = row /\ \A p \in Requests \ {q} : index'[p] = index[p]
      BY <2>0, <3>1
    <3>5. RowsAreBacked'
      BY <3>1, <3>3, <3>4 DEF RowsAreBacked
    <3>. QED  BY <2>b, <2>e, <3>1, <3>5
  <2>5. ASSUME NEW r \in Runs, LoseTask(r) PROVE BackedInv'
    <3>1. /\ task[r].pc \in {"dispatched", "stored"}
          /\ task' = [task EXCEPT ![r].pc = "lost"]
          /\ UNCHANGED <<versioning, objects, expired, index, replay, errors>>
      BY <2>5 DEF LoseTask
    <3>. QED  BY <2>a, <2>b, <2>e, <3>1
  <2>6. ASSUME NEW r \in Runs, ExpireObject(r) PROVE BackedInv'
    <3>1. /\ expired' = expired \cup {r} /\ task[r].pc \in {"done", "lost"}
          /\ UNCHANGED <<versioning, task, objects, index, replay, errors>>
      BY <2>6 DEF ExpireObject
    <3>2. ExpiredAreOver' /\ OnlyRetentionLosesTraces'
      BY <3>1 DEF ExpiredAreOver, OnlyRetentionLosesTraces
    <3>. QED  BY <2>a, <2>b, <2>c, <3>1, <3>2
  <2>7. ASSUME NEW d \in Readers, NEW q \in Requests, Lookup(d, q) PROVE BackedInv'
    <3>1. /\ index[q] # None
          /\ replay' = [replay EXCEPT ![d] = [pc |-> "looked", of |-> q, got |-> None,
                                              version |-> index[q].object_version]]
          /\ UNCHANGED <<versioning, task, objects, expired, index, errors>>
      BY <2>7 DEF Lookup
    <3>2. /\ replay'[d].of = q /\ replay'[d].version = index[q].object_version
          /\ \A e \in Readers \ {d} : replay'[e] = replay[e]
      BY <2>0, <3>1
    <3>3. ReplaysAreBacked'
      BY <3>1, <3>2 DEF RowsAreBacked, ReplaysAreBacked
    <3>. QED  BY <2>a, <2>c, <2>d, <3>1, <3>3
  <2>8. ASSUME NEW d \in Readers, ReadObject(d) PROVE BackedInv'
    <3>. DEFINE q == replay[d].of
                r == Target(q, replay[d].version)
    <3>1. q \in Requests /\ Backed(objects[q], replay[d].version) /\ replay[d].pc = "looked"
      BY <2>0, <2>8 DEF ReadObject, ReplaysAreBacked
    <3>2. r \in ToSet(objects[q]) /\ objects[q] # <<>>
      BY <2>0, <3>1, LastIsIn DEF Target, Backed
    <3>3. r \in expired => q \in {task[s].of : s \in expired}
      BY <3>1, <3>2 DEF ObjectsAreOfTasks
    <3>4. errors' = errors \/ (errors' = errors \cup {q} /\ r \in expired)
      BY <2>8, <3>2 DEF ReadObject
    <3>5. UNCHANGED <<versioning, task, objects, expired, index>>
      BY <2>8 DEF ReadObject
    <3>6. ExpiredAreOver' /\ OnlyRetentionLosesTraces'
      BY <3>3, <3>4, <3>5 DEF ExpiredAreOver, OnlyRetentionLosesTraces
    <3>7. \/ replay' = [replay EXCEPT ![d] = Idle]
          \/ replay' = [replay EXCEPT ![d].pc = "read", ![d].got = r]
      BY <2>8 DEF ReadObject
    <3>8. /\ \A e \in Readers \ {d} : replay'[e] = replay[e]
          /\ replay'[d].pc # "idle" => /\ replay'[d].of = q
                                       /\ replay'[d].version = replay[d].version
      BY <2>0, <3>7 DEF Replays, Idle
    <3>9. ReplaysAreBacked'
      BY <3>1, <3>5, <3>8 DEF ReplaysAreBacked
    <3>. QED  BY <2>a, <2>c, <3>5, <3>6, <3>9
  <2>9. ASSUME NEW d \in Readers, FillCache(d) \/ AbandonReplay(d) PROVE BackedInv'
    <3>1. /\ replay' = [replay EXCEPT ![d] = Idle]
          /\ UNCHANGED <<versioning, task, objects, expired, index, errors>>
      BY <2>9 DEF FillCache, AbandonReplay
    <3>2. ReplaysAreBacked'
      BY <2>0, <3>1 DEF ReplaysAreBacked, Idle
    <3>. QED  BY <2>a, <2>c, <2>d, <3>1, <3>2
  <2>10. CASE (\E q \in Requests : ExpireCache(q)) \/ UNCHANGED vars
    <3>1. UNCHANGED <<versioning, task, objects, expired, index, replay, errors>>
      BY <2>10 DEF ExpireCache, vars
    <3>. QED  BY <2>a, <2>b, <2>c, <2>d, <3>1
  <2>. QED  BY <2>1, <2>2, <2>3, <2>4, <2>5, <2>6, <2>7, <2>8, <2>9, <2>10 DEF Next
<1>. QED  BY <1>1, <1>2, TraceTypeCorrect, PTL DEF Spec, BackedInv

-----------------------------------------------------------------------------
(* Runs one after the other.  Until a task of the request overlaps another *)
(* one or fails, at most one is pending; the last object is the one it has *)
(* stored, or the one the row shows.                                       *)

Shown(row, objs) ==
    /\ row # None
    /\ row.object_version = None \/ row.object_version = Last(objs)
    /\ row.last = Last(objs)

OnePending ==
    \A q \in Requests \ disturbed : \A r, s \in Pending(q) : r = s
StoredIsLast ==
    \A r \in Runs : task[r].pc = "stored" /\ task[r].of \notin disturbed =>
        /\ objects[task[r].of] # <<>>
        /\ Last(objects[task[r].of]) = r
        /\ task[r].version \in {None, r}
NotStoredIsShown ==
    \A q \in Requests \ disturbed :
        (\A r \in Pending(q) : task[r].pc # "stored") /\ objects[q] # <<>> =>
            Shown(index[q], objects[q])

SerialInv == OnePending /\ StoredIsLast /\ NotStoredIsShown

\* When the runs of a request wrote their traces one after the other and no
\* write failed, its row shows the trace of the last of them, for any number
\* of runs and whatever expires or is replayed meanwhile.
THEOREM TheLastRunIsShown == Spec => []SerialRunsAreShown
<1>1. Init => SerialInv
  BY DEF Init, SerialInv, OnePending, StoredIsLast, NotStoredIsShown, Pending
<1>2. TypeOK /\ SerialInv /\ [Next]_vars => SerialInv'
  <2> SUFFICES ASSUME TypeOK, SerialInv, [Next]_vars PROVE SerialInv'
    OBVIOUS
  <2>0. /\ task \in [Runs -> Tasks]
        /\ \A r \in Runs : task[r].pc # "none" => task[r].of \in Requests
        /\ index \in [Requests -> Entries \cup {None}]
        /\ objects \in [Requests -> Seq(Runs)]
    BY DEF TypeOK
  <2>1. ASSUME UNCHANGED <<task, objects, index, disturbed>> PROVE SerialInv'
    BY <2>1 DEF SerialInv, OnePending, StoredIsLast, NotStoredIsShown, Pending
  <2>2. ASSUME NEW r \in Runs, NEW q \in Requests, Dispatch(r, q) PROVE SerialInv'
    <3>1. /\ task' = [task EXCEPT ![r].pc = "dispatched", ![r].of = q]
          /\ task[r].pc = "none"
          /\ disturbed' = IF Pending(q) = {} THEN disturbed ELSE disturbed \cup {q}
          /\ UNCHANGED <<objects, index>>
      BY <2>2 DEF Dispatch
    <3>2. /\ task'[r].pc = "dispatched" /\ task'[r].of = q
          /\ \A s \in Runs \ {r} : task'[s] = task[s]
      BY <2>0, <3>1 DEF Tasks
    <3>3. /\ Pending(q)' = Pending(q) \cup {r}
          /\ \A p \in Requests \ {q} : Pending(p)' = Pending(p)
      BY <3>1, <3>2 DEF Pending
    <3>4. OnePending'
      BY <3>1, <3>3 DEF SerialInv, OnePending
    <3>5. StoredIsLast'
      <4>1. disturbed \subseteq disturbed'
        BY <3>1
      <4>2. \A s \in Runs : task'[s].pc = "stored" => s # r /\ task'[s] = task[s]
        BY <3>2
      <4>. QED  BY <3>1, <4>1, <4>2 DEF SerialInv, StoredIsLast
    <3>6. NotStoredIsShown'
      <4> SUFFICES ASSUME NEW p \in Requests \ disturbed', objects[p] # <<>>,
                          \A s \in Pending(p)' : task'[s].pc # "stored"
                   PROVE  Shown(index[p], objects[p])
        BY <3>1 DEF NotStoredIsShown
      <4>1. p \notin disturbed /\ \A s \in Pending(p) : s \in Pending(p)' /\ s \in Runs /\ s # r
        BY <3>1, <3>3 DEF Pending
      <4>2. \A s \in Pending(p) : task[s].pc # "stored"
        BY <3>2, <4>1
      <4>. QED  BY <4>1, <4>2 DEF SerialInv, NotStoredIsShown
    <3>. QED  BY <3>4, <3>5, <3>6 DEF SerialInv
  <2>3. ASSUME NEW r \in Runs, WriteObject(r) PROVE SerialInv'
    <3>. DEFINE q == task[r].of
                v == IF versioning THEN r ELSE None
    <3>1. /\ task' = [task EXCEPT ![r].pc = "stored", ![r].version = v]
          /\ task[r].pc = "dispatched" /\ q \in Requests
          /\ objects' = [objects EXCEPT ![q] = IF versioning THEN Append(@, r) ELSE <<r>>]
          /\ UNCHANGED <<index, disturbed>>
      BY <2>0, <2>3 DEF WriteObject
    <3>2. /\ \A s \in Runs \ {r} : task'[s] = task[s]
          /\ task'[r].pc = "stored" /\ task'[r].of = q /\ task'[r].version = v
      BY <2>0, <3>1 DEF Tasks
    <3>3. objects'[q] # <<>> /\ Last(objects'[q]) = r
      <4>1. CASE versioning
        <5>1. objects'[q] = Append(objects[q], r) /\ objects[q] \in Seq(Runs)
          BY <2>0, <3>1, <4>1
        <5>. QED  BY <5>1, AppendFacts
      <4>2. CASE ~versioning
        <5>1. objects'[q] = <<r>>
          BY <2>0, <3>1, <4>2
        <5>. QED  BY <5>1, SingleFacts
      <4>. QED  BY <4>1, <4>2
    <3>4. \A p \in Requests : p # q => objects'[p] = objects[p]
      BY <2>0, <3>1
    <3>5. \A p \in Requests : Pending(p)' = Pending(p)
      BY <3>1, <3>2 DEF Pending
    <3>6. OnePending'
      BY <3>1, <3>5 DEF SerialInv, OnePending
    <3>7. r \in Pending(q)
      BY <3>1 DEF Pending
    <3>8. \A s \in Runs : task[s].pc = "stored" /\ task[s].of \notin disturbed => task[s].of # q
      BY <3>1, <3>7 DEF SerialInv, OnePending, Pending
    <3>9. StoredIsLast'
      BY <2>0, <3>1, <3>2, <3>3, <3>4, <3>8 DEF SerialInv, StoredIsLast
    <3>10. NotStoredIsShown'
      <4> SUFFICES ASSUME NEW p \in Requests \ disturbed, objects'[p] # <<>>,
                          \A s \in Pending(p) : task'[s].pc # "stored"
                   PROVE  Shown(index[p], objects'[p])
        BY <3>1, <3>5 DEF NotStoredIsShown
      <4>1. p # q
        BY <3>2, <3>7
      <4>2. \A s \in Pending(p) : s \in Runs /\ s # r
        BY <3>1, <4>1 DEF Pending
      <4>. QED  BY <3>2, <3>4, <4>1, <4>2 DEF SerialInv, NotStoredIsShown
    <3>. QED  BY <3>6, <3>9, <3>10 DEF SerialInv
  <2>4. ASSUME NEW r \in Runs, UpsertIndex(r) PROVE SerialInv'
    <3>. DEFINE q == task[r].of
                row == Upserted(index[q], r, task[r].version)
    <3>1. /\ task[r].pc = "stored" /\ q \in Requests
          /\ index' = [index EXCEPT ![q] = row]
          /\ task' = [task EXCEPT ![r].pc = "done"]
          /\ UNCHANGED <<objects, disturbed>>
      BY <2>0, <2>4 DEF UpsertIndex
    <3>2. /\ \A s \in Runs \ {r} : task'[s] = task[s]
          /\ task'[r].pc = "done" /\ task'[r].of = q
      BY <2>0, <3>1 DEF Tasks
    <3>3. /\ index'[q] = row
          /\ \A p \in Requests \ {q} : index'[p] = index[p]
      BY <2>0, <3>1
    <3>4. row \in Entries
      <4>1. task[r].version \in Runs \cup {None} /\ index[q] \in Entries \cup {None}
        BY <2>0, <3>1 DEF Tasks
      <4>2. index[q] # None => index[q].first \in Runs
        BY <4>1 DEF Entries
      <4>. QED  BY <4>1, <4>2 DEF Upserted, Entries
    <3>5. q \notin disturbed => Shown(row, objects[q])
      BY <3>1, <3>4, NoneAssumption DEF Shown, Upserted, SerialInv, StoredIsLast
    <3>6. \A p \in Requests : Pending(p)' \subseteq Pending(p)
      BY <3>1, <3>2 DEF Pending
    <3>7. OnePending'
      BY <3>1, <3>6 DEF SerialInv, OnePending
    <3>8. StoredIsLast'
      BY <3>1, <3>2 DEF SerialInv, StoredIsLast
    <3>9. NotStoredIsShown'
      <4> SUFFICES ASSUME NEW p \in Requests \ disturbed, objects[p] # <<>>,
                          \A s \in Pending(p)' : task'[s].pc # "stored"
                   PROVE  Shown(index'[p], objects[p])
        BY <3>1 DEF NotStoredIsShown
      <4>1. CASE p = q
        BY <3>3, <3>5, <4>1
      <4>2. CASE p # q
        <5>1. \A s \in Pending(p) : s \in Pending(p)' /\ task'[s] = task[s]
          BY <3>2, <4>2 DEF Pending
        <5>. QED  BY <3>3, <4>2, <5>1 DEF SerialInv, NotStoredIsShown
      <4>. QED  BY <4>1, <4>2
    <3>. QED  BY <3>7, <3>8, <3>9 DEF SerialInv
  <2>5. ASSUME NEW r \in Runs, LoseTask(r) PROVE SerialInv'
    <3>. DEFINE q == task[r].of
    <3>1. /\ task[r].pc \in {"dispatched", "stored"} /\ q \in Requests
          /\ task' = [task EXCEPT ![r].pc = "lost"]
          /\ disturbed' = disturbed \cup {q}
          /\ UNCHANGED <<objects, index>>
      BY <2>0, <2>5 DEF LoseTask
    <3>2. /\ \A s \in Runs \ {r} : task'[s] = task[s]
          /\ task'[r].pc = "lost" /\ task'[r].of = q
      BY <2>0, <3>1 DEF Tasks
    <3>3. \A p \in Requests \ {q} : Pending(p)' = Pending(p) /\ r \notin Pending(p)
      BY <3>1, <3>2 DEF Pending
    <3>4. OnePending'
      BY <3>1, <3>3 DEF SerialInv, OnePending
    <3>5. StoredIsLast'
      BY <3>1, <3>2 DEF SerialInv, StoredIsLast
    <3>6. NotStoredIsShown'
      <4> SUFFICES ASSUME NEW p \in Requests \ disturbed', objects[p] # <<>>,
                          \A s \in Pending(p)' : task'[s].pc # "stored"
                   PROVE  Shown(index[p], objects[p])
        BY <3>1 DEF NotStoredIsShown
      <4>1. p # q /\ p \notin disturbed
        BY <3>1
      <4>2. \A s \in Pending(p) : s \in Runs /\ s # r /\ s \in Pending(p)'
        BY <3>3, <4>1 DEF Pending
      <4>. QED  BY <3>2, <4>1, <4>2 DEF SerialInv, NotStoredIsShown
    <3>. QED  BY <3>4, <3>5, <3>6 DEF SerialInv
  <2>6. CASE EnableVersioning \/ (\E r \in Runs : ExpireObject(r))
    BY <2>1, <2>6 DEF EnableVersioning, ExpireObject
  <2>7. CASE \E d \in Readers : (\E q \in Requests : Lookup(d, q))
                \/ ReadObject(d) \/ FillCache(d) \/ AbandonReplay(d)
    BY <2>1, <2>7 DEF Lookup, ReadObject, FillCache, AbandonReplay
  <2>8. CASE (\E q \in Requests : ExpireCache(q)) \/ UNCHANGED vars
    BY <2>1, <2>8 DEF ExpireCache, vars
  <2>. QED  BY <2>2, <2>3, <2>4, <2>5, <2>6, <2>7, <2>8 DEF Next
<1>3. SerialInv => SerialRunsAreShown
  BY DEF SerialInv, NotStoredIsShown, SerialRunsAreShown, Shown, Target
<1>. QED  BY <1>1, <1>2, <1>3, TraceTypeCorrect, PTL DEF Spec
=============================================================================
