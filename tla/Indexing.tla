------------------------------ MODULE Indexing ------------------------------
(***************************************************************************)
(* Indexing of the documents of one knowledge source.  Consumers of one    *)
(* Kafka group take sync events, which index every document that the       *)
(* connector lists into Qdrant, OpenSearch and the table chunk_index, and  *)
(* deletion events, which remove one document from all three.              *)
(*                                                                         *)
(* A handler that raises is logged and its offset committed all the same.  *)
(* Events of a source are sent without a key, so they lie in any           *)
(* partitions of the topics and are taken in any order.  A worker owns one *)
(* database session for its whole life, which nothing rolls back.          *)
(***************************************************************************)
EXTENDS Naturals

CONSTANTS
    Docs,      \* documents of the source; the deletion event of d is d itself
    Syncs,     \* knowledge_source_synced events
    Workers,   \* consumers of the group
    NoEvent,   \* "no event yet"
    MaxFaults  \* bound on crashes and rebalances

Events == Syncs \cup Docs

ASSUME EventsAssumption == Syncs \cap Docs = {} /\ NoEvent \notin Events
ASSUME FaultsAssumption == MaxFaults \in Nat

\* A chunk stands for one file; its id is drawn anew by every run.
Chunk  == [doc : Docs, run : Nat]
Stores == {"qdrant", "opensearch"}
Write  == [run : Nat, store : Stores, chunks : SUBSET Chunk]

VARIABLES
    upstream,    \* documents the connector lists
    published,   \* events in the topics
    committed,   \* events whose offset is committed
    pc,          \* pc[w]: the step worker w is at
    job,         \* job[w]: its event, its run and the chunks it works on
    fenced,      \* workers whose partitions were given away during their event
    broken,      \* workers whose database session is unusable
    store,       \* contents of Qdrant and of OpenSearch
    unrefreshed, \* what searches of OpenSearch do not find yet
    chunk_index, \* rows of chunk_index
    writes,      \* requests to the stores that are under way
    runs,        \* indexing runs started so far
    faults,      \* crashes and rebalances so far
    slips        \* (history) what has disturbed the plain course of events

data == <<store, unrefreshed, chunk_index, writes>>
bus  == <<upstream, published, committed, fenced, faults, runs>>
vars == <<bus, pc, job, broken, data, slips>>

Steps == {"idle", "fetch", "store", "rows", "list", "delete_vectors",
          "delete_keywords", "delete_rows", "commit", "stopped"}
Slips == {"overlap", "unrefreshed", "indexing_failure", "deletion_failure", "fault"}

Busy(w) == pc[w] \notin {"idle", "stopped"}
NoJob   == [event |-> NoEvent, run |-> 0, chunks |-> {}]

Init ==
    /\ upstream = Docs
    /\ published = {}
    /\ committed = {}
    /\ pc = [w \in Workers |-> "idle"]
    /\ job = [w \in Workers |-> NoJob]
    /\ fenced = {}
    /\ broken = {}
    /\ store = [s \in Stores |-> {}]
    /\ unrefreshed = {}
    /\ chunk_index = {}
    /\ writes = {}
    /\ runs = 0
    /\ faults = 0
    /\ slips = {}

Goto(w, step) == pc' = [pc EXCEPT ![w] = step]
Slip(kinds)   == slips' = slips \cup kinds
ChunksOf(d)   == {c \in chunk_index : c.doc = d}

Failure(w) == IF job[w].event \in Syncs THEN "indexing_failure" ELSE "deletion_failure"

\* Mutation of Caught: an event that failed is handled again.
CaughtAndRetried(w) ==
    /\ Goto(w, IF job[w].event \in Syncs THEN "fetch" ELSE "list")
    /\ Slip({Failure(w)})

\* _handle_message catches what the handler raises and goes on to the commit.
Caught(w) == Goto(w, "commit") /\ Slip({Failure(w)})

-----------------------------------------------------------------------------
(* Publishers.                                                             *)

\* SyncJobExecutor sends the event of a finished sync.
SendSynced(e) ==
    /\ e \in Syncs \ published
    /\ published' = published \cup {e}
    /\ UNCHANGED <<upstream, committed, pc, job, fenced, broken, data, runs, faults, slips>>

\* A document disappears and its deletion is announced.
DeleteUpstream(d) ==
    /\ d \in upstream
    /\ upstream' = upstream \ {d}
    /\ published' = published \cup {d}
    /\ UNCHANGED <<committed, pc, job, fenced, broken, data, runs, faults, slips>>

-----------------------------------------------------------------------------
(* IndexingConsumer.run: one event at a time.                              *)

\* An event is with one worker, unless that one has lost its partition.  Every
\* event is JSON, as all that this repository publishes: another message would
\* raise in the value deserializer, outside the handler, and end the loop.
Take(w, e) ==
    /\ pc[w] = "idle"
    /\ e \in published \ committed
    /\ \A v \in Workers \ fenced : Busy(v) => job[v].event # e
    /\ runs' = runs + (IF e \in Syncs THEN 1 ELSE 0)
    /\ job' = [job EXCEPT ![w] = [event |-> e, run |-> runs', chunks |-> {}]]
    /\ Goto(w, IF e \in Syncs THEN "fetch" ELSE "list")
    /\ Slip(IF (\E v \in Workers : Busy(v)) \/ writes # {} THEN {"overlap"} ELSE {})
    /\ UNCHANGED <<upstream, published, committed, fenced, broken, data, faults>>

\* commit() covers the partitions the worker still has.  What it raises ends
\* the loop, and only a restart of the process starts another.
Commit(w) ==
    /\ pc[w] = "commit"
    /\ \/ /\ committed' = IF w \in fenced THEN committed ELSE committed \cup {job[w].event}
          /\ Goto(w, "idle")
          /\ Slip({})
       \/ /\ UNCHANGED committed
          /\ Goto(w, "stopped")
          /\ Slip({"fault"})
    /\ job' = [job EXCEPT ![w] = NoJob]
    /\ fenced' = fenced \ {w}
    /\ UNCHANGED <<upstream, published, broken, data, runs, faults>>

-----------------------------------------------------------------------------
(* IndexingPipeline.run_for_source                                         *)

\* Files that cannot be fetched are skipped.  Without chunks no store is
\* written.  The connector, creating the collections or embedding may raise.
Fetch(w) ==
    /\ pc[w] = "fetch"
    /\ \/ \E found \in SUBSET upstream :
            LET chunks == [doc : found, run : {job[w].run}]
            IN  /\ job' = [job EXCEPT ![w].chunks = chunks]
                /\ Goto(w, IF found = {} THEN "commit" ELSE "store")
                /\ writes' = writes \cup
                     (IF found = {} THEN {}
                      ELSE [run : {job[w].run}, store : Stores, chunks : {chunks}])
                /\ Slip({})
       \/ Caught(w) /\ UNCHANGED <<job, writes>>
    /\ UNCHANGED <<bus, broken, store, unrefreshed, chunk_index>>

\* The handlers that wait for a write.
Waiting(x) == {w \in Workers : pc[w] = "store" /\ job[w].run = x.run}

\* What a write stores.  OpenSearch is not told to refresh its index.
Store(x, chunks) ==
    /\ store' = [store EXCEPT ![x.store] = @ \cup chunks]
    /\ unrefreshed' = IF x.store = "opensearch" THEN unrefreshed \cup chunks ELSE unrefreshed
    /\ writes' = writes \ {x}

\* gather() goes on when both writes have succeeded.
WriteDone(x) ==
    /\ x \in writes
    /\ Store(x, x.chunks)
    /\ pc' = [w \in Workers |->
                 IF w \in Waiting(x) /\ \A y \in writes : y.run = x.run => y = x
                   THEN "rows" ELSE pc[w]]
    /\ UNCHANGED <<bus, job, broken, chunk_index, slips>>

\* Mutation of WriteFails: gather() returns the exceptions.
WriteFailsUnnoticed(x) ==
    /\ x \in writes
    /\ Store(x, {})
    /\ pc' = [w \in Workers |->
                 IF w \in Waiting(x) /\ \A y \in writes : y.run = x.run => y = x
                   THEN "rows" ELSE pc[w]]
    /\ Slip({"indexing_failure"})
    /\ UNCHANGED <<bus, job, broken, chunk_index>>

\* A write fails after some of its batches.  gather() raises at once and does
\* not cancel the other write, which goes on behind the handler's back.
WriteFails(x) ==
    /\ x \in writes
    /\ \E part \in SUBSET x.chunks : Store(x, part)
    /\ pc' = [w \in Workers |-> IF w \in Waiting(x) THEN "commit" ELSE pc[w]]
    /\ Slip({"indexing_failure"})
    /\ UNCHANGED <<bus, job, broken, chunk_index>>

\* Mutation of UpsertRows: upsert_batch does not commit.
UpsertRowsUncommitted(w) ==
    /\ pc[w] = "rows"
    /\ w \notin broken
    /\ Goto(w, "commit")
    /\ UNCHANGED <<bus, job, broken, data, slips>>

\* The events about indexed chunks that follow change nothing here.
UpsertRows(w) ==
    /\ pc[w] = "rows"
    /\ w \notin broken
    /\ chunk_index' = chunk_index \cup job[w].chunks
    /\ Goto(w, "commit")
    /\ UNCHANGED <<bus, job, broken, store, unrefreshed, writes, slips>>

-----------------------------------------------------------------------------
(* DeletionHandler.handle                                                  *)

ListRows(w) ==
    /\ pc[w] = "list"
    /\ w \notin broken
    /\ job' = [job EXCEPT ![w].chunks = ChunksOf(job[w].event)]
    /\ Goto(w, IF job'[w].chunks = {} THEN "commit" ELSE "delete_vectors")
    /\ UNCHANGED <<bus, broken, data, slips>>

\* A deletion from a store succeeds, or raises before or after its effect.
Remove(w, s, gone, next, kinds) ==
    /\ \/ store' = [store EXCEPT ![s] = @ \ gone] /\ Goto(w, next) /\ Slip(kinds)
       \/ store' \in {store, [store EXCEPT ![s] = @ \ gone]} /\ Caught(w)
    /\ UNCHANGED <<bus, job, broken, unrefreshed, chunk_index, writes>>

\* By the ids that were listed.
DeleteVectors(w) ==
    /\ pc[w] = "delete_vectors"
    /\ Remove(w, "qdrant", job[w].chunks, "delete_keywords", {})

\* By a query, which finds what has been refreshed.
DeleteKeywords(w) ==
    /\ pc[w] = "delete_keywords"
    /\ LET all   == {c \in store["opensearch"] : c.doc = job[w].event}
           found == all \ unrefreshed
       IN  Remove(w, "opensearch", found, "delete_rows",
                  IF found = all THEN {} ELSE {"unrefreshed"})

DeleteRows(w) ==
    /\ pc[w] = "delete_rows"
    /\ w \notin broken
    /\ chunk_index' = chunk_index \ ChunksOf(job[w].event)
    /\ Goto(w, "commit")
    /\ UNCHANGED <<bus, job, broken, store, unrefreshed, writes, slips>>

-----------------------------------------------------------------------------
(* Failures.                                                               *)

\* A statement fails.  The session stays in its failed transaction, and every
\* later statement of the worker raises as well.
DatabaseError(w) ==
    /\ pc[w] \in {"rows", "list", "delete_rows"}
    /\ broken' = broken \cup {w}
    /\ Caught(w)
    /\ UNCHANGED <<bus, job, data>>

\* The process stops and starts again.  Requests already sent may still be
\* carried out.
Restart(w) ==
    /\ faults < MaxFaults
    /\ pc[w] # "idle" \/ w \in broken
    /\ faults' = faults + 1
    /\ Goto(w, "idle")
    /\ fenced' = fenced \ {w}
    /\ broken' = broken \ {w}
    /\ job' = [job EXCEPT ![w] = NoJob]
    /\ Slip({"fault"})
    /\ UNCHANGED <<upstream, published, committed, data, runs>>

\* The group takes the partition of a worker away while it handles an event.
Rebalance(w) ==
    /\ faults < MaxFaults
    /\ Busy(w) /\ w \notin fenced
    /\ faults' = faults + 1
    /\ fenced' = fenced \cup {w}
    /\ Slip({"fault"})
    /\ UNCHANGED <<upstream, published, committed, pc, job, broken, data, runs>>

\* OpenSearch refreshes an index about once a second.
Refresh ==
    /\ unrefreshed # {}
    /\ unrefreshed' = {}
    /\ UNCHANGED <<bus, pc, job, broken, store, chunk_index, writes, slips>>

-----------------------------------------------------------------------------
Handle(w) ==
    \/ Fetch(w)         \/ UpsertRows(w)      \/ ListRows(w)
    \/ DeleteVectors(w) \/ DeleteKeywords(w)  \/ DeleteRows(w)
    \/ DatabaseError(w) \/ Commit(w)

Answer == \E x \in writes : WriteDone(x) \/ WriteFails(x)

Next ==
    \/ \E e \in Syncs : SendSynced(e)
    \/ \E d \in Docs : DeleteUpstream(d)
    \/ \E w \in Workers :
        \/ \E e \in Events : Take(w, e)
        \/ Handle(w) \/ Restart(w) \/ Rebalance(w)
    \/ Answer \/ Refresh

Spec == Init /\ [][Next]_vars

\* Requests to the stores, the connectors and the embedding service have
\* timeouts, and a consumer that polls is given the events there are.
FairSpec ==
    /\ Spec
    /\ WF_vars(Answer)
    /\ \A w \in Workers : WF_vars(Handle(w)) /\ WF_vars(\E e \in Events : Take(w, e))

-----------------------------------------------------------------------------
(* Properties.                                                             *)

\* Every variable holds a value of its type, and no offset is committed of
\* an event that is not in a topic.
TypeOK ==
    /\ upstream \subseteq Docs
    /\ published \subseteq Events
    /\ committed \subseteq published
    /\ pc \in [Workers -> Steps]
    /\ job \in [Workers -> [event : Events \cup {NoEvent}, run : Nat,
                            chunks : SUBSET Chunk]]
    /\ fenced \subseteq Workers
    /\ broken \subseteq Workers
    /\ store \in [Stores -> SUBSET Chunk]
    /\ unrefreshed \subseteq store["opensearch"]
    /\ chunk_index \subseteq Chunk
    /\ writes \subseteq Write
    /\ runs \in Nat
    /\ faults \in 0 .. MaxFaults
    /\ slips \subseteq Slips
    /\ \A w \in Workers : Busy(w) => job[w].event \in published

\* chunk_index never lists a chunk that Qdrant or OpenSearch lacks, unless the
\* deletion of its document has been announced: whatever fails, crashes or
\* overlaps, a run writes its rows after both of its writes have succeeded,
\* and no deletion or other run takes away what they list.
RowsAreBacked ==
    \A c \in chunk_index : c.doc \in upstream => \A s \in Stores : c \in store[s]

\* When a deletion event is committed, nothing is left of its document in any
\* store, as long as no handler has failed, no two have overlapped, no worker
\* was restarted or rebalanced and the query found a refreshed index.
DeletionIsComplete ==
    slips = {} =>
        \A d \in Docs \cap committed :
            /\ ChunksOf(d) = {}
            /\ \A s \in Stores : \A c \in store[s] : c.doc # d

\* Failing events do not stall the group: every event is committed in the
\* end, unless the loops of all workers have ended.
EventsAreCommitted ==
    \A e \in Events :
        e \in published ~> e \in committed \/ \A w \in Workers : pc[w] = "stopped"
=============================================================================
