--------------------------- MODULE IndexingProofs ---------------------------
(***************************************************************************)
(* Proofs about Indexing, for any number of documents, sync events and     *)
(* workers, and any number of crashes and rebalances.                      *)
(***************************************************************************)
EXTENDS Indexing, TLAPS

-----------------------------------------------------------------------------
\* Every variable keeps its type, and no offset is committed of an event that
\* is not in a topic.
THEOREM IndexTypeCorrect == Spec => []TypeOK
<1>. USE EventsAssumption, FaultsAssumption
     DEF TypeOK, Steps, Slips, Stores, Chunk, Write, Events, Busy, NoJob, bus, data
<1>1. Init => TypeOK
  BY DEF Init
<1>2. TypeOK /\ [Next]_vars => TypeOK'
  <2> SUFFICES ASSUME TypeOK, [Next]_vars PROVE TypeOK'
    OBVIOUS
  <2>1. ASSUME NEW e \in Syncs, SendSynced(e) PROVE TypeOK'
    BY <2>1 DEF SendSynced
  <2>2. ASSUME NEW d \in Docs, DeleteUpstream(d) PROVE TypeOK'
    BY <2>2 DEF DeleteUpstream
  <2>3. ASSUME NEW w \in Workers, NEW e \in Events, Take(w, e) PROVE TypeOK'
    BY <2>3 DEF Take, Goto, Slip
  <2>0. ASSUME NEW w \in Workers, NEW chunks \in SUBSET Chunk
        PROVE  [job EXCEPT ![w].chunks = chunks]
                 \in [Workers -> [event : Events \cup {NoEvent}, run : Nat,
                                  chunks : SUBSET Chunk]]
    <3>. HIDE DEF Chunk, Events
    <3>. QED  OBVIOUS
  <2>4. ASSUME NEW w \in Workers, Fetch(w) PROVE TypeOK'
    <3>1. CASE Caught(w) /\ UNCHANGED <<job, writes>>
      BY <2>4, <3>1 DEF Fetch, Caught, Failure, Goto, Slip
    <3>2. ASSUME NEW found \in SUBSET upstream, NEW chunks,
                 chunks = [doc : found, run : {job[w].run}],
                 job' = [job EXCEPT ![w].chunks = chunks],
                 Goto(w, IF found = {} THEN "commit" ELSE "store"),
                 writes' = writes \cup
                   (IF found = {} THEN {}
                    ELSE [run : {job[w].run}, store : Stores, chunks : {chunks}]),
                 Slip({})
          PROVE  TypeOK'
      <4>1. chunks \in SUBSET Chunk
        BY <3>2
      <4>2. job' \in [Workers -> [event : Events \cup {NoEvent}, run : Nat,
                                  chunks : SUBSET Chunk]]
        BY <2>0, <3>2, <4>1
      <4>3. [run : {job[w].run}, store : Stores, chunks : {chunks}] \subseteq Write
        BY <4>1
      <4>4. job'[w].event = job[w].event /\ \A v \in Workers \ {w} : job'[v] = job[v]
        BY <3>2
      <4>5. writes' \subseteq Write
        BY <3>2, <4>3
      <4>6. pc' \in [Workers -> Steps] /\ slips' = slips \cup {}
        BY <3>2 DEF Goto, Slip
      <4>7. \A v \in Workers : Busy(v)' => Busy(v)
        BY <2>4, <3>2 DEF Fetch, Goto
      <4>8. UNCHANGED <<bus, broken, store, unrefreshed, chunk_index>>
        BY <2>4 DEF Fetch
      <4>. HIDE DEF Write, Chunk
      <4>. QED  BY <4>2, <4>4, <4>5, <4>6, <4>7, <4>8
    <3>. QED  BY <2>4, <3>1, <3>2 DEF Fetch
  <2>5. ASSUME NEW x \in writes, NEW part \in SUBSET x.chunks, Store(x, part)
        PROVE  /\ store' \in [Stores -> SUBSET Chunk]
               /\ unrefreshed' \subseteq store'["opensearch"]
               /\ writes' \subseteq Write
    BY <2>5 DEF Store
  <2>6. ASSUME NEW x \in writes, WriteDone(x) PROVE TypeOK'
    <3>1. Store(x, x.chunks)
      BY <2>6 DEF WriteDone
    <3>2. pc' \in [Workers -> Steps] /\ \A w \in Workers : Busy(w)' => Busy(w)
      BY <2>6 DEF WriteDone, Waiting
    <3>. QED  BY <2>5, <2>6, <3>1, <3>2 DEF WriteDone
  <2>7. ASSUME NEW x \in writes, WriteFails(x) PROVE TypeOK'
    <3>1. PICK part \in SUBSET x.chunks : Store(x, part)
      BY <2>7 DEF WriteFails
    <3>2. pc' \in [Workers -> Steps] /\ \A w \in Workers : Busy(w)' => Busy(w)
      BY <2>7 DEF WriteFails, Waiting
    <3>. QED  BY <2>5, <2>7, <3>1, <3>2 DEF WriteFails, Slip
  <2>8. ASSUME NEW w \in Workers, UpsertRows(w) \/ DeleteRows(w) PROVE TypeOK'
    BY <2>8 DEF UpsertRows, DeleteRows, Goto
  <2>9. ASSUME NEW w \in Workers, ListRows(w) PROVE TypeOK'
    <3>1. ChunksOf(job[w].event) \in SUBSET Chunk
      BY DEF ChunksOf
    <3>2. job' \in [Workers -> [event : Events \cup {NoEvent}, run : Nat,
                                chunks : SUBSET Chunk]]
      BY <2>9, <3>1 DEF ListRows
    <3>3. job'[w].event = job[w].event /\ \A v \in Workers \ {w} : job'[v] = job[v]
      BY <2>9 DEF ListRows
    <3>. QED  BY <2>9, <3>2, <3>3 DEF ListRows, Goto
  <2>10. ASSUME NEW w \in Workers, DeleteVectors(w) \/ DeleteKeywords(w) PROVE TypeOK'
    <3>1. ASSUME NEW s \in Stores, NEW gone, NEW next \in Steps, NEW kinds \in SUBSET Slips,
                 Remove(w, s, gone, next, kinds), Busy(w),
                 s = "opensearch" => gone \cap unrefreshed = {}
          PROVE  TypeOK'
      <4>1. store' \in [Stores -> SUBSET Chunk] /\ unrefreshed' \subseteq store'["opensearch"]
        <5>. HIDE DEF Chunk
        <5>1. store' = store \/ store' = [store EXCEPT ![s] = @ \ gone]
          BY <3>1 DEF Remove
        <5>2. unrefreshed' = unrefreshed
          BY <3>1 DEF Remove
        <5>. QED  BY <3>1, <5>1, <5>2
      <4>2. pc' \in [Workers -> Steps] /\ \A v \in Workers : Busy(v)' => Busy(v)
        BY <3>1 DEF Remove, Goto, Caught
      <4>3. slips' \subseteq Slips
        BY <3>1 DEF Remove, Slip, Caught, Failure
      <4>4. UNCHANGED <<bus, job, broken, chunk_index, writes>>
        BY <3>1 DEF Remove
      <4>. HIDE DEF Chunk, Write, Steps, Slips
      <4>. QED  BY <4>1, <4>2, <4>3, <4>4
    <3>2. CASE DeleteVectors(w)
      BY <3>1, <3>2 DEF DeleteVectors
    <3>3. CASE DeleteKeywords(w)
      <4>. DEFINE all == {c \in store["opensearch"] : c.doc = job[w].event}
                  kinds == IF all \ unrefreshed = all THEN {} ELSE {"unrefreshed"}
      <4>1. Remove(w, "opensearch", all \ unrefreshed, "delete_rows", kinds)
        BY <3>3 DEF DeleteKeywords
      <4>2. kinds \in SUBSET Slips /\ (all \ unrefreshed) \cap unrefreshed = {} /\ Busy(w)
        BY <3>3 DEF DeleteKeywords
      <4>. HIDE DEF all, kinds
      <4>. QED  BY <3>1, <4>1, <4>2
    <3>. QED  BY <2>10, <3>2, <3>3
  <2>11. ASSUME NEW w \in Workers, DatabaseError(w) PROVE TypeOK'
    BY <2>11 DEF DatabaseError, Caught, Failure, Goto, Slip
  <2>12. ASSUME NEW w \in Workers, Commit(w) PROVE TypeOK'
    BY <2>12 DEF Commit, Goto, Slip
  <2>13. ASSUME NEW w \in Workers, Restart(w) \/ Rebalance(w) PROVE TypeOK'
    <3>1. CASE Restart(w)
      BY <3>1 DEF Restart, Goto, Slip
    <3>2. CASE Rebalance(w)
      BY <3>2 DEF Rebalance, Slip
    <3>. QED  BY <2>13, <3>1, <3>2
  <2>14. CASE Refresh
    BY <2>14 DEF Refresh
  <2>15. CASE UNCHANGED vars
    BY <2>15 DEF vars
  <2>. QED  BY <2>1, <2>2, <2>3, <2>4, <2>6, <2>7, <2>8, <2>9, <2>10, <2>11, <2>12,
               <2>13, <2>14, <2>15 DEF Next, Handle, Answer
<1>. QED  BY <1>1, <1>2, PTL DEF Spec

-----------------------------------------------------------------------------
(* Rows list only what both stores hold.  The invariant follows a run from *)
(* its requests to its rows, and adds that deletions concern documents     *)
(* whose deletion was announced.                                           *)

\* The chunks of a run whose document has not been deleted upstream.
Kept(w) == {c \in job[w].chunks : c.doc \in upstream}

Pending(w, s) ==
    \E x \in writes : x.run = job[w].run /\ x.store = s /\ x.chunks = job[w].chunks

WorkerInv(w) ==
    /\ pc[w] = "store" => \A s \in Stores : Pending(w, s) \/ Kept(w) \subseteq store[s]
    /\ pc[w] = "rows" => \A s \in Stores : Kept(w) \subseteq store[s]
    /\ pc[w] \in {"list", "delete_vectors", "delete_keywords", "delete_rows"} =>
         job[w].event \in Docs
    /\ pc[w] = "delete_vectors" => \A c \in job[w].chunks : c.doc = job[w].event

BackedInv ==
    /\ RowsAreBacked
    /\ published \cap upstream = {}
    /\ \A w \in Workers : WorkerInv(w)

\* No store loses a chunk of a document that is still upstream.
NothingKeptIsLost ==
    /\ upstream' \subseteq upstream
    /\ \A s \in Stores : \A c \in store[s] : c.doc \in upstream' => c \in store'[s]

\* A step keeps the part of the invariant about a worker that it leaves alone.
LEMMA OthersKeepWorkerInv ==
  ASSUME NEW v \in Workers, WorkerInv(v), NothingKeptIsLost, writes \subseteq writes',
         pc'[v] = pc[v], job'[v] = job[v]
  PROVE  WorkerInv(v)'
<1>1. ASSUME NEW s \in Stores, Kept(v) \subseteq store[s] PROVE Kept(v)' \subseteq store'[s]
  BY <1>1 DEF Kept, NothingKeptIsLost
<1>2. ASSUME NEW s \in Stores, Pending(v, s) PROVE Pending(v, s)'
  BY <1>2 DEF Pending
<1>. QED  BY <1>1, <1>2 DEF WorkerInv

\* A step that adds no row keeps the property itself.
LEMMA FewerRowsAreBacked ==
  ASSUME RowsAreBacked, NothingKeptIsLost, chunk_index' \subseteq chunk_index
  PROVE  RowsAreBacked'
BY DEF RowsAreBacked, NothingKeptIsLost

\* Every step keeps BackedInv, so that it holds in every state.
LEMMA BackedAlways == Spec => []BackedInv
<1>. USE EventsAssumption
<1>1. Init => BackedInv
  BY DEF Init, BackedInv, RowsAreBacked, WorkerInv
<1>2. TypeOK /\ BackedInv /\ [Next]_vars => BackedInv'
  <2> SUFFICES ASSUME TypeOK, BackedInv, [Next]_vars PROVE BackedInv'
    OBVIOUS
  <2>. USE DEF BackedInv
  <2>a. ASSUME NEW w \in Workers, NothingKeptIsLost, writes \subseteq writes',
               \A v \in Workers \ {w} : pc'[v] = pc[v] /\ job'[v] = job[v],
               WorkerInv(w)', chunk_index' \subseteq chunk_index,
               UNCHANGED <<published, upstream>>
        PROVE  BackedInv'
    BY <2>a, OthersKeepWorkerInv, FewerRowsAreBacked
  <2>b. ASSUME UNCHANGED <<pc, job, chunk_index, writes>>, NothingKeptIsLost,
               published' \cap upstream' = {}
        PROVE  BackedInv'
    BY <2>b, OthersKeepWorkerInv, FewerRowsAreBacked
  <2>c. UNCHANGED <<upstream, store>> => NothingKeptIsLost
    BY DEF NothingKeptIsLost
  <2>1. ASSUME NEW e \in Syncs, SendSynced(e) PROVE BackedInv'
    BY <2>1, <2>b, <2>c DEF SendSynced, data, TypeOK
  <2>2. ASSUME NEW d \in Docs, DeleteUpstream(d) PROVE BackedInv'
    BY <2>2, <2>b DEF DeleteUpstream, data, NothingKeptIsLost
  <2>3. ASSUME NEW w \in Workers, NEW e \in Events, Take(w, e) PROVE BackedInv'
    <3>1. WorkerInv(w)'
      BY <2>3 DEF Take, Goto, TypeOK, Events, WorkerInv
    <3>. QED  BY <2>3, <2>a, <2>c, <3>1 DEF Take, Goto, data, TypeOK
  <2>4. ASSUME NEW w \in Workers, Fetch(w) PROVE BackedInv'
    <3>1. pc'[w] = "commit" => WorkerInv(w)'
      BY DEF WorkerInv
    <3>2. pc'[w] = "store" => WorkerInv(w)'
      <4> SUFFICES ASSUME pc'[w] = "store", NEW s \in Stores PROVE Pending(w, s)'
        BY DEF WorkerInv
      <4>1. PICK found \in SUBSET upstream :
              LET chunks == [doc : found, run : {job[w].run}]
              IN  /\ job' = [job EXCEPT ![w].chunks = chunks]
                  /\ Goto(w, IF found = {} THEN "commit" ELSE "store")
                  /\ writes' = writes \cup
                       (IF found = {} THEN {}
                        ELSE [run : {job[w].run}, store : Stores, chunks : {chunks}])
        BY <2>4 DEF Fetch, Caught, Goto, TypeOK
      <4>. DEFINE chunks == [doc : found, run : {job[w].run}]
                  x == [run |-> job[w].run, store |-> s, chunks |-> chunks]
      <4>2. found # {}
        BY <4>1 DEF Goto, TypeOK
      <4>3. job'[w].run = job[w].run /\ job'[w].chunks = chunks
        BY <4>1 DEF TypeOK
      <4>4. x \in writes'
        BY <4>1, <4>2
      <4>. QED  BY <4>3, <4>4 DEF Pending
    <3>3. /\ pc'[w] \in {"commit", "store"}
          /\ \A v \in Workers \ {w} : pc'[v] = pc[v] /\ job'[v] = job[v]
          /\ writes \subseteq writes'
      BY <2>4 DEF Fetch, Caught, Goto, TypeOK
    <3>. QED  BY <2>4, <2>a, <2>c, <3>1, <3>2, <3>3 DEF Fetch, bus
  <2>5. ASSUME NEW x \in writes, NEW part \in SUBSET x.chunks, Store(x, part)
        PROVE  /\ \A s \in Stores : store[s] \subseteq store'[s]
               /\ part \subseteq store'[x.store]
               /\ writes' = writes \ {x}
    BY <2>5 DEF Store, TypeOK, Write
  <2>6. ASSUME NEW x \in writes, WriteDone(x) PROVE BackedInv'
    <3>1. /\ \A s \in Stores : store[s] \subseteq store'[s]
          /\ x.chunks \subseteq store'[x.store]
          /\ writes' = writes \ {x}
      BY <2>5, <2>6 DEF WriteDone
    <3>2. UNCHANGED <<upstream, published, job, chunk_index>>
      BY <2>6 DEF WriteDone, bus
    <3>3. NothingKeptIsLost
      BY <3>1, <3>2 DEF NothingKeptIsLost
    <3>4. ASSUME NEW v \in Workers PROVE WorkerInv(v)'
      <4>1. Kept(v)' = Kept(v)
        BY <3>2 DEF Kept
      <4>2. ASSUME pc[v] = "store", NEW s \in Stores
            PROVE  \/ Kept(v) \subseteq store'[s]
                   \/ \E y \in writes \ {x} : /\ y.run = job[v].run /\ y.store = s
                                              /\ y.chunks = job[v].chunks
        <5>1. Pending(v, s) \/ Kept(v) \subseteq store[s]
          BY <4>2 DEF WorkerInv
        <5>2. ASSUME NEW y \in writes, y.run = job[v].run, y.store = s,
                     y.chunks = job[v].chunks, y = x
              PROVE  Kept(v) \subseteq store'[s]
          BY <3>1, <5>2 DEF Kept
        <5>. QED  BY <3>1, <5>1, <5>2 DEF Pending
      <4>3. CASE pc'[v] = pc[v]
        <5>1. ASSUME pc[v] = "store", NEW s \in Stores
              PROVE  Pending(v, s)' \/ Kept(v)' \subseteq store'[s]
          BY <3>1, <3>2, <4>1, <4>2, <5>1 DEF Pending
        <5>. QED  BY <3>1, <3>2, <4>1, <4>3, <5>1 DEF WorkerInv
      <4>4. CASE pc'[v] # pc[v]
        <5>1. /\ pc[v] = "store" /\ pc'[v] = "rows" /\ job[v].run = x.run
              /\ \A y \in writes : y.run = x.run => y = x
          BY <2>6, <4>4 DEF WriteDone, Waiting
        <5>2. \A s \in Stores : Kept(v) \subseteq store'[s]
          BY <4>2, <5>1
        <5>. QED  BY <4>1, <5>1, <5>2 DEF WorkerInv
      <4>. QED  BY <4>3, <4>4
    <3>. QED  BY <3>2, <3>3, <3>4, FewerRowsAreBacked
  <2>7. ASSUME NEW x \in writes, WriteFails(x) PROVE BackedInv'
    <3>1. /\ \A s \in Stores : store[s] \subseteq store'[s]
          /\ writes' = writes \ {x}
      BY <2>5, <2>7 DEF WriteFails
    <3>2. UNCHANGED <<upstream, published, job, chunk_index>>
      BY <2>7 DEF WriteFails, bus
    <3>3. NothingKeptIsLost
      BY <3>1, <3>2 DEF NothingKeptIsLost
    <3>4. ASSUME NEW v \in Workers PROVE WorkerInv(v)'
      <4>1. CASE v \in Waiting(x)
        BY <2>7, <4>1 DEF WriteFails, WorkerInv
      <4>2. CASE v \notin Waiting(x)
        <5>1. pc'[v] = pc[v]
          BY <2>7, <4>2 DEF WriteFails
        <5>2. Kept(v)' = Kept(v)
          BY <3>2 DEF Kept
        <5>3. ASSUME pc[v] = "store", NEW s \in Stores, Pending(v, s) PROVE Pending(v, s)'
          BY <3>1, <3>2, <4>2, <5>3 DEF Pending, Waiting
        <5>. QED  BY <3>1, <3>2, <5>1, <5>2, <5>3 DEF WorkerInv
      <4>. QED  BY <4>1, <4>2
    <3>. QED  BY <3>2, <3>3, <3>4, FewerRowsAreBacked
  <2>8. ASSUME NEW w \in Workers, UpsertRows(w) PROVE BackedInv'
    <3>1. \A s \in Stores : Kept(w) \subseteq store[s]
      BY <2>8 DEF UpsertRows, WorkerInv
    <3>2. RowsAreBacked'
      BY <2>8, <3>1 DEF UpsertRows, bus, Kept, RowsAreBacked
    <3>3. \A v \in Workers \ {w} : WorkerInv(v)'
      BY <2>8, <2>c, OthersKeepWorkerInv DEF UpsertRows, bus, Goto
    <3>4. WorkerInv(w)'
      BY <2>8 DEF UpsertRows, Goto, TypeOK, WorkerInv
    <3>. QED  BY <2>8, <3>2, <3>3, <3>4 DEF UpsertRows, bus
  <2>9. ASSUME NEW w \in Workers, ListRows(w) PROVE BackedInv'
    <3>1. job'[w].event = job[w].event /\ job'[w].chunks = ChunksOf(job[w].event)
      BY <2>9 DEF ListRows, TypeOK
    <3>2. WorkerInv(w)'
      BY <2>9, <3>1 DEF ListRows, Goto, TypeOK, WorkerInv, ChunksOf
    <3>. QED  BY <2>9, <2>a, <2>c, <3>2 DEF ListRows, Goto, bus, data
  <2>10. ASSUME NEW w \in Workers, DeleteVectors(w) \/ DeleteKeywords(w) PROVE BackedInv'
    <3>1. job[w].event \notin upstream
      BY <2>10 DEF DeleteVectors, DeleteKeywords, TypeOK, Busy
    <3>2. ASSUME NEW s \in Stores, NEW gone, NEW next, NEW kinds,
                 Remove(w, s, gone, next, kinds),
                 \A c \in gone : c.doc = job[w].event,
                 next \in {"delete_keywords", "delete_rows"}, job[w].event \in Docs
          PROVE  BackedInv'
      <4>1. UNCHANGED <<upstream, published, job, chunk_index, writes>>
        BY <3>2 DEF Remove, bus
      <4>2. store' = store \/ store' = [store EXCEPT ![s] = @ \ gone]
        BY <3>2 DEF Remove
      <4>3. NothingKeptIsLost
        BY <3>1, <3>2, <4>1, <4>2 DEF NothingKeptIsLost, TypeOK
      <4>4. pc'[w] \in {next, "commit"} /\ \A v \in Workers \ {w} : pc'[v] = pc[v]
        BY <3>2 DEF Remove, Caught, Goto, TypeOK
      <4>5. WorkerInv(w)'
        BY <3>2, <4>1, <4>4 DEF WorkerInv
      <4>. QED  BY <2>a, <4>1, <4>3, <4>4, <4>5
    <3>3. job[w].event \in Docs
      BY <2>10 DEF DeleteVectors, DeleteKeywords, WorkerInv
    <3>4. CASE DeleteVectors(w)
      BY <3>2, <3>3, <3>4 DEF DeleteVectors, WorkerInv, Stores
    <3>5. CASE DeleteKeywords(w)
      BY <3>2, <3>3, <3>5 DEF DeleteKeywords, Stores
    <3>. QED  BY <2>10, <3>4, <3>5
  <2>11. ASSUME NEW w \in Workers, DeleteRows(w) PROVE BackedInv'
    <3>1. WorkerInv(w)'
      BY <2>11 DEF DeleteRows, Goto, TypeOK, WorkerInv
    <3>. QED  BY <2>11, <2>a, <2>c, <3>1 DEF DeleteRows, Goto, bus
  <2>12. ASSUME NEW w \in Workers, DatabaseError(w) PROVE BackedInv'
    <3>1. WorkerInv(w)'
      BY <2>12 DEF DatabaseError, Caught, Goto, TypeOK, WorkerInv
    <3>. QED  BY <2>12, <2>a, <2>c, <3>1 DEF DatabaseError, Caught, Goto, bus, data
  <2>13. ASSUME NEW w \in Workers, Commit(w) \/ Restart(w) PROVE BackedInv'
    <3>1. pc'[w] \in {"idle", "stopped"} /\ \A v \in Workers \ {w} : pc'[v] = pc[v] /\ job'[v] = job[v]
      BY <2>13 DEF Commit, Restart, Goto, TypeOK
    <3>2. WorkerInv(w)'
      BY <3>1 DEF WorkerInv
    <3>. QED  BY <2>13, <2>a, <2>c, <3>1, <3>2 DEF Commit, Restart, data
  <2>14. ASSUME NEW w \in Workers, Rebalance(w) PROVE BackedInv'
    BY <2>14, <2>b, <2>c DEF Rebalance, data
  <2>15. CASE Refresh
    BY <2>15, <2>b, <2>c DEF Refresh, bus
  <2>16. CASE UNCHANGED vars
    BY <2>16, <2>b, <2>c DEF vars, bus, data
  <2>. QED  BY <2>1, <2>2, <2>3, <2>4, <2>6, <2>7, <2>8, <2>9, <2>10, <2>11, <2>12,
               <2>13, <2>14, <2>15, <2>16 DEF Next, Handle, Answer
<1>. QED  BY <1>1, <1>2, IndexTypeCorrect, PTL DEF Spec

\* chunk_index never lists a chunk of a document that is still upstream and
\* that Qdrant or OpenSearch lacks, for any number of workers, failures,
\* crashes and rebalances.
THEOREM RowsAreAlwaysBacked == Spec => []RowsAreBacked
<1>1. BackedInv => RowsAreBacked
  BY DEF BackedInv
<1>. QED  BY <1>1, BackedAlways, PTL

-----------------------------------------------------------------------------
(* Deletions are complete.  As long as nothing has slipped, one worker is  *)
(* busy at most, and what the stores hold beyond the rows is what its run  *)
(* is about to list.  A deletion therefore finds everything there is of    *)
(* its document through the rows, and what it has removed stays removed:   *)
(* no run under way holds a chunk of a document that is committed as       *)
(* deleted.                                                                *)

Gone(d) == ChunksOf(d) = {} /\ \A s \in Stores : \A c \in store[s] : c.doc # d

Writing(w) == pc[w] \in {"store", "rows"}

\* How far worker w has got with its event.
Course(w) ==
    /\ pc[w] \in {"fetch", "store", "rows"} => job[w].event \in Syncs
    /\ Writing(w) => \A c \in job[w].chunks : c.doc \notin committed
    /\ pc[w] \in {"list", "delete_vectors", "delete_keywords", "delete_rows"} =>
          job[w].event \in Docs
    /\ pc[w] = "delete_vectors" => job[w].chunks = ChunksOf(job[w].event)
    /\ pc[w] = "delete_keywords" => \A c \in store["qdrant"] : c.doc # job[w].event
    /\ pc[w] = "delete_rows" =>
          \A s \in Stores : \A c \in store[s] : c.doc # job[w].event
    /\ pc[w] = "commit" /\ job[w].event \in Docs => Gone(job[w].event)

\* Nothing is under way but the event of worker w.
Alone(w) ==
    /\ fenced = {}
    /\ \A v \in Workers \ {w} : ~Busy(v)
    /\ \A x \in writes : pc[w] = "store" /\ x.run = job[w].run /\ x.chunks = job[w].chunks
    /\ \A s \in Stores : \A c \in store[s] :
          c \in chunk_index \/ (Writing(w) /\ c \in job[w].chunks)
    /\ Course(w)
    /\ \A d \in Docs \cap committed : Gone(d)

\* Nothing is under way.
Quiet ==
    /\ fenced = {} /\ writes = {}
    /\ \A v \in Workers : ~Busy(v)
    /\ \A s \in Stores : store[s] \subseteq chunk_index
    /\ \A d \in Docs \cap committed : Gone(d)

SoloInv == slips = {} => Quiet \/ \E w \in Workers : Alone(w)

\* A worker that handles an event alone hands on a state in order, step by
\* step: the case of one action.
LEMMA AloneStep ==
  ASSUME TypeOK, BackedInv, NEW w \in Workers, Alone(w), Busy(w),
         Handle(w), slips' = {}
  PROVE  Quiet' \/ Alone(w)'
<1>. USE EventsAssumption
<1>0. /\ job[w].event \in Events \cup {NoEvent}
      /\ \A v \in Workers \ {w} : ~Busy(v)
      /\ \A d \in Docs : d \in committed => d \notin upstream
  BY DEF TypeOK, BackedInv, Alone
<1>1. ~DatabaseError(w) /\ ~Caught(w)
  BY DEF DatabaseError, Caught, Slip, Failure
<1>2. ASSUME \A v \in Workers \ {w} : pc'[v] = pc[v]
      PROVE  \A v \in Workers \ {w} : ~Busy(v)'
  BY <1>0, <1>2 DEF Busy
<1>3. CASE Fetch(w)
  <2>1. PICK found \in SUBSET upstream :
          LET chunks == [doc : found, run : {job[w].run}]
          IN  /\ job' = [job EXCEPT ![w].chunks = chunks]
              /\ Goto(w, IF found = {} THEN "commit" ELSE "store")
              /\ writes' = writes \cup
                   (IF found = {} THEN {}
                    ELSE [run : {job[w].run}, store : Stores, chunks : {chunks}])
    BY <1>1, <1>3 DEF Fetch
  <2>. DEFINE chunks == [doc : found, run : {job[w].run}]
  <2>a. pc[w] = "fetch" /\ UNCHANGED <<committed, fenced, store, chunk_index>>
    BY <1>3, Zenon DEF Fetch, bus
  <2>b. /\ job' = [job EXCEPT ![w].chunks = chunks]
        /\ pc' = [pc EXCEPT ![w] = IF found = {} THEN "commit" ELSE "store"]
    BY <2>1, Zenon DEF Goto
  <2>2. /\ pc[w] = "fetch" /\ UNCHANGED <<committed, fenced, store, chunk_index>>
        /\ job'[w].event = job[w].event /\ job'[w].run = job[w].run
        /\ job'[w].chunks = chunks
        /\ pc'[w] = IF found = {} THEN "commit" ELSE "store"
        /\ \A v \in Workers \ {w} : pc'[v] = pc[v]
    <3>. HIDE DEF chunks
    <3>. QED  BY <2>a, <2>b DEF TypeOK
  <2>3. writes = {} /\ job[w].event \in Syncs /\ job[w].event \notin Docs
    BY <2>2 DEF Alone, Course
  <2>4. \A x \in writes' : found # {} /\ x.run = job[w].run /\ x.chunks = chunks
    BY <2>1, <2>3
  <2>5. \A c \in chunks : c.doc \notin committed
    BY <1>0 DEF TypeOK
  <2>6. \A s \in Stores : \A c \in store[s] : c \in chunk_index
    BY <2>2 DEF Alone, Writing
  <2>7. \A d \in Docs : Gone(d)' <=> Gone(d)
    BY <2>2 DEF Gone, ChunksOf
  <2>8. Course(w)'
    BY <2>2, <2>3, <2>5 DEF Course, Writing
  <2>. QED  BY <1>2, <2>2, <2>4, <2>6, <2>7, <2>8 DEF Alone
<1>4. CASE UpsertRows(w)
  <2>1. /\ pc[w] = "rows" /\ pc'[w] = "commit"
        /\ UNCHANGED <<committed, fenced, store, job, writes>>
        /\ chunk_index' = chunk_index \cup job[w].chunks
        /\ \A v \in Workers \ {w} : pc'[v] = pc[v]
    BY <1>4 DEF UpsertRows, bus, Goto, TypeOK
  <2>2. /\ job[w].event \notin Docs /\ \A c \in job[w].chunks : c.doc \notin committed
        /\ writes = {}
    BY <2>1 DEF Alone, Course, Writing
  <2>3. \A s \in Stores : \A c \in store[s] : c \in chunk_index'
    BY <2>1 DEF Alone
  <2>4. \A d \in Docs \cap committed : Gone(d)'
    BY <2>1, <2>2 DEF Alone, Gone, ChunksOf
  <2>5. Course(w)'
    BY <2>1, <2>2 DEF Course, Writing
  <2>. QED  BY <1>2, <2>1, <2>2, <2>3, <2>4, <2>5 DEF Alone
<1>5. CASE ListRows(w)
  <2>1. /\ pc[w] = "list" /\ UNCHANGED <<committed, fenced, store, chunk_index, writes>>
        /\ job'[w].event = job[w].event /\ job'[w].chunks = ChunksOf(job[w].event)
        /\ pc'[w] = IF ChunksOf(job[w].event) = {} THEN "commit" ELSE "delete_vectors"
        /\ \A v \in Workers \ {w} : pc'[v] = pc[v]
    BY <1>5 DEF ListRows, bus, data, Goto, TypeOK
  <2>2. /\ writes = {} /\ job[w].event \in Docs
        /\ \A s \in Stores : \A c \in store[s] : c \in chunk_index
    BY <2>1 DEF Alone, Course, Writing
  <2>3. \A d \in Docs : Gone(d)' <=> Gone(d)
    BY <2>1 DEF Gone, ChunksOf
  <2>4. ChunksOf(job[w].event)' = ChunksOf(job[w].event)
    BY <2>1 DEF ChunksOf
  <2>5. ChunksOf(job[w].event) = {} => Gone(job[w].event)
    BY <2>2 DEF Gone, ChunksOf
  <2>6. Course(w)'
    BY <2>1, <2>2, <2>3, <2>4, <2>5 DEF Course, Writing
  <2>. QED  BY <1>2, <2>1, <2>2, <2>3, <2>6 DEF Alone
<1>6. ASSUME NEW s \in Stores, NEW gone, NEW next \in {"delete_keywords", "delete_rows"},
             NEW kinds, Remove(w, s, gone, next, kinds),
             pc[w] \in {"delete_vectors", "delete_keywords"}
      PROVE  /\ UNCHANGED <<committed, fenced, job, chunk_index, writes>> /\ writes = {}
             /\ store' = [store EXCEPT ![s] = @ \ gone] /\ pc'[w] = next
             /\ kinds = {}
             /\ \A v \in Workers \ {w} : pc'[v] = pc[v]
             /\ \A z \in Stores : store'[z] \subseteq store[z]
             /\ \A z \in Stores : \A c \in store[z] : c \in chunk_index
             /\ job[w].event \in Docs
             /\ \A d \in Docs : Gone(d) => Gone(d)'
  <2>1. /\ UNCHANGED <<committed, fenced, job, chunk_index, writes>>
        /\ store' = [store EXCEPT ![s] = @ \ gone] /\ Goto(w, next) /\ Slip(kinds)
    BY <1>1, <1>6 DEF Remove, bus
  <2>2. \A z \in Stores : store'[z] \subseteq store[z]
    BY <2>1 DEF TypeOK
  <2>3. /\ writes = {} /\ job[w].event \in Docs
        /\ \A z \in Stores : \A c \in store[z] : c \in chunk_index
    BY <1>6 DEF Alone, Course, Writing
  <2>4. \A d \in Docs : Gone(d) => Gone(d)'
    BY <2>1, <2>2 DEF Gone, ChunksOf
  <2>5. kinds = {}
    BY <2>1 DEF Slip
  <2>. QED  BY <2>1, <2>2, <2>3, <2>4, <2>5 DEF Goto, TypeOK
<1>7. CASE DeleteVectors(w)
  <2>1. pc[w] = "delete_vectors" /\ Remove(w, "qdrant", job[w].chunks, "delete_keywords", {})
    BY <1>7 DEF DeleteVectors
  <2>2. /\ UNCHANGED <<committed, fenced, job, chunk_index, writes>> /\ writes = {}
        /\ store' = [store EXCEPT !["qdrant"] = @ \ job[w].chunks]
        /\ pc'[w] = "delete_keywords" /\ \A v \in Workers \ {w} : pc'[v] = pc[v]
        /\ \A z \in Stores : store'[z] \subseteq store[z]
        /\ \A z \in Stores : \A c \in store[z] : c \in chunk_index
        /\ job[w].event \in Docs /\ \A d \in Docs : Gone(d) => Gone(d)'
    BY <1>6, <2>1 DEF Stores
  <2>3. job[w].chunks = ChunksOf(job[w].event)
    BY <2>1 DEF Alone, Course
  <2>4. \A c \in store'["qdrant"] : c.doc # job[w].event
    BY <2>2, <2>3 DEF ChunksOf, TypeOK, Stores
  <2>5. Course(w)'
    BY <2>2, <2>4 DEF Course, Writing
  <2>. QED  BY <1>2, <2>2, <2>5 DEF Alone
<1>8. CASE DeleteKeywords(w)
  <2>. DEFINE all   == {c \in store["opensearch"] : c.doc = job[w].event}
              found == all \ unrefreshed
              kinds == IF found = all THEN {} ELSE {"unrefreshed"}
  <2>1. pc[w] = "delete_keywords" /\ Remove(w, "opensearch", found, "delete_rows", kinds)
    BY <1>8 DEF DeleteKeywords
  <2>2. /\ UNCHANGED <<committed, fenced, job, chunk_index, writes>> /\ writes = {}
        /\ store' = [store EXCEPT !["opensearch"] = @ \ found] /\ kinds = {}
        /\ pc'[w] = "delete_rows" /\ \A v \in Workers \ {w} : pc'[v] = pc[v]
        /\ \A z \in Stores : store'[z] \subseteq store[z]
        /\ \A z \in Stores : \A c \in store[z] : c \in chunk_index
        /\ job[w].event \in Docs /\ \A d \in Docs : Gone(d) => Gone(d)'
    <3>. HIDE DEF found, kinds
    <3>. QED  BY <1>6, <2>1 DEF Stores
  <2>3. \A c \in store["qdrant"] : c.doc # job[w].event
    BY <2>1 DEF Alone, Course
  <2>4. found = all
    BY <2>2
  <2>5. \A z \in Stores : \A c \in store'[z] : c.doc # job[w].event
    BY <2>2, <2>3, <2>4 DEF TypeOK, Stores
  <2>6. Course(w)'
    BY <2>2, <2>5 DEF Course, Writing
  <2>. QED  BY <1>2, <2>2, <2>6 DEF Alone
<1>9. CASE DeleteRows(w)
  <2>1. /\ pc[w] = "delete_rows" /\ pc'[w] = "commit"
        /\ UNCHANGED <<committed, fenced, store, job, writes>>
        /\ chunk_index' = chunk_index \ ChunksOf(job[w].event)
        /\ \A v \in Workers \ {w} : pc'[v] = pc[v]
    BY <1>9 DEF DeleteRows, bus, Goto, TypeOK
  <2>2. /\ writes = {}
        /\ \A s \in Stores : \A c \in store[s] : c \in chunk_index /\ c.doc # job[w].event
    BY <2>1 DEF Alone, Course, Writing
  <2>3. \A s \in Stores : \A c \in store[s] : c \in chunk_index'
    BY <2>1, <2>2 DEF ChunksOf
  <2>4. Gone(job[w].event)' /\ \A d \in Docs : Gone(d) => Gone(d)'
    BY <2>1, <2>2 DEF Gone, ChunksOf
  <2>5. Course(w)'
    BY <2>1, <2>4 DEF Course, Writing
  <2>. QED  BY <1>2, <2>1, <2>2, <2>3, <2>4, <2>5 DEF Alone
<1>10. CASE Commit(w)
  <2>1. /\ pc[w] = "commit" /\ pc'[w] = "idle" /\ \A v \in Workers \ {w} : pc'[v] = pc[v]
        /\ committed' = committed \cup {job[w].event} /\ fenced' = {}
        /\ UNCHANGED <<store, chunk_index, writes>>
    BY <1>10 DEF Commit, Slip, Goto, data, Alone, TypeOK
  <2>2. /\ writes = {}
        /\ job[w].event \in Docs => Gone(job[w].event)
        /\ \A s \in Stores : \A c \in store[s] : c \in chunk_index
    BY <2>1 DEF Alone, Course, Writing
  <2>3. \A d \in Docs : Gone(d) => Gone(d)'
    BY <2>1 DEF Gone, ChunksOf
  <2>4. \A d \in Docs \cap committed' : Gone(d)'
    BY <2>1, <2>2, <2>3 DEF Alone
  <2>5. \A v \in Workers : ~Busy(v)'
    BY <1>2, <2>1 DEF Busy
  <2>6. writes' = {} /\ \A s \in Stores : store'[s] \subseteq chunk_index'
    BY <2>1, <2>2
  <2>. QED  BY <2>1, <2>4, <2>5, <2>6 DEF Quiet
<1>. QED  BY <1>1, <1>3, <1>4, <1>5, <1>7, <1>8, <1>9, <1>10 DEF Handle

\* The requests of a run that is alone bring in only what its rows will list.
LEMMA AloneAnswer ==
  ASSUME TypeOK, NEW w \in Workers, Alone(w), NEW x \in writes, WriteDone(x)
  PROVE  Alone(w)'
<1>0. /\ pc[w] = "store" /\ x.run = job[w].run /\ x.chunks = job[w].chunks
      /\ \A y \in writes : y.run = x.run /\ y.chunks = job[w].chunks
  BY DEF Alone
<1>1. /\ UNCHANGED <<committed, fenced, job, chunk_index>>
      /\ writes' = writes \ {x} /\ store' = [store EXCEPT ![x.store] = @ \cup x.chunks]
  BY DEF WriteDone, Store, bus
<1>2. /\ pc'[w] \in {"store", "rows"} /\ (pc'[w] # "store" => writes' = {})
      /\ \A v \in Workers \ {w} : pc'[v] = pc[v]
  <2>1. w \in Waiting(x) /\ \A v \in Workers \ {w} : v \notin Waiting(x)
    BY <1>0 DEF Waiting, Alone, Busy
  <2>2. pc'[w] = IF \A y \in writes : y.run = x.run => y = x THEN "rows" ELSE pc[w]
    BY <2>1 DEF WriteDone
  <2>. QED  BY <1>0, <1>1, <2>1, <2>2 DEF WriteDone
<1>3. \A s \in Stores : \A c \in store'[s] : c \in store[s] \/ c \in job[w].chunks
  BY <1>0, <1>1 DEF TypeOK
<1>4. \A c \in job[w].chunks : c.doc \notin committed
  BY <1>0 DEF Alone, Course, Writing
<1>5. \A d \in Docs \cap committed' : Gone(d)'
  BY <1>1, <1>3, <1>4 DEF Alone, Gone, ChunksOf
<1>6. Course(w)'
  BY <1>0, <1>1, <1>2, <1>4 DEF Alone, Course, Writing
<1>7. \A v \in Workers \ {w} : ~Busy(v)'
  BY <1>2 DEF Alone, Busy
<1>8. \A s \in Stores : \A c \in store'[s] :
         c \in chunk_index' \/ (Writing(w)' /\ c \in job'[w].chunks)
  BY <1>1, <1>2, <1>3 DEF Alone, Writing
<1>. QED  BY <1>0, <1>1, <1>2, <1>5, <1>6, <1>7, <1>8 DEF Alone

\* Every step keeps SoloInv.
LEMMA SoloStep == TypeOK /\ BackedInv /\ SoloInv /\ [Next]_vars => SoloInv'
<1>. SUFFICES ASSUME TypeOK, BackedInv, SoloInv, [Next]_vars, slips' = {}
              PROVE  SoloInv!2'
  BY DEF SoloInv
<1>. USE EventsAssumption
<1>0. slips = {} /\ (Quiet \/ \E w \in Workers : Alone(w))
  <2>1. slips = {}
    BY DEF Next, SendSynced, DeleteUpstream, Take, Handle, Fetch, UpsertRows, ListRows,
           DeleteVectors, DeleteKeywords, Remove, DeleteRows, DatabaseError, Caught, Commit,
           Restart, Rebalance, Answer, WriteDone, WriteFails, Refresh, Slip, vars
  <2>. QED  BY <2>1 DEF SoloInv
<1>1. ASSUME NEW w \in Workers, Alone(w), ~Busy(w) PROVE Quiet
  BY <1>1 DEF Alone, Quiet, Busy, Writing
<1>2. ASSUME UNCHANGED <<committed, fenced, pc, job, store, chunk_index, writes>>
      PROVE  SoloInv!2'
  <2>1. \A d \in Docs : Gone(d)' <=> Gone(d)
    BY <1>2 DEF Gone, ChunksOf
  <2>2. Quiet => Quiet'
    BY <1>2, <2>1 DEF Quiet, Busy
  <2>3. ASSUME NEW w \in Workers, Alone(w) PROVE Alone(w)'
    <3>1. Course(w)'
      BY <1>2, <2>1, <2>3 DEF Alone, Course, Writing, ChunksOf
    <3>. QED  BY <1>2, <2>1, <2>3, <3>1 DEF Alone, Busy, Writing
  <2>. QED  BY <1>0, <2>2, <2>3
<1>3. CASE \/ \E e \in Syncs : SendSynced(e)
           \/ \E d \in Docs : DeleteUpstream(d)
           \/ Refresh
           \/ UNCHANGED vars
  BY <1>2, <1>3 DEF SendSynced, DeleteUpstream, Refresh, vars, bus, data
<1>4. ASSUME NEW w \in Workers, NEW e \in Events, Take(w, e) PROVE SoloInv!2'
  <2>1. Quiet
    BY <1>0, <1>1, <1>4 DEF Take, Slip
  <2>2. /\ UNCHANGED <<committed, fenced, store, chunk_index, writes>>
        /\ job'[w].event = e /\ pc'[w] = IF e \in Syncs THEN "fetch" ELSE "list"
        /\ \A v \in Workers \ {w} : pc'[v] = pc[v]
    BY <1>4 DEF Take, Goto, data, TypeOK
  <2>3. Course(w)'
    BY <2>2 DEF Course, Writing, Events
  <2>4. \A d \in Docs : Gone(d)' <=> Gone(d)
    BY <2>2 DEF Gone, ChunksOf
  <2>5. Alone(w)'
    BY <2>1, <2>2, <2>3, <2>4 DEF Alone, Quiet, Busy
  <2>. QED  BY <2>5
<1>5. ASSUME NEW w \in Workers, Handle(w) PROVE SoloInv!2'
  <2>1. Busy(w)
    BY <1>5 DEF Handle, Fetch, UpsertRows, ListRows, DeleteVectors, DeleteKeywords,
       DeleteRows, DatabaseError, Commit, Busy
  <2>2. Alone(w)
    BY <1>0, <2>1 DEF Quiet, Alone
  <2>. QED  BY <1>5, <2>1, <2>2, AloneStep
<1>6. ASSUME NEW w \in Workers, Restart(w) \/ Rebalance(w) PROVE FALSE
  BY <1>6 DEF Restart, Rebalance, Slip
<1>7. ASSUME NEW x \in writes, WriteDone(x) PROVE SoloInv!2'
  BY <1>0, <1>7, AloneAnswer DEF Quiet
<1>8. ASSUME NEW x \in writes, WriteFails(x) PROVE FALSE
  BY <1>8 DEF WriteFails, Slip
<1>. QED  BY <1>3, <1>4, <1>5, <1>6, <1>7, <1>8 DEF Next, Answer

\* For any number of documents and workers: when a deletion is committed,
\* nothing is left of its document, unless one of the slips has happened.
THEOREM DeletionsAreComplete == Spec => []DeletionIsComplete
<1>1. Init => SoloInv
  BY EventsAssumption DEF Init, SoloInv, Quiet, Busy, Stores
<1>2. SoloInv => DeletionIsComplete
  <2> SUFFICES ASSUME SoloInv, slips = {}, NEW d \in Docs \cap committed PROVE Gone(d)
    BY Zenon DEF DeletionIsComplete, Gone
  <2>. QED  BY DEF SoloInv, Quiet, Alone
<1>. QED  BY <1>1, <1>2, SoloStep, BackedAlways, IndexTypeCorrect, PTL DEF Spec
=============================================================================
