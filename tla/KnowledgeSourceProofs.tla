----------------------- MODULE KnowledgeSourceProofs ------------------------
(***************************************************************************)
(* Proofs about knowledge sources: about SyncJobs, for any number of runs  *)
(* and any number of retries, and about ConnectorRuntime, for any sets of  *)
(* types, sources, administrators and retrievals.                          *)
(***************************************************************************)
EXTENDS SyncJobs, ConnectorRuntime, TLAPS

-----------------------------------------------------------------------------
\* Every variable keeps its type; in particular no run ever makes more than
\* MaxRetries + 1 attempts.
THEOREM SyncTypeCorrect == Spec => []TypeOK
<1>. USE RetriesAssumption DEF TypeOK, SourceStatus, JobStatus, Steps
<1>1. Init => TypeOK
  BY DEF Init
<1>2. TypeOK /\ [Next]_vars => TypeOK'
  <2> SUFFICES ASSUME TypeOK, [Next]_vars PROVE TypeOK'
    OBVIOUS
  <2>1. ASSUME NEW j \in Syncs, Tick(j) \/ TriggerSync(j) \/ Load(j)
        PROVE  TypeOK'
    BY <2>1 DEF Tick, TriggerSync, Load, Goto
  <2>2. ASSUME NEW j \in Syncs, SetupRaises(j) \/ Close(j)
        PROVE  TypeOK'
    BY <2>2 DEF SetupRaises, Close, MarkFailed, Flushed, Goto
  <2>3. ASSUME NEW j \in Syncs, Begin(j) PROVE TypeOK'
    BY <2>3 DEF Begin, Flushed, Goto
  <2>0. ASSUME NEW j \in Syncs, NextAttempt(j)
        PROVE  pc' \in [Syncs -> Steps] /\ attempt' \in [Syncs -> 0 .. MaxRetries + 1]
    <3>1. attempt[j] \in 0 .. MaxRetries + 1
      OBVIOUS
    <3>2. attempt[j] <= MaxRetries => attempt[j] + 1 \in 0 .. MaxRetries + 1
      BY <3>1
    <3>. QED  BY <2>0, <3>2 DEF NextAttempt, Goto
  <2>4. ASSUME NEW j \in Syncs, Sync(j) PROVE TypeOK'
    BY <2>0, <2>4 DEF Sync, Goto
  <2>5. ASSUME NEW j \in Syncs, Commit(j) PROVE TypeOK'
    <3>1. mem[j].count + 1 \in Nat /\ Flushed(j, "active") \in SourceStatus
      BY DEF Flushed
    <3>2. source' \in [exists : BOOLEAN, active : BOOLEAN, status : SourceStatus,
                       count : Nat, due : BOOLEAN]
      BY <2>5, <3>1 DEF Commit
    <3>3. mem' \in [Syncs -> [status : SourceStatus, count : Nat]]
      BY <2>5, <3>1 DEF Commit
    <3>. QED  BY <2>5, <3>2, <3>3 DEF Commit, Goto
  <2>6. ASSUME NEW j \in Syncs, Emit(j) PROVE TypeOK'
    <3>1. \A n \in {0, 1} : [events EXCEPT ![j] = @ + n] \in [Syncs -> Nat]
      OBVIOUS
    <3>2. events' \in [Syncs -> Nat]
      BY <2>6, <3>1 DEF Emit
    <3>3. pc' \in [Syncs -> Steps] /\ attempt' \in [Syncs -> 0 .. MaxRetries + 1]
      BY <2>0, <2>6 DEF Emit, Goto
    <3>. QED  BY <2>6, <3>2, <3>3 DEF Emit
  <2>7. ASSUME NEW j \in Syncs, DatabaseError(j) PROVE TypeOK'
    BY <2>7 DEF DatabaseError, Goto
  <2>8. CASE CronPasses \/ (\E b \in BOOLEAN : SetActive(b))
    BY <2>8 DEF CronPasses, SetActive
  <2>9. CASE Delete
    BY <2>9 DEF Delete
  <2>10. CASE Crash
    BY <2>10 DEF Crash, InFlight
  <2>11. CASE UNCHANGED vars
    BY <2>11 DEF vars
  <2>. QED  BY <2>1, <2>2, <2>3, <2>4, <2>5, <2>6, <2>7, <2>8, <2>9, <2>10, <2>11
            DEF Next, Run
<1>. QED  BY <1>1, <1>2, PTL DEF Spec

-----------------------------------------------------------------------------
(* A run that ends normally has closed its job.  The invariant adds when a *)
(* job cannot be RUNNING before the end: a scheduled run has no job until  *)
(* Begin, a run that is about to publish has succeeded, and with the       *)
(* source its jobs are gone.                                               *)

JobsInv ==
    /\ EndedRunsCloseTheirJob
    /\ \A j \in Syncs :
         /\ j \in Scheduled /\ pc[j] \in {"idle", "load", "setup"} => job[j] = "none"
         /\ pc[j] = "idle" => job[j] = "none"
         /\ pc[j] = "emit" => job[j] # "running"
         /\ ~source.exists => job[j] \in {"none", "deleted"}

\* Without a crash or a database error no job is left RUNNING by a run that
\* has ended, however many runs overlap and whatever the administrator does.
THEOREM JobsAreClosed == Spec => []EndedRunsCloseTheirJob
<1>. USE SyncsAssumption DEF JobsInv, EndedRunsCloseTheirJob, TypeOK, Syncs
<1>1. Init => JobsInv
  BY DEF Init
<1>2. TypeOK /\ JobsInv /\ [Next]_vars => JobsInv'
  <2> SUFFICES ASSUME TypeOK, JobsInv, [Next]_vars PROVE JobsInv'
    OBVIOUS
  <2>1. ASSUME NEW j \in Syncs, Tick(j) \/ TriggerSync(j) \/ Load(j)
        PROVE  JobsInv'
    BY <2>1 DEF Tick, TriggerSync, Load, Goto
  <2>2. ASSUME NEW j \in Syncs, SetupRaises(j) \/ Close(j)
        PROVE  JobsInv'
    BY <2>2 DEF SetupRaises, Close, MarkFailed, Goto
  <2>3. ASSUME NEW j \in Syncs, Begin(j) PROVE JobsInv'
    BY <2>3 DEF Begin, Goto
  <2>4. ASSUME NEW j \in Syncs, Sync(j) PROVE JobsInv'
    BY <2>4 DEF Sync, NextAttempt, Goto
  <2>5. ASSUME NEW j \in Syncs, Commit(j) PROVE JobsInv'
    BY <2>5 DEF Commit, Goto
  <2>6. ASSUME NEW j \in Syncs, Emit(j) PROVE JobsInv'
    BY <2>6 DEF Emit, NextAttempt, Goto
  <2>7. ASSUME NEW j \in Syncs, DatabaseError(j) PROVE JobsInv'
    BY <2>7 DEF DatabaseError, Goto
  <2>8. CASE CronPasses \/ (\E b \in BOOLEAN : SetActive(b))
    BY <2>8 DEF CronPasses, SetActive
  <2>9. CASE Delete
    BY <2>9 DEF Delete
  <2>10. CASE Crash
    BY <2>10 DEF Crash, InFlight
  <2>11. CASE UNCHANGED vars
    BY <2>11 DEF vars
  <2>. QED  BY <2>1, <2>2, <2>3, <2>4, <2>5, <2>6, <2>7, <2>8, <2>9, <2>10, <2>11
            DEF Next, Run
<1>. QED  BY <1>1, <1>2, SyncTypeCorrect, PTL DEF Spec

-----------------------------------------------------------------------------
\* A source row that says SYNCING is owed a status by a run that is still at
\* work, unless a run was lost.  The property is inductive: a run writes the
\* status unless its session already held the value, and then it is not the
\* run that owes it.
THEOREM SyncingIsAlwaysOwed == Spec => []SyncingIsOwed
<1>. USE DEF SyncingIsOwed, TypeOK
<1>1. Init => SyncingIsOwed
  BY DEF Init
<1>2. TypeOK /\ SyncingIsOwed /\ [Next]_vars => SyncingIsOwed'
  <2> SUFFICES ASSUME TypeOK, SyncingIsOwed, [Next]_vars PROVE SyncingIsOwed'
    OBVIOUS
  <2>1. ASSUME NEW j \in Syncs, Tick(j) \/ TriggerSync(j) \/ Load(j)
        PROVE  SyncingIsOwed'
    BY <2>1 DEF Tick, TriggerSync, Load, Goto
  <2>2. ASSUME NEW j \in Syncs, SetupRaises(j) \/ Close(j)
        PROVE  SyncingIsOwed'
    BY <2>2 DEF SetupRaises, Close, MarkFailed, Flushed, Goto
  <2>3. ASSUME NEW j \in Syncs, Begin(j) PROVE SyncingIsOwed'
    BY <2>3 DEF Begin, Goto
  <2>4. ASSUME NEW j \in Syncs, Sync(j) PROVE SyncingIsOwed'
    BY <2>4 DEF Sync, NextAttempt, Goto
  <2>5. ASSUME NEW j \in Syncs, Commit(j) PROVE SyncingIsOwed'
    BY <2>5 DEF Commit, Flushed, Goto
  <2>6. ASSUME NEW j \in Syncs, Emit(j) PROVE SyncingIsOwed'
    BY <2>6 DEF Emit, NextAttempt, Goto
  <2>7. ASSUME NEW j \in Syncs, DatabaseError(j) PROVE SyncingIsOwed'
    BY <2>7 DEF DatabaseError, Goto
  <2>8. CASE CronPasses \/ (\E b \in BOOLEAN : SetActive(b)) \/ Delete
    BY <2>8 DEF CronPasses, SetActive, Delete
  <2>9. CASE Crash
    BY <2>9 DEF Crash, InFlight
  <2>10. CASE UNCHANGED vars
    BY <2>10 DEF vars
  <2>. QED  BY <2>1, <2>2, <2>3, <2>4, <2>5, <2>6, <2>7, <2>8, <2>9, <2>10
            DEF Next, Run
<1>. QED  BY <1>1, <1>2, SyncTypeCorrect, PTL DEF Spec

-----------------------------------------------------------------------------
\* A run that is about to publish has committed its success, which only the
\* deletion of the source can take away.
EmitInv == \A j \in Syncs : pc[j] = "emit" => job[j] \in {"succeeded", "deleted"}

\* No event about a sync is published before its success is committed, at
\* any attempt of any run.
THEOREM EventsComeAfterTheCommit == Spec => EventsFollowTheCommit
<1>. USE DEF EmitInv, TypeOK
<1>1. Init => EmitInv
  BY DEF Init
<1>2. TypeOK /\ EmitInv /\ [Next]_vars => EmitInv'
  <2> SUFFICES ASSUME TypeOK, EmitInv, [Next]_vars PROVE EmitInv'
    OBVIOUS
  <2>1. ASSUME NEW j \in Syncs, Tick(j) \/ TriggerSync(j) \/ Load(j)
        PROVE  EmitInv'
    BY <2>1 DEF Tick, TriggerSync, Load, Goto
  <2>2. ASSUME NEW j \in Syncs, SetupRaises(j) \/ Close(j) \/ Begin(j) \/ Commit(j)
        PROVE  EmitInv'
    BY <2>2 DEF SetupRaises, Close, MarkFailed, Begin, Commit, Goto
  <2>3. ASSUME NEW j \in Syncs, Sync(j) \/ Emit(j) \/ DatabaseError(j)
        PROVE  EmitInv'
    BY <2>3 DEF Sync, Emit, NextAttempt, DatabaseError, Goto
  <2>4. CASE CronPasses \/ (\E b \in BOOLEAN : SetActive(b))
    <3>1. pc' = pc /\ job' = job
      BY <2>4, Zenon DEF CronPasses, SetActive
    <3>. QED  BY <3>1
  <2>5. CASE Delete
    BY <2>5 DEF Delete
  <2>6. CASE Crash
    BY <2>6 DEF Crash, InFlight
  <2>7. CASE UNCHANGED vars
    BY <2>7 DEF vars
  <2>. QED  BY <2>1, <2>2, <2>3, <2>4, <2>5, <2>6, <2>7 DEF Next, Run
<1>3. TypeOK /\ EmitInv /\ [Next]_vars
      => [\A j \in Syncs : events'[j] # events[j] => job[j] \in {"succeeded", "deleted"}]_vars
  <2> SUFFICES ASSUME TypeOK, EmitInv, Next, NEW j \in Syncs, events'[j] # events[j]
               PROVE  job[j] \in {"succeeded", "deleted"}
    BY DEF vars
\* Only a run that is at its publication changes its count of events.
  <2>1. pc[j] = "emit"
    <3>1. \A i \in Syncs : Tick(i) \/ TriggerSync(i) \/ Load(i) \/ SetupRaises(i) \/ Begin(i)
                            \/ Sync(i) \/ Commit(i) \/ Close(i) \/ DatabaseError(i)
            => events' = events
      BY Zenon DEF Tick, TriggerSync, Load, SetupRaises, MarkFailed, Begin, Sync, Commit,
                   Close, DatabaseError
    <3>2. CronPasses \/ (\E b \in BOOLEAN : SetActive(b)) \/ Delete \/ Crash
           => events' = events
      BY Zenon DEF CronPasses, SetActive, Delete, Crash
    <3>3. PICK i \in Syncs : Emit(i)
      BY <3>1, <3>2, Zenon DEF Next, Run
    <3>4. pc[i] = "emit" /\ (i # j => events'[j] = events[j])
      BY <3>3 DEF Emit
    <3>. QED  BY <3>4
  <2>. QED  BY <2>1
<1>. QED  BY <1>1, <1>2, <1>3, SyncTypeCorrect, PTL DEF Spec, EventsFollowTheCommit

-----------------------------------------------------------------------------
(* The connectors.                                                         *)

\* A connector searches active sources of its type only, the newest always,
\* and of the others exactly those whose credentials are at the same path:
\* there is no source both newer and elsewhere for a connector to miss.
LEMMA ScopesAreOfOnePath ==
    ASSUME NEW S \in SUBSET Sources, NEW t \in Types
    PROVE  LET mine == {s \in S : TypeOf[s] = t}
           IN  /\ Scopes(S, t) \subseteq mine
               /\ \A s \in mine : (\A u \in mine : u <= s) => s \in Scopes(S, t)
               /\ \A s \in Scopes(S, t), u \in mine :
                    u \in Scopes(S, t) <=> (u \in Elsewhere <=> s \in Elsewhere)
<1>. DEFINE mine == {s \in S : TypeOf[s] = t}
            newest(n) == n \in mine /\ \A u \in mine : u <= n
<1>1. S \subseteq Nat
  BY SourcesAssumption
<1>2. Scopes(S, t) =
        {s \in mine : \E n \in mine : newest(n) /\ (s \in Elsewhere <=> n \in Elsewhere)}
  BY DEF Scopes
\* There is one newest source at most.
<1>3. ASSUME NEW n, NEW m, newest(n), newest(m) PROVE n = m
  <2>1. n <= m /\ m <= n /\ n \in Nat /\ m \in Nat
    BY <1>1, <1>3
  <2>. QED  BY <2>1
<1>4. ASSUME NEW s \in mine, \A u \in mine : u <= s PROVE s \in Scopes(S, t)
  BY <1>2, <1>4
<1>5. ASSUME NEW s \in Scopes(S, t), NEW u \in mine
      PROVE  u \in Scopes(S, t) <=> (u \in Elsewhere <=> s \in Elsewhere)
  <2>1. PICK n \in mine : newest(n) /\ (s \in Elsewhere <=> n \in Elsewhere)
    BY <1>2
  <2>2. u \in Scopes(S, t) <=>
          \E m \in mine : newest(m) /\ (u \in Elsewhere <=> m \in Elsewhere)
    BY <1>2
  <2>3. u \in Scopes(S, t) <=> (u \in Elsewhere <=> n \in Elsewhere)
    BY <1>3, <2>1, <2>2
  <2>. QED  BY <2>1, <2>3
<1>. QED  BY <1>2, <1>4, <1>5

LEMMA ConnectorFacts ==
    ASSUME NEW S \in SUBSET Sources, NEW t \in Types,
           NEW authenticated \in BOOLEAN, NEW default \in BOOLEAN
    PROVE  LET connector == Connector(S, t, authenticated, default)
           IN  /\ connector \in Connectors
               /\ connector.scopes = IF connector.refused THEN {} ELSE Scopes(S, t)
  BY DEF Connector, Connectors, Scopes

-----------------------------------------------------------------------------
\* Every variable of the connectors keeps its type.
THEOREM ConnectorTypeCorrect == ConnectorSpec => []ConnectorTypeOK
<1>. USE DEF ConnectorTypeOK
<1>1. ConnectorInit => ConnectorTypeOK
  <2> SUFFICES ASSUME ConnectorInit PROVE ConnectorTypeOK
    OBVIOUS
  <2>1. registry \in [Types -> Connectors]
    BY ConnectorFacts DEF ConnectorInit
  <2>2. change \in [Admins -> Changes]
    BY DEF ConnectorInit, Idle, Changes
  <2>3. search \in [Retrievals -> Searches]
    BY DEF ConnectorInit, NoSearch, Searches
  <2>4. changes \in 0 .. MaxChanges
    BY BoundAssumption DEF ConnectorInit
  <2>5. active \in SUBSET Sources /\ behind \in BOOLEAN
    BY DEF ConnectorInit
  <2>. QED  BY <2>1, <2>2, <2>3, <2>4, <2>5
<1>2. ConnectorTypeOK /\ [ConnectorNext]_connectorVars => ConnectorTypeOK'
  <2> SUFFICES ASSUME ConnectorTypeOK, [ConnectorNext]_connectorVars PROVE ConnectorTypeOK'
    OBVIOUS
  <2>1. ASSUME NEW a \in Admins, NEW s \in Sources, CommitSource(a, s) PROVE ConnectorTypeOK'
    <3>1. active' \in SUBSET Sources
      BY <2>1 DEF CommitSource
    <3>2. changes' \in 0 .. MaxChanges
      BY <2>1, BoundAssumption DEF CommitSource
    <3>3. change' \in [Admins -> Changes]
      BY <2>1 DEF CommitSource, Idle, Changes
    <3>. QED  BY <2>1, <3>1, <3>2, <3>3 DEF CommitSource
  <2>2. ASSUME NEW a \in Admins, ReadSources(a) \/ RebuildFails(a)
        PROVE  ConnectorTypeOK'
    <3>1. PICK c \in Changes : change' = [change EXCEPT ![a] = c]
      BY <2>2 DEF ReadSources, RebuildFails, Idle, Changes
    <3>2. change' \in [Admins -> Changes]
      BY <3>1
    <3>. QED  BY <2>2, <3>2 DEF ReadSources, RebuildFails
  <2>3. ASSUME NEW a \in Admins, Install(a) PROVE ConnectorTypeOK'
    <3>1. change[a].read \in SUBSET Sources /\ change[a].fresh \in BOOLEAN
      BY DEF Changes
    <3>2. PICK authenticated, default \in [Types -> BOOLEAN] :
            registry' = [t \in Types |-> Connector(change[a].read, t,
                                                        authenticated[t], default[t])]
      BY <2>3 DEF Install
    <3>3. registry' \in [Types -> Connectors]
      BY <3>1, <3>2, ConnectorFacts
    <3>4. change' \in [Admins -> Changes] /\ behind' \in BOOLEAN
      BY <2>3, <3>1 DEF Install, Idle, Changes
    <3>. QED  BY <2>3, <3>3, <3>4 DEF Install
  <2>4. ASSUME NEW r \in Retrievals, NEW plan \in SUBSET Types, Start(r, plan)
        PROVE  ConnectorTypeOK'
    <3>1. \A t \in Types : /\ registry[t].scopes \in SUBSET Sources
                           /\ Scopes(active, t) \in SUBSET Sources
      BY DEF Connectors, Scopes
    <3>2. AtRest \in BOOLEAN
      BY DEF AtRest
    <3>3. search'[r] \in Searches /\ search' = [search EXCEPT ![r] = search'[r]]
      BY <2>4, <3>1, <3>2 DEF Start, Searches
    <3>. QED  BY <2>4, <3>3 DEF Start
  <2>5. ASSUME NEW r \in Retrievals, NEW t \in Types, Answer(r, t) \/ Fail(r, t)
        PROVE  ConnectorTypeOK'
    <3>1. search[r].fetch \in [Types -> {"none", "waiting", "answered", "failed"}]
      BY DEF Searches
    <3>2. PICK answer \in {"answered", "failed"} :
            search' = [search EXCEPT ![r].fetch[t] = answer]
      BY <2>5 DEF Answer, Fail
    <3>. DEFINE fetch == [search[r].fetch EXCEPT ![t] = answer]
    <3>3. fetch \in [Types -> {"none", "waiting", "answered", "failed"}]
      BY <3>1, <3>2
    <3>4. search' = [search EXCEPT ![r] = [search[r] EXCEPT !.fetch = fetch]]
      BY <3>2
    <3>. HIDE DEF fetch
    <3>5. [search[r] EXCEPT !.fetch = fetch] \in Searches
      BY <3>3 DEF Searches
    <3>6. search' \in [Retrievals -> Searches]
      BY <3>4, <3>5
    <3>. QED  BY <2>5, <3>6 DEF Answer, Fail
  <2>6. ASSUME NEW r \in Retrievals, Gather(r) PROVE ConnectorTypeOK'
    <3>. DEFINE ended == [search[r] EXCEPT !.pc = "ended", !.items = Fetched(r),
                                           !.degraded = Planned(r) \ Fetched(r)]
    <3>1. Fetched(r) \in SUBSET Types /\ Planned(r) \in SUBSET Types
      BY DEF Fetched, Planned
    <3>2. ended \in Searches
      BY <3>1 DEF Searches
    <3>3. search' = [search EXCEPT ![r] = ended]
      BY <2>6 DEF Gather
    <3>4. search' \in [Retrievals -> Searches]
      BY <3>2, <3>3
    <3>. QED  BY <2>6, <3>4 DEF Gather
  <2>7. CASE UNCHANGED connectorVars
    BY <2>7 DEF connectorVars
  <2>. QED  BY <2>1, <2>2, <2>3, <2>4, <2>5, <2>6, <2>7 DEF ConnectorNext
<1>. QED  BY <1>1, <1>2, PTL DEF ConnectorSpec

-----------------------------------------------------------------------------
(* The registry.  A rebuild that is marked fresh has read the table as it  *)
(* is, so the one whose end puts the system to rest, if it did not fail    *)
(* and was not overtaken, has installed the connectors of the table.       *)

FreshRebuilds ==
    \A a \in Admins : change[a].pc = "read" /\ change[a].fresh => change[a].read = active

\* Each connector is one that a rebuild makes of the table as it is.
OfTheTable ==
    \A t \in Types : \E authenticated, default \in BOOLEAN :
        registry[t] = Connector(active, t, authenticated, default)

RegistryInv == FreshRebuilds /\ (AtRest => OfTheTable)

LEMMA RegistryInit ==
    ASSUME ConnectorInit
    PROVE  RegistryInv
<1>1. \A a \in Admins : change[a].pc = "idle"
  BY DEF ConnectorInit, Idle
<1>2. \A t \in Types : registry[t] = Connector(active, t, TRUE, TRUE)
  BY DEF ConnectorInit
<1>3. TRUE \in BOOLEAN
  OBVIOUS
<1>4. OfTheTable
  BY <1>2, <1>3 DEF OfTheTable
<1>. QED  BY <1>1, <1>4 DEF RegistryInv, FreshRebuilds

LEMMA RegistryStep ==
    ASSUME ConnectorTypeOK, RegistryInv, [ConnectorNext]_connectorVars
    PROVE  RegistryInv'
<1>. USE DEF RegistryInv
<1>1. ASSUME NEW a \in Admins, NEW s \in Sources, CommitSource(a, s) PROVE RegistryInv'
  <2>1. change'[a].pc = "committed" /\ \A x \in Admins : x # a => ~change'[x].fresh
    BY <1>1 DEF CommitSource, Idle, ConnectorTypeOK, Changes
  <2>2. FreshRebuilds'
    BY <2>1 DEF FreshRebuilds
  <2>3. ~AtRest'
    BY <2>1 DEF AtRest
  <2>. QED  BY <2>2, <2>3
<1>2. ASSUME NEW a \in Admins, ReadSources(a) PROVE RegistryInv'
  <2>1. /\ change'[a].pc = "read" /\ change'[a].read = active /\ active' = active
        /\ \A x \in Admins : x # a => change'[x] = change[x]
    BY <1>2 DEF ReadSources, ConnectorTypeOK
  <2>2. FreshRebuilds'
    BY <2>1 DEF FreshRebuilds
  <2>3. ~AtRest'
    BY <2>1 DEF AtRest
  <2>. QED  BY <2>2, <2>3
<1>3. ASSUME NEW a \in Admins, Install(a) PROVE RegistryInv'
  <2>1. PICK authenticated, default \in [Types -> BOOLEAN] :
          registry' = [t \in Types |-> Connector(change[a].read, t,
                                                 authenticated[t], default[t])]
    BY <1>3 DEF Install
  <2>2. /\ change'[a].pc = "idle" /\ active' = active /\ behind' = ~change[a].fresh
        /\ \A x \in Admins : x # a => change'[x] = change[x]
    BY <1>3 DEF Install, Idle, ConnectorTypeOK
  <2>3. FreshRebuilds'
    BY <2>2 DEF FreshRebuilds
  <2>4. ASSUME change[a].fresh PROVE OfTheTable'
    <3>1. change[a].read = active'
      BY <1>3, <2>2, <2>4 DEF FreshRebuilds, Install
    <3>2. \A t \in Types : authenticated[t] \in BOOLEAN /\ default[t] \in BOOLEAN
      OBVIOUS
    <3>3. \A t \in Types :
            registry'[t] = Connector(active', t, authenticated[t], default[t])
      BY <2>1, <3>1
    <3>. QED  BY <3>2, <3>3 DEF OfTheTable, Connector, Scopes
  <2>5. AtRest' => change[a].fresh
    BY <2>2 DEF AtRest
  <2>. QED  BY <2>3, <2>4, <2>5
<1>4. ASSUME NEW a \in Admins, RebuildFails(a) PROVE RegistryInv'
  <2>1. /\ change'[a].pc = "idle" /\ active' = active /\ behind'
        /\ \A x \in Admins : x # a => change'[x] = change[x]
    BY <1>4 DEF RebuildFails, Idle, ConnectorTypeOK
  <2>. QED  BY <2>1 DEF FreshRebuilds, AtRest
\* Retrievals leave the table, the rebuilds and the registry alone.
<1>5. ASSUME UNCHANGED <<active, change, registry, behind>> PROVE RegistryInv'
  <2>1. FreshRebuilds'
    BY <1>5 DEF FreshRebuilds
  <2>2. AtRest' => AtRest
    BY <1>5 DEF AtRest
  <2>3. OfTheTable => OfTheTable'
    <3>1. \A t \in Types : registry'[t] = registry[t]
      BY <1>5
    <3>2. active' = active
      BY <1>5
    <3>. QED  BY <3>1, <3>2 DEF OfTheTable
  <2>. QED  BY <2>1, <2>2, <2>3
<1>6. ASSUME NEW r \in Retrievals,
             \/ \E plan \in SUBSET Types : Start(r, plan)
             \/ \E t \in Types : Answer(r, t) \/ Fail(r, t)
             \/ Gather(r)
      PROVE  RegistryInv'
  <2>1. UNCHANGED <<active, change, registry, behind>>
    BY <1>6 DEF Start, Answer, Fail, Gather
  <2>. QED  BY <1>5, <2>1
<1>7. CASE UNCHANGED connectorVars
  BY <1>5, <1>7 DEF connectorVars
<1>. QED  BY <1>1, <1>2, <1>3, <1>4, <1>6, <1>7 DEF ConnectorNext

LEMMA RegistryAlways == ConnectorSpec => []RegistryInv
<1>1. ConnectorInit => RegistryInv
  BY RegistryInit
<1>2. ConnectorTypeOK /\ RegistryInv /\ [ConnectorNext]_connectorVars => RegistryInv'
  BY RegistryStep
<1>. QED  BY <1>1, <1>2, ConnectorTypeCorrect, PTL DEF ConnectorSpec

\* Whenever no change is under way, and the last rebuild neither failed nor
\* was overtaken by another change, every connector searches the newest
\* active source of its type and the sources that share its credentials,
\* however the rebuilds of any number of administrators have crossed.
THEOREM RegistryIsOfTheTable == ConnectorSpec => []RegistryFollowsTheSources
<1>1. ConnectorTypeOK /\ RegistryInv => RegistryFollowsTheSources
  <2> SUFFICES ASSUME ConnectorTypeOK, RegistryInv, AtRest, NEW t \in Types
               PROVE  LET mine  == {s \in active : TypeOf[s] = t}
                          found == registry[t].scopes
                      IN  IF registry[t].refused
                            THEN found = {}
                            ELSE /\ found \subseteq mine
                                 /\ \A s \in mine : (\A u \in mine : u <= s) => s \in found
                                 /\ \A s \in found, u \in mine :
                                      u \in found <=> (u \in Elsewhere <=> s \in Elsewhere)
    BY DEF RegistryFollowsTheSources
  <2>1. registry[t].scopes = IF registry[t].refused THEN {} ELSE Scopes(active, t)
    BY ConnectorFacts DEF RegistryInv, OfTheTable, ConnectorTypeOK
  <2>2. active \in SUBSET Sources
    BY DEF ConnectorTypeOK
  <2>. QED  BY <2>1, <2>2, ScopesAreOfOnePath
<1>. QED  BY <1>1, ConnectorTypeCorrect, RegistryAlways, PTL

-----------------------------------------------------------------------------
\* A retrieval that starts at rest searches the sources that were in the
\* table at that moment, and keeps to them whatever is installed under its
\* fetches: it has looked all its connectors up before the first one answers.
THEOREM ScopesAreKept == ConnectorSpec => []RetrievalsKeepTheirScopes
<1>. USE DEF RetrievalsKeepTheirScopes
<1>1. ConnectorInit => RetrievalsKeepTheirScopes
  BY DEF ConnectorInit, NoSearch
<1>2. /\ ConnectorTypeOK /\ RegistryInv /\ RetrievalsKeepTheirScopes
      /\ [ConnectorNext]_connectorVars
      => RetrievalsKeepTheirScopes'
  <2> SUFFICES ASSUME ConnectorTypeOK, RegistryInv, RetrievalsKeepTheirScopes,
                      [ConnectorNext]_connectorVars
               PROVE  RetrievalsKeepTheirScopes'
    OBVIOUS
  <2>0. search \in [Retrievals -> Searches]
    BY DEF ConnectorTypeOK
  <2>1. ASSUME NEW r \in Retrievals, NEW plan \in SUBSET Types, Start(r, plan)
        PROVE  RetrievalsKeepTheirScopes'
    <3>1. /\ search'[r].fit = AtRest
          /\ \A t \in Types :
               /\ search'[r].scopes[t] = IF t \in plan THEN registry[t].scopes ELSE {}
               /\ search'[r].then[t] = IF ~AtRest \/ t \notin plan \/ registry[t].refused
                                         THEN {} ELSE Scopes(active, t)
          /\ \A q \in Retrievals : q # r => search'[q] = search[q]
      BY <2>0, <2>1 DEF Start
    <3>2. ASSUME AtRest, NEW t \in Types
          PROVE  registry[t].scopes = IF registry[t].refused THEN {}
                                      ELSE Scopes(active, t)
      BY <3>2, ConnectorFacts DEF RegistryInv, OfTheTable, ConnectorTypeOK
    <3>3. search'[r].fit => \A t \in Types : search'[r].scopes[t] = search'[r].then[t]
      BY <3>1, <3>2
    <3>. QED  BY <3>1, <3>3
\* No other step touches what a retrieval searches.
  <2>2. ASSUME \A q \in Retrievals : /\ search'[q].fit = search[q].fit
                                     /\ search'[q].scopes = search[q].scopes
                                     /\ search'[q].then = search[q].then
        PROVE  RetrievalsKeepTheirScopes'
    BY <2>2
  <2>3. ASSUME NEW r \in Retrievals, NEW t \in Types, Answer(r, t) \/ Fail(r, t)
        PROVE  RetrievalsKeepTheirScopes'
    <3>1. \E answer : search' = [search EXCEPT ![r] =
                                   [search[r] EXCEPT !.fetch = answer]]
      BY <2>3, Zenon DEF Answer, Fail
    <3>. QED  BY <2>0, <2>2, <3>1 DEF Searches
  <2>4. ASSUME NEW r \in Retrievals, Gather(r)
        PROVE  RetrievalsKeepTheirScopes'
    BY <2>0, <2>2, <2>4 DEF Gather, Searches
  <2>5. CASE UNCHANGED search
    BY <2>2, <2>5
  <2>. QED  BY <2>1, <2>3, <2>4, <2>5
            DEF ConnectorNext, CommitSource, ReadSources, Install, RebuildFails,
                connectorVars
<1>. QED  BY <1>1, <1>2, ConnectorTypeCorrect, RegistryAlways, PTL DEF ConnectorSpec

\* What one connector has found is in the result of the retrieval, whatever
\* the others do, and a planned connector without items is reported.
THEOREM AnswersSurvive == ConnectorSpec => []AnswersSurviveFailures
<1>. USE DEF AnswersSurviveFailures, Planned
<1>1. ConnectorInit => AnswersSurviveFailures
  BY DEF ConnectorInit, NoSearch
<1>2. ConnectorTypeOK /\ AnswersSurviveFailures /\ [ConnectorNext]_connectorVars
      => AnswersSurviveFailures'
  <2> SUFFICES ASSUME ConnectorTypeOK, AnswersSurviveFailures, [ConnectorNext]_connectorVars
               PROVE  AnswersSurviveFailures'
    OBVIOUS
  <2>0. search \in [Retrievals -> Searches]
    BY DEF ConnectorTypeOK
  <2>1. ASSUME NEW r \in Retrievals, search'[r].pc = "fetching",
               \A q \in Retrievals : q # r => search'[q] = search[q]
        PROVE  AnswersSurviveFailures'
    BY <2>1
  <2>2. ASSUME NEW r \in Retrievals, NEW plan \in SUBSET Types, Start(r, plan)
        PROVE  AnswersSurviveFailures'
    <3>1. search'[r].pc = "fetching" /\ \A q \in Retrievals : q # r => search'[q] = search[q]
      BY <2>0, <2>2 DEF Start
    <3>. QED  BY <2>1, <3>1
  <2>3. ASSUME NEW r \in Retrievals, NEW t \in Types, Answer(r, t) \/ Fail(r, t)
        PROVE  AnswersSurviveFailures'
    <3>1. search[r].pc = "fetching"
      BY <2>3 DEF Answer, Fail, Waiting
    <3>2. \E answer : search' = [search EXCEPT ![r] =
                                   [search[r] EXCEPT !.fetch = answer]]
      BY <2>3, Zenon DEF Answer, Fail
    <3>3. search'[r].pc = "fetching" /\ \A q \in Retrievals : q # r => search'[q] = search[q]
      BY <2>0, <3>1, <3>2 DEF Searches
    <3>. QED  BY <2>1, <3>3
  <2>4. ASSUME NEW r \in Retrievals, Gather(r)
        PROVE  AnswersSurviveFailures'
    <3>1. /\ search'[r].fetch = search[r].fetch
          /\ search'[r].items = Fetched(r)
          /\ search'[r].degraded = Planned(r) \ Fetched(r)
          /\ \A q \in Retrievals : q # r => search'[q] = search[q]
      BY <2>0, <2>4 DEF Gather, Searches
    <3>. QED  BY <3>1 DEF Fetched
  <2>5. CASE UNCHANGED search
    BY <2>5
  <2>. QED  BY <2>2, <2>3, <2>4, <2>5
            DEF ConnectorNext, CommitSource, ReadSources, Install, RebuildFails,
                connectorVars
<1>. QED  BY <1>1, <1>2, ConnectorTypeCorrect, PTL DEF ConnectorSpec
=============================================================================
