# ContextIQ: a TLA+ verification project

ContextIQ is a Python service that answers developer prompts with vetted
context. An MCP gateway takes tool calls, an agent worker runs a LangGraph
pipeline (classify, retrieve, extend, scan, authorise, compress, route, answer),
and services around it index knowledge sources, manage governance policies and
keep traces. This directory holds TLA+ models of the parts whose behaviour
depends on order, overlap and failure, the TLC configurations that check them,
and TLAPS proofs of the main results. Paths below are relative to the
repository root; the Python code is in its `src/` directory, written `src/...`
here and `src/src/...` in `PROJECT.json`, which is relative to the directory
above the repository.

| Module | What it is |
|---|---|
| `AgentPipeline` | one session of the pipeline: the first run and overlapping clarification replies on one checkpointed thread |
| `MCAgentPipeline` | its TLC instances (symmetry of the replies) |
| `PipelineGate` | abstract: what a session promises to those it answers |
| `AgentPipelineProofs` | types; only vetted items are released; a session implements `PipelineGate` |
| `SyncJobs` | one knowledge source: scheduler, on-demand trigger, executor with retries, administrator |
| `PolicyLifecycle` | the versions of one policy group as overlapping transactions, and OPA |
| `PolicyRegister` | abstract: the version in force and the source OPA runs as one register |
| `PolicyLifecycleProofs` | types; only validated sources reach OPA; what holds in serial use; table and OPA implement `PolicyRegister` |
| `Indexing` | a group of consumers that index and delete the documents of one source in three stores |
| `IndexingProofs` | type correctness; rows list only what both stores hold |
| `AuditChain` | the admin audit log: requests, hash chain, pages, daily archive |
| `AuditChainProofs` | types; intact chains; broken ones stay broken; exact pages and archives |
| `TraceStore` | execution traces: detached writers, bucket, index row, replay and its cache |
| `TraceStoreProofs` | types; rows lead to objects; the last run is shown |
| `JobBoard` | abstract: what an installation job promises to whoever polls it |
| `ModelInstallation` | installation jobs, deletions, the registry's table, Ollama and Vault |
| `ModelRouting` | active models and weights, the model lists, the scored models, routed requests |
| `ModelRegistryProofs` | of `ModelInstallation`: types, the jobs implement `JobBoard`, installed models can be served; of `ModelRouting`: types, the caches follow the table, requests are routed close to their weights |
| `ConnectorRuntime` | sources, rebuilds of the connector registry, retrievals with concurrent fetches |
| `MCConnectorRuntime` | its TLC instance (types of the sources) |
| `KnowledgeSourceProofs` | of `SyncJobs`: types, jobs are closed, SYNCING is owed a final status, events come after the commit; of `ConnectorRuntime`: types, the registry follows the table, retrievals keep their scopes and their answers |
| `ModelFallback` | calls walking fallback chains, and the circuit breakers they share in Redis |
| `ModelFallbackProofs` | types; giving up means failures or open circuits; open circuits are earned |

`KnowledgeSourceProofs` and `ModelRegistryProofs` each extend two components that
are about the same table, which is why the definitions of `ConnectorRuntime` and
`ModelRouting` carry names of their own (`ConnectorSpec`, `RoutingSpec`).

## 1. Inventory

For each component: its state, its operations, whom it talks to, what is hard,
and what makes it correct.

**Agent pipeline** (`src/agents`, `src/governance/nodes`,
`src/knowledge_graph/nodes`, `src/audit/trace/writer_node.py`).
State: the `AgentState` channels of a run, checkpointed to Redis after every
node under the session's thread id with a TTL of one hour. Operations: one node
at a time; a node returns fields to merge, or raises, which
`with_error_handling` turns into `status = FAILED` and an error payload. Only two
edges look at the status. Called by `POST /v1/execute` in the agent worker and by
the gateway's `clarification_reply` tool on the thread of an earlier run. Hard: a
failed node is followed by others that overwrite the status; a reply starts from
whatever the checkpoint holds; replies overlap without a lock. Correct when: no
caller receives an item that did not pass the scan and OPA; the scan of a run
decides about that run; failures are named; every started run is answered.

**Connector dispatch and breaker** (`src/agents/retrieval`). State: the fetches
of a retrieval; a `pybreaker` breaker per connector and dispatcher. Operations:
`fetch_all` over the planned sources, each call with a timeout. Hard: connectors
fail or hang one by one; the registry is replaced under running fetches. Correct
when: what was found survives the failures of others; every planned connector is
reported; a retrieval ends.

**Context aggregation and token budget** (`src/agents/retrieval/aggregator.py`,
`token_truncator.py`, `src/agents/planning`). Pure. Correct when no source and
no sum exceeds its budget and the order is kept.

**Knowledge-source synchronisation** (`src/knowledge_sources`). State: the row of
a source (`is_active`, `status`, `document_count`, `last_sync_at`), the job rows,
and one database session per run. Operations: the scheduler's tick, the trigger
endpoint, the executor (load, authenticate, mark SYNCING, sync, commit, send the
event, retry, close), toggle, delete. Hard: two runs of one source, sessions that
keep what they loaded, retries around a commit, crashes. Correct when: jobs are
closed, statuses tell the truth, the count is the sum of the jobs, events follow
successes, runs end.

**Policy lifecycle** (`src/governance/policy`, `src/api/admin/routes/policies.py`).
State: rows of policy versions; what OPA holds in memory. Operations: create,
update, activate (validate, push, supersede the others, mark active), deactivate
(remove, mark superseded), delete. Hard: PostgreSQL and OPA are written one after
the other with no common transaction; calls overlap. Correct when: OPA runs only
what it has compiled, one version of a group is active, OPA runs that one.

**OPA bundle watch and preview** (`src/governance/opa/hot_reloader.py`,
`bundle_loader.py`, `src/governance/policy/preview_service.py`). A poller that
logs the bundle revision, a check at startup, and a dry run of a policy over
sample input. No state that the rest depends on.

**Model invoker** (`src/model_invoker`). State: per provider a sorted set of
failures and a state key in Redis; the place of each call in its chain.
Operations: models tried in order, success and failure recorded, the circuit
opened. Hard: the keys are shared by processes and written in several steps,
failures are stamped before they are counted, Redis fails too. Correct when: a
circuit opens only on failures in a row within the window and closes again; a call
gives up only when every candidate has failed or was skipped; an open provider is
skipped (it is not: see section 3).

**MCP gateway** (`src/gateway`). State: sessions of the MCP library, a JWKS
cache. Operations: authenticate, the builtin tools, `clarification_reply` in its own
process. The client of the agent worker, its token cache and its timeout exist
but are not reached: `register_tools_call_handler` is called without registry and
client (`src/gateway/mcp_server.py:41`).

**Retrieval engine and cache** (`src/retrieval`). Cache-aside hybrid search and its
invalidation by sync events. Not wired: no node obtains the engine, and
`SourceSyncEventConsumer` is never constructed.

**Indexing pipeline** (`src/indexing`). State: consumer offsets, Qdrant,
OpenSearch and the table `chunk_index`, one database session per worker.
Operations: index a source on a sync event, delete a document on a deletion
event. Hard: offsets are committed whatever became of the event, one of two
concurrent writes fails and the other goes on, several workers share a group.
Correct when: `chunk_index` lists only what both stores hold, a deleted document
is in no store, no event stalls the group, and applying one twice changes nothing.

**Connector SDK** (`src/connector_sdk`, `src/connectors`,
`src/knowledge_sources/runtime_connectors.py`). State: the installed registry of
connector instances. Operations: load from the environment, replace the defaults by
connectors for the active sources, install the new registry. Hard: two requests
rebuild at once, connectors cannot authenticate. Correct when: the registry is
that of the table whenever nothing is under way.

**Model registry and installation jobs** (`src/model_registry`). State: models,
job rows, tasks of the process, what Ollama has downloaded, credentials in
Vault. Operations: register, pull, install, activate, delete. Hard: a job does its
work and reports it in several systems and commits; a deletion undoes them in
another order; a restart loses the task and keeps the job. Correct when: a job
has one final status that tells the truth; an installed model can be served.

**Model router** (`src/model_router`, `src/agents/nodes/routing_node.py`). State:
the cached lists of active models, the cached scores per intent and weights.
Operations: route a request, change weights. Hard: caches are filled with what
was read before the change that deletes them. Correct when: a request is scored
with weights close to its own, and nothing stale stays.

**Tool registry** (`src/registry`). A table with a cache; no pipeline node reads it.

**Execution trace** (`src/audit/trace`, `src/audit/replay`). State: an object per
request with versions, an index row, a cache of replays. Operations: a
detached task writes object and row; replay reads row and object. Hard: the process
stops after the answer, several runs of one request write one row. Correct when: a
row leads to an object, and to that of the last run.

**Admin audit log** (`src/audit/admin_audit_log`). State: a hash chain of rows.
Operations: append (model registry and routing weights do), verify, list, archive.
Hard: the chain is ordered by timestamps that are taken before the latest row is
read; some changes are committed before their row. Correct when: the chain verifies
unless rows were changed; what the verification has reported stays reported; pages
and archive are complete.

**Frontend and deployment** (`frontend`, `helm`, `k8s`, `argocd`, `docker`).
No protocol logic of their own.

Interactions: the gateway calls the worker over HTTP and shares the Redis
checkpoints with it; the pipeline calls connectors, OPA, Neo4j and model
providers; sync sends `knowledge.source.synced`, which indexing consumes; the
policy API writes the policies that the pipeline's OPA filter is answered from;
the knowledge-source API rebuilds the registry that retrievals fetch through; the
model registry's table feeds the routing, whose chain the model invoker walks; the
last node of the pipeline dispatches the task that writes the trace.

## 2. The models

An action stands for the code between two points where another actor can
interfere: an `await` on the network, a commit, or the checkpoint between two
nodes. Variables marked `(history)` are not in the code: they record what a
property needs and no guard reads them. A definition whose comment begins
"Mutation of" is a faulty variant of the definition below it; it is used by no
specification and shows that the property it is paired with in `PROJECT.json`
can fail.

### AgentPipeline

| Model | Code |
|---|---|
| `First`, `Execute`, `Respond` | `execute` in `src/agent_worker/routers/execute.py` |
| `Replies`, `ReplyRead`, `ReplyStart` | `clarification_reply`: `aget_state`, then `ainvoke`, which loads the checkpoint a second time |
| `st[r]`, `Advance` | the channels of a run; merge of a node's output and checkpoint |
| `saved`, `ckpt`, `Expire` | the latest checkpoint of the thread in `TTLRedisSaver` |
| `Caught`, `Abort` | `with_error_handling`; what escapes it (terminal nodes, wrappers, a failed checkpoint write) |
| `IntentNode` ... `FailedTerminalNode` | the nodes of `build_graph`, one action each, with the conditional edges `RouteAfterIntent` and `RouteAfterGovernance` |
| `Crash` | the agent worker (first run) or the gateway (replies) stops |

Context items are model values of three kinds, because the code treats them
differently: connector chunks and workspace snippets carry their text in
`content`, graph items in `path_summary`, and only workspace snippets are added
without a budget, so only they can make compression reachable. `rankedObj` and
`compObj` say whether a list holds `RetrievedChunk` objects instead of dicts:
the nodes that call `.get()` raise on objects, and Redis returns either.
`inherited` says whether the context was retrieved by an earlier run: its budget was
that of another plan, so a reply whose own retrieval failed may exceed its own
with it (`MayExceedBudget`). Scores, prompts and models are choices.

Left out: `llm_metrics`, which only records; the wrappers for logs, spans and
state events; the compliance report and the governance summary.

`PipelineGate` is what a session promises without its nodes: a run is opened, vets
a set of items at most once, and is answered once, with items that some run has
vetted by then; or it is refused, or lost. The mapping (`Gate`) takes as vetted in
a run what both its scan and its OPA pass let through, and as received what is in
the response. Every node but `OpaFilterNode` is then a step that nobody outside
sees, which is not obvious of `GovernanceNode`: it must find nothing allowed yet.

### SyncJobs

`source` is the row, `job` the job rows, `mem[j]` the attributes that the session
of run `j` holds. The sessions are made with `expire_on_commit=False` and
SQLAlchemy writes a column only when its value in the session changes:
`Flushed` is exactly that, and `Commit` writes `mem[j].count + 1`. One run is
dispatched by the scheduler, one by the endpoint; a scheduled run creates its job
when it begins, an on-demand run has it from the start. `Emit` is inside the
retry loop, as in the code, and may deliver an event and still raise. The event that
`create_knowledge_source` sends without any sync
(`src/knowledge_sources/routers/knowledge_source_router.py:81`) is outside the
model, so `EventsFollowTheCommit` is about the executor's events. A database
error leaves the session unusable until its end, so it ends the run. A successful
sync counts one document.

### PolicyLifecycle

A call (activate, update, deactivate, delete) is a transaction at READ COMMITTED.
It reads its row once; the status checks of the service and of the repository are
on what was read, because a second `SELECT` in a session returns the same object
with the attributes read first. `Supersede` takes the snapshot of the `UPDATE`
over the other active versions and `Commit` applies all writes of the call. Row
locks between two writers order commits, which is what interleaving `Commit`
steps does. `Request` is a request to OPA that succeeds, or fails before or after
its effect; the service logs a failure and goes on. `slips` records whether calls
have overlapped, OPA has failed a request, a call has rolled back behind its
request, or OPA has restarted.

`PolicyRegister` has one register: the version in force with its source, and what
OPA runs. A call changes table and OPA at two moments; `InForce` maps it to the
moment of its request to OPA. From there to its commit the call is `Ahead` of the
table, and what is in force is what it is about to commit. The register promises
nothing once something has slipped.

The validator compiles the source under a transient package name and `Push` sends it
as it is: `ValidBodies` are the sources that compile so renamed, and one that
compiles only then is refused by OPA at the push, as `Request` allows.

Left out: the audit rows written in the same transaction; the status ROLLED_BACK, which nothing writes. A create
of a version that exists is refused by the unique constraint and changes nothing.

### Indexing

| Model | Code |
|---|---|
| `Take`, `Commit` | one turn of `IndexingConsumer.run`; a worker whose partition was given away (`fenced`) commits nothing |
| `Caught` | the `except` of `_handle_message`, after which the offset is committed |
| `Fetch`, `writes`, `WriteDone`, `WriteFails` | `run_for_source` up to and including its second `gather`: two requests under way at once, the first failure ends the handler and not the other request |
| `UpsertRows` | `ChunkRepository.upsert_batch` |
| `ListRows`, `DeleteVectors`, `DeleteKeywords`, `DeleteRows` | `DeletionHandler.handle`, with its early return when no rows are found |
| `DatabaseError`, `broken` | a failed statement on the one session of a worker, after which every statement fails |
| `Restart`, `Rebalance` | the process stops and starts; the group moves a partition during an event |
| `SendSynced`, `DeleteUpstream`, `Refresh` | the publishers of both topics (nothing in the repository publishes deletions) and the refresh of OpenSearch |

A chunk stands for a whole file and is a document and the number of the run that
made it, because `ChunkPayload` draws its id anew each time. Sync events carry no
key, so any order of delivery is possible. `slips` records what has disturbed the
plain course of events: an overlap, an unrefreshed index, a failure of either
handler, a crash or rebalance.

Left out: embedding; the creation of collections and the lookup of the connector,
which can only raise; `knowledge.chunk.indexed`, whose failure comes after
everything is written and changes nothing here; `delete_by_source`, which nothing
calls; a message that is not JSON, which would raise in the deserializer, outside
the handler, and end the consumer's loop (all that this repository publishes is
JSON). There is one source; two that share the ids of documents are not modelled.

### AuditChain

| Model | Code |
|---|---|
| `Handle` | the service call of an admin route, on tables of its own: committed before, with or without the row, or changing nothing at all |
| `Stamp`, `ReadLatest`, `Commit` | `AdminAuditRepository.log`: the timestamp, the latest row's hash, and the commit of the route |
| `Intact` | the verification in `hash_chain.py`, over `ORDER BY timestamp, id` |
| `ListPage` | `AuditLogQueryRepository.list_filtered` with its keyset cursor |
| `StartArchive`, `FetchBatch`, `Upload`, `ArchiveFails` | the cron job that archives yesterday's rows in offset batches |

A hash is the sequence of the fields it was made from, which is what taking
SHA-256 to be injective means; no two requests are alike in all fields, their
timestamp included. What a row says of the change it belongs to is not modelled: the
registry's routes log rows of changes that were not made and lose rows of changes
that were (section 3). Time is a clock; a request's timestamp is that of
its replica, up to `Skew` behind, and a row is committed at most `MaxAge` after
its stamp. `TimesAssumption` asks that both together are less than the two hours
between midnight and the job. The database refuses UPDATE and DELETE on the table,
so there are no such actions.

### TraceStore

`task[r]` is the detached task of a run: `WriteObject` and `UpsertIndex` are its
two writes, `LoseTask` the swallowed exception or the end of the process. A
request has one index row, however many runs it has. `Upserted` is the
`ON CONFLICT DO UPDATE`: `first` stands for the columns that stay those of the
first run (user, intent, model), `last` for those that are replaced. Until the API
process has enabled versioning, an object replaces the one before it. `Lookup`,
`ReadObject` and `FillCache` are the replay of a trace; `ExpireObject` is the
lifecycle rule, `ExpireCache` the time to live of the cached answer.

### JobBoard and ModelInstallation

`JobBoard` is the abstract specification of a job: posted, begun, worked on once,
then completed, or failed from anywhere before. `ModelInstallation` implements it
with `done <- installed`, the jobs whose registration is committed. `CreateJob` commits the
PENDING row and `StartTask` follows after the row has been read again, which may fail
or be cancelled (`RefreshFails`) and leaves the row without a task. `Prepare` is
what a job does before registering: check and pull the model, by a name that may
not be the registered one, or write its credentials to Vault, if the process has
a login there (`vaultOn`); without one it stores nothing and goes on. `row.ready`
records which of the two it was (`HasPrepared`). `StepFails` covers every exception of a step, the 409 of a model that is
registered already included, `MarkFailedRaises` the database failing on the last
update, `Crash` the end of the process. A deletion loads the row, removes the model
from Ollama, and deletes and commits the row, in this order. A commit either
takes effect or raises. Left out: the three progress updates, which change no
status, the detection of capabilities, and whether a model is active.

### ModelRouting

For one intent. `CommitChange` is a commit that changes the active models, with what
the same code deletes afterwards: everything (the admin routes), the admin list
(an installed Ollama model) or nothing (a hosted one). A routed request goes
through `PrimeList`, `ReadIntentRow`, `ReadGeneralRow`, `Select`, `SetScores` and
`BuildFallbackChain`, with a step between any two awaits; a listing of the admin API through `ListModels`
and `SetAdminList`. `fresh` is history: whether what a request holds or a cache
keeps was read from the table as it still is, by a change that deletes it. Scores
are abstracted to the models and the weights they come from.

The three weights of a row are one number here, in steps of `1/Unit`. A request
blends the row of its intent and the general row by its confidence (`Blend`), which
the two reads may have found at different times. The code rounds the blend to six
digits, far below the key; the model keeps it exact. The key of the scores is the
blend rounded to the `Grain` (three digits in the code, a coarser grain in the run),
and the scores are made from the unrounded blend, so requests with close
confidences or rows share scores. For a request whose intent is the general one
the code does not blend; the intent of the model is another one. The lists of active
models and of all models are one cache.

### ConnectorRuntime

The API process. `CommitSource` is a change of a source, `ReadSources` and `Install` the
rebuild of the registry that follows it in the same request: the connectors of
the environment are loaded, the sources listed, the connector of each type
authenticated with the credentials of its newest source, and the registry
replaced as a whole. `Start` is the lookup of all planned connectors at the
beginning of `fetch_all`, before its first await; `Answer` and `Fail` end a fetch,
`Gather` ends the retrieval. Left out: the workspace fallback of `retrieval_node`,
which runs after the result is complete, and the breakers (see section 3).

### ModelFallback

A step is what happens between two awaits; a Redis pipeline is a transaction. A
call is at a place in its chain: `Check` asks for the state key, `ModelAnswers`,
`ModelFails` and `ModelRaises` are the outcomes of the request to the model,
`RecordSuccess`, `RecordFailure` and `OpenCircuit` the three writes to Redis, any of
which may fail (`RedisFails`) or be cut off (`Crash`). A failure is stamped when
the model fails and counted when the pipeline runs. A model is its provider, since
nothing else of it decides a step. `RawState` keeps the type of what Redis
returns, because `IsAvailable` compares it. `log`, `cleared`, `late` and
`skipped` are history. All processes stamp by one clock: the code takes
`time.time()` of each worker, and skew between them, which would move failures in
and out of the windows, is not modelled. The check of `half_open` is left out: nothing ever writes that state.

## 3. What the runs show

TLC checks deadlock nowhere: a session, a set of sync runs, and bounded numbers
of calls, events and changes do end.

| Run | Instance | What it shows |
|---|---|---|
| `pipeline_session` | one reply; one item of each kind | failures are named, every started run is answered |
| `pipeline_overlap` | two replies; a workspace snippet | released items were vetted, a run's own gates decide; the session implements `PipelineGate` |
| `sync_overlap` | one scheduled and one on-demand run, one retry | jobs closed, SYNCING owed, events after the commit, runs end |
| `policy_overlap` | three calls on two versions, two good sources and one bad | OPA runs validated sources only; in serial use one version is active and is retired before deletion; table and OPA drift apart in four ways only, and until then implement `PolicyRegister` |
| `indexing_group` | two workers, one sync, one document, one crash or rebalance | rows are backed by both stores; an undisturbed deletion is complete; failing events do not stall the group |
| `audit_log` | three requests; days of two ticks; pages and batches of one row | the chain is intact in serial use; a mismatch that was found stays; pages and archive are exact |
| `trace_replay` | three runs of one request, two replays | rows lead to objects; serial runs are shown; a stale replay ends |
| `model_installation` | two jobs, two deletions, a local and a hosted model, a name without a row; with and without Vault | models whose job prepared them can be served; the jobs implement `JobBoard`; jobs end |
| `model_routing` | one model, two weights, two confidences, two requests, one administrator, two changes | caches follow the table; a request is scored by weights close to its own; stale entries end |
| `connector_refresh` | three sources of two types, two administrators, two changes, one retrieval | the registry follows the sources; a retrieval keeps its scopes, its answers and its end |
| `model_fallback` | two calls with chains of up to three models on two providers, two attempts, threshold two | circuits open on a streak only and close; giving up means failures or open circuits |

Where the types of a module are proved and another run is the better use of a
property (`indexing_group` and all runs below it in the table), TLC does not repeat
them.

Why these bounds are enough to meet the cases: two replies are the least that
can overlap, and a third run is needed to hand on a context compressed by the
second; one item of each kind meets every branch that tells items apart; two
sync runs overwrite each other's columns, and one retry gives a first, a
repeated and a last attempt; three calls let one activation supersede an active
version while another call works on it, and two versions and two good sources
tell a stale source from a current one; two workers handle a sync and a deletion
of the same document at once, or the same event twice after a rebalance. Three
audit rows are the least with a row between two others, and pages and batches of
one row make every boundary occur; the clock passes one whole day and the hour of
the job. Two runs of a request overlap and a third comes after them. Two jobs
install one model against two deletions of it, and a second row of a model tells
a deletion of the old row from one of the new. Two requests and an
administrator who changes something twice are the least whose fills and deletions
cross; two weights per row and two confidences give blends that are equal, that
share a key and that do not, and two changes can fall between the two reads of a
request. Two sources of one type, one of them with other credentials, tell which
is searched; a second type fails alone. Two calls that fail twice each pass the
threshold together or alone, and a clock of three ticks lets a window and a time to
live end. `MaxFaults`, `MaxRetries`, `Replies`, `Scheduled`, `OnDemand`, `Calls`,
`MaxClock`, `Horizon`, `MaxChain`, `MaxRows` and `MaxChanges` are bounds; the
theorems hold for all of their values.

One run refutes a statement of the repository. `model_open_circuit`:
`is_available` says that it returns False for an open circuit
(`src/model_invoker/circuit_breaker.py:48`), but compares the state with
`b"open"` while the application's client decodes to text
(`src/data/redis_client.py:45`). No call is ever kept from a provider whose
circuit is open. The unit tests use a fake client that does not decode. When the
comparison is repaired (`RawState` compared with the text `open`),
`OpenCircuitIsSkipped` holds, and so do all properties of `model_fallback` and their
proofs: `GivingUpMeansFailures` allows a candidate to be skipped, as the docstring of
`FallbackInvoker.invoke` does (`src/model_invoker/fallback_invoker.py:47`).

Some safety properties are about the plain course only: `SerialChainIsIntact`,
`OneActiveInSerialUse`, `ActiveIsRetiredFirst`, `OpaFollowsTheTable`,
`DeletionIsComplete`, `SerialRunsAreShown`, `RegistryFollowsTheSources`. What the
code does when something disturbs that course is often wrong and never repaired; the
models reach it and record it in `slips`, and the hazards in `PROJECT.json` say
which of them no property catches.

The models reach other situations that a maintainer should know of and that no
run singles out.

* Pipeline. Most edges of the graph are unconditional, so nodes run after a
  failure although `with_error_handling` says they are never executed
  (`src/agents/nodes/base.py:62`); `ReleasedWasVetted` holds all the same. A
  scan timeout empties `ranked_context` to keep it from the model
  (`src/governance/nodes/governance_node.py:99`), but routing prefers
  `compressed_context`, which a reply inherits: it answers with what an earlier
  reply had compressed and vetted. A compressed context reaches the trace writer
  as objects, on which `_map_chunks` raises, before the task whose failures are
  said never to fail the response (`src/audit/trace/writer_node.py:107`). The
  scan reads `item["text"]` while connector and workspace items carry `content`
  and graph items `path_summary`, so what the redactor should redact is not
  found. A reply whose second pass fails is answered with the first question again.
* Sync. `document_count` grows by what a run counted on the value it loaded: a
  repeated commit counts twice, and of two overlapping runs one update is lost
  (`src/tests/knowledge_sources/test_sync_executor.py:232` says otherwise for one
  run). A source deactivated during a sync ends ACTIVE, and after a crash a source
  stays SYNCING (the `lost` case of `SyncingIsOwed`). A sync may end FAILED with
  its event delivered, because a send may raise after delivery inside the retry
  loop.
* Policies. Two overlapping activations leave two active versions, although
  `src/governance/policy/models.py:5` promises one: `set_active` takes no lock on
  the group. An update that read a draft may replace the source of a version while
  it is being activated, by one that OPA rejects. A delete that read a draft
  removes a version that another call has activated since. A failed push leaves
  a version ACTIVE that OPA does not run, and a failed removal leaves OPA running a
  retired one (the `opa` case of `OpaFollowsTheTable`).
* Indexing. A deletion that failed halfway is committed and not delivered again
  (`src/indexing/stores/deletion_handler.py:24` counts on it), and every sync
  stores each document once more, since chunk ids are drawn anew
  (`src/indexing/repositories/chunk_repository.py:24` says idempotent). A worker
  whose database statement failed once fails every later event at its first
  statement, since nothing rolls its session back, and commits it all the same; a
  deletion that finds no rows, because those of a sync failed, leaves the chunks
  in both stores; one that follows a sync within a second misses the chunks that
  OpenSearch has not refreshed.
* Audit log. Two requests at once, or a clock that is behind, break the chain
  without anyone having touched a row. A change of the model registry may be
  committed without its row, although `src/audit/admin_audit_log/context.py:10`
  speaks of one commit; and some rows tell of no change: a PATCH to the status that
  the model has already is logged with a `before_state` that is made up
  (`src/model_registry/routers/model_router.py:154`), and a pull that ends as
  failed is logged as MODEL_REGISTERED (`model_router.py:235`).
* Traces. The row of a request with several runs keeps user, intent and model of
  the first. A replay cached before a later run shows the old trace until its
  time to live ends. Rows outlive their objects.
* Model registry. A crash leaves a job PENDING or RUNNING for good, and so does an
  error or cancellation between the commit of a new job and its task
  (`src/model_registry/services/installation_job_service.py:55`). Without a Vault
  login the credentials of a hosted model are not stored, and it is registered and
  active all the same (`src/model_registry/services/model_registry_service.py:182`);
  a request may download one Ollama model and register another
  (`installation_job_service.py:179` and `239`). A job for a
  hosted model that ends with 409 has replaced the credentials of the registered
  one. A deletion that breaks off after its first step leaves a registered model
  that Ollama does not have.
* Routing. A hosted model that is installed reaches the routing when the cached
  lists expire, and no sooner; a fill that crosses a deletion brings the old list
  back for one time to live. When the scores have gone between selection and chain,
  the chain is scored with the default weights, and cached under the key of the
  others. Which of two requests with close weights decides the scores of both is a
  matter of who came first.
* Connectors. The rebuild that read first may install last: the registry is then
  behind the table until the next change. Only the API process refreshes; the
  worker and the gateway keep the registry they started with.
  `src/agents/retrieval/connector_circuit_breaker.py:4` promises breakers that
  shed load across requests, but `retrieval_node` builds a dispatcher, and with
  it breakers, per request, and each sees one fetch.
* Model calls. A Redis error after a successful call is handled as an error of
  the model: the answer is lost. The state key is set after the window was counted,
  so a circuit may be opened behind a success that emptied the window.

Fairness: `pipeline_session` and `sync_overlap` assume weak fairness of each
run's own steps and of nothing else; `indexing_group` of each worker's handler,
of the answers of the stores and of a polling worker being given an event;
`model_installation` of each job's own steps; `model_fallback` of each call's own
steps and of time; `connector_refresh` of the timeout of a fetch and of the
gathering of the results, and not of answers; `trace_replay` and `model_routing`
only of the times to live in Redis. It is justified because a run, a job or a call
is one coroutine whose awaits all end: the nodes' external calls, the connectors,
the calls to models, Ollama, Vault and OPA have timeouts, the backoff between
attempts is finite, and Redis removes keys that have expired. Crashes, the expiry
of a checkpoint, replies, cron times, changes and the administrator are not fair.
Under a crash a run ends as lost, which the liveness properties count as an end.

## 4. What is proved

The theorems hold for every value of the constants under the named assumptions of
the modules: which sets are disjoint, what the numbers are, and, for `AuditChain`,
that rows are committed before the archive job of their day starts. Each main
result rests on a strengthening of the property that is inductive; TLC checked it
on the same instances before it was proved.

* Type correctness: `TypeCorrect`, `SyncTypeCorrect`, `PolicyTypeCorrect`,
  `IndexTypeCorrect`, `LogTypeCorrect`, `TraceTypeCorrect`,
  `InstallationTypeCorrect`, `FallbackTypeCorrect`, `ConnectorTypeCorrect`,
  `RoutingTypeCorrect`. They say a little more than
  types: every edge of the graph leads to a node, no run makes more than
  `MaxRetries + 1` attempts, no overlap revives a deleted policy row (this one
  needs `UpdateHasSource`), only published events are committed, no two audit
  rows share an id, a call that walks a chain is at a model of it.
* `OnlyVettedIsReleased`: no caller receives an item that did not pass a completed
  scan and OPA in the session. The property is not inductive, since an answer comes
  from channels that another run may have written. `VettedInv` adds that the
  checkpoint and every run carry only vetted compressed contexts and responses;
  that a context in front of OPA whose status is not FAILED was scanned in this
  run; that behind OPA it is vetted in this run; and that before OPA nothing is
  recorded as allowed, so no scan takes a vetting back. What matters is that
  `opa_filter` passes the status on and its edge looks at it.
* `RunsOwnGatesDecide`: by `OwnInv`, on top of `VettedInv`. Channels travel from run
  to run, so it says from when on a run can be their author: of a compressed
  context behind the compression node, of a response behind the routing node, in
  any run and in the checkpoint. A scan that timed out has emptied the context
  (`TimeoutEmpties`), an empty context is never over budget, and so such a run
  reaches the routing node with nothing of its own to release.
* `FailuresAreNamed`: by `NamedInv`. The error payload outlives the run that wrote
  it; the failed status that `opa_filter` passes on can only be that of the
  governance node just before it, which overwrote both.
* `SessionIsAGate`: the refinement of `PipelineGate`, from the types, `VettedInv`
  and `Silent` (a run that is not done has answered nothing). The mapped state is
  blind to most of what a step does: `UnseenAdvance` says so of a checkpoint that
  keeps a run open and records nothing, and covers eight of the nodes and the
  replies. The work is in the rest: the scan (nothing is allowed yet, so it vets
  nothing), the OPA filter (the one step that vets), and the answers
  (`AnswerReleases`), whose items `VettedInv` knows to be vetted.
* `JobsAreClosed`: by the invariant `JobsInv`, which follows when a job row exists
  and what a run behind its commit has done to it.
* `SyncingIsAlwaysOwed`: the property is inductive with the types. The argument is
  about sessions: a run that does not write a status holds that status already.
* `EventsComeAfterTheCommit`: an action property, by `EmitInv`: a run that is about
  to publish has a job that says SUCCEEDED, or that a deletion of the source has
  taken away, at every attempt.
* `OnlyValidatedIsPushed`: with `Validated`, what a call is about to push is what
  it validated.
* `SerialUseHasOneActive`, `SerialUseRetiresFirst`: by `SerialInv`. Until the first
  overlap at most one call is under way and what it read is still true when it
  commits.
* `OpaKeepsUp`: by `OpaInv`, on top of `SerialInv`. As long as nothing has slipped
  the lone call accounts for the difference between table and OPA: before its
  request there is none, after it OPA already runs what the commit is about to make
  true (`Ahead`), and a rollback in that position is one of the slips.
* `GroupIsARegister`: the refinement of `PolicyRegister`, from `OpaInv`, `SerialInv`
  and `Validated`. Until something slips there is at most one call, so what is in
  force is either what that call is ahead with (`InForceOfCall`) or the active row
  (`InForceAtRest`). `RegisterStep` goes through the actions: the request to OPA is
  the step of the register; a commit makes the table say what was in force already
  (`CommitFacts`); a request that fails, a rollback behind it and a restart of OPA
  are slips.
* `RowsAreAlwaysBacked`: the invariant `BackedInv` follows a run: while its handler
  waits, each store holds the chunks of the run or has a request for them under
  way; when it is about to write the rows, both hold them. Deletions take nothing
  that is listed, because they concern documents whose deletion was announced.
* `DeletionsAreComplete`: by `SoloInv`: as long as nothing has slipped, nothing is
  under way (`Quiet`) or the event of one worker is (`Alone`), and what the stores
  hold beyond the rows is what that worker's run is about to list. `Course` follows
  a deletion store by store; what is committed as deleted stays gone, because a run
  fetches only what is upstream (`BackedInv`).
* `SerialChainsAreIntact`: by `ChainInv`: until something slips, one request at a
  time holds a timestamp, later than every row, and the row it has read is still
  the latest; so it is appended at the end of the order in which the chain is
  verified.
* `MismatchesRemain`: whatever requests overlap. By `LinkInv`: what a committed row
  was chained to, and what a request that is about to commit has read, is the hash
  of a committed row or the genesis hash (`Known`), and no two rows have the same
  hash. So a row that verifies in the larger log follows there on a row that was
  committed when its link was read; that one is in the smaller log, and what lies
  between the two there would lie between them in the larger one (`GapsStay`). It
  would be false if a request could read a row that is flushed and not committed.
* `PagesAreExact`: what the reader has got lies behind the cursor, and what is
  still due before it (`PageInv`); the lemmas `FirstRow` and `LastRow` find the ends
  of a finite set of rows, and `PageFacts` says what a page is.
* `ArchivesAreExact`: by `ArchiveInv`: when a job reads a day, the day is closed
  (`DayIsClosed`): no request can still commit a row of it, so the rows fetched
  are those with fewer than `offset` rows before them (`LowFacts`, `BatchFacts`).
* `RowsLeadToObjects`: by `BackedInv` of the traces: a version id that a task,
  the row or a replay holds names an object that was written, and as long as the
  bucket keeps no versions there is no version id. `TheLastRunIsShown`: by
  `SerialInv`: at most one task of the request is pending, and the last object is
  the one it has stored or the one the row shows.
* `JobsKeepTheBoard`: the refinement. `StatusFollowsTask` ties the status of a job
  and its membership in `installed` to the step of its task; with it each of
  the steps maps to a step of `JobBoard` or leaves it alone (`StepOfTheBoard`).
* `InstalledModelsServed`: with `PreparedIsServed`: a job about to register a model
  that it has downloaded under its name, or whose credentials it has stored, has it on
  the server or in the Vault, or a deletion came between.
* `RoutesFollowTheTable`: by `CachesInv`. What a request has in hand is marked fresh
  only while it is what the table holds (`HandsInv`), so what enters a cache as
  fresh is right at that moment; a change makes stale, in hands and caches, what it
  will not delete itself, and what it will delete stays excused until it has.
* `RequestsAreRoutedCloseToTheirWeights`: by `WeightsInv`: scores lie under the key of
  the weights they were made with, except where a request that had lost its scores
  refilled its key with the built-in ones; and two numbers that round to the same
  third decimal differ by less than one in it, for any `Grain`.
* `RegistryIsOfTheTable`: by `RegistryInv`: a rebuild that is still fresh has read
  the table as it is (`FreshRebuilds`), and at rest every connector is one that a
  rebuild makes of the table (`OfTheTable`). `ScopesAreOfOnePath` says what such a
  connector searches, for any set of numbered sources.
* `ScopesAreKept`, `AnswersSurvive`: a retrieval holds the connectors it looked up
  at its start, which at rest are those of the table (`RegistryInv`), and each fetch
  writes only its own outcome.
* `GivingUpIsJustified`: by `WalkInv`: every model a call has left behind has failed it
  or was found with its state key set. `Passed` says so of a step along the chain and
  `LeavingAModel` of the steps that take it; neither depends on how the state is
  compared, so the proof holds for the repaired code as well.
* `OpenCircuitsAreEarned`: by `EarnedInv`: the members of the sorted set are
  recorded failures since the last success, and whoever is about to open a circuit
  has counted enough of them within one window.

Every safety property that a passing run checks, action properties and refinements
included, is a theorem. Only the liveness properties are model-checked and not
proved: `StartedRunsAreAnswered`, `RunsEnd`, `EventsAreCommitted`, `StaleReplayEnds`,
`JobsEnd`, `StaleRoutesEnd`, `RetrievalsEnd` and `OpenCircuitsClose`. Liveness under
fairness and ENABLED are beyond the prover, as is induction over data. The one
refuted property, `OpenCircuitIsSkipped`, has its counterexample from TLC.

## 5. Not modelled

* Code that no execution reaches: the gateway's client of the agent worker with
  its token cache and breaker, `CachedHybridSearchEngine` and the sync event
  consumer of its cache, the gateway's tool list cache, and
  `connector_registry.py` and `connector_loader.py` in `src/agents/retrieval`. A
  model of it would describe no behaviour of the system. They are the first to
  model when they are wired; what to look at then: a gateway that gives up after
  five seconds on a run that goes on, an invalidation between a search and the
  write of its result, and a topic name that differs from the one sync sends to.
* Parsing, framing and cryptography of the gateway, the requests of connectors,
  the queries of stores, prompts, regular expressions and scores. They have no
  protocol state of their own. Ranking, truncation and budgets are arithmetic over
  one list; only the bound that decides about compression is in `AgentPipeline`.
* The health poller, which watches the gateway's registry that nothing else
  refreshes; the preview of policies and the bundle poller, which only log or
  answer; the tool registry, which nothing in the pipeline reads.
* The frontend, deployment files, scripts and documents.

Worth adding next: `ConnectorRuntime` as an implementation of a registry that
retrievals read and administrators replace in one step, and `Indexing` as one of a
table of documents that a sync fills and a deletion empties.
