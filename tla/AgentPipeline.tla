--------------------------- MODULE AgentPipeline ---------------------------
(***************************************************************************)
(* One session of the LangGraph agent pipeline: the first run, started by  *)
(* the agent worker's execute endpoint, and the runs started by the        *)
(* gateway's clarification_reply tool on the same LangGraph thread.        *)
(*                                                                         *)
(* A run keeps the AgentState channels in memory and writes them to the    *)
(* thread's checkpoint after every node.  A reply starts from the          *)
(* checkpoint, with the handful of fields that clarification_reply resets. *)
(* Replies may overlap (the tool takes no lock), a process may crash, an   *)
(* exception may escape a run, and the checkpoint expires after its TTL.   *)
(*                                                                         *)
(* Prompts, models and scores are left out.  Context items are members of  *)
(* three sets: chunks served by connectors, chunks of the workspace        *)
(* fallback and knowledge-graph items.                                     *)
(***************************************************************************)
EXTENDS Naturals

CONSTANTS
    First,       \* the run started by POST /v1/execute
    Replies,     \* the clarification_reply calls of the session
    ConnChunks,  \* chunks that connectors may return
    WsChunks,    \* chunks that the local workspace fallback may return
    GraphItems,  \* items that the graph traversal may return
    Sensitive,   \* items whose body matches a critical or high pattern
    NoRun        \* "no run": nothing compressed, nothing answered yet

Runs  == {First} \cup Replies
Items == ConnChunks \cup WsChunks \cup GraphItems

ASSUME RunAssumption == First \notin Replies /\ NoRun \notin Runs
ASSUME ItemAssumption ==
    /\ ConnChunks \cap WsChunks = {}
    /\ (ConnChunks \cup WsChunks) \cap GraphItems = {}
    /\ Sensitive \subseteq Items

-----------------------------------------------------------------------------
(* ExecutionStatus and the nodes of the compiled graph.                    *)

Status == {"pending", "running", "complete", "failed"}

Nodes == {"intent_agent", "retrieval_agent", "knowledge_graph",
          "governance_agent", "opa_filter", "compression_agent",
          "routing_agent", "llm_response_agent"}

TerminalNodes == {"clarification_response", "pipeline_failed", "trace_writer"}

(* The fields of AgentState that control or carry content.                 *)
(*   error       failed node named by the last error payload, or "none"    *)
(*   asked       clarification_question is present                         *)
(*   inherited   ranked_context was last retrieved by an earlier run, under  *)
(*               the budget of that run's plan                              *)
(*   rankedObj   ranked_context holds RetrievedChunk objects, not dicts    *)
(*   compObj     compressed_context holds RetrievedChunk objects           *)
(*   compBy      (history) the run that wrote compressed_context           *)
(*   redacted    the items whose body was replaced by placeholders         *)
(*   model       selected_model is set                                     *)
(*   resp        final_response; by (history) is the run that wrote it     *)
Response == [kind: {"none", "question", "package", "answer"},
             ctx: SUBSET Items, blocked: BOOLEAN, by: Runs \cup {NoRun}]

AgentState == [status: Status, error: Nodes \cup {"none"}, round: {0, 1},
               asked: BOOLEAN, ranked: SUBSET Items, inherited: BOOLEAN,
               rankedObj: BOOLEAN,
               compressed: SUBSET Items, compObj: BOOLEAN,
               compBy: Runs \cup {NoRun}, redacted: SUBSET Items,
               blocked: BOOLEAN, model: BOOLEAN, resp: Response]

NoResponse == [kind |-> "none", ctx |-> {}, blocked |-> FALSE, by |-> NoRun]

\* initial_state of execute: every field None, status PENDING.
InitialState ==
    [status |-> "pending", error |-> "none", round |-> 0, asked |-> FALSE,
     ranked |-> {}, inherited |-> FALSE, rankedObj |-> FALSE, compressed |-> {}, compObj |-> FALSE,
     compBy |-> NoRun, redacted |-> {}, blocked |-> FALSE, model |-> FALSE,
     resp |-> NoResponse]

VARIABLES
    pc,       \* pc[r]: the node run r executes next, or "idle"/"resume"/"end"/"done"
    st,       \* st[r]: the channels of run r
    saved,    \* the thread has a checkpoint that can still be resumed
    ckpt,     \* its channel values
    answer,   \* answer[r]: what the caller of run r received
    scanned,  \* (history) scanned[r]: items the governance scan let through in r
    allowed   \* (history) allowed[r]: items OPA allowed in r

vars == <<pc, st, saved, ckpt, answer, scanned, allowed>>
history == <<scanned, allowed>>

NoAnswer == [kind |-> "none", resp |-> NoResponse]
Answers  == [kind: {"none", "success", "error", "lost"}, resp: Response]

PCs == {"idle", "resume", "end", "done"} \cup Nodes \cup TerminalNodes

InFlight(r) == pc[r] \notin {"idle", "done"}

Init ==
    /\ pc = [r \in Runs |-> "idle"]
    /\ st = [r \in Runs |-> InitialState]
    /\ saved = FALSE
    /\ ckpt = InitialState
    /\ answer = [r \in Runs |-> NoAnswer]
    /\ scanned = [r \in Runs |-> {}]
    /\ allowed = [r \in Runs |-> {}]

-----------------------------------------------------------------------------
(* Building blocks of a node step.                                         *)

\* A node's output is merged into the channels and checkpointed.
Advance(r, s, next) ==
    /\ st' = [st EXCEPT ![r] = s]
    /\ ckpt' = s
    /\ saved' = TRUE
    /\ pc' = [pc EXCEPT ![r] = next]
    /\ UNCHANGED answer

\* Mutation of Caught: the error payload is left out.
CaughtWithoutPayload(r, node) == [st[r] EXCEPT !.status = "failed"]

\* with_error_handling: any exception becomes {status: FAILED, error}.
Caught(r, node) == [st[r] EXCEPT !.status = "failed", !.error = node]

Answer(r, kind, resp) ==
    /\ answer' = [answer EXCEPT ![r] = [kind |-> kind, resp |-> resp]]
    /\ pc' = [pc EXCEPT ![r] = "done"]

\* Mutation of RouteAfterIntent: at the cap the prompt is classified again.
RouteAfterIntentRetries(s, lowConfidence) ==
    IF s.status = "failed" THEN "pipeline_failed"
    ELSE IF ~lowConfidence THEN "retrieval_agent"
    ELSE IF s.round = 0 THEN "clarification_response" ELSE "intent_agent"

\* A question is asked at most once per session (MAX_CLARIFICATION_ROUNDS = 1).
RouteAfterIntent(s, lowConfidence) ==
    IF s.status = "failed" THEN "pipeline_failed"
    ELSE IF lowConfidence /\ s.round = 0 THEN "clarification_response"
    ELSE "retrieval_agent"

\* The aggregator and the traversal both stop at the plan's token budget, so
\* only unbudgeted workspace snippets can push the context over it, or a
\* context that a failed retrieval left from a run with another plan.
MayExceedBudget(s) == s.ranked \cap WsChunks # {} \/ (s.inherited /\ s.ranked # {})

\* Mutations of RouteAfterGovernance: the status is not looked at; the edge
\* label is returned instead of the node.
RouteAfterGovernanceIgnoringStatus(s, over) ==
    IF over THEN "compression_agent" ELSE "routing_agent"

RouteAfterGovernanceByLabel(s, over) ==
    IF s.status = "failed" THEN "failed"
    ELSE IF over THEN "compression_agent"
    ELSE "routing_agent"

RouteAfterGovernance(s, over) ==
    IF s.status = "failed" THEN "pipeline_failed"
    ELSE IF over THEN "compression_agent"
    ELSE "routing_agent"

-----------------------------------------------------------------------------
(* Starting a run.                                                         *)

Execute(r) ==
    /\ r = First
    /\ pc[r] = "idle"
    /\ Advance(r, InitialState, "intent_agent")
    /\ UNCHANGED history

\* clarification_reply reads the thread first: aget_state never returns None,
\* so a missing session or question surfaces as a KeyError.
ReplyRead(r) ==
    /\ r \in Replies
    /\ pc[r] = "idle"
    /\ pc[First] # "idle"
    /\ IF saved /\ ckpt.asked
         THEN pc' = [pc EXCEPT ![r] = "resume"] /\ UNCHANGED answer
         ELSE Answer(r, "error", NoResponse)
    /\ UNCHANGED <<st, saved, ckpt, history>>

\* ainvoke loads the latest checkpoint again and merges resume_state into it.
\* Objects come back from Redis as objects or as plain dicts.  Without a
\* checkpoint only resume_state is there and the first wrapper raises KeyError.
ReplyStart(r) ==
    /\ pc[r] = "resume"
    /\ \/ /\ saved
          /\ \E revived \in BOOLEAN :
               Advance(r, [ckpt EXCEPT !.round = 1, !.status = "pending",
                                       !.inherited = ckpt.ranked # {},
                                       !.rankedObj = @ /\ revived,
                                       !.compObj = @ /\ revived],
                       "intent_agent")
       \/ /\ ~saved
          /\ Answer(r, "error", NoResponse)
          /\ UNCHANGED <<st, saved, ckpt>>
    /\ UNCHANGED history

-----------------------------------------------------------------------------
(* The nodes.  Each is wrapped by with_error_handling, except the terminal *)
(* ones.                                                                   *)

IntentNode(r) ==
    /\ pc[r] = "intent_agent"
    /\ \/ \E low \in BOOLEAN :
            LET s == [st[r] EXCEPT !.status = "running"]
            IN  Advance(r, s, RouteAfterIntent(s, low))
       \/ Advance(r, Caught(r, "intent_agent"), "pipeline_failed")
    /\ UNCHANGED history

\* Connector chunks, or workspace matches when there are none.
RetrievalNode(r) ==
    /\ pc[r] = "retrieval_agent"
    /\ \/ \E found \in (SUBSET ConnChunks \ {{}}) \cup SUBSET WsChunks :
            Advance(r, [st[r] EXCEPT !.status = "running", !.ranked = found,
                                     !.inherited = FALSE, !.rankedObj = FALSE],
                    "knowledge_graph")
       \/ Advance(r, Caught(r, "retrieval_agent"), "knowledge_graph")
    /\ UNCHANGED history

\* Every node that calls .get() on the items raises on RetrievedChunk objects.
Unreadable(s) == s.rankedObj /\ s.ranked # {}

\* Appends graph items; the status is passed through.  Nothing is appended
\* without seeds, without budget or when the traversal times out.
KnowledgeGraphNode(r) ==
    /\ pc[r] = "knowledge_graph"
    /\ \/ /\ ~Unreadable(st[r])
          /\ \E found \in IF st[r].ranked = {} THEN {{}} ELSE SUBSET GraphItems :
               Advance(r, [st[r] EXCEPT !.ranked = @ \cup found,
                                        !.rankedObj = FALSE],
                       "governance_agent")
       \/ Advance(r, Caught(r, "knowledge_graph"), "governance_agent")
    /\ UNCHANGED history

\* The detector and the redactor read the "text" field of an item; connector
\* and workspace chunks carry "content", graph items carry "path_summary".
ScannedField == "text"
BodyField(i) == IF i \in GraphItems THEN "path_summary" ELSE "content"
Findings(ctx) == {i \in ctx \cap Sensitive : BodyField(i) = ScannedField}

\* On a scan timeout the context is emptied and governance_blocked is set.
\* The role is not an AgentState field, so RBAC always validates ADMIN.
GovernanceNode(r) ==
    /\ pc[r] = "governance_agent"
    /\ \/ /\ ~Unreadable(st[r])
          /\ st[r].ranked # {}
          /\ Advance(r, [st[r] EXCEPT !.status = "running", !.ranked = {},
                                      !.blocked = TRUE],
                     "opa_filter")
          /\ UNCHANGED scanned
       \/ /\ ~Unreadable(st[r])
          /\ Advance(r, [st[r] EXCEPT !.status = "running", !.blocked = FALSE,
                                      !.redacted = @ \cup Findings(st[r].ranked)],
                     "opa_filter")
          /\ scanned' = [scanned EXCEPT ![r] = st[r].ranked]
       \/ /\ Advance(r, Caught(r, "governance_agent"), "opa_filter")
          /\ UNCHANGED scanned
    /\ UNCHANGED allowed

\* Drops the denied items and passes the status through; an empty context is
\* not sent to OPA, and any evaluation error fails the node.
OpaFilterNode(r) ==
    /\ pc[r] = "opa_filter"
    /\ \/ /\ st[r].ranked = {}
          /\ Advance(r, st[r], RouteAfterGovernance(st[r], FALSE))
          /\ UNCHANGED allowed
       \/ /\ st[r].ranked # {}
          /\ ~Unreadable(st[r])
          /\ \E kept \in SUBSET st[r].ranked, over \in BOOLEAN :
               LET s == [st[r] EXCEPT !.ranked = kept]
               IN  /\ over => MayExceedBudget(s)
                   /\ Advance(r, s, RouteAfterGovernance(s, over))
                   /\ allowed' = [allowed EXCEPT ![r] = kept]
       \/ /\ st[r].ranked # {}
          /\ Advance(r, Caught(r, "opa_filter"), "pipeline_failed")
          /\ UNCHANGED allowed
    /\ UNCHANGED scanned

CompressionNode(r) ==
    /\ pc[r] = "compression_agent"
    /\ \/ \E kept \in SUBSET st[r].ranked :
            Advance(r, [st[r] EXCEPT !.status = "running",
                                     !.ranked = kept, !.rankedObj = TRUE,
                                     !.compressed = kept, !.compObj = TRUE,
                                     !.compBy = r],
                    "routing_agent")
       \/ Advance(r, Caught(r, "compression_agent"), "routing_agent")
    /\ UNCHANGED history

\* Mutation of ActiveContext: the items of the previous response are kept.
ActiveContextAccumulating(s) ==
    s.resp.ctx \cup (IF s.compressed # {} THEN s.compressed ELSE s.ranked)

\* compressed_context if there is any, else ranked_context.
ActiveContext(s) == IF s.compressed # {} THEN s.compressed ELSE s.ranked

RoutingNode(r) ==
    /\ pc[r] = "routing_agent"
    /\ \/ Advance(r, [st[r] EXCEPT
                        !.status = "running", !.model = TRUE,
                        !.resp = [kind |-> "package", ctx |-> ActiveContext(st[r]),
                                  blocked |-> st[r].blocked, by |-> r]],
                  "llm_response_agent")
       \/ Advance(r, Caught(r, "routing_agent"), "llm_response_agent")
    /\ UNCHANGED history

\* COMPLETE on every return: without a model, for generate_context and after
\* an invocation failure the response is the one already in the state.
LlmResponseNode(r) ==
    /\ pc[r] = "llm_response_agent"
    /\ \/ Advance(r, [st[r] EXCEPT !.status = "complete"], "trace_writer")
       \/ /\ st[r].model
          /\ Advance(r, [st[r] EXCEPT !.status = "complete", !.resp.kind = "answer"],
                     "trace_writer")
       \/ Advance(r, Caught(r, "llm_response_agent"), "trace_writer")
    /\ UNCHANGED history

\* _map_chunks calls .get() on the chunks after compression: compressed_context,
\* else ranked_context.  The chunks before compression are always dicts.
MapChunksRaises(s) ==
    IF s.compressed # {} THEN s.compObj ELSE Unreadable(s)

\* The trace writer has no error handling: what it raises leaves the graph.
TraceWriterNode(r) ==
    /\ pc[r] = "trace_writer"
    /\ \/ /\ ~MapChunksRaises(st[r])
          /\ Advance(r, st[r], "end")
       \/ /\ MapChunksRaises(st[r])
          /\ Answer(r, "error", NoResponse)
          /\ UNCHANGED <<st, saved, ckpt>>
    /\ UNCHANGED history

ClarificationNode(r) ==
    /\ pc[r] = "clarification_response"
    /\ Advance(r, [st[r] EXCEPT !.status = "complete", !.asked = TRUE,
                                !.resp = [kind |-> "question", ctx |-> {},
                                          blocked |-> FALSE, by |-> r]],
               "end")
    /\ UNCHANGED history

FailedTerminalNode(r) ==
    /\ pc[r] = "pipeline_failed"
    /\ Advance(r, [st[r] EXCEPT !.status = "failed"], "end")
    /\ UNCHANGED history

\* execute turns a FAILED state into an error; clarification_reply returns
\* final_response whatever the status is.
Respond(r) ==
    /\ pc[r] = "end"
    /\ IF r = First /\ st[r].status = "failed"
         THEN Answer(r, "error", NoResponse)
         ELSE Answer(r, "success", st[r].resp)
    /\ UNCHANGED <<st, saved, ckpt, history>>

-----------------------------------------------------------------------------
(* Failures and the passage of time.                                       *)

\* Mutation of Abort: the graph is entered once more.
AbortAndRetry(r) ==
    /\ pc[r] \in Nodes \cup TerminalNodes
    /\ Advance(r, st[r], "intent_agent")
    /\ UNCHANGED history

\* An exception escapes the graph: a checkpoint write fails, or a terminal
\* node or a wrapper raises.
Abort(r) ==
    /\ pc[r] \in Nodes \cup TerminalNodes
    /\ Answer(r, "error", NoResponse)
    /\ UNCHANGED <<st, saved, ckpt, history>>

\* The first run lives in the agent worker, the replies in the gateway.
Processes == {{First}, Replies}

Crash(p) ==
    /\ \E r \in p : InFlight(r)
    /\ pc' = [r \in Runs |-> IF r \in p /\ InFlight(r) THEN "done" ELSE pc[r]]
    /\ answer' = [r \in Runs |-> IF r \in p /\ InFlight(r)
                                   THEN [kind |-> "lost", resp |-> NoResponse]
                                   ELSE answer[r]]
    /\ UNCHANGED <<st, saved, ckpt, history>>

\* The checkpoint keys reach their one-hour TTL.
Expire ==
    /\ saved
    /\ saved' = FALSE
    /\ UNCHANGED <<pc, st, ckpt, answer, history>>

-----------------------------------------------------------------------------
Progress(r) ==
    \/ ReplyStart(r)          \/ IntentNode(r)
    \/ RetrievalNode(r)       \/ KnowledgeGraphNode(r)
    \/ GovernanceNode(r)      \/ OpaFilterNode(r)
    \/ CompressionNode(r)     \/ RoutingNode(r)
    \/ LlmResponseNode(r)     \/ TraceWriterNode(r)
    \/ ClarificationNode(r)   \/ FailedTerminalNode(r)
    \/ Respond(r)

Next ==
    \/ \E r \in Runs : Execute(r) \/ ReplyRead(r) \/ Progress(r) \/ Abort(r)
    \/ \E p \in Processes : Crash(p)
    \/ Expire

Spec == Init /\ [][Next]_vars

\* A started run goes on: each external call of a node carries a timeout.
Fairness == \A r \in Runs : WF_vars(Progress(r))

FairSpec == Spec /\ Fairness

-----------------------------------------------------------------------------
(* Properties.                                                             *)

\* Every variable holds a value of its type.
TypeOK ==
    /\ pc \in [Runs -> PCs]
    /\ st \in [Runs -> AgentState]
    /\ saved \in BOOLEAN
    /\ ckpt \in AgentState
    /\ answer \in [Runs -> Answers]
    /\ scanned \in [Runs -> SUBSET Items]
    /\ allowed \in [Runs -> SUBSET Items]

\* Items that passed both gates in one run: the governance scan completed
\* over them and OPA allowed them.
VettedIn(r) == scanned[r] \cap allowed[r]
Vetted == UNION {VettedIn(r) : r \in Runs}

\* Whatever nodes fail, however runs of the session overlap and whatever a
\* reply inherits from the checkpoint, no caller receives an item that did
\* not pass the governance scan and OPA.  governance_node overwrites the
\* status and opa_filter_node passes it through: this is what keeps a failed
\* scan from reaching routing_node.
ReleasedWasVetted == \A r \in Runs : answer[r].resp.ctx \subseteq Vetted

\* To its callers a session is a gate: each run is answered once and vets
\* once, whoever is answered gets vetted items only, and no later run, failure
\* or crash takes back what was vetted or changes what was answered.
Phase(r) == CASE pc[r] = "idle" -> "idle" [] pc[r] = "done" -> "done" [] OTHER -> "open"
Gate == INSTANCE PipelineGate WITH phase    <- [r \in Runs |-> Phase(r)],
                                   vetted   <- [r \in Runs |-> VettedIn(r)],
                                   received <- [r \in Runs |-> answer[r].resp.ctx]
GateSpec == Gate!Spec

\* A run that wrote its own response and did not inherit a compressed context
\* answers only with what its own scan and its own OPA pass let through, and
\* with nothing when its scan timed out.
OwnGatesDecide ==
    \A r \in Runs :
        LET resp == answer[r].resp
        IN  resp.by = r /\ st[r].compBy \in {NoRun, r} =>
                /\ resp.ctx \subseteq VettedIn(r)
                /\ resp.blocked => resp.ctx = {}

\* A run ends in pipeline_failed only for a failure of the intent, governance
\* or OPA node, and its error payload names that node.
FailureIsNamed ==
    \A r \in Runs :
        pc[r] = "pipeline_failed" =>
            st[r].error \in {"intent_agent", "governance_agent", "opa_filter"}

\* Every run that was started is answered.
StartedRunsAreAnswered == \A r \in Runs : InFlight(r) ~> pc[r] = "done"
=============================================================================
