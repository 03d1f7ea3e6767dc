----------------------- MODULE AgentPipelineProofs -----------------------
(***************************************************************************)
(* Proofs about AgentPipeline, for every session: any number of replies,   *)
(* any sets of context items.                                              *)
(***************************************************************************)
EXTENDS AgentPipeline, TLAPS

(* The control and data part of TypeOK, the variables that Advance and     *)
(* Answer write.                                                           *)
CoreTypes ==
    /\ pc \in [Runs -> PCs]
    /\ st \in [Runs -> AgentState]
    /\ saved \in BOOLEAN
    /\ ckpt \in AgentState
    /\ answer \in [Runs -> Answers]

-----------------------------------------------------------------------------
(* Types of the building blocks.                                           *)

\* The state execute starts from has the type of the channels.
LEMMA InitialStateType == InitialState \in AgentState
  BY DEF InitialState, AgentState, Response, NoResponse, Status

\* with_error_handling turns typed channels into typed channels.
LEMMA CaughtType ==
  ASSUME NEW r \in Runs, NEW node \in Nodes, st[r] \in AgentState
  PROVE  Caught(r, node) \in AgentState
  BY DEF Caught, AgentState, Status

\* Merging and checkpointing typed channels keeps the types.
LEMMA AdvanceType ==
  ASSUME CoreTypes, NEW r \in Runs, NEW s \in AgentState, NEW next \in PCs,
         Advance(r, s, next)
  PROVE  CoreTypes'
  BY DEF CoreTypes, Advance

\* Answering the caller of a run keeps the types.
LEMMA AnswerType ==
  ASSUME CoreTypes, NEW r \in Runs,
         NEW kind \in {"success", "error", "lost"}, NEW resp \in Response,
         Answer(r, kind, resp), UNCHANGED <<st, saved, ckpt>>
  PROVE  CoreTypes'
  BY DEF CoreTypes, Answer, Answers, PCs

\* The absent response has the type of a response.
LEMMA NoResponseType == NoResponse \in Response
  BY DEF NoResponse, Response

\* Both conditional edges lead to nodes of the graph.
LEMMA RouteTypes ==
  ASSUME NEW s \in AgentState, NEW b \in BOOLEAN
  PROVE  /\ RouteAfterIntent(s, b) \in PCs
         /\ RouteAfterGovernance(s, b) \in PCs
  BY DEF RouteAfterIntent, RouteAfterGovernance, PCs, Nodes, TerminalNodes

-----------------------------------------------------------------------------
(* Type correctness, one lemma per group of actions.                       *)

\* Starting a run, first or reply, keeps the types.
LEMMA StartType ==
  ASSUME TypeOK, NEW r \in Runs, Execute(r) \/ ReplyRead(r) \/ ReplyStart(r)
  PROVE  TypeOK'
<1>0. CoreTypes /\ "intent_agent" \in PCs
  BY DEF TypeOK, CoreTypes, PCs, Nodes
<1>1. CASE Execute(r)
  <2>1. CoreTypes'
    BY <1>0, <1>1, InitialStateType, AdvanceType DEF Execute
  <2>. QED  BY <2>1, <1>1 DEF Execute, history, TypeOK, CoreTypes
<1>2. CASE ReplyRead(r)
  <2>1. CASE pc' = [pc EXCEPT ![r] = "resume"] /\ UNCHANGED answer
    BY <2>1, <1>2 DEF ReplyRead, TypeOK, history, PCs
  <2>2. CASE Answer(r, "error", NoResponse)
    <3>1. CoreTypes'
      BY <1>0, <1>2, <2>2, AnswerType, NoResponseType DEF ReplyRead
    <3>. QED  BY <3>1, <1>2 DEF ReplyRead, history, TypeOK, CoreTypes
  <2>. QED  BY <1>2, <2>1, <2>2 DEF ReplyRead
<1>3. CASE ReplyStart(r)
  <2>1. ASSUME NEW revived \in BOOLEAN,
               Advance(r, [ckpt EXCEPT !.round = 1, !.status = "pending",
                                       !.inherited = ckpt.ranked # {},
                                       !.rankedObj = @ /\ revived,
                                       !.compObj = @ /\ revived],
                       "intent_agent")
        PROVE  CoreTypes'
    <3>1. \A i, o, p \in BOOLEAN :
            [ckpt EXCEPT !.round = 1, !.status = "pending", !.inherited = i,
                         !.rankedObj = o, !.compObj = p] \in AgentState
      BY <1>0 DEF CoreTypes, AgentState, Status
    <3>2. (ckpt.ranked # {}) \in BOOLEAN /\ (ckpt.rankedObj /\ revived) \in BOOLEAN
          /\ (ckpt.compObj /\ revived) \in BOOLEAN
      OBVIOUS
    <3>3. [ckpt EXCEPT !.round = 1, !.status = "pending",
                       !.inherited = ckpt.ranked # {},
                       !.rankedObj = @ /\ revived,
                       !.compObj = @ /\ revived] \in AgentState
      BY <3>1, <3>2, Zenon
    <3>. QED  BY <1>0, <2>1, <3>3, AdvanceType
  <2>2. ASSUME Answer(r, "error", NoResponse), UNCHANGED <<st, saved, ckpt>>
        PROVE  CoreTypes'
    BY <1>0, <2>2, AnswerType, NoResponseType
  <2>3. CoreTypes'
    BY <1>3, <2>1, <2>2 DEF ReplyStart
  <2>. QED  BY <2>3, <1>3 DEF ReplyStart, history, TypeOK, CoreTypes
<1>. QED  BY <1>1, <1>2, <1>3

\* Every wrapped node keeps the types, whether it returns or raises.
LEMMA NodeType ==
  ASSUME TypeOK, NEW r \in Runs,
         \/ IntentNode(r)      \/ RetrievalNode(r)   \/ KnowledgeGraphNode(r)
         \/ GovernanceNode(r)  \/ OpaFilterNode(r)   \/ CompressionNode(r)
         \/ RoutingNode(r)     \/ LlmResponseNode(r)
  PROVE  TypeOK'
<1>0. CoreTypes /\ st[r] \in AgentState /\ "none" \notin Nodes
  BY DEF TypeOK, CoreTypes, Nodes
<1> SUFFICES CoreTypes' /\ scanned' \in [Runs -> SUBSET Items]
                        /\ allowed' \in [Runs -> SUBSET Items]
  BY DEF TypeOK, CoreTypes
<1>c. ASSUME NEW node \in Nodes, NEW next \in PCs, Advance(r, Caught(r, node), next)
      PROVE  CoreTypes'
  BY <1>0, <1>c, CaughtType, AdvanceType
<1>1. CASE IntentNode(r)
  <2>1. ASSUME NEW low \in BOOLEAN,
               Advance(r, [st[r] EXCEPT !.status = "running"],
                       RouteAfterIntent([st[r] EXCEPT !.status = "running"], low))
        PROVE  CoreTypes'
    <3>1. [st[r] EXCEPT !.status = "running"] \in AgentState
      BY <1>0 DEF AgentState, Status
    <3>. QED  BY <1>0, <2>1, <3>1, RouteTypes, AdvanceType
  <2>. QED  BY <1>1, <1>c, <2>1 DEF IntentNode, Nodes, TerminalNodes, PCs, history, TypeOK
<1>2. CASE RetrievalNode(r)
  <2>1. ASSUME NEW found \in (SUBSET ConnChunks \ {{}}) \cup SUBSET WsChunks,
               Advance(r, [st[r] EXCEPT !.status = "running", !.ranked = found,
                                        !.inherited = FALSE, !.rankedObj = FALSE],
                       "knowledge_graph")
        PROVE  CoreTypes'
    <3>1. [st[r] EXCEPT !.status = "running", !.ranked = found,
                        !.inherited = FALSE, !.rankedObj = FALSE] \in AgentState
      BY <1>0 DEF AgentState, Status, Items
    <3>. QED  BY <1>0, <2>1, <3>1, AdvanceType DEF PCs, Nodes
  <2>. QED  BY <1>2, <1>c, <2>1 DEF RetrievalNode, Nodes, PCs, history, TypeOK
<1>3. CASE KnowledgeGraphNode(r)
  <2>1. ASSUME NEW found \in SUBSET GraphItems,
               Advance(r, [st[r] EXCEPT !.ranked = @ \cup found,
                                        !.rankedObj = FALSE],
                       "governance_agent")
        PROVE  CoreTypes'
    <3>1. [st[r] EXCEPT !.ranked = @ \cup found, !.rankedObj = FALSE] \in AgentState
      BY <1>0 DEF AgentState, Items
    <3>. QED  BY <1>0, <2>1, <3>1, AdvanceType DEF PCs, Nodes
  <2>. QED  BY <1>3, <1>c, <2>1 DEF KnowledgeGraphNode, Nodes, PCs, history, TypeOK
<1>4. CASE GovernanceNode(r)
  <2>1. [st[r] EXCEPT !.status = "running", !.ranked = {}, !.blocked = TRUE]
          \in AgentState
    BY <1>0 DEF AgentState, Status
  <2>2. [st[r] EXCEPT !.status = "running", !.blocked = FALSE,
                      !.redacted = @ \cup Findings(st[r].ranked)] \in AgentState
    BY <1>0 DEF AgentState, Status, Findings
  <2>3. CoreTypes'
    BY <1>0, <1>4, <1>c, <2>1, <2>2, AdvanceType DEF GovernanceNode, PCs, Nodes
  <2>4. st[r].ranked \subseteq Items
    BY <1>0 DEF AgentState
  <2>. QED  BY <1>4, <2>3, <2>4 DEF GovernanceNode, TypeOK
<1>5. CASE OpaFilterNode(r)
  <2>1. ASSUME NEW kept \in SUBSET st[r].ranked, NEW over \in BOOLEAN,
               Advance(r, [st[r] EXCEPT !.ranked = kept],
                       RouteAfterGovernance([st[r] EXCEPT !.ranked = kept], over))
        PROVE  CoreTypes'
    <3>1. [st[r] EXCEPT !.ranked = kept] \in AgentState
      BY <1>0 DEF AgentState
    <3>. QED  BY <1>0, <2>1, <3>1, RouteTypes, AdvanceType
  <2>2. ASSUME Advance(r, st[r], RouteAfterGovernance(st[r], FALSE))
        PROVE  CoreTypes'
    BY <1>0, <2>2, RouteTypes, AdvanceType
  <2>3. CoreTypes'
    BY <1>5, <1>c, <2>1, <2>2 DEF OpaFilterNode, Nodes, TerminalNodes, PCs
  <2>4. st[r].ranked \subseteq Items
    BY <1>0 DEF AgentState
  <2>. QED  BY <1>5, <2>3, <2>4 DEF OpaFilterNode, TypeOK
<1>6. CASE CompressionNode(r)
  <2>1. ASSUME NEW kept \in SUBSET st[r].ranked,
               Advance(r, [st[r] EXCEPT !.status = "running",
                                        !.ranked = kept, !.rankedObj = TRUE,
                                        !.compressed = kept, !.compObj = TRUE,
                                        !.compBy = r],
                       "routing_agent")
        PROVE  CoreTypes'
    <3>1. [st[r] EXCEPT !.status = "running",
                        !.ranked = kept, !.rankedObj = TRUE,
                        !.compressed = kept, !.compObj = TRUE,
                        !.compBy = r] \in AgentState
      BY <1>0 DEF AgentState, Status
    <3>. QED  BY <1>0, <2>1, <3>1, AdvanceType DEF PCs, Nodes
  <2>. QED  BY <1>6, <1>c, <2>1 DEF CompressionNode, Nodes, PCs, history, TypeOK
<1>7. CASE RoutingNode(r)
  <2> DEFINE package == [kind |-> "package", ctx |-> ActiveContext(st[r]),
                         blocked |-> st[r].blocked, by |-> r]
             s == [st[r] EXCEPT !.status = "running", !.model = TRUE, !.resp = package]
  <2>1. package \in Response
    BY <1>0 DEF Response, AgentState, ActiveContext
  <2>2. s \in AgentState
    BY <1>0, <2>1 DEF AgentState, Status
  <2> HIDE DEF package
  <2>3. CASE Advance(r, s, "llm_response_agent")
    BY <1>0, <1>7, <2>2, <2>3, AdvanceType DEF RoutingNode, PCs, Nodes, history, TypeOK
  <2>. QED  BY <1>7, <1>c, <2>3 DEF RoutingNode, PCs, Nodes, history, TypeOK, package
<1>8. CASE LlmResponseNode(r)
  <2>1. [st[r] EXCEPT !.status = "complete"] \in AgentState
    BY <1>0 DEF AgentState, Status
  <2>2. [st[r] EXCEPT !.status = "complete", !.resp.kind = "answer"] \in AgentState
    BY <1>0 DEF AgentState, Status, Response
  <2>3. CoreTypes'
    BY <1>0, <1>8, <1>c, <2>1, <2>2, AdvanceType
       DEF LlmResponseNode, PCs, Nodes, TerminalNodes
  <2>. QED  BY <1>8, <2>3 DEF LlmResponseNode, history, TypeOK
<1>. QED  BY <1>1, <1>2, <1>3, <1>4, <1>5, <1>6, <1>7, <1>8

\* The terminal nodes, the response and an escaping exception keep the types.
LEMMA EndingType ==
  ASSUME TypeOK, NEW r \in Runs,
         \/ TraceWriterNode(r)     \/ ClarificationNode(r)
         \/ FailedTerminalNode(r)  \/ Respond(r)  \/ Abort(r)
  PROVE  TypeOK'
<1>0. CoreTypes /\ st[r] \in AgentState
  BY DEF TypeOK, CoreTypes
<1> SUFFICES CoreTypes' /\ UNCHANGED history
  BY DEF TypeOK, CoreTypes, history
<1>1. CASE TraceWriterNode(r)
  BY <1>0, <1>1, AdvanceType, AnswerType, NoResponseType DEF TraceWriterNode, PCs
<1>2. CASE ClarificationNode(r)
  <2>1. [st[r] EXCEPT !.status = "complete", !.asked = TRUE,
                      !.resp = [kind |-> "question", ctx |-> {},
                                blocked |-> FALSE, by |-> r]] \in AgentState
    BY <1>0 DEF AgentState, Status, Response
  <2>. QED  BY <1>0, <1>2, <2>1, AdvanceType DEF ClarificationNode, PCs
<1>3. CASE FailedTerminalNode(r)
  <2>1. [st[r] EXCEPT !.status = "failed"] \in AgentState
    BY <1>0 DEF AgentState, Status
  <2>. QED  BY <1>0, <1>3, <2>1, AdvanceType DEF FailedTerminalNode, PCs
<1>4. CASE Respond(r)
  <2>1. st[r].resp \in Response
    BY <1>0 DEF AgentState
  <2>. QED  BY <1>0, <1>4, <2>1, AnswerType, NoResponseType DEF Respond
<1>5. CASE Abort(r)
  BY <1>0, <1>5, AnswerType, NoResponseType DEF Abort
<1>. QED  BY <1>1, <1>2, <1>3, <1>4, <1>5

\* A crash and the expiry of the checkpoint keep the types.
LEMMA EnvironmentType ==
  ASSUME TypeOK, (\E p \in Processes : Crash(p)) \/ Expire
  PROVE  TypeOK'
<1>1. ASSUME NEW p \in Processes, Crash(p) PROVE TypeOK'
  <2>1. ASSUME NEW r \in Runs PROVE pc'[r] \in PCs /\ answer'[r] \in Answers
    BY <1>1, NoResponseType DEF TypeOK, Crash, PCs, Answers
  <2>2. /\ pc' = [r \in Runs |-> pc'[r]]
        /\ answer' = [r \in Runs |-> answer'[r]]
    BY <1>1 DEF Crash
  <2>3. pc' \in [Runs -> PCs] /\ answer' \in [Runs -> Answers]
    BY <2>1, <2>2
  <2>. QED  BY <1>1, <2>3 DEF TypeOK, Crash, history
<1>2. CASE Expire
  BY <1>2 DEF Expire, TypeOK, history
<1>. QED  BY <1>1, <1>2

-----------------------------------------------------------------------------
\* In every session every variable keeps its type: in particular every edge
\* of the graph leads to a node of the graph.
THEOREM TypeCorrect == Spec => []TypeOK
<1>1. Init => TypeOK
  <2>1. NoAnswer \in Answers
    BY NoResponseType DEF NoAnswer, Answers
  <2>. QED  BY <2>1, InitialStateType DEF Init, TypeOK, PCs
<1>2. TypeOK /\ [Next]_vars => TypeOK'
  <2> SUFFICES ASSUME TypeOK, [Next]_vars PROVE TypeOK'
    OBVIOUS
  <2>1. ASSUME NEW r \in Runs, Execute(r) \/ ReplyRead(r) \/ Progress(r) \/ Abort(r)
        PROVE  TypeOK'
    BY <2>1, StartType, NodeType, EndingType DEF Progress
  <2>2. CASE UNCHANGED vars
    BY <2>2 DEF TypeOK, vars
  <2>. QED  BY <2>1, <2>2, EnvironmentType DEF Next
<1>. QED  BY <1>1, <1>2, PTL DEF Spec

-----------------------------------------------------------------------------
(* Only vetted items are released.  ReleasedWasVetted is not inductive: an *)
(* answer comes from the channels of a run, and those may come from the    *)
(* checkpoint that another run wrote.  The invariant follows the items     *)
(* through the gates: what OPA is asked about after a successful scan was  *)
(* scanned, what is behind OPA is vetted in this very run, and until OPA   *)
(* has decided nothing is recorded as allowed, so that a scan never takes  *)
(* a vetted item back.                                                     *)

BeforeOpa == {"idle", "resume", "intent_agent", "retrieval_agent",
              "knowledge_graph", "governance_agent", "opa_filter"}

CarriesVetted(s) == s.compressed \subseteq Vetted /\ s.resp.ctx \subseteq Vetted

Gates(r) ==
    /\ pc[r] = "opa_filter" /\ st[r].status # "failed" =>
          st[r].ranked \subseteq scanned[r]
    /\ pc[r] \in {"compression_agent", "routing_agent"} =>
          st[r].ranked \subseteq VettedIn(r)
    /\ pc[r] \in BeforeOpa => allowed[r] = {}

VettedInv ==
    /\ CarriesVetted(ckpt)
    /\ \A r \in Runs : CarriesVetted(st[r])
    /\ \A r \in Runs : answer[r].resp.ctx \subseteq Vetted
    /\ \A r \in Runs : Gates(r)

\* A step that merges the channels s into run r keeps the invariant when no
\* item loses its vetting, the histories of the other runs stay as they are,
\* and s and the gates of r are in order.
LEMMA AdvanceVetted ==
  ASSUME TypeOK, VettedInv, NEW r \in Runs, NEW s, NEW next,
         Advance(r, s, next),
         Vetted \subseteq Vetted',
         \A q \in Runs \ {r} : scanned'[q] = scanned[q] /\ allowed'[q] = allowed[q],
         CarriesVetted(s), Gates(r)'
  PROVE  VettedInv'
<1>1. CarriesVetted(s)'
  <2>1. s.compressed \subseteq Vetted' /\ s.resp.ctx \subseteq Vetted'
    BY DEF CarriesVetted
  <2>. QED  BY <2>1 DEF CarriesVetted
<1>2. st'[r] = s /\ \A q \in Runs \ {r} : st'[q] = st[q] /\ pc'[q] = pc[q]
  BY DEF TypeOK, Advance
<1>3. CarriesVetted(ckpt)'
  BY <1>1 DEF Advance, CarriesVetted
<1>4. ASSUME NEW q \in Runs PROVE CarriesVetted(st[q])'
  BY <1>1, <1>2 DEF VettedInv, CarriesVetted
<1>5. ASSUME NEW q \in Runs PROVE (answer[q].resp.ctx \subseteq Vetted)'
  BY DEF VettedInv, Advance
<1>6. ASSUME NEW q \in Runs PROVE Gates(q)'
  BY <1>2 DEF VettedInv, Gates, VettedIn
<1>. QED  BY <1>3, <1>4, <1>5, <1>6 DEF VettedInv

\* A step that only answers, with vetted items, keeps the invariant.
LEMMA AnswerVetted ==
  ASSUME TypeOK, VettedInv, NEW r \in Runs, NEW kind, NEW resp,
         Answer(r, kind, resp), UNCHANGED <<st, saved, ckpt, history>>,
         resp.ctx \subseteq Vetted
  PROVE  VettedInv'
<1>1. Vetted' = Vetted
  BY DEF Vetted, VettedIn, history
<1>2. ASSUME NEW q \in Runs PROVE answer'[q].resp.ctx \subseteq Vetted
  BY DEF VettedInv, Answer, TypeOK
<1>3. ASSUME NEW q \in Runs PROVE Gates(q)'
  <2>1. pc'[q] = pc[q] \/ pc'[q] = "done"
    BY DEF Answer, TypeOK
  <2>. QED  BY <2>1 DEF VettedInv, Gates, VettedIn, BeforeOpa, history
<1>. QED  BY <1>1, <1>2, <1>3 DEF VettedInv, CarriesVetted

\* Without a history step no vetting changes.
LEMMA VettedStable ==
  ASSUME UNCHANGED history PROVE Vetted' = Vetted
  BY DEF Vetted, VettedIn, history

\* Starting a run only hands on what the checkpoint carries.
LEMMA StartVetted ==
  ASSUME TypeOK, VettedInv, NEW r \in Runs,
         Execute(r) \/ ReplyRead(r) \/ ReplyStart(r)
  PROVE  VettedInv'
<1>0. UNCHANGED history /\ Vetted' = Vetted /\ NoResponse.ctx = {}
  BY VettedStable DEF Execute, ReplyRead, ReplyStart, NoResponse
<1>1. ASSUME NEW s, Advance(r, s, "intent_agent"), pc[r] \in {"idle", "resume"},
             CarriesVetted(s)
      PROVE  VettedInv'
  <2>1. Gates(r)'
    BY <1>0, <1>1 DEF VettedInv, Gates, Advance, TypeOK, history, BeforeOpa
  <2>. QED  BY <1>0, <1>1, <2>1, AdvanceVetted DEF history
<1>2. CASE Execute(r)
  <2>1. CarriesVetted(InitialState)
    BY DEF CarriesVetted, InitialState, NoResponse
  <2>. QED  BY <1>1, <1>2, <2>1 DEF Execute
<1>3. CASE ReplyRead(r)
  <2>1. CASE pc' = [pc EXCEPT ![r] = "resume"] /\ UNCHANGED answer
    <3>1. ASSUME NEW q \in Runs PROVE Gates(q)'
      BY <1>0, <1>3, <2>1
         DEF ReplyRead, VettedInv, Gates, VettedIn, TypeOK, history, BeforeOpa
    <3>. QED  BY <1>0, <1>3, <2>1, <3>1 DEF ReplyRead, VettedInv, CarriesVetted
  <2>2. CASE Answer(r, "error", NoResponse)
    BY <1>0, <1>3, <2>2, AnswerVetted DEF ReplyRead, history
  <2>. QED  BY <1>3, <2>1, <2>2 DEF ReplyRead
<1>4. CASE ReplyStart(r)
  <2>1. ASSUME NEW revived \in BOOLEAN,
               Advance(r, [ckpt EXCEPT !.round = 1, !.status = "pending",
                                       !.inherited = ckpt.ranked # {},
                                       !.rankedObj = @ /\ revived,
                                       !.compObj = @ /\ revived],
                       "intent_agent")
        PROVE  VettedInv'
    <3>1. CarriesVetted([ckpt EXCEPT !.round = 1, !.status = "pending",
                                     !.inherited = ckpt.ranked # {},
                                     !.rankedObj = @ /\ revived,
                                     !.compObj = @ /\ revived])
      BY DEF VettedInv, CarriesVetted, TypeOK, AgentState
    <3>. QED  BY <1>1, <1>4, <2>1, <3>1 DEF ReplyStart
  <2>2. CASE Answer(r, "error", NoResponse) /\ UNCHANGED <<st, saved, ckpt>>
    BY <1>0, <2>2, AnswerVetted DEF history
  <2>. QED  BY <1>4, <2>1, <2>2 DEF ReplyStart
<1>. QED  BY <1>2, <1>3, <1>4

\* Nodes on the way to OPA: only the governance node writes a history.
LEMMA BeforeOpaVetted ==
  ASSUME TypeOK, VettedInv, NEW r \in Runs,
         \/ IntentNode(r)       \/ RetrievalNode(r)
         \/ KnowledgeGraphNode(r)  \/ GovernanceNode(r)
  PROVE  VettedInv'
<1>0. st[r] \in AgentState /\ CarriesVetted(st[r])
  BY DEF TypeOK, VettedInv
<1>1. ASSUME NEW s, NEW next \in BeforeOpa \cup TerminalNodes,
             Advance(r, s, next), pc[r] \in BeforeOpa,
             CarriesVetted(s), UNCHANGED allowed,
             \A q \in Runs \ {r} : scanned'[q] = scanned[q],
             next = "opa_filter" /\ s.status # "failed" => s.ranked \subseteq scanned'[r]
      PROVE  VettedInv'
  <2>1. Vetted \subseteq Vetted'
    <3>1. allowed[r] = {}
      BY <1>1 DEF VettedInv, Gates
    <3>2. ASSUME NEW q \in Runs PROVE VettedIn(q) \subseteq VettedIn(q)'
      BY <1>1, <3>1 DEF VettedIn
    <3>. QED  BY <3>2 DEF Vetted
  <2>2. Gates(r)'
    BY <1>1 DEF VettedInv, Gates, Advance, TypeOK, BeforeOpa, TerminalNodes
  <2>. QED  BY <1>1, <2>1, <2>2, AdvanceVetted
<1>c. ASSUME NEW node, NEW next \in BeforeOpa \cup TerminalNodes,
             Advance(r, Caught(r, node), next), UNCHANGED history,
             pc[r] \in BeforeOpa
      PROVE  VettedInv'
  <2>1. CarriesVetted(Caught(r, node)) /\ Caught(r, node).status = "failed"
    BY <1>0 DEF Caught, CarriesVetted, AgentState
  <2>. QED  BY <1>1, <1>c, <2>1 DEF history
<1>2. CASE IntentNode(r)
  <2>1. ASSUME NEW low \in BOOLEAN,
               Advance(r, [st[r] EXCEPT !.status = "running"],
                       RouteAfterIntent([st[r] EXCEPT !.status = "running"], low))
        PROVE  VettedInv'
    <3>1. CarriesVetted([st[r] EXCEPT !.status = "running"])
      BY <1>0 DEF CarriesVetted, AgentState
    <3>2. RouteAfterIntent([st[r] EXCEPT !.status = "running"], low)
            \in (BeforeOpa \cup TerminalNodes) \ {"opa_filter"}
      BY DEF RouteAfterIntent, BeforeOpa, TerminalNodes
    <3>. QED  BY <1>1, <1>2, <2>1, <3>1, <3>2 DEF IntentNode, BeforeOpa, history
  <2>. QED  BY <1>2, <1>c, <2>1 DEF IntentNode, BeforeOpa, TerminalNodes
<1>3. CASE RetrievalNode(r)
  <2>1. ASSUME NEW found,
               Advance(r, [st[r] EXCEPT !.status = "running", !.ranked = found,
                                        !.inherited = FALSE, !.rankedObj = FALSE],
                       "knowledge_graph")
        PROVE  VettedInv'
    <3>1. CarriesVetted([st[r] EXCEPT !.status = "running", !.ranked = found,
                                      !.inherited = FALSE, !.rankedObj = FALSE])
      BY <1>0 DEF CarriesVetted, AgentState
    <3>. QED  BY <1>1, <1>3, <2>1, <3>1 DEF RetrievalNode, BeforeOpa, history
  <2>. QED  BY <1>3, <1>c, <2>1 DEF RetrievalNode, BeforeOpa
<1>4. CASE KnowledgeGraphNode(r)
  <2>1. ASSUME NEW found,
               Advance(r, [st[r] EXCEPT !.ranked = @ \cup found,
                                        !.rankedObj = FALSE],
                       "governance_agent")
        PROVE  VettedInv'
    <3>1. CarriesVetted([st[r] EXCEPT !.ranked = @ \cup found, !.rankedObj = FALSE])
      BY <1>0 DEF CarriesVetted, AgentState
    <3>. QED  BY <1>1, <1>4, <2>1, <3>1 DEF KnowledgeGraphNode, BeforeOpa, history
  <2>. QED  BY <1>4, <1>c, <2>1 DEF KnowledgeGraphNode, BeforeOpa
<1>5. CASE GovernanceNode(r)
  <2> DEFINE blocked == [st[r] EXCEPT !.status = "running", !.ranked = {},
                                      !.blocked = TRUE]
             passed == [st[r] EXCEPT !.status = "running", !.blocked = FALSE,
                                     !.redacted = @ \cup Findings(st[r].ranked)]
  <2>1. /\ CarriesVetted(blocked) /\ blocked.ranked = {}
        /\ CarriesVetted(passed) /\ passed.ranked = st[r].ranked
    BY <1>0 DEF CarriesVetted, AgentState
  <2> HIDE DEF blocked, passed
  <2>2. CASE Advance(r, blocked, "opa_filter") /\ UNCHANGED scanned
    BY <1>1, <1>5, <2>1, <2>2 DEF GovernanceNode, BeforeOpa
  <2>3. CASE Advance(r, passed, "opa_filter")
             /\ scanned' = [scanned EXCEPT ![r] = st[r].ranked]
    <3>1. scanned'[r] = st[r].ranked /\ \A q \in Runs \ {r} : scanned'[q] = scanned[q]
      BY <2>3 DEF TypeOK
    <3>. QED  BY <1>1, <1>5, <2>1, <2>3, <3>1 DEF GovernanceNode, BeforeOpa
  <2>. QED  BY <1>5, <1>c, <2>2, <2>3
            DEF GovernanceNode, BeforeOpa, blocked, passed, history
<1>. QED  BY <1>2, <1>3, <1>4, <1>5

\* OPA records what it allows of a scanned context, and only a context that
\* was not failed goes on to compression and routing.
LEMMA OpaVetted ==
  ASSUME TypeOK, VettedInv, NEW r \in Runs, OpaFilterNode(r)
  PROVE  VettedInv'
<1>0. /\ pc[r] = "opa_filter" /\ allowed[r] = {} /\ CarriesVetted(st[r])
      /\ st[r] \in AgentState
  BY DEF OpaFilterNode, VettedInv, Gates, BeforeOpa, TypeOK
<1>1. ASSUME NEW s, NEW over \in BOOLEAN,
             Advance(r, s, RouteAfterGovernance(s, over)), CarriesVetted(s),
             UNCHANGED scanned, \A q \in Runs \ {r} : allowed'[q] = allowed[q],
             s.status # "failed" => s.ranked \subseteq VettedIn(r)'
      PROVE  VettedInv'
  <2>1. Vetted \subseteq Vetted'
    <3>1. ASSUME NEW q \in Runs PROVE VettedIn(q) \subseteq VettedIn(q)'
      BY <1>0, <1>1 DEF VettedIn
    <3>. QED  BY <3>1 DEF Vetted
  <2>2. Gates(r)'
    BY <1>1 DEF Gates, Advance, TypeOK, BeforeOpa, RouteAfterGovernance
  <2>. QED  BY <1>1, <2>1, <2>2, AdvanceVetted
<1>2. CASE /\ st[r].ranked = {} /\ UNCHANGED history
           /\ Advance(r, st[r], RouteAfterGovernance(st[r], FALSE))
  BY <1>0, <1>1, <1>2 DEF history
<1>3. ASSUME NEW kept \in SUBSET st[r].ranked, NEW over \in BOOLEAN,
             Advance(r, [st[r] EXCEPT !.ranked = kept],
                     RouteAfterGovernance([st[r] EXCEPT !.ranked = kept], over)),
             allowed' = [allowed EXCEPT ![r] = kept], UNCHANGED scanned
      PROVE  VettedInv'
  <2> DEFINE s == [st[r] EXCEPT !.ranked = kept]
  <2>1. /\ CarriesVetted(s) /\ s.ranked = kept /\ s.status = st[r].status
    BY <1>0 DEF CarriesVetted, AgentState
  <2>2. allowed'[r] = kept /\ \A q \in Runs \ {r} : allowed'[q] = allowed[q]
    BY <1>3 DEF TypeOK
  <2>3. s.status # "failed" => s.ranked \subseteq VettedIn(r)'
    BY <1>0, <1>3, <2>1, <2>2 DEF VettedInv, Gates, VettedIn
  <2> HIDE DEF s
  <2>. QED  BY <1>1, <1>3, <2>1, <2>2, <2>3 DEF s
<1>4. CASE Advance(r, Caught(r, "opa_filter"), "pipeline_failed") /\ UNCHANGED history
  <2>1. CarriesVetted(Caught(r, "opa_filter"))
    BY <1>0 DEF Caught, CarriesVetted, AgentState
  <2>2. Gates(r)'
    BY <1>4 DEF Gates, Advance, TypeOK, BeforeOpa
  <2>. QED  BY <1>4, <2>1, <2>2, VettedStable, AdvanceVetted DEF history
<1>. QED  BY <1>2, <1>3, <1>4 DEF OpaFilterNode, history

\* Behind OPA the histories are final: every node works on vetted items.
LEMMA BehindOpaVetted ==
  ASSUME TypeOK, VettedInv, NEW r \in Runs,
         \/ CompressionNode(r)  \/ RoutingNode(r)  \/ LlmResponseNode(r)
         \/ ClarificationNode(r)  \/ FailedTerminalNode(r)
  PROVE  VettedInv'
<1>0. /\ UNCHANGED history /\ Vetted' = Vetted
      /\ st[r] \in AgentState /\ CarriesVetted(st[r])
  BY VettedStable DEF CompressionNode, RoutingNode, LlmResponseNode,
     ClarificationNode, FailedTerminalNode, TypeOK, VettedInv
<1>1. ASSUME NEW s, NEW next, next \notin BeforeOpa \cup {"compression_agent"},
             Advance(r, s, next), CarriesVetted(s),
             next = "routing_agent" => s.ranked \subseteq VettedIn(r)
      PROVE  VettedInv'
  <2>1. Gates(r)'
    BY <1>0, <1>1 DEF Gates, Advance, TypeOK, BeforeOpa, VettedIn, history
  <2>. QED  BY <1>0, <1>1, <2>1, AdvanceVetted DEF history
<1>c. ASSUME NEW node PROVE CarriesVetted(Caught(r, node))
                            /\ Caught(r, node).ranked = st[r].ranked
  BY <1>0 DEF Caught, CarriesVetted, AgentState
<1>v. pc[r] \in {"compression_agent", "routing_agent"} =>
        st[r].ranked \subseteq VettedIn(r) /\ st[r].ranked \subseteq Vetted
  BY DEF VettedInv, Gates, Vetted
<1>2. CASE CompressionNode(r)
  <2>1. ASSUME NEW kept \in SUBSET st[r].ranked,
               Advance(r, [st[r] EXCEPT !.status = "running",
                                        !.ranked = kept, !.rankedObj = TRUE,
                                        !.compressed = kept, !.compObj = TRUE,
                                        !.compBy = r],
                       "routing_agent")
        PROVE  VettedInv'
    <3> DEFINE s == [st[r] EXCEPT !.status = "running",
                                  !.ranked = kept, !.rankedObj = TRUE,
                                  !.compressed = kept, !.compObj = TRUE,
                                  !.compBy = r]
    <3>1. CarriesVetted(s) /\ s.ranked \subseteq VettedIn(r)
      BY <1>0, <1>2, <1>v DEF CompressionNode, CarriesVetted, AgentState
    <3>2. Advance(r, s, "routing_agent")
      BY <2>1
    <3> HIDE DEF s
    <3>. QED  BY <1>1, <3>1, <3>2 DEF BeforeOpa
  <2>. QED  BY <1>1, <1>2, <1>c, <1>v, <2>1 DEF CompressionNode, BeforeOpa
<1>3. CASE RoutingNode(r)
  <2> DEFINE s == [st[r] EXCEPT
                     !.status = "running", !.model = TRUE,
                     !.resp = [kind |-> "package", ctx |-> ActiveContext(st[r]),
                               blocked |-> st[r].blocked, by |-> r]]
  <2>1. CarriesVetted(s)
    BY <1>0, <1>3, <1>v DEF RoutingNode, CarriesVetted, ActiveContext, AgentState
  <2> HIDE DEF s
  <2>. QED  BY <1>1, <1>3, <1>c, <2>1 DEF RoutingNode, BeforeOpa, s
<1>4. CASE LlmResponseNode(r)
  <2>1. /\ CarriesVetted([st[r] EXCEPT !.status = "complete"])
        /\ CarriesVetted([st[r] EXCEPT !.status = "complete", !.resp.kind = "answer"])
    BY <1>0 DEF CarriesVetted, AgentState, Response
  <2>. QED  BY <1>1, <1>4, <1>c, <2>1 DEF LlmResponseNode, BeforeOpa
<1>5. CASE ClarificationNode(r)
  <2>1. CarriesVetted([st[r] EXCEPT !.status = "complete", !.asked = TRUE,
                                    !.resp = [kind |-> "question", ctx |-> {},
                                              blocked |-> FALSE, by |-> r]])
    BY <1>0 DEF CarriesVetted, AgentState
  <2>. QED  BY <1>1, <1>5, <2>1 DEF ClarificationNode, BeforeOpa
<1>6. CASE FailedTerminalNode(r)
  <2>1. CarriesVetted([st[r] EXCEPT !.status = "failed"])
    BY <1>0 DEF CarriesVetted, AgentState
  <2>. QED  BY <1>1, <1>6, <2>1 DEF FailedTerminalNode, BeforeOpa
<1>. QED  BY <1>2, <1>3, <1>4, <1>5, <1>6

\* The steps that answer: the trace writer, the response, an exception.
LEMMA AnswersVetted ==
  ASSUME TypeOK, VettedInv, NEW r \in Runs,
         TraceWriterNode(r) \/ Respond(r) \/ Abort(r)
  PROVE  VettedInv'
<1>0. /\ UNCHANGED history /\ Vetted' = Vetted /\ NoResponse.ctx = {}
      /\ CarriesVetted(st[r]) /\ st[r].resp.ctx \subseteq Vetted
  BY VettedStable DEF TraceWriterNode, Respond, Abort, NoResponse, VettedInv,
     CarriesVetted
<1>1. CASE TraceWriterNode(r)
  <2>1. CASE Advance(r, st[r], "end")
    <3>1. Gates(r)'
      BY <2>1 DEF Gates, Advance, TypeOK, BeforeOpa
    <3>. QED  BY <1>0, <2>1, <3>1, AdvanceVetted DEF history
  <2>2. CASE Answer(r, "error", NoResponse) /\ UNCHANGED <<st, saved, ckpt>>
    BY <1>0, <2>2, AnswerVetted DEF history
  <2>. QED  BY <1>1, <2>1, <2>2 DEF TraceWriterNode
<1>2. CASE Respond(r)
  BY <1>0, <1>2, AnswerVetted DEF Respond, history
<1>3. CASE Abort(r)
  BY <1>0, <1>3, AnswerVetted DEF Abort, history
<1>. QED  BY <1>1, <1>2, <1>3

\* A crash answers nothing, the expiry forgets nothing that was released.
LEMMA EnvironmentVetted ==
  ASSUME TypeOK, VettedInv, (\E p \in Processes : Crash(p)) \/ Expire
  PROVE  VettedInv'
<1>0. UNCHANGED <<st, ckpt, history>> /\ Vetted' = Vetted
  BY VettedStable DEF Crash, Expire
<1>1. ASSUME NEW q \in Runs
      PROVE  /\ pc'[q] = pc[q] \/ pc'[q] = "done"
             /\ answer'[q].resp.ctx = {} \/ answer'[q] = answer[q]
  BY DEF Crash, Expire, NoResponse
<1>2. ASSUME NEW q \in Runs PROVE Gates(q)'
  BY <1>0, <1>1 DEF VettedInv, Gates, VettedIn, BeforeOpa, history
<1>3. ASSUME NEW q \in Runs PROVE answer'[q].resp.ctx \subseteq Vetted
  BY <1>1 DEF VettedInv
<1>. QED  BY <1>0, <1>2, <1>3 DEF VettedInv, CarriesVetted

\* VettedInv is an invariant: nothing is in the channels at the start.
LEMMA VettedAlways == Spec => []VettedInv
<1>1. Init => VettedInv
  BY DEF Init, VettedInv, CarriesVetted, Gates, InitialState, NoResponse, NoAnswer
<1>2. TypeOK /\ VettedInv /\ [Next]_vars => VettedInv'
  <2> SUFFICES ASSUME TypeOK, VettedInv, [Next]_vars PROVE VettedInv'
    OBVIOUS
  <2>1. ASSUME NEW r \in Runs, Execute(r) \/ ReplyRead(r) \/ Progress(r) \/ Abort(r)
        PROVE  VettedInv'
    BY <2>1, StartVetted, BeforeOpaVetted, OpaVetted, BehindOpaVetted, AnswersVetted
       DEF Progress
  <2>2. CASE UNCHANGED vars
    BY <2>2 DEF vars, VettedInv, CarriesVetted, Gates, Vetted, VettedIn
  <2>. QED  BY <2>1, <2>2, EnvironmentVetted DEF Next
<1>. QED  BY <1>1, <1>2, TypeCorrect, PTL DEF Spec

\* In every session, whatever fails and however its replies overlap, no
\* caller receives an item that did not pass the scan and OPA.
THEOREM OnlyVettedIsReleased == Spec => []ReleasedWasVetted
<1>1. VettedInv => ReleasedWasVetted
  BY DEF VettedInv, ReleasedWasVetted
<1>. QED  BY <1>1, VettedAlways, PTL

-----------------------------------------------------------------------------
(* The gate.  Most steps of a run are not visible to the callers; a run    *)
(* vets at OPA, where nothing is recorded as allowed in it yet, and it is  *)
(* answered from channels that carry vetted items only.                    *)

\* Until a run is done its caller has nothing.
Silent == \A r \in Runs : pc[r] # "done" => answer[r].resp.ctx = {}

LEMMA PhaseFacts ==
    ASSUME NEW r \in Runs
    PROVE  /\ Phase(r) = "idle" <=> pc[r] = "idle"
           /\ Phase(r) = "done" <=> pc[r] = "done"
           /\ Phase(r) = "open" <=> pc[r] \notin {"idle", "done"}
           /\ Phase(r) \in {"idle", "open", "done"}
BY DEF Phase

\* A step that no caller can see.
LEMMA Unseen ==
    ASSUME \A q \in Runs : /\ Phase(q)' = Phase(q)
                           /\ VettedIn(q)' = VettedIn(q)
                           /\ answer'[q].resp.ctx = answer[q].resp.ctx
    PROVE  UNCHANGED Gate!gateVars
BY DEF Gate!gateVars

\* A node behind which the run goes on, and which leaves vetting alone.
LEMMA UnseenAdvance ==
    ASSUME TypeOK, NEW r \in Runs, NEW s, NEW next, Advance(r, s, next),
           pc[r] \notin {"idle", "done"}, next \notin {"idle", "done"},
           \A q \in Runs : VettedIn(q)' = VettedIn(q)
    PROVE  UNCHANGED Gate!gateVars
<1>1. pc'[r] = next /\ \A q \in Runs \ {r} : pc'[q] = pc[q]
  BY DEF Advance, TypeOK
<1>2. \A q \in Runs : Phase(q)' = Phase(q)
  BY <1>1 DEF Phase
<1>3. answer' = answer
  BY DEF Advance
<1>. QED  BY <1>2, <1>3, Unseen

\* An open run is answered with vetted items.
LEMMA AnswerReleases ==
    ASSUME TypeOK, NEW r \in Runs, NEW kind, NEW resp, Answer(r, kind, resp),
           UNCHANGED history, pc[r] \notin {"idle", "done"},
           resp.ctx \in SUBSET Items, resp.ctx \subseteq Vetted
    PROVE  Gate!Next
<1>1. /\ pc'[r] = "done" /\ \A q \in Runs \ {r} : pc'[q] = pc[q]
      /\ answer'[r].resp = resp /\ \A q \in Runs \ {r} : answer'[q] = answer[q]
  BY DEF Answer, TypeOK
<1>2. Phase(r) = "open" /\ Phase(r)' = "done" /\ \A q \in Runs \ {r} : Phase(q)' = Phase(q)
  BY <1>1 DEF Phase
<1>3. \A q \in Runs : VettedIn(q)' = VettedIn(q)
  BY DEF VettedIn, history
<1>4. Gate!Release(r, resp.ctx)
  <2>1. [q \in Runs |-> Phase(q)'] = [[q \in Runs |-> Phase(q)] EXCEPT ![r] = "done"]
    BY <1>2
  <2>2. [q \in Runs |-> answer'[q].resp.ctx]
        = [[q \in Runs |-> answer[q].resp.ctx] EXCEPT ![r] = resp.ctx]
    BY <1>1
  <2>3. [q \in Runs |-> VettedIn(q)'] = [q \in Runs |-> VettedIn(q)]
    BY <1>3
  <2>4. resp.ctx \subseteq UNION {[q \in Runs |-> VettedIn(q)][x] : x \in Runs}
    BY DEF Vetted
  <2>. QED  BY <1>2, <2>1, <2>2, <2>3, <2>4 DEF Gate!Release
<1>. QED  BY <1>4 DEF Gate!Next

LEMMA StartIsOfTheGate ==
    ASSUME TypeOK, VettedInv, Silent, NEW r \in Runs,
           Execute(r) \/ ReplyRead(r) \/ ReplyStart(r)
    PROVE  [Gate!Next]_(Gate!gateVars)
<1>0. /\ UNCHANGED history /\ NoResponse.ctx = {} /\ {} \in SUBSET Items
      /\ \A q \in Runs : VettedIn(q)' = VettedIn(q)
  BY DEF Execute, ReplyRead, ReplyStart, NoResponse, VettedIn, history
<1>1. ASSUME pc[r] = "idle", pc'[r] \notin {"idle", "done"}, answer' = answer,
             \A q \in Runs \ {r} : pc'[q] = pc[q]
      PROVE  Gate!Open(r)
  <2>1. Phase(r) = "idle" /\ Phase(r)' = "open" /\ \A q \in Runs \ {r} : Phase(q)' = Phase(q)
    BY <1>1 DEF Phase
  <2>2. [q \in Runs |-> Phase(q)'] = [[q \in Runs |-> Phase(q)] EXCEPT ![r] = "open"]
    BY <2>1
  <2>. QED  BY <1>0, <1>1, <2>1, <2>2 DEF Gate!Open
<1>2. CASE Execute(r)
  <2>1. /\ pc[r] = "idle" /\ pc'[r] = "intent_agent" /\ answer' = answer
        /\ \A q \in Runs \ {r} : pc'[q] = pc[q]
    BY <1>2 DEF Execute, Advance, TypeOK
  <2>. QED  BY <1>1, <2>1 DEF Gate!Next
<1>3. CASE ReplyRead(r)
  <2>1. CASE pc' = [pc EXCEPT ![r] = "resume"] /\ UNCHANGED answer
    <3>1. /\ pc[r] = "idle" /\ pc'[r] = "resume" /\ answer' = answer
          /\ \A q \in Runs \ {r} : pc'[q] = pc[q]
      BY <1>3, <2>1 DEF ReplyRead, TypeOK
    <3>. QED  BY <1>1, <3>1 DEF Gate!Next
  <2>2. CASE Answer(r, "error", NoResponse)
    <3>1. /\ pc[r] = "idle" /\ pc'[r] = "done" /\ \A q \in Runs \ {r} : pc'[q] = pc[q]
          /\ answer'[r].resp.ctx = {} /\ \A q \in Runs \ {r} : answer'[q] = answer[q]
      BY <1>0, <1>3, <2>2 DEF ReplyRead, Answer, TypeOK
    <3>2. \A q \in Runs : answer'[q].resp.ctx = answer[q].resp.ctx
      BY <3>1 DEF Silent
    <3>3. Phase(r) = "idle" /\ Phase(r)' = "done"
          /\ \A q \in Runs \ {r} : Phase(q)' = Phase(q)
      BY <3>1 DEF Phase
    <3>4. [q \in Runs |-> Phase(q)'] = [[q \in Runs |-> Phase(q)] EXCEPT ![r] = "done"]
      BY <3>3
    <3>5. Gate!Refuse(r)
      BY <1>0, <3>2, <3>3, <3>4 DEF Gate!Refuse
    <3>. QED  BY <3>5 DEF Gate!Next
  <2>. QED  BY <1>3, <2>1, <2>2 DEF ReplyRead
<1>4. CASE ReplyStart(r)
  <2>1. pc[r] = "resume"
    BY <1>4 DEF ReplyStart
  <2>2. ASSUME NEW s, Advance(r, s, "intent_agent") PROVE UNCHANGED Gate!gateVars
    BY <1>0, <2>1, <2>2, UnseenAdvance
  <2>3. ASSUME Answer(r, "error", NoResponse) PROVE Gate!Next
    BY <1>0, <2>1, <2>3, AnswerReleases
  <2>. QED  BY <1>4, <2>2, <2>3 DEF ReplyStart
<1>. QED  BY <1>2, <1>3, <1>4

LEMMA NodeIsOfTheGate ==
    ASSUME TypeOK, VettedInv, NEW r \in Runs,
           \/ IntentNode(r)         \/ RetrievalNode(r)  \/ KnowledgeGraphNode(r)
           \/ GovernanceNode(r)     \/ OpaFilterNode(r)  \/ CompressionNode(r)
           \/ RoutingNode(r)        \/ LlmResponseNode(r)
           \/ ClarificationNode(r)  \/ FailedTerminalNode(r)
    PROVE  [Gate!Next]_(Gate!gateVars)
<1>1. pc[r] \notin {"idle", "done"}
  BY DEF IntentNode, RetrievalNode, KnowledgeGraphNode, GovernanceNode, OpaFilterNode,
         CompressionNode, RoutingNode, LlmResponseNode, ClarificationNode,
         FailedTerminalNode
<1>2. ASSUME UNCHANGED history PROVE \A q \in Runs : VettedIn(q)' = VettedIn(q)
  BY <1>2 DEF VettedIn, history
<1>3. ASSUME NEW s, NEW next, next \notin {"idle", "done"}, Advance(r, s, next),
             UNCHANGED history
      PROVE  UNCHANGED Gate!gateVars
  BY <1>1, <1>2, <1>3, UnseenAdvance
<1>4. CASE IntentNode(r)
  <2>1. \A s, low : RouteAfterIntent(s, low) \notin {"idle", "done"}
    BY DEF RouteAfterIntent
  <2>. QED  BY <1>3, <1>4, <2>1 DEF IntentNode
<1>5. CASE RetrievalNode(r)
  <2>1. \E s : Advance(r, s, "knowledge_graph")
    BY <1>5, Zenon DEF RetrievalNode
  <2>2. UNCHANGED history
    BY <1>5 DEF RetrievalNode
  <2>. QED  BY <1>3, <2>1, <2>2
<1>6. CASE KnowledgeGraphNode(r)
  <2>1. \E s : Advance(r, s, "governance_agent")
    BY <1>6, Zenon DEF KnowledgeGraphNode
  <2>2. UNCHANGED history
    BY <1>6 DEF KnowledgeGraphNode
  <2>. QED  BY <1>3, <2>1, <2>2
<1>7. CASE GovernanceNode(r)
  <2>1. allowed[r] = {} /\ allowed' = allowed /\ \A q \in Runs \ {r} : scanned'[q] = scanned[q]
    BY <1>7 DEF GovernanceNode, VettedInv, Gates, BeforeOpa, TypeOK
  <2>2. \A q \in Runs : VettedIn(q)' = VettedIn(q)
    BY <2>1 DEF VettedIn
  <2>3. \E s : Advance(r, s, "opa_filter")
    BY <1>7 DEF GovernanceNode
  <2>. QED  BY <1>1, <2>2, <2>3, UnseenAdvance
<1>8. CASE OpaFilterNode(r)
  <2>1. allowed[r] = {} /\ pc[r] = "opa_filter" /\ st[r] \in AgentState
    BY <1>8 DEF OpaFilterNode, VettedInv, Gates, BeforeOpa, TypeOK
  <2>2. \A s, over : RouteAfterGovernance(s, over) \notin {"idle", "done"}
    BY DEF RouteAfterGovernance
  <2>3. ASSUME NEW kept \in SUBSET st[r].ranked, NEW s, NEW over,
               Advance(r, s, RouteAfterGovernance(s, over)),
               allowed' = [allowed EXCEPT ![r] = kept], UNCHANGED scanned
        PROVE  Gate!Next
    <3>1. /\ VettedIn(r) = {} /\ VettedIn(r)' \in SUBSET Items
          /\ \A q \in Runs \ {r} : VettedIn(q)' = VettedIn(q)
      BY <2>1, <2>3 DEF VettedIn, TypeOK, AgentState
    <3>2. /\ pc'[r] \notin {"idle", "done"} /\ \A q \in Runs \ {r} : pc'[q] = pc[q]
          /\ answer' = answer
      BY <2>2, <2>3 DEF Advance, TypeOK
    <3>3. Phase(r) = "open" /\ \A q \in Runs : Phase(q)' = Phase(q)
      BY <2>1, <3>2 DEF Phase
    <3>4. [q \in Runs |-> VettedIn(q)']
          = [[q \in Runs |-> VettedIn(q)] EXCEPT ![r] = VettedIn(r)']
      BY <3>1
    <3>5. [q \in Runs |-> Phase(q)'] = [q \in Runs |-> Phase(q)]
      BY <3>3
    <3>6. Gate!Vet(r, VettedIn(r)')
      BY <3>1, <3>2, <3>3, <3>4, <3>5 DEF Gate!Vet
    <3>. QED  BY <3>1, <3>6 DEF Gate!Next
  <2>4. ASSUME NEW s, NEW over, Advance(r, s, RouteAfterGovernance(s, over)),
               UNCHANGED history
        PROVE  UNCHANGED Gate!gateVars
    BY <1>3, <2>2, <2>4
  <2>5. ASSUME NEW s, Advance(r, s, "pipeline_failed"), UNCHANGED history
        PROVE  UNCHANGED Gate!gateVars
    BY <1>3, <2>5
  <2>6. \/ /\ Advance(r, st[r], RouteAfterGovernance(st[r], FALSE))
           /\ UNCHANGED history
        \/ \E kept \in SUBSET st[r].ranked, over \in BOOLEAN : \E s :
             /\ Advance(r, s, RouteAfterGovernance(s, over))
             /\ allowed' = [allowed EXCEPT ![r] = kept]
             /\ UNCHANGED scanned
        \/ /\ Advance(r, Caught(r, "opa_filter"), "pipeline_failed")
           /\ UNCHANGED history
    BY <1>8, Zenon DEF OpaFilterNode, history
  <2>. QED  BY <2>3, <2>4, <2>5, <2>6, Zenon
<1>9. CASE CompressionNode(r)
  <2>1. \E s : Advance(r, s, "routing_agent")
    BY <1>9, Zenon DEF CompressionNode
  <2>2. UNCHANGED history
    BY <1>9 DEF CompressionNode
  <2>. QED  BY <1>3, <2>1, <2>2
<1>10. CASE RoutingNode(r)
  BY <1>3, <1>10 DEF RoutingNode
<1>11. CASE LlmResponseNode(r)
  BY <1>3, <1>11 DEF LlmResponseNode
<1>12. CASE ClarificationNode(r)
  BY <1>3, <1>12 DEF ClarificationNode
<1>13. CASE FailedTerminalNode(r)
  BY <1>3, <1>13 DEF FailedTerminalNode
<1>. QED
  BY <1>4, <1>5, <1>6, <1>7, <1>8, <1>9, <1>10, <1>11, <1>12, <1>13

LEMMA EndIsOfTheGate ==
    ASSUME TypeOK, VettedInv, NEW r \in Runs,
           TraceWriterNode(r) \/ Respond(r) \/ Abort(r)
    PROVE  [Gate!Next]_(Gate!gateVars)
<1>0. /\ UNCHANGED history /\ pc[r] \notin {"idle", "done"}
      /\ \A q \in Runs : VettedIn(q)' = VettedIn(q)
  BY DEF TraceWriterNode, Respond, Abort, Nodes, TerminalNodes, VettedIn, history
<1>1. /\ NoResponse.ctx \in SUBSET Items /\ NoResponse.ctx \subseteq Vetted
      /\ st[r].resp.ctx \in SUBSET Items /\ st[r].resp.ctx \subseteq Vetted
  BY DEF NoResponse, TypeOK, AgentState, Response, VettedInv, CarriesVetted
<1>2. ASSUME NEW kind, Answer(r, kind, NoResponse) PROVE Gate!Next
  BY <1>0, <1>1, <1>2, AnswerReleases
<1>3. CASE TraceWriterNode(r)
  <2>1. CASE Advance(r, st[r], "end")
    BY <1>0, <2>1, UnseenAdvance
  <2>. QED  BY <1>2, <1>3, <2>1 DEF TraceWriterNode
<1>4. CASE Respond(r)
  <2>1. CASE Answer(r, "success", st[r].resp)
    BY <1>0, <1>1, <2>1, AnswerReleases
  <2>. QED  BY <1>2, <1>4, <2>1 DEF Respond
<1>5. CASE Abort(r)
  BY <1>2, <1>5 DEF Abort
<1>. QED  BY <1>3, <1>4, <1>5

LEMMA EnvironmentIsOfTheGate ==
    ASSUME TypeOK, Silent, (\E p \in Processes : Crash(p)) \/ Expire
    PROVE  [Gate!Next]_(Gate!gateVars)
<1>1. ASSUME NEW p \in Processes, Crash(p) PROVE Gate!Next
  <2>1. p \in SUBSET Runs
    BY DEF Processes, Runs
  <2>2. \A q \in Runs : /\ pc'[q] = IF q \in p /\ InFlight(q) THEN "done" ELSE pc[q]
                        /\ answer'[q].resp.ctx = answer[q].resp.ctx
    BY <1>1 DEF Crash, Silent, InFlight, NoResponse
  <2>3. \A q \in Runs : Phase(q)' = IF q \in p /\ Phase(q) = "open" THEN "done" ELSE Phase(q)
    BY <2>2 DEF Phase, InFlight
  <2>4. \A q \in Runs : VettedIn(q)' = VettedIn(q)
    BY <1>1 DEF Crash, VettedIn, history
  <2>5. Gate!Lose(p)
    BY <2>2, <2>3, <2>4 DEF Gate!Lose
  <2>. QED  BY <2>1, <2>5 DEF Gate!Next
<1>2. CASE Expire
  BY <1>2, Unseen DEF Expire, Phase, VettedIn, history
<1>. QED  BY <1>1, <1>2

\* What is silent stays so until the gate closes behind it.
LEMMA GateIsSilent ==
    ASSUME Silent, [Gate!Next]_(Gate!gateVars)
    PROVE  Silent'
<1>. DEFINE phase == [q \in Runs |-> Phase(q)]
            received == [q \in Runs |-> answer[q].resp.ctx]
<1>1. \A q \in Runs : phase[q] # "done" => received[q] = {}
  BY PhaseFacts DEF Silent
<1>2. phase' = [q \in Runs |-> Phase(q)'] /\ received' = [q \in Runs |-> answer'[q].resp.ctx]
  OBVIOUS
<1>3. \A q \in Runs : phase'[q] # "done" => received'[q] = {}
  <2>1. ASSUME NEW r \in Runs, Gate!Open(r) \/ Gate!Refuse(r)
        PROVE  \A q \in Runs : phase'[q] # "done" => received'[q] = {}
    BY <1>1, <2>1 DEF Gate!Open, Gate!Refuse
  <2>2. ASSUME NEW r \in Runs, NEW S, Gate!Vet(r, S) \/ Gate!Release(r, S)
        PROVE  \A q \in Runs : phase'[q] # "done" => received'[q] = {}
    BY <1>1, <2>2 DEF Gate!Vet, Gate!Release
  <2>3. ASSUME NEW R, Gate!Lose(R)
        PROVE  \A q \in Runs : phase'[q] # "done" => received'[q] = {}
    BY <1>1, <2>3 DEF Gate!Lose
  <2>4. CASE UNCHANGED Gate!gateVars
    BY <1>1, <2>4 DEF Gate!gateVars
  <2>. QED  BY <2>1, <2>2, <2>3, <2>4 DEF Gate!Next
<1>4. \A q \in Runs : pc'[q] # "done" => phase'[q] # "done"
  BY DEF Phase
<1>. QED  BY <1>3, <1>4 DEF Silent

\* A session implements the gate, for any number of replies and any items:
\* every step of its runs is one of the gate, or none that a caller sees.
THEOREM SessionIsAGate == Spec => GateSpec
<1>1. Init => Silent /\ Gate!Init
  <2> SUFFICES ASSUME Init PROVE Silent /\ Gate!Init
    OBVIOUS
  <2>1. \A r \in Runs : Phase(r) = "idle" /\ VettedIn(r) = {} /\ answer[r].resp.ctx = {}
    BY DEF Init, Phase, VettedIn, NoAnswer, NoResponse
  <2>. QED  BY <2>1 DEF Silent, Gate!Init
<1>2. TypeOK /\ VettedInv /\ Silent /\ [Next]_vars => [Gate!Next]_(Gate!gateVars)
  <2> SUFFICES ASSUME TypeOK, VettedInv, Silent, [Next]_vars
               PROVE  [Gate!Next]_(Gate!gateVars)
    OBVIOUS
  <2>1. ASSUME NEW r \in Runs, Execute(r) \/ ReplyRead(r) \/ Progress(r) \/ Abort(r)
        PROVE  [Gate!Next]_(Gate!gateVars)
    BY <2>1, StartIsOfTheGate, NodeIsOfTheGate, EndIsOfTheGate DEF Progress
  <2>2. CASE UNCHANGED vars
    BY <2>2, Unseen DEF vars, Phase, VettedIn
  <2>. QED  BY <2>1, <2>2, EnvironmentIsOfTheGate DEF Next
<1>3. Silent /\ [Gate!Next]_(Gate!gateVars) => Silent'
  BY GateIsSilent
<1>. QED  BY <1>1, <1>2, <1>3, TypeCorrect, VettedAlways, PTL
          DEF Spec, GateSpec, Gate!Spec

-----------------------------------------------------------------------------
(* Failures are named.  The error payload of an earlier run or node stays  *)
(* in the channels, so that a failed status alone names nothing: what the  *)
(* OPA node passes on as failed must have been failed by the governance    *)
(* node just before it.                                                    *)

NamedInv ==
    \A r \in Runs :
        /\ pc[r] = "pipeline_failed" =>
              st[r].error \in {"intent_agent", "governance_agent", "opa_filter"}
        /\ pc[r] = "opa_filter" /\ st[r].status = "failed" =>
              st[r].error = "governance_agent"

\* A node keeps NamedInv when what it hands on as failed is named.
LEMMA AdvanceNamed ==
  ASSUME TypeOK, NamedInv, NEW r \in Runs, NEW s, NEW next, Advance(r, s, next),
         next = "pipeline_failed" =>
            s.error \in {"intent_agent", "governance_agent", "opa_filter"},
         next = "opa_filter" /\ s.status = "failed" => s.error = "governance_agent"
  PROVE  NamedInv'
  BY DEF TypeOK, NamedInv, Advance

\* Nothing else touches the channels, and a run that ends is in no node.
LEMMA OthersNamed ==
  ASSUME NamedInv, UNCHANGED st,
         \A q \in Runs : pc'[q] = pc[q] \/ pc'[q] \in {"resume", "done"}
  PROVE  NamedInv'
  BY DEF NamedInv

\* Every step of a run keeps NamedInv.
LEMMA RunNamed ==
  ASSUME TypeOK, NamedInv, NEW r \in Runs,
         Execute(r) \/ ReplyRead(r) \/ Progress(r) \/ Abort(r)
  PROVE  NamedInv'
<1>0. st[r] \in AgentState
  BY DEF TypeOK
<1>c. ASSUME NEW node PROVE Caught(r, node).error = node
  BY <1>0 DEF Caught, AgentState
<1>1. ASSUME NEW s, NEW next, Advance(r, s, next),
             next \notin {"pipeline_failed", "opa_filter"}
      PROVE  NamedInv'
  BY <1>1, AdvanceNamed
<1>2. ASSUME NEW kind, NEW resp, Answer(r, kind, resp), UNCHANGED <<st, saved, ckpt>>
      PROVE  NamedInv'
  BY <1>2, OthersNamed DEF Answer, TypeOK
<1>3. CASE Execute(r)
  BY <1>1, <1>3 DEF Execute
<1>3a. CASE ReplyStart(r)
  <2>1. ASSUME NEW revived \in BOOLEAN,
               Advance(r, [ckpt EXCEPT !.round = 1, !.status = "pending",
                                       !.inherited = ckpt.ranked # {},
                                       !.rankedObj = @ /\ revived,
                                       !.compObj = @ /\ revived],
                       "intent_agent")
        PROVE  NamedInv'
    BY <1>1, <2>1
  <2>. QED  BY <1>2, <1>3a, <2>1, Zenon DEF ReplyStart
<1>4. CASE ReplyRead(r)
  BY <1>2, <1>4, OthersNamed DEF ReplyRead, TypeOK
<1>5. CASE IntentNode(r)
  <2>1. ASSUME NEW low \in BOOLEAN
        PROVE  RouteAfterIntent([st[r] EXCEPT !.status = "running"], low)
                 \notin {"pipeline_failed", "opa_filter"}
    BY <1>0 DEF RouteAfterIntent, AgentState
  <2>2. CASE Advance(r, Caught(r, "intent_agent"), "pipeline_failed")
    BY <1>c, <2>2, AdvanceNamed
  <2>. QED  BY <1>1, <1>5, <2>1, <2>2 DEF IntentNode
<1>6a. CASE RetrievalNode(r)
  <2>1. ASSUME NEW found,
               Advance(r, [st[r] EXCEPT !.status = "running", !.ranked = found,
                                        !.inherited = FALSE, !.rankedObj = FALSE],
                       "knowledge_graph")
        PROVE  NamedInv'
    BY <1>1, <2>1
  <2>2. CASE Advance(r, Caught(r, "retrieval_agent"), "knowledge_graph")
    BY <1>1, <2>2
  <2>. QED  BY <1>6a, <2>1, <2>2, Zenon DEF RetrievalNode
<1>6b. CASE KnowledgeGraphNode(r)
  <2>1. ASSUME NEW found,
               Advance(r, [st[r] EXCEPT !.ranked = @ \cup found,
                                        !.rankedObj = FALSE],
                       "governance_agent")
        PROVE  NamedInv'
    BY <1>1, <2>1
  <2>2. CASE Advance(r, Caught(r, "knowledge_graph"), "governance_agent")
    BY <1>1, <2>2
  <2>. QED  BY <1>6b, <2>1, <2>2, Zenon DEF KnowledgeGraphNode
<1>6c. CASE CompressionNode(r)
  <2>1. ASSUME NEW kept,
               Advance(r, [st[r] EXCEPT !.status = "running",
                                        !.ranked = kept, !.rankedObj = TRUE,
                                        !.compressed = kept, !.compObj = TRUE,
                                        !.compBy = r],
                       "routing_agent")
        PROVE  NamedInv'
    BY <1>1, <2>1
  <2>2. CASE Advance(r, Caught(r, "compression_agent"), "routing_agent")
    BY <1>1, <2>2
  <2>. QED  BY <1>6c, <2>1, <2>2, Zenon DEF CompressionNode
<1>6d. CASE RoutingNode(r)
  BY <1>1, <1>6d DEF RoutingNode
<1>6e. CASE LlmResponseNode(r)
  BY <1>1, <1>6e DEF LlmResponseNode
<1>6f. CASE ClarificationNode(r)
  BY <1>1, <1>6f DEF ClarificationNode
<1>6g. CASE FailedTerminalNode(r)
  BY <1>1, <1>6g DEF FailedTerminalNode
<1>7. CASE GovernanceNode(r)
  <2>1. ASSUME NEW s, Advance(r, s, "opa_filter"), s.status = "running"
        PROVE  NamedInv'
    BY <2>1, AdvanceNamed
  <2>2. CASE Advance(r, Caught(r, "governance_agent"), "opa_filter")
    BY <1>c, <2>2, AdvanceNamed
  <2>3. /\ [st[r] EXCEPT !.status = "running", !.ranked = {}, !.blocked = TRUE].status
             = "running"
        /\ [st[r] EXCEPT !.status = "running", !.blocked = FALSE,
                         !.redacted = @ \cup Findings(st[r].ranked)].status = "running"
    BY <1>0 DEF AgentState
  <2>. QED  BY <1>7, <2>1, <2>2, <2>3 DEF GovernanceNode
<1>8. CASE OpaFilterNode(r)
  <2>1. st[r].status = "failed" => st[r].error = "governance_agent"
    BY <1>8 DEF OpaFilterNode, NamedInv
  <2>2. ASSUME NEW s, NEW over \in BOOLEAN, Advance(r, s, RouteAfterGovernance(s, over)),
               s.status = st[r].status, s.error = st[r].error
        PROVE  NamedInv'
    <3>1. RouteAfterGovernance(s, over) = "pipeline_failed" => st[r].status = "failed"
      BY <2>2 DEF RouteAfterGovernance
    <3>2. RouteAfterGovernance(s, over) # "opa_filter"
      BY DEF RouteAfterGovernance
    <3>. QED  BY <2>1, <2>2, <3>1, <3>2, AdvanceNamed
  <2>3. CASE Advance(r, Caught(r, "opa_filter"), "pipeline_failed")
    BY <1>c, <2>3, AdvanceNamed
  <2>4. ASSUME NEW kept
        PROVE  /\ [st[r] EXCEPT !.ranked = kept].status = st[r].status
               /\ [st[r] EXCEPT !.ranked = kept].error = st[r].error
    BY <1>0 DEF AgentState
  <2>. QED  BY <1>8, <2>2, <2>3, <2>4 DEF OpaFilterNode
<1>9. CASE TraceWriterNode(r) \/ Respond(r) \/ Abort(r)
  BY <1>1, <1>2, <1>9 DEF TraceWriterNode, Respond, Abort
<1>. QED  BY <1>3, <1>3a, <1>4, <1>5, <1>6a, <1>6b, <1>6c, <1>6d, <1>6e,
          <1>6f, <1>6g, <1>7, <1>8, <1>9 DEF Progress

\* In every session a run ends in pipeline_failed only for a failure of one
\* of the three nodes that can end it, and its payload names that node.
THEOREM FailuresAreNamed == Spec => []FailureIsNamed
<1>1. Init => NamedInv
  BY DEF Init, NamedInv
<1>2. TypeOK /\ NamedInv /\ [Next]_vars => NamedInv'
  <2> SUFFICES ASSUME TypeOK, NamedInv, [Next]_vars PROVE NamedInv'
    OBVIOUS
  <2>1. CASE (\E p \in Processes : Crash(p)) \/ Expire
    BY <2>1, OthersNamed DEF Crash, Expire
  <2>2. CASE UNCHANGED vars
    BY <2>2 DEF vars, NamedInv
  <2>. QED  BY <2>1, <2>2, RunNamed DEF Next
<1>3. NamedInv => FailureIsNamed
  BY DEF NamedInv, FailureIsNamed
<1>. QED  BY <1>1, <1>2, <1>3, TypeCorrect, PTL DEF Spec

-----------------------------------------------------------------------------
(* A run's own gates decide.  What a run answers with comes from channels  *)
(* that earlier runs may have filled, so the invariant says from when on a *)
(* run can be the author of what is in the channels, the checkpoint        *)
(* included: of a compressed context once it has passed the compression    *)
(* node, of a response once it has passed the routing node.  In between,   *)
(* a scan that timed out has emptied the context, which is why its run is  *)
(* never sent to compression.                                              *)

Unwritten == BeforeOpa \cup {"compression_agent"}
Unanswered == Unwritten \cup {"routing_agent"}

NotYet(s, r) ==
    /\ pc[r] \in Unwritten => s.compBy # r
    /\ pc[r] \in Unanswered => s.resp.by # r
    /\ s.compBy = NoRun => s.compressed = {}

OwnItems(resp, by, r, vetted) ==
    resp.by = r /\ by \in {NoRun, r} =>
        /\ resp.ctx \subseteq vetted
        /\ resp.blocked => resp.ctx = {}

TimeoutEmpties(r) ==
    /\ pc[r] = "opa_filter" /\ st[r].status # "failed" /\ st[r].blocked =>
          st[r].ranked = {}
    /\ pc[r] = "compression_agent" => ~st[r].blocked
    /\ pc[r] = "routing_agent" =>
          /\ st[r].blocked => st[r].ranked = {} /\ st[r].compBy # r
          /\ st[r].compBy = r => st[r].compressed \subseteq VettedIn(r)

OwnInv ==
    /\ \A q \in Runs : NotYet(ckpt, q)
    /\ \A r, q \in Runs : NotYet(st[r], q)
    /\ \A r \in Runs : TimeoutEmpties(r)
    /\ \A r \in Runs : OwnItems(st[r].resp, st[r].compBy, r, VettedIn(r))
    /\ \A r \in Runs : OwnItems(answer[r].resp, st[r].compBy, r, VettedIn(r))
    /\ \A r \in Runs : pc[r] # "done" => answer[r].resp = NoResponse

\* A step that merges the channels s into run r keeps the invariant when s
\* is written by r, and only as far as r has got, over channels in order.
LEMMA AdvanceOwn ==
  ASSUME TypeOK, OwnInv, NEW r \in Runs, NEW base, NEW s, NEW next,
         Advance(r, s, next), pc[r] # "done", next # "done",
         \A q \in Runs \ {r} : scanned'[q] = scanned[q] /\ allowed'[q] = allowed[q],
         \A q \in Runs : NotYet(base, q),
         s.compBy \in {base.compBy, r}, s.resp.by \in {base.resp.by, r},
         s.compBy = NoRun => s.compressed = {},
         next \in Unwritten => pc[r] \in Unwritten /\ s.compBy = base.compBy,
         next \in Unanswered => pc[r] \in Unanswered /\ s.resp.by = base.resp.by,
         TimeoutEmpties(r)', OwnItems(s.resp, s.compBy, r, VettedIn(r)')
  PROVE  OwnInv'
<1>1. /\ st'[r] = s /\ ckpt' = s /\ pc'[r] = next /\ answer' = answer
      /\ \A q \in Runs \ {r} : st'[q] = st[q] /\ pc'[q] = pc[q]
  BY DEF TypeOK, Advance
<1>2. ASSUME NEW q \in Runs PROVE NotYet(s, q)'
  BY <1>1 DEF NotYet
<1>3. ASSUME NEW p \in Runs, NEW q \in Runs PROVE NotYet(st[p], q)'
  <2>1. CASE p = r
    BY <1>1, <1>2, <2>1 DEF NotYet
  <2>2. CASE p # r
    BY <1>1, <2>2 DEF OwnInv, NotYet
  <2>. QED  BY <2>1, <2>2
<1>4. ASSUME NEW q \in Runs, q # r
      PROVE  /\ TimeoutEmpties(q)'
             /\ OwnItems(st[q].resp, st[q].compBy, q, VettedIn(q))'
             /\ OwnItems(answer[q].resp, st[q].compBy, q, VettedIn(q))'
  BY <1>1, <1>4 DEF OwnInv, TimeoutEmpties, OwnItems, VettedIn
<1>5. /\ OwnItems(st[r].resp, st[r].compBy, r, VettedIn(r))'
      /\ OwnItems(answer[r].resp, st[r].compBy, r, VettedIn(r))'
  <2>1. answer[r].resp.by = NoRun /\ NoRun # r
    BY RunAssumption DEF OwnInv, NoResponse, Runs
  <2>. QED  BY <1>1, <2>1 DEF OwnItems
<1>6. ASSUME NEW q \in Runs, pc'[q] # "done" PROVE answer'[q].resp = NoResponse
  BY <1>1, <1>6 DEF OwnInv
<1>7. ASSUME NEW q \in Runs PROVE NotYet(ckpt, q)'
  BY <1>1, <1>2 DEF NotYet
<1>. QED  BY <1>3, <1>4, <1>5, <1>6, <1>7 DEF OwnInv

\* The case of a node that writes neither a compressed context nor a new
\* response.
LEMMA KeepOwn ==
  ASSUME TypeOK, OwnInv, NEW r \in Runs, NEW s, NEW next,
         Advance(r, s, next), pc[r] # "done", next # "done",
         \A q \in Runs \ {r} : scanned'[q] = scanned[q] /\ allowed'[q] = allowed[q],
         s.compBy = st[r].compBy, s.compressed = st[r].compressed,
         s.resp.by = st[r].resp.by, s.resp.ctx = st[r].resp.ctx,
         s.resp.blocked = st[r].resp.blocked,
         next \in Unwritten => pc[r] \in Unwritten,
         next \in Unanswered => pc[r] \in Unanswered,
         pc[r] \in Unanswered \/ UNCHANGED history,
         TimeoutEmpties(r)'
  PROVE  OwnInv'
<1>1. \A q \in Runs : NotYet(st[r], q)
  BY DEF OwnInv
<1>2. OwnItems(s.resp, s.compBy, r, VettedIn(r)')
  <2>1. CASE pc[r] \in Unanswered
    BY <1>1, <2>1 DEF OwnItems, NotYet
  <2>2. CASE UNCHANGED history
    <3>1. VettedIn(r)' = VettedIn(r)
      BY <2>2 DEF VettedIn, history
    <3>. QED  BY <3>1 DEF OwnInv, OwnItems
  <2>. QED  BY <2>1, <2>2
<1>3. s.compBy = NoRun => s.compressed = {}
  BY <1>1 DEF NotYet
<1>. QED  BY <1>1, <1>2, <1>3, AdvanceOwn

\* Answering with nothing, or with the response of the channels.
LEMMA AnswerOwn ==
  ASSUME TypeOK, OwnInv, NEW r \in Runs, NEW kind, NEW resp,
         Answer(r, kind, resp), UNCHANGED <<st, saved, ckpt, history>>,
         resp \in {NoResponse, st[r].resp}
  PROVE  OwnInv'
<1>1. /\ answer'[r].resp = resp /\ pc'[r] = "done"
      /\ \A q \in Runs \ {r} : answer'[q] = answer[q] /\ pc'[q] = pc[q]
  BY DEF Answer, TypeOK
<1>2. "done" \notin Unanswered /\ "done" \notin Unwritten
  BY DEF Unanswered, Unwritten, BeforeOpa
<1>3. ASSUME NEW q \in Runs PROVE OwnItems(answer[q].resp, st[q].compBy, q, VettedIn(q))'
  <2>1. CASE q = r
    <3>1. NoResponse.by = NoRun /\ NoRun # r
      BY RunAssumption DEF NoResponse, Runs
    <3>. QED  BY <1>1, <2>1, <3>1 DEF OwnInv, OwnItems, VettedIn, history
  <2>2. CASE q # r
    BY <1>1, <2>2 DEF OwnInv, OwnItems, VettedIn, history
  <2>. QED  BY <2>1, <2>2
<1>4. ASSUME NEW q \in Runs
      PROVE  /\ NotYet(ckpt, q)' /\ TimeoutEmpties(q)'
             /\ OwnItems(st[q].resp, st[q].compBy, q, VettedIn(q))'
  BY <1>1, <1>2 DEF OwnInv, NotYet, TimeoutEmpties, OwnItems, VettedIn, history
<1>5. ASSUME NEW p \in Runs, NEW q \in Runs PROVE NotYet(st[p], q)'
  BY <1>1, <1>2 DEF OwnInv, NotYet
<1>6. ASSUME NEW q \in Runs, pc'[q] # "done" PROVE answer'[q].resp = NoResponse
  BY <1>1, <1>6 DEF OwnInv
<1>. QED  BY <1>3, <1>4, <1>5, <1>6 DEF OwnInv

\* Starting a run: a reply takes over what others wrote, never what it will
\* write itself.
LEMMA StartOwn ==
  ASSUME TypeOK, OwnInv, NEW r \in Runs, Execute(r) \/ ReplyRead(r) \/ ReplyStart(r)
  PROVE  OwnInv'
<1>0. UNCHANGED history
  BY Zenon DEF Execute, ReplyRead, ReplyStart
<1>1. ASSUME NEW base, NEW s, Advance(r, s, "intent_agent"), pc[r] \in {"idle", "resume"},
             \A q \in Runs : NotYet(base, q), s.compBy = base.compBy,
             s.compressed = base.compressed, s.resp = base.resp
      PROVE  OwnInv'
  <2>1. TimeoutEmpties(r)'
    BY <1>1 DEF TimeoutEmpties, Advance, TypeOK
  <2>2. pc[r] \in Unwritten /\ pc[r] \in Unanswered
    BY <1>1 DEF Unwritten, Unanswered, BeforeOpa
  <2>3. s.resp.by # r /\ (s.compBy = NoRun => s.compressed = {})
    BY <1>1, <2>2 DEF NotYet
  <2>4. OwnItems(s.resp, s.compBy, r, VettedIn(r)')
    BY <2>3 DEF OwnItems
  <2>. QED  BY <1>0, <1>1, <2>1, <2>2, <2>3, <2>4, AdvanceOwn DEF history
<1>2. CASE Execute(r)
  <2>1. \A q \in Runs : NotYet(InitialState, q)
    BY RunAssumption DEF NotYet, InitialState, NoResponse, Runs
  <2>. QED  BY <1>1, <1>2, <2>1 DEF Execute
<1>3. CASE ReplyRead(r)
  <2>1. CASE pc' = [pc EXCEPT ![r] = "resume"] /\ UNCHANGED answer
    <3>1. /\ pc'[r] = "resume" /\ \A q \in Runs \ {r} : pc'[q] = pc[q]
          /\ pc[r] = "idle" /\ UNCHANGED <<st, ckpt, answer, history>>
      BY <1>3, <2>1 DEF ReplyRead, TypeOK
    <3>2. {"idle", "resume"} \subseteq Unwritten /\ {"idle", "resume"} \subseteq Unanswered
      BY DEF Unwritten, Unanswered, BeforeOpa
    <3>3. ASSUME NEW q \in Runs
          PROVE  /\ NotYet(ckpt, q)' /\ TimeoutEmpties(q)'
                 /\ OwnItems(st[q].resp, st[q].compBy, q, VettedIn(q))'
                 /\ OwnItems(answer[q].resp, st[q].compBy, q, VettedIn(q))'
                 /\ pc'[q] # "done" => answer'[q].resp = NoResponse
      BY <3>1, <3>2 DEF OwnInv, NotYet, TimeoutEmpties, OwnItems, VettedIn, history
    <3>4. ASSUME NEW p \in Runs, NEW q \in Runs PROVE NotYet(st[p], q)'
      BY <3>1, <3>2 DEF OwnInv, NotYet
    <3>. QED  BY <3>3, <3>4 DEF OwnInv
  <2>2. CASE Answer(r, "error", NoResponse)
    BY <1>0, <1>3, <2>2, AnswerOwn DEF ReplyRead
  <2>. QED  BY <1>3, <2>1, <2>2 DEF ReplyRead
<1>4. CASE ReplyStart(r)
  <2>1. ASSUME NEW revived \in BOOLEAN,
               Advance(r, [ckpt EXCEPT !.round = 1, !.status = "pending",
                                       !.inherited = ckpt.ranked # {},
                                       !.rankedObj = @ /\ revived,
                                       !.compObj = @ /\ revived],
                       "intent_agent")
        PROVE  OwnInv'
    <3> DEFINE s == [ckpt EXCEPT !.round = 1, !.status = "pending",
                                 !.inherited = ckpt.ranked # {},
                                 !.rankedObj = @ /\ revived,
                                 !.compObj = @ /\ revived]
    <3>1. s.compBy = ckpt.compBy /\ s.compressed = ckpt.compressed /\ s.resp = ckpt.resp
      BY DEF TypeOK, AgentState
    <3>2. Advance(r, s, "intent_agent") /\ pc[r] = "resume"
      BY <1>4, <2>1, Zenon DEF ReplyStart
    <3> HIDE DEF s
    <3>3. \A q \in Runs : NotYet(ckpt, q)
      BY DEF OwnInv
    <3>. QED  BY <1>1, <3>1, <3>2, <3>3
  <2>2. CASE Answer(r, "error", NoResponse) /\ UNCHANGED <<st, saved, ckpt>>
    BY <1>0, <2>2, AnswerOwn
  <2>. QED  BY <1>4, <2>1, <2>2, Zenon DEF ReplyStart
<1>. QED  BY <1>2, <1>3, <1>4

\* The nodes up to the governance scan write neither field; only a scan that
\* timed out blocks, and it empties the context.
LEMMA BeforeOpaOwn ==
  ASSUME TypeOK, OwnInv, NEW r \in Runs,
         \/ IntentNode(r)       \/ RetrievalNode(r)
         \/ KnowledgeGraphNode(r)  \/ GovernanceNode(r)
  PROVE  OwnInv'
<1>0. st[r] \in AgentState
  BY DEF TypeOK
<1>1. ASSUME NEW s, NEW next, Advance(r, s, next),
             pc[r] \in BeforeOpa, next \in BeforeOpa \cup TerminalNodes,
             \A q \in Runs \ {r} : scanned'[q] = scanned[q] /\ allowed'[q] = allowed[q],
             s.compBy = st[r].compBy, s.compressed = st[r].compressed,
             s.resp = st[r].resp,
             next = "opa_filter" /\ s.status # "failed" /\ s.blocked => s.ranked = {}
      PROVE  OwnInv'
  <2>1. TimeoutEmpties(r)'
    BY <1>1 DEF TimeoutEmpties, Advance, TypeOK, BeforeOpa, TerminalNodes
  <2>2. /\ pc[r] # "done" /\ next # "done" /\ pc[r] \in Unwritten /\ pc[r] \in Unanswered
    BY <1>1 DEF Unwritten, Unanswered, BeforeOpa, TerminalNodes
  <2>. QED  BY <1>1, <2>1, <2>2, KeepOwn
<1>2. ASSUME NEW node
      PROVE  /\ Caught(r, node).compBy = st[r].compBy
             /\ Caught(r, node).compressed = st[r].compressed
             /\ Caught(r, node).resp = st[r].resp
             /\ Caught(r, node).status = "failed"
  BY <1>0 DEF Caught, AgentState
<1>c. ASSUME NEW node, NEW next, Advance(r, Caught(r, node), next), UNCHANGED history,
             pc[r] \in BeforeOpa, next \in BeforeOpa \cup TerminalNodes
      PROVE  OwnInv'
  BY <1>1, <1>2, <1>c DEF history
<1>3. CASE IntentNode(r)
  <2>1. pc[r] \in BeforeOpa /\ UNCHANGED history /\ "pipeline_failed" \in TerminalNodes
    BY <1>3, Zenon DEF IntentNode, BeforeOpa, TerminalNodes
  <2>2. ASSUME NEW low \in BOOLEAN,
               Advance(r, [st[r] EXCEPT !.status = "running"],
                       RouteAfterIntent([st[r] EXCEPT !.status = "running"], low))
        PROVE  OwnInv'
    <3> DEFINE s == [st[r] EXCEPT !.status = "running"]
    <3>1. s.compBy = st[r].compBy /\ s.compressed = st[r].compressed /\ s.resp = st[r].resp
      BY <1>0 DEF AgentState
    <3>2. RouteAfterIntent(s, low) \in (BeforeOpa \cup TerminalNodes) \ {"opa_filter"}
      BY DEF RouteAfterIntent, BeforeOpa, TerminalNodes
    <3> HIDE DEF s
    <3>. QED  BY <1>1, <2>1, <2>2, <3>1, <3>2 DEF history, s
  <2>3. CASE Advance(r, Caught(r, "intent_agent"), "pipeline_failed")
    BY <1>c, <2>1, <2>3
  <2>. QED  BY <1>3, <2>2, <2>3, Zenon DEF IntentNode
<1>4. CASE RetrievalNode(r)
  <2>1. pc[r] \in BeforeOpa /\ UNCHANGED history /\ "knowledge_graph" \in BeforeOpa
    BY <1>4, Zenon DEF RetrievalNode, BeforeOpa
  <2>2. ASSUME NEW found,
               Advance(r, [st[r] EXCEPT !.status = "running", !.ranked = found,
                                        !.inherited = FALSE, !.rankedObj = FALSE],
                       "knowledge_graph")
        PROVE  OwnInv'
    <3> DEFINE s == [st[r] EXCEPT !.status = "running", !.ranked = found,
                                  !.inherited = FALSE, !.rankedObj = FALSE]
    <3>1. s.compBy = st[r].compBy /\ s.compressed = st[r].compressed /\ s.resp = st[r].resp
      BY <1>0 DEF AgentState
    <3>2. Advance(r, s, "knowledge_graph")
      BY <2>2
    <3> HIDE DEF s
    <3>. QED  BY <1>1, <2>1, <3>1, <3>2 DEF history
  <2>3. CASE Advance(r, Caught(r, "retrieval_agent"), "knowledge_graph")
    BY <1>c, <2>1, <2>3
  <2>. QED  BY <1>4, <2>2, <2>3, Zenon DEF RetrievalNode
<1>5. CASE KnowledgeGraphNode(r)
  <2>1. pc[r] \in BeforeOpa /\ UNCHANGED history /\ "governance_agent" \in BeforeOpa
    BY <1>5, Zenon DEF KnowledgeGraphNode, BeforeOpa
  <2>2. ASSUME NEW found,
               Advance(r, [st[r] EXCEPT !.ranked = @ \cup found, !.rankedObj = FALSE],
                       "governance_agent")
        PROVE  OwnInv'
    <3> DEFINE s == [st[r] EXCEPT !.ranked = @ \cup found, !.rankedObj = FALSE]
    <3>1. s.compBy = st[r].compBy /\ s.compressed = st[r].compressed /\ s.resp = st[r].resp
      BY <1>0 DEF AgentState
    <3>2. Advance(r, s, "governance_agent")
      BY <2>2
    <3> HIDE DEF s
    <3>. QED  BY <1>1, <2>1, <3>1, <3>2 DEF history
  <2>3. CASE Advance(r, Caught(r, "knowledge_graph"), "governance_agent")
    BY <1>c, <2>1, <2>3
  <2>. QED  BY <1>5, <2>2, <2>3, Zenon DEF KnowledgeGraphNode
<1>6. CASE GovernanceNode(r)
  <2> DEFINE blocked == [st[r] EXCEPT !.status = "running", !.ranked = {},
                                      !.blocked = TRUE]
             passed == [st[r] EXCEPT !.status = "running", !.blocked = FALSE,
                                     !.redacted = @ \cup Findings(st[r].ranked)]
  <2>1. /\ blocked.compBy = st[r].compBy /\ blocked.compressed = st[r].compressed
        /\ blocked.resp = st[r].resp /\ blocked.ranked = {}
        /\ passed.compBy = st[r].compBy /\ passed.compressed = st[r].compressed
        /\ passed.resp = st[r].resp /\ ~passed.blocked
    BY <1>0 DEF AgentState
  <2> HIDE DEF blocked, passed
  <2>2. /\ pc[r] \in BeforeOpa /\ "opa_filter" \in BeforeOpa
        /\ \A q \in Runs \ {r} : scanned'[q] = scanned[q] /\ allowed'[q] = allowed[q]
    BY <1>6 DEF GovernanceNode, BeforeOpa, TypeOK
  <2>3. CASE Advance(r, blocked, "opa_filter")
    BY <1>1, <2>1, <2>2, <2>3
  <2>4. CASE Advance(r, passed, "opa_filter")
    BY <1>1, <2>1, <2>2, <2>4
  <2>5. CASE Advance(r, Caught(r, "governance_agent"), "opa_filter")
    BY <1>1, <1>2, <2>2, <2>5
  <2>. QED  BY <1>6, <2>3, <2>4, <2>5 DEF GovernanceNode, blocked, passed
<1>. QED  BY <1>3, <1>4, <1>5, <1>6

\* Only a context that holds something is sent to compression, so never one
\* that a timed out scan has emptied.
LEMMA OpaOwn ==
  ASSUME TypeOK, OwnInv, NEW r \in Runs, OpaFilterNode(r)
  PROVE  OwnInv'
<1>0. /\ pc[r] = "opa_filter" /\ st[r] \in AgentState /\ NotYet(st[r], r)
      /\ st[r].status # "failed" /\ st[r].blocked => st[r].ranked = {}
  BY DEF OpaFilterNode, OwnInv, TimeoutEmpties, TypeOK
<1>1. st[r].compBy # r /\ "opa_filter" \in Unwritten /\ "opa_filter" \in Unanswered
  BY <1>0 DEF NotYet, Unwritten, Unanswered, BeforeOpa
<1>2. ASSUME NEW s, NEW over \in BOOLEAN, Advance(r, s, RouteAfterGovernance(s, over)),
             s.compBy = st[r].compBy, s.compressed = st[r].compressed,
             s.resp = st[r].resp, s.status = st[r].status, s.blocked = st[r].blocked,
             s.ranked \subseteq st[r].ranked, over => s.ranked # {},
             \A q \in Runs \ {r} : scanned'[q] = scanned[q] /\ allowed'[q] = allowed[q]
      PROVE  OwnInv'
  <2> DEFINE next == RouteAfterGovernance(s, over)
  <2>1. /\ next \in {"pipeline_failed", "compression_agent", "routing_agent"}
        /\ next = "compression_agent" => over /\ s.status # "failed"
        /\ next = "routing_agent" => s.status # "failed"
    BY DEF RouteAfterGovernance
  <2>2. st'[r] = s /\ pc'[r] = next
    BY <1>2 DEF Advance, TypeOK
  <2> HIDE DEF next
  <2>3. s.status # "failed" /\ s.blocked => s.ranked = {}
    BY <1>0, <1>2
  <2>4. TimeoutEmpties(r)'
    BY <1>1, <1>2, <2>1, <2>2, <2>3 DEF TimeoutEmpties
  <2>. QED  BY <1>0, <1>1, <1>2, <2>1, <2>4, KeepOwn DEF next
<1>3. CASE /\ st[r].ranked = {} /\ UNCHANGED history
           /\ Advance(r, st[r], RouteAfterGovernance(st[r], FALSE))
  BY <1>2, <1>3 DEF history
<1>4. ASSUME NEW kept \in SUBSET st[r].ranked, NEW over \in BOOLEAN,
             over => MayExceedBudget([st[r] EXCEPT !.ranked = kept]),
             Advance(r, [st[r] EXCEPT !.ranked = kept],
                     RouteAfterGovernance([st[r] EXCEPT !.ranked = kept], over)),
             allowed' = [allowed EXCEPT ![r] = kept], UNCHANGED scanned
      PROVE  OwnInv'
  <2> DEFINE s == [st[r] EXCEPT !.ranked = kept]
  <2>1. /\ s.compBy = st[r].compBy /\ s.compressed = st[r].compressed
        /\ s.resp = st[r].resp /\ s.status = st[r].status /\ s.blocked = st[r].blocked
        /\ s.ranked = kept
    BY <1>0 DEF AgentState
  <2>2. \A q \in Runs \ {r} : allowed'[q] = allowed[q]
    BY <1>4 DEF TypeOK
  <2>3. Advance(r, s, RouteAfterGovernance(s, over)) /\ (over => MayExceedBudget(s))
    BY <1>4
  <2> HIDE DEF s
  <2>4. over => s.ranked # {}
    BY <2>3 DEF MayExceedBudget
  <2>. QED  BY <1>2, <1>4, <2>1, <2>2, <2>3, <2>4
<1>5. CASE Advance(r, Caught(r, "opa_filter"), "pipeline_failed") /\ UNCHANGED history
  <2>1. TimeoutEmpties(r)'
    BY <1>5 DEF TimeoutEmpties, Advance, TypeOK
  <2>2. /\ Caught(r, "opa_filter").compBy = st[r].compBy
        /\ Caught(r, "opa_filter").compressed = st[r].compressed
        /\ Caught(r, "opa_filter").resp = st[r].resp
    BY <1>0 DEF Caught, AgentState
  <2>. QED  BY <1>0, <1>1, <1>5, <2>1, <2>2, KeepOwn DEF history
<1>6. /\ \A q \in Runs \ {r} : scanned'[q] = scanned[q]
      /\ UNCHANGED scanned
  BY Zenon DEF OpaFilterNode
<1>. QED  BY <1>3, <1>4, <1>5, <1>6, Zenon DEF OpaFilterNode, history

\* Compression and routing write what their own run has vetted.
LEMMA WritersOwn ==
  ASSUME TypeOK, VettedInv, OwnInv, NEW r \in Runs, CompressionNode(r) \/ RoutingNode(r)
  PROVE  OwnInv'
<1>0. /\ st[r] \in AgentState /\ \A q \in Runs : NotYet(st[r], q)
      /\ VettedIn(r)' = VettedIn(r) /\ UNCHANGED history
      /\ st[r].ranked \subseteq VettedIn(r)
  <2>1. pc[r] \in {"compression_agent", "routing_agent"} /\ UNCHANGED history
    BY Zenon DEF CompressionNode, RoutingNode
  <2>. QED  BY <2>1 DEF TypeOK, VettedInv, Gates, OwnInv, VettedIn, history
<1>1. \A q \in Runs \ {r} : scanned'[q] = scanned[q] /\ allowed'[q] = allowed[q]
  BY <1>0 DEF history
<1>2. ASSUME NEW node
      PROVE  /\ Caught(r, node).compBy = st[r].compBy
             /\ Caught(r, node).compressed = st[r].compressed
             /\ Caught(r, node).resp = st[r].resp
             /\ Caught(r, node).blocked = st[r].blocked
  BY <1>0 DEF Caught, AgentState
<1>3. CASE CompressionNode(r)
  <2>0. /\ pc[r] = "compression_agent" /\ ~st[r].blocked
        /\ st[r].compBy # r /\ st[r].resp.by # r
        /\ "compression_agent" \in Unanswered /\ "routing_agent" \in Unanswered
        /\ "routing_agent" \notin Unwritten
    <3>1. pc[r] = "compression_agent"
      BY <1>3, Zenon DEF CompressionNode
    <3>. QED  BY <1>0, <3>1 DEF OwnInv, NotYet, TimeoutEmpties, Unwritten, Unanswered, BeforeOpa
  <2>1. ASSUME NEW kept \in SUBSET st[r].ranked,
               Advance(r, [st[r] EXCEPT !.status = "running",
                                        !.ranked = kept, !.rankedObj = TRUE,
                                        !.compressed = kept, !.compObj = TRUE,
                                        !.compBy = r],
                       "routing_agent")
        PROVE  OwnInv'
    <3> DEFINE s == [st[r] EXCEPT !.status = "running",
                                  !.ranked = kept, !.rankedObj = TRUE,
                                  !.compressed = kept, !.compObj = TRUE,
                                  !.compBy = r]
    <3>1. /\ s.compBy = r /\ s.compressed = kept /\ s.resp = st[r].resp
          /\ s.blocked = st[r].blocked
      BY <1>0 DEF AgentState
    <3>2. Advance(r, s, "routing_agent")
      BY <2>1
    <3> HIDE DEF s
    <3>3. st'[r] = s /\ pc'[r] = "routing_agent"
      BY <3>2 DEF Advance, TypeOK
    <3>4. TimeoutEmpties(r)'
      BY <1>0, <2>0, <3>1, <3>3 DEF TimeoutEmpties
    <3>5. OwnItems(s.resp, s.compBy, r, VettedIn(r)')
      BY <2>0, <3>1 DEF OwnItems
    <3>6. r # NoRun
      BY RunAssumption DEF Runs
    <3>. QED  BY <1>0, <1>1, <2>0, <3>1, <3>2, <3>4, <3>5, <3>6, AdvanceOwn
  <2>2. CASE Advance(r, Caught(r, "compression_agent"), "routing_agent")
    <3>1. TimeoutEmpties(r)'
      <4>1. st'[r] = Caught(r, "compression_agent") /\ pc'[r] = "routing_agent"
        BY <2>2 DEF Advance, TypeOK
      <4>. QED  BY <1>2, <2>0, <4>1 DEF TimeoutEmpties
    <3>. QED  BY <1>1, <1>2, <2>0, <2>2, <3>1, KeepOwn
  <2>. QED  BY <1>3, <2>1, <2>2, Zenon DEF CompressionNode
<1>4. CASE RoutingNode(r)
  <2>0. /\ pc[r] = "routing_agent" /\ "routing_agent" \in Unanswered
        /\ "llm_response_agent" \notin Unanswered /\ "llm_response_agent" \notin Unwritten
        /\ st[r].blocked => st[r].ranked = {} /\ st[r].compBy # r
        /\ st[r].compBy = r => st[r].compressed \subseteq VettedIn(r)
        /\ st[r].compBy = NoRun => st[r].compressed = {}
    <3>1. pc[r] = "routing_agent"
      BY <1>4, Zenon DEF RoutingNode
    <3>. QED  BY <1>0, <3>1 DEF OwnInv, NotYet, TimeoutEmpties, Unwritten, Unanswered, BeforeOpa
  <2>e. ASSUME pc'[r] = "llm_response_agent" PROVE TimeoutEmpties(r)'
    BY <2>e DEF TimeoutEmpties
  <2> DEFINE resp == [kind |-> "package", ctx |-> ActiveContext(st[r]),
                      blocked |-> st[r].blocked, by |-> r]
             s == [st[r] EXCEPT !.status = "running", !.model = TRUE, !.resp = resp]
  <2>1. CASE Advance(r, s, "llm_response_agent")
    <3>1. s.compBy = st[r].compBy /\ s.compressed = st[r].compressed /\ s.resp = resp
      BY <1>0 DEF AgentState
    <3>2. OwnItems(resp, st[r].compBy, r, VettedIn(r)')
      BY <1>0, <2>0 DEF OwnItems, ActiveContext
    <3>3. resp.by = r
      OBVIOUS
    <3> HIDE DEF s, resp
    <3>4. OwnItems(s.resp, s.compBy, r, VettedIn(r)')
      BY <1>0, <3>1, <3>2 DEF OwnItems
    <3>5. pc'[r] = "llm_response_agent"
      BY <2>1 DEF Advance, TypeOK
    <3>. QED  BY <1>0, <1>1, <2>0, <2>1, <2>e, <3>1, <3>3, <3>4, <3>5, AdvanceOwn
  <2>2. CASE Advance(r, Caught(r, "routing_agent"), "llm_response_agent")
    <3>1. pc'[r] = "llm_response_agent"
      BY <2>2 DEF Advance, TypeOK
    <3>. QED  BY <1>1, <1>2, <2>0, <2>2, <2>e, <3>1, KeepOwn
  <2>. QED  BY <1>4, <2>1, <2>2 DEF RoutingNode
<1>. QED  BY <1>3, <1>4

\* What follows changes the kind of a response, asks a question, or answers.
LEMMA EndingOwn ==
  ASSUME TypeOK, OwnInv, NEW r \in Runs,
         \/ LlmResponseNode(r)     \/ TraceWriterNode(r)  \/ ClarificationNode(r)
         \/ FailedTerminalNode(r)  \/ Respond(r)          \/ Abort(r)
  PROVE  OwnInv'
<1>0. st[r] \in AgentState /\ UNCHANGED history
  BY DEF TypeOK, LlmResponseNode, TraceWriterNode, ClarificationNode,
         FailedTerminalNode, Respond, Abort
<1>1. ASSUME NEW next, next \in {"trace_writer", "end"}, pc'[r] = next
      PROVE  /\ TimeoutEmpties(r)' /\ next # "done"
             /\ next \notin Unwritten /\ next \notin Unanswered
  BY <1>1 DEF TimeoutEmpties, Unwritten, Unanswered, BeforeOpa
<1>2. ASSUME NEW s, NEW next, Advance(r, s, next), next \in {"trace_writer", "end"},
             pc[r] # "done", s.compBy = st[r].compBy, s.compressed = st[r].compressed,
             s.resp.by = st[r].resp.by, s.resp.ctx = st[r].resp.ctx,
             s.resp.blocked = st[r].resp.blocked
      PROVE  OwnInv'
  <2>1. pc'[r] = next
    BY <1>2 DEF Advance, TypeOK
  <2>. QED  BY <1>0, <1>1, <1>2, <2>1, KeepOwn DEF history
<1>3. CASE LlmResponseNode(r)
  <2> DEFINE a == [st[r] EXCEPT !.status = "complete"]
             b == [st[r] EXCEPT !.status = "complete", !.resp.kind = "answer"]
             c == Caught(r, "llm_response_agent")
  <2>1. ASSUME NEW s \in {a, b, c}
        PROVE  /\ s.compBy = st[r].compBy /\ s.compressed = st[r].compressed
               /\ s.resp.by = st[r].resp.by /\ s.resp.ctx = st[r].resp.ctx
               /\ s.resp.blocked = st[r].resp.blocked
    <3>1. st[r].resp \in Response
      BY <1>0 DEF AgentState
    <3>2. CASE s = a
      BY <1>0, <3>2 DEF AgentState
    <3>3. CASE s = b
      BY <1>0, <3>1, <3>3 DEF AgentState, Response
    <3>4. CASE s = c
      BY <1>0, <3>4 DEF Caught, AgentState
    <3>. QED  BY <3>2, <3>3, <3>4
  <2> HIDE DEF a, b, c
  <2>2. ASSUME NEW s \in {a, b, c}, Advance(r, s, "trace_writer") PROVE OwnInv'
    BY <1>2, <1>3, <2>1, <2>2 DEF LlmResponseNode
  <2>. QED  BY <1>3, <2>2 DEF LlmResponseNode, a, b, c
<1>4. CASE TraceWriterNode(r)
  <2>1. CASE Advance(r, st[r], "end")
    BY <1>2, <1>4, <2>1 DEF TraceWriterNode
  <2>2. CASE Answer(r, "error", NoResponse) /\ UNCHANGED <<st, saved, ckpt>>
    BY <1>0, <2>2, AnswerOwn
  <2>. QED  BY <1>4, <2>1, <2>2 DEF TraceWriterNode
<1>5. CASE ClarificationNode(r)
  <2> DEFINE resp == [kind |-> "question", ctx |-> {}, blocked |-> FALSE, by |-> r]
             s == [st[r] EXCEPT !.status = "complete", !.asked = TRUE, !.resp = resp]
  <2>1. s.compBy = st[r].compBy /\ s.compressed = st[r].compressed /\ s.resp = resp
    BY <1>0 DEF AgentState
  <2>2. resp.by = r /\ OwnItems(resp, s.compBy, r, VettedIn(r)')
    BY DEF OwnItems
  <2>3. Advance(r, s, "end") /\ pc[r] # "done"
    BY <1>5 DEF ClarificationNode
  <2> HIDE DEF s, resp
  <2>4. pc'[r] = "end"
    BY <2>3 DEF Advance, TypeOK
  <2>5. /\ \A q \in Runs : NotYet(st[r], q)
        /\ s.compBy = NoRun => s.compressed = {}
    BY <2>1 DEF OwnInv, NotYet
  <2>6. OwnItems(s.resp, s.compBy, r, VettedIn(r)')
    BY <2>1, <2>2
  <2>. QED  BY <1>0, <1>1, <2>1, <2>2, <2>3, <2>4, <2>5, <2>6, AdvanceOwn DEF history
<1>6. CASE FailedTerminalNode(r)
  <2>1. LET s == [st[r] EXCEPT !.status = "failed"]
        IN  /\ s.compBy = st[r].compBy /\ s.compressed = st[r].compressed
            /\ s.resp = st[r].resp
    BY <1>0 DEF AgentState
  <2>. QED  BY <1>2, <1>6, <2>1 DEF FailedTerminalNode
<1>7. CASE Respond(r)
  BY <1>0, <1>7, AnswerOwn DEF Respond
<1>8. CASE Abort(r)
  BY <1>0, <1>8, AnswerOwn DEF Abort
<1>. QED  BY <1>3, <1>4, <1>5, <1>6, <1>7, <1>8

\* A crash and the expiry of the checkpoint write no channel.
LEMMA EnvironmentOwn ==
  ASSUME TypeOK, OwnInv, (\E p \in Processes : Crash(p)) \/ Expire
  PROVE  OwnInv'
<1>1. UNCHANGED <<st, ckpt, history>>
  BY DEF Crash, Expire
<1>2. ASSUME NEW q \in Runs
      PROVE  /\ pc'[q] = pc[q] \/ pc'[q] = "done"
             /\ answer'[q] = answer[q] \/ (answer'[q].resp = NoResponse /\ pc'[q] = "done")
  BY DEF Crash, Expire
<1>3. "done" \notin Unwritten /\ "done" \notin Unanswered
  BY DEF Unwritten, Unanswered, BeforeOpa
<1>4. ASSUME NEW q \in Runs
      PROVE  /\ NotYet(ckpt, q)' /\ TimeoutEmpties(q)'
             /\ OwnItems(st[q].resp, st[q].compBy, q, VettedIn(q))'
             /\ pc'[q] # "done" => answer'[q].resp = NoResponse
  BY <1>1, <1>2, <1>3 DEF OwnInv, NotYet, TimeoutEmpties, OwnItems, VettedIn, history
<1>5. ASSUME NEW q \in Runs PROVE OwnItems(answer[q].resp, st[q].compBy, q, VettedIn(q))'
  <2>1. NoResponse.by = NoRun /\ NoRun # q
    BY RunAssumption DEF NoResponse, Runs
  <2>. QED  BY <1>1, <1>2, <2>1 DEF OwnInv, OwnItems, VettedIn, history
<1>6. ASSUME NEW p \in Runs, NEW q \in Runs PROVE NotYet(st[p], q)'
  BY <1>1, <1>2, <1>3 DEF OwnInv, NotYet
<1>. QED  BY <1>4, <1>5, <1>6 DEF OwnInv

\* In every session a run that answers with a response of its own, over no
\* compressed context of another run, releases only what its own scan and
\* its own OPA pass let through, and nothing when its scan timed out.
THEOREM RunsOwnGatesDecide == Spec => []OwnGatesDecide
<1>1. Init => OwnInv
  BY RunAssumption DEF Init, OwnInv, NotYet, TimeoutEmpties, OwnItems, InitialState,
     NoResponse, NoAnswer, Runs
<1>2. TypeOK /\ VettedInv /\ OwnInv /\ [Next]_vars => OwnInv'
  <2> SUFFICES ASSUME TypeOK, VettedInv, OwnInv, [Next]_vars PROVE OwnInv'
    OBVIOUS
  <2>1. ASSUME NEW r \in Runs, Execute(r) \/ ReplyRead(r) \/ Progress(r) \/ Abort(r)
        PROVE  OwnInv'
    BY <2>1, StartOwn, BeforeOpaOwn, OpaOwn, WritersOwn, EndingOwn DEF Progress
  <2>2. CASE UNCHANGED vars
    BY <2>2 DEF vars, OwnInv, NotYet, TimeoutEmpties, OwnItems, VettedIn
  <2>. QED  BY <2>1, <2>2, EnvironmentOwn DEF Next
<1>3. OwnInv => OwnGatesDecide
  BY DEF OwnInv, OwnItems, OwnGatesDecide
<1>. QED  BY <1>1, <1>2, <1>3, VettedAlways, TypeCorrect, PTL DEF Spec
=============================================================================
