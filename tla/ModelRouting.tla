---------------------------- MODULE ModelRouting ----------------------------
(***************************************************************************)
(* The table of active models and the caches between it and the routing of *)
(* a request, for one intent: the model lists of the admin API and of the  *)
(* routing, filled on a miss, and the scored models, computed from the     *)
(* routing's list and kept under a key that names the weights used.        *)
(*                                                                         *)
(* Who changes the table deletes the lists and the scores after the commit *)
(* -- an installation job only the admin list, or nothing.  No fill is     *)
(* ordered with that, so a cache may get what was read before the change   *)
(* and keeps it until its time to live ends.                               *)
(*                                                                         *)
(* Scores are abstracted to the models and the weights they are made from, *)
(* and the three weights of a row to one number.  A request blends two     *)
(* rows, that of its intent and that of the general intent, by the         *)
(* confidence of its classification; the key of the scores is the blend    *)
(* rounded, so requests with close weights share scores.  For a request    *)
(* whose intent is the general one nothing is blended; the intent here is  *)
(* another one.  The active list and the list of all models are one cache. *)
(***************************************************************************)
EXTENDS Naturals

CONSTANTS
    Routable,    \* models that may be active
    RowWeights,  \* weights that a row of the table may hold
    Default,     \* the built-in weights of the intent
    General,     \* the built-in weights of the general intent
    Confidences, \* confidences of a classification, in Unit-ths
    Unit,        \* a confidence of 1.0, which is also assumed when there is none
    Grain,       \* third decimal of a weight, in the Unit-ths that a blend has
    Requests,    \* listings and routed requests in progress at a time
    Admins,      \* changes in progress at a time
    None,        \* no entry
    MaxChanges   \* bound on the changes of models and weights

ASSUME WeightsAssumption ==
    /\ RowWeights \subseteq Nat /\ {Default, General} \subseteq RowWeights
    /\ Unit \in Nat \ {0} /\ Confidences \subseteq 1 .. Unit /\ Unit \in Confidences
    /\ Grain \in Nat \ {0}
ASSUME NoneAssumption == None \notin [models : SUBSET Routable, fresh : BOOLEAN]
ASSUME BoundAssumption == MaxChanges \in Nat

Keys == {"admin", "routing"}
RowNames == {"intent", "general"}

\* _blend_weights: the row of the intent counts by the confidence.
Blend(intentRow, generalRow, confidence) ==
    intentRow * confidence + generalRow * (Unit - confidence)

\* Mutation of Key: the key names the intent alone.
KeyOfIntent(w) == 0

\* _routing_cache_key: the weights rounded to three decimals.
Key(w) == (2 * w + Grain) \div (2 * Grain)

Blends == {Blend(i, g, c) : i \in RowWeights, g \in RowWeights, c \in Confidences}
BuiltIn == Blend(Default, Default, Unit)
ScoreKeys == {Key(w) : w \in Blends}

VARIABLES
    active,    \* the active models, in the table
    weights,   \* weights[r]: the row of the intent and the general row, in the table
    changes,   \* how often either was changed
    list,      \* list[k]: a cached list, (history) whether it was read from the table as it is
    scored,    \* scored[k]: the cached scores under the key k
    request,   \* request[d]: step, weights, what it has read
    change     \* change[a]: what is left to invalidate

routingVars == <<active, weights, changes, list, scored, request, change>>

\* The row of its intent, its weights, those of the scores it selects by.
Idle == [pc |-> "idle", i |-> Default, w |-> BuiltIn, by |-> BuiltIn,
         models |-> {}, fresh |-> TRUE]

RoutingInit ==
    /\ active \in SUBSET Routable
    /\ weights = [r \in RowNames |-> IF r = "intent" THEN Default ELSE General]
    /\ changes = 0
    /\ list = [k \in Keys |-> None]
    /\ scored = [k \in ScoreKeys |-> None]
    /\ request = [d \in Requests |-> Idle]
    /\ change = [a \in Admins |-> {}]

\* The request has models in hand, to be cached.
Holding(d) == request[d].pc \in {"listing", "priming", "scoring", "rescoring"}

-----------------------------------------------------------------------------
(* Changes.                                                                *)

Spoiled(entry) == IF entry = None THEN None ELSE [entry EXCEPT !.fresh = FALSE]

\* An entry that no one will delete any more.
SpoilRest(left) ==
    /\ list' = [k \in Keys |-> IF k \in left THEN Spoiled(list[k]) ELSE list[k]]
    /\ scored' = IF "scores" \in left
                   THEN [k \in ScoreKeys |-> Spoiled(scored[k])] ELSE scored

\* What a change deletes after its commit: the admin routes everything, the
\* job of an Ollama model the admin list, the job of a hosted model nothing.
Invalidates == {{"admin", "routing", "scores"}, {"admin"}, {}}

\* The commit; what requests have read by now is of the table before it.
CommitChange(a, S, due) ==
    /\ change[a] = {} /\ changes < MaxChanges
    /\ S # active
    /\ active' = S
    /\ changes' = changes + 1
    /\ change' = [change EXCEPT ![a] = due]
    /\ request' = [d \in Requests |-> [request[d] EXCEPT !.fresh = @ /\ ~Holding(d)]]
    /\ SpoilRest({"admin", "routing", "scores"} \ due)
    /\ UNCHANGED weights

\* Mutation of DropLists: the routing's own list is forgotten.
DropAdminList(a) ==
    /\ change[a] \cap Keys # {}
    /\ list' = [list EXCEPT !["admin"] = None]
    /\ change' = [change EXCEPT ![a] = @ \ Keys]
    /\ UNCHANGED <<active, weights, changes, scored, request>>

\* The lists are deleted before the scores.
DropLists(a) ==
    /\ change[a] \cap Keys # {}
    /\ list' = [k \in Keys |-> IF k \in change[a] THEN None ELSE list[k]]
    /\ change' = [change EXCEPT ![a] = @ \ Keys]
    /\ UNCHANGED <<active, weights, changes, scored, request>>

DropScores(a) ==
    /\ change[a] = {"scores"}
    /\ scored' = [k \in ScoreKeys |-> None]
    /\ change' = [change EXCEPT ![a] = {}]
    /\ UNCHANGED <<active, weights, changes, list, request>>

\* The audit row or Redis fails after the commit: the rest is not deleted.
InvalidationFails(a) ==
    /\ change[a] # {}
    /\ SpoilRest(change[a])
    /\ change' = [change EXCEPT ![a] = {}]
    /\ UNCHANGED <<active, weights, changes, request>>

\* New weights of one row need no invalidation to be obeyed: unless they are
\* the old ones rounded, the scores have other keys.
UpdateWeights(a, r, n) ==
    /\ change[a] = {} /\ changes < MaxChanges
    /\ weights' = [weights EXCEPT ![r] = n]
    /\ changes' = changes + 1
    /\ change' = [change EXCEPT ![a] = {"scores"}]
    /\ UNCHANGED <<active, list, scored, request>>

-----------------------------------------------------------------------------
(* Listings and routed requests.                                           *)

\* A request goes on, with no models in hand.
Proceed(d, step) ==
    request' = [request EXCEPT ![d].pc = step, ![d].models = {}, ![d].fresh = TRUE]

\* A request has read the models S and goes on with step.
Holds(d, step, S, isFresh) ==
    request' = [request EXCEPT ![d].pc = step, ![d].models = S, ![d].fresh = isFresh]

Entry(d) == [models |-> request[d].models, fresh |-> request[d].fresh]

\* The admin list misses: it is read from the table ...
ListModels(d) ==
    /\ request[d].pc = "idle"
    /\ list["admin"] = None
    /\ Holds(d, "listing", active, TRUE)
    /\ UNCHANGED <<active, weights, changes, list, scored, change>>

\* ... and cached.
SetAdminList(d) ==
    /\ request[d].pc = "listing"
    /\ list' = [list EXCEPT !["admin"] = Entry(d)]
    /\ request' = [request EXCEPT ![d] = Idle]
    /\ UNCHANGED <<active, weights, changes, scored, change>>

\* routing_node: prime the routing's list.
PrimeList(d) ==
    /\ request[d].pc = "idle"
    /\ IF list["routing"] # None
         THEN Proceed(d, "primed")
         ELSE Holds(d, "priming", active, TRUE)
    /\ UNCHANGED <<active, weights, changes, list, scored, change>>

\* An error of Redis is swallowed here.
SetRoutingList(d) ==
    /\ request[d].pc = "priming"
    /\ \/ list' = [list EXCEPT !["routing"] = Entry(d)]
       \/ UNCHANGED list
    /\ Proceed(d, "primed")
    /\ UNCHANGED <<active, weights, changes, scored, change>>

\* _resolve_effective_weights: the row of the intent is read ...
ReadIntentRow(d) ==
    /\ request[d].pc = "primed"
    /\ request' = [request EXCEPT ![d].pc = "halfread", ![d].i = weights["intent"]]
    /\ UNCHANGED <<active, weights, changes, list, scored, change>>

\* ... then, in a session of its own, the general row; the two are blended by
\* the request's confidence.
ReadGeneralRow(d, confidence) ==
    /\ request[d].pc = "halfread"
    /\ request' = [request EXCEPT
                     ![d].pc = "weighed", ![d].i = Default,
                     ![d].w = Blend(request[d].i, weights["general"], confidence)]
    /\ UNCHANGED <<active, weights, changes, list, scored, change>>

\* The models to be scored, and how far they are those of the table.
Candidates == IF list["routing"] = None THEN {} ELSE list["routing"].models
CandidatesFresh == list["routing"] # None /\ list["routing"].fresh /\ Candidates = active

\* Cached scores, or the list; without a list or a model, the fixed fallback
\* model (nothing is scored then).
Select(d) ==
    LET entry == scored[Key(request[d].w)] IN
    /\ request[d].pc = "weighed"
    /\ \/ /\ entry # None
          /\ request' = [request EXCEPT ![d].pc = "selected", ![d].by = entry.by]
       \/ /\ entry = None
          /\ request' = [request EXCEPT ![d].pc = IF Candidates = {} THEN "selected" ELSE "scoring",
                                        ![d].by = request[d].w,
                                        ![d].models = Candidates,
                                        ![d].fresh = Candidates = {} \/ CandidatesFresh]
    /\ UNCHANGED <<active, weights, changes, list, scored, change>>

SetScores(d) ==
    /\ request[d].pc \in {"scoring", "rescoring"}
    /\ scored' = [scored EXCEPT ![Key(request[d].w)] =
                    [models |-> request[d].models, fresh |-> request[d].fresh,
                     by |-> request[d].by]]
    /\ IF request[d].pc = "scoring"
         THEN Proceed(d, "selected")
         ELSE request' = [request EXCEPT ![d] = Idle]
    /\ UNCHANGED <<active, weights, changes, list, change>>

\* The chain is cut from the cached scores.  When they have gone since the
\* selection, select is called again, without the weights.
BuildFallbackChain(d) ==
    /\ request[d].pc = "selected"
    /\ IF scored[Key(request[d].w)] # None \/ Candidates = {}
         THEN request' = [request EXCEPT ![d] = Idle]
         ELSE request' = [request EXCEPT ![d].pc = "rescoring", ![d].by = BuiltIn,
                                         ![d].models = Candidates, ![d].fresh = CandidatesFresh]
    /\ UNCHANGED <<active, weights, changes, list, scored, change>>

\* An error of Redis or the database, or the caller goes away.
Abandon(d) ==
    /\ request[d].pc # "idle"
    /\ request' = [request EXCEPT ![d] = Idle]
    /\ UNCHANGED <<active, weights, changes, list, scored, change>>

-----------------------------------------------------------------------------
(* Time to live.                                                           *)

\* Mutation of ExpireList: the list has no time to live.
KeepList(k) == list[k] # None /\ UNCHANGED routingVars

ExpireList(k) ==
    /\ list[k] # None
    /\ list' = [list EXCEPT ![k] = None]
    /\ UNCHANGED <<active, weights, changes, scored, request, change>>

ExpireScores(k) ==
    /\ scored[k] # None
    /\ scored' = [scored EXCEPT ![k] = None]
    /\ UNCHANGED <<active, weights, changes, list, request, change>>

-----------------------------------------------------------------------------
RoutingNext ==
    \/ \E a \in Admins :
        \/ \E S \in SUBSET Routable, due \in Invalidates : CommitChange(a, S, due)
        \/ \E r \in RowNames, n \in RowWeights : UpdateWeights(a, r, n)
        \/ DropLists(a) \/ DropScores(a) \/ InvalidationFails(a)
    \/ \E d \in Requests :
        \/ ListModels(d)    \/ SetAdminList(d)   \/ PrimeList(d) \/ SetRoutingList(d)
        \/ ReadIntentRow(d) \/ \E c \in Confidences : ReadGeneralRow(d, c)
        \/ Select(d)        \/ SetScores(d) \/ BuildFallbackChain(d) \/ Abandon(d)
    \/ \E k \in Keys : ExpireList(k)
    \/ \E k \in ScoreKeys : ExpireScores(k)

RoutingSpec == RoutingInit /\ [][RoutingNext]_routingVars

\* Redis removes what has reached its time to live.
FairRoutingSpec ==
    /\ RoutingSpec
    /\ \A k \in Keys : WF_routingVars(ExpireList(k))
    /\ \A k \in ScoreKeys : WF_routingVars(ExpireScores(k))

-----------------------------------------------------------------------------
(* Properties.                                                             *)

Lists  == [models : SUBSET Routable, fresh : BOOLEAN] \cup {None}
Scores == [models : SUBSET Routable, fresh : BOOLEAN, by : Blends] \cup {None}

RoutingTypeOK ==
    /\ active \in SUBSET Routable
    /\ weights \in [RowNames -> RowWeights]
    /\ changes \in 0 .. MaxChanges
    /\ list \in [Keys -> Lists]
    /\ scored \in [ScoreKeys -> Scores]
    /\ request \in [Requests ->
            [pc : {"idle", "listing", "priming", "primed", "halfread", "weighed", "scoring",
                   "selected", "rescoring"},
             i : RowWeights, w : Blends, by : Blends, models : SUBSET Routable, fresh : BOOLEAN]]
    /\ change \in [Admins -> SUBSET {"admin", "routing", "scores"}]

\* A cached list or score that differs from the table is about to be deleted,
\* or was read before a change and cached after it, or belongs to a change
\* whose deletions failed or which makes none: in a system at rest, whoever
\* changed a model through the admin API finds it changed everywhere.
CachesFollowTheTable ==
    /\ \A k \in Keys :
        list[k] # None /\ list[k].fresh =>
            list[k].models = active \/ \E a \in Admins : k \in change[a]
    /\ \A k \in ScoreKeys :
        scored[k] # None /\ scored[k].fresh =>
            scored[k].models = active \/ \E a \in Admins : "scores" \in change[a]

\* A difference of less than one in the third decimal.
Close(v, w) == v < w + Grain /\ w < v + Grain

\* Weights need no invalidation to be obeyed: whatever scores the requests
\* with older weights and other confidences have left in the cache, a request
\* is routed by scores made with weights close to its own.  The only others
\* are the built-in ones, with which a request fills its key again that has
\* lost its scores between its selection and its fallback chain.
SelectionIsCloseToItsWeights ==
    \A d \in Requests :
        request[d].pc = "selected" =>
            Close(request[d].by, request[d].w) \/ request[d].by = BuiltIn

\* However fills and deletions cross, what is stale goes away: when the table
\* is no longer changed, lists and scores come to agree with it for good.
StaleRoutesEnd ==
    /\ \A k \in Keys : <>[](list[k] # None => list[k].models = active)
    /\ \A k \in ScoreKeys : <>[](scored[k] # None => scored[k].models = active)
=============================================================================
