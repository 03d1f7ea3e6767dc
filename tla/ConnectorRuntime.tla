-------------------------- MODULE ConnectorRuntime --------------------------
(***************************************************************************)
(* The connectors of the API process: administrators switch knowledge      *)
(* sources on and off, every such request rebuilds the registry from the   *)
(* table and installs it, and retrievals fetch, from several connectors at *)
(* a time, through the ones that are installed when they start.            *)
(*                                                                         *)
(* A rebuild takes long -- connectors authenticate -- and nothing keeps    *)
(* two of them in the order of their changes.  The connector of a type     *)
(* serves the active sources that share the credentials of the newest;     *)
(* without any, or when it cannot authenticate, the connector of the       *)
(* environment's configuration stays, whose scope no source has set.       *)
(*                                                                         *)
(* A fetch is bounded by a timeout.  It also runs under a circuit breaker, *)
(* but each retrieval makes a dispatcher of its own and with it breakers,  *)
(* which one fetch cannot open: there is nothing of them to model.         *)
(***************************************************************************)
EXTENDS Naturals

CONSTANTS
    Types,       \* connector types
    Sources,     \* a newer one has a greater number
    TypeOf,      \* TypeOf[s]: the type of source s
    Elsewhere,   \* sources whose credentials are at the other Vault path
    Admins,      \* changes in progress at a time
    Retrievals,
    MaxChanges   \* bound on the changes of sources

ASSUME SourcesAssumption ==
    Sources \subseteq Nat /\ Elsewhere \subseteq Sources /\ TypeOf \in [Sources -> Types]
ASSUME BoundAssumption == MaxChanges \in Nat

VARIABLES
    active,    \* the active sources, in the table
    changes,   \* how often they were changed
    change,    \* change[a]: a change, its rebuild and what that has read
    registry,  \* registry[t]: the connector: scopes, whether enabled and refused
    behind,    \* (history) the last rebuild failed, or was overtaken by a change
    search     \* search[r]: a retrieval, its fetches and its result

connectorVars == <<active, changes, change, registry, behind, search>>

Idle == [pc |-> "idle", read |-> {}, fresh |-> FALSE]

\* The sources that the connector of type t for the active sources S searches.
Scopes(S, t) ==
    LET mine == {s \in S : TypeOf[s] = t}
    IN  {s \in mine : \E newest \in mine :
            /\ \A u \in mine : u <= newest
            /\ s \in Elsewhere <=> newest \in Elsewhere}

\* The connector of type t that authenticated, or the one of the environment.
Connector(S, t, authenticated, default) ==
    LET refused == Scopes(S, t) # {} /\ ~authenticated
    IN  [scopes  |-> IF refused THEN {} ELSE Scopes(S, t),
         enabled |-> default \/ (Scopes(S, t) # {} /\ authenticated),
         refused |-> refused]

\* A retrieval; (history) fit: whether the registry was that of the table
\* when it started, and then: what the table says it is to search.
NoSearch == [pc |-> "idle", fetch |-> [t \in Types |-> "none"],
             scopes |-> [t \in Types |-> {}], items |-> {}, degraded |-> {},
             fit |-> FALSE, then |-> [t \in Types |-> {}]]

ConnectorInit ==
    /\ active \in SUBSET Sources
    /\ changes = 0
    /\ change = [a \in Admins |-> Idle]
    /\ registry = [t \in Types |-> Connector(active, t, TRUE, TRUE)]
    /\ behind = FALSE
    /\ search = [r \in Retrievals |-> NoSearch]

-----------------------------------------------------------------------------
(* Changes of sources.                                                     *)

\* Create, toggle or delete of a source, committed; what another rebuild has
\* read is of the table before it.
CommitSource(a, s) ==
    /\ change[a].pc = "idle"
    /\ changes < MaxChanges
    /\ active' = IF s \in active THEN active \ {s} ELSE active \cup {s}
    /\ changes' = changes + 1
    /\ change' = [x \in Admins |-> IF x = a THEN [Idle EXCEPT !.pc = "committed"]
                                   ELSE [change[x] EXCEPT !.fresh = FALSE]]
    /\ UNCHANGED <<registry, behind, search>>

\* A new registry is loaded with the connectors of the environment; then the
\* sources are listed.
ReadSources(a) ==
    /\ change[a].pc = "committed"
    /\ change' = [change EXCEPT ![a] = [pc |-> "read", read |-> active, fresh |-> TRUE]]
    /\ UNCHANGED <<active, changes, registry, behind, search>>

\* Mutation of Install: the installed registry is updated in place, source by
\* source.
InstallInPlace(a) ==
    /\ change[a].pc = "read"
    /\ \E authenticated, default \in [Types -> BOOLEAN] :
        registry' = [t \in Types |->
                       IF Scopes(change[a].read, t) = {} THEN registry[t]
                       ELSE Connector(change[a].read, t, authenticated[t], default[t])]
    /\ behind' = ~change[a].fresh
    /\ change' = [change EXCEPT ![a] = Idle]
    /\ UNCHANGED <<active, changes, search>>

\* The connectors authenticate and replace the default ones, which may be
\* disabled; then the registry replaces the installed one as a whole.
Install(a) ==
    /\ change[a].pc = "read"
    /\ \E authenticated, default \in [Types -> BOOLEAN] :
        registry' = [t \in Types |->
                       Connector(change[a].read, t, authenticated[t], default[t])]
    /\ behind' = ~change[a].fresh
    /\ change' = [change EXCEPT ![a] = Idle]
    /\ UNCHANGED <<active, changes, search>>

\* The table cannot be read; the request fails, its change stays.
RebuildFails(a) ==
    /\ change[a].pc \in {"committed", "read"}
    /\ behind' = TRUE
    /\ change' = [change EXCEPT ![a] = Idle]
    /\ UNCHANGED <<active, changes, registry, search>>

-----------------------------------------------------------------------------
(* Retrievals.                                                             *)

AtRest == (\A a \in Admins : change[a].pc = "idle") /\ ~behind

\* fetch_all: all connectors are looked up before the first fetch awaits; a
\* disabled one fails without a fetch.
Start(r, plan) ==
    /\ search[r].pc = "idle"
    /\ search' = [search EXCEPT ![r] =
         [pc       |-> "fetching",
          fetch    |-> [t \in Types |-> IF t \notin plan THEN "none"
                                         ELSE IF registry[t].enabled THEN "waiting"
                                                                     ELSE "failed"],
          scopes   |-> [t \in Types |-> IF t \in plan THEN registry[t].scopes ELSE {}],
          items    |-> {},
          degraded |-> {},
          fit      |-> AtRest,
          then     |-> [t \in Types |->
                          IF ~AtRest \/ t \notin plan \/ registry[t].refused
                            THEN {} ELSE Scopes(active, t)]]]
    /\ UNCHANGED <<active, changes, change, registry, behind>>

Waiting(r, t) == search[r].pc = "fetching" /\ search[r].fetch[t] = "waiting"

\* Mutation of Answer: the connector is looked up when its turn comes.
AnswerOfInstalled(r, t) ==
    /\ Waiting(r, t)
    /\ search' = [search EXCEPT ![r].fetch[t] = "answered",
                                 ![r].scopes[t] = registry[t].scopes]
    /\ UNCHANGED <<active, changes, change, registry, behind>>

\* _fetch_one: items, or an empty list.
Answer(r, t) ==
    /\ Waiting(r, t)
    /\ search' = [search EXCEPT ![r].fetch[t] = "answered"]
    /\ UNCHANGED <<active, changes, change, registry, behind>>

\* Mutation of Fail: there is no timeout.
FailUnlessHung(r, t) == Waiting(r, t) /\ UNCHANGED connectorVars

\* The connector raises, or wait_for cancels it.
Fail(r, t) ==
    /\ Waiting(r, t)
    /\ search' = [search EXCEPT ![r].fetch[t] = "failed"]
    /\ UNCHANGED <<active, changes, change, registry, behind>>

Fetched(r) == {t \in Types : search[r].fetch[t] = "answered"}
Planned(r) == {t \in Types : search[r].fetch[t] # "none"}

\* Mutation of Gather: the first failure is the failure of all.
GatherOrRaise(r) ==
    /\ search[r].pc = "fetching"
    /\ \/ \A t \in Types : search[r].fetch[t] # "waiting"
       \/ \E t \in Types : search[r].fetch[t] = "failed"
    /\ LET failed == \E t \in Types : search[r].fetch[t] = "failed"
       IN  search' = [search EXCEPT ![r].pc = "ended",
                                    ![r].items = IF failed THEN {} ELSE Fetched(r),
                                    ![r].degraded = IF failed THEN Planned(r)
                                                    ELSE Planned(r) \ Fetched(r)]
    /\ UNCHANGED <<active, changes, change, registry, behind>>

\* gather with return_exceptions: all fetches end, each with its items or its
\* error.
Gather(r) ==
    /\ search[r].pc = "fetching"
    /\ \A t \in Types : search[r].fetch[t] # "waiting"
    /\ search' = [search EXCEPT ![r].pc = "ended",
                                 ![r].items = Fetched(r),
                                 ![r].degraded = Planned(r) \ Fetched(r)]
    /\ UNCHANGED <<active, changes, change, registry, behind>>

-----------------------------------------------------------------------------
ConnectorNext ==
    \/ \E a \in Admins :
        \/ \E s \in Sources : CommitSource(a, s)
        \/ ReadSources(a) \/ Install(a) \/ RebuildFails(a)
    \/ \E r \in Retrievals :
        \/ \E plan \in SUBSET Types : Start(r, plan)
        \/ \E t \in Types : Answer(r, t) \/ Fail(r, t)
        \/ Gather(r)

ConnectorSpec == ConnectorInit /\ [][ConnectorNext]_connectorVars

\* A connector may hang; the timeout ends the wait.
FairConnectorSpec ==
    /\ ConnectorSpec
    /\ \A r \in Retrievals :
        /\ WF_connectorVars(Gather(r))
        /\ \A t \in Types : WF_connectorVars(Fail(r, t))

-----------------------------------------------------------------------------
(* Properties.                                                             *)

Changes == [pc : {"idle", "committed", "read"}, read : SUBSET Sources, fresh : BOOLEAN]
Connectors == [scopes : SUBSET Sources, enabled : BOOLEAN, refused : BOOLEAN]
Searches ==
    [pc : {"idle", "fetching", "ended"},
     fetch : [Types -> {"none", "waiting", "answered", "failed"}],
     scopes : [Types -> SUBSET Sources], items : SUBSET Types, degraded : SUBSET Types,
     fit : BOOLEAN, then : [Types -> SUBSET Sources]]

ConnectorTypeOK ==
    /\ active \in SUBSET Sources
    /\ changes \in 0 .. MaxChanges
    /\ change \in [Admins -> Changes]
    /\ registry \in [Types -> Connectors]
    /\ behind \in BOOLEAN
    /\ search \in [Retrievals -> Searches]

\* When no change is under way, each connector searches the newest active
\* source of its type and those that share its credentials, and nothing
\* else; unless it was refused, or the last rebuild failed or had read the
\* table before another change.
RegistryFollowsTheSources ==
    AtRest => \A t \in Types :
        LET mine  == {s \in active : TypeOf[s] = t}
            found == registry[t].scopes
        IN  IF registry[t].refused
              THEN found = {}
              ELSE /\ found \subseteq mine
                   /\ \A s \in mine : (\A u \in mine : u <= s) => s \in found
                   /\ \A s \in found, u \in mine :
                        u \in found <=> (u \in Elsewhere <=> s \in Elsewhere)

\* A retrieval that starts at rest searches the sources of that moment's
\* table to its end, though the registry be replaced under its fetches.
RetrievalsKeepTheirScopes ==
    \A r \in Retrievals :
        search[r].fit => \A t \in Types : search[r].scopes[t] = search[r].then[t]

\* What one connector has found is in the result whatever the others do, and
\* every planned connector without items is reported as degraded.
AnswersSurviveFailures ==
    \A r \in Retrievals :
        search[r].pc = "ended" => \A t \in Planned(r) :
            IF search[r].fetch[t] = "answered" THEN t \in search[r].items
                                               ELSE t \in search[r].degraded

\* No connector keeps a retrieval waiting for good.
RetrievalsEnd == \A r \in Retrievals : search[r].pc = "fetching" ~> search[r].pc = "ended"
=============================================================================
