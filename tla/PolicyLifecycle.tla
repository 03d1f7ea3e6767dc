--------------------------- MODULE PolicyLifecycle ---------------------------
(***************************************************************************)
(* The versions of one governance policy group: created as drafts, edited, *)
(* activated, superseded, deactivated and deleted by administrators whose  *)
(* calls may overlap, and pushed to the Open Policy Agent (OPA), which     *)
(* keeps what it runs in memory only.                                      *)
(*                                                                         *)
(* A call is one database transaction at READ COMMITTED.  It reads its row *)
(* once: a second SELECT in the same session finds the row again but keeps *)
(* the attributes read first, so every status check is on those.  A write  *)
(* waits for the row and then applies to what is committed, which is why   *)
(* the writes of a call are one step here.  The audit entry is inserted by *)
(* the same transaction and is left out.                                   *)
(***************************************************************************)
EXTENDS Naturals

CONSTANTS
    Ids,          \* row ids a create may draw
    ValidBodies,  \* Rego sources that OPA compiles
    OtherBodies,  \* Rego sources that it rejects
    NoBody,       \* no source
    Calls         \* calls of activate, update, deactivate and delete: the bound

Bodies == ValidBodies \cup OtherBodies

ASSUME BodiesAssumption == NoBody \notin Bodies
ASSUME IdsAssumption == Ids # {}

\* "unborn" and "deleted": there is no row with this id.
PolicyStatus == {"unborn", "draft", "active", "superseded", "deleted"}
Ops   == {"activate", "update", "deactivate", "delete"}
Steps == {"idle", "validate", "push", "remove", "supersede", "commit", "done"}

VARIABLES
    rows,   \* policy_definitions
    live,   \* what OPA runs for the group
    pc,     \* pc[c]: the step call c is at
    call,   \* call[c]: operation, row, body (as read, or to be written), versions to supersede
    slips   \* (history) what has come between the table and OPA

vars == <<rows, live, pc, call, slips>>

Slips == {"overlap", "opa", "rollback", "restart"}

Exists(i) == rows[i].status \notin {"unborn", "deleted"}
Active    == {i \in Ids : rows[i].status = "active"}
InFlight  == {c \in Calls : pc[c] \notin {"idle", "done"}}

Init ==
    /\ rows = [i \in Ids |-> [status |-> "unborn", body |-> NoBody]]
    /\ live = NoBody
    /\ pc = [c \in Calls |-> "idle"]
    /\ call = [c \in Calls |-> [op |-> "update", id |-> CHOOSE i \in Ids : TRUE,
                                body |-> NoBody, others |-> {}]]
    /\ slips = {}

Goto(c, step) == pc' = [pc EXCEPT ![c] = step]
Slip(kinds)   == slips' = slips \cup kinds

-----------------------------------------------------------------------------
(* Reading: the checks that refuse a call are on the row as read here.     *)

\* POST /v1/policies.  A version that exists already is refused by the
\* unique constraint and changes nothing.
Create(i, b) ==
    /\ rows[i].status = "unborn"
    /\ rows' = [rows EXCEPT ![i] = [status |-> "draft", body |-> b]]
    /\ UNCHANGED <<live, pc, call, slips>>

Begin(c, op, i, b, first) ==
    /\ pc[c] = "idle"
    /\ call' = [call EXCEPT ![c] = [op |-> op, id |-> i, body |-> b, others |-> {}]]
    /\ Goto(c, first)
    /\ Slip(IF InFlight = {} THEN {} ELSE {"overlap"})
    /\ UNCHANGED <<rows, live>>

Activate(c, i) ==
    /\ Exists(i) /\ rows[i].status # "active"
    /\ Begin(c, "activate", i, rows[i].body, "validate")

\* Mutation of Update: not only drafts.
UpdateAny(c, i, b) ==
    /\ Exists(i)
    /\ Begin(c, "update", i, b, "commit")

Update(c, i, b) ==
    /\ rows[i].status = "draft"
    /\ Begin(c, "update", i, b, "commit")

\* Mutation of Deactivate: a version that is not active, too.
DeactivateAny(c, i) ==
    /\ Exists(i)
    /\ Begin(c, "deactivate", i, NoBody, "remove")

Deactivate(c, i) ==
    /\ rows[i].status = "active"
    /\ Begin(c, "deactivate", i, NoBody, "remove")

\* Mutation of Delete: no look at the status.
DeleteAny(c, i) ==
    /\ Exists(i)
    /\ Begin(c, "delete", i, NoBody, "commit")

Delete(c, i) ==
    /\ Exists(i) /\ rows[i].status # "active"
    /\ Begin(c, "delete", i, NoBody, "commit")

-----------------------------------------------------------------------------
(* OPA.                                                                    *)

\* A dry run under a transient name: ValidBodies are the sources that compile
\* with their package declaration rewritten.  The push sends the source as it
\* is; one that compiles only rewritten is refused there, as Request says.
Validate(c) ==
    /\ pc[c] = "validate"
    /\ Goto(c, IF call[c].body \in ValidBodies THEN "push" ELSE "done")
    /\ UNCHANGED <<rows, live, call, slips>>

\* A request OPA may refuse, lose, or carry out without its answer arriving;
\* the caller logs a failure and goes on.
Request(c, body) ==
    /\ \/ live' = body /\ Slip({})
       \/ live' \in {body, live} /\ Slip({"opa"})
    /\ UNCHANGED <<rows, call>>

\* Mutation of Push: it sends the row as it is by then.
PushCurrentRow(c) ==
    /\ pc[c] = "push"
    /\ Request(c, rows[call[c].id].body)
    /\ Goto(c, "supersede")

\* _push_to_opa: the source that was validated.
Push(c) ==
    /\ pc[c] = "push"
    /\ Request(c, call[c].body)
    /\ Goto(c, "supersede")

\* _remove_from_opa
Remove(c) ==
    /\ pc[c] = "remove"
    /\ Request(c, NoBody)
    /\ Goto(c, "commit")

\* What was pushed through the API does not survive a restart.
OpaRestarts ==
    /\ live # NoBody
    /\ live' = NoBody
    /\ Slip({"restart"})
    /\ UNCHANGED <<rows, pc, call>>

-----------------------------------------------------------------------------
(* Writing.                                                                *)

\* Mutation of Supersede: the earlier version stays active.
SupersedeNone(c) ==
    /\ pc[c] = "supersede"
    /\ Goto(c, "commit")
    /\ UNCHANGED <<rows, live, call, slips>>

\* The UPDATE of set_active over the other active versions of the group sees
\* what is committed when it starts.
Supersede(c) ==
    /\ pc[c] = "supersede"
    /\ call' = [call EXCEPT ![c].others = Active \ {call[c].id}]
    /\ Goto(c, "commit")
    /\ UNCHANGED <<rows, live, slips>>

\* The row of a call as its commit leaves it.
Written(c, row) ==
    CASE call[c].op = "activate"   -> [row EXCEPT !.status = "active"]
      [] call[c].op = "update"     -> [row EXCEPT !.body = call[c].body]
      [] call[c].op = "deactivate" -> [row EXCEPT !.status = "superseded"]
      [] call[c].op = "delete"     -> [status |-> "deleted", body |-> NoBody]

\* Mutation of Commit: the row need not exist any more.
CommitUnchecked(c) ==
    /\ pc[c] = "commit"
    /\ rows' = [rows EXCEPT ![call[c].id] = Written(c, @)]
    /\ Goto(c, "done")
    /\ UNCHANGED <<live, call, slips>>

\* The versions to supersede that are still active when the call gets their
\* rows.
Commit(c) ==
    /\ pc[c] = "commit"
    /\ Exists(call[c].id)
    /\ rows' = [i \in Ids |->
                   IF i = call[c].id THEN Written(c, rows[i])
                   ELSE IF i \in call[c].others \cap Active
                          THEN [rows[i] EXCEPT !.status = "superseded"]
                          ELSE rows[i]]
    /\ Goto(c, "done")
    /\ UNCHANGED <<live, call, slips>>

\* The call has made its request to OPA and has yet to change the table.
Ahead(c) == pc[c] \in {"supersede", "commit"} /\ call[c].op \in {"activate", "deactivate"}

\* The transaction rolls back: its row is gone, OPA cannot be reached by the
\* validator, the database or the process fails.
RollBack(c) ==
    /\ c \in InFlight
    /\ Goto(c, "done")
    /\ Slip(IF Ahead(c) THEN {"rollback"} ELSE {})
    /\ UNCHANGED <<rows, live, call>>

-----------------------------------------------------------------------------
Next ==
    \/ \E i \in Ids, b \in Bodies : Create(i, b)
    \/ OpaRestarts
    \/ \E c \in Calls :
        \/ \E i \in Ids : Activate(c, i) \/ Deactivate(c, i) \/ Delete(c, i)
        \/ \E i \in Ids, b \in Bodies : Update(c, i, b)
        \/ Validate(c) \/ Push(c) \/ Remove(c) \/ Supersede(c)
        \/ Commit(c) \/ RollBack(c)

Spec == Init /\ [][Next]_vars

-----------------------------------------------------------------------------
(* Properties.                                                             *)

\* Every variable holds a value of its type, and a row has a source as long
\* as it exists.
TypeOK ==
    /\ rows \in [Ids -> [status : PolicyStatus, body : Bodies \cup {NoBody}]]
    /\ live \in Bodies \cup {NoBody}
    /\ pc \in [Calls -> Steps]
    /\ call \in [Calls -> [op : Ops, id : Ids, body : Bodies \cup {NoBody},
                           others : SUBSET Ids]]
    /\ slips \subseteq Slips
    /\ \A i \in Ids : Exists(i) <=> rows[i].body # NoBody

\* However calls overlap, OPA only ever gets a source that its dry run has
\* compiled: activate pushes the text it validated, never what the row has
\* become.
OpaRunsValidated == live \in ValidBodies \cup {NoBody}

\* As long as no two calls overlap, a group has at most one active version.
OneActiveInSerialUse ==
    "overlap" \notin slips => \A i, j \in Active : i = j

\* Between calls OPA runs exactly the source of the active version, unless
\* calls overlapped, OPA failed a request, a call rolled back after its
\* request, or OPA restarted: there is no fifth way to drift apart.
OpaFollowsTheTable ==
    InFlight = {} /\ slips = {} =>
        IF Active = {} THEN live = NoBody ELSE \A i \in Active : live = rows[i].body

\* The version in force: the one a call has just asked OPA to run or, when no
\* call is in between, the active one.
InForce ==
    IF \E c \in InFlight : Ahead(c)
      THEN {[id |-> call[c].id, body |-> call[c].body] :
               c \in {d \in InFlight : Ahead(d) /\ call[d].op = "activate"}}
      ELSE {[id |-> i, body |-> rows[i].body] : i \in Active}

\* Until something slips, table and OPA are one register: of all the steps of
\* a call one, its request to OPA, puts another version in force with the
\* source that OPA has compiled, or none.  Everything else, failed and refused
\* calls included, leaves what is in force alone.
Register == INSTANCE PolicyRegister
              WITH inForce <- InForce, runs <- live, intact <- (slips = {})
RegisterSpec == Register!Spec

\* As long as no two calls overlap, an active version is retired before it
\* is deleted.
ActiveIsRetiredFirst ==
    [][\A i \in Active : rows'[i].status = "deleted" => "overlap" \in slips]_vars
=============================================================================
