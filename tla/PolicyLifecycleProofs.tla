------------------------ MODULE PolicyLifecycleProofs ------------------------
(***************************************************************************)
(* Type correctness of PolicyLifecycle, what OPA is ever given, and the    *)
(* two promises of serial use, for any number of versions, sources and     *)
(* calls.                                                                  *)
(***************************************************************************)
EXTENDS PolicyLifecycle, TLAPS

-----------------------------------------------------------------------------
\* An update under way carries a source.
UpdateHasSource ==
    \A c \in InFlight : call[c].op = "update" => call[c].body \in Bodies

\* What a commit makes of an existing row is a row that exists with a source,
\* or a deleted one without.
LEMMA WrittenType ==
    ASSUME TypeOK, UpdateHasSource, NEW c \in Calls, pc[c] = "commit", Exists(call[c].id)
    PROVE  LET row == Written(c, rows[call[c].id])
           IN  /\ row \in [status : PolicyStatus, body : Bodies \cup {NoBody}]
               /\ row.status \notin {"unborn", "deleted"} <=> row.body # NoBody
<1>. DEFINE old == rows[call[c].id]
<1>1. /\ call[c].id \in Ids
      /\ call[c].op \in Ops
      /\ old \in [status : PolicyStatus, body : Bodies \cup {NoBody}]
      /\ old.body # NoBody
      /\ old.status \notin {"unborn", "deleted"}
  BY DEF TypeOK, Exists
<1>2. CASE call[c].op = "activate"
  BY <1>1, <1>2 DEF Written, PolicyStatus
<1>3. CASE call[c].op = "update"
  BY <1>1, <1>3, BodiesAssumption DEF Written, PolicyStatus, UpdateHasSource, InFlight
<1>4. CASE call[c].op = "deactivate"
  BY <1>1, <1>4 DEF Written, PolicyStatus
<1>5. CASE call[c].op = "delete"
  BY <1>1, <1>5 DEF Written, PolicyStatus
<1>. QED  BY <1>1, <1>2, <1>3, <1>4, <1>5 DEF Ops

\* Every variable keeps its type, and a version has a source exactly as long
\* as its row exists: no overlap of calls brings a deleted row back.
THEOREM PolicyTypeCorrect == Spec => []TypeOK
<1>. USE BodiesAssumption, IdsAssumption
     DEF TypeOK, UpdateHasSource, InFlight, PolicyStatus, Ops, Steps, Slips, Exists, Goto, Slip
<1>. DEFINE Inv == TypeOK /\ UpdateHasSource
<1>1. Init => Inv
  <2>1. (CHOOSE i \in Ids : TRUE) \in Ids
    OBVIOUS
  <2> SUFFICES ASSUME Init PROVE Inv
    OBVIOUS
  <2>2. rows \in [Ids -> [status : PolicyStatus, body : Bodies \cup {NoBody}]]
    BY DEF Init
  <2>3. call \in [Calls -> [op : Ops, id : Ids, body : Bodies \cup {NoBody}, others : SUBSET Ids]]
    BY <2>1 DEF Init
  <2>4. \A i \in Ids : rows[i].status \notin {"unborn", "deleted"} <=> rows[i].body # NoBody
    BY DEF Init
  <2>. QED  BY <2>2, <2>3, <2>4 DEF Init
<1>2. Inv /\ [Next]_vars => Inv'
  <2> SUFFICES ASSUME Inv, [Next]_vars PROVE Inv'
    OBVIOUS
  <2>1. ASSUME NEW i \in Ids, NEW b \in Bodies, Create(i, b) PROVE Inv'
    BY <2>1 DEF Create
  <2>2. ASSUME NEW c \in Calls, NEW i \in Ids, NEW op \in Ops, NEW first \in Steps,
               NEW b \in Bodies \cup {NoBody}, op = "update" => b \in Bodies,
               Begin(c, op, i, b, first)
        PROVE  Inv'
    BY <2>2 DEF Begin
  <2>3. ASSUME NEW c \in Calls, NEW i \in Ids, Activate(c, i) PROVE Inv'
    <3>1. rows[i].body \in Bodies \cup {NoBody}
      OBVIOUS
    <3>. QED  BY <2>2, <2>3, <3>1 DEF Activate
  <2>4. ASSUME NEW c \in Calls, NEW i \in Ids, Deactivate(c, i) \/ Delete(c, i)
        PROVE  Inv'
    BY <2>2, <2>4 DEF Deactivate, Delete
  <2>5. ASSUME NEW c \in Calls, NEW i \in Ids, NEW b \in Bodies, Update(c, i, b)
        PROVE  Inv'
    BY <2>2, <2>5 DEF Update
  <2>6. ASSUME NEW c \in Calls, Validate(c) PROVE Inv'
    BY <2>6 DEF Validate
  <2>7. ASSUME NEW c \in Calls, Push(c) \/ Remove(c) PROVE Inv'
    <3>1. call[c].body \in Bodies \cup {NoBody}
      OBVIOUS
    <3>2. live' \in Bodies \cup {NoBody} /\ slips' \subseteq Slips
      BY <2>7, <3>1 DEF Push, Remove, Request
    <3>3. pc' \in [Calls -> Steps]
      BY <2>7 DEF Push, Remove
    <3>4. UpdateHasSource'
      BY <2>7 DEF Push, Remove, Request
    <3>. QED  BY <2>7, <3>2, <3>3, <3>4 DEF Push, Remove, Request
  <2>8. ASSUME NEW c \in Calls, Supersede(c) PROVE Inv'
    <3>1. Active \ {call[c].id} \in SUBSET Ids
      BY DEF Active
    <3>2. call' \in [Calls -> [op : Ops, id : Ids, body : Bodies \cup {NoBody},
                              others : SUBSET Ids]]
      BY <2>8, <3>1 DEF Supersede
    <3>. QED  BY <2>8, <3>2 DEF Supersede
  <2>9. ASSUME NEW c \in Calls, Commit(c) PROVE Inv'
    <3>1. ASSUME NEW i \in Ids
          PROVE  /\ rows'[i] \in [status : PolicyStatus, body : Bodies \cup {NoBody}]
                 /\ rows'[i].status \notin {"unborn", "deleted"} <=> rows'[i].body # NoBody
      <4>1. CASE i = call[c].id
        BY <2>9, <4>1, WrittenType DEF Commit
      <4>2. CASE i # call[c].id
        <5>1. \/ /\ rows'[i] = [rows[i] EXCEPT !.status = "superseded"]
                 /\ rows[i].status = "active"
              \/ rows'[i] = rows[i]
          BY <2>9, <4>2 DEF Commit, Active
        <5>2. rows[i] \in [status : PolicyStatus, body : Bodies \cup {NoBody}]
          OBVIOUS
        <5>. QED  BY <5>1, <5>2
      <4>. QED  BY <4>1, <4>2
    <3>2. rows' \in [Ids -> [status : PolicyStatus, body : Bodies \cup {NoBody}]]
      BY <2>9, <3>1 DEF Commit
    <3>. QED  BY <2>9, <3>1, <3>2 DEF Commit
  <2>10. ASSUME NEW c \in Calls, RollBack(c) PROVE Inv'
    BY <2>10 DEF RollBack
  <2>11. CASE OpaRestarts
    BY <2>11 DEF OpaRestarts
  <2>12. CASE UNCHANGED vars
    BY <2>12 DEF vars
  <2>. QED  BY <2>1, <2>3, <2>4, <2>5, <2>6, <2>7, <2>8, <2>9, <2>10, <2>11, <2>12
            DEF Next
<1>. QED  BY <1>1, <1>2, PTL DEF Spec

-----------------------------------------------------------------------------
(* What OPA is given.  Between its validation and its push, an activation  *)
(* holds the source it validated.                                          *)

Validated ==
    \A c \in Calls : pc[c] = "push" => call[c].body \in ValidBodies

\* Nothing else is pushed, so nothing else is run.
LEMMA ValidatedAlways == Spec => [](OpaRunsValidated /\ Validated)
<1>. DEFINE Inv == OpaRunsValidated /\ Validated
<1>1. Init => Inv
  BY DEF Init, OpaRunsValidated, Validated
<1>2. TypeOK /\ Inv /\ [Next]_vars => Inv'
  <2> SUFFICES ASSUME TypeOK, Inv, [Next]_vars PROVE Inv'
    OBVIOUS
  <2>. USE DEF OpaRunsValidated, Validated, Goto, TypeOK
  <2>1. ASSUME NEW i \in Ids, NEW b \in Bodies, Create(i, b) PROVE Inv'
    BY <2>1 DEF Create
  <2>2. ASSUME NEW c \in Calls, NEW i, NEW op, NEW b, NEW first, first # "push",
               Begin(c, op, i, b, first)
        PROVE  Inv'
    BY <2>2 DEF Begin
  <2>3. ASSUME NEW c \in Calls, NEW i \in Ids,
               Activate(c, i) \/ Deactivate(c, i) \/ Delete(c, i)
        PROVE  Inv'
    BY <2>2, <2>3 DEF Activate, Deactivate, Delete
  <2>4. ASSUME NEW c \in Calls, NEW i \in Ids, NEW b \in Bodies, Update(c, i, b)
        PROVE  Inv'
    BY <2>2, <2>4 DEF Update
  <2>5. ASSUME NEW c \in Calls, Validate(c) PROVE Inv'
    BY <2>5 DEF Validate
  <2>6. ASSUME NEW c \in Calls, Push(c) \/ Remove(c) PROVE Inv'
    BY <2>6 DEF Push, Remove, Request
  <2>7. ASSUME NEW c \in Calls, Supersede(c) PROVE Inv'
    BY <2>7 DEF Supersede
  <2>8. ASSUME NEW c \in Calls, Commit(c) \/ RollBack(c) PROVE Inv'
    BY <2>8 DEF Commit, RollBack
  <2>9. CASE OpaRestarts
    BY <2>9 DEF OpaRestarts
  <2>10. CASE UNCHANGED vars
    BY <2>10 DEF vars
  <2>. QED  BY <2>1, <2>3, <2>4, <2>5, <2>6, <2>7, <2>8, <2>9, <2>10 DEF Next
<1>. QED  BY <1>1, <1>2, PolicyTypeCorrect, PTL DEF Spec

\* However many calls overlap, OPA runs only sources it has compiled.
THEOREM OnlyValidatedIsPushed == Spec => []OpaRunsValidated
BY ValidatedAlways, PTL

-----------------------------------------------------------------------------
(* Serial use.  While calls have never overlapped at most one is under     *)
(* way, and what it read is still true when it commits: the versions it    *)
(* supersedes are all the active ones, and what it deletes is not active.  *)

ReadIsCurrent(c) ==
    /\ call[c].op = "activate" /\ pc[c] = "commit" =>
           call[c].others = Active \ {call[c].id}
    /\ pc[c] = "remove" => call[c].op = "deactivate"
    /\ call[c].op = "delete" => rows[call[c].id].status # "active"

SerialInv ==
    "overlap" \notin slips =>
        /\ \A c, d \in InFlight : c = d
        /\ \A c \in InFlight : ReadIsCurrent(c)
        /\ \A i, j \in Active : i = j

\* A step that leaves the active versions alone and starts no call keeps
\* SerialInv, as long as it keeps what each call under way has read.
LEMMA QuietStep ==
    ASSUME SerialInv, Active' = Active, InFlight' \subseteq InFlight,
           slips \subseteq slips', \A c \in InFlight' : ReadIsCurrent(c) => ReadIsCurrent(c)'
    PROVE  SerialInv'
<1>1. "overlap" \notin slips' => "overlap" \notin slips
  OBVIOUS
<1>. QED  BY <1>1 DEF SerialInv

\* Only a call that is alone stays clear of the overlap flag when it starts.
LEMMA BeginStep ==
    ASSUME TypeOK, SerialInv, NEW c \in Calls, NEW i \in Ids, NEW op, NEW b,
           NEW first \in Steps \ {"idle", "done"}, Begin(c, op, i, b, first),
           op = "activate" => first # "commit", first = "remove" => op = "deactivate",
           op = "delete" => rows[i].status # "active"
    PROVE  SerialInv'
<1>. SUFFICES ASSUME "overlap" \notin slips' PROVE SerialInv!2'
  BY DEF SerialInv
<1>1. InFlight = {} /\ "overlap" \notin slips
  BY DEF Begin, Slip
<1>2. InFlight' = {c}
  BY <1>1 DEF Begin, Goto, InFlight, TypeOK
<1>3. Active' = Active
  BY DEF Begin, Active
<1>4. ReadIsCurrent(c)'
  BY <1>3 DEF Begin, ReadIsCurrent, Goto, TypeOK
<1>. QED  BY <1>1, <1>2, <1>3, <1>4 DEF SerialInv

\* Every step keeps SerialInv: without overlap a call commits on what it read.
LEMMA SerialStep == TypeOK /\ SerialInv /\ [Next]_vars => SerialInv'
<1>. SUFFICES ASSUME TypeOK, SerialInv, [Next]_vars PROVE SerialInv'
  OBVIOUS
<1>1. ASSUME NEW i \in Ids, NEW b \in Bodies, Create(i, b) PROVE SerialInv'
  <2>1. Active' = Active
    BY <1>1 DEF Create, Active, TypeOK
  <2>2. \A c \in InFlight' : ReadIsCurrent(c) => ReadIsCurrent(c)'
    BY <1>1, <2>1 DEF Create, ReadIsCurrent, TypeOK
  <2>. QED  BY <1>1, <2>1, <2>2, QuietStep DEF Create, InFlight
<1>2. ASSUME NEW c \in Calls, NEW i \in Ids,
             Activate(c, i) \/ Deactivate(c, i) \/ Delete(c, i)
      PROVE  SerialInv'
  BY <1>2, BeginStep DEF Activate, Deactivate, Delete, Steps
<1>3. ASSUME NEW c \in Calls, NEW i \in Ids, NEW b \in Bodies, Update(c, i, b)
      PROVE  SerialInv'
  BY <1>3, BeginStep DEF Update, Steps
<1>4. ASSUME NEW c \in Calls, Validate(c) PROVE SerialInv'
  <2>1. InFlight' \subseteq InFlight
    BY <1>4 DEF Validate, InFlight, Goto, TypeOK
  <2>2. \A d \in InFlight' : ReadIsCurrent(d) => ReadIsCurrent(d)'
    BY <1>4 DEF Validate, ReadIsCurrent, Active, Goto, TypeOK, InFlight
  <2>. QED  BY <1>4, <2>1, <2>2, QuietStep DEF Validate, Active
<1>5. ASSUME NEW c \in Calls, Push(c) PROVE SerialInv'
  <2>1. InFlight' \subseteq InFlight
    BY <1>5 DEF Push, InFlight, Goto, TypeOK
  <2>2. \A d \in InFlight' : ReadIsCurrent(d) => ReadIsCurrent(d)'
    BY <1>5 DEF Push, Request, ReadIsCurrent, Active, Goto, TypeOK, InFlight
  <2>. QED  BY <1>5, <2>1, <2>2, QuietStep DEF Push, Request, Slip, Active
<1>6. ASSUME NEW c \in Calls, Remove(c) PROVE SerialInv'
  <2>1. InFlight' \subseteq InFlight
    BY <1>6 DEF Remove, InFlight, Goto, TypeOK
  <2>2. \A d \in InFlight' : ReadIsCurrent(d) => ReadIsCurrent(d)'
    BY <1>6 DEF Remove, Request, ReadIsCurrent, Active, Goto, TypeOK, InFlight
  <2>. QED  BY <1>6, <2>1, <2>2, QuietStep DEF Remove, Request, Slip, Active
<1>7. ASSUME NEW c \in Calls, Supersede(c) PROVE SerialInv'
  <2>1. InFlight' \subseteq InFlight /\ Active' = Active
    BY <1>7 DEF Supersede, InFlight, Active, Goto, TypeOK
  <2>2. \A d \in InFlight' : ReadIsCurrent(d) => ReadIsCurrent(d)'
    BY <1>7, <2>1 DEF Supersede, ReadIsCurrent, Goto, TypeOK, InFlight
  <2>. QED  BY <1>7, <2>1, <2>2, QuietStep DEF Supersede
<1>8. ASSUME NEW c \in Calls, RollBack(c) PROVE SerialInv'
  <2>1. InFlight' \subseteq InFlight
    BY <1>8 DEF RollBack, InFlight, Goto, TypeOK
  <2>2. \A d \in InFlight' : ReadIsCurrent(d) => ReadIsCurrent(d)'
    BY <1>8 DEF RollBack, ReadIsCurrent, Active, Goto, TypeOK, InFlight
  <2>. QED  BY <1>8, <2>1, <2>2, QuietStep DEF RollBack, Slip, Active
<1>9. ASSUME NEW c \in Calls, Commit(c) PROVE SerialInv'
  <2>. SUFFICES ASSUME "overlap" \notin slips PROVE SerialInv!2'
    BY <1>9 DEF SerialInv, Commit
  <2>1. InFlight = {c} /\ ReadIsCurrent(c) /\ (\A i, j \in Active : i = j)
    BY <1>9 DEF SerialInv, InFlight, Commit
  <2>2. InFlight' = {}
    BY <1>9, <2>1 DEF Commit, InFlight, Goto, TypeOK
  <2>3. /\ pc[c] = "commit" /\ call[c].op \in Ops /\ call[c].id \in Ids
        /\ \A i \in Ids \ {call[c].id} : rows'[i].status = "active" =>
               rows[i].status = "active" /\ i \notin call[c].others
        /\ rows'[call[c].id] = Written(c, rows[call[c].id])
    <3>1. pc[c] = "commit" /\ call[c].op \in Ops /\ call[c].id \in Ids
      BY <1>9 DEF Commit, TypeOK
    <3>2. rows'[call[c].id] = Written(c, rows[call[c].id])
      BY <1>9, <3>1 DEF Commit
    <3>3. ASSUME NEW i \in Ids \ {call[c].id}, rows'[i].status = "active"
          PROVE  rows[i].status = "active" /\ i \notin call[c].others
      <4>1. rows[i] \in [status : PolicyStatus, body : Bodies \cup {NoBody}]
        BY DEF TypeOK
      <4>2. rows'[i] = IF i \in call[c].others /\ rows[i].status = "active"
                         THEN [rows[i] EXCEPT !.status = "superseded"] ELSE rows[i]
        BY <1>9 DEF Commit, Active
      <4>. QED  BY <3>3, <4>1, <4>2
    <3>. QED  BY <3>1, <3>2, <3>3
  <2>4. CASE call[c].op = "activate"
    <3>1. \A i \in Active' : i = call[c].id
      BY <2>1, <2>3, <2>4 DEF Active, ReadIsCurrent
    <3>. QED  BY <2>2, <3>1
  <2>5. CASE call[c].op # "activate"
    <3>1. rows[call[c].id] \in [status : PolicyStatus, body : Bodies \cup {NoBody}]
      BY <2>3 DEF TypeOK
    <3>2. Written(c, rows[call[c].id]).status = "active" => rows[call[c].id].status = "active"
      BY <2>3, <2>5, <3>1 DEF Written, Ops
    <3>3. Active' \subseteq Active
      BY <2>3, <3>2 DEF Active
    <3>. QED  BY <2>1, <2>2, <3>3
  <2>. QED  BY <2>4, <2>5
<1>10. CASE OpaRestarts
  <2>1. InFlight' = InFlight /\ Active' = Active
    BY <1>10 DEF OpaRestarts, InFlight, Active
  <2>2. \A d \in InFlight' : ReadIsCurrent(d) => ReadIsCurrent(d)'
    BY <1>10, <2>1 DEF OpaRestarts, ReadIsCurrent
  <2>. QED  BY <1>10, <2>1, <2>2, QuietStep DEF OpaRestarts, Slip
<1>11. CASE UNCHANGED vars
  BY <1>11 DEF vars, SerialInv, InFlight, Active, ReadIsCurrent
<1>. QED  BY <1>1, <1>2, <1>3, <1>4, <1>5, <1>6, <1>7, <1>8, <1>9, <1>10, <1>11 DEF Next

\* SerialInv is an invariant: nothing is under way at the start.
LEMMA SerialAlways == Spec => []SerialInv
<1>1. Init => SerialInv
  BY DEF Init, SerialInv, InFlight, Active
<1>. QED  BY <1>1, SerialStep, PolicyTypeCorrect, PTL DEF Spec

\* Until two calls overlap, a group has at most one active version.
THEOREM SerialUseHasOneActive == Spec => []OneActiveInSerialUse
<1>1. SerialInv => OneActiveInSerialUse
  BY DEF SerialInv, OneActiveInSerialUse
<1>. QED  BY <1>1, SerialAlways, PTL

\* Until two calls overlap, no active version is deleted.
THEOREM SerialUseRetiresFirst == Spec => ActiveIsRetiredFirst
<1>. DEFINE Retired == \A i \in Active : rows'[i].status = "deleted" => "overlap" \in slips
<1>1. TypeOK /\ SerialInv /\ [Next]_vars => [Retired]_vars
  <2> SUFFICES ASSUME TypeOK, SerialInv, Next, "overlap" \notin slips,
                      NEW i \in Active, rows'[i].status = "deleted"
               PROVE  FALSE
    OBVIOUS
  <2>1. i \in Ids /\ rows[i].status = "active"
    BY DEF Active
  <2>2. \A j \in Ids, b \in Bodies : ~Create(j, b)
    BY <2>1 DEF Create, TypeOK
  <2>3. PICK c \in Calls : Commit(c)
    BY <2>1, <2>2 DEF Next, Activate, Deactivate, Delete, Update, Begin, Validate, Push,
                      Remove, Request, Supersede, RollBack, OpaRestarts
  <2>4. c \in InFlight
    BY <2>3 DEF Commit, InFlight
  <2>5. ReadIsCurrent(c)
    BY <2>4 DEF SerialInv
  <2>6. call[c].op \in Ops
    BY DEF TypeOK
  <2>7. CASE i = call[c].id /\ call[c].op = "delete"
    BY <2>1, <2>5, <2>7 DEF ReadIsCurrent
  <2>8. CASE i = call[c].id /\ call[c].op # "delete"
    BY <2>1, <2>3, <2>6, <2>8 DEF Commit, Written, Ops, TypeOK
  <2>9. CASE i # call[c].id
    BY <2>1, <2>3, <2>9 DEF Commit, TypeOK
  <2>. QED  BY <2>7, <2>8, <2>9
<1>. QED  BY <1>1, SerialAlways, PolicyTypeCorrect, PTL DEF Spec, ActiveIsRetiredFirst

-----------------------------------------------------------------------------
(* OPA follows the table.  As long as nothing has slipped, the one call    *)
(* under way accounts for the difference between the table and OPA: before *)
(* its request there is none, after it OPA already runs what the commit is *)
(* about to make true.  A rollback at that point would slip.               *)

Agrees == IF Active = {} THEN live = NoBody ELSE \A i \in Active : live = rows[i].body

KnowsOpa(c) ==
    /\ Exists(call[c].id)
    /\ pc[c] \in {"validate", "push", "supersede"} => call[c].op = "activate"
    /\ call[c].op # "activate" => call[c].others = {}
    /\ call[c].op = "activate" => call[c].body = rows[call[c].id].body
    /\ call[c].op = "deactivate" => rows[call[c].id].status = "active"
    /\ call[c].op # "deactivate" => rows[call[c].id].status # "active"
    /\ IF Ahead(c) THEN live = (IF call[c].op = "activate" THEN call[c].body ELSE NoBody)
                   ELSE Agrees

OpaInv ==
    slips = {} => /\ InFlight = {} => Agrees
                  /\ \A c \in InFlight : KnowsOpa(c)

\* A step of the lone call c keeps OpaInv when c still accounts for what OPA
\* runs, or when c is done and there is nothing left to account for.
LEMMA LoneStep ==
    ASSUME TypeOK, SerialInv, OpaInv, NEW c \in InFlight, NEW step, Goto(c, step),
           slips = {} /\ slips' = {} =>
               IF step \in {"idle", "done"} THEN Agrees' ELSE KnowsOpa(c)',
           slips \subseteq slips'
    PROVE  OpaInv'
<1>. SUFFICES ASSUME slips' = {} PROVE OpaInv!2'
  BY DEF OpaInv
<1>1. slips = {} /\ InFlight = {c}
  BY DEF SerialInv
<1>2. InFlight' = IF step \in {"idle", "done"} THEN {} ELSE {c}
  BY <1>1 DEF Goto, InFlight, TypeOK
<1>. QED  BY <1>1, <1>2

\* A call that starts alone finds the table and OPA in agreement.
LEMMA LoneBegin ==
    ASSUME TypeOK, OpaInv, NEW c \in Calls, NEW i \in Ids, NEW op \in Ops, NEW b,
           NEW first \in Steps \ {"idle", "done", "supersede"}, Begin(c, op, i, b, first),
           Exists(i), op = "activate" <=> first \in {"validate", "push"},
           op = "activate" => b = rows[i].body,
           op = "deactivate" => first # "commit" /\ rows[i].status = "active",
           op # "deactivate" => rows[i].status # "active"
    PROVE  OpaInv'
<1>. SUFFICES ASSUME slips' = {} PROVE OpaInv!2'
  BY DEF OpaInv
<1>1. InFlight = {} /\ slips = {}
  BY DEF Begin, Slip
<1>2. InFlight' = {c}
  BY <1>1 DEF Begin, Goto, InFlight, TypeOK, Steps
<1>3. Agrees'
  BY <1>1 DEF OpaInv, Begin, Agrees, Active
<1>4. KnowsOpa(c)'
  <2>1. /\ call'[c] = [op |-> op, id |-> i, body |-> b, others |-> {}]
        /\ pc'[c] = first /\ rows' = rows
    BY DEF Begin, Goto, TypeOK
  <2>2. ~Ahead(c)'
    BY <2>1 DEF Ahead, Ops
  <2>. QED  BY <1>3, <2>1, <2>2 DEF KnowsOpa, Exists, Ops
<1>. QED  BY <1>2, <1>4

\* What a commit makes of the active versions, as long as nothing slips: an
\* activation leaves its version alone active, a deactivation none, and the
\* other calls leave the active version and its source as they are.
LEMMA CommitFacts ==
    ASSUME TypeOK, SerialInv, OpaInv, slips = {}, NEW c \in Calls, Commit(c)
    PROVE  /\ call[c].op = "activate" =>
                  Active' = {call[c].id} /\ rows'[call[c].id].body = call[c].body
           /\ call[c].op = "deactivate" => Active' = {}
           /\ call[c].op \in {"update", "delete"} =>
                  Active' = Active /\ \A i \in Active : rows'[i] = rows[i]
<1>. DEFINE id == call[c].id
<1>0. c \in InFlight /\ pc[c] = "commit" /\ id \in Ids /\ call[c].op \in Ops
  BY DEF Commit, InFlight, TypeOK
<1>1. /\ KnowsOpa(c) /\ ReadIsCurrent(c) /\ \A i, j \in Active : i = j
  BY <1>0 DEF OpaInv, SerialInv
<1>2. /\ rows'[id] = Written(c, rows[id])
      /\ \A i \in Ids \ {id} :
            rows'[i] = IF i \in call[c].others \cap Active
                         THEN [rows[i] EXCEPT !.status = "superseded"] ELSE rows[i]
  BY <1>0 DEF Commit
<1>3. rows \in [Ids -> [status : PolicyStatus, body : Bodies \cup {NoBody}]]
  BY DEF TypeOK
<1>4. CASE call[c].op = "activate"
  <2>1. rows'[id].status = "active" /\ rows'[id].body = rows[id].body
    BY <1>0, <1>2, <1>3, <1>4 DEF Written
  <2>2. ASSUME NEW i \in Ids \ {id} PROVE rows'[i].status # "active"
    <3>1. call[c].others = Active \ {id}
      BY <1>0, <1>1, <1>4 DEF ReadIsCurrent
    <3>2. CASE i \in Active
      BY <1>2, <1>3, <3>1, <3>2
    <3>3. CASE i \notin Active
      <4>1. rows'[i] = rows[i]
        BY <1>2, <3>3
      <4>. QED  BY <3>3, <4>1 DEF Active
    <3>. QED  BY <3>2, <3>3
  <2>3. Active' = {id}
    BY <1>0, <2>1, <2>2 DEF Active
  <2>. QED  BY <1>1, <1>4, <2>1, <2>3 DEF KnowsOpa
<1>5. CASE call[c].op = "deactivate"
  <2>1. rows'[id].status # "active"
    BY <1>0, <1>2, <1>3, <1>5 DEF Written
  <2>2. ASSUME NEW i \in Ids \ {id} PROVE rows'[i].status # "active"
    <3>1. id \in Active /\ call[c].others = {}
      BY <1>0, <1>1, <1>5 DEF KnowsOpa, Active
    <3>2. i \notin Active /\ rows'[i] = rows[i]
      BY <1>1, <1>2, <3>1
    <3>. QED  BY <3>2 DEF Active
  <2>3. Active' = {}
    BY <2>1, <2>2 DEF Active
  <2>. QED  BY <1>5, <2>3
<1>6. CASE call[c].op \in {"update", "delete"}
  <2>1. rows[id].status # "active" /\ call[c].others = {}
    BY <1>1, <1>6 DEF KnowsOpa
  <2>2. rows'[id].status # "active"
    BY <1>0, <1>2, <1>3, <1>6, <2>1 DEF Written
  <2>3. \A i \in Ids \ {id} : rows'[i] = rows[i]
    BY <1>2, <2>1
  <2>4. Active' = Active
    BY <2>1, <2>2, <2>3 DEF Active
  <2>5. \A i \in Active : rows'[i] = rows[i]
    BY <2>1, <2>3 DEF Active
  <2>. QED  BY <1>6, <2>4, <2>5
<1>. QED  BY <1>0, <1>4, <1>5, <1>6 DEF Ops

\* Every step keeps OpaInv.
LEMMA OpaStep == TypeOK /\ SerialInv /\ OpaInv /\ [Next]_vars => OpaInv'
<1>. SUFFICES ASSUME TypeOK, SerialInv, OpaInv, [Next]_vars PROVE OpaInv'
  OBVIOUS
<1>1. ASSUME NEW i \in Ids, NEW b \in Bodies, Create(i, b) PROVE OpaInv'
  <2>1. /\ Active' = Active /\ InFlight' = InFlight
        /\ \A j \in Ids : Exists(j) => rows'[j] = rows[j]
        /\ UNCHANGED <<live, pc, call, slips>>
    BY <1>1 DEF Create, Active, InFlight, Exists, TypeOK
  <2>2. Agrees => Agrees'
    BY <2>1 DEF Agrees, Active, Exists
  <2>3. ASSUME NEW c \in InFlight, KnowsOpa(c) PROVE KnowsOpa(c)'
    <3>1. call[c].id \in Ids
      BY DEF InFlight, TypeOK
    <3>2. Ahead(c)' = Ahead(c)
      BY <2>1 DEF Ahead
    <3>. QED  BY <2>1, <2>2, <2>3, <3>1, <3>2 DEF KnowsOpa, Exists
  <2>. QED  BY <2>1, <2>2, <2>3 DEF OpaInv
<1>2. ASSUME NEW c \in Calls, NEW i \in Ids,
             Activate(c, i) \/ Deactivate(c, i) \/ Delete(c, i)
      PROVE  OpaInv'
  BY <1>2, LoneBegin DEF Activate, Deactivate, Delete, Steps, Ops, Exists
<1>3. ASSUME NEW c \in Calls, NEW i \in Ids, NEW b \in Bodies, Update(c, i, b)
      PROVE  OpaInv'
  BY <1>3, LoneBegin DEF Update, Steps, Ops, Exists
<1>4. ASSUME NEW c \in Calls, Validate(c) PROVE OpaInv'
  <2>1. /\ c \in InFlight /\ pc[c] = "validate" /\ Active' = Active
        /\ UNCHANGED <<rows, live, call, slips>>
    BY <1>4 DEF Validate, InFlight, Active
  <2>2. ASSUME slips = {} PROVE Agrees' /\ (pc'[c] = "push" => KnowsOpa(c)')
    BY <2>1, <2>2 DEF OpaInv, KnowsOpa, Ahead, Agrees, Exists
  <2>3. PICK step \in {"push", "done"} : Goto(c, step)
    BY <1>4 DEF Validate
  <2>4. pc'[c] = step
    BY <2>3 DEF Goto, TypeOK
  <2>. QED  BY <2>1, <2>2, <2>3, <2>4, LoneStep
<1>5. ASSUME NEW c \in Calls, Push(c) PROVE OpaInv'
  <2>1. /\ c \in InFlight /\ pc[c] = "push" /\ Goto(c, "supersede") /\ pc'[c] = "supersede"
        /\ UNCHANGED <<rows, call>> /\ slips \subseteq slips'
        /\ slips' = {} => live' = call[c].body
    BY <1>5 DEF Push, Request, Slip, InFlight, Goto, TypeOK
  <2>2. ASSUME slips = {}, slips' = {} PROVE KnowsOpa(c)'
    BY <2>1, <2>2 DEF OpaInv, KnowsOpa, Ahead, Exists
  <2>. QED  BY <2>1, <2>2, LoneStep
<1>6. ASSUME NEW c \in Calls, Remove(c) PROVE OpaInv'
  <2>1. /\ c \in InFlight /\ pc[c] = "remove" /\ Goto(c, "commit") /\ pc'[c] = "commit"
        /\ UNCHANGED <<rows, call>> /\ slips \subseteq slips'
        /\ slips' = {} => live' = NoBody
    BY <1>6 DEF Remove, Request, Slip, InFlight, Goto, TypeOK
  <2>2. ASSUME slips = {}, slips' = {} PROVE KnowsOpa(c)'
    <3>1. call[c].op = "deactivate"
      BY <2>1, <2>2 DEF SerialInv, ReadIsCurrent
    <3>. QED  BY <2>1, <2>2, <3>1 DEF OpaInv, KnowsOpa, Ahead, Exists
  <2>. QED  BY <2>1, <2>2, LoneStep
<1>7. ASSUME NEW c \in Calls, Supersede(c) PROVE OpaInv'
  <2>1. /\ c \in InFlight /\ pc[c] = "supersede" /\ Goto(c, "commit") /\ pc'[c] = "commit"
        /\ UNCHANGED <<rows, live, slips>>
        /\ call'[c].op = call[c].op /\ call'[c].id = call[c].id /\ call'[c].body = call[c].body
    BY <1>7 DEF Supersede, InFlight, Goto, TypeOK
  <2>2. ASSUME slips = {} PROVE KnowsOpa(c)'
    BY <2>1, <2>2 DEF OpaInv, KnowsOpa, Ahead, Exists
  <2>. QED  BY <2>1, <2>2, LoneStep
<1>8. ASSUME NEW c \in Calls, Commit(c) PROVE OpaInv'
  <2>1. /\ c \in InFlight /\ pc[c] = "commit" /\ Goto(c, "done")
        /\ UNCHANGED <<live, call, slips>>
        /\ call[c].id \in Ids /\ call[c].op \in Ops
    BY <1>8 DEF Commit, InFlight, TypeOK
  <2>2. ASSUME slips = {} PROVE Agrees'
    <3>1. KnowsOpa(c)
      BY <2>1, <2>2 DEF OpaInv
    <3>2. CASE call[c].op = "activate"
      BY <1>8, <2>1, <2>2, <3>1, <3>2, CommitFacts DEF KnowsOpa, Ahead, Agrees
    <3>3. CASE call[c].op = "deactivate"
      BY <1>8, <2>1, <2>2, <3>1, <3>3, CommitFacts DEF KnowsOpa, Ahead, Agrees
    <3>4. CASE call[c].op \in {"update", "delete"}
      <4>1. Agrees
        BY <3>1, <3>4 DEF KnowsOpa, Ahead
      <4>2. Active' = Active /\ \A i \in Active : rows'[i] = rows[i]
        BY <1>8, <2>2, <3>4, CommitFacts
      <4>. QED  BY <2>1, <4>1, <4>2 DEF Agrees
    <3>. QED  BY <2>1, <3>2, <3>3, <3>4 DEF Ops
  <2>. QED  BY <2>1, <2>2, LoneStep
<1>9. ASSUME NEW c \in Calls, RollBack(c) PROVE OpaInv'
  <2>1. /\ c \in InFlight /\ Goto(c, "done") /\ slips \subseteq slips'
        /\ slips' = {} => ~Ahead(c)
        /\ UNCHANGED <<rows, live>>
    BY <1>9 DEF RollBack, Slip, Ahead
  <2>2. ASSUME slips = {}, slips' = {} PROVE Agrees'
    BY <2>1, <2>2 DEF OpaInv, KnowsOpa, Agrees, Active
  <2>. QED  BY <2>1, <2>2, LoneStep
<1>10. CASE OpaRestarts
  BY <1>10 DEF OpaRestarts, Slip, OpaInv
<1>11. CASE UNCHANGED vars
  BY <1>11 DEF vars, OpaInv, KnowsOpa, Ahead, Agrees, Exists, InFlight, Active
<1>. QED  BY <1>1, <1>2, <1>3, <1>4, <1>5, <1>6, <1>7, <1>8, <1>9, <1>10, <1>11 DEF Next

\* OpaInv is an invariant: at the start there is nothing to account for.
LEMMA OpaAlways == Spec => []OpaInv
<1>1. Init => OpaInv
  BY DEF Init, OpaInv, Agrees, InFlight, Active
<1>. QED  BY <1>1, OpaStep, SerialAlways, PolicyTypeCorrect, PTL DEF Spec

\* Between calls OPA runs the source of the active version, unless one of
\* the four slips has come between them.
THEOREM OpaKeepsUp == Spec => []OpaFollowsTheTable
<1>1. OpaInv => OpaFollowsTheTable
  BY DEF OpaInv, OpaFollowsTheTable, Agrees
<1>. QED  BY <1>1, OpaAlways, PTL

-----------------------------------------------------------------------------
(* The register.  While nothing has slipped, what is in force is what the  *)
(* lone call has asked OPA to run, or the active version.                  *)

\* What is in force while the call c is under way.
LEMMA InForceOfCall ==
    ASSUME SerialInv, slips = {}, NEW c \in InFlight
    PROVE  InForce = IF ~Ahead(c) THEN {[id |-> i, body |-> rows[i].body] : i \in Active}
                     ELSE IF call[c].op = "activate"
                            THEN {[id |-> call[c].id, body |-> call[c].body]} ELSE {}
<1>1. InFlight = {c}
  BY DEF SerialInv
<1>. QED  BY <1>1 DEF InForce

\* Without a call that is ahead of the table it is the active version.
LEMMA InForceAtRest ==
    ASSUME \A c \in InFlight : ~Ahead(c)
    PROVE  InForce = {[id |-> i, body |-> rows[i].body] : i \in Active}
BY DEF InForce

\* A step that changes neither the table nor OPA, and leaves no call ahead,
\* leaves alone what is in force.
LEMMA SameTable ==
    ASSUME \A c \in InFlight : ~Ahead(c), (\A c \in InFlight : ~Ahead(c))',
           Active' = Active, \A i \in Active : rows'[i] = rows[i]
    PROVE  InForce' = InForce
<1>1. InForce' = {[id |-> i, body |-> rows'[i].body] : i \in Active'}
  BY DEF InForce
<1>2. {[id |-> i, body |-> rows'[i].body] : i \in Active'}
      = {[id |-> i, body |-> rows[i].body] : i \in Active}
  OBVIOUS
<1>. QED  BY <1>1, <1>2, InForceAtRest

\* Every step of a call writes the register, leaves it alone, or is the slip
\* that ends the promise.
LEMMA RegisterStep ==
    ASSUME TypeOK, Validated, SerialInv, OpaInv, [Next]_vars
    PROVE  [Register!Next]_(Register!registerVars)
<1>1. CASE slips' # {}
  BY <1>1 DEF Register!Next, Register!Break
<1>2. CASE slips' = {}
  <2>1. slips = {}
    BY <1>2 DEF Next, Create, OpaRestarts, Activate, Deactivate, Delete, Update, Begin,
                Validate, Push, Remove, Request, Supersede, Commit, RollBack, Slip, vars
  <2>. SUFFICES \/ InForce' = InForce /\ live' = live
                \/ Register!Clear
                \/ \E i \in Ids, b \in ValidBodies : Register!Put(i, b)
    BY <1>2, <2>1 DEF Register!Next, Register!Write, Register!registerVars
  <2>2. \A c, d \in InFlight : c = d
    BY <2>1 DEF SerialInv
  <2>3. ASSUME NEW i \in Ids, NEW b \in Bodies, Create(i, b)
        PROVE  InForce' = InForce /\ live' = live
    <3>1. /\ Active' = Active /\ \A j \in Active : rows'[j] = rows[j]
          /\ InFlight' = InFlight /\ UNCHANGED <<live, pc, call>>
      BY <2>3 DEF Create, Active, InFlight, TypeOK
    <3>2. \A c \in InFlight : Ahead(c)' = Ahead(c)
      BY <3>1 DEF Ahead
    <3>3. CASE \E c \in InFlight : Ahead(c)
      BY <3>1, <3>2, <3>3 DEF InForce
    <3>4. CASE \A c \in InFlight : ~Ahead(c)
      BY <3>1, <3>2, <3>4, SameTable
    <3>. QED  BY <3>1, <3>3, <3>4
  <2>4. ASSUME NEW c \in Calls, NEW i \in Ids, NEW op, NEW b, NEW first,
               Begin(c, op, i, b, first),
               ~(first \in {"supersede", "commit"} /\ op \in {"activate", "deactivate"})
        PROVE  InForce' = InForce /\ live' = live
    <3>1. InFlight = {} /\ UNCHANGED <<rows, live>>
      BY <1>2, <2>4 DEF Begin, Slip
    <3>2. InFlight' \subseteq {c} /\ ~Ahead(c)'
      BY <2>4, <3>1 DEF Begin, Goto, InFlight, Ahead, TypeOK
    <3>3. Active' = Active
      BY <3>1 DEF Active
    <3>. QED  BY <3>1, <3>2, <3>3, SameTable
  <2>5. ASSUME NEW c \in Calls, NEW i \in Ids,
               Activate(c, i) \/ Deactivate(c, i) \/ Delete(c, i)
        PROVE  InForce' = InForce /\ live' = live
    BY <2>4, <2>5 DEF Activate, Deactivate, Delete
  <2>6. ASSUME NEW c \in Calls, NEW i \in Ids, NEW b \in Bodies, Update(c, i, b)
        PROVE  InForce' = InForce /\ live' = live
    BY <2>4, <2>6 DEF Update
\* The lone call goes on and is not ahead of the table.
  <2>7. ASSUME NEW c \in InFlight, NEW step, Goto(c, step), UNCHANGED <<rows, live>>,
               ~Ahead(c), ~Ahead(c)'
        PROVE  InForce' = InForce /\ live' = live
    <3>1. InFlight = {c} /\ InFlight' \subseteq {c} /\ Active' = Active
      BY <2>2, <2>7 DEF Goto, InFlight, Active, TypeOK
    <3>. QED  BY <2>7, <3>1, SameTable
  <2>8. ASSUME NEW c \in Calls, Validate(c)
        PROVE  InForce' = InForce /\ live' = live
    <3>1. c \in InFlight /\ UNCHANGED <<rows, live>> /\ ~Ahead(c)
      BY <2>8 DEF Validate, InFlight, Ahead
    <3>2. PICK step \in {"push", "done"} : Goto(c, step)
      BY <2>8 DEF Validate
    <3>3. ~Ahead(c)'
      BY <3>2 DEF Goto, Ahead, TypeOK
    <3>. QED  BY <2>7, <3>1, <3>2, <3>3
  <2>9. ASSUME NEW c \in Calls, Push(c)
        PROVE  \E i \in Ids, b \in ValidBodies : Register!Put(i, b)
    <3>. DEFINE id == call[c].id
    <3>1. /\ c \in InFlight /\ id \in Ids /\ call[c].body \in ValidBodies /\ ~Ahead(c)
          /\ pc'[c] = "supersede" /\ live' = call[c].body /\ UNCHANGED <<rows, call>>
      BY <1>2, <2>9 DEF Push, Request, Slip, Goto, InFlight, Ahead, Validated, TypeOK
    <3>2. call[c].op = "activate" /\ rows[id].status # "active"
      BY <2>1, <2>9, <3>1 DEF OpaInv, KnowsOpa, Push
    <3>3. InFlight = {c} /\ InFlight' = {c} /\ Ahead(c)'
      BY <2>2, <2>9, <3>1, <3>2 DEF Push, Goto, InFlight, Ahead, TypeOK
    <3>4. InForce' = {[id |-> id, body |-> call[c].body]}
      BY <3>1, <3>2, <3>3 DEF InForce
    <3>5. \A v \in InForce : v.id # id
      BY <3>1, <3>2, <3>3, InForceAtRest DEF Active
    <3>. QED  BY <3>1, <3>4, <3>5 DEF Register!Put
  <2>10. ASSUME NEW c \in Calls, Remove(c) PROVE Register!Clear
    <3>. DEFINE id == call[c].id
    <3>1. /\ c \in InFlight /\ id \in Ids /\ ~Ahead(c)
          /\ pc'[c] = "commit" /\ live' = NoBody /\ UNCHANGED <<rows, call>>
      BY <1>2, <2>10 DEF Remove, Request, Slip, Goto, InFlight, Ahead, TypeOK
    <3>2. call[c].op = "deactivate" /\ rows[id].status = "active"
      BY <2>1, <2>10, <3>1 DEF OpaInv, KnowsOpa, SerialInv, ReadIsCurrent, Remove
    <3>3. InFlight = {c} /\ InFlight' = {c} /\ Ahead(c)'
      BY <2>2, <2>10, <3>1, <3>2 DEF Remove, Goto, InFlight, Ahead, TypeOK
    <3>4. InForce' = {}
      BY <3>1, <3>2, <3>3 DEF InForce
    <3>5. InForce # {}
      BY <3>1, <3>2, <3>3, InForceAtRest DEF Active
    <3>. QED  BY <3>1, <3>4, <3>5 DEF Register!Clear
  <2>11. ASSUME NEW c \in Calls, Supersede(c)
         PROVE  InForce' = InForce /\ live' = live
    <3>1. /\ c \in InFlight /\ pc[c] = "supersede" /\ pc'[c] = "commit"
          /\ UNCHANGED <<rows, live>>
          /\ call'[c].op = call[c].op /\ call'[c].id = call[c].id
          /\ call'[c].body = call[c].body
      BY <2>11 DEF Supersede, InFlight, Goto, TypeOK
    <3>2. call[c].op = "activate"
      BY <2>1, <3>1 DEF OpaInv, KnowsOpa
    <3>3. InFlight = {c} /\ InFlight' = {c} /\ Ahead(c) /\ Ahead(c)'
      BY <2>2, <2>11, <3>1, <3>2 DEF Supersede, Goto, InFlight, Ahead, TypeOK
    <3>4. InForce' = {[id |-> call[c].id, body |-> call[c].body]}
      BY <3>1, <3>2, <3>3 DEF InForce
    <3>. QED  BY <2>1, <3>1, <3>2, <3>3, <3>4, InForceOfCall
  <2>12. ASSUME NEW c \in Calls, Commit(c)
         PROVE  InForce' = InForce /\ live' = live
    <3>1. c \in InFlight /\ pc[c] = "commit" /\ live' = live /\ call[c].op \in Ops
      BY <2>12 DEF Commit, InFlight, TypeOK
    <3>2. InFlight = {c} /\ InFlight' = {}
      BY <2>2, <2>12, <3>1 DEF Commit, Goto, InFlight, TypeOK
    <3>3. InForce' = {[id |-> i, body |-> rows'[i].body] : i \in Active'}
      BY <3>2 DEF InForce
    <3>4. CASE call[c].op = "activate"
      <4>1. InForce = {[id |-> call[c].id, body |-> call[c].body]}
        BY <2>1, <3>1, <3>4, InForceOfCall DEF Ahead
      <4>. QED  BY <2>1, <2>12, <3>1, <3>3, <3>4, <4>1, CommitFacts
    <3>5. CASE call[c].op = "deactivate"
      <4>1. InForce = {}
        BY <2>1, <3>1, <3>5, InForceOfCall DEF Ahead
      <4>. QED  BY <2>1, <2>12, <3>1, <3>3, <3>5, <4>1, CommitFacts
    <3>6. CASE call[c].op \in {"update", "delete"}
      <4>1. Active' = Active /\ \A i \in Active : rows'[i] = rows[i]
        BY <2>1, <2>12, <3>6, CommitFacts
      <4>2. ~Ahead(c)
        BY <3>6 DEF Ahead
      <4>. QED  BY <3>1, <3>2, <4>1, <4>2, SameTable
    <3>. QED  BY <3>1, <3>4, <3>5, <3>6 DEF Ops
  <2>13. ASSUME NEW c \in Calls, RollBack(c)
         PROVE  InForce' = InForce /\ live' = live
    <3>1. c \in InFlight /\ Goto(c, "done") /\ UNCHANGED <<rows, live>> /\ ~Ahead(c)
      BY <1>2, <2>13 DEF RollBack, Slip
    <3>2. ~Ahead(c)'
      BY <3>1 DEF Goto, Ahead, InFlight, TypeOK
    <3>. QED  BY <2>7, <3>1, <3>2
  <2>14. CASE OpaRestarts
    BY <1>2, <2>14 DEF OpaRestarts, Slip
  <2>15. CASE UNCHANGED vars
    BY <2>15 DEF vars, InForce, InFlight, Ahead, Active
  <2>. QED  BY <2>3, <2>5, <2>6, <2>8, <2>9, <2>10, <2>11, <2>12, <2>13, <2>14, <2>15
            DEF Next
<1>. QED  BY <1>1, <1>2

\* Until something slips, the versions of a group and OPA behave as one
\* register, however long the calls take and whichever of them fail.
THEOREM GroupIsARegister == Spec => RegisterSpec
<1>1. Init => Register!Init
  <2>. SUFFICES ASSUME Init PROVE Register!Init
    OBVIOUS
  <2>1. InFlight = {} /\ Active = {}
    BY DEF Init, InFlight, Active
  <2>2. InForce = {}
    BY <2>1 DEF InForce
  <2>3. live = NoBody /\ slips = {}
    BY DEF Init
  <2>. QED  BY <2>2, <2>3 DEF Register!Init
<1>2. TypeOK /\ Validated /\ SerialInv /\ OpaInv /\ [Next]_vars
      => [Register!Next]_(Register!registerVars)
  BY RegisterStep
<1>. QED  BY <1>1, <1>2, PolicyTypeCorrect, ValidatedAlways, SerialAlways, OpaAlways, PTL
          DEF Spec, RegisterSpec, Register!Spec
=============================================================================
