------------------------- MODULE ModelRegistryProofs -------------------------
(***************************************************************************)
(* Proofs about the registry of models: about ModelInstallation, for any   *)
(* numbers of models, jobs and deletions, and about ModelRouting, for any  *)
(* sets of models, weights, requests and administrators.                   *)
(***************************************************************************)
EXTENDS ModelInstallation, ModelRouting, TLAPS

\* A move of one task keeps the type of all of them.
LEMMA GotoKeepsTasks ==
    ASSUME TypeOK, NEW j \in Jobs, task[j].pc \in Working, NEW s \in Working, Goto(j, s)
    PROVE  /\ task' \in [Jobs -> Tasks]
           /\ task'[j].pc = s
           /\ task'[j].model = task[j].model /\ task'[j].name = task[j].name
           /\ \A i \in Jobs : i # j => task'[i] = task[i]
<1>1. task \in [Jobs -> Tasks] /\ task' = [task EXCEPT ![j].pc = s]
  BY DEF TypeOK, Goto
<1>2. task[j] \in [pc : Working, model : Models, name : Models \cup Others]
  BY <1>1 DEF Tasks, Working, Resting
<1>. DEFINE t == [task[j] EXCEPT !.pc = s]
<1>3. t \in Tasks /\ t.pc = s /\ t.model = task[j].model /\ t.name = task[j].name
  BY <1>2 DEF Tasks
<1>4. task' = [task EXCEPT ![j] = t]
  BY <1>1
<1>. HIDE DEF t
<1>. QED  BY <1>1, <1>3, <1>4

LEMMA RestKeepsTasks ==
    ASSUME TypeOK, NEW j \in Jobs, NEW s \in Resting, Rest(j, s)
    PROVE  /\ task' \in [Jobs -> Tasks]
           /\ task'[j].pc = s
           /\ \A i \in Jobs : i # j => task'[i] = task[i]
  BY DEF TypeOK, Rest, Tasks

LEMMA CreateKeepsTasks ==
    ASSUME TypeOK, NEW j \in Jobs, NEW m \in Models, NEW name \in Models \cup Others,
           CreateJob(j, m, name)
    PROVE  /\ task' \in [Jobs -> Tasks]
           /\ task'[j].pc = "posted"
           /\ \A i \in Jobs : i # j => task'[i] = task[i]
<1>. DEFINE t == [pc |-> "posted", model |-> m, name |-> name]
<1>1. task' = [task EXCEPT ![j] = t] /\ task \in [Jobs -> Tasks]
  BY DEF CreateJob, TypeOK
<1>2. t \in Tasks /\ t.pc = "posted"
  BY DEF Tasks, Working
<1>. HIDE DEF t
<1>. QED  BY <1>1, <1>2

\* Before its model is registered a task has one, and a deletion under way too.
LEMMA ModelFacts ==
    ASSUME TypeOK
    PROVE  /\ \A j \in Jobs : task[j].pc \in Working =>
                task[j].model \in Models /\ task[j].name \in Models \cup Others
           /\ \A x \in Deletions : deletion[x].pc \in {"loaded", "removed"} =>
                deletion[x].model \in Models /\ deletion[x].n \in 0 .. MaxRows
           /\ \A x \in Deletions : deletion[x].pc = "removed" => deletion[x].model \in Ollama
           /\ Models = Ollama \cup Hosted
  BY DEF TypeOK, Tasks, DeletionStates, Working, Resting, Models

\* A model's new row.
LEMMA InsertKeepsRows ==
    ASSUME TypeOK, NEW m \in Models, NEW b \in BOOLEAN, Insert(m, b)
    PROVE  /\ row' \in [Models -> Rows]
           /\ row'[m].ready = b
           /\ \A i \in Models : i # m => row'[i] = row[i]
<1>1. /\ row \in [Models -> Rows] /\ row[m].n < MaxRows
      /\ row' = [row EXCEPT ![m] = [exists |-> TRUE, n |-> @.n + 1, ready |-> b]]
  BY DEF TypeOK, Insert
<1>2. row[m].n + 1 \in 0 .. MaxRows
  BY <1>1, RowsAssumption DEF Rows
<1>3. [exists |-> TRUE, n |-> row[m].n + 1, ready |-> b] \in Rows
  BY <1>2 DEF Rows
<1>. QED  BY <1>1, <1>3

-----------------------------------------------------------------------------
\* Every variable keeps its type: only models of Ollama are on the server,
\* and only hosted models have credentials.
THEOREM InstallationTypeCorrect == Spec => []TypeOK
<1>1. Init => TypeOK
  <2> SUFFICES ASSUME Init PROVE TypeOK
    OBVIOUS
  <2>1. row \in [Models -> Rows]
    BY RowsAssumption DEF Init, Rows
  <2>2. task \in [Jobs -> Tasks]
    BY DEF Init, Tasks, Resting
  <2>3. deletion \in [Deletions -> DeletionStates]
    BY DEF Init, DeletionStates
  <2>. QED  BY <2>1, <2>2, <2>3 DEF Init, TypeOK, Statuses
<1>2. TypeOK /\ [Next]_vars => TypeOK'
  <2> SUFFICES ASSUME TypeOK, [Next]_vars PROVE TypeOK'
    OBVIOUS
  <2>0. /\ Working = {"posted", "created", "prepare", "register"}
        /\ Resting = {"idle", "finish", "failing", "ended"}
        /\ Statuses = {"none", "pending", "running", "completed", "failed"}
        /\ \A m \in Models : row[m].n \in 0 .. MaxRows
    BY DEF Working, Resting, Statuses, TypeOK, Rows
  <2>1. ASSUME NEW m \in Models, Register(m) PROVE TypeOK'
    BY <2>1, InsertKeepsRows DEF Register, TypeOK
  <2>2. ASSUME NEW m \in Models, Pull(m) PROVE TypeOK'
    BY <2>2 DEF Pull, TypeOK
  <2>3. ASSUME NEW j \in Jobs, NEW m \in Models, NEW name \in Models \cup Others,
               CreateJob(j, m, name)
        PROVE  TypeOK'
    <3>1. task' \in [Jobs -> Tasks]
      BY <2>3, CreateKeepsTasks
    <3>. QED  BY <2>0, <2>3, <3>1 DEF CreateJob, TypeOK
  <2>17. ASSUME NEW j \in Jobs, StartTask(j) PROVE TypeOK'
    <3>1. task' \in [Jobs -> Tasks]
      BY <2>0, <2>17, GotoKeepsTasks DEF StartTask
    <3>. QED  BY <2>17, <3>1 DEF StartTask, TypeOK
  <2>18. ASSUME NEW j \in Jobs, RefreshFails(j) PROVE TypeOK'
    <3>1. task' \in [Jobs -> Tasks]
      BY <2>0, <2>18, RestKeepsTasks DEF RefreshFails
    <3>. QED  BY <2>18, <3>1 DEF RefreshFails, TypeOK
  <2>4. ASSUME NEW j \in Jobs, Start(j) PROVE TypeOK'
    <3>1. task' \in [Jobs -> Tasks]
      BY <2>0, <2>4, GotoKeepsTasks DEF Start
    <3>. QED  BY <2>0, <2>4, <3>1 DEF Start, TypeOK
  <2>5. ASSUME NEW j \in Jobs, Prepare(j) PROVE TypeOK'
    <3>1. task' \in [Jobs -> Tasks]
      BY <2>0, <2>5, GotoKeepsTasks DEF Prepare
    <3>. QED  BY <2>0, <2>5, <3>1 DEF Prepare, TypeOK
  <2>6. ASSUME NEW j \in Jobs, RegisterModel(j) PROVE TypeOK'
    <3>1. task' \in [Jobs -> Tasks]
      BY <2>0, <2>6, RestKeepsTasks DEF RegisterModel
    <3>2. row' \in [Models -> Rows]
      <4>1. task[j].model \in Models /\ HasPrepared(j) \in BOOLEAN
        BY <2>0, <2>6, ModelFacts DEF RegisterModel, HasPrepared
      <4>. QED  BY <2>6, <4>1, InsertKeepsRows DEF RegisterModel
    <3>. QED  BY <2>6, <3>1, <3>2 DEF RegisterModel, TypeOK
  <2>7. ASSUME NEW j \in Jobs, Complete(j) PROVE TypeOK'
    <3>1. task' \in [Jobs -> Tasks]
      BY <2>0, <2>7, RestKeepsTasks DEF Complete
    <3>. QED  BY <2>0, <2>7, <3>1 DEF Complete, TypeOK
  <2>8. ASSUME NEW j \in Jobs, StepFails(j) PROVE TypeOK'
    <3>1. task' \in [Jobs -> Tasks]
      BY <2>0, <2>8, RestKeepsTasks DEF StepFails
    <3>. QED  BY <2>8, <3>1 DEF StepFails, TypeOK
  <2>9. ASSUME NEW j \in Jobs, MarkFailed(j) PROVE TypeOK'
    <3>1. task' \in [Jobs -> Tasks]
      BY <2>0, <2>9, RestKeepsTasks DEF MarkFailed
    <3>. QED  BY <2>0, <2>9, <3>1 DEF MarkFailed, TypeOK
  <2>10. ASSUME NEW j \in Jobs, MarkFailedRaises(j) PROVE TypeOK'
    <3>1. task' \in [Jobs -> Tasks]
      BY <2>0, <2>10, RestKeepsTasks DEF MarkFailedRaises
    <3>. QED  BY <2>10, <3>1 DEF MarkFailedRaises, TypeOK
  <2>11. ASSUME NEW x \in Deletions, NEW m \in Models, BeginDelete(x, m) PROVE TypeOK'
    <3>. DEFINE d == [pc |-> "loaded", model |-> m, n |-> row[m].n]
    <3>1. deletion' = [deletion EXCEPT ![x] = d] /\ deletion \in [Deletions -> DeletionStates]
      BY <2>11 DEF BeginDelete, TypeOK
    <3>2. d \in DeletionStates
      BY <2>0 DEF DeletionStates
    <3>. HIDE DEF d
    <3>3. deletion' \in [Deletions -> DeletionStates]
      BY <3>1, <3>2
    <3>. QED  BY <2>11, <3>3 DEF BeginDelete, TypeOK
  <2>12. ASSUME NEW x \in Deletions, DeleteFromServer(x) PROVE TypeOK'
    <3>. DEFINE d == [deletion[x] EXCEPT !.pc = "removed"]
    <3>1. /\ deletion \in [Deletions -> DeletionStates] /\ deletion[x].pc = "loaded"
          /\ deletion' = [deletion EXCEPT ![x] = d] /\ deletion[x].model \in Ollama
      BY <2>12 DEF DeleteFromServer, TypeOK
    <3>2. deletion[x] \in [pc : {"loaded"}, model : Ollama, n : 0 .. MaxRows]
      BY <3>1 DEF DeletionStates
    <3>3. d \in DeletionStates
      BY <3>2 DEF DeletionStates
    <3>. HIDE DEF d
    <3>4. deletion' \in [Deletions -> DeletionStates]
      BY <3>1, <3>3
    <3>5. torn' \subseteq Ollama /\ server' \subseteq Ollama
      BY <2>12 DEF DeleteFromServer, TypeOK
    <3>. QED  BY <2>12, <3>4, <3>5 DEF DeleteFromServer, TypeOK
  <2>13. ASSUME NEW x \in Deletions, CommitDelete(x) PROVE TypeOK'
    <3>1. /\ deletion \in [Deletions -> DeletionStates] /\ row \in [Models -> Rows]
          /\ deletion' = [deletion EXCEPT ![x] = [pc |-> "ended"]]
          /\ row' = [row EXCEPT ![deletion[x].model].exists = FALSE]
      BY <2>13 DEF CommitDelete, TypeOK
    <3>2. deletion' \in [Deletions -> DeletionStates]
      BY <3>1 DEF DeletionStates
    <3>3. row' \in [Models -> Rows]
      BY <2>0, <3>1 DEF Rows
    <3>. QED  BY <2>13, <3>2, <3>3 DEF CommitDelete, TypeOK
  <2>14. ASSUME NEW x \in Deletions, DeleteFails(x) PROVE TypeOK'
    <3>1. /\ deletion \in [Deletions -> DeletionStates]
          /\ deletion' = [deletion EXCEPT ![x] = [pc |-> "ended"]]
      BY <2>14 DEF DeleteFails, TypeOK
    <3>2. deletion' \in [Deletions -> DeletionStates]
      BY <3>1 DEF DeletionStates
    <3>3. torn' \subseteq Ollama
      BY <2>14, ModelFacts DEF DeleteFails, TypeOK
    <3>. QED  BY <2>14, <3>2, <3>3 DEF DeleteFails, TypeOK
  <2>15. CASE Crash
    <3>1. task \in [Jobs -> Tasks] /\ deletion \in [Deletions -> DeletionStates]
      BY DEF TypeOK
    <3>2. task' \in [Jobs -> Tasks]
      BY <2>0, <2>15, <3>1 DEF Crash, Tasks
    <3>3. deletion' \in [Deletions -> DeletionStates]
      BY <2>15, <3>1 DEF Crash, DeletionStates
    <3>4. torn' \subseteq Ollama /\ cut' \subseteq Jobs
      BY <2>15, ModelFacts DEF Crash, TypeOK
    <3>. QED  BY <2>15, <3>2, <3>3, <3>4 DEF Crash, TypeOK
  <2>16. CASE UNCHANGED vars
    BY <2>16 DEF vars, TypeOK
  <2>. QED
    BY <2>1, <2>2, <2>3, <2>4, <2>5, <2>6, <2>7, <2>8, <2>9, <2>10, <2>11, <2>12,
       <2>13, <2>14, <2>15, <2>16, <2>17, <2>18 DEF Next, Run
<1>. QED  BY <1>1, <1>2, PTL DEF Spec

-----------------------------------------------------------------------------
\* Where the task of a job stands decides its status and whether its model
\* was registered.
StatusFollowsTask ==
    \A j \in Jobs :
        /\ task[j].pc = "idle" => status[j] = "none"
        /\ task[j].pc \in {"posted", "created"} => status[j] = "pending"
        /\ task[j].pc \in {"prepare", "register", "finish"} => status[j] = "running"
        /\ task[j].pc = "failing" => status[j] \in {"pending", "running"}
        /\ task[j].pc \in {"idle", "posted", "created", "prepare", "register"} =>
             j \notin installed
        /\ task[j].pc = "finish" => j \in installed

LEMMA StatusIsInitial == Init => StatusFollowsTask /\ Board!Init
  BY DEF Init, StatusFollowsTask, Board!Init

LEMMA StepFollowsTask ==
    ASSUME TypeOK, StatusFollowsTask, [Next]_vars
    PROVE  StatusFollowsTask'
<1>0. /\ Working = {"posted", "created", "prepare", "register"}
      /\ Resting = {"idle", "finish", "failing", "ended"}
      /\ task \in [Jobs -> Tasks] /\ status \in [Jobs -> Statuses] /\ installed \subseteq Jobs
  BY DEF Working, Resting, TypeOK
<1>1. ASSUME NEW j \in Jobs, NEW m \in Models, NEW name \in Models \cup Others,
             CreateJob(j, m, name)
      PROVE  StatusFollowsTask'
  <2>1. /\ task'[j].pc = "posted" /\ \A i \in Jobs : i # j => task'[i] = task[i]
    BY <1>1, CreateKeepsTasks
  <2>. QED  BY <1>0, <1>1, <2>1 DEF CreateJob, StatusFollowsTask
<1>11. ASSUME NEW j \in Jobs, StartTask(j) PROVE StatusFollowsTask'
  <2>1. /\ task'[j].pc = "created" /\ \A i \in Jobs : i # j => task'[i] = task[i]
    BY <1>0, <1>11, GotoKeepsTasks DEF StartTask
  <2>. QED  BY <1>0, <1>11, <2>1 DEF StartTask, StatusFollowsTask
<1>12. ASSUME NEW j \in Jobs, RefreshFails(j) PROVE StatusFollowsTask'
  <2>1. /\ task'[j].pc = "ended" /\ \A i \in Jobs : i # j => task'[i] = task[i]
    BY <1>0, <1>12, RestKeepsTasks DEF RefreshFails
  <2>. QED  BY <1>0, <1>12, <2>1 DEF RefreshFails, StatusFollowsTask
<1>2. ASSUME NEW j \in Jobs, Start(j) PROVE StatusFollowsTask'
  <2>1. /\ task'[j].pc = "prepare" /\ \A i \in Jobs : i # j => task'[i] = task[i]
    BY <1>0, <1>2, GotoKeepsTasks DEF Start
  <2>. QED  BY <1>0, <1>2, <2>1 DEF Start, StatusFollowsTask
<1>3. ASSUME NEW j \in Jobs, Prepare(j) PROVE StatusFollowsTask'
  <2>1. /\ task'[j].pc = "register" /\ \A i \in Jobs : i # j => task'[i] = task[i]
    BY <1>0, <1>3, GotoKeepsTasks DEF Prepare
  <2>. QED  BY <1>0, <1>3, <2>1 DEF Prepare, StatusFollowsTask
<1>4. ASSUME NEW j \in Jobs, RegisterModel(j) PROVE StatusFollowsTask'
  <2>1. /\ task'[j].pc = "finish" /\ \A i \in Jobs : i # j => task'[i] = task[i]
    BY <1>0, <1>4, RestKeepsTasks DEF RegisterModel
  <2>. QED  BY <1>0, <1>4, <2>1 DEF RegisterModel, StatusFollowsTask
<1>5. ASSUME NEW j \in Jobs, Complete(j) PROVE StatusFollowsTask'
  <2>1. /\ task'[j].pc = "ended" /\ \A i \in Jobs : i # j => task'[i] = task[i]
    BY <1>0, <1>5, RestKeepsTasks DEF Complete
  <2>. QED  BY <1>0, <1>5, <2>1 DEF Complete, StatusFollowsTask
<1>6. ASSUME NEW j \in Jobs, StepFails(j) PROVE StatusFollowsTask'
  <2>1. /\ task'[j].pc = "failing" /\ \A i \in Jobs : i # j => task'[i] = task[i]
    BY <1>0, <1>6, RestKeepsTasks DEF StepFails
  <2>. QED  BY <1>0, <1>6, <2>1 DEF StepFails, StatusFollowsTask
<1>7. ASSUME NEW j \in Jobs, MarkFailed(j) PROVE StatusFollowsTask'
  <2>1. /\ task'[j].pc = "ended" /\ \A i \in Jobs : i # j => task'[i] = task[i]
    BY <1>0, <1>7, RestKeepsTasks DEF MarkFailed
  <2>. QED  BY <1>0, <1>7, <2>1 DEF MarkFailed, StatusFollowsTask
<1>8. ASSUME NEW j \in Jobs, MarkFailedRaises(j) PROVE StatusFollowsTask'
  <2>1. /\ task'[j].pc = "ended" /\ \A i \in Jobs : i # j => task'[i] = task[i]
    BY <1>0, <1>8, RestKeepsTasks DEF MarkFailedRaises
  <2>. QED  BY <1>0, <1>8, <2>1 DEF MarkFailedRaises, StatusFollowsTask
<1>9. CASE Crash
  <2>1. \A i \in Jobs : task'[i].pc = "ended" \/ task'[i] = task[i]
    BY <1>0, <1>9 DEF Crash
  <2>. QED  BY <1>9, <2>1 DEF Crash, StatusFollowsTask
<1>10. CASE UNCHANGED <<task, status, installed>>
  BY <1>10 DEF StatusFollowsTask
<1>. QED
  BY <1>1, <1>2, <1>3, <1>4, <1>5, <1>6, <1>7, <1>8, <1>9, <1>10, <1>11, <1>12
  DEF Next, Run, vars, Register, Pull, BeginDelete, DeleteFromServer, CommitDelete, DeleteFails

\* Every step of the registry is a step of the job board or leaves it alone.
LEMMA StepOfTheBoard ==
    ASSUME TypeOK, StatusFollowsTask, [Next]_vars
    PROVE  [Board!Next]_(Board!boardVars)
<1>1. ASSUME NEW j \in Jobs, NEW m \in Models, NEW name \in Models \cup Others,
             CreateJob(j, m, name)
      PROVE  Board!Post(j)
  BY <1>1 DEF CreateJob, StatusFollowsTask, Board!Post
<1>2. ASSUME NEW j \in Jobs, Start(j) PROVE Board!Begin(j)
  BY <1>2 DEF Start, StatusFollowsTask, Board!Begin
<1>3. ASSUME NEW j \in Jobs, RegisterModel(j) PROVE Board!Work(j)
  BY <1>3 DEF RegisterModel, StatusFollowsTask, Board!Work
<1>4. ASSUME NEW j \in Jobs, Complete(j) PROVE Board!Complete(j)
  BY <1>4 DEF Complete, StatusFollowsTask, Board!Complete
<1>5. ASSUME NEW j \in Jobs, MarkFailed(j) PROVE Board!Fail(j)
  BY <1>5 DEF MarkFailed, StatusFollowsTask, Board!Fail
<1>6. CASE UNCHANGED <<status, installed>>
  BY <1>6 DEF Board!boardVars
<1>. QED
  BY <1>1, <1>2, <1>3, <1>4, <1>5, <1>6
  DEF Next, Run, vars, Register, Pull, StartTask, RefreshFails, Prepare, StepFails, MarkFailedRaises, BeginDelete,
      DeleteFromServer, CommitDelete, DeleteFails, Crash, Board!Next

\* The jobs of the registry implement the job board: one final status each,
\* and COMPLETED only for a job whose model was registered, whatever
\* deletions, failures and restarts come in between.
THEOREM JobsKeepTheBoard == Spec => BoardSpec
<1>1. Init => StatusFollowsTask /\ Board!Init
  BY StatusIsInitial
<1>2. TypeOK /\ StatusFollowsTask /\ [Next]_vars => StatusFollowsTask'
  BY StepFollowsTask
<1>3. TypeOK /\ StatusFollowsTask /\ [Next]_vars => [Board!Next]_(Board!boardVars)
  BY StepOfTheBoard
<1>. QED  BY <1>1, <1>2, <1>3, InstallationTypeCorrect, PTL DEF Spec, BoardSpec, Board!Spec

-----------------------------------------------------------------------------
\* A job that is about to register what it has prepared finds it there, unless
\* a deletion came between.
PreparedIsServed ==
    \A j \in Jobs : task[j].pc = "register" /\ HasPrepared(j) =>
        task[j].model \in server \cup vault \cup torn

ServedInv == InstalledModelsAreServed /\ PreparedIsServed

LEMMA ServedStep ==
    ASSUME TypeOK, ServedInv, [Next]_vars
    PROVE  ServedInv'
<1>0. /\ Working = {"posted", "created", "prepare", "register"}
      /\ Resting = {"idle", "finish", "failing", "ended"}
      /\ Models = Ollama \cup Hosted /\ torn \subseteq Ollama
      /\ row \in [Models -> Rows] /\ task \in [Jobs -> Tasks]
      /\ deletion \in [Deletions -> DeletionStates]
  BY DEF Working, Resting, Models, TypeOK
\* What is there stays there, or is excused; no row and no task gets ready.
<1>20. ASSUME \A m \in Models :
                m \in server \cup vault \cup torn => m \in server' \cup vault' \cup torn',
              \A m \in Models : row'[m].exists /\ row'[m].ready =>
                /\ row[m].exists /\ row[m].ready /\ row'[m].n = row[m].n,
              \A x \in Deletions, m \in Models :
                deletion[x].pc = "removed" /\ deletion[x].model = m
                /\ row'[m].exists /\ deletion[x].n = row[m].n =>
                  deletion'[x] = deletion[x] \/ m \in torn',
              \A j \in Jobs : task'[j].pc = "register" => task'[j] = task[j],
              vaultOn' = vaultOn
       PROVE  ServedInv'
  <2>1. InstalledModelsAreServed'
    <3> SUFFICES ASSUME NEW m \in Models, row'[m].exists, row'[m].ready,
                        m \notin server' \cup vault' \cup torn'
                 PROVE  \E x \in Deletions : /\ deletion'[x].pc = "removed"
                                             /\ deletion'[x].model = m
                                             /\ deletion'[x].n = row'[m].n
      BY DEF InstalledModelsAreServed
    <3>1. /\ row[m].exists /\ row[m].ready /\ row'[m].n = row[m].n
          /\ m \notin server \cup vault \cup torn
      BY <1>20
    <3>2. PICK x \in Deletions : /\ deletion[x].pc = "removed" /\ deletion[x].model = m
                                 /\ deletion[x].n = row[m].n
      BY <3>1 DEF ServedInv, InstalledModelsAreServed
    <3>. QED  BY <1>20, <3>1, <3>2
  <2>2. PreparedIsServed'
    <3> SUFFICES ASSUME NEW j \in Jobs, task'[j].pc = "register", HasPrepared(j)'
                 PROVE  task'[j].model \in server' \cup vault' \cup torn'
      BY DEF PreparedIsServed
    <3>1. task'[j] = task[j] /\ HasPrepared(j) /\ task[j].model \in Models
      BY <1>0, <1>20, ModelFacts DEF HasPrepared
    <3>. QED  BY <1>20, <3>1 DEF ServedInv, PreparedIsServed
  <2>. QED  BY <2>1, <2>2 DEF ServedInv
<1>1. ASSUME NEW m \in Models, Register(m) PROVE ServedInv'
  <2>1. ~row'[m].ready /\ \A i \in Models : i # m => row'[i] = row[i]
    BY <1>1, InsertKeepsRows DEF Register
  <2>2. UNCHANGED <<vaultOn, server, vault, task, deletion, torn>>
    BY <1>1 DEF Register
  <2>. QED  BY <1>20, <2>1, <2>2
<1>2. ASSUME NEW m \in Models, Pull(m) PROVE ServedInv'
  <2>1. /\ UNCHANGED <<row, vaultOn, vault, task, deletion>>
        /\ server' = server \cup {m} /\ torn' = torn \ {m}
    BY <1>2 DEF Pull
  <2>. QED  BY <1>20, <2>1
\* A task that moves anywhere but to its registration.
<1>3. ASSUME NEW j \in Jobs, task'[j].pc # "register",
             \A i \in Jobs : i # j => task'[i] = task[i],
             UNCHANGED <<row, vaultOn, server, vault, deletion, torn>>
      PROVE  ServedInv'
  BY <1>3, <1>20
<1>4. ASSUME NEW j \in Jobs,
             \/ \E m \in Models, name \in Models \cup Others : CreateJob(j, m, name)
             \/ StartTask(j) \/ RefreshFails(j) \/ Start(j) \/ Complete(j) \/ StepFails(j)
             \/ MarkFailed(j) \/ MarkFailedRaises(j)
      PROVE  ServedInv'
  <2>1. task'[j].pc # "register" /\ \A i \in Jobs : i # j => task'[i] = task[i]
    BY <1>0, <1>4, CreateKeepsTasks, GotoKeepsTasks, RestKeepsTasks
    DEF StartTask, RefreshFails, Start, Complete, StepFails, MarkFailed, MarkFailedRaises
  <2>2. UNCHANGED <<row, vaultOn, server, vault, deletion, torn>>
    BY <1>4, Zenon DEF CreateJob, StartTask, RefreshFails, Start, Complete, StepFails,
                       MarkFailed, MarkFailedRaises
  <2>. QED  BY <1>3, <2>1, <2>2
<1>5. ASSUME NEW j \in Jobs, Prepare(j) PROVE ServedInv'
  <2>0. task[j].model \in Models /\ task[j].pc \in Working
    BY <1>0, <1>5, ModelFacts DEF Prepare
  <2>1. /\ task'[j].model = task[j].model /\ task'[j].name = task[j].name
        /\ \A i \in Jobs : i # j => task'[i] = task[i]
    BY <1>0, <1>5, <2>0, GotoKeepsTasks DEF Prepare
  <2>2. /\ server' = server \cup ({task[j].name} \cap Ollama) /\ vault \subseteq vault'
        /\ vaultOn /\ task[j].model \in Hosted => task[j].model \in vault'
        /\ torn' = torn \ {task[j].name} /\ UNCHANGED <<row, vaultOn, deletion>>
    BY <1>5 DEF Prepare
  <2>3. \A m \in Models :
          m \in server \cup vault \cup torn => m \in server' \cup vault' \cup torn'
    BY <1>0, <2>2
  <2>4. PreparedIsServed'
    <3>1. ASSUME HasPrepared(j)' PROVE task'[j].model \in server' \cup vault'
      BY <1>0, <2>0, <2>1, <2>2, <3>1 DEF HasPrepared
    <3>2. ASSUME NEW i \in Jobs, i # j, task'[i].pc = "register", HasPrepared(i)'
          PROVE  task'[i].model \in server' \cup vault' \cup torn'
      <4>1. task'[i] = task[i] /\ HasPrepared(i) /\ task[i].model \in Models
        BY <1>0, <2>1, <2>2, <3>2, ModelFacts DEF HasPrepared
      <4>. QED  BY <2>3, <3>2, <4>1 DEF ServedInv, PreparedIsServed
    <3>. QED  BY <3>1, <3>2 DEF PreparedIsServed
  <2>5. InstalledModelsAreServed'
    BY <2>2, <2>3 DEF ServedInv, InstalledModelsAreServed
  <2>. QED  BY <2>4, <2>5 DEF ServedInv
<1>6. ASSUME NEW j \in Jobs, RegisterModel(j) PROVE ServedInv'
  <2>. DEFINE m == task[j].model
  <2>1. m \in Models /\ HasPrepared(j) \in BOOLEAN
    BY <1>0, <1>6, ModelFacts DEF RegisterModel, HasPrepared
  <2>2. /\ row'[m].ready = HasPrepared(j)
        /\ \A i \in Models : i # m => row'[i] = row[i]
    BY <1>6, <2>1, InsertKeepsRows DEF RegisterModel
  <2>3. HasPrepared(j) => m \in server \cup vault \cup torn
    BY <1>6 DEF RegisterModel, ServedInv, PreparedIsServed
  <2>4. UNCHANGED <<vaultOn, server, vault, deletion, torn>>
    BY <1>6 DEF RegisterModel
  <2>5. InstalledModelsAreServed'
    BY <2>2, <2>3, <2>4 DEF ServedInv, InstalledModelsAreServed
  <2>6. task'[j].pc = "finish" /\ \A i \in Jobs : i # j => task'[i] = task[i]
    BY <1>0, <1>6, RestKeepsTasks DEF RegisterModel
  <2>. QED  BY <2>4, <2>5, <2>6 DEF ServedInv, PreparedIsServed, HasPrepared
<1>7. ASSUME NEW x \in Deletions, NEW m \in Models, BeginDelete(x, m) PROVE ServedInv'
  <2>1. deletion[x].pc # "removed" /\ \A y \in Deletions : y # x => deletion'[y] = deletion[y]
    BY <1>0, <1>7 DEF BeginDelete
  <2>2. UNCHANGED <<row, vaultOn, server, vault, task, torn>>
    BY <1>7 DEF BeginDelete
  <2>. QED  BY <1>20, <2>1, <2>2
<1>8. ASSUME NEW x \in Deletions, DeleteFromServer(x) PROVE ServedInv'
  <2>. DEFINE m == deletion[x].model
  <2>1. /\ deletion[x].pc = "loaded" /\ m \in Ollama
        /\ deletion' = [deletion EXCEPT ![x].pc = "removed"]
    BY <1>8 DEF DeleteFromServer
  <2>2. deletion[x] \in [pc : {"loaded"}, model : Models, n : 0 .. MaxRows]
    BY <1>0, <2>1 DEF DeletionStates
  <2>3. /\ deletion'[x].pc = "removed" /\ deletion'[x].model = m
        /\ deletion'[x].n = deletion[x].n
        /\ \A y \in Deletions : y # x => deletion'[y] = deletion[y]
    BY <1>0, <2>1, <2>2
  <2>4. /\ \A i \in server \cup vault : i # m => i \in server' \cup vault'
        /\ torn \subseteq torn'
        /\ Prepared(m) # {} \/ row[m].n # deletion[x].n => m \in torn'
        /\ UNCHANGED <<row, vaultOn, task>>
    BY <1>8 DEF DeleteFromServer
  <2>5. PreparedIsServed'
    BY <2>4 DEF ServedInv, PreparedIsServed, Prepared, HasPrepared
  <2>6. InstalledModelsAreServed'
    BY <2>1, <2>3, <2>4 DEF ServedInv, InstalledModelsAreServed
  <2>. QED  BY <2>5, <2>6 DEF ServedInv
<1>9. ASSUME NEW x \in Deletions, CommitDelete(x) PROVE ServedInv'
  <2>. DEFINE m == deletion[x].model
  <2>1. /\ m \in Models
        /\ ~row'[m].exists /\ \A i \in Models : i # m => row'[i] = row[i]
        /\ \A y \in Deletions : y # x => deletion'[y] = deletion[y]
    BY <1>0, <1>9, ModelFacts DEF CommitDelete, Rows
  <2>2. UNCHANGED <<vaultOn, server, vault, task, torn>>
    BY <1>9 DEF CommitDelete
  <2>. QED  BY <1>20, <2>1, <2>2
<1>10. ASSUME NEW x \in Deletions, DeleteFails(x) PROVE ServedInv'
  <2>1. /\ \A y \in Deletions : y # x => deletion'[y] = deletion[y]
        /\ torn \subseteq torn'
        /\ deletion[x].pc = "removed" => deletion[x].model \in torn'
    BY <1>0, <1>10 DEF DeleteFails
  <2>2. UNCHANGED <<row, vaultOn, server, vault, task>>
    BY <1>10 DEF DeleteFails
  <2>. QED  BY <1>20, <2>1, <2>2
<1>11. CASE Crash
  <2>1. \A i \in Jobs : task'[i].pc = "ended" \/ task'[i] = task[i]
    BY <1>0, <1>11 DEF Crash
  <2>2. /\ torn \subseteq torn' /\ UNCHANGED <<row, vaultOn, server, vault>>
        /\ \A y \in Deletions : deletion[y].pc = "removed" => deletion[y].model \in torn'
    BY <1>11 DEF Crash
  <2>. QED  BY <1>20, <2>1, <2>2
<1>12. CASE UNCHANGED vars
  BY <1>12, <1>20 DEF vars
<1>. QED
  BY <1>1, <1>2, <1>4, <1>5, <1>6, <1>7, <1>8, <1>9, <1>10, <1>11, <1>12 DEF Next, Run

\* A model that a job has registered under the name it downloaded, or with its
\* credentials stored, can be served, except for what a deletion has removed
\* that is still under way, broke off or overtook a job.
THEOREM InstalledModelsServed == Spec => []InstalledModelsAreServed
<1>1. Init => ServedInv
  BY DEF Init, ServedInv, InstalledModelsAreServed, PreparedIsServed, HasPrepared
<1>2. TypeOK /\ ServedInv /\ [Next]_vars => ServedInv'
  BY ServedStep
<1>3. ServedInv => InstalledModelsAreServed
  BY DEF ServedInv
<1>. QED  BY <1>1, <1>2, <1>3, InstallationTypeCorrect, PTL DEF Spec

-----------------------------------------------------------------------------
(* Routing.                                                                *)

Reqs == [pc : {"idle", "listing", "priming", "primed", "halfread", "weighed", "scoring",
               "selected", "rescoring"},
         i : RowWeights, w : Blends, by : Blends, models : SUBSET Routable, fresh : BOOLEAN]

\* Blended weights are numbers, and each has its key.
LEMMA BlendFacts ==
    /\ Blends \subseteq Nat
    /\ BuiltIn \in Blends /\ Default \in RowWeights /\ General \in RowWeights
    /\ \A w \in Blends : Key(w) \in ScoreKeys
    /\ \A i, g \in RowWeights, c \in Confidences : Blend(i, g, c) \in Blends
<1>1. ASSUME NEW i \in RowWeights, NEW g \in RowWeights, NEW c \in Confidences
      PROVE  Blend(i, g, c) \in Nat
  <2>1. /\ i \in Nat /\ g \in Nat /\ c \in Nat /\ Unit - c \in Nat
    BY WeightsAssumption
  <2>2. \A x, y \in Nat : x * y \in Nat
    OBVIOUS
  <2>3. i * c \in Nat /\ g * (Unit - c) \in Nat
    BY <2>1, <2>2
  <2>. QED  BY <2>3 DEF Blend
<1>2. Blends \subseteq Nat
  BY <1>1 DEF Blends
<1>3. \A i, g \in RowWeights, c \in Confidences : Blend(i, g, c) \in Blends
  BY DEF Blends
<1>4. Default \in RowWeights /\ General \in RowWeights /\ Unit \in Confidences
  BY WeightsAssumption
<1>5. BuiltIn \in Blends
  BY <1>3, <1>4 DEF BuiltIn
<1>6. \A w \in Blends : Key(w) \in ScoreKeys
  BY Zenon DEF ScoreKeys
<1>. QED  BY <1>2, <1>3, <1>4, <1>5, <1>6

\* Weights with one key differ by less than one in the third decimal.
LEMMA SameKeyIsClose ==
    ASSUME NEW v \in Nat, NEW w \in Nat, Key(v) = Key(w)
    PROVE  Close(v, w)
<1>. DEFINE n == 2 * Grain  k == Key(w)
<1>1. n \in Nat /\ n > 0 /\ Grain \in Nat
  BY WeightsAssumption
<1>2. \A x \in Nat : /\ x \div n \in Nat
                     /\ n * (x \div n) <= x /\ x < n * (x \div n) + n
  BY <1>1
<1>3. /\ k = (2 * v + Grain) \div n /\ k = (2 * w + Grain) \div n
      /\ 2 * v + Grain \in Nat /\ 2 * w + Grain \in Nat
  BY <1>1 DEF Key
<1>. HIDE DEF n, k
<1>4. /\ n * k <= 2 * v + Grain /\ 2 * v + Grain < n * k + n
      /\ n * k <= 2 * w + Grain /\ 2 * w + Grain < n * k + n
  BY <1>2, <1>3
<1>5. n * k \in Nat
  BY <1>1, <1>2, <1>3
<1>6. 2 * v < 2 * w + n /\ 2 * w < 2 * v + n
  BY <1>1, <1>4, <1>5
<1>. QED  BY <1>1, <1>6 DEF Close, n

\* Spoiling an entry keeps its type, and what it says of models and weights.
LEMMA SpoiledFacts ==
    /\ \A e \in Lists :
         /\ Spoiled(e) \in Lists
         /\ Spoiled(e) # None => ~Spoiled(e).fresh
    /\ \A e \in Scores :
         /\ Spoiled(e) \in Scores
         /\ Spoiled(e) # None =>
              e # None /\ ~Spoiled(e).fresh /\ Spoiled(e).by = e.by
  BY DEF Spoiled, Lists, Scores

\* What SpoilRest does to the entries that are not left and to those that are.
LEMMA SpoilRestFacts ==
    ASSUME RoutingTypeOK, NEW left, SpoilRest(left)
    PROVE  /\ list' \in [Keys -> Lists]
           /\ scored' \in [ScoreKeys -> Scores]
           /\ \A k \in Keys :
                IF k \in left THEN list'[k] # None => ~list'[k].fresh ELSE list'[k] = list[k]
           /\ \A k \in ScoreKeys :
                IF "scores" \in left THEN scored'[k] # None => ~scored'[k].fresh
                                     ELSE scored'[k] = scored[k]
           /\ \A k \in ScoreKeys :
                scored'[k] # None => scored[k] # None /\ scored'[k].by = scored[k].by
<1>1. /\ list \in [Keys -> Lists] /\ scored \in [ScoreKeys -> Scores]
      /\ list' = [k \in Keys |-> IF k \in left THEN Spoiled(list[k]) ELSE list[k]]
      /\ scored' = IF "scores" \in left
                     THEN [k \in ScoreKeys |-> Spoiled(scored[k])] ELSE scored
  BY DEF SpoilRest, RoutingTypeOK
<1>2. CASE "scores" \in left
  BY <1>1, <1>2, SpoiledFacts
<1>3. CASE "scores" \notin left
  BY <1>1, <1>3, SpoiledFacts
<1>. QED  BY <1>2, <1>3

\* The models to be scored are models, and when they are marked fresh they
\* are those of the table.
LEMMA CandidateFacts ==
    ASSUME RoutingTypeOK
    PROVE  /\ Candidates \in SUBSET Routable
           /\ CandidatesFresh \in BOOLEAN
           /\ CandidatesFresh => Candidates = active
<1>1. list["routing"] \in Lists
  BY DEF RoutingTypeOK, Keys
<1>. QED  BY <1>1 DEF Candidates, CandidatesFresh, Lists

\* What the steps of a request do to it.
LEMMA RequestMoves ==
    ASSUME RoutingTypeOK, NEW d \in Requests, NEW q \in Reqs,
           request' = [request EXCEPT ![d] = q]
    PROVE  /\ request' \in [Requests -> Reqs] /\ request'[d] = q
           /\ \A x \in Requests : x # d => request'[x] = request[x]
  BY DEF RoutingTypeOK, Reqs

LEMMA IdleIsARequest ==
    Idle \in Reqs /\ Idle.pc = "idle"
  BY BlendFacts DEF Idle, Reqs

-----------------------------------------------------------------------------
\* The steps of a request; each leaves the table, the weights and what is to
\* be invalidated alone.
RequestStep(d) ==
    \/ ListModels(d)    \/ SetAdminList(d) \/ PrimeList(d) \/ SetRoutingList(d)
    \/ ReadIntentRow(d) \/ \E c \in Confidences : ReadGeneralRow(d, c)
    \/ Select(d)        \/ SetScores(d)    \/ BuildFallbackChain(d)
    \/ Abandon(d)

\* What is in hand is a list of models, and scores are made from it.
LEMMA EntryFacts ==
    ASSUME RoutingTypeOK, NEW d \in Requests
    PROVE  /\ Entry(d) \in Lists
           /\ Entry(d).models = request[d].models
           /\ Entry(d).fresh = request[d].fresh
           /\ [models |-> request[d].models, fresh |-> request[d].fresh,
               by |-> request[d].by] \in Scores
  BY DEF RoutingTypeOK, Entry, Lists, Scores

\* A request that goes on with the models S in hand, or with none.
LEMMA HoldsFacts ==
    ASSUME RoutingTypeOK, NEW d \in Requests,
           NEW step \in {"listing", "priming", "primed", "selected"},
           NEW S \in SUBSET Routable, NEW f \in BOOLEAN, Holds(d, step, S, f)
    PROVE  /\ request' \in [Requests -> Reqs]
           /\ request'[d].pc = step /\ request'[d].models = S /\ request'[d].fresh = f
           /\ request'[d].w = request[d].w /\ request'[d].by = request[d].by
           /\ \A x \in Requests : x # d => request'[x] = request[x]
<1>1. /\ request \in [Requests -> Reqs]
      /\ request' = [request EXCEPT ![d].pc = step, ![d].models = S, ![d].fresh = f]
  BY DEF RoutingTypeOK, Reqs, Holds
<1>. DEFINE q == [request[d] EXCEPT !.pc = step, !.models = S, !.fresh = f]
<1>2. request' = [request EXCEPT ![d] = q]
  BY <1>1
<1>3. /\ q \in Reqs /\ q.pc = step /\ q.models = S /\ q.fresh = f
      /\ q.w = request[d].w /\ q.by = request[d].by
  BY <1>1 DEF Reqs
<1>4. request'[d] = q /\ \A x \in Requests : x # d => request'[x] = request[x]
  BY <1>1, <1>2
<1>. HIDE DEF q
<1>. QED  BY <1>1, <1>2, <1>3, <1>4

LEMMA ProceedIsHolds ==
    \A d, step : Proceed(d, step) => Holds(d, step, {}, TRUE)
  BY DEF Proceed, Holds

\* A selection from cached scores, or of models that are to be scored with
\* the request's own weights.
LEMMA SelectFacts ==
    ASSUME RoutingTypeOK, NEW d \in Requests, Select(d)
    PROVE  /\ request' \in [Requests -> Reqs]
           /\ \A x \in Requests : x # d => request'[x] = request[x]
           /\ request'[d].w = request[d].w
           /\ \/ /\ request'[d].pc = "selected" /\ scored[Key(request[d].w)] # None
                 /\ request'[d].by = scored[Key(request[d].w)].by
              \/ /\ request'[d].pc \in {"selected", "scoring"}
                 /\ request'[d].by = request[d].w
                 /\ request'[d].pc = "scoring" =>
                      /\ request'[d].models = Candidates
                      /\ request'[d].fresh = CandidatesFresh
<1>1. /\ request \in [Requests -> Reqs] /\ request[d] \in Reqs /\ request[d].w \in Blends
      /\ scored[Key(request[d].w)] \in Scores
  BY BlendFacts DEF RoutingTypeOK, Reqs
<1>2. CASE /\ scored[Key(request[d].w)] # None
           /\ request' = [request EXCEPT ![d].pc = "selected", ![d].by = scored[Key(request[d].w)].by]
  <2>. DEFINE by == scored[Key(request[d].w)].by
              q == [request[d] EXCEPT !.pc = "selected", !.by = by]
  <2>1. by \in Blends
    BY <1>1, <1>2 DEF Scores
  <2>2. request' = [request EXCEPT ![d] = q]
    BY <1>1, <1>2
  <2>. HIDE DEF by
  <2>3. q \in Reqs /\ q.pc = "selected" /\ q.by = by /\ q.w = request[d].w
    BY <1>1, <2>1 DEF Reqs
  <2>. HIDE DEF q
  <2>4. request'[d] = q /\ request' \in [Requests -> Reqs]
    BY <1>1, <2>2, <2>3
  <2>5. \A x \in Requests : x # d => request'[x] = request[x]
    BY <1>1, <2>2
  <2>. QED  BY <1>2, <2>3, <2>4, <2>5 DEF by
<1>3. ASSUME NEW pc \in {"selected", "scoring"}, NEW fresh \in BOOLEAN,
             pc = "scoring" => fresh = CandidatesFresh,
             request' = [request EXCEPT ![d].pc = pc, ![d].by = request[d].w,
                                        ![d].models = Candidates, ![d].fresh = fresh]
      PROVE  /\ request' \in [Requests -> Reqs]
             /\ \A x \in Requests : x # d => request'[x] = request[x]
             /\ request'[d].w = request[d].w /\ request'[d].by = request[d].w
             /\ request'[d].pc = pc /\ request'[d].fresh = fresh
             /\ request'[d].models = Candidates
  <2>. DEFINE q == [request[d] EXCEPT !.pc = pc, !.by = request[d].w,
                                      !.models = Candidates, !.fresh = fresh]
  <2>1. request' = [request EXCEPT ![d] = q]
    BY <1>1, <1>3
  <2>2. /\ q \in Reqs /\ q.pc = pc /\ q.by = request[d].w /\ q.w = request[d].w
        /\ q.models = Candidates /\ q.fresh = fresh
    BY <1>1, <1>3, CandidateFacts DEF Reqs
  <2>. HIDE DEF q
  <2>3. request'[d] = q /\ request' \in [Requests -> Reqs]
    BY <1>1, <2>1, <2>2
  <2>4. \A x \in Requests : x # d => request'[x] = request[x]
    BY <1>1, <2>1
  <2>. QED  BY <2>2, <2>3, <2>4
<1>4. CASE scored[Key(request[d].w)] # None
           /\ request' = [request EXCEPT ![d].pc = "selected", ![d].by = scored[Key(request[d].w)].by]
  BY <1>2, <1>4
<1>5. CASE request' = [request EXCEPT
             ![d].pc = IF Candidates = {} THEN "selected" ELSE "scoring",
             ![d].by = request[d].w, ![d].models = Candidates,
             ![d].fresh = Candidates = {} \/ CandidatesFresh]
  <2>1. \E pc \in {"selected", "scoring"}, fresh \in BOOLEAN :
          /\ pc = "scoring" => fresh = CandidatesFresh
          /\ request' = [request EXCEPT ![d].pc = pc, ![d].by = request[d].w,
                                        ![d].models = Candidates, ![d].fresh = fresh]
    <3>1. CASE Candidates = {}
      <4>1. request' = [request EXCEPT ![d].pc = "selected", ![d].by = request[d].w,
                                       ![d].models = Candidates, ![d].fresh = TRUE]
        BY <1>5, <3>1, Zenon
      <4>. QED  BY <4>1, Zenon
    <3>2. CASE Candidates # {}
      <4>1. request' = [request EXCEPT ![d].pc = "scoring", ![d].by = request[d].w,
                                       ![d].models = Candidates,
                                       ![d].fresh = CandidatesFresh]
        BY <1>5, <3>2, CandidateFacts, Zenon
      <4>. QED  BY <4>1, CandidateFacts, Zenon
    <3>. QED  BY <3>1, <3>2
  <2>2. PICK pc \in {"selected", "scoring"}, fresh \in BOOLEAN :
          /\ pc = "scoring" => fresh = CandidatesFresh
          /\ request' = [request EXCEPT ![d].pc = pc, ![d].by = request[d].w,
                                        ![d].models = Candidates, ![d].fresh = fresh]
    BY <2>1
  <2>. QED  BY <1>3, <2>2
<1>. QED  BY <1>4, <1>5, Zenon DEF Select

\* The two reads of weights.
LEMMA ReadFacts ==
    ASSUME RoutingTypeOK, NEW d \in Requests,
           ReadIntentRow(d) \/ \E c \in Confidences : ReadGeneralRow(d, c)
    PROVE  /\ request' \in [Requests -> Reqs]
           /\ request'[d].pc \in {"halfread", "weighed"}
           /\ \A x \in Requests : x # d => request'[x] = request[x]
<1>1. /\ request \in [Requests -> Reqs] /\ request[d] \in Reqs
      /\ weights["intent"] \in RowWeights /\ weights["general"] \in RowWeights
      /\ request[d].i \in RowWeights
  BY DEF RoutingTypeOK, Reqs, RowNames
<1>2. CASE ReadIntentRow(d)
  <2>. DEFINE q == [request[d] EXCEPT !.pc = "halfread", !.i = weights["intent"]]
  <2>1. q \in Reqs /\ q.pc = "halfread"
    BY <1>1 DEF Reqs
  <2>2. request' = [request EXCEPT ![d] = q]
    BY <1>1, <1>2 DEF ReadIntentRow
  <2>. HIDE DEF q
  <2>. QED  BY <2>1, <2>2, RequestMoves
<1>3. ASSUME NEW c \in Confidences, ReadGeneralRow(d, c)
      PROVE  \E q \in Reqs : q.pc = "weighed" /\ request' = [request EXCEPT ![d] = q]
  <2>. DEFINE blend == Blend(request[d].i, weights["general"], c)
              q == [request[d] EXCEPT !.pc = "weighed", !.i = Default, !.w = blend]
  <2>1. blend \in Blends /\ Default \in RowWeights
    BY <1>1, BlendFacts
  <2>2. request' = [request EXCEPT ![d].pc = "weighed", ![d].i = Default, ![d].w = blend]
    BY <1>3, Zenon DEF ReadGeneralRow
  <2>. HIDE DEF blend
  <2>3. q \in Reqs /\ q.pc = "weighed"
    BY <1>1, <2>1 DEF Reqs
  <2>4. request' = [request EXCEPT ![d] = q]
    BY <1>1, <2>2
  <2>. QED  BY <2>3, <2>4
<1>. QED  BY <1>2, <1>3, RequestMoves

LEMMA RequestStepKeepsType ==
    ASSUME RoutingTypeOK, NEW d \in Requests, RequestStep(d)
    PROVE  RoutingTypeOK'
<1>0. /\ active \in SUBSET Routable /\ weights \in [RowNames -> RowWeights]
      /\ list \in [Keys -> Lists] /\ scored \in [ScoreKeys -> Scores]
      /\ request \in [Requests -> Reqs] /\ request[d] \in Reqs
  BY DEF RoutingTypeOK, Reqs
\* A request that becomes q, with lists and scores still of
\* their types.
<1>1. ASSUME request' \in [Requests -> Reqs],
             list' \in [Keys -> Lists], scored' \in [ScoreKeys -> Scores],
             UNCHANGED <<active, weights, changes, change>>
      PROVE  RoutingTypeOK'
  BY <1>1 DEF RoutingTypeOK, Reqs
<1>2. \A q \in Reqs : [request EXCEPT ![d] = q] \in [Requests -> Reqs]
  BY <1>0
<1>3. CASE ListModels(d)
  <2>1. request' \in [Requests -> Reqs]
    BY <1>0, <1>3, HoldsFacts DEF ListModels
  <2>. QED  BY <1>0, <1>1, <1>3, <2>1 DEF ListModels
<1>4. CASE SetAdminList(d)
  BY <1>0, <1>1, <1>2, <1>4, EntryFacts, IdleIsARequest DEF SetAdminList, Keys
<1>5. CASE PrimeList(d)
  <2>1. Holds(d, "primed", {}, TRUE) \/ Holds(d, "priming", active, TRUE)
    BY <1>5, ProceedIsHolds DEF PrimeList
  <2>2. request' \in [Requests -> Reqs]
    BY <1>0, <2>1, HoldsFacts
  <2>. QED  BY <1>0, <1>1, <1>5, <2>2 DEF PrimeList
<1>6. CASE SetRoutingList(d)
  <2>1. request' \in [Requests -> Reqs]
    BY <1>6, ProceedIsHolds, HoldsFacts DEF SetRoutingList
  <2>2. list' \in [Keys -> Lists]
    BY <1>0, <1>6, EntryFacts DEF SetRoutingList, Keys
  <2>. QED  BY <1>0, <1>1, <1>6, <2>1, <2>2 DEF SetRoutingList
<1>7. CASE ReadIntentRow(d) \/ \E c \in Confidences : ReadGeneralRow(d, c)
  <2>1. UNCHANGED <<active, weights, changes, list, scored, change>>
    BY <1>7, Zenon DEF ReadIntentRow, ReadGeneralRow
  <2>. QED  BY <1>0, <1>1, <1>7, <2>1, ReadFacts
<1>8. CASE Select(d)
  <2>1. UNCHANGED <<active, weights, changes, list, scored, change>>
    BY <1>8, Zenon DEF Select
  <2>. QED  BY <1>0, <1>1, <1>8, <2>1, SelectFacts
<1>9. CASE SetScores(d)
  <2>1. scored' \in [ScoreKeys -> Scores]
    BY <1>0, <1>9, EntryFacts, Zenon DEF SetScores
  <2>2. \/ Holds(d, "selected", {}, TRUE)
        \/ request' = [request EXCEPT ![d] = Idle]
    BY <1>9, ProceedIsHolds DEF SetScores
  <2>3. request' \in [Requests -> Reqs]
    BY <1>2, <2>2, HoldsFacts, IdleIsARequest
  <2>. QED  BY <1>0, <1>1, <1>9, <2>1, <2>3 DEF SetScores
<1>10. CASE BuildFallbackChain(d)
  <2>. DEFINE again == [request[d] EXCEPT !.pc = "rescoring", !.by = BuiltIn,
                                          !.models = Candidates,
                                          !.fresh = CandidatesFresh]
  <2>1. \/ request' = [request EXCEPT ![d] = Idle]
        \/ request' = [request EXCEPT ![d] = again]
    BY <1>0, <1>10 DEF BuildFallbackChain
  <2>2. again \in Reqs
    BY <1>0, CandidateFacts, BlendFacts DEF Reqs
  <2>. HIDE DEF again
  <2>. QED  BY <1>0, <1>1, <1>2, <1>10, <2>1, <2>2, IdleIsARequest DEF BuildFallbackChain
<1>11. CASE Abandon(d)
  BY <1>0, <1>1, <1>2, <1>11, IdleIsARequest DEF Abandon
<1>. QED  BY <1>3, <1>4, <1>5, <1>6, <1>7, <1>8, <1>9, <1>10, <1>11 DEF RequestStep

-----------------------------------------------------------------------------
\* A commit takes the freshness from what requests have in hand, and changes
\* nothing else of them.
LEMMA CommitFacts ==
    ASSUME RoutingTypeOK, NEW a \in Admins, NEW S \in SUBSET Routable,
           NEW due \in Invalidates, CommitChange(a, S, due)
    PROVE  /\ request' \in [Requests -> Reqs]
           /\ \A d \in Requests :
                /\ request'[d].pc = request[d].pc /\ request'[d].w = request[d].w
                /\ request'[d].by = request[d].by
                /\ Holding(d) => ~request'[d].fresh
           /\ active' = S /\ change[a] = {}
           /\ change' = [change EXCEPT ![a] = due]
           /\ SpoilRest({"admin", "routing", "scores"} \ due)
<1>1. /\ request' = [d \in Requests |-> [request[d] EXCEPT !.fresh = @ /\ ~Holding(d)]]
      /\ active' = S /\ change[a] = {}
      /\ change' = [change EXCEPT ![a] = due]
      /\ SpoilRest({"admin", "routing", "scores"} \ due)
  BY Zenon DEF CommitChange
<1>2. ASSUME NEW d \in Requests
      PROVE  /\ request'[d] \in Reqs
             /\ request'[d].pc = request[d].pc /\ request'[d].w = request[d].w
             /\ request'[d].by = request[d].by
             /\ Holding(d) => ~request'[d].fresh
  <2>. DEFINE f == request[d].fresh /\ ~Holding(d)
              q == [request[d] EXCEPT !.fresh = f]
  <2>1. request[d] \in Reqs
    BY DEF RoutingTypeOK, Reqs
  <2>2. f \in BOOLEAN /\ (Holding(d) => ~f)
    BY <2>1 DEF Reqs
  <2>3. request'[d] = q
    BY <1>1, Zenon
  <2>. HIDE DEF f
  <2>. QED  BY <2>1, <2>2, <2>3 DEF Reqs
<1>3. request' \in [Requests -> Reqs]
  <2>1. request' = [d \in Requests |-> request'[d]]
    BY <1>1, Zenon
  <2>. QED  BY <1>2, <2>1
<1>. QED  BY <1>1, <1>2, <1>3

\* Every variable of the routing keeps its type.
THEOREM RoutingTypeCorrect == RoutingSpec => []RoutingTypeOK
<1>1. RoutingInit => RoutingTypeOK
  <2> SUFFICES ASSUME RoutingInit PROVE RoutingTypeOK
    OBVIOUS
  <2>1. request \in [Requests -> Reqs]
    BY IdleIsARequest DEF RoutingInit
  <2>2. list \in [Keys -> Lists] /\ scored \in [ScoreKeys -> Scores]
    BY DEF RoutingInit, Lists, Scores
  <2>3. /\ active \in SUBSET Routable /\ weights \in [RowNames -> RowWeights] /\ changes \in 0 .. MaxChanges
        /\ change \in [Admins -> SUBSET {"admin", "routing", "scores"}]
       
    BY BlendFacts, BoundAssumption DEF RoutingInit, RowNames
  <2>. QED  BY <2>1, <2>2, <2>3 DEF RoutingTypeOK, Reqs
<1>2. RoutingTypeOK /\ [RoutingNext]_routingVars => RoutingTypeOK'
  <2> SUFFICES ASSUME RoutingTypeOK, [RoutingNext]_routingVars PROVE RoutingTypeOK'
    OBVIOUS
  <2>0. /\ active \in SUBSET Routable /\ weights \in [RowNames -> RowWeights] /\ changes \in 0 .. MaxChanges
        /\ change \in [Admins -> SUBSET {"admin", "routing", "scores"}]
        /\ list \in [Keys -> Lists] /\ scored \in [ScoreKeys -> Scores]
        /\ MaxChanges \in Nat
        /\ \A due \in Invalidates : due \in SUBSET {"admin", "routing", "scores"}
    BY BoundAssumption DEF RoutingTypeOK, Invalidates
  <2>1. ASSUME NEW a \in Admins, NEW S \in SUBSET Routable, NEW due \in Invalidates,
               CommitChange(a, S, due)
        PROVE  RoutingTypeOK'
    <3>1. /\ list' \in [Keys -> Lists]
          /\ scored' \in [ScoreKeys -> Scores]
      BY <2>1, CommitFacts, SpoilRestFacts
    <3>2. changes' = changes + 1 /\ changes < MaxChanges /\ weights' = weights
      BY <2>1, Zenon DEF CommitChange
    <3>3. changes' \in 0 .. MaxChanges
      BY <2>0, <3>2
    <3>4. active' \in SUBSET Routable /\ request' \in [Requests -> Reqs]
          /\ change' = [change EXCEPT ![a] = due]
      BY <2>0, <2>1, CommitFacts
    <3>5. change' \in [Admins -> SUBSET {"admin", "routing", "scores"}]
      BY <2>0, <3>4
    <3>. QED  BY <3>1, <3>2, <3>3, <3>4, <3>5, <2>0 DEF RoutingTypeOK, Reqs
  <2>2. ASSUME NEW a \in Admins, NEW r \in RowNames, NEW n \in RowWeights, UpdateWeights(a, r, n)
        PROVE  RoutingTypeOK'
    <3>1. changes' \in 0 .. MaxChanges
      BY <2>0, <2>2 DEF UpdateWeights
    <3>2. change' \in [Admins -> SUBSET {"admin", "routing", "scores"}]
      BY <2>0, <2>2 DEF UpdateWeights
    <3>3. weights' \in [RowNames -> RowWeights]
      BY <2>0, <2>2 DEF UpdateWeights
    <3>. QED  BY <2>0, <2>2, <3>1, <3>2, <3>3 DEF UpdateWeights, RoutingTypeOK
  <2>3. ASSUME NEW a \in Admins, DropLists(a) PROVE RoutingTypeOK'
    <3>1. list' \in [Keys -> Lists]
      BY <2>0, <2>3 DEF DropLists, Lists
    <3>2. change' \in [Admins -> SUBSET {"admin", "routing", "scores"}]
      BY <2>0, <2>3 DEF DropLists
    <3>. QED  BY <2>0, <2>3, <3>1, <3>2 DEF DropLists, RoutingTypeOK
  <2>4. ASSUME NEW a \in Admins, DropScores(a) PROVE RoutingTypeOK'
    <3>1. scored' \in [ScoreKeys -> Scores]
      BY <2>4 DEF DropScores, Scores
    <3>2. change' \in [Admins -> SUBSET {"admin", "routing", "scores"}]
      BY <2>0, <2>4 DEF DropScores
    <3>. QED  BY <2>0, <2>4, <3>1, <3>2 DEF DropScores, RoutingTypeOK
  <2>5. ASSUME NEW a \in Admins, InvalidationFails(a) PROVE RoutingTypeOK'
    <3>1. /\ list' \in [Keys -> Lists]
          /\ scored' \in [ScoreKeys -> Scores]
      BY <2>5, SpoilRestFacts DEF InvalidationFails
    <3>2. change' \in [Admins -> SUBSET {"admin", "routing", "scores"}]
      BY <2>0, <2>5 DEF InvalidationFails
    <3>. QED  BY <2>0, <2>5, <3>1, <3>2 DEF InvalidationFails, RoutingTypeOK
  <2>6. ASSUME NEW d \in Requests, RequestStep(d) PROVE RoutingTypeOK'
    BY <2>6, RequestStepKeepsType
  <2>7. ASSUME NEW k \in Keys, ExpireList(k) PROVE RoutingTypeOK'
    BY <2>0, <2>7 DEF ExpireList, Lists, RoutingTypeOK
  <2>8. ASSUME NEW k \in ScoreKeys, ExpireScores(k) PROVE RoutingTypeOK'
    BY <2>0, <2>8 DEF ExpireScores, Scores, RoutingTypeOK
  <2>9. CASE UNCHANGED routingVars
    BY <2>9 DEF routingVars, RoutingTypeOK
  <2>. QED  BY <2>1, <2>2, <2>3, <2>4, <2>5, <2>6, <2>7, <2>8, <2>9
            DEF RoutingNext, RequestStep
<1>. QED  BY <1>1, <1>2, PTL DEF RoutingSpec

-----------------------------------------------------------------------------
(* The caches follow the table.  What a request has in hand is marked      *)
(* fresh only while it is what the table holds; so whatever enters a cache *)
(* as fresh is right at that moment, and a change makes everything that it *)
(* will not itself delete stale.                                           *)

HandsInv == \A d \in Requests :
    Holding(d) /\ request[d].fresh => request[d].models = active

CachesInv == HandsInv /\ CachesFollowTheTable

\* The step of a request: what enters a cache is what it had in hand, and
\* what it takes in hand as fresh is what the table holds.
LEMMA RequestKeepsCaches ==
    ASSUME RoutingTypeOK, CachesInv, NEW d \in Requests, RequestStep(d)
    PROVE  CachesInv'
<1>0. /\ list \in [Keys -> Lists] /\ scored \in [ScoreKeys -> Scores]
      /\ request \in [Requests -> Reqs] /\ active \in SUBSET Routable /\ Idle.pc = "idle"
  BY DEF RoutingTypeOK, Reqs, Idle
<1>1. UNCHANGED <<active, change>>
  BY Zenon DEF RequestStep, ListModels, SetAdminList, PrimeList,
     SetRoutingList, ReadIntentRow, ReadGeneralRow, Select, SetScores,
     BuildFallbackChain, Abandon
\* The rest is about this request and the entry it writes.
<1>2. ASSUME \A x \in Requests : x # d => request'[x] = request[x],
             \/ request'[d].pc \notin {"listing", "priming", "scoring", "rescoring"}
             \/ request'[d].fresh => request'[d].models = active,
             \A k \in Keys : \/ list'[k] = list[k]
                             \/ list'[k].fresh => list'[k].models = active,
             \A k \in ScoreKeys : \/ scored'[k] = scored[k]
                                  \/ scored'[k].fresh => scored'[k].models = active
      PROVE  CachesInv'
  <2>1. HandsInv'
    BY <1>1, <1>2 DEF CachesInv, HandsInv, Holding
  <2>2. CachesFollowTheTable'
    BY <1>1, <1>2 DEF CachesInv, CachesFollowTheTable
  <2>. QED  BY <2>1, <2>2 DEF CachesInv
<1>3. CASE ListModels(d)
  BY <1>0, <1>2, <1>3, HoldsFacts DEF ListModels
<1>4. CASE SetAdminList(d)
  <2>1. Holding(d) /\ (request[d].fresh => request[d].models = active)
    BY <1>4 DEF SetAdminList, Holding, CachesInv, HandsInv
  <2>2. \A k \in Keys : \/ list'[k] = list[k]
                        \/ list'[k].fresh => list'[k].models = active
    BY <1>0, <1>4, <2>1, EntryFacts DEF SetAdminList
  <2>. QED  BY <1>0, <1>2, <1>4, <2>2 DEF SetAdminList
<1>5. CASE PrimeList(d)
  <2>1. Holds(d, "primed", {}, TRUE) \/ Holds(d, "priming", active, TRUE)
    BY <1>5, ProceedIsHolds DEF PrimeList
  <2>. QED  BY <1>0, <1>2, <1>5, <2>1, HoldsFacts DEF PrimeList
<1>6. CASE SetRoutingList(d)
  <2>1. Holding(d) /\ (request[d].fresh => request[d].models = active)
    BY <1>6 DEF SetRoutingList, Holding, CachesInv, HandsInv
  <2>2. \A k \in Keys : \/ list'[k] = list[k]
                        \/ list'[k].fresh => list'[k].models = active
    BY <1>0, <1>6, <2>1, EntryFacts DEF SetRoutingList
  <2>3. Holds(d, "primed", {}, TRUE) /\ scored' = scored
    BY <1>6, ProceedIsHolds DEF SetRoutingList
  <2>. QED  BY <1>2, <2>2, <2>3, HoldsFacts
<1>7. CASE ReadIntentRow(d) \/ \E c \in Confidences : ReadGeneralRow(d, c)
  <2>1. list' = list /\ scored' = scored
    BY <1>7, Zenon DEF ReadIntentRow, ReadGeneralRow
  <2>. QED  BY <1>2, <1>7, <2>1, ReadFacts
<1>8. CASE Select(d)
  <2>1. list' = list /\ scored' = scored
    BY <1>8, Zenon DEF Select
  <2>. QED  BY <1>2, <1>8, <2>1, SelectFacts, CandidateFacts
<1>9. CASE SetScores(d)
  <2>1. Holding(d) /\ (request[d].fresh => request[d].models = active)
    BY <1>9 DEF SetScores, Holding, CachesInv, HandsInv
  <2>2. \A k \in ScoreKeys : \/ scored'[k] = scored[k]
                             \/ scored'[k].fresh => scored'[k].models = active
    BY <1>0, <1>9, <2>1 DEF SetScores
  <2>3. \/ Holds(d, "selected", {}, TRUE)
        \/ request' = [request EXCEPT ![d] = Idle]
    BY <1>9, ProceedIsHolds DEF SetScores
  <2>4. /\ request'[d].pc \notin {"listing", "priming", "scoring", "rescoring"}
        /\ \A x \in Requests : x # d => request'[x] = request[x]
    BY <1>0, <2>3, HoldsFacts
  <2>5. list' = list
    BY <1>9, Zenon DEF SetScores
  <2>. QED  BY <1>2, <2>2, <2>4, <2>5
<1>10. CASE BuildFallbackChain(d)
  <2>1. list' = list /\ scored' = scored
    BY <1>10, Zenon DEF BuildFallbackChain
  <2>2. CASE request' = [request EXCEPT ![d] = Idle]
    BY <1>0, <1>2, <2>1, <2>2
  <2>3. CASE request' = [request EXCEPT ![d].pc = "rescoring", ![d].by = BuiltIn,
                                        ![d].models = Candidates,
                                        ![d].fresh = CandidatesFresh]
    <3>1. /\ request'[d].models = Candidates
          /\ request'[d].fresh = CandidatesFresh
          /\ \A x \in Requests : x # d => request'[x] = request[x]
      BY <1>0, <2>3 DEF Reqs
    <3>. QED  BY <1>2, <2>1, <3>1, CandidateFacts
  <2>. QED  BY <1>10, <2>2, <2>3, Zenon DEF BuildFallbackChain
<1>11. CASE Abandon(d)
  BY <1>0, <1>2, <1>11 DEF Abandon
<1>. QED  BY <1>3, <1>4, <1>5, <1>6, <1>7, <1>8, <1>9, <1>10, <1>11 DEF RequestStep

LEMMA CachesStep ==
    ASSUME RoutingTypeOK, CachesInv, [RoutingNext]_routingVars
    PROVE  CachesInv'
<1>0. /\ change \in [Admins -> SUBSET {"admin", "routing", "scores"}]
      /\ list \in [Keys -> Lists] /\ scored \in [ScoreKeys -> Scores]
      /\ Keys = {"admin", "routing"}
  BY DEF RoutingTypeOK, Keys
\* A commit: what it will not delete is stale from now on.
<1>1. ASSUME NEW a \in Admins, NEW S \in SUBSET Routable, NEW due \in Invalidates,
             CommitChange(a, S, due)
      PROVE  CachesInv'
  <2>1. HandsInv'
    BY <1>1, CommitFacts DEF HandsInv, Holding
  <2>. DEFINE left == {"admin", "routing", "scores"} \ due
  <2>2. change'[a] = due
    <3>1. change' = [change EXCEPT ![a] = due]
      BY <1>1, CommitFacts, Zenon
    <3>. QED  BY <1>0, <3>1
  <2>3. SpoilRest(left)
    BY <1>1, CommitFacts, Zenon
  <2>4. "scores" \in left \/ "scores" \in due
    OBVIOUS
  <2>5. \A k \in Keys : k \in left \/ k \in due
    BY <1>0
  <2>. HIDE DEF left
  <2>6. \A k \in Keys :
          IF k \in due THEN k \in change'[a] ELSE list'[k] # None => ~list'[k].fresh
    BY <2>2, <2>3, <2>5, SpoilRestFacts
  <2>7. \A k \in ScoreKeys :
          IF "scores" \in due THEN "scores" \in change'[a]
                              ELSE scored'[k] # None => ~scored'[k].fresh
    BY <2>2, <2>3, <2>4, SpoilRestFacts
  <2>8. CachesFollowTheTable'
    BY <2>6, <2>7 DEF CachesFollowTheTable
  <2>. QED  BY <2>1, <2>8 DEF CachesInv
\* The deletions: an entry that is no longer due is gone, or stale.
<1>2. ASSUME NEW a \in Admins, UNCHANGED <<active, request>>,
             \A b \in Admins : b # a => change'[b] = change[b],
             \A k \in Keys :
               IF k \in change[a] /\ k \notin change'[a]
                 THEN list'[k] # None => ~list'[k].fresh
                 ELSE list'[k] = list[k],
             \A k \in ScoreKeys :
               IF "scores" \in change[a] /\ "scores" \notin change'[a]
                 THEN scored'[k] # None => ~scored'[k].fresh
                 ELSE scored'[k] = scored[k]
      PROVE  CachesInv'
  <2>1. HandsInv'
    BY <1>2 DEF CachesInv, HandsInv, Holding
  <2>2. ASSUME NEW k \in Keys, list'[k] # None, list'[k].fresh
        PROVE  list'[k].models = active' \/ \E b \in Admins : k \in change'[b]
    <3>1. list'[k] = list[k] /\ (k \in change[a] => k \in change'[a])
      BY <1>2, <2>2
    <3>2. list[k].models = active \/ \E b \in Admins : k \in change[b]
      BY <2>2, <3>1 DEF CachesInv, CachesFollowTheTable
    <3>. QED  BY <1>2, <3>1, <3>2
  <2>3. ASSUME NEW k \in ScoreKeys, scored'[k] # None, scored'[k].fresh
        PROVE  scored'[k].models = active' \/ \E b \in Admins : "scores" \in change'[b]
    <3>1. scored'[k] = scored[k] /\ ("scores" \in change[a] => "scores" \in change'[a])
      BY <1>2, <2>3
    <3>2. scored[k].models = active \/ \E b \in Admins : "scores" \in change[b]
      BY <2>3, <3>1 DEF CachesInv, CachesFollowTheTable
    <3>. QED  BY <1>2, <3>1, <3>2
  <2>4. CachesFollowTheTable'
    BY <2>2, <2>3 DEF CachesFollowTheTable
  <2>. QED  BY <2>1, <2>4 DEF CachesInv
<1>3. ASSUME NEW a \in Admins, NEW r \in RowNames, NEW n \in RowWeights, UpdateWeights(a, r, n)
      PROVE  CachesInv'
  BY <1>0, <1>2, <1>3 DEF UpdateWeights
<1>4. ASSUME NEW a \in Admins, DropLists(a) PROVE CachesInv'
  BY <1>0, <1>2, <1>4 DEF DropLists
<1>5. ASSUME NEW a \in Admins, DropScores(a) PROVE CachesInv'
  BY <1>0, <1>2, <1>5 DEF DropScores
<1>6. ASSUME NEW a \in Admins, InvalidationFails(a) PROVE CachesInv'
  <2>1. SpoilRest(change[a]) /\ UNCHANGED <<active, request>>
    BY <1>6 DEF InvalidationFails
  <2>2. change'[a] = {} /\ \A b \in Admins : b # a => change'[b] = change[b]
    BY <1>0, <1>6 DEF InvalidationFails
  <2>. QED  BY <1>2, <2>1, <2>2, SpoilRestFacts
<1>7. ASSUME NEW d \in Requests, RequestStep(d) PROVE CachesInv'
  BY <1>7, RequestKeepsCaches
<1>8. ASSUME NEW k \in Keys, ExpireList(k) PROVE CachesInv'
  <2>1. /\ UNCHANGED <<active, request, change, scored>>
        /\ \A i \in Keys : list'[i] = None \/ list'[i] = list[i]
    BY <1>0, <1>8 DEF ExpireList
  <2>. QED  BY <2>1 DEF CachesInv, HandsInv, Holding, CachesFollowTheTable
<1>9. ASSUME NEW k \in ScoreKeys, ExpireScores(k) PROVE CachesInv'
  <2>1. /\ UNCHANGED <<active, request, change, list>>
        /\ \A i \in ScoreKeys : scored'[i] = None \/ scored'[i] = scored[i]
    BY <1>0, <1>9 DEF ExpireScores
  <2>. QED  BY <2>1 DEF CachesInv, HandsInv, Holding, CachesFollowTheTable
<1>10. CASE UNCHANGED routingVars
  BY <1>10 DEF routingVars, CachesInv, HandsInv, Holding,
               CachesFollowTheTable
<1>. QED  BY <1>1, <1>3, <1>4, <1>5, <1>6, <1>7, <1>8, <1>9, <1>10
          DEF RoutingNext, RequestStep

\* However fills and deletions of any number of administrators and requests
\* cross, a cached list or score that differs from the table is about to be
\* deleted, or is one that the change left behind or that was read before it.
THEOREM RoutesFollowTheTable == RoutingSpec => []CachesFollowTheTable
<1>1. RoutingInit => CachesInv
  <2> SUFFICES ASSUME RoutingInit PROVE CachesInv
    OBVIOUS
  <2>1. \A d \in Requests : request[d].pc = "idle"
    BY DEF RoutingInit, Idle
  <2>2. /\ \A k \in Keys : list[k] = None
        /\ \A k \in ScoreKeys : scored[k] = None
    BY DEF RoutingInit
  <2>. QED  BY <2>1, <2>2 DEF CachesInv, HandsInv, Holding,
                              CachesFollowTheTable
<1>2. RoutingTypeOK /\ CachesInv /\ [RoutingNext]_routingVars => CachesInv'
  BY CachesStep
<1>3. CachesInv => CachesFollowTheTable
  BY DEF CachesInv
<1>. QED  BY <1>1, <1>2, <1>3, RoutingTypeCorrect, PTL DEF RoutingSpec

-----------------------------------------------------------------------------
(* A request is routed by weights close to its own.  Scores are kept under *)
(* a key that their weights round to, or were made with the built-in ones. *)

\* Weights that have the key k, or the built-in ones.
HasKey(by, k) == Key(by) = k \/ by = BuiltIn

WeightsInv ==
    /\ \A k \in ScoreKeys : scored[k] # None => HasKey(scored[k].by, k)
    /\ \A d \in Requests :
         /\ request[d].pc = "selected" => HasKey(request[d].by, Key(request[d].w))
         /\ request[d].pc = "scoring" => request[d].by = request[d].w
         /\ request[d].pc = "rescoring" => request[d].by = BuiltIn

LEMMA RequestKeepsWeights ==
    ASSUME RoutingTypeOK, WeightsInv, NEW d \in Requests, RequestStep(d)
    PROVE  WeightsInv'
<1>0. /\ scored \in [ScoreKeys -> Scores] /\ request \in [Requests -> Reqs]
      /\ request[d].w \in Blends /\ Key(request[d].w) \in ScoreKeys /\ Idle.pc = "idle"
  BY BlendFacts DEF RoutingTypeOK, Reqs, Idle
\* The rest is about this request, the scores under its key, and the keys
\* that are filled again.
<1>1. ASSUME \A x \in Requests : x # d => request'[x] = request[x],
             \A k \in ScoreKeys : \/ scored'[k] = scored[k]
                                  \/ Key(scored'[k].by) = k \/ scored'[k].by = BuiltIn,
             request'[d].pc = "selected" =>
               \/ Key(request'[d].by) = Key(request'[d].w)
               \/ request'[d].by = BuiltIn,
             request'[d].pc = "scoring" => request'[d].by = request'[d].w,
             request'[d].pc = "rescoring" => request'[d].by = BuiltIn
      PROVE  WeightsInv'
  <2>1. ASSUME NEW x \in Requests
        PROVE  /\ request'[x].pc = "selected" =>
                    \/ Key(request'[x].by) = Key(request'[x].w)
                    \/ request'[x].by = BuiltIn
               /\ request'[x].pc = "scoring" => request'[x].by = request'[x].w
               /\ request'[x].pc = "rescoring" => request'[x].by = BuiltIn
    <3>1. CASE x = d
      BY <1>1, <3>1
    <3>2. CASE x # d
      BY <1>1, <3>2 DEF WeightsInv, HasKey
    <3>. QED  BY <3>1, <3>2
  <2>2. \A k \in ScoreKeys : scored'[k] # None =>
            Key(scored'[k].by) = k \/ scored'[k].by = BuiltIn
    BY <1>1 DEF WeightsInv, HasKey
  <2>. QED  BY <2>1, <2>2 DEF WeightsInv, HasKey
<1>2. CASE ListModels(d)
  BY <1>0, <1>1, <1>2, HoldsFacts DEF ListModels, RoutingTypeOK
<1>3. CASE SetAdminList(d) \/ Abandon(d)
  <2>1. request' = [request EXCEPT ![d] = Idle] /\ UNCHANGED scored
    BY <1>3, Zenon DEF SetAdminList, Abandon
  <2>. QED  BY <1>0, <1>1, <2>1
<1>4. CASE PrimeList(d) \/ SetRoutingList(d)
  <2>1. Holds(d, "primed", {}, TRUE) \/ Holds(d, "priming", active, TRUE)
    BY <1>4, ProceedIsHolds, Zenon DEF PrimeList, SetRoutingList
  <2>2. UNCHANGED scored
    BY <1>4, Zenon DEF PrimeList, SetRoutingList
  <2>3. active \in SUBSET Routable
    BY DEF RoutingTypeOK
  <2>. QED  BY <1>1, <2>1, <2>2, <2>3, HoldsFacts
<1>5. CASE ReadIntentRow(d) \/ \E c \in Confidences : ReadGeneralRow(d, c)
  <2>1. scored' = scored
    BY <1>5, Zenon DEF ReadIntentRow, ReadGeneralRow
  <2>. QED  BY <1>1, <1>5, <2>1, ReadFacts
<1>6. CASE Select(d)
  <2>. DEFINE k == Key(request[d].w)
  <2>1. scored' = scored
    BY <1>6, Zenon DEF Select
  <2>2. scored[k] # None => HasKey(scored[k].by, k)
    BY <1>0 DEF WeightsInv
  <2>3. /\ request'[d].w = request[d].w
        /\ request'[d].pc \in {"selected", "scoring"}
        /\ request'[d].by = request[d].w
           \/ (/\ request'[d].pc = "selected" /\ scored[k] # None
               /\ request'[d].by = scored[k].by)
        /\ \A x \in Requests : x # d => request'[x] = request[x]
    BY <1>6, SelectFacts
  <2>. QED  BY <1>1, <2>1, <2>2, <2>3 DEF HasKey
<1>7. CASE SetScores(d)
  <2>. DEFINE k == Key(request[d].w)
  <2>1. Key(request[d].by) = k \/ request[d].by = BuiltIn
    BY <1>7 DEF SetScores, WeightsInv, HasKey
  <2>3. \A x \in ScoreKeys : \/ scored'[x] = scored[x]
                             \/ Key(scored'[x].by) = x \/ scored'[x].by = BuiltIn
    <3>1. scored' = [scored EXCEPT ![k] = [models |-> request[d].models,
                                           fresh |-> request[d].fresh, by |-> request[d].by]]
      BY <1>7, Zenon DEF SetScores
    <3>2. k \in ScoreKeys
      BY <1>0
    <3>. HIDE DEF k
    <3>3. scored'[k].by = request[d].by /\ \A x \in ScoreKeys : x # k => scored'[x] = scored[x]
      BY <1>0, <3>1, <3>2
    <3>. QED  BY <2>1, <3>3
  <2>4. CASE request[d].pc = "scoring"
    <3>1. Holds(d, "selected", {}, TRUE)
      BY <1>7, <2>4, ProceedIsHolds DEF SetScores
    <3>2. request[d].by = request[d].w
      BY <2>4 DEF WeightsInv
    <3>. QED  BY <1>1, <2>3, <3>1, <3>2, HoldsFacts
  <2>5. CASE request[d].pc # "scoring"
    <3>1. request' = [request EXCEPT ![d] = Idle]
      BY <1>7, <2>5, Zenon DEF SetScores
    <3>. QED  BY <1>0, <1>1, <2>3, <3>1
  <2>. QED  BY <2>4, <2>5
<1>8. CASE BuildFallbackChain(d)
  <2>1. scored' = scored
    BY <1>8, Zenon DEF BuildFallbackChain
  <2>2. CASE request' = [request EXCEPT ![d] = Idle]
    BY <1>0, <1>1, <2>1, <2>2
  <2>3. CASE request' = [request EXCEPT ![d].pc = "rescoring", ![d].by = BuiltIn,
                                        ![d].models = Candidates,
                                        ![d].fresh = CandidatesFresh]
    <3>1. /\ request'[d].pc = "rescoring" /\ request'[d].by = BuiltIn
          /\ \A x \in Requests : x # d => request'[x] = request[x]
      BY <1>0, <2>3 DEF Reqs
    <3>. QED  BY <1>1, <2>1, <3>1
  <2>. QED  BY <1>8, <2>2, <2>3, Zenon DEF BuildFallbackChain
<1>. QED  BY <1>2, <1>3, <1>4, <1>5, <1>6, <1>7, <1>8 DEF RequestStep

LEMMA WeightsStep ==
    ASSUME RoutingTypeOK, WeightsInv, [RoutingNext]_routingVars
    PROVE  WeightsInv'
\* No change touches the weights of a request or an entry.
<1>1. ASSUME \A d \in Requests : /\ request'[d].pc = request[d].pc
                                /\ request'[d].w = request[d].w
                                /\ request'[d].by = request[d].by,
             \A k \in ScoreKeys : scored'[k] # None =>
                                  scored[k] # None /\ scored'[k].by = scored[k].by
      PROVE  WeightsInv'
  BY <1>1 DEF WeightsInv, HasKey
<1>2. ASSUME NEW a \in Admins, NEW S \in SUBSET Routable, NEW due \in Invalidates,
             CommitChange(a, S, due)
      PROVE  WeightsInv'
  <2>1. \A k \in ScoreKeys : scored'[k] # None => scored[k] # None /\ scored'[k].by = scored[k].by
    BY <1>2, CommitFacts, SpoilRestFacts
  <2>2. \A d \in Requests : /\ request'[d].pc = request[d].pc
                              /\ request'[d].w = request[d].w
                              /\ request'[d].by = request[d].by
    BY <1>2, CommitFacts
  <2>. QED  BY <1>1, <2>1, <2>2
<1>3. ASSUME NEW a \in Admins, InvalidationFails(a) PROVE WeightsInv'
  <2>1. SpoilRest(change[a]) /\ UNCHANGED request
    BY <1>3, Zenon DEF InvalidationFails
  <2>2. \A k \in ScoreKeys : scored'[k] # None => scored[k] # None /\ scored'[k].by = scored[k].by
    BY <2>1, SpoilRestFacts
  <2>. QED  BY <1>1, <2>1, <2>2
<1>4. ASSUME UNCHANGED request,
             \A k \in ScoreKeys : scored'[k] = None \/ scored'[k] = scored[k]
      PROVE  WeightsInv'
  BY <1>1, <1>4
<1>5. ASSUME NEW a \in Admins,
             \/ \E r \in RowNames, n \in RowWeights : UpdateWeights(a, r, n)
             \/ DropLists(a)
      PROVE  WeightsInv'
  <2>1. UNCHANGED <<request, scored>>
    BY <1>5, Zenon DEF UpdateWeights, DropLists
  <2>. QED  BY <1>4, <2>1
<1>6. ASSUME NEW a \in Admins, DropScores(a) PROVE WeightsInv'
  BY <1>4, <1>6 DEF DropScores
<1>7. ASSUME NEW d \in Requests, RequestStep(d) PROVE WeightsInv'
  BY <1>7, RequestKeepsWeights
<1>8. ASSUME NEW k \in Keys, ExpireList(k) PROVE WeightsInv'
  BY <1>4, <1>8 DEF ExpireList
<1>9. ASSUME NEW k \in ScoreKeys, ExpireScores(k) PROVE WeightsInv'
  <2>1. \A i \in ScoreKeys : scored'[i] = None \/ scored'[i] = scored[i]
    BY <1>9 DEF ExpireScores, RoutingTypeOK
  <2>. QED  BY <1>4, <1>9, <2>1 DEF ExpireScores
<1>10. CASE UNCHANGED routingVars
  BY <1>4, <1>10 DEF routingVars
<1>. QED  BY <1>2, <1>3, <1>5, <1>6, <1>7, <1>8, <1>9, <1>10
          DEF RoutingNext, RequestStep

\* Whatever other requests and changes of the weights have left in the
\* cache, a request is routed by scores made with weights close to its own,
\* or with the built-in ones by a request that had lost its scores.
THEOREM RequestsAreRoutedCloseToTheirWeights == RoutingSpec => []SelectionIsCloseToItsWeights
<1>1. RoutingInit => WeightsInv
  <2> SUFFICES ASSUME RoutingInit PROVE WeightsInv
    OBVIOUS
  <2>1. \A d \in Requests : request[d].pc = "idle"
    BY DEF RoutingInit, Idle
  <2>2. \A k \in ScoreKeys : scored[k] = None
    BY DEF RoutingInit
  <2>. QED  BY <2>1, <2>2 DEF WeightsInv
<1>2. RoutingTypeOK /\ WeightsInv /\ [RoutingNext]_routingVars => WeightsInv'
  BY WeightsStep
<1>3. RoutingTypeOK /\ WeightsInv => SelectionIsCloseToItsWeights
  <2> SUFFICES ASSUME RoutingTypeOK, WeightsInv, NEW d \in Requests,
                      request[d].pc = "selected", request[d].by # BuiltIn
               PROVE  Close(request[d].by, request[d].w)
    BY DEF SelectionIsCloseToItsWeights
  <2>1. Key(request[d].by) = Key(request[d].w)
    BY DEF WeightsInv, HasKey
  <2>2. request[d].by \in Nat /\ request[d].w \in Nat
    BY BlendFacts DEF RoutingTypeOK
  <2>. QED  BY <2>1, <2>2, SameKeyIsClose
<1>. QED  BY <1>1, <1>2, <1>3, RoutingTypeCorrect, PTL DEF RoutingSpec
=============================================================================
