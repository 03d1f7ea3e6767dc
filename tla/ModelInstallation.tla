-------------------------- MODULE ModelInstallation --------------------------
(***************************************************************************)
(* The model registry: installation jobs that run as tasks of the API      *)
(* process, the registry's table, the Ollama server, the credentials in    *)
(* Vault, and administrators who register and delete models.               *)
(*                                                                         *)
(* A job downloads the model or stores its credentials and only then       *)
(* registers it; a deletion removes the model from Ollama and only then    *)
(* the row.  Neither is one transaction, and neither knows of the other.   *)
(*                                                                         *)
(* A process without a Vault token or AppRole stores no credentials and    *)
(* registers the model all the same; a request may name another model for  *)
(* the download than for the registry.  Both end as a completed job.       *)
(*                                                                         *)
(* The progress updates of a running job change no status and are left     *)
(* out, and so is whether a model is active (see ModelRouting).  A commit  *)
(* either takes effect or raises.                                          *)
(***************************************************************************)
EXTENDS Naturals

CONSTANTS
    Ollama,     \* models of the Ollama server
    Hosted,     \* models behind an API with a key
    Others,     \* names of the Ollama server that no model is registered under
    Jobs,       \* installation jobs
    Deletions,  \* deletion requests
    MaxRows     \* bound on the rows ever made of one model

Models == Ollama \cup Hosted

ASSUME ModelsAssumption == Ollama \cap Hosted = {} /\ Others \cap Models = {}
ASSUME RowsAssumption == MaxRows \in Nat

Statuses == {"none", "pending", "running", "completed", "failed"}
\* A task before its model is registered, and at any other time.
Working == {"posted", "created", "prepare", "register"}
Resting == {"idle", "finish", "failing", "ended"}
Rows == [exists : BOOLEAN, n : 0 .. MaxRows, ready : BOOLEAN]
Tasks == [pc : Resting] \cup [pc : Working, model : Models, name : Models \cup Others]
DeletionStates == [pc : {"idle", "ended"}]
                  \cup [pc : {"loaded"}, model : Models, n : 0 .. MaxRows]
                  \cup [pc : {"removed"}, model : Ollama, n : 0 .. MaxRows]

VARIABLES
    row,        \* row[m]: exists, its number, whether a job had prepared the model
    vaultOn,    \* the environment of the process names a Vault token or AppRole
    server,     \* models downloaded to Ollama (of Others nothing is recorded)
    vault,      \* hosted models with credentials
    status,     \* status[j]: column of the job row
    task,       \* task[j]: the step of the job, its model and the name it downloads
    deletion,   \* deletion[x]: a deletion, its model and the row it loaded
    installed,  \* (history) jobs whose registration was committed
    cut,        \* (history) jobs whose task ended without a final status
    torn        \* (history) models last removed from Ollama with the row left or coming

vars == <<row, vaultOn, server, vault, status, task, deletion, installed, cut, torn>>

Init ==
    /\ row = [m \in Models |-> [exists |-> FALSE, n |-> 0, ready |-> FALSE]]
    /\ vaultOn \in BOOLEAN
    /\ server \in SUBSET Ollama
    /\ vault = {}
    /\ status = [j \in Jobs |-> "none"]
    /\ task = [j \in Jobs |-> [pc |-> "idle"]]
    /\ deletion = [x \in Deletions |-> [pc |-> "idle"]]
    /\ installed = {}
    /\ cut = {}
    /\ torn = {}

-----------------------------------------------------------------------------
(* Rows.                                                                   *)

\* register: 409 when the model id is taken, by the lookup or by the unique
\* constraint.
Insert(m, ready) ==
    /\ ~row[m].exists
    /\ row[m].n < MaxRows
    /\ row' = [row EXCEPT ![m] = [exists |-> TRUE, n |-> @.n + 1, ready |-> ready]]

Register(m) ==
    /\ Insert(m, FALSE)
    /\ UNCHANGED <<vaultOn, server, vault, status, task, deletion, installed, cut, torn>>

\* The pull endpoint downloads without registering.
Pull(m) ==
    /\ m \in Ollama
    /\ server' = server \cup {m}
    /\ torn' = torn \ {m}
    /\ UNCHANGED <<row, vaultOn, vault, status, task, deletion, installed, cut>>

-----------------------------------------------------------------------------
(* An installation job.                                                    *)

Goto(j, step) == task' = [task EXCEPT ![j].pc = step]
Rest(j, step) == task' = [task EXCEPT ![j] = [pc |-> step]]

\* create_job: the job row is committed and then read once more ...
CreateJob(j, m, name) ==
    /\ task[j].pc = "idle"
    /\ IF m \in Ollama THEN name \in Ollama \cup Others ELSE name = m
    /\ status' = [status EXCEPT ![j] = "pending"]
    /\ task' = [task EXCEPT ![j] = [pc |-> "posted", model |-> m, name |-> name]]
    /\ UNCHANGED <<row, vaultOn, server, vault, deletion, installed, cut, torn>>

\* ... before its task starts; whatever happens to the request afterwards, the
\* task goes on.
StartTask(j) ==
    /\ task[j].pc = "posted"
    /\ Goto(j, "created")
    /\ UNCHANGED <<row, vaultOn, server, vault, status, deletion, installed, cut, torn>>

\* The read fails or the request is cancelled: the row stays, without a task.
RefreshFails(j) ==
    /\ task[j].pc = "posted"
    /\ cut' = cut \cup {j}
    /\ Rest(j, "ended")
    /\ UNCHANGED <<row, vaultOn, server, vault, status, deletion, installed, torn>>

Start(j) ==
    /\ task[j].pc = "created"
    /\ status' = [status EXCEPT ![j] = "running"]
    /\ Goto(j, "prepare")
    /\ UNCHANGED <<row, vaultOn, server, vault, deletion, installed, cut, torn>>

\* Mutation of Prepare: a model that is missing is not downloaded.
PrepareWithoutPull(j) ==
    /\ task[j].pc = "prepare"
    /\ vault' = IF vaultOn THEN vault \cup ({task[j].model} \cap Hosted) ELSE vault
    /\ Goto(j, "register")
    /\ torn' = torn \ {task[j].name}
    /\ UNCHANGED <<row, vaultOn, server, status, deletion, installed, cut>>

\* The name exists in Ollama or is downloaded; a hosted model gets its
\* credentials stored, and it does not matter whether they were.
Prepare(j) ==
    /\ task[j].pc = "prepare"
    /\ server' = server \cup ({task[j].name} \cap Ollama)
    /\ vault' = IF vaultOn THEN vault \cup ({task[j].model} \cap Hosted) ELSE vault
    /\ Goto(j, "register")
    /\ torn' = torn \ {task[j].name}
    /\ UNCHANGED <<row, vaultOn, status, deletion, installed, cut>>

\* What the job has prepared is the model it registers.
HasPrepared(j) == task[j].name = task[j].model /\ (task[j].model \in Hosted => vaultOn)

RegisterModel(j) ==
    /\ task[j].pc = "register"
    /\ Insert(task[j].model, HasPrepared(j))
    /\ installed' = installed \cup {j}
    /\ Rest(j, "finish")
    /\ UNCHANGED <<vaultOn, server, vault, status, deletion, cut, torn>>

\* Mutation of Complete: the status is written before the registration.
CompleteEarly(j) ==
    /\ task[j].pc \in {"register", "finish"}
    /\ status' = [status EXCEPT ![j] = "completed"]
    /\ Rest(j, "ended")
    /\ UNCHANGED <<row, vaultOn, server, vault, deletion, installed, cut, torn>>

Complete(j) ==
    /\ task[j].pc = "finish"
    /\ status' = [status EXCEPT ![j] = "completed"]
    /\ Rest(j, "ended")
    /\ UNCHANGED <<row, vaultOn, server, vault, deletion, installed, cut, torn>>

\* A step raises: the model is missing and not to be pulled, the download or
\* Vault fails, the model is registered already, the change event cannot be
\* published after the commit, a status cannot be written.
StepFails(j) ==
    /\ task[j].pc \in {"created", "prepare", "register", "finish"}
    /\ Rest(j, "failing")
    /\ UNCHANGED <<row, vaultOn, server, vault, status, deletion, installed, cut, torn>>

\* Mutation of MarkFailed: the failure is only logged.
LogFailure(j) ==
    /\ task[j].pc = "failing"
    /\ Rest(j, "ended")
    /\ UNCHANGED <<row, vaultOn, server, vault, status, deletion, installed, cut, torn>>

MarkFailed(j) ==
    /\ task[j].pc = "failing"
    /\ status' = [status EXCEPT ![j] = "failed"]
    /\ Rest(j, "ended")
    /\ UNCHANGED <<row, vaultOn, server, vault, deletion, installed, cut, torn>>

\* FAILED cannot be written either; the exception ends the task.
MarkFailedRaises(j) ==
    /\ task[j].pc = "failing"
    /\ cut' = cut \cup {j}
    /\ Rest(j, "ended")
    /\ UNCHANGED <<row, vaultOn, server, vault, status, deletion, installed, torn>>

-----------------------------------------------------------------------------
(* Deletion of a model.                                                    *)

\* Jobs that have prepared the model and not yet registered it.
Prepared(m) == {j \in Jobs : task[j].pc = "register" /\ task[j].model = m}

\* The row is loaded; without it, 404.
BeginDelete(x, m) ==
    /\ deletion[x].pc = "idle"
    /\ row[m].exists
    /\ deletion' = [deletion EXCEPT ![x] = [pc |-> "loaded", model |-> m, n |-> row[m].n]]
    /\ UNCHANGED <<row, vaultOn, server, vault, status, task, installed, cut, torn>>

\* delete_from_ollama: before anything of the row is deleted.
DeleteFromServer(x) ==
    LET m == deletion[x].model IN
    /\ deletion[x].pc = "loaded"
    /\ m \in Ollama
    /\ server' = server \ {m}
    /\ deletion' = [deletion EXCEPT ![x].pc = "removed"]
    /\ torn' = IF Prepared(m) # {} \/ row[m].n # deletion[x].n
                 THEN torn \cup {m} ELSE torn
    /\ UNCHANGED <<row, vaultOn, vault, status, task, installed, cut>>

\* The row that was loaded goes, if it is still the one in the table.
CommitDelete(x) ==
    LET m == deletion[x].model IN
    /\ deletion[x].pc \in {"loaded", "removed"}
    /\ row[m].exists /\ row[m].n = deletion[x].n
    /\ row' = [row EXCEPT ![m].exists = FALSE]
    /\ deletion' = [deletion EXCEPT ![x] = [pc |-> "ended"]]
    /\ UNCHANGED <<vaultOn, server, vault, status, task, installed, cut, torn>>

\* Ollama or the database fails, or the row is gone.
DeleteFails(x) ==
    /\ deletion[x].pc \in {"loaded", "removed"}
    /\ deletion' = [deletion EXCEPT ![x] = [pc |-> "ended"]]
    /\ torn' = IF deletion[x].pc = "removed" THEN torn \cup {deletion[x].model} ELSE torn
    /\ UNCHANGED <<row, vaultOn, server, vault, status, task, installed, cut>>

\* The API process stops with its tasks and requests.
Crash ==
    LET live == {j \in Jobs : task[j].pc \notin {"idle", "ended"}} IN
    /\ live # {}
    /\ cut' = cut \cup live
    /\ task' = [j \in Jobs |-> IF j \in live THEN [pc |-> "ended"] ELSE task[j]]
    /\ torn' = torn \cup {deletion[x].model : x \in {y \in Deletions : deletion[y].pc = "removed"}}
    /\ deletion' = [x \in Deletions |->
                      IF deletion[x].pc = "idle" THEN deletion[x] ELSE [pc |-> "ended"]]
    /\ UNCHANGED <<row, vaultOn, server, vault, status, installed>>

-----------------------------------------------------------------------------
Run(j) ==
    \/ StartTask(j) \/ RefreshFails(j)
    \/ Start(j)     \/ Prepare(j)    \/ RegisterModel(j)    \/ Complete(j)
    \/ StepFails(j) \/ MarkFailed(j) \/ MarkFailedRaises(j)

Next ==
    \/ \E m \in Models : Register(m) \/ Pull(m)
    \/ \E j \in Jobs :
        \/ \E m \in Models, name \in Models \cup Others : CreateJob(j, m, name)
        \/ Run(j)
    \/ \E x \in Deletions :
        \/ \E m \in Models : BeginDelete(x, m)
        \/ DeleteFromServer(x) \/ CommitDelete(x) \/ DeleteFails(x)
    \/ Crash

Spec == Init /\ [][Next]_vars

\* The calls of a task to Ollama, Vault and the database have timeouts, and so
\* has the request between its commit and the task.
FairSpec == Spec /\ \A j \in Jobs : WF_vars(Run(j))

-----------------------------------------------------------------------------
(* Properties.                                                             *)

TypeOK ==
    /\ row \in [Models -> Rows]
    /\ vaultOn \in BOOLEAN
    /\ server \subseteq Ollama
    /\ vault \subseteq Hosted
    /\ status \in [Jobs -> Statuses]
    /\ task \in [Jobs -> Tasks]
    /\ deletion \in [Deletions -> DeletionStates]
    /\ installed \subseteq Jobs
    /\ cut \subseteq Jobs
    /\ torn \subseteq Ollama

\* The jobs keep what JobBoard promises: one final status each, and COMPLETED
\* only after the model was registered.
Board == INSTANCE JobBoard WITH status <- status, done <- installed
BoardSpec == Board!Spec

\* A model that a job has put into the registry under the name it has
\* downloaded, or with its credentials stored, can be served, whatever other
\* jobs, registrations and pulls there were.  Only a deletion can undo that,
\* for a moment, or for good when it breaks off between its two steps or a
\* job had found the model just before.
InstalledModelsAreServed ==
    \A m \in Models : row[m].exists /\ row[m].ready =>
        \/ m \in server \cup vault
        \/ m \in torn
        \/ \E x \in Deletions :
            deletion[x].pc = "removed" /\ deletion[x].model = m /\ deletion[x].n = row[m].n

\* Whoever polls a job sees it end, unless the process has stopped, the request
\* that made it has failed before it started the task, or the database has
\* refused the very last update.
JobsEnd ==
    \A j \in Jobs :
        status[j] = "pending" ~> status[j] \in {"completed", "failed"} \/ j \in cut
=============================================================================
