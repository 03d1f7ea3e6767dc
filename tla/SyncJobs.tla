------------------------------ MODULE SyncJobs ------------------------------
(***************************************************************************)
(* Synchronisation of one knowledge source: the cron scheduler, the        *)
(* on-demand endpoint, the sync job executor with its retries, and the     *)
(* administrator who toggles or deletes the source.                        *)
(*                                                                         *)
(* Every run of the executor has a database session of its own.  The       *)
(* session keeps the source row as it was loaded (expire_on_commit is off) *)
(* and writes a column only when its value in the session changes, so what *)
(* a run writes depends on what it read at its start.  After a database    *)
(* error nothing rolls the session back: all its later statements raise.   *)
(*                                                                         *)
(* Each successful sync counts one document.                               *)
(***************************************************************************)
EXTENDS Naturals

CONSTANTS
    Scheduled,   \* runs that the cron scheduler may dispatch
    OnDemand,    \* runs that the sync endpoint may dispatch
    MaxRetries   \* SyncExecutorSettings.max_retries

Syncs == Scheduled \cup OnDemand

ASSUME RetriesAssumption == MaxRetries \in Nat
ASSUME SyncsAssumption == Scheduled \cap OnDemand = {}

SourceStatus == {"active", "inactive", "syncing", "error"}
JobStatus    == {"none", "running", "succeeded", "failed", "deleted"}

VARIABLES
    source,  \* the row: exists, is_active, status, document_count, due by its schedule
    job,     \* job[j]: status of the job row of run j
    pc,      \* pc[j]: the step run j is at
    mem,     \* mem[j]: status and document_count as the session of j holds them
    attempt, \* attempt[j]
    events,  \* events[j]: knowledge.source.synced events published for job j
    lost     \* (history) run j ended by a crash or a database error

vars == <<source, job, pc, mem, attempt, events, lost>>

Steps == {"idle", "load", "setup", "sync", "commit", "emit", "close", "done"}

InFlight(j) == pc[j] \notin {"idle", "done"}

Init ==
    /\ source = [exists |-> TRUE, active |-> TRUE, status |-> "active",
                 count |-> 0, due |-> TRUE]
    /\ job = [j \in Syncs |-> "none"]
    /\ pc = [j \in Syncs |-> "idle"]
    /\ mem = [j \in Syncs |-> [status |-> "active", count |-> 0]]
    /\ attempt = [j \in Syncs |-> 0]
    /\ events = [j \in Syncs |-> 0]
    /\ lost = [j \in Syncs |-> FALSE]

Goto(j, step) == pc' = [pc EXCEPT ![j] = step]

\* The column status as the flush of session j leaves it: written only when
\* the session held another value.
Flushed(j, status) ==
    IF mem[j].status # status THEN status ELSE source.status

-----------------------------------------------------------------------------
(* Dispatch.                                                               *)

\* A tick dispatches every active source that is due, also when a run of an
\* earlier tick is still at work.
Tick(j) ==
    /\ j \in Scheduled
    /\ pc[j] = "idle"
    /\ source.exists /\ source.active /\ source.due
    /\ Goto(j, "load")
    /\ UNCHANGED <<source, job, mem, attempt, events, lost>>

\* The endpoint creates the job row up front.
TriggerSync(j) ==
    /\ j \in OnDemand
    /\ pc[j] = "idle"
    /\ source.exists
    /\ job' = [job EXCEPT ![j] = "running"]
    /\ Goto(j, "load")
    /\ UNCHANGED <<source, mem, attempt, events, lost>>

\* The next scheduled time passes.
CronPasses ==
    /\ ~source.due
    /\ source' = [source EXCEPT !.due = TRUE]
    /\ UNCHANGED <<job, pc, mem, attempt, events, lost>>

-----------------------------------------------------------------------------
(* The executor.                                                           *)

Load(j) ==
    /\ pc[j] = "load"
    /\ IF source.exists
         THEN /\ mem' = [mem EXCEPT ![j] = [status |-> source.status,
                                            count |-> source.count]]
              /\ Goto(j, "setup")
         ELSE Goto(j, "done") /\ UNCHANGED mem
    /\ UNCHANGED <<source, job, attempt, events, lost>>

\* mark_failed and status ERROR, in one commit.
MarkFailed(j) ==
    /\ source.exists
    /\ job' = [job EXCEPT ![j] = "failed"]
    /\ source' = [source EXCEPT !.status = Flushed(j, "error")]
    /\ Goto(j, "done")
    /\ UNCHANGED <<mem, attempt, events, lost>>

\* Mutation of SetupRaises: the exception is raised without closing the job.
SetupRaisesOnly(j) ==
    /\ pc[j] = "setup"
    /\ Goto(j, "done")
    /\ UNCHANGED <<source, job, mem, attempt, events, lost>>

\* The connector cannot be built or authenticated; a job that exists by then,
\* the one of the endpoint, is closed.
SetupRaises(j) ==
    /\ pc[j] = "setup"
    /\ IF j \in OnDemand
         THEN MarkFailed(j)
         ELSE Goto(j, "done") /\ UNCHANGED <<source, job, mem, attempt, events, lost>>

\* Status SYNCING and, for a scheduled run, the job row.
Begin(j) ==
    /\ pc[j] = "setup"
    /\ source.exists
    /\ source' = [source EXCEPT !.status = Flushed(j, "syncing")]
    /\ mem' = [mem EXCEPT ![j].status = "syncing"]
    /\ job' = [job EXCEPT ![j] = "running"]
    /\ attempt' = [attempt EXCEPT ![j] = 1]
    /\ Goto(j, "sync")
    /\ UNCHANGED <<events, lost>>

\* Mutations of NextAttempt: a run without success starts over; one attempt
\* too many.
NextAttemptStartOver(j) ==
    IF attempt[j] <= MaxRetries
      THEN Goto(j, "sync") /\ attempt' = [attempt EXCEPT ![j] = @ + 1]
      ELSE /\ Goto(j, IF job[j] = "running" THEN "setup" ELSE "close")
           /\ UNCHANGED attempt

NextAttemptOneMore(j) ==
    IF attempt[j] <= MaxRetries + 1
      THEN Goto(j, "sync") /\ attempt' = [attempt EXCEPT ![j] = @ + 1]
      ELSE Goto(j, "close") /\ UNCHANGED attempt

NextAttempt(j) ==
    IF attempt[j] <= MaxRetries
      THEN Goto(j, "sync") /\ attempt' = [attempt EXCEPT ![j] = @ + 1]
      ELSE Goto(j, "close") /\ UNCHANGED attempt

\* connector.sync() returns or raises.
Sync(j) ==
    /\ pc[j] = "sync"
    /\ \/ Goto(j, "commit") /\ UNCHANGED attempt
       \/ NextAttempt(j)
    /\ UNCHANGED <<source, job, mem, events, lost>>

\* Mutation of Commit: the status stays SYNCING.
CommitWithoutStatus(j) ==
    /\ pc[j] = "commit"
    /\ source.exists
    /\ source' = [source EXCEPT !.count = mem[j].count + 1, !.due = FALSE]
    /\ mem' = [mem EXCEPT ![j] = [status |-> "active", count |-> @.count + 1]]
    /\ job' = [job EXCEPT ![j] = "succeeded"]
    /\ Goto(j, "emit")
    /\ UNCHANGED <<attempt, events, lost>>

\* mark_succeeded, status ACTIVE, last_sync_at and document_count.
Commit(j) ==
    /\ pc[j] = "commit"
    /\ source.exists
    /\ source' = [source EXCEPT !.status = Flushed(j, "active"),
                                !.count = mem[j].count + 1, !.due = FALSE]
    /\ mem' = [mem EXCEPT ![j] = [status |-> "active", count |-> @.count + 1]]
    /\ job' = [job EXCEPT ![j] = "succeeded"]
    /\ Goto(j, "emit")
    /\ UNCHANGED <<attempt, events, lost>>

\* Mutation of Emit: the event is published before the commit.
EmitEarly(j) ==
    /\ pc[j] = "commit"
    /\ events' = [events EXCEPT ![j] = @ + 1]
    /\ Goto(j, "done")
    /\ UNCHANGED <<source, job, mem, attempt, lost>>

\* The send is inside the retry loop.  It raises on a broker error, after a
\* timeout whose message was delivered, or when another run's finally clause
\* has closed the shared producer: the attempt counts as failed.
Emit(j) ==
    /\ pc[j] = "emit"
    /\ \/ /\ events' = [events EXCEPT ![j] = @ + 1]
          /\ Goto(j, "done")
          /\ UNCHANGED attempt
       \/ /\ \E delivered \in {0, 1} : events' = [events EXCEPT ![j] = @ + delivered]
          /\ NextAttempt(j)
    /\ UNCHANGED <<source, job, mem, lost>>

\* Every attempt has failed.
Close(j) ==
    /\ pc[j] = "close"
    /\ MarkFailed(j)

\* A statement fails, or the row is gone: the remaining attempts and
\* mark_failed raise on the dead session, and the exception leaves the run.
DatabaseError(j) ==
    /\ pc[j] \in {"load", "setup", "sync", "commit", "close"}
    /\ lost' = [lost EXCEPT ![j] = TRUE]
    /\ Goto(j, "done")
    /\ UNCHANGED <<source, job, mem, attempt, events>>

-----------------------------------------------------------------------------
(* The administrator, and the process.                                     *)

SetActive(b) ==
    /\ source.exists
    /\ source' = [source EXCEPT !.active = b,
                                !.status = IF b THEN "active" ELSE "inactive"]
    /\ UNCHANGED <<job, pc, mem, attempt, events, lost>>

\* Deletes the row; the job rows go with it.
Delete ==
    /\ source.exists
    /\ source' = [source EXCEPT !.exists = FALSE]
    /\ job' = [j \in Syncs |-> IF job[j] = "none" THEN "none" ELSE "deleted"]
    /\ UNCHANGED <<pc, mem, attempt, events, lost>>

\* The API process stops with all its tasks.
Crash ==
    /\ \E j \in Syncs : InFlight(j)
    /\ lost' = [j \in Syncs |-> lost[j] \/ InFlight(j)]
    /\ pc' = [j \in Syncs |-> IF InFlight(j) THEN "done" ELSE pc[j]]
    /\ UNCHANGED <<source, job, mem, attempt, events>>

-----------------------------------------------------------------------------
Run(j) ==
    \/ Load(j)    \/ SetupRaises(j)  \/ Begin(j)  \/ Sync(j)
    \/ Commit(j)  \/ Emit(j)         \/ Close(j)  \/ DatabaseError(j)

Next ==
    \/ \E j \in Syncs : Tick(j) \/ TriggerSync(j) \/ Run(j)
    \/ CronPasses
    \/ \E b \in BOOLEAN : SetActive(b)
    \/ Delete
    \/ Crash

Spec == Init /\ [][Next]_vars

\* The connectors' requests, the database and the producer have timeouts, and
\* the backoff between attempts is finite: a dispatched run always goes on.
FairSpec == Spec /\ \A j \in Syncs : WF_vars(Run(j))

-----------------------------------------------------------------------------
(* Properties.                                                             *)

\* Every variable holds a value of its type, and a run makes at most
\* MaxRetries + 1 attempts.
TypeOK ==
    /\ source \in [exists : BOOLEAN, active : BOOLEAN, status : SourceStatus,
                   count : Nat, due : BOOLEAN]
    /\ job \in [Syncs -> JobStatus]
    /\ pc \in [Syncs -> Steps]
    /\ mem \in [Syncs -> [status : SourceStatus, count : Nat]]
    /\ attempt \in [Syncs -> 0 .. MaxRetries + 1]
    /\ events \in [Syncs -> Nat]
    /\ lost \in [Syncs -> BOOLEAN]

\* A run that ends without a crash or a database error leaves no job RUNNING:
\* whoever polls the job it was given sees it closed.
EndedRunsCloseTheirJob ==
    \A j \in Syncs : pc[j] = "done" /\ ~lost[j] => job[j] # "running"

\* While the source row says SYNCING, some run still has to write ACTIVE or
\* ERROR over it, unless a run was lost: overlapping runs, which each write
\* only what differs from the row they loaded, never leave it behind.
SyncingIsOwed ==
    source.exists /\ source.status = "syncing" =>
        \E j \in Syncs :
            \/ lost[j]
            \/ pc[j] \in {"sync", "commit", "close"} /\ mem[j].status = "syncing"

\* Consumers are told about a sync only after its success was committed.
EventsFollowTheCommit ==
    [][\A j \in Syncs : events'[j] # events[j] => job[j] \in {"succeeded", "deleted"}]_vars

\* Every dispatched run ends.
RunsEnd == \A j \in Syncs : InFlight(j) ~> pc[j] = "done"
=============================================================================
