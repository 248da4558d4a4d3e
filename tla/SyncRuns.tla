------------------------------ MODULE SyncRuns ------------------------------
(***************************************************************************)
(* The sync engine: the rows of sync_runs and job_runs, the broker queue   *)
(* of execute_sync_run messages, the transaction-level advisory locks, and *)
(* the processes that share them:                                          *)
(*                                                                         *)
(*   Callers     HTTP requests that create a run (api/sync_runs.py,        *)
(*               api/connections.py, api/experiments.py)                   *)
(*   Schedulers  executions of the beat task run_auto_sync_scheduler       *)
(*   Workers     executions of the Celery task execute_sync_run            *)
(*                                                                         *)
(* A step is one statement or commit another process can come between.     *)
(* The database is PostgreSQL at READ COMMITTED; a transaction's advisory  *)
(* locks go with its commit, its rollback or the loss of its session.      *)
(* The job row and the run row of one request share an index (job_run_id   *)
(* in params_json links them one to one); a run of an experiment has no    *)
(* job row.                                                                *)
(***************************************************************************)
EXTENDS Naturals

CONSTANTS
  Connections,  \* rows of connections
  Experiments,  \* rows of experiments, the other target of a run
  AutoSync,     \* connections with auto_sync_enabled and status active
  Callers, Schedulers, Workers,
  RunIds,       \* the runs that may be created (bounds the model)
  None,
  MaxDup,       \* bound on redeliveries by the broker
  MaxCrash      \* bound on lost processes

Creators == Callers \cup Schedulers
Targets  == Connections \cup Experiments

ASSUME SyncRunsAssumption ==
  /\ AutoSync \subseteq Connections
  /\ Connections \cap Experiments = {}
  /\ Callers \cap Schedulers = {}
  /\ None \notin Targets \cup RunIds \cup Workers \cup Creators
  /\ MaxDup \in Nat
  /\ MaxCrash \in Nat

VARIABLES
  status,    \* sync_runs.status; "none": no row yet
  job,       \* job_runs.status;  "none": no row
  target,    \* sync_runs.connection_id, or experiment_id
  creator,   \* history: the process that created the run
  stored,    \* history: the sync logic committed its rows for the run
  msgs,      \* undelivered execute_sync_run messages of the run
  syncLock,  \* holder of the advisory lock get_(connection_)sync_lock_key
  autoLock,  \* holder of the advisory lock get_auto_sync_lock_key
  due,       \* connections for which _is_due holds
  cpc, ctarget, crun,   \* a creator: control, the target it serves, its run
  todo, dueSeen,        \* a scheduler: connections left, due as it loaded it
  wpc, wrun, wseen,     \* a worker: control, its run, run.status as loaded
  dups, crashes         \* faults so far

rows   == <<status, job, target, creator, stored>>
locks  == <<syncLock, autoLock>>
cvars  == <<cpc, ctarget, crun, todo, dueSeen>>
wvars  == <<wpc, wrun, wseen>>
faults == <<dups, crashes>>
vars   == <<rows, msgs, locks, due, cvars, wvars, faults>>

RunStatus == {"none", "queued", "running", "success", "failed"}
JobStatus == {"none", "pending", "running", "success", "failed"}
CPC == {"idle", "scan", "rescan", "create_job", "create_run", "enqueue", "stamp"}
WPC == {"idle", "fetched", "lock_failed", "locked", "mark_job", "logic",
        "stored", "succeeded", "excepted", "recovering", "fail_job"}

Active   == {"queued", "running"}
Terminal == {"success", "failed"}

\* Mutant of IsActive: the check looks for running runs only.
IsActiveRunningOnly(t) == \E i \in RunIds : target[i] = t /\ status[i] = "running"

IsActive(t) == \E i \in RunIds : target[i] = t /\ status[i] \in Active

Fresh(i) == status[i] = "none" /\ job[i] = "none"

\* What a flush leaves in the status column: SQLAlchemy sends only the
\* attributes that differ from the value the session loaded.
OrmStatus(i, loaded, new) == IF loaded = new THEN status[i] ELSE new

\* The advisory locks of process p, gone at the end of its transaction.
Released(lock, p) == [t \in DOMAIN lock |-> IF lock[t] = p THEN None ELSE lock[t]]

Init ==
  /\ status = [i \in RunIds |-> "none"]
  /\ job = [i \in RunIds |-> "none"]
  /\ target = [i \in RunIds |-> None]
  /\ creator = [i \in RunIds |-> None]
  /\ stored = [i \in RunIds |-> FALSE]
  /\ msgs = [i \in RunIds |-> 0]
  /\ syncLock = [t \in Targets |-> None]
  /\ autoLock = [t \in Connections |-> None]
  /\ due \in SUBSET AutoSync
  /\ cpc = [p \in Creators |-> "idle"]
  /\ ctarget = [p \in Creators |-> None]
  /\ crun = [p \in Creators |-> None]
  /\ todo = [s \in Schedulers |-> {}]
  /\ dueSeen = [s \in Schedulers |-> {}]
  /\ wpc = [w \in Workers |-> "idle"]
  /\ wrun = [w \in Workers |-> None]
  /\ wseen = [w \in Workers |-> "none"]
  /\ dups = 0
  /\ crashes = 0

-----------------------------------------------------------------------------
(* Creating a run *)

\* A process moves on; what it held in local variables goes with its end.
CStep(p, from, to) ==
  /\ cpc[p] = from
  /\ cpc' = [cpc EXCEPT ![p] = to]

CDone(p) ==
  /\ ctarget' = [ctarget EXCEPT ![p] = None]
  /\ crun' = [crun EXCEPT ![p] = None]

\* A worker's loaded status is of use only up to the next flush of the run.
WStep(w, from, to) ==
  /\ wpc[w] = from
  /\ wpc' = [wpc EXCEPT ![w] = to]
  /\ wrun' = IF to = "idle" THEN [wrun EXCEPT ![w] = None] ELSE wrun
  /\ wseen' = IF to \in {"locked", "lock_failed"} THEN wseen
              ELSE [wseen EXCEPT ![w] = "none"]

\* POST /sync-runs and POST /connections/{id}/sync up to the 409: the
\* request goes on only if it reads no active run of the connection.
RequestConnectionSync(p, t) ==
  /\ CStep(p, "idle", "create_job")
  /\ ~IsActive(t)
  /\ ctarget' = [ctarget EXCEPT ![p] = t]
  /\ UNCHANGED <<rows, msgs, locks, due, crun, todo, dueSeen, wvars, faults>>

\* POST /experiments/{id}/sync: no active-run check and no job row.
RequestExperimentSync(p, t) ==
  \E i \in RunIds :
    /\ CStep(p, "idle", "enqueue")
    /\ Fresh(i)
    /\ status' = [status EXCEPT ![i] = "queued"]
    /\ target' = [target EXCEPT ![i] = t]
    /\ creator' = [creator EXCEPT ![i] = p]
    /\ ctarget' = [ctarget EXCEPT ![p] = t]
    /\ crun' = [crun EXCEPT ![p] = i]
    /\ UNCHANGED <<job, stored, msgs, locks, due, todo, dueSeen, wvars, faults>>

\* schedule_auto_syncs loads the connections, last_auto_sync_at included.
StartScan(s) ==
  /\ CStep(s, "idle", "scan")
  /\ todo' = [todo EXCEPT ![s] = AutoSync]
  /\ dueSeen' = [dueSeen EXCEPT ![s] = due]
  /\ UNCHANGED <<rows, msgs, locks, due, ctarget, crun, wvars, faults>>

\* One iteration of the scheduler's loop up to create_connection_sync_run.
\* Until its first commit it uses last_auto_sync_at as it loaded it; a
\* commit expires the instances and the next access reads the row again.
\* On an active run it goes on to the next connection and keeps the lock.
ScanConnection(s, t) ==
  LET isDue == t \in (IF cpc[s] = "scan" THEN dueSeen[s] ELSE due)
      locked == isDue /\ autoLock[t] = None
  IN /\ cpc[s] \in {"scan", "rescan"}
     /\ t \in todo[s]
     /\ todo' = [todo EXCEPT ![s] = @ \ {t}]
     /\ autoLock' = IF locked THEN [autoLock EXCEPT ![t] = s] ELSE autoLock
     /\ IF locked /\ ~IsActive(t)
          THEN /\ cpc' = [cpc EXCEPT ![s] = "create_job"]
               /\ ctarget' = [ctarget EXCEPT ![s] = t]
          ELSE UNCHANGED <<cpc, ctarget>>
     /\ UNCHANGED <<rows, msgs, syncLock, due, crun, dueSeen, wvars, faults>>

\* The task ends and closes its session.
EndScan(s) ==
  /\ cpc[s] \in {"scan", "rescan"}
  /\ todo[s] = {}
  /\ cpc' = [cpc EXCEPT ![s] = "idle"]
  /\ autoLock' = Released(autoLock, s)
  /\ dueSeen' = [dueSeen EXCEPT ![s] = {}]
  /\ UNCHANGED <<rows, msgs, syncLock, due, ctarget, crun, todo, wvars, faults>>

\* Mutant of CreateJob: the job gets the status name of a run.
CreateJobQueued(p) ==
  \E i \in RunIds :
    /\ CStep(p, "create_job", "create_run")
    /\ Fresh(i)
    /\ job' = [job EXCEPT ![i] = "queued"]
    /\ crun' = [crun EXCEPT ![p] = i]
    /\ autoLock' = Released(autoLock, p)
    /\ UNCHANGED <<status, target, creator, stored, msgs, syncLock, due,
                   ctarget, todo, dueSeen, wvars, faults>>

\* create_job inside create_connection_sync_run: its commit is also the
\* end of the transaction that holds the scheduler's advisory locks.
CreateJob(p) ==
  \E i \in RunIds :
    /\ CStep(p, "create_job", "create_run")
    /\ Fresh(i)
    /\ job' = [job EXCEPT ![i] = "pending"]
    /\ crun' = [crun EXCEPT ![p] = i]
    /\ autoLock' = Released(autoLock, p)
    /\ UNCHANGED <<status, target, creator, stored, msgs, syncLock, due,
                   ctarget, todo, dueSeen, wvars, faults>>

\* The SyncRun row of create_connection_sync_run.
CreateRun(p) ==
  LET i == crun[p] IN
    /\ CStep(p, "create_run", "enqueue")
    /\ status' = [status EXCEPT ![i] = "queued"]
    /\ target' = [target EXCEPT ![i] = ctarget[p]]
    /\ creator' = [creator EXCEPT ![i] = p]
    /\ UNCHANGED <<job, stored, msgs, locks, due, ctarget, crun, todo,
                   dueSeen, wvars, faults>>

\* execute_sync_run.delay, the last step of a request.
Enqueue(p) ==
  /\ cpc[p] = "enqueue"
  /\ msgs' = [msgs EXCEPT ![crun[p]] = @ + 1]
  /\ IF p \in Schedulers
       THEN CStep(p, "enqueue", "stamp") /\ UNCHANGED <<ctarget, crun>>
       ELSE CStep(p, "enqueue", "idle") /\ CDone(p)
  /\ UNCHANGED <<rows, locks, due, todo, dueSeen, wvars, faults>>

\* The scheduler records last_auto_sync_at and commits.
StampAutoSync(s) ==
  /\ CStep(s, "stamp", "rescan")
  /\ due' = due \ {ctarget[s]}
  /\ dueSeen' = [dueSeen EXCEPT ![s] = {}]
  /\ CDone(s)
  /\ UNCHANGED <<rows, msgs, locks, todo, wvars, faults>>

\* auto_sync_every_minutes have passed since last_auto_sync_at (_is_due).
BecomesDue(t) ==
  /\ t \in AutoSync \ due
  /\ due' = due \cup {t}
  /\ UNCHANGED <<rows, msgs, locks, cvars, wvars, faults>>

-----------------------------------------------------------------------------
(* Executing a run *)

\* A worker takes the message and loads the run. The message is gone from
\* the broker when the task starts (Celery acknowledges early).
FetchRun(w, i) ==
  /\ msgs[i] > 0
  /\ msgs' = [msgs EXCEPT ![i] = @ - 1]
  /\ wpc[w] = "idle"
  /\ IF status[i] = "none"
       THEN UNCHANGED wvars
       ELSE /\ wpc' = [wpc EXCEPT ![w] = "fetched"]
            /\ wrun' = [wrun EXCEPT ![w] = i]
            /\ wseen' = [wseen EXCEPT ![w] = status[i]]
  /\ UNCHANGED <<rows, locks, due, cvars, faults>>

TryLock(w) ==
  LET t == target[wrun[w]] IN
    /\ WStep(w, "fetched", IF syncLock[t] = None THEN "locked" ELSE "lock_failed")
    /\ syncLock' = IF syncLock[t] = None THEN [syncLock EXCEPT ![t] = w] ELSE syncLock
    /\ UNCHANGED <<rows, msgs, autoLock, due, cvars, faults>>

\* Mutant of RejectRun: the early return forgets the job.
RejectRunOnly(w) ==
  LET i == wrun[w] IN
    /\ WStep(w, "lock_failed", "idle")
    /\ status' = [status EXCEPT ![i] = OrmStatus(i, wseen[w], "failed")]
    /\ UNCHANGED <<job, target, creator, stored, msgs, locks, due, cvars, faults>>

\* Mutant of RejectRun: the run is left queued, for a retry nobody makes.
RejectRunQueued(w) ==
  /\ WStep(w, "lock_failed", "fail_job")
  /\ UNCHANGED <<rows, msgs, locks, due, cvars, faults>>

\* Another worker holds the lock: the run ends here.
RejectRun(w) ==
  LET i == wrun[w] IN
    /\ WStep(w, "lock_failed", IF target[i] \in Connections THEN "fail_job" ELSE "idle")
    /\ status' = [status EXCEPT ![i] = OrmStatus(i, wseen[w], "failed")]
    /\ UNCHANGED <<job, target, creator, stored, msgs, locks, due, cvars, faults>>

\* "2. Mark running": the commit ends the transaction that holds the lock,
\* so nothing below runs under it.
MarkRunning(w) ==
  LET i == wrun[w] IN
    /\ WStep(w, "locked", IF target[i] \in Connections THEN "mark_job" ELSE "logic")
    /\ status' = [status EXCEPT ![i] = OrmStatus(i, wseen[w], "running")]
    /\ syncLock' = Released(syncLock, w)
    /\ UNCHANGED <<job, target, creator, stored, msgs, autoLock, due, cvars, faults>>

MarkJobRunning(w) ==
  /\ WStep(w, "mark_job", "logic")
  /\ job' = [job EXCEPT ![wrun[w]] = "running"]
  /\ UNCHANGED <<status, target, creator, stored, msgs, locks, due, cvars, faults>>

\* _run_sync_logic commits the rows it fetched.
StoreRows(w) ==
  /\ WStep(w, "logic", "stored")
  /\ stored' = [stored EXCEPT ![wrun[w]] = TRUE]
  /\ UNCHANGED <<status, job, target, creator, msgs, locks, due, cvars, faults>>

\* Anything inside the try block raises: the platform call, a unique index,
\* the catalogue refresh after the rows are stored, or, once the run is a
\* success, the audit event or the job update.
Raise(w) ==
  /\ wpc[w] \in {"logic", "stored", "succeeded"}
  /\ wpc' = [wpc EXCEPT ![w] = "excepted"]
  /\ UNCHANGED <<rows, msgs, locks, due, cvars, wrun, wseen, faults>>

\* Mutant of MarkSuccess: success is committed before the logic has run.
MarkSuccessEarly(w) ==
  LET i == wrun[w] IN
    /\ WStep(w, "logic", IF target[i] \in Connections THEN "succeeded" ELSE "idle")
    /\ status' = [status EXCEPT ![i] = "success"]
    /\ UNCHANGED <<job, target, creator, stored, msgs, locks, due, cvars, faults>>

\* The run instance expired with the commit of its rows, so the flush sends
\* the status whatever it was.
MarkSuccess(w) ==
  LET i == wrun[w] IN
    /\ WStep(w, "stored", IF target[i] \in Connections THEN "succeeded" ELSE "idle")
    /\ status' = [status EXCEPT ![i] = "success"]
    /\ UNCHANGED <<job, target, creator, stored, msgs, locks, due, cvars, faults>>

\* The refresh that follows the commit in mark_succeeded may still raise.
MarkJobSucceeded(w) ==
  /\ \E next \in {"idle", "excepted"} : WStep(w, "succeeded", next)
  /\ job' = [job EXCEPT ![wrun[w]] = "success"]
  /\ UNCHANGED <<status, target, creator, stored, msgs, locks, due, cvars, faults>>

\* except Exception: rollback, then load the run again.
ReloadRun(w) ==
  /\ wpc[w] = "excepted"
  /\ wpc' = [wpc EXCEPT ![w] = "recovering"]
  /\ wseen' = [wseen EXCEPT ![w] = status[wrun[w]]]
  /\ UNCHANGED <<rows, msgs, locks, due, cvars, wrun, faults>>

\* Mutant of FailRun: the failure is not committed.
FailRunNotCommitted(w) ==
  /\ WStep(w, "recovering", "fail_job")
  /\ UNCHANGED <<rows, msgs, locks, due, cvars, faults>>

\* Mutant of FailRun: the run goes back to queued, for self.retry.
FailRunRequeued(w) ==
  LET i == wrun[w] IN
    /\ WStep(w, "recovering", "fail_job")
    /\ status' = [status EXCEPT ![i] = "queued"]
    /\ UNCHANGED <<job, target, creator, stored, msgs, locks, due, cvars, faults>>

FailRun(w) ==
  LET i == wrun[w] IN
    /\ WStep(w, "recovering", IF target[i] \in Connections THEN "fail_job" ELSE "idle")
    /\ status' = [status EXCEPT ![i] = OrmStatus(i, wseen[w], "failed")]
    /\ UNCHANGED <<job, target, creator, stored, msgs, locks, due, cvars, faults>>

MarkJobFailed(w) ==
  /\ WStep(w, "fail_job", "idle")
  /\ job' = [job EXCEPT ![wrun[w]] = "failed"]
  /\ UNCHANGED <<status, target, creator, stored, msgs, locks, due, cvars, faults>>

-----------------------------------------------------------------------------
(* Faults *)

\* The broker restores a message that was not acknowledged within its
\* visibility timeout, while its first copy is still waiting in a worker.
Redeliver(i) ==
  /\ dups < MaxDup
  /\ msgs[i] > 0
  /\ msgs' = [msgs EXCEPT ![i] = @ + 1]
  /\ dups' = dups + 1
  /\ UNCHANGED <<rows, locks, due, cvars, wvars, crashes>>

\* A worker process, or its database session, is lost: an open transaction
\* is rolled back and its locks are free.
CrashWorker(w) ==
  /\ crashes < MaxCrash
  /\ wpc[w] # "idle"
  /\ WStep(w, wpc[w], "idle")
  /\ syncLock' = Released(syncLock, w)
  /\ crashes' = crashes + 1
  /\ UNCHANGED <<rows, msgs, autoLock, due, cvars, dups>>

\* The same for a request or the scheduler; a .delay that cannot reach the
\* broker ends them the same way.
CrashCreator(p) ==
  /\ crashes < MaxCrash
  /\ cpc[p] # "idle"
  /\ CStep(p, cpc[p], "idle")
  /\ CDone(p)
  /\ todo' = [s \in Schedulers |-> IF s = p THEN {} ELSE todo[s]]
  /\ dueSeen' = [s \in Schedulers |-> IF s = p THEN {} ELSE dueSeen[s]]
  /\ autoLock' = Released(autoLock, p)
  /\ crashes' = crashes + 1
  /\ UNCHANGED <<rows, msgs, syncLock, due, wvars, dups>>

-----------------------------------------------------------------------------
CreatorStep(p) == CreateJob(p) \/ CreateRun(p) \/ Enqueue(p)

SchedulerStep(s) ==
  \/ \E t \in Connections : ScanConnection(s, t)
  \/ EndScan(s)
  \/ StampAutoSync(s)

WorkerStep(w) ==
  \/ TryLock(w) \/ RejectRun(w) \/ MarkRunning(w) \/ MarkJobRunning(w)
  \/ StoreRows(w) \/ Raise(w) \/ MarkSuccess(w) \/ MarkJobSucceeded(w)
  \/ ReloadRun(w) \/ FailRun(w) \/ MarkJobFailed(w)

Step ==
  \/ \E p \in Callers, t \in Connections : RequestConnectionSync(p, t)
  \/ \E p \in Callers, t \in Experiments : RequestExperimentSync(p, t)
  \/ \E s \in Schedulers : StartScan(s)
  \/ \E s \in Schedulers : SchedulerStep(s)
  \/ \E p \in Creators : CreatorStep(p)
  \/ \E t \in Connections : BecomesDue(t)
  \/ \E w \in Workers, i \in RunIds : FetchRun(w, i)
  \/ \E w \in Workers : WorkerStep(w)

Fault ==
  \/ \E i \in RunIds : Redeliver(i)
  \/ \E w \in Workers : CrashWorker(w)
  \/ \E p \in Creators : CrashCreator(p)

Next == Step \/ Fault

Spec == Init /\ [][Next]_vars

\* Without faults: the workers poll the broker, a task that started runs to
\* its end, and so does a request.
Fairness ==
  /\ \A p \in Creators : WF_vars(CreatorStep(p))
  /\ \A s \in Schedulers : WF_vars(SchedulerStep(s))
  /\ \A i \in RunIds : WF_vars(\E w \in Workers : FetchRun(w, i))
  /\ \A w \in Workers : WF_vars(WorkerStep(w))

FairSpec == Init /\ [][Step]_vars /\ Fairness

-----------------------------------------------------------------------------
(* Properties *)

TypeOK ==
  /\ status \in [RunIds -> RunStatus]
  /\ job \in [RunIds -> JobStatus]
  /\ target \in [RunIds -> Targets \cup {None}]
  /\ creator \in [RunIds -> Creators \cup {None}]
  /\ stored \in [RunIds -> BOOLEAN]
  /\ msgs \in [RunIds -> Nat]
  /\ syncLock \in [Targets -> Workers \cup {None}]
  /\ autoLock \in [Connections -> Schedulers \cup {None}]
  /\ due \in SUBSET AutoSync
  /\ cpc \in [Creators -> CPC]
  /\ ctarget \in [Creators -> Targets \cup {None}]
  /\ crun \in [Creators -> RunIds \cup {None}]
  /\ todo \in [Schedulers -> SUBSET AutoSync]
  /\ dueSeen \in [Schedulers -> SUBSET AutoSync]
  /\ wpc \in [Workers -> WPC]
  /\ wrun \in [Workers -> RunIds \cup {None}]
  /\ wseen \in [Workers -> RunStatus]
  /\ dups \in Nat
  /\ crashes \in Nat

Busy(w, i) == wpc[w] # "idle" /\ wrun[w] = i

\* The job row never runs ahead of the run row it reports on: they are
\* written by separate commits of two processes, the run always first.
JobNeverAheadOfRun ==
  \A i \in RunIds :
    job[i] \in {"running", "success", "failed"} =>
      status[i] \in {"running", "success", "failed"}

\* A run reported as a success has its rows in the database, whatever was
\* redelivered, raised or lost on the way.
SuccessIsStored == \A i \in RunIds : status[i] = "success" => stored[i]

\* What the rows of a run and its job report has happened (execute_sync_run).
ReportsHold == JobNeverAheadOfRun /\ SuccessIsStored

\* Only a crash makes the service forget a run: as long as no process is
\* lost, an active run (which answers every new request with 409) has a
\* message on its way, a request about to send it, or a worker on it.
NoRunForgotten ==
  crashes = 0 =>
    \A i \in RunIds : status[i] \in Active =>
      \/ msgs[i] > 0
      \/ \E p \in Creators : cpc[p] = "enqueue" /\ crun[p] = i
      \/ \E w \in Workers : Busy(w, i)

\* Without crash or redelivery the two status columns agree once the
\* workers are done with a run: the job page and the run page tell the
\* same story, on the rejected and failed paths too.
JobMirrorsRun ==
  crashes = 0 /\ dups = 0 =>
    \A i \in RunIds :
      /\ target[i] \in Connections
      /\ status[i] \in Terminal
      /\ \A w \in Workers : ~Busy(w, i)
      => job[i] = status[i]

\* What the active-run check does guarantee: one process never has two
\* active runs on a connection (two processes can, see OneActivePerConnection).
OneActivePerCreator ==
  dups = 0 =>
    \A i, j \in RunIds :
      /\ target[i] \in Connections
      /\ target[j] = target[i]
      /\ status[i] \in Active
      /\ status[j] \in Active
      /\ creator[i] = creator[j]
      => i = j

\* A finished run stays finished, and a failed one failed, as long as the
\* broker delivers each message once; execute_sync_run itself does not look
\* at the status of the run it is given.
FinishedStaysFinished ==
  [][dups' = 0 =>
       \A i \in RunIds :
         /\ status[i] = "failed" => status'[i] = "failed"
         /\ status[i] = "success" => status'[i] \in Terminal]_vars

\* docs/TODO.md:181: at most one active sync on a connection, by the check
\* of queued/running when a run is created.
OneActivePerConnection ==
  \A i, j \in RunIds :
    /\ target[i] \in Connections
    /\ target[j] = target[i]
    /\ status[i] \in Active
    /\ status[j] \in Active
    => i = j

\* What a client polling the run sees of it.
Phase(i) ==
  CASE status[i] = "none"    -> "absent"
    [] status[i] = "queued"  -> "waiting"
    [] status[i] = "running" -> "working"
    [] OTHER                 -> "done"

Lifecycle == INSTANCE SyncRunLifecycle
  WITH Runs <- RunIds, phase <- [i \in RunIds |-> Phase(i)]

\* The engine implements what the run endpoints promise: phases in order,
\* never backwards, and each run comes to an end, although its steps are
\* spread over a request, the scheduler, the broker and the workers.
ImplementsLifecycle == Lifecycle!Spec

\* The job page tells the end of the story too: the job of every run that
\* was created ends, with the status of the run, and keeps it.
JobsCatchUp ==
  \A i \in RunIds :
    status[i] = "queued" /\ target[i] \in Connections
      ~> [](status[i] \in Terminal /\ job[i] = status[i])
=============================================================================
