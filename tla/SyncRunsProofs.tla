--------------------------- MODULE SyncRunsProofs ---------------------------
(***************************************************************************)
(* Proofs about SyncRuns, for every number of connections, requests,       *)
(* schedulers, workers and runs, and every number of faults.               *)
(***************************************************************************)
EXTENDS SyncRuns, TLAPS

Started == {"running", "success", "failed"}

-----------------------------------------------------------------------------
(* The inductive invariant, in named parts *)

\* A process that holds a run or a target holds a real one, and the row of a
\* run that is being created is not there yet.
CreatorLinks ==
  \A p \in Creators :
    /\ cpc[p] \in {"create_job", "create_run"} => ctarget[p] \in Connections
    /\ cpc[p] = "create_run" =>
         /\ crun[p] \in RunIds
         /\ status[crun[p]] = "none"
         /\ job[crun[p]] = "pending"
         /\ \A q \in Creators : cpc[q] = "create_run" /\ crun[q] = crun[p] => p = q
    /\ cpc[p] = "enqueue" => crun[p] \in RunIds /\ status[crun[p]] # "none"

WorkerLinks ==
  \A w \in Workers : wpc[w] # "idle" =>
    /\ wrun[w] \in RunIds
    /\ status[wrun[w]] # "none"
    /\ target[wrun[w]] \in Targets

RowLinks == \A i \in RunIds : status[i] # "none" => target[i] \in Targets /\ creator[i] \in Creators

\* Nothing returns a run to queued: what a worker has seen or done shows.
StartedRuns ==
  /\ \A w \in Workers :
       /\ wpc[w] \in {"mark_job", "logic", "stored", "succeeded", "excepted",
                      "recovering", "fail_job"} => status[wrun[w]] \in Started
       /\ wpc[w] \in {"locked", "lock_failed", "recovering"}
            /\ wseen[w] \in Started => status[wrun[w]] \in Started
       /\ wpc[w] = "fetched" /\ wseen[w] \in Started => status[wrun[w]] \in Started
       /\ wpc[w] \in {"stored", "succeeded"} => stored[wrun[w]]

\* Every active run has someone who will bring it to its end.
Carried ==
  crashes = 0 =>
    \A i \in RunIds :
      /\ status[i] = "queued" =>
           \/ msgs[i] > 0
           \/ \E p \in Creators : cpc[p] = "enqueue" /\ crun[p] = i
           \/ \E w \in Workers :
                /\ wpc[w] \in {"fetched", "locked", "lock_failed"}
                /\ wrun[w] = i
                /\ wseen[w] = "queued"
      /\ status[i] = "running" =>
           \E w \in Workers :
             /\ wrun[w] = i
             /\ \/ wpc[w] \in {"mark_job", "logic", "stored", "excepted"}
                \/ wpc[w] = "recovering" /\ wseen[w] # "failed"

\* Without redelivery a run is in one place at a time, and its status tells
\* how far its one worker is.
OnePlace ==
  dups = 0 =>
    /\ \A i \in RunIds : msgs[i] > 0 => msgs[i] = 1 /\ status[i] = "queued"
    /\ \A p \in Creators : cpc[p] = "enqueue" =>
         /\ msgs[crun[p]] = 0
         /\ status[crun[p]] = "queued"
         /\ \A w \in Workers : ~Busy(w, crun[p])
         /\ \A q \in Creators : cpc[q] = "enqueue" /\ crun[q] = crun[p] => p = q
    /\ \A w \in Workers : wpc[w] # "idle" =>
         /\ msgs[wrun[w]] = 0
         /\ \A v \in Workers : Busy(v, wrun[w]) => v = w

WorkerStatus ==
  dups = 0 =>
    \A w \in Workers :
      /\ wpc[w] \in {"fetched", "locked", "lock_failed"} =>
           status[wrun[w]] = "queued" /\ wseen[w] = "queued"
      /\ wpc[w] \in {"mark_job", "logic", "stored"} => status[wrun[w]] = "running"
      /\ wpc[w] = "succeeded" => status[wrun[w]] = "success"
      /\ wpc[w] \in {"excepted", "recovering"} =>
           status[wrun[w]] \in {"running", "success"}
      /\ wpc[w] = "recovering" => wseen[w] = status[wrun[w]]
      /\ wpc[w] = "fail_job" => status[wrun[w]] = "failed"
      /\ wpc[w] \in {"mark_job", "succeeded", "fail_job"} =>
           target[wrun[w]] \in Connections

\* A process past the active-run check has no active run on the connection.
CheckHolds ==
  dups = 0 =>
    \A p \in Creators : cpc[p] \in {"create_job", "create_run"} =>
      \A i \in RunIds :
        ~(target[i] = ctarget[p] /\ creator[i] = p /\ status[i] \in Active)

Links == CreatorLinks /\ WorkerLinks /\ RowLinks
IInv ==
  /\ TypeOK /\ Links /\ StartedRuns /\ JobNeverAheadOfRun /\ SuccessIsStored
  /\ Carried /\ OnePlace /\ WorkerStatus /\ CheckHolds /\ OneActivePerCreator
  /\ JobMirrorsRun /\ dups <= MaxDup

-----------------------------------------------------------------------------
(* The steps: each part of IInv is preserved, action by action *)

\* No row, no message and no process: every part of the invariant holds.
LEMMA InitIInv == Init => IInv
  BY SyncRunsAssumption
  DEF Init, IInv, Links, CreatorLinks, WorkerLinks, RowLinks, StartedRuns,
      JobNeverAheadOfRun, SuccessIsStored, Carried, OnePlace, WorkerStatus,
      CheckHolds, OneActivePerCreator, JobMirrorsRun, Active, Terminal,
      TypeOK, RunStatus, JobStatus, CPC, WPC, Creators, Targets

\* Types are kept; the message count needs Links, for the run that is fetched.
LEMMA TypeStep == IInv /\ [Next]_vars => (TypeOK /\ dups <= MaxDup)'
  <1> SUFFICES ASSUME IInv, [Next]_vars PROVE (TypeOK /\ dups <= MaxDup)'
    OBVIOUS
  <1> USE SyncRunsAssumption DEF IInv, Links, CreatorLinks, WorkerLinks, TypeOK, RunStatus, JobStatus, CPC, WPC, Creators, Targets,
         vars, rows, locks, cvars, wvars, faults, CStep, CDone, WStep, OrmStatus, Released
  <1>1. ASSUME NEW p \in Callers, NEW t \in Connections, RequestConnectionSync(p, t) PROVE (TypeOK /\ dups <= MaxDup)'
    BY <1>1 DEF RequestConnectionSync
  <1>2. ASSUME NEW p \in Callers, NEW t \in Experiments, RequestExperimentSync(p, t) PROVE (TypeOK /\ dups <= MaxDup)'
    BY <1>2 DEF RequestExperimentSync
  <1>3. ASSUME NEW s \in Schedulers, StartScan(s) PROVE (TypeOK /\ dups <= MaxDup)'
    BY <1>3 DEF StartScan
  <1>4. ASSUME NEW s \in Schedulers, NEW t \in Connections, ScanConnection(s, t) PROVE (TypeOK /\ dups <= MaxDup)'
    BY <1>4 DEF ScanConnection
  <1>5. ASSUME NEW s \in Schedulers, EndScan(s) PROVE (TypeOK /\ dups <= MaxDup)'
    BY <1>5 DEF EndScan
  <1>6. ASSUME NEW s \in Schedulers, StampAutoSync(s) PROVE (TypeOK /\ dups <= MaxDup)'
    BY <1>6 DEF StampAutoSync
  <1>7. ASSUME NEW p \in Creators, CreateJob(p) PROVE (TypeOK /\ dups <= MaxDup)'
    BY <1>7 DEF CreateJob
  <1>8. ASSUME NEW p \in Creators, CreateRun(p) PROVE (TypeOK /\ dups <= MaxDup)'
    BY <1>8 DEF CreateRun
  <1>9. ASSUME NEW p \in Creators, Enqueue(p) PROVE (TypeOK /\ dups <= MaxDup)'
    BY <1>9 DEF Enqueue
  <1>10. ASSUME NEW t \in Connections, BecomesDue(t) PROVE (TypeOK /\ dups <= MaxDup)'
    BY <1>10 DEF BecomesDue
  <1>11. ASSUME NEW w \in Workers, NEW i \in RunIds, FetchRun(w, i) PROVE (TypeOK /\ dups <= MaxDup)'
    BY <1>11 DEF FetchRun
  <1>12. ASSUME NEW w \in Workers, TryLock(w) PROVE (TypeOK /\ dups <= MaxDup)'
    BY <1>12 DEF TryLock
  <1>13. ASSUME NEW w \in Workers, RejectRun(w) PROVE (TypeOK /\ dups <= MaxDup)'
    BY <1>13 DEF RejectRun
  <1>14. ASSUME NEW w \in Workers, MarkRunning(w) PROVE (TypeOK /\ dups <= MaxDup)'
    BY <1>14 DEF MarkRunning
  <1>15. ASSUME NEW w \in Workers, MarkJobRunning(w) PROVE (TypeOK /\ dups <= MaxDup)'
    BY <1>15 DEF MarkJobRunning
  <1>16. ASSUME NEW w \in Workers, StoreRows(w) PROVE (TypeOK /\ dups <= MaxDup)'
    BY <1>16 DEF StoreRows
  <1>17. ASSUME NEW w \in Workers, Raise(w) PROVE (TypeOK /\ dups <= MaxDup)'
    BY <1>17 DEF Raise
  <1>18. ASSUME NEW w \in Workers, MarkSuccess(w) PROVE (TypeOK /\ dups <= MaxDup)'
    BY <1>18 DEF MarkSuccess
  <1>19. ASSUME NEW w \in Workers, MarkJobSucceeded(w) PROVE (TypeOK /\ dups <= MaxDup)'
    BY <1>19 DEF MarkJobSucceeded
  <1>20. ASSUME NEW w \in Workers, ReloadRun(w) PROVE (TypeOK /\ dups <= MaxDup)'
    BY <1>20 DEF ReloadRun
  <1>21. ASSUME NEW w \in Workers, FailRun(w) PROVE (TypeOK /\ dups <= MaxDup)'
    BY <1>21 DEF FailRun
  <1>22. ASSUME NEW w \in Workers, MarkJobFailed(w) PROVE (TypeOK /\ dups <= MaxDup)'
    BY <1>22 DEF MarkJobFailed
  <1>23. ASSUME NEW i \in RunIds, Redeliver(i) PROVE (TypeOK /\ dups <= MaxDup)'
    BY <1>23 DEF Redeliver
  <1>24. ASSUME NEW w \in Workers, CrashWorker(w) PROVE (TypeOK /\ dups <= MaxDup)'
    BY <1>24 DEF CrashWorker
  <1>25. ASSUME NEW p \in Creators, CrashCreator(p) PROVE (TypeOK /\ dups <= MaxDup)'
    BY <1>25 DEF CrashCreator
  <1>26. CASE UNCHANGED vars
    BY <1>26
  <1> QED
    BY <1>1, <1>2, <1>3, <1>4, <1>5, <1>6, <1>7, <1>8, <1>9, <1>10, <1>11, <1>12, <1>13, <1>14, <1>15, <1>16, <1>17, <1>18, <1>19, <1>20, <1>21, <1>22, <1>23, <1>24, <1>25, <1>26 DEF Next, Step, Fault, CreatorStep, SchedulerStep, WorkerStep

\* A row under construction stays invisible until its own creator commits it.
LEMMA LinksStep == IInv /\ [Next]_vars => Links'
  <1> SUFFICES ASSUME IInv, [Next]_vars PROVE Links'
    OBVIOUS
  <1> USE SyncRunsAssumption DEF IInv, Links, CreatorLinks, WorkerLinks, RowLinks, Fresh,
         TypeOK, RunStatus, JobStatus, CPC, WPC, Creators, Targets,
         vars, rows, locks, cvars, wvars, faults, CStep, CDone, WStep, OrmStatus, Released
  <1>1. ASSUME NEW p \in Callers, NEW t \in Connections, RequestConnectionSync(p, t) PROVE Links'
    BY <1>1 DEF RequestConnectionSync
  <1>2. ASSUME NEW p \in Callers, NEW t \in Experiments, RequestExperimentSync(p, t) PROVE Links'
    BY <1>2 DEF RequestExperimentSync
  <1>3. ASSUME NEW s \in Schedulers, StartScan(s) PROVE Links'
    BY <1>3 DEF StartScan
  <1>4. ASSUME NEW s \in Schedulers, NEW t \in Connections, ScanConnection(s, t) PROVE Links'
    BY <1>4 DEF ScanConnection
  <1>5. ASSUME NEW s \in Schedulers, EndScan(s) PROVE Links'
    BY <1>5 DEF EndScan
  <1>6. ASSUME NEW s \in Schedulers, StampAutoSync(s) PROVE Links'
    BY <1>6 DEF StampAutoSync
  <1>7. ASSUME NEW p \in Creators, CreateJob(p) PROVE Links'
    BY <1>7 DEF CreateJob
  <1>8. ASSUME NEW p \in Creators, CreateRun(p) PROVE Links'
    BY <1>8 DEF CreateRun
  <1>9. ASSUME NEW p \in Creators, Enqueue(p) PROVE Links'
    BY <1>9 DEF Enqueue
  <1>10. ASSUME NEW t \in Connections, BecomesDue(t) PROVE Links'
    BY <1>10 DEF BecomesDue
  <1>11. ASSUME NEW w \in Workers, NEW i \in RunIds, FetchRun(w, i) PROVE Links'
    BY <1>11 DEF FetchRun
  <1>12. ASSUME NEW w \in Workers, TryLock(w) PROVE Links'
    BY <1>12 DEF TryLock
  <1>13. ASSUME NEW w \in Workers, RejectRun(w) PROVE Links'
    BY <1>13 DEF RejectRun
  <1>14. ASSUME NEW w \in Workers, MarkRunning(w) PROVE Links'
    BY <1>14 DEF MarkRunning
  <1>15. ASSUME NEW w \in Workers, MarkJobRunning(w) PROVE Links'
    BY <1>15 DEF MarkJobRunning
  <1>16. ASSUME NEW w \in Workers, StoreRows(w) PROVE Links'
    BY <1>16 DEF StoreRows
  <1>17. ASSUME NEW w \in Workers, Raise(w) PROVE Links'
    BY <1>17 DEF Raise
  <1>18. ASSUME NEW w \in Workers, MarkSuccess(w) PROVE Links'
    BY <1>18 DEF MarkSuccess
  <1>19. ASSUME NEW w \in Workers, MarkJobSucceeded(w) PROVE Links'
    BY <1>19 DEF MarkJobSucceeded
  <1>20. ASSUME NEW w \in Workers, ReloadRun(w) PROVE Links'
    BY <1>20 DEF ReloadRun
  <1>21. ASSUME NEW w \in Workers, FailRun(w) PROVE Links'
    BY <1>21 DEF FailRun
  <1>22. ASSUME NEW w \in Workers, MarkJobFailed(w) PROVE Links'
    BY <1>22 DEF MarkJobFailed
  <1>23. ASSUME NEW i \in RunIds, Redeliver(i) PROVE Links'
    BY <1>23 DEF Redeliver
  <1>24. ASSUME NEW w \in Workers, CrashWorker(w) PROVE Links'
    BY <1>24 DEF CrashWorker
  <1>25. ASSUME NEW p \in Creators, CrashCreator(p) PROVE Links'
    BY <1>25 DEF CrashCreator
  <1>26. CASE UNCHANGED vars
    BY <1>26
  <1> QED
    BY <1>1, <1>2, <1>3, <1>4, <1>5, <1>6, <1>7, <1>8, <1>9, <1>10, <1>11, <1>12, <1>13, <1>14, <1>15, <1>16, <1>17, <1>18, <1>19, <1>20, <1>21, <1>22, <1>23, <1>24, <1>25, <1>26 DEF Next, Step, Fault, CreatorStep, SchedulerStep, WorkerStep

\* No step returns a run to queued: a flush that sends no status (OrmStatus)
\* leaves one that was started already.
LEMMA StartedStep == IInv /\ [Next]_vars => (StartedRuns /\ JobNeverAheadOfRun /\ SuccessIsStored)'
  <1> SUFFICES ASSUME IInv, [Next]_vars PROVE (StartedRuns /\ JobNeverAheadOfRun /\ SuccessIsStored)'
    OBVIOUS
  <1> USE SyncRunsAssumption DEF IInv, Links, CreatorLinks, WorkerLinks, Fresh, StartedRuns,
         Started, JobNeverAheadOfRun, SuccessIsStored,
         TypeOK, RunStatus, JobStatus, CPC, WPC, Creators, Targets,
         vars, rows, locks, cvars, wvars, faults, CStep, CDone, WStep, OrmStatus, Released
  <1>1. ASSUME NEW p \in Callers, NEW t \in Connections, RequestConnectionSync(p, t) PROVE (StartedRuns /\ JobNeverAheadOfRun /\ SuccessIsStored)'
    BY <1>1 DEF RequestConnectionSync
  <1>2. ASSUME NEW p \in Callers, NEW t \in Experiments, RequestExperimentSync(p, t) PROVE (StartedRuns /\ JobNeverAheadOfRun /\ SuccessIsStored)'
    BY <1>2 DEF RequestExperimentSync
  <1>3. ASSUME NEW s \in Schedulers, StartScan(s) PROVE (StartedRuns /\ JobNeverAheadOfRun /\ SuccessIsStored)'
    BY <1>3 DEF StartScan
  <1>4. ASSUME NEW s \in Schedulers, NEW t \in Connections, ScanConnection(s, t) PROVE (StartedRuns /\ JobNeverAheadOfRun /\ SuccessIsStored)'
    BY <1>4 DEF ScanConnection
  <1>5. ASSUME NEW s \in Schedulers, EndScan(s) PROVE (StartedRuns /\ JobNeverAheadOfRun /\ SuccessIsStored)'
    BY <1>5 DEF EndScan
  <1>6. ASSUME NEW s \in Schedulers, StampAutoSync(s) PROVE (StartedRuns /\ JobNeverAheadOfRun /\ SuccessIsStored)'
    BY <1>6 DEF StampAutoSync
  <1>7. ASSUME NEW p \in Creators, CreateJob(p) PROVE (StartedRuns /\ JobNeverAheadOfRun /\ SuccessIsStored)'
    BY <1>7 DEF CreateJob
  <1>8. ASSUME NEW p \in Creators, CreateRun(p) PROVE (StartedRuns /\ JobNeverAheadOfRun /\ SuccessIsStored)'
    BY <1>8 DEF CreateRun
  <1>9. ASSUME NEW p \in Creators, Enqueue(p) PROVE (StartedRuns /\ JobNeverAheadOfRun /\ SuccessIsStored)'
    BY <1>9 DEF Enqueue
  <1>10. ASSUME NEW t \in Connections, BecomesDue(t) PROVE (StartedRuns /\ JobNeverAheadOfRun /\ SuccessIsStored)'
    BY <1>10 DEF BecomesDue
  <1>11. ASSUME NEW w \in Workers, NEW i \in RunIds, FetchRun(w, i) PROVE (StartedRuns /\ JobNeverAheadOfRun /\ SuccessIsStored)'
    BY <1>11 DEF FetchRun
  <1>12. ASSUME NEW w \in Workers, TryLock(w) PROVE (StartedRuns /\ JobNeverAheadOfRun /\ SuccessIsStored)'
    BY <1>12 DEF TryLock
  <1>13. ASSUME NEW w \in Workers, RejectRun(w) PROVE (StartedRuns /\ JobNeverAheadOfRun /\ SuccessIsStored)'
    BY <1>13 DEF RejectRun
  <1>14. ASSUME NEW w \in Workers, MarkRunning(w) PROVE (StartedRuns /\ JobNeverAheadOfRun /\ SuccessIsStored)'
    BY <1>14 DEF MarkRunning
  <1>15. ASSUME NEW w \in Workers, MarkJobRunning(w) PROVE (StartedRuns /\ JobNeverAheadOfRun /\ SuccessIsStored)'
    BY <1>15 DEF MarkJobRunning
  <1>16. ASSUME NEW w \in Workers, StoreRows(w) PROVE (StartedRuns /\ JobNeverAheadOfRun /\ SuccessIsStored)'
    BY <1>16 DEF StoreRows
  <1>17. ASSUME NEW w \in Workers, Raise(w) PROVE (StartedRuns /\ JobNeverAheadOfRun /\ SuccessIsStored)'
    BY <1>17 DEF Raise
  <1>18. ASSUME NEW w \in Workers, MarkSuccess(w) PROVE (StartedRuns /\ JobNeverAheadOfRun /\ SuccessIsStored)'
    BY <1>18 DEF MarkSuccess
  <1>19. ASSUME NEW w \in Workers, MarkJobSucceeded(w) PROVE (StartedRuns /\ JobNeverAheadOfRun /\ SuccessIsStored)'
    BY <1>19 DEF MarkJobSucceeded
  <1>20. ASSUME NEW w \in Workers, ReloadRun(w) PROVE (StartedRuns /\ JobNeverAheadOfRun /\ SuccessIsStored)'
    BY <1>20 DEF ReloadRun
  <1>21. ASSUME NEW w \in Workers, FailRun(w) PROVE (StartedRuns /\ JobNeverAheadOfRun /\ SuccessIsStored)'
    BY <1>21 DEF FailRun
  <1>22. ASSUME NEW w \in Workers, MarkJobFailed(w) PROVE (StartedRuns /\ JobNeverAheadOfRun /\ SuccessIsStored)'
    BY <1>22 DEF MarkJobFailed
  <1>23. ASSUME NEW i \in RunIds, Redeliver(i) PROVE (StartedRuns /\ JobNeverAheadOfRun /\ SuccessIsStored)'
    BY <1>23 DEF Redeliver
  <1>24. ASSUME NEW w \in Workers, CrashWorker(w) PROVE (StartedRuns /\ JobNeverAheadOfRun /\ SuccessIsStored)'
    BY <1>24 DEF CrashWorker
  <1>25. ASSUME NEW p \in Creators, CrashCreator(p) PROVE (StartedRuns /\ JobNeverAheadOfRun /\ SuccessIsStored)'
    BY <1>25 DEF CrashCreator
  <1>26. CASE UNCHANGED vars
    BY <1>26
  <1> QED
    BY <1>1, <1>2, <1>3, <1>4, <1>5, <1>6, <1>7, <1>8, <1>9, <1>10, <1>11, <1>12, <1>13, <1>14, <1>15, <1>16, <1>17, <1>18, <1>19, <1>20, <1>21, <1>22, <1>23, <1>24, <1>25, <1>26 DEF Next, Step, Fault, CreatorStep, SchedulerStep, WorkerStep

\* An active run passes from its request to the broker to a worker, and a
\* worker lets go of it only by ending it.
LEMMA CarriedStep == IInv /\ [Next]_vars => Carried'
  <1> SUFFICES ASSUME IInv, [Next]_vars PROVE Carried'
    OBVIOUS
  <1> USE SyncRunsAssumption DEF IInv, Links, CreatorLinks, WorkerLinks, Carried, Fresh,
         TypeOK, RunStatus, JobStatus, CPC, WPC, Creators, Targets,
         vars, rows, locks, cvars, wvars, faults, CStep, CDone, WStep, OrmStatus, Released
  <1>1. ASSUME NEW p \in Callers, NEW t \in Connections, RequestConnectionSync(p, t) PROVE Carried'
    BY <1>1 DEF RequestConnectionSync
  <1>2. ASSUME NEW p \in Callers, NEW t \in Experiments, RequestExperimentSync(p, t) PROVE Carried'
    BY <1>2 DEF RequestExperimentSync
  <1>3. ASSUME NEW s \in Schedulers, StartScan(s) PROVE Carried'
    BY <1>3 DEF StartScan
  <1>4. ASSUME NEW s \in Schedulers, NEW t \in Connections, ScanConnection(s, t) PROVE Carried'
    BY <1>4 DEF ScanConnection
  <1>5. ASSUME NEW s \in Schedulers, EndScan(s) PROVE Carried'
    BY <1>5 DEF EndScan
  <1>6. ASSUME NEW s \in Schedulers, StampAutoSync(s) PROVE Carried'
    BY <1>6 DEF StampAutoSync
  <1>7. ASSUME NEW p \in Creators, CreateJob(p) PROVE Carried'
    BY <1>7 DEF CreateJob
  <1>8. ASSUME NEW p \in Creators, CreateRun(p) PROVE Carried'
    BY <1>8 DEF CreateRun
  <1>9. ASSUME NEW p \in Creators, Enqueue(p) PROVE Carried'
    BY <1>9 DEF Enqueue
  <1>10. ASSUME NEW t \in Connections, BecomesDue(t) PROVE Carried'
    BY <1>10 DEF BecomesDue
  <1>11. ASSUME NEW w \in Workers, NEW i \in RunIds, FetchRun(w, i) PROVE Carried'
    BY <1>11 DEF FetchRun
  <1>12. ASSUME NEW w \in Workers, TryLock(w) PROVE Carried'
    BY <1>12 DEF TryLock
  <1>13. ASSUME NEW w \in Workers, RejectRun(w) PROVE Carried'
    BY <1>13 DEF RejectRun
  <1>14. ASSUME NEW w \in Workers, MarkRunning(w) PROVE Carried'
    BY <1>14 DEF MarkRunning
  <1>15. ASSUME NEW w \in Workers, MarkJobRunning(w) PROVE Carried'
    BY <1>15 DEF MarkJobRunning
  <1>16. ASSUME NEW w \in Workers, StoreRows(w) PROVE Carried'
    BY <1>16 DEF StoreRows
  <1>17. ASSUME NEW w \in Workers, Raise(w) PROVE Carried'
    BY <1>17 DEF Raise
  <1>18. ASSUME NEW w \in Workers, MarkSuccess(w) PROVE Carried'
    BY <1>18 DEF MarkSuccess
  <1>19. ASSUME NEW w \in Workers, MarkJobSucceeded(w) PROVE Carried'
    BY <1>19 DEF MarkJobSucceeded
  <1>20. ASSUME NEW w \in Workers, ReloadRun(w) PROVE Carried'
    BY <1>20 DEF ReloadRun
  <1>21. ASSUME NEW w \in Workers, FailRun(w) PROVE Carried'
    BY <1>21 DEF FailRun
  <1>22. ASSUME NEW w \in Workers, MarkJobFailed(w) PROVE Carried'
    BY <1>22 DEF MarkJobFailed
  <1>23. ASSUME NEW i \in RunIds, Redeliver(i) PROVE Carried'
    BY <1>23 DEF Redeliver
  <1>24. ASSUME NEW w \in Workers, CrashWorker(w) PROVE Carried'
    BY <1>24 DEF CrashWorker
  <1>25. ASSUME NEW p \in Creators, CrashCreator(p) PROVE Carried'
    BY <1>25 DEF CrashCreator
  <1>26. CASE UNCHANGED vars
    BY <1>26
  <1> QED
    BY <1>1, <1>2, <1>3, <1>4, <1>5, <1>6, <1>7, <1>8, <1>9, <1>10, <1>11, <1>12, <1>13, <1>14, <1>15, <1>16, <1>17, <1>18, <1>19, <1>20, <1>21, <1>22, <1>23, <1>24, <1>25, <1>26 DEF Next, Step, Fault, CreatorStep, SchedulerStep, WorkerStep

\* Without redelivery the message, the request and the worker of a run
\* exclude each other.
LEMMA OnePlaceStep == IInv /\ [Next]_vars => (OnePlace /\ WorkerStatus)'
  <1> SUFFICES ASSUME IInv, [Next]_vars PROVE (OnePlace /\ WorkerStatus)'
    OBVIOUS
  <1> USE SyncRunsAssumption DEF IInv, Links, CreatorLinks, WorkerLinks, OnePlace, WorkerStatus,
         Busy, Fresh,
         TypeOK, RunStatus, JobStatus, CPC, WPC, Creators, Targets,
         vars, rows, locks, cvars, wvars, faults, CStep, CDone, WStep, OrmStatus, Released
  <1>1. ASSUME NEW p \in Callers, NEW t \in Connections, RequestConnectionSync(p, t) PROVE (OnePlace /\ WorkerStatus)'
    BY <1>1 DEF RequestConnectionSync
  <1>2. ASSUME NEW p \in Callers, NEW t \in Experiments, RequestExperimentSync(p, t) PROVE (OnePlace /\ WorkerStatus)'
    BY <1>2 DEF RequestExperimentSync
  <1>3. ASSUME NEW s \in Schedulers, StartScan(s) PROVE (OnePlace /\ WorkerStatus)'
    BY <1>3 DEF StartScan
  <1>4. ASSUME NEW s \in Schedulers, NEW t \in Connections, ScanConnection(s, t) PROVE (OnePlace /\ WorkerStatus)'
    BY <1>4 DEF ScanConnection
  <1>5. ASSUME NEW s \in Schedulers, EndScan(s) PROVE (OnePlace /\ WorkerStatus)'
    BY <1>5 DEF EndScan
  <1>6. ASSUME NEW s \in Schedulers, StampAutoSync(s) PROVE (OnePlace /\ WorkerStatus)'
    BY <1>6 DEF StampAutoSync
  <1>7. ASSUME NEW p \in Creators, CreateJob(p) PROVE (OnePlace /\ WorkerStatus)'
    BY <1>7 DEF CreateJob
  <1>8. ASSUME NEW p \in Creators, CreateRun(p) PROVE (OnePlace /\ WorkerStatus)'
    BY <1>8 DEF CreateRun
  <1>9. ASSUME NEW p \in Creators, Enqueue(p) PROVE (OnePlace /\ WorkerStatus)'
    BY <1>9 DEF Enqueue
  <1>10. ASSUME NEW t \in Connections, BecomesDue(t) PROVE (OnePlace /\ WorkerStatus)'
    BY <1>10 DEF BecomesDue
  <1>11. ASSUME NEW w \in Workers, NEW i \in RunIds, FetchRun(w, i) PROVE (OnePlace /\ WorkerStatus)'
    BY <1>11, SMTT(30) DEF FetchRun
  <1>12. ASSUME NEW w \in Workers, TryLock(w) PROVE (OnePlace /\ WorkerStatus)'
    <2>1. /\ wpc[w] = "fetched" /\ UNCHANGED <<status, target, msgs, cpc, crun, wrun, wseen, dups>>
          /\ \E to \in {"locked", "lock_failed"} : wpc' = [wpc EXCEPT ![w] = to]
      BY <1>12 DEF TryLock
    <2>2. \A v \in Workers, i \in RunIds : Busy(v, i)' <=> Busy(v, i)
      BY <2>1
    <2>3. OnePlace'
      BY <2>1, <2>2
    <2>4. WorkerStatus'
      BY <2>1
    <2> QED
      BY <2>3, <2>4
  <1>13. ASSUME NEW w \in Workers, RejectRun(w) PROVE (OnePlace /\ WorkerStatus)'
    BY <1>13 DEF RejectRun
  <1>14. ASSUME NEW w \in Workers, MarkRunning(w) PROVE (OnePlace /\ WorkerStatus)'
    BY <1>14 DEF MarkRunning
  <1>15. ASSUME NEW w \in Workers, MarkJobRunning(w) PROVE (OnePlace /\ WorkerStatus)'
    BY <1>15 DEF MarkJobRunning
  <1>16. ASSUME NEW w \in Workers, StoreRows(w) PROVE (OnePlace /\ WorkerStatus)'
    BY <1>16 DEF StoreRows
  <1>17. ASSUME NEW w \in Workers, Raise(w) PROVE (OnePlace /\ WorkerStatus)'
    BY <1>17 DEF Raise
  <1>18. ASSUME NEW w \in Workers, MarkSuccess(w) PROVE (OnePlace /\ WorkerStatus)'
    BY <1>18 DEF MarkSuccess
  <1>19. ASSUME NEW w \in Workers, MarkJobSucceeded(w) PROVE (OnePlace /\ WorkerStatus)'
    BY <1>19 DEF MarkJobSucceeded
  <1>20. ASSUME NEW w \in Workers, ReloadRun(w) PROVE (OnePlace /\ WorkerStatus)'
    BY <1>20 DEF ReloadRun
  <1>21. ASSUME NEW w \in Workers, FailRun(w) PROVE (OnePlace /\ WorkerStatus)'
    BY <1>21 DEF FailRun
  <1>22. ASSUME NEW w \in Workers, MarkJobFailed(w) PROVE (OnePlace /\ WorkerStatus)'
    BY <1>22 DEF MarkJobFailed
  <1>23. ASSUME NEW i \in RunIds, Redeliver(i) PROVE (OnePlace /\ WorkerStatus)'
    BY <1>23 DEF Redeliver
  <1>24. ASSUME NEW w \in Workers, CrashWorker(w) PROVE (OnePlace /\ WorkerStatus)'
    BY <1>24 DEF CrashWorker
  <1>25. ASSUME NEW p \in Creators, CrashCreator(p) PROVE (OnePlace /\ WorkerStatus)'
    BY <1>25 DEF CrashCreator
  <1>26. CASE UNCHANGED vars
    BY <1>26
  <1> QED
    BY <1>1, <1>2, <1>3, <1>4, <1>5, <1>6, <1>7, <1>8, <1>9, <1>10, <1>11, <1>12, <1>13, <1>14, <1>15, <1>16, <1>17, <1>18, <1>19, <1>20, <1>21, <1>22, <1>23, <1>24, <1>25, <1>26 DEF Next, Step, Fault, CreatorStep, SchedulerStep, WorkerStep

\* No step of another process activates a run of this one.
LEMMA CheckStep == IInv /\ [Next]_vars => (CheckHolds /\ OneActivePerCreator)'
  <1> SUFFICES ASSUME IInv, [Next]_vars PROVE (CheckHolds /\ OneActivePerCreator)'
    OBVIOUS
  <1> USE SyncRunsAssumption DEF IInv, Links, CreatorLinks, WorkerLinks, RowLinks, OnePlace,
         WorkerStatus, CheckHolds, OneActivePerCreator, Busy, Fresh, Active, IsActive,
         TypeOK, RunStatus, JobStatus, CPC, WPC, Creators, Targets,
         vars, rows, locks, cvars, wvars, faults, CStep, CDone, WStep, OrmStatus, Released
  <1>1. ASSUME NEW p \in Callers, NEW t \in Connections, RequestConnectionSync(p, t) PROVE (CheckHolds /\ OneActivePerCreator)'
    BY <1>1 DEF RequestConnectionSync
  <1>2. ASSUME NEW p \in Callers, NEW t \in Experiments, RequestExperimentSync(p, t) PROVE (CheckHolds /\ OneActivePerCreator)'
    BY <1>2 DEF RequestExperimentSync
  <1>3. ASSUME NEW s \in Schedulers, StartScan(s) PROVE (CheckHolds /\ OneActivePerCreator)'
    BY <1>3 DEF StartScan
  <1>4. ASSUME NEW s \in Schedulers, NEW t \in Connections, ScanConnection(s, t) PROVE (CheckHolds /\ OneActivePerCreator)'
    BY <1>4 DEF ScanConnection
  <1>5. ASSUME NEW s \in Schedulers, EndScan(s) PROVE (CheckHolds /\ OneActivePerCreator)'
    BY <1>5 DEF EndScan
  <1>6. ASSUME NEW s \in Schedulers, StampAutoSync(s) PROVE (CheckHolds /\ OneActivePerCreator)'
    BY <1>6 DEF StampAutoSync
  <1>7. ASSUME NEW p \in Creators, CreateJob(p) PROVE (CheckHolds /\ OneActivePerCreator)'
    BY <1>7 DEF CreateJob
  <1>8. ASSUME NEW p \in Creators, CreateRun(p) PROVE (CheckHolds /\ OneActivePerCreator)'
    BY <1>8 DEF CreateRun
  <1>9. ASSUME NEW p \in Creators, Enqueue(p) PROVE (CheckHolds /\ OneActivePerCreator)'
    BY <1>9 DEF Enqueue
  <1>10. ASSUME NEW t \in Connections, BecomesDue(t) PROVE (CheckHolds /\ OneActivePerCreator)'
    BY <1>10 DEF BecomesDue
  <1>11. ASSUME NEW w \in Workers, NEW i \in RunIds, FetchRun(w, i) PROVE (CheckHolds /\ OneActivePerCreator)'
    BY <1>11 DEF FetchRun
  <1>12. ASSUME NEW w \in Workers, TryLock(w) PROVE (CheckHolds /\ OneActivePerCreator)'
    BY <1>12 DEF TryLock
  <1>13. ASSUME NEW w \in Workers, RejectRun(w) PROVE (CheckHolds /\ OneActivePerCreator)'
    BY <1>13 DEF RejectRun
  <1>14. ASSUME NEW w \in Workers, MarkRunning(w) PROVE (CheckHolds /\ OneActivePerCreator)'
    BY <1>14 DEF MarkRunning
  <1>15. ASSUME NEW w \in Workers, MarkJobRunning(w) PROVE (CheckHolds /\ OneActivePerCreator)'
    BY <1>15 DEF MarkJobRunning
  <1>16. ASSUME NEW w \in Workers, StoreRows(w) PROVE (CheckHolds /\ OneActivePerCreator)'
    BY <1>16 DEF StoreRows
  <1>17. ASSUME NEW w \in Workers, Raise(w) PROVE (CheckHolds /\ OneActivePerCreator)'
    BY <1>17 DEF Raise
  <1>18. ASSUME NEW w \in Workers, MarkSuccess(w) PROVE (CheckHolds /\ OneActivePerCreator)'
    BY <1>18 DEF MarkSuccess
  <1>19. ASSUME NEW w \in Workers, MarkJobSucceeded(w) PROVE (CheckHolds /\ OneActivePerCreator)'
    BY <1>19 DEF MarkJobSucceeded
  <1>20. ASSUME NEW w \in Workers, ReloadRun(w) PROVE (CheckHolds /\ OneActivePerCreator)'
    BY <1>20 DEF ReloadRun
  <1>21. ASSUME NEW w \in Workers, FailRun(w) PROVE (CheckHolds /\ OneActivePerCreator)'
    BY <1>21 DEF FailRun
  <1>22. ASSUME NEW w \in Workers, MarkJobFailed(w) PROVE (CheckHolds /\ OneActivePerCreator)'
    BY <1>22 DEF MarkJobFailed
  <1>23. ASSUME NEW i \in RunIds, Redeliver(i) PROVE (CheckHolds /\ OneActivePerCreator)'
    BY <1>23 DEF Redeliver
  <1>24. ASSUME NEW w \in Workers, CrashWorker(w) PROVE (CheckHolds /\ OneActivePerCreator)'
    BY <1>24 DEF CrashWorker
  <1>25. ASSUME NEW p \in Creators, CrashCreator(p) PROVE (CheckHolds /\ OneActivePerCreator)'
    BY <1>25 DEF CrashCreator
  <1>26. CASE UNCHANGED vars
    BY <1>26
  <1> QED
    BY <1>1, <1>2, <1>3, <1>4, <1>5, <1>6, <1>7, <1>8, <1>9, <1>10, <1>11, <1>12, <1>13, <1>14, <1>15, <1>16, <1>17, <1>18, <1>19, <1>20, <1>21, <1>22, <1>23, <1>24, <1>25, <1>26 DEF Next, Step, Fault, CreatorStep, SchedulerStep, WorkerStep

\* A worker leaves a finished run of a connection only through its job.
LEMMA MirrorsStep == IInv /\ [Next]_vars => JobMirrorsRun'
  <1> SUFFICES ASSUME IInv, [Next]_vars PROVE JobMirrorsRun'
    OBVIOUS
  <1> USE SyncRunsAssumption DEF IInv, Links, CreatorLinks, WorkerLinks, RowLinks, OnePlace,
         WorkerStatus, JobMirrorsRun, Terminal, Busy, Fresh,
         TypeOK, RunStatus, JobStatus, CPC, WPC, Creators, Targets,
         vars, rows, locks, cvars, wvars, faults, CStep, CDone, WStep, OrmStatus, Released
  <1>1. ASSUME NEW p \in Callers, NEW t \in Connections, RequestConnectionSync(p, t) PROVE JobMirrorsRun'
    BY <1>1 DEF RequestConnectionSync
  <1>2. ASSUME NEW p \in Callers, NEW t \in Experiments, RequestExperimentSync(p, t) PROVE JobMirrorsRun'
    BY <1>2 DEF RequestExperimentSync
  <1>3. ASSUME NEW s \in Schedulers, StartScan(s) PROVE JobMirrorsRun'
    BY <1>3 DEF StartScan
  <1>4. ASSUME NEW s \in Schedulers, NEW t \in Connections, ScanConnection(s, t) PROVE JobMirrorsRun'
    BY <1>4 DEF ScanConnection
  <1>5. ASSUME NEW s \in Schedulers, EndScan(s) PROVE JobMirrorsRun'
    BY <1>5 DEF EndScan
  <1>6. ASSUME NEW s \in Schedulers, StampAutoSync(s) PROVE JobMirrorsRun'
    BY <1>6 DEF StampAutoSync
  <1>7. ASSUME NEW p \in Creators, CreateJob(p) PROVE JobMirrorsRun'
    BY <1>7 DEF CreateJob
  <1>8. ASSUME NEW p \in Creators, CreateRun(p) PROVE JobMirrorsRun'
    BY <1>8 DEF CreateRun
  <1>9. ASSUME NEW p \in Creators, Enqueue(p) PROVE JobMirrorsRun'
    BY <1>9 DEF Enqueue
  <1>10. ASSUME NEW t \in Connections, BecomesDue(t) PROVE JobMirrorsRun'
    BY <1>10 DEF BecomesDue
  <1>11. ASSUME NEW w \in Workers, NEW i \in RunIds, FetchRun(w, i) PROVE JobMirrorsRun'
    BY <1>11 DEF FetchRun
  <1>12. ASSUME NEW w \in Workers, TryLock(w) PROVE JobMirrorsRun'
    BY <1>12 DEF TryLock
  <1>13. ASSUME NEW w \in Workers, RejectRun(w) PROVE JobMirrorsRun'
    BY <1>13 DEF RejectRun
  <1>14. ASSUME NEW w \in Workers, MarkRunning(w) PROVE JobMirrorsRun'
    BY <1>14 DEF MarkRunning
  <1>15. ASSUME NEW w \in Workers, MarkJobRunning(w) PROVE JobMirrorsRun'
    BY <1>15 DEF MarkJobRunning
  <1>16. ASSUME NEW w \in Workers, StoreRows(w) PROVE JobMirrorsRun'
    BY <1>16 DEF StoreRows
  <1>17. ASSUME NEW w \in Workers, Raise(w) PROVE JobMirrorsRun'
    BY <1>17 DEF Raise
  <1>18. ASSUME NEW w \in Workers, MarkSuccess(w) PROVE JobMirrorsRun'
    BY <1>18 DEF MarkSuccess
  <1>19. ASSUME NEW w \in Workers, MarkJobSucceeded(w) PROVE JobMirrorsRun'
    BY <1>19 DEF MarkJobSucceeded
  <1>20. ASSUME NEW w \in Workers, ReloadRun(w) PROVE JobMirrorsRun'
    BY <1>20 DEF ReloadRun
  <1>21. ASSUME NEW w \in Workers, FailRun(w) PROVE JobMirrorsRun'
    BY <1>21 DEF FailRun
  <1>22. ASSUME NEW w \in Workers, MarkJobFailed(w) PROVE JobMirrorsRun'
    BY <1>22 DEF MarkJobFailed
  <1>23. ASSUME NEW i \in RunIds, Redeliver(i) PROVE JobMirrorsRun'
    BY <1>23 DEF Redeliver
  <1>24. ASSUME NEW w \in Workers, CrashWorker(w) PROVE JobMirrorsRun'
    BY <1>24 DEF CrashWorker
  <1>25. ASSUME NEW p \in Creators, CrashCreator(p) PROVE JobMirrorsRun'
    BY <1>25 DEF CrashCreator
  <1>26. CASE UNCHANGED vars
    BY <1>26
  <1> QED
    BY <1>1, <1>2, <1>3, <1>4, <1>5, <1>6, <1>7, <1>8, <1>9, <1>10, <1>11, <1>12, <1>13, <1>14, <1>15, <1>16, <1>17, <1>18, <1>19, <1>20, <1>21, <1>22, <1>23, <1>24, <1>25, <1>26 DEF Next, Step, Fault, CreatorStep, SchedulerStep, WorkerStep

-----------------------------------------------------------------------------
(* The theorems *)

\* The strengthened invariant holds in every state of the sync engine.
THEOREM Inductive == Spec => []IInv
  <1>1. Init => IInv
    BY InitIInv
  <1>2. IInv /\ [Next]_vars => IInv'
    BY TypeStep, LinksStep, StartedStep, CarriedStep, OnePlaceStep, CheckStep,
       MirrorsStep DEF IInv
  <1> QED
    BY <1>1, <1>2, PTL DEF Spec

\* Every variable keeps its type, for any number of processes and faults.
THEOREM TypeCorrect == Spec => []TypeOK
  <1>1. IInv => TypeOK
    BY DEF IInv
  <1> QED
    BY <1>1, Inductive, PTL

\* The job row never runs ahead of its run row, and a run reported as a
\* success has its rows, under any number of crashes and redeliveries.
THEOREM ReportsAreTrue == Spec => []ReportsHold
  <1>1. IInv => ReportsHold
    BY DEF IInv, ReportsHold
  <1> QED
    BY <1>1, Inductive, PTL

\* Only a crash makes the service forget a run, redelivered or not.
THEOREM NothingForgotten == Spec => []NoRunForgotten
  <1>1. IInv => NoRunForgotten
    BY DEF IInv, Carried, NoRunForgotten, Busy, Active
  <1> QED
    BY <1>1, Inductive, PTL

\* Without faults job and run end with the same status.
THEOREM JobsMirrorRuns == Spec => []JobMirrorsRun
  <1>1. IInv => JobMirrorsRun
    BY DEF IInv
  <1> QED
    BY <1>1, Inductive, PTL

\* No process ever has two active runs on a connection.
THEOREM ChecksHold == Spec => []OneActivePerCreator
  <1>1. IInv => OneActivePerCreator
    BY DEF IInv
  <1> QED
    BY <1>1, Inductive, PTL

\* The documented promise holds where requests are made one at a time: with a
\* single creating process and no redelivery, one active run per connection.
THEOREM SerialRequests ==
  ASSUME \A p, q \in Creators : p = q, MaxDup = 0
  PROVE  Spec => []OneActivePerConnection
  <1>1. IInv => OneActivePerConnection
    <2> SUFFICES ASSUME IInv PROVE OneActivePerConnection
      OBVIOUS
    <2>1. dups = 0
      BY DEF IInv, TypeOK
    <2>2. \A i \in RunIds : status[i] \in Active => creator[i] \in Creators
      BY DEF IInv, Links, RowLinks, Active
    <2> QED
      BY <2>1, <2>2 DEF IInv, OneActivePerCreator, OneActivePerConnection
  <1> QED
    BY <1>1, Inductive, PTL

Finished ==
  dups' = 0 =>
    \A i \in RunIds :
      /\ status[i] = "failed" => status'[i] = "failed"
      /\ status[i] = "success" => status'[i] \in Terminal

\* Only a worker changes the status of a run, and without redelivery it has
\* a finished run only between the success and the job update.
LEMMA FinishedStep == IInv /\ [Next]_vars => Finished
  <1> SUFFICES ASSUME IInv, [Next]_vars PROVE Finished
    OBVIOUS
  <1> USE SyncRunsAssumption DEF Finished, IInv, Links, CreatorLinks, WorkerLinks, OnePlace, WorkerStatus, Terminal, Busy, Fresh,
         TypeOK, RunStatus, JobStatus, CPC, WPC, Creators, Targets,
         vars, rows, locks, cvars, wvars, faults, CStep, CDone, WStep, OrmStatus, Released
  <1>1. ASSUME NEW p \in Callers, NEW t \in Connections, RequestConnectionSync(p, t) PROVE Finished
    BY <1>1 DEF RequestConnectionSync
  <1>2. ASSUME NEW p \in Callers, NEW t \in Experiments, RequestExperimentSync(p, t) PROVE Finished
    BY <1>2 DEF RequestExperimentSync
  <1>3. ASSUME NEW s \in Schedulers, StartScan(s) PROVE Finished
    BY <1>3 DEF StartScan
  <1>4. ASSUME NEW s \in Schedulers, NEW t \in Connections, ScanConnection(s, t) PROVE Finished
    BY <1>4 DEF ScanConnection
  <1>5. ASSUME NEW s \in Schedulers, EndScan(s) PROVE Finished
    BY <1>5 DEF EndScan
  <1>6. ASSUME NEW s \in Schedulers, StampAutoSync(s) PROVE Finished
    BY <1>6 DEF StampAutoSync
  <1>7. ASSUME NEW p \in Creators, CreateJob(p) PROVE Finished
    BY <1>7 DEF CreateJob
  <1>8. ASSUME NEW p \in Creators, CreateRun(p) PROVE Finished
    BY <1>8 DEF CreateRun
  <1>9. ASSUME NEW p \in Creators, Enqueue(p) PROVE Finished
    BY <1>9 DEF Enqueue
  <1>10. ASSUME NEW t \in Connections, BecomesDue(t) PROVE Finished
    BY <1>10 DEF BecomesDue
  <1>11. ASSUME NEW w \in Workers, NEW i \in RunIds, FetchRun(w, i) PROVE Finished
    BY <1>11 DEF FetchRun
  <1>12. ASSUME NEW w \in Workers, TryLock(w) PROVE Finished
    BY <1>12 DEF TryLock
  <1>13. ASSUME NEW w \in Workers, RejectRun(w) PROVE Finished
    BY <1>13 DEF RejectRun
  <1>14. ASSUME NEW w \in Workers, MarkRunning(w) PROVE Finished
    BY <1>14 DEF MarkRunning
  <1>15. ASSUME NEW w \in Workers, MarkJobRunning(w) PROVE Finished
    BY <1>15 DEF MarkJobRunning
  <1>16. ASSUME NEW w \in Workers, StoreRows(w) PROVE Finished
    BY <1>16 DEF StoreRows
  <1>17. ASSUME NEW w \in Workers, Raise(w) PROVE Finished
    BY <1>17 DEF Raise
  <1>18. ASSUME NEW w \in Workers, MarkSuccess(w) PROVE Finished
    BY <1>18 DEF MarkSuccess
  <1>19. ASSUME NEW w \in Workers, MarkJobSucceeded(w) PROVE Finished
    BY <1>19 DEF MarkJobSucceeded
  <1>20. ASSUME NEW w \in Workers, ReloadRun(w) PROVE Finished
    BY <1>20 DEF ReloadRun
  <1>21. ASSUME NEW w \in Workers, FailRun(w) PROVE Finished
    BY <1>21 DEF FailRun
  <1>22. ASSUME NEW w \in Workers, MarkJobFailed(w) PROVE Finished
    BY <1>22 DEF MarkJobFailed
  <1>23. ASSUME NEW i \in RunIds, Redeliver(i) PROVE Finished
    BY <1>23 DEF Redeliver
  <1>24. ASSUME NEW w \in Workers, CrashWorker(w) PROVE Finished
    BY <1>24 DEF CrashWorker
  <1>25. ASSUME NEW p \in Creators, CrashCreator(p) PROVE Finished
    BY <1>25 DEF CrashCreator
  <1>26. CASE UNCHANGED vars
    BY <1>26
  <1> QED
    BY <1>1, <1>2, <1>3, <1>4, <1>5, <1>6, <1>7, <1>8, <1>9, <1>10, <1>11, <1>12, <1>13, <1>14, <1>15, <1>16, <1>17, <1>18, <1>19, <1>20, <1>21, <1>22, <1>23, <1>24, <1>25, <1>26 DEF Next, Step, Fault, CreatorStep, SchedulerStep, WorkerStep

\* A finished run stays finished unless its message was redelivered.
THEOREM FinishedForGood == Spec => FinishedStaysFinished
  <1>1. IInv /\ [Next]_vars => [Finished]_vars
    BY FinishedStep
  <1> QED
    BY <1>1, Inductive, PTL DEF Spec, FinishedStaysFinished, Finished

-----------------------------------------------------------------------------
(* Refinement of SyncRunLifecycle *)

\* What one step does to the run of index r, if it is not redelivered: the
\* status moves forward, and no other run moves with it.
PhaseNext ==
  dups' = 0 =>
    \/ UNCHANGED status
    \/ \E r \in RunIds : \E new \in RunStatus :
         /\ status' = [status EXCEPT ![r] = new]
         /\ <<status[r], new>> \in
              {<<"none", "queued">>, <<"queued", "running">>,
               <<"queued", "failed">>, <<"running", "success">>,
               <<"running", "failed">>, <<"success", "failed">>,
               <<"success", "success">>, <<"failed", "failed">>}

\* Every step of the engine is one of the moves of a status listed above.
LEMMA PhaseStep == IInv /\ [Next]_vars => PhaseNext
  <1> SUFFICES ASSUME IInv, [Next]_vars PROVE PhaseNext
    OBVIOUS
  <1> USE SyncRunsAssumption DEF IInv, Links, CreatorLinks, WorkerLinks, OnePlace, WorkerStatus,
         PhaseNext, Busy, Fresh, Active, IsActive,
         TypeOK, RunStatus, JobStatus, CPC, WPC, Creators, Targets,
         vars, rows, locks, cvars, wvars, faults, CStep, CDone, WStep, OrmStatus, Released
  <1>1. ASSUME NEW p \in Callers, NEW t \in Connections, RequestConnectionSync(p, t) PROVE PhaseNext
    BY <1>1 DEF RequestConnectionSync
  <1>2. ASSUME NEW p \in Callers, NEW t \in Experiments, RequestExperimentSync(p, t) PROVE PhaseNext
    <2>1. PICK i \in RunIds : Fresh(i) /\ status' = [status EXCEPT ![i] = "queued"]
      BY <1>2 DEF RequestExperimentSync
    <2>2. status[i] = "none" /\ "queued" \in RunStatus
      BY <2>1
    <2> QED
      BY ONLY <2>1, <2>2 DEF PhaseNext
  <1>3. ASSUME NEW s \in Schedulers, StartScan(s) PROVE PhaseNext
    BY <1>3 DEF StartScan
  <1>4. ASSUME NEW s \in Schedulers, NEW t \in Connections, ScanConnection(s, t) PROVE PhaseNext
    BY <1>4 DEF ScanConnection
  <1>5. ASSUME NEW s \in Schedulers, EndScan(s) PROVE PhaseNext
    BY <1>5 DEF EndScan
  <1>6. ASSUME NEW s \in Schedulers, StampAutoSync(s) PROVE PhaseNext
    BY <1>6 DEF StampAutoSync
  <1>7. ASSUME NEW p \in Creators, CreateJob(p) PROVE PhaseNext
    BY <1>7 DEF CreateJob
  <1>8. ASSUME NEW p \in Creators, CreateRun(p) PROVE PhaseNext
    <2>1. crun[p] \in RunIds /\ status[crun[p]] = "none"
      BY <1>8 DEF CreateRun
    <2>2. status' = [status EXCEPT ![crun[p]] = "queued"]
      BY <1>8 DEF CreateRun
    <2>3. "queued" \in RunStatus
      OBVIOUS
    <2> QED
      BY ONLY <2>1, <2>2, <2>3 DEF PhaseNext
  <1>9. ASSUME NEW p \in Creators, Enqueue(p) PROVE PhaseNext
    BY <1>9 DEF Enqueue
  <1>10. ASSUME NEW t \in Connections, BecomesDue(t) PROVE PhaseNext
    BY <1>10 DEF BecomesDue
  <1>11. ASSUME NEW w \in Workers, NEW i \in RunIds, FetchRun(w, i) PROVE PhaseNext
    BY <1>11 DEF FetchRun
  <1>12. ASSUME NEW w \in Workers, TryLock(w) PROVE PhaseNext
    BY <1>12 DEF TryLock
  <1>13. ASSUME NEW w \in Workers, RejectRun(w) PROVE PhaseNext
    <2>1. /\ wrun[w] \in RunIds /\ wpc[w] = "lock_failed" /\ dups' = dups
          /\ status' = [status EXCEPT ![wrun[w]] = OrmStatus(wrun[w], wseen[w], "failed")]
      BY <1>13 DEF RejectRun
    <2>2. dups = 0 => status[wrun[w]] = "queued" /\ wseen[w] = "queued"
      BY <2>1
    <2>3. dups = 0 => OrmStatus(wrun[w], wseen[w], "failed") = "failed"
      BY <2>2
    <2> QED
      BY ONLY <2>1, <2>2, <2>3, "failed" \in RunStatus DEF PhaseNext
  <1>14. ASSUME NEW w \in Workers, MarkRunning(w) PROVE PhaseNext
    <2>1. /\ wrun[w] \in RunIds /\ wpc[w] = "locked" /\ dups' = dups
          /\ status' = [status EXCEPT ![wrun[w]] = OrmStatus(wrun[w], wseen[w], "running")]
      BY <1>14 DEF MarkRunning
    <2>2. dups = 0 => status[wrun[w]] = "queued" /\ wseen[w] = "queued"
      BY <2>1
    <2>3. dups = 0 => OrmStatus(wrun[w], wseen[w], "running") = "running"
      BY <2>2
    <2> QED
      BY ONLY <2>1, <2>2, <2>3, "running" \in RunStatus DEF PhaseNext
  <1>15. ASSUME NEW w \in Workers, MarkJobRunning(w) PROVE PhaseNext
    BY <1>15 DEF MarkJobRunning
  <1>16. ASSUME NEW w \in Workers, StoreRows(w) PROVE PhaseNext
    BY <1>16 DEF StoreRows
  <1>17. ASSUME NEW w \in Workers, Raise(w) PROVE PhaseNext
    BY <1>17 DEF Raise
  <1>18. ASSUME NEW w \in Workers, MarkSuccess(w) PROVE PhaseNext
    <2>1. /\ wrun[w] \in RunIds /\ wpc[w] = "stored" /\ dups' = dups
          /\ status' = [status EXCEPT ![wrun[w]] = "success"]
      BY <1>18 DEF MarkSuccess
    <2>2. dups = 0 => status[wrun[w]] = "running"
      BY <2>1
    <2> QED
      BY ONLY <2>1, <2>2, "success" \in RunStatus DEF PhaseNext
  <1>19. ASSUME NEW w \in Workers, MarkJobSucceeded(w) PROVE PhaseNext
    BY <1>19 DEF MarkJobSucceeded
  <1>20. ASSUME NEW w \in Workers, ReloadRun(w) PROVE PhaseNext
    BY <1>20 DEF ReloadRun
  <1>21. ASSUME NEW w \in Workers, FailRun(w) PROVE PhaseNext
    <2>1. /\ wrun[w] \in RunIds /\ wpc[w] = "recovering" /\ dups' = dups
          /\ status' = [status EXCEPT ![wrun[w]] = OrmStatus(wrun[w], wseen[w], "failed")]
      BY <1>21 DEF FailRun
    <2>2. dups = 0 => status[wrun[w]] \in {"running", "success"} /\ wseen[w] = status[wrun[w]]
      BY <2>1
    <2>3. dups = 0 => OrmStatus(wrun[w], wseen[w], "failed") = "failed"
      BY <2>2
    <2> QED
      BY ONLY <2>1, <2>2, <2>3, "failed" \in RunStatus DEF PhaseNext
  <1>22. ASSUME NEW w \in Workers, MarkJobFailed(w) PROVE PhaseNext
    BY <1>22 DEF MarkJobFailed
  <1>23. ASSUME NEW i \in RunIds, Redeliver(i) PROVE PhaseNext
    BY <1>23 DEF Redeliver
  <1>24. ASSUME NEW w \in Workers, CrashWorker(w) PROVE PhaseNext
    BY <1>24 DEF CrashWorker
  <1>25. ASSUME NEW p \in Creators, CrashCreator(p) PROVE PhaseNext
    BY <1>25 DEF CrashCreator
  <1>26. CASE UNCHANGED vars
    BY <1>26
  <1> QED
    BY <1>1, <1>2, <1>3, <1>4, <1>5, <1>6, <1>7, <1>8, <1>9, <1>10, <1>11, <1>12, <1>13, <1>14, <1>15, <1>16, <1>17, <1>18, <1>19, <1>20, <1>21, <1>22, <1>23, <1>24, <1>25, <1>26 DEF Next, Step, Fault, CreatorStep, SchedulerStep, WorkerStep

\* A forward move of a status is a step of the lifecycle or none at all.
LEMMA PhaseRefines ==
  ASSUME TypeOK, TypeOK', PhaseNext, dups' = 0
  PROVE  [Lifecycle!Next]_([i \in RunIds |-> Phase(i)])
  <1> DEFINE phase == [i \in RunIds |-> Phase(i)]
  <1>1. CASE UNCHANGED status
    BY <1>1 DEF Phase
  <1>2. ASSUME NEW r \in RunIds, NEW new \in RunStatus,
               status' = [status EXCEPT ![r] = new],
               <<status[r], new>> \in
                 {<<"none", "queued">>, <<"queued", "running">>,
                  <<"queued", "failed">>, <<"running", "success">>,
                  <<"running", "failed">>, <<"success", "failed">>,
                  <<"success", "success">>, <<"failed", "failed">>}
        PROVE  [Lifecycle!Next]_([i \in RunIds |-> Phase(i)])
    <2>1. \A i \in RunIds \ {r} : phase[i]' = phase[i]
      BY <1>2 DEF Phase, TypeOK
    <2>2. status'[r] = new
      BY <1>2 DEF TypeOK
    <2>3. phase' = [phase EXCEPT ![r] = phase'[r]]
      BY <2>1
    <2>4. \/ phase'[r] = phase[r]
          \/ phase[r] = "absent" /\ phase'[r] = "waiting"
          \/ phase[r] = "waiting" /\ phase'[r] = "working"
          \/ phase[r] = "waiting" /\ phase'[r] = "done"
          \/ phase[r] = "working" /\ phase'[r] = "done"
      BY <1>2, <2>2 DEF Phase
    <2>5. CASE phase'[r] = phase[r]
      <3>1. phase' = phase
        BY <2>3, <2>5
      <3> QED
        BY <3>1
    <2>6. CASE phase'[r] # phase[r]
      <3>1. \/ Lifecycle!Accept(r) \/ Lifecycle!Start(r)
            \/ Lifecycle!TurnAway(r) \/ Lifecycle!Finish(r)
        BY <2>3, <2>4, <2>6 DEF Lifecycle!Accept, Lifecycle!Start,
           Lifecycle!TurnAway, Lifecycle!Finish, Lifecycle!Move
      <3> QED
        BY <3>1 DEF Lifecycle!Next
    <2> QED
      BY <2>5, <2>6
  <1> QED
    BY <1>1, <1>2 DEF PhaseNext

\* If the broker delivers each message once, the engine shows a polling
\* client the phases in their order, whatever crashes.
THEOREM RefinesLifecycle ==
  ASSUME MaxDup = 0
  PROVE  Spec => Lifecycle!SafeSpec
  <1>1. Init => Lifecycle!Init
    BY DEF Init, Lifecycle!Init, Phase
  <1>2. IInv /\ IInv' /\ [Next]_vars => [Lifecycle!Next]_([i \in RunIds |-> Phase(i)])
    <2>1. IInv' => dups' = 0
      BY DEF IInv, TypeOK
    <2>2. IInv => TypeOK
      BY DEF IInv
    <2>3. IInv' => TypeOK'
      BY DEF IInv
    <2> QED
      BY <2>1, <2>2, <2>3, PhaseStep, PhaseRefines
  <1> QED
    BY <1>1, <1>2, Inductive, PTL DEF Spec, Lifecycle!SafeSpec
=============================================================================
