----------------------------- MODULE Autopilot -----------------------------
(***************************************************************************)
(* The autopilot (services/automation_service.py,                          *)
(* workers/automation_tasks.py, api/automation.py) and the recommendations *)
(* it turns into drafts of actions (services/recommendations_service.py,   *)
(* api/recommendations.py).  A run of an organization computes             *)
(* recommendations, reads those of its window and drafts an action for     *)
(* each that has none.  Two runs are kept apart only by a look for a run   *)
(* that is "running".                                                      *)
(*                                                                         *)
(* A recommendation is a problem in a window of dates, the key of          *)
(* uq_org_recommendations; which problems the metrics show is arbitrary.   *)
(* The windows of the model overlap, as those of two weeks do.             *)
(***************************************************************************)
EXTENDS Deployment, FiniteSets

CONSTANTS
  Orgs, Problems, Windows,
  RunIds,            \* the automation runs that may be created
  Handlers,          \* requests that run it at the same time
  Workers            \* worker processes that run it

Run == [org : Orgs, status : {"running", "success", "failed"}]
Settings == [enabled : BOOLEAN, ran : BOOLEAN]

ASSUME AutopilotAssumption == None \notin Orgs \cup RunIds \cup Run \cup Settings

Recos == Problems \X Windows
Procs == Handlers \cup Workers
Proc == [org : Orgs \cup {None}, step : {"idle", "create", "compute", "read", "finish"},
         run : RunIds \cup {None}, todo : SUBSET Recos]

VARIABLES
  settings,  \* org_automation_settings: enabled, and whether last_run_at is set; or None
  runs,      \* org_automation_runs: organization and status, or None
  recos,     \* org_recommendations
  drafts,    \* org_automation_actions: run and recommendation
  autoMsgs,  \* messages of run_automation_for_org in the broker
  proc,      \* what a run in a request or a worker does next
  scan,      \* what the scheduler does next
  crossed,   \* organizations of which two runs were running at once (history)
  found      \* the recommendations a run computed (history)

autoVars == <<settings, runs, recos, drafts, autoMsgs, proc, scan, crossed, found>>

NoRun == [org |-> None, step |-> "idle", run |-> None, todo |-> {}]
NoScan == [on |-> FALSE, todo |-> {}, stamped |-> {}]
Defaults == [enabled |-> TRUE, ran |-> FALSE]

AutoInit ==
  /\ settings = [o \in Orgs |-> None]
  /\ runs = [r \in RunIds |-> None]
  /\ recos = [o \in Orgs |-> [x \in Recos |-> "none"]]
  /\ drafts = {}
  /\ autoMsgs = [o \in Orgs |-> 0]
  /\ proc = [p \in Procs |-> NoRun]
  /\ scan = NoScan
  /\ crossed = {}
  /\ found = [r \in RunIds |-> {}]

-----------------------------------------------------------------------------
(* Recommendations *)

\* _upsert_reco: a row that is there keeps its resolved_at.
Upserted(o, X) ==
  [recos EXCEPT ![o] = [x \in Recos |-> IF x \in X /\ @[x] = "none" THEN "open" ELSE @[x]]]

\* Asked for, or by a list that is empty.
Recompute(o, X) ==
  /\ recos' = Upserted(o, X)
  /\ UNCHANGED <<settings, runs, drafts, autoMsgs, proc, scan, crossed, found>>

Resolve(o, x) ==
  /\ recos[o][x] = "open"
  /\ recos' = [recos EXCEPT ![o][x] = "resolved"]
  /\ UNCHANGED <<settings, runs, drafts, autoMsgs, proc, scan, crossed, found>>

-----------------------------------------------------------------------------
(* run_automation_for_org, in a worker or in a request *)

RunningOf(o) == {r \in RunIds : runs[r] # None /\ runs[r].org = o /\ runs[r].status = "running"}

\* A run that is running is returned instead of a new one.
Begin(p, o) ==
  /\ proc[p].step = "idle"
  /\ proc' = IF RunningOf(o) # {} THEN proc
               ELSE [proc EXCEPT ![p] = [NoRun EXCEPT !.org = o, !.step = "create"]]

RunTask(w, o) ==
  /\ autoMsgs[o] > 0
  /\ autoMsgs' = [autoMsgs EXCEPT ![o] = @ - 1]
  /\ Begin(w, o)
  /\ UNCHANGED <<settings, runs, recos, drafts, scan, crossed, found>>

RequestRun(h, o) ==
  /\ Begin(h, o)
  /\ UNCHANGED <<settings, runs, recos, drafts, autoMsgs, scan, crossed, found>>

\* The run is committed as running, then its audit event.
CreateRun(p) ==
  LET o == proc[p].org IN
    /\ proc[p].step = "create"
    /\ \E r \in RunIds :
         /\ runs[r] = None
         /\ runs' = [runs EXCEPT ![r] = [org |-> o, status |-> "running"]]
         /\ proc' = [proc EXCEPT ![p].step = "compute", ![p].run = r]
    /\ crossed' = IF RunningOf(o) = {} THEN crossed ELSE crossed \cup {o}
    /\ UNCHANGED <<settings, recos, drafts, autoMsgs, scan, found>>

\* compute_recommendations_for_org commits its upserts together.
Compute(p, P, d) ==
  LET q == proc[p] IN
    /\ q.step = "compute"
    /\ recos' = Upserted(q.org, P \X {d})
    /\ proc' = [proc EXCEPT ![p].step = "read"]
    /\ found' = [found EXCEPT ![q.run] = P \X {d}]
    /\ UNCHANGED <<settings, runs, drafts, autoMsgs, scan, crossed>>

\* The end of a run: its row, and last_run_at of the settings.
EndRun(p, status) ==
  LET q == proc[p] IN
    /\ runs' = [runs EXCEPT ![q.run].status = status]
    /\ settings' = [settings EXCEPT ![q.org] =
         [IF @ = None THEN Defaults ELSE @ EXCEPT !.ran = TRUE]]
    /\ proc' = [proc EXCEPT ![p] = NoRun]

\* Mutant of FailCompute: the failure leaves the run as it is.
FailComputeRunning(p, P, d) ==
  LET q == proc[p] IN
    /\ q.step = "compute"
    /\ recos' = Upserted(q.org, P \X {d})
    /\ proc' = [proc EXCEPT ![p] = NoRun]
    /\ UNCHANGED <<settings, runs, drafts, autoMsgs, scan, crossed, found>>

\* except Exception, of credentials that cannot be decrypted: the commit of
\* the failure takes along what was upserted for the connections before.
FailCompute(p, P, d) ==
  LET q == proc[p] IN
    /\ q.step = "compute"
    /\ recos' = Upserted(q.org, P \X {d})
    /\ EndRun(p, "failed")
    /\ UNCHANGED <<drafts, autoMsgs, scan, crossed, found>>

HasDraft(o, x) == \E e \in drafts : runs[e[1]].org = o /\ e[2] = x

\* Mutant of WithoutDraft: drafts are looked for in the run itself.
WithoutDraftOfRun(o) == {x \in Recos : recos[o][x] # "none"}

\* The recommendations of the window, the resolved ones too, that have no draft.
WithoutDraft(o) == {x \in Recos : recos[o][x] # "none" /\ ~HasDraft(o, x)}

ReadRecos(p) ==
  /\ proc[p].step = "read"
  /\ proc' = [proc EXCEPT ![p].step = "finish", ![p].todo = WithoutDraft(proc[p].org)]
  /\ UNCHANGED <<settings, runs, recos, drafts, autoMsgs, scan, crossed, found>>

\* Mutant of DraftActions: the success is committed without the drafts.
DraftActionsNotAdded(p) ==
  /\ proc[p].step = "finish"
  /\ EndRun(p, "success")
  /\ UNCHANGED <<recos, drafts, autoMsgs, scan, crossed, found>>

\* The drafts and the success are one commit (the first run of an
\* organization commits last_run_at by itself, right after).
DraftActions(p) ==
  /\ proc[p].step = "finish"
  /\ drafts' = drafts \cup ({proc[p].run} \X proc[p].todo)
  /\ EndRun(p, "success")
  /\ UNCHANGED <<recos, autoMsgs, scan, crossed, found>>

\* A statement fails, or the process dies: after a failed statement the
\* handler of the exception cannot commit either, and the run stays running.
LoseRun(p) ==
  /\ proc[p].step # "idle"
  /\ proc' = [proc EXCEPT ![p] = NoRun]
  /\ UNCHANGED <<settings, runs, recos, drafts, autoMsgs, scan, crossed, found>>

-----------------------------------------------------------------------------
(* Settings and the scheduler *)

SaveSettings(o, on) ==
  /\ settings' = [settings EXCEPT ![o] = [IF @ = None THEN Defaults ELSE @ EXCEPT !.enabled = on]]
  /\ UNCHANGED <<runs, recos, drafts, autoMsgs, proc, scan, crossed, found>>

StartScan ==
  /\ ~scan.on
  /\ scan' = [on |-> TRUE, todo |-> Orgs, stamped |-> {}]
  /\ UNCHANGED <<settings, runs, recos, drafts, autoMsgs, proc, crossed, found>>

\* last_run_at of the organizations in S is set.
Stamped(S) == [o \in Orgs |->
  IF o \in S /\ settings[o] # None THEN [settings[o] EXCEPT !.ran = TRUE] ELSE settings[o]]

\* get_or_create_settings commits a new row, and what the session has changed.
ScanNewOrg(o) ==
  /\ scan.on
  /\ o \in scan.todo
  /\ settings[o] = None
  /\ autoMsgs[o] < MaxMsgs
  /\ settings' = [Stamped(scan.stamped) EXCEPT ![o] = Defaults]
  /\ autoMsgs' = [autoMsgs EXCEPT ![o] = @ + 1]
  /\ scan' = [scan EXCEPT !.todo = @ \ {o}, !.stamped = {o}]
  /\ UNCHANGED <<runs, recos, drafts, proc, crossed, found>>

\* should_run: switched off.
ScanDisabled(o) ==
  /\ scan.on
  /\ o \in scan.todo
  /\ settings[o] # None
  /\ ~settings[o].enabled
  /\ scan' = [scan EXCEPT !.todo = @ \ {o}]
  /\ UNCHANGED <<settings, runs, recos, drafts, autoMsgs, proc, crossed, found>>

\* should_run: never ran.
ScanEnabled(o) ==
  /\ scan.on
  /\ o \in scan.todo
  /\ settings[o] # None
  /\ settings[o].enabled /\ ~settings[o].ran
  /\ autoMsgs[o] < MaxMsgs
  /\ autoMsgs' = [autoMsgs EXCEPT ![o] = @ + 1]
  /\ scan' = [scan EXCEPT !.todo = @ \ {o}, !.stamped = @ \cup {o}]
  /\ UNCHANGED <<settings, runs, recos, drafts, proc, crossed, found>>

\* should_run subtracts last_run_at, which PostgreSQL returns with a time
\* zone, from a time without one: the scan ends with a TypeError, and what it
\* stamped is not committed.
ScanRaises(o) ==
  /\ scan.on
  /\ o \in scan.todo
  /\ settings[o] # None
  /\ settings[o].enabled /\ settings[o].ran
  /\ scan' = NoScan
  /\ UNCHANGED <<settings, runs, recos, drafts, autoMsgs, proc, crossed, found>>

EndScan ==
  /\ scan.on
  /\ scan.todo = {}
  /\ settings' = Stamped(scan.stamped)
  /\ scan' = NoScan
  /\ UNCHANGED <<runs, recos, drafts, autoMsgs, proc, crossed, found>>

\* The scheduler dies, or a statement of it fails.
LoseScan ==
  /\ scan.on
  /\ scan' = NoScan
  /\ UNCHANGED <<settings, runs, recos, drafts, autoMsgs, proc, crossed, found>>

-----------------------------------------------------------------------------
RunStep(p) ==
  \/ CreateRun(p)
  \/ \E P \in SUBSET Problems, d \in Windows : Compute(p, P, d) \/ FailCompute(p, P, d)
  \/ ReadRecos(p)
  \/ DraftActions(p)

ScanStep ==
  \/ StartScan
  \/ \E o \in Orgs : ScanNewOrg(o) \/ ScanDisabled(o) \/ ScanEnabled(o) \/ ScanRaises(o)
  \/ EndScan

AutoStep ==
  \/ \E o \in Orgs :
       \/ \E P \in SUBSET Problems, d \in Windows : Recompute(o, P \X {d})
       \/ \E x \in Recos : Resolve(o, x)
       \/ \E on \in BOOLEAN : SaveSettings(o, on)
       \/ \E w \in Workers : RunTask(w, o)
       \/ \E h \in Handlers : RequestRun(h, o)
  \/ \E p \in Procs : RunStep(p)
  \/ ScanStep

AutoFault == (\E p \in Procs : LoseRun(p)) \/ LoseScan

AutoNext == AutoStep \/ AutoFault

AutoSpec == AutoInit /\ [][AutoNext]_autoVars

-----------------------------------------------------------------------------
(* Properties *)

AutoTypeOK ==
  /\ settings \in [Orgs -> Settings \cup {None}]
  /\ runs \in [RunIds -> Run \cup {None}]
  /\ recos \in [Orgs -> [Recos -> {"none", "open", "resolved"}]]
  /\ drafts \in SUBSET (RunIds \X Recos)
  /\ autoMsgs \in [Orgs -> 0..MaxMsgs]
  /\ proc \in [Procs -> Proc]
  /\ scan \in [on : BOOLEAN, todo : SUBSET Orgs, stamped : SUBSET Orgs]
  /\ crossed \in SUBSET Orgs
  /\ found \in [RunIds -> SUBSET Recos]

\* One draft each: as long as no two runs of an organization crossed, none of
\* its recommendations is drafted twice, however runs fail, are lost or repeat.
OneDraftEach ==
  \A d, e \in drafts :
    d # e /\ d[2] = e[2] /\ runs[d[1]].org = runs[e[1]].org => runs[d[1]].org \in crossed

\* A run that reports success leaves no recommendation it computed without a
\* draft, its own or that of another run, crossed or not.
SuccessIsDrafted ==
  \A r \in RunIds : runs[r] # None /\ runs[r].status = "success" =>
    \A x \in found[r] : HasDraft(runs[r].org, x)

\* If no process is lost and no statement fails, every run ends, so that the
\* look for a running one never blocks the organization for good.
AutomationRunsEnd ==
  \A r \in RunIds :
    (runs[r] # None /\ runs[r].status = "running")
      ~> (runs[r] # None /\ runs[r].status \in {"success", "failed"})
=============================================================================
