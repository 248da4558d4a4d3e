---------------------------- MODULE ChangePlans ----------------------------
(***************************************************************************)
(* Change plans (services/change_plans_service.py, api/change_plans.py)    *)
(* and the task that applies them (workers/change_plan_tasks.py).  A plan  *)
(* is edited while it is a draft, made ready, and handed to a worker that  *)
(* writes the desired state of the catalogue.  A request reads the status  *)
(* of the plan and commits later; so does a worker, after reading items    *)
(* and catalogue rows.  Nothing is locked.                                 *)
(*                                                                         *)
(* A subject is one desired_* column of one catalogue row.  An item sets   *)
(* it to a value, sets nothing ("noop": the row is gone, or the action     *)
(* does not apply), or raises ("bad": a URL that cannot be parsed).        *)
(***************************************************************************)
EXTENDS Deployment, FiniteSets

CONSTANTS
  Plans, ItemIds,    \* the rows that may be created
  Subjects, Values,
  Editors,           \* requests that change plans at the same time
  Appliers,          \* worker processes that apply plans
  MoreImports        \* task modules a worker imports besides conf.imports

\* conf.imports of the Celery application.
ConfImports ==
  {"sync_tasks", "erir_tasks", "experiment_tasks", "yandex_tasks", "tasks",
   "auto_sync_tasks", "automation_tasks", "utm_tasks"}

\* Mutant of Registered: the task module is not imported.
RegisteredByConf == "change_plan_tasks" \in ConfImports

Registered == "change_plan_tasks" \in ConfImports \cup MoreImports

PlanStatus == {"draft", "ready", "applied", "failed"}
Effects == Values \cup {"noop", "bad"}

Item == [plan : Plans, subject : Subjects, value : Effects,
         status : {"pending", "applied", "failed"}]

Job == [plan : Plans \cup {None}, step : {"idle", "loaded", "read"},
        saw : PlanStatus \cup {None}, items : SUBSET ItemIds,
        old : [Subjects -> Values \cup {None}]]

ASSUME ChangePlansAssumption ==
  /\ None \notin Values \cup {"noop", "bad"} \cup Plans \cup PlanStatus \cup Item
  /\ {"noop", "bad"} \cap Values = {}

VARIABLES
  plan,     \* change_plans: the status of a plan, or None
  items,    \* change_plan_items
  desired,  \* desired_status, desired_daily_budget, desired_url
  planMsgs, \* messages of apply_change_plan in the broker
  edit,     \* what a request is about to commit
  job,      \* what a worker has read
  sealed    \* the items a plan had when it was first made ready (history)

planVars == <<plan, items, desired, planMsgs, edit, job, sealed>>

NoJob == [plan |-> None, step |-> "idle", saw |-> None, items |-> {}, old |-> [s \in Subjects |-> None]]

PlansInit ==
  /\ plan = [p \in Plans |-> None]
  /\ items = [i \in ItemIds |-> None]
  /\ desired = [s \in Subjects |-> None]
  /\ planMsgs = [p \in Plans |-> 0]
  /\ edit = [h \in Editors |-> None]
  /\ job = [w \in Appliers |-> NoJob]
  /\ sealed = [p \in Plans |-> {}]

-----------------------------------------------------------------------------
(* Requests *)

\* Mutant of ItemsOf: not filtered by the plan.
ItemsOfAnyPlan(p) == {i \in ItemIds : items[i] # None}

ItemsOf(p) == {i \in ItemIds : items[i] # None /\ items[i].plan = p}

\* create_plan; the connection is one of the organization's.
CreatePlan(p) ==
  /\ plan[p] = None
  /\ plan' = [plan EXCEPT ![p] = "draft"]
  /\ UNCHANGED <<items, desired, planMsgs, edit, job, sealed>>

\* add_item and set_plan_status find a draft ...
ReadDraft(h, p, what) ==
  /\ edit[h] = None
  /\ plan[p] = "draft"
  /\ edit' = [edit EXCEPT ![h] = [plan |-> p, what |-> what]]
  /\ UNCHANGED <<plan, items, desired, planMsgs, job, sealed>>

\* ... and commit, whatever became of it.
AddItem(h, s, v) ==
  /\ edit[h] # None
  /\ edit[h].what = "add"
  /\ \E i \in ItemIds :
       /\ items[i] = None
       /\ items' = [items EXCEPT ![i] =
            [plan |-> edit[h].plan, subject |-> s, value |-> v, status |-> "pending"]]
  /\ edit' = [edit EXCEPT ![h] = None]
  /\ UNCHANGED <<plan, desired, planMsgs, job, sealed>>

MarkReady(h) ==
  LET p == edit[h].plan IN
    /\ edit[h] # None
    /\ edit[h].what = "ready"
    /\ plan' = [plan EXCEPT ![p] = "ready"]
    /\ sealed' = IF plan[p] = "draft" THEN [sealed EXCEPT ![p] = ItemsOf(p)] ELSE sealed
    /\ edit' = [edit EXCEPT ![h] = None]
    /\ UNCHANGED <<items, desired, planMsgs, job>>

\* The request is lost before its commit, or the table of items is full.
DropRequest(h) ==
  /\ edit[h] # None
  /\ edit' = [edit EXCEPT ![h] = None]
  /\ UNCHANGED <<plan, items, desired, planMsgs, job, sealed>>

\* execute_plan leaves the plan ready, so that it may be executed again.
Execute(p) ==
  /\ plan[p] = "ready"
  /\ planMsgs[p] < MaxMsgs
  /\ planMsgs' = [planMsgs EXCEPT ![p] = @ + 1]
  /\ UNCHANGED <<plan, items, desired, edit, job, sealed>>

-----------------------------------------------------------------------------
(* apply_change_plan *)

\* A message of a task that is not registered is discarded.
Fetch(w, p) ==
  /\ job[w].step = "idle"
  /\ planMsgs[p] > 0
  /\ planMsgs' = [planMsgs EXCEPT ![p] = @ - 1]
  /\ job' = IF Registered /\ plan[p] # "applied"
              THEN [job EXCEPT ![w] = [NoJob EXCEPT !.plan = p, !.step = "loaded", !.saw = plan[p]]]
              ELSE job
  /\ UNCHANGED <<plan, items, desired, edit, sealed>>

ReadItems(w) ==
  /\ job[w].step = "loaded"
  /\ job' = [job EXCEPT ![w].step = "read", ![w].items = ItemsOf(job[w].plan), ![w].old = desired]
  /\ UNCHANGED <<plan, items, desired, planMsgs, edit, sealed>>

\* What the items I set a subject to; their order is the database's.
SetBy(I, s) == {items[i].value : i \in {j \in I : items[j].subject = s /\ items[j].value \in Values}}

\* A column is written if its value is not the one that was read.
Written(I, old, new) ==
  \A s \in Subjects :
    \/ SetBy(I, s) = {} /\ new[s] = desired[s]
    \/ \E v \in SetBy(I, s) : new[s] = IF v = old[s] THEN desired[s] ELSE v

Bad(i) == items[i].value = "bad"

\* Mutant of Outcome: the count of failures is not looked at.
OutcomeApplied(I) == "applied"

Outcome(I) == IF \E i \in I : Bad(i) THEN "failed" ELSE "applied"

\* The audit event, the plan, its items and the catalogue, in one commit.
Apply(w) ==
  LET j == job[w] IN
    /\ j.step = "read"
    /\ desired' \in [Subjects -> Values \cup {None}]
    /\ Written(j.items, j.old, desired')
    /\ items' = [i \in ItemIds |->
         IF i \in j.items
           THEN [items[i] EXCEPT !.status = IF Bad(i) THEN "failed" ELSE "applied"]
           ELSE items[i]]
    /\ plan' = IF Outcome(j.items) = j.saw THEN plan
                 ELSE [plan EXCEPT ![j.plan] = Outcome(j.items)]
    /\ job' = [job EXCEPT ![w] = NoJob]
    /\ UNCHANGED <<planMsgs, edit, sealed>>

\* The commit fails and is rolled back, which is only printed; or the worker
\* dies.  The message was acknowledged when the task started.
LoseJob(w) ==
  /\ job[w].step # "idle"
  /\ job' = [job EXCEPT ![w] = NoJob]
  /\ UNCHANGED <<plan, items, desired, planMsgs, edit, sealed>>

-----------------------------------------------------------------------------
PlanWork(w) == ReadItems(w) \/ Apply(w)

PlanStep ==
  \/ \E p \in Plans : CreatePlan(p) \/ Execute(p)
  \/ \E h \in Editors :
       \/ \E p \in Plans, what \in {"add", "ready"} : ReadDraft(h, p, what)
       \/ \E s \in Subjects, v \in Effects : AddItem(h, s, v)
       \/ MarkReady(h)
       \/ DropRequest(h)
  \/ \E w \in Appliers : (\E p \in Plans : Fetch(w, p)) \/ PlanWork(w)

PlanFault == \E w \in Appliers : LoseJob(w)

PlanNext == PlanStep \/ PlanFault

PlanSpec == PlansInit /\ [][PlanNext]_planVars

-----------------------------------------------------------------------------
(* Properties *)

PlanTypeOK ==
  /\ plan \in [Plans -> PlanStatus \cup {None}]
  /\ items \in [ItemIds -> Item \cup {None}]
  /\ desired \in [Subjects -> Values \cup {None}]
  /\ planMsgs \in [Plans -> 0..MaxMsgs]
  /\ edit \in [Editors -> [plan : Plans, what : {"add", "ready"}] \cup {None}]
  /\ job \in [Appliers -> Job]
  /\ sealed \in [Plans -> SUBSET ItemIds]

\* A plan reported as applied is whole: every item it had when it was made
\* ready was applied, whichever workers, losses and late requests came between.
AppliedPlansAreWhole ==
  \A p \in Plans : plan[p] = "applied" =>
    \A i \in sealed[p] : items[i].status = "applied"

\* The catalogue asks for nothing but what items say: every desired value is
\* that of an item applied with a plan that left the draft.  It may be one that
\* reached its plan after that (AddItem), which nobody has made ready.
DesiredFromPlans ==
  \A s \in Subjects : desired[s] # None =>
    \E i \in ItemIds :
      /\ items[i] # None
      /\ items[i].subject = s /\ items[i].value = desired[s] /\ items[i].status = "applied"
      /\ plan[items[i].plan] # "draft"

\* A plan that was handed to the workers gets its outcome, if no worker is
\* lost and no commit fails.
ExecutedPlansEnd ==
  \A p \in Plans : (plan[p] = "ready" /\ planMsgs[p] > 0) ~> plan[p] \in {"applied", "failed"}
=============================================================================
