---------------------------- MODULE ChangesProofs ----------------------------
(***************************************************************************)
(* What change plans, automations and payments guarantee for any number of *)
(* plans, runs, payments and processes.  Each has an inductive invariant   *)
(* of its own, described where it begins.                                  *)
(***************************************************************************)
EXTENDS ChangePlans, Autopilot, Payments, TLAPS

-----------------------------------------------------------------------------
(***************************************************************************)
(* What the change plans guarantee for any number of plans, items, requests *)
(* and workers.  An item never changes its plan, subject or value, and a   *)
(* plan never returns to a draft.  The inductive invariant says that a     *)
(* message or a worker has a plan that left the draft, that a worker which *)
(* has read the items has all that the plan was sealed with, and that an   *)
(* applied plan was sealed with no bad item.                               *)
(***************************************************************************)
Started(p) == plan[p] \notin {None, "draft"}

\* Rows refer to plans that exist.
Rows ==
  /\ \A i \in ItemIds : items[i] # None => plan[items[i].plan] # None
  /\ \A h \in Editors : edit[h] # None => plan[edit[h].plan] # None
  /\ \A p \in Plans : sealed[p] \subseteq ItemsOf(p)

\* Messages and workers have started plans, and a worker has read whole ones.
Working ==
  /\ \A p \in Plans : planMsgs[p] > 0 => Started(p)
  /\ \A w \in Appliers : job[w].step # "idle" =>
       /\ job[w].plan \in Plans
       /\ Started(job[w].plan)
       /\ job[w].saw # "applied"
  /\ \A w \in Appliers : job[w].step = "read" =>
       /\ job[w].items \subseteq ItemsOf(job[w].plan)
       /\ sealed[job[w].plan] \subseteq job[w].items

\* An applied plan has no bad item among those it was sealed with.
AppliedAreGood ==
  \A p \in Plans : plan[p] = "applied" =>
    \A i \in sealed[p] : items[i].status = "applied" /\ items[i].value # "bad"

PlanIInv == PlanTypeOK /\ Rows /\ Working /\ AppliedAreGood /\ DesiredFromPlans

-----------------------------------------------------------------------------
LEMMA NoJobIsJob == NoJob \in Job /\ NoJob.step = "idle"
<1>1. [s \in Subjects |-> None] \in [Subjects -> Values \cup {None}]
  OBVIOUS
<1> QED
  BY <1>1 DEF NoJob, Job

LEMMA PlansInitially == ChangePlansAssumption /\ DeploymentAssumption /\ PlansInit => PlanIInv
<1> SUFFICES ASSUME ChangePlansAssumption, DeploymentAssumption, PlansInit PROVE PlanIInv
  OBVIOUS
<1>1. PlanTypeOK
  BY NoJobIsJob DEF PlansInit, PlanTypeOK, DeploymentAssumption
<1>2. Rows
  BY DEF PlansInit, Rows
<1>3. Working
  BY NoJobIsJob DEF PlansInit, Working
<1>4. AppliedAreGood /\ DesiredFromPlans
  BY DEF PlansInit, AppliedAreGood, DesiredFromPlans, ChangePlansAssumption, PlanStatus
<1> QED
  BY <1>1, <1>2, <1>3, <1>4 DEF PlanIInv

\* A step that leaves the items and their lists alone, and takes no plan out
\* of existence or back to a draft, keeps what is said of rows.
LEMMA PlanRowsKept ==
  ASSUME PlanTypeOK, Rows, UNCHANGED <<items, sealed, edit>>,
         \A p \in Plans : plan[p] # None => plan'[p] # None
  PROVE  Rows'
<1>1. \A p \in Plans : ItemsOf(p)' = ItemsOf(p)
  BY DEF ItemsOf
<1>2. \A i \in ItemIds : items[i] # None => items[i].plan \in Plans
  BY DEF PlanTypeOK, Item
<1>3. \A h \in Editors : edit[h] # None => edit[h].plan \in Plans
  BY DEF PlanTypeOK
<1> QED
  BY <1>1, <1>2, <1>3 DEF Rows

\* What is said of the workers that a step leaves alone stays true.
LEMMA Aside ==
  ASSUME PlanIInv, NEW w \in Appliers,
         \A q \in Plans : planMsgs'[q] > 0 => Started(q)',
         \A q \in Plans : ItemsOf(q)' = ItemsOf(q) /\ (Started(q) => Started(q)'),
         sealed' = sealed,
         \A v \in Appliers \ {w} : job'[v] = job[v],
         job'[w].step # "idle" =>
           /\ job'[w].plan \in Plans /\ Started(job'[w].plan) /\ job'[w].saw # "applied",
         job'[w].step = "read" =>
           /\ job'[w].items \subseteq ItemsOf(job'[w].plan)
           /\ sealed[job'[w].plan] \subseteq job'[w].items
  PROVE  Working'
<1>1. ASSUME NEW v \in Appliers, job'[v].step # "idle"
      PROVE  job'[v].plan \in Plans /\ Started(job'[v].plan) /\ job'[v].saw # "applied"
  <2>1. CASE v = w
    BY <1>1, <2>1
  <2>2. CASE v # w
    BY <1>1, <2>2 DEF PlanIInv, Working
  <2> QED
    BY <2>1, <2>2
<1>2. ASSUME NEW v \in Appliers, job'[v].step = "read"
      PROVE  job'[v].items \subseteq ItemsOf(job'[v].plan) /\ sealed[job'[v].plan] \subseteq job'[v].items
  <2>1. CASE v = w
    BY <1>2, <2>1
  <2>2. CASE v # w
    BY <1>2, <2>2 DEF PlanIInv, Working
  <2> QED
    BY <2>1, <2>2
<1>3. \A q \in Plans : plan[q] \notin {None, "draft"} => plan'[q] \notin {None, "draft"}
  BY DEF Started
<1>4. \A q \in Plans : {i \in ItemIds : items'[i] # None /\ items'[i].plan = q} = ItemsOf(q)
  BY DEF ItemsOf
<1>5. ASSUME NEW v \in Appliers, job'[v].step # "idle"
      PROVE  job'[v].plan \in Plans /\ plan'[job'[v].plan] \notin {None, "draft"} /\ job'[v].saw # "applied"
  BY <1>1, <1>3, <1>5 DEF Started
<1>6. ASSUME NEW v \in Appliers, job'[v].step = "read"
      PROVE  /\ job'[v].items \subseteq {i \in ItemIds : items'[i] # None /\ items'[i].plan = job'[v].plan}
             /\ sealed'[job'[v].plan] \subseteq job'[v].items
  BY <1>1, <1>2, <1>4, <1>6
<1> QED
  BY <1>5, <1>6 DEF Working, ItemsOf, Started

LEMMA CreateKeeps ==
  ASSUME ChangePlansAssumption, PlanIInv, NEW p \in Plans, CreatePlan(p) PROVE PlanIInv'
<1>1. plan[p] = None /\ plan' = [plan EXCEPT ![p] = "draft"]
      /\ UNCHANGED <<items, desired, planMsgs, edit, job, sealed>>
  BY DEF CreatePlan
<1>2. PlanTypeOK'
  BY <1>1 DEF PlanIInv, PlanTypeOK, PlanStatus
<1>3. Rows'
  <2>1. \A q \in Plans : plan[q] # None => plan'[q] # None
    BY <1>1 DEF PlanIInv, PlanTypeOK
  <2> QED
    BY <1>1, <2>1, PlanRowsKept DEF PlanIInv
<1>4. Working'
  <2>1. \A q \in Plans : Started(q) => Started(q)'
    BY <1>1 DEF PlanIInv, PlanTypeOK, Started
  <2>2. \A q \in Plans : ItemsOf(q)' = ItemsOf(q)
    BY <1>1 DEF ItemsOf
  <2> QED
    BY <1>1, <2>1, <2>2 DEF PlanIInv, Working
<1>5. AppliedAreGood'
  BY <1>1 DEF PlanIInv, PlanTypeOK, AppliedAreGood
<1>6. DesiredFromPlans'
  BY <1>1 DEF PlanIInv, PlanTypeOK, Item, Rows, DesiredFromPlans
<1> QED
  BY <1>2, <1>3, <1>4, <1>5, <1>6 DEF PlanIInv

LEMMA PlanReadKeeps ==
  ASSUME ChangePlansAssumption, PlanIInv,
         NEW h \in Editors, NEW p \in Plans, NEW what \in {"add", "ready"}, ReadDraft(h, p, what)
  PROVE  PlanIInv'
<1>1. plan[p] = "draft" /\ edit' = [edit EXCEPT ![h] = [plan |-> p, what |-> what]]
      /\ UNCHANGED <<plan, items, desired, planMsgs, job, sealed>>
  BY DEF ReadDraft
<1>2. \A q \in Plans : ItemsOf(q)' = ItemsOf(q) /\ Started(q)' = Started(q)
  BY <1>1 DEF ItemsOf, Started
<1>3. PlanTypeOK'
  BY <1>1 DEF PlanIInv, PlanTypeOK
<1>4. plan[p] # None
  BY <1>1 DEF ChangePlansAssumption, PlanStatus
<1>5. Rows'
  BY <1>1, <1>2, <1>4 DEF PlanIInv, PlanTypeOK, Rows
<1>6. Working'
  BY <1>1, <1>2 DEF PlanIInv, Working
<1>7. AppliedAreGood' /\ DesiredFromPlans'
  BY <1>1 DEF PlanIInv, AppliedAreGood, DesiredFromPlans
<1> QED
  BY <1>3, <1>5, <1>6, <1>7 DEF PlanIInv

LEMMA AddKeeps ==
  ASSUME ChangePlansAssumption, PlanIInv,
         NEW h \in Editors, NEW s \in Subjects, NEW v \in Effects, AddItem(h, s, v)
  PROVE  PlanIInv'
<1> DEFINE it == [plan |-> edit[h].plan, subject |-> s, value |-> v, status |-> "pending"]
<1>1. edit[h] # None /\ edit' = [edit EXCEPT ![h] = None]
      /\ UNCHANGED <<plan, desired, planMsgs, job, sealed>>
  BY DEF AddItem
<1>2. PICK i \in ItemIds : items[i] = None /\ items' = [items EXCEPT ![i] = it]
  BY DEF AddItem
<1>3. it \in Item /\ edit[h].plan \in Plans
  BY <1>1 DEF PlanIInv, PlanTypeOK, Item
<1>4. PlanTypeOK'
  BY <1>1, <1>2, <1>3 DEF PlanIInv, PlanTypeOK
<1>5. \A j \in ItemIds \ {i} : items'[j] = items[j]
  BY <1>2 DEF PlanIInv, PlanTypeOK
<1>6. items'[i] = it
  BY <1>2 DEF PlanIInv, PlanTypeOK
<1>7. \A q \in Plans : ItemsOf(q) \subseteq ItemsOf(q)' /\ i \notin ItemsOf(q)
  BY <1>2, <1>5 DEF ItemsOf
<1>8. Rows'
  <2>1. \A j \in ItemIds : items'[j] # None => plan'[items'[j].plan] # None
    BY <1>1, <1>5, <1>6 DEF PlanIInv, Rows
  <2>2. \A g \in Editors : edit'[g] # None => plan'[edit'[g].plan] # None
    BY <1>1 DEF PlanIInv, PlanTypeOK, Rows
  <2>3. \A q \in Plans : sealed'[q] \subseteq ItemsOf(q)'
    BY <1>1, <1>7 DEF PlanIInv, Rows
  <2> QED
    BY <2>1, <2>2, <2>3 DEF Rows
<1>9. Working'
  BY <1>1, <1>7 DEF PlanIInv, Working, Started
<1>10. AppliedAreGood'
  <2>1. \A q \in Plans : \A j \in sealed[q] : j \in ItemIds \ {i}
    BY <1>7 DEF PlanIInv, Rows, ItemsOf
  <2> QED
    BY <1>1, <1>5, <2>1 DEF PlanIInv, AppliedAreGood
<1>11. DesiredFromPlans'
  BY <1>1, <1>2, <1>5 DEF PlanIInv, DesiredFromPlans
<1> QED
  BY <1>4, <1>8, <1>9, <1>10, <1>11 DEF PlanIInv

LEMMA ReadyKeeps ==
  ASSUME ChangePlansAssumption, PlanIInv, NEW h \in Editors, MarkReady(h) PROVE PlanIInv'
<1> DEFINE p == edit[h].plan
<1>1. edit[h] # None /\ edit' = [edit EXCEPT ![h] = None] /\ plan' = [plan EXCEPT ![p] = "ready"]
      /\ sealed' = (IF plan[p] = "draft" THEN [sealed EXCEPT ![p] = ItemsOf(p)] ELSE sealed)
      /\ UNCHANGED <<items, desired, planMsgs, job>>
  BY DEF MarkReady
<1>2. p \in Plans
  BY <1>1 DEF PlanIInv, PlanTypeOK
<1>3. plan'[p] = "ready" /\ \A q \in Plans \ {p} : plan'[q] = plan[q]
  BY <1>1, <1>2 DEF PlanIInv, PlanTypeOK
<1>4. \A q \in Plans : ItemsOf(q)' = ItemsOf(q)
  BY <1>1 DEF ItemsOf
<1>5. ItemsOf(p) \subseteq ItemIds
  BY DEF ItemsOf
<1>6. PlanTypeOK'
  BY <1>1, <1>2, <1>5 DEF PlanIInv, PlanTypeOK, PlanStatus
<1>7. "ready" # None /\ "ready" # "draft" /\ "ready" # "applied"
  BY DEF ChangePlansAssumption, PlanStatus
<1>8. \A q \in Plans : (Started(q) => Started(q)') /\ (plan[q] # None => plan'[q] # None)
  BY <1>3, <1>7 DEF Started
<1>9. \A q \in Plans : sealed'[q] = sealed[q] \/ (q = p /\ ~Started(p) /\ sealed'[q] = ItemsOf(p))
  BY <1>1, <1>2 DEF PlanIInv, PlanTypeOK, Started
<1>10. Rows'
  <2>1. \A i \in ItemIds : items'[i] # None => plan'[items'[i].plan] # None
    BY <1>1, <1>8 DEF PlanIInv, Rows, PlanTypeOK, Item
  <2>2. \A g \in Editors : edit'[g] # None => plan'[edit'[g].plan] # None
    BY <1>1, <1>8 DEF PlanIInv, Rows, PlanTypeOK
  <2>3. \A q \in Plans : sealed'[q] \subseteq ItemsOf(q)'
    BY <1>4, <1>9 DEF PlanIInv, Rows
  <2> QED
    BY <2>1, <2>2, <2>3 DEF Rows
<1>11. Working'
  BY <1>1, <1>4, <1>8, <1>9 DEF PlanIInv, Working
<1>12. AppliedAreGood'
  <2>1. \A q \in Plans : plan'[q] = "applied" => q # p /\ sealed'[q] = sealed[q] /\ plan[q] = "applied"
    BY <1>3, <1>7, <1>9
  <2> QED
    BY <1>1, <2>1 DEF PlanIInv, AppliedAreGood
<1>13. DesiredFromPlans'
  BY <1>1, <1>3, <1>7 DEF PlanIInv, DesiredFromPlans, PlanTypeOK, Item
<1> QED
  BY <1>6, <1>10, <1>11, <1>12, <1>13 DEF PlanIInv

LEMMA DropKeeps ==
  ASSUME ChangePlansAssumption, PlanIInv, NEW h \in Editors, DropRequest(h) PROVE PlanIInv'
<1>1. edit' = [edit EXCEPT ![h] = None] /\ UNCHANGED <<plan, items, desired, planMsgs, job, sealed>>
  BY DEF DropRequest
<1>2. \A q \in Plans : ItemsOf(q)' = ItemsOf(q) /\ Started(q)' = Started(q)
  BY <1>1 DEF ItemsOf, Started
<1>3. PlanTypeOK' /\ Rows'
  BY <1>1, <1>2 DEF PlanIInv, PlanTypeOK, Rows
<1>4. Working' /\ AppliedAreGood' /\ DesiredFromPlans'
  BY <1>1, <1>2 DEF PlanIInv, Working, AppliedAreGood, DesiredFromPlans
<1> QED
  BY <1>3, <1>4 DEF PlanIInv

LEMMA ExecuteKeeps ==
  ASSUME ChangePlansAssumption, DeploymentAssumption, PlanIInv, NEW p \in Plans, Execute(p) PROVE PlanIInv'
<1>1. plan[p] = "ready" /\ planMsgs[p] < MaxMsgs /\ planMsgs' = [planMsgs EXCEPT ![p] = @ + 1]
      /\ UNCHANGED <<plan, items, desired, edit, job, sealed>>
  BY DEF Execute
<1>2. \A q \in Plans : ItemsOf(q)' = ItemsOf(q) /\ Started(q)' = Started(q)
  BY <1>1 DEF ItemsOf, Started
<1>3. PlanTypeOK'
  BY <1>1 DEF PlanIInv, PlanTypeOK, DeploymentAssumption
<1>4. Started(p)
  BY <1>1 DEF Started, ChangePlansAssumption, PlanStatus
<1>5. Working'
  BY <1>1, <1>2, <1>4 DEF PlanIInv, Working, PlanTypeOK
<1>6. Rows' /\ AppliedAreGood' /\ DesiredFromPlans'
  BY <1>1, <1>2 DEF PlanIInv, Rows, AppliedAreGood, DesiredFromPlans
<1> QED
  BY <1>3, <1>5, <1>6 DEF PlanIInv

LEMMA FetchKeeps ==
  ASSUME ChangePlansAssumption, DeploymentAssumption, PlanIInv,
         NEW w \in Appliers, NEW p \in Plans, Fetch(w, p)
  PROVE  PlanIInv'
<1> DEFINE j == [NoJob EXCEPT !.plan = p, !.step = "loaded", !.saw = plan[p]]
<1>1. planMsgs[p] > 0 /\ planMsgs' = [planMsgs EXCEPT ![p] = @ - 1]
      /\ UNCHANGED <<plan, items, desired, edit, sealed>>
  BY DEF Fetch
<1>2. job' = job \/ (plan[p] # "applied" /\ job' = [job EXCEPT ![w] = j])
  BY DEF Fetch
<1>3. j \in Job /\ j.plan = p /\ j.step = "loaded" /\ j.saw = plan[p]
  <2>1. plan[p] \in PlanStatus \cup {None}
    BY DEF PlanIInv, PlanTypeOK
  <2> QED
    BY NoJobIsJob, <2>1 DEF Job
<1>4. \A q \in Plans : ItemsOf(q)' = ItemsOf(q) /\ Started(q)' = Started(q)
  BY <1>1 DEF ItemsOf, Started
<1>5. PlanTypeOK'
  <2>1. planMsgs' \in [Plans -> 0..MaxMsgs]
    BY <1>1 DEF PlanIInv, PlanTypeOK, DeploymentAssumption
  <2>2. job' \in [Appliers -> Job]
    BY <1>2, <1>3 DEF PlanIInv, PlanTypeOK
  <2> QED
    BY <1>1, <2>1, <2>2 DEF PlanIInv, PlanTypeOK
<1>6. Started(p)
  BY <1>1 DEF PlanIInv, Working
<1>7. Working'
  <2>1. \A q \in Plans : planMsgs'[q] > 0 => Started(q)'
    BY <1>1, <1>4, <1>6 DEF PlanIInv, Working, PlanTypeOK
  <2>2. CASE job' = job
    BY <1>1, <1>4, <2>1, <2>2 DEF PlanIInv, Working
  <2>3. CASE plan[p] # "applied" /\ job' = [job EXCEPT ![w] = j]
    <3>1. job'[w] = j /\ \A v \in Appliers \ {w} : job'[v] = job[v]
      BY <2>3 DEF PlanIInv, PlanTypeOK
    <3>2. job'[w].plan = p /\ job'[w].step = "loaded" /\ job'[w].saw # "applied"
      BY <1>3, <2>3, <3>1
    <3> QED
      BY <1>1, <1>4, <1>6, <2>1, <3>1, <3>2, Aside
  <2> QED
    BY <1>2, <2>2, <2>3
<1>8. Rows' /\ AppliedAreGood' /\ DesiredFromPlans'
  BY <1>1, <1>4 DEF PlanIInv, Rows, AppliedAreGood, DesiredFromPlans
<1> QED
  BY <1>5, <1>7, <1>8 DEF PlanIInv

LEMMA ReadItemsKeeps ==
  ASSUME ChangePlansAssumption, PlanIInv, NEW w \in Appliers, ReadItems(w) PROVE PlanIInv'
<1> DEFINE p == job[w].plan
<1>1. job[w].step = "loaded"
      /\ job' = [job EXCEPT ![w].step = "read", ![w].items = ItemsOf(p), ![w].old = desired]
      /\ UNCHANGED <<plan, items, desired, planMsgs, edit, sealed>>
  BY DEF ReadItems
<1>2. \A q \in Plans : ItemsOf(q)' = ItemsOf(q) /\ Started(q)' = Started(q)
  BY <1>1 DEF ItemsOf, Started
<1>3. ItemsOf(p) \subseteq ItemIds
  BY DEF ItemsOf
<1>4. job'[w] = [job[w] EXCEPT !.step = "read", !.items = ItemsOf(p), !.old = desired]
      /\ \A v \in Appliers \ {w} : job'[v] = job[v]
  BY <1>1 DEF PlanIInv, PlanTypeOK
<1>5. job'[w].plan = p /\ job'[w].step = "read" /\ job'[w].items = ItemsOf(p) /\ job'[w].saw = job[w].saw
  BY <1>4 DEF PlanIInv, PlanTypeOK
<1>6. PlanTypeOK'
  <2>1. [job[w] EXCEPT !.step = "read", !.items = ItemsOf(p), !.old = desired] \in Job
    <3>1. job[w] \in Job /\ desired \in [Subjects -> Values \cup {None}]
      BY DEF PlanIInv, PlanTypeOK
    <3> QED
      BY <1>3, <3>1 DEF Job
  <2>2. job' \in [Appliers -> Job]
    BY <1>1, <2>1 DEF PlanIInv, PlanTypeOK
  <2> QED
    BY <1>1, <2>2 DEF PlanIInv, PlanTypeOK
<1>7. p \in Plans /\ Started(p) /\ job[w].saw # "applied"
  BY <1>1 DEF PlanIInv, Working
<1>8. sealed[p] \subseteq ItemsOf(p)
  BY <1>7 DEF PlanIInv, Rows
<1>9. Working'
  <2>1. \A q \in Plans : planMsgs'[q] > 0 => Started(q)'
    BY <1>1, <1>2 DEF PlanIInv, Working
  <2>2. job'[w].plan \in Plans /\ Started(job'[w].plan) /\ job'[w].saw # "applied"
    BY <1>5, <1>7
  <2>3. job'[w].items \subseteq ItemsOf(job'[w].plan) /\ sealed[job'[w].plan] \subseteq job'[w].items
    BY <1>5, <1>8
  <2>4. sealed' = sealed
    BY <1>1
  <2> QED
    BY <1>2, <1>4, <2>1, <2>2, <2>3, <2>4, Aside
<1>10. Rows' /\ AppliedAreGood' /\ DesiredFromPlans'
  BY <1>1, <1>2 DEF PlanIInv, Rows, AppliedAreGood, DesiredFromPlans
<1> QED
  BY <1>6, <1>9, <1>10 DEF PlanIInv

LEMMA PlanLoseKeeps ==
  ASSUME ChangePlansAssumption, PlanIInv, NEW w \in Appliers, LoseJob(w) PROVE PlanIInv'
<1>1. job' = [job EXCEPT ![w] = NoJob] /\ UNCHANGED <<plan, items, desired, planMsgs, edit, sealed>>
  BY DEF LoseJob
<1>2. \A q \in Plans : ItemsOf(q)' = ItemsOf(q) /\ Started(q)' = Started(q)
  BY <1>1 DEF ItemsOf, Started
<1>3. job'[w].step = "idle" /\ \A v \in Appliers \ {w} : job'[v] = job[v]
  BY <1>1, NoJobIsJob DEF PlanIInv, PlanTypeOK
<1>4. PlanTypeOK'
  BY <1>1, NoJobIsJob DEF PlanIInv, PlanTypeOK
<1>5. Working'
  BY <1>1, <1>2, <1>3 DEF PlanIInv, Working
<1>6. Rows' /\ AppliedAreGood' /\ DesiredFromPlans'
  BY <1>1, <1>2 DEF PlanIInv, Rows, AppliedAreGood, DesiredFromPlans
<1> QED
  BY <1>4, <1>5, <1>6 DEF PlanIInv

\* The commit of a worker.
LEMMA ApplyKeeps ==
  ASSUME ChangePlansAssumption, PlanIInv, NEW w \in Appliers, Apply(w) PROVE PlanIInv'
<1> DEFINE p == job[w].plan
           I == job[w].items
<1>1. /\ job[w].step = "read"
      /\ desired' \in [Subjects -> Values \cup {None}]
      /\ Written(I, job[w].old, desired')
      /\ items' = [i \in ItemIds |->
           IF i \in I THEN [items[i] EXCEPT !.status = IF Bad(i) THEN "failed" ELSE "applied"]
             ELSE items[i]]
      /\ plan' = IF Outcome(I) = job[w].saw THEN plan ELSE [plan EXCEPT ![p] = Outcome(I)]
      /\ job' = [job EXCEPT ![w] = NoJob]
      /\ UNCHANGED <<planMsgs, edit, sealed>>
  BY DEF Apply
<1>2. p \in Plans /\ Started(p) /\ job[w].saw # "applied" /\ I \subseteq ItemsOf(p) /\ sealed[p] \subseteq I
  BY <1>1 DEF PlanIInv, Working
<1>3. I \subseteq ItemIds /\ \A i \in I : items[i] \in Item /\ items[i].plan = p
  BY <1>2 DEF PlanIInv, PlanTypeOK, ItemsOf
<1>4. \A i \in ItemIds \ I : items'[i] = items[i]
  BY <1>1
<1>5. \A i \in I :
        /\ items'[i] \in Item
        /\ items'[i].plan = p /\ items'[i].subject = items[i].subject /\ items'[i].value = items[i].value
        /\ items'[i].status = IF items[i].value = "bad" THEN "failed" ELSE "applied"
  BY <1>1, <1>3 DEF Item, Bad
<1>6. \A i \in ItemIds : (items'[i] # None <=> items[i] # None)
  BY <1>3, <1>4, <1>5 DEF ChangePlansAssumption
<1>7. \A q \in Plans : ItemsOf(q)' = ItemsOf(q)
  BY <1>3, <1>4, <1>5, <1>6 DEF ItemsOf
<1>8. Outcome(I) \in {"applied", "failed"} /\ (Outcome(I) = "applied" => \A i \in I : items[i].value # "bad")
  BY DEF Outcome, Bad
<1>9. /\ plan'[p] = plan[p] \/ plan'[p] = Outcome(I)
      /\ Outcome(I) = "applied" => plan'[p] = "applied"
      /\ \A q \in Plans \ {p} : plan'[q] = plan[q]
  BY <1>1, <1>2 DEF PlanIInv, PlanTypeOK
<1>10. {"applied", "failed"} \subseteq PlanStatus /\ None \notin {"applied", "failed"}
  BY DEF PlanStatus, ChangePlansAssumption
<1>11. PlanTypeOK'
  <2>1. items' \in [ItemIds -> Item \cup {None}]
    BY <1>1, <1>4, <1>5 DEF PlanIInv, PlanTypeOK
  <2>2. plan' \in [Plans -> PlanStatus \cup {None}]
    BY <1>1, <1>8, <1>10 DEF PlanIInv, PlanTypeOK
  <2>3. job' \in [Appliers -> Job]
    BY <1>1, NoJobIsJob DEF PlanIInv, PlanTypeOK
  <2> QED
    BY <1>1, <2>1, <2>2, <2>3 DEF PlanIInv, PlanTypeOK
<1>12. \A q \in Plans : (Started(q) => Started(q)') /\ (plan[q] # None => plan'[q] # None)
  BY <1>2, <1>8, <1>9, <1>10 DEF Started
<1>13. Rows'
  <2>1. ASSUME NEW i \in ItemIds, items'[i] # None PROVE plan'[items'[i].plan] # None
    <3>1. items[i] # None /\ items'[i].plan = items[i].plan /\ items[i].plan \in Plans
      BY <1>3, <1>4, <1>5, <1>6, <2>1 DEF PlanIInv, PlanTypeOK, Item
    <3> QED
      BY <1>12, <3>1 DEF PlanIInv, Rows
  <2>2. \A h \in Editors : edit'[h] # None => plan'[edit'[h].plan] # None
    BY <1>1, <1>12 DEF PlanIInv, Rows, PlanTypeOK
  <2>3. \A q \in Plans : sealed'[q] \subseteq ItemsOf(q)'
    BY <1>1, <1>7 DEF PlanIInv, Rows
  <2> QED
    BY <2>1, <2>2, <2>3 DEF Rows
<1>14. Working'
  <2>1. \A q \in Plans : planMsgs'[q] > 0 => Started(q)'
    BY <1>1, <1>12 DEF PlanIInv, Working
  <2>2. job'[w].step = "idle" /\ \A v \in Appliers \ {w} : job'[v] = job[v]
    BY <1>1, NoJobIsJob DEF PlanIInv, PlanTypeOK
  <2>3. sealed' = sealed
    BY <1>1
  <2> QED
    BY <1>7, <1>12, <2>1, <2>2, <2>3, Aside
<1>15. AppliedAreGood'
  <2> SUFFICES ASSUME NEW q \in Plans, plan'[q] = "applied", NEW i \in sealed[q]
               PROVE  items'[i].status = "applied" /\ items'[i].value # "bad"
    BY <1>1 DEF AppliedAreGood
  <2>1. i \in ItemIds /\ items[i] # None /\ items[i].plan = q
    BY DEF PlanIInv, Rows, ItemsOf
  <2>2. CASE plan[q] = "applied"
    <3>1. items[i].status = "applied" /\ items[i].value # "bad"
      BY <2>2 DEF PlanIInv, AppliedAreGood
    <3> QED
      BY <1>4, <1>5, <2>1, <3>1
  <2>3. CASE plan[q] # "applied"
    <3>1. q = p /\ Outcome(I) = "applied"
      BY <1>8, <1>9, <2>3
    <3>2. i \in I /\ items[i].value # "bad"
      BY <1>2, <1>8, <3>1
    <3> QED
      BY <1>5, <3>2
  <2> QED
    BY <2>2, <2>3
<1>16. DesiredFromPlans'
  <2> SUFFICES ASSUME NEW s \in Subjects, desired'[s] # None
               PROVE  \E i \in ItemIds :
                        /\ items'[i] # None
                        /\ items'[i].subject = s /\ items'[i].value = desired'[s] /\ items'[i].status = "applied"
                        /\ plan'[items'[i].plan] # "draft"
    BY DEF DesiredFromPlans
  <2>1. desired'[s] = desired[s] \/ desired'[s] \in SetBy(I, s)
    BY <1>1 DEF Written
  <2>2. CASE desired'[s] = desired[s]
    <3>1. PICK i \in ItemIds :
            /\ items[i] # None
            /\ items[i].subject = s /\ items[i].value = desired[s] /\ items[i].status = "applied"
            /\ plan[items[i].plan] # "draft"
      BY <2>2 DEF PlanIInv, DesiredFromPlans
    <3>2. desired[s] \in Values /\ desired[s] # "bad"
      BY <2>2 DEF PlanIInv, PlanTypeOK, ChangePlansAssumption
    <3>3. items[i].plan \in Plans /\ plan[items[i].plan] # None
      BY <3>1 DEF PlanIInv, PlanTypeOK, Item, Rows
    <3>4. plan'[items[i].plan] # "draft"
      BY <1>12, <3>1, <3>3 DEF Started
    <3>5. items'[i] # None /\ items'[i].subject = s /\ items'[i].value = desired[s]
          /\ items'[i].status = "applied" /\ items'[i].plan = items[i].plan
      BY <1>3, <1>4, <1>5, <1>6, <3>1, <3>2
    <3> QED
      BY <2>2, <3>4, <3>5
  <2>3. CASE desired'[s] \in SetBy(I, s)
    <3>1. PICK i \in I : items[i].subject = s /\ items[i].value \in Values /\ desired'[s] = items[i].value
      BY <2>3 DEF SetBy
    <3>2. items[i].value # "bad"
      BY <3>1 DEF ChangePlansAssumption
    <3>3. i \in ItemIds /\ items'[i] # None /\ items'[i].subject = s /\ items'[i].value = desired'[s]
          /\ items'[i].status = "applied" /\ items'[i].plan = p
      BY <1>2, <1>3, <1>5, <1>6, <3>1, <3>2 DEF ItemsOf
    <3>4. plan'[p] # "draft"
      BY <1>2, <1>12 DEF Started
    <3> QED
      BY <3>3, <3>4
  <2> QED
    BY <2>1, <2>2, <2>3
<1> QED
  BY <1>11, <1>13, <1>14, <1>15, <1>16 DEF PlanIInv

-----------------------------------------------------------------------------
\* The strengthened invariant holds in every reachable state.
THEOREM PlansInductive == PlanSpec => []PlanIInv
<1>1. PlansInit => PlanIInv
  BY PlansInitially, ChangePlansAssumption, DeploymentAssumption
<1>2. PlanIInv /\ [PlanNext]_planVars => PlanIInv'
  <2> SUFFICES ASSUME PlanIInv, [PlanNext]_planVars PROVE PlanIInv'
    OBVIOUS
  <2> USE ChangePlansAssumption, DeploymentAssumption
  <2>1. CASE PlanStep
    <3>1. CASE \E p \in Plans : CreatePlan(p) \/ Execute(p)
      BY <3>1, CreateKeeps, ExecuteKeeps
    <3>2. ASSUME NEW h \in Editors, \E p \in Plans, what \in {"add", "ready"} : ReadDraft(h, p, what)
          PROVE  PlanIInv'
      BY <3>2, PlanReadKeeps
    <3>3. ASSUME NEW h \in Editors, \E s \in Subjects, v \in Effects : AddItem(h, s, v) PROVE PlanIInv'
      BY <3>3, AddKeeps
    <3>4. ASSUME NEW h \in Editors, MarkReady(h) \/ DropRequest(h) PROVE PlanIInv'
      BY <3>4, ReadyKeeps, DropKeeps
    <3>5. ASSUME NEW w \in Appliers, \E p \in Plans : Fetch(w, p) PROVE PlanIInv'
      BY <3>5, FetchKeeps
    <3>6. ASSUME NEW w \in Appliers, PlanWork(w) PROVE PlanIInv'
      BY <3>6, ReadItemsKeeps, ApplyKeeps DEF PlanWork
    <3> QED
      BY <2>1, <3>1, <3>2, <3>3, <3>4, <3>5, <3>6 DEF PlanStep
  <2>2. CASE PlanFault
    BY <2>2, PlanLoseKeeps DEF PlanFault
  <2>3. CASE UNCHANGED planVars
    <3>1. \A q \in Plans : ItemsOf(q)' = ItemsOf(q) /\ Started(q)' = Started(q)
      BY <2>3 DEF planVars, ItemsOf, Started
    <3>2. PlanTypeOK' /\ Rows' /\ AppliedAreGood' /\ DesiredFromPlans'
      BY <2>3, <3>1 DEF PlanIInv, planVars, PlanTypeOK, Rows, AppliedAreGood, DesiredFromPlans
    <3>3. Working'
      BY <2>3, <3>1 DEF PlanIInv, planVars, Working, ItemsOf, Started
    <3> QED
      BY <3>2, <3>3 DEF PlanIInv
  <2> QED
    BY <2>1, <2>2, <2>3 DEF PlanNext
<1> QED
  BY <1>1, <1>2, PTL DEF PlanSpec

\* Plans, items, requests and workers keep their types.
THEOREM PlansTypeCorrect == PlanSpec => []PlanTypeOK
<1>1. PlanIInv => PlanTypeOK
  BY DEF PlanIInv
<1> QED
  BY <1>1, PlansInductive, PTL

\* A plan reported as applied had every item it was sealed with applied, for
\* any number of workers, repeated executions and late requests
\* (apply_change_plan).
THEOREM AppliedAreWhole == PlanSpec => []AppliedPlansAreWhole
<1>1. PlanIInv => AppliedPlansAreWhole
  BY DEF PlanIInv, AppliedAreGood, AppliedPlansAreWhole
<1> QED
  BY <1>1, PlansInductive, PTL

\* Every value the catalogue asks for is that of an applied item of a plan
\* that someone made ready.
THEOREM DesiredIsPlanned == PlanSpec => []DesiredFromPlans
<1>1. PlanIInv => DesiredFromPlans
  BY DEF PlanIInv
<1> QED
  BY <1>1, PlansInductive, PTL

-----------------------------------------------------------------------------
(***************************************************************************)
(* What the autopilot guarantees for any number of organizations, runs and  *)
(* processes.  The inductive invariant ties a process to its own run, says  *)
(* that two running runs of an organization have crossed, and what of the   *)
(* recommendations a run computed has been taken up at each of its steps.  *)
(***************************************************************************)
\* A process that has created its run and not ended it.
Active(p) == proc[p].step \in {"compute", "read", "finish"}

\* Processes, runs and drafts refer to each other.
Linked ==
  /\ \A e \in drafts : runs[e[1]] # None
  /\ \A p \in Procs : proc[p].step # "idle" => proc[p].org \in Orgs
  /\ \A p \in Procs : Active(p) =>
       /\ proc[p].run \in RunIds
       /\ runs[proc[p].run] # None
       /\ runs[proc[p].run].org = proc[p].org
       /\ runs[proc[p].run].status = "running"
  /\ \A p, q \in Procs : Active(p) /\ Active(q) /\ proc[p].run = proc[q].run => p = q

\* Two runs that are running at once have crossed.
Crossed ==
  \A r, u \in RunIds :
    runs[r] # None /\ runs[u] # None /\ r # u /\ runs[r].org = runs[u].org
      /\ runs[r].status = "running" /\ runs[u].status = "running" => runs[r].org \in crossed

\* What a run computed is there, then about to be drafted unless it is, and
\* is drafted for the first time unless runs crossed.
TakenUp ==
  \A p \in Procs :
    /\ proc[p].step = "read" => \A x \in found[proc[p].run] : recos[proc[p].org][x] # "none"
    /\ proc[p].step = "finish" =>
         /\ \A x \in found[proc[p].run] : x \in proc[p].todo \/ HasDraft(proc[p].org, x)
         /\ proc[p].org \notin crossed => \A x \in proc[p].todo : ~HasDraft(proc[p].org, x)

Core == Linked /\ Crossed /\ TakenUp /\ OneDraftEach /\ SuccessIsDrafted

AutoIInv == AutoTypeOK /\ Core

-----------------------------------------------------------------------------
\* Settings, messages, the scheduler and more recommendations disturb no run.
LEMMA Quiet ==
  ASSUME AutoTypeOK, Core, UNCHANGED <<runs, drafts, proc, crossed, found>>,
         \A o \in Orgs : \A x \in Recos : recos[o][x] # "none" => recos'[o][x] # "none"
  PROVE  Core'
<1>1. \A o, x : HasDraft(o, x)' = HasDraft(o, x)
  BY DEF HasDraft
<1>2. \A p \in Procs : Active(p)' = Active(p)
  BY DEF Active
<1>3. Linked' /\ Crossed' /\ OneDraftEach'
  BY <1>2 DEF Core, Linked, Crossed, OneDraftEach
<1>4. SuccessIsDrafted'
  BY <1>1 DEF Core, SuccessIsDrafted
<1>5. TakenUp'
  <2>1. \A p \in Procs : proc[p].step = "read" => proc[p].org \in Orgs /\ found[proc[p].run] \subseteq Recos
    BY DEF AutoTypeOK, Core, Linked, Active
  <2> QED
    BY <1>1, <2>1 DEF Core, TakenUp
<1> QED
  BY <1>3, <1>4, <1>5 DEF Core

\* _upsert_reco removes no recommendation.
LEMMA UpsertedType ==
  ASSUME AutoTypeOK, NEW o \in Orgs, NEW X \in SUBSET Recos, recos' = Upserted(o, X)
  PROVE  /\ recos' \in [Orgs -> [Recos -> {"none", "open", "resolved"}]]
         /\ \A u \in Orgs : \A x \in Recos : recos[u][x] # "none" => recos'[u][x] # "none"
         /\ \A x \in X : recos'[o][x] # "none"
<1> DEFINE f == [x \in Recos |-> IF x \in X /\ recos[o][x] = "none" THEN "open" ELSE recos[o][x]]
<1>1. recos' = [recos EXCEPT ![o] = f]
  BY DEF Upserted, AutoTypeOK
<1>2. f \in [Recos -> {"none", "open", "resolved"}]
  BY DEF AutoTypeOK
<1>3. recos'[o] = f /\ \A u \in Orgs \ {o} : recos'[u] = recos[u]
  BY <1>1 DEF AutoTypeOK
<1>4. recos' \in [Orgs -> [Recos -> {"none", "open", "resolved"}]]
  BY <1>1, <1>2 DEF AutoTypeOK
<1>5. \A x \in Recos : (recos[o][x] # "none" => f[x] # "none") /\ (x \in X => f[x] # "none")
  OBVIOUS
<1> QED
  BY <1>3, <1>4, <1>5

LEMMA NoRunIsProc == NoRun \in Proc /\ NoRun.step = "idle"
  BY DEF NoRun, Proc

LEMMA AutoInitially == AutopilotAssumption /\ DeploymentAssumption /\ AutoInit => AutoIInv
<1> SUFFICES ASSUME AutopilotAssumption, DeploymentAssumption, AutoInit PROVE AutoIInv
  OBVIOUS
<1>1. AutoTypeOK
  BY NoRunIsProc DEF AutoInit, AutoTypeOK, DeploymentAssumption, NoScan
<1>2. \A p \in Procs : proc[p].step = "idle"
  BY NoRunIsProc DEF AutoInit
<1>3. Core
  BY <1>2 DEF AutoInit, Core, Linked, Active, Crossed, TakenUp, OneDraftEach, SuccessIsDrafted
<1> QED
  BY <1>1, <1>3 DEF AutoIInv

-----------------------------------------------------------------------------
(* A process that is not active, or stops being, disturbs nothing *)

LEMMA Stepping ==
  ASSUME AutoTypeOK, Core, NEW p \in Procs, NEW q \in Proc, q.step \in {"idle", "create"},
         q.step = "create" => q.org \in Orgs,
         proc' = [proc EXCEPT ![p] = q], UNCHANGED <<runs, recos, drafts, crossed, found>>
  PROVE  Core'
<1>1. \A o, x : HasDraft(o, x)' = HasDraft(o, x)
  BY DEF HasDraft
<1>2. proc'[p] = q /\ \A v \in Procs \ {p} : proc'[v] = proc[v]
  BY DEF AutoTypeOK
<1>3. ~Active(p)' /\ \A v \in Procs \ {p} : Active(v)' = Active(v)
  BY <1>2 DEF Active
<1>4. Linked'
  BY <1>2, <1>3 DEF Core, Linked
<1>5. Crossed' /\ OneDraftEach'
  BY DEF Core, Crossed, OneDraftEach
<1>6. SuccessIsDrafted'
  BY <1>1 DEF Core, SuccessIsDrafted
<1>7. TakenUp'
  BY <1>1, <1>2 DEF Core, TakenUp
<1> QED
  BY <1>4, <1>5, <1>6, <1>7 DEF Core

LEMMA BeginKeeps ==
  ASSUME AutopilotAssumption, AutoIInv, NEW p \in Procs, NEW o \in Orgs, Begin(p, o),
         UNCHANGED <<settings, runs, recos, drafts, scan, crossed, found>>,
         autoMsgs' \in [Orgs -> 0..MaxMsgs]
  PROVE  AutoIInv'
<1> DEFINE q == [NoRun EXCEPT !.org = o, !.step = "create"]
<1>1. proc' = proc \/ proc' = [proc EXCEPT ![p] = q]
  BY DEF Begin
<1>2. q \in Proc /\ q.step = "create" /\ q.org = o
  BY DEF NoRun, Proc
<1>3. proc' \in [Procs -> Proc]
  BY <1>1, <1>2 DEF AutoIInv, AutoTypeOK
<1>4. AutoTypeOK'
  BY <1>3 DEF AutoIInv, AutoTypeOK
<1>5. CASE proc' = proc
  BY <1>4, <1>5, Quiet DEF AutoIInv
<1>6. CASE proc' = [proc EXCEPT ![p] = q]
  BY <1>2, <1>4, <1>6, Stepping DEF AutoIInv
<1> QED
  BY <1>1, <1>5, <1>6

LEMMA AutoLoseKeeps ==
  ASSUME AutopilotAssumption, AutoIInv, NEW p \in Procs, LoseRun(p) PROVE AutoIInv'
<1>1. proc' = [proc EXCEPT ![p] = NoRun]
      /\ UNCHANGED <<settings, runs, recos, drafts, autoMsgs, scan, crossed, found>>
  BY DEF LoseRun
<1>2. AutoTypeOK'
  BY <1>1, NoRunIsProc DEF AutoIInv, AutoTypeOK
<1>3. Core'
  BY <1>1, NoRunIsProc, Stepping DEF AutoIInv
<1> QED
  BY <1>2, <1>3 DEF AutoIInv

-----------------------------------------------------------------------------
(* The steps of a run *)

\* A run goes on to its next step, and has taken up what that asks for.
LEMMA Moves ==
  ASSUME AutoTypeOK, Core, NEW p \in Procs, Active(p),
         runs' = runs, drafts' = drafts, crossed' = crossed,
         \A v \in Procs \ {p} : proc'[v] = proc[v],
         proc'[p].step \in {"read", "finish"}, proc'[p].run = proc[p].run, proc'[p].org = proc[p].org,
         \A o \in Orgs : \A x \in Recos : recos[o][x] # "none" => recos'[o][x] # "none",
         \A u \in RunIds \ {proc[p].run} : found'[u] = found[u],
         proc'[p].step = "read" => \A x \in found'[proc[p].run] : recos'[proc[p].org][x] # "none",
         proc'[p].step = "finish" =>
           /\ \A x \in found'[proc[p].run] : x \in proc'[p].todo \/ HasDraft(proc[p].org, x)
           /\ proc[p].org \notin crossed => \A x \in proc'[p].todo : ~HasDraft(proc[p].org, x)
  PROVE  Core'
<1>1. \A v \in Procs : Active(v)' = Active(v) /\ proc'[v].run = proc[v].run /\ proc'[v].org = proc[v].org
        /\ (proc'[v].step = "idle" <=> proc[v].step = "idle")
  BY DEF Active
<1>2. Linked'
  BY <1>1 DEF Core, Linked
<1>3. Crossed' /\ OneDraftEach'
  BY DEF Core, Crossed, OneDraftEach
<1>4. runs[proc[p].run].status = "running" /\ proc[p].run \in RunIds
  BY DEF Core, Linked
<1>5. SuccessIsDrafted'
  <2>1. \A u \in RunIds : runs[u] # None /\ runs[u].status = "success" => found'[u] = found[u]
    BY <1>4
  <2> QED
    BY <2>1 DEF Core, SuccessIsDrafted, HasDraft
<1>6. ASSUME NEW v \in Procs, v # p, Active(v)
      PROVE  /\ found'[proc'[v].run] = found[proc[v].run] /\ found[proc[v].run] \subseteq Recos
             /\ proc'[v] = proc[v] /\ proc[v].org \in Orgs
  <2>1. proc[v].run \in RunIds /\ proc[v].run # proc[p].run /\ proc[v].org \in Orgs
    BY <1>6 DEF Core, Linked, Active
  <2> QED
    BY <1>6, <2>1 DEF AutoTypeOK
<1>7. ASSUME NEW v \in Procs, proc'[v].step = "read"
      PROVE  \A x \in found'[proc'[v].run] : recos'[proc'[v].org][x] # "none"
  <2>1. CASE v = p
    BY <1>7, <2>1
  <2>2. CASE v # p
    <3>1. proc[v].step = "read" /\ Active(v)
      BY <1>7, <2>2 DEF Active
    <3> QED
      BY <1>6, <2>2, <3>1 DEF Core, TakenUp
  <2> QED
    BY <2>1, <2>2
<1>8. ASSUME NEW v \in Procs, proc'[v].step = "finish"
      PROVE  /\ \A x \in found'[proc'[v].run] : x \in proc'[v].todo \/ HasDraft(proc'[v].org, x)
             /\ proc'[v].org \notin crossed => \A x \in proc'[v].todo : ~HasDraft(proc'[v].org, x)
  <2>1. CASE v = p
    BY <1>8, <2>1
  <2>2. CASE v # p
    <3>1. proc[v].step = "finish" /\ Active(v)
      BY <1>8, <2>2 DEF Active
    <3> QED
      BY <1>6, <2>2, <3>1 DEF Core, TakenUp
  <2> QED
    BY <2>1, <2>2
<1>9. TakenUp'
  BY <1>7, <1>8 DEF TakenUp, HasDraft
<1> QED
  BY <1>2, <1>3, <1>5, <1>9 DEF Core

LEMMA CreateRunKeeps ==
  ASSUME AutopilotAssumption, AutoIInv, NEW p \in Procs, CreateRun(p) PROVE AutoIInv'
<1> DEFINE o == proc[p].org
<1>1. proc[p].step = "create" /\ o \in Orgs
      /\ crossed' = (IF RunningOf(o) = {} THEN crossed ELSE crossed \cup {o})
      /\ UNCHANGED <<settings, recos, drafts, autoMsgs, scan, found>>
  BY DEF CreateRun, AutoIInv, Core, Linked
<1>2. PICK r \in RunIds :
        /\ runs[r] = None
        /\ runs' = [runs EXCEPT ![r] = [org |-> o, status |-> "running"]]
        /\ proc' = [proc EXCEPT ![p].step = "compute", ![p].run = r]
  BY DEF CreateRun
<1>3. runs'[r] = [org |-> o, status |-> "running"] /\ runs'[r] # None
      /\ \A u \in RunIds \ {r} : runs'[u] = runs[u]
  <2>1. [org |-> o, status |-> "running"] \in Run
    BY <1>1 DEF Run
  <2> QED
    BY <1>2, <2>1 DEF AutoIInv, AutoTypeOK, AutopilotAssumption
<1>4. proc'[p] = [proc[p] EXCEPT !.step = "compute", !.run = r]
      /\ \A v \in Procs \ {p} : proc'[v] = proc[v]
  BY <1>2 DEF AutoIInv, AutoTypeOK
<1>5. proc'[p] \in Proc /\ proc'[p].step = "compute" /\ proc'[p].run = r /\ proc'[p].org = o
  <2>1. proc[p] \in Proc
    BY DEF AutoIInv, AutoTypeOK
  <2> QED
    BY <1>4, <2>1 DEF Proc
<1>6. AutoTypeOK'
  <2>1. runs' \in [RunIds -> Run \cup {None}]
    BY <1>1, <1>2 DEF AutoIInv, AutoTypeOK, Run
  <2>2. proc' \in [Procs -> Proc]
    BY <1>2, <1>4, <1>5 DEF AutoIInv, AutoTypeOK
  <2> QED
    BY <1>1, <2>1, <2>2 DEF AutoIInv, AutoTypeOK
<1>7. \A u \in Orgs : \A x : HasDraft(u, x)' = HasDraft(u, x)
  <2>1. \A e \in drafts : runs'[e[1]] = runs[e[1]]
    BY <1>2, <1>3 DEF AutoIInv, AutoTypeOK, Core, Linked
  <2> QED
    BY <1>1, <2>1 DEF HasDraft
<1>8. ~Active(p) /\ Active(p)' /\ \A v \in Procs \ {p} : Active(v)' = Active(v)
  BY <1>1, <1>4, <1>5 DEF Active
<1>9. \A v \in Procs \ {p} : Active(v) => proc[v].run # r /\ runs'[proc[v].run] = runs[proc[v].run]
  BY <1>2, <1>3 DEF AutoIInv, Core, Linked
<1>10. Linked'
  <2>1. \A e \in drafts' : runs'[e[1]] # None
    BY <1>1, <1>2, <1>3 DEF AutoIInv, AutoTypeOK, Core, Linked
  <2>2. \A v \in Procs : proc'[v].step # "idle" => proc'[v].org \in Orgs
    BY <1>1, <1>4, <1>5 DEF AutoIInv, Core, Linked
  <2>3. \A v \in Procs : Active(v)' =>
         /\ proc'[v].run \in RunIds
         /\ runs'[proc'[v].run] # None
         /\ runs'[proc'[v].run].org = proc'[v].org
         /\ runs'[proc'[v].run].status = "running"
    <3> SUFFICES ASSUME NEW v \in Procs, Active(v)'
                 PROVE  /\ proc'[v].run \in RunIds
                        /\ runs'[proc'[v].run] # None
                        /\ runs'[proc'[v].run].org = proc'[v].org
                        /\ runs'[proc'[v].run].status = "running"
      OBVIOUS
    <3>1. CASE v = p
      BY <1>3, <1>5, <3>1
    <3>2. CASE v # p
      BY <1>4, <1>8, <1>9, <3>2 DEF AutoIInv, Core, Linked
    <3> QED
      BY <3>1, <3>2
  <2>4. \A v, q \in Procs : Active(v)' /\ Active(q)' /\ proc'[v].run = proc'[q].run => v = q
    <3>1. \A v \in Procs \ {p} : Active(v)' => Active(v) /\ proc'[v].run = proc[v].run /\ proc[v].run # r
      BY <1>4, <1>8, <1>9
    <3> QED
      BY <1>5, <3>1 DEF AutoIInv, Core, Linked
  <2> QED
    BY <2>1, <2>2, <2>3, <2>4 DEF Linked
<1>11. Crossed'
  <2> SUFFICES ASSUME NEW a \in RunIds, NEW b \in RunIds, a # b,
                      runs'[a] # None, runs'[b] # None, runs'[a].org = runs'[b].org,
                      runs'[a].status = "running", runs'[b].status = "running"
               PROVE  runs'[a].org \in crossed'
    BY DEF Crossed
  <2>1. CASE a # r /\ b # r
    BY <1>1, <1>3, <2>1 DEF AutoIInv, Core, Crossed
  <2>2. CASE a = r
    <3>1. b \in RunningOf(o)
      BY <1>3, <2>2 DEF RunningOf
    <3> QED
      BY <1>1, <1>3, <2>2, <3>1
  <2>3. CASE b = r
    <3>1. a \in RunningOf(o)
      BY <1>3, <2>3 DEF RunningOf
    <3> QED
      BY <1>1, <1>3, <2>3, <3>1
  <2> QED
    BY <2>1, <2>2, <2>3
<1>12. TakenUp'
  <2>1. crossed \subseteq crossed'
    BY <1>1
  <2>2. \A e \in drafts : runs'[e[1]] = runs[e[1]]
    BY <1>2, <1>3 DEF AutoIInv, AutoTypeOK, Core, Linked
  <2>3. \A v \in Procs : proc'[v].step \in {"read", "finish"} => v # p /\ proc'[v] = proc[v]
    BY <1>4, <1>5
  <2>4. ASSUME NEW v \in Procs, proc'[v].step = "finish"
        PROVE  /\ \A x \in found[proc'[v].run] : x \in proc'[v].todo \/ HasDraft(proc'[v].org, x)
               /\ proc'[v].org \notin crossed => \A x \in proc'[v].todo : ~HasDraft(proc'[v].org, x)
    BY <2>3, <2>4 DEF AutoIInv, Core, TakenUp
  <2>5. ASSUME NEW v \in Procs, proc'[v].step = "read"
        PROVE  \A x \in found[proc'[v].run] : recos[proc'[v].org][x] # "none"
    BY <2>3, <2>5 DEF AutoIInv, Core, TakenUp
  <2>6. drafts' = drafts /\ found' = found /\ recos' = recos
    BY <1>1
  <2> QED
    BY <2>1, <2>2, <2>4, <2>5, <2>6 DEF TakenUp, HasDraft
<1>13. OneDraftEach'
  <2>1. \A e \in drafts : runs'[e[1]] = runs[e[1]]
    BY <1>2, <1>3 DEF AutoIInv, AutoTypeOK, Core, Linked
  <2> QED
    BY <1>1, <2>1 DEF AutoIInv, Core, OneDraftEach
<1>14. SuccessIsDrafted'
  BY <1>1, <1>3, <1>7 DEF AutoIInv, AutoTypeOK, Run, Core, SuccessIsDrafted
<1> QED
  BY <1>6, <1>10, <1>11, <1>12, <1>13, <1>14 DEF AutoIInv, Core

LEMMA ComputeKeeps ==
  ASSUME AutopilotAssumption, AutoIInv,
         NEW p \in Procs, NEW P \in SUBSET Problems, NEW d \in Windows, Compute(p, P, d)
  PROVE  AutoIInv'
<1> DEFINE X == P \X {d}
           o == proc[p].org
           r == proc[p].run
<1>1. proc[p].step = "compute" /\ recos' = Upserted(o, X) /\ proc' = [proc EXCEPT ![p].step = "read"]
      /\ found' = [found EXCEPT ![r] = X] /\ UNCHANGED <<settings, runs, drafts, autoMsgs, scan, crossed>>
  BY DEF Compute
<1>2. Active(p) /\ o \in Orgs /\ r \in RunIds /\ runs[r] # None /\ runs[r].status = "running" /\ X \subseteq Recos
  BY <1>1 DEF Active, AutoIInv, Core, Linked, Recos
<1>3. /\ recos' \in [Orgs -> [Recos -> {"none", "open", "resolved"}]]
      /\ \A u \in Orgs : \A x \in Recos : recos[u][x] # "none" => recos'[u][x] # "none"
      /\ \A x \in X : recos'[o][x] # "none"
  BY <1>1, <1>2, UpsertedType DEF AutoIInv
<1>4. proc'[p] = [proc[p] EXCEPT !.step = "read"] /\ \A v \in Procs \ {p} : proc'[v] = proc[v]
  BY <1>1 DEF AutoIInv, AutoTypeOK
<1>5. proc'[p] \in Proc /\ proc'[p].step = "read" /\ proc'[p].run = r /\ proc'[p].org = o
  <2>1. proc[p] \in Proc
    BY DEF AutoIInv, AutoTypeOK
  <2> QED
    BY <1>4, <2>1 DEF Proc
<1>6. found'[r] = X /\ \A u \in RunIds \ {r} : found'[u] = found[u]
  BY <1>1, <1>2 DEF AutoIInv, AutoTypeOK
<1>7. AutoTypeOK'
  <2>1. found' \in [RunIds -> SUBSET Recos]
    BY <1>1, <1>2 DEF AutoIInv, AutoTypeOK
  <2>2. proc' \in [Procs -> Proc]
    BY <1>1, <1>4, <1>5 DEF AutoIInv, AutoTypeOK
  <2> QED
    BY <1>1, <1>3, <2>1, <2>2 DEF AutoIInv, AutoTypeOK
<1>8. Core'
  BY <1>1, <1>2, <1>3, <1>4, <1>5, <1>6, Moves DEF AutoIInv
<1> QED
  BY <1>7, <1>8 DEF AutoIInv

LEMMA ReadRecosKeeps ==
  ASSUME AutopilotAssumption, AutoIInv, NEW p \in Procs, ReadRecos(p) PROVE AutoIInv'
<1> DEFINE o == proc[p].org
<1>1. proc[p].step = "read"
      /\ proc' = [proc EXCEPT ![p].step = "finish", ![p].todo = WithoutDraft(o)]
      /\ UNCHANGED <<settings, runs, recos, drafts, autoMsgs, scan, crossed, found>>
  BY DEF ReadRecos
<1>2. WithoutDraft(o) \subseteq Recos
  BY DEF WithoutDraft
<1>3. proc'[p] = [proc[p] EXCEPT !.step = "finish", !.todo = WithoutDraft(o)]
      /\ \A v \in Procs \ {p} : proc'[v] = proc[v]
  BY <1>1 DEF AutoIInv, AutoTypeOK
<1>4. proc'[p] \in Proc /\ proc'[p].step = "finish" /\ proc'[p].run = proc[p].run /\ proc'[p].org = o
      /\ proc'[p].todo = WithoutDraft(o)
  <2>1. proc[p] \in Proc
    BY DEF AutoIInv, AutoTypeOK
  <2> QED
    BY <1>2, <1>3, <2>1 DEF Proc
<1>5. AutoTypeOK'
  <2>1. proc' \in [Procs -> Proc]
    BY <1>1, <1>3, <1>4 DEF AutoIInv, AutoTypeOK
  <2> QED
    BY <1>1, <2>1 DEF AutoIInv, AutoTypeOK
<1>6. Active(p) /\ \A x \in found[proc[p].run] : x \in Recos /\ recos[o][x] # "none"
  BY <1>1 DEF AutoIInv, AutoTypeOK, Core, Linked, Active, TakenUp
<1>7. /\ \A x \in found[proc[p].run] : x \in WithoutDraft(o) \/ HasDraft(o, x)
      /\ \A x \in WithoutDraft(o) : ~HasDraft(o, x)
  BY <1>6 DEF WithoutDraft
<1>8. runs' = runs /\ drafts' = drafts /\ crossed' = crossed /\ recos' = recos /\ found' = found
  BY <1>1
<1>9. Core'
  BY <1>3, <1>4, <1>6, <1>7, <1>8, Moves DEF AutoIInv
<1> QED
  BY <1>5, <1>9 DEF AutoIInv

-----------------------------------------------------------------------------
(* The end of a run *)

\* A run that ends leaves its drafts, which are all of todo if it succeeds.
LEMMA Ending ==
  ASSUME AutoTypeOK, Core, NEW p \in Procs, Active(p), NEW D \in SUBSET Recos,
         D = {} \/ (proc[p].step = "finish" /\ D = proc[p].todo),
         drafts' = drafts \cup ({proc[p].run} \X D), crossed' = crossed, found' = found,
         runs'[proc[p].run] # None, runs'[proc[p].run].org = proc[p].org,
         runs'[proc[p].run].status # "running",
         runs'[proc[p].run].status = "success" => proc[p].step = "finish" /\ D = proc[p].todo,
         \A u \in RunIds \ {proc[p].run} : runs'[u] = runs[u],
         proc'[p] = NoRun, \A v \in Procs \ {p} : proc'[v] = proc[v],
         \A o \in Orgs : \A x \in Recos : recos[o][x] # "none" => recos'[o][x] # "none"
  PROVE  Core'
<1> DEFINE o == proc[p].org
           r == proc[p].run
<1>1. r \in RunIds /\ o \in Orgs /\ runs[r] # None /\ runs[r].org = o /\ runs[r].status = "running"
  BY DEF Core, Linked, Active
<1>2. \A u \in RunIds : (runs[u] # None => runs'[u] # None /\ runs'[u].org = runs[u].org)
        /\ (u # r => runs'[u] = runs[u])
  BY <1>1
<1>3. \A e \in drafts : e[1] \in RunIds /\ e[2] \in Recos /\ e = <<e[1], e[2]>>
        /\ runs[e[1]] # None /\ runs'[e[1]].org = runs[e[1]].org
  BY <1>2 DEF AutoTypeOK, Core, Linked
<1>4. \A e \in drafts' : e \in drafts \/ (e[1] = r /\ e[2] \in D /\ runs'[e[1]].org = o /\ e = <<r, e[2]>>)
  OBVIOUS
<1>5. \A u, x : HasDraft(u, x) => \E e \in drafts' : runs'[e[1]].org = u /\ e[2] = x
  BY <1>3 DEF HasDraft
<1>6. \A u, x : (\E e \in drafts' : runs'[e[1]].org = u /\ e[2] = x) => HasDraft(u, x) \/ u = o
  BY <1>3, <1>4 DEF HasDraft
<1>7. \A v \in Procs : Active(v)' => v # p /\ Active(v) /\ proc'[v] = proc[v] /\ proc[v].run # r
  BY NoRunIsProc DEF Active, Core, Linked
<1>8. Linked'
  <2>1. \A e \in drafts' : runs'[e[1]] # None
    BY <1>1, <1>2, <1>3, <1>4
  <2>2. \A v \in Procs : proc'[v].step # "idle" => proc'[v].org \in Orgs
    BY NoRunIsProc DEF Core, Linked
  <2>3. \A v \in Procs : Active(v)' =>
         /\ proc'[v].run \in RunIds
         /\ runs'[proc'[v].run] # None
         /\ runs'[proc'[v].run].org = proc'[v].org
         /\ runs'[proc'[v].run].status = "running"
    <3>1. \A v \in Procs : Active(v) =>
           proc[v].run \in RunIds /\ runs[proc[v].run] # None
           /\ runs[proc[v].run].org = proc[v].org /\ runs[proc[v].run].status = "running"
      BY DEF Core, Linked
    <3> QED
      BY <1>2, <1>7, <3>1
  <2>4. \A v, q \in Procs : Active(v)' /\ Active(q)' /\ proc'[v].run = proc'[q].run => v = q
    BY <1>7 DEF Core, Linked
  <2> QED
    BY <2>1, <2>2, <2>3, <2>4 DEF Linked
<1>9. Crossed'
  <2> SUFFICES ASSUME NEW a \in RunIds, NEW b \in RunIds, a # b,
                      runs'[a] # None, runs'[b] # None, runs'[a].org = runs'[b].org,
                      runs'[a].status = "running", runs'[b].status = "running"
               PROVE  runs'[a].org \in crossed'
    BY DEF Crossed
  <2>1. a # r /\ b # r
    OBVIOUS
  <2> QED
    BY <1>2, <2>1 DEF Core, Crossed
<1>10. TakenUp'
  <2>1. ASSUME NEW v \in Procs, proc'[v].step = "read"
        PROVE  \A x \in found'[proc'[v].run] : recos'[proc'[v].org][x] # "none"
    <3>1. Active(v)' /\ proc'[v] = proc[v]
      BY <1>7, <2>1 DEF Active
    <3>2. proc[v].run \in RunIds /\ proc[v].org \in Orgs /\ proc[v].step = "read"
      BY <1>7, <2>1, <3>1 DEF Core, Linked
    <3>3. found[proc[v].run] \subseteq Recos
      BY <3>2 DEF AutoTypeOK
    <3> QED
      BY <3>1, <3>2, <3>3 DEF Core, TakenUp
  <2>2. ASSUME NEW v \in Procs, proc'[v].step = "finish"
        PROVE  /\ \A x \in found'[proc'[v].run] : x \in proc'[v].todo \/ HasDraft(proc'[v].org, x)
               /\ proc'[v].org \notin crossed => \A x \in proc'[v].todo : ~HasDraft(proc'[v].org, x)
               /\ proc'[v].org \notin crossed => proc'[v].org # o
    <3>1. Active(v)' /\ Active(v) /\ proc'[v] = proc[v] /\ proc[v].run # r
      BY <1>7, <2>2 DEF Active
    <3>2. proc[v].run \in RunIds /\ runs[proc[v].run] # None
          /\ runs[proc[v].run].org = proc[v].org /\ runs[proc[v].run].status = "running"
      BY <3>1 DEF Core, Linked
    <3>3. proc[v].org = o => o \in crossed
      BY <1>1, <3>1, <3>2 DEF Core, Crossed
    <3> QED
      BY <2>2, <3>1, <3>3 DEF Core, TakenUp
  <2>3. ASSUME NEW v \in Procs, proc'[v].step = "finish"
        PROVE  /\ \A x \in found'[proc'[v].run] : x \in proc'[v].todo
                    \/ \E e \in drafts' : runs'[e[1]].org = proc'[v].org /\ e[2] = x
               /\ proc'[v].org \notin crossed' => \A x \in proc'[v].todo :
                    ~\E e \in drafts' : runs'[e[1]].org = proc'[v].org /\ e[2] = x
    BY <1>5, <1>6, <2>2, <2>3
  <2> QED
    BY <2>1, <2>3 DEF TakenUp, HasDraft
<1>11. OneDraftEach'
  <2> SUFFICES ASSUME NEW d \in drafts', NEW e \in drafts', d # e, d[2] = e[2],
                      runs'[d[1]].org = runs'[e[1]].org
               PROVE  runs'[d[1]].org \in crossed'
    BY DEF OneDraftEach
  <2>1. \A x \in D : HasDraft(o, x) => o \in crossed
    BY DEF Core, TakenUp
  <2>2. CASE d \in drafts /\ e \in drafts
    BY <1>3, <2>2 DEF Core, OneDraftEach
  <2>3. CASE d \notin drafts /\ e \notin drafts
    BY <1>4, <2>3
  <2>4. CASE d \in drafts /\ e \notin drafts
    <3>1. e[2] \in D /\ runs'[e[1]].org = o
      BY <1>4, <2>4
    <3>2. HasDraft(o, e[2])
      BY <1>3, <2>4, <3>1 DEF HasDraft
    <3> QED
      BY <2>1, <3>1, <3>2
  <2>5. CASE d \notin drafts /\ e \in drafts
    <3>1. d[2] \in D /\ runs'[d[1]].org = o
      BY <1>4, <2>5
    <3>2. HasDraft(o, d[2])
      BY <1>3, <2>5, <3>1 DEF HasDraft
    <3> QED
      BY <2>1, <3>1, <3>2
  <2> QED
    BY <2>2, <2>3, <2>4, <2>5
<1>12. SuccessIsDrafted'
  <2> SUFFICES ASSUME NEW u \in RunIds, runs'[u] # None, runs'[u].status = "success", NEW x \in found[u]
               PROVE  \E e \in drafts' : runs'[e[1]].org = runs'[u].org /\ e[2] = x
    BY DEF SuccessIsDrafted, HasDraft
  <2>1. CASE u = r
    <3>1. x \in D \/ HasDraft(o, x)
      BY <2>1 DEF Core, TakenUp
    <3>2. CASE x \in D
      <4>1. <<r, x>> \in drafts'
        BY <3>2
      <4> QED
        BY <2>1, <4>1
    <3> QED
      BY <1>5, <2>1, <3>1, <3>2
  <2>2. CASE u # r
    BY <1>2, <1>5, <2>2 DEF Core, SuccessIsDrafted
  <2> QED
    BY <2>1, <2>2
<1> QED
  BY <1>8, <1>9, <1>10, <1>11, <1>12 DEF Core

LEMMA DefaultsSetting ==
  ASSUME AutoTypeOK, NEW o \in Orgs
  PROVE  (IF settings[o] = None THEN Defaults ELSE settings[o]) \in Settings /\ Defaults \in Settings
  BY DEF AutoTypeOK, Defaults, Settings

\* What EndRun does to the types, and what Ending asks for.
LEMMA EndRunFacts ==
  ASSUME AutopilotAssumption, AutoIInv, NEW p \in Procs, Active(p), NEW status \in {"success", "failed"},
         EndRun(p, status)
  PROVE  /\ proc[p].org \in Orgs /\ proc[p].run \in RunIds
         /\ runs' \in [RunIds -> Run \cup {None}]
         /\ settings' \in [Orgs -> Settings \cup {None}]
         /\ proc' \in [Procs -> Proc]
         /\ runs'[proc[p].run] # None /\ runs'[proc[p].run].org = proc[p].org
         /\ runs'[proc[p].run].status = status
         /\ \A u \in RunIds \ {proc[p].run} : runs'[u] = runs[u]
         /\ proc'[p] = NoRun /\ \A v \in Procs \ {p} : proc'[v] = proc[v]
<1> DEFINE o == proc[p].org
           r == proc[p].run
           ended == [runs[r] EXCEPT !.status = status]
           ran == [IF settings[o] = None THEN Defaults ELSE settings[o] EXCEPT !.ran = TRUE]
<1>1. /\ runs' = [runs EXCEPT ![r] = ended]
      /\ settings' = [settings EXCEPT ![o] = ran]
      /\ proc' = [proc EXCEPT ![p] = NoRun]
  BY DEF EndRun
<1>2. o \in Orgs /\ r \in RunIds /\ runs[r] # None /\ runs[r].org = o
  BY DEF AutoIInv, Core, Linked, Active
<1>3. runs[r] \in Run
  BY <1>2 DEF AutoIInv, AutoTypeOK
<1>4. ended \in Run /\ ended.org = o /\ ended.status = status /\ ended # None
  BY <1>2, <1>3 DEF Run, AutopilotAssumption
<1>5. ran \in Settings
  <2> DEFINE s == IF settings[o] = None THEN Defaults ELSE settings[o]
  <2>1. s \in Settings
    BY <1>2, DefaultsSetting DEF AutoIInv
  <2> HIDE DEF s
  <2>2. [s EXCEPT !.ran = TRUE] \in Settings
    BY <2>1 DEF Settings
  <2> QED
    BY <2>2 DEF s
<1> HIDE DEF ended, ran
<1>6. runs' \in [RunIds -> Run \cup {None}] /\ settings' \in [Orgs -> Settings \cup {None}]
      /\ proc' \in [Procs -> Proc]
  BY <1>1, <1>4, <1>5, NoRunIsProc DEF AutoIInv, AutoTypeOK
<1>7. runs'[r] = ended /\ (\A u \in RunIds \ {r} : runs'[u] = runs[u])
      /\ proc'[p] = NoRun /\ (\A v \in Procs \ {p} : proc'[v] = proc[v])
  BY <1>1, <1>2 DEF AutoIInv, AutoTypeOK
<1> QED
  BY <1>2, <1>4, <1>6, <1>7

LEMMA FailComputeKeeps ==
  ASSUME AutopilotAssumption, AutoIInv,
         NEW p \in Procs, NEW P \in SUBSET Problems, NEW d \in Windows, FailCompute(p, P, d)
  PROVE  AutoIInv'
<1> DEFINE X == P \X {d}
<1>1. proc[p].step = "compute" /\ recos' = Upserted(proc[p].org, X) /\ EndRun(p, "failed")
      /\ UNCHANGED <<drafts, autoMsgs, scan, crossed, found>>
  BY DEF FailCompute
<1>2. Active(p) /\ X \subseteq Recos
  BY <1>1 DEF Active, Recos
<1>3. /\ proc[p].org \in Orgs /\ proc[p].run \in RunIds
      /\ runs' \in [RunIds -> Run \cup {None}]
      /\ settings' \in [Orgs -> Settings \cup {None}]
      /\ proc' \in [Procs -> Proc]
      /\ runs'[proc[p].run] # None /\ runs'[proc[p].run].org = proc[p].org
      /\ runs'[proc[p].run].status = "failed"
      /\ \A u \in RunIds \ {proc[p].run} : runs'[u] = runs[u]
      /\ proc'[p] = NoRun /\ \A v \in Procs \ {p} : proc'[v] = proc[v]
  BY <1>1, <1>2, EndRunFacts
<1> HIDE DEF X
<1>4. /\ recos' \in [Orgs -> [Recos -> {"none", "open", "resolved"}]]
      /\ \A u \in Orgs : \A x \in Recos : recos[u][x] # "none" => recos'[u][x] # "none"
  BY <1>1, <1>2, <1>3, UpsertedType DEF AutoIInv
<1>5. AutoTypeOK'
  BY <1>1, <1>3, <1>4 DEF AutoIInv, AutoTypeOK
<1>6. Core'
  <2>1. crossed' = crossed /\ found' = found
    BY <1>1
  <2>2. PICK D \in SUBSET Recos : D = {} /\ drafts' = drafts \cup ({proc[p].run} \X D)
    <3>1. drafts' = drafts \cup ({proc[p].run} \X {})
      BY <1>1
    <3> QED
      BY <3>1
  <2> QED
    BY <1>2, <1>3, <1>4, <2>1, <2>2, Ending DEF AutoIInv
<1> QED
  BY <1>5, <1>6 DEF AutoIInv

LEMMA DraftActionsKeeps ==
  ASSUME AutopilotAssumption, AutoIInv, NEW p \in Procs, DraftActions(p) PROVE AutoIInv'
<1>1. proc[p].step = "finish" /\ drafts' = drafts \cup ({proc[p].run} \X proc[p].todo)
      /\ EndRun(p, "success") /\ UNCHANGED <<recos, autoMsgs, scan, crossed, found>>
  BY DEF DraftActions
<1>2. Active(p)
  BY <1>1 DEF Active
<1>3. proc[p].todo \in SUBSET Recos
  BY DEF AutoIInv, AutoTypeOK, Proc
<1>4. /\ proc[p].org \in Orgs /\ proc[p].run \in RunIds
      /\ runs' \in [RunIds -> Run \cup {None}]
      /\ settings' \in [Orgs -> Settings \cup {None}]
      /\ proc' \in [Procs -> Proc]
      /\ runs'[proc[p].run] # None /\ runs'[proc[p].run].org = proc[p].org
      /\ runs'[proc[p].run].status = "success"
      /\ \A u \in RunIds \ {proc[p].run} : runs'[u] = runs[u]
      /\ proc'[p] = NoRun /\ \A v \in Procs \ {p} : proc'[v] = proc[v]
  BY <1>1, <1>2, EndRunFacts
<1>5. AutoTypeOK'
  BY <1>1, <1>3, <1>4 DEF AutoIInv, AutoTypeOK
<1>6. Core'
  BY <1>1, <1>2, <1>3, <1>4, Ending DEF AutoIInv
<1> QED
  BY <1>5, <1>6 DEF AutoIInv

-----------------------------------------------------------------------------
(* Recommendations, settings and the scheduler *)

LEMMA RecosKeep ==
  ASSUME AutopilotAssumption, AutoIInv, NEW o \in Orgs,
         \/ \E P \in SUBSET Problems, d \in Windows : Recompute(o, P \X {d})
         \/ \E x \in Recos : Resolve(o, x)
  PROVE  AutoIInv'
<1>1. UNCHANGED <<settings, runs, drafts, autoMsgs, proc, scan, crossed, found>>
  BY DEF Recompute, Resolve
<1>2. /\ recos' \in [Orgs -> [Recos -> {"none", "open", "resolved"}]]
      /\ \A u \in Orgs : \A x \in Recos : recos[u][x] # "none" => recos'[u][x] # "none"
  <2>1. ASSUME NEW P \in SUBSET Problems, NEW d \in Windows, Recompute(o, P \X {d}) PROVE <1>2!:
    <3>1. P \X {d} \in SUBSET Recos
      BY DEF Recos
    <3> QED
      BY <2>1, <3>1, UpsertedType DEF AutoIInv, Recompute
  <2>2. ASSUME NEW x \in Recos, Resolve(o, x) PROVE <1>2!:
    BY <2>2 DEF AutoIInv, AutoTypeOK, Resolve
  <2> QED
    BY <2>1, <2>2
<1>3. AutoTypeOK'
  BY <1>1, <1>2 DEF AutoIInv, AutoTypeOK
<1> QED
  BY <1>1, <1>2, <1>3, Quiet DEF AutoIInv

LEMMA StampedType ==
  ASSUME AutoTypeOK, NEW S PROVE Stamped(S) \in [Orgs -> Settings \cup {None}]
<1> SUFFICES ASSUME NEW o \in Orgs, settings[o] # None PROVE [settings[o] EXCEPT !.ran = TRUE] \in Settings
  BY DEF Stamped, AutoTypeOK
<1>1. settings[o] \in Settings
  BY DEF AutoTypeOK
<1> QED
  BY <1>1 DEF Settings

LEMMA SaveSettingsKeeps ==
  ASSUME AutopilotAssumption, AutoIInv, NEW o \in Orgs, NEW on \in BOOLEAN, SaveSettings(o, on) PROVE AutoIInv'
<1> DEFINE s == IF settings[o] = None THEN Defaults ELSE settings[o]
<1>1. settings' = [settings EXCEPT ![o] = [s EXCEPT !.enabled = on]]
      /\ UNCHANGED <<runs, recos, drafts, autoMsgs, proc, scan, crossed, found>>
  BY DEF SaveSettings
<1>2. s \in Settings
  BY DefaultsSetting DEF AutoIInv
<1> HIDE DEF s
<1>3. [s EXCEPT !.enabled = on] \in Settings
  BY <1>2 DEF Settings
<1>4. AutoTypeOK'
  BY <1>1, <1>3 DEF AutoIInv, AutoTypeOK
<1> QED
  BY <1>1, <1>4, Quiet DEF AutoIInv

LEMMA ScanKeeps ==
  ASSUME AutopilotAssumption, DeploymentAssumption, AutoIInv, ScanStep \/ LoseScan PROVE AutoIInv'
<1>1. UNCHANGED <<runs, recos, drafts, proc, crossed, found>>
  BY DEF ScanStep, StartScan, ScanNewOrg, ScanDisabled, ScanEnabled, ScanRaises, EndScan, LoseScan
<1>2. settings' \in [Orgs -> Settings \cup {None}]
  <2>1. settings' = settings \/ (\E S : settings' = Stamped(S))
        \/ \E o \in Orgs : \E S : settings' = [Stamped(S) EXCEPT ![o] = Defaults]
    BY DEF ScanStep, StartScan, ScanNewOrg, ScanDisabled, ScanEnabled, ScanRaises, EndScan, LoseScan
  <2>2. \A S : Stamped(S) \in [Orgs -> Settings \cup {None}]
    BY StampedType DEF AutoIInv
  <2>3. Defaults \in Settings
    BY DEF Defaults, Settings
  <2> QED
    BY <2>1, <2>2, <2>3 DEF AutoIInv, AutoTypeOK
<1>3. autoMsgs' \in [Orgs -> 0..MaxMsgs]
  <2>1. autoMsgs' = autoMsgs \/ \E o \in Orgs : autoMsgs[o] < MaxMsgs /\ autoMsgs' = [autoMsgs EXCEPT ![o] = @ + 1]
    BY DEF ScanStep, StartScan, ScanNewOrg, ScanDisabled, ScanEnabled, ScanRaises, EndScan, LoseScan
  <2> QED
    BY <2>1 DEF AutoIInv, AutoTypeOK, DeploymentAssumption
<1>4. scan' \in [on : BOOLEAN, todo : SUBSET Orgs, stamped : SUBSET Orgs]
  <2> DEFINE Scan == [on : BOOLEAN, todo : SUBSET Orgs, stamped : SUBSET Orgs]
  <2>1. scan \in Scan
    BY DEF AutoIInv, AutoTypeOK
  <2>2. \/ scan' = scan \/ scan' = NoScan \/ scan' = [on |-> TRUE, todo |-> Orgs, stamped |-> {}]
        \/ \E o \in Orgs : \/ scan' = [scan EXCEPT !.todo = @ \ {o}, !.stamped = {o}]
                           \/ scan' = [scan EXCEPT !.todo = @ \ {o}]
                           \/ scan' = [scan EXCEPT !.todo = @ \ {o}, !.stamped = @ \cup {o}]
    BY DEF ScanStep, StartScan, ScanNewOrg, ScanDisabled, ScanEnabled, ScanRaises, EndScan, LoseScan
  <2>3. NoScan \in Scan /\ [on |-> TRUE, todo |-> Orgs, stamped |-> {}] \in Scan
    BY DEF NoScan
  <2>4. ASSUME NEW o \in Orgs
        PROVE  /\ [scan EXCEPT !.todo = @ \ {o}, !.stamped = {o}] \in Scan
               /\ [scan EXCEPT !.todo = @ \ {o}] \in Scan
               /\ [scan EXCEPT !.todo = @ \ {o}, !.stamped = @ \cup {o}] \in Scan
    BY <2>1
  <2> HIDE DEF Scan
  <2>5. scan' \in Scan
    BY <2>1, <2>2, <2>3, <2>4
  <2> QED
    BY <2>5 DEF Scan
<1>5. AutoTypeOK'
  BY <1>1, <1>2, <1>3, <1>4 DEF AutoIInv, AutoTypeOK
<1> QED
  BY <1>1, <1>5, Quiet DEF AutoIInv

-----------------------------------------------------------------------------
(* The theorems *)

LEMMA StepKeeps ==
  ASSUME AutopilotAssumption, DeploymentAssumption, AutoIInv, [AutoNext]_autoVars PROVE AutoIInv'
<1>1. ASSUME NEW o \in Orgs, NEW on \in BOOLEAN, SaveSettings(o, on) PROVE AutoIInv'
  BY <1>1, SaveSettingsKeeps
<1>2. ASSUME NEW o \in Orgs, NEW P \in SUBSET Problems, NEW d \in Windows, Recompute(o, P \X {d}) PROVE AutoIInv'
  BY <1>2, RecosKeep
<1>3. ASSUME NEW o \in Orgs, NEW x \in Recos, Resolve(o, x) PROVE AutoIInv'
  BY <1>3, RecosKeep
<1>4. ASSUME NEW o \in Orgs, NEW w \in Workers, RunTask(w, o) PROVE AutoIInv'
  <2>1. autoMsgs' \in [Orgs -> 0..MaxMsgs] /\ w \in Procs
    BY <1>4 DEF RunTask, AutoIInv, AutoTypeOK, DeploymentAssumption, Procs
  <2> QED
    BY <1>4, <2>1, BeginKeeps DEF RunTask
<1>5. ASSUME NEW o \in Orgs, NEW h \in Handlers, RequestRun(h, o) PROVE AutoIInv'
  <2>1. autoMsgs' \in [Orgs -> 0..MaxMsgs] /\ h \in Procs
    BY <1>5 DEF RequestRun, AutoIInv, AutoTypeOK, Procs
  <2> QED
    BY <1>5, <2>1, BeginKeeps DEF RequestRun
<1>6. ASSUME NEW p \in Procs, RunStep(p) PROVE AutoIInv'
  BY <1>6, CreateRunKeeps, ComputeKeeps, FailComputeKeeps, ReadRecosKeeps, DraftActionsKeeps DEF RunStep
<1>7. ASSUME NEW p \in Procs, LoseRun(p) PROVE AutoIInv'
  BY <1>7, AutoLoseKeeps
<1>8. CASE ScanStep \/ LoseScan
  BY <1>8, ScanKeeps
<1>9. CASE UNCHANGED autoVars
  <2>1. AutoTypeOK'
    BY <1>9 DEF autoVars, AutoIInv, AutoTypeOK
  <2> QED
    BY <1>9, <2>1, Quiet DEF autoVars, AutoIInv
<1> QED
  BY <1>1, <1>2, <1>3, <1>4, <1>5, <1>6, <1>7, <1>8, <1>9 DEF AutoNext, AutoStep, AutoFault

\* The invariant the others follow from is inductive.
THEOREM AutoInductive == AutoSpec => []AutoIInv
<1> USE AutopilotAssumption, DeploymentAssumption
<1>1. AutoInit => AutoIInv
  BY AutoInitially
<1>2. AutoIInv /\ [AutoNext]_autoVars => AutoIInv'
  BY StepKeeps
<1> QED
  BY <1>1, <1>2, PTL DEF AutoSpec

\* The state of the autopilot keeps its types.
THEOREM AutoTypeCorrect == AutoSpec => []AutoTypeOK
<1>1. AutoIInv => AutoTypeOK
  BY DEF AutoIInv
<1> QED
  BY <1>1, AutoInductive, PTL

\* run_automation_for_org drafts no recommendation twice unless two runs of
\* the organization passed its look for a running one together.
THEOREM DraftedOnce == AutoSpec => []OneDraftEach
<1>1. AutoIInv => OneDraftEach
  BY DEF AutoIInv, Core
<1> QED
  BY <1>1, AutoInductive, PTL

\* What a successful run computed has a draft, whatever the other runs did.
THEOREM SuccessDrafts == AutoSpec => []SuccessIsDrafted
<1>1. AutoIInv => SuccessIsDrafted
  BY DEF AutoIInv, Core
<1> QED
  BY <1>1, AutoInductive, PTL

-----------------------------------------------------------------------------
(***************************************************************************)
(* What the payments guarantee for any number of payments and rows.  The   *)
(* inductive invariant adds to the types and the ledger what makes one row *)
(* per payment last: a payment that is still being created, and that no    *)
(* webhook overtook, has no row yet, and a payment that does not exist at  *)
(* the provider is neither being created nor notified.                     *)
(***************************************************************************)
Created ==
  \A p \in PayIds :
    /\ p \in creating \cup notify \/ RowsOf(p) # {} => prov[p] # "none"
    /\ p \in creating \ overtaken => RowsOf(p) = {}

PayIInv == PayTypeOK /\ LedgerFollowsProvider /\ Created /\ BookedOnce

-----------------------------------------------------------------------------
(* Lemmas about the table of transactions *)

\* An insert adds one row of its payment and leaves every other row alone.
LEMMA Inserted ==
  ASSUME PaymentsAssumption, PayTypeOK, NEW p \in PayIds \cup {"demo"}, NEW s \in TxStatus, Insert(p, s)
  PROVE  /\ txs' \in [TxIds -> Tx \cup {None}]
         /\ \E t \in TxIds :
              /\ txs[t] = None
              /\ txs'[t] # None /\ txs'[t].pay = p /\ txs'[t].status = s
              /\ \A u \in TxIds \ {t} : txs'[u] = txs[u]
<1>1. PICK t \in TxIds : txs[t] = None /\ txs' = [txs EXCEPT ![t] = [pay |-> p, status |-> s]]
  BY DEF Insert
<1>2. [pay |-> p, status |-> s] \in Tx
  BY DEF Tx
<1>3. [pay |-> p, status |-> s] # None
  BY <1>2 DEF PaymentsAssumption
<1>4. txs' \in [TxIds -> Tx \cup {None}]
  BY <1>1, <1>2 DEF PayTypeOK
<1>5. txs'[t] = [pay |-> p, status |-> s] /\ \A u \in TxIds \ {t} : txs'[u] = txs[u]
  BY <1>1 DEF PayTypeOK
<1>6. QED
  BY <1>1, <1>3, <1>4, <1>5

\* A webhook's update changes the status of one row of its payment.
LEMMA Updated ==
  ASSUME PaymentsAssumption, PayTypeOK, NEW p \in PayIds, NEW s \in TxStatus, SetFirst(p, s)
  PROVE  /\ txs' \in [TxIds -> Tx \cup {None}]
         /\ \E t \in TxIds :
              /\ txs[t] # None /\ txs[t].pay = p
              /\ txs'[t] # None /\ txs'[t].pay = p /\ txs'[t].status = s
              /\ \A u \in TxIds \ {t} : txs'[u] = txs[u]
<1>1. PICK t \in RowsOf(p) : txs' = [txs EXCEPT ![t].status = s]
  BY DEF SetFirst
<1>2. t \in TxIds /\ txs[t] # None /\ txs[t].pay = p /\ txs[t] \in Tx
  BY <1>1 DEF RowsOf, PayTypeOK
<1>3. [txs[t] EXCEPT !.status = s] \in Tx /\ [txs[t] EXCEPT !.status = s].pay = p
      /\ [txs[t] EXCEPT !.status = s].status = s
  BY <1>2 DEF Tx
<1>4. txs'[t] = [txs[t] EXCEPT !.status = s] /\ \A u \in TxIds \ {t} : txs'[u] = txs[u]
  BY <1>1, <1>2 DEF PayTypeOK
<1>5. txs' \in [TxIds -> Tx \cup {None}]
  BY <1>1, <1>2, <1>3 DEF PayTypeOK
<1>6. txs'[t] # None
  BY <1>3, <1>4 DEF PaymentsAssumption
<1>7. QED
  BY <1>2, <1>3, <1>4, <1>5, <1>6

-----------------------------------------------------------------------------
LEMMA PayInitially == PaymentsAssumption /\ PayInit => PayIInv
  BY DEF PaymentsAssumption, PayInit, PayIInv, PayTypeOK, LedgerFollowsProvider, Created, BookedOnce, RowsOf

LEMMA StepIInv == PaymentsAssumption /\ PayIInv /\ [PayNext]_payVars => PayIInv'
<1> SUFFICES ASSUME PaymentsAssumption, PayIInv, [PayNext]_payVars PROVE PayIInv'
  OBVIOUS
<1> USE DEF PayIInv
<1>1. ASSUME NEW p \in PayIds, CreateAtProvider(p) PROVE PayIInv'
  <2>1. PayTypeOK'
    BY <1>1 DEF CreateAtProvider, PayTypeOK
  <2>2. \A q \in PayIds : RowsOf(q)' = RowsOf(q)
    BY <1>1 DEF CreateAtProvider, RowsOf
  <2>3. prov'[p] = "pending" /\ (\A q \in PayIds \ {p} : prov'[q] = prov[q]) /\ prov[p] = "none"
        /\ txs' = txs /\ overtaken' = overtaken /\ creating' = creating \cup {p} /\ notify' = notify
    BY <1>1 DEF CreateAtProvider, PayTypeOK
  <2>4. RowsOf(p) = {}
    BY <2>3 DEF Created
  <2>5. LedgerFollowsProvider'
    BY <2>3, <2>4 DEF LedgerFollowsProvider, RowsOf
  <2>6. Created'
    BY <2>2, <2>3, <2>4 DEF Created
  <2>7. BookedOnce'
    BY <2>2, <2>3 DEF BookedOnce
  <2> QED
    BY <2>1, <2>5, <2>6, <2>7
<1>2. ASSUME NEW p \in PayIds, SavePending(p) PROVE PayIInv'
  <2>1. Insert(p, "pending") /\ p \in creating /\ creating' = creating \ {p}
        /\ prov' = prov /\ notify' = notify /\ overtaken' = overtaken
        /\ configured' = configured /\ account' = account
    BY <1>2 DEF SavePending
  <2>2. /\ txs' \in [TxIds -> Tx \cup {None}]
        /\ \E t \in TxIds :
             /\ txs[t] = None
             /\ txs'[t] # None /\ txs'[t].pay = p /\ txs'[t].status = "pending"
             /\ \A u \in TxIds \ {t} : txs'[u] = txs[u]
    BY <2>1, Inserted DEF TxStatus
  <2>3. PayTypeOK'
    BY <2>1, <2>2 DEF PayTypeOK
  <2>4. \A q \in PayIds \ {p} : RowsOf(q)' = RowsOf(q)
    BY <2>2 DEF RowsOf
  <2>5. LedgerFollowsProvider'
    BY <2>1, <2>2 DEF LedgerFollowsProvider
  <2>6. Created'
    BY <2>1, <2>4 DEF Created
  <2>7. p \notin overtaken => RowsOf(p) = {}
    BY <2>1 DEF Created
  <2>8. p \notin overtaken => \A t, u \in RowsOf(p)' : t = u
    BY <2>2, <2>7 DEF RowsOf
  <2>9. BookedOnce'
    BY <2>1, <2>4, <2>8 DEF BookedOnce
  <2> QED
    BY <2>3, <2>5, <2>6, <2>9
<1>3. ASSUME NEW p \in PayIds, LoseAnswer(p) PROVE PayIInv'
  BY <1>3 DEF LoseAnswer, PayTypeOK, LedgerFollowsProvider, Created, BookedOnce, RowsOf
<1>4. ASSUME NEW p \in PayIds, Settle(p) PROVE PayIInv'
  <2>1. PICK s \in {"succeeded", "canceled"} : prov' = [prov EXCEPT ![p] = s]
    BY <1>4 DEF Settle
  <2>2. prov[p] = "pending" /\ notify' = notify \cup {p} /\ txs' = txs /\ creating' = creating
        /\ overtaken' = overtaken /\ configured' = configured /\ account' = account
    BY <1>4 DEF Settle
  <2>3. PayTypeOK'
    BY <2>1, <2>2 DEF PayTypeOK
  <2>4. \A q \in PayIds : RowsOf(q)' = RowsOf(q)
    BY <2>2 DEF RowsOf
  <2>5. LedgerFollowsProvider'
    BY <2>1, <2>2 DEF LedgerFollowsProvider, PayTypeOK
  <2>6. Created'
    BY <2>1, <2>2, <2>4 DEF Created, PayTypeOK
  <2>7. BookedOnce'
    BY <2>2, <2>4 DEF BookedOnce
  <2> QED
    BY <2>3, <2>5, <2>6, <2>7
<1>5. ASSUME NEW p \in PayIds, CreditBalance(p) PROVE PayIInv'
  <2>1. prov[p] = "succeeded" /\ notify' \in SUBSET notify /\ prov' = prov /\ creating' = creating
        /\ overtaken \subseteq overtaken' /\ overtaken' \subseteq PayIds
        /\ (p \in creating => p \in overtaken')
        /\ configured' = configured /\ account' = account
    BY <1>5 DEF CreditBalance, Answer, Overtakes, PayTypeOK
  <2>2. CASE RowsOf(p) = {}
    <3>1. Insert(p, "completed")
      BY <1>5, <2>2 DEF CreditBalance
    <3>2. /\ txs' \in [TxIds -> Tx \cup {None}]
          /\ \E t \in TxIds :
               /\ txs[t] = None
               /\ txs'[t] # None /\ txs'[t].pay = p /\ txs'[t].status = "completed"
               /\ \A u \in TxIds \ {t} : txs'[u] = txs[u]
      BY <3>1, Inserted DEF TxStatus
    <3>3. PayTypeOK'
      BY <2>1, <3>2 DEF PayTypeOK
    <3>4. \A q \in PayIds \ {p} : RowsOf(q)' = RowsOf(q)
      BY <3>2 DEF RowsOf
    <3>5. LedgerFollowsProvider'
      BY <2>1, <3>2 DEF LedgerFollowsProvider
    <3>6. Created'
      BY <2>1, <3>4 DEF Created
    <3>7. \A t, u \in RowsOf(p)' : t = u
      BY <2>2, <3>2 DEF RowsOf
    <3>8. BookedOnce'
      BY <2>1, <3>4, <3>7 DEF BookedOnce
    <3> QED
      BY <3>3, <3>5, <3>6, <3>8
  <2>3. CASE RowsOf(p) # {}
    <3>1. SetFirst(p, "completed")
      BY <1>5, <2>3 DEF CreditBalance
    <3>2. /\ txs' \in [TxIds -> Tx \cup {None}]
          /\ \E t \in TxIds :
               /\ txs[t] # None /\ txs[t].pay = p
               /\ txs'[t] # None /\ txs'[t].pay = p /\ txs'[t].status = "completed"
               /\ \A u \in TxIds \ {t} : txs'[u] = txs[u]
      BY <3>1, Updated DEF TxStatus
    <3>3. PayTypeOK'
      BY <2>1, <3>2 DEF PayTypeOK
    <3>4. \A q \in PayIds : RowsOf(q)' = RowsOf(q)
      BY <3>2 DEF RowsOf
    <3>5. LedgerFollowsProvider'
      BY <2>1, <3>2 DEF LedgerFollowsProvider
    <3>6. Created'
      BY <2>1, <3>4 DEF Created
    <3>7. BookedOnce'
      BY <2>1, <3>4 DEF BookedOnce
    <3> QED
      BY <3>3, <3>5, <3>6, <3>7
  <2> QED
    BY <2>2, <2>3
<1>6. ASSUME NEW p \in PayIds, MarkFailed(p) PROVE PayIInv'
  <2>1. prov[p] = "canceled" /\ notify' \in SUBSET notify /\ prov' = prov /\ creating' = creating
        /\ overtaken \subseteq overtaken' /\ overtaken' \subseteq PayIds
        /\ configured' = configured /\ account' = account
    BY <1>6 DEF MarkFailed, Answer, Overtakes, PayTypeOK
  <2>2. CASE RowsOf(p) = {}
    BY <1>6, <2>1, <2>2 DEF MarkFailed, PayTypeOK, LedgerFollowsProvider, Created, BookedOnce, RowsOf
  <2>3. CASE RowsOf(p) # {}
    <3>1. SetFirst(p, "failed")
      BY <1>6, <2>3 DEF MarkFailed
    <3>2. /\ txs' \in [TxIds -> Tx \cup {None}]
          /\ \E t \in TxIds :
               /\ txs[t] # None /\ txs[t].pay = p
               /\ txs'[t] # None /\ txs'[t].pay = p /\ txs'[t].status = "failed"
               /\ \A u \in TxIds \ {t} : txs'[u] = txs[u]
      BY <3>1, Updated DEF TxStatus
    <3>3. PayTypeOK'
      BY <2>1, <3>2 DEF PayTypeOK
    <3>4. \A q \in PayIds : RowsOf(q)' = RowsOf(q)
      BY <3>2 DEF RowsOf
    <3>5. LedgerFollowsProvider'
      BY <2>1, <3>2 DEF LedgerFollowsProvider
    <3>6. Created'
      BY <2>1, <3>4 DEF Created
    <3>7. BookedOnce'
      BY <2>1, <3>4 DEF BookedOnce
    <3> QED
      BY <3>3, <3>5, <3>6, <3>7
  <2> QED
    BY <2>2, <2>3
<1>7. CASE OpenAccount
  BY <1>7 DEF OpenAccount, PayTypeOK, LedgerFollowsProvider, Created, BookedOnce, RowsOf
<1>8. CASE DemoTopup
  <2>1. Insert("demo", "completed") /\ prov' = prov /\ creating' = creating /\ notify' = notify
        /\ overtaken' = overtaken /\ configured' = configured /\ account' = account
    BY <1>8 DEF DemoTopup
  <2>2. /\ txs' \in [TxIds -> Tx \cup {None}]
        /\ \E t \in TxIds :
             /\ txs[t] = None
             /\ txs'[t] # None /\ txs'[t].pay = "demo" /\ txs'[t].status = "completed"
             /\ \A u \in TxIds \ {t} : txs'[u] = txs[u]
    BY <2>1, Inserted DEF TxStatus
  <2>3. PayTypeOK'
    BY <2>1, <2>2 DEF PayTypeOK
  <2>4. \A q \in PayIds : RowsOf(q)' = RowsOf(q)
    BY <2>2 DEF RowsOf, PaymentsAssumption
  <2>5. LedgerFollowsProvider'
    BY <2>1, <2>2 DEF LedgerFollowsProvider, PaymentsAssumption
  <2>6. Created'
    BY <2>1, <2>4 DEF Created
  <2>7. BookedOnce'
    BY <2>1, <2>4 DEF BookedOnce
  <2> QED
    BY <2>3, <2>5, <2>6, <2>7
<1>9. CASE UNCHANGED payVars
  BY <1>9 DEF payVars, PayTypeOK, LedgerFollowsProvider, Created, BookedOnce, RowsOf
<1> QED
  BY <1>1, <1>2, <1>3, <1>4, <1>5, <1>6, <1>7, <1>8, <1>9 DEF PayNext, Webhook

\* The strengthened invariant holds in every reachable state.
THEOREM PayInductive == PaySpec => []PayIInv
<1>1. PayInit => PayIInv
  BY PayInitially, PaymentsAssumption
<1>2. PayIInv /\ [PayNext]_payVars => PayIInv'
  BY StepIInv, PaymentsAssumption
<1> QED
  BY <1>1, <1>2, PTL DEF PaySpec

\* The state of payments keeps its types.
THEOREM PayTypeCorrect == PaySpec => []PayTypeOK
<1>1. PayIInv => PayTypeOK
  BY DEF PayIInv
<1> QED
  BY <1>1, PayInductive, PTL

\* The ledger never contradicts the provider, however many payments, repeated
\* webhooks and lost answers there are (_credit_balance,
\* _mark_transaction_failed).
THEOREM LedgerIsTrue == PaySpec => []LedgerFollowsProvider
<1>1. PayIInv => LedgerFollowsProvider
  BY DEF PayIInv
<1> QED
  BY <1>1, PayInductive, PTL

\* A payment whose webhooks did not overtake its creation is booked once.
THEOREM PaymentsBookedOnce == PaySpec => []BookedOnce
<1>1. PayIInv => BookedOnce
  BY DEF PayIInv
<1> QED
  BY <1>1, PayInductive, PTL
=============================================================================
