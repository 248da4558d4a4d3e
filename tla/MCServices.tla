----------------------------- MODULE MCServices -----------------------------
(***************************************************************************)
(* The components around change plans, campaigns and money, for TLC.  They *)
(* share no state: a behaviour is one of any of them, while the others     *)
(* stay as they began.                                                     *)
(***************************************************************************)
EXTENDS ChangePlans, Autopilot, Payments, CampaignTree, Launches, Figures,
        Experiments, AdUrls, Assistant, Connections, TLC

CONSTANT Parts  \* the components to check

\* FetchesPart picks a process of the API or the workers.
ASSUME ServersAssumption == Servers # {}

VARIABLE part

vars == <<part, planVars, autoVars, payVars, treeVars, launchVars, figureVars,
          testVars, urlVars, assistVars, linkVars>>

\* What one value is enough for: what a part does not read, and the names that
\* may be swapped for one another.
Pinned ==
  /\ configured => part = "payments"
  /\ part \notin {"keys", "fetches"} => env.active = None
  /\ tables = "builder" => part = "tree"
  /\ IF part = "figures"
     THEN LET first == CHOOSE x \in Conns : TRUE
          IN /\ owner[first] = CHOOSE t \in Tenants : TRUE
             /\ channel[first] = CHOOSE c \in Channels : TRUE
             /\ \A x \in Exps : \A l \in listed[x] : l[2] = CHOOSE c \in Camps : TRUE
             /\ (\A x \in Exps : listed[x] = {})
                  \/ \A c \in Conns : owner[c] = owner[first] /\ channel[c] = channel[first]
     ELSE /\ owner = [x \in Conns \cup Exps |-> CHOOSE t \in Tenants : TRUE]
          /\ channel = [x \in Conns |-> CHOOSE c \in Channels : TRUE]
          /\ listed = [x \in Exps |-> {}]
  /\ IF part = "assistant" THEN "elevenlabs" \in keys <=> "heygen" \in keys ELSE keys = {}

Init ==
  /\ part \in Parts
  /\ PlansInit
  /\ AutoInit
  /\ PayInit
  /\ TreeInit
  /\ LaunchesInit
  /\ FiguresInit
  /\ ExperimentsInit
  /\ UrlsInit
  /\ AssistInit
  /\ ConnectionsInit
  /\ Pinned

\* A step of one component leaves the others alone.
InPlans ==
  /\ part = "plans"
  /\ UNCHANGED <<part, autoVars, payVars, treeVars, launchVars, figureVars, testVars, urlVars, assistVars, linkVars>>
InAuto ==
  /\ part = "autopilot"
  /\ UNCHANGED <<part, planVars, payVars, treeVars, launchVars, figureVars, testVars, urlVars, assistVars, linkVars>>
InPayments ==
  /\ part = "payments"
  /\ UNCHANGED <<part, planVars, autoVars, treeVars, launchVars, figureVars, testVars, urlVars, assistVars, linkVars>>
InTree ==
  /\ part = "tree"
  /\ UNCHANGED <<part, planVars, autoVars, payVars, launchVars, figureVars, testVars, urlVars, assistVars, linkVars>>
InLaunches ==
  /\ part = "launches"
  /\ UNCHANGED <<part, planVars, autoVars, payVars, treeVars, figureVars, testVars, urlVars, assistVars, linkVars>>
InFigures ==
  /\ part = "figures"
  /\ UNCHANGED <<part, planVars, autoVars, payVars, treeVars, launchVars, testVars, urlVars, assistVars, linkVars>>
InTests ==
  /\ part = "experiments"
  /\ UNCHANGED <<part, planVars, autoVars, payVars, treeVars, launchVars, figureVars, urlVars, assistVars, linkVars>>
InUrls ==
  /\ part \in {"urls", "erir"}
  /\ UNCHANGED <<part, planVars, autoVars, payVars, treeVars, launchVars, figureVars, testVars, assistVars, linkVars>>
InAssistant ==
  /\ part = "assistant"
  /\ UNCHANGED <<part, planVars, autoVars, payVars, treeVars, launchVars, figureVars, testVars, urlVars, linkVars>>
InLinks ==
  /\ part \in {"keys", "fetches"}
  /\ UNCHANGED <<part, planVars, autoVars, payVars, treeVars, launchVars, figureVars, testVars, urlVars, assistVars>>

\* A launch and a magic run do not meet but in the table of drafts: one begins.
LaunchesPart ==
  /\ LaunchesStep
  /\ (\A r \in MagicRuns : magic'[r] = None) \/ (\A l \in LaunchIds : launch'[l] = None)

\* Keys change while connections of one kind are made and checked; or one
\* connection of any kind is made, and fetched from by one process: fetches
\* share nothing.
KeysPart == KeysStep \/ \E s \in Servers : LinksStep(s, {"yandex"}, {"whole"})
FetchesPart ==
  /\ LET s == CHOOSE x \in Servers : TRUE IN LinksStep(s, LinkPlatforms, CredKinds) \/ FetchesStep(s)
  /\ \E l \in Links : link'[l] = None

Step ==
  \/ InPlans /\ PlanStep
  \/ InAuto /\ AutoStep
  \/ InPayments /\ PayNext
  \/ InTree /\ TreeStep
  \/ InLaunches /\ LaunchesPart
  \/ InFigures /\ FiguresNext
  \/ InTests /\ ExperimentsStep
  \/ InUrls /\ part = "urls" /\ CatalogueStep
  \/ InUrls /\ part = "erir" /\ ErirStep
  \/ InAssistant /\ AssistStep
  \/ InLinks /\ part = "keys" /\ KeysPart
  \/ InLinks /\ part = "fetches" /\ FetchesPart

Fault ==
  \/ InPlans /\ PlanFault
  \/ InAuto /\ AutoFault
  \/ InTree /\ TreeFault
  \/ InLaunches /\ LaunchesFault
  \/ InTests /\ ExperimentsFault
  \/ InUrls /\ part = "urls" /\ CatalogueFault
  \/ InUrls /\ part = "erir" /\ ErirFault
  \/ InAssistant /\ AssistFault
  \/ InLinks /\ ConnectionsFault

Spec == Init /\ [][Step \/ Fault]_vars

-----------------------------------------------------------------------------
(* Fairness.  A worker takes a message that stays in its queue, and a task *)
(* or a request that began goes on; none is lost.  The provider notifies   *)
(* until it is answered, and reconciliations keep being asked for.         *)
(* Requests of users and settlements are not fair.                         *)

Fairness ==
  /\ \A p \in Plans : WF_vars(InPlans /\ (\E w \in Appliers : Fetch(w, p)))
  /\ \A w \in Appliers : WF_vars(InPlans /\ PlanWork(w))
  /\ \A p \in Procs : WF_vars(InAuto /\ RunStep(p))
  /\ \A p \in PayIds : WF_vars(InPayments /\ Webhook(p))
  /\ \A r \in Reconcilers : WF_vars(InUrls /\ Reconcile(r))

FairSpec == Init /\ [][Step]_vars /\ Fairness

-----------------------------------------------------------------------------
\* Requests, workers and runs are alike.
Symmetry == Permutations(Editors) \cup Permutations(Appliers) \cup Permutations(RunIds)

\* FiguresAgree, where there are figures.
DashboardsAgree == part = "figures" => FiguresAgree

\* One type invariant for the run: the rows of every component hold what their
\* columns may.
TypeOK ==
  /\ PlanTypeOK /\ AutoTypeOK /\ PayTypeOK
  /\ TreeTypeOK /\ LaunchesTypeOK /\ FiguresTypeOK
  /\ ExperimentsTypeOK /\ UrlsTypeOK /\ AssistTypeOK /\ ConnectionsTypeOK
=============================================================================
