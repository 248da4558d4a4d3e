---------------------------- MODULE Experiments -----------------------------
(***************************************************************************)
(* Budget tests: api/experiments.py and api/plans.py, with                 *)
(* services/experiment_engine.py and experiment_service.py.  An experiment *)
(* has a budget that its rounds, their platforms and their creatives       *)
(* share.  Starting and closing commit more than once, and nothing holds   *)
(* two of them apart but uq_round_index and the flag "processing".         *)
(*                                                                         *)
(* create_experiment of the service is left out: it writes no              *)
(* organization_id, and the database refuses the row.                      *)
(***************************************************************************)
EXTENDS Deployment, SequencesExt

CONSTANTS
  Tests, Starters,       \* experiments; requests and tasks at the same time
  TestChannels, MaxList, \* platforms, bound: how many a request names
  Budgets,               \* the budgets tried
  ListedIds              \* external campaigns a PUT may list

\* The lists a request may name; a platform may come twice.
PlatformLists == UNION {[1..n -> TestChannels] : n \in 1..MaxList}

\* Those of start_test, in the order of the code.
EnginePlatforms == <<"yandex", "ozon", "vk">>

Test == [status : {"draft", "running"}, platforms : PlatformLists \cup {<<>>},
                   budget : Budgets \cup {0}, processing : BOOLEAN]

\* budget_allocations: of the platform at a place of the list (creative 0), or
\* of one of its two creatives; `to` is the round or the test itself.
Allocation == [of : Tests, to : {"test", "round"}, place : Nat, creative : 0..2, amount : Nat]

ASSUME ExperimentsAssumption ==
  Budgets \subseteq Nat /\ MaxList \in Nat /\ None \notin Test

VARIABLES
  test,     \* experiments
  rounds,   \* experiment_rounds
  allocated,\* budget_allocations
  listing,  \* experiment_campaigns
  work      \* requests and tasks that are not finished

testVars == <<test, rounds, allocated, listing, work>>

ExperimentsInit ==
  /\ test = [x \in Tests |-> None]
  /\ rounds = {}
  /\ allocated = {}
  /\ listing = [x \in Tests |-> {}]
  /\ work = [w \in Starters |-> None]

\* Mutant of Split: the remainder is dropped.
SplitEvenly(n, k) == [i \in 1..k |-> n \div k]

\* n // k each, and one more for the first n % k.
Split(n, k) == [i \in 1..k |-> n \div k + (IF i <= n % k THEN 1 ELSE 0)]

\* A platform at each place of the list, and its two creatives.
Allocations(x, to, amounts) ==
  UNION {{[of |-> x, to |-> to, place |-> i, creative |-> 0, amount |-> amounts[i]]} \cup
         {[of |-> x, to |-> to, place |-> i, creative |-> c, amount |-> Split(amounts[i], 2)[c]] : c \in 1..2}
         : i \in DOMAIN amounts}

-----------------------------------------------------------------------------
(* Creating *)

\* start_test: the experiment, six creatives and the allocations, one commit.
StartTest(x, budget) ==
  /\ test[x] = None
  /\ test' = [test EXCEPT ![x] = [status |-> "draft", platforms |-> <<>>, budget |-> 0,
                                  processing |-> FALSE]]
  /\ allocated' = allocated \cup Allocations(x, "test", Split(budget, Len(EnginePlatforms)))
  /\ UNCHANGED <<rounds, listing, work>>

CreateExperiment(x, platforms, budget) ==
  /\ test[x] = None
  /\ test' = [test EXCEPT ![x] = [status |-> "draft", platforms |-> platforms,
                                  budget |-> budget, processing |-> FALSE]]
  /\ UNCHANGED <<rounds, allocated, listing, work>>

-----------------------------------------------------------------------------
(* Starting: the status is committed, then the first round *)

FirstRound(x) == \E r \in rounds : r.of = x

StartExperiment(w, x) ==
  /\ work[w] = None /\ test[x] # None
  /\ test[x].status # "running"
  /\ test' = [test EXCEPT ![x].status = "running"]
  /\ work' = [work EXCEPT ![w] = [step |-> "look", of |-> x, items |-> {}]]
  /\ UNCHANGED <<rounds, allocated, listing>>

\* A round that is there is kept; without platforms it raises.
LookForRound(w) ==
  /\ work[w] # None /\ work[w].step = "look"
  /\ work' = [work EXCEPT ![w] =
       IF FirstRound(@.of) \/ test[@.of].platforms = <<>> THEN None ELSE [@ EXCEPT !.step = "insert"]]
  /\ UNCHANGED <<test, rounds, allocated, listing>>

\* The dict keeps the last share of a platform that is named twice.
BudgetPlan(platforms, budget) ==
  [p \in ToSet(platforms) |->
     Split(budget, Len(platforms))[Max({i \in DOMAIN platforms : platforms[i] = p})]]

\* What the assets of a round share: each place of the list has its platform's.
PlaceAmounts(list, plan) == [i \in DOMAIN list |-> plan[list[i]]]

\* The round and its assets in one commit; uq_round_index refuses a second.
CreateRound(w) ==
  /\ work[w] # None /\ work[w].step = "insert"
  /\ LET x == work[w].of
         list == test[x].platforms
         plan == BudgetPlan(list, test[x].budget)
     IN IF FirstRound(x)
        THEN UNCHANGED <<rounds, allocated>>
        ELSE /\ rounds' = rounds \cup {[of |-> x, plan |-> plan]}
             /\ allocated' = allocated \cup
                  Allocations(x, "round", PlaceAmounts(list, plan))
  /\ work' = [work EXCEPT ![w] = None]
  /\ UNCHANGED <<test, listing>>

-----------------------------------------------------------------------------
(* Closing a round *)

\* The row is locked until "processing" is committed; a second task returns.
CloseRound(w, x) ==
  /\ work[w] = None /\ test[x] # None
  /\ ~test[x].processing
  /\ test' = [test EXCEPT ![x].processing = TRUE]
  /\ work' = [work EXCEPT ![w] = [step |-> "close", of |-> x, items |-> {}]]
  /\ UNCHANGED <<rounds, allocated, listing>>

\* _create_round writes ended_at, a week ahead: no round has ended_at NULL, and
\* the task ends where it looks for one.
NoOpenRound(w) ==
  /\ work[w] # None /\ work[w].step = "close"
  /\ test' = [test EXCEPT ![work[w].of].processing = FALSE]
  /\ work' = [work EXCEPT ![w] = None]
  /\ UNCHANGED <<rounds, allocated, listing>>

\* The weight of a platform, 1 / (spend / clicks + 1), times the product of
\* all clicks + spend; none without clicks.
Weight(seen, p) ==
  LET factor == [q \in DOMAIN seen |->
                   IF seen[q].clicks = 0 THEN 1 ELSE seen[q].clicks + seen[q].spend]
  IN IF seen[p].clicks = 0 THEN 0
     ELSE seen[p].clicks * FoldFunctionOnSet(LAMBDA m, n : m * n, 1, factor, (DOMAIN seen) \ {p})

\* The next plan of a round of `total` (seen: what the rows of a platform add
\* up to): by weight, and the platform of the worst price takes what remains.  Dividing by no
\* weight at all raises.
Reallocated(total, seen) ==
  LET weight == [p \in DOMAIN seen |-> Weight(seen, p)]
      all == SumFunction(weight)
      worst == CHOOSE p \in DOMAIN seen : \A q \in DOMAIN seen : weight[p] <= weight[q]
      others == (DOMAIN seen) \ {worst}
      share == [p \in others |-> (total * weight[p]) \div all]
  IN IF all = 0 /\ others # {} THEN None
     ELSE [p \in DOMAIN seen |-> IF p = worst THEN total - SumFunction(share) ELSE share[p]]

-----------------------------------------------------------------------------
(* The campaigns of an experiment *)

\* PUT: the rows there are are deleted, the new ones added at the commit.
UpdateCampaigns(w, x, items) ==
  /\ work[w] = None /\ test[x] # None
  /\ work' = [work EXCEPT ![w] = [step |-> "replace", of |-> x, items |-> items, old |-> listing[x]]]
  /\ UNCHANGED <<test, rounds, allocated, listing>>

\* uq_experiment_campaign refuses a row another request added meanwhile.
ReplaceCampaigns(w) ==
  /\ work[w] # None /\ work[w].step = "replace"
  /\ LET x == work[w].of
         left == listing[x] \ work[w].old
     IN listing' = [listing EXCEPT ![x] = IF left \cap work[w].items # {} THEN @
                                          ELSE left \cup work[w].items]
  /\ work' = [work EXCEPT ![w] = None]
  /\ UNCHANGED <<test, rounds, allocated>>

-----------------------------------------------------------------------------
\* A process is lost; what was committed stays.
LoseWork(w) ==
  /\ work[w] # None
  /\ work' = [work EXCEPT ![w] = None]
  /\ UNCHANGED <<test, rounds, allocated, listing>>

ExperimentsStep ==
  \/ \E x \in Tests, budget \in Budgets :
       StartTest(x, budget) \/ \E platforms \in PlatformLists : CreateExperiment(x, platforms, budget)
  \/ \E w \in Starters :
       \/ LookForRound(w) \/ CreateRound(w) \/ NoOpenRound(w) \/ ReplaceCampaigns(w)
       \/ \E x \in Tests : \/ StartExperiment(w, x) \/ CloseRound(w, x)
                           \/ \E items \in SUBSET ListedIds : UpdateCampaigns(w, x, items)

ExperimentsFault == \E w \in Starters : LoseWork(w)

ExperimentsSpec == ExperimentsInit /\ [][ExperimentsStep \/ ExperimentsFault]_testVars

-----------------------------------------------------------------------------
ExperimentsTypeOK ==
  /\ \A x \in Tests : test[x] = None \/ test[x] \in Test
  /\ \A r \in rounds : r.of \in Tests /\ \A p \in DOMAIN r.plan : r.plan[p] \in Nat
  /\ allocated \subseteq Allocation
  /\ listing \in [Tests -> SUBSET ListedIds]
  /\ \A w \in Starters : work[w] = None \/ work[w].step \in {"look", "insert", "close", "replace"}

Total(A) == SumFunction([a \in A |-> a.amount])

AllocatedTo(x, to, creatives) ==
  {a \in allocated : a.of = x /\ a.to = to /\ a.creative \in creatives}

Distinct(s) == Cardinality(ToSet(s)) = Len(s)

\* Not a rouble is lost or spent twice: creatives share what their platform
\* has, platforms what the test or the round has, a round what the experiment
\* has (_allocate_budget, _create_round, _create_round_assets), however many
\* starts there are at once.
SharesAddUp ==
  /\ \A x \in Tests, to \in {"test", "round"} :
       \A a \in AllocatedTo(x, to, {0}) :
         a.amount = Total({b \in AllocatedTo(x, to, 1..2) : b.place = a.place})
  /\ \A x \in Tests : AllocatedTo(x, "test", {0}) # {} =>
       \E budget \in Budgets : Total(AllocatedTo(x, "test", {0})) = budget
  /\ \A r \in rounds :
       Distinct(test[r.of].platforms) =>
         /\ SumFunction(r.plan) = test[r.of].budget
         /\ Total(AllocatedTo(r.of, "round", {0})) = test[r.of].budget
  /\ \A r, q \in rounds : r.of = q.of => r = q

\* The next plan spends what the last one did, whatever was seen: checked for
\* every experiment's platforms and small figures.
NextPlanAddsUp ==
  \A x \in Tests : test[x] # None =>
    \A seen \in [ToSet(test[x].platforms) -> [clicks : 0..2, spend : {0, 3}]] :
      seen # <<>> =>
        LET plan == Reallocated(test[x].budget, seen)
        IN plan # None =>
             /\ SumFunction(plan) = test[x].budget
             /\ \A p \in DOMAIN seen : plan[p] \in Nat

\* An experiment's money is shared out once and completely.
BudgetConserved == SharesAddUp /\ NextPlanAddsUp
=============================================================================
