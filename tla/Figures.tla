------------------------------ MODULE Figures -------------------------------
(***************************************************************************)
(* What the screens count: the endpoints of api/metrics.py and             *)
(* api/dashboard.py, with services/metrics_service.py, dashboard_service   *)
(* and dashboard_unified_service.  Each answers from metric_snapshots as   *)
(* they are; here the rows come one at a time, as MetricStore writes them, *)
(* and every endpoint is a function of the rows there are.                 *)
(*                                                                         *)
(* A figure that is summed is one of Kinds; purchases are the conversions  *)
(* of the dashboards.  Columns are summed one by one: a dashboard that has *)
(* fewer of them agrees with the others in those it has.  Ratios and the   *)
(* wording of answers are left out.                                        *)
(***************************************************************************)
EXTENDS Deployment, FiniteSetsExt, Functions

CONSTANTS
  Tenants, Conns, Exps,  \* organizations, their connections, experiments
  Camps, Channels,       \* external campaigns, platforms
  Kinds, Amounts,        \* the columns that are summed, what a row has in one
  MaxDay, MaxRows,       \* bounds: days, rows of metric_snapshots
  MaxListed              \* bound: campaigns listed for an experiment

Days == 1..MaxDay

Levels == {"campaign", "ad"}

\* The columns that tell the rows of metric_snapshots apart.
Key == [org : Tenants, conn : Conns \cup {None}, exp : Exps \cup {None},
        channel : Channels, level : Levels, camp : Camps, day : Days]

Row == [Kinds -> Amounts]

\* Of the columns that are averaged, some are among Kinds.
Indexed == Kinds \ {"revenue", "leads"}

ASSUME FiguresAssumption ==
  /\ MaxDay \in Nat /\ MaxRows \in Nat /\ MaxListed \in Nat
  /\ None \notin Conns \cup Exps
  /\ Amounts \subseteq Nat
  /\ Kinds \subseteq {"impressions", "clicks", "spend", "conversions", "revenue", "leads"}
  /\ Indexed # {}

VARIABLES
  owner,   \* the organization of a connection or an experiment
  channel, \* connections.platform
  listed,  \* experiment_campaigns
  rows     \* metric_snapshots

figureVars == <<owner, channel, listed, rows>>

FiguresInit ==
  /\ owner \in [Conns \cup Exps -> Tenants]
  /\ channel \in [Conns -> Channels]
  /\ listed \in [Exps -> {L \in SUBSET (Channels \X Camps) : Cardinality(L) <= MaxListed}]
  /\ rows = [k \in {} |-> 0]

\* The upsert: one row for a key, and one for all that a connection has of a
\* campaign and a day, of an experiment or not (uq_metric_connection_campaign).
Put(k, v) ==
  /\ \A j \in DOMAIN rows : [j EXCEPT !.exp = k.exp] = k => j = k
  /\ Cardinality(DOMAIN rows \cup {k}) <= MaxRows
  /\ rows' = [j \in DOMAIN rows \cup {k} |-> IF j = k THEN v ELSE rows[j]]
  /\ UNCHANGED <<owner, channel, listed>>

\* The sync of a connection stores its campaigns and ads, or updates the row
\* that an experiment stored.
SyncedRow(c) ==
  \E x \in Exps \cup {None}, level \in Levels, camp \in Camps, day \in Days, v \in Row :
    LET k == [org |-> owner[c], conn |-> c, exp |-> x, channel |-> channel[c],
              level |-> level, camp |-> camp, day |-> day]
    IN (x # None => k \in DOMAIN rows) /\ Put(k, v)

\* That of an experiment stores campaigns by the connection of its plan, which
\* is one for all its rows; it fails on a row the connection's sync stored.
ExperimentRow(x) ==
  \E c \in Conns, camp \in Camps, day \in Days, v \in Row :
    /\ owner[c] = owner[x]
    /\ \A k \in DOMAIN rows : k.exp = x => k.conn = c
    /\ Put([org |-> owner[x], conn |-> c, exp |-> x, channel |-> channel[c],
            level |-> "campaign", camp |-> camp, day |-> day], v)

FiguresNext ==
  \/ \E c \in Conns : SyncedRow(c)
  \/ \E x \in Exps : ExperimentRow(x)

FiguresSpec == FiguresInit /\ [][FiguresNext]_figureVars

-----------------------------------------------------------------------------
(* Sums and series *)

\* func.sum of each column.
Sum_(K) == [f \in Kinds |-> SumFunction([k \in K |-> rows[k][f]])]

\* GROUP BY: the sum of the rows that have the same by[k].
GroupBy(by) ==
  [g \in Range(by) |-> Sum_({k \in DOMAIN by : by[k] = g})]

\* What the loops over an answer add up.
Added(series) ==
  [f \in Kinds |-> SumFunction([g \in DOMAIN series |-> series[g][f]])]

Daily(K) == GroupBy([k \in K |-> k.day])

Zero == [f \in Kinds |-> 0]

\* The rows of an organization's connections C from one day to another.
Selected(o, C, from, to, level) ==
  {k \in DOMAIN rows : /\ k.org = o
                       /\ k.conn \in C
                       /\ from <= k.day /\ k.day <= to
                       /\ k.level = level}

OwnConns(o) == {c \in Conns : owner[c] = o}

-----------------------------------------------------------------------------
(* api/metrics.py *)

\* The ids of the request, none for all; 404 if one is not the organization's.
Found(o, C) == C \subseteq OwnConns(o)
Resolved(o, C) == IF C = {} THEN OwnConns(o) ELSE C

MetricsByConnection(o, c, from, to) == Daily(Selected(o, {c}, from, to, "campaign"))

Timeseries(o, C, from, to) == Daily(Selected(o, Resolved(o, C), from, to, "campaign"))

TimeseriesTotals(o, C, from, to) == Added(Timeseries(o, C, from, to))

\* Grouped by platform and external id, whichever connection it came by; all
\* the pages that limit and offset cut of it.
Breakdown(o, C, from, to, dimension) ==
  GroupBy([k \in Selected(o, Resolved(o, C), from, to, dimension) |-> <<k.channel, k.camp>>])

\* /metrics/summary of a plan reads every level, and is zero without
\* impressions, clicks and spend.
PlanSummary(x, from, to) ==
  LET sum == Sum_({k \in DOMAIN rows : /\ k.exp = x /\ k.org = owner[x]
                                       /\ from <= k.day /\ k.day <= to})
  IN IF \A f \in Kinds \cap {"impressions", "clicks", "spend"} : sum[f] = 0
     THEN Zero ELSE sum

-----------------------------------------------------------------------------
(* The dashboards *)

\* Mutant of KpiRows: the level is not filtered.
KpiRowsOfAllLevels(o, C, from, to, platforms) ==
  {k \in UNION {Selected(o, Resolved(o, C), from, to, l) : l \in Levels} :
     k.channel \in platforms}

\* Both KPI queries, which answer 404 to an id given twice; the platform filters
\* the rows.
KpiRows(o, C, from, to, platforms) ==
  {k \in Selected(o, Resolved(o, C), from, to, "campaign") : k.channel \in platforms}

KpiSummary(o, C, from, to, platforms) == Sum_(KpiRows(o, C, from, to, platforms))

KpiTimeseries(o, C, from, to, platforms) == Daily(KpiRows(o, C, from, to, platforms))

Largest(series, f) == Max({0} \cup {series[d][f] : d \in DOMAIN series})

\* round(value / max * 100, 1) without its decimals.
Percent(n, max) == IF max > 0 THEN (100 * n) \div max ELSE 0

KpiIndex(series, d, f) == Percent(series[d][f], Largest(series, f))

\* The channel filters the connections; ids of others are ignored.
UnifiedConns(o, C, platforms) ==
  {c \in OwnConns(o) : channel[c] \in platforms /\ (C # {} => c \in C)}

Unified(o, C, from, to, platforms) ==
  Daily(Selected(o, UnifiedConns(o, C, platforms), from, to, "campaign"))

\* The average of the normalized figures.
UnifiedIndex(series, d) ==
  SumFunction([f \in Indexed |-> KpiIndex(series, d, f)]) \div Cardinality(Indexed)

AvailableChannels(o) == {channel[c] : c \in OwnConns(o)}

\* One connection or all; the days and, of all, the connections.
DashboardDaily(o, C, from, to) == Daily(Selected(o, Resolved(o, C), from, to, "campaign"))

DashboardConnections(o, from, to) ==
  GroupBy([k \in Selected(o, OwnConns(o), from, to, "campaign") |-> k.conn])

-----------------------------------------------------------------------------
(* services/metrics_service.py on experiments *)

ListedCamps(x, p) == {camp \in Camps : <<p, camp>> \in listed[x]}

\* The campaigns of the experiment on the platform, all of its plan if none
\* is listed.  Without a plan there is no filter, and no row: syncs need one.
ExperimentRows(x, p, from, to) ==
  {k \in DOMAIN rows : /\ k.exp = x /\ k.channel = p /\ k.level = "campaign"
                       /\ from <= k.day /\ k.day <= to
                       /\ ListedCamps(x, p) # {} => k.camp \in ListedCamps(x, p)}

ExperimentMetrics(x, p, from, to) ==
  GroupBy([k \in ExperimentRows(x, p, from, to) |-> <<k.day, k.camp>>])

ExperimentSummary(x, p, from, to) == Sum_(ExperimentRows(x, p, from, to))

\* The columns of a report.
Reported == Kinds \cap {"impressions", "clicks", "spend"}

\* The report, by platform and day.
ExperimentReport(x, platforms, from, to) ==
  LET groups == GroupBy([k \in UNION {ExperimentRows(x, p, from, to) : p \in platforms} |-> <<k.channel, k.day>>])
  IN [g \in DOMAIN groups |-> [f \in Reported |-> groups[g][f]]]

-----------------------------------------------------------------------------
FiguresTypeOK ==
  /\ owner \in [Conns \cup Exps -> Tenants] /\ channel \in [Conns -> Channels]
  /\ listed \in [Exps -> SUBSET (Channels \X Camps)]
  /\ DOMAIN rows \subseteq Key /\ \A k \in DOMAIN rows : rows[k] \in Row

\* The same question has the same answer wherever it is asked: for the
\* connections and days of a request, the series of /metrics/timeseries, the
\* breakdown by campaign, the KPI series and cards, the unified chart and the
\* summary with its connections all add up to the same totals.
ScreensAgree ==
  \A o \in Tenants, C \in SUBSET Conns, from, to \in Days :
    from <= to /\ Found(o, C) =>
      LET totals == TimeseriesTotals(o, C, from, to)
      IN /\ Added(Breakdown(o, C, from, to, "campaign")) = totals
         /\ KpiSummary(o, C, from, to, Channels) = totals
         /\ Added(DashboardDaily(o, C, from, to)) = totals
         /\ C = {} => Added(DashboardConnections(o, from, to)) = totals
         /\ \A c \in C : C = {c} => MetricsByConnection(o, c, from, to) = Timeseries(o, C, from, to)
         /\ \A platforms \in SUBSET Channels :
              LET kpi == KpiTimeseries(o, C, from, to, platforms)
              IN /\ Unified(o, C, from, to, platforms) = kpi
                 /\ Added(kpi) = KpiSummary(o, C, from, to, platforms)

\* An experiment's metrics and report add up to its summaries, which count at
\* most what the summary of its plan does.
ExperimentsAgree ==
  \A x \in Exps, p \in Channels, from, to \in Days :
    from <= to =>
      LET total == ExperimentSummary(x, p, from, to)
      IN /\ Added(ExperimentMetrics(x, p, from, to)) = total
         /\ LET report == ExperimentReport(x, {p}, from, to)
            IN \A f \in Reported : SumFunction([g \in DOMAIN report |-> report[g][f]]) = total[f]
         /\ PlanSummary(x, from, to) # Zero =>
              \A f \in Kinds : total[f] <= PlanSummary(x, from, to)[f]

\* An index is between 0 and 100, every figure has a best day, and a chart
\* shows no channel that has no rows of its organization's.
IndicesScale ==
  \A o \in Tenants, C \in SUBSET Conns, platforms \in SUBSET Channels :
    LET series == Unified(o, C, 1, MaxDay, platforms)
    IN /\ \A d \in DOMAIN series : UnifiedIndex(series, d) \in 0..100
       /\ \A f \in Kinds : Largest(series, f) > 0 => \E d \in DOMAIN series : KpiIndex(series, d, f) = 100
       /\ series # Daily({}) => platforms \cap AvailableChannels(o) # {}

\* Screens that ask the same of the rows answer the same (get_unified_timeseries,
\* build_kpi_summary, metrics_breakdown and the others), and indices are scaled.
FiguresAgree == ScreensAgree /\ ExperimentsAgree /\ IndicesScale
=============================================================================
