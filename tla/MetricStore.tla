---------------------------- MODULE MetricStore ----------------------------
(***************************************************************************)
(* The table metric_snapshots under its concurrent writers:                *)
(*                                                                         *)
(*   Syncs     transactions that store what a platform reports, of a kind: *)
(*     "sync"        sync_connection_metrics                               *)
(*     "force"       the same with force=True                              *)
(*     "experiment"  sync_metrics, for the campaigns of an experiment      *)
(*     "task"        the Celery task sync_yandex_metrics                   *)
(*     "import"      /integrations/yandex/reports/sync and .../vk/stats/sync *)
(*   Handlers  HTTP requests that record a conversion (EventService)       *)
(*                                                                         *)
(* PostgreSQL at READ COMMITTED: a row written by an open transaction is   *)
(* locked until its end, a conflicting insert waits for it, a cycle of     *)
(* waits ends one transaction.  One organization and platform; a key is a  *)
(* campaign on a day; of the figures of a row, leads stands for all.       *)
(***************************************************************************)
EXTENDS Naturals, FiniteSets

CONSTANTS
  Conns,          \* connections
  Exps,           \* experiments
  Keys,           \* campaign-days
  ExpConn,        \* ExpConn[x]: the connection of the experiment's plan
  EventKey,       \* the campaign-day that conversions are booked on ...
  EventConn, EventExp,  \* ... and the connection and experiment of their plan
  Syncs, Handlers, EventIds,
  Kinds,          \* the kinds of sync that are around
  RowIds,         \* the rows that may be created (bounds the model)
  MaxLeads,       \* bound on what a platform reports
  None

AllKinds == {"sync", "force", "experiment", "task", "import"}

Row == [conn : Conns \cup {None}, exp : Exps \cup {None}, key : Keys, leads : Nat]
Seen == [row : RowIds, leads : Nat]  \* a snapshot as a handler read it

ASSUME MetricStoreAssumption ==
  /\ ExpConn \in [Exps -> Conns]
  /\ EventKey \in Keys
  /\ EventConn \in Conns \cup {None}
  /\ EventExp \in Exps \cup {None}
  /\ Kinds \subseteq AllKinds
  /\ MaxLeads \in Nat
  /\ None \notin Conns \cup Exps \cup Keys \cup Syncs \cup RowIds \cup EventIds
  /\ None \notin Row \cup Seen
  /\ IsFiniteSet(EventIds)

VARIABLES
  truth,    \* what the platform reports for a key at the moment
  top,      \* history: the most it ever reported
  rows,     \* metric_snapshots, committed
  dirty,    \* the version of a locked row its transaction has written
  lock,     \* the transaction that holds a row
  linked,   \* experiment_campaigns
  catalog,  \* ad_campaigns of a connection
  spc, kind, at,  \* a sync: control, kind, its connection or experiment
  got,      \* the figures it fetched
  left,     \* the records it has still to store
  cur,      \* the record it is storing
  report,   \* the counters it returns
  events,   \* conversion_events, committed
  hpc, hev, \* a handler: control, its event
  hseen     \* the snapshot as it read it, or None

store == <<rows, dirty, lock>>
svars == <<spc, kind, at, got, left, cur, report>>
hvars == <<events, hpc, hev, hseen>>
vars  == <<truth, top, store, linked, catalog, svars, hvars>>

NoReport == [inserted |-> 0, updated |-> 0, unchanged |-> 0]

ConnOf(s) == IF kind[s] = "experiment" THEN ExpConn[at[s]] ELSE at[s]
ExpOf(s)  == IF kind[s] = "experiment" THEN at[s] ELSE None

NoFigures == [k \in Keys |-> 0]

Init ==
  /\ truth \in [Keys -> 0..MaxLeads]
  /\ top = truth
  /\ rows = [r \in RowIds |-> None]
  /\ dirty = [r \in RowIds |-> None]
  /\ lock = [r \in RowIds |-> None]
  /\ linked = [x \in Exps |-> {}]
  /\ catalog = [c \in Conns |-> {}]
  /\ spc = [s \in Syncs |-> "idle"]
  /\ kind = [s \in Syncs |-> None]
  /\ at = [s \in Syncs |-> None]
  /\ got = [s \in Syncs |-> NoFigures]
  /\ left = [s \in Syncs |-> {}]
  /\ cur = [s \in Syncs |-> None]
  /\ report = [s \in Syncs |-> NoReport]
  /\ events = {}
  /\ hpc = [h \in Handlers |-> "idle"]
  /\ hev = [h \in Handlers |-> None]
  /\ hseen = [h \in Handlers |-> None]

-----------------------------------------------------------------------------
(* Rows, unique indexes and locks *)

\* The newest version of a row, committed or not: what unique indexes see.
Newest(r) == IF lock[r] = None THEN rows[r] ELSE dirty[r]

\* uq_metric_connection_campaign and uq_metric_campaign: a NULL conflicts
\* with nothing.
Clash(r, c, x, k) ==
  /\ Newest(r) # None
  /\ Newest(r).key = k
  /\ \/ c # None /\ Newest(r).conn = c
     \/ x # None /\ Newest(r).exp = x

\* A row for the record k of a sync, by the index it relies on.
RowFor(s, row, k) ==
  /\ row # None
  /\ row.key = k
  /\ IF kind[s] = "experiment" THEN row.exp = at[s] ELSE row.conn = at[s]

\* What its ON CONFLICT clause finds; an import has no such clause.
Arbiter(s, r, k) == kind[s] # "import" /\ RowFor(s, Newest(r), k)

\* Another transaction has an uncommitted insert or update of the row: an
\* insert that conflicts with it waits for its end.
Pending(p, r) == lock[r] \notin {None, p} /\ dirty[r] # rows[r]

\* The rows of an ended transaction, which kept or lost what it wrote.
Unlocked(p)  == [r \in RowIds |-> IF lock[r] = p THEN None ELSE lock[r]]
Cleared(p)   == [r \in RowIds |-> IF lock[r] = p THEN None ELSE dirty[r]]
Committed(p) == [r \in RowIds |-> IF lock[r] = p THEN dirty[r] ELSE rows[r]]

Write(s, r, row) ==
  /\ dirty' = [dirty EXCEPT ![r] = row]
  /\ lock' = [lock EXCEPT ![r] = s]

-----------------------------------------------------------------------------
(* Syncs *)

PlatformReports(k, n) ==
  /\ n # truth[k]
  /\ truth' = [truth EXCEPT ![k] = n]
  /\ top' = [top EXCEPT ![k] = IF n > @ THEN n ELSE @]
  /\ UNCHANGED <<store, linked, catalog, svars, hvars>>

\* sync_campaigns, a run of its own or the first half of a full run.
LinkCampaigns(x) ==
  /\ linked[x] # Keys
  /\ linked' = [linked EXCEPT ![x] = Keys]
  /\ UNCHANGED <<truth, top, store, catalog, svars, hvars>>

\* The next record, in an order the platform is free to choose.
Take(s, rest) ==
  /\ left' = [left EXCEPT ![s] = rest]
  /\ \E k \in IF rest = {} THEN {None} ELSE rest : cur' = [cur EXCEPT ![s] = k]

\* A sync fetches its records; one with nothing to do ends there.
Fetch(s, kd, t) ==
  LET ks == IF kd = "experiment" THEN linked[t] ELSE Keys
  IN /\ spc[s] \in {"idle", "success"}
     /\ t \in (IF kd = "experiment" THEN Exps ELSE Conns)
     /\ ks # {}
     /\ spc' = [spc EXCEPT ![s] = "upsert"]
     /\ kind' = [kind EXCEPT ![s] = kd]
     /\ at' = [at EXCEPT ![s] = t]
     /\ got' = [got EXCEPT ![s] = truth]
     /\ report' = [report EXCEPT ![s] = NoReport]
     /\ Take(s, ks)
     /\ UNCHANGED <<truth, top, store, linked, catalog, hvars>>

\* The local variables of a sync go with its end.
Forget(s) ==
  /\ got' = [got EXCEPT ![s] = NoFigures]
  /\ report' = [report EXCEPT ![s] = NoReport]

\* The transaction rolls back and the sync ends with an error.
Abort(s) ==
  /\ spc' = [spc EXCEPT ![s] = "idle"]
  /\ dirty' = Cleared(s)
  /\ lock' = Unlocked(s)
  /\ left' = [left EXCEPT ![s] = {}]
  /\ cur' = [cur EXCEPT ![s] = None]
  /\ kind' = [kind EXCEPT ![s] = None]
  /\ at' = [at EXCEPT ![s] = None]
  /\ Forget(s)
  /\ UNCHANGED <<truth, top, rows, linked, catalog, hvars>>

\* INSERT ... ON CONFLICT DO NOTHING (or a plain INSERT) adds the row.
InsertRow(s) ==
  LET k == cur[s] IN
    /\ spc[s] = "upsert"
    /\ k # None
    /\ \A r \in RowIds : ~Clash(r, ConnOf(s), ExpOf(s), k)
    /\ \E r \in RowIds :
         /\ Newest(r) = None
         /\ Write(s, r, [conn |-> ConnOf(s), exp |-> ExpOf(s), key |-> k, leads |-> got[s][k]])
    /\ report' = [report EXCEPT ![s].inserted = @ + 1]
    /\ Take(s, left[s] \ {k})
    /\ UNCHANGED <<truth, top, rows, linked, catalog, spc, kind, at, got, hvars>>

\* Mutant of FindRow: the first statement's conflict settles the record
\* where it reads the same figures; the row is not locked.
FindRowCompared(s) ==
  LET k == cur[s] IN
    /\ spc[s] = "upsert"
    /\ \E r \in RowIds :
         /\ Arbiter(s, r, k)
         /\ ~Pending(s, r)
         /\ IF rows[r] # None /\ rows[r].leads = got[s][k]
              THEN /\ report' = [report EXCEPT ![s].unchanged = @ + 1]
                   /\ Take(s, left[s] \ {k})
                   /\ UNCHANGED spc
              ELSE /\ spc' = [spc EXCEPT ![s] = "update"]
                   /\ UNCHANGED <<report, left, cur>>
    /\ UNCHANGED <<truth, top, store, linked, catalog, kind, at, got, hvars>>

\* The insert met a row under its conflict target and did nothing.
FindRow(s) ==
  /\ spc[s] = "upsert"
  /\ \E r \in RowIds : Arbiter(s, r, cur[s]) /\ ~Pending(s, r)
  /\ spc' = [spc EXCEPT ![s] = "update"]
  /\ UNCHANGED <<truth, top, store, linked, catalog, kind, at, got, left, cur, report, hvars>>

\* The row conflicts under an index that is not the conflict target: an
\* experiment's row with one of its connection, or an import with any.
ViolateIndex(s) ==
  /\ spc[s] = "upsert"
  /\ \A r \in RowIds : ~Arbiter(s, r, cur[s])
  /\ \E r \in RowIds : Clash(r, ConnOf(s), ExpOf(s), cur[s]) /\ ~Pending(s, r)
  /\ Abort(s)

\* Mutant of UpdateRow: the condition of the update is forgotten.
UpdateRowAlways(s) ==
  LET k == cur[s] IN
    /\ spc[s] = "update"
    /\ \E r \in RowIds :
         /\ Arbiter(s, r, k)
         /\ lock[r] \in {None, s}
         /\ Write(s, r, [Newest(r) EXCEPT !.leads = got[s][k]])
    /\ report' = [report EXCEPT ![s].updated = @ + 1]
    /\ spc' = [spc EXCEPT ![s] = "upsert"]
    /\ Take(s, left[s] \ {k})
    /\ UNCHANGED <<truth, top, rows, linked, catalog, kind, at, got, hvars>>

\* Mutant of UpdateRow: the record is taken off the inserted ones, which the
\* insert that did nothing never counted it among.
UpdateRowCorrected(s) ==
  LET k == cur[s] IN
    /\ spc[s] = "update"
    /\ \E r \in RowIds :
         /\ Arbiter(s, r, k)
         /\ lock[r] \in {None, s}
         /\ Write(s, r, [Newest(r) EXCEPT !.leads = got[s][k]])
    /\ report' = [report EXCEPT ![s].inserted = @ - 1, ![s].updated = @ + 1]
    /\ spc' = [spc EXCEPT ![s] = "upsert"]
    /\ Take(s, left[s] \ {k})
    /\ UNCHANGED <<truth, top, rows, linked, catalog, kind, at, got, hvars>>

\* INSERT ... ON CONFLICT DO UPDATE locks the row, and writes it unless its
\* figures are the same already (_metric_needs_update).  The Celery task has
\* this statement alone, which finds the row and updates it.
UpdateRow(s) ==
  LET k == cur[s] IN
    /\ spc[s] = "update"
    /\ \E r \in RowIds :
         /\ Arbiter(s, r, k)
         /\ lock[r] \in {None, s}
         /\ Write(s, r, [Newest(r) EXCEPT !.leads = got[s][k]])
         /\ report' = IF kind[s] \in {"force", "task"} \/ Newest(r).leads # got[s][k]
                        THEN [report EXCEPT ![s].updated = @ + 1]
                        ELSE [report EXCEPT ![s].unchanged = @ + 1]
    /\ spc' = [spc EXCEPT ![s] = "upsert"]
    /\ Take(s, left[s] \ {k})
    /\ UNCHANGED <<truth, top, rows, linked, catalog, kind, at, got, hvars>>

CommitSync(s) ==
  /\ spc[s] = "upsert"
  /\ left[s] = {}
  /\ spc' = [spc EXCEPT ![s] = "committed"]
  /\ rows' = Committed(s)
  /\ dirty' = Cleared(s)
  /\ lock' = Unlocked(s)
  /\ UNCHANGED <<truth, top, linked, catalog, kind, at, got, left, cur, report, hvars>>

CampaignsOf(c) == {rows[r].key : r \in {q \in RowIds : rows[q] # None /\ rows[q].conn = c}}

\* Mutant of Finish: no refresh when the sync inserted nothing.
FinishWithoutInserts(s) ==
  /\ spc[s] = "committed"
  /\ spc' = [spc EXCEPT ![s] = "success"]
  /\ catalog' = IF kind[s] \in {"sync", "force"} /\ report[s].inserted > 0
                  THEN [catalog EXCEPT ![at[s]] = @ \cup CampaignsOf(at[s])]
                  ELSE catalog
  /\ Forget(s)
  /\ UNCHANGED <<truth, top, store, linked, kind, at, left, cur, hvars>>

\* A sync of a connection refreshes the catalogue in a second transaction.
Finish(s) ==
  /\ spc[s] = "committed"
  /\ spc' = [spc EXCEPT ![s] = "success"]
  /\ catalog' = IF kind[s] \in {"sync", "force"}
                  THEN [catalog EXCEPT ![at[s]] = @ \cup CampaignsOf(at[s])]
                  ELSE catalog
  /\ Forget(s)
  /\ UNCHANGED <<truth, top, store, linked, kind, at, left, cur, hvars>>

\* A record that does not validate, a lost connection, a lost process.
FailSync(s) ==
  /\ spc[s] \in {"upsert", "update", "committed"}
  /\ Abort(s)

\* The transactions a sync waits for.
WaitsFor(s) ==
  {lock[r] : r \in {q \in RowIds :
     \/ /\ spc[s] = "upsert"
        /\ Arbiter(s, q, cur[s]) \/ Clash(q, ConnOf(s), ExpOf(s), cur[s])
        /\ Pending(s, q)
     \/ /\ spc[s] = "update"
        /\ Arbiter(s, q, cur[s])
        /\ lock[q] \notin {None, s}}}

\* Mutant of BreakDeadlock: the error is caught without a rollback.
BreakDeadlockKeepLocks(s) ==
  /\ \E cycle \in SUBSET Syncs :
       /\ s \in cycle
       /\ \A p \in cycle : \E q \in cycle : q \in WaitsFor(p)
       /\ \A q \in cycle : \E p \in cycle : q \in WaitsFor(p)
  /\ spc' = [spc EXCEPT ![s] = "idle"]
  /\ left' = [left EXCEPT ![s] = {}]
  /\ cur' = [cur EXCEPT ![s] = None]
  /\ UNCHANGED <<truth, top, store, linked, catalog, kind, at, got, report, hvars>>

\* PostgreSQL ends one transaction of a cycle of waits.
BreakDeadlock(s) ==
  /\ \E cycle \in SUBSET Syncs :
       /\ s \in cycle
       /\ \A p \in cycle : \E q \in cycle : q \in WaitsFor(p)
       /\ \A q \in cycle : \E p \in cycle : q \in WaitsFor(p)
  /\ Abort(s)

-----------------------------------------------------------------------------
(* Conversion events *)

\* A request, new or repeated, looks for its event_id.
Receive(h, v) ==
  /\ hpc[h] = "idle"
  /\ v \notin events
  /\ hpc' = [hpc EXCEPT ![h] = "record"]
  /\ hev' = [hev EXCEPT ![h] = v]
  /\ UNCHANGED <<truth, top, store, linked, catalog, svars, events, hseen>>

\* Mutant of RecordEvent: the row count of the insert is not looked at.
RecordEventTwice(h) ==
  /\ hpc[h] = "record"
  /\ events' = events \cup {hev[h]}
  /\ hpc' = [hpc EXCEPT ![h] = "read"]
  /\ UNCHANGED <<truth, top, store, linked, catalog, svars, hev, hseen>>

\* The insert commits on its own; only the request that made it goes on.
RecordEvent(h) ==
  /\ hpc[h] = "record"
  /\ events' = events \cup {hev[h]}
  /\ hpc' = [hpc EXCEPT ![h] = IF hev[h] \in events THEN "idle" ELSE "read"]
  /\ UNCHANGED <<truth, top, store, linked, catalog, svars, hev, hseen>>

\* _update_metrics reads one of the snapshots of the campaign and the day.
ReadSnapshot(h) ==
  LET found == {r \in RowIds : rows[r] # None /\ rows[r].key = EventKey}
  IN /\ hpc[h] = "read"
     /\ hpc' = [hpc EXCEPT ![h] = "write"]
     /\ IF found = {}
          THEN hseen' = [hseen EXCEPT ![h] = None]
          ELSE \E r \in found :
                 hseen' = [hseen EXCEPT ![h] = [row |-> r, leads |-> rows[r].leads]]
     /\ UNCHANGED <<truth, top, store, linked, catalog, svars, events, hev>>

EndHandler(h) ==
  /\ hpc' = [hpc EXCEPT ![h] = "idle"]
  /\ hseen' = [hseen EXCEPT ![h] = None]
  /\ UNCHANGED <<truth, top, dirty, lock, linked, catalog, svars, events, hev>>

\* UPDATE ... SET leads = <what was read, plus one> WHERE id = ..., which
\* waits for the transaction that holds the row, and the commit.
CountOnSnapshot(h) ==
  /\ hpc[h] = "write"
  /\ hseen[h] # None
  /\ lock[hseen[h].row] = None
  /\ rows' = [rows EXCEPT ![hseen[h].row].leads = hseen[h].leads + 1]
  /\ EndHandler(h)

\* No snapshot was found: insert one with the plan's links.
CountOnNewRow(h) ==
  /\ hpc[h] = "write"
  /\ hseen[h] = None
  /\ \A r \in RowIds : ~Clash(r, EventConn, EventExp, EventKey)
  /\ \E r \in RowIds :
       /\ Newest(r) = None
       /\ rows' = [rows EXCEPT ![r] =
            [conn |-> EventConn, exp |-> EventExp, key |-> EventKey, leads |-> 1]]
  /\ EndHandler(h)

\* The insert meets a row that was committed since: the request fails, and
\* its event, already committed, stays uncounted.
LoseCount(h) ==
  /\ hpc[h] = "write"
  /\ hseen[h] = None
  /\ \E r \in RowIds : Clash(r, EventConn, EventExp, EventKey) /\ ~Pending(None, r)
  /\ rows' = rows
  /\ EndHandler(h)

\* The process is lost.
CrashHandler(h) ==
  /\ hpc[h] # "idle"
  /\ rows' = rows
  /\ EndHandler(h)

-----------------------------------------------------------------------------
SyncStep(s) ==
  \/ InsertRow(s) \/ FindRow(s) \/ ViolateIndex(s) \/ UpdateRow(s)
  \/ CommitSync(s) \/ Finish(s) \/ BreakDeadlock(s)

HandlerStep(h) ==
  \/ RecordEvent(h) \/ ReadSnapshot(h) \/ CountOnSnapshot(h)
  \/ CountOnNewRow(h) \/ LoseCount(h)

Step ==
  \/ \E k \in Keys, n \in 0..MaxLeads : PlatformReports(k, n)
  \/ \E x \in Exps : LinkCampaigns(x)
  \/ \E s \in Syncs, kd \in Kinds, t \in Conns \cup Exps : Fetch(s, kd, t)
  \/ \E s \in Syncs : SyncStep(s)
  \/ \E h \in Handlers, v \in EventIds : Receive(h, v)
  \/ \E h \in Handlers : HandlerStep(h)

Fault ==
  \/ \E s \in Syncs : FailSync(s)
  \/ \E h \in Handlers : CrashHandler(h)

Next == Step \/ Fault

Spec == Init /\ [][Next]_vars

\* A request or task that started runs on, PostgreSQL queues those that wait
\* for a row (strong fairness: none is overtaken for ever), and it looks for
\* deadlocks.
Fairness ==
  /\ \A s \in Syncs : SF_vars(SyncStep(s))
  /\ \A h \in Handlers : SF_vars(HandlerStep(h))

FairSpec == Init /\ [][Step]_vars /\ Fairness

-----------------------------------------------------------------------------
(* Properties *)

TypeOK ==
  /\ truth \in [Keys -> 0..MaxLeads]
  /\ top \in [Keys -> 0..MaxLeads]
  /\ rows \in [RowIds -> Row \cup {None}]
  /\ dirty \in [RowIds -> Row \cup {None}]
  /\ lock \in [RowIds -> Syncs \cup {None}]
  /\ linked \in [Exps -> SUBSET Keys]
  /\ catalog \in [Conns -> SUBSET Keys]
  /\ spc \in [Syncs -> {"idle", "upsert", "update", "committed", "success"}]
  /\ kind \in [Syncs -> Kinds \cup {None}]
  /\ at \in [Syncs -> Conns \cup Exps \cup {None}]
  /\ got \in [Syncs -> [Keys -> 0..MaxLeads]]
  /\ left \in [Syncs -> SUBSET Keys]
  /\ cur \in [Syncs -> Keys \cup {None}]
  /\ report \in [Syncs -> [inserted : Nat, updated : Nat, unchanged : Nat]]
  /\ events \in SUBSET EventIds
  /\ hpc \in [Handlers -> {"idle", "record", "read", "write"}]
  /\ hev \in [Handlers -> EventIds \cup {None}]
  /\ hseen \in [Handlers -> Seen \cup {None}]

\* A conversion is never booked twice, whatever is repeated, lost or read
\* stale: a snapshot shows at most the platform's own figure plus one for
\* each event recorded.
NoDoubleCount ==
  \A r \in RowIds :
    rows[r] # None => rows[r].leads <= top[rows[r].key] + Cardinality(events)

Commits(s) == spc[s] = "upsert" /\ spc'[s] = "committed"

\* A sync that commits leaves for each of its records a row with the figures
\* it fetched, those it reported unchanged included, although other syncs
\* and events write the same rows while it runs.
CommitIsExact ==
  [][\A s \in Syncs : Commits(s) =>
       \A k \in Keys : \E r \in RowIds :
         RowFor(s, rows'[r], k) /\ rows'[r].leads = got[s][k]]_vars

\* The counters of a sync are the difference its commit makes to the table:
\* a repeated sync that reports nothing inserted or updated changed nothing.
ReportMatchesCommit ==
  [][\A s \in Syncs : Commits(s) /\ kind[s] \in {"sync", "experiment"} =>
       LET inserted == {r \in RowIds : rows[r] = None /\ rows'[r] # None}
           updated  == {r \in RowIds : rows[r] # None /\ rows'[r] # rows[r]}
       IN report[s] =
            [inserted  |-> Cardinality(inserted),
             updated   |-> Cardinality(updated),
             unchanged |-> Cardinality(Keys) - Cardinality(inserted \cup updated)]]_vars

\* A connection sync that reports success has its campaigns in the catalogue,
\* rows stored by an earlier sync that failed before its refresh included.
SuccessIsCatalogued ==
  \A s \in Syncs :
    spc[s] = "success" /\ kind[s] \in {"sync", "force"} =>
      \A k \in Keys : k \in catalog[at[s]]

\* Every sync ends, with its commit or an error, and so does every request
\* that waits for its rows: syncs that take the rows of a connection in
\* different orders do not wait for each other for ever.
WritersEnd ==
  /\ \A s \in Syncs : spc[s] \in {"upsert", "update"} ~> spc[s] \in {"idle", "success"}
  /\ \A h \in Handlers : hpc[h] # "idle" ~> hpc[h] = "idle"
=============================================================================
