-------------------------- MODULE MetricStoreProofs --------------------------
(***************************************************************************)
(* Proofs about MetricStore, for every number of connections, experiments, *)
(* writers and rows.                                                       *)
(***************************************************************************)
EXTENDS MetricStore, FiniteSetTheorems, TLAPS

-----------------------------------------------------------------------------
(* The inductive invariant, in named parts *)

Open(s) == spc[s] \in {"upsert", "update"}

\* An open sync knows what it stores for, and the record it is at is left.
SyncLinks ==
  /\ \A s \in Syncs : spc[s] # "idle" =>
       /\ kind[s] \in Kinds
       /\ at[s] \in (IF kind[s] = "experiment" THEN Exps ELSE Conns)
       /\ cur[s] # None => cur[s] \in left[s]
  /\ \A x \in Exps : linked[x] \in {{}, Keys}

\* Only open syncs hold rows, and the version they wrote is of the same key.
RowLinks ==
  \A r \in RowIds : lock[r] # None =>
    /\ Open(lock[r])
    /\ dirty[r] # None
    /\ rows[r] # None => rows[r].key = dirty[r].key

\* Whatever a platform reported, fetched or not, is covered by the history.
Covered ==
  /\ \A k \in Keys : truth[k] <= top[k]
  /\ \A s \in Syncs, k \in Keys : got[s][k] <= top[k]
  /\ \A r \in RowIds : lock[r] # None => dirty[r].leads <= top[dirty[r].key]

InFlight(h) == hpc[h] \in {"read", "write"}

\* One request at most is booking an event, and the event is recorded.
HandlerLinks ==
  \A h \in Handlers :
    /\ hpc[h] # "idle" => hev[h] \in EventIds
    /\ InFlight(h) => hev[h] \in events
    /\ \A g \in Handlers : InFlight(h) /\ InFlight(g) /\ hev[g] = hev[h] => g = h
    /\ hseen[h] # None =>
         /\ hpc[h] = "write"
         /\ rows[hseen[h].row] # None
         /\ rows[hseen[h].row].key = EventKey

\* The events that nobody will book any more: they are booked or lost.
Settled == {v \in events : \A h \in Handlers : InFlight(h) => hev[h] # v}
Booked  == Cardinality(Settled)

BookedOnce ==
  /\ \A r \in RowIds : rows[r] # None => rows[r].leads <= top[rows[r].key] + Booked
  /\ \A h \in Handlers : hseen[h] # None => hseen[h].leads <= top[EventKey] + Booked

\* What an open sync has done already is under its locks.
HeldBy(s, k) ==
  \E r \in RowIds :
    lock[r] = s /\ RowFor(s, dirty[r], k) /\ dirty[r].leads = got[s][k]

Held == \A s \in Syncs : Open(s) => \A k \in Keys \ left[s] : HeldBy(s, k)

Links == SyncLinks /\ RowLinks /\ HandlerLinks
IInv == TypeOK /\ Links /\ Covered /\ BookedOnce /\ Held

-----------------------------------------------------------------------------
(* The steps *)

\* A new figure in a row leaves its key and its links.
LEMMA RowUpdate ==
  ASSUME NEW row \in Row, NEW n \in Nat
  PROVE  /\ [row EXCEPT !.leads = n] \in Row
         /\ [row EXCEPT !.leads = n].leads = n
         /\ [row EXCEPT !.leads = n].key = row.key
         /\ [row EXCEPT !.leads = n].conn = row.conn
         /\ [row EXCEPT !.leads = n].exp = row.exp
  BY DEF Row

\* Counting up keeps the type of the reports.
Reports == [inserted : Nat, updated : Nat, unchanged : Nat]

LEMMA ReportCounts ==
  ASSUME NEW rep \in [Syncs -> Reports], NEW s \in Syncs
  PROVE  /\ [rep EXCEPT ![s].inserted = @ + 1] \in [Syncs -> Reports]
         /\ [rep EXCEPT ![s].updated = @ + 1] \in [Syncs -> Reports]
         /\ [rep EXCEPT ![s].unchanged = @ + 1] \in [Syncs -> Reports]
  <1> DEFINE one == rep[s]
  <1>1. one \in Reports
    OBVIOUS
  <1> HIDE DEF one
  <1>2. /\ [one EXCEPT !.inserted = one.inserted + 1] \in Reports
        /\ [one EXCEPT !.updated = one.updated + 1] \in Reports
        /\ [one EXCEPT !.unchanged = one.unchanged + 1] \in Reports
    BY <1>1 DEF Reports
  <1>3. \A new \in Reports : [rep EXCEPT ![s] = new] \in [Syncs -> Reports]
    OBVIOUS
  <1> QED
    BY <1>2, <1>3 DEF one

\* A record stays held while its sync keeps its rows and its variables.
LEMMA HeldFrame ==
  ASSUME NEW q \in Syncs, NEW k \in Keys, HeldBy(q, k),
         kind'[q] = kind[q], at'[q] = at[q], got'[q] = got[q],
         \A r \in RowIds : lock[r] = q => lock'[r] = q /\ dirty'[r] = dirty[r]
  PROVE  HeldBy(q, k)'
  BY DEF HeldBy, RowFor

\* UpdateRow replaces one row, its own or a free one, by the same row with
\* the fetched figures.
LEMMA UpdateEffect ==
  ASSUME TypeOK, NEW s \in Syncs, UpdateRow(s)
  PROVE  /\ cur[s] \in Keys
         /\ report' \in [Syncs -> Reports]
         /\ \E r \in RowIds, new \in Row :
              /\ lock[r] \in {None, s}
              /\ Newest(r) \in Row
              /\ RowFor(s, Newest(r), cur[s])
              /\ new.key = cur[s]
              /\ new.conn = Newest(r).conn
              /\ new.exp = Newest(r).exp
              /\ new.leads = got[s][cur[s]]
              /\ dirty' = [dirty EXCEPT ![r] = new]
              /\ lock' = [lock EXCEPT ![r] = s]
  <1>1. PICK r \in RowIds :
          /\ Arbiter(s, r, cur[s])
          /\ lock[r] \in {None, s}
          /\ Write(s, r, [Newest(r) EXCEPT !.leads = got[s][cur[s]]])
          /\ report' = IF kind[s] \in {"force", "task"} \/ Newest(r).leads # got[s][cur[s]]
                         THEN [report EXCEPT ![s].updated = @ + 1]
                         ELSE [report EXCEPT ![s].unchanged = @ + 1]
    BY DEF UpdateRow
  <1>2. Newest(r) \in Row /\ RowFor(s, Newest(r), cur[s]) /\ Newest(r).key = cur[s]
    BY <1>1 DEF TypeOK, Newest, Arbiter, RowFor
  <1>3. cur[s] \in Keys
    BY <1>2 DEF Row
  <1>4. got[s][cur[s]] \in Nat
    BY <1>3, MetricStoreAssumption DEF TypeOK
  <1>5. /\ [report EXCEPT ![s].updated = @ + 1] \in [Syncs -> Reports]
        /\ [report EXCEPT ![s].unchanged = @ + 1] \in [Syncs -> Reports]
    BY ReportCounts DEF TypeOK, Reports
  <1>6. report' \in [Syncs -> Reports]
    BY <1>1, <1>5
  <1> QED
    BY <1>1, <1>2, <1>3, <1>4, <1>6, RowUpdate DEF Write

\* CountOnSnapshot does the same to a committed row that nobody holds.
LEMMA CountEffect ==
  ASSUME TypeOK, HandlerLinks, NEW h \in Handlers, CountOnSnapshot(h)
  PROVE  \E r \in RowIds, new \in Row :
           /\ lock[r] = None
           /\ rows[r] # None
           /\ rows[r].key = EventKey
           /\ new.key = EventKey
           /\ new.leads = hseen[h].leads + 1
           /\ rows' = [rows EXCEPT ![r] = new]
  <1> DEFINE r == hseen[h].row
             new == [rows[r] EXCEPT !.leads = hseen[h].leads + 1]
  <1>1. hseen[h] \in Seen /\ r \in RowIds /\ hseen[h].leads + 1 \in Nat
    BY DEF CountOnSnapshot, TypeOK, Seen
  <1>2. rows[r] \in Row /\ rows[r].key = EventKey
    BY <1>1 DEF CountOnSnapshot, TypeOK, HandlerLinks
  <1>3. rows' = [rows EXCEPT ![r] = new] /\ lock[r] = None
    BY DEF CountOnSnapshot
  <1>4. new \in Row /\ new.key = rows[r].key /\ new.leads = hseen[h].leads + 1
    BY <1>1, <1>2, RowUpdate
  <1> QED
    BY <1>1, <1>2, <1>3, <1>4, MetricStoreAssumption

\* Types are kept: a sync writes rows for a real connection and experiment.
LEMMA TypeStep == IInv /\ [Next]_vars => TypeOK'
  <1> SUFFICES ASSUME IInv, [Next]_vars PROVE TypeOK'
    OBVIOUS
  <1> USE MetricStoreAssumption DEF IInv, Links, SyncLinks, RowLinks, HandlerLinks, Open, InFlight, TypeOK, Row, Seen, AllKinds, store, svars, hvars, vars, Newest, RowFor, Arbiter, Unlocked, Cleared, Committed, Write, Take, Forget, NoReport, NoFigures, ConnOf, ExpOf, EndHandler
  <1>1. ASSUME NEW k \in Keys, NEW n \in 0..MaxLeads, PlatformReports(k, n) PROVE TypeOK'
    BY <1>1 DEF PlatformReports
  <1>2. ASSUME NEW x \in Exps, LinkCampaigns(x) PROVE TypeOK'
    BY <1>2 DEF LinkCampaigns
  <1>3. ASSUME NEW s \in Syncs, NEW kd \in Kinds, NEW t \in Conns \cup Exps, Fetch(s, kd, t) PROVE TypeOK'
    BY <1>3 DEF Fetch
  <1>4. ASSUME NEW s \in Syncs, Abort(s) PROVE TypeOK'
    BY <1>4 DEF Abort
  <1>5. ASSUME NEW s \in Syncs, InsertRow(s) PROVE TypeOK'
    <2>1. cur[s] \in Keys /\ got[s][cur[s]] \in Nat
      BY <1>5 DEF InsertRow
    <2>2. [report EXCEPT ![s].inserted = report[s].inserted + 1] \in [Syncs -> Reports]
      BY ReportCounts DEF Reports
    <2>3. ConnOf(s) \in Conns \cup {None} /\ ExpOf(s) \in Exps \cup {None}
      BY <1>5 DEF InsertRow
    <2>4. [conn |-> ConnOf(s), exp |-> ExpOf(s), key |-> cur[s], leads |-> got[s][cur[s]]] \in Row
      BY <2>1, <2>3
    <2> DEFINE new == [conn |-> ConnOf(s), exp |-> ExpOf(s), key |-> cur[s], leads |-> got[s][cur[s]]]
    <2>5. PICK r \in RowIds : Write(s, r, new)
      BY <1>5 DEF InsertRow
    <2>6. /\ spc' = spc /\ report' = [report EXCEPT ![s].inserted = report[s].inserted + 1]
          /\ Take(s, left[s] \ {cur[s]})
          /\ UNCHANGED <<truth, top, rows, linked, catalog, kind, at, got, hvars>>
      BY <1>5 DEF InsertRow
    <2>7. new \in Row
      BY <2>4
    <2> HIDE DEF new
    <2> QED
      BY <2>1, <2>2, <2>5, <2>6, <2>7 DEF Reports
  <1>6. ASSUME NEW s \in Syncs, FindRow(s) PROVE TypeOK'
    BY <1>6 DEF FindRow
  <1>7. ASSUME NEW s \in Syncs, UpdateRow(s) PROVE TypeOK'
    <2>1. PICK r \in RowIds, new \in Row :
           /\ lock[r] \in {None, s}
           /\ Newest(r) \in Row
           /\ RowFor(s, Newest(r), cur[s])
           /\ new.key = cur[s]
           /\ new.conn = Newest(r).conn
           /\ new.exp = Newest(r).exp
           /\ new.leads = got[s][cur[s]]
           /\ dirty' = [dirty EXCEPT ![r] = new]
           /\ lock' = [lock EXCEPT ![r] = s]
      BY <1>7, UpdateEffect
    <2>2. /\ cur[s] \in Keys
          /\ report' \in [Syncs -> Reports]
      BY <1>7, UpdateEffect
    <2>3. /\ spc[s] = "update"
          /\ spc' = [spc EXCEPT ![s] = "upsert"]
          /\ Take(s, left[s] \ {cur[s]})
          /\ UNCHANGED <<truth, top, rows, linked, catalog, kind, at, got, hvars>>
      BY <1>7 DEF UpdateRow
    <2> QED
      BY <2>1, <2>2, <2>3 DEF Reports
  <1>8. ASSUME NEW s \in Syncs, CommitSync(s) PROVE TypeOK'
    BY <1>8 DEF CommitSync
  <1>9. ASSUME NEW s \in Syncs, Finish(s) PROVE TypeOK'
    <2>1. CampaignsOf(at[s]) \subseteq Keys
      BY DEF CampaignsOf
    <2>2. catalog' \in [Conns -> SUBSET Keys]
      BY <1>9, <2>1 DEF Finish
    <2> QED
      BY <1>9, <2>2 DEF Finish
  <1>10. ASSUME NEW h \in Handlers, NEW v \in EventIds, Receive(h, v) PROVE TypeOK'
    BY <1>10 DEF Receive
  <1>11. ASSUME NEW h \in Handlers, RecordEvent(h) PROVE TypeOK'
    BY <1>11 DEF RecordEvent
  <1>12. ASSUME NEW h \in Handlers, ReadSnapshot(h) PROVE TypeOK'
    <2>1. ASSUME NEW r \in RowIds, rows[r] # None
           PROVE [row |-> r, leads |-> rows[r].leads] \in Seen
      BY <2>1
    <2>2. hseen' \in [Handlers -> Seen \cup {None}]
      <3> DEFINE found == {r \in RowIds : rows[r] # None /\ rows[r].key = EventKey}
      <3>1. CASE found = {}
        BY <1>12, <3>1 DEF ReadSnapshot
      <3>2. CASE found # {}
        BY <1>12, <2>1, <3>2 DEF ReadSnapshot
      <3> QED
        BY <3>1, <3>2
    <2>3. /\ hpc' = [hpc EXCEPT ![h] = "write"]
          /\ UNCHANGED <<truth, top, store, linked, catalog, svars, events, hev>>
      BY <1>12 DEF ReadSnapshot
    <2> QED
      BY <2>2, <2>3
  <1>13. ASSUME NEW h \in Handlers, CountOnSnapshot(h) PROVE TypeOK'
    <2>0. TypeOK /\ HandlerLinks /\ h \in Handlers
      OBVIOUS
    <2>1. PICK r \in RowIds, new \in Row :
           /\ lock[r] = None
           /\ rows[r] # None
           /\ rows[r].key = EventKey
           /\ new.key = EventKey
           /\ new.leads = hseen[h].leads + 1
           /\ rows' = [rows EXCEPT ![r] = new]
      BY ONLY <1>13, <2>0, CountEffect
    <2>2. EndHandler(h) /\ hpc[h] = "write"
      BY <1>13 DEF CountOnSnapshot
    <2> QED
      BY <2>1, <2>2
  <1>14. ASSUME NEW h \in Handlers, CountOnNewRow(h) PROVE TypeOK'
    BY <1>14 DEF CountOnNewRow
  <1>15. ASSUME NEW h \in Handlers, LoseCount(h) PROVE TypeOK'
    BY <1>15 DEF LoseCount
  <1>16. ASSUME NEW h \in Handlers, CrashHandler(h) PROVE TypeOK'
    BY <1>16 DEF CrashHandler
  <1>17. CASE UNCHANGED vars
    BY <1>17
  <1> QED
    BY <1>1, <1>2, <1>3, <1>4, <1>5, <1>6, <1>7, <1>8, <1>9, <1>10, <1>11, <1>12, <1>13, <1>14, <1>15, <1>16, <1>17
    DEF Next, Step, Fault, SyncStep, HandlerStep, ViolateIndex, BreakDeadlock, FailSync

\* A row that is held changes hands only when its transaction ends.
LEMMA LinksStep == IInv /\ [Next]_vars => Links'
  <1> SUFFICES ASSUME IInv, [Next]_vars PROVE Links'
    OBVIOUS
  <1> TypeOK'
    BY TypeStep
  <1> USE MetricStoreAssumption DEF IInv, Links, SyncLinks, RowLinks, HandlerLinks, Open, InFlight, TypeOK, Row, Seen, AllKinds, store, svars, hvars, vars, Newest, RowFor, Arbiter, Unlocked, Cleared, Committed, Write, Take, Forget, NoReport, NoFigures, ConnOf, ExpOf, EndHandler
  <1>1. ASSUME NEW k \in Keys, NEW n \in 0..MaxLeads, PlatformReports(k, n) PROVE Links'
    BY <1>1 DEF PlatformReports
  <1>2. ASSUME NEW x \in Exps, LinkCampaigns(x) PROVE Links'
    BY <1>2 DEF LinkCampaigns
  <1>3. ASSUME NEW s \in Syncs, NEW kd \in Kinds, NEW t \in Conns \cup Exps, Fetch(s, kd, t) PROVE Links'
    BY <1>3 DEF Fetch
  <1>4. ASSUME NEW s \in Syncs, Abort(s) PROVE Links'
    BY <1>4 DEF Abort
  <1>5. ASSUME NEW s \in Syncs, InsertRow(s) PROVE Links'
    BY <1>5 DEF InsertRow
  <1>6. ASSUME NEW s \in Syncs, FindRow(s) PROVE Links'
    BY <1>6 DEF FindRow
  <1>7. ASSUME NEW s \in Syncs, UpdateRow(s) PROVE Links'
    <2>1. PICK r \in RowIds, new \in Row :
           /\ lock[r] \in {None, s}
           /\ Newest(r) \in Row
           /\ RowFor(s, Newest(r), cur[s])
           /\ new.key = cur[s]
           /\ new.conn = Newest(r).conn
           /\ new.exp = Newest(r).exp
           /\ new.leads = got[s][cur[s]]
           /\ dirty' = [dirty EXCEPT ![r] = new]
           /\ lock' = [lock EXCEPT ![r] = s]
      BY <1>7, UpdateEffect
    <2>2. /\ cur[s] \in Keys
          /\ report' \in [Syncs -> Reports]
      BY <1>7, UpdateEffect
    <2>3. /\ spc[s] = "update"
          /\ spc' = [spc EXCEPT ![s] = "upsert"]
          /\ Take(s, left[s] \ {cur[s]})
          /\ UNCHANGED <<truth, top, rows, linked, catalog, kind, at, got, hvars>>
      BY <1>7 DEF UpdateRow
    <2> QED
      BY <2>1, <2>2, <2>3
  <1>8. ASSUME NEW s \in Syncs, CommitSync(s) PROVE Links'
    BY <1>8 DEF CommitSync
  <1>9. ASSUME NEW s \in Syncs, Finish(s) PROVE Links'
    BY <1>9 DEF Finish
  <1>10. ASSUME NEW h \in Handlers, NEW v \in EventIds, Receive(h, v) PROVE Links'
    BY <1>10 DEF Receive
  <1>11. ASSUME NEW h \in Handlers, RecordEvent(h) PROVE Links'
    BY <1>11 DEF RecordEvent
  <1>12. ASSUME NEW h \in Handlers, ReadSnapshot(h) PROVE Links'
    BY <1>12 DEF ReadSnapshot
  <1>13. ASSUME NEW h \in Handlers, CountOnSnapshot(h) PROVE Links'
    <2>0. TypeOK /\ HandlerLinks /\ h \in Handlers
      OBVIOUS
    <2>1. PICK r \in RowIds, new \in Row :
           /\ lock[r] = None
           /\ rows[r] # None
           /\ rows[r].key = EventKey
           /\ new.key = EventKey
           /\ new.leads = hseen[h].leads + 1
           /\ rows' = [rows EXCEPT ![r] = new]
      BY ONLY <1>13, <2>0, CountEffect
    <2>2. EndHandler(h) /\ hpc[h] = "write"
      BY <1>13 DEF CountOnSnapshot
    <2> QED
      BY <2>1, <2>2
  <1>14. ASSUME NEW h \in Handlers, CountOnNewRow(h) PROVE Links'
    BY <1>14 DEF CountOnNewRow
  <1>15. ASSUME NEW h \in Handlers, LoseCount(h) PROVE Links'
    BY <1>15 DEF LoseCount
  <1>16. ASSUME NEW h \in Handlers, CrashHandler(h) PROVE Links'
    BY <1>16 DEF CrashHandler
  <1>17. CASE UNCHANGED vars
    BY <1>17
  <1> QED
    BY <1>1, <1>2, <1>3, <1>4, <1>5, <1>6, <1>7, <1>8, <1>9, <1>10, <1>11, <1>12, <1>13, <1>14, <1>15, <1>16, <1>17
    DEF Next, Step, Fault, SyncStep, HandlerStep, ViolateIndex, BreakDeadlock, FailSync

\* The history follows the platform.
LEMMA CoveredStep == IInv /\ [Next]_vars => Covered'
  <1> SUFFICES ASSUME IInv, [Next]_vars PROVE Covered'
    OBVIOUS
  <1> TypeOK'
    BY TypeStep
  <1> USE MetricStoreAssumption DEF IInv, Links, SyncLinks, RowLinks, Covered, Open, TypeOK, Row, Seen, AllKinds, store, svars, hvars, vars, Newest, RowFor, Arbiter, Unlocked, Cleared, Committed, Write, Take, Forget, NoReport, NoFigures, ConnOf, ExpOf, EndHandler
  <1>1. ASSUME NEW k \in Keys, NEW n \in 0..MaxLeads, PlatformReports(k, n) PROVE Covered'
    BY <1>1 DEF PlatformReports
  <1>2. ASSUME NEW x \in Exps, LinkCampaigns(x) PROVE Covered'
    BY <1>2 DEF LinkCampaigns
  <1>3. ASSUME NEW s \in Syncs, NEW kd \in Kinds, NEW t \in Conns \cup Exps, Fetch(s, kd, t) PROVE Covered'
    BY <1>3 DEF Fetch
  <1>4. ASSUME NEW s \in Syncs, Abort(s) PROVE Covered'
    BY <1>4 DEF Abort
  <1>5. ASSUME NEW s \in Syncs, InsertRow(s) PROVE Covered'
    BY <1>5 DEF InsertRow
  <1>6. ASSUME NEW s \in Syncs, FindRow(s) PROVE Covered'
    BY <1>6 DEF FindRow
  <1>7. ASSUME NEW s \in Syncs, UpdateRow(s) PROVE Covered'
    <2>1. PICK r \in RowIds, new \in Row :
           /\ lock[r] \in {None, s}
           /\ Newest(r) \in Row
           /\ RowFor(s, Newest(r), cur[s])
           /\ new.key = cur[s]
           /\ new.conn = Newest(r).conn
           /\ new.exp = Newest(r).exp
           /\ new.leads = got[s][cur[s]]
           /\ dirty' = [dirty EXCEPT ![r] = new]
           /\ lock' = [lock EXCEPT ![r] = s]
      BY <1>7, UpdateEffect
    <2>2. /\ cur[s] \in Keys
          /\ report' \in [Syncs -> Reports]
      BY <1>7, UpdateEffect
    <2>3. /\ spc[s] = "update"
          /\ spc' = [spc EXCEPT ![s] = "upsert"]
          /\ Take(s, left[s] \ {cur[s]})
          /\ UNCHANGED <<truth, top, rows, linked, catalog, kind, at, got, hvars>>
      BY <1>7 DEF UpdateRow
    <2> QED
      BY <2>1, <2>2, <2>3
  <1>8. ASSUME NEW s \in Syncs, CommitSync(s) PROVE Covered'
    BY <1>8 DEF CommitSync
  <1>9. ASSUME NEW s \in Syncs, Finish(s) PROVE Covered'
    BY <1>9 DEF Finish
  <1>10. ASSUME NEW h \in Handlers, NEW v \in EventIds, Receive(h, v) PROVE Covered'
    BY <1>10 DEF Receive
  <1>11. ASSUME NEW h \in Handlers, RecordEvent(h) PROVE Covered'
    BY <1>11 DEF RecordEvent
  <1>12. ASSUME NEW h \in Handlers, ReadSnapshot(h) PROVE Covered'
    BY <1>12 DEF ReadSnapshot
  <1>13. ASSUME NEW h \in Handlers, CountOnSnapshot(h) PROVE Covered'
    BY <1>13 DEF CountOnSnapshot
  <1>14. ASSUME NEW h \in Handlers, CountOnNewRow(h) PROVE Covered'
    BY <1>14 DEF CountOnNewRow
  <1>15. ASSUME NEW h \in Handlers, LoseCount(h) PROVE Covered'
    BY <1>15 DEF LoseCount
  <1>16. ASSUME NEW h \in Handlers, CrashHandler(h) PROVE Covered'
    BY <1>16 DEF CrashHandler
  <1>17. CASE UNCHANGED vars
    BY <1>17
  <1> QED
    BY <1>1, <1>2, <1>3, <1>4, <1>5, <1>6, <1>7, <1>8, <1>9, <1>10, <1>11, <1>12, <1>13, <1>14, <1>15, <1>16, <1>17
    DEF Next, Step, Fault, SyncStep, HandlerStep, ViolateIndex, BreakDeadlock, FailSync

\* A record that was stored stays under the lock of its sync.
LEMMA HeldStep == IInv /\ [Next]_vars => Held'
  <1> SUFFICES ASSUME IInv, [Next]_vars PROVE Held'
    OBVIOUS
  <1> TypeOK'
    BY TypeStep
  <1> USE MetricStoreAssumption DEF IInv, Links, SyncLinks, RowLinks, Open, TypeOK, Row, Seen, AllKinds, store, svars, hvars, vars, Newest, RowFor, Arbiter, Unlocked, Cleared, Committed, Write, Take, Forget, NoReport, NoFigures, ConnOf, ExpOf, EndHandler
  <1>1. ASSUME NEW k \in Keys, NEW n \in 0..MaxLeads, PlatformReports(k, n) PROVE Held'
    BY <1>1 DEF PlatformReports, Held, HeldBy
  <1>2. ASSUME NEW x \in Exps, LinkCampaigns(x) PROVE Held'
    BY <1>2 DEF LinkCampaigns, Held, HeldBy
  <1>3. ASSUME NEW s \in Syncs, NEW kd \in Kinds, NEW t \in Conns \cup Exps, Fetch(s, kd, t) PROVE Held'
    <2> SUFFICES ASSUME NEW q \in Syncs, Open(q)', NEW k \in Keys \ left'[q]
                 PROVE  HeldBy(q, k)'
      BY DEF Held
    <2>1. CASE q = s
      <3>1. left'[s] = Keys
        BY <1>3 DEF Fetch
      <3> QED
        BY <2>1, <3>1
    <2>2. CASE q # s
      <3>1. k \in Keys \ left[q] /\ Open(q) /\ HeldBy(q, k)
        BY <1>3, <2>2 DEF Fetch, Held
      <3>2. \A r \in RowIds : lock[r] = q => lock'[r] = q /\ dirty'[r] = dirty[r]
        BY <1>3, <2>2 DEF Fetch
      <3>3. kind'[q] = kind[q] /\ at'[q] = at[q] /\ got'[q] = got[q]
        BY <1>3, <2>2 DEF Fetch
      <3> QED
        BY <3>1, <3>2, <3>3, HeldFrame
    <2> QED
      BY <2>1, <2>2
  <1>4. ASSUME NEW s \in Syncs, Abort(s) PROVE Held'
    <2> SUFFICES ASSUME NEW q \in Syncs, Open(q)', NEW k \in Keys \ left'[q]
                 PROVE  HeldBy(q, k)'
      BY DEF Held
    <2>1. CASE q = s
      BY <1>4, <2>1 DEF Abort
    <2>2. CASE q # s
      <3>1. k \in Keys \ left[q] /\ Open(q) /\ HeldBy(q, k)
        BY <1>4, <2>2 DEF Abort, Held
      <3>2. \A r \in RowIds : lock[r] = q => lock'[r] = q /\ dirty'[r] = dirty[r]
        BY <1>4, <2>2 DEF Abort
      <3>3. kind'[q] = kind[q] /\ at'[q] = at[q] /\ got'[q] = got[q]
        BY <1>4, <2>2 DEF Abort
      <3> QED
        BY <3>1, <3>2, <3>3, HeldFrame
    <2> QED
      BY <2>1, <2>2
  <1>5. ASSUME NEW s \in Syncs, InsertRow(s) PROVE Held'
    BY <1>5, SMTT(30) DEF InsertRow, Held, HeldBy
  <1>6. ASSUME NEW s \in Syncs, FindRow(s) PROVE Held'
    BY <1>6 DEF FindRow, Held, HeldBy
  <1>7. ASSUME NEW s \in Syncs, UpdateRow(s) PROVE Held'
    <2> SUFFICES ASSUME NEW q \in Syncs, Open(q)', NEW k \in Keys \ left'[q]
                 PROVE  HeldBy(q, k)'
      BY DEF Held
    <2>1. PICK r \in RowIds, new \in Row :
           /\ lock[r] \in {None, s}
           /\ Newest(r) \in Row
           /\ RowFor(s, Newest(r), cur[s])
           /\ new.key = cur[s]
           /\ new.conn = Newest(r).conn
           /\ new.exp = Newest(r).exp
           /\ new.leads = got[s][cur[s]]
           /\ dirty' = [dirty EXCEPT ![r] = new]
           /\ lock' = [lock EXCEPT ![r] = s]
      BY <1>7, UpdateEffect
    <2>2. /\ cur[s] \in Keys
          /\ report' \in [Syncs -> Reports]
      BY <1>7, UpdateEffect
    <2>3. /\ spc[s] = "update"
          /\ spc' = [spc EXCEPT ![s] = "upsert"]
          /\ Take(s, left[s] \ {cur[s]})
          /\ UNCHANGED <<truth, top, rows, linked, catalog, kind, at, got, hvars>>
      BY <1>7 DEF UpdateRow
    <2>4. CASE q = s /\ k = cur[s]
      <3>1. lock'[r] = s /\ dirty'[r] = new /\ new # None
        BY <2>1
      <3>2. RowFor(s, new, k)'
        BY <2>1, <2>3, <2>4, <3>1
      <3>3. new.leads = got'[s][k]
        BY <2>1, <2>3, <2>4
      <3> QED
        BY <2>4, <3>1, <3>2, <3>3 DEF HeldBy
    <2>5. CASE q = s /\ k # cur[s]
      <3>1. PICK u \in RowIds : lock[u] = s /\ RowFor(s, dirty[u], k) /\ dirty[u].leads = got[s][k]
        BY <2>3, <2>5 DEF Held, HeldBy
      <3>2. u # r
        BY <2>1, <2>5, <3>1
      <3> QED
        BY <2>1, <2>3, <2>5, <3>1, <3>2 DEF HeldBy
    <2>6. CASE q # s
      <3>1. PICK u \in RowIds : lock[u] = q /\ RowFor(q, dirty[u], k) /\ dirty[u].leads = got[q][k]
        BY <2>3, <2>6 DEF Held, HeldBy
      <3>2. u # r
        BY <2>1, <2>6, <3>1
      <3> QED
        BY <2>1, <2>3, <2>6, <3>1, <3>2 DEF HeldBy
    <2> QED
      BY <2>4, <2>5, <2>6
  <1>8. ASSUME NEW s \in Syncs, CommitSync(s) PROVE Held'
    <2> SUFFICES ASSUME NEW q \in Syncs, Open(q)', NEW k \in Keys \ left'[q]
                 PROVE  HeldBy(q, k)'
      BY DEF Held
    <2>1. CASE q = s
      BY <1>8, <2>1 DEF CommitSync
    <2>2. CASE q # s
      <3>1. k \in Keys \ left[q] /\ Open(q) /\ HeldBy(q, k)
        BY <1>8, <2>2 DEF CommitSync, Held
      <3>2. \A r \in RowIds : lock[r] = q => lock'[r] = q /\ dirty'[r] = dirty[r]
        BY <1>8, <2>2 DEF CommitSync
      <3>3. kind'[q] = kind[q] /\ at'[q] = at[q] /\ got'[q] = got[q]
        BY <1>8, <2>2 DEF CommitSync
      <3> QED
        BY <3>1, <3>2, <3>3, HeldFrame
    <2> QED
      BY <2>1, <2>2
  <1>9. ASSUME NEW s \in Syncs, Finish(s) PROVE Held'
    BY <1>9 DEF Finish, Held, HeldBy
  <1>10. ASSUME NEW h \in Handlers, NEW v \in EventIds, Receive(h, v) PROVE Held'
    BY <1>10 DEF Receive, Held, HeldBy
  <1>11. ASSUME NEW h \in Handlers, RecordEvent(h) PROVE Held'
    BY <1>11 DEF RecordEvent, Held, HeldBy
  <1>12. ASSUME NEW h \in Handlers, ReadSnapshot(h) PROVE Held'
    BY <1>12 DEF ReadSnapshot, Held, HeldBy
  <1>13. ASSUME NEW h \in Handlers, CountOnSnapshot(h) PROVE Held'
    <2> SUFFICES ASSUME NEW q \in Syncs, Open(q)', NEW k \in Keys \ left'[q]
                 PROVE  HeldBy(q, k)'
      BY DEF Held
    <2>1. UNCHANGED <<dirty, lock, kind, at, got, spc, left>>
      BY <1>13 DEF CountOnSnapshot
    <2>2. HeldBy(q, k)
      BY <2>1 DEF Held
    <2> QED
      BY <2>1, <2>2, HeldFrame
  <1>14. ASSUME NEW h \in Handlers, CountOnNewRow(h) PROVE Held'
    BY <1>14 DEF CountOnNewRow, Held, HeldBy
  <1>15. ASSUME NEW h \in Handlers, LoseCount(h) PROVE Held'
    BY <1>15 DEF LoseCount, Held, HeldBy
  <1>16. ASSUME NEW h \in Handlers, CrashHandler(h) PROVE Held'
    BY <1>16 DEF CrashHandler, Held, HeldBy
  <1>17. CASE UNCHANGED vars
    BY <1>17 DEF Held, HeldBy
  <1> QED
    BY <1>1, <1>2, <1>3, <1>4, <1>5, <1>6, <1>7, <1>8, <1>9, <1>10, <1>11, <1>12, <1>13, <1>14, <1>15, <1>16, <1>17
    DEF Next, Step, Fault, SyncStep, HandlerStep, ViolateIndex, BreakDeadlock, FailSync

\* An event that is settled stays settled.
LEMMA SettledStep == IInv /\ [Next]_vars => Settled \subseteq Settled'
  <1> SUFFICES ASSUME IInv, [Next]_vars PROVE Settled \subseteq Settled'
    OBVIOUS
  <1> USE MetricStoreAssumption DEF IInv, Links, HandlerLinks, InFlight, Settled, TypeOK, Row, Seen, AllKinds, store, svars, hvars, vars, Newest, RowFor, Arbiter, Unlocked, Cleared, Committed, Write, Take, Forget, NoReport, NoFigures, ConnOf, ExpOf, EndHandler
  <1>1. ASSUME NEW k \in Keys, NEW n \in 0..MaxLeads, PlatformReports(k, n) PROVE Settled \subseteq Settled'
    BY <1>1 DEF PlatformReports
  <1>2. ASSUME NEW x \in Exps, LinkCampaigns(x) PROVE Settled \subseteq Settled'
    BY <1>2 DEF LinkCampaigns
  <1>3. ASSUME NEW s \in Syncs, NEW kd \in Kinds, NEW t \in Conns \cup Exps, Fetch(s, kd, t) PROVE Settled \subseteq Settled'
    BY <1>3 DEF Fetch
  <1>4. ASSUME NEW s \in Syncs, Abort(s) PROVE Settled \subseteq Settled'
    BY <1>4 DEF Abort
  <1>5. ASSUME NEW s \in Syncs, InsertRow(s) PROVE Settled \subseteq Settled'
    BY <1>5 DEF InsertRow
  <1>6. ASSUME NEW s \in Syncs, FindRow(s) PROVE Settled \subseteq Settled'
    BY <1>6 DEF FindRow
  <1>7. ASSUME NEW s \in Syncs, UpdateRow(s) PROVE Settled \subseteq Settled'
    BY <1>7 DEF UpdateRow
  <1>8. ASSUME NEW s \in Syncs, CommitSync(s) PROVE Settled \subseteq Settled'
    BY <1>8 DEF CommitSync
  <1>9. ASSUME NEW s \in Syncs, Finish(s) PROVE Settled \subseteq Settled'
    BY <1>9 DEF Finish
  <1>10. ASSUME NEW h \in Handlers, NEW v \in EventIds, Receive(h, v) PROVE Settled \subseteq Settled'
    BY <1>10 DEF Receive
  <1>11. ASSUME NEW h \in Handlers, RecordEvent(h) PROVE Settled \subseteq Settled'
    BY <1>11 DEF RecordEvent
  <1>12. ASSUME NEW h \in Handlers, ReadSnapshot(h) PROVE Settled \subseteq Settled'
    BY <1>12 DEF ReadSnapshot
  <1>13. ASSUME NEW h \in Handlers, CountOnSnapshot(h) PROVE Settled \subseteq Settled'
    BY <1>13 DEF CountOnSnapshot
  <1>14. ASSUME NEW h \in Handlers, CountOnNewRow(h) PROVE Settled \subseteq Settled'
    BY <1>14 DEF CountOnNewRow
  <1>15. ASSUME NEW h \in Handlers, LoseCount(h) PROVE Settled \subseteq Settled'
    BY <1>15 DEF LoseCount
  <1>16. ASSUME NEW h \in Handlers, CrashHandler(h) PROVE Settled \subseteq Settled'
    BY <1>16 DEF CrashHandler
  <1>17. CASE UNCHANGED vars
    BY <1>17
  <1> QED
    BY <1>1, <1>2, <1>3, <1>4, <1>5, <1>6, <1>7, <1>8, <1>9, <1>10, <1>11, <1>12, <1>13, <1>14, <1>15, <1>16, <1>17
    DEF Next, Step, Fault, SyncStep, HandlerStep, ViolateIndex, BreakDeadlock, FailSync

\* The count of settled events never falls ...
LEMMA BookedGrows ==
  ASSUME IInv, [Next]_vars
  PROVE  Booked \in Nat /\ Booked' \in Nat /\ Booked <= Booked'
  <1>1. IsFiniteSet(Settled) /\ IsFiniteSet(Settled')
    <2>1. Settled \subseteq EventIds /\ Settled' \subseteq EventIds
      BY TypeStep DEF IInv, TypeOK, Settled
    <2> QED
      BY <2>1, FS_Subset, MetricStoreAssumption
  <1>2. Settled \subseteq Settled'
    BY SettledStep
  <1> QED
    BY <1>1, <1>2, FS_Subset, FS_CardinalityType DEF Booked

\* ... and a request that books its event adds that event to them.
LEMMA BookedEnd ==
  ASSUME IInv, NEW h \in Handlers, hpc[h] = "write", EndHandler(h)
  PROVE  Booked' = Booked + 1
  <1>1. hev[h] \in events /\ hev[h] \notin Settled
    BY DEF IInv, Links, HandlerLinks, InFlight, Settled
  <1>2. ASSUME NEW g \in Handlers, g # h, InFlight(g) PROVE hev[g] # hev[h]
    BY <1>2 DEF IInv, Links, HandlerLinks, InFlight
  <1>3. /\ events' = events
        /\ \A g \in Handlers : hev'[g] = hev[g] /\ (InFlight(g)' <=> InFlight(g) /\ g # h)
    BY DEF EndHandler, IInv, TypeOK, InFlight
  <1>4. Settled' = Settled \cup {hev[h]}
    BY <1>1, <1>2, <1>3 DEF Settled
  <1>5. IsFiniteSet(Settled)
    <2>1. Settled \subseteq EventIds
      BY DEF IInv, TypeOK, Settled
    <2> QED
      BY <2>1, FS_Subset, MetricStoreAssumption
  <1> QED
    BY <1>1, <1>4, <1>5, FS_AddElement DEF Booked

\* No step books more than the events that are settled after it.
LEMMA BookedStep == IInv /\ [Next]_vars => BookedOnce'
  <1> SUFFICES ASSUME IInv, [Next]_vars PROVE BookedOnce'
    OBVIOUS
  <1>0. IInv
    OBVIOUS
  <1> TypeOK'
    BY TypeStep
  <1>b. Booked \in Nat /\ Booked' \in Nat /\ Booked <= Booked'
    BY BookedGrows
  <1> USE <1>b
  <1> USE MetricStoreAssumption DEF IInv, Links, RowLinks, SyncLinks, HandlerLinks, Covered, BookedOnce, InFlight, TypeOK, Row, Seen, AllKinds, store, svars, hvars, vars, Newest, RowFor, Arbiter, Unlocked, Cleared, Committed, Write, Take, Forget, NoReport, NoFigures, ConnOf, ExpOf, EndHandler
  <1>1. ASSUME NEW k \in Keys, NEW n \in 0..MaxLeads, PlatformReports(k, n) PROVE BookedOnce'
    BY <1>1 DEF PlatformReports
  <1>2. ASSUME NEW x \in Exps, LinkCampaigns(x) PROVE BookedOnce'
    BY <1>2 DEF LinkCampaigns
  <1>3. ASSUME NEW s \in Syncs, NEW kd \in Kinds, NEW t \in Conns \cup Exps, Fetch(s, kd, t) PROVE BookedOnce'
    BY <1>3 DEF Fetch
  <1>4. ASSUME NEW s \in Syncs, Abort(s) PROVE BookedOnce'
    BY <1>4 DEF Abort
  <1>5. ASSUME NEW s \in Syncs, InsertRow(s) PROVE BookedOnce'
    BY <1>5 DEF InsertRow
  <1>6. ASSUME NEW s \in Syncs, FindRow(s) PROVE BookedOnce'
    BY <1>6 DEF FindRow
  <1>7. ASSUME NEW s \in Syncs, UpdateRow(s) PROVE BookedOnce'
    BY <1>7 DEF UpdateRow
  <1>8. ASSUME NEW s \in Syncs, CommitSync(s) PROVE BookedOnce'
    <2> SUFFICES ASSUME NEW r \in RowIds, rows'[r] # None
                 PROVE  rows'[r].leads <= top'[rows'[r].key] + Booked'
      BY <1>8 DEF CommitSync
    <2>1. rows'[r] = IF lock[r] = s THEN dirty[r] ELSE rows[r]
      BY <1>8 DEF CommitSync
    <2>2. top' = top /\ rows'[r] \in Row
      BY <1>8 DEF CommitSync
    <2>3. rows'[r].leads \in Nat /\ top[rows'[r].key] \in Nat
      BY <2>2
    <2>4. CASE lock[r] = s
      <3>1. lock[r] # None /\ rows'[r] = dirty[r]
        BY <2>1, <2>4
      <3>2. dirty[r].leads <= top[dirty[r].key]
        BY <3>1
      <3>3. rows'[r].leads <= top'[rows'[r].key]
        BY <2>2, <3>1, <3>2
      <3> QED
        BY ONLY <2>2, <2>3, <3>3, <1>b
    <2>5. CASE lock[r] # s
      BY <2>1, <2>2, <2>3, <2>5
    <2> QED
      BY <2>4, <2>5
  <1>9. ASSUME NEW s \in Syncs, Finish(s) PROVE BookedOnce'
    BY <1>9 DEF Finish
  <1>10. ASSUME NEW h \in Handlers, NEW v \in EventIds, Receive(h, v) PROVE BookedOnce'
    BY <1>10 DEF Receive
  <1>11. ASSUME NEW h \in Handlers, RecordEvent(h) PROVE BookedOnce'
    BY <1>11 DEF RecordEvent
  <1>12. ASSUME NEW h \in Handlers, ReadSnapshot(h) PROVE BookedOnce'
    <2>1. /\ \A g \in Handlers : g # h => hseen'[g] = hseen[g]
          /\ UNCHANGED <<rows, top>>
      BY <1>12 DEF ReadSnapshot
    <2>2. CASE hseen'[h] = None
      <3>1. \A r \in RowIds : rows'[r] # None =>
              rows'[r].leads <= top'[rows'[r].key] + Booked'
        BY <2>1
      <3>2. \A g \in Handlers : hseen'[g] # None =>
              hseen'[g].leads <= top'[EventKey] + Booked'
        <4> SUFFICES ASSUME NEW g \in Handlers, hseen'[g] # None
                     PROVE  hseen'[g].leads <= top'[EventKey] + Booked'
          OBVIOUS
        <4>1. hseen'[g] = hseen[g] /\ top' = top
          BY <2>1, <2>2
        <4>2. hseen[g].leads \in Nat /\ top[EventKey] \in Nat
          BY <4>1
        <4>3. hseen[g].leads <= top[EventKey] + Booked
          BY <4>1
        <4> QED
          BY ONLY <1>b, <4>1, <4>2, <4>3
      <3> QED
        BY ONLY <3>1, <3>2 DEF BookedOnce
    <2>3. CASE hseen'[h] # None
      <3>1. PICK r \in RowIds : /\ rows[r] # None
                               /\ rows[r].key = EventKey
                               /\ hseen' = [hseen EXCEPT ![h] = [row |-> r, leads |-> rows[r].leads]]
        BY <1>12, <2>3 DEF ReadSnapshot
      <3>2. hseen'[h].leads = rows[r].leads /\ rows[r].leads \in Nat
        BY <3>1
      <3> QED
        BY <2>1, <3>1, <3>2
    <2> QED
      BY <2>2, <2>3
  <1>13. ASSUME NEW h \in Handlers, CountOnSnapshot(h) PROVE BookedOnce'
    <2>0. TypeOK /\ HandlerLinks /\ h \in Handlers
      OBVIOUS
    <2>1. PICK r \in RowIds, new \in Row :
           /\ lock[r] = None
           /\ rows[r] # None
           /\ rows[r].key = EventKey
           /\ new.key = EventKey
           /\ new.leads = hseen[h].leads + 1
           /\ rows' = [rows EXCEPT ![r] = new]
      BY ONLY <1>13, <2>0, CountEffect
    <2>2. EndHandler(h) /\ hpc[h] = "write" /\ hseen[h] # None
      BY <1>13 DEF CountOnSnapshot
    <2>3. Booked' = Booked + 1
      BY <1>0, <2>2, BookedEnd
    <2>4. hseen[h].leads <= top[EventKey] + Booked /\ hseen[h].leads \in Nat
      BY <2>2
    <2> QED
      BY <2>1, <2>2, <2>3, <2>4
  <1>14. ASSUME NEW h \in Handlers, CountOnNewRow(h) PROVE BookedOnce'
    <2>1. Booked' = Booked + 1
      BY <1>0, <1>14, BookedEnd DEF CountOnNewRow
    <2>2. EndHandler(h) /\ hseen[h] = None
      BY <1>14 DEF CountOnNewRow
    <2>3. PICK r \in RowIds : rows' = [rows EXCEPT ![r] =
            [conn |-> EventConn, exp |-> EventExp, key |-> EventKey, leads |-> 1]]
      BY <1>14 DEF CountOnNewRow
    <2> QED
      BY <2>1, <2>2, <2>3
  <1>15. ASSUME NEW h \in Handlers, LoseCount(h) PROVE BookedOnce'
    BY <1>15 DEF LoseCount
  <1>16. ASSUME NEW h \in Handlers, CrashHandler(h) PROVE BookedOnce'
    BY <1>16 DEF CrashHandler
  <1>17. CASE UNCHANGED vars
    BY <1>17
  <1> QED
    BY <1>1, <1>2, <1>3, <1>4, <1>5, <1>6, <1>7, <1>8, <1>9, <1>10, <1>11, <1>12, <1>13, <1>14, <1>15, <1>16, <1>17
    DEF Next, Step, Fault, SyncStep, HandlerStep, ViolateIndex, BreakDeadlock, FailSync

-----------------------------------------------------------------------------
(* The theorems *)

\* Nothing is stored, open or booked: every part of the invariant holds.
LEMMA InitIInv == Init => IInv
  <1> SUFFICES ASSUME Init PROVE IInv
    OBVIOUS
  <1>1. Booked \in Nat
    <2>1. IsFiniteSet(Settled)
      BY FS_EmptySet DEF Init, Settled
    <2> QED
      BY <2>1, FS_CardinalityType DEF Booked
  <1>2. TypeOK /\ Links /\ Covered /\ Held
    BY MetricStoreAssumption
    DEF Init, TypeOK, Links, SyncLinks, RowLinks, HandlerLinks, Covered, Held, Open,
        InFlight, NoReport, NoFigures
  <1>3. BookedOnce
    BY <1>1 DEF Init, BookedOnce
  <1> QED
    BY <1>2, <1>3 DEF IInv

\* The strengthened invariant holds in every state of the metric store.
THEOREM Inductive == Spec => []IInv
  <1>1. IInv /\ [Next]_vars => IInv'
    BY TypeStep, LinksStep, CoveredStep, HeldStep, BookedStep DEF IInv
  <1> QED
    BY <1>1, InitIInv, PTL DEF Spec

\* Every variable keeps its type, for any number of writers.
THEOREM TypeCorrect == Spec => []TypeOK
  <1>1. IInv => TypeOK
    BY DEF IInv
  <1> QED
    BY <1>1, Inductive, PTL

\* A conversion is booked at most once, however often it is posted, whoever
\* is lost and whatever the syncs write meanwhile.
THEOREM BookedAtMostOnce == Spec => []NoDoubleCount
  <1>1. IInv => NoDoubleCount
    <2> SUFFICES ASSUME IInv, NEW r \in RowIds, rows[r] # None
                 PROVE  rows[r].leads <= top[rows[r].key] + Cardinality(events)
      BY DEF NoDoubleCount
    <2>1. IsFiniteSet(events) /\ Settled \subseteq events
      BY FS_Subset, MetricStoreAssumption DEF IInv, TypeOK, Settled
    <2>2. /\ Booked \in Nat
          /\ Cardinality(events) \in Nat
          /\ Booked <= Cardinality(events)
      BY <2>1, FS_Subset, FS_CardinalityType DEF Booked
    <2>3. rows[r] \in Row /\ rows[r].leads <= top[rows[r].key] + Booked
      BY DEF IInv, TypeOK, BookedOnce
    <2>4. rows[r].leads \in Nat /\ top[rows[r].key] \in Nat
      BY <2>3, MetricStoreAssumption DEF Row, IInv, TypeOK
    <2> QED
      BY <2>2, <2>3, <2>4
  <1> QED
    BY <1>1, Inductive, PTL

ExactCommit ==
  \A s \in Syncs : Commits(s) =>
    \A k \in Keys : \E r \in RowIds :
      RowFor(s, rows'[r], k) /\ rows'[r].leads = got[s][k]

\* A sync that commits leaves exactly the figures it fetched, for each of its
\* records, whatever other writers did while it ran.
THEOREM CommitsAreExact == Spec => CommitIsExact
  <1>1. IInv /\ [Next]_vars => ExactCommit
    <2> SUFFICES ASSUME IInv, [Next]_vars, NEW s \in Syncs, Commits(s), NEW k \in Keys
                 PROVE  \E r \in RowIds :
                          RowFor(s, rows'[r], k) /\ rows'[r].leads = got[s][k]
      BY DEF ExactCommit
    <2>1. CommitSync(s)
      <3>1. spc[s] = "upsert" /\ spc'[s] = "committed" /\ spc' # spc
        BY DEF Commits
      <3>2. \E q \in Syncs : SyncStep(q) \/ FailSync(q) \/ \E kd \in Kinds, t \in Conns \cup Exps : Fetch(q, kd, t)
        BY <3>1 DEF Next, Step, Fault, vars, svars, PlatformReports, LinkCampaigns, Receive,
             HandlerStep, RecordEvent, ReadSnapshot, CountOnSnapshot, CountOnNewRow,
             LoseCount, CrashHandler, EndHandler
      <3> QED
        BY <3>1, <3>2, ZenonT(60) DEF SyncStep, FailSync, Fetch, InsertRow, FindRow, ViolateIndex,
             UpdateRow, CommitSync, Finish, BreakDeadlock, Abort, IInv, TypeOK
    <2>2. HeldBy(s, k)
      BY <2>1 DEF CommitSync, IInv, Held, Open
    <2>3. rows' = Committed(s)
      BY <2>1 DEF CommitSync
    <2> QED
      BY <2>2, <2>3 DEF HeldBy, Committed, RowFor
  <1>2. [ExactCommit]_vars <=>
          [\A s \in Syncs : Commits(s) =>
             \A k \in Keys : \E r \in RowIds :
               RowFor(s, rows'[r], k) /\ rows'[r].leads = got[s][k]]_vars
    BY DEF ExactCommit
  <1> QED
    BY <1>1, <1>2, Inductive, PTL DEF CommitIsExact, Spec

-----------------------------------------------------------------------------
(* The catalogue *)

\* A transaction writes a row for the connection that it is of.
KeepsConn ==
  \A r \in RowIds : lock[r] # None /\ rows[r] # None => dirty[r].conn = rows[r].conn

\* Whether a connection sync has all its records in the table.
Stored(s) == \A k \in Keys : \E r \in RowIds : rows[r] # None /\ rows[r].conn = at[s] /\ rows[r].key = k

OfConnection(s) == kind[s] \in {"sync", "force"}

CatalogIInv ==
  /\ IInv /\ KeepsConn
  /\ \A s \in Syncs : spc[s] = "committed" /\ OfConnection(s) => Stored(s)
  /\ SuccessIsCatalogued

\* A committed row keeps its connection and its campaign-day.
RowsLast ==
  \A r \in RowIds : rows[r] # None =>
    rows'[r] # None /\ rows'[r].conn = rows[r].conn /\ rows'[r].key = rows[r].key

LEMMA RowsLastStep ==
  ASSUME IInv, KeepsConn, [Next]_vars
  PROVE  RowsLast /\ KeepsConn'
  <1> USE MetricStoreAssumption
      DEF IInv, Links, RowLinks, TypeOK, RowsLast, KeepsConn, store, svars, hvars, vars,
          Newest, Unlocked, Cleared, Committed, Write, EndHandler
  <1>1. ASSUME NEW k \in Keys, NEW n \in 0..MaxLeads, PlatformReports(k, n) PROVE RowsLast /\ KeepsConn'
    BY <1>1 DEF PlatformReports
  <1>2. ASSUME NEW x \in Exps, LinkCampaigns(x) PROVE RowsLast /\ KeepsConn'
    BY <1>2 DEF LinkCampaigns
  <1>3. ASSUME NEW s \in Syncs, NEW kd \in Kinds, NEW t \in Conns \cup Exps, Fetch(s, kd, t)
        PROVE  RowsLast /\ KeepsConn'
    BY <1>3 DEF Fetch
  <1>4. ASSUME NEW s \in Syncs, Abort(s) PROVE RowsLast /\ KeepsConn'
    BY <1>4 DEF Abort
  <1>5. ASSUME NEW s \in Syncs, InsertRow(s) PROVE RowsLast /\ KeepsConn'
    BY <1>5 DEF InsertRow
  <1>6. ASSUME NEW s \in Syncs, FindRow(s) PROVE RowsLast /\ KeepsConn'
    BY <1>6 DEF FindRow
  <1>7. ASSUME NEW s \in Syncs, UpdateRow(s) PROVE RowsLast /\ KeepsConn'
    <2>1. PICK r \in RowIds, new \in Row :
           /\ lock[r] \in {None, s}
           /\ Newest(r) \in Row
           /\ RowFor(s, Newest(r), cur[s])
           /\ new.key = cur[s]
           /\ new.conn = Newest(r).conn
           /\ new.exp = Newest(r).exp
           /\ new.leads = got[s][cur[s]]
           /\ dirty' = [dirty EXCEPT ![r] = new]
           /\ lock' = [lock EXCEPT ![r] = s]
      BY <1>7, UpdateEffect
    <2>2. rows' = rows
      BY <1>7 DEF UpdateRow
    <2> QED
      BY <2>1, <2>2
  <1>8. ASSUME NEW s \in Syncs, CommitSync(s) PROVE RowsLast /\ KeepsConn'
    BY <1>8 DEF CommitSync
  <1>9. ASSUME NEW s \in Syncs, Finish(s) PROVE RowsLast /\ KeepsConn'
    BY <1>9 DEF Finish
  <1>10. ASSUME NEW h \in Handlers, NEW v \in EventIds, Receive(h, v) PROVE RowsLast /\ KeepsConn'
    BY <1>10 DEF Receive
  <1>11. ASSUME NEW h \in Handlers, RecordEvent(h) PROVE RowsLast /\ KeepsConn'
    BY <1>11 DEF RecordEvent
  <1>12. ASSUME NEW h \in Handlers, ReadSnapshot(h) PROVE RowsLast /\ KeepsConn'
    BY <1>12 DEF ReadSnapshot
  <1>13. ASSUME NEW h \in Handlers, CountOnSnapshot(h) PROVE RowsLast /\ KeepsConn'
    <2>1. hseen[h] \in Seen /\ hseen[h].row \in RowIds /\ rows[hseen[h].row] # None
      BY <1>13 DEF CountOnSnapshot, Seen, HandlerLinks
    <2>2. /\ rows' = [rows EXCEPT ![hseen[h].row].leads = hseen[h].leads + 1]
          /\ lock[hseen[h].row] = None /\ UNCHANGED <<dirty, lock>>
      BY <1>13 DEF CountOnSnapshot
    <2>3. hseen[h].leads + 1 \in Nat
      BY <2>1 DEF Seen
    <2> DEFINE r   == hseen[h].row
               new == [rows[r] EXCEPT !.leads = hseen[h].leads + 1]
    <2>4. new \in Row /\ new.key = rows[r].key /\ new.conn = rows[r].conn
      BY <2>1, <2>3, RowUpdate
    <2>5. rows' = [rows EXCEPT ![r] = new]
      BY <2>2
    <2>6. new # None /\ r \in RowIds /\ rows[r] # None /\ lock[r] = None /\ rows \in [RowIds -> Row \cup {None}]
      BY <2>1, <2>2, <2>4
    <2> HIDE DEF new, r
    <2>7. rows'[r] = new /\ \A q \in RowIds \ {r} : rows'[q] = rows[q]
      BY ONLY <2>5, <2>6
    <2> QED
      BY <2>2, <2>4, <2>6, <2>7
  <1>14. ASSUME NEW h \in Handlers, CountOnNewRow(h) PROVE RowsLast /\ KeepsConn'
    BY <1>14 DEF CountOnNewRow
  <1>15. ASSUME NEW h \in Handlers, LoseCount(h) PROVE RowsLast /\ KeepsConn'
    BY <1>15 DEF LoseCount
  <1>16. ASSUME NEW h \in Handlers, CrashHandler(h) PROVE RowsLast /\ KeepsConn'
    BY <1>16 DEF CrashHandler
  <1>17. CASE UNCHANGED vars
    BY <1>17
  <1> QED
    BY <1>1, <1>2, <1>3, <1>4, <1>5, <1>6, <1>7, <1>8, <1>9, <1>10, <1>11, <1>12, <1>13, <1>14, <1>15, <1>16, <1>17
    DEF Next, Step, Fault, SyncStep, HandlerStep, ViolateIndex, BreakDeadlock, FailSync

\* A sync comes to be committed, or successful, in one way.
LEMMA SyncMoves ==
  ASSUME IInv, [Next]_vars, NEW s \in Syncs, spc'[s] \in {"committed", "success"}
  PROVE  \/ CommitSync(s) \/ Finish(s)
         \/ spc'[s] = spc[s] /\ kind'[s] = kind[s] /\ at'[s] = at[s]
  <1> USE DEF IInv, TypeOK, svars, hvars, vars, EndHandler
  <1>1. ASSUME NEW q \in Syncs, SyncStep(q) \/ FailSync(q) \/ \E kd \in Kinds, t \in Conns \cup Exps : Fetch(q, kd, t)
        PROVE  \/ CommitSync(s) \/ Finish(s)
               \/ spc'[s] = spc[s] /\ kind'[s] = kind[s] /\ at'[s] = at[s]
    <2>1. CASE q # s
      BY <1>1, <2>1 DEF SyncStep, FailSync, Fetch, InsertRow, FindRow, ViolateIndex, UpdateRow, CommitSync,
                        Finish, BreakDeadlock, Abort
    <2>2. CASE q = s
      BY <1>1, <2>2 DEF SyncStep, FailSync, Fetch, InsertRow, FindRow, ViolateIndex, UpdateRow, BreakDeadlock, Abort
    <2> QED
      BY <2>1, <2>2
  <1>2. CASE UNCHANGED svars
    BY <1>2
  <1> QED
    BY <1>1, <1>2 DEF Next, Step, Fault, PlatformReports, LinkCampaigns, Receive, HandlerStep,
       RecordEvent, ReadSnapshot, CountOnSnapshot, CountOnNewRow, LoseCount, CrashHandler

\* Nothing is taken out of the catalogue.
LEMMA CatalogGrows ==
  ASSUME IInv, [Next]_vars, NEW c \in Conns
  PROVE  catalog[c] \subseteq catalog'[c]
  <1> USE DEF IInv, TypeOK, store, svars, hvars, vars, EndHandler
  <1>1. ASSUME NEW s \in Syncs, Finish(s) PROVE catalog[c] \subseteq catalog'[c]
    BY <1>1 DEF Finish
  <1>2. CASE UNCHANGED catalog
    BY <1>2
  <1> QED
    BY <1>1, <1>2 DEF Next, Step, Fault, SyncStep, FailSync, Fetch, InsertRow, FindRow, ViolateIndex, UpdateRow,
       CommitSync, BreakDeadlock, Abort, PlatformReports, LinkCampaigns, Receive, HandlerStep,
       RecordEvent, ReadSnapshot, CountOnSnapshot, CountOnNewRow, LoseCount, CrashHandler

LEMMA StoredStep ==
  ASSUME CatalogIInv, [Next]_vars, IInv', NEW s \in Syncs, spc'[s] = "committed", OfConnection(s)'
  PROVE  Stored(s)'
  <1>1. RowsLast
    BY RowsLastStep DEF CatalogIInv
  <1>2. CASE CommitSync(s)
    <2>1. /\ spc[s] = "upsert" /\ left[s] = {} /\ kind' = kind /\ at' = at /\ rows' = Committed(s)
      BY <1>2 DEF CommitSync
    <2>2. \A k \in Keys : HeldBy(s, k)
      BY <2>1 DEF CatalogIInv, IInv, Held, Open
    <2> QED
      BY <2>1, <2>2 DEF HeldBy, RowFor, Committed, Stored, OfConnection
  <1>3. CASE spc'[s] = spc[s] /\ kind'[s] = kind[s] /\ at'[s] = at[s]
    <2>1. Stored(s)
      BY <1>3 DEF CatalogIInv, OfConnection
    <2> QED
      BY <1>1, <1>3, <2>1 DEF Stored, RowsLast
  <1>4. ~Finish(s)
    BY DEF Finish, CatalogIInv, IInv, TypeOK
  <1> QED
    BY <1>2, <1>3, <1>4, SyncMoves DEF CatalogIInv

LEMMA CataloguedStep ==
  ASSUME CatalogIInv, [Next]_vars, IInv', NEW s \in Syncs, spc'[s] = "success", OfConnection(s)',
         NEW k \in Keys
  PROVE  k \in catalog'[at'[s]]
  <1>1. CASE Finish(s)
    <2>1. /\ spc[s] = "committed" /\ kind' = kind /\ at' = at
          /\ kind[s] \in {"sync", "force"}
          /\ catalog' = [catalog EXCEPT ![at[s]] = @ \cup CampaignsOf(at[s])]
      BY <1>1 DEF Finish, OfConnection, svars
    <2>2. Stored(s) /\ at[s] \in Conns
      BY <2>1 DEF CatalogIInv, IInv, Links, SyncLinks, OfConnection
    <2>3. k \in CampaignsOf(at[s])
      BY <2>2 DEF Stored, CampaignsOf
    <2> QED
      BY <2>1, <2>2, <2>3 DEF CatalogIInv, IInv, TypeOK
  <1>2. CASE spc'[s] = spc[s] /\ kind'[s] = kind[s] /\ at'[s] = at[s]
    <2>1. at[s] \in Conns /\ k \in catalog[at[s]]
      BY <1>2 DEF CatalogIInv, IInv, Links, SyncLinks, SuccessIsCatalogued, OfConnection
    <2> QED
      BY <1>2, <2>1, CatalogGrows DEF CatalogIInv
  <1>3. ~CommitSync(s)
    BY DEF CommitSync, CatalogIInv, IInv, TypeOK
  <1> QED
    BY <1>1, <1>2, <1>3, SyncMoves DEF CatalogIInv

\* A connection sync that reports success has all its campaigns in the
\* catalogue, whatever it inserted itself and whatever failed before it
\* (sync_connection_metrics, refresh_catalog_for_connection).
THEOREM SuccessMeansCatalogued == Spec => []SuccessIsCatalogued
  <1>1. Init => CatalogIInv
    BY InitIInv DEF Init, CatalogIInv, KeepsConn, SuccessIsCatalogued
  <1>2. CatalogIInv /\ [Next]_vars /\ IInv' => CatalogIInv'
    BY RowsLastStep, StoredStep, CataloguedStep DEF CatalogIInv, SuccessIsCatalogued, OfConnection
  <1>3. CatalogIInv => SuccessIsCatalogued
    BY DEF CatalogIInv
  <1> QED
    BY <1>1, <1>2, <1>3, Inductive, PTL DEF Spec

-----------------------------------------------------------------------------
(* The counters *)

\* The rows an open sync holds: those it made, those it changed and those it
\* found as they were.
HeldRows(s)    == {r \in RowIds : lock[r] = s}
NewRows(s)     == {r \in HeldRows(s) : rows[r] = None}
ChangedRows(s) == {r \in HeldRows(s) : rows[r] # None /\ dirty[r] # rows[r]}
SameRows(s)    == {r \in HeldRows(s) : rows[r] # None /\ dirty[r] = rows[r]}

\* They are of the records it has done, one for each.
OneRowEach(s) ==
  /\ \A r \in HeldRows(s) : dirty[r].key \notin left[s]
  /\ IsFiniteSet(HeldRows(s))
  /\ IsFiniteSet(Keys \ left[s])
  /\ Cardinality(HeldRows(s)) = Cardinality(Keys \ left[s])

\* Its counters count them.
Counted(s) ==
  /\ report[s].inserted = Cardinality(NewRows(s))
  /\ report[s].updated = Cardinality(ChangedRows(s))
  /\ report[s].unchanged = Cardinality(SameRows(s))

CountsRows(s) == kind[s] \in {"sync", "experiment"}

Ledger(s) == OneRowEach(s) /\ (CountsRows(s) => Counted(s))

Ledgers == \A s \in Syncs : Open(s) => Ledger(s)

\* The three kinds of rows make up all that are held.
LEMMA HeldParts ==
  ASSUME NEW s \in Syncs, IsFiniteSet(HeldRows(s))
  PROVE  /\ IsFiniteSet(NewRows(s)) /\ IsFiniteSet(ChangedRows(s)) /\ IsFiniteSet(SameRows(s))
         /\ Cardinality(NewRows(s)) \in Nat
         /\ Cardinality(ChangedRows(s)) \in Nat
         /\ Cardinality(SameRows(s)) \in Nat
  <1>1. NewRows(s) \subseteq HeldRows(s) /\ ChangedRows(s) \subseteq HeldRows(s) /\ SameRows(s) \subseteq HeldRows(s)
    BY DEF NewRows, ChangedRows, SameRows
  <1>2. IsFiniteSet(NewRows(s)) /\ IsFiniteSet(ChangedRows(s)) /\ IsFiniteSet(SameRows(s))
    BY <1>1, FS_Subset
  <1> QED
    BY <1>2, FS_CardinalityType

\* A step leaves a sync, its rows and what is committed of them alone.
Apart(s) ==
  /\ kind'[s] = kind[s] /\ left'[s] = left[s] /\ report'[s] = report[s]
  /\ \A r \in RowIds :
       /\ lock'[r] = s <=> lock[r] = s
       /\ lock[r] = s => rows'[r] = rows[r] /\ dirty'[r] = dirty[r]

LEMMA LedgerFrame ==
  ASSUME NEW s \in Syncs, Ledger(s), Apart(s)
  PROVE  Ledger(s)'
  <1>1. HeldRows(s)' = HeldRows(s)
    BY DEF Apart, HeldRows
  <1>2. \A r \in HeldRows(s) : rows'[r] = rows[r] /\ dirty'[r] = dirty[r]
    BY DEF Apart, HeldRows
  <1>3. /\ NewRows(s)' = NewRows(s)
        /\ ChangedRows(s)' = ChangedRows(s)
        /\ SameRows(s)' = SameRows(s)
    BY <1>1, <1>2 DEF NewRows, ChangedRows, SameRows
  <1>4. OneRowEach(s)'
    <2>1. Keys \ left'[s] = Keys \ left[s]
      BY DEF Apart
    <2> QED
      BY <1>1, <1>2, <2>1 DEF Ledger, OneRowEach, Apart
  <1>5. CountsRows(s)' => Counted(s)'
    BY <1>3 DEF Ledger, CountsRows, Counted, Apart
  <1> QED
    BY <1>4, <1>5 DEF Ledger

\* A sync that stores its next record takes a row that nobody held, and
\* that one kind of rows gains it.
Takes(s, r) ==
  /\ r \in RowIds /\ lock[r] = None
  /\ cur[s] \in left[s] /\ cur[s] \in Keys
  /\ left'[s] = left[s] \ {cur[s]}
  /\ rows' = rows /\ kind'[s] = kind[s]
  /\ \A q \in RowIds : lock'[q] = IF q = r THEN s ELSE lock[q]
  /\ \A q \in RowIds : q # r => dirty'[q] = dirty[q]
  /\ dirty'[r] # None /\ dirty'[r].key = cur[s]

LEMMA OneRowMore ==
  ASSUME NEW s \in Syncs, NEW r, OneRowEach(s), Takes(s, r), s # None
  PROVE  OneRowEach(s)' /\ r \notin HeldRows(s) /\ HeldRows(s)' = HeldRows(s) \cup {r}
  <1>1. r \notin HeldRows(s) /\ HeldRows(s)' = HeldRows(s) \cup {r}
    BY DEF Takes, HeldRows
  <1>2. /\ Keys \ left'[s] = (Keys \ left[s]) \cup {cur[s]}
        /\ cur[s] \notin Keys \ left[s]
    BY DEF Takes
  <1>3. /\ IsFiniteSet(HeldRows(s)')
        /\ Cardinality(HeldRows(s)') = Cardinality(HeldRows(s)) + 1
    BY <1>1, FS_AddElement DEF OneRowEach
  <1>4. /\ IsFiniteSet(Keys \ left'[s])
        /\ Cardinality(Keys \ left'[s]) = Cardinality(Keys \ left[s]) + 1
    <2>1. PICK done : done = Keys \ left[s]
      OBVIOUS
    <2>2. IsFiniteSet(done) /\ cur[s] \notin done
      BY <1>2, <2>1 DEF OneRowEach
    <2>3. /\ IsFiniteSet(done \cup {cur[s]})
          /\ Cardinality(done \cup {cur[s]}) = Cardinality(done) + 1
      BY <2>2, FS_AddElement
    <2> QED
      BY <1>2, <2>1, <2>3
  <1>5. \A q \in HeldRows(s)' : dirty'[q].key \notin left'[s]
    <2> SUFFICES ASSUME NEW q \in HeldRows(s)' PROVE dirty'[q].key \notin left'[s]
      OBVIOUS
    <2>1. CASE q = r
      BY <2>1 DEF Takes
    <2>2. CASE q # r
      <3>1. q \in HeldRows(s) /\ q \in RowIds
        BY <1>1, <2>2 DEF HeldRows
      <3>2. dirty'[q] = dirty[q] /\ left'[s] \subseteq left[s]
        BY <2>2, <3>1 DEF Takes
      <3> QED
        BY <3>1, <3>2 DEF OneRowEach
    <2> QED
      BY <2>1, <2>2
  <1> QED
    BY <1>1, <1>3, <1>4, <1>5 DEF OneRowEach

\* The counter of the kind that gained the row is one more.
LEMMA CountedMore ==
  ASSUME NEW s \in Syncs, NEW r, OneRowEach(s), Counted(s), Takes(s, r), s # None,
         \/ /\ rows[r] = None
            /\ report'[s].inserted = report[s].inserted + 1
            /\ report'[s].updated = report[s].updated
            /\ report'[s].unchanged = report[s].unchanged
         \/ /\ rows[r] # None /\ dirty'[r] # rows[r]
            /\ report'[s].inserted = report[s].inserted
            /\ report'[s].updated = report[s].updated + 1
            /\ report'[s].unchanged = report[s].unchanged
         \/ /\ rows[r] # None /\ dirty'[r] = rows[r]
            /\ report'[s].inserted = report[s].inserted
            /\ report'[s].updated = report[s].updated
            /\ report'[s].unchanged = report[s].unchanged + 1
  PROVE  Counted(s)'
  <1>1. r \notin HeldRows(s) /\ HeldRows(s)' = HeldRows(s) \cup {r}
    BY OneRowMore
  <1>2. \A q \in HeldRows(s) : q # r /\ rows'[q] = rows[q] /\ dirty'[q] = dirty[q]
    BY <1>1 DEF Takes, HeldRows
  <1>3. /\ IsFiniteSet(NewRows(s)) /\ IsFiniteSet(ChangedRows(s)) /\ IsFiniteSet(SameRows(s))
    BY HeldParts DEF OneRowEach
  <1>4. r \notin NewRows(s) /\ r \notin ChangedRows(s) /\ r \notin SameRows(s) /\ rows'[r] = rows[r]
    BY <1>1 DEF NewRows, ChangedRows, SameRows, Takes
  <1>5. CASE rows[r] = None
    <2>1. /\ NewRows(s)' = NewRows(s) \cup {r}
          /\ ChangedRows(s)' = ChangedRows(s)
          /\ SameRows(s)' = SameRows(s)
      BY <1>1, <1>2, <1>4, <1>5 DEF NewRows, ChangedRows, SameRows
    <2>2. Cardinality(NewRows(s)') = Cardinality(NewRows(s)) + 1
      BY <1>3, <1>4, <2>1, FS_AddElement
    <2> QED
      BY <1>5, <2>1, <2>2 DEF Counted
  <1>6. CASE rows[r] # None /\ dirty'[r] # rows[r]
    <2>1. /\ NewRows(s)' = NewRows(s)
          /\ ChangedRows(s)' = ChangedRows(s) \cup {r}
          /\ SameRows(s)' = SameRows(s)
      BY <1>1, <1>2, <1>4, <1>6 DEF NewRows, ChangedRows, SameRows
    <2>2. Cardinality(ChangedRows(s)') = Cardinality(ChangedRows(s)) + 1
      BY <1>3, <1>4, <2>1, FS_AddElement
    <2> QED
      BY <1>6, <2>1, <2>2 DEF Counted
  <1>7. CASE rows[r] # None /\ dirty'[r] = rows[r]
    <2>1. /\ NewRows(s)' = NewRows(s)
          /\ ChangedRows(s)' = ChangedRows(s)
          /\ SameRows(s)' = SameRows(s) \cup {r}
      BY <1>1, <1>2, <1>4, <1>7 DEF NewRows, ChangedRows, SameRows
    <2>2. Cardinality(SameRows(s)') = Cardinality(SameRows(s)) + 1
      BY <1>3, <1>4, <2>1, FS_AddElement
    <2> QED
      BY <1>7, <2>1, <2>2 DEF Counted
  <1> QED
    BY <1>5, <1>6, <1>7

\* The figures are all that an update can change of a row.
LEMMA SameRow ==
  ASSUME NEW row \in Row, NEW n \in Nat
  PROVE  [row EXCEPT !.leads = n] = row <=> row.leads = n
  BY DEF Row

\* Counting one up leaves the other counters and the other syncs' alone.
LEMMA OneCounter ==
  ASSUME NEW rep \in [Syncs -> Reports], NEW s \in Syncs
  PROVE  LET ins == [rep EXCEPT ![s].inserted = @ + 1]
             upd == [rep EXCEPT ![s].updated = @ + 1]
             unc == [rep EXCEPT ![s].unchanged = @ + 1]
         IN /\ ins[s].inserted = rep[s].inserted + 1
            /\ ins[s].updated = rep[s].updated
            /\ ins[s].unchanged = rep[s].unchanged
            /\ upd[s].inserted = rep[s].inserted
            /\ upd[s].updated = rep[s].updated + 1
            /\ upd[s].unchanged = rep[s].unchanged
            /\ unc[s].inserted = rep[s].inserted
            /\ unc[s].updated = rep[s].updated
            /\ unc[s].unchanged = rep[s].unchanged + 1
            /\ \A q \in Syncs : q # s => ins[q] = rep[q] /\ upd[q] = rep[q] /\ unc[q] = rep[q]
  BY DEF Reports

\* An insert takes a row that was not there.
LEMMA InsertTakes ==
  ASSUME IInv, NEW s \in Syncs, InsertRow(s)
  PROVE  \E r \in RowIds : Takes(s, r) /\ rows[r] = None
  <1> DEFINE new == [conn |-> ConnOf(s), exp |-> ExpOf(s), key |-> cur[s], leads |-> got[s][cur[s]]]
  <1>1. PICK r \in RowIds : Newest(r) = None /\ Write(s, r, new)
    BY DEF InsertRow
  <1>2. lock[r] = None /\ rows[r] = None
    BY <1>1 DEF Newest, IInv, Links, RowLinks
  <1>3. cur[s] \in left[s] /\ cur[s] \in Keys /\ left'[s] = left[s] \ {cur[s]}
    BY DEF InsertRow, Take, IInv, Links, SyncLinks, TypeOK
  <1>4. new # None /\ new.key = cur[s]
    <2>1. new \in Row
      BY <1>3, MetricStoreAssumption DEF InsertRow, ConnOf, ExpOf, IInv, Links, SyncLinks, TypeOK, Row
    <2> QED
      BY <2>1, MetricStoreAssumption
  <1> HIDE DEF new
  <1>5. /\ \A q \in RowIds : lock'[q] = IF q = r THEN s ELSE lock[q]
        /\ \A q \in RowIds : q # r => dirty'[q] = dirty[q]
        /\ dirty'[r] = new
    BY <1>1 DEF Write, IInv, TypeOK
  <1>6. rows' = rows /\ kind'[s] = kind[s]
    BY DEF InsertRow
  <1> QED
    BY <1>2, <1>3, <1>4, <1>5, <1>6 DEF Takes

\* An update takes a row that it has not held before: a row it holds is of a
\* record that is done.
LEMMA UpdateTakes ==
  ASSUME IInv, NEW s \in Syncs, OneRowEach(s), UpdateRow(s)
  PROVE  \E r \in RowIds :
           /\ Takes(s, r) /\ rows[r] \in Row
           /\ dirty'[r] = rows[r] <=> rows[r].leads = got[s][cur[s]]
           /\ report' = IF kind[s] \in {"force", "task"} \/ rows[r].leads # got[s][cur[s]]
                          THEN [report EXCEPT ![s].updated = @ + 1]
                          ELSE [report EXCEPT ![s].unchanged = @ + 1]
  <1> DEFINE new(r) == [Newest(r) EXCEPT !.leads = got[s][cur[s]]]
  <1>1. PICK r \in RowIds :
          /\ Arbiter(s, r, cur[s])
          /\ lock[r] \in {None, s}
          /\ Write(s, r, new(r))
          /\ report' = IF kind[s] \in {"force", "task"} \/ Newest(r).leads # got[s][cur[s]]
                         THEN [report EXCEPT ![s].updated = @ + 1]
                         ELSE [report EXCEPT ![s].unchanged = @ + 1]
    BY DEF UpdateRow
  <1>2. Newest(r) \in Row /\ Newest(r).key = cur[s]
    BY <1>1 DEF IInv, TypeOK, Newest, Arbiter, RowFor
  <1>3. cur[s] \in left[s] /\ cur[s] \in Keys /\ left'[s] = left[s] \ {cur[s]}
    BY <1>2, MetricStoreAssumption DEF UpdateRow, Take, IInv, Links, SyncLinks, TypeOK, Row
  <1>4. lock[r] = None
    <2> SUFFICES ASSUME lock[r] = s, s # None PROVE FALSE
      BY <1>1
    <2>1. r \in HeldRows(s) /\ Newest(r) = dirty[r]
      BY DEF HeldRows, Newest
    <2> QED
      BY <1>2, <1>3, <2>1 DEF OneRowEach
  <1>5. Newest(r) = rows[r]
    BY <1>4 DEF Newest
  <1>6. got[s][cur[s]] \in Nat
    BY <1>3, MetricStoreAssumption DEF IInv, TypeOK
  <1>7. /\ new(r) \in Row /\ new(r).key = cur[s]
        /\ new(r) = rows[r] <=> rows[r].leads = got[s][cur[s]]
    BY <1>2, <1>5, <1>6, RowUpdate, SameRow
  <1>8. /\ lock' = [lock EXCEPT ![r] = s] /\ dirty' = [dirty EXCEPT ![r] = new(r)]
    BY <1>1 DEF Write
  <1> HIDE DEF new
  <1>9. /\ \A q \in RowIds : lock'[q] = IF q = r THEN s ELSE lock[q]
        /\ \A q \in RowIds : q # r => dirty'[q] = dirty[q]
        /\ dirty'[r] = new(r)
    BY <1>8 DEF IInv, TypeOK
  <1>10. rows' = rows /\ kind'[s] = kind[s]
    BY DEF UpdateRow
  <1>11. Takes(s, r)
    BY <1>3, <1>4, <1>7, <1>9, <1>10, MetricStoreAssumption DEF Takes
  <1> QED
    BY <1>1, <1>2, <1>5, <1>7, <1>9, <1>11

\* A row that is held by a sync is not free.
LEMMA SyncIsSome == ASSUME NEW s \in Syncs PROVE s # None
  BY MetricStoreAssumption

\* A fetch starts with no row and no record done.
LEMMA FetchLedger ==
  ASSUME IInv, NEW s \in Syncs, NEW kd \in Kinds, NEW t \in Conns \cup Exps, Fetch(s, kd, t)
  PROVE  Ledger(s)'
  <1>1. HeldRows(s) = {}
    BY SyncIsSome DEF HeldRows, Fetch, IInv, Links, RowLinks, Open
  <1>2. left'[s] = Keys /\ report'[s] = NoReport /\ UNCHANGED <<lock, rows, dirty>>
    BY DEF Fetch, Take, store, IInv, Links, SyncLinks, TypeOK
  <1>3. HeldRows(s)' = {} /\ NewRows(s)' = {} /\ ChangedRows(s)' = {} /\ SameRows(s)' = {}
    BY <1>1, <1>2 DEF HeldRows, NewRows, ChangedRows, SameRows
  <1>4. IsFiniteSet({}) /\ Cardinality({}) = 0
    BY FS_EmptySet
  <1>5. Keys \ left'[s] = {}
    BY <1>2
  <1>6. OneRowEach(s)'
    BY <1>3, <1>4, <1>5 DEF OneRowEach
  <1>7. Counted(s)'
    BY <1>2, <1>3, <1>4 DEF Counted, NoReport
  <1> QED
    BY <1>6, <1>7 DEF Ledger

\* An insert adds a row to those it made, an update to those it changed or
\* found as they were.
LEMMA InsertLedger ==
  ASSUME IInv, NEW s \in Syncs, Ledger(s), InsertRow(s)
  PROVE  Ledger(s)'
  <1>1. PICK r \in RowIds : Takes(s, r) /\ rows[r] = None
    BY InsertTakes
  <1>2. OneRowEach(s) /\ OneRowEach(s)'
    BY <1>1, OneRowMore, SyncIsSome DEF Ledger
  <1>3. /\ report'[s].inserted = report[s].inserted + 1
        /\ report'[s].updated = report[s].updated
        /\ report'[s].unchanged = report[s].unchanged
    <2>1. report \in [Syncs -> Reports] /\ report' = [report EXCEPT ![s].inserted = @ + 1]
      BY DEF InsertRow, IInv, TypeOK, Reports
    <2> QED
      BY <2>1, OneCounter
  <1>4. CountsRows(s)' => Counted(s)'
    <2>1. CountsRows(s)' <=> CountsRows(s)
      BY <1>1 DEF CountsRows, Takes
    <2> QED
      BY <1>1, <1>2, <1>3, <2>1, CountedMore, SyncIsSome DEF Ledger
  <1> QED
    BY <1>2, <1>4 DEF Ledger

LEMMA UpdateLedger ==
  ASSUME IInv, NEW s \in Syncs, Ledger(s), UpdateRow(s)
  PROVE  Ledger(s)'
  <1>0. OneRowEach(s)
    BY DEF Ledger
  <1>1. PICK r \in RowIds :
          /\ Takes(s, r) /\ rows[r] \in Row
          /\ dirty'[r] = rows[r] <=> rows[r].leads = got[s][cur[s]]
          /\ report' = IF kind[s] \in {"force", "task"} \/ rows[r].leads # got[s][cur[s]]
                         THEN [report EXCEPT ![s].updated = @ + 1]
                         ELSE [report EXCEPT ![s].unchanged = @ + 1]
    BY <1>0, UpdateTakes
  <1>2. OneRowEach(s)'
    BY <1>0, <1>1, OneRowMore, SyncIsSome
  <1>3. ASSUME CountsRows(s)' PROVE Counted(s)'
    <2>1. Counted(s) /\ kind[s] \notin {"force", "task"}
      BY <1>1, <1>3 DEF CountsRows, Takes, Ledger
    <2>2. rows[r] # None /\ report \in [Syncs -> Reports]
      BY <1>1, MetricStoreAssumption DEF IInv, TypeOK, Reports
    <2>3. CASE rows[r].leads # got[s][cur[s]]
      <3>1. dirty'[r] # rows[r] /\ report' = [report EXCEPT ![s].updated = @ + 1]
        BY <1>1, <2>3
      <3>2. /\ report'[s].inserted = report[s].inserted
            /\ report'[s].updated = report[s].updated + 1
            /\ report'[s].unchanged = report[s].unchanged
        BY <2>2, <3>1, OneCounter
      <3> QED
        BY <1>0, <1>1, <2>1, <2>2, <3>1, <3>2, CountedMore, SyncIsSome
    <2>4. CASE rows[r].leads = got[s][cur[s]]
      <3>1. dirty'[r] = rows[r] /\ report' = [report EXCEPT ![s].unchanged = @ + 1]
        BY <1>1, <2>1, <2>4
      <3>2. /\ report'[s].inserted = report[s].inserted
            /\ report'[s].updated = report[s].updated
            /\ report'[s].unchanged = report[s].unchanged + 1
        BY <2>2, <3>1, OneCounter
      <3> QED
        BY <1>0, <1>1, <2>1, <2>2, <3>1, <3>2, CountedMore, SyncIsSome
    <2> QED
      BY <2>3, <2>4
  <1> QED
    BY <1>2, <1>3 DEF Ledger

\* Any other step leaves a sync that stays open with the rows it holds.
LEMMA ApartStep ==
  ASSUME IInv, [Next]_vars, NEW q \in Syncs, Open(q), Open(q)'
  PROVE  Apart(q) \/ InsertRow(q) \/ UpdateRow(q)
  <1> USE SyncIsSome DEF IInv, TypeOK, Apart, Open, store, svars, hvars, vars
  <1>1. CASE UNCHANGED <<store, svars>>
    BY <1>1
  <1>2. ASSUME NEW s \in Syncs, Abort(s) PROVE Apart(q)
    BY <1>2 DEF Abort, Forget, Cleared, Unlocked
  <1>3. ASSUME NEW s \in Syncs, InsertRow(s), s # q PROVE Apart(q)
    BY <1>3 DEF InsertRow, Take, Write, Newest, Links, RowLinks
  <1>4. ASSUME NEW s \in Syncs, FindRow(s) PROVE Apart(q)
    BY <1>4 DEF FindRow
  <1>5. ASSUME NEW s \in Syncs, UpdateRow(s), s # q PROVE Apart(q)
    BY <1>5 DEF UpdateRow, Take, Write
  <1>6. ASSUME NEW s \in Syncs, CommitSync(s) PROVE Apart(q)
    BY <1>6 DEF CommitSync, Committed, Cleared, Unlocked
  <1>7. ASSUME NEW s \in Syncs, Finish(s) PROVE Apart(q)
    BY <1>7 DEF Finish, Forget
  <1>8. ASSUME NEW s \in Syncs, NEW kd \in Kinds, NEW t \in Conns \cup Exps, Fetch(s, kd, t) PROVE Apart(q)
    BY <1>8 DEF Fetch, Take
  <1>9. ASSUME NEW h \in Handlers, CountOnSnapshot(h) PROVE Apart(q)
    <2>1. /\ rows' = [rows EXCEPT ![hseen[h].row].leads = hseen[h].leads + 1]
          /\ lock[hseen[h].row] = None /\ UNCHANGED <<dirty, lock, svars>>
      BY <1>9 DEF CountOnSnapshot, EndHandler
    <2>2. \A r \in RowIds : r # hseen[h].row => rows'[r] = rows[r]
      BY <2>1
    <2> QED
      BY <2>1, <2>2
  <1>10. ASSUME NEW h \in Handlers, CountOnNewRow(h) PROVE Apart(q)
    BY <1>10 DEF CountOnNewRow, EndHandler, Newest, Links, RowLinks
  <1> QED
    BY <1>1, <1>2, <1>3, <1>4, <1>5, <1>6, <1>7, <1>8, <1>9, <1>10
    DEF Next, Step, Fault, SyncStep, HandlerStep, ViolateIndex, BreakDeadlock, FailSync,
        PlatformReports, LinkCampaigns, Receive, RecordEvent, ReadSnapshot, LoseCount, CrashHandler, EndHandler

\* A sync opens by a fetch.
LEMMA Opens ==
  ASSUME IInv, [Next]_vars, NEW q \in Syncs, ~Open(q), Open(q)'
  PROVE  \E kd \in Kinds, t \in Conns \cup Exps : Fetch(q, kd, t)
  <1> USE DEF IInv, TypeOK, Open, svars, hvars, vars
  <1>1. ASSUME NEW s \in Syncs, SyncStep(s) \/ FailSync(s) PROVE FALSE
    BY <1>1 DEF SyncStep, FailSync, InsertRow, FindRow, ViolateIndex, UpdateRow, CommitSync, Finish, BreakDeadlock, Abort
  <1>2. ASSUME NEW s \in Syncs, NEW kd \in Kinds, NEW t \in Conns \cup Exps, Fetch(s, kd, t) PROVE s = q
    BY <1>2 DEF Fetch
  <1>3. ~UNCHANGED spc
    OBVIOUS
  <1>4. PICK s \in Syncs : SyncStep(s) \/ FailSync(s) \/ \E kd \in Kinds, t \in Conns \cup Exps : Fetch(s, kd, t)
    BY ONLY <1>3, [Next]_vars DEF vars, svars, Next, Step, Fault, PlatformReports, LinkCampaigns, Receive,
       HandlerStep, RecordEvent, ReadSnapshot, CountOnSnapshot, CountOnNewRow, LoseCount, CrashHandler, EndHandler
  <1>5. \E kd \in Kinds, t \in Conns \cup Exps : Fetch(s, kd, t)
    BY ONLY <1>1, <1>4
  <1>6. s = q
    BY ONLY <1>2, <1>5
  <1> QED
    BY ONLY <1>5, <1>6

\* Every step keeps the ledgers of the syncs that are open after it.
LEMMA LedgersStep == IInv /\ Ledgers /\ [Next]_vars => Ledgers'
  <1> SUFFICES ASSUME IInv, Ledgers, [Next]_vars, NEW q \in Syncs, Open(q)'
               PROVE  Ledger(q)'
    BY DEF Ledgers
  <1>1. CASE Open(q)
    <2>1. Ledger(q)
      BY <1>1 DEF Ledgers
    <2> QED
      BY <1>1, <2>1, ApartStep, LedgerFrame, InsertLedger, UpdateLedger
  <1>2. CASE ~Open(q)
    BY <1>2, Opens, FetchLedger
  <1> QED
    BY <1>1, <1>2

LEMMA InitLedgers == Init => Ledgers
  BY DEF Init, Ledgers, Open

\* What a commit reports of the table, when its ledger is right.
LEMMA CommitReport ==
  ASSUME IInv, NEW s \in Syncs, Ledger(s), CountsRows(s), CommitSync(s)
  PROVE  LET inserted == {r \in RowIds : rows[r] = None /\ rows'[r] # None}
             updated  == {r \in RowIds : rows[r] # None /\ rows'[r] # rows[r]}
         IN report[s] =
              [inserted  |-> Cardinality(inserted),
               updated   |-> Cardinality(updated),
               unchanged |-> Cardinality(Keys) - Cardinality(inserted \cup updated)]
  <1>1. left[s] = {} /\ rows' = Committed(s)
    BY DEF CommitSync
  <1>2. \A r \in HeldRows(s) : dirty[r] # None
    BY SyncIsSome DEF HeldRows, IInv, Links, RowLinks
  <1>3. {r \in RowIds : rows[r] = None /\ rows'[r] # None} = NewRows(s)
    BY <1>1, <1>2 DEF Committed, NewRows, HeldRows
  <1>4. {r \in RowIds : rows[r] # None /\ rows'[r] # rows[r]} = ChangedRows(s)
    BY <1>1, <1>2 DEF Committed, ChangedRows, HeldRows
  <1>5. Cardinality(HeldRows(s)) = Cardinality(Keys) /\ IsFiniteSet(HeldRows(s))
    <2>1. Keys \ left[s] = Keys
      BY <1>1
    <2> QED
      BY <2>1 DEF Ledger, OneRowEach
  <1>6. /\ Cardinality(NewRows(s)) \in Nat
        /\ Cardinality(ChangedRows(s)) \in Nat
        /\ Cardinality(SameRows(s)) \in Nat
        /\ IsFiniteSet(NewRows(s)) /\ IsFiniteSet(ChangedRows(s)) /\ IsFiniteSet(SameRows(s))
    BY <1>5, HeldParts
  <1>7. PICK written : written = NewRows(s) \cup ChangedRows(s)
    OBVIOUS
  <1>8. HeldRows(s) = written \cup SameRows(s) /\ written \cap SameRows(s) = {} /\ IsFiniteSet(written)
    <2>1. IsFiniteSet(NewRows(s) \cup ChangedRows(s))
      BY <1>6, FS_Union
    <2> QED
      BY <1>7, <2>1 DEF NewRows, ChangedRows, SameRows
  <1>9. Cardinality(Keys) = Cardinality(written) + Cardinality(SameRows(s)) /\ Cardinality(written) \in Nat
    <2>1. Cardinality(written \cup SameRows(s))
            = Cardinality(written) + Cardinality(SameRows(s)) - Cardinality(written \cap SameRows(s))
      BY <1>6, <1>8, FS_Union
    <2>2. Cardinality(written \cap SameRows(s)) = 0
      BY <1>8, FS_EmptySet
    <2>3. Cardinality(written) \in Nat
      BY <1>8, FS_CardinalityType
    <2> QED
      BY <1>5, <1>6, <1>8, <2>1, <2>2, <2>3
  <1>10. report[s].unchanged = Cardinality(Keys) - Cardinality(NewRows(s) \cup ChangedRows(s))
    BY <1>6, <1>7, <1>9 DEF Ledger, Counted
  <1>11. report[s] \in Reports /\ Counted(s)
    BY DEF IInv, TypeOK, Reports, Ledger
  <1>12. report[s] = [inserted  |-> Cardinality(NewRows(s)),
                     updated   |-> Cardinality(ChangedRows(s)),
                     unchanged |-> Cardinality(Keys) - Cardinality(NewRows(s) \cup ChangedRows(s))]
    BY <1>10, <1>11 DEF Reports, Counted
  <1> QED
    BY <1>3, <1>4, <1>12

ReportedCommit ==
  \A s \in Syncs : Commits(s) /\ kind[s] \in {"sync", "experiment"} =>
    LET inserted == {r \in RowIds : rows[r] = None /\ rows'[r] # None}
        updated  == {r \in RowIds : rows[r] # None /\ rows'[r] # rows[r]}
    IN report[s] =
         [inserted  |-> Cardinality(inserted),
          updated   |-> Cardinality(updated),
          unchanged |-> Cardinality(Keys) - Cardinality(inserted \cup updated)]

\* The counters a sync returns are the difference its commit makes to the
\* table, whatever other syncs and events write while it runs
\* (sync_connection_metrics, sync_metrics).
THEOREM ReportsAreTrue == Spec => ReportMatchesCommit
  <1>1. IInv /\ Ledgers /\ [Next]_vars => ReportedCommit
    <2> SUFFICES ASSUME IInv, Ledgers, [Next]_vars, NEW s \in Syncs, Commits(s), CountsRows(s)
                 PROVE  LET inserted == {r \in RowIds : rows[r] = None /\ rows'[r] # None}
                            updated  == {r \in RowIds : rows[r] # None /\ rows'[r] # rows[r]}
                        IN report[s] =
                             [inserted  |-> Cardinality(inserted),
                              updated   |-> Cardinality(updated),
                              unchanged |-> Cardinality(Keys) - Cardinality(inserted \cup updated)]
      BY DEF ReportedCommit, CountsRows
    <2>1. CommitSync(s)
      BY SyncMoves DEF Commits, Finish
    <2>2. Ledger(s)
      BY DEF Commits, Ledgers, Open
    <2> QED
      BY <2>1, <2>2, CommitReport
  <1>2. [ReportedCommit]_vars <=>
          [\A s \in Syncs : Commits(s) /\ kind[s] \in {"sync", "experiment"} =>
             LET inserted == {r \in RowIds : rows[r] = None /\ rows'[r] # None}
                 updated  == {r \in RowIds : rows[r] # None /\ rows'[r] # rows[r]}
             IN report[s] =
                  [inserted  |-> Cardinality(inserted),
                   updated   |-> Cardinality(updated),
                   unchanged |-> Cardinality(Keys) - Cardinality(inserted \cup updated)]]_vars
    BY DEF ReportedCommit
  <1>3. Init => Ledgers
    BY InitLedgers
  <1>4. IInv /\ Ledgers /\ [Next]_vars => Ledgers'
    BY LedgersStep
  <1> QED
    BY <1>1, <1>2, <1>3, <1>4, Inductive, PTL DEF ReportMatchesCommit, Spec
=============================================================================
