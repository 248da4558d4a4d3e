--------------------------- MODULE CampaignsProofs ----------------------------
(***************************************************************************)
(* What campaigns guarantee however many rows there are and however        *)
(* requests overlap: the log accounts for the tree (CampaignTree), and a   *)
(* draft that is published is whole (Launches). The tree's invariant adds  *)
(* to the log's the shape of the tree, which is what takes a row away with *)
(* the row above it, and that neither the log nor a request is about a row *)
(* that never was. That of the launches follows each publication through   *)
(* its steps, with how many ads it has offered, and keeps two publications *)
(* from sharing a campaign of the platform.                                *)
(***************************************************************************)
EXTENDS CampaignTree, Launches, TLAPS

-----------------------------------------------------------------------------
(* The tree *)

\* Every row is under a row of the table above, which is there while it is.
TreeShape ==
  \A n \in Nodes : row[n] # None =>
    LET up == row[n].parent
    IN /\ up \in ParentsOf(n)
       /\ up # None => row[up] # None /\ (Live(n) => Live(up))

\* What a request asks for, at its step.
Asks(r) ==
  /\ r.op = "insert" => r.to # None
  /\ r.op # "insert" => r.node # None
  /\ r.op \in {"find", "cascade"} => tables = "campaigns" /\ r.to \in DOMAIN Cascades
  /\ r.op = "audit" => r.what # "none"

\* The log and the requests are about rows that are there, or were.
LogOfRows == \A e \in treeLog : row[e.node] # None

RequestsOfRows ==
  \A h \in TreeUsers : treeReq[h] # None =>
    /\ Asks(treeReq[h])
    /\ treeReq[h].node # None => row[treeReq[h].node] # None
    /\ \A m \in Nodes : treeReq[h].saw[m] # None => row[m] # None

\* The first part of LogAccountsForTree.
Accounts ==
  \A n \in Nodes : row[n] # None =>
    /\ Live(n) <=> \A m \in Line(n) : [node |-> m, what |-> "deleted"] \notin treeLog
    /\ tables = "campaigns" => [node |-> n, what |-> "created"] \in treeLog

TreeIInv == TreeTypeOK /\ TreeShape /\ LogOfRows /\ RequestsOfRows /\ Accounts

\* Rows stay, under the row they were under; NoneLost also that none of them
\* was deleted.
RowsStay ==
  \A n \in Nodes : row[n] # None => row'[n] # None /\ row'[n].parent = row[n].parent

NoneLost == \A n \in Nodes : row[n] # None => Live(n)' = Live(n)

-----------------------------------------------------------------------------
(* Lemmas about lines *)

LEMMA NoneIsNoNode == CampaignTreeAssumption => None \notin Nodes
BY DEF CampaignTreeAssumption

\* Campaigns are under nothing, groups under campaigns, ads under groups.
LEMMA Above ==
  ASSUME CampaignTreeAssumption, TreeTypeOK, TreeShape, NEW n \in Nodes, row[n] # None
  PROVE  /\ row[n] \in TreeRow
         /\ n \in Tops => row[n].parent = None
         /\ n \in Groups => row[n].parent \in Tops
         /\ n \in Ads => row[n].parent \in Groups
         /\ row[n].parent # None => row[n].parent \in Nodes /\ row[row[n].parent] # None
                                      /\ (Live(n) => Live(row[n].parent))
<1>1. row[n].parent \in ParentsOf(n)
      /\ (row[n].parent # None => row[row[n].parent] # None /\ (Live(n) => Live(row[n].parent)))
  BY DEF TreeShape
<1>2. row[n] \in TreeRow
  BY DEF TreeTypeOK
<1>3. Tops \cap Groups = {} /\ (Tops \cup Groups) \cap Ads = {}
  BY DEF CampaignTreeAssumption
<1>4. /\ n \in Tops => row[n].parent = None
      /\ n \in Groups => row[n].parent \in Tops
      /\ n \in Ads => row[n].parent \in Groups
  BY <1>1, <1>3 DEF ParentsOf
<1> QED
  BY <1>1, <1>2, <1>4 DEF Nodes

\* A line is a row and the line of the row above it.
LEMMA LineUp ==
  ASSUME CampaignTreeAssumption, TreeTypeOK, TreeShape, NEW n \in Nodes, row[n] # None
  PROVE  Line(n) = {n} \cup IF row[n].parent = None THEN {} ELSE Line(row[n].parent)
<1> DEFINE up == row[n].parent
<1>1. None \notin Nodes
  BY NoneIsNoNode
<1>2. CASE n \in Tops
  <2>1. up = None
    BY <1>2, Above
  <2> QED
    BY <1>1, <2>1 DEF Line
<1>3. CASE n \in Groups
  <2>1. up \in Tops /\ up \in Nodes /\ row[up] # None
    BY <1>1, <1>3, Above DEF Nodes
  <2>2. row[up].parent = None
    BY <2>1, Above
  <2> QED
    BY <1>1, <2>1, <2>2 DEF Line
<1>4. CASE n \in Ads
  <2>1. up \in Groups /\ up \in Nodes /\ row[up] # None
    BY <1>1, <1>4, Above DEF Nodes
  <2>2. row[up].parent \in Tops /\ row[up].parent \in Nodes /\ row[row[up].parent] # None
    BY <1>1, <2>1, Above DEF Nodes
  <2>3. row[row[up].parent].parent = None
    BY <2>2, Above
  <2> QED
    BY <1>1, <2>1, <2>2, <2>3 DEF Line
<1> QED
  BY <1>2, <1>3, <1>4 DEF Nodes

\* A line is of rows that are or were there.
LEMMA LineOfRows ==
  ASSUME CampaignTreeAssumption, TreeTypeOK, TreeShape, NEW n \in Nodes, row[n] # None
  PROVE  Line(n) \subseteq Nodes /\ n \in Line(n) /\ \A m \in Line(n) : row[m] # None
<1>1. None \notin Nodes
  BY NoneIsNoNode
<1>2. row[n].parent # None => row[n].parent \in Nodes /\ row[row[n].parent] # None
  BY Above
<1>3. \A m \in Nodes : row[m] # None /\ row[m].parent # None =>
        row[m].parent \in Nodes /\ row[row[m].parent] # None
  BY Above
<1> QED
  BY <1>1, <1>2, <1>3 DEF Line

\* It stays as it is while rows stay.
LEMMA LineStays ==
  ASSUME CampaignTreeAssumption, TreeTypeOK, TreeShape, RowsStay, NEW n \in Nodes, row[n] # None
  PROVE  Line(n)' = Line(n)
<1>1. row[n].parent # None => row[n].parent \in Nodes /\ row[row[n].parent] # None
  BY Above
<1> QED
  BY <1>1 DEF RowsStay, Line

-----------------------------------------------------------------------------
(* What a step leaves true *)

\* Rows that stay and are not lost keep the shape, and their place in the log
\* if no deletion is added to it.
LEMMA RowsKept ==
  ASSUME CampaignTreeAssumption, TreeIInv, tables' = tables, RowsStay, NoneLost,
         treeLog \subseteq treeLog', \A e \in treeLog' \ treeLog : e.what # "deleted",
         NEW n \in Nodes, row[n] # None
  PROVE  /\ row'[n].parent \in ParentsOf(n)
         /\ row'[n].parent # None => row'[row'[n].parent] # None /\ (Live(n)' => Live(row[n].parent)')
         /\ Live(n)' <=> \A m \in Line(n)' : [node |-> m, what |-> "deleted"] \notin treeLog'
         /\ tables' = "campaigns" => [node |-> n, what |-> "created"] \in treeLog'
<1>1. row'[n] # None /\ row'[n].parent = row[n].parent /\ Live(n)' = Live(n)
  BY DEF RowsStay, NoneLost
<1>2. row[n].parent # None => /\ row[n].parent \in Nodes /\ row[row[n].parent] # None
                              /\ (Live(n) => Live(row[n].parent))
  BY Above DEF TreeIInv
<1>3. row[n].parent # None => row'[row[n].parent] # None /\ Live(row[n].parent)' = Live(row[n].parent)
  <2> SUFFICES ASSUME NEW up \in Nodes, up = row[n].parent, row[up] # None
               PROVE row'[up] # None /\ Live(up)' = Live(up)
    BY <1>1, <1>2 DEF Live
  <2> QED
    BY DEF RowsStay, NoneLost
<1>4. Line(n)' = Line(n)
  BY LineStays DEF TreeIInv
<1>5. row[n].parent \in ParentsOf(n)
  BY DEF TreeIInv, TreeShape
<1>6. \A m : [node |-> m, what |-> "deleted"] \in treeLog' => [node |-> m, what |-> "deleted"] \in treeLog
  OBVIOUS
<1>7. Live(n) <=> \A m \in Line(n) : [node |-> m, what |-> "deleted"] \notin treeLog
  BY DEF TreeIInv, Accounts
<1>8. Live(n)' <=> \A m \in Line(n)' : [node |-> m, what |-> "deleted"] \notin treeLog'
  BY <1>1, <1>4, <1>6, <1>7
<1>9. tables' = "campaigns" => [node |-> n, what |-> "created"] \in treeLog'
  BY DEF TreeIInv, Accounts
<1> QED
  BY <1>1, <1>2, <1>3, <1>5, <1>8, <1>9

\* What a cascade logs.
LEMMA CascadeWords ==
  ASSUME NEW s \in DOMAIN Cascades
  PROVE  s \in CampaignStatus /\ Cascades[s] \in {"published", "paused", "archived"}
<1>1. DOMAIN Cascades = {"active", "paused", "archived"}
  BY DEF Cascades
<1>2. Cascades["active"] = "published" /\ Cascades["paused"] = "paused" /\ Cascades["archived"] = "archived"
  BY DEF Cascades
<1> QED
  BY <1>1, <1>2 DEF CampaignStatus

\* One request changes, to q.
Becomes(h, q) ==
  /\ treeReq' = [treeReq EXCEPT ![h] = q]
  /\ q \in TreeRequest \cup {None}
  /\ q # None => /\ Asks(q)
                 /\ q.node # None => row'[q.node] # None
                 /\ \A m \in Nodes : q.saw[m] # None => row'[m] # None

LEMMA RequestsKept ==
  ASSUME CampaignTreeAssumption, TreeIInv, tables' = tables, RowsStay,
         NEW h \in TreeUsers, NEW q, Becomes(h, q)
  PROVE  treeReq' \in [TreeUsers -> TreeRequest \cup {None}] /\ RequestsOfRows'
<1>1. treeReq \in [TreeUsers -> TreeRequest \cup {None}]
  BY DEF TreeIInv, TreeTypeOK
<1>2. treeReq' \in [TreeUsers -> TreeRequest \cup {None}]
  BY <1>1 DEF Becomes
<1>3. SUFFICES ASSUME NEW i \in TreeUsers, treeReq'[i] # None
               PROVE  /\ Asks(treeReq[i])'
                      /\ treeReq'[i].node # None => row'[treeReq'[i].node] # None
                      /\ \A m \in Nodes : treeReq'[i].saw[m] # None => row'[m] # None
  BY <1>2 DEF RequestsOfRows
<1>4. CASE i = h
  <2>1. treeReq'[i] = q
    BY <1>1, <1>4 DEF Becomes
  <2> QED
    BY <1>3, <2>1 DEF Becomes, Asks
<1>5. CASE i # h
  <2>1. treeReq'[i] = treeReq[i] /\ treeReq[i] \in TreeRequest
    BY <1>1, <1>3, <1>5 DEF Becomes
  <2>2. /\ Asks(treeReq[i])
        /\ treeReq[i].node # None => row[treeReq[i].node] # None
        /\ \A m \in Nodes : treeReq[i].saw[m] # None => row[m] # None
    BY <1>3, <2>1 DEF TreeIInv, RequestsOfRows
  <2>3. treeReq[i].node # None => treeReq[i].node \in Nodes
    BY <2>1 DEF TreeRequest
  <2>4. Asks(treeReq[i])'
    BY <2>1, <2>2 DEF Asks
  <2> QED
    BY <2>1, <2>2, <2>3, <2>4 DEF RowsStay
<1> QED
  BY <1>4, <1>5

\* No row comes and none is lost, and at most a change of one that is or was
\* there is logged.
LEMMA TreeKept ==
  ASSUME CampaignTreeAssumption, TreeIInv, tables' = tables, RowsStay, NoneLost,
         row' \in [Nodes -> TreeRow \cup {None}], \A n \in Nodes : row'[n] # None => row[n] # None,
         NEW n \in Nodes, row[n] # None,
         NEW what \in {"created", "updated"} \cup {Cascades[s] : s \in DOMAIN Cascades},
         treeLog' = treeLog \/ Logged(n, what),
         NEW h \in TreeUsers, NEW q, Becomes(h, q)
  PROVE  TreeIInv'
<1>1. what # "deleted"
  BY CascadeWords
<1>2. treeLog \subseteq treeLog' /\ treeLog' \subseteq treeLog \cup {[node |-> n, what |-> what]}
  BY DEF Logged
<1>3. \A e \in treeLog' \ treeLog : e.what # "deleted"
  BY <1>1, <1>2
<1>4. treeReq' \in [TreeUsers -> TreeRequest \cup {None}] /\ RequestsOfRows'
  BY RequestsKept
<1>5. [node |-> n, what |-> what] \in
        [node : Nodes, what : {"created", "updated", "deleted"} \cup {Cascades[s] : s \in DOMAIN Cascades}]
  OBVIOUS
<1>6. TreeTypeOK'
  BY <1>2, <1>4, <1>5 DEF TreeIInv, TreeTypeOK
<1>7. LogOfRows'
  <2> SUFFICES ASSUME NEW e \in treeLog' PROVE row'[e.node] # None
    BY DEF LogOfRows
  <2>1. e.node \in Nodes /\ row[e.node] # None
    BY <1>2 DEF TreeIInv, TreeTypeOK, LogOfRows
  <2> QED
    BY <2>1 DEF RowsStay
<1>8. \A m \in Nodes : row'[m] # None =>
        /\ row'[m].parent \in ParentsOf(m)
        /\ row'[m].parent # None => row'[row'[m].parent] # None /\ (Live(m)' => Live(row[m].parent)')
        /\ Live(m)' <=> \A k \in Line(m)' : [node |-> k, what |-> "deleted"] \notin treeLog'
        /\ tables' = "campaigns" => [node |-> m, what |-> "created"] \in treeLog'
  BY <1>2, <1>3, RowsKept
<1>9. TreeShape'
  BY <1>8 DEF TreeShape, ParentsOf
<1>10. Accounts'
  BY <1>8 DEF Accounts
<1> QED
  BY <1>4, <1>6, <1>7, <1>9, <1>10 DEF TreeIInv

\* After a change of row n, or of rows read with it, that loses none.
LEMMA Finished ==
  ASSUME CampaignTreeAssumption, TreeIInv, tables' = tables, RowsStay,
         NEW n \in Nodes, row[n] # None,
         NEW what \in {"created", "updated"} \cup {Cascades[s] : s \in DOMAIN Cascades},
         tables = "builder" => what \in {"created", "updated"},
         NEW h \in TreeUsers, FinishChange(h, n, what)
  PROVE  /\ treeLog' = treeLog \/ Logged(n, what)
         /\ \E q : Becomes(h, q)
<1>1. CASE tables = "campaigns"
  <2>1. Logged(n, what) /\ treeReq' = [treeReq EXCEPT ![h] = None]
    BY <1>1 DEF FinishChange
  <2>2. Becomes(h, None)
    BY <2>1 DEF Becomes
  <2> QED
    BY <2>1, <2>2
<1>2. CASE tables # "campaigns"
  <2> DEFINE q == [op |-> "audit", node |-> n, to |-> None, what |-> what, saw |-> Unread]
  <2>1. treeLog' = treeLog /\ treeReq' = [treeReq EXCEPT ![h] = q]
    BY <1>2 DEF FinishChange
  <2>2. what \in {"created", "updated"} /\ row'[n] # None
    BY <1>2 DEF TreeIInv, TreeTypeOK, RowsStay
  <2>3. q \in TreeRequest
    BY <2>2 DEF TreeRequest, Unread
  <2>4. Asks(q)
    BY <2>2 DEF Asks
  <2>5. n # None
    BY NoneIsNoNode
  <2>6. \A m \in Nodes : q.saw[m] = None
    BY DEF Unread
  <2>7. q.node = n
    OBVIOUS
  <2> HIDE DEF q
  <2>8. Becomes(h, q)
    BY <2>1, <2>2, <2>3, <2>4, <2>6, <2>7 DEF Becomes
  <2> QED
    BY <2>1, <2>8
<1> QED
  BY <1>1, <1>2

-----------------------------------------------------------------------------
(* The steps of the tree *)

LEMMA InitTree ==
  ASSUME CampaignTreeAssumption, TreeInit
  PROVE  TreeIInv
BY DEF TreeInit, TreeIInv, TreeTypeOK, TreeShape, LogOfRows, RequestsOfRows, Accounts

\* Only requests change.
LEMMA ReadKeeps ==
  ASSUME CampaignTreeAssumption, TreeIInv, UNCHANGED <<tables, row, treeLog>>,
         NEW h \in TreeUsers, NEW q, treeReq' = [treeReq EXCEPT ![h] = q],
         q \in TreeRequest \cup {None},
         q # None => /\ Asks(q)
                     /\ q.node # None => row[q.node] # None
                     /\ \A m \in Nodes : q.saw[m] # None => row[m] # None
  PROVE  TreeIInv'
<1>1. RowsStay
  BY DEF RowsStay
<1>2. Becomes(h, q)
  BY DEF Becomes
<1>3. treeReq' \in [TreeUsers -> TreeRequest \cup {None}] /\ RequestsOfRows'
  BY <1>1, <1>2, RequestsKept
<1>4. TreeTypeOK'
  BY <1>3 DEF TreeIInv, TreeTypeOK
<1>5. TreeShape'
  BY DEF TreeIInv, TreeShape, ParentsOf, Live
<1>6. LogOfRows'
  BY DEF TreeIInv, LogOfRows
<1>7. Accounts'
  BY DEF TreeIInv, Accounts, Live, Line
<1> QED
  BY <1>3, <1>4, <1>5, <1>6, <1>7 DEF TreeIInv

LEMMA FindSteps ==
  ASSUME CampaignTreeAssumption, TreeIInv, NEW h \in TreeUsers,
         NEW op \in {"insert", "update", "find", "delete"},
         NEW n \in Nodes \cup {None}, NEW to \in CampaignStatus \cup {None}, Find(h, op, n, to),
         op = "insert" => to # None, op # "insert" => n # None,
         op = "find" => tables = "campaigns" /\ to \in DOMAIN Cascades
  PROVE  TreeIInv'
<1> DEFINE saw == [m \in Nodes |-> IF m = n /\ op \in {"update", "find"} THEN row[m].status ELSE None]
           q   == [op |-> op, node |-> n, to |-> to, what |-> "none", saw |-> saw]
<1>1. treeReq' = [treeReq EXCEPT ![h] = q] /\ UNCHANGED <<tables, row, treeLog>> /\ (n # None => Live(n))
  BY DEF Find
<1>2. \A m \in Nodes : Live(m) => row[m].status \in CampaignStatus
  BY DEF TreeIInv, TreeTypeOK, TreeRow, Live
<1>3. None \notin Nodes
  BY NoneIsNoNode
<1>4. saw \in [Nodes -> CampaignStatus \cup {None}]
  BY <1>1, <1>2, <1>3
<1>5. \A m \in Nodes : saw[m] # None => row[m] # None
  BY <1>1, <1>3 DEF Live
<1> HIDE DEF saw
<1>6. q \in TreeRequest
  BY <1>4 DEF TreeRequest
<1>7. Asks(q)
  BY DEF Asks
<1>8. /\ q.node # None => row[q.node] # None
      /\ \A m \in Nodes : q.saw[m] # None => row[m] # None
  BY <1>1, <1>5 DEF Live
<1> HIDE DEF q
<1> QED
  BY <1>1, <1>6, <1>7, <1>8, ReadKeeps

LEMMA RouterSteps ==
  ASSUME CampaignTreeAssumption, TreeIInv, NEW h \in TreeUsers,
         \/ CampaignRequests(h) \/ AdGroupRequests(h) \/ AdRequests(h)
         \/ BuilderCampaigns(h) \/ BuilderAdGroups(h) \/ BuilderAds(h)
  PROVE  TreeIInv'
<1>1. PICK ups \in SUBSET (Nodes \cup {None}), ns \in SUBSET Nodes : Requests(h, ups, ns)
  <2>1. {None} \subseteq Nodes \cup {None} /\ Tops \subseteq Nodes /\ Groups \subseteq Nodes /\ Ads \subseteq Nodes
    BY DEF Nodes
  <2> QED
    BY <2>1 DEF CampaignRequests, AdGroupRequests, AdRequests, BuilderCampaigns, BuilderAdGroups, BuilderAds
<1>2. None \notin Nodes /\ None \notin CampaignStatus /\ Statuses \subseteq CampaignStatus
  BY NoneIsNoNode DEF CampaignTreeAssumption
<1>3. CASE \E n \in ups, s \in Statuses : Find(h, "insert", n, s)
  BY <1>2, <1>3, FindSteps
<1>4. CASE \E n \in ns, s \in Statuses \cup {None} : Find(h, "update", n, s)
  BY <1>2, <1>4, FindSteps
<1>5. CASE \E n \in ns : Find(h, "delete", n, None)
  BY <1>2, <1>5, FindSteps
<1> QED
  BY <1>1, <1>3, <1>4, <1>5 DEF Requests

LEMMA CascadeRequestSteps ==
  ASSUME CampaignTreeAssumption, TreeIInv, NEW h \in TreeUsers, CascadeRequests(h)
  PROVE  TreeIInv'
<1>1. PICK t \in Tops, s \in Statuses \cap DOMAIN Cascades : Find(h, "find", t, s) /\ tables = "campaigns"
  BY DEF CascadeRequests
<1>2. t \in Nodes /\ t # None
  BY NoneIsNoNode DEF Nodes
<1>3. s \in CampaignStatus
  BY <1>1, CascadeWords
<1> QED
  BY <1>1, <1>2, <1>3, FindSteps

\* What the invariant says of a request under way.
LEMMA RequestUnderWay ==
  ASSUME CampaignTreeAssumption, TreeIInv, NEW h \in TreeUsers, treeReq[h] # None
  PROVE  /\ treeReq[h] \in TreeRequest /\ Asks(treeReq[h])
         /\ treeReq[h].op # "insert" => treeReq[h].node \in Nodes
         /\ treeReq[h].node # None => treeReq[h].node \in Nodes /\ row[treeReq[h].node] # None
         /\ \A m \in Nodes : treeReq[h].saw[m] # None => row[m] # None
<1>1. treeReq[h] \in TreeRequest
  BY DEF TreeIInv, TreeTypeOK
<1>2. treeReq[h].node \in Nodes \cup {None}
  BY <1>1 DEF TreeRequest
<1> QED
  BY <1>1, <1>2 DEF TreeIInv, RequestsOfRows, Asks

LEMMA GatherSteps ==
  ASSUME CampaignTreeAssumption, TreeIInv, NEW h \in TreeUsers, Gather(h)
  PROVE  TreeIInv'
<1> DEFINE r   == treeReq[h]
           saw == [m \in Nodes |-> IF m = r.node THEN r.saw[m]
                                   ELSE IF m \in Under(r.node) /\ Live(m) THEN row[m].status ELSE None]
           q   == [r EXCEPT !.op = "cascade", !.saw = saw]
<1>1. r # None /\ r.op = "find" /\ UNCHANGED <<tables, row, treeLog>>
  BY DEF Gather
<1>2. /\ r \in TreeRequest /\ Asks(r) /\ r.node \in Nodes /\ row[r.node] # None
      /\ \A m \in Nodes : r.saw[m] # None => row[m] # None
  BY <1>1, RequestUnderWay, NoneIsNoNode
<1>3. treeReq' = [treeReq EXCEPT ![h].op = "cascade", ![h].saw = saw]
  BY DEF Gather
<1>4. treeReq' = [treeReq EXCEPT ![h] = q]
  BY <1>3
<1>5. \A m \in Nodes : Live(m) => row[m].status \in CampaignStatus
  BY DEF TreeIInv, TreeTypeOK, TreeRow, Live
<1>6. r.saw \in [Nodes -> CampaignStatus \cup {None}]
  BY <1>2 DEF TreeRequest
<1>7. saw \in [Nodes -> CampaignStatus \cup {None}]
  BY <1>5, <1>6
<1>8. \A m \in Nodes : saw[m] # None => row[m] # None
  BY <1>2 DEF Live
<1> HIDE DEF saw
<1>9. q \in TreeRequest /\ q.op = "cascade" /\ q.node = r.node /\ q.to = r.to /\ q.saw = saw
  BY <1>2, <1>7 DEF TreeRequest
<1> HIDE DEF q
<1>10. Asks(q)
  BY <1>1, <1>2, <1>9 DEF Asks
<1>11. /\ q.node # None => row[q.node] # None
       /\ \A m \in Nodes : q.saw[m] # None => row[m] # None
  BY <1>2, <1>8, <1>9
<1> QED
  BY <1>1, <1>4, <1>9, <1>10, <1>11, ReadKeeps

LEMMA FailSteps ==
  ASSUME CampaignTreeAssumption, TreeIInv, NEW h \in TreeUsers, FailChange(h), UNCHANGED tables
  PROVE  TreeIInv'
BY ReadKeeps DEF FailChange

\* What is written is there, and stays.
LEMMA WriteSteps ==
  ASSUME CampaignTreeAssumption, TreeIInv, NEW h \in TreeUsers,
         treeReq[h] # None, treeReq[h].op # "insert",
         NEW what \in {"created", "updated"} \cup {Cascades[s] : s \in DOMAIN Cascades},
         tables = "builder" => what \in {"created", "updated"}, Write(h, what)
  PROVE  TreeIInv'
<1> DEFINE r       == treeReq[h]
           written == {m \in Nodes : r.saw[m] \notin {None, r.to}}
<1>1. CASE \E m \in written : ~Live(m)
  BY <1>1, FailSteps DEF Write
<1>2. CASE ~\E m \in written : ~Live(m)
  <2>1. r \in TreeRequest /\ r.node \in Nodes /\ row[r.node] # None
    BY RequestUnderWay, NoneIsNoNode
  <2>2. /\ row' = [m \in Nodes |->
              IF m \in written /\ r.to # None THEN [row[m] EXCEPT !.status = r.to] ELSE row[m]]
        /\ FinishChange(h, r.node, what) /\ UNCHANGED tables
    BY <1>2 DEF Write
  <2>3. r.to # None => r.to \in CampaignStatus /\ r.to # "gone"
    BY <2>1 DEF TreeRequest, CampaignStatus
  <2>4. ASSUME NEW m \in Nodes
        PROVE  \/ row'[m] = row[m]
               \/ /\ row[m] # None /\ row'[m] # None /\ row'[m] \in TreeRow
                  /\ row'[m].parent = row[m].parent
                  /\ Live(m) /\ row'[m].status # "gone"
    <3>1. CASE m \in written /\ r.to # None
      <4>1. Live(m) /\ row[m] \in TreeRow
        BY <1>2, <3>1 DEF TreeIInv, TreeTypeOK, Live
      <4>2. row'[m] = [row[m] EXCEPT !.status = r.to]
        BY <2>2, <3>1
      <4>3. row'[m] \in TreeRow /\ row'[m].parent = row[m].parent /\ row'[m].status = r.to
        BY <2>3, <3>1, <4>1, <4>2 DEF TreeRow
      <4> QED
        BY <2>3, <3>1, <4>1, <4>3 DEF CampaignTreeAssumption, Live
    <3>2. CASE ~(m \in written /\ r.to # None)
      BY <2>2, <3>2
    <3> QED
      BY <3>1, <3>2
  <2> HIDE DEF written
  <2>5. RowsStay /\ NoneLost
    BY <2>4 DEF RowsStay, NoneLost, Live
  <2>6. row' \in [Nodes -> TreeRow \cup {None}]
    <3>1. row \in [Nodes -> TreeRow \cup {None}]
      BY DEF TreeIInv, TreeTypeOK
    <3>2. \A m \in Nodes : row'[m] \in TreeRow \cup {None}
      BY <2>4, <3>1
    <3>3. row' = [m \in Nodes |-> row'[m]]
      BY <2>2
    <3> QED
      BY <3>2, <3>3
  <2>7. \A m \in Nodes : row'[m] # None => row[m] # None
    BY <2>4
  <2>8. (treeLog' = treeLog \/ Logged(r.node, what)) /\ \E q : Becomes(h, q)
    BY <2>1, <2>2, <2>5, Finished
  <2> QED
    BY <2>1, <2>2, <2>5, <2>6, <2>7, <2>8, TreeKept
<1> QED
  BY <1>1, <1>2

LEMMA UpdateSteps ==
  ASSUME CampaignTreeAssumption, TreeIInv, NEW h \in TreeUsers, Update(h) \/ Cascade(h)
  PROVE  TreeIInv'
<1>1. CASE Update(h)
  BY <1>1, WriteSteps DEF Update
<1>2. CASE Cascade(h)
  <2>1. treeReq[h] # None /\ treeReq[h].op = "cascade" /\ Write(h, Cascades[treeReq[h].to])
    BY <1>2 DEF Cascade
  <2>2. tables = "campaigns" /\ treeReq[h].to \in DOMAIN Cascades
    BY <2>1, RequestUnderWay DEF Asks
  <2> QED
    BY <2>1, <2>2, WriteSteps
<1> QED
  BY <1>1, <1>2

\* A log entry more, of a row that is there.
LEMMA AuditSteps ==
  ASSUME CampaignTreeAssumption, TreeIInv, NEW h \in TreeUsers, Audit(h)
  PROVE  TreeIInv'
<1>1. CASE Live(treeReq[h].node)
  <2>1. /\ treeReq[h] \in TreeRequest /\ Asks(treeReq[h])
        /\ treeReq[h].node \in Nodes /\ row[treeReq[h].node] # None /\ treeReq[h].op = "audit"
    BY RequestUnderWay, NoneIsNoNode DEF Audit
  <2>2. treeReq[h].what \in {"created", "updated"}
    BY <2>1 DEF TreeRequest, Asks
  <2>3. RowsStay /\ NoneLost /\ UNCHANGED <<tables, row>>
    BY DEF Audit, RowsStay, NoneLost, Live
  <2>4. Logged(treeReq[h].node, treeReq[h].what) /\ Becomes(h, None)
    BY <1>1 DEF Audit, Becomes
  <2>5. row' \in [Nodes -> TreeRow \cup {None}]
    BY <2>3 DEF TreeIInv, TreeTypeOK
  <2> QED
    BY <2>1, <2>2, <2>3, <2>4, <2>5, TreeKept
<1>2. CASE ~Live(treeReq[h].node)
  BY <1>2, ReadKeeps DEF Audit
<1> QED
  BY <1>1, <1>2

\* A new row has nothing in the log but what its commit adds, and the row above
\* it is there.
LEMMA InsertSteps ==
  ASSUME CampaignTreeAssumption, TreeIInv, NEW h \in TreeUsers, InsertRow(h)
  PROVE  TreeIInv'
<1> DEFINE up == treeReq[h].node
           to == treeReq[h].to
<1>1. treeReq[h] # None /\ treeReq[h].op = "insert" /\ UNCHANGED tables
  BY DEF InsertRow
<1>2. CASE up # None /\ ~Live(up)
  BY <1>1, <1>2, FailSteps DEF InsertRow
<1>3. CASE up # None => Live(up)
  <2>1. PICK n \in Nodes : /\ up \in ParentsOf(n) /\ row[n] = None
                           /\ row' = [row EXCEPT ![n] = [parent |-> up, status |-> to]]
                           /\ FinishChange(h, n, "created")
    BY <1>3 DEF InsertRow
  <2>2. to \in CampaignStatus /\ to # "gone" /\ up \in Nodes \cup {None}
    BY <1>1, RequestUnderWay DEF Asks, TreeRequest, CampaignStatus
  <2>3. [parent |-> up, status |-> to] \in TreeRow
    BY <2>2 DEF TreeRow
  <2> DEFINE new == [parent |-> up, status |-> to]
  <2>4. new \in TreeRow /\ new # None /\ new.parent = up /\ new.status = to
    BY <2>3 DEF CampaignTreeAssumption
  <2> HIDE DEF new
  <2>5. /\ row' \in [Nodes -> TreeRow \cup {None}] /\ row'[n] = new
        /\ \A m \in Nodes \ {n} : row'[m] = row[m]
    BY <2>1, <2>4 DEF TreeIInv, TreeTypeOK, new
  <2>6. RowsStay /\ NoneLost
    BY <2>1, <2>5 DEF RowsStay, NoneLost, Live
  <2>7. /\ up # None => up \in Nodes /\ up # n /\ row[up] # None /\ row'[up] = row[up]
        /\ Live(n)'
    BY <1>3, <2>1, <2>2, <2>4, <2>5 DEF Live
  <2>8. /\ Logged(n, "created") \/ treeLog' = treeLog
        /\ tables = "campaigns" => Logged(n, "created")
        /\ \E q : Becomes(h, q)
    <3>1. CASE tables = "campaigns"
      <4>1. Logged(n, "created") /\ treeReq' = [treeReq EXCEPT ![h] = None]
        BY <2>1, <3>1 DEF FinishChange
      <4>2. Becomes(h, None)
        BY <4>1 DEF Becomes
      <4> QED
        BY <4>1, <4>2
    <3>2. CASE tables # "campaigns"
      <4> DEFINE q == [op |-> "audit", node |-> n, to |-> None, what |-> "created", saw |-> Unread]
      <4>1. treeLog' = treeLog /\ treeReq' = [treeReq EXCEPT ![h] = q]
        BY <2>1, <3>2 DEF FinishChange
      <4>2. q \in TreeRequest /\ Asks(q) /\ q.node = n /\ \A m \in Nodes : q.saw[m] = None
        BY NoneIsNoNode DEF TreeRequest, Unread, Asks
      <4>3. row'[n] # None
        BY <2>4, <2>5
      <4> HIDE DEF q
      <4>4. Becomes(h, q)
        BY <4>1, <4>2, <4>3 DEF Becomes
      <4> QED
        BY <3>2, <4>1, <4>4
    <3> QED
      BY <3>1, <3>2
  <2>9. /\ treeLog \subseteq treeLog' /\ treeLog' \subseteq treeLog \cup {[node |-> n, what |-> "created"]}
        /\ \A e \in treeLog' \ treeLog : e.what # "deleted"
    BY <2>8 DEF Logged
  <2>10. treeReq' \in [TreeUsers -> TreeRequest \cup {None}] /\ RequestsOfRows'
    BY <1>1, <2>6, <2>8, RequestsKept
  <2>11. [node |-> n, what |-> "created"] \in
           [node : Nodes, what : {"created", "updated", "deleted"} \cup {Cascades[s] : s \in DOMAIN Cascades}]
    OBVIOUS
  <2>12. TreeTypeOK'
    BY <1>1, <2>5, <2>9, <2>10, <2>11 DEF TreeIInv, TreeTypeOK
  <2>13. LogOfRows'
    <3> SUFFICES ASSUME NEW e \in treeLog' PROVE row'[e.node] # None
      BY DEF LogOfRows
    <3>1. e = [node |-> n, what |-> "created"] \/ (e.node \in Nodes /\ row[e.node] # None)
      BY <2>9 DEF TreeIInv, TreeTypeOK, LogOfRows
    <3> QED
      BY <2>4, <2>5, <3>1 DEF RowsStay
  <2>14. ASSUME NEW m \in Nodes, row'[m] # None, m # n
         PROVE  /\ row'[m].parent \in ParentsOf(m)
                /\ row'[m].parent # None => row'[row'[m].parent] # None /\ (Live(m)' => Live(row[m].parent)')
                /\ Live(m)' <=> \A k \in Line(m)' : [node |-> k, what |-> "deleted"] \notin treeLog'
                /\ tables' = "campaigns" => [node |-> m, what |-> "created"] \in treeLog'
    BY <1>1, <2>5, <2>6, <2>9, <2>14, RowsKept
  <2>15. TreeShape'
    <3> SUFFICES ASSUME NEW m \in Nodes, row'[m] # None
                 PROVE  /\ row'[m].parent \in ParentsOf(m)
                        /\ row'[m].parent # None => /\ row'[row'[m].parent] # None
                                                    /\ (Live(m) => Live(row[m].parent))'
      BY DEF TreeShape, ParentsOf
    <3>1. CASE m = n
      <4>1. up # None => row'[up] # None /\ row'[up].status # "gone"
        BY <1>3, <2>7 DEF Live
      <4>2. row'[n].parent = up
        BY <2>4, <2>5
      <4> QED
        BY <2>1, <3>1, <4>1, <4>2 DEF Live
    <3>2. CASE m # n
      BY <2>6, <2>14, <3>2
    <3> QED
      BY <3>1, <3>2
  <2>16. \A k \in Line(n)' : [node |-> k, what |-> "deleted"] \notin treeLog
    <3>1. [node |-> n, what |-> "deleted"] \notin treeLog
      BY <2>1 DEF TreeIInv, LogOfRows
    <3>2. ASSUME up # None
          PROVE  \A k \in Line(up) : [node |-> k, what |-> "deleted"] \notin treeLog
      BY <1>3, <2>7, <3>2 DEF TreeIInv, Accounts
    <3>3. Line(n)' \subseteq {n} \cup IF up = None THEN {} ELSE Line(up)
      BY <2>4, <2>5, <2>7 DEF Line
    <3> QED
      BY <3>1, <3>2, <3>3
  <2>17. Accounts'
    <3> SUFFICES ASSUME NEW m \in Nodes, row'[m] # None
                 PROVE  /\ Live(m)' <=> \A k \in Line(m)' : [node |-> k, what |-> "deleted"] \notin treeLog'
                        /\ tables' = "campaigns" => [node |-> m, what |-> "created"] \in treeLog'
      BY DEF Accounts
    <3>1. CASE m = n
      BY <1>1, <2>7, <2>8, <2>9, <2>16, <3>1 DEF Logged
    <3>2. CASE m # n
      BY <2>14, <3>2
    <3> QED
      BY <3>1, <3>2
  <2> QED
    BY <2>10, <2>12, <2>13, <2>15, <2>17 DEF TreeIInv
<1> QED
  BY <1>2, <1>3

\* What goes is what has the row in its line, and what is under it does too.
LEMMA DeleteSteps ==
  ASSUME CampaignTreeAssumption, TreeIInv, NEW h \in TreeUsers, Delete(h)
  PROVE  TreeIInv'
<1> DEFINE x == treeReq[h].node
<1>1. /\ treeReq[h] # None /\ treeReq[h].op = "delete" /\ UNCHANGED tables
      /\ row' = [m \in Nodes |-> IF m \in Under(x) THEN [row[m] EXCEPT !.status = "gone"] ELSE row[m]]
      /\ Logged(x, "deleted") /\ treeReq' = [treeReq EXCEPT ![h] = None]
  BY DEF Delete
<1>2. x \in Nodes /\ row[x] # None
  BY <1>1, RequestUnderWay, NoneIsNoNode
<1> HIDE DEF x
<1>3. ASSUME NEW m \in Nodes
      PROVE  /\ row[m] = None => row'[m] = None
             /\ row[m] # None => /\ row'[m] # None /\ row'[m] \in TreeRow
                                 /\ row'[m].parent = row[m].parent
                                 /\ Live(m)' <=> Live(m) /\ x \notin Line(m)
  <2>1. CASE m \in Under(x)
    <3>1. row[m] # None /\ x \in Line(m) /\ row[m] \in TreeRow
      BY <2>1 DEF Under, TreeIInv, TreeTypeOK
    <3>2. row'[m] = [row[m] EXCEPT !.status = "gone"]
      BY <1>1, <2>1
    <3>3. row'[m] \in TreeRow /\ row'[m].parent = row[m].parent /\ row'[m].status = "gone"
      BY <3>1, <3>2 DEF TreeRow
    <3> QED
      BY <3>1, <3>3 DEF Live, CampaignTreeAssumption
  <2>2. CASE m \notin Under(x)
    <3>1. row'[m] = row[m] /\ (row[m] # None => x \notin Line(m) /\ row[m] \in TreeRow)
      BY <1>1, <2>2 DEF Under, TreeIInv, TreeTypeOK
    <3> QED
      BY <3>1 DEF Live
  <2> QED
    BY <2>1, <2>2
<1>4. RowsStay
  BY <1>3 DEF RowsStay
<1>5. row' \in [Nodes -> TreeRow \cup {None}]
  <2>1. row' = [m \in Nodes |-> row'[m]]
    BY <1>1
  <2> QED
    BY <1>3, <2>1
<1>6. Becomes(h, None)
  BY <1>1 DEF Becomes
<1>7. treeReq' \in [TreeUsers -> TreeRequest \cup {None}] /\ RequestsOfRows'
  BY <1>1, <1>4, <1>6, RequestsKept
<1>8. [node |-> x, what |-> "deleted"] \in
        [node : Nodes, what : {"created", "updated", "deleted"} \cup {Cascades[s] : s \in DOMAIN Cascades}]
  BY <1>2
<1>9. TreeTypeOK'
  BY <1>1, <1>5, <1>7, <1>8 DEF TreeIInv, TreeTypeOK, Logged
<1>10. LogOfRows'
  <2> SUFFICES ASSUME NEW e \in treeLog' PROVE row'[e.node] # None
    BY DEF LogOfRows
  <2>1. e.node \in Nodes /\ row[e.node] # None
    BY <1>1, <1>2 DEF TreeIInv, TreeTypeOK, LogOfRows, Logged
  <2> QED
    BY <1>4, <2>1 DEF RowsStay
<1>11. TreeShape'
  <2> SUFFICES ASSUME NEW m \in Nodes, row'[m] # None
               PROVE  /\ row'[m].parent \in ParentsOf(m)
                      /\ row'[m].parent # None => /\ row'[row'[m].parent] # None
                                                  /\ (Live(m) => Live(row[m].parent))'
    BY DEF TreeShape, ParentsOf
  <2>1. row[m] # None /\ row'[m].parent = row[m].parent /\ (Live(m)' <=> Live(m) /\ x \notin Line(m))
    BY <1>3
  <2>2. row[m].parent \in ParentsOf(m)
    BY <2>1 DEF TreeIInv, TreeShape
  <2>3. ASSUME row[m].parent # None
        PROVE  row'[row[m].parent] # None /\ (Live(m)' => Live(row[m].parent)')
    <3>1. PICK up \in Nodes : up = row[m].parent /\ row[up] # None /\ (Live(m) => Live(up))
      BY <2>1, <2>3, Above DEF TreeIInv
    <3>2. Line(up) \subseteq Line(m)
      BY <2>1, <2>3, <3>1, LineUp DEF TreeIInv
    <3>3. row'[up] # None /\ (Live(m)' => Live(up)')
      BY <1>3, <2>1, <3>1, <3>2
    <3> QED
      BY <2>1, <3>1, <3>3 DEF Live
  <2> QED
    BY <2>1, <2>2, <2>3
<1>12. Accounts'
  <2> SUFFICES ASSUME NEW m \in Nodes, row'[m] # None
               PROVE  /\ Live(m)' <=> \A k \in Line(m)' : [node |-> k, what |-> "deleted"] \notin treeLog'
                      /\ tables' = "campaigns" => [node |-> m, what |-> "created"] \in treeLog'
    BY DEF Accounts
  <2>1. row[m] # None /\ (Live(m)' <=> Live(m) /\ x \notin Line(m))
    BY <1>3
  <2>2. Line(m)' = Line(m)
    BY <1>4, <2>1, LineStays DEF TreeIInv
  <2>3. /\ Live(m) <=> \A k \in Line(m) : [node |-> k, what |-> "deleted"] \notin treeLog
        /\ tables = "campaigns" => [node |-> m, what |-> "created"] \in treeLog
    BY <2>1 DEF TreeIInv, Accounts
  <2>4. \A k : [node |-> k, what |-> "deleted"] \in treeLog' <=> k = x \/ [node |-> k, what |-> "deleted"] \in treeLog
    <3>1. \A k : [node |-> k, what |-> "deleted"] = [node |-> x, what |-> "deleted"] <=> k = x
      OBVIOUS
    <3> QED
      BY <1>1, <3>1 DEF Logged
  <2>5. tables' = "campaigns" => [node |-> m, what |-> "created"] \in treeLog'
    BY <1>1, <2>3 DEF Logged
  <2> QED
    BY <2>1, <2>2, <2>3, <2>4, <2>5
<1> QED
  BY <1>7, <1>9, <1>10, <1>11, <1>12 DEF TreeIInv

LEMMA StepTree ==
  ASSUME CampaignTreeAssumption, TreeIInv, [TreeStep \/ TreeFault]_treeVars
  PROVE  TreeIInv'
<1>1. CASE TreeStep
  <2> SUFFICES ASSUME NEW h \in TreeUsers,
                      \/ CampaignRequests(h) \/ CascadeRequests(h) \/ AdGroupRequests(h) \/ AdRequests(h)
                      \/ BuilderCampaigns(h) \/ BuilderAdGroups(h) \/ BuilderAds(h)
                      \/ InsertRow(h) \/ Update(h) \/ Gather(h) \/ Cascade(h) \/ Delete(h) \/ Audit(h)
               PROVE  TreeIInv'
    BY <1>1 DEF TreeStep
  <2> QED
    BY RouterSteps, CascadeRequestSteps, InsertSteps, UpdateSteps, GatherSteps, DeleteSteps, AuditSteps
<1>2. CASE TreeFault
  BY <1>2, FailSteps DEF TreeFault, Abandon
<1>3. CASE UNCHANGED treeVars
  BY <1>3 DEF treeVars, TreeIInv, TreeTypeOK, TreeShape, LogOfRows, RequestsOfRows, Asks, Accounts, Live,
              Line, ParentsOf
<1> QED
  BY <1>1, <1>2, <1>3

-----------------------------------------------------------------------------
(* What the trees show *)

\* What is there is in the tree of a campaign that is listed, and the summary
\* of a campaign counts the ads of its groups.
LEMMA TreesShow ==
  ASSUME CampaignTreeAssumption, TreeIInv
  PROVE  LogAccountsForTree
<1>1. \A n \in Nodes : row[n] # None =>
        /\ Live(n) <=> \A m \in Line(n) : [node |-> m, what |-> "deleted"] \notin treeLog
        /\ tables = "campaigns" => [node |-> n, what |-> "created"] \in treeLog
  BY DEF TreeIInv, Accounts
<1>2. \A g \in Groups : Live(g) => row[g].parent \in Tops /\ Live(row[g].parent)
  <2> SUFFICES ASSUME NEW g \in Groups, Live(g) PROVE row[g].parent \in Tops /\ Live(row[g].parent)
    OBVIOUS
  <2>1. g \in Nodes /\ row[g] # None
    BY DEF Nodes, Live
  <2>2. row[g].parent \in Tops /\ row[g].parent # None
    BY <2>1, Above, NoneIsNoNode DEF TreeIInv, Nodes
  <2> QED
    BY <2>1, <2>2, Above DEF TreeIInv
<1>3. \A k \in Ads : Live(k) => row[k].parent \in Groups /\ Live(row[k].parent)
  <2> SUFFICES ASSUME NEW k \in Ads, Live(k) PROVE row[k].parent \in Groups /\ Live(row[k].parent)
    OBVIOUS
  <2>1. k \in Nodes /\ row[k] # None
    BY DEF Nodes, Live
  <2>2. row[k].parent \in Groups /\ row[k].parent # None
    BY <2>1, Above, NoneIsNoNode DEF TreeIInv, Nodes
  <2> QED
    BY <2>1, <2>2, Above DEF TreeIInv
<1>4. \A t : DOMAIN BuildTree(t) = ListAdGroups(t)
             /\ \A g \in ListAdGroups(t) : BuildTree(t)[g] = ListAds({g})
  BY DEF BuildTree
<1>5. \A t : t \in ListCampaigns(None) <=> t \in Tops /\ Live(t)
  BY DEF ListCampaigns
<1>6. ASSUME NEW n \in Groups \cup Ads, Live(n)
      PROVE  \E t \in ListCampaigns(None) :
               n \in DOMAIN BuildTree(t) \/ \E g \in DOMAIN BuildTree(t) : n \in BuildTree(t)[g]
  <2>1. CASE n \in Groups
    <3>1. n \in ListAdGroups(row[n].parent) /\ row[n].parent \in ListCampaigns(None)
      BY <1>2, <1>5, <1>6, <2>1 DEF ListAdGroups
    <3> QED
      BY <1>4, <3>1
  <2>2. CASE n \in Ads
    <3>1. PICK g \in Groups : g = row[n].parent /\ Live(g)
      BY <1>3, <1>6, <2>2
    <3>2. g \in ListAdGroups(row[g].parent) /\ row[g].parent \in ListCampaigns(None)
      BY <1>2, <1>5, <3>1 DEF ListAdGroups
    <3>3. n \in ListAds({g})
      BY <1>6, <2>2, <3>1 DEF ListAds
    <3> QED
      BY <1>4, <3>2, <3>3
  <2> QED
    BY <2>1, <2>2
<1>7. ASSUME NEW t \in Tops
      PROVE  {k \in Ads : Live(k) /\ row[row[k].parent].parent = t}
               = UNION {BuildTree(t)[g] : g \in DOMAIN BuildTree(t)}
  <2>1. ASSUME NEW k \in Ads, Live(k), row[row[k].parent].parent = t
        PROVE  \E g \in DOMAIN BuildTree(t) : k \in BuildTree(t)[g]
    <3>1. PICK g \in Groups : g = row[k].parent /\ Live(g)
      BY <1>3, <2>1
    <3>2. g \in ListAdGroups(t) /\ k \in ListAds({g})
      BY <2>1, <3>1 DEF ListAdGroups, ListAds
    <3> QED
      BY <1>4, <3>2
  <2>2. ASSUME NEW g \in DOMAIN BuildTree(t), NEW k \in BuildTree(t)[g]
        PROVE  k \in Ads /\ Live(k) /\ row[row[k].parent].parent = t
    <3>1. g \in ListAdGroups(t) /\ k \in ListAds({g})
      BY <1>4
    <3> QED
      BY <3>1 DEF ListAdGroups, ListAds
  <2> HIDE DEF BuildTree
  <2> QED
    BY <2>1, <2>2
<1>8. \A t \in ListCampaigns(None) :
        AdsCount(t) = Cardinality(UNION {BuildTree(t)[g] : g \in DOMAIN BuildTree(t)})
  BY <1>5, <1>7 DEF AdsCount
<1> QED
  BY <1>1, <1>6, <1>8 DEF LogAccountsForTree

\* The strengthened invariant of the trees holds in every reachable state.
THEOREM TreeInductive ==
  TreeSpec => []TreeIInv
<1> USE CampaignTreeAssumption
<1>1. TreeInit => TreeIInv
  BY InitTree
<1>2. TreeIInv /\ [TreeStep \/ TreeFault]_treeVars => TreeIInv'
  BY StepTree
<1> QED
  BY <1>1, <1>2, PTL DEF TreeSpec

\* The rows, the log and the requests under way have their types.
THEOREM TreeTypeCorrect ==
  TreeSpec => []TreeTypeOK
<1>1. TreeIInv => TreeTypeOK
  BY DEF TreeIInv
<1> QED
  BY <1>1, TreeInductive, PTL

\* Whatever requests overlap or are lost, a row is there exactly while neither
\* its deletion nor that of a row above it is in the log, every row of the
\* campaigns' tables was logged when it was created, and the trees and the
\* summaries hold all that is there (_log_event, delete_campaign, get_builder_tree).
THEOREM LogAccounts ==
  TreeSpec => []LogAccountsForTree
<1>1. TreeIInv => LogAccountsForTree
  BY CampaignTreeAssumption, TreesShow
<1> QED
  BY <1>1, TreeInductive, PTL

-----------------------------------------------------------------------------
(* Launches: the states between the steps *)

\* A run with a task is not finished.
TasksOpen ==
  \A r \in MagicRuns : task[r] # "none" =>
    magic[r] # None /\ magic[r].status \in {"pending", "running"}

\* A launch holds half a draft only if one of its ads is malformed: they are the
\* same for every platform, so it commits none.
HeldByMalformed ==
  \A l \in LaunchIds : launch[l] # None =>
    (launch[l].held # {} => launch[l].sound # launch[l].ads)

\* How many ads a publication has offered so far, of those it will.
Progress(p) ==
  /\ draft[p.draft] # None
  /\ p.step = "campaign" => p.ext = None
  /\ p.step # "campaign" => p.ext # None /\ offered[p.ext] # None
  /\ p.step = "group" => offered[p.ext] = 0
  /\ p.step = "ads" => offered[p.ext] + p.left = AdsToSend(p.draft)
  /\ p.step = "sent" => offered[p.ext] = AdsToSend(p.draft)

\* A campaign at the platform is of one publication until it is of a draft.
OwnCampaigns ==
  /\ \A h \in Publishers : pub[h] # None => Progress(pub[h])
  /\ \A h, i \in Publishers : pub[h] # None /\ pub[i] # None /\ h # i =>
       pub[h].ext = None \/ pub[h].ext # pub[i].ext
  /\ \A d \in Drafts : draft[d] # None /\ draft[d].ext # None =>
       /\ offered[draft[d].ext] # None
       /\ \A h \in Publishers : pub[h] # None => pub[h].ext # draft[d].ext

LaunchesIInv ==
  /\ LaunchesTypeOK /\ TasksOpen /\ HeldByMalformed
  /\ OwnCampaigns /\ ReportedDraftsAreWhole /\ PublishedIsWhole

-----------------------------------------------------------------------------
(* Launches: the steps *)

\* A draft that is added is there with its ads, and is no campaign yet.
LEMMA DraftAdded ==
  ASSUME LaunchesAssumption, LaunchesTypeOK, NEW of \in MagicRuns \cup LaunchIds \cup {None},
         NEW platform \in Platforms, NEW n \in 0..MaxAds, AddDraft(of, platform, n)
  PROVE  /\ draft' \in [Drafts -> Draft \cup {None}]
         /\ \E d \in Drafts :
              /\ draft[d] = None /\ draft'[d] # None
              /\ draft'[d].of = of /\ draft'[d].platform = platform /\ draft'[d].ads = n
              /\ draft'[d].status = "draft" /\ draft'[d].ext = None
              /\ \A e \in Drafts \ {d} : draft'[e] = draft[e]
<1> DEFINE new == [of |-> of, platform |-> platform, ads |-> n, status |-> "draft", ext |-> None]
<1>1. PICK d \in Drafts : draft[d] = None /\ draft' = [draft EXCEPT ![d] = new]
  BY DEF AddDraft
<1>2. new \in Draft /\ new # None
  BY DEF Draft, LaunchesAssumption
<1>3. draft' \in [Drafts -> Draft \cup {None}] /\ draft'[d] = new /\ \A e \in Drafts \ {d} : draft'[e] = draft[e]
  BY <1>1, <1>2 DEF LaunchesTypeOK
<1> QED
  BY <1>1, <1>2, <1>3

\* A draft that is added disturbs no publication.
LEMMA AddingDisturbsNothing ==
  ASSUME LaunchesAssumption, LaunchesTypeOK, OwnCampaigns, PublishedIsWhole, UNCHANGED <<offered, pub>>,
         NEW of \in MagicRuns \cup LaunchIds \cup {None},
         NEW platform \in Platforms, NEW n \in 0..MaxAds, AddDraft(of, platform, n)
  PROVE  OwnCampaigns' /\ PublishedIsWhole'
<1>1. PICK d \in Drafts :
         /\ draft[d] = None /\ draft'[d] # None
         /\ draft'[d].of = of /\ draft'[d].platform = platform /\ draft'[d].ads = n
         /\ draft'[d].status = "draft" /\ draft'[d].ext = None
         /\ \A e \in Drafts \ {d} : draft'[e] = draft[e]
  BY DraftAdded
<1>2. \A e \in Drafts : draft[e] # None => draft'[e] = draft[e]
  BY <1>1
<1>3. \A h \in Publishers : pub[h] # None => pub[h].draft \in Drafts
  BY DEF LaunchesTypeOK, Publication
<1>4. \A h \in Publishers : pub[h] # None => Progress(pub[h])'
  <2> SUFFICES ASSUME NEW h \in Publishers, pub[h] # None PROVE Progress(pub[h])'
    OBVIOUS
  <2>1. Progress(pub[h]) /\ pub[h].draft \in Drafts
    BY <1>3 DEF OwnCampaigns
  <2>2. draft'[pub[h].draft] = draft[pub[h].draft] /\ draft[pub[h].draft] # None
    BY <1>2, <2>1 DEF Progress
  <2> QED
    BY <2>1, <2>2 DEF Progress, AdsToSend
<1>5. OwnCampaigns'
  BY <1>1, <1>4 DEF OwnCampaigns
<1>6. PublishedIsWhole'
  BY <1>1 DEF PublishedIsWhole
<1> QED
  BY <1>5, <1>6

-----------------------------------------------------------------------------
\* Every step keeps the invariant.
LEMMA InitLaunches == LaunchesAssumption /\ LaunchesInit => LaunchesIInv
  BY DEF LaunchesAssumption, LaunchesInit, LaunchesIInv, LaunchesTypeOK, TasksOpen, HeldByMalformed, OwnCampaigns,
         ReportedDraftsAreWhole, PublishedIsWhole

\* What a magic run does.
LEMMA MagicSteps ==
  ASSUME LaunchesAssumption, LaunchesIInv, NEW r \in MagicRuns,
         CreateMagicRun(r) \/ ProcessRun(r) \/ CreateDrafts(r) \/ FailRun(r) \/ LoseMagic(r)
  PROVE  LaunchesIInv'
<1> USE DEF LaunchesIInv
<1>1. ASSUME UNCHANGED <<draft, launch, offered, pub>>, task' \in [MagicRuns -> {"none", "queued", "asking"}],
             NEW m \in Magic, magic' = [magic EXCEPT ![r] = m], m.status # "success",
             \A q \in MagicRuns \ {r} : task'[q] = task[q],
             task'[r] # "none" => m.status \in {"pending", "running"}
      PROVE LaunchesIInv'
  <2>1. magic' \in [MagicRuns -> Magic \cup {None}] /\ magic'[r] = m /\ m # None
        /\ \A q \in MagicRuns \ {r} : magic'[q] = magic[q]
    BY <1>1 DEF LaunchesTypeOK, LaunchesAssumption
  <2>2. LaunchesTypeOK'
    BY <1>1, <2>1 DEF LaunchesTypeOK
  <2>3. TasksOpen' /\ HeldByMalformed'
    BY <1>1, <2>1 DEF TasksOpen, HeldByMalformed
  <2>4. OwnCampaigns' /\ PublishedIsWhole'
    BY <1>1 DEF OwnCampaigns, PublishedIsWhole, Progress, AdsToSend
  <2>5. ReportedDraftsAreWhole'
    BY <1>1, <2>1 DEF ReportedDraftsAreWhole
  <2> QED
    BY <2>2, <2>3, <2>4, <2>5
<1>2. CASE CreateMagicRun(r)
  <2> DEFINE m == [status |-> "pending", ads |-> 0]
  <2>1. m \in Magic /\ m.status = "pending"
    BY DEF Magic, LaunchesAssumption
  <2>2. /\ magic' = [magic EXCEPT ![r] = m] /\ task' = [task EXCEPT ![r] = "queued"]
        /\ UNCHANGED <<draft, launch, offered, pub>>
    BY <1>2 DEF CreateMagicRun
  <2>3. task' \in [MagicRuns -> {"none", "queued", "asking"}] /\ \A q \in MagicRuns \ {r} : task'[q] = task[q]
    BY <2>2 DEF LaunchesTypeOK
  <2> HIDE DEF m
  <2> QED
    BY <1>1, <2>1, <2>2, <2>3
<1>3. CASE ProcessRun(r)
  <2> DEFINE m == [magic[r] EXCEPT !.status = "running"]
  <2>1. magic[r] \in Magic
    BY <1>3 DEF ProcessRun, TasksOpen, HeldByMalformed, LaunchesTypeOK
  <2>2. m \in Magic /\ m.status = "running"
    BY <2>1 DEF Magic
  <2>3. /\ magic' = [magic EXCEPT ![r] = m] /\ task' = [task EXCEPT ![r] = "asking"]
        /\ UNCHANGED <<draft, launch, offered, pub>>
    BY <1>3 DEF ProcessRun, LaunchesTypeOK
  <2>4. task' \in [MagicRuns -> {"none", "queued", "asking"}] /\ \A q \in MagicRuns \ {r} : task'[q] = task[q]
    BY <2>3 DEF LaunchesTypeOK
  <2> HIDE DEF m
  <2> QED
    BY <1>1, <2>2, <2>3, <2>4
<1>4. CASE FailRun(r)
  <2> DEFINE m == [magic[r] EXCEPT !.status = "failed"]
  <2>1. magic[r] \in Magic
    BY <1>4 DEF FailRun, TasksOpen, HeldByMalformed, LaunchesTypeOK
  <2>2. m \in Magic /\ m.status = "failed"
    BY <2>1 DEF Magic
  <2>3. /\ magic' = [magic EXCEPT ![r] = m] /\ task' = [task EXCEPT ![r] = "none"]
        /\ UNCHANGED <<draft, launch, offered, pub>>
    BY <1>4 DEF FailRun, LaunchesTypeOK
  <2>4. /\ task' \in [MagicRuns -> {"none", "queued", "asking"}] /\ task'[r] = "none"
        /\ \A q \in MagicRuns \ {r} : task'[q] = task[q]
    BY <2>3 DEF LaunchesTypeOK
  <2> HIDE DEF m
  <2> QED
    BY <1>1, <2>2, <2>3, <2>4
<1>5. CASE LoseMagic(r)
  <2>1. task' = [task EXCEPT ![r] = "none"] /\ UNCHANGED <<magic, draft, launch, offered, pub>>
    BY <1>5 DEF LoseMagic
  <2>2. task' \in [MagicRuns -> {"none", "queued", "asking"}]
        /\ \A q \in MagicRuns : task'[q] = task[q] \/ task'[q] = "none"
    BY <2>1 DEF LaunchesTypeOK
  <2>3. LaunchesTypeOK' /\ TasksOpen' /\ HeldByMalformed'
    BY <2>1, <2>2 DEF LaunchesTypeOK, TasksOpen, HeldByMalformed
  <2>4. OwnCampaigns' /\ PublishedIsWhole' /\ ReportedDraftsAreWhole'
    BY <2>1 DEF OwnCampaigns, PublishedIsWhole, ReportedDraftsAreWhole, Progress, AdsToSend
  <2> QED
    BY <2>3, <2>4
<1>6. CASE CreateDrafts(r)
  <2>1. PICK n \in GeneratedAds, raised \in BOOLEAN :
          \E k \in 0..n :
            /\ raised <=> k < n
            /\ magic' = [magic EXCEPT ![r] = [status |-> StatusAfter(raised), ads |-> n]]
            /\ \E p \in Asked : AddDraft(r, p, k)
    BY <1>6 DEF CreateDrafts
  <2>2. PICK k \in 0..n :
            /\ raised <=> k < n
            /\ magic' = [magic EXCEPT ![r] = [status |-> StatusAfter(raised), ads |-> n]]
            /\ \E p \in Asked : AddDraft(r, p, k)
    BY <2>1
  <2>3. PICK p \in Asked : AddDraft(r, p, k)
    BY <2>2
  <2>4. p \in Platforms /\ MaxAds \in Nat /\ n \in 0..MaxAds /\ k \in 0..MaxAds /\ (~raised => k = n)
    BY <2>2 DEF LaunchesAssumption, GeneratedAds
  <2> DEFINE m == [status |-> StatusAfter(raised), ads |-> n]
  <2>5. m \in Magic /\ m.ads = n /\ (m.status = "success" => ~raised)
    BY <2>4 DEF Magic, StatusAfter
  <2>6. magic' = [magic EXCEPT ![r] = m] /\ task' = [task EXCEPT ![r] = "none"]
        /\ UNCHANGED <<launch, offered, pub>>
    BY <1>6, <2>2 DEF CreateDrafts
  <2> HIDE DEF m
  <2>7. draft' \in [Drafts -> Draft \cup {None}]
    BY <2>3, <2>4, DraftAdded
  <2>8. PICK d \in Drafts :
          /\ draft[d] = None /\ draft'[d] # None
          /\ draft'[d].of = r /\ draft'[d].platform = p /\ draft'[d].ads = k
          /\ draft'[d].status = "draft" /\ draft'[d].ext = None
          /\ \A e \in Drafts \ {d} : draft'[e] = draft[e]
    BY <2>3, <2>4, DraftAdded
  <2>9. /\ magic' \in [MagicRuns -> Magic \cup {None}] /\ task' \in [MagicRuns -> {"none", "queued", "asking"}]
        /\ magic'[r] = m /\ m # None /\ task'[r] = "none"
        /\ \A q \in MagicRuns \ {r} : magic'[q] = magic[q] /\ task'[q] = task[q]
    BY <2>5, <2>6 DEF LaunchesTypeOK, LaunchesAssumption
  <2>10. LaunchesTypeOK'
    BY <2>6, <2>7, <2>9 DEF LaunchesTypeOK
  <2>11. TasksOpen' /\ HeldByMalformed'
    BY <2>6, <2>9 DEF TasksOpen, HeldByMalformed
  <2>12. OwnCampaigns' /\ PublishedIsWhole'
    BY <2>3, <2>4, <2>6, AddingDisturbsNothing
  <2>13. ReportedDraftsAreWhole'
    <3>1. \A e \in Drafts : draft[e] # None => draft'[e] = draft[e]
      BY <2>8
    <3>2. m.status = "success" => draft'[d].ads = m.ads
      BY <2>4, <2>5, <2>8
    <3>3. \A q \in MagicRuns : magic'[q] # None =>
            (magic'[q].status = "success" =>
               \E e \in Drafts : draft'[e] # None /\ draft'[e].of = q /\ draft'[e].ads = magic'[q].ads)
      BY <2>8, <2>9, <3>1, <3>2 DEF ReportedDraftsAreWhole
    <3>4. \A l \in LaunchIds : launch[l] # None =>
            \A q \in launch[l].launched :
              \E e \in Drafts : draft'[e] # None /\ draft'[e].of = l /\ draft'[e].platform = q
                                  /\ draft'[e].ads = launch[l].ads
      BY <3>1 DEF ReportedDraftsAreWhole
    <3> QED
      BY <2>6, <3>3, <3>4 DEF ReportedDraftsAreWhole
  <2> QED
    BY <2>10, <2>11, <2>12, <2>13
<1> QED
  BY <1>2, <1>3, <1>4, <1>5, <1>6

\* A draft from ads that were generated before registration, and what a
\* one-click launch does.
LEMMA LaunchSteps ==
  ASSUME LaunchesAssumption, LaunchesIInv,
         \/ \E n \in 0..MaxAds : CreateDraftsFromPublic(n)
         \/ ImportCampaign
         \/ \E l \in LaunchIds :
              \/ \E ps \in SUBSET Asked, n, k \in 0..MaxAds : MagicLaunch(l, ps, n, k)
              \/ \E p \in Asked : CreatePlatformCampaign(l, p) \/ PlatformError(l, p) \/ MalformedAd(l, p)
              \/ FlushFails(l)
  PROVE  LaunchesIInv'
<1> USE DEF LaunchesIInv
<1>1. ASSUME NEW n \in 0..MaxAds, CreateDraftsFromPublic(n) \/ (n = 0 /\ ImportCampaign) PROVE LaunchesIInv'
  <2>1. AddDraft(None, "yandex", n) /\ UNCHANGED <<magic, task, launch, offered, pub>>
    BY <1>1 DEF CreateDraftsFromPublic, ImportCampaign
  <2>2. "yandex" \in Platforms /\ None \in MagicRuns \cup LaunchIds \cup {None}
    BY DEF Platforms
  <2>3. draft' \in [Drafts -> Draft \cup {None}] /\ \A e \in Drafts : draft[e] # None => draft'[e] = draft[e]
    BY <2>1, <2>2, DraftAdded
  <2>4. OwnCampaigns' /\ PublishedIsWhole'
    BY <2>1, <2>2, AddingDisturbsNothing
  <2>5. LaunchesTypeOK' /\ TasksOpen' /\ HeldByMalformed'
    BY <2>1, <2>3 DEF LaunchesTypeOK, TasksOpen, HeldByMalformed
  <2>6. ReportedDraftsAreWhole'
    BY <2>1, <2>3 DEF ReportedDraftsAreWhole
  <2> QED
    BY <2>4, <2>5, <2>6
<1>2. ASSUME NEW l \in LaunchIds, NEW new \in Launch, launch' = [launch EXCEPT ![l] = new],
             UNCHANGED <<magic, task, draft, offered, pub>>,
             new.held # {} => new.sound # new.ads, new.kept = {},
             \A p \in new.launched : launch[l] # None /\ p \in launch[l].launched /\ launch[l].ads = new.ads
      PROVE LaunchesIInv'
  <2>1. /\ launch' \in [LaunchIds -> Launch \cup {None}] /\ launch'[l] = new
        /\ \A k \in LaunchIds \ {l} : launch'[k] = launch[k]
    BY <1>2 DEF LaunchesTypeOK
  <2>2. LaunchesTypeOK' /\ TasksOpen' /\ OwnCampaigns' /\ PublishedIsWhole'
    BY <1>2, <2>1 DEF LaunchesTypeOK, TasksOpen, OwnCampaigns, PublishedIsWhole, Progress, AdsToSend
  <2>3. HeldByMalformed'
    BY <1>2, <2>1 DEF HeldByMalformed
  <2>4. \A k \in LaunchIds : launch'[k] # None =>
          /\ launch'[k].kept = {}
          /\ \A q \in launch'[k].launched :
               \E d \in Drafts : draft[d] # None /\ draft[d].of = k /\ draft[d].platform = q
                                   /\ draft[d].ads = launch'[k].ads
    BY <1>2, <2>1 DEF ReportedDraftsAreWhole
  <2>5. ReportedDraftsAreWhole'
    BY <1>2, <2>4 DEF ReportedDraftsAreWhole
  <2> QED
    BY <2>2, <2>3, <2>5
<1>3. ASSUME NEW l \in LaunchIds, NEW p \in Asked, CreatePlatformCampaign(l, p) PROVE LaunchesIInv'
  <2>1. launch[l] # None /\ launch[l] \in Launch /\ launch[l].ads \in 0..MaxAds /\ p \in Platforms
    BY <1>3 DEF CreatePlatformCampaign, LaunchesTypeOK, Launch, LaunchesAssumption
  <2>2. AddDraft(l, p, launch[l].ads) /\ UNCHANGED <<magic, task, offered, pub>>
    BY <1>3 DEF CreatePlatformCampaign
  <2>3. PICK started \in BOOLEAN :
          launch' = [launch EXCEPT ![l].left = @ \ {p},
                                   ![l].launched = IF started THEN @ \cup {p} ELSE @,
                                   ![l].kept = @ \cup launch[l].held, ![l].held = {}]
    BY <1>3 DEF CreatePlatformCampaign
  <2> DEFINE new == [launch[l] EXCEPT !.left = @ \ {p}, !.launched = IF started THEN @ \cup {p} ELSE @,
                                      !.kept = @ \cup launch[l].held, !.held = {}]
  <2>12. launch[l].held = {} /\ launch[l].kept = {}
    BY <1>3, <2>1 DEF CreatePlatformCampaign, HeldByMalformed, ReportedDraftsAreWhole
  <2>4. /\ new \in Launch /\ new.ads = launch[l].ads /\ new.launched \subseteq launch[l].launched \cup {p}
        /\ new.held = {} /\ new.kept = {}
    BY <2>1, <2>12 DEF Launch
  <2>5. launch' = [launch EXCEPT ![l] = new]
    BY <2>3 DEF LaunchesTypeOK
  <2> HIDE DEF new
  <2>6. /\ launch' \in [LaunchIds -> Launch \cup {None}] /\ launch'[l] = new
        /\ \A k \in LaunchIds \ {l} : launch'[k] = launch[k]
    BY <2>4, <2>5 DEF LaunchesTypeOK
  <2>7. draft' \in [Drafts -> Draft \cup {None}] /\ \A e \in Drafts : draft[e] # None => draft'[e] = draft[e]
    BY <2>1, <2>2, DraftAdded
  <2>8. \E d \in Drafts : draft'[d] # None /\ draft'[d].of = l /\ draft'[d].platform = p
                            /\ draft'[d].ads = launch[l].ads
    BY <2>1, <2>2, DraftAdded
  <2>9. OwnCampaigns' /\ PublishedIsWhole'
    BY <2>1, <2>2, AddingDisturbsNothing
  <2>10. LaunchesTypeOK' /\ TasksOpen' /\ HeldByMalformed'
    BY <2>2, <2>4, <2>6, <2>7 DEF LaunchesTypeOK, TasksOpen, HeldByMalformed
  <2>11. ReportedDraftsAreWhole'
    <3>1. \A r \in MagicRuns : magic[r] # None =>
            (magic[r].status = "success" =>
               \E e \in Drafts : draft'[e] # None /\ draft'[e].of = r /\ draft'[e].ads = magic[r].ads)
      BY <2>7 DEF ReportedDraftsAreWhole
    <3>2. \A k \in LaunchIds : launch[k] # None =>
            /\ launch[k].kept = {}
            /\ \A q \in launch[k].launched :
                 \E e \in Drafts : draft'[e] # None /\ draft'[e].of = k /\ draft'[e].platform = q
                                     /\ draft'[e].ads = launch[k].ads
      BY <2>7 DEF ReportedDraftsAreWhole
    <3>3. \A k \in LaunchIds : launch'[k] # None =>
            /\ launch'[k].kept = {}
            /\ \A q \in launch'[k].launched :
                 \E e \in Drafts : draft'[e] # None /\ draft'[e].of = k /\ draft'[e].platform = q
                                     /\ draft'[e].ads = launch'[k].ads
      BY <2>1, <2>4, <2>6, <2>8, <3>2
    <3> QED
      BY <2>2, <3>1, <3>3 DEF ReportedDraftsAreWhole
  <2> QED
    BY <2>9, <2>10, <2>11
<1>4. ASSUME NEW l \in LaunchIds, NEW ps \in SUBSET Asked, NEW n \in 0..MaxAds, NEW k \in 0..MaxAds,
             MagicLaunch(l, ps, n, k)
      PROVE LaunchesIInv'
  <2> DEFINE new == [left |-> ps, launched |-> {}, held |-> {}, kept |-> {}, ads |-> n, sound |-> k]
  <2>1. launch' = [launch EXCEPT ![l] = new] /\ UNCHANGED <<magic, task, draft, offered, pub>>
    BY <1>4 DEF MagicLaunch
  <2>2. new \in Launch /\ new.launched = {} /\ new.held = {} /\ new.kept = {}
    BY DEF Launch, LaunchesAssumption
  <2> HIDE DEF new
  <2> QED
    BY <1>2, <2>1, <2>2
<1>5. ASSUME NEW l \in LaunchIds, NEW p \in Platforms, PlatformError(l, p) \/ MalformedAd(l, p) \/ FlushFails(l)
      PROVE LaunchesIInv'
  <2>1. /\ launch[l] # None /\ launch[l] \in Launch /\ p \in Platforms
        /\ launch[l].kept = {} /\ (launch[l].held # {} => launch[l].sound # launch[l].ads)
        /\ UNCHANGED <<magic, task, draft, offered, pub>>
    BY <1>5 DEF PlatformError, MalformedAd, FlushFails, LaunchesTypeOK, HeldByMalformed, ReportedDraftsAreWhole,
                LaunchesAssumption
  <2>2. PICK left \in SUBSET Platforms, held \in SUBSET Platforms :
          /\ launch' = [launch EXCEPT ![l] = [launch[l] EXCEPT !.left = left, !.held = held]]
          /\ held # {} => launch[l].sound # launch[l].ads
    <3> DEFINE Set(left, held) == [launch EXCEPT ![l] = [launch[l] EXCEPT !.left = left, !.held = held]]
    <3>1. launch[l].left \ {p} \in SUBSET Platforms /\ launch[l].held \in SUBSET Platforms
          /\ launch[l].held \cup {p} \in SUBSET Platforms
      BY <2>1 DEF Launch
    <3>2. CASE PlatformError(l, p)
      <4>1. launch' = Set(launch[l].left \ {p}, launch[l].held)
        BY <2>1, <3>2 DEF PlatformError, LaunchesTypeOK, Launch
      <4> QED
        BY <2>1, <3>1, <4>1
    <3>3. CASE MalformedAd(l, p)
      <4>1. launch' = Set(launch[l].left \ {p}, launch[l].held \cup {p})
        BY <2>1, <3>3 DEF MalformedAd, LaunchesTypeOK, Launch
      <4>2. launch[l].sound # launch[l].ads
        BY <2>1, <3>3 DEF MalformedAd, Launch, LaunchesAssumption
      <4> QED
        BY <3>1, <4>1, <4>2
    <3>4. CASE FlushFails(l)
      <4>1. launch' = Set({}, {})
        BY <2>1, <3>4 DEF FlushFails, LaunchesTypeOK, Launch
      <4> QED
        BY <4>1
    <3> QED
      BY <1>5, <3>2, <3>3, <3>4
  <2> DEFINE new == [launch[l] EXCEPT !.left = left, !.held = held]
  <2>3. /\ new \in Launch /\ new.launched = launch[l].launched /\ new.kept = {}
        /\ new.ads = launch[l].ads /\ new.sound = launch[l].sound /\ new.held = held
    BY <2>1 DEF Launch
  <2>4. launch' = [launch EXCEPT ![l] = new]
    BY <2>2
  <2> HIDE DEF new
  <2> QED
    BY <1>2, <2>1, <2>2, <2>3, <2>4
<1>6. Asked \subseteq Platforms /\ "yandex" \in Platforms /\ 0 \in 0..MaxAds
  BY DEF LaunchesAssumption, Platforms
<1> QED
  BY <1>1, <1>3, <1>4, <1>5, <1>6

\* The ads that are sent fit into a campaign.
LEMMA AdsToSendBounded ==
  ASSUME LaunchesAssumption, LaunchesTypeOK, NEW d \in Drafts, draft[d] # None
  PROVE  AdsToSend(d) \in 0..MaxAds
<1>1. draft[d].ads \in 0..MaxAds /\ VkLimit \in Nat /\ MaxAds \in Nat
  BY DEF LaunchesTypeOK, Draft, LaunchesAssumption
<1> QED
  BY <1>1 DEF AdsToSend

\* One publication goes on while drafts stay as they are: it has a campaign of
\* its own, and no campaign of another changes.
LEMMA PublicationGoesOn ==
  ASSUME LaunchesAssumption, LaunchesIInv, UNCHANGED <<magic, task, draft, launch>>,
         NEW h \in Publishers, NEW p \in Publication, pub' = [pub EXCEPT ![h] = p],
         offered' \in [ExtIds -> 0..MaxAds \cup {None}],
         Progress(p)',
         \A x \in ExtIds : offered[x] # None /\ x # p.ext => offered'[x] = offered[x],
         p.ext = None \/ (p.ext \in ExtIds /\ (offered[p.ext] = None \/ (pub[h] # None /\ p.ext = pub[h].ext)))
  PROVE  LaunchesIInv'
<1> USE DEF LaunchesIInv
<1>1. pub' \in [Publishers -> Publication \cup {None}] /\ pub'[h] = p
      /\ \A i \in Publishers \ {h} : pub'[i] = pub[i]
  BY DEF LaunchesTypeOK
<1>2. LaunchesTypeOK'
  BY <1>1 DEF LaunchesTypeOK
<1>3. TasksOpen' /\ HeldByMalformed' /\ ReportedDraftsAreWhole'
  BY DEF TasksOpen, HeldByMalformed, ReportedDraftsAreWhole
<1>4. \A i \in Publishers : pub[i] # None => pub[i] \in Publication /\ Progress(pub[i])
  BY DEF LaunchesTypeOK, OwnCampaigns
<1>5. \A i \in Publishers \ {h} : pub[i] # None /\ pub[i].ext # None =>
        pub[i].ext # p.ext
  <2> SUFFICES ASSUME NEW i \in Publishers \ {h}, pub[i] # None, pub[i].ext # None, pub[i].ext = p.ext
               PROVE FALSE
    OBVIOUS
  <2>1. pub[i].step # "campaign" => offered[pub[i].ext] # None
    BY <1>4 DEF Progress
  <2>2. pub[h] # None => pub[h].ext = None \/ pub[h].ext # pub[i].ext
    BY DEF OwnCampaigns
  <2>3. pub[i].step = "campaign"
    BY <2>1, <2>2
  <2> QED
    BY <1>4, <2>3 DEF Progress
<1>6. \A i \in Publishers \ {h} : pub[i] # None => Progress(pub[i])'
  <2> SUFFICES ASSUME NEW i \in Publishers \ {h}, pub[i] # None PROVE Progress(pub[i])'
    OBVIOUS
  <2>1. Progress(pub[i]) /\ pub[i] \in Publication
    BY <1>4
  <2>2. pub[i].step # "campaign" => offered'[pub[i].ext] = offered[pub[i].ext]
    <3>1. pub[i].step # "campaign" => pub[i].ext # None /\ pub[i].ext \in ExtIds /\ offered[pub[i].ext] # None
      BY <2>1 DEF Progress, Publication
    <3> QED
      BY <1>5, <3>1
  <2> QED
    BY <2>1, <2>2 DEF Progress, AdsToSend
<1>7. \A d \in Drafts : draft[d] # None /\ draft[d].ext # None =>
        /\ draft[d].ext \in ExtIds /\ offered[draft[d].ext] # None /\ draft[d].ext # p.ext
        /\ offered'[draft[d].ext] = offered[draft[d].ext]
  <2> SUFFICES ASSUME NEW d \in Drafts, draft[d] # None, draft[d].ext # None
               PROVE /\ draft[d].ext \in ExtIds /\ offered[draft[d].ext] # None /\ draft[d].ext # p.ext
                     /\ offered'[draft[d].ext] = offered[draft[d].ext]
    OBVIOUS
  <2>1. draft[d].ext \in ExtIds
    BY DEF LaunchesTypeOK, Draft
  <2>2. offered[draft[d].ext] # None /\ (pub[h] # None => pub[h].ext # draft[d].ext)
    BY DEF OwnCampaigns
  <2> QED
    BY <2>1, <2>2
<1>8. OwnCampaigns'
  <2>1. (\A i \in Publishers : pub[i] # None => Progress(pub[i]))'
    <3> SUFFICES ASSUME NEW i \in Publishers, pub'[i] # None PROVE Progress(pub[i])'
      OBVIOUS
    <3>1. CASE i = h
      BY <1>1, <3>1 DEF Progress, AdsToSend
    <3>2. CASE i # h
      BY <1>1, <1>6, <3>2
    <3> QED
      BY <3>1, <3>2
  <2>2. \A i, j \in Publishers : pub'[i] # None /\ pub'[j] # None /\ i # j =>
          pub'[i].ext = None \/ pub'[i].ext # pub'[j].ext
    BY <1>1, <1>5 DEF OwnCampaigns
  <2>3. \A d \in Drafts : draft[d] # None /\ draft[d].ext # None =>
          /\ offered'[draft[d].ext] # None
          /\ \A i \in Publishers : pub'[i] # None => pub'[i].ext # draft[d].ext
    BY <1>1, <1>7 DEF OwnCampaigns
  <2> QED
    BY <2>1, <2>2, <2>3 DEF OwnCampaigns
<1>9. PublishedIsWhole'
  BY <1>7 DEF PublishedIsWhole
<1> QED
  BY <1>2, <1>3, <1>8, <1>9

\* A publication ends without a trace on the drafts.
LEMMA PublicationEnds ==
  ASSUME LaunchesIInv, NEW h \in Publishers, PublishFails(h)
  PROVE  LaunchesIInv'
<1> USE DEF LaunchesIInv
<1>1. pub' = [pub EXCEPT ![h] = None] /\ UNCHANGED <<magic, task, draft, launch, offered>>
  BY DEF PublishFails
<1>2. pub' \in [Publishers -> Publication \cup {None}] /\ \A i \in Publishers : pub'[i] = None \/ pub'[i] = pub[i]
  BY <1>1 DEF LaunchesTypeOK
<1>3. LaunchesTypeOK' /\ TasksOpen' /\ HeldByMalformed' /\ ReportedDraftsAreWhole' /\ PublishedIsWhole'
  BY <1>1, <1>2 DEF LaunchesTypeOK, TasksOpen, HeldByMalformed, ReportedDraftsAreWhole, PublishedIsWhole
<1>4. OwnCampaigns'
  BY <1>1, <1>2 DEF OwnCampaigns, Progress, AdsToSend
<1> QED
  BY <1>3, <1>4

\* A publication is committed: its campaign becomes the draft's.
LEMMA PublicationCommits ==
  ASSUME LaunchesAssumption, LaunchesIInv, NEW h \in Publishers, Published(h)
  PROVE  LaunchesIInv'
<1> USE DEF LaunchesIInv
<1> DEFINE p == pub[h]
           d == p.draft
           new == [draft[d] EXCEPT !.status = "published", !.ext = p.ext]
<1>1. /\ pub[h] # None /\ p \in Publication /\ d \in Drafts /\ Progress(p)
      /\ p.step = "sent" \/ (p.step = "ads" /\ p.left = 0)
      /\ pub' = [pub EXCEPT ![h] = None] /\ UNCHANGED <<magic, task, launch, offered>>
  BY DEF Published, LaunchesTypeOK, OwnCampaigns, Publication
<1>2. draft[d] # None /\ draft[d] \in Draft /\ p.ext \in ExtIds /\ p.ext # None /\ offered[p.ext] # None
  BY <1>1 DEF Progress, LaunchesTypeOK, Publication
<1>3. offered[p.ext] = AdsToSend(d)
  <2>1. offered[p.ext] \in 0..MaxAds /\ MaxAds \in Nat
    BY <1>2 DEF LaunchesTypeOK, LaunchesAssumption
  <2>2. CASE p.step = "sent"
    BY <1>1, <2>2 DEF Progress
  <2>3. CASE p.step = "ads" /\ p.left = 0
    <3>1. offered[p.ext] + 0 = AdsToSend(d)
      BY <1>1, <2>3 DEF Progress
    <3> QED
      BY <2>1, <3>1
  <2> QED
    BY <1>1, <2>2, <2>3
<1>4. /\ new \in Draft /\ new # None /\ new.of = draft[d].of /\ new.platform = draft[d].platform
      /\ new.ads = draft[d].ads /\ new.status = "published" /\ new.ext = p.ext
  BY <1>2 DEF Draft, LaunchesAssumption
<1>5. draft' = [draft EXCEPT ![d] = new]
  BY DEF Published, LaunchesTypeOK
<1> HIDE DEF new
<1>6. /\ draft' \in [Drafts -> Draft \cup {None}] /\ draft'[d] = new
      /\ \A e \in Drafts \ {d} : draft'[e] = draft[e]
  BY <1>1, <1>4, <1>5 DEF LaunchesTypeOK
<1>7. \A e \in Drafts : draft[e] # None =>
        /\ draft'[e] # None /\ draft'[e].of = draft[e].of
        /\ draft'[e].platform = draft[e].platform /\ draft'[e].ads = draft[e].ads
  BY <1>4, <1>6
<1>8. pub' \in [Publishers -> Publication \cup {None}] /\ pub'[h] = None
      /\ \A i \in Publishers \ {h} : pub'[i] = pub[i]
  BY <1>1 DEF LaunchesTypeOK
<1>9. LaunchesTypeOK' /\ TasksOpen' /\ HeldByMalformed'
  BY <1>1, <1>6, <1>8 DEF LaunchesTypeOK, TasksOpen, HeldByMalformed
<1>10. ReportedDraftsAreWhole'
  BY <1>1, <1>7 DEF ReportedDraftsAreWhole
<1>11. PublishedIsWhole'
  <2>1. new.status = "published" =>
          /\ new.ext # None
          /\ offered[new.ext] = IF new.platform = "vk" /\ new.ads > VkLimit THEN VkLimit ELSE new.ads
    BY <1>2, <1>3, <1>4 DEF AdsToSend
  <2> QED
    BY <1>1, <1>6, <2>1 DEF PublishedIsWhole
<1>12. OwnCampaigns'
  <2>1. (\A i \in Publishers : pub[i] # None => Progress(pub[i]))'
    <3> SUFFICES ASSUME NEW i \in Publishers, pub'[i] # None PROVE Progress(pub[i])'
      OBVIOUS
    <3>1. pub'[i] = pub[i] /\ pub[i] # None /\ pub[i].draft \in Drafts /\ Progress(pub[i])
      BY <1>8 DEF OwnCampaigns, LaunchesTypeOK, Publication
    <3>2. draft[pub[i].draft] # None
      BY <3>1 DEF Progress
    <3>3. draft'[pub[i].draft] # None /\ draft'[pub[i].draft].platform = draft[pub[i].draft].platform
          /\ draft'[pub[i].draft].ads = draft[pub[i].draft].ads
      BY <1>7, <3>1, <3>2
    <3> QED
      BY <1>1, <3>1, <3>3 DEF Progress, AdsToSend
  <2>2. \A i, j \in Publishers : pub'[i] # None /\ pub'[j] # None /\ i # j =>
          pub'[i].ext = None \/ pub'[i].ext # pub'[j].ext
    BY <1>8 DEF OwnCampaigns
  <2>3. \A e \in Drafts : draft'[e] # None /\ draft'[e].ext # None =>
          /\ offered[draft'[e].ext] # None
          /\ \A i \in Publishers : pub'[i] # None => pub'[i].ext # draft'[e].ext
    <3>1. \A i \in Publishers \ {h} : pub[i] # None => pub[i].ext # p.ext
      BY <1>1, <1>2 DEF OwnCampaigns
    <3> QED
      BY <1>2, <1>4, <1>6, <1>8, <3>1 DEF OwnCampaigns
  <2> QED
    BY <1>1, <2>1, <2>2, <2>3 DEF OwnCampaigns
<1> QED
  BY <1>9, <1>10, <1>11, <1>12

LEMMA PublicationSteps ==
  ASSUME LaunchesAssumption, LaunchesIInv, NEW h \in Publishers,
         \/ \E d \in Drafts : Publish(h, d)
         \/ CreateExternalCampaign(h) \/ CreateGroup(h) \/ CreateAd(h) \/ AdapterPublish(h)
  PROVE  LaunchesIInv'
<1> USE DEF LaunchesIInv
<1>0. MaxAds \in Nat /\ 0 \in 0..MaxAds /\ None \notin ExtIds /\ None \notin 0..MaxAds
  BY DEF LaunchesAssumption
<1>1. offered \in [ExtIds -> 0..MaxAds \cup {None}]
  BY DEF LaunchesTypeOK
<1>2. ASSUME NEW d \in Drafts, Publish(h, d) PROVE LaunchesIInv'
  <2>0. PICK p \in Publication : p = [draft |-> d, step |-> "campaign", ext |-> None, left |-> 0]
    BY <1>0 DEF Publication
  <2>1. draft[d] # None /\ pub' = [pub EXCEPT ![h] = p] /\ UNCHANGED <<magic, task, draft, launch, offered>>
    BY <1>2, <2>0 DEF Publish
  <2>2. p \in Publication /\ p.step = "campaign" /\ p.ext = None /\ p.draft = d
    BY <2>0
  <2>3. Progress(p)'
    BY <2>1, <2>2 DEF Progress
  <2>4. offered' \in [ExtIds -> 0..MaxAds \cup {None}]
        /\ \A x \in ExtIds : offered[x] # None /\ x # p.ext => offered'[x] = offered[x]
    BY <1>1, <2>1
  <2> QED
    BY <2>1, <2>2, <2>3, <2>4, PublicationGoesOn
<1>3. ASSUME pub[h] # None, NEW next \in {"group", "sent"}, NEW n \in 0..MaxAds, NewCampaign(h, next, n),
             next = "group" => n = 0, next = "sent" => n = AdsToSend(pub[h].draft),
             UNCHANGED <<magic, task, draft, launch>>
      PROVE LaunchesIInv'
  <2>1. PICK x \in ExtIds :
          /\ offered[x] = None /\ offered' = [offered EXCEPT ![x] = n]
          /\ pub' = [pub EXCEPT ![h].step = next, ![h].ext = x]
    BY <1>3 DEF NewCampaign
  <2>2. pub[h] \in Publication /\ Progress(pub[h])
    BY <1>3 DEF LaunchesTypeOK, OwnCampaigns
  <2> DEFINE q == [pub[h] EXCEPT !.step = next, !.ext = x]
  <2>8. q \in Publication /\ q.step = next /\ q.ext = x /\ q.draft = pub[h].draft
    BY <2>2 DEF Publication
  <2>3. PICK p \in Publication : p = q /\ p.step = next /\ p.ext = x /\ p.draft = pub[h].draft
    <3> HIDE DEF q
    <3> QED
      BY <2>8
  <2>4. pub' = [pub EXCEPT ![h] = p]
    BY <2>1, <2>3 DEF LaunchesTypeOK
  <2>5. offered' \in [ExtIds -> 0..MaxAds \cup {None}] /\ offered'[x] = n
        /\ \A y \in ExtIds : offered[y] # None /\ y # p.ext => offered'[y] = offered[y]
    BY <1>1, <2>1, <2>3
  <2>6. Progress(p)'
    BY <1>0, <1>3, <2>2, <2>3, <2>5 DEF Progress, AdsToSend
  <2>7. p.ext \in ExtIds /\ offered[p.ext] = None
    BY <2>1, <2>3
  <2> QED
    BY <1>3, <2>3, <2>4, <2>5, <2>6, <2>7, PublicationGoesOn
<1>4. CASE CreateExternalCampaign(h)
  <2>1. pub[h] # None /\ NewCampaign(h, "group", 0) /\ UNCHANGED <<magic, task, draft, launch>>
    BY <1>4 DEF CreateExternalCampaign
  <2> QED
    BY <1>0, <1>3, <2>1
<1>5. CASE AdapterPublish(h)
  <2> DEFINE n == draft[pub[h].draft].ads
  <2>1. pub[h] # None /\ NewCampaign(h, "sent", n) /\ UNCHANGED <<magic, task, draft, launch>>
        /\ draft[pub[h].draft].platform = "yandex"
    BY <1>5 DEF AdapterPublish
  <2>2. pub[h].draft \in Drafts /\ draft[pub[h].draft] # None
    BY <2>1 DEF OwnCampaigns, Progress, LaunchesTypeOK, Publication
  <2>3. n \in 0..MaxAds /\ n = AdsToSend(pub[h].draft)
    BY <2>1, <2>2 DEF LaunchesTypeOK, Draft, AdsToSend
  <2> HIDE DEF n
  <2> QED
    BY <1>3, <2>1, <2>3
<1>6. CASE CreateGroup(h)
  <2> DEFINE n == AdsToSend(pub[h].draft)
  <2>1. pub[h] # None /\ pub[h].step = "group" /\ UNCHANGED <<magic, task, draft, launch, offered>>
        /\ pub' = [pub EXCEPT ![h] = [pub[h] EXCEPT !.step = "ads", !.left = n]]
    BY <1>6 DEF CreateGroup, LaunchesTypeOK
  <2>2. pub[h] \in Publication /\ Progress(pub[h]) /\ pub[h].draft \in Drafts /\ draft[pub[h].draft] # None
    BY <2>1 DEF LaunchesTypeOK, OwnCampaigns, Progress, Publication
  <2>3. n \in 0..MaxAds
    BY <2>2, AdsToSendBounded
  <2> DEFINE q == [pub[h] EXCEPT !.step = "ads", !.left = n]
  <2>8. q \in Publication /\ q.step = "ads" /\ q.ext = pub[h].ext /\ q.draft = pub[h].draft /\ q.left = n
    BY <2>2, <2>3 DEF Publication
  <2>4. PICK p \in Publication :
          p = q /\ p.step = "ads" /\ p.ext = pub[h].ext /\ p.draft = pub[h].draft /\ p.left = n
    <3> HIDE DEF q
    <3> QED
      BY <2>8
  <2>5. pub[h].ext # None /\ pub[h].ext \in ExtIds /\ offered[pub[h].ext] = 0
    BY <2>1, <2>2 DEF Progress, Publication
  <2>6. Progress(p)'
    <3>1. offered'[p.ext] + p.left = AdsToSend(p.draft)'
      BY <2>1, <2>3, <2>4, <2>5 DEF AdsToSend
    <3> QED
      BY <1>0, <2>1, <2>2, <2>4, <2>5, <3>1 DEF Progress
  <2> HIDE DEF n
  <2>7. offered' \in [ExtIds -> 0..MaxAds \cup {None}]
        /\ \A x \in ExtIds : offered[x] # None /\ x # p.ext => offered'[x] = offered[x]
    BY <1>1, <2>1
  <2> QED
    BY <2>1, <2>4, <2>5, <2>6, <2>7, PublicationGoesOn
<1>7. CASE CreateAd(h)
  <2> DEFINE x == pub[h].ext
  <2>1. /\ pub[h] # None /\ pub[h].step = "ads" /\ pub[h].left > 0
        /\ UNCHANGED <<magic, task, draft, launch>>
        /\ offered' = [offered EXCEPT ![x] = @ + 1] /\ pub' = [pub EXCEPT ![h] = [pub[h] EXCEPT !.left = pub[h].left - 1]]
    BY <1>7 DEF CreateAd, LaunchesTypeOK
  <2>2. /\ pub[h] \in Publication /\ Progress(pub[h]) /\ pub[h].draft \in Drafts /\ draft[pub[h].draft] # None
        /\ pub[h].left \in 0..MaxAds
    BY <2>1 DEF LaunchesTypeOK, OwnCampaigns, Progress, Publication
  <2>3. x # None /\ x \in ExtIds /\ offered[x] \in 0..MaxAds /\ offered[x] + pub[h].left = AdsToSend(pub[h].draft)
    BY <1>1, <2>1, <2>2 DEF Progress, Publication
  <2>4. AdsToSend(pub[h].draft) \in 0..MaxAds
    BY <2>2, AdsToSendBounded
  <2>5. pub[h].left - 1 \in 0..MaxAds /\ offered[x] + 1 \in 0..MaxAds
        /\ (offered[x] + 1) + (pub[h].left - 1) = AdsToSend(pub[h].draft)
    BY <1>0, <2>1, <2>2, <2>3, <2>4
  <2> DEFINE q == [pub[h] EXCEPT !.left = pub[h].left - 1]
  <2>10. q \in Publication /\ q.step = "ads" /\ q.ext = x /\ q.draft = pub[h].draft /\ q.left = pub[h].left - 1
    BY <2>1, <2>2, <2>5 DEF Publication
  <2>6. PICK p \in Publication :
          p = q /\ p.step = "ads" /\ p.ext = x /\ p.draft = pub[h].draft /\ p.left = pub[h].left - 1
    <3> HIDE DEF q
    <3> QED
      BY <2>10
  <2> HIDE DEF x
  <2>7. offered' \in [ExtIds -> 0..MaxAds \cup {None}] /\ offered'[x] = offered[x] + 1
        /\ \A y \in ExtIds : offered[y] # None /\ y # p.ext => offered'[y] = offered[y]
    BY <1>1, <2>1, <2>3, <2>5, <2>6
  <2>8. Progress(p)'
    <3>1. AdsToSend(p.draft)' = AdsToSend(pub[h].draft)
      BY <2>1, <2>6 DEF AdsToSend
    <3>2. offered'[p.ext] + p.left = AdsToSend(p.draft)'
      BY <1>0, <2>1, <2>2, <2>3, <2>5, <2>6, <2>7, <3>1
    <3> QED
      BY <1>0, <2>1, <2>2, <2>3, <2>5, <2>6, <2>7, <3>2 DEF Progress
  <2>9. p.ext \in ExtIds /\ pub[h] # None /\ p.ext = pub[h].ext
    BY <2>1, <2>3, <2>6 DEF x
  <2> QED
    BY <2>1, <2>6, <2>7, <2>8, <2>9, PublicationGoesOn
<1> QED
  BY <1>2, <1>4, <1>5, <1>6, <1>7

LEMMA StepLaunches ==
  LaunchesAssumption /\ LaunchesIInv /\ [LaunchesStep \/ LaunchesFault]_launchVars => LaunchesIInv'
<1> SUFFICES ASSUME LaunchesAssumption, LaunchesIInv, [LaunchesStep \/ LaunchesFault]_launchVars
             PROVE LaunchesIInv'
  OBVIOUS
<1>1. CASE UNCHANGED launchVars
  BY <1>1 DEF launchVars, LaunchesIInv, LaunchesTypeOK, TasksOpen, HeldByMalformed, OwnCampaigns, Progress, AdsToSend,
              ReportedDraftsAreWhole, PublishedIsWhole
<1> QED
  BY <1>1, MagicSteps, LaunchSteps, PublicationSteps, PublicationCommits, PublicationEnds
     DEF LaunchesStep, LaunchesFault

\* The strengthened invariant holds in every reachable state.
THEOREM LaunchesInductive == LaunchesSpec => []LaunchesIInv
<1>1. LaunchesInit => LaunchesIInv
  BY InitLaunches, LaunchesAssumption
<1>2. LaunchesIInv /\ [LaunchesStep \/ LaunchesFault]_launchVars => LaunchesIInv'
  BY StepLaunches, LaunchesAssumption
<1> QED
  BY <1>1, <1>2, PTL DEF LaunchesSpec

\* Runs, drafts, launches and publications keep their types; no campaign is
\* offered more ads than there may be.
THEOREM LaunchesTypeCorrect == LaunchesSpec => []LaunchesTypeOK
<1>1. LaunchesIInv => LaunchesTypeOK
  BY DEF LaunchesIInv
<1> QED
  BY <1>1, LaunchesInductive, PTL

\* Whatever fails, is lost or runs at the same time, what is reported as made
\* is whole, and a published draft names a campaign that was offered all its
\* ads that fit (process_run, launch_campaign, publish_*).
THEOREM LaunchesWhole == LaunchesSpec => []LaunchesAreWhole
<1>1. LaunchesIInv => LaunchesAreWhole
  BY DEF LaunchesIInv, LaunchesAreWhole
<1> QED
  BY <1>1, LaunchesInductive, PTL
=============================================================================
