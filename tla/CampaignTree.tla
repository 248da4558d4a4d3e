---------------------------- MODULE CampaignTree ----------------------------
(***************************************************************************)
(* Campaigns, their ad groups and their ads (api/campaigns.py and          *)
(* services/campaign_service.py), and the builder's (api/builder.py), two  *)
(* trees of the same shape in tables of their own.  A request reads a row, *)
(* and commits what it changes later; nothing is locked.  The foreign keys *)
(* refuse a row whose parent is gone and delete a row with its parent.     *)
(* A campaign's log is written in the commit of the change, the builder's  *)
(* in a second commit, except for what is deleted.                         *)
(***************************************************************************)
EXTENDS Deployment, FiniteSets

CONSTANTS
  Tops, Groups, Ads,  \* the rows that may be created
  TreeUsers,          \* requests at the same time
  Statuses            \* bound: the statuses that requests set

CampaignStatus == {"draft", "active", "paused", "archived"}

\* What publish_campaign, pause_campaign and archive_campaign set and log.
Cascades == [active |-> "published", paused |-> "paused", archived |-> "archived"]

Nodes == Tops \cup Groups \cup Ads

ParentsOf(n) == IF n \in Groups THEN Tops ELSE IF n \in Ads THEN Groups ELSE {None}

\* "gone" is a row that was deleted: ids are not used again.
TreeRow == [parent : Nodes \cup {None}, status : CampaignStatus \cup {"gone"}]

TreeRequest ==
  [op : {"insert", "update", "find", "cascade", "delete", "audit"},
   node : Nodes \cup {None}, to : CampaignStatus \cup {None},
   what : {"created", "updated", "none"},
   saw : [Nodes -> CampaignStatus \cup {None}]]

ASSUME CampaignTreeAssumption ==
  /\ Statuses \subseteq CampaignStatus
  /\ Tops \cap Groups = {} /\ (Tops \cup Groups) \cap Ads = {}  \* tables of their own
  /\ None \notin Nodes \cup CampaignStatus \cup TreeRow \cup TreeRequest

VARIABLES
  tables,   \* whose tables they are: the campaigns' or the builder's
  row,      \* campaigns, ad_groups, ads, or builder_*
  treeLog,  \* campaign_events, or org_audit_events
  treeReq   \* what a request read and is about to commit

treeVars == <<tables, row, treeLog, treeReq>>

TreeInit ==
  /\ tables \in {"campaigns", "builder"}
  /\ row = [n \in Nodes |-> None]
  /\ treeLog = {}
  /\ treeReq = [h \in TreeUsers |-> None]

Live(n) == row[n] # None /\ row[n].status # "gone"

Unread == [n \in Nodes |-> None]

\* A row, and the rows its foreign keys lead to.
Line(n) == LET up == row[n].parent
           IN  ({n} \cup IF up = None THEN {} ELSE {up, row[up].parent}) \ {None}

\* Mutant of Under: the children are left.
UnderAlone(n) == {n}

Under(n) == {m \in Nodes : row[m] # None /\ n \in Line(m)}

\* _log_event and log_audit.
Logged(n, what) == treeLog' = treeLog \cup {[node |-> n, what |-> what]}

\* The builder commits the change and then its log.
FinishChange(h, n, what) ==
  IF tables = "campaigns"
    THEN Logged(n, what) /\ treeReq' = [treeReq EXCEPT ![h] = None]
    ELSE /\ treeReq' = [treeReq EXCEPT ![h] =
              [op |-> "audit", node |-> n, to |-> None, what |-> what, saw |-> Unread]]
         /\ UNCHANGED treeLog

FailChange(h) ==
  /\ treeReq' = [treeReq EXCEPT ![h] = None]
  /\ UNCHANGED <<row, treeLog>>

-----------------------------------------------------------------------------
(* The row of the URL is found in the organization. *)

Find(h, op, n, to) ==
  /\ treeReq[h] = None
  /\ n # None => Live(n)
  /\ treeReq' = [treeReq EXCEPT ![h] = [op |-> op, node |-> n, to |-> to, what |-> "none",
       saw |-> [m \in Nodes |->
         IF m = n /\ op \in {"update", "find"} THEN row[m].status ELSE None]]]
  /\ UNCHANGED <<tables, row, treeLog>>

\* Creation: of a campaign, or under a row that was found.
InsertRow(h) ==
  LET r == treeReq[h] IN
    /\ r # None /\ r.op = "insert"
    /\ UNCHANGED tables
    /\ IF r.node # None /\ ~Live(r.node)
         THEN FailChange(h)
         ELSE \E n \in Nodes :
                /\ r.node \in ParentsOf(n)
                /\ row[n] = None
                /\ row' = [row EXCEPT ![n] = [parent |-> r.node, status |-> r.to]]
                /\ FinishChange(h, n, "created")

\* cascade_campaign_status reads the groups and the ads after the campaign.
Gather(h) ==
  /\ treeReq[h] # None /\ treeReq[h].op = "find"
  /\ treeReq' = [treeReq EXCEPT ![h].op = "cascade", ![h].saw =
       [m \in Nodes |-> IF m = treeReq[h].node THEN treeReq[h].saw[m]
                        ELSE IF m \in Under(treeReq[h].node) /\ Live(m) THEN row[m].status
                        ELSE None]]
  /\ UNCHANGED <<tables, row, treeLog>>

\* A row is written if its status is not the one that was read, or if another
\* column changes (None); one that is gone fails the commit.
Write(h, what) ==
  LET r       == treeReq[h]
      written == {m \in Nodes : r.saw[m] \notin {None, r.to}}
  IN
    /\ UNCHANGED tables
    /\ IF \E m \in written : ~Live(m)
         THEN FailChange(h)
         ELSE /\ row' = [m \in Nodes |->
                   IF m \in written /\ r.to # None THEN [row[m] EXCEPT !.status = r.to] ELSE row[m]]
              /\ FinishChange(h, r.node, what)

Update(h) ==
  /\ treeReq[h] # None /\ treeReq[h].op = "update"
  /\ Write(h, "updated")

Cascade(h) ==
  /\ treeReq[h] # None /\ treeReq[h].op = "cascade"
  /\ Write(h, Cascades[treeReq[h].to])

\* What came under the row since it was read goes with it.
Delete(h) ==
  LET r == treeReq[h] IN
    /\ r # None /\ r.op = "delete"
    /\ row' = [m \in Nodes |->
         IF m \in Under(r.node) THEN [row[m] EXCEPT !.status = "gone"] ELSE row[m]]
    /\ Logged(r.node, "deleted")
    /\ treeReq' = [treeReq EXCEPT ![h] = None]
    /\ UNCHANGED tables

\* The builder reads its row again, and writes the log if it is there.
Audit(h) ==
  /\ treeReq[h] # None /\ treeReq[h].op = "audit"
  /\ IF Live(treeReq[h].node)
       THEN Logged(treeReq[h].node, treeReq[h].what) /\ treeReq' = [treeReq EXCEPT ![h] = None]
       ELSE treeReq' = [treeReq EXCEPT ![h] = None] /\ UNCHANGED treeLog
  /\ UNCHANGED <<tables, row>>

\* The process is lost between two steps of a request.
Abandon(h) ==
  /\ treeReq[h] # None
  /\ FailChange(h)
  /\ UNCHANGED tables

-----------------------------------------------------------------------------
(* The routers. *)

\* A row is created under one of ups, or one of ns is changed or deleted.
Requests(h, ups, ns) ==
  \/ \E n \in ups, s \in Statuses : Find(h, "insert", n, s)
  \/ \E n \in ns, s \in Statuses \cup {None} : Find(h, "update", n, s)
  \/ \E n \in ns : Find(h, "delete", n, None)

CampaignRequests(h) == tables = "campaigns" /\ Requests(h, {None}, Tops)

CascadeRequests(h) ==
  /\ tables = "campaigns"
  /\ \E t \in Tops, s \in Statuses \cap DOMAIN Cascades : Find(h, "find", t, s)

AdGroupRequests(h) == tables = "campaigns" /\ Requests(h, Tops, Groups)

AdRequests(h) == tables = "campaigns" /\ Requests(h, Groups, Ads)

BuilderCampaigns(h) == tables = "builder" /\ Requests(h, {None}, Tops)

BuilderAdGroups(h) == tables = "builder" /\ Requests(h, Tops, Groups)

BuilderAds(h) == tables = "builder" /\ Requests(h, Groups, Ads)

TreeStep ==
  \E h \in TreeUsers :
    \/ CampaignRequests(h) \/ CascadeRequests(h) \/ AdGroupRequests(h) \/ AdRequests(h)
    \/ BuilderCampaigns(h) \/ BuilderAdGroups(h) \/ BuilderAds(h)
    \/ InsertRow(h) \/ Update(h) \/ Gather(h) \/ Cascade(h) \/ Delete(h) \/ Audit(h)

TreeFault == \E h \in TreeUsers : Abandon(h)

TreeSpec == TreeInit /\ [][TreeStep \/ TreeFault]_treeVars

-----------------------------------------------------------------------------
(* What the screens show *)

\* Of all statuses, or of one.
ListCampaigns(s) == {t \in Tops : Live(t) /\ (s = None \/ row[t].status = s)}

ListAdGroups(t) == {g \in Groups : Live(g) /\ row[g].parent = t}

\* Of the ad groups in gs.
ListAds(gs) == {k \in Ads : Live(k) /\ row[k].parent \in gs}

BuildTree(t) == [g \in ListAdGroups(t) |-> ListAds({g})]

\* A join counts the ads of a campaign.
AdsCount(t) == Cardinality({k \in Ads : Live(k) /\ row[row[k].parent].parent = t})

-----------------------------------------------------------------------------
(* Properties *)

TreeTypeOK ==
  /\ tables \in {"campaigns", "builder"}
  /\ row \in [Nodes -> TreeRow \cup {None}]
  /\ treeLog \subseteq [node : Nodes, what : {"created", "updated", "deleted"}
                                           \cup {Cascades[s] : s \in DOMAIN Cascades}]
  /\ treeReq \in [TreeUsers -> TreeRequest \cup {None}]

\* The log accounts for the tree, whatever requests overlap and are lost: a row
\* is there exactly while neither its deletion nor that of a row above it was
\* logged, and every campaign, group and ad there ever was has been logged.
\* What is there is shown: the trees of the campaigns that are listed hold
\* every group and every ad, as many as the summaries count.
LogAccountsForTree ==
  /\ \A n \in Nodes : row[n] # None =>
       /\ Live(n) <=> \A m \in Line(n) : [node |-> m, what |-> "deleted"] \notin treeLog
       /\ tables = "campaigns" => [node |-> n, what |-> "created"] \in treeLog
  /\ \A n \in Groups \cup Ads : Live(n) =>
       \E t \in ListCampaigns(None) :
         n \in DOMAIN BuildTree(t) \/ \E g \in DOMAIN BuildTree(t) : n \in BuildTree(t)[g]
  /\ \A t \in ListCampaigns(None) :
       AdsCount(t) = Cardinality(UNION {BuildTree(t)[g] : g \in DOMAIN BuildTree(t)})
=============================================================================
