-------------------------- MODULE OrgMembersProofs --------------------------
(***************************************************************************)
(* Proofs about OrgMembers, for every number of users, organizations,      *)
(* invites and concurrent requests.                                        *)
(***************************************************************************)
EXTENDS OrgMembers, FiniteSetTheorems, TLAPS

-----------------------------------------------------------------------------
(* The inductive invariant, in named parts *)

\* Invites and members are of organizations that were created.
Founded ==
  /\ \A o \in Orgs, u \in Users : members[o][u] # None => founder[o] # None
  /\ \A v \in InviteIds : invites[v] # None => founder[invites[v].org] # None

OfMembers == {"lookup", "count", "write"}
OfInvites == {"invite", "revoke", "resend", "token", "expire", "member", "join"}

\* The parameters a request has at each of its steps.
Parameters(h) ==
  /\ pc[h] # "idle" => req[h].user \in Users
  /\ pc[h] \notin {"idle", "switch"} => req[h].org \in Orgs
  /\ req[h].org # None => founder[req[h].org] # None
  /\ pc[h] \in OfMembers \cup {"email", "pending", "insert"} => req[h].target \in Users
  /\ pc[h] \in OfMembers => req[h].op \in {"update", "remove", "leave"}
  /\ pc[h] = "invite" => req[h].op \in {"revoke", "resend"}
  /\ pc[h] \in {"email", "pending", "insert", "member", "join"} => req[h].role \in Roles
  /\ req[h].op = "update" => req[h].role \in Roles /\ req[h].mine = "owner"
  /\ pc[h] \in {"count", "write"} => req[h].seen \in Roles
  /\ pc[h] = "mark" => \A v \in req[h].due : invites[v] # None
  /\ pc[h] \in OfInvites => /\ req[h].inv \in InviteIds
                            /\ invites[req[h].inv] # None
                            /\ invites[req[h].inv].org = req[h].org

\* The membership a request works on exists, unless it knows that it is gone.
Found(h) ==
  /\ pc[h] \in {"count", "write"} /\ ~req[h].gone =>
       members[req[h].org][req[h].target] # None
  /\ pc[h] = "lookup" /\ req[h].target = req[h].user /\ ~req[h].gone =>
       members[req[h].org][req[h].user] # None

\* A user who is about to get an organization is entitled to it, or holds an
\* invite to his address.
Backed(h) ==
  /\ pc[h] = "found" => founder[req[h].org] = req[h].user
  /\ pc[h] = "switch" /\ req[h].org # None => Entitled(req[h].user, req[h].org)
  /\ pc[h] \in {"member", "join"} => invites[req[h].inv].email = req[h].user

Linked(h) == Parameters(h) /\ Found(h) /\ Backed(h)

IInv ==
  /\ TypeOK
  /\ Founded
  /\ TenantsApart
  /\ \A h \in Handlers : Linked(h)

\* What no step takes back.
Grows ==
  /\ \A o \in Orgs : founder[o] # None => founder'[o] = founder[o]
  /\ \A v \in InviteIds : invites[v] # None =>
       /\ invites'[v] # None
       /\ invites'[v].org = invites[v].org
       /\ invites'[v].email = invites[v].email
       /\ invites[v].accepted => invites'[v].accepted

-----------------------------------------------------------------------------
(* What every step keeps *)

\* A step that replaces one invite by one for the same user and organization.
LEMMA InviteKept ==
  ASSUME TypeOK, founder' = founder,
         NEW i \in InviteIds, invites[i] \in Invite,
         NEW n \in Invite, n.org = invites[i].org, n.email = invites[i].email,
         invites[i].accepted => n.accepted, invites' = [invites EXCEPT ![i] = n]
  PROVE  Grows
<1>1. ASSUME NEW v \in InviteIds, invites[v] # None
      PROVE  /\ invites'[v] # None
             /\ invites'[v].org = invites[v].org
             /\ invites'[v].email = invites[v].email
             /\ invites[v].accepted => invites'[v].accepted
  <2>1. CASE v = i
    <3>1. invites'[v] = n
      BY <2>1 DEF TypeOK
    <3>. QED  BY <3>1, <2>1, OrgMembersAssumption
  <2>2. CASE v # i
    <3>1. invites'[v] = invites[v]
      BY <2>2 DEF TypeOK
    <3>. QED  BY <3>1, <1>1
  <2>. QED  BY <2>1, <2>2
<1>. QED  BY <1>1 DEF Grows

\* Organizations and invites stay, and so does what was accepted.
LEMMA StepGrows ==
  ASSUME IInv, Next
  PROVE  Grows
<1>. USE OrgMembersAssumption
<1>1. ASSUME NEW u \in Users, NEW o \in Orgs, Register(u, o)
      PROVE  Grows
  BY <1>1 DEF Register, Grows, IInv, TypeOK
<1>2. ASSUME NEW v \in InviteIds, Expire(v)
      PROVE  Grows
  BY <1>2 DEF Expire, Grows, Invite, IInv, TypeOK
<1>3. ASSUME NEW h \in Handlers, NEW u \in Users, NEW o \in Orgs, CreateOrg(h, u, o)
      PROVE  Grows
  BY <1>3 DEF CreateOrg, Grows, IInv, TypeOK
<1>4. ASSUME NEW h \in Handlers, NEW u \in Users, NEW o \in Orgs, Switch(h, u, o)
      PROVE  Grows
  BY <1>4 DEF Switch, Grows, tables
<1>5. ASSUME NEW h \in Handlers, NEW u \in Users, NEW o \in Orgs, Leave(h, u, o)
      PROVE  Grows
  BY <1>5 DEF Leave, Grows, tables
<1>6. ASSUME NEW h \in Handlers, NEW u \in Users, NEW o \in Orgs, ListInvites(h, u, o)
      PROVE  Grows
  BY <1>6 DEF ListInvites, Grows, tables
<1>7. ASSUME NEW h \in Handlers, NEW u \in Users, NEW o \in Orgs, NEW t \in Users, RemoveMember(h, u, o, t)
      PROVE  Grows
  BY <1>7 DEF RemoveMember, Grows, tables
<1>8. ASSUME NEW h \in Handlers, NEW u \in Users, NEW o \in Orgs, NEW t \in Users, NEW r \in AskedRoles, UpdateRole(h, u, o, t, r)
      PROVE  Grows
  BY <1>8 DEF UpdateRole, Grows, tables
<1>9. ASSUME NEW h \in Handlers, NEW u \in Users, NEW o \in Orgs, NEW t \in Users, NEW r \in AskedRoles, InviteUser(h, u, o, t, r)
      PROVE  Grows
  BY <1>9 DEF InviteUser, Grows, tables
<1>10. ASSUME NEW h \in Handlers, NEW u \in Users, NEW v \in InviteIds, AcceptInvite(h, u, v)
      PROVE  Grows
  BY <1>10 DEF AcceptInvite, Grows, tables
<1>11. ASSUME NEW h \in Handlers, NEW u \in Users, NEW v \in InviteIds, RegisterWithInvite(h, u, v)
      PROVE  Grows
  BY <1>11 DEF RegisterWithInvite, Grows, tables
<1>12. ASSUME NEW h \in Handlers, NEW u \in Users, NEW v \in InviteIds, NEW op \in {"revoke", "resend"}, ManageInvite(h, u, v, op)
      PROVE  Grows
  BY <1>12 DEF ManageInvite, Grows, tables
<1>13. ASSUME NEW h \in Handlers, AddFounder(h)
      PROVE  Grows
  BY <1>13 DEF AddFounder, Grows, tables
<1>14. ASSUME NEW h \in Handlers, SetActive(h)
      PROVE  Grows
  BY <1>14 DEF SetActive, Grows, tables
<1>15. ASSUME NEW h \in Handlers, LookUpMember(h)
      PROVE  Grows
  BY <1>15 DEF LookUpMember, Grows, tables
<1>16. ASSUME NEW h \in Handlers, CountOwners(h)
      PROVE  Grows
  BY <1>16 DEF CountOwners, Grows, tables
<1>17. ASSUME NEW h \in Handlers, WriteRole(h)
      PROVE  Grows
  BY <1>17 DEF WriteRole, Grows, tables
<1>18. ASSUME NEW h \in Handlers, DeleteMember(h)
      PROVE  Grows
  BY <1>18 DEF DeleteMember, Grows, tables
<1>19. ASSUME NEW h \in Handlers, MoveOn(h)
      PROVE  Grows
  BY <1>19 DEF MoveOn, Grows, tables
<1>20. ASSUME NEW h \in Handlers, CheckNotMember(h)
      PROVE  Grows
  BY <1>20 DEF CheckNotMember, Grows, tables
<1>21. ASSUME NEW h \in Handlers, CheckNotInvited(h)
      PROVE  Grows
  BY <1>21 DEF CheckNotInvited, Grows, tables
<1>22. ASSUME NEW h \in Handlers, InsertInvite(h)
      PROVE  Grows
  BY <1>22 DEF InsertInvite, Grows, IInv, TypeOK
<1>23. ASSUME NEW h \in Handlers, MarkExpired(h)
      PROVE  Grows
  <2>1. ASSUME NEW v \in InviteIds, invites[v] # None
        PROVE  /\ invites'[v] # None
               /\ invites'[v].org = invites[v].org
               /\ invites'[v].email = invites[v].email
               /\ invites[v].accepted => invites'[v].accepted
    <3>. DEFINE n == [invites[v] EXCEPT !.status = "expired"]
    <3>1. n \in Invite /\ n.org = invites[v].org /\ n.email = invites[v].email
          /\ n.accepted = invites[v].accepted
      BY <2>1 DEF Invite, Statuses, IInv, TypeOK
    <3>2. invites'[v] \in {n, invites[v]}
      BY <1>23, <2>1 DEF MarkExpired
    <3>. HIDE DEF n
    <3>. QED  BY <2>1, <3>1, <3>2
  <2>. QED  BY <2>1, <1>23 DEF MarkExpired, Grows
<1>24. ASSUME NEW h \in Handlers, LookUpInvite(h)
      PROVE  Grows
  BY <1>24 DEF LookUpInvite, Grows, tables
<1>25. ASSUME NEW h \in Handlers, RevokeInvite(h)
      PROVE  Grows
  <2>1. PICK i \in InviteIds : i = req[h].inv /\ invites[i] \in Invite
    BY <1>25 DEF RevokeInvite, Linked, Parameters, OfInvites, IInv, TypeOK
  <2>2. PICK n \in Invite :
          /\ n.org = invites[i].org /\ n.email = invites[i].email
          /\ invites[i].accepted => n.accepted
          /\ invites' = [invites EXCEPT ![i] = n]
    <3>. DEFINE n == [invites[i] EXCEPT !.status = "revoked", !.revoked = TRUE]
    <3>1. n \in Invite /\ n.org = invites[i].org /\ n.email = invites[i].email
          /\ (invites[i].accepted => n.accepted)
      BY <2>1 DEF Invite, Statuses
    <3>2. invites' = [invites EXCEPT ![i] = n]
      BY <1>25, <2>1 DEF RevokeInvite
    <3>. QED  BY <3>1, <3>2
  <2>3. founder' = founder
    BY <1>25 DEF RevokeInvite
  <2>4. TypeOK
    BY DEF IInv
  <2>. QED  BY <2>1, <2>2, <2>3, <2>4, InviteKept
<1>26. ASSUME NEW h \in Handlers, ResendInvite(h)
      PROVE  Grows
  <2>1. PICK i \in InviteIds : i = req[h].inv /\ invites[i] \in Invite
    BY <1>26 DEF ResendInvite, Linked, Parameters, OfInvites, IInv, TypeOK
  <2>2. PICK n \in Invite :
          /\ n.org = invites[i].org /\ n.email = invites[i].email
          /\ invites[i].accepted => n.accepted
          /\ invites' = [invites EXCEPT ![i] = n]
    <3>. DEFINE n == [invites[i] EXCEPT !.expired = FALSE, !.status = IF req[h].saw = "pending" THEN invites[i].status ELSE "pending"]
    <3>1. n \in Invite /\ n.org = invites[i].org /\ n.email = invites[i].email
          /\ (invites[i].accepted => n.accepted)
      BY <2>1 DEF Invite, Statuses
    <3>2. invites' = [invites EXCEPT ![i] = n]
      BY <1>26, <2>1 DEF ResendInvite
    <3>. QED  BY <3>1, <3>2
  <2>3. founder' = founder
    BY <1>26 DEF ResendInvite
  <2>4. TypeOK
    BY DEF IInv
  <2>. QED  BY <2>1, <2>2, <2>3, <2>4, InviteKept
<1>27. ASSUME NEW h \in Handlers, FailResend(h)
      PROVE  Grows
  BY <1>27 DEF FailResend, Grows, tables
<1>28. ASSUME NEW h \in Handlers, ReadInvite(h)
      PROVE  Grows
  BY <1>28 DEF ReadInvite, Grows, tables
<1>29. ASSUME NEW h \in Handlers, ExpireInvite(h)
      PROVE  Grows
  <2>1. PICK i \in InviteIds : i = req[h].inv /\ invites[i] \in Invite
    BY <1>29 DEF ExpireInvite, Linked, Parameters, OfInvites, IInv, TypeOK
  <2>2. PICK n \in Invite :
          /\ n.org = invites[i].org /\ n.email = invites[i].email
          /\ invites[i].accepted => n.accepted
          /\ invites' = [invites EXCEPT ![i] = n]
    <3>. DEFINE n == [invites[i] EXCEPT !.status = IF req[h].saw = "expired" THEN invites[i].status ELSE "expired"]
    <3>1. n \in Invite /\ n.org = invites[i].org /\ n.email = invites[i].email
          /\ (invites[i].accepted => n.accepted)
      BY <2>1 DEF Invite, Statuses
    <3>2. invites' = [invites EXCEPT ![i] = n]
      BY <1>29, <2>1 DEF ExpireInvite
    <3>. QED  BY <3>1, <3>2
  <2>3. founder' = founder
    BY <1>29 DEF ExpireInvite
  <2>4. TypeOK
    BY DEF IInv
  <2>. QED  BY <2>1, <2>2, <2>3, <2>4, InviteKept
<1>30. ASSUME NEW h \in Handlers, ReadMembership(h)
      PROVE  Grows
  BY <1>30 DEF ReadMembership, Grows, tables
<1>31. ASSUME NEW h \in Handlers, Join(h)
      PROVE  Grows
  <2>1. CASE invites' = invites
    BY <2>1, <1>31 DEF Join, Grows, IInv, TypeOK
  <2>2. CASE invites' = [invites EXCEPT ![req[h].inv].status = "accepted", ![req[h].inv].accepted = TRUE]
    <3>1. PICK i \in InviteIds : i = req[h].inv /\ invites[i] \in Invite
      BY <1>31 DEF Join, Linked, Parameters, OfInvites, IInv, TypeOK
    <3>. DEFINE n == [invites[i] EXCEPT !.status = "accepted", !.accepted = TRUE]
    <3>2. n \in Invite /\ n.org = invites[i].org /\ n.email = invites[i].email /\ n.accepted
      BY <3>1 DEF Invite, Statuses, IInv, TypeOK
    <3>3. invites' = [invites EXCEPT ![i] = n]
      BY <2>2, <3>1
    <3>. HIDE DEF n
    <3>. QED  BY <3>1, <3>2, <3>3, <1>31 DEF Join, Grows, IInv, TypeOK
  <2>. QED  BY <2>1, <2>2, <1>31 DEF Join
<1>32. ASSUME NEW h \in Handlers, Crash(h)
      PROVE  Grows
  BY <1>32 DEF Crash, Grows, tables
<1>q. QED
  BY <1>1, <1>2, <1>3, <1>4, <1>5, <1>6, <1>7, <1>8, <1>9, <1>10, <1>11, <1>12, <1>13, <1>14, <1>15, <1>16, <1>17, <1>18, <1>19, <1>20, <1>21, <1>22, <1>23, <1>24, <1>25, <1>26, <1>27, <1>28, <1>29, <1>30, <1>31, <1>32 DEF Next, Start, MemberStep, InviteStep

\* So who is entitled to an organization stays so.
LEMMA EntitledKept ==
  ASSUME TypeOK, Grows, NEW u \in Users, NEW o \in Orgs, Entitled(u, o)
  PROVE  Entitled(u, o)'
<1>1. CASE founder[o] = u
  BY <1>1, OrgMembersAssumption DEF Grows, Entitled
<1>2. CASE founder[o] # u
  <2>1. PICK v \in InviteIds : /\ invites[v] # None
                               /\ invites[v].org = o
                               /\ invites[v].email = u
                               /\ invites[v].accepted
    BY <1>2 DEF Entitled
  <2>. QED  BY <2>1 DEF Grows, Entitled
<1>. QED  BY <1>1, <1>2

-----------------------------------------------------------------------------
(* Types *)

TablesOK ==
  /\ registered \in SUBSET Users
  /\ founder \in [Orgs -> Users \cup {None}]
  /\ members \in [Orgs -> [Users -> Roles \cup {None}]]
  /\ active \in [Users -> Orgs \cup {None}]
  /\ invites \in [InviteIds -> Invite \cup {None}]

RequestsOK == pc \in [Handlers -> Steps] /\ req \in [Handlers -> Request]

\* A request at the step it goes on to, with what it has read.
LEMMA GoesOn ==
  ASSUME RequestsOK, NEW h \in Handlers, NEW s \in Steps, NEW r \in Request,
         pc' = [pc EXCEPT ![h] = s], req' = req \/ req' = [req EXCEPT ![h] = r]
  PROVE  RequestsOK'
BY DEF RequestsOK

LEMMA Ends ==
  ASSUME RequestsOK, NEW h \in Handlers, End(h)
  PROVE  RequestsOK'
<1>1. NoRequest \in Request
  BY DEF NoRequest, Request, Ops
<1>. QED  BY <1>1, GoesOn DEF End, Steps

LEMMA TablesSame ==
  ASSUME TablesOK, UNCHANGED tables
  PROVE  TablesOK'
BY DEF TablesOK, tables

\* The requests that start.
LEMMA NewRequests ==
  ASSUME NEW u \in Users, NEW o \in Orgs
  PROVE  /\ [NoRequest EXCEPT !.user = u, !.org = o] \in Request
         /\ \A a \in Orgs \cup {None} :
              [NoRequest EXCEPT !.user = u, !.org = o, !.act = a] \in Request
         /\ \A t \in Users, r \in Roles, m \in Roles \cup {None} :
              [NoRequest EXCEPT !.op = "update", !.user = u, !.org = o, !.target = t,
                 !.role = r, !.mine = m] \in Request
         /\ \A t \in Users, m \in Roles \cup {None} :
              [NoRequest EXCEPT !.op = "remove", !.user = u, !.org = o, !.target = t,
                 !.mine = m] \in Request
         /\ \A m \in Roles \cup {None} :
              [NoRequest EXCEPT !.op = "leave", !.user = u, !.org = o, !.target = u,
                 !.seen = m] \in Request
         /\ \A t \in Users, r \in Roles :
              [NoRequest EXCEPT !.op = "invite", !.user = u, !.org = o, !.target = t,
                 !.role = r] \in Request
         /\ \A d \in SUBSET InviteIds :
              [NoRequest EXCEPT !.user = u, !.org = o, !.due = d] \in Request
         /\ \A v \in InviteIds, op \in {"revoke", "resend", "register"} :
              [NoRequest EXCEPT !.op = op, !.user = u, !.org = o, !.inv = v] \in Request
         /\ \A v \in InviteIds, a \in Orgs \cup {None} :
              [NoRequest EXCEPT !.op = "accept", !.user = u, !.org = o, !.inv = v,
                 !.act = a] \in Request
BY DEF NoRequest, Request, Ops

\* What a request reads.
LEMMA ReadRequests ==
  ASSUME NEW q \in Request
  PROVE  /\ \A m \in Roles \cup {None} : [q EXCEPT !.seen = m] \in Request
         /\ \A i \in Statuses : [q EXCEPT !.saw = i] \in Request
         /\ \A i \in Statuses, r \in Roles, a \in Orgs \cup {None} :
              [q EXCEPT !.saw = i, !.role = r, !.act = a] \in Request
         /\ \A o \in Orgs \cup {None}, a \in Orgs : [q EXCEPT !.act = a, !.org = o] \in Request
         /\ \A b \in BOOLEAN : [q EXCEPT !.gone = b] \in Request
<1>1. \A m \in Roles \cup {None} : [q EXCEPT !.seen = m] \in Request
  BY DEF Request
<1>2. \A i \in Statuses : [q EXCEPT !.saw = i] \in Request
  BY DEF Request
<1>3. \A i \in Statuses, r \in Roles, a \in Orgs \cup {None} :
        [q EXCEPT !.saw = i, !.role = r, !.act = a] \in Request
  BY DEF Request
<1>4. \A o \in Orgs \cup {None}, a \in Orgs : [q EXCEPT !.act = a, !.org = o] \in Request
  BY DEF Request
<1>5. \A b \in BOOLEAN : [q EXCEPT !.gone = b] \in Request
  BY DEF Request
<1>. QED  BY <1>1, <1>2, <1>3, <1>4, <1>5

LEMMA RequestFields ==
  ASSUME NEW q \in Request
  PROVE  /\ q.user \in Users \cup {None} /\ q.org \in Orgs \cup {None}
         /\ q.target \in Users \cup {None} /\ q.role \in Roles \cup {None}
         /\ q.mine \in Roles \cup {None} /\ q.seen \in Roles \cup {None}
         /\ q.act \in Orgs \cup {None} /\ q.inv \in InviteIds \cup {None}
         /\ q.due \in SUBSET InviteIds /\ q.gone \in BOOLEAN
BY DEF Request

LEMMA InviteFields ==
  ASSUME TablesOK, NEW v \in InviteIds, invites[v] # None
  PROVE  /\ invites[v] \in Invite
         /\ invites[v].org \in Orgs /\ invites[v].email \in Users
         /\ invites[v].role \in Roles /\ invites[v].status \in Statuses
         /\ \A s \in Statuses : /\ [invites[v] EXCEPT !.status = s] \in Invite
                                /\ [invites[v] EXCEPT !.status = s, !.revoked = TRUE] \in Invite
                                /\ [invites[v] EXCEPT !.status = s, !.accepted = TRUE] \in Invite
                                /\ [invites[v] EXCEPT !.expired = FALSE, !.status = s] \in Invite
         /\ [invites[v] EXCEPT !.expired = TRUE] \in Invite
<1>1. invites[v] \in Invite
  BY DEF TablesOK
<1>. QED  BY <1>1 DEF Invite

\* Every variable keeps its type: a request that starts ...
LEMMA StartTypes ==
  ASSUME IInv, NEW h \in Handlers, NEW u \in Users, Start(h, u)
  PROVE  TypeOK'
<1>. USE OrgMembersAssumption, GoesOn
<1>1. TablesOK /\ RequestsOK
  BY DEF IInv, TypeOK, TablesOK, RequestsOK
<1>2. Roles # {} /\ "owner" \in Roles /\ AskedRoles \subseteq Roles
  BY DEF Roles
<1>3. \A o \in Orgs : members[o][u] \in Roles \cup {None} /\ active[u] \in Orgs \cup {None}
  BY <1>1 DEF TablesOK
<1>4. \A v \in InviteIds : invites[v] # None => invites[v].org \in Orgs
  BY <1>1, InviteFields
<1>5. ASSUME NEW o \in Orgs, CreateOrg(h, u, o)
      PROVE  TablesOK' /\ RequestsOK'
  <2>1. RequestsOK'
    BY <1>1, <1>5, NewRequests DEF CreateOrg, Begin, Steps
  <2>. QED  BY <1>1, <1>5, <2>1 DEF CreateOrg, TablesOK
<1>6. ASSUME NEW o \in Orgs, Switch(h, u, o)
      PROVE  TablesOK' /\ RequestsOK'
  <2>1. RequestsOK'
    BY <1>1, <1>3, <1>6, NewRequests DEF Switch, Begin, Steps
  <2>. QED  BY <1>1, <1>6, <2>1 DEF Switch, TablesOK, tables
<1>7. ASSUME NEW o \in Orgs, Leave(h, u, o)
      PROVE  TablesOK' /\ RequestsOK'
  <2>1. RequestsOK'
    BY <1>1, <1>3, <1>7, NewRequests DEF Leave, Begin, Steps
  <2>. QED  BY <1>1, <1>7, <2>1 DEF Leave, TablesOK, tables
<1>8. ASSUME NEW o \in Orgs, ListInvites(h, u, o)
      PROVE  TablesOK' /\ RequestsOK'
  <2>1. RequestsOK'
    BY <1>1, <1>8, NewRequests, ZenonT(60) DEF ListInvites, Begin, Steps
  <2>. QED  BY <1>1, <1>8, <2>1 DEF ListInvites, TablesOK, tables
<1>9. ASSUME NEW o \in Orgs, NEW t \in Users, RemoveMember(h, u, o, t)
      PROVE  TablesOK' /\ RequestsOK'
  <2>1. RequestsOK'
    BY <1>1, <1>3, <1>9, NewRequests DEF RemoveMember, Begin, Steps
  <2>. QED  BY <1>1, <1>9, <2>1 DEF RemoveMember, TablesOK, tables
<1>10. ASSUME NEW o \in Orgs, NEW t \in Users, NEW r \in AskedRoles, UpdateRole(h, u, o, t, r)
       PROVE  TablesOK' /\ RequestsOK'
  <2>1. RequestsOK'
    BY <1>1, <1>2, <1>3, <1>10, NewRequests DEF UpdateRole, Begin, Steps
  <2>. QED  BY <1>1, <1>10, <2>1 DEF UpdateRole, TablesOK, tables
<1>11. ASSUME NEW o \in Orgs, NEW t \in Users, NEW r \in AskedRoles, InviteUser(h, u, o, t, r)
       PROVE  TablesOK' /\ RequestsOK'
  <2>1. RequestsOK'
    BY <1>1, <1>2, <1>11, NewRequests DEF InviteUser, Begin, Steps
  <2>. QED  BY <1>1, <1>11, <2>1 DEF InviteUser, TablesOK, tables
<1>12. ASSUME NEW v \in InviteIds, AcceptInvite(h, u, v)
       PROVE  TablesOK' /\ RequestsOK'
  <2>1. RequestsOK'
    BY <1>1, <1>3, <1>4, <1>12, NewRequests, ZenonT(60) DEF AcceptInvite, Begin, Steps
  <2>. QED  BY <1>1, <1>12, <2>1 DEF AcceptInvite, TablesOK, tables
<1>13. ASSUME NEW v \in InviteIds, RegisterWithInvite(h, u, v)
       PROVE  TablesOK' /\ RequestsOK'
  <2>1. RequestsOK'
    BY <1>1, <1>4, <1>13, NewRequests DEF RegisterWithInvite, GoOn, Steps
  <2>. QED  BY <1>1, <1>13, <2>1 DEF RegisterWithInvite, TablesOK
<1>14. ASSUME NEW v \in InviteIds, NEW op \in {"revoke", "resend"}, ManageInvite(h, u, v, op)
       PROVE  TablesOK' /\ RequestsOK'
  <2>1. RequestsOK'
    BY <1>1, <1>4, <1>14, NewRequests DEF ManageInvite, Begin, Steps
  <2>. QED  BY <1>1, <1>14, <2>1 DEF ManageInvite, TablesOK, tables
<1>15. TablesOK' /\ RequestsOK'
  BY <1>5, <1>6, <1>7, <1>8, <1>9, <1>10, <1>11, <1>12, <1>13, <1>14 DEF Start
<1>. QED  BY <1>15 DEF TablesOK, RequestsOK, TypeOK

\* ... goes on with members ...
LEMMA MemberStepTypes ==
  ASSUME IInv, NEW h \in Handlers, MemberStep(h)
  PROVE  TypeOK'
<1>. SUFFICES TablesOK' /\ RequestsOK'
  BY DEF TablesOK, RequestsOK, TypeOK
<1>1. TablesOK /\ RequestsOK
  BY DEF IInv, TypeOK, TablesOK, RequestsOK
<1>2. Parameters(h) /\ req[h] \in Request
  BY <1>1 DEF IInv, Linked, RequestsOK
<1>3. CASE AddFounder(h)
  <2>1. req[h].user \in Users /\ req[h].org \in Orgs /\ "owner" \in Roles
    BY <1>2, <1>3 DEF AddFounder, Parameters, Roles
  <2>. QED  BY <1>1, <1>3, <2>1, Ends DEF AddFounder, TablesOK
<1>4. CASE SetActive(h)
  <2>1. req[h].user \in Users /\ req[h].org \in Orgs \cup {None}
    BY <1>2, <1>4, RequestFields DEF SetActive, Parameters
  <2>2. active' \in [Users -> Orgs \cup {None}]
    BY <1>1, <1>4, <2>1 DEF SetActive, TablesOK
  <2>. QED  BY <1>1, <1>4, <2>2, Ends DEF SetActive, TablesOK
<1>5. CASE LookUpMember(h)
  <2>. DEFINE r == IF req[h].target = req[h].user THEN req[h].mine
                     ELSE members[req[h].org][req[h].target]
  <2>1. req[h].org \in Orgs /\ req[h].target \in Users
    BY <1>2, <1>5 DEF LookUpMember, Parameters, OfMembers
  <2>2. r \in Roles \cup {None}
    BY <1>1, <1>2, <2>1, RequestFields DEF TablesOK
  <2>3. [req[h] EXCEPT !.seen = r] \in Request
    BY <1>2, <2>2, ReadRequests
  <2>4. CASE End(h)
    BY <1>1, <1>5, <2>4, TablesSame, Ends DEF LookUpMember
  <2>5. CASE ~End(h)
    <3>1. PICK s \in Steps : pc' = [pc EXCEPT ![h] = s]
      BY <1>5, <2>5 DEF LookUpMember, GoOn, Steps
    <3>2. req' = [req EXCEPT ![h] = [req[h] EXCEPT !.seen = r]]
      BY <1>5, <2>5 DEF LookUpMember
    <3>3. RequestsOK'
      BY <1>1, <2>3, <3>1, <3>2, GoesOn
    <3>. QED  BY <1>1, <1>5, <3>3, TablesSame, Ends DEF LookUpMember
  <2>. QED  BY <2>4, <2>5
<1>6. CASE CountOwners(h)
  <2>1. RequestsOK'
    <3>1. CASE End(h)
      BY <1>1, <3>1, Ends
    <3>2. CASE ~End(h)
      BY <1>1, <1>2, <1>6, <3>2, GoesOn DEF CountOwners, GoOn, Steps
    <3>. QED  BY <3>1, <3>2
  <2>. QED  BY <1>1, <1>6, <2>1, TablesSame, Ends DEF CountOwners
<1>7. CASE WriteRole(h)
  <2>1. req[h].org \in Orgs /\ req[h].target \in Users /\ req[h].role \in Roles
    BY <1>2, <1>7 DEF WriteRole, Parameters, OfMembers
  <2>2. members' \in [Orgs -> [Users -> Roles \cup {None}]]
    BY <1>1, <1>7, <2>1 DEF WriteRole, TablesOK, Roles
  <2>. QED  BY <1>1, <1>7, <2>2, Ends DEF WriteRole, TablesOK
<1>8. CASE DeleteMember(h)
  <2>1. req[h].user \in Users /\ req[h].org \in Orgs /\ req[h].target \in Users
    BY <1>2, <1>8 DEF DeleteMember, Parameters, OfMembers
  <2>2. members' \in [Orgs -> [Users -> Roles \cup {None}]]
    BY <1>1, <1>8, <2>1 DEF DeleteMember, TablesOK
  <2>3. pc' \in [Handlers -> Steps]
    BY <1>1, <1>8 DEF DeleteMember, GoOn, RequestsOK, Steps
  <2>4. req' \in [Handlers -> Request]
    <3>. DEFINE e == IF req[h].op = "leave" THEN [NoRequest EXCEPT !.user = req[h].user, !.org = req[h].org]
                       ELSE NoRequest
    <3>1. e \in Request
      <4>1. NoRequest \in Request
        BY DEF NoRequest, Request, Ops
      <4>. QED  BY <4>1, <2>1, NewRequests
    <3>2. \A g \in Handlers :
            [req[g] EXCEPT !.gone = req[g].gone \/ HasRead(g, req[h].org, req[h].target)] \in Request
      <4>1. \A g \in Handlers : (req[g].gone \/ HasRead(g, req[h].org, req[h].target)) \in BOOLEAN
        BY <1>1, RequestFields DEF RequestsOK, HasRead
      <4>. QED  BY <1>1, <4>1, ReadRequests DEF RequestsOK
    <3>3. CASE req[h].gone
      BY <1>1, <1>8, <3>1, <3>3 DEF DeleteMember, RequestsOK
    <3>4. CASE ~req[h].gone
      <4>1. req' = [g \in Handlers |-> IF g = h THEN e
              ELSE [req[g] EXCEPT !.gone = req[g].gone \/ HasRead(g, req[h].org, req[h].target)]]
        BY <1>8, <3>4 DEF DeleteMember
      <4>. HIDE DEF e
      <4>. QED  BY <4>1, <3>1, <3>2
    <3>. QED  BY <3>3, <3>4
  <2>. QED  BY <1>1, <1>8, <2>2, <2>3, <2>4 DEF DeleteMember, TablesOK, RequestsOK
<1>9. CASE MoveOn(h)
  <2>1. CASE End(h)
    BY <1>1, <1>9, <2>1, TablesSame, Ends DEF MoveOn
  <2>2. CASE ~End(h)
    <3>1. req[h].org \in Orgs
      BY <1>2, <1>9 DEF MoveOn, Parameters
    <3>2. PICK o \in Orgs \cup {None} : req' = [req EXCEPT ![h] = [req[h] EXCEPT !.act = req[h].org, !.org = o]]
      BY <1>9, <2>2 DEF MoveOn
    <3>3. RequestsOK'
      BY <1>1, <1>2, <1>9, <2>2, <3>1, <3>2, GoesOn, ReadRequests DEF MoveOn, GoOn, Steps
    <3>. QED  BY <1>1, <1>9, <3>3, TablesSame, Ends DEF MoveOn
  <2>. QED  BY <2>1, <2>2
<1>. QED  BY <1>3, <1>4, <1>5, <1>6, <1>7, <1>8, <1>9 DEF MemberStep

\* ... goes on with invites ...
LEMMA InviteStepTypes ==
  ASSUME IInv, NEW h \in Handlers, InviteStep(h)
  PROVE  TypeOK'
<1>. SUFFICES TablesOK' /\ RequestsOK'
  BY DEF TablesOK, RequestsOK, TypeOK
<1>1. TablesOK /\ RequestsOK
  BY DEF IInv, TypeOK, TablesOK, RequestsOK
<1>2. Parameters(h) /\ req[h] \in Request
  BY <1>1 DEF IInv, Linked, RequestsOK
<1>3. pc[h] \in OfInvites => req[h].inv \in InviteIds /\ invites[req[h].inv] # None
  BY <1>2 DEF Parameters
<1>4. ASSUME NEW n \in [InviteIds -> Invite \cup {None}], invites' = n, End(h),
             UNCHANGED <<registered, founder, members, active>>
      PROVE  TablesOK' /\ RequestsOK'
  BY <1>1, <1>4, Ends DEF TablesOK
<1>5. invites \in [InviteIds -> Invite \cup {None}]
  BY <1>1 DEF TablesOK
<1>6. CASE CheckNotMember(h)
  BY <1>1, <1>2, <1>6, TablesSame, Ends, GoesOn DEF CheckNotMember, GoOn, Steps
<1>7. CASE CheckNotInvited(h)
  BY <1>1, <1>2, <1>7, TablesSame, Ends, GoesOn DEF CheckNotInvited, GoOn, Steps
<1>8. CASE InsertInvite(h)
  <2>1. req[h].org \in Orgs /\ req[h].target \in Users /\ req[h].role \in Roles
    BY <1>2, <1>8 DEF InsertInvite, Parameters
  <2>2. [org |-> req[h].org, email |-> req[h].target, role |-> req[h].role, status |-> "pending",
         accepted |-> FALSE, revoked |-> FALSE, expired |-> FALSE] \in Invite
    BY <2>1 DEF Invite, Statuses
  <2>3. invites' \in [InviteIds -> Invite \cup {None}]
    BY <1>5, <1>8, <2>2 DEF InsertInvite
  <2>. QED  BY <1>4, <1>8, <2>3 DEF InsertInvite
<1>9. CASE MarkExpired(h)
  <2>1. \A v \in req[h].due : v \in InviteIds /\ invites[v] # None
    BY <1>2, <1>9, RequestFields DEF MarkExpired, Parameters
  <2>2. \A v \in req[h].due : [invites[v] EXCEPT !.status = "expired"] \in Invite
    BY <1>1, <2>1, InviteFields DEF Statuses
  <2>3. invites' \in [InviteIds -> Invite \cup {None}]
    BY <1>5, <1>9, <2>2 DEF MarkExpired
  <2>. QED  BY <1>4, <1>9, <2>3 DEF MarkExpired
<1>10. CASE LookUpInvite(h)
  <2>1. CASE End(h)
    BY <1>1, <1>10, <2>1, TablesSame, Ends DEF LookUpInvite
  <2>2. CASE ~End(h)
    <3>1. invites[req[h].inv].status \in Statuses
      BY <1>1, <1>3, <1>10, InviteFields DEF LookUpInvite, OfInvites
    <3>2. [req[h] EXCEPT !.saw = invites[req[h].inv].status] \in Request
      BY <1>2, <3>1, ReadRequests
    <3>3. req[h].op \in Steps
      BY <1>2, <1>10 DEF LookUpInvite, Parameters, OfInvites, Steps
    <3>. QED  BY <1>1, <1>10, <2>2, <3>2, <3>3, TablesSame, GoesOn DEF LookUpInvite, GoOn
  <2>. QED  BY <2>1, <2>2
<1>11. CASE RevokeInvite(h)
  <2>. DEFINE n == [invites[req[h].inv] EXCEPT !.status = "revoked", !.revoked = TRUE]
  <2>1. req[h].inv \in InviteIds /\ n \in Invite
    BY <1>1, <1>3, <1>11, InviteFields DEF RevokeInvite, OfInvites, Statuses
  <2>2. invites' = [invites EXCEPT ![req[h].inv] = n]
    BY <1>5, <1>11, <2>1 DEF RevokeInvite
  <2>. HIDE DEF n
  <2>3. invites' \in [InviteIds -> Invite \cup {None}]
    BY <1>5, <2>1, <2>2
  <2>. QED  BY <1>4, <1>11, <2>3 DEF RevokeInvite
<1>12. CASE ResendInvite(h)
  <2>. DEFINE s == IF req[h].saw = "pending" THEN invites[req[h].inv].status ELSE "pending"
              n == [invites[req[h].inv] EXCEPT !.expired = FALSE, !.status = s]
  <2>1. req[h].inv \in InviteIds /\ n \in Invite
    BY <1>1, <1>3, <1>12, InviteFields DEF ResendInvite, OfInvites, Statuses
  <2>2. invites' = [invites EXCEPT ![req[h].inv] = n]
    BY <1>5, <1>12, <2>1 DEF ResendInvite
  <2>. HIDE DEF n
  <2>3. invites' \in [InviteIds -> Invite \cup {None}]
    BY <1>5, <2>1, <2>2
  <2>. QED  BY <1>4, <1>12, <2>3 DEF ResendInvite
<1>13. CASE FailResend(h)
  BY <1>1, <1>13, TablesSame, Ends DEF FailResend
<1>14. CASE ReadInvite(h)
  <2>1. CASE End(h)
    BY <1>1, <1>14, <2>1, TablesSame, Ends DEF ReadInvite
  <2>2. CASE ~End(h)
    <3>. DEFINE i == invites[req[h].inv]
                a == IF req[h].op = "register" THEN active[req[h].user] ELSE req[h].act
    <3>1. i.status \in Statuses /\ i.role \in Roles
      BY <1>1, <1>3, <1>14, InviteFields DEF ReadInvite, OfInvites
    <3>2. a \in Orgs \cup {None}
      <4>1. req[h].user \in Users
        BY <1>2, <1>14 DEF ReadInvite, Parameters
      <4>. QED  BY <1>1, <1>2, <4>1, RequestFields DEF TablesOK
    <3>3. [req[h] EXCEPT !.saw = i.status, !.role = i.role, !.act = a] \in Request
      <4>. HIDE DEF i, a
      <4>. QED  BY <1>2, <3>1, <3>2, ReadRequests
    <3>4. req' = [req EXCEPT ![h] = [req[h] EXCEPT !.saw = i.status, !.role = i.role, !.act = a]]
      BY <1>14, <2>2 DEF ReadInvite
    <3>5. PICK s \in Steps : pc' = [pc EXCEPT ![h] = s]
      BY <1>14, <2>2 DEF ReadInvite, GoOn, Steps
    <3>6. RequestsOK'
      <4>. HIDE DEF i, a
      <4>. QED  BY <1>1, <3>3, <3>4, <3>5, GoesOn
    <3>. QED  BY <1>1, <1>14, <3>6, TablesSame DEF ReadInvite
  <2>. QED  BY <2>1, <2>2
<1>15. CASE ExpireInvite(h)
  <2>. DEFINE s == IF req[h].saw = "expired" THEN invites[req[h].inv].status ELSE "expired"
              n == [invites[req[h].inv] EXCEPT !.status = s]
  <2>1. req[h].inv \in InviteIds /\ n \in Invite
    BY <1>1, <1>3, <1>15, InviteFields DEF ExpireInvite, OfInvites, Statuses
  <2>2. invites' = [invites EXCEPT ![req[h].inv] = n]
    BY <1>5, <1>15, <2>1 DEF ExpireInvite
  <2>. HIDE DEF n
  <2>3. invites' \in [InviteIds -> Invite \cup {None}]
    BY <1>5, <2>1, <2>2
  <2>. QED  BY <1>4, <1>15, <2>3 DEF ExpireInvite
<1>16. CASE ReadMembership(h)
  <2>1. req[h].org \in Orgs /\ req[h].user \in Users
    BY <1>2, <1>16 DEF ReadMembership, Parameters
  <2>2. members[req[h].org][req[h].user] \in Roles \cup {None}
    BY <1>1, <2>1 DEF TablesOK
  <2>3. [req[h] EXCEPT !.seen = members[req[h].org][req[h].user]] \in Request
    BY <1>2, <2>2, ReadRequests
  <2>. QED  BY <1>1, <1>16, <2>3, TablesSame, GoesOn DEF ReadMembership, GoOn, Steps
<1>17. CASE Join(h)
  <2>1. req[h].user \in Users /\ req[h].org \in Orgs /\ req[h].role \in Roles
    BY <1>2, <1>17 DEF Join, Parameters
  <2>2. members' \in [Orgs -> [Users -> Roles \cup {None}]]
    BY <1>1, <1>17, <2>1 DEF Join, TablesOK
  <2>3. active' \in [Users -> Orgs \cup {None}]
    BY <1>1, <1>17, <2>1 DEF Join, TablesOK
  <2>4. invites' \in [InviteIds -> Invite \cup {None}]
    <3>. DEFINE n == [invites[req[h].inv] EXCEPT !.status = "accepted", !.accepted = TRUE]
    <3>1. req[h].inv \in InviteIds /\ n \in Invite
      BY <1>1, <1>3, <1>17, InviteFields DEF Join, OfInvites, Statuses
    <3>2. invites' = invites \/ invites' = [invites EXCEPT ![req[h].inv] = n]
      BY <1>5, <1>17, <3>1 DEF Join
    <3>. HIDE DEF n
    <3>. QED  BY <1>5, <3>1, <3>2
  <2>. QED  BY <1>1, <1>17, <2>2, <2>3, <2>4, Ends DEF Join, TablesOK
<1>. QED  BY <1>6, <1>7, <1>8, <1>9, <1>10, <1>11, <1>12, <1>13, <1>14, <1>15, <1>16, <1>17
          DEF InviteStep

\* ... or does anything else.
LEMMA StepTypes ==
  ASSUME IInv, Next
  PROVE  TypeOK'
<1>1. TablesOK /\ RequestsOK
  BY DEF IInv, TypeOK, TablesOK, RequestsOK
<1>2. ASSUME NEW u \in Users, NEW o \in Orgs, Register(u, o)
      PROVE  TypeOK'
  BY <1>1, <1>2 DEF Register, TablesOK, RequestsOK, TypeOK, Roles
<1>3. ASSUME NEW v \in InviteIds, Expire(v)
      PROVE  TypeOK'
  <2>. DEFINE n == [invites[v] EXCEPT !.expired = TRUE]
  <2>1. n \in Invite
    BY <1>1, <1>3, InviteFields DEF Expire
  <2>2. invites' = [invites EXCEPT ![v] = n]
    BY <1>1, <1>3 DEF Expire, TablesOK
  <2>. HIDE DEF n
  <2>3. invites' \in [InviteIds -> Invite \cup {None}]
    BY <1>1, <2>1, <2>2 DEF TablesOK
  <2>. QED  BY <1>1, <1>3, <2>3 DEF Expire, TablesOK, RequestsOK, TypeOK
<1>4. ASSUME NEW h \in Handlers, Crash(h)
      PROVE  TypeOK'
  <2>1. TablesOK' /\ RequestsOK'
    BY <1>1, <1>4, TablesSame, Ends DEF Crash
  <2>. QED  BY <2>1 DEF TablesOK, RequestsOK, TypeOK
<1>. QED  BY <1>2, <1>3, <1>4, StartTypes, MemberStepTypes, InviteStepTypes DEF Next

-----------------------------------------------------------------------------
(* What each request keeps *)

\* A request that ended.
LEMMA EndedLinked ==
  ASSUME RequestsOK, NEW h \in Handlers, End(h)
  PROVE  Linked(h)'
<1>1. pc'[h] = "idle" /\ req'[h] = NoRequest
  BY DEF RequestsOK, End
<1>2. Parameters(h)'
  BY <1>1, OrgMembersAssumption DEF NoRequest, Parameters, OfMembers, OfInvites, Ops
<1>3. Found(h)'
  BY <1>1 DEF Found
<1>4. Backed(h)'
  BY <1>1 DEF Backed
<1>. QED  BY <1>2, <1>3, <1>4 DEF Linked

\* A step of another request takes no step of this one, and deletes a row it
\* has read only with its knowledge.
Aside(g) ==
  /\ pc'[g] = pc[g]
  /\ \E b \in BOOLEAN : req'[g] = [req[g] EXCEPT !.gone = b] /\ (req[g].gone => b)
  /\ \A o \in Orgs, u \in Users :
       members[o][u] # None /\ HasRead(g, o, u) /\ ~req'[g].gone => members'[o][u] # None

LEMMA AsideLinked ==
  ASSUME IInv, Grows, NEW g \in Handlers, Aside(g)
  PROVE  Linked(g)'
<1>1. req[g] \in Request /\ Linked(g) /\ TypeOK
  BY DEF IInv, TypeOK
<1>2. /\ pc'[g] = pc[g]
      /\ req'[g].op = req[g].op /\ req'[g].user = req[g].user /\ req'[g].org = req[g].org
      /\ req'[g].target = req[g].target /\ req'[g].role = req[g].role
      /\ req'[g].mine = req[g].mine /\ req'[g].seen = req[g].seen
      /\ req'[g].inv = req[g].inv /\ req'[g].due = req[g].due
      /\ req[g].gone => req'[g].gone
  BY <1>1 DEF Aside, Request
<1>3. /\ req[g].org \in Orgs \cup {None} /\ req[g].due \subseteq InviteIds
  BY <1>1, RequestFields
<1>4. Parameters(g)'
  BY <1>1, <1>2, <1>3 DEF Linked, Parameters, Grows
<1>5. Found(g)'
  <2>1. ASSUME ~req'[g].gone, pc[g] \in {"count", "write"} \/ (pc[g] = "lookup" /\ req[g].target = req[g].user)
        PROVE  members'[req[g].org][req[g].target] # None
    <3>1. req[g].org \in Orgs /\ req[g].target \in Users
      BY <1>1, <2>1 DEF Linked, Parameters, OfMembers
    <3>2. HasRead(g, req[g].org, req[g].target)
      BY <2>1 DEF HasRead
    <3>3. members[req[g].org][req[g].target] # None
      BY <1>1, <1>2, <2>1 DEF Linked, Found
    <3>. QED  BY <2>1, <3>1, <3>2, <3>3 DEF Aside
  <2>. QED  BY <1>2, <2>1 DEF Found
<1>6. Backed(g)'
  <2>1. pc[g] = "found" => founder'[req[g].org] = req[g].user
    BY <1>1, <1>3, OrgMembersAssumption DEF Linked, Parameters, Backed, Grows
  <2>2. (pc[g] = "switch" /\ req[g].org # None => Entitled(req[g].user, req[g].org))'
    <3>. SUFFICES ASSUME pc[g] = "switch", req[g].org # None
                  PROVE  Entitled(req[g].user, req[g].org)'
      BY <1>2
    <3>1. PICK u \in Users, o \in Orgs : u = req[g].user /\ o = req[g].org /\ Entitled(u, o)
      BY <1>1, <1>3 DEF Linked, Parameters, Backed
    <3>2. Entitled(u, o)'
      BY <1>1, <3>1, EntitledKept
    <3>3. u = req'[g].user /\ o = req'[g].org
      BY <1>2, <3>1
    <3>. QED  BY <3>2, <3>3 DEF Entitled
  <2>3. pc[g] \in {"member", "join"} => invites'[req[g].inv].email = req[g].user
    BY <1>1 DEF Linked, Parameters, Backed, Grows, OfInvites
  <2>. QED  BY <1>2, <2>1, <2>2, <2>3 DEF Backed
<1>. QED  BY <1>4, <1>5, <1>6 DEF Linked

LEMMA AsideIfSame ==
  ASSUME RequestsOK, NEW g \in Handlers, pc'[g] = pc[g], req'[g] = req[g],
         \A o \in Orgs, u \in Users : members[o][u] # None => members'[o][u] # None
  PROVE  Aside(g)
<1>1. req[g].gone \in BOOLEAN /\ req[g] = [req[g] EXCEPT !.gone = req[g].gone]
  BY DEF RequestsOK, Request
<1>. QED  BY <1>1 DEF Aside

\* A request changes nothing of another one, but for the rows it deletes.
LEMMA StepsAside ==
  ASSUME IInv, NEW h \in Handlers, NEW g \in Handlers \ {h},
         \/ \E u \in Users : Start(h, u)
         \/ MemberStep(h) \/ InviteStep(h) \/ Crash(h)
  PROVE  Aside(g)
<1>. USE OrgMembersAssumption
<1>1. TablesOK /\ RequestsOK /\ Parameters(h)
  BY DEF IInv, TypeOK, TablesOK, RequestsOK, Linked
<1>. DEFINE Same == /\ pc'[g] = pc[g] /\ req'[g] = req[g]
                    /\ \A o \in Orgs, u \in Users : members[o][u] # None => members'[o][u] # None
<1>2. Same => Aside(g)
  BY <1>1, AsideIfSame
<1>3. End(h) => pc'[g] = pc[g] /\ req'[g] = req[g]
  BY <1>1 DEF End, RequestsOK
<1>4. ASSUME NEW s, GoOn(h, s) PROVE pc'[g] = pc[g]
  BY <1>1, <1>4 DEF GoOn, RequestsOK
<1>5. \A q : req' = [req EXCEPT ![h] = q] => req'[g] = req[g]
  BY <1>1 DEF RequestsOK
<1>6. ASSUME NEW u \in Users, Start(h, u)
      PROVE  Same
  <2>1. ASSUME NEW s, NEW q, Begin(h, u, s, q)
        PROVE  pc'[g] = pc[g] /\ req'[g] = req[g]
    BY <1>1, <2>1 DEF Begin, RequestsOK
  <2>2. members' = members
    BY <1>6 DEF Start, CreateOrg, Switch, Leave, ListInvites, RemoveMember, UpdateRole, InviteUser,
                AcceptInvite, RegisterWithInvite, ManageInvite, tables
  <2>3. pc'[g] = pc[g] /\ req'[g] = req[g]
    BY <1>4, <1>5, <1>6, <2>1 DEF Start, CreateOrg, Switch, Leave, ListInvites, RemoveMember, UpdateRole,
                InviteUser, AcceptInvite, RegisterWithInvite, ManageInvite
  <2>. QED  BY <2>2, <2>3
<1>7. ASSUME MemberStep(h), ~DeleteMember(h)
      PROVE  Same
  <2>1. pc'[g] = pc[g]
    BY <1>3, <1>4, <1>7 DEF MemberStep, AddFounder, SetActive, LookUpMember, CountOwners, WriteRole, MoveOn
  <2>2. req'[g] = req[g]
    BY <1>1, <1>3, <1>7 DEF RequestsOK, MemberStep, AddFounder, SetActive, LookUpMember, CountOwners, WriteRole, MoveOn
  <2>3. ASSUME NEW o \in Orgs, NEW u \in Users, members[o][u] # None
        PROVE  members'[o][u] # None
    <3>1. CASE AddFounder(h)
      BY <1>1, <2>3, <3>1 DEF AddFounder, Roles, TablesOK
    <3>2. CASE WriteRole(h)
      BY <1>1, <2>3, <3>2 DEF WriteRole, Parameters, TablesOK
    <3>. QED  BY <1>7, <2>3, <3>1, <3>2 DEF MemberStep, SetActive, LookUpMember, CountOwners, MoveOn, tables
  <2>. QED  BY <2>1, <2>2, <2>3
<1>8. ASSUME InviteStep(h)
      PROVE  Same
  <2>1. pc'[g] = pc[g]
    BY <1>3, <1>4, <1>8 DEF InviteStep, CheckNotMember, CheckNotInvited, InsertInvite, MarkExpired,
         LookUpInvite, RevokeInvite, ResendInvite, FailResend, ReadInvite, ExpireInvite, ReadMembership, Join
  <2>2. req'[g] = req[g]
    BY <1>1, <1>3, <1>8 DEF RequestsOK, InviteStep, CheckNotMember, CheckNotInvited, InsertInvite, MarkExpired,
         LookUpInvite, RevokeInvite, ResendInvite, FailResend, ReadInvite, ExpireInvite, ReadMembership, Join
  <2>3. ASSUME NEW o \in Orgs, NEW u \in Users, members[o][u] # None
        PROVE  members'[o][u] # None
    <3>1. CASE Join(h)
      BY <1>1, <2>3, <3>1 DEF Join, Parameters, TablesOK
    <3>. QED  BY <1>8, <2>3, <3>1 DEF InviteStep, CheckNotMember, CheckNotInvited, InsertInvite, MarkExpired,
           LookUpInvite, RevokeInvite, ResendInvite, FailResend, ReadInvite, ExpireInvite, ReadMembership, tables
  <2>. QED  BY <2>1, <2>2, <2>3
<1>9. CASE Crash(h)
  <2>1. Same
    BY <1>3, <1>9 DEF Crash, tables
  <2>. QED  BY <1>2, <2>1
<1>10. CASE DeleteMember(h)
  <2>1. pc'[g] = pc[g]
    BY <1>4, <1>10 DEF DeleteMember
  <2>2. CASE req[h].gone
    BY <1>1, <1>2, <1>10, <2>1, <2>2 DEF DeleteMember, RequestsOK
  <2>3. CASE ~req[h].gone
    <3>. DEFINE b == req[g].gone \/ HasRead(g, req[h].org, req[h].target)
    <3>1. req'[g] = [req[g] EXCEPT !.gone = b]
      BY <1>10, <2>3 DEF DeleteMember
    <3>2. req[g].gone \in BOOLEAN /\ b \in BOOLEAN /\ (req[g].gone => b) /\ req'[g].gone = b
      BY <1>1, <3>1 DEF RequestsOK, Request, HasRead
    <3>3. ASSUME NEW o \in Orgs, NEW u \in Users, members[o][u] # None, HasRead(g, o, u), ~req'[g].gone
          PROVE  members'[o][u] # None
      <4>1. o # req[h].org \/ u # req[h].target
        BY <3>2, <3>3 DEF HasRead
      <4>2. members' = [members EXCEPT ![req[h].org][req[h].target] = None]
        BY <1>10, <2>3 DEF DeleteMember
      <4>. QED  BY <1>1, <3>3, <4>1, <4>2 DEF TablesOK
    <3>. HIDE DEF b
    <3>. QED  BY <2>1, <3>1, <3>2, <3>3 DEF Aside
  <2>. QED  BY <2>2, <2>3
<1>. HIDE DEF Same
<1>. QED  BY <1>2, <1>6, <1>7, <1>8, <1>9, <1>10

\* What a request keeps by its own steps: the first one, ...
LEMMA StartLinked ==
  ASSUME IInv, Grows, NEW h \in Handlers, NEW u \in Users, Start(h, u)
  PROVE  Linked(h)'
<1>. USE OrgMembersAssumption
<1>1. TypeOK /\ RequestsOK /\ TablesOK /\ Founded /\ TenantsApart
  BY DEF IInv, TypeOK, TablesOK, RequestsOK
<1>2. \A s, q : Begin(h, u, s, q) => pc'[h] = s /\ req'[h] = q
  BY <1>1 DEF Begin, RequestsOK
<1>3. \A s, q : GoOn(h, s) => pc'[h] = s
  BY <1>1 DEF GoOn, RequestsOK
<1>4. CASE \E o \in Orgs : CreateOrg(h, u, o)
  <2>1. PICK o \in Orgs : CreateOrg(h, u, o)
    BY <1>4
  <2>2. pc'[h] = "found" /\ req'[h] = [NoRequest EXCEPT !.user = u, !.org = o]
    BY <1>2, <2>1 DEF CreateOrg
  <2>3. /\ req'[h].user = u /\ req'[h].org = o /\ req'[h].op = None
    BY <2>2 DEF NoRequest
  <2>4. founder'[o] = u
    BY <1>1, <2>1 DEF CreateOrg, TablesOK
  <2>5. Parameters(h)'
    BY <2>2, <2>3, <2>4 DEF Parameters, OfMembers, OfInvites, Ops
  <2>6. Found(h)' /\ Backed(h)'
    BY <2>2, <2>3, <2>4 DEF Found, Backed
  <2>. QED  BY <2>5, <2>6 DEF Linked
<1>5. CASE \E o \in Orgs : Switch(h, u, o)
  <2>1. PICK o \in Orgs : Switch(h, u, o)
    BY <1>5
  <2>2. pc'[h] = "switch" /\ req'[h] = [NoRequest EXCEPT !.user = u, !.org = o, !.act = active[u]]
    BY <1>2, <2>1 DEF Switch
  <2>3. /\ req'[h].user = u /\ req'[h].org = o /\ req'[h].op = None
    BY <2>2 DEF NoRequest
  <2>4. founder'[o] # None
    BY <1>1, <2>1 DEF Switch, tables, Founded
  <2>5. Parameters(h)'
    BY <2>2, <2>3, <2>4 DEF Parameters, OfMembers, OfInvites, Ops
  <2>6. Entitled(u, o)'
    BY <1>1, <2>1, EntitledKept DEF Switch, TenantsApart
  <2>7. Found(h)' /\ Backed(h)'
    BY <2>2, <2>3, <2>6 DEF Found, Backed, Entitled
  <2>. QED  BY <2>5, <2>7 DEF Linked
<1>6. CASE \E o \in Orgs : Leave(h, u, o)
  <2>1. PICK o \in Orgs : Leave(h, u, o)
    BY <1>6
  <2>2. /\ pc'[h] \in {"count", "write"}
        /\ req'[h] = [NoRequest EXCEPT !.op = "leave", !.user = u, !.org = o, !.target = u,
             !.seen = members[o][u]]
    BY <1>2, <2>1 DEF Leave
  <2>3. /\ req'[h].user = u /\ req'[h].org = o /\ req'[h].op = "leave"
        /\ req'[h].target = u /\ req'[h].seen = members[o][u]
    BY <2>2 DEF NoRequest
  <2>4. founder'[o] # None /\ members'[o][u] # None /\ members[o][u] \in Roles
    BY <1>1, <2>1 DEF Leave, tables, Founded, TablesOK
  <2>5. Parameters(h)'
    BY <2>2, <2>3, <2>4 DEF Parameters, OfMembers, OfInvites
  <2>6. Found(h)' /\ Backed(h)'
    BY <2>2, <2>3, <2>4 DEF Found, Backed
  <2>. QED  BY <2>5, <2>6 DEF Linked
<1>7. CASE \E o \in Orgs : ListInvites(h, u, o)
  <2>1. PICK o \in Orgs : ListInvites(h, u, o)
    BY <1>7
  <2>2. PICK d : /\ \A v \in d : v \in InviteIds /\ invites[v] # None
                 /\ pc'[h] = "mark" /\ req'[h] = [NoRequest EXCEPT !.user = u, !.org = o, !.due = d]
    BY <1>2, <2>1 DEF ListInvites
  <2>3. /\ req'[h].user = u /\ req'[h].org = o /\ req'[h].op = None /\ req'[h].due = d
    BY <2>2 DEF NoRequest
  <2>4. founder'[o] # None /\ invites' = invites
    BY <1>1, <2>1 DEF ListInvites, tables, Founded, can_invite, Roles
  <2>5. Parameters(h)'
    BY <2>2, <2>3, <2>4 DEF Parameters, OfMembers, OfInvites, Ops
  <2>6. Found(h)' /\ Backed(h)'
    BY <2>2, <2>3, <2>4 DEF Found, Backed
  <2>. QED  BY <2>5, <2>6 DEF Linked
<1>8. CASE \E o \in Orgs, t \in Users : RemoveMember(h, u, o, t)
  <2>1. PICK o \in Orgs, t \in Users : RemoveMember(h, u, o, t)
    BY <1>8
  <2>2. /\ pc'[h] = "lookup"
        /\ req'[h] = [NoRequest EXCEPT !.op = "remove", !.user = u, !.org = o, !.target = t,
             !.mine = members[o][u]]
    BY <1>2, <2>1 DEF RemoveMember
  <2>3. /\ req'[h].user = u /\ req'[h].org = o /\ req'[h].op = "remove" /\ req'[h].target = t
    BY <2>2 DEF NoRequest
  <2>4. founder'[o] # None /\ members'[o][u] # None
    BY <1>1, <2>1 DEF RemoveMember, tables, Founded, can_manage_members, Roles
  <2>5. Parameters(h)'
    BY <2>2, <2>3, <2>4 DEF Parameters, OfMembers, OfInvites
  <2>6. Found(h)' /\ Backed(h)'
    BY <2>2, <2>3, <2>4 DEF Found, Backed
  <2>. QED  BY <2>5, <2>6 DEF Linked
<1>9. CASE \E o \in Orgs, t \in Users, r \in AskedRoles : UpdateRole(h, u, o, t, r)
  <2>1. PICK o \in Orgs, t \in Users, r \in AskedRoles : UpdateRole(h, u, o, t, r)
    BY <1>9
  <2>2. /\ pc'[h] = "lookup"
        /\ req'[h] = [NoRequest EXCEPT !.op = "update", !.user = u, !.org = o, !.target = t,
             !.role = r, !.mine = members[o][u]]
    BY <1>2, <2>1 DEF UpdateRole
  <2>3. /\ req'[h].user = u /\ req'[h].org = o /\ req'[h].op = "update" /\ req'[h].target = t
        /\ req'[h].role = r /\ req'[h].mine = "owner" /\ r \in Roles
    BY <2>1, <2>2 DEF NoRequest, UpdateRole, can_change_roles
  <2>4. founder'[o] # None /\ members'[o][u] # None
    BY <1>1, <2>1 DEF UpdateRole, tables, Founded, can_change_roles, Roles
  <2>5. Parameters(h)'
    BY <2>2, <2>3, <2>4 DEF Parameters, OfMembers, OfInvites
  <2>6. Found(h)' /\ Backed(h)'
    BY <2>2, <2>3, <2>4 DEF Found, Backed
  <2>. QED  BY <2>5, <2>6 DEF Linked
<1>10. CASE \E o \in Orgs, t \in Users, r \in AskedRoles : InviteUser(h, u, o, t, r)
  <2>1. PICK o \in Orgs, t \in Users, r \in AskedRoles : InviteUser(h, u, o, t, r)
    BY <1>10
  <2>2. /\ pc'[h] = "email"
        /\ req'[h] = [NoRequest EXCEPT !.op = "invite", !.user = u, !.org = o, !.target = t,
             !.role = r]
    BY <1>2, <2>1 DEF InviteUser
  <2>3. /\ req'[h].user = u /\ req'[h].org = o /\ req'[h].op = "invite" /\ req'[h].target = t
        /\ req'[h].role = r /\ r \in Roles
    BY <2>1, <2>2 DEF NoRequest
  <2>4. founder'[o] # None
    BY <1>1, <2>1 DEF InviteUser, tables, Founded, can_invite, Roles
  <2>5. Parameters(h)'
    BY <2>2, <2>3, <2>4 DEF Parameters, OfMembers, OfInvites
  <2>6. Found(h)' /\ Backed(h)'
    BY <2>2, <2>3, <2>4 DEF Found, Backed
  <2>. QED  BY <2>5, <2>6 DEF Linked
<1>11. ASSUME NEW v \in InviteIds, NEW s \in {"invite", "token"}, invites[v] # None,
              pc'[h] = s, req'[h].user = u, req'[h].org = invites[v].org, req'[h].inv = v,
              req'[h].op \in Ops \ {"update"}, s = "invite" => req'[h].op \in {"revoke", "resend"}
       PROVE  Linked(h)'
  <2>1. /\ invites[v].org \in Orgs /\ founder'[invites[v].org] # None
        /\ invites'[v] # None /\ invites'[v].org = invites[v].org
    BY <1>1, <1>11, InviteFields DEF Founded, Grows
  <2>2. Parameters(h)'
    BY <1>11, <2>1 DEF Parameters, OfMembers, OfInvites
  <2>3. Found(h)' /\ Backed(h)'
    BY <1>11 DEF Found, Backed
  <2>. QED  BY <2>2, <2>3 DEF Linked
<1>12. CASE \E v \in InviteIds : AcceptInvite(h, u, v)
  <2>1. PICK v \in InviteIds : AcceptInvite(h, u, v)
    BY <1>12
  <2>2. /\ pc'[h] = "token" /\ invites[v] # None
        /\ req'[h] = [NoRequest EXCEPT !.op = "accept", !.user = u, !.org = invites[v].org,
             !.inv = v, !.act = active[u]]
    BY <1>2, <2>1 DEF AcceptInvite
  <2>3. /\ req'[h].user = u /\ req'[h].org = invites[v].org /\ req'[h].inv = v
        /\ req'[h].op = "accept"
    BY <2>2 DEF NoRequest
  <2>. QED  BY <1>11, <2>2, <2>3 DEF Ops
<1>13. CASE \E v \in InviteIds : RegisterWithInvite(h, u, v)
  <2>1. PICK v \in InviteIds : RegisterWithInvite(h, u, v)
    BY <1>13
  <2>2. /\ pc'[h] = "token" /\ invites[v] # None
        /\ req'[h] = [NoRequest EXCEPT !.op = "register", !.user = u, !.org = invites[v].org,
             !.inv = v]
    BY <1>1, <1>3, <2>1 DEF RegisterWithInvite, RequestsOK
  <2>3. /\ req'[h].user = u /\ req'[h].org = invites[v].org /\ req'[h].inv = v
        /\ req'[h].op = "register"
    BY <2>2 DEF NoRequest
  <2>. QED  BY <1>11, <2>2, <2>3 DEF Ops
<1>14. CASE \E v \in InviteIds, op \in {"revoke", "resend"} : ManageInvite(h, u, v, op)
  <2>1. PICK v \in InviteIds, op \in {"revoke", "resend"} : ManageInvite(h, u, v, op)
    BY <1>14
  <2>2. /\ pc'[h] = "invite" /\ invites[v] # None
        /\ req'[h] = [NoRequest EXCEPT !.op = op, !.user = u, !.org = invites[v].org,
             !.inv = v]
    BY <1>2, <2>1 DEF ManageInvite
  <2>3. /\ req'[h].user = u /\ req'[h].org = invites[v].org /\ req'[h].inv = v
        /\ req'[h].op = op
    BY <2>2 DEF NoRequest
  <2>. QED  BY <1>11, <2>2, <2>3 DEF Ops
<1>. QED  BY <1>4, <1>5, <1>6, <1>7, <1>8, <1>9, <1>10, <1>12, <1>13, <1>14 DEF Start

\* ... the ones on members ...
LEMMA MemberStepLinked ==
  ASSUME IInv, Grows, NEW h \in Handlers, MemberStep(h)
  PROVE  Linked(h)'
<1>. USE OrgMembersAssumption
<1>1. /\ TypeOK /\ RequestsOK /\ TablesOK /\ Founded /\ TenantsApart
      /\ req[h] \in Request /\ Parameters(h) /\ Found(h)
  BY DEF IInv, TypeOK, TablesOK, RequestsOK, Linked
<1>2. \A s : GoOn(h, s) => pc'[h] = s
  BY <1>1 DEF GoOn, RequestsOK
<1>3. \A q : req' = [req EXCEPT ![h] = q] => req'[h] = q
  BY <1>1 DEF RequestsOK
<1>4. End(h) => Linked(h)'
  BY <1>1, EndedLinked
<1>5. CASE LookUpMember(h) /\ ~End(h)
  <2>. DEFINE q == req[h]
              r == IF q.target = q.user THEN q.mine ELSE members[q.org][q.target]
  <2>1. /\ pc[h] = "lookup" /\ pc'[h] \in {"count", "write"} /\ r # None
        /\ members' = members /\ founder' = founder
    BY <1>2, <1>5 DEF LookUpMember, tables
  <2>2. req'[h] = [q EXCEPT !.seen = r]
    <3>1. req' = [req EXCEPT ![h] = [q EXCEPT !.seen = r]]
      BY <1>5 DEF LookUpMember
    <3>. QED  BY <1>3, <3>1
  <2>3. q.org \in Orgs /\ q.user \in Users /\ q.target \in Users
    BY <1>1, <2>1 DEF Parameters, OfMembers
  <2>4. r \in Roles /\ (~q.gone => members[q.org][q.target] # None)
    BY <1>1, <2>1, <2>3, RequestFields DEF TablesOK, Found
  <2>5. /\ req'[h].op = q.op /\ req'[h].user = q.user /\ req'[h].org = q.org
        /\ req'[h].target = q.target /\ req'[h].role = q.role /\ req'[h].mine = q.mine
        /\ req'[h].gone = q.gone /\ req'[h].seen = r
    <3>. HIDE DEF r
    <3>. QED  BY <1>1, <2>2 DEF Request
  <2>. HIDE DEF r
  <2>6. Parameters(h)'
    BY <1>1, <2>1, <2>3, <2>4, <2>5 DEF Parameters, OfMembers, OfInvites
  <2>7. Found(h)' /\ Backed(h)'
    BY <2>1, <2>4, <2>5 DEF Found, Backed
  <2>. QED  BY <2>6, <2>7 DEF Linked
<1>6. CASE CountOwners(h) /\ ~End(h)
  <2>1. /\ pc[h] = "count" /\ pc'[h] = "write" /\ req' = req
        /\ members' = members /\ founder' = founder
    BY <1>2, <1>6 DEF CountOwners, tables
  <2>2. Parameters(h)'
    BY <1>1, <2>1 DEF Parameters, OfMembers, OfInvites
  <2>3. Found(h)' /\ Backed(h)'
    BY <1>1, <2>1 DEF Found, Backed
  <2>. QED  BY <2>2, <2>3 DEF Linked
<1>7. CASE DeleteMember(h)
  <2>. DEFINE q == req[h]
  <2>1. /\ pc'[h] \in {"left", "idle"} /\ (pc'[h] = "left" => q.op = "leave")
        /\ pc[h] = "write" /\ founder' = founder /\ invites' = invites
    BY <1>2, <1>7 DEF DeleteMember
  <2>2. req'[h] = IF q.op = "leave" THEN [NoRequest EXCEPT !.user = q.user, !.org = q.org]
                    ELSE NoRequest
    BY <1>1, <1>7 DEF DeleteMember, RequestsOK
  <2>3. q.org \in Orgs /\ q.user \in Users /\ founder[q.org] # None
    BY <1>1, <2>1 DEF Parameters, OfMembers
  <2>4. req'[h].op = None
    BY <2>2 DEF NoRequest
  <2>5. pc'[h] = "left" => req'[h].user = q.user /\ req'[h].org = q.org
    BY <2>1, <2>2 DEF NoRequest
  <2>6. req'[h].org \in {None, q.org}
    BY <2>2 DEF NoRequest
  <2>7. Parameters(h)'
    BY <2>1, <2>3, <2>4, <2>5, <2>6 DEF Parameters, OfMembers, OfInvites, Ops
  <2>8. Found(h)' /\ Backed(h)'
    BY <2>1 DEF Found, Backed
  <2>. QED  BY <2>7, <2>8 DEF Linked
<1>8. CASE MoveOn(h) /\ ~End(h)
  <2>. DEFINE q == req[h]
  <2>1. /\ pc[h] = "left" /\ pc'[h] = "switch" /\ founder' = founder /\ members' = members
    BY <1>2, <1>8 DEF MoveOn, tables
  <2>2. q.user \in Users
    BY <1>1, <2>1 DEF Parameters
  <2>3. PICK o : /\ o = None \/ (o \in Orgs /\ members[o][q.user] # None)
                 /\ req' = [req EXCEPT ![h] = [q EXCEPT !.act = q.org, !.org = o]]
    BY <1>8 DEF MoveOn
  <2>4. req'[h].user = q.user /\ req'[h].org = o /\ req'[h].op = q.op
        /\ req'[h].role = q.role /\ req'[h].mine = q.mine
    <3>1. req'[h] = [q EXCEPT !.act = q.org, !.org = o]
      BY <1>3, <2>3
    <3>. QED  BY <1>1, <3>1 DEF Request
  <2>5. o # None => founder[o] # None
    BY <1>1, <2>2, <2>3 DEF Founded
  <2>6. Parameters(h)'
    BY <1>1, <2>1, <2>2, <2>4, <2>5 DEF Parameters, OfMembers, OfInvites
  <2>7. ASSUME o # None PROVE Entitled(q.user, o)'
    <3>1. PICK u \in Users : u = q.user
      BY <2>2
    <3>2. Entitled(u, o)
      BY <1>1, <2>3, <2>7, <3>1 DEF TenantsApart
    <3>3. Entitled(u, o)'
      BY <1>1, <2>3, <2>7, <3>2, EntitledKept
    <3>. QED  BY <2>4, <3>1, <3>3 DEF Entitled
  <2>8. Backed(h)'
    BY <2>1, <2>4, <2>7 DEF Backed, Entitled
  <2>9. Found(h)'
    BY <2>1 DEF Found
  <2>. QED  BY <2>6, <2>8, <2>9 DEF Linked
<1>9. End(h) \/ (LookUpMember(h) /\ ~End(h)) \/ (CountOwners(h) /\ ~End(h)) \/ DeleteMember(h)
      \/ (MoveOn(h) /\ ~End(h))
  BY DEF MemberStep, AddFounder, SetActive, WriteRole
<1>. QED  BY <1>4, <1>5, <1>6, <1>7, <1>8, <1>9

\* ... and the ones on invites.
LEMMA InviteStepLinked ==
  ASSUME IInv, Grows, NEW h \in Handlers, InviteStep(h)
  PROVE  Linked(h)'
<1>. USE OrgMembersAssumption
<1>1. /\ TypeOK /\ RequestsOK /\ TablesOK
      /\ req[h] \in Request /\ Parameters(h) /\ Found(h) /\ Backed(h)
  BY DEF IInv, TypeOK, TablesOK, RequestsOK, Linked
<1>2. \A s : GoOn(h, s) => pc'[h] = s
  BY <1>1 DEF GoOn, RequestsOK
<1>3. \A q : req' = [req EXCEPT ![h] = q] => req'[h] = q
  BY <1>1 DEF RequestsOK
<1>4. End(h) => Linked(h)'
  BY <1>1, EndedLinked
<1>5. CASE (CheckNotMember(h) \/ CheckNotInvited(h)) /\ ~End(h)
  <2>1. /\ pc[h] \in {"email", "pending"} /\ pc'[h] \in {"pending", "insert"}
        /\ req' = req /\ founder' = founder
    BY <1>2, <1>5 DEF CheckNotMember, CheckNotInvited, tables
  <2>2. Parameters(h)'
    BY <1>1, <2>1 DEF Parameters, OfMembers, OfInvites
  <2>3. Found(h)' /\ Backed(h)'
    BY <2>1 DEF Found, Backed
  <2>. QED  BY <2>2, <2>3 DEF Linked
<1>6. CASE LookUpInvite(h) /\ ~End(h)
  <2>. DEFINE q == req[h]
  <2>1. pc[h] = "invite" /\ pc'[h] = q.op /\ invites' = invites /\ founder' = founder
    BY <1>2, <1>6 DEF LookUpInvite, tables
  <2>2. q.op \in {"revoke", "resend"}
    BY <1>1, <2>1 DEF Parameters
  <2>3. req'[h] = [q EXCEPT !.saw = invites[q.inv].status]
    BY <1>3, <1>6 DEF LookUpInvite
  <2>4. /\ req'[h].op = q.op /\ req'[h].user = q.user /\ req'[h].org = q.org
        /\ req'[h].role = q.role /\ req'[h].mine = q.mine /\ req'[h].inv = q.inv
    BY <1>1, <2>3 DEF Request
  <2>5. Parameters(h)'
    BY <1>1, <2>1, <2>2, <2>4 DEF Parameters, OfMembers, OfInvites
  <2>6. Found(h)' /\ Backed(h)'
    BY <2>1, <2>2 DEF Found, Backed
  <2>. QED  BY <2>5, <2>6 DEF Linked
<1>7. CASE ReadInvite(h) /\ ~End(h)
  <2>. DEFINE q == req[h]
              i == invites[q.inv]
              a == IF q.op = "register" THEN active[q.user] ELSE q.act
  <2>1. pc[h] = "token" /\ pc'[h] \in {"expire", "member"} /\ invites' = invites /\ founder' = founder
    BY <1>2, <1>7 DEF ReadInvite, tables
  <2>2. q.inv \in InviteIds /\ i # None /\ i.role \in Roles
    <3>1. q.inv \in InviteIds /\ i # None
      BY <1>1, <2>1 DEF Parameters, OfInvites
    <3>. QED  BY <1>1, <3>1, InviteFields
  <2>3. pc'[h] = "member" => i.email = q.user
    BY <1>2, <1>7, <2>1 DEF ReadInvite
  <2>4. req'[h] = [q EXCEPT !.saw = i.status, !.role = i.role, !.act = a]
    <3>1. req' = [req EXCEPT ![h] = [q EXCEPT !.saw = i.status, !.role = i.role, !.act = a]]
      BY <1>7 DEF ReadInvite
    <3>. QED  BY <1>3, <3>1
  <2>5. /\ req'[h].op = q.op /\ req'[h].user = q.user /\ req'[h].org = q.org
        /\ req'[h].role = i.role /\ req'[h].mine = q.mine /\ req'[h].inv = q.inv
    <3>. HIDE DEF a, i
    <3>. QED  BY <1>1, <2>4 DEF Request
  <2>6. Parameters(h)'
    BY <1>1, <2>1, <2>2, <2>5 DEF Parameters, OfMembers, OfInvites
  <2>7. Found(h)' /\ Backed(h)'
    BY <2>1, <2>3, <2>5 DEF Found, Backed
  <2>. QED  BY <2>6, <2>7 DEF Linked
<1>8. CASE ReadMembership(h)
  <2>. DEFINE q == req[h]
  <2>1. pc[h] = "member" /\ pc'[h] = "join" /\ invites' = invites /\ founder' = founder
    BY <1>2, <1>8 DEF ReadMembership, tables
  <2>2. req'[h] = [q EXCEPT !.seen = members[q.org][q.user]]
    BY <1>3, <1>8 DEF ReadMembership
  <2>3. /\ req'[h].op = q.op /\ req'[h].user = q.user /\ req'[h].org = q.org
        /\ req'[h].role = q.role /\ req'[h].mine = q.mine /\ req'[h].inv = q.inv
    BY <1>1, <2>2 DEF Request
  <2>4. Parameters(h)'
    BY <1>1, <2>1, <2>3 DEF Parameters, OfMembers, OfInvites
  <2>5. Found(h)' /\ Backed(h)'
    BY <1>1, <2>1, <2>3 DEF Found, Backed
  <2>. QED  BY <2>4, <2>5 DEF Linked
<1>9. End(h) \/ ((CheckNotMember(h) \/ CheckNotInvited(h)) /\ ~End(h)) \/ (LookUpInvite(h) /\ ~End(h))
      \/ (ReadInvite(h) /\ ~End(h)) \/ ReadMembership(h)
  BY DEF InviteStep, InsertInvite, MarkExpired, RevokeInvite, ResendInvite, FailResend, ExpireInvite, Join
<1>. QED  BY <1>4, <1>5, <1>6, <1>7, <1>8, <1>9

-----------------------------------------------------------------------------
(* The inductive invariant *)

\* Who gets a membership, or an organization as his active one, is entitled
\* to it by then.
LEMMA StepTenants ==
  ASSUME IInv, Grows, Next
  PROVE  TenantsApart'
<1>. USE OrgMembersAssumption
<1>1. TypeOK /\ TablesOK /\ TenantsApart
  BY DEF IInv, TypeOK, TablesOK
<1>. SUFFICES ASSUME NEW u \in Users, NEW o \in Orgs, members'[o][u] # None \/ active'[u] = o
              PROVE  Entitled(u, o)'
  BY DEF TenantsApart
<1>2. CASE members[o][u] # None \/ active[u] = o
  BY <1>1, <1>2, EntitledKept DEF TenantsApart
<1>3. CASE members[o][u] = None /\ active[u] # o
  <2>1. ASSUME NEW w \in Users, NEW p \in Orgs, Register(w, p) PROVE Entitled(u, o)'
    <3>1. u = w /\ o = p
      BY <1>1, <1>3, <2>1 DEF Register, TablesOK
    <3>. QED  BY <1>1, <2>1, <3>1 DEF Register, TablesOK, Entitled
  <2>2. ASSUME NEW h \in Handlers, AddFounder(h) PROVE Entitled(u, o)'
    <3>1. u = req[h].user /\ o = req[h].org
      BY <1>1, <1>3, <2>2 DEF AddFounder, TablesOK
    <3>2. founder[req[h].org] = req[h].user
      BY <2>2 DEF AddFounder, IInv, Linked, Backed
    <3>. QED  BY <2>2, <3>1, <3>2 DEF AddFounder, Entitled
  <2>3. ASSUME NEW h \in Handlers, SetActive(h) PROVE Entitled(u, o)'
    <3>1. u = req[h].user /\ o = req[h].org
      BY <1>1, <1>3, <2>3 DEF SetActive, TablesOK
    <3>2. Entitled(u, o)
      BY <2>3, <3>1 DEF SetActive, IInv, Linked, Backed
    <3>. QED  BY <1>1, <3>2, EntitledKept
  <2>4. ASSUME NEW h \in Handlers, Join(h) PROVE Entitled(u, o)'
    <3>. DEFINE q == req[h]
    <3>1. /\ q.inv \in InviteIds /\ invites[q.inv] # None
          /\ invites[q.inv].org = q.org /\ invites[q.inv].email = q.user
      BY <2>4 DEF Join, IInv, Linked, Parameters, Backed, OfInvites
    <3>2. u = q.user /\ o = q.org
      BY <1>1, <1>3, <2>4 DEF Join, TablesOK
    <3>3. invites' # invites \/ members' # members \/ active' # active
      BY <1>3
    <3>4. invites' = [invites EXCEPT ![q.inv] =
                        [invites[q.inv] EXCEPT !.status = "accepted", !.accepted = TRUE]]
      BY <1>1, <1>3, <2>4 DEF Join
    <3>5. invites'[q.inv] = [invites[q.inv] EXCEPT !.status = "accepted", !.accepted = TRUE]
      BY <1>1, <3>1, <3>4 DEF TablesOK
    <3>6. invites[q.inv] \in Invite
      BY <1>1, <3>1, InviteFields
    <3>7. invites'[q.inv].accepted
      BY <3>5, <3>6 DEF Invite
    <3>8. /\ invites'[q.inv] # None /\ invites'[q.inv].org = o
          /\ invites'[q.inv].email = u
      BY <3>1, <3>2 DEF Grows
    <3>. QED  BY <3>1, <3>7, <3>8 DEF Entitled
  <2>5. ASSUME NEW h \in Handlers, WriteRole(h) PROVE Entitled(u, o)'
    <3>1. req[h].org \in Orgs /\ req[h].target \in Users
      BY <2>5 DEF WriteRole, IInv, Linked, Parameters, OfMembers
    <3>2. ~req[h].gone /\ u = req[h].target /\ o = req[h].org
      BY <1>1, <1>3, <2>5, <3>1 DEF WriteRole, TablesOK
    <3>3. members[o][u] # None
      BY <2>5, <3>2 DEF WriteRole, IInv, Linked, Found
    <3>. QED  BY <1>3, <3>3
  <2>6. ASSUME NEW h \in Handlers, DeleteMember(h) PROVE FALSE
    BY <1>1, <1>3, <2>6 DEF DeleteMember, TablesOK
  <2>7. ~ UNCHANGED <<members, active>>
    BY <1>3
  <2>8. ASSUME NEW h \in Handlers, InviteStep(h), ~Join(h) PROVE UNCHANGED <<members, active>>
    BY <2>8 DEF InviteStep, CheckNotMember, CheckNotInvited, InsertInvite, MarkExpired,
         LookUpInvite, RevokeInvite, ResendInvite, FailResend, ReadInvite, ExpireInvite, ReadMembership, tables
  <2>9. ASSUME NEW h \in Handlers, LookUpMember(h) \/ CountOwners(h) \/ MoveOn(h) \/ Crash(h)
        PROVE UNCHANGED <<members, active>>
    BY <2>9 DEF LookUpMember, CountOwners, MoveOn, Crash, tables
  <2>10. ASSUME NEW h \in Handlers, NEW w \in Users, Start(h, w) PROVE UNCHANGED <<members, active>>
    BY <2>10 DEF Start, CreateOrg, Switch, Leave, ListInvites, RemoveMember, UpdateRole, InviteUser,
                AcceptInvite, RegisterWithInvite, ManageInvite, tables
  <2>11. ASSUME NEW v \in InviteIds, Expire(v) PROVE UNCHANGED <<members, active>>
    BY <2>11 DEF Expire
  <2>. QED  BY <2>1, <2>2, <2>3, <2>4, <2>5, <2>6, <2>7, <2>8, <2>9, <2>10, <2>11 DEF Next, MemberStep
<1>. QED  BY <1>2, <1>3

\* New invites come from one step.
LEMMA StepInserts ==
  ASSUME IInv, Next, NEW v \in InviteIds, invites[v] = None, invites'[v] # None
  PROVE  \E h \in Handlers : InsertInvite(h) /\ invites'[v].org = req[h].org /\ invites'[v].status = "pending"
<1>1. TablesOK
  BY DEF IInv, TypeOK, TablesOK
<1>2. ASSUME NEW h \in Handlers, InsertInvite(h)
      PROVE  invites'[v].org = req[h].org /\ invites'[v].status = "pending"
  BY <1>1, <1>2 DEF InsertInvite, TablesOK
<1>3. ASSUME NEW h \in Handlers, MarkExpired(h) PROVE FALSE
  <2>1. v \notin req[h].due
    BY <1>3 DEF MarkExpired, IInv, Linked, Parameters
  <2>. QED  BY <1>3, <2>1 DEF MarkExpired
<1>4. ASSUME NEW h \in Handlers, RevokeInvite(h) \/ ResendInvite(h) \/ ExpireInvite(h) \/ Join(h)
      PROVE  FALSE
  <2>1. v # req[h].inv
    BY <1>4 DEF RevokeInvite, ResendInvite, ExpireInvite, Join, IInv, Linked, Parameters, OfInvites
  <2>. QED  BY <1>1, <1>4, <2>1 DEF RevokeInvite, ResendInvite, ExpireInvite, Join, TablesOK
<1>5. ASSUME NEW w \in InviteIds, Expire(w) PROVE FALSE
  BY <1>1, <1>5 DEF Expire, TablesOK
<1>6. ~ UNCHANGED invites
  OBVIOUS
<1>7. ASSUME NEW h \in Handlers, MemberStep(h) \/ Crash(h) PROVE UNCHANGED invites
  BY <1>7 DEF MemberStep, AddFounder, SetActive, LookUpMember, CountOwners, WriteRole, DeleteMember, MoveOn, Crash, tables
<1>8. ASSUME NEW h \in Handlers, NEW w \in Users, Start(h, w) PROVE UNCHANGED invites
  BY <1>8 DEF Start, CreateOrg, Switch, Leave, ListInvites, RemoveMember, UpdateRole, InviteUser,
              AcceptInvite, RegisterWithInvite, ManageInvite, tables
<1>9. ASSUME NEW h \in Handlers,
             CheckNotMember(h) \/ CheckNotInvited(h) \/ LookUpInvite(h) \/ FailResend(h)
             \/ ReadInvite(h) \/ ReadMembership(h)
      PROVE  UNCHANGED invites
  BY <1>9 DEF CheckNotMember, CheckNotInvited, LookUpInvite, FailResend, ReadInvite, ReadMembership, tables
<1>10. ASSUME NEW w \in Users, NEW o \in Orgs, Register(w, o) PROVE UNCHANGED invites
  BY <1>10 DEF Register
<1>. QED  BY <1>2, <1>3, <1>4, <1>5, <1>6, <1>7, <1>8, <1>9, <1>10 DEF Next, InviteStep

\* Invites are written for organizations that were created.
LEMMA StepFounded ==
  ASSUME IInv, Grows, Next, TenantsApart'
  PROVE  Founded'
<1>. USE OrgMembersAssumption
<1>1. TypeOK /\ TablesOK /\ Founded
  BY DEF IInv, TypeOK, TablesOK
<1>2. ASSUME NEW v \in InviteIds, invites'[v] # None
      PROVE  founder'[invites'[v].org] # None
  <2>1. CASE invites[v] # None
    <3>1. invites[v].org \in Orgs /\ founder[invites[v].org] # None
      BY <1>1, <2>1, InviteFields DEF Founded
    <3>. QED  BY <2>1, <3>1 DEF Grows
  <2>2. CASE invites[v] = None
    <3>1. PICK h \in Handlers : InsertInvite(h) /\ invites'[v].org = req[h].org
      BY <1>2, <2>2, StepInserts
    <3>2. req[h].org \in Orgs /\ founder[req[h].org] # None
      BY <3>1 DEF InsertInvite, IInv, Linked, Parameters
    <3>. QED  BY <3>1, <3>2 DEF InsertInvite
  <2>. QED  BY <2>1, <2>2
<1>3. ASSUME NEW o \in Orgs, NEW u \in Users, members'[o][u] # None
      PROVE  founder'[o] # None
  <2>1. Entitled(u, o)'
    BY <1>3 DEF TenantsApart
  <2>. QED  BY <1>2, <2>1 DEF Entitled
<1>. QED  BY <1>2, <1>3 DEF Founded

LEMMA InitIInv ==
  ASSUME Init
  PROVE  IInv
<1>1. TypeOK
  BY DEF Init, TypeOK, Steps, NoRequest, Request, Ops
<1>2. Founded /\ TenantsApart
  BY OrgMembersAssumption DEF Init, Founded, TenantsApart
<1>3. ASSUME NEW h \in Handlers PROVE Linked(h)
  <2>1. pc[h] = "idle" /\ req[h] = NoRequest
    BY DEF Init
  <2>2. Parameters(h)
    BY <2>1, OrgMembersAssumption DEF NoRequest, Parameters, OfMembers, OfInvites, Ops
  <2>3. Found(h) /\ Backed(h)
    BY <2>1 DEF Found, Backed
  <2>. QED  BY <2>2, <2>3 DEF Linked
<1>. QED  BY <1>1, <1>2, <1>3 DEF IInv

LEMMA SameIInv ==
  ASSUME IInv, UNCHANGED vars
  PROVE  IInv'
<1>1. TypeOK' /\ Founded' /\ TenantsApart'
  BY DEF IInv, TypeOK, Founded, TenantsApart, Entitled, vars
<1>2. ASSUME NEW h \in Handlers PROVE Linked(h)'
  <2>1. Linked(h)
    BY DEF IInv
  <2>. QED  BY <2>1 DEF Linked, Parameters, Found, Backed, Entitled, vars
<1>. QED  BY <1>1, <1>2 DEF IInv

LEMMA StepIInv ==
  ASSUME IInv, Next
  PROVE  IInv'
<1>1. TypeOK' /\ Grows
  BY StepTypes, StepGrows
<1>2. TenantsApart' /\ Founded'
  BY <1>1, StepTenants, StepFounded
<1>3. ASSUME NEW g \in Handlers PROVE Linked(g)'
  <2>1. CASE \E h \in Handlers \ {g} : \/ \E u \in Users : Start(h, u)
                                       \/ MemberStep(h) \/ InviteStep(h) \/ Crash(h)
    BY <1>1, <2>1, StepsAside, AsideLinked
  <2>2. CASE \/ \E u \in Users : Start(g, u)
             \/ MemberStep(g) \/ InviteStep(g)
    BY <1>1, <2>2, StartLinked, MemberStepLinked, InviteStepLinked
  <2>3. CASE Crash(g)
    BY <2>3, EndedLinked DEF Crash, IInv, TypeOK, RequestsOK
  <2>4. CASE (\E u \in Users, o \in Orgs : Register(u, o)) \/ (\E v \in InviteIds : Expire(v))
    <3>1. pc' = pc /\ req' = req
      BY <2>4 DEF Register, Expire
    <3>2. \A o \in Orgs, u \in Users : members[o][u] # None => members'[o][u] # None
      BY <2>4, OrgMembersAssumption DEF Register, Expire, IInv, TypeOK, Roles
    <3>3. RequestsOK
      BY DEF IInv, TypeOK, RequestsOK
    <3>. QED  BY <1>1, <3>1, <3>2, <3>3, AsideIfSame, AsideLinked
  <2>. QED  BY <2>1, <2>2, <2>3, <2>4 DEF Next
<1>. QED  BY <1>1, <1>2, <1>3 DEF IInv

LEMMA Inductive == Spec => []IInv
<1>1. Init => IInv
  BY InitIInv
<1>2. IInv /\ [Next]_vars => IInv'
  BY StepIInv, SameIInv
<1>. QED  BY <1>1, <1>2, PTL DEF Spec

-----------------------------------------------------------------------------
(* Theorems *)

\* Type correctness: tables and requests keep the shapes the code gives them.
THEOREM TypeCorrect == Spec => []TypeOK
<1>1. IInv => TypeOK
  BY DEF IInv
<1>. QED  BY <1>1, Inductive, PTL

\* Tenants stay apart: a user belongs to an organization, or has it as his
\* active one, only if he created it or accepted an invite sent to him.
THEOREM TenantsStayApart == Spec => []TenantsApart
<1>1. IInv => TenantsApart
  BY DEF IInv
<1>. QED  BY <1>1, Inductive, PTL

-----------------------------------------------------------------------------
(* Closed invites *)

\* A status that closes an invite is only written with its date.
Marked(i) == /\ i.status = "accepted" => i.accepted
             /\ i.status = "revoked" => i.revoked

AllMarked == \A v \in InviteIds : invites[v] # None => Marked(invites[v])

\* An invite as a step leaves it: no date is taken back, and no status that
\* closes it is written without one.
Rewritten(i, n) ==
  /\ i.accepted => n.accepted
  /\ i.revoked => n.revoked
  /\ n.status = "accepted" => n.accepted \/ i.status = "accepted"
  /\ n.status = "revoked" => n.revoked \/ i.status = "revoked"

LEMMA Rewrites ==
  ASSUME NEW i \in Invite
  PROVE  /\ Rewritten(i, [i EXCEPT !.expired = TRUE])
         /\ Rewritten(i, [i EXCEPT !.status = "expired"])
         /\ Rewritten(i, [i EXCEPT !.status = "revoked", !.revoked = TRUE])
         /\ Rewritten(i, [i EXCEPT !.status = "accepted", !.accepted = TRUE])
         /\ \A s \in {i.status, "pending"} : Rewritten(i, [i EXCEPT !.expired = FALSE, !.status = s])
         /\ \A s \in {i.status, "expired"} : Rewritten(i, [i EXCEPT !.status = s])
BY DEF Rewritten, Invite

\* What a step makes of an invite that is there.
LEMMA StepRewrites ==
  ASSUME IInv, Next, NEW v \in InviteIds, invites[v] # None
  PROVE  Rewritten(invites[v], invites'[v])
<1>. USE OrgMembersAssumption
<1>1. TablesOK /\ invites[v] \in Invite /\ Rewritten(invites[v], invites[v])
  BY DEF IInv, TypeOK, TablesOK, Rewritten
<1>2. UNCHANGED invites => Rewritten(invites[v], invites'[v])
  BY <1>1
<1>3. ASSUME NEW w \in InviteIds, Expire(w) PROVE Rewritten(invites[v], invites'[v])
  <2>1. invites'[v] \in {invites[v], [invites[v] EXCEPT !.expired = TRUE]}
    BY <1>1, <1>3 DEF Expire, TablesOK
  <2>. QED  BY <1>1, <2>1, Rewrites
<1>4. ASSUME NEW h \in Handlers, InsertInvite(h) PROVE invites'[v] = invites[v]
  BY <1>1, <1>4 DEF InsertInvite, TablesOK
<1>5. ASSUME NEW h \in Handlers, MarkExpired(h) PROVE Rewritten(invites[v], invites'[v])
  <2>1. invites'[v] \in {invites[v], [invites[v] EXCEPT !.status = "expired"]}
    BY <1>5 DEF MarkExpired
  <2>. QED  BY <1>1, <2>1, Rewrites
<1>6. ASSUME NEW h \in Handlers, RevokeInvite(h) PROVE Rewritten(invites[v], invites'[v])
  <2>1. invites'[v] \in {invites[v], [invites[v] EXCEPT !.status = "revoked", !.revoked = TRUE]}
    BY <1>1, <1>6 DEF RevokeInvite, TablesOK
  <2>. QED  BY <1>1, <2>1, Rewrites
<1>7. ASSUME NEW h \in Handlers, ResendInvite(h) PROVE Rewritten(invites[v], invites'[v])
  <2>1. \/ invites'[v] = invites[v]
        \/ \E s \in {invites[v].status, "pending"} :
             invites'[v] = [invites[v] EXCEPT !.expired = FALSE, !.status = s]
    BY <1>1, <1>7 DEF ResendInvite, TablesOK
  <2>. QED  BY <1>1, <2>1, Rewrites
<1>8. ASSUME NEW h \in Handlers, ExpireInvite(h) PROVE Rewritten(invites[v], invites'[v])
  <2>1. \/ invites'[v] = invites[v]
        \/ \E s \in {invites[v].status, "expired"} : invites'[v] = [invites[v] EXCEPT !.status = s]
    BY <1>1, <1>8 DEF ExpireInvite, TablesOK
  <2>. QED  BY <1>1, <2>1, Rewrites
<1>9. ASSUME NEW h \in Handlers, Join(h) PROVE Rewritten(invites[v], invites'[v])
  <2>1. invites'[v] \in {invites[v], [invites[v] EXCEPT !.status = "accepted", !.accepted = TRUE]}
    <3>. DEFINE n == [invites[req[h].inv] EXCEPT !.status = "accepted", !.accepted = TRUE]
    <3>1. invites' = invites \/ invites' = [invites EXCEPT ![req[h].inv] = n]
      <4>1. req[h].inv \in InviteIds
        BY <1>9 DEF Join, IInv, Linked, Parameters, OfInvites
      <4>. QED  BY <1>1, <1>9, <4>1 DEF Join, TablesOK
    <3>2. v = req[h].inv => n = [invites[v] EXCEPT !.status = "accepted", !.accepted = TRUE]
      OBVIOUS
    <3>. HIDE DEF n
    <3>. QED  BY <1>1, <3>1, <3>2 DEF TablesOK
  <2>. QED  BY <1>1, <2>1, Rewrites
<1>10. ASSUME NEW h \in Handlers, MemberStep(h) \/ Crash(h) PROVE UNCHANGED invites
  BY <1>10 DEF MemberStep, AddFounder, SetActive, LookUpMember, CountOwners, WriteRole, DeleteMember, MoveOn, Crash, tables
<1>11. ASSUME NEW h \in Handlers, NEW w \in Users, Start(h, w) PROVE UNCHANGED invites
  BY <1>11 DEF Start, CreateOrg, Switch, Leave, ListInvites, RemoveMember, UpdateRole, InviteUser,
              AcceptInvite, RegisterWithInvite, ManageInvite, tables
<1>12. ASSUME NEW h \in Handlers,
             CheckNotMember(h) \/ CheckNotInvited(h) \/ LookUpInvite(h) \/ FailResend(h)
             \/ ReadInvite(h) \/ ReadMembership(h)
      PROVE  UNCHANGED invites
  BY <1>12 DEF CheckNotMember, CheckNotInvited, LookUpInvite, FailResend, ReadInvite, ReadMembership, tables
<1>13. ASSUME NEW w \in Users, NEW o \in Orgs, Register(w, o) PROVE UNCHANGED invites
  BY <1>13 DEF Register
<1>. QED  BY <1>1, <1>2, <1>3, <1>4, <1>5, <1>6, <1>7, <1>8, <1>9, <1>10, <1>11, <1>12, <1>13 DEF Next, InviteStep

LEMMA AllMarkedInductive == Spec => [](IInv /\ AllMarked)
<1>1. Init => AllMarked
  BY OrgMembersAssumption DEF Init, AllMarked
<1>2. ASSUME IInv, AllMarked, [Next]_vars PROVE AllMarked'
  <2>1. CASE UNCHANGED vars
    BY <1>2, <2>1 DEF AllMarked, vars
  <2>2. ASSUME Next, NEW v \in InviteIds, invites'[v] # None PROVE Marked(invites'[v])
    <3>1. CASE invites[v] = None
      BY <1>2, <2>2, <3>1, StepInserts DEF Marked
    <3>2. CASE invites[v] # None
      <4>1. Rewritten(invites[v], invites'[v]) /\ Marked(invites[v])
        BY <1>2, <2>2, <3>2, StepRewrites DEF AllMarked
      <4>. QED  BY <4>1 DEF Rewritten, Marked
    <3>. QED  BY <3>1, <3>2
  <2>. QED  BY <1>2, <2>1, <2>2 DEF AllMarked, Marked
<1>. QED  BY <1>1, <1>2, Inductive, PTL DEF Spec

\* An invite that was accepted or revoked never resolves as open again: the
\* requests that overwrite its status leave it the date.
THEOREM ClosedStayClosed == Spec => ClosedInvitesStayClosed
<1>1. ASSUME NEW i \in Invite
      PROVE  resolve_invite_status(i) \in {"accepted", "revoked"} <=> IsRevoked(i) \/ IsAccepted(i)
  <2>1. CASE IsRevoked(i)
    BY <2>1 DEF resolve_invite_status, Invite
  <2>2. CASE ~IsRevoked(i) /\ IsAccepted(i)
    BY <2>2 DEF resolve_invite_status, Invite
  <2>3. CASE ~IsRevoked(i) /\ ~IsAccepted(i)
    BY <2>3 DEF resolve_invite_status, Invite
  <2>. QED  BY <2>1, <2>2, <2>3
<1>. DEFINE Kept == \A v \in InviteIds :
       invites[v] # None /\ resolve_invite_status(invites[v]) \in {"accepted", "revoked"}
         => resolve_invite_status(invites'[v]) \in {"accepted", "revoked"}
<1>2. ASSUME IInv, AllMarked, Next, NEW v \in InviteIds, invites[v] # None,
             resolve_invite_status(invites[v]) \in {"accepted", "revoked"}
      PROVE  resolve_invite_status(invites'[v]) \in {"accepted", "revoked"}
  <2>1. Rewritten(invites[v], invites'[v]) /\ Marked(invites[v])
    BY <1>2, StepRewrites DEF AllMarked
  <2>. invites[v] \in Invite /\ invites'[v] \in Invite
    <3>1. TypeOK' /\ Grows
      BY <1>2, StepTypes, StepGrows
    <3>. QED  BY <1>2, <3>1 DEF IInv, TypeOK, Grows
  <2>2. IsRevoked(invites[v]) \/ IsAccepted(invites[v])
    BY <1>1, <1>2
  <2>3. IsRevoked(invites'[v]) \/ IsAccepted(invites'[v])
    BY <2>1, <2>2 DEF Rewritten, Marked, IsRevoked, IsAccepted
  <2>. QED  BY <1>1, <2>3
<1>3. (IInv /\ AllMarked) /\ [Next]_vars => [Kept]_vars
  BY <1>2
<1>. QED  BY <1>3, AllMarkedInductive, PTL DEF Spec, ClosedInvitesStayClosed

-----------------------------------------------------------------------------
(* Roles *)

\* The steps that write memberships.
LEMMA WhoWritesMembers ==
  ASSUME Next, members' # members
  PROVE  \/ \E u \in Users, o \in Orgs : Register(u, o)
         \/ \E h \in Handlers : AddFounder(h) \/ WriteRole(h) \/ DeleteMember(h) \/ Join(h)
<1>1. ASSUME NEW h \in Handlers, SetActive(h) \/ LookUpMember(h) \/ CountOwners(h) \/ MoveOn(h) \/ Crash(h)
      PROVE  members' = members
  BY <1>1 DEF SetActive, LookUpMember, CountOwners, MoveOn, Crash, tables
<1>2. ASSUME NEW h \in Handlers, InviteStep(h), ~Join(h) PROVE members' = members
  BY <1>2 DEF InviteStep, CheckNotMember, CheckNotInvited, InsertInvite, MarkExpired,
       LookUpInvite, RevokeInvite, ResendInvite, FailResend, ReadInvite, ExpireInvite, ReadMembership, tables
<1>3. ASSUME NEW h \in Handlers, NEW u \in Users, Start(h, u) PROVE members' = members
  BY <1>3 DEF Start, CreateOrg, Switch, Leave, ListInvites, RemoveMember, UpdateRole, InviteUser,
              AcceptInvite, RegisterWithInvite, ManageInvite, tables
<1>4. ASSUME NEW v \in InviteIds, Expire(v) PROVE members' = members
  BY <1>4 DEF Expire
<1>. QED  BY <1>1, <1>2, <1>3, <1>4 DEF Next, MemberStep

\* While an organization waits for its first membership nobody belongs to it,
\* and no other request works on it.
New(h) ==
  pc[h] = "found" =>
    /\ \A u \in Users : members[req[h].org][u] = None
    /\ \A v \in InviteIds : invites[v] # None => invites[v].org # req[h].org
    /\ \A g \in Handlers \ {h} : req[g].org # req[h].org

AllNew == \A h \in Handlers : New(h)

\* A step that leaves the memberships, the invites and the requests of an
\* organization alone.
Spares(o) ==
  /\ members'[o] = members[o]
  /\ \A v \in InviteIds : invites'[v] # None /\ invites'[v].org = o =>
       invites[v] # None /\ invites[v].org = o

LEMMA StepSpares ==
  ASSUME IInv, Next, NEW h \in Handlers, pc[h] = "found", New(h), pc'[h] = "found"
  PROVE  Spares(req[h].org)
<1>. USE OrgMembersAssumption
<1>. DEFINE o == req[h].org
<1>1. /\ TypeOK /\ TablesOK /\ RequestsOK /\ o \in Orgs /\ founder[o] # None
  BY DEF IInv, TypeOK, TablesOK, RequestsOK, Linked, Parameters
<1>2. \A g \in Handlers \ {h} : req[g].org # o
  BY DEF New
<1>3. members'[o] = members[o]
  <2>1. ASSUME NEW w \in Users, NEW p \in Orgs, Register(w, p) PROVE members'[o] = members[o]
    BY <1>1, <2>1 DEF Register, TablesOK
  <2>2. ASSUME NEW g \in Handlers,
               AddFounder(g) \/ WriteRole(g) \/ DeleteMember(g) \/ Join(g)
        PROVE  members'[o] = members[o]
    <3>1. g # h
      <4>1. CASE AddFounder(h)
        BY <1>1, <4>1 DEF AddFounder, End, RequestsOK
      <4>. QED  BY <2>2, <4>1 DEF AddFounder, WriteRole, DeleteMember, Join
    <3>. QED  BY <1>1, <1>2, <2>2, <3>1 DEF AddFounder, WriteRole, DeleteMember, Join, TablesOK
  <2>. QED  BY <1>1, <2>1, <2>2, WhoWritesMembers
<1>4. ASSUME NEW v \in InviteIds, invites'[v] # None, invites'[v].org = o
      PROVE  invites[v] # None /\ invites[v].org = o
  <2>1. CASE invites[v] = None
    <3>1. PICK g \in Handlers : InsertInvite(g) /\ invites'[v].org = req[g].org
      BY <1>4, <2>1, StepInserts
    <3>2. g # h
      BY <3>1 DEF InsertInvite
    <3>. QED  BY <1>2, <1>4, <3>1, <3>2
  <2>2. CASE invites[v] # None
    BY <1>4, <2>2, StepGrows DEF Grows
  <2>. QED  BY <2>1, <2>2
<1>. QED  BY <1>3, <1>4 DEF Spares

\* The organization that a request works on after a step.
LEMMA StepOrg ==
  ASSUME IInv, NEW g \in Handlers,
         \/ \E u \in Users : Start(g, u)
         \/ MemberStep(g) \/ InviteStep(g) \/ Crash(g)
  PROVE  \/ req'[g].org \in {None, req[g].org}
         \/ req'[g].org \in Orgs /\ founder[req'[g].org] = None
         \/ req'[g].org \in Orgs /\ \E u \in Users : members[req'[g].org][u] # None
         \/ \E v \in InviteIds : invites[v] # None /\ req'[g].org = invites[v].org
<1>. USE OrgMembersAssumption
<1>1. RequestsOK /\ TablesOK /\ req[g] \in Request /\ Parameters(g)
  BY DEF IInv, TypeOK, TablesOK, RequestsOK, Linked
<1>2. End(g) => req'[g].org = None
  BY <1>1 DEF End, RequestsOK, NoRequest
<1>3. \A s, q, u : Begin(g, u, s, q) => req'[g] = q
  BY <1>1 DEF Begin, RequestsOK
<1>4. ASSUME NEW u \in Users, NEW o \in Orgs, CreateOrg(g, u, o)
      PROVE  req'[g].org = o /\ founder[o] = None
  BY <1>3, <1>4 DEF CreateOrg, NoRequest
<1>5. ASSUME NEW u \in Users, NEW o \in Orgs,
             \/ Switch(g, u, o) \/ Leave(g, u, o) \/ ListInvites(g, u, o)
             \/ \E t \in Users : RemoveMember(g, u, o, t)
             \/ \E t \in Users, r \in AskedRoles : UpdateRole(g, u, o, t, r) \/ InviteUser(g, u, o, t, r)
      PROVE  req'[g].org = o /\ members[o][u] # None
  <2>1. members[o][u] # None
    BY <1>5 DEF Switch, Leave, ListInvites, RemoveMember, UpdateRole, InviteUser, can_invite, can_change_roles,
                can_manage_members, Roles
  <2>2. CASE Switch(g, u, o)
    BY <1>3, <2>2 DEF Switch, NoRequest
  <2>3. CASE Leave(g, u, o)
    BY <1>3, <2>3 DEF Leave, NoRequest
  <2>4. CASE ListInvites(g, u, o)
    <3>1. PICK d : Begin(g, u, "mark", [NoRequest EXCEPT !.user = u, !.org = o, !.due = d])
      BY <2>4 DEF ListInvites
    <3>2. req'[g] = [NoRequest EXCEPT !.user = u, !.org = o, !.due = d]
      BY <1>3, <3>1
    <3>. QED  BY <2>1, <3>2 DEF NoRequest
  <2>5. ASSUME NEW t \in Users, RemoveMember(g, u, o, t) PROVE req'[g].org = o
    BY <1>3, <2>5 DEF RemoveMember, NoRequest
  <2>6. ASSUME NEW t \in Users, NEW r \in AskedRoles, UpdateRole(g, u, o, t, r) PROVE req'[g].org = o
    BY <1>3, <2>6 DEF UpdateRole, NoRequest
  <2>7. ASSUME NEW t \in Users, NEW r \in AskedRoles, InviteUser(g, u, o, t, r) PROVE req'[g].org = o
    BY <1>3, <2>7 DEF InviteUser, NoRequest
  <2>. QED  BY <1>5, <2>1, <2>2, <2>3, <2>4, <2>5, <2>6, <2>7
<1>6. ASSUME NEW u \in Users, NEW v \in InviteIds,
             \/ AcceptInvite(g, u, v) \/ RegisterWithInvite(g, u, v)
             \/ \E op \in {"revoke", "resend"} : ManageInvite(g, u, v, op)
      PROVE  invites[v] # None /\ req'[g].org = invites[v].org
  <2>1. CASE AcceptInvite(g, u, v)
    BY <1>3, <2>1 DEF AcceptInvite, NoRequest
  <2>2. CASE RegisterWithInvite(g, u, v)
    BY <1>1, <2>2 DEF RegisterWithInvite, NoRequest, RequestsOK
  <2>3. ASSUME NEW op \in {"revoke", "resend"}, ManageInvite(g, u, v, op)
        PROVE  invites[v] # None /\ req'[g].org = invites[v].org
    BY <1>3, <2>3 DEF ManageInvite, NoRequest
  <2>. QED  BY <1>6, <2>1, <2>2, <2>3
<1>7. CASE MoveOn(g) /\ ~End(g)
  <2>1. PICK o : /\ o = None \/ (o \in Orgs /\ members[o][req[g].user] # None)
                 /\ req' = [req EXCEPT ![g] = [req[g] EXCEPT !.act = req[g].org, !.org = o]]
    BY <1>7 DEF MoveOn
  <2>2. req'[g] = [req[g] EXCEPT !.act = req[g].org, !.org = o]
    BY <1>1, <2>1 DEF RequestsOK
  <2>3. req'[g].org = o /\ req[g].user \in Users
    BY <1>1, <1>7, <2>2 DEF Request, MoveOn, Parameters
  <2>. QED  BY <2>1, <2>3
<1>8. CASE DeleteMember(g)
  <2>1. req'[g] = IF req[g].op = "leave" THEN [NoRequest EXCEPT !.user = req[g].user, !.org = req[g].org]
                    ELSE NoRequest
    BY <1>1, <1>8 DEF DeleteMember, RequestsOK
  <2>. QED  BY <2>1 DEF NoRequest
<1>9. ASSUME \/ LookUpMember(g) \/ CountOwners(g) \/ CheckNotMember(g) \/ CheckNotInvited(g)
             \/ LookUpInvite(g) \/ ReadInvite(g) \/ ReadMembership(g),
             ~End(g)
      PROVE  req'[g].org = req[g].org
  <2>1. \/ req' = req
        \/ \E x : req' = [req EXCEPT ![g] = [req[g] EXCEPT !.seen = x]]
        \/ \E x : req' = [req EXCEPT ![g] = [req[g] EXCEPT !.saw = x]]
        \/ \E x, y, z : req' = [req EXCEPT ![g] = [req[g] EXCEPT !.saw = x, !.role = y, !.act = z]]
    <3>1. CASE LookUpMember(g)
      BY <1>9, <3>1 DEF LookUpMember
    <3>2. CASE CountOwners(g) \/ CheckNotMember(g) \/ CheckNotInvited(g)
      BY <1>9, <3>2 DEF CountOwners, CheckNotMember, CheckNotInvited
    <3>3. CASE LookUpInvite(g)
      BY <1>9, <3>3 DEF LookUpInvite
    <3>4. CASE ReadInvite(g)
      <4>. DEFINE y == invites[req[g].inv].role
                  z == IF req[g].op = "register" THEN active[req[g].user] ELSE req[g].act
      <4>1. req' = [req EXCEPT ![g] = [req[g] EXCEPT !.saw = invites[req[g].inv].status, !.role = y, !.act = z]]
        BY <1>9, <3>4 DEF ReadInvite
      <4>. HIDE DEF y, z
      <4>. QED  BY <4>1
    <3>5. CASE ReadMembership(g)
      BY <1>9, <3>5 DEF ReadMembership
    <3>. QED  BY <1>9, <3>1, <3>2, <3>3, <3>4, <3>5
  <2>2. ASSUME NEW x, req' = [req EXCEPT ![g] = [req[g] EXCEPT !.seen = x]] PROVE req'[g].org = req[g].org
    BY <1>1, <2>2 DEF RequestsOK, Request
  <2>3. ASSUME NEW x, req' = [req EXCEPT ![g] = [req[g] EXCEPT !.saw = x]] PROVE req'[g].org = req[g].org
    BY <1>1, <2>3 DEF RequestsOK, Request
  <2>4. ASSUME NEW x, NEW y, NEW z, req' = [req EXCEPT ![g] = [req[g] EXCEPT !.saw = x, !.role = y, !.act = z]]
        PROVE req'[g].org = req[g].org
    BY <1>1, <2>4 DEF RequestsOK, Request
  <2>. QED  BY <2>1, <2>2, <2>3, <2>4
<1>10. MemberStep(g) \/ InviteStep(g) \/ Crash(g) =>
         \/ End(g) \/ (MoveOn(g) /\ ~End(g)) \/ DeleteMember(g)
         \/ LookUpMember(g) \/ CountOwners(g) \/ CheckNotMember(g) \/ CheckNotInvited(g)
         \/ LookUpInvite(g) \/ ReadInvite(g) \/ ReadMembership(g)
  BY DEF MemberStep, InviteStep, AddFounder, SetActive, WriteRole, InsertInvite, MarkExpired, RevokeInvite,
         ResendInvite, FailResend, ExpireInvite, Join, Crash
<1>11. CASE MemberStep(g) \/ InviteStep(g) \/ Crash(g)
  BY <1>2, <1>7, <1>8, <1>9, <1>10, <1>11
<1>12. CASE \E u \in Users : Start(g, u)
  BY <1>4, <1>5, <1>6, <1>12 DEF Start
<1>. QED  BY <1>11, <1>12

LEMMA AllNewInductive == Spec => [](IInv /\ AllNew)
<1>. USE OrgMembersAssumption
<1>1. Init => AllNew
  BY DEF Init, AllNew, New
<1>2. ASSUME IInv, AllNew, Next, NEW h \in Handlers
      PROVE  New(h)'
  <2>. DEFINE o == req'[h].org
  <2>. SUFFICES ASSUME pc'[h] = "found"
                PROVE  /\ \A u \in Users : members'[o][u] = None
                       /\ \A v \in InviteIds : invites'[v] # None => invites'[v].org # o
                       /\ \A g \in Handlers \ {h} : req'[g].org # o
    BY DEF New
  <2>1. /\ RequestsOK /\ TablesOK /\ Founded /\ Grows
        /\ \A g \in Handlers : Parameters(g)
    BY <1>2, StepGrows DEF IInv, TypeOK, TablesOK, RequestsOK, Linked
  <2>2. CASE \E u \in Users, p \in Orgs : CreateOrg(h, u, p)
    <3>1. PICK u \in Users, p \in Orgs : CreateOrg(h, u, p)
      BY <2>2
    <3>2. req' = [req EXCEPT ![h] = [NoRequest EXCEPT !.user = u, !.org = p]]
      BY <3>1 DEF CreateOrg, Begin
    <3>3. o = p /\ \A g \in Handlers \ {h} : req'[g] = req[g]
      BY <2>1, <3>2 DEF RequestsOK, NoRequest
    <3>4. founder[p] = None /\ members' = members /\ invites' = invites
      BY <3>1 DEF CreateOrg
    <3>5. \A u2 \in Users : members[p][u2] = None
      BY <2>1, <3>4 DEF Founded
    <3>6. \A v \in InviteIds : invites[v] # None => invites[v].org # p
      BY <2>1, <3>4 DEF Founded
    <3>7. \A g \in Handlers : req[g].org # p
      BY <2>1, <3>4 DEF Parameters
    <3>. QED  BY <3>3, <3>4, <3>5, <3>6, <3>7
  <2>3. CASE ~ \E u \in Users, p \in Orgs : CreateOrg(h, u, p)
    <3>1. pc[h] = "found"
      <4>1. ASSUME pc'[h] # pc[h]
            PROVE  FALSE
        <5>1. ASSUME NEW g \in Handlers, MemberStep(g) \/ InviteStep(g) \/ Crash(g)
              PROVE  pc'[h] \in {pc[h], "idle", "count", "write", "left", "switch", "pending", "insert",
                                 "revoke", "resend", "expire", "member", "join"}
          <6>1. LookUpInvite(g) => req[g].op \in {"revoke", "resend"}
            BY <2>1 DEF LookUpInvite, Parameters
          <6>. QED  BY <2>1, <5>1, <6>1 DEF RequestsOK, MemberStep, InviteStep, AddFounder, SetActive, LookUpMember,
                 CountOwners, WriteRole, DeleteMember, MoveOn, CheckNotMember, CheckNotInvited, InsertInvite,
                 MarkExpired, LookUpInvite, RevokeInvite, ResendInvite, FailResend, ReadInvite, ExpireInvite,
                 ReadMembership, Join, Crash, End, GoOn
        <5>2. ASSUME NEW g \in Handlers, NEW u \in Users, Start(g, u)
              PROVE  pc'[h] \in {pc[h], "switch", "count", "write", "mark", "lookup", "email", "token", "invite"}
          <6>1. g # h => pc'[h] = pc[h]
            BY <1>2, <5>2, StepsAside DEF Aside
          <6>2. CASE g = h
            BY <2>1, <2>3, <5>2, <6>2 DEF RequestsOK, Start, Switch, Leave, ListInvites, RemoveMember, UpdateRole,
                InviteUser, AcceptInvite, RegisterWithInvite, ManageInvite, Begin, GoOn
          <6>. QED  BY <6>1, <6>2
        <5>. QED  BY <1>2, <4>1, <5>1, <5>2 DEF Next, Register, Expire
      <4>. QED  BY <4>1
    <3>2. New(h) /\ Spares(req[h].org)
      BY <1>2, <3>1, StepSpares DEF AllNew
    <3>3. PICK p \in Orgs : p = req[h].org /\ founder[p] # None
      BY <2>1, <3>1 DEF Parameters
    <3>4. o = p
      <4>1. ASSUME NEW g \in Handlers \ {h},
                   (\E u \in Users : Start(g, u)) \/ MemberStep(g) \/ InviteStep(g) \/ Crash(g)
            PROVE  req'[h].org = req[h].org
        <5>1. Aside(h) /\ req[h] \in Request
          BY <1>2, <4>1, StepsAside DEF IInv, TypeOK
        <5>. QED  BY <5>1 DEF Aside, Request
      <4>2. ASSUME (\E u \in Users : Start(h, u)) \/ MemberStep(h) \/ InviteStep(h) \/ Crash(h)
            PROVE  FALSE
        <5>1. AddFounder(h) \/ Crash(h)
          BY <3>1, <4>2 DEF Start, MemberStep, InviteStep, CreateOrg, Switch, Leave, ListInvites, RemoveMember, UpdateRole,
              InviteUser, AcceptInvite, RegisterWithInvite, ManageInvite, Begin, AddFounder, SetActive, LookUpMember,
              CountOwners, WriteRole, DeleteMember, MoveOn, CheckNotMember, CheckNotInvited, InsertInvite,
              MarkExpired, LookUpInvite, RevokeInvite, ResendInvite, FailResend, ReadInvite, ExpireInvite,
              ReadMembership, Join
        <5>. QED  BY <2>1, <5>1 DEF AddFounder, Crash, End, RequestsOK
      <4>. QED  BY <1>2, <3>3, <4>1, <4>2 DEF Next, Register, Expire
    <3>5. \A u \in Users : members'[o][u] = None
      BY <3>2, <3>3, <3>4, <3>1 DEF New, Spares
    <3>6. \A v \in InviteIds : invites'[v] # None => invites'[v].org # o
      BY <3>1, <3>2, <3>3, <3>4 DEF New, Spares
    <3>7. ASSUME NEW g \in Handlers \ {h} PROVE req'[g].org # o
      <4>1. req[g].org # p
        BY <3>1, <3>2, <3>3 DEF New
      <4>2. CASE (\E u \in Users : Start(g, u)) \/ MemberStep(g) \/ InviteStep(g) \/ Crash(g)
        BY <1>2, <3>1, <3>2, <3>3, <3>4, <4>1, <4>2, StepOrg DEF New
      <4>3. ASSUME NEW k \in Handlers \ {g},
                   (\E u \in Users : Start(k, u)) \/ MemberStep(k) \/ InviteStep(k) \/ Crash(k)
            PROVE  req'[g].org = req[g].org
        <5>1. Aside(g) /\ req[g] \in Request
          BY <1>2, <4>3, StepsAside DEF IInv, TypeOK
        <5>. QED  BY <5>1 DEF Aside, Request
      <4>. QED  BY <1>2, <3>4, <4>1, <4>2, <4>3 DEF Next, Register, Expire
    <3>. QED  BY <3>5, <3>6, <3>7
  <2>. QED  BY <2>2, <2>3
<1>3. ASSUME IInv, AllNew, [Next]_vars PROVE AllNew'
  <2>1. CASE UNCHANGED vars
    BY <1>3, <2>1 DEF AllNew, New, vars
  <2>. QED  BY <1>2, <1>3, <2>1 DEF AllNew
<1>. QED  BY <1>1, <1>3, Inductive, PTL DEF Spec

\* Only owners change roles: a member keeps his role until a request of a
\* user it read as an owner changes it.
THEOREM OnlyOwnersChangeRoles == Spec => RolesChangeByOwners
<1>. USE OrgMembersAssumption
<1>. DEFINE Changed(o, u) == members[o][u] # None /\ members'[o][u] \notin {None, members[o][u]}
            ByOwner(o, u) == \E h \in Handlers :
              /\ pc[h] = "write" /\ req[h].op = "update" /\ req[h].mine = "owner"
              /\ req[h].org = o /\ req[h].target = u
            Kept == \A o \in Orgs, u \in Users : Changed(o, u) => ByOwner(o, u)
<1>1. ASSUME IInv, AllNew, Next, NEW o \in Orgs, NEW u \in Users, Changed(o, u)
      PROVE  ByOwner(o, u)
  <2>1. TablesOK /\ Founded
    BY <1>1 DEF IInv, TypeOK, TablesOK
  <2>2. ASSUME NEW w \in Users, NEW p \in Orgs, Register(w, p) PROVE FALSE
    BY <1>1, <2>1, <2>2 DEF Register, TablesOK, Founded
  <2>3. ASSUME NEW h \in Handlers, AddFounder(h) PROVE FALSE
    <3>1. pc[h] = "found" /\ req[h].user \in Users
      BY <1>1, <2>3 DEF AddFounder, IInv, Linked, Parameters
    <3>2. members[req[h].org][req[h].user] = None
      BY <1>1, <3>1 DEF AllNew, New
    <3>. QED  BY <1>1, <2>1, <2>3, <3>2 DEF AddFounder, TablesOK
  <2>4. ASSUME NEW h \in Handlers, WriteRole(h) PROVE ByOwner(o, u)
    <3>1. req[h].org = o /\ req[h].target = u
      BY <1>1, <2>1, <2>4 DEF WriteRole, TablesOK
    <3>2. req[h].mine = "owner"
      BY <1>1, <2>4 DEF WriteRole, IInv, Linked, Parameters
    <3>. QED  BY <2>4, <3>1, <3>2 DEF WriteRole
  <2>5. ASSUME NEW h \in Handlers, DeleteMember(h) PROVE FALSE
    BY <1>1, <2>1, <2>5 DEF DeleteMember, TablesOK
  <2>6. ASSUME NEW h \in Handlers, Join(h) PROVE FALSE
    BY <1>1, <2>1, <2>6 DEF Join, TablesOK
  <2>7. members' # members
    BY <1>1
  <2>. HIDE DEF ByOwner
  <2>. QED  BY <1>1, <2>2, <2>3, <2>4, <2>5, <2>6, <2>7, WhoWritesMembers
<1>2. (IInv /\ AllNew) /\ [Next]_vars => [Kept]_vars
  <2>. HIDE DEF Changed, ByOwner
  <2>. QED  BY <1>1
<1>. QED  BY <1>2, AllNewInductive, PTL DEF Spec, RolesChangeByOwners

-----------------------------------------------------------------------------
(* The last owner, when requests are handled one at a time *)

\* What a request has read is still so, and an owner is only given up after
\* another one was counted.
Current(h) ==
  /\ ~req[h].gone
  /\ req[h].op \in {"remove", "leave"} => req[h].role = None
  /\ pc[h] = "token" => req[h].op \in {"accept", "register"}
  /\ pc[h] = "lookup" => req[h].mine = members[req[h].org][req[h].user]
  /\ pc[h] \in {"count", "write"} => req[h].seen = members[req[h].org][req[h].target]
  /\ pc[h] = "write" /\ req[h].seen = "owner" /\ req[h].role # "owner" => ~IsLastOwner(req[h].org)

AllCurrent == \A h \in Handlers : Current(h)

LEMMA AnotherOwner ==
  ASSUME NEW o \in Orgs, NEW t \in Users, ~IsLastOwner(o)
  PROVE  \E u \in Users : u # t /\ members[o][u] = "owner"
<1>1. CASE Owners(o) \subseteq {t}
  <2>1. Owners(o) = {} \/ Owners(o) = {t}
    BY <1>1
  <2>2. Cardinality(Owners(o)) \in {0, 1}
    BY <2>1, FS_EmptySet, FS_Singleton
  <2>. QED  BY <2>2 DEF IsLastOwner
<1>2. CASE ~(Owners(o) \subseteq {t})
  BY <1>2 DEF Owners
<1>. QED  BY <1>1, <1>2

LEMMA StartCurrent ==
  ASSUME IInv, NEW h \in Handlers, NEW u \in Users, Start(h, u)
  PROVE  Current(h)'
<1>. USE OrgMembersAssumption
<1>1. RequestsOK /\ TablesOK
  BY DEF IInv, TypeOK, TablesOK, RequestsOK
<1>2. \A s, q : Begin(h, u, s, q) => pc'[h] = s /\ req'[h] = q
  BY <1>1 DEF Begin, RequestsOK
<1>3. ASSUME pc'[h] \notin {"lookup", "count", "write", "token"}, req'[h].gone = FALSE,
             req'[h].op \notin {"remove", "leave"}
      PROVE  Current(h)'
  BY <1>3 DEF Current
<1>4. ASSUME NEW o \in Orgs, CreateOrg(h, u, o) PROVE Current(h)'
  <2>1. pc'[h] = "found" /\ req'[h] = [NoRequest EXCEPT !.user = u, !.org = o]
    BY <1>2, <1>4 DEF CreateOrg
  <2>. QED  BY <1>3, <2>1 DEF NoRequest, Ops
<1>5. ASSUME NEW o \in Orgs, Switch(h, u, o) PROVE Current(h)'
  <2>1. pc'[h] = "switch" /\ req'[h] = [NoRequest EXCEPT !.user = u, !.org = o, !.act = active[u]]
    BY <1>2, <1>5 DEF Switch
  <2>. QED  BY <1>3, <2>1 DEF NoRequest, Ops
<1>6. ASSUME NEW o \in Orgs, Leave(h, u, o) PROVE Current(h)'
  <2>1. /\ pc'[h] = IF members[o][u] = "owner" THEN "count" ELSE "write"
        /\ req'[h] = [NoRequest EXCEPT !.op = "leave", !.user = u, !.org = o, !.target = u,
             !.seen = members[o][u]]
        /\ members' = members
    BY <1>2, <1>6 DEF Leave, tables
  <2>2. /\ ~req'[h].gone /\ req'[h].op = "leave" /\ req'[h].role = None /\ req'[h].org = o
        /\ req'[h].target = u /\ req'[h].seen = members[o][u]
    BY <2>1 DEF NoRequest
  <2>. QED  BY <2>1, <2>2 DEF Current
<1>7. ASSUME NEW o \in Orgs, ListInvites(h, u, o) PROVE Current(h)'
  <2>1. PICK d : Begin(h, u, "mark", [NoRequest EXCEPT !.user = u, !.org = o, !.due = d])
    BY <1>7 DEF ListInvites
  <2>2. pc'[h] = "mark" /\ req'[h] = [NoRequest EXCEPT !.user = u, !.org = o, !.due = d]
    BY <1>2, <2>1
  <2>. QED  BY <1>3, <2>2 DEF NoRequest, Ops
<1>8. ASSUME NEW o \in Orgs, NEW t \in Users, RemoveMember(h, u, o, t) PROVE Current(h)'
  <2>1. /\ pc'[h] = "lookup" /\ members' = members
        /\ req'[h] = [NoRequest EXCEPT !.op = "remove", !.user = u, !.org = o, !.target = t,
             !.mine = members[o][u]]
    BY <1>2, <1>8 DEF RemoveMember, tables
  <2>2. /\ ~req'[h].gone /\ req'[h].op = "remove" /\ req'[h].role = None /\ req'[h].org = o
        /\ req'[h].user = u /\ req'[h].mine = members[o][u]
    BY <2>1 DEF NoRequest
  <2>. QED  BY <2>1, <2>2 DEF Current
<1>9. ASSUME NEW o \in Orgs, NEW t \in Users, NEW r \in AskedRoles, UpdateRole(h, u, o, t, r)
      PROVE  Current(h)'
  <2>1. /\ pc'[h] = "lookup" /\ members' = members
        /\ req'[h] = [NoRequest EXCEPT !.op = "update", !.user = u, !.org = o, !.target = t,
             !.role = r, !.mine = members[o][u]]
    BY <1>2, <1>9 DEF UpdateRole, tables
  <2>2. /\ ~req'[h].gone /\ req'[h].op = "update" /\ req'[h].org = o
        /\ req'[h].user = u /\ req'[h].mine = members[o][u]
    BY <2>1 DEF NoRequest
  <2>. QED  BY <2>1, <2>2 DEF Current
<1>10. ASSUME NEW o \in Orgs, NEW t \in Users, NEW r \in AskedRoles, InviteUser(h, u, o, t, r)
       PROVE  Current(h)'
  <2>1. /\ pc'[h] = "email"
        /\ req'[h] = [NoRequest EXCEPT !.op = "invite", !.user = u, !.org = o, !.target = t, !.role = r]
    BY <1>2, <1>10 DEF InviteUser
  <2>. QED  BY <1>3, <2>1 DEF NoRequest
<1>11. ASSUME NEW v \in InviteIds, AcceptInvite(h, u, v) PROVE Current(h)'
  <2>1. /\ pc'[h] = "token"
        /\ req'[h] = [NoRequest EXCEPT !.op = "accept", !.user = u, !.org = invites[v].org,
             !.inv = v, !.act = active[u]]
    BY <1>2, <1>11 DEF AcceptInvite
  <2>2. ~req'[h].gone /\ req'[h].op = "accept"
    BY <2>1 DEF NoRequest
  <2>. QED  BY <2>1, <2>2 DEF Current
<1>12. ASSUME NEW v \in InviteIds, RegisterWithInvite(h, u, v) PROVE Current(h)'
  <2>1. /\ pc'[h] = "token"
        /\ req'[h] = [NoRequest EXCEPT !.op = "register", !.user = u, !.org = invites[v].org, !.inv = v]
    BY <1>1, <1>12 DEF RegisterWithInvite, GoOn, RequestsOK
  <2>2. ~req'[h].gone /\ req'[h].op = "register"
    BY <2>1 DEF NoRequest
  <2>. QED  BY <2>1, <2>2 DEF Current
<1>13. ASSUME NEW v \in InviteIds, NEW op \in {"revoke", "resend"}, ManageInvite(h, u, v, op)
       PROVE  Current(h)'
  <2>1. /\ pc'[h] = "invite"
        /\ req'[h] = [NoRequest EXCEPT !.op = op, !.user = u, !.org = invites[v].org, !.inv = v]
    BY <1>2, <1>13 DEF ManageInvite
  <2>. QED  BY <1>3, <2>1 DEF NoRequest
<1>. QED  BY <1>4, <1>5, <1>6, <1>7, <1>8, <1>9, <1>10, <1>11, <1>12, <1>13 DEF Start

LEMMA StepCurrent ==
  ASSUME IInv, NEW h \in Handlers, Current(h), MemberStep(h) \/ InviteStep(h) \/ Crash(h)
  PROVE  Current(h)'
<1>. USE OrgMembersAssumption
<1>. DEFINE q == req[h]
<1>1. RequestsOK /\ TablesOK /\ q \in Request /\ Parameters(h)
  BY DEF IInv, TypeOK, TablesOK, RequestsOK, Linked
<1>2. \A s : GoOn(h, s) => pc'[h] = s
  BY <1>1 DEF GoOn, RequestsOK
<1>3. \A x : req' = [req EXCEPT ![h] = x] => req'[h] = x
  BY <1>1 DEF RequestsOK
<1>4. ASSUME pc'[h] \notin {"lookup", "count", "write", "token"}, req'[h].gone = FALSE,
             req'[h].op \in {"remove", "leave"} => req'[h].role = None
      PROVE  Current(h)'
  BY <1>4 DEF Current
<1>5. ASSUME End(h) PROVE Current(h)'
  <2>1. pc'[h] = "idle" /\ req'[h] = NoRequest
    BY <1>1, <1>5 DEF End, RequestsOK
  <2>. QED  BY <1>4, <2>1 DEF NoRequest
<1>6. CASE LookUpMember(h) /\ ~End(h)
  <2>. DEFINE r == IF q.target = q.user THEN q.mine ELSE members[q.org][q.target]
  <2>1. /\ pc[h] = "lookup" /\ members' = members
        /\ pc'[h] = IF r = "owner" /\ q.role # "owner" THEN "count" ELSE "write"
    BY <1>2, <1>6 DEF LookUpMember, tables
  <2>2. req'[h] = [q EXCEPT !.seen = r]
    <3>1. req' = [req EXCEPT ![h] = [q EXCEPT !.seen = r]]
      BY <1>6 DEF LookUpMember
    <3>. QED  BY <1>3, <3>1
  <2>3. r = members[q.org][q.target]
    BY <2>1 DEF Current
  <2>4. /\ req'[h].op = q.op /\ req'[h].org = q.org /\ req'[h].target = q.target
        /\ req'[h].role = q.role /\ req'[h].gone = q.gone /\ req'[h].seen = r
    <3>. HIDE DEF r
    <3>. QED  BY <1>1, <2>2 DEF Request
  <2>. HIDE DEF r
  <2>. QED  BY <2>1, <2>3, <2>4 DEF Current
<1>7. CASE CountOwners(h) /\ ~End(h)
  <2>1. /\ pc[h] = "count" /\ pc'[h] = "write" /\ req' = req /\ members' = members
        /\ ~IsLastOwner(q.org)
    BY <1>2, <1>7 DEF CountOwners, tables
  <2>2. ~IsLastOwner(req[h].org)'
    BY <2>1 DEF IsLastOwner, Owners
  <2>. QED  BY <2>1, <2>2 DEF Current
<1>8. CASE DeleteMember(h)
  <2>1. req'[h] = IF q.op = "leave" THEN [NoRequest EXCEPT !.user = q.user, !.org = q.org]
                    ELSE NoRequest
    BY <1>1, <1>8 DEF DeleteMember, RequestsOK
  <2>2. pc'[h] \in {"left", "idle"}
    BY <1>2, <1>8 DEF DeleteMember
  <2>3. req'[h].gone = FALSE /\ req'[h].op = None
    BY <2>1 DEF NoRequest
  <2>. QED  BY <1>4, <2>2, <2>3 DEF Ops
<1>9. CASE MoveOn(h) /\ ~End(h)
  <2>1. PICK o : req' = [req EXCEPT ![h] = [q EXCEPT !.act = q.org, !.org = o]]
    BY <1>9 DEF MoveOn
  <2>2. req'[h] = [q EXCEPT !.act = q.org, !.org = o]
    BY <1>3, <2>1
  <2>3. req'[h].gone = q.gone /\ req'[h].op = q.op /\ req'[h].role = q.role
    BY <1>1, <2>2 DEF Request
  <2>4. pc'[h] = "switch"
    BY <1>2, <1>9 DEF MoveOn
  <2>. QED  BY <1>1, <1>4, <2>3, <2>4, RequestFields DEF Current
<1>10. CASE (CheckNotMember(h) \/ CheckNotInvited(h)) /\ ~End(h)
  <2>1. pc'[h] \in {"pending", "insert"} /\ req' = req
    BY <1>2, <1>10 DEF CheckNotMember, CheckNotInvited
  <2>. QED  BY <2>1 DEF Current
<1>11. CASE LookUpInvite(h) /\ ~End(h)
  <2>1. req'[h] = [q EXCEPT !.saw = invites[q.inv].status]
    BY <1>3, <1>11 DEF LookUpInvite
  <2>2. req'[h].gone = q.gone /\ req'[h].op = q.op /\ req'[h].role = q.role
    BY <1>1, <2>1 DEF Request
  <2>3. pc'[h] \in {"revoke", "resend"}
    BY <1>1, <1>2, <1>11 DEF LookUpInvite, Parameters
  <2>. QED  BY <2>2, <2>3 DEF Current
<1>12. CASE ReadInvite(h) /\ ~End(h)
  <2>. DEFINE a == IF q.op = "register" THEN active[q.user] ELSE q.act
              r == invites[q.inv].role
              s == invites[q.inv].status
  <2>1. req'[h] = [q EXCEPT !.saw = s, !.role = r, !.act = a]
    <3>1. req' = [req EXCEPT ![h] = [q EXCEPT !.saw = s, !.role = r, !.act = a]]
      BY <1>12 DEF ReadInvite
    <3>. QED  BY <1>3, <3>1
  <2>2. req'[h].gone = q.gone /\ req'[h].op = q.op
    <3>. HIDE DEF a, r, s
    <3>. QED  BY <1>1, <2>1 DEF Request
  <2>3. pc[h] = "token" /\ pc'[h] \in {"expire", "member"}
    BY <1>2, <1>12 DEF ReadInvite
  <2>. QED  BY <2>2, <2>3 DEF Current
<1>13. CASE ReadMembership(h)
  <2>1. req'[h] = [q EXCEPT !.seen = members[q.org][q.user]]
    BY <1>3, <1>13 DEF ReadMembership
  <2>2. req'[h].gone = q.gone /\ req'[h].op = q.op /\ req'[h].role = q.role
    BY <1>1, <2>1 DEF Request
  <2>3. pc'[h] = "join"
    BY <1>2, <1>13 DEF ReadMembership
  <2>. QED  BY <2>2, <2>3 DEF Current
<1>14. \/ End(h) \/ (LookUpMember(h) /\ ~End(h)) \/ (CountOwners(h) /\ ~End(h)) \/ DeleteMember(h)
       \/ (MoveOn(h) /\ ~End(h)) \/ ((CheckNotMember(h) \/ CheckNotInvited(h)) /\ ~End(h))
       \/ (LookUpInvite(h) /\ ~End(h)) \/ (ReadInvite(h) /\ ~End(h)) \/ ReadMembership(h)
  BY DEF MemberStep, InviteStep, AddFounder, SetActive, WriteRole, InsertInvite, MarkExpired, RevokeInvite,
         ResendInvite, FailResend, ExpireInvite, Join, Crash
<1>. QED  BY <1>5, <1>6, <1>7, <1>8, <1>9, <1>10, <1>11, <1>12, <1>13, <1>14

LEMMA AllCurrentInductive ==
  ASSUME \A g, k \in Handlers : g = k
  PROVE  Spec => [](IInv /\ AllCurrent)
<1>1. Init => AllCurrent
  BY OrgMembersAssumption DEF Init, AllCurrent, Current, NoRequest, Ops
<1>2. ASSUME IInv, AllCurrent, Next, NEW h \in Handlers
      PROVE  Current(h)'
  <2>1. RequestsOK /\ TablesOK /\ Parameters(h) /\ Current(h)
    BY <1>2 DEF IInv, TypeOK, TablesOK, RequestsOK, Linked, AllCurrent
  <2>2. ASSUME NEW u \in Users, NEW p \in Orgs, Register(u, p) PROVE Current(h)'
    <3>1. CASE pc[h] \in OfMembers
      <4>1. req[h].org # p
        <5>1. founder[req[h].org] # None
          <6>1. req[h].org \in Orgs
            BY <2>1, <3>1 DEF Parameters, OfMembers
          <6>. QED  BY <2>1, <6>1, OrgMembersAssumption DEF Parameters
        <5>. QED  BY <2>2, <5>1 DEF Register
      <4>2. pc' = pc /\ req' = req /\ members'[req[h].org] = members[req[h].org]
        BY <2>1, <2>2, <4>1 DEF Register, TablesOK
      <4>3. IsLastOwner(req[h].org)' <=> IsLastOwner(req[h].org)
        BY <4>2 DEF IsLastOwner, Owners
      <4>. QED  BY <2>1, <4>2, <4>3 DEF Current
    <3>2. CASE pc[h] \notin OfMembers
      BY <2>1, <2>2, <3>2 DEF Register, Current, OfMembers
    <3>. QED  BY <3>1, <3>2
  <2>3. ASSUME NEW v \in InviteIds, Expire(v) PROVE Current(h)'
    BY <2>1, <2>3 DEF Expire, Current, IsLastOwner, Owners
  <2>. QED  BY <1>2, <2>1, <2>2, <2>3, StartCurrent, StepCurrent DEF Next
<1>3. ASSUME IInv, AllCurrent, [Next]_vars PROVE AllCurrent'
  <2>1. CASE UNCHANGED vars
    BY <1>3, <2>1 DEF AllCurrent, Current, IsLastOwner, Owners, vars
  <2>. QED  BY <1>2, <1>3, <2>1 DEF AllCurrent
<1>. QED  BY <1>1, <1>3, Inductive, PTL DEF Spec

\* An organization that has an owner keeps one, as long as no two requests
\* are handled at the same time: then the count of the owners still holds
\* when a role is written or a member deleted.
THEOREM OwnerRemainsSerially ==
  ASSUME \A g, k \in Handlers : g = k
  PROVE  Spec => OwnerRemains
<1>. USE OrgMembersAssumption
<1>. DEFINE Kept == \A o \in Orgs : Owners(o) # {} => Owners(o)' # {}
<1>1. ASSUME IInv, AllCurrent, Next, NEW o \in Orgs, NEW w \in Users, members[o][w] = "owner"
      PROVE  \E u \in Users : members'[o][u] = "owner"
  <2>1. TablesOK
    BY <1>1 DEF IInv, TypeOK, TablesOK
  <2>2. ASSUME NEW u \in Users, NEW p \in Orgs, Register(u, p) PROVE members'[o][w] = "owner"
    BY <1>1, <2>1, <2>2 DEF Register, TablesOK
  <2>3. ASSUME NEW h \in Handlers, AddFounder(h) \/ Join(h) PROVE members'[o][w] = "owner"
    BY <1>1, <2>1, <2>3 DEF AddFounder, Join, TablesOK, Roles
  <2>4. ASSUME NEW h \in Handlers, WriteRole(h) \/ DeleteMember(h), members'[o][w] # "owner"
        PROVE  \E u \in Users : members'[o][u] = "owner"
    <3>1. /\ req[h].org = o /\ req[h].target = w
          /\ members'[o] = [members[o] EXCEPT ![w] = members'[o][w]]
      <4>1. PICK r : members' = [members EXCEPT ![req[h].org][req[h].target] = r]
        BY <1>1, <2>4 DEF WriteRole, DeleteMember
      <4>2. req[h].org = o /\ req[h].target = w
        BY <1>1, <2>1, <2>4, <4>1 DEF TablesOK
      <4>. QED  BY <2>1, <4>1, <4>2 DEF TablesOK
    <3>2. pc[h] = "write" /\ Current(h) /\ req[h].seen = "owner"
      BY <1>1, <2>4, <3>1 DEF AllCurrent, Current, WriteRole, DeleteMember
    <3>3. req[h].role # "owner"
      <4>1. CASE WriteRole(h)
        BY <1>1, <2>4, <3>2, <4>1 DEF WriteRole
      <4>2. CASE DeleteMember(h)
        BY <3>2, <4>2 DEF DeleteMember, Current, Roles
      <4>. QED  BY <2>4, <4>1, <4>2
    <3>4. PICK u \in Users : u # w /\ members[o][u] = "owner"
      BY <3>1, <3>2, <3>3, AnotherOwner DEF Current
    <3>. QED  BY <2>1, <3>1, <3>4 DEF TablesOK
  <2>. QED  BY <1>1, <2>2, <2>3, <2>4, WhoWritesMembers
<1>2. IInv /\ AllCurrent /\ [Next]_vars => [Kept]_vars
  BY <1>1 DEF Owners
<1>. QED  BY <1>2, AllCurrentInductive, PTL DEF Spec, OwnerRemains
=============================================================================
