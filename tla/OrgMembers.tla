----------------------------- MODULE OrgMembers -----------------------------
(***************************************************************************)
(* Organizations, their members and invites (api/orgs.py, api/auth.py,     *)
(* api/deps.py) under concurrent HTTP requests.  A request reads rows one  *)
(* statement at a time, decides, and writes at its commit what SQLAlchemy  *)
(* finds changed: a column set to the value that was read is not written.  *)
(* Nothing is locked between the reads and the commit.                     *)
(*                                                                         *)
(* A user stands for his email address; a date for whether it is set, or   *)
(* for expires_at, whether it has passed.  A token is good until a resend  *)
(* replaces it: a request that looks up an older one ends with a 404.      *)
(***************************************************************************)
EXTENDS Naturals, FiniteSets

CONSTANTS
  Users, Orgs, InviteIds,  \* the rows that may be created
  Handlers,                \* the requests handled at the same time
  AskedRoles,              \* the roles that requests ask for (bounds the model)
  None

Roles == {"owner", "admin", "member", "viewer"}
Statuses == {"pending", "accepted", "revoked", "expired"}
Ops == {"update", "remove", "leave", "invite", "revoke", "resend", "accept", "register"}

Invite == [org : Orgs, email : Users, role : Roles, status : Statuses,
           accepted : BOOLEAN, revoked : BOOLEAN, expired : BOOLEAN]

ASSUME OrgMembersAssumption ==
  /\ AskedRoles \subseteq Roles
  /\ None \notin Users \cup Orgs \cup InviteIds \cup Roles \cup Statuses \cup Ops \cup Invite

VARIABLES
  registered,  \* users
  founder,     \* organizations: who created it, or None (history)
  members,     \* organization_members: the role of a user, or None
  active,      \* users.active_organization_id
  invites,     \* org_invites
  pc,          \* what a request does next
  req          \* its parameters and what it has read

vars == <<registered, founder, members, active, invites, pc, req>>
tables == <<registered, founder, members, active, invites>>

Request ==
  [op : Ops \cup {None},
   user : Users \cup {None},
   org : Orgs \cup {None},
   target : Users \cup {None},      \* a member, or the email of an invite
   role : Roles \cup {None},        \* the role asked for
   mine : Roles \cup {None},        \* the user's role as it was read
   seen : Roles \cup {None},        \* the target's
   act : Orgs \cup {None},          \* his active organization as it was read
   inv : InviteIds \cup {None},
   saw : Statuses \cup {None},      \* the status of the invite as it was read
   due : SUBSET InviteIds,          \* invites found to have expired
   gone : BOOLEAN]                  \* the target's row was deleted since

\* What a request does next.
Steps == {"idle", "found", "switch", "lookup", "count", "write", "left", "email", "pending",
          "insert", "mark", "invite", "revoke", "resend", "token", "expire", "member", "join"}

NoRequest ==
  [op |-> None, user |-> None, org |-> None, target |-> None, role |-> None, mine |-> None,
   seen |-> None, act |-> None, inv |-> None, saw |-> None, due |-> {}, gone |-> FALSE]

Init ==
  /\ registered = {}
  /\ founder = [o \in Orgs |-> None]
  /\ members = [o \in Orgs |-> [u \in Users |-> None]]
  /\ active = [u \in Users |-> None]
  /\ invites = [v \in InviteIds |-> None]
  /\ pc = [h \in Handlers |-> "idle"]
  /\ req = [h \in Handlers |-> NoRequest]

-----------------------------------------------------------------------------
(* Roles (services/rbac.py) and the steps of a request *)

can_invite(role) == role \in {"owner", "admin"}
can_manage_members(role) == role \in {"owner", "admin"}
can_change_roles(role) == role = "owner"

Owners(o) == {u \in Users : members[o][u] = "owner"}

\* A request of a user, with the parameters it needs, starts at a step.
Begin(h, u, next, r) ==
  /\ pc[h] = "idle"
  /\ u \in registered
  /\ pc' = [pc EXCEPT ![h] = next]
  /\ req' = [req EXCEPT ![h] = r]

GoOn(h, next) == pc' = [pc EXCEPT ![h] = next]

\* The response, an error or not.
End(h) ==
  /\ pc' = [pc EXCEPT ![h] = "idle"]
  /\ req' = [req EXCEPT ![h] = NoRequest]

-----------------------------------------------------------------------------
(* Accounts, organizations and the active organization *)

\* register without an invite: the user, a personal organization and its
\* membership in one commit.
Register(u, o) ==
  /\ u \notin registered
  /\ founder[o] = None
  /\ registered' = registered \cup {u}
  /\ founder' = [founder EXCEPT ![o] = u]
  /\ members' = [members EXCEPT ![o][u] = "owner"]
  /\ active' = [active EXCEPT ![u] = o]
  /\ UNCHANGED <<invites, pc, req>>

\* create_org commits the organization before its membership.
CreateOrg(h, u, o) ==
  /\ founder[o] = None
  /\ Begin(h, u, "found", [NoRequest EXCEPT !.user = u, !.org = o])
  /\ founder' = [founder EXCEPT ![o] = u]
  /\ UNCHANGED <<registered, members, active, invites>>

AddFounder(h) ==
  LET q == req[h] IN
    /\ pc[h] = "found"
    /\ members' = [members EXCEPT ![q.org][q.user] = "owner"]
    /\ active' = [active EXCEPT ![q.user] = q.org]
    /\ End(h)
    /\ UNCHANGED <<registered, founder, invites>>

\* Mutant of Switch: the membership is not asked for.
SwitchAnywhere(h, u, o) ==
  /\ founder[o] # None
  /\ Begin(h, u, "switch", [NoRequest EXCEPT !.user = u, !.org = o, !.act = active[u]])
  /\ UNCHANGED tables

\* activate_org, switch_org: a member asks for it; _resolve_org_membership:
\* the active organization is not one of his, another one is chosen.
Switch(h, u, o) ==
  /\ members[o][u] # None
  /\ Begin(h, u, "switch", [NoRequest EXCEPT !.user = u, !.org = o, !.act = active[u]])
  /\ UNCHANGED tables

SetActive(h) ==
  LET q == req[h] IN
    /\ pc[h] = "switch"
    /\ active' = IF q.org = q.act THEN active ELSE [active EXCEPT ![q.user] = q.org]
    /\ End(h)
    /\ UNCHANGED <<registered, founder, members, invites>>

-----------------------------------------------------------------------------
(* Members: update_member_role, delete_member, leave_org *)

UpdateRole(h, u, o, t, r) ==
  /\ can_change_roles(members[o][u])
  /\ Begin(h, u, "lookup", [NoRequest EXCEPT !.op = "update", !.user = u, !.org = o,
       !.target = t, !.role = r, !.mine = members[o][u]])
  /\ UNCHANGED tables

RemoveMember(h, u, o, t) ==
  /\ can_manage_members(members[o][u])
  /\ Begin(h, u, "lookup", [NoRequest EXCEPT !.op = "remove", !.user = u, !.org = o,
       !.target = t, !.mine = members[o][u]])
  /\ UNCHANGED tables

Leave(h, u, o) ==
  /\ members[o][u] # None
  /\ Begin(h, u, IF members[o][u] = "owner" THEN "count" ELSE "write",
       [NoRequest EXCEPT !.op = "leave", !.user = u, !.org = o, !.target = u,
          !.seen = members[o][u]])
  /\ UNCHANGED tables

\* The row of the target; that of the user himself is in the session already
\* and keeps the role that was read first.  The owners are counted where an
\* owner would be lost (update_member_role counts always, to no effect).
LookUpMember(h) ==
  LET q == req[h]
      r == IF q.target = q.user THEN q.mine ELSE members[q.org][q.target]
  IN /\ pc[h] = "lookup"
     /\ IF r = None
          THEN End(h)
          ELSE /\ GoOn(h, IF r = "owner" /\ q.role # "owner" THEN "count" ELSE "write")
               /\ req' = [req EXCEPT ![h].seen = r]
     /\ UNCHANGED tables

\* Mutant of IsLastOwner: an off-by-one in the count.
IsLastOwnerOffByOne(o) == Cardinality(Owners(o)) < 1

\* The organization would be left without an owner.
IsLastOwner(o) == Cardinality(Owners(o)) <= 1

CountOwners(h) ==
  LET q == req[h] IN
    /\ pc[h] = "count"
    /\ IF IsLastOwner(q.org) \/ (q.op = "remove" /\ q.mine # "owner")
         THEN End(h)
         ELSE GoOn(h, "write") /\ UNCHANGED req
    /\ UNCHANGED tables

\* UPDATE ... WHERE id = ..., unless the role is the one that was read; the
\* request fails if the row is gone.
WriteRole(h) ==
  LET q == req[h] IN
    /\ pc[h] = "write"
    /\ q.op = "update"
    /\ members' = IF q.role = q.seen \/ q.gone
                    THEN members
                    ELSE [members EXCEPT ![q.org][q.target] = q.role]
    /\ End(h)
    /\ UNCHANGED <<registered, founder, active, invites>>

\* The row of the target is among what a request has read.
HasRead(g, o, t) ==
  /\ req[g].org = o
  /\ req[g].target = t
  /\ pc[g] \in {"count", "write"} \/ (pc[g] = "lookup" /\ t = req[g].user)

\* DELETE ... WHERE id = ..., which finds nothing if the row is gone, although
\* the user may have joined again since.
DeleteMember(h) ==
  LET q == req[h]
      ended == IF q.op = "leave" THEN [NoRequest EXCEPT !.user = q.user, !.org = q.org]
                 ELSE NoRequest
  IN /\ pc[h] = "write"
     /\ q.op \in {"remove", "leave"}
     /\ GoOn(h, IF q.op = "leave" THEN "left" ELSE "idle")
     /\ IF q.gone
          THEN /\ members' = members
               /\ req' = [req EXCEPT ![h] = ended]
          ELSE /\ members' = [members EXCEPT ![q.org][q.target] = None]
               /\ req' = [g \in Handlers |->
                    IF g = h THEN ended
                    ELSE [req[g] EXCEPT !.gone = @ \/ HasRead(g, q.org, q.target)]]
     /\ UNCHANGED <<registered, founder, active, invites>>

\* leave_org moves a user on whose active organization it was, in a further
\* transaction.
MoveOn(h) ==
  LET q == req[h]
      others == {o \in Orgs : members[o][q.user] # None}
  IN /\ pc[h] = "left"
     /\ IF active[q.user] # q.org
          THEN End(h)
          ELSE /\ GoOn(h, "switch")
               /\ \E o \in IF others = {} THEN {None} ELSE others :
                    req' = [req EXCEPT ![h].act = q.org, ![h].org = o]
     /\ UNCHANGED tables

-----------------------------------------------------------------------------
(* Invites: create_invite, list_invites, revoke_invite, resend_invite *)

InviteUser(h, u, o, e, r) ==
  /\ can_invite(members[o][u])
  /\ r \in {"admin", "member"}
  /\ Begin(h, u, "email", [NoRequest EXCEPT !.op = "invite", !.user = u, !.org = o,
       !.target = e, !.role = r])
  /\ UNCHANGED tables

CheckNotMember(h) ==
  LET q == req[h] IN
    /\ pc[h] = "email"
    /\ IF members[q.org][q.target] # None THEN End(h) ELSE GoOn(h, "pending") /\ UNCHANGED req
    /\ UNCHANGED tables

InvitesOf(o, e) == {v \in InviteIds : invites[v] # None /\ invites[v].org = o /\ invites[v].email = e}

IsActive(i) == i.status = "pending" /\ ~i.accepted /\ ~i.revoked /\ ~i.expired

CheckNotInvited(h) ==
  LET q == req[h] IN
    /\ pc[h] = "pending"
    /\ IF \E v \in InvitesOf(q.org, q.target) : IsActive(invites[v])
         THEN End(h)
         ELSE GoOn(h, "insert") /\ UNCHANGED req
    /\ UNCHANGED tables

\* Mutant of InsertInvite: the row gets the name its status has in the API.
InsertInviteActive(h) ==
  LET q == req[h] IN
    /\ pc[h] = "insert"
    /\ \E v \in InviteIds :
         /\ invites[v] = None
         /\ invites' = [invites EXCEPT ![v] =
              [org |-> q.org, email |-> q.target, role |-> q.role, status |-> "active",
               accepted |-> FALSE, revoked |-> FALSE, expired |-> FALSE]]
    /\ End(h)
    /\ UNCHANGED <<registered, founder, members, active>>

\* uq_org_invites_active: one invite of an address that was not accepted.
InsertInvite(h) ==
  LET q == req[h] IN
    /\ pc[h] = "insert"
    /\ IF \E v \in InvitesOf(q.org, q.target) : ~invites[v].accepted
         THEN invites' = invites
         ELSE \E v \in InviteIds :
                /\ invites[v] = None
                /\ invites' = [invites EXCEPT ![v] =
                     [org |-> q.org, email |-> q.target, role |-> q.role, status |-> "pending",
                      accepted |-> FALSE, revoked |-> FALSE, expired |-> FALSE]]
    /\ End(h)
    /\ UNCHANGED <<registered, founder, members, active>>

\* expires_at passes.
Expire(v) ==
  /\ invites[v] # None
  /\ ~invites[v].expired
  /\ invites' = [invites EXCEPT ![v].expired = TRUE]
  /\ UNCHANGED <<registered, founder, members, active, pc, req>>

ListInvites(h, u, o) ==
  LET due == {v \in InviteIds : /\ invites[v] # None
                                /\ invites[v].org = o
                                /\ invites[v].status = "pending"
                                /\ invites[v].expired
                                /\ ~invites[v].revoked}
  IN /\ can_invite(members[o][u])
     /\ due # {}
     /\ Begin(h, u, "mark", [NoRequest EXCEPT !.user = u, !.org = o, !.due = due])
     /\ UNCHANGED tables

MarkExpired(h) ==
  /\ pc[h] = "mark"
  /\ invites' = [v \in InviteIds |->
       IF v \in req[h].due THEN [invites[v] EXCEPT !.status = "expired"] ELSE invites[v]]
  /\ End(h)
  /\ UNCHANGED <<registered, founder, members, active>>

ManageInvite(h, u, v, op) ==
  /\ invites[v] # None
  /\ can_invite(members[invites[v].org][u])
  /\ op \in {"revoke", "resend"}
  /\ Begin(h, u, "invite", [NoRequest EXCEPT !.op = op, !.user = u, !.org = invites[v].org, !.inv = v])
  /\ UNCHANGED tables

IsAccepted(i) == i.status = "accepted" \/ i.accepted

\* Mutant of IsRevoked: the date is not looked at.
IsRevokedByStatus(i) == i.status = "revoked"

IsRevoked(i)  == i.status = "revoked" \/ i.revoked

LookUpInvite(h) ==
  LET q == req[h]
      i == invites[q.inv]
  IN /\ pc[h] = "invite"
     /\ IF \/ IsAccepted(i)
           \/ q.op = "revoke" /\ i.status = "revoked"
           \/ q.op = "resend" /\ IsRevoked(i)
          THEN End(h)
          ELSE GoOn(h, q.op) /\ req' = [req EXCEPT ![h].saw = i.status]
     /\ UNCHANGED tables

RevokeInvite(h) ==
  /\ pc[h] = "revoke"
  /\ invites' = [invites EXCEPT ![req[h].inv].status = "revoked", ![req[h].inv].revoked = TRUE]
  /\ End(h)
  /\ UNCHANGED <<registered, founder, members, active>>

\* The email was sent: the invite is renewed, whatever happened to it since.
ResendInvite(h) ==
  LET q == req[h] IN
    /\ pc[h] = "resend"
    /\ invites' = [invites EXCEPT
         ![q.inv].expired = FALSE,
         ![q.inv].status = IF q.saw = "pending" THEN @ ELSE "pending"]
    /\ End(h)
    /\ UNCHANGED <<registered, founder, members, active>>

\* Or it was not: only the counter and the error of the invite change.
FailResend(h) ==
  /\ pc[h] = "resend"
  /\ End(h)
  /\ UNCHANGED tables

-----------------------------------------------------------------------------
(* _accept_invite, from a session or from register with an invite *)

AcceptInvite(h, u, v) ==
  /\ invites[v] # None
  /\ Begin(h, u, "token", [NoRequest EXCEPT !.op = "accept", !.user = u,
       !.org = invites[v].org, !.inv = v, !.act = active[u]])
  /\ UNCHANGED tables

resolve_invite_status(i) ==
  IF IsRevoked(i) THEN "revoked"
  ELSE IF IsAccepted(i) THEN "accepted"
  ELSE IF i.expired \/ i.status = "expired" THEN "expired"
  ELSE "active"

\* The user is committed before his invite is looked at again.
RegisterWithInvite(h, u, v) ==
  /\ pc[h] = "idle"
  /\ u \notin registered
  /\ invites[v] # None
  /\ resolve_invite_status(invites[v]) = "active"
  /\ invites[v].email = u
  /\ registered' = registered \cup {u}
  /\ GoOn(h, "token")
  /\ req' = [req EXCEPT ![h] = [NoRequest EXCEPT !.op = "register", !.user = u,
       !.org = invites[v].org, !.inv = v]]
  /\ UNCHANGED <<founder, members, active, invites>>

ReadInvite(h) ==
  LET q == req[h]
      i == invites[q.inv]
  IN /\ pc[h] = "token"
     /\ IF IsRevoked(i) \/ IsAccepted(i) \/ (~i.expired /\ i.email # q.user)
          THEN End(h)
          ELSE /\ GoOn(h, IF i.expired THEN "expire" ELSE "member")
               /\ req' = [req EXCEPT ![h].saw = i.status, ![h].role = i.role,
                            ![h].act = IF q.op = "register" THEN active[q.user] ELSE @]
     /\ UNCHANGED tables

ExpireInvite(h) ==
  LET q == req[h] IN
    /\ pc[h] = "expire"
    /\ invites' = [invites EXCEPT
         ![q.inv].status = IF q.saw = "expired" THEN @ ELSE "expired"]
    /\ End(h)
    /\ UNCHANGED <<registered, founder, members, active>>

ReadMembership(h) ==
  LET q == req[h] IN
    /\ pc[h] = "member"
    /\ GoOn(h, "join")
    /\ req' = [req EXCEPT ![h].seen = members[q.org][q.user]]
    /\ UNCHANGED tables

\* Mutant of Join: a member found there gets the role of the invite.
JoinOverwrites(h) ==
  LET q == req[h] IN
    /\ pc[h] = "join"
    /\ members' = [members EXCEPT ![q.org][q.user] = q.role]
    /\ invites' = [invites EXCEPT ![q.inv].status = "accepted", ![q.inv].accepted = TRUE]
    /\ active' = IF q.act = None THEN [active EXCEPT ![q.user] = q.org] ELSE active
    /\ End(h)
    /\ UNCHANGED <<registered, founder>>

\* One commit; uq_org_member turns it down when the membership that was not
\* found is there by now.
Join(h) ==
  LET q == req[h] IN
    /\ pc[h] = "join"
    /\ IF q.seen = None /\ members[q.org][q.user] # None
         THEN UNCHANGED <<members, invites, active>>
         ELSE /\ members' = IF q.seen = None
                              THEN [members EXCEPT ![q.org][q.user] = q.role]
                              ELSE members
              /\ invites' = [invites EXCEPT ![q.inv].status = "accepted", ![q.inv].accepted = TRUE]
              /\ active' = IF q.act = None THEN [active EXCEPT ![q.user] = q.org] ELSE active
    /\ End(h)
    /\ UNCHANGED <<registered, founder>>

-----------------------------------------------------------------------------
\* The process or its database session is lost.
Crash(h) ==
  /\ pc[h] # "idle"
  /\ End(h)
  /\ UNCHANGED tables

MemberStep(h) ==
  \/ AddFounder(h) \/ SetActive(h) \/ LookUpMember(h) \/ CountOwners(h)
  \/ WriteRole(h) \/ DeleteMember(h) \/ MoveOn(h)

InviteStep(h) ==
  \/ CheckNotMember(h) \/ CheckNotInvited(h) \/ InsertInvite(h) \/ MarkExpired(h)
  \/ LookUpInvite(h) \/ RevokeInvite(h) \/ ResendInvite(h) \/ FailResend(h)
  \/ ReadInvite(h) \/ ExpireInvite(h) \/ ReadMembership(h) \/ Join(h)

Start(h, u) ==
  \/ \E o \in Orgs :
       \/ CreateOrg(h, u, o)
       \/ Switch(h, u, o)
       \/ Leave(h, u, o)
       \/ ListInvites(h, u, o)
       \/ \E t \in Users :
            \/ RemoveMember(h, u, o, t)
            \/ \E r \in AskedRoles : UpdateRole(h, u, o, t, r) \/ InviteUser(h, u, o, t, r)
  \/ \E v \in InviteIds :
       \/ AcceptInvite(h, u, v)
       \/ RegisterWithInvite(h, u, v)
       \/ \E op \in {"revoke", "resend"} : ManageInvite(h, u, v, op)

Next ==
  \/ \E u \in Users, o \in Orgs : Register(u, o)
  \/ \E v \in InviteIds : Expire(v)
  \/ \E h \in Handlers, u \in Users : Start(h, u)
  \/ \E h \in Handlers : MemberStep(h) \/ InviteStep(h) \/ Crash(h)

Spec == Init /\ [][Next]_vars

-----------------------------------------------------------------------------
(* Properties *)

TypeOK ==
  /\ registered \in SUBSET Users
  /\ founder \in [Orgs -> Users \cup {None}]
  /\ members \in [Orgs -> [Users -> Roles \cup {None}]]
  /\ active \in [Users -> Orgs \cup {None}]
  /\ invites \in [InviteIds -> Invite \cup {None}]
  /\ pc \in [Handlers -> Steps]
  /\ req \in [Handlers -> Request]

\* The user created the organization, or accepted an invite sent to him.
Entitled(u, o) ==
  \/ founder[o] = u
  \/ \E v \in InviteIds :
       invites[v] # None /\ invites[v].org = o /\ invites[v].email = u /\ invites[v].accepted

\* Tenants stay apart: whatever requests cross, a user belongs to an
\* organization, or has it as his active one, only if he created it or
\* accepted an invite of it that was sent to his address.
TenantsApart ==
  \A u \in Users, o \in Orgs :
    members[o][u] # None \/ active[u] = o => Entitled(u, o)

\* An invite that was accepted or revoked never resolves as open again,
\* although requests that read it before overwrite its status.
ClosedInvitesStayClosed ==
  [][\A v \in InviteIds :
       invites[v] # None /\ resolve_invite_status(invites[v]) \in {"accepted", "revoked"}
         => resolve_invite_status(invites'[v]) \in {"accepted", "revoked"}]_vars

\* Only owners change roles: a member keeps his role until a request of a
\* user it read as an owner changes it, invites he accepts again included.
RolesChangeByOwners ==
  [][\A o \in Orgs, u \in Users :
       members[o][u] # None /\ members'[o][u] \notin {None, members[o][u]}
         => \E h \in Handlers :
              /\ pc[h] = "write" /\ req[h].op = "update" /\ req[h].mine = "owner"
              /\ req[h].org = o /\ req[h].target = u]_vars

\* The last owner cannot leave, be removed or lose his role: an organization
\* that has an owner keeps one.
OwnerRemains ==
  [][\A o \in Orgs : Owners(o) # {} => Owners(o)' # {}]_vars
=============================================================================
