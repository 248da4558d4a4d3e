---------------------------- MODULE MCOrgMembers ----------------------------
(* OrgMembers for TLC. *)
EXTENDS OrgMembers, TLC

Symmetry == Permutations(Users) \cup Permutations(Orgs) \cup Permutations(InviteIds)
              \cup Permutations(Handlers)
=============================================================================
