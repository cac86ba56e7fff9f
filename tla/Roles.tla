-------------------------------- MODULE Roles --------------------------------
(* The four roles of an account and what follows from them (rbac.ts).       *)
EXTENDS Integers

Role == {"owner", "super_admin", "admin", "viewer"}
Platform == {"owner", "super_admin"}
UserManagers == {"owner", "super_admin", "admin"}

Rank == [owner |-> 4, super_admin |-> 3, admin |-> 2, viewer |-> 1]

\* The roles table gives the two highest the data scope ALL.
HasAllScope(role) == role \in Platform

\* Mutant of CanGrant: a super administrator makes others of his kind.
CanGrantOwn(actor, target) ==
  target # "owner" /\ Rank[actor] >= Rank[target] /\ actor # "viewer"

\* Who gives which role: nobody makes a station head or one of his own rank.
CanGrant(actor, target) ==
  CASE actor = "owner" -> target # "owner"
    [] actor = "super_admin" -> target \in {"admin", "viewer"}
    [] actor = "admin" -> target = "viewer"
    [] actor = "viewer" -> FALSE

CanManage(actor, target) == target # "owner" /\ Rank[actor] > Rank[target]
=============================================================================
