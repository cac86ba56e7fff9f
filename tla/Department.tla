----------------------------- MODULE Department -----------------------------
(***************************************************************************)
(* The departments of the company, a forest whose nodes carry their        *)
(* materialised path, their members and leaders, and who can read a        *)
(* knowledge base through them.                                            *)
(*                                                                         *)
(* Every call reads what it checks in one step and writes one transaction  *)
(* in a later one, so that two calls can overlap.  Administrators change   *)
(* departments, owners of knowledge bases share them.  A row that was      *)
(* deleted and inserted again between the two steps counts as the same.    *)
(***************************************************************************)
EXTENDS Integers, FiniteSets, SequencesExt

CONSTANTS
  Depts, NoDept,
  Users, NoUser,
  Kbs,
  Admins,   \* sessions of administrators that may overlap
  Owners,   \* sessions of owners of knowledge bases that may overlap
  MaxCalls, \* bound: calls of administrators
  MaxAsks   \* bound: calls of owners

ASSUME DepartmentParameters ==
  /\ NoDept \notin Depts /\ NoUser \notin Users
  /\ MaxCalls \in Nat /\ MaxAsks \in Nat

VARIABLES
  state,  \* state[d]: has the row been created, is it still there?
  parent, \* departments.parent_id
  path,   \* departments.path
  leader, \* departments.leader_id
  users,  \* the users rows
  member, \* member[u][d]: the user_departments rows
  kb,     \* the knowledge_bases rows with their kb_members
  admin,  \* admin[a]: the call that session a executes
  owner,  \* owner[o]: the same for the owners
  calls,  \* calls begun by administrators
  asks    \* calls begun by owners

tree == <<state, parent, path>>
departmentVars == <<tree, leader, users, member, kb, admin, owner, calls, asks>>

Parents == Depts \cup {NoDept}
Persons == Users \cup {NoUser}
Memberships == {"none", "member", "primary"}
Visibilities == {"PRIVATE", "DEPT", "PUBLIC"}
\* by: who created the library.  count: member_count.
Libraries == [by: Persons, visibility: Visibilities, org: Parents,
              members: SUBSET Users, count: Nat]

Free == [op |-> "free", dept |-> NoDept, up |-> NoDept, user |-> NoUser,
         old |-> <<>>, new |-> <<>>, primary |-> FALSE, clear |-> FALSE]
AdminCalls ==
  [op: {"free", "create", "move", "remove", "lead", "join", "leave"}, dept: Parents,
   up: Parents, user: Persons, old: Seq(Depts), new: Seq(Depts), primary: BOOLEAN,
   clear: BOOLEAN]
\* set: which of the two fields of its scope a call changes.
Off == [op |-> "free", kb |-> "none", user |-> NoUser, set |-> {}, org |-> NoDept,
        visibility |-> "DEPT"]
OwnerCalls ==
  [op: {"free", "share", "unshare", "scope"}, kb: Kbs \cup {"none"}, user: Persons,
   set: SUBSET {"visibility", "org"}, org: Parents, visibility: Visibilities]

DepartmentType ==
  /\ state \in [Depts -> {"unused", "kept", "removed"}]
  /\ parent \in [Depts -> Parents]
  /\ path \in [Depts -> Seq(Depts)]
  /\ leader \in [Depts -> Persons]
  /\ users \in SUBSET Users
  /\ member \in [Users -> [Depts -> Memberships]]
  /\ kb \in [Kbs -> Libraries]
  /\ admin \in [Admins -> AdminCalls]
  /\ owner \in [Owners -> OwnerCalls]
  /\ calls \in Nat /\ asks \in Nat

Kept(d) == state[d] = "kept"
Rows == {d \in Depts : Kept(d)}
IsMember(u, d) == member[u][d] # "none"
Homes(u) == {d \in Depts : IsMember(u, d)}

\* What the path of a row is meant to be.
PathOf(d) == (IF parent[d] = NoDept THEN <<>> ELSE path[parent[d]]) \o <<d>>

\* A company without departments, whose libraries are visible to departments.
DepartmentInit ==
  /\ state = [d \in Depts |-> "unused"]
  /\ parent = [d \in Depts |-> NoDept]
  /\ path = [d \in Depts |-> <<>>]
  /\ leader = [d \in Depts |-> NoUser]
  /\ users = Users
  /\ member = [u \in Users |-> [d \in Depts |-> "none"]]
  /\ kb \in [Kbs -> [by: Persons, visibility: {"DEPT"}, org: {NoDept}, members: {{}},
                     count: {1}]]
  /\ admin = [a \in Admins |-> Free]
  /\ owner = [o \in Owners |-> Off]
  /\ calls = 0 /\ asks = 0

Begin(a, call) ==
  /\ admin[a].op = "free" /\ calls < MaxCalls
  /\ calls' = calls + 1
  /\ admin' = [admin EXCEPT ![a] = call]
  /\ UNCHANGED <<tree, leader, users, member, kb, owner, asks>>
End(a) == admin' = [admin EXCEPT ![a] = Free] /\ UNCHANGED <<users, owner, calls, asks>>

-----------------------------------------------------------------------------
(* create                                                                   *)

CreateCheck(a) ==
  \E p \in Rows \cup {NoDept}, u \in users \cup {NoUser} :
    Begin(a, [Free EXCEPT !.op = "create", !.up = p, !.user = u,
                          !.new = IF p = NoDept THEN <<>> ELSE path[p]])

\* The foreign keys: the parent and the leader must still exist.
CreateWrite(a) ==
  LET c == admin[a] IN
  /\ c.op = "create"
  /\ c.up \in Rows \cup {NoDept} /\ c.user \in users \cup {NoUser}
  /\ \E d \in Depts :
       /\ state[d] = "unused"
       /\ state' = [state EXCEPT ![d] = "kept"]
       /\ parent' = [parent EXCEPT ![d] = c.up]
       /\ path' = [path EXCEPT ![d] = c.new \o <<d>>]
       /\ leader' = [leader EXCEPT ![d] = c.user]
  /\ End(a) /\ UNCHANGED <<member, kb>>

-----------------------------------------------------------------------------
(* move                                                                     *)


InOwnSubtree(d, p) == IsStrictPrefix(path[d], path[p])

\* A department that stays where it is returns at once.
MoveCheck(a) ==
  \E d \in Rows, p \in Rows \cup {NoDept} :
    LET new == (IF p = NoDept THEN <<>> ELSE path[p]) \o <<d>> IN
    /\ p # d
    /\ p # NoDept => ~InOwnSubtree(d, p)
    /\ new # path[d]
    /\ Begin(a, [Free EXCEPT !.op = "move", !.dept = d, !.up = p, !.old = path[d], !.new = new])

\* Mutant of Moved: only the department itself gets a new path.
MovedAlone(x, old, new) == IF path[x] = old THEN new ELSE path[x]

\* The path of x after the prefix old has become new.
Moved(x, old, new) ==
  IF Kept(x) /\ IsPrefix(old, path[x])
  THEN new \o SubSeq(path[x], Len(old) + 1, Len(path[x]))
  ELSE path[x]

\* One transaction: the prefixes of the subtree, then the parent.
MoveWrite(a) ==
  LET c == admin[a] IN
  /\ c.op = "move"
  /\ c.dept \in Rows /\ c.up \in Rows \cup {NoDept}
  /\ path' = [x \in Depts |-> Moved(x, c.old, c.new)]
  /\ parent' = [parent EXCEPT ![c.dept] = c.up]
  /\ End(a) /\ UNCHANGED <<state, leader, member, kb>>

-----------------------------------------------------------------------------
(* remove                                                                   *)

RemoveCheck(a) ==
  \E d \in Rows :
    /\ \A c \in Rows : parent[c] # d
    /\ \A u \in Users : ~IsMember(u, d)
    /\ \A k \in Kbs : kb[k].org # d
    /\ Begin(a, [Free EXCEPT !.op = "remove", !.dept = d])

\* Children restrict the deletion, memberships go with the row, libraries
\* keep their org_id.
RemoveWrite(a) ==
  LET d == admin[a].dept IN
  /\ admin[a].op = "remove" /\ d \in Rows
  /\ \A c \in Rows : parent[c] # d
  /\ state' = [state EXCEPT ![d] = "removed"]
  /\ parent' = [parent EXCEPT ![d] = NoDept]
  /\ path' = [path EXCEPT ![d] = <<>>]
  /\ leader' = [leader EXCEPT ![d] = NoUser]
  /\ member' = [u \in Users |-> [member[u] EXCEPT ![d] = "none"]]
  /\ End(a) /\ UNCHANGED kb

-----------------------------------------------------------------------------
(* update: the leader                                                       *)

LeadCheck(a) ==
  \E d \in Rows, u \in users \cup {NoUser} :
    /\ u # NoUser => IsMember(u, d)
    /\ Begin(a, [Free EXCEPT !.op = "lead", !.dept = d, !.user = u])

LeadWrite(a) ==
  LET c == admin[a] IN
  /\ c.op = "lead" /\ c.dept \in Rows /\ c.user \in users \cup {NoUser}
  /\ leader' = [leader EXCEPT ![c.dept] = c.user]
  /\ End(a) /\ UNCHANGED <<tree, member, kb>>

-----------------------------------------------------------------------------
(* addMember and removeMember                                               *)

\* A first membership is primary unless the caller says otherwise, a further
\* one if he says so; then the old mark is cleared.
JoinCheck(a) ==
  \E d \in Rows, u \in users, primary \in BOOLEAN :
    /\ ~IsMember(u, d)
    /\ Begin(a, [Free EXCEPT !.op = "join", !.dept = d, !.user = u, !.primary = primary,
                             !.clear = primary /\ Homes(u) # {}])

\* The memberships of a user after one more.
Joined(homes, c) ==
  [d \in Depts |->
     CASE d = c.dept -> IF c.primary THEN "primary" ELSE "member"
       [] d # c.dept -> IF c.clear /\ homes[d] = "primary" THEN "member" ELSE homes[d]]

JoinWrite(a) ==
  LET c == admin[a] IN
  /\ c.op = "join" /\ c.dept \in Rows /\ c.user \in users
  /\ ~IsMember(c.user, c.dept)
  /\ member' = [member EXCEPT ![c.user] = Joined(@, c)]
  /\ End(a) /\ UNCHANGED <<tree, leader, kb>>

LeaveCheck(a) ==
  \E d \in Rows, u \in users :
    /\ IsMember(u, d)
    /\ Begin(a, [Free EXCEPT !.op = "leave", !.dept = d, !.user = u, !.clear = leader[d] = u])

\* Mutant of LeaveWrite: the leader who leaves stays leader.
LeaveOnly(a) ==
  LET c == admin[a] IN
  /\ c.op = "leave" /\ c.dept \in Rows /\ c.user \in users /\ IsMember(c.user, c.dept)
  /\ member' = [member EXCEPT ![c.user][c.dept] = "none"]
  /\ End(a) /\ UNCHANGED <<tree, leader, kb>>

LeaveWrite(a) ==
  LET c == admin[a] IN
  /\ c.op = "leave" /\ c.dept \in Rows /\ c.user \in users /\ IsMember(c.user, c.dept)
  /\ member' = [member EXCEPT ![c.user][c.dept] = "none"]
  /\ leader' = IF c.clear THEN [leader EXCEPT ![c.dept] = NoUser] ELSE leader
  /\ End(a) /\ UNCHANGED <<tree, kb>>

\* The transaction is refused (a constraint, a path longer than its column, the
\* database): nothing is written.
AdminFails(a) ==
  /\ admin[a].op # "free"
  /\ End(a) /\ UNCHANGED <<tree, leader, member, kb>>

-----------------------------------------------------------------------------
(* UserService.remove: one statement and what its foreign keys do.          *)

RemoveUser(u) ==
  /\ u \in users
  /\ users' = users \ {u}
  /\ member' = [member EXCEPT ![u] = [d \in Depts |-> "none"]]
  /\ leader' = [d \in Depts |-> IF leader[d] = u THEN NoUser ELSE leader[d]]
  /\ kb' = [k \in Kbs |-> [kb[k] EXCEPT !.members = @ \ {u},
                                        !.by = IF @ = u THEN NoUser ELSE @]]
  /\ UNCHANGED <<tree, admin, owner, calls, asks>>

-----------------------------------------------------------------------------
(* KbMemberService and the scope of a knowledge base                        *)

Ask(o, call) ==
  /\ owner[o].op = "free" /\ asks < MaxAsks
  /\ asks' = asks + 1
  /\ owner' = [owner EXCEPT ![o] = call]
  /\ UNCHANGED <<tree, leader, users, member, kb, admin, calls>>
Answer(o) ==
  /\ owner' = [owner EXCEPT ![o] = Off]
  /\ UNCHANGED <<tree, leader, users, member, admin, calls, asks>>

ShareCheck(o) ==
  \E k \in Kbs, u \in users :
    /\ u # kb[k].by /\ u \notin kb[k].members
    /\ Ask(o, [Off EXCEPT !.op = "share", !.kb = k, !.user = u])

\* The row is unique; the counter is written in the same transaction.
ShareWrite(o) ==
  LET c == owner[o] IN
  /\ c.op = "share" /\ c.user \in users /\ c.user \notin kb[c.kb].members
  /\ kb' = [kb EXCEPT ![c.kb].members = @ \cup {c.user}, ![c.kb].count = @ + 1]
  /\ Answer(o)

UnshareCheck(o) ==
  \E k \in Kbs : \E u \in kb[k].members :
    Ask(o, [Off EXCEPT !.op = "unshare", !.kb = k, !.user = u])

UnshareWrite(o) ==
  LET c == owner[o] IN
  /\ c.op = "unshare" /\ c.user \in kb[c.kb].members
  /\ kb' = [kb EXCEPT ![c.kb].members = @ \ {c.user}, ![c.kb].count = @ - 1]
  /\ Answer(o)

ScopeCheck(o) ==
  \E k \in Kbs, v \in Visibilities, d \in Rows \cup {NoDept},
     set \in {{"visibility"}, {"org"}, {"visibility", "org"}} :
    Ask(o, [Off EXCEPT !.op = "scope", !.kb = k, !.set = set,
                       !.visibility = IF "visibility" \in set THEN v ELSE @,
                       !.org = IF "org" \in set THEN d ELSE @])

\* org_id has no foreign key.
ScopeWrite(o) ==
  LET c == owner[o] IN
  /\ c.op = "scope"
  /\ kb' = [kb EXCEPT ![c.kb].visibility = IF "visibility" \in c.set THEN c.visibility ELSE @,
                      ![c.kb].org = IF "org" \in c.set THEN c.org ELSE @]
  /\ Answer(o)

OwnerFails(o) == owner[o].op # "free" /\ Answer(o) /\ UNCHANGED kb

-----------------------------------------------------------------------------
(* Who reads what                                                           *)

InSubtree(p, ancestor) == IsPrefix(ancestor, p)

VisibleDepts(u) == {d \in Rows : \E m \in Homes(u) : InSubtree(path[m], path[d])}

\* The filter of the lists.
Listed(u, k) ==
  \/ kb[k].by = u \/ kb[k].visibility = "PUBLIC" \/ u \in kb[k].members
  \/ kb[k].visibility = "DEPT" /\ kb[k].org \in VisibleDepts(u)

DeptVisible(u, k) ==
  /\ kb[k].org \in Rows
  /\ \E m \in Homes(u) : InSubtree(path[m], path[kb[k].org])

\* canReadKb, as detail asks it.
CanRead(u, k) ==
  \/ kb[k].by = u \/ kb[k].visibility = "PUBLIC" \/ u \in kb[k].members
  \/ kb[k].visibility = "DEPT" /\ DeptVisible(u, k)

-----------------------------------------------------------------------------

Administrate(a) ==
  \/ CreateCheck(a) \/ CreateWrite(a) \/ MoveCheck(a) \/ MoveWrite(a)
  \/ RemoveCheck(a) \/ RemoveWrite(a) \/ LeadCheck(a) \/ LeadWrite(a)
  \/ JoinCheck(a) \/ JoinWrite(a) \/ LeaveCheck(a) \/ LeaveWrite(a) \/ AdminFails(a)

Share(o) ==
  \/ ShareCheck(o) \/ ShareWrite(o) \/ UnshareCheck(o) \/ UnshareWrite(o)
  \/ ScopeCheck(o) \/ ScopeWrite(o) \/ OwnerFails(o)

DepartmentNext ==
  \/ \E a \in Admins : Administrate(a)
  \/ \E o \in Owners : Share(o)
  \/ \E u \in Users : RemoveUser(u)

DepartmentSpec == DepartmentInit /\ [][DepartmentNext]_departmentVars

-----------------------------------------------------------------------------
(* Properties                                                               *)

\* The materialised path of every department is the one its parent links give
\* it, after any sequence of creations, moves and removals; in particular
\* nothing lies below itself ("校验不成环").
PathsFit == \A d \in Rows : parent[d] \in Rows \cup {NoDept} /\ path[d] = PathOf(d)

\* The department m and those above it, as the parent links have it: they are in
\* every set that contains m and, with a department, its parent.
Above(m) ==
  {d \in Depts : \A S \in SUBSET Depts :
     m \in S /\ (\A x \in S : parent[x] \in Depts => parent[x] \in S) => d \in S}

\* "X 自身与 X 的全部后代部门的成员可读": through the list and one by one a user
\* reads the same libraries, and the department channel opens a library exactly
\* to the members of its department and of those below it, as the parent links
\* have it.
AccessFollowsTree ==
  \A u \in users, k \in Kbs :
    /\ Listed(u, k) <=> CanRead(u, k)
    /\ DeptVisible(u, k) <=> kb[k].org \in Rows /\ \E m \in Homes(u) : kb[k].org \in Above(m)

\* "避免 leaderId 指向非成员": whoever loses a membership, by whatever call or
\* cascade, does not lead that department afterwards.
LeaderLeaves ==
  [][\A u \in Users, d \in Depts : IsMember(u, d) /\ ~IsMember(u, d)' => leader'[d] # u]_departmentVars

\* "memberCount = owner(1) + 成员数": exact under concurrent invitations and
\* removals, as long as no account is deleted (the cascade does not count).
CountExact ==
  users = Users => \A k \in Kbs : kb[k].count = 1 + Cardinality(kb[k].members)

\* The paths, the links and what they open agree, and who was let in is counted
\* (department.service.ts, kb-access.service.ts, kb-member.service.ts).
DepartmentsHold == PathsFit /\ AccessFollowsTree /\ CountExact
=============================================================================
