---------------------------- MODULE PeopleProofs ----------------------------
(* Proofs about who may do what: the tree of departments and what it opens, *)
(* the counts of members, the leaders, and the ranks of the accounts.       *)
EXTENDS Department, Accounts, PageGates, FiniteSetTheorems, SequenceTheorems, TLAPS

-----------------------------------------------------------------------------
(* Prefixes                                                                 *)

LEMMA PrefixPointwise ==
  ASSUME NEW s \in Seq(Depts), NEW t \in Seq(Depts)
  PROVE  IsPrefix(s, t) <=> Len(s) <= Len(t) /\ \A i \in 1..Len(s) : s[i] = t[i]
<1>1. CASE Len(s) <= Len(t)
  <2>1. \A i \in 1..Len(s) : t[i] \in Depts /\ s[i] \in Depts
    BY <1>1, ElementOfSeq, LenProperties
  <2>2. /\ SubSeq(t, 1, Len(s)) \in Seq(Depts)
        /\ Len(SubSeq(t, 1, Len(s))) = Len(s)
        /\ \A i \in 1..Len(s) : SubSeq(t, 1, Len(s))[i] = t[i]
    <3>1. 1 \in Int /\ Len(s) \in Nat  BY LenProperties
    <3> QED  BY <2>1, <3>1, SubSeqProperties
  <2>3. SubSeq(s, 1, Len(s)) = s
    BY SubSeqFull
  <2>4. (\A i \in 1..Len(s) : s[i] = t[i]) => s = SubSeq(t, 1, Len(s))
    BY <2>2, SeqEqual
  <2> QED  BY <1>1, <2>2, <2>3, <2>4 DEF IsPrefix
<1>2. CASE ~(Len(s) <= Len(t))
  BY <1>2 DEF IsPrefix
<1> QED  BY <1>1, <1>2

\* A path with one more department.
LEMMA OneMore ==
  ASSUME NEW s \in Seq(Depts), NEW d \in Depts
  PROVE  /\ s \o <<d>> \in Seq(Depts)
         /\ Len(s) \in Nat /\ Len(s \o <<d>>) = Len(s) + 1
         /\ \A i \in 1..Len(s) : (s \o <<d>>)[i] = s[i]
         /\ (s \o <<d>>)[Len(s) + 1] = d
<1>1. <<d>> \in Seq(Depts) /\ Len(<<d>>) = 1 /\ <<d>>[1] = d
  OBVIOUS
<1>2. Len(s) \in Nat  BY LenProperties
<1> QED  BY <1>1, <1>2, ConcatProperties

-----------------------------------------------------------------------------
(* The tree                                                                 *)

\* The path below which a department with the parent p lies.
Base(p) == IF p = NoDept THEN <<>> ELSE path[p]

LEMMA RowOfPath ==
  ASSUME DepartmentParameters, DepartmentType, PathsFit, NEW d \in Rows
  PROVE  /\ parent[d] \in Rows \cup {NoDept}
         /\ Base(parent[d]) \in Seq(Depts)
         /\ path[d] = Base(parent[d]) \o <<d>> /\ path[d] \in Seq(Depts)
         /\ Len(Base(parent[d])) \in Nat
         /\ Len(path[d]) = Len(Base(parent[d])) + 1
         /\ Len(path[d]) \in Nat /\ Len(path[d]) >= 1
         /\ \A i \in 1..Len(Base(parent[d])) : path[d][i] = Base(parent[d])[i]
         /\ path[d][Len(path[d])] = d
<1>1. d \in Depts /\ parent[d] \in Rows \cup {NoDept} /\ path[d] = Base(parent[d]) \o <<d>>
  BY DEF PathsFit, PathOf, Base, Rows
<1>2. Base(parent[d]) \in Seq(Depts)
  BY <1>1 DEF Base, DepartmentType, DepartmentParameters, Rows
<1>3. /\ path[d] \in Seq(Depts)
      /\ Len(Base(parent[d])) \in Nat
      /\ Len(path[d]) = Len(Base(parent[d])) + 1
      /\ \A i \in 1..Len(Base(parent[d])) : path[d][i] = Base(parent[d])[i]
      /\ path[d][Len(Base(parent[d])) + 1] = d
  BY <1>1, <1>2, OneMore
<1> QED  BY <1>1, <1>2, <1>3

LEMMA SamePath ==
  ASSUME DepartmentParameters, DepartmentType, PathsFit,
         NEW c \in Rows, NEW d \in Rows, path[c] = path[d]
  PROVE  c = d
BY RowOfPath

\* What lies below d, other than d, lies there with its parent.
LEMMA ParentBelow ==
  ASSUME DepartmentParameters, DepartmentType, PathsFit,
         NEW d \in Rows, NEW x \in Rows, x # d
  PROVE  IsPrefix(path[d], path[x]) <=>
           parent[x] \in Rows /\ IsPrefix(path[d], path[parent[x]])
<1> DEFINE q == parent[x]
<1>1. q \in Rows \cup {NoDept} /\ Base(q) \in Seq(Depts) /\ path[x] \in Seq(Depts)
      /\ Len(Base(q)) \in Nat /\ Len(path[x]) = Len(Base(q)) + 1
      /\ (\A i \in 1..Len(Base(q)) : path[x][i] = Base(q)[i])
      /\ path[x][Len(path[x])] = x
  BY RowOfPath
<1>2. path[d] \in Seq(Depts) /\ path[d][Len(path[d])] = d /\ Len(path[d]) \in Nat /\ Len(path[d]) >= 1
  BY RowOfPath
<1>3. q \in Rows => q # NoDept /\ Base(q) = path[q]
  BY DEF Base, Rows, DepartmentParameters
<1>4. q \notin Rows => Len(Base(q)) = 0
  BY <1>1 DEF Base
<1>5. ASSUME IsPrefix(path[d], path[x])
      PROVE  q \in Rows /\ IsPrefix(path[d], path[q])
  <2>1. Len(path[d]) <= Len(path[x]) /\ \A i \in 1..Len(path[d]) : path[d][i] = path[x][i]
    BY <1>1, <1>2, <1>5, PrefixPointwise
  <2>2. Len(path[d]) # Len(path[x])
    BY <1>1, <1>2, <2>1
  <2>3. Len(path[d]) <= Len(Base(q))
    BY <1>1, <1>2, <2>1, <2>2
  <2>4. q \in Rows
    BY <1>2, <1>4, <2>3
  <2>5. \A i \in 1..Len(path[d]) : path[d][i] = path[q][i]
    BY <1>1, <1>2, <1>3, <2>1, <2>3, <2>4
  <2> QED  BY <1>1, <1>2, <1>3, <2>3, <2>4, <2>5, PrefixPointwise
<1>6. ASSUME q \in Rows, IsPrefix(path[d], path[q])
      PROVE  IsPrefix(path[d], path[x])
  <2>1. Len(path[d]) <= Len(Base(q)) /\ \A i \in 1..Len(path[d]) : path[d][i] = Base(q)[i]
    BY <1>1, <1>2, <1>3, <1>6, PrefixPointwise
  <2>2. \A i \in 1..Len(path[d]) : path[d][i] = path[x][i]
    BY <1>1, <1>2, <2>1
  <2>3. Len(path[d]) <= Len(path[x])
    BY <1>1, <1>2, <2>1
  <2> QED  BY <1>1, <1>2, <2>2, <2>3, PrefixPointwise
<1> QED  BY <1>5, <1>6

\* The paths say who is above whom.
LEMMA AboveIsPrefix ==
  ASSUME DepartmentParameters, DepartmentType, PathsFit, NEW m \in Rows, NEW d \in Rows
  PROVE  d \in Above(m) <=> IsPrefix(path[d], path[m])
<1>0. \A x \in Rows : path[x] \in Seq(Depts) /\ Len(path[x]) \in Nat /\ IsPrefix(path[x], path[x])
  <2>1. ASSUME NEW x \in Rows
        PROVE  path[x] \in Seq(Depts) /\ Len(path[x]) \in Nat
    BY RowOfPath
  <2>2. ASSUME NEW x \in Rows
        PROVE  IsPrefix(path[x], path[x])
    BY <2>1, PrefixPointwise
  <2> QED  BY <2>1, <2>2
<1>1. ASSUME d \in Above(m)
      PROVE  IsPrefix(path[d], path[m])
  <2> DEFINE S == {x \in Rows : IsPrefix(path[x], path[m])}
  <2>1. S \in SUBSET Depts /\ m \in S
    BY <1>0 DEF Rows
  <2>2. ASSUME NEW x \in S, parent[x] \in Depts
        PROVE  parent[x] \in S
    <3>1. x \in Rows /\ IsPrefix(path[x], path[m])  OBVIOUS
    <3>2. parent[x] \in Rows
      <4>1. parent[x] \in Rows \cup {NoDept}  BY <3>1, RowOfPath
      <4> QED  BY <2>2, <4>1 DEF DepartmentParameters
    <3>3. Base(parent[x]) = path[parent[x]]
      BY <3>2 DEF Base, Rows, DepartmentParameters
    <3>4. Len(path[x]) = Len(path[parent[x]]) + 1
          /\ \A i \in 1..Len(path[parent[x]]) : path[x][i] = path[parent[x]][i]
      <4>1. /\ Len(path[x]) = Len(Base(parent[x])) + 1
            /\ \A i \in 1..Len(Base(parent[x])) : path[x][i] = Base(parent[x])[i]
        BY <3>1, RowOfPath
      <4> QED  BY <3>3, <4>1
    <3>5. Len(path[x]) <= Len(path[m]) /\ \A i \in 1..Len(path[x]) : path[x][i] = path[m][i]
      BY <1>0, <3>1, PrefixPointwise
    <3>6. Len(path[parent[x]]) \in Nat /\ Len(path[x]) \in Nat /\ Len(path[m]) \in Nat
      BY <1>0, <3>1, <3>2
    <3>7. Len(path[parent[x]]) <= Len(path[m])
          /\ \A i \in 1..Len(path[parent[x]]) : path[parent[x]][i] = path[m][i]
      BY <3>4, <3>5, <3>6
    <3> QED  BY <1>0, <3>2, <3>7, PrefixPointwise
  <2>3. d \in S
    BY <1>1, <2>1, <2>2 DEF Above
  <2> QED  BY <2>3
<1>2. ASSUME IsPrefix(path[d], path[m]), NEW S \in SUBSET Depts, m \in S,
             \A x \in S : parent[x] \in Depts => parent[x] \in S
      PROVE  d \in S
  <2> DEFINE T == {x \in S \cap Rows : IsPrefix(path[d], path[x])}
             Lens == {n \in Nat : \E x \in T : n = Len(path[x])}
  <2>1. m \in T
    BY <1>2
  <2>2. Lens # {} /\ Lens \subseteq Nat
    BY <1>0, <2>1
  <2>3. PICK n \in Lens : \A k \in Lens : ~(k < n)
    <3>1. PICK n \in Lens : \A k \in Lens : <<k, n>> \notin OpToRel(<, Nat)
      BY <2>2, NatLessThanWellFounded, WFMin
    <3> QED  BY <3>1, <2>2 DEF OpToRel
  <2>4. PICK x \in T : n = Len(path[x])
    BY <2>3
  <2>5. x = d
    <3>1. SUFFICES ASSUME x # d PROVE FALSE
      OBVIOUS
    <3>2. x \in Rows /\ x \in S /\ IsPrefix(path[d], path[x])
      BY <2>4
    <3>3. parent[x] \in Rows /\ IsPrefix(path[d], path[parent[x]])
      BY <3>1, <3>2, ParentBelow
    <3>4. parent[x] \in T
      BY <1>2, <3>2, <3>3 DEF Rows
    <3>5. Len(path[parent[x]]) \in Lens
      BY <1>0, <3>3, <3>4
    <3>6. Len(path[x]) = Len(path[parent[x]]) + 1 /\ Len(path[parent[x]]) \in Nat
      BY <1>0, <3>2, <3>3, RowOfPath DEF Base, Rows, DepartmentParameters
    <3> QED  BY <2>3, <2>4, <3>5, <3>6
  <2> QED  BY <2>4, <2>5
<1> QED  BY <1>1, <1>2 DEF Above, Rows

-----------------------------------------------------------------------------
(* Types and counts                                                         *)

\* The count of a library is its creator and its members, and one more for each
\* member whose account was deleted: never less, and exact before the first.
Counted ==
  \A k \in Kbs :
    /\ kb[k].count >= 1 + Cardinality(kb[k].members)
    /\ users = Users => kb[k].count = 1 + Cardinality(kb[k].members)

LEMMA CallsOfAdmins ==
  ASSUME DepartmentType, DepartmentParameters, NEW a \in Admins, NEW call \in AdminCalls
  PROVE  /\ Begin(a, call) => DepartmentType'
         /\ Begin(a, call) => UNCHANGED <<tree, leader, users, member, kb, owner>>
         /\ Begin(a, call) => admin' = [admin EXCEPT ![a] = call]
  BY DEF DepartmentType, DepartmentParameters, Begin, tree

LEMMA FreeCalls ==
  ASSUME DepartmentParameters
  PROVE  Free \in AdminCalls /\ Off \in OwnerCalls
  <1>1. <<>> \in Seq(Depts)  OBVIOUS
  <1>2. Free \in AdminCalls
    BY <1>1 DEF Free, AdminCalls, Parents, Persons
  <1>3. Off \in OwnerCalls
    BY DEF Off, OwnerCalls, Parents, Persons, Visibilities
  <1> QED  BY <1>2, <1>3

LEMMA AdminTypes ==
  ASSUME DepartmentParameters, DepartmentType, NEW a \in Admins, Administrate(a)
  PROVE  DepartmentType'
<1> USE DEF Parents, Persons
<1>0. Free \in AdminCalls /\ admin[a] \in AdminCalls /\ Rows \subseteq Depts
  BY FreeCalls DEF DepartmentType, Rows
<1>1. \A p \in Parents : Base(p) \in Seq(Depts)
  BY DEF Base, DepartmentType
<1>2. ASSUME End(a), UNCHANGED kb,
             state' \in [Depts -> {"unused", "kept", "removed"}], parent' \in [Depts -> Parents],
             path' \in [Depts -> Seq(Depts)], leader' \in [Depts -> Persons],
             member' \in [Users -> [Depts -> Memberships]]
      PROVE  DepartmentType'
  BY <1>0, <1>2 DEF End, DepartmentType
<1>3. CASE CreateCheck(a)
  <2>1. PICK p \in Rows \cup {NoDept}, u \in users \cup {NoUser} :
          Begin(a, [Free EXCEPT !.op = "create", !.up = p, !.user = u, !.new = Base(p)])
    BY <1>3 DEF CreateCheck, Base
  <2>2. [Free EXCEPT !.op = "create", !.up = p, !.user = u, !.new = Base(p)] \in AdminCalls
    BY <1>0, <1>1 DEF AdminCalls, DepartmentType
  <2> QED  BY <2>1, <2>2, CallsOfAdmins
<1>4. CASE CreateWrite(a)
  <2> DEFINE c == admin[a]
  <2>1. c.up \in Parents /\ c.user \in Persons /\ c.new \in Seq(Depts)
    BY <1>0 DEF AdminCalls
  <2>2. PICK d \in Depts :
          /\ state' = [state EXCEPT ![d] = "kept"] /\ parent' = [parent EXCEPT ![d] = c.up]
          /\ path' = [path EXCEPT ![d] = c.new \o <<d>>] /\ leader' = [leader EXCEPT ![d] = c.user]
    BY <1>4 DEF CreateWrite
  <2>3. c.new \o <<d>> \in Seq(Depts)
    BY <2>1, OneMore
  <2>4. state' \in [Depts -> {"unused", "kept", "removed"}] /\ parent' \in [Depts -> Parents]
        /\ path' \in [Depts -> Seq(Depts)] /\ leader' \in [Depts -> Persons]
    BY <2>1, <2>2, <2>3 DEF DepartmentType
  <2> QED  BY <1>2, <1>4, <2>4 DEF CreateWrite, DepartmentType
<1>5. CASE MoveCheck(a)
  <2>1. PICK d \in Rows, p \in Rows \cup {NoDept} :
          Begin(a, [Free EXCEPT !.op = "move", !.dept = d, !.up = p, !.old = path[d],
                                !.new = Base(p) \o <<d>>])
    BY <1>5 DEF MoveCheck, Base
  <2>2. path[d] \in Seq(Depts) /\ Base(p) \o <<d>> \in Seq(Depts)
    BY <1>0, <1>1, OneMore DEF DepartmentType
  <2>3. [Free EXCEPT !.op = "move", !.dept = d, !.up = p, !.old = path[d],
                     !.new = Base(p) \o <<d>>] \in AdminCalls
    BY <1>0, <2>2 DEF AdminCalls
  <2> QED  BY <2>1, <2>3, CallsOfAdmins
<1>6. CASE MoveWrite(a)
  <2> DEFINE c == admin[a]
  <2>1. c.up \in Parents /\ c.old \in Seq(Depts) /\ c.new \in Seq(Depts)
    BY <1>0 DEF AdminCalls
  <2>2. ASSUME NEW x \in Depts
        PROVE  Moved(x, c.old, c.new) \in Seq(Depts)
    <3>1. path[x] \in Seq(Depts) /\ Len(path[x]) \in Nat /\ Len(c.old) \in Nat
      BY <2>1, LenProperties DEF DepartmentType
    <3>2. \A i \in Len(c.old) + 1 .. Len(path[x]) : path[x][i] \in Depts
      BY <3>1, ElementOfSeq
    <3>3. SubSeq(path[x], Len(c.old) + 1, Len(path[x])) \in Seq(Depts)
      BY <3>1, <3>2, SubSeqProperties
    <3> QED  BY <2>1, <3>1, <3>3, ConcatProperties DEF Moved
  <2>3. path' \in [Depts -> Seq(Depts)] /\ parent' \in [Depts -> Parents]
    BY <1>6, <2>1, <2>2 DEF MoveWrite, DepartmentType
  <2> QED  BY <1>2, <1>6, <2>3 DEF MoveWrite, DepartmentType
<1>7. CASE RemoveCheck(a) \/ LeadCheck(a) \/ JoinCheck(a) \/ LeaveCheck(a)
  <2>1. CASE RemoveCheck(a)
    <3>1. PICK d \in Rows : Begin(a, [Free EXCEPT !.op = "remove", !.dept = d])
      BY <2>1 DEF RemoveCheck
    <3>2. [Free EXCEPT !.op = "remove", !.dept = d] \in AdminCalls
      BY <1>0 DEF AdminCalls
    <3> QED  BY <3>1, <3>2, CallsOfAdmins
  <2>2. CASE LeadCheck(a)
    <3>1. PICK d \in Rows, u \in users \cup {NoUser} :
            Begin(a, [Free EXCEPT !.op = "lead", !.dept = d, !.user = u])
      BY <2>2 DEF LeadCheck
    <3>2. [Free EXCEPT !.op = "lead", !.dept = d, !.user = u] \in AdminCalls
      BY <1>0 DEF AdminCalls, DepartmentType
    <3> QED  BY <3>1, <3>2, CallsOfAdmins
  <2>3. CASE JoinCheck(a)
    <3>1. PICK d \in Rows, u \in users, primary \in BOOLEAN :
            Begin(a, [Free EXCEPT !.op = "join", !.dept = d, !.user = u, !.primary = primary,
                                  !.clear = primary /\ Homes(u) # {}])
      BY <2>3 DEF JoinCheck
    <3>2. (primary /\ Homes(u) # {}) \in BOOLEAN
      OBVIOUS
    <3>3. [Free EXCEPT !.op = "join", !.dept = d, !.user = u, !.primary = primary,
                       !.clear = primary /\ Homes(u) # {}] \in AdminCalls
      BY <1>0, <3>2 DEF AdminCalls, DepartmentType
    <3> QED  BY <3>1, <3>3, CallsOfAdmins
  <2>4. CASE LeaveCheck(a)
    <3>1. PICK d \in Rows, u \in users :
            Begin(a, [Free EXCEPT !.op = "leave", !.dept = d, !.user = u, !.clear = leader[d] = u])
      BY <2>4 DEF LeaveCheck
    <3>2. [Free EXCEPT !.op = "leave", !.dept = d, !.user = u, !.clear = leader[d] = u] \in AdminCalls
      BY <1>0 DEF AdminCalls, DepartmentType
    <3> QED  BY <3>1, <3>2, CallsOfAdmins
  <2> QED  BY <1>7, <2>1, <2>2, <2>3, <2>4
<1>8. CASE RemoveWrite(a)
  <2> DEFINE d == admin[a].dept
  <2>1. state' \in [Depts -> {"unused", "kept", "removed"}] /\ parent' \in [Depts -> Parents]
        /\ leader' \in [Depts -> Persons]
    BY <1>8 DEF RemoveWrite, DepartmentType
  <2>2. path' \in [Depts -> Seq(Depts)]
    <3>1. <<>> \in Seq(Depts)  OBVIOUS
    <3>2. path' = [path EXCEPT ![d] = <<>>]
      BY <1>8 DEF RemoveWrite
    <3> QED  BY <3>1, <3>2 DEF DepartmentType
  <2>3. member' \in [Users -> [Depts -> Memberships]]
    BY <1>8 DEF RemoveWrite, DepartmentType, Memberships
  <2> QED  BY <1>2, <1>8, <2>1, <2>2, <2>3 DEF RemoveWrite
<1>9. CASE LeadWrite(a)
  <2>1. leader' \in [Depts -> Persons]
    BY <1>9 DEF LeadWrite, DepartmentType
  <2> QED  BY <1>2, <1>9, <2>1 DEF LeadWrite, DepartmentType, tree
<1>10. CASE JoinWrite(a)
  <2> DEFINE c == admin[a]
  <2>1. c.user \in Users /\ member[c.user] \in [Depts -> Memberships]
    BY <1>10 DEF JoinWrite, DepartmentType
  <2>2. Joined(member[c.user], c) \in [Depts -> Memberships]
    BY <2>1 DEF Joined, Memberships
  <2>3. member' = [member EXCEPT ![c.user] = Joined(member[c.user], c)]
    BY <1>10 DEF JoinWrite
  <2>4. member' \in [Users -> [Depts -> Memberships]]
    BY <2>1, <2>2, <2>3 DEF DepartmentType
  <2> QED  BY <1>2, <1>10, <2>4 DEF JoinWrite, DepartmentType, tree
<1>11. CASE LeaveWrite(a)
  <2>1. member' \in [Users -> [Depts -> Memberships]]
    BY <1>11 DEF LeaveWrite, DepartmentType, Memberships
  <2>2. leader' \in [Depts -> Persons]
    BY <1>11 DEF LeaveWrite, DepartmentType
  <2> QED  BY <1>2, <1>11, <2>1, <2>2 DEF LeaveWrite, DepartmentType, tree
<1>12. CASE AdminFails(a)
  BY <1>2, <1>12 DEF AdminFails, DepartmentType, tree
<1> QED
  BY <1>3, <1>4, <1>5, <1>6, <1>7, <1>8, <1>9, <1>10, <1>11, <1>12, Administrate(a) DEF Administrate

LEMMA OwnerTypes ==
  ASSUME DepartmentParameters, IsFiniteSet(Users), DepartmentType, Counted,
         NEW o \in Owners, Share(o)
  PROVE  DepartmentType' /\ Counted'
<1> USE DEF Parents, Persons
<1>0. Off \in OwnerCalls /\ owner[o] \in OwnerCalls /\ kb \in [Kbs -> Libraries]
  BY FreeCalls DEF DepartmentType
<1>1. \A k \in Kbs : /\ kb[k] \in Libraries /\ kb[k].count \in Nat
                     /\ IsFiniteSet(kb[k].members) /\ Cardinality(kb[k].members) \in Nat
  <2>1. \A k \in Kbs : kb[k] \in Libraries /\ kb[k].members \in SUBSET Users /\ kb[k].count \in Nat
    BY <1>0 DEF Libraries
  <2> QED  BY <2>1, FS_Subset, FS_CardinalityType
<1>2. ASSUME NEW call \in OwnerCalls, Ask(o, call)
      PROVE  DepartmentType' /\ Counted'
  BY <1>2 DEF Ask, DepartmentType, DepartmentParameters, Counted, tree
<1>4. ASSUME Answer(o), kb' \in [Kbs -> Libraries],
             \A k \in Kbs : /\ kb'[k].count >= 1 + Cardinality(kb'[k].members)
                            /\ users = Users => kb'[k].count = 1 + Cardinality(kb'[k].members)
      PROVE  DepartmentType' /\ Counted'
  BY <1>0, <1>4 DEF Answer, DepartmentType, Counted, tree
<1>5. CASE ShareCheck(o)
  <2>1. PICK k \in Kbs, u \in users : Ask(o, [Off EXCEPT !.op = "share", !.kb = k, !.user = u])
    BY <1>5 DEF ShareCheck
  <2>2. [Off EXCEPT !.op = "share", !.kb = k, !.user = u] \in OwnerCalls
    BY <1>0 DEF OwnerCalls, DepartmentType
  <2> QED  BY <1>2, <2>1, <2>2
<1>6. CASE UnshareCheck(o)
  <2>1. PICK k \in Kbs :
          \E u \in kb[k].members : Ask(o, [Off EXCEPT !.op = "unshare", !.kb = k, !.user = u])
    BY <1>6 DEF UnshareCheck
  <2> PICK u \in kb[k].members : Ask(o, [Off EXCEPT !.op = "unshare", !.kb = k, !.user = u])
    BY <2>1
  <2>2. u \in Users
    BY <1>1 DEF Libraries
  <2>3. [Off EXCEPT !.op = "unshare", !.kb = k, !.user = u] \in OwnerCalls
    BY <1>0, <2>2 DEF OwnerCalls
  <2> QED  BY <1>2, <2>3
<1>7. CASE ScopeCheck(o)
  <2>1. PICK k \in Kbs, v \in Visibilities, d \in Rows \cup {NoDept},
             set \in {{"visibility"}, {"org"}, {"visibility", "org"}} :
          Ask(o, [Off EXCEPT !.op = "scope", !.kb = k, !.set = set,
                       !.visibility = IF "visibility" \in set THEN v ELSE @,
                       !.org = IF "org" \in set THEN d ELSE @])
    BY <1>7 DEF ScopeCheck
  <2>2. [Off EXCEPT !.op = "scope", !.kb = k, !.set = set,
                       !.visibility = IF "visibility" \in set THEN v ELSE @,
                       !.org = IF "org" \in set THEN d ELSE @] \in OwnerCalls
    BY ZenonT(40), <1>0 DEF OwnerCalls, Rows
  <2> QED  BY <1>2, <2>1, <2>2
<1>8. CASE ShareWrite(o)
  <2> DEFINE c == owner[o]
  <2>1. c.user \in Users /\ c.user \notin kb[c.kb].members
        /\ kb' = [kb EXCEPT ![c.kb].members = @ \cup {c.user}, ![c.kb].count = @ + 1] /\ Answer(o)
    BY <1>8 DEF ShareWrite, DepartmentType
  <2>0. kb' = [j \in Kbs |-> IF j = c.kb THEN [kb[j] EXCEPT !.members = @ \cup {c.user}, !.count = @ + 1]
                             ELSE kb[j]]
    <3> DEFINE one == [kb EXCEPT ![c.kb].members = @ \cup {c.user}]
    <3>1. kb' = [one EXCEPT ![c.kb].count = @ + 1]
      BY <2>1
    <3>2. one = [j \in Kbs |-> IF j = c.kb THEN [kb[j] EXCEPT !.members = @ \cup {c.user}] ELSE kb[j]]
      BY <1>0
    <3> HIDE DEF one
    <3>3. kb' = [j \in Kbs |-> IF j = c.kb THEN [one[j] EXCEPT !.count = @ + 1] ELSE one[j]]
      BY ZenonT(40), <3>1, <3>2
    <3> QED  BY <3>2, <3>3
  <2>2. ASSUME NEW k \in Kbs
        PROVE  /\ kb'[k] \in Libraries
               /\ kb'[k].count - Cardinality(kb'[k].members) = kb[k].count - Cardinality(kb[k].members)
               /\ Cardinality(kb'[k].members) \in Nat /\ kb'[k].count \in Nat
    <3>1. CASE k = c.kb
      <4>1. kb'[k] = [kb[k] EXCEPT !.members = @ \cup {c.user}, !.count = @ + 1]
        BY <2>0, <2>1, <3>1
      <4>2. kb'[k].members = kb[k].members \cup {c.user} /\ kb'[k].count = kb[k].count + 1
        BY <1>1, <4>1 DEF Libraries
      <4>3. Cardinality(kb[k].members \cup {c.user}) = Cardinality(kb[k].members) + 1
        BY <1>1, <2>1, <3>1, FS_AddElement
      <4>4. kb'[k] \in Libraries
        <5>1. kb[k].members \cup {c.user} \in SUBSET Users /\ kb[k].count + 1 \in Nat
          BY <1>1, <2>1 DEF Libraries
        <5>2. kb[k] \in Libraries  BY <1>1
        <5> QED  BY <4>1, <5>1, <5>2 DEF Libraries
      <4> QED  BY <1>1, <4>2, <4>3, <4>4
    <3>2. CASE k # c.kb
      <4>1. kb'[k] = kb[k]
        BY <2>0, <3>2
      <4> QED  BY <1>1, <4>1
    <3> QED  BY <3>1, <3>2
  <2>3. kb' \in [Kbs -> Libraries]
    BY <1>0, <2>1, <2>2
  <2>4. ASSUME NEW k \in Kbs
        PROVE  /\ kb'[k].count >= 1 + Cardinality(kb'[k].members)
               /\ users = Users => kb'[k].count = 1 + Cardinality(kb'[k].members)
    <3>1. /\ kb[k].count >= 1 + Cardinality(kb[k].members)
          /\ users = Users => kb[k].count = 1 + Cardinality(kb[k].members)
      BY DEF Counted
    <3> QED  BY <1>1, <2>2, <3>1
  <2> QED  BY <1>4, <2>1, <2>3, <2>4
<1>9. CASE UnshareWrite(o)
  <2> DEFINE c == owner[o]
  <2>1. c.user \in kb[c.kb].members
        /\ kb' = [kb EXCEPT ![c.kb].members = @ \ {c.user}, ![c.kb].count = @ - 1] /\ Answer(o)
    BY <1>9 DEF UnshareWrite
  <2>0. kb' = [j \in Kbs |-> IF j = c.kb THEN [kb[j] EXCEPT !.members = @ \ {c.user}, !.count = @ - 1]
                             ELSE kb[j]]
    <3> DEFINE one == [kb EXCEPT ![c.kb].members = @ \ {c.user}]
    <3>1. kb' = [one EXCEPT ![c.kb].count = @ - 1]
      BY <2>1
    <3>2. one = [j \in Kbs |-> IF j = c.kb THEN [kb[j] EXCEPT !.members = @ \ {c.user}] ELSE kb[j]]
      BY <1>0
    <3> HIDE DEF one
    <3>3. kb' = [j \in Kbs |-> IF j = c.kb THEN [one[j] EXCEPT !.count = @ - 1] ELSE one[j]]
      BY ZenonT(40), <3>1, <3>2
    <3> QED  BY <3>2, <3>3
  <2>2. ASSUME NEW k \in Kbs
        PROVE  /\ kb'[k] \in Libraries
               /\ kb'[k].count - Cardinality(kb'[k].members) = kb[k].count - Cardinality(kb[k].members)
               /\ Cardinality(kb'[k].members) \in Nat /\ kb'[k].count \in Nat
    <3>1. CASE k = c.kb
      <4>1. kb'[k] = [kb[k] EXCEPT !.members = @ \ {c.user}, !.count = @ - 1]
        BY <2>0, <2>1, <3>1
      <4>2. kb'[k].members = kb[k].members \ {c.user} /\ kb'[k].count = kb[k].count - 1
        BY <1>1, <4>1 DEF Libraries
      <4>3. /\ Cardinality(kb[k].members \ {c.user}) = Cardinality(kb[k].members) - 1
            /\ IsFiniteSet(kb[k].members \ {c.user})
        BY <1>1, <2>1, <3>1, FS_RemoveElement
      <4>4. Cardinality(kb[k].members \ {c.user}) \in Nat
        BY <4>3, FS_CardinalityType
      <4>5. kb[k].count >= 1 + Cardinality(kb[k].members)
        BY DEF Counted
      <4>6. kb[k].count - 1 \in Nat
        BY <1>1, <4>3, <4>4, <4>5
      <4>7. kb'[k] \in Libraries
        BY ZenonT(40), <1>1, <4>1, <4>6 DEF Libraries
      <4> QED  BY <1>1, <4>2, <4>3, <4>4, <4>6, <4>7
    <3>2. CASE k # c.kb
      <4>1. kb'[k] = kb[k]
        BY <2>0, <3>2
      <4> QED  BY <1>1, <4>1
    <3> QED  BY <3>1, <3>2
  <2>3. kb' \in [Kbs -> Libraries]
    BY <1>0, <2>1, <2>2
  <2>4. ASSUME NEW k \in Kbs
        PROVE  /\ kb'[k].count >= 1 + Cardinality(kb'[k].members)
               /\ users = Users => kb'[k].count = 1 + Cardinality(kb'[k].members)
    <3>1. /\ kb[k].count >= 1 + Cardinality(kb[k].members)
          /\ users = Users => kb[k].count = 1 + Cardinality(kb[k].members)
      BY DEF Counted
    <3> QED  BY <1>1, <2>2, <3>1
  <2> QED  BY <1>4, <2>1, <2>3, <2>4
<1>10. CASE ScopeWrite(o)
  <2> DEFINE c == owner[o]
  <2>1. c.org \in Parents /\ c.visibility \in Visibilities
    BY <1>0 DEF OwnerCalls
  <2>2. Answer(o)
        /\ kb' = [kb EXCEPT ![c.kb].visibility = IF "visibility" \in c.set THEN c.visibility ELSE @,
                            ![c.kb].org = IF "org" \in c.set THEN c.org ELSE @]
    BY <1>10 DEF ScopeWrite
  <2>3. ASSUME NEW k \in Kbs
        PROVE  kb'[k] \in Libraries /\ kb'[k].members = kb[k].members /\ kb'[k].count = kb[k].count
    <3>1. CASE k = c.kb
      <4>1. kb'[k] = [kb[k] EXCEPT !.visibility = IF "visibility" \in c.set THEN c.visibility ELSE @,
                                   !.org = IF "org" \in c.set THEN c.org ELSE @]
        BY <1>0, <2>2, <3>1
      <4> QED  BY <1>1, <2>1, <4>1 DEF Libraries
    <3>2. CASE k # c.kb
      BY <1>0, <1>1, <2>2, <3>2
    <3> QED  BY <3>1, <3>2
  <2>4. kb' \in [Kbs -> Libraries]
    BY <1>0, <2>2, <2>3
  <2> QED  BY <1>4, <2>2, <2>3, <2>4 DEF Counted
<1>11. CASE OwnerFails(o)
  BY <1>0, <1>4, <1>11 DEF OwnerFails, Counted
<1> QED  BY <1>5, <1>6, <1>7, <1>8, <1>9, <1>10, <1>11 DEF Share

LEMMA RemoveUserTypes ==
  ASSUME DepartmentParameters, IsFiniteSet(Users), DepartmentType, Counted,
         NEW u \in Users, RemoveUser(u)
  PROVE  DepartmentType' /\ Counted'
<1>1. /\ users' = users \ {u} /\ u \in users
      /\ member' = [member EXCEPT ![u] = [d \in Depts |-> "none"]]
      /\ leader' = [d \in Depts |-> IF leader[d] = u THEN NoUser ELSE leader[d]]
      /\ kb' = [k \in Kbs |-> [kb[k] EXCEPT !.members = @ \ {u}, !.by = IF @ = u THEN NoUser ELSE @]]
      /\ UNCHANGED <<state, parent, path, admin, owner, calls, asks>>
  BY DEF RemoveUser, tree
<1>2. ASSUME NEW k \in Kbs
      PROVE  kb'[k] \in Libraries /\ kb'[k].count >= 1 + Cardinality(kb'[k].members)
  <2>1. kb[k] \in Libraries /\ kb[k].members \in SUBSET Users /\ kb[k].count \in Nat
    BY DEF DepartmentType, Libraries
  <2>2. kb'[k] = [kb[k] EXCEPT !.members = @ \ {u}, !.by = IF @ = u THEN NoUser ELSE @]
    BY <1>1
  <2>3. kb'[k] \in Libraries /\ kb'[k].members = kb[k].members \ {u} /\ kb'[k].count = kb[k].count
    BY <2>1, <2>2 DEF Libraries, Persons
  <2>4. IsFiniteSet(kb[k].members)
    BY <2>1, FS_Subset
  <2>5. /\ Cardinality(kb[k].members) \in Nat /\ Cardinality(kb[k].members \ {u}) \in Nat
        /\ Cardinality(kb[k].members \ {u}) <= Cardinality(kb[k].members)
    <3>1. /\ Cardinality(kb[k].members \ {u}) = IF u \in kb[k].members THEN Cardinality(kb[k].members) - 1
                                                ELSE Cardinality(kb[k].members)
          /\ IsFiniteSet(kb[k].members \ {u})
      BY <2>4, FS_RemoveElement
    <3>2. Cardinality(kb[k].members) \in Nat /\ Cardinality(kb[k].members \ {u}) \in Nat
      BY <2>4, <3>1, FS_CardinalityType
    <3> QED  BY <3>1, <3>2
  <2>6. kb[k].count >= 1 + Cardinality(kb[k].members)
    BY DEF Counted
  <2> QED  BY <2>1, <2>3, <2>5, <2>6
<1>3. kb' \in [Kbs -> Libraries]
  BY <1>1, <1>2
<1>4. leader' \in [Depts -> Persons] /\ member' \in [Users -> [Depts -> Memberships]]
      /\ users' \in SUBSET Users
  BY <1>1 DEF DepartmentType, Persons, Memberships
<1>5. users' # Users
  BY <1>1
<1> QED  BY <1>1, <1>2, <1>3, <1>4, <1>5 DEF DepartmentType, Counted

LEMMA DepartmentInitial ==
  ASSUME DepartmentParameters, DepartmentInit
  PROVE  DepartmentType /\ Counted
<1>1. <<>> \in Seq(Depts)  OBVIOUS
<1>2. \A k \in Kbs : /\ kb[k] \in Libraries /\ kb[k].count = 1 /\ kb[k].members = {}
  <2>1. kb \in [Kbs -> [by: Persons, visibility: {"DEPT"}, org: {NoDept}, members: {{}}, count: {1}]]
    BY DEF DepartmentInit
  <2>2. ASSUME NEW k \in Kbs
        PROVE  kb[k] \in Libraries /\ kb[k].count = 1 /\ kb[k].members = {}
    <3>1. kb[k] \in [by: Persons, visibility: {"DEPT"}, org: {NoDept}, members: {{}}, count: {1}]
      BY <2>1
    <3>2. {} \in SUBSET Users /\ 1 \in Nat  OBVIOUS
    <3> QED  BY <3>1, <3>2 DEF Libraries, Visibilities, Parents
  <2> QED  BY <2>2
<1>3. kb \in [Kbs -> Libraries]
  BY <1>2 DEF DepartmentInit
<1>4. Counted
  <2>1. \A k \in Kbs : Cardinality(kb[k].members) = 0
    BY <1>2, FS_EmptySet
  <2> QED  BY <1>2, <2>1 DEF Counted
<1>5. DepartmentType
  BY <1>1, <1>3, FreeCalls DEF DepartmentInit, DepartmentType, Parents, Persons, Memberships
<1> QED  BY <1>4, <1>5

\* Calls of administrators change neither the accounts nor the libraries.
LEMMA AdminsKeep ==
  ASSUME NEW a \in Admins, Administrate(a)
  PROVE  kb' = kb /\ users' = users
<1>1. CASE CreateCheck(a) \/ MoveCheck(a) \/ RemoveCheck(a) \/ LeadCheck(a)
  BY <1>1 DEF CreateCheck, MoveCheck, RemoveCheck, LeadCheck, Begin
<1>2. CASE JoinCheck(a) \/ LeaveCheck(a)
  BY <1>2 DEF JoinCheck, LeaveCheck, Begin
<1>3. CASE CreateWrite(a) \/ MoveWrite(a) \/ RemoveWrite(a) \/ LeadWrite(a)
  BY <1>3 DEF CreateWrite, MoveWrite, RemoveWrite, LeadWrite, End
<1>4. CASE JoinWrite(a) \/ LeaveWrite(a) \/ AdminFails(a)
  BY <1>4 DEF JoinWrite, LeaveWrite, AdminFails, End
<1> QED  BY <1>1, <1>2, <1>3, <1>4, Administrate(a) DEF Administrate

LEMMA DepartmentStep ==
  ASSUME DepartmentParameters, IsFiniteSet(Users), DepartmentType, Counted,
         [DepartmentNext]_departmentVars
  PROVE  DepartmentType' /\ Counted'
<1>1. ASSUME NEW a \in Admins, Administrate(a)
      PROVE  Counted'
  BY <1>1, AdminsKeep DEF Counted
<1>2. CASE UNCHANGED departmentVars
  BY <1>2 DEF departmentVars, tree, DepartmentType, Counted
<1> QED  BY <1>1, <1>2, AdminTypes, OwnerTypes, RemoveUserTypes DEF DepartmentNext

\* However the calls of owners overlap with each other and with those of
\* administrators, the counter of a library is exact until an account is deleted
\* (kb-member.service.ts: the row and the counter in one transaction).
THEOREM CountIsExact ==
  ASSUME IsFiniteSet(Users)
  PROVE  DepartmentSpec => [](DepartmentType /\ CountExact)
<1>1. DepartmentInit => DepartmentType /\ Counted
  BY DepartmentInitial, DepartmentParameters
<1>2. DepartmentType /\ Counted /\ [DepartmentNext]_departmentVars => DepartmentType' /\ Counted'
  BY DepartmentStep, DepartmentParameters
<1>3. Counted => CountExact
  BY DEF Counted, CountExact
<1> QED  BY <1>1, <1>2, <1>3, PTL DEF DepartmentSpec

-----------------------------------------------------------------------------
(* One administrator at a time                                              *)

OneAdministrator == \A a, b \in Admins : a = b

HomesKept == \A u \in Users, d \in Depts : IsMember(u, d) => Kept(d)

\* What a call read still holds when it writes: nobody else writes the tree or
\* makes a leader meanwhile.
Pending(c) ==
  /\ c.op = "create" => c.up \in Rows \cup {NoDept} /\ c.new = Base(c.up)
  /\ c.op = "move" => /\ c.dept \in Rows /\ c.up \in (Rows \cup {NoDept}) \ {c.dept}
                      /\ c.up # NoDept => ~InOwnSubtree(c.dept, c.up)
                      /\ c.old = path[c.dept] /\ c.new = Base(c.up) \o <<c.dept>>
  /\ c.op = "leave" => c.user \in Users /\ c.dept \in Rows /\ (leader[c.dept] = c.user => c.clear)

TreeInv == PathsFit /\ HomesKept /\ \A a \in Admins : Pending(admin[a])

\* A free session holds nothing.
LEMMA FreePending ==
  ASSUME NEW a \in Admins, admin'[a] = Free
  PROVE  Pending(admin[a])'
  BY DEF Pending, Free

\* After the write of the only session.
LEMMA EndPending ==
  ASSUME OneAdministrator, DepartmentType, NEW a \in Admins, End(a)
  PROVE  \A b \in Admins : Pending(admin[b])'
  <1>1. \A b \in Admins : admin'[b] = Free
    BY DEF OneAdministrator, End, DepartmentType
  <1> QED  BY <1>1, FreePending

LEMMA CreateFits ==
  ASSUME DepartmentParameters, OneAdministrator, DepartmentType, TreeInv, NEW a \in Admins, CreateWrite(a)
  PROVE  TreeInv'
<1> DEFINE c == admin[a]
<1>1. PICK d \in Depts :
        /\ state[d] = "unused" /\ state' = [state EXCEPT ![d] = "kept"]
        /\ parent' = [parent EXCEPT ![d] = c.up]
        /\ path' = [path EXCEPT ![d] = c.new \o <<d>>]
  BY DEF CreateWrite
<1>2. c.up \in Rows \cup {NoDept} /\ c.new = Base(c.up) /\ UNCHANGED <<member, kb>> /\ End(a)
  BY DEF CreateWrite, TreeInv, Pending
<1>3. Rows' = Rows \cup {d} /\ d \notin Rows /\ NoDept \notin Depts
  BY <1>1 DEF Rows, Kept, DepartmentType, DepartmentParameters
<1>4. ASSUME NEW x \in Rows'
      PROVE  parent'[x] \in Rows' \cup {NoDept} /\ path'[x] = PathOf(x)'
  <2>1. CASE x = d
    <3>1. parent'[x] = c.up /\ path'[x] = Base(c.up) \o <<d>>
      BY <1>1, <1>2, <2>1 DEF DepartmentType
    <3>2. c.up # NoDept => path'[c.up] = path[c.up]
      BY <1>1, <1>2, <1>3 DEF DepartmentType, Rows
    <3> QED  BY <1>2, <1>3, <2>1, <3>1, <3>2 DEF PathOf, Base
  <2>2. CASE x # d
    <3>1. x \in Rows /\ parent'[x] = parent[x] /\ path'[x] = path[x]
      BY <1>1, <1>3, <2>2 DEF DepartmentType, Rows
    <3>2. parent[x] \in Rows \cup {NoDept} /\ path[x] = PathOf(x)
      BY <3>1 DEF TreeInv, PathsFit
    <3>3. parent[x] # NoDept => path'[parent[x]] = path[parent[x]]
      BY <1>1, <1>3, <3>2 DEF DepartmentType, Rows
    <3> QED  BY <1>3, <3>1, <3>2, <3>3 DEF PathOf
  <2> QED  BY <2>1, <2>2
<1>5. PathsFit'
  BY <1>4 DEF PathsFit
<1>6. HomesKept'
  BY <1>1, <1>2 DEF HomesKept, TreeInv, IsMember, Kept, DepartmentType
<1> QED  BY <1>2, <1>5, <1>6, EndPending DEF TreeInv

LEMMA RemoveFits ==
  ASSUME DepartmentParameters, OneAdministrator, DepartmentType, TreeInv, NEW a \in Admins, RemoveWrite(a)
  PROVE  TreeInv'
<1> DEFINE d == admin[a].dept
<1>1. /\ d \in Rows /\ \A c \in Rows : parent[c] # d
      /\ state' = [state EXCEPT ![d] = "removed"] /\ parent' = [parent EXCEPT ![d] = NoDept]
      /\ path' = [path EXCEPT ![d] = <<>>]
      /\ member' = [u \in Users |-> [member[u] EXCEPT ![d] = "none"]] /\ End(a)
  BY DEF RemoveWrite
<1>2. Rows' = Rows \ {d} /\ d \in Depts /\ NoDept \notin Depts
  BY <1>1 DEF Rows, Kept, DepartmentType, DepartmentParameters
<1>3. ASSUME NEW x \in Rows'
      PROVE  parent'[x] \in Rows' \cup {NoDept} /\ path'[x] = PathOf(x)'
  <2>1. x \in Rows /\ x # d /\ parent'[x] = parent[x] /\ path'[x] = path[x]
    BY <1>1, <1>2 DEF DepartmentType, Rows
  <2>2. parent[x] \in Rows \cup {NoDept} /\ parent[x] # d /\ path[x] = PathOf(x)
    BY <1>1, <2>1 DEF TreeInv, PathsFit
  <2>3. parent[x] # NoDept => path'[parent[x]] = path[parent[x]]
    BY <1>1, <2>2 DEF DepartmentType, Rows
  <2> QED  BY <1>2, <2>1, <2>2, <2>3 DEF PathOf
<1>4. PathsFit'
  BY <1>3 DEF PathsFit
<1>5. HomesKept'
  BY <1>1 DEF HomesKept, TreeInv, IsMember, Kept, DepartmentType, Rows
<1> QED  BY <1>1, <1>4, <1>5, EndPending DEF TreeInv

\* What a path has after a prefix as long as p.
After(s, p) == SubSeq(s, Len(p) + 1, Len(s))

LEMMA AfterOneMore ==
  ASSUME NEW s \in Seq(Depts), NEW p \in Seq(Depts), Len(p) <= Len(s), NEW d \in Depts
  PROVE  \A t \in Seq(Depts) : t \o After(s \o <<d>>, p) = (t \o After(s, p)) \o <<d>>
<1> DEFINE n == Len(p)
           r == s \o <<d>>
<1>1. /\ r \in Seq(Depts) /\ Len(s) \in Nat /\ Len(r) = Len(s) + 1 /\ r[Len(r)] = d
      /\ n \in Nat /\ n <= Len(s)
  BY OneMore, LenProperties
<1>2. <<d>> \in Seq(Depts)
  OBVIOUS
<1> HIDE DEF n
<1>3. SubSeq(r, n + 1, Len(s)) = SubSeq(s, n + 1, Len(s))
  <2>1. CASE n = Len(s)
    BY <1>1, <2>1, SubSeqEmpty
  <2>2. CASE n < Len(s)
    <3>1. n + 1 \in 1 .. Len(s) /\ Len(s) \in 1 .. Len(s)
      BY <1>1, <2>2
    <3> QED  BY <1>2, <3>1, SubSeqOfConcat1
  <2> QED  BY <1>1, <2>1, <2>2
<1> HIDE DEF r
<1>4. SubSeq(r, n + 1, Len(r)) = SubSeq(r, n + 1, Len(s)) \o <<d>>
  <2>1. n + 1 \in 1 .. Len(r) /\ Len(r) \in n + 1 .. Len(r) /\ Len(r) - 1 = Len(s)
    BY <1>1
  <2>2. SubSeq(r, n + 1, Len(r)) = SubSeq(r, n + 1, Len(r) - 1) \o <<r[Len(r)]>>
    BY <1>1, <2>1, SubSeqRecursiveSecond
  <2> QED  BY <1>1, <2>1, <2>2
<1>5. SubSeq(s, n + 1, Len(s)) \in Seq(Depts)
  <2>1. \A i \in n + 1 .. Len(s) : s[i] \in Depts
    BY <1>1, ElementOfSeq
  <2> QED  BY <1>1, <2>1, SubSeqProperties
<1>6. After(s, p) \in Seq(Depts) /\ After(s \o <<d>>, p) = After(s, p) \o <<d>>
  BY <1>3, <1>4, <1>5 DEF After, n, r
<1>7. ASSUME NEW t \in Seq(Depts)
      PROVE  t \o (After(s, p) \o <<d>>) = (t \o After(s, p)) \o <<d>>
  BY <1>2, <1>6, ConcatAssociative
<1> QED  BY <1>6, <1>7

\* The write of a move: three kinds of departments, the one that is moved, those
\* below it, and the others.
LEMMA MoveFits ==
  ASSUME DepartmentParameters, OneAdministrator, DepartmentType, TreeInv, NEW a \in Admins, MoveWrite(a)
  PROVE  TreeInv'
<1> DEFINE c == admin[a]
           d == c.dept
<1>0. PathsFit
  BY DEF TreeInv
<1>1. /\ d \in Rows /\ c.up \in (Rows \cup {NoDept}) \ {d}
      /\ c.up # NoDept => ~InOwnSubtree(d, c.up)
      /\ c.old = path[d] /\ c.new = Base(c.up) \o <<d>>
  BY DEF MoveWrite, TreeInv, Pending
<1>2. /\ path' = [x \in Depts |-> Moved(x, path[d], c.new)]
      /\ parent' = [parent EXCEPT ![d] = c.up] /\ UNCHANGED <<state, member>> /\ End(a)
  BY <1>1 DEF MoveWrite
<1>3. Rows' = Rows /\ NoDept \notin Depts /\ d \in Depts
  BY <1>1, <1>2 DEF Rows, Kept, DepartmentParameters
<1>4. /\ path[d] \in Seq(Depts) /\ Len(path[d]) \in Nat
      /\ Base(c.up) \in Seq(Depts) /\ c.new \in Seq(Depts)
  <2>1. Base(c.up) \in Seq(Depts)
    BY <1>1 DEF Base, DepartmentType, Rows
  <2> QED  BY <1>0, <1>1, <1>3, <2>1, RowOfPath, OneMore
<1>5. ASSUME NEW x \in Rows, ~IsPrefix(path[d], path[x])
      PROVE  path'[x] = path[x]
  BY <1>2, <1>5 DEF Moved, Rows
<1>6. ASSUME NEW x \in Rows, IsPrefix(path[d], path[x])
      PROVE  path'[x] = c.new \o After(path[x], path[d])
  BY <1>2, <1>6 DEF Moved, Rows, After
<1>7. c.up \in Rows => ~IsPrefix(path[d], path[c.up])
  BY <1>0, <1>1, <1>3, SamePath DEF InOwnSubtree, IsStrictPrefix, Rows
<1>8. ASSUME NEW x \in Rows
      PROVE  parent'[x] \in Rows \cup {NoDept} /\ path'[x] = PathOf(x)'
  <2>1. CASE x = d
    <3>1. IsPrefix(path[d], path[d])
      BY <1>4, PrefixPointwise
    <3>2. After(path[d], path[d]) = <<>>
      BY <1>4, SubSeqEmpty DEF After
    <3>3. path'[d] = c.new
      BY <1>1, <1>4, <1>6, <3>1, <3>2, ConcatEmptySeq
    <3>4. parent'[d] = c.up
      BY <1>2, <1>3 DEF DepartmentType
    <3>5. c.up # NoDept => path'[c.up] = path[c.up]
      BY <1>1, <1>5, <1>7
    <3> QED  BY <1>1, <2>1, <3>3, <3>4, <3>5 DEF PathOf, Base
  <2>2. CASE x # d
    <3> DEFINE q == parent[x]
    <3>1. parent'[x] = q /\ q \in Rows \cup {NoDept} /\ path[x] = Base(q) \o <<x>> /\ x \in Depts
      BY <1>0, <1>2, <2>2, RowOfPath DEF DepartmentType, Rows
    <3>2. IsPrefix(path[d], path[x]) <=> q \in Rows /\ IsPrefix(path[d], path[q])
      BY <1>0, <1>1, <2>2, ParentBelow
    <3>3. CASE IsPrefix(path[d], path[x])
      <4>1. q \in Rows /\ q # NoDept /\ path[q] \in Seq(Depts) /\ path[x] = path[q] \o <<x>>
        BY <1>0, <1>3, <3>1, <3>2, <3>3, RowOfPath DEF Base, Rows
      <4>2. Len(path[d]) <= Len(path[q])
        BY <1>4, <3>2, <3>3, <4>1, PrefixPointwise
      <4>3. path'[q] = c.new \o After(path[q], path[d])
        BY <1>6, <3>2, <3>3
      <4>4. path'[x] = c.new \o After(path[q] \o <<x>>, path[d])
        BY <1>6, <3>3, <4>1
      <4>5. path'[x] = path'[q] \o <<x>>
        <5>1. \A t \in Seq(Depts) : t \o After(path[q] \o <<x>>, path[d]) = (t \o After(path[q], path[d])) \o <<x>>
          BY ZenonT(40), <1>4, <3>1, <4>1, <4>2, AfterOneMore
        <5> QED  BY <1>4, <4>3, <4>4, <5>1
      <4> QED  BY <3>1, <4>1, <4>5 DEF PathOf
    <3>4. CASE ~IsPrefix(path[d], path[x])
      <4>1. q \in Rows => path'[q] = path[q]
        BY <1>5, <3>2, <3>4
      <4>2. path'[x] = path[x]
        BY <1>5, <3>4
      <4> QED  BY <1>3, <3>1, <4>1, <4>2 DEF PathOf, Base
    <3> QED  BY <3>3, <3>4
  <2> QED  BY <2>1, <2>2
<1>9. PathsFit'
  BY <1>3, <1>8 DEF PathsFit
<1>10. HomesKept'
  BY <1>2 DEF HomesKept, TreeInv, IsMember, Kept
<1> QED  BY <1>2, <1>9, <1>10, EndPending DEF TreeInv

\* The writes that leave the tree alone.
LEMMA StaffFits ==
  ASSUME OneAdministrator, DepartmentType, TreeInv, NEW a \in Admins,
         LeadWrite(a) \/ JoinWrite(a) \/ LeaveWrite(a) \/ AdminFails(a)
  PROVE  TreeInv'
<1>1. UNCHANGED <<state, parent, path>> /\ End(a)
  BY DEF LeadWrite, JoinWrite, LeaveWrite, AdminFails, tree
<1>2. PathsFit'
  BY <1>1 DEF TreeInv, PathsFit, PathOf, Rows, Kept
<1>3. HomesKept'
  <2>1. CASE LeadWrite(a) \/ AdminFails(a)
    BY <1>1, <2>1 DEF LeadWrite, AdminFails, TreeInv, HomesKept, IsMember, Kept
  <2>2. CASE JoinWrite(a)
    <3> DEFINE c == admin[a]
    <3>1. c.dept \in Rows /\ c.user \in Users /\ member' = [member EXCEPT ![c.user] = Joined(member[c.user], c)]
      BY <2>2 DEF JoinWrite, DepartmentType
    <3>2. ASSUME NEW u \in Users, NEW d \in Depts, member'[u][d] # "none"
          PROVE  Kept(d)
      <4>1. CASE u = c.user /\ d # c.dept
        <5>1. member'[u] = Joined(member[u], c)
          BY <3>1, <4>1 DEF DepartmentType
        <5>2. member'[u][d] = IF c.clear /\ member[u][d] = "primary" THEN "member" ELSE member[u][d]
          BY <4>1, <5>1 DEF Joined
        <5>3. IsMember(u, d)
          BY <3>2, <5>2 DEF IsMember
        <5> QED  BY <5>3 DEF TreeInv, HomesKept
      <4>2. CASE u # c.user
        BY <3>1, <3>2, <4>2 DEF DepartmentType, TreeInv, HomesKept, IsMember
      <4>3. CASE d = c.dept
        BY <3>1, <4>3 DEF Rows
      <4> QED  BY <4>1, <4>2, <4>3
    <3> QED  BY <1>1, <3>2 DEF HomesKept, IsMember, Kept
  <2>3. CASE LeaveWrite(a)
    BY <1>1, <2>3 DEF LeaveWrite, TreeInv, HomesKept, IsMember, Kept, DepartmentType
  <2> QED  BY <2>1, <2>2, <2>3
<1> QED  BY <1>1, <1>2, <1>3, EndPending DEF TreeInv

\* A call that begins has just read what it holds.
LEMMA BeginFits ==
  ASSUME OneAdministrator, DepartmentType, TreeInv, NEW a \in Admins, NEW call, Begin(a, call),
         Pending(call)
  PROVE  TreeInv'
<1>1. UNCHANGED <<state, parent, path, leader, member>> /\ \A b \in Admins : admin'[b] = call
  BY DEF Begin, tree, OneAdministrator, DepartmentType
<1>2. PathsFit' /\ HomesKept'
  BY <1>1 DEF TreeInv, PathsFit, PathOf, Rows, Kept, HomesKept, IsMember
<1>3. Pending(call)'
  BY <1>1 DEF Pending, Rows, Kept, Base, InOwnSubtree
<1>4. \A b \in Admins : Pending(admin[b])'
  BY <1>1, <1>3 DEF Pending, Rows, Kept, Base, InOwnSubtree
<1> QED  BY <1>2, <1>4 DEF TreeInv

LEMMA CheckFits ==
  ASSUME OneAdministrator, DepartmentType, TreeInv, NEW a \in Admins,
         \/ CreateCheck(a) \/ MoveCheck(a) \/ RemoveCheck(a) \/ LeadCheck(a) \/ JoinCheck(a)
         \/ LeaveCheck(a)
  PROVE  TreeInv'
<1>1. CASE CreateCheck(a)
  <2>1. PICK p \in Rows \cup {NoDept}, u \in users \cup {NoUser} :
          Begin(a, [Free EXCEPT !.op = "create", !.up = p, !.user = u, !.new = Base(p)])
    BY <1>1 DEF CreateCheck, Base
  <2>2. Pending([Free EXCEPT !.op = "create", !.up = p, !.user = u, !.new = Base(p)])
    BY DEF Pending, Free
  <2> QED  BY <2>1, <2>2, BeginFits
<1>2. CASE MoveCheck(a)
  <2>1. PICK d \in Rows, p \in Rows \cup {NoDept} :
          /\ p # d /\ (p # NoDept => ~InOwnSubtree(d, p))
          /\ Begin(a, [Free EXCEPT !.op = "move", !.dept = d, !.up = p, !.old = path[d],
                                   !.new = Base(p) \o <<d>>])
    BY <1>2 DEF MoveCheck, Base
  <2>2. Pending([Free EXCEPT !.op = "move", !.dept = d, !.up = p, !.old = path[d],
                             !.new = Base(p) \o <<d>>])
    BY <2>1 DEF Pending, Free
  <2> QED  BY <2>1, <2>2, BeginFits
<1>3. CASE RemoveCheck(a)
  <2>1. PICK d \in Rows : Begin(a, [Free EXCEPT !.op = "remove", !.dept = d])
    BY <1>3 DEF RemoveCheck
  <2>2. Pending([Free EXCEPT !.op = "remove", !.dept = d])
    BY DEF Pending, Free
  <2> QED  BY <2>1, <2>2, BeginFits
<1>4. CASE LeadCheck(a)
  <2>1. PICK d \in Rows, u \in users \cup {NoUser} :
          Begin(a, [Free EXCEPT !.op = "lead", !.dept = d, !.user = u])
    BY <1>4 DEF LeadCheck
  <2>2. Pending([Free EXCEPT !.op = "lead", !.dept = d, !.user = u])
    BY DEF Pending, Free
  <2> QED  BY <2>1, <2>2, BeginFits
<1>5. CASE JoinCheck(a)
  <2>1. PICK d \in Rows, u \in users, primary \in BOOLEAN :
          Begin(a, [Free EXCEPT !.op = "join", !.dept = d, !.user = u, !.primary = primary,
                                !.clear = primary /\ Homes(u) # {}])
    BY <1>5 DEF JoinCheck
  <2>2. Pending([Free EXCEPT !.op = "join", !.dept = d, !.user = u, !.primary = primary,
                             !.clear = primary /\ Homes(u) # {}])
    BY DEF Pending, Free
  <2> QED  BY <2>1, <2>2, BeginFits
<1>6. CASE LeaveCheck(a)
  <2>1. PICK d \in Rows, u \in users :
          Begin(a, [Free EXCEPT !.op = "leave", !.dept = d, !.user = u, !.clear = leader[d] = u])
    BY <1>6 DEF LeaveCheck
  <2>2. Pending([Free EXCEPT !.op = "leave", !.dept = d, !.user = u, !.clear = leader[d] = u])
    BY DEF Pending, Free, DepartmentType
  <2> QED  BY <2>1, <2>2, BeginFits
<1> QED  BY <1>1, <1>2, <1>3, <1>4, <1>5, <1>6

\* Owners and deletions of accounts: a leader who is deleted leads nothing.
LEMMA OthersFit ==
  ASSUME DepartmentParameters, DepartmentType, TreeInv,
         \/ \E o \in Owners : Share(o)
         \/ \E u \in Users : RemoveUser(u)
         \/ UNCHANGED departmentVars
  PROVE  TreeInv'
<1>1. CASE \E o \in Owners : Share(o)
  <2>1. UNCHANGED <<state, parent, path, leader, member, admin>>
    <3>1. PICK o \in Owners : Share(o)
      BY <1>1
    <3>2. CASE ShareCheck(o) \/ UnshareCheck(o) \/ ScopeCheck(o)
      BY <3>2 DEF ShareCheck, UnshareCheck, ScopeCheck, Ask, tree
    <3>3. CASE ShareWrite(o) \/ UnshareWrite(o) \/ ScopeWrite(o) \/ OwnerFails(o)
      BY <3>3 DEF ShareWrite, UnshareWrite, ScopeWrite, OwnerFails, Answer, tree
    <3> QED  BY <3>1, <3>2, <3>3 DEF Share
  <2> QED  BY <2>1 DEF TreeInv, PathsFit, PathOf, Rows, Kept, HomesKept, IsMember, Pending, Base, InOwnSubtree
<1>2. CASE \E u \in Users : RemoveUser(u)
  <2>1. PICK u \in Users : RemoveUser(u)
    BY <1>2
  <2>2. /\ UNCHANGED <<state, parent, path, admin>>
        /\ member' = [member EXCEPT ![u] = [d \in Depts |-> "none"]]
        /\ leader' = [d \in Depts |-> IF leader[d] = u THEN NoUser ELSE leader[d]]
    BY <2>1 DEF RemoveUser, tree
  <2>3. PathsFit'
    BY <2>2 DEF TreeInv, PathsFit, PathOf, Rows, Kept
  <2>4. HomesKept'
    BY <2>2 DEF TreeInv, HomesKept, IsMember, Kept, DepartmentType
  <2>5. ASSUME NEW a \in Admins
        PROVE  Pending(admin[a])'
    <3>1. Pending(admin[a]) /\ admin'[a] = admin[a] /\ admin[a] \in AdminCalls
      BY <2>2 DEF TreeInv, DepartmentType
    <3>2. ASSUME admin[a].op = "leave", leader'[admin[a].dept] = admin[a].user
          PROVE  admin[a].clear
      <4>1. admin[a].user # NoUser /\ admin[a].dept \in Depts
        BY <3>1, <3>2 DEF Pending, Rows, DepartmentParameters
      <4>2. leader[admin[a].dept] = admin[a].user
        BY <2>2, <3>2, <4>1
      <4> QED  BY <3>1, <3>2, <4>2 DEF Pending
    <3> QED  BY <2>2, <3>1, <3>2 DEF Pending, Rows, Kept, Base, InOwnSubtree
  <2> QED  BY <2>3, <2>4, <2>5 DEF TreeInv
<1>3. CASE UNCHANGED departmentVars
  BY <1>3 DEF departmentVars, tree, TreeInv, PathsFit, PathOf, Rows, Kept, HomesKept, IsMember, Pending, Base,
     InOwnSubtree
<1> QED  BY <1>1, <1>2, <1>3

LEMMA TreeInitial ==
  ASSUME DepartmentInit
  PROVE  TreeInv
<1>1. Rows = {} /\ \A a \in Admins : admin[a] = Free
  BY DEF DepartmentInit, Rows, Kept
<1>2. HomesKept
  BY DEF DepartmentInit, HomesKept, IsMember
<1> QED  BY <1>1, <1>2 DEF TreeInv, PathsFit, Pending, Free

LEMMA TreeStep ==
  ASSUME DepartmentParameters, OneAdministrator, DepartmentType, TreeInv,
         [DepartmentNext]_departmentVars
  PROVE  TreeInv'
<1>1. ASSUME NEW a \in Admins, Administrate(a)
      PROVE  TreeInv'
  BY <1>1, CheckFits, CreateFits, MoveFits, RemoveFits, StaffFits DEF Administrate
<1> QED  BY <1>1, OthersFit DEF DepartmentNext

\* Through the list and through the page a user reads the same libraries.
LEMMA ListedIsRead ==
  ASSUME NEW u, NEW k
  PROVE  Listed(u, k) <=> CanRead(u, k)
  BY DEF Listed, CanRead, VisibleDepts, DeptVisible

LEMMA TreeOpens ==
  ASSUME DepartmentParameters, DepartmentType, TreeInv
  PROVE  AccessFollowsTree
<1>1. ASSUME NEW u \in users, NEW k \in Kbs
      PROVE  DeptVisible(u, k) <=> kb[k].org \in Rows /\ \E m \in Homes(u) : kb[k].org \in Above(m)
  <2>1. \A m \in Homes(u) : m \in Rows
    BY DEF TreeInv, HomesKept, Homes, Rows, DepartmentType
  <2>2. PathsFit
    BY DEF TreeInv
  <2>3. kb[k].org \in Rows => \A m \in Homes(u) :
          kb[k].org \in Above(m) <=> InSubtree(path[m], path[kb[k].org])
    BY <2>1, <2>2, AboveIsPrefix DEF InSubtree
  <2> QED  BY <2>3 DEF DeptVisible
<1> QED  BY <1>1, ListedIsRead DEF AccessFollowsTree

\* Whoever loses a membership leads that department no more.
LEMMA LeaderGoes ==
  ASSUME DepartmentParameters, DepartmentType, TreeInv, [DepartmentNext]_departmentVars,
         NEW u \in Users, NEW d \in Depts, IsMember(u, d), ~IsMember(u, d)'
  PROVE  leader'[d] # u
<1>0. u # NoUser
  BY DEF DepartmentParameters
<1>1. CASE \E a \in Admins : LeaveWrite(a)
  <2>1. PICK a \in Admins : LeaveWrite(a)
    BY <1>1
  <2> DEFINE c == admin[a]
  <2>2. /\ c.op = "leave" /\ member' = [member EXCEPT ![c.user][c.dept] = "none"]
        /\ leader' = IF c.clear THEN [leader EXCEPT ![c.dept] = NoUser] ELSE leader
    BY <2>1 DEF LeaveWrite
  <2>3. leader[c.dept] = c.user => c.clear
    BY <2>2 DEF TreeInv, Pending
  <2>4. u = c.user /\ d = c.dept
    BY <2>2 DEF IsMember, DepartmentType
  <2> QED  BY <1>0, <2>2, <2>3, <2>4 DEF DepartmentType
<1>2. CASE \E a \in Admins : RemoveWrite(a)
  <2>1. PICK a \in Admins : RemoveWrite(a)
    BY <1>2
  <2> DEFINE e == admin[a].dept
  <2>2. /\ member' = [v \in Users |-> [member[v] EXCEPT ![e] = "none"]]
        /\ leader' = [leader EXCEPT ![e] = NoUser]
    BY <2>1 DEF RemoveWrite
  <2>3. d = e
    BY <2>2 DEF IsMember, DepartmentType
  <2> QED  BY <1>0, <2>2, <2>3 DEF DepartmentType
<1>3. CASE \E v \in Users : RemoveUser(v)
  <2>1. PICK v \in Users : RemoveUser(v)
    BY <1>3
  <2>2. /\ member' = [member EXCEPT ![v] = [e \in Depts |-> "none"]]
        /\ leader' = [e \in Depts |-> IF leader[e] = v THEN NoUser ELSE leader[e]]
    BY <2>1 DEF RemoveUser
  <2>3. u = v
    BY <2>2 DEF IsMember, DepartmentType
  <2> QED  BY <1>0, <2>2, <2>3
<1>4. CASE \E a \in Admins : JoinWrite(a)
  <2>1. PICK a \in Admins : JoinWrite(a)
    BY <1>4
  <2> DEFINE c == admin[a]
  <2>2. c.user \in Users /\ member' = [member EXCEPT ![c.user] = Joined(member[c.user], c)]
    BY <2>1 DEF JoinWrite, DepartmentType
  <2>3. member'[c.user] = Joined(member[c.user], c)
    BY <2>2 DEF DepartmentType
  <2>4. u = c.user
    BY <2>2 DEF IsMember, DepartmentType
  <2>5. member'[u][d] # "none"
    BY <2>3, <2>4 DEF Joined, IsMember
  <2> QED  BY <2>5 DEF IsMember
<1>5. CASE UNCHANGED member
  BY <1>5 DEF IsMember
<1>6. \/ UNCHANGED member
      \/ \E a \in Admins : LeaveWrite(a) \/ RemoveWrite(a) \/ JoinWrite(a)
      \/ \E v \in Users : RemoveUser(v)
  <2>1. ASSUME NEW a \in Admins, Administrate(a)
        PROVE  UNCHANGED member \/ LeaveWrite(a) \/ RemoveWrite(a) \/ JoinWrite(a)
    <3>1. CASE CreateCheck(a) \/ MoveCheck(a) \/ RemoveCheck(a) \/ LeadCheck(a)
      BY <3>1 DEF CreateCheck, MoveCheck, RemoveCheck, LeadCheck, Begin
    <3>2. CASE JoinCheck(a) \/ LeaveCheck(a)
      BY <3>2 DEF JoinCheck, LeaveCheck, Begin
    <3>3. CASE CreateWrite(a) \/ MoveWrite(a) \/ LeadWrite(a) \/ AdminFails(a)
      BY <3>3 DEF CreateWrite, MoveWrite, LeadWrite, AdminFails
    <3> QED  BY <2>1, <3>1, <3>2, <3>3 DEF Administrate
  <2>2. ASSUME NEW o \in Owners, Share(o)
        PROVE  UNCHANGED member
    <3>1. CASE ShareCheck(o) \/ UnshareCheck(o) \/ ScopeCheck(o)
      BY <3>1 DEF ShareCheck, UnshareCheck, ScopeCheck, Ask
    <3>2. CASE ShareWrite(o) \/ UnshareWrite(o) \/ ScopeWrite(o) \/ OwnerFails(o)
      BY <3>2 DEF ShareWrite, UnshareWrite, ScopeWrite, OwnerFails, Answer
    <3> QED  BY <2>2, <3>1, <3>2 DEF Share
  <2> QED  BY <2>1, <2>2 DEF DepartmentNext, departmentVars
<1> QED  BY <1>1, <1>2, <1>3, <1>4, <1>5, <1>6

\* As long as one administrator works at a time, and for any tree of
\* departments, any number of owners and any number of calls: the paths are
\* those of the parent links, a library is open exactly to whom the tree says,
\* and its members are counted (department.service.ts, kb-access.service.ts,
\* kb-member.service.ts).
THEOREM DepartmentsAlwaysHold ==
  ASSUME IsFiniteSet(Users), OneAdministrator
  PROVE  DepartmentSpec => []DepartmentsHold
<1>1. DepartmentInit => DepartmentType /\ Counted /\ TreeInv
  BY DepartmentInitial, TreeInitial, DepartmentParameters
<1>2. DepartmentType /\ Counted /\ TreeInv /\ [DepartmentNext]_departmentVars
        => (DepartmentType /\ Counted /\ TreeInv)'
  BY DepartmentStep, TreeStep, DepartmentParameters
<1>3. DepartmentType /\ Counted /\ TreeInv => DepartmentsHold
  BY TreeOpens, DepartmentParameters DEF TreeInv, Counted, CountExact, DepartmentsHold
<1> QED  BY <1>1, <1>2, <1>3, PTL DEF DepartmentSpec

\* Under the same condition nobody leads a department that he has left, through
\* whatever call or cascade he lost it (department.service.ts, user.service.ts).
THEOREM LeadersLeave ==
  ASSUME IsFiniteSet(Users), OneAdministrator
  PROVE  DepartmentSpec => LeaderLeaves
<1>1. DepartmentInit => DepartmentType /\ Counted /\ TreeInv
  BY DepartmentInitial, TreeInitial, DepartmentParameters
<1>2. DepartmentType /\ Counted /\ TreeInv /\ [DepartmentNext]_departmentVars
        => (DepartmentType /\ Counted /\ TreeInv)'
  BY DepartmentStep, TreeStep, DepartmentParameters
<1>3. DepartmentType /\ TreeInv /\ [DepartmentNext]_departmentVars
        => [\A u \in Users, d \in Depts : IsMember(u, d) /\ ~IsMember(u, d)' => leader'[d] # u]_departmentVars
  BY LeaderGoes, DepartmentParameters
<1> QED  BY <1>1, <1>2, <1>3, PTL DEF DepartmentSpec, LeaderLeaves

-----------------------------------------------------------------------------
(* The ranks                                                                *)

\* The station head's account is what it was, nobody else has that role, and a
\* call under way is about somebody else and gives a role below its caller's.
RanksInv ==
  /\ AccountsType
  /\ row[Station] = [role |-> "owner", status |-> "active"]
  /\ \A d \in Desk : desk[d].op # "none" =>
       /\ desk[d].who # Station
       /\ desk[d].op = "create" => desk[d].role # Same /\ desk[d].status # Same
       /\ desk[d].role # Same => Rank[desk[d].as] > Rank[desk[d].role]

LEMMA RankNumbers == \A r \in Role : Rank[r] \in 1 .. 4
  BY DEF Role, Rank

LEMMA GrantsBelow ==
  ASSUME NEW actor \in Role, NEW target \in Role
  PROVE  /\ CanGrant(actor, target) => Rank[actor] > Rank[target]
         /\ CanManage(actor, target) => Rank[actor] > Rank[target] /\ target # "owner"
<1>1. Rank["owner"] = 4 /\ Rank["super_admin"] = 3 /\ Rank["admin"] = 2 /\ Rank["viewer"] = 1
  BY DEF Rank
<1>2. \A r \in Role : r \in {"owner", "super_admin", "admin", "viewer"}
  BY DEF Role
<1>3. CanGrant(actor, target) => Rank[actor] > Rank[target]
  <2>1. CASE actor = "owner"
    BY <1>1, <1>2, <2>1 DEF CanGrant
  <2>2. CASE actor = "super_admin"
    BY <1>1, <1>2, <2>2 DEF CanGrant
  <2>3. CASE actor = "admin"
    BY <1>1, <1>2, <2>3 DEF CanGrant
  <2>4. CASE actor = "viewer"
    BY <1>1, <1>2, <2>4 DEF CanGrant
  <2> QED  BY <1>2, <2>1, <2>2, <2>3, <2>4
<1> QED  BY <1>3 DEF CanManage

LEMMA AccountRows ==
  ASSUME AccountsType, NEW p \in Person
  PROVE  Exists(p) <=> row[p] \in [role : Role, status : Status]
  BY DEF AccountsType, Exists, NoAccount, Role

LEMMA RanksInitial ==
  ASSUME AccountsAssumption, AccountsInit
  PROVE  RanksInv
<1>1. Waiting \in [op : {"none", "create", "update", "remove"}, as : Role, who : Person,
                   role : Role \union {Same}, status : Status \union {Same}]
  BY AccountsAssumption DEF Waiting, Role
<1>2. row \in [Person -> [role : Role, status : Status] \union {NoAccount}]
  BY DEF AccountsInit, Role, Status
<1>3. edits \in 0 .. MaxEdits
  BY AccountsAssumption DEF AccountsInit
<1> QED
  BY <1>1, <1>2, <1>3, AccountsAssumption DEF AccountsInit, AccountsType, RanksInv, Waiting

\* A call that begins: its caller and its account were read just now.
LEMMA RanksBegin ==
  ASSUME AccountsAssumption, RanksInv, NEW d \in Desk,
         NEW call \in [op : {"create", "update", "remove"}, as : Role, who : Person,
                       role : Role \union {Same}, status : Status \union {Same}],
         BeginCall(d, call), call.who # Station,
         call.op = "create" => call.role # Same /\ call.status # Same,
         call.role # Same => Rank[call.as] > Rank[call.role]
  PROVE  RanksInv'
<1>1. row' = row /\ desk' = [desk EXCEPT ![d] = call] /\ edits' = edits + 1 /\ edits < MaxEdits
  BY DEF BeginCall
<1>2. desk' \in [Desk -> [op : {"none", "create", "update", "remove"}, as : Role, who : Person,
                         role : Role \union {Same}, status : Status \union {Same}]]
  BY <1>1 DEF RanksInv, AccountsType
<1>3. edits' \in 0 .. MaxEdits
  BY <1>1, AccountsAssumption DEF RanksInv, AccountsType
<1>4. \A e \in Desk : desk'[e] = IF e = d THEN call ELSE desk[e]
  BY <1>1 DEF RanksInv, AccountsType
<1> QED  BY <1>1, <1>2, <1>3, <1>4 DEF RanksInv, AccountsType

\* A call that ends, with what it writes about somebody other than the station head.
LEMMA RanksEnd ==
  ASSUME AccountsAssumption, RanksInv, NEW d \in Desk, EndCall(d), NEW p \in Person, p # Station,
         NEW account \in [role : Role, status : Status] \union {NoAccount},
         row' = row \/ row' = [row EXCEPT ![p] = account]
  PROVE  RanksInv'
<1>1. Waiting \in [op : {"none", "create", "update", "remove"}, as : Role, who : Person,
                   role : Role \union {Same}, status : Status \union {Same}]
  BY AccountsAssumption DEF Waiting, Role
<1>2. desk' = [desk EXCEPT ![d] = Waiting] /\ edits' = edits
  BY DEF EndCall
<1>3. AccountsType'
  BY <1>1, <1>2 DEF RanksInv, AccountsType
<1>4. row'[Station] = row[Station]
  BY AccountsAssumption DEF RanksInv, AccountsType
<1>5. \A e \in Desk : desk'[e] = IF e = d THEN Waiting ELSE desk[e]
  BY <1>2 DEF RanksInv, AccountsType
<1> QED  BY <1>3, <1>4, <1>5 DEF RanksInv, Waiting

LEMMA ManagerRole ==
  ASSUME NEW p \in Person, Manager(p)
  PROVE  row[p].role \in Role
  BY DEF Manager, Exists

\* A step keeps the invariant, and a role that changes was given from above.
RoleGiven ==
  /\ row'[Station] = row[Station]
  /\ \A p \in Person :
       row'[p].role \notin {row[p].role, "none"} =>
         \/ \E d \in Desk : /\ desk[d].who = p /\ desk'[d].op = "none"
                            /\ Rank[desk[d].as] > Rank[row'[p].role]
         \/ ~Exists(p) /\ row'[p].role = "viewer"

LEMMA RanksStep ==
  ASSUME AccountsAssumption, RanksInv, [AccountsNext]_accountVars
  PROVE  RanksInv' /\ [RoleGiven]_row
<1> DEFINE Account == [role : Role, status : Status]
<1>0. row \in [Person -> Account \union {NoAccount}] /\ row[Station].role = "owner" /\ Station \in Person
  BY AccountsAssumption DEF RanksInv, AccountsType
<1>1. ASSUME NEW p \in Person, Register(p)
      PROVE  RanksInv' /\ RoleGiven
  <2>1. row' = [row EXCEPT ![p] = [role |-> "viewer", status |-> "active"]] /\ UNCHANGED <<desk, edits>>
        /\ ~Exists(p)
    BY <1>1 DEF Register
  <2>2. [role |-> "viewer", status |-> "active"] \in Account
    BY DEF Role, Status
  <2>3. p # Station
    BY <1>0, <2>1 DEF Exists, Role
  <2>4. RanksInv'
    BY <2>1, <2>2, <2>3 DEF RanksInv, AccountsType
  <2> QED  BY <1>0, <2>1, <2>3, <2>4 DEF RoleGiven
<1>2. ASSUME NEW d \in Desk, NEW by \in Person, NEW p \in Person, NEW role \in Role, NEW status \in Status,
             CreateUserCheck(d, by, p, role, status)
      PROVE  RanksInv' /\ row' = row
  <2> DEFINE call == [op |-> "create", as |-> row[by].role, who |-> p, role |-> role, status |-> status]
  <2>1. BeginCall(d, call) /\ row[by].role \in Role /\ CanGrant(row[by].role, role) /\ ~Exists(p)
    BY <1>2, ManagerRole DEF CreateUserCheck
  <2>2. Rank[row[by].role] > Rank[role] /\ p # Station
    BY <1>0, <2>1, GrantsBelow DEF Exists, Role
  <2>3. role # Same /\ status # Same
    BY DEF Role, Status, Same
  <2>4. call \in [op : {"create", "update", "remove"}, as : Role, who : Person,
                  role : Role \union {Same}, status : Status \union {Same}]
    BY <2>1
  <2>5. call.op = "create" /\ call.as = row[by].role /\ call.who = p /\ call.role = role /\ call.status = status
    OBVIOUS
  <2>6. row' = row
    BY <2>1 DEF BeginCall
  <2> HIDE DEF call
  <2> QED  BY <2>1, <2>2, <2>3, <2>4, <2>5, <2>6, RanksBegin
<1>3. ASSUME NEW d \in Desk, NEW by \in Person, NEW p \in Person, NEW role \in Role \union {Same},
             NEW status \in Status \union {Same}, UpdateUserCheck(d, by, p, role, status)
      PROVE  RanksInv' /\ row' = row
  <2> DEFINE call == [op |-> "update", as |-> row[by].role, who |-> p, role |-> role, status |-> status]
  <2>1. /\ BeginCall(d, call) /\ row[by].role \in Role /\ row[p].role \in Role
        /\ CanManage(row[by].role, row[p].role)
        /\ role \notin {Same, row[p].role} => CanGrant(row[by].role, role)
    BY <1>3, ManagerRole DEF UpdateUserCheck, Exists
  <2>2. p # Station /\ Rank[row[by].role] > Rank[row[p].role]
    BY <1>0, <2>1, GrantsBelow
  <2>3. role # Same => Rank[row[by].role] > Rank[role]
    BY <2>1, <2>2, GrantsBelow
  <2>4. call \in [op : {"create", "update", "remove"}, as : Role, who : Person,
                  role : Role \union {Same}, status : Status \union {Same}]
    BY <2>1
  <2>5. call.op = "update" /\ call.as = row[by].role /\ call.who = p /\ call.role = role /\ call.status = status
    OBVIOUS
  <2>6. row' = row
    BY <2>1 DEF BeginCall
  <2> HIDE DEF call
  <2> QED  BY <2>1, <2>2, <2>3, <2>4, <2>5, <2>6, RanksBegin
<1>4. ASSUME NEW d \in Desk, NEW by \in Person, NEW p \in Person, RemoveUserCheck(d, by, p)
      PROVE  RanksInv' /\ row' = row
  <2> DEFINE call == [Waiting EXCEPT !.op = "remove", !.as = row[by].role, !.who = p]
  <2>1. BeginCall(d, call) /\ row[by].role \in Role /\ row[p].role \in Role
        /\ CanManage(row[by].role, row[p].role)
    BY <1>4, ManagerRole DEF RemoveUserCheck, Exists
  <2>2. p # Station
    BY <1>0, <2>1, GrantsBelow
  <2>3. /\ call \in [op : {"create", "update", "remove"}, as : Role, who : Person,
                     role : Role \union {Same}, status : Status \union {Same}]
        /\ call.op = "remove" /\ call.who = p /\ call.role = Same
    BY <2>1 DEF Waiting
  <2>4. row' = row
    BY <2>1 DEF BeginCall
  <2> HIDE DEF call
  <2> QED  BY <2>1, <2>2, <2>3, <2>4, RanksBegin
<1>5. ASSUME NEW d \in Desk, CreateUserWrite(d)
      PROVE  RanksInv' /\ RoleGiven
  <2> DEFINE c == desk[d]
             account == [role |-> c.role, status |-> c.status]
  <2>1. /\ c.op = "create" /\ EndCall(d)
        /\ row' = row \/ row' = [row EXCEPT ![c.who] = account]
    BY <1>5 DEF CreateUserWrite
  <2>2. /\ c.who \in Person /\ c.who # Station /\ account \in Account
        /\ Rank[c.as] > Rank[c.role]
    BY <2>1 DEF RanksInv, AccountsType
  <2>3. RanksInv'
    BY <2>1, <2>2, RanksEnd
  <2>4. desk'[d].op = "none"
    BY <2>1 DEF EndCall, Waiting, RanksInv, AccountsType
  <2> QED  BY <1>0, <2>1, <2>2, <2>3, <2>4 DEF RoleGiven
<1>6. ASSUME NEW d \in Desk, UpdateUserWrite(d)
      PROVE  RanksInv' /\ RoleGiven
  <2> DEFINE c == desk[d]
             account == [role |-> IF c.role = Same THEN row[c.who].role ELSE c.role,
                         status |-> IF c.status = Same THEN row[c.who].status ELSE c.status]
  <2>1. /\ c.op = "update" /\ EndCall(d) /\ c.who \in Person /\ c.who # Station
        /\ c.role \in Role \union {Same} /\ c.status \in Status \union {Same}
        /\ c.role # Same => Rank[c.as] > Rank[c.role]
    BY <1>6 DEF UpdateUserWrite, RanksInv, AccountsType
  <2>2. desk'[d].op = "none"
    BY <2>1 DEF EndCall, Waiting, RanksInv, AccountsType
  <2>3. CASE ~Exists(c.who)
    <3>1. row' = row
      BY <1>6, <2>3 DEF UpdateUserWrite
    <3> QED  BY <2>1, <3>1, RanksEnd DEF RoleGiven
  <2>4. CASE Exists(c.who)
    <3>1. row' = [row EXCEPT ![c.who] = account]
      BY <1>6, <2>4 DEF UpdateUserWrite
    <3>2. row[c.who] \in Account
      BY <2>1, <2>4, AccountRows DEF RanksInv
    <3>3. account \in Account
      BY <2>1, <3>2
    <3>4. RanksInv'
      BY <2>1, <3>1, <3>3, RanksEnd
    <3> QED  BY <1>0, <2>1, <2>2, <3>1, <3>4 DEF RoleGiven
  <2> QED  BY <2>3, <2>4
<1>7. ASSUME NEW d \in Desk, RemoveUserWrite(d)
      PROVE  RanksInv' /\ RoleGiven
  <2> DEFINE c == desk[d]
  <2>1. /\ c.op = "remove" /\ EndCall(d) /\ c.who \in Person /\ c.who # Station
        /\ row' = [row EXCEPT ![c.who] = NoAccount]
    BY <1>7 DEF RemoveUserWrite, RanksInv, AccountsType
  <2>2. RanksInv'
    BY <2>1, RanksEnd
  <2> QED  BY <1>0, <2>1, <2>2 DEF RoleGiven, NoAccount
<1>8. CASE UNCHANGED accountVars
  BY <1>8 DEF accountVars, RanksInv, AccountsType
<1> QED  BY <1>1, <1>2, <1>3, <1>4, <1>5, <1>6, <1>7, <1>8 DEF AccountsNext

\* For any number of accounts, of managers and of calls under way: the station
\* head's account stays as it is, and a role comes from above it
\* (user.service.ts, rbac.ts).
THEOREM RanksAlwaysHold == AccountsSpec => RanksHold
<1>1. AccountsInit => RanksInv
  BY RanksInitial, AccountsAssumption
<1>2. RanksInv /\ [AccountsNext]_accountVars => RanksInv' /\ [RoleGiven]_row
  BY RanksStep, AccountsAssumption
<1> QED  BY <1>1, <1>2, PTL DEF AccountsSpec, RanksHold, RoleGiven

-----------------------------------------------------------------------------
(* What one user reaches                                                    *)

Asked == [pc : {"none", "count", "filter", "all", "retrieve"}, named : SUBSET Shelf,
          scope : SUBSET Shelf, today : BOOLEAN, chosen : SUBSET Shelf,
          seen : SUBSET Shelf, held : SUBSET Shelf]

\* What a question has noted of the libraries since it was asked.
Noted(c) ==
  /\ c.pc # "none" => Readable \subseteq c.seen /\ c.held \subseteq Readable
  /\ c.pc = "all" => c.scope = NoScope /\ c.named \intersect c.held = {}
  /\ c.pc = "retrieve" =>
       /\ IF c.scope # NoScope THEN c.chosen # {} /\ c.chosen \subseteq c.scope
          ELSE c.chosen \subseteq c.seen
       /\ c.named \intersect c.held # {} => c.chosen \subseteq c.named

AccessInv == AccessType /\ \A q \in Question : Noted(ask[q])

\* No ALL of the data scope is read where a question is cut down: the role does
\* not matter there.
LEMMA ReadableNamed ==
  ASSUME NEW named \in SUBSET Shelf
  PROVE  FilterVisibleKbs(named) = named \intersect Readable
  BY DEF FilterVisibleKbs, Readable, Present

\* One question goes on, and the libraries rest.
LEMMA QuestionStep ==
  ASSUME AccessInv, NEW q \in Question, NEW c \in Asked, Asking(q, c), Noted(c),
         UNCHANGED <<me, library, regrants>>,
         apiKey' \in [on : BOOLEAN, scope : SUBSET Shelf, used : Nat, today : BOOLEAN]
  PROVE  AccessInv'
<1>1. ask' = [ask EXCEPT ![q] = c] /\ ask \in [Question -> Asked]
  BY DEF Asking, AccessInv, AccessType, Asked
<1>2. AccessType'
  BY <1>1 DEF AccessInv, AccessType, Asked
<1>3. Readable' = Readable
  BY DEF Readable, Present, CanReadKb
<1>4. ASSUME NEW p \in Question
      PROVE  Noted(ask[p])'
  <2>1. ask'[p] = c \/ ask'[p] = ask[p]
    BY <1>1
  <2>2. Noted(ask[p])
    BY DEF AccessInv
  <2> QED  BY <1>3, <2>1, <2>2 DEF Noted
<1> QED  BY <1>2, <1>4 DEF AccessInv

LEMMA SilentAsked == Silent \in Asked /\ Silent.pc = "none"
  BY DEF Silent, Asked, NoScope

LEMMA AccessInitial ==
  ASSUME KbAccessAssumption, AccessInit
  PROVE  AccessInv
<1>1. \A q \in Question : ask[q] = Silent
  BY DEF AccessInit
<1>2. ask \in [Question -> Asked]
  BY SilentAsked DEF AccessInit
<1>3. AccessType
  <2>1. apiKey \in [on : BOOLEAN, scope : SUBSET Shelf, used : Nat, today : BOOLEAN]
    <3>1. apiKey \in [on : {TRUE}, scope : SUBSET Shelf, used : {0}, today : {FALSE}]
      BY DEF AccessInit
    <3>2. apiKey.on \in {TRUE} /\ apiKey.used \in {0} /\ apiKey.today \in {FALSE}
      BY <3>1
    <3>3. apiKey.on \in BOOLEAN /\ apiKey.used \in Nat /\ apiKey.today \in BOOLEAN
      <4>1. {TRUE} \subseteq BOOLEAN /\ {FALSE} \subseteq BOOLEAN
        BY Zenon
      <4>2. {0} \subseteq Nat
        BY SMT
      <4> QED  BY <3>2, <4>1, <4>2, Zenon
    <3>4. apiKey = [on |-> apiKey.on, scope |-> apiKey.scope, used |-> apiKey.used, today |-> apiKey.today]
      BY <3>1
    <3>5. apiKey.scope \in SUBSET Shelf
      BY <3>1
    <3> QED  BY <3>3, <3>4, <3>5
  <2>2. library \in [Shelf -> {s \in Standing : Sound(s)}]
    BY DEF AccessInit
  <2>3. regrants \in 0 .. MaxRegrants
    BY KbAccessAssumption DEF AccessInit
  <2> QED  BY <1>2, <2>1, <2>2, <2>3 DEF AccessInit, AccessType, Asked
<1>4. \A q \in Question : Noted(ask[q])
  BY <1>1, SilentAsked DEF Noted
<1> QED  BY <1>3, <1>4 DEF AccessInv

LEMMA AskingFits ==
  ASSUME AccessInv, NEW q \in Question,
         \E named \in SUBSET Shelf : AskSignedIn(q, named) \/ AskWithKey(q, named)
  PROVE  AccessInv'
<1>0. Readable \subseteq Shelf
  BY DEF Readable, Present
<1>1. PICK named \in SUBSET Shelf : AskSignedIn(q, named) \/ AskWithKey(q, named)
  OBVIOUS
<1>2. CASE AskSignedIn(q, named)
  <2> DEFINE c == [Silent EXCEPT !.pc = "filter", !.named = named, !.seen = Readable, !.held = Readable]
  <2>1. Asking(q, c) /\ UNCHANGED <<me, library, apiKey, regrants>>
    BY <1>2 DEF AskSignedIn
  <2>2. c \in Asked /\ Noted(c)
    BY <1>0 DEF Silent, Asked, NoScope, Noted
  <2>3. apiKey' \in [on : BOOLEAN, scope : SUBSET Shelf, used : Nat, today : BOOLEAN]
    BY <2>1 DEF AccessInv, AccessType
  <2> HIDE DEF c
  <2> QED  BY <2>1, <2>2, <2>3, QuestionStep
<1>3. CASE AskWithKey(q, named)
  <2> DEFINE c == [Silent EXCEPT !.pc = "count", !.named = named, !.scope = apiKey.scope,
                                 !.today = apiKey.today, !.seen = Readable, !.held = Readable]
  <2>1. Asking(q, c) /\ UNCHANGED <<me, library, apiKey, regrants>>
    BY <1>3 DEF AskWithKey
  <2>2. apiKey \in [on : BOOLEAN, scope : SUBSET Shelf, used : Nat, today : BOOLEAN]
    BY DEF AccessInv, AccessType
  <2>3. c \in Asked /\ Noted(c)
    BY <1>0, <2>2 DEF Silent, Asked, NoScope, Noted
  <2> HIDE DEF c
  <2> QED  BY <2>1, <2>2, <2>3, QuestionStep
<1> QED  BY <1>1, <1>2, <1>3

\* What is chosen: the named libraries that are readable now, within the scope.
LEMMA NarrowFits ==
  ASSUME AccessInv, NEW q \in Question, Narrow(q)
  PROVE  AccessInv'
<1> DEFINE c == ask[q]
           visible == FilterVisibleKbs(c.named)
           narrowed == IF visible # {} THEN visible \intersect c.scope ELSE c.scope
<1>1. c \in Asked /\ Noted(c) /\ c.pc = "filter"
  BY DEF AccessInv, AccessType, Asked, Narrow
<1>2. visible = c.named \intersect Readable /\ Readable \subseteq c.seen /\ c.held \subseteq Readable
  BY <1>1, ReadableNamed DEF Noted, Asked
<1>3. apiKey' \in [on : BOOLEAN, scope : SUBSET Shelf, used : Nat, today : BOOLEAN]
      /\ UNCHANGED <<me, library, regrants>>
  BY DEF Narrow, AccessInv, AccessType
<1>4. CASE c.scope # NoScope /\ narrowed = {}
  <2>1. Asking(q, Silent)
    BY <1>4 DEF Narrow, Refused
  <2>2. Noted(Silent)
    BY SilentAsked DEF Noted
  <2> QED  BY <1>3, <2>1, <2>2, SilentAsked, QuestionStep
<1>5. CASE c.scope # NoScope /\ narrowed # {}
  <2> DEFINE n == [c EXCEPT !.pc = "retrieve", !.chosen = narrowed]
  <2>1. Asking(q, n)
    BY <1>5 DEF Narrow
  <2>2. narrowed \in SUBSET Shelf
    BY <1>1, <1>2 DEF Asked
  <2>3. n \in Asked
    BY <1>1, <2>2 DEF Asked
  <2>4. /\ n.pc = "retrieve" /\ n.chosen = narrowed /\ n.scope = c.scope /\ n.named = c.named
        /\ n.held = c.held /\ n.seen = c.seen
    BY <1>1 DEF Asked
  <2> HIDE DEF n
  <2>5. Noted(n)
    BY <1>2, <1>5, <2>4 DEF Noted
  <2> QED  BY <1>3, <2>1, <2>3, <2>5, QuestionStep
<1>6. CASE c.scope = NoScope
  <2> DEFINE n == [c EXCEPT !.pc = IF visible = {} THEN "all" ELSE "retrieve", !.chosen = visible]
  <2>1. Asking(q, n)
    BY <1>6 DEF Narrow
  <2>2. visible \in SUBSET Shelf
    BY <1>1, <1>2 DEF Asked
  <2>3. n \in Asked
    BY <1>1, <2>2 DEF Asked
  <2>4. /\ n.pc = (IF visible = {} THEN "all" ELSE "retrieve") /\ n.chosen = visible
        /\ n.scope = c.scope /\ n.named = c.named /\ n.held = c.held /\ n.seen = c.seen
    BY <1>1 DEF Asked
  <2> HIDE DEF n
  <2>5. Noted(n)
    BY <1>2, <1>6, <2>4 DEF Noted
  <2> QED  BY <1>3, <2>1, <2>3, <2>5, QuestionStep
<1> QED  BY <1>4, <1>5, <1>6

LEMMA GoingOnFits ==
  ASSUME AccessInv, NEW q \in Question, CountCall(q) \/ WidenToReady(q) \/ Retrieve(q)
  PROVE  AccessInv'
<1> DEFINE c == ask[q]
           Key == [on : BOOLEAN, scope : SUBSET Shelf, used : Nat, today : BOOLEAN]
<1>1. c \in Asked /\ Noted(c) /\ apiKey \in Key
  BY DEF AccessInv, AccessType, Asked
<1>2. CASE CountCall(q)
  <2> DEFINE n == [c EXCEPT !.pc = "filter"]
  <2>1. Asking(q, n) /\ c.pc = "count" /\ UNCHANGED <<me, library, regrants>>
        /\ apiKey' = [apiKey EXCEPT !.used = IF c.today THEN @ + 1 ELSE 1, !.today = TRUE]
    BY <1>2 DEF CountCall
  <2>2. n \in Asked /\ n.pc = "filter" /\ n.seen = c.seen /\ n.held = c.held
    BY <1>1 DEF Asked
  <2>3. apiKey' \in Key
    <3>1. (IF c.today THEN apiKey.used + 1 ELSE 1) \in Nat
      BY <1>1
    <3> QED  BY <1>1, <2>1, <3>1
  <2> HIDE DEF n
  <2>4. Noted(n)
    BY <1>1, <2>1, <2>2 DEF Noted
  <2> QED  BY <2>1, <2>2, <2>3, <2>4, QuestionStep
<1>3. CASE WidenToReady(q)
  <2> DEFINE chosen == FilterVisibleKbs({k \in Present : library[k].ready})
             n == [c EXCEPT !.pc = "retrieve", !.chosen = chosen]
  <2>1. Asking(q, n) /\ c.pc = "all" /\ UNCHANGED <<me, library, apiKey, regrants>>
    BY <1>3 DEF WidenToReady
  <2>2. chosen \subseteq Readable /\ Readable \subseteq Shelf
    BY ReadableNamed DEF Present, Readable
  <2>3. n \in Asked
    BY <1>1, <2>2 DEF Asked
  <2>4. /\ n.pc = "retrieve" /\ n.chosen = chosen /\ n.scope = c.scope /\ n.named = c.named
        /\ n.held = c.held /\ n.seen = c.seen
    BY <1>1 DEF Asked
  <2> HIDE DEF n, chosen
  <2>5. Noted(n)
    BY <1>1, <2>1, <2>2, <2>4 DEF Noted
  <2>6. apiKey' \in Key
    BY <1>1, <2>1
  <2> QED  BY <2>1, <2>3, <2>5, <2>6, QuestionStep
<1>4. CASE Retrieve(q)
  <2>1. Asking(q, Silent) /\ UNCHANGED <<me, library, apiKey, regrants>>
    BY <1>4 DEF Retrieve
  <2>2. Noted(Silent) /\ apiKey' \in Key
    BY <1>1, <2>1, SilentAsked DEF Noted
  <2> QED  BY <2>1, <2>2, SilentAsked, QuestionStep
<1> QED  BY <1>2, <1>3, <1>4

\* A library changes: the questions note what is readable now.
LEMMA RegrantFits ==
  ASSUME KbAccessAssumption, AccessInv, NEW k \in Shelf, Regrant(k)
  PROVE  AccessInv'
<1>1. PICK s \in Standing : Sound(s) /\ library' = [library EXCEPT ![k] = s]
  BY DEF Regrant
<1>2. Seen(Readable') /\ regrants' = regrants + 1 /\ regrants < MaxRegrants /\ UNCHANGED <<me, apiKey>>
  BY DEF Regrant, Readable, Present
<1>3. Readable' \subseteq Shelf
  BY DEF Readable, Present
<1>4. ASSUME NEW q \in Question
      PROVE  ask'[q] \in Asked /\ Noted(ask[q])'
  <2>1. ask[q] \in Asked /\ Noted(ask[q])
    BY DEF AccessInv, AccessType, Asked
  <2>2. CASE ask[q].pc = "none"
    BY <1>2, <2>1, <2>2 DEF Seen, Noted
  <2>3. CASE ask[q].pc # "none"
    <3>1. ask'[q] = [ask[q] EXCEPT !.seen = @ \union Readable', !.held = @ \intersect Readable']
      BY <1>2, <2>3 DEF Seen
    <3>2. ask'[q] \in Asked
      BY <1>3, <2>1, <3>1 DEF Asked
    <3>3. /\ ask'[q].seen = ask[q].seen \union Readable' /\ ask'[q].held = ask[q].held \intersect Readable'
          /\ ask'[q].pc = ask[q].pc /\ ask'[q].scope = ask[q].scope /\ ask'[q].named = ask[q].named
          /\ ask'[q].chosen = ask[q].chosen
      BY <2>1, <3>1 DEF Asked
    <3>4. Noted(ask[q])'
      BY <2>1, <3>3 DEF Noted
    <3> QED  BY <3>2, <3>4
  <2> QED  BY <2>2, <2>3
<1>5. ask' \in [Question -> Asked]
  BY <1>2, <1>4 DEF Seen
<1>6. library' \in [Shelf -> {t \in Standing : Sound(t)}]
  BY <1>1 DEF AccessInv, AccessType
<1>7. regrants' \in 0 .. MaxRegrants
  BY <1>2, KbAccessAssumption DEF AccessInv, AccessType
<1> QED  BY <1>2, <1>4, <1>5, <1>6, <1>7 DEF AccessInv, AccessType, Asked

LEMMA AccessStep ==
  ASSUME KbAccessAssumption, AccessInv, [AccessNext]_accessVars
  PROVE  AccessInv'
<1>1. CASE Rerole
  <2>1. me' \in Role /\ regrants' = regrants + 1 /\ regrants < MaxRegrants /\ UNCHANGED <<library, apiKey, ask>>
    BY <1>1 DEF Rerole
  <2>2. regrants' \in 0 .. MaxRegrants
    BY <2>1, KbAccessAssumption DEF AccessInv, AccessType
  <2>3. AccessType'
    BY <2>1, <2>2 DEF AccessInv, AccessType
  <2> QED  BY <2>1, <2>3 DEF AccessInv, Noted, Readable, Present, CanReadKb
<1>2. CASE Midnight
  BY <1>2 DEF Midnight, AccessInv, AccessType, Noted, Readable, Present, CanReadKb
<1>3. CASE UNCHANGED accessVars
  BY <1>3 DEF accessVars, AccessInv, AccessType, Noted, Readable, Present, CanReadKb
<1> QED  BY <1>1, <1>2, <1>3, AskingFits, NarrowFits, GoingOnFits, RegrantFits DEF AccessNext

\* What a standing says is the same on every channel.
LEMMA OneRuleOfChannels ==
  ASSUME AccessType
  PROVE  ChannelsAgree
<1>1. ASSUME NEW k \in Shelf
      PROVE  /\ ListFilter(k) <=> CanReadKb(k, HasAllScope(me))
             /\ CanWriteKb(k, HasAllScope(me)) <=>
                  ListFilter(k) /\ MyRole(k) \in {"admin", "owner", "editor"}
             /\ HasAllScope(me) \/ library[k].mine <=> ListFilter(k) /\ MyRole(k) \in {"admin", "owner"}
  <2>1. library[k].member \in {"none", "viewer", "editor"} /\ library[k].mine \in BOOLEAN
    BY DEF AccessType, Standing
  <2> QED  BY <2>1 DEF ListFilter, CanReadKb, CanWriteKb, MyRole
<1>2. ListedKbs = Detailed /\ KbAsserted("read") = Detailed /\ ChunksShown = Detailed /\ CasesReadable = Detailed
  BY <1>1 DEF ListedKbs, Detailed, KbAsserted, ChunksShown, CasesReadable, Present
<1>3. KbAsserted("write") = {k \in ListedKbs : MyRole(k) \in {"admin", "owner", "editor"}}
  BY <1>1 DEF KbAsserted, ListedKbs, Present
<1>4. CasesWritable = KbAsserted("write")
  BY <1>1 DEF CasesWritable, CasesReadable, KbAsserted, Present
<1>5. Manageable = {k \in ListedKbs : MyRole(k) \in {"admin", "owner"}}
  BY <1>1 DEF Manageable, ListedKbs, Present
<1>6. ASSUME ~HasAllScope(me)
      PROVE  /\ Found = ListedKbs /\ FilterVisibleKbs(Shelf) = ListedKbs
             /\ FilterVisibleKbs({k \in Present : library[k].ready}) = Options
  <2>1. \A k \in Shelf : ListFilter(k) <=> CanReadKb(k, FALSE)
    BY <1>6 DEF ListFilter, CanReadKb
  <2> QED  BY <2>1 DEF Found, ListedKbs, FilterVisibleKbs, Options, Present
<1> QED  BY <1>2, <1>3, <1>4, <1>5, <1>6 DEF ChannelsAgree

\* For any libraries, questions and changes: one rule of who reads what, and a
\* question keeps to what its user could read and named (kb-access.service.ts,
\* knowledge.service.ts, chat.service.ts).
THEOREM OneRuleAlways == AccessSpec => []OneRule
<1>1. AccessInit => AccessInv
  BY AccessInitial, KbAccessAssumption
<1>2. AccessInv /\ [AccessNext]_accessVars => AccessInv'
  BY AccessStep, KbAccessAssumption
<1>3. AccessInv => OneRule
  BY OneRuleOfChannels DEF AccessInv, Noted, AskWithin, OneRule
<1> QED  BY <1>1, <1>2, <1>3, PTL DEF AccessSpec
-----------------------------------------------------------------------------
(* The pages of the browser                                                 *)

GatesInv ==
  /\ AccessInv /\ GatesType
  /\ page = "analytics" => cached \in Platform

LEMMA RankOfRoles ==
  ASSUME NEW r \in Role
  PROVE  (RankOf(r) >= 3 <=> r \in Platform) /\ (RankOf(r) >= 2 <=> r \in UserManagers)
<1>1. RankOf("owner") = 4 /\ RankOf("super_admin") = 3 /\ RankOf("admin") = 2 /\ RankOf("viewer") = 1
  BY DEF RankOf
<1> QED  BY <1>1 DEF Role, Platform, UserManagers

LEMMA ServedBy ==
  ASSUME NEW api \in Apis, NEW names \in Controllers,
         NEW f \in DOMAIN api, api[f] \in DOMAIN names, Granted(names[api[f]])
  PROVE  Served(f)
  BY DEF Served

\* Who is granted what is demanded is served these functions.
Opens(demand, functions) == Granted(demand) => \A f \in functions : Served(f)

\* What each function demands: user.js,
LEMMA UserDemands ==
  /\ Opens("open", {"login", "register", "getCaptcha", "sendEmailCode", "resetPassword"})
  /\ Opens("any", {"getProfile", "updateProfile", "changePassword", "getEmbeddingSummary", "getUsageStats"})
  /\ Opens("managers", {"getUsers", "createUser", "updateUser", "deleteUser"})
  /\ Opens("platform", {"getSystemSettings", "getEmbeddingState", "getApiKeys", "getCostAnalytics",
                        "getFeedbackAnalytics", "getOperationLogs"})
<1>1. Opens("open", {"login", "register", "getCaptcha", "sendEmailCode", "resetPassword"})
  BY ServedBy DEF Opens, Controllers, AuthCalls, Apis, AuthApi
<1>2. Opens("any", {"getProfile", "updateProfile", "changePassword"})
  BY ServedBy DEF Opens, Controllers, ProfileCalls, Apis, ProfileApi
<1>3. Opens("managers", {"getUsers", "createUser", "updateUser", "deleteUser"})
  BY ServedBy DEF Opens, Controllers, UsersCalls, Apis, UsersApi
<1>4. /\ Opens("any", {"getEmbeddingSummary"})
      /\ Opens("platform", {"getSystemSettings", "getEmbeddingState"})
  BY ServedBy DEF Opens, Controllers, SettingsCalls, Apis, SettingsApi
<1>5. Opens("platform", {"getApiKeys"})
  BY ServedBy DEF Opens, Controllers, ApiKeyCalls, Apis, KeyApi
<1>6. /\ Opens("any", {"getUsageStats"})
      /\ Opens("platform", {"getCostAnalytics", "getFeedbackAnalytics"})
  BY ServedBy DEF Opens, Controllers, StatsCalls, Apis, StatsApi
<1>7. Opens("platform", {"getOperationLogs"})
  BY ServedBy DEF Opens, Controllers, LogCalls, Apis, LogApi
<1> QED  BY <1>1, <1>2, <1>3, <1>4, <1>5, <1>6, <1>7 DEF Opens

\* knowledge.js,
LEMMA KnowledgeDemands ==
  /\ Opens("any", {"getKnowledgeList", "getKnowledgeOptions"})
  /\ Opens("platform", {"createKnowledge"})
  /\ Opens("read", {"getKnowledgeDetail", "getDocuments", "getDocumentChunks", "retrievalTest",
                    "getEvalCases", "fetchDocumentFile", "downloadDocument"})
  /\ Opens("write", {"deleteKnowledge", "rebuildIndex", "uploadDocuments", "deleteDocument",
                     "reparseDocument", "createEvalCase", "updateEvalCase", "deleteEvalCase",
                     "importEvalCases"})
  /\ Opens("manage", {"getKbMembers", "getKbMemberCandidates", "addKbMember", "updateKbMember",
                      "removeKbMember"})
<1>1. /\ Opens("any", {"getKnowledgeList", "getKnowledgeOptions"})
      /\ Opens("platform", {"createKnowledge"})
      /\ Opens("read", {"getKnowledgeDetail"})
      /\ Opens("write", {"deleteKnowledge", "rebuildIndex"})
  BY ServedBy DEF Opens, Controllers, KnowledgeCalls, Apis, KbApi
<1>2. /\ Opens("read", {"getDocuments"})
      /\ Opens("write", {"uploadDocuments", "deleteDocument", "reparseDocument"})
  BY ServedBy DEF Opens, Controllers, DocumentCalls, Apis, DocumentApi
<1>3. Opens("read", {"getDocumentChunks"})
  BY ServedBy DEF Opens, Controllers, FileCalls, Apis, DocumentApi
<1>4. Opens("read", {"retrievalTest"})
  BY ServedBy DEF Opens, Controllers, RetrievalTest, Apis, TestApi
<1>5. /\ Opens("read", {"getEvalCases"})
      /\ Opens("write", {"createEvalCase", "updateEvalCase", "deleteEvalCase", "importEvalCases"})
  BY ServedBy DEF Opens, Controllers, CaseCalls, Apis, CaseApi
<1>6. Opens("read", {"fetchDocumentFile", "downloadDocument"})
  BY ServedBy DEF Opens, Controllers, FileCalls, Apis, FileApi
<1>7. Opens("manage", {"getKbMembers", "getKbMemberCandidates", "addKbMember", "updateKbMember",
                       "removeKbMember"})
  BY ServedBy DEF Opens, Controllers, MemberCalls, Apis, MemberApi
<1> QED  BY <1>1, <1>2, <1>3, <1>4, <1>5, <1>6, <1>7 DEF Opens

\* and chat.js, favorite.js and department.js.
LEMMA ChatDemands ==
  Opens("any", {"getConversations", "getConversation", "createConversation", "updateConversation",
                "uploadAttachments", "deleteConversation", "streamAnswer", "submitFeedback",
                "getSuggestedQuestions", "getFollowupSuggestions", "getQuickPrompts", "getRuntimeModel",
                "searchAll", "addFavorite", "getFavorites", "getFavoriteIds", "removeFavorite",
                "getDeptTree"})
<1>1. Opens("any", {"getConversations", "getConversation", "createConversation", "updateConversation",
                    "deleteConversation"})
  BY ServedBy DEF Opens, Controllers, ConversationCalls, Apis, ConversationApi
<1>2. Opens("any", {"uploadAttachments"})
  BY ServedBy DEF Opens, Controllers, ChatCalls, Apis, ConversationApi
<1>3. Opens("any", {"streamAnswer"})
  BY ServedBy DEF Opens, Controllers, ChatCalls, Apis, StreamApi
<1>4. Opens("any", {"submitFeedback"})
  BY ServedBy DEF Opens, Controllers, ConversationCalls, Apis, PromptApi
<1>5. Opens("any", {"getSuggestedQuestions", "getFollowupSuggestions", "getQuickPrompts", "getRuntimeModel"})
  BY ServedBy DEF Opens, Controllers, ChatCalls, Apis, PromptApi
<1>6. Opens("any", {"searchAll"})
  BY ServedBy DEF Opens, Controllers, SearchCalls, Apis, SearchApi
<1>7. Opens("any", {"addFavorite", "getFavorites", "getFavoriteIds", "removeFavorite"})
  BY ServedBy DEF Opens, Controllers, FavoriteCalls, Apis, FavoriteApi
<1>8. Opens("any", {"getDeptTree"})
  BY ServedBy DEF Opens, Controllers, DepartmentCalls, Apis, DepartmentApi
<1> QED  BY <1>1, <1>2, <1>3, <1>4, <1>5, <1>6, <1>7, <1>8 DEF Opens

\* What a page that knows the standing at the library that is shown may do with
\* it; with the role alone, it may write to what the user can read.
LEMMA StandingKnown ==
  ASSUME AccessType, page # "login", profile = me, shown.kb \in Detailed
  PROVE  /\ Granted("read")
         /\ RankOf(profile) >= 3 => Granted("write")
         /\ shown.myRole = MyRole(shown.kb) /\ PageCanWrite => Granted("write")
         /\ shown.myRole = MyRole(shown.kb) /\ PageCanManage => Granted("manage")
<1>1. ChannelsAgree
  BY OneRuleOfChannels
<1>2. shown.kb \in KbAsserted("read") /\ shown.kb \in ListedKbs
  BY <1>1 DEF ChannelsAgree
<1>3. RankOf(profile) >= 3 => MyRole(shown.kb) = "admin"
  BY RankOfRoles DEF AccessType, MyRole, HasAllScope
<1>4. RankOf(profile) >= 3 => shown.kb \in KbAsserted("write")
  BY <1>1, <1>2, <1>3 DEF ChannelsAgree
<1>5. shown.myRole = MyRole(shown.kb) /\ PageCanWrite => shown.kb \in KbAsserted("write")
  BY <1>1, <1>2, <1>3 DEF PageCanWrite, ChannelsAgree
<1>6. shown.myRole = MyRole(shown.kb) /\ PageCanManage => shown.kb \in Manageable
  BY <1>1, <1>2, <1>3 DEF PageCanManage, ChannelsAgree
<1> QED  BY <1>2, <1>4, <1>5, <1>6 DEF Granted

\* What a page that knows the role of its user may do.
LEMMA RoleKnown ==
  ASSUME AccessType, page # "login", profile = me
  PROVE  /\ Granted("any")
         /\ RankOf(profile) >= 3 => Granted("platform") /\ Granted("managers")
         /\ RankOf(profile) >= 2 => Granted("managers")
<1>1. (RankOf(me) >= 3 <=> me \in Platform) /\ (RankOf(me) >= 2 <=> me \in UserManagers)
  BY RankOfRoles DEF AccessType
<1>2. me \in Platform => me \in UserManagers
  BY DEF Platform, UserManagers
<1> QED  BY <1>1, <1>2 DEF Granted

\* A page behind the login: the layout, and the page with the layout around it.
LEMMA LayoutServed ==
  ASSUME Granted("any")
  PROVE  \A f \in LayoutCalls \union FavoritesPage : Served(f)
  BY UserDemands, KnowledgeDemands, ChatDemands DEF Opens, LayoutCalls, SidebarCalls, FavoritesPage

LEMMA ChatServed ==
  ASSUME Granted("any"), CanUploadDocs => Granted("read") /\ Granted("write")
  PROVE  \A f \in ChatPage : Served(f)
<1>1. \A f \in ChatLoads \union ChatMessages \union ChatBox \union ChatTitle : Served(f)
  BY UserDemands, KnowledgeDemands, ChatDemands DEF Opens, ChatLoads, ChatMessages, ChatBox, ChatTitle
<1>2. \A f \in ChatDrop : Served(f)
  BY KnowledgeDemands DEF Opens, ChatDrop, When
<1> QED  BY <1>1, <1>2 DEF ChatPage

LEMMA ListServed ==
  ASSUME Granted("any"), CanCreate => Granted("platform"),
         CanCreate /\ shown.kb \in Shelf => Granted("read") /\ Granted("write"),
         PageCanWrite => Granted("write")
  PROVE  \A f \in ListPage : Served(f)
<1>1. \A f \in ListToolbar : Served(f)
  BY KnowledgeDemands DEF Opens, ListToolbar, When
<1>2. \A f \in ListImport : Served(f)
  BY KnowledgeDemands DEF Opens, ListImport, When
<1>3. \A f \in ListRows : Served(f)
  BY KnowledgeDemands DEF Opens, ListRows, When
<1> QED  BY <1>1, <1>2, <1>3 DEF ListPage

LEMMA DetailServed ==
  ASSUME Granted("any"), Granted("read"), PageCanWrite => Granted("write"),
         PageCanManage => Granted("manage")
  PROVE  \A f \in DetailPage : Served(f)
<1>1. \A f \in DetailLoads \union DetailSearch : Served(f)
  BY UserDemands, KnowledgeDemands, ChatDemands DEF Opens, DetailLoads, DetailSearch
<1>2. \A f \in DetailHead \union DetailUpload : Served(f)
  BY KnowledgeDemands DEF Opens, DetailHead, DetailUpload, When
<1>3. \A f \in DetailRows : Served(f)
  BY KnowledgeDemands DEF Opens, DetailRows, When
<1>4. \A f \in DetailEvaluation \union CaseDrawer : Served(f)
  BY KnowledgeDemands DEF Opens, DetailEvaluation, CaseDrawer, When
<1>5. \A f \in MemberPanel : Served(f)
  BY KnowledgeDemands DEF Opens, MemberPanel, When
<1> QED  BY <1>1, <1>2, <1>3, <1>4, <1>5 DEF DetailPage

LEMMA AnalyticsServed ==
  ASSUME Granted("any"), Granted("platform"), shown.kb \in Shelf => Granted("write")
  PROVE  \A f \in AnalyticsPage : Served(f)
  BY UserDemands, KnowledgeDemands DEF Opens, AnalyticsPage, AnalyticsReflow, When

\* Of the tabs only the security and the accounts are ever there.
LEMMA SettingsServed ==
  ASSUME Granted("any"), IsPlatform => Granted("platform") /\ Granted("managers"),
         CanManageUsers => Granted("managers")
  PROVE  \A f \in SettingsPage : Served(f)
<1>1. \A f \in SettingsLoads : Served(f)
  BY UserDemands, KnowledgeDemands, ChatDemands DEF Opens, SettingsLoads, When
<1>2. \A f \in SecurityTab \union UsersTab : Served(f)
  BY UserDemands DEF Opens, SecurityTab, AccountForm, UsersTab, UserTable, SettingsTabs, When
<1>3. ModelTab = {} /\ RetrievalTab = {} /\ KeysTab = {} /\ DepartmentsTab = {}
  BY DEF ModelTab, RetrievalTab, KeysTab, DepartmentsTab, SettingsTabs, When
<1> QED  BY <1>1, <1>2, <1>3 DEF SettingsPage

LEMMA GatesServe ==
  ASSUME GatesInv
  PROVE  PagesServed
<1> SUFFICES ASSUME Told, page = "analytics" => cached = me
             PROVE  \A f \in Calls : Served(f)
  BY DEF PagesServed
<1>1. AccessType /\ page \in Page
  BY DEF GatesInv, AccessInv, GatesType
<1>2. CASE page = "login"
  <2>1. \A f \in LoginPage : Served(f)
    BY UserDemands DEF Opens, Granted, LoginPage
  <2> QED  BY <1>2, <2>1 DEF Calls
<1>3. CASE page # "login"
  <2>1. profile = me
    BY <1>3 DEF Told
  <2>2. /\ Granted("any") /\ (RankOf(profile) >= 3 => Granted("platform") /\ Granted("managers"))
        /\ (RankOf(profile) >= 2 => Granted("managers"))
    BY <1>1, <1>3, <2>1, RoleKnown
  <2>3. page = "detail" \/ shown.kb \in Shelf =>
          /\ Granted("read") /\ (RankOf(profile) >= 3 => Granted("write"))
          /\ shown.myRole = MyRole(shown.kb) /\ PageCanWrite => Granted("write")
          /\ shown.myRole = MyRole(shown.kb) /\ PageCanManage => Granted("manage")
    BY <1>1, <1>3, <2>1, StandingKnown DEF Told
  <2>4. \A f \in LayoutCalls \union FavoritesPage : Served(f)
    BY <2>2, LayoutServed
  <2>5. CASE page = "chat"
    <3>1. \A f \in ChatPage : Served(f)
      BY <2>2, <2>3, ChatServed DEF CanUploadDocs
    <3> QED  BY <2>4, <2>5, <3>1 DEF Calls
  <2>6. CASE page = "knowledge"
    <3>1. shown.kb \in Shelf => shown.myRole = MyRole(shown.kb)
      BY <2>6 DEF Told
    <3>2. \A f \in ListPage : Served(f)
      BY <2>2, <2>3, <3>1, ListServed DEF CanCreate, PageCanWrite
    <3> QED  BY <2>4, <2>6, <3>2 DEF Calls
  <2>7. CASE page = "detail"
    <3>1. shown.myRole = MyRole(shown.kb)
      BY <2>7 DEF Told
    <3>2. \A f \in DetailPage : Served(f)
      BY <2>2, <2>3, <2>7, <3>1, DetailServed
    <3> QED  BY <2>4, <2>7, <3>2 DEF Calls
  <2>8. CASE page = "favorites"
    BY <2>4, <2>8 DEF Calls
  <2>9. CASE page = "analytics"
    <3>1. RankOf(profile) >= 3
      BY <1>1, <2>1, <2>9, RankOfRoles DEF GatesInv, AccessType
    <3>2. \A f \in AnalyticsPage : Served(f)
      BY <2>2, <2>3, <3>1, AnalyticsServed
    <3> QED  BY <2>4, <2>9, <3>2 DEF Calls
  <2>10. CASE page = "settings"
    <3>1. \A f \in SettingsPage : Served(f)
      BY <2>2, SettingsServed DEF IsPlatform, CanManageUsers
    <3> QED  BY <2>4, <2>10, <3>1 DEF Calls
  <2> QED  BY <1>1, <1>3, <2>5, <2>6, <2>7, <2>8, <2>9, <2>10 DEF Page
<1> QED  BY <1>2, <1>3

LEMMA MyRoles ==
  ASSUME AccessType, NEW k \in Shelf
  PROVE  MyRole(k) \in {"admin", "owner", "editor", "viewer", "none"}
<1>1. library[k].member \in {"none", "viewer", "editor"} /\ library[k].mine \in BOOLEAN
  BY DEF AccessType, Standing
<1> QED  BY <1>1 DEF MyRole

LEMMA GatesStep ==
  ASSUME KbAccessAssumption, GatesInv, [GatesNext]_gateVars
  PROVE  GatesInv'
<1>1. AccessType /\ me \in Role
  BY DEF GatesInv, AccessInv, AccessType
<1>2. ASSUME UNCHANGED accessVars
      PROVE  AccessInv'
  BY <1>2, AccessStep DEF GatesInv
<1>3. CASE Reload \/ FetchProfile
  <2>1. AccessInv'
    BY <1>2, <1>3 DEF Reload, FetchProfile
  <2> QED  BY <1>1, <1>3, <2>1 DEF Reload, FetchProfile, GatesInv, GatesType
<1>4. CASE SignOut \/ SignIn
  <2>1. AccessInv'
    BY <1>2, <1>4 DEF SignOut, SignIn
  <2> QED  BY <1>1, <1>4, <2>1 DEF SignOut, SignIn, GatesInv, GatesType, Page
<1>5. ASSUME NEW p \in Page, Route(p)
      PROVE  GatesInv'
  <2>1. AccessInv'
    BY <1>2, <1>5 DEF Route
  <2> QED  BY <1>5, <2>1 DEF Route, GatesInv, GatesType, Page
<1>6. ASSUME NEW k \in Shelf, OpenKb(k)
      PROVE  GatesInv'
  <2>1. AccessInv' /\ MyRole(k) \in {"admin", "owner", "editor", "viewer", "none"}
    BY <1>1, <1>2, <1>6, MyRoles DEF OpenKb
  <2> QED  BY <1>6, <2>1 DEF OpenKb, GatesInv, GatesType, Page
<1>7. ASSUME NEW k \in Shelf, Choose(k)
      PROVE  GatesInv'
  <2>1. AccessInv' /\ MyRole(k) \in {"admin", "owner", "editor", "viewer", "none"}
    BY <1>1, <1>2, <1>7, MyRoles DEF Choose
  <2> QED  BY <1>7, <2>1 DEF Choose, GatesInv, GatesType
<1>8. CASE (Rerole \/ \E k \in Shelf : Regrant(k)) /\ UNCHANGED <<profile, cached, page, shown>>
  <2>1. AccessInv'
    BY <1>8, AccessStep DEF AccessNext, GatesInv
  <2> QED  BY <1>8, <2>1 DEF GatesInv, GatesType
<1>9. CASE UNCHANGED gateVars
  <2>1. AccessInv'
    BY <1>2, <1>9 DEF gateVars
  <2> QED  BY <1>9, <2>1 DEF gateVars, GatesInv, GatesType
<1> QED  BY <1>3, <1>4, <1>5, <1>6, <1>7, <1>8, <1>9 DEF GatesNext

\* For any libraries and any changes of them and of the role: a page that knows
\* its user's role and standing calls and offers only what the server takes
\* (rbac.js, kb-access.js, the controllers' guards).
THEOREM PagesAlwaysServed == GatesSpec => []PagesServed
<1>1. GatesInit => GatesInv
  BY AccessInitial, KbAccessAssumption DEF GatesInit, GatesInv, GatesType, AccessInv, AccessType, Page
<1>2. GatesInv /\ [GatesNext]_gateVars => GatesInv'
  BY GatesStep, KbAccessAssumption
<1> QED  BY <1>1, <1>2, GatesServe, PTL DEF GatesSpec
=============================================================================
