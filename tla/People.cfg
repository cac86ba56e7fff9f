\* Departments: one administrator at a time, two sessions of owners; four calls
\* with one of an owner, or two with two.  Accounts: the station head and two more, two calls
\* of managers at a time.  Reach: two libraries, one question, a change of a
\* library or of the role.  No part has a last state of its own: the bounds end it.
SPECIFICATION Spec
CONSTANTS
  Depts = {d1, d2, d3}
  NoDept = NoDept
  Users = {u1}
  NoUser = NoUser
  Kbs = {b1}
  Admins = {a1}
  Owners = {o1, o2}
  MaxCalls = 4
  MaxAsks = 2
  Person = {h, p1, p2}
  Station = h
  Desk = {c1, c2}
  MaxEdits = 3
  k2 = k2
  Shelf = {k1, k2}
  Question = {q1}
  Quota = 1
  MaxRegrants = 1
SYMMETRY Interchangeable
CHECK_DEADLOCK FALSE
INVARIANT DepartmentsHold
INVARIANT OneRule
INVARIANT PagesServed
PROPERTY LeaderLeaves
PROPERTY RanksHold
