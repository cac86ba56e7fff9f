------------------------------ MODULE Accounts ------------------------------
(* The accounts and their four ranks: station head, super administrator,    *)
(* administrator, viewer.  A call of the user management reads what it      *)
(* checks, the role of its caller and the account it is about, in one step  *)
(* and writes in a later one, so that calls of several managers overlap.    *)
EXTENDS Roles

CONSTANTS
  Person,  \* whoever has an account or will have one
  Station, \* the person whose account is the station head's
  Desk,    \* calls of the user management under way at a time
  MaxEdits \* bound: calls begun

ASSUME AccountsAssumption == Station \in Person /\ MaxEdits \in Nat

VARIABLES
  row,     \* row[p]: the users row, or that there is none
  desk,    \* desk[d]: the call under way, with the role its caller had
  edits    \* calls begun

accountVars == <<row, desk, edits>>

Status == {"active", "disabled"}
NoAccount == [role |-> "none", status |-> "none"]
Same == "same"   \* a field the request leaves out
Waiting == [op |-> "none", as |-> "viewer", who |-> Station, role |-> Same, status |-> Same]

AccountsType ==
  /\ row \in [Person -> [role : Role, status : Status] \union {NoAccount}]
  /\ desk \in [Desk -> [op : {"none", "create", "update", "remove"}, as : Role, who : Person,
                        role : Role \union {Same}, status : Status \union {Same}]]
  /\ edits \in 0 .. MaxEdits

AccountsInit ==
  /\ row = [p \in Person |-> IF p = Station THEN [role |-> "owner", status |-> "active"] ELSE NoAccount]
  /\ desk = [d \in Desk |-> Waiting]
  /\ edits = 0

Exists(p) == row[p].role \in Role

-----------------------------------------------------------------------------

\* JwtStrategy and the roles guard: who is signed in and may manage users.
Manager(p) == Exists(p) /\ row[p].status = "active" /\ row[p].role \in UserManagers

Register(p) ==
  /\ ~Exists(p)
  /\ row' = [row EXCEPT ![p] = [role |-> "viewer", status |-> "active"]]
  /\ UNCHANGED <<desk, edits>>

BeginCall(d, call) ==
  /\ desk[d].op = "none" /\ edits < MaxEdits
  /\ desk' = [desk EXCEPT ![d] = call]
  /\ edits' = edits + 1 /\ UNCHANGED row
EndCall(d) == desk' = [desk EXCEPT ![d] = Waiting] /\ UNCHANGED edits

CreateUserCheck(d, by, p, role, status) ==
  /\ Manager(by) /\ CanGrant(row[by].role, role) /\ ~Exists(p)
  /\ BeginCall(d, [op |-> "create", as |-> row[by].role, who |-> p, role |-> role, status |-> status])

\* The name is unique: the second of two is refused.
CreateUserWrite(d) ==
  LET c == desk[d] IN
  /\ c.op = "create"
  /\ row' = IF Exists(c.who) THEN row
                ELSE [row EXCEPT ![c.who] = [role |-> c.role, status |-> c.status]]
  /\ EndCall(d)

\* A role that differs from the one that was read must be granted.
UpdateUserCheck(d, by, p, role, status) ==
  /\ Manager(by) /\ Exists(p) /\ CanManage(row[by].role, row[p].role)
  /\ role \notin {Same, row[p].role} => CanGrant(row[by].role, role)
  /\ BeginCall(d, [op |-> "update", as |-> row[by].role, who |-> p, role |-> role, status |-> status])

\* Nothing is written to an account that is gone.
UpdateUserWrite(d) ==
  LET c == desk[d] IN
  /\ c.op = "update"
  /\ row' = IF ~Exists(c.who) THEN row
                ELSE [row EXCEPT ![c.who] =
                        [role |-> IF c.role = Same THEN @.role ELSE c.role,
                         status |-> IF c.status = Same THEN @.status ELSE c.status]]
  /\ EndCall(d)

RemoveUserCheck(d, by, p) ==
  /\ Manager(by) /\ Exists(p) /\ CanManage(row[by].role, row[p].role)
  /\ BeginCall(d, [Waiting EXCEPT !.op = "remove", !.as = row[by].role, !.who = p])

RemoveUserWrite(d) ==
  LET c == desk[d] IN
  /\ c.op = "remove"
  /\ row' = [row EXCEPT ![c.who] = NoAccount]
  /\ EndCall(d)

AccountsNext ==
  \/ \E p \in Person : Register(p)
  \/ \E d \in Desk :
       \/ \E by, p \in Person :
            \/ \E role \in Role, status \in Status : CreateUserCheck(d, by, p, role, status)
            \/ \E role \in Role \union {Same}, status \in Status \union {Same} :
                 UpdateUserCheck(d, by, p, role, status)
            \/ RemoveUserCheck(d, by, p)
       \/ CreateUserWrite(d) \/ UpdateUserWrite(d) \/ RemoveUserWrite(d)

AccountsSpec == AccountsInit /\ [][AccountsNext]_accountVars

-----------------------------------------------------------------------------

\* "不可越级": however the calls of managers overlap, the account of the station
\* head stays as it is, and a role is given only by a call whose caller stood
\* above that role ("站长唯一，防自锁").
RanksHold ==
  [][/\ row'[Station] = row[Station]
     /\ \A p \in Person :
          row'[p].role \notin {row[p].role, "none"} =>
            \/ \E d \in Desk : /\ desk[d].who = p /\ desk'[d].op = "none"
                               /\ Rank[desk[d].as] > Rank[row'[p].role]
            \/ ~Exists(p) /\ row'[p].role = "viewer"]_row
=============================================================================
