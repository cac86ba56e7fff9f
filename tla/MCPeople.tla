------------------------------ MODULE MCPeople ------------------------------
(* Who may do what: the departments, the accounts with their ranks, the     *)
(* reach of one user and what the pages offer him, each on its own, because *)
(* their products would say nothing more.                                   *)
EXTENDS Department, Accounts, PageGates

CONSTANTS k2   \* a library that is public to begin with

VARIABLE part

peopleVars == <<part, departmentVars, accountVars, gateVars>>

Part(p) == part = p
Public == [mine |-> FALSE, visibility |-> "PUBLIC", near |-> FALSE, member |-> "none",
           ready |-> TRUE, gone |-> FALSE]

Init ==
  /\ part \in {"tree", "sharing", "accounts", "reach", "pages"}
  /\ DepartmentInit /\ (part \notin {"tree", "sharing"} => \A k \in Kbs : kb[k].by = NoUser)
  /\ AccountsInit /\ GatesInit
  \* One role of each data scope asks; the second library starts public.
  /\ CASE part = "pages" -> apiKey.scope = {} /\ library[k2] = Public
       [] part = "reach" -> /\ me \in {"super_admin", "viewer"} /\ apiKey.scope = Shelf \ {k2}
                            /\ library[k2] = Public
       [] part \notin {"pages", "reach"} ->
            me = "viewer" /\ apiKey.scope = {} /\ \A k \in Shelf : library[k] = Public

\* Calls of an administrator with one of an owner; and calls of owners that
\* overlap, in a tree that two calls have made.
SomeDepartments ==
  /\ DepartmentNext
  /\ IF Part("tree") THEN asks' <= 1 ELSE calls' <= 2

Next ==
  /\ UNCHANGED part
  /\ \/ part \in {"tree", "sharing"} /\ SomeDepartments /\ UNCHANGED <<accountVars, gateVars>>
     \/ Part("accounts") /\ AccountsNext /\ UNCHANGED <<departmentVars, gateVars>>
     \/ /\ Part("reach") /\ AccessNext
        /\ UNCHANGED <<departmentVars, accountVars, profile, cached, page, shown>>
     \/ Part("pages") /\ GatesNext /\ UNCHANGED <<departmentVars, accountVars>>

Spec == Init /\ [][Next]_peopleVars

Interchangeable == Permutations(Depts) \union Permutations(Owners)
=============================================================================
