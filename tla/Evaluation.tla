----------------------------- MODULE Evaluation -----------------------------
(* The test questions of the libraries and their evaluation: the service    *)
(* that keeps them, whose calls check in one step and write in a later one; *)
(* the page and its drawer, which show lists fetched at different times;    *)
(* and the run, which asks the search three times for each question.        *)
EXTENDS Integers, FiniteSets, TLC

CONSTANTS
  Shelf,     \* the libraries
  Question,
  Desk,      \* calls under way at a time
  MaxLists,  \* bound: lists under way at a time
  MaxCases,  \* bound: cases ever created
  MaxEdits,  \* bound: calls begun
  MaxJumps   \* bound: changes of the library that is open

ASSUME EvaluationAssumption ==
  "none" \notin Shelf /\ {MaxLists, MaxCases} \subseteq Nat \ {0} /\ {MaxEdits, MaxJumps} \subseteq Nat

VARIABLES
  cases,   \* the rows, by their numbers
  calls,   \* calls[d]: a call of the page, of the drawer or of somebody else
  lists,   \* lists[f]: a list on its way to the page or to the drawer
  tab,     \* the library that is open, whether the drawer is, and what both show
  run,     \* the evaluation under way, or its report
  past     \* calls begun, writes done, jumps, numbers given, what makes the page go wrong

evalVars == <<cases, calls, lists, tab, run, past>>

Id == 1 .. MaxCases
Gone == [kb |-> "none"]
NoCall == [pc |-> "none"]
NoQuestion == "none"
NoFile == <<>>
NoList == [pc |-> "none"]
Slips == {"raced", "other", "overtaken", "failed", "lost", "jumped", "astray"}

EvalType ==
  /\ cases \in [Id -> [kb : Shelf, q : Question, hard : BOOLEAN, on : BOOLEAN] \union {Gone}]
  /\ \A d \in Desk : calls[d].pc \in {"none", "sent", "checked", "written", "refused"}
  /\ \A f \in 1 .. MaxLists : lists[f].pc \in {"none", "sent", "read"}
  /\ tab.kb \in Shelf /\ run.pc \in {"idle", "run", "report"}
  /\ past.used \subseteq Id /\ past.slips \subseteq Slips

Of(kb) == {i \in Id : cases[i].kb = kb}
Asked(kb) == {cases[i].q : i \in Of(kb)}
\* A list is a function from the numbers of a library's cases to their rows.
Listed(kb) == [i \in Of(kb) |-> cases[i]]

Slip(s, really) == past.slips \union IF really THEN {s} ELSE {}

-----------------------------------------------------------------------------
(* EvalCaseService                                                          *)

\* assertQuestionFree, which leaves out the case that is being changed.
QuestionFree(kb, q, id) == \A i \in Of(kb) \ {id} : cases[i].q # q

\* What an import creates: one case for each question that is new, however
\* often the file has it; and its mutant, which sees the questions of the
\* library only.
NewTwice(kb, file) == [q \in DOMAIN file |-> IF q \in Asked(kb) THEN 0 ELSE file[q]]
New(kb, file) == [q \in DOMAIN file |-> IF q \in Asked(kb) \/ file[q] = 0 THEN 0 ELSE 1]

\* A call about a case is for one of the library that it names.
Existing(call) == call.id \in Of(call.kb)

Accepted(call) ==
  CASE call.op = "create" -> QuestionFree(call.kb, call.q, 0)
    [] call.op = "edit" -> /\ Existing(call)
                           /\ call.q # cases[call.id].q => QuestionFree(call.kb, call.q, call.id)
    [] call.op = "import" -> TRUE
    [] OTHER -> Existing(call)

\* Two calls that bring questions to one library, the second checked before
\* the first has written.
Brings == {"create", "edit", "import"}
Races(d) == /\ calls[d].op \in Brings
            /\ \E e \in Desk \ {d} : /\ calls[e].pc = "checked" /\ calls[e].op \in Brings
                                     /\ calls[e].kb = calls[d].kb

Check(d) ==
  /\ calls[d].pc = "sent"
  /\ LET ok == Accepted(calls[d]) IN
       /\ calls' = [calls EXCEPT ![d] =
            IF ~ok THEN [calls[d] EXCEPT !.pc = "refused"]
            ELSE IF calls[d].op # "import" THEN [calls[d] EXCEPT !.pc = "checked"]
            ELSE [calls[d] EXCEPT !.pc = "checked", !.file = New(calls[d].kb, calls[d].file)]]
       /\ past' = [past EXCEPT !.slips = Slip("raced", ok /\ Races(d))]
  /\ UNCHANGED <<cases, lists, tab, run>>

\* Numbers that were never given, the lowest first.
Unused(n) == {i \in Id \ past.used : Cardinality(1 .. i \ past.used) <= n}
Copies(file) == UNION {{<<q, k>> : k \in 1 .. file[q]} : q \in DOMAIN file}

Changed(row, call) ==
  CASE call.op = "edit" -> [row EXCEPT !.q = call.q, !.hard = call.hard]
    [] call.op = "toggle" -> [row EXCEPT !.on = call.on]
    [] call.op = "promote" -> [row EXCEPT !.hard = FALSE]
    [] call.op = "mark" -> [row EXCEPT !.hard = TRUE]

Effect(call) ==
  CASE call.op = "create" ->
         {[cases EXCEPT ![i] = [kb |-> call.kb, q |-> call.q, hard |-> call.hard, on |-> TRUE]] :
            i \in Unused(1)}
    [] call.op = "import" ->
         LET copies == Copies(call.file) IN
         IF Cardinality(Unused(Cardinality(copies))) < Cardinality(copies) THEN {}
         ELSE {[i \in Id |-> IF i \in DOMAIN to THEN [kb |-> call.kb, q |-> to[i][1], hard |-> FALSE, on |-> TRUE]
                             ELSE cases[i]] :
                 to \in {f \in [Unused(Cardinality(copies)) -> copies] :
                           \A i, j \in DOMAIN f : i < j => f[i] # f[j]}}
    [] call.op = "remove" -> {[cases EXCEPT ![call.id] = Gone]}
    [] OTHER -> {[cases EXCEPT ![call.id] = Changed(cases[call.id], call)]}

\* The drawer reloads after its own calls only, and the page after those of the tab.
Write(d) ==
  /\ calls[d].pc = "checked"
  /\ LET call == calls[d]
         missing == call.op \notin {"create", "import"} /\ cases[call.id] = Gone
     IN IF missing THEN /\ calls' = [calls EXCEPT ![d] = [call EXCEPT !.pc = "refused"]]
                        /\ UNCHANGED <<cases, past>>
        ELSE /\ cases' \in Effect(call)
             /\ calls' = [calls EXCEPT ![d] = [call EXCEPT !.pc = "written", !.at = past.writes + 1]]
             /\ past' = [past EXCEPT !.writes = @ + 1, !.used = @ \union {i \in Id : cases'[i] # Gone},
                  !.slips = Slip("other", call.by = "other" \/ (call.by = "page" /\ tab.open))
                            \union Slip("astray", \E i \in Id : cases'[i] # cases[i]
                                                  /\ cases[i].kb \notin {"none", call.kb})]
  /\ UNCHANGED <<lists, tab, run>>

-----------------------------------------------------------------------------
(* The lists of the page and of the drawer                                  *)

FreeList == CHOOSE f \in 1 .. MaxLists : lists[f] = NoList
HasFree == \E f \in 1 .. MaxLists : lists[f] = NoList
\* reload of the drawer tells the page, which then fetches its own list.
Asking(to, kb, tells) == [pc |-> "sent", to |-> to, kb |-> kb, tells |-> tells]
Fetching(to, tells) == [lists EXCEPT ![FreeList] = Asking(to, tab.kb, tells)]

ReadList(f) ==
  /\ lists[f].pc = "sent"
  /\ lists' = [lists EXCEPT ![f] = [pc |-> "read", to |-> lists[f].to, kb |-> lists[f].kb, tells |-> lists[f].tells,
                                    rows |-> Listed(lists[f].kb), at |-> past.writes]]
  /\ UNCHANGED <<cases, calls, tab, run, past>>

AfterList(f) == lists' = [lists EXCEPT ![f] = IF lists[f].tells THEN Asking("page", tab.kb, FALSE) ELSE NoList]

\* A new list replaces the rows that calls under way were begun from.
Shown(f) ==
  /\ lists[f].pc = "read"
  /\ tab' = IF lists[f].to = "page" THEN [tab EXCEPT !.page = lists[f].rows, !.pageAt = lists[f].at]
            ELSE [tab EXCEPT !.drawer = lists[f].rows, !.drawerAt = lists[f].at]
  /\ calls' = [d \in Desk |-> IF calls[d] # NoCall /\ lists[f].to = "drawer"
                              THEN [calls[d] EXCEPT !.row = FALSE] ELSE calls[d]]
  /\ past' = [past EXCEPT !.slips =
       Slip("overtaken", lists[f].at < IF lists[f].to = "page" THEN tab.pageAt ELSE tab.drawerAt)]
  /\ AfterList(f) /\ UNCHANGED <<cases, run>>

ListFails(f) ==
  /\ lists[f].pc = "sent" /\ past' = [past EXCEPT !.slips = Slip("failed", TRUE)]
  /\ AfterList(f) /\ UNCHANGED <<cases, calls, tab, run>>

-----------------------------------------------------------------------------
(* The page and its drawer                                                  *)

\* manageVisible; the button is disabled while an evaluation runs.
OpenDrawer ==
  /\ ~tab.open /\ run.pc # "run" /\ HasFree
  /\ tab' = [tab EXCEPT !.open = TRUE]
  /\ lists' = Fetching("drawer", FALSE)
  /\ UNCHANGED <<cases, calls, run, past>>

CloseDrawer == tab.open /\ tab' = [tab EXCEPT !.open = FALSE] /\ UNCHANGED <<cases, calls, lists, run, past>>

\* The view stays when the address names another library: the lists do too.
Jump(kb) ==
  /\ kb # tab.kb /\ past.jumps < MaxJumps
  /\ tab' = [tab EXCEPT !.kb = kb]
  /\ past' = [past EXCEPT !.jumps = @ + 1, !.slips = Slip("jumped", TRUE)]
  /\ UNCHANGED <<cases, calls, lists, run>>

\* A call of the drawer on a row it shows, of the report on one it shows, or of
\* somebody else on any.
Call(op, by, kb) == [pc |-> "sent", op |-> op, by |-> by, kb |-> kb, id |-> 0, q |-> NoQuestion, hard |-> FALSE,
                     on |-> TRUE, file |-> NoFile, row |-> TRUE, at |-> 0]
About(op, by, kb, i) == [Call(op, by, kb) EXCEPT !.id = i]
Creating(by, kb, q) == [Call("create", by, kb) EXCEPT !.q = q]
Importing(by, kb, file) == [Call("import", by, kb) EXCEPT !.file = file]
Editing(by, kb, i, q, row) == [About("edit", by, kb, i) EXCEPT !.q = q, !.hard = row.hard]
Switching(by, kb, i, row) == [About("toggle", by, kb, i) EXCEPT !.on = ~row.on]

Forms(by, kb, rows) ==
  {Creating(by, kb, q) : q \in Question}
  \union {Importing(by, kb, file) : file \in {f \in [Question -> 0 .. 2] : Cardinality(Copies(f)) \in 1 .. 2}}
  \union {Editing(by, kb, i, q, rows[i]) : i \in DOMAIN rows, q \in Question}
  \union {Switching(by, kb, i, rows[i]) : i \in DOMAIN rows}
  \union {About(op, by, kb, i) : op \in {"promote", "remove"}, i \in DOMAIN rows}

Offered ==
  (IF tab.open THEN Forms("drawer", tab.kb, tab.drawer) ELSE {})
  \union (IF run.pc = "report" /\ ~tab.open THEN {About("mark", "page", tab.kb, i) : i \in run.rows} ELSE {})
  \union Forms("other", tab.kb, Listed(tab.kb))

Begin(d) ==
  /\ calls[d] = NoCall /\ past.calls < MaxEdits
  /\ \E call \in Offered : calls' = [calls EXCEPT ![d] = call]
  /\ past' = [past EXCEPT !.calls = @ + 1]
  /\ UNCHANGED <<cases, lists, tab, run>>

\* After a switch the row changes in place and the page fetches; after any other
\* call of the drawer it reloads first.  A switch is not locked meanwhile: the
\* answers of two can come in another order than their writes.
Answered(d) ==
  /\ calls[d].pc = "written"
  /\ calls' = [calls EXCEPT ![d] = NoCall]
  /\ LET call == calls[d]
         flip == call.by = "drawer" /\ call.op = "toggle"
     IN /\ call.by # "other" => HasFree
        /\ lists' = IF call.by = "other" THEN lists
                    ELSE IF call.by = "page" \/ flip THEN Fetching("page", FALSE)
                    ELSE Fetching("drawer", TRUE)
        /\ tab' = IF flip /\ call.row
                   THEN [tab EXCEPT !.drawer = [tab.drawer EXCEPT ![call.id].on = call.on], !.drawerAt = call.at]
                   ELSE tab
        /\ past' = [past EXCEPT !.slips = Slip("overtaken", flip /\ (~call.row \/ call.at <= tab.drawerAt))]
  /\ UNCHANGED <<cases, run>>

\* A refusal is only shown, and so is an answer that never comes.
Unanswered(d) ==
  /\ calls[d].pc \in {"written", "refused"}
  /\ calls' = [calls EXCEPT ![d] = NoCall]
  /\ past' = [past EXCEPT !.slips = Slip("lost", calls[d].pc = "written" /\ calls[d].by # "other")]
  /\ UNCHANGED <<cases, lists, tab, run>>

-----------------------------------------------------------------------------
(* The evaluation                                                           *)

Quiet == /\ \A d \in Desk : calls[d] = NoCall
         /\ \A f \in 1 .. MaxLists : lists[f] = NoList

Runnable(rows, scope) == {i \in DOMAIN rows : rows[i].on /\ (scope = "hard" => rows[i].hard)}

\* The cases are those of the list at the start; the report of before goes.
RunEval(scope) ==
  /\ run.pc # "run" /\ ~tab.open /\ Runnable(tab.page, scope) # {}
  /\ run' = [pc |-> "run", scope |-> scope, rows |-> Runnable(tab.page, scope), scored |-> {}, step |-> 0,
             stopped |-> FALSE, early |-> ~Quiet, at |-> past.writes, about |-> {}]
  /\ UNCHANGED <<cases, calls, lists, tab, past>>

StopEval == /\ run.pc = "run" /\ ~run.stopped /\ run' = [run EXCEPT !.stopped = TRUE]
            /\ UNCHANGED <<cases, calls, lists, tab, past>>

\* One search, found or failed: the one that looks for the passage, the one
\* without reranking and the one with it.  A stop is obeyed after the third.
EvalStep ==
  /\ run.pc = "run"
  /\ LET left == run.rows \ run.scored
         asked == [run EXCEPT !.about = @ \union {tab.kb}]
         counted == run.scored \union {CHOOSE i \in left : \A j \in left : i <= j}
     IN run' = IF run.step < 2 THEN [asked EXCEPT !.step = @ + 1]
               ELSE IF run.stopped THEN [asked EXCEPT !.pc = "report"]
               ELSE [asked EXCEPT !.step = 0, !.scored = counted,
                                  !.pc = IF counted = run.rows THEN "report" ELSE "run"]
  /\ UNCHANGED <<cases, calls, lists, tab, past>>

-----------------------------------------------------------------------------
(* The tab is opened on a library that has one case, and fetches its list.  *)

EvalInit ==
  /\ \E kb \in Shelf, q \in Question :
       /\ tab = [kb |-> kb, open |-> FALSE, page |-> <<>>, pageAt |-> 0, drawer |-> <<>>, drawerAt |-> 0]
       /\ cases = [i \in Id |-> IF i = 1 THEN [kb |-> kb, q |-> q, hard |-> FALSE, on |-> TRUE] ELSE Gone]
       /\ lists = [f \in 1 .. MaxLists |-> IF f = 1 THEN Asking("page", kb, FALSE) ELSE NoList]
  /\ calls = [d \in Desk |-> NoCall]
  /\ run = [pc |-> "idle"]
  /\ past = [calls |-> 0, writes |-> 0, jumps |-> 0, used |-> {1}, slips |-> {}]

EvalNext ==
  \/ \E d \in Desk : Begin(d) \/ Check(d) \/ Write(d) \/ Answered(d) \/ Unanswered(d)
  \/ \E f \in 1 .. MaxLists : ReadList(f) \/ Shown(f) \/ ListFails(f)
  \/ OpenDrawer \/ CloseDrawer \/ StopEval \/ EvalStep
  \/ \E kb \in Shelf : Jump(kb)
  \/ \E scope \in {"all", "hard"} : RunEval(scope)

EvalSpec == EvalInit /\ [][EvalNext]_evalVars

-----------------------------------------------------------------------------
(* Properties                                                               *)

Clean == past.slips \subseteq {"raced"}

\* A question is in a library once, unless two calls brought it at a time.
QuestionsOnce ==
  "raced" \notin past.slips =>
    \A kb \in Shelf : \A i, j \in Of(kb) : cases[i].q = cases[j].q => i = j

\* With nothing under way, nothing lost, failed or overtaken, no jump and nobody
\* else about, both lists are the server's.
ListsTrue ==
  Quiet /\ Clean => /\ tab.page = Listed(tab.kb)
                    /\ tab.open => tab.drawer = Listed(tab.kb)

\* The report of a run begun with nothing under way, not stopped and with no
\* slip or write since, is about every case of the library that is on, and about no other.
ReportWhole ==
  run.pc = "report" /\ ~run.stopped /\ ~run.early /\ Clean /\ past.writes = run.at =>
    run.scored = Runnable(Listed(tab.kb), run.scope) /\ run.about = {tab.kb}

\* The questions of a library stay apart unless two calls raced; while nobody else
\* wrote, nothing was lost, overtaken or failed and the address did not jump, the
\* page shows what the library keeps, and a report that nothing disturbed is about
\* all of it; no call reaches the case of another library, whatever happened
\* (eval-case.service.ts, KnowledgeDetailView.vue, EvalCaseDrawer.vue).
EvaluationSound == QuestionsOnce /\ ListsTrue /\ ReportWhole /\ "astray" \notin past.slips
=============================================================================
