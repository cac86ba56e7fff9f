------------------------------ MODULE MCParts ------------------------------
(* The text of a document, one search, the events of one answer, the codes  *)
(* sent by e-mail, the evaluation and the page of login, each on its own: a *)
(* behaviour is one of them, and the others rest.                           *)
EXTENDS DocumentText, Retrieval, EventReader, EmailCodes, Evaluation, LoginForm, TLC

VARIABLE part

mcVars == <<part, textVars, searchVars, streamVars, codesVars, evalVars, loginVars>>
workVars == <<textVars, searchVars, streamVars>>

\* One document with two chunks in a row, another whose text has the place after
\* them and follows a picture.
Documents == <<"first", "first", "second", "second">>
Places == <<1, 2, 3, 2>>

RestText == /\ file = [format |-> "md", lines |-> <<>>, unread |-> {}] /\ stage = "done"
            /\ plan = [size |-> 1, overlap |-> 0, ocr |-> TRUE] /\ blocks = <<>> /\ chunks = <<>>
RestSearch == SearchInit /\ ask = [hybrid |-> FALSE, rerank |-> FALSE, picture |-> FALSE]
\* The picture is added after the fusion and does not look at it: one of the two.
SomeSearch == SearchInit /\ ~(ask.hybrid /\ ask.picture)
RestStream == StreamInit /\ written = 0 /\ up = <<>> /\ upEnd = "open"

\* The evaluation begins with one library and one question: names do not matter.
AnyOf(S) == CHOOSE x \in S : TRUE

Init ==
  /\ \/ part = "text" /\ TextInit /\ RestSearch /\ RestStream
     \/ part = "search" /\ RestText /\ SomeSearch /\ RestStream
     \/ part = "stream" /\ RestText /\ RestSearch /\ StreamInit
     \/ part \in {"codes", "cases", "drawer", "run", "login"} /\ RestText /\ RestSearch /\ RestStream
  /\ CodesInit /\ EvalInit /\ LoginInit /\ tab.kb = AnyOf(Shelf) /\ cases[1].q = AnyOf(Question)

-----------------------------------------------------------------------------
\* Calls of others that race on the server; calls of the drawer and the lists
\* that follow them; a run with at most one change.  Nothing is said of a page
\* once it has gone wrong.
SomeEvaluation ==
  /\ EvalNext
  /\ calls'[2] # NoCall /\ calls[2] = NoCall => calls[1] # NoCall
  /\ \A d \in Desk : calls'[d] # NoCall => (calls'[d].by = "other") = (part = "cases")
  /\ CASE part = "cases" -> UNCHANGED <<lists, run>> /\ ~tab'.open
       [] part = "drawer" -> /\ Clean /\ UNCHANGED run
                             /\ \A d \in Desk : calls'[d] # NoCall =>
                                  calls'[d].op \in {"toggle", "create", "remove"}
       [] part = "run" -> Clean /\ past'.calls <= 1

Next ==
  /\ UNCHANGED part
  /\ \/ part = "text" /\ TextNext /\ UNCHANGED <<searchVars, streamVars, codesVars, evalVars, loginVars>>
     \/ part = "search" /\ SearchNext /\ UNCHANGED <<textVars, streamVars, codesVars, evalVars, loginVars>>
     \/ part = "stream" /\ StreamNext /\ UNCHANGED <<textVars, searchVars, codesVars, evalVars, loginVars>>
     \/ part = "codes" /\ CodesNext /\ UNCHANGED <<workVars, evalVars, loginVars>>
     \/ part \in {"cases", "drawer", "run"} /\ SomeEvaluation /\ UNCHANGED <<workVars, codesVars, loginVars>>
     \/ part = "login" /\ LoginNext /\ UNCHANGED <<workVars, codesVars, evalVars>>

Spec == Init /\ [][Next]_mcVars

Interchangeable == Permutations(Sender) \union Permutations(Visitor)
=============================================================================
