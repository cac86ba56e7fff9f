----------------------------- MODULE Migration -----------------------------
(***************************************************************************)
(* What a re-embedding run promises to the rest of the system, without     *)
(* tasks, counters or crashes.  While a library is being migrated nobody   *)
(* may query it; it becomes ready again only when no document is left to   *)
(* convert, and an administrator is asked for help otherwise.  Reembed     *)
(* implements this specification when the service is prompt.               *)
(***************************************************************************)
CONSTANT Docs

VARIABLES
  job,   \* "ready": queries allowed; "migrating"; "attention": a run failed
  todo   \* documents whose vectors are of another channel than the wanted one

Init == job = "ready" /\ todo \in SUBSET Docs

\* A run begins; documents that the run does not cover are not its concern.
Begin ==
  /\ job \in {"ready", "attention"}
  /\ job' = "migrating"
  /\ todo' \in SUBSET Docs

\* Documents are converted, one or several at a time, and never back.
Convert == todo' \in SUBSET todo /\ todo' # todo /\ UNCHANGED job

Finish == job = "migrating" /\ todo = {} /\ job' = "ready" /\ UNCHANGED todo

GiveUp == job = "migrating" /\ job' = "attention" /\ UNCHANGED todo

Next == Begin \/ Convert \/ Finish \/ GiveUp

Spec == Init /\ [][Next]_<<job, todo>> /\ WF_<<job, todo>>(Finish \/ GiveUp)
=============================================================================
