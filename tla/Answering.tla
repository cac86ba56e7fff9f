----------------------------- MODULE Answering -----------------------------
(***************************************************************************)
(* A question from the browser to the cached answer: the chat service and  *)
(* the generator run concurrently and meet only on the wire.               *)
(***************************************************************************)
EXTENDS ChatStream, AnswerCache

vars == <<chatVars, cacheVars, wire, used>>

TypeOK == ChatType /\ CacheType /\ WireType

Init == ChatInit /\ CacheInit /\ WireInit

Next ==
  \/ ChatNext /\ UNCHANGED cacheVars
  \/ CacheNext /\ UNCHANGED chatVars

\* A call whose question is stored goes on, and so does its generator: every
\* upstream call has a time limit.
Fairness ==
  \A q \in Calls :
    /\ WF_vars(Answer(q) /\ UNCHANGED cacheVars)
    /\ WF_vars(Produce(q) /\ UNCHANGED chatVars)

Spec == Init /\ [][Next]_vars
FairSpec == Spec /\ Fairness

-----------------------------------------------------------------------------
(* Properties                                                               *)

\* Calls whose monthly usage is written.
Recorded == {q \in Calls : call[q].pc \in {"title", "end"} /\ call[q].month # Undated}
Generated(q) == gen[q].path = "model"

\* As long as no statement fails, the month's usage is the number of answers
\* that the model generated and the reader received: replays and canned
\* replies are free, a stopped answer is free, two answers that end together
\* both count, and a new month starts from zero.  The statistics of the days
\* count the same answers.
BillsMatch ==
  used["error"] + used["crash"] = 0 =>
    /\ usage.used = Cardinality({q \in Recorded : Generated(q)
                                                   /\ call[q].month = usage.month})
    /\ daily.tokens = Cardinality({q \in Recorded : Generated(q)})
                        + Cardinality({q \in Calls : At(q, "usage") /\ Generated(q)})

=============================================================================
