--------------------------- MODULE ReembedProofs ---------------------------
(***************************************************************************)
(* Theorems about Reembed, for any set of documents, channels, workers and *)
(* concurrent requests, any retry limit and any schedule of faults.        *)
(***************************************************************************)
EXTENDS Reembed, FiniteSetTheorems, TLAPS

\* Setting the program point of a task, or dropping it, keeps the task well typed.
LEMMA GotoType ==
  ASSUME task \in [Workers -> Tasks], NEW w \in Workers,
         NEW p \in Points \cup {"free"}, Goto(w, p)
  PROVE  task' \in [Workers -> Tasks]
  BY DEF Goto, Tasks, Points

LEMMA IdleType == Idle \in Tasks
  BY ParametersOK DEF Idle, Tasks, Points

LEMMA ReleaseType ==
  ASSUME TypeOK, NEW w \in Workers, Release(w)
  PROVE  task' \in [Workers -> Tasks] /\ since' \in SUBSET Workers
  BY IdleType DEF Release, TypeOK

LEMMA HappensType ==
  ASSUME TypeOK, NEW e \in Events, Happens(e)
  PROVE  used' \in [Events -> Nat]
  BY DEF Happens, TypeOK

LEMMA SentType ==
  ASSUME TypeOK, NEW S, NEW n \in 0..MaxRetries
  PROVE  Sent(S, n) \in [Docs -> [0..MaxRetries -> Nat]]
<1>1. ASSUME NEW d \in Docs
      PROVE  /\ queue[d] \in [0..MaxRetries -> Nat]
             /\ [queue[d] EXCEPT ![n] = @ + 1] \in [0..MaxRetries -> Nat]
  <2>1. queue[d] \in [0..MaxRetries -> Nat]
    BY DEF TypeOK
  <2>2. queue[d][n] \in Nat
    BY <2>1, Zenon
  <2>3. queue[d][n] + 1 \in Nat
    BY <2>2
  <2> QED
    BY <2>1, <2>3, Zenon
<1> DEFINE more(d) == IF d \in S THEN [queue[d] EXCEPT ![n] = @ + 1] ELSE queue[d]
<1>2. \A d \in Docs : more(d) \in [0..MaxRetries -> Nat]
  BY <1>1
<1> HIDE DEF more
<1>3. [d \in Docs |-> more(d)] \in [Docs -> [0..MaxRetries -> Nat]]
  BY <1>2
<1> QED
  BY <1>3 DEF Sent, more

LEMMA TouchType ==
  ASSUME NEW t, Touch(t)
  PROVE  since' \in SUBSET Workers
  BY DEF Touch, Busy

LEMMA RequestType ==
  ASSUME TypeOK, NEW q \in Requests, NEW r \in RequestStates,
         request' = [request EXCEPT ![q] = r]
  PROVE  request' \in [Requests -> RequestStates]
  BY DEF TypeOK

LEMMA InitType == Init => TypeOK
<1> SUFFICES ASSUME Init PROVE TypeOK
  OBVIOUS
<1>1. task \in [Workers -> Tasks]
  BY IdleType DEF Init
<1>2. request \in [Requests -> RequestStates]
  BY DEF Init, NoRequest, RequestStates
<1>3. vec \in [Docs -> Vectors] /\ status \in [Docs -> Statuses]
  BY DEF Init, Vectors, Statuses
<1>4. queue \in [Docs -> [0..MaxRetries -> Nat]] /\ used \in [Events -> Nat]
  BY DEF Init
<1> QED
  BY <1>1, <1>2, <1>3, <1>4 DEF Init, TypeOK, Phases

-----------------------------------------------------------------------------
(* Type correctness                                                         *)

LEMMA RequestStepType ==
  ASSUME TypeOK, NEW q \in Requests,
         TriggerCheck(q) \/ RequestStep(q) \/ TriggerLost(q)
  PROVE  TypeOK'
<1> USE DEF TypeOK, state
<1>0. \A d \in Docs : Sent({d}, 0) \in [Docs -> [0..MaxRetries -> Nat]]
  <2> HIDE DEF TypeOK
  <2>1. 0 \in 0..MaxRetries
    BY ParametersOK
  <2> QED
    BY <2>1, SentType
<1>1. CASE TriggerCheck(q)
  <2>1. used' \in [Events -> Nat]
    BY <1>1, HappensType DEF TriggerCheck, Events
  <2>2. request' \in [Requests -> RequestStates]
    BY <1>1 DEF TriggerCheck, RequestStates
  <2> QED
    BY <1>1, <2>1, <2>2 DEF TriggerCheck
<1>2. CASE TriggerClear(q)
  <2>1. request' \in [Requests -> RequestStates]
    BY <1>2 DEF TriggerClear, RequestStates
  <2>2. vec' \in [Docs -> Vectors]
    BY <1>2 DEF TriggerClear, Vectors
  <2> QED
    BY <1>2, <2>1, <2>2 DEF TriggerClear
<1>3. CASE TriggerWrite(q)
  <2>1. request' \in [Requests -> RequestStates]
    BY <1>3 DEF TriggerWrite, RequestStates
  <2>2. pending' \in SUBSET Docs /\ target' \in SUBSET Docs
    BY <1>3 DEF TriggerWrite, RequestStates
  <2>3. total' \in Nat
    <3>1. IsFiniteSet(request[q].docs)
      BY DocsFinite, FS_Subset DEF RequestStates
    <3> QED
      BY <1>3, <3>1, FS_CardinalityType DEF TriggerWrite
  <2>4. since' \in SUBSET Workers
    BY <1>3, TouchType DEF TriggerWrite
  <2> QED
    BY <1>3, <2>1, <2>2, <2>3, <2>4 DEF TriggerWrite, Phases
<1>4. CASE TriggerDispatch(q)
  <2>1. PICK d \in request[q].docs :
          /\ queue' = Sent({d}, 0)
          /\ request' = [request EXCEPT ![q] = AfterSending(q, d)]
    BY <1>4 DEF TriggerDispatch
  <2>2. queue' \in [Docs -> [0..MaxRetries -> Nat]]
    <3>1. d \in Docs
      BY DEF RequestStates
    <3> QED
      BY <2>1, <3>1, <1>0
  <2>3. request' \in [Requests -> RequestStates]
    <3>1. request[q] \in RequestStates
      OBVIOUS
    <3>2. /\ NoRequest \in RequestStates
          /\ [request[q] EXCEPT !.docs = @ \ {d}] \in RequestStates
      BY <3>1 DEF NoRequest, RequestStates
    <3>3. AfterSending(q, d) \in RequestStates
      BY <3>2 DEF AfterSending
    <3> QED
      BY <2>1, <3>3
  <2> QED
    BY <1>4, <2>2, <2>3 DEF TriggerDispatch
<1>5. CASE TriggerLost(q)
  <2>1. used' \in [Events -> Nat]
    BY <1>5, HappensType DEF TriggerLost, Events
  <2>2. request' \in [Requests -> RequestStates]
    BY <1>5 DEF TriggerLost, NoRequest, RequestStates
  <2> QED
    BY <1>5, <2>1, <2>2 DEF TriggerLost
<1> QED
  BY <1>1, <1>2, <1>3, <1>4, <1>5 DEF RequestStep

LEMMA TaskStepType ==
  ASSUME TypeOK, NEW w \in Workers, TaskStep(w)
  PROVE  TypeOK'
<1> USE DEF TypeOK, state
<1>1. CASE Embed(w)
  <2>1. task' \in [Workers -> Tasks]
    BY <1>1, GotoType DEF Embed, Points
  <2>2. vec' \in [Docs -> Vectors]
    BY <1>1 DEF Embed, Vectors
  <2> QED
    BY <1>1, <2>1, <2>2 DEF Embed
<1>2. CASE CountDone(w)
  <2>1. task' \in [Workers -> Tasks]
    BY <1>2, GotoType DEF CountDone, Points
  <2>2. since' \in SUBSET Workers
    BY <1>2, TouchType DEF CountDone
  <2> QED
    BY <1>2, <2>1, <2>2 DEF CountDone
<1>3. CASE CountFailed(w)
  <2>1. task' \in [Workers -> Tasks]
    <3>1. [task[w] EXCEPT !.pc = "claim", !.guarded = FALSE] \in Tasks
      BY DEF Tasks, Points
    <3> QED
      BY <1>3, <3>1 DEF CountFailed
  <2>2. since' \in SUBSET Workers
    BY <1>3, TouchType DEF CountFailed
  <2> QED
    BY <1>3, <2>1, <2>2 DEF CountFailed
<1>4. CASE Claim(w)
  <2>1. CASE phase = "running" /\ AllIn
    <3>1. task' \in [Workers -> Tasks]
      BY <1>4, <2>1, GotoType DEF Claim, Points
    <3>2. since' \in SUBSET Workers
      BY <1>4, <2>1, TouchType DEF Claim
    <3> QED
      BY <1>4, <2>1, <3>1, <3>2 DEF Claim, Phases
  <2>2. CASE ~(phase = "running" /\ AllIn)
    <3>1. task' \in [Workers -> Tasks] /\ since' \in SUBSET Workers
      BY <1>4, <2>2, ReleaseType DEF Claim
    <3> QED
      BY <1>4, <2>2, <3>1 DEF Claim
  <2> QED
    BY <2>1, <2>2
<1>5. CASE ReadSummary(w)
  <2>1. task' \in [Workers -> Tasks]
    <3>1. [task[w] EXCEPT !.pc = "settle", !.seen = failed] \in Tasks
      BY DEF Tasks, Points
    <3> QED
      BY <1>5, <3>1 DEF ReadSummary
  <2> QED
    BY <1>5, <2>1 DEF ReadSummary
<1>6. CASE Settle(w)
  <2>1. task' \in [Workers -> Tasks]
    BY <1>6, IdleType DEF Settle, SettleAs
  <2>2. since' \in SUBSET Workers
    BY <1>6 DEF Settle, SettleAs, Touch, Busy
  <2> QED
    BY <1>6, <2>1, <2>2 DEF Settle, SettleAs, Phases
<1> QED
  BY <1>1, <1>2, <1>3, <1>4, <1>5, <1>6 DEF TaskStep

LEMMA RetryOrFailType ==
  ASSUME TypeOK, NEW w \in Workers, RetryOrFail(w)
  PROVE  /\ task' \in [Workers -> Tasks] /\ since' \in SUBSET Workers
         /\ queue' \in [Docs -> [0..MaxRetries -> Nat]]
<1> DEFINE n == task[w].tries
<1>1. n \in 0..MaxRetries
  BY DEF TypeOK, Tasks
<1>2. CASE n < MaxRetries /\ queue' = Sent({task[w].doc}, n + 1) /\ Release(w)
  <2>1. n + 1 \in 0..MaxRetries
    BY <1>1, <1>2, ParametersOK
  <2> QED
    BY <1>2, <2>1, SentType, ReleaseType
<1>3. CASE Goto(w, "fail") /\ UNCHANGED <<queue, since>>
  BY <1>3, GotoType DEF TypeOK, Points
<1> QED
  BY <1>2, <1>3 DEF RetryOrFail

LEMMA WorkerStepType ==
  ASSUME TypeOK, NEW w \in Workers,
         \/ Take(w) \/ EmbedError(w) \/ EmbedTimeout(w) \/ LateError(w) \/ TaskLost(w)
  PROVE  TypeOK'
<1>1. ASSUME NEW d \in Docs, NEW n \in 0..MaxRetries, Start(w, d, n)
      PROVE  TypeOK'
  <2>1. queue' \in [Docs -> [0..MaxRetries -> Nat]]
    <3>1. queue[d] \in [0..MaxRetries -> Nat]
      BY DEF TypeOK
    <3>2. queue[d][n] \in Nat
      BY <3>1, Zenon
    <3>3. queue[d][n] - 1 \in Nat
      BY <1>1, <3>2 DEF Start
    <3>4. [queue[d] EXCEPT ![n] = @ - 1] \in [0..MaxRetries -> Nat]
      BY <3>1, <3>3, Zenon
    <3>5. queue' = [queue EXCEPT ![d] = [queue[d] EXCEPT ![n] = @ - 1]]
      BY <1>1 DEF Start
    <3>6. queue \in [Docs -> [0..MaxRetries -> Nat]]
      BY DEF TypeOK
    <3> QED
      BY <3>4, <3>5, <3>6, Zenon
  <2>2. task' \in [Workers -> Tasks]
    <3>1. [pc |-> "embed", doc |-> d, tries |-> n, rows |-> vec[d] # NoChunks,
           guarded |-> TRUE, seen |-> 0] \in Tasks
      BY DEF Tasks, Points
    <3> QED
      BY <1>1, <3>1 DEF Start, TypeOK
  <2> QED
    BY <1>1, <2>1, <2>2 DEF Start, TypeOK, state
<1>2. CASE EmbedError(w)
  BY <1>2, RetryOrFailType DEF EmbedError, TypeOK, state
<1>3. CASE EmbedTimeout(w)
  <2>1. task' \in [Workers -> Tasks]
    BY <1>3, GotoType DEF EmbedTimeout, TypeOK, Points
  <2> QED
    BY <1>3, <2>1 DEF EmbedTimeout, TypeOK, state
<1>4. CASE LateError(w)
  <2>1. used' \in [Events -> Nat]
    BY <1>4, HappensType DEF LateError, Events
  <2> QED
    BY <1>4, <2>1, RetryOrFailType DEF LateError, TypeOK, state
<1>5. CASE TaskLost(w)
  <2>1. used' \in [Events -> Nat]
    BY <1>5, HappensType DEF TaskLost, Events
  <2> QED
    BY <1>5, <2>1, ReleaseType DEF TaskLost, TypeOK, state
<1> QED
  BY <1>1, <1>2, <1>3, <1>4, <1>5 DEF Take

LEMMA BeatType ==
  ASSUME TypeOK, NEW v \in Workers, Redispatch(v) \/ RecoverFinalize(v)
  PROVE  TypeOK'
<1>1. CASE Redispatch(v)
  <2>1. 0 \in 0..MaxRetries
    BY ParametersOK
  <2>2. queue' \in [Docs -> [0..MaxRetries -> Nat]]
    BY <1>1, <2>1, SentType DEF Redispatch
  <2>3. since' \in SUBSET Workers
    BY <1>1, TouchType DEF Redispatch
  <2> QED
    BY <1>1, <2>2, <2>3 DEF Redispatch, TypeOK, state
<1>2. CASE RecoverFinalize(v)
  <2>1. task' \in [Workers -> Tasks]
    BY <1>2, GotoType DEF RecoverFinalize, TypeOK, Points
  <2> QED
    BY <1>2, <2>1 DEF RecoverFinalize, TypeOK, state
<1> QED
  BY <1>1, <1>2

LEMMA EnvironmentType ==
  ASSUME TypeOK, Environment
  PROVE  TypeOK'
<1>1. ASSUME NEW c \in Channels, Restart(c)
      PROVE  TypeOK'
  <2>1. used' \in [Events -> Nat]
    BY <1>1, HappensType DEF Restart, Events
  <2>2. task' \in [Workers -> Tasks] /\ request' \in [Requests -> RequestStates]
    BY <1>1, IdleType DEF Restart, NoRequest, RequestStates
  <2> QED
    BY <1>1, <2>1, <2>2 DEF Restart, TypeOK, state
<1>2. ASSUME NEW d \in Docs, ReparseStart(d)
      PROVE  TypeOK'
  <2>1. used' \in [Events -> Nat]
    BY <1>2, HappensType DEF ReparseStart, Events
  <2> QED
    BY <1>2, <2>1 DEF ReparseStart, TypeOK, state, Statuses
<1>3. ASSUME NEW d \in Docs, ReparseClear(d)
      PROVE  TypeOK'
  <2>1. task' \in [Workers -> Tasks]
    <3>1. \A w \in Workers : [task[w] EXCEPT !.rows = FALSE] \in Tasks
      BY DEF TypeOK, Tasks
    <3> QED
      BY <1>3, <3>1 DEF ReparseClear, TypeOK
  <2> QED
    BY <1>3, <2>1 DEF ReparseClear, TypeOK, state, Vectors
<1>4. ASSUME NEW d \in Docs, ReparseDone(d)
      PROVE  TypeOK'
  BY <1>4 DEF ReparseDone, TypeOK, state, Vectors, Statuses
<1>5. ASSUME NEW d \in Docs, ReparseFailed(d)
      PROVE  TypeOK'
  BY <1>5 DEF ReparseFailed, TypeOK, state, Statuses
<1> QED
  BY <1>1, <1>2, <1>3, <1>4, <1>5 DEF Environment

LEMMA NextType ==
  ASSUME TypeOK, [Next]_vars
  PROVE  TypeOK'
<1>1. CASE UNCHANGED vars
  BY <1>1 DEF vars, state, TypeOK
<1>2. CASE Next
  BY <1>2, RequestStepType, TaskStepType, WorkerStepType, BeatType, EnvironmentType
     DEF Next, Beat
<1> QED
  BY <1>1, <1>2

\* Every variable keeps its type in every reachable state.
THEOREM TypeCorrect == Spec => []TypeOK
<1>1. TypeOK /\ [Next]_vars => TypeOK'
  BY NextType
<1> QED
  BY InitType, <1>1, PTL DEF Spec

-----------------------------------------------------------------------------
(* The counters of the row                                                  *)

counters == <<total, done, failed, pending, target>>

\* Only these three statements write the counters or the pending list.
LEMMA CountersChange ==
  ASSUME [Next]_vars
  PROVE  \/ UNCHANGED counters
         \/ \E q \in Requests : TriggerWrite(q)
         \/ \E w \in Workers : CountDone(w) \/ CountFailed(w)
<1> USE DEF counters, state
<1>1. CASE UNCHANGED vars
  BY <1>1 DEF vars
<1>2. ASSUME NEW q \in Requests, TriggerCheck(q) \/ RequestStep(q) \/ TriggerLost(q)
      PROVE  UNCHANGED counters \/ TriggerWrite(q)
  BY <1>2 DEF TriggerCheck, RequestStep, TriggerClear, TriggerDispatch, TriggerLost
<1>3. ASSUME NEW w \in Workers, TaskStep(w)
      PROVE  UNCHANGED counters \/ CountDone(w) \/ CountFailed(w)
  BY <1>3 DEF TaskStep, Embed, Claim, ReadSummary, Settle, SettleAs
<1>4. ASSUME NEW w \in Workers,
             \/ Take(w) \/ EmbedError(w) \/ EmbedTimeout(w) \/ LateError(w) \/ TaskLost(w)
             \/ Redispatch(w) \/ RecoverFinalize(w)
      PROVE  UNCHANGED counters
  BY <1>4 DEF Take, Start, EmbedError, EmbedTimeout, LateError, TaskLost, Redispatch,
              RecoverFinalize
<1>5. CASE Environment
  BY <1>5 DEF Environment, Restart, ReparseStart, ReparseClear, ReparseDone, ReparseFailed
<1> QED
  BY <1>1, <1>2, <1>3, <1>4, <1>5 DEF Next, Beat

\* Striking one document off a finite list shortens it by at most one.
LEMMA StrikeOff ==
  ASSUME NEW S, IsFiniteSet(S), NEW d
  PROVE  /\ IsFiniteSet(S \ {d})
         /\ Cardinality(S) \in Nat /\ Cardinality(S \ {d}) \in Nat
         /\ Cardinality(S) <= Cardinality(S \ {d}) + 1
<1>1. CASE d \in S
  BY SMTT(30), <1>1, FS_RemoveElement, FS_CardinalityType
<1>2. CASE d \notin S
  <2>1. S \ {d} = S
    BY <1>2
  <2>2. Cardinality(S) \in Nat
    BY FS_CardinalityType
  <2>3. Cardinality(S) <= Cardinality(S) + 1
    BY <2>2
  <2> QED
    BY <2>1, <2>2, <2>3
<1> QED
  BY <1>1, <1>2

LEMMA AccountingStep ==
  ASSUME TypeOK, Accounting, [Next]_vars
  PROVE  Accounting'
<1>1. IsFiniteSet(pending)
  BY DocsFinite, FS_Subset DEF TypeOK
<1>2. CASE UNCHANGED counters
  BY <1>2 DEF counters, Accounting
<1>3. ASSUME NEW q \in Requests, TriggerWrite(q)
      PROVE  Accounting'
  <2>1. IsFiniteSet(request[q].docs)
    BY DocsFinite, FS_Subset DEF TypeOK, RequestStates
  <2>2. Cardinality(request[q].docs) \in Nat
    BY <2>1, FS_CardinalityType
  <2> QED
    BY <1>3, <2>2 DEF TriggerWrite, Accounting
<1>4. ASSUME NEW w \in Workers, CountDone(w) \/ CountFailed(w)
      PROVE  Accounting'
  <2>0. total \in Nat /\ done \in Nat /\ failed \in Nat
    BY DEF TypeOK
  <2>1. /\ total' = total /\ pending' = pending \ {task[w].doc}
        /\ \/ done' = done + 1 /\ failed' = failed
           \/ done' = done /\ failed' = failed + 1
    BY <1>4 DEF CountDone, CountFailed
  <2>2. Cardinality(pending) <= Cardinality(pending') + 1
    BY <1>1, <2>1, StrikeOff
  <2>3. Cardinality(pending) \in Nat /\ Cardinality(pending') \in Nat
    BY <1>1, <2>1, StrikeOff
  <2>4. total <= done' + failed' + Cardinality(pending')
    BY <2>0, <2>1, <2>2, <2>3 DEF Accounting
  <2> QED
    BY <2>1, <2>4 DEF Accounting
<1> QED
  BY <1>2, <1>3, <1>4, CountersChange

\* In every reachable state each document of the run is counted or listed as
\* pending, whatever crashes, retries, duplicates or restarts happened.
THEOREM AccountingHolds == Spec => []Accounting
<1>1. Init => Accounting
  BY FS_EmptySet DEF Init, Accounting
<1> QED
  BY TypeCorrect, <1>1, AccountingStep, PTL DEF Spec

-----------------------------------------------------------------------------
(* What failed_docs is worth                                                *)

\* A task that embeds or counts has a document.
HasDoc == \A w \in Workers : task[w].pc \in {"embed", "count"} => task[w].doc \in Docs

\* A task that is about to count its document as done has migrated it, or
\* found nothing to migrate.
AboutToCount(w, d) ==
  task[w].doc = d /\ (task[w].pc = "count" \/ (task[w].pc = "embed" /\ ~task[w].rows))

CountsMigrated ==
  used["restart"] = 0 =>
    \A w \in Workers, d \in Docs : AboutToCount(w, d) => ~Outdated(d)

\* Vectors change only to the configured channel, to NULL, or disappear, so
\* that no document becomes outdated while the processes keep their .env.
LEMMA OutdatedShrinks ==
  ASSUME TypeOK, [Next]_vars, config' = config, NEW d \in Docs, Outdated(d)'
  PROVE  Outdated(d)
<1> USE DEF Outdated, TypeOK
<1>1. CASE UNCHANGED vec
  BY <1>1
<1>2. ASSUME NEW q \in Requests, TriggerClear(q)
      PROVE  Outdated(d)
  BY <1>2, SentinelsDiffer DEF TriggerClear
<1>3. ASSUME NEW w \in Workers, Embed(w)
      PROVE  Outdated(d)
  BY <1>3 DEF Embed
<1>4. ASSUME NEW e \in Docs, ReparseClear(e) \/ ReparseDone(e)
      PROVE  Outdated(d)
  BY <1>4, SentinelsDiffer DEF ReparseClear, ReparseDone
<1>5. \/ UNCHANGED vec
      \/ \E q \in Requests : TriggerClear(q)
      \/ \E w \in Workers : Embed(w)
      \/ \E e \in Docs : ReparseClear(e) \/ ReparseDone(e)
  BY DEF Next, vars, RequestStep, TaskStep, Take, Beat, Environment, TriggerCheck,
         TriggerWrite, TriggerDispatch, TriggerLost, Start, CountDone, CountFailed, Claim,
         ReadSummary, Settle, SettleAs, EmbedError, EmbedTimeout, LateError, TaskLost,
         Redispatch, RecoverFinalize, Restart, ReparseStart, ReparseFailed
<1> QED
  BY <1>1, <1>2, <1>3, <1>4, <1>5

\* Tasks get to these two program points in three ways only.
LEMMA WaysToCount ==
  ASSUME TypeOK, [Next]_vars
  PROVE  \/ \E w \in Workers, d \in Docs, n \in 0..MaxRetries : Start(w, d, n)
         \/ \E w \in Workers : Embed(w)
         \/ \E d \in Docs : ReparseClear(d)
         \/ \A w \in Workers : task'[w].pc \in {"embed", "count"} => task'[w] = task[w]
<1> DEFINE Kept == \A w \in Workers :
                     task'[w].pc \in {"embed", "count"} => task'[w] = task[w]
<1>1. CASE task' = task
  BY <1>1
<1>2. ASSUME NEW w \in Workers, Release(w) \/ task' = [task EXCEPT ![w] = Idle]
      PROVE  Kept
  BY <1>2 DEF Release, Idle, TypeOK
<1>3. ASSUME NEW w \in Workers, NEW p \in Points \ {"embed", "count"}, Goto(w, p)
      PROVE  Kept
  BY <1>3 DEF Goto, TypeOK, Tasks
<1>4. ASSUME NEW w \in Workers, CountFailed(w) \/ ReadSummary(w)
      PROVE  Kept
  BY <1>4 DEF CountFailed, ReadSummary, TypeOK, Tasks
<1>5. ASSUME NEW w \in Workers, CountDone(w) \/ Claim(w) \/ Settle(w)
      PROVE  Kept
  BY <1>2, <1>3, <1>5 DEF CountDone, Claim, Settle, SettleAs, Points
<1>6. ASSUME NEW w \in Workers, EmbedError(w) \/ LateError(w)
      PROVE  Kept
  BY <1>2, <1>3, <1>6 DEF EmbedError, LateError, RetryOrFail, Points
<1>7. ASSUME NEW w \in Workers, EmbedTimeout(w) \/ TaskLost(w) \/ RecoverFinalize(w)
      PROVE  Kept
  BY <1>2, <1>3, <1>7 DEF EmbedTimeout, TaskLost, RecoverFinalize, Points
<1>8. ASSUME NEW c \in Channels, Restart(c)
      PROVE  Kept
  BY <1>8 DEF Restart, Idle
<1>9. \/ task' = task
      \/ \E w \in Workers : Take(w) \/ TaskStep(w) \/ EmbedError(w) \/ LateError(w)
                           \/ EmbedTimeout(w) \/ TaskLost(w) \/ RecoverFinalize(w)
      \/ \E c \in Channels : Restart(c)
      \/ \E d \in Docs : ReparseClear(d)
  BY DEF Next, vars, RequestStep, Beat, Environment, TriggerCheck, TriggerClear,
         TriggerWrite, TriggerDispatch, TriggerLost, Redispatch, ReparseStart,
         ReparseDone, ReparseFailed
<1> QED
  BY <1>1, <1>4, <1>5, <1>6, <1>7, <1>8, <1>9 DEF TaskStep, Take

LEMMA HasDocStep ==
  ASSUME TypeOK, HasDoc, [Next]_vars
  PROVE  HasDoc'
<1>1. ASSUME NEW w \in Workers, NEW d \in Docs, NEW n \in 0..MaxRetries, Start(w, d, n)
      PROVE  HasDoc'
  BY <1>1 DEF Start, HasDoc, TypeOK
<1>2. ASSUME NEW w \in Workers, Embed(w)
      PROVE  HasDoc'
  BY <1>2 DEF Embed, Goto, HasDoc, TypeOK, Tasks
<1>3. ASSUME NEW d \in Docs, ReparseClear(d)
      PROVE  HasDoc'
  BY <1>3 DEF ReparseClear, HasDoc, TypeOK, Tasks
<1>4. CASE \A w \in Workers : task'[w].pc \in {"embed", "count"} => task'[w] = task[w]
  BY <1>4 DEF HasDoc
<1> QED
  BY <1>1, <1>2, <1>3, <1>4, WaysToCount

\* Unless the processes restart, their .env and the count of restarts stay.
LEMMA SameEnv ==
  ASSUME TypeOK, [Next]_vars, used'["restart"] = 0
  PROVE  used["restart"] = 0 /\ config' = config
<1>1. ASSUME NEW e \in Events, Happens(e)
      PROVE  used["restart"] = 0 /\ e # "restart"
  <2>1. used["restart"] \in Nat
    BY DEF TypeOK, Events
  <2>2. CASE e = "restart"
    <3>1. used'["restart"] = used["restart"] + 1
      BY <1>1, <2>2 DEF Happens, TypeOK
    <3> QED
      BY <2>1, <3>1
  <2>3. CASE e # "restart"
    BY <1>1, <2>3 DEF Happens, TypeOK, Events
  <2> QED
    BY <2>2, <2>3
<1>2. \A c \in Channels : ~Restart(c)
  BY <1>1 DEF Restart, Events
<1>3. config' = config
  BY <1>2 DEF Next, vars, RequestStep, TaskStep, Take, Beat, Environment, TriggerCheck,
         TriggerClear, TriggerWrite, TriggerDispatch, TriggerLost, Start, Embed,
         CountDone, CountFailed, Claim, ReadSummary, Settle, SettleAs, EmbedError,
         EmbedTimeout, LateError, TaskLost, Redispatch, RecoverFinalize, ReparseStart,
         ReparseClear, ReparseDone, ReparseFailed
<1>4. used' = used \/ \E e \in Events : Happens(e)
  BY DEF Next, vars, RequestStep, TaskStep, Take, Beat, Environment, TriggerCheck,
         TriggerClear, TriggerWrite, TriggerDispatch, TriggerLost, Start, Embed,
         CountDone, CountFailed, Claim, ReadSummary, Settle, SettleAs, EmbedError,
         EmbedTimeout, LateError, TaskLost, Redispatch, RecoverFinalize, Restart,
         ReparseStart, ReparseClear, ReparseDone, ReparseFailed, Events
<1> QED
  BY <1>1, <1>3, <1>4

LEMMA CountsMigratedStep ==
  ASSUME TypeOK, HasDoc, CountsMigrated, [Next]_vars
  PROVE  CountsMigrated'
<1> SUFFICES ASSUME used'["restart"] = 0, NEW v \in Workers, NEW d \in Docs,
                    AboutToCount(v, d)', Outdated(d)'
             PROVE  FALSE
  BY DEF CountsMigrated
<1>1. config' = config /\ Outdated(d) /\ ~AboutToCount(v, d)
  BY SameEnv, OutdatedShrinks DEF CountsMigrated
<1>2. ASSUME NEW w \in Workers, NEW e \in Docs, NEW n \in 0..MaxRetries, Start(w, e, n)
      PROVE  FALSE
  <2>1. CASE v = w
    BY <1>1, <1>2, <2>1, SentinelsDiffer DEF Start, AboutToCount, Outdated, TypeOK
  <2>2. CASE v # w
    BY <1>1, <1>2, <2>2 DEF Start, AboutToCount, TypeOK
  <2> QED
    BY <2>1, <2>2
<1>3. ASSUME NEW w \in Workers, Embed(w)
      PROVE  FALSE
  <2>1. CASE v = w
    <3>1. task[w].doc = d /\ task[w].pc = "embed"
      BY <1>3, <2>1 DEF Embed, Goto, AboutToCount, TypeOK, Tasks
    <3>2. task[w].rows
      BY <1>1, <2>1, <3>1 DEF AboutToCount
    <3>3. vec'[d] = config
      BY <1>3, <3>1, <3>2 DEF Embed, TypeOK
    <3> QED
      BY <1>1, <3>3 DEF Outdated
  <2>2. CASE v # w
    BY <1>1, <1>3, <2>2 DEF Embed, Goto, AboutToCount, TypeOK
  <2> QED
    BY <2>1, <2>2
<1>4. ASSUME NEW e \in Docs, ReparseClear(e)
      PROVE  FALSE
  <2>1. CASE d = e
    BY <1>4, <2>1, SentinelsDiffer DEF ReparseClear, Outdated, TypeOK
  <2>2. CASE d # e
    BY <1>1, <1>4, <2>2 DEF ReparseClear, AboutToCount, TypeOK, Tasks
  <2> QED
    BY <2>1, <2>2
<1>5. CASE \A w \in Workers : task'[w].pc \in {"embed", "count"} => task'[w] = task[w]
  BY <1>1, <1>5 DEF AboutToCount
<1> QED
  BY <1>2, <1>3, <1>4, <1>5, WaysToCount

Strayed == {d \in target \ pending : Outdated(d)}

\* A set with at most one more member has a cardinality at most one higher.
LEMMA OneMore ==
  ASSUME NEW S, IsFiniteSet(S), NEW T, NEW d, T \subseteq S \cup {d}
  PROVE  /\ IsFiniteSet(T) /\ Cardinality(S) \in Nat /\ Cardinality(T) \in Nat
         /\ Cardinality(T) <= Cardinality(S) + 1
<1>1. IsFiniteSet(S \cup {d}) /\ Cardinality(S \cup {d}) <= Cardinality(S) + 1
  <2>1. CASE d \in S
    <3>1. S \cup {d} = S
      BY <2>1
    <3>2. Cardinality(S) \in Nat
      BY FS_CardinalityType
    <3>3. Cardinality(S) <= Cardinality(S) + 1
      BY <3>2
    <3> QED
      BY <3>1, <3>3
  <2>2. CASE d \notin S
    <3>1. IsFiniteSet(S \cup {d}) /\ Cardinality(S \cup {d}) = Cardinality(S) + 1
      BY <2>2, FS_AddElement
    <3>2. Cardinality(S) \in Nat
      BY FS_CardinalityType
    <3> QED
      BY <3>1, <3>2
  <2> QED
    BY <2>1, <2>2
<1>2. IsFiniteSet(T) /\ Cardinality(T) <= Cardinality(S \cup {d})
  BY <1>1, FS_Subset
<1>3. Cardinality(S) \in Nat /\ Cardinality(T) \in Nat /\ Cardinality(S \cup {d}) \in Nat
  BY <1>1, <1>2, FS_CardinalityType
<1> QED
  BY <1>1, <1>2, <1>3

LEMMA StruckOffStep ==
  ASSUME TypeOK, HasDoc, CountsMigrated, StruckOffMigrated, [Next]_vars
  PROVE  StruckOffMigrated'
<1> SUFFICES ASSUME used'["restart"] = 0
             PROVE  Cardinality(Strayed') <= failed'
  BY DEF StruckOffMigrated, Strayed
<1>1. used["restart"] = 0 /\ config' = config
  BY SameEnv
<1>2. \A d \in Docs : Outdated(d)' => Outdated(d)
  BY <1>1, OutdatedShrinks
<1>3. Cardinality(Strayed) <= failed
  BY <1>1 DEF StruckOffMigrated, Strayed
<1>4. target \in SUBSET Docs /\ target' \in SUBSET Docs
  BY NextType DEF TypeOK
<1>5. IsFiniteSet(Strayed) /\ Cardinality(Strayed) \in Nat /\ failed \in Nat
  BY <1>4, DocsFinite, FS_Subset, FS_CardinalityType DEF Strayed, TypeOK
<1>6. ASSUME target' \ pending' \subseteq target \ pending, failed' = failed
      PROVE  Cardinality(Strayed') <= failed'
  <2>1. Strayed' \subseteq Strayed
    BY <1>2, <1>4, <1>6 DEF Strayed
  <2>2. Cardinality(Strayed') <= Cardinality(Strayed) /\ Cardinality(Strayed') \in Nat
    BY <1>5, <2>1, FS_Subset, FS_CardinalityType
  <2> QED
    BY <1>3, <1>5, <1>6, <2>2
<1>7. CASE UNCHANGED counters
  BY <1>6, <1>7 DEF counters
<1>8. ASSUME NEW q \in Requests, TriggerWrite(q)
      PROVE  Cardinality(Strayed') <= failed'
  <2>1. Strayed' = {} /\ failed' = 0
    BY <1>8 DEF TriggerWrite, Strayed
  <2> QED
    BY <2>1, FS_EmptySet
<1>9. ASSUME NEW w \in Workers, CountDone(w)
      PROVE  Cardinality(Strayed') <= failed'
  <2>1. task[w].doc \in Docs /\ ~Outdated(task[w].doc)
    <3>1. task[w].doc \in Docs /\ AboutToCount(w, task[w].doc)
      BY <1>9 DEF CountDone, HasDoc, AboutToCount
    <3> QED
      BY <1>1, <3>1 DEF CountsMigrated
  <2>2. Strayed' \subseteq Strayed
    <3>1. target' = target /\ pending' = pending \ {task[w].doc} /\ failed' = failed
          /\ vec' = vec
      BY <1>9 DEF CountDone
    <3> QED
      BY <1>1, <2>1, <3>1 DEF Strayed, Outdated
  <2>3. failed' = failed
    BY <1>9 DEF CountDone
  <2>4. Cardinality(Strayed') <= Cardinality(Strayed) /\ Cardinality(Strayed') \in Nat
    BY <1>5, <2>2, FS_Subset, FS_CardinalityType
  <2> QED
    BY <1>3, <1>5, <2>3, <2>4
<1>10. ASSUME NEW w \in Workers, CountFailed(w)
       PROVE  Cardinality(Strayed') <= failed'
  <2>1. target' = target /\ pending' = pending \ {task[w].doc} /\ failed' = failed + 1
    BY <1>10 DEF CountFailed
  <2>2. Strayed' \subseteq Strayed \cup {task[w].doc}
    BY <1>2, <1>4, <2>1 DEF Strayed
  <2>3. Cardinality(Strayed') <= Cardinality(Strayed) + 1 /\ Cardinality(Strayed') \in Nat
    BY <1>5, <2>2, OneMore
  <2> QED
    BY <1>3, <1>5, <2>1, <2>3
<1> QED
  BY <1>7, <1>8, <1>9, <1>10, CountersChange

\* As long as nobody restarts the processes with another .env, failed_docs bounds
\* the documents that the latest run struck off its list and left with vectors of
\* another channel: what finalize_reembed reads from the row is enough to decide
\* between "idle" and "partial_failed".
THEOREM StruckOffHolds == Spec => []StruckOffMigrated
<1>1. Init => HasDoc /\ CountsMigrated /\ StruckOffMigrated
  <2> SUFFICES ASSUME Init PROVE HasDoc /\ CountsMigrated /\ StruckOffMigrated
    OBVIOUS
  <2>1. HasDoc /\ CountsMigrated
    BY DEF Init, Idle, HasDoc, CountsMigrated, AboutToCount
  <2>2. {d \in target \ pending : Outdated(d)} = {} /\ failed = 0
    BY DEF Init
  <2>3. StruckOffMigrated
    <3>1. Cardinality({d \in target \ pending : Outdated(d)}) = 0
      BY <2>2, FS_EmptySet
    <3> QED
      BY <2>2, <3>1 DEF StruckOffMigrated
  <2> QED
    BY <2>1, <2>3
<1>2. TypeOK /\ HasDoc /\ CountsMigrated /\ StruckOffMigrated /\ [Next]_vars
        => HasDoc' /\ CountsMigrated' /\ StruckOffMigrated'
  BY HasDocStep, CountsMigratedStep, StruckOffStep
<1> QED
  BY TypeCorrect, <1>1, <1>2, PTL DEF Spec

-----------------------------------------------------------------------------
(* A prompt service migrates once                                           *)

\* One administrator at a time, no message and no finalizer that outlasts the
\* thresholds of the beat task, and no failing statement or restart meanwhile.
Prompt ==
  /\ \A q, r \in Requests : q = r
  /\ ~MayStall
  /\ Limit["error"] = 0 /\ Limit["restart"] = 0

AtWork(w) == task[w].pc \in {"embed", "count", "fail"}
Sending(q, d) == request[q].pc = "dispatch" /\ d \in request[q].docs

\* A document that is not yet accounted for is asked for once at most: by a
\* message, by a task, or by the loop that has its message still to send.
Single ==
  /\ \A d \in Docs, n \in 0..MaxRetries : queue[d][n] > 0 =>
       /\ queue[d][n] = 1 /\ d \in pending
       /\ \A m \in 0..MaxRetries : queue[d][m] > 0 => m = n
       /\ \A q \in Requests : ~Sending(q, d)
  /\ \A w \in Workers : AtWork(w) =>
       /\ task[w].doc \in pending
       /\ \A v \in Workers : AtWork(v) /\ task[v].doc = task[w].doc => v = w
       /\ \A n \in 0..MaxRetries : queue[task[w].doc][n] = 0
       /\ \A q \in Requests : ~Sending(q, task[w].doc)
  /\ \A q \in Requests, d \in Docs : Sending(q, d) => d \in pending

Settling(w) == task[w].pc \in {"summary", "settle"}

\* The counters are exact, so that a run which is claimed is complete; it is
\* settled by one worker, from failures that are final; and what is outdated is
\* on the list of the run.
Orderly ==
  /\ total = done + failed + Cardinality(pending)
  /\ phase # "running" => pending = {}
  /\ \A w \in Workers : Settling(w) => phase = "finalizing"
  /\ OneFinalizer
  /\ \A w \in Workers : task[w].pc = "settle" => task[w].seen = failed
  /\ \A q \in Requests : request[q].pc = "checked" =>
       phase \in {"idle", "partial_failed"} /\ AbstractTodo \subseteq request[q].docs
  /\ phase \in {"running", "finalizing"} => AbstractTodo \subseteq target
  /\ phase = "idle" /\ sig = config => AbstractTodo = {}

MigrationInv == Single /\ Orderly /\ used["restart"] = 0

-----------------------------------------------------------------------------

LEMMA Calm ==
  ASSUME TypeOK, Prompt, used["restart"] = 0, [Next]_vars
  PROVE  /\ \A w \in Workers : ~LateError(w)
         /\ \A c \in Channels : ~Restart(c)
         /\ used'["restart"] = 0 /\ config' = config
<1>1. ASSUME NEW e \in Events, Happens(e)
      PROVE  e \notin {"error", "restart"} /\ used'["restart"] = 0
  <2>1. used[e] \in Nat /\ used[e] < Limit[e]
    BY <1>1 DEF Happens, TypeOK
  <2>2. e \notin {"error", "restart"}
    BY <2>1 DEF Prompt
  <2> QED  BY <1>1, <2>2 DEF Happens, TypeOK, Events
<1>2. "error" \in Events /\ "restart" \in Events
  BY DEF Events
<1>3. (\A w \in Workers : ~LateError(w)) /\ \A c \in Channels : ~Restart(c)
  BY <1>1, <1>2 DEF LateError, Restart
<1>4. used' = used \/ \E e \in Events : Happens(e)
  BY DEF Next, vars, RequestStep, TaskStep, Take, Beat, Environment, TriggerCheck,
         TriggerClear, TriggerWrite, TriggerDispatch, TriggerLost, Start, Embed,
         CountDone, CountFailed, Claim, ReadSummary, Settle, SettleAs, EmbedError,
         EmbedTimeout, LateError, TaskLost, Redispatch, RecoverFinalize, Restart,
         ReparseStart, ReparseClear, ReparseDone, ReparseFailed, Events
<1>5. used'["restart"] = 0
  BY <1>1, <1>4
<1> QED  BY <1>3, <1>5, SameEnv

\* A document becomes parsed with new vectors only.
LEMMA TodoShrinks ==
  ASSUME TypeOK, [Next]_vars, config' = config
  PROVE  AbstractTodo' \subseteq AbstractTodo
<1> SUFFICES ASSUME NEW d \in Docs, status'[d] = "parsed", Outdated(d)'
             PROVE  status[d] = "parsed" /\ Outdated(d)
  BY DEF AbstractTodo
<1>1. Outdated(d)
  BY OutdatedShrinks
<1>2. CASE UNCHANGED status
  BY <1>1, <1>2
<1>3. ASSUME NEW e \in Docs, ReparseStart(e) \/ ReparseDone(e) \/ ReparseFailed(e)
      PROVE  status[d] = "parsed"
  <2>1. CASE d = e
    BY <1>3, <2>1 DEF ReparseStart, ReparseDone, ReparseFailed, Outdated, TypeOK
  <2>2. CASE d # e
    BY <1>3, <2>2 DEF ReparseStart, ReparseDone, ReparseFailed, TypeOK
  <2> QED  BY <2>1, <2>2
<1>4. \/ UNCHANGED status
      \/ \E e \in Docs : ReparseStart(e) \/ ReparseDone(e) \/ ReparseFailed(e)
  BY DEF Next, vars, RequestStep, TaskStep, Take, Beat, Environment, TriggerCheck,
         TriggerClear, TriggerWrite, TriggerDispatch, TriggerLost, Start, Embed, CountDone,
         CountFailed, Claim, ReadSummary, Settle, SettleAs, EmbedError, EmbedTimeout,
         LateError, TaskLost, Redispatch, RecoverFinalize, Restart, ReparseClear
<1> QED  BY <1>1, <1>2, <1>3, <1>4

\* A step that asks for nothing more.
LEMMA SameSingle ==
  ASSUME Single, UNCHANGED <<queue, pending>>,
         \A q \in Requests, d \in Docs : Sending(q, d)' => Sending(q, d),
         \A w \in Workers : AtWork(w)' => AtWork(w) /\ task'[w].doc = task[w].doc,
         pending \in SUBSET Docs
  PROVE  Single'
<1>1. queue' = queue /\ pending' = pending
  OBVIOUS
<1>2. ASSUME NEW d \in Docs, NEW n \in 0..MaxRetries, queue[d][n] > 0
      PROVE  /\ queue[d][n] = 1 /\ d \in pending
             /\ \A m \in 0..MaxRetries : queue[d][m] > 0 => m = n
             /\ \A q \in Requests : ~Sending(q, d)'
  BY <1>2 DEF Single
<1>3. ASSUME NEW w \in Workers, AtWork(w)'
      PROVE  /\ task'[w].doc \in pending
             /\ \A v \in Workers : AtWork(v)' /\ task'[v].doc = task'[w].doc => v = w
             /\ \A n \in 0..MaxRetries : queue[task'[w].doc][n] = 0
             /\ \A q \in Requests : ~(request'[q].pc = "dispatch" /\ task'[w].doc \in request'[q].docs)
  <2>1. AtWork(w) /\ task'[w].doc = task[w].doc
    BY <1>3
  <2>2. task[w].doc \in pending /\ \A n \in 0..MaxRetries : queue[task[w].doc][n] = 0
    BY <2>1 DEF Single
  <2>3. \A v \in Workers : AtWork(v)' /\ task'[v].doc = task'[w].doc => v = w
    BY <2>1 DEF Single
  <2>4. \A q \in Requests : ~Sending(q, task[w].doc)
    BY <2>1 DEF Single
  <2>5. task[w].doc \in Docs
    BY <2>2
  <2>6. \A q \in Requests : ~(request'[q].pc = "dispatch" /\ task[w].doc \in request'[q].docs)
    BY <2>4, <2>5 DEF Sending
  <2> QED  BY <2>1, <2>2, <2>3, <2>6
<1>4. \A q \in Requests, d \in Docs : Sending(q, d)' => d \in pending
  BY DEF Single
<1> QED  BY <1>1, <1>2, <1>3, <1>4 DEF Single

\* A step that neither counts, nor settles, nor begins.
LEMMA SameOrder ==
  ASSUME Orderly, UNCHANGED <<phase, sig, total, done, failed, pending, target, config>>,
         AbstractTodo' \subseteq AbstractTodo,
         \A w \in Workers : Settling(w)' => task'[w].pc = task[w].pc /\ task'[w].seen = task[w].seen,
         \A q \in Requests : request'[q].pc = "checked" =>
           request[q].pc = "checked" /\ request'[q].docs = request[q].docs
  PROVE  Orderly'
<1>1. /\ phase' = phase /\ sig' = sig /\ total' = total /\ done' = done /\ failed' = failed
      /\ pending' = pending /\ target' = target /\ config' = config
  OBVIOUS
<1>2. \A w \in Workers : Settling(w)' => Settling(w)
  BY DEF Settling
<1>3. OneFinalizer'
  BY <1>2 DEF Orderly, OneFinalizer, Settling
<1>4. \A w \in Workers : task'[w].pc = "settle" => task'[w].seen = failed
  BY DEF Orderly, Settling
<1>5. \A q \in Requests : request'[q].pc = "checked" =>
        phase \in {"idle", "partial_failed"} /\ AbstractTodo' \subseteq request'[q].docs
  BY DEF Orderly
<1> QED  BY <1>1, <1>2, <1>3, <1>4, <1>5 DEF Orderly

-----------------------------------------------------------------------------
(* The administrator's request                                              *)

LEMMA RequestMigrates ==
  ASSUME TypeOK, Prompt, Single, Orderly, config' = config, AbstractTodo' \subseteq AbstractTodo,
         NEW q \in Requests, TriggerCheck(q) \/ RequestStep(q) \/ TriggerLost(q)
  PROVE  Single' /\ Orderly'
<1>0. /\ request \in [Requests -> RequestStates] /\ request[q] \in RequestStates
      /\ \A r \in Requests : r = q
      /\ pending \in SUBSET Docs /\ queue \in [Docs -> [0..MaxRetries -> Nat]]
      /\ 0 \in 0..MaxRetries
  BY ParametersOK DEF TypeOK, Prompt
<1>1. CASE TriggerCheck(q)
  <2> DEFINE docs == {d \in Docs : status[d] = "parsed" /\ vec[d] # NoChunks}
  <2>1. /\ request'[q].pc = "checked" /\ request'[q].docs = docs
        /\ phase \notin {"running", "finalizing"}
        /\ UNCHANGED <<state, since, config, vec, status, queue, task>>
    BY <1>0, <1>1 DEF TriggerCheck
  <2>2. phase \in {"idle", "partial_failed"}
    BY <2>1 DEF TypeOK, Phases
  <2>3. AbstractTodo' \subseteq docs
    BY <2>1, SentinelsDiffer DEF AbstractTodo, Outdated
  <2>4. Single'
    BY <1>0, <2>1, SameSingle DEF Sending, AtWork, state
  <2>5. Orderly'
    <3>1. \A r \in Requests : request'[r].pc = "checked" =>
            phase' \in {"idle", "partial_failed"} /\ AbstractTodo' \subseteq request'[r].docs
      BY <1>0, <2>1, <2>2, <2>3 DEF state
    <3> QED  BY <2>1, <3>1 DEF Orderly, OneFinalizer, Settling, state
  <2> QED  BY <2>4, <2>5
<1>2. CASE TriggerClear(q) \/ TriggerLost(q)
  <2>1. /\ UNCHANGED <<state, since, config, status, queue, task>>
        /\ \/ request'[q].pc = request[q].pc /\ request'[q].docs = request[q].docs
           \/ request'[q].pc = "none"
    BY <1>0, <1>2 DEF TriggerClear, TriggerLost, RequestStates, NoRequest
  <2>2. \A r \in Requests, d \in Docs : Sending(r, d)' => Sending(r, d)
    BY <1>0, <2>1 DEF Sending
  <2>3. Single'
    BY <1>0, <2>1, <2>2, SameSingle DEF AtWork, state
  <2>4. \A r \in Requests : request'[r].pc = "checked" =>
          request[r].pc = "checked" /\ request'[r].docs = request[r].docs
    BY <1>0, <2>1
  <2> QED  BY <2>1, <2>3, <2>4, SameOrder DEF state
<1>3. CASE TriggerWrite(q)
  <2>1. /\ request[q].pc = "checked" /\ phase' = "running" /\ sig' = config
        /\ total' = Cardinality(request[q].docs) /\ done' = 0 /\ failed' = 0
        /\ pending' = request[q].docs /\ target' = request[q].docs
        /\ UNCHANGED <<config, vec, status, queue, task>>
        /\ request'[q].pc = "dispatch" /\ request'[q].docs = request[q].docs
    BY <1>0, <1>3 DEF TriggerWrite, RequestStates
  <2>2. pending = {} /\ phase \in {"idle", "partial_failed"} /\ AbstractTodo \subseteq request[q].docs
    BY <2>1 DEF Orderly
  <2>3. /\ \A d \in Docs, n \in 0..MaxRetries : queue[d][n] = 0
        /\ \A w \in Workers : ~AtWork(w)
    <3>1. \A d \in Docs, n \in 0..MaxRetries : queue[d][n] \in Nat
      BY <1>0, Zenon
    <3> QED  BY <2>2, <3>1 DEF Single
  <2>4. Single'
    BY <1>0, <2>1, <2>3 DEF Single, AtWork, Sending
  <2>5. \A w \in Workers : ~Settling(w)
    BY <2>2 DEF Orderly
  <2>6. Cardinality(request[q].docs) \in Nat
    BY <1>0, DocsFinite, FS_Subset, FS_CardinalityType DEF RequestStates
  <2>7. total' = done' + failed' + Cardinality(pending')
    BY <2>1, <2>6
  <2>8. \A r \in Requests : request'[r].pc # "checked"
    BY <1>0, <2>1
  <2>9. AbstractTodo' \subseteq target'
    BY <2>1, <2>2
  <2> QED  BY <2>1, <2>4, <2>5, <2>7, <2>8, <2>9 DEF Orderly, OneFinalizer, Settling
<1>4. CASE TriggerDispatch(q)
  <2>1. PICK d \in request[q].docs :
          /\ queue' = Sent({d}, 0)
          /\ request' = [request EXCEPT ![q] = AfterSending(q, d)]
    BY <1>4 DEF TriggerDispatch
  <2>2. /\ d \in Docs /\ Sending(q, d) /\ request[q].pc = "dispatch"
        /\ UNCHANGED <<state, since, config, vec, status, task>>
    BY <1>0, <1>4, <2>1 DEF TriggerDispatch, RequestStates, Sending
  <2>3. \A e \in Docs : Sending(q, e)' => Sending(q, e) /\ e # d
    <3>1. request'[q] = AfterSending(q, d)
      BY <1>0, <2>1
    <3>2. CASE request[q].docs = {d}
      BY <3>1, <3>2 DEF AfterSending, NoRequest, Sending
    <3>3. CASE request[q].docs # {d}
      <4>1. request'[q].docs = request[q].docs \ {d} /\ request'[q].pc = request[q].pc
        BY <1>0, <3>1, <3>3 DEF AfterSending, RequestStates
      <4> QED  BY <4>1 DEF Sending
    <3> QED  BY <3>2, <3>3
  <2>4. /\ \A e \in Docs \ {d} : queue'[e] = queue[e]
        /\ \A n \in 0..MaxRetries : queue'[d][n] = IF n = 0 THEN queue[d][n] + 1 ELSE queue[d][n]
    <3>1. queue'[d] = [queue[d] EXCEPT ![0] = queue[d][0] + 1] /\ \A e \in Docs \ {d} : queue'[e] = queue[e]
      BY <2>1, <2>2 DEF Sent
    <3>2. queue[d] \in [0..MaxRetries -> Nat]
      BY <1>0, <2>2
    <3> QED  BY <1>0, <3>1, <3>2
  <2>5. \A n \in 0..MaxRetries : queue[d][n] = 0
    <3>1. \A n \in 0..MaxRetries : queue[d][n] \in Nat
      BY <1>0, <2>2, Zenon
    <3> QED  BY <2>2, <3>1 DEF Single
  <2>6. d \in pending
    BY <2>2 DEF Single
  <2>7. \A n \in 0..MaxRetries : queue'[d][n] = IF n = 0 THEN 1 ELSE 0
    BY <2>4, <2>5
  <2>8. \A w \in Workers : AtWork(w) => task[w].doc # d
    BY <2>2 DEF Single
  <2>9. /\ pending' = pending /\ task' = task
    BY <2>2 DEF state
  <2>10. ASSUME NEW e \in Docs, NEW n \in 0..MaxRetries, queue'[e][n] > 0
         PROVE  /\ queue'[e][n] = 1 /\ e \in pending
                /\ \A m \in 0..MaxRetries : queue'[e][m] > 0 => m = n
                /\ \A r \in Requests : ~Sending(r, e)'
    <3>1. CASE e = d
      BY <1>0, <2>3, <2>6, <2>7, <2>10, <3>1
    <3>2. CASE e # d
      BY <1>0, <2>3, <2>4, <2>10, <3>2 DEF Single
    <3> QED  BY <3>1, <3>2
  <2>11. ASSUME NEW w \in Workers, AtWork(w)
         PROVE  /\ task[w].doc \in pending
                /\ \A v \in Workers : AtWork(v) /\ task[v].doc = task[w].doc => v = w
                /\ \A n \in 0..MaxRetries : queue'[task[w].doc][n] = 0
                /\ \A r \in Requests :
                     ~(request'[r].pc = "dispatch" /\ task[w].doc \in request'[r].docs)
    <3>1. task[w].doc \in Docs \ {d} /\ task[w].doc \in pending
      BY <1>0, <2>8, <2>11 DEF Single
    <3>2. queue'[task[w].doc] = queue[task[w].doc]
      BY <2>4, <3>1
    <3>3. \A r \in Requests : ~(request'[r].pc = "dispatch" /\ task[w].doc \in request'[r].docs)
      <4>1. ~Sending(q, task[w].doc)
        BY <2>11 DEF Single
      <4> QED  BY <1>0, <2>3, <3>1, <4>1 DEF Sending
    <3>4. \A v \in Workers : AtWork(v) /\ task[v].doc = task[w].doc => v = w
      BY <2>11 DEF Single
    <3>5. \A n \in 0..MaxRetries : queue'[task[w].doc][n] = 0
      BY <2>11, <3>2 DEF Single
    <3> QED  BY <3>1, <3>3, <3>4, <3>5
  <2>12. Single'
    <3>1. \A r \in Requests, e \in Docs : Sending(r, e)' => e \in pending
      BY <1>0, <2>3 DEF Single
    <3>2. \A w \in Workers : AtWork(w)' <=> AtWork(w)
      BY <2>9 DEF AtWork
    <3> QED  BY <2>9, <2>10, <2>11, <3>1, <3>2 DEF Single, Sending
  <2>13. \A r \in Requests : request'[r].pc # "checked"
    <3>1. request'[q] = AfterSending(q, d)
      BY <1>0, <2>1
    <3>2. AfterSending(q, d).pc # "checked"
      BY <1>0, <2>2 DEF AfterSending, NoRequest, RequestStates
    <3> QED  BY <1>0, <3>1, <3>2
  <2>14. Orderly'
    BY <2>2, <2>13, SameOrder DEF state, Settling
  <2> QED  BY <2>12, <2>14
<1> QED  BY <1>1, <1>2, <1>3, <1>4 DEF RequestStep

-----------------------------------------------------------------------------
(* The tasks                                                                *)

\* A worker takes a message, and may put one back.
LEMMA QueueMigrates ==
  ASSUME TypeOK, Prompt, Single, Orderly, config' = config, AbstractTodo' \subseteq AbstractTodo,
         NEW w \in Workers, Take(w) \/ EmbedError(w)
  PROVE  Single' /\ Orderly'
<1>0. /\ task \in [Workers -> Tasks] /\ task[w] \in Tasks
      /\ pending \in SUBSET Docs /\ queue \in [Docs -> [0..MaxRetries -> Nat]]
      /\ \A d \in Docs : queue[d] \in [0..MaxRetries -> Nat]
  BY DEF TypeOK
<1>1. \A d \in Docs, n \in 0..MaxRetries : queue[d][n] \in Nat
  BY <1>0, Zenon
<1>2. ASSUME NEW d \in Docs, NEW n \in 0..MaxRetries, Start(w, d, n)
      PROVE  Single' /\ Orderly'
  <2>0. queue[d][n] > 0 /\ task[w].pc = "free" /\ UNCHANGED <<state, since, config, request>>
    BY <1>2 DEF Start
  <2>1. /\ queue[d][n] = 1 /\ d \in pending
        /\ \A m \in 0..MaxRetries : queue[d][m] > 0 => m = n
        /\ \A q \in Requests : ~Sending(q, d)
    BY <2>0 DEF Single
  <2>2. phase = "running"
    BY <2>1 DEF Orderly
  <2>3. /\ task'[w].pc = "embed" /\ task'[w].doc = d
        /\ \A v \in Workers \ {w} : task'[v] = task[v]
    BY <1>0, <1>2, <2>2 DEF Start
  <2>4. /\ \A e \in Docs \ {d} : queue'[e] = queue[e]
        /\ \A m \in 0..MaxRetries : queue'[d][m] = IF m = n THEN queue[d][m] - 1 ELSE queue[d][m]
    <3>1. queue'[d] = [queue[d] EXCEPT ![n] = queue[d][n] - 1] /\ \A e \in Docs \ {d} : queue'[e] = queue[e]
      BY <1>0, <1>2 DEF Start
    <3> QED  BY <1>0, <3>1
  <2>5. \A m \in 0..MaxRetries : queue'[d][m] = 0
    <3> SUFFICES ASSUME NEW m \in 0..MaxRetries PROVE queue'[d][m] = 0
      OBVIOUS
    <3>1. queue[d][m] \in Nat /\ (queue[d][m] > 0 => m = n)
      BY <1>1, <2>1
    <3> QED  BY <2>1, <2>4, <3>1
  <2>6. \A v \in Workers : AtWork(v) => task[v].doc # d
    BY <2>0 DEF Single
  <2>7. pending' = pending /\ request' = request
    BY <2>0 DEF state
  <2>8. ASSUME NEW e \in Docs, NEW m \in 0..MaxRetries, queue'[e][m] > 0
        PROVE  /\ queue'[e][m] = 1 /\ e \in pending
               /\ \A i \in 0..MaxRetries : queue'[e][i] > 0 => i = m
               /\ \A q \in Requests : ~Sending(q, e)
    <3>1. e # d
      BY <2>5, <2>8
    <3>2. queue'[e] = queue[e]
      BY <2>4, <3>1
    <3> QED  BY <2>8, <3>2 DEF Single
  <2>9. ASSUME NEW v \in Workers, AtWork(v)'
        PROVE  /\ task'[v].doc \in pending
               /\ \A u \in Workers : AtWork(u)' /\ task'[u].doc = task'[v].doc => u = v
               /\ \A m \in 0..MaxRetries : queue'[task'[v].doc][m] = 0
               /\ \A q \in Requests : ~(request[q].pc = "dispatch" /\ task'[v].doc \in request[q].docs)
    <3>1. \A u \in Workers \ {w} : AtWork(u)' => AtWork(u) /\ task'[u].doc # d
      BY <2>3, <2>6 DEF AtWork
    <3>2. CASE v = w
      BY <2>1, <2>3, <2>5, <3>1, <3>2 DEF Sending
    <3>3. CASE v # w
      <4>1. AtWork(v) /\ task'[v].doc = task[v].doc /\ task[v].doc # d /\ task[v].doc \in Docs
        BY <1>0, <2>3, <2>9, <3>1, <3>3 DEF Single
      <4>2. \A m \in 0..MaxRetries : queue'[task[v].doc][m] = 0
        BY <2>4, <4>1 DEF Single
      <4>3. \A u \in Workers : AtWork(u)' /\ task'[u].doc = task[v].doc => u = v
        BY <2>3, <3>1, <4>1 DEF Single
      <4> QED  BY <4>1, <4>2, <4>3 DEF Single, Sending
    <3> QED  BY <3>2, <3>3
  <2>10. \A q \in Requests, e \in Docs : Sending(q, e) => e \in pending
    BY DEF Single
  <2>11. Single'
    BY <2>7, <2>8, <2>9, <2>10 DEF Single, Sending
  <2>12. \A v \in Workers : Settling(v)' => task'[v].pc = task[v].pc /\ task'[v].seen = task[v].seen
    BY <2>3 DEF Settling
  <2>13. Orderly'
    BY <2>0, <2>12, SameOrder DEF state
  <2> QED  BY <2>11, <2>13
<1>3. CASE EmbedError(w)
  <2> DEFINE d == task[w].doc
             n == task[w].tries
  <2>1. AtWork(w) /\ UNCHANGED <<state, config, request>>
    BY <1>3 DEF EmbedError, AtWork
  <2>2. /\ d \in pending
        /\ \A v \in Workers : AtWork(v) /\ task[v].doc = d => v = w
        /\ \A m \in 0..MaxRetries : queue[d][m] = 0
        /\ \A q \in Requests : ~Sending(q, d)
    BY <2>1 DEF Single
  <2>3. pending' = pending /\ request' = request /\ d \in Docs
    BY <1>0, <2>1, <2>2 DEF state
  <2>4. CASE Goto(w, "fail") /\ UNCHANGED <<queue, since>>
    <3>1. /\ task'[w].pc = "fail" /\ task'[w].doc = task[w].doc
          /\ \A v \in Workers \ {w} : task'[v] = task[v]
      BY <1>0, <2>4 DEF Goto, Tasks
    <3>2. \A v \in Workers : AtWork(v)' => AtWork(v) /\ task'[v].doc = task[v].doc
      BY <2>1, <3>1 DEF AtWork
    <3>3. \A v \in Workers : Settling(v)' => task'[v].pc = task[v].pc /\ task'[v].seen = task[v].seen
      BY <3>1 DEF Settling
    <3>4. Single'
      BY <1>0, <2>3, <2>4, <3>2, SameSingle DEF Sending
    <3> QED  BY <2>1, <3>3, <3>4, SameOrder DEF state
  <2>5. CASE n < MaxRetries /\ queue' = Sent({d}, n + 1) /\ Release(w)
    <3>1. n + 1 \in 0..MaxRetries
      BY <1>0, <2>5, ParametersOK DEF Tasks
    <3> DEFINE k == n + 1
    <3> HIDE DEF d, n
    <3>2. /\ \A e \in Docs \ {d} : queue'[e] = queue[e]
          /\ \A m \in 0..MaxRetries : queue'[d][m] = IF m = k THEN queue[d][m] + 1 ELSE queue[d][m]
      <4>1. k \in 0..MaxRetries
        BY <3>1
      <4> HIDE DEF k
      <4>2. queue' = Sent({d}, k)
        BY <2>5 DEF k
      <4>3. queue'[d] = [queue[d] EXCEPT ![k] = queue[d][k] + 1] /\ \A e \in Docs \ {d} : queue'[e] = queue[e]
        BY <2>3, <4>2 DEF Sent
      <4>4. queue[d] \in [0..MaxRetries -> Nat]
        BY <1>0, <2>3
      <4> QED  BY <4>1, <4>3, <4>4
    <3>3. \A m \in 0..MaxRetries : queue'[d][m] = IF m = k THEN 1 ELSE 0
      BY <2>2, <3>2
    <3>4. /\ task'[w] = Idle /\ \A v \in Workers \ {w} : task'[v] = task[v]
      BY <1>0, <2>5 DEF Release
    <3>5. \A v \in Workers : AtWork(v)' => v # w /\ AtWork(v) /\ task'[v] = task[v] /\ task[v].doc # d
      BY <2>2, <3>4 DEF AtWork, Idle
    <3>6. ASSUME NEW e \in Docs, NEW m \in 0..MaxRetries, queue'[e][m] > 0
          PROVE  /\ queue'[e][m] = 1 /\ e \in pending
                 /\ \A i \in 0..MaxRetries : queue'[e][i] > 0 => i = m
                 /\ \A q \in Requests : ~Sending(q, e)
      <4>1. CASE e = d
        BY <2>2, <3>3, <3>6, <4>1
      <4>2. CASE e # d
        <5>1. queue'[e] = queue[e]
          BY <3>2, <4>2
        <5> QED  BY <3>6, <5>1 DEF Single
      <4> QED  BY <4>1, <4>2
    <3>7. ASSUME NEW v \in Workers, AtWork(v)'
          PROVE  /\ task'[v].doc \in pending
                 /\ \A u \in Workers : AtWork(u)' /\ task'[u].doc = task'[v].doc => u = v
                 /\ \A m \in 0..MaxRetries : queue'[task'[v].doc][m] = 0
                 /\ \A q \in Requests : ~(request[q].pc = "dispatch" /\ task'[v].doc \in request[q].docs)
      <4>1. AtWork(v) /\ task'[v] = task[v] /\ task[v].doc # d
        BY <3>5, <3>7
      <4>2. task[v].doc \in Docs /\ queue'[task[v].doc] = queue[task[v].doc]
        BY <1>0, <3>2, <4>1 DEF Single
      <4>3. \A u \in Workers : AtWork(u)' /\ task'[u].doc = task[v].doc => u = v
        BY <3>5, <4>1 DEF Single
      <4> QED  BY <4>1, <4>2, <4>3 DEF Single, Sending
    <3>8. \A q \in Requests, e \in Docs : Sending(q, e) => e \in pending
      BY DEF Single
    <3>9. Single'
      BY <2>3, <3>6, <3>7, <3>8 DEF Single, Sending
    <3>10. \A v \in Workers : Settling(v)' => task'[v].pc = task[v].pc /\ task'[v].seen = task[v].seen
      BY <3>4 DEF Settling, Idle
    <3> QED  BY <2>1, <3>9, <3>10, SameOrder DEF state
  <2> QED  BY <1>3, <2>4, <2>5 DEF EmbedError, RetryOrFail
<1> QED  BY <1>2, <1>3 DEF Take

\* A document is struck off once.
LEMMA CountMigrates ==
  ASSUME TypeOK, Prompt, Single, Orderly, config' = config, AbstractTodo' \subseteq AbstractTodo,
         NEW w \in Workers, CountDone(w) \/ CountFailed(w)
  PROVE  Single' /\ Orderly'
<1> DEFINE d == task[w].doc
<1>0. /\ task \in [Workers -> Tasks] /\ task[w] \in Tasks /\ pending \in SUBSET Docs
      /\ total \in Nat /\ done \in Nat /\ failed \in Nat
  BY DEF TypeOK
<1>1. /\ AtWork(w) /\ pending' = pending \ {d} /\ total' = total /\ phase' = phase /\ sig' = sig
      /\ UNCHANGED <<target, config, queue, request>>
      /\ \/ done' = done + 1 /\ failed' = failed
         \/ done' = done /\ failed' = failed + 1
  BY DEF CountDone, CountFailed, AtWork
<1>2. /\ task'[w].pc = "claim" /\ \A v \in Workers \ {w} : task'[v] = task[v]
  BY <1>0 DEF CountDone, CountFailed, Goto, Tasks
<1>3. /\ d \in pending
      /\ \A v \in Workers : AtWork(v) /\ task[v].doc = d => v = w
      /\ \A n \in 0..MaxRetries : queue[d][n] = 0
      /\ \A q \in Requests : ~Sending(q, d)
  BY <1>1 DEF Single
<1> HIDE DEF d
<1>4. phase = "running"
  BY <1>3 DEF Orderly
<1>5. \A v \in Workers : AtWork(v)' => v # w /\ AtWork(v) /\ task'[v] = task[v] /\ task[v].doc # d
  BY <1>2, <1>3 DEF AtWork
<1>6. Single'
  <2>1. ASSUME NEW e \in Docs, NEW n \in 0..MaxRetries, queue[e][n] > 0
        PROVE  /\ queue[e][n] = 1 /\ e \in pending \ {d}
               /\ \A m \in 0..MaxRetries : queue[e][m] > 0 => m = n
               /\ \A q \in Requests : ~Sending(q, e)
    <3>1. e # d
      BY <1>3, <2>1
    <3> QED  BY <2>1, <3>1 DEF Single
  <2>2. ASSUME NEW v \in Workers, AtWork(v)'
        PROVE  /\ task'[v].doc \in pending \ {d}
               /\ \A u \in Workers : AtWork(u)' /\ task'[u].doc = task'[v].doc => u = v
               /\ \A n \in 0..MaxRetries : queue[task'[v].doc][n] = 0
               /\ \A q \in Requests : ~(request[q].pc = "dispatch" /\ task'[v].doc \in request[q].docs)
    <3>1. AtWork(v) /\ task'[v] = task[v] /\ task[v].doc # d
      BY <1>5, <2>2
    <3>2. \A u \in Workers : AtWork(u)' /\ task'[u].doc = task[v].doc => u = v
      BY <1>5, <3>1 DEF Single
    <3> QED  BY <3>1, <3>2 DEF Single, Sending
  <2>3. \A q \in Requests, e \in Docs : Sending(q, e) => e \in pending \ {d}
    BY <1>3 DEF Single
  <2> QED  BY <1>1, <2>1, <2>2, <2>3 DEF Single, Sending
<1>7. total' = done' + failed' + Cardinality(pending')
  <2>1. IsFiniteSet(pending)
    BY <1>0, DocsFinite, FS_Subset
  <2>2. Cardinality(pending) \in Nat /\ Cardinality(pending') = Cardinality(pending) - 1
    BY <1>1, <1>3, <2>1, FS_RemoveElement, FS_CardinalityType
  <2>3. total = done + failed + Cardinality(pending)
    BY DEF Orderly
  <2> QED  BY <1>0, <1>1, <2>2, <2>3
<1>8. \A v \in Workers : ~Settling(v)'
  BY <1>2, <1>4 DEF Orderly, Settling
<1>9. AbstractTodo' \subseteq target'
  BY <1>1, <1>4 DEF Orderly
<1>10. \A q \in Requests : request'[q].pc # "checked"
  BY <1>1, <1>4 DEF Orderly
<1> QED  BY <1>1, <1>4, <1>6, <1>7, <1>8, <1>9, <1>10 DEF Orderly, OneFinalizer, Settling

\* The run is claimed when it is complete, and settled by what failed.
LEMMA FinalizeMigrates ==
  ASSUME TypeOK, Prompt, Single, Orderly, StruckOffMigrated, used["restart"] = 0, config' = config,
         AbstractTodo' \subseteq AbstractTodo,
         NEW w \in Workers, Claim(w) \/ ReadSummary(w) \/ Settle(w) \/ RecoverFinalize(w)
  PROVE  Single' /\ Orderly'
<1>0. /\ task \in [Workers -> Tasks] /\ task[w] \in Tasks /\ pending \in SUBSET Docs
      /\ total \in Nat /\ done \in Nat /\ failed \in Nat
      /\ IsFiniteSet(pending) /\ Cardinality(pending) \in Nat
  <2>1. IsFiniteSet(pending)
    BY DocsFinite, FS_Subset DEF TypeOK
  <2> QED  BY <2>1, FS_CardinalityType DEF TypeOK
<1>1. /\ UNCHANGED <<total, done, failed, pending, target, config, queue, request>>
      /\ task'[w].pc \in {"free", "summary", "settle"}
      /\ \A v \in Workers \ {w} : task'[v] = task[v]
  BY <1>0 DEF Claim, ReadSummary, Settle, SettleAs, RecoverFinalize, Goto, Release, Idle, Tasks, state
<1>2. Single'
  <2>1. \A v \in Workers : AtWork(v)' => AtWork(v) /\ task'[v].doc = task[v].doc
    BY <1>1 DEF AtWork
  <2> QED  BY <1>0, <1>1, <2>1, SameSingle DEF Sending
<1>3. CASE Claim(w) /\ ~(phase = "running" /\ AllIn)
  <2>1. task'[w].pc = "free" /\ UNCHANGED <<phase, sig>>
    BY <1>0, <1>3 DEF Claim, Release, Idle
  <2>2. \A v \in Workers : Settling(v)' => task'[v].pc = task[v].pc /\ task'[v].seen = task[v].seen
    BY <1>1, <2>1 DEF Settling
  <2> QED  BY <1>1, <1>2, <2>1, <2>2, SameOrder
<1>4. CASE Claim(w) /\ phase = "running" /\ AllIn
  <2>1. task'[w].pc = "summary" /\ phase' = "finalizing" /\ sig' = sig
    BY <1>0, <1>4 DEF Claim, Goto, Tasks
  <2>2. pending = {}
    <3>1. done + failed >= total /\ total = done + failed + Cardinality(pending)
      BY <1>4 DEF AllIn, Orderly
    <3>2. Cardinality(pending) = 0
      BY <1>0, <3>1
    <3> QED  BY <1>0, <3>2, FS_EmptySet
  <2>3. \A v \in Workers : Settling(v)' => v = w
    BY <1>1, <1>4, <2>1 DEF Orderly, Settling
  <2>4. AbstractTodo' \subseteq target /\ \A q \in Requests : request[q].pc # "checked"
    BY <1>4 DEF Orderly
  <2>5. \A v \in Workers : task'[v].pc # "settle"
    BY <2>1, <2>3 DEF Settling
  <2>6. total = done + failed + Cardinality(pending)
    BY DEF Orderly
  <2> QED  BY <1>1, <1>2, <2>1, <2>2, <2>3, <2>4, <2>5, <2>6 DEF Orderly, OneFinalizer, Settling
<1>5. CASE ReadSummary(w)
  <2>1. /\ Settling(w) /\ task'[w].pc = "settle" /\ task'[w].seen = failed /\ UNCHANGED <<phase, sig>>
    BY <1>0, <1>5 DEF ReadSummary, Settling, Tasks, state
  <2>2. phase = "finalizing" /\ \A v \in Workers : Settling(v) => v = w
    BY <2>1 DEF Orderly, OneFinalizer, Settling
  <2>3. \A v \in Workers : Settling(v)' => v = w
    BY <1>1, <2>2 DEF Settling
  <2>4. \A v \in Workers : task'[v].pc = "settle" => task'[v].seen = failed
    BY <2>1, <2>3 DEF Settling
  <2>5. AbstractTodo' \subseteq target /\ \A q \in Requests : request[q].pc # "checked"
    BY <2>2 DEF Orderly
  <2>6. total = done + failed + Cardinality(pending) /\ pending = {}
    BY <2>2 DEF Orderly
  <2> QED  BY <1>1, <1>2, <2>1, <2>2, <2>3, <2>4, <2>5, <2>6 DEF Orderly, OneFinalizer, Settling
<1>6. CASE Settle(w)
  <2>1. /\ task[w].pc = "settle" /\ task'[w].pc = "free" /\ sig' = config
        /\ phase' = IF task[w].seen = 0 THEN "idle" ELSE "partial_failed"
    BY <1>0, <1>6 DEF Settle, SettleAs, Idle
  <2>2. /\ phase = "finalizing" /\ task[w].seen = failed /\ pending = {} /\ AbstractTodo \subseteq target
        /\ \A v \in Workers : Settling(v) => v = w
        /\ \A q \in Requests : request[q].pc # "checked"
        /\ total = done + failed + Cardinality(pending)
    BY <2>1 DEF Orderly, OneFinalizer, Settling
  <2>3. \A v \in Workers : ~Settling(v)'
    BY <1>1, <2>1, <2>2 DEF Settling
  <2>4. failed = 0 => AbstractTodo = {}
    <3>1. Cardinality(Strayed) <= failed
      BY DEF StruckOffMigrated, Strayed
    <3>2. IsFiniteSet(Strayed) /\ Cardinality(Strayed) \in Nat
      <4>1. Strayed \in SUBSET Docs
        BY DEF Strayed, TypeOK
      <4> QED  BY <4>1, DocsFinite, FS_Subset, FS_CardinalityType
    <3>3. failed = 0 => Strayed = {}
      <4>1. failed = 0 => Cardinality(Strayed) = 0
        BY <3>1, <3>2
      <4> QED  BY <3>2, <4>1, FS_EmptySet
    <3>4. AbstractTodo \subseteq Strayed
      BY <2>2 DEF Strayed, AbstractTodo
    <3> QED  BY <3>3, <3>4
  <2>5. phase' = "idle" => AbstractTodo' = {}
    BY <2>1, <2>2, <2>4
  <2>6. phase' \notin {"running", "finalizing"} /\ phase' # "running"
    BY <2>1
  <2> QED  BY <1>1, <1>2, <2>1, <2>2, <2>3, <2>5, <2>6 DEF Orderly, OneFinalizer, Settling
<1>7. CASE RecoverFinalize(w)
  <2>1. /\ phase = "finalizing" /\ FinalizeStale /\ task'[w].pc = "summary" /\ UNCHANGED <<phase, sig>>
    BY <1>0, <1>7 DEF RecoverFinalize, Goto, Tasks, state
  <2>2. \A v \in Workers : ~Settling(v)
    BY <2>1 DEF FinalizeStale, Prompt, Settling
  <2>3. \A v \in Workers : Settling(v)' => v = w
    BY <1>1, <2>2 DEF Settling
  <2>4. \A v \in Workers : task'[v].pc # "settle"
    BY <2>1, <2>3 DEF Settling
  <2>5. AbstractTodo' \subseteq target /\ \A q \in Requests : request[q].pc # "checked"
    BY <2>1 DEF Orderly
  <2>6. total = done + failed + Cardinality(pending) /\ pending = {}
    BY <2>1 DEF Orderly
  <2> QED  BY <1>1, <1>2, <2>1, <2>3, <2>4, <2>5, <2>6 DEF Orderly, OneFinalizer, Settling
<1> QED  BY <1>3, <1>4, <1>5, <1>6, <1>7

\* Embedding, time limits, lost tasks and the parse task leave all this alone.
LEMMA QuietMigrates ==
  ASSUME TypeOK, Prompt, Single, Orderly, config' = config, AbstractTodo' \subseteq AbstractTodo,
         \/ \E w \in Workers : Embed(w) \/ EmbedTimeout(w) \/ TaskLost(w)
         \/ \E d \in Docs : ReparseStart(d) \/ ReparseClear(d) \/ ReparseDone(d) \/ ReparseFailed(d)
         \/ UNCHANGED vars
  PROVE  Single' /\ Orderly'
<1>0. task \in [Workers -> Tasks] /\ pending \in SUBSET Docs
  BY DEF TypeOK
<1>1. UNCHANGED <<state, queue, request>>
  BY DEF Embed, EmbedTimeout, TaskLost, ReparseStart, ReparseClear, ReparseDone, ReparseFailed, vars
<1>2. \A v \in Workers :
        /\ AtWork(v)' => AtWork(v) /\ task'[v].doc = task[v].doc
        /\ Settling(v)' => task'[v].pc = task[v].pc /\ task'[v].seen = task[v].seen
  <2>1. ASSUME NEW w \in Workers, Embed(w) \/ EmbedTimeout(w) \/ TaskLost(w), NEW v \in Workers
        PROVE  /\ AtWork(v)' => AtWork(v) /\ task'[v].doc = task[v].doc
               /\ Settling(v)' => task'[v].pc = task[v].pc /\ task'[v].seen = task[v].seen
    <3>1. CASE v # w
      BY <1>0, <2>1, <3>1 DEF Embed, EmbedTimeout, TaskLost, Goto, Release, AtWork, Settling
    <3>2. CASE v = w /\ ~TaskLost(w)
      <4>1. task[w].pc = "embed" /\ task'[w].pc \in {"count", "fail"} /\ task'[w].doc = task[w].doc
        BY <1>0, <2>1, <3>2 DEF Embed, EmbedTimeout, Goto, Tasks
      <4> QED  BY <3>2, <4>1 DEF AtWork, Settling
    <3>3. CASE v = w /\ TaskLost(w)
      <4>1. task'[w].pc = "free"
        BY <1>0, <3>3 DEF TaskLost, Release, Idle
      <4> QED  BY <3>3, <4>1 DEF AtWork, Settling
    <3> QED  BY <3>1, <3>2, <3>3
  <2>2. ASSUME NEW d \in Docs, ReparseStart(d) \/ ReparseClear(d) \/ ReparseDone(d) \/ ReparseFailed(d),
               NEW v \in Workers
        PROVE  task'[v].pc = task[v].pc /\ task'[v].seen = task[v].seen /\ task'[v].doc = task[v].doc
    BY <1>0, <2>2 DEF ReparseStart, ReparseClear, ReparseDone, ReparseFailed, Tasks
  <2>3. CASE UNCHANGED vars
    BY <2>3 DEF vars, AtWork, Settling
  <2> QED  BY <2>1, <2>2, <2>3 DEF AtWork, Settling
<1>3. Single'
  BY <1>0, <1>1, <1>2, SameSingle DEF state, Sending
<1>4. Orderly'
  BY <1>1, <1>2, SameOrder DEF state
<1> QED  BY <1>3, <1>4

\* The beat task redispatches when nothing asks for a document any more.
LEMMA RedispatchMigrates ==
  ASSUME TypeOK, Prompt, Single, Orderly, config' = config, AbstractTodo' \subseteq AbstractTodo,
         NEW v \in Workers, Redispatch(v)
  PROVE  Single' /\ Orderly'
<1>0. /\ queue \in [Docs -> [0..MaxRetries -> Nat]] /\ pending \in SUBSET Docs
      /\ 0 \in 0..MaxRetries
  BY ParametersOK DEF TypeOK
<1>1. PICK S \in SUBSET pending : queue' = Sent(S, 0)
  BY DEF Redispatch
<1>2. UNCHANGED <<state, config, task, request>>
  BY DEF Redispatch
<1>3. /\ Busy(task) = {} /\ \A d \in Docs, n \in 0..MaxRetries : queue[d][n] = 0
      /\ \A q \in Requests : request[q].pc # "dispatch"
  BY DEF Redispatch, RunStale, Prompt
<1>4. \A w \in Workers : ~AtWork(w)
  BY <1>3 DEF Busy, AtWork
<1>5. ASSUME NEW d \in Docs, NEW n \in 0..MaxRetries
      PROVE  queue'[d][n] = IF d \in S /\ n = 0 THEN 1 ELSE 0
  <2>1. queue'[d] = IF d \in S THEN [queue[d] EXCEPT ![0] = queue[d][0] + 1] ELSE queue[d]
    BY <1>1 DEF Sent
  <2>2. queue[d] \in [0..MaxRetries -> Nat] /\ queue[d][n] = 0 /\ queue[d][0] = 0
    BY <1>0, <1>3
  <2> QED  BY <1>0, <2>1, <2>2
<1>6. Single'
  <2>1. pending' = pending /\ task' = task /\ request' = request
    BY <1>2 DEF state
  <2>2. ASSUME NEW d \in Docs, NEW n \in 0..MaxRetries, queue'[d][n] > 0
        PROVE  /\ queue'[d][n] = 1 /\ d \in pending
               /\ \A m \in 0..MaxRetries : queue'[d][m] > 0 => m = n
    BY <1>5, <2>2
  <2>3. (\A w \in Workers : ~AtWork(w)') /\ \A q \in Requests, d \in Docs : ~Sending(q, d)'
    BY <1>3, <1>4, <2>1 DEF AtWork, Sending
  <2>4. \A w \in Workers : ~(task'[w].pc \in {"embed", "count", "fail"})
    BY <2>3 DEF AtWork
  <2>5. \A q \in Requests : ~(request'[q].pc = "dispatch")
    BY <1>3, <2>1
  <2> QED  BY <2>1, <2>2, <2>4, <2>5 DEF Single, AtWork, Sending
<1>7. Orderly'
  BY <1>2, SameOrder DEF state, Settling
<1> QED  BY <1>6, <1>7

LEMMA NextMigrates ==
  ASSUME TypeOK, Prompt, StruckOffMigrated, MigrationInv, [Next]_vars
  PROVE  MigrationInv'
<1>1. /\ Single /\ Orderly /\ used["restart"] = 0
      /\ \A w \in Workers : ~LateError(w)
      /\ \A c \in Channels : ~Restart(c)
      /\ used'["restart"] = 0 /\ config' = config
      /\ AbstractTodo' \subseteq AbstractTodo
  BY Calm, TodoShrinks DEF MigrationInv
<1> SUFFICES Single' /\ Orderly'
  BY <1>1 DEF MigrationInv
<1>2. ASSUME NEW q \in Requests, TriggerCheck(q) \/ RequestStep(q) \/ TriggerLost(q)
      PROVE  Single' /\ Orderly'
  BY <1>1, <1>2, RequestMigrates
<1>3. ASSUME NEW w \in Workers, TaskStep(w)
      PROVE  Single' /\ Orderly'
  <2>1. CASE Embed(w)
    BY <1>1, <2>1, QuietMigrates
  <2>2. CASE CountDone(w) \/ CountFailed(w)
    BY <1>1, <2>2, CountMigrates
  <2>3. CASE Claim(w) \/ ReadSummary(w) \/ Settle(w)
    BY <1>1, <2>3, FinalizeMigrates
  <2> QED  BY <1>3, <2>1, <2>2, <2>3 DEF TaskStep
<1>4. ASSUME NEW w \in Workers, Take(w) \/ EmbedError(w)
      PROVE  Single' /\ Orderly'
  BY <1>1, <1>4, QueueMigrates
<1>5. ASSUME NEW w \in Workers, EmbedTimeout(w) \/ TaskLost(w)
      PROVE  Single' /\ Orderly'
  BY <1>1, <1>5, QuietMigrates
<1>6. ASSUME NEW w \in Workers, Redispatch(w) \/ RecoverFinalize(w)
      PROVE  Single' /\ Orderly'
  BY <1>1, <1>6, RedispatchMigrates, FinalizeMigrates
<1>7. ASSUME NEW d \in Docs,
             ReparseStart(d) \/ ReparseClear(d) \/ ReparseDone(d) \/ ReparseFailed(d)
      PROVE  Single' /\ Orderly'
  <2>1. \E e \in Docs :
          ReparseStart(e) \/ ReparseClear(e) \/ ReparseDone(e) \/ ReparseFailed(e)
    BY <1>7
  <2> QED  BY <1>1, <2>1, QuietMigrates
<1>8. CASE UNCHANGED vars
  BY <1>1, <1>8, QuietMigrates
<1>9. CASE Beat
  BY <1>6, <1>9 DEF Beat
<1>10. CASE Environment
  BY <1>1, <1>7, <1>10 DEF Environment
<1>11. CASE \E w \in Workers :
              \/ Take(w) \/ TaskStep(w)
              \/ EmbedError(w) \/ EmbedTimeout(w) \/ LateError(w) \/ TaskLost(w)
  BY <1>1, <1>3, <1>4, <1>5, <1>11
<1>12. CASE \E q \in Requests : TriggerCheck(q) \/ RequestStep(q) \/ TriggerLost(q)
  BY <1>2, <1>12
<1> QED  BY <1>8, <1>9, <1>10, <1>11, <1>12 DEF Next

LEMMA InitMigrates ==
  ASSUME Init
  PROVE  MigrationInv
<1>1. /\ phase = "idle" /\ total = 0 /\ done = 0 /\ failed = 0 /\ pending = {} /\ used["restart"] = 0
      /\ \A d \in Docs, n \in 0..MaxRetries : queue[d][n] = 0
      /\ \A w \in Workers : task[w].pc = "free"
      /\ \A q \in Requests : request[q].pc = "none"
  BY DEF Init, Idle, NoRequest, Events
<1>2. Single
  BY <1>1 DEF Single, AtWork, Sending
<1>3. total = done + failed + Cardinality(pending)
  BY <1>1, FS_EmptySet
<1>4. sig = config => AbstractTodo = {}
  BY SentinelsDiffer DEF Init, AbstractTodo, Outdated
<1> QED  BY <1>1, <1>2, <1>3, <1>4 DEF MigrationInv, Orderly, OneFinalizer, Settling

LEMMA AlwaysMigrates ==
  ASSUME Prompt
  PROVE  Spec => [](TypeOK /\ StruckOffMigrated /\ MigrationInv)
<1>1. TypeOK /\ StruckOffMigrated /\ MigrationInv /\ [Next]_vars => MigrationInv'
  BY NextMigrates
<1>2. Init => MigrationInv
  BY InitMigrates
<1> QED  BY <1>1, <1>2, TypeCorrect, StruckOffHolds, PTL DEF Spec

\* What may happen to the phase, the signature and the list of the run.
LEMMA RunSteps ==
  ASSUME [Next]_vars
  PROVE  \/ UNCHANGED <<phase, sig, target>>
         \/ \E q \in Requests : TriggerWrite(q)
         \/ \E w \in Workers : Settle(w) \/ Claim(w)
<1>1. CASE UNCHANGED vars
  BY <1>1 DEF vars, state
<1>2. ASSUME NEW q \in Requests, TriggerCheck(q) \/ RequestStep(q) \/ TriggerLost(q)
      PROVE  UNCHANGED <<phase, sig, target>> \/ TriggerWrite(q)
  BY <1>2 DEF TriggerCheck, RequestStep, TriggerClear, TriggerDispatch, TriggerLost, state
<1>3. ASSUME NEW w \in Workers, TaskStep(w)
      PROVE  UNCHANGED <<phase, sig, target>> \/ Settle(w) \/ Claim(w)
  BY <1>3 DEF TaskStep, Embed, CountDone, CountFailed, ReadSummary, state
<1>4. ASSUME NEW w \in Workers,
             \/ Take(w) \/ EmbedError(w) \/ EmbedTimeout(w) \/ LateError(w) \/ TaskLost(w)
             \/ Redispatch(w) \/ RecoverFinalize(w)
      PROVE  UNCHANGED <<phase, sig, target>>
  BY <1>4 DEF Take, Start, EmbedError, EmbedTimeout, LateError, TaskLost, Redispatch,
              RecoverFinalize, state
<1>5. CASE Environment
  BY <1>5 DEF Environment, Restart, ReparseStart, ReparseClear, ReparseDone, ReparseFailed, state
<1> QED
  BY <1>1, <1>2, <1>3, <1>4, <1>5 DEF Next, Beat

\* No document of the latest run has old vectors once queries are answered.
TargetMigrated ==
  phase = "idle" /\ sig = config => \A d \in target : ~Outdated(d)

\* A run that settles without failures leaves no old vectors in its documents.
LEMMA NothingStrayed ==
  ASSUME TypeOK, StruckOffMigrated, MigrationInv, NEW w \in Workers,
         task[w].pc = "settle", task[w].seen = 0
  PROVE  \A d \in target : ~Outdated(d)
<1>1. phase = "finalizing" /\ failed = 0
  BY DEF MigrationInv, Orderly, Settling
<1>2. pending = {} /\ Cardinality(Strayed) <= 0
  BY <1>1 DEF MigrationInv, Orderly, StruckOffMigrated, Strayed
<1>3. IsFiniteSet(Strayed) /\ Cardinality(Strayed) \in Nat
  <2>1. Strayed \in SUBSET Docs
    BY DEF Strayed, TypeOK
  <2> QED  BY <2>1, DocsFinite, FS_Subset, FS_CardinalityType
<1>4. Strayed = {}
  <2>1. Cardinality(Strayed) = 0
    BY <1>2, <1>3
  <2> QED  BY <1>3, <2>1, FS_EmptySet
<1> QED  BY <1>2, <1>4 DEF Strayed

LEMMA TargetMigratedStep ==
  ASSUME TypeOK, Prompt, StruckOffMigrated, MigrationInv, TargetMigrated, [Next]_vars
  PROVE  TargetMigrated'
<1>1. config' = config /\ used["restart"] = 0 /\ target \in SUBSET Docs
  BY Calm DEF MigrationInv, TypeOK
<1>2. \A d \in Docs : Outdated(d)' => Outdated(d)
  BY <1>1, OutdatedShrinks
<1>3. CASE UNCHANGED <<phase, sig, target>>
  BY <1>1, <1>2, <1>3 DEF TargetMigrated
<1>4. ASSUME NEW q \in Requests, TriggerWrite(q)
      PROVE  TargetMigrated'
  BY <1>4 DEF TriggerWrite, TargetMigrated
<1>5. ASSUME NEW w \in Workers, Claim(w)
      PROVE  TargetMigrated'
  <2>1. CASE phase' = "finalizing"
    BY <2>1 DEF TargetMigrated
  <2>2. CASE UNCHANGED <<phase, sig, target>>
    BY <1>3, <2>2
  <2> QED  BY <1>5, <2>1, <2>2 DEF Claim
<1>6. ASSUME NEW w \in Workers, Settle(w)
      PROVE  TargetMigrated'
  <2>1. /\ task[w].pc = "settle" /\ target' = target
        /\ phase' = IF task[w].seen = 0 THEN "idle" ELSE "partial_failed"
    BY <1>6 DEF Settle, SettleAs
  <2>2. CASE task[w].seen = 0
    BY <1>1, <1>2, <2>1, <2>2, NothingStrayed DEF TargetMigrated
  <2>3. CASE task[w].seen # 0
    BY <2>1, <2>3 DEF TargetMigrated
  <2> QED  BY <2>2, <2>3
<1> QED  BY <1>3, <1>4, <1>5, <1>6, RunSteps

\* When the service is prompt, for any documents, channels, workers and retries:
\* queries are answered under the signature of the configured channel only when
\* every parsed document and every document of the latest run, whatever became
\* of it since, has no vectors of another channel, and one worker settles a run,
\* although tasks fail, are lost at any point or are sent again by the beat task,
\* and documents are parsed again meanwhile.  Of a document that was not parsed
\* when the run began, nothing is said.
THEOREM AlwaysMigratedOnce ==
  ASSUME Prompt
  PROVE  Spec => []MigratedOnce
<1>1. TypeOK /\ MigrationInv /\ TargetMigrated => MigratedOnce
  <2>1. AbstractTodo = {} => \A d \in Docs : status[d] = "parsed" => ~Outdated(d)
    BY DEF AbstractTodo
  <2> QED  BY <2>1 DEF MigrationInv, Orderly, MigratedOnce, IdleMeansMigrated, TargetMigrated
<1>2. Init => TargetMigrated
  BY DEF Init, TargetMigrated
<1>3. TypeOK /\ StruckOffMigrated /\ MigrationInv /\ TargetMigrated /\ [Next]_vars => TargetMigrated'
  BY TargetMigratedStep
<1> QED  BY <1>1, <1>2, <1>3, AlwaysMigrates, PTL DEF Spec

-----------------------------------------------------------------------------
(* Reembed implements Migration                                             *)

\* What the phase of the row may do in a step.
LEMMA PhaseSteps ==
  ASSUME Prompt, TypeOK, StruckOffMigrated, MigrationInv, [Next]_vars
  PROVE  \/ AbstractJob' = AbstractJob
         \/ \E q \in Requests : TriggerWrite(q)
         \/ \E w \in Workers : Settle(w)
<1>1. CASE phase' = phase
  BY <1>1 DEF AbstractJob
<1>2. ASSUME NEW w \in Workers, Claim(w)
      PROVE  AbstractJob' = AbstractJob
  <2>1. phase' = phase \/ (phase = "running" /\ phase' = "finalizing")
    BY <1>2 DEF Claim
  <2> QED  BY <2>1 DEF AbstractJob
<1> QED  BY <1>1, <1>2, RunSteps

\* Of the abstract migration, without its fairness.
AbstractSteps == M!Init /\ [][M!Next]_<<AbstractJob, AbstractTodo>>

\* When the service is prompt, every step of a run is a step of the abstract
\* migration or leaves it alone: outdated documents only become fewer, queries are
\* allowed again only when none is left, and otherwise the administrator is asked.
\* That a run ends is not part of this statement.
THEOREM MigrationRefined ==
  ASSUME Prompt
  PROVE  Spec => AbstractSteps
<1>1. Init => M!Init
  BY DEF Init, M!Init, AbstractJob, AbstractTodo
<1>2. ASSUME TypeOK, StruckOffMigrated, MigrationInv, MigrationInv', [Next]_vars
      PROVE  [M!Next]_<<AbstractJob, AbstractTodo>>
  <2>1. AbstractTodo' \subseteq AbstractTodo
    BY <1>2, Calm, TodoShrinks DEF MigrationInv
  <2>2. CASE AbstractJob' = AbstractJob
    BY <2>1, <2>2 DEF M!Next, M!Convert
  <2>3. ASSUME NEW q \in Requests, TriggerWrite(q)
        PROVE  M!Next
    <3>1. phase \in {"idle", "partial_failed"} /\ phase' = "running"
      BY <1>2, <2>3 DEF TriggerWrite, MigrationInv, Orderly
    <3>2. AbstractJob \in {"ready", "attention"} /\ AbstractJob' = "migrating"
      BY <3>1 DEF AbstractJob
    <3>3. AbstractTodo' \in SUBSET Docs
      BY DEF AbstractTodo
    <3> QED  BY <3>2, <3>3 DEF M!Next, M!Begin
  <2>4. ASSUME NEW w \in Workers, Settle(w)
        PROVE  M!Next
    <3>1. /\ phase = "finalizing" /\ phase' \in {"idle", "partial_failed"}
          /\ sig' = config' /\ UNCHANGED <<vec, status, config>>
      BY <1>2, <2>4 DEF Settle, SettleAs, MigrationInv, Orderly, Settling
    <3>2. AbstractTodo' = AbstractTodo
      BY <3>1 DEF AbstractTodo, Outdated
    <3>3. CASE phase' = "idle"
      <4>1. AbstractTodo' = {}
        BY <1>2, <3>1, <3>3 DEF MigrationInv, Orderly
      <4>2. AbstractJob = "migrating" /\ AbstractJob' = "ready"
        BY <3>1, <3>3 DEF AbstractJob
      <4> QED  BY <3>2, <4>1, <4>2 DEF M!Next, M!Finish
    <3>4. CASE phase' = "partial_failed"
      <4>1. AbstractJob = "migrating" /\ AbstractJob' = "attention"
        BY <3>1, <3>4 DEF AbstractJob
      <4> QED  BY <3>2, <4>1 DEF M!Next, M!GiveUp
    <3> QED  BY <3>1, <3>3, <3>4
  <2> QED  BY <1>2, <2>2, <2>3, <2>4, PhaseSteps
<1> QED  BY <1>1, <1>2, AlwaysMigrates, PTL DEF Spec, AbstractSteps
=============================================================================
