---------------------------- MODULE ParseProofs ----------------------------
(***************************************************************************)
(* Theorems about ParsePipeline, for any set of documents, plans, workers, *)
(* any retry limit and any schedule of crashes and calls.                  *)
(***************************************************************************)
EXTENDS ParsePipeline, FiniteSetTheorems, TLAPS

\* What Insert and Caption make of a document.
Chunks(p, last) ==
  [i \in Slots |-> IF i < Length[p] THEN p ELSE IF i = Length[p] THEN last ELSE Empty]

\* A document is asked for once at most: by a message, by a worker, or by the
\* upload call that has its message still to send.
Asked(d) ==
  /\ \A v, w \in Workers : task[v].doc = d /\ task[w].doc = d => v = w
  /\ \A n \in 0..MaxRetries : queue[d][n] > 0 =>
       /\ queue[d][n] = 1 /\ \A m \in 0..MaxRetries : queue[d][m] > 0 => m = n
       /\ d \notin upload.docs /\ \A w \in Workers : task[w].doc # d
  /\ d \in upload.docs =>
       status[d] \in {"pending", "removed"} /\ \A w \in Workers : task[w].doc # d
  /\ status[d] = "absent" =>
       (\A w \in Workers : task[w].doc # d) /\ \A n \in 0..MaxRetries : queue[d][n] = 0

\* What a task has made of its document so far.
Halfway(w) ==
  LET t == task[w]
      d == t.doc IN
  /\ t.pc \in {"clear", "unlink", "index"} => status[d] = "parsing"
  /\ t.pc \in {"insert", "draw", "caption", "publish"} => status[d] = "indexing"
  /\ t.pc \notin {"publish", "tally"} => t.captions = 0
  /\ t.pc \in {"unlink", "index", "insert"} => rows[d] = Blank
  /\ t.pc \in {"draw", "caption"} => rows[d] = Chunks(t.plan, Empty)
  /\ t.pc = "publish" => rows[d] = Chunks(t.plan, IF t.captions = 1 THEN Linked ELSE Empty)
  /\ t.pc = "tally" => status[d] = "parsed" /\ Complete(d)

Worked(d) ==
  /\ \A w \in Workers : task[w].doc = d /\ Exists(d) => Halfway(w)
  /\ status[d] = "parsed" /\ (\A w \in Workers : task[w].doc # d) => Complete(d)

\* A worker without a task holds nothing of an earlier one.
Slot(w) ==
  IF task[w].pc = "free" THEN task[w] = Free
  ELSE task[w].doc \in Docs /\ task[w].plan \in Plans

Shape == TypeOK /\ \A w \in Workers : Slot(w)
Parsing == \A d \in Docs : Asked(d) /\ Worked(d)

\* Either a document or a task is still to reopen the library, or the status is
\* behind, or it is open.
Opened ==
  InWork = {} /\ (\A w \in Workers : task[w].pc # "tally") /\ "status" \notin behind =>
    kb.status = "ready" \/ \A d \in Docs : status[d] = "absent"

\* What does not exist has no chunks.
Vacant == \A d \in Docs : ~Exists(d) => rows[d] = Blank

\* Nothing is left to do but for tasks of documents that were removed.
Resting ==
  InWork = {} /\ \A w \in Workers : task[w].pc # "free" => ~Exists(task[w].doc)

\* Then the count is behind, or right, or to be written by a removal.
Counted ==
  Resting /\ "chunks" \notin behind =>
    /\ removal.pc = "none" => kb.chunks = Cardinality(Filled)
    /\ removal.pc = "write" => removal.chunks = Cardinality(Filled)

-----------------------------------------------------------------------------
(* Type correctness                                                         *)

LEMMA FilledFinite == Filled \in SUBSET (Docs \X Slots) /\ IsFiniteSet(Filled)
<1>1. IsFiniteSet(Docs \X Slots)
  BY DocsFinite, FS_Product
<1>2. Filled \subseteq Docs \X Slots
  BY DEF Filled
<1> QED  BY <1>1, <1>2, FS_Subset

LEMMA FreeType == Free \in Tasks
  BY ParametersOK DEF Free, Tasks

LEMMA HappensType ==
  ASSUME TypeOK, NEW e \in Events, Happens(e)
  PROVE  used' \in [Events -> Nat] /\ \A f \in Events : used'[f] >= used[f]
<1>1. used \in [Events -> Nat] /\ used' = [used EXCEPT ![e] = used[e] + 1]
  BY DEF Happens, TypeOK
<1>2. used[e] \in Nat
  BY <1>1
<1>3. \A f \in Events : used[f] \in Nat /\ used'[f] = IF f = e THEN used[f] + 1 ELSE used[f]
  BY <1>1
<1> QED  BY <1>1, <1>2, <1>3

\* One more message for each of these documents.
LEMMA SentType ==
  ASSUME TypeOK, NEW S, NEW n \in 0..MaxRetries
  PROVE  /\ Sent(S, n) \in [Docs -> [0..MaxRetries -> Nat]]
         /\ \A d \in Docs, m \in 0..MaxRetries :
              Sent(S, n)[d][m] = IF d \in S /\ m = n THEN queue[d][m] + 1 ELSE queue[d][m]
<1> DEFINE More(d) == IF d \in S THEN [queue[d] EXCEPT ![n] = queue[d][n] + 1] ELSE queue[d]
<1>1. ASSUME NEW d \in Docs
      PROVE  /\ More(d) \in [0..MaxRetries -> Nat]
             /\ \A m \in 0..MaxRetries :
                  More(d)[m] = IF d \in S /\ m = n THEN queue[d][m] + 1 ELSE queue[d][m]
  <2>1. queue[d] \in [0..MaxRetries -> Nat]
    BY DEF TypeOK
  <2>2. queue[d][n] \in Nat
    BY <2>1, Zenon
  <2>3. queue[d][n] + 1 \in Nat
    BY <2>2
  <2>4. More(d) \in [0..MaxRetries -> Nat]
    BY <2>1, <2>3, Zenon
  <2>5. \A m \in 0..MaxRetries :
          More(d)[m] = IF d \in S /\ m = n THEN queue[d][m] + 1 ELSE queue[d][m]
    BY <2>1, <2>3
  <2> QED  BY <2>4, <2>5
<1>2. Sent(S, n) = [d \in Docs |-> More(d)]
  BY DEF Sent
<1> HIDE DEF More
<1> QED  BY <1>1, <1>2

LEMMA StatusType ==
  ASSUME TypeOK, NEW d \in Docs, NEW s \in {"pending", "parsing", "indexing", "parsed", "failed"},
         Mark(d, s)
  PROVE  /\ status' \in [Docs -> InProgress \cup {"absent", "parsed", "failed", "removed"}]
         /\ \A e \in Docs : e # d => status'[e] = status[e]
         /\ Exists(d) => status'[d] = s
         /\ ~Exists(d) => status'[d] = status[d]
  BY DEF Mark, TypeOK, InProgress

\* A task moves on to its next program point.
LEMMA GotoType ==
  ASSUME TypeOK, NEW w \in Workers, NEW p \in Points, Goto(w, p)
  PROVE  /\ task' \in [Workers -> Tasks]
         /\ \A v \in Workers : v # w => task'[v] = task[v]
         /\ task'[w] = [task[w] EXCEPT !.pc = p]
         /\ task'[w].pc = p /\ task'[w].doc = task[w].doc /\ task'[w].plan = task[w].plan
         /\ task'[w].captions = task[w].captions /\ task'[w].tries = task[w].tries
<1>1. task \in [Workers -> Tasks] /\ task[w] \in Tasks
  BY DEF TypeOK
<1> DEFINE new == [task[w] EXCEPT !.pc = p]
<1>2. /\ new \in Tasks
      /\ new.pc = p /\ new.doc = task[w].doc /\ new.plan = task[w].plan
      /\ new.captions = task[w].captions /\ new.tries = task[w].tries
  BY <1>1 DEF Tasks
<1>3. task' = [task EXCEPT ![w] = new]
  BY DEF Goto
<1> HIDE DEF new
<1>4. task'[w] = new
  BY <1>1, <1>3
<1> QED  BY <1>1, <1>2, <1>3, <1>4 DEF new

LEMMA ReleaseType ==
  ASSUME TypeOK, NEW w \in Workers, Release(w)
  PROVE  /\ task' \in [Workers -> Tasks] /\ heard' \in [Docs -> SUBSET Workers]
         /\ task'[w] = Free /\ \A v \in Workers : v # w => task'[v] = task[v]
  BY FreeType DEF Release, TypeOK

LEMMA InitTypes == Init => TypeOK
<1> SUFFICES ASSUME Init PROVE TypeOK
  OBVIOUS
<1>1. task \in [Workers -> Tasks]
  BY FreeType DEF Init
<1>2. Blank \in [Slots -> Plans \cup {Empty, Linked, Unlinked}]
  BY DEF Blank
<1>3. rows \in [Docs -> [Slots -> Plans \cup {Empty, Linked, Unlinked}]]
  BY <1>2 DEF Init
<1>4. queue \in [Docs -> [0..MaxRetries -> Nat]] /\ used \in [Events -> Nat]
  BY DEF Init
<1> QED  BY <1>1, <1>3, <1>4 DEF Init, TypeOK, NoUpload, NoRemoval

\* The calls of the document service.
LEMMA CallTypes ==
  ASSUME TypeOK,
         \/ \E d \in Docs : UploadDoc(d) \/ Reparse(d) \/ RemoveDoc(d)
         \/ UploadStep \/ UploadAborted \/ RemoveCount \/ RemoveWrite
         \/ \E p \in Plans : ChangePlan(p)
         \/ Reindex
  PROVE  TypeOK'
<1>1. ASSUME NEW d \in Docs, UploadDoc(d)
      PROVE  TypeOK'
  BY <1>1 DEF UploadDoc, TypeOK, InProgress
<1>2. ASSUME NEW d \in Docs, Submit(d)
      PROVE  queue' \in [Docs -> [0..MaxRetries -> Nat]]
  <2>1. 0 \in 0..MaxRetries
    BY ParametersOK
  <2> QED  BY <1>2, <2>1, SentType DEF Submit, TypeOK
<1>3. ASSUME NEW d \in Docs, Reparse(d)
      PROVE  TypeOK'
  <2>1. used' \in [Events -> Nat] /\ queue' \in [Docs -> [0..MaxRetries -> Nat]]
    BY <1>2, <1>3, HappensType DEF Reparse, Events
  <2>2. status' \in [Docs -> InProgress \cup {"absent", "parsed", "failed", "removed"}]
        /\ heard' \in [Docs -> SUBSET Workers]
    BY <1>3 DEF Reparse, TypeOK, InProgress, Doing
  <2> QED  BY <1>3, <2>1, <2>2 DEF Reparse, TypeOK
<1>4. ASSUME NEW d \in Docs, RemoveDoc(d)
      PROVE  TypeOK'
  <2>1. used' \in [Events -> Nat]
    BY <1>4, HappensType DEF RemoveDoc, Events
  <2>2. Blank \in [Slots -> Plans \cup {Empty, Linked, Unlinked}]
    BY DEF Blank
  <2>3. rows' \in [Docs -> [Slots -> Plans \cup {Empty, Linked, Unlinked}]]
    BY <1>4, <2>2 DEF RemoveDoc, TypeOK
  <2>4. /\ status' \in [Docs -> InProgress \cup {"absent", "parsed", "failed", "removed"}]
        /\ counted' \in [Docs -> Nat] /\ pictures' \in [Docs -> Nat]
    BY <1>4 DEF RemoveDoc, TypeOK, InProgress
  <2>5. removal' \in [pc: {"none", "count", "write"}, chunks: Nat] /\ behind' \in SUBSET Columns
    BY <1>4 DEF RemoveDoc, TypeOK, Columns
  <2> QED  BY <1>4, <2>1, <2>3, <2>4, <2>5 DEF RemoveDoc, TypeOK
<1>5. CASE UploadStep
  <2>1. CASE UploadMark
    BY <2>1 DEF UploadMark, TypeOK, document, Columns
  <2>2. ASSUME NEW d \in Docs, UploadSend(d)
        PROVE  TypeOK'
    <3>1. queue' \in [Docs -> [0..MaxRetries -> Nat]]
      BY <1>2, <2>2 DEF UploadSend
    <3>2. upload' \in [pc: {"none", "create", "send"}, docs: SUBSET Docs]
      BY <2>2 DEF UploadSend, TypeOK, document, NoUpload
    <3> QED  BY <2>2, <3>1, <3>2 DEF UploadSend, TypeOK, document
  <2> QED  BY <1>5, <2>1, <2>2 DEF UploadStep
<1>6. CASE UploadAborted
  BY <1>6 DEF UploadAborted, TypeOK, document, NoUpload
<1>7. CASE RemoveCount
  <2>1. Cardinality(Filled) \in Nat
    BY FilledFinite, FS_CardinalityType
  <2> QED  BY <1>7, <2>1 DEF RemoveCount, TypeOK, document
<1>8. CASE RemoveWrite
  BY <1>8 DEF RemoveWrite, TypeOK, document, NoRemoval
<1>9. ASSUME NEW p \in Plans, ChangePlan(p)
      PROVE  TypeOK'
  BY <1>9, HappensType DEF ChangePlan, TypeOK, document, Events
<1>10. CASE Reindex
  BY <1>10, HappensType DEF Reindex, TypeOK, document, Events, Columns
<1> QED  BY <1>1, <1>3, <1>4, <1>5, <1>6, <1>7, <1>8, <1>9, <1>10

LEMMA RowsType ==
  ASSUME TypeOK, NEW d \in Docs,
         NEW r \in [Slots -> Plans \cup {Empty, Linked, Unlinked}], rows' = [rows EXCEPT ![d] = r]
  PROVE  /\ rows' \in [Docs -> [Slots -> Plans \cup {Empty, Linked, Unlinked}]]
         /\ rows'[d] = r /\ \A e \in Docs : e # d => rows'[e] = rows[e]
  BY DEF TypeOK

\* A worker that takes a message holds its document and the plan in force.
LEMMA StartShape ==
  ASSUME Shape, NEW w \in Workers, NEW d \in Docs, NEW n \in 0..MaxRetries, Start(w, d, n)
  PROVE  /\ Shape'
         /\ Exists(d) => task'[w] = [Free EXCEPT !.pc = "clear", !.doc = d, !.plan = plan, !.tries = n]
         /\ ~Exists(d) => task' = task
         /\ \A v \in Workers : v # w => task'[v] = task[v]
<1> DEFINE new == [Free EXCEPT !.pc = "clear", !.doc = d, !.plan = plan, !.tries = n]
<1>1. TypeOK /\ \A v \in Workers : Slot(v)
  BY DEF Shape
<1>2. new \in Tasks /\ new.pc = "clear" /\ new.doc = d /\ new.plan = plan
  <2>1. plan \in Plans
    BY <1>1 DEF TypeOK
  <2> QED  BY <2>1, FreeType DEF Free, Tasks, Points
<1>3. task' = IF Exists(d) THEN [task EXCEPT ![w] = new] ELSE task
  BY DEF Start
<1> HIDE DEF new
<1>4. /\ task' \in [Workers -> Tasks]
      /\ Exists(d) => task'[w] = new
      /\ \A v \in Workers : v # w => task'[v] = task[v]
  BY <1>1, <1>2, <1>3 DEF TypeOK
<1>5. queue' \in [Docs -> [0..MaxRetries -> Nat]]
  <2>1. queue \in [Docs -> [0..MaxRetries -> Nat]] /\ queue[d][n] > 0
    BY <1>1 DEF Start, TypeOK
  <2>2. queue[d] \in [0..MaxRetries -> Nat]
    BY <2>1
  <2>3. queue[d][n] \in Nat
    BY <2>2, Zenon
  <2>4. queue[d][n] - 1 \in Nat
    BY <2>1, <2>3
  <2>5. [queue[d] EXCEPT ![n] = queue[d][n] - 1] \in [0..MaxRetries -> Nat]
    BY <2>2, <2>4, Zenon
  <2>6. queue' = [queue EXCEPT ![d] = [queue[d] EXCEPT ![n] = queue[d][n] - 1]]
    BY DEF Start
  <2> QED  BY <2>1, <2>5, <2>6, Zenon
<1>6. /\ status' \in [Docs -> InProgress \cup {"absent", "parsed", "failed", "removed"}]
      /\ heard' \in [Docs -> SUBSET Workers]
  <2>1. Mark(d, "parsing")
    BY DEF Start
  <2>2. heard' = [heard EXCEPT ![d] = Doing(task', d)] /\ Doing(task', d) \in SUBSET Workers
    BY DEF Start, Doing
  <2> QED  BY <1>1, <2>1, <2>2, StatusType DEF TypeOK
<1>7. TypeOK'
  BY <1>1, <1>4, <1>5, <1>6 DEF Start, TypeOK
<1>8. ASSUME NEW v \in Workers
      PROVE  Slot(v)'
  <2>1. CASE v = w /\ Exists(d)
    <3>1. plan \in Plans
      BY <1>1 DEF TypeOK
    <3> QED  BY <1>2, <1>4, <2>1, <3>1 DEF Slot
  <2>2. CASE task'[v] = task[v]
    BY <1>1, <2>2 DEF Slot
  <2> QED  BY <1>3, <1>4, <2>1, <2>2
<1> QED  BY <1>3, <1>4, <1>7, <1>8 DEF Shape, new

\* Steps that end a task.
LEMMA EndShape ==
  ASSUME Shape, NEW w \in Workers,
         Tally(w) \/ GiveUp(w) \/ RetryLater(w) \/ WorkerLost(w)
  PROVE  /\ Shape' /\ task[w].doc \in Docs
         /\ task'[w] = Free /\ \A v \in Workers : v # w => task'[v] = task[v]
<1>1. TypeOK /\ \A v \in Workers : Slot(v)
  BY DEF Shape
<1>2. task[w].pc # "free" /\ Release(w)
  BY ParametersOK DEF Tally, GiveUp, RetryLater, Fails, WorkerLost, Points
<1>3. /\ task' \in [Workers -> Tasks] /\ heard' \in [Docs -> SUBSET Workers]
      /\ task'[w] = Free /\ \A v \in Workers : v # w => task'[v] = task[v]
  BY <1>1, <1>2, ReleaseType
<1>4. task[w].doc \in Docs
  BY <1>1, <1>2 DEF Slot
<1>5. TypeOK'
  <2>1. CASE Tally(w)
    <3>1. Cardinality(Filled) \in Nat
      BY FilledFinite, FS_CardinalityType
    <3>2. kb' \in [status: {"draft", "indexing", "ready"}, chunks: Nat]
      BY <1>1, <2>1, <3>1 DEF Tally, TypeOK
    <3> QED  BY <1>1, <1>3, <2>1, <3>2 DEF Tally, TypeOK, Columns
  <2>2. CASE GiveUp(w)
    <3>1. Mark(task[w].doc, "failed")
      BY <2>2 DEF GiveUp, Fails
    <3>2. status' \in [Docs -> InProgress \cup {"absent", "parsed", "failed", "removed"}]
      BY <1>1, <1>4, <3>1, StatusType
    <3> QED  BY <1>1, <1>3, <2>2, <3>2 DEF GiveUp, Fails, TypeOK, Columns
  <2>3. CASE RetryLater(w)
    <3>1. Mark(task[w].doc, "failed")
      BY <2>3 DEF RetryLater, Fails
    <3>2. status' \in [Docs -> InProgress \cup {"absent", "parsed", "failed", "removed"}]
      BY <1>1, <1>4, <3>1, StatusType
    <3>3. queue' = queue
          \/ (task[w].tries < MaxRetries /\ queue' = Sent({task[w].doc}, task[w].tries + 1))
      BY <2>3 DEF RetryLater, Fails
    <3>4. task[w].tries < MaxRetries => task[w].tries + 1 \in 0..MaxRetries
      BY <1>1, ParametersOK DEF TypeOK, Tasks
    <3>5. queue' \in [Docs -> [0..MaxRetries -> Nat]]
      BY <1>1, <3>3, <3>4, SentType DEF TypeOK
    <3> QED  BY <1>1, <1>3, <2>3, <3>2, <3>5 DEF RetryLater, Fails, TypeOK, Columns
  <2>4. CASE WorkerLost(w)
    <3>1. used' \in [Events -> Nat]
      BY <1>1, <2>4, HappensType DEF WorkerLost, Events
    <3> QED  BY <1>1, <1>3, <2>4, <3>1 DEF WorkerLost, TypeOK, Columns
  <2> QED  BY <2>1, <2>2, <2>3, <2>4
<1>6. ASSUME NEW v \in Workers
      PROVE  Slot(v)'
  <2>1. CASE v = w
    BY <1>3, <2>1 DEF Slot, Free
  <2>2. CASE v # w
    BY <1>1, <1>3, <2>2 DEF Slot
  <2> QED  BY <2>1, <2>2
<1> QED  BY <1>3, <1>4, <1>5, <1>6 DEF Shape

\* What each step of a task does to its own task.  A worker keeps its document,
\* and no other worker's task changes except for its picture.
Moves(w, to) ==
  /\ task'[w].pc \in to /\ task'[w].doc = task[w].doc /\ task'[w].plan = task[w].plan
  /\ \A v \in Workers : v # w =>
       /\ task'[v].pc = task[v].pc /\ task'[v].doc = task[v].doc /\ task'[v].plan = task[v].plan
       /\ task'[v].captions = task[v].captions

LEMMA MoveSlots ==
  ASSUME Shape, NEW w \in Workers, NEW to \in SUBSET Points, Moves(w, to), task[w].pc # "free",
         task' \in [Workers -> Tasks],
         \A v \in Workers : task[v].doc \notin Docs => task'[v] = task[v]
  PROVE  \A v \in Workers : Slot(v)'
<1> SUFFICES ASSUME NEW v \in Workers PROVE Slot(v)'
  OBVIOUS
<1>1. Slot(v) /\ Slot(w)
  BY DEF Shape
<1>2. CASE v = w
  BY <1>1, <1>2 DEF Slot, Moves, Points
<1>3. CASE v # w /\ task[v].pc = "free"
  <2>1. task[v] = Free /\ task[v].doc \notin Docs
    BY <1>1, <1>3, ParametersOK DEF Slot, Free
  <2> QED  BY <1>1, <2>1 DEF Slot
<1>4. CASE v # w /\ task[v].pc # "free"
  BY <1>1, <1>4 DEF Slot, Moves
<1> QED  BY <1>2, <1>3, <1>4

\* The steps of a task up to the one that publishes the document.
LEMMA WorkShape ==
  ASSUME Shape, NEW w \in Workers,
         \/ Clear(w) \/ Unlink(w) \/ Index(w) \/ Insert(w) \/ Draw(w) \/ Caption(w) \/ Publish(w)
  PROVE  Shape' /\ task[w].doc \in Docs /\ Moves(w, Points)
<1> DEFINE d == task[w].doc
<1>1. TypeOK /\ \A v \in Workers : Slot(v)
  BY DEF Shape
<1>2. task[w].pc # "free" /\ d \in Docs /\ task[w].plan \in Plans /\ task[w] \in Tasks
  BY <1>1 DEF Clear, Unlink, Index, Insert, Draw, Caption, Publish, Slot, TypeOK
<1>3. /\ rows[d] \in [Slots -> Plans \cup {Empty, Linked, Unlinked}]
      /\ pictures[d] \in Nat /\ Length[task[w].plan] \in Slots /\ Length[task[w].plan] \in Nat
  BY <1>1, <1>2, ParametersOK DEF TypeOK
<1>4. ASSUME NEW p \in Points, Goto(w, p)
      PROVE  /\ Moves(w, Points) /\ task' \in [Workers -> Tasks]
             /\ \A v \in Workers : task[v].doc \notin Docs => task'[v] = task[v]
  BY <1>1, <1>2, <1>4, GotoType DEF Moves
<1>5. /\ Moves(w, Points) /\ task' \in [Workers -> Tasks]
      /\ \A v \in Workers : task[v].doc \notin Docs => task'[v] = task[v]
  <2>1. CASE Clear(w) \/ Index(w) \/ Insert(w) \/ Publish(w)
    <3>1. \E p \in Points : Goto(w, p)
      <4>1. CASE Clear(w)    BY <4>1 DEF Clear, Points
      <4>2. CASE Index(w)    BY <4>2 DEF Index, Points
      <4>3. CASE Insert(w)   BY <4>3 DEF Insert, Points
      <4>4. CASE Publish(w)  BY <4>4 DEF Publish, Points
      <4> QED  BY <2>1, <4>1, <4>2, <4>3, <4>4
    <3> QED  BY <1>4, <3>1
  <2>2. CASE Unlink(w)
    <3>1. ASSUME NEW v \in Workers
          PROVE  task'[v] \in Tasks
      <4>1. task[v] \in Tasks /\ [task[v] EXCEPT !.pc = "index"] \in Tasks
            /\ [task[v] EXCEPT !.picture = FALSE] \in Tasks
        BY ZenonT(40), <1>1 DEF TypeOK, Tasks, Points
      <4> QED  BY <2>2, <4>1 DEF Unlink
    <3>2. task' = [v \in Workers |-> task'[v]]
      BY <2>2 DEF Unlink
    <3>3. task' \in [Workers -> Tasks]
      BY <3>1, <3>2
    <3>4. Moves(w, Points)
      <4>1. task'[w] = [task[w] EXCEPT !.pc = "index"]
        BY <2>2 DEF Unlink
      <4>2. \A v \in Workers : v # w =>
              task'[v] = task[v] \/ task'[v] = [task[v] EXCEPT !.picture = FALSE]
        BY <2>2 DEF Unlink
      <4>3. \A v \in Workers : task[v] \in Tasks
        BY <1>1 DEF TypeOK
      <4>4. task'[w].pc = "index" /\ task'[w].doc = task[w].doc /\ task'[w].plan = task[w].plan
        BY <4>1, <4>3 DEF Tasks
      <4>5. \A v \in Workers : v # w =>
              /\ task'[v].pc = task[v].pc /\ task'[v].doc = task[v].doc
              /\ task'[v].plan = task[v].plan /\ task'[v].captions = task[v].captions
        BY <4>2, <4>3 DEF Tasks
      <4> QED  BY <4>4, <4>5 DEF Moves, Points
    <3>5. \A v \in Workers : task[v].doc \notin Docs => task'[v] = task[v]
      BY <1>2, <2>2 DEF Unlink
    <3> QED  BY <3>3, <3>4, <3>5
  <2>3. CASE Draw(w) /\ ~Goto(w, "publish")
    <3> DEFINE new == [task[w] EXCEPT !.pc = "caption", !.picture = TRUE]
    <3>1. new \in Tasks /\ new.pc = "caption" /\ new.doc = d /\ new.plan = task[w].plan
      BY <1>2 DEF Tasks, Points
    <3>2. task' = [task EXCEPT ![w] = new]
      BY <2>3 DEF Draw
    <3> HIDE DEF new
    <3>3. /\ task' \in [Workers -> Tasks] /\ task'[w] = new
          /\ \A v \in Workers : v # w => task'[v] = task[v]
      BY <1>1, <3>1, <3>2 DEF TypeOK
    <3> QED  BY <1>2, <3>1, <3>3 DEF Moves, Points
  <2>4. CASE Caption(w) /\ ~Goto(w, "publish")
    <3> DEFINE new == [task[w] EXCEPT !.pc = "publish", !.captions = 1]
    <3>0. new.pc = "publish" /\ new.doc = d /\ new.plan = task[w].plan
      BY <1>2 DEF Tasks
    <3>1. new \in Tasks
      <4>1. 1 \in 0..1 /\ "publish" \in Points \cup {"free"}
        BY DEF Points
      <4> QED  BY <1>2, <4>1, Zenon DEF Tasks
    <3>2. task' = [task EXCEPT ![w] = new]
      BY <2>4 DEF Caption
    <3> HIDE DEF new
    <3>3. /\ task' \in [Workers -> Tasks] /\ task'[w] = new
          /\ \A v \in Workers : v # w => task'[v] = task[v]
      BY <1>1, <3>1, <3>2 DEF TypeOK
    <3> QED  BY <1>2, <3>0, <3>3 DEF Moves, Points
  <2>5. CASE Goto(w, "publish")
    BY <1>4, <2>5 DEF Points
  <2> QED  BY <2>1, <2>2, <2>3, <2>4, <2>5
<1>6. \A v \in Workers : Slot(v)'
  BY <1>2, <1>5, MoveSlots
<1>7. rows' \in [Docs -> [Slots -> Plans \cup {Empty, Linked, Unlinked}]]
  <2> DEFINE Row == [Slots -> Plans \cup {Empty, Linked, Unlinked}]
  <2>1. CASE Clear(w)
    <3>1. Blank \in Row
      BY DEF Blank
    <3> QED  BY <1>1, <1>2, <2>1, <3>1 DEF Clear, TypeOK
  <2>2. CASE Unlink(w)
    <3> DEFINE r == [i \in Slots |-> IF rows[d][i] = Linked THEN Unlinked ELSE rows[d][i]]
    <3>1. r \in Row
      BY <1>3
    <3>2. rows' = [rows EXCEPT ![d] = r]
      BY <2>2 DEF Unlink
    <3> HIDE DEF r
    <3> QED  BY <1>1, <3>1, <3>2 DEF TypeOK
  <2>3. CASE Insert(w)
    <3> DEFINE r == [i \in Slots |-> IF i < Length[task[w].plan] /\ rows[d][i] = Empty
                                     THEN task[w].plan ELSE rows[d][i]]
    <3>1. r \in Row
      BY <1>2, <1>3
    <3>2. rows' = [rows EXCEPT ![d] = r]
      BY <2>3 DEF Insert
    <3> HIDE DEF r
    <3> QED  BY <1>1, <3>1, <3>2 DEF TypeOK
  <2>4. CASE Caption(w) /\ ~UNCHANGED rows
    <3> DEFINE r == [rows[d] EXCEPT ![Length[task[w].plan]] = Linked]
    <3>1. r \in Row
      BY <1>3
    <3>2. rows' = [rows EXCEPT ![d] = r]
      BY <2>4 DEF Caption
    <3> HIDE DEF r
    <3> QED  BY <1>1, <3>1, <3>2 DEF TypeOK
  <2>5. CASE UNCHANGED rows
    BY <1>1, <2>5 DEF TypeOK
  <2> QED  BY <2>1, <2>2, <2>3, <2>4, <2>5 DEF Index, Draw, Publish
<1>8. /\ status' \in [Docs -> InProgress \cup {"absent", "parsed", "failed", "removed"}]
      /\ heard' \in [Docs -> SUBSET Workers]
  <2>1. CASE Index(w)
    <3>1. Mark(d, "indexing") /\ heard' = [heard EXCEPT ![d] = Doing(task, d)]
      BY <2>1 DEF Index
    <3>2. Doing(task, d) \in SUBSET Workers
      BY DEF Doing
    <3> QED  BY <1>1, <1>2, <3>1, <3>2, StatusType DEF TypeOK
  <2>2. CASE Publish(w)
    <3>1. Mark(d, "parsed")
      BY <2>2 DEF Publish
    <3> QED  BY <1>1, <1>2, <2>2, <3>1, StatusType DEF TypeOK, Publish
  <2>3. CASE UNCHANGED <<status, heard>>
    BY <1>1, <2>3 DEF TypeOK
  <2> QED  BY <2>1, <2>2, <2>3 DEF Clear, Unlink, Insert, Draw, Caption
<1>9. counted' \in [Docs -> Nat] /\ pictures' \in [Docs -> Nat]
  <2>1. CASE Publish(w)
    <3>1. task[w].captions \in 0..1
      BY <1>2 DEF Tasks
    <3>2. Length[task[w].plan] + task[w].captions \in Nat
      BY <1>3, <3>1
    <3> QED  BY <1>1, <2>1, <3>2 DEF Publish, TypeOK
  <2>2. CASE Unlink(w)
    BY <1>1, <2>2 DEF Unlink, TypeOK
  <2>3. CASE Draw(w)
    <3>1. pictures' = [pictures EXCEPT ![d] = pictures[d] + 1] \/ UNCHANGED pictures
      BY <2>3 DEF Draw
    <3> QED  BY <1>1, <1>3, <2>3, <3>1 DEF Draw, TypeOK
  <2>4. CASE UNCHANGED <<counted, pictures>>
    BY <1>1, <2>4 DEF TypeOK
  <2> QED  BY <2>1, <2>2, <2>3, <2>4 DEF Clear, Index, Insert, Caption
<1>10. UNCHANGED <<plan, kb, behind, queue, upload, removal, used>>
  BY DEF Clear, Unlink, Index, Insert, Draw, Caption, Publish
<1>11. TypeOK'
  BY <1>1, <1>5, <1>7, <1>8, <1>9, <1>10 DEF TypeOK
<1> QED  BY <1>2, <1>5, <1>6, <1>11 DEF Shape

\* What the beat task does to the documents it sends again.
LEMMA ReconcileShape ==
  ASSUME Shape, NEW v \in Workers, Reconcile(v)
  PROVE  Shape'
<1>1. TypeOK /\ \A w \in Workers : Slot(w)
  BY DEF Shape
<1>2. PICK S \in SUBSET Docs :
        /\ queue' = Sent(S, 0)
        /\ status' = [d \in Docs |-> IF d \in S THEN "pending" ELSE status[d]]
        /\ heard' = [d \in Docs |-> IF d \in S /\ status[d] # "pending"
                                    THEN Doing(task, d) ELSE heard[d]]
  BY DEF Reconcile
<1>3. queue' \in [Docs -> [0..MaxRetries -> Nat]]
  BY <1>1, <1>2, ParametersOK, SentType
<1>4. status' \in [Docs -> InProgress \cup {"absent", "parsed", "failed", "removed"}]
  BY <1>1, <1>2 DEF TypeOK, InProgress
<1>5. heard' \in [Docs -> SUBSET Workers]
  BY <1>1, <1>2 DEF TypeOK, Doing
<1>6. TypeOK'
  BY <1>1, <1>3, <1>4, <1>5 DEF Reconcile, TypeOK
<1>7. task' = task
  BY DEF Reconcile
<1> QED  BY <1>1, <1>6, <1>7 DEF Shape, Slot

LEMMA NextShape ==
  ASSUME Shape, [Next]_vars
  PROVE  Shape'
<1>1. CASE \/ \E d \in Docs : UploadDoc(d) \/ Reparse(d) \/ RemoveDoc(d)
           \/ UploadStep \/ UploadAborted \/ RemoveCount \/ RemoveWrite
           \/ \E p \in Plans : ChangePlan(p)
           \/ Reindex
  <2>1. TypeOK'
    BY <1>1, CallTypes DEF Shape
  <2>2. task' = task
    BY <1>1 DEF UploadDoc, Reparse, RemoveDoc, UploadStep, UploadMark, UploadSend, UploadAborted,
         RemoveCount, RemoveWrite, ChangePlan, Reindex
  <2> QED  BY <2>1, <2>2 DEF Shape, Slot
<1>2. CASE \E w \in Workers : Take(w) \/ TaskStep(w) \/ WorkerLost(w)
  BY <1>2, StartShape, WorkShape, EndShape DEF Take, TaskStep
<1>3. CASE Beat
  BY <1>3, ReconcileShape DEF Beat
<1>4. CASE UNCHANGED vars
  BY <1>4 DEF vars, document, Shape, TypeOK, Slot
<1> QED  BY <1>1, <1>2, <1>3, <1>4 DEF Next

LEMMA ShapeHolds == Spec => []Shape
<1>1. Init => Shape
  <2>1. Init => \A w \in Workers : Slot(w)
    BY DEF Init, Slot, Free
  <2> QED  BY <2>1, InitTypes DEF Shape
<1> QED  BY <1>1, NextShape, PTL DEF Spec

\* Every variable keeps its type, whatever the service is asked and whichever
\* worker dies.
THEOREM TypeCorrect == Spec => []TypeOK
<1>1. Shape => TypeOK
  BY DEF Shape
<1> QED  BY <1>1, ShapeHolds, PTL

-----------------------------------------------------------------------------
(* A parsed document has the chunks of one parse                            *)

\* A step that has nothing to do with a document leaves it as it was.
LEMMA Elsewhere ==
  ASSUME NEW d \in Docs, Asked(d), Worked(d),
         status'[d] = status[d], rows'[d] = rows[d], counted'[d] = counted[d],
         queue'[d] = queue[d], d \in upload'.docs => d \in upload.docs,
         \A w \in Workers :
           /\ task'[w].doc = d <=> task[w].doc = d
           /\ task[w].doc = d => /\ task'[w].pc = task[w].pc /\ task'[w].plan = task[w].plan
                                 /\ task'[w].captions = task[w].captions
  PROVE  Asked(d)' /\ Worked(d)'
<1>1. Asked(d)'
  BY DEF Asked
<1>2. Complete(d)' <=> Complete(d)
  BY DEF Complete
<1>3. Exists(d)' <=> Exists(d)
  BY DEF Exists
<1>4. ASSUME NEW w \in Workers, task'[w].doc = d, Exists(d)'
      PROVE  Halfway(w)'
  <2>1. task[w].doc = d /\ Halfway(w)
    BY <1>3, <1>4 DEF Worked
  <2>2. /\ task'[w].doc = d /\ task'[w].pc = task[w].pc /\ task'[w].plan = task[w].plan
        /\ task'[w].captions = task[w].captions
    BY <1>4, <2>1
  <2> QED  BY <1>2, <2>1, <2>2 DEF Halfway, Blank, Chunks
<1>5. Worked(d)'
  BY <1>2, <1>3, <1>4 DEF Worked
<1> QED  BY <1>1, <1>5

\* A step of a task leads to the next stage of its document.
LEMMA NextStage ==
  ASSUME Shape, NEW w \in Workers, Halfway(w), Exists(task[w].doc),
         \/ Clear(w) \/ Unlink(w) \/ Index(w) \/ Insert(w) \/ Draw(w) \/ Caption(w) \/ Publish(w)
  PROVE  Halfway(w)'
<1> DEFINE d == task[w].doc
           p == task[w].plan
<1>1. TypeOK /\ d \in Docs /\ Moves(w, Points)
  BY WorkShape DEF Shape
<1>2. task[w] \in Tasks /\ task[w].captions \in 0..1 /\ rows \in [Docs -> [Slots -> Plans \cup {Empty, Linked, Unlinked}]]
      /\ task'[w].doc = d /\ task'[w].plan = p
  BY <1>1 DEF TypeOK, Tasks, Moves
<1>3. p \in Plans /\ Length[p] \in Slots /\ Length[p] \in Nat /\ Slots \subseteq Nat
  <2>1. task[w].pc # "free" /\ Slot(w)
    BY DEF Clear, Unlink, Index, Insert, Draw, Caption, Publish, Shape
  <2> QED  BY <2>1, ParametersOK DEF Slot
<1>4. CASE Clear(w)
  <2>1. task'[w].pc = "unlink" /\ task'[w].captions = task[w].captions
    BY <1>1, <1>4, GotoType DEF Clear, Points
  <2>2. rows'[d] = Blank /\ status' = status
    BY <1>1, <1>2, <1>4 DEF Clear
  <2>3. task[w].captions = 0 /\ status[d] = "parsing"
    BY <1>4 DEF Clear, Halfway
  <2> QED  BY <1>2, <2>1, <2>2, <2>3 DEF Halfway, Blank
<1>5. CASE Unlink(w)
  <2>1. task'[w].pc = "index" /\ task'[w].captions = task[w].captions
    <3>1. task'[w] = [task[w] EXCEPT !.pc = "index"]
      BY <1>5 DEF Unlink
    <3> QED  BY <1>2, <3>1 DEF Tasks
  <2>2. rows[d] = Blank /\ task[w].captions = 0 /\ status[d] = "parsing"
    BY <1>5 DEF Unlink, Halfway
  <2>3. rows'[d] = [i \in Slots |-> IF rows[d][i] = Linked THEN Unlinked ELSE rows[d][i]]
    BY <1>1, <1>2, <1>5 DEF Unlink
  <2>4. rows'[d] = Blank /\ status' = status
    BY <1>5, <2>2, <2>3, ParametersOK DEF Unlink, Blank
  <2> QED  BY <1>2, <2>1, <2>2, <2>4 DEF Halfway, Blank
<1>6. CASE Index(w)
  <2>1. task'[w].pc = "insert" /\ task'[w].captions = task[w].captions
    BY <1>1, <1>6, GotoType DEF Index, Points
  <2>2. rows' = rows /\ status'[d] = "indexing"
    BY <1>1, <1>6, StatusType DEF Index
  <2>3. rows[d] = Blank /\ task[w].captions = 0
    BY <1>6 DEF Index, Halfway
  <2> QED  BY <1>2, <2>1, <2>2, <2>3 DEF Halfway, Blank
<1>7. CASE Insert(w)
  <2>1. task'[w].pc \in {"draw", "publish"} /\ task'[w].captions = task[w].captions
    BY <1>1, <1>7, GotoType DEF Insert, Points
  <2>2. rows[d] = Blank /\ task[w].captions = 0 /\ status[d] = "indexing"
    BY <1>7 DEF Insert, Halfway
  <2>3. rows'[d] = [i \in Slots |-> IF i < Length[p] /\ rows[d][i] = Empty THEN p ELSE rows[d][i]]
    BY <1>1, <1>2, <1>7 DEF Insert
  <2>4. rows'[d] = Chunks(p, Empty) /\ status' = status
    BY <1>7, <2>2, <2>3 DEF Insert, Blank, Chunks
  <2> QED  BY <1>2, <2>1, <2>2, <2>4 DEF Halfway, Chunks
<1>8. CASE Draw(w)
  <2>1. task'[w].pc \in {"caption", "publish"} /\ task'[w].captions = task[w].captions
    <3>1. CASE Goto(w, "publish")
      BY <1>1, <3>1, GotoType DEF Points
    <3>2. CASE ~Goto(w, "publish")
      <4> DEFINE new == [task[w] EXCEPT !.pc = "caption", !.picture = TRUE]
      <4>1. task' = [task EXCEPT ![w] = new]
        BY <1>8, <3>2 DEF Draw
      <4>2. new.pc = "caption" /\ new.captions = task[w].captions
        BY <1>2 DEF Tasks
      <4> HIDE DEF new
      <4> QED  BY <1>1, <4>1, <4>2 DEF TypeOK
    <3> QED  BY <3>1, <3>2
  <2>2. rows[d] = Chunks(p, Empty) /\ task[w].captions = 0 /\ status[d] = "indexing"
    BY <1>8 DEF Draw, Halfway
  <2>3. rows' = rows /\ status' = status
    BY <1>8 DEF Draw
  <2> QED  BY <1>2, <2>1, <2>2, <2>3 DEF Halfway, Chunks
<1>9. CASE Caption(w)
  <2>1. rows[d] = Chunks(p, Empty) /\ task[w].captions = 0 /\ status[d] = "indexing" /\ status' = status
    BY <1>9 DEF Caption, Halfway
  <2>2. CASE Goto(w, "publish") /\ UNCHANGED rows
    <3>1. task'[w].pc = "publish" /\ task'[w].captions = task[w].captions
      BY <1>1, <2>2, GotoType DEF Points
    <3> QED  BY <1>2, <2>1, <2>2, <3>1 DEF Halfway, Chunks
  <2>3. CASE ~(Goto(w, "publish") /\ UNCHANGED rows)
    <3> DEFINE new == [task[w] EXCEPT !.pc = "publish", !.captions = 1]
    <3>1. task' = [task EXCEPT ![w] = new] /\ rows' = [rows EXCEPT ![d][Length[p]] = Linked]
      BY <1>9, <2>3 DEF Caption
    <3>2. new.pc = "publish" /\ new.captions = 1
      BY <1>2 DEF Tasks
    <3> HIDE DEF new
    <3>3. task'[w] = new
      BY <1>1, <3>1 DEF TypeOK
    <3>4. rows'[d] = [rows[d] EXCEPT ![Length[p]] = Linked]
      BY <1>1, <1>2, <3>1
    <3>5. rows'[d] = Chunks(p, Linked)
      <4>1. rows'[d] = [i \in Slots |-> IF i = Length[p] THEN Linked ELSE rows[d][i]]
        BY <1>1, <1>2, <3>4
      <4>2. \A i \in Slots : rows[d][i] = IF i < Length[p] THEN p ELSE Empty
        BY <2>1 DEF Chunks
      <4>3. \A i \in Slots : i = Length[p] => ~(i < Length[p])
        BY <1>3
      <4> QED  BY <4>1, <4>2, <4>3 DEF Chunks
    <3> QED  BY <1>2, <2>1, <3>2, <3>3, <3>5 DEF Halfway, Chunks
  <2> QED  BY <2>2, <2>3
<1>10. CASE Publish(w)
  <2> DEFINE last == IF task[w].captions = 1 THEN Linked ELSE Empty
  <2>1. task'[w].pc = "tally"
    BY <1>1, <1>10, GotoType DEF Publish, Points
  <2>2. rows[d] = Chunks(p, last) /\ rows' = rows
    BY <1>10 DEF Publish, Halfway
  <2>3. status'[d] = "parsed"
    BY <1>1, <1>10, StatusType DEF Publish
  <2>4. counted'[d] = Length[p] + task[w].captions
    BY <1>1, <1>10 DEF Publish, TypeOK
  <2>5. task[w].captions = IF last = Linked THEN 1 ELSE 0
    BY <1>2, ParametersOK
  <2>6. last \in {Empty, Linked}
    OBVIOUS
  <2>7. /\ rows'[d] = [i \in Slots |-> IF i < Length[p] THEN p
                                       ELSE IF i = Length[p] THEN last ELSE Empty]
        /\ counted'[d] = Length[p] + (IF last = Linked THEN 1 ELSE 0)
    BY <2>2, <2>4, <2>5 DEF Chunks
  <2> HIDE DEF last
  <2>8. Complete(task[w].doc)'
    <3>1. \E q \in Plans, l \in {Empty, Linked} :
            /\ rows'[task'[w].doc] = [i \in Slots |-> IF i < Length[q] THEN q
                                                       ELSE IF i = Length[q] THEN l ELSE Empty]
            /\ counted'[task'[w].doc] = Length[q] + (IF l = Linked THEN 1 ELSE 0)
      BY <1>2, <1>3, <2>6, <2>7
    <3> QED  BY <3>1 DEF Complete
  <2> QED  BY <1>2, <2>1, <2>3, <2>8 DEF Halfway
<1> QED  BY <1>4, <1>5, <1>6, <1>7, <1>8, <1>9, <1>10

LEMMA WorkParsing ==
  ASSUME Shape, Parsing, NEW w \in Workers,
         \/ Clear(w) \/ Unlink(w) \/ Index(w) \/ Insert(w) \/ Draw(w) \/ Caption(w) \/ Publish(w)
  PROVE  Parsing'
<1>0. PICK d \in Docs : d = task[w].doc
  BY WorkShape
<1>1. TypeOK /\ d = task[w].doc /\ Moves(w, Points) /\ Shape'
  BY <1>0, WorkShape DEF Shape
<1>2. Asked(d) /\ Worked(d) /\ UNCHANGED <<queue, upload>>
  BY <1>1 DEF Parsing, Clear, Unlink, Index, Insert, Draw, Caption, Publish
<1>3. \A v \in Workers : task'[v].doc = task[v].doc
  BY <1>1 DEF Moves
<1>4. ASSUME NEW e \in Docs, e # d
      PROVE  Asked(e)' /\ Worked(e)'
  <2>1. status'[e] = status[e]
    <3>1. CASE Index(w)
      BY <1>1, <1>4, <3>1, StatusType DEF Index
    <3>2. CASE Publish(w)
      BY <1>1, <1>4, <3>2, StatusType DEF Publish
    <3> QED  BY <3>1, <3>2 DEF Clear, Unlink, Insert, Draw, Caption
  <2>2. rows'[e] = rows[e] /\ counted'[e] = counted[e]
    <3>1. rows \in [Docs -> [Slots -> Plans \cup {Empty, Linked, Unlinked}]]
          /\ counted \in [Docs -> Nat]
      BY <1>1 DEF TypeOK
    <3> QED
      BY <1>1, <1>4, <3>1 DEF Clear, Unlink, Index, Insert, Draw, Caption, Publish
  <2>3. ASSUME NEW v \in Workers, task[v].doc = e
        PROVE  /\ task'[v].pc = task[v].pc /\ task'[v].plan = task[v].plan
               /\ task'[v].captions = task[v].captions
    BY <1>1, <1>4, <2>3 DEF Moves
  <2>4. Asked(e) /\ Worked(e)
    BY DEF Parsing
  <2> QED  BY <1>2, <1>3, <2>1, <2>2, <2>3, <2>4, Elsewhere
<1>5. status'[d] = status[d] \/ (Exists(d) /\ status'[d] \in {"indexing", "parsed"})
  <2>1. CASE Index(w)
    BY <1>1, <2>1, StatusType DEF Index
  <2>2. CASE Publish(w)
    BY <1>1, <2>2, StatusType DEF Publish
  <2> QED  BY <2>1, <2>2 DEF Clear, Unlink, Insert, Draw, Caption
<1>6. Asked(d)'
  <2>1. status[d] # "absent" /\ d \notin upload.docs
    BY <1>1, <1>2 DEF Asked
  <2> QED  BY <1>2, <1>3, <1>5, <2>1 DEF Asked
<1>7. Worked(d)'
  <2>1. Exists(d)' => Exists(d)
    BY <1>5 DEF Exists
  <2>2. Exists(d)' => Halfway(w)'
    BY <1>1, <1>2, <2>1, NextStage DEF Worked
  <2>3. task'[w].doc = d /\ \A v \in Workers : task'[v].doc = d => v = w
    BY <1>1, <1>2, <1>3 DEF Asked
  <2> QED  BY <2>2, <2>3 DEF Worked
<1> QED  BY <1>4, <1>6, <1>7 DEF Parsing

LEMMA EndParsing ==
  ASSUME Shape, Parsing, NEW w \in Workers,
         Tally(w) \/ GiveUp(w) \/ RetryLater(w) \/ WorkerLost(w)
  PROVE  Parsing'
<1>0. PICK d \in Docs : d = task[w].doc
  BY EndShape
<1>1. /\ TypeOK /\ Shape' /\ d = task[w].doc
      /\ task'[w] = Free /\ \A v \in Workers : v # w => task'[v] = task[v]
  BY <1>0, EndShape DEF Shape
<1>2. Asked(d) /\ Worked(d) /\ UNCHANGED <<rows, counted, upload>>
  BY <1>1 DEF Parsing, Tally, GiveUp, RetryLater, Fails, WorkerLost
<1>3. Free.doc \notin Docs /\ Free.doc = NoDoc
  BY ParametersOK DEF Free
<1>4. /\ \A e \in Docs : e # d => status'[e] = status[e]
      /\ status'[d] = status[d] \/ status'[d] = "failed"
      /\ status'[d] = "failed" \/ ~Exists(d) \/ (task[w].pc # "free" /\ status'[d] = status[d])
      /\ ~Exists(d) => status'[d] = status[d]
  <2>1. CASE GiveUp(w) \/ RetryLater(w)
    <3>1. Mark(d, "failed")
      BY <1>1, <2>1 DEF GiveUp, RetryLater, Fails
    <3> QED  BY <1>1, <3>1, StatusType
  <2>2. CASE Tally(w) \/ WorkerLost(w)
    <3>1. task[w].pc # "free" /\ status' = status
      BY <2>2, ParametersOK DEF Tally, WorkerLost, Points
    <3> QED  BY <3>1
  <2> QED  BY <2>1, <2>2
<1>5. /\ \A e \in Docs : e # d => queue'[e] = queue[e]
      /\ \/ queue' = queue
         \/ /\ task[w].tries + 1 \in 0..MaxRetries
            /\ \A n \in 0..MaxRetries :
                 queue'[d][n] = IF n = task[w].tries + 1 THEN queue[d][n] + 1 ELSE queue[d][n]
  <2>1. CASE UNCHANGED queue
    BY <2>1
  <2>2. CASE RetryLater(w) /\ ~UNCHANGED queue
    <3>1. task[w].tries < MaxRetries /\ queue' = Sent({d}, task[w].tries + 1)
      BY <1>1, <2>2 DEF RetryLater, Fails
    <3>2. task[w].tries + 1 \in 0..MaxRetries
      BY <1>1, <3>1, ParametersOK DEF TypeOK, Tasks
    <3>3. \A e \in Docs : e # d => queue'[e] = queue[e]
      BY <3>1 DEF Sent
    <3>4. \A n \in 0..MaxRetries : Sent({d}, task[w].tries + 1)[d][n] =
            IF n = task[w].tries + 1 THEN queue[d][n] + 1 ELSE queue[d][n]
      <4>1. TypeOK /\ d \in Docs /\ d \in {d}
        BY <1>1
      <4>2. \A e \in Docs, n \in 0..MaxRetries : Sent({d}, task[w].tries + 1)[e][n] =
              IF e \in {d} /\ n = task[w].tries + 1 THEN queue[e][n] + 1 ELSE queue[e][n]
        BY ONLY <3>2, <4>1, SentType
      <4> QED  BY ONLY <4>1, <4>2
    <3> QED  BY <3>1, <3>2, <3>3, <3>4
  <2> QED  BY <2>1, <2>2 DEF Tally, GiveUp, Fails, WorkerLost
<1>6. ASSUME NEW e \in Docs, e # d
      PROVE  Asked(e)' /\ Worked(e)'
  <2>1. \A v \in Workers :
          /\ task'[v].doc = e <=> task[v].doc = e
          /\ task[v].doc = e => task'[v] = task[v]
    BY <1>1, <1>3, <1>6
  <2>2. Asked(e) /\ Worked(e)
    BY DEF Parsing
  <2> QED  BY <1>2, <1>4, <1>5, <1>6, <2>1, <2>2, Elsewhere
<1>7. \A v \in Workers : task'[v].doc # d
  BY <1>1, <1>2, <1>3 DEF Asked
<1>8. Asked(d)'
  <2>1. d \notin upload.docs /\ status[d] # "absent" /\ queue \in [Docs -> [0..MaxRetries -> Nat]]
    BY <1>1, <1>2 DEF Asked, TypeOK
  <2>2. \A n \in 0..MaxRetries : queue[d][n] = 0
    <3>1. \A n \in 0..MaxRetries : queue[d][n] \in Nat
      BY <2>1
    <3> QED  BY <1>1, <1>2, <3>1 DEF Asked
  <2>3. \A n \in 0..MaxRetries : queue'[d][n] > 0 =>
          queue'[d][n] = 1 /\ \A m \in 0..MaxRetries : queue'[d][m] > 0 => m = n
    BY <1>5, <2>2
  <2> QED  BY <1>2, <1>4, <1>7, <2>1, <2>3 DEF Asked
<1>9. Worked(d)'
  <2>1. ASSUME status'[d] = "parsed"
        PROVE  Complete(d)
    <3>1. status[d] = "parsed" /\ Exists(d) /\ task[w].pc # "free"
      BY <1>4, <2>1 DEF Exists
    <3>2. Halfway(w)
      BY <1>1, <1>2, <3>1 DEF Worked
    <3>3. task[w].pc = "tally"
      BY <1>1, <3>1, <3>2 DEF Halfway, TypeOK, Tasks, Points
    <3> QED  BY <1>1, <3>2, <3>3 DEF Halfway
  <2>2. Complete(d)' <=> Complete(d)
    BY <1>2 DEF Complete
  <2> QED  BY <1>7, <2>1, <2>2 DEF Worked
<1> QED  BY <1>6, <1>8, <1>9 DEF Parsing

LEMMA StartParsing ==
  ASSUME Shape, Parsing, NEW w \in Workers, NEW d \in Docs, NEW n \in 0..MaxRetries, Start(w, d, n)
  PROVE  Parsing'
<1>1. /\ TypeOK /\ Slot(w) /\ task[w].pc = "free" /\ queue[d][n] > 0
      /\ \A v \in Workers : v # w => task'[v] = task[v]
      /\ UNCHANGED <<rows, counted, upload>>
  BY StartShape DEF Shape, Start
<1>2. task[w].doc \notin Docs
  BY <1>1, ParametersOK DEF Slot, Free
<1>3. /\ Exists(d) => /\ task'[w].pc = "clear" /\ task'[w].doc = d /\ task'[w].captions = 0
      /\ ~Exists(d) => task' = task
  <2> DEFINE new == [Free EXCEPT !.pc = "clear", !.doc = d, !.plan = plan, !.tries = n]
  <2>1. new.pc = "clear" /\ new.doc = d /\ new.captions = 0
    BY DEF Free
  <2>2. task' = IF Exists(d) THEN [task EXCEPT ![w] = new] ELSE task
    BY DEF Start
  <2> HIDE DEF new
  <2> QED  BY <1>1, <2>1, <2>2 DEF TypeOK
<1>4. /\ \A e \in Docs : e # d => status'[e] = status[e]
      /\ Exists(d) => status'[d] = "parsing"
      /\ ~Exists(d) => status'[d] = status[d]
  BY <1>1, StatusType DEF Start
<1>5. /\ \A e \in Docs : e # d => queue'[e] = queue[e]
      /\ \A m \in 0..MaxRetries : queue'[d][m] = IF m = n THEN queue[d][n] - 1 ELSE queue[d][m]
  <2>1. queue \in [Docs -> [0..MaxRetries -> Nat]] /\ queue[d] \in [0..MaxRetries -> Nat]
    BY <1>1 DEF TypeOK
  <2>2. queue' = [queue EXCEPT ![d] = [queue[d] EXCEPT ![n] = queue[d][n] - 1]]
    BY DEF Start
  <2>3. queue'[d] = [queue[d] EXCEPT ![n] = queue[d][n] - 1]
    BY <2>1, <2>2
  <2> QED  BY <2>1, <2>2, <2>3
<1>6. Asked(d) /\ Worked(d)
  BY DEF Parsing
<1>7. /\ d \notin upload.docs /\ \A v \in Workers : task[v].doc # d
      /\ status[d] # "absent" /\ \A m \in 0..MaxRetries : queue'[d][m] = 0
  <2>1. \A m \in 0..MaxRetries : queue[d][m] \in Nat
    <3>1. queue[d] \in [0..MaxRetries -> Nat]
      BY <1>1 DEF TypeOK
    <3> QED  BY <3>1
  <2> QED  BY <1>1, <1>5, <1>6, <2>1 DEF Asked
<1>8. ASSUME NEW e \in Docs, e # d
      PROVE  Asked(e)' /\ Worked(e)'
  <2>1. \A v \in Workers :
          /\ task'[v].doc = e <=> task[v].doc = e
          /\ task[v].doc = e => task'[v] = task[v]
    BY <1>1, <1>2, <1>3, <1>8
  <2>2. Asked(e) /\ Worked(e)
    BY DEF Parsing
  <2> QED  BY <1>1, <1>4, <1>5, <1>8, <2>1, <2>2, Elsewhere
<1>9. \A v \in Workers : task'[v].doc = d => v = w /\ Exists(d)
  BY <1>1, <1>3, <1>7
<1>10. Asked(d)'
  BY <1>1, <1>4, <1>7, <1>9 DEF Asked, Exists
<1>11. Worked(d)'
  <2>1. ~Exists(d) => ~Exists(d)' /\ status'[d] # "parsed"
    BY <1>4 DEF Exists
  <2>2. Exists(d) => status'[d] = "parsing" /\ Halfway(w)'
    BY <1>3, <1>4 DEF Halfway
  <2> QED  BY <1>9, <2>1, <2>2 DEF Worked
<1> QED  BY <1>8, <1>10, <1>11 DEF Parsing

\* Another call or the beat task asks for a document only if nothing does.
LEMMA CallParsing ==
  ASSUME Shape, Parsing, ~Overlap,
         \/ \E d \in Docs : UploadDoc(d) \/ Reparse(d) \/ RemoveDoc(d) \/ UploadSend(d)
         \/ UploadMark \/ UploadAborted \/ RemoveCount \/ RemoveWrite
         \/ \E p \in Plans : ChangePlan(p)
         \/ Reindex
  PROVE  Parsing'
<1>1. /\ TypeOK /\ task' = task /\ queue \in [Docs -> [0..MaxRetries -> Nat]]
      /\ 0 \in 0..MaxRetries /\ status \in [Docs -> InProgress \cup {"absent", "parsed", "failed", "removed"}]
  BY ParametersOK DEF Shape, TypeOK, UploadDoc, Reparse, RemoveDoc, UploadSend, UploadMark, UploadAborted,
       RemoveCount, RemoveWrite, ChangePlan, Reindex
<1>2. ASSUME NEW d \in Docs, Submit(d)
      PROVE  /\ \A e \in Docs : e # d => queue'[e] = queue[e]
             /\ \/ queue' = queue
                \/ \A m \in 0..MaxRetries :
                     queue'[d][m] = IF m = 0 THEN queue[d][m] + 1 ELSE queue[d][m]
  <2>1. CASE queue' = Sent({d}, 0)
    <3>1. \A e \in Docs : e # d => queue'[e] = queue[e]
      BY <2>1 DEF Sent
    <3>2. \A m \in 0..MaxRetries :
            Sent({d}, 0)[d][m] = IF m = 0 THEN queue[d][m] + 1 ELSE queue[d][m]
      BY <1>1, SentType
    <3> QED  BY <2>1, <3>1, <3>2
  <2> QED  BY <1>2, <2>1 DEF Submit
<1>3. ASSUME NEW d \in Docs,
             status'[d] = status[d], rows'[d] = rows[d], counted'[d] = counted[d],
             queue'[d] = queue[d], d \in upload'.docs => d \in upload.docs
      PROVE  Asked(d)' /\ Worked(d)'
  <2>1. Asked(d) /\ Worked(d)
    BY DEF Parsing
  <2> QED  BY <1>1, <1>3, <2>1, Elsewhere
<1>4. ASSUME NEW d \in Docs, UploadDoc(d)
      PROVE  Parsing'
  <2>1. Asked(d) /\ upload'.docs = upload.docs \cup {d} /\ status[d] = "absent" /\ status'[d] = "pending"
        /\ queue' = queue
    BY <1>1, <1>4 DEF Parsing, UploadDoc
  <2>2. Asked(d)' /\ Worked(d)'
    BY <1>1, <2>1 DEF Asked, Worked
  <2>3. ASSUME NEW e \in Docs, e # d
        PROVE  Asked(e)' /\ Worked(e)'
    BY <1>1, <1>3, <1>4, <2>1, <2>3 DEF UploadDoc
  <2> QED  BY <2>2, <2>3 DEF Parsing
<1>5. ASSUME NEW d \in Docs, Reparse(d)
      PROVE  Parsing'
  <2>1. Quiet(d) /\ Exists(d) /\ status'[d] = "parsing" /\ Submit(d) /\ upload' = upload
    BY <1>1, <1>5 DEF Reparse
  <2>2. \A w \in Workers : task[w].doc # d
    BY <2>1 DEF Quiet, Doing
  <2>3. d \notin upload.docs /\ \A n \in 0..MaxRetries : queue[d][n] = 0
    BY <2>1 DEF Quiet
  <2>4. \A n \in 0..MaxRetries : queue'[d][n] > 0 => queue'[d][n] = 1 /\ n = 0
    BY <1>2, <2>1, <2>3
  <2>5. Asked(d)' /\ Worked(d)'
    BY <1>1, <2>1, <2>2, <2>3, <2>4 DEF Asked, Worked
  <2>6. ASSUME NEW e \in Docs, e # d
        PROVE  Asked(e)' /\ Worked(e)'
    BY <1>1, <1>2, <1>3, <1>5, <2>1, <2>6 DEF Reparse
  <2> QED  BY <2>5, <2>6 DEF Parsing
<1>6. ASSUME NEW d \in Docs, RemoveDoc(d)
      PROVE  Parsing'
  <2>1. Asked(d) /\ Exists(d) /\ status'[d] = "removed" /\ UNCHANGED <<queue, upload>>
    BY <1>1, <1>6 DEF RemoveDoc, Parsing
  <2>2. Asked(d)' /\ Worked(d)'
    BY <1>1, <2>1 DEF Asked, Worked, Exists
  <2>3. ASSUME NEW e \in Docs, e # d
        PROVE  Asked(e)' /\ Worked(e)'
    <3>1. status'[e] = status[e] /\ rows'[e] = rows[e] /\ counted'[e] = counted[e]
      BY <1>1, <1>6, <2>3 DEF RemoveDoc, TypeOK
    <3> QED  BY <1>3, <2>1, <3>1
  <2> QED  BY <2>2, <2>3 DEF Parsing
<1>7. ASSUME NEW d \in Docs, UploadSend(d)
      PROVE  Parsing'
  <2>1. /\ Asked(d) /\ Worked(d) /\ d \in upload.docs /\ Submit(d)
        /\ UNCHANGED <<status, rows, counted>>
    BY <1>7 DEF Parsing, UploadSend, document
  <2>2. d \notin upload'.docs /\ upload'.docs \subseteq upload.docs
    <3>1. CASE upload.docs = {d}
      BY <1>7, <3>1 DEF UploadSend, NoUpload
    <3>2. CASE upload.docs # {d}
      BY <1>1, <1>7, <3>2 DEF UploadSend, TypeOK
    <3> QED  BY <3>1, <3>2
  <2>3. status[d] \in {"pending", "removed"} /\ \A w \in Workers : task[w].doc # d
    BY <2>1 DEF Asked
  <2>4. \A n \in 0..MaxRetries : queue[d][n] = 0
    <3>1. \A n \in 0..MaxRetries : queue[d][n] \in Nat
      BY <1>1
    <3> QED  BY <2>1, <3>1 DEF Asked
  <2>5. \A n \in 0..MaxRetries : queue'[d][n] > 0 => queue'[d][n] = 1 /\ n = 0
    BY <1>2, <2>1, <2>4
  <2>6. Asked(d)' /\ Worked(d)'
    BY <1>1, <2>1, <2>2, <2>3, <2>5 DEF Asked, Worked
  <2>7. ASSUME NEW e \in Docs, e # d
        PROVE  Asked(e)' /\ Worked(e)'
    BY <1>2, <1>3, <2>1, <2>2, <2>7
  <2> QED  BY <2>6, <2>7 DEF Parsing
<1>8. CASE UploadAborted
  <2>1. upload'.docs = {} /\ UNCHANGED <<status, rows, counted, queue>>
    BY <1>8 DEF UploadAborted, NoUpload, document
  <2> QED  BY <1>3, <2>1 DEF Parsing
<1>9. CASE UploadMark
  <2>1. upload'.docs = upload.docs /\ UNCHANGED <<status, rows, counted, queue>>
    BY <1>1, <1>9 DEF UploadMark, document, TypeOK
  <2> QED  BY <1>3, <2>1 DEF Parsing
<1>10. CASE UNCHANGED <<document, queue, upload>>
  BY <1>3, <1>10 DEF Parsing, document
<1> QED  BY <1>4, <1>5, <1>6, <1>7, <1>8, <1>9, <1>10 DEF RemoveCount, RemoveWrite, ChangePlan, Reindex

LEMMA ReconcileParsing ==
  ASSUME Shape, Parsing, ~Overlap, NEW v \in Workers, Reconcile(v)
  PROVE  Parsing'
<1>1. /\ TypeOK /\ UNCHANGED <<task, rows, counted, upload>> /\ 0 \in 0..MaxRetries
  BY ParametersOK DEF Shape, Reconcile
<1>2. PICK S \in SUBSET {d \in Docs : Stale(d)} :
        /\ queue' = Sent(S, 0)
        /\ status' = [d \in Docs |-> IF d \in S THEN "pending" ELSE status[d]]
  BY DEF Reconcile
<1>3. ASSUME NEW d \in Docs
      PROVE  Asked(d)' /\ Worked(d)'
  <2>1. Asked(d) /\ Worked(d)
    BY DEF Parsing
  <2>2. CASE d \notin S
    <3>1. status'[d] = status[d] /\ queue'[d] = queue[d]
      BY <1>2, <2>2 DEF Sent
    <3> QED  BY <1>1, <2>1, <3>1, Elsewhere
  <2>3. CASE d \in S
    <3>1. Quiet(d) /\ status'[d] = "pending"
      BY <1>2, <2>3 DEF Stale
    <3>2. d \notin upload.docs /\ (\A w \in Workers : task[w].doc # d)
      BY <3>1 DEF Quiet, Doing
    <3>3. \A n \in 0..MaxRetries : queue'[d][n] > 0 => queue'[d][n] = 1 /\ n = 0
      <4>1. \A n \in 0..MaxRetries : queue[d][n] = 0
        BY <3>1 DEF Quiet
      <4> QED  BY <1>1, <1>2, <2>3, <4>1, SentType
    <3> QED  BY <1>1, <3>1, <3>2, <3>3 DEF Asked, Worked
  <2> QED  BY <2>2, <2>3
<1> QED  BY <1>3 DEF Parsing

LEMMA NextParsing ==
  ASSUME Shape, Parsing, ~Overlap, [Next]_vars
  PROVE  Parsing'
<1>1. CASE \/ \E d \in Docs : UploadDoc(d) \/ Reparse(d) \/ RemoveDoc(d)
           \/ UploadStep \/ UploadAborted \/ RemoveCount \/ RemoveWrite
           \/ \E p \in Plans : ChangePlan(p)
           \/ Reindex
  BY <1>1, CallParsing DEF UploadStep
<1>2. CASE \E w \in Workers : Take(w) \/ TaskStep(w) \/ WorkerLost(w)
  BY <1>2, StartParsing, WorkParsing, EndParsing DEF Take, TaskStep
<1>3. CASE Beat
  BY <1>3, ReconcileParsing DEF Beat
<1>4. CASE UNCHANGED vars
  <2>1. ASSUME NEW d \in Docs
        PROVE  Asked(d)' /\ Worked(d)'
    <3>1. Asked(d) /\ Worked(d) /\ UNCHANGED <<status, rows, counted, queue, upload, task>>
      BY <1>4 DEF Parsing, vars, document
    <3> QED  BY <3>1, Elsewhere
  <2> QED  BY <2>1 DEF Parsing
<1> QED  BY <1>1, <1>2, <1>3, <1>4 DEF Next

LEMMA ParsingHolds ==
  ASSUME ~Overlap
  PROVE  Spec => [](Shape /\ Parsing)
<1>1. Init => Parsing
  <2> SUFFICES ASSUME Init, NEW d \in Docs PROVE Asked(d) /\ Worked(d)
    BY DEF Parsing
  <2>1. /\ \A w \in Workers : task[w].doc # d
        /\ \A n \in 0..MaxRetries : queue[d][n] = 0
        /\ upload.docs = {} /\ status[d] = "absent"
    BY ParametersOK DEF Init, Free, NoUpload
  <2> QED  BY <2>1 DEF Asked, Worked
<1>2. Shape /\ Parsing /\ [Next]_vars => Parsing'
  BY NextParsing
<1> QED  BY <1>1, <1>2, ShapeHolds, PTL DEF Spec

\* When a document is not dispatched while an earlier task of it lives, a parsed
\* document on which nothing works has exactly the chunks of one parse and their
\* count: after any crashes, retries, lost submissions and changed settings.
THEOREM ParsedAlwaysComplete ==
  ASSUME ~Overlap
  PROVE  Spec => []ParsedComplete
<1>1. Parsing => ParsedComplete
  <2> SUFFICES ASSUME Parsing, NEW d \in Docs, status[d] = "parsed", Quiet(d) PROVE Complete(d)
    BY DEF ParsedComplete
  <2>1. \A w \in Workers : task[w].doc # d
    BY DEF Quiet, Doing
  <2> QED  BY <2>1 DEF Parsing, Worked
<1> QED  BY <1>1, ParsingHolds, PTL

-----------------------------------------------------------------------------
(* The library is opened and counted                                        *)

\* A document in progress, after the step as before it.
LEMMA StillInWork ==
  ASSUME NEW d \in Docs, status'[d] \in {"pending", "parsing", "indexing"}
  PROVE  InWork' # {}
  BY DEF InWork, InProgress

\* Steps of a task that neither end it nor set the status of its document.
Inner(w) == Clear(w) \/ Unlink(w) \/ Insert(w) \/ Draw(w) \/ Caption(w)

LEMMA InnerMoves ==
  ASSUME Shape, NEW w \in Workers, Inner(w)
  PROVE  /\ UNCHANGED <<status, kb, behind, removal>> /\ task[w].pc \notin {"free", "tally"}
         /\ \A v \in Workers :
              task'[v].doc = task[v].doc /\ (task'[v].pc = "free" <=> task[v].pc = "free")
         /\ \A v \in Workers : v # w => task'[v].pc = task[v].pc
         /\ task[w].doc \in Docs
<1>1. Moves(w, Points) /\ task[w].doc \in Docs
  BY WorkShape DEF Inner
<1>2. task[w].pc \in {"clear", "unlink", "insert", "draw", "caption"} /\ UNCHANGED <<status, kb, behind, removal>>
  BY DEF Inner, Clear, Unlink, Insert, Draw, Caption
<1>3. task'[w].pc # "free"
  BY <1>1, ParametersOK DEF Moves, Points
<1> QED  BY <1>1, <1>2, <1>3 DEF Moves

LEMMA OpenedStep ==
  ASSUME Shape, Opened, [Next]_vars
  PROVE  Opened'
<1> SUFFICES ASSUME InWork' = {}, \A w \in Workers : task'[w].pc # "tally", "status" \notin behind'
             PROVE  kb'.status = "ready" \/ \A d \in Docs : status'[d] = "absent"
  BY DEF Opened
<1>0. TypeOK /\ task \in [Workers -> Tasks] /\ \A d \in Docs : status'[d] \notin {"pending", "parsing", "indexing"}
  BY StillInWork DEF Shape, TypeOK
<1>1. ASSUME UNCHANGED status, behind \subseteq behind', kb'.status = kb.status,
             \A w \in Workers : task[w].pc # "tally"
      PROVE  kb'.status = "ready" \/ \A d \in Docs : status'[d] = "absent"
  BY <1>1 DEF Opened, InWork
<1>2. ASSUME NEW d \in Docs, UploadDoc(d) \/ Reparse(d)
      PROVE  FALSE
  BY <1>0, <1>2 DEF UploadDoc, Reparse, TypeOK
<1>3. ASSUME NEW d \in Docs, RemoveDoc(d)
      PROVE  kb'.status = "ready"
  <2>1. /\ status[d] \notin InProgress /\ behind' = behind /\ Exists(d)
        /\ status' = [status EXCEPT ![d] = "removed"] /\ UNCHANGED <<kb, task>>
    BY <1>3 DEF RemoveDoc
  <2>2. InWork = {}
    BY <1>0, <2>1 DEF InWork, InProgress, TypeOK
  <2> QED  BY <2>1, <2>2 DEF Opened, Exists
<1>4. CASE UploadMark
  BY <1>4 DEF UploadMark, document, InWork
<1>5. CASE Reindex
  BY <1>5 DEF Reindex
<1>6. CASE \/ \E d \in Docs : UploadSend(d)
           \/ UploadAborted \/ RemoveCount \/ RemoveWrite \/ UNCHANGED vars
           \/ \E p \in Plans : ChangePlan(p)
  <2>1. UNCHANGED <<status, behind, task>> /\ kb'.status = kb.status
    BY <1>0, <1>6 DEF UploadSend, UploadAborted, RemoveCount, RemoveWrite, ChangePlan, vars, document, TypeOK
  <2> QED  BY <1>1, <2>1
<1>7. ASSUME NEW w \in Workers, NEW d \in Docs, NEW n \in 0..MaxRetries, Start(w, d, n)
      PROVE  kb'.status = "ready" \/ \A e \in Docs : status'[e] = "absent"
  <2>1. ~Exists(d)
    BY <1>0, <1>7, StatusType DEF Start
  <2>2. UNCHANGED <<status, task, kb, behind>>
    BY <1>7, <2>1 DEF Start, Mark
  <2> QED  BY <1>1, <2>2
<1>8. ASSUME NEW w \in Workers, Inner(w)
      PROVE  kb'.status = "ready" \/ \A e \in Docs : status'[e] = "absent"
  <2>1. \A v \in Workers : task[v].pc # "tally"
    BY <1>8, InnerMoves
  <2> QED  BY <1>1, <1>8, <2>1, InnerMoves
<1>9. ASSUME NEW w \in Workers, Index(w)
      PROVE  kb'.status = "ready" \/ \A e \in Docs : status'[e] = "absent"
  <2>1. task[w].pc = "index" /\ task[w].doc \in Docs /\ Mark(task[w].doc, "indexing") /\ Goto(w, "insert")
        /\ UNCHANGED <<kb, behind>>
    BY <1>9 DEF Index, Shape, Slot
  <2>2. ~Exists(task[w].doc)
    BY <1>0, <2>1, StatusType
  <2>3. \A v \in Workers : task[v].pc # "tally"
    BY <1>0, <2>1, GotoType DEF Points
  <2> QED  BY <1>1, <2>1, <2>2, <2>3 DEF Mark
<1>10. ASSUME NEW w \in Workers, Publish(w)
       PROVE  FALSE
  BY <1>0, <1>10, GotoType DEF Publish, Points
<1>11. ASSUME NEW w \in Workers, Tally(w)
       PROVE  kb'.status = "ready"
  BY <1>11 DEF Tally, InWork
<1>12. ASSUME NEW w \in Workers, GiveUp(w) \/ RetryLater(w)
       PROVE  FALSE
  BY <1>12 DEF GiveUp, RetryLater, Fails, Columns
<1>13. ASSUME NEW w \in Workers, WorkerLost(w)
       PROVE  FALSE
  BY <1>13 DEF WorkerLost, Columns, InWork
<1>14. ASSUME NEW v \in Workers, Reconcile(v)
       PROVE  FALSE
  <2>1. PICK S \in SUBSET Docs :
          S # {} /\ status' = [d \in Docs |-> IF d \in S THEN "pending" ELSE status[d]]
    BY <1>14 DEF Reconcile
  <2> QED  BY <1>0, <2>1
<1>15. ASSUME NEW w \in Workers, Take(w) \/ TaskStep(w) \/ WorkerLost(w)
       PROVE  kb'.status = "ready" \/ \A e \in Docs : status'[e] = "absent"
  BY <1>7, <1>8, <1>9, <1>10, <1>11, <1>12, <1>13, <1>15 DEF Take, TaskStep, Inner
<1> QED  BY <1>2, <1>3, <1>4, <1>5, <1>6, <1>14, <1>15 DEF Next, UploadStep, Beat

\* A document that is not there is not brought back, but by an upload.
LEMMA Appears ==
  ASSUME Shape, [Next]_vars, NEW d \in Docs, ~Exists(d)', Exists(d)
  PROVE  RemoveDoc(d)
<1>0. TypeOK /\ Exists(d) /\ status'[d] \in {"absent", "removed"}
  BY DEF Shape, Exists
<1>1. ASSUME NEW e \in Docs, NEW s \in {"pending", "parsing", "indexing", "parsed", "failed"}, Mark(e, s)
      PROVE  FALSE
  BY <1>0, <1>1, StatusType DEF Exists
<1>2. ASSUME NEW e \in Docs, UploadDoc(e) \/ Reparse(e)
      PROVE  FALSE
  BY <1>0, <1>2 DEF UploadDoc, Reparse, TypeOK, Exists
<1>3. ASSUME NEW e \in Docs, RemoveDoc(e)
      PROVE  e = d
  BY <1>0, <1>3 DEF RemoveDoc, TypeOK, Exists
<1>4. ASSUME UNCHANGED status
      PROVE  FALSE
  BY <1>0, <1>4 DEF Exists
<1>5. ASSUME NEW w \in Workers, TaskStep(w) \/ WorkerLost(w)
      PROVE  FALSE
  <2>1. CASE Index(w) \/ Publish(w) \/ GiveUp(w) \/ RetryLater(w)
    <3>1. task[w].doc \in Docs
      <4>1. task[w].pc # "free"
        BY <2>1 DEF Index, Publish, GiveUp, RetryLater, Fails
      <4> QED  BY <4>1 DEF Shape, Slot
    <3>2. \E s \in {"indexing", "parsed", "failed"} : Mark(task[w].doc, s)
      BY <2>1 DEF Index, Publish, GiveUp, RetryLater, Fails
    <3> QED  BY <1>1, <3>1, <3>2
  <2>2. CASE Inner(w) \/ Tally(w) \/ WorkerLost(w)
    BY <1>4, <2>2 DEF Inner, Clear, Unlink, Insert, Draw, Caption, Tally, WorkerLost
  <2> QED  BY <1>5, <2>1, <2>2 DEF TaskStep, Inner
<1>6. ASSUME NEW w \in Workers, Take(w)
      PROVE  FALSE
  BY <1>1, <1>6 DEF Take, Start
<1>7. ASSUME NEW v \in Workers, Reconcile(v)
      PROVE  FALSE
  BY <1>0, <1>7 DEF Reconcile, Exists
<1>8. CASE \/ \E e \in Docs : UploadSend(e)
           \/ UploadMark \/ UploadAborted \/ RemoveCount \/ RemoveWrite \/ UNCHANGED vars
           \/ (\E p \in Plans : ChangePlan(p)) \/ Reindex
  BY <1>4, <1>8 DEF UploadSend, UploadMark, UploadAborted, RemoveCount, RemoveWrite, ChangePlan,
       Reindex, vars, document
<1> QED  BY <1>2, <1>3, <1>5, <1>6, <1>7, <1>8 DEF Next, UploadStep, Beat

\* The chunks of a document change when it is removed, and under a task of it.
LEMMA RowsChange ==
  ASSUME Shape, [Next]_vars
  PROVE  \/ UNCHANGED rows
         \/ \E d \in Docs : RemoveDoc(d)
         \/ \E w \in Workers : Clear(w) \/ Unlink(w) \/ Insert(w) \/ Caption(w)
<1>1. CASE \/ \E d \in Docs : UploadDoc(d) \/ Reparse(d)
           \/ UploadStep \/ UploadAborted \/ RemoveCount \/ RemoveWrite
           \/ (\E p \in Plans : ChangePlan(p)) \/ Reindex \/ Beat \/ UNCHANGED vars
  BY <1>1 DEF UploadDoc, Reparse, UploadStep, UploadMark, UploadSend, UploadAborted, RemoveCount,
       RemoveWrite, ChangePlan, Reindex, Beat, Reconcile, vars, document
<1>2. ASSUME NEW w \in Workers,
             Take(w) \/ Index(w) \/ Draw(w) \/ Publish(w) \/ Tally(w) \/ GiveUp(w) \/ RetryLater(w) \/ WorkerLost(w)
      PROVE  UNCHANGED rows
  BY <1>2 DEF Take, Start, Index, Draw, Publish, Tally, GiveUp, RetryLater, Fails, WorkerLost
<1> QED  BY <1>1, <1>2 DEF Next, TaskStep

\* A task writes chunks of an existing document only, and deletes no chunk of
\* one that is not there.
LEMMA AbsentRows ==
  ASSUME Shape, Vacant, [Next]_vars, NEW d \in Docs, ~Exists(d)
  PROVE  rows'[d] = Blank
<1>1. TypeOK /\ rows[d] = Blank /\ Blank[0] = Blank[0]
  BY DEF Shape, Vacant
<1>2. ASSUME NEW e \in Docs, RemoveDoc(e)
      PROVE  rows'[d] = Blank
  BY <1>1, <1>2 DEF RemoveDoc, TypeOK
<1>3. ASSUME NEW w \in Workers, Clear(w)
      PROVE  rows'[d] = Blank
  BY <1>1, <1>3 DEF Clear, TypeOK
<1>4. ASSUME NEW w \in Workers, Unlink(w)
      PROVE  rows'[d] = Blank
  <2>1. [i \in Slots |-> IF Blank[i] = Linked THEN Unlinked ELSE Blank[i]] = Blank
    BY ParametersOK DEF Blank
  <2>2. CASE task[w].doc = d
    BY <1>1, <1>4, <2>1, <2>2 DEF Unlink, TypeOK
  <2>3. CASE task[w].doc # d
    BY <1>1, <1>4, <2>3 DEF Unlink, TypeOK
  <2> QED  BY <2>2, <2>3
<1>5. ASSUME NEW w \in Workers, Insert(w)
      PROVE  rows'[d] = Blank
  BY <1>1, <1>5 DEF Insert, TypeOK
<1>6. ASSUME NEW w \in Workers, Caption(w)
      PROVE  rows'[d] = Blank
  <2>1. UNCHANGED rows \/ (Exists(task[w].doc) /\ rows' = [rows EXCEPT ![task[w].doc][Length[task[w].plan]] = Linked])
    BY <1>6 DEF Caption
  <2> QED  BY <1>1, <2>1 DEF TypeOK
<1>7. CASE UNCHANGED rows
  BY <1>1, <1>7
<1> QED  BY <1>2, <1>3, <1>4, <1>5, <1>6, <1>7, RowsChange

LEMMA VacantStep ==
  ASSUME Shape, Vacant, [Next]_vars
  PROVE  Vacant'
<1> SUFFICES ASSUME NEW d \in Docs, ~Exists(d)' PROVE rows'[d] = Blank
  BY DEF Vacant, Blank
<1>1. CASE Exists(d)
  BY <1>1, Appears DEF RemoveDoc, Shape, TypeOK
<1>2. CASE ~Exists(d)
  BY <1>2, AbsentRows
<1> QED  BY <1>1, <1>2

LEMMA CountedStep ==
  ASSUME Shape, Vacant, Counted, [Next]_vars
  PROVE  Counted'
<1> SUFFICES ASSUME Resting', "chunks" \notin behind'
             PROVE  /\ removal'.pc = "none" => kb'.chunks = Cardinality(Filled')
                    /\ removal'.pc = "write" => removal'.chunks = Cardinality(Filled')
  BY DEF Counted, Filled
<1> DEFINE Right == /\ removal'.pc = "none" => kb'.chunks = Cardinality(Filled')
                    /\ removal'.pc = "write" => removal'.chunks = Cardinality(Filled')
<1>0. /\ TypeOK /\ task \in [Workers -> Tasks]
      /\ \A d \in Docs : status'[d] \notin {"pending", "parsing", "indexing"}
      /\ \A w \in Workers : task'[w].pc # "free" => status'[task'[w].doc] \in {"absent", "removed"}
  BY StillInWork DEF Shape, TypeOK, Resting, Exists
<1>1. ASSUME UNCHANGED <<status, rows, kb, removal>>, behind \subseteq behind',
             \A w \in Workers : task'[w].doc = task[w].doc /\ (task'[w].pc = "free" <=> task[w].pc = "free")
      PROVE  Right
  <2>1. Resting
    BY <1>1 DEF Resting, InWork, Exists
  <2>2. Filled' = Filled
    BY <1>1 DEF Filled
  <2> QED  BY <1>1, <2>1, <2>2 DEF Counted
<1>2. ASSUME NEW d \in Docs, UploadDoc(d) \/ Reparse(d)
      PROVE  FALSE
  BY <1>0, <1>2 DEF UploadDoc, Reparse, TypeOK
<1>3. ASSUME NEW d \in Docs, RemoveDoc(d)
      PROVE  Right
  <2>1. removal'.pc = "count"
    BY <1>0, <1>3 DEF RemoveDoc, TypeOK
  <2> QED  BY <2>1
<1>4. CASE UploadMark \/ Reindex
  <2>1. UNCHANGED <<status, rows, task, removal>> /\ behind \subseteq behind' /\ kb'.chunks = kb.chunks
    BY <1>0, <1>4 DEF UploadMark, Reindex, document, TypeOK
  <2>2. Resting /\ Filled' = Filled
    BY <2>1 DEF Resting, InWork, Exists, Filled
  <2> QED  BY <2>1, <2>2 DEF Counted
<1>5. CASE \/ \E d \in Docs : UploadSend(d)
           \/ UploadAborted \/ UNCHANGED vars
           \/ \E p \in Plans : ChangePlan(p)
  BY <1>1, <1>5 DEF UploadSend, UploadAborted, ChangePlan, vars, document
<1>6. CASE RemoveCount
  BY <1>6 DEF RemoveCount, document, Filled
<1>7. CASE RemoveWrite
  <2>1. /\ UNCHANGED <<status, rows, task, behind>> /\ removal.pc = "write"
        /\ removal'.pc = "none" /\ kb'.chunks = removal.chunks
    BY <1>0, <1>7 DEF RemoveWrite, document, NoRemoval, TypeOK
  <2>2. Resting /\ Filled' = Filled
    BY <2>1 DEF Resting, InWork, Exists, Filled
  <2> QED  BY <2>1, <2>2 DEF Counted
<1>8. ASSUME NEW w \in Workers, NEW d \in Docs, NEW n \in 0..MaxRetries, Start(w, d, n)
      PROVE  Right
  <2>1. ~Exists(d)
    BY <1>0, <1>8, StatusType DEF Start
  <2>2. UNCHANGED <<status, task, rows, kb, removal, behind>>
    BY <1>8, <2>1 DEF Start, Mark
  <2> QED  BY <1>1, <2>2
<1>9. ASSUME NEW w \in Workers, Inner(w)
      PROVE  Right
  <2>1. task'[w].pc # "free" /\ task'[w].doc = task[w].doc /\ UNCHANGED status /\ task[w].doc \in Docs
    BY <1>9, InnerMoves
  <2>2. ~Exists(task[w].doc)
    BY <1>0, <2>1 DEF Exists
  <2>3. UNCHANGED rows
    <3>1. rows'[task[w].doc] = rows[task[w].doc]
      BY <2>1, <2>2, AbsentRows DEF Vacant
    <3>2. CASE Clear(w)
      BY <1>0, <2>1, <3>1, <3>2 DEF Clear, TypeOK
    <3>3. CASE Unlink(w)
      BY <1>0, <2>1, <3>1, <3>3 DEF Unlink, TypeOK
    <3>4. CASE Insert(w) \/ Draw(w) \/ Caption(w)
      BY <2>2, <3>4 DEF Insert, Draw, Caption
    <3> QED  BY <1>9, <3>2, <3>3, <3>4 DEF Inner
  <2> QED  BY <1>1, <1>9, <2>3, InnerMoves
<1>10. ASSUME NEW w \in Workers, Index(w) \/ Publish(w)
       PROVE  Right
  <2>1. PICK p \in {"insert", "tally"}, s \in {"indexing", "parsed"} :
          Goto(w, p) /\ Mark(task[w].doc, s)
    BY <1>10 DEF Index, Publish
  <2>2. task[w].pc # "free" /\ task[w].doc \in Docs /\ UNCHANGED <<rows, kb, removal, behind>>
    BY <1>10 DEF Index, Publish, Shape, Slot
  <2>3. task'[w].pc = p /\ task'[w].doc = task[w].doc /\ \A v \in Workers : v # w => task'[v] = task[v]
    BY <1>0, <2>1, GotoType DEF Points
  <2>4. ~Exists(task[w].doc)
    <3>1. status'[task[w].doc] \in {"absent", "removed"}
      BY <1>0, <2>1, <2>3
    <3> QED  BY <1>0, <2>1, <2>2, <3>1, StatusType
  <2>5. UNCHANGED status
    BY <2>1, <2>4 DEF Mark
  <2> QED  BY <1>1, <2>2, <2>3, <2>5
<1>11. ASSUME NEW w \in Workers, Tally(w)
       PROVE  Right
  <2>1. /\ UNCHANGED <<rows, removal>> /\ removal.pc # "write"
        /\ kb'.chunks = Cardinality(Filled)
    BY <1>11 DEF Tally
  <2> QED  BY <2>1 DEF Filled
<1>12. ASSUME NEW w \in Workers, GiveUp(w) \/ RetryLater(w)
       PROVE  FALSE
  BY <1>12 DEF GiveUp, RetryLater, Fails, Columns
<1>13. ASSUME NEW w \in Workers, WorkerLost(w)
       PROVE  FALSE
  BY <1>13 DEF WorkerLost, Columns, InWork, Resting
<1>14. ASSUME NEW v \in Workers, Reconcile(v)
       PROVE  FALSE
  <2>1. PICK S \in SUBSET Docs :
          S # {} /\ status' = [d \in Docs |-> IF d \in S THEN "pending" ELSE status[d]]
    BY <1>14 DEF Reconcile
  <2> QED  BY <1>0, <2>1
<1>15. ASSUME NEW w \in Workers, Take(w) \/ TaskStep(w) \/ WorkerLost(w)
       PROVE  Right
  BY <1>8, <1>9, <1>10, <1>11, <1>12, <1>13, <1>15 DEF Take, TaskStep, Inner
<1> QED  BY <1>2, <1>3, <1>4, <1>5, <1>6, <1>7, <1>14, <1>15 DEF Next, UploadStep, Beat

\* A library in which nothing goes on is open and its count is right, but for
\* the columns that are behind: whatever is uploaded, parsed again, removed or
\* dispatched twice, and whichever worker finishes last, fails or dies.
THEOREM LibraryAlwaysSettled == Spec => []SettledLibrary
<1>1. Init => Opened /\ Vacant /\ Counted
  <2> SUFFICES ASSUME Init PROVE Opened /\ Vacant /\ Counted
    OBVIOUS
  <2>1. Filled = {} /\ \A d \in Docs : rows[d] = Blank
    BY DEF Init, Filled, Blank
  <2>2. kb.chunks = 0 /\ removal.pc = "none" /\ \A d \in Docs : status[d] = "absent"
    BY DEF Init, NoRemoval
  <2> QED  BY <2>1, <2>2, FS_EmptySet DEF Opened, Vacant, Counted
<1>2. Shape /\ Opened /\ Vacant /\ Counted /\ [Next]_vars => Opened' /\ Vacant' /\ Counted'
  BY OpenedStep, VacantStep, CountedStep
<1>3. Shape /\ Opened /\ Counted => SettledLibrary
  <2> SUFFICES ASSUME Shape, Opened, Counted, AtRest
               PROVE  /\ "status" \notin behind =>
                           kb.status = "ready" \/ \A d \in Docs : status[d] = "absent"
                      /\ "chunks" \notin behind => kb.chunks = Cardinality(Filled)
    BY DEF SettledLibrary
  <2>1. \A w \in Workers : task[w].pc = "free"
    BY DEF AtRest, Quiet, Doing, Shape, Slot
  <2>2. InWork = {} /\ removal.pc = "none"
    BY DEF AtRest, InWork
  <2> QED  BY <2>1, <2>2 DEF Opened, Counted, Resting
<1> QED  BY <1>1, <1>2, <1>3, ShapeHolds, PTL DEF Spec

\* When no document is dispatched while an earlier task of it lives (the code
\* does not ensure it: a second click on reparse or a slow queue breaks it), what
\* is shown as parsed and open has the chunks and the count of one parse, but for
\* the columns that are behind.
THEOREM LibraryAlwaysSound ==
  ASSUME ~Overlap
  PROVE  Spec => []LibrarySound
  BY ParsedAlwaysComplete, LibraryAlwaysSettled, PTL DEF LibrarySound
=============================================================================
