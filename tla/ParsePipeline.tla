--------------------------- MODULE ParsePipeline ---------------------------
(***************************************************************************)
(* From an uploaded file to searchable chunks: the NestJS document service *)
(* (upload, reparse, remove), the Celery task parse_document, its retries, *)
(* and the beat task that redispatches documents that got stuck.           *)
(*                                                                         *)
(* One knowledge base.  One action per committed statement: tasks of the   *)
(* same document may run at the same time (a second click on "reparse", a  *)
(* redispatch while the first message still waits), so every statement of  *)
(* one run can fall between any two of another.                            *)
(***************************************************************************)
EXTENDS Integers, FiniteSets

CONSTANTS
  Docs,        \* documents
  Illustrated, \* PDF documents with a picture
  Plans,       \* chunk settings of the knowledge base
  Length,      \* Length[p]: how many text chunks a document has under plan p
  Slots,       \* the values of chunk_index
  Workers,     \* slots of the Celery pool
  NoDoc, NoPlan,
  Empty,       \* no row with this chunk_index
  Linked,      \* a picture chunk whose document_images row exists
  Unlinked,    \* a picture chunk whose document_images row was deleted
  MaxRetries,  \* max_retries of the task
  Batch,       \* _RECONCILE_BATCH
  Overlap,     \* may a document be dispatched while an earlier task of it lives?
  CrashAt,     \* program points at which a worker may die
  MaxCopies,   \* bound: queued copies of one task with one retry count
  Limit,       \* bound: how often each kind of event may happen
  MaxEvents    \* bound: how many of these events may happen in all

Events == {"reparse", "remove", "reindex", "plan", "crash"}
Points == {"clear", "unlink", "index", "insert", "draw", "caption", "publish", "tally"}

ASSUME DocsFinite == IsFiniteSet(Docs) /\ IsFiniteSet(Slots)
ASSUME ParametersOK ==
  /\ Illustrated \subseteq Docs /\ NoDoc \notin Docs /\ NoPlan \notin Plans
  /\ Slots \subseteq Nat /\ Length \in [Plans -> Nat \ {0}]
  /\ \A p \in Plans : 0..Length[p] \subseteq Slots
  /\ Empty # Linked /\ Linked # Unlinked /\ Unlinked # Empty
  /\ Plans \cap {Empty, Linked, Unlinked} = {}
  /\ MaxRetries \in Nat /\ Batch \in Nat \ {0} /\ MaxCopies \in Nat
  /\ Overlap \in BOOLEAN /\ CrashAt \subseteq Points
  /\ Limit \in [Events -> Nat] /\ MaxEvents \in Nat

VARIABLES
  status,    \* documents.status; "absent" before the upload, "removed" after it
  counted,   \* documents.chunk_count
  rows,      \* rows[d][i]: the chunk of d with chunk_index i
  pictures,  \* pictures[d]: the number of document_images rows of d
  heard,     \* heard[d]: workers still on the task they had at the last updated_at
  plan,      \* knowledge_bases.(chunk_size, chunk_overlap)
  kb,        \* knowledge_bases.status and chunk_count
  queue,     \* queue[d][n]: messages for d that have been retried n times
  task,      \* task[w]: what worker w executes
  upload,    \* the upload call in progress
  removal,   \* the remove call in progress
  behind,    \* auxiliary: columns of the knowledge base nobody is left to set
  used       \* used[e]: how often event e has happened

document == <<status, counted, rows, pictures, heard>>
vars == <<document, plan, kb, queue, task, upload, removal, behind, used>>

InProgress == {"pending", "parsing", "indexing"}
Exists(d) == status[d] \notin {"absent", "removed"}
Columns == {"status", "chunks"}

Free == [pc |-> "free", doc |-> NoDoc, plan |-> NoPlan, tries |-> 0, picture |-> FALSE,
         captions |-> 0]
NoUpload == [pc |-> "none", docs |-> {}]
NoRemoval == [pc |-> "none", chunks |-> 0]

Tasks == [pc: Points \cup {"free"}, doc: Docs \cup {NoDoc}, plan: Plans \cup {NoPlan},
          tries: 0..MaxRetries, picture: BOOLEAN, captions: 0..1]

TypeOK ==
  /\ status \in [Docs -> InProgress \cup {"absent", "parsed", "failed", "removed"}]
  /\ counted \in [Docs -> Nat] /\ pictures \in [Docs -> Nat]
  /\ rows \in [Docs -> [Slots -> Plans \cup {Empty, Linked, Unlinked}]]
  /\ heard \in [Docs -> SUBSET Workers]
  /\ plan \in Plans
  /\ kb \in [status: {"draft", "indexing", "ready"}, chunks: Nat]
  /\ queue \in [Docs -> [0..MaxRetries -> Nat]]
  /\ task \in [Workers -> Tasks]
  /\ upload \in [pc: {"none", "create", "send"}, docs: SUBSET Docs]
  /\ removal \in [pc: {"none", "count", "write"}, chunks: Nat]
  /\ behind \in SUBSET Columns
  /\ used \in [Events -> Nat]

Blank == [i \in Slots |-> Empty]

Init ==
  /\ status = [d \in Docs |-> "absent"]
  /\ counted = [d \in Docs |-> 0] /\ pictures = [d \in Docs |-> 0]
  /\ rows = [d \in Docs |-> Blank]
  /\ heard = [d \in Docs |-> {}]
  /\ plan \in Plans
  /\ kb = [status |-> "draft", chunks |-> 0]
  /\ queue = [d \in Docs |-> [n \in 0..MaxRetries |-> 0]]
  /\ task = [w \in Workers |-> Free]
  /\ upload = NoUpload /\ removal = NoRemoval /\ behind = {}
  /\ used = [e \in Events |-> 0]

-----------------------------------------------------------------------------
(* Helpers                                                                  *)

Happens(e) ==
  /\ used[e] < Limit[e]
  /\ used["reparse"] + used["remove"] + used["reindex"] + used["plan"] + used["crash"]
       < MaxEvents
  /\ used' = [used EXCEPT ![e] = @ + 1]

Doing(tasks, d) == {w \in Workers : tasks[w].doc = d}

\* Neither a message nor a worker nor an upload call is about d.
Quiet(d) ==
  /\ Doing(task, d) = {} /\ d \notin upload.docs
  /\ \A n \in 0..MaxRetries : queue[d][n] = 0

Room(S, n) == \A d \in S : queue[d][n] < MaxCopies
Sent(S, n) ==
  [d \in Docs |-> IF d \in S THEN [queue[d] EXCEPT ![n] = @ + 1] ELSE queue[d]]

\* Documents after which the knowledge base is still to be reopened.
InWork == {d \in Docs : status[d] \in InProgress}

Filled == {di \in Docs \X Slots : rows[di[1]][di[2]] # Empty}

Goto(w, point) == task' = [task EXCEPT ![w].pc = point]
Release(w) ==
  /\ task' = [task EXCEPT ![w] = Free]
  /\ heard' = [d \in Docs |-> heard[d] \ {w}]

\* UPDATE documents SET status ... WHERE id: no row, no effect.
Mark(d, s) == status' = IF Exists(d) THEN [status EXCEPT ![d] = s] ELSE status

\* submitParseTask: the call to the ai-service may be lost.
Submit(d) == queue' = queue \/ (Room({d}, 0) /\ queue' = Sent({d}, 0))

-----------------------------------------------------------------------------
(* The document service                                                     *)

\* One file of the call: stored and recorded.
UploadDoc(d) ==
  /\ upload.pc \in {"none", "create"} /\ status[d] = "absent"
  /\ status' = [status EXCEPT ![d] = "pending"]
  /\ upload' = [pc |-> "create", docs |-> upload.docs \cup {d}]
  /\ UNCHANGED <<counted, rows, pictures, heard, plan, kb, behind, queue, task, removal, used>>

\* All files are recorded: the knowledge base is being indexed, also when they
\* have been parsed or removed meanwhile and nothing is left to reopen it.
UploadMark ==
  /\ upload.pc = "create"
  /\ kb' = [kb EXCEPT !.status = "indexing"]
  /\ upload' = [upload EXCEPT !.pc = "send"]
  /\ behind' = IF InWork = {} THEN behind \cup {"status"} ELSE behind
  /\ UNCHANGED <<document, plan, queue, task, removal, used>>

UploadSend(d) ==
  /\ upload.pc = "send" /\ d \in upload.docs
  /\ Submit(d)
  /\ upload' = IF upload.docs = {d} THEN NoUpload
               ELSE [upload EXCEPT !.docs = @ \ {d}]
  /\ UNCHANGED <<document, plan, kb, behind, task, removal, used>>

\* A later file of the call is refused, or the process dies: what was recorded
\* stays pending and is not submitted.
UploadAborted ==
  /\ upload.pc # "none"
  /\ upload' = NoUpload
  /\ UNCHANGED <<document, plan, kb, behind, queue, task, removal, used>>

Reparse(d) ==
  /\ Exists(d) /\ (Overlap \/ Quiet(d)) /\ Happens("reparse")
  /\ status' = [status EXCEPT ![d] = "parsing"]
  /\ heard' = [heard EXCEPT ![d] = Doing(task, d)]
  /\ Submit(d)
  /\ UNCHANGED <<counted, rows, pictures, plan, kb, behind, task, upload, removal>>

\* The row goes, and with it the chunks and the picture rows.  The status of
\* the knowledge base is left alone, although this may have been the document
\* whose end was to reopen it.
RemoveDoc(d) ==
  /\ removal.pc = "none" /\ Exists(d) /\ Happens("remove")
  /\ status' = [status EXCEPT ![d] = "removed"]
  /\ counted' = [counted EXCEPT ![d] = 0]
  /\ rows' = [rows EXCEPT ![d] = Blank]
  /\ pictures' = [pictures EXCEPT ![d] = 0]
  /\ removal' = [removal EXCEPT !.pc = "count"]
  /\ behind' = IF status[d] \in InProgress THEN behind \cup {"status"} ELSE behind
  /\ UNCHANGED <<heard, plan, kb, queue, task, upload>>

RemoveCount ==
  /\ removal.pc = "count"
  /\ removal' = [pc |-> "write", chunks |-> Cardinality(Filled)]
  /\ UNCHANGED <<document, plan, kb, behind, queue, task, upload, used>>

RemoveWrite ==
  /\ removal.pc = "write"
  /\ kb' = [kb EXCEPT !.chunks = removal.chunks]
  /\ removal' = NoRemoval
  /\ UNCHANGED <<document, plan, queue, task, upload, behind, used>>

\* KnowledgeBaseService.update with other chunk settings.
ChangePlan(p) ==
  /\ p # plan /\ Happens("plan")
  /\ plan' = p
  /\ UNCHANGED <<document, kb, behind, queue, task, upload, removal>>

\* KnowledgeBaseService.reindex sets a status and submits nothing.
Reindex ==
  /\ Happens("reindex")
  /\ kb' = [kb EXCEPT !.status = "indexing"]
  /\ behind' = behind \cup {"status"}
  /\ UNCHANGED <<document, plan, queue, task, upload, removal>>

-----------------------------------------------------------------------------
(* parse_document                                                           *)

\* The message is acknowledged, the document and the chunk settings are read.
Start(w, d, n) ==
  /\ task[w].pc = "free" /\ queue[d][n] > 0
  /\ queue' = [queue EXCEPT ![d][n] = @ - 1]
  /\ Mark(d, "parsing")
  /\ task' = IF Exists(d)
             THEN [task EXCEPT ![w] = [Free EXCEPT !.pc = "clear", !.doc = d,
                                                   !.plan = plan, !.tries = n]]
             ELSE task
  /\ heard' = [heard EXCEPT ![d] = Doing(task', d)]
  /\ UNCHANGED <<counted, rows, pictures, plan, kb, behind, upload, removal, used>>

\* Mutant of Clear: only rows beyond the new length are deleted.
ClearTail(w) ==
  /\ task[w].pc = "clear"
  /\ rows' = [rows EXCEPT ![task[w].doc] =
                [i \in Slots |-> IF i < Length[task[w].plan] THEN @[i] ELSE Empty]]
  /\ Goto(w, "unlink")
  /\ UNCHANGED <<status, counted, pictures, heard, plan, kb, behind, queue, upload, removal, used>>

\* The file is parsed; the old chunks are deleted.
Clear(w) ==
  /\ task[w].pc = "clear"
  /\ rows' = [rows EXCEPT ![task[w].doc] = Blank]
  /\ Goto(w, "unlink")
  /\ UNCHANGED <<status, counted, pictures, heard, plan, kb, behind, queue, upload, removal, used>>

\* The old picture rows are deleted; a foreign key sets image_id to NULL in
\* chunks of another run, and an INSERT that still refers to them will fail.
Unlink(w) ==
  LET d == task[w].doc IN
  /\ task[w].pc = "unlink"
  /\ pictures' = [pictures EXCEPT ![d] = 0]
  /\ rows' = [rows EXCEPT ![d] =
                [i \in Slots |-> IF @[i] = Linked THEN Unlinked ELSE @[i]]]
  /\ task' = [v \in Workers |->
                IF v = w THEN [task[v] EXCEPT !.pc = "index"]
                ELSE IF task[v].doc = d THEN [task[v] EXCEPT !.picture = FALSE]
                ELSE task[v]]
  /\ UNCHANGED <<status, counted, heard, plan, kb, behind, queue, upload, removal, used>>

Index(w) ==
  /\ task[w].pc = "index"
  /\ Mark(task[w].doc, "indexing")
  /\ heard' = [heard EXCEPT ![task[w].doc] = Doing(task, task[w].doc)]
  /\ Goto(w, "insert")
  /\ UNCHANGED <<counted, rows, pictures, plan, kb, behind, queue, upload, removal, used>>

\* Text chunks of the plan read at the start, in one transaction; rows whose
\* index is taken are left out (ON CONFLICT DO NOTHING).  A document that was
\* removed meanwhile fails the foreign key.
Insert(w) ==
  LET d == task[w].doc IN
  /\ task[w].pc = "insert" /\ Exists(d)
  /\ rows' = [rows EXCEPT ![d] =
                [i \in Slots |-> IF i < Length[task[w].plan] /\ @[i] = Empty
                                 THEN task[w].plan ELSE @[i]]]
  /\ Goto(w, IF d \in Illustrated THEN "draw" ELSE "publish")
  /\ UNCHANGED <<status, counted, pictures, heard, plan, kb, behind, queue, upload, removal, used>>

\* The picture row is inserted, unless something about the picture fails.
Draw(w) ==
  LET d == task[w].doc IN
  /\ task[w].pc = "draw"
  /\ \/ /\ Exists(d)
        /\ pictures' = [pictures EXCEPT ![d] = @ + 1]
        /\ task' = [task EXCEPT ![w].pc = "caption", ![w].picture = TRUE]
     \/ Goto(w, "publish") /\ UNCHANGED pictures
  /\ UNCHANGED <<status, counted, rows, heard, plan, kb, behind, queue, upload, removal, used>>

\* The picture chunk follows the text chunks.  A taken index, a vanished row
\* or any other failure leaves the picture out.
Caption(w) ==
  LET d == task[w].doc
      i == Length[task[w].plan] IN
  /\ task[w].pc = "caption"
  /\ \/ /\ Exists(d) /\ task[w].picture /\ rows[d][i] = Empty
        /\ rows' = [rows EXCEPT ![d][i] = Linked]
        /\ task' = [task EXCEPT ![w].pc = "publish", ![w].captions = 1]
     \/ Goto(w, "publish") /\ UNCHANGED rows
  /\ UNCHANGED <<status, counted, pictures, heard, plan, kb, behind, queue, upload, removal, used>>

Publish(w) ==
  LET d == task[w].doc IN
  /\ task[w].pc = "publish"
  /\ Mark(d, "parsed")
  /\ counted' = IF Exists(d)
                THEN [counted EXCEPT ![d] = Length[task[w].plan] + task[w].captions]
                ELSE counted
  /\ Goto(w, "tally")
  /\ UNCHANGED <<rows, pictures, heard, plan, kb, behind, queue, upload, removal, used>>

\* The knowledge base is recounted, and ready when no document is in progress.
\* A removal that has counted before will write its older count over this one.
Tally(w) ==
  /\ task[w].pc = "tally"
  /\ kb' = [status |-> IF InWork # {} THEN kb.status ELSE "ready",
            chunks |-> Cardinality(Filled)]
  /\ behind' = IF removal.pc = "write" THEN {"chunks"} ELSE {}
  /\ Release(w)
  /\ UNCHANGED <<status, counted, rows, pictures, plan, queue, upload, removal, used>>

\* A task that fails does not come to the recount.
Fails(w) ==
  /\ task[w].pc # "free"
  /\ Mark(task[w].doc, "failed")
  /\ behind' = Columns
  /\ Release(w)
  /\ UNCHANGED <<counted, rows, pictures, plan, kb, upload, removal, used>>

\* A deterministic error or the soft time limit: failed, no retry.
GiveUp(w) == Fails(w) /\ UNCHANGED queue

\* Any other error: failed, and retried with back-off as long as retries are left.
RetryLater(w) ==
  LET d == task[w].doc
      n == task[w].tries IN
  /\ Fails(w)
  /\ \/ n < MaxRetries /\ Room({d}, n + 1) /\ queue' = Sent({d}, n + 1)
     \/ n = MaxRetries /\ UNCHANGED queue

\* The worker process dies or is killed at the hard time limit.  The beat task
\* takes up a document in progress, and no other.
WorkerLost(w) ==
  /\ task[w].pc \in CrashAt /\ Happens("crash")
  /\ behind' = IF task[w].doc \in InWork THEN behind ELSE Columns
  /\ Release(w)
  /\ UNCHANGED <<status, counted, rows, pictures, plan, kb, queue, upload, removal>>

-----------------------------------------------------------------------------
(* reconcile_stuck_documents                                                *)

\* Pending for 10 minutes, or no heartbeat for 40: longer than a task may run.
Stale(d) ==
  /\ Overlap \/ Quiet(d)
  /\ status[d] = "pending" \/ (status[d] \in {"parsing", "indexing"} /\ heard[d] = {})

\* Mutant of Reconcile: only submissions that were lost are repeated.
ReconcilePending(v) ==
  LET stale == {d \in Docs : Stale(d) /\ status[d] = "pending"} IN
  /\ task[v].pc = "free"
  /\ \E S \in (SUBSET stale) \ {{}} :
       /\ S = stale \/ Cardinality(S) = Batch
       /\ Room(S, 0) /\ queue' = Sent(S, 0)
  /\ UNCHANGED <<document, plan, kb, behind, task, upload, removal, used>>

Reconcile(v) ==
  LET stale == {d \in Docs : Stale(d)} IN
  /\ task[v].pc = "free"
  /\ \E S \in (SUBSET stale) \ {{}} :
       /\ Cardinality(S) <= Batch /\ (S = stale \/ Cardinality(S) = Batch)
       /\ Room(S, 0) /\ queue' = Sent(S, 0)
       /\ status' = [d \in Docs |-> IF d \in S THEN "pending" ELSE status[d]]
       /\ heard' = [d \in Docs |-> IF d \in S /\ status[d] # "pending"
                                   THEN Doing(task, d) ELSE heard[d]]
  /\ UNCHANGED <<counted, rows, pictures, plan, kb, behind, task, upload, removal, used>>

-----------------------------------------------------------------------------
(* Specification                                                            *)

UploadStep == UploadMark \/ \E d \in Docs : UploadSend(d)

TaskStep(w) ==
  \/ Clear(w) \/ Unlink(w) \/ Index(w) \/ Insert(w) \/ Draw(w) \/ Caption(w)
  \/ Publish(w) \/ Tally(w) \/ GiveUp(w) \/ RetryLater(w)

Take(w) == \E d \in Docs, n \in 0..MaxRetries : Start(w, d, n)
Beat == \E v \in Workers : Reconcile(v)

Next ==
  \/ \E d \in Docs : UploadDoc(d) \/ Reparse(d) \/ RemoveDoc(d)
  \/ UploadStep \/ UploadAborted \/ RemoveCount \/ RemoveWrite
  \/ \E p \in Plans : ChangePlan(p)
  \/ Reindex
  \/ \E w \in Workers : Take(w) \/ TaskStep(w) \/ WorkerLost(w)
  \/ Beat

\* Workers consume the queue and run their tasks, the beat task keeps running,
\* and a call of the document service goes on or is aborted.
Fairness ==
  /\ \A w \in Workers : WF_vars(TaskStep(w)) /\ WF_vars(Take(w))
  /\ WF_vars(Beat) /\ WF_vars(UploadStep \/ UploadAborted)

Spec == Init /\ [][Next]_vars
FairSpec == Spec /\ Fairness

-----------------------------------------------------------------------------
(* Properties                                                               *)

\* The chunks of a parsed document on which nothing works: the text chunks of
\* one plan, possibly a picture chunk with its picture, and the count says so.
Complete(d) ==
  \E p \in Plans, last \in {Empty, Linked} :
    /\ rows[d] = [i \in Slots |-> IF i < Length[p] THEN p
                                  ELSE IF i = Length[p] THEN last ELSE Empty]
    /\ counted[d] = Length[p] + (IF last = Linked THEN 1 ELSE 0)

\* A document shown as parsed has exactly the chunks of one parse, after any
\* sequence of crashes, retries, lost submissions and changed chunk settings, as
\* long as it is not dispatched while an earlier task of it lives (~Overlap).
ParsedComplete ==
  \A d \in Docs : status[d] = "parsed" /\ Quiet(d) => Complete(d)

\* Nothing is going on in the library.
AtRest == removal.pc = "none" /\ \A d \in Docs : Quiet(d) /\ status[d] \notin InProgress

\* When nothing is going on, the knowledge base is open for chats and its chunk
\* count is right, whichever of several workers finished last, unless after the
\* last recount
\*   - reindex, or an upload whose files were done already, marked it as indexing,
\*   - the last document in progress failed, was removed, or lost its worker
\*     between publishing and recounting (status, and for a failure or a lost
\*     worker the count), or
\*   - a removal wrote the count it had taken before the recount.
\* None of these is put right before the next document is parsed.
SettledLibrary ==
  AtRest =>
    /\ "status" \notin behind =>
         kb.status = "ready" \/ \A d \in Docs : status[d] = "absent"
    /\ "chunks" \notin behind => kb.chunks = Cardinality(Filled)

\* What is shown as parsed and open has the chunks and the count of one parse.
LibrarySound == ParsedComplete /\ SettledLibrary

\* No document stays in progress: lost submissions and dead workers are noticed.
NoLimbo == \A d \in Docs : status[d] \in InProgress ~> status[d] \notin InProgress
=============================================================================
