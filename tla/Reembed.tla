------------------------------ MODULE Reembed ------------------------------
(***************************************************************************)
(* Whole-library re-embedding of aiwenda's ai-service.                     *)
(*                                                                         *)
(* An administrator changes the embedding channel (provider, model,        *)
(* dimensions), restarts the service and triggers a run.  The API handler  *)
(* writes the single embedding_state row and sends one Celery task per     *)
(* parsed document; the workers replace the vectors of a document in       *)
(* place, count it on the row and, when every document is accounted for,   *)
(* one of them claims the run and settles its phase.  A beat task repairs  *)
(* runs that a crash interrupted.  Chat and retrieval are refused unless   *)
(* the phase is "idle" (EmbeddingGate).                                    *)
(*                                                                         *)
(* One action per database statement of the code that others can observe;  *)
(* consecutive reads whose separation no other action can observe are one  *)
(* action.  Tasks are acknowledged when they start (Celery's default), so  *)
(* a worker that dies loses its task.                                      *)
(***************************************************************************)
EXTENDS Integers, FiniteSets

CONSTANTS
  Docs,        \* documents
  Channels,    \* embedding channels: what provider, model and dimensions name
  Dim,         \* Dim[c]: the vector dimension of channel c
  Workers,     \* slots of the Celery prefork pool (--concurrency=2)
  Requests,    \* concurrent calls of POST /internal/embedding/reembed
  NoDoc,       \* the document of a worker without a task
  NullVec,     \* chunks exist, their embedding is NULL (dimension change)
  NoChunks,    \* the document has no chunks
  MaxRetries,  \* max_retries of the task
  Batch,       \* _REEMBED_REDISPATCH_BATCH
  MayStall,    \* may a task wait in the queue, or a finalizer run, past the
               \* thresholds after which the beat task takes it for lost?
  CrashAt,     \* program points at which a task may be lost
  MaxCopies,   \* bound: queued copies of one task with one retry count
  Limit,       \* bound: how often each kind of event may happen
  MaxFaults    \* bound: how many events other than triggers may happen

Events == {"trigger", "crash", "error", "restart", "reparse"}
Points == {"embed", "count", "claim", "summary", "settle", "fail"}

ASSUME DocsFinite == IsFiniteSet(Docs)
ASSUME SentinelsDiffer ==
  /\ NoDoc \notin Docs
  /\ NullVec \notin Channels /\ NoChunks \notin Channels /\ NullVec # NoChunks
ASSUME ParametersOK ==
  /\ Dim \in [Channels -> Nat]
  /\ MaxRetries \in Nat /\ Batch \in Nat \ {0} /\ MaxCopies \in Nat
  /\ MayStall \in BOOLEAN /\ CrashAt \subseteq Points
  /\ Limit \in [Events -> Nat] /\ MaxFaults \in Nat

VARIABLES
  phase,     \* embedding_state.phase
  sig,       \* embedding_state.(provider, model, dims)
  total,     \* embedding_state.total_docs
  done,      \* embedding_state.done_docs
  failed,    \* embedding_state.failed_docs
  pending,   \* embedding_state.pending_doc_ids
  since,     \* workers still on the task they had when updated_at was last set
  config,    \* the channel in the .env of the running processes
  vec,       \* vec[d]: the channel whose vectors the chunks of d hold
  status,    \* documents.status, as far as the run depends on it
  queue,     \* queue[d][n]: messages for d that have been retried n times
  task,      \* task[w]: what worker w executes
  request,   \* request[q]: what API call q executes
  target,    \* auxiliary: the documents of the latest run
  used       \* used[e]: how often event e has happened

state == <<phase, sig, total, done, failed, pending, target>>
vars == <<state, since, config, vec, status, queue, task, request, used>>

Idle == [pc |-> "free", doc |-> NoDoc, tries |-> 0, rows |-> FALSE,
         guarded |-> FALSE, seen |-> 0]
NoRequest == [pc |-> "none", docs |-> {}, clear |-> FALSE]

Phases == {"idle", "running", "finalizing", "partial_failed"}
Statuses == {"parsed", "parsing", "failed"}
Vectors == Channels \cup {NullVec, NoChunks}
Tasks == [pc: Points \cup {"free"}, doc: Docs \cup {NoDoc}, tries: 0..MaxRetries,
          rows: BOOLEAN, guarded: BOOLEAN, seen: Nat]
RequestStates == [pc: {"none", "checked", "dispatch"}, docs: SUBSET Docs,
                  clear: BOOLEAN]

TypeOK ==
  /\ phase \in Phases /\ sig \in Channels /\ config \in Channels
  /\ total \in Nat /\ done \in Nat /\ failed \in Nat
  /\ pending \in SUBSET Docs /\ target \in SUBSET Docs
  /\ since \in SUBSET Workers
  /\ vec \in [Docs -> Vectors] /\ status \in [Docs -> Statuses]
  /\ queue \in [Docs -> [0..MaxRetries -> Nat]]
  /\ task \in [Workers -> Tasks] /\ request \in [Requests -> RequestStates]
  /\ used \in [Events -> Nat]

\* A library whose vectors all come from the signature's channel, right after
\* the processes started with some .env.  A document without chunks failed.
Init ==
  /\ phase = "idle" /\ sig \in Channels /\ config \in Channels
  /\ total = 0 /\ done = 0 /\ failed = 0
  /\ pending = {} /\ target = {} /\ since = {}
  /\ vec \in [Docs -> {sig, NoChunks}]
  /\ status = [d \in Docs |-> IF vec[d] = NoChunks THEN "failed" ELSE "parsed"]
  /\ queue = [d \in Docs |-> [n \in 0..MaxRetries |-> 0]]
  /\ task = [w \in Workers |-> Idle]
  /\ request = [q \in Requests |-> NoRequest]
  /\ used = [e \in Events |-> 0]

-----------------------------------------------------------------------------
(* Helpers                                                                  *)

Happens(e) ==
  /\ used[e] < Limit[e]
  /\ e # "trigger" =>
       used["crash"] + used["error"] + used["restart"] + used["reparse"] < MaxFaults
  /\ used' = [used EXCEPT ![e] = @ + 1]

Busy(tasks) == {w \in Workers : tasks[w].pc # "free"}

\* A statement that sets updated_at; tasks is the task function after it.
Touch(tasks) == since' = Busy(tasks)

\* Worker w drops its task without setting updated_at.
Release(w) ==
  /\ task' = [task EXCEPT ![w] = Idle]
  /\ since' = since \ {w}

Goto(w, point) == task' = [task EXCEPT ![w].pc = point]

\* One more message for every document of S, retried n times.
Sent(S, n) ==
  [d \in Docs |-> IF d \in S THEN [queue[d] EXCEPT ![n] = @ + 1] ELSE queue[d]]
Room(S, n) == \A d \in S : queue[d][n] < MaxCopies

\* Mutant of AllIn: the last document is never enough.
AllInStrict == done + failed > total

AllIn == done + failed >= total

\* Chunks of d hold vectors of another channel than the configured one.
Outdated(d) == vec[d] \in Channels \ {config}

-----------------------------------------------------------------------------
(* POST /internal/embedding/reembed                                         *)

\* Reads the row and the parsed documents that have chunks; the refusals of
\* the handler are the guards.
TriggerCheck(q) ==
  LET docs == {d \in Docs : status[d] = "parsed" /\ vec[d] # NoChunks} IN
  /\ request[q].pc = "none" /\ Happens("trigger")
  /\ phase \notin {"running", "finalizing"}
  /\ sig # config \/ phase = "partial_failed"
  /\ docs # {}
  /\ request' = [request EXCEPT ![q] =
                   [pc |-> "checked", docs |-> docs, clear |-> Dim[sig] # Dim[config]]]
  /\ UNCHANGED <<state, since, config, vec, status, queue, task>>

\* The new dimension does not fit the column: every vector becomes NULL
\* before the column is altered.
TriggerClear(q) ==
  /\ request[q].pc = "checked" /\ request[q].clear
  /\ request' = [request EXCEPT ![q].clear = FALSE]
  /\ vec' = [d \in Docs |-> IF vec[d] = NoChunks THEN NoChunks ELSE NullVec]
  /\ UNCHANGED <<state, since, config, status, queue, task, used>>

\* The UPDATE that starts the run.
TriggerWrite(q) ==
  /\ request[q].pc = "checked" /\ ~request[q].clear
  /\ phase' = "running" /\ sig' = config
  /\ total' = Cardinality(request[q].docs) /\ done' = 0 /\ failed' = 0
  /\ pending' = request[q].docs /\ target' = request[q].docs
  /\ Touch(task)
  /\ request' = [request EXCEPT ![q].pc = "dispatch"]
  /\ UNCHANGED <<config, vec, status, queue, task, used>>

AfterSending(q, d) ==
  IF request[q].docs = {d} THEN NoRequest
  ELSE [request[q] EXCEPT !.docs = @ \ {d}]

\* One reembed_document.delay of the loop; the last one ends the call.
TriggerDispatch(q) ==
  /\ request[q].pc = "dispatch"
  /\ \E d \in request[q].docs :
       /\ Room({d}, 0)
       /\ queue' = Sent({d}, 0)
       /\ request' = [request EXCEPT ![q] = AfterSending(q, d)]
  /\ UNCHANGED <<state, since, config, vec, status, task, used>>

\* The API process dies, or the database or the broker fails it.
TriggerLost(q) ==
  /\ request[q].pc # "none" /\ Happens("crash")
  /\ request' = [request EXCEPT ![q] = NoRequest]
  /\ UNCHANGED <<state, since, config, vec, status, queue, task>>

-----------------------------------------------------------------------------
(* reembed_document                                                         *)

\* The message is acknowledged, the phase and the chunk ids are read; outside
\* a run the task is skipped.
Start(w, d, n) ==
  /\ task[w].pc = "free" /\ queue[d][n] > 0
  /\ queue' = [queue EXCEPT ![d][n] = @ - 1]
  /\ task' = IF phase = "running"
             THEN [task EXCEPT ![w] = [pc |-> "embed", doc |-> d, tries |-> n,
                     rows |-> vec[d] # NoChunks, guarded |-> TRUE, seen |-> 0]]
             ELSE task
  /\ UNCHANGED <<state, since, config, vec, status, request, used>>

\* The vectors of the chunk ids read at the start are replaced in one
\* transaction; ids that a reparse has deleted since match no row.
Embed(w) ==
  /\ task[w].pc = "embed"
  /\ vec' = IF task[w].rows THEN [vec EXCEPT ![task[w].doc] = config] ELSE vec
  /\ Goto(w, "count")
  /\ UNCHANGED <<state, since, config, status, queue, request, used>>

\* Mutant of CountDone: the document is struck off and counted in two statements.
StrikeOffOnly(w) ==
  /\ task[w].pc = "count"
  /\ pending' = pending \ {task[w].doc}
  /\ Goto(w, "claim")
  /\ Touch(task)
  /\ UNCHANGED <<phase, sig, total, done, failed, target, config, vec, status,
                 queue, request, used>>

\* The document counts as done, whatever the row says of it.
CountDone(w) ==
  /\ task[w].pc = "count"
  /\ done' = done + 1
  /\ pending' = pending \ {task[w].doc}
  /\ Goto(w, "claim")
  /\ Touch(task)
  /\ UNCHANGED <<phase, sig, total, failed, target, config, vec, status, queue,
                 request, used>>

\* Mutant of CountFailed: a failed document is counted as done.
CountFailedAsDone(w) ==
  /\ task[w].pc = "fail"
  /\ done' = done + 1
  /\ pending' = pending \ {task[w].doc}
  /\ task' = [task EXCEPT ![w].pc = "claim", ![w].guarded = FALSE]
  /\ Touch(task)
  /\ UNCHANGED <<phase, sig, total, failed, target, config, vec, status, queue,
                 request, used>>

\* _mark_reembed_doc_failed: the document counts as failed.
CountFailed(w) ==
  /\ task[w].pc = "fail"
  /\ failed' = failed + 1
  /\ pending' = pending \ {task[w].doc}
  /\ task' = [task EXCEPT ![w].pc = "claim", ![w].guarded = FALSE]
  /\ Touch(task)
  /\ UNCHANGED <<phase, sig, total, done, target, config, vec, status, queue,
                 request, used>>

\* _maybe_finalize_reembed: one conditional UPDATE decides the winner.
Claim(w) ==
  /\ task[w].pc = "claim"
  /\ IF phase = "running" /\ AllIn
     THEN phase' = "finalizing" /\ Goto(w, "summary") /\ Touch(task)
     ELSE Release(w) /\ UNCHANGED phase
  /\ UNCHANGED <<sig, total, done, failed, pending, target, config, vec, status,
                 queue, request, used>>

\* finalize_reembed, first part: failed_docs is read; the index rebuild that
\* follows may take long and its failure is swallowed.
ReadSummary(w) ==
  /\ task[w].pc = "summary"
  /\ task' = [task EXCEPT ![w].pc = "settle", ![w].seen = failed]
  /\ UNCHANGED <<state, since, config, vec, status, queue, request, used>>

\* The UPDATE of finalize_reembed with the phase it writes.
SettleAs(w, ended) ==
  /\ task[w].pc = "settle"
  /\ phase' = ended
  /\ sig' = config
  /\ task' = [task EXCEPT ![w] = Idle]
  /\ Touch(task')
  /\ UNCHANGED <<total, done, failed, pending, target, config, vec, status, queue,
                 request, used>>

\* Mutant of Settle: failures are ignored.
SettleAlwaysIdle(w) == SettleAs(w, "idle")

\* finalize_reembed, second part: the unconditional UPDATE that ends the run.
Settle(w) == SettleAs(w, IF task[w].seen = 0 THEN "idle" ELSE "partial_failed")

\* Mutant of RetryOrFail: a document whose retries are used up counts as done.
RetryOrDone(w) ==
  LET d == task[w].doc
      n == task[w].tries IN
  \/ /\ n < MaxRetries /\ Room({d}, n + 1)
     /\ queue' = Sent({d}, n + 1)
     /\ Release(w)
  \/ /\ n = MaxRetries
     /\ Goto(w, "count")
     /\ UNCHANGED <<queue, since>>

\* The last except clause: retry with back-off, or count as failed.
RetryOrFail(w) ==
  LET d == task[w].doc
      n == task[w].tries IN
  \/ /\ n < MaxRetries /\ Room({d}, n + 1)
     /\ queue' = Sent({d}, n + 1)
     /\ Release(w)
  \/ /\ n = MaxRetries
     /\ Goto(w, "fail")
     /\ UNCHANGED <<queue, since>>

\* The embedding call fails.
EmbedError(w) ==
  /\ task[w].pc = "embed"
  /\ RetryOrFail(w)
  /\ UNCHANGED <<state, config, vec, status, request, used>>

\* The embedding call exceeds the soft time limit: no retry.
EmbedTimeout(w) ==
  /\ task[w].pc = "embed"
  /\ Goto(w, "fail")
  /\ UNCHANGED <<state, since, config, vec, status, queue, request, used>>

\* The database fails a statement after the vectors were written; the same
\* except clause runs when the statement is inside the try block.
LateError(w) ==
  /\ task[w].pc \in {"count", "claim", "summary", "settle"} /\ task[w].guarded
  /\ Happens("error")
  /\ RetryOrFail(w)
  /\ UNCHANGED <<state, config, vec, status, request>>

\* The worker process dies, is killed at the hard time limit, or an error is
\* raised outside the try block: the message is already acknowledged.
TaskLost(w) ==
  /\ task[w].pc \in CrashAt /\ Happens("crash")
  /\ Release(w)
  /\ UNCHANGED <<state, config, vec, status, queue, request>>

-----------------------------------------------------------------------------
(* reconcile_stuck_reembed, every five minutes in a free slot of the pool.  *)

\* updated_at is older than 40 minutes.  A task ends within 35, so no worker
\* can still be on the task it had then, and the loop that sends the messages
\* is over.  Unless tasks may stall, everything queued has ended as well.
RunStale ==
  /\ since = {}
  /\ \A q \in Requests : request[q].pc # "dispatch"
  /\ MayStall \/ (Busy(task) = {} /\ \A d \in Docs, n \in 0..MaxRetries : queue[d][n] = 0)

\* updated_at is older than 10 minutes while finalizing.
FinalizeStale == MayStall \/ \A w \in Workers : task[w].pc \notin {"summary", "settle"}

Redispatch(v) ==
  /\ task[v].pc = "free"
  /\ phase \notin {"idle", "finalizing"} /\ pending # {} /\ RunStale
  /\ \E S \in SUBSET pending :
       /\ Cardinality(S) = IF Cardinality(pending) < Batch THEN Cardinality(pending) ELSE Batch
       /\ Room(S, 0)
       /\ queue' = Sent(S, 0)
  /\ Touch(task)
  /\ UNCHANGED <<state, config, vec, status, task, request, used>>

RecoverFinalize(v) ==
  /\ task[v].pc = "free" /\ phase = "finalizing" /\ FinalizeStale
  /\ Goto(v, "summary")
  /\ UNCHANGED <<state, since, config, vec, status, queue, request, used>>

-----------------------------------------------------------------------------
(* What else touches the vectors: restarts and the parse task.              *)

\* All processes restart with another .env: running tasks and calls are lost,
\* queued messages stay in Redis.
Restart(c) ==
  /\ c # config /\ Happens("restart")
  /\ config' = c
  /\ task' = [w \in Workers |-> Idle]
  /\ request' = [q \in Requests |-> NoRequest]
  /\ since' = {}
  /\ UNCHANGED <<state, vec, status, queue>>

\* A (re)parse of d begins: by the owner, or redispatched by the parse beat task.
ReparseStart(d) ==
  /\ Happens("reparse")
  /\ status' = [status EXCEPT ![d] = "parsing"]
  /\ UNCHANGED <<state, since, config, vec, queue, task, request>>

\* The old chunks are deleted; ids held by a re-embedding task become stale.
ReparseClear(d) ==
  /\ status[d] = "parsing" /\ vec[d] # NoChunks
  /\ vec' = [vec EXCEPT ![d] = NoChunks]
  /\ task' = [w \in Workers |->
                IF task[w].doc = d THEN [task[w] EXCEPT !.rows = FALSE] ELSE task[w]]
  /\ UNCHANGED <<state, since, config, status, queue, request, used>>

\* New chunks are inserted with vectors of the configured channel.
ReparseDone(d) ==
  /\ status[d] = "parsing" /\ vec[d] = NoChunks
  /\ vec' = [vec EXCEPT ![d] = config]
  /\ status' = [status EXCEPT ![d] = "parsed"]
  /\ UNCHANGED <<state, since, config, queue, task, request, used>>

\* The parse fails, before or after the old chunks were deleted.
ReparseFailed(d) ==
  /\ status[d] = "parsing"
  /\ status' = [status EXCEPT ![d] = "failed"]
  /\ UNCHANGED <<state, since, config, vec, queue, task, request, used>>

-----------------------------------------------------------------------------
(* Specification                                                            *)

RequestStep(q) == TriggerClear(q) \/ TriggerWrite(q) \/ TriggerDispatch(q)

TaskStep(w) ==
  Embed(w) \/ CountDone(w) \/ CountFailed(w) \/ Claim(w) \/ ReadSummary(w) \/ Settle(w)

Take(w) == \E d \in Docs, n \in 0..MaxRetries : Start(w, d, n)

Beat == \E v \in Workers : Redispatch(v) \/ RecoverFinalize(v)

Environment ==
  \/ \E c \in Channels : Restart(c)
  \/ \E d \in Docs :
       ReparseStart(d) \/ ReparseClear(d) \/ ReparseDone(d) \/ ReparseFailed(d)

Next ==
  \/ \E q \in Requests : TriggerCheck(q) \/ RequestStep(q) \/ TriggerLost(q)
  \/ \E w \in Workers :
       \/ Take(w) \/ TaskStep(w)
       \/ EmbedError(w) \/ EmbedTimeout(w) \/ LateError(w) \/ TaskLost(w)
  \/ Beat
  \/ Environment

\* A worker that has a task works on it, the pool consumes its queue, a call
\* that was accepted goes on, and the beat task runs again and again.
Fairness ==
  /\ \A q \in Requests : WF_vars(RequestStep(q))
  /\ \A w \in Workers : WF_vars(TaskStep(w)) /\ WF_vars(Take(w))
  /\ WF_vars(Beat)

Spec == Init /\ [][Next]_vars
FairSpec == Spec /\ Fairness

-----------------------------------------------------------------------------
(* Properties                                                               *)

\* Every document of the run is counted or still listed: the statement that
\* strikes a document off pending_doc_ids is the one that counts it, so a
\* crash, a retry or a duplicate never makes the row forget a document
\* (reembed_document, _mark_reembed_doc_failed).
Accounting == total <= done + failed + Cardinality(pending)

\* Within one .env: of the documents struck off the list of the latest run,
\* no more hold outdated vectors than failed_docs says.  This is what lets
\* finalize_reembed decide from failed_docs alone.
StruckOffMigrated ==
  used["restart"] = 0 =>
    Cardinality({d \in target \ pending : Outdated(d)}) <= failed

\* When queries are answered under the signature of the configured channel, a
\* document with vectors of another channel is neither parsed nor one of the
\* latest run, whatever became of it since ("防新旧向量混检").  The other documents
\* are not promised: one that was not parsed when the run began, because its
\* reparse had failed before its old chunks were deleted, keeps its old vectors,
\* and VECTOR_SQL searches the chunks of documents of every status.
IdleMeansMigrated ==
  phase = "idle" /\ sig = config =>
    \A d \in Docs : Outdated(d) => status[d] # "parsed" /\ d \notin target

\* The winner of the claim and the beat task agree: as long as nobody takes a
\* slow finalizer for dead, one worker at a time settles a run.
OneFinalizer ==
  \A v, w \in Workers :
    task[v].pc \in {"summary", "settle"} /\ task[w].pc \in {"summary", "settle"} => v = w

\* A run is settled by one worker, and what it took on is migrated when queries
\* are answered again.
MigratedOnce == IdleMeansMigrated /\ OneFinalizer

\* A run that has started reaches a phase from which the administrator or the
\* users can go on.
RunEnds == phase \in {"running", "finalizing"} ~> phase \in {"idle", "partial_failed"}

-----------------------------------------------------------------------------
(* Refinement: the phase of the row and the outdated parsed documents.      *)

AbstractJob ==
  CASE phase = "idle" -> "ready"
    [] phase \in {"running", "finalizing"} -> "migrating"
    [] phase = "partial_failed" -> "attention"

AbstractTodo == {d \in Docs : status[d] = "parsed" /\ Outdated(d)}

M == INSTANCE Migration WITH job <- AbstractJob, todo <- AbstractTodo

\* A run of trigger_reembed, its tasks and its repairs looks like one abstract
\* migration: outdated documents only become fewer, and "idle" is written only
\* when none is left.
ImplementsMigration == M!Spec
=============================================================================
