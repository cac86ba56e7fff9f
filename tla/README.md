# Verification of aiwenda

TLA+ models of aiwenda, a knowledge-base question answering system for
companies, with the TLC runs that check them on small instances and the TLAPS
proofs that hold for every instance. Paths below are those of the repository;
`ai-service/` is the Python service (FastAPI and a Celery worker), `server/` the
NestJS backend, `frontend/` the Vue client.

## 1. Inventory

```
browser ──HTTP/SSE──> NestJS server ──HTTP/SSE, fire-and-forget calls──> FastAPI ai-service
                         │    │                                            │      │
                         │    └── Redis (tokens, codes, counters)          │      └─ Redis queue
                         └────────── PostgreSQL + pgvector ────────────────┘            │
                                            └───────────────── Celery worker (2 slots, beat)
```

The services share no memory. They meet in PostgreSQL (single-row statements,
no transaction spans two services), in the Celery queue, and in HTTP calls of
which most may be lost without anybody noticing. The tabs of a browser share its
local storage, and the pages of a tab its Pinia stores.

| part | state | operations | what is hard | what makes it correct |
|---|---|---|---|---|
| re-embedding (`tasks.py`, `internal.py`, `db.py`) | the `embedding_state` row, vectors of chunks, queued and running tasks | trigger, one task per document, count, claim, finalize, beat repair | duplicates, crashes between two statements, two triggers, a restart with another `.env`, a parse of the same document | nobody queries a mixture of vectors; no document is forgotten; a run ends |
| document ingestion (`document.service.ts`, `tasks.py`) | `documents`, `chunks`, `document_images`, status of the knowledge base | upload, reparse, remove, `parse_document`, beat repair, chunk settings | lost submissions, overlapping tasks, crashes between DELETE and INSERT, retries after `failed` | a parsed document has the chunks of one parse; nothing stays in progress; the knowledge base reopens |
| question answering (`chat.service.ts`) | conversation, two messages, daily and monthly usage | admit, store, stream, finalize, title | a browser that leaves at any moment, a failing statement inside `finalize`, two tabs, removal and rename meanwhile, month ends | a message is settled once; stopped answers are free; usage is what was generated and received |
| answer generation and cache (`internal.py`, `answer_cache.py`) | the answer cache, the generator of each call | lookup, replay, retrieve, generate, store, invalidate | invalidation is a separate, unreliable call; answers in flight | no entry outlives the removal of its documents |
| departments (`department.service.ts`) | tree with materialised paths, members, leaders | create, move, remove, members | each checks first and writes later | the paths are those of a forest, access follows them, members are counted |
| accounts and roles (`user.service.ts`, `rbac.ts`) | rows of users with their ranks | register, create, update, remove | a caller or a target whose rank changes between check and write | a role comes from above it; the station head stays |
| access to libraries (`kb-access.ts`, `search.service.ts`, `chat.service.ts`, `api-key-auth.guard.ts`, pages) | scope, owner, members, role, key | list, open, search, ask, write | filters in SQL, predicates in code and flags of the pages must agree, and a question outlives the check | one rule on every channel; a page offers what the server takes |
| sessions (`auth.service.ts`, `request.js`) | tokens in Redis, `tokenVersion`, storage and interceptors of every tab | login, refresh with grace, logout, reset, retry, forced login | tabs that refresh together, Redis failing between two commands, answers lost | tokens die with the password; tabs do not throw each other out; no request waits for ever |
| e-mail codes and forms (`mail.service.ts`, `captcha.service.ts`, `LoginView.vue`) | codes, cooldown, quota, failures; form, picture, countdown | send, check, register, reset | every Redis command apart, late answers that meet another form | a code serves once; the form is for the picture shown |
| settings and keys (`settings.service.ts`, `keystore.py`, `ip-whitelist.guard.ts`) | one row of JSON sections, two caches | save, merge, reload | overlapping saves, slow reads that fill a cache late | keys survive; a cache is as old as it says |
| embedding health (`embedding.py`, `embedding_state.py`) | state of the provider, a throttle per process | call, retry, record, probe | threads that interleave check and write | a success ends the warning |
| text and retrieval (`parser.py`, `chunker.py`, `retrieval.py`) | none | outline, split, fuse, rerank, join | boundaries, fences, levels skipped, ranks | no text lost or under a foreign heading; the order follows both recalls |
| event stream (`internal.py`, `chat.service.ts`, `api/chat.js`) | two buffers | read, split, relay | cuts anywhere | the events arrive whole |
| chat page (`store/chat.js`, `ChatView.vue`, `ChatInput.vue`) | the list, the open answer, the selection, the box | ask, create, stop, regenerate, select, remove, attach | answers, details and suggestions that overtake each other | pieces reach their own turn; lock, answer, list and selection agree |
| other pages (`KnowledgeDetailView.vue`, `useParseWatcher.js`, `FavoritesView.vue`, `GlobalSearch.vue`, `DocPreviewDrawer.vue`, `AnalyticsView.vue`, `EvalCaseDrawer.vue`) | forms, watches, lists, overlays | upload, watch, save, keep, search, preview, evaluate, report | requests that answer a page which has moved on | what is shown is what was asked for last; each document is told once |

`PROJECT.json` lists every part with its sources and status, and every hazard
found in the code at its line, with the properties that cover it.

## 2. Structure

| modules | what they are |
|---|---|
| `Reembed`, `Migration` | the re-embedding run, and the abstract promise it implements (`MCReembed` holds the mapping) |
| `ParsePipeline` | ingestion of one knowledge base |
| `ChatStream`, `AnswerCache`, joined by `AnswerWire` in `Answering` | a question in the server, an answer in the ai-service |
| `Department`; `Roles`, `Accounts`; `KbAccess`, extended with `Api` by `PageGates` | people, ranks, access |
| `AuthSession`, extended by `BrowserTabs` | sessions and the tabs of a browser |
| `ChatTab` | the chat page |
| `Outline`, `Splitter`, composed by `DocumentText`; `Retrieval`; `EventReader`; `EmailCodes`; `Evaluation`; `LoginForm` | parts that do not interact, run together by `MCParts` |
| `SystemSettings`; `EmbeddingHealth`; `KnowledgePages`; `Composer`; `Favourites`; `Overlays`; `Reports` | settings, health and pages, run together by `MCConsole` |
| `…Proofs` | theorems and proofs, section 5 |
| `MC…` and `*.cfg` | instances |

`MCPeople`, `MCParts` and `MCConsole` run several components in one model: an
initial choice (`part`) says which of them moves, the others rest, since their
product would say nothing more about any of them. Every module states its types
in one `TypeOK` (or a part of the invariant of its proof module); where a theorem
proves it, no run repeats it.

The order of the work was: re-embedding (every query depends on it), ingestion,
answering, departments, sessions, chat page, the remaining parts, then the
invariants behind their properties. Left: proofs about the modules run by
`MCParts` and about the pages of `MCConsole`, as far as section 5 says that they
are within reach; creation of libraries; the counters of the throttle.

## 3. Modules and code

One action stands for one committed statement (or one event of a stream, one
Redis command, one JavaScript task) that others can observe; reads that nobody
can separate are one action with the statement that follows. Comments of the
actions give what is left out, the map in `PROJECT.json` the lines.

**Reembed** — `phase`, `sig`, `total`, `done`, `failed`, `pending` are the columns
of `embedding_state`; `since` stands for `updated_at` (the tasks that have not
finished since it was set); `vec[d]` is the channel of the vectors of a
document, `queue` and `task` the Celery side, `request` the API handler, `config`
the `.env` of the running processes. `Trigger*` is `trigger_reembed` in its
statements, `Start … Settle` the task with `_maybe_finalize_reembed` and
`finalize_reembed`, `Redispatch` and `RecoverFinalize` the beat task. A task is
acknowledged when it starts, so `TaskLost` loses it. `target`, the documents of
the latest run, is auxiliary.

**Migration** — what a run promises: queries are open only when nothing is left
to convert; conversion never goes back. `MCReembed` holds the refinement mapping
(`phase` to `job`, the outdated parsed documents to `todo`).

**ParsePipeline** — one knowledge base. `rows[d][i]` is the chunk with index `i`:
empty, a text chunk of some chunk settings, or a picture chunk whose image row
still exists or not. `UploadDoc, UploadMark, UploadSend` are the loop and the
tail of `upload`; `Clear … Tally` the statements of `parse_document`, `GiveUp` and
`RetryLater` its two failure paths, `Reconcile` the beat task. `heard` stands for
`updated_at`. `behind` is auxiliary: the columns of the library (status, chunk count)
that were left stale by a statement after which nobody recounts.

**AnswerWire** — the HTTP response between server and ai-service: the events
written and not yet read, and whether the stream is open, closed, broken or
aborted. It also holds the budget of events of a run.

**ChatStream** — `call[q]` holds the local variables of `streamAnswer` (program
point, the conversation and whether its title was a placeholder *when it was
read*, first question, text received, client gone, and what finalize was called
with). `question`, `reply` are the two message rows, `usage` and `daily` the two
statistics. Usage is counted in answers of the model, since the properties only
distinguish billed from free. `StatementFails` is a database error at each
point: before the stream nothing catches it, in the stream the catch clause
finalizes, inside `finalize` its flag is already set.

**AnswerCache** — `gen[q]` is the generator function of `POST /internal/chat`;
`cache[S]` the entry for a set of knowledge bases; `live`, `parsing`, `removed` what
the invalidations are about; `due` and `notices` a change that was committed and
an invalidation call on its way. Whether two questions are close enough is an
open choice (`Hit` or `Miss`).

**Answering** — both side by side. They share `wire` and `used` only; each step of
one leaves the other's variables unchanged. The properties that relate bills to
answers and cache entries to conversations are stated here.

**Department** — `parent`, `path`, `leader` and `state` are the `departments` table
(a path is a sequence of ids, so a prefix ends at a segment), `member` the
`user_departments` rows, `kb` the libraries with their members and `member_count`.
A call is two steps, `…Check` (its reads, kept in `admin[a]` or `owner[o]`) and
`…Write` (its transaction with the constraints of the schema); `RemoveUser` is the
deletion of an account with its cascades. `Listed` is the filter of the lists,
`CanRead` the decision of `detail`, both for users without the data scope ALL.

**Accounts** — `row[p]` is the account of a person, `desk[d]` a call of the user
management with what it read about its caller and its target. Names and ids are
not used again after a removal.

**KbAccess**, **PageGates** — one signed-in user. `me` is the role in the database,
`library[k]` what decides about a library; the operators `Detailed`, `ListedKbs`,
`Found`, `Options`, `KbAsserted` and so on are the channels, each from its own
code; `ask[q]` a question between its admission and its retrieval, in the browser
or with a key. A filter of libraries, several reads in the code, is one step.

**Api**, **PageGates** — what the browser calls. `Api` lists the controllers with what
the guard or the service of each call demands of its caller (`Controllers`), and the
functions of `src/frontend/src/api` with the call that each one is (`Apis`). `PageGates`
adds what the tab knows (`profile`, `cached`, `shown`), login, logout and the routes, and
one set of functions for each page, tab and dialog: what it loads by itself and what
its buttons offer under their conditions. `Served` follows a function to its
controller and asks it for the role and the standing the user really has. `shown` is
the library that is open, a row of the list, or the one chosen among the options,
which carry no standing. A document behind an old citation or a favourite is no offer
of a page: its library may have been closed to the user since.

**AuthSession**, **BrowserTabs** — one account. A pair of tokens is a number;
`pair[j]` what its two tokens carry, `white`, `grace`, `revoked` the Redis keys,
`call[t]` an exchange in the server and on its way back, `login[t]`, `change`, `user`
the other calls and the row. `storage` is the local storage of the browser,
`tab[t]` the module state of `request.js` (the timers of `forceRelogin`), `req[t][q]` the
requests with their single retry. `hurt` notes the tokens that a failing command
left half exchanged. One Redis connection orders the SET of the grace key before
a later GET of it. A logout of the page removes the stored tokens first and then
calls the server without one, so the server revokes none. A wrong password of a
login also runs `forceRelogin`, and the second timer of 600 ms is not cancelled.

**EmailCodes** — one address. `key[s]` the Redis keys of a scene, `send[r]` and
`visit[v]` the handlers with one program point per command, `box` the codes that
arrived.

**ChatTab** — `view` is the store, `stream[s]` an answer with what its closures
captured (conversation, index or message object), its connection and what `onDone`
still awaits. `loading` the detail requests, `conv` the server's conversations. The
text of a turn is the set of the streams whose pieces are in it. `slips` notes
which unguarded orders have happened; the properties say what holds without them.
`there` says whether the list is still the one the question was asked in. A stream
can end without any of its events of the end (`Silent`: `streamAnswer` leaves its loop
when the connection closes, which happens when `finalize` of the catch clause throws,
`chat.service.ts:484-496`, and the controller swallows it): no handler is called, the
answer is "mute" and the page stays locked until the user stops it.

**Outline**, **Splitter**, **DocumentText** — from the kinds of the lines of a file
to blocks with headings, and from texts of letters and separators to chunks. The
lines of a ruled table of a PDF are in the text of their page and once more as a table of
their own; pages without text go to OCR, whose limit fails the whole document and
which may be switched off; every chunk begins with the heading of its text, which
comes on top of the size.
**Retrieval** — two recalls, fusion, routing to the reranking model, its answer
(any set of indices, none twice), the picture, the joining of neighbours; scores
are levels. **EventReader** — two streams of bytes, an event being two halves of a
line and an empty line, cut anywhere.

**Evaluation**, **LoginForm** — the test questions with their drawer and the run of
three searches per case; the three forms with picture, countdown and mail. The
fields that need no answer of the server are filled in with those that do.

**SystemSettings** — `row` with `save[a]` (what a save read and will write), `keyCache`
per process with its age, `listCache` of the guard, `held` what was in force at which
age. **EmbeddingHealth** — `call[c]` a thread, `beat[p]` the throttle of a process, the
recorded state with its age. **KnowledgePages** — the route, the form, the three
uploads and the watch with its entries and polls. **Composer** — the box, the sends
with what they took along, the texts the server keeps. The page's own checks
(`PassesPage`) are not those of the server: a body of two large files is over the limit
of `main.ts`, an empty ending is refused, texts are extracted one file after the other
and the first failure refuses the rest, and the upload is throttled. **Favourites** — the copies,
the stars and the board. **Overlays** — the search box with its timer and answers,
the drawer with its loads and object URLs. **Reports** — the rows answers leave, the
statements of one load of the figures, and the disliked answer that becomes a case.

## 4. Runs

| run | instance | question | result |
|---|---|---|---|
| `reembed_faults` | 2 documents, 2 workers, 2 API calls, 3 channels (2 dimensions), one fault of any kind at any point, slow queues | is the bookkeeping of the row sound under every fault? | `Accounting`, `StruckOffMigrated` hold |
| `reembed_prompt` | 2 documents, 2 workers, one retry, two faults, prompt service | does a run keep its promise to the readers, and end? | `MigratedOnce`, `RunEnds`, `ImplementsMigration` hold |
| `parse_faults` | 2 documents (one illustrated), 2 workers, 1 retry, 2 chunk settings, one event | is a parsed document complete and the library settled? | `LibrarySound`, `NoLimbo` hold |
| `answering_faults` | 2 calls, 2 conversations, quota 1, 2 knowledge bases, 1 document, one event of eight kinds at any moment | messages, bills and cache under concurrency and faults | `LeaveStops`, `BillsMatch`, `RemovedForgotten`, `SettledOnce`, `StreamingEnds` hold |
| `people` | 3 departments, 1 administrator, 2 owner sessions; 3 accounts, 2 desks; 2 libraries, 1 question; every page and tab with 2 libraries, from the login on | tree, counts, ranks, channels, pages | `DepartmentsHold`, `LeaderLeaves`, `RanksHold`, `OneRule`, `PagesServed` hold |
| `page_save` | 1 library and its page | is every form that is offered one that can be saved? | `SaveAccepted` violated |
| `sessions` | 2 tabs, 2 requests each, 3 pairs of tokens, one event of any kind | do tokens and tabs agree? | `TokenHonest`, `WaitersServed`, `KickedForCause` hold |
| `sessions_rehash` | the same with an old hash | does a reset password stay? | `PasswordKept` violated |
| `chat_tab` | 2 conversations (one old), 2 answers, 2 changes of conversation | pieces, lock, list and selection in any order of answers | `TurnsOwn`, `PageConsistent`, `LockReleased` hold |
| `chat_title` | the same | does a conversation bear the name of its own question? | `OwnTitle` violated |
| `parts` | files of up to 4 lines in three formats; searches over 4 chunks; 4 events cut anywhere; 2 senders and 2 visitors; 2 libraries of cases; the login page | text, search, stream, codes, evaluation, forms | `TextFaithful`, `SearchSound`, `StreamWhole`, `AcceptedOnce`, `CodeKept`, `EvaluationSound`, `CodesAskable` hold |
| `console` | 2 saves, 3 callers in 2 processes, the pages with 2 of everything | settings, caches, health, and what the pages show | `KeysSurvive`, `CachesFresh`, `WarningEnds`, `Told`, `ConfigOwn`, `AttachmentsArrive`, `FavouritesSound`, `OverlaysOwn`, `ReportsTrue` hold |

The violated properties quote a comment of the repository; "findings" in
`PROJECT.json` gives the quotations.

**Properties made of parts.** `MigratedOnce`: `IdleMeansMigrated` (while
queries are answered under the signature of the configured channel, no document that is
parsed or was in the latest run has vectors of another; the others are not promised,
section 6) and `OneFinalizer`. `LibrarySound`: `ParsedComplete` (a parsed document is
complete) and `SettledLibrary` (a library in which nothing goes on is ready, with the
right count, but for the columns that are `behind`). `DepartmentsHold`: `PathsFit` (paths spell the
parent links), `AccessFollowsTree`, `CountExact`. `OneRule`: `ChannelsAgree`, `AskWithin`.
`TurnsOwn`: `OwnText`, `TurnSettled`. `PageConsistent`: `OneStream`, `ListFits`.
`TextFaithful`: `OutlineFits` (every line that can be read is in one block under its
headings, ruled tables of a PDF in a second one, and a file fails only without text or
over the limit of OCR) and `ChunksFaithful` (a chunk is its heading and at most the
size of text; no letter is lost). `SearchSound`: `ParetoOrder`,
`PassagesSound`. `AcceptedOnce`: `SpentOnce`, `OneAccount`. `EvaluationSound`,
`CodesAskable`, `CachesFresh`, `FavouritesSound`, `OverlaysOwn`, `ReportsTrue` name their
parts, and what each part excepts, in their modules. `AttachmentsArrive`: a question is
asked with all of its files unless their texts have expired, and one whose files arrived
is dropped only when something else was sent meanwhile; it does not say that the server
takes what the page let through.

**Bounds.** Two workers and two documents are the smallest instance in which one
task counts while another claims and a third document state (struck off, listed,
in flight) exists; two calls are the smallest in which bills, titles and cache
entries of different calls meet. Event budgets (`Limit`, `MaxFaults`,
`MaxEvents`) cap crashes, errors and the like, not the program's own steps: one
event at *every* point of every interleaving is what is explored. `MaxCopies`
caps identical queued messages at one, `LastMonth` the month ends at one. The
quota of one answer makes the first recorded answer exhaust it. Length 1 and 2
of the chunk settings make one a prefix of the other in `chunk_index` and leave a
slot for the picture chunk.

* `people`: three departments are the fewest in which a subtree of two moves below
  a third; `MaxCalls` 4 creates them and moves it, two overlapping calls of owners
  (`MaxAsks` 2) are the fewest that can count a member twice. A tree is explored with
  one call of an owner, sharing with two calls of the administrator. Three accounts
  (the station head, a manager, a target), two calls at a time, `MaxEdits` 3. Two
  libraries, the second one public, one question, a key with a daily quota of one,
  one change of a library or of the role (`MaxRegrants` 1).
* `sessions`: two tabs are the fewest that exchange one token, `MaxPairs` 3 lets an
  exchange follow an exchange, two requests of a tab share one exchange.
* `chat_tab`: `MaxConvs` 2, `MaxStreams` 2, `MaxSwitches` 2, so that an answer can end
  after its conversation was left and entered again. `ChatProofs` removes the
  bounds (and showed that `OwnText` needs `Calm`: with two answers under way at once
  and four in all, a piece can reach a turn that was regenerated).
* `parts`: `MaxLines` 4, `Sizes` {4, 6} and `Overlaps` {0, 2} make chunks of one to
  three letters and separators that join or do not; `OcrMax` 1, so that two scanned
  pages are over the limit; four chunks of two documents
  with `Pool` 3 and `TopK` 2 let each cut drop something, a picture only without
  fusion; `MaxSent` 4 events; `MaxDaily`, `MaxFails`, `MaxCodes`, `MaxEntries` 2,
  `MaxFaults` 1; the evaluation in three parts (cases, drawer, run) with two
  libraries and two questions, a behaviour whose page has slipped ends there;
  `Cool` 2, two pictures, two mails, one submission.
* `console`: saves, keys, list, health, form, custom, drop, import, box, copies,
  board, search, preview, figures and reflow move one at a time; ages up to 2
  (`KeyTtl`, `ListTtl`, `OkInterval`); two knowledge bases, interchangeable, two
  documents (one in custom and drop), one upload and one poll at a time, two
  watches, answers may omit any document (a list holds the 100 latest); three kinds
  of files (large, of which two are over the limit of the body, with an empty ending,
  and too large for the page) and two sends; two turns kept, pages of one; two words with up to two hits, two
  papers, three previews; two answers over two days with two loads.

**Assumptions that a run makes, by constant.** `MayStall = FALSE`
(`reembed_prompt`): no message waits and no finalizer runs past the 10 minutes
after which the beat task takes it for lost; otherwise a message is counted
twice. `CrashAt` without `"claim"` (`reembed_prompt`): the crash point after
which nobody goes on and the run never ends; `parse_faults` crashes at every point.
`Overlap = FALSE` (`parse_faults`): a document is not dispatched while an earlier
task of it lives, which the code does not ensure; otherwise it may have the chunks of
two parses, although `tasks.py:287-288` and `db.py:43-44` call double runs harmless
(section 6). `SettledLibrary` and its theorem do without this assumption. `Overtaken = FALSE`
(`answering_faults`): an invalidation does not arrive between the retrieval and the
storing of an answer; without it an answer in flight is stored after the
invalidation it should have met. `Straddle = FALSE`: no month ends between the two
statistics statements of one answer. `Admins` with one element (`people`):
administrators of departments do not overlap; with two, a department can be moved
below itself, since no check is repeated in the transaction. `Legacy = FALSE`
(`sessions`): no login replaces an old hash; `sessions_rehash` shows what happens
otherwise. `CHECK_DEADLOCK FALSE` everywhere: when the budget is spent and all work
is done the system rests.

**Excuses.** Where a page is known to be raced, a history variable notes that the
race happened (`slips`, `crossed`, `past.slips`, `files.across`, `history.slip`,
`told[d] = -1`), or notes that a column is stale (`behind`), and the properties say that
nothing *else* breaks them: they do not catch the race itself. Section 6 lists these
races.

**Fairness.** Weak fairness only, and only of what runs by itself: a worker goes
on with its task (tasks have time limits), the pool takes the next message, the
beat schedule repeats, an accepted API call goes on, the generator goes on (each
upstream call has a time limit), and the server accepts, answers, refuses or
ends every answer or drops its connection (`ChatTab`, `Settle`, of which a silent end is
one outcome: `LockReleased` promises the lock back unless the answer that holds it went
mute). Users, crashes, errors, restarts and month
ends are never fair. Retrying is not assumed to succeed: the failure branches are
taken fairly or not at all. The liveness of sessions is not run: that an exchange is
answered within the 15 seconds of the client's time limit is what they would need.

## 5. Proofs

Eight modules hold theorems. Each is about the component's module with any values
of its constants, under the assumptions that module declares, without the bounds of
the runs (bounds such as `MaxEvents` stay parameters). "Needs" names what else a
theorem assumes, which is what the run of the same property assumes.

**`ReembedProofs`** (`DocsFinite`; no assumption of promptness but for the last two):

* `TypeCorrect` — `Spec => []TypeOK`, one lemma per group of actions.
* `AccountingHolds` — `total <= done + failed + Cardinality(pending)`. Only three
  actions change these (`CountersChange`): the trigger writes all at once, and the
  two counting statements strike off at most one document and count exactly one.
* `StruckOffHolds` — under one `.env`, of the documents of the run that were struck
  off the list no more hold vectors of another channel than `failed` says. It needs
  that a worker about to count a document holds one (`HasDoc`) and that the document
  about to be counted as done has vectors of the configured channel (`CountsMigrated`).
* `AlwaysMigratedOnce`, `MigrationRefined` — under `Prompt`: one request at a time, no
  message waits and no finalizer runs past the thresholds (`~MayStall`), no statement
  fails after the count and no restart with another `.env`. Crashes at any point,
  errors of the provider, timeouts and parses are allowed. The invariant
  `MigrationInv` says that a document that is not yet accounted for is asked for once
  at most, by a message, a task or the loop that has its message still to send
  (`Single`), that the counters are exact, a claimed run is complete and has one
  finalizer, and every outdated document is among those of the run (`Orderly`), and
  that there was no restart. Every step is then
  a step of `Migration` or leaves its variables alone; the fairness of
  `ImplementsMigration` is left to TLC.

**`ParseProofs`**:

* `TypeCorrect`.
* `ParsedAlwaysComplete` — needs `~Overlap`. `Shape`: the types, and a free worker holds nothing of an earlier
  task. `Parsing`: a document is asked for once at most (`Asked`), what a task has
  already deleted and inserted at each of its program points (`Halfway`), and that a
  parsed document without a task is complete.
* `LibraryAlwaysSettled` — without assumption: with double tasks, crashes at every point,
  removals and reindexing. `Counting`: if nothing goes on, each column of the library is
  right or `behind`, or a worker is about to recount it.
* `LibraryAlwaysSound` — needs `~Overlap`: `LibraryAlwaysSettled` and
  `ParsedAlwaysComplete` together.

**`AnsweringProofs`** (any calls, conversations, documents, quota, points at which the
database may fail, and budget of events):

* `TypeCorrect`. `CallFrame` and `CallStepType` say which step of a call changes which
  table and what it does to its local variables.
* `LeftMeansStopped`, `SettledForGood` — from `AllCoherent`: before `finalize` has
  written the message its status is "none" or "streaming", before `finalize` is
  entered nothing is billable, and a call whose reader has left is in the stream or
  on the path of the ending "stopped". No step leads back to the stream: the program
  point of a call, not the guard of the flag, makes `finalize` idempotent.
* `BillsAlwaysMatch` — needs `~Straddle` and finitely many calls. `BillInv`: what is
  left to read on the wire and in the generator agrees with the program point of the
  call, and what it bills with what was generated (`Honest`); answers are dated in
  the order in which they are counted (`Dated`); the statistics are the numbers of
  answers counted and about to be (`Sums`).
* `RemovedIsForgotten` — needs `~Overtaken`. `Forgetting`: what an entry, or an answer about to become one, takes
  from a removed document still has the invalidation of its library ahead of it.

**`PeopleProofs`**:

* `CountIsExact` — for overlapping administrators and owners: `Counted`, the counter
  of a library is its creator and its members, and one more for each member whose
  account was deleted, which the cascade does not count.
* `DepartmentsAlwaysHold`, `LeadersLeave` — one administrator at a time, finitely many
  users. `TreeInv`: the paths are the chains of parent links (`PathsFit`), a membership is in
  a department that is kept (`HomesKept`), and what a call has checked still holds
  when it writes (`Pending`), since nobody else changes the tree.
* `RanksAlwaysHold` — `RanksInv`: the account of the station head is what it was, and a
  call under way is about somebody else and gives a role below its caller's. A target promoted between check and write
  can be changed by somebody now below it: the property is about the roles given
  and about the station head.
* `OneRuleAlways` — `AccessInv`: types, and a question has noted (`seen`, `held`) what
  its user could read since it was asked.
* `PagesAlwaysServed` — `GatesInv`, what each function demands (`UserDemands`,
  `KnowledgeDemands`, `ChatDemands`), what a known role and a known standing grant
  (`RoleKnown`, `StandingKnown`), then page by page.

**`SessionProofs`** (any number of tabs, requests, passwords and pairs):

* `TypeCorrect`.
* `HonestTokens` — `~Legacy`. A token carries the version read when its call began;
  every change of password or standing raises the version, and a call in flight
  carries what it read.
* `EveryWaiterServed` — a request waits exactly while its tab hears an exchange.
* `KickedOnlyForCause` — `CauseInv`: no token is of a later version than the account
  (`Versions`); the token of an exchange can still begin one or is gone for good, is
  in its period of grace, or was taken by an exchange that is about to start that
  period (`Exchanged`); a pair on its way to a tab is known to nobody else
  (`OnItsWay`); the stored token can be exchanged, or a tab hears an exchange of it
  (`Stored`); whoever waits for the notice was sent back already (`Timed`). Assumes, as the model does, that a request and its answer take less
  than half the period of grace.

**`ChatProofs`** (any number of conversations, answers and changes of conversation):

* `TypeCorrect`.
* `TurnsAlwaysOwn`, `PageAlwaysConsistent` — from the invariant `Core`: lists and
  conversations hold only answers that were asked for (`Asked`); the turn of an
  answer in the list it was asked in is at its index and runs no longer than it
  (`Own`); an answer that runs finds its turn there (`Mine`); the open answer is the
  one that locks the page (`OneStream`); the list is that of the conversation
  selected, or that one is loading (`Fits`); and `OwnText`. `Quiet` collects the steps
  that open, end and move no answer, `Ended` what each of the three ends does.

**`PartsProofs`** (any pictures, mails, submissions, senders, visitors, codes, faults,
calls, lists and cases):

* `AlwaysAskable` — `LoginInv`: what is entered is for the picture shown (`Entered`),
  a mail is refused for it only when the picture has served (`MailsFit`), one mail at
  a time and none during the countdown (`OneMail`), which one interval runs
  (`Interval`), and no cooldown of the server is longer than the countdown but that of
  the mail whose answer is on its way (`NoLonger`).
* `OnlyOnce`, `CodeAlwaysKept` — `CodesInv`: a code is of one scene (`Apart`) and gone
  once accepted (`Unspent`); the request that set the code of a scene is of that scene
  (`OwnScene`), one that carries another of its codes went across it (`OthersCross`);
  and the failures of a code that nothing went across are entries of this code, those
  about to be counted included (`FailsFit`).
* `EvaluationAlwaysSound` — questions apart until two calls race; lists and report while
  nobody else wrote, no list failed, no answer was lost or overtaken and the address did
  not jump; no call astray, always. `ServerInv`: a call that was checked is about a case of its
  library, or one that is gone (`Reaches`), and what it brings is not there yet unless
  two calls raced (`StillFree`). `PageInv`: a list read since the last write is the
  server's (`Current`); what the page shows is, or a list or an answer is on its way
  (`PageOwed`); the drawer fits but for the switches not yet answered (`SwitchFits`), is
  about to be renewed, or can only be overtaken (`Doomed`). `RunInv`: an undisturbed run
  is over the cases the library has. `Write` and `Answered` are the two steps with work
  in them.

**`ConsoleProofs`** (one section for each part; parts share no state):

* `KeysKept` — `SettingsInv`: while no two saves of keys have overlapped, one save of
  keys is under way and holds the keys of the row (`OneSave`).
* `CachesAlwaysFresh` — `CachesInv`: types, and whatever is cached or about to be
  cached was in force as late as its age says.
* `WarningIsEnded` — `HealthInv`: a process whose throttle is younger than the error,
  while the warning stands, is writing the success or lost its write (`Owed`).
* `OverlaysAlwaysOwn` — the search in any order of answers, the drawer as long as no
  load crossed another or its closing. `FindInv`: hits shown are those of their word (`HitsOwn`);
  `ShowInv`: a load that nothing went across is the only one, for the document shown,
  and has shown nothing yet (`Alone`).
* `ConfigAlwaysOwn` — `RouteInv`: the form is that of the library for which the page
  was opened, unless it was reset.
* `AlwaysTold` — `WatchInv`: a document is with one upload (`UploadsOwn`), then in the
  entry of its library that is in force (`EntriesOwn`), and a poll that may tell of it
  is the only one of that entry (`ListsOwn`, `PollsOwn`).
* `AttachmentsAlwaysArrive` — whether or not the server takes what the page let through.
  `ComposerInv`: what an upload holds and what of it the
  server has (`Carried`), texts at the server belong to a question that has not taken
  them (`Untaken`), and of two uploads the later has noted the earlier (`Noticed`),
  so that whichever streams first can be named for the one it drops (`NotAlone`).
* `FavouritesAlwaysSound` — the copies' questions unless two messages were apart; stars
  and board while no call failed, was overtaken or told a page of the past. `FavInv`: a turn's question is right before its answer
  unless another came between, and both are in the past (`InOrder`, `InTime`); copies,
  and those about to be written, are of answers that are there (`CopiesKept`,
  `CopiesRead`) under numbers of their own (`Numbered`); a page that was left is told
  nothing (`Left`); an answer that is kept has its star or is about to (`Starry`); the
  rows shown are the part of the copies, but for one whose removal is not told yet
  (`Listing`), and so is the list on its way, but for rows removed since (`Loads`).
* `ReportsAlwaysTrue` — figures that were not torn; the page while no load failed or came
  out of order and no library was dropped. `RepInv`: the counts of groups sum to the size of the set that
  is grouped (`SumOfGroups`, by a bijection, which needs no induction), and a calendar
  day of the trend lies within the hours counted back (`DayInRange`); a day's tokens
  are the cost of its answers unless one was counted on another day or deleted (`Spent`), so a read
  no write went across agrees with itself (`AllAgreed`); and while nothing slipped the
  page is that of its last load (`LastLoad`, `LastShown`) with its cases (`Cased`).

What proving found wrong, all of it true in the runs, which are too small for it: text
that joins a turn while two answers are under way (`ChatTab`); the page of copies from
whose middle rows were removed (`Favourites`, of which `board.cut` now keeps what was
removed); two switches of one case whose answers come in another order than their
writes, after which the drawer shows the older (`Evaluation`, now a slip); and numbers
of removed cases that the model gave again, which `genId` does not (`past.used`).

Only model-checked: the refinement's fairness and all liveness (`RunEnds`,
`NoLimbo`, `StreamingEnds`, `LockReleased`), which is out of this prover's reach, and
what recursive operators compute: `TextFaithful`, `StreamWhole` and `SearchSound` (the
modules `DocumentText` and `EventReader` and the joining of `Retrieval` are written with
them). Every other invariant of the runs is a theorem.

## 6. Behaviours that no property excludes

Seen while modelling, excused by the history variables or left outside the
properties. None of them is claimed to be harmless.

* Re-embedding and parsing: a crash after the count and before the claim leaves a
  run without an end (`tasks.py:350`, `402`, `280`, `266`); `reparse` and `remove` meet
  a running task (`document.service.ts:196`, `221`). A document that was not parsed when a
  run began (its reparse had failed before its chunks were deleted) is not converted, and
  `retrieval.py:35` searches its old vectors with the new ones once the phase is idle,
  although `tasks.py:321` says that the two are never searched together. Two tasks of
  one document (a second click on reparse, a slow queue) can leave it with chunks of two
  parses, since both delete before either inserts and `ON CONFLICT` keeps the first of
  each index: `tasks.py:287-288` and `db.py:43-44` call that harmless. A library stays
  "indexing" after a reindex (`knowledge-base.service.ts:287-296`), and after its last
  document in progress failed for good or was removed, until another document is
  parsed. `chunkOverlap >= chunkSize` makes
  `chunker.py:64-66` loop for ever (the DTO asks only for `@Min(0)`).
* Answering: `chat.service.ts:262`, `334`, `395`, `535` (a failing statement or a rename
  at these points is not undone), `internal.py:120`. A reply may be cached that an
  invalidation has just overtaken.
* Search and questions of a super administrator do not pass his data scope, so he
  does not find others' private libraries that the lists show
  (`search.service.ts:35-46`, comment `:34`; `chat.service.ts:556-567`).
* Sessions: a lost answer of an exchange (`auth.service.ts:310`, `480`, `request.js:86`),
  a code that is gone although its mail was refused (`mail.service.ts:93`).
* Departments: overlapping administrators (`department.service.ts:149`, `212`).
  Accounts: a target promoted meanwhile (`user.service.ts:153`). The count of an API
  key may be exceeded by concurrent calls and is reset across midnight. A key that
  names nothing readable falls back on its scope. The gate of the analytics uses the
  role stored at login.
* Settings: overlapping saves lose sections and keys (`settings.service.ts:111-126`); a
  reload between check and return raises a TypeError (`keystore.py:27-28`), a late
  store after it caches the old key for up to 45 s (`:43`); `siliconflow` is missing in
  `KeyVerifyRequest` (`internal.py:705`); `saveApiKeys` does not clear its input
  (`SettingsView.vue:865-868`); the tabs of the platform hang on an undefined `isAdmin`
  (`SettingsView.vue:13`, `36`, `136`, `198`, `338`, `374`, `470`, `509`); `embTimer` is
  armed again after the page is left (`:1436`); `handleSaveUser` always sends the role;
  answers of `loadUsers` may come out of order.
* Health: the probe answers 500 when a key is missing (`embedding.py:104`, `113`,
  `122`) although `internal.py:306` says always 200, and records its outcome twice;
  `record_health` checks and sets in two statements.
* Generation: an unknown model falls back on the provider and not on the name of
  the model (`llm.py:4` against `:140-141`). `merge_adjacent` overwrites `chunkIndex` of
  the head (comment at `internal.py:96`). The IP guard passes when the database fails.
* Knowledge pages: `KnowledgeDetailView` reused for another library writes the
  form of the first into the second; after a late `fetchDetail` a blank form can be
  saved; when the refresh after an upload fails (`store/knowledge.js:85`) or a batch
  of an import does (`KnowledgeListView.vue:408-419`) documents are never watched;
  `ChatView.vue:466` and the detail page read the library again after an await;
  `useParseWatcher.js:97` takes null for settled, a stale poll stops a new entry, the
  time limit is not extended, overlapping polls may tell twice.
* Chat page: a stream that ends without done or error locks the page until the user
  stops it (`api/chat.js:265-266`), the freeze that the comment at `:244` means to prevent;
  two answers under way (a question sent twice during the creation of
  its conversation, or an error after done) unlock the page early and let pieces
  reach a turn that was regenerated; a detail answer shows its conversation
  whatever is selected; `updateCurrentConfig` selects the conversation of its answer;
  the comment that the title is also made when a failed first answer is
  regenerated is not what `onDone` does.
* Text: a ruled table of a PDF is indexed twice, as text and as Markdown
  (`parser.py:70-105`); a heading without text under it is dropped; a chunk is longer than
  `chunkSize` by its heading (`chunker.py:36-40`).
* Box: two files of 5 MB pass the page and are over the limit of 12 MB of the server as
  base64 (`main.ts:48-49`, `nginx/default.conf:10`); a name that ends in a dot is a text for
  the page (`ChatInput.vue:383`) and refused by `chat.service.ts:110-112`; more than 20
  uploads a minute are refused. A second Enter during an upload sends without the files and drops the first
  question; a failed upload loses the chosen files; a draft typed during an upload,
  or present at a follow-up or an explanation, is deleted; files and draft go along
  to another conversation; attachments are not bound to their user.
* Favourites: the question of a copy is wrong or missing when two messages have
  one millisecond or another tab asks in between; stars read before an addition
  turn it off; answers of `FavoritesView` come out of order.
* Evaluation: two calls may create one question twice
  (`eval-case.service.ts:159-166`); `markHard` overwrites notes; a run after a jump uses
  the cases of the old library; the switch of a case is not locked while its call runs
  (`EvalCaseDrawer.vue:273-277`), and of two the answer that comes last wins.
* Search and preview: `GlobalSearch.vue:173` keeps the old result although its comment
  speaks of an empty state, and Enter during a search jumps to a hit of the previous
  word; a late file of another document is shown, or its failure closes the
  drawer; sources made after closing are not released.
* Login page: the late success of a reset empties whatever form is shown; the
  answer to a registration logs in a page that was left; Enter submits again while
  one is under way; the picture is not renewed after a mail although it serves
  once; entry and id stay when a picture does not load.
* Reports: a question longer than 200 characters becomes a case cut off and is never
  marked (`stats.service.ts:220`, `229`, comment `:213-214`, `AnalyticsView.vue:519`);
  `total` and the disliked list ignore the range, answers for ranges come out of
  order, a submission closes the form of another row; statements of one load with
  a write in between give figures that do not agree, of which nothing is said.
  The comment of `store/user.js` gives managers the analytics, router and sidebar
  give them to the platform only.

## 7. Not modelled

Texts, prompts, scores as numbers, embeddings and file formats (calls of external
models and pure formatting); MinIO objects; progress numbers and counters that are
only displayed; creation of knowledge bases, names, and retrieval settings; creation
and removal of API keys; locks of the login (counters with times to live, the
model of which would need a clock); the throttle and the filter of words (a refusal
is an action of `ChatStream`); charts, the landing page, and the mock of the API.
Where a module leaves out part of its component, `PROJECT.json` says which part in
the component's note. Times are abstracted to the order of events or to ages in
ticks: a threshold of the beat task has passed or not, an entry has expired or not.
