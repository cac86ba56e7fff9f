--------------------------- MODULE KnowledgePages ---------------------------
(* The pages about knowledge bases in one browser tab: the detail page with *)
(* its configuration form, the three ways to upload, and the watch that     *)
(* polls the documents of a knowledge base until they are parsed and tells  *)
(* the user.  The route decides which knowledge base a handler acts on.     *)
EXTENDS Integers, FiniteSets

CONSTANTS
  Kb, NoKb,
  Doc,        \* documents, uploaded in their order
  Upload,     \* uploads that may overlap
  MaxWatches, \* bound: entries ever made
  MaxPolls    \* bound: polls on their way at one time

ASSUME KnowledgePagesAssumption ==
  /\ Doc \subseteq Nat /\ NoKb \notin Kb
  /\ {MaxWatches, MaxPolls} \subseteq Nat \ {0}

VARIABLES
  status,  \* of each document at the server; "none" before the upload
  home,    \* its knowledge base
  config,  \* whose configuration the server has for each knowledge base
  page,    \* the route, whom it was opened for, the form, the watches begun here
  current, \* the store's knowledge base, by the last answer about details
  detail,  \* such answers on their way
  upload,
  watch,   \* the entry in force of each knowledge base, 0 for none
  entry,   \* of each entry ever made what it tracks
  poll,    \* polls on their way: the entry and the list in the answer
  told     \* history: how often the user was told of each document; -1: excused

pageVars == <<status, home, config, page, current, detail, upload, watch, entry, poll, told>>

Pending == {"pending", "parsing"}   \* "indexing" is like "parsing"
\* "parsed" and "failed" are one state here, "ended".
Docs(kb) == {d \in Doc : home[d] = kb /\ status[d] \notin {"none", "removed"}}

\* Documents for which the watch promises nothing from here on.
Excused(docs) == [d \in Doc |-> IF d \in docs THEN -1 ELSE told[d]]

NoUpload == [by |-> "none", kb |-> NoKb, left |-> NoKb, docs |-> {}, pc |-> "idle"]
NoPoll == [entry |-> 0, kb |-> NoKb, pc |-> "free", list |-> [d \in {} |-> ""]]
\* A page as it opens; "reset" says that the user has reset its form.
Opened(view, kb) == [view |-> view, kb |-> kb, opened |-> kb, form |-> NoKb, watched |-> {}, reset |-> FALSE]

PagesInit ==
  /\ status = [d \in Doc |-> "none"] /\ home = [d \in Doc |-> NoKb]
  /\ config = [kb \in Kb |-> kb]
  /\ page = Opened("list", NoKb) /\ current = NoKb /\ detail = {}
  /\ upload = [u \in Upload |-> NoUpload]
  /\ watch = [kb \in Kb |-> 0] /\ entry = [e \in 1 .. MaxWatches |-> [d \in {} |-> ""]]
  /\ poll = [p \in 1 .. MaxPolls |-> NoPoll]
  /\ told = [d \in Doc |-> 0]

-----------------------------------------------------------------------------
(* The server, as these pages see it                                        *)

ParseStep(d) ==
  /\ \/ status[d] = "pending" /\ status' = [status EXCEPT ![d] = "parsing"]
     \/ status[d] = "parsing" /\ status' = [status EXCEPT ![d] = "ended"]
  /\ UNCHANGED <<home, config, page, current, detail, upload, watch, entry, poll, told>>

-----------------------------------------------------------------------------
(* Routes: the watches that a page began end with it.  From one detail page *)
(* to another the component is kept, and nothing is loaded again.           *)

Stopped(kbs) == [kb \in Kb |-> IF kb \in kbs THEN 0 ELSE watch[kb]]
Tracked(kb) == IF watch[kb] = 0 THEN {} ELSE DOMAIN entry[watch[kb]]

\* An upload goes on without its page, for which it keeps its knowledge base.
LeftBehind(up) ==
  IF up.by = "none" \/ up.left # NoKb THEN up
  ELSE [up EXCEPT !.left = IF up.by = "import" THEN up.kb ELSE page.kb]

Leave(view, kb) ==
  /\ view # page.view
  /\ page' = Opened(view, kb)
  /\ upload' = [u \in Upload |-> LeftBehind(upload[u])]
  /\ watch' = Stopped(page.watched)
  /\ told' = Excused(UNION {Tracked(w) : w \in page.watched})
  /\ detail' = IF view = "detail" THEN detail \union {kb} ELSE detail
  /\ UNCHANGED <<status, home, config, current, entry, poll>>

GoTo ==
  \/ \E kb \in Kb : Leave("detail", kb) \/ Leave("chat", kb)
  \/ Leave("list", NoKb)

\* GlobalSearch: jump to the knowledge base of a document; in the chat, another
\* conversation with another knowledge base.
Jump(kb) ==
  /\ page.view \in {"detail", "chat"} /\ page.kb # kb
  /\ page' = [page EXCEPT !.kb = kb]
  /\ UNCHANGED <<status, home, config, current, detail, upload, watch, entry, poll, told>>

\* Mutant of Form: the form is filled from what the store held before.
FormEarly(kb) == current

\* resetConfigForm of onMounted, once fetchDetail has answered.
Form(kb) == kb

\* The answer to fetchDetail fills the form of the page that asked.
DetailAnswer(kb) ==
  /\ kb \in detail /\ detail' = detail \ {kb}
  /\ current' = kb
  /\ page' = IF page.view = "detail" /\ page.opened = kb THEN [page EXCEPT !.form = Form(kb)] ELSE page
  /\ UNCHANGED <<status, home, config, upload, watch, entry, poll, told>>

\* The form stays blank.
DetailFails(kb) ==
  /\ kb \in detail /\ detail' = detail \ {kb}
  /\ UNCHANGED <<status, home, config, page, current, upload, watch, entry, poll, told>>

\* The button that resets the form.
ResetForm ==
  /\ page.view = "detail" /\ current # NoKb
  /\ page' = [page EXCEPT !.form = current, !.reset = TRUE]
  /\ UNCHANGED <<status, home, config, current, detail, upload, watch, entry, poll, told>>

\* handleSaveConfig: the form goes to the knowledge base of the route.
SaveConfig ==
  /\ page.view = "detail"
  /\ config' = [config EXCEPT ![page.kb] = page.form]
  /\ UNCHANGED <<status, home, page, current, detail, upload, watch, entry, poll, told>>

-----------------------------------------------------------------------------
(* Uploads                                                                  *)

Upon(u, by, kb) ==
  /\ upload[u] = NoUpload
  /\ upload' = [upload EXCEPT ![u] = [NoUpload EXCEPT !.by = by, !.kb = kb, !.pc = "send"]]
  /\ UNCHANGED <<status, home, config, page, current, detail, watch, entry, poll, told>>

CustomUpload(u) == page.view = "detail" /\ Upon(u, "custom", page.kb)

\* handleDropFiles
DropFiles(u) == page.view = "chat" /\ Upon(u, "drop", page.kb)

\* One import at a time, for a knowledge base of the user's choice.
ImportGroups(u) ==
  /\ page.view = "list" /\ \A v \in Upload : upload[v].by # "import"
  /\ \E kb \in Kb : Upon(u, "import", kb)

BeginUpload(u) == CustomUpload(u) \/ DropFiles(u) \/ ImportGroups(u)

Fresh == {d \in Doc : status[d] = "none" /\ \A c \in Doc : c < d => status[c] # "none"}

\* A batch arrives.  An import may have another batch to send.
Sent(u) ==
  LET up == upload[u] IN
  /\ up.pc = "send"
  /\ \E d \in Fresh :
       /\ status' = [status EXCEPT ![d] = "pending"] /\ home' = [home EXCEPT ![d] = up.kb]
       /\ \E pc \in IF up.by = "import" THEN {"send", "watch"} ELSE {"list"} :
            upload' = [upload EXCEPT ![u].docs = @ \union {d}, ![u].pc = pc]
  /\ UNCHANGED <<config, page, current, detail, watch, entry, poll, told>>

\* The list is read again, as a part of the upload.
Refreshed(u) ==
  /\ upload[u].pc = "list"
  /\ upload' = [upload EXCEPT ![u].pc = "watch"]
  /\ UNCHANGED <<status, home, config, page, current, detail, watch, entry, poll, told>>

\* A batch or that list fails: what is already uploaded will not be watched.
UploadFails(u) ==
  /\ upload[u].pc \in {"send", "list"}
  /\ upload' = [upload EXCEPT ![u] = NoUpload] /\ told' = Excused(upload[u].docs)
  /\ UNCHANGED <<status, home, config, page, current, detail, watch, entry, poll>>

-----------------------------------------------------------------------------
(* useParseWatcher                                                          *)

\* Only an import remembers its knowledge base; the others ask again, an upload
\* the route and a drop its chat.
Aim(up) ==
  CASE up.by = "import" -> up.kb
    [] up.by = "drop" -> IF up.left = NoKb THEN page.kb ELSE up.left
    [] up.by = "custom" -> IF page.view = "detail" THEN page.kb ELSE NoKb

Unused == {e \in 1 .. MaxWatches : DOMAIN entry[e] = {}}
InFlight(kb) == \E p \in DOMAIN poll : poll[p].kb = kb

\* watchKb.  Documents that are tracked keep their status, new ones have none.
\* A poll that is on its way, or another knowledge base, spoils the watch.
Watch(u) ==
  LET up == upload[u]
      kb == Aim(up)
      e == watch[kb]
      Grown(was) == [d \in DOMAIN was \union up.docs |-> IF d \in DOMAIN was THEN was[d] ELSE "null"]
  IN /\ up.pc = "watch"
     /\ IF kb = NoKb THEN UNCHANGED <<watch, entry>>
        ELSE IF e # 0 THEN entry' = [entry EXCEPT ![e] = Grown(@)] /\ UNCHANGED watch
        ELSE \E f \in Unused : /\ \A g \in Unused : f <= g
                               /\ entry' = [entry EXCEPT ![f] = Grown(@)]
                               /\ watch' = [watch EXCEPT ![kb] = f]
     /\ page' = IF kb # NoKb /\ up.left = NoKb THEN [page EXCEPT !.watched = @ \union {kb}] ELSE page
     /\ told' = IF kb # up.kb \/ InFlight(kb) THEN Excused(up.docs) ELSE told
     /\ upload' = [upload EXCEPT ![u] = NoUpload]
     /\ UNCHANGED <<status, home, config, current, detail, poll>>

\* Every 5 seconds; the entry is taken before the request.
Poll(kb) ==
  /\ watch[kb] # 0
  /\ \E p \in DOMAIN poll :
       /\ poll[p] = NoPoll /\ \A q \in 1 .. p - 1 : poll[q] # NoPoll
       /\ poll' = [poll EXCEPT ![p] = [NoPoll EXCEPT !.entry = watch[kb], !.kb = kb, !.pc = "asked"]]
  /\ told' = IF \E p \in DOMAIN poll : poll[p].entry = watch[kb] THEN Excused(Tracked(kb)) ELSE told
  /\ UNCHANGED <<status, home, config, page, current, detail, upload, watch, entry>>

\* The server answers with the 100 documents that changed last: older ones may
\* be missing.
Answer(p) ==
  /\ poll[p].pc = "asked"
  /\ \E list \in SUBSET Docs(poll[p].kb) :
       /\ poll' = [poll EXCEPT ![p].pc = "answered", ![p].list = [d \in list |-> status[d]]]
       /\ told' = Excused(DOMAIN entry[poll[p].entry] \ list)
  /\ UNCHANGED <<status, home, config, page, current, detail, upload, watch, entry>>

PollFails(p) ==
  /\ poll[p].pc = "asked"
  /\ poll' = [poll EXCEPT ![p] = NoPoll]
  /\ UNCHANGED <<status, home, config, page, current, detail, upload, watch, entry, told>>

\* Mutant of AllSettled: one document that has ended is enough.
AllSettledAny(tracking) == \E d \in DOMAIN tracking : tracking[d] \notin Pending

AllSettled(tracking) == \A d \in DOMAIN tracking : tracking[d] \notin Pending

\* The answer is compared with the entry the poll began with; at the end it is
\* the entry in force of the knowledge base that stops.
Compare(p) ==
  LET list == poll[p].list
      was == entry[poll[p].entry]
      now == [d \in DOMAIN was |-> IF d \in DOMAIN list THEN list[d] ELSE was[d]]
  IN /\ poll[p].pc = "answered"
     /\ entry' = [entry EXCEPT ![poll[p].entry] = now]
     /\ told' = [d \in Doc |->
          IF told[d] >= 0 /\ d \in DOMAIN was /\ now[d] # was[d] /\ now[d] = "ended"
          THEN told[d] + 1 ELSE told[d]]
     /\ watch' = IF AllSettled(now) THEN Stopped({poll[p].kb}) ELSE watch
     /\ poll' = [poll EXCEPT ![p] = NoPoll]
     /\ UNCHANGED <<status, home, config, page, current, detail, upload>>

\* Five minutes after the first watch, whatever was added since.
Expire(kb) ==
  /\ watch[kb] # 0
  /\ watch' = Stopped({kb}) /\ told' = Excused(Tracked(kb))
  /\ UNCHANGED <<status, home, config, page, current, detail, upload, entry, poll>>

-----------------------------------------------------------------------------
(* Other commands of the detail page                                        *)

\* handleReparse: nobody watches it.
Reparse(d) ==
  /\ page.view = "detail" /\ d \in Docs(page.kb) /\ status[d] = "ended"
  /\ status' = [status EXCEPT ![d] = "pending"]
  /\ told' = Excused({d})
  /\ UNCHANGED <<home, config, page, current, detail, upload, watch, entry, poll>>

\* handleDeleteDoc, handleBatchDelete
RemoveDoc(d) ==
  /\ page.view = "detail" /\ d \in Docs(page.kb)
  /\ status' = [status EXCEPT ![d] = "removed"] /\ told' = Excused({d})
  /\ UNCHANGED <<home, config, page, current, detail, upload, watch, entry, poll>>

PagesNext ==
  \/ GoTo \/ ResetForm \/ SaveConfig
  \/ \E kb \in Kb : Jump(kb) \/ DetailAnswer(kb) \/ DetailFails(kb) \/ Poll(kb) \/ Expire(kb)
  \/ \E u \in Upload : BeginUpload(u) \/ Sent(u) \/ Refreshed(u) \/ UploadFails(u) \/ Watch(u)
  \/ \E p \in DOMAIN poll : Answer(p) \/ PollFails(p) \/ Compare(p)
  \/ \E d \in Doc : ParseStep(d) \/ Reparse(d) \/ RemoveDoc(d)

PagesSpec == PagesInit /\ [][PagesNext]_pageVars

-----------------------------------------------------------------------------
(* Properties                                                               *)

(* A document handed to a watch is told to the user exactly once: until then *)
(* its entry stays in force, through merged uploads, failed polls and the    *)
(* end of other documents.  Excused are documents that end their watch some  *)
(* other way: the page was left, five minutes have passed, they were removed *)
(* or parsed again, they fell out of the list, the watch went to another     *)
(* knowledge base, or two polls of it overlapped.                            *)
Told ==
  \A d \in Doc :
    \/ status[d] = "none" \/ told[d] = -1 \/ \E u \in Upload : d \in upload[u].docs
    \/ told[d] = 1
    \/ told[d] = 0 /\ d \in Tracked(home[d])

(* A configuration reaches only the knowledge base it was read from, unless  *)
(* the detail page was reused for another knowledge base, or its form was    *)
(* reset after a late answer about another one; however quickly pages are    *)
(* left and opened while answers are on their way.                           *)
ConfigOwn ==
  [][\A kb \in Kb : config'[kb] \in {config[kb], kb, NoKb} \/ page.opened # kb \/ page.reset]_pageVars
=============================================================================
