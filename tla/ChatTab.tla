------------------------------ MODULE ChatTab ------------------------------
(* The chat page of one browser tab: the store of store/chat.js, the reader *)
(* of the event stream in api/chat.js and the handlers of ChatView.vue and  *)
(* AppSidebar.vue.  A JavaScript task is one step.  The awaits of an answer  *)
(* (creation, stream, rename, list, suggestions) and of a conversation's    *)
(* detail separate actions; the other requests are answered where they are  *)
(* sent.                                                                    *)
(* The answer's text is the set of the streams whose pieces are in it; a    *)
(* question and the message that answers it are one turn of the list.       *)
EXTENDS Integers, Sequences, FiniteSets

CONSTANTS
  MaxConvs,   \* bound: conversations the user ever has
  Olds,       \* how many of them exist at the start, with one answered turn each
  MaxStreams, \* bound: answers asked for
  MaxSwitches \* bound: conversations selected, left or removed

ASSUME ChatTabAssumption ==
  /\ MaxConvs \in Nat /\ Olds \in 0 .. MaxConvs
  /\ MaxStreams \in Nat /\ MaxSwitches \in Nat

Stream == 1 .. MaxStreams
Conv == 1 .. MaxConvs  \* in the order of their creation
None == 0              \* no conversation: the page of a new one
Page == Conv \union {None}

VARIABLES
  view,    \* currentId, messages, streaming, controller, followups
  loading, \* the conversations whose detail request is on its way
  stream,  \* the answers asked for: connection, captured values, what onDone still awaits
  conv,    \* the server's conversations: whether they exist, their turns, their title
  slips,   \* history: which unguarded orders have happened
  switches \* bound: selections and removals so far

vars == <<view, loading, stream, conv, slips, switches>>

\* A turn of the list, and what a later stream still knows of its own.
Turn(c, q, s, text, status) == [conv |-> c, q |-> q, by |-> s, text |-> text, status |-> status]

Question == 0 .. MaxStreams       \* a question, named by the stream that first asked it
Status == {"streaming", "done", "stopped", "error"}
\* A title: none, given by the user, or made of a question (its first
\* characters, or what the title model makes of it and its answer).
Title == [how : {"none", "question", "given"}, q : Question]
Given == [how |-> "given", q |-> 0]
AskedFor(q) == [how |-> "question", q |-> q]
NoConversation(is) == [is |-> is, turns |-> <<>>, title |-> [how |-> "none", q |-> 0]]

NoStream == [pc |-> "idle", kind |-> "send", conv |-> None, q |-> 0, idx |-> 0, there |-> TRUE,
             names |-> FALSE, quiet |-> FALSE, post |-> "none", for |-> None]

\* Every variable has its type, and a stream that can be aborted is shown as
\* running.
TypeOK ==
  /\ view \in [cur : Page, list : Seq([conv : Conv, q : Question, by : Question,
                                       text : SUBSET Question, status : Status]),
               streaming : BOOLEAN, controller : Question, followups : Question]
  /\ loading \in SUBSET Conv
  /\ stream \in [Stream -> [pc : {"idle", "create", "sent", "open", "mute", "late", "closed"},
                            kind : {"send", "regenerate"}, conv : Page, q : Question,
                            idx : Nat, there : BOOLEAN, names : BOOLEAN, quiet : BOOLEAN,
                            post : {"none", "rename", "list", "suggest"}, for : Page]]
  /\ conv \in [Conv -> [is : {"new", "here", "gone"}, turns : Seq(Question \X Question),
                        title : Title]]
  /\ slips \subseteq {"double", "crossed", "late", "overtaken", "unloaded"}
  /\ switches \in 0 .. MaxSwitches
  /\ view.controller # 0 => view.streaming

Init ==
  /\ view = [cur |-> None, list |-> <<>>, streaming |-> FALSE, controller |-> 0,
             followups |-> 0]
  /\ loading = {}
  /\ stream = [s \in Stream |-> NoStream]
  /\ conv = [c \in Conv |-> IF c <= Olds THEN [is |-> "here", turns |-> <<<<0, 0>>>>, title |-> Given]
                            ELSE NoConversation("new")]
  /\ slips = {}
  /\ switches = 0

Open(s) == stream[s].pc \in {"sent", "open"}
Waited(s) == Open(s) \/ stream[s].pc = "mute"  \* no handler has been told an end
Unused(s) == stream[s].pc = "idle" /\ \A t \in 1 .. s - 1 : stream[t].pc # "idle"
Put(s, r) == stream' = [stream EXCEPT ![s] = r]
Slip(condition, name) == slips' = IF condition THEN slips \union {name} ELSE slips

\* resetConversation: the tab shows a new conversation; streams go on.
Blank(v) == [v EXCEPT !.cur = None, !.list = <<>>, !.followups = 0]

\* messages is another list now: no stream's turn is in it.
Replaced == [s \in Stream |-> [stream[s] EXCEPT !.there = stream[s].pc \in {"idle", "create"}]]

-----------------------------------------------------------------------------
(* Asking                                                                   *)

\* Mutant of Begin: the index of the message before.
BeginBefore(s, c, v) ==
  /\ view' = [v EXCEPT !.cur = c, !.list = Append(@, Turn(c, s, s, {}, "streaming")),
                       !.streaming = TRUE, !.controller = s, !.followups = 0]
  /\ Put(s, [NoStream EXCEPT !.pc = "sent", !.conv = c, !.q = s,
                             !.idx = Len(v.list)])

\* The part of sendQuestion after the conversation is there: the turn is
\* appended, the index is kept, the stream is opened.
Begin(s, c, v) ==
  /\ view' = [v EXCEPT !.cur = c, !.list = Append(@, Turn(c, s, s, {}, "streaming")),
                       !.streaming = TRUE, !.controller = s, !.followups = 0]
  /\ Put(s, [NoStream EXCEPT !.pc = "sent", !.conv = c, !.q = s,
                             !.idx = Len(v.list) + 1])

Ask(s) ==
  /\ ~view.streaming /\ Unused(s)
  /\ \/ view.cur # None /\ Begin(s, view.cur, view)
     \/ /\ view.cur = None
        /\ Put(s, [NoStream EXCEPT !.pc = "create", !.q = s])
        /\ view' = [view EXCEPT !.followups = 0]
  /\ UNCHANGED <<loading, conv, slips, switches>>

\* The conversation was created under the first characters of the question.
Created(s, c) ==
  /\ stream[s].pc = "create"
  /\ conv[c].is = "new" /\ \A d \in 1 .. c - 1 : conv[d].is # "new"
  /\ conv' = [conv EXCEPT ![c] = [is |-> "here", turns |-> <<>>, title |-> AskedFor(s)]]
  /\ Begin(s, c, view)
  /\ slips' = slips \union (IF view.streaming THEN {"double"} ELSE {})
                    \union (IF view.cur # None THEN {"crossed"} ELSE {})
  /\ UNCHANGED <<loading, switches>>

CreateFails(s) ==
  /\ stream[s].pc = "create"
  /\ Put(s, [stream[s] EXCEPT !.pc = "closed"])
  /\ UNCHANGED <<view, loading, conv, slips, switches>>

\* regenerate: a finished turn is emptied and asked again; the message object
\* itself is captured.  (With no conversation selected, which takes a late
\* detail answer, it is left out.)
Regenerate(s, i) ==
  /\ ~view.streaming /\ Unused(s) /\ view.list[i].status # "streaming" /\ view.cur # None
  /\ view' = [view EXCEPT !.list[i] = [@ EXCEPT !.by = s, !.text = {}, !.status = "streaming"],
                          !.streaming = TRUE, !.controller = s, !.followups = 0]
  /\ Put(s, [NoStream EXCEPT !.pc = "sent", !.kind = "regenerate", !.conv = view.cur,
                             !.q = view.list[i].q, !.idx = i])
  /\ UNCHANGED <<loading, conv, slips, switches>>

-----------------------------------------------------------------------------
(* The answer                                                               *)

\* The server takes the question: both messages are stored, and whether the
\* answer will name the conversation is decided on the title read here.
Accept(s) ==
  /\ stream[s].pc = "sent" /\ conv[stream[s].conv].is = "here"
  /\ LET c == stream[s].conv IN
     /\ Put(s, [stream[s] EXCEPT !.pc = "open",
                  !.names = /\ conv[c].turns = <<>>
                            /\ conv[c].title = AskedFor(stream[s].q)])
     /\ conv' = [conv EXCEPT ![c].turns = Append(@, <<stream[s].q, s>>)]
  /\ UNCHANGED <<view, loading, slips, switches>>

\* applyTarget: the message now at the index becomes t; a captured message may
\* have left the list.
Reaches(s) == /\ stream[s].idx \in 1 .. Len(view.list)
              /\ stream[s].kind = "send" \/ stream[s].there
Applied(s, t) == IF Reaches(s) THEN [view.list EXCEPT ![stream[s].idx] = t] ELSE view.list
Target(s) == view.list[stream[s].idx]

Piece(s) ==
  /\ stream[s].pc = "open"
  /\ view' = [view EXCEPT !.list = Applied(s, [Target(s) EXCEPT !.text = @ \union {s}])]
  /\ UNCHANGED <<loading, stream, conv, slips, switches>>

Release(v) == [v EXCEPT !.streaming = FALSE, !.controller = 0]

\* onDone, up to its first await: the first question of the list shown names
\* the conversation shown.  A regenerated answer asks for suggestions at once.
AfterDone(s, aborted) ==
  IF stream[s].kind = "regenerate" THEN (IF aborted THEN "none" ELSE "suggest")
  ELSE IF Len(view.list) = 1 THEN "rename" ELSE "list"

OnDone(s, v, aborted) ==
  LET status == IF aborted THEN "stopped" ELSE "done"
      post == AfterDone(s, aborted) IN
  /\ view' = [Release(v) EXCEPT !.list = Applied(s, [Target(s) EXCEPT !.status = status])]
  /\ Put(s, [stream[s] EXCEPT !.pc = IF aborted THEN "closed" ELSE "late",
                              !.quiet = aborted /\ post # "none", !.post = post,
                              !.for = IF post \in {"rename", "suggest"} THEN v.cur ELSE None])

\* done: the connection stays open while the server makes a title.
Done(s) ==
  /\ stream[s].pc = "open" /\ conv[stream[s].conv].is = "here"
  /\ OnDone(s, view, FALSE)
  /\ UNCHANGED <<loading, conv, slips, switches>>

\* Mutant of Stop: only the store is reset, the reader goes on.
StopFlags ==
  /\ view.streaming
  /\ view' = [Release(view) EXCEPT !.followups = 0]
  /\ UNCHANGED <<stream, loading, conv, slips, switches>>

\* stopStream: the reader is aborted, which runs onDone with the aborted flag;
\* a reader that has left its loop tells nobody, and only the page is unlocked.
Stop ==
  /\ view.streaming
  /\ LET quiet == [Release(view) EXCEPT !.followups = 0]
         s == view.controller
     IN IF s \in Stream /\ Open(s) THEN OnDone(s, quiet, TRUE) ELSE view' = quiet /\ UNCHANGED stream
  /\ UNCHANGED <<loading, conv, slips, switches>>

\* Mutant of Fail: the page stays locked.
FailKeepsLock(s) ==
  /\ Open(s) \/ stream[s].pc = "late"
  /\ view' = [view EXCEPT !.followups = 0,
                !.list = Applied(s, [Target(s) EXCEPT !.status = "error", !.text = {}])]
  /\ Put(s, [stream[s] EXCEPT !.pc = "closed", !.names = FALSE])
  /\ Slip(stream[s].pc = "late" /\ view.streaming, "late")
  /\ UNCHANGED <<loading, conv, switches>>

\* onError: a refusal, an error event or a broken connection, even after done.
Fail(s) ==
  /\ Open(s) \/ stream[s].pc = "late"
  /\ view' = [Release(view) EXCEPT !.followups = 0,
                !.list = Applied(s, [Target(s) EXCEPT !.status = "error", !.text = {}])]
  /\ Put(s, [stream[s] EXCEPT !.pc = "closed", !.names = FALSE])
  /\ Slip(stream[s].pc = "late" /\ view.streaming, "late")
  /\ UNCHANGED <<loading, conv, switches>>

\* autoTitleIfNeeded and the end of the connection.
Close(s) ==
  /\ stream[s].pc = "late"
  /\ Put(s, [stream[s] EXCEPT !.pc = "closed", !.names = FALSE])
  /\ \/ UNCHANGED conv
     \/ /\ stream[s].names /\ conv[stream[s].conv].is = "here"
        /\ conv' = [conv EXCEPT ![stream[s].conv].title = AskedFor(stream[s].q)]
  /\ UNCHANGED <<view, loading, slips, switches>>

\* The connection ends with neither done nor error, and the reader leaves its
\* loop without a word: the server failed and could not store that either (the
\* conversation was removed meanwhile, or the database is down), so its own
\* catch clause threw and nothing more was written.
Silent(s) ==
  /\ stream[s].pc = "open"
  /\ Put(s, [stream[s] EXCEPT !.pc = "mute"])
  /\ UNCHANGED <<view, loading, conv, slips, switches>>

-----------------------------------------------------------------------------
(* What onDone awaits                                                       *)

Awaits(s, what) == stream[s].post = what
Then(s, what, c) == Put(s, [stream[s] EXCEPT !.post = what, !.for = c])
Finish(s) == Put(s, [stream[s] EXCEPT !.post = "none", !.quiet = FALSE, !.for = None])

RenameDone(s) ==
  /\ Awaits(s, "rename")
  /\ \/ /\ stream[s].for # None /\ conv[stream[s].for].is = "here"
        /\ conv' = [conv EXCEPT ![stream[s].for].title = AskedFor(stream[s].q)]
        /\ Then(s, "list", None)
     \/ Finish(s) /\ UNCHANGED conv
  /\ UNCHANGED <<view, loading, slips, switches>>

\* The message now at the index has a text (an error shows one too).
Says(s) == /\ stream[s].idx \in 1 .. Len(view.list)
           /\ \/ view.list[stream[s].idx].text # {}
              \/ view.list[stream[s].idx].status = "error"

\* fetchConversations; only now the conversation for the suggestions is read.
ListDone(s) ==
  /\ Awaits(s, "list")
  /\ \/ /\ ~stream[s].quiet /\ Says(s)
        /\ Then(s, "suggest", view.cur)
     \/ Finish(s)
  /\ UNCHANGED <<view, loading, conv, slips, switches>>

\* The answer of getFollowupSuggestions is shown if the conversation read
\* before the call is still shown and nothing streams.
Suggest(s) ==
  /\ Awaits(s, "suggest")
  /\ Finish(s)
  /\ \/ /\ ~view.streaming /\ view.cur = stream[s].for
        /\ view' = [view EXCEPT !.followups = s]
     \/ UNCHANGED view
  /\ UNCHANGED <<loading, conv, slips, switches>>

-----------------------------------------------------------------------------
(* Moving between conversations                                             *)

Switch == switches < MaxSwitches /\ switches' = switches + 1

\* handleSelect, the route's watcher and openConversation up to its await.
Select(c) ==
  /\ conv[c].is = "here" /\ c # view.cur /\ c \notin loading /\ Switch
  /\ view' = [view EXCEPT !.cur = c, !.followups = 0]
  /\ loading' = loading \union {c}
  /\ UNCHANGED <<stream, conv, slips>>

\* The detail is shown whatever is selected now.
Loaded(c) ==
  /\ c \in loading /\ conv[c].is = "here"
  /\ loading' = loading \ {c}
  /\ stream' = Replaced
  /\ view' = [view EXCEPT !.list = [i \in DOMAIN conv[c].turns |->
                            LET turn == conv[c].turns[i] IN
                            Turn(c, turn[1], turn[2], {turn[2]}, "done")]]
  /\ Slip(view.cur # c, "overtaken")
  /\ UNCHANGED <<conv, switches>>

LoadFails(c) ==
  /\ c \in loading
  /\ loading' = loading \ {c}
  /\ Slip(view.cur = c, "unloaded")
  /\ UNCHANGED <<view, stream, conv, switches>>

\* handleNewChat: the stream that runs is not stopped.
NewChat ==
  /\ view.cur # None /\ Switch
  /\ view' = Blank(view) /\ stream' = Replaced
  /\ UNCHANGED <<loading, conv, slips>>

\* removeConversation, from the sidebar or the page.
Remove(c) ==
  /\ conv[c].is = "here" /\ Switch
  /\ conv' = [conv EXCEPT ![c] = NoConversation("gone")]
  /\ \/ view.cur = c /\ view' = Blank(view) /\ stream' = Replaced
     \/ view.cur # c /\ UNCHANGED <<view, stream>>
  /\ UNCHANGED <<loading, slips>>

\* renameConversation by the user.
Rename(c) ==
  /\ conv[c].is = "here"
  /\ conv' = [conv EXCEPT ![c].title = Given]
  /\ UNCHANGED <<view, loading, stream, slips, switches>>

-----------------------------------------------------------------------------
Settle(s) == Accept(s) \/ Done(s) \/ Fail(s) \/ Silent(s)

StreamStep(s) ==
  \/ Ask(s) \/ CreateFails(s) \/ (\E c \in Conv : Created(s, c))
  \/ (\E i \in DOMAIN view.list : Regenerate(s, i))
  \/ Settle(s) \/ Piece(s) \/ Close(s)
  \/ RenameDone(s) \/ ListDone(s) \/ Suggest(s)

Next ==
  \/ \E s \in Stream : StreamStep(s)
  \/ Stop \/ NewChat
  \/ \E c \in Conv : Select(c) \/ Loaded(c) \/ LoadFails(c) \/ Remove(c) \/ Rename(c)

Spec == Init /\ [][Next]_vars

\* The server accepts or refuses a question and ends the connection of every
\* answer, if not always with a word.
FairSpec == Spec /\ \A s \in Stream : WF_vars(Settle(s))

-----------------------------------------------------------------------------
(* Properties                                                               *)

\* No question was sent twice while its conversation was created, and no error
\* after done has unlocked the page during another answer.
Calm == {"double", "late"} \intersect slips = {}

\* The pieces of an answer appear in its own turn only, as long as the list is
\* the one the question was appended to and no two answers ran at once.
OwnText ==
  Calm => \A i \in DOMAIN view.list : \A s \in view.list[i].text \ {view.list[i].by} :
    ~stream[s].there

\* An answer that has ended, in the list it was asked in, is not shown as
\* running: every way out of a stream reaches its turn.
TurnSettled ==
  \A i \in DOMAIN view.list : \A s \in {view.list[i].by} \ {0} :
    stream[s].there /\ stream[s].pc \in {"late", "closed"}
      => view.list[i].status # "streaming"

\* The page is locked only while the stream it would abort has told no end; and,
\* but for a question sent twice while its conversation was created and for an
\* error after done, the streams open are the one that locks the page.
OneStream ==
  /\ view.streaming => view.controller \in Stream /\ Waited(view.controller)
  /\ Calm => \A s \in Stream : Open(s) => view.streaming /\ view.controller = s

\* The list shown belongs to the conversation selected, unless a detail
\* answer was overtaken by another selection or failed, or a conversation was
\* created after the user had gone to another one.
ListFits ==
  loading = {} /\ {"overtaken", "unloaded", "crossed"} \intersect slips = {}
    => \A i \in DOMAIN view.list : view.list[i].conv = view.cur

\* Every turn shows its own answer and is settled with it.
TurnsOwn == OwnText /\ TurnSettled

\* The lock, the open stream, the list and the selection agree.
PageConsistent == OneStream /\ ListFits

\* The page is unlocked again without the user's Stop, or waits for an answer
\* whose connection has ended without a word: that is the one way to lock it for
\* good (every other end of a connection runs a handler that unlocks it).
LockReleased ==
  view.streaming ~> \/ ~view.streaming
                    \/ view.controller \in Stream /\ stream[view.controller].pc = "mute"

\* A conversation bears the name of a question asked in it.
OwnTitle ==
  \A c \in Conv : conv[c].title.how = "question" =>
    \E s \in Stream : stream[s].q = conv[c].title.q /\ (stream[s].conv = c \/ stream[s].pc = "create")
=============================================================================
