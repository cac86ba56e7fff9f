----------------------------- MODULE ChatStream -----------------------------
(***************************************************************************)
(* ChatService.streamAnswer: one question is admitted, both messages are   *)
(* stored, the events of the generator are passed on to the browser, and   *)
(* finalize writes the answer, the conversation, the daily statistics and  *)
(* the monthly usage, one statement after the other.  The user may leave,  *)
(* rename or remove the conversation, or ask in a second tab meanwhile.    *)
(*                                                                         *)
(* One user, whose monthly usage is counted in answers of the model.       *)
(***************************************************************************)
EXTENDS AnswerWire

CONSTANTS
  Convs, NoConv,
  Existing,   \* conversations the user has at the beginning
  Quota,      \* users.monthly_token_limit, 0: unlimited
  ConvLimit,  \* users.conversation_limit, 0: unlimited
  FailAt,     \* program points at which the database may fail
  Straddle,   \* may a month end between the two statistics statements?
  LastMonth   \* bound: months that pass

Points == {"conversation", "create", "question", "reply", "open", "stream", "message",
           "tally", "stats", "usage", "title"}

ASSUME ChatParameters ==
  /\ NoConv \notin Convs /\ Existing \subseteq Convs /\ Quota \in Nat /\ ConvLimit \in Nat /\ LastMonth \in Nat
  /\ FailAt \subseteq Points /\ Straddle \in BOOLEAN

VARIABLES
  call,     \* call[q]: the local variables of streamAnswer
  conv,     \* the conversations rows
  question, \* question[q]: is the user message stored
  reply,    \* reply[q]: the status of the assistant message
  usage,    \* users.(token_month, monthly_token_used)
  daily,    \* the sums of daily_stats
  today     \* the month on the clock

chatVars == <<call, conv, question, reply, usage, daily, today>>

\* month: that of the daily statistics which count the answer.
Undated == -1
Months == {Undated} \cup 0..LastMonth
NewCall == [pc |-> "none", conv |-> NoConv, placeholder |-> FALSE, first |-> FALSE,
            parts |-> 0, gone |-> FALSE, ending |-> "none", billable |-> 0, month |-> Undated]
CallStates ==
  [pc: Points \cup {"none", "end"}, conv: Convs \cup {NoConv}, placeholder: BOOLEAN,
   first: BOOLEAN, parts: 0..1, gone: BOOLEAN, ending: {"none", "done", "stopped", "error"},
   billable: 0..1, month: Months]
Conversations == [state: {"unused", "kept", "removed"}, title: {"placeholder", "auto", "user"}]
Settled == {"done", "stopped", "error"}

ChatType ==
  /\ call \in [Calls -> CallStates]
  /\ conv \in [Convs -> Conversations]
  /\ question \in [Calls -> BOOLEAN]
  /\ reply \in [Calls -> {"none", "streaming"} \cup Settled]
  /\ usage \in [month: Months, used: Nat]
  /\ daily \in [questions: Nat, tokens: Nat]
  /\ today \in 0..LastMonth

ChatInit ==
  /\ call = [q \in Calls |-> NewCall]
  /\ conv = [c \in Convs |-> [state |-> IF c \in Existing THEN "kept" ELSE "unused",
                              title |-> "placeholder"]]
  /\ question = [q \in Calls |-> FALSE]
  /\ reply = [q \in Calls |-> "none"]
  /\ usage = [month |-> 0, used |-> 0]
  /\ daily = [questions |-> 0, tokens |-> 0]
  /\ today = 0

-----------------------------------------------------------------------------
(* Helpers                                                                  *)

At(q, point) == call[q].pc = point
Goto(q, point) == call' = [call EXCEPT ![q].pc = point]

Home(q) == call[q].conv
Kept(c) == c \in Convs /\ conv[c].state = "kept"

\* finalize is entered: its flag is set and the close listeners are removed.
\* billable: the tokens of the done event that count for the usage.
Finalize(q, ending, billable) ==
  call' = [call EXCEPT ![q].pc = "message", ![q].ending = ending, ![q].billable = billable]

AutoTitled(q) == call[q].first /\ call[q].parts > 0 /\ call[q].placeholder

-----------------------------------------------------------------------------
(* Before the stream                                                        *)

\* The checks in front: a month that is not the current one counts as unused.
Admit(q) ==
  /\ At(q, "none")
  /\ Quota = 0 \/ usage.month # today \/ usage.used < Quota
  /\ Goto(q, "conversation")
  /\ UNCHANGED <<conv, question, reply, usage, daily, today, wire, used>>

\* A refusal: embedding gate, sensitive word, foreign conversation, key scope.
Refuse(q) ==
  /\ call[q].pc \in {"conversation", "question"}
  /\ Goto(q, "end")
  /\ UNCHANGED <<conv, question, reply, usage, daily, today, wire, used>>

FindConversation(q) ==
  /\ At(q, "conversation")
  /\ \E c \in Convs :
       /\ Kept(c)
       /\ call' = [call EXCEPT ![q].pc = "question", ![q].conv = c,
                               ![q].placeholder = conv[c].title = "placeholder"]
  /\ UNCHANGED <<conv, question, reply, usage, daily, today, wire, used>>

\* ConversationService.create counts first and inserts later.
CountConversations(q) ==
  /\ At(q, "conversation")
  /\ ConvLimit = 0 \/ Cardinality({c \in Convs : Kept(c)}) < ConvLimit
  /\ Goto(q, "create")
  /\ UNCHANGED <<conv, question, reply, usage, daily, today, wire, used>>

CreateConversation(q) ==
  /\ At(q, "create")
  /\ \E c \in Convs :
       /\ conv[c].state = "unused"
       /\ conv' = [conv EXCEPT ![c].state = "kept"]
       /\ call' = [call EXCEPT ![q].pc = "question", ![q].conv = c, ![q].placeholder = TRUE]
  /\ UNCHANGED <<question, reply, usage, daily, today, wire, used>>

\* The history of the call is what is stored before its own question.
StoreQuestion(q) ==
  /\ At(q, "question") /\ Kept(Home(q))
  /\ question' = [question EXCEPT ![q] = TRUE]
  /\ call' = [call EXCEPT ![q].pc = "reply",
                ![q].first = \A r \in Calls : ~(Home(r) = Home(q) /\ question[r])]
  /\ UNCHANGED <<conv, reply, usage, daily, today, wire, used>>

StoreReply(q) ==
  /\ At(q, "reply") /\ Kept(Home(q))
  /\ reply' = [reply EXCEPT ![q] = "streaming"]
  /\ Goto(q, "open")
  /\ UNCHANGED <<conv, question, usage, daily, today, wire, used>>

\* History and retriever settings are read, the close listeners registered,
\* the response opened and the generator called.
Open(q) ==
  /\ At(q, "open")
  /\ Goto(q, "stream")
  /\ \E files \in BOOLEAN : Connect(q, call[q].first, files)
  /\ UNCHANGED <<conv, question, reply, usage, daily, today, used>>

-----------------------------------------------------------------------------
(* The stream                                                               *)

\* The browser disconnects while the answer is streamed: the fetch is aborted.
\* Earlier nobody listens yet, later nobody listens any more.
ClientLeaves(q) ==
  /\ At(q, "stream") /\ ~call[q].gone /\ Happens("leave")
  /\ call' = [call EXCEPT ![q].gone = TRUE]
  /\ wire' = Aborted(q)
  /\ UNCHANGED <<conv, question, reply, usage, daily, today>>

\* The sources are stored with the message, which must still exist.
ReadReferences(q) ==
  /\ At(q, "stream") /\ ~call[q].gone /\ Unread(q) /\ Next1(q) = "references"
  /\ IF Kept(Home(q)) THEN wire' = Consumed(q) /\ UNCHANGED call
     ELSE wire' = Aborted(q) /\ Finalize(q, "error", 0)
  /\ UNCHANGED <<conv, question, reply, usage, daily, today, used>>

ReadDelta(q) ==
  /\ At(q, "stream") /\ ~call[q].gone /\ Unread(q) /\ Next1(q) = "delta"
  /\ wire' = Consumed(q)
  /\ call' = [call EXCEPT ![q].parts = 1]
  /\ UNCHANGED <<conv, question, reply, usage, daily, today, used>>

\* Mutant of ReadDone: the replayed tokens of a cached answer are billed.
ReadDoneBillsReplay(q) ==
  /\ At(q, "stream") /\ ~call[q].gone /\ Unread(q)
  /\ Next1(q) \in Endings \ {"error"}
  /\ wire' = Consumed(q)
  /\ Finalize(q, "done", IF Next1(q) = "fallback" THEN 0 ELSE 1)
  /\ UNCHANGED <<conv, question, reply, usage, daily, today, used>>

\* The replayed tokens of a cached answer are not billed.
ReadDone(q) ==
  /\ At(q, "stream") /\ ~call[q].gone /\ Unread(q)
  /\ Next1(q) \in Endings \ {"error"}
  /\ wire' = Consumed(q)
  /\ Finalize(q, "done", IF Next1(q) = "done" THEN 1 ELSE 0)
  /\ UNCHANGED <<conv, question, reply, usage, daily, today, used>>

ReadError(q) ==
  /\ At(q, "stream") /\ ~call[q].gone /\ Unread(q) /\ Next1(q) = "error"
  /\ wire' = Aborted(q)
  /\ Finalize(q, "error", 0)
  /\ UNCHANGED <<conv, question, reply, usage, daily, today, used>>

\* The response ends without a done event: finished without tokens.
StreamEnds(q) ==
  /\ At(q, "stream") /\ ~call[q].gone /\ ~Unread(q) /\ wire[q].state = "closed"
  /\ Finalize(q, "done", 0)
  /\ UNCHANGED <<conv, question, reply, usage, daily, today, wire, used>>

\* The connection is refused or breaks.
StreamBreaks(q) ==
  /\ At(q, "stream") /\ ~call[q].gone /\ ~Unread(q) /\ wire[q].state = "broken"
  /\ Finalize(q, "error", 0)
  /\ UNCHANGED <<conv, question, reply, usage, daily, today, wire, used>>

\* Mutant of Stop: an abort ends the loop like a response that is over.
StopAsDone(q) ==
  /\ At(q, "stream") /\ call[q].gone
  /\ Finalize(q, "done", 0)
  /\ UNCHANGED <<conv, question, reply, usage, daily, today, wire, used>>

\* Mutant of Stop: nothing is written for a reader who has gone.
StopSilently(q) ==
  /\ At(q, "stream") /\ call[q].gone
  /\ Goto(q, "end")
  /\ UNCHANGED <<conv, question, reply, usage, daily, today, wire, used>>

\* The loop or its catch clause finds the client gone.
Stop(q) ==
  /\ At(q, "stream") /\ call[q].gone
  /\ Finalize(q, "stopped", 0)
  /\ UNCHANGED <<conv, question, reply, usage, daily, today, wire, used>>

-----------------------------------------------------------------------------
(* finalize and what follows it                                             *)

UpdateReply(q) ==
  /\ At(q, "message")
  /\ IF Kept(Home(q))
     THEN reply' = [reply EXCEPT ![q] = call[q].ending] /\ Goto(q, "tally")
     ELSE UNCHANGED reply /\ Goto(q, "end")
  /\ UNCHANGED <<conv, question, usage, daily, today, wire, used>>

\* The messages are counted and the counters of the conversation written: not
\* modelled, but the row must still be there.
UpdateConversation(q) ==
  /\ At(q, "tally")
  /\ Goto(q, IF Kept(Home(q)) /\ call[q].ending = "done" THEN "stats" ELSE "end")
  /\ UNCHANGED <<conv, question, reply, usage, daily, today, wire, used>>

\* The date is read once; the row of that day is inserted or incremented.
RecordDay(q) ==
  /\ At(q, "stats")
  /\ daily' = [questions |-> daily.questions + 1, tokens |-> daily.tokens + call[q].billable]
  /\ call' = [call EXCEPT ![q].pc = "usage", ![q].month = today]
  /\ UNCHANGED <<conv, question, reply, usage, today, wire, used>>

\* A new month starts from zero.
RecordMonth(q) ==
  LET month == call[q].month IN
  /\ At(q, "usage")
  /\ usage' = [month |-> month,
               used |-> (IF usage.month = month THEN usage.used ELSE 0) + call[q].billable]
  /\ Goto(q, IF AutoTitled(q) THEN "title" ELSE "end")
  /\ UNCHANGED <<conv, question, reply, daily, today, wire, used>>

\* The title that was read at the beginning was a placeholder; the light model
\* has taken up to 8 seconds.
SetTitle(q) ==
  /\ At(q, "title") /\ Kept(Home(q))
  /\ conv' = [conv EXCEPT ![Home(q)].title = "auto"]
  /\ Goto(q, "end")
  /\ UNCHANGED <<question, reply, usage, daily, today, wire, used>>

SkipTitle(q) ==
  /\ At(q, "title")
  /\ Goto(q, "end")
  /\ UNCHANGED <<conv, question, reply, usage, daily, today, wire, used>>

\* Mutant of StatementFails: the flag of finalize is set when it has succeeded,
\* so that the catch clause finalizes again.
StatementFailsRetried(q) ==
  /\ call[q].pc \in FailAt /\ Happens("error")
  /\ IF call[q].pc \in {"stream", "tally", "stats", "usage"}
     THEN Finalize(q, "error", 0) /\ wire' = Aborted(q)
     ELSE Goto(q, "end") /\ UNCHANGED wire
  /\ UNCHANGED <<conv, question, reply, usage, daily, today>>

\* The database fails a statement (or the conversation is gone).  While the
\* sources are stored the catch clause finalizes; inside finalize its flag is
\* already set, and before the stream there is no catch clause.
StatementFails(q) ==
  /\ call[q].pc \in FailAt /\ Happens("error")
  /\ IF At(q, "stream")
     THEN /\ ~call[q].gone /\ Unread(q) /\ Next1(q) = "references"
          /\ Finalize(q, "error", 0) /\ wire' = Aborted(q)
     ELSE Goto(q, "end") /\ UNCHANGED wire
  /\ UNCHANGED <<conv, question, reply, usage, daily, today>>

\* The messages cannot be stored: the conversation was removed.
Orphaned(q) ==
  /\ call[q].pc \in {"question", "reply"} /\ ~Kept(Home(q))
  /\ Goto(q, "end")
  /\ UNCHANGED <<conv, question, reply, usage, daily, today, wire, used>>

ServerCrash ==
  /\ Happens("crash")
  /\ call' = [q \in Calls |-> IF At(q, "none") THEN call[q] ELSE [call[q] EXCEPT !.pc = "end"]]
  /\ wire' = [q \in Calls |-> IF At(q, "stream") THEN Aborted(q)[q] ELSE wire[q]]
  /\ UNCHANGED <<conv, question, reply, usage, daily, today>>

-----------------------------------------------------------------------------
(* ConversationService and the clock                                        *)

Rename(c) ==
  /\ Kept(c) /\ Happens("rename")
  /\ conv' = [conv EXCEPT ![c].title = "user"]
  /\ UNCHANGED <<call, question, reply, usage, daily, today, wire>>

\* The messages go with their conversation.
Remove(c) ==
  /\ Kept(c) /\ Happens("remove")
  /\ conv' = [conv EXCEPT ![c].state = "removed"]
  /\ question' = [q \in Calls |-> question[q] /\ Home(q) # c]
  /\ reply' = [q \in Calls |-> IF Home(q) = c THEN "none" ELSE reply[q]]
  /\ UNCHANGED <<call, usage, daily, today, wire>>

NextMonth ==
  /\ today < LastMonth /\ Happens("month")
  /\ Straddle \/ \A q \in Calls : ~At(q, "usage")
  /\ today' = today + 1
  /\ UNCHANGED <<call, conv, question, reply, usage, daily, wire>>

-----------------------------------------------------------------------------

Ask(q) == Admit(q) \/ FindConversation(q) \/ CountConversations(q) \/ CreateConversation(q)

Read(q) ==
  \/ ReadReferences(q) \/ ReadDelta(q) \/ ReadDone(q) \/ ReadError(q)
  \/ StreamEnds(q) \/ StreamBreaks(q) \/ Stop(q)

\* Once the question is stored the call runs to its end by itself.
Answer(q) ==
  \/ StoreReply(q) \/ Open(q) \/ Read(q)
  \/ UpdateReply(q) \/ UpdateConversation(q)
  \/ RecordDay(q) \/ RecordMonth(q) \/ SetTitle(q) \/ SkipTitle(q) \/ Orphaned(q)

ChatNext ==
  \/ \E q \in Calls : Ask(q) \/ Refuse(q) \/ StoreQuestion(q) \/ Answer(q)
                        \/ ClientLeaves(q) \/ StatementFails(q)
  \/ ServerCrash
  \/ \E c \in Convs : Rename(c) \/ Remove(c)
  \/ NextMonth

-----------------------------------------------------------------------------
(* Properties                                                               *)

\* finalize is idempotent: a message that is finished keeps its status until
\* its conversation is removed, whatever fails between the statements.
SettledOnce ==
  [][\A q \in Calls : reply[q] \in Settled => reply'[q] \in {reply[q], "none"}]_reply

\* A reader who leaves during the stream finds the answer stopped, never done
\* and never billed, although a done event may already be on the wire.
LeaveStops ==
  \A q \in Calls : call[q].gone =>
    reply[q] \in {"none", "streaming", "stopped"} /\ call[q].billable = 0

\* An assistant message does not stay in "streaming": every path out of the
\* loop finalizes, unless the database or the process failed.
StreamingEnds ==
  \A q \in Calls :
    reply[q] = "streaming" ~> reply[q] # "streaming" \/ used["error"] + used["crash"] > 0
=============================================================================
