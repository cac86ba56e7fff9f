-------------------------- MODULE AnsweringProofs --------------------------
(***************************************************************************)
(* Theorems about Answering, for any calls, conversations, documents and   *)
(* knowledge bases, any limits, and any schedule of events.                *)
(***************************************************************************)
EXTENDS Answering, FiniteSetTheorems, SequenceTheorems, TLAPS

-----------------------------------------------------------------------------
(* The local variables of a call                                            *)

LEMMA GotoType ==
  ASSUME call \in [Calls -> CallStates], NEW q \in Calls,
         NEW p \in Points \cup {"none", "end"}, Goto(q, p)
  PROVE  call' \in [Calls -> CallStates]
<1>1. [call[q] EXCEPT !.pc = p] \in CallStates
  BY DEF CallStates
<1> QED
  BY <1>1 DEF Goto

LEMMA FinalizeType ==
  ASSUME call \in [Calls -> CallStates], NEW q \in Calls,
         NEW ending \in Settled, NEW billable \in 0..1, Finalize(q, ending, billable)
  PROVE  call' \in [Calls -> CallStates]
<1>1. [call[q] EXCEPT !.pc = "message", !.ending = ending, !.billable = billable]
        \in CallStates
  BY ZenonT(40) DEF CallStates, Settled, Points
<1> QED
  BY <1>1 DEF Finalize

LEMMA NewCallType == NewCall \in CallStates
  BY DEF NewCall, CallStates, Months, Undated
\* What each step of a call does to its local variables is well typed.
LEMMA CallStepType ==
  ASSUME ChatType, NEW q \in Calls,
         Ask(q) \/ Refuse(q) \/ StoreQuestion(q) \/ Answer(q) \/ ClientLeaves(q) \/ StatementFails(q)
  PROVE  call' \in [Calls -> CallStates]
<1>0. call \in [Calls -> CallStates] /\ today \in 0..LastMonth
  BY DEF ChatType
<1> DEFINE lv == call[q]
<1>1. CASE Admit(q)
  BY <1>0, <1>1, GotoType DEF Admit, Points
<1>2. CASE Refuse(q)
  BY <1>0, <1>2, GotoType DEF Refuse
<1>3. CASE FindConversation(q)
  <2>1. \A c \in Convs, b \in BOOLEAN :
          [lv EXCEPT !.pc = "question", !.conv = c, !.placeholder = b] \in CallStates
    BY ZenonT(40), <1>0 DEF CallStates, Points
  <2> QED
    BY <1>0, <1>3, <2>1 DEF FindConversation
<1>4. CASE CountConversations(q)
  BY <1>0, <1>4, GotoType DEF CountConversations, Points
<1>5. CASE CreateConversation(q)
  <2>1. \A c \in Convs :
          [lv EXCEPT !.pc = "question", !.conv = c, !.placeholder = TRUE] \in CallStates
    BY ZenonT(40), <1>0 DEF CallStates, Points
  <2> QED
    BY ZenonT(40), <1>0, <1>5, <2>1 DEF CreateConversation
<1>6. CASE StoreQuestion(q)
  <2>1. \A b \in BOOLEAN : [lv EXCEPT !.pc = "reply", !.first = b] \in CallStates
    BY ZenonT(40), <1>0 DEF CallStates, Points
  <2> QED
    BY <1>0, <1>6, <2>1 DEF StoreQuestion
<1>7. CASE StoreReply(q) \/ Open(q) \/ UpdateReply(q) \/ UpdateConversation(q)
             \/ RecordMonth(q) \/ SetTitle(q) \/ SkipTitle(q) \/ Orphaned(q)
  BY <1>0, <1>7, GotoType
     DEF StoreReply, Open, UpdateReply, UpdateConversation, RecordMonth, SetTitle,
         SkipTitle, Orphaned, Points
<1>8. CASE ClientLeaves(q)
  <2>1. [lv EXCEPT !.gone = TRUE] \in CallStates
    BY <1>0 DEF CallStates
  <2> QED
    BY <1>0, <1>8, <2>1 DEF ClientLeaves
<1>9. CASE ReadReferences(q) \/ ReadDone(q) \/ ReadError(q) \/ StreamEnds(q)
             \/ StreamBreaks(q) \/ Stop(q)
  BY <1>0, <1>9, FinalizeType
     DEF ReadReferences, ReadDone, ReadError, StreamEnds, StreamBreaks, Stop, Settled
<1>10. CASE ReadDelta(q)
  <2>1. [lv EXCEPT !.parts = 1] \in CallStates
    BY <1>0 DEF CallStates
  <2> QED
    BY <1>0, <1>10, <2>1 DEF ReadDelta
<1>11. CASE RecordDay(q)
  <2>1. [lv EXCEPT !.pc = "usage", !.month = today] \in CallStates
    BY ZenonT(40), <1>0 DEF CallStates, Points, Months
  <2> QED
    BY <1>0, <1>11, <2>1 DEF RecordDay
<1>12. CASE StatementFails(q)
  BY <1>0, <1>12, GotoType, FinalizeType DEF StatementFails, Settled
<1> QED
  BY <1>1, <1>2, <1>3, <1>4, <1>5, <1>6, <1>7, <1>8, <1>9, <1>10, <1>11, <1>12
     DEF Ask, Answer, Read

\* Which steps of a call change which table.
LEMMA CallFrame ==
  ASSUME NEW q \in Calls,
         Ask(q) \/ Refuse(q) \/ StoreQuestion(q) \/ Answer(q) \/ ClientLeaves(q) \/ StatementFails(q)
  PROVE  /\ UNCHANGED conv \/ CreateConversation(q) \/ SetTitle(q)
         /\ UNCHANGED question \/ StoreQuestion(q)
         /\ UNCHANGED reply \/ StoreReply(q) \/ UpdateReply(q)
         /\ UNCHANGED usage \/ RecordMonth(q)
         /\ UNCHANGED daily \/ RecordDay(q)
         /\ UNCHANGED today
<1>1. CASE Ask(q)
  BY <1>1 DEF Ask, Admit, FindConversation, CountConversations, CreateConversation
<1>2. CASE Refuse(q) \/ StoreQuestion(q) \/ ClientLeaves(q) \/ StatementFails(q)
  BY <1>2 DEF Refuse, StoreQuestion, ClientLeaves, StatementFails
<1>3. CASE Read(q)
  BY <1>3 DEF Read, ReadReferences, ReadDelta, ReadDone, ReadError, StreamEnds, StreamBreaks, Stop
<1>4. CASE Answer(q) /\ ~Read(q)
  BY <1>4 DEF Answer, StoreReply, Open, UpdateReply, UpdateConversation, RecordDay,
              RecordMonth, SetTitle, SkipTitle, Orphaned
<1> QED
  BY <1>1, <1>2, <1>3, <1>4

LEMMA TablesType ==
  ASSUME ChatType, NEW q \in Calls,
         Ask(q) \/ Refuse(q) \/ StoreQuestion(q) \/ Answer(q) \/ ClientLeaves(q) \/ StatementFails(q)
  PROVE  ChatType'
<1>0. call \in [Calls -> CallStates] /\ call[q] \in CallStates
  BY DEF ChatType
<1>1. conv' \in [Convs -> Conversations]
  <2>1. \A c \in Convs : /\ [conv[c] EXCEPT !.state = "kept"] \in Conversations
                         /\ [conv[c] EXCEPT !.title = "auto"] \in Conversations
    BY DEF ChatType, Conversations
  <2>2. CASE CreateConversation(q)
    <3>1. PICK c \in Convs : conv' = [conv EXCEPT ![c].state = "kept"]
      BY <2>2 DEF CreateConversation
    <3> QED
      BY <2>1, <3>1 DEF ChatType
  <2>3. CASE SetTitle(q)
    <3>1. Home(q) \in Convs /\ conv' = [conv EXCEPT ![Home(q)].title = "auto"]
      BY <2>3 DEF SetTitle, Kept
    <3> QED
      BY <2>1, <3>1 DEF ChatType
  <2> QED
    BY <2>2, <2>3, CallFrame DEF ChatType
<1>2. question' \in [Calls -> BOOLEAN] /\ today' \in 0..LastMonth
  BY CallFrame DEF ChatType, StoreQuestion
<1>3. reply' \in [Calls -> {"none", "streaming"} \cup Settled]
  <2>1. CASE UpdateReply(q)
    <3>1. call[q].ending \in Settled \cup {"none"}
      BY <1>0 DEF CallStates, Settled
    <3> QED
      BY <2>1, <3>1 DEF ChatType, UpdateReply
  <2> QED
    BY <2>1, CallFrame DEF ChatType, StoreReply
<1>4. usage' \in [month: Months, used: Nat]
  <2>1. call[q].month \in Months /\ call[q].billable \in Nat
    BY <1>0 DEF CallStates
  <2>2. usage.used + call[q].billable \in Nat /\ 0 + call[q].billable \in Nat
    BY <2>1 DEF ChatType
  <2>3. CASE RecordMonth(q)
    BY <2>1, <2>2, <2>3 DEF RecordMonth
  <2> QED
    BY <2>3, CallFrame DEF ChatType
<1>5. daily' \in [questions: Nat, tokens: Nat]
  <2>1. call[q].billable \in Nat
    BY <1>0 DEF CallStates
  <2>2. daily.tokens + call[q].billable \in Nat /\ daily.questions + 1 \in Nat
    BY <2>1 DEF ChatType
  <2>3. CASE RecordDay(q)
    BY <2>2, <2>3 DEF RecordDay
  <2> QED
    BY <2>3, CallFrame DEF ChatType
<1> QED
  BY <1>1, <1>2, <1>3, <1>4, <1>5, CallStepType DEF ChatType

LEMMA ChatNextType ==
  ASSUME ChatType, ChatNext
  PROVE  ChatType'
<1>1. ASSUME NEW q \in Calls,
             Ask(q) \/ Refuse(q) \/ StoreQuestion(q) \/ Answer(q) \/ ClientLeaves(q)
               \/ StatementFails(q)
      PROVE  ChatType'
  BY <1>1, TablesType
<1>2. CASE ServerCrash
  <2>1. \A q \in Calls : [call[q] EXCEPT !.pc = "end"] \in CallStates
    BY DEF ChatType, CallStates
  <2> QED
    BY <1>2, <2>1 DEF ServerCrash, ChatType
<1>3. ASSUME NEW c \in Convs, Rename(c) \/ Remove(c)
      PROVE  ChatType'
  <2>1. /\ [conv[c] EXCEPT !.title = "user"] \in Conversations
        /\ [conv[c] EXCEPT !.state = "removed"] \in Conversations
    BY DEF ChatType, Conversations
  <2>2. CASE Rename(c)
    BY <2>1, <2>2 DEF Rename, ChatType
  <2>3. CASE Remove(c)
    BY <2>1, <2>3 DEF Remove, ChatType
  <2> QED
    BY <1>3, <2>2, <2>3
<1>4. CASE NextMonth
  BY <1>4, ChatParameters DEF NextMonth, ChatType
<1> QED
  BY <1>1, <1>2, <1>3, <1>4 DEF ChatNext
-----------------------------------------------------------------------------
(* The wire and the budget                                                  *)

LEMMA HappensType ==
  ASSUME WireType, NEW e \in Happenings, Happens(e)
  PROVE  used' \in [Happenings -> Nat]
  BY DEF WireType, Happens

LEMMA SetWire ==
  ASSUME WireType, NEW q \in Calls, NEW r \in Wires, wire' = [wire EXCEPT ![q] = r]
  PROVE  wire' \in [Calls -> Wires]
  BY DEF WireType

LEMMA WriteType ==
  ASSUME WireType, NEW q \in Calls, NEW events \in Seq(SseEvents),
         Write(q, events) \/ WriteLast(q, events)
  PROVE  wire' \in [Calls -> Wires]
<1>1. wire[q] \in Wires
  BY DEF WireType
<1> DEFINE body == wire[q].body \o events
<1>2. body \in Seq(SseEvents)
  BY <1>1 DEF Wires
<1> HIDE DEF body
<1>3. /\ [wire[q] EXCEPT !.body = body] \in Wires
      /\ [wire[q] EXCEPT !.body = body, !.state = "closed"] \in Wires
  BY <1>1, <1>2 DEF Wires
<1> QED
  BY <1>3 DEF Write, WriteLast, WireType, body

LEMMA AbortedType ==
  ASSUME WireType, NEW q \in Calls
  PROVE  Aborted(q) \in [Calls -> Wires]
<1>1. <<>> \in Seq(SseEvents)
  OBVIOUS
<1>2. [wire[q] EXCEPT !.state = "aborted", !.body = <<>>] \in Wires
  BY <1>1 DEF WireType, Wires
<1> QED
  BY <1>2 DEF Aborted, WireType

LEMMA ConsumedType ==
  ASSUME WireType, NEW q \in Calls, Unread(q)
  PROVE  Consumed(q) \in [Calls -> Wires]
<1>1. wire[q] \in Wires /\ wire[q].body \in Seq(SseEvents) /\ wire[q].body # <<>>
  BY DEF WireType, Wires, Unread
<1>2. Tail(wire[q].body) \in Seq(SseEvents)
  BY <1>1
<1>3. [wire[q] EXCEPT !.body = Tail(wire[q].body)] \in Wires
  BY <1>1, <1>2 DEF Wires
<1> QED
  BY <1>3 DEF Consumed, WireType

LEMMA CallWire ==
  ASSUME WireType, NEW q \in Calls, ChatType,
         Ask(q) \/ Refuse(q) \/ StoreQuestion(q) \/ Answer(q) \/ ClientLeaves(q) \/ StatementFails(q)
  PROVE  WireType'
<1>1. CASE Ask(q)
  BY <1>1 DEF Ask, Admit, FindConversation, CountConversations, CreateConversation, WireType
<1>2. CASE Refuse(q) \/ StoreQuestion(q)
  BY <1>2 DEF Refuse, StoreQuestion, WireType
<1>3. CASE ClientLeaves(q) \/ StatementFails(q)
  BY <1>3, AbortedType, HappensType DEF ClientLeaves, StatementFails, WireType, Happenings
<1>4. CASE Read(q)
  BY <1>4, AbortedType, ConsumedType
     DEF Read, ReadReferences, ReadDelta, ReadDone, ReadError, StreamEnds, StreamBreaks, Stop, WireType
<1>5. CASE Open(q)
  <2>1. PICK files \in BOOLEAN : Connect(q, call[q].first, files)
    BY <1>5 DEF Open
  <2>2. <<>> \in Seq(SseEvents) /\ call[q].first \in BOOLEAN
    BY DEF ChatType, CallStates
  <2>3. [state |-> "open", single |-> call[q].first, files |-> files, body |-> <<>>] \in Wires
    BY <2>2 DEF Wires
  <2> QED
    BY <1>5, <2>1, <2>3, SetWire DEF Open, Connect, WireType
<1>6. CASE Answer(q) /\ ~Read(q) /\ ~Open(q)
  BY <1>6 DEF Answer, StoreReply, UpdateReply, UpdateConversation, RecordDay,
              RecordMonth, SetTitle, SkipTitle, Orphaned, WireType
<1> QED
  BY <1>1, <1>2, <1>3, <1>4, <1>5, <1>6

LEMMA ChatWire ==
  ASSUME WireType, ChatType, ChatNext
  PROVE  WireType'
<1>1. ASSUME NEW q \in Calls,
             Ask(q) \/ Refuse(q) \/ StoreQuestion(q) \/ Answer(q) \/ ClientLeaves(q)
               \/ StatementFails(q)
      PROVE  WireType'
  BY <1>1, CallWire
<1>2. CASE ServerCrash
  <2>1. \A q \in Calls : Aborted(q)[q] \in Wires /\ wire[q] \in Wires
    BY AbortedType DEF WireType
  <2>2. wire' \in [Calls -> Wires]
    BY <1>2, <2>1 DEF ServerCrash
  <2> QED
    BY <1>2, <2>2, HappensType DEF ServerCrash, WireType, Happenings
<1>3. CASE NextMonth
  BY <1>3, HappensType DEF NextMonth, WireType, Happenings
<1>4. ASSUME NEW c \in Convs, Rename(c) \/ Remove(c)
      PROVE  WireType'
  BY <1>4, HappensType DEF Rename, Remove, WireType, Happenings
<1> QED
  BY <1>1, <1>2, <1>3, <1>4 DEF ChatNext
-----------------------------------------------------------------------------
(* The generator, the cache and the library                                 *)

LEMMA GeneratorType ==
  ASSUME CacheType, NEW q \in Calls, Produce(q)
  PROVE  gen' \in [Calls -> Generators]
<1>0. gen \in [Calls -> Generators] /\ gen[q] \in Generators
  BY DEF CacheType
<1>1. CASE Hit(q)
  <2>1. Scope[q] \in Scopes
    BY DEF Scopes
  <2>2. cache[Scope[q]] \in Entries
    BY <1>1, <2>1 DEF CacheType, Hit
  <2>3. [pc |-> "end", path |-> "hit", docs |-> cache[Scope[q]].docs] \in Generators
    BY <2>2 DEF Entries, Generators
  <2> QED
    BY <1>0, <1>1, <2>3 DEF Hit
<1>2. CASE Retrieve(q)
  <2> DEFINE found == {d \in live : KbOf[d] \in Scope[q]}
  <2>1. found \in SUBSET Docs
    BY DEF CacheType
  <2>2. /\ [gen[q] EXCEPT !.pc = "end", !.path = "fallback"] \in Generators
        /\ [gen[q] EXCEPT !.pc = "generate", !.docs = found] \in Generators
    BY <1>0, <2>1 DEF Generators
  <2> QED
    BY <1>0, <1>2, <2>2 DEF Retrieve, Finish
<1>3. CASE Generate(q)
  <2>1. /\ [gen[q] EXCEPT !.pc = "store", !.path = "model"] \in Generators
        /\ [gen[q] EXCEPT !.pc = "end", !.path = "model"] \in Generators
    BY <1>0 DEF Generators
  <2> QED
    BY <1>0, <1>3, <2>1 DEF Generate, Finish
<1>4. CASE Miss(q) \/ Store(q) \/ StoreFails(q) \/ GenerationFails(q) \/ Close(q)
  <2>1. /\ [gen[q] EXCEPT !.pc = "retrieve"] \in Generators
        /\ [gen[q] EXCEPT !.pc = "end"] \in Generators
        /\ [gen[q] EXCEPT !.pc = "end", !.path = "failed"] \in Generators
    BY <1>0 DEF Generators
  <2> QED
    BY <1>0, <1>4, <2>1 DEF Miss, Store, StoreFails, GenerationFails, Close, Goes, Finish
<1> QED
  BY <1>1, <1>2, <1>3, <1>4 DEF Produce

LEMMA ProduceType ==
  ASSUME CacheType, WireType, NEW q \in Calls, Produce(q)
  PROVE  CacheType' /\ WireType'
<1>1. UNCHANGED <<library, due, notices, used>>
  BY DEF Produce, Hit, Miss, Retrieve, Generate, Store, StoreFails, GenerationFails, Close
<1>2. cache' \in [Scopes -> Entries \cup {NoEntry}]
  <2>1. CASE Store(q)
    <3>1. [docs |-> gen[q].docs, by |-> q] \in Entries
      BY DEF CacheType, Generators, Entries
    <3> QED
      BY <2>1, <3>1 DEF Store, CacheType
  <2>2. CASE ~Store(q)
    BY <2>2 DEF Produce, Hit, Miss, Retrieve, Generate, StoreFails, GenerationFails, Close, CacheType
  <2> QED
    BY <2>1, <2>2
<1>3. wire' \in [Calls -> Wires]
  <2>1. /\ <<"references", "delta", "cached">> \in Seq(SseEvents)
        /\ <<"delta", "fallback">> \in Seq(SseEvents)
        /\ <<"references">> \in Seq(SseEvents) /\ <<>> \in Seq(SseEvents)
        /\ <<"delta", "done">> \in Seq(SseEvents) /\ <<"error">> \in Seq(SseEvents)
    BY DEF SseEvents, Endings
  <2>2. CASE Hit(q) \/ Generate(q) \/ Store(q) \/ StoreFails(q) \/ GenerationFails(q)
    BY <2>1, <2>2, WriteType DEF Hit, Generate, Store, StoreFails, GenerationFails
  <2>3. CASE Retrieve(q)
    BY <2>1, <2>3, WriteType DEF Retrieve
  <2>4. CASE Miss(q) \/ Close(q)
    BY <2>4 DEF Miss, Close, WireType
  <2> QED
    BY <2>2, <2>3, <2>4 DEF Produce
<1> QED
  BY <1>1, <1>2, <1>3, GeneratorType DEF CacheType, WireType, library

LEMMA CacheNextType ==
  ASSUME CacheType, WireType, CacheNext
  PROVE  CacheType' /\ WireType'
<1>1. ASSUME NEW q \in Calls, Produce(q)
      PROVE  CacheType' /\ WireType'
  BY <1>1, ProduceType
<1>2. CASE Outage
  <2>1. \A q \in Calls : [gen[q] EXCEPT !.pc = "end"] \in Generators
    BY DEF CacheType, Generators
  <2>2. gen' \in [Calls -> Generators]
    BY <1>2, <2>1 DEF Outage, CacheType
  <2>3. \A q \in Calls, s \in {"broken", "closed"} : [wire[q] EXCEPT !.state = s] \in Wires
    BY DEF WireType, Wires
  <2>4. wire' \in [Calls -> Wires]
    BY ZenonT(40), <1>2, <2>3 DEF Outage, WireType
  <2>5. used' \in [Happenings -> Nat]
    BY <1>2, HappensType DEF Outage, Happenings
  <2> QED
    BY <1>2, <2>2, <2>4, <2>5 DEF Outage, CacheType, WireType, library
<1>3. ASSUME NEW d \in Docs,
             UploadOrReparse(d) \/ ClearChunks(d) \/ InsertChunks(d) \/ ParseFails(d) \/ RemoveDoc(d)
      PROVE  CacheType' /\ WireType'
  <2>1. KbOf[d] \in Kbs
    BY CacheParameters
  <2>2. CASE UploadOrReparse(d)
    BY <2>1, <2>2, HappensType DEF UploadOrReparse, CacheType, WireType, Happenings
  <2>3. CASE RemoveDoc(d)
    BY <2>1, <2>3, HappensType DEF RemoveDoc, CacheType, WireType, Happenings
  <2>4. CASE ClearChunks(d) \/ InsertChunks(d) \/ ParseFails(d)
    BY <2>4 DEF ClearChunks, InsertChunks, ParseFails, CacheType, WireType
  <2> QED
    BY <1>3, <2>2, <2>3, <2>4
<1>4. ASSUME NEW k \in Kbs, Notify(k) \/ NoticeLost(k) \/ Invalidate(k)
      PROVE  CacheType' /\ WireType'
  <2>1. CASE Notify(k)
    BY <2>1 DEF Notify, CacheType, WireType, library
  <2>2. CASE NoticeLost(k)
    BY <2>2, HappensType DEF NoticeLost, CacheType, WireType, Happenings, library
  <2>3. CASE Invalidate(k)
    BY <2>3 DEF Invalidate, CacheType, WireType, library
  <2> QED
    BY <1>4, <2>1, <2>2, <2>3
<1>5. ASSUME NEW S \in Scopes, Expire(S)
      PROVE  CacheType' /\ WireType'
  BY <1>5 DEF Expire, CacheType, WireType, library
<1> QED
  BY <1>1, <1>2, <1>3, <1>4, <1>5 DEF CacheNext, Change

-----------------------------------------------------------------------------

LEMMA InitType == Init => TypeOK
<1> SUFFICES ASSUME Init PROVE TypeOK
  OBVIOUS
<1>1. ChatType
  <2>1. \A c \in Convs :
          [state |-> IF c \in Existing THEN "kept" ELSE "unused", title |-> "placeholder"]
            \in Conversations
    BY DEF Conversations
  <2>2. 0 \in 0..LastMonth /\ 0 \in Months
    BY ChatParameters DEF Months
  <2> QED
    BY <2>1, <2>2, NewCallType DEF Init, ChatInit, ChatType
<1>2. CacheType
  <2>1. Off \in Generators
    BY DEF Off, Generators
  <2> QED
    BY <2>1 DEF Init, CacheInit, CacheType
<1>3. WireType
  <2>1. <<>> \in Seq(SseEvents)
    OBVIOUS
  <2>2. NoWire \in Wires
    BY <2>1 DEF NoWire, Wires
  <2> QED
    BY <2>2 DEF Init, WireInit, WireType
<1> QED
  BY <1>1, <1>2, <1>3 DEF TypeOK

LEMMA NextType ==
  ASSUME TypeOK, [Next]_vars
  PROVE  TypeOK'
<1>1. CASE ChatNext /\ UNCHANGED cacheVars
  BY <1>1, ChatNextType, ChatWire DEF TypeOK, CacheType, cacheVars, library
<1>2. CASE CacheNext /\ UNCHANGED chatVars
  BY <1>2, CacheNextType DEF TypeOK, ChatType, chatVars
<1>3. CASE UNCHANGED vars
  BY <1>3 DEF TypeOK, ChatType, CacheType, WireType, vars, chatVars, cacheVars, library
<1> QED
  BY <1>1, <1>2, <1>3 DEF Next

\* Every variable of the two services and of the wire keeps its type: the
\* status of a message is one of the four of the column, and only known events
\* are on the wire.
THEOREM TypeCorrect == Spec => []TypeOK
<1>1. TypeOK /\ [Next]_vars => TypeOK'
  BY NextType
<1> QED
  BY InitType, <1>1, PTL DEF Spec

-----------------------------------------------------------------------------
(* A message is settled once                                                *)

\* Before the answer ends, and until the message is written.
BeforeEnding == {"none", "conversation", "create", "question", "reply", "open", "stream"}
BeforeMessage == BeforeEnding \cup {"message"}

\* What the local variables of a call say of its message.  finalize is entered
\* at most once: no step leads back to the stream; and after a reader has left,
\* nothing but the ending "stopped" is reached.
Coherent(q) ==
  /\ call[q].pc \in BeforeMessage => reply[q] \in {"none", "streaming"}
  /\ call[q].pc \in BeforeEnding => call[q].billable = 0
  /\ call[q].gone =>
       /\ call[q].pc \in {"stream", "message", "tally", "end"}
       /\ call[q].pc \in {"message", "tally"} => call[q].ending = "stopped"
       /\ call[q].billable = 0
       /\ reply[q] \in {"none", "streaming", "stopped"}

AllCoherent == \A q \in Calls : Coherent(q)

CallStep(q) ==
  Ask(q) \/ Refuse(q) \/ StoreQuestion(q) \/ Answer(q) \/ ClientLeaves(q) \/ StatementFails(q)

\* What the helpers leave alone.
LEMMA GotoFields ==
  ASSUME ChatType, NEW q \in Calls, NEW p, Goto(q, p)
  PROVE  /\ call'[q].pc = p /\ call'[q].gone = call[q].gone
         /\ call'[q].ending = call[q].ending /\ call'[q].billable = call[q].billable
  BY DEF Goto, ChatType, CallStates

LEMMA FinalizeFields ==
  ASSUME ChatType, NEW q \in Calls, NEW ending, NEW billable, Finalize(q, ending, billable)
  PROVE  /\ call'[q].pc = "message" /\ call'[q].gone = call[q].gone
         /\ call'[q].ending = ending /\ call'[q].billable = billable
<1>1. call[q] \in CallStates /\ call \in [Calls -> CallStates]
  BY DEF ChatType
<1>2. call'[q] = [call[q] EXCEPT !.pc = "message", !.ending = ending, !.billable = billable]
  BY <1>1 DEF Finalize
<1> QED
  BY <1>1, <1>2 DEF CallStates

\* A step before the stream, or one that only reads from it.
LEMMA EarlyStep ==
  ASSUME ChatType, NEW q \in Calls, Coherent(q),
         Ask(q) \/ StoreQuestion(q) \/ StoreReply(q) \/ Open(q) \/ ReadDelta(q)
  PROVE  Coherent(q)'
<1> USE DEF BeforeMessage, BeforeEnding, At
<1>0. call \in [Calls -> CallStates] /\ reply \in [Calls -> {"none", "streaming"} \cup Settled]
  BY DEF ChatType
<1>1. CASE Admit(q) \/ CountConversations(q) \/ Open(q) \/ StoreReply(q)
  BY <1>0, <1>1, GotoFields DEF Admit, CountConversations, Open, StoreReply, Coherent
<1>2. CASE FindConversation(q)
  <2>1. PICK c \in Convs :
          call' = [call EXCEPT ![q].pc = "question", ![q].conv = c,
                               ![q].placeholder = conv[c].title = "placeholder"]
    BY <1>2 DEF FindConversation
  <2> DEFINE b == conv[c].title = "placeholder"
  <2>2. call'[q] = [call[q] EXCEPT !.pc = "question", !.conv = c, !.placeholder = b]
    BY <1>0, <2>1
  <2> QED
    BY <1>0, <1>2, <2>2 DEF FindConversation, Coherent, CallStates
<1>3. CASE CreateConversation(q)
  <2>1. PICK c \in Convs :
          call' = [call EXCEPT ![q].pc = "question", ![q].conv = c, ![q].placeholder = TRUE]
    BY <1>3 DEF CreateConversation
  <2>2. call'[q] = [call[q] EXCEPT !.pc = "question", !.conv = c, !.placeholder = TRUE]
    BY <1>0, <2>1
  <2> QED
    BY <1>0, <1>3, <2>2 DEF CreateConversation, Coherent, CallStates
<1>4. CASE StoreQuestion(q)
  <2> DEFINE b == \A r \in Calls : ~(Home(r) = Home(q) /\ question[r])
  <2>1. call'[q] = [call[q] EXCEPT !.pc = "reply", !.first = b]
    BY <1>0, <1>4 DEF StoreQuestion
  <2> HIDE DEF b
  <2> QED
    BY <1>0, <1>4, <2>1 DEF StoreQuestion, Coherent, CallStates
<1>5. CASE ReadDelta(q)
  <2>1. call'[q] = [call[q] EXCEPT !.parts = 1]
    BY <1>0, <1>5 DEF ReadDelta
  <2> QED
    BY <1>0, <1>5, <2>1 DEF ReadDelta, Coherent, CallStates
<1> QED
  BY <1>1, <1>2, <1>3, <1>4, <1>5 DEF Ask

\* A step of a call keeps its own variables coherent.
LEMMA OwnStep ==
  ASSUME ChatType, NEW q \in Calls, Coherent(q), CallStep(q)
  PROVE  Coherent(q)'
<1> USE DEF BeforeMessage, BeforeEnding, At
<1>0. /\ call \in [Calls -> CallStates] /\ call[q] \in CallStates
      /\ reply \in [Calls -> {"none", "streaming"} \cup Settled]
  BY DEF ChatType
<1>1. CASE Ask(q) \/ StoreQuestion(q) \/ StoreReply(q) \/ Open(q) \/ ReadDelta(q)
  BY <1>1, EarlyStep
<1>2. CASE Refuse(q) \/ Orphaned(q) \/ UpdateConversation(q) \/ RecordMonth(q)
             \/ SetTitle(q) \/ SkipTitle(q)
  BY <1>0, <1>2, GotoFields
     DEF Refuse, Orphaned, UpdateConversation, RecordMonth, SetTitle, SkipTitle, Coherent
<1>3. CASE RecordDay(q)
  <2>1. call'[q] = [call[q] EXCEPT !.pc = "usage", !.month = today]
    BY <1>0, <1>3 DEF RecordDay
  <2> QED
    BY <1>0, <1>3, <2>1 DEF RecordDay, Coherent, CallStates
<1>4. CASE ReadReferences(q) \/ ReadDone(q) \/ ReadError(q) \/ StreamEnds(q)
             \/ StreamBreaks(q) \/ Stop(q)
  BY <1>0, <1>4, FinalizeFields
     DEF ReadReferences, ReadDone, ReadError, StreamEnds, StreamBreaks, Stop, Coherent
<1>5. CASE UpdateReply(q)
  BY <1>0, <1>5, GotoFields DEF UpdateReply, Coherent
<1>6. CASE ClientLeaves(q)
  BY <1>0, <1>6 DEF ClientLeaves, Coherent, CallStates
<1>7. CASE StatementFails(q)
  BY <1>0, <1>7, GotoFields, FinalizeFields DEF StatementFails, Coherent
<1> QED
  BY <1>1, <1>2, <1>3, <1>4, <1>5, <1>6, <1>7 DEF CallStep, Answer, Read

\* No other call is touched.
LEMMA OtherCalls ==
  ASSUME ChatType, NEW q \in Calls, CallStep(q), NEW r \in Calls, r # q
  PROVE  call'[r] = call[r] /\ reply'[r] = reply[r]
<1>0. call \in [Calls -> CallStates] /\ reply \in [Calls -> {"none", "streaming"} \cup Settled]
  BY DEF ChatType
<1>1. reply'[r] = reply[r]
  BY <1>0, CallFrame DEF CallStep, StoreReply, UpdateReply
<1>2. CASE Ask(q) \/ Refuse(q) \/ StoreQuestion(q) \/ ClientLeaves(q) \/ StatementFails(q)
  BY <1>0, <1>1, <1>2
     DEF Ask, Admit, FindConversation, CountConversations, CreateConversation, Refuse,
         StoreQuestion, ClientLeaves, StatementFails, Goto, Finalize
<1>3. CASE Read(q)
  BY <1>0, <1>1, <1>3
     DEF Read, ReadReferences, ReadDelta, ReadDone, ReadError, StreamEnds, StreamBreaks, Stop,
         Finalize
<1>4. CASE Answer(q) /\ ~Read(q)
  BY <1>0, <1>1, <1>4
     DEF Answer, StoreReply, Open, UpdateReply, UpdateConversation, RecordDay, RecordMonth,
         SetTitle, SkipTitle, Orphaned, Goto
<1> QED
  BY <1>2, <1>3, <1>4 DEF CallStep

LEMMA ChatCoherent ==
  ASSUME ChatType, AllCoherent, ChatNext
  PROVE  AllCoherent'
<1>1. ASSUME NEW q \in Calls, CallStep(q), NEW r \in Calls
      PROVE  Coherent(r)'
  <2>1. CASE r = q
    BY <1>1, <2>1, OwnStep DEF AllCoherent
  <2>2. CASE r # q
    BY <1>1, <2>2, OtherCalls DEF AllCoherent, Coherent
  <2> QED
    BY <2>1, <2>2
<1>2. CASE ServerCrash
  BY <1>2 DEF ServerCrash, AllCoherent, Coherent, ChatType, CallStates, At, BeforeEnding, BeforeMessage
<1>3. CASE NextMonth
  BY <1>3 DEF NextMonth, AllCoherent, Coherent
<1>4. ASSUME NEW c \in Convs, Rename(c) \/ Remove(c)
      PROVE  AllCoherent'
  BY <1>4 DEF Rename, Remove, AllCoherent, Coherent, ChatType
<1> QED
  BY <1>1, <1>2, <1>3, <1>4 DEF ChatNext, CallStep, AllCoherent

LEMMA NextCoherent ==
  ASSUME TypeOK, AllCoherent, [Next]_vars
  PROVE  AllCoherent'
<1>1. CASE ChatNext
  BY <1>1, ChatCoherent DEF TypeOK
<1>2. CASE UNCHANGED chatVars
  BY <1>2 DEF chatVars, AllCoherent, Coherent
<1> QED
  BY <1>1, <1>2 DEF Next, vars

LEMMA InitCoherent == Init => AllCoherent
  BY DEF Init, ChatInit, NewCall, AllCoherent, Coherent, BeforeEnding, BeforeMessage

LEMMA AlwaysCoherent == Spec => [](TypeOK /\ AllCoherent)
<1>1. TypeOK /\ AllCoherent /\ [Next]_vars => (TypeOK /\ AllCoherent)'
  BY NextType, NextCoherent
<1> QED
  BY InitType, InitCoherent, <1>1, PTL DEF Spec

\* A reader who leaves during the stream finds the answer stopped and unbilled,
\* for any interleaving of his departure with the events of the generator, the
\* failures of the database and the other calls.
THEOREM LeftMeansStopped == Spec => []LeaveStops
<1>1. AllCoherent => LeaveStops
  BY DEF AllCoherent, Coherent, LeaveStops
<1> QED
  BY AlwaysCoherent, <1>1, PTL

\* A settled message keeps its status until its conversation is removed.
THEOREM SettledForGood == Spec => SettledOnce
<1> DEFINE Kept1 == \A q \in Calls : reply[q] \in Settled => reply'[q] \in {reply[q], "none"}
<1>1. ASSUME TypeOK, AllCoherent, [Next]_vars
      PROVE  [Kept1]_reply
  <2>0. reply \in [Calls -> {"none", "streaming"} \cup Settled]
    BY <1>1 DEF TypeOK, ChatType
  <2>1. ASSUME NEW q \in Calls, CallStep(q), NEW r \in Calls, reply[r] \in Settled
        PROVE  reply'[r] = reply[r]
    <3>1. CASE r = q
      <4>1. call[q].pc \notin BeforeMessage
        BY <1>1, <2>1, <3>1 DEF AllCoherent, Coherent, Settled
      <4> QED
        BY <2>1, <3>1, <4>1, CallFrame
           DEF CallStep, StoreReply, UpdateReply, At, BeforeMessage, BeforeEnding
    <3>2. CASE r # q
      BY <1>1, <2>1, <3>2, OtherCalls DEF TypeOK
    <3> QED
      BY <3>1, <3>2
  <2>2. ASSUME NEW c \in Convs, Rename(c) \/ Remove(c)
        PROVE  [Kept1]_reply
    BY <2>0, <2>2 DEF Rename, Remove
  <2>3. CASE ServerCrash \/ NextMonth \/ UNCHANGED chatVars
    BY <2>3 DEF ServerCrash, NextMonth, chatVars
  <2> QED
    BY <1>1, <2>1, <2>2, <2>3 DEF Next, vars, ChatNext, CallStep
<1> QED
  BY AlwaysCoherent, <1>1, PTL DEF Spec, SettledOnce
-----------------------------------------------------------------------------
(* What was removed is forgotten                                            *)

\* An entry or an answer under way that rests on a removed document: somebody is
\* still to be told.  A removed document does not come back.
Forgetting ==
  /\ removed \cap (live \cup parsing) = {}
  /\ \A S \in Scopes : cache[S] # NoEntry =>
       \A d \in cache[S].docs : KbOf[d] \in S /\ (d \in removed => KbOf[d] \in due \cup notices)
  /\ \A q \in Calls : gen[q].pc \in {"generate", "store"} =>
       \A d \in gen[q].docs : KbOf[d] \in Scope[q] /\ (d \in removed => KbOf[d] \in due \cup notices)

NothingLost == used["lost"] = 0

\* Whatever happens, nothing that was lost is found again.
LEMMA HappensLost ==
  ASSUME WireType, NEW e \in Happenings, Happens(e)
  PROVE  NothingLost' => NothingLost /\ e # "lost"
<1>1. used \in [Happenings -> Nat] /\ used' = [used EXCEPT ![e] = @ + 1] /\ used[e] \in Nat
  BY DEF Happens, WireType
<1>2. "lost" \in Happenings
  BY DEF Happenings
<1> QED  BY <1>1, <1>2 DEF NothingLost

LEMMA ChatLost ==
  ASSUME WireType, ChatNext
  PROVE  NothingLost' => NothingLost
<1>1. \A e \in {"leave", "error", "crash", "rename", "remove", "month"} : Happens(e) => (NothingLost' => NothingLost)
  BY HappensLost DEF Happenings
<1>2. ASSUME NEW q \in Calls, CallStep(q)
      PROVE  NothingLost' => NothingLost
  <2>1. CASE ClientLeaves(q) \/ StatementFails(q)
    BY <1>1, <2>1 DEF ClientLeaves, StatementFails
  <2>2. CASE Ask(q) \/ Refuse(q) \/ StoreQuestion(q)
    <3>1. used' = used
      BY <2>2, Zenon DEF Ask, Admit, FindConversation, CountConversations, CreateConversation, Refuse,
                         StoreQuestion
    <3> QED  BY <3>1 DEF NothingLost
  <2>3. CASE Read(q)
    BY <2>3 DEF Read, ReadReferences, ReadDelta, ReadDone, ReadError, StreamEnds, StreamBreaks, Stop, NothingLost
  <2>4. CASE Answer(q) /\ ~Read(q)
    BY <2>4 DEF Answer, StoreReply, Open, UpdateReply, UpdateConversation, RecordDay, RecordMonth,
                SetTitle, SkipTitle, Orphaned, NothingLost
  <2> QED  BY <1>2, <2>1, <2>2, <2>3, <2>4 DEF CallStep
<1>3. CASE ServerCrash \/ NextMonth \/ \E c \in Convs : Rename(c) \/ Remove(c)
  BY <1>1, <1>3 DEF ServerCrash, NextMonth, Rename, Remove
<1> QED  BY <1>2, <1>3 DEF ChatNext, CallStep

\* A generator takes its documents from what can be found, and leaves an entry.
LEMMA ProduceForgets ==
  ASSUME CacheType, Forgetting, NEW q \in Calls, Produce(q)
  PROVE  Forgetting'
<1>0. gen \in [Calls -> Generators] /\ gen[q] \in Generators /\ Scope[q] \in Scopes
  BY DEF CacheType, Scopes
<1>1. CASE Hit(q)
  <2>1. gen'[q].pc = "end" /\ \A r \in Calls \ {q} : gen'[r] = gen[r]
    BY <1>0, <1>1 DEF Hit
  <2> QED  BY <1>1, <2>1 DEF Hit, Forgetting, library
<1>2. CASE Retrieve(q)
  <2> DEFINE found == {d \in live : KbOf[d] \in Scope[q]}
  <2>1. UNCHANGED <<cache, library, due, notices>>
    BY <1>2 DEF Retrieve
  <2>2. CASE gen' = [gen EXCEPT ![q].pc = "generate", ![q].docs = found]
    <3>1. gen'[q].docs = found /\ \A r \in Calls \ {q} : gen'[r] = gen[r]
      BY <1>0, <2>2 DEF Generators
    <3>2. \A d \in found : d \notin removed
      BY DEF Forgetting
    <3> QED  BY <2>1, <3>1, <3>2 DEF Forgetting, library
  <2>3. CASE Finish(q, "fallback")
    <3>1. gen'[q].pc = "end" /\ \A r \in Calls \ {q} : gen'[r] = gen[r]
      BY <1>0, <2>3 DEF Finish, Generators
    <3> QED  BY <2>1, <3>1 DEF Forgetting, library
  <2> QED  BY <1>2, <2>2, <2>3 DEF Retrieve
<1>3. CASE Generate(q)
  <2>1. /\ gen[q].pc = "generate" /\ gen'[q].docs = gen[q].docs /\ gen'[q].pc \in {"store", "end"}
        /\ \A r \in Calls \ {q} : gen'[r] = gen[r]
    BY <1>0, <1>3 DEF Generate, Finish, Generators
  <2> QED  BY <1>3, <2>1 DEF Generate, Forgetting, library
<1>4. CASE Store(q)
  <2>1. gen[q].pc = "store" /\ gen'[q].pc = "end" /\ \A r \in Calls \ {q} : gen'[r] = gen[r]
    BY <1>0, <1>4 DEF Store, Goes, Generators
  <2>2. /\ cache'[Scope[q]] = [docs |-> gen[q].docs, by |-> q]
        /\ \A S \in Scopes \ {Scope[q]} : cache'[S] = cache[S]
    BY <1>0, <1>4 DEF Store, CacheType
  <2>3. cache'[Scope[q]].docs = gen[q].docs
    BY <2>2
  <2> QED  BY <1>4, <2>1, <2>2, <2>3 DEF Store, Forgetting, library
<1>5. CASE Miss(q) \/ StoreFails(q) \/ GenerationFails(q) \/ Close(q)
  <2>1. gen'[q].pc \in {"retrieve", "end"} /\ \A r \in Calls \ {q} : gen'[r] = gen[r]
    BY <1>0, <1>5 DEF Miss, StoreFails, GenerationFails, Close, Goes, Finish, Generators
  <2>2. UNCHANGED <<cache, library, due, notices>>
    BY <1>5 DEF Miss, StoreFails, GenerationFails, Close
  <2> QED  BY <2>1, <2>2 DEF Forgetting, library
<1> QED  BY <1>1, <1>2, <1>3, <1>4, <1>5 DEF Produce

\* Everybody who is told forgets, unless answers are generated meanwhile.
LEMMA ChangeForgets ==
  ASSUME CacheType, WireType, ~Overtaken, NothingLost', Forgetting, Change
  PROVE  Forgetting'
<1>1. ASSUME NEW d \in Docs, RemoveDoc(d)
      PROVE  Forgetting'
  <2>1. /\ live' = live \ {d} /\ parsing' = parsing \ {d} /\ removed' = removed \cup {d}
        /\ due' = due \cup {KbOf[d]} /\ UNCHANGED <<gen, cache, notices>>
    BY <1>1 DEF RemoveDoc
  <2>2. removed' \cap (live' \cup parsing') = {}
    BY <2>1 DEF Forgetting
  <2> QED  BY <2>1, <2>2 DEF Forgetting
<1>2. ASSUME NEW d \in Docs,
             UploadOrReparse(d) \/ ClearChunks(d) \/ InsertChunks(d) \/ ParseFails(d)
      PROVE  Forgetting'
  <2>1. /\ live' \cup parsing' \subseteq live \cup parsing \cup {d} /\ removed' = removed
        /\ d \in removed => live' \cup parsing' \subseteq live \cup parsing
        /\ due \cup notices \subseteq due' \cup notices' /\ UNCHANGED <<gen, cache>>
    BY <1>2 DEF UploadOrReparse, ClearChunks, InsertChunks, ParseFails
  <2>2. removed' \cap (live' \cup parsing') = {}
    BY <2>1 DEF Forgetting
  <2> QED  BY <2>1, <2>2 DEF Forgetting
<1>3. ASSUME NEW k \in Kbs, Notify(k)
      PROVE  Forgetting'
  BY <1>3 DEF Notify, Forgetting, library
<1>4. ASSUME NEW k \in Kbs, NoticeLost(k)
      PROVE  FALSE
  BY <1>4, HappensLost DEF NoticeLost, Happenings
<1>5. ASSUME NEW k \in Kbs, Invalidate(k)
      PROVE  Forgetting'
  <2>1. /\ k \in notices /\ ~InFlight(k) /\ notices' = notices \ {k}
        /\ \A S \in Scopes : cache'[S] = IF k \in S THEN NoEntry ELSE cache[S]
        /\ UNCHANGED <<gen, library, due>>
    BY <1>5 DEF Invalidate
  <2>2. ASSUME NEW S \in Scopes, cache'[S] # NoEntry, NEW d \in cache'[S].docs
        PROVE  KbOf[d] \in S /\ (d \in removed' => KbOf[d] \in due' \cup notices')
    <3>1. k \notin S /\ cache'[S] = cache[S]
      BY <2>1, <2>2
    <3>2. KbOf[d] \in S /\ KbOf[d] # k /\ (d \in removed => KbOf[d] \in due \cup notices)
      BY <2>2, <3>1 DEF Forgetting
    <3> QED  BY <2>1, <3>2 DEF library
  <2>3. ASSUME NEW q \in Calls, gen'[q].pc \in {"generate", "store"}, NEW d \in gen'[q].docs
        PROVE  KbOf[d] \in Scope[q] /\ (d \in removed' => KbOf[d] \in due' \cup notices')
    <3>1. k \notin Scope[q]
      BY <2>1, <2>3 DEF InFlight
    <3>2. KbOf[d] \in Scope[q] /\ (d \in removed => KbOf[d] \in due \cup notices)
      BY <2>1, <2>3 DEF Forgetting
    <3> QED  BY <2>1, <3>1, <3>2 DEF library
  <2>4. removed' \cap (live' \cup parsing') = {}
    BY <2>1 DEF Forgetting, library
  <2> QED  BY <2>2, <2>3, <2>4 DEF Forgetting
<1> QED  BY <1>1, <1>2, <1>3, <1>4, <1>5 DEF Change

LEMMA NextForgets ==
  ASSUME TypeOK, ~Overtaken, NothingLost => Forgetting, [Next]_vars, NothingLost'
  PROVE  Forgetting'
<1>1. CASE ChatNext /\ UNCHANGED cacheVars
  <2>1. Forgetting
    BY <1>1, ChatLost DEF TypeOK
  <2> QED  BY <1>1, <2>1 DEF cacheVars, library, Forgetting
<1>2. ASSUME NEW q \in Calls, Produce(q)
      PROVE  Forgetting'
  <2>1. UNCHANGED used
    BY <1>2 DEF Produce, Hit, Miss, Retrieve, Generate, Store, StoreFails, GenerationFails, Close
  <2> QED  BY <1>2, <2>1, ProduceForgets DEF TypeOK, NothingLost
<1>3. CASE Outage
  <2>1. NothingLost
    BY <1>3, HappensLost DEF Outage, Happenings, TypeOK
  <2>2. \A q \in Calls : gen'[q] = gen[q] \/ gen'[q].pc = "end"
    BY <1>3 DEF Outage, TypeOK, CacheType, Generators
  <2> QED  BY <1>3, <2>1, <2>2 DEF Outage, library, Forgetting
<1>4. CASE Change
  <2>1. NothingLost
    <3>1. CASE UNCHANGED used
      BY <3>1 DEF NothingLost
    <3>2. CASE \E e \in {"change", "lost"} : Happens(e)
      BY <3>2, HappensLost DEF Happenings, TypeOK
    <3> QED  BY <1>4, <3>1, <3>2 DEF Change, UploadOrReparse, ClearChunks, InsertChunks, ParseFails,
                                     RemoveDoc, Notify, NoticeLost, Invalidate
  <2> QED  BY <1>4, <2>1, ChangeForgets DEF TypeOK
<1>5. ASSUME NEW S \in Scopes, Expire(S)
      PROVE  Forgetting'
  <2>1. /\ \A T \in Scopes : cache'[T] = NoEntry \/ cache'[T] = cache[T]
        /\ UNCHANGED <<gen, library, due, notices, used>>
    BY <1>5 DEF Expire, TypeOK, CacheType
  <2> QED  BY <2>1 DEF Forgetting, NothingLost, library
<1>6. CASE UNCHANGED vars
  BY <1>6 DEF vars, cacheVars, library, Forgetting, NothingLost
<1> QED  BY <1>1, <1>2, <1>3, <1>4, <1>5, <1>6 DEF Next, CacheNext

\* For any documents, knowledge bases and calls: once every invalidation has
\* arrived, none of them lost and none of them during an answer of its knowledge
\* bases, no cached answer rests on a removed document (answer_cache.py,
\* document.service.ts).
THEOREM RemovedIsForgotten ==
  ASSUME ~Overtaken
  PROVE  Spec => []RemovedForgotten
<1> DEFINE Inv == NothingLost => Forgetting
<1>1. Init => Inv
  BY DEF Init, CacheInit, Forgetting, Off
<1>2. TypeOK /\ Inv /\ [Next]_vars => Inv'
  BY NextForgets
<1>3. Inv => RemovedForgotten
  BY DEF Forgetting, RemovedForgotten, NothingLost
<1> QED  BY <1>1, <1>2, <1>3, TypeCorrect, PTL DEF Spec
-----------------------------------------------------------------------------
(* What is billed                                                           *)

Faultless == used["error"] = 0 /\ used["crash"] = 0

BeforeStream == {"none", "conversation", "create", "question", "reply", "open"}

\* What may be left to read of the response of a generator.
Ahead(ending) ==
  {<<"references", "delta", ending>>, <<"references", ending>>, <<"delta", ending>>, <<ending>>}
EndsIn(path, ending) ==
  \/ path = "model" /\ ending = "done"
  \/ path = "hit" /\ ending = "cached"
  \/ path = "fallback" /\ ending = "fallback"
  \/ path = "failed" /\ ending = "error"

Left(g, body) ==
  \/ g.pc \in {"off", "retrieve"} /\ body = <<>>
  \/ g.pc = "generate" /\ body \in {<<>>, <<"references">>}
  \/ g.pc \in {"store", "end"} /\ \E e \in Endings : EndsIn(g.path, e) /\ body \in Ahead(e)

\* An answer that is done costs what its generator did, and the reader of a
\* stream has all of it before him that he has not read.
Honest(q) ==
  /\ call[q].pc \in BeforeStream => wire[q].state = "none"
  /\ wire[q].state = "none" => gen[q] = Off
  /\ call[q].pc \in BeforeStream \cup {"stream"} => call[q].ending = "none"
  /\ call[q].pc = "stream" /\ ~call[q].gone =>
       /\ wire[q].state \in {"open", "closed"} /\ Left(gen[q], wire[q].body)
       /\ wire[q].state = "closed" => gen[q].pc = "end"
  /\ call[q].ending = "done" =>
       gen[q].pc \in {"store", "end"} /\ call[q].billable = (IF Generated(q) THEN 1 ELSE 0)
  /\ call[q].pc \in {"stats", "usage", "title"} => call[q].ending = "done"
  /\ call[q].month # Undated => call[q].pc \in {"usage", "title", "end"} /\ call[q].ending = "done"

\* Answers are dated in the order in which they are counted.
Dated(q) ==
  /\ call[q].month <= today
  /\ call[q].pc = "usage" => call[q].month = today
  /\ call[q].pc \in {"title", "end"} /\ call[q].month = today => usage.month = today

Billed(q) == q \in Recorded /\ Generated(q)
AllBilled == {q \in Calls : Billed(q)}
NowBilled == {q \in Calls : Billed(q) /\ call[q].month = usage.month}
ToBill == {q \in Calls : At(q, "usage") /\ Generated(q)}

Sums ==
  /\ usage.used = Cardinality(NowBilled)
  /\ daily.tokens = Cardinality(AllBilled) + Cardinality(ToBill)

BillInv == (\A q \in Calls : Honest(q) /\ Dated(q)) /\ usage.month <= today /\ Sums

LEMMA SumsMatch ==
  ASSUME Sums
  PROVE  BillsMatch
<1>1. /\ NowBilled = {q \in Recorded : Generated(q) /\ call[q].month = usage.month}
      /\ AllBilled = {q \in Recorded : Generated(q)}
  BY DEF NowBilled, AllBilled, Billed, Recorded
<1> QED  BY <1>1 DEF Sums, ToBill, BillsMatch

-----------------------------------------------------------------------------

\* What the reader finds.
LEMMA AheadRead ==
  ASSUME NEW e \in Endings, NEW b \in Ahead(e)
  PROVE  /\ b # <<>> /\ b \in Seq(SseEvents)
         /\ (Head(b) \in {"references", "delta"} /\ Tail(b) \in Ahead(e)) \/ Head(b) = e
<1>1. CASE b = <<"references", "delta", e>>
  <2>1. Head(b) = "references" /\ Tail(b) = <<"delta", e>> /\ b # <<>> /\ b \in Seq(SseEvents)
    BY <1>1 DEF SseEvents
  <2> QED  BY <2>1 DEF Ahead
<1>2. CASE b = <<"references", e>>
  <2>1. Head(b) = "references" /\ Tail(b) = <<e>> /\ b # <<>> /\ b \in Seq(SseEvents)
    BY <1>2 DEF SseEvents
  <2> QED  BY <2>1 DEF Ahead
<1>3. CASE b = <<"delta", e>>
  <2>1. Head(b) = "delta" /\ Tail(b) = <<e>> /\ b # <<>> /\ b \in Seq(SseEvents)
    BY <1>3 DEF SseEvents
  <2> QED  BY <2>1 DEF Ahead
<1>4. CASE b = <<e>>
  BY <1>4 DEF SseEvents
<1> QED  BY <1>1, <1>2, <1>3, <1>4 DEF Ahead

LEMMA LeftRead ==
  ASSUME NEW g, NEW b, Left(g, b)
  PROVE  /\ b = <<>> => g.pc # "end"
         /\ b # <<>> /\ Head(b) \in {"references", "delta"} => Left(g, Tail(b))
         /\ b # <<>> /\ Head(b) \in Endings \ {"error"} =>
              g.pc \in {"store", "end"} /\ (Head(b) = "done" <=> g.path = "model")
<1>1. CASE g.pc \in {"off", "retrieve"} /\ b = <<>>
  BY <1>1
<1>2. CASE g.pc = "generate" /\ b \in {<<>>, <<"references">>}
  <2>1. Tail(<<"references">>) = <<>> /\ Head(<<"references">>) = "references"
    OBVIOUS
  <2> QED  BY <1>2, <2>1 DEF Left, Endings
<1>3. ASSUME NEW e \in Endings, g.pc \in {"store", "end"}, EndsIn(g.path, e), b \in Ahead(e)
      PROVE  /\ b # <<>>
             /\ Head(b) \in {"references", "delta"} => Left(g, Tail(b))
             /\ Head(b) \in Endings => (Head(b) = "done" <=> g.path = "model")
  <2>1. b # <<>> /\ ((Head(b) \in {"references", "delta"} /\ Tail(b) \in Ahead(e)) \/ Head(b) = e)
    BY <1>3, AheadRead
  <2>2. "references" \notin Endings /\ "delta" \notin Endings
    BY DEF Endings
  <2>3. Tail(b) \in Ahead(e) => Left(g, Tail(b))
    BY <1>3 DEF Left
  <2>4. e \notin {"references", "delta"} /\ (e = "done" <=> g.path = "model")
    BY <1>3, <2>2 DEF EndsIn
  <2> QED  BY <2>1, <2>2, <2>3, <2>4
<1> QED  BY <1>1, <1>2, <1>3 DEF Left

\* What the generator adds.
LEMMA LeftMore ==
  ASSUME NEW g, NEW h
  PROVE  /\ \A e \in Endings : EndsIn(h.path, e) /\ h.pc \in {"store", "end"} =>
              /\ Left(h, <<e>>) /\ Left(h, <<"delta", e>>) /\ Left(h, <<"references", e>>)
              /\ Left(h, <<"references", "delta", e>>)
         /\ g.pc \in {"off", "retrieve"} => \A b : Left(g, b) => b = <<>>
         /\ g.pc = "generate" => \A b : Left(g, b) => b \in {<<>>, <<"references">>}
<1>1. \A e \in Endings : /\ <<e>> \in Ahead(e) /\ <<"delta", e>> \in Ahead(e) /\ <<"references", e>> \in Ahead(e)
                          /\ <<"references", "delta", e>> \in Ahead(e)
  BY DEF Ahead
<1> QED  BY <1>1 DEF Left

\* What is written is put behind what is left.
LEMMA LeftAppend ==
  ASSUME NEW g, NEW h, NEW b, NEW s \in Seq(SseEvents), Left(g, b), Left(h, s)
  PROVE  /\ g.pc \in {"off", "retrieve"} => Left(h, b \o s)
         /\ g.pc = "generate" /\ Left(h, <<"references">> \o s) => Left(h, b \o s)
<1>1. <<>> \o s = s
  OBVIOUS
<1>2. g.pc \in {"off", "retrieve"} => b = <<>>
  BY DEF Left
<1>3. g.pc = "generate" => b \in {<<>>, <<"references">>}
  BY DEF Left
<1> QED  BY <1>1, <1>2, <1>3

LEMMA Phrases ==
  /\ <<"references", "delta", "cached">> \in Seq(SseEvents)
  /\ <<"delta", "fallback">> \in Seq(SseEvents)
  /\ <<"delta", "done">> \in Seq(SseEvents)
  /\ <<"error">> \in Seq(SseEvents)
  /\ <<"references">> \in Seq(SseEvents)
  /\ <<>> \in Seq(SseEvents)
<1>1. {"references", "delta", "done", "cached", "fallback", "error"} \subseteq SseEvents
  BY DEF SseEvents, Endings
<1>2. /\ "references" \in SseEvents /\ "delta" \in SseEvents /\ "done" \in SseEvents
      /\ "cached" \in SseEvents /\ "fallback" \in SseEvents /\ "error" \in SseEvents
  BY <1>1
<1> QED  BY <1>2

LEMMA Joined ==
  /\ <<"references">> \o <<"delta", "done">> = <<"references", "delta", "done">>
  /\ <<"references">> \o <<"error">> = <<"references", "error">>
<1>1. ASSUME NEW s \in Seq(SseEvents), NEW t \in Seq(SseEvents), NEW u \in Seq(SseEvents),
             Len(u) = Len(s) + Len(t),
             \A i \in 1..Len(s) : u[i] = s[i], \A i \in 1..Len(t) : u[Len(s) + i] = t[i]
      PROVE  s \o t = u
  <2>1. s \o t \in Seq(SseEvents) /\ Len(s \o t) = Len(u)
    BY <1>1
  <2>2. ASSUME NEW i \in 1..Len(u)
        PROVE  (s \o t)[i] = u[i]
    <3>1. CASE i <= Len(s)
      BY <1>1, <3>1
    <3>2. CASE i > Len(s)
      <4> DEFINE k == i - Len(s)
      <4>1. k \in 1..Len(t) /\ i = Len(s) + k
        BY <1>1, <3>2
      <4>2. (s \o t)[i] = t[k]
        BY <3>2, <1>1
      <4> HIDE DEF k
      <4> QED  BY <1>1, <4>1, <4>2
    <3> QED  BY <1>1, <3>1, <3>2
  <2> QED  BY <2>1, <2>2, SeqEqual
<1>2. <<"references", "delta", "done">> \in Seq(SseEvents) /\ <<"references", "error">> \in Seq(SseEvents)
  BY DEF SseEvents, Endings
<1>3. <<"references">> \o <<"delta", "done">> = <<"references", "delta", "done">>
  <2> DEFINE s == <<"references">>
             t == <<"delta", "done">>
             u == <<"references", "delta", "done">>
  <2>1. Len(s) = 1 /\ Len(t) = 2 /\ Len(u) = 3 /\ u[1] = s[1] /\ u[2] = t[1] /\ u[3] = t[2]
    OBVIOUS
  <2>2. s \in Seq(SseEvents) /\ t \in Seq(SseEvents) /\ u \in Seq(SseEvents)
    BY <1>2, Phrases
  <2> HIDE DEF s, t, u
  <2>3. s \o t = u
    <3>1. /\ \A i \in 1..1 : i = 1
          /\ \A i \in 1..2 : i = 1 \/ i = 2
      OBVIOUS
    <3>2. /\ Len(u) = Len(s) + Len(t)
          /\ \A i \in 1..Len(s) : u[i] = s[i]
          /\ \A i \in 1..Len(t) : u[Len(s) + i] = t[i]
      BY <2>1, <3>1
    <3> QED  BY <1>1, <2>2, <3>2
  <2> QED  BY <2>3 DEF s, t, u
<1>4. <<"references">> \o <<"error">> = <<"references", "error">>
  <2> DEFINE s == <<"references">>
             t == <<"error">>
             u == <<"references", "error">>
  <2>1. Len(s) = 1 /\ Len(t) = 1 /\ Len(u) = 2 /\ u[1] = s[1] /\ u[2] = t[1]
    OBVIOUS
  <2>2. s \in Seq(SseEvents) /\ t \in Seq(SseEvents) /\ u \in Seq(SseEvents)
    BY <1>2, Phrases
  <2> HIDE DEF s, t, u
  <2>3. s \o t = u
    <3>1. \A i \in 1..1 : i = 1
      OBVIOUS
    <3>2. /\ Len(u) = Len(s) + Len(t)
          /\ \A i \in 1..Len(s) : u[i] = s[i]
          /\ \A i \in 1..Len(t) : u[Len(s) + i] = t[i]
      BY <2>1, <3>1
    <3> QED  BY <1>1, <2>2, <3>2
  <2> QED  BY <2>3 DEF s, t, u
<1> QED  BY <1>3, <1>4

\* The helpers that write.
LEMMA WriteFields ==
  ASSUME WireType, NEW q \in Calls, NEW events
  PROVE  /\ Write(q, events) =>
              /\ \A r \in Calls \ {q} : wire'[r] = wire[r]
              /\ wire'[q].state = wire[q].state
              /\ wire[q].state = "open" => wire'[q].body = wire[q].body \o events
         /\ WriteLast(q, events) =>
              /\ \A r \in Calls \ {q} : wire'[r] = wire[r]
              /\ wire'[q].state = IF wire[q].state = "open" THEN "closed" ELSE wire[q].state
              /\ wire[q].state = "open" => wire'[q].body = wire[q].body \o events
<1>1. wire[q] \in Wires /\ wire \in [Calls -> Wires]
  BY DEF WireType
<1> DEFINE body == wire[q].body \o events
<1>2. ASSUME wire[q].state = "open", wire' = [wire EXCEPT ![q].body = body]
      PROVE  wire'[q].state = wire[q].state /\ wire'[q].body = body /\ \A r \in Calls \ {q} : wire'[r] = wire[r]
  BY <1>1, <1>2 DEF Wires
<1>3. ASSUME wire[q].state = "open", wire' = [wire EXCEPT ![q].body = body, ![q].state = "closed"]
      PROVE  wire'[q].state = "closed" /\ wire'[q].body = body /\ \A r \in Calls \ {q} : wire'[r] = wire[r]
  <2>1. wire'[q] = [wire[q] EXCEPT !.body = body, !.state = "closed"]
    BY <1>1, <1>3
  <2> QED  BY <1>1, <1>3, <2>1 DEF Wires
<1>4. Write(q, events) => IF wire[q].state = "open" THEN wire' = [wire EXCEPT ![q].body = body] ELSE wire' = wire
  BY DEF Write
<1>5. WriteLast(q, events) =>
        IF wire[q].state = "open" THEN wire' = [wire EXCEPT ![q].body = body, ![q].state = "closed"] ELSE wire' = wire
  BY DEF WriteLast
<1> HIDE DEF body
<1> QED  BY <1>2, <1>3, <1>4, <1>5 DEF body

\* What a step of a generator does to it and to its response.
Produced(q) ==
  /\ \A r \in Calls \ {q} : gen'[r] = gen[r] /\ wire'[r] = wire[r]
  /\ wire[q].state # "none" /\ wire'[q].state # "none"
  /\ wire[q].state = "open" => wire'[q].state \in {"open", "closed"}
  /\ gen[q].pc \in {"store", "end"} => gen'[q].pc \in {"store", "end"} /\ gen'[q].path = gen[q].path
  /\ wire[q].state = "closed" => gen[q].pc # "end"
  /\ wire[q].state = "open" /\ Left(gen[q], wire[q].body) =>
       Left(gen'[q], wire'[q].body) /\ (wire'[q].state = "closed" => gen'[q].pc = "end")

LEMMA ProduceHonest ==
  ASSUME CacheType, WireType, NEW q \in Calls, Produce(q), wire[q].state = "none" => gen[q] = Off
  PROVE  Produced(q)
<1>0. /\ gen \in [Calls -> Generators] /\ gen[q] \in Generators /\ wire[q] \in Wires
      /\ wire[q].state # "none"
  BY DEF CacheType, WireType, Produce, Hit, Miss, Retrieve, Generate, Store, StoreFails, GenerationFails,
         Close, Off
<1>1. \A s \in Seq(SseEvents) : s \o <<>> = s
  OBVIOUS
<1>2. wire[q].body \in Seq(SseEvents)
  BY <1>0 DEF Wires
\* What is to be shown of a step that writes events, and one that ends.
<1> DEFINE Others == \A r \in Calls \ {q} : gen'[r] = gen[r]
<1>3. ASSUME NEW events, Others, wire[q].state \in {"open", "aborted"} \/ gen[q].pc # "end",
             Write(q, events) \/ (WriteLast(q, events) /\ gen'[q].pc = "end"),
             gen[q].pc \in {"store", "end"} =>
               gen[q].pc = "store" /\ gen'[q].pc \in {"store", "end"} /\ gen'[q].path = gen[q].path,
             Left(gen[q], wire[q].body) => Left(gen'[q], wire[q].body \o events)
      PROVE  Produced(q)
  <2>1. CASE Write(q, events)
    <3>1. /\ \A r \in Calls \ {q} : wire'[r] = wire[r]
          /\ wire'[q].state = wire[q].state
          /\ wire[q].state = "open" => wire'[q].body = wire[q].body \o events
      BY <2>1, WriteFields
    <3> QED  BY <1>0, <1>3, <3>1 DEF Produced
  <2>2. CASE WriteLast(q, events) /\ gen'[q].pc = "end"
    <3>1. /\ \A r \in Calls \ {q} : wire'[r] = wire[r]
          /\ wire'[q].state = IF wire[q].state = "open" THEN "closed" ELSE wire[q].state
          /\ wire[q].state = "open" => wire'[q].body = wire[q].body \o events
      BY <2>2, WriteFields
    <3> QED  BY <1>0, <1>3, <2>2, <3>1 DEF Produced
  <2> QED  BY <1>3, <2>1, <2>2
<1> USE DEF Others
<1>4. CASE Hit(q)
  <2>1. gen'[q].pc = "end" /\ gen'[q].path = "hit" /\ gen[q].pc = "off" /\ Others
    BY <1>0, <1>4 DEF Hit
  <2>2. WriteLast(q, <<"references", "delta", "cached">>)
    BY <1>4 DEF Hit
  <2>3. Left(gen'[q], <<"references", "delta", "cached">>)
    BY <2>1, LeftMore DEF EndsIn, Endings
  <2>4. Left(gen[q], wire[q].body) => Left(gen'[q], wire[q].body \o <<"references", "delta", "cached">>)
    BY <2>1, <2>3, LeftAppend, Phrases
  <2> QED  BY <1>3, <2>1, <2>2, <2>4
<1>5. CASE Miss(q)
  <2>1. gen'[q].pc = "retrieve" /\ gen[q].pc = "off" /\ Others /\ wire' = wire
    BY <1>0, <1>5 DEF Miss, Goes, Generators
  <2> QED  BY <1>0, <2>1 DEF Produced, Left
<1>6. CASE Retrieve(q)
  <2>0. gen[q].pc = "retrieve"
    BY <1>6 DEF Retrieve
  <2>1. CASE Finish(q, "fallback") /\ WriteLast(q, <<"delta", "fallback">>)
    <3>1. gen'[q].pc = "end" /\ gen'[q].path = "fallback" /\ Others
      BY <1>0, <2>1 DEF Finish, Generators
    <3>2. Left(gen'[q], <<"delta", "fallback">>)
      BY <3>1, LeftMore DEF EndsIn, Endings
    <3>3. Left(gen[q], wire[q].body) => Left(gen'[q], wire[q].body \o <<"delta", "fallback">>)
      BY <2>0, <3>2, LeftAppend, Phrases
    <3> QED  BY <1>3, <2>0, <2>1, <3>1, <3>3
  <2>2. CASE \E found \in SUBSET Docs :
               /\ gen' = [gen EXCEPT ![q].pc = "generate", ![q].docs = found]
               /\ Write(q, IF found = {} THEN <<>> ELSE <<"references">>)
    <3>1. gen'[q].pc = "generate" /\ Others
      BY <1>0, <2>2 DEF Generators
    <3>2. PICK events \in {<<>>, <<"references">>} : Write(q, events)
      BY <2>2
    <3>3. Left(gen[q], wire[q].body) => Left(gen'[q], wire[q].body \o events)
      <4>1. events \in Seq(SseEvents)
        BY Phrases
      <4>2. Left(gen'[q], events)
        BY <3>1 DEF Left
      <4> QED  BY <2>0, <4>1, <4>2, LeftAppend
    <3> QED  BY <1>3, <2>0, <3>1, <3>2, <3>3
  <2> QED  BY <1>6, <2>1, <2>2 DEF Retrieve, CacheType
<1>7. CASE Generate(q)
  <2>1. /\ gen[q].pc = "generate" /\ gen'[q].path = "model" /\ Others
        /\ \/ gen'[q].pc = "store" /\ Write(q, <<"delta", "done">>)
           \/ gen'[q].pc = "end" /\ WriteLast(q, <<"delta", "done">>)
    BY <1>0, <1>7 DEF Generate, Finish, Generators
  <2>2. Left(gen'[q], <<"delta", "done">>) /\ Left(gen'[q], <<"references", "delta", "done">>)
    BY <2>1, LeftMore DEF EndsIn, Endings
  <2>3. Left(gen[q], wire[q].body) => Left(gen'[q], wire[q].body \o <<"delta", "done">>)
    BY <2>1, <2>2, LeftAppend, Phrases, Joined
  <2> QED  BY <1>3, <2>1, <2>3
<1>8. CASE Store(q) \/ StoreFails(q)
  <2>1. /\ gen[q].pc = "store" /\ gen'[q].pc = "end" /\ gen'[q].path = gen[q].path /\ Others
    BY <1>0, <1>8 DEF Store, StoreFails, Goes, Generators
  <2>2. WriteLast(q, <<>>)
    BY <1>8 DEF Store, StoreFails
  <2>3. Left(gen[q], wire[q].body) => Left(gen'[q], wire[q].body \o <<>>)
    BY <1>1, <1>2, <2>1 DEF Left
  <2> QED  BY <1>3, <2>1, <2>2, <2>3
<1>9. CASE GenerationFails(q)
  <2>1. /\ gen'[q].pc = "end" /\ gen'[q].path = "failed" /\ Others
        /\ gen[q].pc \in {"off", "retrieve", "generate"} /\ WriteLast(q, <<"error">>)
    BY <1>0, <1>9 DEF GenerationFails, Finish, Generators
  <2>2. Left(gen'[q], <<"error">>) /\ Left(gen'[q], <<"references", "error">>)
    BY <2>1, LeftMore DEF EndsIn, Endings
  <2>3. Left(gen[q], wire[q].body) => Left(gen'[q], wire[q].body \o <<"error">>)
    BY <2>1, <2>2, LeftAppend, Phrases, Joined
  <2> QED  BY <1>3, <2>1, <2>3
<1>10. CASE Close(q)
  <2>1. /\ gen'[q].pc = "end" /\ gen'[q].path = gen[q].path /\ Others
        /\ wire[q].state = "aborted" /\ wire' = wire
    BY <1>0, <1>10 DEF Close, Goes, Generators
  <2> QED  BY <1>0, <2>1 DEF Produced
<1> QED  BY <1>4, <1>5, <1>6, <1>7, <1>8, <1>9, <1>10 DEF Produce

LEMMA ProduceBill ==
  ASSUME TypeOK, BillInv, NEW q \in Calls, Produce(q), UNCHANGED chatVars
  PROVE  BillInv'
<1>1. Produced(q)
  BY ProduceHonest DEF TypeOK, BillInv, Honest
<1>2. ASSUME NEW r \in Calls
      PROVE  /\ Honest(r)'
             /\ call[r].ending = "done" => (Generated(r)' <=> Generated(r))
  <2>1. Honest(r) /\ UNCHANGED chatVars
    BY DEF BillInv
  <2>2. CASE r # q
    <3>1. gen'[r] = gen[r] /\ wire'[r] = wire[r] /\ call'[r] = call[r]
      BY <1>1, <2>1, <2>2 DEF Produced, chatVars
    <3> QED  BY <2>1, <3>1 DEF Honest, Generated
  <2>3. CASE r = q
    BY <1>1, <2>1, <2>3 DEF Produced, Honest, Generated, chatVars
  <2> QED  BY <2>2, <2>3
<1>3. \A r \in Calls : Billed(r)' <=> Billed(r)
  <2>1. \A r \in Recorded : call[r].ending = "done" /\ r \in Calls
    BY DEF Recorded, BillInv, Honest
  <2> QED  BY <1>2, <2>1 DEF Billed, Recorded, chatVars
<1>4. AllBilled' = AllBilled /\ NowBilled' = NowBilled
  BY <1>3 DEF AllBilled, NowBilled, chatVars
<1>5. ToBill' = ToBill
  <2>1. \A r \in Calls : At(r, "usage") => call[r].ending = "done"
    BY DEF BillInv, Honest, At
  <2> QED  BY <1>2, <2>1 DEF ToBill, At, chatVars
<1> QED  BY <1>2, <1>4, <1>5 DEF BillInv, Sums, Dated, chatVars

-----------------------------------------------------------------------------

CleanStep(q) == Ask(q) \/ Refuse(q) \/ StoreQuestion(q) \/ Answer(q) \/ ClientLeaves(q)

\* What the helpers leave alone, and what reading does.
LEMMA GotoRow ==
  ASSUME ChatType, NEW q \in Calls, NEW p, Goto(q, p)
  PROVE  /\ call'[q].pc = p /\ call'[q].gone = call[q].gone /\ call'[q].ending = call[q].ending
         /\ call'[q].billable = call[q].billable /\ call'[q].month = call[q].month
  BY DEF Goto, ChatType, CallStates

LEMMA FinalizeRow ==
  ASSUME ChatType, NEW q \in Calls, NEW ending, NEW billable, Finalize(q, ending, billable)
  PROVE  /\ call'[q].pc = "message" /\ call'[q].gone = call[q].gone /\ call'[q].ending = ending
         /\ call'[q].billable = billable /\ call'[q].month = call[q].month
<1>1. call[q] \in CallStates /\ call \in [Calls -> CallStates]
  BY DEF ChatType
<1>2. call'[q] = [call[q] EXCEPT !.pc = "message", !.ending = ending, !.billable = billable]
  BY <1>1 DEF Finalize
<1> QED
  BY <1>1, <1>2 DEF CallStates

LEMMA ReadRow ==
  ASSUME WireType, NEW q \in Calls
  PROVE  /\ Consumed(q)[q].state = wire[q].state /\ Consumed(q)[q].body = Tail(wire[q].body)
         /\ Aborted(q)[q].state = "aborted"
         /\ \A r \in Calls \ {q} : Consumed(q)[r] = wire[r] /\ Aborted(q)[r] = wire[r]
<1>1. wire[q] \in Wires /\ wire \in [Calls -> Wires]
  BY DEF WireType
<1>2. /\ Consumed(q)[q] = [wire[q] EXCEPT !.body = Tail(wire[q].body)]
      /\ Aborted(q)[q] = [wire[q] EXCEPT !.state = "aborted", !.body = <<>>]
  BY <1>1 DEF Consumed, Aborted
<1> QED  BY <1>1, <1>2 DEF Wires, Consumed, Aborted

\* A step of a call on its way to the generator, or out of the door.
LEMMA EarlyHonest ==
  ASSUME ChatType, NEW q \in Calls, Honest(q), UNCHANGED <<gen, wire>>,
         Ask(q) \/ Refuse(q) \/ StoreQuestion(q) \/ StoreReply(q) \/ Orphaned(q)
  PROVE  Honest(q)'
<1>0. call \in [Calls -> CallStates] /\ call[q] \in CallStates
  BY DEF ChatType
<1>1. /\ call[q].pc \in BeforeStream
      /\ call'[q].pc \in BeforeStream \cup {"end"}
      /\ call'[q].ending = call[q].ending /\ call'[q].month = call[q].month
      /\ call'[q].billable = call[q].billable
  <2>1. CASE Admit(q) \/ CountConversations(q) \/ Refuse(q) \/ StoreReply(q) \/ Orphaned(q)
    BY <2>1, GotoRow DEF Admit, CountConversations, Refuse, StoreReply, Orphaned, At, BeforeStream
  <2>2. CASE FindConversation(q)
    <3>1. PICK c \in Convs :
            call' = [call EXCEPT ![q].pc = "question", ![q].conv = c,
                                 ![q].placeholder = conv[c].title = "placeholder"]
      BY <2>2, Zenon DEF FindConversation
    <3> DEFINE b == conv[c].title = "placeholder"
    <3>2. call'[q] = [call[q] EXCEPT !.pc = "question", !.conv = c, !.placeholder = b]
      BY <1>0, <3>1
    <3> HIDE DEF b
    <3> QED  BY <1>0, <2>2, <3>2 DEF FindConversation, CallStates, At, BeforeStream
  <2>3. CASE CreateConversation(q)
    <3>1. PICK c \in Convs :
            call' = [call EXCEPT ![q].pc = "question", ![q].conv = c, ![q].placeholder = TRUE]
      BY <2>3, Zenon DEF CreateConversation
    <3>2. call'[q] = [call[q] EXCEPT !.pc = "question", !.conv = c, !.placeholder = TRUE]
      BY <1>0, <3>1
    <3> QED  BY <1>0, <2>3, <3>2 DEF CreateConversation, CallStates, At, BeforeStream
  <2>4. CASE StoreQuestion(q)
    <3> DEFINE b == \A r \in Calls : ~(Home(r) = Home(q) /\ question[r])
    <3>1. call'[q] = [call[q] EXCEPT !.pc = "reply", !.first = b]
      BY <1>0, <2>4 DEF StoreQuestion
    <3> HIDE DEF b
    <3> QED  BY <1>0, <2>4, <3>1 DEF StoreQuestion, CallStates, At, BeforeStream
  <2> QED  BY <2>1, <2>2, <2>3, <2>4 DEF Ask
<1>2. call[q].ending = "none" /\ call[q].month = Undated
  BY <1>1 DEF Honest, BeforeStream
<1>3. gen'[q] = gen[q] /\ wire'[q] = wire[q] /\ call'[q].pc \notin {"stream", "stats", "usage", "title"}
  BY <1>1 DEF BeforeStream
<1>4. wire[q].state = "none" /\ gen[q] = Off
  BY <1>1 DEF Honest
<1> QED  BY <1>1, <1>2, <1>3, <1>4 DEF Honest

\* Opening the stream, reading from it and leaving it.
LEMMA StreamHonest ==
  ASSUME ChatType, CacheType, WireType, NEW q \in Calls, Honest(q), UNCHANGED gen,
         Open(q) \/ Read(q) \/ ClientLeaves(q)
  PROVE  Honest(q)'
<1>0. /\ call \in [Calls -> CallStates] /\ call[q] \in CallStates /\ wire \in [Calls -> Wires]
      /\ wire[q] \in Wires /\ gen' = gen
  BY DEF ChatType, WireType
<1>1. CASE Open(q)
  <2>1. /\ call[q].pc = "open" /\ call'[q].pc = "stream" /\ call'[q].ending = call[q].ending
        /\ call'[q].month = call[q].month
    BY <1>1, GotoRow DEF Open, At
  <2>2. wire'[q].state = "open" /\ wire'[q].body = <<>>
    BY <1>0, <1>1 DEF Open, Connect
  <2>3. gen[q] = Off /\ call[q].ending = "none" /\ call[q].month = Undated
    BY <2>1 DEF Honest, BeforeStream
  <2>4. Left(gen[q], <<>>)
    BY <2>3 DEF Left, Off
  <2> QED  BY <1>0, <2>1, <2>2, <2>3, <2>4 DEF Honest, BeforeStream
<1>2. ASSUME At(q, "stream")
      PROVE  call[q].ending = "none" /\ call[q].month = Undated /\ (~call[q].gone => wire[q].state # "none")
  BY <1>2 DEF Honest, At, BeforeStream
<1>3. CASE ClientLeaves(q)
  <2>1. call'[q] = [call[q] EXCEPT !.gone = TRUE] /\ wire'[q].state = "aborted" /\ At(q, "stream")
    BY <1>0, <1>3, ReadRow DEF ClientLeaves
  <2>2. /\ call'[q].gone = TRUE /\ call'[q].pc = "stream" /\ call'[q].ending = call[q].ending
        /\ call'[q].month = call[q].month
    BY <1>0, <2>1 DEF CallStates, At
  <2> QED  BY <1>0, <1>2, <2>1, <2>2 DEF Honest, BeforeStream
\* The loop is left without an answer.
<1>4. ASSUME NEW ending \in {"error", "stopped"}, Finalize(q, ending, 0), At(q, "stream"),
             wire'[q].state = "none" => gen[q] = Off
      PROVE  Honest(q)'
  <2>1. call'[q].pc = "message" /\ call'[q].ending = ending /\ call'[q].month = Undated
    BY <1>2, <1>4, FinalizeRow
  <2> QED  BY <1>0, <1>4, <2>1 DEF Honest, BeforeStream
<1>5. CASE (ReadReferences(q) /\ ~Kept(Home(q))) \/ ReadError(q) \/ StreamBreaks(q) \/ Stop(q)
  <2>1. wire'[q].state = "none" => gen[q] = Off
    BY <1>5, ReadRow DEF ReadReferences, ReadError, StreamBreaks, Stop, Honest
  <2> QED  BY <1>4, <1>5, <2>1 DEF ReadReferences, ReadError, StreamBreaks, Stop
<1>6. CASE (ReadReferences(q) /\ Kept(Home(q))) \/ ReadDelta(q)
  <2>1. /\ At(q, "stream") /\ ~call[q].gone /\ wire[q].body # <<>> /\ wire' = Consumed(q)
        /\ Head(wire[q].body) \in {"references", "delta"}
    BY <1>6 DEF ReadReferences, ReadDelta, Unread, Next1
  <2>2. /\ call'[q].pc = call[q].pc /\ call'[q].ending = call[q].ending /\ call'[q].month = call[q].month
        /\ call'[q].gone = call[q].gone
    <3>1. CASE ReadDelta(q)
      <4>1. call'[q] = [call[q] EXCEPT !.parts = 1]
        BY <1>0, <3>1 DEF ReadDelta
      <4> QED  BY <1>0, <4>1 DEF CallStates
    <3> QED  BY <1>6, <3>1 DEF ReadReferences
  <2>3. wire'[q].state = wire[q].state /\ wire'[q].body = Tail(wire[q].body)
    BY <2>1, ReadRow
  <2>4. Left(gen[q], wire[q].body)
    BY <2>1 DEF Honest, At
  <2>5. Left(gen[q], Tail(wire[q].body))
    BY <2>1, <2>4, LeftRead
  <2> QED  BY <1>0, <1>2, <2>1, <2>2, <2>3, <2>5 DEF Honest, BeforeStream, At
<1>7. CASE ReadDone(q)
  <2>1. /\ At(q, "stream") /\ ~call[q].gone /\ wire[q].body # <<>> /\ wire' = Consumed(q)
        /\ Head(wire[q].body) \in Endings \ {"error"}
        /\ Finalize(q, "done", IF Head(wire[q].body) = "done" THEN 1 ELSE 0)
    BY <1>7 DEF ReadDone, Unread, Next1
  <2>2. /\ call'[q].pc = "message" /\ call'[q].ending = "done" /\ call'[q].month = Undated
        /\ call'[q].billable = (IF Head(wire[q].body) = "done" THEN 1 ELSE 0)
    BY <1>2, <2>1, FinalizeRow
  <2>3. Left(gen[q], wire[q].body)
    BY <2>1 DEF Honest, At
  <2>4. gen[q].pc \in {"store", "end"} /\ (Head(wire[q].body) = "done" <=> gen[q].path = "model")
    BY <2>1, <2>3, LeftRead
  <2>5. wire'[q].state = wire[q].state
    BY <2>1, ReadRow
  <2> QED  BY <1>0, <2>1, <2>2, <2>4, <2>5 DEF Honest, BeforeStream, At, Generated
<1>8. CASE StreamEnds(q)
  <2>1. /\ At(q, "stream") /\ ~call[q].gone /\ wire[q].body = <<>> /\ wire[q].state = "closed"
    BY <1>8 DEF StreamEnds, Unread
  <2>2. Left(gen[q], wire[q].body) /\ gen[q].pc = "end"
    BY <2>1 DEF Honest, At
  <2> QED  BY <2>1, <2>2, LeftRead
<1> QED  BY <1>1, <1>3, <1>5, <1>6, <1>7, <1>8 DEF Read

\* finalize and what follows it.
LEMMA LateHonest ==
  ASSUME ChatType, NEW q \in Calls, Honest(q), UNCHANGED <<gen, wire>>,
         UpdateReply(q) \/ UpdateConversation(q) \/ RecordDay(q) \/ RecordMonth(q) \/ SetTitle(q) \/ SkipTitle(q)
  PROVE  Honest(q)'
<1>0. /\ call \in [Calls -> CallStates] /\ call[q] \in CallStates /\ gen' = gen /\ wire' = wire
  BY DEF ChatType
<1>1. CASE RecordDay(q)
  <2>1. call'[q] = [call[q] EXCEPT !.pc = "usage", !.month = today] /\ call[q].pc = "stats"
    BY <1>0, <1>1 DEF RecordDay, At
  <2>2. /\ call'[q].pc = "usage" /\ call'[q].ending = call[q].ending /\ call'[q].billable = call[q].billable
    BY <1>0, <2>1 DEF CallStates
  <2> QED  BY <1>0, <2>1, <2>2 DEF Honest, BeforeStream, Generated
<1>2. CASE UpdateReply(q) \/ UpdateConversation(q) \/ RecordMonth(q) \/ SetTitle(q) \/ SkipTitle(q)
  <2>1. /\ call'[q].ending = call[q].ending /\ call'[q].billable = call[q].billable
        /\ call'[q].month = call[q].month
    BY <1>2, GotoRow DEF UpdateReply, UpdateConversation, RecordMonth, SetTitle, SkipTitle
  <2>2. /\ call[q].pc \in {"message", "tally", "usage", "title"}
        /\ \/ call'[q].pc = "end"
           \/ call'[q].pc = "title" /\ call[q].pc = "usage"
           \/ call'[q].pc = "tally"
           \/ call'[q].pc = "stats" /\ call[q].ending = "done"
        /\ call'[q].pc \in {"tally", "stats"} => call[q].pc \in {"message", "tally"}
    BY <1>2, GotoRow DEF UpdateReply, UpdateConversation, RecordMonth, SetTitle, SkipTitle, At
  <2> QED  BY <1>0, <2>1, <2>2 DEF Honest, BeforeStream, Generated
<1> QED  BY <1>1, <1>2

LEMMA CallHonest ==
  ASSUME ChatType, CacheType, WireType, NEW q \in Calls, Honest(q), CleanStep(q), UNCHANGED gen
  PROVE  Honest(q)'
<1>1. CASE Ask(q) \/ Refuse(q) \/ StoreQuestion(q) \/ StoreReply(q) \/ Orphaned(q)
  <2>1. wire' = wire
    <3>1. CASE Ask(q)
      BY <3>1, Zenon DEF Ask, Admit, FindConversation, CountConversations, CreateConversation
    <3>2. CASE Refuse(q) \/ StoreQuestion(q) \/ StoreReply(q) \/ Orphaned(q)
      BY <3>2, Zenon DEF Refuse, StoreQuestion, StoreReply, Orphaned
    <3> QED  BY <1>1, <3>1, <3>2
  <2> QED  BY <1>1, <2>1, EarlyHonest
<1>2. CASE Open(q) \/ Read(q) \/ ClientLeaves(q)
  BY <1>2, StreamHonest
<1>3. CASE UpdateReply(q) \/ UpdateConversation(q) \/ RecordDay(q) \/ RecordMonth(q) \/ SetTitle(q) \/ SkipTitle(q)
  <2>1. wire' = wire
    BY <1>3 DEF UpdateReply, UpdateConversation, RecordDay, RecordMonth, SetTitle, SkipTitle
  <2> QED  BY <1>3, <2>1, LateHonest
<1> QED  BY <1>1, <1>2, <1>3 DEF CleanStep, Answer

LEMMA OtherRows ==
  ASSUME ChatType, WireType, NEW q \in Calls, CleanStep(q), UNCHANGED gen, NEW r \in Calls, r # q, Honest(r)
  PROVE  call'[r] = call[r] /\ gen'[r] = gen[r] /\ Honest(r)'
<1>1. call'[r] = call[r] /\ gen'[r] = gen[r]
  BY OtherCalls DEF CleanStep, CallStep
<1>2. wire'[r] = wire[r]
  <2>1. CASE Open(q) \/ Read(q) \/ ClientLeaves(q)
    <3>1. CASE Open(q)
      BY <3>1 DEF Open, Connect, WireType
    <3>2. CASE ClientLeaves(q)
      BY <3>2, ReadRow DEF ClientLeaves
    <3>3. CASE Read(q)
      <4>1. wire' \in {wire, Consumed(q), Aborted(q)}
        BY <3>3 DEF Read, ReadReferences, ReadDelta, ReadDone, ReadError, StreamEnds, StreamBreaks, Stop
      <4> QED  BY <4>1, ReadRow
    <3> QED  BY <2>1, <3>1, <3>2, <3>3
  <2>2. CASE Ask(q)
    BY <2>2, Zenon DEF Ask, Admit, FindConversation, CountConversations, CreateConversation
  <2>3. CASE Refuse(q) \/ StoreQuestion(q) \/ StoreReply(q) \/ Orphaned(q)
    BY <2>3, Zenon DEF Refuse, StoreQuestion, StoreReply, Orphaned
  <2>4. CASE UpdateReply(q) \/ UpdateConversation(q) \/ RecordDay(q) \/ RecordMonth(q) \/ SetTitle(q)
               \/ SkipTitle(q)
    BY <2>4 DEF UpdateReply, UpdateConversation, RecordDay, RecordMonth, SetTitle, SkipTitle
  <2> QED  BY <2>1, <2>2, <2>3, <2>4 DEF CleanStep, Answer
<1> QED  BY <1>1, <1>2 DEF Honest, Generated

\* A step that counts nothing: neither a day nor a month.
LEMMA QuietRow ==
  ASSUME ChatType, WireType, NEW q \in Calls, Honest(q), CleanStep(q), ~RecordDay(q), ~RecordMonth(q)
  PROVE  /\ call'[q].month = call[q].month /\ ~At(q, "usage") /\ ~At(q, "usage")'
         /\ call[q].month # Undated => call[q].pc = "title" /\ call'[q].pc = "end"
         /\ UNCHANGED <<usage, daily, today>>
<1>0. /\ call \in [Calls -> CallStates] /\ call[q] \in CallStates
      /\ UNCHANGED <<usage, daily, today>>
  BY CallFrame DEF ChatType, CleanStep, CallStep
<1>1. CASE Ask(q) \/ StoreQuestion(q)
  <2>1. CASE Admit(q) \/ CountConversations(q)
    BY <1>0, <2>1, GotoRow DEF Admit, CountConversations, At, Honest
  <2>2. CASE FindConversation(q)
    <3>1. PICK c \in Convs :
            call' = [call EXCEPT ![q].pc = "question", ![q].conv = c,
                                 ![q].placeholder = conv[c].title = "placeholder"]
      BY <2>2, Zenon DEF FindConversation
    <3> DEFINE b == conv[c].title = "placeholder"
    <3>2. call'[q] = [call[q] EXCEPT !.pc = "question", !.conv = c, !.placeholder = b]
      BY <1>0, <3>1
    <3> HIDE DEF b
    <3> QED  BY <1>0, <2>2, <3>2 DEF FindConversation, CallStates, At, Honest
  <2>3. CASE CreateConversation(q)
    <3>1. PICK c \in Convs :
            call' = [call EXCEPT ![q].pc = "question", ![q].conv = c, ![q].placeholder = TRUE]
      BY <2>3, Zenon DEF CreateConversation
    <3>2. call'[q] = [call[q] EXCEPT !.pc = "question", !.conv = c, !.placeholder = TRUE]
      BY <1>0, <3>1
    <3> QED  BY <1>0, <2>3, <3>2 DEF CreateConversation, CallStates, At, Honest
  <2>4. CASE StoreQuestion(q)
    <3> DEFINE b == \A r \in Calls : ~(Home(r) = Home(q) /\ question[r])
    <3>1. call'[q] = [call[q] EXCEPT !.pc = "reply", !.first = b]
      BY <1>0, <2>4 DEF StoreQuestion
    <3> HIDE DEF b
    <3> QED  BY <1>0, <2>4, <3>1 DEF StoreQuestion, CallStates, At, Honest
  <2> QED  BY <1>1, <2>1, <2>2, <2>3, <2>4 DEF Ask
<1>2. CASE Refuse(q) \/ StoreReply(q) \/ Orphaned(q) \/ Open(q) \/ UpdateReply(q) \/ UpdateConversation(q)
             \/ SetTitle(q) \/ SkipTitle(q)
  BY <1>0, <1>2, GotoRow
     DEF Refuse, StoreReply, Orphaned, Open, UpdateReply, UpdateConversation, SetTitle, SkipTitle, At, Honest
<1>3. CASE Read(q) \/ ClientLeaves(q)
  <2>1. CASE ReadDelta(q) \/ ClientLeaves(q)
    <3>1. call'[q].month = call[q].month /\ call'[q].pc = call[q].pc /\ call[q].pc = "stream"
      <4>1. CASE ReadDelta(q)
        <5>1. call'[q] = [call[q] EXCEPT !.parts = 1]
          BY <1>0, <4>1 DEF ReadDelta
        <5> QED  BY <1>0, <4>1, <5>1 DEF CallStates, ReadDelta, At
      <4>2. CASE ClientLeaves(q)
        <5>1. call'[q] = [call[q] EXCEPT !.gone = TRUE]
          BY <1>0, <4>2 DEF ClientLeaves
        <5> QED  BY <1>0, <4>2, <5>1 DEF CallStates, ClientLeaves, At
      <4> QED  BY <2>1, <4>1, <4>2
    <3> QED  BY <1>0, <3>1 DEF Honest, At
  <2>2. CASE ReadReferences(q) \/ ReadDone(q) \/ ReadError(q) \/ StreamEnds(q) \/ StreamBreaks(q) \/ Stop(q)
    BY <1>0, <2>2, FinalizeRow
       DEF ReadReferences, ReadDone, ReadError, StreamEnds, StreamBreaks, Stop, At, Honest
  <2> QED  BY <1>3, <2>1, <2>2 DEF Read
<1> QED  BY <1>1, <1>2, <1>3 DEF CleanStep, Answer

\* What is dated is counted, and in order.
LEMMA CallDated ==
  ASSUME ChatType, WireType, BillInv, NEW q \in Calls, CleanStep(q), UNCHANGED gen
  PROVE  (\A r \in Calls : Dated(r)') /\ usage'.month <= today'
<1>0. /\ call \in [Calls -> CallStates] /\ call[q] \in CallStates
      /\ today \in 0..LastMonth /\ today' = today /\ usage.month <= today
      /\ \A r \in Calls : Honest(r) /\ Dated(r)
      /\ \A r \in Calls \ {q} : call'[r] = call[r]
  BY CallFrame, OtherRows DEF ChatType, BillInv, CleanStep, CallStep
<1>1. ASSUME NEW r \in Calls
      PROVE  call[r].month \in Months /\ today # Undated
  BY <1>0 DEF ChatType, CallStates, Undated
<1>2. CASE RecordDay(q)
  <2>1. call'[q] = [call[q] EXCEPT !.pc = "usage", !.month = today] /\ usage' = usage
    BY <1>0, <1>2 DEF RecordDay
  <2>2. call'[q].pc = "usage" /\ call'[q].month = today
    BY <1>0, <2>1 DEF CallStates
  <2>3. today <= today
    BY <1>0
  <2> QED  BY <1>0, <2>1, <2>2, <2>3 DEF Dated
<1>3. CASE RecordMonth(q)
  <2>1. call'[q].month = call[q].month /\ call'[q].pc \in {"title", "end"}
    BY <1>3, GotoRow DEF RecordMonth
  <2>2. call[q].pc = "usage" /\ usage'.month = call[q].month
    BY <1>3 DEF RecordMonth, At
  <2>3. call[q].month = today
    BY <1>0, <2>2 DEF Dated
  <2>4. today <= today
    BY <1>0
  <2> QED  BY <1>0, <2>1, <2>2, <2>3, <2>4 DEF Dated
<1>4. CASE ~RecordDay(q) /\ ~RecordMonth(q)
  <2>1. /\ call'[q].month = call[q].month /\ ~At(q, "usage")'
        /\ call[q].month # Undated => call[q].pc = "title" /\ call'[q].pc = "end"
        /\ usage' = usage
    BY <1>0, <1>4, QuietRow
  <2> QED  BY <1>0, <1>1, <2>1 DEF Dated, At
<1> QED  BY <1>2, <1>3, <1>4

\* The counters follow what is counted.
LEMMA CallSums ==
  ASSUME ChatType, WireType, BillInv, NEW q \in Calls, CleanStep(q), UNCHANGED gen, IsFiniteSet(Calls)
  PROVE  Sums'
<1>0. /\ call \in [Calls -> CallStates] /\ call[q] \in CallStates
      /\ \A r \in Calls : Honest(r) /\ Dated(r)
      /\ \A r \in Calls \ {q} : call'[r] = call[r]
      /\ gen' = gen /\ usage.used \in Nat /\ daily.tokens \in Nat
  BY OtherRows DEF ChatType, BillInv
<1>1. /\ IsFiniteSet(AllBilled) /\ IsFiniteSet(NowBilled) /\ IsFiniteSet(ToBill)
      /\ Cardinality(AllBilled) \in Nat /\ Cardinality(NowBilled) \in Nat /\ Cardinality(ToBill) \in Nat
  <2>1. AllBilled \in SUBSET Calls /\ NowBilled \in SUBSET Calls /\ ToBill \in SUBSET Calls
    BY DEF AllBilled, NowBilled, ToBill
  <2> QED  BY <2>1, FS_Subset, FS_CardinalityType
<1>2. /\ usage.used = Cardinality(NowBilled)
      /\ daily.tokens = Cardinality(AllBilled) + Cardinality(ToBill)
  BY DEF BillInv, Sums
<1>3. \A r \in Calls : Generated(r)' <=> Generated(r)
  BY <1>0 DEF Generated
<1>4. \A r \in Calls \ {q} : (Billed(r)' <=> Billed(r)) /\ (At(r, "usage")' <=> At(r, "usage"))
  BY <1>0, <1>3 DEF Billed, Recorded, At
<1>5. CASE RecordDay(q)
  <2>1. /\ call'[q] = [call[q] EXCEPT !.pc = "usage", !.month = today] /\ call[q].pc = "stats"
        /\ daily'.tokens = daily.tokens + call[q].billable /\ usage' = usage
    BY <1>0, <1>5 DEF RecordDay, At
  <2>2. call'[q].pc = "usage"
    BY <1>0, <2>1 DEF CallStates
  <2>3. call[q].billable = (IF Generated(q) THEN 1 ELSE 0)
    BY <1>0, <2>1 DEF Honest
  <2>4. ~Billed(q) /\ ~Billed(q)' /\ ~At(q, "usage") /\ At(q, "usage")'
    BY <2>1, <2>2 DEF Billed, Recorded, At
  <2>5. AllBilled' = AllBilled
    BY <1>4, <2>4 DEF AllBilled
  <2>6. NowBilled' = NowBilled
    BY <1>0, <1>4, <2>1, <2>4 DEF NowBilled
  <2>7. ToBill' = IF Generated(q) THEN ToBill \cup {q} ELSE ToBill
    BY <1>3, <1>4, <2>4 DEF ToBill
  <2>8. q \notin ToBill
    BY <2>4 DEF ToBill
  <2>9. Cardinality(ToBill') = Cardinality(ToBill) + call[q].billable
    <3>1. CASE Generated(q)
      BY <1>1, <2>3, <2>7, <2>8, <3>1, FS_AddElement
    <3>2. CASE ~Generated(q)
      BY <1>1, <2>3, <2>7, <3>2
    <3> QED  BY <3>1, <3>2
  <2>10. call[q].billable \in Nat
    BY <2>3
  <2>11. daily'.tokens = Cardinality(AllBilled') + Cardinality(ToBill')
    BY <1>0, <1>1, <1>2, <2>1, <2>5, <2>9, <2>10
  <2>12. usage'.used = Cardinality(NowBilled')
    BY <1>2, <2>1, <2>6
  <2> QED  BY <2>11, <2>12 DEF Sums
<1>6. CASE RecordMonth(q)
  <2>1. /\ call'[q].month = call[q].month /\ call'[q].pc \in {"title", "end"}
        /\ daily' = daily /\ call[q].pc = "usage" /\ usage'.month = call[q].month
        /\ usage'.used = (IF usage.month = call[q].month THEN usage.used ELSE 0) + call[q].billable
    BY <1>6, GotoRow DEF RecordMonth, At
  <2>2. call[q].month = today /\ call[q].ending = "done" /\ today # Undated
    BY <1>0, <2>1 DEF Dated, Honest, ChatType, Undated
  <2>3. call[q].billable = (IF Generated(q) THEN 1 ELSE 0)
    BY <1>0, <2>2 DEF Honest
  <2>4. ~Billed(q) /\ (Billed(q)' <=> Generated(q)) /\ At(q, "usage") /\ ~At(q, "usage")'
    BY <1>3, <2>1, <2>2 DEF Billed, Recorded, At
  <2>5. AllBilled' = IF Generated(q) THEN AllBilled \cup {q} ELSE AllBilled
    BY <1>4, <2>4 DEF AllBilled
  <2>6. ToBill' = IF Generated(q) THEN ToBill \ {q} ELSE ToBill
    BY <1>3, <1>4, <2>4 DEF ToBill
  <2>7. q \notin AllBilled /\ q \notin NowBilled /\ (Generated(q) => q \in ToBill)
    BY <2>4 DEF AllBilled, NowBilled, ToBill
  <2>8. Cardinality(AllBilled') + Cardinality(ToBill') = Cardinality(AllBilled) + Cardinality(ToBill)
    <3>1. CASE Generated(q)
      <4>1. Cardinality(AllBilled') = Cardinality(AllBilled) + 1
        BY <1>1, <2>5, <2>7, <3>1, FS_AddElement
      <4>2. Cardinality(ToBill') = Cardinality(ToBill) - 1
        BY <1>1, <2>6, <2>7, <3>1, FS_RemoveElement
      <4> QED  BY <1>1, <4>1, <4>2
    <3>2. CASE ~Generated(q)
      BY <2>5, <2>6, <3>2
    <3> QED  BY <3>1, <3>2
  <2>9. Cardinality(NowBilled') = usage'.used
    <3>1. CASE usage.month = today
      <4>1. NowBilled' = IF Generated(q) THEN NowBilled \cup {q} ELSE NowBilled
        BY <1>0, <1>4, <2>1, <2>2, <2>4, <3>1 DEF NowBilled
      <4>2. usage'.used = Cardinality(NowBilled) + call[q].billable
        BY <1>2, <2>1, <2>2, <3>1
      <4>3. CASE Generated(q)
        BY <1>1, <2>3, <2>7, <4>1, <4>2, <4>3, FS_AddElement
      <4>4. CASE ~Generated(q)
        BY <1>1, <2>3, <4>1, <4>2, <4>4
      <4> QED  BY <4>3, <4>4
    <3>2. CASE usage.month # today
      <4>1. \A r \in Calls \ {q} : Billed(r) => call[r].month # today
        BY <1>0, <3>2 DEF Billed, Recorded, Dated
      <4>2. NowBilled' = IF Generated(q) THEN {q} ELSE {}
        BY <1>0, <1>4, <2>1, <2>2, <2>4, <4>1 DEF NowBilled
      <4>3. usage'.used = 0 + call[q].billable
        BY <2>1, <2>2, <3>2
      <4>4. CASE Generated(q)
        BY <2>3, <4>2, <4>3, <4>4, FS_Singleton
      <4>5. CASE ~Generated(q)
        BY <2>3, <4>2, <4>3, <4>5, FS_EmptySet
      <4> QED  BY <4>4, <4>5
    <3> QED  BY <3>1, <3>2
  <2> QED  BY <1>2, <2>1, <2>8, <2>9 DEF Sums
<1>7. CASE ~RecordDay(q) /\ ~RecordMonth(q)
  <2>1. /\ call'[q].month = call[q].month /\ ~At(q, "usage") /\ ~At(q, "usage")'
        /\ call[q].month # Undated => call[q].pc = "title" /\ call'[q].pc = "end"
        /\ usage' = usage /\ daily' = daily
    BY <1>0, <1>7, QuietRow
  <2>2. Billed(q)' <=> Billed(q)
    BY <1>3, <2>1 DEF Billed, Recorded
  <2>3. AllBilled' = AllBilled
    BY <1>4, <2>2 DEF AllBilled
  <2>4. NowBilled' = NowBilled
    BY <1>0, <1>4, <2>1, <2>2 DEF NowBilled
  <2>5. ToBill' = ToBill
    BY <1>3, <1>4, <2>1 DEF ToBill
  <2> QED  BY <1>2, <2>1, <2>3, <2>4, <2>5 DEF Sums
<1> QED  BY <1>5, <1>6, <1>7

\* What changes neither a call nor its generator.
LEMMA StillBill ==
  ASSUME BillInv, UNCHANGED <<call, gen, wire, usage, daily, today>>
  PROVE  BillInv'
<1>1. /\ call' = call /\ gen' = gen /\ wire' = wire /\ usage' = usage /\ daily' = daily /\ today' = today
  OBVIOUS
<1>2. \A r \in Calls : Honest(r)' /\ Dated(r)' /\ (Billed(r)' <=> Billed(r))
  BY <1>1 DEF BillInv, Honest, Dated, Generated, Billed, Recorded
<1>3. AllBilled' = AllBilled
  BY <1>2 DEF AllBilled
<1>4. NowBilled' = NowBilled
  BY <1>1, <1>2 DEF NowBilled
<1>5. ToBill' = ToBill
  BY <1>1 DEF ToBill, At, Generated
<1> QED  BY <1>1, <1>2, <1>3, <1>4, <1>5 DEF BillInv, Sums

\* A month passes while no answer waits for its second statement.
LEMMA MonthBill ==
  ASSUME ChatType, BillInv, ~Straddle, NextMonth, UNCHANGED gen
  PROVE  BillInv'
<1>1. /\ call' = call /\ gen' = gen /\ wire' = wire /\ usage' = usage /\ daily' = daily /\ today' = today + 1
      /\ \A r \in Calls : ~At(r, "usage")
  BY DEF NextMonth
<1>2. today \in Nat /\ usage.month \in Int /\ \A r \in Calls : call[r].month \in Int
  BY DEF ChatType, CallStates, Months, Undated
<1>3. ASSUME NEW r \in Calls
      PROVE  Dated(r)'
  <2>1. call[r].month <= today
    BY DEF BillInv, Dated
  <2>2. call[r].month <= today + 1 /\ call[r].month # today + 1
    BY <1>2, <2>1
  <2> QED  BY <1>1, <2>2 DEF Dated, At
<1>4. usage'.month <= today'
  BY <1>1, <1>2 DEF BillInv
<1>5. \A r \in Calls : Honest(r)' /\ (Billed(r)' <=> Billed(r))
  BY <1>1 DEF BillInv, Honest, Generated, Billed, Recorded
<1>6. AllBilled' = AllBilled
  BY <1>5 DEF AllBilled
<1>7. NowBilled' = NowBilled
  BY <1>1, <1>5 DEF NowBilled
<1>8. ToBill' = ToBill
  BY <1>1 DEF ToBill, At, Generated
<1> QED  BY <1>1, <1>3, <1>4, <1>5, <1>6, <1>7, <1>8 DEF BillInv, Sums

-----------------------------------------------------------------------------

\* Once a statement has failed or a process has died, it stays so.
LEMMA HappensFault ==
  ASSUME WireType, NEW e \in Happenings, Happens(e)
  PROVE  Faultless' => Faultless /\ e \notin {"error", "crash"}
<1>1. used \in [Happenings -> Nat] /\ used' = [used EXCEPT ![e] = @ + 1] /\ used[e] \in Nat
  BY DEF Happens, WireType
<1>2. "error" \in Happenings /\ "crash" \in Happenings
  BY DEF Happenings
<1> QED  BY <1>1, <1>2 DEF Faultless

LEMMA NextFault ==
  ASSUME WireType, Next, Faultless'
  PROVE  /\ Faultless /\ ~ServerCrash /\ ~Outage /\ \A q \in Calls : ~StatementFails(q)
<1>1. \A e \in Happenings : Happens(e) => Faultless /\ e \notin {"error", "crash"}
  BY HappensFault
<1>2. /\ "error" \in Happenings /\ "crash" \in Happenings /\ "leave" \in Happenings /\ "rename" \in Happenings
      /\ "remove" \in Happenings /\ "month" \in Happenings /\ "change" \in Happenings /\ "lost" \in Happenings
  BY DEF Happenings
<1>3. ~ServerCrash /\ ~Outage /\ \A q \in Calls : ~StatementFails(q)
  BY <1>1, <1>2 DEF ServerCrash, Outage, StatementFails
<1>4. used' = used \/ \E e \in Happenings : Happens(e)
  <2>1. ASSUME NEW q \in Calls, CleanStep(q)
        PROVE  used' = used \/ \E e \in Happenings : Happens(e)
    <3>1. CASE ClientLeaves(q)
      BY <1>2, <3>1 DEF ClientLeaves
    <3>2. CASE Ask(q) \/ Refuse(q) \/ StoreQuestion(q)
      BY <3>2, Zenon DEF Ask, Admit, FindConversation, CountConversations, CreateConversation, Refuse,
                         StoreQuestion
    <3>3. CASE Read(q)
      BY <3>3 DEF Read, ReadReferences, ReadDelta, ReadDone, ReadError, StreamEnds, StreamBreaks, Stop
    <3>4. CASE Answer(q) /\ ~Read(q)
      BY <3>4 DEF Answer, StoreReply, Open, UpdateReply, UpdateConversation, RecordDay, RecordMonth,
                  SetTitle, SkipTitle, Orphaned
    <3> QED  BY <2>1, <3>1, <3>2, <3>3, <3>4 DEF CleanStep
  <2>2. CASE NextMonth \/ \E c \in Convs : Rename(c) \/ Remove(c)
    BY <1>2, <2>2 DEF NextMonth, Rename, Remove
  <2>3. ASSUME NEW q \in Calls, Produce(q)
        PROVE  used' = used
    BY <2>3 DEF Produce, Hit, Miss, Retrieve, Generate, Store, StoreFails, GenerationFails, Close
  <2>4. CASE Change \/ \E S \in Scopes : Expire(S)
    BY <1>2, <2>4 DEF Change, UploadOrReparse, ClearChunks, InsertChunks, ParseFails, RemoveDoc, Notify,
                      NoticeLost, Invalidate, Expire
  <2> QED  BY <1>3, <2>1, <2>2, <2>3, <2>4 DEF Next, ChatNext, CacheNext, CleanStep
<1> QED  BY <1>1, <1>3, <1>4 DEF Faultless

LEMMA NextBill ==
  ASSUME TypeOK, IsFiniteSet(Calls), ~Straddle, Faultless => BillInv, [Next]_vars, Faultless'
  PROVE  BillInv'
<1>1. CASE UNCHANGED vars
  <2>1. UNCHANGED <<call, gen, wire, usage, daily, today, used>>
    BY <1>1 DEF vars, chatVars, cacheVars
  <2> QED  BY <2>1, StillBill DEF Faultless
<1>2. CASE Next
  <2>1. Faultless /\ ~ServerCrash /\ ~Outage /\ \A q \in Calls : ~StatementFails(q)
    BY <1>2, NextFault DEF TypeOK
  <2>2. BillInv /\ ChatType /\ CacheType /\ WireType
    BY <2>1 DEF TypeOK
  <2>3. ASSUME NEW q \in Calls, CleanStep(q), UNCHANGED cacheVars
        PROVE  BillInv'
    <3>1. gen' = gen
      BY <2>3 DEF cacheVars
    <3>2. Honest(q)'
      BY <2>2, <2>3, <3>1, CallHonest DEF BillInv
    <3>3. \A r \in Calls \ {q} : Honest(r)'
      BY <2>2, <2>3, <3>1, OtherRows DEF BillInv
    <3> QED  BY <2>2, <2>3, <3>1, <3>2, <3>3, CallDated, CallSums DEF BillInv
  <2>4. ASSUME NEW c \in Convs, Rename(c) \/ Remove(c), UNCHANGED cacheVars
        PROVE  BillInv'
    BY <2>2, <2>4, StillBill DEF Rename, Remove, cacheVars
  <2>5. CASE NextMonth /\ UNCHANGED cacheVars
    BY <2>2, <2>5, MonthBill DEF cacheVars
  <2>6. ASSUME NEW q \in Calls, Produce(q), UNCHANGED chatVars
        PROVE  BillInv'
    BY <2>2, <2>6, ProduceBill
  <2>7. ASSUME Change \/ \E S \in Scopes : Expire(S), UNCHANGED chatVars
        PROVE  BillInv'
    <3>1. gen' = gen /\ wire' = wire
      BY <2>7 DEF Change, UploadOrReparse, ClearChunks, InsertChunks, ParseFails, RemoveDoc, Notify,
                  NoticeLost, Invalidate, Expire
    <3> QED  BY <2>2, <2>7, <3>1, StillBill DEF chatVars
  <2> QED  BY <1>2, <2>1, <2>3, <2>4, <2>5, <2>6, <2>7 DEF Next, ChatNext, CacheNext, CleanStep
<1> QED  BY <1>1, <1>2

LEMMA InitBill ==
  ASSUME Init
  PROVE  BillInv
<1>1. \A q \in Calls : /\ call[q] = NewCall /\ gen[q] = Off /\ wire[q] = NoWire
  BY DEF Init, ChatInit, CacheInit, WireInit
<1>2. usage.month = 0 /\ usage.used = 0 /\ daily.tokens = 0 /\ today = 0
  BY DEF Init, ChatInit
<1>3. \A q \in Calls : Honest(q)
  BY <1>1 DEF Honest, NewCall, Off, NoWire, BeforeStream
<1>4. \A q \in Calls : Dated(q)
  BY <1>1, <1>2 DEF Dated, NewCall, Undated
<1>5. AllBilled = {} /\ NowBilled = {} /\ ToBill = {}
  BY <1>1 DEF AllBilled, NowBilled, ToBill, Billed, Recorded, At, NewCall
<1> QED  BY <1>2, <1>3, <1>4, <1>5, FS_EmptySet DEF BillInv, Sums

\* For any number of calls, of any conversations, that end in any order, and any
\* number of months: as long as no statement fails and no process dies, the
\* usage of the month is what the model generated for readers who received it,
\* and the statistics of the days agree (chat.service.ts, recordDailyStats and
\* recordMonthlyUsage).  A month that ends between the two statements is left out.
THEOREM BillsAlwaysMatch ==
  ASSUME IsFiniteSet(Calls), ~Straddle
  PROVE  Spec => []BillsMatch
<1> DEFINE Inv == Faultless => BillInv
<1>1. Init => Inv
  BY InitBill
<1>2. TypeOK /\ Inv /\ [Next]_vars => Inv'
  BY NextBill
<1>3. TypeOK /\ Inv => BillsMatch
  <2>1. TypeOK /\ used["error"] + used["crash"] = 0 => Faultless
    <3>1. TypeOK => used["error"] \in Nat /\ used["crash"] \in Nat
      BY DEF TypeOK, WireType, Happenings
    <3> QED  BY <3>1 DEF Faultless
  <2>2. BillInv => BillsMatch
    BY SumsMatch DEF BillInv
  <2> QED  BY <2>1, <2>2 DEF BillsMatch
<1> QED  BY <1>1, <1>2, <1>3, TypeCorrect, PTL DEF Spec
=============================================================================
