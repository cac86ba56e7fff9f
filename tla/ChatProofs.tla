----------------------------- MODULE ChatProofs -----------------------------
(***************************************************************************)
(* Theorems about ChatTab, for any number of conversations, answers and    *)
(* changes of conversation.                                                *)
(***************************************************************************)
EXTENDS ChatTab, SequenceTheorems, TLAPS

Turns == [conv : Conv, q : Question, by : Question, text : SUBSET Question, status : Status]
Streams == [pc : {"idle", "create", "sent", "open", "mute", "late", "closed"},
            kind : {"send", "regenerate"}, conv : Page, q : Question,
            idx : Nat, there : BOOLEAN, names : BOOLEAN, quiet : BOOLEAN,
            post : {"none", "rename", "list", "suggest"}, for : Page]
Convs == [is : {"new", "here", "gone"}, turns : Seq(Question \X Question), title : Title]
Slips == {"double", "crossed", "late", "overtaken", "unloaded"}

ViewOK == /\ view \in [cur : Page, list : Seq(Turns), streaming : BOOLEAN,
                       controller : Question, followups : Question]
          /\ view.controller # 0 => view.streaming
RestOK == loading \in SUBSET Conv /\ slips \subseteq Slips /\ switches \in 0 .. MaxSwitches
StreamsOK == stream \in [Stream -> Streams]
ConvsOK == conv \in [Conv -> Convs]

\* An answer whose question has been sent, and what a turn may name.
Used(s) == stream[s].pc \notin {"idle", "create"}
Named(s) == s = 0 \/ (s \in Stream /\ Used(s))

\* The list and the conversations hold only answers that were asked for.
Asked ==
  /\ \A i \in DOMAIN view.list :
       /\ Named(view.list[i].by)
       /\ \A s \in view.list[i].text \ {view.list[i].by} : s \in Stream /\ Used(s)
  /\ \A c \in Conv : \A i \in DOMAIN conv[c].turns : Named(conv[c].turns[i][2])

\* The turn of an answer, in the list it was asked in, is where the answer looks
\* for it, and runs no longer than the answer.
Own ==
  \A i \in DOMAIN view.list : \A s \in {view.list[i].by} \ {0} :
    stream[s].there => i = stream[s].idx /\ (view.list[i].status = "streaming" => Waited(s))

\* An answer that runs finds its turn.
Mine ==
  Calm => \A s \in Stream : Open(s) /\ stream[s].there =>
            stream[s].idx \in DOMAIN view.list /\ view.list[stream[s].idx].by = s

\* The list is that of the conversation selected, or will be.
Fits ==
  {"overtaken", "unloaded", "crossed"} \intersect slips = {} =>
    view.cur \in loading \/ \A i \in DOMAIN view.list : view.list[i].conv = view.cur

Core == Asked /\ Own /\ Mine /\ OneStream /\ Fits /\ OwnText

LEMMA TypeParts == TypeOK <=> ViewOK /\ RestOK /\ StreamsOK /\ ConvsOK
  BY DEF TypeOK, ViewOK, RestOK, StreamsOK, ConvsOK, Turns, Streams, Convs, Slips

-----------------------------------------------------------------------------
(* What the actions do to the list                                          *)

LEMMA Bounds ==
  /\ MaxConvs \in Nat /\ MaxStreams \in Nat /\ MaxSwitches \in Nat
  /\ Stream = {s \in Question : s # 0} /\ 0 \in Question /\ None \in Page /\ Conv \subseteq Page
  /\ None \notin Conv
  BY ChatTabAssumption DEF Stream, Question, Page, None, Conv

LEMMA AppliedKeeps ==
  ASSUME ViewOK, NEW s \in Stream, NEW t, Reaches(s) => t \in Turns, NEW l, l = Applied(s, t)
  PROVE  /\ l \in Seq(Turns) /\ DOMAIN l = DOMAIN view.list
         /\ \A i \in DOMAIN l : l[i] = IF Reaches(s) /\ i = stream[s].idx THEN t ELSE view.list[i]
<1>1. view.list \in Seq(Turns) /\ DOMAIN view.list = 1 .. Len(view.list)
  BY DEF ViewOK
<1>2. CASE Reaches(s)
  <2>1. stream[s].idx \in 1 .. Len(view.list) /\ t \in Turns /\ l = [view.list EXCEPT ![stream[s].idx] = t]
    BY <1>2 DEF Reaches, Applied
  <2>2. /\ l \in Seq(Turns) /\ Len(l) = Len(view.list)
        /\ \A i \in 1 .. Len(view.list) : l[i] = IF i = stream[s].idx THEN t ELSE view.list[i]
    BY <1>1, <2>1, ExceptSeq
  <2>3. DOMAIN l = 1 .. Len(view.list)
    BY <2>2
  <2> QED  BY <1>1, <1>2, <2>2, <2>3
<1>3. CASE ~Reaches(s)
  BY <1>1, <1>3 DEF Applied
<1> QED  BY <1>2, <1>3

LEMMA AppendKeeps ==
  ASSUME ViewOK, NEW t \in Turns, NEW l, l = Append(view.list, t)
  PROVE  /\ l \in Seq(Turns) /\ DOMAIN l = DOMAIN view.list \union {Len(view.list) + 1}
         /\ Len(view.list) \in Nat /\ Len(view.list) + 1 \notin DOMAIN view.list
         /\ l[Len(view.list) + 1] = t /\ \A i \in DOMAIN view.list : l[i] = view.list[i]
<1>1. view.list \in Seq(Turns) /\ DOMAIN view.list = 1 .. Len(view.list) /\ Len(view.list) \in Nat
  BY DEF ViewOK
<1>2. l \in Seq(Turns) /\ Len(l) = Len(view.list) + 1 /\ DOMAIN l = 1 .. Len(l)
  BY <1>1, AppendProperties
<1>3. l[Len(view.list) + 1] = t /\ \A i \in DOMAIN view.list : l[i] = view.list[i]
  BY <1>1, AppendProperties
<1> QED  BY <1>1, <1>2, <1>3

\* The target of an answer, if it is reached, is a turn.
LEMMA TargetType ==
  ASSUME ViewOK, NEW s \in Stream, Reaches(s)
  PROVE  Target(s) \in Turns /\ stream[s].idx \in DOMAIN view.list
<1>1. view.list \in Seq(Turns) /\ DOMAIN view.list = 1 .. Len(view.list)
  BY DEF ViewOK
<1> QED  BY <1>1, ElementOfSeq DEF Reaches, Target

-----------------------------------------------------------------------------
(* Type correctness                                                         *)

LEMMA PutKeeps ==
  ASSUME StreamsOK, NEW s \in Stream, NEW r \in Streams, Put(s, r)
  PROVE  StreamsOK' /\ stream'[s] = r /\ \A t \in Stream : t # s => stream'[t] = stream[t]
  BY DEF StreamsOK, Put

LEMMA ReplacedKeeps ==
  ASSUME StreamsOK, stream' = Replaced
  PROVE  /\ StreamsOK'
         /\ \A s \in Stream : /\ stream'[s].pc = stream[s].pc /\ stream'[s].idx = stream[s].idx
                              /\ stream'[s].there = (stream[s].pc \in {"idle", "create"})
<1>1. ASSUME NEW s \in Stream
      PROVE  /\ stream'[s] \in Streams
             /\ stream'[s].pc = stream[s].pc /\ stream'[s].idx = stream[s].idx
             /\ stream'[s].there = (stream[s].pc \in {"idle", "create"})
  <2>1. stream[s] \in Streams
    BY DEF StreamsOK
  <2>2. stream'[s] = [stream[s] EXCEPT !.there = stream[s].pc \in {"idle", "create"}]
    BY DEF Replaced
  <2>3. (stream[s].pc \in {"idle", "create"}) \in BOOLEAN
    OBVIOUS
  <2>4. [stream[s] EXCEPT !.there = stream[s].pc \in {"idle", "create"}] \in Streams
    BY <2>1, <2>3 DEF Streams
  <2>5. /\ stream'[s].pc = stream[s].pc /\ stream'[s].idx = stream[s].idx
        /\ stream'[s].there = (stream[s].pc \in {"idle", "create"})
    BY <2>1, <2>2 DEF Streams
  <2> QED  BY <2>2, <2>4, <2>5
<1>2. stream' = [s \in Stream |-> stream'[s]]
  BY DEF Replaced
<1> QED  BY <1>1, <1>2 DEF StreamsOK

LEMMA BlankKeeps ==
  ASSUME ViewOK, view' = Blank(view)
  PROVE  /\ ViewOK' /\ view'.list = <<>> /\ view'.cur = None
         /\ view'.streaming = view.streaming /\ view'.controller = view.controller
<1>1. <<>> \in Seq(Turns)
  OBVIOUS
<1>2. /\ view'.list = <<>> /\ view'.cur = None
      /\ view'.streaming = view.streaming /\ view'.controller = view.controller
  BY DEF ViewOK, Blank
<1>3. view' \in [cur : Page, list : Seq(Turns), streaming : BOOLEAN,
                 controller : Question, followups : Question]
  BY <1>1, Bounds DEF ViewOK, Blank
<1> QED  BY <1>2, <1>3 DEF ViewOK

\* A question is sent.
LEMMA BeginKeeps ==
  ASSUME ViewOK, StreamsOK, NEW s \in Stream, NEW c \in Conv, Begin(s, c, view)
  PROVE  /\ ViewOK' /\ StreamsOK'
         /\ view'.cur = c /\ view'.streaming /\ view'.controller = s
         /\ view'.list = Append(view.list, Turn(c, s, s, {}, "streaming"))
         /\ Turn(c, s, s, {}, "streaming") \in Turns
         /\ stream'[s].pc = "sent" /\ stream'[s].there /\ stream'[s].idx = Len(view.list) + 1
         /\ \A t \in Stream : t # s => stream'[t] = stream[t]
<1> DEFINE l == Append(view.list, Turn(c, s, s, {}, "streaming"))
           r == [NoStream EXCEPT !.pc = "sent", !.conv = c, !.q = s, !.idx = Len(view.list) + 1]
<1>0. {} \in SUBSET Question /\ s \in Question /\ "streaming" \in Status
  BY Bounds DEF Status
<1>1. Turn(c, s, s, {}, "streaming") \in Turns
  BY <1>0 DEF Turn, Turns
<1>2. l \in Seq(Turns) /\ Len(view.list) + 1 \in Nat
  <2> DEFINE t == Turn(c, s, s, {}, "streaming")
  <2> HIDE DEF t
  <2>1. t \in Turns
    BY <1>1 DEF t
  <2>2. Append(view.list, t) \in Seq(Turns) /\ Len(view.list) \in Nat
    BY <2>1, AppendKeeps
  <2> QED  BY <2>2 DEF t
<1>3. r \in Streams /\ r.pc = "sent" /\ r.there /\ r.idx = Len(view.list) + 1
  BY <1>2, Bounds DEF NoStream, Streams
<1>4. view' = [view EXCEPT !.cur = c, !.list = l, !.streaming = TRUE, !.controller = s, !.followups = 0] /\ Put(s, r)
  BY DEF Begin, ViewOK
<1> HIDE DEF l, r
<1>5. StreamsOK' /\ stream'[s] = r /\ \A t \in Stream : t # s => stream'[t] = stream[t]
  BY <1>3, <1>4, PutKeeps
<1>6. /\ view' \in [cur : Page, list : Seq(Turns), streaming : BOOLEAN,
                    controller : Question, followups : Question]
      /\ view'.cur = c /\ view'.streaming /\ view'.controller = s /\ view'.list = l
  BY <1>2, <1>4, Bounds DEF ViewOK
<1> QED  BY <1>1, <1>3, <1>5, <1>6 DEF ViewOK, l

\* A turn is asked again.
LEMMA RegenerateKeeps ==
  ASSUME ViewOK, StreamsOK, NEW s \in Stream, NEW i \in DOMAIN view.list, Regenerate(s, i)
  PROVE  /\ ViewOK' /\ StreamsOK'
         /\ view'.cur = view.cur /\ view'.streaming /\ view'.controller = s
         /\ DOMAIN view'.list = DOMAIN view.list
         /\ \A j \in DOMAIN view.list : j # i => view'.list[j] = view.list[j]
         /\ view'.list[i].by = s /\ view'.list[i].text = {}
         /\ view'.list[i].conv = view.list[i].conv
         /\ stream'[s].pc = "sent" /\ stream'[s].there /\ stream'[s].idx = i
         /\ \A t \in Stream : t # s => stream'[t] = stream[t]
<1> DEFINE t == [view.list[i] EXCEPT !.by = s, !.text = {}, !.status = "streaming"]
           l == [view.list EXCEPT ![i] = t]
           r == [NoStream EXCEPT !.pc = "sent", !.kind = "regenerate", !.conv = view.cur,
                                 !.q = view.list[i].q, !.idx = i]
<1>1. /\ view.list \in Seq(Turns) /\ DOMAIN view.list = 1 .. Len(view.list)
      /\ i \in Nat /\ view.list[i] \in Turns /\ view.cur \in Page
  BY ElementOfSeq DEF ViewOK
<1>2. t \in Turns /\ t.by = s /\ t.text = {} /\ t.conv = view.list[i].conv
  BY <1>1, Bounds DEF Turns, Status
<1>3. r \in Streams /\ r.pc = "sent" /\ r.there /\ r.idx = i
  BY <1>1, Bounds DEF NoStream, Streams, Turns
<1>4. /\ view' = [view EXCEPT !.list = l, !.streaming = TRUE, !.controller = s, !.followups = 0]
      /\ Put(s, r)
  BY <1>1 DEF Regenerate, ViewOK
<1> HIDE DEF t, r
<1>5. /\ l \in Seq(Turns) /\ DOMAIN l = DOMAIN view.list
      /\ \A j \in DOMAIN view.list : l[j] = IF j = i THEN t ELSE view.list[j]
  BY <1>1, <1>2, ExceptSeq
<1> HIDE DEF l
<1>6. StreamsOK' /\ stream'[s] = r /\ \A u \in Stream : u # s => stream'[u] = stream[u]
  BY <1>3, <1>4, PutKeeps
<1>7. /\ view' \in [cur : Page, list : Seq(Turns), streaming : BOOLEAN,
                    controller : Question, followups : Question]
      /\ view'.cur = view.cur /\ view'.streaming /\ view'.controller = s /\ view'.list = l
  BY <1>4, <1>5, Bounds DEF ViewOK
<1> QED  BY <1>2, <1>3, <1>5, <1>6, <1>7 DEF ViewOK

\* Something of an answer reaches the list.
LEMMA PieceKeeps ==
  ASSUME ViewOK, NEW s \in Stream, Piece(s)
  PROVE  /\ ViewOK' /\ view'.cur = view.cur /\ view'.streaming = view.streaming
         /\ view'.controller = view.controller /\ DOMAIN view'.list = DOMAIN view.list
         /\ \A i \in DOMAIN view.list :
              /\ view'.list[i].by = view.list[i].by /\ view'.list[i].conv = view.list[i].conv
              /\ view'.list[i].status = view.list[i].status
              /\ view'.list[i].text \subseteq view.list[i].text \union {s}
              /\ i # stream[s].idx => view'.list[i].text = view.list[i].text
<1> DEFINE t == [Target(s) EXCEPT !.text = @ \union {s}]
<1>1. Reaches(s) => t \in Turns /\ t.by = Target(s).by /\ t.conv = Target(s).conv
                    /\ t.status = Target(s).status /\ t.text = Target(s).text \union {s}
  BY TargetType, Bounds DEF Turns
<1>2. view' = [view EXCEPT !.list = Applied(s, t)]
  BY DEF Piece
<1> HIDE DEF t
<1> PICK l : l = Applied(s, t)
  OBVIOUS
<1>3. /\ l \in Seq(Turns) /\ DOMAIN l = DOMAIN view.list
      /\ \A i \in DOMAIN l : l[i] = IF Reaches(s) /\ i = stream[s].idx THEN t ELSE view.list[i]
  BY <1>1, AppliedKeeps
<1>4. /\ ViewOK' /\ view'.cur = view.cur /\ view'.streaming = view.streaming
      /\ view'.controller = view.controller /\ view'.list = l
  BY <1>2, <1>3 DEF ViewOK
<1> QED  BY <1>1, <1>3, <1>4 DEF Target

\* What the end of the answer s does to the page.
Ended(s) ==
  /\ ViewOK' /\ StreamsOK'
  /\ view'.cur = view.cur /\ ~view'.streaming /\ DOMAIN view'.list = DOMAIN view.list
  /\ \A i \in DOMAIN view.list :
       /\ view'.list[i].by = view.list[i].by /\ view'.list[i].conv = view.list[i].conv
       /\ view'.list[i].text \subseteq view.list[i].text
       /\ IF Reaches(s) /\ i = stream[s].idx THEN view'.list[i].status # "streaming"
          ELSE view'.list[i].status = view.list[i].status
  /\ stream'[s].pc \in {"late", "closed"}
  /\ stream'[s].there = stream[s].there /\ stream'[s].idx = stream[s].idx
  /\ \A t \in Stream : t # s => stream'[t] = stream[t]

LEMMA EndKeeps ==
  ASSUME ViewOK, StreamsOK, NEW s \in Stream, NEW v, NEW f \in Question,
         v = [Release(view) EXCEPT !.followups = f],
         NEW status \in Status, status # "streaming", NEW text,
         Reaches(s) => text \subseteq Target(s).text,
         view' = [v EXCEPT !.list = Applied(s, [Target(s) EXCEPT !.status = status, !.text = text])],
         NEW r \in Streams, r.pc \in {"late", "closed"}, r.there = stream[s].there, r.idx = stream[s].idx,
         Put(s, r)
  PROVE  Ended(s)
<1> DEFINE t == [Target(s) EXCEPT !.status = status, !.text = text]
<1>1. Reaches(s) => /\ t \in Turns /\ t.by = Target(s).by /\ t.conv = Target(s).conv
                    /\ t.status = status /\ t.text = text
  BY TargetType DEF Turns
<1> HIDE DEF t
<1> PICK l : l = Applied(s, t)
  OBVIOUS
<1>2. /\ l \in Seq(Turns) /\ DOMAIN l = DOMAIN view.list
      /\ \A i \in DOMAIN l : l[i] = IF Reaches(s) /\ i = stream[s].idx THEN t ELSE view.list[i]
  BY <1>1, AppliedKeeps
<1>3. StreamsOK' /\ stream'[s] = r /\ \A u \in Stream : u # s => stream'[u] = stream[u]
  BY PutKeeps
<1>4. view' = [v EXCEPT !.list = l]
  BY DEF t
<1>7. v \in [cur : Page, list : Seq(Turns), streaming : BOOLEAN,
             controller : Question, followups : Question]
      /\ v.cur = view.cur /\ v.streaming = FALSE /\ v.controller = 0
  BY Bounds DEF ViewOK, Release
<1>5. /\ view' \in [cur : Page, list : Seq(Turns), streaming : BOOLEAN,
                    controller : Question, followups : Question]
      /\ view'.cur = view.cur /\ view'.list = l /\ view'.streaming = FALSE /\ view'.controller = 0
  BY <1>2, <1>4, <1>7
<1>6. \A i \in DOMAIN view.list :
        /\ view'.list[i].by = view.list[i].by /\ view'.list[i].conv = view.list[i].conv
        /\ view'.list[i].text \subseteq view.list[i].text
        /\ IF Reaches(s) /\ i = stream[s].idx THEN view'.list[i].status # "streaming"
           ELSE view'.list[i].status = view.list[i].status
  BY SMTT(30), <1>1, <1>2, <1>5 DEF Target
<1> QED  BY <1>2, <1>3, <1>5, <1>6 DEF Ended, ViewOK

LEMMA OnDoneKeeps ==
  ASSUME ViewOK, StreamsOK, NEW s \in Stream, NEW v,
         v = view \/ v = [Release(view) EXCEPT !.followups = 0],
         NEW aborted \in BOOLEAN, OnDone(s, v, aborted)
  PROVE  Ended(s)
<1> DEFINE status == IF aborted THEN "stopped" ELSE "done"
           post == AfterDone(s, aborted)
           r == [stream[s] EXCEPT !.pc = IF aborted THEN "closed" ELSE "late",
                              !.quiet = aborted /\ post # "none", !.post = post,
                              !.for = IF post \in {"rename", "suggest"} THEN v.cur ELSE None]
           w == Release(v)
<1>1. v.cur = view.cur /\ \E f \in Question : w = [Release(view) EXCEPT !.followups = f]
  <2>1. CASE v = view
    <3>1. w = [Release(view) EXCEPT !.followups = view.followups]
      BY <2>1 DEF ViewOK, Release
    <3> QED  BY <2>1, <3>1 DEF ViewOK
  <2>2. CASE v = [Release(view) EXCEPT !.followups = 0]
    <3>1. w = [Release(view) EXCEPT !.followups = 0]
      BY <2>2 DEF ViewOK, Release
    <3> QED  BY <2>2, <3>1, Bounds DEF ViewOK, Release
  <2> QED  BY <2>1, <2>2
<1>2. post \in {"none", "rename", "list", "suggest"} /\ stream[s] \in Streams /\ view.cur \in Page
  BY DEF AfterDone, StreamsOK, ViewOK
<1>3. /\ r \in Streams /\ r.pc \in {"late", "closed"}
      /\ r.there = stream[s].there /\ r.idx = stream[s].idx
  BY <1>1, <1>2, Bounds DEF Streams
<1>4. Put(s, r) /\ view' = [w EXCEPT !.list = Applied(s, [Target(s) EXCEPT !.status = status])]
  BY DEF OnDone
<1>5. Reaches(s) => [Target(s) EXCEPT !.status = status] = [Target(s) EXCEPT !.status = status, !.text = Target(s).text]
  BY TargetType DEF Turns
<1>6. Applied(s, [Target(s) EXCEPT !.status = status]) =
        Applied(s, [Target(s) EXCEPT !.status = status, !.text = Target(s).text])
  BY <1>5 DEF Applied
<1>7. status \in Status /\ status # "streaming"
  BY DEF Status
<1> HIDE DEF status, r, w
<1> QED  BY <1>1, <1>3, <1>4, <1>6, <1>7, EndKeeps

LEMMA DoneKeeps ==
  ASSUME ViewOK, StreamsOK, NEW s \in Stream, Done(s)
  PROVE  Ended(s)
  BY OnDoneKeeps DEF Done

LEMMA FailKeeps ==
  ASSUME ViewOK, StreamsOK, NEW s \in Stream, Fail(s)
  PROVE  Ended(s)
<1> DEFINE r == [stream[s] EXCEPT !.pc = "closed", !.names = FALSE]
           w == [Release(view) EXCEPT !.followups = 0]
<1>1. /\ r \in Streams /\ r.pc \in {"late", "closed"}
      /\ r.there = stream[s].there /\ r.idx = stream[s].idx
  BY ZenonT(40) DEF StreamsOK, Streams
<1>2. 0 \in Question /\ w = [Release(view) EXCEPT !.followups = 0]
  BY Bounds
<1>3. /\ Put(s, r)
      /\ view' = [w EXCEPT !.list = Applied(s, [Target(s) EXCEPT !.status = "error", !.text = {}])]
  BY DEF Fail, Release, ViewOK
<1>4. "error" \in Status /\ "error" # "streaming" /\ (Reaches(s) => {} \subseteq Target(s).text)
  BY DEF Status
<1> HIDE DEF r, w
<1> QED  BY <1>1, <1>2, <1>3, <1>4, EndKeeps

\* The button that stops an answer: it ends the one that locks the page, or only
\* unlocks it.
LEMMA StopKeeps ==
  ASSUME ViewOK, StreamsOK, Stop
  PROVE  \/ \E s \in Stream : s = view.controller /\ Open(s) /\ Ended(s)
         \/ /\ ViewOK' /\ UNCHANGED stream /\ view'.cur = view.cur /\ view'.list = view.list
            /\ ~view'.streaming /\ ~(view.controller \in Stream /\ Open(view.controller))
<1> DEFINE w == [Release(view) EXCEPT !.followups = 0]
<1>1. CASE view.controller \in Stream /\ Open(view.controller)
  <2>1. OnDone(view.controller, w, TRUE)
    BY <1>1 DEF Stop
  <2> QED  BY <1>1, <2>1, OnDoneKeeps
<1>2. CASE ~(view.controller \in Stream /\ Open(view.controller))
  <2>1. view' = w /\ UNCHANGED stream
    BY <1>2 DEF Stop
  <2>2. /\ view' \in [cur : Page, list : Seq(Turns), streaming : BOOLEAN,
                      controller : Question, followups : Question]
        /\ view'.cur = view.cur /\ view'.list = view.list
        /\ view'.streaming = FALSE /\ view'.controller = 0
    BY <2>1, Bounds DEF ViewOK, Release
  <2> QED  BY <1>2, <2>1, <2>2 DEF ViewOK
<1> QED  BY <1>1, <1>2

-----------------------------------------------------------------------------
(* The invariant, by what a step does to the list                           *)

LEMMA ListDomain == ASSUME ViewOK PROVE DOMAIN view.list = 1 .. Len(view.list)
  BY DEF ViewOK

\* No answer is opened or moved and no handler is told an end; an answer may be
\* asked for, forgotten or end without a word.
Quiet ==
  \A s \in Stream :
    /\ \/ stream[s].pc = "idle"
       \/ stream'[s].there = stream[s].there /\ stream'[s].idx = stream[s].idx
    /\ \/ stream'[s].pc = stream[s].pc
       \/ stream[s].pc \in {"late", "create"} /\ stream'[s].pc = "closed"
       \/ stream[s].pc = "idle" /\ stream'[s].pc = "create"
       \/ stream[s].pc = "sent" /\ stream'[s].pc = "open"
       \/ stream[s].pc = "open" /\ stream'[s].pc = "mute"

\* The list and the lock stay, and what becomes of an answer opens none and tells no end.
LEMMA QuietKeeps ==
  ASSUME Core, view'.list = view.list, view'.streaming = view.streaming,
         view'.controller = view.controller, slips \subseteq slips', Asked', Fits', Quiet,
         view.controller \in Question, \A i \in DOMAIN view.list : view.list[i] \in Turns
  PROVE  Core'
<1>1. /\ \A s \in Stream : /\ (Open(s)' => Open(s)) /\ (Waited(s)' <=> Waited(s))
                           /\ Used(s) => stream'[s].there = stream[s].there /\ stream'[s].idx = stream[s].idx
      /\ \A s \in Stream : Open(s) => Used(s)
      /\ Calm' => Calm
  BY DEF Open, Waited, Calm, Quiet, Used
<1>2. \A i \in DOMAIN view.list :
        /\ view.list[i].by \in Question /\ Named(view.list[i].by)
        /\ \A s \in view.list[i].text \ {view.list[i].by} : s \in Stream /\ Used(s)
  BY DEF Core, Asked, Turns
<1>3. Own'
  <2> SUFFICES ASSUME NEW i \in DOMAIN view.list, NEW t, t = view.list[i].by, t # 0, stream'[t].there
               PROVE  i = stream'[t].idx /\ (view.list[i].status = "streaming" => Waited(t)')
    BY DEF Own
  <2>1. t \in Stream /\ Used(t)
    BY <1>2 DEF Named
  <2>2. stream[t].there
    BY <1>1, <2>1
  <2> QED  BY <1>1, <2>1, <2>2 DEF Core, Own
<1>4. Mine'
  BY <1>1 DEF Core, Mine
<1>6. OneStream'
  BY <1>1, Bounds DEF Core, OneStream
<1>5. OwnText'
  <2> SUFFICES ASSUME Calm', NEW i \in DOMAIN view.list, NEW s \in view.list[i].text \ {view.list[i].by}
               PROVE  ~stream'[s].there
    BY DEF OwnText
  <2>1. ~stream[s].there
    BY <1>1 DEF Core, OwnText
  <2> QED  BY <1>1, <1>2, <2>1
<1> QED  BY <1>3, <1>4, <1>5, <1>6 DEF Core

LEMMA EndedKeeps ==
  ASSUME ViewOK, Core, NEW s \in Stream, Ended(s), slips \subseteq slips',
         Calm' => Open(s) \/ ~view.streaming, UNCHANGED <<loading, conv>>
  PROVE  Core'
<1>1. /\ Calm' => Calm
      /\ \A t \in Stream : Open(t)' => Open(t) /\ t # s
      /\ \A t \in Stream : t # s => stream'[t] = stream[t]
      /\ stream'[s].there = stream[s].there /\ stream'[s].idx = stream[s].idx /\ Used(s)'
  BY DEF Ended, Open, Calm, Used
<1>2. /\ view'.cur = view.cur /\ ~view'.streaming /\ DOMAIN view'.list = DOMAIN view.list
      /\ \A i \in DOMAIN view.list :
           /\ view'.list[i].by = view.list[i].by /\ view'.list[i].conv = view.list[i].conv
           /\ view'.list[i].text \subseteq view.list[i].text
           /\ IF Reaches(s) /\ i = stream[s].idx THEN view'.list[i].status # "streaming"
              ELSE view'.list[i].status = view.list[i].status
  BY DEF Ended
<1>9. \A i \in DOMAIN view.list : view.list[i].by \in Question
  <2>1. view.list \in Seq(Turns) /\ \A i \in DOMAIN view.list : view.list[i] \in Turns
    BY ElementOfSeq, ListDomain DEF ViewOK
  <2> QED  BY <2>1 DEF Turns
<1>3. Asked'
  <2>1. \A t : Named(t) => Named(t)'
    BY <1>1 DEF Named, Used
  <2>2. \A t \in Stream : Used(t) => Used(t)'
    BY <1>1 DEF Used
  <2>3. \A c \in Conv : \A i \in DOMAIN conv'[c].turns : Named(conv[c].turns[i][2])'
    <3> SUFFICES ASSUME NEW c \in Conv, NEW i \in DOMAIN conv[c].turns
                 PROVE  Named(conv[c].turns[i][2])'
      OBVIOUS
    <3> PICK t : t = conv[c].turns[i][2]
      OBVIOUS
    <3>1. Named(t)
      BY DEF Core, Asked
    <3>2. Named(t)'
      BY <2>1, <3>1
    <3> QED  BY <3>2 DEF Named, Used
  <2> QED  BY <1>2, <2>1, <2>2, <2>3 DEF Core, Asked
<1>4. Own'
  <2> SUFFICES ASSUME NEW i \in DOMAIN view.list, NEW t, t = view.list[i].by, t # 0, stream'[t].there
               PROVE  i = stream'[t].idx /\ (view'.list[i].status = "streaming" => Waited(t)')
    BY <1>2 DEF Own
  <2>1. t \in Stream
    BY <1>9, Bounds
  <2>2. i = stream[t].idx /\ stream[t].there /\ (view.list[i].status = "streaming" => Waited(t))
    BY <1>1, <2>1 DEF Core, Own
  <2>3. CASE t = s
    <3>1. Reaches(s)
      BY <2>2, <2>3, ListDomain DEF Reaches
    <3> QED  BY <1>1, <1>2, <2>2, <2>3, <3>1
  <2>4. CASE t # s
    <3>1. Waited(t) => Waited(t)'
      BY <1>1, <2>1, <2>4 DEF Open, Waited
    <3>2. view'.list[i].status = "streaming" => view.list[i].status = "streaming"
      BY <1>2
    <3> QED  BY <1>1, <2>1, <2>2, <2>4, <3>1, <3>2
  <2> QED  BY <2>3, <2>4
<1>5. Mine'
  BY <1>1, <1>2 DEF Core, Mine
<1>6. OneStream'
  BY <1>1, <1>2 DEF Core, OneStream
<1>7. Fits'
  BY <1>2 DEF Core, Fits
<1>8. OwnText'
  BY <1>1, <1>2 DEF Core, OwnText, Asked
<1> QED  BY <1>3, <1>4, <1>5, <1>6, <1>7, <1>8 DEF Core

LEMMA PieceCore ==
  ASSUME ViewOK, Core, NEW s \in Stream, Piece(s)
  PROVE  Core'
<1>1. UNCHANGED <<loading, stream, conv, slips>> /\ Open(s) /\ stream[s].pc = "open"
  BY DEF Piece, Open
<1>2. /\ view'.cur = view.cur /\ view'.streaming = view.streaming
      /\ view'.controller = view.controller /\ DOMAIN view'.list = DOMAIN view.list
      /\ \A i \in DOMAIN view.list :
           /\ view'.list[i].by = view.list[i].by /\ view'.list[i].conv = view.list[i].conv
           /\ view'.list[i].status = view.list[i].status
           /\ view'.list[i].text \subseteq view.list[i].text \union {s}
           /\ i # stream[s].idx => view'.list[i].text = view.list[i].text
  BY PieceKeeps
<1>6. (\A t : (Open(t)' <=> Open(t)) /\ (Waited(t)' <=> Waited(t))) /\ (Calm' <=> Calm)
  BY <1>1 DEF Open, Waited, Calm
<1>7. OneStream' /\ Fits'
  BY <1>1, <1>2, <1>6 DEF Core, OneStream, Fits
<1>8. Own'
  <2> SUFFICES ASSUME NEW i \in DOMAIN view.list, NEW t, t = view.list[i].by, t # 0, stream[t].there
               PROVE  i = stream[t].idx /\ (view.list[i].status = "streaming" => Waited(t))
    BY <1>1, <1>2, <1>6 DEF Own
  <2> QED  BY DEF Core, Own
<1>9. Mine'
  BY <1>1, <1>2, <1>6 DEF Core, Mine
<1>4. Asked'
  <2>1. Used(s) /\ \A t : (Used(t)' <=> Used(t)) /\ (Named(t)' <=> Named(t))
    BY <1>1 DEF Used, Named
  <2>2. \A c \in Conv : \A i \in DOMAIN conv'[c].turns : Named(conv'[c].turns[i][2])
    BY <1>1 DEF Core, Asked
  <2>3. \A i \in DOMAIN view.list :
          /\ Named(view'.list[i].by)
          /\ \A t \in view'.list[i].text \ {view'.list[i].by} : t \in Stream /\ Used(t)
    BY <1>2, <2>1 DEF Core, Asked
  <2> QED  BY <1>1, <1>2, <2>1, <2>2, <2>3 DEF Asked, Named, Used
<1>5. OwnText'
  <2> SUFFICES ASSUME Calm, NEW i \in DOMAIN view.list, NEW t \in view'.list[i].text \ {view.list[i].by}
               PROVE  ~stream[t].there
    BY <1>1, <1>2 DEF OwnText, Calm
  <2>0. t # view.list[i].by /\ (t \in view.list[i].text \/ (t = s /\ i = stream[s].idx))
    BY <1>2
  <2>1. CASE t \in view.list[i].text
    BY <2>0, <2>1 DEF Core, OwnText
  <2>2. CASE t = s /\ i = stream[s].idx
    BY <1>1, <2>0, <2>2 DEF Core, Mine
  <2> QED  BY <2>0, <2>1, <2>2
<1> QED  BY <1>4, <1>5, <1>7, <1>8, <1>9 DEF Core

LEMMA BeginCore ==
  ASSUME ViewOK, RestOK, StreamsOK, Core, NEW s \in Stream, ~Used(s), NEW c \in Conv, Begin(s, c, view),
         slips \subseteq slips', Calm' => ~view.streaming, loading' = loading,
         c = view.cur \/ view.cur = None \/ "crossed" \in slips',
         \A d \in Conv : conv'[d].turns = conv[d].turns \/ conv'[d].turns = <<>>
  PROVE  Core'
<1> PICK n, new : n = Len(view.list) + 1 /\ new = Turn(c, s, s, {}, "streaming")
  OBVIOUS
<1>1. /\ view'.cur = c /\ view'.streaming /\ view'.controller = s /\ new \in Turns
      /\ view'.list = Append(view.list, new)
      /\ stream'[s].pc = "sent" /\ stream'[s].there /\ stream'[s].idx = n
      /\ \A t \in Stream : t # s => stream'[t] = stream[t]
  BY BeginKeeps
<1>2. /\ DOMAIN view'.list = DOMAIN view.list \union {n} /\ n \notin DOMAIN view.list
      /\ view'.list[n] = new /\ \A i \in DOMAIN view.list : view'.list[i] = view.list[i]
  BY <1>1, AppendKeeps
<1>3. new.conv = c /\ new.by = s /\ new.text = {} /\ new.status = "streaming"
  BY DEF Turn
<1>4. /\ Calm' => Calm /\ \A t \in Stream : ~Open(t)
      /\ Open(s)' /\ Waited(s)'
      /\ \A t \in Stream : t # s => (Open(t)' <=> Open(t)) /\ (Waited(t)' <=> Waited(t))
  BY <1>1 DEF Calm, Open, Waited, Core, OneStream
<1>5. \A i \in DOMAIN view.list :
        /\ view.list[i].by # s /\ (view.list[i].by # 0 => view.list[i].by \in Stream)
        /\ \A t \in view.list[i].text \ {view.list[i].by} : t \in Stream /\ t # s
  BY Bounds DEF Core, Asked, Named
<1>6. Asked'
  <2>1. /\ \A t : Named(t) => Named(t)'
        /\ \A t \in Stream : Used(t) => Used(t)'
        /\ Named(s)'
    BY <1>1 DEF Named, Used
  <2>2. ASSUME NEW d \in Conv, NEW i \in DOMAIN conv'[d].turns
        PROVE  Named(conv[d].turns[i][2])'
    <3>1. conv'[d].turns = conv[d].turns
      <4>1. DOMAIN <<>> = {}
        OBVIOUS
      <4> QED  BY <2>2, <4>1
    <3> PICK t : t = conv[d].turns[i][2]
      OBVIOUS
    <3>2. Named(t)
      BY <3>1 DEF Core, Asked
    <3>3. Named(t)'
      BY <2>1, <3>2
    <3> QED  BY <3>1, <3>3 DEF Named, Used
  <2>3. ASSUME NEW i \in DOMAIN view'.list
        PROVE  /\ Named(view.list[i].by)'
               /\ \A t \in view'.list[i].text \ {view'.list[i].by} : t \in Stream /\ Used(t)'
    <3>1. CASE i = n
      BY <1>2, <1>3, <2>1, <3>1 DEF Named, Used
    <3>2. CASE i \in DOMAIN view.list
      <4>1. Named(view.list[i].by) /\ view'.list[i] = view.list[i]
            /\ \A t \in view.list[i].text \ {view.list[i].by} : t \in Stream /\ Used(t)
        BY <1>2, <3>2 DEF Core, Asked
      <4> PICK b : b = view.list[i].by
        OBVIOUS
      <4>2. Named(b)'
        BY <2>1, <4>1
      <4> QED  BY <2>1, <4>1, <4>2 DEF Named, Used
    <3> QED  BY <1>2, <3>1, <3>2
  <2> QED  BY <2>2, <2>3 DEF Asked
<1>7. Own'
  <2> SUFFICES ASSUME NEW i \in DOMAIN view'.list, NEW t, t = view'.list[i].by, t # 0, stream'[t].there
               PROVE  i = stream'[t].idx /\ (view'.list[i].status = "streaming" => Waited(t)')
    BY DEF Own
  <2>1. CASE i = n
    BY <1>1, <1>2, <1>3, <1>4, <2>1
  <2>2. CASE i \in DOMAIN view.list
    BY <1>1, <1>2, <1>4, <1>5, <2>2 DEF Core, Own
  <2> QED  BY <1>2, <2>1, <2>2
<1>8. Mine'
  BY <1>1, <1>2, <1>3, <1>4 DEF Core, Mine
<1>9. OneStream'
  BY <1>1, <1>4 DEF Core, OneStream
<1>10. Fits'
  <2> SUFFICES ASSUME {"overtaken", "unloaded", "crossed"} \intersect slips' = {}
               PROVE  c \in loading \/ \A i \in DOMAIN view'.list : view'.list[i].conv = c
    BY <1>1 DEF Fits
  <2>1. view.cur \in loading \/ \A i \in DOMAIN view.list : view.list[i].conv = view.cur
    BY DEF Core, Fits
  <2>2. CASE c = view.cur
    BY <1>2, <1>3, <2>1, <2>2
  <2>3. CASE view.cur = None
    <3>1. \A i \in DOMAIN view.list : view.list[i] \in Turns
      BY ListDomain, ElementOfSeq DEF ViewOK
    <3>2. \A i \in DOMAIN view.list : view.list[i].conv # None
      BY <3>1, Bounds DEF Turns
    <3>3. None \notin loading
      BY Bounds DEF RestOK
    <3> QED  BY <1>2, <1>3, <2>1, <2>3, <3>2, <3>3
  <2> QED  BY <2>2, <2>3
<1>11. OwnText'
  <2> SUFFICES ASSUME Calm', NEW i \in DOMAIN view'.list, NEW t \in view'.list[i].text \ {view'.list[i].by}
               PROVE  ~stream'[t].there
    BY DEF OwnText
  <2>1. CASE i = n
    BY <1>2, <1>3, <2>1
  <2>2. CASE i \in DOMAIN view.list
    <3>1. t \in view.list[i].text \ {view.list[i].by}
      BY <1>2, <2>2
    <3>2. ~stream[t].there /\ t \in Stream /\ t # s
      BY <1>4, <1>5, <2>2, <3>1 DEF Core, OwnText
    <3> QED  BY <1>1, <3>2
  <2> QED  BY <1>2, <2>1, <2>2
<1> QED  BY <1>6, <1>7, <1>8, <1>9, <1>10, <1>11 DEF Core

LEMMA RegenerateCore ==
  ASSUME ViewOK, StreamsOK, Core, NEW s \in Stream, NEW n \in DOMAIN view.list, Regenerate(s, n)
  PROVE  Core'
<1>1. /\ view'.cur = view.cur /\ view'.streaming /\ view'.controller = s
      /\ DOMAIN view'.list = DOMAIN view.list
      /\ \A j \in DOMAIN view.list : j # n => view'.list[j] = view.list[j]
      /\ view'.list[n].by = s /\ view'.list[n].text = {} /\ view'.list[n].conv = view.list[n].conv
      /\ stream'[s].pc = "sent" /\ stream'[s].there /\ stream'[s].idx = n
      /\ \A t \in Stream : t # s => stream'[t] = stream[t]
  BY RegenerateKeeps
<1>2. /\ UNCHANGED <<loading, conv, slips>> /\ ~view.streaming /\ ~Used(s)
  BY DEF Regenerate, Unused, Used
<1>4. /\ Calm' => Calm /\ \A t \in Stream : ~Open(t)
      /\ Open(s)' /\ Waited(s)'
      /\ \A t \in Stream : t # s => (Open(t)' <=> Open(t)) /\ (Waited(t)' <=> Waited(t))
  BY <1>1, <1>2 DEF Calm, Open, Waited, Core, OneStream
<1>5. \A i \in DOMAIN view.list :
        /\ view.list[i].by # s /\ (view.list[i].by # 0 => view.list[i].by \in Stream)
        /\ \A t \in view.list[i].text \ {view.list[i].by} : t \in Stream /\ t # s
  BY <1>2, Bounds DEF Core, Asked, Named
<1>6. Asked'
  <2>1. /\ \A t : Named(t) => Named(t)'
        /\ \A t \in Stream : Used(t) => Used(t)'
        /\ Named(s)'
    BY <1>1 DEF Named, Used
  <2>2. ASSUME NEW d \in Conv, NEW i \in DOMAIN conv[d].turns
        PROVE  Named(conv[d].turns[i][2])'
    <3> PICK t : t = conv[d].turns[i][2]
      OBVIOUS
    <3>2. Named(t)
      BY DEF Core, Asked
    <3>3. Named(t)'
      BY <2>1, <3>2
    <3> QED  BY <1>2, <3>3 DEF Named, Used
  <2>3. ASSUME NEW i \in DOMAIN view'.list
        PROVE  /\ Named(view.list[i].by)'
               /\ \A t \in view'.list[i].text \ {view'.list[i].by} : t \in Stream /\ Used(t)'
    <3>1. CASE i = n
      BY <1>1, <2>1, <3>1 DEF Named, Used
    <3>2. CASE i # n
      <4>1. Named(view.list[i].by) /\ view'.list[i] = view.list[i]
            /\ \A t \in view.list[i].text \ {view.list[i].by} : t \in Stream /\ Used(t)
        BY <1>1, <3>2 DEF Core, Asked
      <4> PICK b : b = view.list[i].by
        OBVIOUS
      <4>2. Named(b)'
        BY <2>1, <4>1
      <4> QED  BY <2>1, <4>1, <4>2 DEF Named, Used
    <3> QED  BY <3>1, <3>2
  <2> QED  BY <1>2, <2>2, <2>3 DEF Asked
<1>7. Own'
  <2> SUFFICES ASSUME NEW i \in DOMAIN view'.list, NEW t, t = view'.list[i].by, t # 0, stream'[t].there
               PROVE  i = stream'[t].idx /\ (view'.list[i].status = "streaming" => Waited(t)')
    BY DEF Own
  <2>1. CASE i = n
    BY <1>1, <1>4, <2>1
  <2>2. CASE i # n
    BY <1>1, <1>4, <1>5, <2>2 DEF Core, Own
  <2> QED  BY <2>1, <2>2
<1>8. Mine'
  BY <1>1, <1>4 DEF Mine
<1>9. OneStream'
  BY <1>1, <1>4 DEF Core, OneStream
<1>10. Fits'
  <2>1. \A i \in DOMAIN view.list : view'.list[i].conv = view.list[i].conv
    BY <1>1
  <2> QED  BY <1>1, <1>2, <2>1 DEF Core, Fits
<1>11. OwnText'
  <2> SUFFICES ASSUME Calm', NEW i \in DOMAIN view'.list, NEW t \in view'.list[i].text \ {view'.list[i].by}
               PROVE  ~stream'[t].there
    BY DEF OwnText
  <2>1. i # n /\ view'.list[i] = view.list[i]
    BY <1>1
  <2>2. ~stream[t].there /\ t \in Stream /\ t # s
    BY <1>1, <1>4, <1>5, <2>1 DEF Core, OwnText
  <2> QED  BY <1>1, <2>2
<1> QED  BY <1>6, <1>7, <1>8, <1>9, <1>10, <1>11 DEF Core

\* Another list is shown, of answers that were all asked for.
LEMMA ReplacedCore ==
  ASSUME ViewOK, StreamsOK, Core, stream' = Replaced, slips \subseteq slips',
         view'.streaming = view.streaming, view'.controller = view.controller, view.controller \in Question,
         \A i \in DOMAIN view'.list : /\ Named(view'.list[i].by)
                                      /\ view'.list[i].text \subseteq {view'.list[i].by},
         \A d \in Conv : conv'[d].turns = conv[d].turns \/ conv'[d].turns = <<>>,
         Fits'
  PROVE  Core'
<1>1. \A s \in Stream : /\ stream'[s].pc = stream[s].pc /\ stream'[s].idx = stream[s].idx
                        /\ stream'[s].there = (stream[s].pc \in {"idle", "create"})
  BY ReplacedKeeps
<1>2. /\ \A s \in Stream : (Open(s)' <=> Open(s)) /\ (Waited(s)' <=> Waited(s)) /\ (Used(s)' <=> Used(s))
      /\ \A s : Named(s)' <=> Named(s)
      /\ \A s \in Stream : stream'[s].there <=> ~Used(s)
  BY <1>1 DEF Open, Waited, Used, Named
<1>3. Asked'
  <2>1. ASSUME NEW d \in Conv, NEW i \in DOMAIN conv'[d].turns
        PROVE  Named(conv[d].turns[i][2])'
    <3>1. conv'[d].turns = conv[d].turns
      <4>1. DOMAIN <<>> = {}
        OBVIOUS
      <4> QED  BY <2>1, <4>1
    <3> PICK t : t = conv[d].turns[i][2]
      OBVIOUS
    <3>2. Named(t)'
      BY <1>2, <3>1 DEF Core, Asked
    <3> QED  BY <3>1, <3>2 DEF Named, Used
  <2>2. ASSUME NEW i \in DOMAIN view'.list
        PROVE  Named(view.list[i].by)'
    <3> PICK t : t = view'.list[i].by
      OBVIOUS
    <3>2. Named(t)'
      BY <1>2
    <3> QED  BY <3>2 DEF Named, Used
  <2> QED  BY <2>1, <2>2 DEF Asked
<1>4. Own'
  BY <1>2 DEF Own, Named
<1>5. Mine'
  BY <1>2 DEF Mine, Open, Used
<1>6. OneStream'
  BY <1>2, Bounds DEF Core, OneStream, Calm
<1>7. OwnText'
  BY DEF OwnText
<1> QED  BY <1>3, <1>4, <1>5, <1>6, <1>7 DEF Core

-----------------------------------------------------------------------------
(* The invariant, action by action                                          *)

Types == ViewOK /\ RestOK /\ StreamsOK /\ ConvsOK

\* No conversation gets a turn.
TurnsStay == \A d \in Conv : conv'[d].turns = conv[d].turns \/ conv'[d].turns = <<>>

LEMMA TurnTypes ==
  ASSUME Types
  PROVE  /\ view.controller \in Question /\ view.cur \in Page
         /\ \A i \in DOMAIN view.list : view.list[i] \in Turns
  BY ListDomain, ElementOfSeq DEF Types, ViewOK

LEMMA AskedKeeps ==
  ASSUME Asked, view'.list = view.list, Quiet, TurnsStay
  PROVE  Asked'
<1>1. /\ \A t \in Stream : Used(t) => Used(t)'
      /\ \A t : Named(t) => Named(t)'
  BY DEF Quiet, Used, Named
<1>2. ASSUME NEW d \in Conv, NEW i \in DOMAIN conv'[d].turns
      PROVE  Named(conv[d].turns[i][2])' /\ conv'[d].turns = conv[d].turns
  <2>1. conv'[d].turns = conv[d].turns
    <3>1. DOMAIN <<>> = {}
      OBVIOUS
    <3> QED  BY <1>2, <3>1 DEF TurnsStay
  <2> PICK t : t = conv[d].turns[i][2]
    OBVIOUS
  <2>2. Named(t)'
    BY <1>1, <2>1 DEF Asked
  <2> QED  BY <2>1, <2>2 DEF Named, Used
<1>3. ASSUME NEW i \in DOMAIN view.list
      PROVE  /\ Named(view.list[i].by)'
             /\ \A t \in view.list[i].text \ {view.list[i].by} : t \in Stream /\ Used(t)'
  <2> PICK b : b = view.list[i].by
    OBVIOUS
  <2>1. Named(b)' /\ \A t \in view.list[i].text \ {view.list[i].by} : t \in Stream /\ Used(t)
    BY <1>1 DEF Asked
  <2> QED  BY <1>1, <2>1 DEF Named, Used
<1> QED  BY <1>2, <1>3 DEF Asked, Named

\* A step that leaves the list, the lock and the selection as they are.
LEMMA QuietStep ==
  ASSUME Types, Core, Quiet, TurnsStay, view'.list = view.list, view'.streaming = view.streaming,
         view'.controller = view.controller, view'.cur = view.cur, UNCHANGED <<loading, slips>>
  PROVE  Core'
<1>1. Asked'
  BY AskedKeeps DEF Core
<1>2. Fits'
  BY DEF Core, Fits
<1> QED  BY <1>1, <1>2, QuietKeeps, TurnTypes

LEMMA PutQuiet ==
  ASSUME StreamsOK, NEW s \in Stream, NEW r \in Streams, Put(s, r),
         stream[s].pc = "idle" \/ (r.there = stream[s].there /\ r.idx = stream[s].idx),
         \/ r.pc = stream[s].pc
         \/ stream[s].pc \in {"late", "create"} /\ r.pc = "closed"
         \/ stream[s].pc = "idle" /\ r.pc = "create"
         \/ stream[s].pc = "sent" /\ r.pc = "open"
         \/ stream[s].pc = "open" /\ r.pc = "mute"
  PROVE  StreamsOK' /\ Quiet
  BY PutKeeps DEF Quiet

LEMMA TitleKeeps ==
  ASSUME ConvsOK, NEW c \in Conv, NEW t \in Title, conv' = [conv EXCEPT ![c].title = t]
  PROVE  ConvsOK' /\ TurnsStay
<1>1. conv[c] \in Convs /\ conv' = [conv EXCEPT ![c] = [conv[c] EXCEPT !.title = t]]
  BY DEF ConvsOK
<1>2. [conv[c] EXCEPT !.title = t] \in Convs /\ [conv[c] EXCEPT !.title = t].turns = conv[c].turns
  BY <1>1 DEF Convs
<1> PICK r : r = [conv[c] EXCEPT !.title = t]
  OBVIOUS
<1> QED  BY <1>1, <1>2 DEF ConvsOK, TurnsStay

LEMMA NewKeeps ==
  ASSUME ConvsOK, NEW c \in Conv, NEW r \in Convs, r.turns = <<>>, conv' = [conv EXCEPT ![c] = r]
  PROVE  ConvsOK' /\ TurnsStay
  BY DEF ConvsOK, TurnsStay

LEMMA Titles ==
  /\ Given \in Title /\ \A q \in Question : AskedFor(q) \in Title
  /\ \A is \in {"new", "here", "gone"} : /\ NoConversation(is) \in Convs
                                         /\ NoConversation(is).turns = <<>>
  BY Bounds DEF Given, AskedFor, Title, NoConversation, Convs

LEMMA AskStep ==
  ASSUME Types, Core, NEW s \in Stream, Ask(s)
  PROVE  Types' /\ Core'
<1>1. UNCHANGED <<loading, conv, slips, switches>> /\ ~view.streaming /\ stream[s].pc = "idle"
  BY DEF Ask, Unused
<1>2. TurnsStay /\ RestOK' /\ ConvsOK' /\ (Calm' <=> Calm) /\ ~Used(s)
  BY <1>1 DEF TurnsStay, Types, RestOK, ConvsOK, Calm, Used
<1>3. CASE view.cur # None /\ Begin(s, view.cur, view)
  <2>1. view.cur \in Conv
    BY <1>3, TurnTypes DEF Page
  <2>2. ViewOK' /\ StreamsOK'
    BY <1>3, <2>1, BeginKeeps DEF Types
  <2> QED  BY <1>1, <1>2, <1>3, <2>1, <2>2, BeginCore DEF Types, TurnsStay
<1>4. CASE /\ Put(s, [NoStream EXCEPT !.pc = "create", !.q = s])
           /\ view' = [view EXCEPT !.followups = 0]
  <2>1. /\ ViewOK' /\ view'.list = view.list /\ view'.streaming = view.streaming
        /\ view'.controller = view.controller /\ view'.cur = view.cur
    BY <1>4, Bounds DEF Types, ViewOK
  <2>2. [NoStream EXCEPT !.pc = "create", !.q = s] \in Streams
        /\ [NoStream EXCEPT !.pc = "create", !.q = s].pc = "create"
    BY Bounds DEF NoStream, Streams
  <2>3. StreamsOK' /\ Quiet
    <3> PICK r : r = [NoStream EXCEPT !.pc = "create", !.q = s]
      OBVIOUS
    <3> QED  BY <1>1, <1>4, <2>2, PutQuiet DEF Types
  <2> QED  BY <1>1, <1>2, <2>1, <2>3, QuietStep DEF Types
<1> QED  BY <1>3, <1>4 DEF Ask

LEMMA CreatedStep ==
  ASSUME Types, Core, NEW s \in Stream, NEW c \in Conv, Created(s, c)
  PROVE  Types' /\ Core'
<1>1. /\ UNCHANGED <<loading, switches>> /\ stream[s].pc = "create" /\ Begin(s, c, view)
      /\ conv' = [conv EXCEPT ![c] = [is |-> "here", turns |-> <<>>, title |-> AskedFor(s)]]
      /\ slips' = slips \union (IF view.streaming THEN {"double"} ELSE {})
                        \union (IF view.cur # None THEN {"crossed"} ELSE {})
  BY DEF Created
<1>2. ConvsOK' /\ TurnsStay
  <2>1. AskedFor(s) \in Title
    BY Titles, Bounds
  <2>2. [is |-> "here", turns |-> <<>>, title |-> AskedFor(s)] \in Convs
    BY <2>1 DEF Convs
  <2>3. [is |-> "here", turns |-> <<>>, title |-> AskedFor(s)].turns = <<>>
    OBVIOUS
  <2> QED  BY <1>1, <2>2, <2>3, NewKeeps DEF Types
<1>3. ViewOK' /\ StreamsOK'
  BY <1>1, BeginKeeps DEF Types
<1>4. RestOK' /\ slips \subseteq slips' /\ (view.streaming => "double" \in slips')
      /\ (view.cur # None => "crossed" \in slips')
  BY <1>1 DEF Types, RestOK, Slips
<1>5. Core'
  BY <1>1, <1>2, <1>4, BeginCore DEF Types, TurnsStay, Calm, Used
<1> QED  BY <1>2, <1>3, <1>4, <1>5 DEF Types

LEMMA CreateFailsStep ==
  ASSUME Types, Core, NEW s \in Stream, CreateFails(s)
  PROVE  Types' /\ Core'
<1>1. /\ UNCHANGED <<view, loading, conv, slips, switches>> /\ stream[s].pc = "create"
      /\ Put(s, [stream[s] EXCEPT !.pc = "closed"])
  BY DEF CreateFails
<1>2. [stream[s] EXCEPT !.pc = "closed"] \in Streams
      /\ [stream[s] EXCEPT !.pc = "closed"].pc = "closed"
      /\ [stream[s] EXCEPT !.pc = "closed"].there = stream[s].there
      /\ [stream[s] EXCEPT !.pc = "closed"].idx = stream[s].idx
  BY DEF Types, StreamsOK, Streams
<1>3. StreamsOK' /\ Quiet
  <2> PICK r : r = [stream[s] EXCEPT !.pc = "closed"]
    OBVIOUS
  <2> QED  BY <1>1, <1>2, PutQuiet DEF Types
<1>4. TurnsStay /\ ViewOK' /\ RestOK' /\ ConvsOK'
  BY <1>1 DEF TurnsStay, Types, ViewOK, RestOK, ConvsOK
<1>5. Core'
  BY <1>1, <1>3, <1>4, QuietStep
<1> QED  BY <1>3, <1>4, <1>5 DEF Types

LEMMA RegenerateStep ==
  ASSUME Types, Core, NEW s \in Stream, NEW i \in DOMAIN view.list, Regenerate(s, i)
  PROVE  Types' /\ Core'
<1>1. UNCHANGED <<loading, conv, slips, switches>>
  BY DEF Regenerate
<1>2. RestOK' /\ ConvsOK'
  BY <1>1 DEF Types, RestOK, ConvsOK
<1> QED  BY <1>2, RegenerateKeeps, RegenerateCore DEF Types

LEMMA OneMore ==
  ASSUME NEW T, NEW old \in Seq(T), NEW x \in T, NEW l, l = Append(old, x)
  PROVE  /\ l \in Seq(T) /\ DOMAIN l = DOMAIN old \union {Len(old) + 1}
         /\ l[Len(old) + 1] = x /\ \A i \in DOMAIN old : l[i] = old[i]
<1>1. l \in Seq(T) /\ Len(l) = Len(old) + 1 /\ Len(old) \in Nat
  BY AppendProperties
<1>2. l[Len(old) + 1] = x /\ \A i \in 1 .. Len(old) : l[i] = old[i]
  BY AppendProperties
<1>3. DOMAIN l = 1 .. Len(l) /\ DOMAIN old = 1 .. Len(old)
  BY <1>1
<1> QED  BY <1>1, <1>2, <1>3

\* The turns l are those of the conversation r and one more.
Grown(r, x, l) ==
  /\ DOMAIN l = DOMAIN r.turns \union {Len(r.turns) + 1}
  /\ l[Len(r.turns) + 1] = x /\ \A i \in DOMAIN r.turns : l[i] = r.turns[i]
  /\ [r EXCEPT !.turns = l] \in Convs /\ [r EXCEPT !.turns = l].turns = l

LEMMA TurnsGrow ==
  ASSUME NEW T, T = Question \X Question, NEW r \in Convs, NEW x \in T, NEW l, l = Append(r.turns, x)
  PROVE  Grown(r, x, l)
<1>1. r.turns \in Seq(T)
  BY DEF Convs
<1>2. /\ l \in Seq(T) /\ DOMAIN l = DOMAIN r.turns \union {Len(r.turns) + 1}
      /\ l[Len(r.turns) + 1] = x /\ \A i \in DOMAIN r.turns : l[i] = r.turns[i]
  BY <1>1, OneMore
<1>3. [r EXCEPT !.turns = l] \in Convs /\ [r EXCEPT !.turns = l].turns = l
  BY <1>2 DEF Convs
<1> QED  BY <1>2, <1>3 DEF Grown

\* The question and its answer are stored: one turn more of its conversation.
LEMMA AcceptStep ==
  ASSUME Types, Core, NEW s \in Stream, Accept(s)
  PROVE  Types' /\ Core'
<1> PICK c, n, new : /\ c = stream[s].conv /\ new = <<stream[s].q, s>>
                     /\ n = (conv[c].turns = <<>> /\ conv[c].title = AskedFor(stream[s].q))
  OBVIOUS
<1>1. /\ UNCHANGED <<view, loading, slips, switches>> /\ stream[s].pc = "sent" /\ conv[c].is = "here"
      /\ Put(s, [stream[s] EXCEPT !.pc = "open", !.names = n])
      /\ conv' = [conv EXCEPT ![c].turns = Append(@, new)]
  BY DEF Accept
<1>2. /\ stream[s] \in Streams /\ n \in BOOLEAN
      /\ c \in Page /\ new \in Question \X Question /\ new[2] = s
  BY Bounds DEF Types, StreamsOK, Streams
<1>3. StreamsOK' /\ Quiet /\ stream'[s].pc = "open" /\ \A t \in Stream : t # s => stream'[t] = stream[t]
  <2> PICK r : r = [stream[s] EXCEPT !.pc = "open", !.names = n]
    OBVIOUS
  <2>1. r \in Streams /\ r.pc = "open" /\ r.there = stream[s].there /\ r.idx = stream[s].idx
    BY <1>2 DEF Streams
  <2>2. StreamsOK' /\ Quiet
    BY <1>1, <2>1, PutQuiet DEF Types
  <2> QED  BY <1>1, <2>1, <2>2, PutKeeps DEF Types
<1>4. CASE c \notin Conv
  <2>1. conv' = conv
    BY <1>1, <1>4 DEF Types, ConvsOK
  <2>2. TurnsStay /\ ViewOK' /\ RestOK' /\ ConvsOK'
    BY <1>1, <2>1 DEF TurnsStay, Types, ViewOK, RestOK, ConvsOK
  <2>3. Core'
    BY <1>1, <1>3, <2>2, QuietStep
  <2> QED  BY <1>3, <2>2, <2>3 DEF Types
<1>5. CASE c \in Conv
  <2> PICK l : l = Append(conv[c].turns, new)
    OBVIOUS
  <2>1. conv[c] \in Convs
    BY <1>5 DEF Types, ConvsOK
  <2>2. Grown(conv[c], new, l)
    BY <1>2, <2>1, TurnsGrow, Zenon
  <2>3. conv' = [conv EXCEPT ![c] = [conv[c] EXCEPT !.turns = l]]
    BY <1>1, <1>5 DEF Types, ConvsOK
  <2>5. ConvsOK' /\ conv'[c].turns = l /\ \A d \in Conv : d # c => conv'[d] = conv[d]
    <3> PICK r : r = [conv[c] EXCEPT !.turns = l]
      OBVIOUS
    <3> QED  BY <1>5, <2>2, <2>3 DEF Types, ConvsOK, Grown
  <2>6. Asked'
    <3>1. /\ \A t \in Stream : Used(t) => Used(t)'
          /\ \A t : Named(t) => Named(t)'
          /\ Named(s)'
      BY <1>3 DEF Quiet, Used, Named
    <3>2. ASSUME NEW d \in Conv, NEW i \in DOMAIN conv'[d].turns
          PROVE  Named(conv[d].turns[i][2])'
      <4> PICK t : t = conv'[d].turns[i][2]
        OBVIOUS
      <4>1. t = s \/ Named(t)
        <5>1. CASE d = c /\ i \notin DOMAIN conv[c].turns
          <6>1. conv'[d].turns[i] = new
            BY <2>2, <2>5, <5>1 DEF Grown
          <6> QED  BY <1>2, <6>1
        <5>2. CASE ~(d = c /\ i \notin DOMAIN conv[c].turns)
          <6>1. i \in DOMAIN conv[d].turns /\ conv'[d].turns[i] = conv[d].turns[i]
            BY <2>2, <2>5, <5>2 DEF Grown
          <6> QED  BY <6>1 DEF Core, Asked
        <5> QED  BY <5>1, <5>2
      <4>2. Named(t)'
        BY <3>1, <4>1
      <4> QED  BY <4>2 DEF Named, Used
    <3>3. ASSUME NEW i \in DOMAIN view.list
          PROVE  /\ Named(view.list[i].by)'
                 /\ \A t \in view.list[i].text \ {view.list[i].by} : t \in Stream /\ Used(t)'
      <4> PICK b : b = view.list[i].by
        OBVIOUS
      <4>1. Named(b) /\ \A t \in view.list[i].text \ {view.list[i].by} : t \in Stream /\ Used(t)
        BY DEF Core, Asked
      <4>2. Named(b)'
        BY <3>1, <4>1
      <4>3. \A t \in view.list[i].text \ {view.list[i].by} : t \in Stream /\ Used(t)'
        BY <3>1, <4>1
      <4> QED  BY <1>1, <4>2, <4>3 DEF Named, Used
    <3> QED  BY <1>1, <3>2, <3>3 DEF Asked, Named
  <2>7. Fits' /\ ViewOK' /\ RestOK'
    BY <1>1 DEF Core, Fits, Types, ViewOK, RestOK
  <2>8. Core'
    BY <1>1, <1>3, <2>6, <2>7, QuietKeeps, TurnTypes
  <2> QED  BY <1>3, <2>5, <2>7, <2>8 DEF Types
<1> QED  BY <1>4, <1>5

LEMMA PieceStep ==
  ASSUME Types, Core, NEW s \in Stream, Piece(s)
  PROVE  Types' /\ Core'
<1>1. UNCHANGED <<loading, stream, conv, slips, switches>>
  BY DEF Piece
<1>2. RestOK' /\ StreamsOK' /\ ConvsOK'
  BY <1>1 DEF Types, RestOK, StreamsOK, ConvsOK
<1> QED  BY <1>2, PieceKeeps, PieceCore DEF Types

LEMMA DoneStep ==
  ASSUME Types, Core, NEW s \in Stream, Done(s)
  PROVE  Types' /\ Core'
<1>1. UNCHANGED <<loading, conv, slips, switches>> /\ Open(s)
  BY DEF Done, Open
<1>2. Ended(s)
  BY DoneKeeps DEF Types
<1>3. RestOK' /\ ConvsOK'
  BY <1>1 DEF Types, RestOK, ConvsOK
<1> QED  BY <1>1, <1>2, <1>3, EndedKeeps DEF Types, Ended

LEMMA FailStep ==
  ASSUME Types, Core, NEW s \in Stream, Fail(s)
  PROVE  Types' /\ Core'
<1>1. /\ UNCHANGED <<loading, conv, switches>> /\ (Open(s) \/ stream[s].pc = "late")
      /\ slips' = IF stream[s].pc = "late" /\ view.streaming THEN slips \union {"late"} ELSE slips
  BY DEF Fail, Slip
<1>2. Ended(s)
  BY FailKeeps DEF Types
<1>3. RestOK' /\ ConvsOK' /\ slips \subseteq slips'
  BY <1>1 DEF Types, RestOK, ConvsOK, Slips
<1>4. Calm' => Open(s) \/ ~view.streaming
  BY <1>1 DEF Calm
<1> QED  BY <1>1, <1>2, <1>3, <1>4, EndedKeeps DEF Types, Ended

LEMMA SilentStep ==
  ASSUME Types, Core, NEW s \in Stream, Silent(s)
  PROVE  Types' /\ Core'
<1> PICK r : r = [stream[s] EXCEPT !.pc = "mute"]
  OBVIOUS
<1>1. UNCHANGED <<view, loading, conv, slips, switches>> /\ stream[s].pc = "open" /\ Put(s, r)
  BY DEF Silent
<1>2. stream[s] \in Streams
  BY DEF Types, StreamsOK
<1>3. r \in Streams /\ r.pc = "mute" /\ r.there = stream[s].there /\ r.idx = stream[s].idx
  BY <1>2 DEF Streams
<1>4. StreamsOK' /\ Quiet
  BY <1>1, <1>3, PutQuiet DEF Types
<1>5. ViewOK' /\ RestOK' /\ ConvsOK' /\ TurnsStay
  BY <1>1 DEF Types, ViewOK, RestOK, ConvsOK, TurnsStay
<1>6. Core'
  BY <1>1, <1>4, <1>5, QuietStep
<1> QED  BY <1>4, <1>5, <1>6 DEF Types

LEMMA StopStep ==
  ASSUME Types, Core, Stop
  PROVE  Types' /\ Core'
<1>1. UNCHANGED <<loading, conv, slips, switches>>
  BY DEF Stop
<1>2. RestOK' /\ ConvsOK'
  BY <1>1 DEF Types, RestOK, ConvsOK
<1>3. CASE \E s \in Stream : s = view.controller /\ Open(s) /\ Ended(s)
  BY <1>1, <1>2, <1>3, EndedKeeps DEF Types, Ended
<1>4. CASE /\ ViewOK' /\ UNCHANGED stream /\ view'.cur = view.cur /\ view'.list = view.list
           /\ ~view'.streaming /\ ~(view.controller \in Stream /\ Open(view.controller))
  \* The answer that locked the page has ended without a word.
  <2>1. StreamsOK'
    BY <1>4 DEF Types, StreamsOK
  <2>2. Asked' /\ Own' /\ Mine' /\ OwnText'
    BY <1>1, <1>4 DEF Core, Asked, Own, Mine, OwnText, Named, Used, Open, Waited, Calm
  <2>3. OneStream'
    BY <1>1, <1>4 DEF Core, OneStream, Open, Calm
  <2>4. Fits'
    BY <1>1, <1>4 DEF Core, Fits
  <2> QED  BY <1>2, <1>4, <2>1, <2>2, <2>3, <2>4 DEF Types, Core
<1> QED  BY <1>3, <1>4, StopKeeps DEF Types

LEMMA CloseStep ==
  ASSUME Types, Core, NEW s \in Stream, Close(s)
  PROVE  Types' /\ Core'
<1> PICK r : r = [stream[s] EXCEPT !.pc = "closed", !.names = FALSE]
  OBVIOUS
<1>1. UNCHANGED <<view, loading, slips, switches>> /\ stream[s].pc = "late" /\ Put(s, r)
  BY DEF Close
<1>2. stream[s] \in Streams
  BY DEF Types, StreamsOK
<1>3. r \in Streams /\ r.pc = "closed" /\ r.there = stream[s].there /\ r.idx = stream[s].idx
  BY <1>2 DEF Streams
<1>4. StreamsOK' /\ Quiet
  BY <1>1, <1>3, PutQuiet DEF Types
<1>5. ConvsOK' /\ TurnsStay
  <2>1. CASE UNCHANGED conv
    BY <2>1 DEF Types, ConvsOK, TurnsStay
  <2>2. CASE conv' = [conv EXCEPT ![stream[s].conv].title = AskedFor(stream[s].q)]
    <3>1. CASE stream[s].conv \in Conv
      BY <1>2, <2>2, <3>1, Titles, TitleKeeps DEF Types, Streams
    <3>2. CASE stream[s].conv \notin Conv
      <4>1. conv' = conv
        BY <2>2, <3>2 DEF Types, ConvsOK
      <4> QED  BY <4>1 DEF Types, ConvsOK, TurnsStay
    <3> QED  BY <3>1, <3>2
  <2> QED  BY <2>1, <2>2 DEF Close
<1>6. ViewOK' /\ RestOK'
  BY <1>1 DEF Types, ViewOK, RestOK
<1>7. Core'
  BY <1>1, <1>4, <1>5, QuietStep
<1> QED  BY <1>4, <1>5, <1>6, <1>7 DEF Types

\* What an answer awaits after its end changes neither its place nor its state.
LEMMA AwaitQuiet ==
  ASSUME StreamsOK, NEW s \in Stream, NEW what \in {"none", "rename", "list", "suggest"}, NEW c \in Page,
         Then(s, what, c) \/ Finish(s)
  PROVE  StreamsOK' /\ Quiet
<1>1. stream[s] \in Streams
  BY DEF StreamsOK
<1>2. CASE Then(s, what, c)
  <2> PICK r : r = [stream[s] EXCEPT !.post = what, !.for = c]
    OBVIOUS
  <2>1. /\ r \in Streams /\ r.pc = stream[s].pc
        /\ r.there = stream[s].there /\ r.idx = stream[s].idx
    BY <1>1 DEF Streams
  <2> QED  BY <1>2, <2>1, PutQuiet DEF Then
<1>3. CASE Finish(s)
  <2> PICK r : r = [stream[s] EXCEPT !.post = "none", !.quiet = FALSE, !.for = None]
    OBVIOUS
  <2>1. /\ r \in Streams /\ r.pc = stream[s].pc
        /\ r.there = stream[s].there /\ r.idx = stream[s].idx
    BY <1>1, Bounds DEF Streams
  <2> QED  BY <1>3, <2>1, PutQuiet DEF Finish
<1> QED  BY <1>2, <1>3

LEMMA RenameDoneStep ==
  ASSUME Types, Core, NEW s \in Stream, RenameDone(s)
  PROVE  Types' /\ Core'
<1>1. UNCHANGED <<view, loading, slips, switches>> /\ (Then(s, "list", None) \/ Finish(s))
  BY DEF RenameDone
<1>2. StreamsOK' /\ Quiet
  BY <1>1, AwaitQuiet, Bounds DEF Types
<1>3. ConvsOK' /\ TurnsStay
  <2>1. CASE UNCHANGED conv
    BY <2>1 DEF Types, ConvsOK, TurnsStay
  <2>2. CASE /\ stream[s].for # None
             /\ conv' = [conv EXCEPT ![stream[s].for].title = AskedFor(stream[s].q)]
    <3>1. stream[s].for \in Conv /\ AskedFor(stream[s].q) \in Title
      BY <2>2, Titles DEF Types, StreamsOK, Streams, Page
    <3> QED  BY <2>2, <3>1, TitleKeeps DEF Types
  <2> QED  BY <2>1, <2>2 DEF RenameDone
<1>4. ViewOK' /\ RestOK'
  BY <1>1 DEF Types, ViewOK, RestOK
<1>5. Core'
  BY <1>1, <1>2, <1>3, QuietStep
<1> QED  BY <1>2, <1>3, <1>4, <1>5 DEF Types

LEMMA ListDoneStep ==
  ASSUME Types, Core, NEW s \in Stream, ListDone(s)
  PROVE  Types' /\ Core'
<1>1. UNCHANGED <<view, loading, conv, slips, switches>> /\ (Then(s, "suggest", view.cur) \/ Finish(s))
  BY DEF ListDone
<1>2. StreamsOK' /\ Quiet
  BY <1>1, AwaitQuiet, TurnTypes DEF Types
<1>3. TurnsStay /\ ViewOK' /\ RestOK' /\ ConvsOK'
  BY <1>1 DEF TurnsStay, Types, ViewOK, RestOK, ConvsOK
<1>4. Core'
  BY <1>1, <1>2, <1>3, QuietStep
<1> QED  BY <1>2, <1>3, <1>4 DEF Types

LEMMA SuggestStep ==
  ASSUME Types, Core, NEW s \in Stream, Suggest(s)
  PROVE  Types' /\ Core'
<1>1. /\ UNCHANGED <<loading, conv, slips, switches>> /\ Finish(s)
      /\ UNCHANGED view \/ view' = [view EXCEPT !.followups = s]
  BY DEF Suggest
<1>2. StreamsOK' /\ Quiet
  BY <1>1, AwaitQuiet, TurnTypes DEF Types
<1>3. /\ ViewOK' /\ view'.list = view.list /\ view'.streaming = view.streaming
      /\ view'.controller = view.controller /\ view'.cur = view.cur
  BY <1>1, Bounds DEF Types, ViewOK
<1>4. TurnsStay /\ RestOK' /\ ConvsOK'
  BY <1>1 DEF TurnsStay, Types, RestOK, ConvsOK
<1>5. Core'
  BY <1>1, <1>2, <1>3, <1>4, QuietStep
<1> QED  BY <1>2, <1>3, <1>4, <1>5 DEF Types

LEMMA SelectStep ==
  ASSUME Types, Core, NEW c \in Conv, Select(c)
  PROVE  Types' /\ Core'
<1>1. /\ UNCHANGED <<stream, conv, slips>> /\ loading' = loading \union {c} /\ switches' = switches + 1
      /\ switches < MaxSwitches /\ view' = [view EXCEPT !.cur = c, !.followups = 0]
  BY DEF Select, Switch
<1>2. /\ ViewOK' /\ view'.list = view.list /\ view'.streaming = view.streaming
      /\ view'.controller = view.controller /\ view'.cur = c
  BY <1>1, Bounds DEF Types, ViewOK
<1>3. RestOK'
  BY <1>1, Bounds DEF Types, RestOK
<1>4. StreamsOK' /\ ConvsOK' /\ Quiet /\ TurnsStay
  BY <1>1 DEF Types, StreamsOK, ConvsOK, Quiet, TurnsStay
<1>5. Asked' /\ Fits'
  BY <1>1, <1>2, <1>4, AskedKeeps DEF Core, Fits
<1>6. Core'
  BY <1>1, <1>2, <1>4, <1>5, QuietKeeps, TurnTypes
<1> QED  BY <1>2, <1>3, <1>4, <1>6 DEF Types

LEMMA LoadFailsStep ==
  ASSUME Types, Core, NEW c \in Conv, LoadFails(c)
  PROVE  Types' /\ Core'
<1>1. /\ UNCHANGED <<view, stream, conv, switches>> /\ loading' = loading \ {c}
      /\ slips' = IF view.cur = c THEN slips \union {"unloaded"} ELSE slips
  BY DEF LoadFails, Slip
<1>2. RestOK' /\ slips \subseteq slips'
  BY <1>1 DEF Types, RestOK, Slips
<1>3. ViewOK' /\ StreamsOK' /\ ConvsOK' /\ Quiet /\ TurnsStay
  BY <1>1 DEF Types, ViewOK, StreamsOK, ConvsOK, Quiet, TurnsStay
<1>4. Asked' /\ Fits'
  BY <1>1, <1>3, AskedKeeps DEF Core, Fits
<1>5. Core'
  BY <1>1, <1>2, <1>3, <1>4, QuietKeeps, TurnTypes
<1> QED  BY <1>2, <1>3, <1>5 DEF Types

LEMMA FunctionIsSeq ==
  ASSUME NEW S, NEW n \in Nat, NEW f \in [1 .. n -> S]
  PROVE  f \in Seq(S) /\ DOMAIN f = 1 .. n
  BY SeqDef

\* The turns the server sent, as the page shows them.
Shown(c) == [i \in DOMAIN conv[c].turns |->
               LET turn == conv[c].turns[i] IN Turn(c, turn[1], turn[2], {turn[2]}, "done")]

LEMMA ShownTurns ==
  ASSUME ConvsOK, NEW c \in Conv, NEW l, l = Shown(c)
  PROVE  /\ l \in Seq(Turns) /\ DOMAIN l = DOMAIN conv[c].turns
         /\ \A i \in DOMAIN l : /\ l[i].by = conv[c].turns[i][2] /\ l[i].text = {conv[c].turns[i][2]}
                                /\ l[i].conv = c
<1> PICK T, old : T = Question \X Question /\ old = conv[c].turns
  OBVIOUS
<1>0. l = [i \in DOMAIN old |-> Turn(c, old[i][1], old[i][2], {old[i][2]}, "done")]
  BY DEF Shown
<1>1. old \in Seq(T)
  BY DEF ConvsOK, Convs
<1>2. Len(old) \in Nat /\ DOMAIN old = 1 .. Len(old) /\ \A i \in 1 .. Len(old) : old[i] \in T
  BY <1>1, ElementOfSeq
<1>3. ASSUME NEW i \in 1 .. Len(old)
      PROVE  /\ l[i] \in Turns /\ l[i].by = old[i][2] /\ l[i].text = {old[i][2]} /\ l[i].conv = c
  <2>1. old[i][1] \in Question /\ old[i][2] \in Question /\ "done" \in Status
    BY <1>2 DEF Status
  <2>2. l[i] = Turn(c, old[i][1], old[i][2], {old[i][2]}, "done")
    BY <1>0, <1>2
  <2> QED  BY <2>1, <2>2 DEF Turn, Turns
<1>4. l = [i \in 1 .. Len(old) |-> l[i]]
  BY <1>0, <1>2
<1>5. l \in [1 .. Len(old) -> Turns]
  BY <1>3, <1>4
<1>6. l \in Seq(Turns) /\ DOMAIN l = 1 .. Len(old)
  BY <1>2, <1>5, FunctionIsSeq
<1> QED  BY <1>2, <1>3, <1>6

LEMMA LoadedStep ==
  ASSUME Types, Core, NEW c \in Conv, Loaded(c)
  PROVE  Types' /\ Core'
<1> PICK l : l = Shown(c)
  OBVIOUS
<1>1. /\ UNCHANGED <<conv, switches>> /\ stream' = Replaced /\ loading' = loading \ {c}
      /\ view' = [view EXCEPT !.list = l]
      /\ slips' = IF view.cur # c THEN slips \union {"overtaken"} ELSE slips
  BY DEF Loaded, Slip, Shown
<1>2. /\ l \in Seq(Turns) /\ DOMAIN l = DOMAIN conv[c].turns
      /\ \A i \in DOMAIN l : /\ l[i].by = conv[c].turns[i][2] /\ l[i].text = {conv[c].turns[i][2]}
                             /\ l[i].conv = c
  BY ShownTurns DEF Types
<1>3. /\ ViewOK' /\ view'.list = l /\ view'.streaming = view.streaming
      /\ view'.controller = view.controller /\ view'.cur = view.cur
  BY <1>1, <1>2 DEF Types, ViewOK
<1>4. RestOK' /\ ConvsOK' /\ slips \subseteq slips'
  BY <1>1 DEF Types, RestOK, ConvsOK, Slips
<1>5. StreamsOK'
  BY <1>1, ReplacedKeeps DEF Types
<1>6. Fits'
  <2> SUFFICES ASSUME "overtaken" \notin slips' PROVE \A i \in DOMAIN l : l[i].conv = view.cur
    BY <1>3 DEF Fits
  <2> QED  BY <1>1, <1>2
<1>7. \A i \in DOMAIN l : Named(l[i].by) /\ l[i].text \subseteq {l[i].by}
  BY <1>2 DEF Core, Asked
<1>8. Core'
  BY <1>1, <1>3, <1>4, <1>6, <1>7, ReplacedCore, TurnTypes DEF Types
<1> QED  BY <1>3, <1>4, <1>5, <1>8 DEF Types

\* The page of a new conversation is shown.
LEMMA BlankStep ==
  ASSUME Types, Core, view' = Blank(view), stream' = Replaced, UNCHANGED <<loading, slips>>,
         TurnsStay
  PROVE  ViewOK' /\ StreamsOK' /\ Core'
<1>1. /\ ViewOK' /\ view'.list = <<>> /\ view'.streaming = view.streaming
      /\ view'.controller = view.controller /\ view'.cur = None
  BY BlankKeeps DEF Types
<1>2. StreamsOK'
  BY ReplacedKeeps DEF Types
<1>3. DOMAIN view'.list = {}
  BY <1>1
<1>4. Fits'
  BY <1>3 DEF Fits
<1>5. Core'
  BY <1>1, <1>3, <1>4, ReplacedCore, TurnTypes DEF Types, TurnsStay
<1> QED  BY <1>1, <1>2, <1>5

LEMMA NewChatStep ==
  ASSUME Types, Core, NewChat
  PROVE  Types' /\ Core'
<1>1. /\ UNCHANGED <<loading, conv, slips>> /\ view' = Blank(view) /\ stream' = Replaced
      /\ switches' = switches + 1 /\ switches < MaxSwitches
  BY DEF NewChat, Switch
<1>2. RestOK' /\ ConvsOK' /\ TurnsStay
  BY <1>1, Bounds DEF Types, RestOK, ConvsOK, TurnsStay
<1> QED  BY <1>1, <1>2, BlankStep DEF Types

LEMMA RemoveStep ==
  ASSUME Types, Core, NEW c \in Conv, Remove(c)
  PROVE  Types' /\ Core'
<1>1. /\ UNCHANGED <<loading, slips>> /\ switches' = switches + 1 /\ switches < MaxSwitches
      /\ conv' = [conv EXCEPT ![c] = NoConversation("gone")]
  BY DEF Remove, Switch
<1>2. RestOK'
  BY <1>1, Bounds DEF Types, RestOK
<1>3. ConvsOK' /\ TurnsStay
  BY <1>1, Titles, NewKeeps DEF Types
<1>4. CASE view' = Blank(view) /\ stream' = Replaced
  BY <1>1, <1>2, <1>3, <1>4, BlankStep DEF Types
<1>5. CASE UNCHANGED <<view, stream>>
  <2>1. ViewOK' /\ StreamsOK' /\ Quiet
    BY <1>5 DEF Types, ViewOK, StreamsOK, Quiet
  <2>2. Core'
    BY <1>1, <1>3, <1>5, <2>1, QuietStep
  <2> QED  BY <1>2, <1>3, <2>1, <2>2 DEF Types
<1> QED  BY <1>4, <1>5 DEF Remove

LEMMA RenameStep ==
  ASSUME Types, Core, NEW c \in Conv, Rename(c)
  PROVE  Types' /\ Core'
<1>1. UNCHANGED <<view, loading, stream, slips, switches>> /\ conv' = [conv EXCEPT ![c].title = Given]
  BY DEF Rename
<1>2. ConvsOK' /\ TurnsStay
  BY <1>1, Titles, TitleKeeps DEF Types
<1>3. ViewOK' /\ RestOK' /\ StreamsOK' /\ Quiet
  BY <1>1 DEF Types, ViewOK, RestOK, StreamsOK, Quiet
<1>4. Core'
  BY <1>1, <1>2, <1>3, QuietStep
<1> QED  BY <1>2, <1>3, <1>4 DEF Types

-----------------------------------------------------------------------------
(* The theorems                                                             *)

LEMMA Start == Init => Types /\ Core
<1> SUFFICES ASSUME Init PROVE Types /\ Core
  OBVIOUS
<1>1. /\ view = [cur |-> None, list |-> <<>>, streaming |-> FALSE, controller |-> 0, followups |-> 0]
      /\ loading = {} /\ slips = {} /\ switches = 0
      /\ \A s \in Stream : stream[s].pc = "idle"
      /\ DOMAIN view.list = {}
  BY DEF Init, NoStream
<1>2. ViewOK /\ RestOK
  <2>1. <<>> \in Seq(Turns)
    OBVIOUS
  <2> QED  BY <1>1, <2>1, Bounds DEF ViewOK, RestOK
<1>3. StreamsOK
  <2>1. NoStream \in Streams
    BY Bounds DEF NoStream, Streams
  <2> QED  BY <2>1 DEF Init, StreamsOK
<1>4. ConvsOK /\ \A c \in Conv : \A i \in DOMAIN conv[c].turns : conv[c].turns[i][2] = 0
  <2> PICK T, one : T = Question \X Question /\ one = <<0, 0>>
    OBVIOUS
  <2>1. one \in T /\ one[2] = 0
    BY Bounds
  <2>2. <<one>> \in Seq(T) /\ DOMAIN <<one>> = {1} /\ <<one>>[1] = one
    BY <2>1
  <2>3. [is |-> "here", turns |-> <<one>>, title |-> Given] \in Convs
    BY <2>2, Titles DEF Convs
  <2>4. \A c \in Conv : conv[c] = [is |-> "here", turns |-> <<one>>, title |-> Given]
                        \/ conv[c] = NoConversation("new")
    BY DEF Init
  <2>5. \A c \in Conv : conv[c] \in Convs /\ (conv[c].turns = <<one>> \/ conv[c].turns = <<>>)
    BY <2>3, <2>4, Titles
  <2>6. DOMAIN <<>> = {}
    OBVIOUS
  <2> QED  BY <2>1, <2>2, <2>5, <2>6 DEF Init, ConvsOK
<1>5. Core
  BY <1>1, <1>4 DEF Core, Asked, Own, Mine, OneStream, Fits, OwnText, Named, Open, Waited
<1> QED  BY <1>2, <1>3, <1>4, <1>5 DEF Types

LEMMA StreamSteps ==
  ASSUME Types, Core, NEW s \in Stream, StreamStep(s)
  PROVE  Types' /\ Core'
<1>1. CASE Ask(s) \/ CreateFails(s) \/ \E c \in Conv : Created(s, c)
  BY <1>1, AskStep, CreateFailsStep, CreatedStep
<1>2. CASE \E i \in DOMAIN view.list : Regenerate(s, i)
  BY <1>2, RegenerateStep
<1>3. CASE Accept(s) \/ Done(s) \/ Fail(s) \/ Silent(s)
  BY <1>3, AcceptStep, DoneStep, FailStep, SilentStep
<1>4. CASE Piece(s) \/ Close(s)
  BY <1>4, PieceStep, CloseStep
<1>5. CASE RenameDone(s) \/ ListDone(s) \/ Suggest(s)
  BY <1>5, RenameDoneStep, ListDoneStep, SuggestStep
<1> QED  BY <1>1, <1>2, <1>3, <1>4, <1>5 DEF StreamStep, Settle

LEMMA Steps == Types /\ Core /\ [Next]_vars => Types' /\ Core'
<1> SUFFICES ASSUME Types, Core, [Next]_vars PROVE Types' /\ Core'
  OBVIOUS
<1>1. CASE \E s \in Stream : StreamStep(s)
  BY <1>1, StreamSteps
<1>2. CASE Stop \/ NewChat
  BY <1>2, StopStep, NewChatStep
<1>3. CASE \E c \in Conv : Select(c) \/ Loaded(c) \/ LoadFails(c) \/ Remove(c) \/ Rename(c)
  BY <1>3, SelectStep, LoadedStep, LoadFailsStep, RemoveStep, RenameStep
<1>4. CASE UNCHANGED vars
  <2>1. /\ ViewOK' /\ RestOK' /\ StreamsOK' /\ ConvsOK' /\ Quiet /\ TurnsStay
        /\ UNCHANGED <<view, loading, slips>>
    BY <1>4 DEF vars, Types, ViewOK, RestOK, StreamsOK, ConvsOK, Quiet, TurnsStay
  <2>2. Core'
    BY <2>1, QuietStep
  <2> QED  BY <2>1, <2>2 DEF Types
<1> QED  BY <1>1, <1>2, <1>3, <1>4 DEF Next

LEMMA Invariant == Spec => [](Types /\ Core)
  BY Start, Steps, PTL DEF Spec

\* The variables of the page keep their types, and a stream that can be aborted
\* is shown as running, in every behaviour.
THEOREM TypeCorrect == Spec => []TypeOK
<1>1. Types => TypeOK
  BY TypeParts DEF Types
<1> QED  BY <1>1, Invariant, PTL

\* However many answers and conversations there are, the pieces of an answer
\* reach no turn but its own while it is in the list it was asked in, and every
\* end of an answer reaches its turn (store/chat.js, _handlers).
THEOREM TurnsAlwaysOwn == Spec => []TurnsOwn
<1>1. Types /\ Core => TurnsOwn
  <2> SUFFICES ASSUME Core PROVE TurnSettled
    BY DEF Core, TurnsOwn
  <2> SUFFICES ASSUME NEW i \in DOMAIN view.list, NEW s \in {view.list[i].by} \ {0},
                      stream[s].there, stream[s].pc \in {"late", "closed"}
               PROVE  view.list[i].status # "streaming"
    BY DEF TurnSettled
  <2> QED  BY DEF Core, Own, Open, Waited
<1> QED  BY <1>1, Invariant, PTL

\* The lock of the page, the stream that can be aborted, the list and the
\* conversation selected agree, whatever requests overtake each other, but for
\* the orders that slips names (store/chat.js, stopStream and openConversation).
THEOREM PageAlwaysConsistent == Spec => []PageConsistent
<1>1. Types /\ Core => PageConsistent
  BY DEF Core, Fits, PageConsistent, ListFits
<1> QED  BY <1>1, Invariant, PTL
=============================================================================
