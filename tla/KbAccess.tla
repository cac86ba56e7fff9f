------------------------------ MODULE KbAccess ------------------------------
(* What one signed-in user reaches of the knowledge bases: through the list *)
(* and the page of a library, its documents, the global search and a        *)
(* question, asked in the browser or with an API key.  Others change the    *)
(* libraries and the user's role meanwhile; Department says how.            *)
EXTENDS Roles

CONSTANTS
  Shelf,
  Question,   \* questions under way at a time
  Quota,      \* calls a day that a key allows
  MaxRegrants \* bound: changes of a role or a library

ASSUME KbAccessAssumption == Quota \in Nat \ {0} /\ MaxRegrants \in Nat

VARIABLES
  me,      \* my role
  library, \* library[k]: who created it, its scope, and how I stand to it
  apiKey,  \* my API key
  ask,     \* ask[q]: the question under way
  regrants \* changes so far

accessVars == <<me, library, apiKey, ask, regrants>>

Standing == [mine : BOOLEAN, visibility : {"PRIVATE", "DEPT", "PUBLIC"}, near : BOOLEAN,
             member : {"none", "viewer", "editor"}, ready : BOOLEAN, gone : BOOLEAN]
\* near: its department is mine or above mine.  A creator is not a member.
Sound(s) == ~(s.mine /\ s.member # "none")

NoScope == {}
Silent == [pc |-> "none", named |-> {}, scope |-> NoScope, today |-> FALSE, chosen |-> {},
           seen |-> {}, held |-> {}]

AccessType ==
  /\ me \in Role
  /\ library \in [Shelf -> {s \in Standing : Sound(s)}]
  /\ apiKey \in [on : BOOLEAN, scope : SUBSET Shelf, used : Nat, today : BOOLEAN]
  /\ ask \in [Question -> [pc : {"none", "count", "filter", "all", "retrieve"}, named : SUBSET Shelf,
                           scope : SUBSET Shelf, today : BOOLEAN, chosen : SUBSET Shelf,
                           seen : SUBSET Shelf, held : SUBSET Shelf]]
  /\ regrants \in 0 .. MaxRegrants

Present == {k \in Shelf : ~library[k].gone}

-----------------------------------------------------------------------------
(* kb-access.ts; all: the data scope the caller passes is ALL               *)

CanReadKb(k, all) ==
  LET s == library[k] IN
  \/ all \/ s.mine \/ s.visibility = "PUBLIC"
  \/ IF s.visibility = "DEPT" THEN s.near \/ s.member # "none" ELSE s.member # "none"

CanWriteKb(k, all) == all \/ library[k].mine \/ library[k].member = "editor"

-----------------------------------------------------------------------------
(* The channels                                                             *)

\* KnowledgeBaseService: the filter of list and options, and detail.
ListFilter(k) ==
  LET s == library[k] IN
  \/ HasAllScope(me) \/ s.mine \/ s.visibility = "PUBLIC" \/ s.member # "none"
  \/ s.visibility = "DEPT" /\ s.near
ListedKbs == {k \in Present : ListFilter(k)}
Options == {k \in ListedKbs : library[k].ready}
Detailed == {k \in Present : CanReadKb(k, HasAllScope(me))}

\* resolveMyRole: what the pages are told.
MyRole(k) ==
  CASE HasAllScope(me) -> "admin"
    [] ~HasAllScope(me) /\ library[k].mine -> "owner"
    [] ~HasAllScope(me) /\ ~library[k].mine -> library[k].member

\* assertKb of DocumentService, read and write; getFile and getImageFile ask it.
KbAsserted(need) ==
  {k \in Present : IF need = "write" THEN CanWriteKb(k, HasAllScope(me)) ELSE CanReadKb(k, HasAllScope(me))}
ChunksShown == {k \in Present : CanReadKb(k, HasAllScope(me))}

\* assertReadable and assertWritable of EvalCaseService.
CasesReadable == {k \in Present : CanReadKb(k, HasAllScope(me))}
CasesWritable == {k \in CasesReadable : CanWriteKb(k, HasAllScope(me))}

\* assertManageable of KbMemberService.
Manageable == {k \in Present : HasAllScope(me) \/ library[k].mine}

\* globalSearch and filterVisible of the search: only the role is read there,
\* so that the data scope is never ALL.
Found == {k \in Present : CanReadKb(k, FALSE)}

\* filterVisibleKbs of the questions, in the same way.
FilterVisibleKbs(named) == {k \in named \intersect Present : CanReadKb(k, FALSE)}

-----------------------------------------------------------------------------
(* A question                                                               *)

AccessInit ==
  /\ me \in Role
  /\ library \in [Shelf -> {s \in Standing : Sound(s) /\ ~s.gone /\ s.ready}]
  /\ apiKey \in [on : {TRUE}, scope : SUBSET Shelf, used : {0}, today : {FALSE}]
  /\ ask = [q \in Question |-> Silent]
  /\ regrants = 0

Readable == {k \in Present : CanReadKb(k, FALSE)}
Asking(q, next) == ask' = [ask EXCEPT ![q] = next]

\* In the browser: the libraries the request names or, if it names none, those
\* of its conversation; there may be none at all.
AskSignedIn(q, named) ==
  /\ ask[q].pc = "none"
  /\ Asking(q, [Silent EXCEPT !.pc = "filter", !.named = named, !.seen = Readable,
                              !.held = Readable])
  /\ UNCHANGED <<me, library, apiKey, regrants>>

\* With a key: its row is read and must be active, with a scope and calls left.
AskWithKey(q, named) ==
  /\ ask[q].pc = "none"
  /\ apiKey.on /\ apiKey.scope # NoScope
  /\ apiKey.today => apiKey.used < Quota
  /\ Asking(q, [Silent EXCEPT !.pc = "count", !.named = named, !.scope = apiKey.scope,
                              !.today = apiKey.today, !.seen = Readable,
                              !.held = Readable])
  /\ UNCHANGED <<me, library, apiKey, regrants>>

\* The count, written after what was read: one more, or the first of the day.
CountCall(q) ==
  /\ ask[q].pc = "count"
  /\ apiKey' = [apiKey EXCEPT !.used = IF ask[q].today THEN @ + 1 ELSE 1, !.today = TRUE]
  /\ Asking(q, [ask[q] EXCEPT !.pc = "filter"])
  /\ UNCHANGED <<me, library, regrants>>

Refused(q) == Asking(q, Silent)

\* Mutant of Narrow: the scope is forgotten once something was named.
NarrowNamed(q) ==
  LET visible == FilterVisibleKbs(ask[q].named) IN
  /\ ask[q].pc = "filter"
  /\ IF ask[q].scope # NoScope
     THEN Asking(q, [ask[q] EXCEPT !.pc = "retrieve",
                                   !.chosen = IF visible # {} THEN visible ELSE ask[q].scope])
     ELSE Asking(q, [ask[q] EXCEPT !.pc = IF visible = {} THEN "all" ELSE "retrieve", !.chosen = visible])
  /\ UNCHANGED <<me, library, apiKey, regrants>>

\* What is named is cut down to what I may read.  With a key it is cut down to
\* the scope, which also stands in when nothing readable was named; nothing
\* left refuses the request.
Narrow(q) ==
  LET visible == FilterVisibleKbs(ask[q].named)
      narrowed == IF visible # {} THEN visible \intersect ask[q].scope ELSE ask[q].scope
  IN
  /\ ask[q].pc = "filter"
  /\ CASE ask[q].scope # NoScope /\ narrowed = {} -> Refused(q)
       [] ask[q].scope # NoScope /\ narrowed # {} ->
            Asking(q, [ask[q] EXCEPT !.pc = "retrieve", !.chosen = narrowed])
       [] ask[q].scope = NoScope ->
            Asking(q, [ask[q] EXCEPT !.pc = IF visible = {} THEN "all" ELSE "retrieve",
                                     !.chosen = visible])
  /\ UNCHANGED <<me, library, apiKey, regrants>>

\* Nothing readable was named: all that are ready, cut down in a second reading.
WidenToReady(q) ==
  /\ ask[q].pc = "all"
  /\ Asking(q, [ask[q] EXCEPT !.pc = "retrieve",
                              !.chosen = FilterVisibleKbs({k \in Present : library[k].ready})])
  /\ UNCHANGED <<me, library, apiKey, regrants>>

Retrieve(q) ==
  /\ ask[q].pc = "retrieve"
  /\ Asking(q, Silent) /\ UNCHANGED <<me, library, apiKey, regrants>>

-----------------------------------------------------------------------------
(* Meanwhile                                                                *)

\* What the questions under way could read at some time, and all the time, since
\* they were asked.
Seen(readable) == ask' = [q \in Question |-> IF ask[q].pc = "none" THEN ask[q]
                                             ELSE [ask[q] EXCEPT !.seen = @ \union readable,
                                                             !.held = @ \intersect readable]]

\* A library changes its scope, its members or its state, or is deleted.
Regrant(k) ==
  /\ regrants < MaxRegrants /\ ~library[k].gone
  /\ \E s \in {s \in Standing : Sound(s) /\ s.mine = library[k].mine /\ s # library[k]} :
       library' = [library EXCEPT ![k] = s]
  /\ Seen({j \in Shelf : ~library'[j].gone /\ CanReadKb(j, FALSE)'})
  /\ regrants' = regrants + 1 /\ UNCHANGED <<me, apiKey>>

\* A manager gives me another role.
Rerole ==
  /\ regrants < MaxRegrants
  /\ \E r \in Role \ {me, "owner"} : me # "owner" /\ me' = r
  /\ regrants' = regrants + 1 /\ UNCHANGED <<library, apiKey, ask>>

\* Midnight (UTC): the key was last used on another day.
Midnight == apiKey.today /\ apiKey' = [apiKey EXCEPT !.today = FALSE]
            /\ UNCHANGED <<me, library, ask, regrants>>

AccessNext ==
  \/ \E q \in Question :
       \/ \E named \in SUBSET Shelf : AskSignedIn(q, named) \/ AskWithKey(q, named)
       \/ CountCall(q) \/ Narrow(q) \/ WidenToReady(q) \/ Retrieve(q)
  \/ \E k \in Shelf : Regrant(k)
  \/ Rerole \/ Midnight

AccessSpec == AccessInit /\ [][AccessNext]_accessVars

-----------------------------------------------------------------------------
(* Properties                                                               *)

\* "与 document.service 口径一致": for whoever has no data scope of ALL the list,
\* the page, the documents, the cases, the search and the questions open the
\* same libraries; and a role that the pages are told opens exactly the writes
\* that the server allows.
ChannelsAgree ==
  /\ ListedKbs = Detailed
  /\ KbAsserted("read") = Detailed /\ ChunksShown = Detailed /\ CasesReadable = Detailed
  /\ ~HasAllScope(me) =>
       /\ Found = ListedKbs /\ FilterVisibleKbs(Shelf) = ListedKbs
       /\ FilterVisibleKbs({k \in Present : library[k].ready}) = Options
  /\ KbAsserted("write") = {k \in ListedKbs : MyRole(k) \in {"admin", "owner", "editor"}}
  /\ CasesWritable = KbAsserted("write")
  /\ Manageable = {k \in ListedKbs : MyRole(k) \in {"admin", "owner"}}

\* "防止越权检索未授权库": a question is answered from libraries that its user
\* could read at some time since it was asked, with a key from those of its
\* scope; and one that names a library that stayed readable is answered from
\* nothing it does not name.
AskWithin ==
  \A q \in Question : ask[q].pc = "retrieve" =>
    LET c == ask[q] IN
    /\ IF c.scope # NoScope THEN c.chosen # {} /\ c.chosen \subseteq c.scope
       ELSE c.chosen \subseteq c.seen
    /\ c.named \intersect c.held # {} => c.chosen \subseteq c.named

\* One rule of who reads what, on every way to a library and at any time of a
\* question (kb-access.service.ts, knowledge.service.ts, chat.service.ts).
OneRule == ChannelsAgree /\ AskWithin
=============================================================================
