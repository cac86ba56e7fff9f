----------------------------- MODULE Favourites -----------------------------
(* Answers that are kept: the service that takes a copy of a question and    *)
(* its answer, the stars of the chat page and the page of what is kept.  The *)
(* user is on one of the two pages at a time.                                *)
EXTENDS Integers, FiniteSets

CONSTANTS
  Turn,       \* the turns of a conversation, by numbers
  Source,     \* libraries that answers come from
  Nowhere,    \* the library of an answer from none, and the filter for all
  PageSize,
  MaxClock,   \* bound: moments that are told apart
  MaxVisits   \* bound: lists asked for

ASSUME FavouriteAssumption ==
  /\ PageSize \in Nat \ {0} /\ {MaxClock, MaxVisits} \subseteq Nat
  /\ Turn \subseteq Nat \ {0} /\ IsFiniteSet(Turn) /\ Source # {} /\ Nowhere \notin Source

VARIABLES
  said,  \* said[t]: when question and answer were written, whence, whether in a row
  favs,  \* the copies kept, with numbers in the order they were made
  add,   \* add[t]: the star of an answer that was clicked
  drop,  \* the copy that is being removed
  chat,  \* the stars that are shown, and the request for them
  board, \* what the page of copies shows, its requests, what was removed from it since it was read
  past   \* the time, copies made, lists asked for, and what sets the pages wrong

favVars == <<said, favs, add, drop, chat, board, past>>

Silent == [q |-> 0, a |-> 0, kb |-> Nowhere, apart |-> FALSE, gone |-> FALSE]
Unasked == [pc |-> "none"]

FavType ==
  /\ \A t \in Turn : {said[t].q, said[t].a} \subseteq Nat
  /\ \A f \in favs : f.turn \in Turn /\ f.question \in Turn \union {0}
  /\ chat.on \subseteq Turn /\ board.filter \in Source \union {Nowhere}
  /\ past.slips \subseteq {"stale", "overtaken", "failed"}

Slip(slip, if) == past.slips \union IF if THEN {slip} ELSE {}

-----------------------------------------------------------------------------
(* A conversation: ChatService writes a question, and its answer after it.  *)

AskTurn(t) ==
  /\ said[t] = Silent /\ said' = [said EXCEPT ![t].q = past.clock]
  /\ UNCHANGED <<favs, add, drop, chat, board, past>>

\* The two are apart in the order of the messages when they have the same time,
\* or when another tab asks between them.
AnswerTurn(t) ==
  /\ said[t].q > 0 /\ said[t].a = 0
  /\ \E kb \in Source \union {Nowhere} :
       said' = [said EXCEPT ![t].a = past.clock, ![t].kb = kb,
                  ![t].apart = said[t].q = past.clock
                               \/ \E u \in Turn \ {t} : said[u].q >= said[t].q /\ said[u].q < past.clock]
  /\ UNCHANGED <<favs, add, drop, chat, board, past>>

TimeGoes == /\ past.clock < MaxClock /\ past' = [past EXCEPT !.clock = @ + 1]
        /\ UNCHANGED <<said, favs, add, drop, chat, board>>

\* The conversation is deleted with its messages.
Forget ==
  /\ \E t \in Turn : said[t].a > 0 /\ ~said[t].gone
  /\ said' = [t \in Turn |-> [said[t] EXCEPT !.gone = @ \/ said[t].a > 0]]
  /\ UNCHANGED <<favs, add, drop, chat, board, past>>

-----------------------------------------------------------------------------
(* FavoriteService                                                          *)

\* The questions written before an answer, the last of them; and the mutant
\* that takes the first.
Before(t) == {u \in Turn : ~said[u].gone /\ said[u].q > 0 /\ said[u].q < said[t].a}
FirstQuestion(t) == {u \in Before(t) : \A v \in Before(t) : said[u].q <= said[v].q}
PrevUser(t) == {u \in Before(t) : \A v \in Before(t) : said[v].q <= said[u].q}

Read(t) ==
  /\ add[t].pc = "sent"
  /\ IF said[t].gone THEN add' = [add EXCEPT ![t] = Unasked]
     ELSE \E u \in IF Before(t) = {} THEN {0} ELSE PrevUser(t) :
            add' = [add EXCEPT ![t].pc = "read", ![t].copy = [question |-> u, kb |-> said[t].kb]]
  /\ UNCHANGED <<said, favs, drop, chat, board, past>>

\* A second copy is refused by the key of user and message, and the page takes
\* it as kept.
Create(t) ==
  /\ add[t].pc = "read"
  /\ IF \E f \in favs : f.turn = t THEN UNCHANGED <<favs, past>>
     ELSE /\ favs' = favs \union {[id |-> past.made + 1, turn |-> t, question |-> add[t].copy.question,
                                    kb |-> add[t].copy.kb]}
          /\ past' = [past EXCEPT !.made = @ + 1, !.slips = Slip("stale", ~add[t].here)]
  /\ add' = [add EXCEPT ![t].pc = "kept"]
  /\ UNCHANGED <<said, drop, chat, board>>

Matching(filter) == {f \in favs : filter \in {Nowhere, f.kb}}
\* The latest first, by pages.
PageOf(all, page) ==
  {f \in all : Cardinality({g \in all : g.id > f.id}) \in (page - 1) * PageSize .. page * PageSize - 1}

RemoveCopy ==
  /\ drop.pc = "sent"
  /\ favs' = {f \in favs : f.id # drop.id} /\ drop' = [drop EXCEPT !.pc = "removed"]
  /\ past' = [past EXCEPT !.slips = Slip("stale", ~drop.here)]
  /\ UNCHANGED <<said, add, chat, board>>

-----------------------------------------------------------------------------
(* ChatView.vue: the stars                                                  *)

Marked == {f.turn : f \in favs}
MayLoad == past.visits < MaxVisits

\* The page is opened, or another conversation: refreshFavoriteIds.
OpenChat ==
  /\ MayLoad /\ past' = [past EXCEPT !.visits = @ + 1]
  /\ chat' = IF chat.open THEN [chat EXCEPT !.ids = [pc |-> "sent"]]
             ELSE [open |-> TRUE, on |-> {}, ids |-> [pc |-> "sent"]]
  /\ drop' = IF drop = Unasked THEN Unasked ELSE [drop EXCEPT !.here = FALSE]
  /\ board' = [board EXCEPT !.loads = {}]
  /\ UNCHANGED <<said, favs, add>>

ListIds == /\ chat.ids.pc = "sent" /\ chat' = [chat EXCEPT !.ids = [pc |-> "read", on |-> Marked]]
           /\ UNCHANGED <<said, favs, add, drop, board, past>>

\* The stars are replaced, whatever was clicked since the list was read.
ShowIds ==
  /\ chat.ids.pc = "read"
  /\ chat' = [chat EXCEPT !.on = chat.ids.on, !.ids = Unasked]
  /\ past' = [past EXCEPT !.slips = Slip("stale", \E t \in Turn :
       IF t \in chat.ids.on THEN t \notin Marked ELSE t \in Marked /\ ~(add[t].pc = "kept" /\ add[t].here))]
  /\ UNCHANGED <<said, favs, add, drop, board>>

HandleFavorite(t) ==
  /\ chat.open /\ add[t] = Unasked /\ t \notin chat.on /\ said[t].a > 0 /\ past.tries < MaxVisits
  /\ past' = [past EXCEPT !.tries = @ + 1]
  /\ add' = [add EXCEPT ![t] = [pc |-> "sent", here |-> TRUE, copy |-> Unasked]]
  /\ UNCHANGED <<said, favs, drop, chat, board>>

Starred(t) ==
  /\ add[t].pc = "kept"
  /\ chat' = IF add[t].here THEN [chat EXCEPT !.on = @ \union {t}] ELSE chat
  /\ add' = [add EXCEPT ![t] = Unasked]
  /\ past' = [past EXCEPT !.slips = Slip("stale", add[t].here /\ t \notin Marked)]
  /\ UNCHANGED <<said, favs, drop, board>>

\* The answer of a request does not come, whether it was handled or not.
AddFails(t) ==
  /\ add[t].pc \in {"sent", "kept"} /\ add' = [add EXCEPT ![t] = Unasked]
  /\ past' = [past EXCEPT !.slips = Slip("failed", add[t].pc = "kept")]
  /\ UNCHANGED <<said, favs, drop, chat, board>>

-----------------------------------------------------------------------------
(* FavoritesView.vue                                                        *)

\* A request for a page; the slots are taken in turn, and the page shows
\* whichever answer comes last.
Loading(filter, page, old) ==
  /\ MayLoad /\ past' = [past EXCEPT !.visits = @ + 1]
  /\ board' = [filter |-> filter, page |-> page, rows |-> IF old THEN board.rows ELSE {},
               total |-> IF old THEN board.total ELSE 0, cut |-> IF old THEN board.cut ELSE {},
               loads |-> (IF old THEN board.loads ELSE {}) \union
                         {[n |-> past.visits, pc |-> "sent", filter |-> filter, page |-> page]}]
  /\ UNCHANGED <<said, favs, drop>>

OpenBoard ==
  /\ chat.open /\ Loading(Nowhere, 1, FALSE) /\ chat' = [open |-> FALSE, on |-> {}, ids |-> Unasked]
  /\ add' = [t \in Turn |-> IF add[t] = Unasked THEN Unasked ELSE [add[t] EXCEPT !.here = FALSE]]

\* A filter goes back to the first page.
HandleFilterChange(filter) == /\ ~chat.open /\ filter # board.filter /\ Loading(filter, 1, TRUE) /\ UNCHANGED <<chat, add>>

TurnPage(page) == /\ ~chat.open /\ page # board.page /\ (page - 1) * PageSize < board.total
                  /\ Loading(board.filter, page, TRUE) /\ UNCHANGED <<chat, add>>

List(l) ==
  /\ l.pc = "sent" /\ l \in board.loads
  /\ board' = [board EXCEPT !.loads = (@ \ {l}) \union
       {[n |-> l.n, pc |-> "read", filter |-> l.filter, page |-> l.page,
         rows |-> PageOf(Matching(l.filter), l.page), total |-> Cardinality(Matching(l.filter))]}]
  /\ UNCHANGED <<said, favs, add, drop, chat, past>>

\* An answer for another filter or page than is shown, or read before a copy
\* was removed, replaces the list all the same.
Show(l) ==
  /\ l.pc = "read" /\ l \in board.loads
  /\ board' = [board EXCEPT !.rows = l.rows, !.total = l.total, !.cut = {}, !.loads = @ \ {l}]
  /\ past' = [past EXCEPT !.slips =
       Slip("overtaken", \/ l.filter # board.filter \/ l.page # board.page
                         \/ ~(l.rows \subseteq favs) \/ l.total # Cardinality(Matching(l.filter)))]
  /\ UNCHANGED <<said, favs, add, drop, chat>>

LoadFails(l) ==
  /\ l.pc = "sent" /\ l \in board.loads /\ board' = [board EXCEPT !.loads = @ \ {l}]
  /\ past' = [past EXCEPT !.slips = Slip("failed", TRUE)]
  /\ UNCHANGED <<said, favs, add, drop, chat>>

HandleRemove(f) ==
  /\ ~chat.open /\ f \in board.rows /\ drop = Unasked /\ drop' = [pc |-> "sent", id |-> f.id, here |-> TRUE]
  /\ UNCHANGED <<said, favs, add, chat, board, past>>

\* The row goes and one is counted off, whatever list is shown by then.
Removed ==
  /\ drop.pc = "removed" /\ drop' = Unasked
  /\ board' = IF ~drop.here THEN board
               ELSE [board EXCEPT !.rows = {f \in @ : f.id # drop.id}, !.total = IF @ > 0 THEN @ - 1 ELSE 0,
                                  !.cut = @ \union {f \in board.rows : f.id = drop.id}]
  /\ past' = [past EXCEPT !.slips = Slip("overtaken", drop.here /\ \A f \in board.rows : f.id # drop.id)]
  /\ UNCHANGED <<said, favs, add, chat>>

-----------------------------------------------------------------------------
\* A new conversation, or one whose answers are there.
Spoken == [t \in Turn |-> [q |-> 2 * t - 1, a |-> 2 * t, kb |-> IF t = 1 THEN CHOOSE k \in Source : TRUE ELSE Nowhere,
                          apart |-> FALSE, gone |-> FALSE]]

FavInit ==
  /\ said \in {[t \in Turn |-> Silent], Spoken} /\ favs = {} /\ add = [t \in Turn |-> Unasked] /\ drop = Unasked
  /\ chat = [open |-> TRUE, on |-> {}, ids |-> Unasked]
  /\ board = [filter |-> Nowhere, page |-> 1, rows |-> {}, total |-> 0, cut |-> {}, loads |-> {}]
  /\ past = [clock |-> 1, made |-> 0, visits |-> 0, tries |-> 0, slips |-> {}]

FavNext ==
  \/ \E t \in Turn : \/ AskTurn(t) \/ AnswerTurn(t) \/ Read(t) \/ Create(t)
                     \/ HandleFavorite(t) \/ Starred(t) \/ AddFails(t)
  \/ TimeGoes \/ Forget \/ RemoveCopy \/ OpenChat \/ ListIds \/ ShowIds \/ OpenBoard \/ Removed
  \/ \E filter \in Source \union {Nowhere} : HandleFilterChange(filter)
  \/ \E page \in 1 .. Cardinality(Turn) : TurnPage(page)
  \/ \E l \in board.loads : List(l) \/ Show(l) \/ LoadFails(l)
  \/ \E f \in favs : HandleRemove(f)

FavSpec == FavInit /\ [][FavNext]_favVars

-----------------------------------------------------------------------------
(* Properties                                                               *)

\* A copy has the question its answer answers, unless the two were apart: of one
\* time, or with another question between them.
CopiesMatch == \A f \in favs : f.question = f.turn \/ said[f.turn].apart

Clean == past.slips = {}

\* With nothing under way, and no call so far that failed, was overtaken or told
\* a page of the past, the stars are those of the answers kept.
StarsTrue == chat.open /\ chat.ids = Unasked /\ add = [t \in Turn |-> Unasked] /\ past.visits > 0 /\ Clean
               => chat.on = Marked

\* Likewise the page shows its part of the copies of its filter, without those removed from it since, whose places it does not fill, and counts
\* all that are kept.
BoardTrue ==
  ~chat.open /\ board.loads = {} /\ drop = Unasked /\ Clean =>
    /\ board.rows = PageOf(Matching(board.filter) \union board.cut, board.page) \ board.cut
    /\ board.total = Cardinality(Matching(board.filter))

\* What is kept is the answer with its question, and both pages show what is
\* kept, but for what the three parts except (favorite.service.ts create, ChatView.vue, FavoritesView.vue).
FavouritesSound == CopiesMatch /\ StarsTrue /\ BoardTrue
=============================================================================
