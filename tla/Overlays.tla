------------------------------ MODULE Overlays ------------------------------
(* What lies over a page: the search of everything, whose answers race with   *)
(* what is typed, and the preview of a document, whose files race with the    *)
(* drawer that is closed and opened again.                                   *)
EXTENDS Integers, FiniteSets

CONSTANTS
  Word,      \* words to search for
  NoWord,    \* nothing but blanks
  MaxHits,
  MaxWords,  \* bound: changes of the box
  Paper,     \* documents to preview
  NoPaper,
  PaperKind, \* of each document "pdf", "text" or "other"
  Length,    \* of each document its pages
  MaxShows   \* bound: loads of documents

ASSUME OverlayAssumption ==
  /\ NoWord \notin Word /\ NoPaper \notin Paper /\ {MaxHits, MaxWords, MaxShows} \subseteq Nat
  /\ PaperKind \in [Paper -> {"pdf", "text", "other"}] /\ Length \in [Paper -> Nat \ {0}]

VARIABLES
  find,  \* the dialog: its word, its hits and of which word, the one marked
  wait,  \* the word of the timer, and requests by word and number
  tries, \* changes of the box, and whether the last search for its word failed
  show,  \* the drawer: document, page, content and the source of its file
  loads, \* documents on their way: <<document, its number>>
  files  \* sources that were made and not released, and what went across

findVars == <<find, wait, tries>>
showVars == <<show, loads, files>>
overlayVars == <<find, wait, tries, show, loads, files>>

Hits(w, n) == [word |-> w, n |-> n]
NoHits == Hits(NoWord, 0)

OverlaysType ==
  /\ find.word \in Word \union {NoWord} /\ find.hits.n \in 0 .. MaxHits /\ find.active \in 0 .. MaxHits
  /\ find.open \in BOOLEAN /\ find.loading \in BOOLEAN /\ wait.timer \in Word \union {NoWord}
  /\ show.state \in {"open", "closing", "closed"} /\ show.doc \in Paper \union {NoPaper}
  /\ show.text \in Paper \union {NoPaper} /\ loads \subseteq Paper \X Nat

-----------------------------------------------------------------------------
(* GlobalSearch.vue                                                         *)

\* A change of the box, if only by a blank: the timer is set anew, and an empty
\* box has no hits.
Changed(new, w) ==
  /\ find' = IF w = NoWord THEN [new EXCEPT !.word = w, !.hits = NoHits, !.loading = FALSE]
             ELSE [new EXCEPT !.word = w, !.loading = TRUE]
  /\ wait' = [wait EXCEPT !.timer = w]

TypeWord(w) ==
  /\ find.open /\ tries.n < MaxWords /\ (w = NoWord => find.word # NoWord)
  /\ Changed(find, w) /\ tries' = [n |-> tries.n + 1, failed |-> FALSE] /\ UNCHANGED showVars

TimerFires ==
  /\ wait.timer # NoWord
  /\ wait' = [timer |-> NoWord, asked |-> wait.asked \union {<<wait.timer, tries.n>>}]
  /\ UNCHANGED <<find, tries, showVars>>

\* The answer for another word than the box has by now is dropped.  Its mutant
\* shows it.
LatestAny(ask) == find.word # NoWord
Latest(ask) == ask[1] = find.word

AnswerSearch(ask, n) ==
  /\ ask \in wait.asked /\ wait' = [wait EXCEPT !.asked = @ \ {ask}]
  /\ IF Latest(ask) THEN /\ find' = [find EXCEPT !.hits = Hits(ask[1], n), !.active = 0, !.loading = FALSE]
                        /\ tries' = [tries EXCEPT !.failed = FALSE]
     ELSE UNCHANGED <<find, tries>>
  /\ UNCHANGED showVars

\* The hits of the word before stay.
SearchFails(ask) ==
  /\ ask \in wait.asked /\ wait' = [wait EXCEPT !.asked = @ \ {ask}]
  /\ IF ask[1] = find.word THEN find' = [find EXCEPT !.loading = FALSE] /\ tries' = [tries EXCEPT !.failed = TRUE]
     ELSE UNCHANGED <<find, tries>>
  /\ UNCHANGED showVars

OpenSearch ==
  /\ ~find.open
  /\ find' = [open |-> TRUE, word |-> NoWord, hits |-> NoHits, active |-> 0, loading |-> FALSE]
  /\ wait' = IF find.word = NoWord THEN wait ELSE [wait EXCEPT !.timer = NoWord]
  /\ UNCHANGED <<tries, showVars>>

CloseSearch == find.open /\ find' = [find EXCEPT !.open = FALSE] /\ UNCHANGED <<wait, tries, showVars>>

\* The keys go round; the mouse marks what it is over.
MoveActive(step) ==
  /\ find.open /\ find.hits.n > 0
  /\ find' = [find EXCEPT !.active = (@ + step + find.hits.n) % find.hits.n] /\ UNCHANGED <<wait, tries, showVars>>
Hover(i) == /\ find.open /\ i < find.hits.n /\ find' = [find EXCEPT !.active = i]
            /\ UNCHANGED <<wait, tries, showVars>>

\* Enter takes the hit that is marked, although a search may be under way.
JumpToHit ==
  /\ find.open /\ find.active < find.hits.n
  /\ Changed([find EXCEPT !.open = FALSE, !.hits = NoHits], NoWord) /\ UNCHANGED <<tries, showVars>>

-----------------------------------------------------------------------------
(* DocPreviewDrawer.vue                                                     *)

Urls == 1 .. MaxShows
NoUrl == 0

\* A document is opened at the page of a reference, which it may no longer have.
\* What another load leaves or releases is across.
Open(d, page) ==
  /\ show.state # "open" /\ files.n < MaxShows
  /\ show' = [state |-> "open", doc |-> d, page |-> page, pages |-> 0, text |-> NoPaper, url |-> NoUrl, of |-> NoPaper]
  /\ loads' = loads \union {<<d, files.n + 1>>}
  /\ files' = [n |-> files.n + 1, live |-> files.live \ {show.url}, across |-> loads # {}, crossed |-> files.crossed \/ loads # {}]
  /\ UNCHANGED findVars

\* The file has come.  What it is taken for is said by the document shown by now.
Loaded(l) ==
  /\ l \in loads /\ loads' = loads \ {l} /\ show.doc # NoPaper
  /\ IF PaperKind[show.doc] = "pdf"
     THEN /\ show' = [show EXCEPT !.url = l[2], !.of = l[1]] /\ files' = [files EXCEPT !.live = @ \union {l[2]}]
     ELSE /\ show' = [show EXCEPT !.text = IF PaperKind[show.doc] = "text" THEN l[1] ELSE @] /\ UNCHANGED files
  /\ UNCHANGED findVars

\* The drawer is closed when a file does not come, whichever it was.
LoadFailed(l) ==
  /\ l \in loads /\ loads' = loads \ {l}
  /\ show' = [show EXCEPT !.state = IF @ = "open" THEN "closing" ELSE @] /\ UNCHANGED <<files, findVars>>

\* The number of pages is known: a page beyond them becomes the last.
OnPdfLoaded ==
  /\ show.url # NoUrl /\ show.pages = 0 /\ show.state = "open" /\ PaperKind[show.of] = "pdf"
  /\ show' = [show EXCEPT !.pages = Length[show.of], !.page = IF @ > Length[show.of] THEN Length[show.of] ELSE @]
  /\ UNCHANGED <<loads, files, findVars>>

TurnPdf(step) ==
  /\ show.state = "open" /\ show.doc # NoPaper /\ PaperKind[show.doc] = "pdf"
  /\ IF step < 0 THEN show.page > 1 ELSE show.page < show.pages
  /\ show' = [show EXCEPT !.page = @ + step] /\ UNCHANGED <<loads, files, findVars>>

CloseDrawer ==
  /\ show.state = "open" /\ show' = [show EXCEPT !.state = "closing"]
  /\ UNCHANGED <<loads, files, findVars>>

\* The animation is over: the source is released.
Reset ==
  /\ show.state = "closing"
  /\ show' = [show EXCEPT !.state = "closed", !.text = NoPaper, !.url = NoUrl, !.of = NoPaper, !.pages = 0]
  /\ files' = [files EXCEPT !.live = @ \ {show.url}, !.across = @ \/ loads # {}, !.crossed = @ \/ loads # {}]
  /\ UNCHANGED <<loads, findVars>>

-----------------------------------------------------------------------------
OverlaysInit ==
  /\ find = [open |-> FALSE, word |-> NoWord, hits |-> NoHits, active |-> 0, loading |-> FALSE]
  /\ wait = [timer |-> NoWord, asked |-> {}] /\ tries = [n |-> 0, failed |-> FALSE]
  /\ show = [state |-> "closed", doc |-> NoPaper, page |-> 1, pages |-> 0, text |-> NoPaper, url |-> NoUrl, of |-> NoPaper]
  /\ loads = {} /\ files = [n |-> 0, live |-> {}, across |-> FALSE, crossed |-> FALSE]

FindNext ==
  \/ \E w \in Word \union {NoWord} : TypeWord(w)
  \/ TimerFires \/ OpenSearch \/ CloseSearch \/ JumpToHit
  \/ \E ask \in wait.asked : SearchFails(ask) \/ \E n \in 0 .. MaxHits : AnswerSearch(ask, n)
  \/ \E step \in {-1, 1} : MoveActive(step)
  \/ \E i \in 0 .. MaxHits - 1 : Hover(i)

ShowNext ==
  \/ \E d \in Paper : \E page \in 1 .. 1 + Length[d] : Open(d, page)
  \/ \E l \in loads : Loaded(l) \/ LoadFailed(l)
  \/ \E step \in {-1, 1} : TurnPdf(step)
  \/ OnPdfLoaded \/ CloseDrawer \/ Reset

OverlaysNext == FindNext \/ ShowNext

OverlaysSpec == OverlaysInit /\ [][OverlaysNext]_overlayVars

-----------------------------------------------------------------------------
(* Properties                                                               *)

\* With no search under way the hits are those of the word in the box, unless
\* its search failed; while one is announced it is under way; an empty box has
\* no hits; and what Enter takes is there.
HitsOwn ==
  /\ find.open /\ find.word # NoWord /\ ~find.loading /\ ~tries.failed => find.hits.word = find.word
  /\ find.loading => wait.timer = find.word \/ \E ask \in wait.asked : ask[1] = find.word
  /\ find.word = NoWord => find.hits = NoHits
  /\ find.hits.n > 0 => find.active < find.hits.n

\* With no load under way, and none that went across another, the drawer shows
\* its document, on one of its pages, and keeps no source but that.
PreviewOwn ==
  /\ show.state = "open" /\ loads = {} /\ ~files.across =>
       /\ show.text = IF PaperKind[show.doc] = "text" THEN show.doc ELSE NoPaper
       /\ show.of = IF PaperKind[show.doc] = "pdf" THEN show.doc ELSE NoPaper
  /\ ~files.crossed => files.live \subseteq {show.url} \ {NoUrl}
  /\ show.state = "closed" /\ ~files.across => show.url = NoUrl /\ show.text = NoPaper
  /\ show.pages > 0 => show.page \in 1 .. show.pages

\* What is shown is what was asked for last: in the search whatever order answers
\* come in, since GlobalSearch.vue drops those that are out of date; in the drawer
\* as long as no load crossed another, since DocPreviewDrawer.vue does not.
OverlaysOwn == HitsOwn /\ PreviewOwn
=============================================================================
