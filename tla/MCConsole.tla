----------------------------- MODULE MCConsole -----------------------------
(* The settings, the health of the embedding provider and the pages: those  *)
(* about knowledge bases, the box of the chat page, the answers that are    *)
(* kept, the search and the preview over them and the figures; each on its  *)
(* own and some with a few of their operations at a time: their products    *)
(* would say nothing more.                                                  *)
EXTENDS SystemSettings, EmbeddingHealth, KnowledgePages, Composer, Favourites, Overlays, Reports

CONSTANTS c1, c2, c3, f1, f2, f3, d1, d2, b1, b2, g1, m1

VARIABLE part

mcVars == <<part, settingsVars, healthVars, pageVars, composerVars, favVars, overlayVars, reportVars>>
otherVars == <<composerVars, favVars, overlayVars, reportVars>>
consoleVars == <<settingsVars, healthVars, pageVars>>

Processes == c1 :> "web" @@ c2 :> "web" @@ c3 :> "worker"
Docs12 == 1 .. 2
Kinds == f1 :> "big" @@ f2 :> "dot" @@ f3 :> "large"
PaperKinds == d1 :> "pdf" @@ d2 :> "text"
Lengths == d1 :> 2 @@ d2 :> 1
Depts == b1 :> "sales" @@ b2 :> NoDept

Init ==
  /\ part \in {"saves", "keys", "list", "health", "form", "custom", "drop", "import", "box", "copies", "board",
              "search", "preview", "figures", "reflow"}
  /\ SettingsInit /\ HealthInit /\ PagesInit /\ ComposerInit /\ FavInit /\ OverlaysInit /\ ReportsInit
  /\ (part = "board") = (said = Spoken)

-----------------------------------------------------------------------------
\* Saves that overlap; what is read from the row is then of no account.
SomeChanges ==
  CASE part = "saves" -> Changes \ {Nothing}
    [] part = "keys" -> {[keys |-> [p \in {Used} |-> k], list |-> Unsent] : k \in Keys}
    [] part = "list" -> {[keys |-> [p \in {} |-> NoKey], list |-> l] : l \in Lists}

\* The caches of keys, and the cache of addresses.
SomeSettings ==
  \/ \E a \in Admin : SaveWrite(a) \/ \E change \in SomeChanges : SaveRead(a, change)
  \/ part = "keys" /\ (\/ Reload \/ Tick
                       \/ \E l \in Lookup : Look(l) \/ TakeHit(l) \/ LoadKeys(l) \/ StoreKeys(l) \/ UseKey(l))
  \/ part = "list" /\ (\/ Tick
                       \/ \E v \in Visit : Arrive(v) \/ LoadEntries(v) \/ StoreEntries(v) \/ Judge(v) \/ Gone(v))

\* The form of the detail page without uploads; and one way to upload with its
\* page and the list, with nothing typed; the knowledge bases are interchangeable.
SomePages ==
  /\ PagesNext
  /\ page'.view \in {"list", IF part \in {"form", "custom"} THEN "detail" ELSE "chat"}
  /\ IF part = "form" THEN UNCHANGED upload
     ELSE /\ UNCHANGED <<config, current>> /\ ~page'.reset
          /\ detail' \subseteq detail \/ detail = {}
          /\ \A u \in Upload : upload'[u].by \in {"none", part}
          /\ part \in {"custom", "drop"} => status'[2] = "none"
          /\ home'[1] \in {NoKb, CHOOSE k \in Kb : TRUE}

\* A conversation and its copies; and what the two pages show of copies of a
\* conversation that is over, until one of their slips.
SomeFavourites ==
  /\ FavNext
  /\ IF part = "copies" THEN UNCHANGED <<chat, board, drop>> ELSE Clean /\ UNCHANGED <<said, past.clock>>

\* One load, until it is torn or shown, and every answer (the models are
\* interchangeable); and several loads with what they list of answers of one
\* asker that were all given before.
SomeReports ==
  /\ ReportsNext
  /\ IF part = "figures"
     THEN /\ UNCHANGED <<shelves, reflow>> /\ history'.loads <= 1 /\ screen.shown = NoFigures
          /\ \A l \in DOMAIN screen.loads : ~screen.loads[l].torn
          /\ \A a \in answers' : a.kb = NoLibrary /\ a.mark = "none" /\ (a.n = 1 => a.model = m1)
     ELSE /\ UNCHANGED <<now, daily>> /\ ~history.slip
          /\ history'.loads > 0 => history'.asked = history.asked /\ \A a \in answers' : a.done
          /\ answers # {} => answers' # {}
          /\ \A a \in answers' : a.by = b1 /\ a.model = m1 /\ ~a.hit /\ a.kb \in {g1, NoLibrary} /\ a.mark # "like"
          /\ \A a \in answers : a.mark # "none" => a \in answers'

Next ==
  /\ UNCHANGED part
  /\ \/ part \in {"saves", "keys", "list"} /\ SomeSettings /\ UNCHANGED <<healthVars, pageVars, otherVars>>
     \/ part = "health" /\ HealthNext /\ UNCHANGED <<settingsVars, pageVars, otherVars>>
     \/ part \in {"form", "custom", "drop", "import"} /\ SomePages
        /\ UNCHANGED <<settingsVars, healthVars, otherVars>>
     \/ part = "box" /\ ComposerNext /\ UNCHANGED <<consoleVars, favVars, overlayVars, reportVars>>
     \/ part \in {"copies", "board"} /\ SomeFavourites
        /\ UNCHANGED <<consoleVars, composerVars, overlayVars, reportVars>>
     \/ part = "search" /\ FindNext /\ UNCHANGED <<consoleVars, composerVars, favVars, reportVars>>
     \/ part = "preview" /\ ShowNext /\ UNCHANGED <<consoleVars, composerVars, favVars, reportVars>>
     \/ part \in {"figures", "reflow"} /\ SomeReports
        /\ UNCHANGED <<consoleVars, composerVars, favVars, overlayVars>>

Spec == Init /\ [][Next]_mcVars
=============================================================================
