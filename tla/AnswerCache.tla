---------------------------- MODULE AnswerCache ----------------------------
(***************************************************************************)
(* The answer generator of the ai-service (POST /internal/chat) with its   *)
(* semantic answer cache, and the changes of the library that invalidate   *)
(* the cache through fire-and-forget calls of the document service.        *)
(*                                                                         *)
(* Questions are alike: whether a cached question is close enough to a new *)
(* one is left open.  A chunk set is what its documents are.               *)
(***************************************************************************)
EXTENDS AnswerWire

CONSTANTS
  Kbs, Docs,
  KbOf,       \* KbOf[d]: the knowledge base of document d
  Scope,      \* Scope[q]: the knowledge bases of call q, after the access filter
  NoEntry,
  Overtaken   \* may an invalidation arrive while an answer is being generated?

ASSUME CacheParameters ==
  /\ KbOf \in [Docs -> Kbs] /\ Scope \in [Calls -> (SUBSET Kbs) \ {{}}]
  /\ Overtaken \in BOOLEAN

VARIABLES
  gen,      \* gen[q]: the generator of call q
  cache,    \* cache[S]: the entry for the knowledge bases S
  live,     \* documents whose chunks can be found
  parsing,  \* documents that a parse task works on
  removed,  \* documents that were removed
  due,      \* knowledge bases whose change was committed, call not yet made
  notices   \* invalidation calls on their way

library == <<live, parsing, removed>>
cacheVars == <<gen, cache, library, due, notices>>

Scopes == {Scope[q] : q \in Calls}

\* path: how the answer came about; docs: the documents its references cite.
Off == [pc |-> "off", path |-> "none", docs |-> {}]
Generators == [pc: {"off", "retrieve", "generate", "store", "end"},
               path: {"none", "hit", "model", "fallback", "failed"}, docs: SUBSET Docs]
Entries == [docs: SUBSET Docs, by: Calls]

CacheType ==
  /\ gen \in [Calls -> Generators]
  /\ cache \in [Scopes -> Entries \cup {NoEntry}]
  /\ live \in SUBSET Docs /\ parsing \in SUBSET Docs /\ removed \in SUBSET Docs
  /\ due \in SUBSET Kbs /\ notices \in SUBSET Kbs

CacheInit ==
  /\ gen = [q \in Calls |-> Off]
  /\ cache = [S \in Scopes |-> NoEntry]
  /\ live \in SUBSET Docs
  /\ parsing = {} /\ removed = {} /\ due = {} /\ notices = {}

-----------------------------------------------------------------------------
(* POST /internal/chat                                                      *)

\* Only first questions without attachments: other answers depend on more
\* than the library.
Cacheable(q) == wire[q].single /\ ~wire[q].files

Goes(q, point) == gen' = [gen EXCEPT ![q].pc = point]
Finish(q, path) == gen' = [gen EXCEPT ![q].pc = "end", ![q].path = path]

\* A close enough question of the same knowledge bases is answered from the cache.
Hit(q) ==
  /\ gen[q].pc = "off" /\ wire[q].state \in {"open", "aborted"}
  /\ Cacheable(q) /\ cache[Scope[q]] # NoEntry
  /\ gen' = [gen EXCEPT ![q] = [pc |-> "end", path |-> "hit", docs |-> cache[Scope[q]].docs]]
  /\ WriteLast(q, <<"references", "delta", "cached">>)
  /\ UNCHANGED <<cache, library, due, notices, used>>

Miss(q) ==
  /\ gen[q].pc = "off" /\ wire[q].state \in {"open", "aborted"}
  /\ Goes(q, "retrieve")
  /\ UNCHANGED <<cache, library, due, notices, wire, used>>

\* Nothing found and nothing attached: the canned reply, without the model.  An
\* empty list of references is sent too, but the reader does nothing with it.
Retrieve(q) ==
  LET found == {d \in live : KbOf[d] \in Scope[q]} IN
  /\ gen[q].pc = "retrieve"
  /\ IF found = {} /\ ~wire[q].files
     THEN Finish(q, "fallback") /\ WriteLast(q, <<"delta", "fallback">>)
     ELSE /\ gen' = [gen EXCEPT ![q].pc = "generate", ![q].docs = found]
          /\ Write(q, IF found = {} THEN <<>> ELSE <<"references">>)
  /\ UNCHANGED <<cache, library, due, notices, used>>

\* The model's answer is passed on, followed by done; storing comes after.
Generate(q) ==
  LET events == <<"delta", "done">> IN
  /\ gen[q].pc = "generate"
  /\ IF Cacheable(q) /\ gen[q].docs # {}
     THEN gen' = [gen EXCEPT ![q].pc = "store", ![q].path = "model"] /\ Write(q, events)
     ELSE Finish(q, "model") /\ WriteLast(q, events)
  /\ UNCHANGED <<cache, library, due, notices, used>>

\* Insert or replace the entry of these knowledge bases.
Store(q) ==
  /\ gen[q].pc = "store"
  /\ cache' = [cache EXCEPT ![Scope[q]] = [docs |-> gen[q].docs, by |-> q]]
  /\ Goes(q, "end")
  /\ WriteLast(q, <<>>)
  /\ UNCHANGED <<library, due, notices, used>>

\* A failure to store is only printed.
StoreFails(q) ==
  /\ gen[q].pc = "store"
  /\ Goes(q, "end")
  /\ WriteLast(q, <<>>)
  /\ UNCHANGED <<cache, library, due, notices, used>>

\* The re-embedding gate is closed, or embedding, retrieval or model fail.
GenerationFails(q) ==
  /\ \/ gen[q].pc = "off" /\ wire[q].state \in {"open", "aborted"}
     \/ gen[q].pc \in {"retrieve", "generate"}
  /\ Finish(q, "failed")
  /\ WriteLast(q, <<"error">>)
  /\ UNCHANGED <<cache, library, due, notices, used>>

\* The reader is gone: the generator is closed at its next yield.
Close(q) ==
  /\ wire[q].state = "aborted" /\ gen[q].pc # "end"
  /\ Goes(q, "end")
  /\ UNCHANGED <<cache, library, due, notices, wire, used>>

\* The ai-service restarts: open responses break off or end early.
Outage ==
  /\ Happens("crash")
  /\ gen' = [q \in Calls |-> IF wire[q].state = "none" THEN gen[q]
                             ELSE [gen[q] EXCEPT !.pc = "end"]]
  /\ \E state \in {"broken", "closed"} :
       wire' = [q \in Calls |-> IF wire[q].state = "open"
                                THEN [wire[q] EXCEPT !.state = state] ELSE wire[q]]
  /\ UNCHANGED <<cache, library, due, notices>>

-----------------------------------------------------------------------------
(* The library and the invalidation calls                                   *)

\* The parse task is submitted and the cache invalidated in the same breath.
UploadOrReparse(d) ==
  /\ d \notin removed /\ Happens("change")
  /\ parsing' = parsing \cup {d}
  /\ notices' = notices \cup {KbOf[d]}
  /\ UNCHANGED <<gen, cache, live, removed, due, wire>>

ClearChunks(d) ==
  /\ d \in parsing /\ d \in live
  /\ live' = live \ {d}
  /\ UNCHANGED <<gen, cache, parsing, removed, due, notices, wire, used>>

InsertChunks(d) ==
  /\ d \in parsing /\ d \notin live
  /\ live' = live \cup {d} /\ parsing' = parsing \ {d}
  /\ UNCHANGED <<gen, cache, removed, due, notices, wire, used>>

ParseFails(d) ==
  /\ d \in parsing
  /\ parsing' = parsing \ {d}
  /\ UNCHANGED <<gen, cache, live, removed, due, notices, wire, used>>

\* The document goes with its chunks; the counts of the knowledge base are
\* written before the cache is told.
RemoveDoc(d) ==
  /\ d \in live \cup parsing /\ Happens("change")
  /\ live' = live \ {d} /\ parsing' = parsing \ {d}
  /\ removed' = removed \cup {d}
  /\ due' = due \cup {KbOf[d]}
  /\ UNCHANGED <<gen, cache, notices, wire>>

Notify(k) ==
  /\ k \in due
  /\ due' = due \ {k} /\ notices' = notices \cup {k}
  /\ UNCHANGED <<gen, cache, library, wire, used>>

\* The document service dies first, or the call fails: a warning in the log.
NoticeLost(k) ==
  /\ k \in due \cup notices /\ Happens("lost")
  /\ due' = due \ {k} /\ notices' = notices \ {k}
  /\ UNCHANGED <<gen, cache, library, wire>>

InFlight(k) == \E q \in Calls : gen[q].pc \in {"generate", "store"} /\ k \in Scope[q]

\* Mutant of Invalidate: only the entry of this knowledge base alone goes.
InvalidateExact(k) ==
  /\ k \in notices /\ (Overtaken \/ ~InFlight(k))
  /\ cache' = [S \in Scopes |-> IF S = {k} THEN NoEntry ELSE cache[S]]
  /\ notices' = notices \ {k}
  /\ UNCHANGED <<gen, library, due, wire, used>>

\* Every entry whose knowledge bases include k.
Invalidate(k) ==
  /\ k \in notices /\ (Overtaken \/ ~InFlight(k))
  /\ cache' = [S \in Scopes |-> IF k \in S THEN NoEntry ELSE cache[S]]
  /\ notices' = notices \ {k}
  /\ UNCHANGED <<gen, library, due, wire, used>>

\* expires_at passes.
Expire(S) ==
  /\ cache[S] # NoEntry
  /\ cache' = [cache EXCEPT ![S] = NoEntry]
  /\ UNCHANGED <<gen, library, due, notices, wire, used>>

-----------------------------------------------------------------------------

Produce(q) ==
  \/ Hit(q) \/ Miss(q) \/ Retrieve(q) \/ Generate(q) \/ Store(q) \/ StoreFails(q)
  \/ GenerationFails(q) \/ Close(q)

Change ==
  \/ \E d \in Docs : UploadOrReparse(d) \/ ClearChunks(d) \/ InsertChunks(d)
                       \/ ParseFails(d) \/ RemoveDoc(d)
  \/ \E k \in Kbs : Notify(k) \/ NoticeLost(k) \/ Invalidate(k)

CacheNext ==
  \/ \E q \in Calls : Produce(q)
  \/ Outage \/ Change
  \/ \E S \in Scopes : Expire(S)

-----------------------------------------------------------------------------
(* Properties                                                               *)

\* "防止已删内容继续作为缓存答案返回": once every invalidation has arrived, no
\* entry rests on a removed document.
RemovedForgotten ==
  due = {} /\ notices = {} /\ used["lost"] = 0 =>
    \A S \in Scopes : cache[S] # NoEntry => cache[S].docs \cap removed = {}
=============================================================================
