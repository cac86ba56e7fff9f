--------------------------- MODULE SystemSettings ---------------------------
(* The single row of settings, its saves, and the two caches that read it:  *)
(* the provider keys in each process of the ai-service and the address list *)
(* in front of every request of the server.  Time passes in ticks; a cache  *)
(* knows the age of what it holds.                                          *)
EXTENDS Integers, FiniteSets

CONSTANTS
  Admin,      \* saves that may overlap
  Provider,   \* providers of models
  Key,        \* keys; NoKey means the default of the environment
  Lookup,     \* threads that resolve the key of the provider Used
  WebLookup,  \* those of the web process; the others are workers
  Visit,      \* requests that pass the guard
  NoKey, Used,
  KeyTtl,     \* ticks a key is cached (45 s)
  ListTtl,    \* ticks the address list is cached (30 s)
  MaxSaves    \* bound

ASSUME SystemSettingsAssumption ==
  /\ Used \in Provider /\ NoKey \notin Key /\ WebLookup \subseteq Lookup
  /\ {KeyTtl, ListTtl} \subseteq Nat \ {0} /\ MaxSaves \in Nat

VARIABLES
  row,      \* the keys and the address list (the section "security")
  save,     \* of each save what it asks for and the row it read
  saves,    \* how many began
  reloads,  \* reload calls on their way
  keyCache, \* of each process
  lookup,
  listCache, visit,
  held,     \* history: what was in force during each of the last ticks
  given,    \* history: the key last saved for each provider
  crossed   \* history: two saves of keys overlapped

settingsVars == <<row, save, saves, reloads, keyCache, lookup, listCache, visit, held, given, crossed>>

Holder == {"web", "worker"}   \* processes that hold a cache of keys
HolderOf(l) == IF l \in WebLookup THEN "web" ELSE "worker"
Keys == Key \union {NoKey}
Lists == {"off", "office"}        \* an empty list, a list with one address
Address == {"office", "home", "local"}
Unsent == "unsent"
Empty == [age |-> 0, is |-> Unsent, blind |-> FALSE]

\* What a request asks for: keys of some providers, a new list, or both.
Changes ==
  [keys : UNION {[P -> Keys] : P \in SUBSET Provider}, list : Lists \union {Unsent}]
Nothing == [keys |-> [p \in {} |-> NoKey], list |-> Unsent]
MentionsKeys(change) == DOMAIN change.keys # {}

Idle == [pc |-> "idle", age |-> 0, is |-> Unsent, blind |-> FALSE]

SettingsInit ==
  /\ row = [keys |-> [p \in Provider |-> NoKey], list |-> "off"]
  /\ save = [a \in Admin |-> [open |-> FALSE, change |-> Nothing, read |-> row]]
  /\ saves = 0 /\ reloads = 0
  /\ keyCache = [p \in Holder |-> Empty]
  /\ lookup = [l \in Lookup |-> Idle]
  /\ listCache = Empty
  /\ visit = [v \in Visit |-> Idle]
  /\ held = [keys |-> [age \in 0 .. KeyTtl - 1 |-> {NoKey}],
             lists |-> [age \in 0 .. ListTtl - 1 |-> {"off"}]]
  /\ given = [p \in Provider |-> NoKey] /\ crossed = FALSE

-----------------------------------------------------------------------------
(* settings.service: update                                                 *)

SaveRead(a, change) ==
  /\ ~save[a].open /\ saves < MaxSaves
  /\ save' = [save EXCEPT ![a] = [open |-> TRUE, change |-> change, read |-> row]]
  /\ crossed' = (crossed \/ /\ MentionsKeys(change)
                            /\ \E b \in Admin : save[b].open /\ MentionsKeys(save[b].change))
  /\ saves' = saves + 1
  /\ UNCHANGED <<row, reloads, keyCache, lookup, listCache, visit, held, given>>

\* Providers that are not mentioned keep their keys; an empty key removes one.
MergeApiKeys(current, input) ==
  [p \in Provider |-> IF p \in DOMAIN input THEN input[p] ELSE current[p]]

\* Mutant of Merged: the column of keys is always written.
MergedAll(read, change) ==
  [keys |-> MergeApiKeys(read.keys, change.keys),
   list |-> IF change.list = Unsent THEN read.list ELSE change.list]

\* The row written: every section as it was read, changed or not, but the keys
\* only when some were sent.
Merged(read, change) ==
  [keys |-> IF MentionsKeys(change) THEN MergeApiKeys(read.keys, change.keys) ELSE row.keys,
   list |-> IF change.list = Unsent THEN read.list ELSE change.list]

SaveWrite(a) ==
  LET change == save[a].change IN
  /\ save[a].open
  /\ row' = Merged(save[a].read, change)
  /\ reloads' = reloads + (IF MentionsKeys(change) THEN 1 ELSE 0)
  /\ save' = [save EXCEPT ![a] = [open |-> FALSE, change |-> Nothing, read |-> row']]
  /\ given' = MergeApiKeys(given, change.keys)
  /\ held' = [keys |-> [held.keys EXCEPT ![0] = @ \union {row'.keys[Used]}],
              lists |-> [held.lists EXCEPT ![0] = @ \union {row'.list}]]
  /\ UNCHANGED <<saves, keyCache, lookup, listCache, visit, crossed>>

\* POST /internal/keys/reload, which may be lost.
Reload ==
  /\ reloads > 0 /\ reloads' = reloads - 1
  /\ keyCache' \in {keyCache, [keyCache EXCEPT !["web"] = Empty]}
  /\ UNCHANGED <<row, save, saves, lookup, listCache, visit, held, given, crossed>>

-----------------------------------------------------------------------------
(* keystore                                                                 *)

Look(l) ==
  LET cached == keyCache[HolderOf(l)] IN
  /\ lookup[l].pc = "idle"
  /\ lookup' = [lookup EXCEPT ![l].pc =
       IF cached # Empty /\ cached.age < KeyTtl THEN "hit" ELSE "load"]
  /\ UNCHANGED <<row, save, saves, reloads, keyCache, listCache, visit, held, given, crossed>>

\* The module variable is read again: after a reload there is nothing to take,
\* and the lookup raises.
TakeHit(l) ==
  LET cached == keyCache[HolderOf(l)] IN
  /\ lookup[l].pc = "hit"
  /\ lookup' = [lookup EXCEPT ![l] =
       IF cached = Empty THEN Idle
       ELSE [pc |-> "resolved", age |-> 0, is |-> cached.is, blind |-> cached.blind]]
  /\ UNCHANGED <<row, save, saves, reloads, keyCache, listCache, visit, held, given, crossed>>

\* A read that fails counts as a row without keys.
LoadKeys(l) ==
  /\ lookup[l].pc = "load"
  /\ \E blind \in BOOLEAN :
       lookup' = [lookup EXCEPT ![l] = [pc |-> "store", age |-> @.age, blind |-> blind,
                                        is |-> IF blind THEN NoKey ELSE row.keys[Used]]]
  /\ UNCHANGED <<row, save, saves, reloads, keyCache, listCache, visit, held, given, crossed>>

\* Mutant of Stamp: the time is taken after the read.
StampLate(asked) == 0

\* The age of what is stored counts from before the read.
Stamp(asked) == asked.age

StoreKeys(l) ==
  LET asked == lookup[l] IN
  /\ asked.pc = "store"
  /\ keyCache' = [keyCache EXCEPT ![HolderOf(l)] =
       [age |-> Stamp(asked), is |-> asked.is, blind |-> asked.blind]]
  /\ lookup' = [lookup EXCEPT ![l].pc = "resolved", ![l].age = 0]
  /\ UNCHANGED <<row, save, saves, reloads, listCache, visit, held, given, crossed>>

\* The key is used for a call of the provider; without one the call raises.
UseKey(l) ==
  /\ lookup[l].pc = "resolved"
  /\ lookup' = [lookup EXCEPT ![l] = Idle]
  /\ UNCHANGED <<row, save, saves, reloads, keyCache, listCache, visit, held, given, crossed>>

-----------------------------------------------------------------------------
(* ip-whitelist.guard                                                       *)

\* An empty list is no list, and the machine itself is never barred.
IsIpAllowed(address, list) == list = "off" \/ address = "local" \/ address = list

Arrive(v) ==
  /\ visit[v].pc = "idle"
  /\ IF listCache # Empty /\ listCache.age < ListTtl
     THEN visit' = [visit EXCEPT ![v] = [pc |-> "judge", age |-> 0, is |-> listCache.is, blind |-> FALSE]]
     ELSE visit' = [visit EXCEPT ![v].pc = "load"]
  /\ UNCHANGED <<row, save, saves, reloads, keyCache, lookup, listCache, held, given, crossed>>

\* A read that fails lets this request pass and is not cached.
LoadEntries(v) ==
  /\ visit[v].pc = "load"
  /\ \E blind \in BOOLEAN :
       visit' = [visit EXCEPT ![v] =
         [pc |-> IF blind THEN "judge" ELSE "store", age |-> @.age, blind |-> blind,
          is |-> IF blind THEN "off" ELSE row.list]]
  /\ UNCHANGED <<row, save, saves, reloads, keyCache, lookup, listCache, held, given, crossed>>

StoreEntries(v) ==
  LET asked == visit[v] IN
  /\ asked.pc = "store"
  /\ listCache' = [age |-> Stamp(asked), is |-> asked.is, blind |-> FALSE]
  /\ visit' = [visit EXCEPT ![v].pc = "judge", ![v].age = 0]
  /\ UNCHANGED <<row, save, saves, reloads, keyCache, lookup, held, given, crossed>>

\* canActivate
Judge(v) ==
  /\ visit[v].pc = "judge"
  /\ \E address \in Address :
       visit' = [visit EXCEPT ![v] =
         [@ EXCEPT !.pc = IF IsIpAllowed(address, visit[v].is) THEN "passed" ELSE "barred"]]
  /\ UNCHANGED <<row, save, saves, reloads, keyCache, lookup, listCache, held, given, crossed>>

Gone(v) ==
  /\ visit[v].pc \in {"passed", "barred"}
  /\ visit' = [visit EXCEPT ![v] = Idle]
  /\ UNCHANGED <<row, save, saves, reloads, keyCache, lookup, listCache, held, given, crossed>>

-----------------------------------------------------------------------------
Older(entry, ttl) == [entry EXCEPT !.age = IF entry = Empty \/ @ = ttl THEN @ ELSE @ + 1]
Waiting(entry, ttl) ==
  [entry EXCEPT !.age = IF entry.pc \notin {"load", "store"} \/ @ = ttl THEN @ ELSE @ + 1]
Shifted(past, now) == [age \in DOMAIN past |-> IF age = 0 THEN {now} ELSE past[age - 1]]

Tick ==
  /\ keyCache' = [p \in Holder |-> Older(keyCache[p], KeyTtl)]
  /\ lookup' = [l \in Lookup |-> Waiting(lookup[l], KeyTtl)]
  /\ listCache' = Older(listCache, ListTtl)
  /\ visit' = [v \in Visit |-> Waiting(visit[v], ListTtl)]
  /\ held' = [keys |-> Shifted(held.keys, row.keys[Used]), lists |-> Shifted(held.lists, row.list)]
  /\ UNCHANGED <<row, save, saves, reloads, given, crossed>>

SettingsNext ==
  \/ \E a \in Admin, change \in Changes \ {Nothing} : SaveRead(a, change)
  \/ \E a \in Admin : SaveWrite(a)
  \/ Reload
  \/ \E l \in Lookup : Look(l) \/ TakeHit(l) \/ LoadKeys(l) \/ StoreKeys(l) \/ UseKey(l)
  \/ \E v \in Visit : Arrive(v) \/ LoadEntries(v) \/ StoreEntries(v) \/ Judge(v) \/ Gone(v)
  \/ Tick

SettingsSpec == SettingsInit /\ [][SettingsNext]_settingsVars

-----------------------------------------------------------------------------
(* Properties                                                               *)

LateKeys == UNION {held.keys[age] : age \in DOMAIN held.keys}
LateLists == UNION {held.lists[age] : age \in DOMAIN held.lists}

KeyFresh ==
  \A l \in Lookup :
    LET cached == keyCache[HolderOf(l)] IN
    lookup[l].pc = "idle" /\ lookup'[l].pc = "hit" /\ ~cached.blind => cached.is \in LateKeys

ListFresh ==
  \A v \in Visit :
    /\ visit[v].pc = "idle" /\ visit'[v].pc = "judge" => visit'[v].is \in LateLists
    /\ visit[v].pc = "judge" /\ visit'[v].pc = "barred" => ~visit[v].blind

\* "更换 key 后 worker 侧最迟此延迟生效", "白名单改动最多 30s 生效": a lookup or a
\* request that does not ask the database finds a key or a list that was in
\* force within the last 45 or 30 seconds, in every process, whether reloads
\* arrive or not, and however slow the reads were that filled the cache and in
\* whichever order they did; unless the read of the keys failed.  No request is
\* refused because a read failed.
CachesFresh == [][KeyFresh /\ ListFresh]_settingsVars

\* "未提及的既有 key 保留": while no two saves of keys overlap, each provider has
\* the key last saved for it, whatever saves of other sections overlap.
KeysSurvive == ~crossed => row.keys = given
=============================================================================
