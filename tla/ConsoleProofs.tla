---------------------------- MODULE ConsoleProofs ----------------------------
(***************************************************************************)
(* Theorems about the parts that MCConsole runs together: the settings and *)
(* their caches, the health of the embedding provider, and pages, with the *)
(* answers that are kept and the figures.  Each is about the specification *)
(* of its part, for any values of its constants.                           *)
(***************************************************************************)
EXTENDS SystemSettings, EmbeddingHealth, Overlays, KnowledgePages, Composer, Favourites, Reports,
        SequenceTheorems, FiniteSetTheorems, FunctionTheorems, TLAPS

-----------------------------------------------------------------------------
(* Settings and provider keys                                               *)

\* A save that is under way and will write the column of keys.
WritesKeys(a) == save[a].open /\ MentionsKeys(save[a].change)

Shape ==
  /\ DOMAIN save = Admin
  /\ given = [p \in Provider |-> given[p]]

\* What a save of keys holds is what the row says, and there is one such save.
OneSave ==
  ~crossed =>
    /\ row.keys = given
    /\ \A a \in Admin : WritesKeys(a) => save[a].read.keys = row.keys
    /\ \A a, b \in Admin : WritesKeys(a) /\ WritesKeys(b) => a = b

SettingsInv == Shape /\ OneSave

LEMMA MergeNothing ==
  ASSUME NEW stood, stood = [p \in Provider |-> stood[p]],
         NEW input, DOMAIN input = {}
  PROVE  MergeApiKeys(stood, input) = stood
  BY DEF MergeApiKeys

LEMMA MergeShape ==
  ASSUME NEW stood, NEW input
  PROVE  MergeApiKeys(stood, input)
           = [p \in Provider |-> MergeApiKeys(stood, input)[p]]
  BY DEF MergeApiKeys

LEMMA SettingsInitInv == SettingsInit => SettingsInv
  BY DEF SettingsInit, SettingsInv, Shape, OneSave, WritesKeys

LEMMA SaveReadInv ==
  ASSUME SettingsInv, NEW a \in Admin, NEW change, SaveRead(a, change)
  PROVE  SettingsInv'
<1> DEFINE new == [open |-> TRUE, change |-> change, read |-> row]
<1>1. Shape'
  BY DEF SaveRead, SettingsInv, Shape
<1>2. /\ save'[a].open /\ save'[a].change = change /\ save'[a].read = row
      /\ \A b \in Admin \ {a} : save'[b] = save[b]
  BY DEF SaveRead, SettingsInv, Shape
<1>3. ASSUME ~crossed' PROVE OneSave'
  <2>1. ~crossed /\ row' = row /\ given' = given
    BY <1>3 DEF SaveRead
  <2>2. \A b \in Admin \ {a} : WritesKeys(b)' <=> WritesKeys(b)
    BY <1>2 DEF WritesKeys
  <2>3. WritesKeys(a)' => \A b \in Admin : ~WritesKeys(b)
    BY <1>2, <1>3 DEF SaveRead, WritesKeys
  <2>4. ~WritesKeys(a)
    BY DEF SaveRead, WritesKeys
  <2>5. \A b \in Admin : WritesKeys(b)' => save'[b].read.keys = row'.keys
    BY <1>2, <2>1, <2>2 DEF SettingsInv, OneSave
  <2>6. \A b, c \in Admin : WritesKeys(b)' /\ WritesKeys(c)' => b = c
    BY <2>1, <2>2, <2>3 DEF SettingsInv, OneSave
  <2> QED
    BY <2>1, <2>5, <2>6 DEF SettingsInv, OneSave
<1> QED
  BY <1>1, <1>3 DEF SettingsInv, OneSave

LEMMA SaveWriteInv ==
  ASSUME SettingsInv, NEW a \in Admin, SaveWrite(a)
  PROVE  SettingsInv'
<1> DEFINE change == save[a].change
<1>1. /\ ~save'[a].open
      /\ \A b \in Admin \ {a} : save'[b] = save[b]
      /\ DOMAIN save' = Admin
  BY DEF SaveWrite, SettingsInv, Shape
<1>2. Shape'
  <2>1. given' = MergeApiKeys(given, change.keys)
    BY DEF SaveWrite
  <2> QED
    BY <1>1, <2>1, MergeShape DEF Shape
<1>3. \A b \in Admin : WritesKeys(b)' => b # a /\ WritesKeys(b) /\ save'[b] = save[b]
  BY <1>1 DEF WritesKeys
<1>4. /\ row'.keys = IF MentionsKeys(change) THEN MergeApiKeys(save[a].read.keys, change.keys)
                     ELSE row.keys
      /\ given' = MergeApiKeys(given, change.keys)
      /\ save[a].open /\ crossed' = crossed
  BY DEF SaveWrite, Merged
<1>5. ASSUME ~crossed PROVE OneSave'
  <2>1. CASE MentionsKeys(change)
    <3>1. WritesKeys(a)
      BY <1>4, <2>1 DEF WritesKeys
    <3>2. \A b \in Admin : ~WritesKeys(b)'
      BY <1>3, <1>5, <3>1 DEF SettingsInv, OneSave
    <3>3. save[a].read.keys = given
      BY <1>5, <3>1 DEF SettingsInv, OneSave
    <3> QED
      BY <1>4, <2>1, <3>2, <3>3 DEF OneSave
  <2>2. CASE ~MentionsKeys(change)
    <3>1. given' = given
      BY <1>4, <2>2, MergeNothing DEF MentionsKeys, SettingsInv, Shape
    <3>2. row'.keys = row.keys
      BY <1>4, <2>2
    <3> QED
      BY <1>3, <1>5, <3>1, <3>2 DEF SettingsInv, OneSave
  <2> QED
    BY <2>1, <2>2
<1> QED
  BY <1>2, <1>4, <1>5 DEF SettingsInv, OneSave

\* Reloads, lookups, requests and time do not touch the row.
LEMMA OtherInv ==
  ASSUME SettingsInv, UNCHANGED <<row, save, given, crossed>>
  PROVE  SettingsInv'
  BY DEF SettingsInv, Shape, OneSave, WritesKeys

LEMMA SettingsStep == SettingsInv /\ [SettingsNext]_settingsVars => SettingsInv'
<1> SUFFICES ASSUME SettingsInv, [SettingsNext]_settingsVars PROVE SettingsInv'
  OBVIOUS
<1>1. CASE \E a \in Admin, change \in Changes \ {Nothing} : SaveRead(a, change)
  BY <1>1, SaveReadInv
<1>2. CASE \E a \in Admin : SaveWrite(a)
  BY <1>2, SaveWriteInv
<1>3. CASE \E l \in Lookup : Look(l) \/ TakeHit(l) \/ LoadKeys(l) \/ StoreKeys(l) \/ UseKey(l)
  BY <1>3, OtherInv DEF Look, TakeHit, LoadKeys, StoreKeys, UseKey
<1>4. CASE \E v \in Visit : Arrive(v) \/ LoadEntries(v) \/ StoreEntries(v) \/ Judge(v) \/ Gone(v)
  BY <1>4, OtherInv DEF Arrive, LoadEntries, StoreEntries, Judge, Gone
<1>5. CASE Reload \/ Tick \/ UNCHANGED settingsVars
  BY <1>5, OtherInv DEF Reload, Tick, settingsVars
<1> QED
  BY <1>1, <1>2, <1>3, <1>4, <1>5 DEF SettingsNext

\* A key that is not mentioned is kept: while no two saves of keys overlap, each
\* provider has the key last saved for it (settings.service.ts, update).
THEOREM KeysKept == SettingsSpec => []KeysSurvive
<1>1. SettingsInv => KeysSurvive
  BY DEF SettingsInv, OneSave, KeysSurvive
<1> QED
  BY <1>1, SettingsInitInv, SettingsStep, PTL DEF SettingsSpec
-----------------------------------------------------------------------------
(* The caches                                                               *)

Rows == [keys : [Provider -> Keys], list : Lists]
Entries(values) == [age : Nat, is : values \union {Unsent}, blind : BOOLEAN]
Threads(values, places) ==
  [pc : places, age : Nat, is : values \union {Unsent}, blind : BOOLEAN]
Lookups == Threads(Keys, {"idle", "hit", "load", "store", "resolved"})
Visits == Threads(Lists, {"idle", "load", "store", "judge", "passed", "barred"})

SettingsType ==
  /\ row \in Rows
  /\ save \in [Admin -> [open : BOOLEAN, change : Changes, read : Rows]]
  /\ keyCache \in [Holder -> Entries(Keys)]
  /\ lookup \in [Lookup -> Lookups]
  /\ listCache \in Entries(Lists)
  /\ visit \in [Visit -> Visits]
  /\ held \in [keys : [0 .. KeyTtl - 1 -> SUBSET Keys], lists : [0 .. ListTtl - 1 -> SUBSET Lists]]

\* What is that old was in force since then.
Late(older, ttl, age, value) == age < ttl => \E b \in 0 .. age : value \in older[b]

\* The caches, and the reads that are about to fill them, hold what was in force
\* as late as their age says, unless the read failed.
KeysLate ==
  /\ row.keys[Used] \in held.keys[0]
  /\ \A p \in Holder : keyCache[p] # Empty /\ ~keyCache[p].blind =>
       Late(held.keys, KeyTtl, keyCache[p].age, keyCache[p].is)
  /\ \A l \in Lookup : lookup[l].pc = "store" /\ ~lookup[l].blind =>
       Late(held.keys, KeyTtl, lookup[l].age, lookup[l].is)

ListsLate ==
  /\ row.list \in held.lists[0]
  /\ listCache # Empty => Late(held.lists, ListTtl, listCache.age, listCache.is)
  /\ \A v \in Visit :
       /\ visit[v].pc = "store" => ~visit[v].blind /\ Late(held.lists, ListTtl, visit[v].age, visit[v].is)
       /\ visit[v].pc = "judge" /\ visit[v].blind => visit[v].is = "off"

CachesInv == SettingsType /\ KeysLate /\ ListsLate

LEMMA LateShift ==
  ASSUME NEW ttl \in Nat, NEW older, DOMAIN older = 0 .. ttl - 1, NEW fresh, NEW age \in Nat,
         NEW value, Late(older, ttl, age, value)
  PROVE  Late(Shifted(older, fresh), ttl, age + 1, value)
<1> SUFFICES ASSUME age + 1 < ttl
             PROVE  \E b \in 0 .. age + 1 : value \in Shifted(older, fresh)[b]
  BY DEF Late
<1>1. PICK b \in 0 .. age : value \in older[b]
  BY DEF Late
<1>2. b + 1 \in 0 .. ttl - 1 /\ b + 1 \in 0 .. age + 1 /\ b + 1 # 0 /\ (b + 1) - 1 = b
  OBVIOUS
<1>3. Shifted(older, fresh)[b + 1] = older[b]
  BY <1>2 DEF Shifted
<1> QED  BY <1>1, <1>2, <1>3

LEMMA LateGrow ==
  ASSUME NEW ttl \in Nat, NEW older, DOMAIN older = 0 .. ttl - 1, NEW more, NEW age \in Nat,
         NEW value, Late(older, ttl, age, value)
  PROVE  Late([older EXCEPT ![0] = @ \union {more}], ttl, age, value)
<1> SUFFICES ASSUME age < ttl
             PROVE  \E b \in 0 .. age : value \in [older EXCEPT ![0] = @ \union {more}][b]
  BY DEF Late
<1>1. PICK b \in 0 .. age : value \in older[b]
  BY DEF Late
<1>2. b \in 0 .. ttl - 1
  OBVIOUS
<1>3. older[b] \subseteq [older EXCEPT ![0] = @ \union {more}][b]
  BY <1>2
<1> QED  BY <1>1, <1>3

LEMMA MergeTyped ==
  ASSUME NEW stood \in [Provider -> Keys], NEW change \in Changes
  PROVE  MergeApiKeys(stood, change.keys) \in [Provider -> Keys]
<1>1. \A p \in DOMAIN change.keys : change.keys[p] \in Keys
  BY DEF Changes
<1> QED  BY <1>1 DEF MergeApiKeys

LEMMA CachesInitial ==
  ASSUME SystemSettingsAssumption, SettingsInit
  PROVE  CachesInv
<1>1. NoKey \in Keys /\ "off" \in Lists
  BY DEF Keys, Lists
<1>2. row \in Rows /\ row.keys[Used] = NoKey /\ row.list = "off"
  BY <1>1, SystemSettingsAssumption DEF SettingsInit, Rows
<1>3. Nothing \in Changes
  <2>1. [p \in {} |-> NoKey] \in [{} -> Keys] /\ {} \in SUBSET Provider
    OBVIOUS
  <2>2. [p \in {} |-> NoKey] \in UNION {[P -> Keys] : P \in SUBSET Provider}
    BY <2>1
  <2> QED  BY <2>2 DEF Nothing, Changes
<1>4. save \in [Admin -> [open : BOOLEAN, change : Changes, read : Rows]]
  BY <1>2, <1>3 DEF SettingsInit
<1>5. Empty \in Entries(Keys) /\ Empty \in Entries(Lists) /\ Idle \in Lookups /\ Idle \in Visits
  BY DEF Empty, Entries, Idle, Lookups, Visits, Threads
<1>6. /\ keyCache \in [Holder -> Entries(Keys)] /\ lookup \in [Lookup -> Lookups]
      /\ listCache \in Entries(Lists) /\ visit \in [Visit -> Visits]
  BY <1>5 DEF SettingsInit
<1>7. /\ held \in [keys : [0 .. KeyTtl - 1 -> SUBSET Keys], lists : [0 .. ListTtl - 1 -> SUBSET Lists]]
      /\ held.keys[0] = {NoKey} /\ held.lists[0] = {"off"}
  <2>1. 0 \in 0 .. KeyTtl - 1 /\ 0 \in 0 .. ListTtl - 1
    BY SystemSettingsAssumption
  <2> QED  BY <1>1, <2>1 DEF SettingsInit
<1>8. KeysLate /\ ListsLate
  BY <1>2, <1>7 DEF SettingsInit, KeysLate, ListsLate, Idle
<1> QED  BY <1>2, <1>4, <1>6, <1>7, <1>8 DEF CachesInv, SettingsType

LEMMA SaveReadLate ==
  ASSUME CachesInv, NEW a \in Admin, NEW change \in Changes, SaveRead(a, change)
  PROVE  CachesInv'
<1>1. [open |-> TRUE, change |-> change, read |-> row] \in [open : BOOLEAN, change : Changes, read : Rows]
  BY DEF CachesInv, SettingsType
<1>2. save' \in [Admin -> [open : BOOLEAN, change : Changes, read : Rows]]
  BY <1>1 DEF SaveRead, CachesInv, SettingsType
<1> QED  BY <1>2 DEF SaveRead, CachesInv, SettingsType, KeysLate, ListsLate

LEMMA SaveWriteLate ==
  ASSUME SystemSettingsAssumption, CachesInv, NEW a \in Admin, SaveWrite(a)
  PROVE  CachesInv'
<1> DEFINE change == save[a].change
<1>1. change \in Changes /\ save[a].read \in Rows /\ row \in Rows
  BY DEF CachesInv, SettingsType
<1>2. /\ row' = Merged(save[a].read, change)
      /\ save' = [save EXCEPT ![a] = [open |-> FALSE, change |-> Nothing, read |-> row']]
      /\ held' = [keys |-> [held.keys EXCEPT ![0] = @ \union {row'.keys[Used]}],
                  lists |-> [held.lists EXCEPT ![0] = @ \union {row'.list}]]
      /\ UNCHANGED <<keyCache, lookup, listCache, visit>>
  BY DEF SaveWrite
<1>3. row' \in Rows
  <2>1. MergeApiKeys(save[a].read.keys, change.keys) \in [Provider -> Keys]
    BY <1>1, MergeTyped DEF Rows
  <2>2. change.list \in Lists \union {Unsent}
    BY <1>1 DEF Changes
  <2> QED  BY <1>1, <1>2, <2>1, <2>2 DEF Merged, Rows
<1>4. Nothing \in Changes
  <2>1. [p \in {} |-> NoKey] \in UNION {[P -> Keys] : P \in SUBSET Provider}
    <3>1. [p \in {} |-> NoKey] \in [{} -> Keys] /\ {} \in SUBSET Provider
      OBVIOUS
    <3> QED  BY <3>1
  <2> QED  BY <2>1 DEF Nothing, Changes
<1>5. save' \in [Admin -> [open : BOOLEAN, change : Changes, read : Rows]]
  <2>1. [open |-> FALSE, change |-> Nothing, read |-> row'] \in [open : BOOLEAN, change : Changes, read : Rows]
    BY <1>3, <1>4
  <2> QED  BY <1>2, <2>1 DEF CachesInv, SettingsType
<1>6. row'.keys[Used] \in Keys /\ row'.list \in Lists
  BY <1>3, SystemSettingsAssumption DEF Rows
<1>7. 0 \in 0 .. KeyTtl - 1 /\ 0 \in 0 .. ListTtl - 1 /\ KeyTtl \in Nat /\ ListTtl \in Nat
  BY SystemSettingsAssumption
<1>8. /\ held.keys \in [0 .. KeyTtl - 1 -> SUBSET Keys] /\ held.lists \in [0 .. ListTtl - 1 -> SUBSET Lists]
      /\ DOMAIN held.keys = 0 .. KeyTtl - 1 /\ DOMAIN held.lists = 0 .. ListTtl - 1
  BY DEF CachesInv, SettingsType
<1>9. /\ held' \in [keys : [0 .. KeyTtl - 1 -> SUBSET Keys], lists : [0 .. ListTtl - 1 -> SUBSET Lists]]
      /\ row'.keys[Used] \in held'.keys[0] /\ row'.list \in held'.lists[0]
  BY <1>2, <1>6, <1>7, <1>8
<1>10. ASSUME NEW age \in Nat, NEW value, Late(held.keys, KeyTtl, age, value)
       PROVE  Late(held'.keys, KeyTtl, age, value)
  BY <1>2, <1>7, <1>8, <1>10, LateGrow
<1>11. ASSUME NEW age \in Nat, NEW value, Late(held.lists, ListTtl, age, value)
       PROVE  Late(held'.lists, ListTtl, age, value)
  BY <1>2, <1>7, <1>8, <1>11, LateGrow
<1>12. SettingsType'
  BY <1>2, <1>3, <1>5, <1>9 DEF CachesInv, SettingsType
<1>13. KeysLate'
  <2>1. /\ \A p \in Holder : keyCache[p].age \in Nat
        /\ \A l \in Lookup : lookup[l].age \in Nat
    BY DEF CachesInv, SettingsType, Entries, Lookups, Threads
  <2> QED  BY <1>2, <1>9, <1>10, <2>1 DEF CachesInv, KeysLate
<1>14. ListsLate'
  <2>1. listCache.age \in Nat /\ \A v \in Visit : visit[v].age \in Nat
    BY DEF CachesInv, SettingsType, Entries, Visits, Threads
  <2> QED  BY <1>2, <1>9, <1>11, <2>1 DEF CachesInv, ListsLate
<1> QED  BY <1>12, <1>13, <1>14 DEF CachesInv

LEMMA ReloadLate ==
  ASSUME CachesInv, Reload
  PROVE  CachesInv'
<1>1. Empty \in Entries(Keys)
  BY DEF Empty, Entries
<1>2. keyCache' = keyCache \/ keyCache' = [keyCache EXCEPT !["web"] = Empty]
  BY DEF Reload
<1>3. keyCache' \in [Holder -> Entries(Keys)]
  BY <1>1, <1>2 DEF CachesInv, SettingsType
<1>4. \A p \in Holder : keyCache'[p] = Empty \/ keyCache'[p] = keyCache[p]
  BY <1>2 DEF CachesInv, SettingsType
<1>5. UNCHANGED <<row, save, lookup, listCache, visit, held>>
  BY DEF Reload
<1>6. KeysLate'
  BY <1>4, <1>5 DEF CachesInv, KeysLate
<1> QED  BY <1>3, <1>5, <1>6 DEF CachesInv, SettingsType, ListsLate

\* A lookup goes on; only one that has read the row stores.
LEMMA LookupLate ==
  ASSUME CachesInv, NEW l \in Lookup, NEW t \in Lookups, lookup' = [lookup EXCEPT ![l] = t],
         t.pc = "store" /\ ~t.blind => Late(held.keys, KeyTtl, t.age, t.is),
         UNCHANGED <<row, save, keyCache, listCache, visit, held>>
  PROVE  CachesInv'
<1>1. lookup' \in [Lookup -> Lookups] /\ \A m \in Lookup : lookup'[m] = t \/ lookup'[m] = lookup[m]
  BY DEF CachesInv, SettingsType
<1>2. KeysLate'
  BY <1>1 DEF CachesInv, KeysLate
<1> QED  BY <1>1, <1>2 DEF CachesInv, SettingsType, ListsLate

LEMMA NowLate ==
  ASSUME NEW older, NEW ttl, NEW age \in Nat, NEW value \in older[0]
  PROVE  Late(older, ttl, age, value)
<1>1. 0 \in 0 .. age
  OBVIOUS
<1> QED  BY <1>1 DEF Late

LEMMA KeysStepLate ==
  ASSUME SystemSettingsAssumption, CachesInv, NEW l \in Lookup,
         Look(l) \/ TakeHit(l) \/ LoadKeys(l) \/ StoreKeys(l) \/ UseKey(l)
  PROVE  CachesInv'
<1>1. /\ lookup[l] \in Lookups /\ HolderOf(l) \in Holder
      /\ keyCache[HolderOf(l)] \in Entries(Keys)
  BY DEF CachesInv, SettingsType, HolderOf, Holder
<1>2. Idle \in Lookups /\ Idle.pc = "idle"
  BY DEF Idle, Lookups, Threads
<1>3. CASE Look(l)
  <2> DEFINE place == IF keyCache[HolderOf(l)] # Empty /\ keyCache[HolderOf(l)].age < KeyTtl THEN "hit" ELSE "load"
             t == [lookup[l] EXCEPT !.pc = place]
  <2>1. t \in Lookups /\ t.pc # "store"
    BY <1>1 DEF Lookups, Threads
  <2>2. lookup' = [lookup EXCEPT ![l] = t] /\ UNCHANGED <<row, save, keyCache, listCache, visit, held>>
    BY <1>3 DEF Look
  <2> HIDE DEF t
  <2> QED  BY <2>1, <2>2, LookupLate
<1>4. CASE TakeHit(l)
  <2> DEFINE cached == keyCache[HolderOf(l)]
             t == IF cached = Empty THEN Idle
                  ELSE [pc |-> "resolved", age |-> 0, is |-> cached.is, blind |-> cached.blind]
  <2>1. t \in Lookups /\ t.pc # "store"
    BY <1>1, <1>2 DEF Entries, Lookups, Threads
  <2>2. lookup' = [lookup EXCEPT ![l] = t] /\ UNCHANGED <<row, save, keyCache, listCache, visit, held>>
    BY <1>4 DEF TakeHit
  <2> HIDE DEF t
  <2> QED  BY <2>1, <2>2, LookupLate
<1>5. CASE LoadKeys(l)
  <2>1. PICK blind \in BOOLEAN :
          lookup' = [lookup EXCEPT ![l] = [pc |-> "store", age |-> @.age, blind |-> blind,
                                           is |-> IF blind THEN NoKey ELSE row.keys[Used]]]
    BY <1>5 DEF LoadKeys
  <2> DEFINE value == IF blind THEN NoKey ELSE row.keys[Used]
             t == [pc |-> "store", age |-> lookup[l].age, blind |-> blind, is |-> value]
  <2>2. value \in Keys
    BY SystemSettingsAssumption DEF CachesInv, SettingsType, Rows, Keys
  <2>3. t \in Lookups
    BY <1>1, <2>2 DEF Lookups, Threads
  <2>4. ~t.blind => Late(held.keys, KeyTtl, t.age, t.is)
    <3>1. lookup[l].age \in Nat /\ row.keys[Used] \in held.keys[0]
      BY <1>1 DEF Lookups, Threads, CachesInv, KeysLate
    <3> QED  BY <3>1, NowLate
  <2>5. lookup' = [lookup EXCEPT ![l] = t] /\ UNCHANGED <<row, save, keyCache, listCache, visit, held>>
    BY <1>5, <2>1 DEF LoadKeys
  <2> HIDE DEF t
  <2> QED  BY <2>3, <2>4, <2>5, LookupLate
<1>6. CASE StoreKeys(l)
  <2> DEFINE asked == lookup[l]
             stored == [age |-> asked.age, is |-> asked.is, blind |-> asked.blind]
             t == [asked EXCEPT !.pc = "resolved", !.age = 0]
  <2>1. /\ keyCache' = [keyCache EXCEPT ![HolderOf(l)] = stored] /\ asked.pc = "store"
        /\ lookup' = [lookup EXCEPT ![l] = t]
        /\ UNCHANGED <<row, save, listCache, visit, held>>
    BY <1>6 DEF StoreKeys, Stamp
  <2>2. stored \in Entries(Keys) /\ t \in Lookups /\ t.pc = "resolved"
    BY <1>1 DEF Entries, Lookups, Threads
  <2>3. ~stored.blind => Late(held.keys, KeyTtl, stored.age, stored.is)
    BY <2>1 DEF CachesInv, KeysLate
  <2> HIDE DEF stored, t
  <2>4. /\ keyCache' \in [Holder -> Entries(Keys)]
        /\ \A p \in Holder : keyCache'[p] = stored \/ keyCache'[p] = keyCache[p]
        /\ lookup' \in [Lookup -> Lookups]
        /\ \A m \in Lookup : lookup'[m] = t \/ lookup'[m] = lookup[m]
    BY <2>1, <2>2 DEF CachesInv, SettingsType
  <2>5. KeysLate'
    BY <2>1, <2>2, <2>3, <2>4 DEF CachesInv, KeysLate
  <2> QED  BY <2>1, <2>4, <2>5 DEF CachesInv, SettingsType, ListsLate
<1>7. CASE UseKey(l)
  BY <1>2, <1>7, LookupLate DEF UseKey
<1> QED  BY <1>3, <1>4, <1>5, <1>6, <1>7

\* A request goes on.
LEMMA VisitLate ==
  ASSUME CachesInv, NEW v \in Visit, NEW t \in Visits, visit' = [visit EXCEPT ![v] = t],
         t.pc = "store" => ~t.blind /\ Late(held.lists, ListTtl, t.age, t.is),
         t.pc = "judge" /\ t.blind => t.is = "off",
         UNCHANGED <<row, save, keyCache, lookup, held>>,
         listCache' \in Entries(Lists),
         listCache' # Empty => Late(held.lists, ListTtl, listCache'.age, listCache'.is)
  PROVE  CachesInv'
<1>1. visit' \in [Visit -> Visits] /\ \A m \in Visit : visit'[m] = t \/ visit'[m] = visit[m]
  BY DEF CachesInv, SettingsType
<1>2. ListsLate'
  BY <1>1 DEF CachesInv, ListsLate
<1> QED  BY <1>1, <1>2 DEF CachesInv, SettingsType, KeysLate

LEMMA ListsStepLate ==
  ASSUME SystemSettingsAssumption, CachesInv, NEW v \in Visit,
         Arrive(v) \/ LoadEntries(v) \/ StoreEntries(v) \/ Judge(v) \/ Gone(v)
  PROVE  CachesInv'
<1>1. /\ visit[v] \in Visits /\ listCache \in Entries(Lists) /\ row.list \in Lists
      /\ listCache # Empty => Late(held.lists, ListTtl, listCache.age, listCache.is)
  BY DEF CachesInv, SettingsType, Rows, ListsLate
<1>2. Idle \in Visits /\ Idle.pc = "idle"
  BY DEF Idle, Visits, Threads
<1>3. CASE Arrive(v)
  <2> DEFINE hit == [pc |-> "judge", age |-> 0, is |-> listCache.is, blind |-> FALSE]
             miss == [visit[v] EXCEPT !.pc = "load"]
  <2>1. /\ hit \in Visits /\ hit.pc = "judge" /\ ~hit.blind
        /\ miss \in Visits /\ miss.pc = "load"
    BY <1>1 DEF Entries, Visits, Threads
  <2>2. PICK t \in {hit, miss} : visit' = [visit EXCEPT ![v] = t]
    BY <1>3 DEF Arrive
  <2>3. UNCHANGED <<row, save, keyCache, lookup, listCache, held>>
    BY <1>3 DEF Arrive
  <2>4. t \in Visits /\ t.pc # "store" /\ (t.pc = "judge" => ~t.blind)
    BY <2>1
  <2> HIDE DEF hit, miss
  <2> QED  BY <1>1, <2>2, <2>3, <2>4, VisitLate
<1>4. CASE LoadEntries(v)
  <2>1. PICK blind \in BOOLEAN :
          visit' = [visit EXCEPT ![v] = [pc |-> IF blind THEN "judge" ELSE "store", age |-> @.age,
                                         blind |-> blind, is |-> IF blind THEN "off" ELSE row.list]]
    BY <1>4 DEF LoadEntries
  <2> DEFINE t == [pc |-> IF blind THEN "judge" ELSE "store", age |-> visit[v].age, blind |-> blind,
                   is |-> IF blind THEN "off" ELSE row.list]
  <2>2. t \in Visits
    <3>1. (IF blind THEN "off" ELSE row.list) \in Lists
      BY <1>1 DEF Lists
    <3> QED  BY <1>1, <3>1 DEF Visits, Threads
  <2>3. t.pc = "store" => ~t.blind /\ Late(held.lists, ListTtl, t.age, t.is)
    <3>1. visit[v].age \in Nat /\ row.list \in held.lists[0]
      BY <1>1 DEF Visits, Threads, CachesInv, ListsLate
    <3> QED  BY <3>1, NowLate
  <2>4. t.pc = "judge" /\ t.blind => t.is = "off"
    OBVIOUS
  <2>5. visit' = [visit EXCEPT ![v] = t] /\ UNCHANGED <<row, save, keyCache, lookup, listCache, held>>
    BY <1>4, <2>1 DEF LoadEntries
  <2> HIDE DEF t
  <2> QED  BY <1>1, <2>2, <2>3, <2>4, <2>5, VisitLate
<1>5. CASE StoreEntries(v)
  <2> DEFINE asked == visit[v]
             t == [asked EXCEPT !.pc = "judge", !.age = 0]
  <2>1. /\ listCache' = [age |-> asked.age, is |-> asked.is, blind |-> FALSE] /\ asked.pc = "store"
        /\ visit' = [visit EXCEPT ![v] = t] /\ UNCHANGED <<row, save, keyCache, lookup, held>>
    BY <1>5 DEF StoreEntries, Stamp
  <2>2. ~asked.blind /\ Late(held.lists, ListTtl, asked.age, asked.is)
    BY <2>1 DEF CachesInv, ListsLate
  <2>3. t \in Visits /\ t.pc = "judge" /\ t.blind = asked.blind /\ listCache' \in Entries(Lists)
    BY <1>1, <2>1 DEF Entries, Visits, Threads
  <2>4. Late(held.lists, ListTtl, listCache'.age, listCache'.is)
    BY <2>1, <2>2
  <2> HIDE DEF t
  <2> QED  BY <2>1, <2>2, <2>3, <2>4, VisitLate
<1>6. CASE Judge(v)
  <2>1. PICK place \in {"passed", "barred"} : visit' = [visit EXCEPT ![v] = [@ EXCEPT !.pc = place]]
    BY <1>6 DEF Judge
  <2> DEFINE t == [visit[v] EXCEPT !.pc = place]
  <2>2. t \in Visits /\ t.pc = place
    BY <1>1 DEF Visits, Threads
  <2>3. visit' = [visit EXCEPT ![v] = t] /\ UNCHANGED <<row, save, keyCache, lookup, listCache, held>>
    BY <1>6, <2>1 DEF Judge
  <2> HIDE DEF t
  <2> QED  BY <1>1, <2>2, <2>3, VisitLate
<1>7. CASE Gone(v)
  BY <1>1, <1>2, <1>7, VisitLate DEF Gone
<1> QED  BY <1>3, <1>4, <1>5, <1>6, <1>7

\* Time passes: what was in force is a tick further back, and whatever was read
\* is a tick older, or already as old as its time to live.
Aged(age, aged, ttl) == aged = age + 1 \/ (aged = age /\ age = ttl)

LEMMA ShiftTyped ==
  ASSUME NEW ttl \in Nat \ {0}, NEW values, NEW older \in [0 .. ttl - 1 -> SUBSET values],
         NEW fresh \in values
  PROVE  /\ Shifted(older, fresh) \in [0 .. ttl - 1 -> SUBSET values]
         /\ fresh \in Shifted(older, fresh)[0]
<1>1. DOMAIN older = 0 .. ttl - 1 /\ 0 \in 0 .. ttl - 1
  OBVIOUS
<1>2. ASSUME NEW age \in 0 .. ttl - 1, age # 0
      PROVE  older[age - 1] \in SUBSET values
  <2>1. age - 1 \in 0 .. ttl - 1
    BY <1>2
  <2> QED  BY <2>1
<1> QED  BY <1>1, <1>2 DEF Shifted

LEMMA AgedLate ==
  ASSUME NEW ttl \in Nat \ {0}, NEW older, DOMAIN older = 0 .. ttl - 1, NEW fresh,
         NEW age \in Nat, NEW value, Late(older, ttl, age, value),
         NEW aged, Aged(age, aged, ttl)
  PROVE  Late(Shifted(older, fresh), ttl, aged, value)
<1>1. CASE aged = age + 1
  BY <1>1, LateShift
<1>2. CASE aged = age /\ age = ttl
  BY <1>2 DEF Late
<1> QED  BY <1>1, <1>2 DEF Aged

LEMMA OlderEntry ==
  ASSUME NEW values, NEW stored \in Entries(values), NEW ttl \in Nat
  PROVE  LET older == Older(stored, ttl) IN
         /\ older \in Entries(values) /\ older.is = stored.is /\ older.blind = stored.blind
         /\ stored = Empty => older = Empty
         /\ stored # Empty => Aged(stored.age, older.age, ttl)
<1> DEFINE aged == IF stored = Empty \/ stored.age = ttl THEN stored.age ELSE stored.age + 1
<1>1. stored.age \in Nat /\ aged \in Nat
  BY DEF Entries
<1>2. Older(stored, ttl) = [stored EXCEPT !.age = aged]
  BY DEF Older
<1>3. stored = Empty => aged = stored.age
  OBVIOUS
<1>4. stored # Empty => Aged(stored.age, aged, ttl)
  BY <1>1 DEF Aged
<1> HIDE DEF aged
<1> QED  BY <1>1, <1>2, <1>3, <1>4 DEF Entries

LEMMA WaitingThread ==
  ASSUME NEW values, NEW places, NEW thread \in Threads(values, places), NEW ttl \in Nat
  PROVE  LET waiting == Waiting(thread, ttl) IN
         /\ waiting \in Threads(values, places) /\ waiting.is = thread.is
         /\ waiting.blind = thread.blind /\ waiting.pc = thread.pc
         /\ thread.pc = "store" =>
              Aged(thread.age, waiting.age, ttl)
<1> DEFINE aged == IF thread.pc \notin {"load", "store"} \/ thread.age = ttl THEN thread.age ELSE thread.age + 1
<1>1. thread.age \in Nat /\ aged \in Nat
  BY DEF Threads
<1>2. Waiting(thread, ttl) = [thread EXCEPT !.age = aged]
  BY DEF Waiting
<1>3. thread.pc = "store" => Aged(thread.age, aged, ttl)
  BY <1>1 DEF Aged
<1> HIDE DEF aged
<1> QED  BY <1>1, <1>2, <1>3 DEF Threads

LEMMA TickLate ==
  ASSUME SystemSettingsAssumption, CachesInv, Tick
  PROVE  CachesInv'
<1>1. KeyTtl \in Nat \ {0} /\ ListTtl \in Nat \ {0} /\ KeyTtl \in Nat /\ ListTtl \in Nat
  BY SystemSettingsAssumption
<1>2. /\ keyCache' = [p \in Holder |-> Older(keyCache[p], KeyTtl)]
      /\ lookup' = [l \in Lookup |-> Waiting(lookup[l], KeyTtl)]
      /\ listCache' = Older(listCache, ListTtl)
      /\ visit' = [v \in Visit |-> Waiting(visit[v], ListTtl)]
      /\ held' = [keys |-> Shifted(held.keys, row.keys[Used]), lists |-> Shifted(held.lists, row.list)]
      /\ UNCHANGED <<row, save>>
  BY DEF Tick
<1>3. /\ held.keys \in [0 .. KeyTtl - 1 -> SUBSET Keys] /\ held.lists \in [0 .. ListTtl - 1 -> SUBSET Lists]
      /\ DOMAIN held.keys = 0 .. KeyTtl - 1 /\ DOMAIN held.lists = 0 .. ListTtl - 1
      /\ row.keys[Used] \in Keys /\ row.list \in Lists
  BY SystemSettingsAssumption DEF CachesInv, SettingsType, Rows
<1>4. /\ held'.keys = Shifted(held.keys, row.keys[Used]) /\ held'.lists = Shifted(held.lists, row.list)
      /\ held'.keys \in [0 .. KeyTtl - 1 -> SUBSET Keys] /\ row'.keys[Used] \in held'.keys[0]
      /\ held'.lists \in [0 .. ListTtl - 1 -> SUBSET Lists] /\ row'.list \in held'.lists[0]
  BY <1>1, <1>2, <1>3, ShiftTyped
<1>5. ASSUME NEW age \in Nat, NEW value, NEW aged, Aged(age, aged, KeyTtl),
             Late(held.keys, KeyTtl, age, value)
      PROVE  Late(held'.keys, KeyTtl, aged, value)
  BY <1>1, <1>3, <1>4, <1>5, AgedLate
<1>6. ASSUME NEW age \in Nat, NEW value, NEW aged, Aged(age, aged, ListTtl),
             Late(held.lists, ListTtl, age, value)
      PROVE  Late(held'.lists, ListTtl, aged, value)
  BY <1>1, <1>3, <1>4, <1>6, AgedLate
<1>7. ASSUME NEW p \in Holder
      PROVE  /\ keyCache'[p] \in Entries(Keys)
             /\ keyCache'[p] # Empty /\ ~keyCache'[p].blind =>
                  Late(held'.keys, KeyTtl, keyCache'[p].age, keyCache'[p].is)
  <2>1. keyCache[p] \in Entries(Keys) /\ keyCache'[p] = Older(keyCache[p], KeyTtl)
    BY <1>2 DEF CachesInv, SettingsType
  <2>2. /\ keyCache'[p] \in Entries(Keys) /\ keyCache'[p].is = keyCache[p].is
        /\ keyCache'[p].blind = keyCache[p].blind /\ (keyCache[p] = Empty => keyCache'[p] = Empty)
        /\ keyCache[p] # Empty => Aged(keyCache[p].age, keyCache'[p].age, KeyTtl)
    BY <1>1, <2>1, OlderEntry
  <2>3. keyCache[p].age \in Nat
    BY <2>1 DEF Entries
  <2>4. keyCache[p] # Empty /\ ~keyCache[p].blind => Late(held.keys, KeyTtl, keyCache[p].age, keyCache[p].is)
    BY DEF CachesInv, KeysLate
  <2> QED  BY <1>5, <2>2, <2>3, <2>4
<1>8. ASSUME NEW l \in Lookup
      PROVE  /\ lookup'[l] \in Lookups
             /\ lookup'[l].pc = "store" /\ ~lookup'[l].blind =>
                  Late(held'.keys, KeyTtl, lookup'[l].age, lookup'[l].is)
  <2>1. lookup[l] \in Lookups /\ lookup'[l] = Waiting(lookup[l], KeyTtl)
    BY <1>2 DEF CachesInv, SettingsType
  <2>2. /\ lookup'[l] \in Lookups /\ lookup'[l].is = lookup[l].is /\ lookup'[l].blind = lookup[l].blind
        /\ lookup'[l].pc = lookup[l].pc
        /\ lookup[l].pc = "store" => Aged(lookup[l].age, lookup'[l].age, KeyTtl)
    BY <1>1, <2>1, WaitingThread DEF Lookups
  <2>3. lookup[l].age \in Nat
    BY <2>1 DEF Lookups, Threads
  <2>4. lookup[l].pc = "store" /\ ~lookup[l].blind => Late(held.keys, KeyTtl, lookup[l].age, lookup[l].is)
    BY DEF CachesInv, KeysLate
  <2> QED  BY <1>5, <2>2, <2>3, <2>4
<1>9. /\ listCache' \in Entries(Lists)
      /\ listCache' # Empty => Late(held'.lists, ListTtl, listCache'.age, listCache'.is)
  <2>1. listCache \in Entries(Lists) /\ listCache' = Older(listCache, ListTtl)
    BY <1>2 DEF CachesInv, SettingsType
  <2>2. /\ listCache' \in Entries(Lists) /\ listCache'.is = listCache.is
        /\ listCache = Empty => listCache' = Empty
        /\ listCache # Empty => Aged(listCache.age, listCache'.age, ListTtl)
    BY <1>1, <2>1, OlderEntry
  <2>3. listCache.age \in Nat
    BY <2>1 DEF Entries
  <2>4. listCache # Empty => Late(held.lists, ListTtl, listCache.age, listCache.is)
    BY DEF CachesInv, ListsLate
  <2> QED  BY <1>6, <2>2, <2>3, <2>4
<1>10. ASSUME NEW v \in Visit
       PROVE  /\ visit'[v] \in Visits
              /\ visit'[v].pc = "store" =>
                   ~visit'[v].blind /\ Late(held'.lists, ListTtl, visit'[v].age, visit'[v].is)
              /\ visit'[v].pc = "judge" /\ visit'[v].blind => visit'[v].is = "off"
  <2>1. visit[v] \in Visits /\ visit'[v] = Waiting(visit[v], ListTtl)
    BY <1>2 DEF CachesInv, SettingsType
  <2>2. /\ visit'[v] \in Visits /\ visit'[v].is = visit[v].is /\ visit'[v].blind = visit[v].blind
        /\ visit'[v].pc = visit[v].pc
        /\ visit[v].pc = "store" => Aged(visit[v].age, visit'[v].age, ListTtl)
    BY <1>1, <2>1, WaitingThread, SMTT(30) DEF Visits
  <2>3. visit[v].age \in Nat
    BY <2>1 DEF Visits, Threads
  <2>4. /\ visit[v].pc = "store" => ~visit[v].blind /\ Late(held.lists, ListTtl, visit[v].age, visit[v].is)
        /\ visit[v].pc = "judge" /\ visit[v].blind => visit[v].is = "off"
    BY DEF CachesInv, ListsLate
  <2> QED  BY <1>6, <2>2, <2>3, <2>4
<1>11. keyCache' \in [Holder -> Entries(Keys)] /\ lookup' \in [Lookup -> Lookups] /\ visit' \in [Visit -> Visits]
  <2> HIDE DEF Lookups, Visits, Entries
  <2> QED  BY <1>2, <1>7, <1>8, <1>10
<1>12. held' \in [keys : [0 .. KeyTtl - 1 -> SUBSET Keys], lists : [0 .. ListTtl - 1 -> SUBSET Lists]]
  BY <1>2, <1>4
<1>13. SettingsType'
  BY <1>2, <1>9, <1>11, <1>12 DEF CachesInv, SettingsType
<1>14. KeysLate' /\ ListsLate'
  BY <1>4, <1>7, <1>8, <1>9, <1>10 DEF KeysLate, ListsLate
<1> QED  BY <1>13, <1>14 DEF CachesInv

LEMMA CachesStep ==
  ASSUME SystemSettingsAssumption, CachesInv, [SettingsNext]_settingsVars
  PROVE  CachesInv'
<1>1. CASE UNCHANGED settingsVars
  BY <1>1 DEF settingsVars, CachesInv, SettingsType, KeysLate, ListsLate
<1> QED  BY <1>1, SaveReadLate, SaveWriteLate, ReloadLate, KeysStepLate, ListsStepLate, TickLate DEF SettingsNext

\* What a lookup or a request takes from a cache is as late as it should be.
LEMMA TakenLate ==
  ASSUME SystemSettingsAssumption, CachesInv, [SettingsNext]_settingsVars
  PROVE  KeyFresh /\ ListFresh
<1>1. /\ lookup \in [Lookup -> Lookups] /\ visit \in [Visit -> Visits]
      /\ DOMAIN held.keys = 0 .. KeyTtl - 1 /\ DOMAIN held.lists = 0 .. ListTtl - 1
      /\ \A p \in Holder : keyCache[p].age \in Nat
      /\ listCache.age \in Nat
  BY DEF CachesInv, SettingsType, Entries
<1>2. ASSUME NEW l \in Lookup, lookup[l].pc = "idle", lookup'[l].pc = "hit",
             ~keyCache[HolderOf(l)].blind
      PROVE  keyCache[HolderOf(l)].is \in LateKeys
  <2>1. CASE Look(l)
    <3> DEFINE cached == keyCache[HolderOf(l)]
    <3>1. cached # Empty /\ cached.age < KeyTtl
      BY <1>1, <1>2, <2>1 DEF Look, Lookups, Threads
    <3>2. HolderOf(l) \in Holder
      BY DEF HolderOf, Holder
    <3>3. PICK b \in 0 .. cached.age : cached.is \in held.keys[b]
      BY <1>2, <3>1, <3>2 DEF CachesInv, KeysLate, Late
    <3>4. b \in DOMAIN held.keys
      BY <1>1, <3>1, <3>2, SystemSettingsAssumption
    <3> QED  BY <3>3, <3>4 DEF LateKeys
  <2>2. CASE lookup'[l] = lookup[l]
    BY <1>2, <2>2
  <2>3. CASE Tick
    BY SMTT(30), <1>1, <1>2, <2>3, WaitingThread, SystemSettingsAssumption DEF Tick, Lookups
  <2>4. CASE \E m \in Lookup \ {l} : Look(m) \/ TakeHit(m) \/ LoadKeys(m) \/ StoreKeys(m) \/ UseKey(m)
    <3>1. lookup'[l] = lookup[l]
      BY <1>1, <2>4 DEF Look, TakeHit, LoadKeys, StoreKeys, UseKey
    <3> QED  BY <1>2, <3>1
  <2>5. ~TakeHit(l) /\ ~LoadKeys(l) /\ ~StoreKeys(l) /\ ~UseKey(l)
    BY <1>2 DEF TakeHit, LoadKeys, StoreKeys, UseKey
  <2>6. CASE UNCHANGED lookup
    BY <1>2, <2>6
  <2>7. CASE \E a \in Admin, change \in Changes \ {Nothing} : SaveRead(a, change) \/ SaveWrite(a)
    BY <2>6, <2>7 DEF SaveRead, SaveWrite
  <2>8. CASE \E v \in Visit : Arrive(v) \/ LoadEntries(v) \/ StoreEntries(v) \/ Judge(v) \/ Gone(v)
    BY <2>6, <2>8 DEF Arrive, LoadEntries, StoreEntries, Judge, Gone
  <2>9. CASE Reload \/ UNCHANGED settingsVars \/ \E a \in Admin : SaveWrite(a)
    BY <2>6, <2>9 DEF Reload, settingsVars, SaveWrite
  <2> QED  BY <2>1, <2>3, <2>4, <2>5, <2>7, <2>8, <2>9 DEF SettingsNext
<1>3. ASSUME NEW v \in Visit
      PROVE  /\ visit[v].pc = "idle" /\ visit'[v].pc = "judge" => visit'[v].is \in LateLists
             /\ visit[v].pc = "judge" /\ visit'[v].pc = "barred" => ~visit[v].blind
  <2>1. CASE Arrive(v)
    <3> SUFFICES ASSUME visit[v].pc = "idle", visit'[v].pc = "judge"
                 PROVE  visit'[v].is \in LateLists
      BY <2>1 DEF Arrive
    <3>1. listCache # Empty /\ listCache.age < ListTtl /\ visit'[v].is = listCache.is
      BY <1>1, <2>1 DEF Arrive, Visits, Threads
    <3>2. PICK b \in 0 .. listCache.age : listCache.is \in held.lists[b]
      BY <3>1 DEF CachesInv, ListsLate, Late
    <3>3. b \in DOMAIN held.lists
      BY <1>1, <3>1, SystemSettingsAssumption
    <3> QED  BY <3>1, <3>2, <3>3 DEF LateLists
  <2>2. CASE Judge(v)
    <3>1. visit[v].pc = "judge" /\ (visit[v].blind => visit[v].is = "off")
      BY <2>2 DEF Judge, CachesInv, ListsLate
    <3>2. visit[v].is = "off" => visit'[v].pc = "passed"
      BY <1>1, <2>2 DEF Judge, IsIpAllowed, Visits, Threads
    <3> QED  BY <3>1, <3>2
  <2>3. CASE LoadEntries(v) \/ StoreEntries(v) \/ Gone(v)
    BY <1>1, <2>3 DEF LoadEntries, StoreEntries, Gone, Idle, Visits, Threads
  <2>4. CASE UNCHANGED visit
    BY <2>4
  <2>5. CASE \E m \in Visit \ {v} : Arrive(m) \/ LoadEntries(m) \/ StoreEntries(m) \/ Judge(m) \/ Gone(m)
    <3>1. visit'[v] = visit[v]
      BY <1>1, <2>5 DEF Arrive, LoadEntries, StoreEntries, Judge, Gone
    <3> QED  BY <3>1
  <2>6. CASE Tick
    <3>1. visit[v] \in Visits /\ ListTtl \in Nat
      BY <1>1, SystemSettingsAssumption
    <3>0. visit'[v] = Waiting(visit[v], ListTtl)
      BY <2>6 DEF Tick
    <3>2. visit'[v].pc = visit[v].pc
      BY <3>0, <3>1, WaitingThread DEF Visits
    <3> QED  BY <3>2
  <2>7. CASE \E l \in Lookup : Look(l) \/ TakeHit(l) \/ LoadKeys(l) \/ StoreKeys(l) \/ UseKey(l)
    BY <2>4, <2>7 DEF Look, TakeHit, LoadKeys, StoreKeys, UseKey
  <2>8. CASE Reload \/ UNCHANGED settingsVars \/ \E a \in Admin, change \in Changes \ {Nothing} : SaveRead(a, change)
    BY <2>4, <2>8 DEF Reload, settingsVars, SaveRead
  <2>9. CASE \E a \in Admin : SaveWrite(a)
    BY <2>4, <2>9 DEF SaveWrite
  <2> QED  BY <2>1, <2>2, <2>3, <2>5, <2>6, <2>7, <2>8, <2>9 DEF SettingsNext
<1> QED  BY <1>2, <1>3 DEF KeyFresh, ListFresh

\* For any saves, lookups, requests and times to live: what is taken from a
\* cache was in force within its time to live, and no request is refused because
\* a read failed (keystore.py, ip-whitelist.guard.ts).
THEOREM CachesAlwaysFresh == SettingsSpec => CachesFresh
<1>1. SettingsInit => CachesInv
  BY CachesInitial, SystemSettingsAssumption
<1>2. CachesInv /\ [SettingsNext]_settingsVars => CachesInv' /\ [KeyFresh /\ ListFresh]_settingsVars
  BY CachesStep, TakenLate, SystemSettingsAssumption
<1> QED  BY <1>1, <1>2, PTL DEF SettingsSpec, CachesFresh

-----------------------------------------------------------------------------
(* Health of the embedding provider                                         *)

Calls == [pc : {"idle", "try", "ok", "write", "error"}, probe : BOOLEAN,
          batch : Nat, tries : Nat]

HealthType ==
  /\ call \in [Caller -> Calls]
  /\ beat \in [Process -> 0 .. OkInterval]
  /\ errorAge \in 0 .. OkInterval

Writes(p) == \E d \in Caller : ProcessOf[d] = p /\ call[d].pc = "write"

\* A process that would not write success now, although there is a warning, has
\* noted one after the error: it is being written, or it was lost.
Owed ==
  \A p \in Process : Down /\ p \notin lost /\ beat[p] < errorAge => Writes(p)

HealthInv == HealthType /\ Owed

LEMMA HealthInitInv == HealthInit => HealthInv
  BY EmbeddingHealthAssumption DEF HealthInit, HealthInv, HealthType, Calls, Owed, Quiet, Down

LEMMA QuietType ==
  ASSUME NEW pc \in {"try", "error"}, NEW probe \in BOOLEAN
  PROVE  [Quiet EXCEPT !.pc = pc, !.probe = probe] \in Calls
<1>1. Quiet \in Calls
  BY DEF Quiet, Calls
<1>2. [Quiet EXCEPT !.pc = pc] \in Calls
  BY <1>1 DEF Calls
<1>3. [[Quiet EXCEPT !.pc = pc] EXCEPT !.probe = probe] \in Calls
  <2> DEFINE r == [Quiet EXCEPT !.pc = pc]
  <2> HIDE DEF r
  <2>1. r \in Calls
    BY <1>2 DEF r
  <2>2. [r EXCEPT !.probe = probe] \in Calls
    BY <2>1 DEF Calls
  <2> QED
    BY <2>2 DEF r
<1>4. [Quiet EXCEPT !.pc = pc, !.probe = probe] = [[Quiet EXCEPT !.pc = pc] EXCEPT !.probe = probe]
  OBVIOUS
<1> QED
  BY <1>3, <1>4

\* Between batches and tries nobody leaves or enters the write of success.
LEMMA EmbedInv ==
  ASSUME HealthInv, NEW c \in Caller,
         \/ \E probe \in BOOLEAN : Begin(c, probe)
         \/ Embedded(c) \/ Refused(c) \/ Failed(c)
  PROVE  HealthInv'
<1>1. UNCHANGED <<beat, errorAge, health, lost>>
  BY DEF Begin, Embedded, Refused, Failed
<1>2. HealthType'
  <2>1. call' \in [Caller -> Calls]
    <3>1. CASE \E probe \in BOOLEAN : Begin(c, probe)
      BY <3>1, QuietType DEF Begin, HealthInv, HealthType
    <3>2. CASE Embedded(c) \/ Refused(c)
      BY <3>2 DEF Embedded, Refused, HealthInv, HealthType, Calls
    <3>3. CASE Failed(c)
      <4>1. call[c] \in Calls
        BY DEF HealthInv, HealthType
      <4>2. [call[c] EXCEPT !.tries = @ + 1] \in Calls
        BY <4>1 DEF Calls
      <4>3. [Quiet EXCEPT !.pc = "error", !.probe = call[c].probe] \in Calls
        <5>1. call[c].probe \in BOOLEAN
          BY <4>1 DEF Calls
        <5> QED
          BY <5>1, QuietType
      <4>4. call' = [call EXCEPT ![c] =
              IF call[c].tries + 1 < MaxAttempts THEN [call[c] EXCEPT !.tries = @ + 1]
              ELSE [Quiet EXCEPT !.pc = "error", !.probe = call[c].probe]]
        BY <3>3 DEF Failed
      <4> QED
        BY <4>2, <4>3, <4>4 DEF HealthInv, HealthType
    <3> QED
      BY <3>1, <3>2, <3>3
  <2> QED
    BY <1>1, <2>1 DEF HealthInv, HealthType
<1>3. /\ call[c].pc \in {"idle", "try"}
      /\ \A d \in Caller \ {c} : call'[d] = call[d]
  BY DEF Begin, Embedded, Refused, Failed, HealthInv, HealthType
<1>4. \A p \in Process : Writes(p) => Writes(p)'
  BY <1>3 DEF Writes
<1> QED
  BY <1>1, <1>2, <1>4 DEF HealthInv, Owed, Down

LEMMA AfterType ==
  ASSUME HealthType, NEW c \in Caller
  PROVE  After(c) \in Calls
  BY DEF HealthType, After, Quiet, Calls

\* The process has noted a write of success, and the thread that noted it is
\* about to do it.
LEMMA RecordOkInv ==
  ASSUME HealthInv, NEW c \in Caller, RecordOk(c)
  PROVE  HealthInv'
<1> DEFINE q == ProcessOf[c]
<1>1. q \in Process /\ OkInterval \in Nat
  BY EmbeddingHealthAssumption
<1>2. call[c].pc = "ok" /\ \A d \in Caller \ {c} : call'[d] = call[d]
  BY DEF RecordOk, HealthInv, HealthType
<1>3. \A p \in Process : Writes(p) => Writes(p)'
  BY <1>2 DEF Writes
<1>4. CASE beat[q] < OkInterval
  <2>1. UNCHANGED <<beat, errorAge, health, lost>> /\ call' = [call EXCEPT ![c] = After(c)]
    BY <1>4 DEF RecordOk, Throttled
  <2>2. HealthType'
    BY <2>1, AfterType DEF HealthInv, HealthType
  <2> QED
    BY <1>3, <2>1, <2>2 DEF HealthInv, Owed, Down
<1>5. CASE ~(beat[q] < OkInterval)
  <2>1. /\ call' = [call EXCEPT ![c].pc = "write"] /\ beat' = [beat EXCEPT ![q] = 0]
        /\ lost' = lost \ {q} /\ UNCHANGED <<errorAge, health>>
    BY <1>5 DEF RecordOk
  <2>2. HealthType'
    <3>1. call' \in [Caller -> Calls]
      BY <2>1 DEF HealthInv, HealthType, Calls
    <3> QED
      BY <1>1, <2>1, <3>1 DEF HealthInv, HealthType
  <2>3. Writes(q)'
    BY <2>1 DEF Writes, HealthInv, HealthType
  <2>4. \A p \in Process \ {q} : beat'[p] = beat[p] /\ (p \in lost' <=> p \in lost)
    BY <2>1 DEF HealthInv, HealthType
  <2> QED
    BY <1>3, <2>1, <2>2, <2>3, <2>4 DEF HealthInv, Owed, Down
<1> QED
  BY <1>4, <1>5

\* The write ends the warning or is lost.
LEMMA WriteOkInv ==
  ASSUME HealthInv, NEW c \in Caller, WriteOk(c)
  PROVE  HealthInv'
<1> DEFINE q == ProcessOf[c]
<1>1. HealthType'
  <2>1. [After(c) EXCEPT !.pc = IF call[c].probe THEN "ok" ELSE "idle"]
          \in Calls
    BY AfterType DEF HealthInv, Calls
  <2>2. UNCHANGED <<beat, errorAge>>
        /\ call' = [call EXCEPT ![c] = [After(c) EXCEPT !.pc = IF call[c].probe THEN "ok" ELSE "idle"]]
    BY DEF WriteOk
  <2> QED
    BY <2>1, <2>2 DEF HealthInv, HealthType
<1>2. CASE health' = "ok"
  BY <1>1, <1>2 DEF HealthInv, Owed, Down
<1>3. CASE lost' = lost \union {q} /\ UNCHANGED health
  <2>1. \A p \in Process \ {q} : Writes(p) => Writes(p)'
    BY DEF WriteOk, Writes, HealthInv, HealthType
  <2>2. UNCHANGED <<beat, errorAge>>
    BY DEF WriteOk
  <2> QED
    BY <1>1, <1>3, <2>1, <2>2 DEF HealthInv, Owed, Down
<1> QED
  BY <1>2, <1>3 DEF WriteOk

\* After an error that is written, no success noted is younger.
LEMMA RecordErrorInv ==
  ASSUME HealthInv, NEW c \in Caller, RecordError(c)
  PROVE  HealthInv'
<1>1. /\ call' = [call EXCEPT ![c] = After(c)] /\ UNCHANGED <<beat, lost>>
      /\ call[c].pc = "error"
  BY DEF RecordError
<1>2. errorAge' = 0 \/ UNCHANGED <<health, errorAge>>
  BY DEF RecordError
<1>3. HealthType'
  <2>1. errorAge' \in 0 .. OkInterval
    BY <1>2, EmbeddingHealthAssumption DEF HealthInv, HealthType
  <2>2. call' \in [Caller -> Calls]
    BY <1>1, AfterType DEF HealthInv, HealthType
  <2> QED
    BY <1>1, <2>1, <2>2 DEF HealthInv, HealthType
<1>4. \A p \in Process : Writes(p) => Writes(p)'
  BY <1>1 DEF Writes, HealthInv, HealthType
<1>5. CASE errorAge' = 0
  <2>1. \A p \in Process : ~(beat'[p] < errorAge')
    BY <1>3, <1>5 DEF HealthType
  <2> QED
    BY <1>3, <2>1 DEF HealthInv, Owed
<1>6. CASE UNCHANGED <<health, errorAge>>
  BY <1>1, <1>3, <1>4, <1>6 DEF HealthInv, Owed, Down
<1> QED
  BY <1>2, <1>5, <1>6

LEMMA TickHealthInv ==
  ASSUME HealthInv, TickHealth
  PROVE  HealthInv'
<1>1. \A age \in 0 .. OkInterval : Grown(age) \in 0 .. OkInterval
  BY EmbeddingHealthAssumption DEF Grown
<1>2. \A older, age \in 0 .. OkInterval : Grown(age) < Grown(older) => age < older
  BY EmbeddingHealthAssumption DEF Grown
<1>3. /\ beat' = [p \in Process |-> Grown(beat[p])] /\ errorAge' = Grown(errorAge)
      /\ UNCHANGED <<call, health, lost>>
  BY DEF TickHealth
<1>4. HealthType'
  BY <1>1, <1>3 DEF HealthInv, HealthType
<1>5. \A p \in Process : beat'[p] < errorAge' => beat[p] < errorAge
  BY <1>2, <1>3 DEF HealthInv, HealthType
<1>6. \A p \in Process : Writes(p) => Writes(p)'
  BY <1>3 DEF Writes
<1> QED
  BY <1>3, <1>4, <1>5, <1>6 DEF HealthInv, Owed, Down

LEMMA HealthStep == HealthInv /\ [HealthNext]_healthVars => HealthInv'
<1> SUFFICES ASSUME HealthInv, [HealthNext]_healthVars PROVE HealthInv'
  OBVIOUS
<1>1. CASE \E c \in Caller, probe \in BOOLEAN : Begin(c, probe)
  BY <1>1, EmbedInv
<1>2. ASSUME NEW c \in Caller, Embedded(c) \/ Refused(c) \/ Failed(c) PROVE HealthInv'
  BY <1>2, EmbedInv
<1>3. ASSUME NEW c \in Caller, RecordOk(c) \/ WriteOk(c) \/ RecordError(c) PROVE HealthInv'
  BY <1>3, RecordOkInv, WriteOkInv, RecordErrorInv
<1>4. CASE UNCHANGED healthVars
  BY <1>4 DEF healthVars, HealthInv, HealthType, Owed, Writes, Down
<1> QED
  BY <1>1, <1>2, <1>3, <1>4, TickHealthInv DEF HealthNext

\* The action WarningEnds speaks of, under one name.
SuccessTells ==
  \A c \in Caller :
    /\ Down /\ errorAge = OkInterval
    /\ call[c].pc = "ok" /\ call'[c].pc # "ok"
    /\ ProcessOf[c] \notin lost
    => \E d \in Caller : call'[d].pc = "write"

LEMMA SuccessTellsStep == HealthInv /\ [HealthNext]_healthVars => [SuccessTells]_healthVars
<1> SUFFICES ASSUME HealthInv, [HealthNext]_healthVars, NEW c \in Caller,
                    Down, errorAge = OkInterval, call[c].pc = "ok", call'[c].pc # "ok",
                    ProcessOf[c] \notin lost
             PROVE  \E d \in Caller : call'[d].pc = "write"
  BY DEF SuccessTells
<1>1. RecordOk(c)
  <2>1. \A e \in Caller \ {c} :
          /\ \A probe \in BOOLEAN : ~Begin(c, probe) /\ (Begin(e, probe) => call'[c] = call[c])
          /\ Embedded(e) \/ Refused(e) \/ Failed(e) \/ RecordOk(e) \/ WriteOk(e) \/ RecordError(e)
               => call'[c] = call[c]
    BY DEF Begin, Embedded, Refused, Failed, RecordOk, WriteOk, RecordError, HealthInv, HealthType
  <2>2. ~(Embedded(c) \/ Refused(c) \/ Failed(c) \/ WriteOk(c) \/ RecordError(c))
    BY DEF Embedded, Refused, Failed, WriteOk, RecordError
  <2>3. ~TickHealth /\ ~UNCHANGED healthVars
    BY DEF TickHealth, healthVars
  <2>4. ASSUME NEW e \in Caller, NEW probe \in BOOLEAN PROVE ~Begin(e, probe)
    BY <2>1, Zenon DEF Begin
  <2> QED
    BY <2>1, <2>2, <2>3, <2>4 DEF HealthNext
<1>2. CASE beat[ProcessOf[c]] < OkInterval
  <2>1. ProcessOf[c] \in Process
    BY EmbeddingHealthAssumption
  <2>2. PICK d \in Caller : call[d].pc = "write"
    BY <1>2, <2>1 DEF HealthInv, Owed, Writes
  <2>3. call'[d] = call[d]
    BY <1>1, <2>2 DEF RecordOk, HealthInv, HealthType
  <2> QED
    BY <2>2, <2>3
<1>3. CASE ~(beat[ProcessOf[c]] < OkInterval)
  <2>1. call' = [call EXCEPT ![c].pc = "write"]
    BY <1>1, <1>3 DEF RecordOk
  <2>2. call'[c].pc = "write"
    BY <2>1 DEF HealthInv, HealthType
  <2> QED
    BY <2>2
<1> QED
  BY <1>2, <1>3

\* A success 30 seconds after the last error ends the warning, in whichever
\* process it is (embedder.py, record_health).
THEOREM WarningIsEnded == HealthSpec => WarningEnds
<1>1. HealthSpec => []HealthInv
  BY HealthInitInv, HealthStep, PTL DEF HealthSpec
<1>2. HealthSpec => [][SuccessTells]_healthVars
  BY <1>1, SuccessTellsStep, PTL DEF HealthSpec
<1> QED
  BY <1>2 DEF WarningEnds, SuccessTells

-----------------------------------------------------------------------------
(* The search of everything                                                 *)

Found == [word : Word \union {NoWord}, n : 0 .. MaxHits]
FindType ==
  /\ find \in [open : BOOLEAN, word : Word \union {NoWord}, hits : Found, active : Nat, loading : BOOLEAN]
  /\ wait.timer \in Word \union {NoWord} /\ wait.asked \subseteq Word \X Nat
  /\ wait = [timer |-> wait.timer, asked |-> wait.asked]
  /\ tries \in [n : Nat, failed : BOOLEAN]

FindInv == FindType /\ HitsOwn

LEMMA NoHitsType == NoHits \in Found /\ NoHits.n = 0 /\ NoHits.word = NoWord
  BY OverlayAssumption DEF NoHits, Hits, Found

LEMMA FindInitInv == OverlaysInit => FindInv
<1> SUFFICES ASSUME OverlaysInit PROVE FindInv
  OBVIOUS
<1>1. FindType
  BY NoHitsType DEF OverlaysInit, FindType
<1>2. HitsOwn
  BY NoHitsType DEF OverlaysInit, HitsOwn
<1> QED
  BY <1>1, <1>2 DEF FindInv

\* What is typed.
LEMMA ChangedInv ==
  ASSUME FindInv, NEW new, NEW w \in Word \union {NoWord}, Changed(new, w), tries' \in [n : Nat, failed : BOOLEAN],
         new \in [open : BOOLEAN, word : Word \union {NoWord}, hits : Found, active : Nat, loading : BOOLEAN],
         new.hits.n > 0 => new.active < new.hits.n
  PROVE  FindInv'
<1>1. wait' = [wait EXCEPT !.timer = w]
  BY DEF Changed
<1>2. wait'.timer = w /\ wait'.asked = wait.asked /\ wait' = [timer |-> w, asked |-> wait.asked]
  BY <1>1 DEF FindInv, FindType
<1>3. CASE w = NoWord
  <2>1. find' = [new EXCEPT !.word = NoWord, !.hits = NoHits, !.loading = FALSE]
    BY <1>3 DEF Changed
  <2>2. FindType'
    BY <1>2, <2>1, NoHitsType DEF FindInv, FindType
  <2>3. HitsOwn'
    BY <2>1, NoHitsType DEF HitsOwn
  <2> QED
    BY <2>2, <2>3 DEF FindInv
<1>4. CASE w # NoWord
  <2>1. find' = [new EXCEPT !.word = w, !.loading = TRUE]
    BY <1>4 DEF Changed
  <2>2. FindType'
    BY <1>2, <2>1 DEF FindInv, FindType
  <2>3. HitsOwn'
    BY <1>2, <1>4, <2>1 DEF HitsOwn
  <2> QED
    BY <2>2, <2>3 DEF FindInv
<1> QED
  BY <1>3, <1>4

LEMMA FindActs ==
  ASSUME FindInv,
         \/ \E w \in Word \union {NoWord} : TypeWord(w)
         \/ OpenSearch \/ CloseSearch \/ JumpToHit \/ TimerFires
  PROVE  FindInv'
<1>1. ASSUME NEW w \in Word \union {NoWord}, TypeWord(w) PROVE FindInv'
  <2>1. Changed(find, w) /\ tries' = [n |-> tries.n + 1, failed |-> FALSE]
    BY <1>1 DEF TypeWord
  <2> QED
    BY <2>1, ChangedInv DEF FindInv, FindType, HitsOwn
<1>2. CASE OpenSearch
  <2>1. find' = [open |-> TRUE, word |-> NoWord, hits |-> NoHits, active |-> 0, loading |-> FALSE]
        /\ UNCHANGED tries
    BY <1>2 DEF OpenSearch
  <2>2. wait' = wait \/ wait' = [timer |-> NoWord, asked |-> wait.asked]
    BY <1>2 DEF OpenSearch, FindInv, FindType
  <2>3. FindType'
    BY <2>1, <2>2, NoHitsType DEF FindInv, FindType
  <2>4. HitsOwn'
    BY <2>1, NoHitsType DEF HitsOwn
  <2> QED
    BY <2>3, <2>4 DEF FindInv
<1>3. CASE CloseSearch
  <2>1. find' = [find EXCEPT !.open = FALSE] /\ UNCHANGED <<wait, tries>>
    BY <1>3 DEF CloseSearch
  <2> QED
    BY <2>1 DEF FindInv, FindType, HitsOwn
<1>4. CASE JumpToHit
  <2> DEFINE new == [find EXCEPT !.open = FALSE, !.hits = NoHits]
  <2>1. Changed(new, NoWord) /\ UNCHANGED tries
    BY <1>4 DEF JumpToHit
  <2>2. new \in [open : BOOLEAN, word : Word \union {NoWord}, hits : Found, active : Nat, loading : BOOLEAN]
        /\ new.hits = NoHits
    BY NoHitsType DEF FindInv, FindType
  <2> HIDE DEF new
  <2> QED
    BY <2>1, <2>2, NoHitsType, ChangedInv DEF FindInv, FindType
<1>5. CASE TimerFires
  <2>1. /\ wait.timer # NoWord /\ UNCHANGED <<find, tries>>
        /\ wait' = [timer |-> NoWord, asked |-> wait.asked \union {<<wait.timer, tries.n>>}]
    BY <1>5 DEF TimerFires
  <2>2. wait'.timer = NoWord /\ wait'.asked = wait.asked \union {<<wait.timer, tries.n>>}
    BY <2>1
  <2>3. <<wait.timer, tries.n>> \in Word \X Nat /\ <<wait.timer, tries.n>>[1] = wait.timer
    BY <2>1 DEF FindInv, FindType
  <2>4. FindType'
    BY <2>1, <2>2, <2>3 DEF FindInv, FindType
  <2>5. HitsOwn'
    BY <2>1, <2>2, <2>3 DEF FindInv, HitsOwn
  <2> QED
    BY <2>4, <2>5 DEF FindInv
<1> QED
  BY <1>1, <1>2, <1>3, <1>4, <1>5

\* An answer that is not for the word in the box leaves the one that is.
LEMMA SearchEnds ==
  ASSUME FindInv, NEW ask \in wait.asked,
         SearchFails(ask) \/ \E n \in 0 .. MaxHits : AnswerSearch(ask, n)
  PROVE  FindInv'
<1>1. wait' = [wait EXCEPT !.asked = @ \ {ask}]
  BY DEF SearchFails, AnswerSearch
<1>2. wait'.timer = wait.timer /\ wait'.asked = wait.asked \ {ask} /\ wait' = [timer |-> wait.timer, asked |-> wait.asked \ {ask}]
  BY <1>1 DEF FindInv, FindType
<1>3. ask[1] \in Word /\ ask[1] # NoWord
  BY OverlayAssumption DEF FindInv, FindType
<1>4. CASE ask[1] # find.word
  <2>1. UNCHANGED <<find, tries>>
    BY <1>4 DEF SearchFails, AnswerSearch, Latest
  <2>2. FindType'
    BY <1>2, <2>1 DEF FindInv, FindType
  <2>3. HitsOwn'
    BY <1>2, <1>4, <2>1 DEF FindInv, HitsOwn
  <2> QED
    BY <2>2, <2>3 DEF FindInv
<1>5. CASE ask[1] = find.word
  <2>1. CASE SearchFails(ask)
    <3>1. find' = [find EXCEPT !.loading = FALSE] /\ tries' = [tries EXCEPT !.failed = TRUE]
      BY <1>5, <2>1 DEF SearchFails
    <3>2. FindType'
      BY <1>2, <3>1 DEF FindInv, FindType
    <3>3. HitsOwn'
      BY <1>2, <3>1 DEF FindInv, FindType, HitsOwn
    <3> QED
      BY <3>2, <3>3 DEF FindInv
  <2>2. ASSUME NEW n \in 0 .. MaxHits, AnswerSearch(ask, n) PROVE FindInv'
    <3>1. /\ find' = [find EXCEPT !.hits = Hits(ask[1], n), !.active = 0, !.loading = FALSE]
          /\ tries' = [tries EXCEPT !.failed = FALSE]
      BY <1>5, <2>2 DEF AnswerSearch, Latest
    <3>2. Hits(ask[1], n) \in Found /\ Hits(ask[1], n).n = n /\ Hits(ask[1], n).word = ask[1]
      BY <1>3 DEF Hits, Found
    <3>3. FindType'
      BY <1>2, <3>1, <3>2 DEF FindInv, FindType
    <3>4. HitsOwn'
      BY <1>2, <1>3, <1>5, <3>1, <3>2 DEF FindInv, FindType, HitsOwn
    <3> QED
      BY <3>3, <3>4 DEF FindInv
  <2> QED
    BY <2>1, <2>2
<1> QED
  BY <1>4, <1>5

\* The hit that is marked is one of them.
LEMMA MarkInv ==
  ASSUME FindInv,
         \/ \E step \in {-1, 1} : MoveActive(step)
         \/ \E i \in 0 .. MaxHits - 1 : Hover(i)
  PROVE  FindInv'
<1>1. PICK a \in Nat : /\ find' = [find EXCEPT !.active = a] /\ UNCHANGED <<wait, tries>>
                       /\ find.hits.n > 0 => a < find.hits.n
  <2>1. ASSUME NEW step \in {-1, 1}, MoveActive(step)
        PROVE  \E a \in Nat : /\ find' = [find EXCEPT !.active = a] /\ UNCHANGED <<wait, tries>>
                              /\ find.hits.n > 0 => a < find.hits.n
    <3> DEFINE k == find.hits.n
               b == find.active + step + k
    <3>1. k \in Nat /\ k > 0 /\ find.active \in Nat /\ find.active < k
      BY <2>1, OverlayAssumption DEF MoveActive, FindInv, FindType, Found, HitsOwn
    <3>2. b \in Nat
      BY <3>1
    <3>3. find' = [find EXCEPT !.active = b % k] /\ UNCHANGED <<wait, tries>>
      BY <2>1 DEF MoveActive
    <3> HIDE DEF b, k
    <3>4. b % k \in Nat /\ b % k < k
      BY <3>1, <3>2
    <3> QED
      BY <3>3, <3>4 DEF k
  <2>2. ASSUME NEW i \in 0 .. MaxHits - 1, Hover(i)
        PROVE  \E a \in Nat : /\ find' = [find EXCEPT !.active = a] /\ UNCHANGED <<wait, tries>>
                              /\ find.hits.n > 0 => a < find.hits.n
    <3>1. i \in Nat
      BY OverlayAssumption
    <3> QED
      BY <2>2, <3>1 DEF Hover
  <2> QED
    BY <2>1, <2>2
<1>2. FindType'
  BY <1>1 DEF FindInv, FindType
<1>3. HitsOwn'
  BY <1>1 DEF FindInv, FindType, HitsOwn
<1> QED
  BY <1>2, <1>3 DEF FindInv

-----------------------------------------------------------------------------
(* The preview of a document                                                *)

Drawers == [state : {"open", "closing", "closed"}, doc : Paper \union {NoPaper}, page : Nat \ {0}, pages : Nat,
            text : Paper \union {NoPaper}, url : Nat, of : Paper \union {NoPaper}]
ShowType ==
  /\ show \in Drawers /\ loads \subseteq Paper \X (Nat \ {0})
  /\ files \in [n : Nat, live : SUBSET Nat, across : BOOLEAN, crossed : BOOLEAN]

\* A load that nothing went across is the only one, for the document shown, and
\* has shown nothing yet.
Alone ==
  ~files.across =>
    /\ loads # {} => /\ show.url = NoUrl /\ show.of = NoPaper /\ show.text = NoPaper
                     /\ \E l \in loads : loads = {l} /\ l[1] = show.doc
    /\ show.state = "closed" => loads = {}

ShowInv ==
  /\ ShowType /\ Alone /\ PreviewOwn
  /\ show.url # NoUrl => show.of \in Paper
  /\ files.across => files.crossed
  /\ show.state = "open" \/ loads # {} => show.doc \in Paper

LEMMA ShowInitInv == OverlaysInit => ShowInv
<1> SUFFICES ASSUME OverlaysInit PROVE ShowInv
  OBVIOUS
<1>1. ShowType
  BY DEF OverlaysInit, ShowType, Drawers, NoUrl
<1>2. Alone /\ PreviewOwn
  BY DEF OverlaysInit, Alone, PreviewOwn
<1> QED
  BY <1>1, <1>2 DEF OverlaysInit, ShowInv

LEMMA OpenInv ==
  ASSUME ShowInv, NEW d \in Paper, NEW at \in 1 .. 1 + Length[d], Open(d, at)
  PROVE  ShowInv'
<1> DEFINE l == <<d, files.n + 1>>
<1>0. at \in Nat \ {0}
  <2>1. Length[d] \in Nat
    BY OverlayAssumption
  <2> QED
    BY <2>1
<1>1. /\ show' = [state |-> "open", doc |-> d, page |-> at, pages |-> 0, text |-> NoPaper, url |-> NoUrl, of |-> NoPaper]
      /\ loads' = loads \union {l}
      /\ files' = [n |-> files.n + 1, live |-> files.live \ {show.url}, across |-> loads # {},
                   crossed |-> files.crossed \/ loads # {}]
  BY DEF Open
<1>2. l \in Paper \X (Nat \ {0}) /\ l[1] = d
  BY DEF ShowInv, ShowType
<1> HIDE DEF l
<1>3. ShowType'
  <2>1. show' \in Drawers
    BY <1>0, <1>1 DEF Drawers, NoUrl
  <2>2. files' \in [n : Nat, live : SUBSET Nat, across : BOOLEAN, crossed : BOOLEAN]
    BY <1>1 DEF ShowInv, ShowType
  <2> QED
    BY <1>1, <1>2, <2>1, <2>2 DEF ShowInv, ShowType
<1>4. Alone'
  BY <1>1, <1>2 DEF Alone
<1>5. PreviewOwn'
  <2>1. loads' # {} /\ show'.state = "open" /\ show'.pages = 0 /\ show'.url = NoUrl
    BY <1>1
  <2>2. /\ files'.crossed <=> files.crossed \/ loads # {}
        /\ files'.live = files.live \ {show.url}
    BY <1>1
  <2>3. ~files.crossed => files.live \subseteq {show.url}
    BY DEF ShowInv, PreviewOwn
  <2>4. ~files'.crossed => files'.live = {}
    BY <2>2, <2>3
  <2> QED
    BY <2>1, <2>4 DEF PreviewOwn
<1> QED
  BY <1>1, <1>3, <1>4, <1>5 DEF ShowInv

\* What the file is taken for is said by the document shown: its own, if nothing
\* went across.
LEMMA LoadedInv ==
  ASSUME ShowInv, NEW l \in loads, Loaded(l)
  PROVE  ShowInv'
<1>1. loads' = loads \ {l} /\ show.doc \in Paper /\ l[1] \in Paper /\ l[2] \in Nat \ {0}
  BY DEF Loaded, ShowInv, ShowType
<1>2. ~files.across => /\ loads = {l} /\ l[1] = show.doc /\ show.url = NoUrl /\ show.of = NoPaper
                       /\ show.text = NoPaper /\ show.state # "closed"
  BY DEF ShowInv, Alone
<1>3. PaperKind[show.doc] \in {"pdf", "text", "other"} /\ show.doc # NoPaper
  BY <1>1, OverlayAssumption
<1>4. CASE PaperKind[show.doc] = "pdf"
  <2>1. show' = [show EXCEPT !.url = l[2], !.of = l[1]] /\ files' = [files EXCEPT !.live = @ \union {l[2]}]
    BY <1>4 DEF Loaded
  <2>2. ShowType'
    <3>1. show' \in Drawers
      BY <1>1, <2>1 DEF ShowInv, ShowType, Drawers
    <3>2. files' \in [n : Nat, live : SUBSET Nat, across : BOOLEAN, crossed : BOOLEAN]
      BY <1>1, <2>1 DEF ShowInv, ShowType
    <3> QED
      BY <1>1, <3>1, <3>2 DEF ShowInv, ShowType
  <2>3. /\ show'.state = show.state /\ show'.doc = show.doc /\ show'.page = show.page /\ show'.pages = show.pages
        /\ show'.text = show.text /\ show'.url = l[2] /\ show'.of = l[1]
        /\ files'.across = files.across /\ files'.crossed = files.crossed /\ files'.live = files.live \union {l[2]}
    BY <2>1 DEF ShowInv, ShowType, Drawers
  <2>4. Alone'
    BY <1>1, <1>2, <2>3 DEF ShowInv, Alone
  <2>5. PreviewOwn'
    BY <1>1, <1>2, <1>4, <2>3 DEF ShowInv, PreviewOwn, NoUrl
  <2> QED
    BY <1>1, <2>2, <2>3, <2>4, <2>5 DEF ShowInv
<1>5. CASE PaperKind[show.doc] # "pdf"
  <2> DEFINE text == IF PaperKind[show.doc] = "text" THEN l[1] ELSE show.text
  <2>1. show' = [show EXCEPT !.text = text] /\ UNCHANGED files
    BY <1>5 DEF Loaded
  <2>2. text \in Paper \union {NoPaper}
    BY <1>1 DEF ShowInv, ShowType, Drawers
  <2>3. ShowType'
    BY <1>1, <2>1, <2>2 DEF ShowInv, ShowType, Drawers
  <2>4. /\ show'.state = show.state /\ show'.doc = show.doc /\ show'.page = show.page /\ show'.pages = show.pages
        /\ show'.text = text /\ show'.url = show.url /\ show'.of = show.of
    BY <2>1 DEF ShowInv, ShowType, Drawers
  <2>5. Alone'
    BY <1>1, <1>2, <2>1, <2>4 DEF ShowInv, Alone
  <2>6. PreviewOwn'
    BY <1>1, <1>2, <1>5, <2>1, <2>4 DEF ShowInv, PreviewOwn
  <2> QED
    BY <1>1, <2>1, <2>3, <2>4, <2>5, <2>6 DEF ShowInv
<1> QED
  BY <1>4, <1>5

\* A load that fails closes the drawer.
LEMMA CloseInv ==
  ASSUME ShowInv, CloseDrawer \/ Reset \/ \E l \in loads : LoadFailed(l)
  PROVE  ShowInv'
<1>1. ASSUME NEW state \in {"closing", "closed"}, show' = [show EXCEPT !.state = state],
             loads' \subseteq loads, UNCHANGED files,
             state = "closed" => show.state = "closed" /\ show' = show
      PROVE  ShowInv'
  <2>1. ShowType'
    BY <1>1 DEF ShowInv, ShowType, Drawers
  <2>2. /\ show'.state = state /\ show'.doc = show.doc /\ show'.page = show.page /\ show'.pages = show.pages
        /\ show'.text = show.text /\ show'.url = show.url /\ show'.of = show.of
    BY <1>1 DEF ShowInv, ShowType, Drawers
  <2>3. Alone'
    BY <1>1, <2>2 DEF ShowInv, Alone
  <2>4. PreviewOwn'
    BY <1>1, <2>2 DEF ShowInv, PreviewOwn
  <2> QED
    BY <1>1, <2>1, <2>2, <2>3, <2>4 DEF ShowInv
<1>2. CASE CloseDrawer
  BY <1>1, <1>2 DEF CloseDrawer
<1>3. ASSUME NEW l \in loads, LoadFailed(l) PROVE ShowInv'
  <2>1. show.state \in {"open", "closing", "closed"} /\ show = [show EXCEPT !.state = show.state]
    BY DEF ShowInv, ShowType, Drawers
  <2> QED
    BY <1>1, <1>3, <2>1 DEF LoadFailed
<1>4. CASE Reset
  <2>1. /\ show' = [show EXCEPT !.state = "closed", !.text = NoPaper, !.url = NoUrl, !.of = NoPaper, !.pages = 0]
        /\ files' = [files EXCEPT !.live = @ \ {show.url}, !.across = @ \/ loads # {}, !.crossed = @ \/ loads # {}]
        /\ UNCHANGED loads
    BY <1>4 DEF Reset
  <2>2. /\ show' \in Drawers /\ show'.state = "closed" /\ show'.doc = show.doc /\ show'.text = NoPaper
        /\ show'.url = NoUrl /\ show'.of = NoPaper /\ show'.pages = 0
    BY <2>1 DEF ShowInv, ShowType, Drawers, NoUrl
  <2>3. /\ files' \in [n : Nat, live : SUBSET Nat, across : BOOLEAN, crossed : BOOLEAN]
        /\ files'.live = files.live \ {show.url}
        /\ files'.across <=> files.across \/ loads # {}
        /\ files'.crossed <=> files.crossed \/ loads # {}
    BY <2>1 DEF ShowInv, ShowType
  <2>4. ShowType' /\ Alone'
    BY <2>1, <2>2, <2>3 DEF ShowInv, ShowType, Alone
  <2>5. PreviewOwn'
    BY <2>2, <2>3 DEF ShowInv, PreviewOwn
  <2> QED
    BY <2>1, <2>2, <2>3, <2>4, <2>5 DEF ShowInv
<1> QED
  BY <1>2, <1>3, <1>4

\* A page of a reference beyond the last becomes the last.
LEMMA PageInv ==
  ASSUME ShowInv, OnPdfLoaded \/ \E step \in {-1, 1} : TurnPdf(step)
  PROVE  ShowInv'
<1>1. PICK at \in Nat \ {0}, pages \in Nat :
        /\ show' = [show EXCEPT !.pages = pages, !.page = at] /\ UNCHANGED <<loads, files>>
        /\ pages > 0 => at <= pages
  <2>1. CASE OnPdfLoaded
    <3>1. show.of \in Paper /\ Length[show.of] \in Nat \ {0}
      BY <2>1, OverlayAssumption DEF OnPdfLoaded, ShowInv
    <3> DEFINE n == Length[show.of]
               at == IF show.page > n THEN n ELSE show.page
    <3>2. at \in Nat \ {0} /\ at <= n
      BY <3>1 DEF ShowInv, ShowType, Drawers
    <3>3. show' = [show EXCEPT !.pages = n, !.page = at] /\ UNCHANGED <<loads, files>>
      BY <2>1 DEF OnPdfLoaded
    <3> HIDE DEF n, at
    <3>4. n \in Nat
      BY <3>1 DEF n
    <3> QED
      BY <3>2, <3>3, <3>4
  <2>2. ASSUME NEW step \in {-1, 1}, TurnPdf(step)
        PROVE  \E at \in Nat \ {0}, pages \in Nat :
                 /\ show' = [show EXCEPT !.pages = pages, !.page = at] /\ UNCHANGED <<loads, files>>
                 /\ pages > 0 => at <= pages
    <3>1. show' = [show EXCEPT !.page = show.page + step] /\ UNCHANGED <<loads, files>>
          /\ IF step < 0 THEN show.page > 1 ELSE show.page < show.pages
      BY <2>2 DEF TurnPdf
    <3>2. show.page \in Nat \ {0} /\ show.pages \in Nat /\ (show.pages > 0 => show.page <= show.pages)
      BY DEF ShowInv, ShowType, Drawers, PreviewOwn
    <3>3. show.page + step \in Nat \ {0} /\ (show.pages > 0 => show.page + step <= show.pages)
      BY <3>1, <3>2
    <3>4. show' = [show EXCEPT !.pages = show.pages, !.page = show.page + step]
      BY <3>1 DEF ShowInv, ShowType, Drawers
    <3> QED
      BY <3>1, <3>2, <3>3, <3>4
  <2> QED
    BY <2>1, <2>2
<1>2. /\ show' \in Drawers /\ show'.state = show.state /\ show'.doc = show.doc /\ show'.page = at /\ show'.pages = pages
      /\ show'.text = show.text /\ show'.url = show.url /\ show'.of = show.of
  BY <1>1 DEF ShowInv, ShowType, Drawers
<1>3. ShowType' /\ Alone'
  BY <1>1, <1>2 DEF ShowInv, ShowType, Alone
<1>4. PreviewOwn'
  BY <1>1, <1>2 DEF ShowInv, PreviewOwn
<1> QED
  BY <1>1, <1>2, <1>3, <1>4 DEF ShowInv

LEMMA OverlaysStep == FindInv /\ ShowInv /\ [OverlaysNext]_overlayVars => FindInv' /\ ShowInv'
<1> SUFFICES ASSUME FindInv, ShowInv, [OverlaysNext]_overlayVars PROVE FindInv' /\ ShowInv'
  OBVIOUS
<1>1. UNCHANGED findVars => FindInv'
  BY DEF findVars, FindInv, FindType, HitsOwn
<1>2. UNCHANGED showVars => ShowInv'
  BY DEF showVars, ShowInv, ShowType, Drawers, Alone, PreviewOwn
<1>3. CASE FindNext
  <2>1. UNCHANGED showVars
    BY <1>3 DEF FindNext, TypeWord, TimerFires, OpenSearch, CloseSearch, JumpToHit, SearchFails, AnswerSearch,
                MoveActive, Hover
  <2> QED
    BY <1>2, <1>3, <2>1, FindActs, SearchEnds, MarkInv DEF FindNext
<1>4. CASE ShowNext
  <2>1. UNCHANGED findVars
    BY <1>4 DEF ShowNext, Open, Loaded, LoadFailed, TurnPdf, OnPdfLoaded, CloseDrawer, Reset
  <2> QED
    BY <1>1, <1>4, <2>1, OpenInv, LoadedInv, CloseInv, PageInv DEF ShowNext
<1>5. CASE UNCHANGED overlayVars
  BY <1>1, <1>2, <1>5 DEF overlayVars, findVars, showVars
<1> QED
  BY <1>3, <1>4, <1>5 DEF OverlaysNext

\* In whatever order answers come, the search shows the hits of the word in its
\* box unless its search failed; the drawer shows the document asked for last as
\* long as no load went across another or over its closing (GlobalSearch.vue,
\* DocPreviewDrawer.vue).
THEOREM OverlaysAlwaysOwn == OverlaysSpec => []OverlaysOwn
<1>1. OverlaysSpec => [](FindInv /\ ShowInv)
  BY FindInitInv, ShowInitInv, OverlaysStep, PTL DEF OverlaysSpec
<1>2. FindInv /\ ShowInv => OverlaysOwn
  BY DEF FindInv, ShowInv, OverlaysOwn
<1> QED
  BY <1>1, <1>2, PTL

-----------------------------------------------------------------------------
(* The pages: the route, the configuration form and the uploads             *)

Bases == Kb \union {NoKb}
UploadSet == [by : {"none", "custom", "drop", "import"}, kb : Bases, left : Bases, docs : SUBSET Doc,
              pc : {"idle", "send", "list", "watch"}]

PageType ==
  /\ page \in [view : {"list", "detail", "chat"}, kb : Bases, opened : Bases, form : Bases,
               watched : SUBSET Kb, reset : BOOLEAN]
  /\ page.view # "list" => page.kb \in Kb
  /\ config \in [Kb -> Bases] /\ current \in Bases /\ detail \subseteq Kb
  /\ upload \in [Upload -> UploadSet]
  /\ \A u \in Upload : upload[u].pc # "idle" => upload[u].kb \in Kb /\ upload[u].by # "none"

\* The form of a page is that of the knowledge base it was opened for.
RouteInv == PageType /\ (~page.reset => page.form \in {NoKb, page.opened})

LEMMA PageInitInv == PagesInit => RouteInv
  BY DEF PagesInit, RouteInv, PageType, Opened, Bases, NoUpload, UploadSet

LEMMA AimType ==
  ASSUME RouteInv, NEW u \in Upload, upload[u].pc # "idle"
  PROVE  Aim(upload[u]) \in Bases
<1>1. upload[u] \in UploadSet /\ upload[u].by # "none" /\ page.kb \in Bases
  BY DEF RouteInv, PageType
<1>2. upload[u].by \in {"custom", "drop", "import"}
  BY <1>1 DEF UploadSet
<1>3. CASE upload[u].by = "custom"
  BY <1>1, <1>3 DEF Aim, Bases
<1>4. CASE upload[u].by = "drop"
  BY <1>1, <1>4 DEF Aim, UploadSet
<1>5. CASE upload[u].by = "import"
  BY <1>1, <1>5 DEF Aim, UploadSet
<1> QED
  BY <1>2, <1>3, <1>4, <1>5

LEMMA LeftBehindType ==
  ASSUME RouteInv, NEW up \in UploadSet
  PROVE  /\ LeftBehind(up) \in UploadSet
         /\ LeftBehind(up).docs = up.docs /\ LeftBehind(up).kb = up.kb
         /\ LeftBehind(up).pc = up.pc /\ LeftBehind(up).by = up.by
<1>1. page.kb \in Bases
  BY DEF RouteInv, PageType
<1> QED
  BY <1>1 DEF LeftBehind, UploadSet

LEMMA LeaveInv ==
  ASSUME RouteInv, NEW shown \in {"list", "detail", "chat"}, NEW kb \in Bases, shown # "list" => kb \in Kb,
         Leave(shown, kb)
  PROVE  RouteInv'
<1>1. page' = Opened(shown, kb) /\ UNCHANGED <<config, current>>
  BY DEF Leave
<1>2. detail' \subseteq Kb
  <2>1. CASE shown = "detail"
    BY <2>1 DEF Leave, RouteInv, PageType
  <2>2. CASE shown # "detail"
    BY <2>2 DEF Leave, RouteInv, PageType
  <2> QED
    BY <2>1, <2>2
<1>3. upload' = [u \in Upload |-> LeftBehind(upload[u])]
  BY DEF Leave
<1>4. \A u \in Upload : upload[u] \in UploadSet
  BY DEF RouteInv, PageType
<1>5. \A u \in Upload : /\ upload'[u] \in UploadSet /\ upload'[u].kb = upload[u].kb
                        /\ upload'[u].pc = upload[u].pc /\ upload'[u].by = upload[u].by
  BY <1>3, <1>4, LeftBehindType
<1>6. page' \in [view : {"list", "detail", "chat"}, kb : Bases, opened : Bases, form : Bases,
                 watched : SUBSET Kb, reset : BOOLEAN] /\ page'.view = shown /\ page'.kb = kb /\ page'.form = NoKb
  BY <1>1 DEF Opened, Bases
<1>7. upload' \in [Upload -> UploadSet]
  BY <1>3, <1>5
<1> QED
  BY <1>1, <1>2, <1>5, <1>6, <1>7 DEF RouteInv, PageType

\* Steps of the uploads, which change the page only by what it watches.
LEMMA UploadStep ==
  ASSUME RouteInv, NEW u \in Upload, NEW up \in UploadSet, upload' = [upload EXCEPT ![u] = up],
         up.pc # "idle" => up.kb \in Kb /\ up.by # "none",
         UNCHANGED <<config, current, detail>>,
         NEW kbs \in SUBSET Kb, page' = page \/ page' = [page EXCEPT !.watched = @ \union kbs]
  PROVE  RouteInv'
<1>1. upload' \in [Upload -> UploadSet]
  BY DEF RouteInv, PageType
<1>2. \A v \in Upload : upload'[v].pc # "idle" => upload'[v].kb \in Kb /\ upload'[v].by # "none"
  BY DEF RouteInv, PageType
<1>3. page' \in [view : {"list", "detail", "chat"}, kb : Bases, opened : Bases, form : Bases,
                 watched : SUBSET Kb, reset : BOOLEAN]
  BY DEF RouteInv, PageType
<1>4. page'.view = page.view /\ page'.kb = page.kb /\ page'.form = page.form /\ page'.opened = page.opened
      /\ page'.reset = page.reset
  BY DEF RouteInv, PageType
<1> QED
  BY <1>1, <1>2, <1>3, <1>4 DEF RouteInv, PageType

LEMMA UponInv ==
  ASSUME RouteInv, NEW u \in Upload, NEW by \in {"custom", "drop", "import"}, NEW kb \in Kb, Upon(u, by, kb)
  PROVE  RouteInv'
<1> DEFINE up == [NoUpload EXCEPT !.by = by, !.kb = kb, !.pc = "send"]
<1>1. up \in UploadSet /\ up.kb = kb /\ up.by = by
  BY DEF NoUpload, UploadSet, Bases
<1>2. upload' = [upload EXCEPT ![u] = up] /\ UNCHANGED <<config, current, detail, page>>
  BY DEF Upon
<1> HIDE DEF up
<1> QED
  BY <1>1, <1>2, UploadStep

LEMMA PageStep == RouteInv /\ [PagesNext]_pageVars => RouteInv'
<1> SUFFICES ASSUME RouteInv, [PagesNext]_pageVars PROVE RouteInv'
  OBVIOUS
<1>1. CASE GoTo
  BY <1>1, LeaveInv DEF GoTo, Bases
<1>2. CASE ResetForm
  BY <1>2 DEF ResetForm, RouteInv, PageType
<1>3. CASE SaveConfig
  BY <1>3 DEF SaveConfig, RouteInv, PageType
<1>4. ASSUME NEW kb \in Kb, Jump(kb) PROVE RouteInv'
  BY <1>4 DEF Jump, RouteInv, PageType, Bases
<1>5. ASSUME NEW kb \in Kb, DetailAnswer(kb) PROVE RouteInv'
  <2>1. CASE page.view = "detail" /\ page.opened = kb
    BY <1>5, <2>1 DEF DetailAnswer, Form, RouteInv, PageType, Bases
  <2>2. CASE ~(page.view = "detail" /\ page.opened = kb)
    BY <1>5, <2>2 DEF DetailAnswer, RouteInv, PageType, Bases
  <2> QED
    BY <2>1, <2>2
<1>6. ASSUME NEW kb \in Kb, DetailFails(kb) PROVE RouteInv'
  BY <1>6 DEF DetailFails, RouteInv, PageType
<1>7. ASSUME NEW u \in Upload, BeginUpload(u) PROVE RouteInv'
  <2>1. CASE CustomUpload(u)
    BY <2>1, UponInv DEF CustomUpload, RouteInv, PageType
  <2>2. CASE DropFiles(u)
    BY <2>2, UponInv DEF DropFiles, RouteInv, PageType
  <2>3. CASE ImportGroups(u)
    BY <2>3, UponInv DEF ImportGroups
  <2> QED
    BY <1>7, <2>1, <2>2, <2>3 DEF BeginUpload
<1>8. ASSUME NEW u \in Upload, Sent(u) PROVE RouteInv'
  <2>1. PICK d \in Doc, pc \in {"send", "watch", "list"} :
          upload' = [upload EXCEPT ![u].docs = @ \union {d}, ![u].pc = pc]
    BY <1>8 DEF Sent, Fresh
  <2> DEFINE up == [upload[u] EXCEPT !.docs = @ \union {d}, !.pc = pc]
  <2>2. upload[u] \in UploadSet /\ upload[u].kb \in Kb /\ upload[u].by # "none"
    BY <1>8 DEF Sent, RouteInv, PageType
  <2>3. up \in UploadSet /\ up.kb \in Kb /\ up.by # "none"
    BY <2>2 DEF UploadSet
  <2>4. upload' = [upload EXCEPT ![u] = up]
    BY <2>1 DEF RouteInv, PageType
  <2>5. UNCHANGED <<config, current, detail, page>>
    BY <1>8 DEF Sent
  <2> HIDE DEF up
  <2> QED
    BY <2>3, <2>4, <2>5, UploadStep
<1>9. ASSUME NEW u \in Upload, Refreshed(u) PROVE RouteInv'
  <2> DEFINE up == [upload[u] EXCEPT !.pc = "watch"]
  <2>2. upload[u] \in UploadSet /\ upload[u].kb \in Kb /\ upload[u].by # "none"
    BY <1>9 DEF Refreshed, RouteInv, PageType
  <2>3. up \in UploadSet /\ up.kb \in Kb /\ up.by # "none"
    BY <2>2 DEF UploadSet
  <2>4. upload' = [upload EXCEPT ![u] = up] /\ UNCHANGED <<config, current, detail, page>>
    BY <1>9 DEF Refreshed, RouteInv, PageType
  <2> HIDE DEF up
  <2> QED
    BY <2>3, <2>4, UploadStep
<1>10. NoUpload \in UploadSet /\ NoUpload.pc = "idle"
  BY DEF NoUpload, UploadSet, Bases
<1>11. ASSUME NEW u \in Upload, UploadFails(u) PROVE RouteInv'
  BY <1>10, <1>11, UploadStep DEF UploadFails
<1>12. ASSUME NEW u \in Upload, Watch(u) PROVE RouteInv'
  <2>1. Aim(upload[u]) \in Bases
    BY <1>12, AimType DEF Watch
  <2>2. UNCHANGED <<config, current, detail>> /\ upload' = [upload EXCEPT ![u] = NoUpload]
    BY <1>12 DEF Watch
  <2>3. page' = page \/ (Aim(upload[u]) # NoKb /\ page' = [page EXCEPT !.watched = @ \union {Aim(upload[u])}])
    BY <1>12 DEF Watch
  <2>4. CASE page' = page
    BY <1>10, <2>2, <2>4, UploadStep
  <2>5. CASE Aim(upload[u]) # NoKb /\ page' = [page EXCEPT !.watched = @ \union {Aim(upload[u])}]
    <3>1. {Aim(upload[u])} \in SUBSET Kb
      BY <2>1, <2>5 DEF Bases
    <3> QED
      BY <1>10, <2>2, <2>5, <3>1, UploadStep
  <2> QED
    BY <2>3, <2>4, <2>5
<1>13. ASSUME UNCHANGED <<page, config, current, detail, upload>> PROVE RouteInv'
  BY <1>13 DEF RouteInv, PageType
<1>14. ASSUME NEW kb \in Kb, Poll(kb) \/ Expire(kb) PROVE RouteInv'
  BY <1>13, <1>14 DEF Poll, Expire
<1>15. ASSUME NEW p \in DOMAIN poll, Answer(p) \/ PollFails(p) \/ Compare(p) PROVE RouteInv'
  BY <1>13, <1>15 DEF Answer, PollFails, Compare
<1>16. ASSUME NEW d \in Doc, ParseStep(d) \/ Reparse(d) \/ RemoveDoc(d) PROVE RouteInv'
  BY <1>13, <1>16 DEF ParseStep, Reparse, RemoveDoc
<1>17. CASE UNCHANGED pageVars
  BY <1>13, <1>17 DEF pageVars
<1> QED
  BY <1>1, <1>2, <1>3, <1>4, <1>5, <1>6, <1>7, <1>8, <1>9, <1>11, <1>12, <1>14, <1>15, <1>16, <1>17 DEF PagesNext

\* For any knowledge bases, uploads, documents, watches and polls, a configuration
\* reaches only the knowledge base it was read from, however quickly pages are left
\* and opened while answers are on their way (KnowledgeDetailView.vue).
THEOREM ConfigAlwaysOwn == PagesSpec => ConfigOwn
<1>1. ASSUME RouteInv, [PagesNext]_pageVars
      PROVE  [\A kb \in Kb : config'[kb] \in {config[kb], kb, NoKb} \/ page.opened # kb \/ page.reset]_pageVars
  <2>1. CASE SaveConfig
    BY <1>1, <2>1 DEF SaveConfig, RouteInv, PageType
  <2>2. CASE GoTo
    BY <2>2 DEF GoTo, Leave
  <2>3. ASSUME NEW u \in Upload, BeginUpload(u) PROVE UNCHANGED config
    BY <2>3 DEF BeginUpload, CustomUpload, DropFiles, ImportGroups, Upon
  <2> QED
    BY <1>1, <2>1, <2>2, <2>3 DEF PagesNext, pageVars, ResetForm, Jump, DetailAnswer, DetailFails, Poll, Expire, Sent,
      Refreshed, UploadFails, Watch, Answer, PollFails, Compare, ParseStep, Reparse, RemoveDoc
<1> QED
  BY <1>1, PageInitInv, PageStep, PTL DEF PagesSpec, ConfigOwn

-----------------------------------------------------------------------------
(* What the watch tells                                                     *)

Marks == {"null", "pending", "parsing", "ended"}
WatchEntries == UNION {[docs -> Marks] : docs \in SUBSET Doc}
PollLists == UNION {[docs -> Marks \ {"null"}] : docs \in SUBSET Doc}
PollSet == [entry : 0 .. MaxWatches, kb : Bases, pc : {"free", "asked", "answered"}, list : PollLists]

WatchType ==
  /\ status \in [Doc -> {"none", "pending", "parsing", "ended", "removed"}]
  /\ home \in [Doc -> Bases] /\ told \in [Doc -> {-1, 0, 1}]
  /\ watch \in [Kb -> 0 .. MaxWatches]
  /\ entry \in [1 .. MaxWatches -> WatchEntries]
  /\ poll \in [1 .. MaxPolls -> PollSet]
  /\ \A p \in 1 .. MaxPolls : poll[p].pc # "free" => poll[p].entry \in 1 .. MaxWatches

\* Documents at the server have a home, and one that was told of is parsed.
AtHome ==
  \A d \in Doc : /\ status[d] # "none" => home[d] \in Kb
                 /\ told[d] = 1 => status[d] = "ended"

\* Documents still in an upload are in no other, nor in an entry.
UploadsOwn ==
  \A u \in Upload : \A d \in upload[u].docs :
    /\ status[d] # "none" /\ home[d] = upload[u].kb /\ told[d] # 1
    /\ \A v \in Upload : d \in upload[v].docs => v = u
    /\ \A e \in 1 .. MaxWatches : d \notin DOMAIN entry[e]

\* What is yet to be told is in the entry in force, and what was told has ended.
EntriesOwn ==
  \A e \in 1 .. MaxWatches : \A d \in DOMAIN entry[e] :
    /\ status[d] # "none"
    /\ told[d] = 0 => watch[home[d]] = e /\ entry[e][d] # "ended"
    /\ told[d] = 1 => entry[e][d] = "ended"

\* A list has documents of its knowledge base, and no end that was taken back.
ListsOwn ==
  \A p \in 1 .. MaxPolls : \A d \in DOMAIN poll[p].list :
    /\ status[d] # "none" /\ home[d] = poll[p].kb
    /\ told[d] >= 0 /\ poll[p].list[d] = "ended" => status[d] = "ended"
    /\ told[d] = 1 => poll[p].list[d] = "ended"

\* While a document is yet to be told, one poll at most asks for its knowledge
\* base, for the entry in force, and has the document in its answer.
PollsOwn ==
  \A e \in 1 .. MaxWatches : \A d \in DOMAIN entry[e] : \A p \in 1 .. MaxPolls :
    told[d] = 0 /\ poll[p].kb = home[d] =>
      /\ poll[p].entry = e /\ (poll[p].pc = "answered" => d \in DOMAIN poll[p].list)
      /\ \A q \in 1 .. MaxPolls : poll[q].kb = home[d] => q = p

WatchInv == WatchType /\ AtHome /\ UploadsOwn /\ EntriesOwn /\ ListsOwn /\ PollsOwn /\ Told

LEMMA WatchInitInv == PagesInit => WatchInv
<1> SUFFICES ASSUME PagesInit PROVE WatchInv
  OBVIOUS
<1>1. [d \in {} |-> ""] \in WatchEntries /\ [d \in {} |-> ""] \in PollLists /\ DOMAIN [d \in {} |-> ""] = {}
  <2>1. [d \in {} |-> ""] \in [{} -> Marks] /\ [d \in {} |-> ""] \in [{} -> Marks \ {"null"}]
    OBVIOUS
  <2>2. {} \in SUBSET Doc
    OBVIOUS
  <2> QED
    BY <2>1, <2>2 DEF WatchEntries, PollLists
<1>2. NoPoll \in PollSet /\ DOMAIN NoPoll.list = {} /\ NoPoll.pc = "free"
  <2>1. 0 \in 0 .. MaxWatches
    BY KnowledgePagesAssumption
  <2> QED
    BY <1>1, <2>1 DEF NoPoll, PollSet, Bases
<1>3. WatchType
  <2>1. watch \in [Kb -> 0 .. MaxWatches]
    BY KnowledgePagesAssumption DEF PagesInit
  <2>2. entry \in [1 .. MaxWatches -> WatchEntries] /\ poll \in [1 .. MaxPolls -> PollSet]
    BY <1>1, <1>2 DEF PagesInit
  <2>3. told \in [Doc -> {-1, 0, 1}]
    BY DEF PagesInit
  <2>4. \A p \in 1 .. MaxPolls : poll[p].pc = "free"
    BY <1>2 DEF PagesInit
  <2> QED
    BY <2>1, <2>2, <2>3, <2>4 DEF PagesInit, WatchType, Bases
<1>4. \A u \in Upload : upload[u].docs = {}
  BY DEF PagesInit, NoUpload
<1>5. \A e \in 1 .. MaxWatches : DOMAIN entry[e] = {}
  BY <1>1 DEF PagesInit
<1>6. \A p \in 1 .. MaxPolls : DOMAIN poll[p].list = {}
  BY <1>2 DEF PagesInit
<1>7. \A d \in Doc : status[d] = "none" /\ told[d] = 0
  BY DEF PagesInit
<1> QED
  BY <1>3, <1>4, <1>5, <1>6, <1>7 DEF WatchInv, AtHome, UploadsOwn, EntriesOwn, ListsOwn, PollsOwn, Told

LEMMA ExcusedOne ==
  ASSUME WatchInv, NEW docs, told' = Excused(docs), NEW d \in Doc
  PROVE  told'[d] = IF d \in docs THEN -1 ELSE told[d]
  BY DEF Excused

LEMMA ExcusedType ==
  ASSUME WatchInv, NEW docs, told' = Excused(docs)
  PROVE  told' \in [Doc -> {-1, 0, 1}]
  BY DEF Excused, WatchInv, WatchType

LEMMA NothingExcused ==
  ASSUME WatchInv
  PROVE  Excused({}) = told /\ Stopped({}) = watch
  BY DEF WatchInv, WatchType, Excused, Stopped

LEMMA EntryDocs ==
  ASSUME WatchInv, NEW e \in 1 .. MaxWatches
  PROVE  entry[e] \in WatchEntries /\ DOMAIN entry[e] \subseteq Doc /\ \A d \in DOMAIN entry[e] : entry[e][d] \in Marks
  BY DEF WatchInv, WatchType, WatchEntries

LEMMA ListDocs ==
  ASSUME WatchInv, NEW p \in 1 .. MaxPolls
  PROVE  poll[p].list \in PollLists /\ DOMAIN poll[p].list \subseteq Doc
         /\ \A d \in DOMAIN poll[p].list : poll[p].list[d] \in Marks \ {"null"}
  BY DEF WatchInv, WatchType, PollSet, PollLists

LEMMA TrackedIn ==
  ASSUME WatchInv, NEW kb \in Kb, NEW d
  PROVE  d \in Tracked(kb) <=> watch[kb] \in 1 .. MaxWatches /\ d \in DOMAIN entry[watch[kb]]
<1>1. watch[kb] \in 0 .. MaxWatches
  BY DEF WatchInv, WatchType
<1>2. MaxWatches \in Nat
  BY KnowledgePagesAssumption
<1>3. watch[kb] # 0 <=> watch[kb] \in 1 .. MaxWatches
  BY <1>1, <1>2
<1> QED
  BY <1>3 DEF Tracked

\* Steps that excuse documents and stop watches, and move others on in the parser.
LEMMA QuietInv ==
  ASSUME RouteInv, WatchInv, NEW docs, NEW kbs \in SUBSET Kb,
         UNCHANGED <<home, entry, poll>>, told' = Excused(docs), watch' = Stopped(kbs),
         \A kb \in kbs : Tracked(kb) \subseteq docs,
         status' \in [Doc -> {"none", "pending", "parsing", "ended", "removed"}],
         \A d \in Doc : /\ status'[d] = "none" <=> status[d] = "none"
                        /\ d \in docs \/ status'[d] = status[d] \/ (status[d] \in Pending /\ status'[d] # "none"),
         \A u \in Upload : /\ \A d \in upload'[u].docs : d \in upload[u].docs /\ upload'[u].kb = upload[u].kb
                           /\ \A d \in upload[u].docs : d \in upload'[u].docs \/ d \in docs
  PROVE  WatchInv'
<1>1. \A d \in Doc : told'[d] = IF d \in docs THEN -1 ELSE told[d]
  BY ExcusedOne
<1>2. \A kb \in Kb : watch'[kb] = IF kb \in kbs THEN 0 ELSE watch[kb]
  BY DEF Stopped
<1>3. \A e \in 1 .. MaxWatches : DOMAIN entry[e] \subseteq Doc
  BY EntryDocs
<1>4. \A p \in 1 .. MaxPolls : DOMAIN poll[p].list \subseteq Doc
  BY ListDocs
<1>5. \A u \in Upload : upload[u].docs \subseteq Doc
  BY DEF RouteInv, PageType, UploadSet
<1>6. \A d \in Doc : status[d] # "none" => home[d] \in Kb
  BY DEF WatchInv, AtHome
<1>7. WatchType'
  <2>1. told' \in [Doc -> {-1, 0, 1}]
    BY ExcusedType
  <2>2. watch' \in [Kb -> 0 .. MaxWatches]
    BY KnowledgePagesAssumption DEF Stopped, WatchInv, WatchType
  <2> QED
    BY <2>1, <2>2 DEF WatchInv, WatchType
<1>8. AtHome'
  BY <1>1 DEF WatchInv, AtHome, Pending
<1>9. UploadsOwn'
  <2> SUFFICES ASSUME NEW u \in Upload, NEW d \in upload'[u].docs
               PROVE  /\ status'[d] # "none" /\ home'[d] = upload'[u].kb /\ told'[d] # 1
                      /\ \A v \in Upload : d \in upload'[v].docs => v = u
                      /\ \A e \in 1 .. MaxWatches : d \notin DOMAIN entry'[e]
    BY DEF UploadsOwn
  <2>1. d \in upload[u].docs /\ upload'[u].kb = upload[u].kb /\ d \in Doc
    BY <1>5
  <2>2. /\ status[d] # "none" /\ home[d] = upload[u].kb /\ told[d] # 1
        /\ \A v \in Upload : d \in upload[v].docs => v = u
        /\ \A e \in 1 .. MaxWatches : d \notin DOMAIN entry[e]
    BY <2>1 DEF WatchInv, UploadsOwn
  <2>3. \A v \in Upload : d \in upload'[v].docs => v = u
    BY <2>2
  <2>4. told'[d] # 1
    BY <1>1, <2>1, <2>2
  <2> QED
    BY <2>1, <2>2, <2>3, <2>4
<1>10. EntriesOwn'
  <2> SUFFICES ASSUME NEW e \in 1 .. MaxWatches, NEW d \in DOMAIN entry[e]
               PROVE  /\ status'[d] # "none"
                      /\ told'[d] = 0 => watch'[home[d]] = e /\ entry[e][d] # "ended"
                      /\ told'[d] = 1 => entry[e][d] = "ended"
    BY DEF EntriesOwn
  <2>1. /\ status[d] # "none" /\ d \in Doc
        /\ told[d] = 0 => watch[home[d]] = e /\ entry[e][d] # "ended"
        /\ told[d] = 1 => entry[e][d] = "ended"
    BY <1>3 DEF WatchInv, EntriesOwn
  <2>2. home[d] \in Kb
    BY <1>6, <2>1
  <2>3. ASSUME told'[d] = 0 PROVE d \notin docs /\ told[d] = 0
    BY <1>1, <2>1, <2>3
  <2>4. ASSUME told'[d] = 0 PROVE home[d] \notin kbs
    <3>1. d \in Tracked(home[d])
      BY <2>1, <2>2, <2>3, <2>4, TrackedIn
    <3> QED
      BY <2>3, <2>4, <3>1
  <2>5. ASSUME told'[d] = 1 PROVE told[d] = 1
    BY <1>1, <2>1, <2>5
  <2> QED
    BY <1>2, <2>1, <2>2, <2>3, <2>4, <2>5
<1>11. ListsOwn'
  <2> SUFFICES ASSUME NEW p \in 1 .. MaxPolls, NEW d \in DOMAIN poll[p].list
               PROVE  /\ status'[d] # "none" /\ home[d] = poll[p].kb
                      /\ told'[d] >= 0 /\ poll[p].list[d] = "ended" => status'[d] = "ended"
                      /\ told'[d] = 1 => poll[p].list[d] = "ended"
    BY DEF ListsOwn
  <2>1. /\ status[d] # "none" /\ home[d] = poll[p].kb /\ d \in Doc
        /\ told[d] >= 0 /\ poll[p].list[d] = "ended" => status[d] = "ended"
        /\ told[d] = 1 => poll[p].list[d] = "ended"
    BY <1>4 DEF WatchInv, ListsOwn
  <2>2. d \in docs \/ told'[d] = told[d]
    BY <1>1, <2>1
  <2>3. CASE d \in docs
    BY <1>1, <2>1, <2>3
  <2>4. CASE d \notin docs
    <3>1. told'[d] = told[d]
      BY <1>1, <2>1, <2>4
    <3>2. status'[d] = status[d] \/ status[d] \in Pending
      BY <2>1, <2>4
    <3> QED
      BY <2>1, <3>1, <3>2 DEF Pending
  <2> QED
    BY <2>3, <2>4
<1>12. PollsOwn'
  <2> SUFFICES ASSUME NEW e \in 1 .. MaxWatches, NEW d \in DOMAIN entry[e], NEW p \in 1 .. MaxPolls,
                      told'[d] = 0, poll[p].kb = home[d]
               PROVE  /\ poll[p].entry = e /\ (poll[p].pc = "answered" => d \in DOMAIN poll[p].list)
                      /\ \A q \in 1 .. MaxPolls : poll[q].kb = home[d] => q = p
    BY DEF PollsOwn
  <2>1. told[d] = 0
    BY <1>1, <1>3
  <2> QED
    BY <2>1 DEF WatchInv, PollsOwn
<1>13. Told'
  <2> SUFFICES ASSUME NEW d \in Doc
               PROVE  \/ status'[d] = "none" \/ told'[d] = -1 \/ \E u \in Upload : d \in upload'[u].docs
                      \/ told'[d] = 1
                      \/ told'[d] = 0 /\ d \in Tracked(home[d])'
    BY DEF Told
  <2>1. CASE d \in docs
    BY <1>1, <2>1
  <2>2. CASE d \notin docs
    <3>1. told'[d] = told[d]
      BY <1>1, <2>2
    <3>2. \/ status[d] = "none" \/ told[d] = -1 \/ \E u \in Upload : d \in upload[u].docs
          \/ told[d] = 1
          \/ told[d] = 0 /\ d \in Tracked(home[d])
      BY DEF WatchInv, Told
    <3>3. ASSUME status[d] # "none", d \in Tracked(home[d]) PROVE d \in Tracked(home[d])'
      <4>1. home[d] \in Kb
        BY <1>6, <3>3
      <4>2. home[d] \notin kbs
        BY <2>2, <3>3
      <4>3. watch'[home[d]] = watch[home[d]]
        BY <1>2, <4>1, <4>2
      <4> QED
        BY <3>3, <4>3 DEF Tracked
    <3> QED
      BY <2>2, <3>1, <3>2, <3>3
  <2> QED
    BY <2>1, <2>2
<1> QED
  BY <1>7, <1>8, <1>9, <1>10, <1>11, <1>12, <1>13 DEF WatchInv

\* A batch arrives with a document that was nowhere.
LEMMA SentInv ==
  ASSUME RouteInv, WatchInv, NEW u \in Upload, Sent(u)
  PROVE  WatchInv'
<1>1. PICK f \in Fresh, pc \in {"send", "watch", "list"} :
        /\ status' = [status EXCEPT ![f] = "pending"] /\ home' = [home EXCEPT ![f] = upload[u].kb]
        /\ upload' = [upload EXCEPT ![u].docs = @ \union {f}, ![u].pc = pc]
  BY DEF Sent
<1>2. f \in Doc /\ status[f] = "none"
  BY <1>1 DEF Fresh
<1>3. upload[u].kb \in Kb /\ upload[u] \in UploadSet
  BY DEF Sent, RouteInv, PageType
<1>4. UNCHANGED <<watch, entry, poll, told>>
  BY DEF Sent
<1>5. /\ \A d \in Doc : status'[d] = IF d = f THEN "pending" ELSE status[d]
      /\ \A d \in Doc : home'[d] = IF d = f THEN upload[u].kb ELSE home[d]
  BY <1>1, <1>2 DEF WatchInv, WatchType
<1>6. upload \in [Upload -> UploadSet]
  BY DEF RouteInv, PageType
<1>7. \A v \in Upload : /\ upload'[v].docs = (IF v = u THEN upload[u].docs \union {f} ELSE upload[v].docs)
                        /\ upload'[v].kb = upload[v].kb /\ upload[v].docs \subseteq Doc
  <2>1. upload'[u].docs = upload[u].docs \union {f} /\ upload'[u].kb = upload[u].kb
    BY <1>1, <1>3, <1>6 DEF UploadSet
  <2>2. \A v \in Upload : v # u => upload'[v] = upload[v]
    BY <1>1, <1>6
  <2>3. \A v \in Upload : upload[v].docs \subseteq Doc
    BY <1>6 DEF UploadSet
  <2> QED
    BY <2>1, <2>2, <2>3
<1>8. \A e \in 1 .. MaxWatches : f \notin DOMAIN entry[e] /\ DOMAIN entry[e] \subseteq Doc
  BY <1>2, EntryDocs DEF WatchInv, EntriesOwn
<1>9. \A p \in 1 .. MaxPolls : f \notin DOMAIN poll[p].list /\ DOMAIN poll[p].list \subseteq Doc
  BY <1>2, ListDocs DEF WatchInv, ListsOwn
<1>10. \A v \in Upload : f \notin upload[v].docs
  BY <1>2 DEF WatchInv, UploadsOwn
<1>11. told[f] # 1
  BY <1>2 DEF WatchInv, AtHome
<1>12. WatchType'
  BY <1>1, <1>2, <1>3, <1>4 DEF WatchInv, WatchType, Bases
<1>13. AtHome'
  BY <1>3, <1>4, <1>5, <1>11 DEF WatchInv, AtHome
<1>14. UploadsOwn'
  <2> SUFFICES ASSUME NEW v \in Upload, NEW d \in upload'[v].docs
               PROVE  /\ status'[d] # "none" /\ home'[d] = upload'[v].kb /\ told'[d] # 1
                      /\ \A w \in Upload : d \in upload'[w].docs => w = v
                      /\ \A e \in 1 .. MaxWatches : d \notin DOMAIN entry'[e]
    BY DEF UploadsOwn
  <2>1. CASE d = f
    <3>1. v = u
      BY <1>7, <1>10, <2>1
    <3> QED
      BY <1>2, <1>4, <1>5, <1>7, <1>8, <1>10, <1>11, <2>1, <3>1
  <2>2. CASE d # f
    <3>1. d \in upload[v].docs /\ d \in Doc
      BY <1>7, <2>2
    <3>2. /\ status[d] # "none" /\ home[d] = upload[v].kb /\ told[d] # 1
          /\ \A w \in Upload : d \in upload[w].docs => w = v
          /\ \A e \in 1 .. MaxWatches : d \notin DOMAIN entry[e]
      BY <3>1 DEF WatchInv, UploadsOwn
    <3>3. \A w \in Upload : d \in upload'[w].docs => d \in upload[w].docs
      BY <1>7, <2>2
    <3> QED
      BY <1>4, <1>5, <1>7, <2>2, <3>1, <3>2, <3>3
  <2> QED
    BY <2>1, <2>2
<1>15. EntriesOwn'
  BY <1>4, <1>5, <1>8 DEF WatchInv, EntriesOwn
<1>16. ListsOwn'
  BY <1>4, <1>5, <1>9 DEF WatchInv, ListsOwn
<1>17. PollsOwn'
  <2> SUFFICES ASSUME NEW e \in 1 .. MaxWatches, NEW d \in DOMAIN entry[e], NEW p \in 1 .. MaxPolls,
                      told[d] = 0, poll[p].kb = home'[d]
               PROVE  /\ poll[p].entry = e /\ (poll[p].pc = "answered" => d \in DOMAIN poll[p].list)
                      /\ \A q \in 1 .. MaxPolls : poll[q].kb = home'[d] => q = p
    BY <1>4 DEF PollsOwn
  <2>1. home'[d] = home[d]
    BY <1>5, <1>8
  <2> QED
    BY <2>1 DEF WatchInv, PollsOwn
<1>18. Told'
  <2> SUFFICES ASSUME NEW d \in Doc
               PROVE  \/ status'[d] = "none" \/ told'[d] = -1 \/ \E v \in Upload : d \in upload'[v].docs
                      \/ told'[d] = 1
                      \/ told'[d] = 0 /\ d \in Tracked(home[d])'
    BY DEF Told
  <2>1. CASE d = f
    BY <1>7, <2>1
  <2>2. CASE d # f
    <3>1. status'[d] = status[d] /\ home'[d] = home[d]
      BY <1>5, <2>2
    <3>2. \/ status[d] = "none" \/ told[d] = -1 \/ \E v \in Upload : d \in upload[v].docs
          \/ told[d] = 1
          \/ told[d] = 0 /\ d \in Tracked(home[d])
      BY DEF WatchInv, Told
    <3>3. Tracked(home[d])' = Tracked(home[d])
      BY <1>4, <3>1 DEF Tracked
    <3> QED
      BY <1>4, <1>7, <3>1, <3>2, <3>3
  <2> QED
    BY <2>1, <2>2
<1> QED
  BY <1>12, <1>13, <1>14, <1>15, <1>16, <1>17, <1>18 DEF WatchInv

\* The documents of an upload join the entry f; those that will not be told of by
\* the watch of their own knowledge base are excused.
LEMMA JoinInv ==
  ASSUME RouteInv, WatchInv, NEW u \in Upload, NEW f \in 1 .. MaxWatches, NEW kb \in Kb,
         upload' = [upload EXCEPT ![u] = NoUpload],
         entry' = [entry EXCEPT ![f] = [d \in DOMAIN entry[f] \union upload[u].docs |->
                                          IF d \in DOMAIN entry[f] THEN entry[f][d] ELSE "null"]],
         watch[kb] \in {0, f}, watch' = [watch EXCEPT ![kb] = f],
         NEW docs, docs = (IF kb # upload[u].kb \/ InFlight(kb) THEN upload[u].docs ELSE {}), told' = Excused(docs),
         UNCHANGED <<status, home, poll>>
  PROVE  WatchInv'
<1>0. /\ watch' \in [Kb -> 0 .. MaxWatches] /\ watch'[kb] = f
      /\ \A k \in Kb : watch'[k] = watch[k] \/ (k = kb /\ watch[k] = 0)
  <2>1. f \in 0 .. MaxWatches
    BY KnowledgePagesAssumption
  <2> QED
    BY <2>1 DEF WatchInv, WatchType
<1>1. \A d \in Doc : told'[d] = IF d \in docs THEN -1 ELSE told[d]
  BY ExcusedOne
<1>2. upload[u].docs \subseteq Doc /\ \A v \in Upload : upload'[v] = IF v = u THEN NoUpload ELSE upload[v]
  BY DEF RouteInv, PageType, UploadSet
<1>3. \A e \in 1 .. MaxWatches : entry[e] \in WatchEntries /\ DOMAIN entry[e] \subseteq Doc
                                 /\ \A d \in DOMAIN entry[e] : entry[e][d] \in Marks
  BY EntryDocs
<1>4. \A e \in 1 .. MaxWatches : e # f => entry'[e] = entry[e]
  BY DEF WatchInv, WatchType
<1>5. /\ DOMAIN entry'[f] = DOMAIN entry[f] \union upload[u].docs
      /\ \A d \in DOMAIN entry[f] : entry'[f][d] = entry[f][d]
      /\ \A d \in upload[u].docs : d \in DOMAIN entry[f] \/ entry'[f][d] = "null"
  BY DEF WatchInv, WatchType
<1>6. \A d \in upload[u].docs : /\ status[d] # "none" /\ home[d] = upload[u].kb /\ told[d] # 1
                                /\ \A v \in Upload : d \in upload[v].docs => v = u
                                /\ \A e \in 1 .. MaxWatches : d \notin DOMAIN entry[e]
  BY DEF WatchInv, UploadsOwn
<1>7. \A e \in 1 .. MaxWatches : \A d \in DOMAIN entry'[e] :
        d \in Doc /\ (\/ d \in DOMAIN entry[e] /\ entry'[e][d] = entry[e][d] /\ d \notin upload[u].docs
                      \/ e = f /\ d \in upload[u].docs /\ entry'[e][d] = "null")
  <2> SUFFICES ASSUME NEW e \in 1 .. MaxWatches, NEW d \in DOMAIN entry'[e]
               PROVE  d \in Doc /\ (\/ d \in DOMAIN entry[e] /\ entry'[e][d] = entry[e][d] /\ d \notin upload[u].docs
                                    \/ e = f /\ d \in upload[u].docs /\ entry'[e][d] = "null")
    OBVIOUS
  <2>1. CASE e # f
    BY <1>3, <1>4, <1>6, <2>1
  <2>2. CASE e = f
    BY <1>2, <1>3, <1>5, <1>6, <2>2
  <2> QED
    BY <2>1, <2>2
<1>8. \A d \in Doc : d \notin upload[u].docs => told'[d] = told[d]
  BY <1>1
<1>9. \A d \in upload[u].docs : told'[d] \in {-1, 0} /\ (told'[d] = 0 => kb = home[d] /\ ~InFlight(kb))
  BY <1>1, <1>2, <1>6 DEF WatchInv, WatchType
<1>10. WatchType'
  <2>1. told' \in [Doc -> {-1, 0, 1}]
    BY ExcusedType
  <2>2. entry'[f] \in WatchEntries
    <3>1. entry'[f] \in [DOMAIN entry[f] \union upload[u].docs -> Marks]
      BY <1>3, <1>5 DEF Marks, WatchInv, WatchType
    <3>2. DOMAIN entry[f] \union upload[u].docs \in SUBSET Doc
      BY <1>2, <1>3
    <3> QED
      BY <3>1, <3>2 DEF WatchEntries
  <2>3. entry' \in [1 .. MaxWatches -> WatchEntries]
    BY <2>2 DEF WatchInv, WatchType
  <2> QED
    BY <1>0, <2>1, <2>3 DEF WatchInv, WatchType
<1>11. AtHome'
  BY <1>1 DEF WatchInv, AtHome
<1>12. UploadsOwn'
  <2> SUFFICES ASSUME NEW v \in Upload, NEW d \in upload'[v].docs
               PROVE  /\ status[d] # "none" /\ home[d] = upload'[v].kb /\ told'[d] # 1
                      /\ \A w \in Upload : d \in upload'[w].docs => w = v
                      /\ \A e \in 1 .. MaxWatches : d \notin DOMAIN entry'[e]
    BY DEF UploadsOwn
  <2>1. v # u /\ d \in upload[v].docs /\ upload'[v] = upload[v]
    BY <1>2 DEF NoUpload
  <2>2. /\ status[d] # "none" /\ home[d] = upload[v].kb /\ told[d] # 1
        /\ \A w \in Upload : d \in upload[w].docs => w = v
        /\ \A e \in 1 .. MaxWatches : d \notin DOMAIN entry[e]
    BY <2>1 DEF WatchInv, UploadsOwn
  <2>3. d \in Doc /\ d \notin upload[u].docs
    BY <2>1, <2>2 DEF RouteInv, PageType, UploadSet
  <2>4. \A w \in Upload : d \in upload'[w].docs => w = v
    <3> SUFFICES ASSUME NEW w \in Upload, d \in upload'[w].docs PROVE w = v
      OBVIOUS
    <3>1. w # u /\ d \in upload[w].docs
      BY <1>2 DEF NoUpload
    <3> QED
      BY <2>2, <3>1
  <2>5. \A e \in 1 .. MaxWatches : d \notin DOMAIN entry'[e]
    BY <1>7, <2>2, <2>3
  <2> QED
    BY <1>8, <2>1, <2>2, <2>3, <2>4, <2>5
<1>13. EntriesOwn'
  <2> SUFFICES ASSUME NEW e \in 1 .. MaxWatches, NEW d \in DOMAIN entry'[e]
               PROVE  /\ status'[d] # "none"
                      /\ told'[d] = 0 => watch'[home'[d]] = e /\ entry'[e][d] # "ended"
                      /\ told'[d] = 1 => entry'[e][d] = "ended"
    BY DEF EntriesOwn
  <2>1. CASE d \in upload[u].docs
    BY <1>0, <1>6, <1>7, <1>9, <2>1
  <2>2. CASE d \notin upload[u].docs
    <3>1. d \in DOMAIN entry[e] /\ entry'[e][d] = entry[e][d] /\ d \in Doc
      BY <1>7, <2>2
    <3>2. /\ status[d] # "none"
          /\ told[d] = 0 => watch[home[d]] = e /\ entry[e][d] # "ended"
          /\ told[d] = 1 => entry[e][d] = "ended"
      BY <3>1 DEF WatchInv, EntriesOwn
    <3>3. home[d] \in Kb
      BY <3>1, <3>2 DEF WatchInv, AtHome
    <3>4. watch[home[d]] = e => watch'[home[d]] = e
      BY <1>0, <3>3
    <3>5. told'[d] = told[d]
      BY <1>8, <2>2, <3>1
    <3> QED
      BY <3>1, <3>2, <3>4, <3>5
  <2> QED
    BY <2>1, <2>2
<1>14. ListsOwn'
  <2> SUFFICES ASSUME NEW p \in 1 .. MaxPolls, NEW d \in DOMAIN poll[p].list
               PROVE  /\ status[d] # "none" /\ home[d] = poll[p].kb
                      /\ told'[d] >= 0 /\ poll[p].list[d] = "ended" => status[d] = "ended"
                      /\ told'[d] = 1 => poll[p].list[d] = "ended"
    BY DEF ListsOwn
  <2>1. d \in Doc
    BY ListDocs
  <2>2. told'[d] = -1 \/ told'[d] = told[d]
    BY <1>1, <2>1
  <2> QED
    BY <2>2 DEF WatchInv, ListsOwn
<1>15. PollsOwn'
  <2> SUFFICES ASSUME NEW e \in 1 .. MaxWatches, NEW d \in DOMAIN entry'[e], NEW p \in 1 .. MaxPolls,
                      told'[d] = 0, poll[p].kb = home[d]
               PROVE  /\ poll[p].entry = e /\ (poll[p].pc = "answered" => d \in DOMAIN poll[p].list)
                      /\ \A q \in 1 .. MaxPolls : poll[q].kb = home[d] => q = p
    BY DEF PollsOwn
  <2>1. CASE d \in upload[u].docs
    <3>1. poll[p].kb = kb /\ ~InFlight(kb)
      BY <1>9, <2>1
    <3>2. p \in DOMAIN poll
      BY DEF WatchInv, WatchType
    <3> QED
      BY <3>1, <3>2 DEF InFlight
  <2>2. CASE d \notin upload[u].docs
    <3>1. d \in DOMAIN entry[e] /\ d \in Doc
      BY <1>7, <2>2
    <3>2. told[d] = 0
      BY <1>8, <2>2, <3>1
    <3> QED
      BY <3>1, <3>2 DEF WatchInv, PollsOwn
  <2> QED
    BY <2>1, <2>2
<1>16. Told'
  <2> SUFFICES ASSUME NEW d \in Doc
               PROVE  \/ status[d] = "none" \/ told'[d] = -1 \/ \E v \in Upload : d \in upload'[v].docs
                      \/ told'[d] = 1
                      \/ told'[d] = 0 /\ d \in Tracked(home[d])'
    BY DEF Told
  <2>1. CASE d \in upload[u].docs
    <3>1. CASE told'[d] = 0
      <4>1. kb = home[d] /\ watch'[home[d]] = f /\ f # 0
        BY <1>0, <1>9, <2>1, <3>1
      <4>2. d \in DOMAIN entry'[f]
        BY <1>5, <2>1
      <4> QED
        BY <3>1, <4>1, <4>2 DEF Tracked
    <3> QED
      BY <1>9, <2>1, <3>1
  <2>2. CASE d \notin upload[u].docs
    <3>1. \/ status[d] = "none" \/ told[d] = -1 \/ \E v \in Upload : d \in upload[v].docs
          \/ told[d] = 1
          \/ told[d] = 0 /\ status[d] # "none" /\ d \in Tracked(home[d])
      BY DEF WatchInv, Told
    <3>2. \A v \in Upload : d \in upload[v].docs => d \in upload'[v].docs
      BY <1>2, <2>2
    <3>3. ASSUME told[d] = 0, status[d] # "none", d \in Tracked(home[d]) PROVE d \in Tracked(home[d])'
      <4>1. home[d] \in Kb
        BY <3>3 DEF WatchInv, AtHome
      <4>2. watch[home[d]] # 0 /\ watch[home[d]] \in 1 .. MaxWatches /\ d \in DOMAIN entry[watch[home[d]]]
        BY <3>3, <4>1, TrackedIn
      <4>3. watch'[home[d]] = watch[home[d]]
        BY <1>0, <4>1, <4>2
      <4>4. d \in DOMAIN entry'[watch[home[d]]]
        BY <1>4, <1>5, <4>2
      <4> QED
        BY <4>2, <4>3, <4>4 DEF Tracked
    <3> QED
      BY <1>8, <2>2, <3>1, <3>2, <3>3
  <2> QED
    BY <2>1, <2>2
<1> QED
  BY <1>10, <1>11, <1>12, <1>13, <1>14, <1>15, <1>16 DEF WatchInv

LEMMA WatchActionInv ==
  ASSUME RouteInv, WatchInv, NEW u \in Upload, Watch(u)
  PROVE  WatchInv'
<1> DEFINE kb == Aim(upload[u])
           docs == IF kb # upload[u].kb \/ InFlight(kb) THEN upload[u].docs ELSE {}
           Joining(was) == [d \in DOMAIN was \union upload[u].docs |-> IF d \in DOMAIN was THEN was[d] ELSE "null"]
<1>1. upload[u].kb \in Kb /\ kb \in Bases /\ upload[u].docs \subseteq Doc
  BY AimType DEF Watch, RouteInv, PageType, UploadSet
<1>2. told' = Excused(docs)
  <2>1. Excused({}) = told
    BY NothingExcused
  <2> QED
    BY <2>1 DEF Watch
<1>3. upload' = [upload EXCEPT ![u] = NoUpload] /\ UNCHANGED <<status, home, poll>>
  BY DEF Watch
<1>4. upload \in [Upload -> UploadSet]
  BY DEF RouteInv, PageType
<1>5. MaxWatches \in Nat
  BY KnowledgePagesAssumption
<1>6. CASE kb = NoKb
  <2>1. UNCHANGED <<watch, entry>>
    BY <1>6 DEF Watch
  <2>2. docs = upload[u].docs
    BY <1>1, <1>6, KnowledgePagesAssumption
  <2>3. watch' = Stopped({})
    BY <2>1, NothingExcused
  <2>4. status' \in [Doc -> {"none", "pending", "parsing", "ended", "removed"}]
    BY <1>3 DEF WatchInv, WatchType
  <2>5. \A v \in Upload : upload'[v] = IF v = u THEN NoUpload ELSE upload[v]
    BY <1>3, <1>4
  <2>6. \A v \in Upload : /\ \A d \in upload'[v].docs : d \in upload[v].docs /\ upload'[v].kb = upload[v].kb
                          /\ \A d \in upload[v].docs : d \in upload'[v].docs \/ d \in docs
    BY <2>2, <2>5 DEF NoUpload
  <2> HIDE DEF docs, kb
  <2> QED
    BY <1>2, <1>3, <2>1, <2>3, <2>4, <2>6, QuietInv
<1>7. CASE kb # NoKb /\ watch[kb] # 0
  <2>1. kb \in Kb /\ watch[kb] \in 1 .. MaxWatches
    BY <1>1, <1>5, <1>7 DEF Bases, WatchInv, WatchType
  <2>2. entry' = [entry EXCEPT ![watch[kb]] = Joining(entry[watch[kb]])] /\ watch' = watch
    BY <1>7, <2>1 DEF Watch, WatchInv, WatchType
  <2> DEFINE f == watch[kb]
  <2>4. f \in 1 .. MaxWatches
    BY <2>1
  <2>5. entry' = [entry EXCEPT ![f] = [d \in DOMAIN entry[f] \union upload[u].docs |->
                                          IF d \in DOMAIN entry[f] THEN entry[f][d] ELSE "null"]]
    BY <2>2
  <2>6. watch[kb] \in {0, f} /\ watch' = [watch EXCEPT ![kb] = f]
    BY <2>1, <2>2 DEF WatchInv, WatchType
  <2>7. docs = IF kb # upload[u].kb \/ InFlight(kb) THEN upload[u].docs ELSE {}
    OBVIOUS
  <2> HIDE DEF docs, kb, f
  <2> QED
    BY <1>2, <1>3, <2>1, <2>4, <2>5, <2>6, <2>7, JoinInv
<1>8. CASE kb # NoKb /\ watch[kb] = 0
  <2>1. kb \in Kb
    BY <1>1, <1>8 DEF Bases
  <2>2. PICK f \in Unused : entry' = [entry EXCEPT ![f] = Joining(@)] /\ watch' = [watch EXCEPT ![kb] = f]
    BY <1>8 DEF Watch
  <2>3. f \in 1 .. MaxWatches
    BY DEF Unused
  <2>5. entry' = [entry EXCEPT ![f] = [d \in DOMAIN entry[f] \union upload[u].docs |->
                                          IF d \in DOMAIN entry[f] THEN entry[f][d] ELSE "null"]]
    BY <2>2, <2>3 DEF WatchInv, WatchType
  <2>6. watch[kb] \in {0, f} /\ watch' = [watch EXCEPT ![kb] = f]
    BY <1>8, <2>2
  <2>7. docs = IF kb # upload[u].kb \/ InFlight(kb) THEN upload[u].docs ELSE {}
    OBVIOUS
  <2> HIDE DEF docs, kb
  <2> QED
    BY <1>2, <1>3, <2>1, <2>3, <2>5, <2>6, <2>7, JoinInv
<1> QED
  BY <1>6, <1>7, <1>8

\* Steps of a poll that change no entry.
LEMMA AskingInv ==
  ASSUME RouteInv, WatchInv, NEW docs, told' = Excused(docs), UNCHANGED <<status, home, upload, watch, entry>>,
         poll' \in [1 .. MaxPolls -> PollSet],
         \A p \in 1 .. MaxPolls : poll'[p].pc # "free" => poll'[p].entry \in 1 .. MaxWatches, ListsOwn', PollsOwn'
  PROVE  WatchInv'
<1>1. \A d \in Doc : told'[d] = IF d \in docs THEN -1 ELSE told[d]
  BY ExcusedOne
<1>2. \A d \in Doc : told'[d] = -1 \/ told'[d] = told[d]
  BY <1>1
<1>3. WatchType'
  <2>1. told' \in [Doc -> {-1, 0, 1}]
    BY ExcusedType
  <2> QED
    BY <2>1 DEF WatchInv, WatchType
<1>4. AtHome'
  BY <1>2 DEF WatchInv, AtHome
<1>5. UploadsOwn'
  <2> SUFFICES ASSUME NEW u \in Upload, NEW d \in upload[u].docs
               PROVE  /\ status[d] # "none" /\ home[d] = upload[u].kb /\ told'[d] # 1
                      /\ \A v \in Upload : d \in upload[v].docs => v = u
                      /\ \A e \in 1 .. MaxWatches : d \notin DOMAIN entry[e]
    BY DEF UploadsOwn
  <2>1. /\ status[d] # "none" /\ home[d] = upload[u].kb /\ told[d] # 1
        /\ \A v \in Upload : d \in upload[v].docs => v = u
        /\ \A e \in 1 .. MaxWatches : d \notin DOMAIN entry[e]
    BY DEF WatchInv, UploadsOwn
  <2>2. d \in Doc
    BY DEF RouteInv, PageType, UploadSet
  <2> QED
    BY <1>2, <2>1, <2>2
<1>6. EntriesOwn'
  <2> SUFFICES ASSUME NEW e \in 1 .. MaxWatches, NEW d \in DOMAIN entry[e]
               PROVE  /\ status[d] # "none"
                      /\ told'[d] = 0 => watch[home[d]] = e /\ entry[e][d] # "ended"
                      /\ told'[d] = 1 => entry[e][d] = "ended"
    BY DEF EntriesOwn
  <2>1. /\ status[d] # "none" /\ d \in Doc
        /\ told[d] = 0 => watch[home[d]] = e /\ entry[e][d] # "ended"
        /\ told[d] = 1 => entry[e][d] = "ended"
    BY EntryDocs DEF WatchInv, EntriesOwn
  <2> QED
    BY <1>2, <2>1
<1>7. Told'
  <2> SUFFICES ASSUME NEW d \in Doc
               PROVE  \/ status[d] = "none" \/ told'[d] = -1 \/ \E u \in Upload : d \in upload[u].docs
                      \/ told'[d] = 1
                      \/ told'[d] = 0 /\ d \in Tracked(home[d])'
    BY DEF Told
  <2>1. Tracked(home[d])' = Tracked(home[d])
    BY DEF Tracked
  <2> QED
    BY <1>2, <2>1 DEF WatchInv, Told
<1> QED
  BY <1>3, <1>4, <1>5, <1>6, <1>7 DEF WatchInv

LEMMA PollShape ==
  ASSUME WatchInv, NEW p \in 1 .. MaxPolls
  PROVE  poll[p] \in PollSet /\ DOMAIN poll = 1 .. MaxPolls
  BY DEF WatchInv, WatchType

LEMMA NoPollType == NoPoll \in PollSet /\ DOMAIN NoPoll.list = {} /\ NoPoll.kb = NoKb /\ NoPoll.pc = "free"
<1>1. [d \in {} |-> ""] \in [{} -> Marks \ {"null"}] /\ DOMAIN [d \in {} |-> ""] = {}
  OBVIOUS
<1>2. {} \in SUBSET Doc
  OBVIOUS
<1>3. [d \in {} |-> ""] \in PollLists
  BY <1>1, <1>2 DEF PollLists
<1>4. 0 \in 0 .. MaxWatches
  BY KnowledgePagesAssumption
<1> QED
  BY <1>1, <1>3, <1>4 DEF NoPoll, PollSet, Bases

LEMMA PollInv ==
  ASSUME RouteInv, WatchInv, NEW kb \in Kb, Poll(kb)
  PROVE  WatchInv'
<1>1. PICK p \in 1 .. MaxPolls : /\ poll[p] = NoPoll
                                 /\ poll' = [poll EXCEPT ![p] = [NoPoll EXCEPT !.entry = watch[kb], !.kb = kb, !.pc = "asked"]]
  BY PollShape DEF Poll, WatchInv, WatchType
<1> DEFINE docs == IF \E q \in 1 .. MaxPolls : poll[q].entry = watch[kb] THEN Tracked(kb) ELSE {}
           new == [NoPoll EXCEPT !.entry = watch[kb], !.kb = kb, !.pc = "asked"]
<1>2. UNCHANGED <<status, home, upload, watch, entry>> /\ watch[kb] # 0
  BY DEF Poll
<1>3. told' = Excused(docs)
  <2>1. DOMAIN poll = 1 .. MaxPolls
    BY DEF WatchInv, WatchType
  <2> QED
    BY <2>1, NothingExcused DEF Poll
<1>4. watch[kb] \in 1 .. MaxWatches /\ watch[kb] \in 0 .. MaxWatches
  BY <1>2, KnowledgePagesAssumption DEF WatchInv, WatchType
<1>5. new \in PollSet /\ new.entry = watch[kb] /\ new.kb = kb /\ new.pc = "asked" /\ DOMAIN new.list = {}
  BY <1>4, NoPollType DEF NoPoll, PollSet, Bases
<1> HIDE DEF new
<1>6. \A q \in 1 .. MaxPolls : poll'[q] = IF q = p THEN new ELSE poll[q]
  BY <1>1 DEF new, WatchInv, WatchType
<1>7. poll' \in [1 .. MaxPolls -> PollSet]
  BY <1>1, <1>5 DEF new, WatchInv, WatchType
<1>11. \A q \in 1 .. MaxPolls : poll'[q].pc # "free" => poll'[q].entry \in 1 .. MaxWatches
  BY <1>4, <1>5, <1>6 DEF WatchInv, WatchType
<1>8. \A d \in Doc : told'[d] = IF d \in docs THEN -1 ELSE told[d]
  BY <1>3, ExcusedOne
<1>9. ListsOwn'
  <2> SUFFICES ASSUME NEW q \in 1 .. MaxPolls, NEW d \in DOMAIN poll'[q].list
               PROVE  /\ status'[d] # "none" /\ home'[d] = poll'[q].kb
                      /\ told'[d] >= 0 /\ poll'[q].list[d] = "ended" => status'[d] = "ended"
                      /\ told'[d] = 1 => poll'[q].list[d] = "ended"
    BY DEF ListsOwn
  <2>1. q # p /\ poll'[q] = poll[q]
    BY <1>5, <1>6
  <2>2. d \in Doc /\ d \in DOMAIN poll[q].list
    BY <2>1, ListDocs
  <2>3. told'[d] = -1 \/ told'[d] = told[d]
    BY <1>8, <2>2
  <2>4. /\ status[d] # "none" /\ home[d] = poll[q].kb
        /\ told[d] >= 0 /\ poll[q].list[d] = "ended" => status[d] = "ended"
        /\ told[d] = 1 => poll[q].list[d] = "ended"
    BY <2>2 DEF WatchInv, ListsOwn
  <2> QED
    BY <1>2, <2>1, <2>3, <2>4
<1>10. PollsOwn'
  <2> SUFFICES ASSUME NEW e \in 1 .. MaxWatches, NEW d \in DOMAIN entry[e], NEW q \in 1 .. MaxPolls,
                      told'[d] = 0, poll'[q].kb = home[d]
               PROVE  /\ poll'[q].entry = e /\ (poll'[q].pc = "answered" => d \in DOMAIN poll'[q].list)
                      /\ \A r \in 1 .. MaxPolls : poll'[r].kb = home[d] => r = q
    BY <1>2 DEF PollsOwn
  <2>1. d \in Doc /\ d \notin docs /\ told[d] = 0
    BY <1>8, EntryDocs
  <2>2. watch[home[d]] = e
    BY <2>1 DEF WatchInv, EntriesOwn
  <2>3. CASE home[d] = kb
    <3>1. d \in Tracked(kb)
      BY <1>4, <2>2, <2>3, TrackedIn
    <3>2. \A r \in 1 .. MaxPolls : poll[r].entry # e
      BY <2>1, <2>2, <2>3, <3>1
    <3>3. \A r \in 1 .. MaxPolls : poll[r].kb # kb
      BY <2>1, <2>3, <3>2 DEF WatchInv, PollsOwn
    <3>4. \A r \in 1 .. MaxPolls : poll'[r].kb = kb => r = p
      BY <1>6, <3>3
    <3>5. q = p
      BY <2>3, <3>4
    <3> QED
      BY <1>5, <1>6, <2>2, <2>3, <3>4, <3>5
  <2>4. CASE home[d] # kb
    <3>1. \A r \in 1 .. MaxPolls : poll'[r].kb = home[d] => r # p /\ poll'[r] = poll[r]
      BY <1>5, <1>6, <2>4
    <3>2. q # p /\ poll'[q] = poll[q]
      BY <3>1
    <3>3. /\ poll[q].entry = e /\ (poll[q].pc = "answered" => d \in DOMAIN poll[q].list)
          /\ \A r \in 1 .. MaxPolls : poll[r].kb = home[d] => r = q
      BY <2>1, <3>2 DEF WatchInv, PollsOwn
    <3>4. \A r \in 1 .. MaxPolls : poll'[r].kb = home[d] => r = q
      BY <3>1, <3>3
    <3> QED
      BY <3>2, <3>3, <3>4
  <2> QED
    BY <2>3, <2>4
<1> HIDE DEF docs
<1> QED
  BY <1>2, <1>3, <1>7, <1>9, <1>10, <1>11, AskingInv

LEMMA AnswerInv ==
  ASSUME RouteInv, WatchInv, NEW p \in 1 .. MaxPolls, Answer(p)
  PROVE  WatchInv'
<1>1. PICK list \in SUBSET Docs(poll[p].kb) :
        /\ poll' = [poll EXCEPT ![p].pc = "answered", ![p].list = [d \in list |-> status[d]]]
        /\ told' = Excused(DOMAIN entry[poll[p].entry] \ list)
  BY DEF Answer
<1>2. UNCHANGED <<status, home, upload, watch, entry>>
  BY DEF Answer
<1>3. \A d \in list : /\ d \in Doc /\ home[d] = poll[p].kb
                      /\ status[d] \in {"pending", "parsing", "ended"}
  BY DEF Docs, WatchInv, WatchType
<1>4. poll[p] \in PollSet /\ DOMAIN poll = 1 .. MaxPolls
  BY PollShape
<1> DEFINE docs == DOMAIN entry[poll[p].entry] \ list
           shown == [d \in list |-> status[d]]
           new == [poll[p] EXCEPT !.pc = "answered", !.list = shown]
<1>5. shown \in PollLists
  <2>1. shown \in [list -> Marks \ {"null"}] /\ list \in SUBSET Doc
    BY <1>3 DEF Marks
  <2> QED
    BY <2>1 DEF PollLists
<1>6. new \in PollSet /\ new.entry = poll[p].entry /\ new.kb = poll[p].kb /\ new.list = shown
  <2> HIDE DEF shown
  <2> QED
    BY <1>4, <1>5 DEF PollSet
<1>7. poll' = [poll EXCEPT ![p] = new]
  BY <1>1, <1>4
<1> HIDE DEF new
<1>8. \A q \in 1 .. MaxPolls : poll'[q] = IF q = p THEN new ELSE poll[q]
  BY <1>4, <1>7
<1>9. poll' \in [1 .. MaxPolls -> PollSet]
  BY <1>6, <1>7 DEF WatchInv, WatchType
<1>14. \A q \in 1 .. MaxPolls : poll'[q].pc # "free" => poll'[q].entry \in 1 .. MaxWatches
  <2>1. poll[p].entry \in 1 .. MaxWatches
    BY DEF Answer, WatchInv, WatchType
  <2> QED
    BY <1>6, <1>8, <2>1 DEF WatchInv, WatchType
<1>10. \A d \in Doc : told'[d] = IF d \in docs THEN -1 ELSE told[d]
  BY <1>1, ExcusedOne
<1>11. ListsOwn'
  <2> SUFFICES ASSUME NEW q \in 1 .. MaxPolls, NEW d \in DOMAIN poll'[q].list
               PROVE  /\ status'[d] # "none" /\ home'[d] = poll'[q].kb
                      /\ told'[d] >= 0 /\ poll'[q].list[d] = "ended" => status'[d] = "ended"
                      /\ told'[d] = 1 => poll'[q].list[d] = "ended"
    BY DEF ListsOwn
  <2>1. CASE q = p
    <3>1. d \in list /\ poll'[q].list[d] = status[d] /\ poll'[q].kb = poll[p].kb
      BY <1>6, <1>8, <2>1
    <3>2. d \in Doc /\ told'[d] = 1 => told[d] = 1
      BY <1>10
    <3>3. told[d] = 1 /\ d \in Doc => status[d] = "ended"
      BY DEF WatchInv, AtHome
    <3> QED
      BY <1>2, <1>3, <3>1, <3>2, <3>3
  <2>2. CASE q # p
    <3>1. poll'[q] = poll[q]
      BY <1>8, <2>2
    <3>2. d \in Doc /\ d \in DOMAIN poll[q].list
      BY <3>1, ListDocs
    <3>3. told'[d] = -1 \/ told'[d] = told[d]
      BY <1>10, <3>2
    <3>4. /\ status[d] # "none" /\ home[d] = poll[q].kb
          /\ told[d] >= 0 /\ poll[q].list[d] = "ended" => status[d] = "ended"
          /\ told[d] = 1 => poll[q].list[d] = "ended"
      BY <3>2 DEF WatchInv, ListsOwn
    <3> QED
      BY <1>2, <3>1, <3>3, <3>4
  <2> QED
    BY <2>1, <2>2
<1>12. PollsOwn'
  <2> SUFFICES ASSUME NEW e \in 1 .. MaxWatches, NEW d \in DOMAIN entry[e], NEW q \in 1 .. MaxPolls,
                      told'[d] = 0, poll'[q].kb = home[d]
               PROVE  /\ poll'[q].entry = e /\ (poll'[q].pc = "answered" => d \in DOMAIN poll'[q].list)
                      /\ \A r \in 1 .. MaxPolls : poll'[r].kb = home[d] => r = q
    BY <1>2 DEF PollsOwn
  <2>1. d \in Doc /\ d \notin docs /\ told[d] = 0
    BY <1>10, EntryDocs
  <2>2. \A r \in 1 .. MaxPolls : poll'[r].kb = poll[r].kb /\ poll'[r].entry = poll[r].entry
    BY <1>6, <1>8
  <2>3. /\ poll[q].entry = e /\ (poll[q].pc = "answered" => d \in DOMAIN poll[q].list)
        /\ \A r \in 1 .. MaxPolls : poll[r].kb = home[d] => r = q
    BY <2>1, <2>2 DEF WatchInv, PollsOwn
  <2>4. CASE q = p
    <3>1. d \in list
      BY <2>1, <2>3, <2>4
    <3>2. d \in DOMAIN poll'[q].list
      BY <1>6, <1>8, <2>4, <3>1
    <3> QED
      BY <2>2, <2>3, <3>2
  <2>5. CASE q # p
    BY <1>8, <2>2, <2>3, <2>5
  <2> QED
    BY <2>4, <2>5
<1>13. told' = Excused(docs)
  BY <1>1
<1> HIDE DEF docs
<1> QED
  BY <1>2, <1>9, <1>11, <1>12, <1>13, <1>14, AskingInv

LEMMA PollFailsInv ==
  ASSUME RouteInv, WatchInv, NEW p \in 1 .. MaxPolls, PollFails(p)
  PROVE  WatchInv'
<1>1. poll' = [poll EXCEPT ![p] = NoPoll] /\ UNCHANGED <<status, home, upload, watch, entry, told>>
  BY DEF PollFails
<1>2. told' = Excused({})
  BY <1>1, NothingExcused
<1>3. \A q \in 1 .. MaxPolls : poll'[q] = IF q = p THEN NoPoll ELSE poll[q]
  BY <1>1 DEF WatchInv, WatchType
<1>4. poll' \in [1 .. MaxPolls -> PollSet]
  BY <1>1, NoPollType DEF WatchInv, WatchType
<1>7. \A q \in 1 .. MaxPolls : poll'[q].pc # "free" => poll'[q].entry \in 1 .. MaxWatches
  BY <1>3, NoPollType DEF WatchInv, WatchType
<1>5. ListsOwn'
  <2> SUFFICES ASSUME NEW q \in 1 .. MaxPolls, NEW d \in DOMAIN poll'[q].list
               PROVE  /\ status'[d] # "none" /\ home'[d] = poll'[q].kb
                      /\ told'[d] >= 0 /\ poll'[q].list[d] = "ended" => status'[d] = "ended"
                      /\ told'[d] = 1 => poll'[q].list[d] = "ended"
    BY DEF ListsOwn
  <2>1. poll'[q] = poll[q]
    BY <1>3, NoPollType
  <2> QED
    BY <1>1, <2>1 DEF WatchInv, ListsOwn
<1>6. PollsOwn'
  <2> SUFFICES ASSUME NEW e \in 1 .. MaxWatches, NEW d \in DOMAIN entry[e], NEW q \in 1 .. MaxPolls,
                      told[d] = 0, poll'[q].kb = home[d]
               PROVE  /\ poll'[q].entry = e /\ (poll'[q].pc = "answered" => d \in DOMAIN poll'[q].list)
                      /\ \A r \in 1 .. MaxPolls : poll'[r].kb = home[d] => r = q
    BY <1>1 DEF PollsOwn
  <2>1. home[d] \in Kb
    BY EntryDocs DEF WatchInv, EntriesOwn, AtHome
  <2>2. \A r \in 1 .. MaxPolls : poll'[r].kb = home[d] => poll'[r] = poll[r]
    BY <1>3, <2>1, NoPollType, KnowledgePagesAssumption
  <2> QED
    BY <2>2 DEF WatchInv, PollsOwn
<1> QED
  BY <1>1, <1>2, <1>4, <1>5, <1>6, <1>7, AskingInv

\* An answer is compared with its entry.
LEMMA CompareInv ==
  ASSUME RouteInv, WatchInv, NEW p \in 1 .. MaxPolls, Compare(p)
  PROVE  WatchInv'
<1> DEFINE e0 == poll[p].entry
           list == poll[p].list
           was == entry[e0]
           newer == [d \in DOMAIN was |-> IF d \in DOMAIN list THEN list[d] ELSE was[d]]
<1>1. /\ poll[p].pc = "answered" /\ poll' = [poll EXCEPT ![p] = NoPoll]
      /\ entry' = [entry EXCEPT ![e0] = newer]
      /\ told' = [d \in Doc |-> IF told[d] >= 0 /\ d \in DOMAIN was /\ newer[d] # was[d] /\ newer[d] = "ended"
                                THEN told[d] + 1 ELSE told[d]]
      /\ watch' = IF AllSettled(newer) THEN Stopped({poll[p].kb}) ELSE watch
      /\ UNCHANGED <<status, home, upload>>
  BY DEF Compare
<1>2. poll[p] \in PollSet /\ DOMAIN poll = 1 .. MaxPolls
  BY PollShape
<1>3. \A q \in 1 .. MaxPolls : poll'[q] = IF q = p THEN NoPoll ELSE poll[q]
  BY <1>1, <1>2
<1>4. /\ \A d \in DOMAIN list : /\ d \in Doc /\ list[d] \in {"pending", "parsing", "ended"}
                                /\ status[d] # "none" /\ home[d] = poll[p].kb
                                /\ told[d] >= 0 /\ list[d] = "ended" => status[d] = "ended"
                                /\ told[d] = 1 => list[d] = "ended"
  BY ListDocs DEF WatchInv, ListsOwn, Marks
<1>5. \A e \in 1 .. MaxWatches : \A d \in DOMAIN entry[e] :
        /\ d \in Doc /\ entry[e][d] \in Marks /\ status[d] # "none" /\ home[d] \in Kb
        /\ told[d] \in {-1, 0, 1}
        /\ told[d] = 0 => watch[home[d]] = e /\ entry[e][d] # "ended"
        /\ told[d] = 1 => entry[e][d] = "ended" /\ status[d] = "ended"
  <2> SUFFICES ASSUME NEW e \in 1 .. MaxWatches, NEW d \in DOMAIN entry[e]
               PROVE  /\ d \in Doc /\ entry[e][d] \in Marks /\ status[d] # "none" /\ home[d] \in Kb
                      /\ told[d] \in {-1, 0, 1}
                      /\ told[d] = 0 => watch[home[d]] = e /\ entry[e][d] # "ended"
                      /\ told[d] = 1 => entry[e][d] = "ended" /\ status[d] = "ended"
    OBVIOUS
  <2>1. d \in Doc /\ entry[e][d] \in Marks
    BY EntryDocs
  <2>2. /\ status[d] # "none"
        /\ told[d] = 0 => watch[home[d]] = e /\ entry[e][d] # "ended"
        /\ told[d] = 1 => entry[e][d] = "ended"
    BY DEF WatchInv, EntriesOwn
  <2>3. told[d] \in {-1, 0, 1}
    BY <2>1 DEF WatchInv, WatchType
  <2>4. home[d] \in Kb /\ (told[d] = 1 => status[d] = "ended")
    BY <2>1, <2>2 DEF WatchInv, AtHome
  <2> QED
    BY <2>1, <2>2, <2>3, <2>4
<1>6. e0 \in 1 .. MaxWatches /\ poll[p].kb \in Bases
  BY <1>1, <1>2 DEF PollSet, WatchInv, WatchType
<1>7. DOMAIN newer = DOMAIN was /\ entry'[e0] = newer /\ \A e \in 1 .. MaxWatches : e # e0 => entry'[e] = entry[e]
  BY <1>1, <1>6 DEF WatchInv, WatchType
<1>8. \A d \in DOMAIN was : newer[d] = IF d \in DOMAIN list THEN list[d] ELSE was[d]
  OBVIOUS
<1>9. \A d \in Doc : told[d] \in {-1, 0, 1}
  BY DEF WatchInv, WatchType
<1>10. \A d \in Doc : told'[d] = IF told[d] >= 0 /\ d \in DOMAIN was /\ newer[d] # was[d] /\ newer[d] = "ended"
                                 THEN told[d] + 1 ELSE told[d]
  BY <1>1
<1> HIDE DEF newer, was, list, e0
\* What happens to the documents of the entry.
<1>11. ASSUME NEW d \in DOMAIN was, told[d] = 1
       PROVE  told'[d] = 1 /\ newer[d] = "ended"
  <2>1. was[d] = "ended" /\ d \in Doc
    BY <1>5, <1>6, <1>11 DEF was
  <2>2. newer[d] = "ended"
    BY <1>4, <1>8, <1>11, <2>1
  <2> QED
    BY <1>10, <1>11, <2>1, <2>2
<1>12. ASSUME NEW d \in DOMAIN was, told[d] = 0, home[d] # poll[p].kb
       PROVE  told'[d] = 0 /\ newer[d] # "ended"
  <2>1. was[d] # "ended" /\ d \in Doc
    BY <1>5, <1>6, <1>12 DEF was
  <2>2. d \notin DOMAIN list
    BY <1>4, <1>12
  <2>3. newer[d] = was[d]
    BY <1>8, <2>2
  <2> QED
    BY <1>10, <1>12, <2>1, <2>3
<1>13. ASSUME NEW d \in DOMAIN was, told[d] = 0, home[d] = poll[p].kb
       PROVE  \/ told'[d] = 1 /\ newer[d] = "ended" /\ status[d] = "ended"
              \/ told'[d] = 0 /\ newer[d] # "ended" /\ watch' = watch
  <2>1. was[d] # "ended" /\ d \in Doc
    BY <1>5, <1>6, <1>13 DEF was
  <2>2. d \in DOMAIN list
    BY <1>1, <1>6, <1>13 DEF was, e0, list, WatchInv, PollsOwn
  <2>3. newer[d] = list[d] /\ list[d] \in {"pending", "parsing", "ended"}
    BY <1>4, <1>8, <2>2
  <2>4. CASE list[d] = "ended"
    <3>1. status[d] = "ended"
      BY <1>4, <1>13, <2>2, <2>4
    <3>2. told'[d] = 0 + 1
      BY <1>10, <1>13, <2>1, <2>3, <2>4
    <3> QED
      BY <2>3, <2>4, <3>1, <3>2
  <2>5. CASE list[d] # "ended"
    <3>1. newer[d] \in Pending
      BY <2>3, <2>5 DEF Pending
    <3>2. ~AllSettled(newer)
      BY <1>7, <3>1 DEF AllSettled
    <3>3. watch' = watch
      BY <1>1, <3>2 DEF newer, was, list, e0
    <3>4. told'[d] = 0
      BY <1>10, <1>13, <2>1, <2>3, <2>5
    <3> QED
      BY <2>3, <2>5, <3>3, <3>4
  <2> QED
    BY <2>4, <2>5
<1>14. \A d \in Doc : \/ told'[d] = told[d]
                      \/ told[d] = 0 /\ told'[d] = 1 /\ d \in DOMAIN was /\ home[d] = poll[p].kb /\ status[d] = "ended"
  <2> SUFFICES ASSUME NEW d \in Doc, told'[d] # told[d]
               PROVE  told[d] = 0 /\ told'[d] = 1 /\ d \in DOMAIN was /\ home[d] = poll[p].kb /\ status[d] = "ended"
    OBVIOUS
  <2>1. told[d] >= 0 /\ d \in DOMAIN was
    BY <1>10
  <2>2. told[d] = 0 \/ told[d] = 1
    BY <1>9, <2>1
  <2> QED
    BY <1>11, <1>12, <1>13, <2>1, <2>2
<1>15. \A k \in Kb : k # poll[p].kb => watch'[k] = watch[k]
  BY <1>1 DEF Stopped, WatchInv, WatchType
<1>16. WatchType'
  <2>1. told' \in [Doc -> {-1, 0, 1}]
    <3>1. \A d \in Doc : told'[d] \in {-1, 0, 1}
      BY <1>9, <1>14
    <3> QED
      BY <1>1, <3>1
  <2>2. watch' \in [Kb -> 0 .. MaxWatches]
    BY <1>1, KnowledgePagesAssumption DEF Stopped, WatchInv, WatchType
  <2>3. newer \in WatchEntries
    <3>1. DOMAIN was \subseteq Doc /\ \A d \in DOMAIN was : was[d] \in Marks
      BY <1>5, <1>6 DEF was
    <3>2. \A d \in DOMAIN was : newer[d] \in Marks
      BY <1>4, <1>8, <3>1 DEF Marks
    <3>3. newer = [d \in DOMAIN was |-> newer[d]]
      BY <1>7 DEF newer
    <3>4. newer \in [DOMAIN was -> Marks]
      BY <3>2, <3>3
    <3> QED
      BY <3>1, <3>4 DEF WatchEntries
  <2>4. entry' \in [1 .. MaxWatches -> WatchEntries]
    <3>1. entry' = [entry EXCEPT ![e0] = newer]
      BY <1>1 DEF newer, was, list, e0
    <3> QED
      BY <1>6, <2>3, <3>1 DEF WatchInv, WatchType
  <2>5. poll' \in [1 .. MaxPolls -> PollSet]
    BY <1>1, NoPollType DEF WatchInv, WatchType
  <2>6. \A q \in 1 .. MaxPolls : poll'[q].pc # "free" => poll'[q].entry \in 1 .. MaxWatches
    BY <1>3, NoPollType DEF WatchInv, WatchType
  <2> QED
    BY <1>1, <2>1, <2>2, <2>4, <2>5, <2>6 DEF WatchInv, WatchType
<1>17. AtHome'
  BY <1>1, <1>14 DEF WatchInv, AtHome
<1>18. \A e \in 1 .. MaxWatches : DOMAIN entry'[e] = DOMAIN entry[e]
  BY <1>6, <1>7 DEF was
<1>19. UploadsOwn'
  <2> SUFFICES ASSUME NEW u \in Upload, NEW d \in upload[u].docs
               PROVE  /\ status[d] # "none" /\ home[d] = upload[u].kb /\ told'[d] # 1
                      /\ \A v \in Upload : d \in upload[v].docs => v = u
                      /\ \A e \in 1 .. MaxWatches : d \notin DOMAIN entry'[e]
    BY <1>1 DEF UploadsOwn
  <2>1. /\ status[d] # "none" /\ home[d] = upload[u].kb /\ told[d] # 1
        /\ \A v \in Upload : d \in upload[v].docs => v = u
        /\ \A e \in 1 .. MaxWatches : d \notin DOMAIN entry[e]
    BY DEF WatchInv, UploadsOwn
  <2>2. d \in Doc
    BY DEF RouteInv, PageType, UploadSet
  <2>3. d \notin DOMAIN was
    BY <1>6, <2>1 DEF was
  <2> QED
    BY <1>14, <1>18, <2>1, <2>2, <2>3
<1>20. EntriesOwn'
  <2> SUFFICES ASSUME NEW e \in 1 .. MaxWatches, NEW d \in DOMAIN entry[e]
               PROVE  /\ status[d] # "none"
                      /\ told'[d] = 0 => watch'[home[d]] = e /\ entry'[e][d] # "ended"
                      /\ told'[d] = 1 => entry'[e][d] = "ended"
    BY ZenonT(40), <1>1, <1>18 DEF EntriesOwn
  <2>1. /\ d \in Doc /\ status[d] # "none" /\ home[d] \in Kb /\ told[d] \in {-1, 0, 1}
        /\ told[d] = 0 => watch[home[d]] = e /\ entry[e][d] # "ended"
        /\ told[d] = 1 => entry[e][d] = "ended" /\ status[d] = "ended"
    BY <1>5
  <2>2. CASE e = e0
    <3>1. d \in DOMAIN was /\ entry'[e][d] = newer[d]
      BY <1>7, <2>2 DEF was
    <3>2. CASE told[d] = -1
      BY <1>14, <2>1, <3>2
    <3>3. CASE told[d] = 1
      BY <1>11, <2>1, <3>1, <3>3
    <3>4. CASE told[d] = 0
      BY <1>12, <1>13, <1>15, <2>1, <3>1, <3>4
    <3> QED
      BY <2>1, <3>2, <3>3, <3>4
  <2>3. CASE e # e0
    <3>1. entry'[e][d] = entry[e][d]
      BY <1>7, <2>3
    <3>2. ASSUME told[d] = 0 PROVE told'[d] = 0 /\ home[d] # poll[p].kb
      <4>1. home[d] # poll[p].kb
        BY <2>3, <3>2 DEF e0, WatchInv, PollsOwn
      <4> QED
        BY <1>14, <2>1, <3>2, <4>1
    <3>3. ASSUME told[d] # 0 PROVE told'[d] = told[d]
      BY <1>14, <2>1, <3>3
    <3> QED
      BY <1>15, <2>1, <3>1, <3>2, <3>3
  <2> QED
    BY <2>2, <2>3
<1>21. ListsOwn'
  <2> SUFFICES ASSUME NEW q \in 1 .. MaxPolls, NEW d \in DOMAIN poll'[q].list
               PROVE  /\ status'[d] # "none" /\ home'[d] = poll'[q].kb
                      /\ told'[d] >= 0 /\ poll'[q].list[d] = "ended" => status'[d] = "ended"
                      /\ told'[d] = 1 => poll'[q].list[d] = "ended"
    BY DEF ListsOwn
  <2>1. q # p /\ poll'[q] = poll[q]
    BY <1>3, NoPollType
  <2>2. d \in Doc /\ d \in DOMAIN poll[q].list
    BY <2>1, ListDocs
  <2>3. /\ status[d] # "none" /\ home[d] = poll[q].kb
        /\ told[d] >= 0 /\ poll[q].list[d] = "ended" => status[d] = "ended"
        /\ told[d] = 1 => poll[q].list[d] = "ended"
    BY <2>2 DEF WatchInv, ListsOwn
  <2>4. ASSUME told[d] = 0, d \in DOMAIN was, home[d] = poll[p].kb PROVE FALSE
    <3>1. d \in DOMAIN entry[e0]
      BY <2>4 DEF was
    <3>2. \A r \in 1 .. MaxPolls : poll[r].kb = home[d] => r = p
      BY <1>6, <2>4, <3>1 DEF WatchInv, PollsOwn
    <3>3. q = p
      BY <2>3, <3>2
    <3> QED
      BY <2>1, <3>3
  <2>5. told'[d] = told[d]
    BY <1>14, <2>2, <2>4
  <2> QED
    BY <1>1, <2>1, <2>3, <2>5
<1>22. PollsOwn'
  <2> SUFFICES ASSUME NEW e \in 1 .. MaxWatches, NEW d \in DOMAIN entry[e], NEW q \in 1 .. MaxPolls,
                      told'[d] = 0, poll'[q].kb = home[d]
               PROVE  /\ poll'[q].entry = e /\ (poll'[q].pc = "answered" => d \in DOMAIN poll'[q].list)
                      /\ \A r \in 1 .. MaxPolls : poll'[r].kb = home[d] => r = q
    BY <1>1, <1>18 DEF PollsOwn
  <2>1. home[d] \in Kb /\ d \in Doc
    BY <1>5
  <2>2. told[d] = 0
    BY <1>14, <2>1
  <2>3. \A r \in 1 .. MaxPolls : poll'[r].kb = home[d] => poll'[r] = poll[r]
    BY <1>3, <2>1, NoPollType, KnowledgePagesAssumption
  <2> QED
    BY <2>2, <2>3 DEF WatchInv, PollsOwn
<1>23. Told'
  <2> SUFFICES ASSUME NEW d \in Doc
               PROVE  \/ status[d] = "none" \/ told'[d] = -1 \/ \E u \in Upload : d \in upload[u].docs
                      \/ told'[d] = 1
                      \/ told'[d] = 0 /\ d \in Tracked(home[d])'
    BY <1>1 DEF Told
  <2>1. CASE told'[d] # told[d]
    BY <1>14, <2>1
  <2>2. CASE told'[d] = told[d]
    <3>1. \/ status[d] = "none" \/ told[d] = -1 \/ \E u \in Upload : d \in upload[u].docs
          \/ told[d] = 1
          \/ told[d] = 0 /\ status[d] # "none" /\ d \in Tracked(home[d])
      BY DEF WatchInv, Told
    <3>2. ASSUME told[d] = 0, status[d] # "none", d \in Tracked(home[d]) PROVE d \in Tracked(home[d])'
      <4>1. home[d] \in Kb
        BY <3>2 DEF WatchInv, AtHome
      <4>2. PICK e \in 1 .. MaxWatches : e = watch[home[d]] /\ d \in DOMAIN entry[e]
        BY <3>2, <4>1, TrackedIn
      <4>3. watch'[home'[d]] = e
        BY <1>18, <1>20, <2>2, <3>2, <4>2 DEF EntriesOwn
      <4>4. e # 0 /\ d \in DOMAIN entry'[e]
        BY <1>18, <4>2
      <4> QED
        BY <1>1, <4>3, <4>4 DEF Tracked
    <3> QED
      BY <2>2, <3>1, <3>2
  <2> QED
    BY <2>1, <2>2
<1> QED
  BY <1>16, <1>17, <1>19, <1>20, <1>21, <1>22, <1>23 DEF WatchInv

\* Steps that tell nothing.
LEMMA OtherStepInv ==
  ASSUME RouteInv, WatchInv, UNCHANGED <<status, home, watch, entry, poll, told>>,
         \A u \in Upload : upload'[u].docs = upload[u].docs /\ (upload'[u].kb = upload[u].kb \/ upload[u].docs = {})
  PROVE  WatchInv'
<1>1. told' = Excused({}) /\ watch' = Stopped({})
  BY NothingExcused
<1>2. status' \in [Doc -> {"none", "pending", "parsing", "ended", "removed"}]
  BY DEF WatchInv, WatchType
<1> QED
  BY <1>1, <1>2, QuietInv

LEMMA WatchStep == RouteInv /\ WatchInv /\ [PagesNext]_pageVars => WatchInv'
<1> SUFFICES ASSUME RouteInv, WatchInv, [PagesNext]_pageVars PROVE WatchInv'
  OBVIOUS
<1> DEFINE Statuses == {"none", "pending", "parsing", "ended", "removed"}
<1>1. status \in [Doc -> Statuses]
  BY DEF WatchInv, WatchType
<1>2. upload \in [Upload -> UploadSet]
  BY DEF RouteInv, PageType
<1>3. NoUpload.docs = {}
  BY DEF NoUpload
<1>4. CASE GoTo
  <2>1. PICK shown \in {"list", "detail", "chat"}, kb \in Bases : Leave(shown, kb)
    BY <1>4 DEF GoTo, Bases
  <2> DEFINE docs == UNION {Tracked(w) : w \in page.watched}
  <2>2. /\ upload' = [u \in Upload |-> LeftBehind(upload[u])]
        /\ watch' = Stopped(page.watched) /\ told' = Excused(docs)
        /\ UNCHANGED <<status, home, entry, poll>>
    BY <2>1 DEF Leave
  <2>3. \A kb_1 \in page.watched : Tracked(kb_1) \subseteq docs
    OBVIOUS
  <2>4. page.watched \in SUBSET Kb
    BY DEF RouteInv, PageType
  <2>5. \A u \in Upload : upload'[u].docs = upload[u].docs /\ upload'[u].kb = upload[u].kb
    BY <1>2, <2>2, LeftBehindType
  <2> HIDE DEF docs
  <2> QED
    BY <1>1, <2>2, <2>3, <2>4, <2>5, QuietInv
<1>5. CASE ResetForm \/ SaveConfig \/ (\E kb \in Kb : Jump(kb) \/ DetailAnswer(kb) \/ DetailFails(kb))
  BY <1>5, OtherStepInv DEF ResetForm, SaveConfig, Jump, DetailAnswer, DetailFails
<1>6. ASSUME NEW kb \in Kb, Poll(kb) PROVE WatchInv'
  BY <1>6, PollInv
<1>7. ASSUME NEW kb \in Kb, Expire(kb) PROVE WatchInv'
  <2>1. /\ watch' = Stopped({kb}) /\ told' = Excused(Tracked(kb))
        /\ UNCHANGED <<status, home, upload, entry, poll>>
    BY <1>7 DEF Expire
  <2>2. {kb} \in SUBSET Kb
    OBVIOUS
  <2> QED
    BY <1>1, <2>1, <2>2, QuietInv
<1>8. ASSUME NEW u \in Upload, BeginUpload(u) PROVE WatchInv'
  <2>1. UNCHANGED <<status, home, watch, entry, poll, told>>
    BY <1>8 DEF BeginUpload, CustomUpload, DropFiles, ImportGroups, Upon
  <2>2. PICK by, kb : upload[u] = NoUpload /\ upload' = [upload EXCEPT ![u] = [NoUpload EXCEPT !.by = by, !.kb = kb, !.pc = "send"]]
    BY <1>8 DEF BeginUpload, CustomUpload, DropFiles, ImportGroups, Upon
  <2>3. upload[u].docs = {} /\ upload'[u].docs = {}
    BY <1>2, <1>3, <2>2 DEF NoUpload
  <2>4. \A v \in Upload : v # u => upload'[v] = upload[v]
    BY <1>2, <2>2
  <2> QED
    BY <2>1, <2>3, <2>4, OtherStepInv
<1>9. ASSUME NEW u \in Upload, Sent(u) PROVE WatchInv'
  BY <1>9, SentInv
<1>10. ASSUME NEW u \in Upload, Refreshed(u) PROVE WatchInv'
  <2>1. UNCHANGED <<status, home, watch, entry, poll, told>> /\ upload' = [upload EXCEPT ![u].pc = "watch"]
    BY <1>10 DEF Refreshed
  <2>2. \A v \in Upload : upload'[v].docs = upload[v].docs /\ upload'[v].kb = upload[v].kb
    BY <1>2, <2>1 DEF UploadSet
  <2> QED
    BY <2>1, <2>2, OtherStepInv
<1>11. ASSUME NEW u \in Upload, UploadFails(u) PROVE WatchInv'
  <2>1. /\ upload' = [upload EXCEPT ![u] = NoUpload] /\ told' = Excused(upload[u].docs)
        /\ UNCHANGED <<status, home, watch, entry, poll>>
    BY <1>11 DEF UploadFails
  <2>2. watch' = Stopped({})
    BY <2>1, NothingExcused
  <2>3. \A v \in Upload : upload'[v] = IF v = u THEN NoUpload ELSE upload[v]
    BY <1>2, <2>1
  <2>4. \A v \in Upload : /\ \A d \in upload'[v].docs : d \in upload[v].docs /\ upload'[v].kb = upload[v].kb
                          /\ \A d \in upload[v].docs : d \in upload'[v].docs \/ d \in upload[u].docs
    BY <1>3, <2>3
  <2> QED
    BY <1>1, <2>1, <2>2, <2>4, QuietInv
<1>12. ASSUME NEW u \in Upload, Watch(u) PROVE WatchInv'
  BY <1>12, WatchActionInv
<1>13. ASSUME NEW p \in DOMAIN poll, Answer(p) \/ PollFails(p) \/ Compare(p) PROVE WatchInv'
  <2>1. p \in 1 .. MaxPolls
    BY DEF WatchInv, WatchType
  <2> QED
    BY <1>13, <2>1, AnswerInv, PollFailsInv, CompareInv
<1>14. ASSUME NEW f \in Doc, ParseStep(f) PROVE WatchInv'
  <2>1. UNCHANGED <<home, upload, watch, entry, poll, told>>
    BY <1>14 DEF ParseStep
  <2>2. told' = Excused({}) /\ watch' = Stopped({})
    BY <2>1, NothingExcused
  <2>3. status[f] \in Pending /\ \E s \in {"parsing", "ended"} : status' = [status EXCEPT ![f] = s]
    BY <1>14 DEF ParseStep, Pending
  <2>4. status' \in [Doc -> Statuses]
    BY <1>1, <2>3
  <2>5. \A d \in Doc : /\ status'[d] = "none" <=> status[d] = "none"
                       /\ status'[d] = status[d] \/ (status[d] \in Pending /\ status'[d] # "none")
    BY <1>1, <2>3 DEF Pending
  <2> QED
    BY <2>1, <2>2, <2>4, <2>5, QuietInv
<1>15. ASSUME NEW f \in Doc, Reparse(f) \/ RemoveDoc(f) PROVE WatchInv'
  <2>1. UNCHANGED <<home, upload, watch, entry, poll>> /\ told' = Excused({f})
    BY <1>15 DEF Reparse, RemoveDoc
  <2>2. watch' = Stopped({})
    BY <2>1, NothingExcused
  <2>3. status[f] # "none" /\ \E s \in {"pending", "removed"} : status' = [status EXCEPT ![f] = s]
    BY <1>15 DEF Reparse, RemoveDoc, Docs
  <2>4. status' \in [Doc -> Statuses]
    BY <1>1, <2>3
  <2>5. \A d \in Doc : /\ status'[d] = "none" <=> status[d] = "none"
                       /\ d \in {f} \/ status'[d] = status[d]
    BY <1>1, <2>3
  <2> QED
    BY <2>1, <2>2, <2>4, <2>5, QuietInv
<1>16. CASE UNCHANGED pageVars
  BY <1>16, OtherStepInv DEF pageVars
<1> QED
  BY <1>4, <1>5, <1>6, <1>7, <1>8, <1>9, <1>10, <1>11, <1>12, <1>13, <1>14, <1>15, <1>16 DEF PagesNext

\* For any knowledge bases, documents, uploads, watches and polls, a document handed
\* to a watch is told exactly once, or its entry is in force (useParseWatcher.js).
THEOREM AlwaysTold == PagesSpec => []Told
<1>1. WatchInv => Told
  BY DEF WatchInv
<1> QED
  BY <1>1, PageInitInv, PageStep, WatchInitInv, WatchStep, PTL DEF PagesSpec

-----------------------------------------------------------------------------
(* The box of the chat page and its attachments                             *)

Good == {f \in Pick : PassesPage(f)}
Sendings == [pc : {"upload", "ready", "dropped", "refused", "failed", "asking", "asked", "denied"}, files : Seq(Good),
             text : Text, beside : SUBSET Send, got : SUBSET Nat]
OnItsWay(s) == sends[s].pc \in {"upload", "ready"}
Expired == "expired" \in view.losses

ComposerTypes ==
  /\ box \in [text : Text, panel : BOOLEAN, files : Seq(Good)] /\ Len(box.files) <= MaxFiles
  /\ sends \in [Send -> Sendings \union {NoSending}]
  /\ kept \subseteq Send \X Nat
  /\ view \in [streaming : BOOLEAN, losses : SUBSET {"draft", "again", "expired"}]

\* What an upload holds, and what of it the server has.
Carried ==
  \A s \in Send : sends[s] # NoSending =>
    /\ Len(sends[s].files) <= MaxFiles
    /\ sends[s].pc = "upload" => sends[s].files # <<>>
    /\ sends[s].pc \in {"ready", "asking"} => (\A i \in DOMAIN sends[s].files : <<s, i>> \in kept) \/ Expired
    /\ sends[s].pc = "asked" => sends[s].got = DOMAIN sends[s].files \/ Expired

\* Texts at the server are of files of a question that has not taken them.
Untaken ==
  \A s \in Send, i \in Nat : <<s, i>> \in kept =>
    /\ sends[s] # NoSending /\ i \in DOMAIN sends[s].files
    /\ sends[s].pc \in {"ready", "asking", "dropped", "refused", "failed", "denied"}

\* Of two uploads the later has noted the earlier.
Noticed ==
  \A r, s \in Send : r # s /\ OnItsWay(r) /\ OnItsWay(s) => r \in sends[s].beside \/ s \in sends[r].beside

Accompanied(s) ==
  \/ "again" \in view.losses
  \/ \E r \in Send : sends[r] # NoSending /\ (s \in sends[r].beside \/ r \in sends[s].beside)

\* An upload during which something streams, or that was dropped for it, was not alone.
NotAlone ==
  \A s \in Send : (OnItsWay(s) /\ view.streaming) \/ sends[s].pc = "dropped" => Accompanied(s)

ComposerInv == ComposerTypes /\ Carried /\ Untaken /\ Noticed /\ NotAlone

LEMMA ComposerInitInv == ComposerInit => ComposerInv
<1> SUFFICES ASSUME ComposerInit PROVE ComposerInv
  OBVIOUS
<1>1. ComposerTypes
  <2>1. box \in [text : Text, panel : BOOLEAN, files : Seq(Good)]
    BY EmptySeq DEF ComposerInit, Text
  <2>2. Len(box.files) <= MaxFiles
    <3>1. box.files = <<>> /\ Len(<<>>) = 0 /\ MaxFiles \in Nat
      BY ComposerAssumption DEF ComposerInit
    <3> QED
      BY <3>1
  <2> QED
    BY <2>1, <2>2 DEF ComposerInit, ComposerTypes
<1>2. \A s \in Send : sends[s] = NoSending /\ sends[s].pc = "none"
  BY DEF ComposerInit, NoSending
<1>3. kept = {}
  BY DEF ComposerInit
<1> QED
  BY <1>1, <1>2, <1>3 DEF ComposerInv, Carried, Untaken, Noticed, NotAlone, OnItsWay

LEMMA SendingShape ==
  ASSUME ComposerInv, NEW s \in Send
  PROVE  /\ sends[s] = NoSending <=> sends[s].pc = "none"
         /\ sends[s] # NoSending => sends[s] \in Sendings
  BY DEF ComposerInv, ComposerTypes, Sendings, NoSending

\* Changes of the box alone.
LEMMA BoxInv ==
  ASSUME ComposerInv, NEW new, Change(new), new \in [text : Text, panel : BOOLEAN, files : Seq(Good)],
         Len(new.files) <= MaxFiles
  PROVE  ComposerInv'
<1>1. UNCHANGED <<sends, kept, view>> /\ box' = new
  BY DEF Change
<1> QED
  BY <1>1 DEF ComposerInv, ComposerTypes, Carried, Untaken, Noticed, NotAlone, OnItsWay, Expired, Accompanied

LEMMA JoinedGood ==
  ASSUME NEW fs \in Seq(Good), Len(fs) <= MaxFiles, NEW f \in Pick
  PROVE  Joined(fs, f) \in Seq(Good) /\ Len(Joined(fs, f)) <= MaxFiles
<1>1. CASE PassesPage(f) /\ Len(fs) < MaxFiles
  <2>1. Joined(fs, f) = Append(fs, f) /\ f \in Good
    BY <1>1 DEF Joined, Good
  <2>2. Append(fs, f) \in Seq(Good) /\ Len(Append(fs, f)) = Len(fs) + 1
    BY <2>1, AppendProperties
  <2> QED
    BY <1>1, <2>1, <2>2, ComposerAssumption
<1>2. CASE ~(PassesPage(f) /\ Len(fs) < MaxFiles)
  BY <1>2 DEF Joined
<1> QED
  BY <1>1, <1>2

LEMMA RemovedGood ==
  ASSUME NEW fs \in Seq(Good), Len(fs) <= MaxFiles, NEW i \in DOMAIN fs
  PROVE  RemoveAt(fs, i) \in Seq(Good) /\ Len(RemoveAt(fs, i)) <= MaxFiles
<1>1. Len(fs) \in Nat /\ i \in 1 .. Len(fs)
  BY LenProperties
<1> DEFINE front == SubSeq(fs, 1, i - 1)
           back == SubSeq(fs, i + 1, Len(fs))
<1>2. front \in Seq(Good) /\ Len(front) = i - 1
  <2>1. 1 \in 1 .. Len(fs) + 1 /\ i - 1 \in 0 .. Len(fs)
    BY <1>1
  <2>2. front \in Seq(Good) /\ Len(front) = IF 1 <= i - 1 THEN i - 1 - 1 + 1 ELSE 0
    BY <2>1, SubSeqProperties
  <2> QED
    BY <1>1, <2>2
<1>3. back \in Seq(Good) /\ Len(back) = Len(fs) - i
  <2>1. i + 1 \in 1 .. Len(fs) + 1 /\ Len(fs) \in i + 1 - 1 .. Len(fs)
    BY <1>1
  <2>2. back \in Seq(Good) /\ Len(back) = IF i + 1 <= Len(fs) THEN Len(fs) - (i + 1) + 1 ELSE 0
    BY <2>1, <1>1, SubSeqProperties
  <2> QED
    BY <1>1, <2>2
<1> HIDE DEF front, back
<1>4. front \o back \in Seq(Good) /\ Len(front \o back) = Len(front) + Len(back)
  BY <1>2, <1>3, ConcatProperties
<1>5. RemoveAt(fs, i) = front \o back
  BY DEF RemoveAt, front, back
<1> QED
  BY <1>1, <1>2, <1>3, <1>4, <1>5, ComposerAssumption, SMTT(30)

LEMMA StillAccompanied ==
  ASSUME ComposerInv, NEW s \in Send, Accompanied(s), sends[s] # NoSending, view.losses \subseteq view'.losses,
         \A r \in Send : sends[r] # NoSending => sends'[r] # NoSending /\ sends'[r].beside = sends[r].beside
  PROVE  Accompanied(s)'
  BY DEF Accompanied

\* Views of the page: something streams again, ends, or texts are lost.
LEMMA ViewInv ==
  ASSUME ComposerInv, UNCHANGED <<box, sends>>,
         kept' = kept \/ (kept' = {} /\ "expired" \in view'.losses),
         view' \in [streaming : BOOLEAN, losses : SUBSET {"draft", "again", "expired"}],
         view.losses \subseteq view'.losses, view'.streaming => view.streaming \/ "again" \in view'.losses
  PROVE  ComposerInv'
<1>1. ComposerTypes'
  BY DEF ComposerInv, ComposerTypes
<1>2. Carried'
  BY DEF ComposerInv, Carried, Expired
<1>3. Untaken'
  BY DEF ComposerInv, Untaken
<1>4. Noticed'
  BY DEF ComposerInv, Noticed, OnItsWay
<1>5. NotAlone'
  BY DEF ComposerInv, NotAlone, OnItsWay, Accompanied
<1> QED
  BY <1>1, <1>2, <1>3, <1>4, <1>5 DEF ComposerInv

\* A question is clicked.
LEMMA SendInv ==
  ASSUME ComposerInv, HasSend, NEW pc \in {"upload", "asking"}, NEW fs \in Seq(Good), Len(fs) <= MaxFiles,
         NEW text \in Text, Sending(pc, fs, text),
         IF pc = "upload" THEN fs # <<>> /\ view' = view /\ ~view.streaming ELSE fs = <<>>,
         kept' = kept, view.losses \subseteq view'.losses,
         box' \in [text : Text, panel : BOOLEAN, files : Seq(Good)], Len(box'.files) <= MaxFiles,
         view' \in [streaming : BOOLEAN, losses : SUBSET {"draft", "again", "expired"}]
  PROVE  ComposerInv'
<1> DEFINE new == [pc |-> pc, files |-> fs, text |-> text, beside |-> Uploading, got |-> {}]
<1>1. PICK n \in Send : sends[n] = NoSending /\ sends' = [sends EXCEPT ![n] = new]
  BY DEF HasSend, NextSend, Sending
<1>2. new \in Sendings /\ new # NoSending /\ new.beside = Uploading /\ new.pc = pc /\ new.files = fs
  <2>1. Uploading \in SUBSET Send
    BY DEF Uploading
  <2>2. new \in Sendings
    BY <2>1 DEF Sendings
  <2> QED
    BY <2>2 DEF Sendings, NoSending
<1> HIDE DEF new
<1>3. \A r \in Send : sends'[r] = IF r = n THEN new ELSE sends[r]
  BY <1>1 DEF ComposerInv, ComposerTypes
<1>4. \A r \in Send : sends[r] # NoSending => r # n /\ sends'[r] = sends[r]
  BY <1>1, <1>3
<1>5. \A i \in Nat : <<n, i>> \notin kept
  BY <1>1 DEF ComposerInv, Untaken
<1>6. ~OnItsWay(n) /\ sends[n].pc # "dropped"
  BY <1>1 DEF OnItsWay, NoSending
<1>7. ComposerTypes'
  BY <1>1, <1>2 DEF ComposerInv, ComposerTypes
<1>8. Carried'
  <2> SUFFICES ASSUME NEW s \in Send, sends'[s] # NoSending
               PROVE  /\ Len(sends'[s].files) <= MaxFiles
                      /\ sends'[s].pc = "upload" => sends'[s].files # <<>>
                      /\ sends'[s].pc \in {"ready", "asking"} => (\A i \in DOMAIN sends'[s].files : <<s, i>> \in kept') \/ Expired'
                      /\ sends'[s].pc = "asked" => sends'[s].got = DOMAIN sends'[s].files \/ Expired'
    BY DEF Carried
  <2>1. CASE s = n
    <3>1. pc = "asking" => DOMAIN fs = {}
      BY EmptySeq
    <3> QED
      BY <1>2, <1>3, <2>1, <3>1
  <2>2. CASE s # n
    BY <1>3, <2>2 DEF ComposerInv, Carried, Expired
  <2> QED
    BY <2>1, <2>2
<1>9. Untaken'
  BY <1>4, <1>5 DEF ComposerInv, Untaken
<1>10. Noticed'
  <2> SUFFICES ASSUME NEW r \in Send, NEW s \in Send, r # s, OnItsWay(r)', OnItsWay(s)'
               PROVE  r \in sends'[s].beside \/ s \in sends'[r].beside
    BY DEF Noticed
  <2>1. CASE r # n /\ s # n
    BY <1>3, <2>1 DEF ComposerInv, Noticed, OnItsWay
  <2>2. CASE r = n
    BY <1>2, <1>3, <2>2 DEF OnItsWay, Uploading
  <2>3. CASE s = n
    BY <1>2, <1>3, <2>3 DEF OnItsWay, Uploading
  <2> QED
    BY <2>1, <2>2, <2>3
<1>11. NotAlone'
  <2> SUFFICES ASSUME NEW s \in Send, (OnItsWay(s)' /\ view'.streaming) \/ sends'[s].pc = "dropped"
               PROVE  Accompanied(s)'
    BY DEF NotAlone
  <2>1. CASE s = n
    BY <1>2, <1>3, <2>1 DEF OnItsWay
  <2>2. CASE s # n
    <3>1. sends'[s] = sends[s]
      BY <1>3, <2>2
    <3>2. CASE OnItsWay(s)
      <4>1. s \in sends'[n].beside /\ sends'[n] # NoSending
        BY <1>2, <1>3, <3>2 DEF Uploading, OnItsWay
      <4> QED
        BY <4>1 DEF Accompanied
    <3>3. CASE ~OnItsWay(s)
      <4>1. sends[s].pc = "dropped"
        BY <3>1, <3>3 DEF OnItsWay
      <4>2. Accompanied(s) /\ sends[s] # NoSending
        BY <4>1 DEF ComposerInv, NotAlone, NoSending
      <4>3. \A r \in Send : sends[r] # NoSending => sends'[r] # NoSending /\ sends'[r].beside = sends[r].beside
        BY <1>4
      <4> QED
        BY <4>2, <4>3, StillAccompanied
    <3> QED
      BY <3>2, <3>3
  <2> QED
    BY <2>1, <2>2
<1> QED
  BY <1>7, <1>8, <1>9, <1>10, <1>11 DEF ComposerInv

\* A question that was clicked gets on.
LEMMA OnwardInv ==
  ASSUME ComposerInv, NEW s \in Send, sends[s] # NoSending, NEW new \in Sendings, sends' = [sends EXCEPT ![s] = new],
         new.files = sends[s].files, new.beside = sends[s].beside,
         new.pc = "upload" => FALSE,
         new.pc = "ready" => OnItsWay(s),
         new.pc \in {"ready", "asking"} => (\A i \in DOMAIN new.files : <<s, i>> \in kept') \/ Expired',
         new.pc = "asked" => new.got = DOMAIN new.files \/ Expired',
         new.pc = "dropped" => OnItsWay(s) /\ view.streaming,
         kept' \subseteq Send \X Nat,
         \A r \in Send, i \in Nat : r # s => (<<r, i>> \in kept' <=> <<r, i>> \in kept),
         \A i \in Nat : <<s, i>> \in kept' =>
           i \in DOMAIN new.files /\ new.pc \in {"ready", "asking", "dropped", "refused", "failed", "denied"},
         box' \in [text : Text, panel : BOOLEAN, files : Seq(Good)], Len(box'.files) <= MaxFiles,
         view' \in [streaming : BOOLEAN, losses : SUBSET {"draft", "again", "expired"}],
         view.losses \subseteq view'.losses,
         view'.streaming = view.streaming \/ (OnItsWay(s) /\ new.pc = "asking")
  PROVE  ComposerInv'
<1>1. \A r \in Send : sends'[r] = IF r = s THEN new ELSE sends[r]
  BY DEF ComposerInv, ComposerTypes
<1>2. new # NoSending /\ new.pc # "none"
  BY DEF Sendings, NoSending
<1>3. ComposerTypes'
  BY DEF ComposerInv, ComposerTypes
<1>4. DOMAIN new.files \subseteq Nat /\ \A r \in Send : sends[r] # NoSending => DOMAIN sends[r].files \subseteq Nat
  <2>1. \A r \in Send : sends[r] # NoSending => sends[r].files \in Seq(Good)
    BY SendingShape DEF Sendings
  <2>2. new.files \in Seq(Good)
    BY DEF Sendings
  <2> QED
    BY <2>1, <2>2, LenProperties
<1>5. Carried'
  <2> SUFFICES ASSUME NEW r \in Send, sends'[r] # NoSending
               PROVE  /\ Len(sends'[r].files) <= MaxFiles
                      /\ sends'[r].pc = "upload" => sends'[r].files # <<>>
                      /\ sends'[r].pc \in {"ready", "asking"} => (\A i \in DOMAIN sends'[r].files : <<r, i>> \in kept') \/ Expired'
                      /\ sends'[r].pc = "asked" => sends'[r].got = DOMAIN sends'[r].files \/ Expired'
    BY DEF Carried
  <2>1. CASE r = s
    BY <1>1, <2>1 DEF ComposerInv, Carried
  <2>2. CASE r # s
    <3>1. sends'[r] = sends[r]
      BY <1>1, <2>2
    <3>2. /\ Len(sends[r].files) <= MaxFiles
          /\ sends[r].pc = "upload" => sends[r].files # <<>>
          /\ sends[r].pc \in {"ready", "asking"} => (\A i \in DOMAIN sends[r].files : <<r, i>> \in kept) \/ Expired
          /\ sends[r].pc = "asked" => sends[r].got = DOMAIN sends[r].files \/ Expired
      BY <3>1 DEF ComposerInv, Carried
    <3>3. Expired => Expired'
      BY DEF Expired
    <3>4. \A i \in DOMAIN sends[r].files : <<r, i>> \in kept => <<r, i>> \in kept'
      BY <1>4, <2>2, <3>1
    <3> QED
      BY <3>1, <3>2, <3>3, <3>4
  <2> QED
    BY <2>1, <2>2
<1>6. Untaken'
  <2> SUFFICES ASSUME NEW r \in Send, NEW i \in Nat, <<r, i>> \in kept'
               PROVE  /\ sends'[r] # NoSending /\ i \in DOMAIN sends'[r].files
                      /\ sends'[r].pc \in {"ready", "asking", "dropped", "refused", "failed", "denied"}
    BY DEF Untaken
  <2>1. CASE r = s
    BY <1>1, <1>2, <2>1
  <2>2. CASE r # s
    <3>1. sends'[r] = sends[r] /\ <<r, i>> \in kept
      BY <1>1, <2>2
    <3> QED
      BY <3>1 DEF ComposerInv, Untaken
  <2> QED
    BY <2>1, <2>2
<1>7. \A r \in Send : OnItsWay(r)' => OnItsWay(r)
  BY <1>1 DEF OnItsWay
<1>8. \A r \in Send : sends[r] # NoSending => sends'[r] # NoSending /\ sends'[r].beside = sends[r].beside
  BY <1>1, <1>2
<1>9. \A r \in Send : OnItsWay(r) \/ sends[r].pc = "dropped" => sends[r] # NoSending
  BY DEF OnItsWay, NoSending
<1>10. Noticed'
  <2> SUFFICES ASSUME NEW r \in Send, NEW t \in Send, r # t, OnItsWay(r)', OnItsWay(t)'
               PROVE  r \in sends'[t].beside \/ t \in sends'[r].beside
    BY DEF Noticed
  <2>1. OnItsWay(r) /\ OnItsWay(t) /\ sends'[r].beside = sends[r].beside /\ sends'[t].beside = sends[t].beside
    BY <1>7, <1>8, <1>9
  <2> QED
    BY <2>1 DEF ComposerInv, Noticed
<1>11. NotAlone'
  <2> SUFFICES ASSUME NEW r \in Send, (OnItsWay(r)' /\ view'.streaming) \/ sends'[r].pc = "dropped"
               PROVE  Accompanied(r)'
    BY DEF NotAlone
  <2>1. CASE (OnItsWay(r) /\ view.streaming) \/ sends[r].pc = "dropped"
    <3>1. Accompanied(r)
      BY <2>1 DEF ComposerInv, NotAlone
    <3>2. sends[r] # NoSending
      BY <1>9, <2>1
    <3> QED
      BY <1>8, <3>1, <3>2, StillAccompanied
  <2>2. CASE ~((OnItsWay(r) /\ view.streaming) \/ sends[r].pc = "dropped")
    <3>1. sends'[r].pc # "dropped"
      BY <1>1, <2>2
    <3>2. OnItsWay(r) /\ OnItsWay(r)' /\ ~view.streaming /\ view'.streaming
      BY <1>7, <2>2, <3>1 DEF ComposerInv, ComposerTypes
    <3>3. OnItsWay(s) /\ new.pc = "asking"
      BY <3>2
    <3>4. r # s
      BY <1>1, <3>2, <3>3 DEF OnItsWay
    <3>5. r \in sends[s].beside \/ s \in sends[r].beside
      BY <3>2, <3>3, <3>4 DEF ComposerInv, Noticed
    <3>6. sends'[s] # NoSending /\ sends'[s].beside = sends[s].beside /\ sends'[r].beside = sends[r].beside
      BY <1>8, <1>9, <3>2
    <3> QED
      BY <3>5, <3>6 DEF Accompanied
  <2> QED
    BY <2>1, <2>2
<1> QED
  BY <1>3, <1>5, <1>6, <1>10, <1>11 DEF ComposerInv

LEMMA ComposerStep == ComposerInv /\ [ComposerNext]_composerVars => ComposerInv'
<1> SUFFICES ASSUME ComposerInv, [ComposerNext]_composerVars PROVE ComposerInv'
  OBVIOUS
<1> DEFINE Boxes == [text : Text, panel : BOOLEAN, files : Seq(Good)]
           Views == [streaming : BOOLEAN, losses : SUBSET {"draft", "again", "expired"}]
<1>1. /\ box \in Boxes /\ Len(box.files) <= MaxFiles /\ box.files \in Seq(Good)
      /\ view \in Views /\ view.losses \in SUBSET {"draft", "again", "expired"}
      /\ kept \subseteq Send \X Nat /\ sends \in [Send -> Sendings \union {NoSending}]
  BY DEF ComposerInv, ComposerTypes
<1>2. \A t \in Text : [box EXCEPT !.text = t] \in Boxes /\ [box EXCEPT !.text = t].files = box.files
  BY <1>1
<1>3. "" \in Text /\ "template" \in Text /\ "question" \in Text
  BY DEF Text
<1>4. ASSUME NEW t \in Text, Type(t) PROVE ComposerInv'
  <2> DEFINE new == [box EXCEPT !.text = t, !.panel = (t = "/") /\ (box.panel \/ box.text = "")]
  <2>1. new \in Boxes /\ new.files = box.files
    BY <1>1
  <2>2. Change(new)
    BY <1>4 DEF Type
  <2> HIDE DEF new
  <2> QED
    BY <1>1, <2>1, <2>2, BoxInv
<1>5. ASSUME ClosePanel \/ ApplyCommand \/ Fill PROVE ComposerInv'
  <2>1. PICK t \in Text : Change([box EXCEPT !.text = t, !.panel = FALSE])
    <3>1. box.text \in Text /\ [box EXCEPT !.panel = FALSE] = [box EXCEPT !.text = box.text, !.panel = FALSE]
      BY <1>1
    <3> QED
      BY <1>3, <1>5, <3>1 DEF ClosePanel, ApplyCommand, Fill
  <2>2. [box EXCEPT !.text = t, !.panel = FALSE] \in Boxes /\ [box EXCEPT !.text = t, !.panel = FALSE].files = box.files
    BY <1>1
  <2> QED
    BY <1>1, <2>1, <2>2, BoxInv
<1>6. ASSUME NEW fs \in Seq(Good), Len(fs) <= MaxFiles, Change([box EXCEPT !.files = fs]) PROVE ComposerInv'
  <2>1. [box EXCEPT !.files = fs] \in Boxes /\ [box EXCEPT !.files = fs].files = fs
    BY <1>1
  <2> QED
    BY <1>6, <2>1, BoxInv
<1>7. ASSUME NEW f \in Pick, NEW g \in Pick,
             OnFilePicked(Joined(box.files, f)) \/ OnFilePicked(Joined(Joined(box.files, f), g))
      PROVE  ComposerInv'
  <2>1. Joined(box.files, f) \in Seq(Good) /\ Len(Joined(box.files, f)) <= MaxFiles
    BY <1>1, JoinedGood
  <2>2. Joined(Joined(box.files, f), g) \in Seq(Good) /\ Len(Joined(Joined(box.files, f), g)) <= MaxFiles
    BY <2>1, JoinedGood
  <2> QED
    BY <1>6, <1>7, <2>1, <2>2 DEF OnFilePicked
<1>8. ASSUME NEW i \in 1 .. MaxFiles, RemoveFile(i) PROVE ComposerInv'
  <2>1. RemoveAt(box.files, i) \in Seq(Good) /\ Len(RemoveAt(box.files, i)) <= MaxFiles
    BY <1>1, <1>8, RemovedGood DEF RemoveFile
  <2> QED
    BY <1>6, <1>8, <2>1 DEF RemoveFile
<1>9. CASE HandleSend
  <2>1. HasSend /\ ~view.streaming /\ kept' = kept /\ box.text \in Text
    BY <1>1, <1>9 DEF HandleSend
  <2>2. CASE box.files = <<>>
    <3>1. /\ Sending("asking", <<>>, box.text) /\ view' = [view EXCEPT !.streaming = TRUE]
          /\ box' = [box EXCEPT !.text = ""]
      BY <1>9, <2>2 DEF HandleSend
    <3>2. view' \in Views /\ view'.losses = view.losses
      BY <1>1, <3>1
    <3>3. box' \in Boxes /\ Len(box'.files) <= MaxFiles
      BY <1>1, <1>2, <1>3, <3>1
    <3>4. <<>> \in Seq(Good) /\ Len(<<>>) <= MaxFiles
      BY <1>1, <2>2
    <3> QED
      BY <2>1, <3>1, <3>2, <3>3, <3>4, SendInv
  <2>3. CASE box.files # <<>>
    <3>1. Sending("upload", box.files, box.text) /\ view' = view /\ box' = [box EXCEPT !.files = <<>>]
      BY <1>9, <2>3 DEF HandleSend
    <3>2. box' \in Boxes /\ box'.files = <<>>
      BY <1>1, <3>1, EmptySeq
    <3>3. Len(<<>>) = 0 /\ MaxFiles \in Nat
      BY ComposerAssumption
    <3>4. Len(box'.files) <= MaxFiles
      BY <3>2, <3>3
    <3>5. view' \in Views /\ view.losses \subseteq view'.losses
      BY <1>1, <3>1
    <3>6. "upload" \in {"upload", "asking"}
      OBVIOUS
    <3> HIDE DEF Boxes, Views
    <3> QED
      BY <1>1, <2>1, <2>3, <3>1, <3>2, <3>4, <3>5, <3>6, SendInv DEF Boxes, Views
  <2> QED
    BY <2>2, <2>3
<1>10. CASE SendDirectly
  <2>1. /\ HasSend /\ ~view.streaming /\ kept' = kept /\ Sending("asking", <<>>, "question")
        /\ box' = [box EXCEPT !.text = ""] /\ view' = [streaming |-> TRUE, losses |-> Losing("draft", box.text # "")]
    BY <1>10 DEF SendDirectly
  <2>2. view' \in Views /\ view.losses \subseteq view'.losses
    BY <1>1, <2>1 DEF Losing
  <2>3. box' \in Boxes /\ Len(box'.files) <= MaxFiles
    BY <1>1, <1>2, <1>3, <2>1
  <2>4. <<>> \in Seq(Good) /\ Len(<<>>) = 0 /\ MaxFiles \in Nat
    BY EmptySeq, ComposerAssumption
  <2>5. Len(<<>>) <= MaxFiles
    BY <2>4
  <2> QED
    BY <1>3, <2>1, <2>2, <2>3, <2>4, <2>5, SendInv
<1>11. CASE Regenerate
  <2>1. view' = [streaming |-> TRUE, losses |-> view.losses \union {"again"}] /\ UNCHANGED <<box, sends, kept>>
    BY <1>11 DEF Regenerate, Losing
  <2> QED
    BY <1>1, <2>1, ViewInv
<1>12. CASE StreamEnds
  <2>1. view' = [view EXCEPT !.streaming = FALSE] /\ UNCHANGED <<box, sends, kept>>
    BY <1>12 DEF StreamEnds
  <2> QED
    BY <1>1, <2>1, ViewInv
<1>13. CASE LoseTexts
  <2>1. view' = [view EXCEPT !.losses = @ \union {"expired"}] /\ UNCHANGED <<box, sends>> /\ kept' = {}
    BY <1>13 DEF LoseTexts
  <2>2. view' \in Views /\ view.losses \subseteq view'.losses /\ view'.streaming = view.streaming /\ "expired" \in view'.losses
    BY <1>1, <2>1
  <2> QED
    BY <2>1, <2>2, ViewInv
\* The questions.
<1>14. \A s \in Send : sends[s].pc # "none" => sends[s] \in Sendings /\ sends[s] # NoSending
  BY SendingShape DEF NoSending
<1>15. ASSUME NEW s \in Send, CreateAttachments(s) PROVE ComposerInv'
  <2>1. sends[s].pc = "upload" /\ UNCHANGED <<box, view>> /\ sends[s] \in Sendings /\ sends[s] # NoSending
    BY <1>14, <1>15 DEF CreateAttachments
  <2>2. PICK taken, pc : /\ taken = (IF Len(sends[s].files) > MaxFiles \/ BodyTooLarge(sends[s].files)
                                    THEN {} ELSE Extracted(sends[s].files))
                         /\ pc = (IF taken = DOMAIN sends[s].files THEN "ready" ELSE "refused")
    OBVIOUS
  <2> DEFINE new == [sends[s] EXCEPT !.pc = pc]
  <2>3. kept' = kept \union {<<s, i>> : i \in taken} /\ sends' = [sends EXCEPT ![s] = new]
    BY <1>1, <1>15, <2>2 DEF CreateAttachments
  <2>4. pc \in {"ready", "refused"}
    BY <2>2
  <2>5. new \in Sendings /\ new.files = sends[s].files /\ new.beside = sends[s].beside /\ new.pc = pc
    BY <2>1, <2>4 DEF Sendings
  <2>6. taken \subseteq DOMAIN sends[s].files /\ DOMAIN sends[s].files \subseteq Nat
    BY <2>1, <2>2, LenProperties DEF Sendings, Extracted
  <2>7. \A i \in Nat : <<s, i>> \notin kept
    BY <2>1 DEF ComposerInv, Untaken
  <2>8. kept' \subseteq Send \X Nat
    BY <1>1, <2>3, <2>6
  <2>9. pc = "ready" => \A i \in DOMAIN sends[s].files : <<s, i>> \in kept'
    BY <2>2, <2>3
  <2>10. \A i \in Nat : <<s, i>> \in kept' => i \in DOMAIN sends[s].files
    BY <2>3, <2>6, <2>7
  <2>11. \A r \in Send, i \in Nat : r # s => (<<r, i>> \in kept' <=> <<r, i>> \in kept)
    BY <2>3
  <2> HIDE DEF new
  <2> QED
    BY <1>1, <2>1, <2>3, <2>4, <2>5, <2>8, <2>9, <2>10, <2>11, OnwardInv DEF OnItsWay
<1>21. ASSUME NEW s \in Send, UploadThrottled(s) PROVE ComposerInv'
  <2>1. sends[s].pc = "upload" /\ UNCHANGED <<box, view, kept>> /\ sends[s] \in Sendings /\ sends[s] # NoSending
    BY <1>14, <1>21 DEF UploadThrottled
  <2> DEFINE new == [sends[s] EXCEPT !.pc = "refused"]
  <2>2. sends' = [sends EXCEPT ![s] = new]
    BY <1>1, <1>21 DEF UploadThrottled
  <2>3. new \in Sendings /\ new.files = sends[s].files /\ new.beside = sends[s].beside /\ new.pc = "refused"
    BY <2>1 DEF Sendings
  <2>4. \A i \in Nat : <<s, i>> \notin kept
    BY <2>1 DEF ComposerInv, Untaken
  <2> HIDE DEF new
  <2> QED
    BY <1>1, <2>1, <2>2, <2>3, <2>4, OnwardInv DEF OnItsWay
<1>16. ASSUME NEW s \in Send, CreateFails(s) PROVE ComposerInv'
  <2>1. sends[s].pc = "upload" /\ UNCHANGED <<box, view>> /\ sends[s] \in Sendings /\ sends[s] # NoSending
    BY <1>14, <1>16 DEF CreateFails
  <2> DEFINE new == [sends[s] EXCEPT !.pc = "failed"]
  <2>2. PICK n \in 0 .. Len(sends[s].files) - 1 : kept' = kept \union {<<s, i>> : i \in 1 .. n}
    BY <1>16 DEF CreateFails
  <2>3. sends' = [sends EXCEPT ![s] = new]
    BY <1>1, <1>16 DEF CreateFails
  <2>4. new \in Sendings /\ new.files = sends[s].files /\ new.beside = sends[s].beside /\ new.pc = "failed"
    BY <2>1 DEF Sendings
  <2>5. 1 .. n \subseteq DOMAIN sends[s].files /\ 1 .. n \subseteq Nat
    BY <2>1, LenProperties DEF Sendings
  <2>6. \A i \in Nat : <<s, i>> \notin kept
    BY <2>1 DEF ComposerInv, Untaken
  <2>7. kept' \subseteq Send \X Nat
    BY <1>1, <2>2, <2>5
  <2>9. \A i \in Nat : <<s, i>> \in kept' => i \in DOMAIN sends[s].files
    BY <2>2, <2>5, <2>6
  <2>10. \A r \in Send, i \in Nat : r # s => (<<r, i>> \in kept' <=> <<r, i>> \in kept)
    BY <2>2
  <2> HIDE DEF new
  <2> QED
    BY <1>1, <2>1, <2>3, <2>4, <2>7, <2>9, <2>10, OnwardInv DEF OnItsWay
<1>17. ASSUME NEW s \in Send, PostUploaded(s) PROVE ComposerInv'
  <2>1. sends[s].pc = "ready" /\ kept' = kept /\ sends[s] \in Sendings /\ sends[s] # NoSending
    BY <1>14, <1>17 DEF PostUploaded
  <2>2. PICK pc \in {"dropped", "asking"} : pc = IF view.streaming THEN "dropped" ELSE "asking"
    OBVIOUS
  <2> DEFINE new == [sends[s] EXCEPT !.pc = pc]
  <2>3. sends' = [sends EXCEPT ![s] = new]
    BY <1>1, <1>17, <2>2 DEF PostUploaded
  <2>4. new \in Sendings /\ new.files = sends[s].files /\ new.beside = sends[s].beside /\ new.pc = pc
    BY <2>1 DEF Sendings
  <2>5. view' \in Views /\ view.losses \subseteq view'.losses /\ view'.streaming = TRUE
    BY <1>1, <1>17 DEF PostUploaded, Losing
  <2>6. box' \in Boxes /\ Len(box'.files) <= MaxFiles
    BY <1>1, <1>2, <1>3, <1>17 DEF PostUploaded
  <2>7. (\A i \in DOMAIN sends[s].files : <<s, i>> \in kept') \/ Expired'
    BY <2>1, <2>5 DEF ComposerInv, Carried, Expired
  <2>8. \A i \in Nat : <<s, i>> \in kept' => i \in DOMAIN sends[s].files
    BY <2>1 DEF ComposerInv, Untaken
  <2>9. view'.streaming = view.streaming \/ (OnItsWay(s) /\ pc = "asking")
    BY <1>1, <2>1, <2>2, <2>5 DEF OnItsWay
  <2>10. pc = "dropped" => OnItsWay(s) /\ view.streaming
    BY <2>1, <2>2 DEF OnItsWay
  <2> HIDE DEF new
  <2> QED
    BY ZenonT(40), <1>1, <2>1, <2>3, <2>4, <2>5, <2>6, <2>7, <2>8, <2>9, <2>10, OnwardInv
<1>18. ASSUME NEW s \in Send, Take(s) PROVE ComposerInv'
  <2>1. sends[s].pc = "asking" /\ UNCHANGED <<box, view>> /\ sends[s] \in Sendings /\ sends[s] # NoSending
    BY <1>14, <1>18 DEF Take
  <2>2. PICK got : got = {i \in DOMAIN sends[s].files : <<s, i>> \in kept}
    OBVIOUS
  <2> DEFINE new == [sends[s] EXCEPT !.pc = "asked", !.got = got]
  <2>3. sends' = [sends EXCEPT ![s] = new] /\ kept' = kept \ {<<s, i>> : i \in got}
    BY <1>1, <1>18, <2>2 DEF Take
  <2>4. DOMAIN sends[s].files \subseteq Nat
    BY <2>1, LenProperties DEF Sendings
  <2>5. /\ new \in Sendings /\ new.files = sends[s].files /\ new.beside = sends[s].beside /\ new.pc = "asked"
        /\ new.got = got
    BY <2>1, <2>2, <2>4 DEF Sendings
  <2>6. got = DOMAIN sends[s].files \/ Expired
    BY <2>1, <2>2 DEF ComposerInv, Carried
  <2>7. \A i \in Nat : <<s, i>> \notin kept'
    BY <2>2, <2>3 DEF ComposerInv, Untaken
  <2>8. \A r \in Send, i \in Nat : r # s => (<<r, i>> \in kept' <=> <<r, i>> \in kept)
    BY <2>3
  <2>9. kept' \subseteq Send \X Nat /\ (Expired => Expired')
    BY <1>1, <2>1, <2>3 DEF Expired
  <2> HIDE DEF new
  <2> QED
    BY <1>1, <2>1, <2>3, <2>5, <2>6, <2>7, <2>8, <2>9, OnwardInv
<1>19. ASSUME NEW s \in Send, Denied(s) PROVE ComposerInv'
  <2>1. sends[s].pc = "asking" /\ UNCHANGED <<box, view, kept>> /\ sends[s] \in Sendings /\ sends[s] # NoSending
    BY <1>14, <1>19 DEF Denied
  <2> DEFINE new == [sends[s] EXCEPT !.pc = "denied"]
  <2>2. sends' = [sends EXCEPT ![s] = new]
    BY <1>1, <1>19 DEF Denied
  <2>3. new \in Sendings /\ new.files = sends[s].files /\ new.beside = sends[s].beside /\ new.pc = "denied"
    BY <2>1 DEF Sendings
  <2>4. \A i \in Nat : <<s, i>> \in kept' => i \in DOMAIN sends[s].files
    BY <2>1 DEF ComposerInv, Untaken
  <2> HIDE DEF new
  <2> QED
    BY <1>1, <2>1, <2>2, <2>3, <2>4, OnwardInv
<1>20. CASE UNCHANGED composerVars
  BY <1>1, <1>20, ViewInv DEF composerVars
<1> QED
  BY <1>4, <1>5, <1>7, <1>8, <1>9, <1>10, <1>11, <1>12, <1>13, <1>15, <1>16, <1>17, <1>18, <1>19, <1>20, <1>21 DEF ComposerNext

\* For any files, questions and sizes, a question is asked with every file it was
\* sent with unless their texts are lost, whether or not the server takes what the
\* page let through; none whose files arrived is dropped that was alone; and the
\* texts on the server are of questions not asked (ChatView.vue handleSend,
\* chat.service.ts createAttachments, takeAttachments).
THEOREM AttachmentsAlwaysArrive == ComposerSpec => []AttachmentsArrive
<1>1. ComposerInv => AttachmentsArrive
  <2> SUFFICES ASSUME ComposerInv, NEW s \in Send
               PROVE  /\ sends[s].pc = "asked" => sends[s].got = DOMAIN sends[s].files \/ "expired" \in view.losses
                      /\ sends[s].pc = "dropped" =>
                           \/ "again" \in view.losses
                           \/ \E r \in Send : sends[r] # NoSending /\ (s \in sends[r].beside \/ r \in sends[s].beside)
                      /\ s \in {text[1] : text \in kept} =>
                           sends[s].pc \in {"ready", "asking", "dropped", "refused", "failed", "denied"}
    BY DEF AttachmentsArrive
  <2>1. sends[s] = NoSending \/ sends[s] \in Sendings
    BY SendingShape
  <2>2. sends[s].pc = "asked" => sends[s] # NoSending
    BY <2>1 DEF Sendings, NoSending
  <2>3. ASSUME NEW text \in kept, text[1] = s
        PROVE  sends[s].pc \in {"ready", "asking", "dropped", "refused", "failed", "denied"}
    <3>1. PICK i \in Nat : text = <<s, i>>
      BY <2>3 DEF ComposerInv, ComposerTypes
    <3> QED
      BY <2>3, <3>1 DEF ComposerInv, Untaken
  <2> QED
    BY <2>2, <2>3 DEF ComposerInv, Carried, NotAlone, Accompanied, Expired
<1> QED
  BY <1>1, ComposerInitInv, ComposerStep, PTL DEF ComposerSpec

-----------------------------------------------------------------------------
(* What is kept of the answers                                              *)

Whence == Source \union {Nowhere}
Spoke == [q : Nat, a : Nat, kb : Whence, apart : BOOLEAN, gone : BOOLEAN]
Kept == [id : Nat, turn : Turn, question : Turn \union {0}, kb : Whence]
Click == [pc : {"sent"}, here : BOOLEAN, copy : {Unasked}]
         \union [pc : {"read", "kept"}, here : BOOLEAN, copy : [question : Turn \union {0}, kb : Whence]]
Stars == [open : BOOLEAN, on : SUBSET Turn,
          ids : {Unasked, [pc |-> "sent"]} \union [pc : {"read"}, on : SUBSET Turn]]

Request == [n : Nat, pc : {"sent"}, filter : Whence, page : Nat]
Reply == [n : Nat, pc : {"read"}, filter : Whence, page : Nat, rows : SUBSET Kept, total : Nat]
Board == [filter : Whence, page : Nat, rows : SUBSET Kept, total : Nat, cut : SUBSET Kept,
          loads : SUBSET (Request \union Reply)]
Past == [clock : Nat, made : Nat, visits : Nat, tries : Nat, slips : SUBSET {"stale", "overtaken", "failed"}]

FavTypes ==
  /\ said \in [Turn -> Spoke]
  /\ favs \subseteq Kept /\ IsFiniteSet(favs)
  /\ add \in [Turn -> {Unasked} \union Click]
  /\ drop \in {Unasked} \union [pc : {"sent", "removed"}, id : Nat, here : BOOLEAN]
  /\ chat \in Stars /\ board \in Board /\ past \in Past

\* A question stands right before its answer unless the two are apart; and the
\* times are in the past, or nothing more will be said.
InOrder ==
  \A t \in Turn : said[t].a > 0 /\ ~said[t].apart =>
    /\ said[t].q > 0 /\ said[t].q < said[t].a
    /\ \A u \in Turn \ {t} : ~(said[u].q >= said[t].q /\ said[u].q < said[t].a)
InTime ==
  \/ past.clock > 0 /\ \A t \in Turn : said[t].q <= past.clock /\ said[t].a <= past.clock
  \/ \A t \in Turn : said[t].q > 0 /\ said[t].a > 0

\* A copy, and one about to be made, is of an answer that is there.
CopiesRead ==
  \A t \in Turn : add[t] # Unasked =>
    /\ said[t].a > 0
    /\ add[t].pc = "read" => add[t].copy.question = t \/ said[t].apart
CopiesKept ==
  \A f \in favs : said[f.turn].a > 0 /\ (f.question = f.turn \/ said[f.turn].apart)

TalkInv == FavTypes /\ InOrder /\ InTime /\ CopiesRead /\ CopiesKept

\* The numbers of the copies, and of the one that is being removed.
Numbered ==
  /\ \A f \in favs : f.id <= past.made
  /\ \A f, g \in favs : f.id = g.id => f = g
  /\ drop # Unasked => drop.id <= past.made
  /\ drop.pc = "removed" => \A f \in favs : f.id # drop.id

\* Who has left a page is not told of the answer to what was clicked on it.
Left ==
  /\ ~chat.open => \A t \in Turn : add[t] = Unasked \/ ~add[t].here
  /\ chat.open => drop = Unasked \/ ~drop.here

\* An answer is kept that has its star, or gets it when the request is answered.
Starry ==
  chat.open /\ chat.ids = Unasked /\ past.visits > 0 /\ Clean =>
    /\ chat.on \subseteq Marked
    /\ \A t \in Marked \ chat.on : add[t].pc = "kept" /\ add[t].here

\* The row whose copy is removed already; a removal without its row goes wrong.
Fading == {f \in board.rows : drop.pc = "removed" /\ drop.here /\ f.id = drop.id}
Doomed == drop # Unasked /\ drop.here /\ \A f \in board.rows : f.id # drop.id
RowsRight ==
  LET here == Matching(board.filter) \union Fading IN
  /\ board.rows = PageOf(here \union board.cut, board.page) \ board.cut
  /\ board.total = Cardinality(here)
  /\ \A f, g \in Fading : f = g
Listing ==
  ~chat.open /\ board.loads = {} /\ Clean => Doomed \/ RowsRight

\* A list on its way was that of all copies of its filter, of which some are
\* removed by now.
Loads ==
  ~chat.open /\ Clean => \A l \in board.loads : l.pc = "read" =>
    \E all : /\ IsFiniteSet(all) /\ Matching(l.filter) \subseteq all
             /\ l.rows = PageOf(all, l.page) /\ l.total = Cardinality(all)

FavInv == TalkInv /\ Numbered /\ Left /\ Starry /\ Listing /\ Loads
LEMMA FavInitial == ASSUME FavouriteAssumption, FavInit PROVE FavInv
<1> USE DEF FavInit, Silent, Unasked
<1>1. FavTypes
  <2>1. Silent \in Spoke
    BY DEF Spoke, Whence
  <2>2. ASSUME NEW t \in Turn
        PROVE  Spoken[t] \in Spoke
    <3>1. 2 * t - 1 \in Nat /\ 2 * t \in Nat
      BY DEF FavouriteAssumption
    <3>2. Spoken[t].kb \in Whence
      BY DEF Spoken, Whence, FavouriteAssumption
    <3> QED  BY <3>1, <3>2 DEF Spoken, Spoke
  <2>3. said \in [Turn -> Spoke]
    BY <2>1, <2>2 DEF Spoken
  <2>4. board \in Board /\ past \in Past
    BY DEF Board, Past, Whence
  <2> QED  BY <2>3, <2>4, FS_EmptySet DEF FavTypes, Stars
<1>2. InOrder /\ InTime
  <2>1. CASE said = [t \in Turn |-> Silent]
    BY <2>1 DEF InOrder, InTime
  <2>2. CASE said = Spoken
    <3>1. \A t \in Turn : t \in Nat /\ t >= 1
      BY DEF FavouriteAssumption
    <3>2. \A t \in Turn : said[t].q = 2 * t - 1 /\ said[t].a = 2 * t
      BY <2>2 DEF Spoken
    <3>3. \A t \in Turn, u \in Turn : u # t => ~(2 * u - 1 >= 2 * t - 1 /\ 2 * u - 1 < 2 * t)
      BY <3>1
    <3> QED  BY <3>1, <3>2, <3>3 DEF InOrder, InTime
  <2> QED  BY <2>1, <2>2
<1>3. CopiesRead /\ CopiesKept /\ Numbered
  BY FS_EmptySet DEF CopiesRead, CopiesKept, Numbered
<1>4. Left /\ Starry /\ Listing /\ Loads
  BY DEF Left, Starry, Listing, Loads
<1> QED  BY <1>1, <1>2, <1>3, <1>4 DEF FavInv, TalkInv
-----------------------------------------------------------------------------
(* Types                                                                    *)

LEMMA ListTyped ==
  ASSUME FavTypes, NEW filter \in Whence, NEW p
  PROVE  /\ IsFiniteSet(Matching(filter)) /\ Cardinality(Matching(filter)) \in Nat
         /\ Matching(filter) \subseteq Kept /\ PageOf(Matching(filter), p) \subseteq Kept
<1>1. Matching(filter) \in SUBSET favs
  BY DEF Matching
<1> QED  BY <1>1, FS_Subset, FS_CardinalityType DEF FavTypes, PageOf

LEMMA FavTypesStep ==
  ASSUME FavouriteAssumption, FavTypes, FavNext
  PROVE  FavTypes'
<1> USE DEF FavTypes
<1>1. ASSUME NEW t \in Turn, AskTurn(t)
      PROVE  FavTypes'
  BY <1>1 DEF AskTurn, Spoke, Past
<1>2. ASSUME NEW t \in Turn, AnswerTurn(t)
      PROVE  FavTypes'
  <2>1. PICK kb \in Whence, apart \in BOOLEAN :
          said' = [said EXCEPT ![t].a = past.clock, ![t].kb = kb, ![t].apart = apart]
    <3>1. PICK kb \in Whence :
            said' = [said EXCEPT ![t].a = past.clock, ![t].kb = kb,
                  ![t].apart = said[t].q = past.clock
                               \/ \E u \in Turn \ {t} : said[u].q >= said[t].q /\ said[u].q < past.clock]
      BY <1>2 DEF AnswerTurn, Whence
    <3> QED  BY <3>1
  <2>2. said[t] \in Spoke /\ past.clock \in Nat
    BY DEF Past
  <2>3. [said[t] EXCEPT !.a = past.clock, !.kb = kb, !.apart = apart] \in Spoke
    BY <2>2 DEF Spoke
  <2>4. said' = [said EXCEPT ![t] = [said[t] EXCEPT !.a = past.clock, !.kb = kb, !.apart = apart]]
    BY <2>1, <2>2 DEF Spoke
  <2>5. said' \in [Turn -> Spoke]
    BY <2>3, <2>4
  <2> QED  BY <1>2, <2>5 DEF AnswerTurn
<1>3. CASE TimeGoes
  BY <1>3 DEF TimeGoes, Past
<1>4. CASE Forget
  <2>1. ASSUME NEW t \in Turn
        PROVE  [said[t] EXCEPT !.gone = @ \/ said[t].a > 0] \in Spoke
    <3>1. said[t] \in Spoke
      OBVIOUS
    <3>2. (said[t].gone \/ said[t].a > 0) \in BOOLEAN
      OBVIOUS
    <3> QED  BY <3>1, <3>2 DEF Spoke
  <2> QED  BY <1>4, <2>1 DEF Forget
<1>5. ASSUME NEW t \in Turn, Read(t)
      PROVE  FavTypes'
  <2>1. CASE add' = [add EXCEPT ![t] = Unasked]
    BY <1>5, <2>1 DEF Read
  <2>2. ASSUME NEW u \in Turn \union {0},
               add' = [add EXCEPT ![t].pc = "read", ![t].copy = [question |-> u, kb |-> said[t].kb]]
        PROVE  FavTypes'
    <3>1. add[t] \in Click /\ said[t].kb \in Whence
      BY <1>5 DEF Read, Unasked, Spoke
    <3>2. add' \in [Turn -> {Unasked} \union Click]
      BY <2>2, <3>1 DEF Click
    <3> QED  BY <1>5, <3>2 DEF Read
  <2> QED  BY <1>5, <2>1, <2>2 DEF Read, PrevUser, Before
<1>6. ASSUME NEW t \in Turn, Create(t)
      PROVE  FavTypes'
  <2>1. add[t] \in Click /\ add[t].copy.question \in Turn \union {0} /\ add[t].copy.kb \in Whence
    BY <1>6 DEF Create, Unasked, Click
  <2>2. add' \in [Turn -> {Unasked} \union Click]
    BY <1>6, <2>1 DEF Create, Click
  <2>3. [id |-> past.made + 1, turn |-> t, question |-> add[t].copy.question, kb |-> add[t].copy.kb] \in Kept
    BY <2>1 DEF Kept, Past
  <2>4. favs' \subseteq Kept /\ IsFiniteSet(favs')
    BY <1>6, <2>3, FS_AddElement DEF Create
  <2>5. past' \in Past
    <3>1. PICK slips \in SUBSET {"stale", "overtaken", "failed"} :
            past' = past \/ past' = [past EXCEPT !.made = @ + 1, !.slips = slips]
      BY <1>6 DEF Create, Past, Slip
    <3>2. past.made + 1 \in Nat
      BY DEF Past
    <3> QED  BY <3>1, <3>2 DEF Past
  <2> QED  BY <1>6, <2>2, <2>4, <2>5 DEF Create
<1>7. CASE RemoveCopy
  <2>1. drop' \in [pc : {"sent", "removed"}, id : Nat, here : BOOLEAN]
    BY <1>7 DEF RemoveCopy, Unasked
  <2>2. favs' \in SUBSET favs
    BY <1>7 DEF RemoveCopy
  <2>3. past' \in Past
    BY <1>7 DEF RemoveCopy, Past, Slip
  <2> QED  BY <1>7, <2>1, <2>2, <2>3, FS_Subset DEF RemoveCopy
<1>8. CASE OpenChat
  <2>1. chat' \in Stars
    BY <1>8 DEF OpenChat, Stars
  <2>2. drop' \in {Unasked} \union [pc : {"sent", "removed"}, id : Nat, here : BOOLEAN]
    BY <1>8 DEF OpenChat
  <2>3. board' \in Board /\ past' \in Past
    BY <1>8 DEF OpenChat, Board, Past
  <2> QED  BY <1>8, <2>1, <2>2, <2>3 DEF OpenChat
<1>9. CASE ListIds
  <2>1. Marked \subseteq Turn
    BY DEF Marked, Kept
  <2>2. chat' \in Stars
    BY <1>9, <2>1 DEF ListIds, Stars
  <2> QED  BY <1>9, <2>2 DEF ListIds
<1>10. CASE ShowIds
  <2>1. chat.ids.on \subseteq Turn
    BY <1>10 DEF ShowIds, Stars, Unasked
  <2>2. chat' \in Stars
    BY <1>10, <2>1 DEF ShowIds, Stars
  <2>3. past' \in Past
    BY <1>10 DEF ShowIds, Past, Slip
  <2> QED  BY <1>10, <2>2, <2>3 DEF ShowIds
<1>11. ASSUME NEW t \in Turn, HandleFavorite(t)
       PROVE  FavTypes'
  BY <1>11 DEF HandleFavorite, Click, Past
<1>12. ASSUME NEW t \in Turn, Starred(t)
       PROVE  FavTypes'
  <2>1. chat' \in Stars
    BY <1>12 DEF Starred, Stars
  <2>2. past' \in Past
    BY <1>12 DEF Starred, Past, Slip
  <2> QED  BY <1>12, <2>1, <2>2 DEF Starred
<1>13. ASSUME NEW t \in Turn, AddFails(t)
       PROVE  FavTypes'
  <2>1. past' \in Past
    BY <1>13 DEF AddFails, Past, Slip
  <2> QED  BY <1>13, <2>1 DEF AddFails
<1>14. ASSUME NEW filter \in Whence, NEW p \in Nat, NEW old \in BOOLEAN, Loading(filter, p, old)
       PROVE  board' \in Board /\ past' \in Past
  <2>1. [n |-> past.visits, pc |-> "sent", filter |-> filter, page |-> p] \in Request
    BY DEF Request, Past
  <2>2. board' \in Board
    BY <1>14, <2>1 DEF Loading, Board
  <2> QED  BY <1>14, <2>2 DEF Loading, Past
<1>15. CASE OpenBoard
  <2>1. chat' \in Stars
    BY <1>15 DEF OpenBoard, Stars
  <2>2. ASSUME NEW t \in Turn, add[t] # Unasked
        PROVE  [add[t] EXCEPT !.here = FALSE] \in Click
    <3>1. add[t] \in Click
      BY <2>2
    <3>2. ASSUME NEW c \in [pc : {"sent"}, here : BOOLEAN, copy : {Unasked}]
          PROVE  [c EXCEPT !.here = FALSE] \in [pc : {"sent"}, here : BOOLEAN, copy : {Unasked}]
      OBVIOUS
    <3>3. ASSUME NEW c \in [pc : {"read", "kept"}, here : BOOLEAN, copy : [question : Turn \union {0}, kb : Whence]]
          PROVE  [c EXCEPT !.here = FALSE]
                   \in [pc : {"read", "kept"}, here : BOOLEAN, copy : [question : Turn \union {0}, kb : Whence]]
      OBVIOUS
    <3> QED  BY <3>1, <3>2, <3>3 DEF Click
  <2>3. add' \in [Turn -> {Unasked} \union Click]
    BY <1>15, <2>2 DEF OpenBoard
  <2>4. board' \in Board /\ past' \in Past
    BY <1>14, <1>15 DEF OpenBoard, Whence
  <2> QED  BY <1>15, <2>1, <2>3, <2>4 DEF OpenBoard, Loading
<1>16. ASSUME NEW filter \in Whence, HandleFilterChange(filter)
       PROVE  FavTypes'
  <2>1. board' \in Board /\ past' \in Past
    BY <1>14, <1>16 DEF HandleFilterChange
  <2> QED  BY <1>16, <2>1 DEF HandleFilterChange, Loading
<1>17. ASSUME NEW p \in 1 .. Cardinality(Turn), TurnPage(p)
       PROVE  FavTypes'
  <2>1. p \in Nat
    BY FS_CardinalityType DEF FavouriteAssumption
  <2>2. board' \in Board /\ past' \in Past
    BY <1>14, <1>17, <2>1 DEF TurnPage, Board
  <2> QED  BY <1>17, <2>2 DEF TurnPage, Loading
<1>18. ASSUME NEW l \in board.loads, List(l)
       PROVE  FavTypes'
  <2>1. l \in Request
    BY <1>18 DEF List, Board, Reply
  <2>2. [n |-> l.n, pc |-> "read", filter |-> l.filter, page |-> l.page,
         rows |-> PageOf(Matching(l.filter), l.page), total |-> Cardinality(Matching(l.filter))] \in Reply
    BY <2>1, ListTyped DEF Request, Reply
  <2>3. board' \in Board
    BY <1>18, <2>2 DEF List, Board
  <2> QED  BY <1>18, <2>3 DEF List
<1>19. ASSUME NEW l \in board.loads, Show(l)
       PROVE  FavTypes'
  <2>1. l \in Reply
    BY <1>19 DEF Show, Board, Request
  <2>2. board' \in Board
    BY <1>19, <2>1 DEF Show, Board, Reply
  <2>3. past' \in Past
    BY <1>19 DEF Show, Past, Slip
  <2> QED  BY <1>19, <2>2, <2>3 DEF Show
<1>20. ASSUME NEW l \in board.loads, LoadFails(l)
       PROVE  FavTypes'
  BY <1>20 DEF LoadFails, Board, Past, Slip
<1>21. ASSUME NEW f \in favs, HandleRemove(f)
       PROVE  FavTypes'
  BY <1>21 DEF HandleRemove, Kept
<1>22. CASE Removed
  <2>1. board' \in Board
    <3>1. PICK rows \in SUBSET Kept, total \in Nat, cut \in SUBSET Kept :
            board' = board \/ board' = [board EXCEPT !.rows = rows, !.total = total, !.cut = cut]
      <4>1. board.total \in Nat /\ board.rows \in SUBSET Kept /\ board.cut \in SUBSET Kept
        BY DEF Board
      <4>2. (IF board.total > 0 THEN board.total - 1 ELSE 0) \in Nat
        BY <4>1
      <4>3. /\ {f \in board.rows : f.id # drop.id} \in SUBSET Kept
            /\ board.cut \union {f \in board.rows : f.id = drop.id} \in SUBSET Kept
        BY <4>1
      <4> QED  BY <1>22, <4>1, <4>2, <4>3 DEF Removed
    <3> QED  BY <3>1 DEF Board
  <2>2. past' \in Past
    BY <1>22 DEF Removed, Past, Slip
  <2> QED  BY <1>22, <2>1, <2>2 DEF Removed
<1> QED  BY <1>1, <1>2, <1>3, <1>4, <1>5, <1>6, <1>7, <1>8, <1>9, <1>10, <1>11, <1>12, <1>13, <1>15, <1>16, <1>17, <1>18, <1>19, <1>20, <1>21, <1>22 DEF FavNext, Whence
-----------------------------------------------------------------------------
(* Questions and copies                                                     *)

LEMMA OrderFrame ==
  ASSUME InOrder, InTime, UNCHANGED said, past'.clock >= past.clock, FavTypes, past'.clock \in Nat
  PROVE  InOrder' /\ InTime'
<1>1. InOrder'
  BY DEF InOrder
<1>2. InTime'
  BY DEF InTime, FavTypes, Past, Spoke
<1> QED  BY <1>1, <1>2

LEMMA OrderStep ==
  ASSUME FavTypes, InOrder, InTime, FavNext
  PROVE  InOrder' /\ InTime'
<1> USE DEF FavTypes, Past
<1>1. ASSUME NEW t \in Turn, AskTurn(t)
      PROVE  InOrder' /\ InTime'
  <2>1. said[t].q = 0 /\ said[t].a = 0 /\ past' = past
    BY <1>1 DEF AskTurn, Silent
  <2>2. past.clock > 0 /\ \A u \in Turn : said[u].q <= past.clock /\ said[u].a <= past.clock
    BY <2>1 DEF InTime
  <2>3. /\ said'[t].q = past.clock /\ said'[t].a = 0
        /\ \A u \in Turn \ {t} : said'[u] = said[u]
    BY <1>1, <2>1 DEF AskTurn, Spoke
  <2>4. InTime'
    BY <2>1, <2>2, <2>3 DEF InTime
  <2>5. ASSUME NEW u \in Turn, said'[u].a > 0, ~said'[u].apart
        PROVE  /\ said'[u].q > 0 /\ said'[u].q < said'[u].a
               /\ \A v \in Turn \ {u} : ~(said'[v].q >= said'[u].q /\ said'[v].q < said'[u].a)
    <3>1. u # t
      BY <2>3, <2>5
    <3>2. said'[u] = said[u] /\ said[u].a > 0 /\ ~said[u].apart
      BY <2>3, <2>5, <3>1
    <3>3. \A v \in Turn \ {u} : v # t => said'[v] = said[v]
      BY <2>3
    <3>4. ~(said'[t].q < said'[u].a)
      BY <2>2, <2>3, <3>2 DEF Spoke
    <3> QED  BY <3>2, <3>3, <3>4 DEF InOrder
  <2> QED  BY <2>4, <2>5 DEF InOrder
<1>2. ASSUME NEW t \in Turn, AnswerTurn(t)
      PROVE  InOrder' /\ InTime'
  <2>1. said[t].q > 0 /\ said[t].a = 0 /\ past' = past
    BY <1>2 DEF AnswerTurn
  <2>2. past.clock > 0 /\ \A u \in Turn : said[u].q <= past.clock /\ said[u].a <= past.clock
    BY <2>1 DEF InTime
  <2>3. /\ said'[t].q = said[t].q /\ said'[t].a = past.clock
        /\ said'[t].apart = (said[t].q = past.clock
             \/ \E u \in Turn \ {t} : said[u].q >= said[t].q /\ said[u].q < past.clock)
        /\ \A u \in Turn \ {t} : said'[u] = said[u]
    BY <1>2 DEF AnswerTurn, Spoke
  <2>4. InTime'
    BY <2>1, <2>2, <2>3 DEF InTime
  <2>5. \A u \in Turn : said'[u].q = said[u].q
    BY <2>3
  <2>6. ASSUME NEW u \in Turn, said'[u].a > 0, ~said'[u].apart
        PROVE  /\ said'[u].q > 0 /\ said'[u].q < said'[u].a
               /\ \A v \in Turn \ {u} : ~(said'[v].q >= said'[u].q /\ said'[v].q < said'[u].a)
    <3>1. CASE u = t
      <4>1. said[t].q # past.clock /\ \A v \in Turn \ {t} : ~(said[v].q >= said[t].q /\ said[v].q < past.clock)
        BY <2>3, <2>6, <3>1
      <4>2. said[t].q < past.clock
        BY <2>2, <4>1 DEF Spoke
      <4> QED  BY <2>1, <2>3, <2>5, <3>1, <4>1, <4>2
    <3>2. CASE u # t
      BY <2>3, <2>5, <2>6, <3>2 DEF InOrder
    <3> QED  BY <3>1, <3>2
  <2> QED  BY <2>4, <2>6 DEF InOrder
<1>3. CASE TimeGoes
  BY <1>3, OrderFrame DEF TimeGoes
<1>4. CASE Forget
  <2>1. \A u \in Turn : said'[u].q = said[u].q /\ said'[u].a = said[u].a /\ said'[u].apart = said[u].apart
    BY <1>4 DEF Forget, Spoke
  <2>2. past' = past
    BY <1>4 DEF Forget
  <2> QED  BY <2>1, <2>2 DEF InOrder, InTime
<1>5. CASE UNCHANGED said /\ past'.clock = past.clock
  BY <1>5, OrderFrame
<1>6. ASSUME NEW t \in Turn, \/ Read(t) \/ Create(t) \/ HandleFavorite(t) \/ Starred(t) \/ AddFails(t)
      PROVE  UNCHANGED said /\ past'.clock = past.clock
  BY <1>6 DEF Read, Create, HandleFavorite, Starred, AddFails
<1>7. ASSUME RemoveCopy \/ OpenChat \/ ListIds \/ ShowIds \/ OpenBoard \/ Removed
      PROVE  UNCHANGED said /\ past'.clock = past.clock
  BY <1>7 DEF RemoveCopy, OpenChat, ListIds, ShowIds, OpenBoard, Removed, Loading
<1>8. ASSUME NEW filter, HandleFilterChange(filter) \/ TurnPage(filter)
      PROVE  UNCHANGED said /\ past'.clock = past.clock
  BY <1>8 DEF HandleFilterChange, TurnPage, Loading
<1>9. ASSUME NEW l \in board.loads, List(l) \/ Show(l) \/ LoadFails(l)
      PROVE  UNCHANGED said /\ past'.clock = past.clock
  BY <1>9 DEF List, Show, LoadFails
<1>10. ASSUME NEW f \in favs, HandleRemove(f)
      PROVE  UNCHANGED said /\ past'.clock = past.clock
  BY <1>10 DEF HandleRemove
<1> QED  BY <1>1, <1>2, <1>3, <1>4, <1>5, <1>6, <1>7, <1>8, <1>9, <1>10 DEF FavNext

\* What was said stays said.
LEMMA SaidStays ==
  ASSUME FavTypes, FavNext, NEW t \in Turn, said[t].a > 0
  PROVE  said'[t].a > 0 /\ said'[t].apart = said[t].apart
<1> USE DEF FavTypes
<1>1. ASSUME NEW u \in Turn, AskTurn(u)
      PROVE  said'[t] = said[t]
  BY <1>1 DEF AskTurn, Silent
<1>2. ASSUME NEW u \in Turn, AnswerTurn(u)
      PROVE  said'[t] = said[t]
  BY <1>2 DEF AnswerTurn
<1>3. CASE Forget
  BY <1>3 DEF Forget, Spoke
<1>4. ASSUME NEW u \in Turn, \/ Read(u) \/ Create(u) \/ HandleFavorite(u) \/ Starred(u) \/ AddFails(u)
      PROVE  UNCHANGED said
  BY <1>4 DEF Read, Create, HandleFavorite, Starred, AddFails
<1>5. ASSUME TimeGoes \/ RemoveCopy \/ OpenChat \/ ListIds \/ ShowIds \/ OpenBoard \/ Removed
      PROVE  UNCHANGED said
  BY <1>5 DEF TimeGoes, RemoveCopy, OpenChat, ListIds, ShowIds, OpenBoard, Removed, Loading
<1>6. ASSUME NEW filter, HandleFilterChange(filter) \/ TurnPage(filter)
      PROVE  UNCHANGED said
  BY <1>6 DEF HandleFilterChange, TurnPage, Loading
<1>7. ASSUME NEW l \in board.loads, List(l) \/ Show(l) \/ LoadFails(l)
      PROVE  UNCHANGED said
  BY <1>7 DEF List, Show, LoadFails
<1>8. ASSUME NEW f \in favs, HandleRemove(f)
      PROVE  UNCHANGED said
  BY <1>8 DEF HandleRemove
<1> QED  BY <1>1, <1>2, <1>3, <1>4, <1>5, <1>6, <1>7, <1>8 DEF FavNext

\* The clicks that are under way change at one star, or all of them lose their page.
ClicksKept ==
  \A t \in Turn : add'[t] # Unasked =>
    add[t] # Unasked /\ add'[t].pc = add[t].pc /\ add'[t].copy = add[t].copy

LEMMA ClicksStay ==
  ASSUME FavTypes, FavNext, \A t \in Turn : ~(Read(t) \/ Create(t) \/ HandleFavorite(t))
  PROVE  ClicksKept /\ favs' \subseteq favs
<1> USE DEF FavTypes, ClicksKept
<1>1. ASSUME NEW t \in Turn, Starred(t) \/ AddFails(t)
      PROVE  ClicksKept /\ favs' \subseteq favs
  BY <1>1 DEF Starred, AddFails
<1>2. CASE OpenBoard
  <2>1. ASSUME NEW t \in Turn, add[t] # Unasked
        PROVE  add'[t].pc = add[t].pc /\ add'[t].copy = add[t].copy
    BY <1>2, <2>1 DEF OpenBoard, Click
  <2>2. \A t \in Turn : add[t] = Unasked => add'[t] = Unasked
    BY <1>2 DEF OpenBoard
  <2> QED  BY <1>2, <2>1, <2>2 DEF OpenBoard, Loading
<1>3. ASSUME NEW t \in Turn, AskTurn(t) \/ AnswerTurn(t)
      PROVE  ClicksKept /\ favs' \subseteq favs
  BY <1>3 DEF AskTurn, AnswerTurn
<1>4. ASSUME TimeGoes \/ Forget \/ RemoveCopy \/ OpenChat \/ ListIds \/ ShowIds \/ Removed
      PROVE  ClicksKept /\ favs' \subseteq favs
  BY <1>4 DEF TimeGoes, Forget, RemoveCopy, OpenChat, ListIds, ShowIds, Removed
<1>5. ASSUME NEW filter, HandleFilterChange(filter) \/ TurnPage(filter)
      PROVE  ClicksKept /\ favs' \subseteq favs
  BY <1>5 DEF HandleFilterChange, TurnPage, Loading
<1>6. ASSUME NEW l \in board.loads, List(l) \/ Show(l) \/ LoadFails(l)
      PROVE  ClicksKept /\ favs' \subseteq favs
  BY <1>6 DEF List, Show, LoadFails
<1>7. ASSUME NEW f \in favs, HandleRemove(f)
      PROVE  ClicksKept /\ favs' \subseteq favs
  BY <1>7 DEF HandleRemove
<1> QED  BY <1>1, <1>2, <1>3, <1>4, <1>5, <1>6, <1>7 DEF FavNext

LEMMA CopiesStep ==
  ASSUME FavTypes, InOrder, CopiesRead, CopiesKept, FavNext
  PROVE  CopiesRead' /\ CopiesKept'
<1> USE DEF FavTypes
<1>1. CASE \A t \in Turn : ~(Read(t) \/ Create(t) \/ HandleFavorite(t))
  <2>1. CopiesRead'
    BY <1>1, ClicksStay, SaidStays DEF CopiesRead, ClicksKept
  <2>2. CopiesKept'
    BY <1>1, ClicksStay, SaidStays DEF CopiesKept, Kept
  <2> QED  BY <2>1, <2>2
<1>2. ASSUME NEW t \in Turn, Read(t)
      PROVE  CopiesRead' /\ CopiesKept'
  <2>1. said[t].a > 0 /\ add[t] # Unasked /\ UNCHANGED <<said, favs>>
    BY <1>2 DEF Read, Unasked, CopiesRead
  <2>2. ASSUME ~said[t].gone, ~said[t].apart, NEW u \in IF Before(t) = {} THEN {0} ELSE PrevUser(t)
        PROVE  u = t
    <3>1. said[t].q > 0 /\ said[t].q < said[t].a
      BY <2>1, <2>2 DEF InOrder
    <3>2. t \in Before(t)
      BY <2>2, <3>1 DEF Before
    <3>3. u \in PrevUser(t) /\ u \in Turn /\ said[u].q < said[t].a /\ said[t].q <= said[u].q
      BY <2>2, <3>2 DEF PrevUser, Before
    <3>4. u = t \/ ~(said[u].q >= said[t].q /\ said[u].q < said[t].a)
      BY <2>1, <2>2, <3>3 DEF InOrder
    <3> QED  BY <3>3, <3>4 DEF Spoke
  <2>3. \A v \in Turn \ {t} : add'[v] = add[v]
    BY <1>2 DEF Read
  <2>4. ASSUME add'[t] # Unasked
        PROVE  add'[t].pc = "read" => add'[t].copy.question = t \/ said[t].apart
    <3>1. PICK u \in IF Before(t) = {} THEN {0} ELSE PrevUser(t) :
            ~said[t].gone /\ add' = [add EXCEPT ![t].pc = "read", ![t].copy = [question |-> u, kb |-> said[t].kb]]
      BY <1>2, <2>4 DEF Read
    <3>2. add[t] \in Click
      BY <2>1
    <3>3. add'[t].copy.question = u
      BY <3>1, <3>2 DEF Click
    <3> QED  BY <2>2, <3>1, <3>3
  <2>5. CopiesRead'
    BY <2>1, <2>3, <2>4 DEF CopiesRead
  <2> QED  BY <2>1, <2>5 DEF CopiesKept
<1>3. ASSUME NEW t \in Turn, Create(t)
      PROVE  CopiesRead' /\ CopiesKept'
  <2>1. /\ said[t].a > 0 /\ add[t] # Unasked /\ UNCHANGED said
        /\ add[t].copy.question = t \/ said[t].apart
    BY <1>3 DEF Create, Unasked, CopiesRead
  <2>2. \A v \in Turn \ {t} : add'[v] = add[v]
    BY <1>3 DEF Create
  <2>3. add'[t].pc = "kept"
    <3>1. add[t] \in Click
      BY <2>1
    <3> QED  BY <1>3, <3>1 DEF Create, Click
  <2>4. CopiesRead'
    BY <2>1, <2>2, <2>3 DEF CopiesRead
  <2>5. \A f \in favs' : f \in favs \/ (f.turn = t /\ f.question = add[t].copy.question)
    BY <1>3 DEF Create
  <2>6. CopiesKept'
    BY <2>1, <2>5 DEF CopiesKept
  <2> QED  BY <2>4, <2>6
<1>4. ASSUME NEW t \in Turn, HandleFavorite(t)
      PROVE  CopiesRead' /\ CopiesKept'
  <2>1. /\ said[t].a > 0 /\ UNCHANGED <<said, favs>>
        /\ add'[t].pc = "sent" /\ \A v \in Turn \ {t} : add'[v] = add[v]
    BY <1>4 DEF HandleFavorite
  <2>2. CopiesRead'
    BY <2>1 DEF CopiesRead
  <2> QED  BY <2>1, <2>2 DEF CopiesKept
<1> QED  BY <1>1, <1>2, <1>3, <1>4

-----------------------------------------------------------------------------
(* Numbers, and who has left                                                *)

LEMMA NumberedStep ==
  ASSUME FavTypes, Numbered, FavNext
  PROVE  Numbered'
<1> USE DEF FavTypes, Past
<1>1. ASSUME NEW t \in Turn, Create(t)
      PROVE  Numbered'
  <2>1. CASE UNCHANGED <<favs, past>>
    BY <1>1, <2>1 DEF Create, Numbered
  <2>2. CASE \A f \in favs : f.turn # t
    <3>1. PICK f : f.id = past.made + 1 /\ favs' = favs \union {f}
      BY <1>1, <2>2 DEF Create
    <3>2. past'.made = past.made + 1 /\ past.made \in Nat /\ drop' = drop
      BY <1>1, <2>2 DEF Create
    <3>3. \A g \in favs : g.id \in Nat /\ g.id <= past.made
      BY DEF Numbered, Kept
    <3>4. \A g \in favs' : g.id <= past'.made
      BY <3>1, <3>2, <3>3
    <3>5. \A g, h \in favs' : g.id = h.id => g = h
      BY <3>1, <3>2, <3>3 DEF Numbered
    <3>6. drop # Unasked => drop.id \in Nat /\ drop.id <= past.made
      BY DEF Numbered
    <3>7. drop' # Unasked => drop'.id <= past'.made
      BY <3>2, <3>6
    <3>8. drop'.pc = "removed" => \A g \in favs' : g.id # drop'.id
      BY <3>1, <3>2, <3>6 DEF Numbered, Unasked
    <3> QED  BY <3>4, <3>5, <3>7, <3>8 DEF Numbered
  <2> QED  BY <1>1, <2>1, <2>2 DEF Create
<1>2. CASE RemoveCopy
  <2>1. drop.pc = "sent" /\ drop # Unasked /\ favs' = {f \in favs : f.id # drop.id}
    BY <1>2 DEF RemoveCopy, Unasked
  <2>2. drop'.id = drop.id /\ past'.made = past.made
    BY <1>2, <2>1 DEF RemoveCopy
  <2>3. drop' # Unasked => drop'.id <= past'.made
    BY <2>1, <2>2 DEF Numbered
  <2> QED  BY <2>1, <2>2, <2>3 DEF Numbered
<1>3. ASSUME UNCHANGED favs, past'.made = past.made,
             drop' = Unasked \/ (drop' # Unasked /\ drop # Unasked /\ drop'.id = drop.id /\ drop'.pc = drop.pc)
      PROVE  Numbered'
  BY <1>3 DEF Numbered, Unasked
<1>4. ASSUME NEW f \in favs, HandleRemove(f)
      PROVE  Numbered'
  BY <1>4 DEF HandleRemove, Numbered
<1>5. ASSUME NEW t \in Turn, \/ AskTurn(t) \/ AnswerTurn(t) \/ Read(t) \/ HandleFavorite(t) \/ Starred(t) \/ AddFails(t)
      PROVE  Numbered'
  <2>1. UNCHANGED <<favs, drop>> /\ past'.made = past.made
    BY <1>5 DEF AskTurn, AnswerTurn, Read, HandleFavorite, Starred, AddFails
  <2> QED  BY <2>1, <1>3
<1>6. ASSUME TimeGoes \/ Forget \/ ListIds \/ ShowIds \/ OpenBoard
      PROVE  Numbered'
  <2>1. UNCHANGED <<favs, drop>> /\ past'.made = past.made
    BY <1>6 DEF TimeGoes, Forget, ListIds, ShowIds, OpenBoard, Loading
  <2> QED  BY <2>1, <1>3
<1>7. ASSUME OpenChat \/ Removed
      PROVE  Numbered'
  <2>1. UNCHANGED favs /\ past'.made = past.made
    BY <1>7 DEF OpenChat, Removed
  <2>2. drop' = Unasked \/ (drop # Unasked /\ drop' = [drop EXCEPT !.here = FALSE])
    BY <1>7 DEF OpenChat, Removed
  <2>3. CASE drop # Unasked /\ drop' = [drop EXCEPT !.here = FALSE]
    <3>1. drop' # Unasked
      BY <2>3 DEF Unasked
    <3>2. drop'.id = drop.id /\ drop'.pc = drop.pc
      BY <2>3
    <3> QED  BY <1>3, <2>1, <2>3, <3>1, <3>2
  <2> QED  BY <1>3, <2>1, <2>2, <2>3
<1>8. ASSUME NEW filter, HandleFilterChange(filter) \/ TurnPage(filter)
      PROVE  Numbered'
  <2>1. UNCHANGED <<favs, drop>> /\ past'.made = past.made
    BY <1>8 DEF HandleFilterChange, TurnPage, Loading
  <2> QED  BY <2>1, <1>3
<1>9. ASSUME NEW l \in board.loads, List(l) \/ Show(l) \/ LoadFails(l)
      PROVE  Numbered'
  <2>1. UNCHANGED <<favs, drop>> /\ past'.made = past.made
    BY <1>9 DEF List, Show, LoadFails
  <2> QED  BY <2>1, <1>3
<1> QED  BY <1>1, <1>2, <1>4, <1>5, <1>6, <1>7, <1>8, <1>9 DEF FavNext

LEMMA LeftStep ==
  ASSUME FavTypes, Left, FavNext
  PROVE  Left'
<1> USE DEF FavTypes
<1>1. ASSUME chat'.open = chat.open, drop' = drop \/ drop' = Unasked \/ ~chat.open,
             \A t \in Turn : add'[t] = add[t] \/ add'[t] = Unasked \/ chat.open \/ (add[t] # Unasked /\ add'[t].here = add[t].here)
      PROVE  Left'
  BY <1>1 DEF Left
<1>2. ASSUME NEW t \in Turn, Read(t) \/ Create(t)
      PROVE  Left'
  <2>1. add[t] \in Click /\ add[t] # Unasked /\ UNCHANGED <<chat, drop>>
    BY <1>2 DEF Read, Create, Unasked
  <2>2. add'[t] = Unasked \/ add'[t].here = add[t].here
    BY <1>2, <2>1 DEF Read, Create, Click
  <2>3. \A u \in Turn \ {t} : add'[u] = add[u]
    BY <1>2 DEF Read, Create
  <2> QED  BY <1>1, <2>1, <2>2, <2>3
<1>3. ASSUME NEW t \in Turn, AskTurn(t) \/ AnswerTurn(t) \/ HandleFavorite(t) \/ AddFails(t)
      PROVE  Left'
  BY <1>1, <1>3 DEF AskTurn, AnswerTurn, HandleFavorite, AddFails
<1>4. ASSUME NEW t \in Turn, Starred(t)
      PROVE  Left'
  <2>1. chat'.open = chat.open
    BY <1>4 DEF Starred, Stars
  <2> QED  BY <1>1, <1>4, <2>1 DEF Starred
<1>5. ASSUME TimeGoes \/ Forget \/ ListIds \/ ShowIds \/ Removed
      PROVE  Left'
  <2>1. UNCHANGED add /\ (drop' = drop \/ drop' = Unasked) /\ chat'.open = chat.open
    BY <1>5 DEF TimeGoes, Forget, ListIds, ShowIds, Removed, Stars
  <2> QED  BY <1>1, <2>1
<1>6. CASE RemoveCopy
  <2>1. UNCHANGED <<add, chat>> /\ drop # Unasked /\ drop' = [drop EXCEPT !.pc = "removed"]
    BY <1>6 DEF RemoveCopy, Unasked
  <2>2. drop'.here = drop.here
    BY <2>1
  <2> QED  BY <2>1, <2>2 DEF Left
<1>7. CASE OpenChat
  <2>1. chat'.open
    BY <1>7 DEF OpenChat, Stars
  <2>2. drop' = Unasked \/ ~drop'.here
    BY <1>7 DEF OpenChat
  <2> QED  BY <2>1, <2>2 DEF Left
<1>8. CASE OpenBoard
  <2>1. ~chat'.open
    BY <1>8 DEF OpenBoard
  <2>2. ASSUME NEW t \in Turn, add[t] # Unasked
        PROVE  ~add'[t].here
    BY <1>8, <2>2 DEF OpenBoard, Click
  <2>3. \A t \in Turn : add'[t] = Unasked \/ ~add'[t].here
    BY <1>8, <2>2 DEF OpenBoard
  <2> QED  BY <2>1, <2>3 DEF Left
<1>9. ASSUME NEW filter, HandleFilterChange(filter) \/ TurnPage(filter)
      PROVE  Left'
  BY <1>1, <1>9 DEF HandleFilterChange, TurnPage, Loading
<1>10. ASSUME NEW l \in board.loads, List(l) \/ Show(l) \/ LoadFails(l)
      PROVE  Left'
  BY <1>1, <1>10 DEF List, Show, LoadFails
<1>11. ASSUME NEW f \in favs, HandleRemove(f)
      PROVE  Left'
  BY <1>1, <1>11 DEF HandleRemove
<1> QED  BY <1>2, <1>3, <1>4, <1>5, <1>6, <1>7, <1>8, <1>9, <1>10, <1>11 DEF FavNext

\* A copy that is made, and whether its page is still there to be told.
LEMMA CreateSlips ==
  ASSUME FavTypes, NEW t \in Turn, Create(t), \A f \in favs : f.turn # t
  PROVE  /\ add[t] \in Click /\ add[t] # Unasked /\ past'.visits = past.visits /\ UNCHANGED chat
         /\ past.slips \subseteq past'.slips /\ (Clean' => add[t].here)
<1>1. add[t] \in Click /\ add[t] # Unasked /\ UNCHANGED chat
  BY DEF Create, Unasked, FavTypes
<1>2. PICK m : past' = [past EXCEPT !.made = m, !.slips = Slip("stale", ~add[t].here)]
  BY DEF Create
<1>3. past'.visits = past.visits /\ past'.slips = Slip("stale", ~add[t].here)
  BY <1>2 DEF FavTypes, Past
<1>4. past.slips \subseteq past'.slips
  BY <1>3 DEF Slip
<1>5. Clean' => add[t].here
  BY <1>3 DEF Slip, Clean
<1> QED  BY <1>1, <1>3, <1>4, <1>5

\* A slip is for good.
LEMMA CleanBefore ==
  ASSUME FavTypes, FavNext, Clean'
  PROVE  Clean
<1> USE DEF FavTypes, Past, Clean, Slip
<1>1. ASSUME NEW t \in Turn, \/ AskTurn(t) \/ AnswerTurn(t) \/ Read(t) \/ HandleFavorite(t)
      PROVE  Clean
  BY <1>1 DEF AskTurn, AnswerTurn, Read, HandleFavorite
<1>2. ASSUME NEW t \in Turn, Create(t) \/ Starred(t) \/ AddFails(t)
      PROVE  Clean
  <2>1. CASE Create(t)
    <3>1. CASE UNCHANGED past
      BY <3>1
    <3>2. CASE \A f \in favs : f.turn # t
      BY <2>1, <3>2, CreateSlips
    <3> QED  BY <2>1, <3>1, <3>2 DEF Create
  <2>2. CASE Starred(t) \/ AddFails(t)
    BY <2>2 DEF Starred, AddFails
  <2> QED  BY <1>2, <2>1, <2>2
<1>3. ASSUME TimeGoes \/ Forget \/ OpenChat \/ ListIds \/ OpenBoard
      PROVE  Clean
  BY <1>3 DEF TimeGoes, Forget, OpenChat, ListIds, OpenBoard, Loading
<1>4. ASSUME RemoveCopy \/ ShowIds \/ Removed
      PROVE  Clean
  BY <1>4 DEF RemoveCopy, ShowIds, Removed
<1>5. ASSUME NEW filter, HandleFilterChange(filter) \/ TurnPage(filter)
      PROVE  Clean
  BY <1>5 DEF HandleFilterChange, TurnPage, Loading
<1>6. ASSUME NEW l \in board.loads, List(l) \/ Show(l) \/ LoadFails(l)
      PROVE  Clean
  BY <1>6 DEF List, Show, LoadFails
<1>7. ASSUME NEW f \in favs, HandleRemove(f)
      PROVE  Clean
  BY <1>7 DEF HandleRemove
<1> QED  BY <1>1, <1>2, <1>3, <1>4, <1>5, <1>6, <1>7 DEF FavNext

-----------------------------------------------------------------------------
(* The stars                                                                *)

LEMMA StarryStep ==
  ASSUME FavTypes, Left, Starry, FavNext
  PROVE  Starry'
<1> USE DEF FavTypes
<1> SUFFICES ASSUME chat'.open, chat'.ids = Unasked, past'.visits > 0, Clean'
             PROVE  /\ chat'.on \subseteq Marked'
                    /\ \A t \in Marked' \ chat'.on : add'[t].pc = "kept" /\ add'[t].here
  BY DEF Starry
<1> DEFINE Starlit == /\ chat'.on \subseteq Marked'
                   /\ \A t \in Marked' \ chat'.on : add'[t].pc = "kept" /\ add'[t].here
<1>0. Clean
  BY CleanBefore
<1>1. ASSUME UNCHANGED <<favs, chat, add>>, past'.visits = past.visits
      PROVE  Starlit
  BY <1>0, <1>1 DEF Starry, Marked
<1>2. ASSUME NEW t \in Turn, AskTurn(t) \/ AnswerTurn(t)
      PROVE  Starlit
  BY <1>1, <1>2 DEF AskTurn, AnswerTurn
<1>3. ASSUME NEW t \in Turn, UNCHANGED chat, past'.visits = past.visits, \A u \in Turn \ {t} : add'[u] = add[u],
             add[t].pc # "kept" \/ ~(t \in Marked'), UNCHANGED favs
      PROVE  Starlit
  <2>1. Marked \subseteq Turn /\ Marked' = Marked
    BY <1>3 DEF Marked, Kept
  <2> QED  BY <1>0, <1>3, <2>1 DEF Starry
<1>4. ASSUME NEW t \in Turn, Read(t) \/ HandleFavorite(t)
      PROVE  Starlit
  <2>1. UNCHANGED <<chat, favs>> /\ past'.visits = past.visits /\ \A u \in Turn \ {t} : add'[u] = add[u]
    BY <1>4 DEF Read, HandleFavorite, Past
  <2>2. add[t].pc # "kept"
    BY <1>4 DEF Read, HandleFavorite, Unasked
  <2> QED  BY <1>3, <2>1, <2>2
<1>5. ASSUME NEW t \in Turn, Create(t)
      PROVE  Starlit
  <2>1. CASE UNCHANGED <<favs, past>>
    <3>1. UNCHANGED chat /\ (\A u \in Turn \ {t} : add'[u] = add[u]) /\ add[t].pc # "kept"
      BY <1>5 DEF Create
    <3> QED  BY <1>3, <2>1, <3>1
  <2>2. CASE \A f \in favs : f.turn # t
    <3>1. PICK f : f.turn = t /\ favs' = favs \union {f}
      BY <1>5, <2>2 DEF Create
    <3>2. add[t] \in Click /\ past'.visits = past.visits /\ UNCHANGED chat
      BY <1>5, <2>2, CreateSlips
    <3>3. add[t].here
      BY <1>5, <2>2, CreateSlips
    <3>4. add'[t].pc = "kept" /\ add'[t].here /\ \A u \in Turn \ {t} : add'[u] = add[u]
      BY <1>5, <3>2, <3>3 DEF Create, Click
    <3>5. Marked' = Marked \union {t} /\ Marked \subseteq Turn
      BY <3>1 DEF Marked, Kept
    <3> QED  BY <1>0, <3>2, <3>4, <3>5 DEF Starry
  <2> QED  BY <1>5, <2>1, <2>2 DEF Create
<1>6. ASSUME NEW t \in Turn, Starred(t)
      PROVE  Starlit
  <2>1. /\ UNCHANGED favs /\ past'.visits = past.visits /\ \A u \in Turn \ {t} : add'[u] = add[u]
        /\ add[t].here => t \in Marked
    BY <1>6 DEF Starred, Past, Clean, Slip
  <2>2. /\ chat'.open = chat.open /\ chat'.ids = chat.ids
        /\ chat'.on = IF add[t].here THEN chat.on \union {t} ELSE chat.on
    BY <1>6 DEF Starred, Stars
  <2>3. Marked \subseteq Turn /\ Marked' = Marked
    BY <2>1 DEF Marked, Kept
  <2>4. chat.on \subseteq Marked /\ \A u \in Marked \ chat.on : add[u].pc = "kept" /\ add[u].here
    BY <1>0, <2>1, <2>2 DEF Starry
  <2>5. CASE add[t].here
    BY <2>1, <2>2, <2>3, <2>4, <2>5
  <2>6. CASE ~add[t].here
    BY <2>1, <2>2, <2>3, <2>4, <2>6
  <2> QED  BY <2>5, <2>6
<1>7. ASSUME NEW t \in Turn, AddFails(t)
      PROVE  Starlit
  <2>1. UNCHANGED <<favs, chat>> /\ past'.visits = past.visits /\ \A u \in Turn \ {t} : add'[u] = add[u]
    BY <1>7 DEF AddFails, Past
  <2>2. add[t].pc # "kept"
    BY <1>7 DEF AddFails, Clean, Slip, Past
  <2> QED  BY <1>3, <2>1, <2>2
<1>8. ASSUME TimeGoes \/ Forget \/ Removed
      PROVE  Starlit
  BY <1>1, <1>8 DEF TimeGoes, Forget, Removed, Past
<1>9. CASE RemoveCopy
  <2>1. drop # Unasked /\ drop.here
    BY <1>9 DEF RemoveCopy, Unasked, Clean, Slip, Past
  <2>2. chat.open
    BY <1>9 DEF RemoveCopy
  <2> QED  BY <2>1, <2>2 DEF Left
<1>10. ASSUME OpenChat \/ ListIds
       PROVE  FALSE
  <2>1. chat'.ids.pc \in {"sent", "read"}
    BY <1>10 DEF OpenChat, ListIds, Stars
  <2> QED  BY <2>1 DEF Unasked
<1>11. CASE ShowIds
  <2>1. UNCHANGED <<favs, add>> /\ chat'.on = chat.ids.on
    BY <1>11 DEF ShowIds, Stars
  <2>2. chat.ids.on \subseteq Turn /\ Marked \subseteq Turn
    BY <1>11 DEF ShowIds, Stars, Marked, Kept, Unasked
  <2>3. \A t \in Turn : ~(IF t \in chat.ids.on THEN t \notin Marked ELSE t \in Marked /\ ~(add[t].pc = "kept" /\ add[t].here))
    BY <1>11 DEF ShowIds, Clean, Slip, Past
  <2>4. Marked' = Marked
    BY <2>1 DEF Marked
  <2> QED  BY <2>1, <2>2, <2>3, <2>4
<1>12. CASE OpenBoard
  BY <1>12 DEF OpenBoard
<1>13. ASSUME NEW filter, HandleFilterChange(filter) \/ TurnPage(filter)
       PROVE  FALSE
  BY <1>13 DEF HandleFilterChange, TurnPage
<1>14. ASSUME NEW l \in board.loads, List(l) \/ Show(l) \/ LoadFails(l)
       PROVE  Starlit
  BY <1>1, <1>14 DEF List, Show, LoadFails, Past
<1>15. ASSUME NEW f \in favs, HandleRemove(f)
       PROVE  Starlit
  BY <1>1, <1>15 DEF HandleRemove
<1> QED  BY <1>2, <1>4, <1>5, <1>6, <1>7, <1>8, <1>9, <1>10, <1>11, <1>12, <1>13, <1>14, <1>15 DEF FavNext

-----------------------------------------------------------------------------
(* The page of copies                                                       *)

\* What neither the lists on their way nor the page that is shown depend on.
LEMMA ListFrame ==
  ASSUME Listing, Loads, UNCHANGED <<favs, board, drop>>, Clean' => Clean, chat'.open = chat.open
  PROVE  Listing' /\ Loads'
<1>1. /\ Fading' = Fading /\ Doomed' = Doomed
      /\ Matching(board.filter)' = Matching(board.filter)
  BY DEF Fading, Doomed, Matching
<1>2. RowsRight' = RowsRight
  BY <1>1 DEF RowsRight, PageOf
<1>3. Loads'
  BY DEF Loads, Matching, PageOf
<1> QED  BY <1>1, <1>2, <1>3 DEF Listing

\* Lists on their way stay right while copies are only removed.
LEMMA LoadsLess ==
  ASSUME Loads, favs' \subseteq favs, board'.loads \subseteq board.loads, chat'.open = chat.open, Clean' => Clean
  PROVE  Loads'
<1>1. ASSUME NEW l \in board'.loads, l.pc = "read", ~chat'.open, Clean'
      PROVE  \E all : /\ IsFiniteSet(all) /\ Matching(l.filter)' \subseteq all
                      /\ l.rows = PageOf(all, l.page) /\ l.total = Cardinality(all)
  <2>1. PICK all : /\ IsFiniteSet(all) /\ Matching(l.filter) \subseteq all
                   /\ l.rows = PageOf(all, l.page) /\ l.total = Cardinality(all)
    BY <1>1 DEF Loads
  <2>2. Matching(l.filter)' \subseteq Matching(l.filter)
    BY DEF Matching
  <2> QED  BY <2>1, <2>2
<1> QED  BY <1>1 DEF Loads, PageOf, Matching

\* The page shows copies that are there, but for the one that fades.
LEMMA RowsKept ==
  ASSUME RowsRight, NEW g \in board.rows
  PROVE  g \in Matching(board.filter) \union Fading
BY DEF RowsRight, PageOf

LEMMA RemoveCopyLists ==
  ASSUME FavTypes, Numbered, Listing, Loads, RemoveCopy, Clean' => Clean
  PROVE  Listing' /\ Loads'
<1>1. UNCHANGED <<board, chat>> /\ favs' = {f \in favs : f.id # drop.id}
  BY DEF RemoveCopy
<1>2. Loads'
  BY <1>1, LoadsLess
<1>3. SUFFICES ASSUME ~chat'.open, board'.loads = {}, Clean'
               PROVE  Doomed' \/ RowsRight'
  BY <1>2 DEF Listing
<1>4. drop # Unasked /\ drop.here
  BY <1>3 DEF RemoveCopy, Unasked, Clean, Slip, FavTypes, Past
<1>5. drop' # Unasked /\ drop'.here /\ drop'.id = drop.id /\ drop'.pc = "removed"
  BY <1>4 DEF RemoveCopy, FavTypes, Unasked
<1>6. CASE \A f \in board.rows : f.id # drop.id
  BY <1>1, <1>5, <1>6 DEF Doomed
<1>7. ASSUME NEW g \in board.rows, g.id = drop.id
      PROVE  RowsRight'
  <2>1. Fading = {} /\ ~Doomed
    BY <1>7 DEF Fading, Doomed, RemoveCopy
  <2>2. RowsRight
    BY <1>1, <1>3, <2>1 DEF Listing
  <2>3. board.rows \subseteq favs /\ g \in Matching(board.filter)
    BY <1>7, <2>1, <2>2, RowsKept DEF Matching
  <2>4. \A f \in favs : f.id = drop.id => f = g
    BY <1>7, <2>3 DEF Numbered
  <2>5. Fading' = {g}
    BY <1>1, <1>5, <1>7, <2>3, <2>4 DEF Fading
  <2>6. Matching(board.filter)' = Matching(board.filter) \ {g}
    BY <1>1, <1>7, <2>4 DEF Matching
  <2>7. Matching(board.filter)' \union Fading' = Matching(board.filter) \union Fading
    BY <2>1, <2>3, <2>5, <2>6
  <2>8. /\ board.rows = PageOf(Matching(board.filter) \union Fading \union board.cut, board.page) \ board.cut
        /\ board.total = Cardinality(Matching(board.filter) \union Fading)
    BY <2>2 DEF RowsRight
  <2>9. board'.filter = board.filter
    BY <1>1
  <2> QED  BY <1>1, <2>5, <2>7, <2>8, <2>9 DEF RowsRight, PageOf
<1> QED  BY <1>6, <1>7

LEMMA RemovedLists ==
  ASSUME FavTypes, Numbered, Listing, Loads, Removed, Clean' => Clean
  PROVE  Listing' /\ Loads'
<1>1. UNCHANGED <<favs, chat>> /\ drop' = Unasked /\ drop.pc = "removed" /\ drop # Unasked
  BY DEF Removed, Unasked
<1>2. board'.loads = board.loads /\ board'.filter = board.filter /\ board'.page = board.page
  BY DEF Removed, FavTypes, Board
<1>3. Loads'
  BY <1>1, <1>2, LoadsLess
<1>4. SUFFICES ASSUME ~chat'.open, board'.loads = {}, Clean'
               PROVE  RowsRight'
  BY <1>3 DEF Listing
<1>5. Fading' = {}
  BY <1>1 DEF Fading, Unasked
<1> DEFINE M == Matching(board.filter)
<1>6. Matching(board.filter)' = M
  BY <1>1, <1>2 DEF Matching
<1>7. CASE ~drop.here
  <2>1. Fading = {} /\ ~Doomed /\ board' = board
    BY <1>7 DEF Fading, Doomed, Removed
  <2>2. RowsRight
    BY <1>1, <1>2, <1>4, <2>1 DEF Listing
  <2> QED  BY <1>5, <1>6, <2>1, <2>2 DEF RowsRight, PageOf
<1>8. CASE drop.here
  <2>1. PICK g \in board.rows : g.id = drop.id
    BY <1>4, <1>8 DEF Removed, Clean, Slip, FavTypes, Past
  <2>2. RowsRight
    BY <1>1, <1>2, <1>4, <2>1 DEF Listing, Doomed
  <2>3. Fading = {g} /\ {f \in board.rows : f.id = drop.id} = {g}
    BY <1>1, <1>8, <2>1, <2>2 DEF Fading, RowsRight
  <2>4. g \notin M
    BY <1>1, <2>1 DEF Numbered, Matching
  <2>5. IsFiniteSet(M) /\ Cardinality(M) \in Nat /\ Cardinality(M \union {g}) = Cardinality(M) + 1
    BY <2>4, ListTyped, FS_AddElement DEF FavTypes, Board
  <2>6. /\ board.rows = PageOf(M \union {g} \union board.cut, board.page) \ board.cut
        /\ board.total = Cardinality(M) + 1
    BY <2>2, <2>3, <2>5 DEF RowsRight
  <2>7. board'.rows = board.rows \ {g} /\ board'.cut = board.cut \union {g}
    BY <1>8, <2>3 DEF Removed, FavTypes, Board
  <2>8. board'.total = IF board.total > 0 THEN board.total - 1 ELSE 0
    BY <1>8 DEF Removed, FavTypes, Board
  <2>9. board'.total = Cardinality(M)
    BY <2>5, <2>6, <2>8
  <2>10. board'.rows = PageOf(M \union {} \union board'.cut, board.page) \ board'.cut
    <3>1. M \union {g} \union board.cut = M \union {} \union board'.cut
      BY <2>7
    <3> QED  BY <2>6, <2>7, <3>1
  <2>11. M \union {} = M
    OBVIOUS
  <2> HIDE DEF M
  <2> QED  BY <1>2, <1>5, <1>6, <2>9, <2>10, <2>11 DEF RowsRight, PageOf
<1> QED  BY <1>7, <1>8

LEMMA ShowLists ==
  ASSUME FavTypes, Numbered, Listing, Loads, NEW l \in board.loads, Show(l), Clean' => Clean
  PROVE  Listing' /\ Loads'
<1>1. UNCHANGED <<favs, chat, drop>> /\ l.pc = "read"
  BY DEF Show
<1>2. /\ board'.loads = board.loads \ {l} /\ board'.filter = board.filter /\ board'.page = board.page
      /\ board'.rows = l.rows /\ board'.total = l.total /\ board'.cut = {}
  BY DEF Show, FavTypes, Board
<1>3. Loads'
  BY <1>1, <1>2, LoadsLess
<1>4. SUFFICES ASSUME ~chat'.open, board'.loads = {}, Clean'
               PROVE  RowsRight'
  BY <1>3 DEF Listing
<1> DEFINE M == Matching(board.filter)
<1>5. l.filter = board.filter /\ l.page = board.page /\ l.rows \subseteq favs /\ l.total = Cardinality(M)
  BY <1>4 DEF Show, Clean, Slip, FavTypes, Past
<1>6. PICK all : /\ IsFiniteSet(all) /\ M \subseteq all
                 /\ l.rows = PageOf(all, l.page) /\ l.total = Cardinality(all)
  BY <1>1, <1>4, <1>5 DEF Loads
<1>7. all = M
  BY <1>5, <1>6, FS_Subset
<1>8. Fading' = {}
  BY <1>1, <1>2, <1>5 DEF Fading, Numbered
<1>9. Matching(board.filter)' = M
  BY <1>1, <1>2 DEF Matching
<1>10. M \union {} = M /\ M \union {} \union {} = M
  OBVIOUS
<1> HIDE DEF M
<1>11. l.rows = PageOf(M, board.page) \ {}
  BY <1>5, <1>6, <1>7
<1> QED  BY <1>2, <1>5, <1>8, <1>9, <1>10, <1>11 DEF RowsRight, PageOf

LEMMA LoadingLists ==
  ASSUME FavTypes, Loads, Clean' => Clean, NEW filter, NEW p, NEW old \in BOOLEAN, Loading(filter, p, old),
         old => chat'.open = chat.open
  PROVE  Listing' /\ Loads'
<1>1. PICK r : /\ r.pc = "sent" /\ UNCHANGED favs
               /\ board'.loads = (IF old THEN board.loads ELSE {}) \union {r}
  BY DEF Loading
<1>2. board'.loads # {}
  BY <1>1
<1>3. ASSUME NEW l \in board'.loads, l.pc = "read", ~chat'.open, Clean'
      PROVE  \E all : /\ IsFiniteSet(all) /\ Matching(l.filter)' \subseteq all
                      /\ l.rows = PageOf(all, l.page) /\ l.total = Cardinality(all)
  <2>1. old /\ l \in board.loads
    BY <1>1, <1>3
  <2>2. PICK all : /\ IsFiniteSet(all) /\ Matching(l.filter) \subseteq all
                   /\ l.rows = PageOf(all, l.page) /\ l.total = Cardinality(all)
    BY <1>3, <2>1 DEF Loads
  <2>3. Matching(l.filter)' = Matching(l.filter)
    BY <1>1 DEF Matching
  <2> QED  BY <2>2, <2>3
<1> QED  BY <1>2, <1>3 DEF Listing, Loads, PageOf, Matching

LEMMA ListLists ==
  ASSUME FavTypes, Loads, NEW l \in board.loads, List(l), Clean' => Clean
  PROVE  Listing' /\ Loads'
<1> DEFINE r == [n |-> l.n, pc |-> "read", filter |-> l.filter, page |-> l.page,
                 rows |-> PageOf(Matching(l.filter), l.page), total |-> Cardinality(Matching(l.filter))]
<1>1. UNCHANGED <<favs, chat>> /\ board'.loads = (board.loads \ {l}) \union {r}
  BY DEF List, FavTypes, Board
<1>2. l.filter \in Whence
  BY DEF List, FavTypes, Board, Request, Reply
<1>3. IsFiniteSet(Matching(l.filter))
  BY <1>2, ListTyped
<1>4. /\ r.filter = l.filter /\ r.page = l.page /\ r.rows = PageOf(Matching(l.filter), l.page)
      /\ r.total = Cardinality(Matching(l.filter))
  OBVIOUS
<1> HIDE DEF r
<1>5. ASSUME NEW k \in board'.loads, k.pc = "read", ~chat'.open, Clean'
      PROVE  \E all : /\ IsFiniteSet(all) /\ Matching(k.filter)' \subseteq all
                      /\ k.rows = PageOf(all, k.page) /\ k.total = Cardinality(all)
  <2>1. Matching(k.filter)' = Matching(k.filter)
    BY <1>1 DEF Matching
  <2>2. CASE k = r
    <3>1. /\ IsFiniteSet(Matching(k.filter)) /\ Matching(k.filter)' \subseteq Matching(k.filter)
          /\ k.rows = PageOf(Matching(k.filter), k.page) /\ k.total = Cardinality(Matching(k.filter))
      BY <1>3, <1>4, <2>1, <2>2
    <3> QED  BY <3>1
  <2>3. CASE k \in board.loads
    BY <1>1, <1>5, <2>1, <2>3 DEF Loads
  <2> QED  BY <1>1, <2>2, <2>3
<1> QED  BY <1>1, <1>5 DEF Listing, Loads, PageOf, Matching

LEMMA ListingStep ==
  ASSUME FavTypes, Numbered, Left, Listing, Loads, FavNext
  PROVE  Listing' /\ Loads'
<1> USE DEF FavTypes
<1>0. Clean' => Clean
  BY CleanBefore
<1>1. ASSUME NEW t \in Turn, \/ AskTurn(t) \/ AnswerTurn(t) \/ Read(t) \/ HandleFavorite(t) \/ Starred(t) \/ AddFails(t)
      PROVE  Listing' /\ Loads'
  <2>1. UNCHANGED <<favs, board, drop>> /\ chat'.open = chat.open
    BY <1>1 DEF AskTurn, AnswerTurn, Read, HandleFavorite, Starred, AddFails, Stars
  <2> QED  BY <1>0, <2>1, ListFrame
<1>2. ASSUME NEW t \in Turn, Create(t)
      PROVE  Listing' /\ Loads'
  <2>1. UNCHANGED <<board, drop, chat>>
    BY <1>2 DEF Create
  <2>2. CASE UNCHANGED favs
    BY <1>0, <2>1, <2>2, ListFrame
  <2>3. CASE \A f \in favs : f.turn # t
    <3>1. Clean' => add[t].here /\ add[t] # Unasked
      BY <1>2, <2>3, CreateSlips
    <3>2. ~chat'.open => ~Clean'
      BY <2>1, <3>1 DEF Left
    <3> QED  BY <3>2 DEF Listing, Loads
  <2> QED  BY <1>2, <2>2, <2>3 DEF Create
<1>3. ASSUME TimeGoes \/ Forget \/ ListIds \/ ShowIds
      PROVE  Listing' /\ Loads'
  <2>1. UNCHANGED <<favs, board, drop>> /\ chat'.open = chat.open
    BY <1>3 DEF TimeGoes, Forget, ListIds, ShowIds, Stars
  <2> QED  BY <1>0, <2>1, ListFrame
<1>4. CASE RemoveCopy
  BY <1>0, <1>4, RemoveCopyLists
<1>5. CASE OpenChat
  <2>1. chat'.open
    BY <1>5 DEF OpenChat, Stars
  <2> QED  BY <2>1 DEF Listing, Loads
<1>6. CASE OpenBoard
  BY <1>0, <1>6, LoadingLists DEF OpenBoard
<1>7. CASE Removed
  BY <1>0, <1>7, RemovedLists
<1>8. ASSUME NEW filter, HandleFilterChange(filter) \/ TurnPage(filter)
      PROVE  Listing' /\ Loads'
  BY <1>0, <1>8, LoadingLists DEF HandleFilterChange, TurnPage
<1>9. ASSUME NEW l \in board.loads, List(l) \/ Show(l)
      PROVE  Listing' /\ Loads'
  BY <1>0, <1>9, ListLists, ShowLists
<1>10. ASSUME NEW l \in board.loads, LoadFails(l)
       PROVE  Listing' /\ Loads'
  <2>1. ~Clean'
    BY <1>10 DEF LoadFails, Clean, Slip, Past
  <2> QED  BY <2>1 DEF Listing, Loads
<1>11. ASSUME NEW f \in favs, HandleRemove(f)
       PROVE  Listing' /\ Loads'
  <2>1. UNCHANGED <<favs, board, chat>> /\ drop = Unasked /\ drop'.pc = "sent"
    BY <1>11 DEF HandleRemove
  <2>2. Fading = {} /\ Fading' = {} /\ ~Doomed
    BY <2>1 DEF Fading, Doomed, Unasked
  <2>3. Matching(board.filter)' = Matching(board.filter)
    BY <2>1 DEF Matching
  <2>4. RowsRight => RowsRight'
    BY <2>1, <2>2, <2>3 DEF RowsRight, PageOf
  <2>5. Loads'
    BY <1>0, <2>1, LoadsLess
  <2> QED  BY <1>0, <2>1, <2>2, <2>4, <2>5 DEF Listing
<1> QED  BY <1>1, <1>2, <1>3, <1>4, <1>5, <1>6, <1>7, <1>8, <1>9, <1>10, <1>11 DEF FavNext

-----------------------------------------------------------------------------
LEMMA FavStep ==
  ASSUME FavouriteAssumption, FavInv, [FavNext]_favVars
  PROVE  FavInv'
<1> USE DEF FavInv, TalkInv
<1>1. CASE FavNext
  <2>1. FavTypes' /\ InOrder' /\ InTime'
    BY <1>1, FavTypesStep, OrderStep
  <2>2. CopiesRead' /\ CopiesKept' /\ Numbered' /\ Left'
    BY <1>1, CopiesStep, NumberedStep, LeftStep
  <2>3. Starry' /\ Listing' /\ Loads'
    BY <1>1, StarryStep, ListingStep
  <2> QED  BY <2>1, <2>2, <2>3
<1>2. CASE UNCHANGED favVars
  <2>1. UNCHANGED <<said, favs, add, drop, chat, board, past>>
    BY <1>2 DEF favVars
  <2>2. FavTypes' /\ InOrder' /\ InTime' /\ CopiesRead' /\ CopiesKept' /\ Numbered' /\ Left'
    BY <2>1 DEF FavTypes, InOrder, InTime, CopiesRead, CopiesKept, Numbered, Left
  <2>3. Starry'
    BY <2>1 DEF Starry, Marked, Clean
  <2>4. Listing' /\ Loads'
    BY <2>1, ListFrame DEF Clean
  <2> QED  BY <2>2, <2>3, <2>4
<1> QED  BY <1>1, <1>2

LEMMA FavInvSound == FavInv => FavouritesSound
<1> SUFFICES ASSUME FavInv PROVE FavouritesSound
  OBVIOUS
<1> USE DEF FavInv, TalkInv
<1>1. CopiesMatch
  BY DEF CopiesKept, CopiesMatch
<1>2. StarsTrue
  <2>1. ASSUME chat.open, chat.ids = Unasked, add = [t \in Turn |-> Unasked], past.visits > 0, Clean
        PROVE  chat.on = Marked
    <3>1. Marked \subseteq Turn
      BY DEF Marked, FavTypes, Kept
    <3>2. \A t \in Marked \ chat.on : FALSE
      BY <2>1, <3>1 DEF Starry, Unasked
    <3> QED  BY <2>1, <3>2 DEF Starry
  <2> QED  BY <2>1 DEF StarsTrue
<1>3. BoardTrue
  <2>1. ASSUME ~chat.open, board.loads = {}, drop = Unasked, Clean
        PROVE  /\ board.rows = PageOf(Matching(board.filter) \union board.cut, board.page) \ board.cut
               /\ board.total = Cardinality(Matching(board.filter))
    <3>1. Fading = {} /\ ~Doomed
      BY <2>1 DEF Fading, Doomed, Unasked
    <3>2. RowsRight
      BY <2>1, <3>1 DEF Listing
    <3>3. Matching(board.filter) \union {} = Matching(board.filter)
      OBVIOUS
    <3> QED  BY <3>1, <3>2, <3>3 DEF RowsRight
  <2> QED  BY <2>1 DEF BoardTrue
<1> QED  BY <1>1, <1>2, <1>3 DEF FavouritesSound

\* For any number of turns, libraries and copies and any size of a page: a copy
\* has the question its answer answers unless the two were of one time or another
\* came between; and while no call failed, was overtaken or told a page that had
\* gone on, the stars are those of the answers kept, and the page of copies shows
\* its part of them and counts all
\* (favorite.service.ts create, ChatView.vue, FavoritesView.vue).
THEOREM FavouritesAlwaysSound == FavSpec => []FavouritesSound
<1>1. FavInit => FavInv
  BY FavInitial, FavouriteAssumption
<1>2. FavInv /\ [FavNext]_favVars => FavInv'
  BY FavStep, FavouriteAssumption
<1>3. FavInv => FavouritesSound
  BY FavInvSound
<1> QED  BY <1>1, <1>2, <1>3, PTL DEF FavSpec

-----------------------------------------------------------------------------
(* Figures: sums of counts                                                  *)

\* The counts of the groups of a set have its size as their sum.
LEMMA SumOfGroups ==
  ASSUME NEW S, IsFiniteSet(S), NEW g, NEW D, NEW c, DOMAIN c = D,
         \A d \in D : c[d] = Cardinality({a \in S : g[a] = d})
  PROVE  /\ IsFiniteSet(Counted(c))
         /\ Sum(c) = Cardinality({a \in S : g[a] \in D})
<1> DEFINE Of(d) == {a \in S : g[a] = d}
           T == {a \in S : g[a] \in D}
           b == [d \in D |-> CHOOSE h : h \in Bijection(1 .. c[d], Of(d))]
           m == [p \in Counted(c) |-> b[p[1]][p[2]]]
<1>1. ASSUME NEW d \in D
      PROVE  b[d] \in Bijection(1 .. c[d], Of(d)) /\ c[d] \in Nat
  <2>1. IsFiniteSet(Of(d))
    BY FS_Subset
  <2>2. ExistsBijection(1 .. c[d], Of(d)) /\ c[d] \in Nat
    BY <2>1, FS_CardinalityType
  <2> HIDE DEF Of
  <2> QED  BY <2>2 DEF ExistsBijection
<1>2. ASSUME NEW d \in D
      PROVE  /\ \A i \in 1 .. c[d] : b[d][i] \in Of(d)
             /\ \A i, j \in 1 .. c[d] : b[d][i] = b[d][j] => i = j
             /\ \A a \in Of(d) : \E i \in 1 .. c[d] : b[d][i] = a
  <2> HIDE DEF Of, b
  <2> QED  BY <1>1, Fun_BijectionProperties, Fun_InjectionProperties
<1>3. \A p : p \in Counted(c) <=> \E d \in D : \E i \in 1 .. c[d] : p = <<d, i>>
  BY DEF Counted
<1>4. ASSUME NEW d \in D, NEW i \in 1 .. c[d]
      PROVE  <<d, i>> \in Counted(c) /\ m[<<d, i>>] = b[d][i]
  <2>1. <<d, i>> \in Counted(c)
    BY <1>3
  <2> HIDE DEF b
  <2> QED  BY <2>1
<1> HIDE DEF b, m
<1>5. \A p \in Counted(c) : m[p] \in T
  BY <1>2, <1>3, <1>4
<1>6. ASSUME NEW p \in Counted(c), NEW q \in Counted(c), m[p] = m[q]
      PROVE  p = q
  <2>1. PICK d \in D : \E i \in 1 .. c[d] : p = <<d, i>>
    BY <1>3
  <2>2. PICK i \in 1 .. c[d] : p = <<d, i>>
    BY <2>1
  <2>3. PICK e \in D : \E j \in 1 .. c[e] : q = <<e, j>>
    BY <1>3
  <2>4. PICK j \in 1 .. c[e] : q = <<e, j>>
    BY <2>3
  <2>5. b[d][i] \in Of(d) /\ b[e][j] \in Of(e) /\ b[d][i] = b[e][j]
    BY <1>2, <1>4, <1>6, <2>2, <2>4
  <2>6. d = e
    BY <2>5
  <2> QED  BY <1>2, <2>2, <2>4, <2>5, <2>6
<1>7. \A a \in T : \E p \in Counted(c) : m[p] = a
  <2>1. ASSUME NEW a \in T
        PROVE  \E p \in Counted(c) : m[p] = a
    <3>1. g[a] \in D /\ a \in Of(g[a])
      OBVIOUS
    <3>2. PICK i \in 1 .. c[g[a]] : b[g[a]][i] = a
      BY <1>2, <3>1
    <3>3. <<g[a], i>> \in Counted(c) /\ m[<<g[a], i>>] = b[g[a]][i]
      BY <1>4, <3>1
    <3> QED  BY <3>2, <3>3
  <2> QED  BY <2>1
<1>8. m \in [Counted(c) -> T]
  <2>1. m = [p \in Counted(c) |-> m[p]]
    BY DEF m
  <2> HIDE DEF T
  <2> QED  BY <1>5, <2>1
<1>9. ExistsBijection(Counted(c), T)
  <2> HIDE DEF T
  <2>1. m \in Bijection(Counted(c), T)
    BY <1>5, <1>6, <1>7, <1>8, Fun_IsBij
  <2> QED  BY <2>1 DEF ExistsBijection
<1>10. IsFiniteSet(T)
  BY FS_Subset
<1> HIDE DEF T
<1>11. ExistsBijection(T, Counted(c))
  BY <1>9, Fun_ExistsBijSymmetric
<1>12. IsFiniteSet(Counted(c)) /\ Cardinality(Counted(c)) = Cardinality(T)
  BY <1>10, <1>11, FS_Bijection
<1> QED  BY <1>12 DEF Sum, T

LEMMA SumGrouped ==
  ASSUME NEW S, IsFiniteSet(S), NEW g
  PROVE  Sum(Grouped(S, g)) = Cardinality(S)
<1> DEFINE c == Grouped(S, g)
           D == {g[a] : a \in S}
<1>1. DOMAIN c = D /\ \A d \in D : c[d] = Cardinality({a \in S : g[a] = d})
  BY DEF Grouped
<1>2. Sum(c) = Cardinality({a \in S : g[a] \in D})
  <2> HIDE DEF c, D
  <2> QED  BY <1>1, SumOfGroups
<1>3. {a \in S : g[a] \in D} = S
  OBVIOUS
<1> QED  BY <1>2, <1>3

\* A function into numbers on a finite set has finitely many things to count.
LEMMA CountedFinite ==
  ASSUME NEW c, IsFiniteSet(DOMAIN c), \A k \in DOMAIN c : c[k] \in Nat
  PROVE  IsFiniteSet(Counted(c))
<1> DEFINE P(k) == {k} \X (1 .. c[k])
           T == {P(k) : k \in DOMAIN c}
           m == [k \in DOMAIN c |-> P(k)]
<1>1. m \in Surjection(DOMAIN c, T)
  BY DEF Surjection
<1>2. IsFiniteSet(T)
  <2> HIDE DEF m, T
  <2> QED  BY <1>1, FS_Surjection
<1>3. ASSUME NEW k \in DOMAIN c
      PROVE  IsFiniteSet(P(k))
  <2>1. IsFiniteSet({k})
    BY FS_Singleton
  <2>2. PICK n \in Nat : n = c[k]
    BY <1>3
  <2>3. IsFiniteSet(1 .. n)
    BY FS_Interval
  <2> QED  BY <2>1, <2>2, <2>3, FS_Product
<1>4. \A X \in T : IsFiniteSet(X)
  BY <1>3
<1>5. IsFiniteSet(UNION T)
  <2> HIDE DEF T
  <2> QED  BY <1>2, <1>4, FS_UNION
<1> QED  BY <1>5 DEF Counted

\* A part of the counts has no greater sum.
LEMMA SumOfPart ==
  ASSUME NEW c, NEW e, DOMAIN e \subseteq DOMAIN c, IsFiniteSet(Counted(c)), \A k \in DOMAIN e : e[k] = c[k]
  PROVE  Sum(e) <= Sum(c)
<1>1. Counted(e) \in SUBSET Counted(c)
  BY DEF Counted
<1> QED  BY <1>1, FS_Subset DEF Sum

LEMMA Replaced ==
  ASSUME NEW S, IsFiniteSet(S), NEW a \in S, NEW b, b \notin S \ {a}
  PROVE  Cardinality((S \ {a}) \union {b}) = Cardinality(S) /\ IsFiniteSet((S \ {a}) \union {b})
<1>1. IsFiniteSet(S \ {a}) /\ Cardinality(S \ {a}) = Cardinality(S) - 1 /\ Cardinality(S) \in Nat
  BY FS_RemoveElement, FS_CardinalityType
<1>2. IsFiniteSet((S \ {a}) \union {b}) /\ Cardinality((S \ {a}) \union {b}) = Cardinality(S \ {a}) + 1
  BY <1>1, FS_AddElement
<1> QED  BY <1>1, <1>2

-----------------------------------------------------------------------------
(* Days                                                                     *)

LEMMA DayIs ==
  ASSUME NEW n \in Nat, NEW p \in Nat \ {0}
  PROVE  n \div p \in Nat /\ p * (n \div p) <= n /\ n < p * (n \div p) + p
OBVIOUS

LEMMA DayWithin ==
  ASSUME NEW p \in Nat \ {0}, NEW n \in Nat, NEW m \in Nat, n <= m
  PROVE  n \div p \in 0 .. m \div p
<1>1. PICK d \in Nat : d = n \div p /\ p * d <= n /\ n < p * d + p
  BY DayIs
<1>2. PICK e \in Nat : e = m \div p /\ p * e <= m /\ m < p * e + p
  BY DayIs
<1>3. d <= e
  <2> SUFFICES ASSUME d >= e + 1 PROVE FALSE
    OBVIOUS
  <2>1. p * d >= p * (e + 1)
    OBVIOUS
  <2>2. p * (e + 1) = p * e + p
    OBVIOUS
  <2> QED  BY <1>1, <1>2, <2>1, <2>2
<1> QED  BY <1>1, <1>2, <1>3

\* A day of the calendar that counts is within the hours counted back.
LEMMA DayInRange ==
  ASSUME NEW p \in Nat \ {0}, NEW n \in Nat, NEW made \in Nat, NEW days \in Nat,
         made \div p >= n \div p - (days - 1)
  PROVE  made >= n - p * days
<1>1. PICK d \in Nat : d = made \div p /\ p * d <= made
  BY DayIs
<1>2. PICK e \in Nat : e = n \div p /\ n < p * e + p
  BY DayIs
<1>3. d + days >= e + 1
  BY <1>1, <1>2
<1>4. p * (d + days) >= p * (e + 1)
  BY <1>3
<1>5. p * (d + days) = p * d + p * days /\ p * (e + 1) = p * e + p
  OBVIOUS
<1>6. {p * d, p * e, p * days} \subseteq Nat
  OBVIOUS
<1> QED  BY <1>1, <1>2, <1>4, <1>5, <1>6

-----------------------------------------------------------------------------
(* Figures                                                                  *)

Answered == [n : Nat, by : Asker, model : Model, hit : BOOLEAN, kb : Library \union {NoLibrary}, made : Nat,
             done : BOOLEAN, counted : BOOLEAN, mark : {"none", "like", "dislike"}]
Unread == [pc : {"sent", "reading"}, range : Span, torn : BOOLEAN]

AnswerTypes ==
  /\ answers \subseteq Answered /\ IsFiniteSet(answers)
  /\ daily \in [Day -> [questions : Nat, tokens : Nat]] /\ now \in 0 .. MaxNow
HistoryTypes ==
  /\ history = [asked |-> history.asked, loads |-> history.loads, made |-> history.made,
                apart |-> history.apart, slip |-> history.slip]
  /\ history.asked \in Nat /\ history.loads \in Nat /\ history.apart \in BOOLEAN /\ history.slip \in BOOLEAN
ScreenTypes ==
  /\ screen = [range |-> screen.range, loads |-> screen.loads, shown |-> screen.shown]
  /\ screen.range \in Span
  /\ screen.loads = [k \in DOMAIN screen.loads |-> screen.loads[k]]
  /\ DOMAIN screen.loads \subseteq 1 .. history.loads
  /\ \A k \in DOMAIN screen.loads :
       screen.loads[k] \in Unread \/ (screen.loads[k].pc = "read" /\ screen.loads[k].range \in Span)
FormTypes ==
  /\ reflow = [open |-> reflow.open, n |-> reflow.n, kb |-> reflow.kb, waits |-> reflow.waits,
               offers |-> reflow.offers, pc |-> reflow.pc, sent |-> reflow.sent]
  /\ shelves \subseteq Library
  /\ reflow.pc # "none" => reflow.sent = <<reflow.sent[1], reflow.sent[2]>>

RepTypes == AnswerTypes /\ HistoryTypes /\ ScreenTypes /\ FormTypes

\* Answers have numbers of their own, and are counted once they are done.
AnswersApart ==
  /\ \A a \in answers : a.n <= history.asked /\ (a.counted => a.done)
  /\ \A a, b \in answers : a.n = b.n => a = b

\* What a day has is what its answers cost, until one is counted on another day
\* or deleted.
CostOf(d) == {a \in answers : a.counted /\ ~a.hit /\ DayOf(a.made) = d}
Spent == ~history.apart => \A d \in Day : daily[d].tokens = Cardinality(CostOf(d))

\* What figures say that were not torn.
Agreed(x, apart) ==
  ~x.torn =>
    /\ Sum(x.cost.byModel) = Sum(x.cost.byUser) /\ Sum(x.cost.byModel) = Sum(x.cost.byDept)
    /\ Sum(x.cost.byModel) + x.cost.saved = x.summary.total
    /\ Sum(x.cost.trend) <= x.cost.total
    /\ apart \/ Sum(x.cost.trend) <= Sum(x.cost.byModel)
AllAgreed ==
  /\ \A k \in DOMAIN screen.loads : screen.loads[k].pc = "read" => Agreed(screen.loads[k], history.apart)
  /\ screen.shown # NoFigures => Agreed(screen.shown, history.apart)

\* Cases that were made are there, and the last load lists them as such: so does
\* the page with no load under way.
AsCases(rows, made) == \A item \in rows : <<item.n, "whole">> \in made => item.reflowed
Cased ==
  /\ \A x \in history.made : \E l \in Library : <<l, x>> \in cases
  /\ reflow.pc = "made" => reflow.sent[1] \in Library /\ reflow.sent \in cases
LastLoad ==
  \A k \in DOMAIN screen.loads : (\A j \in DOMAIN screen.loads : j <= k) =>
    /\ screen.loads[k].range = screen.range
    /\ screen.loads[k].pc = "read" => AsCases(screen.loads[k].rows, history.made)
LastShown ==
  screen.shown # NoFigures /\ DOMAIN screen.loads = {} =>
    screen.shown.range = screen.range /\ AsCases(screen.shown.rows, history.made)
OwnBoard == ~history.slip => Cased /\ LastLoad /\ LastShown

RepInv == RepTypes /\ AnswersApart /\ Spent /\ AllAgreed /\ OwnBoard

LEMMA RepInitial == ASSUME ReportAssumption, ReportsInit PROVE RepInv
<1> USE DEF ReportsInit
<1>0. PerDay \in Nat \ {0} /\ MaxNow \in Nat
  BY DEF ReportAssumption
<1>1. AnswerTypes
  <2>1. [questions |-> 0, tokens |-> 0] \in [questions : Nat, tokens : Nat]
    OBVIOUS
  <2>2. daily \in [Day -> [questions : Nat, tokens : Nat]]
    BY <2>1
  <2> QED  BY <1>0, <2>2, FS_EmptySet DEF AnswerTypes
<1>2. DOMAIN screen.loads = {} /\ screen.shown = NoFigures /\ screen.range = Default
  OBVIOUS
<1>3. HistoryTypes /\ FormTypes
  BY DEF HistoryTypes, FormTypes
<1>4. ScreenTypes
  <2>1. screen.loads = [k \in DOMAIN screen.loads |-> screen.loads[k]]
    OBVIOUS
  <2> QED  BY <1>2, <2>1 DEF ScreenTypes, ReportAssumption
<1>5. AnswersApart
  BY DEF AnswersApart
<1>6. Spent
  <2>1. ASSUME NEW d \in Day
        PROVE  daily[d].tokens = Cardinality(CostOf(d))
    <3>1. CostOf(d) = {}
      BY DEF CostOf
    <3> QED  BY <3>1, FS_EmptySet
  <2> QED  BY <2>1 DEF Spent
<1>7. AllAgreed /\ OwnBoard
  BY <1>2 DEF AllAgreed, OwnBoard, Cased, LastLoad, LastShown
<1> QED  BY <1>1, <1>3, <1>4, <1>5, <1>6, <1>7 DEF RepInv, RepTypes

-----------------------------------------------------------------------------
(* Figures that are read at once                                            *)

LEMMA SumOfDays ==
  ASSUME NEW S, IsFiniteSet(S), NEW D, NEW c, DOMAIN c = D,
         \A d \in D : c[d] = Cardinality({a \in S : DayOf(a.made) = d})
  PROVE  Sum(c) = Cardinality({a \in S : DayOf(a.made) \in D})
<1>1. PICK g : \A a \in S : g[a] = DayOf(a.made)
  <2>1. \A a \in S : [b \in S |-> DayOf(b.made)][a] = DayOf(a.made)
    OBVIOUS
  <2> QED  BY <2>1
<1>2. \A d \in D : {a \in S : DayOf(a.made) = d} = {a \in S : g[a] = d}
  BY <1>1
<1>3. \A d \in D : c[d] = Cardinality({a \in S : g[a] = d})
  BY <1>2
<1>4. Sum(c) = Cardinality({a \in S : g[a] \in D})
  BY ONLY IsFiniteSet(S), DOMAIN c = D, <1>3, SumOfGroups
<1>5. {a \in S : g[a] \in D} = {a \in S : DayOf(a.made) \in D}
  BY <1>1
<1> QED  BY <1>4, <1>5

LEMMA FiguresOf ==
  ASSUME ReportAssumption, RepTypes, AnswersApart, Spent, NEW days \in Nat
  PROVE  /\ Sum(ByModel(days)) = Cardinality(Paid(days)) /\ Sum(ByUser(days)) = Cardinality(Paid(days))
         /\ Sum(ByDept(days)) = Cardinality(Paid(days))
         /\ Cardinality(Paid(days)) + CacheSaved(days) = Cardinality(InRange(days))
         /\ Sum(Trend(days)) <= Total
         /\ ~history.apart => Sum(Trend(days)) <= Cardinality(Paid(days))
<1> USE DEF RepTypes, AnswerTypes
<1>0. PerDay \in Nat \ {0} /\ MaxNow \in Nat
  BY DEF ReportAssumption
<1>1. IsFiniteSet(InRange(days)) /\ IsFiniteSet(Paid(days))
  <2>1. InRange(days) \in SUBSET answers /\ Paid(days) \in SUBSET answers
    BY DEF InRange, Paid
  <2> QED  BY <2>1, FS_Subset
<1>2. /\ Sum(ByModel(days)) = Cardinality(Paid(days)) /\ Sum(ByUser(days)) = Cardinality(Paid(days))
      /\ Sum(ByDept(days)) = Cardinality(Paid(days))
  BY <1>1, SumGrouped DEF ByModel, ByUser, ByDept
<1>3. Cardinality(Paid(days)) + CacheSaved(days) = Cardinality(InRange(days))
  <2> DEFINE H == {a \in InRange(days) : a.hit}
  <2>1. H \in SUBSET InRange(days) /\ Paid(days) = InRange(days) \ H /\ InRange(days) \cap H = H
    BY DEF Paid
  <2>2. IsFiniteSet(H) /\ Cardinality(H) \in Nat /\ Cardinality(InRange(days)) \in Nat
    BY <1>1, <2>1, FS_Subset, FS_CardinalityType
  <2>3. Cardinality(InRange(days) \ H) = Cardinality(InRange(days)) - Cardinality(InRange(days) \cap H)
    BY <1>1, FS_Difference
  <2> HIDE DEF H
  <2>4. Cardinality(Paid(days)) = Cardinality(InRange(days)) - Cardinality(H)
    BY <2>1, <2>3
  <2>5. CacheSaved(days) = Cardinality(H)
    BY DEF CacheSaved, H
  <2> QED  BY <2>2, <2>4, <2>5
<1> DEFINE c == [d \in Day |-> daily[d].tokens]
           e == Trend(days)
<1>4. IsFiniteSet(Day)
  <2>1. MaxNow \div PerDay \in Nat
    BY <1>0, DayIs
  <2> QED  BY <2>1, FS_Interval DEF Day
<1>5. DOMAIN c = Day /\ \A d \in Day : c[d] = daily[d].tokens /\ c[d] \in Nat
  OBVIOUS
<1>6. IsFiniteSet(Counted(c))
  <2> HIDE DEF c
  <2> QED  BY <1>4, <1>5, CountedFinite
<1>7. DOMAIN e = DaysBack(days) /\ DaysBack(days) \subseteq Day /\ \A d \in DaysBack(days) : e[d] = daily[d].tokens
  BY DEF Trend, DaysBack
<1>8. Sum(e) <= Sum(c)
  <2> HIDE DEF c, e
  <2> QED  BY <1>5, <1>6, <1>7, SumOfPart
<1>9. ASSUME ~history.apart
      PROVE  Sum(e) <= Cardinality(Paid(days))
  <2> DEFINE S == {a \in answers : a.counted /\ ~a.hit}
             D == DaysBack(days)
             T == {a \in S : DayOf(a.made) \in D}
  <2>1. IsFiniteSet(S)
    BY FS_Subset
  <2>2. ASSUME NEW d \in DaysBack(days)
        PROVE  e[d] = Cardinality({a \in S : DayOf(a.made) = d})
    <3>1. {a \in S : DayOf(a.made) = d} = CostOf(d)
      BY DEF CostOf
    <3> QED  BY <1>7, <1>9, <2>2, <3>1 DEF Spent
  <2>3. Sum(e) = Cardinality(T)
    <3> HIDE DEF S, e
    <3>1. DOMAIN e = D /\ \A d \in D : e[d] = Cardinality({a \in S : DayOf(a.made) = d})
      BY <1>7, <2>2
    <3> HIDE DEF D
    <3> QED  BY <2>1, <3>1, SumOfDays
  <2>4. T \in SUBSET Paid(days)
    <3>1. ASSUME NEW a \in T
          PROVE  a \in Paid(days)
      <4>1. a \in answers /\ a.counted /\ ~a.hit /\ DayOf(a.made) >= DayOf(now) - (days - 1)
        BY DEF DaysBack
      <4>2. a.made \in Nat /\ now \in Nat
        BY <1>0, <4>1 DEF Answered
      <4>3. a.made >= now - PerDay * days
        BY <1>0, <4>1, <4>2, DayInRange DEF DayOf
      <4>4. a.done
        BY <4>1 DEF AnswersApart
      <4> QED  BY <4>1, <4>3, <4>4 DEF Paid, InRange
    <3> QED  BY <3>1
  <2> HIDE DEF T, e
  <2> QED  BY <1>1, <2>3, <2>4, FS_Subset
<1> QED  BY <1>2, <1>3, <1>8, <1>9 DEF Total

-----------------------------------------------------------------------------
(* Answers and days                                                         *)

LEMMA NowIsDay ==
  ASSUME ReportAssumption, AnswerTypes
  PROVE  DayOf(now) \in Day
<1>1. now \in Nat /\ MaxNow \in Nat /\ PerDay \in Nat \ {0} /\ now <= MaxNow
  BY DEF AnswerTypes, ReportAssumption
<1> QED  BY <1>1, DayWithin DEF DayOf, Day

\* An answer that is replaced by one of its number.
Same(a, b) == b \in Answered /\ b.n = a.n /\ b.hit = a.hit /\ b.made = a.made

LEMMA ChangedIs ==
  ASSUME NEW a \in Answered, NEW mark \in {"none", "like", "dislike"}
  PROVE  /\ Same(a, [a EXCEPT !.done = TRUE]) /\ [a EXCEPT !.done = TRUE].done
         /\ [a EXCEPT !.done = TRUE].counted = a.counted
         /\ Same(a, [a EXCEPT !.counted = TRUE]) /\ [a EXCEPT !.counted = TRUE].counted
         /\ [a EXCEPT !.counted = TRUE].done = a.done
         /\ Same(a, [a EXCEPT !.mark = mark]) /\ [a EXCEPT !.mark = mark].counted = a.counted
         /\ [a EXCEPT !.mark = mark].done = a.done
BY DEF Same, Answered

LEMMA BecomesStep ==
  ASSUME AnswerTypes, AnswersApart, NEW a \in answers, NEW b \in Answered, b.n = a.n, b.counted => b.done,
         Becomes(a, b), history'.asked = history.asked
  PROVE  /\ answers' \subseteq Answered /\ IsFiniteSet(answers') /\ AnswersApart'
         /\ b \in answers => b = a
<1>1. answers' = (answers \ {a}) \union {b}
  BY DEF Becomes
<1>2. IsFiniteSet(answers') /\ answers' \subseteq Answered
  BY <1>1, FS_RemoveElement, FS_AddElement DEF AnswerTypes
<1> QED  BY <1>1, <1>2 DEF AnswersApart

LEMMA AnswersStep ==
  ASSUME ReportAssumption, RepTypes, AnswersApart, ReportsNext
  PROVE  AnswerTypes' /\ AnswersApart'
<1> USE DEF RepTypes, AnswerTypes
<1>1. CASE Ask
  <2>1. PICK r \in Answered : answers' = answers \union {r} /\ r.n = history.asked + 1 /\ ~r.counted
    <3>1. PICK by \in Asker, model \in Model, hit \in BOOLEAN, kb \in Library \union {NoLibrary} :
            answers' = answers \union {[n |-> history.asked + 1, by |-> by, model |-> model, hit |-> hit, kb |-> kb,
                                   made |-> now, done |-> FALSE, counted |-> FALSE, mark |-> "none"]}
      BY <1>1 DEF Ask
    <3> DEFINE r == [n |-> history.asked + 1, by |-> by, model |-> model, hit |-> hit, kb |-> kb,
                     made |-> now, done |-> FALSE, counted |-> FALSE, mark |-> "none"]
    <3>2. history.asked + 1 \in Nat /\ now \in Nat
      BY DEF HistoryTypes, ReportAssumption
    <3>3. r \in Answered /\ r.n = history.asked + 1 /\ ~r.counted
      BY <3>2 DEF Answered
    <3>4. answers' = answers \union {r}
      BY <3>1
    <3> HIDE DEF r
    <3> QED  BY <3>3, <3>4
  <2>2. UNCHANGED <<daily, now>>
    BY <1>1 DEF Ask
  <2>3. AnswerTypes'
    BY <2>1, <2>2, FS_AddElement
  <2>4. PICK n \in Nat : n = history.asked /\ history'.asked = n + 1
    BY <1>1 DEF Ask, HistoryTypes
  <2>5. \A a \in answers : a.n \in Nat /\ a.n <= n
    BY <2>4 DEF AnswersApart, Answered
  <2>6. \A a \in answers' : a.n <= history'.asked /\ (a.counted => a.done)
    BY <2>1, <2>4, <2>5 DEF AnswersApart
  <2>7. \A a, b \in answers' : a.n = b.n => a = b
    BY <2>1, <2>4, <2>5 DEF AnswersApart
  <2> QED  BY <2>3, <2>6, <2>7 DEF AnswersApart
<1>2. ASSUME NEW a \in answers, NEW mark \in {"none", "like", "dislike"}, Done(a) \/ Feedback(a, mark)
      PROVE  AnswerTypes' /\ AnswersApart'
  <2>1. a \in Answered /\ UNCHANGED <<daily, now, history>>
    BY <1>2 DEF Done, Feedback
  <2>2. CASE Done(a)
    <3> DEFINE b == [a EXCEPT !.done = TRUE]
    <3>1. Becomes(a, b)
      BY <2>2 DEF Done
    <3>2. Same(a, b) /\ b.done
      BY <2>1, ChangedIs
    <3> HIDE DEF b
    <3> QED  BY <2>1, <3>1, <3>2, BecomesStep DEF Same
  <2>3. CASE Feedback(a, mark)
    <3> DEFINE b == [a EXCEPT !.mark = mark]
    <3>1. Becomes(a, b) /\ a.done
      BY <2>3 DEF Feedback
    <3>2. Same(a, b) /\ b.done
      BY <2>1, <3>1, ChangedIs
    <3> HIDE DEF b
    <3> QED  BY <2>1, <3>1, <3>2, BecomesStep DEF Same
  <2> QED  BY <1>2, <2>2, <2>3
<1>3. ASSUME NEW a \in answers, CountDaily(a)
      PROVE  AnswerTypes' /\ AnswersApart'
  <2>1. a \in Answered /\ a.done /\ UNCHANGED now /\ history'.asked = history.asked
    BY <1>3 DEF CountDaily, HistoryTypes
  <2> DEFINE b == [a EXCEPT !.counted = TRUE]
  <2>0. Same(a, b) /\ b.done = a.done
    BY <2>1, ChangedIs
  <2>2. Becomes(a, b) /\ Same(a, b) /\ b.done
    BY <1>3, <2>0, <2>1 DEF CountDaily
  <2> HIDE DEF b
  <2>3. DayOf(now) \in Day
    BY NowIsDay
  <2>4. daily[DayOf(now)].questions + 1 \in Nat
        /\ daily[DayOf(now)].tokens + (IF a.hit THEN 0 ELSE 1) \in Nat
    BY <2>3
  <2>5. daily' \in [Day -> [questions : Nat, tokens : Nat]]
    BY <1>3, <2>4 DEF CountDaily
  <2> QED  BY <2>1, <2>2, <2>5, BecomesStep DEF Same
<1>4. CASE Delete
  <2>1. UNCHANGED <<daily, now>> /\ answers' = {}
    BY <1>4 DEF Delete
  <2> QED  BY <2>1, FS_EmptySet DEF AnswersApart
<1>5. CASE TimePasses
  <2>1. UNCHANGED <<daily, answers, history>> /\ now' = now + 1 /\ now < MaxNow
    BY <1>5 DEF TimePasses
  <2>2. now' \in 0 .. MaxNow
    BY <2>1 DEF ReportAssumption
  <2> QED  BY <2>1, <2>2 DEF AnswersApart
<1>6. ASSUME UNCHANGED <<answers, daily, now>>, history'.asked = history.asked
      PROVE  AnswerTypes' /\ AnswersApart'
  BY <1>6 DEF AnswersApart
<1>7. CASE DropLibrary
  BY <1>6, <1>7 DEF DropLibrary, HistoryTypes
<1>8. ASSUME NEW range \in Span, LoadAll(range)
      PROVE  AnswerTypes' /\ AnswersApart'
  BY <1>6, <1>8 DEF LoadAll, HistoryTypes
<1>9. ASSUME NEW l \in DOMAIN screen.loads, BeginRead(l) \/ EndRead(l) \/ ShowFigures(l) \/ FiguresFail(l)
      PROVE  AnswerTypes' /\ AnswersApart'
  BY <1>6, <1>9 DEF BeginRead, EndRead, ShowFigures, FiguresFail, HistoryTypes
<1>10. ASSUME NEW item, OpenReflow(item)
       PROVE  AnswerTypes' /\ AnswersApart'
  BY <1>6, <1>10 DEF OpenReflow
<1>11. ASSUME OptionsCome \/ ChooseLibrary \/ CloseReflow \/ SubmitReflow \/ CreateCase
       PROVE  AnswerTypes' /\ AnswersApart'
  BY <1>6, <1>11 DEF OptionsCome, ChooseLibrary, CloseReflow, SubmitReflow, CreateCase
<1>12. CASE CaseMade
  BY <1>6, <1>12 DEF CaseMade, HistoryTypes
<1> QED  BY <1>1, <1>2, <1>3, <1>4, <1>5, <1>7, <1>8, <1>9, <1>10, <1>11, <1>12 DEF ReportsNext

\* What the days cost when an answer is replaced.
LEMMA CostBecomes ==
  ASSUME NEW a \in answers, NEW b, Becomes(a, b), NEW d
  PROVE  CostOf(d)' = (CostOf(d) \ {a}) \union
                      {c \in {b} : c.counted /\ ~c.hit /\ DayOf(c.made) = d}
BY DEF Becomes, CostOf, DayOf

LEMMA SpentStep ==
  ASSUME ReportAssumption, RepTypes, AnswersApart, Spent, ReportsNext
  PROVE  Spent'
<1> USE DEF RepTypes, AnswerTypes
<1>0. \A d : IsFiniteSet(CostOf(d))
  <2>1. \A d : CostOf(d) \in SUBSET answers
    BY DEF CostOf
  <2> QED  BY <2>1, FS_Subset
<1>1. CASE Ask
  <2>1. UNCHANGED daily /\ history'.apart = history.apart
    BY <1>1 DEF Ask, HistoryTypes
  <2>2. PICK r : answers' = answers \union {r} /\ ~r.counted
    <3>1. PICK by, model, hit, kb :
            answers' = answers \union {[n |-> history.asked + 1, by |-> by, model |-> model, hit |-> hit, kb |-> kb,
                                   made |-> now, done |-> FALSE, counted |-> FALSE, mark |-> "none"]}
      BY <1>1 DEF Ask
    <3> DEFINE r == [n |-> history.asked + 1, by |-> by, model |-> model, hit |-> hit, kb |-> kb,
                     made |-> now, done |-> FALSE, counted |-> FALSE, mark |-> "none"]
    <3>2. answers' = answers \union {r} /\ ~r.counted
      BY <3>1
    <3> HIDE DEF r
    <3> QED  BY <3>2
  <2>3. \A d : CostOf(d)' = CostOf(d)
    BY <2>2 DEF CostOf, DayOf
  <2> QED  BY <2>1, <2>3 DEF Spent
<1>2. ASSUME NEW a \in answers, Done(a)
      PROVE  Spent'
  <2>1. a \in Answered /\ ~a.counted /\ UNCHANGED <<daily, history>>
    BY <1>2 DEF Done, AnswersApart
  <2> DEFINE b == [a EXCEPT !.done = TRUE]
  <2>2. Becomes(a, b) /\ ~b.counted
    BY <1>2, <2>1, ChangedIs DEF Done
  <2> HIDE DEF b
  <2>3. ASSUME NEW d
        PROVE  CostOf(d)' = CostOf(d)
    <3>1. CostOf(d)' = (CostOf(d) \ {a}) \union {c \in {b} : c.counted /\ ~c.hit /\ DayOf(c.made) = d}
      BY <2>2, CostBecomes
    <3>2. a \notin CostOf(d)
      BY <2>1 DEF CostOf
    <3> QED  BY <2>2, <3>1, <3>2
  <2> QED  BY <2>1, <2>3 DEF Spent
<1>3. ASSUME NEW a \in answers, NEW mark \in {"none", "like", "dislike"}, Feedback(a, mark)
      PROVE  Spent'
  <2>1. a \in Answered /\ UNCHANGED <<daily, history>>
    BY <1>3 DEF Feedback
  <2> DEFINE b == [a EXCEPT !.mark = mark]
  <2>2. Becomes(a, b) /\ b.n = a.n /\ b.counted = a.counted /\ b.hit = a.hit /\ b.made = a.made
    BY <1>3, <2>1, ChangedIs DEF Feedback, Same
  <2> HIDE DEF b
  <2>3. ASSUME NEW d
        PROVE  Cardinality(CostOf(d)') = Cardinality(CostOf(d))
    <3>1. CostOf(d)' = (CostOf(d) \ {a}) \union {c \in {b} : c.counted /\ ~c.hit /\ DayOf(c.made) = d}
      BY <2>2, CostBecomes
    <3>2. CASE a \in CostOf(d)
      <4>1. CostOf(d)' = (CostOf(d) \ {a}) \union {b}
        BY <2>2, <3>1, <3>2 DEF CostOf
      <4>2. b \notin CostOf(d) \ {a}
        BY <2>2 DEF AnswersApart, CostOf
      <4> QED  BY <1>0, <3>2, <4>1, <4>2, Replaced
    <3>3. CASE a \notin CostOf(d)
      <4>1. {c \in {b} : c.counted /\ ~c.hit /\ DayOf(c.made) = d} = {}
        BY <2>2, <3>3 DEF CostOf
      <4>2. CostOf(d)' = CostOf(d)
        BY <3>1, <3>3, <4>1
      <4> QED  BY <4>2
    <3> QED  BY <3>2, <3>3
  <2> QED  BY <2>1, <2>3 DEF Spent
<1>4. ASSUME NEW a \in answers, CountDaily(a)
      PROVE  Spent'
  <2> SUFFICES ASSUME ~history'.apart, NEW d \in Day
               PROVE  daily'[d].tokens = Cardinality(CostOf(d)')
    BY DEF Spent, Day
  <2>1. a \in Answered /\ ~a.counted
    BY <1>4 DEF CountDaily
  <2>2. ~history.apart /\ DayOf(a.made) = DayOf(now)
    BY <1>4 DEF CountDaily, HistoryTypes
  <2> DEFINE b == [a EXCEPT !.counted = TRUE]
  <2>3. Becomes(a, b) /\ b.n = a.n /\ b.counted /\ b.hit = a.hit /\ b.made = a.made
    BY <1>4, <2>1, ChangedIs DEF CountDaily, Same
  <2> HIDE DEF b
  <2>4. CostOf(d)' = CostOf(d) \union {c \in {b} : c.counted /\ ~c.hit /\ DayOf(c.made) = d}
    <3>1. CostOf(d)' = (CostOf(d) \ {a}) \union {c \in {b} : c.counted /\ ~c.hit /\ DayOf(c.made) = d}
      BY <2>3, CostBecomes
    <3>2. a \notin CostOf(d)
      BY <2>1 DEF CostOf
    <3> QED  BY <3>1, <3>2
  <2>5. daily[d].tokens = Cardinality(CostOf(d)) /\ daily[d].tokens \in Nat
    BY <2>2 DEF Spent
  <2>6. CASE d = DayOf(now) /\ ~a.hit
    <3>1. CostOf(d)' = CostOf(d) \union {b}
      BY <2>2, <2>3, <2>4, <2>6
    <3>2. b \notin CostOf(d)
      BY <2>1, <2>3 DEF AnswersApart, CostOf
    <3>3. Cardinality(CostOf(d)') = Cardinality(CostOf(d)) + 1
      BY <1>0, <3>1, <3>2, FS_AddElement
    <3>4. daily'[d].tokens = daily[d].tokens + 1
      BY <1>4, <2>6 DEF CountDaily
    <3> QED  BY <2>5, <3>3, <3>4
  <2>7. CASE d # DayOf(now) \/ a.hit
    <3>1. {c \in {b} : c.counted /\ ~c.hit /\ DayOf(c.made) = d} = {}
      BY <2>2, <2>3, <2>7
    <3>2. CostOf(d)' = CostOf(d)
      BY <2>4, <3>1
    <3>3. daily'[d].tokens = daily[d].tokens
      <4>1. CASE d # DayOf(now)
        BY <1>4, <4>1 DEF CountDaily
      <4>2. CASE d = DayOf(now) /\ a.hit
        BY <1>4, <2>5, <4>2 DEF CountDaily
      <4> QED  BY <2>7, <4>1, <4>2
    <3> QED  BY <2>5, <3>2, <3>3
  <2> QED  BY <2>1, <2>6, <2>7
<1>5. CASE Delete
  BY <1>5 DEF Delete, HistoryTypes, Spent
<1>6. ASSUME UNCHANGED <<answers, daily>>, history'.apart = history.apart
      PROVE  Spent'
  <2>1. \A d : CostOf(d)' = CostOf(d)
    BY <1>6 DEF CostOf, DayOf
  <2> QED  BY <1>6, <2>1 DEF Spent
<1>7. ASSUME TimePasses \/ DropLibrary \/ CaseMade
      PROVE  Spent'
  BY <1>6, <1>7 DEF TimePasses, DropLibrary, CaseMade, HistoryTypes
<1>8. ASSUME NEW range \in Span, LoadAll(range)
      PROVE  Spent'
  BY <1>6, <1>8 DEF LoadAll, HistoryTypes
<1>9. ASSUME NEW l \in DOMAIN screen.loads, BeginRead(l) \/ EndRead(l) \/ ShowFigures(l) \/ FiguresFail(l)
      PROVE  Spent'
  BY <1>6, <1>9 DEF BeginRead, EndRead, ShowFigures, FiguresFail, HistoryTypes
<1>10. ASSUME NEW item, OpenReflow(item)
       PROVE  Spent'
  BY <1>6, <1>10 DEF OpenReflow
<1>11. ASSUME OptionsCome \/ ChooseLibrary \/ CloseReflow \/ SubmitReflow \/ CreateCase
       PROVE  Spent'
  BY <1>6, <1>11 DEF OptionsCome, ChooseLibrary, CloseReflow, SubmitReflow, CreateCase
<1> QED  BY <1>1, <1>2, <1>3, <1>4, <1>5, <1>7, <1>8, <1>9, <1>10, <1>11 DEF ReportsNext

-----------------------------------------------------------------------------
(* The page and its loads                                                   *)

\* A step that changes no more of the page than how far its loads are.
ScreenKept ==
  /\ ScreenTypes'
  /\ screen'.range = screen.range /\ screen'.shown = screen.shown /\ DOMAIN screen'.loads = DOMAIN screen.loads
  /\ \A k \in DOMAIN screen.loads :
       \/ screen'.loads[k] = screen.loads[k]
       \/ /\ screen.loads[k] \in Unread /\ screen'.loads[k] \in Unread
          /\ screen'.loads[k].range = screen.loads[k].range
Undisturbed ==
  /\ ScreenKept /\ HistoryTypes' /\ history'.made = history.made
  /\ history.apart => history'.apart
  /\ history.slip => history'.slip

LEMMA KeptTypes ==
  ASSUME ScreenTypes, HistoryTypes, history'.loads = history.loads, NEW under,
         screen' = [screen EXCEPT !.loads = under], DOMAIN under = DOMAIN screen.loads,
         under = [k \in DOMAIN under |-> under[k]],
         \A k \in DOMAIN screen.loads :
           \/ under[k] = screen.loads[k]
           \/ screen.loads[k] \in Unread /\ under[k] \in Unread /\ under[k].range = screen.loads[k].range
  PROVE  ScreenKept
<1>1. screen' = [range |-> screen.range, loads |-> under, shown |-> screen.shown]
  BY DEF ScreenTypes
<1>2. screen'.range = screen.range /\ screen'.shown = screen.shown /\ screen'.loads = under
  BY <1>1
<1>3. screen' = [range |-> screen'.range, loads |-> screen'.loads, shown |-> screen'.shown]
  BY <1>1, <1>2
<1>4. ScreenTypes'
  BY <1>2, <1>3 DEF ScreenTypes
<1> QED  BY <1>2, <1>4 DEF ScreenKept

LEMMA WrittenKept ==
  ASSUME ScreenTypes, HistoryTypes, history'.loads = history.loads, Written
  PROVE  ScreenKept
<1>1. ASSUME NEW k \in DOMAIN screen.loads
      PROVE  \/ Torn[k] = screen.loads[k]
             \/ screen.loads[k] \in Unread /\ Torn[k] \in Unread /\ Torn[k].range = screen.loads[k].range
  <2>1. CASE screen.loads[k].pc = "reading"
    <3>1. screen.loads[k] \in Unread
      BY <2>1 DEF ScreenTypes
    <3>2. Torn[k] = [screen.loads[k] EXCEPT !.torn = TRUE]
      BY <2>1 DEF Torn
    <3> QED  BY <3>1, <3>2 DEF Unread
  <2>2. CASE screen.loads[k].pc # "reading"
    BY <2>2 DEF Torn
  <2> QED  BY <2>1, <2>2
<1>2. DOMAIN Torn = DOMAIN screen.loads /\ Torn = [k \in DOMAIN Torn |-> Torn[k]]
  BY DEF Torn
<1>3. screen' = [screen EXCEPT !.loads = Torn]
  BY DEF Written
<1> QED  BY <1>1, <1>2, <1>3, KeptTypes

LEMMA StillKept ==
  ASSUME ScreenTypes, history'.loads = history.loads, UNCHANGED screen
  PROVE  ScreenKept
BY DEF ScreenTypes, ScreenKept

LEMMA BeginKept ==
  ASSUME ScreenTypes, HistoryTypes, UNCHANGED history, NEW l \in DOMAIN screen.loads, BeginRead(l)
  PROVE  ScreenKept
<1> DEFINE under == [screen.loads EXCEPT ![l].pc = "reading"]
<1>1. screen' = [screen EXCEPT !.loads = under] /\ screen.loads[l].pc = "sent"
  BY DEF BeginRead
<1>2. screen.loads[l] \in Unread
  BY <1>1 DEF ScreenTypes
<1>3. screen.loads = [k \in DOMAIN screen.loads |-> screen.loads[k]]
  BY DEF ScreenTypes
<1>4. DOMAIN under = DOMAIN screen.loads /\ under = [k \in DOMAIN under |-> under[k]]
  BY <1>3
<1>5. under[l] = [screen.loads[l] EXCEPT !.pc = "reading"]
  BY <1>3
<1>6. \A k \in DOMAIN screen.loads : k # l => under[k] = screen.loads[k]
  BY <1>3
<1>7. under[l] \in Unread /\ under[l].range = screen.loads[l].range
  BY <1>2, <1>5 DEF Unread
<1> HIDE DEF under
<1> QED  BY <1>1, <1>2, <1>4, <1>6, <1>7, KeptTypes

\* A load that is started, after all others.
Begun(range) ==
  LET n == history.loads + 1 IN
  /\ screen'.range = range /\ screen'.shown = screen.shown /\ ScreenTypes' /\ HistoryTypes'
  /\ n \notin DOMAIN screen.loads /\ \A k \in DOMAIN screen.loads : k < n
  /\ DOMAIN screen'.loads = DOMAIN screen.loads \union {n}
  /\ \A k \in DOMAIN screen.loads : screen'.loads[k] = screen.loads[k]
  /\ screen'.loads[n].pc = "sent" /\ screen'.loads[n].range = range
  /\ history'.apart = history.apart /\ history'.slip = history.slip

LEMMA LoadedStep ==
  ASSUME RepTypes, NEW range \in Span, screen' = LoadStarted(range),
         HistoryTypes', history'.loads = history.loads + 1,
         history'.apart = history.apart, history'.slip = history.slip
  PROVE  Begun(range)
<1> USE DEF RepTypes
<1>1. PICK n \in Nat : n = history.loads + 1 /\ history'.loads = n
  BY DEF HistoryTypes
<1>2. DOMAIN screen.loads \subseteq 1 .. n - 1
  BY <1>1 DEF ScreenTypes, HistoryTypes
<1>3. n \notin DOMAIN screen.loads /\ \A k \in DOMAIN screen.loads : k < n
  BY <1>2
<1> DEFINE r == [pc |-> "sent", range |-> range, torn |-> FALSE]
           under == [k \in DOMAIN screen.loads \union {n} |-> IF k = n THEN r ELSE screen.loads[k]]
<1>4. screen' = [range |-> range, loads |-> under, shown |-> screen.shown]
  BY <1>1 DEF LoadStarted
<1>5. r \in Unread /\ r.pc = "sent" /\ r.range = range
  BY DEF Unread
<1> HIDE DEF r
<1>6. /\ DOMAIN under = DOMAIN screen.loads \union {n} /\ under = [k \in DOMAIN under |-> under[k]]
      /\ under[n] = r /\ \A k \in DOMAIN screen.loads : under[k] = screen.loads[k]
  BY <1>3
<1> HIDE DEF under
<1>7. screen'.range = range /\ screen'.shown = screen.shown /\ screen'.loads = under
  BY <1>4
<1>8. screen' = [range |-> screen'.range, loads |-> screen'.loads, shown |-> screen'.shown]
  BY <1>4, <1>7
<1>9. DOMAIN under \subseteq 1 .. n
  BY <1>1, <1>2, <1>6 DEF HistoryTypes
<1>10. \A k \in DOMAIN under : under[k] \in Unread \/ (under[k].pc = "read" /\ under[k].range \in Span)
  BY <1>5, <1>6 DEF ScreenTypes
<1>11. ScreenTypes'
  BY <1>1, <1>6, <1>7, <1>8, <1>9, <1>10 DEF ScreenTypes
<1> QED  BY <1>1, <1>3, <1>5, <1>6, <1>7, <1>11 DEF Begun

\* A load that is taken from those under way.
Taken(l) ==
  /\ ScreenTypes' /\ HistoryTypes' /\ screen'.range = screen.range
  /\ DOMAIN screen'.loads = DOMAIN screen.loads \ {l}
  /\ \A k \in DOMAIN screen.loads \ {l} : screen'.loads[k] = screen.loads[k]
  /\ history'.apart = history.apart /\ history'.made = history.made
  /\ history.slip => history'.slip

LEMMA TakenIs ==
  ASSUME RepTypes, NEW l \in DOMAIN screen.loads, NEW shown, NEW slip \in BOOLEAN,
         screen' = [range |-> screen.range, loads |-> Without(l), shown |-> shown],
         history' = [history EXCEPT !.slip = slip], history.slip => slip
  PROVE  Taken(l) /\ screen'.shown = shown /\ history'.slip = slip
<1> USE DEF RepTypes
<1>2. /\ HistoryTypes' /\ history'.loads = history.loads /\ history'.made = history.made
      /\ history'.apart = history.apart /\ history'.slip = slip
  BY DEF HistoryTypes
<1>3. screen'.range = screen.range /\ screen'.loads = Without(l) /\ screen'.shown = shown
  OBVIOUS
<1>4. screen' = [range |-> screen'.range, loads |-> screen'.loads, shown |-> screen'.shown]
  BY <1>3
<1>5. /\ DOMAIN screen'.loads = DOMAIN screen.loads \ {l}
      /\ \A k \in DOMAIN screen.loads \ {l} : screen'.loads[k] = screen.loads[k]
      /\ screen'.loads = [k \in DOMAIN screen'.loads |-> screen'.loads[k]]
  BY <1>3 DEF Without
<1>6. ScreenTypes'
  BY <1>2, <1>3, <1>4, <1>5 DEF ScreenTypes
<1> QED  BY <1>2, <1>3, <1>5, <1>6 DEF Taken

LEMMA ShowStep ==
  ASSUME RepTypes, NEW l \in DOMAIN screen.loads, ShowFigures(l)
  PROVE  /\ Taken(l) /\ screen'.shown = screen.loads[l] /\ screen.loads[l].pc = "read"
         /\ ~history'.slip => /\ \A k \in DOMAIN screen.loads : ~(k < l)
                              /\ screen.range = screen.loads[l].range
<1> DEFINE slip == history.slip \/ \E k \in DOMAIN screen.loads : k < l \/ screen.range # screen.loads[l].range
<1>1. screen' = [range |-> screen.range, loads |-> Without(l), shown |-> screen.loads[l]]
  BY DEF ShowFigures, ScreenTypes, RepTypes
<1>2. history' = [history EXCEPT !.slip = slip] /\ (history.slip => slip) /\ screen.loads[l].pc = "read"
  BY DEF ShowFigures
<1>3. slip \in BOOLEAN
  BY DEF RepTypes, HistoryTypes
<1>4. ~slip => (\A k \in DOMAIN screen.loads : ~(k < l)) /\ screen.range = screen.loads[l].range
  OBVIOUS
<1> HIDE DEF slip
<1> QED  BY <1>1, <1>2, <1>3, <1>4, TakenIs

LEMMA FailStep ==
  ASSUME RepTypes, NEW l \in DOMAIN screen.loads, FiguresFail(l)
  PROVE  Taken(l) /\ screen'.shown = screen.shown /\ history'.slip
<1>1. screen' = [range |-> screen.range, loads |-> Without(l), shown |-> screen.shown]
  BY DEF FiguresFail, ScreenTypes, RepTypes
<1>2. history' = [history EXCEPT !.slip = TRUE]
  BY DEF FiguresFail
<1> QED  BY <1>1, <1>2, TakenIs

\* A load whose statements are done.
Ended(l) ==
  /\ ScreenTypes' /\ UNCHANGED history
  /\ screen'.range = screen.range /\ screen'.shown = screen.shown /\ DOMAIN screen'.loads = DOMAIN screen.loads
  /\ \A k \in DOMAIN screen.loads \ {l} : screen'.loads[k] = screen.loads[k]
  /\ screen'.loads[l] = [pc |-> "read", range |-> screen.loads[l].range, rows |-> Disliked,
                         torn |-> screen.loads[l].torn,
                         cost |-> IF screen.loads[l].torn THEN NoFigures ELSE Cost(screen.loads[l].range),
                         summary |-> IF screen.loads[l].torn THEN NoFigures ELSE Summary(screen.loads[l].range)]

LEMMA EndedStep ==
  ASSUME RepTypes, NEW l \in DOMAIN screen.loads, EndRead(l)
  PROVE  Ended(l) /\ screen.loads[l].range \in Span
<1> USE DEF RepTypes
<1> DEFINE rec == [pc |-> "read", range |-> screen.loads[l].range, rows |-> Disliked,
                   torn |-> screen.loads[l].torn,
                   cost |-> IF screen.loads[l].torn THEN NoFigures ELSE Cost(screen.loads[l].range),
                   summary |-> IF screen.loads[l].torn THEN NoFigures ELSE Summary(screen.loads[l].range)]
           under == [screen.loads EXCEPT ![l] = rec]
<1>1. screen' = [screen EXCEPT !.loads = under] /\ UNCHANGED history
  BY DEF EndRead
<1>2. screen.loads[l].range \in Span
  BY DEF ScreenTypes, Unread
<1>3. rec.pc = "read" /\ rec.range = screen.loads[l].range
  OBVIOUS
<1> HIDE DEF rec
<1>4. screen.loads = [k \in DOMAIN screen.loads |-> screen.loads[k]]
  BY DEF ScreenTypes
<1>5. /\ DOMAIN under = DOMAIN screen.loads /\ under = [k \in DOMAIN under |-> under[k]]
      /\ under[l] = rec /\ \A k \in DOMAIN screen.loads \ {l} : under[k] = screen.loads[k]
  BY <1>4
<1> HIDE DEF under
<1>6. screen' = [range |-> screen.range, loads |-> under, shown |-> screen.shown]
  BY <1>1 DEF ScreenTypes
<1>7. screen'.range = screen.range /\ screen'.shown = screen.shown /\ screen'.loads = under
  BY <1>6
<1>8. screen' = [range |-> screen'.range, loads |-> screen'.loads, shown |-> screen'.shown]
  BY <1>6, <1>7
<1>9. ScreenTypes'
  BY <1>1, <1>2, <1>3, <1>5, <1>7, <1>8 DEF ScreenTypes
<1>10. screen'.loads[l] = rec
  BY <1>5, <1>7
<1> QED  BY <1>1, <1>2, <1>5, <1>7, <1>9, <1>10 DEF Ended, rec

\* The steps that are quiet, and among them those of the form.
FormStep == OptionsCome \/ ChooseLibrary \/ CloseReflow \/ SubmitReflow \/ \E item : OpenReflow(item)
OtherStep ==
  \/ Ask \/ Delete \/ TimePasses \/ DropLibrary \/ CreateCase
  \/ \E a \in answers : Done(a) \/ CountDaily(a) \/ \E mark \in {"none", "like", "dislike"} : Feedback(a, mark)
  \/ \E l \in DOMAIN screen.loads : BeginRead(l)

LEMMA KindsOfStep ==
  ASSUME ReportsNext
  PROVE  \/ FormStep \/ OtherStep \/ CaseMade
         \/ \E range \in Span : LoadAll(range)
         \/ \E l \in DOMAIN screen.loads : EndRead(l) \/ ShowFigures(l) \/ FiguresFail(l)
BY DEF ReportsNext, FormStep, OtherStep

LEMMA QuietStep ==
  ASSUME RepTypes, FormStep \/ OtherStep
  PROVE  Undisturbed
<1> USE DEF RepTypes
<1>1. ASSUME UNCHANGED <<screen, history>>
      PROVE  Undisturbed
  <2>1. ScreenKept
    BY <1>1, StillKept
  <2> QED  BY <1>1, <2>1 DEF Undisturbed, HistoryTypes
<1>2. ASSUME Written, HistoryTypes', history'.loads = history.loads, history'.made = history.made,
             history.apart => history'.apart, history.slip => history'.slip
      PROVE  Undisturbed
  BY <1>2, WrittenKept DEF Undisturbed
<1>3. CASE FormStep
  BY <1>1, <1>3 DEF FormStep, OptionsCome, ChooseLibrary, CloseReflow, SubmitReflow, OpenReflow
<1>4. CASE Ask
  <2>1. PICK n \in Nat : n = history.asked + 1
    BY DEF HistoryTypes
  <2>2. history' = [history EXCEPT !.asked = n] /\ Written
    BY <1>4, <2>1 DEF Ask
  <2>3. history' = [asked |-> n, loads |-> history.loads, made |-> history.made,
                    apart |-> history.apart, slip |-> history.slip]
    BY <2>2 DEF HistoryTypes
  <2>4. HistoryTypes' /\ history'.loads = history.loads /\ history'.made = history.made
        /\ history'.apart = history.apart /\ history'.slip = history.slip
    BY <2>3 DEF HistoryTypes
  <2> QED  BY <1>2, <2>2, <2>4
<1>5. ASSUME NEW apart \in BOOLEAN, NEW slip \in BOOLEAN, Written,
             history' = [history EXCEPT !.apart = apart] \/ history' = [history EXCEPT !.slip = slip],
             history.apart => apart, history.slip => slip
      PROVE  Undisturbed
  <2>1. HistoryTypes' /\ history'.loads = history.loads /\ history'.made = history.made
        /\ (history.apart => history'.apart) /\ (history.slip => history'.slip)
    BY <1>5 DEF HistoryTypes
  <2> QED  BY <1>2, <1>5, <2>1
<1>6. CASE Delete
  BY <1>5, <1>6 DEF Delete, HistoryTypes
<1>7. CASE DropLibrary
  BY <1>5, <1>7 DEF DropLibrary, HistoryTypes
<1>8. ASSUME UNCHANGED history, Written
      PROVE  Undisturbed
  BY <1>2, <1>8 DEF HistoryTypes
<1>9. CASE TimePasses
  BY <1>8, <1>9 DEF TimePasses
<1>10. CASE CreateCase
  BY <1>1, <1>8, <1>10 DEF CreateCase
<1>11. ASSUME NEW a \in answers, NEW mark, Done(a) \/ Feedback(a, mark)
       PROVE  Undisturbed
  BY <1>8, <1>11 DEF Done, Feedback
<1>12. ASSUME NEW a \in answers, CountDaily(a)
       PROVE  Undisturbed
  <2> DEFINE apart == history.apart \/ DayOf(a.made) # DayOf(now)
  <2>1. history' = [history EXCEPT !.apart = apart] /\ Written
    BY <1>12 DEF CountDaily
  <2>2. apart \in BOOLEAN /\ (history.apart => apart)
    BY DEF HistoryTypes
  <2> HIDE DEF apart
  <2> QED  BY <1>5, <2>1, <2>2 DEF HistoryTypes
<1>13. ASSUME NEW l \in DOMAIN screen.loads, BeginRead(l)
       PROVE  Undisturbed
  <2>1. UNCHANGED history
    BY <1>13 DEF BeginRead
  <2>2. ScreenKept
    BY <1>13, <2>1, BeginKept
  <2> QED  BY <2>1, <2>2 DEF Undisturbed, HistoryTypes
<1> QED  BY <1>3, <1>4, <1>6, <1>7, <1>9, <1>10, <1>11, <1>12, <1>13 DEF OtherStep

LEMMA FormTypesStep ==
  ASSUME FormTypes, ReportsNext
  PROVE  FormTypes'
<1>1. ASSUME UNCHANGED reflow, shelves' \subseteq shelves
      PROVE  FormTypes'
  BY <1>1 DEF FormTypes
<1>2. ASSUME NEW r, reflow' = r, UNCHANGED shelves,
             r = [open |-> r.open, n |-> r.n, kb |-> r.kb, waits |-> r.waits, offers |-> r.offers, pc |-> r.pc, sent |-> r.sent],
             r.pc # "none" => r.sent = <<r.sent[1], r.sent[2]>>
      PROVE  FormTypes'
  BY <1>2 DEF FormTypes
<1>3. ASSUME NEW open, NEW n, NEW kb, NEW waits, NEW offers, UNCHANGED shelves,
             reflow' = [reflow EXCEPT !.open = open, !.n = n, !.kb = kb, !.waits = waits, !.offers = offers]
      PROVE  FormTypes'
  BY <1>3 DEF FormTypes
<1>4. ASSUME NEW item, OpenReflow(item)
      PROVE  FormTypes'
  BY <1>4 DEF OpenReflow, FormTypes
<1>5. CASE OptionsCome
  <2>1. PICK offers, kb : reflow' = [reflow EXCEPT !.waits = FALSE, !.offers = offers, !.kb = kb] /\ UNCHANGED shelves
    BY <1>5 DEF OptionsCome
  <2> QED  BY <2>1 DEF FormTypes
<1>6. CASE ChooseLibrary
  BY <1>6 DEF ChooseLibrary, FormTypes
<1>7. CASE CloseReflow
  BY <1>7 DEF CloseReflow, FormTypes
<1>8. CASE SubmitReflow
  <2>1. PICK x : x = Listed(reflow.n)
    OBVIOUS
  <2>2. reflow' = [reflow EXCEPT !.pc = "sent", !.sent = <<reflow.kb, x>>] /\ UNCHANGED shelves
    BY <1>8, <2>1 DEF SubmitReflow
  <2>3. reflow' = [open |-> reflow.open, n |-> reflow.n, kb |-> reflow.kb, waits |-> reflow.waits,
                   offers |-> reflow.offers, pc |-> "sent", sent |-> <<reflow.kb, x>>]
    BY <2>2 DEF FormTypes
  <2> DEFINE r == [open |-> reflow.open, n |-> reflow.n, kb |-> reflow.kb, waits |-> reflow.waits,
                   offers |-> reflow.offers, pc |-> "sent", sent |-> <<reflow.kb, x>>]
  <2>4. r = [open |-> r.open, n |-> r.n, kb |-> r.kb, waits |-> r.waits, offers |-> r.offers, pc |-> r.pc, sent |-> r.sent]
    OBVIOUS
  <2>5. r.sent = <<r.sent[1], r.sent[2]>>
    OBVIOUS
  <2> HIDE DEF r
  <2>6. reflow' = r
    BY <2>3 DEF r
  <2> QED  BY <1>2, <2>2, <2>4, <2>5, <2>6
<1>9. CASE CreateCase
  BY <1>9 DEF CreateCase, FormTypes
<1>10. CASE CaseMade
  BY <1>10 DEF CaseMade, FormTypes
<1>11. ASSUME Ask \/ Delete \/ TimePasses
       PROVE  FormTypes'
  BY <1>1, <1>11 DEF Ask, Delete, TimePasses
<1>12. CASE DropLibrary
  BY <1>1, <1>12 DEF DropLibrary
<1>13. ASSUME NEW a \in answers, NEW mark, Done(a) \/ CountDaily(a) \/ Feedback(a, mark)
       PROVE  FormTypes'
  BY <1>1, <1>13 DEF Done, CountDaily, Feedback
<1>14. ASSUME NEW range, LoadAll(range)
       PROVE  FormTypes'
  BY <1>1, <1>14 DEF LoadAll
<1>15. ASSUME NEW l, BeginRead(l) \/ EndRead(l) \/ ShowFigures(l) \/ FiguresFail(l)
       PROVE  FormTypes'
  BY <1>1, <1>15 DEF BeginRead, EndRead, ShowFigures, FiguresFail
<1> QED  BY <1>4, <1>5, <1>6, <1>7, <1>8, <1>9, <1>10, <1>11, <1>12, <1>13, <1>14, <1>15 DEF ReportsNext

\* Loads that are started, from the page and after a case was made.
LEMMA StartStep ==
  ASSUME RepTypes, NEW range \in Span, LoadAll(range) \/ (CaseMade /\ range = screen.range)
  PROVE  Begun(range)
<1> USE DEF RepTypes
<1>1. PICK n \in Nat : n = history.loads + 1
  BY DEF HistoryTypes
<1>2. PICK made : history' = [history EXCEPT !.loads = n, !.made = made]
  <2>1. CASE LoadAll(range)
    <3>1. history' = [history EXCEPT !.loads = n]
      BY <1>1, <2>1 DEF LoadAll
    <3>2. history' = [history EXCEPT !.loads = n, !.made = history.made]
      BY <3>1 DEF HistoryTypes
    <3> QED  BY <3>2
  <2>2. CASE CaseMade
    BY <1>1, <2>2 DEF CaseMade
  <2> QED  BY <2>1, <2>2
<1>3. history' = [asked |-> history.asked, loads |-> n, made |-> made, apart |-> history.apart, slip |-> history.slip]
  BY <1>2 DEF HistoryTypes
<1>4. HistoryTypes' /\ history'.loads = n /\ history'.apart = history.apart /\ history'.slip = history.slip
  BY <1>3 DEF HistoryTypes
<1>5. screen' = LoadStarted(range)
  BY DEF LoadAll, CaseMade
<1> QED  BY <1>1, <1>4, <1>5, LoadedStep

LEMMA RepTypesStep ==
  ASSUME ReportAssumption, RepTypes, AnswersApart, ReportsNext
  PROVE  RepTypes' /\ AnswersApart'
<1>1. AnswerTypes' /\ AnswersApart' /\ FormTypes'
  BY AnswersStep, FormTypesStep DEF RepTypes
<1>2. ScreenTypes' /\ HistoryTypes'
  <2>1. CASE FormStep \/ OtherStep
    BY <2>1, QuietStep DEF Undisturbed, ScreenKept
  <2>2. CASE CaseMade
    BY <2>2, StartStep DEF Begun, RepTypes, ScreenTypes
  <2>3. ASSUME NEW range \in Span, LoadAll(range)
        PROVE  ScreenTypes' /\ HistoryTypes'
    BY <2>3, StartStep DEF Begun
  <2>4. ASSUME NEW l \in DOMAIN screen.loads, EndRead(l)
        PROVE  ScreenTypes' /\ HistoryTypes'
    BY <2>4, EndedStep DEF Ended, RepTypes, HistoryTypes
  <2>5. ASSUME NEW l \in DOMAIN screen.loads, ShowFigures(l) \/ FiguresFail(l)
        PROVE  ScreenTypes' /\ HistoryTypes'
    BY <2>5, ShowStep, FailStep DEF Taken
  <2> QED  BY <2>1, <2>2, <2>3, <2>4, <2>5, KindsOfStep
<1> QED  BY <1>1, <1>2 DEF RepTypes

-----------------------------------------------------------------------------
(* Figures agree                                                            *)

LEMMA AgreedLater ==
  ASSUME NEW x, NEW a, NEW b, a => b, Agreed(x, a)
  PROVE  Agreed(x, b)
BY DEF Agreed

LEMMA AgreedStep ==
  ASSUME ReportAssumption, RepTypes, AnswersApart, Spent, AllAgreed, ReportsNext
  PROVE  AllAgreed'
<1>1. CASE FormStep \/ OtherStep
  <2>1. Undisturbed
    BY <1>1, QuietStep
  <2>2. ASSUME NEW k \in DOMAIN screen'.loads, screen'.loads[k].pc = "read"
        PROVE  Agreed(screen'.loads[k], history'.apart)
    <3>1. screen'.loads[k] = screen.loads[k] /\ k \in DOMAIN screen.loads
      BY <2>1, <2>2 DEF Undisturbed, ScreenKept, Unread
    <3> QED  BY <2>1, <2>2, <3>1, AgreedLater DEF AllAgreed, Undisturbed
  <2>3. screen'.shown # NoFigures => Agreed(screen'.shown, history'.apart)
    BY <2>1, AgreedLater DEF AllAgreed, Undisturbed, ScreenKept
  <2> QED  BY <2>2, <2>3 DEF AllAgreed, NoFigures
<1>2. ASSUME NEW range, Begun(range)
      PROVE  AllAgreed'
  BY <1>2 DEF Begun, AllAgreed, NoFigures
<1>3. CASE CaseMade
  <2>1. screen.range \in Span
    BY DEF RepTypes, ScreenTypes
  <2> QED  BY <1>2, <1>3, <2>1, StartStep
<1>4. ASSUME NEW l \in DOMAIN screen.loads, EndRead(l)
      PROVE  AllAgreed'
  <2>1. Ended(l) /\ screen.loads[l].range \in Span
    BY <1>4, EndedStep
  <2>2. PICK days \in Nat : days = screen.loads[l].range
    BY <2>1 DEF ReportAssumption
  <2>3. PICK x : x = screen'.loads[l]
    OBVIOUS
  <2>4. Agreed(x, history.apart)
    <3>1. ASSUME ~x.torn
          PROVE  x.cost = Cost(days) /\ x.summary = Summary(days)
      BY <2>1, <2>2, <2>3, <3>1 DEF Ended
    <3>2. ASSUME ~x.torn
          PROVE  /\ x.cost.byModel = ByModel(days) /\ x.cost.byUser = ByUser(days) /\ x.cost.byDept = ByDept(days)
                 /\ x.cost.saved = CacheSaved(days) /\ x.cost.trend = Trend(days) /\ x.cost.total = Total
                 /\ x.summary.total = Cardinality(InRange(days))
      BY <3>1, <3>2 DEF Cost, Summary
    <3> QED  BY <3>2, FiguresOf DEF Agreed
  <2>5. \A k \in DOMAIN screen'.loads : screen'.loads[k].pc = "read" => Agreed(screen'.loads[k], history.apart)
    BY <2>1, <2>3, <2>4 DEF AllAgreed, Ended
  <2> QED  BY <2>1, <2>5 DEF AllAgreed, Ended, NoFigures
<1>5. ASSUME NEW l \in DOMAIN screen.loads, ShowFigures(l)
      PROVE  AllAgreed'
  BY <1>5, ShowStep DEF AllAgreed, Taken
<1>6. ASSUME NEW l \in DOMAIN screen.loads, FiguresFail(l)
      PROVE  AllAgreed'
  BY <1>6, FailStep DEF AllAgreed, Taken, NoFigures
<1> QED  BY <1>1, <1>2, <1>3, <1>4, <1>5, <1>6, KindsOfStep, StartStep

-----------------------------------------------------------------------------
(* The page's own figures                                                   *)

LEMMA CasedStep ==
  ASSUME RepTypes, Cased, Undisturbed, FormStep \/ OtherStep, ~history'.slip
  PROVE  Cased'
<1> USE DEF RepTypes
<1>1. ASSUME cases \subseteq cases', reflow'.pc = "made" => reflow.pc = "made" /\ reflow'.sent = reflow.sent
      PROVE  Cased'
  BY <1>1 DEF Cased, Undisturbed
<1>2. CASE CreateCase
  <2>1. CASE UNCHANGED cases
    <3>1. reflow'.pc # "made"
      BY <1>2, <2>1 DEF CreateCase, FormTypes, Cased
    <3> QED  BY <1>1, <2>1, <3>1
  <2>2. CASE reflow.sent[1] \in shelves /\ reflow.sent \notin cases
    <3>1. cases' = cases \union {reflow.sent} /\ reflow'.sent = reflow.sent
      BY <1>2, <2>2 DEF CreateCase, FormTypes
    <3>2. reflow'.sent[1] \in Library /\ reflow'.sent \in cases'
      BY <2>2, <3>1 DEF FormTypes
    <3> QED  BY <3>1, <3>2 DEF Cased, Undisturbed
  <2> QED  BY <1>2, <2>1, <2>2 DEF CreateCase
<1>3. CASE DropLibrary
  <2>1. history'.slip
    BY <1>3 DEF DropLibrary, HistoryTypes
  <2> QED  BY <2>1
<1>4. ASSUME NEW item, OpenReflow(item)
      PROVE  Cased'
  <2>1. reflow'.pc = reflow.pc /\ reflow'.sent = reflow.sent /\ UNCHANGED cases
    BY <1>4 DEF OpenReflow, FormTypes
  <2> QED  BY <1>1, <2>1
<1>5. ASSUME OptionsCome \/ ChooseLibrary \/ CloseReflow
      PROVE  Cased'
  <2>1. reflow'.pc = reflow.pc /\ reflow'.sent = reflow.sent /\ UNCHANGED cases
    BY <1>5 DEF OptionsCome, ChooseLibrary, CloseReflow, FormTypes
  <2> QED  BY <1>1, <2>1
<1>6. CASE SubmitReflow
  <2>1. reflow'.pc = "sent" /\ UNCHANGED cases
    BY <1>6 DEF SubmitReflow, FormTypes
  <2> QED  BY <1>1, <2>1
<1>7. ASSUME UNCHANGED <<cases, reflow>>
      PROVE  Cased'
  BY <1>1, <1>7
<1>8. ASSUME Ask \/ Delete \/ TimePasses
      PROVE  Cased'
  BY <1>7, <1>8 DEF Ask, Delete, TimePasses
<1>9. ASSUME NEW a \in answers, NEW mark, Done(a) \/ CountDaily(a) \/ Feedback(a, mark)
      PROVE  Cased'
  BY <1>7, <1>9 DEF Done, CountDaily, Feedback
<1>10. ASSUME NEW l, BeginRead(l)
       PROVE  Cased'
  BY <1>7, <1>10 DEF BeginRead
<1> QED  BY <1>2, <1>3, <1>4, <1>5, <1>6, <1>8, <1>9, <1>10 DEF FormStep, OtherStep

LEMMA OwnStep ==
  ASSUME ReportAssumption, RepTypes, OwnBoard, ReportsNext
  PROVE  OwnBoard'
<1> SUFFICES ASSUME ~history'.slip
             PROVE  Cased' /\ LastLoad' /\ LastShown'
  BY DEF OwnBoard
<1>1. CASE FormStep \/ OtherStep
  <2>1. Undisturbed
    BY <1>1, QuietStep
  <2>2. Cased /\ LastLoad /\ LastShown
    BY <2>1 DEF OwnBoard, Undisturbed
  <2>3. Cased'
    BY <1>1, <2>1, <2>2, CasedStep
  <2>4. LastLoad'
    BY <2>1, <2>2 DEF LastLoad, Undisturbed, ScreenKept, Unread, AsCases
  <2>5. LastShown'
    BY <2>1, <2>2 DEF LastShown, Undisturbed, ScreenKept, AsCases, NoFigures
  <2> QED  BY <2>3, <2>4, <2>5
<1>2. ASSUME NEW range, Begun(range)
      PROVE  LastLoad' /\ LastShown' /\ Cased /\ ~history.slip
  <2>1. Cased /\ ~history.slip
    BY <1>2 DEF Begun, OwnBoard
  <2>2. PICK n : /\ n \in DOMAIN screen'.loads /\ n \in Nat /\ \A k \in DOMAIN screen'.loads \ {n} : k \in Nat /\ k < n
                 /\ screen'.loads[n].pc = "sent" /\ screen'.loads[n].range = range /\ screen'.range = range
    BY <1>2 DEF Begun, RepTypes, HistoryTypes, ScreenTypes
  <2>3. \A k \in DOMAIN screen'.loads : (\A j \in DOMAIN screen'.loads : j <= k) => k = n
    BY <2>2
  <2>4. LastLoad'
    BY <2>2, <2>3 DEF LastLoad
  <2>5. LastShown'
    BY <2>2 DEF LastShown
  <2> QED  BY <2>1, <2>4, <2>5
<1>3. CASE CaseMade
  <2>1. screen.range \in Span
    BY DEF RepTypes, ScreenTypes
  <2>2. LastLoad' /\ LastShown' /\ Cased
    BY <1>2, <1>3, <2>1, StartStep
  <2>3. UNCHANGED cases /\ reflow'.pc = "none" /\ history'.made = history.made \union {reflow.sent[2]}
    BY <1>3 DEF CaseMade, RepTypes, FormTypes, HistoryTypes
  <2>4. reflow.sent[1] \in Library /\ <<reflow.sent[1], reflow.sent[2]>> \in cases
    BY <1>3, <2>2 DEF CaseMade, Cased, RepTypes, FormTypes
  <2>5. Cased'
    BY <2>2, <2>3, <2>4 DEF Cased
  <2> QED  BY <2>2, <2>5
<1>4. ASSUME NEW range \in Span, LoadAll(range)
      PROVE  Cased' /\ LastLoad' /\ LastShown'
  <2>1. LastLoad' /\ LastShown' /\ Cased
    BY <1>2, <1>4, StartStep
  <2>2. UNCHANGED <<cases, reflow>> /\ history'.made = history.made
    BY <1>4 DEF LoadAll, RepTypes, HistoryTypes
  <2> QED  BY <2>1, <2>2 DEF Cased
<1>5. ASSUME NEW l \in DOMAIN screen.loads, EndRead(l)
      PROVE  Cased' /\ LastLoad' /\ LastShown'
  <2>1. Ended(l)
    BY <1>5, EndedStep
  <2>2. Cased /\ LastLoad /\ LastShown
    BY <2>1 DEF Ended, OwnBoard
  <2>3. UNCHANGED <<cases, reflow>>
    BY <1>5 DEF EndRead
  <2>4. Cased'
    BY <2>1, <2>2, <2>3 DEF Ended, Cased
  <2>5. AsCases(Disliked, history.made)
    <3>1. ASSUME NEW item \in Disliked, <<item.n, "whole">> \in history.made
          PROVE  item.reflowed
      <4>1. PICK a \in answers :
              item = [n |-> a.n, kb |-> a.kb, reflowed |-> \E k \in Library : <<k, <<a.n, "whole">>>> \in cases]
        BY <3>1, ZenonT(20) DEF Disliked
      <4>2. \E k \in Library : <<k, <<item.n, "whole">>>> \in cases
        BY <2>2, <3>1 DEF Cased
      <4>3. item.n = a.n
        BY <4>1
      <4>4. \E k \in Library : <<k, <<a.n, "whole">>>> \in cases
        BY <4>2, <4>3
      <4> QED  BY <4>1, <4>4
    <3> QED  BY <3>1 DEF AsCases
  <2>6. screen'.loads[l].range = screen.loads[l].range /\ screen'.loads[l].rows = Disliked
    BY <2>1 DEF Ended
  <2>7. LastLoad'
    BY <2>1, <2>2, <2>5, <2>6 DEF LastLoad, Ended, AsCases
  <2>8. LastShown'
    BY <2>1, <2>2 DEF LastShown, Ended, AsCases, NoFigures
  <2> QED  BY <2>4, <2>7, <2>8
<1>6. ASSUME NEW l \in DOMAIN screen.loads, ShowFigures(l)
      PROVE  Cased' /\ LastLoad' /\ LastShown'
  <2>1. /\ Taken(l) /\ screen'.shown = screen.loads[l] /\ screen.loads[l].pc = "read"
        /\ screen.range = screen.loads[l].range /\ \A k \in DOMAIN screen.loads : ~(k < l)
    BY <1>6, ShowStep
  <2>2. Cased /\ LastLoad /\ LastShown
    BY <2>1 DEF Taken, OwnBoard
  <2>3. UNCHANGED <<cases, reflow>>
    BY <1>6 DEF ShowFigures
  <2>4. Cased'
    BY <2>1, <2>2, <2>3 DEF Taken, Cased
  <2>5. DOMAIN screen.loads \subseteq Nat
    BY DEF RepTypes, ScreenTypes, HistoryTypes
  <2>6. LastLoad'
    <3>1. ASSUME NEW k \in DOMAIN screen.loads \ {l}, \A j \in DOMAIN screen.loads \ {l} : j <= k
          PROVE  \A j \in DOMAIN screen.loads : j <= k
      BY <2>1, <2>5, <3>1
    <3> QED  BY <2>1, <2>2, <3>1 DEF LastLoad, Taken, AsCases
  <2>7. LastShown'
    <3>1. ASSUME DOMAIN screen'.loads = {}
          PROVE  \A j \in DOMAIN screen.loads : j <= l
      <4>1. DOMAIN screen.loads = {l}
        BY <2>1, <3>1 DEF Taken
      <4> QED  BY <2>5, <4>1
    <3>2. DOMAIN screen'.loads = {} => AsCases(screen.loads[l].rows, history.made)
      BY <2>1, <2>2, <3>1 DEF LastLoad
    <3> QED  BY <2>1, <3>2 DEF LastShown, Taken, AsCases
  <2> QED  BY <2>4, <2>6, <2>7
<1>7. ASSUME NEW l \in DOMAIN screen.loads, FiguresFail(l)
      PROVE  FALSE
  BY <1>7, FailStep
<1> QED  BY <1>1, <1>3, <1>4, <1>5, <1>6, <1>7, KindsOfStep

-----------------------------------------------------------------------------
LEMMA RepStep ==
  ASSUME ReportAssumption, RepInv, [ReportsNext]_reportVars
  PROVE  RepInv'
<1> USE DEF RepInv
<1>1. CASE ReportsNext
  <2>1. RepTypes' /\ AnswersApart' /\ Spent'
    BY <1>1, RepTypesStep, SpentStep
  <2>2. AllAgreed' /\ OwnBoard'
    BY <1>1, AgreedStep, OwnStep
  <2> QED  BY <2>1, <2>2
<1>2. CASE UNCHANGED reportVars
  <2>1. UNCHANGED <<answers, daily, now, cases, shelves, screen, reflow, history>>
    BY <1>2 DEF reportVars
  <2>2. RepTypes'
    BY <2>1 DEF RepTypes, AnswerTypes, HistoryTypes, ScreenTypes, FormTypes
  <2>3. \A d : CostOf(d)' = CostOf(d)
    BY <2>1 DEF CostOf, DayOf
  <2>4. AnswersApart' /\ Spent'
    BY <2>1, <2>3 DEF AnswersApart, Spent
  <2>5. AllAgreed' /\ OwnBoard'
    BY <2>1 DEF AllAgreed, OwnBoard, Cased, LastLoad, LastShown, AsCases, NoFigures
  <2> QED  BY <2>2, <2>4, <2>5
<1> QED  BY <1>1, <1>2

LEMMA RepInvTrue == RepInv => ReportsTrue
<1> SUFFICES ASSUME RepInv PROVE ReportsTrue
  OBVIOUS
<1>1. FiguresAgree
  BY DEF RepInv, AllAgreed, Agreed, FiguresAgree
<1>2. BoardOwn
  BY DEF RepInv, OwnBoard, LastShown, AsCases, BoardOwn
<1> QED  BY <1>1, <1>2 DEF ReportsTrue

\* For any users, models, ranges and number of answers and loads: figures that
\* were not torn agree; and while no load failed or came out of order and no
\* library was dropped, the page with no load under way has those of its range,
\* with the answers whose questions became cases uncut marked so
\* (stats.service.ts cost, feedback; AnalyticsView.vue loadAll, submitReflow).
THEOREM ReportsAlwaysTrue == ReportsSpec => []ReportsTrue
<1>1. ReportsInit => RepInv
  BY RepInitial, ReportAssumption
<1>2. RepInv /\ [ReportsNext]_reportVars => RepInv'
  BY RepStep, ReportAssumption
<1>3. RepInv => ReportsTrue
  BY RepInvTrue
<1> QED  BY <1>1, <1>2, <1>3, PTL DEF ReportsSpec
=============================================================================
