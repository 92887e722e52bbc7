--------------------------- MODULE WebPartsProofs ---------------------------
(***************************************************************************)
(* Proofs about what a restart brings back: the bindings (BindingStore)    *)
(* and the configuration (ConfigStore), for any lists, ids, networks and   *)
(* passwords, and about the types of all parts of WebParts.                *)
(***************************************************************************)
EXTENDS WebParts, TriggerManagerProofs, FiniteSetTheorems, WellFoundedInduction

HIDE TriggerAssumption DEF TriggerAssumption

-----------------------------------------------------------------------------
(* BindingStore: types *)

BindingSteps == {"load", "seedSequences", "seedTriggers", "idle", "fill", "save", "apply",
                 "saveSequences"}

\* Lists keep their type; the ids an upload still needs are there.
BindingTypes ==
  /\ seqs \in SUBSET SeqIds /\ nvsSeqs \in SUBSET SeqIds
  /\ ts_ \in Seq(Store!Binding(Store!Ids)) /\ nvsTriggers \in Seq(Store!Binding(Store!Ids))
  /\ \A id \in DOMAIN g_active : g_active[id] \in Store!Binding(Store!Ids) /\ g_active[id].id = id
  /\ drawn \in Nat /\ drawn <= Len(Stream) /\ changed \in BOOLEAN /\ pc \in BindingSteps
  /\ pc = "fill" => upload \in Uploads /\ drawn + Cardinality(Store!Missing(upload)) <= Len(Stream)

\* The store's own copy of the definition of a cardinality.
LEMMA CountIs == \A S : Store!Cardinality(S) = Cardinality(S)
BY Zenon DEF Store!Cardinality, Cardinality

\* A set of places in a list has a last one.
LEMMA GreatestIn ==
  ASSUME NEW n \in Nat, NEW P, P \subseteq 1..n, P # {}
  PROVE  \E i \in P : \A j \in i + 1..n : j \notin P
<1> DEFINE Q == {n - i : i \in P}
<1>1. Q \subseteq Nat /\ Q # {}
  <2>1. \A i \in P : n - i \in Nat
    OBVIOUS
  <2> QED BY <2>1
<1>2. PICK m \in Q : \A k \in Q : <<k, m>> \notin OpToRel(<, Nat)
  <2> HIDE DEF Q
  <2> QED BY <1>1, WFMin, NatLessThanWellFounded, Zenon
<1>3. \A k \in Q : ~(k < m)
  <2> HIDE DEF Q
  <2> QED BY <1>1, <1>2, Zenon DEF OpToRel
<1>4. PICK i \in P : m = n - i
  OBVIOUS
<1>5. ASSUME NEW j \in i + 1..n, j \in P PROVE FALSE
  <2>1. n - j \in Q /\ n - j < m
    BY <1>4, <1>5
  <2> QED BY <1>3, <2>1
<1> QED BY <1>4, <1>5

\* What is bound under an id is an entry of the list with that id.
LEMMA BoundType ==
  ASSUME NEW S, NEW list \in Seq(S)
  PROVE  \A id \in DOMAIN Store!Bound(list) : Store!Bound(list)[id] \in S /\ Store!Bound(list)[id].id = id
<1> SUFFICES ASSUME NEW id \in DOMAIN Store!Bound(list)
             PROVE  Store!Bound(list)[id] \in S /\ Store!Bound(list)[id].id = id
  OBVIOUS
<1>1. DOMAIN list = 1..Len(list) /\ Len(list) \in Nat
  BY LenProperties
<1>2. id \in {list[i].id : i \in DOMAIN list}
  BY DEF Store!Bound
<1> DEFINE P == {i \in DOMAIN list : list[i].id = id}
           Last(i) == list[i].id = id /\ \A j \in i + 1..Len(list) : list[j].id # id
<1>3. P \subseteq 1..Len(list) /\ P # {}
  BY <1>1, <1>2
<1>4. PICK i \in P : \A j \in i + 1..Len(list) : j \notin P
  <2> HIDE DEF P
  <2> QED BY <1>1, <1>3, GreatestIn
<1>5. i \in DOMAIN list /\ Last(i)
  BY <1>1, <1>4
<1> DEFINE c == CHOOSE l \in DOMAIN list : Last(l)
<1>6. c \in DOMAIN list /\ Last(c)
  <2> HIDE DEF Last
  <2> QED BY <1>5
<1>7. Store!Bound(list)[id] = list[c]
  BY <1>2 DEF Store!Bound
<1>8. list[c] \in S /\ list[c].id = id
  <2>1. list[c].id = id
    BY <1>6
  <2> HIDE DEF c, Last
  <2> QED BY <1>6, <2>1, ElementOfSeq, <1>1
<1> QED BY <1>7, <1>8

\* replaceAll leaves no entry without an id, as long as the stream has enough.
LEMMA ReplaceType ==
  ASSUME NEW list \in Uploads, drawn \in Nat, drawn + Cardinality(Store!Missing(list)) <= Len(Stream)
  PROVE  /\ Store!replaceAll(list) \in Seq(Store!Binding(Store!Ids))
         /\ Cardinality(Store!Missing(list)) \in Nat
<1>1. /\ list \in Seq(Store!Binding(Store!Ids \cup {NoId}))
      /\ Stream \in Seq(Store!Range(Stream))
      /\ NoId \notin Store!Ids
  BY StoreInstance DEF Store!BindingAssumption
<1>2. /\ DOMAIN list = 1..Len(list) /\ Len(list) \in Nat /\ Len(Stream) \in Nat
      /\ \A i \in DOMAIN list : list[i] \in Store!Binding(Store!Ids \cup {NoId})
  BY <1>1, LenProperties, ElementOfSeq
<1>3. IsFiniteSet(Store!Missing(list)) /\ Cardinality(Store!Missing(list)) \in Nat
  <2>1. IsFiniteSet(1..Len(list))
    BY <1>2, FS_Interval
  <2>2. Store!Missing(list) \subseteq 1..Len(list)
    BY <1>2 DEF Store!Missing
  <2> QED BY <2>1, <2>2, FS_Subset, FS_CardinalityType
<1>4. ASSUME NEW i \in DOMAIN list, list[i].id = NoId
      PROVE  Stream[drawn + Cardinality(Store!Missing(list) \cap 1..i)] \in Store!Ids
  <2> DEFINE seen == Store!Missing(list) \cap 1..i
  <2>1. IsFiniteSet(seen) /\ Cardinality(seen) <= Cardinality(Store!Missing(list))
    BY <1>3, FS_Subset
  <2>2. i \in seen
    BY <1>2, <1>4 DEF Store!Missing
  <2>3. Cardinality(seen) \in Nat /\ Cardinality(seen) # 0
    BY <2>1, <2>2, FS_CardinalityType, FS_EmptySet
  <2>4. drawn + Cardinality(seen) \in 1..Len(Stream)
    <3> HIDE DEF seen
    <3> QED BY <1>2, <1>3, <2>1, <2>3
  <2> QED BY <1>1, <2>4, ElementOfSeq DEF Store!Ids
<1>5. ASSUME NEW i \in DOMAIN list PROVE Store!replaceAll(list)[i] \in Store!Binding(Store!Ids)
  <2>1. PICK id \in Store!Ids \cup {NoId}, p \in Paths, s \in SeqIds :
          list[i] = [id |-> id, path |-> p, to |-> s]
    BY <1>2 DEF Store!Binding
  <2>2. Store!replaceAll(list)[i] =
          IF list[i].id # NoId THEN list[i]
          ELSE [list[i] EXCEPT !.id = Stream[drawn + Cardinality(Store!Missing(list) \cap 1..i)]]
    BY CountIs DEF Store!replaceAll
  <2>3. CASE list[i].id # NoId
    BY <2>1, <2>2, <2>3 DEF Store!Binding
  <2>4. CASE list[i].id = NoId
    <3>1. PICK new \in Store!Ids : new = Stream[drawn + Cardinality(Store!Missing(list) \cap 1..i)]
      BY <1>4, <2>4
    <3>2. Store!replaceAll(list)[i] = [id |-> new, path |-> p, to |-> s]
      BY <2>1, <2>2, <2>4, <3>1
    <3> QED BY <3>2 DEF Store!Binding
  <2> QED BY <2>3, <2>4
<1>6. /\ DOMAIN Store!replaceAll(list) = 1..Len(list)
      /\ Store!replaceAll(list) = [i \in 1..Len(list) |-> Store!replaceAll(list)[i]]
  BY <1>2 DEF Store!replaceAll
<1>7. Store!replaceAll(list) \in [1..Len(list) -> Store!Binding(Store!Ids)]
  BY <1>2, <1>5, <1>6
<1> QED BY <1>2, <1>3, <1>7

\* The binding of the defaults is one.
LEMMA DefaultType == /\ Store!DefaultBinding \in Store!Binding(Store!Ids) /\ Default \in SeqIds
                     /\ <<Store!DefaultBinding>> \in Seq(Store!Binding(Store!Ids))
BY StoreInstance DEF Store!BindingAssumption, Store!DefaultBinding, Store!Binding, Store!Ids

\* BindingTypes holds at first.
LEMMA BindingTypeInit == Store!Init => BindingTypes
<1> SUFFICES ASSUME Store!Init PROVE BindingTypes
  OBVIOUS
<1>1. Len(Stream) \in Nat
  BY StoreInstance, LenProperties DEF Store!BindingAssumption
<1>2. /\ ts_ \in Seq(Store!Binding(Store!Ids))
      /\ nvsTriggers \in Seq(Store!Binding(Store!Ids))
      /\ DOMAIN g_active = {}
  BY DEF Store!Init
<1>4. seqs \in SUBSET SeqIds /\ nvsSeqs \in SUBSET SeqIds
  BY Zenon DEF Store!Init
<1>3. drawn \in Nat /\ drawn <= Len(Stream)
  BY <1>1 DEF Store!Init
<1>5. changed \in BOOLEAN 
  BY Zenon DEF Store!Init
<1>6. pc \in BindingSteps /\ pc # "fill"
  BY DEF Store!Init, BindingSteps
<1> QED BY <1>2, <1>3, <1>4, <1>5, <1>6 DEF BindingTypes

\* Every step of BindingStore keeps it.
LEMMA BindingTypeStep == BindingTypes /\ [Store!Next]_(Store!vars) => BindingTypes'
<1> SUFFICES ASSUME BindingTypes, [Store!Next]_(Store!vars) PROVE BindingTypes'
  OBVIOUS
<1> USE DEF BindingTypes, BindingSteps
<1>0. /\ \A list \in Seq(Store!Binding(Store!Ids)) : \A id \in DOMAIN Store!Bound(list) :
           Store!Bound(list)[id] \in Store!Binding(Store!Ids) /\ Store!Bound(list)[id].id = id
      /\ Len(Stream) \in Nat
  BY StoreInstance, LenProperties, BoundType DEF Store!BindingAssumption
<1>1. CASE Store!Restart
  BY <1>0, <1>1 DEF Store!Restart
<1>2. CASE Store!Load
  <2>1. <<>> \in Seq(Store!Binding(Store!Ids))
    OBVIOUS
  <2>2. /\ seqs' \in SUBSET SeqIds /\ ts_' \in Seq(Store!Binding(Store!Ids))
        /\ UNCHANGED <<nvsSeqs, nvsTriggers, drawn, g_active, upload, changed>>
        /\ pc' = "seedSequences"
    BY <1>2, <2>1 DEF Store!Load
  <2> QED BY <2>2
<1>3. CASE Store!SeedSequences
  BY <1>3, DefaultType DEF Store!SeedSequences
<1>4. CASE Store!SeedTriggers
  <2>1. ts_' \in Seq(Store!Binding(Store!Ids)) /\ nvsTriggers' \in Seq(Store!Binding(Store!Ids))
    BY <1>4, DefaultType DEF Store!SeedTriggers
  <2> QED BY <1>0, <1>4, <2>1 DEF Store!SeedTriggers
<1>5. ASSUME NEW list \in Uploads, Store!PutTriggers(list) PROVE BindingTypes'
  <2>1. Cardinality(Store!Missing(list))' = Cardinality(Store!Missing(list))
    BY DEF Store!Missing
  <2> QED BY <1>5, <2>1, CountIs DEF Store!PutTriggers
<1>6. CASE Store!Fill
  BY <1>0, <1>6, ReplaceType, CountIs DEF Store!Fill
<1>7. CASE Store!Save \/ Store!SaveSequences
  BY <1>7 DEF Store!Save, Store!SaveSequences
<1>8. CASE Store!Apply
  BY <1>0, <1>8 DEF Store!Apply, Store!stores
<1>9. ASSUME NEW set \in SUBSET SeqIds, NEW new \in BOOLEAN, Store!EditSequences(set, new)
      PROVE  BindingTypes'
  BY <1>0, <1>9 DEF Store!EditSequences
<1>10. CASE UNCHANGED Store!vars
  BY <1>10 DEF Store!vars, Store!stores, Store!Missing
<1> QED BY <1>1, <1>2, <1>3, <1>4, <1>5, <1>6, <1>7, <1>8, <1>9, <1>10 DEF Store!Next

\* It implies what TLC checks.
LEMMA BindingTypesOK == BindingTypes => Store!TypeOK
<1> SUFFICES ASSUME BindingTypes PROVE Store!TypeOK
  OBVIOUS
<1>1. \A list \in Seq(Store!Binding(Store!Ids)) : Store!Range(list) \subseteq Store!Binding(Store!Ids)
  BY ElementOfSeq, LenProperties DEF Store!Range
<1>2. Len(Stream) \in Nat
  BY StoreInstance, LenProperties DEF Store!BindingAssumption
<1> QED BY <1>1, <1>2 DEF BindingTypes, Store!TypeOK, BindingSteps

-----------------------------------------------------------------------------
(* BindingStore: what is bound *)

\* What a boot has loaded, or a handler saved, is what is bound next: a boot that
\* could not decode the stored list has an empty one, and a handler may not have
\* saved one that does not fit.
BoundStored ==
  /\ pc \in {"seedSequences", "seedTriggers"} => ts_ \in {nvsTriggers, <<>>}
  /\ pc = "apply" /\ Store!Fits(ts_) => ts_ = nvsTriggers
  /\ pc \in {"idle", "saveSequences"} /\ nvsTriggers # <<>> /\ Store!Fits(ts_) =>
       g_active = Store!Bound(nvsTriggers)

\* Between handlers, what is bound is what NVS has for the next boot, for any
\* lists of any length that clients send and any restarts in between: a list that
\* did not fit is the exception while it lasts, and a list that could not be
\* decoded is none, as the defaults that are bound instead are stored too.
THEOREM BoundIsSavedEver == Store!Spec => []BoundIsSaved
<1>1. Store!Init => BoundStored
  BY DEF Store!Init, BoundStored
<1>2. BoundStored /\ [Store!Next]_(Store!vars) => BoundStored'
  <2> SUFFICES ASSUME BoundStored, [Store!Next]_(Store!vars) PROVE BoundStored'
    OBVIOUS
  <2> DEFINE now == Store!Bound(nvsTriggers)
             fits == Store!Fits(ts_)
  <2>0. /\ nvsTriggers' = nvsTriggers => now' = now
        /\ ts_' = nvsTriggers' => Store!Bound(ts_') = now'
        /\ ts_ = nvsTriggers' => Store!Bound(ts_) = now'
        /\ ts_' = ts_ => fits' = fits
    <3>1. now' = Store!Bound(nvsTriggers')
      BY DEF Store!Bound
    <3>2. now = Store!Bound(nvsTriggers)
      OBVIOUS
    <3>3. fits = Store!Fits(ts_) /\ fits' = Store!Fits(ts_')
      BY DEF Store!Fits
    <3> HIDE DEF now, fits
    <3> QED BY <3>1, <3>2, <3>3
  <2>i. BoundStored <=>
          /\ pc \in {"seedSequences", "seedTriggers"} => ts_ \in {nvsTriggers, <<>>}
          /\ pc = "apply" /\ fits => ts_ = nvsTriggers
          /\ pc \in {"idle", "saveSequences"} /\ nvsTriggers # <<>> /\ fits => g_active = now
    BY DEF BoundStored
  <2>j. BoundStored' <=>
          /\ pc' \in {"seedSequences", "seedTriggers"} => ts_' \in {nvsTriggers', <<>>}
          /\ pc' = "apply" /\ fits' => ts_' = nvsTriggers'
          /\ pc' \in {"idle", "saveSequences"} /\ nvsTriggers' # <<>> /\ fits' => g_active' = now'
    BY DEF BoundStored
  <2>k. Store!Save => nvsTriggers' = IF fits THEN ts_ ELSE nvsTriggers
    BY DEF Store!Save
  <2> HIDE DEF now, fits
  <2>1. ASSUME NEW list \in Uploads, Store!PutTriggers(list) PROVE BoundStored'
    BY <2>0, <2>i, <2>j, <2>1 DEF Store!PutTriggers
  <2>2. ASSUME NEW set \in SUBSET SeqIds, NEW new \in BOOLEAN, Store!EditSequences(set, new)
        PROVE  BoundStored'
    BY <2>0, <2>i, <2>j, <2>2 DEF Store!EditSequences
  <2>3. CASE \/ Store!Restart \/ Store!Load \/ Store!SeedSequences
             \/ Store!Fill \/ Store!Save \/ Store!SaveSequences
    BY <2>0, <2>i, <2>j, <2>k, <2>3 DEF Store!Restart, Store!Load, Store!SeedSequences, Store!Fill,
       Store!Save, Store!SaveSequences
  <2>4. CASE Store!SeedTriggers
    <3>1. g_active' = Store!Bound(ts_') /\ pc' = "idle" /\ ts_' = nvsTriggers'
      BY <2>i, <2>4 DEF Store!SeedTriggers
    <3> QED BY <2>0, <2>j, <3>1
  <2>5. CASE Store!Apply
    <3>1. /\ g_active' = Store!Bound(ts_) /\ pc' = "idle" /\ ts_' = ts_
          /\ fits => ts_ = nvsTriggers'
      BY <2>i, <2>5 DEF Store!Apply, Store!stores
    <3> QED BY <2>0, <2>j, <3>1
  <2>6. CASE UNCHANGED Store!vars
    BY <2>0, <2>i, <2>j, <2>6 DEF Store!vars, Store!stores
  <2> QED BY <2>1, <2>2, <2>3, <2>4, <2>5, <2>6 DEF Store!Next
<1>3. BoundStored => BoundIsSaved
  BY DEF BoundStored, BoundIsSaved, Store!BoundIsSaved
<1> QED BY <1>1, <1>2, <1>3, PTL DEF Store!Spec

-----------------------------------------------------------------------------
(* BindingStore: a fresh device *)

\* Until a handler changes a list the stores hold nothing but the defaults: each
\* list is empty or the seeded one, and a boot goes on with what it has seeded.
\* A list that a boot could not decode is empty to it, and seeded again.
FreshInv ==
  ~changed =>
    /\ pc \in {"load", "seedSequences", "seedTriggers", "idle"}
    /\ nvsSeqs \in {{}, {Default}} /\ nvsTriggers \in {<<>>, <<Store!DefaultBinding>>}
    /\ pc = "seedSequences" => seqs \in {{}, {Default}}
    /\ pc \in {"seedTriggers", "idle"} => seqs = {Default}
    /\ pc \in {"seedSequences", "seedTriggers"} => ts_ \in {<<>>, <<Store!DefaultBinding>>}
    /\ pc = "idle" => g_active = Store!Bound(<<Store!DefaultBinding>>)

\* The binding of the defaults is bound under its own id.
LEMMA BoundDefault ==
  /\ DefaultId \in DOMAIN Store!Bound(<<Store!DefaultBinding>>)
  /\ Store!Bound(<<Store!DefaultBinding>>)[DefaultId] = Store!DefaultBinding
<1> DEFINE list == <<Store!DefaultBinding>>
<1>1. DOMAIN list = {1} /\ list[1] = Store!DefaultBinding /\ Store!DefaultBinding.id = DefaultId
  BY DEF Store!DefaultBinding
<1>2. DefaultId \in DOMAIN Store!Bound(list)
  BY <1>1 DEF Store!Bound
<1>3. list \in Seq({Store!DefaultBinding})
  OBVIOUS
<1>4. Store!Bound(list)[DefaultId] \in {Store!DefaultBinding}
  BY <1>2, <1>3, BoundType
<1> QED BY <1>2, <1>4

\* A device nobody has edited answers at the default path with a sequence it has,
\* after any restarts at any step of earlier boots, and any lists they could not
\* decode.
THEOREM FreshDeviceWorksEver == Store!Spec => []FreshDeviceWorks
<1>1. Store!Init => FreshInv
  BY DEF Store!Init, FreshInv
<1>2. FreshInv /\ [Store!Next]_(Store!vars) => FreshInv'
  <2> SUFFICES ASSUME FreshInv, [Store!Next]_(Store!vars) PROVE FreshInv'
    OBVIOUS
  <2>1. ASSUME NEW list \in Uploads, Store!PutTriggers(list) PROVE FreshInv'
    BY <2>1 DEF Store!PutTriggers, FreshInv
  <2>2. ASSUME NEW set \in SUBSET SeqIds, NEW new \in BOOLEAN, Store!EditSequences(set, new)
        PROVE  FreshInv'
    BY <2>2 DEF Store!EditSequences, FreshInv
  <2>3. CASE Store!Restart \/ Store!Load \/ Store!SeedSequences
    BY <2>3 DEF Store!Restart, Store!Load, Store!SeedSequences, FreshInv
  <2>4. CASE Store!Fill \/ Store!Save \/ Store!SaveSequences \/ Store!Apply
    BY <2>4 DEF Store!Fill, Store!Save, Store!SaveSequences, Store!Apply, Store!stores, FreshInv
  <2>5. CASE Store!SeedTriggers
    <3>1. ~changed => ts_' = <<Store!DefaultBinding>>
      BY <2>5 DEF Store!SeedTriggers, FreshInv
    <3>2. g_active' = Store!Bound(ts_')
      BY <2>5 DEF Store!SeedTriggers
    <3>3. ~changed => g_active' = Store!Bound(<<Store!DefaultBinding>>)
      BY <3>1, <3>2
    <3> QED BY <2>5, <3>3 DEF Store!SeedTriggers, FreshInv, Store!Bound
  <2>6. CASE UNCHANGED Store!vars
    BY <2>6 DEF Store!vars, Store!stores, FreshInv, Store!Bound
  <2> QED BY <2>1, <2>2, <2>3, <2>4, <2>5, <2>6 DEF Store!Next
<1>3. FreshInv => FreshDeviceWorks
  BY BoundDefault DEF FreshInv, FreshDeviceWorks, Store!FreshDeviceWorks, Store!DefaultBinding
<1> QED BY <1>1, <1>2, <1>3, PTL DEF Store!Spec

-----------------------------------------------------------------------------
(* ConfigStore *)

Creds(c) == <<c.ssid, c.pass>>
Saving(t) == at[t] = "save"

\* Both tasks in the store is harm.
\* Two tasks in the store at a time is what harmed records; until then:
Alone == ~(Conf!InStore("web") /\ Conf!InStore("loop"))
\* The loop task saves a token only while a runtime boot goes on.
LoopRuns == at["loop"] \in {"rest", "save"} /\ (Saving("loop") => mode = "runtime")
\* A save past its first key has the namespace open.
Opened == \A t \in Conf!Tasks : Saving(t) /\ writes[t] # 0 => open
\* What the handler is about to assign has been asked for,
FormAsked ==
  at["web"] = "assign" =>
    /\ writes["web"] = 0
    /\ <<form.ssid, IF form.pass = Empty THEN cfg.pass ELSE form.pass>> \in asked
\* as has what a runtime boot uses,
CfgAsked ==
  (mode = "runtime" /\ at["web"] # "assign") \/ at["web"] \in {"save", "saved"} =>
    Creds(cfg) \in asked
\* what a save has written is what it found in memory,
Written ==
  \A t \in Conf!Tasks : Saving(t) =>
    /\ writes[t] \in 2..5 => nvs.ssid = cfg.ssid
    /\ writes[t] \in 3..5 => nvs.pass = cfg.pass
\* and NVS holds a pair that was asked for but between the two keys of a save.
NvsAsked ==
  (\A t \in Conf!Tasks : ~(Saving(t) /\ writes[t] = 2)) /\ Conf!hasAll(nvs) => Creds(nvs) \in asked

CredsInv == /\ Conf!TypeOK /\ LoopRuns
            /\ harmed \/ (Alone /\ Opened /\ FormAsked /\ CfgAsked /\ Written /\ NvsAsked)

\* The keys in the order of save().
LEMMA SaveOrder ==
  /\ DOMAIN Conf!SavedKeys = 1..4 /\ Len(Conf!SavedKeys) = 4
  /\ Conf!SavedKeys[1] = "ssid" /\ Conf!SavedKeys[2] = "pass"
  /\ Conf!SavedKeys[3] = "tok" /\ Conf!SavedKeys[4] = "fb"
BY DEF Conf!SavedKeys

\* There are two tasks.
LEMMA TwoTasks ==
  /\ Conf!Tasks = {"web", "loop"}
  /\ Conf!Other("web") = "loop"
  /\ Conf!Other("loop") = "web"
<1>1. \A t \in Conf!Tasks : \E u \in Conf!Tasks : u # t
  BY DEF Conf!Tasks
<1>2. /\ Conf!Other("web") \in Conf!Tasks
      /\ Conf!Other("web") # "web"
      /\ Conf!Other("loop") \in Conf!Tasks
      /\ Conf!Other("loop") # "loop"
  BY <1>1 DEF Conf!Other, Conf!Tasks
<1> QED BY <1>2 DEF Conf!Tasks

\* CredsInv holds at first.
LEMMA CredsInit == Conf!Init => CredsInv
<1> SUFFICES ASSUME Conf!Init PROVE CredsInv
  OBVIOUS
<1>1. Conf!TypeOK
  <2>1. Conf!Blank \in Conf!Configs /\ Conf!NoForm \in Conf!Forms
    BY DEF Conf!Configs, Conf!Blank, Conf!Forms, Conf!NoForm
  <2>2. at \in [Conf!Tasks -> {"rest", "assign", "save", "clear", "force", "saved", "cleared", "forced"}]
        /\ writes \in [Conf!Tasks -> 0..Len(Conf!SavedKeys) + 1]
    BY SaveOrder DEF Conf!Init
  <2> QED BY <2>1, <2>2 DEF Conf!Init, Conf!TypeOK
<1> QED BY <1>1, SaveOrder DEF Conf!Init, CredsInv, LoopRuns, Alone, Opened, FormAsked,
           CfgAsked, Written,
           NvsAsked, Conf!InStore, Saving, Creds, Conf!Blank, Conf!hasAll, Conf!Tasks

\* Every step of ConfigStore keeps the types.
LEMMA ConfigTypeStep == Conf!TypeOK /\ [Conf!Next]_(Conf!vars) => Conf!TypeOK'
<1> SUFFICES ASSUME Conf!TypeOK, [Conf!Next]_(Conf!vars) PROVE Conf!TypeOK'
  OBVIOUS
<1> USE DEF Conf!TypeOK
<1>0. ASSUME Conf!Boot, harmed' \in BOOLEAN PROVE Conf!TypeOK'
  <2>1. mode' \in {"setup", "runtime"} /\ form' \in Conf!Forms
    BY <1>0 DEF Conf!Boot, Conf!NoForm, Conf!Forms
  <2>2. at' \in [Conf!Tasks -> {"rest", "assign", "save", "clear", "force", "saved", "cleared", "forced"}]
        /\ writes' \in [Conf!Tasks -> 0..Len(Conf!SavedKeys) + 1]
    BY <1>0, SaveOrder DEF Conf!Boot
  <2> QED BY <1>0, <2>1, <2>2 DEF Conf!Boot
<1>1. ASSUME NEW t \in Conf!Tasks, Conf!Begin(t) PROVE Conf!TypeOK'
  BY <1>1, SaveOrder DEF Conf!Begin
<1>2. ASSUME NEW t \in Conf!Tasks, Conf!Put(t) PROVE Conf!TypeOK'
  <2>1. writes[t] \in 1..4 /\ writes' \in [Conf!Tasks -> 0..5]
    BY <1>2, SaveOrder DEF Conf!Put
  <2>2. nvs' \in Conf!Configs
    BY <1>2, <2>1, SaveOrder DEF Conf!Put, Conf!Configs
  <2> QED BY <1>2, <2>1, <2>2, SaveOrder DEF Conf!Put
<1>3. ASSUME NEW t \in Conf!Tasks, Conf!EndSave(t) PROVE Conf!TypeOK'
  <2>1. at' \in [Conf!Tasks -> {"rest", "assign", "save", "clear", "force", "saved", "cleared", "forced"}]
    BY <1>3 DEF Conf!EndSave, Conf!Leave
  <2>2. open' = FALSE /\ writes' = writes
    BY <1>3 DEF Conf!EndSave, Conf!Leave
  <2> QED BY <1>3, <2>1, <2>2 DEF Conf!EndSave
<1>4. CASE Conf!Clear
  BY <1>4 DEF Conf!Clear, Conf!Leave, Conf!Blank, Conf!Configs
<1>5. CASE Conf!Force
  <2>1. force' \in BOOLEAN
    BY <1>5 DEF Conf!Force
  <2>2. at' \in [Conf!Tasks -> {"rest", "assign", "save", "clear", "force", "saved", "cleared", "forced"}]
    BY <1>5 DEF Conf!Force, Conf!Leave
  <2> QED BY <1>5, <2>1, <2>2 DEF Conf!Force, Conf!Leave
<1>6. CASE Conf!Assigned
  <2>1. cfg' \in Conf!Configs
    <3>1. form.ssid \in Ssids \cup {Empty} /\ form.pass \in Passes \cup {Empty} /\ form.fb \in BOOLEAN
      BY DEF Conf!Forms
    <3>2. PICK p \in Passes \cup {Empty, Torn} :
            cfg' = [cfg EXCEPT !.ssid = form.ssid, !.fb = form.fb, !.pass = p]
      BY <1>6, <3>1 DEF Conf!Assigned, Conf!Configs
    <3> QED BY <3>1, <3>2 DEF Conf!Configs
  <2>2. at' \in [Conf!Tasks -> {"rest", "assign", "save", "clear", "force", "saved", "cleared", "forced"}]
    BY <1>6 DEF Conf!Assigned, Conf!Leave
  <2>3. form' \in Conf!Forms
    BY <1>6 DEF Conf!Assigned, Conf!NoForm, Conf!Forms
  <2> QED BY <1>6, <2>1, <2>2, <2>3 DEF Conf!Assigned, Conf!Leave
<1>7. CASE Conf!PostReset
  BY <1>7, TwoTasks DEF Conf!PostReset, Conf!Enter, Conf!InStore
<1>8. CASE Conf!PostSetup
  BY <1>8, TwoTasks DEF Conf!PostSetup, Conf!Enter, Conf!InStore
<1>9. ASSUME NEW f \in Conf!Forms, Conf!PostSave(f) PROVE Conf!TypeOK'
  <2>1. cfg' \in Conf!Configs
    <3>1. PICK p \in Passes \cup {Empty, Torn} : cfg' = [cfg EXCEPT !.ssid = Torn, !.pass = p]
      BY <1>9 DEF Conf!PostSave, Conf!Configs, Conf!Forms
    <3> QED BY <3>1 DEF Conf!Configs
  <2>2. /\ at' \in [Conf!Tasks -> {"rest", "assign", "save", "clear", "force", "saved", "cleared", "forced"}]
        /\ writes' \in [Conf!Tasks -> 0..Len(Conf!SavedKeys) + 1]
    BY <1>9, SaveOrder, TwoTasks DEF Conf!PostSave, Conf!Enter
  <2>3. harmed' \in BOOLEAN
    BY <1>9 DEF Conf!PostSave, Conf!Enter
  <2> QED BY <1>9, <2>1, <2>2, <2>3 DEF Conf!PostSave
<1>10. ASSUME NEW t \in Tokens, Conf!NewToken(t) PROVE Conf!TypeOK'
  <2>1. cfg' \in Conf!Configs
    BY <1>10 DEF Conf!NewToken, Conf!Configs
  <2>2. /\ at' \in [Conf!Tasks -> {"rest", "assign", "save", "clear", "force", "saved", "cleared", "forced"}]
        /\ writes' \in [Conf!Tasks -> 0..Len(Conf!SavedKeys) + 1]
    BY <1>10, SaveOrder, TwoTasks DEF Conf!NewToken, Conf!Enter
  <2>3. harmed' \in BOOLEAN
    BY <1>10 DEF Conf!NewToken, Conf!Enter
  <2> QED BY <1>10, <2>1, <2>2, <2>3 DEF Conf!NewToken
<1>11. CASE Conf!Reboot
  <2>1. harmed' \in BOOLEAN
    BY <1>11 DEF Conf!Reboot
  <2> QED BY <1>0, <1>11, <2>1 DEF Conf!Reboot
<1>12. CASE Conf!PowerLoss
  <2>1. harmed' \in BOOLEAN
    BY <1>12 DEF Conf!PowerLoss
  <2> QED BY <1>0, <1>12, <2>1 DEF Conf!PowerLoss
<1>13. CASE UNCHANGED Conf!vars
  BY <1>13 DEF Conf!vars
<1> QED BY <1>1, <1>2, <1>3, <1>4, <1>5, <1>6, <1>7, <1>8, <1>9, <1>10, <1>11, <1>12, <1>13
           DEF Conf!Next

\* Every step keeps CredsInv: a save that is cut off between name and password
\* is harm, and one that is not leaves a pair that was asked for.
LEMMA CredsStep == CredsInv /\ [Conf!Next]_(Conf!vars) => CredsInv'
<1> SUFFICES ASSUME CredsInv, [Conf!Next]_(Conf!vars) PROVE CredsInv'
  OBVIOUS
<1>0. Conf!TypeOK /\ Conf!TypeOK' /\ LoopRuns
  BY ConfigTypeStep DEF CredsInv
<1>a. /\ at \in [Conf!Tasks -> {"rest", "assign", "save", "clear", "force", "saved", "cleared", "forced"}]
      /\ writes \in [Conf!Tasks -> 0..5] /\ Conf!Tasks = {"web", "loop"}
      /\ cfg \in Conf!Configs /\ nvs \in Conf!Configs
  BY <1>0, SaveOrder, TwoTasks DEF Conf!TypeOK
<1>b. harmed \in BOOLEAN /\ harmed' \in BOOLEAN
  BY <1>0 DEF Conf!TypeOK
<1>c. harmed => harmed'
  <2> SUFFICES ASSUME harmed' # (harmed \/ harmed') PROVE FALSE
    BY <1>b
  <2>1. CASE harmed' = harmed
    BY <1>b, <2>1
  <2>2. ASSUME NEW more, harmed' = (harmed \/ more) PROVE FALSE
    BY <1>b, <2>2
  <2> QED BY <2>1, <2>2 DEF Conf!Next, Conf!Begin, Conf!Put, Conf!EndSave, Conf!Clear,
             Conf!Force, Conf!Assigned, Conf!PostReset,
             Conf!PostSetup, Conf!PostSave, Conf!NewToken, Conf!Enter, Conf!Reboot,
             Conf!PowerLoss, Conf!vars
<1>d. LoopRuns'
  <2> USE DEF LoopRuns, Saving
  <2>1. ASSUME NEW t \in Conf!Tasks, Conf!Begin(t) \/ Conf!Put(t) PROVE LoopRuns'
    BY <1>0, <2>1 DEF Conf!Begin, Conf!Put
  <2>2. ASSUME NEW t \in Conf!Tasks, Conf!EndSave(t) PROVE LoopRuns'
    BY <1>a, <1>0, <2>2 DEF Conf!EndSave, Conf!Leave
  <2>3. CASE Conf!Clear \/ Conf!Force \/ Conf!Assigned \/ Conf!PostReset \/ Conf!PostSetup
    <3>1. at'["loop"] = at["loop"] /\ mode' = mode
      BY <1>a, <2>3 DEF Conf!Clear, Conf!Force, Conf!Assigned, Conf!PostReset, Conf!PostSetup,
         Conf!Leave, Conf!Enter
    <3> QED BY <1>0, <3>1
  <2>4. ASSUME NEW f \in Conf!Forms, Conf!PostSave(f) PROVE LoopRuns'
    BY <1>a, <1>0, <2>4 DEF Conf!PostSave, Conf!Enter
  <2>5. ASSUME NEW t \in Tokens, Conf!NewToken(t) PROVE LoopRuns'
    BY <1>a, <1>0, <2>5 DEF Conf!NewToken, Conf!Enter
  <2>6. CASE Conf!Reboot \/ Conf!PowerLoss
    BY <1>a, <2>6 DEF Conf!Reboot, Conf!PowerLoss, Conf!Boot
  <2>7. CASE UNCHANGED Conf!vars
    BY <1>0, <2>7 DEF Conf!vars
  <2> QED BY <2>1, <2>2, <2>3, <2>4, <2>5, <2>6, <2>7 DEF Conf!Next
<1> DEFINE Calm == Alone /\ Opened /\ FormAsked /\ CfgAsked /\ Written /\ NvsAsked
<1> SUFFICES ASSUME ~harmed', ~harmed PROVE Calm'
  BY <1>0, <1>b, <1>c, <1>d DEF CredsInv
<1>e. Calm
  BY DEF CredsInv
<1> USE DEF Alone, Opened, FormAsked, CfgAsked, Written, NvsAsked, Conf!InStore, Saving, Creds
<1>1. ASSUME NEW t \in Conf!Tasks, Conf!Begin(t) PROVE Calm'
  BY <1>1, <1>a, <1>e DEF Conf!Begin
<1>2. ASSUME NEW t \in Conf!Tasks, Conf!Put(t) PROVE Calm'
  <2>1. /\ writes[t] \in 1..4 /\ writes'[t] = writes[t] + 1 /\ open
        /\ \A u \in Conf!Tasks : u # t => writes'[u] = writes[u] /\ ~Conf!InStore(u)
    BY <1>2, <1>a, <1>e, SaveOrder DEF Conf!Put
  <2>2. /\ writes[t] = 1 => nvs' = [nvs EXCEPT !.ssid = cfg.ssid]
        /\ writes[t] = 2 => nvs' = [nvs EXCEPT !.pass = cfg.pass]
        /\ writes[t] = 3 => nvs' = [nvs EXCEPT !.tok = cfg.tok]
        /\ writes[t] = 4 => nvs' = [nvs EXCEPT !.fb = cfg.fb]
    BY <1>2, <2>1, SaveOrder DEF Conf!Put
  <2>3. /\ nvs'.ssid = IF writes[t] = 1 THEN cfg.ssid ELSE nvs.ssid
        /\ nvs'.pass = IF writes[t] = 2 THEN cfg.pass ELSE nvs.pass
    BY <1>a, <2>1, <2>2 DEF Conf!Configs
  <2>4. at' = at /\ cfg' = cfg /\ asked' = asked /\ mode' = mode /\ form' = form /\ open' = open
    BY <1>2 DEF Conf!Put
  <2>5. Alone' /\ Opened' /\ FormAsked' /\ CfgAsked' 
    BY <1>2, <1>a, <1>e, <2>1, <2>4
  <2>6. Written'
    BY <1>2, <1>a, <1>e, <2>1, <2>3, <2>4
  <2>7. NvsAsked'
    <3>1. at["web"] # "assign" /\ Creds(cfg) \in asked
      BY <1>0, <1>2, <1>a, <1>e, <2>1 DEF Conf!Put, LoopRuns
    <3>2. CASE writes[t] = 1
      BY <1>2, <2>1, <2>4, <3>2 DEF Conf!Put
    <3>3. CASE writes[t] \in 2..4
      <4>1. nvs.ssid = cfg.ssid /\ (writes[t] \in 3..4 => nvs.pass = cfg.pass)
        BY <1>e, <1>2, <3>3 DEF Conf!Put
      <4>2. nvs'.ssid = cfg.ssid /\ nvs'.pass = cfg.pass
        BY <2>3, <3>3, <4>1
      <4> QED BY <2>4, <3>1, <4>2
    <3> QED BY <2>1, <3>2, <3>3
  <2> QED BY <2>5, <2>6, <2>7
<1>3. ASSUME NEW t \in Conf!Tasks, Conf!EndSave(t) PROVE Calm'
  BY <1>3, <1>a, <1>e, <1>0, SaveOrder DEF Conf!EndSave, Conf!Leave, LoopRuns, Conf!hasAll
<1>4. CASE Conf!Clear
  BY <1>4, <1>a, <1>e, <1>0 DEF Conf!Clear, Conf!Leave, Conf!Blank, Conf!hasAll, LoopRuns
<1>5. CASE Conf!Force
  <2>1. /\ at["web"] = "force" /\ at' = [at EXCEPT !["web"] = "forced"]
        /\ UNCHANGED <<mode, cfg, nvs, form, asked, writes>>
    BY <1>5 DEF Conf!Force, Conf!Leave
  <2>2. at["loop"] # "save" /\ at["loop"] \in {"rest", "save"} /\ at'["loop"] = at["loop"]
    BY <1>0, <1>a, <1>e, <2>1 DEF LoopRuns
  <2> QED BY <1>a, <1>e, <2>1, <2>2 DEF Conf!hasAll
<1>6. CASE Conf!Assigned
  <2>1. /\ at["web"] = "assign" /\ at' = [at EXCEPT !["web"] = "save"]
        /\ UNCHANGED <<mode, nvs, open, asked, writes>>
    BY <1>6 DEF Conf!Assigned, Conf!Leave
  <2>2. at["loop"] # "save" /\ at["loop"] \in {"rest", "save"} /\ at'["loop"] = at["loop"]
    BY <1>0, <1>a, <1>e, <2>1 DEF LoopRuns
  <2>3. Creds(cfg') = <<form.ssid, IF form.pass = Empty THEN cfg.pass ELSE form.pass>>
    BY <1>6, <1>a DEF Conf!Assigned, Conf!Configs
  <2>4. Creds(cfg') \in asked'
    BY <1>e, <2>1, <2>3
  <2>5. ~Conf!InStore("loop") /\ Alone' /\ Opened' /\ NvsAsked' /\ FormAsked'
    BY <1>a, <1>e, <2>1, <2>2 DEF Conf!hasAll
  <2>6. Written'
    BY <1>a, <1>e, <2>1, <2>2
  <2>7. CfgAsked'
    BY <1>a, <2>1, <2>4
  <2> QED BY <2>5, <2>6, <2>7
<1>7. CASE Conf!PostReset
  BY <1>7, <1>a, <1>e, <1>0, TwoTasks DEF Conf!PostReset, Conf!Enter, Conf!hasAll, LoopRuns
<1>8. CASE Conf!PostSetup
  BY <1>8, <1>a, <1>e, <1>0, TwoTasks DEF Conf!PostSetup, Conf!Enter, Conf!hasAll, LoopRuns
<1>9. ASSUME NEW f \in Conf!Forms, Conf!PostSave(f) PROVE Calm'
  BY <1>9, <1>a, <1>e, <1>0, TwoTasks DEF Conf!PostSave, Conf!Enter, Conf!hasAll, LoopRuns,
     Conf!Configs
<1>10. ASSUME NEW t \in Tokens, Conf!NewToken(t) PROVE Calm'
  <2>1. /\ at["loop"] = "rest" /\ at' = [at EXCEPT !["loop"] = "save"]
        /\ writes' = [writes EXCEPT !["loop"] = 0] /\ ~Conf!InStore("web") /\ mode = "runtime"
        /\ UNCHANGED <<mode, nvs, open, asked, form>>
    BY <1>10, TwoTasks DEF Conf!NewToken, Conf!Enter
  <2>2. cfg'.ssid = cfg.ssid /\ cfg'.pass = cfg.pass
    BY <1>10, <1>a DEF Conf!NewToken, Conf!Configs
  <2> QED BY <1>a, <1>e, <2>1, <2>2 DEF Conf!hasAll
<1>11. CASE Conf!Boot /\ \A t \in Conf!Tasks : ~Conf!Cut(t)
  BY <1>11, <1>a, <1>e, <1>0, SaveOrder DEF Conf!Boot, Conf!Cut, Conf!hasAll, LoopRuns,
     Conf!Configs
<1>12. CASE Conf!Reboot
  BY <1>11, <1>12, <1>a, <1>b DEF Conf!Reboot, Conf!Cut
<1>13. CASE Conf!PowerLoss
  BY <1>11, <1>13, <1>b DEF Conf!PowerLoss
<1>14. CASE UNCHANGED Conf!vars
  BY <1>14, <1>e DEF Conf!vars, Conf!hasAll
<1> QED BY <1>1, <1>2, <1>3, <1>4, <1>5, <1>6, <1>7, <1>8, <1>9, <1>10, <1>12, <1>13, <1>14
           DEF Conf!Next

\* A runtime boot has a name and a password that were entered together, for any
\* networks and passwords, unless power was lost within a save or two tasks were
\* in the store at once.
THEOREM CredsBelongTogetherEver == Conf!Spec => []CredsBelongTogether
<1>1. CredsInv => CredsBelongTogether
  BY DEF CredsInv, CredsBelongTogether, Conf!CredsBelongTogether, CfgAsked, Creds
<1> QED BY <1>1, CredsInit, CredsStep, PTL DEF Conf!Spec

-----------------------------------------------------------------------------
(* All parts *)

\* A step of one part is a step of it or none of each of the others, so the
\* variables of all of them keep their types.
THEOREM PartsTypeCorrect == PartsSpec => []PartsTypeOK
<1> DEFINE AllTypes == TypeOK /\ BindingTypes /\ Conf!TypeOK
<1>1. PartsInit => AllTypes
  BY TypeInit, BindingTypeInit, CredsInit DEF PartsInit, CredsInv
<1>2. AllTypes /\ [PartsNext]_<<part, vars, bindingVars, configVars>> => AllTypes'
  <2> SUFFICES ASSUME AllTypes, [PartsNext]_<<part, vars, bindingVars, configVars>> PROVE AllTypes'
    OBVIOUS
  <2>1. [Next]_vars
    BY DEF PartsNext
  <2>2. [Store!Next]_(Store!vars)
    BY DEF PartsNext, bindingVars, Store!vars, Store!stores
  <2>3. [Conf!Next]_(Conf!vars)
    BY DEF PartsNext, configVars, Conf!vars
  <2> QED BY <2>1, <2>2, <2>3, TypeStep, BindingTypeStep, ConfigTypeStep
<1>3. AllTypes => PartsTypeOK
  BY BindingTypesOK DEF PartsTypeOK
<1> QED BY <1>1, <1>2, <1>3, PTL DEF PartsSpec
=============================================================================
