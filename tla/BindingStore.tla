---------------------------- MODULE BindingStore ----------------------------
(***************************************************************************)
(* The store of bindings (core/TriggerStore.cpp) beside that of sequences, *)
(* from the boot that loads and seeds them (enterRuntimeMode,              *)
(* seedDefaultsIfEmpty in main.cpp) through the handlers that change them, *)
(* with restarts between any two steps.  SequenceStore has the sequences   *)
(* themselves; here they are the set of their ids.  Both stores draw their *)
(* new ids from the one stream of std::rand().                             *)
(***************************************************************************)
EXTENDS Naturals, Sequences, FiniteSets, SequencesExt

CONSTANTS
  SeqIds, Default,     \* "example", the sequence of the defaults
  Paths, DefaultPath,  \* "/trigger"
  NoId,
  DefaultId,           \* "default-trigger"
  Stream,              \* the ids newId() yields after a boot, in order
  Lists,               \* the lists of bindings a client may send
  LongPaths            \* paths too long for a list that has one to fit NVS

Ids == Range(Stream) \cup {DefaultId}
Binding(ids) == [id : ids, path : Paths, to : SeqIds]
DefaultBinding == [id |-> DefaultId, path |-> DefaultPath, to |-> Default]

BindingAssumption ==
  /\ Default \in SeqIds /\ DefaultPath \in Paths /\ NoId \notin Ids
  /\ DefaultId \notin Range(Stream) /\ IsInjective(Stream) /\ Stream \in Seq(Range(Stream))
  /\ Lists \subseteq Seq(Binding(Ids \cup {NoId}))
  /\ LongPaths \subseteq Paths \ {DefaultPath}

VARIABLES
  seqs, ts_,             \* the lists in memory
  nvsSeqs, nvsTriggers,  \* what load() would find
  drawn,                 \* how many ids newId() has yielded since the boot
  g_active,              \* the bindings bound: id -> binding
  pc,                    \* the step the boot or the handler is at
  upload,                \* the list a PUT carries
  edited                 \* history: a handler has changed a list

stores == <<seqs, ts_, nvsSeqs, nvsTriggers>>
vars == <<stores, drawn, g_active, pc, upload, edited>>

Init ==
  /\ seqs = {} /\ ts_ = <<>> /\ nvsSeqs = {} /\ nvsTriggers = <<>>
  /\ drawn = 0 /\ g_active = <<>> /\ pc = "load" /\ upload = <<>>
  /\ edited = FALSE

-----------------------------------------------------------------------------
(* Boot *)

Restart ==
  /\ pc' = "load"
  /\ seqs' = {} /\ ts_' = <<>> /\ g_active' = <<>> /\ drawn' = 0 /\ upload' = <<>>
  /\ UNCHANGED <<nvsSeqs, nvsTriggers, edited>>

\* A text that is not decoded (no memory, sequences nested too deep) is an empty
\* list to the boot.
Load ==
  /\ pc = "load"
  /\ seqs' \in {nvsSeqs, {}} /\ ts_' \in {nvsTriggers, <<>>}
  /\ pc' = "seedSequences"
  /\ UNCHANGED <<nvsSeqs, nvsTriggers, drawn, g_active, upload, edited>>

\* applyBindings: a binding replaces the one bound before it under its id.
Bound(list) == [id \in {list[i].id : i \in DOMAIN list} |->
                  list[CHOOSE i \in DOMAIN list :
                         list[i].id = id /\ \A j \in i + 1..Len(list) : list[j].id # id]]

\* Mutant: one list that is not empty is enough to seed nothing.
SeedSequencesOrNone ==
  /\ pc = "seedSequences"
  /\ IF seqs = {}
       THEN /\ seqs' = {Default} /\ nvsSeqs' = {Default} /\ pc' = "seedTriggers"
            /\ UNCHANGED <<g_active>>
       ELSE /\ g_active' = Bound(ts_) /\ pc' = "idle"
            /\ UNCHANGED <<seqs, nvsSeqs>>
  /\ UNCHANGED <<ts_, nvsTriggers, drawn, upload, edited>>

SeedSequences ==
  /\ pc = "seedSequences" /\ pc' = "seedTriggers"
  /\ IF seqs = {} THEN seqs' = {Default} /\ nvsSeqs' = {Default}
                  ELSE UNCHANGED <<seqs, nvsSeqs>>
  /\ UNCHANGED <<ts_, nvsTriggers, drawn, g_active, upload, edited>>

\* Each list is seeded when it is empty, whatever the other one is; then
\* startRuntimeHttp binds what is there.
SeedTriggers ==
  /\ pc = "seedTriggers" /\ pc' = "idle"
  /\ IF ts_ = <<>> THEN ts_' = <<DefaultBinding>> /\ nvsTriggers' = <<DefaultBinding>>
                   ELSE UNCHANGED <<ts_, nvsTriggers>>
  /\ g_active' = Bound(ts_')
  /\ UNCHANGED <<seqs, nvsSeqs, drawn, upload, edited>>

-----------------------------------------------------------------------------
(* PUT /api/triggers *)

Missing(list) == {i \in DOMAIN list : list[i].id = NoId}

PutTriggers(list) ==
  /\ pc = "idle" /\ drawn + Cardinality(Missing(list)) <= Len(Stream)
  /\ ts_' = <<>> /\ upload' = list
  /\ pc' = "fill" /\ edited' = TRUE
  /\ UNCHANGED <<seqs, nvsSeqs, nvsTriggers, drawn, g_active>>

\* Mutant: an empty id is kept.
replaceAllAsIs(list) == list

replaceAll(list) ==
  [i \in DOMAIN list |-> IF list[i].id # NoId THEN list[i]
                         ELSE [list[i] EXCEPT !.id =
                                 Stream[drawn + Cardinality(Missing(list) \cap 1..i)]]]

Fill ==
  /\ pc = "fill" /\ pc' = "save"
  /\ ts_' = replaceAll(upload)
  /\ drawn' = drawn + Cardinality(Missing(upload)) /\ upload' = <<>>
  /\ UNCHANGED <<seqs, nvsSeqs, nvsTriggers, g_active, edited>>

\* An NVS string is one of 4000 characters at most; the body of a PUT has 32 KB.
Fits(list) == \A i \in DOMAIN list : list[i].path \notin LongPaths

\* Mutant: the list is bound and not saved.
SaveForgotten ==
  /\ pc = "save" /\ pc' = "apply"
  /\ UNCHANGED <<stores, drawn, g_active, upload, edited>>

\* putString leaves what NVS has when the text does not fit, and nobody looks at
\* what it returns.
Save ==
  /\ pc = "save" /\ pc' = "apply"
  /\ nvsTriggers' = IF Fits(ts_) THEN ts_ ELSE nvsTriggers
  /\ UNCHANGED <<seqs, ts_, nvsSeqs, drawn, g_active, upload, edited>>

Apply ==
  /\ pc = "apply" /\ pc' = "idle"
  /\ g_active' = Bound(ts_)
  /\ UNCHANGED <<stores, drawn, upload, edited>>

-----------------------------------------------------------------------------
(* The handlers of the sequences *)

\* PUT and DELETE, for the set of ids they leave; a new sequence draws an id.
EditSequences(set, new) ==
  /\ pc = "idle" /\ seqs' = set /\ edited' = TRUE /\ pc' = "saveSequences"
  /\ IF new THEN drawn < Len(Stream) /\ drawn' = drawn + 1 ELSE UNCHANGED drawn
  /\ UNCHANGED <<ts_, nvsSeqs, nvsTriggers, g_active, upload>>

SaveSequences ==
  /\ pc = "saveSequences" /\ pc' = "idle"
  /\ nvsSeqs' \in {seqs, nvsSeqs}     \* whether it fits is SequenceStore's matter
  /\ UNCHANGED <<seqs, ts_, nvsTriggers, drawn, g_active, upload, edited>>

Next ==
  \/ Restart \/ Load \/ SeedSequences \/ SeedTriggers
  \/ (\E list \in Lists : PutTriggers(list)) \/ Fill \/ Save \/ Apply
  \/ (\E set \in SUBSET SeqIds, new \in BOOLEAN : EditSequences(set, new)) \/ SaveSequences

Spec == Init /\ [][Next]_vars

-----------------------------------------------------------------------------
(* Properties *)

\* Lists hold bindings under ids, in memory and in NVS.
TypeOK ==
  /\ {seqs, nvsSeqs} \subseteq SUBSET SeqIds
  /\ Range(ts_) \cup Range(nvsTriggers) \subseteq Binding(Ids)
  /\ \A id \in DOMAIN g_active : g_active[id] \in Binding(Ids) /\ g_active[id].id = id
  /\ drawn \in 0..Len(Stream) /\ edited \in BOOLEAN
  /\ pc \in {"load", "seedSequences", "seedTriggers", "idle", "fill", "save", "apply",
             "saveSequences"}

\* A device nobody has edited answers at the path of the defaults once a boot is
\* over, and runs the sequence they name, even after power was lost between the
\* two saves of an earlier boot, or when a boot cannot decode one of the lists
\* (main.cpp:84-96).
FreshDeviceWorks ==
  pc = "idle" /\ ~edited =>
    \E id \in DOMAIN g_active : g_active[id].path = DefaultPath /\ g_active[id].to \in seqs

\* What is bound when a handler has answered, or a boot is over, is what NVS has
\* for the next boot: also after a list that was bound and not saved, as long as
\* the one in memory fits by now.  A stored list that a boot could not decode is
\* not bound, and the defaults it binds instead are stored over it; an emptied
\* list is seeded again.
BoundIsSaved ==
  pc = "idle" /\ nvsTriggers # <<>> /\ Fits(ts_) => g_active = Bound(nvsTriggers)
=============================================================================
