--------------------------- MODULE SequenceStore ---------------------------
(***************************************************************************)
(* The store of sequences (core/SequenceStore.cpp), the codec that writes  *)
(* it to NVS and reads it back (core/SequenceCodec.cpp), and the handlers  *)
(* of the web API that change it (ApiServer.cpp), with restarts between    *)
(* any two steps of a handler.                                             *)
(*                                                                         *)
(* A sequence is what its readers tell apart: its id, its call-sequence    *)
(* nodes (the callee, and whether every required argument is given), does  *)
(* it have a required parameter without a default, does it use an unknown  *)
(* block type, how much room its text takes, is it nested too deep to be   *)
(* read back, and the broken flag.                                         *)
(***************************************************************************)
EXTENDS Naturals, Sequences, FiniteSets, SequencesExt

CONSTANTS Ids,         \* the ids of sequences
          NoId,        \* the empty id of an upload, the missing sequenceId
          Bodies,      \* the sequences a client may send, without their id
          Uploads,     \* the lists a PUT of the whole list may carry
          Stream,      \* the ids newId() yields after a boot, in order
          Defaults,    \* the list seeded at boot when the store is empty
          Capacity,    \* how much an NVS string holds, in sizes of bodies
          MaxLen       \* bound on the lists that inserts build

\* deep: in a list, the sequence nests deeper than deserializeJson reads.  A
\* client may send it nonetheless: as a PUT of one sequence it is one level less
\* deep, and encodeNode adds objects that the upload did not have.
BodyShape == [calls : SUBSET [to : Ids \cup {NoId}, args : BOOLEAN],
              required : BOOLEAN, unknownBlock : BOOLEAN,
              size : Nat, deep : BOOLEAN]
Stored == {[id |-> i, body |-> b] : i \in Ids, b \in Bodies}
Uploaded == {[id |-> i, body |-> b] : i \in Ids \cup {NoId}, b \in Bodies}

\* Does the text of a list fit in an NVS string, and can it be read back?
Fits(list) == FoldSeq(LAMBDA s, total : s.body.size + total, 0, list) <= Capacity
Decodes(list) == \A i \in DOMAIN list : ~list[i].body.deep

ASSUME StoreAssumption ==
  /\ NoId \notin Ids
  /\ Bodies \subseteq BodyShape
  /\ Stream \in Seq(Ids)
  /\ MaxLen \in Nat /\ Capacity \in Nat
  /\ Defaults \in Seq(Stored)

ASSUME UploadAssumption == Uploads \subseteq Seq(Uploaded)

\* The defaults are compiled in: they can be saved and read back.
ASSUME DefaultsAssumption == Fits(Defaults) /\ Decodes(Defaults)

VARIABLES seqs_,       \* the list in memory
          nvs,         \* the list whose text NVS holds
          drawn,       \* how many ids newId() has yielded since the boot
          hpc,         \* the handler: "idle", "fill" or "save"
          upload       \* the list a PUT of the whole list carries

vars == <<seqs_, nvs, drawn, hpc, upload>>

-----------------------------------------------------------------------------
(* The codec: broken is computed when decoding and not written back *)

Decode(s) == [id |-> s.id, body |-> s.body, broken |-> s.body.unknownBlock]
Encode(s) == [id |-> s.id, body |-> s.body]

decodeList(list) == [i \in DOMAIN list |-> Decode(list[i])]
encodeList(list) == [i \in DOMAIN list |-> Encode(list[i])]

\* A text that deserializeJson refuses is the empty list.
decodeText(list) == decodeList(IF Decodes(list) THEN list ELSE <<>>)

-----------------------------------------------------------------------------
(* The store *)

\* findById: the first sequence with the id, 0 if there is none.
Positions(all, id) == {i \in DOMAIN all : all[i].id = id}
findById(all, id) == IF Positions(all, id) = {} THEN 0 ELSE Min(Positions(all, id))

\* A call-sequence node names a sequence of the list and gives the arguments
\* that one requires.
CallOk(all, c) ==
  /\ findById(all, c.to) # 0
  /\ all[findById(all, c.to)].body.required => c.args

CallsOk(all, i) == \A c \in all[i].body.calls : CallOk(all, c)

\* A sequence already broken stays so, whatever the others have become.
validateCallSequenceArgs(all) ==
  [i \in DOMAIN all |-> [all[i] EXCEPT !.broken = @ \/ ~CallsOk(all, i)]]

\* Mutant: uploads keep the empty id.
assignIdsForgotten(list) == list

\* Each upload without an id takes the next one newId() yields.
Draws(list) == Cardinality(Positions(list, NoId))
assignIds(list) ==
  [i \in DOMAIN list |->
     IF list[i].id # NoId THEN list[i]
     ELSE [list[i] EXCEPT !.id =
             Stream[drawn + Cardinality(Positions(list, NoId) \cap 1..i)]]]

upsert(all, s) ==
  LET at == findById(all, s.id) IN
  validateCallSequenceArgs(IF at = 0 THEN Append(all, s) ELSE ReplaceAt(all, at, s))

\* Mutant: the callers of the sequence are not looked at again.
removeByIdOnly(all, id) == RemoveAt(all, findById(all, id))

removeById(all, id) ==
  validateCallSequenceArgs(RemoveAt(all, findById(all, id)))

\* Mutant: a loaded list is not validated.
loadUnchecked(list) == decodeText(list)

load(list) == validateCallSequenceArgs(decodeText(list))

replaceAll(list) == validateCallSequenceArgs(decodeList(assignIds(list)))

-----------------------------------------------------------------------------
(* The handlers: change the list in memory, then save it whole *)

\* Mutant: the emptied list is saved before the new one is parsed.
PutListClearSaved ==
  /\ hpc = "idle"
  /\ \E list \in Uploads :
       /\ drawn + Draws(list) <= Len(Stream)
       /\ upload' = list
  /\ seqs_' = <<>> /\ nvs' = <<>>
  /\ hpc' = "fill"
  /\ UNCHANGED drawn

\* PUT /api/sequences empties the list first, to free its memory; a body
\* that is no array decodes to the empty list.
PutListClear ==
  /\ hpc = "idle"
  /\ \E list \in Uploads :
       /\ drawn + Draws(list) <= Len(Stream)
       /\ upload' = list
  /\ seqs_' = <<>>
  /\ hpc' = "fill"
  /\ UNCHANGED <<nvs, drawn>>

PutListFill ==
  /\ hpc = "fill"
  /\ seqs_' = replaceAll(upload)
  /\ drawn' = drawn + Draws(upload)
  /\ upload' = <<>>
  /\ hpc' = "save"
  /\ UNCHANGED nvs

\* PUT /api/sequence with an id: insert or replace.
PutOne(s) ==
  /\ hpc = "idle"
  /\ findById(seqs_, s.id) = 0 => Len(seqs_) < MaxLen
  /\ seqs_' = upsert(seqs_, Decode(s))
  /\ hpc' = "save"
  /\ UNCHANGED <<nvs, drawn, upload>>

\* PUT /api/sequence without an id: the server assigns one.
Insert(body) ==
  /\ hpc = "idle"
  /\ drawn < Len(Stream) /\ Len(seqs_) < MaxLen
  /\ seqs_' = upsert(seqs_, Decode([id |-> Stream[drawn + 1], body |-> body]))
  /\ drawn' = drawn + 1
  /\ hpc' = "save"
  /\ UNCHANGED <<nvs, upload>>

\* Mutant: the handler forgets to save.
DeleteUnsaved(id) ==
  /\ hpc = "idle"
  /\ findById(seqs_, id) # 0
  /\ seqs_' = removeById(seqs_, id)
  /\ UNCHANGED <<nvs, drawn, upload, hpc>>

\* DELETE /api/sequence?id= of a sequence there is (404 otherwise).
Delete(id) ==
  /\ hpc = "idle"
  /\ findById(seqs_, id) # 0
  /\ seqs_' = removeById(seqs_, id)
  /\ hpc' = "save"
  /\ UNCHANGED <<nvs, drawn, upload>>

\* save(): putString refuses a text that does not fit and keeps the old one;
\* its result is not looked at, and the client is answered "ok".
Save ==
  /\ hpc = "save"
  /\ nvs' = IF Fits(encodeList(seqs_)) THEN encodeList(seqs_) ELSE nvs
  /\ hpc' = "idle"
  /\ UNCHANGED <<seqs_, drawn, upload>>

\* Power loss or ESP.restart() at any moment, then setup(): load, and seed
\* the defaults if the list is empty, be it that nothing was read: they are
\* written over the text that could not be.  rand() starts over.
Restart ==
  /\ nvs' = IF load(nvs) = <<>> THEN Defaults ELSE nvs
  /\ seqs_' = load(nvs')
  /\ drawn' = 0 /\ upload' = <<>> /\ hpc' = "idle"

Init ==
  /\ nvs = Defaults /\ seqs_ = load(Defaults)
  /\ drawn = 0 /\ upload = <<>> /\ hpc = "idle"

Next ==
  \/ PutListClear \/ PutListFill \/ Save \/ Restart
  \/ \E s \in Stored : PutOne(s)
  \/ \E b \in Bodies : Insert(b)
  \/ \E id \in Ids : Delete(id)

Spec == Init /\ [][Next]_vars

-----------------------------------------------------------------------------
(* Type correctness *)

\* The list in memory is a list of sequences with ids (ids are assigned
\* before an upload enters the store); drawn stays within the stream.
TypeOK ==
  /\ seqs_ \in Seq([id : Ids, body : Bodies, broken : BOOLEAN])
  /\ nvs \in Seq(Stored)
  /\ drawn \in 0..Len(Stream)
  /\ hpc \in {"idle", "fill", "save"}
  /\ upload \in Seq(Uploaded)
  /\ hpc = "fill" => drawn + Draws(upload) <= Len(Stream)

-----------------------------------------------------------------------------
(* The broken flag *)

\* A sequence that /api/run would start has known blocks only, and every
\* sequence it calls is in the list and gets the arguments it requires, also
\* after that other sequence was replaced or deleted.
BrokenIsSound ==
  \A i \in DOMAIN seqs_ :
    ~seqs_[i].broken => CallsOk(seqs_, i) /\ ~seqs_[i].body.unknownBlock

\* The flag is exact when the list is loaded or replaced whole: the flag of an
\* earlier time, which is not cleared when the callee is repaired, does not
\* survive in NVS.
BrokenIsExact ==
  \A i \in DOMAIN seqs_ :
    seqs_[i].broken <=> ~CallsOk(seqs_, i) \/ seqs_[i].body.unknownBlock
LoadIsExact == [][(Restart \/ PutListFill) => BrokenIsExact']_vars

-----------------------------------------------------------------------------
(* Persistence *)

\* Once a handler has answered, a restart brings back the list it left in
\* memory, provided its text fits and is not nested too deep.
AnsweredIsSaved ==
  /\ hpc = "idle"
  /\ Fits(encodeList(seqs_)) /\ Decodes(seqs_)
  => encodeList(load(nvs)) = encodeList(seqs_)

\* What a restart finds is the list as a whole request left it, never the list
\* emptied at the start of a PUT, and it changes only by a save or by the seeding
\* of the defaults over a text that is empty or cannot be read.
Promise == INSTANCE DurableList WITH
  Lists <- Seq(Stored), Entries <- Stored,
  Storable <- {list \in Seq(Stored) : Fits(list)},
  Readable <- {list \in Seq(Stored) : Decodes(list)},
  shown <- encodeList(seqs_), committed <- nvs, phase <- hpc
KeepsPromise == Promise!AbsSpec

-----------------------------------------------------------------------------
(* What the repository says of the store *)

=============================================================================
