---------------------------- MODULE DurableList ----------------------------
(***************************************************************************)
(* What the web API promises of a stored list (docs, "Web UI": a PUT saves *)
(* the whole list atomically).  Each request is applied, whole, to the     *)
(* list shown, and then the list shown is committed, whole, if the storage *)
(* takes it.  A restart shows what was committed last, or the defaults if  *)
(* that is empty or cannot be read.                                        *)
(***************************************************************************)
EXTENDS Sequences, SequencesExt

CONSTANTS Lists,            \* the lists a request may put in place
          Entries,          \* the entries a request may put in the list
          Ids,              \* the ids a request may delete
          Storable,         \* the lists the storage takes
          Readable,         \* the lists it can give back
          Defaults          \* the list a restart puts in place of none

VARIABLES shown,            \* the list the device works with
          committed,        \* the list a restart would look for
          phase             \* of the request: "idle", "fill" or "save"

absVars == <<shown, committed, phase>>

AbsInit == shown = Defaults /\ committed = Defaults /\ phase = "idle"

\* The list after a request: an entry takes the place of the first with its id.
Position(list, id) == SelectInSeq(list, LAMBDA e : e.id = id)

Put(list, e) == IF Position(list, e.id) = 0 THEN Append(list, e)
                ELSE ReplaceAt(list, Position(list, e.id), e)

Delete(list, id) == IF Position(list, id) = 0 THEN list
                    ELSE RemoveAt(list, Position(list, id))

\* A request for another list takes the one shown away first.
Clear ==
  /\ phase = "idle" /\ phase' = "fill"
  /\ shown' = <<>>
  /\ UNCHANGED committed

Fill ==
  /\ phase = "fill" /\ phase' = "save"
  /\ shown' \in Lists
  /\ UNCHANGED committed

Change ==
  /\ phase = "idle" /\ phase' = "save"
  /\ \/ \E e \in Entries : shown' = Put(shown, e)
     \/ \E id \in Ids : shown' = Delete(shown, id)
  /\ UNCHANGED committed

Commit ==
  /\ phase = "save" /\ phase' = "idle"
  /\ committed' = IF shown \in Storable THEN shown ELSE committed
  /\ UNCHANGED shown

\* At any moment: the request in hand is forgotten.
Restart ==
  /\ phase' = "idle"
  /\ committed' = IF committed \in Readable \ {<<>>} THEN committed ELSE Defaults
  /\ shown' = committed'

AbsNext == Clear \/ Fill \/ Change \/ Commit \/ Restart

AbsSpec == AbsInit /\ [][AbsNext]_absVars
=============================================================================
