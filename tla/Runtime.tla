------------------------------ MODULE Runtime ------------------------------
(***************************************************************************)
(* A run and the edits of the store it runs from, composed: the web        *)
(* server's task changes the vector of SequenceStore and enqueues runs,    *)
(* while the loop task goes through the nodes of the sequences in progress *)
(* without a copy.                                                         *)
(*                                                                         *)
(* A sequence is its id, its top level (blocks and calls), its broken flag *)
(* and the buffer its nodes are in.  The vector moves its elements, so a   *)
(* buffer lives until its own sequence is replaced or erased.  To go on in *)
(* a freed buffer is undefined: the old nodes are still read, or the       *)
(* program crashes.  The queue is one slot (RunQueue has its races),       *)
(* arguments are left out, an edit and a lookup are one step each.         *)
(***************************************************************************)
EXTENDS Naturals, Sequences, FiniteSets, SequencesExt

CONSTANTS Ids, NoId, Work,     \* Work: any node but a call
          Bodies,              \* the top levels a client may PUT
          Stores,              \* the lists [id, body] a client may PUT
          MAX_CALL_DEPTH

RuntimeAssumption ==
  /\ NoId \notin Ids /\ Work \notin Ids
  /\ Bodies \subseteq Seq(Ids \cup {Work})
  /\ \A l \in Stores : l \in Seq([id : Ids, body : Bodies])
  /\ MAX_CALL_DEPTH \in Nat \ {0}

VARIABLES
  seqs,        \* SequenceStore::seqs_
  pending,     \* the queue: an id, or NoId
  frames,      \* the interpreter: a call in progress is the sequence's id, the
               \* buffer and nodes it goes through, and the next node
  touched      \* history: an edit has freed or replaced a sequence in progress

vars == <<seqs, pending, frames, touched>>

Live == {seqs[i].buf : i \in DOMAIN seqs}
OnStack == {frames[i].id : i \in DOMAIN frames}
Has(list, id) == \E i \in DOMAIN list : list[i].id = id
Find(list, id) == list[CHOOSE i \in DOMAIN list :
                         list[i].id = id /\ \A j \in 1..i - 1 : list[j].id # id]
Index(list, id) == CHOOSE i \in DOMAIN list : list[i] = Find(list, id)

\* Buffers that the store or the interpreter refers to, and the n-th that neither
\* does.
Used == Live \cup {frames[i].buf : i \in DOMAIN frames}
NewBuf(n) == CHOOSE b \in 1..Cardinality(Used) + n :
               b \notin Used /\ Cardinality((1..b) \ Used) = n

Missing(list, s) == \E i \in DOMAIN s.body : s.body[i] \in Ids /\ ~Has(list, s.body[i])

\* validateCallSequenceArgs only ever sets the flag.
validate(list) == [i \in DOMAIN list |->
                     [list[i] EXCEPT !.broken = @ \/ Missing(list, list[i])]]
Whole(list) == validate([i \in DOMAIN list |->
                 [id |-> list[i].id, body |-> list[i].body, broken |-> FALSE, buf |-> NewBuf(i)]])

\* The state after a client has emptied the store; boot itself seeds it.
Init ==
  /\ seqs = <<>> /\ pending = NoId /\ frames = <<>>
  /\ touched = FALSE

-----------------------------------------------------------------------------
(* The web server's task *)

Touch(ids) == touched' = (touched \/ ids \cap OnStack # {})
web == <<pending, frames>>

PutList(list) ==
  /\ seqs' = Whole(list)
  /\ Touch(Ids)
  /\ UNCHANGED web

PutOne(id, body) ==
  /\ LET s == [id |-> id, body |-> body, broken |-> FALSE, buf |-> NewBuf(1)]
     IN seqs' = validate(IF Has(seqs, id) THEN [seqs EXCEPT ![Index(seqs, id)] = s]
                                          ELSE Append(seqs, s))
  /\ Touch(IF Has(seqs, id) THEN {id} ELSE {})
  /\ UNCHANGED web

\* Mutant: the vector that is left is built anew from copies.
DeleteCopies(id) ==
  /\ Has(seqs, id)
  /\ seqs' = validate([i \in 1..Len(seqs) - 1 |->
                         [RemoveAt(seqs, Index(seqs, id))[i] EXCEPT !.buf = NewBuf(i)]])
  /\ Touch({id})
  /\ UNCHANGED web

Delete(id) ==
  /\ Has(seqs, id)
  /\ seqs' = validate(RemoveAt(seqs, Index(seqs, id)))
  /\ Touch({id})
  /\ UNCHANGED web

\* enqueueRun: a full queue drops the request, and the handlers do not hear of it.
enqueueRun(id) == pending' = IF pending = NoId THEN id ELSE pending

PostRun(id) ==
  /\ enqueueRun(id)
  /\ IF ~Has(seqs, id) THEN FALSE ELSE ~Find(seqs, id).broken
  /\ UNCHANGED <<seqs, frames, touched>>

\* A binding names the sequence it was given, whatever has become of it.
Fire(id) ==
  /\ enqueueRun(id)
  /\ UNCHANGED <<seqs, frames, touched>>

-----------------------------------------------------------------------------
(* The loop task *)

Frame(s) == [id |-> s.id, buf |-> s.buf, body |-> s.body, pos |-> 1]
Top == Last(frames)
Node == Top.body[Top.pos]
InBody == frames # <<>> /\ Top.pos <= Len(Top.body)

Onward == [frames EXCEPT ![Len(frames)].pos = @ + 1]
Fail == frames' = <<>>
loopOnly == <<seqs, pending>>
Ended == touched' = (touched /\ frames' # <<>>)

Take ==
  /\ frames = <<>> /\ pending # NoId
  /\ pending' = NoId
  /\ frames' = IF Has(seqs, pending) THEN <<Frame(Find(seqs, pending))>> ELSE <<>>
  /\ Ended
  /\ UNCHANGED seqs

\* Mutant: a block that fails starts its sequence over.
BlockStartsOver ==
  /\ InBody /\ Node = Work
  /\ frames' \in {Onward, [frames EXCEPT ![Len(frames)].pos = 1]}
  /\ Ended
  /\ UNCHANGED loopOnly

Block ==
  /\ InBody /\ Node = Work
  /\ frames' = Onward \/ Fail
  /\ Ended
  /\ UNCHANGED loopOnly

Callable(id) ==
  /\ id \notin OnStack /\ Len(frames) < MAX_CALL_DEPTH
  /\ Has(seqs, id) /\ ~Find(seqs, id).broken

Call ==
  /\ InBody /\ Node \in Ids
  /\ IF Callable(Node) THEN frames' = Append(Onward, Frame(Find(seqs, Node))) ELSE Fail
  /\ Ended
  /\ UNCHANGED loopOnly

Return ==
  /\ frames # <<>> /\ ~InBody
  /\ frames' = Front(frames)
  /\ Ended
  /\ UNCHANGED loopOnly

\* The buffer of a call in progress is gone: the program crashes and boots.
Crash ==
  /\ \E i \in DOMAIN frames : frames[i].buf \notin Live
  /\ Fail
  /\ seqs' = validate([i \in DOMAIN seqs |-> [seqs[i] EXCEPT !.broken = FALSE]])
  /\ pending' = NoId /\ Ended

LoopStep == Take \/ Block \/ Call \/ Return \/ Crash

Next ==
  \/ \E list \in Stores : PutList(list)
  \/ \E id \in Ids : Delete(id) \/ PostRun(id) \/ Fire(id) \/ \E b \in Bodies : PutOne(id, b)
  \/ LoopStep

\* The loop task is scheduled, and every block returns.
Fairness == WF_vars(LoopStep)

Spec == Init /\ [][Next]_vars /\ Fairness

-----------------------------------------------------------------------------
(* Properties *)

\* Every variable keeps its type.
TypeOK ==
  /\ \A i \in DOMAIN seqs : /\ seqs[i].id \in Ids /\ seqs[i].body \in Bodies
                            /\ seqs[i].broken \in BOOLEAN /\ seqs[i].buf \in Nat
  /\ \A i, j \in DOMAIN seqs : i # j => seqs[i].buf # seqs[j].buf
  /\ pending \in Ids \cup {NoId}
  /\ \A i \in DOMAIN frames : frames[i].pos \in 1..Len(frames[i].body) + 1
  /\ touched \in BOOLEAN

\* Edits of other sequences do not pull the nodes from under a run: as long as
\* nothing it is in the middle of is replaced or deleted, every buffer it goes
\* through lives, and holds what it is going through.
FramesLive ==
  ~touched => \A i \in DOMAIN frames : \E j \in DOMAIN seqs :
                seqs[j].buf = frames[i].buf /\ seqs[j].body = frames[i].body

\* A run ends, however its callees are changed while it goes on: edits may
\* close a circle of calls behind it.
RunEnds == frames # <<>> ~> frames = <<>>

-----------------------------------------------------------------------------
(* What the repository says *)

\* The sequence builder's design (4.1): a broken sequence refuses to run.
BrokenNeverRuns ==
  [][Take /\ frames' # <<>> => ~Find(seqs, pending).broken]_vars
=============================================================================
