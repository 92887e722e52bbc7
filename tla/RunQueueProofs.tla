-------------------------- MODULE RunQueueProofs --------------------------
(***************************************************************************)
(* Proofs about RunQueue, for any number of tasks and calls and for both   *)
(* kinds of scheduling.                                                    *)
(***************************************************************************)
EXTENDS RunQueue, FiniteSetTheorems, SequenceTheorems, TLAPS

USE QueueAssumption DEF QueueAssumption

-----------------------------------------------------------------------------
(* Type correctness *)

\* A task inside enqueueRun is making a call.
Identified == \A p \in Producers : pc[p] # "idle" => call[p] # 0

TypeInv == TypeOK /\ Identified

\* A step of a task changes the place of that task alone.
LEMMA GotoPlaces ==
  ASSUME TypeOK, NEW t \in Tasks, NEW from, NEW to \in ProducerPc \cup LoopPc,
         Goto(t, from, to),
         t = Loop => to \in LoopPc, t # Loop => to \in ProducerPc
  PROVE  /\ pc[t] = from
         /\ pc'[t] = to
         /\ \A u \in Tasks \ {t} : pc'[u] = pc[u]
         /\ pc' \in [Tasks -> ProducerPc \cup LoopPc]
         /\ \A p \in Producers : pc'[p] \in ProducerPc
         /\ pc'[Loop] \in LoopPc
BY DEF TypeOK, Goto, Tasks

LEMMA TypeInit == Init => TypeInv
<1> SUFFICES ASSUME Init PROVE TypeInv
  OBVIOUS
<1>1. /\ calls \in Seq([args : BOOLEAN]) /\ Len(calls) = 0
      /\ runs \in Seq([id : {0, Torn} \cup Made, args : {0, Torn} \cup Made])
  BY DEF Init
<1>2. /\ pc \in [Tasks -> ProducerPc \cup LoopPc]
      /\ \A p \in Producers : pc[p] = "idle" /\ pc[p] \in ProducerPc
      /\ pc[Loop] \in LoopPc
  BY DEF Init, Tasks, ProducerPc, LoopPc
<1>3. call \in [Producers -> {0} \cup Made] /\ Len(calls) <= MaxCalls
  BY <1>1 DEF Init
<1>4. /\ sequence_pending_ \in BOOLEAN /\ running_ \in BOOLEAN
      /\ pending_seq_id_ = 0 /\ pending_args_ = 0 /\ sid = 0
      /\ raised = {} /\ overlapped = {}
  BY DEF Init
<1>5. TypeOK
  BY <1>1, <1>2, <1>3, <1>4 DEF TypeOK
<1> QED BY <1>2, <1>5 DEF TypeInv, Identified

LEMMA TypeStep == TypeInv /\ [Next]_vars => TypeInv'
<1> SUFFICES ASSUME TypeInv, [Next]_vars PROVE TypeInv'
  OBVIOUS
<1> USE DEF TypeInv
<1>1. ASSUME NEW p \in Producers, Request(p) PROVE TypeInv'
  <2>1. PICK args \in BOOLEAN : calls' = Append(calls, [args |-> args])
    BY <1>1 DEF Request
  <2>2. /\ calls' \in Seq([args : BOOLEAN])
        /\ Len(calls') = Len(calls) + 1 /\ Len(calls') <= MaxCalls
        /\ Made \subseteq Made' /\ Len(calls') \in Made' /\ Len(calls') # 0
    BY <1>1, <2>1 DEF Request, TypeOK, Made
  <2>3. /\ pc' \in [Tasks -> ProducerPc \cup LoopPc]
        /\ \A q \in Producers : pc'[q] \in ProducerPc
        /\ pc'[Loop] \in LoopPc
        /\ \A q \in Producers \ {p} : pc'[q] = pc[q]
    BY <1>1, GotoPlaces DEF Request, Tasks, ProducerPc
  <2>4. /\ call' \in [Producers -> {0} \cup Made'] /\ call'[p] = Len(calls')
        /\ \A q \in Producers \ {p} : call'[q] = call[q]
    BY <1>1, <2>2 DEF Request, TypeOK
  <2>5. TypeOK'
    <3>1. runs' = runs /\ slotVars' = slotVars /\ sid' = sid /\ running_' = running_
          /\ raised' = raised /\ overlapped' = overlapped
      BY <1>1 DEF Request, loopVars
    <3>2. runs' \in Seq([id : {0, Torn} \cup Made', args : {0, Torn} \cup Made'])
      <4>1. [id : {0, Torn} \cup Made, args : {0, Torn} \cup Made]
               \subseteq [id : {0, Torn} \cup Made', args : {0, Torn} \cup Made']
        BY <2>2
      <4>2. runs \in Seq([id : {0, Torn} \cup Made, args : {0, Torn} \cup Made])
        BY DEF TypeOK
      <4>3. runs \in Seq([id : {0, Torn} \cup Made', args : {0, Torn} \cup Made'])
        BY <4>1, <4>2, SeqMonotonic, Zenon
      <4> QED BY <3>1, <4>3
    <3> QED BY <2>2, <2>3, <2>4, <3>1, <3>2 DEF TypeOK, slotVars
  <2> QED BY <2>2, <2>3, <2>4, <2>5 DEF Identified
<1>2. ASSUME NEW p \in Producers, Enqueue(p) PROVE TypeInv'
  <2>0. p \in Tasks /\ p # Loop
    BY DEF Tasks
  <2>1. ASSUME calls' = calls, loopVars' = loopVars, pc[p] # "idle",
               NEW to \in ProducerPc \ {"idle"}, NEW from, Goto(p, from, to), call' = call,
               sequence_pending_' \in BOOLEAN,
               pending_seq_id_' \in {0, Torn} \cup Made,
               pending_args_' \in {0, Torn} \cup Made,
               raised' \subseteq Made, overlapped' \subseteq Made
        PROVE  TypeInv'
    <3>1. /\ pc' \in [Tasks -> ProducerPc \cup LoopPc]
          /\ \A q \in Producers : pc'[q] \in ProducerPc
          /\ pc'[Loop] \in LoopPc
          /\ \A q \in Producers \ {p} : pc'[q] = pc[q]
      BY <2>0, <2>1, GotoPlaces DEF Tasks
    <3>2. Made' = Made
      BY <2>1 DEF Made
    <3>3. TypeOK'
      BY <2>1, <3>1, <3>2 DEF TypeOK, loopVars
    <3> QED BY <2>1, <3>1, <3>3 DEF Identified
  <2>2. pc[p] # "idle" /\ call[p] \in Made
    BY <1>2 DEF Enqueue, FindFull, FindFree, SetId, ClearArgs, SetArgs, Raise, Reply,
                Goto, Identified, TypeOK
  <2>3. CASE FindFull(p)
    BY <2>1, <2>2, <2>3 DEF FindFull, ProducerPc, slotVars, TypeOK
  <2>4. CASE FindFree(p)
    <3>1. \A q \in Writing : call[q] \in Made
      BY DEF Writing, Identified, TypeOK
    <3>2. Taken \cap Calls \subseteq Made
      BY DEF Taken, TypeOK, Calls
    <3>3. overlapped' \subseteq Made
      BY <2>2, <2>4, <3>1, <3>2 DEF FindFree, TypeOK
    <3> QED BY <2>1, <2>2, <2>4, <3>3 DEF FindFree, ProducerPc, slotVars, TypeOK
  <2>5. CASE SetId(p)
    BY <2>1, <2>2, <2>5 DEF ReadOf, WriteOf, SetId, ProducerPc, TypeOK
  <2>6. CASE ClearArgs(p)
    BY <2>1, <2>2, <2>6 DEF ReadOf, WriteOf, ClearArgs, ProducerPc, TypeOK
  <2>7. CASE SetArgs(p)
    BY <2>1, <2>2, <2>7 DEF ReadOf, WriteOf, SetArgs, ProducerPc, TypeOK
  <2>8. CASE Raise(p)
    BY <2>1, <2>2, <2>8 DEF Raise, ProducerPc, TypeOK
  <2>9. CASE Reply(p)
    <3>1. /\ pc' \in [Tasks -> ProducerPc \cup LoopPc]
          /\ \A q \in Producers : pc'[q] \in ProducerPc
          /\ pc'[Loop] \in LoopPc /\ pc'[p] = "idle"
          /\ \A q \in Producers \ {p} : pc'[q] = pc[q]
      BY <2>0, <2>9, GotoPlaces DEF Reply, Tasks, ProducerPc
    <3>2. /\ call' \in [Producers -> {0} \cup Made] /\ Made' = Made
          /\ \A q \in Producers \ {p} : call'[q] = call[q]
      BY <2>9 DEF Reply, TypeOK, Made
    <3>3. TypeOK'
      BY <2>9, <3>1, <3>2 DEF Reply, TypeOK, slotVars, loopVars
    <3> QED BY <3>1, <3>2, <3>3 DEF Identified
  <2> QED BY <1>2, <2>3, <2>4, <2>5, <2>6, <2>7, <2>8, <2>9 DEF Enqueue
<1>3. CASE LoopStep
  <2>1. ASSUME calls' = calls, call' = call, NEW to \in LoopPc, NEW from, Goto(Loop, from, to),
               sequence_pending_' \in BOOLEAN,
               pending_seq_id_' \in {0, Torn} \cup Made,
               pending_args_' \in {0, Torn} \cup Made,
               sid' \in {0, Torn} \cup Made, running_' \in BOOLEAN,
               runs' \in Seq([id : {0, Torn} \cup Made, args : {0, Torn} \cup Made]),
               raised' = raised, overlapped' = overlapped
        PROVE  TypeInv'
    <3>1. /\ pc' \in [Tasks -> ProducerPc \cup LoopPc]
          /\ \A q \in Producers : pc'[q] \in ProducerPc
          /\ pc'[Loop] \in LoopPc
          /\ \A q \in Producers : pc'[q] = pc[q]
      BY <2>1, GotoPlaces DEF Tasks
    <3>2. Made' = Made
      BY <2>1 DEF Made
    <3>3. TypeOK'
      BY <2>1, <3>1, <3>2 DEF TypeOK
    <3> QED BY <2>1, <3>1, <3>3 DEF Identified
  <2>2. CASE LoopTake
    BY <2>1, <2>2 DEF LoopTake, LoopPc, loopVars, TypeOK
  <2>3. CASE LoopReadId
    BY <2>1, <2>3 DEF ReadOf, WriteOf, LoopReadId, LoopPc, slotVars, TypeOK
  <2>4. CASE LoopClearId
    BY <2>1, <2>4 DEF ReadOf, WriteOf, LoopClearId, LoopPc, loopVars, TypeOK
  <2>5. CASE LoopUnknown
    BY <2>1, <2>5 DEF LoopUnknown, LoopPc, slotVars, TypeOK
  <2>6. CASE LoopFound
    BY <2>1, <2>6 DEF LoopFound, LoopPc, slotVars, TypeOK
  <2>7. CASE LoopStartRun
    <3>1. PICK args \in ReadOf(pending_args_, ArgsWrites) :
            runs' = Append(runs, [id |-> sid, args |-> args])
      BY <2>7 DEF LoopStartRun
    <3>2. args \in {0, Torn} \cup Made
      BY <3>1 DEF ReadOf, WriteOf, TypeOK
    <3>3. runs' \in Seq([id : {0, Torn} \cup Made, args : {0, Torn} \cup Made])
      BY <3>1, <3>2 DEF TypeOK
    <3> QED BY <2>1, <2>7, <3>3 DEF LoopStartRun, LoopPc, slotVars, TypeOK
  <2>8. CASE LoopFinish
    BY <2>1, <2>8 DEF ReadOf, WriteOf, LoopFinish, LoopPc, TypeOK
  <2> QED BY <1>3, <2>2, <2>3, <2>4, <2>5, <2>6, <2>7, <2>8 DEF LoopStep
<1>4. CASE UNCHANGED vars
  BY <1>4 DEF vars, slotVars, loopVars, TypeOK, Identified, Made
<1> QED BY <1>1, <1>2, <1>3, <1>4 DEF Next, Exhausted

\* Every variable keeps its type, however the tasks interleave.
THEOREM TypeCorrect == Spec => []TypeOK
<1>1. TypeInv => TypeOK
  BY DEF TypeInv
<1> QED BY TypeInit, TypeStep, <1>1, PTL DEF Spec

-----------------------------------------------------------------------------
(* No run without a request of its own *)

\* Each call is made by one task, and is counted as accepted only once the
\* task has raised the flag for it.
Numbered == \A p, q \in Producers : p # q /\ call[p] # 0 => call[p] # call[q]
Unraised == {"check", "setId", "clearArgs", "setArgs", "raise"}
Fresh == \A p \in Producers : pc[p] \in Unraised => call[p] \notin raised

CountInv == Numbered /\ Fresh /\ NoPhantomRun

\* The places of the other tasks, in the form the proofs below use.
LEMMA ProducerMoves ==
  ASSUME TypeInv, NEW p \in Producers, NEW from, NEW to, Goto(p, from, to)
  PROVE  /\ pc[p] = from /\ pc'[p] = to /\ pc'[Loop] = pc[Loop]
         /\ \A q \in Producers \ {p} : pc'[q] = pc[q]
BY DEF TypeInv, TypeOK, Goto, Tasks

LEMMA LoopMoves ==
  ASSUME TypeInv, NEW from, NEW to, Goto(Loop, from, to)
  PROVE  /\ pc[Loop] = from /\ pc'[Loop] = to
         /\ \A q \in Producers : pc'[q] = pc[q]
BY DEF TypeInv, TypeOK, Goto, Tasks

LEMMA CountInit == Init => CountInv
<1> SUFFICES ASSUME Init PROVE CountInv
  OBVIOUS
<1>1. Cardinality(raised) = 0 /\ Len(runs) = 0 /\ Waiting = 0 /\ BeingTaken = 0
  BY FS_EmptySet DEF Init, Waiting, BeingTaken, Tasks
<1> QED BY <1>1 DEF Init, CountInv, Numbered, Fresh, NoPhantomRun, Tasks

LEMMA NumberedStep == TypeInv /\ Numbered /\ [Next]_vars => Numbered'
<1> SUFFICES ASSUME TypeInv, Numbered, [Next]_vars PROVE Numbered'
  OBVIOUS
<1>1. ASSUME NEW p \in Producers, Request(p) PROVE Numbered'
  <2>1. Len(calls) \in Nat /\ Len(calls') = Len(calls) + 1
    BY <1>1 DEF Request, TypeInv, TypeOK
  <2>2. \A q \in Producers : call[q] # Len(calls')
    BY <2>1 DEF TypeInv, TypeOK, Made
  <2>3. call' = [call EXCEPT ![p] = Len(calls')] /\ call \in [Producers -> {0} \cup Made]
    BY <1>1 DEF Request, TypeInv, TypeOK
  <2> QED BY <2>2, <2>3 DEF Numbered
<1>2. ASSUME NEW p \in Producers, Reply(p) PROVE Numbered'
  BY <1>2 DEF Reply, Numbered, TypeInv, TypeOK
<1>3. CASE call' = call
  BY <1>3 DEF Numbered
<1>4. CASE LoopStep
  BY <1>3, <1>4 DEF LoopStep, LoopTake, LoopReadId, LoopClearId, LoopUnknown, LoopFound,
                    LoopStartRun, LoopFinish
<1>5. ASSUME NEW p \in Producers, Enqueue(p) PROVE Numbered'
  BY <1>2, <1>3, <1>5 DEF Enqueue, FindFull, FindFree, SetId, ClearArgs, SetArgs, Raise
<1> QED BY <1>1, <1>3, <1>4, <1>5 DEF Next, Exhausted, vars

LEMMA FreshStep == TypeInv /\ Numbered /\ Fresh /\ [Next]_vars => Fresh'
<1> SUFFICES ASSUME TypeInv, Numbered, Fresh, [Next]_vars PROVE Fresh'
  OBVIOUS
<1>1. ASSUME NEW p \in Producers, Request(p) PROVE Fresh'
  <2>1. Len(calls') \notin raised
    BY <1>1 DEF Request, TypeInv, TypeOK, Made
  <2>2. \A q \in Producers \ {p} : pc'[q] = pc[q]
    BY <1>1, ProducerMoves DEF Request
  <2>3. call' = [call EXCEPT ![p] = Len(calls')] /\ call \in [Producers -> {0} \cup Made]
        /\ raised' = raised
    BY <1>1 DEF Request, TypeInv, TypeOK
  <2> QED BY <2>1, <2>2, <2>3 DEF Fresh
<1>2. ASSUME NEW p \in Producers, NEW from, NEW to, Goto(p, from, to),
             from \in Unraised \/ to \notin Unraised,
             \A q \in Producers \ {p} : call'[q] = call[q],
             to \in Unraised => call'[p] = call[p],
             \/ raised' = raised
             \/ raised' = raised \cup {call[p]} /\ call[p] # 0 /\ to \notin Unraised
      PROVE  Fresh'
  BY <1>2, ProducerMoves DEF Fresh, Numbered
<1>3. ASSUME NEW p \in Producers, Enqueue(p) PROVE Fresh'
  <2>1. CASE Reply(p)
    BY <1>2, <2>1 DEF Reply, Unraised, TypeInv, TypeOK
  <2>2. CASE Raise(p)
    BY <1>2, <2>2 DEF Raise, Goto, Unraised, TypeInv, Identified
  <2> QED BY <1>2, <1>3, <2>1, <2>2
            DEF Enqueue, FindFull, FindFree, SetId, ClearArgs, SetArgs, Unraised
<1>4. CASE LoopStep
  <2>1. call' = call /\ raised' = raised /\ \A q \in Producers : pc'[q] = pc[q]
    BY <1>4, LoopMoves DEF LoopStep, LoopTake, LoopReadId, LoopClearId, LoopUnknown,
                           LoopFound, LoopStartRun, LoopFinish
  <2> QED BY <2>1 DEF Fresh
<1>5. CASE UNCHANGED vars
  BY <1>5 DEF vars, Fresh
<1> QED BY <1>1, <1>3, <1>4, <1>5 DEF Next, Exhausted

LEMMA PhantomStep == TypeInv /\ Fresh /\ NoPhantomRun /\ [Next]_vars => NoPhantomRun'
<1> SUFFICES ASSUME TypeInv, Fresh, NoPhantomRun, [Next]_vars PROVE NoPhantomRun'
  OBVIOUS
<1>0. /\ IsFiniteSet(raised) /\ Cardinality(raised) \in Nat
      /\ Len(runs) \in Nat /\ Waiting \in 0..1 /\ BeingTaken \in 0..1
  <2>1. IsFiniteSet(Made)
    BY FS_Interval DEF Made, TypeInv, TypeOK
  <2> QED BY <2>1, FS_Subset, FS_CardinalityType DEF TypeInv, TypeOK, Waiting, BeingTaken
<1>1. ASSUME NEW p \in Producers, NEW from, NEW to, Goto(p, from, to),
             runs' = runs, sequence_pending_' = sequence_pending_, raised' = raised
      PROVE  NoPhantomRun'
  BY <1>1, ProducerMoves DEF NoPhantomRun, Waiting, BeingTaken
<1>2. ASSUME NEW p \in Producers, Raise(p) PROVE NoPhantomRun'
  <2>1. Cardinality(raised') = Cardinality(raised) + 1
    BY <1>0, <1>2, FS_AddElement DEF Raise, Goto, Fresh, Unraised
  <2>2. BeingTaken' = BeingTaken /\ Waiting' = 1 /\ runs' = runs
    BY <1>2, ProducerMoves DEF Raise, Waiting, BeingTaken, loopVars
  <2> QED BY <1>0, <2>1, <2>2 DEF NoPhantomRun
<1>3. ASSUME NEW p \in Producers, Request(p) \/ Enqueue(p) PROVE NoPhantomRun'
  BY <1>1, <1>2, <1>3 DEF Request, Enqueue, FindFull, FindFree, SetId, ClearArgs, SetArgs,
                          Reply, slotVars, loopVars
<1>4. CASE LoopTake
  BY <1>0, <1>4, LoopMoves DEF LoopTake, loopVars, NoPhantomRun, Waiting, BeingTaken
<1>5. CASE LoopStartRun
  <2>1. Len(runs') = Len(runs) + 1
    BY <1>5 DEF LoopStartRun, TypeInv, TypeOK
  <2>2. BeingTaken = 1 /\ BeingTaken' = 0 /\ Waiting' = Waiting /\ raised' = raised
    BY <1>5, LoopMoves DEF LoopStartRun, slotVars, Waiting, BeingTaken
  <2> QED BY <1>0, <2>1, <2>2 DEF NoPhantomRun
<1>6. CASE LoopReadId \/ LoopClearId \/ LoopUnknown \/ LoopFound \/ LoopFinish
  <2>1. /\ runs' = runs /\ Waiting' = Waiting /\ raised' = raised
        /\ BeingTaken' <= BeingTaken /\ BeingTaken' \in 0..1
    <3>1. CASE LoopReadId
      BY <3>1, LoopMoves DEF LoopReadId, slotVars, Waiting, BeingTaken
    <3>2. CASE LoopClearId
      BY <3>2, LoopMoves DEF LoopClearId, loopVars, Waiting, BeingTaken
    <3>3. CASE LoopUnknown
      BY <3>3, LoopMoves DEF LoopUnknown, slotVars, Waiting, BeingTaken
    <3>4. CASE LoopFound
      BY <3>4, LoopMoves DEF LoopFound, slotVars, Waiting, BeingTaken
    <3>5. CASE LoopFinish
      BY <3>5, LoopMoves DEF LoopFinish, Waiting, BeingTaken
    <3> QED BY <1>6, <3>1, <3>2, <3>3, <3>4, <3>5
  <2> QED BY <1>0, <2>1 DEF NoPhantomRun
<1>7. CASE UNCHANGED vars
  BY <1>7 DEF vars, slotVars, loopVars, NoPhantomRun, Waiting, BeingTaken
<1> QED BY <1>3, <1>4, <1>5, <1>6, <1>7 DEF Next, LoopStep, Exhausted

\* However the tasks interleave, the loop never starts more runs than requests
\* were accepted.
THEOREM NoPhantomRunEver == Spec => []NoPhantomRun
<1>1. TypeInv /\ CountInv /\ [Next]_vars => CountInv'
  BY NumberedStep, FreshStep, PhantomStep DEF CountInv
<1>2. CountInv => NoPhantomRun
  BY DEF CountInv
<1> QED BY TypeInit, TypeStep, CountInit, <1>1, <1>2, PTL DEF Spec

-----------------------------------------------------------------------------
(* The arguments of a request serve one run *)

\* Arguments that wait in the queue have not been used, and those a task has
\* yet to write are neither in the queue nor used.
Unused == pending_args_ \in Calls /\ pc[Loop] # "run" =>
            \A i \in DOMAIN runs : runs[i].args # pending_args_
Unwritten == \A p \in Producers :
  pc[p] \in {"check", "setId", "clearArgs", "setArgs"} =>
    call[p] # pending_args_ /\ \A i \in DOMAIN runs : runs[i].args # call[p]

ArgsInv == Unused /\ Unwritten /\ ArgsServeOneRun

LEMMA ArgsInit == Init => ArgsInv
BY DEF Init, ArgsInv, Unused, Unwritten, ArgsServeOneRun, Calls, Tasks

LEMMA ArgsStep == TypeInv /\ Numbered /\ ArgsInv /\ [Next]_vars => ArgsInv'
<1> SUFFICES ASSUME TypeInv, Numbered, ArgsInv, [Next]_vars PROVE ArgsInv'
  OBVIOUS
<1>0. Torn \notin Calls /\ 0 \notin Calls
  BY DEF Calls
<1>1. ASSUME NEW p \in Producers, Request(p) PROVE ArgsInv'
  <2>1. /\ Len(calls') = Len(calls) + 1 /\ Len(calls') <= MaxCalls
        /\ Len(calls') # pending_args_
        /\ \A i \in DOMAIN runs : runs[i].args # Len(calls')
    <3>1. Len(calls') = Len(calls) + 1 /\ Len(calls') <= MaxCalls /\ Len(calls) \in Nat
      BY <1>1 DEF Request, TypeInv, TypeOK
    <3>2. Len(calls') \notin {0, Torn} \cup Made
      BY <3>1 DEF Made
    <3>3. pending_args_ \in {0, Torn} \cup Made
          /\ \A i \in DOMAIN runs : runs[i].args \in {0, Torn} \cup Made
      <4>1. runs \in [1..Len(runs) -> [id : {0, Torn} \cup Made, args : {0, Torn} \cup Made]]
        BY LenProperties DEF TypeInv, TypeOK
      <4> QED BY <4>1 DEF TypeInv, TypeOK
    <3> QED BY <3>1, <3>2, <3>3
  <2>2. /\ pc'[Loop] = pc[Loop] /\ \A q \in Producers \ {p} : pc'[q] = pc[q]
        /\ pending_args_' = pending_args_ /\ runs' = runs
    BY <1>1, ProducerMoves DEF Request, slotVars, loopVars
  <2>3. call' = [call EXCEPT ![p] = Len(calls')] /\ call \in [Producers -> {0} \cup Made]
    BY <1>1 DEF Request, TypeInv, TypeOK
  <2> QED BY <2>1, <2>2, <2>3 DEF ArgsInv, Unused, Unwritten, ArgsServeOneRun
<1>2. ASSUME NEW p \in Producers, Enqueue(p) PROVE ArgsInv'
  <2>1. ASSUME NEW from, NEW to, Goto(p, from, to), runs' = runs, call' = call,
               from \in {"check", "setId", "clearArgs", "setArgs"}
                 \/ to \notin {"check", "setId", "clearArgs", "setArgs"},
               pending_args_' \in {pending_args_, 0, Torn}
        PROVE  ArgsInv'
    <3>1. \A q \in Producers : pc[q] # "idle" => call[q] \in Calls
      BY DEF TypeInv, TypeOK, Identified, Made, Calls
    <3> QED BY <1>0, <2>1, <3>1, ProducerMoves DEF ArgsInv, Unused, Unwritten, ArgsServeOneRun
  <2>2. CASE ClearArgs(p)
    BY <2>1, <2>2 DEF ClearArgs, WriteOf, loopVars
  <2>3. CASE SetArgs(p)
    <3>1. pending_args_' \in {call[p], Torn} /\ runs' = runs /\ call' = call /\ call[p] # 0
      BY <2>3 DEF SetArgs, WriteOf, loopVars, Goto, TypeInv, Identified
    <3>2. /\ pc[p] = "setArgs" /\ pc'[p] = "raise" /\ pc'[Loop] = pc[Loop]
          /\ \A q \in Producers \ {p} : pc'[q] = pc[q]
      BY <2>3, ProducerMoves DEF SetArgs
    <3>3. \A q \in Producers : pc[q] # "idle" => call[q] \in Calls
      BY DEF TypeInv, TypeOK, Identified, Made, Calls
    <3> QED BY <1>0, <3>1, <3>2, <3>3 DEF ArgsInv, Unused, Unwritten, ArgsServeOneRun, Numbered
  <2>4. CASE Reply(p)
    <3>1. /\ \A q \in Producers \ {p} : call'[q] = call[q] /\ pc'[q] = pc[q]
          /\ pc'[p] = "idle" /\ pc'[Loop] = pc[Loop]
          /\ pending_args_' = pending_args_ /\ runs' = runs
      BY <2>4, ProducerMoves DEF Reply, TypeInv, TypeOK, slotVars, loopVars
    <3> QED BY <3>1 DEF ArgsInv, Unused, Unwritten, ArgsServeOneRun
  <2> QED BY <1>2, <2>1, <2>2, <2>3, <2>4
            DEF Enqueue, FindFull, FindFree, SetId, Raise, slotVars, loopVars
<1>3. CASE LoopStartRun
  <2>1. PICK args \in ReadOf(pending_args_, ArgsWrites) :
          runs' = Append(runs, [id |-> sid, args |-> args])
    BY <1>3 DEF LoopStartRun
  <2>2. args \in {pending_args_, Torn}
    BY <2>1 DEF ReadOf
  <2>3. /\ DOMAIN runs' = 1..Len(runs) + 1 /\ DOMAIN runs = 1..Len(runs) /\ Len(runs) \in Nat
        /\ runs'[Len(runs) + 1].args = args
        /\ \A i \in DOMAIN runs : runs'[i] = runs[i]
    BY <2>1 DEF TypeInv, TypeOK
  <2>4. /\ pc[Loop] = "scope" /\ pc'[Loop] = "run" /\ \A q \in Producers : pc'[q] = pc[q]
        /\ pending_args_' = pending_args_ /\ call' = call
    BY <1>3, LoopMoves DEF LoopStartRun, slotVars
  <2>5. \A q \in Producers : pc[q] # "idle" => call[q] \in Calls
    BY DEF TypeInv, TypeOK, Identified, Made, Calls
  <2>6. Unwritten'
    BY <1>0, <2>2, <2>3, <2>4, <2>5 DEF ArgsInv, Unwritten
  <2>7. ArgsServeOneRun'
    BY <1>0, <2>2, <2>3, <2>4 DEF ArgsInv, Unused, ArgsServeOneRun, Calls
  <2> QED BY <2>4, <2>6, <2>7 DEF ArgsInv, Unused
<1>4. CASE LoopFinish
  <2>1. /\ pending_args_' \in {0, Torn} /\ runs' = runs /\ call' = call
        /\ \A q \in Producers : pc'[q] = pc[q]
    BY <1>4, LoopMoves DEF LoopFinish, WriteOf
  <2>2. \A q \in Producers : pc[q] # "idle" => call[q] \in Calls
    BY DEF TypeInv, TypeOK, Identified, Made, Calls
  <2> QED BY <1>0, <2>1, <2>2 DEF ArgsInv, Unused, Unwritten, ArgsServeOneRun
<1>5. CASE LoopTake \/ LoopReadId \/ LoopClearId \/ LoopUnknown \/ LoopFound
  <2>1. /\ pending_args_' = pending_args_ /\ runs' = runs /\ call' = call
        /\ pc[Loop] # "run" /\ \A q \in Producers : pc'[q] = pc[q]
    <3>1. CASE LoopTake
      BY <3>1, LoopMoves DEF LoopTake, loopVars
    <3>2. CASE LoopReadId
      BY <3>2, LoopMoves DEF LoopReadId, slotVars
    <3>3. CASE LoopClearId
      BY <3>3, LoopMoves DEF LoopClearId, loopVars
    <3>4. CASE LoopUnknown
      BY <3>4, LoopMoves DEF LoopUnknown, slotVars
    <3>5. CASE LoopFound
      BY <3>5, LoopMoves DEF LoopFound, slotVars
    <3> QED BY <1>5, <3>1, <3>2, <3>3, <3>4, <3>5
  <2> QED BY <2>1 DEF ArgsInv, Unused, Unwritten, ArgsServeOneRun
<1>6. CASE UNCHANGED vars
  BY <1>6 DEF vars, slotVars, loopVars, ArgsInv, Unused, Unwritten, ArgsServeOneRun
<1> QED BY <1>1, <1>2, <1>3, <1>4, <1>5, <1>6 DEF Next, LoopStep, Exhausted

\* The arguments of one request are never used by a second run.
THEOREM ArgsServeOneRunEver == Spec => []ArgsServeOneRun
<1>1. TypeInv /\ Numbered /\ [Next]_vars => Numbered'
  BY NumberedStep
<1>2. Init => Numbered
  BY CountInit DEF CountInv
<1>3. ArgsInv => ArgsServeOneRun
  BY DEF ArgsInv
<1> QED BY TypeInit, TypeStep, ArgsInit, ArgsStep, <1>1, <1>2, <1>3, PTL DEF Spec

-----------------------------------------------------------------------------
(* A request no other task cuts across is run intact *)

\* The calls no other task has cut across.
Quiet(k) == k \in Calls /\ k \notin overlapped

\* While such a call is being written the queue is its own, and what it has
\* written so far stands.
QuietWrite == \A p \in Writing : Quiet(call[p]) =>
  /\ Writing = {p} /\ pc[Loop] = "idle" /\ ~sequence_pending_
  /\ pc[p] # "setId" => pending_seq_id_ = call[p]
  /\ pc[p] = "setArgs" => calls[call[p]].args
  /\ pc[p] = "raise" => pending_args_ = OwnArgs(call[p])

\* An id in the queue is being written, or waits with its own arguments, or
\* the loop is reading it, or has copied it and not yet emptied the variable.
QuietSlot == Quiet(pending_seq_id_) =>
  \/ \E p \in Writing : call[p] = pending_seq_id_
  \/ /\ Writing = {} /\ pending_args_ = OwnArgs(pending_seq_id_)
     /\ \/ sequence_pending_ /\ pc[Loop] = "idle"
        \/ ~sequence_pending_ /\ pc[Loop] = "readId"
  \/ pc[Loop] = "clearId" /\ sid = pending_seq_id_

\* The id the loop has copied still has its arguments in the queue.
QuietHand == pc[Loop] \in {"clearId", "lookup", "scope"} /\ Quiet(sid) =>
  Writing = {} /\ ~sequence_pending_ /\ pending_args_ = OwnArgs(sid)

IntactInv == QuietWrite /\ QuietSlot /\ QuietHand /\ IntactUnlessOverlapped

LEMMA IntactInit == Init => IntactInv
<1> SUFFICES ASSUME Init PROVE IntactInv
  OBVIOUS
<1>1. Writing = {} /\ ~Quiet(pending_seq_id_) /\ pc[Loop] = "idle" /\ DOMAIN runs = {}
  BY DEF Init, Writing, Quiet, Calls, Tasks
<1> QED BY <1>1 DEF IntactInv, QuietWrite, QuietSlot, QuietHand, IntactUnlessOverlapped

\* The runs already started are not touched by a step that adds none.
LEMMA IntactRunsStay ==
  ASSUME IntactUnlessOverlapped, runs' = runs, overlapped \subseteq overlapped',
         \A i \in DOMAIN runs : runs[i].id \in Calls => OwnArgs(runs[i].id)' = OwnArgs(runs[i].id)
  PROVE  IntactUnlessOverlapped'
BY DEF IntactUnlessOverlapped

LEMMA IntactStep == TypeInv /\ Numbered /\ IntactInv /\ [Next]_vars => IntactInv'
<1> SUFFICES ASSUME TypeInv, Numbered, IntactInv, [Next]_vars PROVE IntactInv'
  OBVIOUS
<1> USE DEF IntactInv
<1>0. /\ Torn \notin Calls /\ 0 \notin Calls
      /\ \A p \in Writing : call[p] \in Made /\ call[p] \in Calls
  BY DEF Calls, Writing, TypeInv, TypeOK, Identified, Made
<1>1. ASSUME NEW p \in Producers, Request(p) PROVE IntactInv'
  <2>1. /\ pc'[Loop] = pc[Loop] /\ \A q \in Producers \ {p} : pc'[q] = pc[q]
        /\ pc[p] = "idle" /\ pc'[p] = "check"
    BY <1>1, ProducerMoves DEF Request
  <2>2. /\ slotVars' = slotVars /\ sid' = sid /\ runs' = runs /\ overlapped' = overlapped
        /\ \A q \in Producers \ {p} : call'[q] = call[q]
    BY <1>1 DEF Request, loopVars, TypeInv, TypeOK
  <2>3. Writing' = Writing /\ p \notin Writing
    BY <2>1 DEF Writing
  <2>4. \A k \in Made : calls'[k] = calls[k] /\ OwnArgs(k)' = OwnArgs(k)
    BY <1>1 DEF Request, Made, OwnArgs, TypeInv, TypeOK
  <2>5. /\ \A i \in DOMAIN runs : runs[i].id \in Calls => runs[i].id \in Made
        /\ pending_seq_id_ \in Calls => pending_seq_id_ \in Made
        /\ sid \in Calls => sid \in Made
    <3>1. runs \in [1..Len(runs) -> [id : {0, Torn} \cup Made, args : {0, Torn} \cup Made]]
      BY LenProperties DEF TypeInv, TypeOK
    <3> QED BY <1>0, <3>1 DEF TypeInv, TypeOK
  <2>6. IntactUnlessOverlapped'
    BY <2>2, <2>4, <2>5, IntactRunsStay
  <2>7. QuietWrite'
    BY <1>0, <2>1, <2>2, <2>3, <2>4 DEF QuietWrite, Quiet, slotVars, Writing
  <2>8. QuietSlot'
    BY <2>1, <2>2, <2>3, <2>4, <2>5 DEF QuietSlot, Quiet, slotVars, Writing
  <2>9. QuietHand'
    BY <2>1, <2>2, <2>3, <2>4, <2>5 DEF QuietHand, Quiet, slotVars
  <2> QED BY <2>6, <2>7, <2>8, <2>9
<1>2. ASSUME calls' = calls, runs' = runs, overlapped \subseteq overlapped'
      PROVE  IntactUnlessOverlapped' /\ \A k \in Calls : OwnArgs(k)' = OwnArgs(k)
  <2>1. \A k : OwnArgs(k)' = OwnArgs(k)
    BY <1>2 DEF OwnArgs
  <2> QED BY <1>2, <2>1, IntactRunsStay
<1>3. ASSUME NEW p \in Producers, FindFull(p) \/ Reply(p) PROVE IntactInv'
  <2>1. /\ pc'[Loop] = pc[Loop] /\ \A q \in Producers \ {p} : pc'[q] = pc[q]
        /\ p \notin Writing /\ p \notin Writing'
    BY <1>3, ProducerMoves DEF FindFull, Reply, Writing
  <2>2. /\ slotVars' = slotVars /\ sid' = sid /\ runs' = runs /\ overlapped' = overlapped
        /\ calls' = calls /\ \A q \in Producers \ {p} : call'[q] = call[q]
    BY <1>3 DEF FindFull, Reply, loopVars, TypeInv, TypeOK
  <2>3. Writing' = Writing
    BY <2>1 DEF Writing
  <2>4. IntactUnlessOverlapped' /\ \A k \in Calls : OwnArgs(k)' = OwnArgs(k)
    BY <1>2, <2>2
  <2>5. QuietWrite'
    BY <2>1, <2>2, <2>3, <2>4 DEF QuietWrite, Quiet, slotVars, Writing
  <2>6. QuietSlot' /\ QuietHand'
    BY <2>1, <2>2, <2>3, <2>4 DEF QuietSlot, QuietHand, Quiet, slotVars, Writing
  <2> QED BY <2>4, <2>5, <2>6
<1>4. ASSUME NEW p \in Producers, FindFree(p) PROVE IntactInv'
  <2>1. /\ pc'[Loop] = pc[Loop] /\ \A q \in Producers \ {p} : pc'[q] = pc[q]
        /\ p \notin Writing /\ pc'[p] = "setId" /\ Writing' = Writing \cup {p}
    BY <1>4, ProducerMoves DEF FindFree, Writing
  <2>2. /\ slotVars' = slotVars /\ sid' = sid /\ runs' = runs /\ ~sequence_pending_
        /\ calls' = calls /\ call' = call /\ overlapped \subseteq overlapped'
    BY <1>4 DEF FindFree, loopVars
  <2>3. IntactUnlessOverlapped' /\ \A k \in Calls : OwnArgs(k)' = OwnArgs(k)
    BY <1>2, <2>2
  <2>4. CASE Writing = {} /\ pc[Loop] = "idle"
    <3>1. QuietWrite'
      BY <2>1, <2>2, <2>4 DEF QuietWrite, slotVars
    <3>2. ~Quiet(pending_seq_id_)'
      BY <2>2, <2>4 DEF QuietSlot, Quiet, slotVars
    <3> QED BY <2>1, <2>3, <2>4, <3>1, <3>2 DEF QuietSlot, QuietHand
  <2>5. CASE ~(Writing = {} /\ pc[Loop] = "idle")
    <3>1. overlapped' = overlapped \cup {call[q] : q \in Writing \cup {p}}
                          \cup (Taken \cap Calls)
      BY <1>4, <2>5 DEF FindFree
    <3>2. QuietWrite'
      BY <2>1, <2>2, <3>1 DEF QuietWrite, Quiet
    <3>3. ~(pc[Loop] \in {"clearId", "lookup", "scope"} /\ Quiet(sid)')
      BY <2>2, <3>1 DEF Quiet, Taken
    <3>4. ~Quiet(pending_seq_id_)'
      BY <2>2, <3>1, <3>3 DEF QuietSlot, Quiet, Taken, slotVars
    <3> QED BY <2>1, <2>3, <3>2, <3>3, <3>4 DEF QuietSlot, QuietHand
  <2> QED BY <2>4, <2>5
<1>5. ASSUME NEW p \in Producers, SetId(p) \/ ClearArgs(p) \/ SetArgs(p) PROVE IntactInv'
  <2>1. /\ pc'[Loop] = pc[Loop] /\ \A q \in Producers \ {p} : pc'[q] = pc[q]
        /\ p \in Writing /\ Writing' = Writing
    BY <1>5, ProducerMoves DEF SetId, ClearArgs, SetArgs, Writing
  <2>2. /\ sequence_pending_' = sequence_pending_ /\ sid' = sid /\ runs' = runs
        /\ calls' = calls /\ call' = call /\ overlapped' = overlapped
    BY <1>5 DEF SetId, ClearArgs, SetArgs, loopVars
  <2>3. IntactUnlessOverlapped' /\ \A k \in Calls : OwnArgs(k)' = OwnArgs(k)
    BY <1>2, <2>2
  <2>4. QuietHand'
    BY <2>1, <2>2 DEF QuietHand, Quiet
  <2>5. \A q \in Writing : Quiet(call[q]) => q = p
    BY <2>1 DEF QuietWrite
  \* With the queue to itself a write leaves what it writes.
  <2>6. ASSUME Quiet(call[p]), NEW old, NEW new, NEW steps \in {IdWrites, ArgsWrites}
        PROVE  WriteOf(p, old, new, steps) = {new}
    <3>1. Writing = {p} /\ pc[Loop] = "idle"
      BY <2>1, <2>6 DEF QuietWrite
    <3>2. Writers(steps) \ {p} = {}
      BY <3>1 DEF Writers, Writing, Tasks, IdWrites, ArgsWrites, TypeInv, TypeOK, ProducerPc
    <3> QED BY <3>1, <3>2 DEF WriteOf
  <2>7. CASE SetId(p)
    <3>1. /\ pending_seq_id_' \in {call[p], Torn} /\ pending_args_' = pending_args_
          /\ pc'[p] = "clearArgs"
          /\ Quiet(call[p]) => pending_seq_id_' = call[p]
      BY <2>6, <2>7, ProducerMoves DEF SetId, WriteOf
    <3>2. QuietWrite'
      BY <2>1, <2>2, <2>5, <3>1 DEF QuietWrite, Quiet
    <3>3. QuietSlot'
      BY <1>0, <2>1, <2>2, <3>1 DEF QuietSlot, Quiet
    <3> QED BY <2>3, <2>4, <3>2, <3>3
  <2>8. QuietSlot /\ Quiet(pending_seq_id_) => \E q \in Writing : call[q] = pending_seq_id_
    BY <2>1 DEF QuietSlot, QuietHand
  <2>9. CASE ClearArgs(p)
    <3>1. /\ pending_seq_id_' = pending_seq_id_
          /\ Quiet(call[p]) => pending_args_' = 0
          /\ pc[p] = "clearArgs"
          /\ pc'[p] = IF calls[call[p]].args THEN "setArgs" ELSE "raise"
      BY <2>6, <2>9, ProducerMoves DEF ClearArgs
    <3>2. QuietWrite'
      BY <2>1, <2>2, <2>5, <3>1 DEF QuietWrite, Quiet, OwnArgs
    <3>3. QuietSlot'
      BY <2>1, <2>2, <2>8, <3>1 DEF QuietSlot, Quiet
    <3> QED BY <2>3, <2>4, <3>2, <3>3
  <2>10. CASE SetArgs(p)
    <3>1. /\ pending_seq_id_' = pending_seq_id_
          /\ Quiet(call[p]) => pending_args_' = call[p]
          /\ pc[p] = "setArgs" /\ pc'[p] = "raise"
      BY <2>6, <2>10, ProducerMoves DEF SetArgs
    <3>2. QuietWrite'
      BY <2>1, <2>2, <2>5, <3>1 DEF QuietWrite, Quiet, OwnArgs
    <3>3. QuietSlot'
      BY <2>1, <2>2, <2>8, <3>1 DEF QuietSlot, Quiet
    <3> QED BY <2>3, <2>4, <3>2, <3>3
  <2> QED BY <1>5, <2>7, <2>9, <2>10
<1>6. ASSUME NEW p \in Producers, Raise(p) PROVE IntactInv'
  <2>1. /\ pc'[Loop] = pc[Loop] /\ \A q \in Producers \ {p} : pc'[q] = pc[q]
        /\ pc[p] = "raise" /\ p \in Writing /\ Writing' = Writing \ {p}
    BY <1>6, ProducerMoves DEF Raise, Writing
  <2>2. /\ sequence_pending_' = TRUE /\ pending_seq_id_' = pending_seq_id_
        /\ pending_args_' = pending_args_ /\ sid' = sid /\ runs' = runs
        /\ calls' = calls /\ call' = call /\ overlapped' = overlapped
    BY <1>6 DEF Raise, loopVars
  <2>3. IntactUnlessOverlapped' /\ \A k \in Calls : OwnArgs(k)' = OwnArgs(k)
    BY <1>2, <2>2
  <2>4. QuietHand'
    BY <2>1, <2>2 DEF QuietHand, Quiet
  <2>5. QuietWrite'
    BY <2>1, <2>2 DEF QuietWrite, Quiet
  <2>6. QuietSlot'
    <3> SUFFICES ASSUME Quiet(pending_seq_id_)' PROVE QuietSlot'
      BY DEF QuietSlot
    <3>1. Quiet(pending_seq_id_)
      BY <2>2 DEF Quiet
    <3>2. PICK q \in Writing : call[q] = pending_seq_id_
      BY <2>1, <3>1 DEF QuietSlot, QuietHand
    <3>3. /\ q = p /\ Writing = {p} /\ pc[Loop] = "idle"
          /\ pending_args_ = OwnArgs(pending_seq_id_)
      BY <2>1, <3>1, <3>2 DEF QuietWrite
    <3> QED BY <2>1, <2>2, <2>3, <3>1, <3>3 DEF QuietSlot, Quiet
  <2> QED BY <2>3, <2>4, <2>5, <2>6
<1>7. CASE LoopStep
  <2>1. call' = call /\ calls' = calls /\ overlapped' = overlapped
    BY <1>7 DEF LoopStep, LoopTake, LoopReadId, LoopClearId, LoopUnknown, LoopFound,
                LoopStartRun, LoopFinish
  <2>2. (\A q \in Producers : pc'[q] = pc[q]) /\ Writing' = Writing
    BY <1>7, LoopMoves DEF LoopStep, LoopTake, LoopReadId, LoopClearId, LoopUnknown,
                           LoopFound, LoopStartRun, LoopFinish, Writing
  <2>3. \A k : OwnArgs(k)' = OwnArgs(k)
    BY <2>1 DEF OwnArgs
  <2>4. pc[Loop] # "idle" \/ sequence_pending_ => \A q \in Writing : ~Quiet(call[q])
    BY DEF QuietWrite
  <2>5. (pc[Loop] # "idle" \/ sequence_pending_) => QuietWrite'
    BY <2>1, <2>2, <2>4 DEF QuietWrite, Quiet
  <2>6. CASE LoopTake
    <3>1. /\ sequence_pending_ /\ ~sequence_pending_' /\ pc'[Loop] = "readId"
          /\ pending_seq_id_' = pending_seq_id_ /\ pending_args_' = pending_args_
          /\ runs' = runs /\ pc[Loop] = "idle"
      BY <2>6, LoopMoves DEF LoopTake, loopVars
    <3>2. QuietSlot'
      BY <2>1, <2>2, <2>3, <2>4, <3>1 DEF QuietSlot, Quiet
    <3> QED BY <1>2, <2>1, <2>5, <3>1, <3>2 DEF QuietHand
  <2>7. CASE LoopReadId
    <3>1. /\ pc[Loop] = "readId" /\ pc'[Loop] = "clearId" /\ slotVars' = slotVars /\ runs' = runs
          /\ sid' \in {pending_seq_id_, Torn}
          /\ Writing = {} => sid' = pending_seq_id_
      <4>1. pc[Loop] = "readId" /\ pc'[Loop] = "clearId"
        BY <2>7, LoopMoves DEF LoopReadId
      <4>2. Writing = {} => Writers(IdWrites) = {}
        BY <4>1 DEF Writing, Writers, IdWrites, Tasks, TypeInv, TypeOK, ProducerPc
      <4> QED BY <2>7, <4>1, <4>2 DEF LoopReadId, ReadOf
    <3>2. Quiet(pending_seq_id_) => /\ Writing = {} /\ ~sequence_pending_
                                     /\ pending_args_ = OwnArgs(pending_seq_id_)
      BY <2>4, <3>1 DEF QuietSlot
    <3>3. QuietSlot'
      BY <2>1, <2>2, <3>1, <3>2 DEF QuietSlot, Quiet, slotVars
    <3>4. QuietHand'
      BY <1>0, <2>1, <2>2, <2>3, <3>1, <3>2 DEF QuietHand, Quiet, slotVars
    <3> QED BY <1>2, <2>1, <2>5, <3>1, <3>3, <3>4
  <2>8. CASE LoopClearId
    <3>1. /\ pc[Loop] = "clearId" /\ pc'[Loop] = "lookup" /\ pending_seq_id_' \in {0, Torn}
          /\ pending_args_' = pending_args_ /\ sequence_pending_' = sequence_pending_
          /\ sid' = sid /\ runs' = runs
      BY <2>8, LoopMoves DEF LoopClearId, WriteOf, loopVars
    <3>2. QuietSlot'
      BY <1>0, <3>1 DEF QuietSlot, Quiet, Calls
    <3>3. QuietHand'
      BY <2>1, <2>2, <2>3, <3>1 DEF QuietHand, Quiet
    <3> QED BY <1>2, <2>1, <2>5, <3>1, <3>2, <3>3
  <2>9. CASE LoopUnknown \/ LoopFound \/ LoopStartRun \/ LoopFinish
    <3>1. /\ pc[Loop] \in {"lookup", "scope", "run"} /\ pc'[Loop] \in {"idle", "scope", "run"}
          /\ pending_seq_id_' = pending_seq_id_
      BY <2>9, LoopMoves DEF LoopUnknown, LoopFound, LoopStartRun, LoopFinish, slotVars
    <3>2. ~Quiet(pending_seq_id_) /\ QuietSlot'
      BY <2>1, <2>4, <3>1 DEF QuietSlot, Quiet
    <3>3. CASE LoopUnknown
      BY <1>2, <2>1, <2>5, <3>1, <3>2, <3>3, LoopMoves DEF LoopUnknown, QuietHand
    <3>4. CASE LoopFound
      <4>1. /\ pc[Loop] = "lookup" /\ slotVars' = slotVars /\ sid' = sid /\ runs' = runs
        BY <3>4, LoopMoves DEF LoopFound
      <4>2. QuietHand'
        BY <2>1, <2>2, <2>3, <4>1 DEF QuietHand, Quiet, slotVars
      <4> QED BY <1>2, <2>1, <2>5, <3>1, <3>2, <4>1, <4>2
    <3>5. CASE LoopStartRun
      <4>1. pc[Loop] = "scope" /\ pc'[Loop] = "run"
        BY <3>5, LoopMoves DEF LoopStartRun
      <4>2. PICK args \in ReadOf(pending_args_, ArgsWrites) :
              runs' = Append(runs, [id |-> sid, args |-> args])
        BY <3>5 DEF LoopStartRun
      <4>3. Writing = {} => Writers(ArgsWrites) = {}
        BY <4>1 DEF Writing, Writers, ArgsWrites, Tasks, TypeInv, TypeOK, ProducerPc
      <4>4. Quiet(sid) => args = OwnArgs(sid)
        BY <4>1, <4>2, <4>3 DEF QuietHand, ReadOf
      <4>5. /\ DOMAIN runs' = 1..Len(runs) + 1 /\ DOMAIN runs = 1..Len(runs)
            /\ Len(runs) \in Nat /\ runs'[Len(runs) + 1] = [id |-> sid, args |-> args]
            /\ \A i \in DOMAIN runs : runs'[i] = runs[i]
        BY <4>2 DEF TypeInv, TypeOK
      <4>6. IntactUnlessOverlapped'
        BY <2>1, <2>3, <4>4, <4>5 DEF IntactUnlessOverlapped, Quiet
      <4> QED BY <2>5, <3>1, <3>2, <4>1, <4>6 DEF QuietHand
    <3>6. CASE LoopFinish
      BY <1>2, <2>1, <2>5, <3>1, <3>2, <3>6, LoopMoves DEF LoopFinish, QuietHand
    <3> QED BY <2>9, <3>3, <3>4, <3>5, <3>6
  <2> QED BY <1>7, <2>6, <2>7, <2>8, <2>9 DEF LoopStep
<1>8. CASE UNCHANGED vars
  BY <1>8 DEF vars, slotVars, loopVars, QuietWrite, QuietSlot, QuietHand, Quiet, Writing,
              IntactUnlessOverlapped, OwnArgs
<1> QED BY <1>1, <1>3, <1>4, <1>5, <1>6, <1>7, <1>8 DEF Next, Enqueue, Exhausted

\* A request that no other task cuts across runs with exactly its own
\* arguments.
THEOREM IntactUnlessOverlappedEver == Spec => []IntactUnlessOverlapped
<1>1. TypeInv /\ Numbered /\ [Next]_vars => Numbered'
  BY NumberedStep
<1>2. Init => Numbered
  BY CountInit DEF CountInv
<1>3. IntactInv => IntactUnlessOverlapped
  BY DEF IntactInv
<1> QED BY TypeInit, TypeStep, IntactInit, IntactStep, <1>1, <1>2, <1>3, PTL DEF Spec

-----------------------------------------------------------------------------
(* On one thread the queue keeps the promise of OneDeepQueue.  The invariant *)
(* says what is in the variables at each place of the one task at work.      *)

Solo == \A t, u \in Tasks : pc[t] # "idle" /\ pc[u] # "idle" => t = u

\* The request a producer writes is its own.
OwnWrite == \A p \in Writing :
  /\ ~sequence_pending_
  /\ pc[p] # "setId" => pending_seq_id_ = call[p]
  /\ pc[p] = "setArgs" => calls[call[p]].args
  /\ pc[p] = "raise" => pending_args_ = OwnArgs(call[p])

\* The request that waits, that the loop has in hand or that runs has an id.
Named ==
  /\ sequence_pending_ \/ pc[Loop] = "readId" => pending_seq_id_ # 0
  /\ InHand => sid # 0
  /\ pc[Loop] = "run" => runs # <<>> /\ runs[Len(runs)].id # 0
  /\ pc[Loop] # "idle" => ~sequence_pending_

OneThreadInv == Solo /\ OwnWrite /\ Named

LEMMA OneThreadInit == Init => OneThreadInv
BY DEF Init, OneThreadInv, Solo, OwnWrite, Named, Writing, InHand, Tasks

\* The task that takes a step is the only one at work before and after it, so
\* that no access races.
LEMMA Alone ==
  ASSUME TypeInv, Solo, ~Preemptive, NEW t \in Tasks, NEW from, NEW to, Goto(t, from, to)
  PROVE  /\ Solo' /\ pc[t] = from /\ pc'[t] = to
         /\ \A u \in Tasks \ {t} : pc[u] = "idle" /\ pc'[u] = "idle"
         /\ \A old, new : \A steps \in {IdWrites, ArgsWrites} : WriteOf(t, old, new, steps) = {new}
         /\ \A value : \A steps \in {IdWrites, ArgsWrites} :
              from \notin steps => ReadOf(value, steps) = {value}
<1>1. pc[t] = from /\ pc'[t] = to /\ \A u \in Tasks \ {t} : pc[u] = "idle" /\ pc'[u] = "idle"
  BY DEF Goto, MaySchedule, TypeInv, TypeOK
<1>2. Solo'
  BY <1>1 DEF Solo
<1>3. Writing \ {t} = {}
  BY <1>1 DEF Writing, Tasks
<1>4. \A steps \in {IdWrites, ArgsWrites} :
        Writers(steps) \ {t} = {} /\ (from \notin steps => Writers(steps) = {})
  BY <1>1 DEF Writers, IdWrites, ArgsWrites
<1> QED BY <1>1, <1>2, <1>3, <1>4 DEF WriteOf, ReadOf

\* What the promise says of a step: it changes nothing it sees, or it is one
\* of the steps of OneDeepQueue.
Kept == Promise!AbsNext \/ UNCHANGED Promise!absVars

LEMMA OneThreadStep ==
  ASSUME TypeInv, Fresh, OneThreadInv, ~Preemptive, [Next]_vars
  PROVE  OneThreadInv' /\ Kept
<1> USE DEF OneThreadInv, Kept
\* The names of what OneDeepQueue sees.
<1> DEFINE slot == IF sequence_pending_ \/ InHand \/ pc[Loop] = "readId"
                     THEN [id |-> IF InHand THEN sid ELSE pending_seq_id_, args |-> pending_args_]
                     ELSE [id |-> 0, args |-> 0]
           active == IF pc[Loop] = "run" THEN runs[Len(runs)] ELSE [id |-> 0, args |-> 0]
<1>0. ASSUME slot' = slot, active' = active, raised' = raised PROVE Kept
  BY <1>0 DEF Promise!absVars
\* A producer's step before its raise is none of the promise's.
<1>1. ASSUME NEW p \in Producers, NEW from, NEW to, Goto(p, from, to),
             loopVars' = loopVars, sequence_pending_' = sequence_pending_, raised' = raised,
             sequence_pending_ => pending_seq_id_' = pending_seq_id_ /\ pending_args_' = pending_args_
      PROVE  Kept /\ Named' /\ Solo' /\ pc[p] = from /\ pc'[p] = to
             /\ Writing \subseteq {p} /\ Writing' \subseteq {p}
  <2>1. /\ pc[Loop] = "idle" /\ pc'[Loop] = "idle" /\ Solo' /\ pc[p] = from /\ pc'[p] = to
        /\ \A q \in Producers \ {p} : pc[q] = "idle" /\ pc'[q] = "idle"
    BY <1>1, Alone DEF Tasks
  <2>2. sid' = sid /\ runs' = runs
    BY <1>1 DEF loopVars
  <2>3. slot' = slot /\ active' = active /\ Named'
    BY <1>1, <2>1, <2>2 DEF Named, InHand
  <2> QED BY <1>0, <1>1, <2>1, <2>3 DEF Writing
<1>2. ASSUME NEW p \in Producers, Request(p) PROVE OneThreadInv' /\ Kept
  <2>1. /\ Kept /\ Named' /\ Solo' /\ pc'[p] = "check" /\ Writing' \subseteq {p}
    BY <1>1, <1>2 DEF Request, slotVars
  <2>2. Writing' = {}
    BY <2>1 DEF Writing
  <2> QED BY <2>1, <2>2 DEF OwnWrite
<1>3. ASSUME NEW p \in Producers, FindFull(p) \/ FindFree(p) \/ Reply(p)
      PROVE  OneThreadInv' /\ Kept
  <2>1. PICK from, to :
          /\ Goto(p, from, to) /\ to \in {"reply", "setId", "idle"}
          /\ to = "setId" => ~sequence_pending_
    BY <1>3 DEF FindFull, FindFree, Reply
  <2>2. slotVars' = slotVars /\ loopVars' = loopVars /\ raised' = raised
    BY <1>3 DEF FindFull, FindFree, Reply
  <2>3. Kept /\ Named' /\ Solo' /\ pc'[p] = to /\ Writing' \subseteq {p}
    BY <1>1, <2>1, <2>2 DEF slotVars
  <2>4. OwnWrite'
    BY <2>1, <2>2, <2>3 DEF OwnWrite, Writing, slotVars
  <2> QED BY <2>3, <2>4
<1>4. ASSUME NEW p \in Producers, SetId(p) \/ ClearArgs(p) \/ SetArgs(p)
      PROVE  OneThreadInv' /\ Kept
  <2>1. PICK from \in {"setId", "clearArgs", "setArgs"}, to \in {"clearArgs", "setArgs", "raise"} :
          Goto(p, from, to)
    BY <1>4 DEF SetId, ClearArgs, SetArgs
  <2>2. pc[p] = from /\ p \in Writing /\ ~sequence_pending_
    BY <2>1, Alone DEF Writing, OwnWrite, Tasks
  <2>3. /\ sequence_pending_' = sequence_pending_ /\ raised' = raised /\ loopVars' = loopVars
        /\ calls' = calls /\ call' = call
    BY <1>4 DEF SetId, ClearArgs, SetArgs
  <2>4. Kept /\ Named' /\ Solo' /\ pc'[p] = to /\ Writing \subseteq {p} /\ Writing' \subseteq {p}
    BY <1>1, <2>1, <2>2, <2>3
  <2>5. \A old, new : \A steps \in {IdWrites, ArgsWrites} : WriteOf(p, old, new, steps) = {new}
    BY <2>1, Alone DEF Tasks
  <2>6. OwnArgs(call[p])' = OwnArgs(call[p])
    BY <2>3 DEF OwnArgs
  <2>7. CASE SetId(p)
    <3>1. pending_seq_id_' = call[p] /\ pc'[p] = "clearArgs"
      BY <2>5, <2>7, Alone DEF SetId, Tasks
    <3> QED BY <2>2, <2>3, <2>4, <3>1 DEF OwnWrite
  <2>8. CASE ClearArgs(p)
    <3>1. /\ pending_args_' = 0 /\ pending_seq_id_' = pending_seq_id_ /\ pc[p] = "clearArgs"
          /\ pc'[p] = IF calls[call[p]].args THEN "setArgs" ELSE "raise"
      BY <2>5, <2>8, Alone DEF ClearArgs, Tasks
    <3> QED BY <2>2, <2>3, <2>4, <2>6, <3>1 DEF OwnWrite, OwnArgs
  <2>9. CASE SetArgs(p)
    <3>1. /\ pending_args_' = call[p]
          /\ pending_seq_id_' = pending_seq_id_
          /\ pc[p] = "setArgs"
          /\ pc'[p] = "raise"
      BY <2>5, <2>9, Alone DEF SetArgs, Tasks
    <3> QED BY <2>2, <2>3, <2>4, <2>6, <3>1 DEF OwnWrite, OwnArgs
  <2> QED BY <1>4, <2>7, <2>8, <2>9
\* A raise submits the request.
<1>5. ASSUME NEW p \in Producers, Raise(p) PROVE OneThreadInv' /\ Kept
  <2>1. /\ pc[p] = "raise" /\ pc'[p] = "reply" /\ Solo'
        /\ \A u \in Tasks \ {p} : pc[u] = "idle" /\ pc'[u] = "idle"
    BY <1>5, Alone DEF Raise, Tasks
  <2>2. /\ pc[Loop] = "idle" /\ pc'[Loop] = "idle" /\ p \in Writing /\ Writing' = {}
    BY <2>1 DEF Writing, Tasks
  <2>3. /\ sequence_pending_' = TRUE /\ raised' = raised \cup {call[p]}
        /\ pending_seq_id_' = pending_seq_id_ /\ pending_args_' = pending_args_
    BY <1>5 DEF Raise
  <2>4. /\ ~sequence_pending_ /\ pending_seq_id_ = call[p] /\ pending_args_ = OwnArgs(call[p])
        /\ call[p] \in Calls /\ call[p] # 0 /\ call[p] \notin raised
    BY <2>1, <2>2 DEF OwnWrite, TypeInv, Identified, TypeOK, Made, Calls, Fresh, Unraised
  <2>5. OwnWrite' /\ Named'
    BY <2>2, <2>3, <2>4 DEF OwnWrite, Named, InHand
  <2>6. /\ slot = [id |-> 0, args |-> 0]
        /\ active = [id |-> 0, args |-> 0]
        /\ active' = [id |-> 0, args |-> 0]
    BY <2>2, <2>4 DEF InHand
  <2>7. slot' = [id |-> call[p], args |-> OwnArgs(call[p])]
    BY <2>2, <2>3, <2>4 DEF InHand
  <2>8. Promise!Submit(call[p])
    BY <2>3, <2>4, <2>6, <2>7 DEF Promise!Submit, Promise!Nothing, Promise!RequestsOf, OwnArgs
  <2> QED BY <2>1, <2>4, <2>5, <2>8 DEF Promise!AbsNext
<1>6. CASE LoopStep
  <2>1. PICK from, to : Goto(Loop, from, to) /\ from \in LoopPc
    BY <1>6 DEF LoopStep, LoopTake, LoopReadId, LoopClearId, LoopUnknown, LoopFound,
                LoopStartRun, LoopFinish, LoopPc
  <2>2. /\ Solo' /\ pc[Loop] = from /\ pc'[Loop] = to
        /\ \A p \in Producers : pc[p] = "idle" /\ pc'[p] = "idle"
        /\ \A old, new : \A steps \in {IdWrites, ArgsWrites} : WriteOf(Loop, old, new, steps) = {new}
        /\ \A value : \A steps \in {IdWrites, ArgsWrites} :
             from \notin steps => ReadOf(value, steps) = {value}
    BY <2>1, Alone DEF Tasks
  <2>3. OwnWrite'
    BY <2>2 DEF OwnWrite, Writing
  <2>4. raised' = raised
    BY <1>6 DEF LoopStep, LoopTake, LoopReadId, LoopClearId, LoopUnknown, LoopFound,
                LoopStartRun, LoopFinish
  <2>5. CASE LoopTake
    <3>1. /\ pc[Loop] = "idle" /\ pc'[Loop] = "readId" /\ sequence_pending_ /\ ~sequence_pending_'
          /\ pending_seq_id_' = pending_seq_id_ /\ pending_args_' = pending_args_
      BY <2>5, LoopMoves DEF LoopTake
    <3>2. slot' = slot /\ active' = active /\ Named'
      BY <3>1 DEF Named, InHand
    <3> QED BY <1>0, <2>2, <2>3, <2>4, <3>2
  <2>6. CASE LoopReadId
    <3>1. pc[Loop] = "readId" /\ pc'[Loop] = "clearId" /\ slotVars' = slotVars
      BY <2>6, LoopMoves DEF LoopReadId
    <3>2. sid' = pending_seq_id_
      BY <2>2, <2>6, <3>1 DEF LoopReadId, IdWrites
    <3>3. slot' = slot /\ active' = active /\ Named'
      BY <3>1, <3>2 DEF Named, InHand, slotVars
    <3> QED BY <1>0, <2>2, <2>3, <2>4, <3>3
  <2>7. CASE LoopClearId
    <3>1. /\ pc[Loop] = "clearId" /\ pc'[Loop] = "lookup" /\ sid' = sid
          /\ sequence_pending_' = sequence_pending_ /\ pending_args_' = pending_args_
      BY <2>7, LoopMoves DEF LoopClearId, loopVars
    <3>2. slot' = slot /\ active' = active /\ Named'
      BY <3>1 DEF Named, InHand
    <3> QED BY <1>0, <2>2, <2>3, <2>4, <3>2
  <2>8. CASE LoopFound
    <3>1. pc[Loop] = "lookup" /\ pc'[Loop] = "scope" /\ sid' = sid /\ slotVars' = slotVars
      BY <2>8, LoopMoves DEF LoopFound
    <3>2. slot' = slot /\ active' = active /\ Named'
      BY <3>1 DEF Named, InHand, slotVars
    <3> QED BY <1>0, <2>2, <2>3, <2>4, <3>2
  <2>9. CASE LoopUnknown
    <3>1. /\ pc[Loop] = "lookup"
          /\ pc'[Loop] = "idle"
          /\ slotVars' = slotVars
          /\ ~sequence_pending_
          /\ sid # 0
      BY <2>9, LoopMoves DEF LoopUnknown, Named, InHand
    <3>2. slot = [id |-> sid, args |-> pending_args_] /\ active = [id |-> 0, args |-> 0]
      BY <3>1 DEF InHand
    <3>3. slot' = [id |-> 0, args |-> 0] /\ active' = [id |-> 0, args |-> 0] /\ Named'
      BY <3>1 DEF Named, InHand, slotVars
    <3>4. slot # [id |-> 0, args |-> 0]
      BY <3>1, <3>2
    <3>5. Promise!Discard
      BY <2>4, <3>2, <3>3, <3>4 DEF Promise!Discard, Promise!Nothing
    <3> QED BY <2>2, <2>3, <3>3, <3>5 DEF Promise!AbsNext
  <2>10. CASE LoopStartRun
    <3>1. /\ pc[Loop] = "scope" /\ pc'[Loop] = "run" /\ slotVars' = slotVars /\ ~sequence_pending_
          /\ sid # 0
      BY <2>10, LoopMoves DEF LoopStartRun, Named, InHand
    <3>2. runs' = Append(runs, [id |-> sid, args |-> pending_args_])
      BY <2>2, <2>10, <3>1 DEF LoopStartRun, ArgsWrites
    <3>3. runs' # <<>> /\ runs'[Len(runs')] = [id |-> sid, args |-> pending_args_]
      BY <3>2 DEF TypeInv, TypeOK
    <3>4. slot = [id |-> sid, args |-> pending_args_] /\ active = [id |-> 0, args |-> 0]
      BY <3>1 DEF InHand
    <3>5. slot' = [id |-> 0, args |-> 0] /\ active' = slot /\ Named'
      BY <3>1, <3>3, <3>4 DEF Named, InHand, slotVars
    <3>6. slot # [id |-> 0, args |-> 0]
      BY <3>1, <3>4
    <3>7. Promise!Start
      BY <2>4, <3>4, <3>5, <3>6 DEF Promise!Start, Promise!Nothing
    <3> QED BY <2>2, <2>3, <3>5, <3>7 DEF Promise!AbsNext
  <2>11. CASE LoopFinish
    <3>1. /\ pc[Loop] = "run" /\ pc'[Loop] = "idle" /\ sequence_pending_' = sequence_pending_
          /\ ~sequence_pending_ /\ runs[Len(runs)].id # 0
      BY <2>11, LoopMoves DEF LoopFinish, Named
    <3>2. slot = [id |-> 0, args |-> 0] /\ slot' = slot /\ Named'
      BY <3>1 DEF Named, InHand
    <3>3. active # [id |-> 0, args |-> 0] /\ active' = [id |-> 0, args |-> 0]
      BY <3>1
    <3>4. Promise!Finish
      BY <2>4, <3>2, <3>3 DEF Promise!Finish, Promise!Nothing
    <3> QED BY <2>2, <2>3, <3>2, <3>4 DEF Promise!AbsNext
  <2> QED BY <1>6, <2>5, <2>6, <2>7, <2>8, <2>9, <2>10, <2>11 DEF LoopStep
<1>7. CASE UNCHANGED vars
  <2>1. slot' = slot /\ active' = active /\ raised' = raised
    BY <1>7 DEF vars, slotVars, loopVars, InHand
  <2>2. OneThreadInv'
    BY <1>7 DEF vars, slotVars, loopVars, Solo, OwnWrite, Named, Writing, InHand, OwnArgs
  <2> QED BY <1>0, <2>1, <2>2
<1> QED BY <1>2, <1>3, <1>4, <1>5, <1>6, <1>7 DEF Next, Enqueue, Exhausted

\* If the tasks do not interleave, the queue implements OneDeepQueue for any
\* tasks and any number of calls: one whole request at a time, none run twice
\* and none overwritten (the safety part of KeepsPromise; that an accepted one
\* is taken in the end stays with TLC).
THEOREM KeepsPromiseSafely ==
  ASSUME ~Preemptive
  PROVE  Spec => Promise!AbsInit /\ [][Promise!AbsNext]_(Promise!absVars)
<1>1. Init => Promise!AbsInit
  BY DEF Init, Promise!AbsInit, Promise!Nothing, InHand, Tasks
<1>2. Init => Numbered /\ Fresh
  BY CountInit DEF CountInv
<1>3. TypeInv /\ Numbered /\ [Next]_vars => Numbered'
  BY NumberedStep
<1>4. TypeInv /\ Numbered /\ Fresh /\ [Next]_vars => Fresh'
  BY FreshStep
<1>5. TypeInv /\ Fresh /\ OneThreadInv /\ [Next]_vars => OneThreadInv' /\ [Promise!AbsNext]_(Promise!absVars)
  BY OneThreadStep DEF Kept
<1> QED BY TypeInit, TypeStep, OneThreadInit, <1>1, <1>2, <1>3, <1>4, <1>5, PTL DEF Spec
=============================================================================
