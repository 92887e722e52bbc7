----------------------------- MODULE RunQueue -----------------------------
(***************************************************************************)
(* The one-deep run queue of main.cpp (sequence_pending_, pending_seq_id_, *)
(* pending_args_) and the tasks that touch it: the web server's task and   *)
(* the BLE host task call enqueueRun, the Arduino loop task takes the      *)
(* request and runs it.  Nothing in the code locks these three variables,  *)
(* so each access is a step of its own.  The loop is the branch of loop()  *)
(* taken while Wi-Fi is ready and connected (Connectivity has the rest).   *)
(*                                                                         *)
(* A call of enqueueRun is named by its number.  The id and the arguments  *)
(* a variable holds are named by the call that wrote them: 0 is the empty  *)
(* string or the cleared document, Torn what a read during a write, or two *)
(* writes at a time, may give (the races are undefined behaviour).         *)
(***************************************************************************)
EXTENDS Naturals, Sequences, FiniteSets

CONSTANTS Producers,     \* the tasks that call enqueueRun
          Loop,          \* the Arduino loop task
          MaxCalls,      \* bound on the number of calls of enqueueRun
          Torn,          \* the outcome of an access that races with a write
          Preemptive     \* TRUE: the tasks interleave; FALSE: one thread

Tasks == Producers \cup {Loop}
Calls == 1..MaxCalls

ASSUME QueueAssumption ==
  /\ Loop \notin Producers
  /\ MaxCalls \in Nat
  /\ Torn \notin 0..MaxCalls
  /\ Preemptive \in BOOLEAN

VARIABLES
  pc,                 \* where each task is
  call,               \* the call each producer is making (0: none)
  calls,              \* per call made: has it arguments
  sequence_pending_, pending_seq_id_, pending_args_,
  sid,                \* loop(): the local copy of the id
  running_,
  raised,             \* history: the calls that have set sequence_pending_
  runs,               \* history: id and arguments of each run started
  overlapped          \* history: the calls another task cut across

slotVars == <<sequence_pending_, pending_seq_id_, pending_args_>>
loopVars == <<sid, running_, runs>>
vars == <<pc, call, calls, slotVars, loopVars,
          raised, overlapped>>

Init ==
  /\ pc = [t \in Tasks |-> "idle"]
  /\ call = [p \in Producers |-> 0]
  /\ calls = <<>>
  /\ sequence_pending_ = FALSE /\ pending_seq_id_ = 0 /\ pending_args_ = 0
  /\ sid = 0 /\ running_ = FALSE
  /\ raised = {}
  /\ runs = <<>> /\ overlapped = {}

-----------------------------------------------------------------------------
(* Scheduling.  The comment on the queue assumes one thread; the build has *)
(* several tasks, which preempt each other anywhere.                        *)

MaySchedule(t) == Preemptive \/ \A u \in Tasks \ {t} : pc[u] = "idle"

Goto(t, from, to) ==
  /\ MaySchedule(t)
  /\ pc[t] = from
  /\ pc' = [pc EXCEPT ![t] = to]

\* Producers that have passed the test of sequence_pending_ and not yet set it.
Writing == {p \in Producers : pc[p] \in {"setId", "clearArgs", "setArgs", "raise"}}

\* The request the loop has taken off the queue and not yet started.
Taken == CASE pc[Loop] = "readId" -> {pending_seq_id_}
           [] pc[Loop] \in {"clearId", "lookup", "scope"} -> {sid}
           [] OTHER -> {}

\* What a read by one task gives, and what a write by task t leaves behind.
\* Remains of two writes at a time stay as long as the writers are at it.
Writers(steps) == {t \in Tasks : pc[t] \in steps}
IdWrites == {"setId", "clearId"}
ArgsWrites == {"clearArgs", "setArgs", "run"}
ReadOf(value, steps) == {value} \cup (IF Writers(steps) # {} THEN {Torn} ELSE {})
WriteOf(t, old, new, steps) ==
  {new} \cup (IF \/ Writers(steps) \ {t} # {}
                 \/ old = Torn /\ Writing \ {t} # {} THEN {Torn} ELSE {})

-----------------------------------------------------------------------------
(* enqueueRun, and the handler around it *)

\* An HTTP handler or a BLE hit decides to run a sequence.  Triggers do not
\* check that the id exists; arguments are optional.
Request(p) ==
  /\ Len(calls) < MaxCalls
  /\ Goto(p, "idle", "check")
  /\ \E args \in BOOLEAN : calls' = Append(calls, [args |-> args])
  /\ call' = [call EXCEPT ![p] = Len(calls')]
  /\ UNCHANGED <<slotVars, loopVars, raised, overlapped>>

\* if (sequence_pending_) return;
FindFull(p) ==
  /\ sequence_pending_
  /\ Goto(p, "check", "reply")
  /\ UNCHANGED <<call, calls, slotVars, loopVars, raised, overlapped>>

\* Mutant: the flag is not tested, a second request overwrites the first.
FindFreeUntested(p) ==
  /\ Goto(p, "check", "setId")
  /\ UNCHANGED <<call, calls, slotVars, loopVars, raised, overlapped>>

FindFree(p) ==
  /\ ~sequence_pending_
  /\ Goto(p, "check", "setId")
  /\ overlapped' =
       IF Writing = {} /\ pc[Loop] = "idle"
         THEN overlapped
         ELSE overlapped \cup {call[q] : q \in Writing \cup {p}} \cup (Taken \cap Calls)
  /\ UNCHANGED <<call, calls, slotVars, loopVars, raised>>

\* pending_seq_id_ = id.c_str();
SetId(p) ==
  /\ Goto(p, "setId", "clearArgs")
  /\ pending_seq_id_' \in WriteOf(p, pending_seq_id_, call[p], IdWrites)
  /\ UNCHANGED <<call, calls, sequence_pending_, pending_args_, loopVars,
                 raised, overlapped>>

\* Mutant: the old arguments stay when the request brings none.
ClearArgsForgotten(p) ==
  /\ Goto(p, "clearArgs", IF calls[call[p]].args THEN "setArgs" ELSE "raise")
  /\ UNCHANGED <<call, calls, slotVars, loopVars, raised, overlapped>>

\* pending_args_.clear();
ClearArgs(p) ==
  /\ Goto(p, "clearArgs", IF calls[call[p]].args THEN "setArgs" ELSE "raise")
  /\ pending_args_' \in WriteOf(p, pending_args_, 0, ArgsWrites)
  /\ UNCHANGED <<call, calls, sequence_pending_, pending_seq_id_, loopVars,
                 raised, overlapped>>

\* if (!args.isNull()) pending_args_.set(args);
SetArgs(p) ==
  /\ Goto(p, "setArgs", "raise")
  /\ pending_args_' \in WriteOf(p, pending_args_, call[p], ArgsWrites)
  /\ UNCHANGED <<call, calls, sequence_pending_, pending_seq_id_, loopVars,
                 raised, overlapped>>

\* sequence_pending_ = true;
Raise(p) ==
  /\ Goto(p, "raise", "reply")
  /\ sequence_pending_' = TRUE
  /\ raised' = raised \cup {call[p]}
  /\ UNCHANGED <<call, calls, pending_seq_id_, pending_args_, loopVars,
                 overlapped>>

\* enqueueRun returns nothing: an HTTP handler answers "queued" either way.
Reply(p) ==
  /\ Goto(p, "reply", "idle")
  /\ call' = [call EXCEPT ![p] = 0]
  /\ UNCHANGED <<calls, slotVars, loopVars, raised, overlapped>>

Enqueue(p) ==
  \/ FindFull(p) \/ FindFree(p) \/ SetId(p) \/ ClearArgs(p)
  \/ SetArgs(p) \/ Raise(p) \/ Reply(p)

-----------------------------------------------------------------------------
(* loop(): take the request, look the sequence up, run it *)

\* Mutant: the flag is left set.
LoopTakeAgain ==
  /\ sequence_pending_
  /\ Goto(Loop, "idle", "readId")
  /\ UNCHANGED <<call, calls, slotVars, loopVars, raised, overlapped>>

LoopTake ==
  /\ sequence_pending_
  /\ Goto(Loop, "idle", "readId")
  /\ sequence_pending_' = FALSE
  /\ UNCHANGED <<call, calls, pending_seq_id_, pending_args_, loopVars,
                 raised, overlapped>>

\* Mutant: the id is copied after it has been emptied.
LoopReadIdLate ==
  /\ Goto(Loop, "readId", "clearId")
  /\ sid' = 0
  /\ UNCHANGED <<call, calls, slotVars, running_, runs, raised, overlapped>>

\* String sidArduino = pending_seq_id_;  a copy made during an assignment in
\* another task is a race and may be torn.
LoopReadId ==
  /\ Goto(Loop, "readId", "clearId")
  /\ sid' \in ReadOf(pending_seq_id_, IdWrites)
  /\ UNCHANGED <<call, calls, slotVars, running_, runs,
                 raised, overlapped>>

\* pending_seq_id_ = "";
LoopClearId ==
  /\ Goto(Loop, "clearId", "lookup")
  /\ pending_seq_id_' \in WriteOf(Loop, pending_seq_id_, 0, IdWrites)
  /\ UNCHANGED <<call, calls, sequence_pending_, pending_args_, loopVars,
                 raised, overlapped>>

\* findById: the id of a call exists or not at the time of the lookup (nobody
\* checked a trigger's, and the store may have changed), the empty id never does.
Exists(id) == IF id = 0 THEN {FALSE} ELSE BOOLEAN

LoopUnknown ==
  /\ FALSE \in Exists(sid)
  /\ Goto(Loop, "lookup", "idle")
  /\ sid' = 0
  /\ UNCHANGED <<call, calls, slotVars, running_, runs,
                 raised, overlapped>>

LoopFound ==
  /\ TRUE \in Exists(sid)
  /\ Goto(Loop, "lookup", "scope")
  /\ running_' = TRUE
  /\ UNCHANGED <<call, calls, slotVars, sid, runs,
                 raised, overlapped>>

\* runSequence copies the arguments into the scope (buildScope), then runs.
LoopStartRun ==
  /\ Goto(Loop, "scope", "run")
  /\ \E args \in ReadOf(pending_args_, ArgsWrites) :
       runs' = Append(runs, [id |-> sid, args |-> args])
  /\ UNCHANGED <<call, calls, slotVars, sid, running_,
                 raised, overlapped>>

\* Mutant: the arguments stay in the queue after the run.
LoopFinishKeepsArgs ==
  /\ Goto(Loop, "run", "idle")
  /\ running_' = FALSE
  /\ sid' = 0
  /\ UNCHANGED <<call, calls, slotVars, runs, raised, overlapped>>

\* The run ends, after any time, with success or failure; the arguments are
\* cleared whoever wrote them.
LoopFinish ==
  /\ Goto(Loop, "run", "idle")
  /\ running_' = FALSE
  /\ pending_args_' \in WriteOf(Loop, pending_args_, 0, ArgsWrites)
  /\ sid' = 0
  /\ UNCHANGED <<call, calls, sequence_pending_, pending_seq_id_, runs,
                 raised, overlapped>>

LoopStep ==
  \/ LoopTake \/ LoopReadId \/ LoopClearId \/ LoopUnknown
  \/ LoopFound \/ LoopStartRun \/ LoopFinish

\* All calls are made and served: only the bound MaxCalls ends a behaviour.
Exhausted ==
  /\ Len(calls) = MaxCalls /\ ~sequence_pending_
  /\ \A t \in Tasks : pc[t] = "idle"
  /\ UNCHANGED vars

Next == (\E p \in Producers : Request(p) \/ Enqueue(p)) \/ LoopStep \/ Exhausted

\* Each task is scheduled again and again, and a run ends (every block has a
\* timeout); nobody is obliged to make a request.
Fairness == WF_vars(LoopStep) /\ \A p \in Producers : WF_vars(Enqueue(p))

Spec == Init /\ [][Next]_vars /\ Fairness

-----------------------------------------------------------------------------
(* Type correctness *)

ProducerPc == {"idle", "check", "setId", "clearArgs", "setArgs", "raise", "reply"}
LoopPc == {"idle", "readId", "clearId", "lookup", "scope", "run"}
Made == 1..Len(calls)

\* Every variable keeps its type; a value in the queue is that of a call made,
\* empty or torn (enqueueRun and loop(), main.cpp:59-65, 238-275).
TypeOK ==
  /\ pc \in [Tasks -> ProducerPc \cup LoopPc]
  /\ \A p \in Producers : pc[p] \in ProducerPc
  /\ pc[Loop] \in LoopPc
  /\ calls \in Seq([args : BOOLEAN]) /\ Len(calls) <= MaxCalls
  /\ call \in [Producers -> {0} \cup Made]
  /\ sequence_pending_ \in BOOLEAN
  /\ pending_seq_id_ \in {0, Torn} \cup Made
  /\ pending_args_ \in {0, Torn} \cup Made
  /\ sid \in {0, Torn} \cup Made
  /\ running_ \in BOOLEAN
  /\ raised \subseteq Made
  /\ overlapped \subseteq Made
  /\ runs \in Seq([id : {0, Torn} \cup Made, args : {0, Torn} \cup Made])

-----------------------------------------------------------------------------
(* Safety under preemption *)

\* The requests accepted whose run has not started: the one a raised flag
\* stands for, and the one the loop has in hand.
Waiting == IF sequence_pending_ THEN 1 ELSE 0
BeingTaken == IF pc[Loop] \in {"readId", "clearId", "lookup", "scope"} THEN 1 ELSE 0

\* A run answers a raise of its own: however the tasks interleave, the loop
\* never starts more runs than there were requests accepted (the flag is
\* taken before anything else, main.cpp:239).
NoPhantomRun == Len(runs) + Waiting + BeingTaken <= Cardinality(raised)

\* The arguments of one request are used by one run at most: a request that
\* finds the document of another run still in place cannot run with it again
\* (pending_args_.clear() after the run, main.cpp:261).
ArgsServeOneRun ==
  \A i, j \in DOMAIN runs :
    i # j /\ runs[i].args \in Calls => runs[i].args # runs[j].args

OwnArgs(k) == IF calls[k].args THEN k ELSE 0

\* A request that no other task cut across (the queue was quiet when its
\* enqueueRun passed the test of the flag, and no other call passed it before
\* the loop had read id and arguments) runs with exactly its own arguments.
IntactUnlessOverlapped ==
  \A i \in DOMAIN runs :
    runs[i].id \in Calls \ overlapped => runs[i].args = OwnArgs(runs[i].id)

\* Such a request is never lost either: from the point where its producer is
\* about to set the flag it reaches, unless cut across, the lookup of its own
\* sequence, where it is run or reported as unknown (main.cpp:65, 238-245).
Accepted(k) == \E p \in Producers : pc[p] = "raise" /\ call[p] = k
Served(k) == pc[Loop] = "lookup" /\ sid = k
QuietRequestIsServed == \A k \in Calls : Accepted(k) ~> (k \in overlapped \/ Served(k))

-----------------------------------------------------------------------------
(* The queue implements OneDeepQueue when the tasks do not interleave *)

InHand == pc[Loop] \in {"clearId", "lookup", "scope"}

Promise == INSTANCE OneDeepQueue WITH
  slot <- IF sequence_pending_ \/ InHand \/ pc[Loop] = "readId"
            THEN [id |-> IF InHand THEN sid ELSE pending_seq_id_,
                  args |-> pending_args_]
            ELSE [id |-> 0, args |-> 0],
  active <- IF pc[Loop] = "run" THEN runs[Len(runs)] ELSE [id |-> 0, args |-> 0],
  submitted <- raised

\* One whole request at a time, none lost and none run twice, every accepted
\* one eventually taken: the promise of OneDeepQueue, kept by this code as
\* long as its comment's premise (one thread) holds.
KeepsPromise == Promise!AbsSpec
=============================================================================
