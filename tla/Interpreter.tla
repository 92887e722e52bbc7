---------------------------- MODULE Interpreter ----------------------------
(***************************************************************************)
(* core/Interpreter.cpp: runSequence, runSlot and runNode call each other; *)
(* here their C++ frames are the items of cont, so that every call and     *)
(* return is a step.                                                       *)
(*                                                                         *)
(* A program maps the ids of the store to sequences.  A sequence has a     *)
(* body (a list of nodes), one parameter with a default (Unset: none) and  *)
(* the broken flag.  A block or a call refers to the parameter (${x}) or   *)
(* not; resolving a reference to a parameter the scope lacks fails the     *)
(* run.  Blocks and predicates have the outcome that env gives them.       *)
(***************************************************************************)
EXTENDS Naturals, Sequences, FiniteSets

CONSTANTS Ids,              \* ids of sequences, in the store or not
          Names,            \* names of the blocks and predicates in a body
          Values,           \* values of the parameter
          Unset,            \* no value
          Nodes,            \* the nodes there may be, with those nested in them
          Programs,         \* the stores to run, each [subset of Ids -> sequences]
          MAX_CALL_DEPTH

ASSUME InterpreterAssumption ==
  /\ Unset \notin Values
  /\ MAX_CALL_DEPTH \in Nat
  /\ \A p \in Programs : DOMAIN p \subseteq Ids

\* A node has the fields its type calls for, and its lists hold nodes.
WellFormed(n) ==
  /\ n.arg \in Values \cup {Unset}
  /\ n.type \in {"block", "if"} => n.name \in Names
  /\ n.type = "if" => n.then \in Seq(Nodes) /\ n.else \in Seq(Nodes)
  /\ n.type = "repeat" => n.count \in Nat /\ n.body \in Seq(Nodes)

ASSUME StoreAssumption ==
  /\ Ids # {} /\ \A n \in Nodes : WellFormed(n)
  /\ \A p \in Programs : \A id \in DOMAIN p :
       p[id].nodes \in Seq(Nodes) /\ p[id].default \in Values \cup {Unset}

VARIABLES program,          \* the store; no one edits it during a run here
          env,              \* which blocks succeed and which predicates hold
          callStack,        \* RunCtx.callStack
          scopeStack,       \* RunCtx.scopeStack: the value of the parameter
          cont,             \* the frames of the C++ stack, innermost last
          status,           \* "idle", "running", "failing", "ok", "failed"
          root,             \* history: the sequence started and its argument
          trace             \* history: the blocks run, with the value they saw

vars == <<program, env, callStack, scopeStack, cont, status, root, trace>>

-----------------------------------------------------------------------------
(* Frames and nodes *)

Top(s) == s[Len(s)]
Pop(s) == SubSeq(s, 1, Len(s) - 1)

SlotFrame(nodes) == [kind |-> "slot", nodes |-> nodes, at |-> 1]
RepeatFrame(body, n) == [kind |-> "repeat", nodes |-> body, at |-> n]
CallFrame == [kind |-> "call", nodes |-> <<>>, at |-> 0]

\* The innermost frame is a slot with a node left, and this is the node.
AtNode == /\ status = "running" /\ Top(cont).kind = "slot"
          /\ Top(cont).at <= Len(Top(cont).nodes)
Node == Top(cont).nodes[Top(cont).at]

\* The slot's iterator moves on before the frames of the node are entered.
Advance(frames) ==
  cont' = [cont EXCEPT ![Len(cont)].at = @ + 1] \o frames

AtActive(type) == AtNode /\ ~Node.disabled /\ Node.type = type

Scope == Top(scopeStack)

\* resolveParams fails on a reference to a parameter without a value.
Resolves == Node.ref => Scope # Unset
Resolved == IF Node.ref THEN Scope ELSE Node.arg

\* Mutant: the default wins over the argument.
buildScopeDefault(s, arg) == IF s.default # Unset THEN s.default ELSE arg

\* buildScope: the default, overlaid by the argument if there is one.
buildScope(s, arg) == IF arg = Unset THEN s.default ELSE arg

Fail ==
  /\ status' = "failing"
  /\ UNCHANGED <<program, env, root, callStack, scopeStack, cont, trace>>

-----------------------------------------------------------------------------
(* runSequence *)

\* The loop starts any sequence of the store, broken or not (a trigger does
\* not look at the flag), with an argument or none.
Start(id, arg) ==
  /\ status = "idle"
  /\ id \in DOMAIN program
  /\ Len(callStack) < MAX_CALL_DEPTH
  /\ callStack' = Append(callStack, id)
  /\ scopeStack' = Append(scopeStack, buildScope(program[id], arg))
  /\ cont' = <<CallFrame, SlotFrame(program[id].nodes)>>
  /\ status' = "running"
  /\ root' = [id |-> id, arg |-> arg]
  /\ UNCHANGED <<program, env, trace>>

\* Mutant: a failed body returns without popping its scope.
ReturnLeaksScope ==
  /\ status \in {"running", "failing"}
  /\ Top(cont).kind = "call"
  /\ callStack' = Pop(callStack)
  /\ scopeStack' = IF status = "failing" THEN scopeStack ELSE Pop(scopeStack)
  /\ cont' = Pop(cont)
  /\ status' = IF Len(cont) > 1 THEN status
               ELSE IF status = "running" THEN "ok" ELSE "failed"
  /\ UNCHANGED <<program, env, root, trace>>

\* Mutant: the end of the outermost sequence is not reported.
ReturnUnreported ==
  /\ status \in {"running", "failing"}
  /\ Top(cont).kind = "call"
  /\ callStack' = Pop(callStack)
  /\ scopeStack' = Pop(scopeStack)
  /\ cont' = Pop(cont)
  /\ UNCHANGED <<program, env, root, status, trace>>

\* The body has returned, with success or not: both stacks are popped.
Return ==
  /\ status \in {"running", "failing"}
  /\ Top(cont).kind = "call"
  /\ callStack' = Pop(callStack)
  /\ scopeStack' = Pop(scopeStack)
  /\ cont' = Pop(cont)
  /\ status' = IF Len(cont) > 1 THEN status
               ELSE IF status = "running" THEN "ok" ELSE "failed"
  /\ UNCHANGED <<program, env, root, trace>>

-----------------------------------------------------------------------------
(* runSlot *)

SlotDone ==
  /\ status = "running"
  /\ Top(cont).kind = "slot" /\ Top(cont).at > Len(Top(cont).nodes)
  /\ cont' = Pop(cont)
  /\ UNCHANGED <<program, env, root, callStack, scopeStack, status, trace>>

\* A failed node ends its slot, and the repeat around it.
Unwind ==
  /\ status = "failing" /\ Top(cont).kind # "call"
  /\ cont' = Pop(cont)
  /\ UNCHANGED <<program, env, root, callStack, scopeStack, status, trace>>

-----------------------------------------------------------------------------
(* runNode *)

\* Mutant: a skipped node is not passed.
SkipStays ==
  /\ AtNode /\ (Node.disabled \/ Node.type = "divider")
  /\ UNCHANGED vars

\* A disabled node and a divider do nothing.
Skip ==
  /\ AtNode /\ (Node.disabled \/ Node.type = "divider")
  /\ Advance(<<>>)
  /\ UNCHANGED <<program, env, root, callStack, scopeStack, status, trace>>

If ==
  /\ AtActive("if") /\ Resolves
  /\ Advance(<<SlotFrame(IF env[Node.name] THEN Node.then ELSE Node.else)>>)
  /\ UNCHANGED <<program, env, root, callStack, scopeStack, status, trace>>

Repeat ==
  /\ AtActive("repeat") /\ Resolves
  /\ Advance(<<RepeatFrame(Node.body, Node.count)>>)
  /\ UNCHANGED <<program, env, root, callStack, scopeStack, status, trace>>

Iterate ==
  /\ status = "running" /\ Top(cont).kind = "repeat"
  /\ cont' = IF Top(cont).at = 0 THEN Pop(cont)
             ELSE Append([cont EXCEPT ![Len(cont)].at = @ - 1],
                         SlotFrame(Top(cont).nodes))
  /\ UNCHANGED <<program, env, root, callStack, scopeStack, status, trace>>

OnStack(id) == \E i \in DOMAIN callStack : callStack[i] = id

\* No cycle, a callee in the store that is not broken, and room on the stack.
Callable(id) ==
  /\ ~OnStack(id)
  /\ id \in DOMAIN program
  /\ ~program[id].broken
  /\ Len(callStack) < MAX_CALL_DEPTH

Call ==
  /\ AtActive("call-sequence") /\ Resolves /\ Callable(Node.to)
  /\ callStack' = Append(callStack, Node.to)
  /\ scopeStack' = Append(scopeStack, buildScope(program[Node.to], Resolved))
  /\ Advance(<<CallFrame, SlotFrame(program[Node.to].nodes)>>)
  /\ UNCHANGED <<program, env, root, status, trace>>

RefuseCall ==
  /\ AtActive("call-sequence") /\ Resolves /\ ~Callable(Node.to)
  /\ Fail

\* A block of the registry runs to its end, with success or failure.
RunBlock ==
  /\ AtActive("block") /\ Resolves
  /\ trace' = Append(trace, <<Node.name, Resolved>>)
  /\ IF env[Node.name]
       THEN Advance(<<>>) /\ UNCHANGED status
       ELSE status' = "failing" /\ UNCHANGED cont
  /\ UNCHANGED <<program, env, root, callStack, scopeStack>>

\* No such block or predicate, or parameters that do not resolve.
RefuseNode ==
  /\ AtNode /\ ~Node.disabled /\ Node.type # "divider"
  /\ Node.type = "unknown" \/ ~Resolves
  /\ Fail

runNode == Skip \/ If \/ Repeat \/ Call \/ RefuseCall \/ RunBlock \/ RefuseNode
Step == runNode \/ Iterate \/ SlotDone \/ Unwind \/ Return

\* A finished run leaves the interpreter to the next one, of another program.
Ended == status \in {"ok", "failed"} /\ UNCHANGED vars

Init ==
  /\ program \in Programs
  /\ env \in [Names -> BOOLEAN]
  /\ callStack = <<>> /\ scopeStack = <<>> /\ cont = <<>>
  /\ status = "idle" /\ trace = <<>>
  /\ root = [id |-> CHOOSE id \in Ids : TRUE, arg |-> Unset]

Next == (\E id \in Ids, arg \in Values \cup {Unset} : Start(id, arg)) \/ Step \/ Ended

\* Every block returns (each waits with a timeout), so the loop task goes on.
Spec == Init /\ [][Next]_vars /\ WF_vars(Step)

-----------------------------------------------------------------------------
(* Properties *)

\* Both stacks hold one entry per sequence being run, the C++ stack agrees,
\* and nothing is left on them when a run has ended.
TypeOK ==
  /\ callStack \in Seq(Ids)
  /\ scopeStack \in Seq(Values \cup {Unset})
  /\ status \in {"idle", "running", "failing", "ok", "failed"}
  /\ status \in {"idle", "ok", "failed"} <=> cont = <<>>
  /\ trace \in Seq(Names \X (Values \cup {Unset}))
  /\ root \in [id : Ids, arg : Values \cup {Unset}]

CallFrames == {i \in DOMAIN cont : cont[i].kind = "call"}

\* The call stack, the scope stack and the runSequence frames of the C++ stack
\* stay in step, whichever way a sequence is left (Interpreter.cpp:36-46), so
\* no block ever resolves its parameters in another sequence's scope.
StacksAgree ==
  /\ Len(scopeStack) = Len(callStack)
  /\ Cardinality(CallFrames) = Len(callStack)

\* No sequence runs inside itself, at any distance, and calls nest at most
\* MAX_CALL_DEPTH deep, whatever the store holds.
NoCycle == \A i, j \in DOMAIN callStack : i # j => callStack[i] # callStack[j]
DepthBounded == Len(callStack) <= MAX_CALL_DEPTH

\* Once a node has failed nothing more is executed, up to the end of the run.
FailureAborts == [][status = "failing" => trace' = trace /\ status' \in {"failing", "failed"}]_vars

\* Every run ends, also when sequences call each other in a circle.
RunEnds == (status = "running") ~> (status \in {"ok", "failed"})
=============================================================================
