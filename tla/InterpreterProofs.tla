------------------------- MODULE InterpreterProofs -------------------------
(***************************************************************************)
(* Proofs about Interpreter, for any stores of sequences, any outcome of   *)
(* the blocks and any MAX_CALL_DEPTH; and that what it runs is what        *)
(* ProgramMeaning says.                                                    *)
(***************************************************************************)
EXTENDS ProgramMeaning, FiniteSetTheorems, SequenceTheorems, TLAPS

USE InterpreterAssumption DEF InterpreterAssumption

-----------------------------------------------------------------------------
(* Stacks: a push adds one entry, a pop takes one, in whichever stack *)

IsSeq(s) == \E S : s \in Seq(S)

\* A stack of frames: each has a kind, and the outermost is a call.
Kinded(s) == IsSeq(s) /\ \A i \in DOMAIN s : "kind" \in DOMAIN s[i]
CallsIn(s) == {i \in DOMAIN s : s[i].kind = "call"}
OnCall(s) == s # <<>> => s[1].kind = "call"

LEMMA SeqDomain ==
  ASSUME NEW s, IsSeq(s)
  PROVE  Len(s) \in Nat /\ DOMAIN s = 1..Len(s) /\ (s = <<>> <=> Len(s) = 0)
BY LenProperties DEF IsSeq

LEMMA PushAny ==
  ASSUME NEW s, IsSeq(s), NEW e
  PROVE  /\ IsSeq(Append(s, e)) /\ Len(Append(s, e)) = Len(s) + 1
         /\ DOMAIN Append(s, e) = 1..Len(s) + 1
         /\ \A i \in 1..Len(s) : Append(s, e)[i] = s[i]
         /\ Append(s, e)[Len(s) + 1] = e
<1>1. PICK S : s \in Seq(S)
  BY DEF IsSeq
<1>2. s \in Seq(S \cup {e}) /\ Len(s) \in Nat
  BY <1>1, SeqMonotonic, LenProperties
<1>3. Append(s, e) \in Seq(S \cup {e}) /\ Len(Append(s, e)) = Len(s) + 1
  BY <1>2
<1>4. DOMAIN Append(s, e) = 1..Len(s) + 1
  BY <1>3, LenProperties
<1>5. /\ \A i \in 1..Len(s) : Append(s, e)[i] = s[i]
      /\ Append(s, e)[Len(s) + 1] = e
  BY <1>2
<1> QED BY <1>3, <1>4, <1>5 DEF IsSeq

LEMMA PopAny ==
  ASSUME NEW S, NEW s \in Seq(S), s # <<>>
  PROVE  /\ Pop(s) \in Seq(S) /\ IsSeq(Pop(s)) /\ Len(s) \in Nat \ {0}
         /\ Len(Pop(s)) = Len(s) - 1 /\ DOMAIN Pop(s) = 1..Len(s) - 1
         /\ \A i \in 1..Len(s) - 1 : Pop(s)[i] = s[i]
<1>1. Len(s) \in Nat \ {0}
  BY LenProperties
<1>2. \A i \in 1..Len(s) - 1 : i \in 1..Len(s) /\ s[i] \in S
  BY <1>1, ElementOfSeq
<1> DEFINE n == Len(s) - 1
<1>3. n \in Nat /\ n \in Int /\ \A i \in 1..n : 1 + i - 1 = i
  BY <1>1
<1> HIDE DEF n
<1>4. n - 1 + 1 = n /\ (1 <= n \/ n = 0)
  BY <1>3
<1>5. /\ SubSeq(s, 1, n) \in Seq(S)
      /\ Len(SubSeq(s, 1, n)) = n
      /\ \A i \in 1..n : SubSeq(s, 1, n)[i] = s[i]
  BY <1>2, <1>3, <1>4, SubSeqProperties DEF n
<1>6. Pop(s) = SubSeq(s, 1, n)
  BY DEF Pop, n
<1>7. DOMAIN Pop(s) = 1..n
  BY <1>5, <1>6, LenProperties
<1> QED BY <1>1, <1>5, <1>6, <1>7 DEF n, IsSeq

LEMMA CallsFinite ==
  ASSUME NEW s, IsSeq(s)
  PROVE  IsFiniteSet(CallsIn(s)) /\ Cardinality(CallsIn(s)) \in Nat
<1>1. Len(s) \in Nat /\ DOMAIN s = 1..Len(s)
  BY SeqDomain
<1>2. IsFiniteSet(1..Len(s)) /\ CallsIn(s) \subseteq 1..Len(s)
  BY <1>1, FS_Interval DEF CallsIn
<1> QED BY <1>2, FS_Subset, FS_CardinalityType

LEMMA PushFrame ==
  ASSUME NEW s, Kinded(s), OnCall(s), NEW f, "kind" \in DOMAIN f,
         s = <<>> => f.kind = "call"
  PROVE  /\ Kinded(Append(s, f)) /\ OnCall(Append(s, f)) /\ Append(s, f) # <<>>
         /\ Cardinality(CallsIn(Append(s, f))) =
              Cardinality(CallsIn(s)) + (IF f.kind = "call" THEN 1 ELSE 0)
<1> DEFINE t == Append(s, f)
<1>1. /\ IsSeq(s) /\ IsSeq(t) /\ Len(s) \in Nat /\ DOMAIN s = 1..Len(s)
      /\ Len(t) = Len(s) + 1 /\ DOMAIN t = 1..Len(s) + 1
      /\ \A i \in 1..Len(s) : t[i] = s[i]
      /\ t[Len(s) + 1] = f
  BY PushAny, SeqDomain DEF Kinded
<1> HIDE DEF t
<1>2. Kinded(t)
  BY <1>1 DEF Kinded
<1>3. t # <<>> /\ OnCall(t)
  <2>1. t # <<>>
    BY <1>1, SeqDomain
  <2>2. CASE s = <<>>
    BY <1>1, <2>2 DEF OnCall
  <2>3. CASE s # <<>>
    <3>1. 1 \in 1..Len(s)
      BY <1>1, <2>3, SeqDomain
    <3> QED BY <1>1, <2>3, <3>1 DEF OnCall
  <2> QED BY <2>1, <2>2, <2>3
<1>4. CallsIn(t) = IF f.kind = "call" THEN CallsIn(s) \cup {Len(s) + 1} ELSE CallsIn(s)
  BY <1>1 DEF CallsIn
<1>5. Len(s) + 1 \notin CallsIn(s)
  BY <1>1 DEF CallsIn
<1>6. Cardinality(CallsIn(t)) = Cardinality(CallsIn(s)) + (IF f.kind = "call" THEN 1 ELSE 0)
  <2>1. CASE f.kind = "call"
    BY <1>1, <1>4, <1>5, <2>1, CallsFinite, FS_AddElement
  <2>2. CASE f.kind # "call"
    BY <1>1, <1>4, <2>2, CallsFinite
  <2> QED BY <2>1, <2>2
<1> QED BY <1>2, <1>3, <1>6 DEF t

LEMMA PopFrame ==
  ASSUME NEW s, Kinded(s), OnCall(s), s # <<>>
  PROVE  /\ Kinded(Pop(s)) /\ OnCall(Pop(s))
         /\ Len(s) \in Nat \ {0}
         /\ Pop(s) = <<>> <=> Len(s) = 1
         /\ Top(s).kind # "call" => Pop(s) # <<>>
         /\ Cardinality(CallsIn(Pop(s))) =
              Cardinality(CallsIn(s)) - (IF Top(s).kind = "call" THEN 1 ELSE 0)
<1> DEFINE t == Pop(s)
<1>1. PICK S : s \in Seq(S)
  BY DEF Kinded, IsSeq
<1>2. /\ IsSeq(s) /\ IsSeq(t) /\ Len(s) \in Nat \ {0} /\ DOMAIN s = 1..Len(s)
      /\ Len(t) = Len(s) - 1 /\ DOMAIN t = 1..Len(s) - 1
      /\ \A i \in 1..Len(s) - 1 : t[i] = s[i]
  BY <1>1, PopAny, SeqDomain DEF Kinded
<1>3. Top(s) = s[Len(s)]
  BY DEF Top
<1> HIDE DEF t
<1>4. t = <<>> <=> Len(s) = 1
  BY <1>2, SeqDomain
<1>5. Kinded(t) /\ OnCall(t)
  BY <1>2, <1>4 DEF Kinded, OnCall
<1>6. Top(s).kind # "call" => t # <<>>
  BY <1>2, <1>3, <1>4 DEF OnCall
<1>7. CallsIn(t) = CallsIn(s) \ {Len(s)}
  BY <1>2 DEF CallsIn
<1>8. Len(s) \in CallsIn(s) <=> Top(s).kind = "call"
  BY <1>2, <1>3 DEF CallsIn
<1>9. Cardinality(CallsIn(t)) =
        Cardinality(CallsIn(s)) - (IF Top(s).kind = "call" THEN 1 ELSE 0)
  <2>1. CASE Top(s).kind = "call"
    BY <1>2, <1>7, <1>8, <2>1, CallsFinite, FS_RemoveElement
  <2>2. CASE Top(s).kind # "call"
    <3>1. CallsIn(t) = CallsIn(s)
      BY <1>7, <1>8, <2>2
    <3> QED BY <1>2, <2>2, <3>1, CallsFinite
  <2> QED BY <2>1, <2>2
<1> QED BY <1>2, <1>4, <1>5, <1>6, <1>9 DEF t

\* Moving the iterator of the innermost frame disturbs neither.
LEMMA MoveFrame ==
  ASSUME NEW s, Kinded(s), OnCall(s), s # <<>>, NEW n
  PROVE  LET t == [s EXCEPT ![Len(s)].at = n] IN
         /\ Kinded(t) /\ OnCall(t) /\ t # <<>>
         /\ Cardinality(CallsIn(t)) = Cardinality(CallsIn(s))
<1> DEFINE e == [s[Len(s)] EXCEPT !.at = n]
           t == [s EXCEPT ![Len(s)] = e]
<1>1. PICK S : s \in Seq(S)
  BY DEF Kinded, IsSeq
<1>2. /\ IsSeq(s) /\ Len(s) \in Nat \ {0} /\ DOMAIN s = 1..Len(s) /\ Len(s) \in DOMAIN s
  BY SeqDomain DEF Kinded
<1>3. "kind" \in DOMAIN s[Len(s)]
  BY <1>2 DEF Kinded
<1>4. "kind" \in DOMAIN e /\ e.kind = s[Len(s)].kind
  BY <1>3
<1> HIDE DEF e
<1>5. s \in Seq(S \cup {e})
  BY <1>1, SeqMonotonic
<1>6. t \in Seq(S \cup {e}) /\ Len(t) = Len(s)
      /\ \A i \in 1..Len(s) : t[i] = IF i = Len(s) THEN e ELSE s[i]
  BY <1>2, <1>5, ExceptSeq
<1> HIDE DEF t
<1>7. IsSeq(t) /\ DOMAIN t = DOMAIN s /\ t # <<>>
  BY <1>2, <1>6, SeqDomain, LenProperties DEF IsSeq
<1>8. \A i \in DOMAIN s : "kind" \in DOMAIN t[i] /\ t[i].kind = s[i].kind
  BY <1>2, <1>4, <1>6 DEF Kinded
<1>9. Kinded(t) /\ OnCall(t) /\ CallsIn(t) = CallsIn(s)
  <2>1. 1 \in DOMAIN s
    BY <1>2
  <2> QED BY <1>7, <1>8, <2>1 DEF Kinded, OnCall, CallsIn
<1> QED BY <1>7, <1>9 DEF t, e

LEMMA ConcatFrames ==
  ASSUME NEW s, IsSeq(s), NEW f, NEW g
  PROVE  /\ s \o <<>> = s /\ s \o <<f>> = Append(s, f)
         /\ s \o <<f, g>> = Append(Append(s, f), g)
<1>1. PICK S : s \in Seq(S)
  BY DEF IsSeq
<1>2. s \in Seq(S \cup {f, g})
  BY <1>1, SeqMonotonic
<1> QED BY <1>2, ConcatEmptySeq

-----------------------------------------------------------------------------
(* The invariant: NoCycle and DepthBounded need the guard of Call only, and *)
(* that a run starts with empty stacks; StacksAgree needs the frames.       *)

Running == status \in {"running", "failing"}

FramesInv ==
  /\ status \in {"idle", "running", "failing", "ok", "failed"}
  /\ Running <=> cont # <<>>
  /\ Kinded(cont) /\ OnCall(cont)
  /\ Cardinality(CallsIn(cont)) = Len(callStack)

ScopesInv == IsSeq(scopeStack) /\ Len(scopeStack) = Len(callStack)

CallsInv == callStack \in Seq(Ids) /\ NoCycle /\ DepthBounded

InterpInv == program \in Programs /\ FramesInv /\ ScopesInv /\ CallsInv

LEMMA EmptyCalls == Cardinality(CallsIn(<<>>)) = 0 /\ IsSeq(<<>>) /\ Kinded(<<>>) /\ OnCall(<<>>)
<1>1. CallsIn(<<>>) = {} /\ IsSeq(<<>>) /\ Kinded(<<>>) /\ OnCall(<<>>)
  BY DEF CallsIn, IsSeq, Kinded, OnCall
<1> QED BY <1>1, FS_EmptySet

LEMMA InvInit == Init => InterpInv
<1> SUFFICES ASSUME Init PROVE InterpInv
  OBVIOUS
<1>1. callStack = <<>> /\ scopeStack = <<>> /\ cont = <<>> /\ status = "idle"
  BY DEF Init
<1>2. FramesInv /\ ScopesInv
  BY <1>1, EmptyCalls DEF FramesInv, ScopesInv, Running
<1>3. CallsInv
  BY <1>1 DEF CallsInv, NoCycle, DepthBounded
<1> QED BY <1>2, <1>3 DEF InterpInv, Init

\* A push of an id that is not on the stack, where there is room.
LEMMA PushCall ==
  ASSUME CallsInv, NEW id \in Ids, ~OnStack(id), Len(callStack) < MAX_CALL_DEPTH,
         callStack' = Append(callStack, id)
  PROVE  CallsInv' /\ Len(callStack') = Len(callStack) + 1
<1>1. callStack \in Seq(Ids) /\ Len(callStack) \in Nat /\ DOMAIN callStack = 1..Len(callStack)
  BY LenProperties DEF CallsInv
<1>2. /\ callStack' \in Seq(Ids) /\ Len(callStack') = Len(callStack) + 1
      /\ DOMAIN callStack' = 1..Len(callStack) + 1
      /\ \A i \in 1..Len(callStack) : callStack'[i] = callStack[i]
      /\ callStack'[Len(callStack) + 1] = id
  <2>1. callStack' \in Seq(Ids)
    BY <1>1
  <2> QED BY <1>1, <2>1, PushAny DEF IsSeq
<1>3. NoCycle'
  BY <1>1, <1>2 DEF CallsInv, NoCycle, OnStack
<1>4. DepthBounded'
  BY <1>1, <1>2 DEF DepthBounded
<1> QED BY <1>2, <1>3, <1>4 DEF CallsInv

LEMMA InvStep == InterpInv /\ [Next]_vars => InterpInv'
<1> SUFFICES ASSUME InterpInv, [Next]_vars PROVE InterpInv'
  OBVIOUS
<1> USE DEF InterpInv
<1>1. /\ IsSeq(cont) /\ IsSeq(scopeStack) /\ IsSeq(callStack) /\ callStack \in Seq(Ids)
      /\ Len(callStack) \in Nat /\ Len(scopeStack) = Len(callStack)
  BY LenProperties DEF FramesInv, ScopesInv, CallsInv, Kinded, IsSeq
\* The actions that touch neither the call stack nor the scopes.
<1>2. ASSUME callStack' = callStack, scopeStack' = scopeStack, program' = program,
             FramesInv'
      PROVE  InterpInv'
  BY <1>2 DEF ScopesInv, CallsInv, NoCycle, DepthBounded
\* A step that moves the iterator on, and pushes nothing, a frame or two.
<1>3. ASSUME AtNode
      PROVE  LET t == [cont EXCEPT ![Len(cont)].at = @ + 1] IN
             /\ IsSeq(t) /\ Kinded(t) /\ OnCall(t) /\ t # <<>>
             /\ Cardinality(CallsIn(t)) = Len(callStack)
  <2>1. cont # <<>>
    BY <1>3 DEF AtNode, FramesInv, Running
  <2> QED BY <2>1, MoveFrame DEF FramesInv, Kinded
<1>4. CASE Skip
  <2>1. cont' = [cont EXCEPT ![Len(cont)].at = @ + 1]
    BY <1>3, <1>4, ConcatFrames DEF Skip, Advance
  <2>2. FramesInv'
    BY <1>3, <1>4, <2>1 DEF Skip, FramesInv, Running, AtNode, CallsIn
  <2> QED BY <1>2, <1>4, <2>2 DEF Skip
<1>5. ASSUME NEW f, "kind" \in DOMAIN f, f.kind # "call", AtNode,
             status' = status, callStack' = callStack, Advance(<<f>>)
      PROVE  FramesInv'
  <2> DEFINE t == [cont EXCEPT ![Len(cont)].at = @ + 1]
  <2>1. /\ IsSeq(t) /\ Kinded(t) /\ OnCall(t) /\ t # <<>>
        /\ Cardinality(CallsIn(t)) = Len(callStack)
    BY <1>3, <1>5
  <2>2. cont' = t \o <<f>>
    BY <1>5 DEF Advance
  <2> HIDE DEF t
  <2>3. cont' = Append(t, f)
    BY <2>1, <2>2, ConcatFrames
  <2>4. /\ Kinded(cont') /\ OnCall(cont') /\ cont' # <<>>
        /\ Cardinality(CallsIn(cont')) = Len(callStack) + 0
    BY <1>5, <2>1, <2>3, PushFrame
  <2> QED BY <1>1, <1>5, <2>4 DEF FramesInv, Running, AtNode, CallsIn
<1>6. CASE If
  <2>1. PICK f : f.kind = "slot" /\ "kind" \in DOMAIN f /\ Advance(<<f>>)
    BY <1>6 DEF If, SlotFrame
  <2>2. AtNode /\ status' = status /\ callStack' = callStack
    BY <1>6 DEF If, AtActive
  <2> QED BY <1>2, <1>5, <1>6, <2>1, <2>2 DEF If
<1>7. CASE Repeat
  <2>1. PICK f : f.kind = "repeat" /\ "kind" \in DOMAIN f /\ Advance(<<f>>)
    BY <1>7 DEF Repeat, RepeatFrame
  <2>2. AtNode /\ status' = status /\ callStack' = callStack
    BY <1>7 DEF Repeat, AtActive
  <2> QED BY <1>2, <1>5, <1>7, <2>1, <2>2 DEF Repeat
\* A step that pops a frame other than a call.
<1>8. ASSUME Running, Top(cont).kind # "call", cont' = Pop(cont), callStack' = callStack,
             status' = status
      PROVE  FramesInv'
  <2>1. cont # <<>>
    BY <1>8 DEF FramesInv
  <2>2. /\ Kinded(cont') /\ OnCall(cont') /\ cont' # <<>>
        /\ Cardinality(CallsIn(cont')) = Len(callStack) - 0
    BY <1>8, <2>1, PopFrame DEF FramesInv
  <2> QED BY <1>1, <1>8, <2>2 DEF FramesInv, Running, CallsIn
<1>9. CASE SlotDone
  BY <1>2, <1>8, <1>9 DEF SlotDone, Running
<1>10. CASE Unwind
  BY <1>2, <1>8, <1>10 DEF Unwind, Running
<1>11. CASE Iterate
  <2>1. CASE Top(cont).at = 0
    BY <1>2, <1>8, <1>11, <2>1 DEF Iterate, Running
  <2>2. CASE Top(cont).at # 0
    <3> DEFINE t == [cont EXCEPT ![Len(cont)].at = @ - 1]
               f == SlotFrame(Top(cont).nodes)
    <3>1. /\ cont # <<>> /\ status' = status /\ status = "running"
          /\ callStack' = callStack
      BY <1>11 DEF Iterate, FramesInv, Running
    <3>2. /\ Kinded(t) /\ OnCall(t) /\ t # <<>>
          /\ Cardinality(CallsIn(t)) = Len(callStack)
      BY <3>1, MoveFrame DEF FramesInv
    <3>3. cont' = Append(t, f) /\ f.kind = "slot" /\ "kind" \in DOMAIN f
      BY <1>11, <2>2 DEF Iterate, SlotFrame
    <3> HIDE DEF t, f
    <3>4. /\ Kinded(cont') /\ OnCall(cont') /\ cont' # <<>>
          /\ Cardinality(CallsIn(cont')) = Len(callStack) + 0
      BY <3>2, <3>3, PushFrame
    <3>5. FramesInv'
      BY <1>1, <3>1, <3>4 DEF FramesInv, Running, CallsIn
    <3> QED BY <1>2, <1>11, <3>5 DEF Iterate
  <2> QED BY <2>1, <2>2
<1>12. CASE RunBlock
  <2>1. CASE Advance(<<>>) /\ UNCHANGED status
    <3>1. cont' = [cont EXCEPT ![Len(cont)].at = @ + 1]
      BY <1>3, <1>12, <2>1, ConcatFrames DEF RunBlock, AtActive, Advance
    <3>2. FramesInv'
      BY <1>3, <1>12, <2>1, <3>1 DEF RunBlock, FramesInv, Running, AtActive, AtNode, CallsIn
    <3> QED BY <1>2, <1>12, <3>2 DEF RunBlock
  <2>2. CASE status' = "failing" /\ UNCHANGED cont
    <3>1. FramesInv'
      BY <1>12, <2>2 DEF RunBlock, FramesInv, Running, AtActive, AtNode, CallsIn, Kinded,
                         OnCall, IsSeq
    <3> QED BY <1>2, <1>12, <3>1 DEF RunBlock
  <2> QED BY <1>12, <2>1, <2>2 DEF RunBlock
<1>13. CASE RefuseCall \/ RefuseNode
  <2>1. Fail /\ status = "running"
    BY <1>13 DEF RefuseCall, RefuseNode, AtActive, AtNode
  <2>2. FramesInv'
    BY <2>1 DEF Fail, FramesInv, Running, CallsIn, Kinded, OnCall, IsSeq
  <2> QED BY <1>2, <2>1, <2>2 DEF Fail
<1>14. CASE Call
  <2> DEFINE t == [cont EXCEPT ![Len(cont)].at = @ + 1]
             id == Node.to
             g == SlotFrame(program[id].nodes)
  <2>1. /\ IsSeq(t) /\ Kinded(t) /\ OnCall(t) /\ t # <<>>
        /\ Cardinality(CallsIn(t)) = Len(callStack)
    BY <1>3, <1>14 DEF Call, AtActive
  <2>2. cont' = t \o <<CallFrame, g>>
    BY <1>14 DEF Call, Advance
  <2>3. /\ CallFrame.kind = "call" /\ "kind" \in DOMAIN CallFrame
        /\ g.kind = "slot" /\ "kind" \in DOMAIN g
    BY DEF CallFrame, SlotFrame
  <2>4. /\ ~OnStack(id) /\ id \in Ids /\ Len(callStack) < MAX_CALL_DEPTH
        /\ callStack' = Append(callStack, id)
    BY <1>14 DEF Call, Callable
  <2>5. /\ status' = status /\ status = "running" /\ program' = program
        /\ \E v : scopeStack' = Append(scopeStack, v)
    BY <1>14 DEF Call, AtActive, AtNode
  <2> HIDE DEF t, g, id
  <2>6. cont' = Append(Append(t, CallFrame), g)
    BY <2>1, <2>2, ConcatFrames
  <2>7. CallsInv' /\ Len(callStack') = Len(callStack) + 1
    BY <2>4, PushCall
  <2>8. /\ Kinded(Append(t, CallFrame)) /\ OnCall(Append(t, CallFrame))
        /\ Append(t, CallFrame) # <<>>
        /\ Cardinality(CallsIn(Append(t, CallFrame))) = Len(callStack) + 1
    BY <2>1, <2>3, PushFrame
  <2>9. /\ Kinded(cont') /\ OnCall(cont') /\ cont' # <<>>
        /\ Cardinality(CallsIn(cont')) = (Len(callStack) + 1) + 0
    BY <2>3, <2>6, <2>8, PushFrame
  <2>10. FramesInv'
    BY <1>1, <2>5, <2>7, <2>9 DEF FramesInv, Running, CallsIn
  <2>11. ScopesInv'
    <3>1. PICK v : scopeStack' = Append(scopeStack, v)
      BY <2>5
    <3>2. IsSeq(scopeStack') /\ Len(scopeStack') = Len(callStack')
      BY <1>1, <2>7, <3>1, PushAny
    <3> QED BY <3>2 DEF ScopesInv, IsSeq
  <2> QED BY <2>5, <2>7, <2>10, <2>11
<1>15. CASE Return
  <2>1. /\ cont # <<>> /\ Top(cont).kind = "call"
        /\ cont' = Pop(cont) /\ callStack' = Pop(callStack)
        /\ scopeStack' = Pop(scopeStack) /\ program' = program
    BY <1>15 DEF Return, FramesInv, Running
  <2>2. /\ Kinded(cont') /\ OnCall(cont') /\ Len(cont) \in Nat \ {0}
        /\ cont' = <<>> <=> Len(cont) = 1
        /\ Cardinality(CallsIn(cont')) = Len(callStack) - 1
    BY <2>1, PopFrame DEF FramesInv
  <2>3. callStack # <<>> /\ scopeStack # <<>>
    <3>1. IsSeq(cont') /\ Cardinality(CallsIn(cont')) \in Nat
      BY <2>2, CallsFinite DEF Kinded
    <3> QED BY <1>1, <2>2, <3>1, SeqDomain
  <2>4. /\ callStack' \in Seq(Ids) /\ Len(callStack') = Len(callStack) - 1
        /\ DOMAIN callStack' = 1..Len(callStack) - 1
        /\ DOMAIN callStack = 1..Len(callStack)
        /\ \A i \in 1..Len(callStack) - 1 : callStack'[i] = callStack[i]
    BY <1>1, <2>1, <2>3, PopAny, SeqDomain
  <2>5. IsSeq(scopeStack') /\ Len(scopeStack') = Len(callStack) - 1
    <3>1. PICK S : scopeStack \in Seq(S)
      BY <1>1 DEF IsSeq
    <3> QED BY <1>1, <2>1, <2>3, <3>1, PopAny
  <2>6. CallsInv'
    BY <1>1, <2>4 DEF CallsInv, NoCycle, DepthBounded
  <2>7. FramesInv'
    <3>1. /\ (Len(cont) > 1 => status' \in {"running", "failing"})
          /\ (Len(cont) = 1 => status' \in {"ok", "failed"})
          /\ (Len(cont) > 1 \/ Len(cont) = 1)
      <4>1. (Len(cont) > 1 \/ Len(cont) = 1) /\ ~(Len(cont) > 1 /\ Len(cont) = 1)
        <5>1. \A n \in Nat \ {0} : (n > 1 \/ n = 1) /\ ~(n > 1 /\ n = 1)
          OBVIOUS
        <5> QED BY <2>2, <5>1, Zenon
      <4>2. /\ status \in {"running", "failing"}
            /\ status' = IF Len(cont) > 1 THEN status
                         ELSE IF status = "running" THEN "ok" ELSE "failed"
        BY <1>15 DEF Return
      <4> QED BY <4>1, <4>2, Zenon
    <3> QED BY <2>2, <2>4, <3>1 DEF FramesInv, Running, CallsIn
  <2>8. ScopesInv'
    BY <2>4, <2>5 DEF ScopesInv, IsSeq
  <2> QED BY <2>1, <2>6, <2>7, <2>8
<1>16. ASSUME NEW id \in Ids, NEW arg \in Values \cup {Unset}, Start(id, arg)
       PROVE  InterpInv'
  <2> DEFINE g == SlotFrame(program[id].nodes)
  <2>1. /\ status = "idle" /\ status' = "running" /\ program' = program
        /\ Len(callStack) < MAX_CALL_DEPTH
        /\ callStack' = Append(callStack, id)
        /\ cont' = <<CallFrame, g>>
        /\ \E v : scopeStack' = Append(scopeStack, v)
    BY <1>16 DEF Start
  <2>2. /\ CallFrame.kind = "call" /\ "kind" \in DOMAIN CallFrame
        /\ g.kind = "slot" /\ "kind" \in DOMAIN g
    BY DEF CallFrame, SlotFrame
  <2> HIDE DEF g
  <2>3. cont = <<>> /\ Len(callStack) = 0
    BY <2>1, EmptyCalls DEF FramesInv, Running
  <2>4. CallsInv' /\ Len(callStack') = Len(callStack) + 1
    <3>1. ~OnStack(id)
      BY <1>1, <2>3, SeqDomain DEF OnStack
    <3> QED BY <2>1, <3>1, PushCall
  <2> DEFINE base == Append(<<>>, CallFrame)
  <2>5. cont' = Append(base, g)
    BY <2>1
  <2>6. Kinded(base) /\ OnCall(base) /\ base # <<>> /\ Cardinality(CallsIn(base)) = 1
    <3>1. /\ Kinded(base) /\ OnCall(base) /\ base # <<>>
          /\ Cardinality(CallsIn(base)) =
               Cardinality(CallsIn(<<>>)) + (IF CallFrame.kind = "call" THEN 1 ELSE 0)
      BY <2>2, EmptyCalls, PushFrame, Zenon
    <3> HIDE DEF base
    <3> QED BY <2>2, <3>1, EmptyCalls
  <2> HIDE DEF base
  <2>7. /\ Kinded(cont') /\ OnCall(cont') /\ cont' # <<>>
        /\ Cardinality(CallsIn(cont')) = 1 + 0
    BY <2>2, <2>5, <2>6, PushFrame
  <2>8. FramesInv'
    BY <2>1, <2>3, <2>4, <2>7 DEF FramesInv, Running, CallsIn
  <2>9. ScopesInv'
    <3>1. PICK v : scopeStack' = Append(scopeStack, v)
      BY <2>1
    <3>2. IsSeq(scopeStack') /\ Len(scopeStack') = Len(callStack')
      BY <1>1, <2>4, <3>1, PushAny
    <3> QED BY <3>2 DEF ScopesInv, IsSeq
  <2> QED BY <2>1, <2>4, <2>8, <2>9
<1>17. CASE Ended \/ UNCHANGED vars
  <2>1. UNCHANGED vars
    BY <1>17 DEF Ended
  <2>2. FramesInv'
    BY <2>1 DEF vars, FramesInv, Running, CallsIn, Kinded, OnCall, IsSeq
  <2> QED BY <1>2, <2>1, <2>2 DEF vars
<1> QED BY <1>4, <1>6, <1>7, <1>9, <1>10, <1>11, <1>12, <1>13, <1>14, <1>15, <1>16, <1>17
        DEF Next, Step, runNode

-----------------------------------------------------------------------------
(* Types.  The frames hold nodes of the store, so that what a step reads of *)
(* a node is there; a run in progress has a scope, so that there is a value *)
(* for a reference.                                                         *)

Frame ==
  [kind : {"slot"}, nodes : Seq(Nodes), at : Nat \ {0}]
    \cup [kind : {"repeat"}, nodes : Seq(Nodes), at : Nat] \cup {CallFrame}

Args == Values \cup {Unset}

TypeInv ==
  /\ cont \in Seq(Frame) /\ scopeStack \in Seq(Args)
  /\ trace \in Seq(Names \X Args) /\ root \in [id : Ids, arg : Args]

\* A run in progress is in a sequence.
LEMMA InCall ==
  ASSUME InterpInv, Running
  PROVE  Len(callStack) \in Nat \ {0} /\ Len(scopeStack) = Len(callStack)
<1>1. IsSeq(cont) /\ OnCall(cont) /\ cont # <<>>
  BY DEF InterpInv, FramesInv, Kinded
<1>2. 1 \in CallsIn(cont)
  BY <1>1, SeqDomain DEF OnCall, CallsIn
<1>3. Cardinality(CallsIn(cont)) # 0
  BY <1>1, <1>2, CallsFinite, FS_EmptySet
<1> QED BY <1>1, <1>3, CallsFinite DEF InterpInv, FramesInv, ScopesInv

\* The frame on top is one of the kinds, and the node at hand one of the store.
LEMMA TopIs ==
  ASSUME InterpInv, TypeInv, Running
  PROVE  /\ Len(cont) \in DOMAIN cont /\ DOMAIN cont = 1..Len(cont) /\ Len(cont) \in Nat \ {0}
         /\ Top(cont) \in Frame /\ Top(cont) = cont[Len(cont)]
         /\ Scope \in Args
         /\ AtNode => Node \in Nodes /\ WellFormed(Node)
<1>1. cont # <<>> /\ cont \in Seq(Frame)
  BY DEF InterpInv, FramesInv, TypeInv
<1>2. Len(cont) \in DOMAIN cont /\ DOMAIN cont = 1..Len(cont) /\ Len(cont) \in Nat \ {0}
  BY <1>1, LenProperties
<1>3. Top(cont) \in Frame /\ Top(cont) = cont[Len(cont)]
  BY <1>1, <1>2, ElementOfSeq DEF Top
<1>4. Scope \in Args
  BY InCall, ElementOfSeq DEF TypeInv, Scope, Top
<1>5. ASSUME AtNode PROVE Node \in Nodes
  <2>1. Top(cont) \in [kind : {"slot"}, nodes : Seq(Nodes), at : Nat \ {0}]
    BY <1>3, <1>5 DEF AtNode, Frame, CallFrame
  <2>2. Top(cont).nodes \in Seq(Nodes) /\ Top(cont).at \in 1..Len(Top(cont).nodes)
    BY <1>5, <2>1, LenProperties DEF AtNode
  <2> QED BY <2>2, ElementOfSeq DEF Node
<1> QED BY <1>2, <1>3, <1>4, <1>5, StoreAssumption

\* Moving on and entering frames keeps a list of frames.
LEMMA AdvanceType ==
  ASSUME InterpInv, TypeInv, AtNode, NEW fs \in Seq(Frame), Advance(fs)
  PROVE  cont' \in Seq(Frame)
<1>1. /\ Len(cont) \in DOMAIN cont /\ DOMAIN cont = 1..Len(cont) /\ Len(cont) \in Nat
      /\ Top(cont) \in Frame /\ Top(cont) = cont[Len(cont)] /\ cont \in [1..Len(cont) -> Frame]
  BY TopIs, LenProperties DEF AtNode, Running, TypeInv
<1> DEFINE top == [Top(cont) EXCEPT !.at = Top(cont).at + 1]
           t == [cont EXCEPT ![Len(cont)].at = @ + 1]
<1>2. top \in Frame
  BY <1>1 DEF AtNode, Frame, CallFrame
<1>3. t = [cont EXCEPT ![Len(cont)] = top]
  BY <1>1
<1> HIDE DEF top
<1>4. t \in [1..Len(cont) -> Frame]
  BY <1>1, <1>2, <1>3
<1>5. cont' = t \o fs
  BY DEF Advance
<1> HIDE DEF t
<1>6. t \in Seq(Frame)
  BY <1>1, <1>4
<1> QED BY <1>5, <1>6

\* The frames there are.
LEMMA FrameTypes ==
  /\ CallFrame \in Frame
  /\ \A nodes \in Seq(Nodes) : SlotFrame(nodes) \in Frame /\ \A n \in Nat : RepeatFrame(nodes, n) \in Frame
BY DEF Frame, SlotFrame, RepeatFrame

\* The scope of a sequence of the store.
LEMMA ScopeType ==
  ASSUME program \in Programs, NEW id \in DOMAIN program, NEW arg \in Args
  PROVE  /\ buildScope(program[id], arg) \in Args /\ id \in Ids
         /\ <<CallFrame, SlotFrame(program[id].nodes)>> \in Seq(Frame)
<1>1. program[id].nodes \in Seq(Nodes) /\ program[id].default \in Args /\ id \in Ids
  BY StoreAssumption DEF Args
<1>2. CallFrame \in Frame /\ SlotFrame(program[id].nodes) \in Frame
  BY <1>1, FrameTypes
<1> QED BY <1>1, <1>2 DEF buildScope

LEMMA TypeStep == InterpInv /\ TypeInv /\ [Next]_vars => TypeInv'
<1> SUFFICES ASSUME InterpInv, TypeInv, [Next]_vars PROVE TypeInv'
  OBVIOUS
<1>0. /\ program \in Programs /\ cont \in Seq(Frame) /\ scopeStack \in Seq(Args)
      /\ trace \in Seq(Names \X Args) /\ root \in [id : Ids, arg : Args]
  BY DEF InterpInv, TypeInv
\* The actions that touch the frames only.
<1>1. ASSUME cont' \in Seq(Frame), UNCHANGED <<scopeStack, trace, root>> PROVE TypeInv'
  BY <1>0, <1>1 DEF TypeInv
<1>2. CASE Skip
  <2>1. <<>> \in Seq(Frame)
    OBVIOUS
  <2>2. cont' \in Seq(Frame)
    BY <1>2, <2>1, AdvanceType DEF Skip
  <2> QED BY <1>1, <1>2, <2>2 DEF Skip
<1>3. CASE If
  <2>1. AtNode /\ Node.type = "if"
    BY <1>3 DEF If, AtActive
  <2>2. Node.then \in Seq(Nodes) /\ Node.else \in Seq(Nodes)
    BY <2>1, TopIs DEF WellFormed, AtNode, Running
  <2>3. PICK nodes \in Seq(Nodes) : Advance(<<SlotFrame(nodes)>>)
    BY <1>3, <2>2 DEF If
  <2>4. <<SlotFrame(nodes)>> \in Seq(Frame)
    BY FrameTypes
  <2>5. cont' \in Seq(Frame)
    BY <2>1, <2>3, <2>4, AdvanceType
  <2> QED BY <1>1, <1>3, <2>5 DEF If
<1>4. CASE Repeat
  <2>1. AtNode /\ Node.type = "repeat"
    BY <1>4 DEF Repeat, AtActive
  <2>2. Node.body \in Seq(Nodes) /\ Node.count \in Nat
    BY <2>1, TopIs DEF WellFormed, AtNode, Running
  <2>3. <<RepeatFrame(Node.body, Node.count)>> \in Seq(Frame)
    BY <2>2, FrameTypes
  <2>4. cont' \in Seq(Frame)
    BY <1>4, <2>1, <2>3, AdvanceType DEF Repeat
  <2> QED BY <1>1, <1>4, <2>4 DEF Repeat
\* What is left of a list of frames.
<1>5. ASSUME Running PROVE Pop(cont) \in Seq(Frame) /\ Pop(scopeStack) \in Seq(Args)
  <2>1. cont # <<>> /\ scopeStack # <<>>
    BY <1>5, InCall DEF InterpInv, FramesInv
  <2> QED BY <1>0, <2>1, PopAny
<1>6. CASE SlotDone \/ Unwind
  BY <1>1, <1>5, <1>6 DEF SlotDone, Unwind, Running
<1>7. CASE Iterate
  <2>1. Running
    BY <1>7 DEF Iterate, Running
  <2>2. CASE Top(cont).at = 0
    BY <1>1, <1>5, <1>7, <2>1, <2>2 DEF Iterate
  <2>3. CASE Top(cont).at # 0
    <3>1. /\ Len(cont) \in DOMAIN cont /\ DOMAIN cont = 1..Len(cont) /\ Len(cont) \in Nat
          /\ Top(cont) \in Frame /\ Top(cont) = cont[Len(cont)] /\ cont \in [1..Len(cont) -> Frame]
      BY <1>0, <2>1, TopIs, LenProperties
    <3>2. Top(cont) \in [kind : {"repeat"}, nodes : Seq(Nodes), at : Nat \ {0}]
      BY <1>7, <2>3, <3>1 DEF Iterate, Frame, CallFrame
    <3> DEFINE top == [Top(cont) EXCEPT !.at = Top(cont).at - 1]
               t == [cont EXCEPT ![Len(cont)].at = @ - 1]
    <3>3. top \in Frame
      BY <3>2 DEF Frame
    <3>4. t = [cont EXCEPT ![Len(cont)] = top]
      BY <3>1
    <3> HIDE DEF top
    <3>5. t \in [1..Len(cont) -> Frame]
      BY <3>1, <3>3, <3>4
    <3>6. cont' = Append(t, SlotFrame(Top(cont).nodes))
      BY <1>7, <2>3 DEF Iterate
    <3> HIDE DEF t
    <3>7. t \in Seq(Frame) /\ SlotFrame(Top(cont).nodes) \in Frame
      BY <3>1, <3>2, <3>5, FrameTypes
    <3>8. cont' \in Seq(Frame)
      BY <3>6, <3>7
    <3> QED BY <1>1, <1>7, <3>8 DEF Iterate
  <2> QED BY <2>2, <2>3
\* A sequence entered: its scope and its frames.
<1>8. ASSUME NEW id \in Ids, NEW arg \in Values \cup {Unset}, Start(id, arg) PROVE TypeInv'
  <2>1. id \in DOMAIN program /\ arg \in Args
    BY <1>8 DEF Start, Args
  <2>2. /\ buildScope(program[id], arg) \in Args
        /\ <<CallFrame, SlotFrame(program[id].nodes)>> \in Seq(Frame)
    BY <1>0, <2>1, ScopeType
  <2>3. cont' \in Seq(Frame)
    BY <1>8, <2>2 DEF Start
  <2>4. scopeStack' \in Seq(Args)
    BY <1>0, <1>8, <2>2 DEF Start
  <2>5. root' \in [id : Ids, arg : Args] /\ trace' = trace
    BY <1>8, <2>1 DEF Start
  <2> QED BY <1>0, <2>3, <2>4, <2>5 DEF TypeInv
\* The value a node gives, its own or that of the parameter.
<1>9. ASSUME AtNode PROVE Resolved \in Args /\ WellFormed(Node)
  BY <1>9, TopIs DEF Resolved, WellFormed, AtNode, Running, Args
<1>10. CASE Call
  <2>1. AtNode /\ Node.to \in DOMAIN program /\ Resolved \in Args
    BY <1>9, <1>10 DEF Call, AtActive, Callable
  <2>2. /\ buildScope(program[Node.to], Resolved) \in Args
        /\ <<CallFrame, SlotFrame(program[Node.to].nodes)>> \in Seq(Frame)
    BY <1>0, <2>1, ScopeType
  <2>3. cont' \in Seq(Frame)
    BY <1>10, <2>1, <2>2, AdvanceType DEF Call
  <2>4. scopeStack' \in Seq(Args)
    BY <1>0, <1>10, <2>2 DEF Call
  <2> QED BY <1>0, <1>10, <2>3, <2>4 DEF Call, TypeInv
<1>11. CASE RunBlock
  <2>1. AtNode /\ Node.type = "block" /\ Resolved \in Args
    BY <1>9, <1>11 DEF RunBlock, AtActive
  <2>2. <<Node.name, Resolved>> \in Names \X Args
    BY <1>9, <2>1 DEF WellFormed
  <2>3. trace' \in Seq(Names \X Args)
    <3>1. trace' = Append(trace, <<Node.name, Resolved>>)
      BY <1>11 DEF RunBlock
    <3> QED BY <1>0, <2>2, <3>1, AppendProperties
  <2>4. cont' \in Seq(Frame)
    <3>1. <<>> \in Seq(Frame)
      OBVIOUS
    <3> QED BY <1>0, <1>11, <2>1, <3>1, AdvanceType DEF RunBlock
  <2> QED BY <1>0, <1>11, <2>3, <2>4 DEF RunBlock, TypeInv
<1>12. CASE Return
  BY <1>0, <1>5, <1>12 DEF Return, Running, TypeInv
<1>13. CASE RefuseCall \/ RefuseNode \/ Ended \/ UNCHANGED vars
  BY <1>0, <1>1, <1>13 DEF RefuseCall, RefuseNode, Ended, Fail, vars
<1> QED BY <1>2, <1>3, <1>4, <1>6, <1>7, <1>8, <1>10, <1>11, <1>12, <1>13 DEF Next, Step, runNode

\* The stacks hold ids and values, one entry of each and one frame for every
\* sequence in progress, none are left when a run has ended, and what is run is
\* a block of the store with a value of its own or of its scope: for any store
\* of well-formed nodes.
THEOREM TypeCorrect == Spec => []TypeOK
<1>1. Init => TypeInv
  BY StoreAssumption DEF Init, TypeInv, Args
<1>2. InterpInv /\ TypeInv => TypeOK
  BY DEF InterpInv, TypeInv, FramesInv, CallsInv, Running, TypeOK, Args
<1> QED BY <1>1, <1>2, InvInit, InvStep, TypeStep, PTL DEF Spec

\* No sequence runs inside itself at any distance, whatever the sequences of
\* the store call.
THEOREM NoCycleEver == Spec => []NoCycle
<1>1. InterpInv => NoCycle
  BY DEF InterpInv, CallsInv
<1> QED BY <1>1, InvInit, InvStep, PTL DEF Spec

\* Calls nest at most MAX_CALL_DEPTH deep.
THEOREM DepthBoundedEver == Spec => []DepthBounded
<1>1. InterpInv => DepthBounded
  BY DEF InterpInv, CallsInv
<1> QED BY <1>1, InvInit, InvStep, PTL DEF Spec

\* Each sequence in progress has one frame, one entry of the call stack and
\* one scope, however the ones before it were left.
THEOREM StacksAgreeEver == Spec => []StacksAgree
<1>1. InterpInv => StacksAgree
  BY DEF InterpInv, FramesInv, ScopesInv, StacksAgree, CallFrames, CallsIn
<1> QED BY <1>1, InvInit, InvStep, PTL DEF Spec

\* Nothing is executed between the failure of a node and the end of the run,
\* whatever repeats, branches and calls are around the node.
THEOREM FailureAbortsEver == Spec => FailureAborts
<1> DEFINE Aborts == trace' = trace /\ status' \in {"failing", "failed"}
<1>1. [Next]_vars => [status = "failing" => Aborts]_vars
  <2> SUFFICES ASSUME Next, status = "failing", vars' # vars PROVE Aborts
    OBVIOUS
  <2>1. ~AtNode /\ ~SlotDone /\ ~Iterate /\ ~Ended
        /\ ~(\E id \in Ids, arg \in Values \cup {Unset} : Start(id, arg))
    BY DEF AtNode, SlotDone, Iterate, Ended, Start
  <2>2. Unwind \/ Return
    BY <2>1 DEF Next, Step, runNode, Skip, If, Repeat, Call, RefuseCall, RunBlock,
                RefuseNode, AtActive
  <2>3. CASE Unwind
    BY <2>3 DEF Unwind
  <2>4. CASE Return
    BY <2>4 DEF Return
  <2> QED BY <2>2, <2>3, <2>4
<1> QED BY <1>1, PTL DEF Spec, FailureAborts

-----------------------------------------------------------------------------
(* Outcomes: one after another *)

Done == Nothing(TRUE)
Refused == Nothing(FALSE)

\* Running nothing changes nothing, and it does not matter how a list of
\* outcomes is grouped.
LEMMA Composition ==
  /\ Done \in Outcomes /\ Refused \in Outcomes
  /\ \A a, b \in Outcomes : FollowedBy(a, b) \in Outcomes
  /\ \A a \in Outcomes : FollowedBy(Done, a) = a /\ FollowedBy(a, Done) = a
  /\ \A a, b, c \in Outcomes :
       FollowedBy(FollowedBy(a, b), c) = FollowedBy(a, FollowedBy(b, c))
<1> DEFINE S == Names \X (Values \cup {Unset})
           Ran == Seq(S)
<1>1. \A a, b \in Outcomes : FollowedBy(a, b) \in Outcomes
  BY DEF Outcomes, FollowedBy
<1>2. Done \in Outcomes /\ Refused \in Outcomes
  BY DEF Outcomes, Nothing, Done, Refused
<1>3. ASSUME NEW a \in Outcomes
      PROVE  FollowedBy(Done, a) = a /\ FollowedBy(a, Done) = a
  <2>1. a.ran \in Ran /\ a.ok \in BOOLEAN /\ a = [ran |-> a.ran, ok |-> a.ok]
    BY DEF Outcomes
  <2> HIDE DEF Ran
  <2>2. <<>> \o a.ran = a.ran /\ a.ran \o <<>> = a.ran
    BY <2>1, ConcatEmptySeq DEF Ran
  <2> QED BY <2>1, <2>2 DEF FollowedBy, Nothing, Done
<1>4. ASSUME NEW a \in Outcomes, NEW b \in Outcomes, NEW c \in Outcomes
      PROVE  FollowedBy(FollowedBy(a, b), c) = FollowedBy(a, FollowedBy(b, c))
  <2>1. a.ran \in Seq(S) /\ b.ran \in Seq(S) /\ c.ran \in Seq(S)
    BY DEF Outcomes
  <2> DEFINE x == a.ran
             y == b.ran
             z == c.ran
  <2>2. x \in Seq(S) /\ y \in Seq(S) /\ z \in Seq(S)
    BY <2>1
  <2> HIDE DEF S, x, y, z
  <2>3. (x \o y) \o z = x \o (y \o z)
    BY <2>2, ConcatAssociative
  <2> QED BY <2>3 DEF FollowedBy, x, y, z
<1> QED BY <1>1, <1>2, <1>3, <1>4

LEMMA TheTwo == Done \in Outcomes /\ Refused \in Outcomes
BY Composition

-----------------------------------------------------------------------------
(* What the frames of a stack have left to do, innermost first: the outcome *)
(* of n of them follows from that of each, L[i].                            *)

Chain(L, n, out) ==
  /\ out \in [0..n -> Outcomes]
  /\ out[0] = Done
  /\ \A i \in 1..n : out[i] = FollowedBy(L[i], out[i - 1])

Total(L, n, o) == \E out : Chain(L, n, out) /\ o = out[n]

LEMMA ChainEmpty == ASSUME NEW L PROVE Total(L, 0, Done)
<1> DEFINE out == [i \in 0..0 |-> Done]
<1>0. Done \in Outcomes
  BY TheTwo
<1>1. out \in [0..0 -> Outcomes] /\ out[0] = Done
  BY <1>0
<1> HIDE DEF out
<1>2. Chain(L, 0, out)
  BY <1>1 DEF Chain
<1> QED BY <1>1, <1>2 DEF Total

LEMMA ChainPop ==
  ASSUME NEW L, NEW n \in Nat \ {0}, NEW o, Total(L, n, o)
  PROVE  o \in Outcomes /\ \E p \in Outcomes : o = FollowedBy(L[n], p) /\ Total(L, n - 1, p)
<1>1. PICK out : Chain(L, n, out) /\ o = out[n]
  BY DEF Total
<1> DEFINE less == [i \in 0..n - 1 |-> out[i]]
<1>2. less \in [0..n - 1 -> Outcomes] /\ \A i \in 0..n - 1 : less[i] = out[i]
  BY <1>1 DEF Chain
<1> HIDE DEF less
<1>3. Chain(L, n - 1, less)
  <2>1. 0 \in 0..n - 1 /\ \A i \in 1..n - 1 : i \in 1..n /\ i \in 0..n - 1 /\ i - 1 \in 0..n - 1
    OBVIOUS
  <2>2. less[0] = Done
    BY <1>1, <1>2, <2>1 DEF Chain
  <2>3. \A i \in 1..n - 1 : less[i] = FollowedBy(L[i], less[i - 1])
    BY <1>1, <1>2, <2>1 DEF Chain
  <2> QED BY <1>2, <2>2, <2>3 DEF Chain
<1>7. less[n - 1] = out[n - 1]
  BY <1>2
<1>8. Total(L, n - 1, out[n - 1])
  BY <1>3, <1>7 DEF Total
<1>4. out[n - 1] \in Outcomes /\ out[n] \in Outcomes /\ o = FollowedBy(L[n], out[n - 1])
  BY <1>1 DEF Chain
<1> QED BY <1>1, <1>8, <1>4

LEMMA ChainSame ==
  ASSUME NEW L, NEW M, NEW n \in Nat, NEW o, Total(L, n, o), \A i \in 1..n : M[i] = L[i]
  PROVE  Total(M, n, o)
<1>1. PICK out : Chain(L, n, out) /\ o = out[n]
  BY DEF Total
<1>2. Chain(M, n, out)
  BY <1>1 DEF Chain
<1> QED BY <1>1, <1>2 DEF Total

LEMMA ChainPush ==
  ASSUME NEW L, NEW n \in Nat, NEW o, Total(L, n, o), L[n + 1] \in Outcomes
  PROVE  Total(L, n + 1, FollowedBy(L[n + 1], o))
<1>1. PICK out : Chain(L, n, out) /\ o = out[n]
  BY DEF Total
<1>2. o \in Outcomes
  BY <1>1 DEF Chain
<1> DEFINE new == FollowedBy(L[n + 1], o)
           more == [i \in 0..n + 1 |-> IF i = n + 1 THEN new ELSE out[i]]
<1>3. new \in Outcomes
  BY <1>2, Composition
<1>4. more[n + 1] = new /\ \A i \in 0..n : more[i] = out[i]
  OBVIOUS
<1>5. more \in [0..n + 1 -> Outcomes]
  BY <1>1, <1>3 DEF Chain
<1>6. ASSUME NEW i \in 1..n + 1 PROVE more[i] = FollowedBy(L[i], more[i - 1])
  <2>1. CASE i = n + 1
    <3>1. more[i - 1] = o
      BY <1>1, <1>4, <2>1
    <3> QED BY <1>4, <2>1, <3>1
  <2>2. CASE i # n + 1
    <3>1. i \in 1..n /\ i \in 0..n /\ i - 1 \in 0..n
      BY <2>2
    <3>2. out[i] = FollowedBy(L[i], out[i - 1])
      BY <1>1, <3>1 DEF Chain
    <3> QED BY <1>4, <3>1, <3>2
  <2> QED BY <2>1, <2>2
<1> HIDE DEF more, new
<1>7. more[0] = Done
  <2>1. 0 \in 0..n
    OBVIOUS
  <2> QED BY <1>1, <1>4, <2>1 DEF Chain
<1>8. Chain(L, n + 1, more)
  BY <1>5, <1>6, <1>7 DEF Chain
<1> QED BY <1>4, <1>8 DEF Total, new

-----------------------------------------------------------------------------
(* The frames of a run: each is left in the scope and inside the calls that *)
(* the call frames at or below it account for.                              *)

Level(c, i) == Cardinality({k \in 1..i : c[k].kind = "call"})
Callers(cs, l) == {cs[k] : k \in 1..l}

Rest(f) == SubSeq(f.nodes, f.at, Len(f.nodes))
Left(w, f, scope, inside) ==
  CASE f.kind = "slot" -> Meaning(w, Rest(f), scope, inside)
    [] f.kind = "repeat" -> Again(w, f.nodes, f.at, scope, inside)
    [] f.kind = "call" -> Done

LeftAt(w, c, i, cs, ss) == Left(w, c[i], ss[Level(c, i)], Callers(cs, Level(c, i)))
Lefts(w, c, cs, ss) == [i \in 1..Len(c) |-> LeftAt(w, c, i, cs, ss)]

\* What the frames of c come to, with these calls and scopes.
ComesTo(w, c, cs, ss, o) == Total(Lefts(w, c, cs, ss), Len(c), o)

\* The three stacks in step.
Stacks(c, cs, ss) ==
  /\ Kinded(c) /\ OnCall(c) /\ IsSeq(cs) /\ IsSeq(ss)
  /\ Cardinality(CallsIn(c)) = Len(cs) /\ Len(ss) = Len(cs)

LEMMA StacksLen ==
  ASSUME NEW c, NEW cs, NEW ss, Stacks(c, cs, ss)
  PROVE  /\ Len(c) \in Nat /\ DOMAIN c = 1..Len(c) /\ (c = <<>> <=> Len(c) = 0)
         /\ Len(cs) \in Nat /\ Len(ss) = Len(cs)
         /\ DOMAIN cs = 1..Len(cs) /\ DOMAIN ss = 1..Len(cs)
BY SeqDomain DEF Stacks, Kinded

\* The level of a frame depends on the kinds of those up to it.
LEMMA LevelSame ==
  ASSUME NEW c, NEW d, NEW i, \A k \in 1..i : d[k].kind = c[k].kind
  PROVE  Level(d, i) = Level(c, i)
<1>1. {k \in 1..i : d[k].kind = "call"} = {k \in 1..i : c[k].kind = "call"}
  OBVIOUS
<1> QED BY <1>1 DEF Level

\* It lies within the calls in progress, and reaches them at the top.
LEMMA LevelIs ==
  ASSUME NEW c, NEW cs, NEW ss, Stacks(c, cs, ss), NEW i \in 1..Len(c)
  PROVE  Level(c, i) \in 1..Len(cs) /\ (i = Len(c) => Level(c, i) = Len(cs))
<1> DEFINE S == {k \in 1..i : c[k].kind = "call"}
<1>1. /\ Len(c) \in Nat /\ DOMAIN c = 1..Len(c) /\ c # <<>>
      /\ Cardinality(CallsIn(c)) = Len(cs) /\ IsSeq(c) /\ OnCall(c)
  BY StacksLen DEF Stacks, Kinded
<1>2. IsFiniteSet(CallsIn(c)) /\ Cardinality(CallsIn(c)) \in Nat
  BY <1>1, CallsFinite
<1>3. S \subseteq CallsIn(c) /\ (i = Len(c) => S = CallsIn(c)) /\ 1 \in S
  <2>1. 1 \in 1..i /\ 1..i \subseteq 1..Len(c)
    BY <1>1
  <2>2. c[1].kind = "call"
    BY <1>1 DEF OnCall
  <2>3. S \subseteq CallsIn(c) /\ 1 \in S
    BY <1>1, <2>1, <2>2 DEF CallsIn
  <2>4. ASSUME i = Len(c) PROVE S = CallsIn(c)
    BY <1>1, <2>4 DEF CallsIn
  <2> QED BY <2>3, <2>4
<1> HIDE DEF S
<1>4. /\ IsFiniteSet(S) /\ Cardinality(S) <= Cardinality(CallsIn(c))
      /\ Cardinality(S) \in Nat /\ Cardinality(S) # 0
  BY <1>2, <1>3, FS_Subset, FS_CardinalityType, FS_EmptySet
<1>5. Level(c, i) = Cardinality(S)
  BY DEF Level, S
<1>6. Cardinality(S) \in 1..Len(cs)
  BY <1>1, <1>2, <1>4
<1> QED BY <1>1, <1>3, <1>5, <1>6

\* The stacks c, cs, ss and d, ds, ts agree on m frames, which are inside l calls.
Agree(c, cs, ss, d, ds, ts, m, l) ==
  /\ m \in Nat /\ l \in Nat /\ m <= Len(c) /\ m <= Len(d)
  /\ Len(c) \in Nat /\ Len(d) \in Nat
  /\ \A k \in 1..m : d[k] = c[k] /\ Level(c, k) \in 1..l
  /\ \A k \in 1..l : ds[k] = cs[k] /\ ts[k] = ss[k]

\* What the frames below have left is not disturbed by what is done above.
LEMMA BelowSame ==
  ASSUME NEW w, NEW c, NEW cs, NEW ss, NEW d, NEW ds, NEW ts, NEW m, NEW l,
         Agree(c, cs, ss, d, ds, ts, m, l),
         NEW o, Total(Lefts(w, c, cs, ss), m, o)
  PROVE  Total(Lefts(w, d, ds, ts), m, o)
<1>0. /\ m \in Nat /\ l \in Nat /\ m <= Len(c) /\ m <= Len(d)
      /\ Len(c) \in Nat /\ Len(d) \in Nat
      /\ \A k \in 1..m : d[k] = c[k] /\ Level(c, k) \in 1..l
      /\ \A k \in 1..l : ds[k] = cs[k] /\ ts[k] = ss[k]
  BY DEF Agree
<1>1. ASSUME NEW i \in 1..m PROVE Lefts(w, d, ds, ts)[i] = Lefts(w, c, cs, ss)[i]
  <2>1. i \in 1..Len(c) /\ i \in 1..Len(d) /\ \A k \in 1..i : k \in 1..m
    BY <1>0
  <2>2. Level(d, i) = Level(c, i) /\ d[i] = c[i] /\ Level(c, i) \in 1..l
    BY <1>0, <2>1, LevelSame
  <2>3. Callers(ds, Level(d, i)) = Callers(cs, Level(c, i))
    <3>1. \A k \in 1..Level(c, i) : k \in 1..l
      BY <1>0, <2>2
    <3> QED BY <1>0, <2>2, <3>1 DEF Callers
  <2>4. LeftAt(w, d, i, ds, ts) = LeftAt(w, c, i, cs, ss)
    BY <1>0, <2>2, <2>3 DEF LeftAt
  <2> QED BY <2>1, <2>4 DEF Lefts
<1> QED BY <1>0, <1>1, ChainSame

\* What the innermost frame has left, and then the others.
LEMMA TopLeft ==
  ASSUME NEW w, NEW c, NEW cs, NEW ss, Stacks(c, cs, ss), c # <<>>
  PROVE  Lefts(w, c, cs, ss)[Len(c)] = Left(w, Top(c), Top(ss), Callers(cs, Len(cs)))
<1>1. Len(c) \in 1..Len(c) /\ Len(ss) = Len(cs)
  BY StacksLen
<1>2. Level(c, Len(c)) = Len(cs)
  BY <1>1, LevelIs
<1> QED BY <1>1, <1>2 DEF Lefts, LeftAt, Top

\* A pop of any of the stacks keeps what is below.
LEMMA PopStack ==
  ASSUME NEW s, IsSeq(s), s # <<>>
  PROVE  /\ IsSeq(Pop(s)) /\ Len(s) \in Nat \ {0} /\ Len(Pop(s)) = Len(s) - 1
         /\ \A i \in 1..Len(s) - 1 : Pop(s)[i] = s[i]
<1>1. PICK S : s \in Seq(S)
  BY DEF IsSeq
<1> QED BY <1>1, PopAny

LEMMA TopSplit ==
  ASSUME NEW w, NEW c, NEW cs, NEW ss, Stacks(c, cs, ss), c # <<>>,
         NEW o, ComesTo(w, c, cs, ss, o)
  PROVE  /\ o \in Outcomes
         /\ \E p \in Outcomes :
              /\ o = FollowedBy(Left(w, Top(c), Top(ss), Callers(cs, Len(cs))), p)
              /\ Total(Lefts(w, c, cs, ss), Len(c) - 1, p)
<1>1. Len(c) \in Nat \ {0}
  BY StacksLen
<1>2. Total(Lefts(w, c, cs, ss), Len(c), o)
  BY DEF ComesTo
<1>3. Lefts(w, c, cs, ss)[Len(c)] = Left(w, Top(c), Top(ss), Callers(cs, Len(cs)))
  BY TopLeft
<1> HIDE DEF Lefts, Left, Top, Callers
<1>4. o \in Outcomes /\ \E p \in Outcomes :
        /\ o = FollowedBy(Lefts(w, c, cs, ss)[Len(c)], p)
        /\ Total(Lefts(w, c, cs, ss), Len(c) - 1, p)
  BY <1>1, <1>2, ChainPop
<1> QED BY <1>3, <1>4

\* A slot or a repeat is left: what it had left comes first.
LEMMA LeaveFrame ==
  ASSUME NEW w, NEW c, NEW cs, NEW ss, Stacks(c, cs, ss), c # <<>>, Top(c).kind # "call",
         NEW o, ComesTo(w, c, cs, ss, o)
  PROVE  /\ Stacks(Pop(c), cs, ss) /\ Pop(c) # <<>> /\ o \in Outcomes
         /\ \E p \in Outcomes :
              /\ o = FollowedBy(Left(w, Top(c), Top(ss), Callers(cs, Len(cs))), p)
              /\ ComesTo(w, Pop(c), cs, ss, p)
<1>1. /\ Kinded(Pop(c)) /\ OnCall(Pop(c)) /\ Pop(c) # <<>>
      /\ Cardinality(CallsIn(Pop(c))) = Cardinality(CallsIn(c)) - 0
  BY PopFrame DEF Stacks
<1>2. Stacks(Pop(c), cs, ss)
  BY <1>1, StacksLen DEF Stacks
<1>3. PICK p \in Outcomes :
        /\ o = FollowedBy(Left(w, Top(c), Top(ss), Callers(cs, Len(cs))), p)
        /\ Total(Lefts(w, c, cs, ss), Len(c) - 1, p)
  BY TopSplit
<1>4. /\ Len(c) \in Nat \ {0} /\ Len(Pop(c)) = Len(c) - 1 /\ Len(cs) \in Nat
      /\ \A i \in 1..Len(c) - 1 : Pop(c)[i] = c[i]
  BY PopStack, StacksLen DEF Stacks, Kinded
<1>5. \A k \in 1..Len(c) - 1 : Level(c, k) \in 1..Len(cs)
  BY <1>4, LevelIs
<1>6. Total(Lefts(w, Pop(c), cs, ss), Len(c) - 1, p)
  <2>1. Agree(c, cs, ss, Pop(c), cs, ss, Len(c) - 1, Len(cs))
    BY <1>4, <1>5 DEF Agree
  <2> QED BY <1>3, <2>1, BelowSame
<1>7. o \in Outcomes
  BY TopSplit
<1> QED BY <1>1, <1>2, <1>3, <1>4, <1>6, <1>7 DEF ComesTo

\* A sequence is left: its frame, its id and its scope, with nothing to do.
LEMMA LeaveCall ==
  ASSUME NEW w, NEW c, NEW cs, NEW ss, Stacks(c, cs, ss), c # <<>>, Top(c).kind = "call",
         NEW o, ComesTo(w, c, cs, ss, o)
  PROVE  ComesTo(w, Pop(c), Pop(cs), Pop(ss), o)
<1>1. /\ Kinded(Pop(c)) /\ OnCall(Pop(c))
      /\ Cardinality(CallsIn(Pop(c))) = Cardinality(CallsIn(c)) - 1
  BY PopFrame DEF Stacks
<1>2. PICK p \in Outcomes :
        /\ o = FollowedBy(Left(w, Top(c), Top(ss), Callers(cs, Len(cs))), p)
        /\ Total(Lefts(w, c, cs, ss), Len(c) - 1, p)
  BY TopSplit
<1>3. o = p
  BY <1>2, Composition DEF Left
<1>4. /\ Len(c) \in Nat \ {0} /\ Len(Pop(c)) = Len(c) - 1 /\ Len(cs) \in Nat
      /\ Len(ss) = Len(cs) /\ \A i \in 1..Len(c) - 1 : Pop(c)[i] = c[i]
  BY PopStack, StacksLen DEF Stacks, Kinded
<1>5. Cardinality(CallsIn(Pop(c))) \in Nat
  BY <1>1, CallsFinite DEF Kinded
<1>6. Len(cs) \in Nat \ {0}
  BY <1>1, <1>4, <1>5 DEF Stacks
<1>7. /\ cs # <<>> /\ ss # <<>>
  BY <1>4, <1>6, SeqDomain DEF Stacks
<1>8. /\ IsSeq(Pop(cs)) /\ IsSeq(Pop(ss))
      /\ Len(Pop(cs)) = Len(cs) - 1 /\ Len(Pop(ss)) = Len(cs) - 1
      /\ \A k \in 1..Len(cs) - 1 : Pop(cs)[k] = cs[k] /\ Pop(ss)[k] = ss[k]
  BY <1>4, <1>7, PopStack DEF Stacks
<1>9. Stacks(Pop(c), Pop(cs), Pop(ss))
  BY <1>1, <1>8 DEF Stacks
<1>10. \A k \in 1..Len(c) - 1 : Level(c, k) \in 1..Len(cs) - 1
  <2> SUFFICES ASSUME NEW k \in 1..Len(c) - 1 PROVE Level(c, k) \in 1..Len(cs) - 1
    OBVIOUS
  <2>1. \A i \in 1..k : c[i].kind = Pop(c)[i].kind
    BY <1>4
  <2>2. Level(c, k) = Level(Pop(c), k)
    BY <2>1, LevelSame
  <2> QED BY <1>4, <1>8, <1>9, <2>2, LevelIs
<1>11. Total(Lefts(w, Pop(c), Pop(cs), Pop(ss)), Len(c) - 1, p)
  <2>1. Agree(c, cs, ss, Pop(c), Pop(cs), Pop(ss), Len(c) - 1, Len(cs) - 1)
    BY <1>4, <1>6, <1>8, <1>10 DEF Agree
  <2> QED BY <1>2, <2>1, BelowSame
<1> QED BY <1>3, <1>4, <1>11 DEF ComesTo

\* A slot or a repeat is entered: what it has left comes first.
LEMMA EnterFrame ==
  ASSUME NEW w, NEW c, NEW cs, NEW ss, Stacks(c, cs, ss), c # <<>>,
         NEW o, ComesTo(w, c, cs, ss, o),
         NEW f, "kind" \in DOMAIN f, f.kind # "call",
         Left(w, f, Top(ss), Callers(cs, Len(cs))) \in Outcomes
  PROVE  /\ Stacks(Append(c, f), cs, ss) /\ Append(c, f) # <<>>
         /\ ComesTo(w, Append(c, f), cs, ss,
                    FollowedBy(Left(w, f, Top(ss), Callers(cs, Len(cs))), o))
<1> DEFINE d == Append(c, f)
           left == Left(w, f, Top(ss), Callers(cs, Len(cs)))
<1>1. /\ Kinded(d) /\ OnCall(d) /\ d # <<>>
      /\ Cardinality(CallsIn(d)) = Cardinality(CallsIn(c)) + 0
  BY PushFrame DEF Stacks
<1>2. /\ Len(c) \in Nat \ {0} /\ Len(cs) \in Nat /\ Len(ss) = Len(cs)
      /\ Len(d) = Len(c) + 1 /\ d[Len(c) + 1] = f /\ \A i \in 1..Len(c) : d[i] = c[i]
  BY PushAny, StacksLen DEF Stacks, Kinded
<1> HIDE DEF d, left
<1>3. Stacks(d, cs, ss)
  BY <1>1, <1>2 DEF Stacks
<1>4. \A k \in 1..Len(c) : Level(c, k) \in 1..Len(cs)
  BY LevelIs
<1>5. Total(Lefts(w, d, cs, ss), Len(c), o)
  <2>1. Agree(c, cs, ss, d, cs, ss, Len(c), Len(cs))
    BY <1>2, <1>4 DEF Agree
  <2> QED BY <2>1, BelowSame DEF ComesTo
<1>6. Lefts(w, d, cs, ss)[Len(c) + 1] = left
  BY <1>1, <1>2, <1>3, TopLeft DEF Top, left
<1>7. Total(Lefts(w, d, cs, ss), Len(c) + 1, FollowedBy(left, o))
  BY <1>2, <1>5, <1>6, ChainPush DEF left
<1> QED BY <1>1, <1>2, <1>3, <1>7 DEF ComesTo, d, left

\* A sequence is entered: its frame, its id and its scope.
LEMMA EnterCall ==
  ASSUME NEW w, NEW c, NEW cs, NEW ss, Stacks(c, cs, ss),
         NEW o, ComesTo(w, c, cs, ss, o), o \in Outcomes, NEW id, NEW value
  PROVE  /\ Stacks(Append(c, CallFrame), Append(cs, id), Append(ss, value))
         /\ Append(c, CallFrame) # <<>>
         /\ ComesTo(w, Append(c, CallFrame), Append(cs, id), Append(ss, value), o)
<1> DEFINE d == Append(c, CallFrame)
           ds == Append(cs, id)
           ts == Append(ss, value)
<1>1. CallFrame.kind = "call" /\ "kind" \in DOMAIN CallFrame
  BY DEF CallFrame
<1>2. /\ Kinded(d) /\ OnCall(d) /\ d # <<>>
      /\ Cardinality(CallsIn(d)) = Cardinality(CallsIn(c)) + 1
  BY <1>1, PushFrame DEF Stacks
<1>3. /\ Len(c) \in Nat /\ Len(cs) \in Nat /\ Len(ss) = Len(cs)
      /\ Len(d) = Len(c) + 1 /\ d[Len(c) + 1] = CallFrame /\ \A i \in 1..Len(c) : d[i] = c[i]
  BY PushAny, StacksLen DEF Stacks, Kinded
<1>4. /\ IsSeq(ds) /\ IsSeq(ts) /\ Len(ds) = Len(cs) + 1 /\ Len(ts) = Len(cs) + 1
      /\ \A k \in 1..Len(cs) : ds[k] = cs[k] /\ ts[k] = ss[k]
  BY <1>3, PushAny DEF Stacks
<1> HIDE DEF d, ds, ts
<1>5. Stacks(d, ds, ts)
  BY <1>2, <1>3, <1>4 DEF Stacks
<1>6. \A k \in 1..Len(c) : Level(c, k) \in 1..Len(cs)
  BY LevelIs
<1>7. Total(Lefts(w, d, ds, ts), Len(c), o)
  <2>1. Agree(c, cs, ss, d, ds, ts, Len(c), Len(cs))
    BY <1>3, <1>4, <1>6 DEF Agree
  <2> QED BY <2>1, BelowSame DEF ComesTo
<1>8. Lefts(w, d, ds, ts)[Len(c) + 1] = Done
  BY <1>1, <1>2, <1>3, <1>5, TopLeft DEF Top, Left
<1>9. Total(Lefts(w, d, ds, ts), Len(c) + 1, FollowedBy(Done, o))
  BY <1>3, <1>7, <1>8, TheTwo, ChainPush
<1>10. FollowedBy(Done, o) = o
  BY Composition
<1> QED BY <1>2, <1>3, <1>5, <1>9, <1>10 DEF ComesTo, d, ds, ts

-----------------------------------------------------------------------------
(* The equations at the places a run is at *)

Inside == Callers(callStack, Len(callStack))

\* A frame of lists of the store: what a slot has left is one of them, and a
\* repeat goes over the body of a node at the head of one.
Valid(w, f) ==
  /\ f.kind = "slot" =>
       /\ f.nodes \in Seq(Nodes) /\ f.at \in 1..Len(f.nodes) + 1
       /\ Rest(f) \in Lists[w.program]
  /\ f.kind = "repeat" =>
       \E list \in Lists[w.program] :
         /\ list # <<>> /\ Head(list).type = "repeat" /\ Head(list).body = f.nodes
         /\ f.at \in 0..Head(list).count

AllValid(w, c) == \A i \in DOMAIN c : Valid(w, c[i])

WorldInv ==
  /\ env \in [Names -> BOOLEAN] /\ callStack \in Seq(DOMAIN program)
  /\ AllValid(World, cont)

LEMMA InsideIs ==
  ASSUME InterpInv, WorldInv
  PROVE  /\ IsFiniteSet(Inside) /\ Cardinality(Inside) = Len(callStack)
         /\ Inside \subseteq DOMAIN program
         /\ \A id : OnStack(id) <=> id \in Inside
<1> DEFINE n == Len(callStack)
           f == [k \in 1..n |-> callStack[k]]
<1>1. n \in Nat /\ DOMAIN callStack = 1..n /\ \A k \in 1..n : callStack[k] \in DOMAIN program
  BY LenProperties, ElementOfSeq DEF WorldInv
<1>2. Inside = {callStack[k] : k \in 1..n}
  BY DEF Inside, Callers
<1>3. f \in Bijection(1..n, Inside)
  <2>1. f \in [1..n -> Inside]
    BY <1>2
  <2>2. \A i, j \in 1..n : f[i] = f[j] => i = j
    BY <1>1 DEF InterpInv, CallsInv, NoCycle
  <2>3. \A x \in Inside : \E k \in 1..n : f[k] = x
    BY <1>2
  <2> QED BY <2>1, <2>2, <2>3 DEF Bijection, Injection, Surjection, IsInjective
<1>4. ExistsBijection(1..n, Inside)
  BY <1>3 DEF ExistsBijection
<1>5. IsFiniteSet(Inside) /\ Cardinality(Inside) = n
  BY <1>1, <1>4, FS_Bijection, FS_Interval, FS_CountingElements
<1>6. Inside \subseteq DOMAIN program
  BY <1>1, <1>2
<1>7. \A id : OnStack(id) <=> id \in Inside
  BY <1>1, <1>2 DEF OnStack
<1> QED BY <1>5, <1>6, <1>7

\* The lists of the store and their meanings.
LEMMA Equations ==
  ASSUME program \in Programs, env \in [Names -> BOOLEAN], NEW scope \in Args,
         NEW inside \in SUBSET DOMAIN program, IsFiniteSet(inside)
  PROVE  ListsOf(program) /\ IsMeaning(World, scope, inside)
<1>1. World \in Worlds /\ World.program = program
  BY DEF World, Worlds
<1> QED BY <1>1, MeaningAssumption DEF Args

LEMMA WholeList ==
  ASSUME NEW nodes \in Seq(Nodes)
  PROVE  Rest(SlotFrame(nodes)) = nodes
<1> DEFINE s == SubSeq(nodes, 1, Len(nodes))
<1>1. Len(nodes) \in Nat /\ DOMAIN nodes = 1..Len(nodes) /\ \A i \in 1..Len(nodes) : nodes[i] \in Nodes
  BY LenProperties, ElementOfSeq
<1>2. s = nodes
  BY <1>1
<1> QED BY <1>2 DEF Rest, SlotFrame

\* A slot on a list of the store.
LEMMA SlotLeft ==
  ASSUME NEW w, NEW nodes \in Lists[w.program], nodes \in Seq(Nodes), NEW scope, NEW inside
  PROVE  /\ Left(w, SlotFrame(nodes), scope, inside) = Meaning(w, nodes, scope, inside)
         /\ Valid(w, SlotFrame(nodes))
         /\ "kind" \in DOMAIN SlotFrame(nodes) /\ SlotFrame(nodes).kind = "slot"
<1>1. /\ SlotFrame(nodes).kind = "slot" /\ "kind" \in DOMAIN SlotFrame(nodes)
      /\ SlotFrame(nodes).nodes = nodes /\ SlotFrame(nodes).at = 1
  BY DEF SlotFrame
<1>2. Rest(SlotFrame(nodes)) = nodes
  BY WholeList
<1>3. Left(w, SlotFrame(nodes), scope, inside) = Meaning(w, nodes, scope, inside)
  BY <1>1, <1>2 DEF Left
<1>4. 1 \in 1..Len(nodes) + 1
  BY LenProperties
<1>5. Valid(w, SlotFrame(nodes))
  BY <1>1, <1>2, <1>4 DEF Valid
<1> QED BY <1>1, <1>3, <1>5

\* Past the node at hand: what the slot has left splits at it.
LEMMA RestSplit ==
  ASSUME NEW f, f.nodes \in Seq(Nodes), f.at \in 1..Len(f.nodes),
         NEW g, g.nodes = f.nodes, g.at = f.at + 1
  PROVE  /\ Rest(f) # <<>> /\ Head(Rest(f)) = f.nodes[f.at] /\ Tail(Rest(f)) = Rest(g)
<1> DEFINE s == f.nodes
           m == f.at
           n == Len(s)
<1>1. s \in Seq(Nodes) /\ m \in 1..n /\ n \in m..n /\ n \in Nat
  BY LenProperties
<1>2. Head(SubSeq(s, m, n)) = s[m] /\ Tail(SubSeq(s, m, n)) = SubSeq(s, m + 1, n)
  BY <1>1, HeadTailOfSubSeq
<1>3. SubSeq(s, m, n) # <<>>
  <2>1. \A i \in m..n : s[i] \in Nodes
    BY <1>1, ElementOfSeq
  <2>2. SubSeq(s, m, n) \in Seq(Nodes) /\ Len(SubSeq(s, m, n)) = n - m + 1
    BY <1>1, <2>1, SubSeqProperties
  <2>3. Len(SubSeq(s, m, n)) # 0
    BY <1>1, <2>2
  <2> DEFINE r == SubSeq(s, m, n)
  <2>4. IsSeq(r) /\ Len(r) # 0
    BY <2>2, <2>3 DEF IsSeq
  <2> HIDE DEF r
  <2>5. r # <<>>
    BY <2>4, SeqDomain
  <2> QED BY <2>5 DEF r
<1> QED BY <1>2, <1>3 DEF Rest

LEMMA ValidPush ==
  ASSUME NEW w, NEW c, Kinded(c), AllValid(w, c), NEW f, Valid(w, f)
  PROVE  AllValid(w, Append(c, f))
BY PushAny, SeqDomain DEF Kinded, AllValid

LEMMA ValidPop ==
  ASSUME NEW w, NEW c, Kinded(c), AllValid(w, c), c # <<>>
  PROVE  AllValid(w, Pop(c)) /\ Valid(w, Top(c))
<1>1. /\ IsSeq(Pop(c)) /\ Len(c) \in Nat \ {0} /\ Len(Pop(c)) = Len(c) - 1
      /\ DOMAIN c = 1..Len(c) /\ \A i \in 1..Len(c) - 1 : Pop(c)[i] = c[i]
  BY PopStack, SeqDomain DEF Kinded
<1>2. DOMAIN Pop(c) = 1..Len(c) - 1
  BY <1>1, SeqDomain
<1>3. Len(c) \in DOMAIN c /\ \A i \in 1..Len(c) - 1 : i \in DOMAIN c
  BY <1>1
<1> QED BY <1>1, <1>2, <1>3 DEF AllValid, Top

\* To move the iterator of the innermost frame is to leave the frame and enter
\* it at the new place.
LEMMA MoveIs ==
  ASSUME NEW c, IsSeq(c), c # <<>>, NEW f, f = [Top(c) EXCEPT !.at = f.at]
  PROVE  [c EXCEPT ![Len(c)].at = f.at] = Append(Pop(c), f)
<1>1. PICK S : c \in Seq(S)
  BY DEF IsSeq
<1> DEFINE n == Len(c)
           t == [c EXCEPT ![n] = f]
           u == Append(Pop(c), f)
<1>2. /\ n \in Nat \ {0} /\ DOMAIN c = 1..n /\ IsSeq(Pop(c)) /\ Len(Pop(c)) = n - 1
      /\ \A i \in 1..n - 1 : Pop(c)[i] = c[i]
  BY PopStack, SeqDomain
<1>3. /\ IsSeq(u) /\ DOMAIN u = 1..n - 1 + 1 /\ \A i \in 1..n - 1 : u[i] = Pop(c)[i]
      /\ u[n - 1 + 1] = f
  <2> DEFINE q == Pop(c)
  <2>1. IsSeq(q) /\ Len(q) = n - 1
    BY <1>2
  <2> HIDE DEF q, n
  <2>2. /\ IsSeq(Append(q, f)) /\ DOMAIN Append(q, f) = 1..Len(q) + 1
        /\ \A i \in 1..Len(q) : Append(q, f)[i] = q[i]
        /\ Append(q, f)[Len(q) + 1] = f
    BY <2>1, PushAny
  <2> QED BY <2>1, <2>2 DEF q
<1>4. n - 1 + 1 = n
  BY <1>2
<1>5. c \in Seq(S \cup {f})
  BY <1>1, SeqMonotonic
<1>6. t \in Seq(S \cup {f}) /\ Len(t) = n /\ \A i \in 1..n : t[i] = IF i = n THEN f ELSE c[i]
  BY <1>2, <1>5, ExceptSeq
<1>7. [c EXCEPT ![n].at = f.at] = t
  BY <1>2 DEF Top
<1> HIDE DEF t, u, n
<1>8. DOMAIN t = DOMAIN u /\ DOMAIN t = 1..n
  BY <1>3, <1>4, <1>6, LenProperties
<1>9. \A i \in 1..n : t[i] = u[i]
  BY <1>2, <1>3, <1>4, <1>6
<1>10. Len(u) = n
  BY <1>3, <1>4, <1>8, <1>2, SeqDomain
<1>11. t = u
  BY <1>3, <1>6, <1>9, <1>10, SeqEqual DEF IsSeq
<1> QED BY <1>7, <1>11 DEF u, n

LEMMA StacksNow ==
  ASSUME InterpInv
  PROVE  Stacks(cont, callStack, scopeStack) /\ (Running => cont # <<>>)
<1>1. IsSeq(callStack)
  BY DEF InterpInv, CallsInv, IsSeq
<1> QED BY <1>1 DEF InterpInv, FramesInv, ScopesInv, Stacks

\* The scope and the callers of a run, and the equations there.
LEMMA Here ==
  ASSUME InterpInv, TypeInv, WorldInv, Running
  PROVE  /\ Top(scopeStack) = Scope /\ Callers(callStack, Len(callStack)) = Inside
         /\ ListsOf(program) /\ IsMeaning(World, Scope, Inside)
         /\ World.program = program /\ World.env = env
<1>1. Scope \in Args /\ IsFiniteSet(Inside) /\ Inside \in SUBSET DOMAIN program
  BY TopIs, InsideIs
<1>2. ListsOf(program) /\ IsMeaning(World, Scope, Inside)
  BY <1>1, Equations DEF InterpInv, WorldInv
<1> QED BY <1>2 DEF Scope, Inside, World

\* The meaning of a list of the store, and of its head before its tail.
LEMMA ListMeans ==
  ASSUME InterpInv, TypeInv, WorldInv, Running, NEW list \in Lists[program]
  PROVE  /\ list \in Seq(Nodes) /\ Meaning(World, list, Scope, Inside) \in Outcomes
         /\ list = <<>> => Meaning(World, list, Scope, Inside) = Done
         /\ list # <<>> =>
              /\ Tail(list) \in Lists[program]
              /\ Head(list).type = "if" => {Head(list).then, Head(list).else} \subseteq Lists[program]
              /\ Head(list).type = "repeat" => Head(list).body \in Lists[program]
              /\ Meaning(World, list, Scope, Inside) =
                   FollowedBy(NodeMeaning(World, Head(list), Scope, Inside),
                              Meaning(World, Tail(list), Scope, Inside))
<1>1. ListsOf(program) /\ IsMeaning(World, Scope, Inside) /\ World.program = program
  BY Here
<1>2. /\ Meaning(World, list, Scope, Inside) \in Outcomes
      /\ Meaning(World, list, Scope, Inside) =
           IF list = <<>> THEN Nothing(TRUE)
           ELSE FollowedBy(NodeMeaning(World, Head(list), Scope, Inside),
                           Meaning(World, Tail(list), Scope, Inside))
  BY <1>1 DEF IsMeaning
<1>3. /\ list \in Seq(Nodes)
      /\ list # <<>> =>
           /\ Tail(list) \in Lists[program]
           /\ Head(list).type = "if" => {Head(list).then, Head(list).else} \subseteq Lists[program]
           /\ Head(list).type = "repeat" => Head(list).body \in Lists[program]
  BY <1>1 DEF ListsOf
<1> QED BY <1>2, <1>3 DEF Done

\* The rounds a repeat has left.
LEMMA RoundsMean ==
  ASSUME InterpInv, TypeInv, WorldInv, Running,
         NEW list \in Lists[program], list # <<>>, Head(list).type = "repeat",
         NEW k \in 0..Head(list).count
  PROVE  /\ Again(World, Head(list).body, k, Scope, Inside) \in Outcomes
         /\ k = 0 => Again(World, Head(list).body, k, Scope, Inside) = Done
         /\ k # 0 => Again(World, Head(list).body, k, Scope, Inside) =
                       FollowedBy(Meaning(World, Head(list).body, Scope, Inside),
                                  Again(World, Head(list).body, k - 1, Scope, Inside))
<1>1. IsMeaning(World, Scope, Inside) /\ World.program = program
  BY Here
<1>2. /\ Again(World, Head(list).body, k, Scope, Inside) \in Outcomes
      /\ Again(World, Head(list).body, k, Scope, Inside) =
           IF k = 0 THEN Nothing(TRUE)
           ELSE FollowedBy(Meaning(World, Head(list).body, Scope, Inside),
                           Again(World, Head(list).body, k - 1, Scope, Inside))
  BY <1>1 DEF IsMeaning
<1> QED BY <1>2 DEF Done

\* The node at hand: it is done first, and the frames with the iterator past it
\* come to the rest.
LEMMA NodeFirst ==
  ASSUME InterpInv, TypeInv, WorldInv, AtNode,
         NEW o, ComesTo(World, cont, callStack, scopeStack, o),
         NodeMeaning(World, Node, Scope, Inside) \in Outcomes
  PROVE  LET t == [cont EXCEPT ![Len(cont)].at = @ + 1] IN
         /\ Stacks(t, callStack, scopeStack) /\ t # <<>> /\ AllValid(World, t)
         /\ \E p \in Outcomes :
              /\ o = FollowedBy(NodeMeaning(World, Node, Scope, Inside), p)
              /\ ComesTo(World, t, callStack, scopeStack, p)
<1> DEFINE f == Top(cont)
           g == [f EXCEPT !.at = f.at + 1]
           t == [cont EXCEPT ![Len(cont)].at = @ + 1]
           nm == NodeMeaning(World, Node, Scope, Inside)
           m == Meaning(World, Rest(g), Scope, Inside)
<1>1. /\ Running /\ cont # <<>> /\ Stacks(cont, callStack, scopeStack) /\ Kinded(cont)
      /\ Len(cont) \in DOMAIN cont /\ f = cont[Len(cont)]
      /\ f \in [kind : {"slot"}, nodes : Seq(Nodes), at : Nat \ {0}]
      /\ f.at \in 1..Len(f.nodes) /\ Node = f.nodes[f.at]
  <2>1. Running /\ f.kind = "slot" /\ f.at <= Len(f.nodes) /\ Node = f.nodes[f.at]
    BY DEF AtNode, Running, Node
  <2>2. cont # <<>> /\ Stacks(cont, callStack, scopeStack) /\ Kinded(cont)
    BY <2>1, StacksNow DEF Stacks
  <2>3. f \in Frame /\ Len(cont) \in DOMAIN cont /\ f = cont[Len(cont)]
    BY <2>1, TopIs
  <2>4. f \in [kind : {"slot"}, nodes : Seq(Nodes), at : Nat \ {0}]
    BY <2>1, <2>3 DEF Frame, CallFrame
  <2>5. f.at \in 1..Len(f.nodes)
    BY <2>1, <2>4, LenProperties
  <2> QED BY <2>1, <2>2, <2>3, <2>4, <2>5
<1>2. /\ g \in [kind : {"slot"}, nodes : Seq(Nodes), at : Nat \ {0}]
      /\ g.nodes = f.nodes /\ g.at = f.at + 1 /\ g.kind = "slot" /\ "kind" \in DOMAIN g
  BY <1>1
<1>3. t = Append(Pop(cont), g)
  <2>1. [cont EXCEPT ![Len(cont)].at = g.at] = Append(Pop(cont), g)
    <3>1. g = [f EXCEPT !.at = g.at] /\ IsSeq(cont)
      BY <1>1, <1>2 DEF Kinded
    <3> HIDE DEF g, f
    <3>2. g = [Top(cont) EXCEPT !.at = g.at]
      BY <3>1 DEF f
    <3> QED BY <1>1, <3>1, <3>2, MoveIs
  <2>2. t = [cont EXCEPT ![Len(cont)].at = g.at]
    BY <1>1, <1>2
  <2> QED BY <2>1, <2>2
<1>4. /\ Rest(f) # <<>> /\ Head(Rest(f)) = Node /\ Tail(Rest(f)) = Rest(g)
  BY <1>1, <1>2, RestSplit
<1>5. Valid(World, f) /\ AllValid(World, Pop(cont))
  BY <1>1, ValidPop DEF WorldInv
<1>6. Rest(f) \in Lists[program]
  BY <1>1, <1>5, Here DEF Valid
<1>7. /\ Rest(g) \in Lists[program] /\ m \in Outcomes
      /\ Meaning(World, Rest(f), Scope, Inside) = FollowedBy(nm, m)
  BY <1>1, <1>4, <1>6, ListMeans
<1>8. /\ Left(World, f, Scope, Inside) = FollowedBy(nm, m)
      /\ Left(World, g, Scope, Inside) = m
  BY <1>1, <1>2, <1>7 DEF Left
<1>9. Valid(World, g)
  <2>1. g.at \in 1..Len(g.nodes) + 1
    BY <1>1, <1>2, LenProperties
  <2> QED BY <1>1, <1>2, <1>7, <2>1, Here DEF Valid
<1> HIDE DEF t, g, f, nm, m
<1>10. Top(cont) = f /\ f.kind # "call" /\ Top(scopeStack) = Scope
       /\ Callers(callStack, Len(callStack)) = Inside
  BY <1>1, Here DEF f
<1>11. PICK q \in Outcomes :
         /\ o = FollowedBy(FollowedBy(nm, m), q)
         /\ ComesTo(World, Pop(cont), callStack, scopeStack, q)
  BY <1>1, <1>8, <1>10, LeaveFrame
<1>12. Stacks(Pop(cont), callStack, scopeStack) /\ Pop(cont) # <<>>
  BY <1>1, <1>10, LeaveFrame
<1>13. Left(World, g, Top(scopeStack), Callers(callStack, Len(callStack))) = m
  BY <1>8, <1>10
<1>14. /\ Stacks(t, callStack, scopeStack) /\ t # <<>>
       /\ ComesTo(World, t, callStack, scopeStack, FollowedBy(m, q))
  BY <1>2, <1>3, <1>7, <1>11, <1>12, <1>13, EnterFrame
<1>15. o = FollowedBy(nm, FollowedBy(m, q)) /\ FollowedBy(m, q) \in Outcomes
  BY <1>7, <1>11, Composition DEF nm
<1>16. AllValid(World, t)
  BY <1>3, <1>5, <1>9, <1>12, ValidPush DEF Stacks
<1> QED BY <1>14, <1>15, <1>16 DEF t, nm

-----------------------------------------------------------------------------
(* The invariant: the blocks run so far, followed by what the frames come   *)
(* to, are what the run should come to.                                     *)

Ran(t, ok) == [ran |-> t, ok |-> ok]

Progress ==
  /\ status = "idle" => trace = <<>>
  /\ status = "running" =>
       \E o : ComesTo(World, cont, callStack, scopeStack, o)
              /\ Expected = FollowedBy(Ran(trace, TRUE), o)
  /\ status \in {"failing", "failed"} => Expected = Ran(trace, FALSE)
  /\ status = "ok" => Expected = Ran(trace, TRUE)

LEMMA RanIs ==
  ASSUME TypeInv
  PROVE  /\ Ran(trace, TRUE) \in Outcomes
         /\ \A o \in Outcomes : ~o.ok /\ o.ran = <<>> =>
              FollowedBy(Ran(trace, TRUE), o) = Ran(trace, FALSE)
         /\ \A x, ok : FollowedBy(Ran(trace, TRUE), Ran(<<x>>, ok)) = Ran(Append(trace, x), ok)
<1>1. trace \in Seq(Names \X (Values \cup {Unset}))
  BY DEF TypeInv, Args
<1>2. Ran(trace, TRUE) \in Outcomes
  BY <1>1 DEF Ran, Outcomes
<1>3. IsSeq(trace)
  BY <1>1 DEF IsSeq
<1>4. trace \o <<>> = trace
  BY <1>3, ConcatFrames
<1>5. ASSUME NEW o \in Outcomes, ~o.ok, o.ran = <<>>
      PROVE  FollowedBy(Ran(trace, TRUE), o) = Ran(trace, FALSE)
  BY <1>4, <1>5 DEF Ran, FollowedBy, Outcomes
<1>6. ASSUME NEW x, NEW ok
      PROVE  FollowedBy(Ran(trace, TRUE), Ran(<<x>>, ok)) = Ran(Append(trace, x), ok)
  <2>1. trace \o <<x>> = Append(trace, x)
    BY <1>3, ConcatFrames
  <2> QED BY <2>1 DEF Ran, FollowedBy
<1> QED BY <1>2, <1>5, <1>6

\* What a node means is what the action for it does.
LEMMA NodeMeans ==
  ASSUME InterpInv, TypeInv, WorldInv, AtNode
  PROVE  LET nm == NodeMeaning(World, Node, Scope, Inside)
             active == ~Node.disabled /\ Node.type # "divider"
         IN
         /\ ~active => nm = Done
         /\ active /\ (Node.type = "unknown" \/ ~Resolves) => nm = Refused
         /\ active /\ Resolves /\ Node.type = "block" =>
              nm = Ran(<< <<Node.name, Resolved>> >>, env[Node.name])
         /\ active /\ Resolves /\ Node.type = "if" =>
              nm = Meaning(World, IF env[Node.name] THEN Node.then ELSE Node.else, Scope, Inside)
         /\ active /\ Resolves /\ Node.type = "repeat" =>
              nm = Again(World, Node.body, Node.count, Scope, Inside)
         /\ active /\ Resolves /\ Node.type = "call-sequence" /\ ~Callable(Node.to) => nm = Refused
         /\ active /\ Resolves /\ Node.type = "call-sequence" /\ Callable(Node.to) =>
              nm = Meaning(World, program[Node.to].nodes, buildScope(program[Node.to], Resolved),
                           Inside \cup {Node.to})
<1>1. Running
  BY DEF AtNode, Running
<1>2. World.program = program /\ World.env = env
  BY <1>1, Here
<1>3. (Node.ref /\ Scope = Unset) <=> ~Resolves
  BY DEF Resolves
<1>4. Resolved = IF Node.ref THEN Scope ELSE Node.arg
  BY DEF Resolved
<1>5. Callable(Node.to) <=>
        /\ Node.to \notin Inside /\ Node.to \in DOMAIN World.program
        /\ ~World.program[Node.to].broken /\ Cardinality(Inside) < MAX_CALL_DEPTH
  BY <1>2, InsideIs DEF Callable
<1>6. buildScope(program[Node.to], Resolved) =
        IF Resolved = Unset THEN World.program[Node.to].default ELSE Resolved
  BY <1>2 DEF buildScope
<1> DEFINE nm == NodeMeaning(World, Node, Scope, Inside)
           active == ~Node.disabled /\ Node.type # "divider"
<1>7. CASE ~active
  BY <1>7 DEF NodeMeaning, NodeOf, Done
<1>8. CASE active /\ (Node.type = "unknown" \/ ~Resolves)
  <2>1. nm = Refused
    BY <1>3, <1>8 DEF NodeMeaning, NodeOf, Refused
  <2> QED BY <1>8, <2>1
<1>9. CASE active /\ Node.type # "unknown" /\ Resolves
  <2>1. nm = CASE Node.type = "block" -> [ran |-> << <<Node.name, Resolved>> >>, ok |-> env[Node.name]]
             [] Node.type = "if" ->
                  Meaning(World, IF env[Node.name] THEN Node.then ELSE Node.else, Scope, Inside)
             [] Node.type = "repeat" -> Again(World, Node.body, Node.count, Scope, Inside)
             [] Node.type = "call-sequence" ->
                  IF ~Callable(Node.to) THEN Nothing(FALSE)
                  ELSE Meaning(World, program[Node.to].nodes,
                               buildScope(program[Node.to], Resolved), Inside \cup {Node.to})
    BY <1>2, <1>3, <1>4, <1>5, <1>6, <1>9 DEF NodeMeaning, NodeOf
  <2> HIDE DEF nm
  <2>2. Node.type = "block" => nm = Ran(<< <<Node.name, Resolved>> >>, env[Node.name])
    BY <2>1 DEF Ran
  <2>3. Node.type = "if" =>
          nm = Meaning(World, IF env[Node.name] THEN Node.then ELSE Node.else, Scope, Inside)
    BY <2>1
  <2>4. Node.type = "repeat" => nm = Again(World, Node.body, Node.count, Scope, Inside)
    BY <2>1
  <2>5. Node.type = "call-sequence" /\ ~Callable(Node.to) => nm = Refused
    BY <2>1 DEF Refused
  <2>6. Node.type = "call-sequence" /\ Callable(Node.to) =>
          nm = Meaning(World, program[Node.to].nodes, buildScope(program[Node.to], Resolved),
                       Inside \cup {Node.to})
    BY <2>1
  <2> QED BY <1>9, <2>2, <2>3, <2>4, <2>5, <2>6 DEF nm
<1> QED BY <1>7, <1>8, <1>9

\* A sequence is entered: what it means, there, comes before the rest.
LEMMA SequenceFirst ==
  ASSUME InterpInv, WorldInv, NEW id \in DOMAIN program, NEW value \in Args,
         NEW c, Stacks(c, callStack, scopeStack), AllValid(World, c),
         NEW p \in Outcomes, ComesTo(World, c, callStack, scopeStack, p)
  PROVE  LET d == Append(Append(c, CallFrame), SlotFrame(program[id].nodes))
             m == Meaning(World, program[id].nodes, value, Inside \cup {id})
         IN  /\ m \in Outcomes /\ AllValid(World, d)
             /\ ComesTo(World, d, Append(callStack, id), Append(scopeStack, value),
                        FollowedBy(m, p))
             /\ Append(callStack, id) \in Seq(DOMAIN program)
<1> DEFINE e == Append(c, CallFrame)
           nodes == program[id].nodes
           f == SlotFrame(nodes)
           cs == Append(callStack, id)
           ss == Append(scopeStack, value)
           inside == Inside \cup {id}
           m == Meaning(World, nodes, value, inside)
<1>1. program \in Programs /\ env \in [Names -> BOOLEAN] /\ World.program = program
  BY DEF InterpInv, WorldInv, World
<1>2. inside \in SUBSET DOMAIN program /\ IsFiniteSet(inside)
  BY InsideIs, FS_AddElement
<1>3. ListsOf(program) /\ IsMeaning(World, value, inside)
  BY <1>1, <1>2, Equations
<1>4. nodes \in Lists[program] /\ nodes \in Seq(Nodes)
  BY <1>3 DEF ListsOf
<1>5. m \in Outcomes
  BY <1>1, <1>3, <1>4 DEF IsMeaning
<1>6. Stacks(e, cs, ss) /\ e # <<>> /\ ComesTo(World, e, cs, ss, p)
  BY EnterCall
<1>7. Top(ss) = value /\ Callers(cs, Len(cs)) = inside
  <2>1. /\ IsSeq(callStack) /\ IsSeq(scopeStack) /\ Len(callStack) \in Nat
        /\ Len(scopeStack) = Len(callStack)
    BY StacksLen DEF Stacks
  <2>2. /\ Len(cs) = Len(callStack) + 1 /\ cs[Len(callStack) + 1] = id
        /\ \A k \in 1..Len(callStack) : cs[k] = callStack[k]
        /\ Len(ss) = Len(scopeStack) + 1 /\ ss[Len(scopeStack) + 1] = value
    BY <2>1, PushAny
  <2> HIDE DEF cs, ss
  <2>3. Top(ss) = value
    BY <2>2 DEF Top
  <2>4. 1..Len(cs) = 1..Len(callStack) \cup {Len(callStack) + 1}
    BY <2>1, <2>2
  <2>5. Callers(cs, Len(cs)) = inside
    BY <2>2, <2>4 DEF Callers, Inside
  <2> QED BY <2>3, <2>5
<1>8. /\ Left(World, f, value, inside) = m /\ Valid(World, f)
      /\ "kind" \in DOMAIN f /\ f.kind # "call"
  BY <1>1, <1>4, SlotLeft
<1>9. Valid(World, CallFrame)
  BY DEF Valid, CallFrame
<1>10. AllValid(World, e)
  BY <1>9, ValidPush DEF Stacks
<1>11. AllValid(World, Append(e, f))
  BY <1>6, <1>8, <1>10, ValidPush DEF Stacks
<1>12. cs \in Seq(DOMAIN program)
  BY DEF WorldInv
<1> HIDE DEF e, f, cs, ss, m, inside
<1>13. ComesTo(World, Append(e, f), cs, ss, FollowedBy(m, p))
  BY <1>5, <1>6, <1>7, <1>8, EnterFrame
<1> QED BY <1>5, <1>11, <1>12, <1>13 DEF e, f, cs, ss, m, inside

\* A slot is entered on a list of the store, in the scope at hand.
LEMMA SlotFirst ==
  ASSUME InterpInv, TypeInv, WorldInv, Running, NEW nodes \in Lists[program],
         NEW c, Stacks(c, callStack, scopeStack), c # <<>>, AllValid(World, c),
         NEW p, ComesTo(World, c, callStack, scopeStack, p)
  PROVE  /\ AllValid(World, Append(c, SlotFrame(nodes)))
         /\ ComesTo(World, Append(c, SlotFrame(nodes)), callStack, scopeStack,
                    FollowedBy(Meaning(World, nodes, Scope, Inside), p))
<1> DEFINE f == SlotFrame(nodes)
           m == Meaning(World, nodes, Scope, Inside)
<1>1. nodes \in Seq(Nodes) /\ m \in Outcomes
  BY ListMeans
<1>2. /\ World.program = program /\ Top(scopeStack) = Scope
      /\ Callers(callStack, Len(callStack)) = Inside
  BY Here
<1>3. /\ Left(World, f, Scope, Inside) = m /\ Valid(World, f)
      /\ "kind" \in DOMAIN f /\ f.kind # "call"
  BY <1>1, <1>2, SlotLeft
<1> HIDE DEF f, m
<1>4. AllValid(World, Append(c, f))
  BY <1>3, ValidPush DEF Stacks
<1>5. ComesTo(World, Append(c, f), callStack, scopeStack, FollowedBy(m, p))
  BY <1>1, <1>2, <1>3, EnterFrame
<1> QED BY <1>4, <1>5 DEF f, m

LEMMA MeanStep ==
  InterpInv /\ TypeInv /\ WorldInv /\ Progress /\ [Next]_vars => WorldInv' /\ Progress'
<1> SUFFICES ASSUME InterpInv, TypeInv, WorldInv, Progress, [Next]_vars
             PROVE  WorldInv' /\ Progress'
  OBVIOUS
<1>0. World' = World /\ program' = program /\ env' = env
  BY DEF World, Next, Step, runNode, vars, Skip, If, Repeat, Call, RefuseCall, RunBlock, RefuseNode,
         Fail, Iterate, SlotDone, Unwind, Return, Start, Ended
<1>1. /\ Stacks(cont, callStack, scopeStack) /\ Kinded(cont) /\ AllValid(World, cont)
      /\ callStack \in Seq(DOMAIN program) /\ env \in [Names -> BOOLEAN]
  BY StacksNow DEF Stacks, WorldInv
<1>2. ASSUME AllValid(World, cont'), callStack' \in Seq(DOMAIN program) PROVE WorldInv'
  BY <1>0, <1>1, <1>2 DEF WorldInv
<1>3. ASSUME root' = root PROVE Expected' = Expected
  BY <1>0, <1>3 DEF Expected
\* What a run in hand has left to do.
<1>4. ASSUME status = "running"
      PROVE  /\ Running /\ cont # <<>>
             /\ \E o : ComesTo(World, cont, callStack, scopeStack, o)
                       /\ Expected = FollowedBy(Ran(trace, TRUE), o)
  BY <1>4, StacksNow DEF Progress, Running
\* The frames after the step come to the same.
<1>5. ASSUME status' = "running", root' = root, trace' = trace,
             NEW o, ComesTo(World, cont', callStack', scopeStack', o),
             Expected = FollowedBy(Ran(trace, TRUE), o)
      PROVE  Progress'
  <2>1. Expected' = FollowedBy(Ran(trace', TRUE), o)
    BY <1>3, <1>5
  <2>2. ComesTo(World', cont', callStack', scopeStack', o)
    BY <1>0, <1>5
  <2> QED BY <1>5, <2>1, <2>2 DEF Progress
\* The run has failed: what was run is all there is.
<1>6. ASSUME status' \in {"failing", "failed"}, root' = root,
             Expected = Ran(trace', FALSE)
      PROVE  Progress'
  BY <1>3, <1>6 DEF Progress
<1>7. CASE Skip
  <2> DEFINE t == [cont EXCEPT ![Len(cont)].at = @ + 1]
  <2>1. AtNode /\ status = "running" /\ (Node.disabled \/ Node.type = "divider")
    BY <1>7 DEF Skip, AtNode
  <2>2. NodeMeaning(World, Node, Scope, Inside) = Done
    BY <2>1, NodeMeans
  <2>3. PICK o : ComesTo(World, cont, callStack, scopeStack, o)
                 /\ Expected = FollowedBy(Ran(trace, TRUE), o)
    BY <1>4, <2>1
  <2>4. NodeMeaning(World, Node, Scope, Inside) \in Outcomes
    BY <2>2, TheTwo
  <2>5. /\ Stacks(t, callStack, scopeStack) /\ AllValid(World, t)
        /\ \E p \in Outcomes : o = FollowedBy(Done, p) /\ ComesTo(World, t, callStack, scopeStack, p)
    BY <2>1, <2>2, <2>3, <2>4, NodeFirst
  <2>6. cont' = t
    <3>1. cont' = t \o <<>> /\ IsSeq(t)
      BY <1>7, <2>5 DEF Skip, Advance, Stacks, Kinded
    <3> HIDE DEF t
    <3> QED BY <3>1, ConcatFrames
  <2> HIDE DEF t
  <2>7. ComesTo(World, cont', callStack, scopeStack, o)
    BY <2>5, <2>6, Composition
  <2>8. UNCHANGED <<root, callStack, scopeStack, status, trace>>
    BY <1>7 DEF Skip
  <2>9. WorldInv'
    BY <1>1, <1>2, <2>5, <2>6, <2>8
  <2>10. Progress'
    BY <1>5, <2>1, <2>3, <2>7, <2>8
  <2> QED BY <2>9, <2>10
\* A node that means what a frame entered for it has left.
<1>8. ASSUME AtNode, NEW f, Advance(<<f>>), UNCHANGED <<root, callStack, scopeStack, status, trace>>,
             "kind" \in DOMAIN f, f.kind # "call", Valid(World, f),
             Left(World, f, Scope, Inside) = NodeMeaning(World, Node, Scope, Inside),
             NodeMeaning(World, Node, Scope, Inside) \in Outcomes
      PROVE  WorldInv' /\ Progress'
  <2> DEFINE t == [cont EXCEPT ![Len(cont)].at = @ + 1]
             nm == NodeMeaning(World, Node, Scope, Inside)
  <2>1. status = "running" /\ Running
    BY <1>8 DEF AtNode, Running
  <2>2. PICK o : ComesTo(World, cont, callStack, scopeStack, o)
                 /\ Expected = FollowedBy(Ran(trace, TRUE), o)
    BY <1>4, <2>1
  <2>3. /\ Stacks(t, callStack, scopeStack) /\ t # <<>> /\ AllValid(World, t)
        /\ \E p \in Outcomes : o = FollowedBy(nm, p) /\ ComesTo(World, t, callStack, scopeStack, p)
    BY <1>8, <2>2, NodeFirst
  <2>4. PICK p \in Outcomes : o = FollowedBy(nm, p) /\ ComesTo(World, t, callStack, scopeStack, p)
    BY <2>3
  <2>5. cont' = Append(t, f)
    <3>1. cont' = t \o <<f>> /\ IsSeq(t)
      BY <1>8, <2>3 DEF Advance, Stacks, Kinded
    <3> HIDE DEF t
    <3> QED BY <3>1, ConcatFrames
  <2>6. Top(scopeStack) = Scope /\ Callers(callStack, Len(callStack)) = Inside
    BY <2>1, Here
  <2> HIDE DEF t, nm
  <2>7. Left(World, f, Top(scopeStack), Callers(callStack, Len(callStack))) = nm /\ nm \in Outcomes
    BY <1>8, <2>6 DEF nm
  <2>8. ComesTo(World, cont', callStack, scopeStack, o)
    BY <1>8, <2>3, <2>4, <2>5, <2>7, EnterFrame
  <2>9. AllValid(World, cont')
    BY <1>8, <2>3, <2>5, ValidPush DEF Stacks
  <2>10. WorldInv'
    BY <1>1, <1>2, <1>8, <2>9
  <2>11. Progress'
    BY <1>5, <1>8, <2>1, <2>2, <2>8
  <2> QED BY <2>10, <2>11
\* The node at hand is at the head of a list of the store.
<1>9. ASSUME AtNode
      PROVE  \E list \in Lists[program] : list # <<>> /\ Head(list) = Node
  <2>1. Running /\ cont # <<>> /\ Top(cont).kind = "slot" /\ Top(cont).at <= Len(Top(cont).nodes)
    BY <1>4, <1>9 DEF AtNode
  <2>2. Valid(World, Top(cont)) /\ World.program = program
    BY <1>1, <2>1, ValidPop, Here
  <2>3. /\ Top(cont).nodes \in Seq(Nodes) /\ Top(cont).at \in 1..Len(Top(cont).nodes) + 1
        /\ Rest(Top(cont)) \in Lists[program]
    BY <2>1, <2>2 DEF Valid
  <2>4. Top(cont).at \in 1..Len(Top(cont).nodes)
    BY <2>1, <2>3, LenProperties
  <2> DEFINE g == [nodes |-> Top(cont).nodes, at |-> Top(cont).at + 1]
  <2>5. Rest(Top(cont)) # <<>> /\ Head(Rest(Top(cont))) = Node
    <3>1. g.nodes = Top(cont).nodes /\ g.at = Top(cont).at + 1
      OBVIOUS
    <3> HIDE DEF g
    <3> QED BY <2>3, <2>4, <3>1, RestSplit DEF Node
  <2> QED BY <2>3, <2>5
<1>10. CASE If
  <2> DEFINE nodes == IF env[Node.name] THEN Node.then ELSE Node.else
  <2>1. /\ AtNode /\ Running /\ ~Node.disabled /\ Node.type = "if" /\ Resolves
        /\ Advance(<<SlotFrame(nodes)>>) /\ UNCHANGED <<root, callStack, scopeStack, status, trace>>
    BY <1>10 DEF If, AtActive, AtNode, Running
  <2>2. NodeMeaning(World, Node, Scope, Inside) = Meaning(World, nodes, Scope, Inside)
    BY <2>1, NodeMeans
  <2>3. PICK list \in Lists[program] : list # <<>> /\ Head(list) = Node
    BY <1>9, <2>1
  <2>4. {Node.then, Node.else} \subseteq Lists[program]
    BY <2>1, <2>3, ListMeans
  <2>5. nodes \in Lists[program] /\ World.program = program
    BY <2>1, <2>4, Here
  <2>6. nodes \in Seq(Nodes) /\ Meaning(World, nodes, Scope, Inside) \in Outcomes
    BY <2>1, <2>5, ListMeans
  <2> HIDE DEF nodes
  <2>7. /\ Left(World, SlotFrame(nodes), Scope, Inside) = Meaning(World, nodes, Scope, Inside)
        /\ Valid(World, SlotFrame(nodes))
        /\ "kind" \in DOMAIN SlotFrame(nodes) /\ SlotFrame(nodes).kind # "call"
    BY <2>5, <2>6, SlotLeft
  <2> QED BY <1>8, <2>1, <2>2, <2>6, <2>7
<1>11. CASE Repeat
  <2> DEFINE f == RepeatFrame(Node.body, Node.count)
  <2>1. /\ AtNode /\ Running /\ ~Node.disabled /\ Node.type = "repeat" /\ Resolves
        /\ Advance(<<f>>) /\ UNCHANGED <<root, callStack, scopeStack, status, trace>>
    BY <1>11 DEF Repeat, AtActive, AtNode, Running
  <2>2. NodeMeaning(World, Node, Scope, Inside) = Again(World, Node.body, Node.count, Scope, Inside)
    BY <2>1, NodeMeans
  <2>3. PICK list \in Lists[program] : list # <<>> /\ Head(list) = Node
    BY <1>9, <2>1
  <2>4. Node.count \in 0..Node.count
    BY <2>1, TopIs DEF WellFormed
  <2>5. Again(World, Node.body, Node.count, Scope, Inside) \in Outcomes
    BY <2>1, <2>3, <2>4, RoundsMean
  <2>6. /\ f.kind = "repeat" /\ "kind" \in DOMAIN f /\ f.nodes = Node.body /\ f.at = Node.count
    BY DEF RepeatFrame
  <2> HIDE DEF f
  <2>7. Left(World, f, Scope, Inside) = Again(World, Node.body, Node.count, Scope, Inside)
    BY <2>6 DEF Left
  <2>8. Valid(World, f)
    BY <2>1, <2>3, <2>4, <2>6, Here DEF Valid
  <2> QED BY <1>8, <2>1, <2>2, <2>5, <2>6, <2>7, <2>8
\* What the innermost frame has left, and the others.
<1>12. ASSUME status = "running", Top(cont).kind # "call"
       PROVE  /\ Stacks(Pop(cont), callStack, scopeStack) /\ Pop(cont) # <<>>
              /\ AllValid(World, Pop(cont)) /\ Valid(World, Top(cont))
              /\ \E p \in Outcomes :
                   /\ ComesTo(World, Pop(cont), callStack, scopeStack, p)
                   /\ Expected = FollowedBy(Ran(trace, TRUE),
                                            FollowedBy(Left(World, Top(cont), Scope, Inside), p))
  <2>1. PICK o : ComesTo(World, cont, callStack, scopeStack, o)
                 /\ Expected = FollowedBy(Ran(trace, TRUE), o)
    BY <1>4, <1>12
  <2>2. Top(scopeStack) = Scope /\ Callers(callStack, Len(callStack)) = Inside
    BY <1>4, <1>12, Here
  <2>3. /\ Stacks(Pop(cont), callStack, scopeStack) /\ Pop(cont) # <<>>
        /\ \E p \in Outcomes :
             /\ o = FollowedBy(Left(World, Top(cont), Scope, Inside), p)
             /\ ComesTo(World, Pop(cont), callStack, scopeStack, p)
    BY <1>1, <1>4, <1>12, <2>1, <2>2, LeaveFrame
  <2>4. AllValid(World, Pop(cont)) /\ Valid(World, Top(cont))
    BY <1>1, <1>4, <1>12, ValidPop
  <2> QED BY <2>1, <2>3, <2>4
<1>13. CASE SlotDone
  <2>1. /\ status = "running" /\ Running /\ Top(cont).kind = "slot" /\ cont' = Pop(cont)
        /\ Top(cont).at > Len(Top(cont).nodes)
        /\ UNCHANGED <<root, callStack, scopeStack, status, trace>>
    BY <1>13 DEF SlotDone, Running
  <2>2. PICK p \in Outcomes :
          /\ ComesTo(World, Pop(cont), callStack, scopeStack, p)
          /\ Expected = FollowedBy(Ran(trace, TRUE),
                                   FollowedBy(Left(World, Top(cont), Scope, Inside), p))
    BY <1>12, <2>1
  <2>3. Valid(World, Top(cont)) /\ World.program = program
    BY <1>12, <2>1, Here
  <2>4. Rest(Top(cont)) = <<>>
    <3>1. Top(cont).nodes \in Seq(Nodes) /\ Top(cont).at \in 1..Len(Top(cont).nodes) + 1
      BY <2>1, <2>3 DEF Valid
    <3>2. Len(Top(cont).nodes) \in Int /\ Top(cont).at \in Int
      BY <3>1, LenProperties
    <3> QED BY <2>1, <3>2, SubSeqEmpty DEF Rest
  <2>5. Meaning(World, <<>>, Scope, Inside) = Done
    <3>1. Rest(Top(cont)) \in Lists[program]
      BY <2>1, <2>3 DEF Valid
    <3> QED BY <2>1, <2>4, <3>1, ListMeans
  <2>6. Left(World, Top(cont), Scope, Inside) = Done
    BY <2>1, <2>4, <2>5 DEF Left
  <2>7. Expected = FollowedBy(Ran(trace, TRUE), p)
    BY <2>2, <2>6, Composition
  <2>8. WorldInv'
    BY <1>1, <1>2, <1>12, <2>1
  <2>9. Progress'
    BY <1>5, <2>1, <2>2, <2>7
  <2> QED BY <2>8, <2>9
<1>14. CASE Iterate
  <2> DEFINE f == Top(cont)
  <2>1. /\ status = "running" /\ Running /\ f.kind = "repeat" /\ cont # <<>>
        /\ UNCHANGED <<root, callStack, scopeStack, status, trace>>
    BY <1>4, <1>14 DEF Iterate, Running
  <2>2. PICK p \in Outcomes :
          /\ ComesTo(World, Pop(cont), callStack, scopeStack, p)
          /\ Expected = FollowedBy(Ran(trace, TRUE),
                                   FollowedBy(Left(World, f, Scope, Inside), p))
    BY <1>12, <2>1
  <2>3. /\ Stacks(Pop(cont), callStack, scopeStack) /\ Pop(cont) # <<>>
        /\ AllValid(World, Pop(cont)) /\ Valid(World, f)
    BY <1>12, <2>1
  <2>4. /\ World.program = program /\ Top(scopeStack) = Scope
        /\ Callers(callStack, Len(callStack)) = Inside
    BY <2>1, Here
  <2>5. PICK list \in Lists[program] :
          /\ list # <<>> /\ Head(list).type = "repeat" /\ Head(list).body = f.nodes
          /\ f.at \in 0..Head(list).count
    BY <2>1, <2>3, <2>4 DEF Valid
  <2>6. Left(World, f, Scope, Inside) = Again(World, Head(list).body, f.at, Scope, Inside)
    BY <2>1, <2>5 DEF Left
  <2>7. CASE f.at = 0
    <3>1. Left(World, f, Scope, Inside) = Done
      BY <2>1, <2>5, <2>6, <2>7, RoundsMean
    <3>2. Expected = FollowedBy(Ran(trace, TRUE), p)
      BY <2>2, <3>1, Composition
    <3>3. cont' = Pop(cont)
      BY <1>14, <2>7 DEF Iterate
    <3>4. WorldInv'
      BY <1>1, <1>2, <2>1, <2>3, <3>3
    <3>5. Progress'
      BY <1>5, <2>1, <2>2, <3>2, <3>3
    <3> QED BY <3>4, <3>5
  <2>8. CASE f.at # 0
    <3> DEFINE body == Head(list).body
               g == [f EXCEPT !.at = f.at - 1]
               t == [cont EXCEPT ![Len(cont)].at = @ - 1]
               m == Meaning(World, body, Scope, Inside)
               rounds == Again(World, body, f.at - 1, Scope, Inside)
    <3>1. f \in [kind : {"repeat"}, nodes : Seq(Nodes), at : Nat] /\ Len(cont) \in DOMAIN cont
          /\ f = cont[Len(cont)] /\ IsSeq(cont)
      BY <1>1, <2>1, TopIs DEF Frame, CallFrame, Kinded
    <3>2. /\ g.kind = "repeat" /\ "kind" \in DOMAIN g /\ g.nodes = body /\ g.at = f.at - 1
          /\ f.at - 1 \in 0..Head(list).count
      <4>1. Head(list).count \in Nat
        <5>1. list \in Seq(Nodes)
          BY <2>1, ListMeans
        <5>2. Head(list) \in Nodes
          BY <2>5, <5>1, HeadTailProperties
        <5>3. WellFormed(Head(list))
          BY <5>2, StoreAssumption
        <5> QED BY <2>5, <5>3 DEF WellFormed
      <4> QED BY <2>5, <2>8, <3>1, <4>1
    <3>3. t = Append(Pop(cont), g)
      <4>1. [cont EXCEPT ![Len(cont)].at = g.at] = Append(Pop(cont), g)
        <5>1. g = [f EXCEPT !.at = g.at]
          BY <3>1, <3>2
        <5> HIDE DEF g, f
        <5>2. g = [Top(cont) EXCEPT !.at = g.at]
          BY <5>1 DEF f
        <5> QED BY <2>1, <3>1, <5>2, MoveIs
      <4>2. t = [cont EXCEPT ![Len(cont)].at = g.at]
        BY <3>1, <3>2
      <4> QED BY <4>1, <4>2
    <3>4. /\ rounds \in Outcomes /\ Left(World, f, Scope, Inside) = FollowedBy(m, rounds)
      BY <2>1, <2>5, <2>6, <2>8, <3>2, RoundsMean
    <3>5. body \in Lists[program] /\ m \in Outcomes
      <4>1. body \in Lists[program]
        BY <2>1, <2>5, ListMeans
      <4> QED BY <2>1, <4>1, ListMeans
    <3>6. Left(World, g, Scope, Inside) = rounds
      BY <3>2 DEF Left
    <3>7. Valid(World, g)
      BY <2>4, <2>5, <3>2 DEF Valid
    <3>8. cont' = Append(t, SlotFrame(body))
      BY <1>14, <2>5, <2>8 DEF Iterate
    <3> HIDE DEF t, g, f, m, rounds, body
    <3>9. Left(World, g, Top(scopeStack), Callers(callStack, Len(callStack))) = rounds
      BY <2>4, <3>6
    <3>10. /\ Stacks(t, callStack, scopeStack) /\ t # <<>>
           /\ ComesTo(World, t, callStack, scopeStack, FollowedBy(rounds, p))
      BY <2>2, <2>3, <3>2, <3>3, <3>4, <3>9, EnterFrame
    <3>11. AllValid(World, t)
      BY <2>3, <3>3, <3>7, ValidPush DEF Stacks
    <3>12. /\ AllValid(World, cont')
           /\ ComesTo(World, cont', callStack, scopeStack, FollowedBy(m, FollowedBy(rounds, p)))
      BY <2>1, <3>5, <3>8, <3>10, <3>11, SlotFirst DEF m
    <3>13. FollowedBy(m, FollowedBy(rounds, p)) = FollowedBy(FollowedBy(m, rounds), p)
      BY <2>2, <3>4, <3>5, Composition
    <3>14. WorldInv'
      BY <1>1, <1>2, <2>1, <3>12
    <3>15. Progress'
      BY <1>5, <2>1, <2>2, <3>4, <3>12, <3>13
    <3> QED BY <3>14, <3>15
  <2> QED BY <2>7, <2>8
<1>15. CASE Unwind
  <2>1. /\ status = "failing" /\ Running /\ cont' = Pop(cont) /\ cont # <<>>
        /\ UNCHANGED <<root, callStack, scopeStack, status, trace>>
    BY <1>15, StacksNow DEF Unwind, Running
  <2>2. WorldInv'
    BY <1>1, <1>2, <2>1, ValidPop
  <2>3. Progress'
    BY <1>6, <2>1 DEF Progress
  <2> QED BY <2>2, <2>3
<1>16. CASE Return
  <2>1. /\ Running /\ cont # <<>> /\ Top(cont).kind = "call"
        /\ cont' = Pop(cont) /\ callStack' = Pop(callStack) /\ scopeStack' = Pop(scopeStack)
        /\ UNCHANGED <<root, trace>>
        /\ status' = IF Len(cont) > 1 THEN status
                     ELSE IF status = "running" THEN "ok" ELSE "failed"
        /\ status \in {"running", "failing"}
    BY <1>16, StacksNow DEF Return, Running
  <2>2. callStack # <<>>
    BY <1>1, <2>1, InCall, StacksLen, SeqDomain DEF Stacks
  <2>3. WorldInv'
    BY <1>1, <1>2, <2>1, <2>2, ValidPop, PopAny
  <2>4. CASE status = "failing"
    <3>1. status' \in {"failing", "failed"}
      BY <2>1, <2>4
    <3> QED BY <1>6, <2>1, <2>3, <2>4, <3>1 DEF Progress
  <2>5. CASE status = "running"
    <3>1. PICK o : ComesTo(World, cont, callStack, scopeStack, o)
                   /\ Expected = FollowedBy(Ran(trace, TRUE), o)
      BY <1>4, <2>5
    <3>2. ComesTo(World, cont', callStack', scopeStack', o)
      BY <1>1, <2>1, <3>1, LeaveCall
    <3>3. CASE Len(cont) > 1
      BY <1>5, <2>1, <2>3, <2>5, <3>1, <3>2, <3>3
    <3>4. CASE ~(Len(cont) > 1)
      <4>1. Len(cont') = 0
        <5>1. Len(cont) \in Nat \ {0} /\ Len(cont') = Len(cont) - 1
          BY <1>1, <2>1, PopStack DEF Kinded
        <5> QED BY <3>4, <5>1
      <4>2. o = Done
        BY <3>2, <4>1 DEF ComesTo, Total, Chain
      <4>3. Expected = Ran(trace, TRUE)
        BY <3>1, <4>2, RanIs, Composition
      <4>4. status' = "ok" /\ Expected' = Ran(trace', TRUE)
        BY <1>3, <2>1, <2>5, <3>4, <4>3
      <4>5. Progress'
        BY <4>4 DEF Progress
      <4> QED BY <2>3, <4>5
    <3> QED BY <3>3, <3>4
  <2> QED BY <2>1, <2>4, <2>5
<1>17. CASE Call
  <2> DEFINE t == [cont EXCEPT ![Len(cont)].at = @ + 1]
             id == Node.to
             value == buildScope(program[id], Resolved)
             nodes == program[id].nodes
             m == Meaning(World, nodes, value, Inside \cup {id})
  <2>1. /\ AtNode /\ Running /\ status = "running" /\ ~Node.disabled
        /\ Node.type = "call-sequence" /\ Node.type # "divider" /\ Resolves
        /\ Callable(id) /\ id \in DOMAIN program
        /\ callStack' = Append(callStack, id) /\ scopeStack' = Append(scopeStack, value)
        /\ Advance(<<CallFrame, SlotFrame(nodes)>>) /\ UNCHANGED <<root, status, trace>>
    BY <1>17 DEF Call, Callable, AtActive, AtNode, Running
  <2>2. NodeMeaning(World, Node, Scope, Inside) = m
    BY <2>1, NodeMeans
  <2>3. value \in Args
    <3>1. Resolved \in Args
      BY <2>1, TopIs DEF Resolved, WellFormed, Args
    <3> QED BY <2>1, <3>1, ScopeType DEF InterpInv
  <2>4. m \in Outcomes
    <3>1. Inside \cup {id} \in SUBSET DOMAIN program /\ IsFiniteSet(Inside \cup {id})
      BY <2>1, InsideIs, FS_AddElement
    <3>2. ListsOf(program) /\ IsMeaning(World, value, Inside \cup {id}) /\ World.program = program
      BY <1>1, <2>1, <2>3, <3>1, Equations, Here DEF InterpInv
    <3>3. nodes \in Lists[program]
      BY <2>1, <3>2 DEF ListsOf
    <3> QED BY <3>2, <3>3 DEF IsMeaning
  <2>5. PICK o : ComesTo(World, cont, callStack, scopeStack, o)
                 /\ Expected = FollowedBy(Ran(trace, TRUE), o)
    BY <1>4, <2>1
  <2>6. /\ Stacks(t, callStack, scopeStack) /\ AllValid(World, t)
        /\ \E p \in Outcomes : o = FollowedBy(NodeMeaning(World, Node, Scope, Inside), p)
                               /\ ComesTo(World, t, callStack, scopeStack, p)
    BY <2>1, <2>2, <2>4, <2>5, NodeFirst
  <2>7. PICK p \in Outcomes : o = FollowedBy(m, p) /\ ComesTo(World, t, callStack, scopeStack, p)
    BY <2>2, <2>6
  <2>8. cont' = Append(Append(t, CallFrame), SlotFrame(nodes))
    <3>1. cont' = t \o <<CallFrame, SlotFrame(nodes)>> /\ IsSeq(t)
      BY <2>1, <2>6 DEF Advance, Stacks, Kinded
    <3> HIDE DEF t, nodes
    <3> QED BY <3>1, ConcatFrames
  <2> HIDE DEF t, id, value
  <2>9. /\ AllValid(World, cont')
        /\ ComesTo(World, cont', callStack', scopeStack', FollowedBy(m, p))
        /\ callStack' \in Seq(DOMAIN program)
    <3> DEFINE d == Append(Append(t, CallFrame), SlotFrame(nodes))
    <3>1. /\ AllValid(World, d)
          /\ ComesTo(World, d, Append(callStack, id), Append(scopeStack, value),
                     FollowedBy(m, p))
          /\ Append(callStack, id) \in Seq(DOMAIN program)
      BY <2>1, <2>3, <2>6, <2>7, SequenceFirst
    <3> HIDE DEF d, m
    <3>2. cont' = d
      BY <2>8 DEF d
    <3> QED BY <2>1, <3>1, <3>2
  <2> HIDE DEF m
  <2>10. WorldInv'
    BY <1>2, <2>9
  <2>11. Progress'
    BY <1>5, <2>1, <2>5, <2>7, <2>9
  <2> QED BY <2>10, <2>11
\* A node that fails ends what is run.
<1>18. ASSUME AtNode, cont' = cont, callStack' = callStack, root' = root, status' = "failing",
              NEW nm \in Outcomes, NodeMeaning(World, Node, Scope, Inside) = nm, ~nm.ok,
              FollowedBy(Ran(trace, TRUE), nm) = Ran(trace', FALSE)
       PROVE  WorldInv' /\ Progress'
  <2> DEFINE t == [cont EXCEPT ![Len(cont)].at = @ + 1]
  <2>1. status = "running"
    BY <1>18 DEF AtNode
  <2>2. PICK o : ComesTo(World, cont, callStack, scopeStack, o)
                 /\ Expected = FollowedBy(Ran(trace, TRUE), o)
    BY <1>4, <2>1
  <2>3. PICK p \in Outcomes : o = FollowedBy(nm, p) /\ ComesTo(World, t, callStack, scopeStack, p)
    BY <1>18, <2>2, NodeFirst
  <2>4. o = nm
    BY <1>18, <2>3 DEF FollowedBy
  <2>5. Expected = Ran(trace', FALSE)
    BY <1>18, <2>2, <2>4
  <2>6. WorldInv'
    BY <1>1, <1>2, <1>18
  <2>7. Progress'
    BY <1>6, <1>18, <2>5
  <2> QED BY <2>6, <2>7
<1>19. CASE RefuseCall \/ RefuseNode
  <2>1. /\ AtNode /\ ~Node.disabled /\ Node.type # "divider"
        /\ \/ Node.type = "unknown" \/ ~Resolves
           \/ Resolves /\ Node.type = "call-sequence" /\ ~Callable(Node.to)
        /\ status' = "failing" /\ UNCHANGED <<root, callStack, cont, trace>>
    BY <1>19 DEF RefuseCall, RefuseNode, AtActive, Fail
  <2>2. NodeMeaning(World, Node, Scope, Inside) = Refused
    BY <2>1, NodeMeans
  <2>3. Refused \in Outcomes /\ ~Refused.ok /\ Refused.ran = <<>>
    BY TheTwo DEF Refused, Nothing
  <2>4. FollowedBy(Ran(trace, TRUE), Refused) = Ran(trace', FALSE)
    BY <2>1, <2>3, RanIs
  <2> QED BY <1>18, <2>1, <2>2, <2>3, <2>4
<1>20. CASE RunBlock
  <2> DEFINE t == [cont EXCEPT ![Len(cont)].at = @ + 1]
             x == <<Node.name, Resolved>>
             nm == Ran(<<x>>, env[Node.name])
  <2>1. /\ AtNode /\ Running /\ status = "running" /\ ~Node.disabled
        /\ Node.type = "block" /\ Node.type # "divider" /\ Resolves
        /\ trace' = Append(trace, x) /\ UNCHANGED <<root, callStack, scopeStack>>
    BY <1>20 DEF RunBlock, AtActive, AtNode, Running
  <2>2. NodeMeaning(World, Node, Scope, Inside) = nm
    BY <2>1, NodeMeans
  <2>3. x \in Names \X (Values \cup {Unset}) /\ env[Node.name] \in BOOLEAN
    <3>1. WellFormed(Node) /\ Scope \in Args
      BY <2>1, TopIs
    <3> QED BY <1>1, <2>1, <3>1 DEF WellFormed, Resolved, Args
  <2> HIDE DEF x
  <2>4. nm \in Outcomes
    BY <2>3 DEF Outcomes, Ran
  <2>5. FollowedBy(Ran(trace, TRUE), nm) = Ran(trace', env[Node.name])
    BY <2>1, RanIs
  <2>6. CASE ~env[Node.name]
    <3>1. status' = "failing" /\ cont' = cont
      BY <1>20, <2>6 DEF RunBlock
    <3>2. env[Node.name] = FALSE
      BY <2>3, <2>6
    <3>3. ~nm.ok
      BY <3>2 DEF Ran
    <3>4. FollowedBy(Ran(trace, TRUE), nm) = Ran(trace', FALSE)
      BY <2>5, <3>2
    <3> HIDE DEF nm
    <3> QED BY <1>18, <2>1, <2>2, <2>4, <3>1, <3>3, <3>4
  <2>7. CASE env[Node.name]
    <3>1. Advance(<<>>) /\ status' = status
      BY <1>20, <2>7 DEF RunBlock
    <3>2. PICK o : ComesTo(World, cont, callStack, scopeStack, o)
                   /\ Expected = FollowedBy(Ran(trace, TRUE), o)
      BY <1>4, <2>1
    <3>3. /\ Stacks(t, callStack, scopeStack) /\ AllValid(World, t)
          /\ \E p \in Outcomes : o = FollowedBy(NodeMeaning(World, Node, Scope, Inside), p)
                                 /\ ComesTo(World, t, callStack, scopeStack, p)
      BY <2>1, <2>2, <2>4, <3>2, NodeFirst
    <3>4. PICK p \in Outcomes : o = FollowedBy(nm, p) /\ ComesTo(World, t, callStack, scopeStack, p)
      BY <2>2, <3>3
    <3>5. cont' = t
      <4>1. cont' = t \o <<>> /\ IsSeq(t)
        BY <3>1, <3>3 DEF Advance, Stacks, Kinded
      <4> HIDE DEF t
      <4> QED BY <4>1, ConcatFrames
    <3>6. env[Node.name] = TRUE
      BY <2>3, <2>7
    <3>7. FollowedBy(Ran(trace, TRUE), nm) = Ran(trace', TRUE)
      BY <2>5, <3>6
    <3> HIDE DEF t, nm
    <3>8. Expected = FollowedBy(Ran(trace', TRUE), p)
      <4> DEFINE run == Ran(trace, TRUE)
      <4>1. run \in Outcomes
        BY RanIs
      <4> HIDE DEF run
      <4>2. FollowedBy(run, FollowedBy(nm, p)) = FollowedBy(FollowedBy(run, nm), p)
        BY <2>4, <4>1, Composition
      <4> QED BY <3>2, <3>4, <3>7, <4>2 DEF run
    <3>9. WorldInv'
      BY <1>1, <1>2, <2>1, <3>3, <3>5
    <3>10. Expected' = FollowedBy(Ran(trace', TRUE), p)
      BY <1>3, <2>1, <3>8
    <3>11. ComesTo(World', cont', callStack', scopeStack', p) /\ status' = "running"
      BY <1>0, <2>1, <3>1, <3>4, <3>5
    <3>12. Progress'
      BY <3>10, <3>11 DEF Progress
    <3> QED BY <3>9, <3>12
  <2> QED BY <2>6, <2>7
<1>21. ASSUME NEW id \in Ids, NEW arg \in Values \cup {Unset}, Start(id, arg)
       PROVE  WorldInv' /\ Progress'
  <2> DEFINE value == buildScope(program[id], arg)
             nodes == program[id].nodes
             m == Meaning(World, nodes, value, Inside \cup {id})
  <2>1. /\ status = "idle" /\ status' = "running" /\ id \in DOMAIN program
        /\ callStack' = Append(callStack, id) /\ scopeStack' = Append(scopeStack, value)
        /\ cont' = <<CallFrame, SlotFrame(nodes)>>
        /\ root' = [id |-> id, arg |-> arg] /\ trace' = trace
    BY <1>21 DEF Start
  <2>2. cont = <<>> /\ trace = <<>>
    BY <2>1 DEF InterpInv, FramesInv, Running, Progress
  <2>3. ComesTo(World, cont, callStack, scopeStack, Done)
    BY <2>2, ChainEmpty DEF ComesTo
  <2>4. value \in Args
    BY <2>1, ScopeType DEF InterpInv, Args
  <2>5. cont' = Append(Append(cont, CallFrame), SlotFrame(nodes))
    BY <2>1, <2>2
  <2>6. /\ m \in Outcomes /\ AllValid(World, cont')
        /\ ComesTo(World, cont', callStack', scopeStack', FollowedBy(m, Done))
        /\ callStack' \in Seq(DOMAIN program)
    <3> DEFINE d == Append(Append(cont, CallFrame), SlotFrame(nodes))
    <3>1. /\ m \in Outcomes /\ AllValid(World, d)
          /\ ComesTo(World, d, Append(callStack, id), Append(scopeStack, value),
                     FollowedBy(m, Done))
          /\ Append(callStack, id) \in Seq(DOMAIN program)
      <4> HIDE DEF value
      <4> QED BY <1>1, <2>1, <2>3, <2>4, TheTwo, SequenceFirst
    <3> HIDE DEF d, m, value
    <3>2. cont' = d
      BY <2>5 DEF d
    <3> QED BY <2>1, <3>1, <3>2
  <2>7. Inside = {}
    <3>1. Len(callStack) = 0
      BY <2>2, EmptyCalls DEF InterpInv, FramesInv
    <3> QED BY <3>1 DEF Inside, Callers
  <2>8. Expected' = m
    <3>1. Expected' = Meaning(World', program'[root'.id].nodes,
                              buildScope(program'[root'.id], root'.arg), {root'.id})
      BY DEF Expected, buildScope
    <3>2. root'.id = id /\ root'.arg = arg /\ Inside \cup {id} = {id}
      BY <2>1, <2>7
    <3> QED BY <1>0, <3>1, <3>2
  <2> HIDE DEF m, value, nodes
  <2>9. FollowedBy(m, Done) = m /\ FollowedBy(Done, m) = m
    BY <2>6, Composition
  <2>10. Ran(trace', TRUE) = Done
    BY <2>1, <2>2 DEF Ran, Done, Nothing
  <2>11. ComesTo(World', cont', callStack', scopeStack', m)
         /\ Expected' = FollowedBy(Ran(trace', TRUE), m)
    BY <1>0, <2>6, <2>8, <2>9, <2>10
  <2>12. Progress'
    BY <2>1, <2>11 DEF Progress
  <2>13. WorldInv'
    BY <1>2, <2>6
  <2> QED BY <2>12, <2>13
<1>22. CASE Ended \/ UNCHANGED vars
  <2>1. UNCHANGED vars
    BY <1>22 DEF Ended
  <2>2. WorldInv'
    BY <1>1, <1>2, <2>1 DEF vars
  <2>3. Progress'
    BY <1>0, <1>3, <2>1 DEF vars, Progress
  <2> QED BY <2>2, <2>3
<1> QED BY <1>7, <1>10, <1>11, <1>13, <1>14, <1>15, <1>16, <1>17, <1>19, <1>20, <1>21, <1>22
        DEF Next, Step, runNode

\* When a run ends it has run the blocks that its sequence means, in order and
\* with the values they should see, and reports success exactly if they all
\* succeeded: for any store, any outcomes and any depth bound, whatever calls,
\* branches and repeats are in one another.
THEOREM RunsAsMeantEver == Spec => []RunsAsMeant
<1>1. Init => WorldInv /\ Progress
  <2> SUFFICES ASSUME Init PROVE WorldInv /\ Progress
    OBVIOUS
  <2>1. /\ env \in [Names -> BOOLEAN] /\ callStack = <<>> /\ cont = <<>>
        /\ status = "idle" /\ trace = <<>>
    BY DEF Init
  <2>2. DOMAIN cont = {}
    BY <2>1
  <2> QED BY <2>1, <2>2 DEF WorldInv, AllValid, Progress
<1>2. Progress => RunsAsMeant
  BY DEF Progress, RunsAsMeant, Ran
<1>3. Init => TypeInv
  BY StoreAssumption DEF Init, TypeInv, Args
<1> QED BY <1>1, <1>2, <1>3, InvInit, InvStep, TypeStep, MeanStep, PTL DEF Spec
=============================================================================
