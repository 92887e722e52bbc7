------------------------ MODULE TriggerManagerProofs ------------------------
(***************************************************************************)
(* Proofs about TriggerManager, for any bindings, any lists of them and    *)
(* any number of handlers.                                                 *)
(***************************************************************************)
EXTENDS TriggerManager, SequenceTheorems, TLAPS

USE TriggerAssumption DEF TriggerAssumption

-----------------------------------------------------------------------------
(* Type correctness *)

\* A binding of a list that is bound leaves the maps of the right type.
LEMMA BindType ==
  ASSUME TypeOK, NEW b \in Binding, Bind(b)
  PROVE  /\ DOMAIN active_' \subseteq BindingIds
         /\ \A id \in DOMAIN active_' : active_'[id] \in {"http-route", "ble-mac"}
         /\ anyPauses_' \in BOOLEAN
         /\ DOMAIN http' \subseteq BindingIds
         /\ \A id \in DOMAIN http' : http'[id] \in Binding /\ http'[id].id = id
         /\ DOMAIN ble' \subseteq BindingIds
         /\ \A id \in DOMAIN ble' : ble'[id] \in Binding /\ ble'[id].id = id
         /\ routes' \in Seq([path : Targets, id : BindingIds])
<1>1. /\ b.id \in BindingIds /\ b.type \in {"http-route", "ble-mac", "unknown"}
      /\ b.target \in Targets \cup {NoTarget}
  BY DEF Binding, Types
<1>2. CASE ~b.enabled \/ b.type = "unknown"
  BY <1>2 DEF Bind, bindVars, TypeOK
<1>3. CASE ~(~b.enabled \/ b.type = "unknown")
  <2>1. /\ DOMAIN active_' \subseteq BindingIds
        /\ \A id \in DOMAIN active_' : active_'[id] \in {"http-route", "ble-mac"}
    BY <1>1, <1>3 DEF Bind, Assign, TypeOK
  <2>2. /\ DOMAIN http' \subseteq BindingIds
        /\ \A id \in DOMAIN http' : http'[id] \in Binding /\ http'[id].id = id
    BY <1>1, <1>3 DEF Bind, Assign, TypeOK
  <2>3. /\ DOMAIN ble' \subseteq BindingIds
        /\ \A id \in DOMAIN ble' : ble'[id] \in Binding /\ ble'[id].id = id
    BY <1>1, <1>3 DEF Bind, Assign, TypeOK
  <2>4. routes' \in Seq([path : Targets, id : BindingIds])
    <3>1. CASE b.type = "http-route" /\ b.target # NoTarget
      <4>1. [path |-> b.target, id |-> b.id] \in [path : Targets, id : BindingIds]
        BY <1>1, <3>1
      <4>2. routes' = Append(routes, [path |-> b.target, id |-> b.id])
        BY <1>3, <3>1 DEF Bind
      <4>3. routes \in Seq([path : Targets, id : BindingIds])
        BY DEF TypeOK
      <4> QED BY <4>1, <4>2, <4>3, AppendProperties
    <3>2. CASE ~(b.type = "http-route" /\ b.target # NoTarget)
      BY <1>3, <3>2 DEF Bind, TypeOK
    <3> QED BY <3>1, <3>2
  <2> QED BY <1>3, <2>1, <2>2, <2>3, <2>4 DEF Bind
<1> QED BY <1>2, <1>3

LEMMA UnbindType ==
  ASSUME TypeOK, UnbindAll
  PROVE  /\ DOMAIN active_' = {} /\ anyPauses_' \in BOOLEAN
         /\ DOMAIN http' \subseteq BindingIds
         /\ \A id \in DOMAIN http' : http'[id] \in Binding /\ http'[id].id = id
         /\ DOMAIN ble' \subseteq BindingIds
         /\ \A id \in DOMAIN ble' : ble'[id] \in Binding /\ ble'[id].id = id
<1>1. active_' = <<>> /\ anyPauses_' = FALSE
  BY DEF UnbindAll
<1>2. DOMAIN active_' = {}
  BY <1>1
<1> QED BY <1>1, <1>2 DEF UnbindAll, Restrict, TypeOK

\* The entries of a list are bindings, the list has so many of them.
LEMMA Listed ==
  ASSUME NEW list \in Lists
  PROVE  /\ Len(list) \in Nat /\ DOMAIN list = 1..Len(list)
         /\ \A i \in DOMAIN list : list[i] \in Binding
<1>1. list \in Seq(Binding)
  OBVIOUS
<1> QED BY <1>1, LenProperties, ElementOfSeq

LEMMA TypeInit == Init => TypeOK
<1> SUFFICES ASSUME Init PROVE TypeOK
  OBVIOUS
<1>1. trigs \in Lists /\ next = 0
  BY DEF Init
<1>2. DOMAIN active_ = {} /\ DOMAIN http = {} /\ DOMAIN ble = {}
      /\ routes \in Seq([path : Targets, id : BindingIds])
  BY DEF Init
<1>3. next \in 0..Len(trigs) + 1
  BY <1>1, Listed
<1> QED BY <1>1, <1>2, <1>3 DEF Init, TypeOK

LEMMA TypeStep == TypeOK /\ [Next]_vars => TypeOK'
<1> SUFFICES ASSUME TypeOK, [Next]_vars PROVE TypeOK'
  OBVIOUS
<1> trigs \in Lists /\ next \in 0..Len(trigs) + 1
  BY DEF TypeOK
<1> Len(trigs) \in Nat /\ DOMAIN trigs = 1..Len(trigs)
  BY Listed
<1>1. ASSUME NEW list \in Lists, PutTriggers(list) PROVE TypeOK'
  <2>1. Len(list) \in Nat
    BY Listed
  <2>2. trigs' \in Lists /\ next' \in 0..Len(trigs') + 1
    BY <1>1, <2>1 DEF PutTriggers
  <2>3. UnbindAll
    BY <1>1 DEF PutTriggers
  <2> QED BY <1>1, <2>2, <2>3, UnbindType DEF PutTriggers, scanVars, TypeOK
<1>2. CASE BindNext
  <2>1. trigs[next] \in Binding /\ Bind(trigs[next]) /\ next' \in 0..Len(trigs) + 1
    BY <1>2, Listed DEF BindNext
  <2> QED BY <1>2, <2>1, BindType DEF BindNext, scanVars, TypeOK
<1>3. CASE Applied
  BY <1>3 DEF Applied, bindVars, scanVars, TypeOK
<1>4. CASE FirstConnect
  <2>1. UnbindAll /\ next' \in 0..Len(trigs) + 1
    BY <1>4 DEF FirstConnect
  <2> QED BY <1>4, <2>1, UnbindType DEF FirstConnect, scanVars, TypeOK
<1>5. ASSUME StartBle
      PROVE  ble_started_' \in BOOLEAN /\ started_' \in BOOLEAN /\ edited' \in BOOLEAN
  BY <1>5 DEF StartBle, scanVars, TypeOK
<1>6. CASE HttpBegin
  BY <1>5, <1>6 DEF HttpBegin, bindVars, TypeOK
<1>7. CASE Reconnect
  BY <1>5, <1>7 DEF Reconnect, bindVars, TypeOK
<1>8. CASE Disconnect
  BY <1>8 DEF Disconnect, bindVars, scanVars, TypeOK
<1>9. CASE StartRun
  BY <1>9 DEF StartRun, bindVars, TypeOK
<1>10. CASE EndRun
  BY <1>10 DEF EndRun, bindVars, TypeOK
<1>11. CASE UNCHANGED vars
  BY <1>11 DEF vars, bindVars, scanVars, TypeOK
<1> QED
  BY <1>1, <1>2, <1>3, <1>4, <1>6, <1>7, <1>8, <1>9, <1>10, <1>11 DEF Next

\* Every variable keeps its type, whatever lists are uploaded while the loop
\* connects, loses the network and runs sequences.
THEOREM TypeCorrect == Spec => []TypeOK
<1> QED BY TypeInit, TypeStep, PTL DEF Spec

-----------------------------------------------------------------------------
(* The scanner *)

\* Before the web server is up there are no runs and no scanner.  A run that no
\* edit has met ends on the flag it began on: it has left the scanner on, or
\* will turn it on.
ScanInv ==
  /\ ~begun => loop = "offline" /\ ~ble_started_ /\ ~edited
  /\ loop = "run" /\ ~edited => next = 0
  /\ ble_started_ /\ ~edited => started_ \/ (loop = "run" /\ anyPauses_)

LEMMA ScanInit == Init => ScanInv
BY DEF Init, ScanInv

LEMMA ScanStep == TypeOK /\ ScanInv /\ [Next]_vars => ScanInv'
<1> SUFFICES ASSUME TypeOK, ScanInv, [Next]_vars PROVE ScanInv'
  OBVIOUS
<1> USE DEF ScanInv, bindVars, scanVars
<1>1. ASSUME NEW list \in Lists, PutTriggers(list) PROVE ScanInv'
  BY <1>1 DEF PutTriggers, TypeOK
<1>2. CASE BindNext
  <2>1. next # 0
    BY <1>2, Listed DEF BindNext, TypeOK
  <2> QED BY <1>2, <2>1 DEF BindNext, TypeOK
<1>3. CASE Applied
  BY <1>3 DEF Applied
<1>4. CASE FirstConnect
  BY <1>4 DEF FirstConnect
<1>5. CASE HttpBegin
  BY <1>5 DEF HttpBegin, StartBle
<1>6. CASE Reconnect
  BY <1>6 DEF Reconnect, StartBle
<1>7. CASE Disconnect
  BY <1>7 DEF Disconnect
<1>8. CASE StartRun
  BY <1>8 DEF StartRun, TypeOK
<1>9. CASE EndRun
  BY <1>9 DEF EndRun, TypeOK
<1>10. CASE UNCHANGED vars
  BY <1>10 DEF vars
<1> QED BY <1>1, <1>2, <1>3, <1>4, <1>5, <1>6, <1>7, <1>8, <1>9, <1>10 DEF Next

\* A scanner once started is on between runs, unless an edit of the bindings
\* has met a run (main.cpp:247, 268).
THEOREM ScanSurvivesRunsEver == Spec => []ScanSurvivesRuns
<1>1. ScanInv => ScanSurvivesRuns
  BY DEF ScanInv, ScanSurvivesRuns
<1> QED BY TypeInit, TypeStep, ScanInit, ScanStep, <1>1, PTL DEF Spec

-----------------------------------------------------------------------------
(* The bindings *)

\* How far applyBindings has come in the list.
Done == IF next = 0 THEN (IF begun THEN Len(trigs) ELSE 0) ELSE next - 1

Fits(b, type) == b.enabled /\ b.type = type /\ b.target # NoTarget

\* A map of a trigger holds what fits it of the first n of a list, and act
\* names all of it.
HoldsTo(map, type, act, list, n) ==
  /\ \A id \in DOMAIN map :
       /\ id \in DOMAIN act /\ act[id] = type
       /\ \E i \in 1..n : list[i].id = id /\ map[id] = list[i] /\ Fits(list[i], type)
  /\ \A i \in 1..n :
       Fits(list[i], type) => list[i].id \in DOMAIN map /\ map[list[i].id] = list[i]

Holds(map, type) == HoldsTo(map, type, active_, trigs, Done)

BoundInv == Holds(http, "http-route") /\ Holds(ble, "ble-mac")

\* What binding the next entry does to the map of a trigger: nothing is lost,
\* as no other entry has its id.
LEMMA BindHolds ==
  ASSUME TypeOK, UniqueIds, BindNext, NEW map, NEW map_, NEW type,
         type \in {"http-route", "ble-mac"}, Holds(map, type),
         map_ = IF Fits(trigs[next], type)
                  THEN Assign(map, trigs[next].id, trigs[next]) ELSE map
  PROVE  HoldsTo(map_, type, active_', trigs, next)
<1> DEFINE b == trigs[next]
<1>1. /\ Len(trigs) \in Nat /\ next \in 1..Len(trigs) /\ Done = next - 1
      /\ \A i \in 1..next : i \in DOMAIN trigs /\ trigs[i] \in Binding
  BY Listed DEF BindNext, TypeOK, Done
<1>2. \A i \in 1..next - 1 : trigs[i].id # b.id
  BY <1>1 DEF UniqueIds, TypeOK
<1>3. \A i \in 1..next : i \in 1..next - 1 \/ i = next
  BY <1>1
<1>4. b.id \notin DOMAIN map
  BY <1>1, <1>2 DEF Holds, HoldsTo
<1>5. \A id \in DOMAIN map : id \in DOMAIN active_' /\ active_'[id] = type
  BY <1>4 DEF Holds, HoldsTo, BindNext, Bind, Assign, bindVars
<1>6. CASE Fits(b, type)
  <2>1. /\ DOMAIN map_ = DOMAIN map \cup {b.id} /\ map_[b.id] = b
        /\ \A id \in DOMAIN map : map_[id] = map[id]
    BY <1>4, <1>6 DEF Assign
  <2>2. b.id \in DOMAIN active_' /\ active_'[b.id] = type
    BY <1>6 DEF BindNext, Bind, Assign, Fits
  <2>3. \A i \in 1..next - 1 : i \in 1..next
    BY <1>1
  <2>4. next \in 1..next
    BY <1>1
  <2> QED BY <1>1, <1>2, <1>3, <1>5, <1>6, <2>1, <2>2, <2>3, <2>4 DEF Holds, HoldsTo
<1>7. CASE ~Fits(b, type)
  <2>1. map_ = map
    BY <1>7
  <2>2. \A i \in 1..next - 1 : i \in 1..next
    BY <1>1
  <2>3. \A id \in DOMAIN map :
          \E i \in 1..next - 1 :
            trigs[i].id = id /\ map[id] = trigs[i] /\ Fits(trigs[i], type)
    BY <1>1 DEF Holds, HoldsTo
  <2>4. \A id \in DOMAIN map_ :
          /\ id \in DOMAIN active_' /\ active_'[id] = type
          /\ \E i \in 1..next :
               trigs[i].id = id /\ map_[id] = trigs[i] /\ Fits(trigs[i], type)
    BY <1>5, <2>1, <2>2, <2>3
  <2>5. \A i \in 1..next - 1 :
          Fits(trigs[i], type) => trigs[i].id \in DOMAIN map /\ map[trigs[i].id] = trigs[i]
    BY <1>1 DEF Holds, HoldsTo
  <2>6. \A i \in 1..next :
          Fits(trigs[i], type) => trigs[i].id \in DOMAIN map_ /\ map_[trigs[i].id] = trigs[i]
    BY <1>3, <1>7, <2>1, <2>5
  <2> QED BY <2>4, <2>6 DEF HoldsTo
<1> QED BY <1>6, <1>7

LEMMA BoundInit == Init => BoundInv
<1> SUFFICES ASSUME Init PROVE BoundInv
  OBVIOUS
<1>1. DOMAIN http = {} /\ DOMAIN ble = {} /\ 1..Done = {}
  BY DEF Init, Done
<1> QED BY <1>1 DEF BoundInv, Holds, HoldsTo

\* Unbinding by the ids of active_ empties both maps.
LEMMA UnbindEmpties ==
  ASSUME TypeOK, BoundInv, UnbindAll
  PROVE  DOMAIN http' = {} /\ DOMAIN ble' = {}
BY DEF BoundInv, Holds, HoldsTo, UnbindAll, Bound, Restrict

LEMMA BoundStep ==
  ASSUME UniqueIds, TypeOK, BoundInv, [Next]_vars
  PROVE  BoundInv'
<1> trigs \in Lists /\ next \in 0..Len(trigs) + 1
  BY DEF TypeOK
<1> Len(trigs) \in Nat /\ DOMAIN trigs = 1..Len(trigs)
  BY Listed
<1>1. ASSUME NEW list \in Lists, PutTriggers(list) PROVE BoundInv'
  <2>1. UnbindAll /\ 1..Done' = {}
    BY <1>1 DEF PutTriggers, Done
  <2>2. DOMAIN http' = {} /\ DOMAIN ble' = {}
    BY <2>1, UnbindEmpties
  <2> QED BY <2>1, <2>2 DEF BoundInv, Holds, HoldsTo
<1>2. CASE BindNext
  <2>1. /\ trigs[next].enabled \in BOOLEAN /\ Done' = next /\ trigs' = trigs
        /\ trigs[next].type \in {"http-route", "ble-mac", "unknown"}
    BY <1>2, Listed DEF BindNext, Done, Binding, Types
  <2>2. http' = IF Fits(trigs[next], "http-route")
                 THEN Assign(http, trigs[next].id, trigs[next]) ELSE http
    BY <1>2, <2>1 DEF BindNext, Bind, bindVars, Fits
  <2>3. ble' = IF Fits(trigs[next], "ble-mac")
                 THEN Assign(ble, trigs[next].id, trigs[next]) ELSE ble
    BY <1>2, <2>1 DEF BindNext, Bind, bindVars, Fits
  <2>4. Holds(http, "http-route")'
    <3>1. Holds(http, "http-route")
      BY DEF BoundInv
    <3>2. HoldsTo(http', "http-route", active_', trigs, next)
      BY <1>2, <2>2, <3>1, BindHolds
    <3> QED BY <2>1, <3>2 DEF Holds, HoldsTo
  <2>5. Holds(ble, "ble-mac")'
    <3>1. Holds(ble, "ble-mac")
      BY DEF BoundInv
    <3>2. HoldsTo(ble', "ble-mac", active_', trigs, next)
      BY <1>2, <2>3, <3>1, BindHolds
    <3> QED BY <2>1, <3>2 DEF Holds, HoldsTo
  <2> QED BY <2>4, <2>5 DEF BoundInv
<1>3. ASSUME begun, Applied PROVE BoundInv'
  <2>1. Done' = Done
    BY <1>3 DEF Applied, Done
  <2> QED BY <1>3, <2>1 DEF Applied, bindVars, BoundInv, Holds, HoldsTo
<1>4. CASE FirstConnect
  <2>1. UnbindAll /\ 1..Done' = {}
    BY <1>4 DEF FirstConnect, Done
  <2>2. DOMAIN http' = {} /\ DOMAIN ble' = {}
    BY <2>1, UnbindEmpties
  <2> QED BY <2>1, <2>2 DEF BoundInv, Holds, HoldsTo
<1>5. CASE HttpBegin
  <2>1. Done' = Done
    BY <1>5 DEF HttpBegin, bindVars, Done
  <2> QED BY <1>5, <2>1 DEF HttpBegin, bindVars, BoundInv, Holds, HoldsTo
<1>6. CASE UNCHANGED <<trigs, next, bindVars, begun>>
  BY <1>6 DEF bindVars, BoundInv, Holds, HoldsTo, Done
<1> QED
  BY <1>1, <1>2, <1>3, <1>4, <1>5, <1>6
  DEF Next, Reconnect, Disconnect, StartRun, EndRun, vars

\* After any series of uploads exactly the enabled bindings of the last list
\* are bound, if no list uses an id twice (TriggerManager.cpp:9-27).
THEOREM OnlyListedAreBoundEver == Spec => []OnlyListedAreBound
<1>1. CASE UniqueIds
  <2>1. TypeOK /\ BoundInv => OnlyListedAreBound
    <3> SUFFICES ASSUME TypeOK, BoundInv, Settled
                 PROVE  /\ {http[id] : id \in DOMAIN http} = Armed("http-route")
                        /\ {ble[id] : id \in DOMAIN ble} = Armed("ble-mac")
      BY DEF OnlyListedAreBound
    <3>1. 1..Done = DOMAIN trigs
      BY Listed DEF Settled, Done, TypeOK
    <3>2. ASSUME NEW map, NEW type, Holds(map, type)
          PROVE  {map[id] : id \in DOMAIN map} = Armed(type)
      <4>1. Armed(type) = {b \in Entries(trigs) : Fits(b, type)}
        BY DEF Armed, Fits
      <4>2. \A id \in DOMAIN map : map[id] \in Entries(trigs) /\ Fits(map[id], type)
        BY <3>1, <3>2 DEF Holds, HoldsTo, Entries
      <4>3. \A b \in Entries(trigs) : Fits(b, type) => b.id \in DOMAIN map /\ map[b.id] = b
        <5>1. \A i \in DOMAIN trigs : Fits(trigs[i], type) =>
                trigs[i].id \in DOMAIN map /\ map[trigs[i].id] = trigs[i]
          BY <3>1, <3>2 DEF Holds, HoldsTo
        <5> QED BY <5>1, Zenon DEF Entries
      <4> QED BY <4>1, <4>2, <4>3
    <3> QED BY <3>2 DEF BoundInv
  <2>2. TypeOK /\ BoundInv /\ [Next]_vars => BoundInv'
    BY <1>1, BoundStep
  <2> QED BY TypeInit, TypeStep, BoundInit, <2>1, <2>2, PTL DEF Spec
<1>2. CASE ~UniqueIds
  <2>1. OnlyListedAreBound
    BY <1>2 DEF OnlyListedAreBound
  <2> QED BY <2>1, PTL
<1> QED BY <1>1, <1>2

=============================================================================
