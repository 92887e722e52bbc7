---------------------------- MODULE ClockProofs ----------------------------
(***************************************************************************)
(* Proofs about what compares times of millis(): BleTrigger, for any       *)
(* number of bindings, any MACs and any cooldown shorter than the clock's  *)
(* range; WsSend, for any timeouts and waits; LoopTimers, for any lengths  *)
(* of its waits; each for any width of the clock.                          *)
(***************************************************************************)
EXTENDS ClockParts, NaturalsInduction, WellFoundedInduction, TLAPS

USE BleAssumption DEF BleAssumption, Ids, Off

\* The history agrees with the clock: a binding that has fired and stayed
\* bound did so since[id] ago, as long as since[id] has not run out.
Dated ==
  \A id \in DOMAIN g_active \ anew :
    since[id] < W => since[id] = Elapsed(now, g_active[id])

\* A walk is at one instant; what it has still to fire lies at or behind the
\* binding it stands at, and is ready to fire.
Ahead ==
  at # Off =>
    /\ hitNow = now
    /\ \A id \in due : id \in DOMAIN g_active /\ id >= at
                       /\ MacOf[id] = mac /\ ~Cooling(id)

BleInv == TypeOK /\ Dated /\ Ahead /\ HitReachesAll

-----------------------------------------------------------------------------
(* The order of the map *)

\* A set of ids has a least one.
LEMMA LeastIn ==
  ASSUME NEW P, P \subseteq Nat, P # {}
  PROVE  \E m \in P : \A k \in P : m <= k
<1>1. PICK m \in P : \A k \in P : <<k, m>> \notin OpToRel(<, Nat)
  BY WFMin, NatLessThanWellFounded, Zenon
<1>2. \A k \in P : ~(k < m)
  BY <1>1, Zenon DEF OpToRel
<1> QED BY <1>2

\* After(id) is the first binding behind id, or the end if there is none.
LEMMA AfterIsNext ==
  ASSUME TypeOK, NEW id \in 0..N
  PROVE  /\ After(id) \in Ids \cup {Off}
         /\ After(id) # Off => /\ After(id) \in DOMAIN g_active
                               /\ \A j \in DOMAIN g_active : j > id => After(id) <= j
         /\ After(id) = Off => \A j \in DOMAIN g_active : ~(j > id)
<1> DEFINE rest == {i \in DOMAIN g_active : i > id}
<1>1. DOMAIN g_active \subseteq Ids
  BY DEF TypeOK
<1>2. CASE rest = {}
  BY <1>1, <1>2 DEF After
<1>3. CASE rest # {}
  <2> rest \subseteq Nat
    BY <1>1
  <2> HIDE DEF rest
  <2>1. \E m \in rest : \A k \in rest : m <= k
    BY <1>3, LeastIn
  <2> USE DEF rest
  <2>2. After(id) \in rest /\ \A k \in rest : After(id) <= k
    BY <1>3, <2>1 DEF After
  <2> QED BY <1>1, <2>2
<1> QED BY <1>2, <1>3

\* Within one turn of the clock the time since an instant grows by one a tick.
LEMMA OneTickMore ==
  ASSUME NEW t \in 0..W - 1, NEW from \in 0..W - 1, Elapsed(t, from) + 1 < W
  PROVE  Elapsed(IF t = W - 1 THEN 0 ELSE t + 1, from) = Elapsed(t, from) + 1
<1>1. CASE t = W - 1
  BY <1>1 DEF Elapsed
<1>2. CASE t # W - 1
  <2>1. t + 1 # 0 /\ t + 1 \in 0..W - 1
    BY <1>2
  <2>2. CASE from <= t
    BY <1>2, <2>1, <2>2 DEF Elapsed
  <2>3. CASE ~(from <= t)
    <3>1. Elapsed(t, from) = t + W - from
      BY <2>3 DEF Elapsed
    <3>2. from > t + 1
      BY <2>3, <3>1
    <3> QED BY <1>2, <2>1, <3>1, <3>2 DEF Elapsed
  <2> QED BY <2>2, <2>3
<1> QED BY <1>1, <1>2

-----------------------------------------------------------------------------
(* Type correctness *)

LEMMA TypeInit == Init => TypeOK
<1> SUFFICES ASSUME Init PROVE TypeOK
  OBVIOUS
<1>1. DOMAIN g_active = {} /\ g_active \in [{} -> 0..W - 1]
  BY DEF Init
<1> QED BY <1>1 DEF Init, TypeOK

LEMMA TypeStep == TypeOK /\ [Next]_vars => TypeOK'
<1> SUFFICES ASSUME TypeOK, [Next]_vars PROVE TypeOK'
  OBVIOUS
<1> USE DEF TypeOK, walk
<1>1. CASE Tick
  BY <1>1 DEF Tick
<1>2. ASSUME NEW id \in Ids, Bind(id) PROVE TypeOK'
  BY <1>2 DEF Bind
<1>3. ASSUME NEW id \in Ids, Unbind(id) PROVE TypeOK'
  BY <1>3 DEF Unbind, Restrict
<1>4. ASSUME NEW m \in Macs, Hit(m) PROVE TypeOK'
  <2>1. After(0) \in Ids \cup {Off}
    BY AfterIsNext
  <2> QED BY <1>4, <2>1 DEF Hit
<1>5. ASSUME Stays PROVE After(at) \in Ids \cup {Off}
  <2>1. at \in 0..N
    OBVIOUS
  <2> QED BY <2>1, AfterIsNext
<1>6. CASE PassBy
  BY <1>5, <1>6 DEF PassBy
<1>7. CASE Fire
  <2>1. at \in DOMAIN g_active /\ at \in Ids
    BY <1>7 DEF Fire, FireAs, Stays
  <2>2. /\ DOMAIN g_active' = DOMAIN g_active
        /\ g_active' \in [DOMAIN g_active -> 0..W - 1]
    BY <1>7, <2>1 DEF Fire, FireAs
  <2>3. at' \in Ids \cup {Off}
    BY <1>5, <1>7 DEF Fire, FireAs
  <2>4. due' \subseteq Ids /\ anew' \subseteq Ids
    BY <1>7 DEF Fire, FireAs
  <2>5. since' \in [Ids -> 0..W]
    <3>1. 0 \in 0..W /\ since \in [Ids -> 0..W] /\ since' = [since EXCEPT ![at] = 0]
      BY <1>7 DEF Fire, FireAs
    <3> HIDE DEF TypeOK, Ids
    <3> QED BY <3>1
  <2>6. UNCHANGED <<now, mac, hitNow>>
    BY <1>7 DEF Fire, FireAs
  <2> HIDE DEF Ids
  <2> QED BY <2>2, <2>3, <2>4, <2>5, <2>6
<1>8. CASE Dangling
  <2>1. \A id \in 0..N : After(id) \in Ids \cup {Off}
    BY AfterIsNext
  <2>2. ASSUME g_active' = <<>>
        PROVE  DOMAIN g_active' = {} /\ g_active' \in [{} -> 0..W - 1]
    BY <2>2
  <2>3. /\ at' \in Ids \cup {Off} /\ mac' \in Macs \cup {NoMac}
        /\ now' \in 0..W - 1 /\ hitNow' \in 0..W - 1
    BY <1>8, <2>1 DEF Dangling
  <2>4. due' \subseteq Ids /\ anew' \subseteq Ids
    BY <1>8 DEF Dangling
  <2>5. since' \in [Ids -> 0..W]
    BY <1>8 DEF Dangling
  <2>6. DOMAIN g_active' \subseteq Ids /\ g_active' \in [DOMAIN g_active' -> 0..W - 1]
    <3>1. g_active' = <<>> \/ g_active' = g_active
      BY <1>8 DEF Dangling
    <3> QED BY <2>2, <3>1
  <2> HIDE DEF Ids, Off
  <2> QED BY <2>3, <2>4, <2>5, <2>6
<1>9. CASE UNCHANGED vars
  BY <1>9 DEF vars
<1> QED BY <1>1, <1>2, <1>3, <1>4, <1>6, <1>7, <1>8, <1>9 DEF Next

\* Every variable of a BLE trigger keeps its type, whatever is bound, unbound
\* and recognised, in any order.
THEOREM TypeCorrect == Spec => []TypeOK
<1> QED BY TypeInit, TypeStep, PTL DEF Spec

-----------------------------------------------------------------------------
(* The invariant *)

LEMMA InvInit == Init => BleInv
<1> SUFFICES ASSUME Init PROVE BleInv
  OBVIOUS
<1>1. DOMAIN g_active = {}
  BY DEF Init
<1> QED BY <1>1, TypeInit DEF Init, BleInv, Dated, Ahead, HitReachesAll

LEMMA DatedStep == BleInv /\ [Next]_vars => Dated'
<1> SUFFICES ASSUME BleInv, [Next]_vars PROVE Dated'
  OBVIOUS
<1> USE DEF BleInv, TypeOK, Dated, walk
<1>1. CASE Tick
  <2> SUFFICES ASSUME NEW id \in DOMAIN g_active \ anew, since'[id] < W
               PROVE  since'[id] = Elapsed(now', g_active[id])
    BY <1>1 DEF Tick
  <2>1. /\ id \in Ids /\ since[id] \in 0..W
        /\ g_active[id] \in 0..W - 1 /\ now \in 0..W - 1
    OBVIOUS
  <2>2. since'[id] = since[id] + 1 /\ since[id] < W
    BY <1>1, <2>1 DEF Tick
  <2>3. since[id] = Elapsed(now, g_active[id])
    BY <2>2
  <2>4. now' = IF now = W - 1 THEN 0 ELSE now + 1
    BY <1>1 DEF Tick
  <2>5. since[id] + 1 < W
    BY <2>2
  <2> QED BY <2>1, <2>2, <2>3, <2>4, <2>5, OneTickMore
<1>2. ASSUME NEW id \in Ids, Bind(id) PROVE Dated'
  BY <1>2 DEF Bind
<1>3. ASSUME NEW id \in Ids, Unbind(id) PROVE Dated'
  BY <1>3 DEF Unbind, Restrict
<1>4. ASSUME NEW m \in Macs, Hit(m) PROVE Dated'
  BY <1>4 DEF Hit
<1>5. CASE PassBy
  BY <1>5 DEF PassBy
<1>6. CASE Fire
  <2>1. hitNow = now /\ at \in Ids
    BY <1>6 DEF Fire, FireAs, Stays, Ahead
  <2>2. Elapsed(now, hitNow) = 0
    BY <2>1 DEF Elapsed
  <2> QED BY <1>6, <2>1, <2>2 DEF Fire, FireAs
<1>7. CASE Dangling
  <2>1. ASSUME g_active' = <<>> PROVE DOMAIN g_active' = {}
    BY <2>1
  <2> QED BY <1>7, <2>1 DEF Dangling
<1>8. CASE UNCHANGED vars
  BY <1>8 DEF vars
<1> QED BY <1>1, <1>2, <1>3, <1>4, <1>5, <1>6, <1>7, <1>8 DEF Next

LEMMA WalkStep == BleInv /\ [Next]_vars => Ahead' /\ HitReachesAll'
<1> SUFFICES ASSUME BleInv, [Next]_vars PROVE Ahead' /\ HitReachesAll'
  OBVIOUS
<1> USE DEF BleInv, Ahead, HitReachesAll, Cooling
<1> TypeOK
  OBVIOUS
<1>1. CASE Tick
  BY <1>1 DEF Tick, walk
<1>2. ASSUME NEW id \in Ids, Bind(id) PROVE Ahead' /\ HitReachesAll'
  BY <1>2 DEF Bind, walk, TypeOK
<1>3. ASSUME NEW id \in Ids, Unbind(id) PROVE Ahead' /\ HitReachesAll'
  BY <1>3 DEF Unbind, Restrict, TypeOK
<1>4. ASSUME NEW m \in Macs, Hit(m) PROVE Ahead' /\ HitReachesAll'
  <2>1. /\ After(0) # Off => \A j \in DOMAIN g_active : j > 0 => After(0) <= j
        /\ After(0) = Off => \A j \in DOMAIN g_active : ~(j > 0)
        /\ After(0) \in Ids \cup {Off}
    BY AfterIsNext
  <2>2. \A j \in DOMAIN g_active : j \in Ids /\ j > 0
    BY DEF TypeOK
  <2>3. \A j \in DOMAIN g_active :
          Elapsed(now, g_active[j]) >= Cooldown => ~(Elapsed(now, g_active[j]) < Cooldown)
    BY DEF TypeOK, Elapsed
  <2> QED BY <1>4, <2>1, <2>2, <2>3 DEF Hit
<1>5. ASSUME Stays, at' = After(at), hitNow' = hitNow, now' = now, mac' = mac,
             DOMAIN g_active' = DOMAIN g_active,
             due' \subseteq due \ {at}, \A j \in due' : g_active'[j] = g_active[j]
      PROVE  Ahead' /\ HitReachesAll'
  <2>1. at \in 0..N /\ at \in Ids /\ at # Off
    BY <1>5 DEF Stays, TypeOK
  <2>2. /\ After(at) # Off => \A j \in DOMAIN g_active : j > at => After(at) <= j
        /\ After(at) = Off => \A j \in DOMAIN g_active : ~(j > at)
        /\ After(at) \in Ids \cup {Off}
    BY <2>1, AfterIsNext
  <2>3. \A j \in due' : j \in DOMAIN g_active /\ j \in Ids /\ j > at
    BY <1>5, <2>1 DEF TypeOK
  <2> QED BY <1>5, <2>1, <2>2, <2>3
<1>6. CASE PassBy
  <2>1. at \notin due
    BY <1>6 DEF PassBy, Matches, Stays, TypeOK
  <2> QED BY <1>5, <1>6, <2>1 DEF PassBy
<1>7. CASE Fire
  <2>1. /\ DOMAIN g_active' = DOMAIN g_active /\ due' = due \ {at}
        /\ \A j \in due' : g_active'[j] = g_active[j]
    BY <1>7 DEF Fire, FireAs, Stays, TypeOK
  <2> QED BY <1>5, <1>7, <2>1 DEF Fire, FireAs
<1>8. CASE Dangling
  BY <1>8 DEF Dangling
<1>9. CASE UNCHANGED vars
  BY <1>9 DEF vars, walk
<1> QED BY <1>1, <1>2, <1>3, <1>4, <1>6, <1>7, <1>8, <1>9 DEF Next

\* A walk reaches all that its hit found ready, the history agrees with the
\* clock, in every reachable state.
THEOREM Invariant == Spec => []BleInv
<1>1. BleInv /\ [Next]_vars => BleInv'
  BY TypeStep, DatedStep, WalkStep DEF BleInv
<1> QED BY InvInit, <1>1, PTL DEF Spec

-----------------------------------------------------------------------------
(* The properties *)

\* onHit leaves out no binding that was ready and stayed bound, unless the one
\* it stood at was erased (BleMacTrigger.cpp:78).
THEOREM HitReachesAllEver == Spec => []HitReachesAll
<1>1. BleInv => HitReachesAll
  BY DEF BleInv
<1> QED BY <1>1, Invariant, PTL

\* Two fires of a binding that stays bound are a cooldown apart, over the wrap
\* of millis() too (BleMacTrigger.cpp:81).
THEOREM FiresAreSpacedEver == Spec => FiresAreSpaced
<1>1. BleInv /\ Fire => since[at] >= Cooldown \/ at \in anew
  <2> SUFFICES ASSUME BleInv, Fire, at \notin anew PROVE since[at] >= Cooldown
    OBVIOUS
  <2>1. at \in DOMAIN g_active \ anew /\ at \in Ids /\ hitNow = now /\ ~Cooling(at)
    BY DEF Fire, FireAs, Stays, BleInv, TypeOK, Ahead
  <2>2. CASE since[at] < W
    BY <2>1, <2>2 DEF BleInv, TypeOK, Dated, Cooling, Elapsed
  <2>3. CASE ~(since[at] < W)
    BY <2>1, <2>3 DEF BleInv, TypeOK
  <2> QED BY <2>2, <2>3
<1>2. BleInv /\ [Next]_vars => [Fire => since[at] >= Cooldown \/ at \in anew]_vars
  BY <1>1
<1> QED BY <1>2, Invariant, PTL DEF Spec, FiresAreSpaced

\* A hit on a binding that has fired is passed over only within the cooldown.
THEOREM OnlyCooldownSilencesEver == Spec => OnlyCooldownSilences
<1> DEFINE Due == ~Matches \/ at \in anew \/ since[at] < Cooldown \/ since[at] = W
<1>1. BleInv /\ PassBy => Due
  <2> SUFFICES ASSUME BleInv, PassBy, Matches, at \notin anew, since[at] # W
               PROVE  since[at] < Cooldown
    OBVIOUS
  <2>1. at \in DOMAIN g_active \ anew /\ at \in Ids /\ hitNow = now /\ Cooling(at)
    BY DEF PassBy, Stays, BleInv, TypeOK, Ahead
  <2>2. since[at] < W
    BY <2>1 DEF BleInv, TypeOK
  <2> QED BY <2>1, <2>2 DEF BleInv, Dated, Cooling
<1>2. BleInv /\ [Next]_vars => [PassBy => Due]_vars
  BY <1>1
<1> QED BY <1>2, Invariant, PTL DEF Spec, OnlyCooldownSilences

-----------------------------------------------------------------------------
(* WsSend: types *)

HIDE BleAssumption DEF BleAssumption, Ids, Off

WsSteps == {"idle", "connect", "flush", "wait", "return"}

\* Where the clock is after a wait or a turn.
LEMMA Wrap ==
  ASSUME NEW w \in Nat, NEW a \in 0..w - 1, NEW b \in 0..w - 1
  PROVE  (a + b) % w = IF a + b < w THEN a + b ELSE a + b - w
<1> SUFFICES ASSUME NEW c \in 0..2 * w - 1 PROVE c % w = IF c < w THEN c ELSE c - w
  OBVIOUS
<1> QED OBVIOUS

\* A sum past the end of the clock is on the clock.
LEMMA WrapIn ==
  ASSUME NEW w \in Nat, NEW a \in 0..w - 1, NEW b \in 0..w - 1
  PROVE  (a + b) % w \in 0..w - 1
<1>1. (a + b) % w = IF a + b < w THEN a + b ELSE a + b - w
  BY Wrap
<1> QED BY <1>1

\* The constants of WsSend, as the proofs use them.
LEMMA WsSettings ==
  /\ WsW \in Nat /\ WsTurn \in 1..WsW - 1 /\ FlushMs \in 0..WsW - 1 /\ 0 \in 0..WsW - 1
  /\ \A t \in Timeouts \cup {0} : t \in 0..WsW - 1
  /\ \A t \in Waits \cup {0} : t \in 0..WsW - 1
BY WsInstance DEF Ws!WsAssumption

\* The variables of WsSend keep their types.
WsTypes ==
  /\ pc \in WsSteps
  /\ wsNow \in 0..WsW - 1 /\ start \in 0..WsW - 1 /\ until \in 0..WsW - 1 /\ spent \in 0..2 * WsW
  /\ timeoutMs \in Timeouts \cup {0} /\ waitMs \in Waits \cup {0}
  /\ g_connected \in BOOLEAN /\ g_gotMessage \in BOOLEAN /\ g_disconnected \in BOOLEAN
  /\ sent \in BOOLEAN /\ opened \in BOOLEAN /\ heard \in BOOLEAN
  /\ link \in {"closed", "open", "lost"} /\ result \in {"none", "ok", "failed"}

\* A turn of ws_loop keeps them, whatever the client reports.
LEMMA LoopOnceType ==
  ASSUME WsTypes, Ws!LoopOnce
  PROVE  /\ wsNow' \in 0..WsW - 1 /\ spent' \in 0..2 * WsW
         /\ g_connected' \in BOOLEAN /\ g_gotMessage' \in BOOLEAN /\ g_disconnected' \in BOOLEAN
         /\ opened' \in BOOLEAN /\ heard' \in BOOLEAN /\ link' \in {"closed", "open", "lost"}
<1>1. PICK d \in 1..WsTurn :
          /\ wsNow' = (wsNow + d) % WsW
          /\ spent' = IF spent + d < 2 * WsW THEN spent + d ELSE 2 * WsW
  BY DEF Ws!LoopOnce
<1>2. d \in 0..WsW - 1
  BY WsSettings
<1>3. wsNow' \in 0..WsW - 1
  BY <1>1, <1>2, WsSettings, WrapIn DEF WsTypes
<1>4. spent' \in 0..2 * WsW
  BY <1>1, <1>2, WsSettings DEF WsTypes
<1>5. CASE Ws!Nothing
  BY <1>3, <1>4, <1>5 DEF Ws!Nothing, Ws!flags, WsTypes
<1>6. CASE Ws!Opens
  BY <1>3, <1>4, <1>6 DEF Ws!Opens, WsTypes
<1>7. CASE Ws!Speaks
  BY <1>3, <1>4, <1>7 DEF Ws!Speaks, WsTypes
<1>8. CASE Ws!Breaks
  BY <1>3, <1>4, <1>8 DEF Ws!Breaks, WsTypes
<1> QED BY <1>5, <1>6, <1>7, <1>8 DEF Ws!LoopOnce

\* WsTypes holds at first.
LEMMA WsTypeInit == Ws!Init => WsTypes
<1>1. 0 \in 0..WsW - 1 /\ 0 \in 0..2 * WsW
  BY WsSettings
<1> QED BY <1>1 DEF Ws!Init, WsTypes, WsSteps

\* Every step of WsSend keeps it.
LEMMA WsTypeStep == WsTypes /\ [Ws!Next]_(Ws!vars) => WsTypes'
<1> SUFFICES ASSUME WsTypes, [Ws!Next]_(Ws!vars) PROVE WsTypes'
  OBVIOUS
<1> USE DEF WsTypes, WsSteps
<1>0. \A ms \in 0..WsW - 1 : Ws!End(ms) \in 0..WsW - 1
  BY WsSettings, WrapIn DEF Ws!End
<1>1. CASE Ws!Idle
  <2>1. wsNow' \in 0..WsW - 1
    <3>1. 1 \in 0..WsW - 1
      BY WsSettings
    <3> QED BY <1>1, <3>1, WsSettings, WrapIn DEF Ws!Idle
  <2> QED BY <1>1, <2>1 DEF Ws!Idle, Ws!params, Ws!flags
<1>2. CASE Ws!Refuse
  BY <1>2 DEF Ws!Refuse, Ws!params, Ws!flags
<1>3. ASSUME NEW t \in Timeouts, NEW w \in Waits, Ws!Begin(t, w) PROVE WsTypes'
  <2>1. wsNow \in 0..WsW - 1 /\ 0 \in 0..2 * WsW
    BY WsSettings
  <2>2. UNCHANGED <<wsNow, until, result>> /\ start' = wsNow /\ spent' = 0
    BY <1>3 DEF Ws!Begin
  <2>3. /\ g_connected' = FALSE /\ g_gotMessage' = FALSE /\ g_disconnected' = FALSE
        /\ timeoutMs' = t /\ waitMs' = w
        /\ sent' = FALSE /\ opened' = FALSE /\ heard' = FALSE /\ link' = "closed" /\ pc' = "connect"
    BY <1>3 DEF Ws!Begin, Ws!Reset
  <2> QED BY <2>1, <2>2, <2>3
<1>4. CASE Ws!Lose
  BY <1>4 DEF Ws!Lose, Ws!params, Ws!flags
<1>5. CASE Ws!ConnectTurn \/ Ws!FlushTurn
  BY <1>5, LoopOnceType DEF Ws!ConnectTurn, Ws!FlushTurn, Ws!params
<1>6. CASE Ws!ConnectFails
  BY <1>6 DEF Ws!ConnectFails, Ws!Leave, Ws!params, Ws!flags
<1>7. CASE Ws!Send
  <2>1. sent' \in BOOLEAN
    BY <1>7 DEF Ws!Send
  <2>2. until' \in 0..WsW - 1
    BY <1>0, <1>7, WsSettings DEF Ws!Send
  <2> QED BY <1>7, <2>1, <2>2, WsSettings DEF Ws!Send, Ws!params, Ws!flags
<1>8. CASE Ws!Flushed
  <2>1. waitMs \in 0..WsW - 1
    BY WsSettings
  <2>2. CASE waitMs > 0
    BY <1>0, <1>8, <2>1, <2>2, WsSettings DEF Ws!Flushed, Ws!params, Ws!flags
  <2>3. CASE ~(waitMs > 0)
    BY <1>8, <2>3 DEF Ws!Flushed, Ws!Return, Ws!Leave, Ws!params, Ws!flags
  <2> QED BY <2>2, <2>3
<1>9. CASE Ws!WaitTurn
  BY <1>9, LoopOnceType DEF Ws!WaitTurn, Ws!params
<1>10. CASE Ws!WaitOver
  BY <1>10 DEF Ws!WaitOver, Ws!Return, Ws!Leave, Ws!params, Ws!flags
<1>11. CASE UNCHANGED Ws!vars
  BY <1>11 DEF Ws!vars, Ws!params, Ws!flags
<1> QED BY <1>1, <1>2, <1>3, <1>4, <1>5, <1>6, <1>7, <1>8, <1>9, <1>10, <1>11 DEF Ws!Next

\* It implies what TLC checks.
LEMMA WsTypesOK == WsTypes => Ws!TypeOK
BY DEF WsTypes, Ws!TypeOK, WsSteps, Ws!flags

-----------------------------------------------------------------------------
(* WsSend: the waits *)

\* What the clock says of a wait, while it goes on: the time spent in it, and
\* with the comparison of an end that no turn can overrun, what is left of it.
WaitedFor(ms) == spent < ms + WsTurn /\ (wsNow < until => spent + (until - wsNow) = ms)
Clocked ==
  /\ pc = "connect" /\ timeoutMs + WsTurn <= WsW =>
       spent < timeoutMs + WsTurn /\ (spent < WsW => Ws!Elapsed(wsNow, start) = spent)
  /\ pc = "flush" /\ until + WsTurn <= WsW => WaitedFor(FlushMs)
  /\ pc = "wait" /\ until + WsTurn <= WsW => WaitedFor(waitMs)

\* A wait that has just begun.
LEMMA WaitBegins ==
  ASSUME WsTypes, NEW ms \in 0..WsW - 1, until' = Ws!End(ms), spent' = 0, wsNow' = wsNow
  PROVE  WaitedFor(ms)'
<1>1. until' = IF wsNow + ms < WsW THEN wsNow + ms ELSE wsNow + ms - WsW
  BY Wrap, WsSettings DEF Ws!End, WsTypes
<1> QED BY <1>1, WsSettings DEF WaitedFor, WsTypes

\* A turn of a wait that is not over.
LEMMA WaitGoesOn ==
  ASSUME WsTypes, NEW ms \in 0..WsW - 1, until + WsTurn <= WsW, WaitedFor(ms), wsNow < until, Ws!LoopOnce,
         until' = until
  PROVE  WaitedFor(ms)'
<1>1. PICK d \in 1..WsTurn :
          /\ wsNow' = (wsNow + d) % WsW
          /\ spent' = IF spent + d < 2 * WsW THEN spent + d ELSE 2 * WsW
  BY DEF Ws!LoopOnce
<1>2. wsNow + d < WsW /\ d \in 0..WsW - 1
  BY WsSettings DEF WsTypes
<1>3. wsNow' = wsNow + d
  BY <1>1, <1>2, Wrap, WsSettings DEF WsTypes
<1>4. spent + (until - wsNow) = ms
  BY DEF WaitedFor
<1>5. spent' = spent + d
  BY <1>1, <1>2, <1>4, WsSettings DEF WsTypes
<1> QED BY <1>3, <1>4, <1>5, WsSettings DEF WaitedFor, WsTypes

\* Every step keeps what the clock says: a wait begins with its whole time left,
\* and each turn takes as much from it as it adds to the time spent.
LEMMA ClockedStep == WsTypes /\ Clocked /\ [Ws!Next]_(Ws!vars) => Clocked'
<1> SUFFICES ASSUME WsTypes, Clocked, [Ws!Next]_(Ws!vars) PROVE Clocked'
  OBVIOUS
<1> USE DEF Clocked
<1>1. CASE Ws!Idle \/ Ws!Refuse \/ Ws!ConnectFails \/ Ws!WaitOver
  BY <1>1 DEF Ws!Idle, Ws!Refuse, Ws!ConnectFails, Ws!WaitOver, Ws!Return, Ws!Leave
<1>2. ASSUME NEW t \in Timeouts, NEW w \in Waits, Ws!Begin(t, w) PROVE Clocked'
  <2>1. t \in 0..WsW - 1
    BY WsSettings
  <2> QED BY <1>2, <2>1, WsSettings DEF Ws!Begin, Ws!Elapsed, WsTypes
<1>3. CASE Ws!Lose
  BY <1>3 DEF Ws!Lose, Ws!params, WaitedFor, Ws!Elapsed
<1>4. CASE Ws!ConnectTurn
  <2>1. /\ pc = "connect" /\ pc' = "connect" /\ Ws!Elapsed(wsNow, start) < timeoutMs /\ Ws!LoopOnce
        /\ UNCHANGED <<start, timeoutMs>> /\ timeoutMs \in 0..WsW - 1
    BY <1>4, WsSettings DEF Ws!ConnectTurn, Ws!InTime, Ws!params, WsTypes
  <2>2. PICK d \in 1..WsTurn :
          /\ wsNow' = (wsNow + d) % WsW
          /\ spent' = IF spent + d < 2 * WsW THEN spent + d ELSE 2 * WsW
    BY <2>1 DEF Ws!LoopOnce
  <2>3. d \in 0..WsW - 1
    BY WsSettings
  <2>4. wsNow' = IF wsNow + d < WsW THEN wsNow + d ELSE wsNow + d - WsW
    BY <2>2, <2>3, Wrap, WsSettings DEF WsTypes
  <2>5. ASSUME timeoutMs + WsTurn <= WsW
        PROVE  spent' < timeoutMs + WsTurn /\ (spent' < WsW => Ws!Elapsed(wsNow', start) = spent')
    <3>1. spent < WsW
      BY <2>1, <2>5, WsSettings DEF WsTypes
    <3>2. Ws!Elapsed(wsNow, start) = spent
      BY <2>1, <2>5, <3>1
    <3>3. spent < timeoutMs /\ spent' = spent + d
      BY <2>1, <2>2, <2>3, <3>1, <3>2, WsSettings DEF WsTypes
    <3> QED BY <2>1, <2>2, <2>3, <2>4, <3>2, <3>3, WsSettings DEF WsTypes, Ws!Elapsed
  <2> QED BY <2>1, <2>5 DEF Ws!Elapsed
<1>5. CASE Ws!Send
  BY <1>5, WaitBegins, WsSettings DEF Ws!Send
<1>6. CASE Ws!FlushTurn
  BY <1>6, WaitGoesOn, WsSettings DEF Ws!FlushTurn
<1>7. CASE Ws!Flushed
  <2>1. CASE waitMs > 0
    <3>1. waitMs \in 0..WsW - 1 /\ waitMs' = waitMs
      BY <1>7, WsSettings DEF WsTypes, Ws!Flushed, Ws!params
    <3>2. WaitedFor(waitMs)' 
      BY <1>7, <2>1, <3>1, WaitBegins DEF Ws!Flushed, WaitedFor
    <3> QED BY <1>7, <2>1, <3>2 DEF Ws!Flushed
  <2>2. CASE ~(waitMs > 0)
    BY <1>7, <2>2 DEF Ws!Flushed, Ws!Return, Ws!Leave
  <2> QED BY <2>1, <2>2
<1>8. CASE Ws!WaitTurn
  <2>1. /\ waitMs \in 0..WsW - 1
        /\ waitMs' = waitMs
        /\ until' = until
        /\ wsNow < until
        /\ Ws!LoopOnce
        /\ pc = "wait"
    BY <1>8, WsSettings DEF WsTypes, Ws!WaitTurn, Ws!params
  <2>2. until + WsTurn <= WsW => WaitedFor(waitMs)'
    BY <2>1, WaitGoesOn DEF WaitedFor
  <2> QED BY <1>8, <2>1, <2>2 DEF Ws!WaitTurn
<1>9. CASE UNCHANGED Ws!vars
  BY <1>9 DEF Ws!vars, Ws!params, WaitedFor, Ws!Elapsed
<1> QED BY <1>1, <1>2, <1>3, <1>4, <1>5, <1>6, <1>7, <1>8, <1>9 DEF Ws!Next

\* No wait of ws-send takes longer than asked for and a turn of the loop, for any
\* width of millis(), any timeouts and waits, and any turn the loop may take:
\* except where the end of the wait, or a timeout, is within a turn of the wrap.
THEOREM WaitsAreBoundedEver == Ws!Spec => []WaitsAreBounded
<1>1. Ws!Init => Clocked
  BY DEF Ws!Init, Clocked
<1>2. Clocked => WaitsAreBounded
  BY DEF Clocked, WaitedFor, WaitsAreBounded, Ws!WaitsAreBounded
<1> QED BY <1>1, <1>2, WsTypeInit, WsTypeStep, ClockedStep, PTL DEF Ws!Spec

-----------------------------------------------------------------------------
(* WsSend: the flags *)

\* What the flags say during a run is true of the run's own client.
OwnFlags ==
  pc # "idle" =>
    /\ g_connected => opened
    /\ g_gotMessage => heard
    /\ pc # "connect" => opened

\* Every step keeps it: the flags are reset before the client of a run is heard.
LEMMA OwnFlagsStep == OwnFlags /\ [Ws!Next]_(Ws!vars) => OwnFlags'
<1> SUFFICES ASSUME OwnFlags, [Ws!Next]_(Ws!vars) PROVE OwnFlags'
  OBVIOUS
<1> USE DEF OwnFlags
<1>1. CASE Ws!Idle \/ Ws!Refuse \/ Ws!ConnectFails \/ Ws!WaitOver
  BY <1>1 DEF Ws!Idle, Ws!Refuse, Ws!ConnectFails, Ws!WaitOver, Ws!Return, Ws!Leave
<1>2. ASSUME NEW t \in Timeouts, NEW w \in Waits, Ws!Begin(t, w) PROVE OwnFlags'
  BY <1>2 DEF Ws!Begin, Ws!Reset
<1>3. CASE Ws!Lose \/ Ws!Send
  BY <1>3 DEF Ws!Lose, Ws!Send, Ws!flags
<1>4. CASE Ws!Flushed
  BY <1>4 DEF Ws!Flushed, Ws!flags, Ws!Return, Ws!Leave
<1>5. ASSUME Ws!LoopOnce, pc # "idle"
      PROVE (g_connected' => opened') /\ (g_gotMessage' => heard') /\ (pc # "connect" => opened')
  BY <1>5 DEF Ws!LoopOnce, Ws!Nothing, Ws!Opens, Ws!Speaks, Ws!Breaks, Ws!flags
<1>6. CASE Ws!ConnectTurn \/ Ws!FlushTurn \/ Ws!WaitTurn
  BY <1>5, <1>6 DEF Ws!ConnectTurn, Ws!FlushTurn, Ws!WaitTurn
<1>7. CASE UNCHANGED Ws!vars
  BY <1>7 DEF Ws!vars, Ws!flags
<1> QED BY <1>1, <1>2, <1>3, <1>4, <1>6, <1>7 DEF Ws!Next

\* A run of ws-send that reports success had its own connection open and sent
\* its text, and has a message only if the peer sent one in this run.
THEOREM OkMeansSentEver == Ws!Spec => OkMeansSent
<1> DEFINE Ok == pc # "idle" /\ pc' = "idle" /\ result' = "ok" => opened /\ sent /\ (g_gotMessage => heard)
<1>1. Ws!Init => OwnFlags
  BY DEF Ws!Init, OwnFlags
<1>2. OwnFlags /\ WsTypes /\ [Ws!Next]_(Ws!vars) => Ok
  <2> SUFFICES ASSUME OwnFlags, WsTypes, [Ws!Next]_(Ws!vars) PROVE Ok
    OBVIOUS
  <2>1. CASE Ws!Flushed \/ Ws!WaitOver
    BY <2>1 DEF Ws!Flushed, Ws!WaitOver, Ws!Return, Ws!Leave, OwnFlags
  <2>2. CASE Ws!ConnectFails
    BY <2>2 DEF Ws!ConnectFails, Ws!Leave
  <2>3. ASSUME NEW t \in Timeouts, NEW w \in Waits, Ws!Begin(t, w) PROVE Ok
    BY <2>3 DEF Ws!Begin
  <2>4. CASE Ws!Idle \/ Ws!Refuse \/ Ws!Lose \/ Ws!ConnectTurn \/ Ws!Send \/ Ws!FlushTurn \/ Ws!WaitTurn
    BY <2>4 DEF Ws!Idle, Ws!Refuse, Ws!Lose, Ws!ConnectTurn, Ws!Send, Ws!FlushTurn, Ws!WaitTurn
  <2>5. CASE UNCHANGED Ws!vars
    BY <2>5 DEF Ws!vars
  <2> QED BY <2>1, <2>2, <2>3, <2>4, <2>5 DEF Ws!Next
<1>3. OwnFlags /\ WsTypes /\ [Ws!Next]_(Ws!vars) => [Ok]_(Ws!vars)
  BY <1>2
<1> QED BY <1>1, <1>3, WsTypeInit, WsTypeStep, OwnFlagsStep, PTL DEF Ws!Spec, OkMeansSent,
           Ws!OkMeansSent

-----------------------------------------------------------------------------
(* LoopTimers: types *)

\* The constants of LoopTimers, as the proofs use them.
LEMMA TimerSettings ==
  /\ LoopW \in Nat /\ LoopTurn \in 1..LoopW - 1
  /\ SUCCESS_MS \in 1..LoopW - LoopTurn /\ ERROR_MS \in 1..LoopW - LoopTurn
  /\ WIFI_RETRY_BACKOFF_MS \in 1..LoopW - LoopTurn /\ LOSS_MS \in 1..LoopW - LoopTurn
BY TimersInstance DEF Timers!TimerAssumption

\* An end set after a turn of the loop, on the clock.
LEMMA AfterIs ==
  ASSUME loopNow' \in 0..LoopW - 1, NEW ms \in 0..LoopW - 1
  PROVE  /\ Timers!After(ms) \in 0..LoopW - 1
         /\ loopNow' + ms < LoopW => Timers!After(ms) = loopNow' + ms
         /\ loopNow' + ms >= LoopW => Timers!After(ms) = loopNow' + ms - LoopW
<1>1. ASSUME NEW w \in Nat, NEW a \in 0..w - 1, NEW b \in 0..w - 1
      PROVE  /\ (a + b) % w \in 0..w - 1
             /\ a + b < w => (a + b) % w = a + b
             /\ a + b >= w => (a + b) % w = a + b - w
  <2>1. (a + b) % w = IF a + b < w THEN a + b ELSE a + b - w
    BY Wrap
  <2> QED BY <2>1
<1>2. LoopW \in Nat
  BY TimerSettings
<1> QED BY <1>1, <1>2 DEF Timers!After

\* The clock after a turn of the loop.
LEMMA Turned ==
  ASSUME Timers!TypeOK, NEW d \in 1..LoopTurn, Timers!Turn(d)
  PROVE  /\ ~ticking /\ ticking' /\ loopNow' \in 0..LoopW - 1
         /\ loopNow' = IF loopNow + d < LoopW THEN loopNow + d ELSE loopNow + d - LoopW
<1>1. loopNow \in 0..LoopW - 1 /\ d \in 0..LoopW - 1 /\ LoopW \in Nat
  BY TimerSettings DEF Timers!TypeOK
<1>2. loopNow' = IF loopNow + d < LoopW THEN loopNow + d ELSE loopNow + d - LoopW
  BY <1>1, Wrap DEF Timers!Turn
<1> QED BY <1>1, <1>2 DEF Timers!Turn

\* The variables of LoopTimers have their types at first.
LEMMA TimerTypeInit == Timers!Init => Timers!TypeOK
<1>1. 0 \in 0..LoopW - 1 /\ 0 \in 0..LoopW /\ LoopW \in 0..LoopW
  BY TimerSettings
<1> QED BY <1>1 DEF Timers!Init, Timers!TypeOK

\* Every step keeps them.
LEMMA TimerTypeStep == Timers!TypeOK /\ [Timers!Next]_(Timers!vars) => Timers!TypeOK'
<1> SUFFICES ASSUME Timers!TypeOK, [Timers!Next]_(Timers!vars) PROVE Timers!TypeOK'
  OBVIOUS
<1>0. /\ ticking \in BOOLEAN /\ entered_ \in BOOLEAN /\ on \in BOOLEAN /\ wifi_ready_ \in BOOLEAN
      /\ loopNow \in 0..LoopW - 1 /\ state_entered_at_ \in 0..LoopW - 1 /\ next_wifi_retry_ms_ \in 0..LoopW - 1
      /\ state_ \in {"Setup", "Idle", "Success", "Error"} /\ age \in 0..LoopW /\ tried \in 0..LoopW
      /\ owed \in {0, LOSS_MS, WIFI_RETRY_BACKOFF_MS}
  BY DEF Timers!TypeOK
<1>i. Timers!TypeOK' <=>
        /\ ticking' \in BOOLEAN /\ entered_' \in BOOLEAN /\ on' \in BOOLEAN /\ wifi_ready_' \in BOOLEAN
        /\ loopNow' \in 0..LoopW - 1 /\ state_entered_at_' \in 0..LoopW - 1
        /\ next_wifi_retry_ms_' \in 0..LoopW - 1
        /\ state_' \in {"Setup", "Idle", "Success", "Error"} /\ age' \in 0..LoopW /\ tried' \in 0..LoopW
        /\ owed' \in {0, LOSS_MS, WIFI_RETRY_BACKOFF_MS}
  BY DEF Timers!TypeOK
<1>1. CASE Timers!Tick
  <2>1. state_entered_at_' \in 0..LoopW - 1
    BY <1>0, <1>1 DEF Timers!Tick, Timers!Anchor
  <2>2. on' \in BOOLEAN /\ state_' \in {"Setup", "Idle", "Success", "Error"}
    <3>1. Timers!Elapsed \in Nat
      BY <1>0, TimerSettings DEF Timers!Elapsed
    <3>2. (Timers!Elapsed < SUCCESS_MS) \in BOOLEAN
      BY <3>1, TimerSettings
    <3>3. \A s : Timers!Lit(s, Timers!Elapsed) \subseteq BOOLEAN
      <4> SUFFICES ASSUME NEW s PROVE Timers!Lit(s, Timers!Elapsed) \subseteq BOOLEAN
        OBVIOUS
      <4>1. CASE s = "Success"
        BY <3>2, <4>1 DEF Timers!Lit
      <4>2. CASE s = "Error"
        <5>1. Timers!Lit(s, Timers!Elapsed) =
                {((Timers!Elapsed * 6) \div ERROR_MS) % 2 = 0 /\ Timers!Elapsed < ERROR_MS}
          BY <4>2 DEF Timers!Lit
        <5> QED BY <5>1
      <4>3. CASE s # "Success" /\ s # "Error"
        BY <4>3 DEF Timers!Lit
      <4> QED BY <4>1, <4>2, <4>3
    <3> QED BY <1>0, <1>1, <3>3 DEF Timers!Tick
  <2>3. age' \in 0..LoopW
    BY <1>0, <1>1, TimerSettings DEF Timers!Tick
  <2>4. /\ entered_' = TRUE
        /\ ticking' = FALSE
        /\ UNCHANGED <<loopNow, wifi_ready_, next_wifi_retry_ms_, tried, owed>>
    BY <1>1 DEF Timers!Tick
  <2> QED BY <1>0, <1>i, <2>1, <2>2, <2>3, <2>4
<1>2. ASSUME NEW d \in 1..LoopTurn,
             \/ Timers!Rest(d) \/ Timers!ConnectOk(d) \/ Timers!ConnectFail(d)
             \/ Timers!NoticeLoss(d) \/ Timers!Run(d)
      PROVE  Timers!TypeOK'
  <2>1. ticking' = TRUE /\ loopNow' \in 0..LoopW - 1
    BY <1>2, Turned DEF Timers!Rest, Timers!ConnectOk, Timers!ConnectFail, Timers!NoticeLoss,
       Timers!Run, Timers!Turn
  <2>2. \A t \in Nat : Timers!Capped(t) \in 0..LoopW
    BY TimerSettings DEF Timers!Capped
  <2>3. d \in Nat /\ LoopW \in Nat /\ 0 \in 0..LoopW - 1 /\ 0 \in 0..LoopW
    BY TimerSettings
  <2>4. Timers!After(WIFI_RETRY_BACKOFF_MS) \in 0..LoopW - 1 /\ Timers!After(LOSS_MS) \in 0..LoopW - 1
    <3>1. WIFI_RETRY_BACKOFF_MS \in 0..LoopW - 1 /\ LOSS_MS \in 0..LoopW - 1
      BY TimerSettings
    <3> QED BY <2>1, <3>1, AfterIs
  <2>5. tried' \in 0..LoopW /\ owed' \in {0, LOSS_MS, WIFI_RETRY_BACKOFF_MS}
    BY <1>0, <1>2, <2>2, <2>3 DEF Timers!Rest, Timers!ConnectOk, Timers!ConnectFail,
       Timers!NoticeLoss, Timers!Run
  <2>6. age' \in 0..LoopW /\ state_' \in {"Setup", "Idle", "Success", "Error"} /\ entered_' \in BOOLEAN
        /\ state_entered_at_' \in 0..LoopW - 1 /\ on' \in BOOLEAN
    <3>1. CASE Timers!Rest(d)
      BY <1>0, <2>2, <2>3, <3>1 DEF Timers!Rest
    <3>2. ASSUME NEW s \in {"Idle", "Success", "Error"}, Timers!setState(s)
          PROVE  /\ age' = 0 /\ state_' = s /\ entered_' = FALSE /\ state_entered_at_' = 0 /\ on' = on
      BY <3>2 DEF Timers!setState
    <3>3. CASE ~Timers!Rest(d)
      <4>1. \E s \in {"Idle", "Success", "Error"} : Timers!setState(s)
        BY <1>2, <3>3 DEF Timers!ConnectOk, Timers!ConnectFail, Timers!NoticeLoss, Timers!Run
      <4> QED BY <1>0, <2>3, <3>2, <4>1
    <3> QED BY <3>1, <3>3
  <2>7. wifi_ready_' \in BOOLEAN /\ next_wifi_retry_ms_' \in 0..LoopW - 1
    BY <1>0, <1>2, <2>4 DEF Timers!Rest, Timers!ConnectOk, Timers!ConnectFail,
       Timers!NoticeLoss, Timers!Run
  <2> QED BY <1>i, <2>1, <2>5, <2>6, <2>7
<1>3. CASE UNCHANGED Timers!vars
  BY <1>0, <1>i, <1>3 DEF Timers!vars, Timers!led
<1> QED BY <1>1, <1>2, <1>3 DEF Timers!Next

-----------------------------------------------------------------------------
(* LoopTimers: the LED *)

\* The pattern of a result: the LED's own count agrees with the time that has
\* passed, and a turn of the loop cannot carry it over the wrap.
Ends == {"Success", "Error"}
LedCounts ==
  /\ ~entered_ => ticking /\ age = 0
  /\ entered_ /\ state_ \in Ends => Timers!Elapsed = age /\ age < LoopW
  /\ ~ticking /\ state_ \in Ends => age < Timers!Length

\* The LED sees the pattern over when its time is over.
LEMMA OverIs ==
  ASSUME Timers!TypeOK, LedCounts, state_ \in Ends
  PROVE  Timers!Over <=> age >= Timers!Length
<1>1. Timers!Elapsed = age
  BY DEF LedCounts, Timers!Elapsed
<1> QED BY <1>1 DEF Timers!Over, Ends, Timers!Length

\* Every step keeps the count, since the loop ticks the LED on every turn.
LEMMA CountedStep == Timers!TypeOK /\ LedCounts /\ [Timers!Next]_(Timers!vars) => LedCounts'
<1> SUFFICES ASSUME Timers!TypeOK, LedCounts, [Timers!Next]_(Timers!vars) PROVE LedCounts'
  OBVIOUS
<1>0. /\ entered_ \in BOOLEAN /\ loopNow \in 0..LoopW - 1
      /\ state_entered_at_ \in 0..LoopW - 1 /\ age \in 0..LoopW
      /\ Timers!Length \in 1..LoopW - LoopTurn
  BY TimerSettings DEF Timers!TypeOK, Timers!Length
<1>1. CASE Timers!Tick
  <2>1. CASE Timers!Over
    BY <1>1, <2>1 DEF Timers!Tick, LedCounts, Ends
  <2>2. CASE ~Timers!Over
    <3>1. /\ entered_' = TRUE /\ state_' = state_ /\ loopNow' = loopNow
          /\ age' = (IF entered_ THEN age ELSE 0)
          /\ state_entered_at_' = IF entered_ THEN state_entered_at_ ELSE loopNow
      BY <1>1, <2>2 DEF Timers!Tick, Timers!Anchor
    <3>2. age' = age
      BY <3>1 DEF LedCounts
    <3>3. Timers!Length' = Timers!Length
      BY <3>1 DEF Timers!Length
    <3>4. state_ \in Ends => age < Timers!Length
      BY <1>0, <2>2, OverIs
    <3>5. state_ \in Ends => Timers!Elapsed' = age'
      <4>1. CASE entered_
        BY <3>1, <4>1 DEF LedCounts, Timers!Elapsed
      <4>2. CASE ~entered_
        BY <1>0, <3>1, <4>2, TimerSettings DEF LedCounts, Timers!Elapsed
      <4> QED BY <4>1, <4>2
    <3> QED BY <1>0, <3>1, <3>2, <3>3, <3>4, <3>5, TimerSettings DEF LedCounts
  <2> QED BY <2>1, <2>2
<1>2. ASSUME NEW d \in 1..LoopTurn, Timers!Rest(d) PROVE LedCounts'
  <2>1. /\ ~ticking /\ ticking' /\ loopNow' = IF loopNow + d < LoopW THEN loopNow + d ELSE loopNow + d - LoopW
        /\ age' = Timers!Capped(age + d)
        /\ UNCHANGED <<state_, entered_, state_entered_at_>>
    BY <1>2, Turned DEF Timers!Rest
  <2>2. entered_
    BY <2>1 DEF LedCounts
  <2>3. ASSUME state_ \in Ends PROVE Timers!Elapsed' = age' /\ age' < LoopW
    <3>1. Timers!Elapsed = age /\ age < Timers!Length
      BY <2>1, <2>2, <2>3 DEF LedCounts
    <3>2. age' = age + d /\ age' < LoopW
      BY <1>0, <2>1, <3>1, TimerSettings DEF Timers!Capped
    <3> QED BY <1>0, <2>1, <2>2, <3>1, <3>2, TimerSettings DEF Timers!Elapsed
  <2> QED BY <2>1, <2>2, <2>3 DEF LedCounts
<1>3. ASSUME NEW d \in 1..LoopTurn,
             \/ Timers!ConnectOk(d) \/ Timers!ConnectFail(d)
             \/ Timers!NoticeLoss(d) \/ Timers!Run(d)
      PROVE  LedCounts'
  <2>1. entered_' = FALSE /\ age' = 0 /\ ticking' = TRUE
    BY <1>3 DEF Timers!ConnectOk, Timers!ConnectFail, Timers!NoticeLoss, Timers!Run,
       Timers!Turn, Timers!setState
  <2> QED BY <2>1 DEF LedCounts
<1>4. CASE UNCHANGED Timers!vars
  BY <1>4 DEF Timers!vars, Timers!led, LedCounts, Timers!Elapsed, Timers!Length
<1> QED BY <1>1, <1>2, <1>3, <1>4 DEF Timers!Next

\* The pattern of a result ends at the first tick after its time, at whatever
\* count of millis() it began.
THEOREM PatternLastsEver == Timers!Spec => PatternLasts
<1> DEFINE EndsAtItsTime ==
             Timers!Tick /\ state_ \in {"Success", "Error"} =>
               (state_' = "Idle" <=> age >= Timers!Length)
<1>1. Timers!Init => LedCounts
  BY DEF Timers!Init, LedCounts, Ends
<1>2. Timers!TypeOK /\ LedCounts => EndsAtItsTime
  <2> SUFFICES ASSUME Timers!TypeOK, LedCounts, Timers!Tick, state_ \in Ends
               PROVE state_' = "Idle" <=> age >= Timers!Length
    BY DEF Ends
  <2>1. state_' = "Idle" <=> Timers!Over
    BY DEF Timers!Tick, Ends
  <2> QED BY <2>1, OverIs
<1>3. Timers!TypeOK /\ LedCounts /\ [Timers!Next]_(Timers!vars) => [EndsAtItsTime]_(Timers!vars)
  BY <1>2
<1> QED BY <1>1, <1>3, TimerTypeInit, TimerTypeStep, CountedStep, PTL DEF Timers!Spec,
           PatternLasts, Timers!PatternLasts

-----------------------------------------------------------------------------
(* LoopTimers: Wi-Fi *)

\* While Wi-Fi is down and the wait ends before the wrap, the clock is as far from
\* the end of it as the time since its start is from the wait.  A boot owes none.
Backoff ==
  /\ owed = 0 => next_wifi_retry_ms_ = 0
  /\ ~wifi_ready_ /\ owed # 0 /\ Timers!OnTime =>
       loopNow + owed = next_wifi_retry_ms_ + tried

\* An attempt that fails, and a loss that is noticed, set the next one.
LEMMA BackoffBegins ==
  ASSUME Timers!TypeOK, NEW d \in 1..LoopTurn, Timers!Turn(d), tried' = 0,
         NEW ms \in 1..LoopW - LoopTurn, next_wifi_retry_ms_' = Timers!After(ms), owed' = ms
  PROVE  Backoff'
<1>1. loopNow' \in 0..LoopW - 1 /\ ms \in 0..LoopW - 1 /\ ms # 0 /\ LoopW \in Nat
  BY Turned, TimerSettings
<1>2. /\ next_wifi_retry_ms_' \in 0..LoopW - 1
      /\ loopNow' + ms < LoopW => next_wifi_retry_ms_' = loopNow' + ms
      /\ loopNow' + ms >= LoopW => next_wifi_retry_ms_' = loopNow' + ms - LoopW
  BY <1>1, AfterIs
<1>3. owed' <= next_wifi_retry_ms_' => next_wifi_retry_ms_' = loopNow' + ms
  <2> SUFFICES ASSUME NEW n \in 0..LoopW - 1, NEW t \in 0..LoopW - 1, ms <= n,
                      t + ms < LoopW => n = t + ms, t + ms >= LoopW => n = t + ms - LoopW
               PROVE  n = t + ms
    BY <1>1, <1>2
  <2>1. ms \in Nat /\ LoopW \in Nat
    BY <1>1
  <2> QED BY <1>1, <2>1
<1>4. Timers!OnTime' => loopNow' + owed' = next_wifi_retry_ms_' + tried'
  BY <1>1, <1>3 DEF Timers!OnTime
<1> QED BY <1>1, <1>4 DEF Backoff

\* Every step keeps it: a turn that begins before the end is over before the wrap.
LEMMA BackoffStep == Timers!TypeOK /\ Backoff /\ [Timers!Next]_(Timers!vars) => Backoff'
<1> SUFFICES ASSUME Timers!TypeOK, Backoff, [Timers!Next]_(Timers!vars) PROVE Backoff'
  OBVIOUS
<1>0. /\ loopNow \in 0..LoopW - 1
      /\ next_wifi_retry_ms_ \in 0..LoopW - 1
      /\ tried \in 0..LoopW /\ owed \in 0..LoopW
      /\ wifi_ready_ \in BOOLEAN
  BY TimerSettings DEF Timers!TypeOK
<1>1. CASE Timers!Tick
  BY <1>1 DEF Timers!Tick, Timers!OnTime, Backoff
<1>2. ASSUME NEW d \in 1..LoopTurn, Timers!Rest(d) PROVE Backoff'
  <2>1. loopNow' = (IF loopNow + d < LoopW THEN loopNow + d ELSE loopNow + d - LoopW)
    BY <1>2, Turned DEF Timers!Rest
  <2>2. /\ tried' = IF tried + d < LoopW THEN tried + d ELSE LoopW
        /\ UNCHANGED <<next_wifi_retry_ms_, wifi_ready_, owed>>
        /\ wifi_ready_ \/ loopNow < next_wifi_retry_ms_
    BY <1>2 DEF Timers!Rest, Timers!Capped
  <2>3. ASSUME ~wifi_ready_, owed # 0, Timers!OnTime
        PROVE  loopNow' + owed = next_wifi_retry_ms_ + tried'
    <3>1. /\ loopNow + owed = next_wifi_retry_ms_ + tried /\ owed <= next_wifi_retry_ms_
          /\ loopNow < next_wifi_retry_ms_ /\ next_wifi_retry_ms_ + LoopTurn <= LoopW
      BY <2>2, <2>3 DEF Backoff, Timers!OnTime
    <3>2. loopNow + d < LoopW /\ tried + d < LoopW
      BY <1>0, <3>1, TimerSettings
    <3> QED BY <1>0, <2>1, <2>2, <3>1, <3>2
  <2> QED BY <2>2, <2>3 DEF Backoff, Timers!OnTime
<1>3. ASSUME NEW d \in 1..LoopTurn, Timers!ConnectOk(d) \/ Timers!Run(d) PROVE Backoff'
  BY <1>3 DEF Timers!ConnectOk, Timers!Run, Backoff
<1>4. ASSUME NEW d \in 1..LoopTurn, Timers!ConnectFail(d) \/ Timers!NoticeLoss(d) PROVE Backoff'
  BY <1>4, BackoffBegins, TimerSettings DEF Timers!ConnectFail, Timers!NoticeLoss
<1>5. CASE UNCHANGED Timers!vars
  BY <1>5 DEF Timers!vars, Timers!OnTime, Backoff
<1> QED BY <1>1, <1>2, <1>3, <1>4, <1>5 DEF Timers!Next

\* Between an attempt that failed and the next passes the backoff, between a loss
\* and the next the short wait, and the turn after it makes the attempt: for any
\* waits, any lengths of the turns and any width of the clock, unless millis()
\* wraps before the turn after the wait is over.
THEOREM RetryWaitsEver == Timers!Spec => RetryWaits
<1> DEFINE WaitsBackoff ==
             ~wifi_ready_ /\ Timers!OnTime =>
               \A d \in 1..LoopTurn :
                 /\ Timers!ConnectOk(d) \/ Timers!ConnectFail(d) => tried >= owed
                 /\ Timers!Rest(d) => tried < owed
<1>1. Timers!Init => Backoff
  BY DEF Timers!Init, Backoff
<1>2. Timers!TypeOK /\ Backoff => WaitsBackoff
  <2> SUFFICES ASSUME Timers!TypeOK, Backoff, ~wifi_ready_, Timers!OnTime, NEW d \in 1..LoopTurn
               PROVE  /\ Timers!ConnectOk(d) \/ Timers!ConnectFail(d) => tried >= owed
                      /\ Timers!Rest(d) => tried < owed
    OBVIOUS
  <2>1. /\ loopNow \in Nat /\ next_wifi_retry_ms_ \in Nat /\ tried \in Nat /\ owed \in Nat
        /\ owed = 0 => next_wifi_retry_ms_ = 0
        /\ owed # 0 => loopNow + owed = next_wifi_retry_ms_ + tried
    BY TimerSettings DEF Timers!TypeOK, Backoff
  <2>2. loopNow < next_wifi_retry_ms_ <=> tried < owed
    BY <2>1
  <2>3. Timers!ConnectOk(d) \/ Timers!ConnectFail(d) => ~(loopNow < next_wifi_retry_ms_)
    BY DEF Timers!ConnectOk, Timers!ConnectFail, Timers!Due
  <2>4. Timers!Rest(d) => loopNow < next_wifi_retry_ms_
    BY DEF Timers!Rest
  <2> QED BY <2>1, <2>2, <2>3, <2>4
<1>3. Timers!TypeOK /\ Backoff /\ [Timers!Next]_(Timers!vars) => [WaitsBackoff]_(Timers!vars)
  BY <1>2
<1> QED BY <1>1, <1>3, TimerTypeInit, TimerTypeStep, BackoffStep, PTL DEF Timers!Spec,
           RetryWaits, Timers!RetryWaits

-----------------------------------------------------------------------------
(* All parts *)

\* A step of one part is a step of it or none of each of the others, so the
\* variables of all of them keep their types.
THEOREM PartsTypeCorrect == PartsSpec => []PartsTypeOK
<1> DEFINE Types == TypeOK /\ WsTypes /\ Timers!TypeOK
<1>1. PartsInit => Types
  BY TypeInit, WsTypeInit, TimerTypeInit DEF PartsInit
<1>2. Types /\ [PartsNext]_<<part, vars, wsVars, loopVars>> => Types'
  <2> SUFFICES ASSUME Types, [PartsNext]_<<part, vars, wsVars, loopVars>> PROVE Types'
    OBVIOUS
  <2>1. [Next]_vars
    BY DEF PartsNext
  <2>2. [Ws!Next]_(Ws!vars)
    BY DEF PartsNext, wsVars, Ws!vars, Ws!params, Ws!flags
  <2>3. [Timers!Next]_(Timers!vars)
    BY DEF PartsNext, loopVars, Timers!vars, Timers!led
  <2> QED BY <2>1, <2>2, <2>3, TypeStep, WsTypeStep, TimerTypeStep
<1>3. Types => PartsTypeOK
  BY WsTypesOK DEF PartsTypeOK
<1> QED BY <1>1, <1>2, <1>3, PTL DEF PartsSpec
=============================================================================
