------------------------- MODULE ConnectivityProofs -------------------------
(***************************************************************************)
(* Proofs about Connectivity, the part "wifi" of LoopParts, for any set of *)
(* networks, any bound on the failures before the setup mode and any       *)
(* number of drops.                                                        *)
(***************************************************************************)
EXTENDS LoopParts, TLAPS

USE WifiInstance DEF Wifi!ConnectivityAssumption

-----------------------------------------------------------------------------
(* Type correctness *)

LEMMA Counting ==
  /\ 0 \in 0..WIFI_FAILURES_BEFORE_SETUP /\ 0 \in 0..MaxDrops
  /\ \A n \in 0..MaxDrops : n < MaxDrops => n + 1 \in 0..MaxDrops
  /\ \A n \in 0..WIFI_FAILURES_BEFORE_SETUP :
       n < WIFI_FAILURES_BEFORE_SETUP => n + 1 \in 0..WIFI_FAILURES_BEFORE_SETUP
OBVIOUS

LEMMA TypeInit == Wifi!Init => Wifi!TypeOK
BY Counting, Zenon DEF Wifi!Init, Wifi!TypeOK, Wifi!LedStates

LEMMA TypeStep == Wifi!TypeOK /\ [Wifi!Next]_(Wifi!vars) => Wifi!TypeOK'
<1> SUFFICES ASSUME Wifi!TypeOK, [Wifi!Next]_(Wifi!vars) PROVE Wifi!TypeOK'
  OBVIOUS
<1> USE DEF Wifi!TypeOK, Wifi!LedStates, Wifi!wifiVars, Wifi!netVars
<1>1. CASE Wifi!Tick
  BY <1>1 DEF Wifi!Tick
<1>2. CASE Wifi!Rest
  BY <1>2 DEF Wifi!Rest
<1>3. CASE Wifi!ConnectOk
  BY <1>3 DEF Wifi!ConnectOk, Wifi!Joined, Wifi!Ssids
<1>4. CASE Wifi!ConnectFail
  <2>1. /\ wifi_failures_' \in 0..WIFI_FAILURES_BEFORE_SETUP
        /\ streak' \in 0..WIFI_FAILURES_BEFORE_SETUP
    BY <1>4, Counting, Zenon DEF Wifi!ConnectFail, Wifi!Failures
  <2>2. current_' \in Wifi!Ssids \cup {NoSsid} /\ connected' \in BOOLEAN
    BY <1>4 DEF Wifi!ConnectFail, Wifi!GaveUp
  <2>3. /\ led' \in Wifi!LedStates /\ due' \in BOOLEAN /\ in_runtime_' \in BOOLEAN
        /\ where' = "tick"
    BY <1>4 DEF Wifi!ConnectFail
  <2> QED BY <1>4, <2>1, <2>2, <2>3 DEF Wifi!ConnectFail
<1>5. CASE Wifi!NoticeLoss
  BY <1>5 DEF Wifi!NoticeLoss
<1>6. CASE Wifi!Take
  BY <1>6 DEF Wifi!Take
<1>7. CASE Wifi!EndRun
  BY <1>7 DEF Wifi!EndRun, Wifi!AfterRun
<1>8. ASSUME NEW ssid \in Wifi!Ssids, Wifi!HopOk(ssid) PROVE Wifi!TypeOK'
  BY <1>8 DEF Wifi!HopOk, Wifi!Joined
<1>9. ASSUME NEW ssid \in Wifi!Ssids, Wifi!HopFail(ssid) PROVE Wifi!TypeOK'
  BY <1>9 DEF Wifi!HopFail, Wifi!GaveUp, Wifi!AfterRun
<1>10. CASE Wifi!Enqueue
  BY <1>10 DEF Wifi!Enqueue
<1>11. CASE Wifi!Drop
  <2>1. drops' \in 0..MaxDrops
    BY <1>11, Counting, Zenon DEF Wifi!Drop
  <2>2. setupFallback' \in BOOLEAN /\ in_runtime_' \in BOOLEAN /\ wifi_ready_' \in BOOLEAN
    BY <1>11 DEF Wifi!Drop
  <2>3. due' \in BOOLEAN /\ begun' \in BOOLEAN /\ pending' \in BOOLEAN
    BY <1>11 DEF Wifi!Drop
  <2>4. /\ connected' \in BOOLEAN
        /\ where' = where /\ wifi_failures_' = wifi_failures_ /\ streak' = streak
        /\ current_' = current_ /\ led' = led /\ shown' = shown
    BY <1>11 DEF Wifi!Drop
  <2> QED BY <2>1, <2>2, <2>3, <2>4
<1>12. CASE Wifi!Rejoin
  BY <1>12 DEF Wifi!Rejoin
<1>13. CASE Wifi!RetryFallsDue
  BY <1>13 DEF Wifi!RetryFallsDue
<1>14. CASE UNCHANGED Wifi!vars
  BY <1>14 DEF Wifi!vars
<1> QED BY <1>1, <1>2, <1>3, <1>4, <1>5, <1>6, <1>7, <1>8, <1>9, <1>10, <1>11, <1>12,
           <1>13, <1>14 DEF Wifi!Next, Wifi!LoopStep

\* Every variable of the loop, the network manager and the LED keeps its type.
THEOREM TypeCorrect == Wifi!Spec => []Wifi!TypeOK
<1> QED BY TypeInit, TypeStep, PTL DEF Wifi!Spec

-----------------------------------------------------------------------------
(* The idle network *)

LEMMA ReadyStep == ReadyOnIdleNetwork /\ [Wifi!Next]_(Wifi!vars) => ReadyOnIdleNetwork'
<1> SUFFICES ASSUME ReadyOnIdleNetwork, [Wifi!Next]_(Wifi!vars) PROVE ReadyOnIdleNetwork'
  OBVIOUS
<1> USE DEF ReadyOnIdleNetwork, Wifi!ReadyOnIdleNetwork, Wifi!wifiVars, Wifi!netVars
<1>1. CASE Wifi!Tick
  BY <1>1 DEF Wifi!Tick
<1>2. CASE Wifi!Rest
  BY <1>2 DEF Wifi!Rest
<1>3. CASE Wifi!ConnectOk
  BY <1>3 DEF Wifi!ConnectOk, Wifi!Joined
<1>4. CASE Wifi!ConnectFail
  BY <1>4 DEF Wifi!ConnectFail
<1>5. CASE Wifi!NoticeLoss
  BY <1>5 DEF Wifi!NoticeLoss
<1>6. CASE Wifi!Take
  BY <1>6 DEF Wifi!Take
<1>7. CASE Wifi!EndRun
  BY <1>7 DEF Wifi!EndRun, Wifi!AfterRun
<1>8. ASSUME NEW ssid \in Wifi!Ssids, Wifi!HopOk(ssid) PROVE ReadyOnIdleNetwork'
  BY <1>8 DEF Wifi!HopOk
<1>9. ASSUME NEW ssid \in Wifi!Ssids, Wifi!HopFail(ssid) PROVE ReadyOnIdleNetwork'
  BY <1>9 DEF Wifi!HopFail, Wifi!AfterRun
<1>10. CASE Wifi!Enqueue
  BY <1>10 DEF Wifi!Enqueue
<1>11. CASE Wifi!Drop
  BY <1>11 DEF Wifi!Drop
<1>12. CASE Wifi!Rejoin
  BY <1>12 DEF Wifi!Rejoin
<1>13. CASE Wifi!RetryFallsDue
  BY <1>13 DEF Wifi!RetryFallsDue
<1>14. CASE UNCHANGED Wifi!vars
  BY <1>14 DEF Wifi!vars
<1> QED BY <1>1, <1>2, <1>3, <1>4, <1>5, <1>6, <1>7, <1>8, <1>9, <1>10, <1>11, <1>12,
           <1>13, <1>14 DEF Wifi!Next, Wifi!LoopStep

\* Whatever networks the sequences hop to, and whenever the network drops the
\* device, every sequence starts on the idle network.
THEOREM ReadyOnIdleNetworkEver == Wifi!Spec => []ReadyOnIdleNetwork
<1>1. Wifi!Init => ReadyOnIdleNetwork
  BY DEF Wifi!Init, ReadyOnIdleNetwork, Wifi!ReadyOnIdleNetwork
<1> QED BY <1>1, ReadyStep, PTL DEF Wifi!Spec

-----------------------------------------------------------------------------
(* The fallback to the setup mode *)

\* The counter of the code is the length of the streak of failures.
CountsStreak == wifi_failures_ = streak

FallbackInv == Wifi!TypeOK /\ CountsStreak /\ FallbackIsDeserved

LEMMA FallbackStep == FallbackInv /\ [Wifi!Next]_(Wifi!vars) => FallbackInv'
<1> SUFFICES ASSUME FallbackInv, [Wifi!Next]_(Wifi!vars) PROVE FallbackInv'
  OBVIOUS
<1>1. Wifi!TypeOK'
  BY TypeStep DEF FallbackInv
<1> SUFFICES CountsStreak' /\ FallbackIsDeserved'
  BY <1>1 DEF FallbackInv
<1> USE DEF FallbackInv, CountsStreak, FallbackIsDeserved, Wifi!FallbackIsDeserved,
           Wifi!wifiVars
<1>2. CASE Wifi!ConnectOk
  BY <1>2 DEF Wifi!ConnectOk
<1>3. CASE Wifi!ConnectFail
  <2>1. CountsStreak' /\ streak' = Wifi!Failures
    BY <1>3 DEF Wifi!ConnectFail, Wifi!Failures
  <2>2. ~in_runtime_' => setupFallback' /\ Wifi!Failures >= WIFI_FAILURES_BEFORE_SETUP
    BY <1>3 DEF Wifi!ConnectFail
  <2> QED BY <2>1, <2>2
<1>4. CASE Wifi!NoticeLoss \/ Wifi!EndRun \/ \E ssid \in Wifi!Ssids : Wifi!HopOk(ssid) \/ Wifi!HopFail(ssid)
  BY <1>4 DEF Wifi!NoticeLoss, Wifi!EndRun, Wifi!HopOk, Wifi!HopFail
<1>5. CASE Wifi!Tick \/ Wifi!Rest \/ Wifi!Take
  BY <1>5 DEF Wifi!Tick, Wifi!Rest, Wifi!Take
<1>6. CASE Wifi!Enqueue \/ Wifi!Drop \/ Wifi!Rejoin \/ Wifi!RetryFallsDue
  BY <1>6 DEF Wifi!Enqueue, Wifi!Drop, Wifi!Rejoin, Wifi!RetryFallsDue
<1>7. CASE UNCHANGED Wifi!vars
  BY <1>7 DEF Wifi!vars
<1> QED BY <1>2, <1>3, <1>4, <1>5, <1>6, <1>7 DEF Wifi!Next, Wifi!LoopStep

\* The device leaves for the setup mode only where the configuration allows it
\* and after that many failures in a row.
THEOREM FallbackIsDeservedEver == Wifi!Spec => []FallbackIsDeserved
<1>1. Wifi!Init => FallbackInv
  BY TypeInit DEF Wifi!Init, FallbackInv, CountsStreak, FallbackIsDeserved,
      Wifi!FallbackIsDeserved
<1>2. FallbackInv => FallbackIsDeserved
  BY DEF FallbackInv
<1> QED BY <1>1, <1>2, FallbackStep, PTL DEF Wifi!Spec
=============================================================================
