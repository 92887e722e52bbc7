---------------------------- MODULE Connectivity ----------------------------
(***************************************************************************)
(* The Arduino loop (main.cpp, loop and tryConnectIdle) as it moves        *)
(* between connecting to the idle network, waiting for a request, running  *)
(* a sequence that may hop to other networks (WifiHopBlock), and the setup *)
(* mode it falls back to; with NetworkManager and the state of the LED.    *)
(*                                                                         *)
(* The queue is one flag here (RunQueue has its races).  Time is abstract: *)
(* due says whether next_wifi_retry_ms_ has passed, and any tick but the   *)
(* first may find that the pattern of Success or Error is over.            *)
(***************************************************************************)
EXTENDS Naturals

CONSTANTS IdleSsid, HopSsids, NoSsid,
          WIFI_FAILURES_BEFORE_SETUP,
          MaxDrops            \* bound on the times the network drops the device

Ssids == {IdleSsid} \cup HopSsids

ConnectivityAssumption ==
  /\ IdleSsid \notin HopSsids /\ NoSsid \notin Ssids
  /\ WIFI_FAILURES_BEFORE_SETUP \in Nat \ {0}
  /\ MaxDrops \in Nat

VARIABLES
  setupFallback,      \* Config::setupFallback, read at boot
  pc,                 \* the loop task: "tick", "body" or "run"
  in_runtime_, wifi_ready_, wifi_failures_, due,
  begun,              \* the web server is up, so requests may come
  pending,            \* sequence_pending_
  connected,          \* WiFi.isConnected()
  current_,           \* NetworkManager::current_
  led,                \* StatusLed::state_
  shown,              \* the pattern on the pin since the last tick
  drops,              \* how often the network has dropped the device
  streak              \* history: attempts failed since the last success

netVars == <<connected, current_>>
wifiVars == <<setupFallback, in_runtime_, wifi_ready_, wifi_failures_, due, begun>>
vars == <<pc, wifiVars, pending, netVars, led, shown, drops, streak>>

Init ==
  /\ setupFallback \in BOOLEAN
  /\ pc = "tick"
  /\ in_runtime_ = TRUE /\ wifi_ready_ = FALSE /\ wifi_failures_ = 0 /\ due = TRUE
  /\ begun = FALSE /\ pending = FALSE
  /\ connected = FALSE /\ current_ = NoSsid
  /\ led = "Setup" /\ shown = "none"
  /\ drops = 0 /\ streak = 0

-----------------------------------------------------------------------------
(* The environment *)

\* A handler or the scanner enqueues a request.
Enqueue ==
  /\ begun /\ ~pending
  /\ pending' = TRUE
  /\ UNCHANGED <<pc, wifiVars, netVars, led, shown, drops, streak>>

\* The access point goes away; the manager's record of the SSID stays.
Drop ==
  /\ connected /\ drops < MaxDrops
  /\ connected' = FALSE
  /\ drops' = drops + 1
  /\ UNCHANGED <<pc, wifiVars, pending, current_, led, shown, streak>>

\* The driver reconnects to the network it was last told to join.
Rejoin ==
  /\ ~connected /\ current_ # NoSsid
  /\ connected' = TRUE
  /\ UNCHANGED <<pc, wifiVars, pending, current_, led, shown, drops, streak>>

RetryFallsDue ==
  /\ ~due
  /\ due' = TRUE
  /\ UNCHANGED <<setupFallback, pc, in_runtime_, wifi_ready_, wifi_failures_, begun, pending,
                 netVars, led, shown, drops, streak>>

-----------------------------------------------------------------------------
(* NetworkManager *)

\* connect(): at once if already there, else leave, join, or give up.
Joined(ssid) == connected' = TRUE /\ current_' = ssid
GaveUp(ssid) ==
  /\ ~(current_ = ssid /\ connected)
  /\ connected' = FALSE /\ current_' = NoSsid

-----------------------------------------------------------------------------
(* loop() *)

\* led.tick(): Success and Error turn to Idle when their time is over.
Tick ==
  /\ pc = "tick"
  /\ \/ shown' = led /\ UNCHANGED led
     \/ led \in {"Success", "Error"} /\ shown = led
        /\ led' = "Idle" /\ shown' = "Idle"
  /\ pc' = "body"
  /\ UNCHANGED <<wifiVars, pending, netVars, drops, streak>>

\* Nothing to do: setup mode, waiting for a retry, or online with no request.
Rest ==
  /\ pc = "body"
  /\ \/ ~in_runtime_
     \/ ~wifi_ready_ /\ ~due
     \/ wifi_ready_ /\ connected /\ ~pending
  /\ pc' = "tick"
  /\ UNCHANGED <<wifiVars, pending, netVars, led, shown, drops, streak>>

\* Mutant: the count of failures goes on after a success.
ConnectOkKeepsCount ==
  /\ pc = "body" /\ in_runtime_ /\ ~wifi_ready_ /\ due
  /\ Joined(IdleSsid)
  /\ led' = "Idle" /\ wifi_ready_' = TRUE
  /\ begun' = TRUE /\ streak' = 0
  /\ pc' = "tick"
  /\ UNCHANGED <<setupFallback, in_runtime_, wifi_failures_, due, pending, shown, drops>>

ConnectOk ==
  /\ pc = "body" /\ in_runtime_ /\ ~wifi_ready_ /\ due
  /\ Joined(IdleSsid)
  /\ led' = "Idle" /\ wifi_ready_' = TRUE
  /\ wifi_failures_' = 0
  /\ begun' = TRUE /\ streak' = 0
  /\ pc' = "tick"
  /\ UNCHANGED <<setupFallback, in_runtime_, due, pending, shown, drops>>

\* The count is only compared with the bound, so it need not pass it.
Failures == IF wifi_failures_ < WIFI_FAILURES_BEFORE_SETUP
              THEN wifi_failures_ + 1 ELSE wifi_failures_

ConnectFail ==
  /\ pc = "body" /\ in_runtime_ /\ ~wifi_ready_ /\ due
  /\ GaveUp(IdleSsid)
  /\ wifi_failures_' = Failures
  /\ streak' = IF streak < WIFI_FAILURES_BEFORE_SETUP THEN streak + 1 ELSE streak
  /\ IF setupFallback /\ Failures >= WIFI_FAILURES_BEFORE_SETUP
       THEN in_runtime_' = FALSE /\ led' = "Setup" /\ UNCHANGED due
       ELSE led' = "Error" /\ due' = FALSE /\ UNCHANGED in_runtime_
  /\ pc' = "tick"
  /\ UNCHANGED <<setupFallback, wifi_ready_, begun, pending, shown, drops>>

\* Mutant: the loss is shown and nothing is done about it.
NoticeLossOnly ==
  /\ pc = "body" /\ in_runtime_ /\ wifi_ready_ /\ ~connected
  /\ led' = "Error"
  /\ pc' = "tick"
  /\ UNCHANGED <<wifiVars, pending, netVars, shown, drops, streak>>

NoticeLoss ==
  /\ pc = "body" /\ in_runtime_ /\ wifi_ready_ /\ ~connected
  /\ wifi_ready_' = FALSE /\ due' = FALSE /\ led' = "Error"
  /\ pc' = "tick"
  /\ UNCHANGED <<setupFallback, in_runtime_, wifi_failures_, begun, pending, netVars, shown,
                 drops, streak>>

\* A request is taken; its sequence is unknown, or runs.
Take ==
  /\ pc = "body" /\ in_runtime_ /\ wifi_ready_ /\ connected /\ pending
  /\ pending' = FALSE
  /\ \/ pc' = "tick" /\ UNCHANGED led
     \/ pc' = "run" /\ led' = "Running"
  /\ UNCHANGED <<wifiVars, netVars, shown, drops, streak>>

\* A wifi-hop block of the sequence; a failed hop ends the run.
HopOk(ssid) ==
  /\ pc = "run"
  /\ Joined(ssid)
  /\ UNCHANGED <<pc, wifiVars, pending, led, shown, drops, streak>>

\* Mutant: after a run the loop only looks whether there is a network.
AfterRunAnyNetwork ==
  IF ~connected'
    THEN wifi_ready_' = FALSE /\ due' = FALSE
    ELSE UNCHANGED <<wifi_ready_, due>>

\* Back to the idle network, unless the device is on it.
AfterRun ==
  IF ~connected' \/ current_' # IdleSsid
    THEN wifi_ready_' = FALSE /\ due' = FALSE
    ELSE UNCHANGED <<wifi_ready_, due>>

HopFail(ssid) ==
  /\ pc = "run"
  /\ GaveUp(ssid)
  /\ led' = "Error"
  /\ AfterRun
  /\ pc' = "tick"
  /\ UNCHANGED <<setupFallback, in_runtime_, wifi_failures_, begun, pending, shown, drops, streak>>

\* The run ends, well or with the failure of another block.
EndRun ==
  /\ pc = "run"
  /\ led' \in {"Success", "Error"}
  /\ UNCHANGED netVars
  /\ AfterRun
  /\ pc' = "tick"
  /\ UNCHANGED <<setupFallback, in_runtime_, wifi_failures_, begun, pending, shown, drops, streak>>

LoopStep ==
  \/ Tick \/ Rest \/ ConnectOk \/ ConnectFail \/ NoticeLoss \/ Take \/ EndRun
  \/ \E ssid \in Ssids : HopOk(ssid) \/ HopFail(ssid)

Next == LoopStep \/ Enqueue \/ Drop \/ Rejoin \/ RetryFallsDue

\* The loop goes round, time passes, a run has finitely many blocks, and the
\* idle network does not refuse the device for ever.
Fairness ==
  /\ WF_vars(LoopStep) /\ WF_vars(RetryFallsDue)
  /\ WF_vars(EndRun)
  /\ SF_vars(ConnectOk)

Spec == Init /\ [][Next]_vars /\ Fairness

-----------------------------------------------------------------------------
(* Properties *)

LedStates == {"Setup", "Idle", "Running", "Success", "Error"}

\* Every variable keeps its type.
TypeOK ==
  /\ setupFallback \in BOOLEAN
  /\ pc \in {"tick", "body", "run"}
  /\ in_runtime_ \in BOOLEAN /\ wifi_ready_ \in BOOLEAN /\ due \in BOOLEAN
  /\ wifi_failures_ \in 0..WIFI_FAILURES_BEFORE_SETUP
  /\ begun \in BOOLEAN /\ pending \in BOOLEAN /\ connected \in BOOLEAN
  /\ current_ \in Ssids \cup {NoSsid}
  /\ led \in LedStates /\ shown \in LedStates \cup {"none"}
  /\ drops \in 0..MaxDrops /\ streak \in 0..WIFI_FAILURES_BEFORE_SETUP

\* Between runs the device that holds itself ready is on the idle network, so
\* every sequence starts there and the web pages are reachable, whatever
\* networks the sequences before it have hopped to (main.cpp:269-272).
ReadyOnIdleNetwork == wifi_ready_ /\ pc # "run" => current_ = IdleSsid

\* The setup mode is entered only where the user allowed it, and only after
\* so many attempts have failed in a row (main.cpp:179-186).
FallbackIsDeserved ==
  ~in_runtime_ => setupFallback /\ streak >= WIFI_FAILURES_BEFORE_SETUP

\* A request that waits while the network is lost is taken when it is back, as
\* long as the device has not fallen back to setup.
PendingIsTaken == pending ~> (~pending \/ ~in_runtime_)
=============================================================================
