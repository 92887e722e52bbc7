----------------------------- MODULE ClockParts -----------------------------
(***************************************************************************)
(* The three models about times read from millis(), side by side: the      *)
(* cooldown of BLE bindings (BleTrigger), the waits of the ws-send block   *)
(* (WsSend), the LED and the Wi-Fi retry (LoopTimers).  Each has a clock   *)
(* of its own width.  They share no state: a behaviour is one of one part, *)
(* and the others rest in an initial state.                                *)
(***************************************************************************)
EXTENDS BleTrigger

CONSTANTS
  Parts,                                   \* the parts that behaviours are of
  WsW, WsTurn, Timeouts, Waits, FlushMs,   \* of WsSend
  LoopW, LoopTurn,                         \* of LoopTimers
  SUCCESS_MS, ERROR_MS, WIFI_RETRY_BACKOFF_MS, LOSS_MS

VARIABLES
  part,
  pc, wsNow, timeoutMs, waitMs, sent, start, until,
  g_connected, g_gotMessage, g_disconnected, link, opened, heard, spent, result,
  ticking, loopNow, state_, entered_, state_entered_at_, on,
  wifi_ready_, next_wifi_retry_ms_, age, tried, owed

wsVars == <<pc, wsNow, timeoutMs, waitMs, sent, start, until, g_connected, g_gotMessage,
            g_disconnected, link, opened, heard, spent, result>>
loopVars == <<ticking, loopNow, state_, entered_, state_entered_at_, on,
              wifi_ready_, next_wifi_retry_ms_, age, tried, owed>>

Ws == INSTANCE WsSend WITH now <- wsNow, W <- WsW, MaxTurn <- WsTurn
Timers == INSTANCE LoopTimers WITH now <- loopNow, W <- LoopW, MaxTurn <- LoopTurn

ASSUME WsInstance == Ws!WsAssumption
ASSUME TimersInstance == Timers!TimerAssumption

PartsInit == part \in Parts /\ Init /\ Ws!Init /\ Timers!Init

PartsNext ==
  \/ part = "ble" /\ Next /\ UNCHANGED <<part, wsVars, loopVars>>
  \/ part = "ws" /\ Ws!Next /\ UNCHANGED <<part, vars, loopVars>>
  \/ part = "loop" /\ Timers!Next /\ UNCHANGED <<part, vars, wsVars>>

PartsSpec == PartsInit /\ [][PartsNext]_<<part, vars, wsVars, loopVars>>

-----------------------------------------------------------------------------
(* Properties of all parts, and those of WsSend *)

\* The variables of all parts keep their types.
PartsTypeOK == TypeOK /\ Ws!TypeOK /\ Timers!TypeOK

\* The other waits are kept too, except just before the wrap (WsSend).
WaitsAreBounded == Ws!WaitsAreBounded

\* A run that returns ok has sent its message over its connection (WsSend).
OkMeansSent == Ws!OkMeansSent

-----------------------------------------------------------------------------
(* The properties of LoopTimers *)

\* No tick ends it sooner (LoopTimers).
PatternLasts == Timers!PatternLasts

\* The Wi-Fi retry waits for its time and no longer, except around the wrap
\* (LoopTimers).
RetryWaits == Timers!RetryWaits
=============================================================================
