------------------------------- MODULE WsSend -------------------------------
(***************************************************************************)
(* The ws-send block (WsSendBlock.cpp): a WebSocket client of its own for  *)
(* every run, and three flags that outlive it, set by the library's        *)
(* callback.  millis() counts modulo W, and W grows no larger than it must *)
(* to tell the waits apart; a turn of a waiting loop takes 1..MaxTurn.     *)
(*                                                                         *)
(* The client and the server are external: in a turn it may deliver one    *)
(* event of a connection that opens, speaks or breaks.                     *)
(***************************************************************************)
EXTENDS Naturals

CONSTANTS W, MaxTurn,
          Timeouts, Waits,      \* timeout_ms and wait_response_ms of the block
          FlushMs               \* 80 in the code

WsAssumption ==
  /\ W \in Nat /\ MaxTurn \in 1..W - 1 /\ FlushMs \in 1..W - 1
  /\ Timeouts \subseteq 0..W - 1 /\ Waits \subseteq 0..W - 1

VARIABLES
  pc,                          \* "idle", "connect", "flush", "wait"
  now,                         \* millis()
  timeoutMs, waitMs, sent, start, until,
  g_connected, g_gotMessage, g_disconnected,
  link,                        \* ws: "closed", "open", "lost" (not yet noticed)
  opened,                      \* history: ws has been connected in this run
  heard,                       \* history: it has brought a message
  spent,                       \* history: time in this wait, at most 2 * W
  result                       \* what the last run has returned

flags == <<g_connected, g_gotMessage, g_disconnected>>
params == <<timeoutMs, waitMs>>
vars == <<pc, now, params, sent, start, until, flags, link, opened, heard, spent, result>>

Init ==
  /\ pc = "idle" /\ now = 0
  /\ timeoutMs = 0 /\ waitMs = 0 /\ sent = FALSE /\ start = 0 /\ until = 0
  /\ g_connected = FALSE /\ g_gotMessage = FALSE /\ g_disconnected = FALSE
  /\ link = "closed" /\ opened = FALSE /\ heard = FALSE /\ spent = 0 /\ result = "none"

\* t - start in uint32_t.
Elapsed(t, t0) == IF t0 <= t THEN t - t0 ELSE t + W - t0

\* millis() + ms in uint32_t.
End(ms) == (now + ms) % W

-----------------------------------------------------------------------------

\* Time passes between two runs.
Idle ==
  /\ pc = "idle"
  /\ now' = (now + 1) % W
  /\ UNCHANGED <<pc, params, sent, start, until, flags, link, opened, heard, spent, result>>

\* Wi-Fi is down, or the URL is none.
Refuse ==
  /\ pc = "idle"
  /\ result' = "failed"
  /\ UNCHANGED <<pc, now, params, sent, start, until, flags, link, opened, heard, spent>>

Reset == g_connected' = FALSE /\ g_gotMessage' = FALSE /\ g_disconnected' = FALSE

Begin(t, w) ==
  /\ pc = "idle" /\ pc' = "connect"
  /\ timeoutMs' = t /\ waitMs' = w /\ sent' = FALSE
  /\ Reset
  /\ link' = "closed" /\ opened' = FALSE /\ heard' = FALSE
  /\ start' = now /\ spent' = 0
  /\ UNCHANGED <<now, until, result>>

\* What ws.loop() may find, and onEvent makes of it.
Nothing == UNCHANGED <<flags, link, opened, heard>>
Opens ==
  /\ link = "closed"
  /\ link' = "open" /\ opened' = TRUE /\ g_connected' = TRUE
  /\ UNCHANGED <<g_gotMessage, g_disconnected, heard>>
Speaks ==
  /\ link = "open"
  /\ g_gotMessage' = TRUE /\ heard' = TRUE
  /\ UNCHANGED <<g_connected, g_disconnected, link, opened>>
Breaks ==
  /\ link # "closed"
  /\ link' = "closed" /\ g_disconnected' = TRUE /\ g_connected' = FALSE
  /\ UNCHANGED <<g_gotMessage, opened, heard>>

\* The connection breaks behind the client's back.
Lose ==
  /\ link = "open"
  /\ link' = "lost"
  /\ UNCHANGED <<pc, now, params, sent, start, until, flags, opened, heard, spent, result>>

LoopOnce ==
  /\ Nothing \/ Opens \/ Speaks \/ Breaks
  /\ \E d \in 1..MaxTurn :
       /\ now' = (now + d) % W
       /\ spent' = IF spent + d < 2 * W THEN spent + d ELSE 2 * W

-----------------------------------------------------------------------------
(* Waiting for the connection *)

InTime == Elapsed(now, start) < timeoutMs

ConnectTurn ==
  /\ pc = "connect" /\ ~g_connected /\ ~g_disconnected /\ InTime
  /\ LoopOnce
  /\ UNCHANGED <<pc, params, sent, start, until, result>>

Leave(r) == pc' = "idle" /\ result' = r /\ link' = "closed"

ConnectFails ==
  /\ pc = "connect" /\ ~g_connected /\ (g_disconnected \/ ~InTime)
  /\ Leave("failed")
  /\ UNCHANGED <<now, params, sent, start, until, flags, opened, heard, spent>>

\* sendTXT: a lost connection may be noticed or not.
Send ==
  /\ pc = "connect" /\ g_connected
  /\ sent' \in CASE link = "open" -> {TRUE} [] link = "lost" -> BOOLEAN [] OTHER -> {FALSE}
  /\ pc' = "flush" /\ until' = End(FlushMs) /\ spent' = 0
  /\ UNCHANGED <<now, params, start, flags, link, opened, heard, result>>

\* Mutant: the pause goes on for the turn that finds it over.
FlushTurnLate ==
  /\ pc = "flush" /\ now <= until
  /\ LoopOnce
  /\ UNCHANGED <<pc, params, sent, start, until, result>>

FlushTurn ==
  /\ pc = "flush" /\ now < until
  /\ LoopOnce
  /\ UNCHANGED <<pc, params, sent, start, until, result>>

\* Mutant: the outcome of the send is not returned.
ReturnOk == Leave("ok")

Return == Leave(IF sent THEN "ok" ELSE "failed")

Flushed ==
  /\ pc = "flush" /\ now >= until
  /\ IF waitMs > 0
       THEN /\ pc' = "wait" /\ until' = End(waitMs) /\ spent' = 0
            /\ UNCHANGED <<link, result>>
       ELSE Return /\ UNCHANGED <<until, spent>>
  /\ UNCHANGED <<now, params, sent, start, flags, opened, heard>>

\* The loop is left after the turn that finds the connection broken.
WaitTurn ==
  /\ pc = "wait" /\ ~g_gotMessage /\ now < until
  /\ \/ LoopOnce /\ ~g_disconnected' /\ UNCHANGED <<pc, until, result>>
     \/ LoopOnce /\ g_disconnected' /\ pc' = "return" /\ UNCHANGED <<until, result>>
  /\ UNCHANGED <<params, sent, start>>

WaitOver ==
  /\ \/ pc = "wait" /\ (g_gotMessage \/ now >= until)
     \/ pc = "return"
  /\ Return
  /\ UNCHANGED <<now, params, sent, start, until, flags, opened, heard, spent>>

Next ==
  \/ Idle \/ Refuse \/ \E t \in Timeouts, w \in Waits : Begin(t, w)
  \/ Lose \/ ConnectTurn \/ ConnectFails \/ Send \/ FlushTurn \/ Flushed \/ WaitTurn \/ WaitOver

Spec == Init /\ [][Next]_vars

-----------------------------------------------------------------------------
(* Properties *)

\* Every variable keeps its type.
TypeOK ==
  /\ pc \in {"idle", "connect", "flush", "wait", "return"}
  /\ {now, start, until} \subseteq 0..W - 1 /\ spent \in 0..2 * W
  /\ timeoutMs \in Timeouts \cup {0} /\ waitMs \in Waits \cup {0}
  /\ flags \in BOOLEAN \X BOOLEAN \X BOOLEAN
  /\ sent \in BOOLEAN /\ opened \in BOOLEAN /\ heard \in BOOLEAN
  /\ link \in {"closed", "open", "lost"} /\ result \in {"none", "ok", "failed"}

\* A run that returns ok has been connected itself and has given its message
\* to its own client: no flag of an earlier run, whose client is gone, and no
\* connection that broke in between makes it say so, nor
\* does a message of another one end its wait (WsSendBlock.cpp:96-118).
OkMeansSent ==
  [][pc # "idle" /\ pc' = "idle" /\ result' = "ok" =>
       opened /\ sent /\ (g_gotMessage => heard)]_vars

\* No wait takes longer than it was asked to, and a turn of the loop: that for
\* the connection, which subtracts times, wherever millis() wraps, unless it is
\* within a turn of its whole range and a turn may step over every difference
\* that ends it; the pause after sending and the wait for a response unless their
\* end lies within a turn of the wrap, where the comparison with it misses it
\* (WsSendBlock.cpp:107-133).
WaitsAreBounded ==
  /\ pc = "connect" /\ timeoutMs + MaxTurn <= W => spent < timeoutMs + MaxTurn
  /\ until + MaxTurn <= W =>
       /\ pc = "flush" => spent < FlushMs + MaxTurn
       /\ pc = "wait" => spent < waitMs + MaxTurn
=============================================================================
