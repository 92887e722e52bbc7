----------------------------- MODULE LoopTimers -----------------------------
(***************************************************************************)
(* The two timers of the loop task: StatusLed (StatusLed.cpp), which       *)
(* subtracts times, and the retry of tryConnectIdle (main.cpp:171), which  *)
(* compares them.  Connectivity has the states around them with abstract   *)
(* time; here millis() counts modulo W, and what the loop does between two *)
(* ticks takes 1..MaxTurn.                                                 *)
(***************************************************************************)
EXTENDS Naturals

CONSTANTS W, MaxTurn,
          SUCCESS_MS, ERROR_MS,             \* 2000 and 600 in StatusLed
          WIFI_RETRY_BACKOFF_MS, LOSS_MS    \* 15000 and 1000 in main.cpp

TimerAssumption ==
  /\ W \in Nat /\ MaxTurn \in 1..W - 1
  /\ {SUCCESS_MS, ERROR_MS, WIFI_RETRY_BACKOFF_MS, LOSS_MS} \subseteq 1..W - MaxTurn

VARIABLES
  ticking,                        \* the loop is at led.tick()
  now,                            \* millis()
  state_, entered_, state_entered_at_,
  on,                             \* the LED is lit (last_written_)
  wifi_ready_, next_wifi_retry_ms_,
  age,                            \* history: time since the first tick in this
                                  \* state, at most W
  tried, owed                     \* history: time since Wi-Fi was last lost or
                                  \* not joined, at most W, and the wait set then

led == <<state_, entered_, state_entered_at_, on, age>>
vars == <<ticking, now, led, wifi_ready_, next_wifi_retry_ms_, tried, owed>>

Init ==
  /\ ticking = TRUE /\ now \in 0..W - 1
  /\ state_ = "Setup" /\ entered_ = FALSE /\ state_entered_at_ = 0 /\ on = FALSE
  /\ wifi_ready_ = FALSE /\ next_wifi_retry_ms_ = 0
  /\ age = 0 /\ tried = W /\ owed = 0

Capped(t) == IF t < W THEN t ELSE W

\* now_ms - state_entered_at_ in uint32_t, of the anchor the tick sets.
Elapsed == IF ~entered_ THEN 0
           ELSE IF state_entered_at_ <= now THEN now - state_entered_at_
                                            ELSE now + W - state_entered_at_

Over == \/ state_ = "Success" /\ Elapsed >= SUCCESS_MS
        \/ state_ = "Error" /\ Elapsed >= ERROR_MS

\* Mutant: a tick anchors a state it finds at 0.
AnchorAtZero == IF entered_ THEN state_entered_at_ ELSE 0

Anchor == IF entered_ /\ ~Over THEN state_entered_at_ ELSE now

\* Whether the patterns that end are lit: Success all the time, Error in the
\* first, third and fifth of six parts.
Lit(state, t) ==
  CASE state = "Success" -> {t < SUCCESS_MS}
    [] state = "Error" -> {((t * 6) \div ERROR_MS) % 2 = 0 /\ t < ERROR_MS}
    [] OTHER -> BOOLEAN

Tick ==
  /\ ticking /\ ticking' = FALSE
  /\ entered_' = TRUE
  /\ state_entered_at_' = Anchor
  /\ IF Over THEN /\ state_' = "Idle" /\ age' = 0
                  /\ on' \in BOOLEAN
             ELSE /\ age' = IF entered_ THEN age ELSE 0
                  /\ on' \in Lit(state_, Elapsed)
                  /\ UNCHANGED state_
  /\ UNCHANGED <<now, wifi_ready_, next_wifi_retry_ms_, tried, owed>>

-----------------------------------------------------------------------------
(* The rest of a turn of loop() *)

setState(s) ==
  /\ state_' = s /\ entered_' = FALSE /\ state_entered_at_' = 0 /\ age' = 0
  /\ UNCHANGED on

\* The turn takes d; what happens in it happens at its end.
Turn(d) ==
  /\ ~ticking /\ ticking' = TRUE
  /\ now' = (now + d) % W

\* Mutant: the sum is kept whole.
AfterWide(ms) == now' + ms

\* millis() + ms in an unsigned long.
After(ms) == (now' + ms) % W

Rest(d) ==
  /\ Turn(d)
  /\ age' = Capped(age + d) /\ tried' = Capped(tried + d)
  /\ wifi_ready_ \/ now < next_wifi_retry_ms_
  /\ UNCHANGED <<state_, entered_, state_entered_at_, on, wifi_ready_, next_wifi_retry_ms_, owed>>

\* Mutant: the time of the next attempt is not looked at.
DueAlways == ~wifi_ready_

\* tryConnectIdle, when the retry is due.
Due == ~wifi_ready_ /\ ~(now < next_wifi_retry_ms_)

ConnectOk(d) ==
  /\ Due /\ Turn(d)
  /\ wifi_ready_' = TRUE /\ setState("Idle")
  /\ tried' = Capped(tried + d)
  /\ UNCHANGED <<next_wifi_retry_ms_, owed>>

ConnectFail(d) ==
  /\ Due /\ Turn(d)
  /\ setState("Error")
  /\ next_wifi_retry_ms_' = After(WIFI_RETRY_BACKOFF_MS)
  /\ tried' = 0 /\ owed' = WIFI_RETRY_BACKOFF_MS
  /\ UNCHANGED wifi_ready_

\* Wi-Fi is lost, or a run ends off the idle network.
NoticeLoss(d) ==
  /\ wifi_ready_ /\ Turn(d)
  /\ wifi_ready_' = FALSE
  /\ setState("Error") \/ setState("Success")
  /\ next_wifi_retry_ms_' = After(LOSS_MS)
  /\ tried' = 0 /\ owed' = LOSS_MS

\* A run, which shows Running and then how it went.
Run(d) ==
  /\ wifi_ready_ /\ Turn(d)
  /\ setState("Error") \/ setState("Success")
  /\ tried' = Capped(tried + d)
  /\ UNCHANGED <<wifi_ready_, next_wifi_retry_ms_, owed>>

Next == Tick \/ \E d \in 1..MaxTurn :
                  Rest(d) \/ ConnectOk(d) \/ ConnectFail(d) \/ NoticeLoss(d) \/ Run(d)

Spec == Init /\ [][Next]_vars

-----------------------------------------------------------------------------
(* Properties *)

\* Every variable keeps its type.
TypeOK ==
  /\ ticking \in BOOLEAN /\ entered_ \in BOOLEAN /\ on \in BOOLEAN /\ wifi_ready_ \in BOOLEAN
  /\ {now, state_entered_at_, next_wifi_retry_ms_} \subseteq 0..W - 1
  /\ state_ \in {"Setup", "Idle", "Success", "Error"}
  /\ {age, tried} \subseteq 0..W /\ owed \in {0, LOSS_MS, WIFI_RETRY_BACKOFF_MS}

Length == IF state_ = "Success" THEN SUCCESS_MS ELSE ERROR_MS

\* The first tick after its time ends the pattern of a result and none does so
\* before, however late the first tick in that state came and wherever millis()
\* wraps: the LED is not red or green for a turn of the clock (StatusLed.cpp:47-70).
PatternLasts ==
  [][Tick /\ state_ \in {"Success", "Error"} => (state_' = "Idle" <=> age >= Length)]_vars

\* The end of the wait lies before the wrap of millis(), and so does the turn that
\* finds it over.
OnTime == owed <= next_wifi_retry_ms_ /\ next_wifi_retry_ms_ + MaxTurn <= W

\* After an attempt that failed no turn makes another until the backoff is over,
\* and after a loss none until the short wait is; the first turn after it does
\* (main.cpp:171).  Around the wrap this fails either way: an end that lies past
\* it is over at once, and one just before it may be for a turn of the clock.
RetryWaits ==
  [][~wifi_ready_ /\ OnTime =>
       \A d \in 1..MaxTurn : /\ ConnectOk(d) \/ ConnectFail(d) => tried >= owed
                             /\ Rest(d) => tried < owed]_vars
=============================================================================
