----------------------------- MODULE LoopParts -----------------------------
(***************************************************************************)
(* The models of the loop task, side by side: the queue it shares with two *)
(* other tasks (RunQueue), the same queue when, as the comment on it       *)
(* assumes, one thread runs at a time, and what loop() does with Wi-Fi     *)
(* (Connectivity).  They share no state: a behaviour is one of one part,   *)
(* and the others rest in their initial states.                            *)
(***************************************************************************)
EXTENDS RunQueue

CONSTANTS
  Parts,                                  \* the parts that behaviours are of
  OneCalls,                               \* MaxCalls of the queue on one thread
  IdleSsid, HopSsids, NoSsid,             \* of Connectivity
  WIFI_FAILURES_BEFORE_SETUP, MaxDrops

VARIABLES
  part,
  pc1, call1, calls1, pending1, id1, args1, sid1, running1, raised1, runs1, overlapped1,
  where, setupFallback, in_runtime_, wifi_ready_, wifi_failures_, due, begun,
  pending, connected, current_, led, shown, drops, streak

oneVars == <<pc1, call1, calls1, pending1, id1, args1, sid1, running1, raised1, runs1, overlapped1>>
wifiVars == <<where, setupFallback, in_runtime_, wifi_ready_, wifi_failures_, due, begun,
              pending, connected, current_, led, shown, drops, streak>>

One == INSTANCE RunQueue WITH
  pc <- pc1, call <- call1, calls <- calls1, sequence_pending_ <- pending1,
  pending_seq_id_ <- id1, pending_args_ <- args1, sid <- sid1, running_ <- running1,
  raised <- raised1, runs <- runs1, overlapped <- overlapped1,
  MaxCalls <- OneCalls, Preemptive <- FALSE

Wifi == INSTANCE Connectivity WITH pc <- where

ASSUME OneInstance == OneCalls \in Nat /\ Torn \notin 0..OneCalls
ASSUME WifiInstance == Wifi!ConnectivityAssumption

PartsInit == part \in Parts /\ Init /\ One!Init /\ Wifi!Init

PartsNext ==
  \/ part = "tasks" /\ Next /\ UNCHANGED <<part, oneVars, wifiVars>>
  \/ part = "thread" /\ One!Next /\ UNCHANGED <<part, vars, wifiVars>>
  \/ part = "wifi" /\ Wifi!Next /\ UNCHANGED <<part, vars, oneVars>>

\* A queue at rest has no step it is bound to take.
PartsSpec ==
  /\ PartsInit /\ [][PartsNext]_<<part, vars, oneVars, wifiVars>>
  /\ Fairness /\ One!Fairness /\ (part = "wifi" => Wifi!Fairness)

-----------------------------------------------------------------------------
(* The properties of the queue on one thread *)

\* On one thread the queue keeps the promise of OneDeepQueue, liveness
\* included (RunQueue).
OneThreadKeepsPromise == One!KeepsPromise

-----------------------------------------------------------------------------
(* The properties of Connectivity *)

\* Between runs a ready device is on the idle network (Connectivity).
ReadyOnIdleNetwork == Wifi!ReadyOnIdleNetwork

\* Setup mode is entered after enough failures in a row, where allowed
\* (Connectivity).
FallbackIsDeserved == Wifi!FallbackIsDeserved

\* A waiting request is taken when the network is back (Connectivity).
PendingIsTaken == Wifi!PendingIsTaken
=============================================================================
