--------------------------- MODULE OneDeepQueue ---------------------------
(***************************************************************************)
(* What the run queue of main.cpp promises to its callers: a single slot   *)
(* that holds one whole request (an id together with its own arguments),   *)
(* taken by the loop exactly once, while a request that finds the slot     *)
(* full is turned away.                                                    *)
(***************************************************************************)
EXTENDS Naturals

CONSTANT Calls              \* the calls of enqueueRun, named by number

VARIABLES slot,             \* the request waiting, or Nothing
          active,           \* the request being executed, or Nothing
          submitted         \* the calls whose request has entered the slot

absVars == <<slot, active, submitted>>

Nothing == [id |-> 0, args |-> 0]

\* The request call k may make: its id with its own arguments, or with none.
RequestsOf(k) == {[id |-> k, args |-> k], [id |-> k, args |-> 0]}

AbsInit == slot = Nothing /\ active = Nothing /\ submitted = {}

Submit(k) ==
  /\ slot = Nothing
  /\ k \notin submitted
  /\ slot' \in RequestsOf(k)
  /\ submitted' = submitted \cup {k}
  /\ UNCHANGED active

Start ==
  /\ slot # Nothing /\ active = Nothing
  /\ active' = slot
  /\ slot' = Nothing
  /\ UNCHANGED submitted

\* The sequence the request names is not in the store.
Discard ==
  /\ slot # Nothing /\ active = Nothing
  /\ slot' = Nothing
  /\ UNCHANGED <<active, submitted>>

Finish ==
  /\ active # Nothing
  /\ active' = Nothing
  /\ UNCHANGED <<slot, submitted>>

AbsNext == (\E k \in Calls : Submit(k)) \/ Start \/ Discard \/ Finish

AbsSpec == /\ AbsInit /\ [][AbsNext]_absVars
           /\ WF_absVars(Start \/ Discard)
           /\ WF_absVars(Finish)
=============================================================================
