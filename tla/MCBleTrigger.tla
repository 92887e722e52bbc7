---------------------------- MODULE MCBleTrigger ----------------------------
(***************************************************************************)
(* An instance of ClockParts for TLC: two bindings to one MAC and one to   *)
(* another, and clocks that wrap soon.  LoopTimers starts at any time, for *)
(* its own behaviours only.                                                *)
(***************************************************************************)
EXTENDS ClockParts, TLC

CONSTANTS m1, m2

MCMacOf == 1 :> m1 @@ 2 :> m1 @@ 3 :> m2

MCInit == PartsInit /\ (part # "loop" => loopNow = 0)

MCSpec == MCInit /\ [][PartsNext]_<<part, vars, wsVars, loopVars>>
=============================================================================
