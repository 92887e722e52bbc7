------------------------------ MODULE MCLoop ------------------------------
(***************************************************************************)
(* An instance of LoopParts for TLC: the web server's task, the BLE host   *)
(* task and the loop task; the idle network and one to hop to.             *)
(***************************************************************************)
EXTENDS LoopParts

\* setupFallback is looked at by the last part alone.
MCInit == PartsInit /\ (part # "wifi" => ~setupFallback)

MCSpec ==
  /\ MCInit /\ [][PartsNext]_<<part, vars, oneVars, wifiVars>>
  /\ Fairness /\ One!Fairness /\ (part = "wifi" => Wifi!Fairness)
=============================================================================
