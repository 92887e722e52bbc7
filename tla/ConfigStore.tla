---------------------------- MODULE ConfigStore ----------------------------
(***************************************************************************)
(* The bootstrap configuration: Config.cpp, ConfigForm::applySave, the     *)
(* handlers /save, /reset and /setup of both modes, the token a run saves  *)
(* (SamsungTizenKeysBlock.cpp:66) and setup(), which picks the mode.       *)
(*                                                                         *)
(* The web server's task and the loop task share the configuration in      *)
(* memory and one Preferences object.  begin() on an object that is open   *)
(* and any put on one that is closed do nothing, and nobody looks at their *)
(* results.  Every put is one write to NVS; power may fail before any.     *)
(***************************************************************************)
EXTENDS Naturals, Sequences

CONSTANTS Ssids, Passes, Tokens,
          Empty,              \* the empty string
          Torn                \* what a string reads as while it is assigned

ConfigAssumption ==
  {Empty, Torn} \cap (Ssids \cup Passes \cup Tokens) = {} /\ Empty # Torn

Forms == [ssid : Ssids \cup {Empty}, pass : Passes \cup {Empty}, fb : BOOLEAN]
Configs == [ssid : Ssids \cup {Empty, Torn}, pass : Passes \cup {Empty, Torn},
            tok : Tokens \cup {Empty}, fb : BOOLEAN]
NoForm == [ssid |-> Empty, pass |-> Empty, fb |-> FALSE]
Blank == [ssid |-> Empty, pass |-> Empty, tok |-> Empty, fb |-> FALSE]

VARIABLES
  mode,       \* "setup" or "runtime"
  cfg,        \* the configuration in memory
  nvs, force, \* NVS: the four keys of save(), and forceSetup
  open,       \* the Preferences object is open
  at, k,      \* where each task is, and the key it writes next
  form,       \* the form the web server's task is handling
  asked,      \* history: the credentials the last form asked for, and those
              \* in NVS before it
  harmed      \* history: two tasks have met in the store, or a save over
              \* complete credentials was cut off between its writes

vars == <<mode, cfg, nvs, force, open, at, k, form, asked, harmed>>

Tasks == {"web", "loop"}
InStore(t) == at[t] \in {"assign", "save", "clear", "force"}
Other(t) == CHOOSE u \in Tasks : u # t
Enter(t, op) ==
  /\ at[t] = "rest" /\ at' = [at EXCEPT ![t] = op] /\ k' = [k EXCEPT ![t] = 0]
  /\ harmed' = (harmed \/ InStore(Other(t)))
Leave(t, op) == at' = [at EXCEPT ![t] = op] /\ UNCHANGED k

\* Mutant: the name of the network is enough for the runtime mode.
hasAllSsid(c) == c.ssid # Empty

hasAll(c) == c.ssid # Empty /\ c.pass # Empty

Init ==
  /\ mode = "setup" /\ cfg = Blank /\ nvs = Blank /\ force = FALSE
  /\ open = FALSE /\ at = [t \in Tasks |-> "rest"] /\ k = [t \in Tasks |-> 0]
  /\ form = NoForm
  /\ asked = {<<Empty, Empty>>} /\ harmed = FALSE

-----------------------------------------------------------------------------
(* Config: begin(), a write per step, end() *)

SavedKeys == <<"ssid", "pass", "tok", "fb">>

Begin(t) ==
  /\ at[t] \in {"save", "clear", "force"} /\ k[t] = 0
  /\ open' = TRUE /\ k' = [k EXCEPT ![t] = 1]
  /\ UNCHANGED <<mode, cfg, nvs, force, at, form, asked, harmed>>

Put(t) ==
  /\ at[t] = "save" /\ k[t] \in DOMAIN SavedKeys
  /\ nvs' = IF open THEN [nvs EXCEPT ![SavedKeys[k[t]]] = cfg[SavedKeys[k[t]]]] ELSE nvs
  /\ k' = [k EXCEPT ![t] = @ + 1]
  /\ UNCHANGED <<mode, cfg, force, open, at, form, asked, harmed>>

EndSave(t) ==
  /\ at[t] = "save" /\ k[t] > Len(SavedKeys)
  /\ open' = FALSE
  /\ Leave(t, IF t = "web" THEN "saved" ELSE "rest")
  /\ UNCHANGED <<mode, cfg, nvs, force, form, asked, harmed>>

\* Config::clear; the configuration in memory stays as it is.
Clear ==
  /\ at["web"] = "clear" /\ k["web"] = 1
  /\ nvs' = IF open THEN Blank ELSE nvs
  /\ force' = (force /\ ~open)
  /\ open' = FALSE
  /\ Leave("web", "cleared")
  /\ UNCHANGED <<mode, cfg, form, asked, harmed>>

\* Config::requestSetupOnNextBoot.
Force ==
  /\ at["web"] = "force" /\ k["web"] = 1
  /\ force' = (force \/ open)
  /\ open' = FALSE
  /\ Leave("web", "forced")
  /\ UNCHANGED <<mode, cfg, nvs, form, asked, harmed>>

-----------------------------------------------------------------------------
(* The handlers and the run *)

\* applySave assigns the fields of cfg one after the other ...
PostSave(f) ==
  /\ Enter("web", "assign")
  /\ form' = f
  /\ cfg' = [cfg EXCEPT !.ssid = Torn, !.pass = IF f.pass = Empty THEN @ ELSE Torn]
  /\ asked' = {<<nvs.ssid, nvs.pass>>,
                <<f.ssid, IF f.pass = Empty THEN cfg.pass ELSE f.pass>>}
  /\ UNCHANGED <<mode, nvs, force, open>>

\* ... and calls save(); an empty password keeps the one it has.
Assigned ==
  /\ at["web"] = "assign"
  /\ cfg' = [cfg EXCEPT !.ssid = form.ssid, !.fb = form.fb,
                        !.pass = IF form.pass = Empty THEN @ ELSE form.pass]
  /\ Leave("web", "save")
  /\ form' = NoForm
  /\ UNCHANGED <<mode, nvs, force, open, asked, harmed>>

PostReset ==
  /\ Enter("web", "clear")
  /\ UNCHANGED <<mode, cfg, nvs, force, open, form, asked>>

PostSetup ==
  /\ mode = "runtime"
  /\ Enter("web", "force")
  /\ UNCHANGED <<mode, cfg, nvs, force, open, form, asked>>

\* A TV sends a new token during a run.
NewToken(t) ==
  /\ mode = "runtime" /\ t # cfg.tok
  /\ Enter("loop", "save")
  /\ cfg' = [cfg EXCEPT !.tok = t]
  /\ UNCHANGED <<mode, nvs, force, open, form, asked>>

-----------------------------------------------------------------------------
(* setup() *)

Cut(t) == at[t] = "save" /\ k[t] \in 2..Len(SavedKeys) /\ Empty \notin {nvs.ssid, nvs.pass}

\* load(), and the mode; nobody calls consumeSetupRequest.
Boot ==
  /\ cfg' = nvs
  /\ mode' = IF hasAll(nvs) THEN "runtime" ELSE "setup"
  /\ open' = FALSE /\ at' = [t \in Tasks |-> "rest"] /\ k' = [t \in Tasks |-> 0]
  /\ form' = NoForm
  /\ UNCHANGED <<nvs, force, asked>>

\* ESP.restart() at the end of a handler: the loop task is stopped wherever it is.
Reboot ==
  /\ at["web"] \in {"saved", "cleared", "forced"}
  /\ Boot
  /\ harmed' = (harmed \/ Cut("loop"))

PowerLoss ==
  /\ Boot
  /\ harmed' = (harmed \/ \E t \in Tasks : Cut(t))

Next ==
  \/ \E t \in Tasks : Begin(t) \/ Put(t) \/ EndSave(t)
  \/ Clear \/ Force \/ Assigned \/ PostReset \/ PostSetup
  \/ \E f \in Forms : PostSave(f)
  \/ \E t \in Tokens : NewToken(t)
  \/ Reboot \/ PowerLoss

Spec == Init /\ [][Next]_vars

-----------------------------------------------------------------------------
(* Properties *)

\* Every variable keeps its type.
TypeOK ==
  /\ mode \in {"setup", "runtime"}
  /\ cfg \in Configs /\ nvs \in Configs
  /\ force \in BOOLEAN /\ open \in BOOLEAN /\ harmed \in BOOLEAN
  /\ at \in [Tasks -> {"rest", "assign", "save", "clear", "force", "saved", "cleared", "forced"}]
  /\ k \in [Tasks -> 0..Len(SavedKeys) + 1]
  /\ form \in Forms

\* The device boots into the runtime mode only with a name and a password that
\* belong together: the first setup may be cut off at any write (the mode asks
\* for both), and so may a reset, unless a save over complete credentials was
\* cut off or cut across (Config.cpp:25-32, main.cpp:221).
CredsBelongTogether ==
  mode = "runtime" /\ ~harmed /\ at["web"] # "assign" => <<cfg.ssid, cfg.pass>> \in asked

-----------------------------------------------------------------------------
(* What the repository says *)

\* The answer to POST /setup: "entering setup mode - rebooting".
SetupRequestHonoured == [][Reboot /\ at["web"] = "forced" => mode' = "setup"]_vars
=============================================================================
