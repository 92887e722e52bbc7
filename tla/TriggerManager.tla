--------------------------- MODULE TriggerManager ---------------------------
(***************************************************************************)
(* core/TriggerManager.cpp with its two triggers (HttpRouteTrigger,        *)
(* BleMacTrigger), and the code of main.cpp that starts the BLE scanner    *)
(* and pauses it around a run.  applyBindings runs in the web server's     *)
(* task, one binding at a time; the loop task reads anyPauses_ before and  *)
(* after a run, between any two of its steps.                              *)
(*                                                                         *)
(* A binding is its id, its type, whether it is enabled, and the path or   *)
(* MAC it listens to (NoTarget: the parameter is missing).                 *)
(***************************************************************************)
EXTENDS Naturals, Sequences, FiniteSets, Functions

CONSTANTS BindingIds, Targets, NoTarget,
          Lists,          \* the lists of bindings a client may PUT
          MaxRoutes       \* bound on the handlers ever registered

Types == {"http-route", "ble-mac", "unknown"}
Binding == [id : BindingIds, type : Types, enabled : BOOLEAN,
            target : Targets \cup {NoTarget}]

ASSUME TriggerAssumption ==
  /\ NoTarget \notin Targets
  /\ Lists \subseteq Seq(Binding)
  /\ MaxRoutes \in Nat

VARIABLES
  trigs,               \* TriggerStore: the list of bindings
  next,                \* applyBindings: the binding to bind next, 0 when done
  active_, anyPauses_, \* TriggerManager
  http, ble,           \* g_active of each trigger: id -> binding
  routes,              \* the handlers registered on the web server, in order
  loop,                \* the loop task: "offline", "idle" or "run"
  ble_started_,        \* startBle has started the scanner once
  started_,            \* BleScanner: scanning now
  begun,               \* http.begin() has been called
  edited               \* history: a PUT has met a run since scanning was set up

bindVars == <<active_, anyPauses_, http, ble, routes>>
scanVars == <<ble_started_, started_>>
vars == <<trigs, next, bindVars, loop, scanVars, begun, edited>>

-----------------------------------------------------------------------------
(* The triggers *)

Erase(map, id) == [i \in DOMAIN map \ {id} |-> map[i]]
Assign(map, id, v) == [i \in DOMAIN map \cup {id} |-> IF i = id THEN v ELSE map[i]]

Bound(type) == {id \in DOMAIN active_ : active_[id] = type}

\* Mutant: the manager forgets the bindings without unbinding the routes.
UnbindAllForgetsRoutes ==
  /\ ble' = Restrict(ble, DOMAIN ble \ Bound("ble-mac"))
  /\ active_' = <<>>
  /\ anyPauses_' = FALSE
  /\ UNCHANGED http

\* unbind of every entry of active_, by the trigger it was bound to.
UnbindAll ==
  /\ http' = Restrict(http, DOMAIN http \ Bound("http-route"))
  /\ ble' = Restrict(ble, DOMAIN ble \ Bound("ble-mac"))
  /\ active_' = <<>>
  /\ anyPauses_' = FALSE

\* A disabled binding or one of an unknown type is passed over.  bind returns
\* early without a target; the manager records the binding all the same.  A
\* route is registered anew by every bind, and never removed.
Bind(b) ==
  IF ~b.enabled \/ b.type = "unknown"
    THEN UNCHANGED bindVars
    ELSE /\ active_' = Assign(active_, b.id, b.type)
         /\ anyPauses_' = TRUE       \* the schemas of both types say so
         /\ http' = IF b.type = "http-route" /\ b.target # NoTarget
                      THEN Assign(http, b.id, b) ELSE http
         /\ ble' = IF b.type = "ble-mac" /\ b.target # NoTarget
                     THEN Assign(ble, b.id, b) ELSE ble
         /\ routes' = IF b.type = "http-route" /\ b.target # NoTarget
                        THEN Append(routes, [path |-> b.target, id |-> b.id])
                        ELSE routes

-----------------------------------------------------------------------------
(* PUT /api/triggers, in the web server's task *)

\* replaceAll and save, then applyBindings begins.
PutTriggers(list) ==
  /\ begun /\ next = 0
  /\ Len(routes) + Len(list) <= MaxRoutes
  /\ trigs' = list
  /\ next' = 1
  /\ UnbindAll
  /\ edited' = (edited \/ loop = "run")
  /\ UNCHANGED <<routes, loop, scanVars, begun>>

BindNext ==
  /\ next \in DOMAIN trigs
  /\ Bind(trigs[next])
  /\ next' = next + 1
  /\ UNCHANGED <<trigs, loop, scanVars, begun, edited>>

Applied ==
  /\ next > Len(trigs)
  /\ next' = 0
  /\ UNCHANGED <<trigs, bindVars, loop, scanVars, begun, edited>>

-----------------------------------------------------------------------------
(* The loop task *)

\* startBle: only the first time there is a ble-mac binding.
StartBle ==
  IF ble_started_ \/ DOMAIN ble = {}
    THEN UNCHANGED <<scanVars, edited>>
    ELSE ble_started_' = TRUE /\ started_' = TRUE /\ edited' = FALSE

\* Wi-Fi connects.  The first time, startRuntimeHttp applies the bindings of
\* the store (in this task: next goes through the list) before http.begin().
FirstConnect ==
  /\ loop = "offline" /\ ~begun /\ next = 0
  /\ next' = 1
  /\ UnbindAll
  /\ UNCHANGED <<trigs, routes, loop, scanVars, begun, edited>>

HttpBegin ==
  /\ loop = "offline" /\ ~begun /\ next > Len(trigs)
  /\ begun' = TRUE /\ next' = 0 /\ loop' = "idle"
  /\ StartBle
  /\ UNCHANGED <<trigs, bindVars>>

Reconnect ==
  /\ loop = "offline" /\ begun
  /\ loop' = "idle"
  /\ StartBle
  /\ UNCHANGED <<trigs, next, bindVars, begun>>

Disconnect ==
  /\ loop = "idle"
  /\ loop' = "offline"
  /\ UNCHANGED <<trigs, next, bindVars, scanVars, begun, edited>>

\* if (ble_started_ && anyPausesBleScan()) scanner.stop(), and the run.
StartRun ==
  /\ loop = "idle"
  /\ loop' = "run"
  /\ started_' = (started_ /\ ~(ble_started_ /\ anyPauses_))
  /\ edited' = (edited \/ next # 0)
  /\ UNCHANGED <<trigs, next, bindVars, ble_started_, begun>>

\* Mutant: the scanner stays off after the run.
EndRunQuiet ==
  /\ loop = "run"
  /\ loop' = "idle"
  /\ UNCHANGED <<trigs, next, bindVars, scanVars, begun, edited>>

\* if (ble_started_ && anyPausesBleScan()) scanner.start(0), when the run is over.
EndRun ==
  /\ loop = "run"
  /\ loop' = "idle"
  /\ started_' = (started_ \/ (ble_started_ /\ anyPauses_))
  /\ edited' = (edited /\ ~(ble_started_ /\ anyPauses_))
  /\ UNCHANGED <<trigs, next, bindVars, ble_started_, begun>>

-----------------------------------------------------------------------------

Init ==
  /\ trigs \in Lists \ {<<>>}      \* an empty store is seeded with defaults
  /\ next = 0 /\ active_ = <<>> /\ anyPauses_ = FALSE
  /\ http = <<>> /\ ble = <<>> /\ routes = <<>>
  /\ loop = "offline" /\ ble_started_ = FALSE /\ started_ = FALSE
  /\ begun = FALSE /\ edited = FALSE

Next ==
  \/ \E list \in Lists : PutTriggers(list)
  \/ (begun /\ Applied) \/ BindNext
  \/ FirstConnect \/ HttpBegin \/ Reconnect \/ Disconnect \/ StartRun \/ EndRun

Spec == Init /\ [][Next]_vars

-----------------------------------------------------------------------------
(* Properties *)

\* The maps of the triggers hold bindings under their own ids, and a change of
\* the list is followed to its end.
TypeOK ==
  /\ trigs \in Lists
  /\ next \in 0..Len(trigs) + 1
  /\ DOMAIN active_ \subseteq BindingIds
  /\ \A id \in DOMAIN active_ : active_[id] \in {"http-route", "ble-mac"}
  /\ anyPauses_ \in BOOLEAN /\ begun \in BOOLEAN /\ edited \in BOOLEAN
  /\ loop \in {"offline", "idle", "run"}
  /\ ble_started_ \in BOOLEAN /\ started_ \in BOOLEAN
  /\ DOMAIN http \subseteq BindingIds
  /\ \A id \in DOMAIN http : http[id] \in Binding /\ http[id].id = id
  /\ DOMAIN ble \subseteq BindingIds
  /\ \A id \in DOMAIN ble : ble[id] \in Binding /\ ble[id].id = id
  /\ routes \in Seq([path : Targets, id : BindingIds])

Entries(list) == {list[i] : i \in DOMAIN list}
Armed(type) == {b \in Entries(trigs) :
                  b.enabled /\ b.type = type /\ b.target # NoTarget}
Settled == begun /\ next = 0

\* No list a client sends uses an id twice.
UniqueIds == \A list \in Lists : \A i, j \in DOMAIN list :
                i # j => list[i].id # list[j].id

\* After any series of PUTs exactly the enabled bindings of the last list are
\* bound: unbinding by the ids of active_ leaves nothing of an earlier list
\* behind (TriggerManager.cpp:9-27), as long as ids are unique.
OnlyListedAreBound ==
  UniqueIds /\ Settled =>
    /\ {http[id] : id \in DOMAIN http} = Armed("http-route")
    /\ {ble[id] : id \in DOMAIN ble} = Armed("ble-mac")

\* A run gives the scanner back as it found it: once started, the scanner is
\* on between runs, unless the bindings were changed while a run was going on
\* (or a run began or ended while they were being applied).
ScanSurvivesRuns == loop # "run" /\ ble_started_ /\ ~edited => started_

-----------------------------------------------------------------------------
(* What the repository says *)

\* BleMacTrigger.h: the scanner is not started "when no binding needs it", so
\* it has been started when one does.
NeededMeansStarted == loop = "idle" /\ Settled /\ DOMAIN ble # {} => ble_started_

\* The handler that answers a path, among those registered for it by this list
\* and all the lists before: the web server asks its handlers in the order in
\* which they were registered, and the first that matches answers.
HandlersOf(path) == {i \in DOMAIN routes : routes[i].path = path}
Picked(path) == CHOOSE i \in HandlersOf(path) : \A j \in HandlersOf(path) : i <= j

\* HttpRouteTrigger::unbind: re-binding a path "works because handler insertion
\* order favors latest entries".  So a POST to the path of a bound route is
\* answered by a binding to that path, never "binding gone" or by another path's.
RouteReachesBinding ==
  UniqueIds /\ Settled =>
    \A b \in Armed("http-route") :
      /\ HandlersOf(b.target) # {}
      /\ routes[Picked(b.target)].id \in DOMAIN http
      /\ http[routes[Picked(b.target)].id].target = b.target
=============================================================================
