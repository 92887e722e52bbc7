----------------------------- MODULE BleTrigger -----------------------------
(***************************************************************************)
(* BleMacTrigger.cpp: bindings to the MAC of a controller, each with a     *)
(* cooldown.  onHit walks through g_active in the BLE host task, while the *)
(* web server's task binds and unbinds (TriggerManager says in which       *)
(* order); the map has no lock.                                            *)
(*                                                                         *)
(* millis() counts modulo W.  Ids are numbers in the order of the map.  A  *)
(* walk takes no time that a cooldown could tell; a walk that stands at a  *)
(* binding which is erased is undefined: it ends, goes on behind any       *)
(* binding, or the program crashes.                                        *)
(***************************************************************************)
EXTENDS Naturals, FiniteSets, Functions

CONSTANTS N,            \* ids are 1..N
          Macs, NoMac, MacOf,  \* MacOf[id]: the MAC of its binding
          W, Cooldown

ASSUME BleAssumption ==
  /\ N \in Nat /\ W \in Nat /\ Cooldown \in 1..W - 1
  /\ MacOf \in [1..N -> Macs] /\ NoMac \notin Macs

Ids == 1..N
Off == 0                \* no walk; ids start at 1

VARIABLES
  now,                  \* millis()
  g_active,             \* id -> lastFireMs
  at, mac, hitNow,      \* onHit: the binding it stands at, its locals
  due,                  \* history: the ids this walk has still to fire
  since,                \* history: time since the id last fired, at most W
  anew                  \* history: ids bound anew (or booted) since they last fired

walk == <<at, mac, hitNow, due>>
vars == <<now, g_active, walk, since, anew>>

Init ==
  /\ now = 0 /\ g_active = <<>>
  /\ at = Off /\ mac = NoMac /\ hitNow = 0 /\ due = {}
  /\ since = [id \in Ids |-> W] /\ anew = Ids

\* t - start in uint32_t.
Elapsed(t, start) == IF start <= t THEN t - start ELSE t + W - start

\* Mutant: times are compared as numbers.
CoolingAbsolute(id) == hitNow < g_active[id] + Cooldown

Cooling(id) == Elapsed(hitNow, g_active[id]) < Cooldown

\* The binding after id in the map, or the end.
After(id) == LET rest == {i \in DOMAIN g_active : i > id}
             IN IF rest = {} THEN Off ELSE CHOOSE i \in rest : \A j \in rest : i <= j

-----------------------------------------------------------------------------

Tick ==
  /\ at = Off
  /\ now' = IF now = W - 1 THEN 0 ELSE now + 1
  /\ since' = [id \in Ids |-> IF since[id] < W THEN since[id] + 1 ELSE W]
  /\ UNCHANGED <<g_active, walk, anew>>

\* The web server's task.
Bind(id) ==
  /\ id \notin DOMAIN g_active
  /\ g_active' = [i \in DOMAIN g_active \cup {id} |-> IF i = id THEN 0 ELSE g_active[i]]
  /\ anew' = anew \cup {id}
  /\ UNCHANGED <<now, walk, since>>

Unbind(id) ==
  /\ id \in DOMAIN g_active
  /\ g_active' = Restrict(g_active, DOMAIN g_active \ {id})
  /\ due' = due \ {id}
  /\ UNCHANGED <<now, at, mac, hitNow, since, anew>>

\* The scanner has recognised a controller.
Hit(m) ==
  /\ at = Off
  /\ mac' = m /\ hitNow' = now /\ at' = After(0)
  /\ due' = {id \in DOMAIN g_active :
               MacOf[id] = m /\ Elapsed(now, g_active[id]) >= Cooldown}
  /\ UNCHANGED <<now, g_active, since, anew>>

Stays == at \in DOMAIN g_active
Matches == MacOf[at] = mac

PassBy ==
  /\ Stays /\ (~Matches \/ Cooling(at))
  /\ at' = After(at)
  /\ UNCHANGED <<now, g_active, mac, hitNow, due, since, anew>>

FireAs(last, next) ==
  /\ Stays /\ Matches /\ ~Cooling(at)
  /\ g_active' = [g_active EXCEPT ![at] = last]
  /\ at' = next
  /\ since' = [since EXCEPT ![at] = 0] /\ anew' = anew \ {at} /\ due' = due \ {at}
  /\ UNCHANGED <<now, mac, hitNow>>

\* Mutants: the time of the fire is not taken; the first binding that fires ends
\* the walk.
FireForgets == FireAs(g_active[at], After(at))
FireBreaks == FireAs(hitNow, Off)

\* lastFireMs is set, and the callback enqueues the run or drops it.
Fire == FireAs(hitNow, After(at))

Dangling ==
  /\ at # Off /\ ~Stays
  /\ due' = {}
  /\ \/ /\ at' \in {After(id) : id \in 0..N}
        /\ UNCHANGED <<now, g_active, mac, hitNow, since, anew>>
     \/ /\ now' = 0 /\ g_active' = <<>>
        /\ at' = Off /\ mac' = NoMac /\ hitNow' = 0
        /\ since' = [id \in Ids |-> W] /\ anew' = Ids

Next ==
  \/ Tick \/ PassBy \/ Fire \/ Dangling
  \/ \E id \in Ids : Bind(id) \/ Unbind(id)
  \/ \E m \in Macs : Hit(m)

Spec == Init /\ [][Next]_vars

-----------------------------------------------------------------------------
(* Properties *)

\* Every variable keeps its type.
TypeOK ==
  /\ now \in 0..W - 1 /\ hitNow \in 0..W - 1
  /\ DOMAIN g_active \subseteq Ids /\ g_active \in [DOMAIN g_active -> 0..W - 1]
  /\ at \in Ids \cup {Off} /\ mac \in Macs \cup {NoMac}
  /\ due \subseteq Ids /\ anew \subseteq Ids
  /\ since \in [Ids -> 0..W]

\* A binding that stays bound does not fire twice within its cooldown, over
\* the wrap of millis() too (BleMacTrigger.cpp:81).
FiresAreSpaced ==
  [][Fire => since[at] >= Cooldown \/ at \in anew]_vars

\* And nothing but its cooldown silences it: a hit on a binding that has fired
\* is passed over only within the cooldown (followed for one whole turn of
\* millis(), after which the same short time is lost again).
OnlyCooldownSilences ==
  [][PassBy => ~Matches \/ at \in anew \/ since[at] < Cooldown \/ since[at] = W]_vars

\* A hit reaches every binding to its MAC that has cooled down and stays bound
\* meanwhile, whatever else is bound and unbound, unless the binding the walk
\* stands at is erased (BleMacTrigger.cpp:78).
HitReachesAll == at = Off => due = {}
=============================================================================
