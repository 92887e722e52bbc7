-------------------------- MODULE MCTriggerManager --------------------------
(***************************************************************************)
(* An instance of WebParts for TLC: two binding ids and two paths or MACs  *)
(* for TriggerManager; two paths, two sequences and lists of up to two     *)
(* bindings for BindingStore; two networks with a password each and one    *)
(* token for ConfigStore.                                                  *)
(***************************************************************************)
EXTENDS WebParts, TLC

CONSTANTS x, y, p, q, none

-----------------------------------------------------------------------------
(* TriggerManager *)

B(id, type, target) == [id |-> id, type |-> type, enabled |-> TRUE, target |-> target]
Off(b) == [b EXCEPT !.enabled = FALSE]

Singles == {B(i, t, m) : i \in {x, y}, t \in {"http-route", "ble-mac"}, m \in {p, q}}

\* Every list of one binding, of two with different ids, none, a disabled one,
\* one of an unknown type and one without its target.
MCLists ==
  {<<>>} \cup {<<b>> : b \in Singles}
    \cup {<<b, c>> : b \in {d \in Singles : d.id = x}, c \in {d \in Singles : d.id = y}}
    \cup {<<Off(B(x, "http-route", p)), B(y, "ble-mac", q)>>,
          <<B(x, "unknown", p), B(y, "http-route", q)>>,
          <<B(x, "ble-mac", none), B(y, "http-route", none)>>}

\* One http-route binding and one of ble-mac, on and off.
MCFewLists == {<<>>, <<B(x, "http-route", p)>>, <<B(x, "http-route", q)>>,
               <<B(y, "http-route", p)>>, <<B(y, "ble-mac", p)>>, <<B(x, "http-route", p), B(y, "ble-mac", p)>>}

-----------------------------------------------------------------------------
(* BindingStore: lists under ids the client was given, or none; a list with *)
(* the long path is not saved                                              *)

MCStream == <<"r1", "r2">>
MCEntries == [id : {"r1", "d", "none"}, path : {"/trigger", "/p"}, to : {"example"}]
MCPaired == {[id |-> "none", path |-> "/p", to |-> "example"],
             [id |-> "r1", path |-> "/trigger", to |-> "s1"],
             [id |-> "r1", path |-> "/long", to |-> "example"]}
MCUploads == {<<>>} \cup {<<a>> : a \in MCEntries \cup MCPaired} \cup {<<a, b>> : a, b \in MCPaired}

-----------------------------------------------------------------------------

MCInit == PartsInit /\ (part # "manager" => trigs = <<B(x, "http-route", p)>>)

MCSpec == MCInit /\ [][PartsNext]_<<part, vars, bindingVars, configVars>>
=============================================================================
