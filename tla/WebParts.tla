------------------------------ MODULE WebParts ------------------------------
(***************************************************************************)
(* The models of what clients set through the web server, side by side:    *)
(* which bindings are bound (TriggerManager), and what a restart brings    *)
(* back of them (BindingStore) and of the configuration (ConfigStore).     *)
(* They share no state: a behaviour is one of one part, and the others     *)
(* rest in an initial state.                                               *)
(***************************************************************************)
EXTENDS TriggerManager

CONSTANTS
  Parts,                                   \* the parts that behaviours are of
  SeqIds, Default, Paths, DefaultPath,     \* of BindingStore
  NoId, DefaultId, Stream,
  Uploads, LongPaths,                      \* its Lists, and those not saved
  Ssids, Passes, Tokens, Empty, Torn       \* of ConfigStore

VARIABLES
  part,
  seqs, ts_, nvsSeqs, nvsTriggers, drawn, g_active, pc, upload, changed,
  mode, cfg, nvs, force, open, at, writes, form, asked, harmed

bindingVars == <<seqs, ts_, nvsSeqs, nvsTriggers, drawn, g_active, pc, upload, changed>>
configVars == <<mode, cfg, nvs, force, open, at, writes, form, asked, harmed>>

Store == INSTANCE BindingStore WITH Lists <- Uploads, edited <- changed
Conf == INSTANCE ConfigStore WITH k <- writes

ASSUME StoreInstance == Store!BindingAssumption
ASSUME ConfInstance == Conf!ConfigAssumption

PartsInit == part \in Parts /\ Init /\ Store!Init /\ Conf!Init

PartsNext ==
  \/ part = "manager" /\ Next /\ UNCHANGED <<part, bindingVars, configVars>>
  \/ part = "bindings" /\ Store!Next /\ UNCHANGED <<part, vars, configVars>>
  \/ part = "config" /\ Conf!Next /\ UNCHANGED <<part, vars, bindingVars>>

PartsSpec == PartsInit /\ [][PartsNext]_<<part, vars, bindingVars, configVars>>

-----------------------------------------------------------------------------
(* Properties of all parts, and those of BindingStore *)

\* The variables of all parts keep their types.
PartsTypeOK == TypeOK /\ Store!TypeOK /\ Conf!TypeOK

\* A device nobody has edited answers at the default path (BindingStore).
FreshDeviceWorks == Store!FreshDeviceWorks

\* What is bound is what NVS has, when it fits (BindingStore).
BoundIsSaved == Store!BoundIsSaved

-----------------------------------------------------------------------------
(* The properties of ConfigStore *)

\* A runtime boot has a name and a password that belong together (ConfigStore).
CredsBelongTogether == Conf!CredsBelongTogether

\* The answer to POST /setup: "entering setup mode - rebooting" (ConfigStore).
SetupRequestHonoured == Conf!SetupRequestHonoured
=============================================================================
