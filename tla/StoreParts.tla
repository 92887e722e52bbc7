----------------------------- MODULE StoreParts -----------------------------
(***************************************************************************)
(* The model of the store of sequences (SequenceStore) and that of what    *)
(* the parameters of one of them stand for (ParamFlow), side by side.      *)
(* They share no state: a behaviour is one of either part, and the other   *)
(* rests in an initial state.                                              *)
(***************************************************************************)
EXTENDS SequenceStore

CONSTANTS
  Parts,                                   \* the parts that behaviours are of
  Versions,                                \* ParamFlow's Sequence
  Callee, Queries, Edits, Arguments, Tokens, IntOf, Yes, No

VARIABLES part, seq, args, page, pending, last

paramVars == <<seq, args, page, pending, last>>

Params == INSTANCE ParamFlow WITH Sequence <- Versions

ASSUME ParamsInstance == Params!ParamAssumption

PartsInit == part \in Parts /\ Init /\ Params!Init

PartsNext ==
  \/ part = "store" /\ Next /\ UNCHANGED <<part, paramVars>>
  \/ part = "params" /\ Params!Next /\ UNCHANGED <<part, vars>>

PartsSpec == PartsInit /\ [][PartsNext]_<<part, vars, paramVars>>

-----------------------------------------------------------------------------
(* Properties of both, and those of ParamFlow *)

\* The variables of both parts keep their types.
PartsTypeOK == TypeOK /\ Params!TypeOK

\* The query, the binding and the defaults apply in this order (ParamFlow).
Precedence == Params!Precedence

\* A text handed on to a block arrives as it was given (ParamFlow).
PassedOnWhole == Params!PassedOnWhole
=============================================================================
