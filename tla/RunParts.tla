------------------------------ MODULE RunParts ------------------------------
(***************************************************************************)
(* The two models of a run in progress that others interfere with, side by *)
(* side: TvSession, where the connection to a TV breaks and reopens, and   *)
(* Runtime, where edits of the store meet the run.  They share no state: a *)
(* behaviour is one of either part, and the other rests in its initial     *)
(* state.                                                                  *)
(***************************************************************************)
EXTENDS TvSession, Sequences

CONSTANTS
  Parts,                                           \* the parts that behaviours are of
  Ids, NoId, Work, Bodies, Stores, MAX_CALL_DEPTH  \* of Runtime

VARIABLES part, seqs, pending, frames, touched

storeVars == <<seqs, pending, frames, touched>>

Rt == INSTANCE Runtime

ASSUME RuntimeInstance == Rt!RuntimeAssumption

PartsInit == part \in Parts /\ Init /\ Rt!Init

PartsNext ==
  \/ part = "tv" /\ Next /\ UNCHANGED <<part, storeVars>>
  \/ part = "store" /\ Rt!Next /\ UNCHANGED <<part, vars>>

\* A store at rest has no step it is bound to take.
PartsSpec == PartsInit /\ [][PartsNext]_<<part, vars, storeVars>> /\ Rt!Fairness

-----------------------------------------------------------------------------
(* Properties of both, and those of Runtime *)

\* The variables of both parts keep their types.
PartsTypeOK == TypeOK /\ Rt!TypeOK

\* As long as nothing it is in the middle of is replaced or deleted, the
\* buffers a run goes through live (Runtime).
FramesLive == Rt!FramesLive

\* A run ends, whatever is edited meanwhile (Runtime).
RunEnds == Rt!RunEnds

\* The sequence builder's design (4.1): a broken sequence refuses to run.
BrokenNeverRuns == Rt!BrokenNeverRuns
=============================================================================
