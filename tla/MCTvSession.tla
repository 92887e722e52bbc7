---------------------------- MODULE MCTvSession ----------------------------
(***************************************************************************)
(* Instances for TLC of RunParts: TvSession with two TVs, and Runtime with *)
(* two sequences that may call each other.                                 *)
(***************************************************************************)
EXTENDS RunParts

MCBodies == {<<"work">>, <<"b", "work">>, <<"a">>}
S(id, body) == [id |-> id, body |-> body]
MCStores == {<<S("a", <<"b", "work">>), S("b", <<"work">>)>>, <<S("b", <<"a">>)>>}
=============================================================================
