-------------------------- MODULE MCSequenceStore --------------------------
(***************************************************************************)
(* An instance of StoreParts for TLC: of SequenceStore the default         *)
(* sequence and the first two ids newId() yields, with five bodies that    *)
(* meet every outcome of the validation; of ParamFlow one sequence in four *)
(* versions.                                                               *)
(***************************************************************************)
EXTENDS StoreParts, TLC

CONSTANTS example, first, second, none

-----------------------------------------------------------------------------
(* SequenceStore *)

Whole == [calls |-> {}, required |-> FALSE, unknownBlock |-> FALSE,
          size |-> 1, deep |-> FALSE]
Calling(target, given) == [Whole EXCEPT !.calls = {[to |-> target, args |-> given]}]

\* One is large: with it no other fits.  Another is nested too deep.
Large == [Whole EXCEPT !.required = TRUE, !.size = 2]
Deep == [Calling(first, TRUE) EXCEPT !.deep = TRUE]
MCBodies == {Whole, Large, [Whole EXCEPT !.unknownBlock = TRUE], Calling(first, FALSE), Deep}

\* With ids and without, with two alike, too large, too deep, and empty.
Entry(i, b) == [id |-> i, body |-> b]
MCUploads == {<<>>, <<Entry(first, Large)>>, <<Entry(none, Deep)>>,
              <<Entry(none, Whole), Entry(none, Calling(first, FALSE))>>,
              <<Entry(second, Calling(first, FALSE)), Entry(second, Whole)>>,
              <<Entry(first, Large), Entry(second, Deep)>>}
MCStream == <<first, second>>
MCDefaults == <<[id |-> example, body |-> Whole]>>

-----------------------------------------------------------------------------
(* ParamFlow: a parameter of each type that is read in its own way *)

None == [is |-> "none"]
Text(v) == [is |-> "text", v |-> v]
Param(key, type, default) ==
  [key |-> key, type |-> type, default |-> default, enum |-> <<"hdmi", "comma", "tv">>]
Num(n) == [is |-> "int", v |-> n]
List(texts) == [is |-> "list", v |-> texts]
Ref(k) == Text(<<"begin", k, "end">>)
ParamRef(k) == [is |-> "param", v |-> k]
Tree(places) == [is |-> "tree", v |-> places]
Block(field) == [is |-> "block", field |-> field]
Call(key, field) == [is |-> "call", key |-> key, field |-> field]

MCCallee == [params |-> <<Param("c", "string", Text(<<"blank">>))>>,
             nodes |-> <<Block(Ref("c")), Block(Tree(("0" :> ParamRef("c")) @@ ("1" :> Ref("c"))))>>]

\* The second version gives n another type, defined twice, the third has three
\* other parameters, two without a default, the last has no default for n, and
\* a key that is a predicate's and a text's.
Plain == [params |-> <<Param("n", "int", Num(1)), Param("h", "string", Text(<<"tv">>))>>,
          nodes |-> <<Block(Tree(("n" :> ParamRef("n")) @@ ("h" :> Ref("h")))),
                      Block(Text(<<"begin", "h", "end", "begin", "n", "end", "begin", "open">>)),
                      Call("c", Ref("h"))>>]
Retyped == [Plain EXCEPT !.params = <<Param("n", "string", Text(<<"1">>)),
                                      Param("n", "enum", Text(<<"tv">>)),
                                      Param("h", "string", Text(<<"tv">>))>>]
Wider == [params |-> <<Param("l", "stringlist", List(<<<<"a">>>>)),
                       Param("b", "bool", None), Param("h", "mac", None)>>,
          nodes |-> <<Block(Ref("l")), Call("c", ParamRef("h")),
                      Call("c", Tree(("l" :> ParamRef("l")) @@ ("b" :> ParamRef("b"))))>>]
Required == [Plain EXCEPT !.params = <<Param("n", "int", None), Param("p", "string", None),
                                       Param("p", "predicate", None)>>]

MCVersions == {Plain, Retyped, Wider, Required}
MCQueries == {<<>>, <<<<"n", <<"1">>>>>>, <<<<"n", <<"tv">>>>>>,
              <<<<"h", <<"begin", "n", "end">>>>, <<"h", <<"tv">>>>, <<"p", <<"x">>>>>>,
              <<<<"l", <<"a", "comma", "b">>>>, <<"b", <<"on">>>>, <<"x", <<"1">>>>>>}
MCEdits == {<<"h", Text(<<"begin", "h", "end">>)>>}
MCArguments == {<<>>, ("n" :> Num(1)) @@ ("z" :> Num(0))}
MCIntOf == ("0" :> 0) @@ ("1" :> 1)
MCTokens == {"comma", "[", "]", "quote", "true", "false", "number", "json", "begin", "end", "open", "0", "1",
             "n", "h", "c", "l", "b", "p", "x", "a", "tv", "hdmi", "blank", "on"}

-----------------------------------------------------------------------------

MCInit == PartsInit /\ (part # "params" => seq = Plain)

MCSpec == MCInit /\ [][PartsNext]_<<part, vars, paramVars>>
=============================================================================
