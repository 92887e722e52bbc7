--------------------------- MODULE MCInterpreter ---------------------------
(***************************************************************************)
(* Instances of Interpreter for TLC, with the recursion that solves the    *)
(* equations of ProgramMeaning.                                            *)
(***************************************************************************)
EXTENDS ProgramMeaning, TLC

CONSTANTS s1, s2, s3, s4, b1, b2, p1, v1, v2, unset

Blank == [type |-> "block", disabled |-> FALSE, ref |-> FALSE, arg |-> unset]
Block(n, ref) == [Blank EXCEPT !.ref = ref] @@ [name |-> n]
Divider == [Blank EXCEPT !.type = "divider"]
Unknown == [Blank EXCEPT !.type = "unknown"]
Disabled(node) == [node EXCEPT !.disabled = TRUE]
IfNode(n, then, else) ==
  [Blank EXCEPT !.type = "if"] @@ [name |-> n, then |-> then, else |-> else]
RepeatNode(n, body) == [Blank EXCEPT !.type = "repeat"] @@ [count |-> n, body |-> body]
CallNode(to, arg, ref) ==
  [Blank EXCEPT !.type = "call-sequence", !.arg = arg, !.ref = ref] @@ [to |-> to]

Sequence(nodes, default) == [nodes |-> nodes, default |-> default, broken |-> FALSE]

\* What a body is made of: each outcome of runNode, alone and nested.
Leaves == {<<Block(b1, TRUE)>>, <<Disabled(Block(b1, FALSE)), Divider, Block(b2, FALSE)>>,
           <<Unknown>>, <<>>}
CallsTo(ids) == {<<CallNode(i, a, r), Block(b1, TRUE)>> :
                   i \in ids, a \in {unset, v2}, r \in {FALSE}}
                  \cup {<<CallNode(i, unset, TRUE), Block(b2, TRUE)>> : i \in ids}
Nested(ids) ==
  {<<RepeatNode(n, <<CallNode(i, v2, FALSE), Block(b2, TRUE)>>)>> : n \in 0..2, i \in ids}
  \cup {<<IfNode(p1, <<CallNode(i, unset, TRUE)>>, <<Block(b2, FALSE)>>), Block(b1, TRUE)>> :
          i \in ids}
Bodies(ids) == Leaves \cup CallsTo(ids) \cup Nested(ids)

\* Stores of two sequences that may call each other, themselves, and s3, which
\* is missing or broken.
Pairs == {(s1 :> Sequence(x, v1)) @@ (s2 :> Sequence(y, d)) :
            x \in Bodies({s1, s2}), y \in Bodies({s1, s3}), d \in {v1, unset}}
BrokenOne == [Sequence(<<Unknown>>, unset) EXCEPT !.broken = TRUE]
Fragments == Pairs \cup {pr @@ (s3 :> BrokenOne) :
                            pr \in {q \in Pairs : q[s2].nodes \in CallsTo({s3})}}

\* Chains and circles of four sequences, for a depth bound below their length.
To(i, j) ==
  i :> Sequence(<<Block(b2, TRUE), CallNode(j, unset, TRUE), Block(b1, TRUE)>>, v1)
Chains == {To(s1, s2) @@ To(s2, s3) @@ To(s3, x) @@ To(s4, y) :
               x \in {s1, s2, s3, s4}, y \in {s1, s2, s3, s4}}

MCPrograms == Fragments \cup Chains

\* The nodes of these stores, and those one level down.
Elements(list) == {list[i] : i \in DOMAIN list}
Inner(n) == CASE n.type = "if" -> Elements(n.then) \cup Elements(n.else)
              [] n.type = "repeat" -> Elements(n.body)
              [] OTHER -> {}
OuterNodes == UNION {UNION {Elements(p[id].nodes) : id \in DOMAIN p} : p \in MCPrograms}
MCNodes == OuterNodes \cup UNION {Inner(n) : n \in OuterNodes}

\* Their lists, the lists in those, and the tails of each.
NestedIn(list) == UNION {CASE n.type = "if" -> {n.then, n.else}
                          [] n.type = "repeat" -> {n.body}
                          [] OTHER -> {} : n \in Elements(list)}
Tails(list) == {SubSeq(list, i, Len(list)) : i \in 1..Len(list) + 1}
MCLists == [p \in MCPrograms |->
              LET outer == {p[id].nodes : id \in DOMAIN p}
              IN  UNION {Tails(list) : list \in outer \cup UNION {NestedIn(list) : list \in outer}}]

\* The recursion that the equations of ProgramMeaning describe.
RECURSIVE MCMeaning(_, _, _, _), MCAgain(_, _, _, _, _)
MCMeaning(w, list, scope, inside) ==
  IF list = <<>> THEN Nothing(TRUE)
  ELSE FollowedBy(NodeOf(w, Head(list), scope, inside, MCMeaning, MCAgain),
                  MCMeaning(w, Tail(list), scope, inside))
MCAgain(w, body, k, scope, inside) ==
  IF k = 0 THEN Nothing(TRUE)
  ELSE FollowedBy(MCMeaning(w, body, scope, inside), MCAgain(w, body, k - 1, scope, inside))
=============================================================================
