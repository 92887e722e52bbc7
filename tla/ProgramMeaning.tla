--------------------------- MODULE ProgramMeaning ---------------------------
(***************************************************************************)
(* What running a sequence means, by structure: what a list of nodes does  *)
(* follows from what its head and tail do, without stacks, iterators or    *)
(* frames.  The recursion goes down into nested lists and through calls;   *)
(* it is stated by its equations: Meaning and Again are any operators that *)
(* satisfy MeaningAssumption.  There are such operators, as lists nest     *)
(* finitely and a call adds to the sequences inside of which it is.        *)
(***************************************************************************)
EXTENDS Interpreter

CONSTANTS
  Lists,                  \* the lists of nodes in a store, and their tails
  Meaning(_, _, _, _),    \* the outcome of a list: Meaning(w, list, scope, inside)
  Again(_, _, _, _, _)    \* that of k rounds of a body: Again(w, body, k, scope, inside)

\* A store and the outcomes of blocks and predicates.
Worlds == [program : Programs, env : [Names -> BOOLEAN]]

\* The blocks that were run, with the value they saw, and the success.
Outcomes == [ran : Seq(Names \X (Values \cup {Unset})), ok : BOOLEAN]

Nothing(ok) == [ran |-> <<>>, ok |-> ok]
FollowedBy(first, rest) ==
  IF first.ok THEN [ran |-> first.ran \o rest.ran, ok |-> rest.ok] ELSE first

\* A node, in the scope of a sequence and inside the sequences in progress, when
\* List and Rounds are what lists and repeats mean.
NodeOf(w, n, scope, inside, List(_, _, _, _), Rounds(_, _, _, _, _)) ==
  LET value == IF n.ref THEN scope ELSE n.arg
      callee == w.program[n.to]
      callable == /\ n.to \notin inside /\ n.to \in DOMAIN w.program
                  /\ ~callee.broken /\ Cardinality(inside) < MAX_CALL_DEPTH
  IN  CASE n.disabled \/ n.type = "divider" -> Nothing(TRUE)
        [] ~n.disabled /\ n.type # "divider" ->
             IF n.type = "unknown" \/ (n.ref /\ scope = Unset) THEN Nothing(FALSE)
             ELSE CASE n.type = "block" -> [ran |-> << <<n.name, value>> >>, ok |-> w.env[n.name]]
                    [] n.type = "if" ->
                         List(w, IF w.env[n.name] THEN n.then ELSE n.else, scope, inside)
                    [] n.type = "repeat" -> Rounds(w, n.body, n.count, scope, inside)
                    [] n.type = "call-sequence" ->
                         IF ~callable THEN Nothing(FALSE)
                         ELSE List(w, callee.nodes,
                                   IF value = Unset THEN callee.default ELSE value,
                                   inside \cup {n.to})

NodeMeaning(w, n, scope, inside) == NodeOf(w, n, scope, inside, Meaning, Again)

\* The lists are those of the store, those nested in them, and the tails of each.
ListsOf(p) ==
  /\ \A id \in DOMAIN p : p[id].nodes \in Lists[p]
  /\ \A list \in Lists[p] :
       /\ list \in Seq(Nodes)
       /\ list # <<>> =>
            /\ Tail(list) \in Lists[p]
            /\ Head(list).type = "if" => {Head(list).then, Head(list).else} \subseteq Lists[p]
            /\ Head(list).type = "repeat" => Head(list).body \in Lists[p]

\* The equations, for the places a run can be at.
IsMeaning(w, scope, inside) ==
  \A list \in Lists[w.program] :
    /\ Meaning(w, list, scope, inside) \in Outcomes
    /\ Meaning(w, list, scope, inside) =
         IF list = <<>> THEN Nothing(TRUE)
         ELSE FollowedBy(NodeMeaning(w, Head(list), scope, inside),
                         Meaning(w, Tail(list), scope, inside))
    /\ list # <<>> /\ Head(list).type = "repeat" =>
         \A k \in 0..Head(list).count :
           /\ Again(w, Head(list).body, k, scope, inside) \in Outcomes
           /\ Again(w, Head(list).body, k, scope, inside) =
                IF k = 0 THEN Nothing(TRUE)
                ELSE FollowedBy(Meaning(w, Head(list).body, scope, inside),
                                Again(w, Head(list).body, k - 1, scope, inside))

ASSUME MeaningAssumption ==
  /\ \A p \in Programs : ListsOf(p)
  /\ \A w \in Worlds, scope \in Values \cup {Unset} :
       \A inside \in SUBSET DOMAIN w.program :
         IsFiniteSet(inside) => IsMeaning(w, scope, inside)

-----------------------------------------------------------------------------

World == [program |-> program, env |-> env]

\* What the run in hand should come to.
Expected ==
  LET s == program[root.id]
  IN  Meaning(World, s.nodes, IF root.arg = Unset THEN s.default ELSE root.arg, {root.id})

\* When a run ends it has executed the blocks its sequence means, in order and
\* with the values they should see, and it reports success exactly if they all
\* succeeded: leaving a call restores the caller's scope and place
\* (Interpreter.cpp:36-126).
RunsAsMeant ==
  status \in {"ok", "failed"} => Expected = [ran |-> trace, ok |-> status = "ok"]
=============================================================================
