----------------------------- MODULE ParamFlow -----------------------------
(***************************************************************************)
(* How the value of a parameter gets from where it is given (the default   *)
(* of the sequence, the arguments of a binding, the query of a request) to *)
(* the block that uses it: QueryCoerce.cpp, buildScope of Interpreter.cpp, *)
(* ResolveParams.cpp, and the arguments form of web/triggers.html.  The    *)
(* sequence and the binding change between any two of these steps; a run   *)
(* is one step here (Interpreter and Runtime take it apart).               *)
(*                                                                         *)
(* A text is a sequence of tokens; the code looks for "begin", which is    *)
(* "${", for "end", a closing brace, and for "comma".  A JSON value is a   *)
(* record of its type and content:                                         *)
(*   [is |-> "text", v |-> tokens]     [is |-> "int", v |-> n]             *)
(*   [is |-> "bool", v |-> b]          [is |-> "list", v |-> texts]        *)
(*   [is |-> "tree", v |-> [places -> values]]                             *)
(* where a tree is an object or an array, however deep, by the places of   *)
(* its innermost values; a list of texts has a form of its own because it  *)
(* is a type of parameter.  A field of a node, or a place of one that is a *)
(* tree, may also be [is |-> "param", v |-> name], which is the object     *)
(* {"$param": name}.                                                       *)
(***************************************************************************)
EXTENDS Integers, Sequences, SequencesExt

CONSTANTS
  Sequence,    \* the versions of the sequence: [params, nodes]
  Callee,      \* the sequence its call-sequence nodes call
  Queries,     \* the queries of requests: sequences of <<key, text>>
  Edits,       \* what a user types into the form: <<key, value>>
  Arguments,   \* the arguments of POST /api/run
  Tokens,      \* what texts consist of; a key is one of them
  IntOf,       \* the number a token reads as, of those that do
  Yes, No      \* the tokens that read as true and as false

ParamTypes == {"string", "mac", "stringlist", "int", "bool", "enum", "predicate"}
None == [is |-> "none"]

IsText(v) == v \in Seq(Tokens)
ValueKinds == {"text", "int", "bool", "list", "tree"}
IsValue(v) ==
  /\ v.is \in ValueKinds /\ v = [is |-> v.is, v |-> v.v]
  /\ \/ v.is = "text" /\ IsText(v.v)
     \/ v.is = "int" /\ v.v \in Int
     \/ v.is = "bool" /\ v.v \in BOOLEAN
     \/ v.is = "list" /\ v.v \in Seq(Seq(Tokens))
     \/ v.is = "tree" /\ \A p \in DOMAIN v.v : v.v[p].is \in ValueKinds

IsLeaf(f) == \/ f.is \in {"text", "int", "bool"} /\ IsValue(f)
             \/ f.is = "param" /\ f.v \in Tokens
IsField(f) == IsLeaf(f) \/ (f.is = "tree" /\ \A p \in DOMAIN f.v : IsLeaf(f.v[p]))

IsParam(p) ==
  /\ p.key \in Tokens /\ p.type \in ParamTypes
  /\ p.default = None \/ IsValue(p.default)
  /\ p.type = "enum" => IsText(p.enum)
IsNode(n) ==
  /\ n.is = "block" \/ (n.is = "call" /\ n.key \in Tokens)
  /\ IsField(n.field)
IsList(s) == s \in Seq(Range(s))

\* Keys of params may repeat: no decoder refuses that.
ParamAssumption ==
  /\ {"comma", "[", "]", "quote", "true", "false", "number", "json"}
       \subseteq Tokens
  /\ DOMAIN IntOf \subseteq Tokens /\ Range(IntOf) \subseteq Int
  /\ \A s \in Sequence \cup {Callee} :
       /\ IsList(s.params) /\ \A p \in Range(s.params) : IsParam(p)
       /\ IsList(s.nodes) /\ \A n \in Range(s.nodes) : IsNode(n)
  /\ \A n \in Range(Callee.nodes) : n.is = "block"
  /\ Queries \subseteq Seq(Tokens \X Seq(Tokens))
  /\ \A e \in Edits : IsValue(e[2])
  /\ \A given \in Arguments : \A k \in DOMAIN given : IsValue(given[k])

VARIABLES
  seq,       \* the sequence as the store has it
  args,      \* the arguments of its http-route binding
  page,      \* the form: what it has loaded and edited, <<>> when closed
  pending,   \* the queue: <<>> or <<the request>>
  last       \* history: <<the run>> in the step after it, <<>> otherwise

vars == <<seq, args, page, pending, last>>

Text(v) == [is |-> "text", v |-> v]
Init == /\ seq \in Sequence /\ args = <<>>
        /\ page = <<>> /\ pending = <<>> /\ last = <<>>

-----------------------------------------------------------------------------
(* coerceQueryArgs *)

Overlay(over, under) == [k \in DOMAIN over \cup DOMAIN under |->
                           IF k \in DOMAIN over THEN over[k] ELSE under[k]]

\* Of several definitions of a key the last one with a default counts.
WithDefault(params) == {i \in DOMAIN params : params[i].default # None}
DefaultsOf(params) ==
  [k \in {params[i].key : i \in WithDefault(params)} |->
     params[Max({i \in WithDefault(params) : params[i].key = k})].default]

\* The texts between the commas.
Split(text) ==
  LET from[i \in 1..Len(text) + 1] ==
        LET j == SelectInSubSeq(text, i, Len(text), LAMBDA tok : tok = "comma")
        IN  IF j = 0 THEN <<SubSeq(text, i, Len(text))>>
            ELSE <<SubSeq(text, i, j - 1)>> \o from[j + 1]
  IN  from[1]

\* A text read as the type of the parameter; None is a 400.
Coerce(p, text) ==
  CASE p.type \in {"string", "mac"} -> Text(text)
    [] p.type = "stringlist" -> [is |-> "list", v |-> Split(text)]
    [] p.type = "int" -> IF Len(text) = 1 /\ text[1] \in DOMAIN IntOf
                           THEN [is |-> "int", v |-> IntOf[text[1]]] ELSE None
    [] p.type = "bool" -> IF Len(text) = 1 /\ text[1] \in Yes \cup No
                            THEN [is |-> "bool", v |-> text[1] \in Yes] ELSE None
    [] p.type = "enum" -> IF text \in Range(Split(p.enum)) THEN Text(text) ELSE None

\* The first value of a key in the query (q.emplace).
Asked(query, key) == SelectInSeq(query, LAMBDA kv : kv[1] = key)
Given(query, params) ==
  {i \in DOMAIN params : params[i].type # "predicate" /\ Asked(query, params[i].key) # 0}
Read(query, p) == Coerce(p, query[Asked(query, p.key)][2])

Overrides(query, params) ==
  [k \in {params[i].key : i \in Given(query, params)} |->
     Read(query, params[Max({i \in Given(query, params) : params[i].key = k})])]

\* Mutant: the binding's arguments have the last word.
coerceBindingLast(bound, params, query) ==
  Overlay(bound, Overlay(Overrides(query, params), DefaultsOf(params)))

coerceQueryArgs(bound, params, query) ==
  Overlay(Overrides(query, params), Overlay(bound, DefaultsOf(params)))

-----------------------------------------------------------------------------
(* resolveParams *)

Joined(list) ==
  LET from[i \in DOMAIN list] ==
        IF i = Len(list) THEN list[i] ELSE list[i] \o <<"comma">> \o from[i + 1]
  IN  IF list = <<>> THEN <<>> ELSE from[1]

\* A list as serializeJson writes it (no text here needs escapes); of other
\* values it writes only that it did is kept.
Json(list) == <<"[">> \o Joined([i \in DOMAIN list |-> <<"quote">> \o list[i] \o <<"quote">>])
                \o <<"]">>

Digits(n) == IF \E t \in DOMAIN IntOf : IntOf[t] = n
               THEN <<CHOOSE t \in DOMAIN IntOf : IntOf[t] = n>> ELSE <<"number">>

Stringified(value) ==
  CASE value.is = "text" -> value.v
    [] value.is = "bool" -> <<IF value.v THEN "true" ELSE "false">>
    [] value.is = "int" -> Digits(value.v)
    [] value.is = "list" -> Json(value.v)
    [] value.is = "tree" -> <<"json">>

\* The name of a reference is what stands between its begin and the next end; a
\* begin that nothing closes is text.
Closing(text, i) == SelectInSubSeq(text, i + 1, Len(text), LAMBDA tok : tok = "end")
Name(text, i) == SubSeq(text, i + 1, Closing(text, i) - 1)
IsReference(text, i) == text[i] = "begin" /\ Closing(text, i) # 0
Known(text, i, scope) == Len(Name(text, i)) = 1 /\ Name(text, i)[1] \in DOMAIN scope

\* The text from position i on, with the references replaced; None when one is
\* unknown.
interpolate(text, scope) ==
  LET join(head, tail) == IF tail = None THEN None ELSE Text(head \o tail.v)
      from[i \in 1..Len(text) + 1] ==
        IF i > Len(text) THEN Text(<<>>)
        ELSE IF ~IsReference(text, i) THEN join(<<text[i]>>, from[i + 1])
        ELSE IF ~Known(text, i, scope) THEN None
        ELSE join(Stringified(scope[Name(text, i)[1]]), from[Closing(text, i) + 1])
  IN  from[1]

\* Mutant: what a reference stands for is searched for references again.
resolveAgain(leaf, scope) ==
  IF leaf.is = "param"
    THEN IF leaf.v \in DOMAIN scope THEN scope[leaf.v] ELSE None
  ELSE IF leaf.is = "text"
    THEN LET once == interpolate(leaf.v, scope)
         IN  IF once = None THEN None ELSE interpolate(once.v, scope)
  ELSE leaf

\* The whole value for {"$param": name}, with its type; a text with its
\* references replaced; anything else as it is.  None is "unknown param".
resolveLeaf(leaf, scope) ==
  IF leaf.is = "param"
    THEN IF leaf.v \in DOMAIN scope THEN scope[leaf.v] ELSE None
  ELSE IF leaf.is = "text" THEN interpolate(leaf.v, scope)
  ELSE leaf

\* Of an object or an array, every place; the first that fails fails the whole.
resolveInto(field, scope) ==
  LET found == [p \in DOMAIN field.v |-> resolveLeaf(field.v[p], scope)] IN
  IF field.is # "tree" THEN resolveLeaf(field, scope)
  ELSE IF \E p \in DOMAIN found : found[p] = None THEN None
  ELSE [is |-> "tree", v |-> found]

-----------------------------------------------------------------------------
(* A run.  A node is a block with one field, [is |-> "block", field], or a  *)
(* call with one argument, [is |-> "call", key, field].                      *)

buildScope(s, given) == Overlay(given, DefaultsOf(s.params))

\* What comes of a list of nodes: [ok, ran], where ran is what the blocks were
\* given.  The first failure ends it.
runSlot(outcomes) ==
  LET reached == {i \in DOMAIN outcomes : \A j \in 1..i - 1 : outcomes[j].ok}
  IN  [ok |-> \A i \in DOMAIN outcomes : outcomes[i].ok,
       ran |-> UNION {outcomes[i].ran : i \in reached}]

Failed == [ok |-> FALSE, ran |-> {}]

\* A block that the node "by" of the sequence that was asked for is or calls.
RunBlock(node, scope, by) ==
  LET value == resolveInto(node.field, scope)
  IN  IF value = None THEN Failed
      ELSE [ok |-> TRUE, ran |-> {[by |-> by, field |-> node.field, value |-> value]}]

RunNode(node, scope) ==
  LET value == resolveInto(node.field, scope)
      inner == buildScope(Callee, [k \in {node.key} |-> value])
  IN  IF node.is = "block" THEN RunBlock(node, scope, node)
      ELSE IF value = None THEN Failed
      ELSE runSlot([i \in DOMAIN Callee.nodes |-> RunBlock(Callee.nodes[i], inner, node)])

runSequence(s, scope) == runSlot([i \in DOMAIN s.nodes |-> RunNode(s.nodes[i], scope)])

-----------------------------------------------------------------------------
(* Actions *)

PutSequence(s) ==
  /\ seq' = s
  /\ last' = <<>> /\ UNCHANGED <<args, page, pending>>

\* renderBindingArgs: an argument the binding lacks is filled in with the
\* default of the first definition or, when that has none, an empty text.
Filled(bound, params) ==
  LET definition(k) == params[SelectInSeq(params, LAMBDA p : p.key = k)]
  IN  Overlay(bound, [k \in {p.key : p \in Range(params)} |->
                        IF definition(k).default # None THEN definition(k).default
                        ELSE Text(<<>>)])

OpenPage ==
  /\ page' = <<[params |-> seq.params, args |-> Filled(args, seq.params)]>>
  /\ last' = <<>> /\ UNCHANGED <<seq, args, pending>>

\* The form has an input of the parameter's type for each argument.
InputType(p) == IF p.type \in {"int", "bool"} THEN p.type
                ELSE IF p.type = "stringlist" THEN "list" ELSE "text"

Type(key, value) ==
  /\ page # <<>>
  /\ \E p \in Range(page[1].params) : p.key = key /\ InputType(p) = value.is
  /\ page' = <<[page[1] EXCEPT !.args[key] = value]>>
  /\ last' = <<>> /\ UNCHANGED <<seq, args, pending>>

\* PUT /api/triggers.
SavePage ==
  /\ page # <<>>
  /\ args' = page[1].args /\ page' = <<>>
  /\ last' = <<>> /\ UNCHANGED <<seq, pending>>

\* The queue keeps the request unless it is full (enqueueRun); with it, for the
\* properties, what it was made from.
Queue(from, query, given) ==
  /\ pending' = IF pending # <<>> THEN pending
                ELSE <<[from |-> from, query |-> query, bound |-> args,
                        seq |-> seq, args |-> given]>>
  /\ last' = <<>> /\ UNCHANGED <<seq, args, page>>

Accepted(query) ==
  \A i \in Given(query, seq.params) : Read(query, seq.params[i]) # None

\* POST to the path of the binding; nothing is queued for a 400.
Request(query) ==
  /\ Accepted(query)
  /\ Queue("route", query, coerceQueryArgs(args, seq.params, query))

PostRun(given) == Queue("api", <<>>, given)

Run ==
  /\ pending # <<>> /\ pending' = <<>>
  /\ LET scope == buildScope(seq, pending[1].args)
         done == runSequence(seq, scope)
     IN  last' = <<[request |-> pending[1], seq |-> seq, scope |-> scope,
                    ok |-> done.ok, ran |-> done.ran]>>
  /\ UNCHANGED <<seq, args, page>>

Next ==
  \/ \E s \in Sequence : PutSequence(s)
  \/ OpenPage \/ (\E e \in Edits : Type(e[1], e[2])) \/ SavePage
  \/ \E query \in Queries : Request(query)
  \/ \E given \in Arguments : PostRun(given)
  \/ Run

Spec == Init /\ [][Next]_vars

-----------------------------------------------------------------------------
(* Properties *)

Valued(map) == \A k \in DOMAIN map : IsValue(map[k])

\* Arguments, scopes and what blocks get are JSON values, never an unread text
\* or an unresolved reference.
TypeOK ==
  /\ seq \in Sequence /\ Valued(args)
  /\ Len(page) <= 1
  /\ \A f \in Range(page) : Valued(f.args) /\ \E s \in Sequence : f.params = s.params
  /\ Len(pending) <= 1
  /\ \A r \in Range(pending) :
       Valued(r.args) /\ Valued(r.bound) /\ r.seq \in Sequence /\ r.query \in Queries \cup {<<>>}
  /\ Len(last) <= 1
  /\ \A r \in Range(last) : Valued(r.scope) /\ \A e \in r.ran : IsValue(e.value)

Declared(r) == Range(r.request.seq.params)

\* The query names this key, and some definition of it is one it can give.
InQuery(r, key) ==
  /\ \E i \in DOMAIN r.request.query : r.request.query[i][1] = key
  /\ \E p \in Declared(r) : p.key = key /\ p.type # "predicate"
FirstText(r, key) ==
  CHOOSE t \in {r.request.query[i][2] : i \in DOMAIN r.request.query} :
    \E i \in DOMAIN r.request.query :
      /\ r.request.query[i] = <<key, t>>
      /\ \A j \in 1..i - 1 : r.request.query[j][1] # key

\* A text reads as this value.
Reads(text, value) ==
  \/ value.is = "text" /\ value.v = text
  \/ value.is = "list" /\ Joined(value.v) = text
  \/ value.is = "int" /\ text = <<text[1]>> /\ IntOf[text[1]] = value.v
  \/ value.is = "bool" /\ text = <<text[1]>> /\ text[1] \in (IF value.v THEN Yes ELSE No)

\* Of a request by its path the query has the last word on every parameter it
\* names, then the binding; and whatever a request was made from, a parameter
\* with a default has a value: whatever has been saved between the request and
\* its run (QueryCoerce.cpp:40-114, Interpreter.cpp:22-34).
Precedence ==
  \A r \in Range(last) :
    /\ r.request.from = "route" =>
         \A p \in Declared(r) :
           IF InQuery(r, p.key)
             THEN p.key \in DOMAIN r.scope /\ Reads(FirstText(r, p.key), r.scope[p.key])
           ELSE p.key \in DOMAIN r.request.bound => r.scope[p.key] = r.request.bound[p.key]
    /\ \A p \in Range(r.seq.params) : p.default # None => p.key \in DOMAIN r.scope

\* A field that is nothing but a reference to this parameter.
Forwards(field, k) == field = [is |-> "param", v |-> k] \/ field = Text(<<"begin", k, "end">>)

\* A field with what it resolved to, or the places of it with what they did.
Leaves(field, value) ==
  IF field.is = "tree" THEN {<<field.v[p], value.v[p]>> : p \in DOMAIN field.v}
  ELSE {<<field, value>>}

\* A text handed on to a block, or through the argument of a call to a block, at
\* any place of a field, arrives as it was given, the references it may contain
\* included: values are not templates (ResolveParams.cpp:33-96).
PassedOnWhole ==
  \A r \in Range(last) : \A e \in r.ran : \A k \in DOMAIN r.scope :
    \A leaf \in Leaves(e.field, e.value) :
      /\ r.scope[k].is = "text"
      /\ IF e.by.is = "call" THEN Forwards(e.by.field, k) /\ Forwards(leaf[1], e.by.key)
                             ELSE Forwards(leaf[1], k)
      => leaf[2] = r.scope[k]
=============================================================================
