------------------------- MODULE StorePartsProofs --------------------------
(***************************************************************************)
(* Proofs about StoreParts: about ParamFlow, for any sequences, queries and *)
(* arguments of their types, then about SequenceStore, for any sequences,  *)
(* any stream of new ids and any capacity of NVS, and last about both.     *)
(***************************************************************************)
EXTENDS StoreParts, FiniteSetTheorems, SequenceTheorems, WellFoundedInduction, TLAPS

-----------------------------------------------------------------------------
(* ParamFlow: functions that refer to themselves further on *)

\* A set of numbers has a least one.
LEMMA LeastIn ==
  ASSUME NEW P, P \subseteq Nat, P # {}
  PROVE  Params!Min(P) \in P /\ \A k \in P : Params!Min(P) <= k
<1>1. PICK m \in P : \A k \in P : <<k, m>> \notin OpToRel(<, Nat)
  BY WFMin, NatLessThanWellFounded, Zenon
<1>2. \A k \in P : ~(k < m)
  BY <1>1, Zenon DEF OpToRel
<1>3. \A k \in P : m <= k
  BY <1>2
<1> QED BY <1>3 DEF Params!Min

\* A set of places in a list has a last one.
LEMMA GreatestIn ==
  ASSUME NEW n \in Nat, NEW P, P \subseteq 1..n, P # {}
  PROVE  \E i \in P : \A j \in i + 1..n : j \notin P
<1> DEFINE Q == {n - i : i \in P}
<1>1. Q \subseteq Nat /\ Q # {}
  <2>1. \A i \in P : n - i \in Nat
    OBVIOUS
  <2> QED BY <2>1
<1>2. PICK m \in Q : \A k \in Q : <<k, m>> \notin OpToRel(<, Nat)
  <2> HIDE DEF Q
  <2> QED BY <1>1, WFMin, NatLessThanWellFounded, Zenon
<1>3. \A k \in Q : ~(k < m)
  <2> HIDE DEF Q
  <2> QED BY <1>1, <1>2, Zenon DEF OpToRel
<1>4. PICK i \in P : m = n - i
  OBVIOUS
<1>5. ASSUME NEW j \in i + 1..n, j \in P PROVE FALSE
  <2>1. n - j \in Q /\ n - j < m
    BY <1>4, <1>5
  <2> QED BY <1>3, <2>1
<1> QED BY <1>4, <1>5

\* Max of a set of places.
LEMMA LastIn ==
  ASSUME NEW n \in Nat, NEW P, P \subseteq 1..n, P # {}
  PROVE  Params!Max(P) \in P
<1>1. PICK i \in P : \A j \in i + 1..n : j \notin P
  BY GreatestIn
<1>2. \A j \in P : i >= j
  BY <1>1
<1> QED BY <1>2 DEF Params!Max

\* A recursion over the places of a list, towards its end: the value at the last
\* place, where each place looks, and what it makes of what it finds there.
Recursion(n, S, base, next, step) ==
  /\ n \in Nat \ {0} /\ base \in S
  /\ next \in [1..n -> Nat] /\ \A i \in 1..n : i < n => next[i] \in i + 1..n
  /\ step \in [1..n -> [S -> S]]
Solves(f, n, S, base, next, step) ==
  /\ f \in [1..n -> S]
  /\ \A i \in 1..n : f[i] = IF i = n THEN base ELSE step[i][f[next[i]]]

\* It has a solution: the last place where none can begin would be one where one
\* can.
LEMMA BackwardDef ==
  ASSUME NEW n, NEW S, NEW base, NEW next, NEW step, Recursion(n, S, base, next, step)
  PROVE  \E f : Solves(f, n, S, base, next, step)
<1> USE DEF Recursion
<1> DEFINE Solved(f, m) == \A i \in m..n : f[i] = IF i = n THEN base ELSE step[i][f[next[i]]]
           Q == {m \in 1..n : ~ \E f \in [m..n -> S] : Solved(f, m)}
<1> SUFFICES Q = {}
  <2>1. Q = {} /\ 1 \in 1..n
    OBVIOUS
  <2>2. \E f \in [1..n -> S] : Solved(f, 1)
    BY <2>1, Zenon
  <2> QED BY <2>2 DEF Solves
<1>1. SUFFICES ASSUME Q # {} PROVE FALSE
  BY Zenon
<1>2. PICK m \in Q : \A j \in m + 1..n : j \notin Q
  <2>1. Q \subseteq 1..n
    OBVIOUS
  <2> HIDE DEF Q
  <2> QED BY <1>1, <2>1, GreatestIn
<1>3. m \in 1..n /\ ~ \E f \in [m..n -> S] : Solved(f, m)
  BY <1>2, Zenon
<1>4. CASE m = n
  <2> DEFINE f == [i \in m..n |-> base]
  <2>1. f \in [m..n -> S] /\ Solved(f, m)
    BY <1>3, <1>4
  <2> QED BY <1>3, <2>1, Zenon
<1>5. CASE m # n
  <2>1. m + 1 \in 1..n /\ m + 1 \in m + 1..n
    BY <1>3, <1>5
  <2>2. PICK g \in [m + 1..n -> S] : Solved(g, m + 1)
    BY <1>2, <2>1, Zenon
  <2> DEFINE f == [i \in m..n |-> IF i = m THEN step[m][g[next[m]]] ELSE g[i]]
  <2>3. next[m] \in m + 1..n /\ g[next[m]] \in S /\ step[m] \in [S -> S]
    BY <1>3, <1>5
  <2>4. f \in [m..n -> S]
    <3>1. ASSUME NEW i \in m..n PROVE f[i] \in S
      BY <1>3, <2>3, <3>1
    <3> QED BY <3>1, Zenon
  <2>5. ASSUME NEW i \in m..n
        PROVE  f[i] = IF i = n THEN base ELSE step[i][f[next[i]]]
    <3>1. CASE i = m
      <4>1. f[next[m]] = g[next[m]]
        BY <1>3, <2>3
      <4> QED BY <1>5, <3>1, <4>1
    <3>2. CASE i # m
      <4>1. i \in m + 1..n /\ f[i] = g[i]
        BY <1>3, <3>2
      <4>2. CASE i = n
        BY <2>2, <4>1, <4>2
      <4>3. CASE i # n
        <5>1. i \in 1..n /\ i < n
          BY <1>3, <4>1, <4>3
        <5>2. next[i] \in i + 1..n
          BY <5>1
        <5>3. next[i] \in m + 1..n
          BY <1>3, <4>1, <5>2
        <5>4. f[next[i]] = g[next[i]]
          BY <1>3, <5>3
        <5> QED BY <2>2, <4>1, <4>3, <5>4
      <4> QED BY <4>2, <4>3
    <3> QED BY <3>1, <3>2
  <2>6. Solved(f, m)
    BY <2>5, Zenon
  <2> HIDE DEF f, Solved
  <2> QED BY <1>3, <2>4, <2>6
<1> QED BY <1>4, <1>5

\* What holds at a place whenever it holds at all later ones holds at all.
LEMMA Backward ==
  ASSUME NEW n \in Nat, NEW P,
         \A i \in 1..n : (\A j \in i + 1..n : j \in P) => i \in P
  PROVE  1..n \subseteq P
<1> DEFINE Q == (1..n) \ P
<1>1. CASE Q = {}
  BY <1>1
<1>2. CASE Q # {}
  <2>1. Q \subseteq 1..n
    OBVIOUS
  <2>2. PICK i \in Q : \A j \in i + 1..n : j \notin Q
    <3> HIDE DEF Q
    <3> QED BY <1>2, <2>1, GreatestIn
  <2>3. \A j \in i + 1..n : j \in P
    BY <2>2
  <2> QED BY <2>2, <2>3
<1> QED BY <1>1, <1>2

-----------------------------------------------------------------------------
(* ParamFlow: texts *)

\* The first comma from a place on, 0 if there is none.
CommaFrom(text, i) == Params!SelectInSubSeq(text, i, Len(text), LAMBDA tok : tok = "comma")

\* The first comma from a place on, if any, is at or behind that place.
LEMMA CommaIs ==
  ASSUME NEW text \in Seq(Tokens), NEW i \in Nat \ {0}
  PROVE  \/ CommaFrom(text, i) = 0
         \/ CommaFrom(text, i) \in i..Len(text) /\ text[CommaFrom(text, i)] = "comma"
<1> DEFINE I == {j \in i..Len(text) : text[j] = "comma"}
<1>1. I \subseteq Nat
  <2>1. Len(text) \in Nat
    BY LenProperties
  <2>2. \A j \in i..Len(text) : j \in Nat
    BY <2>1
  <2> QED BY <2>2
<1>2. CASE I = {}
  BY <1>2 DEF CommaFrom, Params!SelectInSubSeq
<1>3. CASE I # {}
  <2>1. Params!Min(I) \in I
    BY <1>1, <1>3, LeastIn
  <2> QED BY <1>3, <2>1 DEF CommaFrom, Params!SelectInSubSeq
<1> QED BY <1>2, <1>3

\* The texts between the commas, from each place on.
LEMMA SplitIs ==
  ASSUME NEW text \in Seq(Tokens)
  PROVE  \E f \in [1..Len(text) + 1 -> Seq(Seq(Tokens))] :
           /\ Params!Split(text) = f[1]
           /\ \A i \in 1..Len(text) + 1 :
                \/ f[i] = <<SubSeq(text, i, Len(text))>>
                \/ \E j \in i..Len(text) :
                     text[j] = "comma" /\ f[i] = <<SubSeq(text, i, j - 1)>> \o f[j + 1]
<1> DEFINE n == Len(text) + 1
           S == Seq(Seq(Tokens))
           piece(i, v) == IF CommaFrom(text, i) = 0 THEN <<SubSeq(text, i, Len(text))>>
                          ELSE <<SubSeq(text, i, CommaFrom(text, i) - 1)>> \o v
           next == [i \in 1..n |-> IF CommaFrom(text, i) = 0 THEN n ELSE CommaFrom(text, i) + 1]
           step == [i \in 1..n |-> [v \in S |-> piece(i, v)]]
           from == CHOOSE f : f = [i \in 1..n |-> piece(i, f[CommaFrom(text, i) + 1])]
<1>1. Len(text) \in Nat /\ n \in Nat \ {0} /\ \A i \in 1..Len(text) : text[i] \in Tokens
  BY LenProperties, ElementOfSeq
<1>2. \A i \in 1..n : \/ CommaFrom(text, i) = 0
                      \/ /\ CommaFrom(text, i) \in i..Len(text)
                         /\ text[CommaFrom(text, i)] = "comma"
  <2>1. \A i \in 1..n : i \in Nat \ {0}
    BY <1>1
  <2> QED BY CommaIs, <2>1
<1>3. CommaFrom(text, n) = 0
  <2>1. n \in 1..n /\ \A j \in n..Len(text) : FALSE
    BY <1>1
  <2> QED BY <1>2, <2>1
<1>4. ASSUME NEW i \in 1..n, NEW v \in S PROVE piece(i, v) \in S
  <2>1. CASE CommaFrom(text, i) = 0
    <3>1. SubSeq(text, i, Len(text)) \in Seq(Tokens)
      BY <1>1, SubSeqProperties
    <3> QED BY <2>1, <3>1
  <2>2. CASE CommaFrom(text, i) # 0
    <3> DEFINE c == CommaFrom(text, i)
    <3>1. c \in i..Len(text)
      BY <1>2, <2>2
    <3> HIDE DEF c
    <3>2. SubSeq(text, i, c - 1) \in Seq(Tokens)
      BY <1>1, <3>1, SubSeqProperties
    <3>3. <<SubSeq(text, i, c - 1)>> \in S
      BY <3>2
    <3>4. <<SubSeq(text, i, c - 1)>> \o v \in S
      BY <3>3, ConcatProperties
    <3> QED BY <2>2, <3>4 DEF c
  <2> QED BY <2>1, <2>2
<1>5. \E f : f = [i \in 1..n |-> piece(i, f[CommaFrom(text, i) + 1])]
  <2>1. ASSUME NEW i \in 1..n
        PROVE  next[i] \in Nat /\ (i < n => next[i] \in i + 1..n)
    <3>1. CASE CommaFrom(text, i) = 0
      BY <1>1, <3>1
    <3>2. CASE CommaFrom(text, i) # 0
      <4> DEFINE c == CommaFrom(text, i)
      <4>1. c \in i..Len(text) /\ next[i] = c + 1
        BY <1>2, <3>2
      <4> HIDE DEF c, next
      <4> QED BY <1>1, <4>1
    <3> QED BY <3>1, <3>2
  <2>6. next \in [1..n -> Nat] /\ \A i \in 1..n : i < n => next[i] \in i + 1..n
    BY <2>1, Zenon
  <2>2. step \in [1..n -> [S -> S]]
    BY <1>4
  <2> DEFINE base == <<SubSeq(text, n, Len(text))>>
  <2>3. base \in S
    <3>1. SubSeq(text, n, Len(text)) \in Seq(Tokens)
      BY <1>1, SubSeqProperties
    <3> QED BY <3>1
  <2>4. PICK f \in [1..n -> S] :
          \A i \in 1..n : f[i] = IF i = n THEN base ELSE step[i][f[next[i]]]
    <3>1. Recursion(n, S, base, next, step)
      BY <1>1, <2>2, <2>3, <2>6 DEF Recursion
    <3> HIDE DEF next, step, base, S, n
    <3> QED BY <3>1, BackwardDef DEF Solves
  <2>5. ASSUME NEW i \in 1..n PROVE f[i] = piece(i, f[CommaFrom(text, i) + 1])
    <3>1. CASE i = n
      BY <1>3, <2>4, <3>1
    <3>2. CASE i # n
      <4>1. next[i] \in 1..n /\ f[next[i]] \in S
        BY <2>1, <1>1, <3>2
      <4>2. f[i] = piece(i, f[next[i]])
        BY <2>4, <3>2, <4>1
      <4> QED BY <4>2
    <3> QED BY <3>1, <3>2
  <2> QED BY <2>4, <2>5
<1>6. from = [i \in 1..n |-> piece(i, from[CommaFrom(text, i) + 1])]
  <2> HIDE DEF piece
  <2> QED BY <1>5
<1> HIDE DEF from
<1>7. ASSUME NEW i \in 1..n PROVE from[i] = piece(i, from[CommaFrom(text, i) + 1])
  <2> HIDE DEF piece
  <2> QED BY <1>6
<1>8. from \in [1..n -> S]
  <2> DEFINE P == {i \in 1..n : from[i] \in S}
  <2>1. ASSUME NEW i \in 1..n, \A j \in i + 1..n : j \in P
        PROVE  i \in P
    <3>1. CASE CommaFrom(text, i) = 0
      <4>1. from[i] = piece(i, <<>>) /\ <<>> \in S
        BY <1>7, <3>1, EmptySeq
      <4> HIDE DEF piece
      <4> QED BY <4>1, <1>4
    <3>2. CASE CommaFrom(text, i) # 0
      <4> DEFINE c == CommaFrom(text, i)
      <4>3. c \in i..Len(text)
        BY <1>2, <3>2
      <4>1. c + 1 \in i + 1..n
        <5> HIDE DEF c
        <5> QED BY <1>1, <4>3
      <4>2. from[CommaFrom(text, i) + 1] \in S
        BY <2>1, <4>1, Zenon
      <4> HIDE DEF piece, c
      <4> QED BY <1>4, <1>7, <4>2
    <3> QED BY <3>1, <3>2
  <2>2. 1..n \subseteq P
    <3> HIDE DEF P, n
    <3> QED BY <1>1, <2>1, Backward
  <2>3. \A i \in 1..n : from[i] \in S
    BY <2>2
  <2> QED BY <1>6, <2>3
<1>9. Params!Split(text) = from[1]
  BY DEF Params!Split, from, CommaFrom
<1>10. ASSUME NEW i \in 1..n
       PROVE  \/ from[i] = <<SubSeq(text, i, Len(text))>>
              \/ \E j \in i..Len(text) :
                   text[j] = "comma" /\ from[i] = <<SubSeq(text, i, j - 1)>> \o from[j + 1]
  BY <1>2, <1>7
<1> QED BY <1>8, <1>9, <1>10

\* The marks that the code itself puts into texts are tokens.
LEMMA Marks ==
  {"comma", "[", "]", "quote", "true", "false", "number", "json"} \subseteq Tokens
BY ParamsInstance DEF Params!ParamAssumption

\* The texts of a list joined with commas, from each place on.
Joins(f, list) ==
  /\ f \in [1..Len(list) -> Seq(Tokens)]
  /\ \A i \in 1..Len(list) :
       f[i] = IF i = Len(list) THEN list[i] ELSE list[i] \o <<"comma">> \o f[i + 1]

\* A comma is a text.
LEMMA Comma == <<"comma">> \in Seq(Tokens)
<1>1. "comma" \in Tokens
  BY Marks
<1> QED BY <1>1

\* A text, a comma and a text are a text.
LEMMA JoinStep ==
  ASSUME NEW text \in Seq(Tokens), NEW rest \in Seq(Tokens)
  PROVE  text \o <<"comma">> \o rest \in Seq(Tokens)
<1>1. text \o <<"comma">> \in Seq(Tokens)
  BY Comma, ConcatProperties
<1> QED BY <1>1, ConcatProperties

\* It does not matter which comma of a text is looked at first.
LEMMA JoinAssociative ==
  ASSUME NEW text \in Seq(Tokens), NEW rest \in Seq(Tokens)
  PROVE  text \o <<"comma">> \o rest = text \o (<<"comma">> \o rest)
<1> DEFINE comma == <<"comma">>
<1>1. comma \in Seq(Tokens)
  BY Comma
<1> HIDE DEF comma
<1>2. (text \o comma) \o rest = text \o (comma \o rest)
  BY <1>1, ConcatAssociative
<1> QED BY <1>2 DEF comma

\* Joined is the value of its recursion at the first place.
LEMMA JoinedIs ==
  ASSUME NEW list \in Seq(Seq(Tokens)), list # <<>>
  PROVE  \E f : Joins(f, list) /\ Params!Joined(list) = f[1]
<1> DEFINE n == Len(list)
           S == Seq(Tokens)
           whole(i, v) == IF i = n THEN list[i] ELSE list[i] \o <<"comma">> \o v
           next == [i \in 1..n |-> i + 1]
           step == [i \in 1..n |-> [v \in S |-> whole(i, v)]]
           from == CHOOSE f : f = [i \in DOMAIN list |-> whole(i, f[i + 1])]
<1>0. n \in Nat \ {0}
  BY EmptySeq
<1>1. n \in Nat \ {0} /\ DOMAIN list = 1..n /\ \A i \in 1..n : list[i] \in S
  BY LenProperties, ElementOfSeq, EmptySeq
<1>2. \A i \in 1..n, v \in S : whole(i, v) \in S
  BY <1>1, JoinStep
<1>3. \E f : f = [i \in DOMAIN list |-> whole(i, f[i + 1])]
  <2>1. Recursion(n, S, list[n], next, step)
    <3>1. next \in [1..n -> Nat] /\ \A i \in 1..n : i < n => next[i] \in i + 1..n
      BY <1>1
    <3>2. step \in [1..n -> [S -> S]]
      BY <1>2
    <3>3. list[n] \in S
      BY <1>1
    <3> QED BY <1>1, <3>1, <3>2, <3>3 DEF Recursion
  <2>2. PICK f : Solves(f, n, S, list[n], next, step)
    <3> HIDE DEF next, step, n, S
    <3> QED BY <2>1, BackwardDef
  <2>3. ASSUME NEW i \in 1..n PROVE f[i] = whole(i, f[i + 1])
    <3>1. CASE i = n
      BY <2>2, <3>1 DEF Solves
    <3>2. CASE i # n
      <4>1. i + 1 \in 1..n
        BY <1>0, <3>2
      <4>2. f[i + 1] \in S
        BY <2>2, <4>1 DEF Solves
      <4>3. f[i] = step[i][f[next[i]]]
        BY <2>2, <3>2 DEF Solves
      <4> QED BY <4>2, <4>3
    <3> QED BY <3>1, <3>2
  <2>4. f = [i \in 1..n |-> whole(i, f[i + 1])]
    <3> HIDE DEF whole
    <3> QED BY <2>2, <2>3 DEF Solves
  <2> QED BY <1>1, <2>4
<1>4. from = [i \in DOMAIN list |-> whole(i, from[i + 1])]
  <2> HIDE DEF whole
  <2> QED BY <1>3
<1> HIDE DEF from
<1>5. ASSUME NEW i \in 1..n PROVE from[i] = whole(i, from[i + 1])
  <2> HIDE DEF whole
  <2> QED BY <1>1, <1>4
<1>6. from \in [1..n -> S]
  <2> DEFINE P == {i \in 1..n : from[i] \in S}
  <2>1. ASSUME NEW i \in 1..n, \A j \in i + 1..n : j \in P
        PROVE  i \in P
    <3>1. CASE i = n
      BY <1>1, <1>5, <3>1
    <3>2. CASE i # n
      <4>1. i + 1 \in i + 1..n
        BY <1>0, <3>2
      <4>2. from[i + 1] \in S
        BY <2>1, <4>1
      <4> HIDE DEF whole
      <4> QED BY <1>2, <1>5, <4>2
    <3> QED BY <3>1, <3>2
  <2>2. 1..n \subseteq P
    <3> HIDE DEF P, n
    <3> QED BY <1>1, <2>1, Backward
  <2> HIDE DEF whole
  <2> QED BY <1>1, <1>4, <2>2
<1>7. Params!Joined(list) = from[1]
  BY DEF Params!Joined, from
<1> QED BY <1>5, <1>6, <1>7 DEF Joins

\* Nothing to join.
LEMMA JoinedOne ==
  ASSUME NEW text \in Seq(Tokens)
  PROVE  Params!Joined(<<text>>) = text
<1>1. <<text>> \in Seq(Seq(Tokens)) /\ <<text>> # <<>> /\ Len(<<text>>) = 1
  OBVIOUS
<1>2. PICK f : Joins(f, <<text>>) /\ Params!Joined(<<text>>) = f[1]
  BY <1>1, JoinedIs
<1> QED BY <1>1, <1>2 DEF Joins

\* A text in front of a list.
LEMMA JoinedCons ==
  ASSUME NEW text \in Seq(Tokens), NEW list \in Seq(Seq(Tokens)), list # <<>>
  PROVE  Params!Joined(<<text>> \o list) = text \o <<"comma">> \o Params!Joined(list)
<1> DEFINE all == <<text>> \o list
           n == Len(list)
<1>1. /\ n \in Nat \ {0} /\ all \in Seq(Seq(Tokens)) /\ Len(all) = n + 1 /\ all # <<>>
      /\ all[1] = text /\ \A i \in 1..n : all[i + 1] = list[i]
  <2>1. <<text>> \in Seq(Seq(Tokens)) /\ Len(<<text>>) = 1
    OBVIOUS
  <2>2. n \in Nat \ {0}
    BY EmptySeq
  <2>3. all \in Seq(Seq(Tokens)) /\ Len(all) = n + 1
        /\ \A i \in 1..n + 1 : all[i] = IF i <= 1 THEN <<text>>[i] ELSE list[i - 1]
    BY <2>1, <2>2, ConcatProperties
  <2>4. ASSUME NEW i \in 1..n PROVE all[i + 1] = list[i]
    <3>1. i + 1 \in 1..n + 1 /\ ~(i + 1 <= 1) /\ (i + 1) - 1 = i
      BY <2>2
    <3> HIDE DEF all, n
    <3> QED BY <2>3, <3>1
  <2>5. all[1] = text
    BY <2>2, <2>3
  <2> QED BY <2>2, <2>3, <2>4, <2>5
<1> HIDE DEF all
<1>2. PICK f : Joins(f, all) /\ Params!Joined(all) = f[1]
  BY <1>1, JoinedIs
<1>3. PICK g : Joins(g, list) /\ Params!Joined(list) = g[1]
  BY JoinedIs
<1> HIDE DEF n
<1>4. 1..n \subseteq {i \in 1..n : f[i + 1] = g[i]}
  <2> DEFINE P == {i \in 1..n : f[i + 1] = g[i]}
  <2>1. ASSUME NEW i \in 1..n, \A j \in i + 1..n : j \in P
        PROVE  i \in P
    <3>1. /\ f[i + 1] = IF i + 1 = n + 1 THEN list[i]
                        ELSE list[i] \o <<"comma">> \o f[(i + 1) + 1]
          /\ g[i] = IF i = n THEN list[i] ELSE list[i] \o <<"comma">> \o g[i + 1]
      <4>1. i + 1 \in 1..n + 1
        BY <1>1
      <4> QED BY <1>1, <1>2, <1>3, <4>1 DEF Joins, n
    <3>2. CASE i = n
      BY <3>1, <3>2
    <3>3. CASE i # n
      <4>1. i + 1 \in i + 1..n
        BY <1>1, <3>3
      <4>2. f[(i + 1) + 1] = g[i + 1]
        BY <2>1, <4>1
      <4>3. i + 1 # n + 1
        BY <1>1, <3>3
      <4>4. f[i + 1] = g[i]
        <5> HIDE DEF P
        <5> QED BY <3>1, <3>3, <4>2, <4>3
      <4> QED BY <4>4
    <3> QED BY <3>2, <3>3
  <2> HIDE DEF P
  <2>2. 1..n \subseteq P
    BY <1>1, <2>1, Backward
  <2> QED BY <2>2 DEF P
<1>5. f[2] = g[1]
  <2>1. 1 \in 1..n
    BY <1>1
  <2>2. f[1 + 1] = g[1]
    BY <1>4, <2>1
  <2> QED BY <2>2
<1>6. f[1] = all[1] \o <<"comma">> \o f[2]
  <2>1. 1 \in 1..n + 1 /\ 1 # n + 1
    BY <1>1
  <2>2. f[1] = all[1] \o <<"comma">> \o f[1 + 1]
    BY <1>1, <1>2, <2>1 DEF Joins
  <2> QED BY <2>2
<1> QED BY <1>1, <1>2, <1>3, <1>5, <1>6 DEF all

\* The texts between the commas, joined with commas, are the text again.
LEMMA JoinedSplit ==
  ASSUME NEW text \in Seq(Tokens)
  PROVE  /\ Params!Split(text) \in Seq(Seq(Tokens))
         /\ Params!Joined(Params!Split(text)) = text
<1> DEFINE n == Len(text)
           rest(i) == SubSeq(text, i, n)
<1>1. n \in Nat /\ \A i \in 1..n : text[i] \in Tokens
  BY LenProperties, ElementOfSeq
<1>2. PICK f \in [1..n + 1 -> Seq(Seq(Tokens))] :
        /\ Params!Split(text) = f[1]
        /\ \A i \in 1..n + 1 :
             \/ f[i] = <<rest(i)>>
             \/ \E j \in i..n :
                  text[j] = "comma" /\ f[i] = <<SubSeq(text, i, j - 1)>> \o f[j + 1]
  BY SplitIs
<1> DEFINE P == {i \in 1..n + 1 : f[i] # <<>> /\ Params!Joined(f[i]) = rest(i)}
<1>3. ASSUME NEW i \in 1..n + 1, \A j \in i + 1..n + 1 : j \in P
      PROVE  i \in P
  <2>1. CASE f[i] = <<rest(i)>>
    <3>1. rest(i) \in Seq(Tokens)
      BY <1>1, SubSeqProperties
    <3>2. Params!Joined(<<rest(i)>>) = rest(i)
      BY <3>1, JoinedOne
    <3>3. <<rest(i)>> # <<>>
      OBVIOUS
    <3> QED BY <2>1, <3>2, <3>3
  <2>2. ASSUME NEW j \in i..n, text[j] = "comma", f[i] = <<SubSeq(text, i, j - 1)>> \o f[j + 1]
        PROVE  i \in P
    <3> DEFINE front == SubSeq(text, i, j - 1)
    <3>1. j + 1 \in i + 1..n + 1 /\ j + 1 \in 1..n + 1 /\ j \in 1..n
      BY <1>1
    <3>2. /\ f[j + 1] # <<>> /\ Params!Joined(f[j + 1]) = rest(j + 1)
          /\ f[j + 1] \in Seq(Seq(Tokens))
      BY <1>2, <1>3, <3>1
    <3>3. front \in Seq(Tokens) /\ rest(j) \in Seq(Tokens) /\ rest(j + 1) \in Seq(Tokens)
      BY <1>1, SubSeqProperties
    <3>4. Params!Joined(f[i]) = front \o <<"comma">> \o rest(j + 1)
      BY <2>2, <3>2, <3>3, JoinedCons
    <3>5. rest(j) = <<"comma">> \o rest(j + 1)
      <4>1. n \in j..Len(text)
        BY <1>1
      <4> QED BY <2>2, <3>1, <4>1, SubSeqRecursiveFirst
    <3>6. front \o rest(j) = rest(i)
      <4>1. i \in 1..Len(text) + 1 /\ j - 1 \in i - 1..Len(text) /\ n \in j - 1..Len(text)
        BY <1>1
      <4>2. (j - 1) + 1 = j
        BY <1>1
      <4> QED BY <4>1, <4>2, ConcatAdjacentSubSeq
    <3>7. front \o <<"comma">> \o rest(j + 1) = front \o (<<"comma">> \o rest(j + 1))
      <4> HIDE DEF front, rest
      <4> QED BY <3>3, JoinAssociative
    <3>8. f[i] # <<>>
      <4>1. <<front>> \in Seq(Seq(Tokens)) /\ Len(<<front>>) = 1
        BY <3>3
      <4>2. Len(f[j + 1]) \in Nat
        BY <3>2, LenProperties
      <4>4. Len(<<front>> \o f[j + 1]) = 1 + Len(f[j + 1])
        <5> HIDE DEF front
        <5> QED BY <3>2, <4>1, ConcatProperties
      <4>3. Len(f[i]) # 0
        BY <2>2, <4>2, <4>4
      <4> QED BY <4>3, EmptySeq
    <3> QED BY <3>4, <3>5, <3>6, <3>7, <3>8
  <2> QED BY <1>2, <2>1, <2>2
<1>4. 1 \in P
  <2>1. 1..n + 1 \subseteq P
    <3> HIDE DEF P
    <3>1. n + 1 \in Nat
      BY <1>1
    <3> QED BY <1>3, <3>1, Backward
  <2>2. 1 \in 1..n + 1
    BY <1>1
  <2> QED BY <2>1, <2>2
<1> QED BY <1>1, <1>2, <1>4, SubSeqFull

\* What closes a reference is behind its begin.
LEMMA ClosingIs ==
  ASSUME NEW text \in Seq(Tokens), NEW i \in 1..Len(text)
  PROVE  Params!Closing(text, i) = 0 \/ Params!Closing(text, i) \in i + 1..Len(text)
<1> DEFINE I == {j \in i + 1..Len(text) : text[j] = "end"}
<1>1. I \subseteq Nat
  <2>1. Len(text) \in Nat
    BY LenProperties
  <2>2. \A j \in i + 1..Len(text) : j \in Nat
    BY <2>1
  <2> QED BY <2>2
<1>2. CASE I = {}
  BY <1>2 DEF Params!Closing, Params!SelectInSubSeq
<1>3. CASE I # {}
  <2>1. Params!Min(I) \in I
    BY <1>1, <1>3, LeastIn
  <2> QED BY <1>3, <2>1 DEF Params!Closing, Params!SelectInSubSeq
<1> QED BY <1>2, <1>3

\* A token is a text.
LEMMA OneToken ==
  ASSUME NEW t \in Tokens
  PROVE  <<t>> \in Seq(Tokens)
OBVIOUS

\* A list serializes to a text.
LEMMA JsonType ==
  ASSUME NEW list \in Seq(Seq(Tokens))
  PROVE  Params!Json(list) \in Seq(Tokens)
<1> DEFINE quoted == [i \in DOMAIN list |-> <<"quote">> \o list[i] \o <<"quote">>]
<1>1. <<"quote">> \in Seq(Tokens) /\ <<"[">> \in Seq(Tokens) /\ <<"]">> \in Seq(Tokens)
  BY Marks, OneToken
<1>2. /\ Len(list) \in Nat /\ DOMAIN list = 1..Len(list)
      /\ \A i \in 1..Len(list) : list[i] \in Seq(Tokens)
  BY LenProperties, ElementOfSeq
<1>3. \A i \in DOMAIN list : quoted[i] \in Seq(Tokens)
  <2> SUFFICES ASSUME NEW i \in DOMAIN list
               PROVE  <<"quote">> \o list[i] \o <<"quote">> \in Seq(Tokens)
    OBVIOUS
  <2>1. list[i] \in Seq(Tokens)
    BY <1>2
  <2>2. <<"quote">> \o list[i] \in Seq(Tokens)
    BY <1>1, <2>1, ConcatProperties
  <2> QED BY <1>1, <2>2, ConcatProperties
<1>4. quoted \in Seq(Seq(Tokens))
  BY <1>2, <1>3
<1>5. Params!Joined(quoted) \in Seq(Tokens)
  <2> HIDE DEF quoted
  <2>1. CASE quoted = <<>>
    <3>1. Params!Joined(quoted) = <<>>
      BY <2>1 DEF Params!Joined
    <3> QED BY <3>1, EmptySeq
  <2>2. CASE quoted # <<>>
    <3>1. PICK f : Joins(f, quoted) /\ Params!Joined(quoted) = f[1]
      BY <1>4, <2>2, JoinedIs
    <3>2. Len(quoted) \in Nat \ {0}
      BY <1>4, <2>2, EmptySeq
    <3>3. 1 \in 1..Len(quoted)
      BY <3>2
    <3> QED BY <3>1, <3>3 DEF Joins
  <2> QED BY <2>1, <2>2
<1>6. <<"[">> \o Params!Joined(quoted) \in Seq(Tokens)
  <2> HIDE DEF quoted
  <2> QED BY <1>1, <1>5, ConcatProperties
<1>7. <<"[">> \o Params!Joined(quoted) \o <<"]">> \in Seq(Tokens)
  <2> HIDE DEF quoted
  <2> QED BY <1>1, <1>6, ConcatProperties
<1> QED BY <1>7 DEF Params!Json

\* What a value is written as is a text.
LEMMA StringifiedType ==
  ASSUME NEW value, Params!IsValue(value)
  PROVE  Params!Stringified(value) \in Seq(Tokens)
<1>1. CASE value.is = "text"
  BY <1>1 DEF Params!Stringified, Params!IsValue, Params!IsText
<1>2. CASE value.is = "bool"
  <2>1. <<"true">> \in Seq(Tokens) /\ <<"false">> \in Seq(Tokens)
    BY Marks, OneToken
  <2> QED BY <1>2, <2>1 DEF Params!Stringified
<1>3. CASE value.is = "int"
  <2>1. Params!Stringified(value) = Params!Digits(value.v)
    BY <1>3 DEF Params!Stringified
  <2>2. CASE \E t \in DOMAIN IntOf : IntOf[t] = value.v
    <3> DEFINE d == CHOOSE t \in DOMAIN IntOf : IntOf[t] = value.v
    <3>1. d \in DOMAIN IntOf
      BY <2>2
    <3>2. d \in Tokens
      BY <3>1, ParamsInstance DEF Params!ParamAssumption
    <3>3. Params!Digits(value.v) = <<d>>
      BY <2>2 DEF Params!Digits
    <3> HIDE DEF d
    <3> QED BY <2>1, <3>2, <3>3, OneToken
  <2>3. CASE ~ \E t \in DOMAIN IntOf : IntOf[t] = value.v
    <3>1. Params!Digits(value.v) = <<"number">>
      BY <2>3 DEF Params!Digits
    <3> QED BY <2>1, <3>1, Marks, OneToken
  <2> QED BY <2>2, <2>3
<1>4. CASE value.is = "list"
  <2>1. Params!Stringified(value) = Params!Json(value.v) /\ value.v \in Seq(Seq(Tokens))
    BY <1>4 DEF Params!Stringified, Params!IsValue
  <2> QED BY <2>1, JsonType
<1>5. CASE value.is = "tree"
  <2>1. Params!Stringified(value) = <<"json">>
    BY <1>5 DEF Params!Stringified
  <2> QED BY <2>1, Marks, OneToken
<1> QED BY <1>1, <1>2, <1>3, <1>4, <1>5 DEF Params!IsValue

\* What comes of a text from a place on: None, or a text.
Outcomes == {Params!None} \cup {Params!Text(t) : t \in Seq(Tokens)}
Join(head, tail) == IF tail = Params!None THEN Params!None ELSE Params!Text(head \o tail.v)

\* A text in front of an outcome is an outcome, and None stays None.
LEMMA JoinType ==
  ASSUME NEW head \in Seq(Tokens), NEW tail \in Outcomes
  PROVE  /\ Join(head, tail) \in Outcomes
         /\ Join(head, tail) = Params!None <=> tail = Params!None
<1>1. CASE tail = Params!None
  BY <1>1 DEF Join, Outcomes
<1>2. CASE tail # Params!None
  <2>1. PICK t \in Seq(Tokens) : tail = Params!Text(t)
    BY <1>2 DEF Outcomes
  <2>2. head \o t \in Seq(Tokens) /\ tail.v = t
    BY <2>1, ConcatProperties DEF Params!Text
  <2>3. Join(head, tail) = Params!Text(head \o t)
    BY <1>2, <2>2 DEF Join
  <2>4. Params!Text(head \o t) # Params!None
    BY DEF Params!Text, Params!None
  <2> QED BY <1>2, <2>2, <2>3, <2>4 DEF Outcomes
<1> QED BY <1>1, <1>2

\* The values of f follow the rule of interpolate at a place.
Follows(f, text, scope, i) ==
  f[i] = IF i > Len(text) THEN Params!Text(<<>>)
         ELSE IF ~Params!IsReference(text, i) THEN Join(<<text[i]>>, f[i + 1])
         ELSE IF ~Params!Known(text, i, scope) THEN Params!None
         ELSE Join(Params!Stringified(scope[Params!Name(text, i)[1]]),
                   f[Params!Closing(text, i) + 1])

\* interpolate is the value of its recursion at the first place.
LEMMA InterpolateIs ==
  ASSUME NEW text \in Seq(Tokens), NEW scope, Params!Valued(scope)
  PROVE  \E f : /\ Params!interpolate(text, scope) = f[1]
                /\ f \in [1..Len(text) + 1 -> Outcomes]
                /\ \A i \in 1..Len(text) + 1 : Follows(f, text, scope, i)
<1> DEFINE n == Len(text) + 1
           S == Outcomes
           named(i) == scope[Params!Name(text, i)[1]]
           after(i) == IF Params!IsReference(text, i) THEN Params!Closing(text, i) + 1
                       ELSE i + 1
           head(i) == IF Params!IsReference(text, i) THEN Params!Stringified(named(i))
                      ELSE <<text[i]>>
           ends(i) == Params!IsReference(text, i) /\ ~Params!Known(text, i, scope)
           whole(i, v) == IF i > Len(text) THEN Params!Text(<<>>)
                          ELSE IF ends(i) THEN Params!None ELSE Join(head(i), v)
           rule(f, i) == IF i > Len(text) THEN Params!Text(<<>>)
                         ELSE IF ~Params!IsReference(text, i) THEN Join(<<text[i]>>, f[i + 1])
                         ELSE IF ~Params!Known(text, i, scope) THEN Params!None
                         ELSE Join(Params!Stringified(named(i)), f[Params!Closing(text, i) + 1])
           next == [i \in 1..n |-> after(i)]
           step == [i \in 1..n |-> [v \in S |-> whole(i, v)]]
           from == CHOOSE f : f = [i \in 1..n |-> rule(f, i)]
<1>1. n \in Nat \ {0} /\ Len(text) \in Nat
  BY LenProperties
<1>2. \A i \in 1..Len(text) : text[i] \in Tokens
  BY ElementOfSeq
<1>3. \A f, i : rule(f, i) = whole(i, f[after(i)])
  OBVIOUS
<1>4. ASSUME NEW i \in 1..Len(text) PROVE after(i) \in i + 1..n
  <2>1. CASE Params!IsReference(text, i)
    <3>1. Params!Closing(text, i) # 0
      BY <2>1 DEF Params!IsReference
    <3>2. Params!Closing(text, i) \in i + 1..Len(text)
      BY <3>1, ClosingIs
    <3> QED BY <1>1, <2>1, <3>2
  <2>2. CASE ~Params!IsReference(text, i)
    BY <1>1, <2>2
  <2> QED BY <2>1, <2>2
<1>5. ASSUME NEW i \in 1..Len(text), ~ends(i) PROVE head(i) \in Seq(Tokens)
  <2>1. CASE Params!IsReference(text, i)
    <3>1. Params!IsValue(named(i))
      BY <1>5, <2>1 DEF Params!Known, Params!Valued
    <3> QED BY <2>1, <3>1, StringifiedType
  <2>2. CASE ~Params!IsReference(text, i)
    BY <1>2, <2>2, OneToken
  <2> QED BY <2>1, <2>2
<1>6. ASSUME NEW i \in 1..n, NEW v, i > Len(text) \/ v \in S PROVE whole(i, v) \in S
  <2>1. CASE i > Len(text)
    BY <2>1, EmptySeq DEF Outcomes
  <2>2. CASE ~(i > Len(text)) /\ ends(i)
    BY <2>2 DEF Outcomes
  <2>3. CASE ~(i > Len(text)) /\ ~ends(i)
    <3>1. i \in 1..Len(text)
      BY <1>1, <2>3
    <3>2. head(i) \in Seq(Tokens)
      BY <1>5, <2>3, <3>1
    <3>3. whole(i, v) = Join(head(i), v)
      BY <2>3
    <3> QED BY <1>6, <2>3, <3>2, <3>3, JoinType
  <2> QED BY <2>1, <2>2, <2>3
<1> HIDE DEF rule, whole, after, S
<1>7. \E f : f = [i \in 1..n |-> rule(f, i)]
  <2> DEFINE base == Params!Text(<<>>)
  <2>1. Recursion(n, S, base, next, step)
    <3>1. base \in S
      BY EmptySeq DEF Outcomes, S
    <3>2. step \in [1..n -> [S -> S]]
      BY <1>6
    <3>3. ASSUME NEW i \in 1..n PROVE next[i] \in Nat /\ (i < n => next[i] \in i + 1..n)
      <4>1. CASE i = n
        <5>1. after(i) \in Nat
          <6>1. CASE Params!IsReference(text, i)
            <7> DEFINE I == {j \in i + 1..Len(text) : text[j] = "end"}
            <7>1. I = {}
              BY <1>1, <4>1
            <7>2. Params!Closing(text, i) = 0
              BY <7>1 DEF Params!Closing, Params!SelectInSubSeq
            <7> QED BY <7>2 DEF after
          <6>2. CASE ~Params!IsReference(text, i)
            BY <6>2, <1>1 DEF after
          <6> QED BY <6>1, <6>2
        <5> QED BY <4>1, <5>1
      <4>2. CASE i # n
        <5>1. i \in 1..Len(text)
          BY <1>1, <4>2
        <5>2. after(i) \in i + 1..n
          BY <1>4, <5>1
        <5> QED BY <1>1, <5>2
      <4> QED BY <4>1, <4>2
    <3>4. next \in [1..n -> Nat] /\ \A i \in 1..n : i < n => next[i] \in i + 1..n
      BY <3>3, Zenon
    <3> QED BY <1>1, <3>1, <3>2, <3>4 DEF Recursion
  <2>2. PICK f : Solves(f, n, S, base, next, step)
    <3> HIDE DEF next, step, base, n
    <3> QED BY <2>1, BackwardDef
  <2>3. ASSUME NEW i \in 1..n PROVE f[i] = rule(f, i)
    <3>1. CASE i = n
      <4>1. i > Len(text)
        BY <1>1, <3>1
      <4>2. f[i] = base
        <5> HIDE DEF base, next, step, n
        <5> QED BY <2>2, <3>1 DEF Solves
      <4> QED BY <4>1, <4>2 DEF rule
    <3>2. CASE i # n
      <4>1. i \in 1..Len(text)
        BY <1>1, <3>2
      <4>2. after(i) \in 1..n
        BY <1>1, <1>4, <4>1
      <4>3. f[after(i)] \in S
        BY <2>2, <4>2 DEF Solves
      <4>4. f[i] = step[i][f[next[i]]]
        BY <2>2, <3>2 DEF Solves
      <4>5. f[i] = whole(i, f[after(i)])
        BY <4>3, <4>4
      <4> QED BY <1>3, <4>5
    <3> QED BY <3>1, <3>2
  <2>4. f = [i \in 1..n |-> rule(f, i)]
    BY <2>2, <2>3 DEF Solves
  <2> QED BY <2>4
<1>8. from = [i \in 1..n |-> rule(from, i)]
  BY <1>7
<1> HIDE DEF from
<1>9. \A i \in 1..n : from[i] = whole(i, from[after(i)])
  BY <1>3, <1>8
<1>10. from \in [1..n -> S]
  <2> DEFINE P == {i \in 1..n : from[i] \in S}
  <2>1. ASSUME NEW i \in 1..n, \A j \in i + 1..n : j \in P
        PROVE  i \in P
    <3>1. CASE i = n
      <4>1. i > Len(text)
        BY <1>1, <3>1
      <4> QED BY <1>6, <1>9, <4>1
    <3>2. CASE i # n
      <4>1. i \in 1..Len(text)
        BY <1>1, <3>2
      <4>2. from[after(i)] \in S
        BY <1>4, <2>1, <4>1
      <4> QED BY <1>6, <1>9, <4>2
    <3> QED BY <3>1, <3>2
  <2>2. 1..n \subseteq P
    <3> HIDE DEF P, n
    <3> QED BY <1>1, <2>1, Backward
  <2> QED BY <1>8, <2>2
<1>11. Params!interpolate(text, scope) = from[1]
  BY DEF Params!interpolate, from, rule, Join
<1>12. ASSUME NEW i \in 1..n PROVE Follows(from, text, scope, i)
  BY <1>8 DEF Follows, rule
<1> QED BY <1>10, <1>11, <1>12 DEF S

\* A text is a JSON value; None is not.
LEMMA TextIsValue ==
  ASSUME NEW t \in Seq(Tokens)
  PROVE  Params!IsValue(Params!Text(t))
BY DEF Params!IsValue, Params!ValueKinds, Params!Text, Params!IsText

\* None stands for the absence of a value.
LEMMA NoneIsNoValue == ~Params!IsValue(Params!None)
BY DEF Params!IsValue, Params!None

\* What a leaf resolves to is None or a JSON value.
LEMMA LeafType ==
  ASSUME NEW leaf, Params!IsLeaf(leaf), NEW scope, Params!Valued(scope)
  PROVE  \/ Params!resolveLeaf(leaf, scope) = Params!None
         \/ Params!IsValue(Params!resolveLeaf(leaf, scope))
<1>1. CASE leaf.is = "param"
  BY <1>1 DEF Params!resolveLeaf, Params!Valued
<1>2. CASE leaf.is = "text"
  <2>1. leaf.v \in Seq(Tokens)
    BY <1>2 DEF Params!IsLeaf, Params!IsValue, Params!IsText
  <2>2. PICK f : /\ Params!interpolate(leaf.v, scope) = f[1]
                 /\ f \in [1..Len(leaf.v) + 1 -> Outcomes]
    BY <2>1, InterpolateIs
  <2>3. 1 \in 1..Len(leaf.v) + 1
    <3>1. Len(leaf.v) \in Nat
      BY <2>1, LenProperties
    <3> QED BY <3>1
  <2>4. f[1] \in Outcomes
    BY <2>2, <2>3
  <2>5. Params!resolveLeaf(leaf, scope) = f[1]
    BY <1>2, <2>2 DEF Params!resolveLeaf
  <2> QED BY <2>4, <2>5, TextIsValue DEF Outcomes
<1>3. CASE leaf.is \notin {"param", "text"}
  BY <1>3 DEF Params!resolveLeaf, Params!IsLeaf
<1> QED BY <1>1, <1>2, <1>3

\* A field that is no object or array resolves as its only leaf.
LEMMA ResolvedLeaf ==
  ASSUME NEW field, field.is # "tree", NEW scope
  PROVE  Params!resolveInto(field, scope) = Params!resolveLeaf(field, scope)
BY DEF Params!resolveInto

\* One that is resolves place by place, to None or to a value with these places.
LEMMA ResolvedTree ==
  ASSUME NEW field, Params!IsField(field), field.is = "tree",
         NEW scope, Params!Valued(scope),
         Params!resolveInto(field, scope) # Params!None
  PROVE  LET value == Params!resolveInto(field, scope)
         IN  /\ Params!IsValue(value)
             /\ \A p \in DOMAIN field.v :
                  /\ value.v[p] = Params!resolveLeaf(field.v[p], scope)
                  /\ value.v[p] # Params!None
<1> DEFINE found == [p \in DOMAIN field.v |-> Params!resolveLeaf(field.v[p], scope)]
           value == Params!resolveInto(field, scope)
<1>1. (\A p \in DOMAIN found : found[p] # Params!None) /\ value = [is |-> "tree", v |-> found]
  BY Zenon DEF Params!resolveInto
<1>2. \A p \in DOMAIN field.v : Params!IsLeaf(field.v[p])
  BY DEF Params!IsField, Params!IsLeaf
<1>3. ASSUME NEW p \in DOMAIN field.v
      PROVE  found[p] = Params!resolveLeaf(field.v[p], scope) /\ Params!IsValue(found[p])
  BY <1>1, <1>2, LeafType
<1>4. DOMAIN found = DOMAIN field.v
  OBVIOUS
<1> HIDE DEF found, value
<1>5. value.is = "tree" /\ value.v = found /\ value = [is |-> value.is, v |-> value.v]
  BY <1>1
<1>6. \A p \in DOMAIN found : found[p].is \in Params!ValueKinds
  BY <1>3, <1>4 DEF Params!IsValue
<1>7. Params!IsValue(value)
  BY <1>5, <1>6 DEF Params!IsValue, Params!ValueKinds
<1> QED BY <1>1, <1>3, <1>4, <1>5, <1>7 DEF value

\* What a field resolves to is None or a JSON value.
LEMMA ResolveType ==
  ASSUME NEW field, Params!IsField(field), NEW scope, Params!Valued(scope)
  PROVE  \/ Params!resolveInto(field, scope) = Params!None
         \/ Params!IsValue(Params!resolveInto(field, scope))
<1>1. CASE field.is = "tree"
  BY <1>1, ResolvedTree
<1>2. CASE field.is # "tree"
  <2>1. Params!IsLeaf(field)
    BY <1>2 DEF Params!IsField
  <2> QED BY <1>2, <2>1, LeafType, ResolvedLeaf
<1> QED BY <1>1, <1>2

\* A leaf that is nothing but a reference to a text resolves to that text.
LEMMA ForwardedWhole ==
  ASSUME NEW leaf, Params!IsLeaf(leaf), NEW scope, Params!Valued(scope), NEW k \in DOMAIN scope,
         Params!Forwards(leaf, k), scope[k].is = "text",
         Params!resolveLeaf(leaf, scope) # Params!None
  PROVE  Params!resolveLeaf(leaf, scope) = scope[k]
<1>1. CASE leaf = [is |-> "param", v |-> k]
  BY <1>1 DEF Params!resolveLeaf
<1>2. CASE leaf = Params!Text(<<"begin", k, "end">>)
  <2> DEFINE text == <<"begin", k, "end">>
  <2>1. leaf.is = "text" /\ leaf.v = text
    BY <1>2 DEF Params!Text
  <2>2. text \in Seq(Tokens)
    BY <2>1 DEF Params!IsLeaf, Params!IsValue, Params!IsText
  <2>3. Len(text) = 3 /\ text[1] = "begin" /\ text[2] = k /\ text[3] = "end"
    OBVIOUS
  <2>4. PICK f : /\ Params!interpolate(text, scope) = f[1]
                 /\ f \in [1..3 + 1 -> Outcomes]
                 /\ \A i \in 1..3 + 1 : Follows(f, text, scope, i)
    <3> HIDE DEF text
    <3> QED BY <2>2, <2>3, InterpolateIs
  <2>5. f[1] # Params!None /\ Params!resolveLeaf(leaf, scope) = f[1]
    BY <2>1, <2>4 DEF Params!resolveLeaf
  <2> DEFINE I == {j \in 1 + 1..Len(text) : text[j] = "end"}
  <2>6. 3 \in I /\ I \subseteq {2, 3}
    BY <2>3
  <2>7. Params!Closing(text, 1) = Params!Min(I)
    BY <2>6 DEF Params!Closing, Params!SelectInSubSeq
  <2>8. Params!Min(I) \in I /\ \A j \in I : Params!Min(I) <= j
    <3>1. I \subseteq Nat
      BY <2>6
    <3> HIDE DEF I
    <3> QED BY <2>6, <3>1, LeastIn
  <2>9. Params!IsReference(text, 1)
    BY <2>3, <2>6, <2>7, <2>8 DEF Params!IsReference
  <2>10. CASE Params!Min(I) = 3
    <3>1. Params!Name(text, 1) = <<k>>
      <4> DEFINE name == SubSeq(text, 2, 2)
      <4>1. Len(name) = 1 /\ name \in Seq(Tokens) /\ name[1] = text[2]
        <5> HIDE DEF text
        <5>1. text[2] \in Tokens
          <6>1. 2 \in 1..Len(text)
            BY <2>3
          <6> QED BY <2>2, <6>1, ElementOfSeq
        <5> QED BY <5>1, SubSeqProperties
      <4> HIDE DEF name
      <4>2. name = <<text[2]>>
        BY <4>1
      <4>3. name = <<k>>
        BY <2>3, <4>2
      <4>4. 1 + 1 = 2 /\ 3 - 1 = 2
        OBVIOUS
      <4> HIDE DEF text
      <4> QED BY <2>7, <2>10, <4>3, <4>4 DEF Params!Name, name
    <3>2. Params!Known(text, 1, scope)
      BY <3>1 DEF Params!Known
    <3>3. f[1] = Join(Params!Stringified(scope[k]), f[3 + 1])
      <4>1. Follows(f, text, scope, 1)
        BY <2>4
      <4> HIDE DEF text
      <4> QED BY <2>3, <2>7, <2>9, <2>10, <3>1, <3>2, <4>1 DEF Follows
    <3>4. f[3 + 1] = Params!Text(<<>>)
      <4>1. Follows(f, text, scope, 3 + 1)
        BY <2>4
      <4> HIDE DEF text
      <4> QED BY <2>3, <4>1 DEF Follows
    <3>5. Params!IsValue(scope[k]) /\ scope[k].v \in Seq(Tokens)
      BY DEF Params!Valued, Params!IsValue, Params!IsText
    <3>6. Params!Stringified(scope[k]) = scope[k].v
      BY DEF Params!Stringified
    <3>7. Join(scope[k].v, Params!Text(<<>>)) = Params!Text(scope[k].v)
      <4>1. Params!Text(<<>>) # Params!None /\ Params!Text(<<>>).v = <<>>
        BY DEF Params!Text, Params!None
      <4>2. scope[k].v \o <<>> = scope[k].v
        BY <3>5, ConcatEmptySeq
      <4> QED BY <4>1, <4>2 DEF Join
    <3>8. Params!Text(scope[k].v) = scope[k]
      BY <3>5 DEF Params!IsValue, Params!Text
    <3> QED BY <2>5, <3>3, <3>4, <3>6, <3>7, <3>8
  <2>11. CASE Params!Min(I) = 2
    <3>1. Params!Name(text, 1) = <<>>
      <4>1. SubSeq(text, 1 + 1, 2 - 1) = <<>>
        BY SubSeqEmpty
      <4> QED BY <2>7, <2>11, <4>1 DEF Params!Name
    <3>2. ~Params!Known(text, 1, scope)
      BY <3>1 DEF Params!Known
    <3>3. f[1] = Params!None
      <4>1. Follows(f, text, scope, 1)
        BY <2>4
      <4> HIDE DEF text
      <4> QED BY <2>3, <2>9, <3>2, <4>1 DEF Follows
    <3> QED BY <2>5, <3>3
  <2> QED BY <2>6, <2>8, <2>10, <2>11
<1> QED BY <1>1, <1>2 DEF Params!Forwards

-----------------------------------------------------------------------------
(* ParamFlow: where values come from *)

\* A text reads as itself.
LEMMA TextReads ==
  ASSUME NEW text \in Seq(Tokens)
  PROVE  Params!IsValue(Params!Text(text)) /\ Params!Reads(text, Params!Text(text))
BY TextIsValue DEF Params!Reads, Params!Text

\* One of the tokens for true or false reads as that.
LEMMA BoolReads ==
  ASSUME NEW text, NEW b \in BOOLEAN, text = <<text[1]>>,
         text[1] \in IF b THEN Yes ELSE No
  PROVE  LET value == [is |-> "bool", v |-> b]
         IN  Params!IsValue(value) /\ Params!Reads(text, value)
<1> DEFINE value == [is |-> "bool", v |-> b]
<1>1. value.is = "bool" /\ value = [is |-> value.is, v |-> value.v]
  OBVIOUS
<1>2. value.v = b
  BY Zenon
<1> HIDE DEF value
<1>3. value.v \in BOOLEAN
  BY <1>2, Zenon
<1>4. text[1] \in IF value.v THEN Yes ELSE No
  BY <1>2, Zenon
<1>5. Params!IsValue(value)
  BY <1>1, <1>3, Zenon DEF Params!IsValue, Params!ValueKinds
<1>6. Params!Reads(text, value)
  BY <1>1, <1>4, Zenon DEF Params!Reads
<1> QED BY <1>5, <1>6 DEF value

\* What a text is read as is a value that reads back as the text.
LEMMA CoerceReads ==
  ASSUME NEW p, Params!IsParam(p), p.type # "predicate", NEW text \in Seq(Tokens),
         Params!Coerce(p, text) # Params!None
  PROVE  Params!IsValue(Params!Coerce(p, text)) /\ Params!Reads(text, Params!Coerce(p, text))
<1>1. CASE p.type \in {"string", "mac"}
  <2>1. Params!Coerce(p, text) = Params!Text(text)
    BY <1>1 DEF Params!Coerce
  <2> QED BY <2>1, TextReads
<1>2. CASE p.type = "stringlist"
  <2> DEFINE value == [is |-> "list", v |-> Params!Split(text)]
  <2>1. Params!Coerce(p, text) = value
    BY <1>2 DEF Params!Coerce
  <2>2. /\ value = [is |-> value.is, v |-> value.v] /\ value.is = "list"
        /\ value.v = Params!Split(text)
    OBVIOUS
  <2> HIDE DEF value
  <2> QED BY <2>1, <2>2, JoinedSplit DEF Params!Reads, Params!IsValue, Params!ValueKinds
<1>3. CASE p.type = "int"
  <2> DEFINE value == [is |-> "int", v |-> IntOf[text[1]]]
  <2>1. Len(text) = 1 /\ text[1] \in DOMAIN IntOf /\ Params!Coerce(p, text) = value
    BY <1>3 DEF Params!Coerce
  <2>2. IntOf[text[1]] \in Int
    BY <2>1, ParamsInstance DEF Params!ParamAssumption, Params!Range
  <2>3. text = <<text[1]>>
    BY <2>1
  <2>4. /\ value = [is |-> value.is, v |-> value.v] /\ value.is = "int"
        /\ value.v = IntOf[text[1]]
    OBVIOUS
  <2> HIDE DEF value
  <2> QED BY <2>1, <2>2, <2>3, <2>4 DEF Params!Reads, Params!IsValue, Params!ValueKinds
<1>4. CASE p.type = "bool"
  <2> DEFINE b == text[1] \in Yes
  <2>1. /\ Len(text) = 1 /\ text[1] \in Yes \cup No
        /\ Params!Coerce(p, text) = [is |-> "bool", v |-> b]
    BY <1>4 DEF Params!Coerce
  <2>2. text = <<text[1]>>
    BY <2>1
  <2>3. text[1] \in (IF b THEN Yes ELSE No)
    BY <2>1
  <2>4. b \in BOOLEAN
    OBVIOUS
  <2> HIDE DEF b
  <2>5. Params!IsValue([is |-> "bool", v |-> b]) /\ Params!Reads(text, [is |-> "bool", v |-> b])
    BY <2>2, <2>3, <2>4, BoolReads, Zenon
  <2> QED BY <2>1, <2>5, Zenon
<1>5. CASE p.type = "enum"
  <2>1. Params!Coerce(p, text) = Params!Text(text)
    BY <1>5 DEF Params!Coerce
  <2> QED BY <2>1, TextReads
<1> QED BY <1>1, <1>2, <1>3, <1>4, <1>5 DEF Params!IsParam, Params!ParamTypes

Query == Seq(Tokens \X Seq(Tokens))

\* Asked is the first place where the query names the key, if there is one.
LEMMA AskedIs ==
  ASSUME NEW query \in Query, NEW key
  PROVE  \/ /\ Params!Asked(query, key) = 0
            /\ \A i \in DOMAIN query : query[i][1] # key
         \/ /\ Params!Asked(query, key) \in DOMAIN query
            /\ Params!Asked(query, key) # 0
            /\ query[Params!Asked(query, key)][1] = key
            /\ \A j \in 1..Params!Asked(query, key) - 1 : query[j][1] # key
<1> DEFINE I == {i \in 1..Len(query) : query[i][1] = key}
<1>1. Len(query) \in Nat /\ DOMAIN query = 1..Len(query)
  BY LenProperties DEF Query
<1>2. CASE I = {}
  <2>1. Params!Asked(query, key) = 0
    BY <1>2 DEF Params!Asked, Params!SelectInSeq
  <2> QED BY <1>1, <1>2, <2>1
<1>3. CASE I # {}
  <2>1. Params!Asked(query, key) = Params!Min(I)
    BY <1>3 DEF Params!Asked, Params!SelectInSeq
  <2>2. Params!Min(I) \in I /\ \A k \in I : Params!Min(I) <= k
    <3>1. I \subseteq Nat
      BY <1>1
    <3> HIDE DEF I
    <3> QED BY <1>3, <3>1, LeastIn
  <2>3. ASSUME NEW j \in 1..Params!Min(I) - 1 PROVE query[j][1] # key
    <3>1. j \in 1..Len(query) /\ ~(Params!Min(I) <= j)
      BY <1>1, <2>2
    <3> QED BY <2>2, <3>1
  <2> QED BY <1>1, <2>1, <2>2, <2>3
<1> QED BY <1>2, <1>3

\* Its text is what the properties call the first text of the key.
LEMMA FirstTextIs ==
  ASSUME NEW r, r.request.query \in Query, NEW key,
         Params!Asked(r.request.query, key) # 0
  PROVE  Params!FirstText(r, key) = r.request.query[Params!Asked(r.request.query, key)][2]
<1> DEFINE query == r.request.query
           a == Params!Asked(query, key)
           First(t) == \E i \in DOMAIN query : /\ query[i] = <<key, t>>
                                               /\ \A j \in 1..i - 1 : query[j][1] # key
           texts == {query[i][2] : i \in DOMAIN query}
<1>1. /\ a \in DOMAIN query /\ query[a][1] = key /\ DOMAIN query \subseteq Nat
      /\ \A j \in 1..a - 1 : query[j][1] # key
      /\ \A i \in DOMAIN query : query[i] \in Tokens \X Seq(Tokens)
  <2>1. /\ a \in DOMAIN query /\ query[a][1] = key
        /\ \A j \in 1..a - 1 : query[j][1] # key
    <3>1. a # 0 /\ query \in Query
      OBVIOUS
    <3> HIDE DEF query
    <3> QED BY <3>1, AskedIs
  <2>2. DOMAIN query \subseteq Nat /\ \A i \in DOMAIN query : query[i] \in Tokens \X Seq(Tokens)
    <3>1. query \in Query
      OBVIOUS
    <3> HIDE DEF query, a
    <3> QED BY <3>1, LenProperties, ElementOfSeq DEF Query
  <2> QED BY <2>1, <2>2
<1>2. DOMAIN query = 1..Len(query)
  BY LenProperties DEF Query
<1> HIDE DEF query, a
<1>3. query[a] = <<key, query[a][2]>>
  <2>1. query[a] \in Tokens \X Seq(Tokens)
    BY <1>1
  <2>2. query[a] = <<query[a][1], query[a][2]>>
    BY <2>1
  <2> QED BY <1>1, <2>2
<1>4. query[a][2] \in texts /\ First(query[a][2])
  BY <1>1, <1>3
<1>5. ASSUME NEW t \in texts, First(t) PROVE t = query[a][2]
  <2>1. PICK i \in DOMAIN query : /\ query[i] = <<key, t>>
                                  /\ \A j \in 1..i - 1 : query[j][1] # key
    BY <1>5
  <2>2. query[i][1] = key /\ query[i][2] = t
    BY <2>1
  <2>3. ~(a < i) /\ ~(i < a)
    BY <1>1, <1>2, <2>1, <2>2
  <2>4. a = i
    BY <1>1, <2>3
  <2> QED BY <2>2, <2>4
<1>6. Params!FirstText(r, key) = CHOOSE t \in texts : First(t)
  BY DEF Params!FirstText, query
<1> HIDE DEF First, texts
<1>7. (CHOOSE t \in texts : First(t)) \in texts /\ First(CHOOSE t \in texts : First(t))
  BY <1>4
<1>8. Params!FirstText(r, key) = query[a][2]
  BY <1>5, <1>6, <1>7
<1> QED BY <1>8 DEF query, a

\* A list of definitions of parameters.
IsParams(params) ==
  /\ params \in Seq(Params!Range(params)) /\ \A p \in Params!Range(params) : Params!IsParam(p)

\* A list of parameters consists of parameters.
LEMMA ParamsAre ==
  ASSUME NEW params, IsParams(params)
  PROVE  /\ Len(params) \in Nat /\ DOMAIN params = 1..Len(params)
         /\ \A i \in DOMAIN params :
              Params!IsParam(params[i]) /\ params[i] \in Params!Range(params)
         /\ \A p \in Params!Range(params) : \E i \in DOMAIN params : p = params[i]
<1>1. Len(params) \in Nat /\ DOMAIN params = 1..Len(params)
  BY LenProperties DEF IsParams
<1> QED BY <1>1 DEF IsParams, Params!Range

\* The last of the definitions in a set that are of the key.
Latest(params, P, key) == Params!Max({i \in P : params[i].key = key})

\* It is in the set and of the key.
LEMMA LastOf ==
  ASSUME NEW params, IsParams(params), NEW P, P \subseteq DOMAIN params,
         NEW key, \E i \in P : params[i].key = key
  PROVE  Latest(params, P, key) \in P /\ params[Latest(params, P, key)].key = key
<1> DEFINE Q == {i \in P : params[i].key = key}
<1>1. Q \subseteq 1..Len(params) /\ Q # {} /\ Len(params) \in Nat
  BY ParamsAre
<1>2. Params!Max(Q) \in Q
  <2> HIDE DEF Q
  <2> QED BY <1>1, LastIn
<1> QED BY <1>2 DEF Latest

\* Values over values are values.
LEMMA OverlayType ==
  ASSUME NEW over, NEW under, Params!Valued(over), Params!Valued(under)
  PROVE  Params!Valued(Params!Overlay(over, under))
BY DEF Params!Valued, Params!Overlay

\* Defaults are values, and every parameter that has one is among them.
LEMMA DefaultsType ==
  ASSUME NEW params, IsParams(params)
  PROVE  /\ Params!Valued(Params!DefaultsOf(params))
         /\ \A p \in Params!Range(params) :
              p.default # Params!None => p.key \in DOMAIN Params!DefaultsOf(params)
<1> DEFINE P == Params!WithDefault(params)
           newest(key) == Latest(params, P, key)
<1>1. P \subseteq DOMAIN params /\ \A i \in P : params[i].default # Params!None
  BY DEF Params!WithDefault
<1>2. /\ DOMAIN Params!DefaultsOf(params) = {params[i].key : i \in P}
      /\ \A k \in {params[i].key : i \in P} :
           Params!DefaultsOf(params)[k] = params[newest(k)].default
  BY DEF Params!DefaultsOf, Latest
<1>3. ASSUME NEW k \in {params[i].key : i \in P}
      PROVE  Params!IsValue(params[newest(k)].default)
  <2>1. newest(k) \in P
    <3>1. \E i \in P : params[i].key = k
      OBVIOUS
    <3>2. P \subseteq DOMAIN params
      BY <1>1
    <3> HIDE DEF P
    <3> QED BY <3>1, <3>2, LastOf
  <2> HIDE DEF newest, P
  <2> QED BY <1>1, <2>1, ParamsAre DEF Params!IsParam
<1>4. ASSUME NEW p \in Params!Range(params), p.default # Params!None
      PROVE  p.key \in {params[i].key : i \in P}
  <2>1. PICK i \in DOMAIN params : p = params[i]
    BY ParamsAre
  <2> QED BY <1>4, <2>1 DEF Params!WithDefault
<1> HIDE DEF P, newest
<1> QED BY <1>2, <1>3, <1>4 DEF Params!Valued

\* What a query gives, when all of it can be read.
Readable(query, params) ==
  \A i \in Params!Given(query, params) : Params!Read(query, params[i]) # Params!None

\* What a query gives are values that read as the first text of their key, and it
\* gives one to each parameter it names that is no predicate.
LEMMA OverridesAre ==
  ASSUME NEW query \in Query, NEW params, IsParams(params), Readable(query, params)
  PROVE  /\ Params!Valued(Params!Overrides(query, params))
         /\ \A k \in DOMAIN Params!Overrides(query, params) :
              /\ Params!Asked(query, k) # 0
              /\ Params!Reads(query[Params!Asked(query, k)][2],
                              Params!Overrides(query, params)[k])
         /\ \A p \in Params!Range(params) :
              p.key \in DOMAIN Params!Overrides(query, params)
              <=> /\ \E i \in DOMAIN query : query[i][1] = p.key
                  /\ \E q \in Params!Range(params) : q.key = p.key /\ q.type # "predicate"
<1> DEFINE P == Params!Given(query, params)
           newest(key) == Latest(params, P, key)
           keys == {params[i].key : i \in P}
           given == Params!Overrides(query, params)
<1>1. /\ P \subseteq DOMAIN params
      /\ \A i \in P : params[i].type # "predicate" /\ Params!Asked(query, params[i].key) # 0
      /\ \A i \in P : Params!Read(query, params[i]) # Params!None
  BY DEF Params!Given, Readable
<1>2. DOMAIN given = keys /\ \A k \in keys : given[k] = Params!Read(query, params[newest(k)])
  BY DEF Params!Overrides, Latest
<1>3. ASSUME NEW k \in keys
      PROVE  /\ Params!Asked(query, k) # 0
             /\ Params!IsValue(given[k])
             /\ Params!Reads(query[Params!Asked(query, k)][2], given[k])
  <2> DEFINE p == params[newest(k)]
             text == query[Params!Asked(query, k)][2]
  <2>1. newest(k) \in P /\ p.key = k
    <3>1. \E i \in P : params[i].key = k
      OBVIOUS
    <3>2. P \subseteq DOMAIN params
      BY <1>1
    <3> HIDE DEF P
    <3> QED BY <3>1, <3>2, LastOf
  <2>2. Params!IsParam(p)
    <3> HIDE DEF newest, P
    <3> QED BY <1>1, <2>1, ParamsAre
  <2> HIDE DEF newest
  <2>3. /\ p.type # "predicate" /\ Params!Asked(query, k) # 0
        /\ Params!Read(query, p) # Params!None
    BY <1>1, <2>1
  <2>4. given[k] = Params!Coerce(p, text)
    BY <1>2, <2>1 DEF Params!Read, newest
  <2>5. text \in Seq(Tokens)
    <3>1. Params!Asked(query, k) \in DOMAIN query
      BY <2>3, AskedIs
    <3>2. query[Params!Asked(query, k)] \in Tokens \X Seq(Tokens)
      BY <3>1, LenProperties, ElementOfSeq DEF Query
    <3> QED BY <3>2
  <2>6. Params!Coerce(p, text) # Params!None
    BY <2>1, <2>3 DEF Params!Read
  <2> HIDE DEF p, text, given
  <2>7. Params!IsValue(Params!Coerce(p, text)) /\ Params!Reads(text, Params!Coerce(p, text))
    BY <2>2, <2>3, <2>5, <2>6, CoerceReads
  <2> QED BY <2>3, <2>4, <2>7 DEF text
<1>4. ASSUME NEW p \in Params!Range(params)
      PROVE  p.key \in keys
             <=> /\ \E i \in DOMAIN query : query[i][1] = p.key
                 /\ \E q \in Params!Range(params) : q.key = p.key /\ q.type # "predicate"
  <2>1. Params!Asked(query, p.key) # 0 <=> \E i \in DOMAIN query : query[i][1] = p.key
    BY AskedIs
  <2>2. ASSUME p.key \in keys
        PROVE  /\ Params!Asked(query, p.key) # 0
               /\ \E q \in Params!Range(params) : q.key = p.key /\ q.type # "predicate"
    <3>1. PICK i \in P : params[i].key = p.key
      BY <2>2
    <3> QED BY <1>1, <3>1, ParamsAre
  <2>3. ASSUME Params!Asked(query, p.key) # 0,
               NEW q \in Params!Range(params), q.key = p.key, q.type # "predicate"
        PROVE  p.key \in keys
    <3>1. PICK i \in DOMAIN params : q = params[i]
      BY ParamsAre
    <3>2. i \in P
      BY <2>3, <3>1 DEF Params!Given
    <3> QED BY <2>3, <3>1, <3>2
  <2> HIDE DEF keys
  <2> QED BY <2>1, <2>2, <2>3
<1> HIDE DEF P, given, keys
<1>5. Params!Valued(given)
  BY <1>2, <1>3 DEF Params!Valued
<1> QED BY <1>2, <1>3, <1>4, <1>5 DEF given

\* The form shows values.
LEMMA FilledType ==
  ASSUME NEW bound, Params!Valued(bound), NEW params, IsParams(params)
  PROVE  Params!Valued(Params!Filled(bound, params))
<1> DEFINE at(k) == Params!SelectInSeq(params, LAMBDA p : p.key = k)
           keys == {p.key : p \in Params!Range(params)}
           value(k) == IF params[at(k)].default # Params!None THEN params[at(k)].default
                       ELSE Params!Text(<<>>)
           own == [k \in keys |-> value(k)]
<1>1. ASSUME NEW k \in keys PROVE at(k) \in DOMAIN params
  <2> DEFINE I == {i \in 1..Len(params) : params[i].key = k}
  <2>1. I # {} /\ I \subseteq Nat
    BY ParamsAre
  <2>2. at(k) = Params!Min(I)
    BY <2>1 DEF Params!SelectInSeq
  <2>3. Params!Min(I) \in I
    <3> HIDE DEF I
    <3> QED BY <2>1, LeastIn
  <2> QED BY <2>2, <2>3, ParamsAre
<1> HIDE DEF at
<1>2. ASSUME NEW k \in keys PROVE Params!IsValue(value(k))
  <2>1. Params!IsParam(params[at(k)])
    BY <1>1, ParamsAre
  <2>2. Params!IsValue(Params!Text(<<>>))
    BY EmptySeq, TextIsValue
  <2> QED BY <2>1, <2>2 DEF Params!IsParam
<1>3. Params!Valued(own)
  <2> HIDE DEF value, keys
  <2> QED BY <1>2 DEF Params!Valued
<1>4. Params!Filled(bound, params) = Params!Overlay(bound, own)
  BY DEF Params!Filled, at
<1> HIDE DEF own
<1> QED BY <1>3, <1>4, OverlayType

-----------------------------------------------------------------------------
(* ParamFlow: runs *)

\* A sequence's parameters and nodes.
IsSequence(s) == s \in Versions \cup {Callee}

\* Sequences consist of parameters and nodes.
LEMMA SequenceIs ==
  ASSUME NEW s, IsSequence(s)
  PROVE  /\ IsParams(s.params)
         /\ \A i \in DOMAIN s.nodes : /\ s.nodes[i] \in Params!Range(s.nodes)
                                      /\ Params!IsNode(s.nodes[i])
<1>1. \A n \in Params!Range(s.nodes) : Params!IsNode(n)
  BY ParamsInstance DEF Params!ParamAssumption, IsSequence
<1>2. IsParams(s.params)
  BY ParamsInstance DEF Params!ParamAssumption, IsSequence, IsParams, Params!IsList
<1> QED BY <1>1, <1>2 DEF Params!Range

\* A scope has the arguments, and the defaults of the others.
LEMMA ScopeType ==
  ASSUME NEW s, IsSequence(s), NEW given, Params!Valued(given)
  PROVE  /\ Params!Valued(Params!buildScope(s, given))
         /\ DOMAIN Params!buildScope(s, given)
              = DOMAIN given \cup DOMAIN Params!DefaultsOf(s.params)
         /\ \A k \in DOMAIN given : Params!buildScope(s, given)[k] = given[k]
<1>1. Params!Valued(Params!DefaultsOf(s.params))
  BY SequenceIs, DefaultsType
<1>2. Params!buildScope(s, given) = Params!Overlay(given, Params!DefaultsOf(s.params))
  BY DEF Params!buildScope
<1>3. Params!Valued(Params!buildScope(s, given))
  BY <1>1, <1>2, OverlayType
<1> QED BY <1>2, <1>3 DEF Params!Overlay

\* A list of nodes runs blocks of its nodes only.
LEMMA SlotIs ==
  ASSUME NEW outcomes
  PROVE  \A e \in Params!runSlot(outcomes).ran :
           \E i \in DOMAIN outcomes : e \in outcomes[i].ran
BY DEF Params!runSlot

\* A block that ran was given what its field stands for.
LEMMA BlockIs ==
  ASSUME NEW node, Params!IsField(node.field), NEW scope, Params!Valued(scope), NEW by,
         NEW e \in Params!RunBlock(node, scope, by).ran
  PROVE  /\ e.by = by /\ e.field = node.field
         /\ e.value = Params!resolveInto(node.field, scope)
         /\ Params!IsValue(e.value) /\ e.value # Params!None
<1> DEFINE value == Params!resolveInto(node.field, scope)
           done == Params!RunBlock(node, scope, by)
<1>1. CASE value = Params!None
  <2>1. done = Params!Failed
    BY <1>1 DEF Params!RunBlock
  <2>2. done.ran = {}
    BY <2>1 DEF Params!Failed
  <2> QED BY <2>2
<1>2. CASE value # Params!None
  <2>1. done = [ok |-> TRUE, ran |-> {[by |-> by, field |-> node.field, value |-> value]}]
    BY <1>2 DEF Params!RunBlock
  <2>2. Params!IsValue(value)
    BY <1>2, ResolveType
  <2>3. e \in done.ran
    OBVIOUS
  <2> HIDE DEF value, done
  <2>4. e = [by |-> by, field |-> node.field, value |-> value]
    BY <2>1, <2>3
  <2> QED BY <1>2, <2>2, <2>4 DEF value
<1> QED BY <1>1, <1>2

\* The scope of a sequence that a call node calls.
Inner(node, scope) ==
  Params!buildScope(Callee, [k \in {node.key} |-> Params!resolveInto(node.field, scope)])

\* Its scope has the argument of the call under the name of the parameter.
LEMMA InnerIs ==
  ASSUME NEW node, NEW scope, Params!IsValue(Params!resolveInto(node.field, scope))
  PROVE  /\ Params!Valued(Inner(node, scope))
         /\ DOMAIN Inner(node, scope)
              = {node.key} \cup DOMAIN Params!DefaultsOf(Callee.params)
         /\ Inner(node, scope)[node.key] = Params!resolveInto(node.field, scope)
<1> DEFINE given == [k \in {node.key} |-> Params!resolveInto(node.field, scope)]
<1>1. /\ Params!Valued(given) /\ DOMAIN given = {node.key}
      /\ given[node.key] = Params!resolveInto(node.field, scope)
  BY DEF Params!Valued
<1>2. IsSequence(Callee) /\ Inner(node, scope) = Params!buildScope(Callee, given)
  BY DEF IsSequence, Inner
<1> HIDE DEF given
<1> QED BY <1>1, <1>2, ScopeType

\* Where what a block was given comes from.
FromBlock(e, node, scope) ==
  /\ node.is = "block" /\ e.by = node /\ e.field = node.field
  /\ e.value = Params!resolveInto(node.field, scope)
FromCall(e, node, scope) ==
  /\ node.is = "call" /\ e.by = node
  /\ Params!IsValue(Params!resolveInto(node.field, scope))
  /\ Params!IsField(e.field) /\ e.value = Params!resolveInto(e.field, Inner(node, scope))

\* What a node hands to blocks.
LEMMA NodeIs ==
  ASSUME NEW node, Params!IsNode(node), NEW scope, Params!Valued(scope),
         NEW e \in Params!RunNode(node, scope).ran
  PROVE  /\ FromBlock(e, node, scope) \/ FromCall(e, node, scope)
         /\ Params!IsValue(e.value) /\ e.value # Params!None
<1> DEFINE done == Params!RunNode(node, scope)
           value == Params!resolveInto(node.field, scope)
<1>1. Params!IsField(node.field) /\ node.is \in {"block", "call"}
  BY DEF Params!IsNode
<1>2. CASE node.is = "block"
  <2>1. done = Params!RunBlock(node, scope, node)
    BY <1>2 DEF Params!RunNode
  <2> QED BY <1>1, <1>2, <2>1, BlockIs DEF FromBlock
<1>3. CASE node.is = "call" /\ value = Params!None
  <2>1. done = Params!Failed
    BY <1>3 DEF Params!RunNode
  <2>2. done.ran = {}
    BY <2>1 DEF Params!Failed
  <2> QED BY <2>2
<1>4. CASE node.is = "call" /\ value # Params!None
  <2> DEFINE nodes == Callee.nodes
             inner == Inner(node, scope)
             outcome(i) == Params!RunBlock(nodes[i], inner, node)
             outcomes == [i \in DOMAIN nodes |-> outcome(i)]
  <2>1. done = Params!runSlot(outcomes)
    BY <1>4 DEF Params!RunNode, Inner
  <2>2. Params!IsValue(value)
    BY <1>1, <1>4, ResolveType
  <2>3. Params!Valued(inner)
    BY <2>2, InnerIs
  <2>4. \A i \in DOMAIN nodes : Params!IsField(nodes[i].field)
    BY SequenceIs DEF IsSequence, Params!IsNode
  <2>5. DOMAIN outcomes = DOMAIN nodes /\ \A i \in DOMAIN nodes : outcomes[i] = outcome(i)
    OBVIOUS
  <2>6. e \in done.ran
    OBVIOUS
  <2> HIDE DEF inner, outcomes, nodes, outcome, value, done
  <2>7. PICK i \in DOMAIN nodes : e \in outcome(i).ran
    BY <2>1, <2>5, <2>6, SlotIs
  <2>8. /\ e.by = node /\ e.field = nodes[i].field
        /\ e.value = Params!resolveInto(nodes[i].field, inner)
        /\ Params!IsValue(e.value) /\ e.value # Params!None
    BY <2>3, <2>4, <2>7, BlockIs DEF outcome
  <2> QED BY <1>4, <2>2, <2>4, <2>8 DEF FromCall, inner, value
<1> QED BY <1>1, <1>2, <1>3, <1>4

\* The same of a whole run.
LEMMA RunIs ==
  ASSUME NEW s, IsSequence(s), NEW scope, Params!Valued(scope),
         NEW e \in Params!runSequence(s, scope).ran
  PROVE  /\ \E n \in Params!Range(s.nodes) :
              Params!IsNode(n) /\ (FromBlock(e, n, scope) \/ FromCall(e, n, scope))
         /\ Params!IsValue(e.value) /\ e.value # Params!None
<1> DEFINE nodes == s.nodes
           done == Params!runSequence(s, scope)
           outcome(i) == Params!RunNode(nodes[i], scope)
           outcomes == [i \in DOMAIN nodes |-> outcome(i)]
<1>1. done = Params!runSlot(outcomes)
  BY DEF Params!runSequence
<1>2. \A i \in DOMAIN nodes : nodes[i] \in Params!Range(nodes) /\ Params!IsNode(nodes[i])
  BY SequenceIs
<1>3. DOMAIN outcomes = DOMAIN nodes /\ \A i \in DOMAIN nodes : outcomes[i] = outcome(i)
  OBVIOUS
<1>4. e \in done.ran
  OBVIOUS
<1> HIDE DEF outcomes, nodes, outcome, done
<1>5. PICK i \in DOMAIN nodes : e \in outcome(i).ran
  BY <1>1, <1>3, <1>4, SlotIs
<1>6. /\ FromBlock(e, nodes[i], scope) \/ FromCall(e, nodes[i], scope)
      /\ Params!IsValue(e.value) /\ e.value # Params!None
  BY <1>2, <1>5, NodeIs DEF outcome
<1> QED BY <1>2, <1>6 DEF nodes

-----------------------------------------------------------------------------
(* ParamFlow: the invariant.  A request carries what its arguments were made *)
(* from, and a run what it was made from.                                    *)

IsForm(f) == Params!Valued(f.args) /\ \E s \in Versions : f.params = s.params

IsRequest(r) ==
  /\ Params!Valued(r.args) /\ Params!Valued(r.bound) /\ r.seq \in Versions
  /\ r.query \in Queries \cup {<<>>}
  /\ r.from = "route" =>
       /\ r.query \in Queries /\ Readable(r.query, r.seq.params)
       /\ r.args = Params!coerceQueryArgs(r.bound, r.seq.params, r.query)

IsRun(r) ==
  /\ IsRequest(r.request) /\ r.seq \in Versions
  /\ r.scope = Params!buildScope(r.seq, r.request.args)
  /\ r.ok = Params!runSequence(r.seq, r.scope).ok
  /\ r.ran = Params!runSequence(r.seq, r.scope).ran

ParamInv ==
  /\ seq \in Versions /\ Params!Valued(args)
  /\ page = <<>> \/ \E f : page = <<f>> /\ IsForm(f)
  /\ pending = <<>> \/ \E r : pending = <<r>> /\ IsRequest(r)
  /\ last = <<>> \/ \E r : last = <<r>> /\ IsRun(r)

\* Queries are queries.
LEMMA QueriesAre == Queries \subseteq Query
BY ParamsInstance DEF Params!ParamAssumption, Query

\* The arguments made of a query are values.
LEMMA CoerceQueryType ==
  ASSUME NEW bound, Params!Valued(bound), NEW s, IsSequence(s), NEW query \in Query,
         Readable(query, s.params)
  PROVE  Params!Valued(Params!coerceQueryArgs(bound, s.params, query))
<1>1. Params!Valued(Params!Overrides(query, s.params))
  BY SequenceIs, OverridesAre
<1>2. Params!Valued(Params!DefaultsOf(s.params))
  BY SequenceIs, DefaultsType
<1>3. Params!Valued(Params!Overlay(bound, Params!DefaultsOf(s.params)))
  BY <1>2, OverlayType
<1> QED BY <1>1, <1>3, OverlayType DEF Params!coerceQueryArgs

\* It holds at the start,
LEMMA ParamInit == Params!Init => ParamInv
<1> SUFFICES ASSUME Params!Init PROVE ParamInv
  OBVIOUS
<1>1. Params!Valued(<<>>)
  <2>1. DOMAIN <<>> = {}
    OBVIOUS
  <2> QED BY <2>1 DEF Params!Valued
<1> QED BY <1>1 DEF Params!Init, ParamInv

\* A request that is queued, or dropped because the queue is full.
LEMMA QueueStep ==
  ASSUME ParamInv, NEW from, NEW query, NEW given, Params!Queue(from, query, given),
         Params!Valued(given), query \in Queries \cup {<<>>},
         from = "route" => /\ query \in Queries /\ Readable(query, seq.params)
                           /\ given = Params!coerceQueryArgs(args, seq.params, query)
  PROVE  ParamInv'
<1> DEFINE r == [from |-> from, query |-> query, bound |-> args, seq |-> seq, args |-> given]
<1>1. pending' = IF pending # <<>> THEN pending ELSE <<r>>
  BY DEF Params!Queue
<1>2. IsRequest(r)
  BY DEF IsRequest, ParamInv
<1> HIDE DEF r
<1>3. pending' = <<>> \/ \E q : pending' = <<q>> /\ IsRequest(q)
  BY <1>1, <1>2 DEF ParamInv
<1>4. /\ seq' = seq /\ args' = args /\ page' = page /\ last' = <<>>
  BY DEF Params!Queue
<1> QED BY <1>3, <1>4 DEF ParamInv

\* and every action of ParamFlow keeps it.
LEMMA ParamStep == ParamInv /\ [Params!Next]_paramVars => ParamInv'
<1> SUFFICES ASSUME ParamInv, [Params!Next]_paramVars PROVE ParamInv'
  OBVIOUS
<1>1. seq \in Versions /\ IsSequence(seq) /\ Params!Valued(args)
  BY DEF ParamInv, IsSequence
<1>2. CASE UNCHANGED paramVars
  BY <1>2 DEF paramVars, ParamInv
<1>3. ASSUME NEW s \in Versions, Params!PutSequence(s) PROVE ParamInv'
  BY <1>3 DEF Params!PutSequence, ParamInv
<1>4. CASE Params!OpenPage
  <2> DEFINE f == [params |-> seq.params, args |-> Params!Filled(args, seq.params)]
  <2>1. page' = <<f>>
    BY <1>4 DEF Params!OpenPage
  <2>2. IsForm(f)
    <3>1. Params!Valued(Params!Filled(args, seq.params))
      BY <1>1, SequenceIs, FilledType
    <3> QED BY <1>1, <3>1 DEF IsForm
  <2> HIDE DEF f
  <2> QED BY <1>4, <2>1, <2>2 DEF Params!OpenPage, ParamInv
<1>5. ASSUME NEW e \in Edits, Params!Type(e[1], e[2]) PROVE ParamInv'
  <2> DEFINE f == [page[1] EXCEPT !.args[e[1]] = e[2]]
  <2>1. page # <<>> /\ page' = <<f>>
    BY <1>5 DEF Params!Type
  <2>2. IsForm(page[1])
    BY <2>1 DEF ParamInv
  <2>3. Params!IsValue(e[2])
    BY ParamsInstance DEF Params!ParamAssumption
  <2>4. IsForm(f)
    BY <2>2, <2>3 DEF IsForm, Params!Valued
  <2> HIDE DEF f
  <2> QED BY <1>5, <2>1, <2>4 DEF Params!Type, ParamInv
<1>6. CASE Params!SavePage
  <2>1. page # <<>> /\ args' = page[1].args
    BY <1>6 DEF Params!SavePage
  <2>2. Params!Valued(args')
    BY <2>1 DEF ParamInv, IsForm
  <2> QED BY <1>6, <2>2 DEF Params!SavePage, ParamInv, Params!Valued
<1>7. ASSUME NEW query \in Queries, Params!Request(query) PROVE ParamInv'
  <2> DEFINE given == Params!coerceQueryArgs(args, seq.params, query)
  <2>1. Readable(query, seq.params)
    BY <1>7 DEF Params!Request, Params!Accepted, Readable
  <2>2. Params!Valued(given)
    BY <1>1, <2>1, QueriesAre, CoerceQueryType
  <2>3. Params!Queue("route", query, given)
    BY <1>7 DEF Params!Request
  <2> QED BY <2>1, <2>2, <2>3, QueueStep
<1>8. ASSUME NEW given \in Arguments, Params!PostRun(given) PROVE ParamInv'
  <2>1. Params!Valued(given)
    BY ParamsInstance DEF Params!ParamAssumption, Params!Valued
  <2>2. Params!Queue("api", <<>>, given)
    BY <1>8 DEF Params!PostRun
  <2> QED BY <2>1, <2>2, QueueStep
<1>9. CASE Params!Run
  <2> DEFINE scope == Params!buildScope(seq, pending[1].args)
             done == Params!runSequence(seq, scope)
             r == [request |-> pending[1], seq |-> seq, scope |-> scope,
                   ok |-> done.ok, ran |-> done.ran]
  <2>1. pending # <<>> /\ pending' = <<>> /\ last' = <<r>>
        /\ seq' = seq /\ args' = args /\ page' = page
    BY <1>9 DEF Params!Run
  <2>2. IsRequest(pending[1])
    BY <2>1 DEF ParamInv
  <2>3. IsRun(r)
    BY <1>1, <2>2 DEF IsRun
  <2> HIDE DEF r
  <2> QED BY <2>1, <2>3 DEF ParamInv
<1> QED BY <1>2, <1>3, <1>4, <1>5, <1>6, <1>7, <1>8, <1>9 DEF Params!Next

-----------------------------------------------------------------------------
(* ParamFlow: what a run shows *)

\* The scope of a run has all of its arguments.
LEMMA RunScope ==
  ASSUME NEW r, IsRun(r)
  PROVE  /\ IsSequence(r.seq) /\ IsSequence(r.request.seq)
         /\ Params!Valued(r.scope)
         /\ DOMAIN r.scope = DOMAIN r.request.args \cup DOMAIN Params!DefaultsOf(r.seq.params)
         /\ \A k \in DOMAIN r.request.args : r.scope[k] = r.request.args[k]
<1>1. /\ r.seq \in Versions /\ r.request.seq \in Versions /\ Params!Valued(r.request.args)
      /\ r.scope = Params!buildScope(r.seq, r.request.args)
  BY DEF IsRun, IsRequest
<1>2. IsSequence(r.seq) /\ IsSequence(r.request.seq)
  BY <1>1 DEF IsSequence
<1> QED BY <1>1, <1>2, ScopeType

\* Precedence, of one run by a path and one parameter.
LEMMA RunPrecedence ==
  ASSUME NEW r, IsRun(r), r.request.from = "route", NEW p \in Params!Declared(r)
  PROVE  IF Params!InQuery(r, p.key)
           THEN /\ p.key \in DOMAIN r.scope
                /\ Params!Reads(Params!FirstText(r, p.key), r.scope[p.key])
         ELSE p.key \in DOMAIN r.request.bound => r.scope[p.key] = r.request.bound[p.key]
<1> DEFINE q == r.request
           given == Params!Overrides(q.query, q.seq.params)
           bound == Params!Overlay(q.bound, Params!DefaultsOf(q.seq.params))
<1>1. /\ q.query \in Query /\ IsParams(q.seq.params) /\ Readable(q.query, q.seq.params)
      /\ q.args = Params!Overlay(given, bound)
  BY RunScope, QueriesAre, SequenceIs DEF IsRun, IsRequest, Params!coerceQueryArgs
<1>2. p \in Params!Range(q.seq.params)
  BY DEF Params!Declared
<1>3. p.key \in DOMAIN given <=> Params!InQuery(r, p.key)
  BY <1>1, <1>2, OverridesAre DEF Params!InQuery, Params!Declared
<1>4. /\ DOMAIN q.args = DOMAIN given \cup DOMAIN bound
      /\ \A k \in DOMAIN q.args : q.args[k] = IF k \in DOMAIN given THEN given[k] ELSE bound[k]
  BY <1>1 DEF Params!Overlay
<1>5. DOMAIN bound = DOMAIN q.bound \cup DOMAIN Params!DefaultsOf(q.seq.params)
      /\ \A k \in DOMAIN q.bound : bound[k] = q.bound[k]
  BY DEF Params!Overlay
<1>6. \A k \in DOMAIN q.args : k \in DOMAIN r.scope /\ r.scope[k] = q.args[k]
  BY RunScope
<1>7. CASE Params!InQuery(r, p.key)
  <2>1. p.key \in DOMAIN given
    BY <1>3, <1>7
  <2>2. /\ Params!Asked(q.query, p.key) # 0
        /\ Params!Reads(q.query[Params!Asked(q.query, p.key)][2], given[p.key])
    BY <1>1, <2>1, OverridesAre
  <2>3. Params!FirstText(r, p.key) = q.query[Params!Asked(q.query, p.key)][2]
    BY <1>1, <2>2, FirstTextIs
  <2>4. p.key \in DOMAIN r.scope /\ r.scope[p.key] = given[p.key]
    <3> HIDE DEF given, bound, q
    <3> QED BY <1>4, <1>6, <2>1
  <2> QED BY <1>7, <2>2, <2>3, <2>4
<1>8. CASE ~Params!InQuery(r, p.key)
  <2> SUFFICES ASSUME p.key \in DOMAIN r.request.bound
               PROVE  r.scope[p.key] = r.request.bound[p.key]
    BY <1>8
  <2>1. p.key \notin DOMAIN given
    BY <1>3, <1>8
  <2> HIDE DEF given, bound
  <2> QED BY <1>4, <1>5, <1>6, <2>1
<1> QED BY <1>7, <1>8

\* A place of a field that hands a text on arrived as that text.
LEMMA LeafPasses ==
  ASSUME NEW field, Params!IsField(field), NEW scope, Params!Valued(scope),
         NEW value, value = Params!resolveInto(field, scope), value # Params!None,
         NEW leaf \in Params!Leaves(field, value), NEW k \in DOMAIN scope,
         scope[k].is = "text", Params!Forwards(leaf[1], k)
  PROVE  leaf[2] = scope[k]
<1>1. CASE field.is = "tree"
  <2>1. PICK p \in DOMAIN field.v : leaf = <<field.v[p], value.v[p]>>
    BY <1>1 DEF Params!Leaves
  <2>2. /\ value.v[p] = Params!resolveLeaf(field.v[p], scope) /\ value.v[p] # Params!None
    BY <1>1, ResolvedTree
  <2>3. Params!IsLeaf(field.v[p])
    BY <1>1 DEF Params!IsField, Params!IsLeaf
  <2> QED BY <2>1, <2>2, <2>3, ForwardedWhole
<1>2. CASE field.is # "tree"
  <2>1. leaf = <<field, value>> /\ Params!IsLeaf(field)
    BY <1>2 DEF Params!Leaves, Params!IsField
  <2>2. value = Params!resolveLeaf(field, scope)
    BY <1>2, ResolvedLeaf
  <2> QED BY <2>1, <2>2, ForwardedWhole
<1> QED BY <1>1, <1>2

\* What a field that is nothing but a reference resolves to.
LEMMA FieldPasses ==
  ASSUME NEW field, Params!IsField(field), NEW scope, Params!Valued(scope),
         Params!resolveInto(field, scope) # Params!None, NEW k \in DOMAIN scope,
         scope[k].is = "text", Params!Forwards(field, k)
  PROVE  Params!resolveInto(field, scope) = scope[k]
<1>1. field.is # "tree"
  BY DEF Params!Forwards, Params!Text
<1>2. Params!IsLeaf(field)
  BY <1>1 DEF Params!IsField
<1> QED BY <1>1, <1>2, ResolvedLeaf, ForwardedWhole

\* PassedOnWhole, of one run, one block, one place and one text.
LEMMA RunPasses ==
  ASSUME NEW r, IsRun(r), NEW e \in r.ran, NEW k \in DOMAIN r.scope,
         NEW leaf \in Params!Leaves(e.field, e.value), r.scope[k].is = "text",
         IF e.by.is = "call"
           THEN Params!Forwards(e.by.field, k) /\ Params!Forwards(leaf[1], e.by.key)
           ELSE Params!Forwards(leaf[1], k)
  PROVE  leaf[2] = r.scope[k]
<1>1. IsSequence(r.seq) /\ Params!Valued(r.scope)
  BY RunScope
<1>2. /\ \E n \in Params!Range(r.seq.nodes) :
           Params!IsNode(n) /\ (FromBlock(e, n, r.scope) \/ FromCall(e, n, r.scope))
      /\ Params!IsValue(e.value) /\ e.value # Params!None
  <2>1. e \in Params!runSequence(r.seq, r.scope).ran
    BY DEF IsRun
  <2> QED BY <1>1, <2>1, RunIs
<1>3. PICK n \in Params!Range(r.seq.nodes) :
        Params!IsNode(n) /\ (FromBlock(e, n, r.scope) \/ FromCall(e, n, r.scope))
  BY <1>2
<1>4. Params!IsField(n.field)
  BY <1>3 DEF Params!IsNode
<1>5. CASE FromBlock(e, n, r.scope)
  <2>1. /\ e.by = n /\ n.is # "call" /\ e.field = n.field
        /\ e.value = Params!resolveInto(n.field, r.scope)
    BY <1>5 DEF FromBlock
  <2>2. Params!Forwards(leaf[1], k)
    BY <2>1
  <2> QED BY <1>1, <1>2, <1>4, <2>1, <2>2, LeafPasses
<1>6. CASE FromCall(e, n, r.scope)
  <2> DEFINE inner == Inner(n, r.scope)
             given == Params!resolveInto(n.field, r.scope)
  <2>1. /\ n.is = "call" /\ e.by = n /\ Params!IsValue(given)
        /\ Params!IsField(e.field) /\ e.value = Params!resolveInto(e.field, inner)
    BY <1>6 DEF FromCall
  <2>2. given # Params!None
    BY <2>1, NoneIsNoValue
  <2>3. Params!Forwards(n.field, k) /\ Params!Forwards(leaf[1], n.key)
    BY <2>1
  <2>4. given = r.scope[k]
    BY <1>1, <1>4, <2>2, <2>3, FieldPasses
  <2>5. Params!Valued(inner) /\ n.key \in DOMAIN inner /\ inner[n.key] = given
    <3>1. /\ Params!Valued(inner)
          /\ DOMAIN inner = {n.key} \cup DOMAIN Params!DefaultsOf(Callee.params)
          /\ inner[n.key] = given
      BY <2>1, InnerIs
    <3> HIDE DEF inner, given
    <3> QED BY <3>1
  <2> HIDE DEF inner, given
  <2>6. leaf[2] = inner[n.key]
    BY <1>2, <2>1, <2>3, <2>4, <2>5, LeafPasses
  <2> QED BY <2>4, <2>5, <2>6
<1> QED BY <1>3, <1>5, <1>6

\* Lists of at most one element.
LEMMA AtMostOne ==
  /\ Len(<<>>) = 0 /\ Params!Range(<<>>) = {}
  /\ \A x : Len(<<x>>) = 1 /\ Params!Range(<<x>>) = {x}
BY DEF Params!Range

\* The invariant has the types of TypeOK.
LEMMA InvType == ParamInv => Params!TypeOK
<1> SUFFICES ASSUME ParamInv PROVE Params!TypeOK
  OBVIOUS
<1>1. Len(page) <= 1 /\ \A f \in Params!Range(page) : IsForm(f)
  <2>1. CASE page = <<>>
    BY <2>1, AtMostOne
  <2>2. ASSUME NEW x, page = <<x>>, IsForm(x)
        PROVE  Len(page) <= 1 /\ \A f \in Params!Range(page) : IsForm(f)
    <3>1. Len(page) = 1 /\ Params!Range(page) = {x}
      BY <2>2, AtMostOne
    <3> QED BY <2>2, <3>1
  <2> QED BY <2>1, <2>2 DEF ParamInv
<1>2. Len(pending) <= 1 /\ \A r \in Params!Range(pending) : IsRequest(r)
  <2>1. CASE pending = <<>>
    BY <2>1, AtMostOne
  <2>2. ASSUME NEW x, pending = <<x>>, IsRequest(x)
        PROVE  Len(pending) <= 1 /\ \A r \in Params!Range(pending) : IsRequest(r)
    <3>1. Len(pending) = 1 /\ Params!Range(pending) = {x}
      BY <2>2, AtMostOne
    <3> QED BY <2>2, <3>1
  <2> QED BY <2>1, <2>2 DEF ParamInv
<1>3. Len(last) <= 1 /\ \A r \in Params!Range(last) : IsRun(r)
  <2>1. CASE last = <<>>
    BY <2>1, AtMostOne
  <2>2. ASSUME NEW x, last = <<x>>, IsRun(x)
        PROVE  Len(last) <= 1 /\ \A r \in Params!Range(last) : IsRun(r)
    <3>1. Len(last) = 1 /\ Params!Range(last) = {x}
      BY <2>2, AtMostOne
    <3> QED BY <2>2, <3>1
  <2> QED BY <2>1, <2>2 DEF ParamInv
<1>4. ASSUME NEW r \in Params!Range(last)
      PROVE  Params!Valued(r.scope) /\ \A e \in r.ran : Params!IsValue(e.value)
  <2>1. /\ IsSequence(r.seq) /\ Params!Valued(r.scope)
        /\ r.ran = Params!runSequence(r.seq, r.scope).ran
    BY <1>3, RunScope DEF IsRun
  <2> QED BY <2>1, RunIs
<1>5. seq \in Versions /\ Params!Valued(args)
  BY DEF ParamInv
<1> QED BY <1>1, <1>2, <1>3, <1>4, <1>5 DEF Params!TypeOK, IsForm, IsRequest

-----------------------------------------------------------------------------
(* SequenceStore *)

USE StoreAssumption DEF StoreAssumption

Entry == [id : Ids, body : Bodies, broken : BOOLEAN]

\* An entry that is not marked broken uses known blocks only.
Known(all) == \A i \in DOMAIN all : ~all[i].broken => ~all[i].body.unknownBlock

\* What BrokenIsSound says, of any list.
Sound(all) ==
  \A i \in DOMAIN all : ~all[i].broken => CallsOk(all, i) /\ ~all[i].body.unknownBlock

-----------------------------------------------------------------------------
(* Lists *)

\* A set of indices has a least one.
LEMMA MinIn ==
  ASSUME NEW P, P \subseteq Nat, P # {}
  PROVE  Min(P) \in P
<1>1. PICK m \in P : \A k \in P : <<k, m>> \notin OpToRel(<, Nat)
  BY WFMin, NatLessThanWellFounded, Zenon
<1>2. \A k \in P : ~(k < m)
  BY <1>1, Zenon DEF OpToRel
<1>3. \A k \in P : m <= k
  BY <1>2
<1> QED BY <1>3 DEF Min

\* What is found is in the list.
LEMMA FindIn ==
  ASSUME NEW S, NEW all \in Seq(S), NEW id, findById(all, id) # 0
  PROVE  findById(all, id) \in DOMAIN all
<1>1. Positions(all, id) \subseteq DOMAIN all /\ DOMAIN all \subseteq Nat
  BY LenProperties DEF Positions
<1> QED BY <1>1, MinIn DEF findById

\* RemoveAt shifts what comes after the place one to the left.
LEMMA RemoveAtIs ==
  ASSUME NEW S, NEW all \in Seq(S), NEW at \in DOMAIN all
  PROVE  /\ RemoveAt(all, at) \in Seq(S)
         /\ RemoveAt(all, at) =
              [i \in 1..Len(all) - 1 |-> IF i < at THEN all[i] ELSE all[i + 1]]
<1> DEFINE front == SubSeq(all, 1, at - 1)
           back == SubSeq(all, at + 1, Len(all))
<1>1. at \in 1..Len(all) /\ Len(all) \in Nat /\ DOMAIN all = 1..Len(all)
  BY LenProperties
<1>2. /\ \A i \in 1..at - 1 : i \in 1..Len(all) /\ all[i] \in S
      /\ \A i \in at + 1..Len(all) : i \in 1..Len(all) /\ all[i] \in S
  BY <1>1, ElementOfSeq
<1>3. /\ front \in Seq(S) /\ Len(front) = at - 1
      /\ \A i \in 1..at - 1 : front[i] = all[i]
  BY <1>1, <1>2
<1>4. /\ back \in Seq(S) /\ Len(back) = Len(all) - at
      /\ \A i \in 1..Len(all) - at : back[i] = all[at + i]
  BY <1>1, <1>2
<1>5. RemoveAt(all, at) = front \o back
  BY DEF RemoveAt
<1> HIDE DEF front, back
<1>6. /\ front \o back \in Seq(S)
      /\ DOMAIN (front \o back) = 1..Len(all) - 1
      /\ \A i \in 1..Len(all) - 1 :
           (front \o back)[i] = IF i <= at - 1 THEN all[i] ELSE all[i + 1]
  <2>1. /\ front \o back \in Seq(S) /\ Len(front \o back) = Len(all) - 1
        /\ \A i \in 1..Len(all) - 1 :
             (front \o back)[i] = IF i <= at - 1 THEN front[i] ELSE back[i - (at - 1)]
    <3>1. Len(front) + Len(back) = Len(all) - 1
      BY <1>1, <1>3, <1>4
    <3>2. /\ front \o back \in Seq(S) /\ Len(front \o back) = Len(front) + Len(back)
          /\ \A i \in 1..Len(front) + Len(back) :
               (front \o back)[i] = IF i <= Len(front) THEN front[i]
                                    ELSE back[i - Len(front)]
      BY <1>3, <1>4, ConcatProperties, Zenon
    <3> QED BY <1>3, <3>1, <3>2
  <2>2. ASSUME NEW i \in 1..Len(all) - 1
        PROVE  (front \o back)[i] = IF i <= at - 1 THEN all[i] ELSE all[i + 1]
    <3>1. i <= at - 1 => front[i] = all[i]
      BY <1>1, <1>3
    <3>2. ~(i <= at - 1) => /\ i - (at - 1) \in 1..Len(all) - at
                            /\ at + (i - (at - 1)) = i + 1
      BY <1>1
    <3>3. ~(i <= at - 1) => back[i - (at - 1)] = all[i + 1]
      BY <1>4, <3>2
    <3> QED BY <2>1, <3>1, <3>3
  <2> QED BY <2>1, <2>2, LenProperties
<1>7. \A i \in 1..Len(all) - 1 : i <= at - 1 <=> i < at
  BY <1>1
<1>8. front \o back = [i \in 1..Len(all) - 1 |-> (front \o back)[i]]
  BY <1>6, LenProperties
<1> QED BY <1>5, <1>6, <1>7, <1>8

\* So it keeps the type, and every entry it leaves was there.
LEMMA RemoveAtType ==
  ASSUME NEW S, NEW all \in Seq(S), NEW at \in DOMAIN all
  PROVE  /\ RemoveAt(all, at) \in Seq(S)
         /\ \A i \in DOMAIN RemoveAt(all, at) :
              \E j \in DOMAIN all : RemoveAt(all, at)[i] = all[j]
<1> DEFINE new == RemoveAt(all, at)
<1>1. Len(all) \in Nat /\ DOMAIN all = 1..Len(all)
  BY LenProperties
<1>2. \A i \in 1..Len(all) - 1 : i \in 1..Len(all) /\ i + 1 \in 1..Len(all)
  BY <1>1
<1>3. new \in Seq(S)
      /\ new = [i \in 1..Len(all) - 1 |-> IF i < at THEN all[i] ELSE all[i + 1]]
  BY RemoveAtIs
<1> HIDE DEF new
<1>4. DOMAIN new = 1..Len(all) - 1
  BY <1>3
<1>5. ASSUME NEW i \in 1..Len(all) - 1
      PROVE  \E j \in DOMAIN all : new[i] = all[j]
  <2>1. new[i] = all[i] \/ new[i] = all[i + 1]
    BY <1>3
  <2> QED BY <1>1, <1>2, <2>1
<1> QED BY <1>3, <1>4, <1>5 DEF new

-----------------------------------------------------------------------------
(* Validation changes no id and no body, and leaves a sound list *)

LEMMA ValidateType ==
  ASSUME NEW all \in Seq(Entry)
  PROVE  validateCallSequenceArgs(all) \in Seq(Entry)
<1>1. all \in [1..Len(all) -> Entry] /\ DOMAIN all = 1..Len(all) /\ Len(all) \in Nat
  BY LenProperties
<1>2. \A i \in 1..Len(all) :
        [all[i] EXCEPT !.broken = @ \/ ~CallsOk(all, i)] \in Entry
  BY <1>1 DEF Entry, CallsOk
<1>3. validateCallSequenceArgs(all) \in [1..Len(all) -> Entry]
  BY <1>1, <1>2 DEF validateCallSequenceArgs
<1> QED BY <1>1, <1>3

LEMMA ValidateSound ==
  ASSUME NEW all \in Seq(Entry), Known(all)
  PROVE  Sound(validateCallSequenceArgs(all))
<1> DEFINE new == validateCallSequenceArgs(all)
<1>1. all \in [1..Len(all) -> Entry] /\ DOMAIN all = 1..Len(all)
  BY LenProperties
<1>2. DOMAIN new = DOMAIN all
  BY DEF validateCallSequenceArgs
<1>3. \A i \in DOMAIN all : all[i] \in Entry
  BY <1>1
<1>4. \A i \in DOMAIN all : new[i] = [all[i] EXCEPT !.broken = @ \/ ~CallsOk(all, i)]
  BY DEF validateCallSequenceArgs
<1>5. \A i \in DOMAIN all :
        /\ new[i].id = all[i].id /\ new[i].body = all[i].body
        /\ new[i].broken = (all[i].broken \/ ~CallsOk(all, i))
  BY <1>3, <1>4 DEF Entry
<1> HIDE DEF new
<1>6. \A id : findById(new, id) = findById(all, id)
  BY <1>2, <1>5 DEF findById, Positions
<1>7. \A c : CallOk(new, c) <=> CallOk(all, c)
  <2> SUFFICES ASSUME NEW c PROVE CallOk(new, c) <=> CallOk(all, c)
    OBVIOUS
  <2>1. findById(all, c.to) # 0 => findById(all, c.to) \in DOMAIN all
    BY FindIn
  <2> QED BY <1>5, <1>6, <2>1 DEF CallOk
<1>8. \A i \in DOMAIN all : CallsOk(new, i) <=> CallsOk(all, i)
  BY <1>5, <1>7 DEF CallsOk
<1> QED BY <1>2, <1>5, <1>8 DEF Sound, Known, new

-----------------------------------------------------------------------------
(* The operations on the list *)

\* What load and replaceAll make of a list they have read.
Taken(list) == validateCallSequenceArgs(decodeList(list))

LEMMA TakenSound ==
  ASSUME NEW list \in Seq(Stored)
  PROVE  Taken(list) \in Seq(Entry) /\ Sound(Taken(list))
<1>1. /\ DOMAIN list = 1..Len(list) /\ Len(list) \in Nat
      /\ \A i \in DOMAIN list : list[i] \in Stored
  BY LenProperties, ElementOfSeq
<1>2. \A i \in DOMAIN list :
        /\ Decode(list[i]) \in Entry
        /\ Decode(list[i]).broken = Decode(list[i]).body.unknownBlock
  BY <1>1 DEF Stored, Decode, Entry, BodyShape
<1>3. decodeList(list) \in [1..Len(list) -> Entry]
  BY <1>1, <1>2 DEF decodeList
<1>4. decodeList(list) \in Seq(Entry)
  BY <1>1, <1>3
<1>5. Known(decodeList(list))
  BY <1>2 DEF Known, decodeList
<1> QED BY <1>4, <1>5, ValidateType, ValidateSound DEF Taken

\* What is read of a text is the list, or nothing.
ReadOf(list) == IF Decodes(list) THEN list ELSE <<>>

LEMMA LoadIs ==
  ASSUME NEW list \in Seq(Stored)
  PROVE  load(list) = Taken(ReadOf(list)) /\ ReadOf(list) \in Seq(Stored)
<1>1. load(list) = Taken(ReadOf(list))
  BY DEF load, decodeText, Taken, ReadOf
<1>2. <<>> \in Seq(Stored)
  OBVIOUS
<1> QED BY <1>1, <1>2 DEF ReadOf

LEMMA LoadSound ==
  ASSUME NEW list \in Seq(Stored)
  PROVE  load(list) \in Seq(Entry) /\ Sound(load(list))
<1>1. load(list) = Taken(ReadOf(list)) /\ ReadOf(list) \in Seq(Stored)
  BY LoadIs
<1>2. Taken(ReadOf(list)) \in Seq(Entry) /\ Sound(Taken(ReadOf(list)))
  BY <1>1, TakenSound
<1> QED BY <1>1, <1>2, Zenon

LEMMA AssignStored ==
  ASSUME NEW list \in Seq(Uploaded), drawn \in Nat,
         drawn + Draws(list) <= Len(Stream)
  PROVE  assignIds(list) \in Seq(Stored)
<1>1. /\ DOMAIN list = 1..Len(list) /\ Len(list) \in Nat
      /\ \A i \in DOMAIN list : list[i] \in Uploaded
  BY LenProperties, ElementOfSeq
<1>2. IsFiniteSet(Positions(list, NoId)) /\ Draws(list) \in Nat
  <2>1. IsFiniteSet(1..Len(list))
    BY <1>1, FS_Interval
  <2>2. Positions(list, NoId) \subseteq 1..Len(list)
    BY <1>1 DEF Positions
  <2> QED BY <2>1, <2>2, FS_Subset, FS_CardinalityType DEF Draws
<1>3. ASSUME NEW i \in DOMAIN list, list[i].id = NoId
      PROVE  Stream[drawn + Cardinality(Positions(list, NoId) \cap 1..i)] \in Ids
  <2> DEFINE seen == Positions(list, NoId) \cap 1..i
  <2>1. IsFiniteSet(seen) /\ Cardinality(seen) <= Draws(list)
    BY <1>2, FS_Subset DEF Draws
  <2>2. i \in seen
    BY <1>1, <1>3 DEF Positions
  <2>3. Cardinality(seen) \in Nat /\ Cardinality(seen) # 0
    BY <2>1, <2>2, FS_CardinalityType, FS_EmptySet
  <2>4. drawn + Cardinality(seen) \in 1..Len(Stream)
    <3> HIDE DEF seen
    <3>1. Len(Stream) \in Nat
      BY LenProperties
    <3> QED BY <1>2, <2>1, <2>3, <3>1
  <2>5. Stream \in Seq(Ids)
    OBVIOUS
  <2> QED BY <2>4, <2>5, ElementOfSeq
<1>4. ASSUME NEW i \in DOMAIN list PROVE assignIds(list)[i] \in Stored
  <2>1. PICK id \in Ids \cup {NoId}, b \in Bodies : list[i] = [id |-> id, body |-> b]
    BY <1>1 DEF Uploaded
  <2>2. assignIds(list)[i] =
          IF list[i].id # NoId THEN list[i]
          ELSE [list[i] EXCEPT !.id =
                  Stream[drawn + Cardinality(Positions(list, NoId) \cap 1..i)]]
    BY DEF assignIds
  <2>3. CASE list[i].id # NoId
    BY <2>1, <2>2, <2>3 DEF Stored
  <2>4. CASE list[i].id = NoId
    <3>1. PICK new \in Ids :
            new = Stream[drawn + Cardinality(Positions(list, NoId) \cap 1..i)]
      BY <1>3, <2>4
    <3>2. assignIds(list)[i] = [id |-> new, body |-> b]
      BY <2>1, <2>2, <2>4, <3>1
    <3> QED BY <3>2 DEF Stored
  <2> QED BY <2>3, <2>4
<1>5. /\ DOMAIN assignIds(list) = 1..Len(list)
      /\ assignIds(list) = [i \in 1..Len(list) |-> assignIds(list)[i]]
  BY <1>1 DEF assignIds
<1>6. assignIds(list) \in [1..Len(list) -> Stored]
  BY <1>1, <1>4, <1>5
<1> QED BY <1>1, <1>6

LEMMA UpsertSound ==
  ASSUME NEW all \in Seq(Entry), Sound(all), NEW s \in Stored
  PROVE  upsert(all, Decode(s)) \in Seq(Entry) /\ Sound(upsert(all, Decode(s)))
<1> DEFINE d == Decode(s)
           at == findById(all, d.id)
           new == IF at = 0 THEN Append(all, d) ELSE ReplaceAt(all, at, d)
<1>1. d \in Entry /\ d.broken = d.body.unknownBlock
  BY DEF Stored, Decode, Entry, BodyShape
<1>2. /\ new \in Seq(Entry)
      /\ \A i \in DOMAIN new :
           new[i] = d \/ (i \in DOMAIN all /\ new[i] = all[i])
  <2> HIDE DEF d
  <2>1. CASE at = 0
    BY <1>1, <2>1, LenProperties
  <2>2. CASE at # 0
    <3>1. at \in 1..Len(all) /\ DOMAIN all = 1..Len(all)
      BY <2>2, FindIn, LenProperties
    <3>2. new = [all EXCEPT ![at] = d]
      BY <2>2 DEF ReplaceAt
    <3> HIDE DEF at, new
    <3> QED BY <1>1, <3>1, <3>2, ExceptSeq
  <2> QED BY <2>1, <2>2
<1>3. Known(new)
  <2> HIDE DEF new, d
  <2> QED BY <1>1, <1>2 DEF Known, Sound
<1>4. upsert(all, d) = validateCallSequenceArgs(new)
  BY DEF upsert
<1> QED BY <1>2, <1>3, <1>4, ValidateType, ValidateSound

LEMMA RemoveSound ==
  ASSUME NEW all \in Seq(Entry), Sound(all), NEW id, findById(all, id) # 0
  PROVE  removeById(all, id) \in Seq(Entry) /\ Sound(removeById(all, id))
<1> DEFINE new == RemoveAt(all, findById(all, id))
<1>1. /\ new \in Seq(Entry)
      /\ \A i \in DOMAIN new : \E j \in DOMAIN all : new[i] = all[j]
  BY FindIn, RemoveAtType
<1>2. Known(new)
  <2> HIDE DEF new
  <2> QED BY <1>1 DEF Known, Sound
<1> QED BY <1>1, <1>2, ValidateType, ValidateSound DEF removeById

LEMMA EncodeStored ==
  ASSUME NEW all \in Seq(Entry)
  PROVE  encodeList(all) \in Seq(Stored)
<1>1. /\ DOMAIN all = 1..Len(all) /\ Len(all) \in Nat
      /\ \A i \in DOMAIN all : all[i] \in Entry
  BY LenProperties, ElementOfSeq
<1>2. \A i \in DOMAIN all : Encode(all[i]) \in Stored
  BY <1>1 DEF Entry, Encode, Stored
<1>3. encodeList(all) \in [1..Len(all) -> Stored]
  BY <1>1, <1>2 DEF encodeList
<1> QED BY <1>1, <1>3

-----------------------------------------------------------------------------
(* The invariant *)

StoreInv == TypeOK /\ Sound(seqs_)

LEMMA InvInit == Init => StoreInv
<1> SUFFICES ASSUME Init PROVE StoreInv
  OBVIOUS
<1>1. seqs_ \in Seq(Entry) /\ Sound(seqs_) /\ nvs \in Seq(Stored)
  BY LoadSound DEF Init
<1>2. drawn \in 0..Len(Stream)
  BY LenProperties DEF Init
<1> QED BY <1>1, <1>2 DEF Init, StoreInv, TypeOK, Entry

LEMMA InvStep == StoreInv /\ [Next]_vars => StoreInv'
<1> SUFFICES ASSUME StoreInv, [Next]_vars PROVE StoreInv'
  OBVIOUS
<1>1. /\ seqs_ \in Seq(Entry) /\ Sound(seqs_) /\ nvs \in Seq(Stored)
      /\ drawn \in 0..Len(Stream) /\ drawn \in Nat /\ Len(Stream) \in Nat
      /\ upload \in Seq(Uploaded)
      /\ hpc = "fill" => drawn + Draws(upload) <= Len(Stream)
  BY LenProperties DEF StoreInv, TypeOK, Entry
<1> DEFINE Kept == /\ seqs_' \in Seq(Entry) /\ Sound(seqs_') /\ nvs' \in Seq(Stored)
                   /\ drawn' \in 0..Len(Stream) /\ hpc' \in {"idle", "fill", "save"}
                   /\ upload' \in Seq(Uploaded)
                   /\ hpc' = "fill" => drawn' + Draws(upload') <= Len(Stream)
<1>2. SUFFICES Kept
  BY DEF StoreInv, TypeOK, Entry, Draws, Positions
<1>3. CASE PutListClear
  <2>1. upload' \in Seq(Uploaded) /\ drawn + Draws(upload') <= Len(Stream)
    BY <1>3, UploadAssumption DEF PutListClear
  <2>2. seqs_' \in Seq(Entry) /\ Sound(seqs_')
    BY <1>3 DEF PutListClear, Sound
  <2> QED BY <1>1, <1>3, <2>1, <2>2 DEF PutListClear
<1>4. CASE PutListFill
  <2>1. assignIds(upload) \in Seq(Stored) /\ hpc = "fill"
    BY <1>1, <1>4, AssignStored DEF PutListFill
  <2>2. seqs_' = Taken(assignIds(upload))
    BY <1>4 DEF PutListFill, replaceAll, Taken
  <2>3. seqs_' \in Seq(Entry) /\ Sound(seqs_')
    BY <2>1, <2>2, TakenSound
  <2>4. Draws(upload) \in Nat
    <3>1. DOMAIN upload = 1..Len(upload) /\ Len(upload) \in Nat
      BY <1>1, LenProperties
    <3>2. IsFiniteSet(1..Len(upload)) /\ Positions(upload, NoId) \subseteq 1..Len(upload)
      BY <3>1, FS_Interval DEF Positions
    <3> QED BY <3>2, FS_Subset, FS_CardinalityType DEF Draws
  <2>5. drawn' \in 0..Len(Stream)
    BY <1>1, <1>4, <2>1, <2>4 DEF PutListFill
  <2> QED BY <1>1, <1>4, <2>3, <2>5 DEF PutListFill
<1>5. CASE Save
  BY <1>1, <1>5, EncodeStored DEF Save
<1>6. CASE Restart
  <2>1. nvs' \in Seq(Stored)
    BY <1>1, <1>6 DEF Restart
  <2>2. seqs_' \in Seq(Entry) /\ Sound(seqs_')
    BY <1>6, <2>1, LoadSound DEF Restart
  <2> QED BY <1>1, <1>6, <2>1, <2>2 DEF Restart
<1>7. ASSUME NEW s \in Stored, PutOne(s) PROVE Kept
  <2>1. seqs_' \in Seq(Entry) /\ Sound(seqs_')
    BY <1>1, <1>7, UpsertSound DEF PutOne
  <2> QED BY <1>1, <1>7, <2>1 DEF PutOne
<1>8. ASSUME NEW b \in Bodies, Insert(b) PROVE Kept
  <2> DEFINE s == [id |-> Stream[drawn + 1], body |-> b]
  <2>1. drawn + 1 \in 1..Len(Stream)
    BY <1>1, <1>8 DEF Insert
  <2>2. s \in Stored
    BY <2>1, ElementOfSeq DEF Stored
  <2>3. seqs_' = upsert(seqs_, Decode(s))
    BY <1>8 DEF Insert
  <2> HIDE DEF s
  <2>4. seqs_' \in Seq(Entry) /\ Sound(seqs_')
    BY <1>1, <2>2, <2>3, UpsertSound
  <2> QED BY <1>1, <1>8, <2>1, <2>4 DEF Insert
<1>9. ASSUME NEW id \in Ids, Delete(id) PROVE Kept
  <2>1. seqs_' \in Seq(Entry) /\ Sound(seqs_')
    BY <1>1, <1>9, RemoveSound DEF Delete
  <2> QED BY <1>1, <1>9, <2>1 DEF Delete
<1>10. CASE UNCHANGED vars
  <2>1. hpc' \in {"idle", "fill", "save"}
    BY <1>10 DEF vars, StoreInv, TypeOK
  <2> QED BY <1>1, <1>10, <2>1 DEF vars
<1> QED BY <1>3, <1>4, <1>5, <1>6, <1>7, <1>8, <1>9, <1>10 DEF Next

\* Type correctness: ids are assigned before an upload enters the list, and
\* newId() is never asked for more ids than its stream is modelled with.
THEOREM TypeCorrect == Spec => []TypeOK
<1>1. StoreInv => TypeOK
  BY DEF StoreInv
<1> QED BY <1>1, InvInit, InvStep, PTL DEF Spec

\* A sequence not marked broken can be run: its blocks are known, and each
\* sequence it calls is there and gets the arguments it requires.
THEOREM BrokenIsSoundEver == Spec => []BrokenIsSound
<1>1. StoreInv => BrokenIsSound
  BY DEF StoreInv, Sound, BrokenIsSound
<1> QED BY <1>1, InvInit, InvStep, PTL DEF Spec

-----------------------------------------------------------------------------
(* The flag is exact after a load *)

LEMMA ValidateExact ==
  ASSUME NEW list \in Seq(Stored)
  PROVE  \A i \in DOMAIN Taken(list) :
           Taken(list)[i].broken <=>
             ~CallsOk(Taken(list), i) \/ Taken(list)[i].body.unknownBlock
<1> DEFINE all == decodeList(list)
           new == Taken(list)
<1>1. /\ DOMAIN list = 1..Len(list) /\ Len(list) \in Nat
      /\ \A i \in DOMAIN list : list[i] \in Stored
  BY LenProperties, ElementOfSeq
<1>2. \A i \in DOMAIN list :
        /\ Decode(list[i]) \in Entry
        /\ Decode(list[i]).broken = Decode(list[i]).body.unknownBlock
  BY <1>1 DEF Stored, Decode, Entry, BodyShape
<1>3. /\ DOMAIN all = DOMAIN list /\ DOMAIN new = DOMAIN list
      /\ \A i \in DOMAIN list :
           all[i] \in Entry /\ all[i].broken = all[i].body.unknownBlock
  BY <1>2 DEF Taken, validateCallSequenceArgs, decodeList
<1>4. all \in [1..Len(list) -> Entry]
  BY <1>1, <1>2 DEF decodeList
<1>5. all \in Seq(Entry)
  BY <1>1, <1>4
<1>6. \A i \in DOMAIN list : new[i] = [all[i] EXCEPT !.broken = @ \/ ~CallsOk(all, i)]
  BY <1>3 DEF Taken, validateCallSequenceArgs
<1> HIDE DEF all, new
<1>7. \A i \in DOMAIN list :
        /\ new[i].id = all[i].id /\ new[i].body = all[i].body
        /\ new[i].broken = (all[i].broken \/ ~CallsOk(all, i))
  BY <1>3, <1>6 DEF Entry
<1>8. \A id : findById(new, id) = findById(all, id)
  BY <1>3, <1>7 DEF findById, Positions
<1>9. \A c : CallOk(new, c) <=> CallOk(all, c)
  <2> SUFFICES ASSUME NEW c PROVE CallOk(new, c) <=> CallOk(all, c)
    OBVIOUS
  <2>1. findById(all, c.to) # 0 => findById(all, c.to) \in DOMAIN all
    BY <1>5, FindIn
  <2> QED BY <1>3, <1>7, <1>8, <2>1 DEF CallOk
<1>10. \A i \in DOMAIN list : CallsOk(new, i) <=> CallsOk(all, i)
  BY <1>7, <1>9 DEF CallsOk
<1> QED BY <1>3, <1>7, <1>10 DEF new

\* After a boot, and after a PUT of the whole list, a sequence is marked broken
\* exactly when it could not be run: no flag of an earlier time survives.
THEOREM LoadIsExactEver == Spec => LoadIsExact
<1>1. StoreInv /\ [Next]_vars => [(Restart \/ PutListFill) => BrokenIsExact']_vars
  <2> SUFFICES ASSUME StoreInv, Restart \/ PutListFill PROVE BrokenIsExact'
    OBVIOUS
  <2>1. PICK list \in Seq(Stored) : seqs_' = Taken(list)
    <3>1. CASE Restart
      <4>1. nvs' \in Seq(Stored) /\ seqs_' = load(nvs')
        BY <3>1 DEF Restart, StoreInv, TypeOK
      <4>2. load(nvs') = Taken(ReadOf(nvs')) /\ ReadOf(nvs') \in Seq(Stored)
        BY <4>1, LoadIs
      <4> QED BY <4>1, <4>2, Zenon
    <3>2. CASE PutListFill
      <4>1. drawn \in Nat /\ upload \in Seq(Uploaded) /\ drawn + Draws(upload) <= Len(Stream)
        BY <3>2, LenProperties DEF StoreInv, TypeOK, PutListFill
      <4> QED BY <3>2, <4>1, AssignStored DEF PutListFill, replaceAll, Taken
    <3> QED BY <3>1, <3>2
  <2>2. \A i \in DOMAIN seqs_' :
          seqs_'[i].broken <=> ~CallsOk(seqs_', i) \/ seqs_'[i].body.unknownBlock
    BY <2>1, ValidateExact
  <2> QED BY <2>2, Zenon DEF BrokenIsExact, CallsOk, CallOk, findById, Positions
<1> QED BY <1>1, InvInit, InvStep, PTL DEF Spec, LoadIsExact

-----------------------------------------------------------------------------
(* What has been answered is saved *)

LEMMA EncodeTaken ==
  ASSUME NEW list \in Seq(Stored)
  PROVE  encodeList(Taken(list)) = list
<1>1. /\ DOMAIN list = 1..Len(list) /\ Len(list) \in Nat
      /\ \A i \in DOMAIN list : list[i] \in Stored
  BY LenProperties, ElementOfSeq
<1>2. \A i \in DOMAIN list : Encode(Decode(list[i])) = list[i]
  BY <1>1 DEF Encode, Decode, Stored
<1>3. /\ DOMAIN encodeList(Taken(list)) = DOMAIN list
      /\ \A i \in DOMAIN list : encodeList(Taken(list))[i] = Encode(Decode(list[i]))
  BY DEF encodeList, Taken, validateCallSequenceArgs, decodeList, Encode, Decode
<1>4. encodeList(Taken(list)) = [i \in DOMAIN list |-> encodeList(Taken(list))[i]]
  BY <1>3 DEF encodeList
<1>5. list = [i \in DOMAIN list |-> list[i]]
  BY <1>1, LenProperties
<1> QED BY <1>2, <1>3, <1>4, <1>5

\* What can be read back is; of the rest nothing is.
LEMMA EncodeLoad ==
  ASSUME NEW list \in Seq(Stored)
  PROVE  /\ Decodes(list) => encodeList(load(list)) = list
         /\ load(list) = <<>> <=> (list = <<>> \/ ~Decodes(list))
<1> DEFINE given == ReadOf(list)
<1>1. load(list) = Taken(given) /\ given \in Seq(Stored)
  BY LoadIs
<1>2. encodeList(load(list)) = given
  <2> HIDE DEF given
  <2>1. encodeList(Taken(given)) = given
    BY <1>1, EncodeTaken
  <2> QED BY <1>1, <2>1, Zenon
<1>3. load(list) = <<>> => given = <<>>
  <2>1. encodeList(<<>>) = <<>>
    BY DEF encodeList
  <2> HIDE DEF given
  <2> QED BY <1>2, <2>1, Zenon
<1>4. given = <<>> => load(list) = <<>>
  <2>1. Taken(<<>>) = <<>>
    BY DEF Taken, decodeList, validateCallSequenceArgs
  <2> HIDE DEF given
  <2> QED BY <1>1, <2>1, Zenon
<1>5. list = <<>> => Decodes(list)
  BY DEF Decodes
<1>6. (Decodes(list) => given = list) /\ (~Decodes(list) => given = <<>>)
  BY DEF ReadOf
<1> HIDE DEF given
<1> QED BY <1>2, <1>3, <1>4, <1>5, <1>6, Zenon

\* The codec changes nothing that decides whether a list can be read.
LEMMA DecodesEncoded ==
  ASSUME NEW all \in Seq(Entry)
  PROVE  Decodes(encodeList(all)) <=> Decodes(all)
<1>1. DOMAIN encodeList(all) = DOMAIN all
      /\ \A i \in DOMAIN all : encodeList(all)[i].body = all[i].body
  BY DEF encodeList, Encode
<1> QED BY <1>1, Zenon DEF Decodes

\* When no request is being handled, a restart would read back the list in
\* memory, if that fits and is not nested too deep.
THEOREM AnsweredIsSavedEver == Spec => []AnsweredIsSaved
<1>1. StoreInv /\ Init => AnsweredIsSaved
  BY DEF Init, AnsweredIsSaved
<1>2. StoreInv /\ StoreInv' /\ AnsweredIsSaved /\ [Next]_vars => AnsweredIsSaved'
  <2> SUFFICES ASSUME StoreInv, StoreInv', AnsweredIsSaved, [Next]_vars
               PROVE  AnsweredIsSaved'
    OBVIOUS
  <2>1. CASE PutListClear \/ PutListFill
    BY <2>1 DEF PutListClear, PutListFill, AnsweredIsSaved
  <2>2. CASE Save
    <3>1. seqs_ \in Seq(Entry) /\ seqs_' = seqs_
      BY <2>2 DEF Save, StoreInv, TypeOK, Entry
    <3>2. SUFFICES ASSUME Fits(encodeList(seqs_)), Decodes(seqs_)
                   PROVE  encodeList(load(nvs')) = encodeList(seqs_)
      BY <3>1 DEF AnsweredIsSaved
    <3>3. nvs' = encodeList(seqs_)
      BY <2>2, <3>2 DEF Save
    <3> QED BY <3>1, <3>2, <3>3, EncodeStored, EncodeLoad, DecodesEncoded
  <2>3. CASE Restart
    BY <2>3 DEF Restart, AnsweredIsSaved
  <2>4. CASE \/ \E s \in Stored : PutOne(s)
             \/ \E b \in Bodies : Insert(b)
             \/ \E id \in Ids : Delete(id)
    BY <2>4 DEF PutOne, Insert, Delete, AnsweredIsSaved
  <2>5. CASE UNCHANGED vars
    BY <2>5 DEF vars, AnsweredIsSaved
  <2> QED BY <2>1, <2>2, <2>3, <2>4, <2>5 DEF Next
<1> QED BY <1>1, <1>2, InvInit, InvStep, PTL DEF Spec

-----------------------------------------------------------------------------
(* The store implements DurableList *)

\* What encodeList makes of each entry.
LEMMA Encoded ==
  ASSUME NEW all \in Seq(Entry)
  PROVE  /\ encodeList(all) \in Seq(Stored)
         /\ Len(encodeList(all)) = Len(all) /\ Len(all) \in Nat
         /\ DOMAIN encodeList(all) = 1..Len(all) /\ DOMAIN all = 1..Len(all)
         /\ \A i \in 1..Len(all) : encodeList(all)[i] = Encode(all[i]) /\ all[i] \in Entry
<1>1. encodeList(all) \in Seq(Stored)
  BY EncodeStored
<1>2. Len(all) \in Nat /\ DOMAIN all = 1..Len(all)
  BY LenProperties
<1>3. DOMAIN encodeList(all) = 1..Len(all)
  BY <1>2 DEF encodeList
<1>4. Len(encodeList(all)) = Len(all)
  BY <1>1, <1>2, <1>3, LenProperties
<1>5. \A i \in 1..Len(all) : encodeList(all)[i] = Encode(all[i]) /\ all[i] \in Entry
  BY <1>2, ElementOfSeq DEF encodeList
<1> QED BY <1>1, <1>2, <1>3, <1>4, <1>5

\* Two lists of sequences as NVS holds them are equal if they agree everywhere.
LEMMA SameList ==
  ASSUME NEW a \in Seq(Stored), NEW b \in Seq(Stored), Len(a) = Len(b),
         \A i \in 1..Len(a) : a[i] = b[i]
  PROVE  a = b
BY SeqEqual

\* The validation is invisible in NVS, which has no broken flag.
LEMMA EncodeValidate ==
  ASSUME NEW all \in Seq(Entry)
  PROVE  encodeList(validateCallSequenceArgs(all)) = encodeList(all)
<1> DEFINE new == validateCallSequenceArgs(all)
<1>1. Len(all) \in Nat /\ DOMAIN all = 1..Len(all) /\ \A i \in 1..Len(all) : all[i] \in Entry
  BY Encoded
<1>2. DOMAIN new = DOMAIN all
      /\ \A i \in DOMAIN all : new[i] = [all[i] EXCEPT !.broken = @ \/ ~CallsOk(all, i)]
  BY DEF validateCallSequenceArgs
<1> HIDE DEF new
<1>3. \A i \in DOMAIN all : new[i].id = all[i].id /\ new[i].body = all[i].body
  BY <1>1, <1>2 DEF Entry
<1>4. encodeList(new) = encodeList(all)
  BY <1>2, <1>3 DEF encodeList, Encode
<1> QED BY <1>4 DEF new

\* An id is at the same place in memory and in NVS.
LEMMA SamePlace ==
  ASSUME NEW all \in Seq(Entry), NEW id
  PROVE  Promise!Position(encodeList(all), id) = findById(all, id)
<1> DEFINE was == encodeList(all)
<1>1. /\ Len(was) = Len(all) /\ DOMAIN all = 1..Len(all)
      /\ \A i \in 1..Len(all) : was[i] = Encode(all[i])
  BY Encoded
<1> HIDE DEF was
<1>2. ASSUME NEW i \in 1..Len(all) PROVE was[i].id = all[i].id
  <2>1. was[i] = [id |-> all[i].id, body |-> all[i].body]
    BY <1>1 DEF Encode
  <2> QED BY <2>1
<1>3. {i \in 1..Len(was) : was[i].id = id} = Positions(all, id)
  BY <1>1, <1>2 DEF Positions
<1>4. Promise!Position(was, id) = IF {i \in 1..Len(was) : was[i].id = id} = {} THEN 0
                                 ELSE Min({i \in 1..Len(was) : was[i].id = id})
  BY DEF Promise!Position, Promise!SelectInSeq, Promise!Min, Min
<1> QED BY <1>3, <1>4 DEF was, findById

\* Insert or replace is, in NVS, what the promise makes of the request.
LEMMA EncodePut ==
  ASSUME NEW all \in Seq(Entry), Sound(all), NEW s \in Stored
  PROVE  encodeList(upsert(all, Decode(s))) = Promise!Put(encodeList(all), s)
<1> DEFINE d == Decode(s)
           at == findById(all, s.id)
<1>1. d \in Entry /\ d.id = s.id /\ Encode(d) = s
  <2>1. PICK id \in Ids, b \in Bodies : s = [id |-> id, body |-> b]
    BY DEF Stored
  <2>2. b \in BodyShape
    OBVIOUS
  <2>3. b.unknownBlock \in BOOLEAN
    BY <2>2 DEF BodyShape
  <2> QED BY <2>1, <2>3 DEF Decode, Entry, Encode
<1>2. Promise!Position(encodeList(all), s.id) = at
  BY SamePlace
<1>3. upsert(all, d) = validateCallSequenceArgs(IF at = 0 THEN Append(all, d)
                                                ELSE ReplaceAt(all, at, d))
  BY <1>1 DEF upsert
<1> HIDE DEF d
<1>4. CASE at = 0
  <2>1. Append(all, d) \in Seq(Entry) /\ Len(Append(all, d)) = Len(all) + 1
        /\ \A i \in 1..Len(all) + 1 :
             Append(all, d)[i] = IF i <= Len(all) THEN all[i] ELSE d
    BY <1>1, Encoded, AppendProperties
  <2>2. Append(encodeList(all), s) \in Seq(Stored)
        /\ Len(Append(encodeList(all), s)) = Len(all) + 1
        /\ \A i \in 1..Len(all) + 1 :
             Append(encodeList(all), s)[i] = IF i <= Len(all) THEN Encode(all[i]) ELSE s
    BY Encoded, AppendProperties
  <2>3. encodeList(Append(all, d)) = Append(encodeList(all), s)
    <3> DEFINE new == Append(all, d)
               next == Append(encodeList(all), s)
    <3>1. /\ encodeList(new) \in Seq(Stored) /\ Len(encodeList(new)) = Len(all) + 1
          /\ \A i \in 1..Len(all) + 1 : encodeList(new)[i] = Encode(new[i])
      BY <2>1, Encoded
    <3>2. \A i \in 1..Len(all) + 1 : encodeList(new)[i] = next[i]
      BY <1>1, <2>1, <2>2, <3>1
    <3> QED BY <2>2, <3>1, <3>2, SameList
  <2>4. encodeList(upsert(all, d)) = Append(encodeList(all), s)
    BY <1>3, <1>4, <2>1, <2>3, EncodeValidate
  <2> QED BY <1>2, <1>4, <2>4 DEF Promise!Put, d
<1>5. CASE at # 0
  <2>1. at \in 1..Len(all)
    BY <1>5, FindIn, LenProperties
  <2> HIDE DEF at
  <2>2. ReplaceAt(all, at, d) \in Seq(Entry) /\ Len(ReplaceAt(all, at, d)) = Len(all)
        /\ \A i \in 1..Len(all) : ReplaceAt(all, at, d)[i] = IF i = at THEN d ELSE all[i]
    BY <1>1, <2>1, ExceptSeq, Encoded DEF ReplaceAt
  <2>3. LET new == [encodeList(all) EXCEPT ![at] = s] IN
          /\ new \in Seq(Stored) /\ Len(new) = Len(all)
          /\ \A i \in 1..Len(all) : new[i] = IF i = at THEN s ELSE Encode(all[i])
    BY <2>1, ExceptSeq, Encoded
  <2>4. encodeList(ReplaceAt(all, at, d)) = [encodeList(all) EXCEPT ![at] = s]
    <3> DEFINE new == ReplaceAt(all, at, d)
               next == [encodeList(all) EXCEPT ![at] = s]
    <3>1. /\ encodeList(new) \in Seq(Stored) /\ Len(encodeList(new)) = Len(all)
          /\ \A i \in 1..Len(all) : encodeList(new)[i] = Encode(new[i])
      BY <2>2, Encoded
    <3>2. \A i \in 1..Len(all) : encodeList(new)[i] = next[i]
      BY <1>1, <2>2, <2>3, <3>1
    <3> QED BY <2>3, <3>1, <3>2, SameList
  <2>5. encodeList(upsert(all, d)) = [encodeList(all) EXCEPT ![at] = s]
    BY <1>3, <1>5, <2>2, <2>4, EncodeValidate
  <2> QED BY <1>2, <1>5, <2>5 DEF Promise!Put, Promise!ReplaceAt, d
<1> QED BY <1>4, <1>5

\* And so is a deletion.
LEMMA EncodeDelete ==
  ASSUME NEW all \in Seq(Entry), Sound(all), NEW id, findById(all, id) # 0
  PROVE  encodeList(removeById(all, id)) = Promise!Delete(encodeList(all), id)
<1> DEFINE at == findById(all, id)
           was == encodeList(all)
<1>1. at \in 1..Len(all) /\ at \in DOMAIN all /\ at \in DOMAIN was
  BY FindIn, Encoded
<1>2. Promise!Position(was, id) = at
  BY SamePlace
<1>3. removeById(all, id) = validateCallSequenceArgs(RemoveAt(all, at))
  BY DEF removeById
<1>6. was \in Seq(Stored) /\ Len(was) = Len(all) /\ Len(all) \in Nat
      /\ \A i \in 1..Len(all) : was[i] = Encode(all[i])
  BY Encoded
<1> HIDE DEF at, was
<1>4. /\ RemoveAt(all, at) \in Seq(Entry)
      /\ RemoveAt(all, at) = [i \in 1..Len(all) - 1 |-> IF i < at THEN all[i] ELSE all[i + 1]]
  BY <1>1, RemoveAtIs
<1>5. /\ RemoveAt(was, at) \in Seq(Stored)
      /\ RemoveAt(was, at) = [i \in 1..Len(all) - 1 |-> IF i < at THEN was[i] ELSE was[i + 1]]
  BY <1>1, <1>6, RemoveAtIs
<1>7. \A i \in 1..Len(all) - 1 : i \in 1..Len(all) /\ i + 1 \in 1..Len(all)
  BY <1>6
<1>8. encodeList(RemoveAt(all, at)) = RemoveAt(was, at)
  BY <1>4, <1>5, <1>6, <1>7 DEF encodeList
<1>9. encodeList(removeById(all, id)) = RemoveAt(was, at)
  BY <1>3, <1>4, <1>8, EncodeValidate
<1>10. at # 0
  BY <1>1
<1> QED BY <1>2, <1>9, <1>10 DEF Promise!Delete, Promise!RemoveAt, RemoveAt, was

\* What a boot with an empty NVS leaves is where the promise begins.
LEMMA RefInit == Init => Promise!AbsInit
BY EncodeLoad, DefaultsAssumption DEF Init, Promise!AbsInit

\* Each step maps to a step of the promise or to none.
LEMMA RefStep ==
  ASSUME StoreInv, [Next]_vars
  PROVE  [Promise!AbsNext]_<<encodeList(seqs_), nvs, hpc>>
<1>1. /\ seqs_ \in Seq(Entry) /\ Sound(seqs_) /\ nvs \in Seq(Stored)
      /\ drawn \in Nat /\ Len(Stream) \in Nat /\ upload \in Seq(Uploaded)
      /\ hpc = "fill" => drawn + Draws(upload) <= Len(Stream)
  BY LenProperties DEF StoreInv, TypeOK, Entry
<1>2. CASE PutListClear
  <2>1. encodeList(seqs_') = <<>>
    BY <1>2 DEF PutListClear, encodeList
  <2> QED BY <1>2, <2>1 DEF PutListClear, Promise!AbsNext, Promise!Clear, encodeList
<1>3. CASE PutListFill
  <2>1. assignIds(upload) \in Seq(Stored)
    BY <1>1, <1>3, AssignStored DEF PutListFill
  <2>2. seqs_' = Taken(assignIds(upload))
    BY <1>3 DEF PutListFill, replaceAll, Taken
  <2>3. encodeList(seqs_') \in Seq(Stored)
    BY <2>1, <2>2, EncodeTaken
  <2> QED BY <1>3, <2>3 DEF PutListFill, Promise!AbsNext, Promise!Fill, encodeList
<1>4. ASSUME NEW s \in Stored, hpc = "idle", hpc' = "save", nvs' = nvs,
             seqs_' = upsert(seqs_, Decode(s))
      PROVE  Promise!AbsNext
  <2>1. encodeList(seqs_') = Promise!Put(encodeList(seqs_), s)
    BY <1>1, <1>4, EncodePut
  <2> QED BY <1>4, <2>1 DEF Promise!AbsNext, Promise!Change, encodeList
<1>5. ASSUME NEW s \in Stored, PutOne(s) PROVE Promise!AbsNext
  BY <1>4, <1>5 DEF PutOne
<1>6. ASSUME NEW b \in Bodies, Insert(b) PROVE Promise!AbsNext
  <2> DEFINE s == [id |-> Stream[drawn + 1], body |-> b]
  <2>1. drawn + 1 \in 1..Len(Stream)
    BY <1>1, <1>6 DEF Insert
  <2>2. s \in Stored
    BY <2>1, ElementOfSeq DEF Stored
  <2>3. hpc = "idle" /\ hpc' = "save" /\ nvs' = nvs /\ seqs_' = upsert(seqs_, Decode(s))
    BY <1>6 DEF Insert
  <2> HIDE DEF s
  <2> QED BY <1>4, <2>2, <2>3
<1>7. ASSUME NEW id \in Ids, Delete(id) PROVE Promise!AbsNext
  <2>1. hpc = "idle" /\ hpc' = "save" /\ nvs' = nvs
        /\ findById(seqs_, id) # 0 /\ seqs_' = removeById(seqs_, id)
    BY <1>7 DEF Delete
  <2>2. encodeList(seqs_') = Promise!Delete(encodeList(seqs_), id)
    BY <1>1, <2>1, EncodeDelete
  <2> QED BY <2>1, <2>2 DEF Promise!AbsNext, Promise!Change, encodeList
<1>8. CASE Save
  <2>1. encodeList(seqs_) \in Seq(Stored)
    BY <1>1, EncodeStored
  <2>2. encodeList(seqs_) \in {list \in Seq(Stored) : Fits(list)}
          <=> Fits(encodeList(seqs_))
    BY <2>1
  <2> QED BY <1>8, <2>2 DEF Save, Promise!AbsNext, Promise!Commit, encodeList
<1>9. CASE Restart
  <2>1. nvs \in {list \in Seq(Stored) : Decodes(list)} \ {<<>>} <=> load(nvs) # <<>>
    BY <1>1, EncodeLoad
  <2>2. nvs' \in Seq(Stored) /\ Decodes(nvs')
    BY <1>1, <1>9, EncodeLoad, DefaultsAssumption DEF Restart
  <2>3. encodeList(seqs_') = nvs'
    BY <1>9, <2>2, EncodeLoad DEF Restart
  <2> QED BY <1>9, <2>1, <2>3 DEF Restart, Promise!AbsNext, Promise!Restart, encodeList
<1>10. CASE UNCHANGED vars
  BY <1>10 DEF vars, encodeList
<1> QED BY <1>2, <1>3, <1>5, <1>6, <1>7, <1>8, <1>9, <1>10 DEF Next

\* What survives a restart changes only by whole requests that the storage takes,
\* or by the defaults seeded over what is empty or cannot be read: no restart
\* finds the list emptied or half made.
THEOREM KeepsPromiseEver == Spec => KeepsPromise
<1>1. Init => Promise!AbsInit
  BY RefInit
<1>2. StoreInv /\ [Next]_vars => [Promise!AbsNext]_<<encodeList(seqs_), nvs, hpc>>
  BY RefStep
<1> QED BY <1>1, <1>2, InvInit, InvStep, PTL
        DEF Spec, KeepsPromise, Promise!AbsSpec, Promise!absVars

-----------------------------------------------------------------------------
(* StoreParts *)

\* Both invariants hold at the start.
LEMMA PartsInitInv == PartsInit => StoreInv /\ ParamInv
BY InvInit, ParamInit DEF PartsInit

\* Every step of either part keeps them.
LEMMA PartsStepInv ==
  StoreInv /\ ParamInv /\ [PartsNext]_<<part, vars, paramVars>> => StoreInv' /\ ParamInv'
<1> SUFFICES ASSUME StoreInv, ParamInv, [PartsNext]_<<part, vars, paramVars>>
             PROVE  StoreInv' /\ ParamInv'
  OBVIOUS
<1>1. [Next]_vars /\ [Params!Next]_paramVars
  BY DEF PartsNext
<1> QED BY <1>1, InvStep, ParamStep

\* Type correctness of both parts: above all, no unread text, no unresolved
\* reference and no None ever gets into arguments, a scope or a block.
THEOREM PartsTypeCorrect == PartsSpec => []PartsTypeOK
<1>1. StoreInv /\ ParamInv => PartsTypeOK
  BY InvType DEF StoreInv, PartsTypeOK
<1> QED BY <1>1, PartsInitInv, PartsStepInv, PTL DEF PartsSpec

\* The query has the last word on what it names, then the binding, then the
\* defaults of the sequence, however the sequence and the binding change between
\* the request and its run (QueryCoerce.cpp, buildScope of Interpreter.cpp).
THEOREM PrecedenceEver == PartsSpec => []Precedence
<1>1. ParamInv => Precedence
  <2> SUFFICES ASSUME ParamInv, NEW r \in Params!Range(last)
               PROVE  /\ r.request.from = "route" =>
                           \A p \in Params!Declared(r) :
                             IF Params!InQuery(r, p.key)
                               THEN /\ p.key \in DOMAIN r.scope
                                    /\ Params!Reads(Params!FirstText(r, p.key), r.scope[p.key])
                             ELSE p.key \in DOMAIN r.request.bound =>
                                    r.scope[p.key] = r.request.bound[p.key]
                      /\ \A p \in Params!Range(r.seq.params) :
                           p.default # Params!None => p.key \in DOMAIN r.scope
    BY DEF Precedence, Params!Precedence
  <2>1. IsRun(r)
    BY AtMostOne DEF ParamInv
  <2>2. \A p \in Params!Range(r.seq.params) :
          p.default # Params!None => p.key \in DOMAIN r.scope
    BY <2>1, RunScope, SequenceIs, DefaultsType
  <2> QED BY <2>1, <2>2, RunPrecedence
<1> QED BY <1>1, PartsInitInv, PartsStepInv, PTL DEF PartsSpec

\* A text that is handed on, also through a call and at a place of an object or an
\* array, arrives as it was given, with the references it may contain
\* (ResolveParams.cpp).
THEOREM PassedOnWholeEver == PartsSpec => []PassedOnWhole
<1>1. ParamInv => PassedOnWhole
  <2> SUFFICES ASSUME ParamInv, NEW r \in Params!Range(last), NEW e \in r.ran,
                      NEW k \in DOMAIN r.scope,
                      NEW leaf \in Params!Leaves(e.field, e.value), r.scope[k].is = "text",
                      IF e.by.is = "call"
                        THEN Params!Forwards(e.by.field, k) /\ Params!Forwards(leaf[1], e.by.key)
                        ELSE Params!Forwards(leaf[1], k)
               PROVE  leaf[2] = r.scope[k]
    BY DEF PassedOnWhole, Params!PassedOnWhole
  <2>1. IsRun(r)
    BY AtMostOne DEF ParamInv
  <2> QED BY <2>1, RunPasses
<1> QED BY <1>1, PartsInitInv, PartsStepInv, PTL DEF PartsSpec
=============================================================================
