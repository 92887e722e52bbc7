-------------------------- MODULE RunPartsProofs ---------------------------
(***************************************************************************)
(* Proofs about TvSession, for any set of TVs and any number of tokens,    *)
(* and about Runtime, for any sequences, any edits of them and any depth.  *)
(***************************************************************************)
EXTENDS RunParts, SequenceTheorems, FiniteSetTheorems, WellFoundedInduction, TLAPS

USE TvAssumption DEF TvAssumption

-----------------------------------------------------------------------------
(* The session *)

\* The socket has been begun with the TV of the session, if there is one, and
\* from the probe on with the TV of the block; it is open only once begun.
Hosted ==
  /\ pc = "probe" => ip_ = target /\ tvIp = NoTv
  /\ pc \in {"connect", "pump", "reuse", "flush"} => host = target
  /\ tvIp # NoTv => host = tvIp
  /\ link # "closed" => host # NoTv

\* What the controller holds is the token of the configuration, or none.
TokenKnown == token_ \in {NoToken, tvToken}

\* What is in memory is the last token, while a save of it is under way and where
\* nothing has harmed one; NVS has it when no save is.
TokenStored ==
  /\ saving \/ ~harmed => tvToken = last
  /\ ~saving /\ ~harmed => saved = last

TvInv == TypeOK /\ Hosted /\ TokenKnown /\ TokenStored

\* A TV presents or issues one of the tokens there are, and one of its own, or
\* sends none.
LEMMA JoinToken ==
  ASSUME TypeOK, Hosted, Join
  PROVE  /\ host \in Tvs /\ issued' \in [Tvs -> 0..MaxTokens]
         /\ \/ UNCHANGED <<token_, config, issued, last>>
            \/ /\ onToken(last') /\ last' \in Tokens
               /\ last' \in {host} \X (1..issued'[host])
<1>1. host \in Tvs /\ issued[host] \in 0..MaxTokens
  BY DEF Join, TypeOK, Hosted
<1>2. CASE Valid(host, path) /\ onToken(path) /\ last' = path /\ UNCHANGED issued
  <2>1. path \in {host} \X (1..issued[host])
    BY <1>2 DEF Valid
  <2>2. 1..issued[host] \subseteq 1..MaxTokens
    BY <1>1
  <2>3. path \in Tvs \X (1..MaxTokens)
    BY <1>1, <2>1, <2>2
  <2> QED BY <1>1, <1>2, <2>1, <2>3 DEF TypeOK, Tokens
<1>3. CASE /\ issued[host] < MaxTokens
           /\ issued' = [issued EXCEPT ![host] = @ + 1]
           /\ onToken(<<host, issued'[host]>>) /\ last' = <<host, issued'[host]>>
  <2>1. issued' = [issued EXCEPT ![host] = issued[host] + 1] /\ issued \in [Tvs -> 0..MaxTokens]
    BY <1>3 DEF TypeOK
  <2>2. /\ issued[host] + 1 \in 0..MaxTokens /\ issued[host] + 1 \in 1..MaxTokens
        /\ issued[host] + 1 \in 1..issued[host] + 1
    BY <1>1, <1>3
  <2>3. issued' \in [Tvs -> 0..MaxTokens] /\ issued'[host] = issued[host] + 1
    BY <1>1, <2>1, <2>2
  <2> QED BY <1>1, <1>3, <2>2, <2>3 DEF Tokens
<1>4. CASE UNCHANGED <<token_, config, issued, last>>
  BY <1>1, <1>4 DEF TypeOK
<1> QED BY <1>2, <1>3, <1>4 DEF Join

\* The callback leaves the token in memory, and where it spares the write NVS has
\* it already.
LEMMA TokenSaved ==
  ASSUME NEW t \in Tokens, onToken(t), TokenKnown, TokenStored, ~saving
  PROVE  /\ tvToken' = t /\ token_' = t /\ harmed' = harmed
         /\ \/ saving' /\ saved' = saved
            \/ ~saving' /\ saved' = saved /\ (~harmed => saved = t)
BY DEF onToken, TokenKnown, TokenStored, config

-----------------------------------------------------------------------------
(* The invariant *)

LEMMA TvInit == Init => TvInv
<1> SUFFICES ASSUME Init PROVE TvInv
  OBVIOUS
<1>1. issued \in [Tvs -> 0..MaxTokens]
  BY DEF Init
<1>2. /\ {target, tvIp, ip_, host} \subseteq Tvs \cup {NoTv}
      /\ {token_, path, tvToken, saved, last} \subseteq Tokens \cup {NoToken, Torn}
  BY DEF Init
<1>3. /\ pc = "idle" /\ recent = FALSE /\ connected_ = FALSE /\ link = "closed"
      /\ saving = FALSE /\ harmed = FALSE
  BY DEF Init
<1>4. TypeOK
  BY <1>1, <1>2, <1>3 DEF TypeOK
<1> QED BY <1>4 DEF Init, TvInv, Hosted, TokenKnown, TokenStored

LEMMA TvStep == TvInv /\ [Next]_vars => TvInv'
<1> SUFFICES ASSUME TvInv, [Next]_vars PROVE TvInv'
  OBVIOUS
<1> USE DEF TvInv, TypeOK, Hosted, TokenKnown, TokenStored,
            block, socket, config, Goto, Pumping
<1>1. CASE Open
  BY <1>1 DEF Open
<1>2. CASE Join
  <2>1. host \in Tvs /\ issued' \in [Tvs -> 0..MaxTokens] /\ ~saving
    BY <1>2, JoinToken DEF Join
  <2>2. CASE onToken(last') /\ last' \in Tokens
    <3>1. /\ tvToken' = last' /\ token_' = last' /\ harmed' = harmed
          /\ \/ saving' /\ saved' = saved
             \/ ~saving' /\ saved' = saved /\ (~harmed => saved = last')
      BY <2>1, <2>2, TokenSaved
    <3>2. saving' \in BOOLEAN
      BY <2>2 DEF onToken
    <3> QED BY <1>2, <2>1, <2>2, <3>1, <3>2 DEF Join
  <2>3. CASE UNCHANGED <<token_, config, issued, last>>
    BY <1>2, <2>1, <2>3 DEF Join
  <2> QED BY <1>2, <2>2, <2>3, JoinToken
<1>3. CASE Lose
  BY <1>3 DEF Lose
<1>4. CASE Disconnected
  BY <1>4 DEF Disconnected
<1>5. CASE Age
  BY <1>5 DEF Age
<1>6. CASE Restart
  BY <1>6 DEF Restart
<1>7. ASSUME NEW tv \in Tvs, Reuse(tv) PROVE TvInv'
  BY <1>7 DEF Reuse, needConnect
<1>8. ASSUME NEW tv \in Tvs, Configure(tv) PROVE TvInv'
  BY <1>8 DEF Configure
<1>9. CASE Unreachable
  BY <1>9 DEF Unreachable
<1>10. CASE Begin
  BY <1>10 DEF Begin
<1>11. CASE Connected
  BY <1>11 DEF Connected
<1>12. CASE TimedOut
  BY <1>12 DEF TimedOut
<1>13. CASE SendOk
  BY <1>13 DEF SendOk
<1>14. CASE SendFails
  BY <1>14 DEF SendFails
<1>15. CASE Done
  BY <1>15 DEF Done
<1>16. CASE UNCHANGED vars
  BY <1>16 DEF vars
<1>17. CASE SaveToken
  BY <1>17 DEF SaveToken
<1>18. CASE WebSave
  BY <1>18 DEF WebSave
<1>19. CASE Reset
  BY <1>19 DEF Reset
<1> QED
  BY <1>1, <1>2, <1>3, <1>4, <1>5, <1>6, <1>7, <1>8, <1>9, <1>10, <1>11, <1>12,
     <1>13, <1>14, <1>15, <1>16, <1>17, <1>18, <1>19 DEF Next

\* The socket and the tokens agree with the session and the configuration in
\* every reachable state (SamsungTizenKeysBlock.cpp:49-86, TvController.cpp:96-135).
THEOREM Invariant == Spec => []TvInv
<1> QED BY TvInit, TvStep, PTL DEF Spec

-----------------------------------------------------------------------------
(* The properties *)

\* Every variable of the block, the controller, the socket and the
\* configuration keeps its type.
THEOREM TypeCorrect == Spec => []TypeOK
<1>1. TvInv => TypeOK
  BY DEF TvInv
<1> QED BY <1>1, Invariant, PTL

\* However many TVs share the one session, no key is reported as sent that
\* went to another TV than the block's (SamsungTizenKeysBlock.cpp:60-85).
THEOREM KeyGoesToItsTvEver == Spec => []KeyGoesToItsTv
<1>1. TvInv => KeyGoesToItsTv
  BY DEF TvInv, Hosted, KeyGoesToItsTv
<1> QED BY <1>1, Invariant, PTL

\* The last token received is in memory and in NVS (TvController.cpp:115-126)
\* between saves, for any number of TVs sending old and new tokens, with saves
\* that fail, resets and restarts at any point, as long as none of these has
\* taken the last save back.
THEOREM LastTokenIsSavedEver == Spec => []LastTokenIsSaved
<1>1. TvInv => LastTokenIsSaved
  BY DEF TvInv, TokenStored, LastTokenIsSaved
<1> QED BY <1>1, Invariant, PTL

-----------------------------------------------------------------------------
(* The token *)

\* The last token is one of the TV it came from.
LastIsOwn == \A tv \in Tvs : issued[tv] = 0 \/ Valid(tv, last) \/ tv # last[1]

LEMMA OwnStep ==
  ASSUME TvInv, LastIsOwn, [Next]_vars
  PROVE  LastIsOwn'
<1>1. CASE Join /\ ~UNCHANGED <<issued, last>>
  <2>1. host \in Tvs /\ last' \in {host} \X (1..issued'[host])
    BY <1>1, JoinToken DEF TvInv
  <2> SUFFICES ASSUME NEW tv \in Tvs PROVE Valid(tv, last)' \/ tv # last'[1]
    BY DEF LastIsOwn
  <2>2. CASE tv = host
    BY <2>1, <2>2 DEF Valid
  <2>3. CASE tv # host
    BY <2>1, <2>3
  <2> QED BY <2>2, <2>3
<1>2. CASE ~Join \/ UNCHANGED <<issued, last>>
  <2>1. UNCHANGED <<issued, last>>
    BY <1>2 DEF Next, Open, SaveToken, WebSave, Reset, Lose, Disconnected, Age, Restart, Reuse, Configure,
       Unreachable, Begin, Connected, TimedOut, SendOk, SendFails, Done, vars
  <2> QED BY <2>1 DEF LastIsOwn, Valid
<1> QED BY <1>1, <1>2

\* However many TVs there are, a session presents a token its TV has issued, also
\* after restarts, unless there is none, another TV's has taken its place or NVS
\* has lost it (SamsungTizenKeysBlock.cpp:65).
THEOREM TokenIsReusedEver == Spec => TokenIsReused
<1>1. Init => LastIsOwn
  BY DEF Init, LastIsOwn
<1>2. TvInv /\ LastIsOwn /\ [Next]_vars => LastIsOwn'
  BY OwnStep
<1>3. TvInv /\ LastIsOwn /\ [Next]_vars =>
        [\A tv \in Tvs : Configure(tv) =>
           issued[tv] = 0 \/ Valid(tv, token_') \/ tv # last[1] \/ harmed]_vars
  <2> SUFFICES ASSUME TvInv, LastIsOwn, NEW tv \in Tvs, Configure(tv)
               PROVE  issued[tv] = 0 \/ Valid(tv, token_') \/ tv # last[1] \/ harmed
    OBVIOUS
  <2>1. ~harmed => token_' = last
    BY DEF Configure, TvInv, TokenStored
  <2> QED BY <2>1 DEF LastIsOwn, Valid
<1> QED BY <1>1, <1>2, <1>3, Invariant, PTL DEF Spec, TokenIsReused

-----------------------------------------------------------------------------
(* The run and the edits of the store (Runtime) *)

HIDE TvAssumption DEF TvAssumption

\* Sequences and calls in progress have the fields the steps read.
IsList(s) == \E S : s \in Seq(S)
Sequence(s) == {"id", "body", "broken", "buf"} \subseteq DOMAIN s /\ s.id \in Ids
Call_(f) == {"id", "buf", "body", "pos"} \subseteq DOMAIN f /\ f.id \in Ids
Same(s, f) == s.id = f.id /\ s.buf = f.buf /\ s.body = f.body
HeldIn(list, f) == \E j \in DOMAIN list : Same(list[j], f)

\* What the proofs use of a list.
LEMMA ListFacts ==
  ASSUME NEW list, IsList(list)
  PROVE  /\ DOMAIN list = 1..Len(list) /\ Len(list) \in Nat
         /\ list \in Seq(Range(list))
<1>1. PICK S : list \in Seq(S)
  BY DEF IsList
<1>2. DOMAIN list = 1..Len(list) /\ Len(list) \in Nat /\ list \in [1..Len(list) -> S]
  BY <1>1, LenProperties
<1>3. list \in [1..Len(list) -> Range(list)]
  BY <1>2 DEF Range
<1> QED BY <1>2, <1>3

\* A set of places has a first one.
LEMMA LeastIn ==
  ASSUME NEW P, P \subseteq Nat, P # {}
  PROVE  \E m \in P : \A k \in P : ~(k < m)
<1>1. PICK m \in P : \A k \in P : <<k, m>> \notin OpToRel(<, Nat)
  BY WFMin, NatLessThanWellFounded, Zenon
<1> QED BY <1>1, Zenon DEF OpToRel

\* Find and Index give the first sequence under an id.
LEMMA FindIs ==
  ASSUME NEW list, IsList(list), NEW id, Rt!Has(list, id)
  PROVE  /\ \E i \in DOMAIN list : Rt!Find(list, id) = list[i] /\ list[i].id = id
         /\ Rt!Index(list, id) \in DOMAIN list /\ list[Rt!Index(list, id)].id = id
<1> DEFINE P == {i \in DOMAIN list : list[i].id = id}
           First(i) == list[i].id = id /\ \A j \in 1..i - 1 : list[j].id # id
<1>1. DOMAIN list = 1..Len(list) /\ Len(list) \in Nat
  BY ListFacts
<1>2. P \subseteq Nat /\ P # {}
  BY <1>1 DEF Rt!Has
<1>3. PICK m \in P : \A k \in P : ~(k < m)
  <2> HIDE DEF P
  <2> QED BY <1>2, LeastIn
<1>4. m \in DOMAIN list /\ First(m)
  BY <1>1, <1>3
<1> DEFINE c == CHOOSE i \in DOMAIN list : First(i)
<1>5. c \in DOMAIN list /\ First(c)
  <2> HIDE DEF First
  <2> QED BY <1>4
<1>6. Rt!Find(list, id) = list[c]
  BY DEF Rt!Find
<1>7. list[c].id = id
  BY <1>5
<1> HIDE DEF c
<1>8. Rt!Index(list, id) \in DOMAIN list /\ list[Rt!Index(list, id)] = Rt!Find(list, id)
  BY <1>5, <1>6 DEF Rt!Index
<1> QED BY <1>5, <1>6, <1>7, <1>8

\* RemoveAt leaves the other entries, those behind it one place ahead.
LEMMA RemoveAtIs ==
  ASSUME NEW all, IsList(all), NEW at \in DOMAIN all
  PROVE  /\ IsList(Rt!RemoveAt(all, at))
         /\ Rt!RemoveAt(all, at) =
              [i \in 1..Len(all) - 1 |-> IF i < at THEN all[i] ELSE all[i + 1]]
<1> DEFINE S == Range(all)
           front == SubSeq(all, 1, at - 1)
           back == SubSeq(all, at + 1, Len(all))
<1>1. at \in 1..Len(all) /\ Len(all) \in Nat /\ DOMAIN all = 1..Len(all) /\ all \in Seq(S)
  BY ListFacts
<1> HIDE DEF S
<1>2. /\ \A i \in 1..at - 1 : i \in 1..Len(all) /\ all[i] \in S
      /\ \A i \in at + 1..Len(all) : i \in 1..Len(all) /\ all[i] \in S
  BY <1>1, ElementOfSeq
<1>3. /\ front \in Seq(S) /\ Len(front) = at - 1
      /\ \A i \in 1..at - 1 : front[i] = all[i]
  BY <1>1, <1>2
<1>4. /\ back \in Seq(S) /\ Len(back) = Len(all) - at
      /\ \A i \in 1..Len(all) - at : back[i] = all[at + i]
  BY <1>1, <1>2
<1>5. Rt!RemoveAt(all, at) = front \o back
  BY DEF Rt!RemoveAt
<1> HIDE DEF front, back
<1>6. /\ front \o back \in Seq(S)
      /\ DOMAIN (front \o back) = 1..Len(all) - 1
      /\ \A i \in 1..Len(all) - 1 :
           (front \o back)[i] = IF i <= at - 1 THEN all[i] ELSE all[i + 1]
  <2>1. /\ front \o back \in Seq(S) /\ Len(front \o back) = Len(all) - 1
        /\ \A i \in 1..Len(all) - 1 :
             (front \o back)[i] = IF i <= at - 1 THEN front[i] ELSE back[i - (at - 1)]
    <3>1. Len(front) + Len(back) = Len(all) - 1
      BY <1>1, <1>3, <1>4
    <3>2. /\ front \o back \in Seq(S) /\ Len(front \o back) = Len(front) + Len(back)
          /\ \A i \in 1..Len(front) + Len(back) :
               (front \o back)[i] = IF i <= Len(front) THEN front[i]
                                    ELSE back[i - Len(front)]
      BY <1>3, <1>4, ConcatProperties, Zenon
    <3> QED BY <1>3, <3>1, <3>2
  <2>2. ASSUME NEW i \in 1..Len(all) - 1
        PROVE  (front \o back)[i] = IF i <= at - 1 THEN all[i] ELSE all[i + 1]
    <3>1. i <= at - 1 => front[i] = all[i]
      BY <1>1, <1>3
    <3>2. ~(i <= at - 1) => /\ i - (at - 1) \in 1..Len(all) - at
                            /\ at + (i - (at - 1)) = i + 1
      BY <1>1
    <3>3. ~(i <= at - 1) => back[i - (at - 1)] = all[i + 1]
      BY <1>4, <3>2
    <3> QED BY <2>1, <3>1, <3>3
  <2> QED BY <2>1, <2>2, LenProperties
<1>7. \A i \in 1..Len(all) - 1 : i <= at - 1 <=> i < at
  BY <1>1
<1>8. front \o back = [i \in 1..Len(all) - 1 |-> (front \o back)[i]]
  BY <1>6, LenProperties
<1> QED BY <1>5, <1>6, <1>7, <1>8 DEF IsList

\* A function on 1..n is a list.
LEMMA ListOf ==
  ASSUME NEW list, NEW n \in Nat, list = [i \in 1..n |-> list[i]]
  PROVE  IsList(list)
<1>1. DOMAIN list = 1..n
  OBVIOUS
<1>2. \A i \in 1..n : list[i] \in Range(list)
  BY <1>1 DEF Range
<1>3. list \in [1..n -> Range(list)]
  BY <1>2
<1>4. list \in Seq(Range(list))
  BY <1>3
<1> QED BY <1>4 DEF IsList

\* validate keeps the id, the body and the buffer of every sequence.
LEMMA ValidateKeeps ==
  ASSUME NEW list, IsList(list), \A i \in DOMAIN list : Sequence(list[i])
  PROVE  /\ IsList(Rt!validate(list)) /\ DOMAIN Rt!validate(list) = DOMAIN list
         /\ \A i \in DOMAIN list : /\ Sequence(Rt!validate(list)[i])
                                   /\ Same(Rt!validate(list)[i], list[i])
<1>1. DOMAIN list = 1..Len(list) /\ Len(list) \in Nat
  BY ListFacts
<1>2. DOMAIN Rt!validate(list) = DOMAIN list
  BY DEF Rt!validate
<1>3. Rt!validate(list) = [i \in 1..Len(list) |-> Rt!validate(list)[i]]
  BY <1>1 DEF Rt!validate
<1>4. ASSUME NEW i \in DOMAIN list
      PROVE  Sequence(Rt!validate(list)[i]) /\ Same(Rt!validate(list)[i], list[i])
  <2>1. Rt!validate(list)[i] = [list[i] EXCEPT !.broken = @ \/ Rt!Missing(list, list[i])]
    BY DEF Rt!validate
  <2> QED BY <1>4, <2>1 DEF Sequence, Same
<1> QED BY <1>1, <1>2, <1>3, <1>4, ListOf

-----------------------------------------------------------------------------

\* Until a sequence in progress is touched the store holds, for every call in
\* progress, the sequence with its buffer and nodes.
FramesInv ==
  /\ IsList(seqs) /\ \A i \in DOMAIN seqs : Sequence(seqs[i])
  /\ IsList(frames) /\ \A i \in DOMAIN frames : Call_(frames[i])
  /\ touched \in BOOLEAN
  /\ ~touched => \A i \in DOMAIN frames : HeldIn(seqs, frames[i])

\* An edit of the sequences under some ids keeps the others.
LEMMA EditKeeps ==
  ASSUME FramesInv, UNCHANGED frames, NEW ids, Rt!Touch(ids),
         IsList(seqs'), \A i \in DOMAIN seqs' : Sequence(seqs'[i]),
         \A j \in DOMAIN seqs : seqs[j].id \notin ids =>
           \E i \in DOMAIN seqs' : Same(seqs'[i], seqs[j])
  PROVE  FramesInv'
<1>1. touched \in BOOLEAN /\ touched' = (touched \/ ids \cap Rt!OnStack # {})
  BY DEF FramesInv, Rt!Touch
<1>2. ASSUME ~touched', NEW i \in DOMAIN frames PROVE HeldIn(seqs', frames[i])
  <2>1. ~touched /\ frames[i].id \notin ids
    BY <1>1, <1>2 DEF Rt!OnStack
  <2>2. PICK j \in DOMAIN seqs : Same(seqs[j], frames[i])
    BY <2>1 DEF FramesInv, HeldIn
  <2> QED BY <2>1, <2>2 DEF HeldIn, Same
<1>3. touched' \in BOOLEAN
  BY <1>1
<1> QED BY <1>2, <1>3 DEF FramesInv, HeldIn

\* PUT of the whole list touches every sequence in progress.
LEMMA PutListStep ==
  ASSUME FramesInv, NEW list \in Stores, Rt!PutList(list)
  PROVE  FramesInv'
<1> DEFINE new == [i \in DOMAIN list |->
                    [id |-> list[i].id, body |-> list[i].body, broken |-> FALSE, buf |-> Rt!NewBuf(i)]]
<1>1. list \in Seq([id : Ids, body : Bodies])
  BY RuntimeInstance DEF Rt!RuntimeAssumption
<1>2. DOMAIN list = 1..Len(list) /\ Len(list) \in Nat /\ \A i \in DOMAIN list : list[i].id \in Ids
  <2>1. DOMAIN list = 1..Len(list) /\ Len(list) \in Nat
    BY <1>1, LenProperties
  <2>2. \A i \in DOMAIN list : list[i] \in [id : Ids, body : Bodies]
    BY <1>1, <2>1, ElementOfSeq
  <2> QED BY <2>1, <2>2
<1>3. IsList(new)
  BY <1>2, ListOf
<1>4. \A i \in DOMAIN new : Sequence(new[i])
  BY <1>2 DEF Sequence
<1>5. seqs' = Rt!validate(new)
  BY DEF Rt!PutList, Rt!Whole
<1>6. IsList(seqs') /\ \A i \in DOMAIN seqs' : Sequence(seqs'[i])
  <2> HIDE DEF new
  <2> QED BY <1>3, <1>4, <1>5, ValidateKeeps
<1>7. \A j \in DOMAIN seqs : seqs[j].id \in Ids
  BY DEF FramesInv, Sequence
<1> QED BY <1>6, <1>7, EditKeeps DEF Rt!PutList, Rt!web

\* PUT of one sequence touches the one it replaces.
LEMMA PutOneStep ==
  ASSUME FramesInv, NEW id \in Ids, NEW body \in Bodies, Rt!PutOne(id, body)
  PROVE  FramesInv'
<1> DEFINE s == [id |-> id, body |-> body, broken |-> FALSE, buf |-> Rt!NewBuf(1)]
           at == Rt!Index(seqs, id)
           new == IF Rt!Has(seqs, id) THEN [seqs EXCEPT ![at] = s] ELSE Append(seqs, s)
           ids == IF Rt!Has(seqs, id) THEN {id} ELSE {}
<1>1. seqs' = Rt!validate(new) /\ Rt!Touch(ids) /\ UNCHANGED frames
  BY DEF Rt!PutOne, Rt!web
<1>2. Sequence(s) /\ s.id = id
  BY DEF Sequence
<1>3. /\ DOMAIN seqs = 1..Len(seqs) /\ Len(seqs) \in Nat
      /\ \A i \in DOMAIN seqs : Sequence(seqs[i]) /\ IsList(seqs)
  BY ListFacts DEF FramesInv
<1> HIDE DEF s
<1>4. /\ IsList(new) /\ \A i \in DOMAIN new : Sequence(new[i])
      /\ \A j \in DOMAIN seqs : seqs[j].id \notin ids => j \in DOMAIN new /\ new[j] = seqs[j]
  <2>1. CASE Rt!Has(seqs, id)
    <3>1. at \in DOMAIN seqs /\ seqs[at].id = id
      BY <2>1, <1>3, FindIs DEF FramesInv
    <3> HIDE DEF at
    <3>2. new = [i \in 1..Len(seqs) |-> IF i = at THEN s ELSE seqs[i]]
      BY <1>3, <2>1, <3>1
    <3>3. DOMAIN new = 1..Len(seqs) /\ \A i \in 1..Len(seqs) : new[i] = IF i = at THEN s ELSE seqs[i]
      BY <3>2
    <3>4. ids = {id}
      BY <2>1
    <3> HIDE DEF new, ids
    <3>5. IsList(new)
      BY <1>3, <3>2, <3>3, ListOf
    <3> QED BY <1>2, <1>3, <3>1, <3>3, <3>4, <3>5
  <2>2. CASE ~Rt!Has(seqs, id)
    <3>1. seqs \in Seq(Range(seqs) \cup {s}) /\ new = Append(seqs, s)
      BY <2>2, ListFacts, SeqMonotonic DEF FramesInv
    <3> HIDE DEF new
    <3>2. /\ new \in Seq(Range(seqs) \cup {s}) /\ Len(new) = Len(seqs) + 1 /\ new[Len(seqs) + 1] = s
          /\ \A i \in 1..Len(seqs) : new[i] = seqs[i]
      BY <3>1, AppendProperties
    <3>3. DOMAIN new = 1..Len(seqs) + 1
      BY <3>2, LenProperties
    <3>4. IsList(new)
      BY <3>2 DEF IsList
    <3> QED BY <1>2, <1>3, <3>2, <3>3, <3>4
  <2> QED BY <2>1, <2>2
<1> HIDE DEF new, ids
<1>5. /\ IsList(seqs') /\ \A i \in DOMAIN seqs' : Sequence(seqs'[i])
      /\ \A j \in DOMAIN seqs : seqs[j].id \notin ids => \E i \in DOMAIN seqs' : Same(seqs'[i], seqs[j])
  BY <1>1, <1>4, ValidateKeeps
<1> QED BY <1>1, <1>5, EditKeeps

\* DELETE touches the sequence it erases; the others move with their buffers.
LEMMA DeleteStep ==
  ASSUME FramesInv, NEW id \in Ids, Rt!Delete(id)
  PROVE  FramesInv'
<1> DEFINE at == Rt!Index(seqs, id)
           new == Rt!RemoveAt(seqs, at)
<1>1. seqs' = Rt!validate(new) /\ Rt!Touch({id}) /\ UNCHANGED frames /\ Rt!Has(seqs, id)
  BY DEF Rt!Delete, Rt!web
<1>2. at \in DOMAIN seqs /\ seqs[at].id = id
  BY <1>1, FindIs DEF FramesInv
<1>3. DOMAIN seqs = 1..Len(seqs) /\ Len(seqs) \in Nat
  BY ListFacts DEF FramesInv
<1> HIDE DEF at
<1>4. IsList(new) /\ new = [i \in 1..Len(seqs) - 1 |-> IF i < at THEN seqs[i] ELSE seqs[i + 1]]
  BY <1>2, RemoveAtIs DEF FramesInv
<1> HIDE DEF new
<1>5. /\ DOMAIN new = 1..Len(seqs) - 1
      /\ \A i \in 1..Len(seqs) - 1 : new[i] = IF i < at THEN seqs[i] ELSE seqs[i + 1]
  BY <1>4
<1>6. \A i \in DOMAIN new : Sequence(new[i])
  <2> SUFFICES ASSUME NEW i \in DOMAIN new PROVE Sequence(new[i])
    OBVIOUS
  <2>1. i \in 1..Len(seqs) /\ i + 1 \in 1..Len(seqs)
    BY <1>3, <1>5
  <2> QED BY <1>3, <1>5, <2>1 DEF FramesInv
<1>7. ASSUME NEW j \in DOMAIN seqs, seqs[j].id # id
      PROVE  \E i \in DOMAIN new : new[i] = seqs[j]
  <2>1. CASE j < at
    <3>1. j \in 1..Len(seqs) - 1
      BY <1>2, <1>3, <2>1
    <3> QED BY <1>5, <2>1, <3>1
  <2>2. CASE at < j
    <3>1. j - 1 \in 1..Len(seqs) - 1 /\ ~(j - 1 < at) /\ (j - 1) + 1 = j
      BY <1>2, <1>3, <2>2
    <3> QED BY <1>5, <3>1
  <2> QED BY <1>2, <1>3, <1>7, <2>1, <2>2
<1>8. /\ IsList(seqs') /\ \A i \in DOMAIN seqs' : Sequence(seqs'[i])
      /\ DOMAIN seqs' = DOMAIN new /\ \A i \in DOMAIN new : Same(seqs'[i], new[i])
  BY <1>1, <1>4, <1>6, ValidateKeeps
<1>9. ASSUME NEW j \in DOMAIN seqs, seqs[j].id \notin {id}
      PROVE  \E i \in DOMAIN seqs' : Same(seqs'[i], seqs[j])
  <2>1. PICK i \in DOMAIN new : new[i] = seqs[j]
    BY <1>7, <1>9
  <2>2. i \in DOMAIN seqs' /\ Same(seqs'[i], new[i])
    BY <1>8
  <2> QED BY <2>1, <2>2
<1> QED BY <1>1, <1>8, <1>9, EditKeeps

-----------------------------------------------------------------------------
\* The loop task: what goes on the stack is what the store holds.

\* Frames that keep their sequence, one fewer or one more that the store holds.
LEMMA FramesStep ==
  ASSUME FramesInv, UNCHANGED seqs, Rt!Ended, IsList(frames'),
         \A i \in DOMAIN frames' :
           /\ Call_(frames'[i])
           /\ \/ \E j \in DOMAIN frames : Same(frames[j], frames'[i])
              \/ HeldIn(seqs, frames'[i])
  PROVE  FramesInv'
<1>1. touched' \in BOOLEAN /\ (~touched' => ~touched \/ frames' = <<>>)
  BY DEF FramesInv, Rt!Ended
<1>2. ASSUME ~touched', NEW i \in DOMAIN frames' PROVE HeldIn(seqs', frames'[i])
  <2>1. ~touched
    BY <1>1, <1>2
  <2>2. CASE HeldIn(seqs, frames'[i])
    BY <2>2 DEF HeldIn
  <2>3. ASSUME NEW j \in DOMAIN frames, Same(frames[j], frames'[i]) PROVE HeldIn(seqs', frames'[i])
    <3>1. PICK n \in DOMAIN seqs : Same(seqs[n], frames[j])
      BY <2>1 DEF FramesInv, HeldIn
    <3> QED BY <2>3, <3>1 DEF HeldIn, Same
  <2> QED BY <2>2, <2>3
<1> QED BY <1>1, <1>2 DEF FramesInv

\* The empty list.
LEMMA EmptyList == IsList(<<>>) /\ DOMAIN <<>> = {}
<1>1. <<>> \in Seq({})
  OBVIOUS
<1> QED BY <1>1 DEF IsList

\* A run that fails leaves no calls.
LEMMA FailStep ==
  ASSUME FramesInv, UNCHANGED seqs, Rt!Ended, Rt!Fail
  PROVE  FramesInv'
BY EmptyList, FramesStep DEF Rt!Fail

\* The next node of the call on top.
LEMMA OnwardIs ==
  ASSUME FramesInv, frames # <<>>
  PROVE  /\ Len(frames) \in DOMAIN frames /\ DOMAIN frames = 1..Len(frames) /\ Len(frames) \in Nat
         /\ IsList(Rt!Onward) /\ DOMAIN Rt!Onward = DOMAIN frames
         /\ \A i \in DOMAIN frames : Call_(Rt!Onward[i]) /\ Same(frames[i], Rt!Onward[i])
<1>1. DOMAIN frames = 1..Len(frames) /\ Len(frames) \in Nat /\ frames \in Seq(Range(frames))
  BY ListFacts DEF FramesInv
<1>2. Len(frames) \in DOMAIN frames
  BY <1>1, EmptySeq
<1>3. DOMAIN Rt!Onward = DOMAIN frames /\ Rt!Onward = [i \in 1..Len(frames) |-> Rt!Onward[i]]
  BY <1>1 DEF Rt!Onward
<1>4. ASSUME NEW i \in DOMAIN frames PROVE Call_(Rt!Onward[i]) /\ Same(frames[i], Rt!Onward[i])
  <2>1. Call_(frames[i])
    BY DEF FramesInv
  <2>2. CASE i = Len(frames)
    <3>1. Rt!Onward[i] = [frames[i] EXCEPT !.pos = @ + 1]
      BY <1>2, <2>2 DEF Rt!Onward
    <3> QED BY <2>1, <3>1 DEF Call_, Same
  <2>3. CASE i # Len(frames)
    <3>1. Rt!Onward[i] = frames[i]
      BY <2>3 DEF Rt!Onward
    <3> QED BY <2>1, <3>1 DEF Same
  <2> QED BY <2>2, <2>3
<1> QED BY <1>1, <1>2, <1>3, <1>4, ListOf

\* The call of a sequence the store has is one of what it holds.
LEMMA FrameHeld ==
  ASSUME FramesInv, NEW id, Rt!Has(seqs, id)
  PROVE  Call_(Rt!Frame(Rt!Find(seqs, id))) /\ HeldIn(seqs, Rt!Frame(Rt!Find(seqs, id)))
<1>1. PICK j \in DOMAIN seqs : Rt!Find(seqs, id) = seqs[j]
  BY FindIs DEF FramesInv
<1>2. Sequence(seqs[j])
  BY DEF FramesInv
<1> QED BY <1>1, <1>2 DEF Rt!Frame, Call_, Sequence, HeldIn, Same

\* Every step of the loop task keeps FramesInv.
LEMMA LoopKeeps == FramesInv /\ Rt!LoopStep => FramesInv'
<1> SUFFICES ASSUME FramesInv, Rt!LoopStep PROVE FramesInv'
  OBVIOUS
<1>1. CASE Rt!Take
  <2>1. CASE Rt!Has(seqs, pending)
    <3> DEFINE f == Rt!Frame(Rt!Find(seqs, pending))
    <3>1. frames' = <<f>> /\ Call_(f) /\ HeldIn(seqs, f)
      BY <1>1, <2>1, FrameHeld DEF Rt!Take
    <3> HIDE DEF f
    <3>2. <<f>> \in Seq({f}) /\ DOMAIN <<f>> = {1}
      OBVIOUS
    <3>3. IsList(frames') /\ DOMAIN frames' = {1} /\ frames'[1] = f
      BY <3>1, <3>2 DEF IsList
    <3> QED BY <1>1, <3>1, <3>3, FramesStep DEF Rt!Take
  <2>2. CASE ~Rt!Has(seqs, pending)
    BY <1>1, <2>2, FailStep DEF Rt!Take, Rt!Fail
  <2> QED BY <2>1, <2>2
<1>2. CASE Rt!Block
  <2>1. frames # <<>> /\ UNCHANGED seqs /\ Rt!Ended
    BY <1>2 DEF Rt!Block, Rt!InBody, Rt!loopOnly
  <2>2. CASE frames' = Rt!Onward
    BY <2>1, <2>2, OnwardIs, FramesStep
  <2> QED BY <1>2, <2>1, <2>2, FailStep DEF Rt!Block
<1>3. CASE Rt!Call
  <2>1. frames # <<>> /\ UNCHANGED seqs /\ Rt!Ended
    BY <1>3 DEF Rt!Call, Rt!InBody, Rt!loopOnly
  <2>2. CASE Rt!Callable(Rt!Node)
    <3> DEFINE f == Rt!Frame(Rt!Find(seqs, Rt!Node))
               S == Range(Rt!Onward) \cup {f}
    <3>1. frames' = Append(Rt!Onward, f) /\ Call_(f) /\ HeldIn(seqs, f)
      BY <1>3, <2>2, FrameHeld DEF Rt!Call, Rt!Callable
    <3>2. Rt!Onward \in Seq(S)
      BY <2>1, OnwardIs, ListFacts, SeqMonotonic
    <3> HIDE DEF f
    <3>3. f \in S
      OBVIOUS
    <3> HIDE DEF S
    <3>4. /\ frames' \in Seq(S) /\ Len(frames') = Len(Rt!Onward) + 1
          /\ frames'[Len(Rt!Onward) + 1] = f
          /\ \A i \in 1..Len(Rt!Onward) : frames'[i] = Rt!Onward[i]
      BY <3>1, <3>2, <3>3, AppendProperties
    <3>5. /\ IsList(frames')
          /\ DOMAIN frames' = 1..Len(Rt!Onward) + 1
          /\ DOMAIN Rt!Onward = 1..Len(Rt!Onward)
          /\ Len(Rt!Onward) \in Nat
      BY <3>2, <3>4, LenProperties DEF IsList
    <3>6. \A i \in DOMAIN frames' : i \in DOMAIN Rt!Onward \/ i = Len(Rt!Onward) + 1
      BY <3>5
    <3> QED BY <2>1, <3>1, <3>4, <3>5, <3>6, OnwardIs, FramesStep
  <2> QED BY <1>3, <2>1, <2>2, FailStep DEF Rt!Call
<1>4. CASE Rt!Return
  <2>1. frames # <<>> /\ frames' = Rt!Front(frames) /\ UNCHANGED seqs /\ Rt!Ended
    BY <1>4 DEF Rt!Return, Rt!loopOnly
  <2>2. DOMAIN frames = 1..Len(frames) /\ Len(frames) \in Nat /\ frames \in Seq(Range(frames))
    BY ListFacts DEF FramesInv
  <2>3. Len(frames) # 0
    BY <2>1, <2>2, EmptySeq
  <2>4. /\ frames' \in Seq(Range(frames)) /\ Len(frames') = Len(frames) - 1
        /\ \A i \in 1..Len(frames) - 1 : frames'[i] = frames[i]
    <3>1. \A i \in 1..Len(frames) - 1 : i \in 1..Len(frames) /\ frames[i] \in Range(frames)
      BY <2>2 DEF Range
    <3> QED BY <2>1, <2>2, <2>3, <3>1, SubSeqProperties DEF Rt!Front
  <2>5. IsList(frames') /\ DOMAIN frames' = 1..Len(frames) - 1
    BY <2>4, LenProperties DEF IsList
  <2>6. \A i \in DOMAIN frames' : i \in DOMAIN frames /\ frames'[i] = frames[i] /\ Same(frames[i], frames'[i])
    BY <2>2, <2>4, <2>5 DEF Same
  <2> QED BY <2>1, <2>5, <2>6, FramesStep DEF FramesInv
<1>5. CASE Rt!Crash
  <2> DEFINE new == [i \in DOMAIN seqs |-> [seqs[i] EXCEPT !.broken = FALSE]]
  <2>1. seqs' = Rt!validate(new) /\ frames' = <<>> /\ Rt!Ended
    BY <1>5 DEF Rt!Crash, Rt!Fail
  <2>2. DOMAIN seqs = 1..Len(seqs) /\ Len(seqs) \in Nat
    BY ListFacts DEF FramesInv
  <2>3. IsList(new) /\ \A i \in DOMAIN new : Sequence(new[i])
    <3>1. IsList(new)
      BY <2>2, ListOf
    <3>2. \A i \in DOMAIN seqs : Sequence(seqs[i])
      BY DEF FramesInv
    <3> QED BY <3>1, <3>2 DEF Sequence
  <2> HIDE DEF new
  <2>4. IsList(seqs') /\ \A i \in DOMAIN seqs' : Sequence(seqs'[i])
    BY <2>1, <2>3, ValidateKeeps
  <2>5. touched' \in BOOLEAN
    BY <2>1 DEF Rt!Ended, FramesInv
  <2> QED BY <2>1, <2>4, <2>5, EmptyList DEF FramesInv
<1> QED BY <1>1, <1>2, <1>3, <1>4, <1>5 DEF Rt!LoopStep

\* Every step of either task keeps FramesInv.
LEMMA FramesStays == FramesInv /\ [Rt!Next]_(Rt!vars) => FramesInv'
<1> SUFFICES ASSUME FramesInv, [Rt!Next]_(Rt!vars) PROVE FramesInv'
  OBVIOUS
<1>1. ASSUME NEW list \in Stores, Rt!PutList(list) PROVE FramesInv'
  BY <1>1, PutListStep
<1>2. ASSUME NEW id \in Ids, Rt!Delete(id) PROVE FramesInv'
  BY <1>2, DeleteStep
<1>3. ASSUME NEW id \in Ids, NEW b \in Bodies, Rt!PutOne(id, b) PROVE FramesInv'
  BY <1>3, PutOneStep
<1>4. ASSUME NEW id \in Ids, Rt!PostRun(id) \/ Rt!Fire(id) PROVE FramesInv'
  BY <1>4 DEF Rt!PostRun, Rt!Fire, FramesInv, HeldIn
<1>5. CASE UNCHANGED Rt!vars
  BY <1>5 DEF Rt!vars, FramesInv, HeldIn
<1> QED BY <1>1, <1>2, <1>3, <1>4, <1>5, LoopKeeps DEF Rt!Next

\* As long as nothing a run is in the middle of is replaced or deleted, every
\* buffer it goes through lives: for any sequences, edits and depth of calls.
THEOREM FramesLiveEver == Rt!Spec => []FramesLive
<1>1. Rt!Init => FramesInv
  BY EmptyList DEF Rt!Init, FramesInv
<1>2. FramesInv => FramesLive
  BY DEF FramesInv, FramesLive, Rt!FramesLive, HeldIn, Same
<1> QED BY <1>1, <1>2, FramesStays, PTL DEF Rt!Spec

-----------------------------------------------------------------------------
(* The types of Runtime: there is always a buffer nobody refers to *)

\* Runtime's own copy of the definition of a cardinality.
LEMMA CountIs == \A S : Rt!Cardinality(S) = Cardinality(S)
BY Zenon DEF Rt!Cardinality, Cardinality

\* Outside a finite set of numbers there is an n-th one, and not far.
LEMMA NthOutside ==
  ASSUME NEW U, U \subseteq Nat, IsFiniteSet(U), NEW n \in Nat \ {0}
  PROVE  \E b \in 1..Cardinality(U) + n : b \notin U /\ Cardinality((1..b) \ U) = n
<1> DEFINE N == Cardinality(U) + n
           Outside(b) == (1..b) \ U
           C(b) == Cardinality(Outside(b))
           P == {b \in 1..N : n <= C(b)}
<1>1. Cardinality(U) \in Nat /\ N \in Nat \ {0}
  BY FS_CardinalityType
<1>2. \A b \in Nat : IsFiniteSet(1..b) /\ Cardinality(1..b) = b
  BY FS_Interval
<1>3. \A b \in Nat : IsFiniteSet(Outside(b)) /\ C(b) \in Nat
  BY <1>2, FS_Difference, FS_CardinalityType
<1>4. n <= C(N)
  <2>1. /\ IsFiniteSet((1..N) \cap U) /\ Cardinality((1..N) \cap U) <= Cardinality(U)
    BY FS_Subset
  <2>2. C(N) = Cardinality(1..N) - Cardinality((1..N) \cap U)
    BY <1>1, <1>2, FS_Difference
  <2>3. Cardinality((1..N) \cap U) \in Nat
    BY <2>1, FS_CardinalityType
  <2> HIDE DEF C
  <2> QED BY <1>1, <1>2, <2>1, <2>2, <2>3
<1>5. C(0) = 0
  BY FS_EmptySet
<1>6. \A b \in Nat : C(b + 1) = IF b + 1 \in U THEN C(b) ELSE C(b) + 1
  <2> SUFFICES ASSUME NEW b \in Nat PROVE C(b + 1) = IF b + 1 \in U THEN C(b) ELSE C(b) + 1
    OBVIOUS
  <2>1. CASE b + 1 \in U
    <3>1. Outside(b + 1) = Outside(b)
      BY <2>1
    <3> QED BY <2>1, <3>1
  <2>2. CASE b + 1 \notin U
    <3>1. Outside(b + 1) = Outside(b) \cup {b + 1} /\ b + 1 \notin Outside(b)
      BY <2>2
    <3> HIDE DEF Outside
    <3>2. C(b + 1) = C(b) + 1
      BY <1>3, <3>1, FS_AddElement
    <3> QED BY <2>2, <3>2
  <2> QED BY <2>1, <2>2
<1> HIDE DEF C
<1>7. PICK m \in P : \A k \in P : ~(k < m)
  <2>1. P \subseteq Nat /\ P # {}
    BY <1>1, <1>4
  <2> HIDE DEF P
  <2> QED BY <2>1, LeastIn
<1>8. m \in 1..N /\ n <= C(m) /\ m - 1 \in Nat /\ (m - 1) + 1 = m
  BY <1>1, <1>7
<1>m. C(m) \in Nat /\ C(m - 1) \in Nat
  <2>1. m \in Nat
    BY <1>1, <1>8
  <2>2. \A b \in Nat : C(b) \in Nat
    BY <1>3
  <2> QED BY <1>8, <2>1, <2>2
<1>9. C(m - 1) < n
  <2>1. CASE m - 1 = 0
    BY <1>5, <2>1
  <2>2. CASE m - 1 # 0
    <3>1. m - 1 \in 1..N /\ m - 1 < m
      BY <1>1, <1>8, <2>2
    <3>2. ~(n <= C(m - 1))
      BY <1>7, <3>1
    <3> QED BY <1>m, <3>2
  <2> QED BY <2>1, <2>2
<1>10. C(m) = IF m \in U THEN C(m - 1) ELSE C(m - 1) + 1
  BY <1>6, <1>8
<1>11. m \notin U /\ C(m) = n
  BY <1>m, <1>8, <1>9, <1>10
<1> QED BY <1>8, <1>11 DEF C

\* What the store and the calls in progress are made of.
Typed(list) ==
  /\ IsList(list)
  /\ \A i \in DOMAIN list :
       Sequence(list[i]) /\ list[i].body \in Bodies /\ list[i].broken \in BOOLEAN
       /\ list[i].buf \in Nat
  /\ \A i, j \in DOMAIN list : i # j => list[i].buf # list[j].buf
Going(f) == f.body \in Bodies /\ f.buf \in Nat /\ f.pos \in 1..Len(f.body) + 1

RtTypes ==
  /\ FramesInv /\ Typed(seqs) /\ pending \in Ids \cup {NoId}
  /\ \A i \in DOMAIN frames : Going(frames[i])

\* The numbers a list's entries have are finitely many.
LEMMA FewNumbers ==
  ASSUME NEW list, IsList(list), \A i \in DOMAIN list : list[i].buf \in Nat
  PROVE  LET bufs == {list[i].buf : i \in DOMAIN list} IN bufs \subseteq Nat /\ IsFiniteSet(bufs)
<1> DEFINE bufs == {list[i].buf : i \in DOMAIN list}
           f == [i \in DOMAIN list |-> list[i].buf]
<1>1. DOMAIN list = 1..Len(list) /\ Len(list) \in Nat
  BY ListFacts
<1>2. IsFiniteSet(DOMAIN list)
  BY <1>1, FS_Interval
<1>3. f \in Surjection(DOMAIN list, bufs)
  BY DEF Surjection
<1>4. IsFiniteSet(bufs)
  <2> HIDE DEF f, bufs
  <2> QED BY <1>2, <1>3, FS_Surjection
<1> QED BY <1>4

\* New buffers are nobody's and differ from each other.
LEMMA NewBufIs ==
  ASSUME RtTypes, NEW n \in Nat \ {0}
  PROVE  /\ Rt!NewBuf(n) \in Nat /\ Rt!NewBuf(n) \notin Rt!Live
         /\ \A k \in Nat \ {0} : Rt!NewBuf(n) = Rt!NewBuf(k) => n = k
<1> DEFINE Nth(b, k) == b \notin Rt!Used /\ Cardinality((1..b) \ Rt!Used) = k
<1>1. Rt!Live \subseteq Nat /\ IsFiniteSet(Rt!Live)
  BY FewNumbers DEF RtTypes, Typed, Rt!Live
<1>2. Rt!Used \subseteq Nat /\ IsFiniteSet(Rt!Used)
  <2> DEFINE held == {frames[i].buf : i \in DOMAIN frames}
  <2>1. held \subseteq Nat /\ IsFiniteSet(held)
    BY FewNumbers DEF RtTypes, FramesInv, Going
  <2>2. Rt!Used = Rt!Live \cup held
    BY DEF Rt!Used
  <2> HIDE DEF held
  <2> QED BY <1>1, <2>1, <2>2, FS_Union
<1>3. ASSUME NEW k \in Nat \ {0}
      PROVE  Rt!NewBuf(k) \in 1..Cardinality(Rt!Used) + k /\ Nth(Rt!NewBuf(k), k)
  <2>1. \E b \in 1..Cardinality(Rt!Used) + k : Nth(b, k)
    BY <1>2, NthOutside
  <2>2. Rt!NewBuf(k) = CHOOSE b \in 1..Cardinality(Rt!Used) + k : Nth(b, k)
    BY CountIs DEF Rt!NewBuf
  <2> HIDE DEF Nth
  <2> QED BY <2>1, <2>2
<1>4. Cardinality(Rt!Used) \in Nat
  BY <1>2, FS_CardinalityType
<1>5. Rt!NewBuf(n) \in Nat
  <2>1. Rt!NewBuf(n) \in 1..Cardinality(Rt!Used) + n
    BY <1>3
  <2> QED BY <1>4, <2>1
<1>6. Rt!NewBuf(n) \notin Rt!Live
  BY <1>3 DEF Rt!Used
<1> QED BY <1>3, <1>5, <1>6

\* validate changes no more than the flag.
LEMMA ValidateTyped == ASSUME NEW list, Typed(list) PROVE Typed(Rt!validate(list))
<1>1. /\ IsList(Rt!validate(list)) /\ DOMAIN Rt!validate(list) = DOMAIN list
      /\ \A i \in DOMAIN list : /\ Sequence(Rt!validate(list)[i])
                                /\ Same(Rt!validate(list)[i], list[i])
  BY ValidateKeeps DEF Typed
<1>2. \A i \in DOMAIN list : Rt!validate(list)[i].broken \in BOOLEAN
  <2> SUFFICES ASSUME NEW i \in DOMAIN list PROVE Rt!validate(list)[i].broken \in BOOLEAN
    OBVIOUS
  <2>1. Rt!validate(list)[i] = [list[i] EXCEPT !.broken = @ \/ Rt!Missing(list, list[i])]
    BY DEF Rt!validate
  <2>2. "broken" \in DOMAIN list[i]
    BY DEF Typed, Sequence
  <2>3. Rt!validate(list)[i].broken = (list[i].broken \/ Rt!Missing(list, list[i]))
    BY <2>1, <2>2
  <2> QED BY <2>3
<1> QED BY <1>1, <1>2 DEF Typed, Same

\* Every edit of the store keeps RtTypes.
LEMMA EditTypes ==
  ASSUME RtTypes, FramesInv', UNCHANGED <<pending, frames>>, NEW list, Typed(list),
         seqs' = Rt!validate(list)
  PROVE  RtTypes'
<1>1. Typed(seqs')
  BY ValidateTyped
<1> QED BY <1>1 DEF RtTypes, Typed, Going

\* PUT of the whole list.
LEMMA PutListTypes ==
  ASSUME RtTypes, FramesInv', NEW list \in Stores, Rt!PutList(list)
  PROVE  RtTypes'
<1> DEFINE new == [i \in DOMAIN list |->
                    [id |-> list[i].id, body |-> list[i].body, broken |-> FALSE,
                     buf |-> Rt!NewBuf(i)]]
<1>1. list \in Seq([id : Ids, body : Bodies])
  BY RuntimeInstance DEF Rt!RuntimeAssumption
<1>2. DOMAIN list = 1..Len(list) /\ Len(list) \in Nat
  BY <1>1, LenProperties
<1>3. \A i \in DOMAIN list : list[i] \in [id : Ids, body : Bodies] /\ i \in Nat \ {0}
  <2>1. \A i \in 1..Len(list) : list[i] \in [id : Ids, body : Bodies]
    BY <1>1, ElementOfSeq
  <2>2. \A i \in 1..Len(list) : i \in Nat \ {0}
    BY <1>2
  <2> QED BY <1>2, <2>1, <2>2
<1>4. \A i \in DOMAIN list : Rt!NewBuf(i) \in Nat
  BY <1>3, NewBufIs
<1>5. \A i, j \in DOMAIN list : i # j => Rt!NewBuf(i) # Rt!NewBuf(j)
  BY <1>3, NewBufIs
<1>6. Typed(new)
  <2>1. IsList(new)
    BY <1>2, ListOf
  <2>2. \A i \in DOMAIN new :
          Sequence(new[i]) /\ new[i].body \in Bodies /\ new[i].broken \in BOOLEAN
          /\ new[i].buf \in Nat
    BY <1>3, <1>4 DEF Sequence
  <2>3. \A i, j \in DOMAIN new : i # j => new[i].buf # new[j].buf
    BY <1>5
  <2> HIDE DEF new
  <2> QED BY <2>1, <2>2, <2>3 DEF Typed
<1>7. seqs' = Rt!validate(new) /\ UNCHANGED <<pending, frames>>
  BY DEF Rt!PutList, Rt!Whole, Rt!web
<1> HIDE DEF new
<1> QED BY <1>6, <1>7, EditTypes

\* PUT of one sequence.
LEMMA PutOneTypes ==
  ASSUME RtTypes, FramesInv', NEW id \in Ids, NEW body \in Bodies, Rt!PutOne(id, body)
  PROVE  RtTypes'
<1> DEFINE s == [id |-> id, body |-> body, broken |-> FALSE, buf |-> Rt!NewBuf(1)]
           at == Rt!Index(seqs, id)
           new == IF Rt!Has(seqs, id) THEN [seqs EXCEPT ![at] = s] ELSE Append(seqs, s)
<1>1. seqs' = Rt!validate(new) /\ UNCHANGED <<pending, frames>>
  BY DEF Rt!PutOne, Rt!web
<1>2. /\ Sequence(s) /\ s.body \in Bodies /\ s.broken \in BOOLEAN /\ s.buf \in Nat
      /\ \A i \in DOMAIN seqs : seqs[i].buf # s.buf
  <2>1. Rt!NewBuf(1) \in Nat /\ Rt!NewBuf(1) \notin Rt!Live
    BY NewBufIs
  <2> QED BY <2>1 DEF Sequence, Rt!Live
<1>3. DOMAIN seqs = 1..Len(seqs) /\ Len(seqs) \in Nat /\ IsList(seqs)
  BY ListFacts DEF RtTypes, Typed
<1> HIDE DEF s
<1>4. CASE Rt!Has(seqs, id)
  <2>1. at \in DOMAIN seqs
    BY <1>3, <1>4, FindIs
  <2> HIDE DEF at
  <2>2. new = [i \in 1..Len(seqs) |-> IF i = at THEN s ELSE seqs[i]]
    BY <1>3, <1>4, <2>1
  <2>3. DOMAIN new = 1..Len(seqs) /\ \A i \in 1..Len(seqs) : new[i] = IF i = at THEN s ELSE seqs[i]
    BY <2>2
  <2> HIDE DEF new
  <2>4. IsList(new)
    BY <1>3, <2>2, <2>3, ListOf
  <2>5. Typed(new)
    BY <1>2, <1>3, <2>3, <2>4 DEF RtTypes, Typed
  <2> QED BY <1>1, <2>5, EditTypes
<1>5. CASE ~Rt!Has(seqs, id)
  <2>1. seqs \in Seq(Range(seqs) \cup {s}) /\ new = Append(seqs, s)
    BY <1>3, <1>5, ListFacts, SeqMonotonic
  <2> HIDE DEF new
  <2>2. /\ new \in Seq(Range(seqs) \cup {s}) /\ Len(new) = Len(seqs) + 1
        /\ new[Len(seqs) + 1] = s
        /\ \A i \in 1..Len(seqs) : new[i] = seqs[i]
    BY <2>1, AppendProperties
  <2>3. DOMAIN new = 1..Len(seqs) + 1 /\ IsList(new)
    BY <2>2, LenProperties DEF IsList
  <2>4. \A i \in DOMAIN new : \/ new[i] = s /\ i = Len(seqs) + 1
                              \/ i \in DOMAIN seqs /\ new[i] = seqs[i]
    BY <1>3, <2>2, <2>3
  <2>5. Typed(new)
    BY <1>2, <2>3, <2>4 DEF RtTypes, Typed
  <2> QED BY <1>1, <2>5, EditTypes
<1> QED BY <1>4, <1>5

\* DELETE: those behind the one that goes move one place.
LEMMA DeleteTypes ==
  ASSUME RtTypes, FramesInv', NEW id \in Ids, Rt!Delete(id)
  PROVE  RtTypes'
<1> DEFINE at == Rt!Index(seqs, id)
           new == Rt!RemoveAt(seqs, at)
           From(i) == IF i < at THEN i ELSE i + 1
<1>1. seqs' = Rt!validate(new) /\ UNCHANGED <<pending, frames>> /\ Rt!Has(seqs, id)
  BY DEF Rt!Delete, Rt!web
<1>2. at \in DOMAIN seqs /\ IsList(seqs)
  BY <1>1, FindIs DEF RtTypes, Typed
<1>3. DOMAIN seqs = 1..Len(seqs) /\ Len(seqs) \in Nat
  BY <1>2, ListFacts
<1> HIDE DEF at
<1>4. IsList(new) /\ new = [i \in 1..Len(seqs) - 1 |-> IF i < at THEN seqs[i] ELSE seqs[i + 1]]
  BY <1>2, RemoveAtIs
<1> HIDE DEF new
<1>5. /\ DOMAIN new = 1..Len(seqs) - 1
      /\ \A i \in DOMAIN new : From(i) \in DOMAIN seqs /\ new[i] = seqs[From(i)]
  BY <1>3, <1>4
<1>6. \A i, j \in DOMAIN new : i # j => From(i) # From(j)
  BY <1>2, <1>3, <1>5
<1> HIDE DEF From
<1>7. Typed(new)
  BY <1>4, <1>5, <1>6 DEF RtTypes, Typed
<1> QED BY <1>1, <1>7, EditTypes

\* A step of the loop leaves the list alone, and what is on the stack has been
\* there or starts a sequence of the list.
LEMMA LoopTypes ==
  ASSUME RtTypes, FramesInv', UNCHANGED seqs, pending' \in Ids \cup {NoId},
         \A i \in DOMAIN frames' : Going(frames'[i])
  PROVE  RtTypes'
BY DEF RtTypes, Typed

\* A sequence starts with its first node.
LEMMA FrameGoing ==
  ASSUME RtTypes, NEW id, Rt!Has(seqs, id)
  PROVE  Going(Rt!Frame(Rt!Find(seqs, id)))
<1>1. PICK j \in DOMAIN seqs : Rt!Find(seqs, id) = seqs[j]
  BY FindIs DEF RtTypes, FramesInv
<1>2. seqs[j].body \in Bodies /\ seqs[j].buf \in Nat
  BY DEF RtTypes, Typed
<1>3. Len(seqs[j].body) \in Nat
  BY <1>2, RuntimeInstance, LenProperties DEF Rt!RuntimeAssumption
<1> QED BY <1>1, <1>2, <1>3 DEF Rt!Frame, Going

\* In the middle of a body there is a next place in it.
LEMMA OnwardGoing ==
  ASSUME RtTypes, Rt!InBody
  PROVE  \A i \in DOMAIN frames : Going(Rt!Onward[i])
<1>1. Len(frames) \in DOMAIN frames
  BY OnwardIs DEF RtTypes, Rt!InBody
<1>2. SUFFICES ASSUME NEW i \in DOMAIN frames PROVE Going(Rt!Onward[i])
  OBVIOUS
<1>3. Going(frames[i]) /\ Call_(frames[i])
  BY DEF RtTypes, FramesInv
<1>4. CASE i = Len(frames)
  <2>1. Rt!Onward[i] = [frames[i] EXCEPT !.pos = @ + 1]
    BY <1>1, <1>4 DEF Rt!Onward
  <2>2. frames[i].pos <= Len(frames[i].body)
    BY <1>4 DEF Rt!InBody, Rt!Top, Rt!Last
  <2>3. Len(frames[i].body) \in Nat
    BY <1>3, RuntimeInstance, LenProperties DEF Going, Rt!RuntimeAssumption
  <2>4. /\ Rt!Onward[i].pos = frames[i].pos + 1 /\ Rt!Onward[i].body = frames[i].body
        /\ Rt!Onward[i].buf = frames[i].buf
    BY <1>3, <2>1 DEF Call_
  <2>5. frames[i].pos + 1 \in 1..Len(frames[i].body) + 1
    BY <1>3, <2>2, <2>3 DEF Going
  <2> QED BY <1>3, <2>4, <2>5 DEF Going
<1>5. CASE i # Len(frames)
  BY <1>3, <1>5 DEF Rt!Onward
<1> QED BY <1>4, <1>5

\* Every step of the loop task keeps RtTypes.
LEMMA LoopKeepsTypes == RtTypes /\ Rt!LoopStep => RtTypes'
<1> SUFFICES ASSUME RtTypes, Rt!LoopStep PROVE RtTypes'
  OBVIOUS
<1>0. FramesInv'
  BY LoopKeeps DEF RtTypes
<1>p. pending \in Ids \cup {NoId}
  BY DEF RtTypes
<1>f. frames' = <<>> => \A i \in DOMAIN frames' : Going(frames'[i])
  BY EmptyList
<1>1. CASE Rt!Take
  <2>1. CASE Rt!Has(seqs, pending)
    <3> DEFINE f == Rt!Frame(Rt!Find(seqs, pending))
    <3>1. frames' = <<f>> /\ Going(f)
      BY <1>1, <2>1, FrameGoing DEF Rt!Take
    <3> HIDE DEF f
    <3>2. DOMAIN frames' = {1} /\ frames'[1] = f
      BY <3>1
    <3> QED BY <1>0, <1>1, <3>1, <3>2, LoopTypes DEF Rt!Take
  <2>2. CASE ~Rt!Has(seqs, pending)
    BY <1>0, <1>1, <1>f, <2>2, LoopTypes DEF Rt!Take
  <2> QED BY <2>1, <2>2
<1>2. CASE Rt!Block
  <2>1. Rt!InBody /\ frames # <<>> /\ UNCHANGED <<seqs, pending>>
    BY <1>2 DEF Rt!Block, Rt!InBody, Rt!loopOnly
  <2>2. CASE frames' = Rt!Onward
    <3>1. DOMAIN frames' = DOMAIN frames
      BY <2>1, <2>2, OnwardIs DEF RtTypes
    <3> QED BY <1>0, <1>p, <2>1, <2>2, <3>1, OnwardGoing, LoopTypes
  <2>3. CASE Rt!Fail
    BY <1>0, <1>p, <1>f, <2>1, <2>3, LoopTypes DEF Rt!Fail
  <2> QED BY <1>2, <2>2, <2>3 DEF Rt!Block
<1>3. CASE Rt!Call
  <2>1. Rt!InBody /\ frames # <<>> /\ UNCHANGED <<seqs, pending>>
    BY <1>3 DEF Rt!Call, Rt!InBody, Rt!loopOnly
  <2>2. CASE Rt!Callable(Rt!Node)
    <3> DEFINE f == Rt!Frame(Rt!Find(seqs, Rt!Node))
               S == Range(Rt!Onward) \cup {f}
    <3>1. frames' = Append(Rt!Onward, f) /\ Going(f)
      BY <1>3, <2>2, FrameGoing DEF Rt!Call, Rt!Callable
    <3>2. Rt!Onward \in Seq(S) /\ DOMAIN Rt!Onward = DOMAIN frames
      BY <2>1, OnwardIs, ListFacts, SeqMonotonic DEF RtTypes
    <3> HIDE DEF f
    <3>3. f \in S
      OBVIOUS
    <3> HIDE DEF S
    <3>4. /\ frames' \in Seq(S) /\ Len(frames') = Len(Rt!Onward) + 1
          /\ frames'[Len(Rt!Onward) + 1] = f
          /\ \A i \in 1..Len(Rt!Onward) : frames'[i] = Rt!Onward[i]
      BY <3>1, <3>2, <3>3, AppendProperties
    <3>5. /\ DOMAIN frames' = 1..Len(Rt!Onward) + 1
          /\ DOMAIN Rt!Onward = 1..Len(Rt!Onward)
          /\ Len(Rt!Onward) \in Nat
      BY <3>2, <3>4, LenProperties
    <3>6. \A i \in DOMAIN frames' : i \in DOMAIN Rt!Onward \/ i = Len(Rt!Onward) + 1
      BY <3>5
    <3>7. \A i \in DOMAIN frames' : Going(frames'[i])
      BY <2>1, <3>1, <3>2, <3>4, <3>5, <3>6, OnwardGoing
    <3> QED BY <1>0, <1>p, <2>1, <3>7, LoopTypes
  <2>3. CASE ~Rt!Callable(Rt!Node)
    BY <1>0, <1>3, <1>p, <1>f, <2>1, <2>3, LoopTypes DEF Rt!Call, Rt!Fail
  <2> QED BY <2>2, <2>3
<1>4. CASE Rt!Return
  <2>1. frames # <<>> /\ frames' = Rt!Front(frames) /\ UNCHANGED <<seqs, pending>>
    BY <1>4 DEF Rt!Return, Rt!loopOnly
  <2>2. DOMAIN frames = 1..Len(frames) /\ Len(frames) \in Nat /\ frames \in Seq(Range(frames))
    BY ListFacts DEF RtTypes, FramesInv
  <2>3. Len(frames) # 0
    BY <2>1, <2>2, EmptySeq
  <2>4. /\ frames' \in Seq(Range(frames)) /\ Len(frames') = Len(frames) - 1
        /\ \A i \in 1..Len(frames) - 1 : frames'[i] = frames[i]
    <3>1. \A i \in 1..Len(frames) - 1 : i \in 1..Len(frames) /\ frames[i] \in Range(frames)
      BY <2>2 DEF Range
    <3> QED BY <2>1, <2>2, <2>3, <3>1, SubSeqProperties DEF Rt!Front
  <2>5. \A i \in DOMAIN frames' : i \in DOMAIN frames /\ frames'[i] = frames[i]
    BY <2>2, <2>4, LenProperties
  <2>6. \A i \in DOMAIN frames' : Going(frames'[i])
    BY <2>5 DEF RtTypes
  <2> QED BY <1>0, <1>p, <2>1, <2>6, LoopTypes
<1>5. CASE Rt!Crash
  <2> DEFINE new == [i \in DOMAIN seqs |-> [seqs[i] EXCEPT !.broken = FALSE]]
  <2>1. seqs' = Rt!validate(new) /\ frames' = <<>> /\ pending' = NoId
    BY <1>5 DEF Rt!Crash, Rt!Fail
  <2>2. DOMAIN seqs = 1..Len(seqs) /\ Len(seqs) \in Nat
    BY ListFacts DEF RtTypes, Typed
  <2>3. Typed(new)
    <3>1. IsList(new)
      BY <2>2, ListOf
    <3>2. \A i \in DOMAIN seqs :
            /\ Sequence(seqs[i]) /\ seqs[i].body \in Bodies /\ seqs[i].buf \in Nat
            /\ new[i] = [seqs[i] EXCEPT !.broken = FALSE]
      BY DEF RtTypes, Typed
    <3>3. \A i \in DOMAIN seqs :
            /\ Sequence(new[i]) /\ new[i].body \in Bodies /\ new[i].broken = FALSE
            /\ new[i].buf = seqs[i].buf
      <4> SUFFICES ASSUME NEW i \in DOMAIN seqs
                   PROVE  /\ Sequence(new[i]) /\ new[i].body \in Bodies
                          /\ new[i].broken = FALSE /\ new[i].buf = seqs[i].buf
        OBVIOUS
      <4> HIDE DEF new
      <4> QED BY <3>2 DEF Sequence
    <3>4. DOMAIN new = DOMAIN seqs
      OBVIOUS
    <3> HIDE DEF new
    <3> QED BY <3>1, <3>2, <3>3, <3>4 DEF RtTypes, Typed
  <2> HIDE DEF new
  <2>4. Typed(seqs')
    BY <2>1, <2>3, ValidateTyped
  <2> QED BY <1>0, <1>f, <2>1, <2>4 DEF RtTypes
<1> QED BY <1>1, <1>2, <1>3, <1>4, <1>5 DEF Rt!LoopStep

\* Type correctness of both parts: among it, that two sequences never share a
\* buffer, however many are put, replaced and erased during a run.
THEOREM PartsTypeCorrect == PartsSpec => []PartsTypeOK
<1> DEFINE AllTypes == TvInv /\ RtTypes
<1>1. PartsInit => AllTypes
  <2>1. Init => TvInv
    BY TvInit
  <2>2. Rt!Init => RtTypes
    BY EmptyList DEF Rt!Init, RtTypes, FramesInv, Typed
  <2> QED BY <2>1, <2>2 DEF PartsInit
<1>2. AllTypes /\ [PartsNext]_<<part, vars, storeVars>> => AllTypes'
  <2> SUFFICES ASSUME AllTypes, [PartsNext]_<<part, vars, storeVars>> PROVE AllTypes'
    OBVIOUS
  <2>1. TvInv'
    <3>1. [Next]_vars
      BY DEF PartsNext
    <3> QED BY <3>1, TvStep
  <2>2. RtTypes'
    <3>1. [Rt!Next]_(Rt!vars)
      BY DEF PartsNext, storeVars, Rt!vars
    <3>2. FramesInv'
      BY <3>1, FramesStays DEF RtTypes
    <3>3. ASSUME NEW list \in Stores, Rt!PutList(list) PROVE RtTypes'
      BY <3>2, <3>3, PutListTypes
    <3>4. ASSUME NEW id \in Ids, Rt!Delete(id) PROVE RtTypes'
      BY <3>2, <3>4, DeleteTypes
    <3>5. ASSUME NEW id \in Ids, NEW b \in Bodies, Rt!PutOne(id, b) PROVE RtTypes'
      BY <3>2, <3>5, PutOneTypes
    <3>6. ASSUME NEW id \in Ids, Rt!PostRun(id) \/ Rt!Fire(id) PROVE RtTypes'
      BY <3>2, <3>6 DEF Rt!PostRun, Rt!Fire, Rt!enqueueRun, RtTypes, Typed
    <3>7. CASE UNCHANGED Rt!vars
      BY <3>2, <3>7 DEF Rt!vars, RtTypes, Typed
    <3> QED BY <3>1, <3>3, <3>4, <3>5, <3>6, <3>7, LoopKeepsTypes DEF Rt!Next
  <2> QED BY <2>1, <2>2
<1>3. AllTypes => PartsTypeOK
  BY DEF TvInv, RtTypes, Typed, Going, FramesInv, Sequence, PartsTypeOK, Rt!TypeOK
<1> QED BY <1>1, <1>2, <1>3, PTL DEF PartsSpec
=============================================================================
