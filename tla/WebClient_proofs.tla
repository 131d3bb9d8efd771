-------------------------- MODULE WebClient_proofs --------------------------
(***************************************************************************)
(* What a browser's chat guarantees for any number of addresses, messages,   *)
(* overlapping polls and losses: the types, and that every message is in one *)
(* place, once.  The lemmas about sequences come first.                      *)
(***************************************************************************)
EXTENDS WebClient, FiniteSetTheorems, WellFoundedInduction, TLAPS

(***************************************************************************)
(* Sequences of sequences                                                  *)
(***************************************************************************)

\* A set of numbers with 0 that is closed under the successor has all of them.
LEMMA Induction ==
    ASSUME NEW S, 0 \in S, \A n \in Nat : n \in S => n + 1 \in S
    PROVE  Nat \subseteq S
<1>1. SUFFICES ASSUME Nat \ S # {} PROVE FALSE  OBVIOUS
<1> DEFINE R == OpToRel(<, Nat)
<1>2. IsWellFoundedOn(R, Nat)  BY NatLessThanWellFounded
<1>3. \A x, y \in Nat : x < y => <<x, y>> \in R   BY DEF OpToRel
<1> HIDE DEF R
<1>4. PICK n \in Nat \ S : \A m \in Nat \ S : <<m, n>> \notin R
      BY <1>1, <1>2, WFMin
<1>5. n # 0 /\ n - 1 \in Nat  BY <1>4
<1>6. <<n - 1, n>> \in R  BY <1>3, <1>4, <1>5
<1>7. n - 1 \in S  BY <1>4, <1>5, <1>6
<1> QED BY <1>4, <1>5, <1>7

\* What FlattenSeq has made of the first n sequences.
Flattens(f, ss, n) ==
    f = [i \in 1..n |-> IF i = 1 THEN ss[i] ELSE f[i-1] \o ss[i]]

\* Its recursive function exists.
LEMMA FlattenExists ==
    ASSUME NEW ss
    PROVE  \A n \in Nat : \E f : Flattens(f, ss, n)
<1> DEFINE S == {n \in Nat : \E f : Flattens(f, ss, n)}
<1>1. 0 \in S
  <2>1. Flattens([i \in 1..0 |-> <<>>], ss, 0)  BY DEF Flattens
  <2> QED BY <2>1
<1>2. ASSUME NEW n \in Nat, n \in S  PROVE n + 1 \in S
  <2>1. PICK f : Flattens(f, ss, n)  BY <1>2
  <2> DEFINE last == IF n = 0 THEN ss[1] ELSE f[n] \o ss[n + 1]
             g == [i \in 1..(n + 1) |-> IF i = n + 1 THEN last ELSE f[i]]
  <2>2. ASSUME NEW i \in 1..(n + 1)  PROVE g[i] = IF i = 1 THEN ss[i] ELSE g[i-1] \o ss[i]
    <3>1. CASE i = n + 1
      <4>1. CASE n = 0  BY <3>1, <4>1
      <4>2. CASE n # 0  
        <5>1. n \in 1..(n+1) /\ n # n + 1 /\ i - 1 = n /\ i # 1 BY <3>1, <4>2
        <5>2. g[n] = f[n] BY <5>1
        <5>3. g[i] = f[n] \o ss[n+1] BY <3>1, <4>2
        <5> HIDE DEF g
        <5> QED BY <3>1, <5>1, <5>2, <5>3
      <4> QED BY <4>1, <4>2
    <3>2. CASE i # n + 1
      <4>1. i \in 1..n  BY <3>2
      <4>2. g[i] = f[i] BY <3>2
      <4>3. f[i] = IF i = 1 THEN ss[i] ELSE f[i-1] \o ss[i] BY <2>1, <4>1 DEF Flattens
      <4>4. i # 1 => i - 1 \in 1..(n+1) /\ i - 1 # n + 1  BY <4>1
      <4>5. i # 1 => g[i-1] = f[i-1] BY <4>4
      <4> HIDE DEF g
      <4> QED BY <4>2, <4>3, <4>5
    <3> QED BY <3>1, <3>2
  <2>3. Flattens(g, ss, n + 1)
    <3>1. g = [i \in 1..(n + 1) |-> g[i]] OBVIOUS
    <3> HIDE DEF g
    <3> QED BY <2>2, <3>1 DEF Flattens
  <2> HIDE DEF g
  <2> QED BY <2>3
<1> HIDE DEF S
<1>3. Nat \subseteq S  BY <1>1, <1>2, Induction
<1> QED BY <1>3 DEF S

\* FlattenSeq is its last value.
LEMMA FlattenIs ==
    ASSUME NEW ss, Len(ss) \in Nat, Len(ss) # 0
    PROVE  \E f : Flattens(f, ss, Len(ss)) /\ FlattenSeq(ss) = f[Len(ss)]
<1>1. PICK g : g = [i \in 1..Len(ss) |-> IF i = 1 THEN ss[i] ELSE g[i-1] \o ss[i]]
      BY FlattenExists DEF Flattens
<1>2. \E f : /\ f = [i \in 1..Len(ss) |-> IF i = 1 THEN ss[i] ELSE f[i-1] \o ss[i]]
             /\ FlattenSeq(ss) = f[Len(ss)]
      BY <1>1, Zenon DEF FlattenSeq
<1> QED BY <1>2 DEF Flattens

\* No element twice.
Distinct(q) == \A i, j \in DOMAIN q : i # j => q[i] # q[j]

\* Two sequences one after the other.
LEMMA Concatenation ==
    ASSUME NEW S, NEW q \in Seq(S), NEW r \in Seq(S)
    PROVE  /\ q \o r \in Seq(S)
           /\ ToSet(q \o r) = ToSet(q) \cup ToSet(r)
           /\ Distinct(q) /\ Distinct(r) /\ ToSet(q) \cap ToSet(r) = {} => Distinct(q \o r)
<1> DEFINE t == q \o r
<1>1. /\ t \in Seq(S) /\ Len(t) = Len(q) + Len(r) /\ Len(q) \in Nat /\ Len(r) \in Nat
      /\ DOMAIN q = 1..Len(q) /\ DOMAIN r = 1..Len(r) /\ DOMAIN t = 1..(Len(q) + Len(r))
      OBVIOUS
<1>2. \A i \in 1..Len(q) : t[i] = q[i]  OBVIOUS
<1>3. \A i \in 1..Len(r) : t[Len(q) + i] = r[i]  OBVIOUS
<1> HIDE DEF t
<1>4. \A i \in DOMAIN t : \/ i \in DOMAIN q /\ t[i] = q[i]
                          \/ /\ i \notin DOMAIN q /\ i - Len(q) \in DOMAIN r
                             /\ t[i] = r[i - Len(q)]
  <2> TAKE i \in DOMAIN t
  <2>1. CASE i <= Len(q)  BY <1>1, <1>2, <2>1
  <2>2. CASE i > Len(q)
    <3>1. i - Len(q) \in 1..Len(r) /\ Len(q) + (i - Len(q)) = i /\ i \notin 1..Len(q)
          BY <1>1, <2>2
    <3>2. t[Len(q) + (i - Len(q))] = r[i - Len(q)]  BY <1>3, <3>1
    <3> QED BY <1>1, <3>1, <3>2
  <2> QED BY <1>1, <2>1, <2>2
<1>5. ToSet(t) = ToSet(q) \cup ToSet(r)
  <2>1. ToSet(t) \subseteq ToSet(q) \cup ToSet(r)  BY <1>4 DEF ToSet
  <2>2. ToSet(q) \subseteq ToSet(t)
    <3>1. \A i \in DOMAIN q : i \in DOMAIN t /\ t[i] = q[i]  BY <1>1, <1>2
    <3> QED BY <3>1 DEF ToSet
  <2>3. ToSet(r) \subseteq ToSet(t)
    <3>1. \A i \in DOMAIN r : Len(q) + i \in DOMAIN t /\ t[Len(q) + i] = r[i]  BY <1>1, <1>3
    <3> QED BY <3>1 DEF ToSet
  <2> QED BY <2>1, <2>2, <2>3
<1>6. ASSUME Distinct(q), Distinct(r), ToSet(q) \cap ToSet(r) = {}  PROVE Distinct(t)
  <2> SUFFICES ASSUME NEW i \in DOMAIN t, NEW j \in DOMAIN t, i # j, t[i] = t[j]  PROVE FALSE
      BY DEF Distinct
  <2>1. CASE i \in DOMAIN q /\ j \in DOMAIN q  BY <1>4, <1>6, <2>1 DEF Distinct
  <2>2. CASE i \in DOMAIN q /\ j \notin DOMAIN q  BY <1>4, <1>6, <2>2 DEF ToSet
  <2>3. CASE i \notin DOMAIN q /\ j \in DOMAIN q  BY <1>4, <1>6, <2>3 DEF ToSet
  <2>4. CASE i \notin DOMAIN q /\ j \notin DOMAIN q
    <3>1. i - Len(q) # j - Len(q)  BY <1>1
    <3> QED BY <1>4, <1>6, <2>4, <3>1 DEF Distinct
  <2> QED BY <2>1, <2>2, <2>3, <2>4
<1> QED BY <1>1, <1>5, <1>6 DEF t

\* FlattenSeq has the elements of its sequences, none twice if they have none in common.
LEMMA Flattened ==
    ASSUME NEW S, NEW ss \in Seq(Seq(S))
    PROVE  /\ FlattenSeq(ss) \in Seq(S)
           /\ ToSet(FlattenSeq(ss)) = UNION {ToSet(ss[i]) : i \in DOMAIN ss}
           /\ /\ \A i \in DOMAIN ss : Distinct(ss[i])
              /\ \A i, j \in DOMAIN ss : i # j => ToSet(ss[i]) \cap ToSet(ss[j]) = {}
              => Distinct(FlattenSeq(ss))
<1> DEFINE Apart == /\ \A i \in DOMAIN ss : Distinct(ss[i])
                    /\ \A i, j \in DOMAIN ss : i # j => ToSet(ss[i]) \cap ToSet(ss[j]) = {}
           n == Len(ss)
<1>1. n \in Nat /\ DOMAIN ss = 1..n /\ \A i \in 1..n : ss[i] \in Seq(S)  OBVIOUS
<1>2. CASE n = 0
  <2>1. FlattenSeq(ss) = ss  BY <1>2 DEF FlattenSeq
  <2>2. ss = <<>> /\ DOMAIN ss = {}  BY <1>1, <1>2
  <2> QED BY <2>1, <2>2 DEF ToSet, Distinct
<1>3. CASE n # 0
  <2>1. PICK f : Flattens(f, ss, n) /\ FlattenSeq(ss) = f[n]  BY <1>1, <1>3, FlattenIs
  <2> DEFINE Good(k) == /\ f[k] \in Seq(S)
                        /\ ToSet(f[k]) = UNION {ToSet(ss[i]) : i \in 1..k}
                        /\ Apart => Distinct(f[k])
             G == {k \in Nat : k + 1 \in 1..n => Good(k + 1)}
  <2>2. \A k \in 1..n : f[k] = IF k = 1 THEN ss[k] ELSE f[k-1] \o ss[k]
        BY <2>1 DEF Flattens
  <2>3. 0 \in G
    <3>1. f[1] = ss[1] /\ ss[1] \in Seq(S)  BY <1>1, <1>3, <2>2
    <3>2. 1..1 = {1}  OBVIOUS
    <3>3. UNION {ToSet(ss[i]) : i \in 1..1} = ToSet(ss[1])  BY <3>2
    <3>4. Apart => Distinct(ss[1])  BY <1>1, <1>3
    <3>5. Good(1)  BY <3>1, <3>3, <3>4
    <3>6. 0 + 1 = 1  OBVIOUS
    <3> HIDE DEF Good
    <3> QED BY <3>5, <3>6
  <2>4. ASSUME NEW k \in Nat, k \in G  PROVE k + 1 \in G
    <3> SUFFICES ASSUME k + 2 \in 1..n  PROVE Good(k + 2)
        <4>1. (k + 1) + 1 = k + 2 OBVIOUS
        <4> HIDE DEF Good
        <4> QED BY <4>1
    <3>1. k + 1 \in 1..n  BY <1>1
    <3>2. Good(k + 1) BY <2>4, <3>1
    <3>3. f[k + 2] = f[k + 1] \o ss[k + 2]
      <4>1. k + 2 # 1 /\ (k + 2) - 1 = k + 1 OBVIOUS
      <4> QED BY <2>2, <4>1
    <3>4. ss[k + 2] \in Seq(S)  BY <1>1
    <3>5. 1..(k + 2) = 1..(k + 1) \cup {k + 2}  OBVIOUS
    <3>6. UNION {ToSet(ss[i]) : i \in 1..(k + 2)}
             = (UNION {ToSet(ss[i]) : i \in 1..(k + 1)}) \cup ToSet(ss[k + 2])  BY <3>5
    <3>7. Apart => Distinct(ss[k + 2]) /\ ToSet(f[k + 1]) \cap ToSet(ss[k + 2]) = {}
      <4>1. \A i \in 1..(k + 1) : i \in DOMAIN ss /\ i # k + 2  BY <1>1, <3>1
      <4>2. Apart => \A i \in 1..(k + 1) : ToSet(ss[i]) \cap ToSet(ss[k + 2]) = {}
            BY <1>1, <4>1
      <4>3. Apart => Distinct(ss[k + 2])  BY <1>1
      <4> HIDE DEF Apart
      <4> QED BY <3>2, <4>2, <4>3
    <3>8. /\ f[k + 2] \in Seq(S)
          /\ ToSet(f[k + 2]) = ToSet(f[k + 1]) \cup ToSet(ss[k + 2])
          BY <3>2, <3>3, <3>4, Concatenation
    <3> HIDE DEF Apart
    <3>9. Apart => Distinct(f[k + 2])
      <4>1. f[k + 1] \in Seq(S) /\ (Apart => Distinct(f[k + 1]))  BY <3>2
      <4> HIDE DEF Good
      <4>2. Distinct(f[k + 1]) /\ Distinct(ss[k + 2]) /\ ToSet(f[k + 1]) \cap ToSet(ss[k + 2]) = {}
               => Distinct(f[k + 1] \o ss[k + 2])
            BY <3>4, <4>1, Concatenation
      <4> QED BY <3>3, <3>7, <4>1, <4>2
    <3> QED BY <3>2, <3>6, <3>8, <3>9
  <2> HIDE DEF G
  <2>5. Nat \subseteq G  BY <2>3, <2>4, Induction
  <2>6. Good(n)
    <3>1. n - 1 \in Nat /\ (n - 1) + 1 = n /\ n \in 1..n  BY <1>1, <1>3
    <3>2. n - 1 \in G  BY <2>5, <3>1
    <3> HIDE DEF Good
    <3> QED BY <3>1, <3>2 DEF G
  <2> QED BY <1>1, <2>1, <2>6
<1> QED BY <1>2, <1>3

(***************************************************************************)
(* What PollWebChat picks                                                  *)
(***************************************************************************)

\* The messages that are picked are those of the outbox that are asked for, once each if
\* the outbox has them once.
LEMMA PickedIs ==
    ASSUME NEW S, outbox \in Seq(S), NEW set
    PROVE  /\ Picked(set) \in Seq(S)
           /\ ToSet(Picked(set)) = ToSet(outbox) \cap set
           /\ Distinct(outbox) => Distinct(Picked(set))
<1> DEFINE some(i) == IF outbox[i] \in set THEN <<outbox[i]>> ELSE <<>>
           ss == [i \in DOMAIN outbox |-> some(i)]
<1>1. DOMAIN outbox = 1..Len(outbox) /\ Len(outbox) \in Nat /\ \A i \in DOMAIN outbox : outbox[i] \in S
      OBVIOUS
<1>2. ASSUME NEW i \in DOMAIN outbox
      PROVE  /\ some(i) \in Seq(S) /\ Distinct(some(i))
             /\ ToSet(some(i)) = IF outbox[i] \in set THEN {outbox[i]} ELSE {}
  <2>1. CASE outbox[i] \in set
    <3>1. some(i) = <<outbox[i]>> /\ <<outbox[i]>> \in Seq(S)  BY <1>1, <2>1
    <3>2. DOMAIN <<outbox[i]>> = {1} /\ <<outbox[i]>>[1] = outbox[i]  OBVIOUS
    <3>3. ToSet(<<outbox[i]>>) = {outbox[i]}  BY <3>2 DEF ToSet
    <3>4. Distinct(<<outbox[i]>>)  BY <3>2 DEF Distinct
    <3> HIDE DEF some
    <3> QED BY <2>1, <3>1, <3>3, <3>4
  <2>2. CASE outbox[i] \notin set  BY <2>2 DEF ToSet, Distinct
  <2> QED BY <2>1, <2>2
<1> HIDE DEF some
<1>3. DOMAIN ss = DOMAIN outbox /\ \A i \in DOMAIN ss : ss[i] = some(i)  OBVIOUS
<1>4. ss \in Seq(Seq(S))
  <2>1. ss \in [1..Len(outbox) -> Seq(S)]  BY <1>1, <1>2
  <2> QED BY <1>1, <2>1
<1> HIDE DEF ss
<1>5. /\ FlattenSeq(ss) \in Seq(S)
      /\ ToSet(FlattenSeq(ss)) = UNION {ToSet(ss[i]) : i \in DOMAIN ss}
      /\ /\ \A i \in DOMAIN ss : Distinct(ss[i])
         /\ \A i, j \in DOMAIN ss : i # j => ToSet(ss[i]) \cap ToSet(ss[j]) = {}
         => Distinct(FlattenSeq(ss))
      BY <1>4, Flattened
<1>6. \A i \in DOMAIN ss : /\ Distinct(ss[i])
                           /\ ToSet(ss[i]) = IF outbox[i] \in set THEN {outbox[i]} ELSE {}
      BY <1>2, <1>3
<1>7. UNION {ToSet(ss[i]) : i \in DOMAIN ss} = ToSet(outbox) \cap set
  <2>1. ToSet(outbox) = {outbox[i] : i \in DOMAIN outbox}  BY DEF ToSet
  <2> QED BY <1>3, <1>6, <2>1
<1>8. Distinct(outbox) => \A i, j \in DOMAIN ss : i # j => ToSet(ss[i]) \cap ToSet(ss[j]) = {}
      BY <1>3, <1>6 DEF Distinct
<1>9. Picked(set) = FlattenSeq(ss)  BY DEF Picked, ss, some
<1> QED BY <1>5, <1>6, <1>7, <1>8, <1>9

\* What is answered and what is left are the outbox, without a message in both.
LEMMA OutboxSplit ==
    ASSUME sent \in Nat, outbox \in Seq(Messages), NEW ts \in Nat
    PROVE  /\ Newer(ts) \in Seq(Messages) /\ Remaining(ts) \in Seq(Messages)
           /\ Distinct(outbox) => Distinct(Newer(ts)) /\ Distinct(Remaining(ts))
           /\ ToSet(Newer(ts)) \cup ToSet(Remaining(ts)) = ToSet(outbox)
           /\ ToSet(Newer(ts)) \cap ToSet(Remaining(ts)) = {}
<1>1. \A m \in 1..sent : m > ts <=> ~(m <= ts)  OBVIOUS
<1>2. ToSet(outbox) \subseteq 1..sent  BY DEF ToSet, Messages
<1> QED BY <1>1, <1>2, PickedIs DEF Newer, Remaining

(***************************************************************************)
(* Types                                                                   *)
(***************************************************************************)

\* An answer that came has messages, and nothing else has.
AnswerInv == \A q \in Polls : poll[q].at = "answered" <=> poll[q].messages # <<>>

PresenceOK == /\ entry \in Entries \cup {NoEntry}
              /\ addr \in Addrs /\ token \in Addrs \cup {None}
              /\ moves \in 0..MaxMoves
DeskOK == /\ sent \in 0..MaxSent /\ outbox \in Seq(Messages)
PageOK == /\ got \in Seq(Messages) /\ since \in 0..sent /\ watermark \in 0..since
          /\ receipts \subseteq 1..since
PollType == [at : {"idle", "asked", "answered"}, token : Addrs \cup {None},
             since : 0..since, messages : Seq(Messages)]
NetOK == losses \in 0..MaxLost /\ lost \subseteq Messages /\ poll \in [Polls -> PollType]

\* TypeOK in parts.
LEMMA TypeParts == TypeOK <=> PresenceOK /\ DeskOK /\ PageOK /\ NetOK
BY DEF TypeOK, PresenceOK, DeskOK, PageOK, NetOK, PollType

\* The same of the next state.
LEMMA TypePartsNext == TypeOK' <=> PresenceOK' /\ DeskOK' /\ PageOK' /\ NetOK'
BY DEF TypeOK, PresenceOK, DeskOK, PageOK, NetOK, PollType, Messages

\* The types hold at the start.
LEMMA InitTypes == Init => TypeOK /\ AnswerInv
<1> SUFFICES ASSUME Init  PROVE TypeOK /\ AnswerInv  OBVIOUS
<1>1. PresenceOK  BY WebClientConstants DEF Init, PresenceOK
<1>2. sent = 0 /\ outbox = <<>> /\ DeskOK
      BY WebClientConstants DEF Init, DeskOK
<1>3. PageOK  BY <1>2 DEF Init, PageOK
<1>4. NetOK
  <2>1. losses \in 0..MaxLost /\ lost \subseteq Messages  BY WebClientConstants DEF Init
  <2>2. NoPoll \in PollType  BY <1>3 DEF NoPoll, PollType, PageOK, Init
  <2> QED BY <2>1, <2>2 DEF Init, NetOK
<1>5. AnswerInv  BY DEF Init, AnswerInv, NoPoll
<1> QED BY <1>1, <1>2, <1>3, <1>4, <1>5, TypeParts

\* A poll that changes keeps the types if its new state has them.
LEMMA OnePoll ==
    ASSUME NetOK, NEW q \in Polls, NEW x \in PollType, poll' = [poll EXCEPT ![q] = x],
           UNCHANGED <<sent, since>>
    PROVE  /\ poll' \in [Polls -> PollType] /\ PollType' = PollType
           /\ poll'[q] = x /\ \A p \in Polls : p # q => poll'[p] = poll[p]
<1>1. poll \in [Polls -> PollType]  BY DEF NetOK
<1>2. PollType' = PollType  BY DEF PollType, Messages
<1> QED BY <1>1, <1>2

\* Nothing asked for is a state of a poll.
LEMMA NoPollTyped == DeskOK /\ PageOK => NoPoll \in PollType
<1> SUFFICES ASSUME DeskOK, PageOK  PROVE NoPoll \in PollType  OBVIOUS
<1>1. sent \in Nat  BY WebClientConstants DEF DeskOK
<1>2. 0 \in 0..since  BY <1>1 DEF PageOK
<1> QED BY <1>2 DEF NoPoll, PollType

\* The registration and the page keep the types.
LEMMA PresenceTypes ==
    ASSUME TypeOK, AnswerInv, Heartbeat \/ Reap \/ Move
    PROVE  TypeOK' /\ AnswerInv'
<1>1. PresenceOK /\ DeskOK /\ PageOK /\ NetOK  BY TypeParts
<1>2. DeskOK'  BY <1>1 DEF Heartbeat, Reap, Move, deskVars, DeskOK, Messages
<1>3. CASE Heartbeat
  <2>1. PresenceOK'
        BY <1>1, <1>3 DEF Heartbeat, Touch, PresenceOK, Entries, Stale
  <2>2. PageOK' /\ NetOK' /\ AnswerInv'
        BY <1>1, <1>3 DEF Heartbeat, PageOK, NetOK, PollType, Messages, AnswerInv, pageVars, deskVars
  <2> QED BY <1>2, <2>1, <2>2, TypePartsNext
<1>4. CASE Reap
  <2>1. PresenceOK'
    <3>1. CASE entry.age = Stale  BY <1>1, <1>4, <3>1 DEF Reap, PresenceOK
    <3>2. CASE entry.age # Stale
      <4>1. entry \in Entries  BY <1>1, <1>4 DEF Reap, PresenceOK
      <4>2. entry' = [entry EXCEPT !.age = entry.age + 1]  BY <1>4, <3>2 DEF Reap
      <4>3. entry' \in Entries  BY <3>2, <4>1, <4>2 DEF Entries, Stale
      <4> QED BY <1>1, <1>4, <4>3 DEF Reap, PresenceOK
    <3> QED BY <3>1, <3>2
  <2>2. PageOK' /\ NetOK' /\ AnswerInv'
        BY <1>1, <1>4 DEF Reap, PageOK, NetOK, PollType, Messages, AnswerInv, pageVars, deskVars
  <2> QED BY <1>2, <2>1, <2>2, TypePartsNext
<1>5. CASE Move
  <2>1. PresenceOK'  BY <1>1, <1>5, WebClientConstants DEF Move, PresenceOK
  <2>2. PageOK'  BY <1>1, <1>5 DEF Move, PageOK, Messages, deskVars
  <2>3. NetOK'
    <3>1. PollType' = PollType  BY <1>5 DEF Move, PollType, Messages, deskVars
    <3>2. NoPoll \in PollType  BY <1>1, NoPollTyped
    <3>3. poll' \in [Polls -> PollType']  BY <1>5, <3>1, <3>2 DEF Move
    <3>4. Carried(Polls) \subseteq Messages
      <4>1. \A q \in Polls : poll[q].messages \in Seq(Messages)  BY <1>1 DEF NetOK, PollType
      <4> QED BY <4>1 DEF Carried, ToSet
    <3>5. lost' \subseteq Messages'  BY <1>1, <1>5, <3>4 DEF Move, NetOK, Messages, deskVars
    <3> QED BY <1>1, <1>5, <3>3, <3>5 DEF Move, NetOK
  <2>4. AnswerInv'  BY <1>5 DEF Move, AnswerInv, NoPoll
  <2> QED BY <1>2, <2>1, <2>2, <2>3, <2>4, TypePartsNext
<1> QED BY <1>3, <1>4, <1>5

\* A new message keeps the types, which grow with it.
LEMMA SendTypes ==
    ASSUME TypeOK, AnswerInv, SendMessage
    PROVE  TypeOK' /\ AnswerInv'
<1>1. PresenceOK /\ DeskOK /\ PageOK /\ NetOK  BY TypeParts
<1>2. sent \in Nat /\ sent < MaxSent /\ MaxSent \in Nat /\ sent' = sent + 1
      BY <1>1, WebClientConstants DEF DeskOK, SendMessage
<1>3. Messages' = 1..(sent + 1) /\ Messages \subseteq Messages' /\ sent' \in Messages'
      BY <1>2 DEF Messages
<1>4. ASSUME NEW s \in Seq(Messages)  PROVE s \in Seq(Messages')
  <2>1. /\ Len(s) \in Nat /\ s \in [1..Len(s) -> Messages]  OBVIOUS
  <2>2. s \in [1..Len(s) -> Messages']  BY <1>3, <2>1
  <2> QED BY <2>1, <2>2
<1>5. DeskOK'
  <2>1. outbox \in Seq(Messages') /\ sent' \in Messages'  BY <1>1, <1>3, <1>4 DEF DeskOK
  <2>2. outbox' \in Seq(Messages')  BY <2>1 DEF SendMessage
  <2> QED BY <1>2, <2>2 DEF DeskOK
<1>6. PageOK'
  <2>1. UNCHANGED <<got, since, receipts, watermark>>  BY DEF SendMessage, pageVars
  <2>2. got \in Seq(Messages')  BY <1>1, <1>4 DEF PageOK
  <2>3. since \in 0..sent'  BY <1>1, <1>2 DEF PageOK
  <2> QED BY <1>1, <2>1, <2>2, <2>3 DEF PageOK
<1>7. NetOK'
  <2>1. UNCHANGED <<poll, lost, losses, since>>  BY DEF SendMessage, pageVars
  <2>2. PollType \subseteq PollType'  BY <1>4, <2>1 DEF PollType
  <2>3. poll' \in [Polls -> PollType']  BY <1>1, <2>1, <2>2 DEF NetOK
  <2> QED BY <1>1, <1>3, <2>1, <2>3 DEF NetOK
<1>8. AnswerInv'  BY DEF SendMessage, AnswerInv
<1>9. PresenceOK'  BY <1>1 DEF SendMessage, presenceVars, PresenceOK
<1> QED BY <1>5, <1>6, <1>7, <1>8, <1>9, TypePartsNext

\* So do the requests of the page.
LEMMA PageTypes ==
    ASSUME TypeOK, AnswerInv, NEW q \in Polls,
           PollChat(q) \/ PollWebChat(q) \/ ShowMessages(q) \/ LosePoll(q)
    PROVE  TypeOK' /\ AnswerInv'
<1>1. PresenceOK /\ DeskOK /\ PageOK /\ NetOK  BY TypeParts
<1>2. PresenceOK'
      BY <1>1 DEF PollChat, PollWebChat, ShowMessages, LosePoll, presenceVars, PresenceOK
<1>3. sent' = sent /\ Messages' = Messages /\ sent \in Nat
      BY <1>1, WebClientConstants
      DEF PollChat, PollWebChat, ShowMessages, LosePoll, deskVars, Messages, DeskOK
<1>4. poll \in [Polls -> PollType] /\ poll[q] \in PollType /\ NoPoll \in PollType
      BY <1>1, NoPollTyped DEF NetOK
<1>5. CASE PollChat(q)
  <2> DEFINE x == [NoPoll EXCEPT !.at = "asked", !.token = token, !.since = since]
  <2>1. x \in PollType /\ x.at = "asked" /\ x.messages = <<>>
    <3>1. token \in Addrs \cup {None} /\ since \in 0..since  BY <1>1, <1>3 DEF PresenceOK, PageOK
    <3>2. NoPoll.messages = <<>>  BY DEF NoPoll
    <3> QED BY <1>4, <3>1, <3>2 DEF PollType
  <2>2. poll' = [poll EXCEPT ![q] = x]  BY <1>5 DEF PollChat
  <2> HIDE DEF x
  <2>3. UNCHANGED <<sent, since, got, receipts, watermark, outbox, lost, losses>>
        BY <1>5 DEF PollChat, pageVars, deskVars
  <2>4. NetOK'  BY <1>1, <1>3, <2>1, <2>2, <2>3, OnePoll DEF NetOK
  <2>5. AnswerInv'  BY <1>4, <2>1, <2>2 DEF AnswerInv
  <2>6. DeskOK' /\ PageOK'  BY <1>1, <1>3, <2>3 DEF DeskOK, PageOK
  <2> QED BY <1>2, <2>4, <2>5, <2>6, TypePartsNext
<1>6. CASE PollWebChat(q)
  <2> DEFINE ts == poll[q].since
  <2>1. UNCHANGED <<sent, since, got, receipts, watermark, lost, losses>>
        BY <1>6 DEF PollWebChat, pageVars
  <2>2. ts \in Nat  BY <1>1, <1>3, <1>4 DEF PollType, PageOK
  <2>3. Newer(ts) \in Seq(Messages) /\ Remaining(ts) \in Seq(Messages)
        BY <1>1, <1>3, <2>2, OutboxSplit DEF DeskOK
  <2> HIDE DEF ts
  <2>4. outbox' \in Seq(Messages)  BY <1>1, <1>6, <2>3 DEF PollWebChat, DeskOK, ts
  <2> DEFINE x == [poll[q] EXCEPT !.at = "answered", !.messages = Newer(ts)]
  <2>5. x \in PollType /\ x.at = "answered" /\ x.messages = Newer(ts)
        BY <1>4, <2>3 DEF PollType
  <2> HIDE DEF x
  <2>6. \/ poll' = [poll EXCEPT ![q] = x] /\ Newer(ts) # <<>>
        \/ poll' = [poll EXCEPT ![q] = NoPoll]
        BY <1>6 DEF PollWebChat, ts, x
  <2>7. \E y \in PollType : /\ poll' = [poll EXCEPT ![q] = y]
                            /\ y.at = "answered" <=> y.messages # <<>>
        BY <1>4, <2>5, <2>6 DEF NoPoll
  <2>8. NetOK'  BY <1>1, <1>3, <2>1, <2>7, OnePoll DEF NetOK
  <2>9. AnswerInv'  BY <1>4, <2>7 DEF AnswerInv
  <2>10. DeskOK' /\ PageOK'  BY <1>1, <1>3, <2>1, <2>4 DEF DeskOK, PageOK
  <2> QED BY <1>2, <2>8, <2>9, <2>10, TypePartsNext
<1>7. CASE ShowMessages(q)
  <2> DEFINE messages == poll[q].messages
  <2>1. messages \in Seq(Messages) /\ messages # <<>>
        BY <1>4, <1>7 DEF PollType, ShowMessages, AnswerInv
  <2>2. Last(messages) \in Messages
    <3> HIDE DEF messages
    <3> QED BY <2>1 DEF Last
  <2>3. got' = got \o messages /\ since' = Larger(since, Last(messages))
        /\ receipts' = receipts \cup {since'} /\ poll' = [poll EXCEPT ![q] = NoPoll]
        BY <1>7 DEF ShowMessages
  <2> HIDE DEF messages
  <2>4. since' \in Nat /\ since <= since' /\ since' <= sent /\ since' \in 1..since'
        BY <1>1, <1>3, <2>2, <2>3 DEF Larger, PageOK, Messages
  <2>5. UNCHANGED <<outbox, watermark, lost, losses>>  BY <1>7 DEF ShowMessages, deskVars
  <2>6. PageOK'
    <3>1. got' \in Seq(Messages)  BY <1>1, <2>1, <2>3 DEF PageOK
    <3>2. 1..since \subseteq 1..since' /\ 0..since \subseteq 0..since'
          BY <1>1, <1>3, <2>4 DEF PageOK
    <3>3. receipts' \subseteq 1..since'  BY <1>1, <2>3, <2>4, <3>2 DEF PageOK
    <3> QED BY <1>1, <1>3, <2>4, <2>5, <3>1, <3>2, <3>3 DEF PageOK
  <2>7. NetOK'
    <3>1. 0..since \subseteq 0..since'  BY <1>1, <1>3, <2>4 DEF PageOK
    <3>2. PollType \subseteq PollType'  BY <1>3, <3>1 DEF PollType
    <3>3. poll' \in [Polls -> PollType']  BY <1>4, <2>3, <3>2
    <3> QED BY <1>1, <1>3, <2>5, <3>3 DEF NetOK
  <2>8. AnswerInv'  BY <1>4, <2>3 DEF AnswerInv, NoPoll
  <2>9. DeskOK'  BY <1>1, <1>3, <2>5 DEF DeskOK
  <2> QED BY <1>2, <2>6, <2>7, <2>8, <2>9, TypePartsNext
<1>8. CASE LosePoll(q)
  <2>1. UNCHANGED <<sent, since, got, receipts, watermark, outbox>>
        /\ poll' = [poll EXCEPT ![q] = NoPoll]
        BY <1>8 DEF LosePoll, pageVars, deskVars
  <2>2. Carried({q}) \subseteq Messages
    <3>1. poll[q].messages \in Seq(Messages)  BY <1>4 DEF PollType
    <3> QED BY <3>1 DEF Carried, ToSet
  <2>3. losses' \in 0..MaxLost /\ lost' \subseteq Messages
    <3>1. losses \in 0..MaxLost /\ lost \subseteq Messages  BY <1>1 DEF NetOK
    <3>2. losses < MaxLost /\ losses' = losses + 1 /\ lost' = lost \cup Carried({q})
          BY <1>8 DEF LosePoll
    <3>3. losses' \in 0..MaxLost  BY <3>1, <3>2, WebClientConstants
    <3> QED BY <2>2, <3>1, <3>2, <3>3
  <2>4. NetOK'  BY <1>1, <1>3, <1>4, <2>1, <2>3, OnePoll DEF NetOK
  <2>5. AnswerInv'  BY <1>4, <2>1 DEF AnswerInv, NoPoll
  <2>6. DeskOK' /\ PageOK'  BY <1>1, <1>3, <2>1 DEF DeskOK, PageOK
  <2> QED BY <1>2, <2>4, <2>5, <2>6, TypePartsNext
<1> QED BY <1>5, <1>6, <1>7, <1>8

\* A receipt keeps them.
LEMMA ReceiptTypes ==
    ASSUME TypeOK, AnswerInv, NEW ts, ReceiveRead(ts)
    PROVE  TypeOK' /\ AnswerInv'
<1>1. PresenceOK /\ DeskOK /\ PageOK /\ NetOK  BY TypeParts
<1>2. UNCHANGED <<presenceVars, got, since, sent, outbox, poll, lost, losses>>
      BY DEF ReceiveRead
<1>3. PresenceOK'  BY <1>1, <1>2 DEF PresenceOK, presenceVars
<1>4. sent \in Nat  BY <1>1, WebClientConstants DEF DeskOK
<1>5. PageOK'
  <2>1. ts \in 1..since /\ receipts' \subseteq receipts  BY <1>1 DEF ReceiveRead, PageOK
  <2>2. watermark' = watermark \/ watermark' = Larger(watermark, ts)  BY DEF ReceiveRead
  <2>3. watermark' \in 0..since  BY <1>1, <1>4, <2>1, <2>2 DEF Larger, PageOK
  <2> QED BY <1>1, <1>2, <2>1, <2>3 DEF PageOK, Messages
<1>6. DeskOK' /\ NetOK' /\ AnswerInv'
      BY <1>1, <1>2 DEF DeskOK, NetOK, PollType, Messages, AnswerInv
<1> QED BY <1>3, <1>5, <1>6, TypePartsNext

\* Every step keeps the types.
LEMMA NextTypes == TypeOK /\ AnswerInv /\ [Next]_vars => TypeOK' /\ AnswerInv'
<1> SUFFICES ASSUME TypeOK, AnswerInv, [Next]_vars  PROVE TypeOK' /\ AnswerInv'  OBVIOUS
<1>1. CASE UNCHANGED vars
  <2>1. PresenceOK /\ DeskOK /\ PageOK /\ NetOK  BY TypeParts
  <2>2. PresenceOK' /\ DeskOK' /\ PageOK' /\ NetOK' /\ AnswerInv'
        BY <1>1, <2>1 DEF vars, presenceVars, pageVars, deskVars, PresenceOK, DeskOK, PageOK,
           NetOK, PollType, Messages, AnswerInv
  <2> QED BY <2>2, TypePartsNext
<1> QED BY <1>1, PresenceTypes, SendTypes, PageTypes, ReceiptTypes DEF Next

\* The registration, the page, the outbox and the polls stay in their types, and no cursor
\* or receipt runs ahead of what the page was given (webpresence, PollWebChat, ReceiveRead,
\* pollChat).
THEOREM WebTypeCorrect == Spec => []TypeOK
<1>1. Init => TypeOK /\ AnswerInv  BY InitTypes
<1>2. TypeOK /\ AnswerInv /\ [Next]_vars => TypeOK' /\ AnswerInv'  BY NextTypes
<1> QED BY <1>1, <1>2, PTL DEF Spec

(***************************************************************************)
(* Every message in one place                                              *)
(***************************************************************************)

Waiting     == ToSet(outbox)
Shown       == ToSet(got)
Answered(q) == ToSet(poll[q].messages)

\* No message is twice in one place, ...
Once == Distinct(outbox) /\ Distinct(got) /\ \A q \in Polls : Distinct(poll[q].messages)

\* ... or in two, ...
Apart == /\ Waiting \cap Shown = {} /\ Waiting \cap lost = {} /\ Shown \cap lost = {}
         /\ \A q \in Polls : Answered(q) \cap (Waiting \cup Shown \cup lost) = {}
         /\ \A p, q \in Polls : p # q => Answered(p) \cap Answered(q) = {}

\* ... and each is somewhere.
Somewhere == \A m \in Messages : \/ m \in Waiting \cup Shown \cup lost
                                 \/ \E q \in Polls : m \in Answered(q)

KeptInv == Once /\ Apart /\ Somewhere

\* The empty sequence and a sequence of one.
LEMMA ShortSequences ==
    /\ ToSet(<<>>) = {} /\ Distinct(<<>>)
    /\ \A x : ToSet(<<x>>) = {x} /\ Distinct(<<x>>)
<1>1. ToSet(<<>>) = {} /\ Distinct(<<>>)  BY DEF ToSet, Distinct
<1>2. ASSUME NEW x  PROVE ToSet(<<x>>) = {x} /\ Distinct(<<x>>)
  <2>1. DOMAIN <<x>> = {1} /\ <<x>>[1] = x  OBVIOUS
  <2> QED BY <2>1 DEF ToSet, Distinct
<1> QED BY <1>1, <1>2

\* The places hold messages that were sent.
LEMMA PlacesTyped ==
    ASSUME TypeOK
    PROVE  /\ sent \in Nat /\ outbox \in Seq(Messages) /\ got \in Seq(Messages)
           /\ poll \in [Polls -> PollType] /\ since \in Nat
           /\ Waiting \subseteq Messages /\ Shown \subseteq Messages /\ lost \subseteq Messages
           /\ \A q \in Polls : /\ poll[q].messages \in Seq(Messages) /\ poll[q].since \in Nat
                               /\ Answered(q) \subseteq Messages
<1>1. DeskOK /\ PageOK /\ NetOK  BY TypeParts
<1>2. sent \in Nat /\ outbox \in Seq(Messages) /\ got \in Seq(Messages) /\ lost \subseteq Messages
      BY <1>1, WebClientConstants DEF DeskOK, PageOK, NetOK
<1>3. since \in Nat  BY <1>1, <1>2 DEF PageOK
<1>4. \A q \in Polls : poll[q].messages \in Seq(Messages) /\ poll[q].since \in Nat
      BY <1>1, <1>3 DEF NetOK, PollType
<1>5. \A s \in Seq(Messages) : ToSet(s) \subseteq Messages  BY DEF ToSet
<1> QED BY <1>1, <1>2, <1>3, <1>4, <1>5 DEF Waiting, Shown, Answered, NetOK

\* Nothing is kept at the start, since nothing is sent.
LEMMA InitKept == Init => KeptInv
<1> SUFFICES ASSUME Init  PROVE KeptInv  OBVIOUS
<1>1. /\ outbox = <<>> /\ got = <<>> /\ lost = {} /\ Messages = {}
      /\ \A q \in Polls : poll[q].messages = <<>>
      BY DEF Init, NoPoll, Messages
<1>2. Waiting = {} /\ Shown = {} /\ \A q \in Polls : Answered(q) = {}
      BY <1>1, ShortSequences DEF Waiting, Shown, Answered
<1>3. Once  BY <1>1, ShortSequences DEF Once
<1> QED BY <1>1, <1>2, <1>3 DEF KeptInv, Apart, Somewhere

\* A message that is sent is new, and waits.
LEMMA SendKeeps ==
    ASSUME TypeOK, KeptInv, SendMessage
    PROVE  KeptInv'
<1>1. /\ sent' = sent + 1 /\ outbox' = Append(outbox, sent + 1)
      /\ UNCHANGED <<got, lost, poll>>
      BY DEF SendMessage, pageVars
<1>2. Messages' = Messages \cup {sent + 1} /\ sent + 1 \notin Messages
      BY <1>1, PlacesTyped DEF Messages
<1> DEFINE new == <<sent + 1>>
<1>3. outbox' = outbox \o new
  <2>1. Append(outbox, sent + 1) = outbox \o <<sent + 1>>  BY PlacesTyped
  <2> QED BY <1>1, <2>1
<1>4. outbox \in Seq(Nat) /\ new \in Seq(Nat)
  <2>1. Messages \subseteq Nat /\ outbox \in Seq(Messages) /\ sent \in Nat
        BY PlacesTyped DEF Messages
  <2>2. Len(outbox) \in Nat /\ outbox \in [1..Len(outbox) -> Messages]  BY <2>1
  <2>3. outbox \in [1..Len(outbox) -> Nat]  BY <2>1, <2>2
  <2> QED BY <2>1, <2>2, <2>3
<1>5. ToSet(new) = {sent + 1} /\ Distinct(new)  BY ShortSequences
<1> HIDE DEF new
<1>6. Waiting' = Waiting \cup {sent + 1} /\ Distinct(outbox')
  <2>1. ToSet(outbox \o new) = ToSet(outbox) \cup {sent + 1}
        BY <1>4, <1>5, Concatenation
  <2>2. ToSet(outbox) \cap ToSet(new) = {}  BY <1>2, <1>5, PlacesTyped DEF Waiting
  <2>3. Distinct(outbox \o new)
        BY <1>4, <1>5, <2>2, Concatenation DEF KeptInv, Once
  <2> QED BY <1>3, <2>1, <2>3 DEF Waiting
<1>7. Shown' = Shown /\ \A q \in Polls : Answered(q)' = Answered(q)
      BY <1>1 DEF Shown, Answered
<1>8. Once'  BY <1>1, <1>6 DEF KeptInv, Once, Distinct
<1>9. Apart'
  <2>1. /\ sent + 1 \notin Shown /\ sent + 1 \notin lost
        /\ \A q \in Polls : sent + 1 \notin Answered(q)
        BY <1>2, PlacesTyped
  <2> QED BY <1>1, <1>6, <1>7, <2>1 DEF KeptInv, Apart
<1>10. Somewhere'  BY <1>1, <1>2, <1>6, <1>7 DEF KeptInv, Somewhere
<1> QED BY <1>8, <1>9, <1>10 DEF KeptInv

\* A poll that is answered takes its messages out of the outbox.
LEMMA AnswerKeeps ==
    ASSUME TypeOK, AnswerInv, KeptInv, NEW q \in Polls, PollWebChat(q)
    PROVE  KeptInv'
<1> DEFINE ts == poll[q].since
<1>1. UNCHANGED <<sent, got, lost>>  BY DEF PollWebChat, pageVars
<1>2. /\ ToSet(Newer(ts)) \cup ToSet(Remaining(ts)) = Waiting
      /\ ToSet(Newer(ts)) \cap ToSet(Remaining(ts)) = {}
      /\ Distinct(Newer(ts)) /\ Distinct(Remaining(ts))
      BY PlacesTyped, OutboxSplit DEF KeptInv, Once, Waiting
<1>3. poll[q].messages = <<>> /\ Answered(q) = {}
      BY ShortSequences DEF PollWebChat, AnswerInv, Answered
<1> HIDE DEF ts
<1>4. CASE /\ poll' = [poll EXCEPT ![q].at = "answered", ![q].messages = Newer(ts)]
           /\ outbox' = Remaining(ts)
  <2>1. poll'[q].messages = Newer(ts) /\ \A p \in Polls \ {q} : poll'[p] = poll[p]
    <3>1. poll \in [Polls -> PollType] /\ poll[q] \in PollType  BY PlacesTyped
    <3>2. poll' = [poll EXCEPT ![q] = [poll[q] EXCEPT !.at = "answered", !.messages = Newer(ts)]]
          BY <1>4
    <3>3. poll'[q] = [poll[q] EXCEPT !.at = "answered", !.messages = Newer(ts)]
          /\ \A p \in Polls \ {q} : poll'[p] = poll[p]
          BY <3>1, <3>2
    <3>4. [poll[q] EXCEPT !.at = "answered", !.messages = Newer(ts)].messages = Newer(ts)
          BY <3>1 DEF PollType
    <3> QED BY <3>3, <3>4
  <2>2. /\ Shown' = Shown /\ Waiting' = ToSet(Remaining(ts)) /\ Messages' = Messages
        /\ Answered(q)' = ToSet(Newer(ts)) /\ \A p \in Polls \ {q} : Answered(p)' = Answered(p)
        BY <1>1, <1>4, <2>1 DEF Shown, Waiting, Answered, Messages
  <2>3. Once'
    <3>1. Distinct(outbox') /\ Distinct(got')
          BY <1>1, <1>2, <1>4 DEF KeptInv, Once
    <3>2. \A p \in Polls : Distinct(poll'[p].messages)  BY <1>2, <2>1 DEF KeptInv, Once
    <3> QED BY <3>1, <3>2 DEF Once, Distinct
  <2>4. Apart'  BY <1>1, <1>2, <2>2 DEF KeptInv, Apart
  <2>5. Somewhere'  BY <1>1, <1>2, <1>3, <2>2 DEF KeptInv, Somewhere
  <2> QED BY <2>3, <2>4, <2>5 DEF KeptInv
<1>5. CASE poll' = [poll EXCEPT ![q] = NoPoll] /\ UNCHANGED outbox
  <2>1. \A p \in Polls : poll'[p].messages = poll[p].messages
        BY <1>3, <1>5, PlacesTyped DEF NoPoll
  <2>2. /\ Shown' = Shown /\ Waiting' = Waiting /\ Messages' = Messages
        /\ \A p \in Polls : Answered(p)' = Answered(p)
        BY <1>1, <1>5, <2>1 DEF Shown, Waiting, Answered, Messages
  <2>3. Once'  BY <1>1, <1>5, <2>1 DEF KeptInv, Once, Distinct
  <2>4. Apart' /\ Somewhere'  BY <1>1, <2>2 DEF KeptInv, Apart, Somewhere
  <2> QED BY <2>3, <2>4 DEF KeptInv
<1> QED BY <1>4, <1>5 DEF PollWebChat, ts

\* Messages that are shown are no longer on the way.
LEMMA ShowKeeps ==
    ASSUME TypeOK, KeptInv, NEW q \in Polls, ShowMessages(q)
    PROVE  KeptInv'
<1> DEFINE messages == poll[q].messages
<1>1. /\ got' = got \o messages /\ poll' = [poll EXCEPT ![q] = NoPoll]
      /\ UNCHANGED <<sent, outbox, lost>>
      BY DEF ShowMessages, deskVars
<1>2. \A p \in Polls : poll'[p] = IF p = q THEN NoPoll ELSE poll[p]  BY <1>1, PlacesTyped
<1>3. NoPoll.messages = <<>>  BY DEF NoPoll
<1>4. /\ Shown' = Shown \cup Answered(q) /\ Waiting' = Waiting /\ Messages' = Messages
      /\ \A p \in Polls : Answered(p)' = IF p = q THEN {} ELSE Answered(p)
  <2>1. Shown' = Shown \cup Answered(q)
        BY <1>1, PlacesTyped, Concatenation DEF Shown, Answered
  <2>2. \A p \in Polls : Answered(p)' = IF p = q THEN {} ELSE Answered(p)
        BY <1>2, <1>3, ShortSequences DEF Answered
  <2> QED BY <1>1, <2>1, <2>2 DEF Waiting, Messages
<1>5. Once'
  <2>1. Distinct(got')
    <3>1. Distinct(got) /\ Distinct(messages) /\ ToSet(got) \cap ToSet(messages) = {}
          BY DEF KeptInv, Once, Apart, Shown, Answered
    <3> QED BY <1>1, <3>1, PlacesTyped, Concatenation
  <2>2. Distinct(outbox')  BY <1>1 DEF KeptInv, Once
  <2>3. \A p \in Polls : Distinct(poll'[p].messages)
        BY <1>2, <1>3, ShortSequences DEF KeptInv, Once
  <2> QED BY <2>1, <2>2, <2>3 DEF Once, Distinct
<1> HIDE DEF messages
<1>6. Apart'  BY <1>1, <1>4 DEF KeptInv, Apart
<1>7. Somewhere'  BY <1>1, <1>4 DEF KeptInv, Somewhere
<1> QED BY <1>5, <1>6, <1>7 DEF KeptInv

\* Polls that end without their answers lose what those carried.
LEMMA LossKeeps ==
    ASSUME TypeOK, KeptInv, NEW ps \in SUBSET Polls,
           poll' = [q \in Polls |-> IF q \in ps THEN NoPoll ELSE poll[q]],
           lost' = lost \cup Carried(ps), UNCHANGED <<sent, outbox, got>>
    PROVE  KeptInv'
<1>1. NoPoll.messages = <<>>  BY DEF NoPoll
<1>2. /\ Shown' = Shown /\ Waiting' = Waiting /\ Messages' = Messages
      /\ \A p \in Polls : Answered(p)' = IF p \in ps THEN {} ELSE Answered(p)
      BY <1>1, ShortSequences DEF Shown, Waiting, Messages, Answered
<1>3. \A m : m \in lost' <=> m \in lost \/ \E p \in ps : m \in Answered(p)
      BY DEF Carried, Answered
<1>4. Once'
  <2>1. Distinct(outbox') /\ Distinct(got')  BY DEF KeptInv, Once
  <2>2. \A p \in Polls : Distinct(poll'[p].messages)
        BY <1>1, ShortSequences DEF KeptInv, Once
  <2> QED BY <2>1, <2>2 DEF Once, Distinct
<1>5. Apart'
  <2>1. Waiting' \cap lost' = {} /\ Shown' \cap lost' = {}
        BY <1>2, <1>3 DEF KeptInv, Apart
  <2>2. ASSUME NEW p \in Polls
        PROVE  Answered(p)' \cap (Waiting' \cup Shown' \cup lost') = {}
    <3>1. CASE p \in ps  BY <1>2, <3>1
    <3>2. CASE p \notin ps
      <4>1. Answered(p)' = Answered(p)  BY <1>2, <3>2
      <4>2. Answered(p) \cap lost' = {}  BY <1>3, <3>2 DEF KeptInv, Apart
      <4> QED BY <1>2, <4>1, <4>2 DEF KeptInv, Apart
    <3> QED BY <3>1, <3>2
  <2>3. \A p, q \in Polls : p # q => Answered(p)' \cap Answered(q)' = {}
        BY <1>2 DEF KeptInv, Apart
  <2> QED BY <1>2, <2>1, <2>2, <2>3 DEF KeptInv, Apart
<1>6. Somewhere'  BY <1>2, <1>3 DEF KeptInv, Somewhere
<1> QED BY <1>4, <1>5, <1>6 DEF KeptInv

\* The other steps leave the messages where they are.
LEMMA StillKept ==
    ASSUME KeptInv, UNCHANGED <<sent, outbox, got, lost>>,
           \A q \in Polls : poll'[q].messages = poll[q].messages
    PROVE  KeptInv'
<1>1. /\ Shown' = Shown /\ Waiting' = Waiting /\ Messages' = Messages
      /\ \A p \in Polls : Answered(p)' = Answered(p)
      BY DEF Shown, Waiting, Answered, Messages
<1>2. Once'  BY DEF KeptInv, Once, Distinct
<1> QED BY <1>1, <1>2 DEF KeptInv, Apart, Somewhere

\* Every step keeps every message in one place.
LEMMA NextKept == TypeOK /\ AnswerInv /\ KeptInv /\ [Next]_vars => KeptInv'
<1> SUFFICES ASSUME TypeOK, AnswerInv, KeptInv, [Next]_vars  PROVE KeptInv'  OBVIOUS
<1>1. CASE SendMessage  BY <1>1, SendKeeps
<1>2. CASE Heartbeat \/ Reap \/ (\E ts \in 1..MaxSent : ReceiveRead(ts)) \/ UNCHANGED vars
  <2>1. UNCHANGED <<sent, outbox, got, lost, poll>>
        BY <1>2 DEF Heartbeat, Reap, ReceiveRead, vars, pageVars, deskVars
  <2> QED BY <2>1, StillKept
<1>3. CASE Move
  <2>1. /\ poll' = [q \in Polls |-> IF q \in Polls THEN NoPoll ELSE poll[q]]
        /\ lost' = lost \cup Carried(Polls) /\ UNCHANGED <<sent, outbox, got>>
        BY <1>3 DEF Move, deskVars
  <2> QED BY <2>1, LossKeeps
<1>4. ASSUME NEW q \in Polls,
             PollChat(q) \/ PollWebChat(q) \/ ShowMessages(q) \/ LosePoll(q)
      PROVE  KeptInv'
  <2>1. CASE PollChat(q)
    <3>1. UNCHANGED <<sent, outbox, got, lost>>  BY <2>1 DEF PollChat, pageVars, deskVars
    <3>2. poll[q].messages = <<>>  BY <2>1 DEF PollChat, AnswerInv
    <3>3. [NoPoll EXCEPT !.at = "asked", !.token = token, !.since = since].messages = <<>>
          BY DEF NoPoll
    <3>4. poll'[q].messages = <<>> /\ \A p \in Polls \ {q} : poll'[p] = poll[p]
          BY <2>1, <3>3, PlacesTyped DEF PollChat
    <3> QED BY <3>1, <3>2, <3>4, StillKept
  <2>2. CASE PollWebChat(q)  BY <2>2, AnswerKeeps
  <2>3. CASE ShowMessages(q)  BY <2>3, ShowKeeps
  <2>4. CASE LosePoll(q)
    <3>1. /\ poll' = [poll EXCEPT ![q] = NoPoll] /\ lost' = lost \cup Carried({q})
          /\ UNCHANGED <<sent, outbox, got>>
          BY <2>4 DEF LosePoll, pageVars, deskVars
    <3>2. poll' = [p \in Polls |-> IF p \in {q} THEN NoPoll ELSE poll[p]]
          BY <3>1, PlacesTyped
    <3> QED BY <3>1, <3>2, LossKeeps
  <2> QED BY <1>4, <2>1, <2>2, <2>3, <2>4
<1> QED BY <1>1, <1>2, <1>3, <1>4 DEF Next

\* How often a message is in a sequence that has none twice.
LEMMA Occurrences ==
    ASSUME NEW q, Distinct(q), NEW m
    PROVE  Cardinality({i \in DOMAIN q : q[i] = m}) = IF m \in ToSet(q) THEN 1 ELSE 0
<1>1. CASE m \in ToSet(q)
  <2>1. PICK i \in DOMAIN q : q[i] = m  BY <1>1 DEF ToSet
  <2>2. {j \in DOMAIN q : q[j] = m} = {i}  BY <2>1 DEF Distinct
  <2> QED BY <1>1, <2>2, FS_Singleton
<1>2. CASE m \notin ToSet(q)
  <2>1. {j \in DOMAIN q : q[j] = m} = {}  BY <1>2 DEF ToSet
  <2> QED BY <1>2, <2>1, FS_EmptySet
<1> QED BY <1>1, <1>2

\* A message in one place is counted once.
LEMMA KeptCounts == KeptInv => MessageKept
<1> SUFFICES ASSUME KeptInv, NEW m \in Messages
             PROVE  Cardinality({i \in DOMAIN outbox : outbox[i] = m})
                    + Cardinality({i \in DOMAIN got : got[i] = m})
                    + Cardinality({q \in Polls : m \in Carried({q})})
                    + Cardinality({m} \cap lost) = 1
    BY DEF MessageKept
<1>1. /\ Cardinality({i \in DOMAIN outbox : outbox[i] = m}) = IF m \in Waiting THEN 1 ELSE 0
      /\ Cardinality({i \in DOMAIN got : got[i] = m}) = IF m \in Shown THEN 1 ELSE 0
      BY Occurrences DEF KeptInv, Once, Waiting, Shown
<1>2. Cardinality({q \in Polls : m \in Carried({q})})
      = IF \E q \in Polls : m \in Answered(q) THEN 1 ELSE 0
  <2>1. \A q \in Polls : Carried({q}) = Answered(q)  BY DEF Carried, Answered
  <2>2. CASE \E q \in Polls : m \in Answered(q)
    <3>1. PICK q \in Polls : m \in Answered(q)  BY <2>2
    <3>2. {p \in Polls : m \in Carried({p})} = {q}  BY <2>1, <3>1 DEF KeptInv, Apart
    <3> QED BY <2>2, <3>2, FS_Singleton
  <2>3. CASE ~\E q \in Polls : m \in Answered(q)
    <3>1. {p \in Polls : m \in Carried({p})} = {}  BY <2>1, <2>3
    <3> QED BY <2>3, <3>1, FS_EmptySet
  <2> QED BY <2>2, <2>3
<1>3. Cardinality({m} \cap lost) = IF m \in lost THEN 1 ELSE 0
  <2>1. CASE m \in lost
    <3>1. {m} \cap lost = {m}  BY <2>1
    <3> QED BY <2>1, <3>1, FS_Singleton
  <2>2. CASE m \notin lost
    <3>1. {m} \cap lost = {}  BY <2>2
    <3> QED BY <2>2, <3>1, FS_EmptySet
  <2> QED BY <2>1, <2>2
<1>4. CASE m \in Waiting
  <2>1. m \notin Shown /\ m \notin lost /\ ~\E q \in Polls : m \in Answered(q)
        BY <1>4 DEF KeptInv, Apart
  <2> QED BY <1>1, <1>2, <1>3, <1>4, <2>1
<1>5. CASE m \in Shown
  <2>1. m \notin Waiting /\ m \notin lost /\ ~\E q \in Polls : m \in Answered(q)
        BY <1>5 DEF KeptInv, Apart
  <2> QED BY <1>1, <1>2, <1>3, <1>5, <2>1
<1>6. CASE m \in lost
  <2>1. m \notin Waiting /\ m \notin Shown /\ ~\E q \in Polls : m \in Answered(q)
        BY <1>6 DEF KeptInv, Apart
  <2> QED BY <1>1, <1>2, <1>3, <1>6, <2>1
<1>7. CASE \E q \in Polls : m \in Answered(q)
  <2>1. m \notin Waiting /\ m \notin Shown /\ m \notin lost  BY <1>7 DEF KeptInv, Apart
  <2> QED BY <1>1, <1>2, <1>3, <1>7, <2>1
<1> QED BY <1>4, <1>5, <1>6, <1>7 DEF KeptInv, Somewhere

\* Every message is in the outbox, in one answer, on the page, or was lost with an answer, and
\* in no two of them or twice in one, however the polls overlap (PollWebChat, pollChat).
THEOREM WebMessageKept == Spec => []MessageKept
<1>1. Init => TypeOK /\ AnswerInv /\ KeptInv  BY InitTypes, InitKept
<1>2. TypeOK /\ AnswerInv /\ KeptInv /\ [Next]_vars => TypeOK' /\ AnswerInv' /\ KeptInv'
      BY NextTypes, NextKept
<1>3. KeptInv => MessageKept  BY KeptCounts
<1> QED BY <1>1, <1>2, <1>3, PTL DEF Spec
=============================================================================
