--------------------------- MODULE Sender_proofs ---------------------------
(***************************************************************************)
(* What the sending side guarantees for any number of sends, files, bytes,  *)
(* streams and callers of CancelOutgoing: the bytes that wait in the two    *)
(* queues, are held by a worker or were written never overlap, and together *)
(* they are the files until something fails.                                *)
(*                                                                          *)
(* The first half is about the chunk helpers: FlattenSeq, by an induction   *)
(* over its recursive function, and with it what the queues hold.  The      *)
(* second half is the inductive invariant SendInv and its consequences.     *)
(***************************************************************************)
EXTENDS Sender, WellFoundedInduction, TLAPS

(***************************************************************************)
(* Sequences of sequences                                                  *)
(***************************************************************************)

\* A set of numbers with 0 that is closed under the successor has all of them.
LEMMA Induction ==
    ASSUME NEW S, 0 \in S, \A n \in Nat : n \in S => n + 1 \in S
    PROVE  Nat \subseteq S
<1>1. SUFFICES ASSUME Nat \ S # {} PROVE FALSE  OBVIOUS
<1> DEFINE R == OpToRel(<, Nat)
<1>2. IsWellFoundedOn(R, Nat)  BY NatLessThanWellFounded
<1>3. \A x, y \in Nat : x < y => <<x, y>> \in R   BY DEF OpToRel
<1> HIDE DEF R
<1>4. PICK n \in Nat \ S : \A m \in Nat \ S : <<m, n>> \notin R
      BY <1>1, <1>2, WFMin
<1>5. n # 0 /\ n - 1 \in Nat  BY <1>4
<1>6. <<n - 1, n>> \in R  BY <1>3, <1>4, <1>5
<1>7. n - 1 \in S  BY <1>4, <1>5, <1>6
<1> QED BY <1>4, <1>5, <1>7

\* What FlattenSeq has made of the first n sequences.
Flattens(f, ss, n) ==
    f = [i \in 1..n |-> IF i = 1 THEN ss[i] ELSE f[i-1] \o ss[i]]

\* Its recursive function exists.
LEMMA FlattenExists ==
    ASSUME NEW ss
    PROVE  \A n \in Nat : \E f : Flattens(f, ss, n)
<1> DEFINE S == {n \in Nat : \E f : Flattens(f, ss, n)}
<1>1. 0 \in S
  <2>1. Flattens([i \in 1..0 |-> <<>>], ss, 0)  BY DEF Flattens
  <2> QED BY <2>1
<1>2. ASSUME NEW n \in Nat, n \in S  PROVE n + 1 \in S
  <2>1. PICK f : Flattens(f, ss, n)  BY <1>2
  <2> DEFINE last == IF n = 0 THEN ss[1] ELSE f[n] \o ss[n + 1]
             g == [i \in 1..(n + 1) |-> IF i = n + 1 THEN last ELSE f[i]]
  <2>2. ASSUME NEW i \in 1..(n + 1)  PROVE g[i] = IF i = 1 THEN ss[i] ELSE g[i-1] \o ss[i]
    <3>1. CASE i = n + 1
      <4>1. CASE n = 0  BY <3>1, <4>1
      <4>2. CASE n # 0  
        <5>1. n \in 1..(n+1) /\ n # n + 1 /\ i - 1 = n /\ i # 1 BY <3>1, <4>2
        <5>2. g[n] = f[n] BY <5>1
        <5>3. g[i] = f[n] \o ss[n+1] BY <3>1, <4>2
        <5> HIDE DEF g
        <5> QED BY <3>1, <5>1, <5>2, <5>3
      <4> QED BY <4>1, <4>2
    <3>2. CASE i # n + 1
      <4>1. i \in 1..n  BY <3>2
      <4>2. g[i] = f[i] BY <3>2
      <4>3. f[i] = IF i = 1 THEN ss[i] ELSE f[i-1] \o ss[i] BY <2>1, <4>1 DEF Flattens
      <4>4. i # 1 => i - 1 \in 1..(n+1) /\ i - 1 # n + 1  BY <4>1
      <4>5. i # 1 => g[i-1] = f[i-1] BY <4>4
      <4> HIDE DEF g
      <4> QED BY <4>2, <4>3, <4>5
    <3> QED BY <3>1, <3>2
  <2>3. Flattens(g, ss, n + 1)
    <3>1. g = [i \in 1..(n + 1) |-> g[i]] OBVIOUS
    <3> HIDE DEF g
    <3> QED BY <2>2, <3>1 DEF Flattens
  <2> HIDE DEF g
  <2> QED BY <2>3
<1> HIDE DEF S
<1>3. Nat \subseteq S  BY <1>1, <1>2, Induction
<1> QED BY <1>3 DEF S

\* FlattenSeq is its last value.
LEMMA FlattenIs ==
    ASSUME NEW ss, Len(ss) \in Nat, Len(ss) # 0
    PROVE  \E f : Flattens(f, ss, Len(ss)) /\ FlattenSeq(ss) = f[Len(ss)]
<1>1. PICK g : g = [i \in 1..Len(ss) |-> IF i = 1 THEN ss[i] ELSE g[i-1] \o ss[i]]
      BY FlattenExists DEF Flattens
<1>2. \E f : /\ f = [i \in 1..Len(ss) |-> IF i = 1 THEN ss[i] ELSE f[i-1] \o ss[i]]
             /\ FlattenSeq(ss) = f[Len(ss)]
      BY <1>1, Zenon DEF FlattenSeq
<1> QED BY <1>2 DEF Flattens

\* No element twice.
Distinct(q) == \A i, j \in DOMAIN q : i # j => q[i] # q[j]

\* Two sequences one after the other.
LEMMA Concatenation ==
    ASSUME NEW S, NEW q \in Seq(S), NEW r \in Seq(S)
    PROVE  /\ q \o r \in Seq(S)
           /\ Range(q \o r) = Range(q) \cup Range(r)
           /\ Distinct(q) /\ Distinct(r) /\ Range(q) \cap Range(r) = {} => Distinct(q \o r)
<1> DEFINE t == q \o r
<1>1. /\ t \in Seq(S) /\ Len(t) = Len(q) + Len(r) /\ Len(q) \in Nat /\ Len(r) \in Nat
      /\ DOMAIN q = 1..Len(q) /\ DOMAIN r = 1..Len(r) /\ DOMAIN t = 1..(Len(q) + Len(r))
      OBVIOUS
<1>2. \A i \in 1..Len(q) : t[i] = q[i]  OBVIOUS
<1>3. \A i \in 1..Len(r) : t[Len(q) + i] = r[i]  OBVIOUS
<1> HIDE DEF t
<1>4. \A i \in DOMAIN t : \/ i \in DOMAIN q /\ t[i] = q[i]
                          \/ /\ i \notin DOMAIN q /\ i - Len(q) \in DOMAIN r
                             /\ t[i] = r[i - Len(q)]
  <2> TAKE i \in DOMAIN t
  <2>1. CASE i <= Len(q)  BY <1>1, <1>2, <2>1
  <2>2. CASE i > Len(q)
    <3>1. i - Len(q) \in 1..Len(r) /\ Len(q) + (i - Len(q)) = i /\ i \notin 1..Len(q)
          BY <1>1, <2>2
    <3>2. t[Len(q) + (i - Len(q))] = r[i - Len(q)]  BY <1>3, <3>1
    <3> QED BY <1>1, <3>1, <3>2
  <2> QED BY <1>1, <2>1, <2>2
<1>5. Range(t) = Range(q) \cup Range(r)
  <2>1. Range(t) \subseteq Range(q) \cup Range(r)  BY <1>4 DEF Range
  <2>2. Range(q) \subseteq Range(t)
    <3>1. \A i \in DOMAIN q : i \in DOMAIN t /\ t[i] = q[i]  BY <1>1, <1>2
    <3> QED BY <3>1 DEF Range
  <2>3. Range(r) \subseteq Range(t)
    <3>1. \A i \in DOMAIN r : Len(q) + i \in DOMAIN t /\ t[Len(q) + i] = r[i]  BY <1>1, <1>3
    <3> QED BY <3>1 DEF Range
  <2> QED BY <2>1, <2>2, <2>3
<1>6. ASSUME Distinct(q), Distinct(r), Range(q) \cap Range(r) = {}  PROVE Distinct(t)
  <2> SUFFICES ASSUME NEW i \in DOMAIN t, NEW j \in DOMAIN t, i # j, t[i] = t[j]  PROVE FALSE
      BY DEF Distinct
  <2>1. CASE i \in DOMAIN q /\ j \in DOMAIN q  BY <1>4, <1>6, <2>1 DEF Distinct
  <2>2. CASE i \in DOMAIN q /\ j \notin DOMAIN q  BY <1>4, <1>6, <2>2 DEF Range
  <2>3. CASE i \notin DOMAIN q /\ j \in DOMAIN q  BY <1>4, <1>6, <2>3 DEF Range
  <2>4. CASE i \notin DOMAIN q /\ j \notin DOMAIN q
    <3>1. i - Len(q) # j - Len(q)  BY <1>1
    <3> QED BY <1>4, <1>6, <2>4, <3>1 DEF Distinct
  <2> QED BY <2>1, <2>2, <2>3, <2>4
<1> QED BY <1>1, <1>5, <1>6 DEF t

\* FlattenSeq has the elements of its sequences, none twice if they have none in common.
LEMMA Flattened ==
    ASSUME NEW S, NEW ss \in Seq(Seq(S))
    PROVE  /\ FlattenSeq(ss) \in Seq(S)
           /\ Range(FlattenSeq(ss)) = UNION {Range(ss[i]) : i \in DOMAIN ss}
           /\ /\ \A i \in DOMAIN ss : Distinct(ss[i])
              /\ \A i, j \in DOMAIN ss : i # j => Range(ss[i]) \cap Range(ss[j]) = {}
              => Distinct(FlattenSeq(ss))
<1> DEFINE Apart == /\ \A i \in DOMAIN ss : Distinct(ss[i])
                    /\ \A i, j \in DOMAIN ss : i # j => Range(ss[i]) \cap Range(ss[j]) = {}
           n == Len(ss)
<1>1. n \in Nat /\ DOMAIN ss = 1..n /\ \A i \in 1..n : ss[i] \in Seq(S)  OBVIOUS
<1>2. CASE n = 0
  <2>1. FlattenSeq(ss) = ss  BY <1>2 DEF FlattenSeq
  <2>2. ss = <<>> /\ DOMAIN ss = {}  BY <1>1, <1>2
  <2> QED BY <2>1, <2>2 DEF Range, Distinct
<1>3. CASE n # 0
  <2>1. PICK f : Flattens(f, ss, n) /\ FlattenSeq(ss) = f[n]  BY <1>1, <1>3, FlattenIs
  <2> DEFINE Good(k) == /\ f[k] \in Seq(S)
                        /\ Range(f[k]) = UNION {Range(ss[i]) : i \in 1..k}
                        /\ Apart => Distinct(f[k])
             G == {k \in Nat : k + 1 \in 1..n => Good(k + 1)}
  <2>2. \A k \in 1..n : f[k] = IF k = 1 THEN ss[k] ELSE f[k-1] \o ss[k]
        BY <2>1 DEF Flattens
  <2>3. 0 \in G
    <3>1. f[1] = ss[1] /\ ss[1] \in Seq(S)  BY <1>1, <1>3, <2>2
    <3>2. 1..1 = {1}  OBVIOUS
    <3>3. UNION {Range(ss[i]) : i \in 1..1} = Range(ss[1])  BY <3>2
    <3>4. Apart => Distinct(ss[1])  BY <1>1, <1>3
    <3>5. Good(1)  BY <3>1, <3>3, <3>4
    <3>6. 0 + 1 = 1  OBVIOUS
    <3> HIDE DEF Good
    <3> QED BY <3>5, <3>6
  <2>4. ASSUME NEW k \in Nat, k \in G  PROVE k + 1 \in G
    <3> SUFFICES ASSUME k + 2 \in 1..n  PROVE Good(k + 2)
        <4>1. (k + 1) + 1 = k + 2 OBVIOUS
        <4> HIDE DEF Good
        <4> QED BY <4>1
    <3>1. k + 1 \in 1..n  BY <1>1
    <3>2. Good(k + 1) BY <2>4, <3>1
    <3>3. f[k + 2] = f[k + 1] \o ss[k + 2]
      <4>1. k + 2 # 1 /\ (k + 2) - 1 = k + 1 OBVIOUS
      <4> QED BY <2>2, <4>1
    <3>4. ss[k + 2] \in Seq(S)  BY <1>1
    <3>5. 1..(k + 2) = 1..(k + 1) \cup {k + 2}  OBVIOUS
    <3>6. UNION {Range(ss[i]) : i \in 1..(k + 2)}
             = (UNION {Range(ss[i]) : i \in 1..(k + 1)}) \cup Range(ss[k + 2])  BY <3>5
    <3>7. Apart => Distinct(ss[k + 2]) /\ Range(f[k + 1]) \cap Range(ss[k + 2]) = {}
      <4>1. \A i \in 1..(k + 1) : i \in DOMAIN ss /\ i # k + 2  BY <1>1, <3>1
      <4>2. Apart => \A i \in 1..(k + 1) : Range(ss[i]) \cap Range(ss[k + 2]) = {}
            BY <1>1, <4>1
      <4>3. Apart => Distinct(ss[k + 2])  BY <1>1
      <4> HIDE DEF Apart
      <4> QED BY <3>2, <4>2, <4>3
    <3>8. /\ f[k + 2] \in Seq(S)
          /\ Range(f[k + 2]) = Range(f[k + 1]) \cup Range(ss[k + 2])
          BY <3>2, <3>3, <3>4, Concatenation
    <3> HIDE DEF Apart
    <3>9. Apart => Distinct(f[k + 2])
      <4>1. f[k + 1] \in Seq(S) /\ (Apart => Distinct(f[k + 1]))  BY <3>2
      <4> HIDE DEF Good
      <4>2. Distinct(f[k + 1]) /\ Distinct(ss[k + 2]) /\ Range(f[k + 1]) \cap Range(ss[k + 2]) = {}
               => Distinct(f[k + 1] \o ss[k + 2])
            BY <3>4, <4>1, Concatenation
      <4> QED BY <3>3, <3>7, <4>1, <4>2
    <3> QED BY <3>2, <3>6, <3>8, <3>9
  <2> HIDE DEF G
  <2>5. Nat \subseteq G  BY <2>3, <2>4, Induction
  <2>6. Good(n)
    <3>1. n - 1 \in Nat /\ (n - 1) + 1 = n /\ n \in 1..n  BY <1>1, <1>3
    <3>2. n - 1 \in G  BY <2>5, <3>1
    <3> HIDE DEF Good
    <3> QED BY <3>1, <3>2 DEF G
  <2> QED BY <1>1, <2>1, <2>6
<1> QED BY <1>2, <1>3

(***************************************************************************)
(* The chunks of the files                                                 *)
(***************************************************************************)

\* A quotient rounded down.
LEMMA Quotient ==
    ASSUME NEW a \in Nat, NEW d \in Nat \ {0}
    PROVE  a \div d \in Nat /\ (a \div d) * d <= a /\ a < (a \div d) * d + d
OBVIOUS

\* Multiples of the chunk size.
LEMMA Multiples ==
    ASSUME NEW a \in Nat, NEW b \in Nat, NEW d \in Nat
    PROVE  /\ a * d \in Nat /\ b * d \in Nat
           /\ a <= b => a * d <= b * d
           /\ a + 1 <= b => a * d + d <= b * d
<1>1. a * d \in Nat /\ b * d \in Nat  OBVIOUS
<1>2. a <= b => a * d <= b * d  OBVIOUS
<1>3. (a + 1) * d = a * d + d  OBVIOUS
<1>4. a + 1 <= b => (a + 1) * d <= b * d  OBVIOUS
<1> QED BY <1>1, <1>2, <1>3, <1>4

\* The k-th chunk of a file of n bytes starts within the file, and the chunks follow one
\* another up to its end.
LEMMA FileChunks ==
    ASSUME NEW i \in Nat, NEW n \in Nat
    PROVE  /\ ChunksOf(i, n) \in Seq(ChunkType)
           /\ \A k \in DOMAIN ChunksOf(i, n) :
                 LET c == ChunksOf(i, n)[k]
                 IN  c.file = i /\ c.length >= 1 /\ c.offset + c.length <= n
           /\ \A k, l \in DOMAIN ChunksOf(i, n) : k < l =>
                 ChunksOf(i, n)[k].offset + ChunksOf(i, n)[k].length <= ChunksOf(i, n)[l].offset
           /\ \A b \in 0..(n - 1) : \E k \in DOMAIN ChunksOf(i, n) :
                 LET c == ChunksOf(i, n)[k] IN b \in c.offset..(c.offset + c.length - 1)
<1> DEFINE d == ChunkSize
           K == CeilDiv(n, d)
           off(k) == (k - 1) * d
           len(k) == IF off(k) + d > n THEN n - off(k) ELSE d
           C == ChunksOf(i, n)
<1>1. d \in Nat \ {0} /\ d >= 1  BY SenderConstants
<1>2. n + d - 1 \in Nat  BY <1>1
<1>3. K \in Nat /\ K * d <= n + d - 1 /\ n + d - 1 < K * d + d
      BY <1>1, <1>2, Quotient DEF CeilDiv
<1>4. C = [k \in 1..K |-> [file |-> i, offset |-> off(k), length |-> len(k)]]
      BY DEF ChunksOf
<1> HIDE DEF d, K, C
<1>5. ASSUME NEW k \in 1..K  PROVE off(k) \in Nat /\ off(k) < n
  <2>1. k - 1 \in Nat /\ (k - 1) + 1 <= K  BY <1>3
  <2>2. off(k) \in Nat /\ off(k) + d <= K * d  BY <1>1, <1>3, <2>1, Multiples
  <2>3. K * d \in Nat  BY <1>1, <1>3, Multiples
  <2> HIDE DEF off
  <2> QED BY <1>1, <1>3, <2>2, <2>3
<1>6. ASSUME NEW k \in 1..K
      PROVE  /\ len(k) \in Nat /\ len(k) >= 1 /\ off(k) + len(k) <= n
             /\ len(k) <= d /\ (len(k) = d \/ off(k) + len(k) = n)
  <2>1. off(k) \in Nat /\ off(k) < n  BY <1>5
  <2> HIDE DEF off
  <2> QED BY <1>1, <2>1
<1>7. ASSUME NEW k \in 1..K, NEW l \in 1..K, k < l  PROVE off(k) + len(k) <= off(l)
  <2>1. k - 1 \in Nat /\ l - 1 \in Nat /\ (k - 1) + 1 <= l - 1  BY <1>3, <1>7
  <2>2. off(k) + d <= off(l)  BY <1>1, <2>1, Multiples
  <2>3. len(k) \in Nat /\ len(k) <= d  BY <1>6
  <2>4. off(k) \in Nat /\ off(l) \in Nat  BY <1>5
  <2> HIDE DEF off, len
  <2> QED BY <1>1, <2>2, <2>3, <2>4
<1>8. ASSUME NEW b \in 0..(n - 1)  PROVE \E k \in 1..K : off(k) <= b /\ b <= off(k) + len(k) - 1
  <2> DEFINE q == b \div d
  <2>1. q \in Nat /\ q * d <= b /\ b < q * d + d  BY <1>1, Quotient
  <2>2. q * d \in Nat /\ K * d \in Nat  BY <1>1, <1>3, <2>1, Multiples
  <2> HIDE DEF q
  <2>3. q + 1 \in 1..K
    <3>1. SUFFICES ASSUME K <= q  PROVE FALSE  BY <1>3, <2>1
    <3>2. K * d <= q * d  BY <1>1, <1>3, <2>1, <3>1, Multiples
    <3> QED BY <1>1, <1>3, <2>1, <2>2, <3>2
  <2>4. off(q + 1) = q * d
    <3>1. (q + 1) - 1 = q  BY <2>1
    <3> QED BY <3>1
  <2>5. /\ len(q + 1) \in Nat
        /\ len(q + 1) = d \/ off(q + 1) + len(q + 1) = n
        BY <1>6, <2>3
  <2> HIDE DEF off, len
  <2>6. off(q + 1) <= b /\ b <= off(q + 1) + len(q + 1) - 1
        BY <1>1, <2>1, <2>2, <2>4, <2>5
  <2> QED BY <2>3, <2>6
<1> HIDE DEF off, len
<1>9. DOMAIN C = 1..K /\ \A k \in 1..K : C[k] = [file |-> i, offset |-> off(k), length |-> len(k)]
      BY <1>4
<1>10. C \in Seq(ChunkType)
  <2>1. \A k \in 1..K : [file |-> i, offset |-> off(k), length |-> len(k)] \in ChunkType
        BY <1>5, <1>6 DEF ChunkType
  <2>2. C \in [1..K -> ChunkType]  BY <1>4, <2>1
  <2> QED BY <1>3, <2>2
<1>11. \A k \in DOMAIN C : C[k].file = i /\ C[k].length >= 1 /\ C[k].offset + C[k].length <= n
       BY <1>6, <1>9
<1>12. \A k, l \in DOMAIN C : k < l => C[k].offset + C[k].length <= C[l].offset
       BY <1>7, <1>9
<1>13. \A b \in 0..(n - 1) : \E k \in DOMAIN C : b \in C[k].offset..(C[k].offset + C[k].length - 1)
  <2> TAKE b \in 0..(n - 1)
  <2>1. PICK k \in 1..K : off(k) <= b /\ b <= off(k) + len(k) - 1  BY <1>8
  <2>2. off(k) \in Nat /\ len(k) \in Nat  BY <1>5, <1>6
  <2>3. b \in off(k)..(off(k) + len(k) - 1)  BY <2>1, <2>2
  <2> QED BY <1>9, <2>3
<1> QED BY <1>10, <1>11, <1>12, <1>13 DEF C

\* The chunks of file i.
Chunks(sizes, i) == Range(ChunksOf(i, sizes[i]))
Pieces(sizes)    == UNION {Chunks(sizes, i) : i \in DOMAIN sizes}

\* Two chunks have no byte in common.
Disjoint(c, e) == Bytes(c) \cap Bytes(e) = {}

\* What a chunk of file i is.
LEMMA ChunkOfFile ==
    ASSUME NEW sizes \in Seq(Nat), NEW i \in DOMAIN sizes
    PROVE  /\ ChunksOf(i, sizes[i]) \in Seq(ChunkType) /\ Distinct(ChunksOf(i, sizes[i]))
           /\ \A c \in Chunks(sizes, i) : /\ c \in ChunkType /\ c.file = i /\ c.length >= 1
                                          /\ c.offset + c.length <= sizes[i]
           /\ \A c, e \in Chunks(sizes, i) : c # e => Disjoint(c, e)
           /\ \A b \in 0..(sizes[i] - 1) : \E c \in Chunks(sizes, i) :
                 b \in c.offset..(c.offset + c.length - 1)
<1> DEFINE C == ChunksOf(i, sizes[i])
<1>1. i \in Nat /\ sizes[i] \in Nat  OBVIOUS
<1>2. C \in Seq(ChunkType)  BY <1>1, FileChunks
<1>3. \A k \in DOMAIN C : /\ C[k] \in ChunkType /\ C[k].file = i /\ C[k].length >= 1
                          /\ C[k].offset + C[k].length <= sizes[i]
  <2>1. \A k \in DOMAIN C : C[k] \in ChunkType  BY <1>2
  <2>2. \A k \in DOMAIN C : /\ C[k].file = i /\ C[k].length >= 1
                             /\ C[k].offset + C[k].length <= sizes[i]
        BY <1>1, FileChunks
  <2> QED BY <2>1, <2>2
<1>4. \A k, l \in DOMAIN C : k < l => C[k].offset + C[k].length <= C[l].offset
      BY <1>1, FileChunks
<1>5. \A b \in 0..(sizes[i] - 1) : \E k \in DOMAIN C :
         b \in C[k].offset..(C[k].offset + C[k].length - 1)
      BY <1>1, FileChunks
<1>6. DOMAIN C \subseteq Nat  BY <1>2
<1>7. ASSUME NEW k \in DOMAIN C, NEW l \in DOMAIN C, k < l
      PROVE  C[k] # C[l] /\ Disjoint(C[k], C[l]) /\ Disjoint(C[l], C[k])
  <2>1. C[k].offset + C[k].length <= C[l].offset /\ C[k] \in ChunkType /\ C[l] \in ChunkType
        /\ C[k].length >= 1
        BY <1>3, <1>4, <1>7
  <2>2. C[k] # C[l]  BY <2>1 DEF ChunkType
  <2>3. ASSUME NEW b \in C[k].offset..(C[k].offset + C[k].length - 1),
               b \in C[l].offset..(C[l].offset + C[l].length - 1)
        PROVE  FALSE
        BY <2>1, <2>3 DEF ChunkType
  <2> QED BY <2>2, <2>3 DEF Disjoint, Bytes
<1>8. \A k, l \in DOMAIN C : k # l => C[k] # C[l] /\ Disjoint(C[k], C[l])
  <2> TAKE k, l \in DOMAIN C
  <2>1. k # l => k < l \/ l < k  BY <1>6
  <2> QED BY <1>7, <2>1
<1> HIDE DEF C
<1>9. Distinct(C)  BY <1>8 DEF Distinct
<1>10. Chunks(sizes, i) = {C[k] : k \in DOMAIN C}  BY DEF Chunks, Range, C
<1> QED BY <1>2, <1>3, <1>5, <1>8, <1>9, <1>10 DEF C

\* The chunks together are the files, and each byte is in one of them.
LEMMA PiecesWhole ==
    ASSUME NEW sizes \in Seq(Nat)
    PROVE  /\ Pieces(sizes) \subseteq ChunkType
           /\ \A c, e \in Pieces(sizes) : c # e => Disjoint(c, e)
           /\ UNION {Bytes(c) : c \in Pieces(sizes)}
                 = UNION {{i} \X (0..(sizes[i] - 1)) : i \in DOMAIN sizes}
<1>1. Pieces(sizes) \subseteq ChunkType  BY ChunkOfFile DEF Pieces
<1>2. ASSUME NEW i \in DOMAIN sizes, NEW j \in DOMAIN sizes,
             NEW c \in Chunks(sizes, i), NEW e \in Chunks(sizes, j), c # e
      PROVE  Disjoint(c, e)
  <2>1. CASE i = j  BY <1>2, <2>1, ChunkOfFile
  <2>2. CASE i # j
    <3>1. c.file = i /\ e.file = j  BY ChunkOfFile
    <3> QED BY <2>2, <3>1 DEF Disjoint, Bytes
  <2> QED BY <2>1, <2>2
<1>3. ASSUME NEW i \in DOMAIN sizes, NEW c \in Chunks(sizes, i)
      PROVE  Bytes(c) \subseteq {i} \X (0..(sizes[i] - 1))
  <2>1. /\ c \in ChunkType /\ c.file = i /\ c.offset + c.length <= sizes[i]
        /\ sizes[i] \in Nat
        BY ChunkOfFile
  <2>2. c.offset..(c.offset + c.length - 1) \subseteq 0..(sizes[i] - 1)
        BY <2>1 DEF ChunkType
  <2> QED BY <2>1, <2>2 DEF Bytes
<1>4. ASSUME NEW i \in DOMAIN sizes, NEW b \in 0..(sizes[i] - 1)
      PROVE  \E c \in Chunks(sizes, i) : <<i, b>> \in Bytes(c)
  <2>1. PICK c \in Chunks(sizes, i) : b \in c.offset..(c.offset + c.length - 1)
        BY ChunkOfFile
  <2>2. c.file = i  BY ChunkOfFile
  <2> QED BY <2>1, <2>2 DEF Bytes
<1>5. \A c, e \in Pieces(sizes) : c # e => Disjoint(c, e)  BY <1>2 DEF Pieces
<1>6. UNION {Bytes(c) : c \in Pieces(sizes)}
         \subseteq UNION {{i} \X (0..(sizes[i] - 1)) : i \in DOMAIN sizes}
      BY <1>3 DEF Pieces
<1>7. UNION {{i} \X (0..(sizes[i] - 1)) : i \in DOMAIN sizes}
         \subseteq UNION {Bytes(c) : c \in Pieces(sizes)}
      BY <1>4 DEF Pieces
<1> QED BY <1>1, <1>5, <1>6, <1>7

\* The chunks of some of the files are put in a sequence, each once.
LEMMA ChunksInFiles ==
    ASSUME NEW sizes \in Seq(Nat), NEW files
    PROVE  /\ ChunksIn(sizes, files) \in Seq(ChunkType)
           /\ Distinct(ChunksIn(sizes, files))
           /\ Range(ChunksIn(sizes, files))
                 = UNION {Chunks(sizes, i) : i \in DOMAIN sizes \cap files}
<1> DEFINE some(i) == IF i \in files THEN ChunksOf(i, sizes[i]) ELSE <<>>
           ss == [i \in DOMAIN sizes |-> some(i)]
<1>1. <<>> \in Seq(ChunkType) /\ Distinct(<<>>) /\ Range(<<>>) = {}  BY DEF Distinct, Range
<1>2. ASSUME NEW i \in DOMAIN sizes
      PROVE  /\ some(i) \in Seq(ChunkType) /\ Distinct(some(i))
             /\ Range(some(i)) = IF i \in files THEN Chunks(sizes, i) ELSE {}
      BY <1>1, ChunkOfFile DEF Chunks
<1> HIDE DEF some
<1>3. DOMAIN ss = DOMAIN sizes /\ \A i \in DOMAIN ss : ss[i] = some(i)  OBVIOUS
<1>4. ss \in Seq(Seq(ChunkType))
  <2>1. DOMAIN sizes = 1..Len(sizes) /\ Len(sizes) \in Nat  OBVIOUS
  <2>2. ss \in [1..Len(sizes) -> Seq(ChunkType)]  BY <1>2, <2>1
  <2> QED BY <2>1, <2>2
<1> HIDE DEF ss
<1>5. \A i \in DOMAIN ss : Distinct(ss[i])  BY <1>2, <1>3
<1>6. ASSUME NEW i \in DOMAIN ss, NEW j \in DOMAIN ss, i # j
      PROVE  Range(ss[i]) \cap Range(ss[j]) = {}
  <2>1. \A k \in DOMAIN sizes : Range(some(k)) \subseteq Chunks(sizes, k)  BY <1>2
  <2>2. \A k \in DOMAIN sizes : \A c \in Range(ss[k]) : c.file = k
        BY <1>3, <2>1, ChunkOfFile
  <2> QED BY <1>3, <1>6, <2>2
<1>7. /\ FlattenSeq(ss) \in Seq(ChunkType)
      /\ Range(FlattenSeq(ss)) = UNION {Range(ss[i]) : i \in DOMAIN ss}
      /\ Distinct(FlattenSeq(ss))
      BY <1>4, <1>5, <1>6, Flattened
<1>8. UNION {Range(ss[i]) : i \in DOMAIN ss}
         = UNION {Chunks(sizes, i) : i \in DOMAIN sizes \cap files}
  <2>1. \A i \in DOMAIN sizes : Range(ss[i]) = IF i \in files THEN Chunks(sizes, i) ELSE {}
        BY <1>2, <1>3
  <2> QED BY <1>3, <2>1
<1>9. ChunksIn(sizes, files) = FlattenSeq(ss)  BY DEF ChunksIn, ss, some
<1> QED BY <1>7, <1>8, <1>9

\* The two queues hold each chunk once between them.
LEMMA Queues ==
    ASSUME NEW sizes \in Seq(Nat)
    PROVE  /\ BuildChunks(sizes) \in Seq(ChunkType)
           /\ Range(BuildChunks(sizes)) = Pieces(sizes)
           /\ Large(sizes) \in Seq(ChunkType) /\ Small(sizes) \in Seq(ChunkType)
           /\ Distinct(Large(sizes)) /\ Distinct(Small(sizes))
           /\ Range(Large(sizes)) \cup Range(Small(sizes)) = Pieces(sizes)
           /\ Range(Large(sizes)) \cap Range(Small(sizes)) = {}
<1> DEFINE L == {i \in DOMAIN sizes : sizes[i] >= ChunkSize}
           M == {i \in DOMAIN sizes : sizes[i] < ChunkSize}
<1>1. /\ DOMAIN sizes \cap L = L /\ DOMAIN sizes \cap M = M
      /\ L \cup M = DOMAIN sizes /\ L \cap M = {}
  <2>1. \A i \in DOMAIN sizes : sizes[i] \in Nat  OBVIOUS
  <2>2. \A i \in DOMAIN sizes : sizes[i] >= ChunkSize <=> ~(sizes[i] < ChunkSize)
        BY <2>1, SenderConstants
  <2> QED BY <2>2
<1>2. /\ Range(Large(sizes)) = UNION {Chunks(sizes, i) : i \in L}
      /\ Range(Small(sizes)) = UNION {Chunks(sizes, i) : i \in M}
      BY <1>1, ChunksInFiles DEF Large, Small
<1>3. Range(BuildChunks(sizes)) = Pieces(sizes)
      BY ChunksInFiles DEF BuildChunks, Pieces
<1>4. Range(Large(sizes)) \cup Range(Small(sizes)) = Pieces(sizes)
      BY <1>1, <1>2 DEF Pieces
<1>5. Range(Large(sizes)) \cap Range(Small(sizes)) = {}
  <2>1. \A c \in Range(Large(sizes)) : c.file \in L  BY <1>2, ChunkOfFile
  <2>2. \A c \in Range(Small(sizes)) : c.file \in M  BY <1>2, ChunkOfFile
  <2> QED BY <1>1, <2>1, <2>2
<1> QED BY <1>3, <1>4, <1>5, ChunksInFiles DEF BuildChunks, Large, Small

(***************************************************************************)
(* The inductive invariant                                                 *)
(***************************************************************************)

Lanes == {"large", "small"}

\* The workers of s that hold a chunk.
Holders(s) == {w \in Workers : worker[s][w].at = "write"}

\* The bytes that wait, that are on their way, and that were written.
QueueBytes(s) == UNION {UNION {Bytes(queue[s][a][i]) : i \in DOMAIN queue[s][a]} : a \in Lanes}
HeldBytes(s)  == UNION {Bytes(worker[s][w].chunk) : w \in Holders(s)}
SentBytes(s)  == UNION {Bytes(written[s][i]) : i \in DOMAIN written[s]}

\* No byte is in two places.
QueueApart(s) ==
    /\ \A a, b \in Lanes : \A i \in DOMAIN queue[s][a], j \in DOMAIN queue[s][b] :
          a # b \/ i # j => Disjoint(queue[s][a][i], queue[s][b][j])
    /\ QueueBytes(s) \cap HeldBytes(s) = {}
    /\ QueueBytes(s) \cap SentBytes(s) = {}
HeldApart(s) ==
    /\ \A v, w \in Holders(s) : v # w => Disjoint(worker[s][v].chunk, worker[s][w].chunk)
    /\ HeldBytes(s) \cap SentBytes(s) = {}
SentApart(s) ==
    \A i, j \in DOMAIN written[s] : i # j => Disjoint(written[s][i], written[s][j])
Apart(s) == QueueApart(s) /\ HeldApart(s) /\ SentApart(s)

\* They are bytes of the files, and until a failure or a cancel all of them.
Within(s)  == QueueBytes(s) \cup HeldBytes(s) \cup SentBytes(s) \subseteq AllBytes(s)
Covered(s) == stage[s] = "sending" /\ ~cancel[s] /\ ~failed[s] /\ s \notin Shrinks =>
                 AllBytes(s) \subseteq QueueBytes(s) \cup HeldBytes(s) \cup SentBytes(s)

BytesInv == \A s \in Sends : Apart(s) /\ Within(s) /\ Covered(s)

\* Workers run while runSend waits for them, and one state is reported after that.
StageInv ==
    \A s \in Sends :
        /\ stage[s] \in {"new", "starting", "posting", "answered"} =>
              /\ written[s] = <<>> /\ \A a \in Lanes : queue[s][a] = <<>>
              /\ \A w \in Workers : worker[s][w].at = "off"
        /\ stage[s] \in {"clearing", "over"} =>
              \A w \in Workers : worker[s][w].at \in {"off", "gone"}
        /\ stage[s] \notin {"clearing", "over"} => reported[s] = <<>>

\* A worker that returns with no failure and no cancel found nothing left to take.
GoneInv ==
    \A s \in Sends, w \in Workers :
        worker[s][w].at = "gone" /\ ~cancel[s] /\ ~failed[s] =>
            queue[s].large = <<>> /\ (Reserved(s, w) \/ queue[s].small = <<>>)

DoneInv ==
    \A s \in Sends : Reported(s, "completed") /\ s \notin Shrinks => SentBytes(s) = AllBytes(s)

\* A call of CancelOutgoing sets the flag first, and leaves no connection on which a chunk
\* is being written.
StopInv ==
    \A k \in Callers, s \in Sends : call[k].of = s =>
        /\ call[k].at \in {"flagged", "aborted", "over"} => cancel[s]
        /\ call[k].at = "over" => \A w \in Holders(s) : worker[s][w].conn # "open"

SendInv == TypeOK /\ StageInv /\ BytesInv /\ GoneInv /\ DoneInv /\ StopInv

(***************************************************************************)
(* Types                                                                   *)
(***************************************************************************)

Ats   == {"off", "dial", "token", "next", "write", "gone"}
Conns == {"none", "open", "closed"}
WorkerType == [at : Ats, conn : Conns, chunk : ChunkType]
QueueType  == [large : Seq(ChunkType), small : Seq(ChunkType)]

\* Only these variables have types a step can disturb in more than one way.
WorkerOK == worker \in [Sends -> [Workers -> WorkerType]]
QueueOK  == queue \in [Sends -> QueueType]

\* The same in the words of TypeOK.
LEMMA SendTypes ==
    TypeOK => WorkerOK /\ QueueOK
BY DEF TypeOK, WorkerOK, QueueOK, WorkerType, QueueType, Ats, Conns

\* One field of one worker changes.
LEMMA OneWorker ==
    ASSUME WorkerOK, NEW s \in Sends, NEW w \in Workers, NEW x \in WorkerType,
           worker' = [worker EXCEPT ![s][w] = x]
    PROVE  /\ WorkerOK'
           /\ worker'[s][w] = x
           /\ \A t \in Sends, v \in Workers : <<t, v>> # <<s, w>> => worker'[t][v] = worker[t][v]
<1>1. worker \in [Sends -> [Workers -> WorkerType]]  BY DEF WorkerOK
<1>2. worker' \in [Sends -> [Workers -> WorkerType]]  BY <1>1
<1> QED BY <1>1, <1>2 DEF WorkerOK

\* What the steps of a worker write.
LEMMA WorkerMoves ==
    ASSUME WorkerOK, NEW s \in Sends, NEW w \in Workers
    PROVE  /\ \A to \in Ats : Step(s, w, to) =>
                 worker' = [worker EXCEPT ![s][w] = [worker[s][w] EXCEPT !.at = to]]
           /\ Leave(s, w) =>
                 worker' = [worker EXCEPT ![s][w] =
                               [worker[s][w] EXCEPT !.at = "gone", !.conn = "closed"]]
           /\ worker[s][w] \in WorkerType
BY Zenon DEF Step, Leave, WorkerOK

\* The parts of TypeOK that are about one session's report and the calls.
SessOK == /\ outgoing \in Sends \cup {None}
          /\ stage \in [Sends -> Stages]
          /\ status \in [Sends -> {0, 200, 403, 408, 409, 503}]
          /\ reported \in [Sends -> Seq(Outcomes)]
StopOK == /\ cancel \in [Sends -> BOOLEAN]
          /\ httpCancel \in [Sends -> {"nil", "set", "fired"}]
          /\ failed \in [Sends -> BOOLEAN]
WorkOK == QueueOK /\ WorkerOK /\ written \in [Sends -> Seq(ChunkType)]
CallOK == /\ call \in [Callers -> [at : {"idle", "found", "flagged", "aborted", "over"},
                                   of : Sends \cup {None}]]
          /\ appDone \in BOOLEAN
          /\ \A k \in Callers : call[k].at \in {"found", "flagged", "aborted"} =>
                                   call[k].of \in Sends

\* TypeOK in four parts.
LEMMA TypeParts == TypeOK <=> SessOK /\ StopOK /\ WorkOK /\ CallOK
BY DEF TypeOK, SessOK, StopOK, WorkOK, CallOK, QueueOK, WorkerOK, QueueType, WorkerType, Ats, Conns

\* The same of the next state.
LEMMA TypePartsNext == TypeOK' <=> SessOK' /\ StopOK' /\ WorkOK' /\ CallOK'
BY DEF TypeOK, SessOK, StopOK, WorkOK, CallOK, QueueOK, WorkerOK, QueueType, WorkerType, Ats, Conns

\* A part whose variables do not change stays as it is.
LEMMA TypeFrames ==
    /\ UNCHANGED sessVars => (SessOK' <=> SessOK)
    /\ UNCHANGED stopVars => (StopOK' <=> StopOK)
    /\ UNCHANGED workVars => (WorkOK' <=> WorkOK)
    /\ UNCHANGED callVars => (CallOK' <=> CallOK)
BY DEF sessVars, stopVars, workVars, callVars, SessOK, StopOK, WorkOK, CallOK, QueueOK, WorkerOK

\* The type invariant holds at the start.
LEMMA InitTypes == Init => TypeOK
<1> SUFFICES ASSUME Init PROVE TypeOK  OBVIOUS
<1>1. SessOK  BY DEF Init, SessOK, Stages
<1>2. StopOK  BY DEF Init, StopOK
<1>3. QueueOK
  <2>1. [large |-> <<>>, small |-> <<>>] \in QueueType  BY DEF QueueType
  <2> QED BY <2>1 DEF Init, QueueOK
<1>4. WorkerOK
  <2>1. Off \in WorkerType  BY DEF Off, NoChunk, WorkerType, ChunkType, Ats, Conns
  <2> QED BY <2>1 DEF Init, WorkerOK
<1>5. written \in [Sends -> Seq(ChunkType)]  BY DEF Init
<1>6. CallOK  BY DEF Init, CallOK
<1> QED BY <1>1, <1>2, <1>3, <1>4, <1>5, <1>6, TypeParts DEF WorkOK

\* A report is one of the outcomes.
LEMMA ReportTypes ==
    ASSUME SessOK, NEW s \in Sends, NEW state \in Outcomes, Report(s, state),
           UNCHANGED <<outgoing, status>>
    PROVE  SessOK'
<1>1. reported' \in [Sends -> Seq(Outcomes)]  BY DEF SessOK, Report
<1>2. stage' \in [Sends -> Stages]  BY DEF SessOK, Report, Stages
<1> QED BY <1>1, <1>2 DEF SessOK

\* Send, StartPost, PostAnswered, PostFailed, Join and ClearOutgoing keep the types.
LEMMA RunTypes ==
    ASSUME TypeOK, NEW s \in Sends,
           Send(s) \/ StartPost(s) \/ PostAnswered(s) \/ PostFailed(s) \/ Join(s) \/ ClearOutgoing(s)
    PROVE  TypeOK'
<1>1. SessOK /\ StopOK /\ WorkOK /\ CallOK  BY TypeParts
<1>2. CASE Send(s)
  <2>1. \E to \in Stages : stage' = [stage EXCEPT ![s] = to]
        BY <1>2 DEF Send, Stages
  <2>2. stage' \in [Sends -> Stages]  BY <1>1, <2>1 DEF SessOK
  <2>3. outgoing' \in Sends \cup {None}  BY <1>1, <1>2 DEF Send, SessOK
  <2>4. SessOK'  BY <1>1, <1>2, <2>2, <2>3 DEF Send, SessOK
  <2> QED BY <1>1, <1>2, <2>4, TypeFrames, TypePartsNext DEF Send
<1>3. CASE StartPost(s)
  <2>1. SessOK'  BY <1>1, <1>3 DEF StartPost, SessOK, Stages
  <2>2. StopOK'  BY <1>1, <1>3 DEF StartPost, StopOK
  <2> QED BY <1>1, <1>3, <2>1, <2>2, TypeFrames, TypePartsNext DEF StartPost
<1>4. CASE PostAnswered(s)
  <2>1. SessOK'  BY <1>1, <1>4 DEF PostAnswered, SessOK, Stages
  <2> QED BY <1>1, <1>4, <2>1, TypeFrames, TypePartsNext DEF PostAnswered
<1>5. CASE PostFailed(s)
  <2>1. SessOK'  BY <1>1, <1>5, ReportTypes DEF PostFailed, Outcomes
  <2> QED BY <1>1, <1>5, <2>1, TypeFrames, TypePartsNext DEF PostFailed
<1>6. CASE Join(s)
  <2>1. SessOK'  BY <1>1, <1>6, ReportTypes DEF Join, Outcomes
  <2> QED BY <1>1, <1>6, <2>1, TypeFrames, TypePartsNext DEF Join
<1>7. CASE ClearOutgoing(s)
  <2>1. SessOK'  BY <1>1, <1>7 DEF ClearOutgoing, SessOK, Stages
  <2> QED BY <1>1, <1>7, <2>1, TypeFrames, TypePartsNext DEF ClearOutgoing
<1> QED BY <1>2, <1>3, <1>4, <1>5, <1>6, <1>7

\* HandleAnswer keeps the types: the queues are sequences of chunks.
LEMMA AnswerTypes ==
    ASSUME TypeOK, NEW s \in Sends, HandleAnswer(s)
    PROVE  TypeOK'
<1>1. SessOK /\ StopOK /\ WorkOK /\ CallOK  BY TypeParts
<1>2. StopOK' /\ CallOK'  BY <1>1, TypeFrames DEF HandleAnswer
<1>3. CASE ~cancel[s] /\ status[s] = 200 /\ BuildChunks(Sizes[s]) # <<>>
  <2>1. SessOK'  BY <1>1, <1>3 DEF HandleAnswer, SessOK, Stages
  <2>2. QueueOK'
    <3>1. Large(Sizes[s]) \in Seq(ChunkType) /\ Small(Sizes[s]) \in Seq(ChunkType)
          BY SenderConstants, Queues
    <3>2. [large |-> Large(Sizes[s]), small |-> Small(Sizes[s])] \in QueueType
          BY <3>1 DEF QueueType
    <3>3. queue' = [queue EXCEPT ![s] = [large |-> Large(Sizes[s]), small |-> Small(Sizes[s])]]
          BY <1>3 DEF HandleAnswer
    <3> QED BY <1>1, <3>2, <3>3 DEF WorkOK, QueueOK
  <2>3. WorkerOK'
    <3>1. [Off EXCEPT !.at = "dial"] \in WorkerType
          BY DEF Off, NoChunk, WorkerType, ChunkType, Ats, Conns
    <3>2. worker' = [worker EXCEPT ![s] = [w \in Workers |-> [Off EXCEPT !.at = "dial"]]]
          BY <1>3 DEF HandleAnswer
    <3> QED BY <1>1, <3>1, <3>2 DEF WorkOK, WorkerOK
  <2>4. WorkOK'  BY <1>1, <2>2, <2>3 DEF HandleAnswer, WorkOK
  <2> QED BY <1>2, <2>1, <2>4, TypePartsNext
<1>4. CASE ~(~cancel[s] /\ status[s] = 200 /\ BuildChunks(Sizes[s]) # <<>>)
  <2>1. SessOK'  BY <1>1, <1>4, ReportTypes DEF HandleAnswer, Outcomes
  <2>2. WorkOK'  BY <1>1, <1>4, TypeFrames DEF HandleAnswer, workVars
  <2> QED BY <1>2, <2>1, <2>2, TypePartsNext
<1> QED BY <1>3, <1>4

\* A worker that leaves keeps the types, its chunk and the other workers.
LEMMA LeaveTypes ==
    ASSUME WorkerOK, NEW s \in Sends, NEW w \in Workers, Leave(s, w)
    PROVE  /\ WorkerOK'
           /\ worker'[s][w].at = "gone" /\ worker'[s][w].chunk = worker[s][w].chunk
           /\ \A t \in Sends, v \in Workers : <<t, v>> # <<s, w>> => worker'[t][v] = worker[t][v]
<1> DEFINE x == [worker[s][w] EXCEPT !.at = "gone", !.conn = "closed"]
<1>1. worker[s][w] \in WorkerType  BY WorkerMoves
<1>2. "gone" \in Ats /\ "closed" \in Conns  BY DEF Ats, Conns
<1>3. x \in WorkerType /\ x.at = "gone" /\ x.chunk = worker[s][w].chunk
      BY <1>1, <1>2 DEF WorkerType
<1>4. worker' = [worker EXCEPT ![s][w] = x]  BY WorkerMoves
<1> HIDE DEF x
<1>5. WorkerOK'  BY <1>3, <1>4, OneWorker
<1>6. worker'[s][w] = x  BY <1>4 DEF WorkerOK
<1>7. \A t \in Sends, v \in Workers : <<t, v>> # <<s, w>> => worker'[t][v] = worker[t][v]
      BY <1>3, <1>4, OneWorker
<1> QED BY <1>3, <1>5, <1>6, <1>7

\* So does one that goes to its next place.
LEMMA StepTypes ==
    ASSUME WorkerOK, NEW s \in Sends, NEW w \in Workers, NEW to \in Ats, Step(s, w, to)
    PROVE  /\ WorkerOK'
           /\ worker'[s][w].at = to /\ worker'[s][w].chunk = worker[s][w].chunk
           /\ \A t \in Sends, v \in Workers : <<t, v>> # <<s, w>> => worker'[t][v] = worker[t][v]
<1> DEFINE x == [worker[s][w] EXCEPT !.at = to]
<1>1. worker[s][w] \in WorkerType  BY WorkerMoves
<1>2. x \in WorkerType /\ x.at = to /\ x.chunk = worker[s][w].chunk
      BY <1>1 DEF WorkerType
<1>3. worker' = [worker EXCEPT ![s][w] = x]  BY WorkerMoves
<1> HIDE DEF x
<1>4. WorkerOK'  BY <1>2, <1>3, OneWorker
<1>5. worker'[s][w] = x  BY <1>3 DEF WorkerOK
<1>6. \A t \in Sends, v \in Workers : <<t, v>> # <<s, w>> => worker'[t][v] = worker[t][v]
      BY <1>2, <1>3, OneWorker
<1> QED BY <1>2, <1>4, <1>5, <1>6

\* What TakeChunk takes from which queue.
LEMMA TakenChunk ==
    ASSUME QueueOK, WorkerOK, NEW s \in Sends, NEW w \in Workers, TakeChunk(s, w),
           Lane(s, w) # "none", ~cancel[s]
    PROVE  \E a \in Lanes :
              /\ a = Lane(s, w)
              /\ queue[s][a] \in Seq(ChunkType) /\ queue[s][a] # <<>>
              /\ queue' = [queue EXCEPT ![s] = [queue[s] EXCEPT ![a] = Tail(queue[s][a])]]
              /\ worker' = [worker EXCEPT ![s][w] =
                    [worker[s][w] EXCEPT !.at = "write", !.chunk = Head(queue[s][a])]]
<1> DEFINE a == Lane(s, w)
<1>1. a \in Lanes /\ queue[s][a] # <<>>
  <2>1. CASE ~Reserved(s, w) /\ queue[s].small # <<>>  BY <2>1 DEF Lane, Lanes
  <2>2. CASE ~(~Reserved(s, w) /\ queue[s].small # <<>>)  BY <2>2 DEF Lane, Lanes
  <2> QED BY <2>1, <2>2
<1>2. queue[s] \in QueueType /\ queue \in [Sends -> QueueType]  BY DEF QueueOK
<1>3. queue[s][a] \in Seq(ChunkType)  BY <1>1, <1>2 DEF QueueType, Lanes
<1>4. /\ queue' = [queue EXCEPT ![s][a] = Tail(queue[s][a])]
      /\ worker' = [worker EXCEPT ![s][w].at = "write", ![s][w].chunk = Head(queue[s][a])]
      BY DEF TakeChunk
<1> HIDE DEF a
<1>5. queue' = [queue EXCEPT ![s] = [queue[s] EXCEPT ![a] = Tail(queue[s][a])]]
      BY <1>4, Zenon
<1>6. worker' = [worker EXCEPT ![s][w] =
                    [worker[s][w] EXCEPT !.at = "write", !.chunk = Head(queue[s][a])]]
      BY <1>4, Zenon DEF WorkerOK
<1> QED BY <1>1, <1>3, <1>5, <1>6 DEF a

\* What a worker's step does to its place and its chunk, and to no other worker.
Moves(s, w) ==
    \E x \in WorkerType :
        /\ worker' = [worker EXCEPT ![s][w] = x]
        /\ x.at = "write" <=> worker[s][w].at = "write"
        /\ x.chunk = worker[s][w].chunk

\* Dial and WriteToken keep the types and touch no chunk.
LEMMA DialMoves ==
    ASSUME WorkerOK, NEW s \in Sends, NEW w \in Workers, Dial(s, w) \/ WriteToken(s, w)
    PROVE  Moves(s, w)
<1> DEFINE open  == [worker[s][w] EXCEPT !.at = "token", !.conn = "open"]
           ready == [worker[s][w] EXCEPT !.at = "next"]
           gone  == [worker[s][w] EXCEPT !.at = "gone", !.conn = "closed"]
<1>1. worker[s][w] \in WorkerType  BY WorkerMoves
<1>2. /\ open \in WorkerType /\ ready \in WorkerType /\ gone \in WorkerType
      /\ open.at = "token" /\ ready.at = "next" /\ gone.at = "gone"
      /\ open.chunk = worker[s][w].chunk /\ ready.chunk = worker[s][w].chunk
      /\ gone.chunk = worker[s][w].chunk
      BY <1>1 DEF WorkerType, Ats, Conns
<1>3. worker[s][w].at \in {"dial", "token"}  BY DEF Dial, WriteToken
<1>4. \/ worker' = [worker EXCEPT ![s][w].at = "token", ![s][w].conn = "open"]
      \/ Leave(s, w) \/ Step(s, w, "next")
      BY DEF Dial, WriteToken
<1>5. CASE worker' = [worker EXCEPT ![s][w].at = "token", ![s][w].conn = "open"]
  <2>1. worker' = [worker EXCEPT ![s][w] = open]  BY <1>5, Zenon DEF WorkerOK
  <2> HIDE DEF open
  <2> QED BY <1>2, <1>3, <2>1 DEF Moves
<1>6. CASE Leave(s, w)
  <2>1. worker' = [worker EXCEPT ![s][w] = gone]  BY <1>6, WorkerMoves
  <2> HIDE DEF gone
  <2> QED BY <1>2, <1>3, <2>1 DEF Moves
<1>7. CASE Step(s, w, "next")
  <2>1. worker' = [worker EXCEPT ![s][w] = ready]  BY <1>7, WorkerMoves DEF Ats
  <2> HIDE DEF ready
  <2> QED BY <1>2, <1>3, <2>1 DEF Moves
<1> QED BY <1>4, <1>5, <1>6, <1>7

\* The workers keep the types.
LEMMA WorkerTypes ==
    ASSUME TypeOK, NEW s \in Sends, NEW w \in Workers, SendWorker(s, w)
    PROVE  TypeOK'
<1>1. SessOK /\ StopOK /\ WorkOK /\ CallOK /\ WorkerOK /\ QueueOK  BY TypeParts DEF WorkOK
<1>2. SessOK' /\ CallOK'
      BY <1>1, TypeFrames DEF SendWorker, Dial, WriteToken, TakeChunk, WriteChunk, WriteFails
<1>3. CASE Dial(s, w) \/ WriteToken(s, w)
  <2>1. WorkerOK'  BY <1>1, <1>3, DialMoves, OneWorker DEF Moves
  <2>2. StopOK'
    <3>1. failed' = failed \/ failed' = [failed EXCEPT ![s] = TRUE]
          BY <1>3 DEF Dial, WriteToken, SetErr
    <3>2. failed' \in [Sends -> BOOLEAN]  BY <1>1, <3>1 DEF StopOK
    <3> QED BY <1>1, <1>3, <3>2 DEF StopOK, Dial, WriteToken
  <2>3. WorkOK'  BY <1>1, <1>3, <2>1 DEF WorkOK, QueueOK, Dial, WriteToken
  <2> QED BY <1>2, <2>2, <2>3, TypePartsNext
<1>4. CASE TakeChunk(s, w)
  <2>1. StopOK' /\ written' = written  BY <1>1, <1>4, TypeFrames DEF TakeChunk
  <2>2. CASE Lane(s, w) = "none" \/ cancel[s]
    <3>1. Leave(s, w) /\ queue' = queue  BY <1>4, <2>2 DEF TakeChunk
    <3>2. WorkerOK'  BY <1>1, <3>1, LeaveTypes
    <3> QED BY <1>1, <1>2, <2>1, <3>1, <3>2, TypePartsNext DEF WorkOK, QueueOK
  <2>3. CASE ~(Lane(s, w) = "none" \/ cancel[s])
    <3>1. PICK a \in Lanes :
              /\ a = Lane(s, w)
              /\ queue[s][a] \in Seq(ChunkType) /\ queue[s][a] # <<>>
              /\ queue' = [queue EXCEPT ![s] = [queue[s] EXCEPT ![a] = Tail(queue[s][a])]]
              /\ worker' = [worker EXCEPT ![s][w] =
                    [worker[s][w] EXCEPT !.at = "write", !.chunk = Head(queue[s][a])]]
          BY <1>1, <1>4, <2>3, TakenChunk
    <3> DEFINE q == [queue[s] EXCEPT ![a] = Tail(queue[s][a])]
               x == [worker[s][w] EXCEPT !.at = "write", !.chunk = Head(queue[s][a])]
    <3>2. Tail(queue[s][a]) \in Seq(ChunkType) /\ Head(queue[s][a]) \in ChunkType  BY <3>1
    <3>3. q \in QueueType  BY <1>1, <3>1, <3>2 DEF QueueOK, QueueType, Lanes
    <3>4. x \in WorkerType
      <4>1. worker[s][w] \in WorkerType /\ "write" \in Ats  BY <1>1, WorkerMoves DEF Ats
      <4> QED BY <3>2, <4>1 DEF WorkerType
    <3> HIDE DEF q, x
    <3>5. QueueOK'  BY <1>1, <3>1, <3>3 DEF QueueOK, q
    <3>6. WorkerOK'
      <4>1. worker' = [worker EXCEPT ![s][w] = x]  BY <3>1 DEF x
      <4> QED BY <1>1, <3>4, <4>1, OneWorker
    <3> QED BY <1>1, <1>2, <2>1, <3>5, <3>6, TypePartsNext DEF WorkOK
  <2> QED BY <2>2, <2>3
<1>5. CASE WriteChunk(s, w)
  <2>1. StopOK' /\ queue' = queue /\ Step(s, w, "next")
        BY <1>1, <1>5, TypeFrames DEF WriteChunk
  <2>2. WorkerOK'  BY <1>1, <2>1, StepTypes DEF Ats
  <2>3. written' \in [Sends -> Seq(ChunkType)]
    <3> DEFINE c == worker[s][w].chunk
    <3>1. c \in ChunkType  BY <1>1, WorkerMoves DEF WorkerType
    <3>2. PICK n \in (IF s \in Shrinks THEN 0..c.length ELSE {c.length}) :
              written' = [written EXCEPT ![s] = Append(@, [c EXCEPT !.length = n])]
          BY <1>5 DEF WriteChunk
    <3>3. n \in Nat  BY <3>1, <3>2 DEF ChunkType
    <3>4. [c EXCEPT !.length = n] \in ChunkType  BY <3>1, <3>3 DEF ChunkType
    <3> HIDE DEF c
    <3> QED BY <1>1, <3>2, <3>4 DEF WorkOK
  <2> QED BY <1>1, <1>2, <2>1, <2>2, <2>3, TypePartsNext DEF WorkOK, QueueOK
<1>6. CASE WriteFails(s, w)
  <2>1. Leave(s, w) /\ UNCHANGED <<cancel, httpCancel, queue, written>>
        BY <1>6 DEF WriteFails
  <2>2. WorkerOK'  BY <1>1, <2>1, LeaveTypes
  <2>3. failed' = [failed EXCEPT ![s] = failed[s] \/ ~cancel[s]]  BY <1>6 DEF WriteFails
  <2>4. StopOK'  BY <1>1, <2>1, <2>3 DEF StopOK
  <2> QED BY <1>1, <1>2, <2>1, <2>2, <2>4, TypePartsNext DEF WorkOK, QueueOK
<1> QED BY <1>3, <1>4, <1>5, <1>6 DEF SendWorker

\* CancelOutgoing and the end of the run context keep the types.
LEMMA CancelTypes ==
    ASSUME TypeOK, (\E k \in Callers : CancelOutgoing(k)) \/ RunCancel
    PROVE  TypeOK'
<1>1. SessOK /\ StopOK /\ WorkOK /\ CallOK /\ WorkerOK  BY TypeParts DEF WorkOK
<1>2. SessOK'
      BY <1>1, TypeFrames
      DEF CancelOutgoing, Cancel, SetCancel, AbortHTTP, CloseConns, RunCancel
<1>3. ASSUME NEW k \in Callers, Cancel(k)  PROVE TypeOK'
  <2>1. CallOK'
    <3> DEFINE x == [at |-> IF outgoing = None THEN "over" ELSE "found", of |-> outgoing]
    <3>1. x \in [at : {"idle", "found", "flagged", "aborted", "over"}, of : Sends \cup {None}]
          BY <1>1 DEF SessOK
    <3>2. x.at = "over" \/ (x.at = "found" /\ x.of \in Sends)  BY <1>1 DEF SessOK
    <3> HIDE DEF x
    <3>3. call' = [call EXCEPT ![k] = x] /\ appDone' = appDone  BY <1>3 DEF Cancel, x
    <3> QED BY <1>1, <3>1, <3>2, <3>3 DEF CallOK
  <2> QED BY <1>1, <1>2, <1>3, <2>1, TypeFrames, TypePartsNext DEF Cancel
<1>4. ASSUME NEW k \in Callers, SetCancel(k)  PROVE TypeOK'
  <2>1. CallOK'  BY <1>1, <1>4 DEF SetCancel, Proceed, CallOK
  <2>2. StopOK'  BY <1>1, <1>4 DEF SetCancel, StopOK
  <2> QED BY <1>1, <1>2, <1>4, <2>1, <2>2, TypeFrames, TypePartsNext DEF SetCancel
<1>5. ASSUME NEW k \in Callers, AbortHTTP(k)  PROVE TypeOK'
  <2>1. CallOK'  BY <1>1, <1>5 DEF AbortHTTP, Proceed, CallOK
  <2>2. StopOK'  BY <1>1, <1>5 DEF AbortHTTP, StopOK
  <2> QED BY <1>1, <1>2, <1>5, <2>1, <2>2, TypeFrames, TypePartsNext DEF AbortHTTP
<1>6. ASSUME NEW k \in Callers, CloseConns(k)  PROVE TypeOK'
  <2>1. CallOK'  BY <1>1, <1>6 DEF CloseConns, Proceed, CallOK
  <2>2. WorkerOK'
    <3> DEFINE t == call[k].of
               shut(w) == IF worker[t][w].conn = "open"
                          THEN [worker[t][w] EXCEPT !.conn = "closed"] ELSE worker[t][w]
    <3>1. t \in Sends  BY <1>1, <1>6 DEF CloseConns, CallOK
    <3>2. \A w \in Workers : shut(w) \in WorkerType
          BY <1>1, <3>1 DEF WorkerOK, WorkerType, Conns
    <3>3. worker' = [worker EXCEPT ![t] = [w \in Workers |-> shut(w)]]
          BY <1>1, <1>6, <3>1 DEF CloseConns, WorkerOK
    <3> HIDE DEF t, shut
    <3> QED BY <1>1, <3>1, <3>2, <3>3 DEF WorkerOK
  <2>3. WorkOK'  BY <1>1, <1>6, <2>2 DEF CloseConns, WorkOK, QueueOK
  <2> QED BY <1>1, <1>2, <1>6, <2>1, <2>3, TypeFrames, TypePartsNext DEF CloseConns
<1>7. ASSUME RunCancel  PROVE TypeOK'
  <2>1. CallOK'  BY <1>1, <1>7 DEF RunCancel, CallOK
  <2> QED BY <1>1, <1>2, <1>7, <2>1, TypeFrames, TypePartsNext DEF RunCancel
<1> QED BY <1>3, <1>4, <1>5, <1>6, <1>7 DEF CancelOutgoing

\* Every step keeps the types.
LEMMA NextTypes == TypeOK /\ [Next]_vars => TypeOK'
<1> SUFFICES ASSUME TypeOK, [Next]_vars  PROVE TypeOK'  OBVIOUS
<1>1. CASE UNCHANGED vars
      BY <1>1, TypeParts, TypeFrames, TypePartsNext DEF vars
<1>2. ASSUME NEW s \in Sends, Send(s) \/ RunSend(s)  PROVE TypeOK'
      BY <1>2, RunTypes, AnswerTypes DEF RunSend
<1>3. ASSUME NEW s \in Sends, NEW w \in Workers, SendWorker(s, w)  PROVE TypeOK'
      BY <1>3, WorkerTypes
<1> QED BY <1>1, <1>2, <1>3, CancelTypes DEF Next

\* Every variable of the sending side stays in its type, and the slot and the calls name
\* sessions that exist (Send, runSend, sendStream, CancelOutgoing).
THEOREM SenderTypeCorrect == Spec => []TypeOK
BY InitTypes, NextTypes, PTL DEF Spec

(***************************************************************************)
(* Steps that move no chunk                                                *)
(***************************************************************************)

\* No chunk of s is taken or written: a worker stays where it is, perhaps with its
\* connection closed, or goes on, or leaves for a reason.
Idles(s, w) ==
    LET old == worker[s][w]  new == worker'[s][w] IN
    /\ new.chunk = old.chunk
    /\ \/ new.at = old.at /\ new.conn \in {old.conn, "closed"}
       \/ old.at \in {"dial", "token"} /\ new.at \in {"token", "next"}
       \/ old.at \in {"dial", "token"} /\ new.at = "gone" /\ failed'[s]
       \/ old.at = "next" /\ new.at = "gone" /\ (cancel[s] \/ Lane(s, w) = "none")
Quiet(s) ==
    /\ queue'[s] = queue[s] /\ written'[s] = written[s]
    /\ \A w \in Workers : Idles(s, w)

\* The steps that move no chunk of any session.
LEMMA QuietSteps ==
    ASSUME TypeOK, NEW t \in Sends,
           \/ UNCHANGED workVars
           \/ \E s \in Sends, w \in Workers : Dial(s, w) \/ WriteToken(s, w)
           \/ \E k \in Callers : CloseConns(k)
    PROVE  Quiet(t)
<1>1. WorkerOK /\ CallOK /\ StopOK  BY TypeParts DEF WorkOK
<1>2. CASE UNCHANGED workVars  BY <1>2 DEF workVars, Quiet, Idles
<1>3. ASSUME NEW s \in Sends, NEW w \in Workers, Dial(s, w) \/ WriteToken(s, w)
      PROVE  Quiet(t)
  <2>1. queue' = queue /\ written' = written /\ worker[s][w].at \in {"dial", "token"}
        BY <1>3 DEF Dial, WriteToken
  <2>2. \A v \in Workers : <<t, v>> # <<s, w>> => worker'[t][v] = worker[t][v]
        BY <1>1, <1>3, DialMoves, OneWorker DEF Moves
  <2>3. Idles(s, w)
    <3>1. CASE worker' = [worker EXCEPT ![s][w].at = "token", ![s][w].conn = "open"]
      <4>1. worker'[s][w] = [worker[s][w] EXCEPT !.at = "token", !.conn = "open"]
            BY <1>1, <3>1, Zenon DEF WorkerOK
      <4>2. worker[s][w] \in WorkerType  BY <1>1, WorkerMoves
      <4> QED BY <2>1, <4>1, <4>2 DEF Idles, WorkerType
    <3>2. CASE Leave(s, w) /\ SetErr(s)
      <4>1. worker'[s][w] = [worker[s][w] EXCEPT !.at = "gone", !.conn = "closed"]
            BY <1>1, <3>2, Zenon DEF WorkerOK, Leave
      <4>2. worker[s][w] \in WorkerType  BY <1>1, WorkerMoves
      <4>3. failed'[s]  BY <1>1, <3>2 DEF SetErr, StopOK
      <4> QED BY <2>1, <4>1, <4>2, <4>3 DEF Idles, WorkerType
    <3>3. CASE Step(s, w, "next")
      <4>1. worker'[s][w] = [worker[s][w] EXCEPT !.at = "next"]
            BY <1>1, <3>3, Zenon DEF WorkerOK, Step
      <4>2. worker[s][w] \in WorkerType  BY <1>1, WorkerMoves
      <4> QED BY <2>1, <4>1, <4>2 DEF Idles, WorkerType
    <3> QED BY <1>3, <3>1, <3>2, <3>3 DEF Dial, WriteToken
  <2>4. \A v \in Workers : Idles(t, v)
    <3> TAKE v \in Workers
    <3>1. CASE t = s /\ v = w  BY <2>3, <3>1
    <3>2. CASE ~(t = s /\ v = w)
      <4>1. worker'[t][v] = worker[t][v]  BY <2>2, <3>2
      <4> QED BY <4>1 DEF Idles
    <3> QED BY <3>1, <3>2
  <2> QED BY <2>1, <2>4 DEF Quiet
<1>4. ASSUME NEW k \in Callers, CloseConns(k)  PROVE Quiet(t)
  <2>1. queue' = queue /\ written' = written /\ call[k].of \in Sends
        BY <1>1, <1>4 DEF CloseConns, CallOK
  <2>2. \A v \in Workers :
           worker'[t][v] = IF t = call[k].of /\ worker[t][v].conn = "open"
                           THEN [worker[t][v] EXCEPT !.conn = "closed"] ELSE worker[t][v]
        BY <1>1, <1>4, <2>1 DEF CloseConns, WorkerOK
  <2>3. \A v \in Workers : worker[t][v] \in WorkerType  BY <1>1 DEF WorkerOK
  <2>4. \A v \in Workers : Idles(t, v)  BY <2>2, <2>3 DEF Idles, WorkerType
  <2> QED BY <2>1, <2>4 DEF Quiet
<1> QED BY <1>2, <1>3, <1>4

\* A worker that finds the flag set or no chunk moves none either.
LEMMA QuietLeave ==
    ASSUME TypeOK, NEW s \in Sends, NEW w \in Workers, TakeChunk(s, w),
           Lane(s, w) = "none" \/ cancel[s], NEW t \in Sends
    PROVE  Quiet(t)
<1>1. WorkerOK  BY TypeParts DEF WorkOK
<1>2. Leave(s, w) /\ queue' = queue /\ written' = written /\ worker[s][w].at = "next"
      BY DEF TakeChunk
<1>3. /\ worker'[s][w].at = "gone" /\ worker'[s][w].chunk = worker[s][w].chunk
      /\ \A v \in Workers : <<t, v>> # <<s, w>> => worker'[t][v] = worker[t][v]
      BY <1>1, <1>2, LeaveTypes
<1>4. \A v \in Workers : Idles(t, v)
  <2> TAKE v \in Workers
  <2>1. CASE t = s /\ v = w  BY <1>2, <1>3, <2>1 DEF Idles
  <2>2. CASE ~(t = s /\ v = w)
    <3>1. worker'[t][v] = worker[t][v]  BY <1>3, <2>2
    <3> QED BY <3>1 DEF Idles
  <2> QED BY <2>1, <2>2
<1> QED BY <1>2, <1>4 DEF Quiet

\* The bytes are where they were.
LEMMA QuietBytes ==
    ASSUME NEW s \in Sends, Quiet(s)
    PROVE  /\ Holders(s)' = Holders(s)
           /\ QueueBytes(s)' = QueueBytes(s) /\ HeldBytes(s)' = HeldBytes(s)
           /\ SentBytes(s)' = SentBytes(s)
           /\ Apart(s) => Apart(s)'
           /\ Within(s) => Within(s)'
<1>1. /\ queue'[s] = queue[s] /\ written'[s] = written[s]
      /\ \A w \in Workers : /\ worker'[s][w].at = "write" <=> worker[s][w].at = "write"
                            /\ worker'[s][w].chunk = worker[s][w].chunk
      BY DEF Quiet, Idles
<1>2. Holders(s)' = Holders(s)  BY <1>1 DEF Holders
<1>3. \A w \in Holders(s) : worker'[s][w].chunk = worker[s][w].chunk
      BY <1>1 DEF Holders
<1>4. QueueBytes(s)' = QueueBytes(s)  BY <1>1 DEF QueueBytes
<1>5. HeldBytes(s)' = HeldBytes(s)  BY <1>2, <1>3 DEF HeldBytes
<1>6. SentBytes(s)' = SentBytes(s)  BY <1>1 DEF SentBytes
<1>7. Apart(s) => Apart(s)'
  <2>1. QueueApart(s) => QueueApart(s)'  BY <1>1, <1>4, <1>5, <1>6 DEF QueueApart
  <2>2. HeldApart(s) => HeldApart(s)'  BY <1>2, <1>3, <1>5, <1>6 DEF HeldApart
  <2>3. SentApart(s) => SentApart(s)'  BY <1>1 DEF SentApart
  <2> QED BY <2>1, <2>2, <2>3 DEF Apart
<1>8. Within(s) => Within(s)'  BY <1>4, <1>5, <1>6 DEF Within
<1> QED BY <1>2, <1>4, <1>5, <1>6, <1>7, <1>8

(***************************************************************************)
(* Steps that move a chunk                                                 *)
(***************************************************************************)

\* The bytes a sequence of chunks stands for, all but the first being those of its tail.
LEMMA TailBytes ==
    ASSUME NEW q \in Seq(ChunkType), q # <<>>
    PROVE  /\ Head(q) \in ChunkType /\ 1 \in DOMAIN q /\ q[1] = Head(q)
           /\ \A i \in DOMAIN Tail(q) : /\ i + 1 \in DOMAIN q /\ i + 1 # 1
                                        /\ Tail(q)[i] = q[i + 1]
           /\ \A i, j \in DOMAIN Tail(q) : i # j => i + 1 # j + 1
           /\ \A i \in DOMAIN q : i # 1 => /\ i - 1 \in DOMAIN Tail(q)
                                           /\ Tail(q)[i - 1] = q[i]
<1>1. /\ Len(q) \in Nat /\ DOMAIN q = 1..Len(q) /\ Len(q) >= 1 /\ Head(q) = q[1]
      /\ Tail(q) \in Seq(ChunkType) /\ Len(Tail(q)) = Len(q) - 1
      /\ DOMAIN Tail(q) = 1..(Len(q) - 1)
      OBVIOUS
<1>2. \A i \in 1..(Len(q) - 1) : Tail(q)[i] = q[i + 1]  OBVIOUS
<1>3. \A i \in DOMAIN q : i # 1 => i - 1 \in 1..(Len(q) - 1) /\ (i - 1) + 1 = i  BY <1>1
<1> QED BY <1>1, <1>2, <1>3

\* What TakeChunk does when it takes: one worker holds the first chunk of one queue.
LEMMA TakeMoves ==
    ASSUME TypeOK, NEW s \in Sends, NEW w \in Workers, TakeChunk(s, w),
           Lane(s, w) # "none", ~cancel[s]
    PROVE  \E a \in Lanes :
              /\ queue[s][a] \in Seq(ChunkType) /\ queue[s][a] # <<>>
              /\ queue'[s][a] = Tail(queue[s][a])
              /\ \A b \in Lanes : b # a => queue'[s][b] = queue[s][b]
              /\ worker[s][w].at = "next" /\ worker'[s][w].at = "write"
              /\ worker'[s][w].chunk = Head(queue[s][a])
              /\ \A v \in Workers : v # w => worker'[s][v] = worker[s][v]
              /\ \A t \in Sends : t # s => Quiet(t)
<1>1. WorkerOK /\ QueueOK  BY TypeParts DEF WorkOK
<1>2. PICK a \in Lanes :
          /\ a = Lane(s, w)
          /\ queue[s][a] \in Seq(ChunkType) /\ queue[s][a] # <<>>
          /\ queue' = [queue EXCEPT ![s] = [queue[s] EXCEPT ![a] = Tail(queue[s][a])]]
          /\ worker' = [worker EXCEPT ![s][w] =
                [worker[s][w] EXCEPT !.at = "write", !.chunk = Head(queue[s][a])]]
      BY <1>1, TakenChunk
<1>3. worker[s][w].at = "next" /\ written' = written  BY DEF TakeChunk
<1>4. queue'[s] = [queue[s] EXCEPT ![a] = Tail(queue[s][a])]
      BY <1>1, <1>2 DEF QueueOK
<1>5. queue'[s][a] = Tail(queue[s][a]) /\ \A b \in Lanes : b # a => queue'[s][b] = queue[s][b]
  <2>1. queue[s] \in QueueType  BY <1>1 DEF QueueOK
  <2>2. CASE a = "large"  BY <1>4, <2>1, <2>2 DEF Lanes, QueueType
  <2>3. CASE a = "small"  BY <1>4, <2>1, <2>3 DEF Lanes, QueueType
  <2> QED BY <2>2, <2>3 DEF Lanes
<1> DEFINE x == [worker[s][w] EXCEPT !.at = "write", !.chunk = Head(queue[s][a])]
<1>6. x.at = "write" /\ x.chunk = Head(queue[s][a])
  <2>1. worker[s][w] \in WorkerType  BY <1>1, WorkerMoves
  <2> QED BY <2>1 DEF WorkerType
<1>7. worker' = [worker EXCEPT ![s][w] = x]  BY <1>2
<1> HIDE DEF x
<1>8. worker'[s][w] = x  BY <1>1, <1>7 DEF WorkerOK
<1>9. \A t \in Sends, v \in Workers : <<t, v>> # <<s, w>> => worker'[t][v] = worker[t][v]
      BY <1>1, <1>7 DEF WorkerOK
<1>10. \A t \in Sends : t # s => Quiet(t)
  <2> SUFFICES ASSUME NEW t \in Sends, t # s  PROVE Quiet(t)  OBVIOUS
  <2>1. queue'[t] = queue[t]  BY <1>1, <1>2 DEF QueueOK
  <2>2. \A v \in Workers : worker'[t][v] = worker[t][v]  BY <1>9
  <2> QED BY <1>3, <2>1, <2>2 DEF Quiet, Idles
<1> QED BY <1>2, <1>3, <1>5, <1>6, <1>8, <1>9, <1>10

\* Taking a chunk moves its bytes from a queue to a worker.
LEMMA TakeBytes ==
    ASSUME NEW s \in Sends, NEW w \in Workers, NEW a \in Lanes, NEW q \in Seq(ChunkType),
           queue[s][a] = q, q # <<>>, queue'[s][a] = Tail(q),
           \A b \in Lanes : b # a => queue'[s][b] = queue[s][b],
           worker[s][w].at = "next", worker'[s][w].at = "write",
           worker'[s][w].chunk = Head(q),
           \A v \in Workers : v # w => worker'[s][v] = worker[s][v],
           written'[s] = written[s]
    PROVE  /\ Apart(s) => Apart(s)'
           /\ QueueBytes(s) \cup HeldBytes(s) = QueueBytes(s)' \cup HeldBytes(s)'
           /\ SentBytes(s)' = SentBytes(s)
<1> DEFINE h == Head(q)
           old(b, i) == IF b = a THEN i + 1 ELSE i
<1>1. /\ 1 \in DOMAIN q /\ q[1] = h
      /\ \A i \in DOMAIN Tail(q) : i + 1 \in DOMAIN q /\ i + 1 # 1 /\ Tail(q)[i] = q[i + 1]
      /\ \A i, j \in DOMAIN Tail(q) : i # j => i + 1 # j + 1
      /\ \A i \in DOMAIN q : i # 1 => i - 1 \in DOMAIN Tail(q) /\ Tail(q)[i - 1] = q[i]
      BY TailBytes
<1> HIDE DEF h
<1>2. \A b \in Lanes : \A i \in DOMAIN queue'[s][b] :
         /\ old(b, i) \in DOMAIN queue[s][b] /\ queue'[s][b][i] = queue[s][b][old(b, i)]
         /\ b = a => old(b, i) # 1
      BY <1>1
<1>3. \A b \in Lanes : \A i, j \in DOMAIN queue'[s][b] : i # j => old(b, i) # old(b, j)
      BY <1>1
<1> HIDE DEF old
<1>4. QueueBytes(s)' \subseteq QueueBytes(s)  BY <1>2 DEF QueueBytes
<1>5. Bytes(h) \subseteq QueueBytes(s)  BY <1>1 DEF QueueBytes
<1>6. QueueBytes(s) \subseteq QueueBytes(s)' \cup Bytes(h)
  <2>1. ASSUME NEW b \in Lanes, NEW i \in DOMAIN queue[s][b]
        PROVE  Bytes(queue[s][b][i]) \subseteq QueueBytes(s)' \cup Bytes(h)
    <3>1. CASE b # a  BY <3>1 DEF QueueBytes
    <3>2. CASE b = a /\ i = 1  BY <1>1, <3>2
    <3>3. CASE b = a /\ i # 1
      <4>1. i - 1 \in DOMAIN queue'[s][b] /\ queue'[s][b][i - 1] = queue[s][b][i]
            BY <1>1, <3>3
      <4> QED BY <4>1 DEF QueueBytes
    <3> QED BY <3>1, <3>2, <3>3
  <2> QED BY <2>1 DEF QueueBytes
<1>7. Holders(s)' = Holders(s) \cup {w} /\ w \notin Holders(s)
      BY DEF Holders
<1>8. \A v \in Holders(s) : worker'[s][v].chunk = worker[s][v].chunk
      BY <1>7 DEF Holders
<1>9. HeldBytes(s)' = HeldBytes(s) \cup Bytes(h)
      BY <1>7, <1>8 DEF HeldBytes, h
<1>10. SentBytes(s)' = SentBytes(s)  BY DEF SentBytes
<1>11. ASSUME Apart(s)  PROVE Apart(s)'
  <2>1. QueueApart(s) /\ HeldApart(s) /\ SentApart(s)  BY <1>11 DEF Apart
  <2>2. QueueBytes(s)' \cap Bytes(h) = {}
    <3>1. \A b \in Lanes : \A i \in DOMAIN queue'[s][b] : Disjoint(queue'[s][b][i], h)
      <4> TAKE b \in Lanes
      <4> TAKE i \in DOMAIN queue'[s][b]
      <4>1. Disjoint(queue[s][b][old(b, i)], queue[s][a][1])
            BY <1>1, <1>2, <2>1 DEF QueueApart
      <4> QED BY <1>1, <1>2, <4>1
    <3> QED BY <3>1 DEF QueueBytes, Disjoint
  <2>3. \A b, c \in Lanes : \A i \in DOMAIN queue'[s][b], j \in DOMAIN queue'[s][c] :
           b # c \/ i # j => Disjoint(queue'[s][b][i], queue'[s][c][j])
    <3> TAKE b, c \in Lanes
    <3> TAKE i \in DOMAIN queue'[s][b], j \in DOMAIN queue'[s][c]
    <3>1. b # c \/ i # j => b # c \/ old(b, i) # old(c, j)  BY <1>3
    <3>2. /\ old(b, i) \in DOMAIN queue[s][b] /\ queue'[s][b][i] = queue[s][b][old(b, i)]
          /\ old(c, j) \in DOMAIN queue[s][c] /\ queue'[s][c][j] = queue[s][c][old(c, j)]
          BY <1>2
    <3> QED BY <2>1, <3>1, <3>2 DEF QueueApart
  <2>4. QueueApart(s)'
    <3>1. QueueBytes(s)' \cap HeldBytes(s)' = {} /\ QueueBytes(s)' \cap SentBytes(s)' = {}
          BY <1>4, <1>9, <1>10, <2>1, <2>2 DEF QueueApart
    <3> QED BY <2>3, <3>1 DEF QueueApart
  <2>5. \A v \in Holders(s) : Disjoint(h, worker[s][v].chunk) /\ Disjoint(worker[s][v].chunk, h)
    <3>1. Bytes(h) \cap HeldBytes(s) = {}  BY <1>5, <2>1 DEF QueueApart
    <3> QED BY <3>1 DEF HeldBytes, Disjoint
  <2>6. HeldApart(s)'
    <3>1. \A v \in Holders(s)' : v = w \/ v \in Holders(s)  BY <1>7
    <3>2. worker'[s][w].chunk = h  BY DEF h
    <3>3. \A v, u \in Holders(s)' : v # u =>
             Disjoint(worker'[s][v].chunk, worker'[s][u].chunk)
          BY <1>8, <2>1, <2>5, <3>1, <3>2 DEF HeldApart
    <3>4. HeldBytes(s)' \cap SentBytes(s)' = {}
          BY <1>5, <1>9, <1>10, <2>1 DEF QueueApart, HeldApart
    <3> QED BY <3>3, <3>4 DEF HeldApart
  <2>7. SentApart(s)'  BY <2>1 DEF SentApart
  <2> QED BY <2>4, <2>6, <2>7 DEF Apart
<1> QED BY <1>4, <1>5, <1>6, <1>9, <1>10, <1>11

\* A worker that fails or has written gives its chunk up.
LEMMA DropBytes ==
    ASSUME NEW s \in Sends, NEW w \in Workers, queue'[s] = queue[s],
           worker[s][w].at = "write", worker'[s][w].at # "write",
           \A v \in Workers : v # w => worker'[s][v] = worker[s][v]
    PROVE  /\ Holders(s)' \subseteq Holders(s) /\ w \notin Holders(s)'
           /\ QueueBytes(s)' = QueueBytes(s)
           /\ HeldBytes(s)' \subseteq HeldBytes(s)
           /\ Bytes(worker[s][w].chunk) \subseteq HeldBytes(s)
           /\ HeldBytes(s) \subseteq HeldBytes(s)' \cup Bytes(worker[s][w].chunk)
           /\ HeldApart(s) => /\ HeldBytes(s)' \cap Bytes(worker[s][w].chunk) = {}
                              /\ \A v, u \in Holders(s)' : v # u =>
                                    Disjoint(worker'[s][v].chunk, worker'[s][u].chunk)
<1>1. Holders(s)' = Holders(s) \ {w} /\ w \in Holders(s)  BY DEF Holders
<1>2. \A v \in Holders(s)' : worker'[s][v] = worker[s][v] /\ v \in Holders(s) /\ v # w
      BY <1>1 DEF Holders
<1>3. HeldBytes(s)' \subseteq HeldBytes(s)  BY <1>2 DEF HeldBytes
<1>4. Bytes(worker[s][w].chunk) \subseteq HeldBytes(s)  BY <1>1 DEF HeldBytes
<1>5. HeldBytes(s) \subseteq HeldBytes(s)' \cup Bytes(worker[s][w].chunk)
      BY <1>1, <1>2 DEF HeldBytes
<1>6. ASSUME HeldApart(s)
      PROVE  /\ HeldBytes(s)' \cap Bytes(worker[s][w].chunk) = {}
             /\ \A v, u \in Holders(s)' : v # u =>
                   Disjoint(worker'[s][v].chunk, worker'[s][u].chunk)
  <2>1. \A v \in Holders(s)' : Disjoint(worker'[s][v].chunk, worker[s][w].chunk)
        BY <1>1, <1>2, <1>6 DEF HeldApart
  <2>2. HeldBytes(s)' \cap Bytes(worker[s][w].chunk) = {}
        BY <2>1 DEF HeldBytes, Disjoint
  <2> QED BY <1>2, <1>6, <2>2 DEF HeldApart
<1>7. QueueBytes(s)' = QueueBytes(s)  BY DEF QueueBytes
<1> QED BY <1>1, <1>3, <1>4, <1>5, <1>6, <1>7

\* HandleAnswer starts the workers of s.
Starts(s) ==
    /\ stage[s] = "answered" /\ stage'[s] = "sending"
    /\ queue'[s] = [large |-> Large(Sizes[s]), small |-> Small(Sizes[s])]
    /\ \A w \in Workers : worker'[s][w].at = "dial"
    /\ written'[s] = written[s]

\* A worker of s takes a chunk, has written one, or fails to.
Takes(s, w) == TakeChunk(s, w) /\ Lane(s, w) # "none" /\ ~cancel[s]
Moving(s) ==
    \/ Starts(s)
    \/ \E w \in Workers : Takes(s, w) \/ WriteChunk(s, w) \/ WriteFails(s, w)

\* Every other step leaves the chunks of s alone, and only Starts begins to send.
LEMMA StepKinds ==
    ASSUME TypeOK, [Next]_vars, NEW t \in Sends
    PROVE  Moving(t) \/ (Quiet(t) /\ (stage'[t] = "sending" => stage[t] = "sending"))
<1>1. SessOK /\ WorkerOK /\ QueueOK /\ WorkOK  BY TypeParts DEF WorkOK
<1>2. ASSUME UNCHANGED workVars, UNCHANGED stage  PROVE Quiet(t) /\ stage'[t] = stage[t]
      BY <1>2, QuietSteps
<1>3. CASE UNCHANGED vars  BY <1>2, <1>3 DEF vars, sessVars
<1>4. ASSUME NEW s \in Sends, Send(s) \/ RunSend(s)
      PROVE  Moving(t) \/ (Quiet(t) /\ (stage'[t] = "sending" => stage[t] = "sending"))
  <2>1. CASE Send(s) \/ StartPost(s) \/ PostAnswered(s) \/ PostFailed(s) \/ Join(s)
             \/ ClearOutgoing(s)
    <3>1. UNCHANGED workVars
          BY <2>1 DEF Send, StartPost, PostAnswered, PostFailed, Join, ClearOutgoing
    <3>2. \E to \in Stages \ {"sending"} : stage' = [stage EXCEPT ![s] = to]
          BY <2>1 DEF Send, StartPost, PostAnswered, PostFailed, Join, ClearOutgoing, Report, Stages
    <3>3. stage'[t] = "sending" => stage[t] = "sending"  BY <1>1, <3>2 DEF SessOK
    <3> QED BY <3>1, <3>3, QuietSteps
  <2>2. CASE HandleAnswer(s) /\ ~cancel[s] /\ status[s] = 200 /\ BuildChunks(Sizes[s]) # <<>>
    <3>1. /\ stage' = [stage EXCEPT ![s] = "sending"] /\ stage[s] = "answered"
          /\ queue' = [queue EXCEPT ![s] = [large |-> Large(Sizes[s]), small |-> Small(Sizes[s])]]
          /\ worker' = [worker EXCEPT ![s] = [w \in Workers |-> [Off EXCEPT !.at = "dial"]]]
          /\ written' = written
          BY <2>2 DEF HandleAnswer
    <3>2. [Off EXCEPT !.at = "dial"].at = "dial"  BY DEF Off
    <3>3. CASE t = s
      <4>1. \A w \in Workers : worker'[s][w].at = "dial"  BY <1>1, <3>1, <3>2 DEF WorkerOK
      <4>2. stage'[s] = "sending"  BY <1>1, <3>1 DEF SessOK
      <4>3. queue'[s] = [large |-> Large(Sizes[s]), small |-> Small(Sizes[s])]
            BY <1>1, <3>1 DEF QueueOK
      <4> QED BY <3>1, <3>3, <4>1, <4>2, <4>3 DEF Starts, Moving
    <3>4. CASE t # s
      <4>1. stage'[t] = stage[t]  BY <1>1, <3>1, <3>4 DEF SessOK
      <4>2. queue'[t] = queue[t]  BY <1>1, <3>1, <3>4 DEF QueueOK
      <4>3. worker'[t] = worker[t]  BY <1>1, <3>1, <3>4 DEF WorkerOK
      <4> QED BY <3>1, <4>1, <4>2, <4>3 DEF Quiet, Idles
    <3> QED BY <3>3, <3>4
  <2>3. CASE HandleAnswer(s) /\ ~(~cancel[s] /\ status[s] = 200 /\ BuildChunks(Sizes[s]) # <<>>)
    <3>1. UNCHANGED workVars  BY <2>3 DEF HandleAnswer, workVars
    <3>2. stage' = [stage EXCEPT ![s] = "clearing"]  BY <2>3 DEF HandleAnswer, Report
    <3>3. stage'[t] = "sending" => stage[t] = "sending"  BY <1>1, <3>2 DEF SessOK
    <3> QED BY <3>1, <3>3, QuietSteps
  <2> QED BY <1>4, <2>1, <2>2, <2>3 DEF RunSend
<1>5. ASSUME NEW s \in Sends, NEW w \in Workers, SendWorker(s, w)
      PROVE  Moving(t) \/ (Quiet(t) /\ (stage'[t] = "sending" => stage[t] = "sending"))
  <2>1. stage' = stage
        BY <1>5 DEF SendWorker, Dial, WriteToken, TakeChunk, WriteChunk, WriteFails, sessVars
  <2>2. CASE Dial(s, w) \/ WriteToken(s, w)  BY <2>1, <2>2, QuietSteps
  <2>3. CASE TakeChunk(s, w) /\ (Lane(s, w) = "none" \/ cancel[s])  BY <2>1, <2>3, QuietLeave
  <2>4. CASE Takes(s, w)
    <3>1. t # s => Quiet(t)  BY <2>4, TakeMoves DEF Takes
    <3> QED BY <2>1, <2>4, <3>1 DEF Moving
  <2>5. CASE WriteChunk(s, w)
    <3>1. CASE t = s  BY <2>5, <3>1 DEF Moving
    <3>2. CASE t # s
      <4>1. queue' = queue /\ Step(s, w, "next")  BY <2>5 DEF WriteChunk
      <4>2. \A v \in Workers : worker'[t][v] = worker[t][v]
            BY <1>1, <3>2, <4>1, StepTypes DEF Ats
      <4>3. written'[t] = written[t]  BY <1>1, <2>5, <3>2 DEF WriteChunk, WorkOK
      <4> QED BY <2>1, <4>1, <4>2, <4>3 DEF Quiet, Idles
    <3> QED BY <3>1, <3>2
  <2>6. CASE WriteFails(s, w)
    <3>1. CASE t = s  BY <2>6, <3>1 DEF Moving
    <3>2. CASE t # s
      <4>1. queue' = queue /\ written' = written /\ Leave(s, w)  BY <2>6 DEF WriteFails
      <4>2. \A v \in Workers : worker'[t][v] = worker[t][v]
            BY <1>1, <3>2, <4>1, LeaveTypes
      <4> QED BY <2>1, <4>1, <4>2 DEF Quiet, Idles
    <3> QED BY <3>1, <3>2
  <2> QED BY <1>5, <2>2, <2>3, <2>4, <2>5, <2>6 DEF SendWorker, Takes
<1>6. ASSUME NEW k \in Callers, CancelOutgoing(k)  PROVE Quiet(t) /\ stage'[t] = stage[t]
  <2>1. stage' = stage
        BY <1>6 DEF CancelOutgoing, Cancel, SetCancel, AbortHTTP, CloseConns, sessVars
  <2>2. CASE CloseConns(k)  BY <2>1, <2>2, QuietSteps
  <2>3. CASE Cancel(k) \/ SetCancel(k) \/ AbortHTTP(k)
        BY <1>2, <2>1, <2>3 DEF Cancel, SetCancel, AbortHTTP
  <2> QED BY <1>6, <2>2, <2>3 DEF CancelOutgoing
<1>7. CASE RunCancel  BY <1>2, <1>7 DEF RunCancel, sessVars
<1> QED BY <1>3, <1>4, <1>5, <1>6, <1>7 DEF Next

\* The flags are never taken back.
LEMMA FlagsStay ==
    ASSUME TypeOK, [Next]_vars, NEW t \in Sends
    PROVE  (cancel[t] => cancel'[t]) /\ (failed[t] => failed'[t])
<1>1. StopOK /\ CallOK  BY TypeParts
<1>2. CASE UNCHANGED stopVars  BY <1>2 DEF stopVars
<1>3. CASE \E s \in Sends : failed' = [failed EXCEPT ![s] = TRUE] /\ cancel' = cancel
      BY <1>1, <1>3 DEF StopOK
<1>4. ASSUME NEW s \in Sends, failed' = [failed EXCEPT ![s] = failed[s] \/ ~cancel[s]],
             cancel' = cancel
      PROVE  (cancel[t] => cancel'[t]) /\ (failed[t] => failed'[t])
      BY <1>1, <1>4 DEF StopOK
<1>5. CASE \E k \in Callers : CancelOutgoing(k)
  <2>1. PICK k \in Callers : CancelOutgoing(k)  BY <1>5
  <2>2. failed' = failed /\ (cancel' = cancel \/ cancel' = [cancel EXCEPT ![call[k].of] = TRUE])
        BY <2>1 DEF CancelOutgoing, Cancel, SetCancel, AbortHTTP, CloseConns, stopVars
  <2> QED BY <1>1, <2>2 DEF StopOK
<1>6. CASE UNCHANGED <<cancel, failed>>  BY <1>6
<1>7. ASSUME NEW s \in Sends, Send(s) \/ RunSend(s)  PROVE UNCHANGED <<cancel, failed>>
      BY <1>7 DEF RunSend, Send, StartPost, PostAnswered, PostFailed, HandleAnswer, Join,
                  ClearOutgoing, stopVars
<1>8. ASSUME NEW s \in Sends, NEW w \in Workers, SendWorker(s, w)
      PROVE  \/ UNCHANGED <<cancel, failed>>
             \/ failed' = [failed EXCEPT ![s] = TRUE] /\ cancel' = cancel
             \/ failed' = [failed EXCEPT ![s] = failed[s] \/ ~cancel[s]] /\ cancel' = cancel
      BY <1>8 DEF SendWorker, Dial, WriteToken, TakeChunk, WriteChunk, WriteFails, SetErr, stopVars
<1>9. CASE RunCancel \/ UNCHANGED vars  BY <1>2, <1>9 DEF RunCancel, vars
<1> QED BY <1>3, <1>4, <1>5, <1>6, <1>7, <1>8, <1>9 DEF Next

(***************************************************************************)
(* The invariant is inductive                                              *)
(***************************************************************************)

\* Who works, works for a session that is sending and has reported nothing.
LEMMA Working ==
    ASSUME TypeOK, StageInv, NEW s \in Sends, NEW w \in Workers,
           worker[s][w].at \notin {"off", "gone"}
    PROVE  stage[s] = "sending" /\ reported[s] = <<>>
<1>1. stage[s] \in Stages  BY TypeParts DEF SessOK
<1> QED BY <1>1 DEF StageInv, Stages

\* The invariant holds at the start.
LEMMA InitSendInv == Init => SendInv
<1> SUFFICES ASSUME Init PROVE SendInv  OBVIOUS
<1>1. TypeOK  BY InitTypes
<1>2. \A s \in Sends : /\ stage[s] = "new" /\ written[s] = <<>> /\ reported[s] = <<>>
                       /\ queue[s] = [large |-> <<>>, small |-> <<>>]
                       /\ \A w \in Workers : worker[s][w].at = "off"
      BY DEF Init, Off
<1>3. \A s \in Sends, a \in Lanes : queue[s][a] = <<>>  BY <1>2 DEF Lanes
<1>4. StageInv  BY <1>2, <1>3 DEF StageInv
<1>5. GoneInv  BY <1>2 DEF GoneInv
<1>6. DoneInv  BY <1>2 DEF DoneInv, Reported
<1>7. StopInv  BY DEF Init, StopInv
<1>8. ASSUME NEW s \in Sends  PROVE Apart(s) /\ Within(s) /\ Covered(s)
  <2>1. Holders(s) = {} /\ SentBytes(s) = {} /\ QueueBytes(s) = {}
        BY <1>2, <1>3 DEF Holders, SentBytes, QueueBytes
  <2>2. HeldBytes(s) = {}  BY <2>1 DEF HeldBytes
  <2>3. QueueApart(s)  BY <1>3, <2>1 DEF QueueApart
  <2>4. HeldApart(s)  BY <2>1 DEF HeldApart
  <2>5. SentApart(s)  BY <1>2 DEF SentApart
  <2> QED BY <1>2, <2>1, <2>2, <2>3, <2>4, <2>5 DEF Apart, Within, Covered
<1> QED BY <1>1, <1>4, <1>5, <1>6, <1>7, <1>8 DEF SendInv, BytesInv

\* Starting puts every byte of the files in the queues, once.
LEMMA StartBytes ==
    ASSUME TypeOK, StageInv, NEW s \in Sends, Starts(s)
    PROVE  Apart(s)' /\ Within(s)' /\ Covered(s)'
<1> DEFINE L == Large(Sizes[s])
           M == Small(Sizes[s])
<1>1. Sizes[s] \in Seq(Nat)  BY SenderConstants
<1>2. /\ L \in Seq(ChunkType) /\ M \in Seq(ChunkType) /\ Distinct(L) /\ Distinct(M)
      /\ Range(L) \cup Range(M) = Pieces(Sizes[s]) /\ Range(L) \cap Range(M) = {}
      BY <1>1, Queues
<1>3. /\ \A c, e \in Pieces(Sizes[s]) : c # e => Disjoint(c, e)
      /\ UNION {Bytes(c) : c \in Pieces(Sizes[s])} = AllBytes(s)
      BY <1>1, PiecesWhole DEF AllBytes
<1>4. queue'[s].large = L /\ queue'[s].small = M  BY DEF Starts
<1> HIDE DEF L, M
<1>5. written'[s] = <<>> /\ Holders(s)' = {}  BY DEF Starts, StageInv, Holders
<1>6. SentBytes(s)' = {} /\ HeldBytes(s)' = {}  BY <1>5 DEF SentBytes, HeldBytes
<1>7. QueueBytes(s)' = AllBytes(s)
  <2>1. QueueBytes(s)' = (UNION {Bytes(L[i]) : i \in DOMAIN L})
                            \cup (UNION {Bytes(M[i]) : i \in DOMAIN M})
        BY <1>4 DEF QueueBytes, Lanes
  <2>2. /\ UNION {Bytes(L[i]) : i \in DOMAIN L} = UNION {Bytes(c) : c \in Range(L)}
        /\ UNION {Bytes(M[i]) : i \in DOMAIN M} = UNION {Bytes(c) : c \in Range(M)}
        BY DEF Range
  <2>3. (UNION {Bytes(c) : c \in Range(L)}) \cup (UNION {Bytes(c) : c \in Range(M)})
           = UNION {Bytes(c) : c \in Range(L) \cup Range(M)}
        OBVIOUS
  <2> QED BY <1>2, <1>3, <2>1, <2>2, <2>3
<1>8. QueueApart(s)'
  <2>1. \A i, j \in DOMAIN L : i # j => Disjoint(L[i], L[j])
        BY <1>2, <1>3 DEF Distinct, Range
  <2>2. \A i, j \in DOMAIN M : i # j => Disjoint(M[i], M[j])
        BY <1>2, <1>3 DEF Distinct, Range
  <2>3. \A i \in DOMAIN L, j \in DOMAIN M : Disjoint(L[i], M[j]) /\ Disjoint(M[j], L[i])
        BY <1>2, <1>3 DEF Range
  <2>4. \A a, b \in Lanes : \A i \in DOMAIN queue'[s][a], j \in DOMAIN queue'[s][b] :
           a # b \/ i # j => Disjoint(queue'[s][a][i], queue'[s][b][j])
        BY <1>4, <2>1, <2>2, <2>3 DEF Lanes
  <2> QED BY <1>6, <2>4 DEF QueueApart
<1>9. HeldApart(s)'  BY <1>5, <1>6 DEF HeldApart
<1>10. SentApart(s)'  BY <1>5 DEF SentApart
<1>11. AllBytes(s)' = AllBytes(s)  BY DEF AllBytes
<1> QED BY <1>6, <1>7, <1>8, <1>9, <1>10, <1>11 DEF Apart, Within, Covered

\* Writing a chunk moves its bytes to the connection, all of them if the file is whole.
LEMMA WriteBytes ==
    ASSUME TypeOK, NEW s \in Sends, NEW w \in Workers, WriteChunk(s, w),
           Apart(s), Within(s)
    PROVE  /\ Apart(s)' /\ Within(s)'
           /\ s \notin Shrinks => QueueBytes(s) \cup HeldBytes(s) \cup SentBytes(s)
                                     \subseteq QueueBytes(s)' \cup HeldBytes(s)' \cup SentBytes(s)'
<1> DEFINE c == worker[s][w].chunk
<1>1. WorkerOK /\ written \in [Sends -> Seq(ChunkType)]  BY TypeParts DEF WorkOK
<1>2. c \in ChunkType  BY <1>1, WorkerMoves DEF WorkerType
<1>3. PICK n \in (IF s \in Shrinks THEN 0..c.length ELSE {c.length}) :
          written' = [written EXCEPT ![s] = Append(@, [c EXCEPT !.length = n])]
      BY DEF WriteChunk
<1>4. /\ queue' = queue /\ worker[s][w].at = "write" /\ worker'[s][w].at = "next"
      /\ \A v \in Workers : v # w => worker'[s][v] = worker[s][v]
      BY <1>1, StepTypes DEF WriteChunk, Ats
<1> DEFINE e == [c EXCEPT !.length = n]
<1>5. Bytes(e) \subseteq Bytes(c) /\ (s \notin Shrinks => Bytes(e) = Bytes(c))
  <2>1. n \in Nat /\ n <= c.length /\ (s \notin Shrinks => n = c.length)
        BY <1>2, <1>3 DEF ChunkType
  <2>2. e.file = c.file /\ e.offset = c.offset /\ e.length = n  BY <1>2 DEF ChunkType
  <2>3. c.offset..(c.offset + n - 1) \subseteq c.offset..(c.offset + c.length - 1)
        BY <1>2, <2>1 DEF ChunkType
  <2> HIDE DEF c, e
  <2> QED BY <2>1, <2>2, <2>3 DEF Bytes
<1>6. written'[s] = Append(written[s], e)  BY <1>1, <1>3
<1> HIDE DEF e
<1> DEFINE q == written[s]
           r == written'[s]
<1>7. /\ Len(q) \in Nat /\ DOMAIN q = 1..Len(q) /\ DOMAIN r = DOMAIN q \cup {Len(q) + 1}
      /\ r[Len(q) + 1] = e /\ Len(q) + 1 \notin DOMAIN q
      /\ \A i \in DOMAIN q : r[i] = q[i]
      BY <1>1, <1>6
<1> HIDE DEF q, r
<1>8. SentBytes(s)' = SentBytes(s) \cup Bytes(e)
  <2>1. SentBytes(s)' = UNION {Bytes(r[i]) : i \in DOMAIN r}  BY DEF SentBytes, r
  <2>2. SentBytes(s) = UNION {Bytes(q[i]) : i \in DOMAIN q}  BY DEF SentBytes, q
  <2> QED BY <1>7, <2>1, <2>2
<1>9. /\ QueueBytes(s)' = QueueBytes(s)
      /\ HeldBytes(s)' \subseteq HeldBytes(s) /\ Bytes(c) \subseteq HeldBytes(s)
      /\ HeldBytes(s) \subseteq HeldBytes(s)' \cup Bytes(c)
      /\ HeldApart(s) => /\ HeldBytes(s)' \cap Bytes(c) = {}
                         /\ \A v, u \in Holders(s)' : v # u =>
                               Disjoint(worker'[s][v].chunk, worker'[s][u].chunk)
      BY <1>4, DropBytes
<1> HIDE DEF c
<1>10. QueueApart(s) /\ HeldApart(s) /\ SentApart(s)  BY DEF Apart
<1>11. Bytes(c) \cap SentBytes(s) = {} /\ Bytes(c) \cap QueueBytes(s) = {}
       BY <1>9, <1>10 DEF QueueApart, HeldApart
<1>12. QueueApart(s)'
  <2>1. QueueBytes(s)' \cap HeldBytes(s)' = {} /\ QueueBytes(s)' \cap SentBytes(s)' = {}
        BY <1>5, <1>8, <1>9, <1>10, <1>11 DEF QueueApart
  <2> QED BY <1>4, <1>10, <2>1 DEF QueueApart
<1>13. HeldApart(s)'
  <2>1. HeldBytes(s)' \cap SentBytes(s)' = {}  BY <1>5, <1>8, <1>9, <1>10 DEF HeldApart
  <2> QED BY <1>9, <1>10, <2>1 DEF HeldApart
<1>14. SentApart(s)'
  <2>1. \A i \in DOMAIN q : Disjoint(q[i], e) /\ Disjoint(e, q[i])
    <3>1. \A i \in DOMAIN q : Bytes(q[i]) \subseteq SentBytes(s)  BY DEF SentBytes, q
    <3> QED BY <1>5, <1>11, <3>1 DEF Disjoint
  <2>2. \A i, j \in DOMAIN q : i # j => Disjoint(q[i], q[j])  BY <1>10 DEF SentApart, q
  <2>3. \A i, j \in DOMAIN r : i # j => Disjoint(r[i], r[j])
        BY <1>7, <2>1, <2>2
  <2> QED BY <2>3 DEF SentApart, r
<1>15. Within(s)'
  <2>1. AllBytes(s)' = AllBytes(s)  BY DEF AllBytes
  <2> QED BY <1>5, <1>8, <1>9, <2>1 DEF Within
<1> QED BY <1>5, <1>8, <1>9, <1>12, <1>13, <1>14, <1>15 DEF Apart

\* A chunk whose writing fails is in none of the three places any more.
LEMMA FailBytes ==
    ASSUME TypeOK, NEW s \in Sends, NEW w \in Workers, WriteFails(s, w),
           Apart(s), Within(s)
    PROVE  Apart(s)' /\ Within(s)' /\ (failed'[s] \/ cancel'[s])
<1>1. WorkerOK /\ StopOK  BY TypeParts DEF WorkOK
<1>2. /\ queue' = queue /\ written' = written /\ cancel' = cancel
      /\ worker[s][w].at = "write" /\ worker'[s][w].at = "gone"
      /\ \A v \in Workers : v # w => worker'[s][v] = worker[s][v]
      BY <1>1, LeaveTypes DEF WriteFails
<1>3. /\ QueueBytes(s)' = QueueBytes(s) /\ HeldBytes(s)' \subseteq HeldBytes(s)
      /\ HeldApart(s) => \A v, u \in Holders(s)' : v # u =>
                            Disjoint(worker'[s][v].chunk, worker'[s][u].chunk)
      BY <1>2, DropBytes
<1>4. SentBytes(s)' = SentBytes(s)  BY <1>2 DEF SentBytes
<1>5. QueueApart(s)'  BY <1>2, <1>3, <1>4 DEF Apart, QueueApart
<1>6. HeldApart(s)'  BY <1>3, <1>4 DEF Apart, HeldApart
<1>7. SentApart(s)'  BY <1>2 DEF Apart, SentApart
<1>8. Within(s)'
  <2>1. AllBytes(s)' = AllBytes(s)  BY DEF AllBytes
  <2> QED BY <1>3, <1>4, <2>1 DEF Within
<1>9. failed' = [failed EXCEPT ![s] = failed[s] \/ ~cancel[s]]  BY DEF WriteFails
<1>10. failed'[s] \/ cancel'[s]  BY <1>1, <1>2, <1>9 DEF StopOK
<1> QED BY <1>5, <1>6, <1>7, <1>8, <1>10 DEF Apart

\* Every step keeps the bytes apart, and covered until something fails.
LEMMA NextBytesInv ==
    ASSUME TypeOK, StageInv, BytesInv, [Next]_vars
    PROVE  BytesInv'
<1> SUFFICES ASSUME NEW s \in Sends  PROVE Apart(s)' /\ Within(s)' /\ Covered(s)'
    BY DEF BytesInv
<1>1. Apart(s) /\ Within(s) /\ Covered(s)  BY DEF BytesInv
<1>2. AllBytes(s)' = AllBytes(s)  BY DEF AllBytes
<1>3. (cancel[s] => cancel'[s]) /\ (failed[s] => failed'[s])  BY FlagsStay
<1>4. CASE Quiet(s) /\ (stage'[s] = "sending" => stage[s] = "sending")
  <2>1. /\ QueueBytes(s)' = QueueBytes(s) /\ HeldBytes(s)' = HeldBytes(s)
        /\ SentBytes(s)' = SentBytes(s) /\ Apart(s)' /\ Within(s)'
        BY <1>1, <1>4, QuietBytes
  <2>2. Covered(s)'  BY <1>1, <1>2, <1>3, <1>4, <2>1 DEF Covered
  <2> QED BY <2>1, <2>2
<1>5. CASE Starts(s)  BY <1>5, StartBytes
<1>6. ASSUME NEW w \in Workers, Takes(s, w)  PROVE Apart(s)' /\ Within(s)' /\ Covered(s)'
  <2>1. PICK a \in Lanes :
          /\ queue[s][a] \in Seq(ChunkType) /\ queue[s][a] # <<>>
          /\ queue'[s][a] = Tail(queue[s][a])
          /\ \A b \in Lanes : b # a => queue'[s][b] = queue[s][b]
          /\ worker[s][w].at = "next" /\ worker'[s][w].at = "write"
          /\ worker'[s][w].chunk = Head(queue[s][a])
          /\ \A v \in Workers : v # w => worker'[s][v] = worker[s][v]
        BY <1>6, TakeMoves DEF Takes
  <2>2. written'[s] = written[s] /\ stage' = stage
        BY <1>6 DEF Takes, TakeChunk, sessVars
  <2> DEFINE q == queue[s][a]
  <2>3. /\ q \in Seq(ChunkType) /\ q # <<>> /\ queue[s][a] = q /\ queue'[s][a] = Tail(q)
        /\ worker'[s][w].chunk = Head(q)
        BY <2>1
  <2> HIDE DEF q
  <2>4. /\ Apart(s) => Apart(s)'
        /\ QueueBytes(s) \cup HeldBytes(s) = QueueBytes(s)' \cup HeldBytes(s)'
        /\ SentBytes(s)' = SentBytes(s)
        BY <2>1, <2>2, <2>3, TakeBytes
  <2>5. Within(s)'  BY <1>1, <1>2, <2>4 DEF Within
  <2>6. Covered(s)'  BY <1>1, <1>2, <1>3, <2>2, <2>4 DEF Covered
  <2> QED BY <1>1, <2>4, <2>5, <2>6
<1>7. ASSUME NEW w \in Workers, WriteChunk(s, w)  PROVE Apart(s)' /\ Within(s)' /\ Covered(s)'
  <2>1. stage' = stage  BY <1>7 DEF WriteChunk, sessVars
  <2>2. /\ Apart(s)' /\ Within(s)'
        /\ s \notin Shrinks => QueueBytes(s) \cup HeldBytes(s) \cup SentBytes(s)
                                  \subseteq QueueBytes(s)' \cup HeldBytes(s)' \cup SentBytes(s)'
        BY <1>1, <1>7, WriteBytes
  <2>3. Covered(s)'  BY <1>1, <1>2, <1>3, <2>1, <2>2 DEF Covered
  <2> QED BY <2>2, <2>3
<1>8. ASSUME NEW w \in Workers, WriteFails(s, w)  PROVE Apart(s)' /\ Within(s)' /\ Covered(s)'
  <2>1. Apart(s)' /\ Within(s)' /\ (failed'[s] \/ cancel'[s])  BY <1>1, <1>8, FailBytes
  <2> QED BY <2>1 DEF Covered
<1> QED BY <1>4, <1>5, <1>6, <1>7, <1>8, StepKinds DEF Moving

\* Every step keeps runSend and its workers together.
LEMMA NextStageInv ==
    ASSUME TypeOK, StageInv, [Next]_vars
    PROVE  StageInv'
<1>1. SessOK /\ WorkerOK /\ WorkOK /\ QueueOK  BY TypeParts DEF WorkOK
<1> DEFINE Early == {"new", "starting", "posting", "answered"}
           Late == {"clearing", "over"}
           Fine(s) == /\ stage'[s] \in Early =>
                            /\ written'[s] = <<>> /\ \A a \in Lanes : queue'[s][a] = <<>>
                            /\ \A w \in Workers : worker'[s][w].at = "off"
                      /\ stage'[s] \in Late =>
                            \A w \in Workers : worker'[s][w].at \in {"off", "gone"}
                      /\ stage'[s] \notin Late => reported'[s] = <<>>
<1>2. SUFFICES ASSUME NEW t \in Sends  PROVE Fine(t)  BY DEF StageInv
<1>3. /\ stage[t] \in Early =>
            /\ written[t] = <<>> /\ \A a \in Lanes : queue[t][a] = <<>>
            /\ \A w \in Workers : worker[t][w].at = "off"
      /\ stage[t] \in Late => \A w \in Workers : worker[t][w].at \in {"off", "gone"}
      /\ stage[t] \notin Late => reported[t] = <<>>
      BY DEF StageInv
<1>4. stage[t] \in Stages  BY <1>1 DEF SessOK
<1>5. ASSUME Moving(t), UNCHANGED reported  PROVE Fine(t)
  <2>1. CASE Starts(t)  BY <1>3, <1>5, <2>1 DEF Starts
  <2>2. ASSUME NEW w \in Workers, Takes(t, w) \/ WriteChunk(t, w) \/ WriteFails(t, w)
        PROVE  Fine(t)
    <3>1. worker[t][w].at \in {"next", "write"} /\ stage' = stage
          BY <2>2 DEF Takes, TakeChunk, WriteChunk, WriteFails, sessVars
    <3>2. stage[t] = "sending" /\ reported[t] = <<>>  BY <3>1, Working
    <3> QED BY <1>5, <3>1, <3>2
  <2> QED BY <1>5, <2>1, <2>2 DEF Moving
<1>6. ASSUME Quiet(t), UNCHANGED <<stage, reported>>  PROVE Fine(t)
  <2>1. \A w \in Workers : worker[t][w].at \in {"off", "gone"} =>
                              worker'[t][w].at = worker[t][w].at
        BY <1>6 DEF Quiet, Idles
  <2> QED BY <1>3, <1>6, <2>1 DEF Quiet
<1>7. ASSUME UNCHANGED stage, UNCHANGED reported  PROVE Fine(t)
  <2>1. Quiet(t) \/ Moving(t)  BY StepKinds
  <2> QED BY <1>5, <1>6, <1>7, <2>1
<1>8. ASSUME NEW s \in Sends, UNCHANGED workVars, UNCHANGED reported, NEW to \in Early \cup Late,
             stage' = [stage EXCEPT ![s] = to],
             stage[s] \in Early \/ (stage[s] \in Late /\ to \in Late)
      PROVE  Fine(t)
  <2>1. worker' = worker /\ queue' = queue /\ written' = written  BY <1>8 DEF workVars
  <2>2. stage'[t] = IF t = s THEN to ELSE stage[t]  BY <1>1, <1>8 DEF SessOK
  <2>3. CASE t = s  BY <1>3, <1>8, <2>1, <2>2, <2>3
  <2>4. CASE t # s  BY <1>3, <1>8, <2>1, <2>2, <2>4
  <2> QED BY <2>3, <2>4
<1>9. ASSUME NEW s \in Sends, UNCHANGED workVars, NEW state, Report(s, state),
             stage[s] \in Early \/ \A w \in Workers : worker[s][w].at = "gone"
      PROVE  Fine(t)
  <2>1. worker' = worker /\ queue' = queue /\ written' = written  BY <1>9 DEF workVars
  <2>2. /\ stage'[t] = IF t = s THEN "clearing" ELSE stage[t]
        /\ t # s => reported'[t] = reported[t]
        BY <1>1, <1>9 DEF SessOK, Report
  <2>3. CASE t = s  BY <1>3, <1>9, <2>1, <2>2, <2>3
  <2>4. CASE t # s  BY <1>3, <2>1, <2>2, <2>4
  <2> QED BY <2>3, <2>4
<1> HIDE DEF Early, Late, Fine
<1>10. ASSUME NEW s \in Sends, Send(s) \/ RunSend(s)  PROVE Fine(t)
  <2>1. CASE Send(s)
    <3>1. \/ stage' = [stage EXCEPT ![s] = "starting"]
          \/ stage' = [stage EXCEPT ![s] = "over"]
          BY <2>1 DEF Send
    <3>2. stage[s] \in Early /\ UNCHANGED workVars /\ UNCHANGED reported
          BY <2>1 DEF Send, Early
    <3>3. "starting" \in Early \cup Late /\ "over" \in Early \cup Late  BY DEF Early, Late
    <3> QED BY <1>8, <3>1, <3>2, <3>3
  <2>2. CASE StartPost(s) \/ PostAnswered(s)
    <3>1. \/ stage' = [stage EXCEPT ![s] = "posting"]
          \/ stage' = [stage EXCEPT ![s] = "answered"]
          BY <2>2 DEF StartPost, PostAnswered
    <3>2. stage[s] \in Early /\ UNCHANGED workVars /\ UNCHANGED reported
          BY <2>2 DEF StartPost, PostAnswered, Early
    <3>3. "posting" \in Early \cup Late /\ "answered" \in Early \cup Late  BY DEF Early, Late
    <3> QED BY <1>8, <3>1, <3>2, <3>3
  <2>3. CASE PostFailed(s)
    <3>1. stage[s] \in Early /\ UNCHANGED workVars  BY <2>3 DEF PostFailed, Early
    <3>2. \E state \in Outcomes : Report(s, state)  BY <2>3 DEF PostFailed, Outcomes
    <3> QED BY <1>9, <3>1, <3>2
  <2>4. CASE HandleAnswer(s) /\ ~(~cancel[s] /\ status[s] = 200 /\ BuildChunks(Sizes[s]) # <<>>)
    <3>1. stage[s] \in Early /\ UNCHANGED workVars  BY <2>4 DEF HandleAnswer, Early, workVars
    <3>2. \E state \in Outcomes : Report(s, state)  BY <2>4 DEF HandleAnswer, Outcomes
    <3> QED BY <1>9, <3>1, <3>2
  <2>5. CASE HandleAnswer(s) /\ ~cancel[s] /\ status[s] = 200 /\ BuildChunks(Sizes[s]) # <<>>
    <3>1. UNCHANGED reported /\ stage' = [stage EXCEPT ![s] = "sending"]
          BY <2>5 DEF HandleAnswer
    <3>2. CASE Moving(t)  BY <1>5, <3>1, <3>2
    <3>3. CASE ~Moving(t)
      <4>1. Quiet(t) /\ (stage'[t] = "sending" => stage[t] = "sending")  BY <3>3, StepKinds
      <4>2. stage'[t] = IF t = s THEN "sending" ELSE stage[t]  BY <1>1, <3>1 DEF SessOK
      <4>3. stage[s] = "answered"  BY <2>5 DEF HandleAnswer
      <4>4. stage'[t] = stage[t]  BY <4>1, <4>2, <4>3
      <4>5. \A w \in Workers : worker[t][w].at \in {"off", "gone"} =>
                                  worker'[t][w].at = worker[t][w].at
            BY <4>1 DEF Quiet, Idles
      <4> QED BY <1>3, <3>1, <4>1, <4>4, <4>5 DEF Fine, Quiet
    <3> QED BY <3>2, <3>3
  <2>6. CASE Join(s)
    <3>1. (\A w \in Workers : worker[s][w].at = "gone") /\ UNCHANGED workVars
          BY <2>6 DEF Join
    <3>2. \E state \in Outcomes : Report(s, state)  BY <2>6 DEF Join, Outcomes
    <3> QED BY <1>9, <3>1, <3>2
  <2>7. CASE ClearOutgoing(s)
    <3>1. "over" \in Late /\ "over" \in Early \cup Late /\ stage[s] \in Late
          BY <2>7 DEF ClearOutgoing, Late
    <3>2. stage' = [stage EXCEPT ![s] = "over"] /\ UNCHANGED workVars /\ UNCHANGED reported
          BY <2>7 DEF ClearOutgoing
    <3> QED BY <1>8, <3>1, <3>2
  <2> QED BY <1>10, <2>1, <2>2, <2>3, <2>4, <2>5, <2>6, <2>7 DEF RunSend
<1>11. ASSUME NEW s \in Sends, NEW w \in Workers, SendWorker(s, w)  PROVE Fine(t)
  <2>1. UNCHANGED stage /\ UNCHANGED reported
        BY <1>11 DEF SendWorker, Dial, WriteToken, TakeChunk, WriteChunk, WriteFails, sessVars
  <2> QED BY <1>7, <2>1
<1>12. ASSUME NEW k \in Callers, CancelOutgoing(k)  PROVE Fine(t)
  <2>1. UNCHANGED stage /\ UNCHANGED reported
        BY <1>12 DEF CancelOutgoing, Cancel, SetCancel, AbortHTTP, CloseConns, sessVars
  <2> QED BY <1>7, <2>1
<1>13. CASE RunCancel \/ UNCHANGED vars
  <2>1. UNCHANGED stage /\ UNCHANGED reported  BY <1>13 DEF RunCancel, vars, sessVars
  <2> QED BY <1>7, <2>1
<1> QED BY <1>10, <1>11, <1>12, <1>13 DEF Next

\* Every step keeps the reasons workers left for.
LEMMA NextGoneInv ==
    ASSUME TypeOK, GoneInv, StageInv, [Next]_vars
    PROVE  GoneInv'
<1> SUFFICES ASSUME NEW s \in Sends, NEW v \in Workers,
                    worker'[s][v].at = "gone", ~cancel'[s], ~failed'[s]
             PROVE  queue'[s].large = <<>> /\ (Reserved(s, v) \/ queue'[s].small = <<>>)
    BY DEF GoneInv, Reserved, Mixed
<1>1. ~cancel[s] /\ ~failed[s]  BY FlagsStay
<1>2. worker[s][v].at = "gone" => queue[s].large = <<>> /\ (Reserved(s, v) \/ queue[s].small = <<>>)
      BY <1>1 DEF GoneInv
<1>3. WorkerOK  BY TypeParts DEF WorkOK
<1>4. CASE Quiet(s)
  <2>1. queue'[s] = queue[s] /\ Idles(s, v)  BY <1>4 DEF Quiet
  <2>2. worker[s][v].at = "gone" \/ Lane(s, v) = "none"  BY <1>1, <2>1 DEF Idles
  <2>3. Lane(s, v) = "none" => queue[s].large = <<>> /\ (Reserved(s, v) \/ queue[s].small = <<>>)
        BY DEF Lane
  <2> QED BY <1>2, <2>1, <2>2, <2>3
<1>5. CASE Starts(s)  BY <1>5 DEF Starts
<1>6. ASSUME NEW w \in Workers, Takes(s, w)
      PROVE  queue'[s].large = <<>> /\ (Reserved(s, v) \/ queue'[s].small = <<>>)
  <2>1. PICK a \in Lanes :
          /\ queue[s][a] \in Seq(ChunkType) /\ queue[s][a] # <<>>
          /\ queue'[s][a] = Tail(queue[s][a])
          /\ \A b \in Lanes : b # a => queue'[s][b] = queue[s][b]
          /\ worker'[s][w].at = "write"
          /\ \A u \in Workers : u # w => worker'[s][u] = worker[s][u]
        BY <1>6, TakeMoves DEF Takes
  <2>2. v # w /\ worker[s][v].at = "gone"  BY <2>1
  <2>3. a = "small" /\ queue'[s]["large"] = queue[s]["large"] /\ queue[s]["small"] # <<>>
        BY <1>2, <2>1, <2>2 DEF Lanes
  <2> QED BY <1>2, <2>2, <2>3
<1>7. ASSUME NEW w \in Workers, WriteChunk(s, w)
      PROVE  queue'[s].large = <<>> /\ (Reserved(s, v) \/ queue'[s].small = <<>>)
  <2>1. queue' = queue /\ worker'[s][w].at = "next"
        /\ \A u \in Workers : u # w => worker'[s][u] = worker[s][u]
        BY <1>3, <1>7, StepTypes DEF WriteChunk, Ats
  <2> QED BY <1>2, <2>1
<1>8. ASSUME NEW w \in Workers, WriteFails(s, w)  PROVE FALSE
  <2>1. failed' = [failed EXCEPT ![s] = failed[s] \/ ~cancel[s]]  BY <1>8 DEF WriteFails
  <2>2. failed \in [Sends -> BOOLEAN]  BY TypeParts DEF StopOK
  <2> QED BY <1>1, <2>1, <2>2
<1> QED BY <1>4, <1>5, <1>6, <1>7, <1>8, StepKinds DEF Moving

\* When every worker is gone with no failure and no cancel, the connections have carried
\* the files: one worker at least drained both queues.
LEMMA JoinedWhole ==
    ASSUME BytesInv, GoneInv, NEW s \in Sends, s \notin Shrinks, stage[s] = "sending",
           ~cancel[s], ~failed[s], \A w \in Workers : worker[s][w].at = "gone"
    PROVE  SentBytes(s) = AllBytes(s)
<1>1. Streams \in Workers /\ ~Reserved(s, Streams)
  <2>1. Streams \in Nat /\ Streams >= 2  BY SenderConstants
  <2>2. ~(Streams <= ReservedLargeStreams(Streams))
    <3> DEFINE r == Streams \div 4
    <3>1. r \in Nat /\ r < Streams  BY <2>1
    <3> HIDE DEF r
    <3>2. ReservedLargeStreams(Streams) = LET m == IF r < 1 THEN 1 ELSE r
                                          IN  IF m >= Streams THEN Streams - 1 ELSE m
          BY <2>1 DEF ReservedLargeStreams, r
    <3> QED BY <2>1, <3>1, <3>2
  <2> QED BY <2>1, <2>2 DEF Workers, Reserved
<1>2. queue[s]["large"] = <<>> /\ queue[s]["small"] = <<>>  BY <1>1 DEF GoneInv
<1>3. QueueBytes(s) = {}  BY <1>2 DEF QueueBytes, Lanes
<1>4. HeldBytes(s) = {}
  <2>1. Holders(s) = {}  BY DEF Holders
  <2> QED BY <2>1 DEF HeldBytes
<1> QED BY <1>3, <1>4 DEF BytesInv, Covered, Within

\* Every step keeps what a report of success means.
LEMMA NextDoneInv ==
    ASSUME TypeOK, StageInv, BytesInv, GoneInv, DoneInv, [Next]_vars
    PROVE  DoneInv'
<1> SUFFICES ASSUME NEW t \in Sends, Reported(t, "completed")', t \notin Shrinks
             PROVE  SentBytes(t)' = AllBytes(t)
  <2>1. \A t \in Sends : AllBytes(t)' = AllBytes(t)  BY DEF AllBytes
  <2> QED BY <2>1 DEF DoneInv
<1>1. SessOK /\ WorkerOK /\ WorkOK  BY TypeParts DEF WorkOK
<1>2. reported'[t] = <<"completed">>  BY DEF Reported
<1>3. CASE UNCHANGED reported
  <2>1. reported[t] = <<"completed">>  BY <1>2, <1>3
  <2>2. SentBytes(t) = AllBytes(t)  BY <2>1 DEF DoneInv, Reported
  <2>3. CASE Quiet(t)  BY <2>2, <2>3, QuietBytes
  <2>4. CASE Starts(t)  BY <2>1, <2>4 DEF Starts, StageInv
  <2>5. ASSUME NEW w \in Workers, Takes(t, w) \/ WriteChunk(t, w) \/ WriteFails(t, w)
        PROVE  FALSE
    <3>1. worker[t][w].at \in {"next", "write"}
          BY <2>5 DEF Takes, TakeChunk, WriteChunk, WriteFails
    <3> QED BY <2>1, <3>1, Working
  <2> QED BY <2>3, <2>4, <2>5, StepKinds DEF Moving
<1>4. ASSUME NEW s \in Sends, NEW state, Report(s, state), written' = written,
             stage[s] \notin {"clearing", "over"},
             state = "completed" /\ s \notin Shrinks => SentBytes(s) = AllBytes(s)
      PROVE  SentBytes(t)' = AllBytes(t)
  <2>1. SentBytes(t)' = SentBytes(t)  BY <1>4 DEF SentBytes
  <2>2. CASE t = s
    <3>1. reported[s] = <<>>  BY <1>4 DEF StageInv
    <3>2. reported'[s] = <<state>>  BY <1>1, <1>4, <3>1 DEF SessOK, Report
    <3>3. state = "completed"  BY <1>2, <2>2, <3>2
    <3> QED BY <1>4, <2>1, <2>2, <3>3
  <2>3. CASE t # s
    <3>1. reported'[t] = reported[t]  BY <1>1, <1>4, <2>3 DEF SessOK, Report
    <3>2. SentBytes(t) = AllBytes(t)  BY <1>2, <3>1 DEF DoneInv, Reported
    <3> QED BY <2>1, <3>2
  <2> QED BY <2>2, <2>3
<1>5. ASSUME NEW s \in Sends, Send(s) \/ RunSend(s)  PROVE SentBytes(t)' = AllBytes(t)
  <2>1. CASE Send(s) \/ StartPost(s) \/ PostAnswered(s) \/ ClearOutgoing(s)
        BY <1>3, <2>1 DEF Send, StartPost, PostAnswered, ClearOutgoing
  <2>2. CASE PostFailed(s)
    <3>1. PICK state \in {"canceled", "failed"} : Report(s, state)  BY <2>2 DEF PostFailed
    <3>2. written' = written /\ stage[s] \notin {"clearing", "over"}
          BY <2>2 DEF PostFailed, workVars
    <3> QED BY <1>4, <3>1, <3>2
  <2>3. CASE HandleAnswer(s) /\ ~cancel[s] /\ status[s] = 200 /\ BuildChunks(Sizes[s]) # <<>>
        BY <1>3, <2>3 DEF HandleAnswer
  <2>4. CASE HandleAnswer(s) /\ ~(~cancel[s] /\ status[s] = 200 /\ BuildChunks(Sizes[s]) # <<>>)
    <3>1. PICK state \in Outcomes :
              Report(s, state) /\ (state = "completed" => ~cancel[s] /\ status[s] = 200)
          BY <2>4 DEF HandleAnswer, Outcomes
    <3>2. written' = written /\ stage[s] = "answered"  BY <2>4 DEF HandleAnswer
    <3>3. ASSUME state = "completed"  PROVE SentBytes(s) = AllBytes(s)
      <4>1. BuildChunks(Sizes[s]) = <<>>  BY <2>4, <3>1, <3>3
      <4>2. /\ Range(BuildChunks(Sizes[s])) = Pieces(Sizes[s])
            /\ UNION {Bytes(c) : c \in Pieces(Sizes[s])} = AllBytes(s)
            BY SenderConstants, Queues, PiecesWhole DEF AllBytes
      <4>3. Pieces(Sizes[s]) = {}  BY <4>1, <4>2 DEF Range
      <4>4. written[s] = <<>>  BY <3>2 DEF StageInv
      <4> QED BY <4>2, <4>3, <4>4 DEF SentBytes
    <3> QED BY <1>4, <3>1, <3>2, <3>3
  <2>5. CASE Join(s)
    <3>1. PICK state \in Outcomes :
              Report(s, state) /\ (state = "completed" => ~cancel[s] /\ ~failed[s])
          BY <2>5 DEF Join, Outcomes
    <3>2. /\ written' = written /\ stage[s] = "sending"
          /\ \A w \in Workers : worker[s][w].at = "gone"
          BY <2>5 DEF Join, workVars
    <3>3. state = "completed" /\ s \notin Shrinks => SentBytes(s) = AllBytes(s)
          BY <3>1, <3>2, JoinedWhole
    <3> QED BY <1>4, <3>1, <3>2, <3>3
  <2> QED BY <1>5, <2>1, <2>2, <2>3, <2>4, <2>5 DEF RunSend
<1>6. ASSUME NEW s \in Sends, NEW w \in Workers, SendWorker(s, w)  PROVE UNCHANGED reported
      BY <1>6 DEF SendWorker, Dial, WriteToken, TakeChunk, WriteChunk, WriteFails, sessVars
<1>7. ASSUME NEW k \in Callers, CancelOutgoing(k)  PROVE UNCHANGED reported
      BY <1>7 DEF CancelOutgoing, Cancel, SetCancel, AbortHTTP, CloseConns, sessVars
<1>8. CASE RunCancel \/ UNCHANGED vars  BY <1>3, <1>8 DEF RunCancel, vars, sessVars
<1> QED BY <1>3, <1>5, <1>6, <1>7, <1>8 DEF Next

\* Every step keeps the order of a CancelOutgoing: flag, request, connections.
LEMMA NextStopInv ==
    ASSUME TypeOK, StopInv, [Next]_vars
    PROVE  StopInv'
<1> SUFFICES ASSUME NEW k \in Callers, NEW t \in Sends, call'[k].of = t
             PROVE  /\ call'[k].at \in {"flagged", "aborted", "over"} => cancel'[t]
                    /\ call'[k].at = "over" => \A v \in Holders(t)' : worker'[t][v].conn # "open"
    BY DEF StopInv
<1>1. StopOK /\ CallOK /\ WorkerOK  BY TypeParts DEF WorkOK
<1>2. cancel[t] => cancel'[t]  BY FlagsStay
<1>3. ASSUME cancel[t], \A v \in Holders(t) : worker[t][v].conn # "open"
      PROVE  \A v \in Holders(t)' : worker'[t][v].conn # "open"
  <2>1. CASE Quiet(t)
    <3>1. \A v \in Holders(t)' : v \in Workers /\ worker'[t][v].at = "write"  BY DEF Holders
    <3>2. \A v \in Workers : worker'[t][v].at = "write" =>
             worker[t][v].at = "write" /\ worker'[t][v].conn \in {worker[t][v].conn, "closed"}
          BY <2>1 DEF Quiet, Idles
    <3> QED BY <1>3, <3>1, <3>2 DEF Holders
  <2>2. CASE Starts(t)  BY <2>2 DEF Starts, Holders
  <2>3. ASSUME NEW w \in Workers, WriteChunk(t, w) \/ WriteFails(t, w)
        PROVE  \A v \in Holders(t)' : worker'[t][v].conn # "open"
    <3>1. Step(t, w, "next") \/ Leave(t, w)  BY <2>3 DEF WriteChunk, WriteFails
    <3>2. worker'[t][w].at # "write" /\ \A v \in Workers : v # w => worker'[t][v] = worker[t][v]
          BY <1>1, <3>1, StepTypes, LeaveTypes DEF Ats
    <3> QED BY <1>3, <3>2 DEF Holders
  <2> QED BY <1>3, <2>1, <2>2, <2>3, StepKinds DEF Moving, Takes
<1>4. CASE call'[k] = call[k]
  <2>1. call[k].of = t  BY <1>4
  <2> QED BY <1>2, <1>3, <1>4, <2>1 DEF StopInv
<1>5. ASSUME NEW j \in Callers, CancelOutgoing(j)
      PROVE  /\ call'[k].at \in {"flagged", "aborted", "over"} => cancel'[t]
             /\ call'[k].at = "over" => \A v \in Holders(t)' : worker'[t][v].conn # "open"
  <2>1. CASE k # j
    <3>1. call'[k] = call[k]
          BY <1>1, <1>5, <2>1
          DEF CancelOutgoing, Cancel, SetCancel, AbortHTTP, CloseConns, Proceed, CallOK
    <3> QED BY <1>4, <3>1
  <2>2. CASE k = j /\ Cancel(j)
    <3>1. call'[k] = [at |-> IF outgoing = None THEN "over" ELSE "found", of |-> outgoing]
          BY <1>1, <2>2 DEF Cancel, CallOK
    <3>2. outgoing = t /\ t # None  BY <3>1, SenderConstants
    <3> QED BY <3>1, <3>2
  <2>3. CASE k = j /\ (SetCancel(j) \/ AbortHTTP(j) \/ CloseConns(j))
    <3>1. /\ call[k].of = t
          /\ \/ SetCancel(j) /\ call[k].at = "found" /\ call'[k].at = "flagged"
             \/ AbortHTTP(j) /\ call[k].at = "flagged" /\ call'[k].at = "aborted"
             \/ CloseConns(j) /\ call[k].at = "aborted" /\ call'[k].at = "over"
          BY <1>1, <2>3 DEF SetCancel, AbortHTTP, CloseConns, Proceed, CallOK
    <3>2. CASE SetCancel(j)
      <4>1. cancel'[t]  BY <1>1, <2>3, <3>1, <3>2 DEF SetCancel, StopOK
      <4>2. call'[k].at = "flagged"  BY <2>3, <3>1, <3>2 DEF SetCancel
      <4> QED BY <4>1, <4>2
    <3>3. CASE AbortHTTP(j)  BY <1>2, <2>3, <3>1, <3>3 DEF StopInv, AbortHTTP
    <3>4. CASE CloseConns(j)
      <4>1. cancel'[t]  BY <1>2, <2>3, <3>1, <3>4 DEF StopInv, CloseConns
      <4>2. \A v \in Workers :
               worker'[t][v] = IF worker[t][v].conn = "open"
                               THEN [worker[t][v] EXCEPT !.conn = "closed"] ELSE worker[t][v]
            BY <1>1, <2>3, <3>1, <3>4 DEF CloseConns, WorkerOK
      <4>3. \A v \in Workers : worker[t][v] \in WorkerType  BY <1>1 DEF WorkerOK
      <4>4. \A v \in Workers : worker'[t][v].conn # "open"  BY <4>2, <4>3 DEF WorkerType
      <4> QED BY <4>1, <4>4 DEF Holders
    <3> QED BY <2>3, <3>2, <3>3, <3>4
  <2> QED BY <1>5, <2>1, <2>2, <2>3 DEF CancelOutgoing
<1>6. ASSUME NEW s \in Sends, Send(s) \/ RunSend(s)  PROVE call' = call
      BY <1>6 DEF RunSend, Send, StartPost, PostAnswered, PostFailed, HandleAnswer, Join,
                  ClearOutgoing, callVars
<1>7. ASSUME NEW s \in Sends, NEW w \in Workers, SendWorker(s, w)  PROVE call' = call
      BY <1>7 DEF SendWorker, Dial, WriteToken, TakeChunk, WriteChunk, WriteFails, callVars
<1>8. CASE RunCancel \/ UNCHANGED vars  BY <1>4, <1>8 DEF RunCancel, vars, callVars
<1> QED BY <1>4, <1>5, <1>6, <1>7, <1>8 DEF Next

\* The invariant is inductive.
LEMMA NextSendInv == SendInv /\ [Next]_vars => SendInv'
BY NextTypes, NextStageInv, NextBytesInv, NextGoneInv, NextDoneInv, NextStopInv DEF SendInv

(***************************************************************************)
(* What follows from it                                                    *)
(***************************************************************************)

\* The bytes of a session wait, are held or were sent, never two of these at once, and
\* until a failure or a cancel together they are the files (buildChunks, sendStream,
\* writeChunk, CancelOutgoing).
THEOREM SenderInvariant == Spec => []SendInv
BY InitSendInv, NextSendInv, PTL DEF Spec

\* "completed" is reported only when the parallel streams carried every byte of every file
\* as it was listed, and no byte twice (runSend's wg.Wait, sendStream, writeChunk).
THEOREM SenderCompletedSent == Spec => []CompletedSent
<1>1. SendInv => CompletedSent
  <2> SUFFICES ASSUME SendInv, NEW s \in Sends, Reported(s, "completed")
               PROVE  /\ s \notin Shrinks => SentBytes(s) = AllBytes(s)
                      /\ \A i, j \in DOMAIN written[s] :
                            i # j => Bytes(written[s][i]) \cap Bytes(written[s][j]) = {}
      BY DEF CompletedSent, SentBytes
  <2>1. s \notin Shrinks => SentBytes(s) = AllBytes(s)  BY DEF SendInv, DoneInv
  <2>2. SentApart(s)  BY DEF SendInv, BytesInv, Apart
  <2> QED BY <2>1, <2>2 DEF SentApart, Disjoint
<1> QED BY <1>1, SenderInvariant, PTL

\* After CancelOutgoing returned, nothing more is written for its session: a worker that
\* holds a chunk has a closed connection, the others see the flag (CancelOutgoing,
\* closeConns, sendStream).
THEOREM SenderNothingAfterCancel == Spec => NothingAfterCancel
<1>1. SendInv /\ [Next]_vars => [\A s \in Sends : Stopped(s) => UNCHANGED written[s]]_vars
  <2> SUFFICES ASSUME SendInv, [Next]_vars, NEW s \in Sends, Stopped(s)
               PROVE  written'[s] = written[s]
      OBVIOUS
  <2>1. TypeOK /\ StageInv /\ StopInv  BY DEF SendInv
  <2>2. \A v \in Holders(s) : worker[s][v].conn # "open"  BY <2>1 DEF Stopped, StopInv
  <2>3. ASSUME NEW w \in Workers, WriteChunk(s, w)  PROVE FALSE
        BY <2>2, <2>3 DEF WriteChunk, Holders
  <2>4. ASSUME NEW w \in Workers, Takes(s, w) \/ WriteFails(s, w)  PROVE written'[s] = written[s]
        BY <2>4 DEF Takes, TakeChunk, WriteFails
  <2> QED BY <2>1, <2>3, <2>4, StepKinds DEF Moving, Starts, Quiet
<1> QED BY <1>1, SenderInvariant, PTL DEF Spec, NothingAfterCancel

\* The cancel was heard before the send was judged.
Heard(s) ==
    cancel[s] /\ \/ stage[s] \in Undecided /\ reported[s] = <<>>
                 \/ stage[s] \in {"clearing", "over"} /\ reported[s] \in {<<>>, <<"canceled">>}

\* And it stays heard.
LEMMA HeardStays ==
    ASSUME NEW t \in Sends
    PROVE  SendInv /\ Heard(t) /\ [Next]_vars => Heard(t)'
<1> SUFFICES ASSUME SendInv, Heard(t), [Next]_vars  PROVE Heard(t)'  OBVIOUS
<1>1. TypeOK /\ StageInv /\ SessOK  BY TypeParts DEF SendInv
<1>2. cancel[t] /\ cancel'[t]  BY <1>1, FlagsStay DEF Heard
<1>3. CASE stage'[t] = stage[t] /\ reported'[t] = reported[t]  BY <1>2, <1>3 DEF Heard
<1>4. ASSUME NEW s \in Sends, Send(s) \/ RunSend(s)  PROVE Heard(t)'
  <2>1. CASE t # s
    <3>1. stage'[t] = stage[t] /\ reported'[t] = reported[t]
          BY <1>1, <1>4, <2>1 DEF RunSend, Send, StartPost, PostAnswered, PostFailed,
             HandleAnswer, Join, ClearOutgoing, Report, SessOK
    <3> QED BY <1>3, <3>1
  <2>2. CASE t = s
    <3>1. stage[s] \in Undecided \cup {"clearing", "over"} /\ cancel[s]
          BY <1>2, <2>2 DEF Heard
    <3>2. \/ StartPost(s) \/ PostAnswered(s) \/ PostFailed(s)
          \/ HandleAnswer(s) \/ Join(s) \/ ClearOutgoing(s)
          BY <1>4, <3>1 DEF RunSend, Send, Undecided
    <3>3. CASE PostFailed(s) \/ HandleAnswer(s) \/ Join(s)
      <4>1. Report(s, "canceled") /\ stage[s] \in Undecided
            BY <3>1, <3>3 DEF PostFailed, HandleAnswer, Join, Undecided
      <4>2. reported[s] = <<>>  BY <2>2, <4>1 DEF Heard, Undecided
      <4>3. stage'[s] = "clearing" /\ reported'[s] = <<"canceled">>
            BY <1>1, <4>1, <4>2 DEF Report, SessOK
      <4> QED BY <1>2, <2>2, <4>3 DEF Heard
    <3>5. CASE StartPost(s) \/ PostAnswered(s)
      <4>1. /\ stage[s] \in {"starting", "posting"} /\ stage'[s] \in {"posting", "answered"}
            /\ reported' = reported
            BY <1>1, <3>5 DEF StartPost, PostAnswered, SessOK
      <4> QED BY <1>2, <2>2, <4>1 DEF Heard, Undecided
    <3>4. CASE ClearOutgoing(s)
      <4>1. stage[s] = "clearing" /\ stage'[s] = "over" /\ reported' = reported
            BY <1>1, <3>4 DEF ClearOutgoing, SessOK
      <4> QED BY <1>2, <2>2, <4>1 DEF Heard
    <3> QED BY <3>2, <3>3, <3>4, <3>5
  <2> QED BY <2>1, <2>2
<1>5. ASSUME NEW s \in Sends, NEW w \in Workers, SendWorker(s, w)
      PROVE  UNCHANGED <<stage, reported>>
      BY <1>5 DEF SendWorker, Dial, WriteToken, TakeChunk, WriteChunk, WriteFails, sessVars
<1>6. ASSUME NEW k \in Callers, CancelOutgoing(k)  PROVE UNCHANGED <<stage, reported>>
      BY <1>6 DEF CancelOutgoing, Cancel, SetCancel, AbortHTTP, CloseConns, sessVars
<1>7. CASE RunCancel \/ UNCHANGED vars  BY <1>3, <1>7 DEF RunCancel, vars, sessVars
<1> QED BY <1>3, <1>4, <1>5, <1>6, <1>7 DEF Next

\* A cancel that comes before the request is judged or the workers are joined is the only
\* end that is reported (runSend's checks of sess.canceled before err, status and sess.err).
THEOREM SenderCancelHeard == Spec => CancelHeard
<1> SUFFICES ASSUME NEW s \in Sends
             PROVE  Spec => [](cancel[s] /\ stage[s] \in Undecided
                               => [](reported[s] \in {<<>>, <<"canceled">>}))
    BY DEF CancelHeard
<1>1. SendInv /\ cancel[s] /\ stage[s] \in Undecided => Heard(s)
      BY DEF SendInv, StageInv, Heard, Undecided
<1>2. Heard(s) => reported[s] \in {<<>>, <<"canceled">>}  BY DEF Heard
<1>3. SendInv /\ Heard(s) /\ [Next]_vars => Heard(s)'  BY HeardStays
<1> QED BY <1>1, <1>2, <1>3, SenderInvariant, PTL DEF Spec
=============================================================================
