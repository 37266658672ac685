----------------------------- MODULE TextProofs -----------------------------
(***************************************************************************)
(* Facts about texts, for the modules that prove something of what is done *)
(* to a text piece by piece.                                               *)
(*                                                                         *)
(* FlattenSeq folds: what it does on every sequence follows from the       *)
(* partial flattenings (FlattenIs), whose properties are proved by a least *)
(* counterexample.  Pieces that are the parts of a text, in order and      *)
(* without a gap, flatten to the text (Cover).                             *)
(***************************************************************************)
EXTENDS Integers, Sequences, SequencesExt, SequenceTheorems, WellFoundedInduction, TLAPS

\* A set of numbers that is not empty has a least one.
LEMMA SmallestOf ==
    ASSUME NEW S \in SUBSET Nat, S # {}
    PROVE  \E x \in S : \A y \in S : x <= y
<1>1. IsWellFoundedOn(OpToRel(<, Nat), Nat)
  BY NatLessThanWellFounded
<1>2. PICK x \in S : \A y \in S : ~(<<y, x>> \in OpToRel(<, Nat))
  BY <1>1, WFMin, Zenon
<1>3. \A y \in S : ~(y < x)
  BY <1>2 DEF OpToRel
<1> QED
  BY <1>3

\* The partial flattenings of ss, up to k.
Body(ss, f, i) == IF i = 1 THEN ss[i] ELSE f[i - 1] \o ss[i]
Partial(ss, k, f) == f = [i \in 1..k |-> Body(ss, f, i)]

\* Every sequence of pieces has its partial flattenings.
LEMMA PartialExists ==
    ASSUME NEW ss, NEW n \in Nat
    PROVE  \E f : Partial(ss, n, f)
<1> DEFINE Bad == {k \in Nat : ~\E f : Partial(ss, k, f)}
<1>1. Bad = {}
  <2> SUFFICES ASSUME Bad # {} PROVE FALSE
    OBVIOUS
  <2>1. PICK k \in Bad : \A m \in Bad : k <= m
    BY SmallestOf, Bad \in SUBSET Nat
  <2>2. k # 0
    <3>1. Partial(ss, 0, [i \in 1..0 |-> Body(ss, <<>>, i)])
      BY DEF Partial
    <3> QED
      BY <2>1, <3>1
  <2>3. k \in Nat /\ k - 1 \in Nat
    BY <2>1, <2>2
  <2>4. PICK f : Partial(ss, k - 1, f)
    BY <2>1, <2>3
  <2> DEFINE g == [i \in 1..k |-> IF i = k THEN Body(ss, f, i) ELSE f[i]]
  <2>5. \A i \in 1..k : g[i] = Body(ss, g, i)
    <3> SUFFICES ASSUME NEW i \in 1..k PROVE g[i] = Body(ss, g, i)
      OBVIOUS
    <3>1. CASE i = k
      <4>1. i # 1 => g[i - 1] = f[i - 1]
        BY <3>1, <2>3
      <4> QED
        BY <3>1, <4>1 DEF Body
    <3>2. CASE i # k
      <4>1. i # 1 => g[i - 1] = f[i - 1]
        BY <3>2, <2>3
      <4>2. f[i] = Body(ss, f, i)
        BY <3>2, <2>3, <2>4 DEF Partial
      <4> QED
        BY <3>2, <4>1, <4>2 DEF Body
    <3> QED
      BY <3>1, <3>2
  <2>6. Partial(ss, k, g)
    BY <2>5 DEF Partial
  <2> QED
    BY <2>1, <2>6
<1> QED
  BY <1>1

\* Where two sequences of pieces agree, so do their partial flattenings.
LEMMA PartialUnique ==
    ASSUME NEW ss, NEW tt, NEW n \in Nat, NEW m \in Nat, NEW f, NEW g,
           Partial(ss, n, f), Partial(tt, m, g), NEW k \in Nat, k <= n, k <= m,
           \A i \in 1..k : ss[i] = tt[i]
    PROVE  \A i \in 1..k : f[i] = g[i]
<1> DEFINE Bad == {i \in 1..k : f[i] # g[i]}
<1> SUFFICES ASSUME Bad # {} PROVE FALSE
  OBVIOUS
<1>1. PICK i \in Bad : \A j \in Bad : i <= j
  BY SmallestOf, Bad \in SUBSET Nat
<1>2. i \in 1..n /\ i \in 1..m
  BY <1>1
<1> HIDE DEF Bad
<1>4. f[i] = Body(ss, f, i)
  BY <1>2 DEF Partial
<1>5. g[i] = Body(tt, g, i)
  BY <1>2 DEF Partial
<1>3. i # 1 => f[i - 1] = g[i - 1]
  BY <1>1 DEF Bad
<1> QED
  BY <1>1, <1>2, <1>3, <1>4, <1>5 DEF Body, Bad

\* The fold of FlattenSeq ends in the last partial flattening.
LEMMA FlattenIsPartial ==
    ASSUME NEW ss, Len(ss) \in Nat, Len(ss) # 0, NEW f, Partial(ss, Len(ss), f)
    PROVE  FlattenSeq(ss) = f[Len(ss)]
<1> DEFINE P(x) == x = [i \in 1..Len(ss) |-> IF i = 1 THEN ss[i] ELSE x[i-1] \o ss[i]]
<1> DEFINE g == CHOOSE x : P(x)
<1>1. FlattenSeq(ss) = g[Len(ss)]
  BY DEF FlattenSeq
<1>2. P(f)
  BY DEF Partial, Body
<1>3. P(g)
  BY <1>2
<1>4. Partial(ss, Len(ss), g)
  BY <1>3 DEF Partial, Body
<1> HIDE DEF g, P
<1> PICK n \in Nat : n = Len(ss)
  OBVIOUS
<1>5. Partial(ss, n, f) /\ Partial(ss, n, g) /\ n <= n /\ \A i \in 1..n : ss[i] = ss[i]
  BY <1>4
<1>6. \A i \in 1..n : f[i] = g[i]
  BY <1>5, PartialUnique
<1> QED
  BY <1>1, <1>6

-----------------------------------------------------------------------------
\* f is how the flattening of ss grows, piece by piece, up to n.
Grows(f, ss, n) ==
    /\ f[0] = <<>>
    /\ \A i \in 1..n : f[i] = f[i - 1] \o ss[i]

\* What grows piece by piece is the flattening in the end.
LEMMA FlattenIs ==
    ASSUME NEW S, NEW ss \in Seq(Seq(S)), NEW n \in Nat, n = Len(ss), NEW f, Grows(f, ss, n)
    PROVE  FlattenSeq(ss) = f[n]
<1>1. CASE n = 0
  <2>1. FlattenSeq(ss) = ss
    BY <1>1 DEF FlattenSeq
  <2>2. ss = <<>>
    BY <1>1, EmptySeq
  <2> QED
    BY <1>1, <2>1, <2>2 DEF Grows
<1>2. CASE n # 0
  <2> DEFINE g == [i \in 1..n |-> f[i]]
  <2>1. \A i \in 1..n : g[i] = f[i] /\ f[i] = f[i - 1] \o ss[i]
    BY DEF Grows
  <2>2. \A i \in 1..n : i # 1 => g[i - 1] = f[i - 1]
    OBVIOUS
  <2>3. g = [i \in 1..n |-> g[i]]
    OBVIOUS
  <2> HIDE DEF g
  <2>4. \A i \in 1..n : g[i] = Body(ss, g, i)
    <3> SUFFICES ASSUME NEW i \in 1..n PROVE g[i] = Body(ss, g, i)
      OBVIOUS
    <3>1. CASE i = 1
      <4>1. ss[1] \in Seq(S)
        BY <1>2
      <4>2. <<>> \o ss[1] = ss[1]
        BY <4>1, ConcatEmptySeq
      <4>3. 1 \in 1..n /\ 1 - 1 = 0 /\ f[0] = <<>>
        BY <1>2 DEF Grows
      <4>5. f[1] = <<>> \o ss[1]
        BY <2>1, <4>3
      <4>4. g[1] = ss[1]
        BY <2>1, <4>2, <4>3, <4>5
      <4> QED
        BY <3>1, <4>4 DEF Body
    <3>2. CASE i # 1
      BY <2>1, <2>2, <3>2 DEF Body
    <3> QED
      BY <3>1, <3>2
  <2>5. Partial(ss, n, g)
    BY <2>3, <2>4 DEF Partial
  <2>6. FlattenSeq(ss) = g[n]
    BY <1>2, <2>5, FlattenIsPartial
  <2>7. n \in 1..n
    BY <1>2
  <2> QED
    BY <2>1, <2>6, <2>7
<1> QED
  BY <1>1, <1>2

\* It does grow so, within the sequences over the same set.
LEMMA FlattenGrows ==
    ASSUME NEW S, NEW ss \in Seq(Seq(S)), NEW n \in Nat, n = Len(ss)
    PROVE  \E f : Grows(f, ss, n) /\ \A i \in 0..n : f[i] \in Seq(S)
<1>1. PICK g : Partial(ss, n, g)
  BY PartialExists
<1> DEFINE f == [i \in 0..n |-> IF i = 0 THEN <<>> ELSE g[i]]
<1>2. \A i \in 1..n : ss[i] \in Seq(S) /\ <<>> \o ss[i] = ss[i]
  BY ConcatEmptySeq
<1>3. \A i \in 1..n : f[i] = g[i] /\ g[i] = Body(ss, g, i)
  <2>1. \A i \in 1..n : f[i] = g[i]
    OBVIOUS
  <2>2. \A i \in 1..n : g[i] = Body(ss, g, i)
    BY <1>1 DEF Partial
  <2> QED
    BY <2>1, <2>2
<1>4. \A i \in 1..n : i # 1 => f[i - 1] = g[i - 1]
  OBVIOUS
<1>5. f[0] = <<>> /\ f = [i \in 0..n |-> f[i]]
  OBVIOUS
<1> HIDE DEF f
<1>6. \A i \in 1..n : f[i] = f[i - 1] \o ss[i]
  <2> SUFFICES ASSUME NEW i \in 1..n PROVE f[i] = f[i - 1] \o ss[i]
    OBVIOUS
  <2>1. CASE i = 1
    <3>1. f[1] = ss[1] /\ <<>> \o ss[1] = ss[1]
      BY <1>2, <1>3, <2>1 DEF Body
    <3> QED
      BY <1>5, <2>1, <3>1
  <2>2. CASE i # 1
    BY <1>3, <1>4, <2>2 DEF Body
  <2> QED
    BY <2>1, <2>2
<1>7. \A i \in 0..n : f[i] \in Seq(S)
  <2> DEFINE Bad == {i \in 0..n : f[i] \notin Seq(S)}
  <2> SUFFICES ASSUME Bad # {} PROVE FALSE
    OBVIOUS
  <2>1. PICK i \in Bad : \A j \in Bad : i <= j
    BY SmallestOf, Bad \in SUBSET Nat
  <2>2. <<>> \in Seq(S)
    OBVIOUS
  <2>3. i # 0
    BY <1>5, <2>1, <2>2
  <2>4. i \in 1..n /\ i - 1 \in 0..n /\ ~(i <= i - 1)
    BY <2>1, <2>3
  <2>5. f[i - 1] \in Seq(S)
    BY <2>1, <2>4
  <2>6. f[i] = f[i - 1] \o ss[i] /\ ss[i] \in Seq(S)
    BY <1>2, <1>6, <2>4
  <2>7. f[i] \in Seq(S)
    BY <2>5, <2>6, ConcatProperties
  <2> QED
    BY <2>1, <2>7
<1> QED
  BY <1>5, <1>6, <1>7 DEF Grows

\* Flattened pieces over S are a sequence over S.
LEMMA FlattenType ==
    ASSUME NEW S, NEW ss \in Seq(Seq(S))
    PROVE  FlattenSeq(ss) \in Seq(S)
<1> PICK n \in Nat : n = Len(ss)
  OBVIOUS
<1>1. PICK f : Grows(f, ss, n) /\ \A i \in 0..n : f[i] \in Seq(S)
  BY FlattenGrows
<1> QED
  BY <1>1, FlattenIs

\* Flattening distributes over a concatenation of pieces.
LEMMA FlattenConcat ==
    ASSUME NEW S, NEW ss \in Seq(Seq(S)), NEW tt \in Seq(Seq(S))
    PROVE  FlattenSeq(ss \o tt) = FlattenSeq(ss) \o FlattenSeq(tt)
<1>1. PICK n \in Nat : n = Len(ss)
  OBVIOUS
<1>2. PICK m \in Nat : m = Len(tt)
  OBVIOUS
<1>3. PICK f : Grows(f, ss, n) /\ \A i \in 0..n : f[i] \in Seq(S)
  BY <1>1, FlattenGrows
<1>4. PICK g : Grows(g, tt, m) /\ \A i \in 0..m : g[i] \in Seq(S)
  BY <1>2, FlattenGrows
<1>5. n \in 0..n /\ m \in 0..m /\ 0 \in 0..m
  BY <1>1, <1>2
<1>6. PICK a \in Seq(S) : a = f[n]
  BY <1>3, <1>5
<1>7. \A i \in 0..m : g[i] \in Seq(S)
  BY <1>4
<1>8. a \o g[0] = a
  BY <1>4, <1>6, ConcatEmptySeq DEF Grows
<1>9. ASSUME NEW i \in 1..m PROVE a \o g[i] = (a \o g[i - 1]) \o tt[i]
  <2>1. i - 1 \in 0..m
    BY <1>2
  <2>2. PICK b \in Seq(S) : b = g[i - 1]
    BY <1>7, <2>1
  <2>3. PICK c \in Seq(S) : c = tt[i]
    BY <1>2
  <2>4. g[i] = b \o c
    BY <1>4, <2>2, <2>3 DEF Grows
  <2>5. a \in Seq(S) /\ b \in Seq(S) /\ c \in Seq(S)
    BY <1>6, <2>2, <2>3
  <2>6. (a \o b) \o c = a \o (b \o c)
    BY <2>5, ConcatAssociative, SMTT(40)
  <2>7. a \o g[i] = a \o (b \o c) /\ (a \o g[i - 1]) \o tt[i] = (a \o b) \o c
    BY <2>2, <2>3, <2>4
  <2> QED
    BY <2>6, <2>7
<1> DEFINE h == [i \in 0..(n + m) |-> IF i <= n THEN f[i] ELSE a \o g[i - n]]
<1>10. \A i \in 0..n : h[i] = f[i]
  BY <1>1, <1>2
<1>11. \A i \in 0..m : h[n + i] = a \o g[i]
  <2>1. ASSUME NEW i \in 1..m PROVE h[n + i] = a \o g[i]
    <3>1. n + i \in 0..(n + m) /\ ~(n + i <= n) /\ (n + i) - n = i
      BY <1>1, <1>2
    <3> QED
      BY <3>1
  <2>2. h[n + 0] = a
    BY <1>1, <1>2, <1>6
  <2>3. n + 0 = n /\ \A i \in 0..m : i = 0 \/ i \in 1..m
    BY <1>1, <1>2
  <2> QED
    BY <1>8, <2>1, <2>2, <2>3
<1> HIDE DEF h
<1>12. PICK both : both = ss \o tt
  OBVIOUS
<1>13. both \in Seq(Seq(S)) /\ Len(both) = n + m
  BY <1>1, <1>2, <1>12, ConcatProperties
<1>14. /\ \A i \in 1..n : both[i] = ss[i]
       /\ \A i \in 1..m : both[n + i] = tt[i]
  BY <1>1, <1>2, <1>12, ConcatProperties
<1>15. ASSUME NEW i \in 1..(n + m) PROVE h[i] = h[i - 1] \o both[i]
  <2>0. i \in Int /\ n \in Int
    BY <1>1, <1>2
  <2>1. CASE i <= n
    <3>1. i \in 1..n /\ i \in 0..n /\ i - 1 \in 0..n
      BY <1>1, <1>2, <2>1
    <3>2. f[i] = f[i - 1] \o ss[i]
      BY <1>3, <3>1 DEF Grows
    <3>3. h[i] = f[i] /\ h[i - 1] = f[i - 1] /\ both[i] = ss[i]
      BY <1>10, <1>14, <3>1
    <3> QED
      BY <3>2, <3>3
  <2>2. CASE i > n
    <3>1. i - n \in 1..m /\ i = n + (i - n)
      BY <1>1, <1>2, <2>2
    <3>2. PICK k \in 1..m : i = n + k
      BY <3>1
    <3>3. k \in 0..m /\ k - 1 \in 0..m /\ i - 1 = n + (k - 1)
      BY <1>1, <1>2, <3>2
    <3>4. h[n + k] = a \o g[k] /\ h[n + (k - 1)] = a \o g[k - 1]
      BY <1>11, <3>3
    <3>5. both[i] = tt[k]
      BY <1>14, <3>2
    <3>6. a \o g[k] = (a \o g[k - 1]) \o tt[k]
      BY <1>9
    <3>7. h[i] = a \o g[k] /\ h[i - 1] = a \o g[k - 1]
      BY <3>2, <3>3, <3>4
    <3> QED
      BY <3>5, <3>6, <3>7
  <2>3. i <= n \/ i > n
    BY <2>0
  <2> QED
    BY <2>1, <2>2, <2>3, Zenon
<1>16. Grows(h, both, n + m)
  <2>1. 0 \in 0..n
    BY <1>1
  <2>2. h[0] = <<>>
    BY <1>3, <1>10, <2>1 DEF Grows
  <2> QED
    BY <1>15, <2>2 DEF Grows
<1>17. PICK l \in Nat : l = n + m
  BY <1>1, <1>2
<1>18. FlattenSeq(both) = h[l]
  BY <1>13, <1>16, <1>17, FlattenIs
<1>19. FlattenSeq(ss) = a /\ FlattenSeq(tt) = g[m]
  BY <1>1, <1>2, <1>3, <1>4, <1>6, FlattenIs
<1>20. h[n + m] = a \o g[m]
  BY <1>5, <1>11
<1> QED
  BY <1>12, <1>17, <1>18, <1>19, <1>20

\* No pieces, no text.
LEMMA FlattenEmpty == FlattenSeq(<<>>) = <<>>
  BY DEF FlattenSeq

\* One piece is itself.
LEMMA FlattenOne ==
    ASSUME NEW S, NEW s \in Seq(S)
    PROVE  FlattenSeq(<<s>>) = s
<1> DEFINE f == [i \in 0..1 |-> IF i = 0 THEN <<>> ELSE s]
<1>1. <<>> \o s = s
  BY ConcatEmptySeq
<1>2. Grows(f, <<s>>, 1) /\ <<s>> \in Seq(Seq(S)) /\ f[1] = s /\ Len(<<s>>) = 1
  BY <1>1 DEF Grows
<1> HIDE DEF f
<1> PICK ss : ss = <<s>>
  OBVIOUS
<1> PICK n \in Nat : n = 1
  OBVIOUS
<1>3. FlattenSeq(ss) = f[n]
  BY <1>2, FlattenIs
<1> QED
  BY <1>2, <1>3

\* What is in the flattening is in one of the pieces.
LEMMA FlattenFrom ==
    ASSUME NEW S, NEW ss \in Seq(Seq(S)), NEW j \in DOMAIN FlattenSeq(ss)
    PROVE  \E i \in DOMAIN ss : \E k \in DOMAIN ss[i] : FlattenSeq(ss)[j] = ss[i][k]
<1> PICK n \in Nat : n = Len(ss)
  OBVIOUS
<1>1. PICK f : Grows(f, ss, n) /\ \A i \in 0..n : f[i] \in Seq(S)
  BY FlattenGrows
<1> DEFINE In(x) == \E i \in 1..n : \E k \in DOMAIN ss[i] : x = ss[i][k]
<1> DEFINE Bad == {i \in 0..n : \E x \in DOMAIN f[i] : ~In(f[i][x])}
<1>2. Bad = {}
  <2> SUFFICES ASSUME Bad # {} PROVE FALSE
    OBVIOUS
  <2>1. PICK i \in Bad : \A x \in Bad : i <= x
    BY SmallestOf, Bad \in SUBSET Nat
  <2>2. f[0] = <<>>
    BY <1>1 DEF Grows
  <2>3. DOMAIN f[0] = {}
    BY <2>2
  <2>4. i \in 0..n /\ i # 0
    BY <2>1, <2>3
  <2>5. i \in 1..n /\ i - 1 \in 0..n /\ ~(i <= i - 1)
    BY <2>4
  <2>6. i - 1 \notin Bad
    BY <2>1, <2>5
  <2>7. PICK a \in Seq(S) : a = f[i - 1]
    BY <1>1, <2>5
  <2>8. PICK b \in Seq(S) : b = ss[i]
    BY <2>5
  <2>9. f[i] = a \o b
    BY <1>1, <2>5, <2>7, <2>8 DEF Grows
  <2>10. PICK x \in DOMAIN f[i] : ~In(f[i][x])
    BY <2>1
  <2>11. x \in 1..(Len(a) + Len(b))
    BY <2>9, <2>10
  <2>12. CASE x <= Len(a)
    <3>1. x \in DOMAIN a /\ f[i][x] = a[x]
      BY <2>9, <2>11, <2>12
    <3>2. In(a[x])
      BY <2>5, <2>6, <2>7, <3>1
    <3> QED
      BY <2>10, <3>1, <3>2
  <2>13. CASE x > Len(a)
    <3>1. x - Len(a) \in DOMAIN b /\ f[i][x] = b[x - Len(a)]
      BY <2>9, <2>11, <2>13
    <3>2. In(b[x - Len(a)])
      BY <2>5, <2>8, <3>1
    <3> QED
      BY <2>10, <3>1, <3>2
  <2> QED
    BY <2>11, <2>12, <2>13
<1>3. FlattenSeq(ss) = f[n]
  BY <1>1, FlattenIs
<1>4. In(f[n][j])
  <2>1. n \in 0..n /\ j \in DOMAIN f[n]
    BY <1>3
  <2>2. n \notin Bad
    BY <1>2
  <2> QED
    BY <2>1, <2>2
<1>5. DOMAIN ss = 1..n
  OBVIOUS
<1> QED
  BY <1>3, <1>4, <1>5

-----------------------------------------------------------------------------
(* Texts spelled out item by item.                                         *)

\* A text written with the spelling g of its items.
Spell(g, s) == FlattenSeq([j \in DOMAIN s |-> g[s[j]]])
Spells(g, T, S) == \A x \in T : g[x] \in Seq(S)

\* A function on 1..n is a sequence of length n.
LEMMA SeqIs ==
    ASSUME NEW S, NEW n \in Nat, NEW f, f \in [1..n -> S]
    PROVE  f \in Seq(S) /\ Len(f) = n
<1>1. f \in Seq(S)
  BY SeqDef
<1>2. DOMAIN f = 1..n /\ DOMAIN f = 1..Len(f) /\ Len(f) \in Nat
  BY <1>1, LenProperties
<1> QED
  BY <1>1, <1>2

\* What stands in the second part of a concatenation.
LEMMA ConcatRight ==
    ASSUME NEW S, NEW a \in Seq(S), NEW b \in Seq(S), NEW n \in Nat, n = Len(a),
           NEW i \in Int, i > n, i <= n + Len(b)
    PROVE  (a \o b)[i] = b[i - n]
  BY ConcatProperties

\* The spellings of a text's items, one piece each.
LEMMA PiecesType ==
    ASSUME NEW T, NEW S, NEW g, Spells(g, T, S), NEW s \in Seq(T)
    PROVE  [j \in DOMAIN s |-> g[s[j]]] \in Seq(Seq(S))
<1>1. DOMAIN s = 1..Len(s) /\ Len(s) \in Nat /\ \A j \in 1..Len(s) : s[j] \in T
  OBVIOUS
<1>2. [j \in DOMAIN s |-> g[s[j]]] \in [1..Len(s) -> Seq(S)]
  BY <1>1 DEF Spells
<1> QED
  BY <1>1, <1>2, SeqIs

\* A text spelled out is a text.
LEMMA SpellType ==
    ASSUME NEW T, NEW S, NEW g, Spells(g, T, S), NEW s \in Seq(T)
    PROVE  Spell(g, s) \in Seq(S)
<1>1. [j \in DOMAIN s |-> g[s[j]]] \in Seq(Seq(S))
  BY PiecesType
<1> QED
  BY <1>1, FlattenType DEF Spell

\* Spelling distributes over concatenation.
LEMMA SpellConcat ==
    ASSUME NEW T, NEW S, NEW g, Spells(g, T, S), NEW s \in Seq(T), NEW t \in Seq(T)
    PROVE  Spell(g, s \o t) = Spell(g, s) \o Spell(g, t)
<1> DEFINE p == [j \in DOMAIN s |-> g[s[j]]]
           q == [j \in DOMAIN t |-> g[t[j]]]
           r == [j \in DOMAIN (s \o t) |-> g[(s \o t)[j]]]
<1>1. s \o t \in Seq(T)
  OBVIOUS
<1>2. p \in Seq(Seq(S)) /\ q \in Seq(Seq(S)) /\ r \in Seq(Seq(S))
  BY <1>1, PiecesType
<1>3. r = p \o q
  <2>1. Len(p) = Len(s) /\ Len(q) = Len(t) /\ Len(r) = Len(s) + Len(t)
    <3>1. /\ DOMAIN p = 1..Len(s) /\ DOMAIN q = 1..Len(t)
          /\ DOMAIN r = 1..(Len(s) + Len(t)) /\ Len(s) \in Nat /\ Len(t) \in Nat
      OBVIOUS
    <3> HIDE DEF p, q, r
    <3> QED
      BY <1>2, <3>1
  <2>2. ASSUME NEW i \in 1..(Len(s) + Len(t)) PROVE r[i] = (p \o q)[i]
    <3>1. CASE i <= Len(s)
      <4>1. i \in DOMAIN s /\ i \in DOMAIN (s \o t) /\ (s \o t)[i] = s[i]
        BY <3>1
      <4>2. r[i] = g[s[i]] /\ p[i] = g[s[i]]
        BY <4>1
      <4> HIDE DEF p, q, r
      <4>3. (p \o q)[i] = p[i]
        BY <1>2, <2>1, <3>1
      <4> QED
        BY <4>2, <4>3
    <3>2. CASE i > Len(s)
      <4>1. i - Len(s) \in DOMAIN t /\ i \in DOMAIN (s \o t) /\ (s \o t)[i] = t[i - Len(s)]
        BY <3>2
      <4>2. r[i] = g[t[i - Len(s)]] /\ q[i - Len(s)] = g[t[i - Len(s)]]
        BY <4>1
      <4> HIDE DEF p, q, r
      <4>3. (p \o q)[i] = q[i - Len(s)]
        <5>1. i \in Int /\ i > Len(p) /\ i <= Len(p) + Len(q) /\ Len(p) \in Nat /\ Len(p) = Len(s)
          BY <2>1, <3>2
        <5> QED
          BY <1>2, <5>1, ConcatRight, SMTT(40)
      <4> QED
        BY <4>2, <4>3
    <3> QED
      BY <3>1, <3>2
  <2> HIDE DEF p, q, r
  <2>3. p \o q \in Seq(Seq(S)) /\ Len(p \o q) = Len(p) + Len(q)
    BY <1>2, ConcatProperties
  <2> QED
    BY <1>2, <2>1, <2>2, <2>3, SeqEqual
<1> HIDE DEF p, q, r
<1>4. FlattenSeq(p \o q) = FlattenSeq(p) \o FlattenSeq(q)
  BY <1>2, FlattenConcat
<1> QED
  BY <1>3, <1>4 DEF Spell, p, q, r

\* The empty text is spelled by nothing.
LEMMA SpellEmpty == ASSUME NEW g PROVE Spell(g, <<>>) = <<>>
<1>1. [j \in DOMAIN <<>> |-> g[<<>>[j]]] = <<>>
  OBVIOUS
<1> QED
  BY <1>1, FlattenEmpty DEF Spell

\* One item is spelled by its own piece.
LEMMA SpellOne ==
    ASSUME NEW T, NEW S, NEW g, Spells(g, T, S), NEW x \in T
    PROVE  Spell(g, <<x>>) = g[x]
<1>1. [j \in DOMAIN <<x>> |-> g[<<x>>[j]]] = <<g[x]>>
  OBVIOUS
<1> QED
  BY <1>1, FlattenOne DEF Spell, Spells

\* What a part of a sequence is.
LEMMA SubSeqIs ==
    ASSUME NEW S, NEW s \in Seq(S), NEW a \in Nat, NEW b \in Nat, 1 <= a, a <= b + 1, b <= Len(s)
    PROVE  /\ SubSeq(s, a, b) \in Seq(S) /\ Len(SubSeq(s, a, b)) = b + 1 - a
           /\ \A i \in 1..(b + 1 - a) : SubSeq(s, a, b)[i] = s[a + i - 1]
<1>1. Len(s) \in Nat /\ \A i \in 1..Len(s) : s[i] \in S
  OBVIOUS
<1>2. SubSeq(s, a, b) = [i \in 1..(b + 1 - a) |-> s[a + i - 1]]
  BY <1>1
<1>3. b + 1 - a \in Nat /\ \A i \in 1..(b + 1 - a) : a + i - 1 \in 1..Len(s)
  BY <1>1
<1>4. PICK n \in Nat : n = b + 1 - a
  BY <1>3
<1>5. [i \in 1..n |-> s[a + i - 1]] \in [1..n -> S]
  BY <1>1, <1>3, <1>4
<1>6. [i \in 1..n |-> s[a + i - 1]] \in Seq(S) /\ Len([i \in 1..n |-> s[a + i - 1]]) = n
  BY <1>5, SeqIs
<1> QED
  BY <1>2, <1>4, <1>6

\* Sequences of one, two and three items, written out.
LEMMA ShortSeq ==
    ASSUME NEW S, NEW p \in Seq(S)
    PROVE  /\ Len(p) = 1 => p = <<p[1]>>
           /\ Len(p) = 2 => p = <<p[1], p[2]>>
           /\ Len(p) = 3 => p = <<p[1], p[2], p[3]>>
<1>1. ASSUME Len(p) = 1 PROVE p = <<p[1]>>
  <2>1. <<p[1]>> \in Seq(S) /\ Len(<<p[1]>>) = 1 /\ \A i \in 1..1 : p[i] = <<p[1]>>[i]
    BY <1>1
  <2> QED
    BY <1>1, <2>1, SeqEqual
<1>2. ASSUME Len(p) = 2 PROVE p = <<p[1], p[2]>>
  <2>1. <<p[1], p[2]>> \in Seq(S) /\ Len(<<p[1], p[2]>>) = 2 /\ \A i \in 1..2 : p[i] = <<p[1], p[2]>>[i]
    BY <1>2
  <2> QED
    BY <1>2, <2>1, SeqEqual
<1>3. ASSUME Len(p) = 3 PROVE p = <<p[1], p[2], p[3]>>
  <2>1. /\ <<p[1], p[2], p[3]>> \in Seq(S) /\ Len(<<p[1], p[2], p[3]>>) = 3
        /\ \A i \in 1..3 : p[i] = <<p[1], p[2], p[3]>>[i]
    <3>0. 1 \in 1..Len(p) /\ 2 \in 1..Len(p) /\ 3 \in 1..Len(p)
      BY <1>3
    <3>1. p[1] \in S /\ p[2] \in S /\ p[3] \in S
      BY <3>0, ElementOfSeq
    <3>2. \A i \in 1..3 : i = 1 \/ i = 2 \/ i = 3
      OBVIOUS
    <3> QED
      BY <3>1, <3>2
  <2> QED
    BY <1>3, <2>1, SeqEqual
<1> QED
  BY <1>1, <1>2, <1>3

\* Parts of one, two and three items, written out.
LEMMA SubSeqShort ==
    ASSUME NEW S, NEW s \in Seq(S), NEW a \in 1..Len(s)
    PROVE  /\ SubSeq(s, a, a) = <<s[a]>>
           /\ a + 1 <= Len(s) => SubSeq(s, a, a + 1) = <<s[a], s[a + 1]>>
           /\ a + 2 <= Len(s) => SubSeq(s, a, a + 2) = <<s[a], s[a + 1], s[a + 2]>>
<1>1. Len(s) \in Nat /\ a \in Nat /\ 1 <= a /\ a <= Len(s)
  OBVIOUS
<1>2. s[a] \in S
  OBVIOUS
<1>3. SubSeq(s, a, a) = <<s[a]>>
  <2>1. SubSeq(s, a, a) \in Seq(S) /\ Len(SubSeq(s, a, a)) = a + 1 - a
        /\ \A i \in 1..(a + 1 - a) : SubSeq(s, a, a)[i] = s[a + i - 1]
    BY <1>1, SubSeqIs
  <2>2. PICK p : p = SubSeq(s, a, a)
    OBVIOUS
  <2>3. p \in Seq(S) /\ Len(p) = 1 /\ p[1] = s[a]
    BY <1>1, <2>1, <2>2
  <2> QED
    BY <2>2, <2>3, ShortSeq
<1>4. ASSUME a + 1 <= Len(s) PROVE SubSeq(s, a, a + 1) = <<s[a], s[a + 1]>>
  <2>1. a + 1 \in Nat /\ a <= (a + 1) + 1 /\ (a + 1) + 1 - a = 2 /\ a + 1 \in 1..Len(s)
    BY <1>1, <1>4
  <2>2. PICK p : p = SubSeq(s, a, a + 1)
    OBVIOUS
  <2>3. p \in Seq(S) /\ Len(p) = (a + 1) + 1 - a
        /\ \A i \in 1..((a + 1) + 1 - a) : p[i] = s[a + i - 1]
    BY <1>1, <1>4, <2>1, <2>2, SubSeqIs
  <2>4. p \in Seq(S) /\ Len(p) = 2 /\ p[1] = s[a] /\ p[2] = s[a + 1]
    BY <1>1, <2>1, <2>3
  <2> QED
    BY <2>2, <2>4, ShortSeq
<1>5. ASSUME a + 2 <= Len(s) PROVE SubSeq(s, a, a + 2) = <<s[a], s[a + 1], s[a + 2]>>
  <2>1. a + 2 \in Nat /\ a <= (a + 2) + 1 /\ (a + 2) + 1 - a = 3 /\ a + 1 \in 1..Len(s) /\ a + 2 \in 1..Len(s)
    BY <1>1, <1>5
  <2>2. PICK p : p = SubSeq(s, a, a + 2)
    OBVIOUS
  <2>3. p \in Seq(S) /\ Len(p) = (a + 2) + 1 - a
        /\ \A i \in 1..((a + 2) + 1 - a) : p[i] = s[a + i - 1]
    BY <1>1, <1>5, <2>1, <2>2, SubSeqIs
  <2>4. p \in Seq(S) /\ Len(p) = 3 /\ p[1] = s[a] /\ p[2] = s[a + 1] /\ p[3] = s[a + 2]
    BY <1>1, <2>1, <2>3
  <2> QED
    BY <2>2, <2>4, ShortSeq
<1> QED
  BY <1>3, <1>4, <1>5

\* Two adjacent parts are one.
LEMMA SubSeqJoin ==
    ASSUME NEW S, NEW s \in Seq(S), NEW a \in Nat, NEW b \in Nat, NEW c \in Nat,
           1 <= a, a <= b + 1, b <= c, c <= Len(s)
    PROVE  SubSeq(s, a, b) \o SubSeq(s, b + 1, c) = SubSeq(s, a, c)
<1>1. Len(s) \in Nat
  OBVIOUS
<1>2. PICK p : p = SubSeq(s, a, b)
  OBVIOUS
<1>3. PICK q : q = SubSeq(s, b + 1, c)
  OBVIOUS
<1>4. PICK r : r = SubSeq(s, a, c)
  OBVIOUS
<1>5. Len(p) = b + 1 - a /\ \A i \in 1..(b + 1 - a) : p[i] = s[a + i - 1]
  BY <1>1, <1>2, SubSeqIs
<1>6. Len(q) = c - b /\ \A i \in 1..(c - b) : q[i] = s[b + i]
  <2>1. b + 1 \in Nat /\ 1 <= b + 1 /\ b + 1 <= c + 1
    OBVIOUS
  <2>2. Len(q) = c + 1 - (b + 1) /\ \A i \in 1..(c + 1 - (b + 1)) : q[i] = s[(b + 1) + i - 1]
    BY <1>3, <2>1, SubSeqIs
  <2> QED
    BY <2>2
<1>7. Len(r) = c + 1 - a /\ \A i \in 1..(c + 1 - a) : r[i] = s[a + i - 1]
  BY <1>1, <1>4, SubSeqIs
<1>8. p \in Seq(S) /\ q \in Seq(S) /\ r \in Seq(S)
  <2>1. b + 1 \in Nat /\ 1 <= b + 1 /\ b + 1 <= c + 1
    OBVIOUS
  <2>2. SubSeq(s, a, b) \in Seq(S) /\ SubSeq(s, a, c) \in Seq(S)
    BY <1>1, SubSeqIs
  <2>3. SubSeq(s, b + 1, c) \in Seq(S)
    BY <1>1, <2>1, SubSeqIs
  <2> QED
    BY <1>2, <1>3, <1>4, <2>2, <2>3
<1>9. p \o q \in Seq(S) /\ Len(p \o q) = Len(p) + Len(q)
  BY <1>8, ConcatProperties
<1>10. ASSUME NEW i \in 1..Len(r) PROVE r[i] = (p \o q)[i]
  <2>1. i \in Int /\ Len(p) \in Nat /\ i <= Len(p) + Len(q) /\ r[i] = s[a + i - 1]
    BY <1>5, <1>6, <1>7
  <2>2. CASE i <= Len(p)
    <3>1. p[i] = s[a + i - 1]
      BY <1>5, <2>1, <2>2
    <3>2. (p \o q)[i] = p[i]
      BY <1>8, <2>1, <2>2, ConcatProperties
    <3> QED
      BY <2>1, <3>1, <3>2
  <2>3. CASE i > Len(p)
    <3>1. q[i - Len(p)] = s[b + (i - Len(p))] /\ b + (i - Len(p)) = a + i - 1
      BY <1>5, <1>6, <2>1, <2>3
    <3>2. (p \o q)[i] = q[i - Len(p)]
      BY <1>8, <2>1, <2>3, ConcatRight, SMTT(30)
    <3> QED
      BY <2>1, <3>1, <3>2
  <2> QED
    BY <2>1, <2>2, <2>3
<1>11. Len(r) = Len(p \o q)
  BY <1>5, <1>6, <1>7, <1>9
<1>12. r = p \o q
  BY <1>8, <1>9, <1>10, <1>11, SeqEqual
<1> QED
  BY <1>2, <1>3, <1>4, <1>12

\* Pieces that follow one another in s, from its beginning to its end, are s.
LEMMA Cover ==
    ASSUME NEW S, NEW s \in Seq(S), NEW q \in Seq(Seq(S)), NEW n \in Nat, n = Len(q), NEW e,
           e[0] = 0, e[n] = Len(s),
           \A k \in 1..n : /\ e[k - 1] \in Nat /\ e[k] \in Nat /\ e[k - 1] <= e[k] /\ e[k] <= Len(s)
                           /\ q[k] = SubSeq(s, e[k - 1] + 1, e[k])
    PROVE  FlattenSeq(q) = s
<1> DEFINE f == [k \in 0..n |-> SubSeq(s, 1, e[k])]
<1>1. f[0] = <<>>
  OBVIOUS
<1>2. ASSUME NEW k \in 1..n PROVE f[k] = f[k - 1] \o q[k]
  <2>1. k \in 0..n /\ k - 1 \in 0..n
    OBVIOUS
  <2>2. f[k] = SubSeq(s, 1, e[k]) /\ f[k - 1] = SubSeq(s, 1, e[k - 1])
    BY <2>1
  <2> HIDE DEF f
  <2>3. PICK a \in Nat : a = e[k - 1]
    OBVIOUS
  <2>4. PICK b \in Nat : b = e[k]
    OBVIOUS
  <2>5. SubSeq(s, 1, a) \o SubSeq(s, a + 1, b) = SubSeq(s, 1, b)
    <3>1. a <= b /\ b <= Len(s) /\ 1 <= 1 /\ 1 <= a + 1 /\ 1 \in Nat
      BY <2>3, <2>4
    <3>2. a \in Nat /\ b \in Nat
      BY <2>3, <2>4
    <3> QED
      BY <3>1, <3>2, SubSeqJoin
  <2> QED
    BY <2>2, <2>3, <2>4, <2>5
<1>3. f[n] = s
  <2>1. f[n] = SubSeq(s, 1, Len(s))
    OBVIOUS
  <2>2. SubSeq(s, 1, Len(s)) = s
    BY SubSeqFull
  <2> QED
    BY <2>1, <2>2
<1> HIDE DEF f
<1>4. Grows(f, q, n)
  BY <1>1, <1>2 DEF Grows
<1> QED
  BY <1>3, <1>4, FlattenIs

\* Every piece spelled on its own.
SpellEach(g, ss) == [i \in DOMAIN ss |-> Spell(g, ss[i])]

\* To spell what pieces make is to spell the pieces.
LEMMA SpellFlat ==
    ASSUME NEW T, NEW S, NEW g, Spells(g, T, S), NEW ss \in Seq(Seq(T)), NEW q,
           q = SpellEach(g, ss)
    PROVE  q \in Seq(Seq(S)) /\ Spell(g, FlattenSeq(ss)) = FlattenSeq(q)
<1>1. PICK n \in Nat : n = Len(ss)
  OBVIOUS
<1>2. DOMAIN ss = 1..n /\ \A i \in 1..n : ss[i] \in Seq(T)
  BY <1>1
<1>3. \A i \in 1..n : Spell(g, ss[i]) \in Seq(S)
  BY <1>2, SpellType
<1>4. q \in [1..n -> Seq(S)]
  BY <1>2, <1>3 DEF SpellEach
<1>5. q \in Seq(Seq(S)) /\ Len(q) = n
  BY <1>1, <1>4, SeqIs
<1>6. PICK f : Grows(f, ss, n) /\ \A i \in 0..n : f[i] \in Seq(T)
  BY <1>1, FlattenGrows
<1> DEFINE h == [i \in 0..n |-> Spell(g, f[i])]
<1>7. \A i \in 0..n : h[i] = Spell(g, f[i])
  OBVIOUS
<1> HIDE DEF h
<1>8. h[0] = <<>>
  BY <1>1, <1>6, <1>7, SpellEmpty DEF Grows
<1>9. ASSUME NEW k \in 1..n PROVE h[k] = h[k - 1] \o q[k]
  <2>1. k \in 0..n /\ k - 1 \in 0..n
    BY <1>1
  <2>2. f[k] = f[k - 1] \o ss[k]
    BY <1>6 DEF Grows
  <2>3. f[k - 1] \in Seq(T) /\ ss[k] \in Seq(T)
    BY <1>2, <1>6, <2>1
  <2>4. PICK a : a = f[k - 1]
    OBVIOUS
  <2>5. PICK b : b = ss[k]
    OBVIOUS
  <2>6. a \in Seq(T) /\ b \in Seq(T)
    BY <2>3, <2>4, <2>5
  <2>7. Spell(g, a \o b) = Spell(g, a) \o Spell(g, b)
    BY <2>6, SpellConcat
  <2>8. q[k] = Spell(g, b)
    BY <1>2, <2>5 DEF SpellEach
  <2> QED
    BY <1>7, <2>1, <2>2, <2>4, <2>5, <2>7, <2>8
<1>10. Grows(h, q, n)
  BY <1>8, <1>9 DEF Grows
<1>11. FlattenSeq(q) = h[n] /\ FlattenSeq(ss) = f[n]
  BY <1>1, <1>5, <1>6, <1>10, FlattenIs
<1> QED
  BY <1>1, <1>5, <1>7, <1>11

\* Each piece of p at a position of A is the one of q together with the next.
Shifts(p, q, A, n) ==
    /\ A \subseteq 1..n
    /\ \A k \in A : k + 1 \in (1..n) \ A /\ p[k] = q[k] \o q[k + 1] /\ p[k + 1] = <<>>
    /\ \A k \in (1..n) \ A : k - 1 \notin A => p[k] = q[k]

\* A piece may take the next one's items to itself: the pieces flatten to the same.
LEMMA FlattenShift ==
    ASSUME NEW S, NEW n \in Nat, NEW p \in [1..n -> Seq(S)], NEW q \in [1..n -> Seq(S)],
           NEW A, Shifts(p, q, A, n)
    PROVE  FlattenSeq(p) = FlattenSeq(q)
<1>1. p \in Seq(Seq(S)) /\ Len(p) = n /\ q \in Seq(Seq(S)) /\ Len(q) = n
  BY SeqIs
<1>2. PICK f : Grows(f, p, n) /\ \A i \in 0..n : f[i] \in Seq(S)
  BY <1>1, FlattenGrows
<1>3. PICK g : Grows(g, q, n) /\ \A i \in 0..n : g[i] \in Seq(S)
  BY <1>1, FlattenGrows
<1>b. A \subseteq 1..n /\ \A k \in A : k + 1 \in (1..n) \ A
  BY DEF Shifts
<1> DEFINE Same(k) == IF k \in A THEN f[k] = g[k + 1] ELSE f[k] = g[k]
<1>a. PICK bad : \A k : k \in bad <=> k \in 0..n /\ ~Same(k)
  <2>1. PICK z : z = {k \in 0..n : ~Same(k)}
    OBVIOUS
  <2> HIDE DEF Same
  <2>2. \A k : k \in z <=> k \in 0..n /\ ~Same(k)
    BY <2>1
  <2> QED
    BY <2>2
<1> HIDE DEF Same
<1>4. bad = {}
  <2> SUFFICES ASSUME bad # {} PROVE FALSE
    OBVIOUS
  <2>1. PICK k \in bad : \A m \in bad : k <= m
    <3>1. bad \in SUBSET Nat
      BY <1>a
    <3> QED
      BY <3>1, SmallestOf
  <2>2. k # 0
    <3>1. 0 \notin A /\ f[0] = g[0]
      BY <1>b, <1>2, <1>3 DEF Grows
    <3> QED
      BY <1>a, <2>1, <3>1 DEF Same
  <2>3. k \in 1..n /\ k - 1 \in 0..n /\ k - 1 \notin bad /\ (k - 1) + 1 = k
    <3>1. k \in 0..n
      BY <1>a, <2>1
    <3>2. k \in 1..n /\ k - 1 \in 0..n /\ (k - 1) + 1 = k /\ ~(k <= k - 1)
      BY <2>2, <3>1
    <3> QED
      BY <2>1, <3>2
  <2>4. Same(k - 1)
    BY <1>a, <2>3
  <2>5. f[k] = f[k - 1] \o p[k] /\ g[k] = g[k - 1] \o q[k]
    BY <1>2, <1>3, <2>3 DEF Grows
  <2>6. f[k - 1] \in Seq(S) /\ g[k - 1] \in Seq(S) /\ p[k] \in Seq(S) /\ q[k] \in Seq(S)
    BY <1>2, <1>3, <2>3
  <2>7. CASE k \in A
    <3>1. k + 1 \in 1..n /\ p[k] = q[k] \o q[k + 1] /\ (k + 1) - 1 = k
      <4>1. k + 1 \in 1..n /\ p[k] = q[k] \o q[k + 1]
        BY <2>7, Zenon DEF Shifts
      <4> QED
        BY <2>3, <4>1
    <3>2. k - 1 \notin A
      <4>1. k - 1 \in A => (k - 1) + 1 \notin A
        BY <1>b
      <4> QED
        BY <2>3, <2>7, <4>1
    <3>3. f[k - 1] = g[k - 1]
      BY <2>4, <3>2 DEF Same
    <3>4. g[k + 1] = g[k] \o q[k + 1] /\ q[k + 1] \in Seq(S)
      BY <1>3, <3>1 DEF Grows
    <3>5. q[k] \in Seq(S) /\ g[k - 1] \in Seq(S)
      BY <1>3, <2>3
    <3>6. (g[k - 1] \o q[k]) \o q[k + 1] = g[k - 1] \o (q[k] \o q[k + 1])
      <4>1. \A a, b, c \in Seq(S) : (a \o b) \o c = a \o (b \o c)
        OBVIOUS
      <4> QED
        BY <3>4, <3>5, <4>1, Zenon
    <3>7. f[k] = g[k - 1] \o (q[k] \o q[k + 1])
      BY <2>5, <3>1, <3>3, Zenon
    <3>8. g[k + 1] = (g[k - 1] \o q[k]) \o q[k + 1]
      BY <2>5, <3>4, Zenon
    <3>9. f[k] = g[k + 1]
      BY <3>6, <3>7, <3>8, Zenon
    <3> QED
      BY <1>a, <2>1, <2>7, <3>9 DEF Same
  <2>8. CASE k \notin A /\ k - 1 \in A
    <3>1. p[k] = <<>>
      <4>1. p[(k - 1) + 1] = <<>>
        BY <2>8, Zenon DEF Shifts
      <4> QED
        BY <2>3, <4>1
    <3>2. f[k - 1] = g[k]
      BY <2>3, <2>4, <2>8 DEF Same
    <3>3. f[k] = f[k - 1]
      BY <2>5, <2>6, <3>1
    <3> QED
      BY <1>a, <2>1, <2>8, <3>2, <3>3 DEF Same
  <2>9. CASE k \notin A /\ k - 1 \notin A
    <3>1. f[k - 1] = g[k - 1]
      BY <2>3, <2>4, <2>9 DEF Same
    <3>2. k \in (1..n) \ A
      BY <2>3, <2>9
    <3>3. p[k] = q[k]
      BY <2>9, <3>2, Zenon DEF Shifts
    <3> QED
      BY <1>a, <2>1, <2>5, <2>9, <3>1, <3>3 DEF Same
  <2> QED
    BY <2>7, <2>8, <2>9
<1>5. n \notin A
  <2>1. n \in A => n + 1 \in 1..n
    BY <1>b
  <2> QED
    BY <2>1
<1>6. f[n] = g[n]
  <2>1. Same(n)
    <3>1. n \in 0..n /\ n \notin bad
      <4>1. n \in 0..n
        OBVIOUS
      <4> QED
        BY <1>4, <4>1, Zenon
    <3> QED
      BY <1>a, <3>1
  <2> QED
    BY <1>5, <2>1 DEF Same
<1>7. FlattenSeq(p) = f[n] /\ FlattenSeq(q) = g[n]
  BY <1>1, <1>2, <1>3, FlattenIs
<1> QED
  BY <1>6, <1>7
=============================================================================
