----------------------------- MODULE EngineProofs -----------------------------
(***************************************************************************)
(* Theorems about the masking engine: one leaf on its way through          *)
(* detection and the splice (Detect), for any leaf, findings,              *)
(* configurations and allow-lists; the credentials of an address           *)
(* (UrlCredential), for any length and depth of encoding; and the engine   *)
(* that runs them with its cache and its ML slot (MaskEngine), for any     *)
(* threads, texts, policies, secrets, models and bounds.                   *)
(*                                                                         *)
(* First overlap resolution.  Before is a strict order of a list's places  *)
(* (Ranks), so a greedy choice exists (GreedyExists) and the kept findings *)
(* can be listed by their start (ListExists): the CHOOSEs of Kept and      *)
(* InOrder choose them (KeptExists, ResolveIs).  Then the splice: after    *)
(* the last k findings the beginning is still the leaf's, and of the rest  *)
(* exactly the bytes are left that none of them hides (SplicedTo).  Then   *)
(* the passes: what they gather (GatheredIs), what the plan is of that     *)
(* (FinishIs), and the inductive invariant that the state is what the      *)
(* passes make of what they were given (DetectInv).                        *)
(***************************************************************************)
EXTENDS MaskEngine, Detect, UrlCredential, TextProofs, FiniteSetTheorems, TLAPS

(***************************************************************************)
(* Strict orders on finite sets.                                           *)
(***************************************************************************)
\* R orders D strictly, no two members of D aside.
StrictOrder(R, D) ==
    /\ \A x \in D : ~(<<x, x>> \in R)
    /\ \A x, y, z \in D : <<x, y>> \in R /\ <<y, z>> \in R => <<x, z>> \in R
    /\ \A x, y \in D : x # y => <<x, y>> \in R \/ <<y, x>> \in R

LastOf(R, S, m) == m \in S /\ \A x \in S : x # m => <<x, m>> \in R

\* A finite set that is strictly ordered has a last member.
LEMMA LastExists ==
    ASSUME NEW R, NEW D, StrictOrder(R, D),
           NEW S \in SUBSET D, IsFiniteSet(S), S # {}
    PROVE  \E m : LastOf(R, S, m)
<1> DEFINE Bad == {c \in Nat : \E U \in SUBSET S : U # {} /\ c = Cardinality(U) /\ ~\E m : LastOf(R, U, m)}
<1>1. SUFFICES ASSUME Bad # {} PROVE FALSE
  <2>1. Bad = {}
    BY <1>1
  <2>2. Cardinality(S) \in Nat /\ S \in SUBSET S
    BY FS_CardinalityType
  <2> QED
    BY <2>1, <2>2
<1>2. PICK c \in Bad : \A e \in Bad : c <= e
  BY SmallestOf, <1>1, Bad \in SUBSET Nat
<1>3. PICK U \in SUBSET S : U # {} /\ c = Cardinality(U) /\ ~\E m : LastOf(R, U, m)
  BY <1>2
<1>4. PICK x \in U : TRUE
  BY <1>3
<1> DEFINE V == U \ {x}
<1>5. IsFiniteSet(U)
  BY FS_Subset
<1>6. IsFiniteSet(V) /\ Cardinality(V) = Cardinality(U) - 1
  BY <1>4, <1>5, FS_RemoveElement
<1>7. c \in Nat /\ c - 1 \notin Bad
  BY <1>2
<1>8. V # {}
  <2>1. SUFFICES ASSUME V = {} PROVE FALSE
    OBVIOUS
  <2>2. LastOf(R, U, x)
    BY <1>4, <2>1 DEF LastOf
  <2> QED
    BY <2>2, <1>3
<1>9. Cardinality(V) \in Nat /\ V \in SUBSET S
  BY <1>6, FS_CardinalityType
<1>10. PICK m : LastOf(R, V, m)
  BY <1>3, <1>6, <1>7, <1>8, <1>9
<1>11. CASE <<x, m>> \in R
  <2>1. LastOf(R, U, m)
    BY <1>4, <1>10, <1>11 DEF LastOf
  <2> QED
    BY <2>1, <1>3
<1>12. CASE ~(<<x, m>> \in R)
  <2>1. x \in D /\ m \in D /\ x # m /\ m \in V
    BY <1>4, <1>10 DEF LastOf
  <2>2. <<m, x>> \in R
    BY <2>1, <1>12 DEF StrictOrder
  <2>3. ASSUME NEW y \in U, y # x PROVE <<y, x>> \in R
    <3>1. y \in D /\ (y = m \/ <<y, m>> \in R)
      BY <2>3, <1>10 DEF LastOf
    <3> QED
      BY <3>1, <2>1, <2>2 DEF StrictOrder
  <2>4. LastOf(R, U, x)
    BY <2>3, <1>4 DEF LastOf
  <2> QED
    BY <2>4, <1>3
<1> QED
  BY <1>11, <1>12

\* What the greedy choice keeps of S, best first, where V says which pairs exclude each other.
Greedy(R, V, S, kept) ==
    /\ kept \in SUBSET S
    /\ \A i \in S : i \in kept <=> ~\E k \in kept : <<k, i>> \in R /\ <<i, k>> \in V

\* The greedy choice exists.
LEMMA GreedyExists ==
    ASSUME NEW R, NEW D, StrictOrder(R, D), IsFiniteSet(D), NEW V
    PROVE  \E kept : Greedy(R, V, D, kept)
<1> DEFINE Bad == {c \in Nat : \E U \in SUBSET D : c = Cardinality(U) /\ ~\E kept : Greedy(R, V, U, kept)}
<1>1. SUFFICES ASSUME Bad # {} PROVE FALSE
  <2>1. Bad = {}
    BY <1>1
  <2>2. Cardinality(D) \in Nat /\ D \in SUBSET D
    BY FS_CardinalityType
  <2> QED
    BY <2>1, <2>2
<1>2. PICK c \in Bad : \A e \in Bad : c <= e
  BY SmallestOf, <1>1, Bad \in SUBSET Nat
<1>3. PICK U \in SUBSET D : c = Cardinality(U) /\ ~\E kept : Greedy(R, V, U, kept)
  BY <1>2
<1>4. IsFiniteSet(U)
  BY FS_Subset
<1>5. U # {}
  <2>1. SUFFICES ASSUME U = {} PROVE FALSE
    OBVIOUS
  <2>2. Greedy(R, V, U, {})
    BY <2>1 DEF Greedy
  <2> QED
    BY <2>2, <1>3
<1>6. PICK m : LastOf(R, U, m)
  BY <1>4, <1>5, LastExists
<1> DEFINE W == U \ {m}
<1>7. m \in U /\ m \in D
  BY <1>6 DEF LastOf
<1>8. IsFiniteSet(W) /\ Cardinality(W) = Cardinality(U) - 1 /\ W \in SUBSET D
  BY <1>7, <1>4, FS_RemoveElement
<1>9. Cardinality(W) \in Nat
  BY <1>8, FS_CardinalityType
<1>10. c \in Nat /\ c - 1 \notin Bad
  BY <1>2
<1>11. PICK kept : Greedy(R, V, W, kept)
  BY <1>3, <1>8, <1>9, <1>10
<1>12. \A i \in W : ~(<<m, i>> \in R)
  <2>1. ASSUME NEW i \in W, <<m, i>> \in R PROVE FALSE
    <3>1. i \in D /\ <<i, m>> \in R
      BY <1>6 DEF LastOf
    <3>2. <<i, i>> \in R
      BY <3>1, <2>1, <1>7 DEF StrictOrder
    <3> QED
      BY <3>1, <3>2 DEF StrictOrder
  <2> QED
    BY <2>1
<1>13. ~(<<m, m>> \in R)
  BY <1>7 DEF StrictOrder
<1>14. CASE \E k \in kept : <<m, k>> \in V
  <2>1. \A k \in kept : <<k, m>> \in R
    BY <1>6, <1>11 DEF LastOf, Greedy
  <2>2. Greedy(R, V, U, kept)
    BY <2>1, <1>14, <1>11, <1>7 DEF Greedy
  <2> QED
    BY <2>2, <1>3
<1>15. CASE ~\E k \in kept : <<m, k>> \in V
  <2>1. Greedy(R, V, U, kept \cup {m})
    BY <1>15, <1>11, <1>7, <1>12, <1>13 DEF Greedy
  <2> QED
    BY <2>1, <1>3
<1> QED
  BY <1>14, <1>15

\* S from first to last.
Lists(R, S, at) ==
    /\ at \in [1..Cardinality(S) -> S]
    /\ \A i \in S : \E n \in DOMAIN at : at[n] = i
    /\ \A n, k \in DOMAIN at : n < k => <<at[n], at[k]>> \in R

\* A finite ordered set can be listed.
LEMMA ListExists ==
    ASSUME NEW R, NEW D, StrictOrder(R, D), NEW S \in SUBSET D, IsFiniteSet(S)
    PROVE  \E at : Lists(R, S, at)
<1> DEFINE Bad == {c \in Nat : \E U \in SUBSET S : c = Cardinality(U) /\ ~\E at : Lists(R, U, at)}
<1>1. SUFFICES ASSUME Bad # {} PROVE FALSE
  <2>1. Bad = {}
    BY <1>1
  <2>2. Cardinality(S) \in Nat /\ S \in SUBSET S
    BY FS_CardinalityType
  <2> QED
    BY <2>1, <2>2
<1>2. PICK c \in Bad : \A e \in Bad : c <= e
  BY SmallestOf, <1>1, Bad \in SUBSET Nat
<1>3. PICK U \in SUBSET S : c = Cardinality(U) /\ ~\E at : Lists(R, U, at)
  BY <1>2
<1>4. IsFiniteSet(U)
  BY FS_Subset
<1>5. U # {}
  <2>1. SUFFICES ASSUME U = {} PROVE FALSE
    OBVIOUS
  <2>2. Cardinality(U) = 0
    BY <2>1, FS_EmptySet
  <2>3. PICK at : at = [n \in 1..0 |-> n]
    OBVIOUS
  <2>4. Lists(R, U, at)
    BY <2>1, <2>2, <2>3 DEF Lists
  <2> QED
    BY <2>4, <1>3
<1>6. PICK m : LastOf(R, U, m)
  BY <1>4, <1>5, LastExists
<1> DEFINE W == U \ {m}
<1>7. m \in U /\ m \in D
  BY <1>6 DEF LastOf
<1>8. IsFiniteSet(W) /\ Cardinality(W) = Cardinality(U) - 1 /\ W \in SUBSET S
  BY <1>7, <1>4, FS_RemoveElement
<1>9. Cardinality(W) \in Nat
  BY <1>8, FS_CardinalityType
<1>10. c \in Nat /\ c - 1 \notin Bad
  BY <1>2
<1>11. PICK w : Lists(R, W, w)
  BY <1>3, <1>8, <1>9, <1>10
<1>12. c - 1 = Cardinality(W) /\ c - 1 \in Nat
  BY <1>3, <1>8, <1>9, <1>10
<1>13. PICK at : at = [n \in 1..c |-> IF n = c THEN m ELSE w[n]]
  OBVIOUS
<1>14. w \in [1..(c - 1) -> W] /\ DOMAIN w = 1..(c - 1)
  BY <1>11, <1>12 DEF Lists
<1>15. DOMAIN at = 1..c /\ at[c] = m /\ \A n \in 1..(c - 1) : at[n] = w[n]
  BY <1>13, <1>12
<1>16. at \in [1..Cardinality(U) -> U]
  <2>1. \A n \in 1..c : (IF n = c THEN m ELSE w[n]) \in U
    <3>1. ASSUME NEW n \in 1..c PROVE (IF n = c THEN m ELSE w[n]) \in U
      <4>1. n # c => n \in 1..(c - 1)
        BY <1>10
      <4>2. n # c => w[n] \in U
        BY <4>1, <1>14
      <4> QED
        BY <4>2, <1>7
    <3> QED
      BY <3>1
  <2> QED
    BY <2>1, <1>13, <1>3
<1>17. \A i \in U : \E n \in DOMAIN at : at[n] = i
  <2>1. ASSUME NEW i \in U PROVE \E n \in DOMAIN at : at[n] = i
    <3>1. CASE i = m
      BY <3>1, <1>15, <1>12
    <3>2. CASE i # m
      <4>1. PICK n \in 1..(c - 1) : w[n] = i
        BY <3>2, <1>11, <1>14 DEF Lists
      <4>2. n \in 1..c
        BY <1>10
      <4> QED
        BY <4>1, <4>2, <1>15
    <3> QED
      BY <3>1, <3>2
  <2> QED
    BY <2>1
<1>18. \A n, k \in DOMAIN at : n < k => <<at[n], at[k]>> \in R
  <2>1. ASSUME NEW n \in 1..c, NEW k \in 1..c, n < k PROVE <<at[n], at[k]>> \in R
    <3>1. n \in 1..(c - 1)
      BY <2>1, <1>10
    <3>2. at[n] = w[n] /\ w[n] \in W
      BY <3>1, <1>15, <1>14
    <3>3. CASE k = c
      BY <3>2, <3>3, <1>15, <1>6 DEF LastOf
    <3>4. CASE k # c
      <4>1. k \in 1..(c - 1)
        BY <3>4, <1>10
      <4> QED
        BY <4>1, <3>1, <3>2, <2>1, <1>15, <1>14, <1>11 DEF Lists
    <3> QED
      BY <3>3, <3>4
  <2> QED
    BY <2>1, <1>15
<1>19. Lists(R, U, at)
  BY <1>16, <1>17, <1>18 DEF Lists
<1> QED
  BY <1>19, <1>3

(***************************************************************************)
(* Overlap resolution.                                                     *)
(***************************************************************************)

\* What the order of the findings looks at.
IsSpan(d) == d.from \in Int /\ d.to \in Int /\ d.score \in Int
Spanned(ds) == \A i \in DOMAIN ds : IsSpan(ds[i])

Ranking(ds) ==
    {p \in (DOMAIN ds) \X (DOMAIN ds) : \E i, j \in DOMAIN ds : p = <<i, j>> /\ Before(ds, i, j)}
Exclusion(ds) ==
    {p \in (DOMAIN ds) \X (DOMAIN ds) : \E i, j \in DOMAIN ds : p = <<i, j>> /\ Overlap(ds[i], ds[j])}
Starting(ds) ==
    {p \in (DOMAIN ds) \X (DOMAIN ds) : \E i, j \in DOMAIN ds : p = <<i, j>> /\ StartsBefore(ds, i, j)}

\* A lexicographic comparison of four numbers: more trusted, better, longer, earlier.
LexBefore(t, s, l, i, t2, s2, l2, i2) ==
    \/ t < t2
    \/ t = t2 /\ s > s2
    \/ t = t2 /\ s = s2 /\ l > l2
    \/ t = t2 /\ s = s2 /\ l = l2 /\ i < i2

\* The order of a list compares four numbers, the place last.
LEMMA BeforeIs ==
    ASSUME NEW ds, NEW i \in Nat, NEW j \in Nat, IsSpan(ds[i]), IsSpan(ds[j])
    PROVE  Before(ds, i, j) <=>
             LexBefore(Tier(ds[i]), ds[i].score, Length(ds[i]), i,
                       Tier(ds[j]), ds[j].score, Length(ds[j]), j)
<1>1. PICK t \in Int : t = Tier(ds[i])
  BY DEF Tier
<1>2. PICK t2 \in Int : t2 = Tier(ds[j])
  BY DEF Tier
<1>3. PICK l \in Int : l = Length(ds[i])
  BY DEF IsSpan, Length
<1>4. PICK l2 \in Int : l2 = Length(ds[j])
  BY DEF IsSpan, Length
<1>5. PICK s \in Int : s = ds[i].score
  BY DEF IsSpan
<1>6. PICK s2 \in Int : s2 = ds[j].score
  BY DEF IsSpan
<1>7. Before(ds, i, j) <=> \/ (t < t2 \/ (t = t2 /\ s > s2) \/ (t = t2 /\ s = s2 /\ l > l2))
                           \/ /\ ~(t2 < t \/ (t2 = t /\ s2 > s) \/ (t2 = t /\ s2 = s /\ l2 > l))
                              /\ i < j
  BY <1>1, <1>2, <1>3, <1>4, <1>5, <1>6 DEF Before, Outranks
<1>8. Before(ds, i, j) <=> LexBefore(t, s, l, i, t2, s2, l2, j)
  BY <1>7 DEF LexBefore
<1> QED
  BY <1>8, <1>1, <1>2, <1>3, <1>4, <1>5, <1>6

\* There are three tiers.
LEMMA TierType == ASSUME NEW d PROVE Tier(d) \in 0..2
  BY DEF Tier

\* Before orders the findings of a list, and so does StartsBefore.
LEMMA Ranks ==
    ASSUME NEW ds, NEW n \in Nat, DOMAIN ds = 1..n, Spanned(ds)
    PROVE  StrictOrder(Ranking(ds), 1..n) /\ StrictOrder(Starting(ds), 1..n)
<1>1. PICK q : q = [i \in 1..n |-> <<Tier(ds[i]), ds[i].score, Length(ds[i]), ds[i].from>>]
  OBVIOUS
<1>2. \A i \in 1..n : /\ q[i][1] \in Int /\ q[i][2] \in Int /\ q[i][3] \in Int /\ q[i][4] \in Int
                      /\ q[i][4] = ds[i].from
  <2>1. ASSUME NEW i \in 1..n
        PROVE  /\ q[i][1] \in Int /\ q[i][2] \in Int /\ q[i][3] \in Int /\ q[i][4] \in Int
               /\ q[i][4] = ds[i].from
    <3>1. PICK t \in Int : t = Tier(ds[i])
      BY DEF Tier
    <3>2. IsSpan(ds[i])
      BY DEF Spanned
    <3>3. PICK l \in Int : l = Length(ds[i])
      BY <3>2 DEF IsSpan, Length
    <3>4. q[i] = <<t, ds[i].score, l, ds[i].from>>
      BY <1>1, <3>1, <3>3
    <3> QED
      BY <3>2, <3>4 DEF IsSpan
  <2> QED
    BY <2>1
<1>3. \A i, j \in 1..n : Before(ds, i, j) <=>
         LexBefore(q[i][1], q[i][2], q[i][3], i, q[j][1], q[j][2], q[j][3], j)
  <2>1. ASSUME NEW i \in 1..n, NEW j \in 1..n
        PROVE  Before(ds, i, j) <=>
                 LexBefore(q[i][1], q[i][2], q[i][3], i, q[j][1], q[j][2], q[j][3], j)
    <3>1. IsSpan(ds[i]) /\ IsSpan(ds[j]) /\ i \in Nat /\ j \in Nat
      BY DEF Spanned
    <3>2. /\ q[i][1] = Tier(ds[i]) /\ q[i][2] = ds[i].score /\ q[i][3] = Length(ds[i])
          /\ q[j][1] = Tier(ds[j]) /\ q[j][2] = ds[j].score /\ q[j][3] = Length(ds[j])
      BY <1>1
    <3> QED
      BY <3>1, <3>2, BeforeIs
  <2> QED
    BY <2>1
<1>4. \A i \in 1..n : ~Before(ds, i, i)
  <2>1. ASSUME NEW i \in 1..n PROVE ~Before(ds, i, i)
    <3>1. i \in Int /\ q[i][1] \in Int /\ q[i][2] \in Int /\ q[i][3] \in Int
      BY <1>2
    <3> QED
      BY <3>1, <1>3 DEF LexBefore
  <2> QED
    BY <2>1
<1>5. \A i, j, k \in 1..n : Before(ds, i, j) /\ Before(ds, j, k) => Before(ds, i, k)
  <2>1. ASSUME NEW i \in 1..n, NEW j \in 1..n, NEW k \in 1..n, Before(ds, i, j), Before(ds, j, k)
        PROVE  Before(ds, i, k)
    <3>1. PICK a1 \in Int, a2 \in Int, a3 \in Int : a1 = q[i][1] /\ a2 = q[i][2] /\ a3 = q[i][3]
      BY <1>2
    <3>2. PICK b1 \in Int, b2 \in Int, b3 \in Int : b1 = q[j][1] /\ b2 = q[j][2] /\ b3 = q[j][3]
      BY <1>2
    <3>3. PICK c1 \in Int, c2 \in Int, c3 \in Int : c1 = q[k][1] /\ c2 = q[k][2] /\ c3 = q[k][3]
      BY <1>2
    <3>4. LexBefore(a1, a2, a3, i, b1, b2, b3, j) /\ LexBefore(b1, b2, b3, j, c1, c2, c3, k)
      BY <2>1, <1>3, <3>1, <3>2, <3>3
    <3>5. LexBefore(a1, a2, a3, i, c1, c2, c3, k)
      BY <3>4, SMTT(30) DEF LexBefore
    <3> QED
      BY <3>5, <1>3, <3>1, <3>3
  <2> QED
    BY <2>1
<1>6. \A i, j \in 1..n : i # j => Before(ds, i, j) \/ Before(ds, j, i)
  <2>1. ASSUME NEW i \in 1..n, NEW j \in 1..n, i # j
        PROVE  Before(ds, i, j) \/ Before(ds, j, i)
    <3>1. PICK a1 \in Int, a2 \in Int, a3 \in Int : a1 = q[i][1] /\ a2 = q[i][2] /\ a3 = q[i][3]
      BY <1>2
    <3>2. PICK b1 \in Int, b2 \in Int, b3 \in Int : b1 = q[j][1] /\ b2 = q[j][2] /\ b3 = q[j][3]
      BY <1>2
    <3>3. LexBefore(a1, a2, a3, i, b1, b2, b3, j) \/ LexBefore(b1, b2, b3, j, a1, a2, a3, i)
      BY <2>1, SMTT(30) DEF LexBefore
    <3> QED
      BY <3>3, <1>3, <3>1, <3>2
  <2> QED
    BY <2>1
<1>7. StrictOrder(Ranking(ds), 1..n)
  <2>1. \A i, j \in 1..n : <<i, j>> \in Ranking(ds) <=> Before(ds, i, j)
    <3>1. ASSUME NEW i \in 1..n, NEW j \in 1..n
          PROVE  <<i, j>> \in Ranking(ds) <=> Before(ds, i, j)
      <4>1. <<i, j>> \in (DOMAIN ds) \X (DOMAIN ds)
        OBVIOUS
      <4> QED
        BY <4>1 DEF Ranking
    <3> QED
      BY <3>1
  <2> QED
    BY <2>1, <1>4, <1>5, <1>6 DEF StrictOrder
<1>8. StrictOrder(Starting(ds), 1..n)
  <2>1. \A i, j \in 1..n : <<i, j>> \in Starting(ds) <=> StartsBefore(ds, i, j)
    <3>1. ASSUME NEW i \in 1..n, NEW j \in 1..n
          PROVE  <<i, j>> \in Starting(ds) <=> StartsBefore(ds, i, j)
      <4>1. <<i, j>> \in (DOMAIN ds) \X (DOMAIN ds)
        OBVIOUS
      <4> QED
        BY <4>1 DEF Starting
    <3> QED
      BY <3>1
  <2>2. \A i \in 1..n : ds[i].from \in Int
    BY DEF Spanned, IsSpan
  <2>3. \A i \in 1..n : ~StartsBefore(ds, i, i)
    BY <2>2, <1>4 DEF StartsBefore
  <2>4. \A i, j, k \in 1..n : StartsBefore(ds, i, j) /\ StartsBefore(ds, j, k) => StartsBefore(ds, i, k)
    <3>1. ASSUME NEW i \in 1..n, NEW j \in 1..n, NEW k \in 1..n,
                 StartsBefore(ds, i, j), StartsBefore(ds, j, k)
          PROVE  StartsBefore(ds, i, k)
      <4>1. PICK a \in Int, b \in Int, c \in Int : a = ds[i].from /\ b = ds[j].from /\ c = ds[k].from
        BY <2>2
      <4>2. (a < b \/ (a = b /\ Before(ds, i, j))) /\ (b < c \/ (b = c /\ Before(ds, j, k)))
        BY <4>1, <3>1 DEF StartsBefore
      <4>3. a < c \/ (a = c /\ Before(ds, i, k))
        BY <4>2, <1>5
      <4> QED
        BY <4>3, <4>1 DEF StartsBefore
    <3> QED
      BY <3>1
  <2>5. \A i, j \in 1..n : i # j => StartsBefore(ds, i, j) \/ StartsBefore(ds, j, i)
    <3>1. ASSUME NEW i \in 1..n, NEW j \in 1..n, i # j
          PROVE  StartsBefore(ds, i, j) \/ StartsBefore(ds, j, i)
      <4>1. PICK a \in Int, b \in Int : a = ds[i].from /\ b = ds[j].from
        BY <2>2
      <4>2. a < b \/ b < a \/ a = b
        OBVIOUS
      <4> QED
        BY <4>1, <4>2, <1>6, <3>1 DEF StartsBefore
    <3> QED
      BY <3>1
  <2> QED
    BY <2>1, <2>3, <2>4, <2>5 DEF StrictOrder
<1> QED
  BY <1>7, <1>8

\* What overlap resolution keeps: the findings no kept one before them overlaps.
KeptIs(ds, kept) ==
    /\ kept \in SUBSET DOMAIN ds
    /\ \A i \in DOMAIN ds :
         i \in kept <=> ~\E k \in kept : Before(ds, k, i) /\ Overlap(ds[i], ds[k])

\* The greedy choice exists, and Kept is it.
LEMMA KeptExists ==
    ASSUME NEW ds, NEW n \in Nat, DOMAIN ds = 1..n, Spanned(ds)
    PROVE  KeptIs(ds, Kept(ds))
<1>1. StrictOrder(Ranking(ds), 1..n)
  BY Ranks
<1>2. IsFiniteSet(1..n)
  BY FS_Interval
<1>3. PICK kept : Greedy(Ranking(ds), Exclusion(ds), 1..n, kept)
  BY <1>1, <1>2, GreedyExists
<1>4. kept \in SUBSET DOMAIN ds
  BY <1>3 DEF Greedy
<1>5. KeptIs(ds, kept)
  <2>1. ASSUME NEW i \in 1..n
        PROVE  i \in kept <=> ~\E k \in kept : Before(ds, k, i) /\ Overlap(ds[i], ds[k])
    <3>1. ASSUME NEW k \in kept
          PROVE  /\ <<k, i>> \in Ranking(ds) <=> Before(ds, k, i)
                 /\ <<i, k>> \in Exclusion(ds) <=> Overlap(ds[i], ds[k])
      <4>1. k \in DOMAIN ds /\ i \in DOMAIN ds
        BY <1>4
      <4>2. <<i, k>> \in (DOMAIN ds) \X (DOMAIN ds)
        BY <4>1
      <4>3. <<k, i>> \in (DOMAIN ds) \X (DOMAIN ds)
        BY <4>1
      <4>4. <<k, i>> \in Ranking(ds) <=> Before(ds, k, i)
        BY <4>3 DEF Ranking
      <4>5. <<i, k>> \in Exclusion(ds) <=> Overlap(ds[i], ds[k])
        BY <4>2 DEF Exclusion
      <4> QED
        BY <4>4, <4>5
    <3>2. i \in kept <=> ~\E k \in kept : <<k, i>> \in Ranking(ds) /\ <<i, k>> \in Exclusion(ds)
      BY <1>3 DEF Greedy
    <3> QED
      BY <3>1, <3>2
  <2> QED
    BY <2>1, <1>4 DEF KeptIs
<1> QED
  BY <1>5 DEF KeptIs, Kept

\* The kept findings stand in the resolved list, by their start.
ResolvedAs(ds, at, m) ==
    /\ at \in [1..m -> Kept(ds)]
    /\ \A i \in Kept(ds) : \E k \in 1..m : at[k] = i
    /\ \A i, j \in 1..m : i < j => StartsBefore(ds, at[i], at[j])
    /\ Resolve(ds) = [k \in 1..m |-> ds[at[k]]]

\* The kept findings can be listed by their start, and Resolve lists them.
LEMMA ResolveIs ==
    ASSUME NEW ds, NEW n \in Nat, DOMAIN ds = 1..n, Spanned(ds)
    PROVE  \E m \in Nat : \E at : ResolvedAs(ds, at, m)
<1>1. StrictOrder(Starting(ds), 1..n)
  BY Ranks
<1>2. PICK kept : kept = Kept(ds)
  OBVIOUS
<1>3. kept \in SUBSET (1..n)
  BY <1>2, KeptExists DEF KeptIs
<1>4. IsFiniteSet(kept)
  <2>1. IsFiniteSet(1..n)
    BY FS_Interval
  <2> QED
    BY <2>1, <1>3, FS_Subset
<1>5. PICK m \in Nat : m = Cardinality(kept)
  BY <1>4, FS_CardinalityType
<1>6. PICK w : Lists(Starting(ds), kept, w)
  BY <1>1, <1>3, <1>4, ListExists
<1> DEFINE Good(at) == /\ at \in [1..Cardinality(kept) -> kept]
                       /\ \A i \in kept : \E k \in DOMAIN at : at[k] = i
                       /\ \A i, j \in DOMAIN at : i < j => StartsBefore(ds, at[i], at[j])
<1>7. Good(w)
  BY <1>6 DEF Lists, Starting
<1>8. PICK at : at = InOrder(ds, kept)
  OBVIOUS
<1>9. w \in [1..Cardinality(kept) -> kept]
  BY <1>7
<1>10. InOrder(ds, kept) =
         CHOOSE a \in [1..Cardinality(kept) -> kept] :
           /\ \A i \in kept : \E k \in DOMAIN a : a[k] = i
           /\ \A i, j \in DOMAIN a : i < j => StartsBefore(ds, a[i], a[j])
  BY DEF InOrder
<1>11. Good(at)
  BY <1>7, <1>8, <1>9, <1>10
<1>12. DOMAIN at = 1..m
  BY <1>11, <1>5
<1>13. Resolve(ds) = [k \in 1..m |-> ds[at[k]]]
  BY <1>2, <1>8, <1>12 DEF Resolve
<1>14. ResolvedAs(ds, at, m)
  BY <1>11, <1>12, <1>13, <1>2, <1>5 DEF ResolvedAs
<1> QED
  BY <1>14

(***************************************************************************)
(* The credentials of an address.                                          *)
(***************************************************************************)

\* A finite set listed has every member at some place.
LEMMA ListedSet ==
    ASSUME NEW S, IsFiniteSet(S)
    PROVE  \E n \in Nat : /\ SetToSeq(S) \in [1..n -> S]
                          /\ \A x \in S : \E i \in 1..n : SetToSeq(S)[i] = x
<1>1. PICK n \in Nat : n = Cardinality(S)
  BY FS_CardinalityType
<1>2. PICK g : g \in Bijection(1..n, S)
  BY <1>1, FS_CardinalityType DEF ExistsBijection
<1>3. g \in [1..n -> S] /\ IsInjective(g)
  BY <1>2 DEF Bijection, Injection
<1>4. PICK f : f = SetToSeq(S)
  OBVIOUS
<1>5. f \in [1..n -> S] /\ IsInjective(f)
  BY <1>3, <1>4, <1>1 DEF SetToSeq
<1>6. f \in Injection(1..n, S)
  BY <1>5 DEF Injection
<1>7. Cardinality(1..n) = n
  BY FS_Interval
<1>8. f \in Surjection(1..n, S)
  BY <1>6, <1>7, <1>1, FS_Injection
<1> QED
  BY <1>8, <1>5, <1>4 DEF Surjection

\* An address is a text of atoms, each written encoded a bounded number of times over.
AddressOK == address \in [1..AddressLength -> UrlAtoms]

\* The length of an address, and how often its characters are encoded over.
LEMMA AddressIs ==
    ASSUME AddressOK
    PROVE  /\ Len(address) = AddressLength /\ AddressLength \in Nat
           /\ \A i \in 1..AddressLength : address[i][2] \in 0..MaxDepth
<1>1. AddressLength \in Nat
  BY UrlAssumption
<1>2. Len(address) = AddressLength
  BY <1>1, SeqIs DEF AddressOK
<1>3. \A a \in UrlAtoms : a[2] \in 0..MaxDepth
  BY UrlAssumption DEF UrlAtoms
<1> QED
  BY <1>1, <1>2, <1>3 DEF AddressOK

\* Where a value ends: no "&" shows in it, and one shows after it unless the text ends.
EndsAt(k, a, e) ==
    /\ e \in Int /\ a - 1 <= e /\ e <= AddressLength
    /\ \A m \in a..e : ~Shows(k, m, {"&"})
    /\ e < AddressLength => Shows(k, e + 1, {"&"})

\* ValueEnd finds where a value ends.
LEMMA ValueEndIs ==
    ASSUME AddressOK, NEW k, NEW a \in Nat, 1 <= a, a <= AddressLength + 1
    PROVE  EndsAt(k, a, ValueEnd(k, a))
<1>1. Len(address) = AddressLength /\ AddressLength \in Nat
  BY AddressIs
<1>2. PICK ends : ends = {j \in a..Len(address) : Shows(k, j, {"&"})}
  OBVIOUS
<1>3. ends \in SUBSET Nat
  BY <1>1, <1>2
<1>4. PICK e : e = ValueEnd(k, a)
  OBVIOUS
<1>5. e = IF ends = {} THEN Len(address) ELSE (CHOOSE j \in ends : \A m \in ends : j <= m) - 1
  BY <1>2, <1>4 DEF ValueEnd
<1>6. CASE ends = {}
  <2>1. e = AddressLength
    BY <1>5, <1>6, <1>1
  <2>2. \A m \in a..e : ~Shows(k, m, {"&"})
    BY <1>2, <1>6, <2>1, <1>1
  <2> QED
    BY <2>1, <2>2, <1>1, <1>4 DEF EndsAt
<1>7. CASE ends # {}
  <2>1. \E j \in ends : \A m \in ends : j <= m
    BY <1>3, <1>7, SmallestOf
  <2>2. PICK j : j = CHOOSE i \in ends : \A m \in ends : i <= m
    OBVIOUS
  <2>3. j \in ends /\ \A m \in ends : j <= m
    BY <2>1, <2>2
  <2>4. e = j - 1 /\ j \in a..AddressLength /\ Shows(k, j, {"&"})
    BY <1>5, <1>7, <2>2, <2>3, <1>2, <1>1
  <2>5. \A m \in a..e : ~Shows(k, m, {"&"})
    <3>1. ASSUME NEW m \in a..e, Shows(k, m, {"&"}) PROVE FALSE
      <4>1. m \in a..AddressLength /\ m < j
        BY <2>4, <1>1
      <4>2. m \in ends
        BY <4>1, <3>1, <1>1, <1>2
      <4>3. j <= m
        BY <4>2, <2>3
      <4> QED
        BY <4>1, <4>3, <2>4
    <3> QED
      BY <3>1
  <2>6. e \in Int /\ a - 1 <= e /\ e <= AddressLength /\ e + 1 = j
    BY <2>4, <1>1
  <2> QED
    BY <2>4, <2>5, <2>6, <1>4 DEF EndsAt
<1> QED
  BY <1>6, <1>7

\* What a match of the parameter pattern says of its places.
LEMMA ParamIs ==
    ASSUME AddressOK, NEW k, NEW i \in 1..AddressLength, Param(k, i)
    PROVE  /\ i + 2 <= AddressLength
           /\ EndsAt(k, i + 2, ValueEnd(k, i + 2)) /\ i + 2 <= ValueEnd(k, i + 2)
           /\ ~Shows(k, i, {"&"}) /\ ~Shows(k, i + 1, {"&"})
<1>1. Len(address) = AddressLength /\ AddressLength \in Nat
  BY AddressIs
<1>2. i + 1 <= AddressLength /\ ValueEnd(k, i + 2) >= i + 2
  BY <1>1 DEF Param
<1>3. i + 2 \in Nat /\ 1 <= i + 2 /\ i + 2 <= AddressLength + 1
  BY <1>1, <1>2
<1>4. EndsAt(k, i + 2, ValueEnd(k, i + 2))
  BY <1>3, ValueEndIs
<1>5. ~Shows(k, i, {"&"}) /\ ~Shows(k, i + 1, {"&"})
  BY DEF Param, Shows
<1> QED
  BY <1>1, <1>2, <1>4, <1>5 DEF EndsAt

\* A match that starts inside the value of another ends where that value ends, or before.
LEMMA Nests ==
    ASSUME AddressOK, NEW k, NEW i \in 1..AddressLength, NEW j \in 1..AddressLength,
           Param(k, i), Param(k, j), j < i, i - 1 <= ValueEnd(k, j + 2)
    PROVE  ValueEnd(k, i + 2) <= ValueEnd(k, j + 2)
<1>1. PICK e : e = ValueEnd(k, i + 2)
  OBVIOUS
<1>2. PICK f : f = ValueEnd(k, j + 2)
  OBVIOUS
<1>3. /\ EndsAt(k, i + 2, e) /\ i + 2 <= e
      /\ ~Shows(k, i, {"&"}) /\ ~Shows(k, i + 1, {"&"})
  BY <1>1, ParamIs
<1>4. EndsAt(k, j + 2, f)
  BY <1>2, ParamIs
<1>5. e \in Int /\ f \in Int /\ e <= AddressLength /\ AddressLength \in Nat
  BY <1>3, <1>4, AddressIs DEF EndsAt
<1>6. SUFFICES ASSUME f < e PROVE FALSE
  BY <1>1, <1>2, <1>5
<1>7. Shows(k, f + 1, {"&"})
  BY <1>4, <1>5, <1>6 DEF EndsAt
<1>8. f + 1 = i \/ f + 1 = i + 1 \/ f + 1 \in (i + 2)..e
  BY <1>2, <1>5, <1>6
<1>9. \A m \in (i + 2)..e : ~Shows(k, m, {"&"})
  BY <1>3 DEF EndsAt
<1> QED
  BY <1>3, <1>7, <1>8, <1>9

\* Every match lies in one the scan makes.
LEMMA ScanCovers ==
    ASSUME AddressOK, NEW k, NEW i \in 1..AddressLength, Param(k, i)
    PROVE  \E f \in ScanLevel(k) : Bytes(Value(k, i)) \subseteq Bytes(f)
<1>1. PICK starts : starts = {j \in 1..Len(address) : Param(k, j)}
  OBVIOUS
<1>2. Len(address) = AddressLength /\ AddressLength \in Nat
  BY AddressIs
<1>3. \A j : j \in starts <=> (j \in 1..AddressLength /\ Param(k, j))
  BY <1>1, <1>2
<1> DEFINE Reach == {j \in starts : j <= i /\ (j = i \/ i - 1 <= ValueEnd(k, j + 2))}
<1>4. i \in Reach /\ Reach \in SUBSET Nat
  BY <1>3
<1>5. PICK j \in Reach : \A x \in Reach : j <= x
  BY <1>4, SmallestOf
<1>6. j \in starts /\ j \in 1..AddressLength /\ Param(k, j) /\ j <= i
  BY <1>3, <1>5
<1>7. PICK e \in Int : e = ValueEnd(k, j + 2)
  BY <1>6, ParamIs DEF EndsAt
<1>8. ValueEnd(k, i + 2) <= e /\ i <= e
  <2>1. CASE j = i
    BY <2>1, <1>6, <1>7, ParamIs
  <2>2. CASE j # i
    <3>1. j < i /\ i - 1 <= ValueEnd(k, j + 2)
      BY <2>2, <1>5, <1>6
    <3>2. ValueEnd(k, i + 2) <= ValueEnd(k, j + 2)
      BY <3>1, <1>6, Nests
    <3>3. PICK d \in Int : d = ValueEnd(k, i + 2)
      BY ParamIs DEF EndsAt
    <3>4. i + 2 <= d
      BY <3>3, ParamIs
    <3> QED
      BY <3>2, <3>3, <3>4, <1>7
  <2> QED
    BY <2>1, <2>2
<1>9. ~\E x \in starts : x < j /\ j - 1 <= ValueEnd(k, x + 2)
  <2>1. ASSUME NEW x \in starts, x < j, j - 1 <= ValueEnd(k, x + 2) PROVE FALSE
    <3>1. x \in 1..AddressLength /\ Param(k, x)
      BY <1>3
    <3>2. e <= ValueEnd(k, x + 2)
      BY <3>1, <1>6, <2>1, <1>7, Nests
    <3>3. PICK d \in Int : d = ValueEnd(k, x + 2)
      BY <3>1, ParamIs DEF EndsAt
    <3>4. x \in Reach
      BY <3>1, <3>2, <3>3, <1>6, <1>8, <2>1
    <3>5. j <= x
      BY <3>4, <1>5
    <3> QED
      BY <3>5, <2>1, <3>1, <1>6
  <2> QED
    BY <2>1
<1>10. Value(k, j) \in ScanLevel(k)
  <2>1. j \in {m \in starts : ~\E x \in starts : x < m /\ m - 1 <= ValueEnd(k, x + 2)}
    BY <1>6, <1>9
  <2>2. ScanLevel(k) = {Value(k, m) : m \in {m \in starts :
                     ~\E x \in starts : x < m /\ m - 1 <= ValueEnd(k, x + 2)}}
    BY <1>1 DEF ScanLevel
  <2> QED
    BY <2>1, <2>2
<1>11. Bytes(Value(k, i)) \subseteq Bytes(Value(k, j))
  <2>1. PICK d \in Int : d = ValueEnd(k, i + 2)
    BY ParamIs DEF EndsAt
  <2>2. Bytes(Value(k, i)) = (i + 1 + 1)..d /\ Bytes(Value(k, j)) = (j + 1 + 1)..e
    BY <2>1, <1>7 DEF Bytes, Value
  <2> QED
    BY <2>1, <2>2, <1>8, <1>6
<1> QED
  BY <1>10, <1>11

\* The deepest character of an address is at least as deep as each.
LEMMA DeepestIs ==
    ASSUME AddressOK
    PROVE  Deepest \in Nat /\ \A i \in 1..AddressLength : address[i][2] <= Deepest
<1>1. Len(address) = AddressLength /\ AddressLength \in Nat /\ 1 \in 1..AddressLength /\ MaxDepth \in Nat
  BY AddressIs, UrlAssumption
<1> DEFINE Below == {m \in Nat : \E i \in 1..AddressLength : address[i][2] = MaxDepth - m}
<1>2. MaxDepth - address[1][2] \in Below
  <2>1. PICK d \in 0..MaxDepth : d = address[1][2]
    BY <1>1, AddressIs
  <2> QED
    BY <2>1, <1>1
<1>3. PICK m \in Below : \A x \in Below : m <= x
  BY <1>2, SmallestOf, Below \in SUBSET Nat
<1>4. PICK i \in 1..AddressLength : address[i][2] = MaxDepth - m
  BY <1>3
<1>5. PICK depths : depths = {address[j][2] : j \in 1..Len(address)}
  OBVIOUS
<1>6. PICK d : d = address[i][2]
  OBVIOUS
<1>7. d \in depths /\ d \in Nat
  BY <1>1, <1>5, <1>6, AddressIs
<1>8. \A j \in 1..AddressLength : address[j][2] <= d
  <2>1. ASSUME NEW j \in 1..AddressLength PROVE address[j][2] <= d
    <3>1. PICK b \in 0..MaxDepth : b = address[j][2]
      BY AddressIs
    <3>2. MaxDepth - b \in Below
      BY <3>1, <1>1
    <3>3. m <= MaxDepth - b /\ m \in Nat
      BY <3>2, <1>3
    <3> QED
      BY <3>1, <3>3, <1>4, <1>6, <1>1
  <2> QED
    BY <2>1
<1>9. PICK x : x = CHOOSE y \in depths : \A j \in 1..Len(address) : address[j][2] <= y
  OBVIOUS
<1>10. x \in depths /\ \A j \in 1..Len(address) : address[j][2] <= x
  BY <1>7, <1>8, <1>9, <1>1
<1>11. Deepest = x
  BY <1>5, <1>9 DEF Deepest
<1>12. x \in Nat
  BY <1>10, <1>5, <1>1, AddressIs
<1> QED
  BY <1>10, <1>11, <1>12, <1>1

\* Everything the scans find is a value of the address.
LEMMA FoundIs ==
    ASSUME AddressOK, NEW f \in Analyze
    PROVE  /\ f.from \in 1..AddressLength /\ f.to \in (f.from + 1)..AddressLength
           /\ f.source = "regex" /\ f.score = 85
           /\ f = [from |-> f.from, to |-> f.to, source |-> "regex", score |-> 85]
<1>1. Len(address) = AddressLength /\ AddressLength \in Nat
  BY AddressIs
<1>2. PICK k \in Levels : f \in ScanLevel(k)
  BY DEF Analyze
<1>3. PICK i \in 1..AddressLength : Param(k, i) /\ f = Value(k, i)
  BY <1>1, <1>2 DEF ScanLevel
<1>4. PICK e \in Int : e = ValueEnd(k, i + 2)
  BY <1>3, ParamIs DEF EndsAt
<1>5. i + 2 <= e /\ e <= AddressLength
  BY <1>3, <1>4, ParamIs DEF EndsAt
<1>6. f = [from |-> i + 1, to |-> e, source |-> "regex", score |-> 85]
  BY <1>3, <1>4 DEF Value
<1>7. i + 1 \in 1..AddressLength /\ e \in (i + 1 + 1)..AddressLength
  BY <1>5, <1>1
<1> QED
  BY <1>6, <1>7

\* What one level or all of them find is finite.
LEMMA FoundFinite ==
    ASSUME AddressOK
    PROVE  IsFiniteSet(Analyze)
<1>1. AddressLength \in Nat
  BY AddressIs
<1>2. PICK P : P = (1..AddressLength) \X (1..AddressLength)
  OBVIOUS
<1>3. IsFiniteSet(P)
  <2>1. IsFiniteSet(1..AddressLength)
    BY <1>1, FS_Interval
  <2> QED
    BY <2>1, <1>2, FS_Product
<1>4. PICK g : g = [f \in Analyze |-> <<f.from, f.to>>]
  OBVIOUS
<1>5. ASSUME NEW f \in Analyze PROVE <<f.from, f.to>> \in P
  <2>1. PICK a \in 1..AddressLength : a = f.from
    BY FoundIs
  <2>2. f.to \in 1..AddressLength
    BY <2>1, FoundIs, <1>1
  <2> QED
    BY <2>1, <2>2, <1>2
<1>6. g \in [Analyze -> P]
  BY <1>4, <1>5
<1>7. ASSUME NEW f \in Analyze, NEW h \in Analyze, g[f] = g[h] PROVE f = h
  <2>1. f.from = h.from /\ f.to = h.to
    BY <1>4, <1>7
  <2> QED
    BY <2>1, FoundIs
<1>8. g \in Injection(Analyze, P)
  BY <1>6, <1>7 DEF Injection, IsInjective
<1> QED
  BY <1>3, <1>8, FS_Injection

\* A list of the findings has findings only, all of one rank.
LEMMA ListedFound ==
    ASSUME AddressOK, NEW n \in Nat, NEW ds \in [1..n -> Analyze]
    PROVE  DOMAIN ds = 1..n /\ Spanned(ds)
<1>1. ASSUME NEW i \in 1..n PROVE IsSpan(ds[i])
  <2>1. PICK f \in Analyze : f = ds[i]
    OBVIOUS
  <2>2. f.from \in Int /\ f.score \in Int /\ AddressLength \in Nat
    BY FoundIs, AddressIs
  <2>3. f.to \in Int
    BY <2>2, FoundIs
  <2> QED
    BY <2>1, <2>2, <2>3 DEF IsSpan
<1> QED
  BY <1>1 DEF Spanned

\* A finding that is not kept lies in a kept one, or they cross.
LEMMA KeptOrCrossed ==
    ASSUME AddressOK, NEW n \in Nat, NEW ds \in [1..n -> Analyze], NEW i \in 1..n
    PROVE  \/ \E k \in Kept(ds) : Bytes(ds[i]) \subseteq Bytes(ds[k])
           \/ \E k \in Kept(ds) : /\ Overlap(ds[i], ds[k])
                                  /\ ~(Bytes(ds[i]) \subseteq Bytes(ds[k]))
                                  /\ ~(Bytes(ds[k]) \subseteq Bytes(ds[i]))
<1>1. KeptIs(ds, Kept(ds)) /\ DOMAIN ds = 1..n /\ Spanned(ds)
  BY ListedFound, KeptExists
<1>2. PICK kept : kept = Kept(ds)
  OBVIOUS
<1>3. kept \in SUBSET (1..n) /\ (i \in kept <=> ~\E k \in kept : Before(ds, k, i) /\ Overlap(ds[i], ds[k]))
  BY <1>1, <1>2 DEF KeptIs
<1>4. SUFFICES ASSUME i \notin kept PROVE \/ \E k \in kept : Bytes(ds[i]) \subseteq Bytes(ds[k])
                                          \/ \E k \in kept : /\ Overlap(ds[i], ds[k])
                                                             /\ ~(Bytes(ds[i]) \subseteq Bytes(ds[k]))
                                                             /\ ~(Bytes(ds[k]) \subseteq Bytes(ds[i]))
  BY <1>2
<1>5. PICK k \in kept : Before(ds, k, i) /\ Overlap(ds[i], ds[k])
  BY <1>3, <1>4
<1>6. k \in 1..n
  BY <1>3
<1>7. PICK f \in Analyze : f = ds[i]
  OBVIOUS
<1>8. PICK g \in Analyze : g = ds[k]
  BY <1>6
<1>9. PICK a \in Int, b \in Int : a = f.from /\ b = f.to
  BY <1>1, <1>7 DEF Spanned, IsSpan
<1>10. PICK c \in Int, d \in Int : c = g.from /\ d = g.to
  BY <1>1, <1>6, <1>8 DEF Spanned, IsSpan
<1>11. Tier(f) = 2 /\ Tier(g) = 2 /\ f.score = g.score
  BY FoundIs DEF Tier
<1>12. ~(Length(f) > Length(g))
  <2>1. IsSpan(ds[i]) /\ IsSpan(ds[k]) /\ i \in Nat /\ k \in Nat
    BY <1>1, <1>6 DEF Spanned
  <2>2. LexBefore(Tier(ds[k]), ds[k].score, Length(ds[k]), k, Tier(ds[i]), ds[i].score, Length(ds[i]), i)
    BY <2>1, <1>5, BeforeIs
  <2>3. LexBefore(Tier(g), g.score, Length(g), k, Tier(f), f.score, Length(f), i)
    BY <2>2, <1>7, <1>8
  <2>4. LexBefore(2, 85, Length(g), k, 2, 85, Length(f), i)
    BY <2>3, <1>11, FoundIs
  <2>5. PICK x \in Int, y \in Int : x = Length(g) /\ y = Length(f)
    BY <1>9, <1>10 DEF Length
  <2>6. ~(y > x)
    BY <2>4, <2>5 DEF LexBefore
  <2> QED
    BY <2>5, <2>6
<1>13. b - a <= d - c
  BY <1>12, <1>9, <1>10 DEF Length
<1>14. Bytes(f) = (a + 1)..b /\ Bytes(g) = (c + 1)..d
  BY <1>9, <1>10 DEF Bytes
<1>15. a + 1 <= b /\ c + 1 <= d
  BY <1>9, <1>10, FoundIs
<1>16. Bytes(g) \subseteq Bytes(f) => Bytes(f) \subseteq Bytes(g)
  <2>1. SUFFICES ASSUME Bytes(g) \subseteq Bytes(f) PROVE Bytes(f) \subseteq Bytes(g)
    OBVIOUS
  <2>2. c + 1 \in (c + 1)..d /\ d \in (c + 1)..d
    BY <1>15
  <2>3. c + 1 \in (a + 1)..b /\ d \in (a + 1)..b
    BY <2>1, <2>2, <1>14
  <2>4. a = c /\ b = d
    BY <2>3, <1>13
  <2> QED
    BY <2>4, <1>14
<1> QED
  BY <1>5, <1>7, <1>8, <1>16

\* The masked bytes are those of the kept findings.
PlanBytes(rs) == UNION {Bytes(rs[k]) : k \in 1..Len(rs)}
KeptBytes(ds) == UNION {Bytes(ds[i]) : i \in Kept(ds)}
\* The bytes that are masked are those of the kept findings.
LEMMA MaskedIs ==
    ASSUME AddressOK, NEW n \in Nat, NEW ds \in [1..n -> Analyze]
    PROVE  PlanBytes(Resolve(ds)) = KeptBytes(ds)
<1> PICK rs : rs = Resolve(ds)
  OBVIOUS
<1>1. DOMAIN ds = 1..n /\ Spanned(ds)
  BY ListedFound
<1>0. PICK m \in Nat : \E at : ResolvedAs(ds, at, m)
  BY <1>1, ResolveIs
<1>2. PICK at : ResolvedAs(ds, at, m)
  BY <1>0
<1>3. Kept(ds) \in SUBSET (1..n)
  BY <1>1, KeptExists DEF KeptIs
<1>4. /\ \A k \in 1..m : at[k] \in Kept(ds)
      /\ \A i \in Kept(ds) : \E k \in 1..m : at[k] = i
      /\ rs = [k \in 1..m |-> ds[at[k]]]
  BY <1>2 DEF ResolvedAs
<1>5. rs \in [1..m -> Analyze]
  BY <1>3, <1>4
<1>6. Len(rs) = m
  BY <1>5, SeqIs
<1>7. UNION {Bytes(rs[k]) : k \in 1..Len(rs)} = UNION {Bytes(ds[i]) : i \in Kept(ds)}
  BY <1>4, <1>6
<1> QED
  BY <1>7 DEF PlanBytes, KeptBytes

\* The level that shows a credential's name and separator is scanned.
LEMMA RoundScanned ==
    ASSUME AddressOK, NEW i \in 1..(AddressLength - 2), Round(i) <= DecodeLevels
    PROVE  Round(i) \in Levels
<1>1. PICK before \in Nat : before = IF i = 1 THEN 0 ELSE address[i - 1][2]
  <2>1. i # 1 => i - 1 \in 1..AddressLength
    BY AddressIs
  <2>2. i # 1 => address[i - 1][2] \in Nat
    BY <2>1, AddressIs
  <2> QED
    BY <2>2
<1>2. PICK sep \in Nat : sep = address[i + 1][2]
  <2>1. i + 1 \in 1..AddressLength
    BY AddressIs
  <2> QED
    BY <2>1, AddressIs
<1>3. before <= Deepest /\ sep <= Deepest
  <2>1. i + 1 \in 1..AddressLength /\ (i # 1 => i - 1 \in 1..AddressLength)
    BY AddressIs
  <2> QED
    BY <2>1, <1>1, <1>2, DeepestIs
<1>4. PICK r : r = CHOOSE k \in {before, sep} : before <= k /\ sep <= k
  OBVIOUS
<1>5. r \in {before, sep}
  <2>1. \E k \in {before, sep} : before <= k /\ sep <= k
    OBVIOUS
  <2> QED
    BY <2>1, <1>4
<1>6. Round(i) = r
  BY <1>1, <1>2, <1>4 DEF Round
<1>7. r \in Nat /\ r <= Deepest
  BY <1>3, <1>5
<1> QED
  BY <1>6, <1>7, UrlAssumption DEF Levels

UrlSafe == AddressOK /\ UrlMasked

\* The scan keeps the invariant.
LEMMA ScanSafe ==
    ASSUME AddressOK, ScanAddress
    PROVE  UrlSafe'
<1>1. address' = address /\ found' = Analyze
  BY DEF ScanAddress
<1>2. AddressOK'
  BY <1>1 DEF AddressOK
<1>3. PICK ds : ds = SetToSeq(Analyze)
  OBVIOUS
<1>4. PICK n \in Nat : /\ ds \in [1..n -> Analyze]
                       /\ \A x \in Analyze : \E i \in 1..n : ds[i] = x
  BY <1>3, FoundFinite, ListedSet
<1>5. masked' = PlanBytes(Resolve(ds))
  BY <1>1, <1>3 DEF ScanAddress, PlanBytes
<1>6. PlanBytes(Resolve(ds)) = KeptBytes(ds)
  BY <1>4, MaskedIs
<1>7. masked' = UNION {Bytes(ds[i]) : i \in Kept(ds)}
  BY <1>5, <1>6 DEF KeptBytes
<1>8. Kept(ds) \in SUBSET (1..n)
  BY <1>4, ListedFound, KeptExists DEF KeptIs
<1>9. Len(address) = AddressLength /\ AddressLength \in Nat
  BY AddressIs
<1>10. \A f \in Analyze : f.from \in 1..AddressLength /\ f.to \in (f.from + 1)..AddressLength
  BY FoundIs
<1>11. masked' \subseteq 1..AddressLength
  <2>1. ASSUME NEW i \in Kept(ds) PROVE Bytes(ds[i]) \subseteq 1..AddressLength
    <3>1. PICK f \in Analyze : f = ds[i]
      BY <1>4, <1>8
    <3>2. f.from \in 1..AddressLength /\ f.to \in (f.from + 1)..AddressLength
      BY <1>10
    <3> QED
      BY <3>1, <3>2, <1>9 DEF Bytes
  <2> QED
    BY <2>1, <1>7
<1>12. UrlTypeOK'
  BY <1>1, <1>9, <1>10, <1>11 DEF UrlTypeOK
<1>13. ASSUME NEW f \in Analyze PROVE Bytes(f) \subseteq masked' \/ Crossed(f)'
  <2>1. PICK i \in 1..n : ds[i] = f
    BY <1>4
  <2>2. CASE \E k \in Kept(ds) : Bytes(ds[i]) \subseteq Bytes(ds[k])
    BY <2>1, <2>2, <1>7
  <2>3. CASE \E k \in Kept(ds) : /\ Overlap(ds[i], ds[k])
                                 /\ ~(Bytes(ds[i]) \subseteq Bytes(ds[k]))
                                 /\ ~(Bytes(ds[k]) \subseteq Bytes(ds[i]))
    <3>1. PICK g \in Analyze : /\ Overlap(f, g)
                               /\ ~(Bytes(f) \subseteq Bytes(g)) /\ ~(Bytes(g) \subseteq Bytes(f))
      BY <2>1, <2>3, <1>4, <1>8
    <3> QED
      BY <3>1, <1>1 DEF Crossed
  <2> QED
    BY <1>4, <2>2, <2>3, KeptOrCrossed
<1>14. OnlyCrossedNarrowed'
  BY <1>13, <1>1 DEF OnlyCrossedNarrowed
<1>15. ASSUME NEW i \in 1..(AddressLength - 2), Round(i) <= DecodeLevels, Param(Round(i), i)
       PROVE  \/ Bytes(Value(Round(i), i)) \subseteq masked'
              \/ \E f \in Analyze : Bytes(Value(Round(i), i)) \subseteq Bytes(f) /\ Crossed(f)'
  <2>1. PICK k : k = Round(i)
    OBVIOUS
  <2>2. k \in Levels /\ Param(k, i)
    BY <2>1, <1>15, RoundScanned
  <2>3. i \in 1..AddressLength
    BY <1>9
  <2>4. PICK f \in ScanLevel(k) : Bytes(Value(k, i)) \subseteq Bytes(f)
    BY <2>2, <2>3, ScanCovers
  <2>5. f \in Analyze
    BY <2>2, <2>4 DEF Analyze
  <2> QED
    BY <2>1, <2>4, <2>5, <1>13
<1>16. WholeValueMasked'
  <2>1. \A i \in 1..(AddressLength - 2) :
           /\ Round(i)' = Round(i) /\ Value(Round(i), i)' = Value(Round(i), i)
           /\ Param(Round(i), i)' <=> Param(Round(i), i)
    BY <1>1 DEF Round, Value, Param, ValueEnd, Shows
  <2> QED
    BY <1>15, <2>1, <1>1, <1>9 DEF WholeValueMasked
<1> QED
  BY <1>2, <1>12, <1>14, <1>16 DEF UrlSafe, UrlMasked

\* A credential parameter of an address is masked as a whole at the level that shows it, and
\* a deeper level takes nothing away from it but where the values of two cross
\* (recognizers.rs, UrlCredentialRecognizer; detect.rs, resolve_overlaps).
THEOREM UrlCredentialMasked == UrlSpec => []UrlMasked
<1>1. UrlInit => UrlSafe
  <2> SUFFICES ASSUME UrlInit PROVE UrlSafe
    OBVIOUS
  <2>1. AddressOK /\ found = {} /\ masked = {}
    BY DEF UrlInit, AddressOK
  <2> QED
    BY <2>1 DEF UrlSafe, UrlMasked, UrlTypeOK, OnlyCrossedNarrowed, WholeValueMasked
<1>2. UrlSafe /\ [UrlNext]_urlVars => UrlSafe'
  <2> SUFFICES ASSUME UrlSafe, [UrlNext]_urlVars PROVE UrlSafe'
    OBVIOUS
  <2>1. CASE ScanAddress
    BY <2>1, ScanSafe DEF UrlSafe
  <2>2. CASE UNCHANGED urlVars
    <3>1. address' = address /\ found' = found /\ masked' = masked
      BY <2>2 DEF urlVars
    <3>2. AddressOK'
      BY <3>1 DEF UrlSafe, AddressOK
    <3>3. UrlTypeOK'
      BY <3>1 DEF UrlSafe, UrlMasked, UrlTypeOK
    <3>4. OnlyCrossedNarrowed'
      BY <3>1 DEF UrlSafe, UrlMasked, OnlyCrossedNarrowed, Crossed
    <3>5. WholeValueMasked'
      <4>1. \A i : /\ Round(i)' = Round(i) /\ Value(Round(i), i)' = Value(Round(i), i)
                   /\ Param(Round(i), i)' <=> Param(Round(i), i)
        BY <3>1 DEF Round, Value, Param, ValueEnd, Shows
      <4>2. \A f : Crossed(f)' <=> Crossed(f)
        BY <3>1 DEF Crossed
      <4> QED
        BY <4>1, <4>2, <3>1 DEF UrlSafe, UrlMasked, WholeValueMasked
    <3> QED
      BY <3>2, <3>3, <3>4, <3>5 DEF UrlSafe, UrlMasked
  <2> QED
    BY <2>1, <2>2 DEF UrlNext
<1>3. UrlSafe => UrlMasked
  BY DEF UrlSafe
<1> QED
  BY <1>1, <1>2, <1>3, PTL DEF UrlSpec

(***************************************************************************)
(* The items of a list that are in a set.                                  *)
(***************************************************************************)
Sieve(T, S) == [x \in T |-> IF x \in S THEN <<x>> ELSE <<>>]

\* To choose the items of a text is to spell each chosen one by itself, the others by nothing.
LEMMA SieveIs ==
    ASSUME NEW T, NEW S, NEW s \in Seq(T)
    PROVE  Those(s, S) = Spell(Sieve(T, S), s) /\ Spells(Sieve(T, S), T, T \cap S)
<1>1. PICK g : g = Sieve(T, S)
  OBVIOUS
<1>2. \A x \in T : g[x] = IF x \in S THEN <<x>> ELSE <<>>
  BY <1>1 DEF Sieve
<1>3. \A i \in DOMAIN s : s[i] \in T
  OBVIOUS
<1>4. [i \in DOMAIN s |-> IF s[i] \in S THEN <<s[i]>> ELSE <<>>] = [i \in DOMAIN s |-> g[s[i]]]
  BY <1>2, <1>3
<1>5. Spells(g, T, T \cap S)
  <2> PICK U : U = T \cap S
    OBVIOUS
  <2>1. ASSUME NEW x \in T PROVE g[x] \in Seq(U)
    <3>1. CASE x \in S
      <4>1. x \in U
        BY <3>1
      <4>2. <<x>> \in Seq(U)
        BY <4>1
      <4> QED
        BY <4>2, <3>1, <1>2
    <3>2. CASE x \notin S
      <4>1. g[x] = <<>>
        BY <3>2, <1>2
      <4> QED
        BY <4>1
    <3> QED
      BY <3>1, <3>2
  <2> QED
    BY <2>1 DEF Spells
<1> QED
  BY <1>1, <1>4, <1>5 DEF Those, Spell

\* What is chosen is chosen from the text and from the set.
LEMMA ThoseType ==
    ASSUME NEW T, NEW S, NEW s \in Seq(T)
    PROVE  Those(s, S) \in Seq(T \cap S)
<1>1. PICK g : g = Sieve(T, S)
  OBVIOUS
<1>2. Those(s, S) = Spell(g, s) /\ Spells(g, T, T \cap S)
  BY <1>1, SieveIs
<1>3. Spell(g, s) \in Seq(T \cap S)
  BY <1>2, SpellType
<1> QED
  BY <1>2, <1>3

\* What is chosen is a text of the same items.
LEMMA ThoseIn ==
    ASSUME NEW T, NEW S, NEW s \in Seq(T)
    PROVE  Those(s, S) \in Seq(T)
<1>1. PICK w : w = Those(s, S)
  OBVIOUS
<1>2. w \in Seq(T \cap S)
  BY <1>1, ThoseType
<1>3. w \in Seq(T)
  BY <1>2
<1> QED
  BY <1>1, <1>3

\* Choosing distributes over concatenation.
LEMMA ThoseConcat ==
    ASSUME NEW T, NEW S, NEW s \in Seq(T), NEW t \in Seq(T)
    PROVE  Those(s \o t, S) = Those(s, S) \o Those(t, S)
<1>1. PICK g : g = Sieve(T, S)
  OBVIOUS
<1>2. Spells(g, T, T \cap S)
  BY <1>1, SieveIs
<1>3. Spell(g, s \o t) = Spell(g, s) \o Spell(g, t)
  BY <1>2, SpellConcat
<1>4. s \o t \in Seq(T)
  BY ConcatProperties
<1>5. Those(s \o t, S) = Spell(g, s \o t)
  BY <1>1, <1>4, SieveIs
<1>6. Those(s, S) = Spell(g, s) /\ Those(t, S) = Spell(g, t)
  BY <1>1, SieveIs
<1> QED
  BY <1>3, <1>5, <1>6

\* Nothing is chosen of nothing.
LEMMA ThoseEmpty == ASSUME NEW S PROVE Those(<<>>, S) = <<>>
<1>1. PICK T : T = {}
  OBVIOUS
<1>2. PICK s : s = <<>>
  OBVIOUS
<1> s \in Seq(T)
  BY <1>2
<1>3. PICK g : g = Sieve(T, S)
  OBVIOUS
<1>4. Those(s, S) = Spell(g, s)
  BY <1>3, SieveIs
<1> QED
  BY <1>2, <1>4, SpellEmpty

\* One item is chosen or not.
LEMMA ThoseOne ==
    ASSUME NEW S, NEW x
    PROVE  Those(<<x>>, S) = IF x \in S THEN <<x>> ELSE <<>>
<1>1. PICK T : T = {x}
  OBVIOUS
<1>2. x \in T /\ <<x>> \in Seq(T)
  BY <1>1
<1>3. PICK g : g = Sieve(T, S)
  OBVIOUS
<1>4. Spells(g, T, T \cap S) /\ Those(<<x>>, S) = Spell(g, <<x>>)
  BY <1>2, <1>3, SieveIs
<1>5. Spell(g, <<x>>) = g[x]
  BY <1>2, <1>4, SpellOne
<1>6. g[x] = IF x \in S THEN <<x>> ELSE <<>>
  BY <1>2, <1>3 DEF Sieve
<1> QED
  BY <1>4, <1>5, <1>6

\* Only what the list holds matters to the choice.
LEMMA ThoseSame ==
    ASSUME NEW s, NEW S, NEW R, \A i \in DOMAIN s : s[i] \in S <=> s[i] \in R
    PROVE  Those(s, S) = Those(s, R)
<1>1. [i \in DOMAIN s |-> IF s[i] \in S THEN <<s[i]>> ELSE <<>>]
        = [i \in DOMAIN s |-> IF s[i] \in R THEN <<s[i]>> ELSE <<>>]
  OBVIOUS
<1> QED
  BY <1>1 DEF Those

\* The items of a sequence are those at its places.
LEMMA SeqRange ==
    ASSUME NEW T, NEW s \in Seq(T)
    PROVE  /\ s \in Seq(Range(s)) /\ Range(s) \in SUBSET T
           /\ DOMAIN s = 1..Len(s) /\ Len(s) \in Nat
           /\ \A x : x \in Range(s) <=> \E i \in 1..Len(s) : s[i] = x
<1>1. PICK n \in Nat : n = Len(s)
  OBVIOUS
<1>2. DOMAIN s = 1..n
  BY <1>1
<1>3. \A x : x \in Range(s) <=> \E i \in 1..n : s[i] = x
  BY <1>2 DEF Range
<1>4. \A i \in 1..n : s[i] \in T
  BY <1>1
<1>5. s = [i \in 1..n |-> s[i]]
  BY <1>1
<1>6. s \in [1..n -> Range(s)]
  BY <1>3, <1>5
<1>7. s \in Seq(Range(s))
  BY <1>6, SeqIs
<1> QED
  BY <1>1, <1>2, <1>3, <1>4, <1>7

Around(T, s, y) == \E a, b : a \in Seq(T) /\ b \in Seq(T) /\ s = a \o (y \o b)

\* A sequence is what stands before a place, the item there and what stands after it.
LEMMA SeqSplitAt ==
    ASSUME NEW T, NEW s \in Seq(T), NEW i \in 1..Len(s), NEW x, x = s[i]
    PROVE  Around(T, s, <<x>>)
<1>1. PICK n \in Nat : n = Len(s)
  OBVIOUS
<1>2. i \in 1..n /\ i \in Nat /\ i - 1 \in Nat /\ i + 1 \in Nat
  BY <1>1
<1>3. PICK a : a = SubSeq(s, 1, i - 1)
  OBVIOUS
<1>4. PICK b : b = SubSeq(s, i + 1, n)
  OBVIOUS
<1>5. a \in Seq(T) /\ b \in Seq(T)
  BY <1>1, <1>2, <1>3, <1>4, SubSeqIs
<1>6. SubSeq(s, i, i) = <<x>>
  BY SubSeqShort
<1>7. <<x>> \o b = SubSeq(s, i, n)
  BY <1>1, <1>2, <1>4, <1>6, SubSeqJoin
<1>8. PICK h \in Nat : h = i - 1
  BY <1>2
<1>9. h + 1 = i
  BY <1>2, <1>8
<1>10. SubSeq(s, 1, h) \o SubSeq(s, h + 1, n) = SubSeq(s, 1, n)
  <2>1. 1 <= h + 1 /\ h <= n
    BY <1>2, <1>8
  <2>2. n <= Len(s)
    BY <1>1
  <2> QED
    BY <2>1, <2>2, SubSeqJoin
<1>11. SubSeq(s, 1, n) = s
  BY <1>1
<1>12. a \o SubSeq(s, i, n) = s
  BY <1>3, <1>8, <1>9, <1>10, <1>11
<1> QED
  BY <1>5, <1>7, <1>12 DEF Around

\* The first item of a concatenation that begins with one item.
LEMMA HeadOf ==
    ASSUME NEW T, NEW y \in Seq(T), NEW v \in Seq(T), Len(y) = 1
    PROVE  (y \o v)[1] = y[1]
<1>0. PICK m \in Nat : m = Len(v)
  OBVIOUS
<1>2. Len(y \o v) = 1 + m
  BY <1>0, ConcatProperties
<1>1. Len(y \o v) = 1 + Len(v) /\ 1 \in 1..Len(y \o v)
  BY <1>0, <1>2
<1> QED
  BY <1>1, ConcatProperties

\* The chosen items are the items of the list that are in the set.
LEMMA ThoseRange ==
    ASSUME NEW T, NEW S, NEW s \in Seq(T)
    PROVE  Range(Those(s, S)) = Range(s) \cap S
<1>1. PICK w : w = Those(s, S)
  OBVIOUS
<1>2. w \in Seq(Range(s) \cap S)
  BY <1>1, SeqRange, ThoseType
<1>3. Range(w) \subseteq Range(s) \cap S
  BY <1>2, SeqRange
<1>4. ASSUME NEW x \in Range(s) \cap S PROVE x \in Range(w)
  <2>1. PICK i \in 1..Len(s) : s[i] = x
    BY SeqRange
  <2>2. x \in T
    BY SeqRange
  <2>3. PICK y : y = <<x>>
    OBVIOUS
  <2>4. y \in Seq(T) /\ y[1] = x /\ Len(y) = 1
    BY <2>2, <2>3
  <2>5. PICK a, b : a \in Seq(T) /\ b \in Seq(T) /\ s = a \o (y \o b)
    <3>1. Around(T, s, y)
      BY <2>1, <2>3, SeqSplitAt
    <3> QED
      BY <3>1 DEF Around
  <2>6. PICK u : u = Those(a, S)
    OBVIOUS
  <2>7. PICK v : v = Those(b, S)
    OBVIOUS
  <2>8. PICK c : c = y \o v
    OBVIOUS
  <2>9. u \in Seq(T) /\ v \in Seq(T)
    BY <2>5, <2>6, <2>7, ThoseIn
  <2>10. c \in Seq(T) /\ Len(c) = 1 + Len(v) /\ c[1] = x
    <3>1. c \in Seq(T) /\ Len(c) = 1 + Len(v)
      BY <2>4, <2>8, <2>9, ConcatProperties
    <3>2. c[1] = y[1]
      BY <2>4, <2>8, <2>9, HeadOf
    <3> QED
      BY <3>1, <3>2, <2>4
  <2>11. w = u \o c
    <3>1. PICK d : d = y \o b
      OBVIOUS
    <3>2. d \in Seq(T)
      BY <3>1, <2>4, <2>5, ConcatProperties
    <3>3. Those(a \o d, S) = Those(a, S) \o Those(d, S)
      BY <3>2, <2>5, ThoseConcat
    <3>4. Those(y, S) = y
      BY <2>1, <2>3, ThoseOne
    <3>5. Those(y \o b, S) = Those(y, S) \o Those(b, S)
      BY <2>4, <2>5, ThoseConcat
    <3> QED
      BY <3>1, <3>3, <3>4, <3>5, <1>1, <2>5, <2>6, <2>7, <2>8
  <2>12. PICK k \in Nat : k = Len(u)
    BY <2>9
  <2>13. PICK m \in Nat : m = Len(c)
    BY <2>10
  <2>14. m >= 1
    BY <2>9, <2>10, <2>13
  <2>15. k + 1 > k /\ k + 1 <= k + Len(c) /\ k + 1 - k = 1
    BY <2>13, <2>14
  <2>16. w[k + 1] = c[k + 1 - k]
    BY <2>9, <2>10, <2>11, <2>12, <2>15, ConcatRight
  <2>17. Len(w) = k + m
    BY <2>9, <2>10, <2>11, <2>12, <2>13, ConcatProperties
  <2>18. k + 1 \in 1..Len(w)
    BY <2>17, <2>14
  <2> QED
    BY <2>10, <2>15, <2>16, <2>18, <1>2, SeqRange
<1> QED
  BY <1>1, <1>3, <1>4

\* Choosing twice is choosing once.
LEMMA ThoseTwice ==
    ASSUME NEW T, NEW A, NEW B, NEW s \in Seq(T)
    PROVE  Those(Those(s, A), B) = Those(s, A \cap B)
<1> DEFINE Good(q) == Those(Those(q, A), B) = Those(q, A \cap B)
<1> DEFINE Bad == {k \in Nat : \E q \in Seq(T) : Len(q) = k /\ ~Good(q)}
<1>1. SUFFICES ASSUME Bad # {} PROVE FALSE
  <2>1. Bad = {}
    BY <1>1
  <2>2. Len(s) \in Nat
    OBVIOUS
  <2> QED
    BY <2>1, <2>2
<1>2. PICK k \in Bad : \A x \in Bad : k <= x
  BY SmallestOf, <1>1, Bad \in SUBSET Nat
<1>3. PICK q \in Seq(T) : Len(q) = k /\ ~Good(q)
  BY <1>2
<1>4. k \in Nat /\ k - 1 \notin Bad
  <2>1. k \in Nat
    BY <1>2
  <2> HIDE DEF Bad
  <2>2. k - 1 \in Bad => k <= k - 1
    BY <1>2
  <2> QED
    BY <2>1, <2>2
<1>5. k # 0
  <2>1. SUFFICES ASSUME k = 0 PROVE FALSE
    OBVIOUS
  <2>2. q = <<>>
    BY <1>3, <2>1
  <2> QED
    BY <2>2, <1>3, ThoseEmpty
<1>6. k - 1 \in Nat /\ k \in 1..k
  BY <1>4, <1>5
<1>7. PICK h \in Nat : h = k - 1
  BY <1>6
<1>8. h + 1 = k /\ 1 <= h + 1 /\ h <= k
  BY <1>4, <1>7
<1>9. PICK f : f = SubSeq(q, 1, h)
  OBVIOUS
<1>10. f \in Seq(T) /\ Len(f) = h
  BY <1>3, <1>8, <1>9, SubSeqIs
<1>11. PICK x : x = q[k]
  OBVIOUS
<1>12. PICK y : y = <<x>>
  OBVIOUS
<1>21. y \in Seq(T)
  <2>1. x \in T
    BY <1>3, <1>6, <1>11
  <2> QED
    BY <2>1, <1>12
<1>13. q = f \o y
  <2>1. SubSeq(q, k, k) = y
    BY <1>3, <1>6, <1>11, <1>12, SubSeqShort
  <2>2. SubSeq(q, 1, h) \o SubSeq(q, h + 1, k) = SubSeq(q, 1, k)
    BY <1>3, <1>8, SubSeqJoin
  <2>3. SubSeq(q, 1, k) = q
    BY <1>3
  <2> QED
    BY <2>1, <2>2, <2>3, <1>8, <1>9
<1>14. Good(f)
  BY <1>4, <1>7, <1>10
<1> HIDE DEF Bad, Good
<1>15. PICK fa : fa = Those(f, A)
  OBVIOUS
<1>16. PICK xa : xa = Those(y, A)
  OBVIOUS
<1>22. fa \in Seq(T) /\ xa \in Seq(T)
  BY <1>10, <1>15, <1>16, <1>21, ThoseIn
<1>17. Those(q, A) = fa \o xa
  <2>1. Those(f \o y, A) = Those(f, A) \o Those(y, A)
    BY <1>10, <1>21, ThoseConcat
  <2> QED
    BY <2>1, <1>13, <1>15, <1>16
<1>18. Those(Those(q, A), B) = Those(fa, B) \o Those(xa, B)
  <2>1. Those(fa \o xa, B) = Those(fa, B) \o Those(xa, B)
    BY <1>22, ThoseConcat
  <2> QED
    BY <2>1, <1>17
<1>19. Those(q, A \cap B) = Those(f, A \cap B) \o Those(y, A \cap B)
  <2>1. Those(f \o y, A \cap B) = Those(f, A \cap B) \o Those(y, A \cap B)
    BY <1>10, <1>21, ThoseConcat
  <2> QED
    BY <2>1, <1>13
<1>20. Those(xa, B) = Those(y, A \cap B)
  <2>1. xa = IF x \in A THEN <<x>> ELSE <<>>
    BY <1>16, <1>12, ThoseOne
  <2>2. Those(y, A \cap B) = IF x \in A \cap B THEN <<x>> ELSE <<>>
    BY <1>12, ThoseOne
  <2>3. CASE x \in A
    BY <2>1, <2>2, <2>3, ThoseOne
  <2>4. CASE x \notin A
    BY <2>1, <2>2, <2>4, ThoseEmpty
  <2> QED
    BY <2>3, <2>4
<1> QED
  BY <1>3, <1>14, <1>15, <1>18, <1>19, <1>20 DEF Good

(***************************************************************************)
(* The splice.                                                             *)
(***************************************************************************)

\* The bytes a+1 .. b of the leaf.
Part(a, b) == SubSeq(Leaf, a + 1, b)

\* The text of a leaf: each byte stands at its own place.
LEMMA LeafIs ==
    /\ TextLength \in Nat /\ Leaf \in Seq(Int) /\ Len(Leaf) = TextLength
    /\ \A i \in 1..TextLength : Leaf[i] = i
<1>1. TextLength \in Nat
  BY DetectAssumption
<1>2. Leaf \in [1..TextLength -> Int] /\ \A i \in 1..TextLength : Leaf[i] = i
  BY DEF Leaf
<1> QED
  BY <1>1, <1>2, SeqIs

\* A part of the leaf.
LEMMA PartIs ==
    ASSUME NEW a \in Nat, NEW b \in Nat, a <= b, b <= TextLength
    PROVE  /\ Part(a, b) \in Seq(Int) /\ Len(Part(a, b)) = b - a
           /\ \A i \in 1..(b - a) : Part(a, b)[i] = a + i
<1>1. 1 <= a + 1 /\ a + 1 <= b + 1 /\ b <= Len(Leaf) /\ a + 1 \in Nat
  BY LeafIs
<1>2. /\ Part(a, b) \in Seq(Int) /\ Len(Part(a, b)) = b + 1 - (a + 1)
      /\ \A i \in 1..(b + 1 - (a + 1)) : Part(a, b)[i] = Leaf[a + 1 + i - 1]
  BY <1>1, LeafIs, SubSeqIs DEF Part
<1>3. b + 1 - (a + 1) = b - a
  OBVIOUS
<1>4. ASSUME NEW i \in 1..(b - a) PROVE Part(a, b)[i] = a + i
  <2>1. a + 1 + i - 1 = a + i /\ a + i \in 1..TextLength
    BY LeafIs
  <2> QED
    BY <1>2, <1>3, <2>1, LeafIs
<1> QED
  BY <1>2, <1>3, <1>4

\* Adjacent parts of the leaf are one.
LEMMA PartJoin ==
    ASSUME NEW a \in Nat, NEW b \in Nat, NEW c \in Nat, a <= b, b <= c, c <= TextLength
    PROVE  Part(a, b) \o Part(b, c) = Part(a, c)
<1>1. 1 <= a + 1 /\ a + 1 <= b + 1 /\ b <= c /\ c <= Len(Leaf) /\ a + 1 \in Nat
  BY LeafIs
<1> QED
  BY <1>1, LeafIs, SubSeqJoin DEF Part

\* The whole leaf is a part of it.
LEMMA PartWhole == Part(0, TextLength) = Leaf
<1>1. Len(Leaf) = TextLength /\ Leaf \in Seq(Int)
  BY LeafIs
<1>2. SubSeq(Leaf, 1, Len(Leaf)) = Leaf
  BY <1>1
<1> QED
  BY <1>1, <1>2 DEF Part

\* What is chosen of a part depends on its bytes alone.
LEMMA PartThose ==
    ASSUME NEW a \in Nat, NEW b \in Nat, a <= b, b <= TextLength, NEW S, NEW R,
           \A x \in (a + 1)..b : x \in S <=> x \in R
    PROVE  Those(Part(a, b), S) = Those(Part(a, b), R)
<1>1. PICK p : p = Part(a, b)
  OBVIOUS
<1>2. DOMAIN p = 1..(b - a)
  BY <1>1, PartIs
<1>3. \A i \in DOMAIN p : p[i] \in (a + 1)..b
  <2>1. ASSUME NEW i \in 1..(b - a) PROVE p[i] \in (a + 1)..b
    <3>1. p[i] = a + i
      BY <1>1, PartIs
    <3>2. a + i \in (a + 1)..b
      OBVIOUS
    <3> QED
      BY <3>1, <3>2
  <2> QED
    BY <2>1, <1>2
<1>4. \A i \in DOMAIN p : p[i] \in S <=> p[i] \in R
  BY <1>3
<1> QED
  BY <1>1, <1>4, ThoseSame

\* Nothing is chosen of a list none of whose items is wanted.
LEMMA ThoseNone ==
    ASSUME NEW T, NEW s \in Seq(T), NEW S, \A x \in T : x \notin S
    PROVE  Those(s, S) = <<>>
<1>1. T \cap S = {}
  OBVIOUS
<1>2. Those(s, S) \in Seq(T \cap S)
  BY ThoseType
<1>3. PICK w : w = Those(s, S)
  OBVIOUS
<1>4. w \in Seq({})
  BY <1>1, <1>2, <1>3
<1>5. PICK n \in Nat : n = Len(w)
  BY <1>4
<1>6. n = 0
  <2>1. SUFFICES ASSUME n # 0 PROVE FALSE
    OBVIOUS
  <2>2. 1 \in 1..n
    BY <2>1
  <2>3. w[1] \in {}
    BY <1>4, <1>5, <2>2
  <2> QED
    BY <2>3
<1>7. w = <<>>
  BY <1>4, <1>5, <1>6
<1> QED
  BY <1>3, <1>7

\* The two parts of a concatenation.
LEMMA SplitLeft ==
    ASSUME NEW S, NEW x \in Seq(S), NEW y \in Seq(S)
    PROVE  SubSeq(x \o y, 1, Len(x)) = x
<1>1. PICK z : z = x \o y
  OBVIOUS
<1>2. PICK n \in Nat : n = Len(x)
  OBVIOUS
<1>3. PICK m \in Nat : m = Len(y)
  OBVIOUS
<1>4. z \in Seq(S) /\ Len(z) = n + m
  BY <1>1, <1>2, <1>3, ConcatProperties
<1>5. \A i \in 1..n : z[i] = x[i]
  BY <1>1, <1>2, ConcatProperties
<1>6. PICK w : w = SubSeq(z, 1, n)
  OBVIOUS
<1>7. w \in Seq(S) /\ Len(w) = n /\ \A i \in 1..n : w[i] = z[i]
  <2>1. n <= Len(z) /\ 1 <= n + 1
    BY <1>4
  <2>2. /\ w \in Seq(S) /\ Len(w) = n + 1 - 1
        /\ \A i \in 1..(n + 1 - 1) : w[i] = z[1 + i - 1]
    BY <1>4, <1>6, <2>1, SubSeqIs
  <2>3. n + 1 - 1 = n /\ \A i \in 1..n : 1 + i - 1 = i
    OBVIOUS
  <2> QED
    BY <2>2, <2>3
<1>8. w = x
  BY <1>2, <1>5, <1>7
<1> QED
  BY <1>1, <1>2, <1>6, <1>8

\* What follows the first part of a concatenation is the second.
LEMMA SplitRight ==
    ASSUME NEW S, NEW x \in Seq(S), NEW y \in Seq(S)
    PROVE  SubSeq(x \o y, Len(x) + 1, Len(x \o y)) = y
<1>1. PICK z : z = x \o y
  OBVIOUS
<1>2. PICK n \in Nat : n = Len(x)
  OBVIOUS
<1>3. PICK m \in Nat : m = Len(y)
  OBVIOUS
<1>4. z \in Seq(S) /\ Len(z) = n + m
  BY <1>1, <1>2, <1>3, ConcatProperties
<1>5. ASSUME NEW i \in 1..m PROVE z[n + i] = y[i]
  <2>1. n + i \in Int /\ n + i > n /\ n + i <= n + Len(y) /\ n + i - n = i
    BY <1>3
  <2> QED
    BY <1>1, <1>2, <2>1, ConcatRight
<1>6. PICK w : w = SubSeq(z, n + 1, n + m)
  OBVIOUS
<1>7. w \in Seq(S) /\ Len(w) = m /\ \A i \in 1..m : w[i] = z[n + i]
  <2>1. n + 1 \in Nat /\ n + m \in Nat /\ 1 <= n + 1 /\ n + 1 <= n + m + 1 /\ n + m <= Len(z)
    BY <1>4
  <2>2. /\ w \in Seq(S) /\ Len(w) = n + m + 1 - (n + 1)
        /\ \A i \in 1..(n + m + 1 - (n + 1)) : w[i] = z[n + 1 + i - 1]
    BY <1>4, <1>6, <2>1, SubSeqIs
  <2>3. n + m + 1 - (n + 1) = m /\ \A i \in 1..m : n + 1 + i - 1 = n + i
    OBVIOUS
  <2> QED
    BY <2>2, <2>3
<1>8. w = y
  BY <1>3, <1>5, <1>7
<1> QED
  BY <1>1, <1>2, <1>4, <1>6, <1>8

\* A finding that is spliced in: it is in the text and has an operator.
Spliceable(d) ==
    /\ d.from \in Nat /\ d.to \in Nat /\ d.from < d.to /\ d.to <= TextLength
    /\ d.op \in Operators

\* What stands in the place of a finding.
Put(d) == IF d.op = "keep" THEN Part(d.from, d.to) ELSE Replacement(d)

\* A mask is some stars and the last byte.
LEMMA MaskIs ==
    ASSUME NEW d, Spliceable(d), d.op = "mask"
    PROVE  \E q \in Seq(Int) : /\ Replacement(d) = q \o <<d.to>>
                               /\ \A i \in DOMAIN q : q[i] = -4
<1>1. PICK n \in Nat : n = Length(d) /\ n # 0
  BY DEF Spliceable, Length
<1>2. PICK to \in Int : to = d.to
  BY DEF Spliceable
<1>3. PICK r : r = [i \in 1..n |-> IF i = n THEN to ELSE -4]
  OBVIOUS
<1>4. r \in [1..n -> Int]
  BY <1>3
<1>5. r \in Seq(Int) /\ Len(r) = n
  BY <1>4, SeqIs
<1>6. Replacement(d) = r
  BY <1>1, <1>2, <1>3 DEF Replacement
<1>7. PICK h \in Nat : h + 1 = n
  BY <1>1
<1>8. PICK q : q = SubSeq(r, 1, h)
  OBVIOUS
<1>9. q \in Seq(Int) /\ Len(q) = h /\ \A i \in 1..h : q[i] = r[i]
  <2>1. 1 <= h + 1 /\ h <= Len(r)
    BY <1>5, <1>7
  <2>2. /\ q \in Seq(Int) /\ Len(q) = h + 1 - 1
        /\ \A i \in 1..(h + 1 - 1) : q[i] = r[1 + i - 1]
    BY <1>5, <1>8, <2>1, SubSeqIs
  <2>3. h + 1 - 1 = h /\ \A i \in 1..h : 1 + i - 1 = i
    OBVIOUS
  <2> QED
    BY <2>2, <2>3
<1>10. \A i \in DOMAIN q : q[i] = -4
  <2>1. DOMAIN q = 1..h
    BY <1>9
  <2>2. ASSUME NEW i \in 1..h PROVE q[i] = -4
    <3>1. i \in 1..n /\ i # n
      BY <1>7
    <3>2. r[i] = -4
      BY <3>1, <1>3
    <3> QED
      BY <3>2, <1>9
  <2> QED
    BY <2>1, <2>2
<1>11. SubSeq(r, n, n) = <<to>>
  <2>1. n \in 1..Len(r) /\ r[n] = to
    BY <1>1, <1>3, <1>5
  <2> QED
    BY <2>1, <1>5, SubSeqShort
<1>12. SubSeq(r, 1, h) \o SubSeq(r, h + 1, n) = SubSeq(r, 1, n)
  <2>1. 1 <= h + 1 /\ h <= n /\ n <= Len(r)
    BY <1>5, <1>7
  <2> QED
    BY <2>1, <1>5, SubSeqJoin
<1>13. SubSeq(r, 1, n) = r
  BY <1>5
<1>14. r = q \o <<to>>
  BY <1>7, <1>8, <1>11, <1>12, <1>13
<1> QED
  BY <1>2, <1>6, <1>9, <1>10, <1>14

\* What is put in the place of a finding is a text.
LEMMA PutType ==
    ASSUME NEW d, Spliceable(d)
    PROVE  Put(d) \in Seq(Int)
<1>1. CASE d.op = "keep"
  <2>1. PICK a \in Nat, b \in Nat : a = d.from /\ b = d.to /\ a <= b /\ b <= TextLength
    BY DEF Spliceable
  <2>2. Part(a, b) \in Seq(Int)
    BY <2>1, PartIs
  <2> QED
    BY <2>1, <2>2, <1>1 DEF Put
<1>2. CASE d.op = "token"
  <2>1. Put(d) = <<-1, -2>>
    BY <1>2 DEF Put, Replacement, TokenBytes
  <2> QED
    BY <2>1
<1>3. CASE d.op = "redact"
  <2>1. Put(d) = <<-3>>
    BY <1>3 DEF Put, Replacement
  <2> QED
    BY <2>1
<1>4. CASE d.op = "mask"
  <2>1. PICK q \in Seq(Int) : Replacement(d) = q \o <<d.to>>
    BY <1>4, MaskIs
  <2>2. <<d.to>> \in Seq(Int)
    BY DEF Spliceable
  <2>3. q \o <<d.to>> \in Seq(Int)
    BY <2>2, ConcatProperties
  <2> QED
    BY <2>1, <2>3, <1>4 DEF Put
<1> QED
  BY <1>1, <1>2, <1>3, <1>4 DEF Spliceable, Operators

\* Of a finding, its replacement leaves the bytes the finding does not hide.
LEMMA PutThose ==
    ASSUME NEW d, Spliceable(d)
    PROVE  Those(Put(d), Nat) = Those(Part(d.from, d.to), Nat \ HiddenBy(d))
<1>1. PICK a \in Nat, b \in Nat : a = d.from /\ b = d.to /\ a < b /\ b <= TextLength
  BY DEF Spliceable
<1>2. Bytes(d) = (a + 1)..b
  BY <1>1 DEF Bytes
<1>3. CASE d.op = "keep"
  <2>1. HiddenBy(d) = {} /\ Put(d) = Part(a, b)
    BY <1>1, <1>3 DEF HiddenBy, Put
  <2> QED
    BY <2>1, <1>1
<1>4. CASE d.op \in {"token", "redact"}
  <2>1. HiddenBy(d) = (a + 1)..b
    BY <1>2, <1>4 DEF HiddenBy
  <2>2. Those(Part(a, b), Nat \ HiddenBy(d)) = Those(Part(a, b), {})
    BY <2>1, <1>1, PartThose
  <2>3. Those(Part(a, b), {}) = <<>>
    <3>1. PICK p : p = Part(a, b)
      OBVIOUS
    <3>2. p \in Seq(Int)
      <4>1. a <= b /\ b <= TextLength
        BY <1>1
      <4> QED
        BY <3>1, <4>1, PartIs
    <3>3. \A x \in Int : x \notin {}
      OBVIOUS
    <3>4. Those(p, {}) = <<>>
      BY <3>2, <3>3, ThoseNone
    <3> QED
      BY <3>1, <3>4
  <2>4. Those(Put(d), Nat) = <<>>
    <3>1. PICK T : T = {-1, -2, -3}
      OBVIOUS
    <3>2. Put(d) \in Seq(T)
      <4>1. CASE d.op = "token"
        <5>1. Put(d) = <<-1, -2>>
          BY <4>1 DEF Put, Replacement, TokenBytes
        <5> QED
          BY <5>1, <3>1
      <4>2. CASE d.op = "redact"
        <5>1. Put(d) = <<-3>>
          BY <4>2 DEF Put, Replacement
        <5> QED
          BY <5>1, <3>1
      <4> QED
        BY <4>1, <4>2, <1>4
    <3>3. \A x \in T : x \notin Nat
      BY <3>1
    <3> QED
      BY <3>2, <3>3, ThoseNone
  <2> QED
    BY <2>2, <2>3, <2>4, <1>1
<1>5. CASE d.op = "mask"
  <2>1. PICK q : q \in Seq(Int) /\ Replacement(d) = q \o <<d.to>> /\ \A i \in DOMAIN q : q[i] = -4
    BY <1>5, MaskIs
  <2>2. PICK y : y = <<b>>
    OBVIOUS
  <2>3. y \in Seq(Int) /\ Put(d) = q \o y
    BY <2>1, <2>2, <1>1, <1>5 DEF Put
  <2>4. Those(q \o y, Nat) = Those(q, Nat) \o Those(y, Nat)
    BY <2>1, <2>3, ThoseConcat
  <2>5. Those(q, Nat) = <<>>
    <3>1. Those(q, Nat) = Those(q, {})
      <4>1. \A i \in DOMAIN q : q[i] \in Nat <=> q[i] \in {}
        BY <2>1
      <4> QED
        BY <4>1, ThoseSame
    <3>2. Those(q, {}) = <<>>
      BY <2>1, ThoseNone
    <3> QED
      BY <3>1, <3>2
  <2>6. Those(y, Nat) = y
    BY <2>2, <1>1, ThoseOne
  <2>7. Those(Put(d), Nat) = y
    BY <2>3, <2>4, <2>5, <2>6, ConcatEmptySeq
  <2>8. PICK c \in Nat : c + 1 = b
    BY <1>1
  <2>9. PICK u : u = Part(a, c)
    OBVIOUS
  <2>10. u \in Seq(Int) /\ Part(a, b) = u \o y
    <3>1. a <= c /\ c <= b /\ c <= TextLength
      BY <1>1, <2>8, LeafIs
    <3>2. Part(a, c) \o Part(c, b) = Part(a, b)
      BY <3>1, <1>1, PartJoin
    <3>3. Part(c, b) = y
      <4>1. b \in 1..Len(Leaf) /\ Leaf[b] = b /\ Leaf \in Seq(Int)
        BY <1>1, LeafIs
      <4>2. SubSeq(Leaf, b, b) = <<b>>
        BY <4>1, SubSeqShort
      <4> QED
        BY <4>2, <2>2, <2>8 DEF Part
    <3> QED
      BY <3>1, <3>2, <3>3, <2>9, PartIs
  <2>11. HiddenBy(d) = (a + 1)..c
    BY <1>1, <1>2, <1>5, <2>8 DEF HiddenBy
  <2>12. PICK S : S = Nat \ HiddenBy(d)
    OBVIOUS
  <2>13. Those(u \o y, S) = Those(u, S) \o Those(y, S)
    BY <2>3, <2>10, ThoseConcat
  <2>14. Those(y, S) = y
    BY <2>2, <2>11, <2>12, <1>1, <2>8, ThoseOne
  <2>15. Those(u, S) = <<>>
    <3>1. a <= c /\ c <= TextLength
      BY <1>1, <2>8, LeafIs
    <3>2. Those(u, S) = Those(u, {})
      BY <2>9, <2>11, <2>12, <3>1, PartThose
    <3> QED
      BY <3>2, <2>10, ThoseNone
  <2> QED
    BY <2>3, <2>7, <2>10, <2>12, <2>13, <2>14, <2>15, <1>1, ConcatEmptySeq
<1> QED
  BY <1>3, <1>4, <1>5 DEF Spliceable, Operators

\* Concatenation of texts is associative.
LEMMA ConcatOrder ==
    ASSUME NEW x \in Seq(Int), NEW y \in Seq(Int), NEW z \in Seq(Int)
    PROVE  (x \o y) \o z = x \o (y \o z)
  BY ConcatAssociative

\* A finding spliced into a text whose beginning is still the leaf's.
LEMMA SpliceIs ==
    ASSUME NEW d, Spliceable(d), NEW c \in Nat, d.to <= c, c <= TextLength, NEW rest \in Seq(Int)
    PROVE  Splice(Part(0, c) \o rest, d) = Part(0, d.from) \o (Put(d) \o (Part(d.to, c) \o rest))
<1>1. PICK a \in Nat, b \in Nat : a = d.from /\ b = d.to
  BY DEF Spliceable
<1>20. 0 <= a /\ a <= b /\ b <= c /\ 0 <= b /\ 0 \in Nat
  BY <1>1 DEF Spliceable
<1>21. a <= TextLength /\ b <= TextLength
  BY <1>20, LeafIs
<1>2. PICK x : x = Part(0, a)
  OBVIOUS
<1>3. PICK y : y = Part(a, b)
  OBVIOUS
<1>4. PICK z : z = Part(b, c)
  OBVIOUS
<1>5. x \in Seq(Int) /\ Len(x) = a
  BY <1>20, <1>21, <1>2, PartIs
<1>6. y \in Seq(Int) /\ z \in Seq(Int)
  BY <1>20, <1>21, <1>3, <1>4, PartIs
<1>7. PICK w : w = x \o y
  OBVIOUS
<1>8. w = Part(0, b)
  <2>1. Part(0, a) \o Part(a, b) = Part(0, b)
    BY <1>20, <1>21, PartJoin
  <2> QED
    BY <2>1, <1>2, <1>3, <1>7
<1>9. w \in Seq(Int) /\ Len(w) = b
  BY <1>20, <1>21, <1>8, PartIs
<1>10. Part(0, c) = w \o z
  <2>1. Part(0, b) \o Part(b, c) = Part(0, c)
    BY <1>20, <1>21, PartJoin
  <2> QED
    BY <2>1, <1>4, <1>8
<1>11. PICK t : t = z \o rest
  OBVIOUS
<1>12. t \in Seq(Int)
  BY <1>6, <1>11, ConcatProperties
<1>13. PICK o : o = Part(0, c) \o rest
  OBVIOUS
<1>14. o = w \o t
  <2>1. (w \o z) \o rest = w \o (z \o rest)
    BY <1>6, <1>9, ConcatOrder
  <2> QED
    BY <2>1, <1>10, <1>11, <1>13
<1>15. PICK v : v = y \o t
  OBVIOUS
<1>16. v \in Seq(Int)
  BY <1>6, <1>12, <1>15, ConcatProperties
<1>17. o = x \o v
  <2>1. (x \o y) \o t = x \o (y \o t)
    BY <1>5, <1>6, <1>12, ConcatOrder
  <2> QED
    BY <2>1, <1>7, <1>14, <1>15
<1>18. CASE d.op = "keep"
  <2>1. Splice(o, d) = o /\ Put(d) = y
    BY <1>18, <1>1, <1>3 DEF Splice, Put
  <2> QED
    BY <2>1, <1>17, <1>15, <1>11, <1>13, <1>1, <1>2, <1>4
<1>19. CASE d.op # "keep"
  <2>1. Put(d) = Replacement(d)
    BY <1>19 DEF Put
  <2>2. PICK r : r = Replacement(d)
    OBVIOUS
  <2>3. r \in Seq(Int)
    BY <2>1, <2>2, PutType
  <2>4. SubSeq(o, 1, a) = x
    BY <1>5, <1>16, <1>17, SplitLeft
  <2>5. SubSeq(o, b + 1, Len(o)) = t
    BY <1>9, <1>12, <1>14, SplitRight
  <2>6. Splice(o, d) = SubSeq(o, 1, a) \o Replacement(d) \o SubSeq(o, b + 1, Len(o))
    BY <1>1, <1>19 DEF Splice
  <2>7. Splice(o, d) = (x \o r) \o t
    BY <2>2, <2>4, <2>5, <2>6
  <2>8. (x \o r) \o t = x \o (r \o t)
    BY <1>5, <2>3, <1>12, ConcatOrder
  <2> QED
    BY <2>1, <2>2, <2>7, <2>8, <1>1, <1>2, <1>4, <1>11, <1>13
<1> QED
  BY <1>18, <1>19

\* The texts of a plan's application, from the leaf on.
Spliced(f, text, ws, n, m) ==
    f = [k \in 0..m |-> IF k = 0 THEN text ELSE Splice(f[k - 1], ws[n + 1 - k])]

\* The texts on the way from the leaf to the spliced text exist.
LEMMA SplicedExists ==
    ASSUME NEW text, NEW ws, NEW n \in Nat
    PROVE  \E f : Spliced(f, text, ws, n, n)
<1> DEFINE Bad == {m \in Nat : ~\E f : Spliced(f, text, ws, n, m)}
<1>1. SUFFICES ASSUME Bad # {} PROVE FALSE
  <2>1. Bad = {}
    BY <1>1
  <2> QED
    BY <2>1
<1>2. PICK m \in Bad : \A x \in Bad : m <= x
  BY SmallestOf, <1>1, Bad \in SUBSET Nat
<1>3. m \in Nat /\ ~\E f : Spliced(f, text, ws, n, m)
  BY <1>2
<1>4. m # 0
  <2>1. SUFFICES ASSUME m = 0 PROVE FALSE
    OBVIOUS
  <2>2. PICK f : f = [k \in 0..0 |-> text]
    OBVIOUS
  <2>3. f = [k \in 0..0 |-> IF k = 0 THEN text ELSE Splice(f[k - 1], ws[n + 1 - k])]
    BY <2>2
  <2>4. Spliced(f, text, ws, n, m)
    BY <2>1, <2>3 DEF Spliced
  <2> QED
    BY <2>4, <1>3
<1>5. PICK h \in Nat : h + 1 = m
  BY <1>3, <1>4
<1>6. h \notin Bad
  <2> HIDE DEF Bad
  <2>1. h \in Bad => m <= h
    BY <1>2
  <2> QED
    BY <2>1, <1>5
<1>7. PICK f : Spliced(f, text, ws, n, h)
  BY <1>6
<1> HIDE DEF Bad
<1>8. PICK g : g = [k \in 0..m |-> IF k = m THEN Splice(f[h], ws[n + 1 - m]) ELSE f[k]]
  OBVIOUS
<1>9. f = [k \in 0..h |-> IF k = 0 THEN text ELSE Splice(f[k - 1], ws[n + 1 - k])]
  BY <1>7 DEF Spliced
<1>10. ASSUME NEW k \in 0..m PROVE g[k] = IF k = 0 THEN text ELSE Splice(g[k - 1], ws[n + 1 - k])
  <2>1. CASE k = m
    <3>1. h \in 0..m /\ h # m /\ k - 1 = h /\ k # 0
      BY <2>1, <1>5
    <3>2. g[h] = f[h]
      BY <3>1, <1>8
    <3>3. g[k] = Splice(f[h], ws[n + 1 - m])
      BY <2>1, <1>8
    <3> QED
      BY <2>1, <3>1, <3>2, <3>3
  <2>2. CASE k # m
    <3>1. k \in 0..h
      BY <2>2, <1>5
    <3>2. g[k] = f[k]
      BY <2>2, <1>8
    <3>3. f[k] = IF k = 0 THEN text ELSE Splice(f[k - 1], ws[n + 1 - k])
      BY <3>1, <1>9
    <3>4. k # 0 => g[k - 1] = f[k - 1]
      <4>1. k # 0 => k - 1 \in 0..m /\ k - 1 # m
        BY <3>1, <1>5
      <4> QED
        BY <4>1, <1>8
    <3> QED
      BY <3>2, <3>3, <3>4
  <2> QED
    BY <2>1, <2>2
<1>11. g = [k \in 0..m |-> g[k]]
  BY <1>8
<1>12. g = [k \in 0..m |-> IF k = 0 THEN text ELSE Splice(g[k - 1], ws[n + 1 - k])]
  BY <1>10, <1>11
<1>13. Spliced(g, text, ws, n, m)
  BY <1>12 DEF Spliced
<1> QED
  BY <1>13, <1>3

AppliedBy(f, text, ws, n) ==
    /\ Apply(text, ws) = f[n] /\ f[0] = text
    /\ \A k \in 1..n : f[k] = Splice(f[k - 1], ws[n + 1 - k])

\* Apply is the last of them.
LEMMA ApplyIs ==
    ASSUME NEW text, NEW ws, NEW n \in Nat, n = Len(ws)
    PROVE  \E f : AppliedBy(f, text, ws, n)
<1>1. PICK f : f = CHOOSE g : Spliced(g, text, ws, n, n)
  OBVIOUS
<1>2. Spliced(f, text, ws, n, n)
  BY <1>1, SplicedExists
<1>3. Apply(text, ws) = f[n]
  BY <1>1 DEF Apply, Spliced
<1>4. f = [k \in 0..n |-> IF k = 0 THEN text ELSE Splice(f[k - 1], ws[n + 1 - k])]
  BY <1>2 DEF Spliced
<1>5. f[0] = text
  BY <1>4
<1>6. \A k \in 1..n : f[k] = Splice(f[k - 1], ws[n + 1 - k])
  BY <1>4
<1>7. AppliedBy(f, text, ws, n)
  BY <1>3, <1>5, <1>6 DEF AppliedBy
<1> QED
  BY <1>7

\* A plan that can be spliced: its findings are in the text, in its order, and do not overlap.
PlanFits(w, n) ==
    /\ \A i \in 1..n : Spliceable(w[i])
    /\ \A i, j \in 1..n : i < j => w[i].to <= w[j].from

\* What the last k findings hide, and where they begin.
HiddenLast(w, n, k) == UNION {HiddenBy(w[i]) : i \in (n + 1 - k)..n}
Begin(w, n, k) == IF k = 0 THEN TextLength ELSE w[n + 1 - k].from

\* The last findings of a plan begin inside the text.
LEMMA BeginIs ==
    ASSUME NEW w, NEW n \in Nat, PlanFits(w, n), NEW k \in 0..n
    PROVE  Begin(w, n, k) \in Nat /\ Begin(w, n, k) <= TextLength
<1>1. CASE k = 0
  BY <1>1, LeafIs DEF Begin
<1>2. CASE k # 0
  <2>1. n + 1 - k \in 1..n
    BY <1>2
  <2>2. PICK d : d = w[n + 1 - k]
    OBVIOUS
  <2>3. Spliceable(d)
    BY <2>1, <2>2 DEF PlanFits
  <2>4. d.from \in Nat /\ d.from <= TextLength
    BY <2>3, LeafIs DEF Spliceable
  <2> QED
    BY <2>2, <2>4, <1>2 DEF Begin
<1> QED
  BY <1>1, <1>2

\* A finding hides bytes of its own.
LEMMA HidesOwn ==
    ASSUME NEW d, Spliceable(d)
    PROVE  \A x \in HiddenBy(d) : x \in Int /\ d.from < x /\ x <= d.to
  BY DEF HiddenBy, Bytes, Spliceable

\* The next finding to splice in ends before the last ones begin, and what those hide comes after.
LEMMA NextFits ==
    ASSUME NEW w, NEW n \in Nat, PlanFits(w, n), NEW k \in 1..n, NEW d, d = w[n + 1 - k]
    PROVE  /\ Spliceable(d) /\ d.to <= Begin(w, n, k - 1) /\ Begin(w, n, k) = d.from
           /\ \A x \in HiddenLast(w, n, k - 1) : x \in Int /\ Begin(w, n, k - 1) < x
           /\ HiddenLast(w, n, k) = HiddenBy(d) \cup HiddenLast(w, n, k - 1)
<1>1. n + 1 - k \in 1..n /\ k # 0
  OBVIOUS
<1>2. Spliceable(d)
  BY <1>1 DEF PlanFits
<1>3. Begin(w, n, k) = d.from
  BY <1>1 DEF Begin
<1>4. CASE k = 1
  <2>1. Begin(w, n, k - 1) = TextLength
    BY <1>4 DEF Begin
  <2>2. HiddenLast(w, n, k - 1) = {}
    BY <1>4 DEF HiddenLast
  <2>3. (n + 1 - k)..n = {n} /\ n + 1 - k = n
    BY <1>4
  <2>4. HiddenLast(w, n, k) = HiddenBy(d)
    BY <2>3 DEF HiddenLast
  <2>5. d.to <= TextLength
    BY <1>2 DEF Spliceable
  <2> QED
    BY <2>1, <2>2, <2>4, <2>5, <1>2, <1>3
<1>5. CASE k # 1
  <2>1. PICK j \in Nat : j = n + 1 - k
    BY <1>1
  <2>2. j \in 1..n /\ j + 1 \in 1..n /\ j < j + 1 /\ n + 1 - (k - 1) = j + 1 /\ k - 1 # 0
    BY <1>5, <2>1
  <2>3. PICK e : e = w[j + 1]
    OBVIOUS
  <2>4. Begin(w, n, k - 1) = e.from
    BY <2>2, <2>3 DEF Begin
  <2>5. d.to <= e.from
    BY <2>1, <2>2, <2>3 DEF PlanFits
  <2>6. Spliceable(e)
    BY <2>2, <2>3 DEF PlanFits
  <2>7. PICK b \in Int : b = e.from
    BY <2>6 DEF Spliceable
  <2>8. ASSUME NEW x \in HiddenLast(w, n, k - 1) PROVE x \in Int /\ b < x
    <3>1. PICK i \in (j + 1)..n : x \in HiddenBy(w[i])
      BY <2>2 DEF HiddenLast
    <3>2. i \in 1..n /\ (i = j + 1 \/ j + 1 < i)
      BY <2>2
    <3>3. PICK g : g = w[i]
      OBVIOUS
    <3>4. Spliceable(g)
      BY <3>2, <3>3 DEF PlanFits
    <3>5. x \in Int /\ g.from < x
      BY <3>1, <3>3, <3>4, HidesOwn
    <3>6. b <= g.from
      <4>1. CASE i = j + 1
        BY <4>1, <3>3, <2>3, <2>7
      <4>2. CASE j + 1 < i
        <5>1. e.to <= g.from
          BY <4>2, <3>2, <2>2, <2>3, <3>3 DEF PlanFits
        <5>2. e.from < e.to /\ e.to \in Int
          BY <2>6 DEF Spliceable
        <5>3. g.from \in Int
          BY <3>4 DEF Spliceable
        <5> QED
          BY <5>1, <5>2, <5>3, <2>7
      <4> QED
        BY <4>1, <4>2, <3>2
    <3>7. g.from \in Int
      BY <3>4 DEF Spliceable
    <3> QED
      BY <3>5, <3>6, <3>7
  <2>9. HiddenLast(w, n, k) = HiddenBy(d) \cup HiddenLast(w, n, k - 1)
    <3>1. (n + 1 - k)..n = {j} \cup (j + 1)..n
      BY <2>1, <2>2
    <3>2. (n + 1 - (k - 1))..n = (j + 1)..n
      BY <2>2
    <3>3. d = w[j]
      BY <2>1
    <3> QED
      BY <3>1, <3>2, <3>3 DEF HiddenLast
  <2> QED
    BY <2>4, <2>5, <2>7, <2>8, <2>9, <1>2, <1>3
<1> QED
  BY <1>4, <1>5

\* A text some of whose last bytes have been spliced: the beginning is the leaf's, and of the
\* rest exactly the bytes are left that no finding hides.
SplicedTo(w, n, k, text) ==
    \E rest : /\ rest \in Seq(Int) /\ text = Part(0, Begin(w, n, k)) \o rest
              /\ Those(rest, Nat) = Those(Part(Begin(w, n, k), TextLength), Nat \ HiddenLast(w, n, k))

\* One more finding is spliced in.
LEMMA SpliceNext ==
    ASSUME NEW w, NEW n \in Nat, PlanFits(w, n), NEW k \in 1..n,
           NEW text, SplicedTo(w, n, k - 1, text)
    PROVE  SplicedTo(w, n, k, Splice(text, w[n + 1 - k]))
<1>1. PICK d : d = w[n + 1 - k]
  OBVIOUS
<1>2. PICK H : H = HiddenLast(w, n, k - 1)
  OBVIOUS
<1>3. PICK c : c = Begin(w, n, k - 1)
  OBVIOUS
<1>4. c \in Nat /\ c <= TextLength /\ TextLength \in Nat
  <2>1. k - 1 \in 0..n
    OBVIOUS
  <2> QED
    BY <2>1, <1>3, BeginIs, LeafIs
<1>5. /\ Spliceable(d) /\ d.to <= c /\ Begin(w, n, k) = d.from
      /\ \A x \in H : x \in Int /\ c < x
      /\ HiddenLast(w, n, k) = HiddenBy(d) \cup H
  BY <1>1, <1>2, <1>3, NextFits
<1>6. PICK a, b : a = d.from /\ b = d.to
  OBVIOUS
<1>7. /\ a \in Nat /\ b \in Nat /\ a <= b /\ b <= c /\ a <= c
      /\ a <= TextLength /\ b <= TextLength
  BY <1>4, <1>5, <1>6 DEF Spliceable
<1>8. PICK rest : /\ rest \in Seq(Int) /\ text = Part(0, c) \o rest
                  /\ Those(rest, Nat) = Those(Part(c, TextLength), Nat \ H)
  BY <1>2, <1>3 DEF SplicedTo
<1>9. PICK mid : mid = Part(b, c)
  OBVIOUS
<1>10. PICK put : put = Put(d)
  OBVIOUS
<1>11. PICK new : new = put \o (mid \o rest)
  OBVIOUS
<1>12. mid \in Seq(Int) /\ put \in Seq(Int)
  BY <1>4, <1>5, <1>7, <1>9, <1>10, PartIs, PutType
<1>13. Splice(text, d) = Part(0, a) \o new
  <2>1. Splice(Part(0, c) \o rest, d) = Part(0, d.from) \o (Put(d) \o (Part(d.to, c) \o rest))
    BY <1>4, <1>5, <1>8, SpliceIs
  <2> QED
    BY <2>1, <1>6, <1>8, <1>9, <1>10, <1>11
<1>14. PICK tail : tail = mid \o rest
  OBVIOUS
<1>15. tail \in Seq(Int)
  BY <1>8, <1>12, <1>14, ConcatProperties
<1>16. new = put \o tail /\ new \in Seq(Int)
  <2>1. new = put \o tail
    BY <1>11, <1>14
  <2> QED
    BY <2>1, <1>12, <1>15, ConcatProperties
<1>17. PICK A : A = Nat \ HiddenLast(w, n, k)
  OBVIOUS
<1>18. PICK old : old = Part(a, b)
  OBVIOUS
<1>19. PICK end : end = Part(c, TextLength)
  OBVIOUS
<1>20. old \in Seq(Int) /\ end \in Seq(Int)
  BY <1>4, <1>7, <1>18, <1>19, PartIs
<1>21. Those(put, Nat) = Those(old, A)
  <2>1. Those(put, Nat) = Those(old, Nat \ HiddenBy(d))
    BY <1>5, <1>6, <1>10, <1>18, PutThose
  <2>2. \A x \in (a + 1)..b : x \in Nat \ HiddenBy(d) <=> x \in A
    BY <1>4, <1>5, <1>7, <1>17
  <2>3. Those(Part(a, b), Nat \ HiddenBy(d)) = Those(Part(a, b), A)
    BY <2>2, <1>7, PartThose
  <2> QED
    BY <2>1, <2>3, <1>18
<1>22. Those(mid, Nat) = Those(mid, A)
  <2>1. \A x \in HiddenBy(d) : x \in Int /\ x <= b
    BY <1>5, <1>6, HidesOwn
  <2>2. \A x \in (b + 1)..c : x \in Nat <=> x \in A
    BY <2>1, <1>4, <1>5, <1>7, <1>17
  <2>3. Those(Part(b, c), Nat) = Those(Part(b, c), A)
    BY <2>2, <1>4, <1>7, PartThose
  <2> QED
    BY <2>3, <1>9
<1>23. Those(rest, Nat) = Those(end, A)
  <2>1. \A x \in HiddenBy(d) : x \in Int /\ x <= b
    BY <1>5, <1>6, HidesOwn
  <2>2. \A x \in (c + 1)..TextLength : x \in Nat \ H <=> x \in A
    BY <2>1, <1>4, <1>5, <1>7, <1>17
  <2>3. Those(Part(c, TextLength), Nat \ H) = Those(Part(c, TextLength), A)
    BY <2>2, <1>4, PartThose
  <2> QED
    BY <2>3, <1>8, <1>19
<1>24. PICK far : far = mid \o end
  OBVIOUS
<1>25. far \in Seq(Int)
  BY <1>12, <1>20, <1>24, ConcatProperties
<1>26. Part(a, TextLength) = old \o far
  <2>3. PICK L \in Nat : L = TextLength
    BY <1>4
  <2>4. b <= c /\ c <= L /\ L <= TextLength /\ a <= b /\ b <= L
    BY <2>3, <1>4, <1>7
  <2>5. Part(b, c) \o Part(c, L) = Part(b, L)
    BY <2>4, <1>4, <1>7, PartJoin
  <2>6. Part(a, b) \o Part(b, L) = Part(a, L)
    BY <2>4, <1>4, <1>7, PartJoin
  <2>1. Part(b, c) \o Part(c, TextLength) = Part(b, TextLength)
    BY <2>3, <2>5
  <2>2. Part(a, b) \o Part(b, TextLength) = Part(a, TextLength)
    BY <2>3, <2>6
  <2> QED
    BY <2>1, <2>2, <1>9, <1>18, <1>19, <1>24
<1>27. Those(tail, Nat) = Those(far, A)
  <2>1. Those(mid \o rest, Nat) = Those(mid, Nat) \o Those(rest, Nat)
    BY <1>8, <1>12, ThoseConcat
  <2>2. Those(mid \o end, A) = Those(mid, A) \o Those(end, A)
    BY <1>12, <1>20, ThoseConcat
  <2> QED
    BY <2>1, <2>2, <1>14, <1>22, <1>23, <1>24
<1>28. Those(new, Nat) = Those(Part(a, TextLength), A)
  <2>1. Those(put \o tail, Nat) = Those(put, Nat) \o Those(tail, Nat)
    BY <1>12, <1>15, ThoseConcat
  <2>2. Those(old \o far, A) = Those(old, A) \o Those(far, A)
    BY <1>20, <1>25, ThoseConcat
  <2> QED
    BY <2>1, <2>2, <1>16, <1>21, <1>26, <1>27
<1> QED
  BY <1>1, <1>5, <1>6, <1>13, <1>16, <1>17, <1>28 DEF SplicedTo

\* What is sent holds, in their order, exactly the bytes that no finding of the plan hides.
LEMMA SplicedExact ==
    ASSUME NEW w, NEW n \in Nat, n = Len(w), PlanFits(w, n)
    PROVE  /\ Apply(Leaf, w) \in Seq(Int)
           /\ Those(Apply(Leaf, w), Nat) = Those(Leaf, Nat \ Hidden(w))
<1>20. PICK f : AppliedBy(f, Leaf, w, n)
  BY ApplyIs
<1>1. /\ Apply(Leaf, w) = f[n] /\ f[0] = Leaf
      /\ \A k \in 1..n : f[k] = Splice(f[k - 1], w[n + 1 - k])
  BY <1>20 DEF AppliedBy
<1>2. SplicedTo(w, n, 0, f[0])
  <2>1. Begin(w, n, 0) = TextLength /\ HiddenLast(w, n, 0) = {}
    BY DEF Begin, HiddenLast
  <2>2. Leaf = Part(0, TextLength) \o <<>>
    BY PartWhole, LeafIs, ConcatEmptySeq
  <2>3. Those(<<>>, Nat) = <<>>
    BY ThoseEmpty
  <2>4. Those(Part(TextLength, TextLength), Nat \ {}) = <<>>
    <3>1. Part(TextLength, TextLength) = <<>>
      <4>1. PICK p : p = Part(TextLength, TextLength)
        OBVIOUS
      <4>2. p \in Seq(Int) /\ Len(p) = TextLength - TextLength
        BY <4>1, LeafIs, PartIs
      <4>3. Len(p) = 0
        BY <4>2, LeafIs
      <4> QED
        BY <4>1, <4>2, <4>3
    <3> QED
      BY <3>1, ThoseEmpty
  <2>5. PICK rest : rest = <<>>
    OBVIOUS
  <2>6. rest \in Seq(Int)
    BY <2>5
  <2> QED
    BY <2>1, <2>2, <2>3, <2>4, <2>5, <2>6, <1>1 DEF SplicedTo
<1> DEFINE Bad == {k \in Nat : k <= n /\ ~SplicedTo(w, n, k, f[k])}
<1>3. Bad = {}
  <2>1. SUFFICES ASSUME Bad # {} PROVE FALSE
    OBVIOUS
  <2>2. PICK k \in Bad : \A x \in Bad : k <= x
    BY SmallestOf, <2>1, Bad \in SUBSET Nat
  <2>3. k \in Nat /\ k <= n /\ ~SplicedTo(w, n, k, f[k])
    BY <2>2
  <2>4. k \in 1..n
    BY <2>3, <1>2
  <2>5. k - 1 \notin Bad
    <3> HIDE DEF Bad
    <3>1. k - 1 \in Bad => k <= k - 1
      BY <2>2
    <3> QED
      BY <3>1, <2>4
  <2>6. SplicedTo(w, n, k - 1, f[k - 1])
    BY <2>4, <2>5
  <2>7. SplicedTo(w, n, k, Splice(f[k - 1], w[n + 1 - k]))
    BY <2>4, <2>6, SpliceNext
  <2> QED
    BY <2>3, <2>4, <2>7, <1>1
<1>4. SplicedTo(w, n, n, f[n])
  BY <1>3
<1> HIDE DEF Bad
<1>5. PICK c : c = Begin(w, n, n)
  OBVIOUS
<1>6. PICK A : A = Nat \ HiddenLast(w, n, n)
  OBVIOUS
<1>7. PICK rest : /\ rest \in Seq(Int) /\ f[n] = Part(0, c) \o rest
                  /\ Those(rest, Nat) = Those(Part(c, TextLength), A)
  BY <1>4, <1>5, <1>6 DEF SplicedTo
<1>8. c \in Nat /\ c <= TextLength /\ 0 <= c /\ TextLength \in Nat
  <2>1. n \in 0..n
    OBVIOUS
  <2> QED
    BY <2>1, <1>5, BeginIs, LeafIs
<1>9. PICK x : x = Part(0, c)
  OBVIOUS
<1>10. PICK y : y = Part(c, TextLength)
  OBVIOUS
<1>11. x \in Seq(Int) /\ y \in Seq(Int)
  BY <1>8, <1>9, <1>10, PartIs
<1>12. x \o y = Leaf
  <2>3. PICK L \in Nat : L = TextLength
    BY <1>8
  <2>4. c <= L /\ L <= TextLength /\ 0 <= c /\ 0 \in Nat
    BY <2>3, <1>8
  <2>5. Part(0, c) \o Part(c, L) = Part(0, L)
    BY <2>4, <1>8, PartJoin
  <2>1. Part(0, c) \o Part(c, TextLength) = Part(0, TextLength)
    BY <2>3, <2>5
  <2> QED
    BY <2>1, <1>9, <1>10, PartWhole
<1>13. Those(x, Nat) = Those(x, A)
  <2>1. \A z \in HiddenLast(w, n, n) : z \in Int /\ c < z
    <3>1. CASE n = 0
      BY <3>1 DEF HiddenLast
    <3>2. CASE n # 0
      <4>1. n \in 1..n
        BY <3>2
      <4>2. PICK d : d = w[n + 1 - n]
        OBVIOUS
      <4>3. /\ Spliceable(d) /\ d.to <= Begin(w, n, n - 1) /\ c = d.from
            /\ \A z \in HiddenLast(w, n, n - 1) : z \in Int /\ Begin(w, n, n - 1) < z
            /\ HiddenLast(w, n, n) = HiddenBy(d) \cup HiddenLast(w, n, n - 1)
        BY <4>1, <4>2, <1>5, NextFits
      <4>4. \A z \in HiddenBy(d) : z \in Int /\ d.from < z
        BY <4>3, HidesOwn
      <4>5. d.from \in Int /\ d.to \in Int /\ d.from < d.to
        BY <4>3 DEF Spliceable
      <4>6. Begin(w, n, n - 1) \in Nat
        <5>1. n - 1 \in 0..n
          BY <3>2
        <5> QED
          BY <5>1, BeginIs
      <4> QED
        BY <4>3, <4>4, <4>5, <4>6
    <3> QED
      BY <3>1, <3>2
  <2>2. \A z \in (0 + 1)..c : z \in Nat <=> z \in A
    BY <2>1, <1>6, <1>8
  <2>3. Those(Part(0, c), Nat) = Those(Part(0, c), A)
    BY <2>2, <1>8, PartThose
  <2> QED
    BY <2>3, <1>9
<1>14. Those(x \o rest, Nat) = Those(x, Nat) \o Those(rest, Nat)
  BY <1>7, <1>11, ThoseConcat
<1>15. Those(x \o y, A) = Those(x, A) \o Those(y, A)
  BY <1>11, ThoseConcat
<1>16. Hidden(w) = HiddenLast(w, n, n)
  <2>1. (n + 1 - n)..n = 1..n
    OBVIOUS
  <2> QED
    BY <2>1 DEF Hidden, HiddenLast
<1>17. Those(f[n], Nat) = Those(Leaf, A)
  BY <1>7, <1>9, <1>10, <1>12, <1>13, <1>14, <1>15
<1>18. f[n] \in Seq(Int)
  BY <1>7, <1>9, <1>11, ConcatProperties
<1> QED
  BY <1>1, <1>6, <1>16, <1>17, <1>18

(***************************************************************************)
(* The resolved plan.                                                    *)
(***************************************************************************)

\* x gives way to y in the resolution.
YieldsTo(x, y) == Overlap(x, y) /\ ~Outranks(x, y)

\* A resolved list: findings of ds in the order of the text and apart from each other, and
\* every finding of ds is there or gives way to one that is.
ResolvedFrom(ds, rs, m) ==
    /\ m = Len(rs) /\ DOMAIN rs = 1..m
    /\ \A k \in 1..m : \E i \in DOMAIN ds : rs[k] = ds[i]
    /\ \A i, j \in 1..m : i < j => rs[i].from <= rs[j].from /\ rs[i].to <= rs[j].from
    /\ \A i \in DOMAIN ds : \E k \in 1..m : rs[k] = ds[i] \/ YieldsTo(ds[i], rs[k])

Solid(ds) == \A i \in DOMAIN ds : ds[i].from < ds[i].to

\* Resolve gives a resolved list.
LEMMA ResolvedPlan ==
    ASSUME NEW ds, NEW n \in Nat, DOMAIN ds = 1..n, Spanned(ds), Solid(ds)
    PROVE  \E m \in Nat : ResolvedFrom(ds, Resolve(ds), m)
<1>0. PICK m \in Nat : \E at : ResolvedAs(ds, at, m)
  BY ResolveIs
<1>1. PICK at : ResolvedAs(ds, at, m)
  BY <1>0
<1>2. PICK kept : kept = Kept(ds)
  OBVIOUS
<1>3. KeptIs(ds, kept)
  BY <1>2, KeptExists
<1>4. PICK rs : rs = Resolve(ds)
  OBVIOUS
<1>5. /\ \A k \in 1..m : at[k] \in kept
      /\ \A i \in kept : \E k \in 1..m : at[k] = i
      /\ \A i, j \in 1..m : i < j => StartsBefore(ds, at[i], at[j])
      /\ rs = [k \in 1..m |-> ds[at[k]]]
  BY <1>1, <1>2, <1>4 DEF ResolvedAs
<1>6. \A i \in kept : i \in 1..n
  BY <1>3 DEF KeptIs
<1>7. DOMAIN rs = 1..m /\ \A k \in 1..m : rs[k] = ds[at[k]]
  BY <1>5
<1>8. Len(rs) = m
  <2>1. rs \in [1..m -> {ds[i] : i \in kept}]
    BY <1>5
  <2> QED
    BY <2>1, SeqIs
<1>9. \A i, k \in kept : i # k => ~Overlap(ds[i], ds[k])
  <2>1. ASSUME NEW i \in kept, NEW k \in kept, i # k PROVE ~Overlap(ds[i], ds[k])
    <3>1. i \in 1..n /\ k \in 1..n
      BY <1>6
    <3>2. Before(ds, i, k) \/ Before(ds, k, i)
      <4>1. StrictOrder(Ranking(ds), 1..n)
        BY Ranks
      <4>2. <<i, k>> \in Ranking(ds) \/ <<k, i>> \in Ranking(ds)
        BY <4>1, <3>1, <2>1 DEF StrictOrder
      <4> QED
        BY <4>2 DEF Ranking
    <3>3. CASE Before(ds, k, i)
      BY <3>1, <3>3, <1>3 DEF KeptIs
    <3>4. CASE Before(ds, i, k)
      <4>1. ~Overlap(ds[k], ds[i])
        BY <3>1, <3>4, <1>3 DEF KeptIs
      <4> QED
        BY <4>1 DEF Overlap
    <3> QED
      BY <3>2, <3>3, <3>4
  <2> QED
    BY <2>1
<1>10. \A i \in 1..n : ds[i].from \in Int /\ ds[i].to \in Int /\ ds[i].from < ds[i].to
  BY DEF Spanned, IsSpan, Solid
<1>11. ASSUME NEW i \in 1..m, NEW j \in 1..m, i < j
       PROVE  rs[i].from <= rs[j].from /\ rs[i].to <= rs[j].from
  <2>1. PICK x \in kept, y \in kept : x = at[i] /\ y = at[j] /\ StartsBefore(ds, x, y)
    BY <1>11, <1>5
  <2>2. rs[i] = ds[x] /\ rs[j] = ds[y]
    BY <2>1, <1>7
  <2>3. x \in 1..n /\ y \in 1..n
    BY <1>6
  <2>4. x # y
    <3>1. SUFFICES ASSUME x = y PROVE FALSE
      OBVIOUS
    <3>2. StrictOrder(Starting(ds), 1..n)
      BY Ranks
    <3>3. <<x, y>> \in Starting(ds)
      <4>1. <<x, y>> \in (DOMAIN ds) \X (DOMAIN ds)
        BY <2>3
      <4> QED
        BY <4>1, <2>1, <2>3 DEF Starting
    <3> QED
      BY <3>1, <3>2, <3>3, <2>3 DEF StrictOrder
  <2>5. ~Overlap(ds[x], ds[y])
    BY <2>4, <1>9
  <2>6. PICK a \in Int, b \in Int, c \in Int, d \in Int :
          a = ds[x].from /\ b = ds[x].to /\ c = ds[y].from /\ d = ds[y].to
    BY <2>3, <1>10
  <2>7. a < b /\ c < d
    BY <2>3, <2>6, <1>10
  <2>8. ~(a < d /\ c < b)
    BY <2>5, <2>6 DEF Overlap
  <2>9. a <= c
    BY <2>1, <2>6 DEF StartsBefore
  <2>10. b <= c
    BY <2>7, <2>8, <2>9
  <2> QED
    BY <2>2, <2>6, <2>9, <2>10
<1>12. ASSUME NEW i \in 1..n
       PROVE  \E k \in 1..m : rs[k] = ds[i] \/ YieldsTo(ds[i], rs[k])
  <2>1. CASE i \in kept
    <3>1. PICK k \in 1..m : at[k] = i
      BY <2>1, <1>5
    <3> QED
      BY <3>1, <1>7
  <2>2. CASE i \notin kept
    <3>1. PICK j \in kept : Before(ds, j, i) /\ Overlap(ds[i], ds[j])
      BY <2>2, <1>3 DEF KeptIs
    <3>2. PICK k \in 1..m : at[k] = j
      BY <3>1, <1>5
    <3>3. rs[k] = ds[j]
      BY <3>2, <1>7
    <3>4. ~Outranks(ds[i], ds[j])
      <4>1. SUFFICES ASSUME Outranks(ds[i], ds[j]) PROVE FALSE
        OBVIOUS
      <4>2. i \in 1..n /\ j \in 1..n
        BY <1>6
      <4>3. PICK s \in Int, t \in Int : s = Tier(ds[i]) /\ t = Tier(ds[j])
        BY DEF Tier
      <4>4. PICK u \in Int, v \in Int : u = ds[i].score /\ v = ds[j].score
        BY <4>2 DEF Spanned, IsSpan
      <4>5. PICK x \in Int, y \in Int : x = Length(ds[i]) /\ y = Length(ds[j])
        BY <4>2, <1>10 DEF Length
      <4>6. s < t \/ (s = t /\ u > v) \/ (s = t /\ u = v /\ x > y)
        BY <4>1, <4>3, <4>4, <4>5 DEF Outranks
      <4>7. t < s \/ (s = t /\ v > u) \/ (s = t /\ u = v /\ y > x)
        BY <3>1, <4>1, <4>3, <4>4, <4>5 DEF Before, Outranks
      <4> QED
        BY <4>6, <4>7
    <3> QED
      BY <3>1, <3>3, <3>4 DEF YieldsTo
  <2> QED
    BY <2>1, <2>2
<1>13. \A k \in 1..m : \E i \in DOMAIN ds : rs[k] = ds[i]
  BY <1>5, <1>6, <1>7
<1>14. ResolvedFrom(ds, rs, m)
  BY <1>7, <1>8, <1>11, <1>12, <1>13 DEF ResolvedFrom
<1> QED
  BY <1>4, <1>14

(***************************************************************************)
(* What the passes gather.                                                 *)
(***************************************************************************)
SecretDet(h) == Detection(h[1], h[2], "NAME", 100, "secret")
RuleDet(h) == Detection(h[1], h[2], "RULE", 100, "custom")

SecretDets(hits) == {SecretDet(h) : h \in Range(hits)}
RulesMet(p, hits) == {h \in Range(hits) : ~Suppressed(p, h[1], h[2])}
RuleDets(p, hits) == {RuleDet(h) : h \in RulesMet(p, hits)}
Live(p, rs) == {r \in Range(rs) : ~Dropped(p, r)}
Met(p, rs) == {r \in Live(p, rs) : ~Suppressed(p, r.from, r.to)}
FoundDets(p, rs, source) == {Recorded(r, source) : r \in Met(p, rs)}
SpansGone(p, rs) == {<<r.from, r.to>> : r \in {r \in Live(p, rs) : Suppressed(p, r.from, r.to)}}

\* A list, whatever is in it.
IsList(s) == s \in Seq(Range(s))

\* A sequence over a set is one over a larger set.
LEMMA SeqMore ==
    ASSUME NEW A, NEW B, A \subseteq B, NEW s \in Seq(A)
    PROVE  s \in Seq(B)
  OBVIOUS

\* The items of a concatenation.
LEMMA RangeConcat ==
    ASSUME NEW s, NEW t, IsList(s), IsList(t)
    PROVE  IsList(s \o t) /\ Range(s \o t) = Range(s) \cup Range(t)
<1>1. PICK T : T = Range(s) \cup Range(t)
  OBVIOUS
<1>2. s \in Seq(T) /\ t \in Seq(T)
  BY <1>1, SeqMore DEF IsList
<1>3. PICK w : w = s \o t
  OBVIOUS
<1>4. PICK n \in Nat : n = Len(s)
  BY <1>2
<1>5. PICK m \in Nat : m = Len(t)
  BY <1>2
<1>6. w \in Seq(T) /\ Len(w) = n + m
  BY <1>2, <1>3, <1>4, <1>5, ConcatProperties
<1>7. Range(w) \subseteq T
  BY <1>6, SeqRange
<1>8. ASSUME NEW x \in T PROVE x \in Range(w)
  <2>1. CASE x \in Range(s)
    <3>1. PICK i \in 1..n : s[i] = x
      BY <2>1, <1>2, <1>4, SeqRange
    <3>2. w[i] = x
      BY <3>1, <1>2, <1>3, <1>4, ConcatProperties
    <3>3. i \in 1..Len(w)
      BY <1>6
    <3> QED
      BY <3>2, <3>3, <1>6, SeqRange
  <2>2. CASE x \in Range(t)
    <3>1. PICK i \in 1..m : t[i] = x
      BY <2>2, <1>2, <1>5, SeqRange
    <3>2. n + i \in Int /\ n + i > n /\ n + i <= n + Len(t) /\ n + i - n = i
      BY <1>5
    <3>3. w[n + i] = x
      BY <3>1, <3>2, <1>2, <1>3, <1>4, ConcatRight
    <3>4. n + i \in 1..Len(w)
      BY <1>6
    <3> QED
      BY <3>3, <3>4, <1>6, SeqRange
  <2> QED
    BY <2>1, <2>2, <1>1
<1>9. Range(w) = T
  BY <1>7, <1>8
<1> QED
  BY <1>1, <1>3, <1>6, <1>9 DEF IsList

\* What is chosen of a list, as a list and as a set.
LEMMA ThoseList ==
    ASSUME NEW s, IsList(s), NEW S
    PROVE  IsList(Those(s, S)) /\ Range(Those(s, S)) = Range(s) \cap S
<1>1. Range(Those(s, S)) = Range(s) \cap S
  BY ThoseRange DEF IsList
<1>2. Those(s, S) \in Seq(Range(s) \cap S)
  BY ThoseType DEF IsList
<1> QED
  BY <1>1, <1>2 DEF IsList

\* The secret pass gathers one detection for each hit and allows nothing.
LEMMA SecretPassIs ==
    ASSUME NEW hits, IsList(hits)
    PROVE  /\ IsList(SecretPass(hits).dets) /\ Range(SecretPass(hits).dets) = SecretDets(hits)
           /\ SecretPass(hits).allowed = {}
<1>1. PICK n \in Nat : n = Len(hits) /\ DOMAIN hits = 1..n
  BY SeqRange DEF IsList
<1>2. PICK q : q = [i \in 1..n |-> SecretDet(hits[i])]
  OBVIOUS
<1>3. SecretPass(hits).dets = q /\ SecretPass(hits).allowed = {}
  BY <1>1, <1>2 DEF SecretPass, Nothing, SecretDet
<1>4. Range(q) = SecretDets(hits)
  BY <1>1, <1>2 DEF Range, SecretDets
<1>5. q \in [1..n -> SecretDets(hits)]
  BY <1>2, <1>4 DEF Range
<1>6. q \in Seq(SecretDets(hits))
  BY <1>5, SeqIs
<1> QED
  BY <1>3, <1>4, <1>6 DEF IsList

\* The rule pass gathers the rules met and allows the spans of the suppressed ones.
LEMMA RulePassIs ==
    ASSUME NEW p, NEW a, IsList(a.dets), NEW hits, IsList(hits)
    PROVE  /\ IsList(RulePass(p, a, hits).dets)
           /\ Range(RulePass(p, a, hits).dets) = Range(a.dets) \cup RuleDets(p, hits)
           /\ RulePass(p, a, hits).allowed
                = a.allowed \cup {h \in Range(hits) : Suppressed(p, h[1], h[2])}
<1>1. PICK gone : gone = {h \in Range(hits) : Suppressed(p, h[1], h[2])}
  OBVIOUS
<1>2. PICK met : met = Those(hits, Range(hits) \ gone)
  OBVIOUS
<1>3. IsList(met) /\ Range(met) = RulesMet(p, hits)
  <2>1. Range(hits) \cap (Range(hits) \ gone) = RulesMet(p, hits)
    BY <1>1 DEF RulesMet
  <2> QED
    BY <2>1, <1>2, ThoseList
<1>4. PICK n \in Nat : DOMAIN met = 1..n
  BY <1>3, SeqRange DEF IsList
<1>5. PICK q : q = [i \in DOMAIN met |-> RuleDet(met[i])]
  OBVIOUS
<1>6. Range(q) = RuleDets(p, hits)
  BY <1>3, <1>5 DEF Range, RuleDets
<1>7. q \in [1..n -> RuleDets(p, hits)]
  BY <1>4, <1>5, <1>6 DEF Range
<1>8. IsList(q)
  BY <1>6, <1>7, SeqIs DEF IsList
<1>9. RulePass(p, a, hits).dets = a.dets \o q /\ RulePass(p, a, hits).allowed = a.allowed \cup gone
  BY <1>1, <1>2, <1>5 DEF RulePass, RuleDet
<1>10. IsList(a.dets \o q) /\ Range(a.dets \o q) = Range(a.dets) \cup Range(q)
  BY <1>8, RangeConcat
<1> QED
  BY <1>1, <1>6, <1>9, <1>10

\* An ingest gathers what no gate drops and allows the spans of what is suppressed.
LEMMA IngestIs ==
    ASSUME NEW p, NEW a, IsList(a.dets), NEW rs, IsList(rs), NEW source
    PROVE  /\ IsList(Ingest(p, a, rs, source).dets)
           /\ Range(Ingest(p, a, rs, source).dets) = Range(a.dets) \cup FoundDets(p, rs, source)
           /\ Ingest(p, a, rs, source).allowed = a.allowed \cup SpansGone(p, rs)
<1>1. PICK live : live = Live(p, rs)
  OBVIOUS
<1>2. PICK gone : gone = {r \in live : Suppressed(p, r.from, r.to)}
  OBVIOUS
<1>3. PICK met : met = Those(rs, live \ gone)
  OBVIOUS
<1>4. IsList(met) /\ Range(met) = Met(p, rs)
  <2>1. Range(rs) \cap (live \ gone) = Met(p, rs)
    BY <1>1, <1>2 DEF Met, Live
  <2> QED
    BY <2>1, <1>3, ThoseList
<1>5. PICK n \in Nat : DOMAIN met = 1..n
  BY <1>4, SeqRange DEF IsList
<1>6. PICK q : q = [i \in DOMAIN met |-> Recorded(met[i], source)]
  OBVIOUS
<1>7. Range(q) = FoundDets(p, rs, source)
  BY <1>4, <1>6 DEF Range, FoundDets
<1>8. q \in [1..n -> FoundDets(p, rs, source)]
  BY <1>5, <1>6, <1>7 DEF Range
<1>9. IsList(q)
  BY <1>7, <1>8, SeqIs DEF IsList
<1>10. /\ Ingest(p, a, rs, source).dets = a.dets \o q
       /\ Ingest(p, a, rs, source).allowed = a.allowed \cup {<<r.from, r.to>> : r \in gone}
  BY <1>1, <1>2, <1>3, <1>6 DEF Ingest, Live
<1>11. IsList(a.dets \o q) /\ Range(a.dets \o q) = Range(a.dets) \cup Range(q)
  BY <1>9, RangeConcat
<1> QED
  BY <1>1, <1>2, <1>7, <1>10, <1>11 DEF SpansGone

(***************************************************************************)
(* A leaf on its way through the passes.                                   *)
(***************************************************************************)

\* No rule of the user matches the empty text (Detect_empty shows what one that does costs).
RulesMatchText == \A h \in RuleHits : h[1] < h[2]

SeenType == [secrets : Seq(SecretHits), rules : Seq(RuleHits), regex : Seq(Reports), ml : Seq(MlReports)]

AfterSecrets(s) == SecretPass(s.secrets)
AfterRules(p, s) == RulePass(p, AfterSecrets(s), s.rules)
AfterRegex(p, s) == Ingest(p, AfterRules(p, s), Analyzed(p, s.regex), "regex")
AfterMl(p, s) == Ingest(p, AfterRegex(p, s), s.ml, "ml")

\* What the passes are given are lists of hits and reports; the analyzer drops some.
LEMMA SeenLists ==
    ASSUME NEW s \in SeenType, NEW p
    PROVE  /\ IsList(s.secrets) /\ IsList(s.rules) /\ IsList(s.regex) /\ IsList(s.ml)
           /\ Range(s.secrets) \subseteq SecretHits /\ Range(s.rules) \subseteq RuleHits
           /\ Range(s.regex) \subseteq Reports /\ Range(s.ml) \subseteq MlReports
           /\ IsList(Analyzed(p, s.regex))
           /\ Range(Analyzed(p, s.regex)) = {r \in Range(s.regex) : r.base >= PreFloor(p)}
<1>1. s.secrets \in Seq(SecretHits) /\ s.rules \in Seq(RuleHits) /\ s.regex \in Seq(Reports) /\ s.ml \in Seq(MlReports)
  BY DEF SeenType
<1>2. /\ IsList(s.secrets) /\ IsList(s.rules) /\ IsList(s.regex) /\ IsList(s.ml)
      /\ Range(s.secrets) \subseteq SecretHits /\ Range(s.rules) \subseteq RuleHits
      /\ Range(s.regex) \subseteq Reports /\ Range(s.ml) \subseteq MlReports
  BY <1>1, SeqRange DEF IsList
<1>3. PICK S : S = {r \in Range(s.regex) : r.base >= PreFloor(p)}
  OBVIOUS
<1>4. Analyzed(p, s.regex) = Those(s.regex, S) /\ Range(s.regex) \cap S = S
  BY <1>3 DEF Analyzed
<1>5. IsList(Those(s.regex, S)) /\ Range(Those(s.regex, S)) = Range(s.regex) \cap S
  BY <1>2, ThoseList
<1> QED
  BY <1>2, <1>3, <1>4, <1>5

\* The detections and the allowed spans after the last pass.
GatheredDets(p, s) ==
    SecretDets(s.secrets) \cup RuleDets(p, s.rules)
      \cup FoundDets(p, Analyzed(p, s.regex), "regex") \cup FoundDets(p, s.ml, "ml")
GatheredSpans(p, s) ==
    {h \in Range(s.rules) : Suppressed(p, h[1], h[2])}
      \cup SpansGone(p, Analyzed(p, s.regex)) \cup SpansGone(p, s.ml)

\* The passes gather these detections and these spans.
LEMMA GatheredIs ==
    ASSUME NEW p, NEW s \in SeenType
    PROVE  /\ IsList(AfterMl(p, s).dets) /\ Range(AfterMl(p, s).dets) = GatheredDets(p, s)
           /\ AfterMl(p, s).allowed = GatheredSpans(p, s)
<1>1. /\ IsList(AfterSecrets(s).dets) /\ Range(AfterSecrets(s).dets) = SecretDets(s.secrets)
      /\ AfterSecrets(s).allowed = {}
  BY SeenLists, SecretPassIs DEF AfterSecrets
<1>2. /\ IsList(AfterRules(p, s).dets)
      /\ Range(AfterRules(p, s).dets) = SecretDets(s.secrets) \cup RuleDets(p, s.rules)
      /\ AfterRules(p, s).allowed = {h \in Range(s.rules) : Suppressed(p, h[1], h[2])}
  <2>1. PICK a : a = AfterSecrets(s)
    OBVIOUS
  <2>2. PICK hits : hits = s.rules /\ IsList(hits)
    BY SeenLists
  <2>3. /\ IsList(RulePass(p, a, hits).dets)
        /\ Range(RulePass(p, a, hits).dets) = Range(a.dets) \cup RuleDets(p, hits)
        /\ RulePass(p, a, hits).allowed = a.allowed \cup {h \in Range(hits) : Suppressed(p, h[1], h[2])}
    BY <1>1, <2>1, <2>2, RulePassIs
  <2> QED
    BY <1>1, <2>1, <2>2, <2>3 DEF AfterRules
<1>3. /\ IsList(AfterRegex(p, s).dets)
      /\ Range(AfterRegex(p, s).dets) = Range(AfterRules(p, s).dets) \cup FoundDets(p, Analyzed(p, s.regex), "regex")
      /\ AfterRegex(p, s).allowed = AfterRules(p, s).allowed \cup SpansGone(p, Analyzed(p, s.regex))
  <2>1. PICK a : a = AfterRules(p, s)
    OBVIOUS
  <2>2. PICK rs : rs = Analyzed(p, s.regex) /\ IsList(rs)
    BY SeenLists
  <2>3. /\ IsList(Ingest(p, a, rs, "regex").dets)
        /\ Range(Ingest(p, a, rs, "regex").dets) = Range(a.dets) \cup FoundDets(p, rs, "regex")
        /\ Ingest(p, a, rs, "regex").allowed = a.allowed \cup SpansGone(p, rs)
    BY <1>2, <2>1, <2>2, IngestIs
  <2> QED
    BY <2>1, <2>2, <2>3 DEF AfterRegex
<1>4. /\ IsList(AfterMl(p, s).dets)
      /\ Range(AfterMl(p, s).dets) = Range(AfterRegex(p, s).dets) \cup FoundDets(p, s.ml, "ml")
      /\ AfterMl(p, s).allowed = AfterRegex(p, s).allowed \cup SpansGone(p, s.ml)
  <2>1. PICK a : a = AfterRegex(p, s)
    OBVIOUS
  <2>2. PICK rs : rs = s.ml /\ IsList(rs)
    BY SeenLists
  <2>3. /\ IsList(Ingest(p, a, rs, "ml").dets)
        /\ Range(Ingest(p, a, rs, "ml").dets) = Range(a.dets) \cup FoundDets(p, rs, "ml")
        /\ Ingest(p, a, rs, "ml").allowed = a.allowed \cup SpansGone(p, rs)
    <3>1. IsList(a.dets)
      BY <1>3, <2>1
    <3> QED
      BY <3>1, <2>2, IngestIs
  <2> QED
    BY <2>1, <2>2, <2>3 DEF AfterMl
<1> QED
  BY <1>2, <1>3, <1>4 DEF GatheredDets, GatheredSpans

\* What a detection is, whichever pass made it.
DetOK(p, d) ==
    /\ IsIn(d.from, d.to) /\ d.from < d.to /\ d.score \in Int
    /\ d.source \in {"secret", "custom", "regex", "ml"}
    /\ d.score >= p.floor \/ d.source \in {"secret", "custom"}

\* What is recorded of a report lies in it and reaches the floor.
LEMMA RecordedOK ==
    ASSUME NEW p, NEW r, {"from", "to"} \subseteq DOMAIN r, IsIn(r.from, r.to), r.base \in Int, r.context \in BOOLEAN, p.floor \in Int,
           ~Dropped(p, r), NEW source \in {"regex", "ml"}
    PROVE  DetOK(p, Recorded(r, source))
<1>1. PICK a \in Int, b \in Int : /\ a = r.from /\ b = r.to /\ 0 <= a /\ a <= b /\ b <= TextLength
                                  /\ TextLength \in Nat
  BY DetectAssumption DEF IsIn
<1>2. a < b
  BY <1>1 DEF Dropped
<1>3. PICK sc \in Int : sc = Boosted(r)
  BY DEF Boosted, ContextBoost
<1>4. sc >= p.floor
  BY <1>3 DEF Dropped
<1>5. PICK f \in Int, t \in Int : /\ f = Trimmed(r).from /\ t = Trimmed(r).to
                                  /\ a <= f /\ f < t /\ t <= b
  <2>1. PICK q : q = Trimmed(r)
    OBVIOUS
  <2>2. CASE r.entity \in {"URL", "DOMAIN"} /\ r.look = "quoted" /\ r.to - r.from >= 3
    <3>1. q = [r EXCEPT !.from = @ + 1, !.to = @ - 1]
      BY <2>1, <2>2 DEF Trimmed
    <3>2. q.from = a + 1 /\ q.to = b - 1
      BY <3>1, <1>1
    <3>3. b - a >= 3
      BY <2>2, <1>1
    <3> QED
      BY <3>2, <3>3, <2>1
  <2>3. CASE ~(r.entity \in {"URL", "DOMAIN"} /\ r.look = "quoted" /\ r.to - r.from >= 3)
    <3>1. Trimmed(r) = r
      BY <2>3 DEF Trimmed
    <3>2. a = Trimmed(r).from /\ b = Trimmed(r).to
      BY <3>1, <1>1
    <3> QED
      BY <3>2, <1>2
  <2> QED
    BY <2>2, <2>3
<1>6. PICK d : d = Recorded(r, source)
  OBVIOUS
<1>7. d.from = f /\ d.to = t /\ d.score = sc /\ d.source = source
  BY <1>3, <1>5, <1>6 DEF Recorded, Detection
<1>8. IsIn(f, t)
  BY <1>1, <1>5 DEF IsIn
<1> QED
  BY <1>4, <1>5, <1>6, <1>7, <1>8 DEF DetOK

\* So every gathered detection is well-formed.
LEMMA DetIs ==
    ASSUME RulesMatchText, NEW p \in EngineConfigs, NEW s \in SeenType, NEW d \in GatheredDets(p, s)
    PROVE  DetOK(p, d)
<1>1. p.floor \in Int
  BY DetectAssumption
<1>2. ASSUME NEW h \in Range(s.secrets), d = SecretDet(h) PROVE DetOK(p, d)
  <2>1. h \in SecretHits
    BY SeenLists
  <2>2. IsIn(h[1], h[2]) /\ h[1] < h[2]
    BY <2>1, DetectAssumption
  <2>3. d.from = h[1] /\ d.to = h[2] /\ d.score = 100 /\ d.source = "secret"
    BY <1>2 DEF SecretDet, Detection
  <2> QED
    BY <2>2, <2>3 DEF DetOK
<1>3. ASSUME NEW h \in Range(s.rules), d = RuleDet(h) PROVE DetOK(p, d)
  <2>1. h \in RuleHits
    BY SeenLists
  <2>2. IsIn(h[1], h[2]) /\ h[1] < h[2]
    BY <2>1, DetectAssumption DEF RulesMatchText
  <2>3. d.from = h[1] /\ d.to = h[2] /\ d.score = 100 /\ d.source = "custom"
    BY <1>3 DEF RuleDet, Detection
  <2> QED
    BY <2>2, <2>3 DEF DetOK
<1>4. ASSUME NEW r \in Reports \cup MlReports, ~Dropped(p, r), NEW source \in {"regex", "ml"},
             d = Recorded(r, source)
      PROVE  DetOK(p, d)
  <2>1. {"from", "to"} \subseteq DOMAIN r /\ IsIn(r.from, r.to) /\ r.base \in Int /\ r.context \in BOOLEAN
    BY DetectAssumption
  <2> QED
    BY <2>1, <1>1, <1>4, RecordedOK
<1>5. CASE d \in SecretDets(s.secrets)
  BY <1>5, <1>2 DEF SecretDets
<1>6. CASE d \in RuleDets(p, s.rules)
  BY <1>6, <1>3 DEF RuleDets, RulesMet
<1>7. CASE d \in FoundDets(p, Analyzed(p, s.regex), "regex")
  <2>1. PICK r \in Range(Analyzed(p, s.regex)) : ~Dropped(p, r) /\ d = Recorded(r, "regex")
    BY <1>7 DEF FoundDets, Met, Live
  <2>2. r \in Reports
    BY SeenLists
  <2> QED
    BY <2>1, <2>2, <1>4
<1>8. CASE d \in FoundDets(p, s.ml, "ml")
  <2>1. PICK r \in Range(s.ml) : ~Dropped(p, r) /\ d = Recorded(r, "ml")
    BY <1>8 DEF FoundDets, Met, Live
  <2>2. r \in MlReports
    BY SeenLists
  <2> QED
    BY <2>1, <2>2, <1>4
<1> QED
  BY <1>5, <1>6, <1>7, <1>8 DEF GatheredDets

\* The plan of what the passes gathered: detections of theirs, in the order of the text and
\* apart from each other, and of the detections no allowed span holds each is planned or gives
\* way to one that is.
Standing(p, s) ==
    {d \in GatheredDets(p, s) : Exempt(d) \/ \A sp \in GatheredSpans(p, s) : ~Inside(d, sp)}

PlanFor(p, s, ds, m) ==
    /\ m \in Nat /\ m = Len(ds) /\ DOMAIN ds = 1..m
    /\ \A k \in 1..m : ds[k] \in Standing(p, s)
    /\ \A i, j \in 1..m : i < j => ds[i].from <= ds[j].from /\ ds[i].to <= ds[j].from
    /\ \A x \in Standing(p, s) : \E k \in 1..m : ds[k] = x \/ YieldsTo(x, ds[k])

\* Finish plans what the passes gathered.
LEMMA FinishIs ==
    ASSUME RulesMatchText, NEW p \in EngineConfigs, NEW s \in SeenType
    PROVE  \E m : PlanFor(p, s, FinishDets(AfterMl(p, s)), m)
<1>1. PICK a : a = AfterMl(p, s)
  OBVIOUS
<1>2. IsList(a.dets) /\ Range(a.dets) = GatheredDets(p, s) /\ a.allowed = GatheredSpans(p, s)
  BY <1>1, GatheredIs
<1>3. PICK S : S = {d \in Range(a.dets) : Exempt(d) \/ \A sp \in a.allowed : ~Inside(d, sp)}
  OBVIOUS
<1>4. S = Standing(p, s) /\ Range(a.dets) \cap S = S
  BY <1>2, <1>3 DEF Standing
<1>5. PICK ds : ds = Those(a.dets, S)
  OBVIOUS
<1>6. IsList(ds) /\ Range(ds) = S
  BY <1>2, <1>4, <1>5, ThoseList
<1>7. PICK n \in Nat : n = Len(ds)
  BY <1>6, SeqRange DEF IsList
<1>8. DOMAIN ds = 1..n /\ \A x : x \in S <=> \E i \in 1..n : ds[i] = x
  BY <1>6, <1>7, SeqRange DEF IsList
<1>9. ASSUME NEW i \in 1..n PROVE DetOK(p, ds[i])
  <2>1. ds[i] \in GatheredDets(p, s)
    BY <1>4, <1>8 DEF Standing
  <2> QED
    BY <2>1, DetIs
<1>10. Spanned(ds) /\ Solid(ds)
  <2>1. ASSUME NEW i \in 1..n PROVE IsSpan(ds[i]) /\ ds[i].from < ds[i].to
    <3>1. PICK d : d = ds[i]
      OBVIOUS
    <3>2. DetOK(p, d)
      BY <3>1, <1>9
    <3>3. d.from \in 0..TextLength /\ TextLength \in Nat
      BY <3>2, DetectAssumption DEF DetOK, IsIn
    <3>4. d.from \in Int /\ d.to \in Int
      BY <3>2, <3>3 DEF DetOK, IsIn
    <3> QED
      BY <3>1, <3>2, <3>4 DEF DetOK, IsSpan
  <2> QED
    BY <2>1, <1>8 DEF Spanned, Solid
<1>11. PICK m \in Nat : ResolvedFrom(ds, Resolve(ds), m)
  BY <1>8, <1>10, ResolvedPlan
<1>12. PICK r : r = Resolve(ds)
  OBVIOUS
<1>13. FinishDets(a) = r
  BY <1>3, <1>5, <1>12 DEF FinishDets
<1>14. /\ m = Len(r) /\ DOMAIN r = 1..m
       /\ \A k \in 1..m : \E i \in 1..n : r[k] = ds[i]
       /\ \A i, j \in 1..m : i < j => r[i].from <= r[j].from /\ r[i].to <= r[j].from
       /\ \A i \in 1..n : \E k \in 1..m : r[k] = ds[i] \/ YieldsTo(ds[i], r[k])
  BY <1>8, <1>11, <1>12 DEF ResolvedFrom
<1>15. \A k \in 1..m : r[k] \in Standing(p, s)
  BY <1>4, <1>8, <1>14
<1>16. \A x \in Standing(p, s) : \E k \in 1..m : r[k] = x \/ YieldsTo(x, r[k])
  BY <1>4, <1>8, <1>14
<1>17. PlanFor(p, s, r, m)
  BY <1>14, <1>15, <1>16 DEF PlanFor
<1> QED
  BY <1>1, <1>13, <1>17

(***************************************************************************)
(* The inductive invariant: what has been gathered is what the passes make *)
(* of what they were given.                                                *)
(***************************************************************************)
Phases == {"secrets", "rules", "regex", "ml", "finish", "apply", "sent", "refused"}

DetectInv ==
    /\ engine \in EngineConfigs /\ seen \in SeenType /\ phase \in Phases
    /\ phase = "rules" => acc = AfterSecrets(seen)
    /\ phase = "regex" => acc = AfterRules(engine, seen)
    /\ phase = "ml" => acc = AfterRegex(engine, seen)
    /\ phase = "finish" => acc = AfterMl(engine, seen)
    /\ Planned => plan = FinishDets(AfterMl(engine, seen))
    /\ ~Planned => plan = <<>>
    /\ phase = "sent" => out = Apply(Leaf, WithOps(engine, plan))

\* The inputs of a pass are lists.
LEMMA UpToLists ==
    ASSUME NEW n \in Nat, NEW S, NEW f \in UpTo(n, S)
    PROVE  f \in Seq(S)
<1>1. PICK k \in 0..n : f \in [1..k -> S]
  BY DEF UpTo
<1> QED
  BY <1>1, SeqIs

\* Nothing has been gathered at first.
LEMMA InitGathers == DetectInit => DetectInv
<1> SUFFICES ASSUME DetectInit PROVE DetectInv
  OBVIOUS
<1>1. seen = [secrets |-> <<>>, rules |-> <<>>, regex |-> <<>>, ml |-> <<>>]
  BY DEF DetectInit, NoneSeen
<1>2. seen \in SeenType
  BY <1>1 DEF SeenType
<1> QED
  BY <1>2 DEF DetectInit, DetectInv, Phases, Planned

\* Each pass gathers what it adds.
LEMMA PassesGather ==
    ASSUME DetectInv, PassSecrets \/ PassRules \/ PassRegex \/ PassMl
    PROVE  DetectInv'
<1>1. MostFound.secrets \in Nat /\ MostFound.rules \in Nat /\ MostFound.regex \in Nat /\ MostFound.ml \in Nat
  BY DetectAssumption
<1>2. CASE PassSecrets
  <2>1. PICK hits : /\ hits \in UpTo(MostFound.secrets, SecretHits)
                    /\ seen' = [seen EXCEPT !.secrets = hits] /\ acc' = SecretPass(hits)
    BY <1>2 DEF PassSecrets
  <2>2. hits \in Seq(SecretHits)
    BY <2>1, <1>1, UpToLists
  <2>3. seen' \in SeenType /\ seen'.secrets = hits
    BY <2>1, <2>2 DEF DetectInv, SeenType
  <2>4. acc' = AfterSecrets(seen)'
    BY <2>1, <2>3 DEF AfterSecrets
  <2> QED
    BY <1>2, <2>3, <2>4 DEF DetectInv, PassSecrets, Step, Phases, Planned
<1>3. CASE PassRules
  <2>1. PICK hits : /\ hits \in UpTo(MostFound.rules, RuleHits)
                    /\ seen' = [seen EXCEPT !.rules = hits] /\ acc' = RulePass(engine, acc, hits)
    BY <1>3 DEF PassRules
  <2>2. hits \in Seq(RuleHits)
    BY <2>1, <1>1, UpToLists
  <2>3. seen' \in SeenType /\ seen'.rules = hits /\ seen'.secrets = seen.secrets
    BY <2>1, <2>2 DEF DetectInv, SeenType
  <2>4. acc = AfterSecrets(seen) /\ engine' = engine /\ allow' = allow /\ dated' = dated
    BY <1>3 DEF DetectInv, PassRules, Step
  <2>5. AfterSecrets(seen)' = AfterSecrets(seen)
    BY <2>3 DEF AfterSecrets
  <2>6. \A p, a, h : RulePass(p, a, h)' = RulePass(p, a, h)
    BY <2>4 DEF RulePass, Suppressed, NearNowSpan
  <2>7. acc' = AfterRules(engine, seen)'
    BY <2>1, <2>3, <2>4, <2>5, <2>6 DEF AfterRules
  <2> QED
    BY <1>3, <2>3, <2>4, <2>7 DEF DetectInv, PassRules, Step, Phases, Planned
<1>4. CASE PassRegex
  <2>1. PICK rs : /\ rs \in UpTo(MostFound.regex, Reports)
                  /\ seen' = [seen EXCEPT !.regex = rs]
                  /\ acc' = Ingest(engine, acc, Analyzed(engine, rs), "regex")
    BY <1>4 DEF PassRegex
  <2>2. rs \in Seq(Reports)
    BY <2>1, <1>1, UpToLists
  <2>3. /\ seen' \in SeenType /\ seen'.regex = rs
        /\ seen'.secrets = seen.secrets /\ seen'.rules = seen.rules
    BY <2>1, <2>2 DEF DetectInv, SeenType
  <2>4. acc = AfterRules(engine, seen) /\ engine' = engine /\ allow' = allow /\ dated' = dated
    BY <1>4 DEF DetectInv, PassRegex, Step
  <2>5. AfterRules(engine, seen)' = AfterRules(engine, seen)
    BY <2>3, <2>4 DEF AfterRules, AfterSecrets, RulePass, Suppressed, NearNowSpan
  <2>6. \A p, a, q, z : Ingest(p, a, q, z)' = Ingest(p, a, q, z)
    BY <2>4 DEF Ingest, Suppressed, NearNowSpan
  <2>7. acc' = AfterRegex(engine, seen)'
    BY <2>1, <2>3, <2>4, <2>5, <2>6 DEF AfterRegex
  <2> QED
    BY <1>4, <2>3, <2>4, <2>7 DEF DetectInv, PassRegex, Step, Phases, Planned
<1>5. CASE PassMl
  <2>1. PICK rs : /\ rs \in UpTo(MostFound.ml, MlReports)
                  /\ seen' = [seen EXCEPT !.ml = rs] /\ acc' = Ingest(engine, acc, rs, "ml")
    BY <1>5 DEF PassMl
  <2>2. rs \in Seq(MlReports)
    BY <2>1, <1>1, UpToLists
  <2>3. /\ seen' \in SeenType /\ seen'.ml = rs /\ seen'.regex = seen.regex
        /\ seen'.secrets = seen.secrets /\ seen'.rules = seen.rules
    BY <2>1, <2>2 DEF DetectInv, SeenType
  <2>4. acc = AfterRegex(engine, seen) /\ engine' = engine /\ allow' = allow /\ dated' = dated
    BY <1>5 DEF DetectInv, PassMl, Step
  <2>6. \A p, a, q, z : Ingest(p, a, q, z)' = Ingest(p, a, q, z)
    BY <2>4 DEF Ingest, Suppressed, NearNowSpan
  <2>8. AfterRules(engine, seen)' = AfterRules(engine, seen)
    BY <2>3, <2>4 DEF AfterRules, AfterSecrets, RulePass, Suppressed, NearNowSpan
  <2>5. AfterRegex(engine, seen)' = AfterRegex(engine, seen)
    BY <2>3, <2>4, <2>6, <2>8 DEF AfterRegex
  <2>7. acc' = AfterMl(engine, seen)'
    BY <2>1, <2>3, <2>4, <2>5, <2>6 DEF AfterMl
  <2> QED
    BY <1>5, <2>3, <2>4, <2>7 DEF DetectInv, PassMl, Step, Phases, Planned
<1> QED
  BY <1>2, <1>3, <1>4, <1>5

\* A failing recognizer, Finish and ApplyPlan keep the invariant, and so does a stutter.
LEMMA RestGathers ==
    ASSUME DetectInv, MlFails \/ Finish \/ ApplyPlan \/ UNCHANGED detectVars
    PROVE  DetectInv'
<1>1. CASE MlFails
  BY <1>1 DEF DetectInv, MlFails, Step, Phases, Planned
<1>2. ASSUME engine' = engine, allow' = allow, dated' = dated, seen' = seen
      PROVE  /\ AfterSecrets(seen)' = AfterSecrets(seen)
             /\ AfterRules(engine, seen)' = AfterRules(engine, seen)
             /\ AfterRegex(engine, seen)' = AfterRegex(engine, seen)
             /\ AfterMl(engine, seen)' = AfterMl(engine, seen)
  <2>1. AfterSecrets(seen)' = AfterSecrets(seen)
    BY <1>2 DEF AfterSecrets
  <2>2. AfterRules(engine, seen)' = AfterRules(engine, seen)
    BY <1>2 DEF AfterRules, AfterSecrets, RulePass, Suppressed, NearNowSpan
  <2>3. \A p, a, q, z : Ingest(p, a, q, z)' = Ingest(p, a, q, z)
    BY <1>2 DEF Ingest, Suppressed, NearNowSpan
  <2>4. AfterRegex(engine, seen)' = AfterRegex(engine, seen)
    BY <1>2, <2>2, <2>3 DEF AfterRegex
  <2>5. AfterMl(engine, seen)' = AfterMl(engine, seen)
    BY <1>2, <2>3, <2>4 DEF AfterMl
  <2> QED
    BY <2>1, <2>2, <2>4, <2>5
<1>3. CASE Finish
  <2>1. AfterMl(engine, seen)' = AfterMl(engine, seen)
    BY <1>2, <1>3 DEF Finish
  <2>2. plan' = FinishDets(AfterMl(engine, seen))
    BY <1>3 DEF Finish, DetectInv, Step
  <2>3. plan' = FinishDets(AfterMl(engine, seen))'
    BY <2>1, <2>2 DEF FinishDets
  <2> QED
    BY <1>3, <2>3 DEF DetectInv, Finish, Step, Phases, Planned
<1>4. CASE ApplyPlan
  <2>1. AfterMl(engine, seen)' = AfterMl(engine, seen)
    BY <1>2, <1>4 DEF ApplyPlan
  <2>2. FinishDets(AfterMl(engine, seen))' = FinishDets(AfterMl(engine, seen))
    BY <2>1 DEF FinishDets
  <2>3. WithOps(engine, plan)' = WithOps(engine, plan)
    BY <1>4 DEF ApplyPlan, WithOps, ResolveOperator, OperatorFor
  <2>4. out' = Apply(Leaf, WithOps(engine, plan))'
    BY <1>4, <2>3 DEF ApplyPlan
  <2> QED
    BY <1>4, <2>2, <2>4 DEF DetectInv, ApplyPlan, Step, Phases, Planned
<1>5. CASE UNCHANGED detectVars
  <2>1. /\ engine' = engine /\ allow' = allow /\ dated' = dated /\ seen' = seen
        /\ acc' = acc /\ plan' = plan /\ out' = out /\ phase' = phase
    BY <1>5 DEF detectVars
  <2>2. /\ AfterSecrets(seen)' = AfterSecrets(seen)
        /\ AfterRules(engine, seen)' = AfterRules(engine, seen)
        /\ AfterRegex(engine, seen)' = AfterRegex(engine, seen)
        /\ AfterMl(engine, seen)' = AfterMl(engine, seen)
    BY <1>2, <2>1
  <2>3. FinishDets(AfterMl(engine, seen))' = FinishDets(AfterMl(engine, seen))
    BY <2>2 DEF FinishDets
  <2>4. WithOps(engine, plan)' = WithOps(engine, plan)
    BY <2>1 DEF WithOps, ResolveOperator, OperatorFor
  <2>5. Apply(Leaf, WithOps(engine, plan))' = Apply(Leaf, WithOps(engine, plan))
    BY <2>4
  <2> QED
    BY <2>1, <2>2, <2>3, <2>5 DEF DetectInv, Phases, Planned
<1> QED
  BY <1>1, <1>3, <1>4, <1>5

(***************************************************************************)
(* What the plan is, and what it does to the text.                         *)
(***************************************************************************)

\* A planned detection is one of the gathered ones.
LEMMA PlanDets ==
    ASSUME RulesMatchText, NEW p \in EngineConfigs, NEW s \in SeenType, NEW ds, NEW m,
           PlanFor(p, s, ds, m)
    PROVE  \A k \in 1..m : ds[k] \in GatheredDets(p, s) /\ DetOK(p, ds[k])
<1> SUFFICES ASSUME NEW k \in 1..m PROVE ds[k] \in GatheredDets(p, s) /\ DetOK(p, ds[k])
  OBVIOUS
<1>1. ds[k] \in GatheredDets(p, s)
  BY DEF PlanFor, Standing
<1> QED
  BY <1>1, DetIs

\* What the detections of each pass are called.
LEMMA SourceIs ==
    ASSUME NEW p, NEW s, NEW d \in GatheredDets(p, s)
    PROVE  /\ d.source = "secret" => \E h \in Range(s.secrets) : d = SecretDet(h)
           /\ d.source = "custom" => \E h \in RulesMet(p, s.rules) : d = RuleDet(h)
<1>1. CASE d \in SecretDets(s.secrets)
  BY <1>1 DEF SecretDets, SecretDet, Detection
<1>2. CASE d \in RuleDets(p, s.rules)
  BY <1>2 DEF RuleDets, RuleDet, Detection
<1>3. CASE d \in FoundDets(p, Analyzed(p, s.regex), "regex")
  BY <1>3 DEF FoundDets, Recorded, Detection
<1>4. CASE d \in FoundDets(p, s.ml, "ml")
  BY <1>4 DEF FoundDets, Recorded, Detection
<1> QED
  BY <1>1, <1>2, <1>3, <1>4 DEF GatheredDets

\* Every detection of the plan has an operator.
LEMMA OperatorIs ==
    ASSUME NEW p \in EngineConfigs, NEW d
    PROVE  ResolveOperator(p, d) \in Operators
<1>1. p.default \in Operators /\ \A e \in DOMAIN p.ops : p.ops[e] \in Operators
  BY DetectAssumption
<1>2. {"token", "redact", "mask", "keep"} = Operators
  BY DEF Operators
<1> QED
  BY <1>1, <1>2 DEF ResolveOperator, OperatorFor

\* A plan with its operators can be spliced.
LEMMA WithOpsFit ==
    ASSUME RulesMatchText, NEW p \in EngineConfigs, NEW s \in SeenType, NEW ds, NEW m,
           PlanFor(p, s, ds, m)
    PROVE  /\ m \in Nat /\ m = Len(WithOps(p, ds)) /\ PlanFits(WithOps(p, ds), m)
           /\ \A k \in 1..m : /\ WithOps(p, ds)[k].from = ds[k].from
                              /\ WithOps(p, ds)[k].to = ds[k].to
                              /\ WithOps(p, ds)[k].op = ResolveOperator(p, ds[k])
<1>1. m \in Nat /\ m = Len(ds)
  BY DEF PlanFor
<1>2. PICK w : w = WithOps(p, ds)
  OBVIOUS
<1>3. DOMAIN w = 1..m /\ w \in [1..m -> Range(w)]
  BY <1>1, <1>2 DEF WithOps, Range
<1>4. Len(w) = m
  BY <1>1, <1>3, SeqIs
<1>5. \A k \in 1..m : /\ w[k].from = ds[k].from /\ w[k].to = ds[k].to
                      /\ w[k].op = ResolveOperator(p, ds[k])
  BY <1>1, <1>2 DEF WithOps
<1>6. ASSUME NEW k \in 1..m PROVE Spliceable(w[k])
  <2>1. PICK d : d = ds[k]
    OBVIOUS
  <2>2. DetOK(p, d)
    BY <2>1, PlanDets
  <2>3. d.from \in Nat /\ d.to \in Nat /\ d.from < d.to /\ d.to <= TextLength
    BY <2>2, DetectAssumption DEF DetOK, IsIn
  <2>4. ResolveOperator(p, d) \in Operators
    BY OperatorIs
  <2> QED
    BY <2>1, <2>3, <2>4, <1>5 DEF Spliceable
<1>7. ASSUME NEW i \in 1..m, NEW j \in 1..m, i < j PROVE w[i].to <= w[j].from
  BY <1>5, <1>7 DEF PlanFor
<1>8. PlanFits(w, m)
  BY <1>6, <1>7 DEF PlanFits
<1> QED
  BY <1>1, <1>2, <1>4, <1>5, <1>8

\* The type invariant follows.
LEMMA PlanTypeIs ==
    ASSUME RulesMatchText, DetectInv
    PROVE  DetectTypeOK
<1>1. CASE Planned
  <2>1. engine \in EngineConfigs /\ seen \in SeenType
    BY DEF DetectInv
  <2>2. PICK m : PlanFor(engine, seen, plan, m)
    BY <1>1, <2>1, FinishIs DEF DetectInv
  <2>3. \A k \in 1..m : DetOK(engine, plan[k])
    BY <2>1, <2>2, PlanDets
  <2>4. m = Len(plan)
    BY <2>2 DEF PlanFor
  <2> QED
    BY <2>3, <2>4 DEF DetectInv, DetectTypeOK, Phases, DetOK, IsIn
<1>2. CASE ~Planned
  <2>1. plan = <<>>
    BY <1>2 DEF DetectInv
  <2>2. Len(plan) = 0
    BY <2>1
  <2>3. 1..Len(plan) = {}
    BY <2>2
  <2> QED
    BY <2>3 DEF DetectInv, DetectTypeOK, Phases
<1> QED
  BY <1>1, <1>2

\* Planned detections are in order and apart.
LEMMA PlanApart ==
    ASSUME RulesMatchText, DetectInv
    PROVE  PlanIsSpliceable
<1> SUFFICES ASSUME Planned, NEW i \in 1..Len(plan), NEW j \in 1..Len(plan), i < j
             PROVE  plan[i].from <= plan[j].from /\ Bytes(plan[i]) \cap Bytes(plan[j]) = {}
  BY DEF PlanIsSpliceable
<1>1. engine \in EngineConfigs /\ seen \in SeenType
  BY DEF DetectInv
<1>2. PICK m : PlanFor(engine, seen, plan, m)
  BY <1>1, FinishIs DEF DetectInv
<1>3. m = Len(plan)
  BY <1>2 DEF PlanFor
<1>4. plan[i].from <= plan[j].from /\ plan[i].to <= plan[j].from
  BY <1>2, <1>3 DEF PlanFor
<1>5. DetOK(engine, plan[i]) /\ DetOK(engine, plan[j])
  BY <1>1, <1>2, <1>3, PlanDets
<1>6. PICK b \in Int, c \in Int : b = plan[i].to /\ c = plan[j].from
  BY <1>5, DetectAssumption DEF DetOK, IsIn
<1>7. PICK a \in Int, d \in Int : a = plan[i].from /\ d = plan[j].to
  BY <1>5, DetectAssumption DEF DetOK, IsIn
<1>8. Bytes(plan[i]) = (a + 1)..b /\ Bytes(plan[j]) = (c + 1)..d /\ b <= c
  BY <1>4, <1>6, <1>7 DEF Bytes
<1>9. Bytes(plan[i]) \cap Bytes(plan[j]) = {}
  BY <1>8
<1> QED
  BY <1>4, <1>9

\* What is sent is the spliced plan.
LEMMA SentIs ==
    ASSUME RulesMatchText, DetectInv, phase = "sent"
    PROVE  out \in Seq(Int) /\ Those(out, Nat) = Those(Leaf, Nat \ Hidden(WithOps(engine, plan)))
<1>1. engine \in EngineConfigs /\ seen \in SeenType
  BY DEF DetectInv
<1>2. PICK m : PlanFor(engine, seen, plan, m)
  BY <1>1, FinishIs DEF DetectInv, Planned
<1>3. PICK w : w = WithOps(engine, plan)
  OBVIOUS
<1>4. m \in Nat /\ m = Len(w) /\ PlanFits(w, m)
  BY <1>1, <1>2, <1>3, WithOpsFit
<1>5. out = Apply(Leaf, w)
  BY <1>3 DEF DetectInv
<1>6. Apply(Leaf, w) \in Seq(Int) /\ Those(Apply(Leaf, w), Nat) = Those(Leaf, Nat \ Hidden(w))
  BY <1>4, SplicedExact
<1> QED
  BY <1>3, <1>5, <1>6

(***************************************************************************)
(* What each pass found stands.                                            *)
(***************************************************************************)

\* A registered secret yields to a secret only, so alone it is planned and its bytes are gone.
LEMMA SecretsStand ==
    ASSUME RulesMatchText, DetectInv
    PROVE  SecretsAreMasked
<1> SUFFICES ASSUME phase = "sent", NEW i \in 1..Len(seen.secrets), Alone(seen.secrets[i]),
                    NEW b \in (seen.secrets[i][1] + 1)..seen.secrets[i][2]
             PROVE  b \notin Range(out)
  BY DEF SecretsAreMasked
<1>1. engine \in EngineConfigs /\ seen \in SeenType
  BY DEF DetectInv
<1>2. PICK m : PlanFor(engine, seen, plan, m)
  BY <1>1, FinishIs DEF DetectInv, Planned
<1>3. PICK h : h = seen.secrets[i]
  OBVIOUS
<1>4. IsList(seen.secrets) /\ Range(seen.secrets) \subseteq SecretHits
  BY <1>1, SeenLists
<1>5. \A x : x \in Range(seen.secrets) <=> \E j \in 1..Len(seen.secrets) : seen.secrets[j] = x
  BY <1>4, SeqRange DEF IsList
<1>6. h \in Range(seen.secrets)
  BY <1>3, <1>5
<1>7. SecretDet(h) \in Standing(engine, seen)
  BY <1>6 DEF Standing, GatheredDets, SecretDets, SecretDet, Detection, Exempt
<1>8. PICK k \in 1..m : plan[k] = SecretDet(h) \/ YieldsTo(SecretDet(h), plan[k])
  BY <1>2, <1>7 DEF PlanFor
<1>9. plan[k] = SecretDet(h)
  <2>1. SUFFICES ASSUME YieldsTo(SecretDet(h), plan[k]) PROVE plan[k] = SecretDet(h)
    BY <1>8
  <2>2. plan[k] \in GatheredDets(engine, seen)
    BY <1>1, <1>2, PlanDets
  <2>3. plan[k].source = "secret"
    BY <2>1 DEF YieldsTo, Outranks, Tier, SecretDet, Detection
  <2>4. PICK g \in Range(seen.secrets) : plan[k] = SecretDet(g)
    BY <2>2, <2>3, SourceIs
  <2>5. g[1] < h[2] /\ h[1] < g[2]
    BY <2>1, <2>4 DEF YieldsTo, Overlap, SecretDet, Detection
  <2>6. PICK j \in 1..Len(seen.secrets) : seen.secrets[j] = g
    BY <1>5
  <2>7. g = h \/ g[2] <= h[1] \/ h[2] <= g[1]
    BY <2>6, <1>3 DEF Alone
  <2>8. g \in SecretHits /\ h \in SecretHits
    BY <1>4, <1>6
  <2>9. g[1] \in Int /\ g[2] \in Int /\ h[1] \in Int /\ h[2] \in Int
    BY <2>8, DetectAssumption DEF IsIn
  <2>10. g = h
    BY <2>5, <2>7, <2>9
  <2> QED
    BY <2>4, <2>10
<1>10. PICK w : w = WithOps(engine, plan)
  OBVIOUS
<1>11. m = Len(w) /\ w[k].from = plan[k].from /\ w[k].to = plan[k].to /\ w[k].op = ResolveOperator(engine, plan[k])
  BY <1>1, <1>2, <1>10, WithOpsFit
<1>12. w[k].from = h[1] /\ w[k].to = h[2] /\ w[k].op = "token"
  BY <1>9, <1>11 DEF SecretDet, Detection, ResolveOperator
<1>13. b \in HiddenBy(w[k])
  BY <1>3, <1>12 DEF HiddenBy, Bytes
<1>14. b \in Hidden(w)
  BY <1>11, <1>13 DEF Hidden
<1>15. out \in Seq(Int) /\ Those(out, Nat) = Those(Leaf, Nat \ Hidden(w))
  BY <1>10, SentIs
<1>16. Range(Those(out, Nat)) = Range(out) \cap Nat
  BY <1>15, ThoseRange
<1>17. Range(Those(Leaf, Nat \ Hidden(w))) = Range(Leaf) \cap (Nat \ Hidden(w))
  BY LeafIs, ThoseRange
<1>18. b \in Nat
  <2>1. h \in SecretHits
    BY <1>4, <1>6
  <2>2. h[1] \in Nat /\ h[2] \in Nat
    BY <2>1, DetectAssumption DEF IsIn
  <2> QED
    BY <2>2, <1>3
<1> QED
  BY <1>14, <1>15, <1>16, <1>17, <1>18

\* An allowed span around a finding comes from a rule or a report whose text is allowed.
LEMMA SpanIsAround ==
    ASSUME DetectInv, NEW h, NEW sp \in GatheredSpans(engine, seen), sp[1] <= h[1], h[2] <= sp[2]
    PROVE  AllowedAround(h)
<1>1. seen \in SeenType
  BY DEF DetectInv
<1>2. /\ IsList(seen.rules) /\ IsList(seen.regex) /\ IsList(seen.ml)
      /\ Range(Analyzed(engine, seen.regex)) \subseteq Range(seen.regex)
  BY <1>1, SeenLists
<1>3. CASE sp \in {g \in Range(seen.rules) : Suppressed(engine, g[1], g[2])}
  <2>1. PICK i \in 1..Len(seen.rules) : seen.rules[i] = sp
    BY <1>2, <1>3, SeqRange DEF IsList
  <2> QED
    BY <2>1, <1>3 DEF AllowedAround
<1>4. CASE sp \in SpansGone(engine, Analyzed(engine, seen.regex))
  <2>1. PICK r \in Live(engine, Analyzed(engine, seen.regex)) :
          Suppressed(engine, r.from, r.to) /\ sp = <<r.from, r.to>>
    BY <1>4 DEF SpansGone
  <2>2. r \in Range(seen.regex) /\ ~Imprecise(r)
    BY <1>2 DEF Live, Dropped
  <2>3. PICK i \in 1..Len(seen.regex) : seen.regex[i] = r
    BY <1>2, <2>2, SeqRange DEF IsList
  <2>4. r.from <= h[1] /\ h[2] <= r.to
    BY <2>1
  <2> QED
    BY <2>1, <2>2, <2>3, <2>4 DEF AllowedAround
<1>5. CASE sp \in SpansGone(engine, seen.ml)
  <2>1. PICK r \in Live(engine, seen.ml) : Suppressed(engine, r.from, r.to) /\ sp = <<r.from, r.to>>
    BY <1>5 DEF SpansGone
  <2>3. PICK i \in 1..Len(seen.ml) : seen.ml[i] = r
    BY <1>2, SeqRange DEF IsList, Live
  <2>4. r.from <= h[1] /\ h[2] <= r.to
    BY <2>1
  <2> QED
    BY <2>1, <2>3, <2>4 DEF AllowedAround
<1> QED
  BY <1>3, <1>4, <1>5 DEF GatheredSpans

\* A rule that nothing allowed is around is planned, or yields to what may take its place.
LEMMA RulesStand ==
    ASSUME RulesMatchText, DetectInv
    PROVE  RuleStands
<1> SUFFICES ASSUME Planned, NEW i \in 1..Len(seen.rules), NEW h, h = seen.rules[i],
                    ~AllowedAround(h)
             PROVE  \E n \in 1..Len(plan) :
                      /\ plan[n].from < h[2] /\ h[1] < plan[n].to
                      /\ \/ plan[n].source = "secret"
                         \/ plan[n].source = "custom" /\ Length(plan[n]) >= h[2] - h[1]
  BY DEF RuleStands
<1>1. engine \in EngineConfigs /\ seen \in SeenType
  BY DEF DetectInv
<1>2. PICK m : PlanFor(engine, seen, plan, m)
  BY <1>1, FinishIs DEF DetectInv
<1>3. IsList(seen.rules) /\ Range(seen.rules) \subseteq RuleHits
  BY <1>1, SeenLists
<1>4. h \in Range(seen.rules)
  BY <1>3, SeqRange DEF IsList
<1>5. h[1] \in Int /\ h[2] \in Int /\ h[1] < h[2]
  BY <1>3, <1>4, DetectAssumption DEF IsIn, RulesMatchText
<1>6. ~Suppressed(engine, h[1], h[2])
  <2>1. Suppressed(engine, h[1], h[2]) => AllowedAround(h)
    BY <1>5 DEF AllowedAround
  <2> QED
    BY <2>1
<1>7. PICK x : x = RuleDet(h)
  OBVIOUS
<1>8. x.from = h[1] /\ x.to = h[2] /\ x.source = "custom" /\ x.score = 100
  BY <1>7 DEF RuleDet, Detection
<1>9. x \in GatheredDets(engine, seen)
  BY <1>4, <1>6, <1>7 DEF GatheredDets, RuleDets, RulesMet
<1>10. \A sp \in GatheredSpans(engine, seen) : ~Inside(x, sp)
  BY <1>8, SpanIsAround DEF Inside
<1>11. x \in Standing(engine, seen)
  BY <1>9, <1>10 DEF Standing
<1>12. PICK k \in 1..m : plan[k] = x \/ YieldsTo(x, plan[k])
  BY <1>2, <1>11 DEF PlanFor
<1>13. k \in 1..Len(plan)
  BY <1>2 DEF PlanFor
<1>14. PICK y : y = plan[k]
  OBVIOUS
<1>15. y \in GatheredDets(engine, seen) /\ DetOK(engine, y)
  BY <1>1, <1>2, <1>14, PlanDets
<1>16. CASE y = x
  <2>1. y.from < h[2] /\ h[1] < y.to /\ y.source = "custom"
    BY <1>5, <1>8, <1>16
  <2>2. Length(y) >= h[2] - h[1]
    BY <1>5, <1>8, <1>16 DEF Length
  <2> QED
    BY <2>1, <2>2, <1>13, <1>14
<1>17. CASE YieldsTo(x, y)
  <2>1. y.from < h[2] /\ h[1] < y.to
    BY <1>8, <1>17 DEF YieldsTo, Overlap
  <2>2. ~Outranks(x, y)
    BY <1>17 DEF YieldsTo
  <2>3. Tier(x) = 1
    BY <1>8 DEF Tier
  <2>4. y.source \in {"secret", "custom"}
    BY <2>2, <2>3 DEF Outranks, Tier
  <2>5. CASE y.source = "secret"
    BY <2>1, <2>5, <1>13, <1>14
  <2>6. CASE y.source = "custom"
    <3>1. PICK g \in RulesMet(engine, seen.rules) : y = RuleDet(g)
      BY <1>15, <2>6, SourceIs
    <3>2. y.score = 100
      BY <3>1 DEF RuleDet, Detection
    <3>3. Tier(y) = 1
      BY <2>6 DEF Tier
    <3>4. ~(Length(x) > Length(y))
      BY <2>2, <2>3, <3>2, <3>3, <1>8 DEF Outranks
    <3>5. y.from \in Int /\ y.to \in Int
      BY <1>15, DetectAssumption DEF DetOK, IsIn
    <3>6. Length(y) >= h[2] - h[1]
      BY <3>4, <3>5, <1>5, <1>8 DEF Length
    <3> QED
      BY <2>1, <2>6, <3>6, <1>13, <1>14
  <2> QED
    BY <2>4, <2>5, <2>6
<1> QED
  BY <1>12, <1>14, <1>16, <1>17

\* A credential is exempt from the allow-list and lies where it was reported.
LEMMA CredentialsStand ==
    ASSUME RulesMatchText, DetectInv
    PROVE  CredentialStands
<1> SUFFICES ASSUME Planned, NEW i \in 1..Len(seen.regex), NEW r, r = seen.regex[i],
                    r.entity \in SecretsCategory, ~Dropped(engine, r),
                    ~Suppressed(engine, r.from, r.to)
             PROVE  \E n \in 1..Len(plan) :
                      /\ Overlap(plan[n], r)
                      /\ ~Outranks(Detection(r.from, r.to, r.entity, Boosted(r), "regex"), plan[n])
  BY DEF CredentialStands
<1>1. engine \in EngineConfigs /\ seen \in SeenType
  BY DEF DetectInv
<1>2. PICK m : PlanFor(engine, seen, plan, m)
  BY <1>1, FinishIs DEF DetectInv
<1>3. /\ IsList(seen.regex) /\ Range(seen.regex) \subseteq Reports
      /\ Range(Analyzed(engine, seen.regex)) = {q \in Range(seen.regex) : q.base >= PreFloor(engine)}
  BY <1>1, SeenLists
<1>4. r \in Range(seen.regex)
  BY <1>3, SeqRange DEF IsList
<1>5. /\ r.from \in Int /\ r.to \in Int /\ r.from <= r.to /\ r.base \in Int /\ r.context \in BOOLEAN
      /\ engine.floor \in Int
  BY <1>1, <1>3, <1>4, DetectAssumption DEF IsIn
<1>6. r.from < r.to /\ ~(Boosted(r) < engine.floor)
  BY <1>5 DEF Dropped
<1>7. r.base >= PreFloor(engine)
  BY <1>5, <1>6 DEF Boosted, PreFloor, ContextBoost
<1>8. r \in Met(engine, Analyzed(engine, seen.regex))
  BY <1>3, <1>4, <1>7 DEF Met, Live
<1>9. PICK x : x = Recorded(r, "regex")
  OBVIOUS
<1>10. Trimmed(r) = r
  BY DEF Trimmed, SecretsCategory
<1>11. x = Detection(r.from, r.to, r.entity, Boosted(r), "regex")
  BY <1>9, <1>10 DEF Recorded
<1>12. x.from = r.from /\ x.to = r.to /\ x.entity = r.entity
  BY <1>11 DEF Detection
<1>13. x \in Standing(engine, seen)
  BY <1>8, <1>9, <1>12 DEF Standing, GatheredDets, FoundDets, Exempt
<1>14. PICK k \in 1..m : plan[k] = x \/ YieldsTo(x, plan[k])
  BY <1>2, <1>13 DEF PlanFor
<1>15. k \in 1..Len(plan)
  BY <1>2 DEF PlanFor
<1>16. CASE plan[k] = x
  <2>1. Overlap(x, r)
    BY <1>5, <1>6, <1>12 DEF Overlap
  <2>2. ~Outranks(x, x)
    <3>1. PICK t \in Int : t = Tier(x)
      BY DEF Tier
    <3>2. PICK l \in Int : l = Length(x)
      BY <1>5, <1>12 DEF Length
    <3>3. PICK s \in Int : s = x.score
      BY <1>5, <1>11 DEF Detection, Boosted, ContextBoost
    <3> QED
      BY <3>1, <3>2, <3>3 DEF Outranks
  <2> QED
    BY <2>1, <2>2, <1>11, <1>15, <1>16
<1>17. CASE YieldsTo(x, plan[k])
  <2>1. Overlap(plan[k], r)
    BY <1>12, <1>17 DEF YieldsTo, Overlap
  <2> QED
    BY <2>1, <1>11, <1>15, <1>17 DEF YieldsTo
<1> QED
  BY <1>14, <1>16, <1>17

(***************************************************************************)
(* What the plan does not depend on.                                       *)
(***************************************************************************)

\* What the floor before the boost drops, the floor after it drops too.
LEMMA PrefilterDrops ==
    ASSUME NEW p \in EngineConfigs, NEW a, NEW rs \in Seq(Reports), NEW source
    PROVE  Ingest(p, a, Analyzed(p, rs), source) = Ingest(p, a, rs, source)
<1>1. IsList(rs) /\ Range(rs) \subseteq Reports
  BY SeqRange DEF IsList
<1>2. PICK S : S = {r \in Range(rs) : r.base >= PreFloor(p)}
  OBVIOUS
<1>3. PICK qs : qs = Those(rs, S)
  OBVIOUS
<1>4. Analyzed(p, rs) = qs
  BY <1>2, <1>3 DEF Analyzed
<1>5. Range(qs) = S
  <2>1. Range(qs) = Range(rs) \cap S
    BY <1>1, <1>3, ThoseList
  <2> QED
    BY <2>1, <1>2
<1>6. ASSUME NEW r \in Range(rs), ~Dropped(p, r) PROVE r \in S
  <2>1. r.base \in Int /\ r.context \in BOOLEAN /\ p.floor \in Int
    BY <1>1, DetectAssumption
  <2>2. ~(Boosted(r) < p.floor)
    BY <1>6 DEF Dropped
  <2>3. r.base >= PreFloor(p)
    BY <2>1, <2>2 DEF Boosted, PreFloor, ContextBoost
  <2> QED
    BY <2>3, <1>2
<1>7. PICK live : live = {r \in Range(rs) : ~Dropped(p, r)}
  OBVIOUS
<1>8. {r \in Range(qs) : ~Dropped(p, r)} = live
  <2>1. S \subseteq Range(rs)
    BY <1>2
  <2> QED
    BY <2>1, <1>5, <1>6, <1>7
<1>9. PICK gone : gone = {r \in live : Suppressed(p, r.from, r.to)}
  OBVIOUS
<1>10. Those(qs, live \ gone) = Those(rs, live \ gone)
  <2>1. Those(Those(rs, S), live \ gone) = Those(rs, S \cap (live \ gone))
    BY ThoseTwice
  <2>2. S \cap (live \ gone) = live \ gone
    BY <1>6, <1>7
  <2> QED
    BY <2>1, <2>2, <1>3
<1>11. PICK met : met = Those(rs, live \ gone)
  OBVIOUS
<1>12. Ingest(p, a, rs, source)
         = [dets |-> a.dets \o [i \in DOMAIN met |-> Recorded(met[i], source)],
            allowed |-> a.allowed \cup {<<r.from, r.to>> : r \in gone}]
  BY <1>7, <1>9, <1>11 DEF Ingest
<1>13. Ingest(p, a, qs, source)
         = [dets |-> a.dets \o [i \in DOMAIN met |-> Recorded(met[i], source)],
            allowed |-> a.allowed \cup {<<r.from, r.to>> : r \in gone}]
  BY <1>8, <1>9, <1>10, <1>11 DEF Ingest
<1> QED
  BY <1>4, <1>12, <1>13

\* What run_detection computes at once is what the passes compute one after the other.
LEMMA PlanOfIs ==
    ASSUME NEW p, NEW s
    PROVE  /\ PlanOf(p, s, Analyzed(p, s.regex)) = FinishDets(AfterMl(p, s))
           /\ PlanOf(p, s, s.regex)
                = FinishDets(Ingest(p, Ingest(p, AfterRules(p, s), s.regex, "regex"), s.ml, "ml"))
  BY DEF PlanOf, AfterMl, AfterRegex, AfterRules, AfterSecrets

\* The plan is the one of every report.
LEMMA PrefilterCostsNothing ==
    ASSUME DetectInv
    PROVE  PrefilterIsHarmless
<1> SUFFICES ASSUME Planned PROVE plan = PlanOf(engine, seen, seen.regex)
  BY DEF PrefilterIsHarmless
<1>1. engine \in EngineConfigs /\ seen.regex \in Seq(Reports)
  BY DEF DetectInv, SeenType
<1>2. plan = FinishDets(AfterMl(engine, seen))
  BY DEF DetectInv
<1>3. AfterRegex(engine, seen) = Ingest(engine, AfterRules(engine, seen), seen.regex, "regex")
  BY <1>1, PrefilterDrops DEF AfterRegex
<1>4. AfterMl(engine, seen)
        = Ingest(engine, Ingest(engine, AfterRules(engine, seen), seen.regex, "regex"), seen.ml, "ml")
  BY <1>3 DEF AfterMl
<1> QED
  BY <1>2, <1>4, PlanOfIs

\* What the fingerprint keeps of a policy is all its detection reads of it.
LEMMA SameFingerprint ==
    ASSUME NEW p, NEW q, Fingerprint(p) = Fingerprint(q)
    PROVE  /\ \A a, hits : RulePass(p, a, hits) = RulePass(q, a, hits)
           /\ \A rs : Analyzed(p, rs) = Analyzed(q, rs)
           /\ \A a, rs, source : Ingest(p, a, rs, source) = Ingest(q, a, rs, source)
<1>1. /\ p.floor = q.floor /\ p.entities = q.entities /\ DOMAIN p.ops = DOMAIN q.ops
      /\ p.preserve = q.preserve
  BY DEF Fingerprint
<1>2. \A from, to : Suppressed(p, from, to) <=> Suppressed(q, from, to)
  BY <1>1 DEF Suppressed, NearNowSpan
<1>3. \A r : Dropped(p, r) <=> Dropped(q, r)
  BY <1>1 DEF Dropped, EntityEnabled
<1>4. ASSUME NEW a, NEW hits PROVE RulePass(p, a, hits) = RulePass(q, a, hits)
  <2>1. PICK gone : gone = {h \in Range(hits) : Suppressed(p, h[1], h[2])}
    OBVIOUS
  <2>2. gone = {h \in Range(hits) : Suppressed(q, h[1], h[2])}
    BY <2>1, <1>2
  <2>3. PICK met : met = Those(hits, Range(hits) \ gone)
    OBVIOUS
  <2>4. PICK acc1 : acc1 = [dets |-> a.dets \o [i \in DOMAIN met |->
                               Detection(met[i][1], met[i][2], "RULE", 100, "custom")],
                            allowed |-> a.allowed \cup gone]
    OBVIOUS
  <2>5. RulePass(p, a, hits) = acc1
    BY <2>1, <2>3, <2>4 DEF RulePass
  <2>6. RulePass(q, a, hits) = acc1
    BY <2>2, <2>3, <2>4 DEF RulePass
  <2> QED
    BY <2>5, <2>6
<1>5. ASSUME NEW rs PROVE Analyzed(p, rs) = Analyzed(q, rs)
  BY <1>1 DEF Analyzed, PreFloor
<1>6. ASSUME NEW a, NEW rs, NEW source PROVE Ingest(p, a, rs, source) = Ingest(q, a, rs, source)
  <2>1. PICK live : live = {r \in Range(rs) : ~Dropped(p, r)}
    OBVIOUS
  <2>2. live = {r \in Range(rs) : ~Dropped(q, r)}
    BY <2>1, <1>3
  <2>3. PICK gone : gone = {r \in live : Suppressed(p, r.from, r.to)}
    OBVIOUS
  <2>4. gone = {r \in live : Suppressed(q, r.from, r.to)}
    BY <2>3, <1>2
  <2>5. PICK met : met = Those(rs, live \ gone)
    OBVIOUS
  <2>6. PICK acc1 : acc1 = [dets |-> a.dets \o [i \in DOMAIN met |-> Recorded(met[i], source)],
                            allowed |-> a.allowed \cup {<<r.from, r.to>> : r \in gone}]
    OBVIOUS
  <2>7. Ingest(p, a, rs, source) = acc1
    BY <2>1, <2>3, <2>5, <2>6 DEF Ingest
  <2>8. Ingest(q, a, rs, source) = acc1
    BY <2>2, <2>4, <2>5, <2>6 DEF Ingest
  <2> QED
    BY <2>7, <2>8
<1> QED
  BY <1>4, <1>5, <1>6

\* A policy with the same fingerprint makes the same plan.
LEMMA FingerprintIsEnough ==
    ASSUME DetectInv
    PROVE  FingerprintDecides
<1> SUFFICES ASSUME Planned, NEW p \in EngineConfigs, Fingerprint(p) = Fingerprint(engine)
             PROVE  PlanOf(p, seen, Analyzed(p, seen.regex)) = plan
  BY DEF FingerprintDecides
<1>1. plan = FinishDets(AfterMl(engine, seen))
  BY DEF DetectInv
<1>2. AfterRules(p, seen) = AfterRules(engine, seen)
  BY SameFingerprint DEF AfterRules
<1>3. AfterRegex(p, seen) = AfterRegex(engine, seen)
  BY <1>2, SameFingerprint DEF AfterRegex
<1>4. AfterMl(p, seen) = AfterMl(engine, seen)
  BY <1>3, SameFingerprint DEF AfterMl
<1> QED
  BY <1>1, <1>4, PlanOfIs

\* The properties of a detection follow from what has been gathered.
LEMMA GatheredIsSound ==
    ASSUME RulesMatchText, DetectInv
    PROVE  DetectSound
<1>1. DetectTypeOK
  BY PlanTypeIs
<1>2. PlanIsSpliceable
  BY PlanApart
<1>3. SpliceIsExact
  BY SentIs DEF SpliceIsExact
<1>4. SecretsAreMasked
  BY SecretsStand
<1>5. RuleStands
  BY RulesStand
<1>6. CredentialStands
  BY CredentialsStand
<1>7. PrefilterIsHarmless
  BY PrefilterCostsNothing
<1>8. FingerprintDecides
  BY FingerprintIsEnough
<1> QED
  BY <1>1, <1>2, <1>3, <1>4, <1>5, <1>6, <1>7, <1>8 DEF DetectSound

(* Where no rule of the user matches the empty text, and for every leaf,   *)
(* every configuration, allow-list and set of findings, in any number: the *)
(* plan of run_detection is sorted and free of overlaps, apply sends       *)
(* exactly the bytes no planned finding hides, a registered secret is      *)
(* masked from end to end, a rule and a credential of the always-on        *)
(* category give way only to what may take their place, and neither the    *)
(* analyzer's lowered floor nor a policy of the same fingerprint changes   *)
(* the plan.                                                               *)
THEOREM DetectionIsSound == ASSUME RulesMatchText PROVE DetectSpec => []DetectSound
<1>1. DetectInit => DetectInv
  BY InitGathers
<1>2. DetectInv /\ [DetectNext]_detectVars => DetectInv'
  <2>1. SUFFICES ASSUME DetectInv, [DetectNext]_detectVars PROVE DetectInv'
    OBVIOUS
  <2>2. CASE PassSecrets \/ PassRules \/ PassRegex \/ PassMl
    BY <2>1, <2>2, PassesGather
  <2>3. CASE MlFails \/ Finish \/ ApplyPlan \/ UNCHANGED detectVars
    BY <2>1, <2>3, RestGathers
  <2> QED
    BY <2>1, <2>2, <2>3 DEF DetectNext
<1>3. DetectInv => DetectSound
  BY GatheredIsSound
<1> QED
  BY <1>1, <1>2, <1>3, PTL DEF DetectSpec

(***************************************************************************)
(* The engine that runs detection: MaskEngine.                             *)
(***************************************************************************)

(***************************************************************************)
(* The leaf a mask call works on is a leaf.                                *)
(***************************************************************************)
LEMMA TheLeafIs ==
  ASSUME NEW c, NEW l, c.leaves = {l}
  PROVE  TheLeaf(c) = l
BY DEF TheLeaf

(***************************************************************************)
(* Detections are atoms of the text, what detection leaves is text, and a  *)
(* registered secret of the text is always detected.                       *)
(***************************************************************************)
LEMMA DetectFacts ==
  ASSUME NEW text, NEW rules, NEW preserve, NEW sec, NEW model, NEW day
  PROVE  /\ Detect(text, rules, preserve, sec, model, day) \subseteq text
         /\ text \cap sec \subseteq
              Detect(text, rules, preserve, sec, model, day)
BY DEF Detect

(***************************************************************************)
(* A call in flight: mask and mask_when_disabled work on one leaf, only    *)
(* mask gets past the disabled path.                                       *)
(***************************************************************************)
CallShape(c) ==
  /\ c.kind # "prewarm" /\ c.pc # "idle" => \E l \in Leaves : c.leaves = {l}
  /\ c.pc \in {"lookup", "gate", "recheck", "ml"} => c.kind # "off"
  /\ c.pc \in {"detect", "clear", "insert"} => c.kind = "mask"
  /\ c.pc = "bypass" => c.kind = "mask"
  /\ c.pc = "batch" => c.kind = "prewarm"

Shapes == \A t \in Threads : CallShape(call[t])

LEMMA PrewarmLeaves ==
  ASSUME NEW c
  PROVE  Plannable(c) \subseteq c.leaves
BY DEF Plannable

USE EngineAssumption

LEMMA CacheInsertType ==
  ASSUME NEW k \in KeyType, NEW dets \in SUBSET Atoms,
         cache \in SUBSET [key : KeyType, dets : SUBSET Atoms],
         CacheInsert(k, dets)
  PROVE  cache' \in SUBSET [key : KeyType, dets : SUBSET Atoms]
<1>1. [key |-> k, dets |-> dets] \in [key : KeyType, dets : SUBSET Atoms]
  OBVIOUS
<1>2. \/ cache' = cache
      \/ \E keep \in SUBSET cache : cache' = keep \cup {[key |-> k, dets |-> dets]}
  BY DEF CacheInsert, Cached
<1> QED  BY <1>1, <1>2

LEMMA KeyIsTyped ==
  ASSUME NEW c \in CallType, NEW l \in Leaves
  PROVE  Key(c, l) \in KeyType
BY DEF Key, KeyType, CallType, PolicyType

LEMMA FinishedIsTyped ==
  ASSUME NEW c \in CallType, NEW l \in Leaves, c.leaves = {l},
         NEW dets \in SUBSET Atoms
  PROVE  Finished(c, dets) \in CallType
<1>1. TheLeaf(c) = l  BY TheLeafIs
<1>2. BypassPlain(c) \in SUBSET Atoms  BY <1>1 DEF BypassPlain
<1>3. LeftPlain(Outer[TheLeaf(c)], dets, c.pol.keep, c.sec) \in SUBSET Atoms
  BY <1>1 DEF LeftPlain
<1> QED  BY <1>2, <1>3 DEF Finished, Return, CallType

(***************************************************************************)
(* The model's typing and the shape of calls, together inductive.          *)
(***************************************************************************)
Typed == MaskTypeOK /\ Shapes

LEMMA CallUpdateTyped ==
  ASSUME call \in [Threads -> CallType], Shapes, NEW t \in Threads,
         NEW x \in CallType, CallShape(x),
         call' = [call EXCEPT ![t] = x]
  PROVE  call' \in [Threads -> CallType] /\ Shapes'
BY DEF Shapes

LEMMA SnapTyped ==
  ASSUME Typed, NEW t \in Threads,
         SnapBypass(t) \/ SnapPolicy(t) \/ SnapSecrets(t) \/ SnapMl(t)
  PROVE  Typed'
<1> DEFINE c == call[t]
<1>0. /\ c \in CallType /\ CallShape(c)
      /\ policy \in PolicyType /\ secrets \in SUBSET Secrets /\ today \in Nat
      /\ call \in [Threads -> CallType] /\ Shapes
      /\ ml.model \in Models \cup {NoModel} /\ ml.gen \in Nat
  BY DEF Typed, MaskTypeOK, Shapes
<1>1. ASSUME NEW x \in CallType, CallShape(x), call' = [call EXCEPT ![t] = x],
             UNCHANGED <<engineVars, mlVars, today, counters>>
      PROVE  Typed'
  <2>1. call' \in [Threads -> CallType] /\ Shapes'
    BY <1>0, <1>1, CallUpdateTyped
  <2> QED  BY <2>1, <1>1 DEF Typed, MaskTypeOK, engineVars, mlVars
<1>2. CASE SnapBypass(t)
  <2> DEFINE x == [c EXCEPT !.bypass = secrets, !.pc = "policy"]
  <2>1. x \in CallType  BY <1>0 DEF CallType
  <2>2. CallShape(x)  BY <1>0, <1>2 DEF CallShape, CallType, SnapBypass
  <2>3. call' = [call EXCEPT ![t] = x]  BY <1>0, <1>2 DEF SnapBypass
  <2> QED  BY <1>1, <1>2, <2>1, <2>2, <2>3 DEF SnapBypass
<1>3. CASE SnapPolicy(t)
  <2> DEFINE x == [c EXCEPT !.pol = policy,
                     !.pc = IF c.kind = "prewarm" /\ ~policy.enabled
                              THEN "done" ELSE "secrets"]
  <2>1. x \in CallType  BY <1>0, ZenonT(60) DEF CallType
  <2>2. CallShape(x)  BY <1>0, <1>3 DEF CallShape, CallType, SnapPolicy
  <2>3. call' = [call EXCEPT ![t] = x]  BY <1>0, <1>3 DEF SnapPolicy
  <2> QED  BY <1>1, <1>3, <2>1, <2>2, <2>3 DEF SnapPolicy
<1>4. CASE SnapSecrets(t)
  <2> DEFINE d == [c EXCEPT !.sec = secrets]
             x == IF Disabled(d) THEN [Return(d) EXCEPT !.out = DisabledPlain(d)]
                                 ELSE [d EXCEPT !.pc = "ml"]
  <2>1. d \in CallType /\ d.leaves = c.leaves /\ d.kind = c.kind /\ d.pc = "secrets"
    BY <1>0, <1>4 DEF CallType, SnapSecrets
  <2>2. CASE Disabled(d)
    <3>1. PICK l \in Leaves : d.leaves = {l}
      BY <2>1, <2>2, <1>0 DEF Disabled, CallShape
    <3>2. TheLeaf(d) = l  BY <3>1, TheLeafIs
    <3>3. DisabledPlain(d) \in SUBSET Atoms
      BY <3>2 DEF DisabledPlain, BypassPlain
    <3>4. x \in CallType  BY <2>1, <2>2, <3>3 DEF CallType, Return
    <3>5. CallShape(x)
      BY <2>1, <2>2, <3>1 DEF CallShape, Return, CallType
    <3> QED  BY <3>4, <3>5, <1>1, <1>4 DEF SnapSecrets
  <2>3. CASE ~Disabled(d)
    <3>1. x \in CallType  BY <2>1, <2>3 DEF CallType
    <3>2. CallShape(x)
      BY <2>1, <2>3, <1>0 DEF CallShape, CallType, Disabled
    <3> QED  BY <3>1, <3>2, <1>1, <1>4 DEF SnapSecrets
  <2> QED  BY <2>2, <2>3
<1>5. CASE SnapMl(t)
  <2> DEFINE y == [Return(c) EXCEPT !.ok = FALSE]
             z == [c EXCEPT !.pc = "done"]
             w == [c EXCEPT !.rec = IF ml.status = "ready" THEN ml.model
                                                          ELSE NoModel,
                     !.gen = ml.gen, !.day = today, !.scanned = TRUE,
                     !.pc = "lookup"]
  <2>1. y \in CallType /\ z \in CallType /\ w \in CallType
    BY <1>0, ZenonT(60) DEF CallType, Return
  <2>2. CallShape(y) /\ CallShape(z) /\ CallShape(w)
    BY <1>0, <1>5 DEF CallShape, CallType, Return, SnapMl
  <2>3. \/ call' = [call EXCEPT ![t] = y]
        \/ call' = [call EXCEPT ![t] = z]
        \/ call' = [call EXCEPT ![t] = w]
    BY <1>0, <1>5 DEF SnapMl, Refuse, w
  <2> QED  BY <1>1, <1>5, <2>1, <2>2, <2>3 DEF SnapMl
<1> QED  BY <1>2, <1>3, <1>4, <1>5

LEMMA FinishedShape ==
  ASSUME NEW c \in CallType, CallShape(c), c.kind = "mask", c.pc # "idle",
         NEW dets
  PROVE  CallShape(Finished(c, dets))
BY DEF CallShape, Finished, Return, CallType

LEMMA ReturnTyped ==
  ASSUME NEW c \in CallType, CallShape(c), c.pc # "idle", NEW ok \in BOOLEAN
  PROVE  /\ Return(c) \in CallType /\ CallShape(Return(c))
         /\ [Return(c) EXCEPT !.ok = ok] \in CallType
         /\ CallShape([Return(c) EXCEPT !.ok = ok])
BY ZenonT(60) DEF CallShape, Return, CallType

LEMMA MaskStepTyped ==
  ASSUME Typed, NEW t \in Threads,
         \/ CacheLookup(t) \/ TakeGate(t) \/ Recheck(t) \/ DetectOk(t)
         \/ DetectFail(t) \/ ClearNote(t) \/ Insert(t)
  PROVE  Typed'
<1> DEFINE c == call[t]
<1>0. /\ c \in CallType /\ CallShape(c)
      /\ call \in [Threads -> CallType] /\ Shapes
      /\ cache \in SUBSET [key : KeyType, dets : SUBSET Atoms]
      /\ gate \in Threads \cup {Free}
      /\ ml \in [status : StatusType, model : Models \cup {NoModel},
                 desired : WantType, gen : Nat, note : Nat \cup {-1}]
  BY DEF Typed, MaskTypeOK, Shapes
<1>1. ASSUME NEW x \in CallType, CallShape(x), call' = [call EXCEPT ![t] = x],
             gate' \in Threads \cup {Free},
             cache' \in SUBSET [key : KeyType, dets : SUBSET Atoms],
             ml' \in [status : StatusType, model : Models \cup {NoModel},
                      desired : WantType, gen : Nat, note : Nat \cup {-1}],
             UNCHANGED <<policy, secrets, cap, intent, adm, loads, today>>
      PROVE  Typed'
  <2>1. call' \in [Threads -> CallType] /\ Shapes'
    BY <1>0, <1>1, CallUpdateTyped
  <2> QED  BY <2>1, <1>1 DEF Typed, MaskTypeOK
<1>2. Release(t) => gate' \in Threads \cup {Free}
  BY <1>0 DEF Release
<1>3. ASSUME c.pc \in {"lookup", "recheck", "detect", "clear", "insert"},
             c.kind = "mask", NEW dets \in SUBSET Atoms
      PROVE  Finished(c, dets) \in CallType /\ CallShape(Finished(c, dets))
  <2>1. PICK l \in Leaves : c.leaves = {l}  BY <1>0, <1>3 DEF CallShape
  <2> QED  BY <1>0, <1>3, <2>1, FinishedIsTyped, FinishedShape
<1>4. CASE CacheLookup(t)
  <2> DEFINE hits == Hits(Key(c, TheLeaf(c)))
             p == IF c.rec = NoModel THEN "detect" ELSE "gate"
  <2>1. CASE hits # {}
    <3>1. PICK e \in hits : call' = [call EXCEPT ![t] = Finished(c, e.dets)]
      BY <1>4, <2>1 DEF CacheLookup
    <3>2. e.dets \in SUBSET Atoms  BY <1>0 DEF Hits, Cached
    <3> QED  BY <1>0, <1>1, <1>3, <1>4, <3>1, <3>2 DEF CacheLookup, engineVars, mlVars
  <2>2. CASE hits = {}
    <3>1. call' = [call EXCEPT ![t] = [c EXCEPT !.pc = p]]
      BY <1>0, <1>4, <2>2 DEF CacheLookup
    <3>2. [c EXCEPT !.pc = p] \in CallType  BY <1>0 DEF CallType
    <3>3. CallShape([c EXCEPT !.pc = p])
      BY <1>0, <1>4 DEF CallShape, CallType, CacheLookup
    <3> QED  BY <1>0, <1>1, <1>4, <3>1, <3>2, <3>3 DEF CacheLookup, engineVars, mlVars
  <2> QED  BY <2>1, <2>2
<1>5. CASE TakeGate(t)
  <2> DEFINE x == [c EXCEPT !.pc = "recheck"]
  <2>1. x \in CallType /\ CallShape(x)
    BY <1>0, <1>5 DEF CallType, CallShape, TakeGate
  <2>2. call' = [call EXCEPT ![t] = x]  BY <1>0, <1>5 DEF TakeGate
  <2> QED  BY <1>0, <1>1, <1>5, <2>1, <2>2 DEF TakeGate, mlVars
<1>6. CASE Recheck(t)
  <2> DEFINE hits == Hits(Key(c, TheLeaf(c)))
             x == [c EXCEPT !.pc = "detect"]
  <2>1. CASE hits # {}
    <3>1. PICK e \in hits : call' = [call EXCEPT ![t] = Finished(c, e.dets)]
      BY <1>6, <2>1 DEF Recheck
    <3>2. e.dets \in SUBSET Atoms  BY <1>0 DEF Hits, Cached
    <3>3. gate' \in Threads \cup {Free}  BY <1>2, <1>6, <2>1 DEF Recheck
    <3> QED  BY <1>0, <1>1, <1>3, <1>6, <3>1, <3>2, <3>3 DEF Recheck, mlVars
  <2>2. CASE hits = {}
    <3>1. call' = [call EXCEPT ![t] = x] /\ gate' = gate
      BY <1>0, <1>6, <2>2 DEF Recheck
    <3>2. x \in CallType /\ CallShape(x)
      BY <1>0, <1>6 DEF CallType, CallShape, Recheck
    <3> QED  BY <1>0, <1>1, <1>6, <3>1, <3>2 DEF Recheck, mlVars
  <2> QED  BY <2>1, <2>2
<1>7. CASE DetectOk(t)
  <2> DEFINE q == IF c.rec = NoModel THEN "insert" ELSE "clear"
             x == [c EXCEPT !.dets = DetectLeaf(c, TheLeaf(c)), !.pc = q]
  <2>1. PICK l \in Leaves : c.leaves = {l}
    BY <1>0, <1>7 DEF CallShape, DetectOk
  <2>2. TheLeaf(c) = l  BY <2>1, TheLeafIs
  <2>3. DetectLeaf(c, TheLeaf(c)) \in SUBSET Atoms
    BY <2>2, DetectFacts DEF DetectLeaf
  <2>4. x \in CallType  BY <1>0, <2>3, ZenonT(60) DEF CallType
  <2>5. CallShape(x)  BY <1>0, <1>7 DEF CallType, CallShape, DetectOk
  <2>6. call' = [call EXCEPT ![t] = x]  BY <1>0, <1>7 DEF DetectOk
  <2> QED  BY <1>0, <1>1, <1>7, <2>4, <2>5, <2>6 DEF DetectOk, engineVars, mlVars
<1>8. CASE DetectFail(t)
  <2> DEFINE x == [Return(c) EXCEPT !.ok = FALSE]
  <2>1. x \in CallType /\ CallShape(x)
    BY <1>0, <1>8, ReturnTyped DEF DetectFail
  <2>2. call' = [call EXCEPT ![t] = x]  BY <1>0, <1>8 DEF DetectFail, Refuse
  <2>3. ml' \in [status : StatusType, model : Models \cup {NoModel},
                 desired : WantType, gen : Nat, note : Nat \cup {-1}]
    BY <1>0, <1>8 DEF DetectFail, CallType
  <2> QED  BY <1>0, <1>1, <1>2, <1>8, <2>1, <2>2, <2>3 DEF DetectFail
<1>9. CASE ClearNote(t)
  <2> DEFINE x == [c EXCEPT !.pc = "insert"]
  <2>1. x \in CallType /\ CallShape(x)
    BY <1>0, <1>9 DEF CallType, CallShape, ClearNote
  <2>2. call' = [call EXCEPT ![t] = x]  BY <1>0, <1>9 DEF ClearNote
  <2>3. ml' \in [status : StatusType, model : Models \cup {NoModel},
                 desired : WantType, gen : Nat, note : Nat \cup {-1}]
    BY <1>0, <1>9 DEF ClearNote
  <2> QED  BY <1>0, <1>1, <1>9, <2>1, <2>2, <2>3 DEF ClearNote, engineVars
<1>10. CASE Insert(t)
  <2>1. PICK l \in Leaves : c.leaves = {l}
    BY <1>0, <1>10 DEF CallShape, Insert
  <2>2. TheLeaf(c) = l  BY <2>1, TheLeafIs
  <2>3. c.dets \in SUBSET Atoms  BY <1>0 DEF CallType
  <2>4. Key(c, TheLeaf(c)) \in KeyType  BY <1>0, <2>2, KeyIsTyped
  <2>5. cache' \in SUBSET [key : KeyType, dets : SUBSET Atoms]
    BY <1>0, <1>10, <2>3, <2>4, CacheInsertType DEF Insert
  <2>6. Finished(c, c.dets) \in CallType /\ CallShape(Finished(c, c.dets))
    BY <1>0, <1>3, <1>10, <2>3 DEF Insert, CallShape
  <2> QED  BY <1>0, <1>1, <1>2, <1>10, <2>5, <2>6 DEF Insert, mlVars
<1> QED  BY <1>4, <1>5, <1>6, <1>7, <1>8, <1>9, <1>10

LEMMA PrewarmTyped ==
  ASSUME Typed, NEW t \in Threads,
         \/ PrewarmPlan(t)
         \/ \E ok \in BOOLEAN : PrewarmDetect(t, ok)
         \/ \E l \in Leaves : PrewarmInsert(t, l)
  PROVE  Typed'
<1> DEFINE c == call[t]
<1>0. /\ c \in CallType /\ CallShape(c)
      /\ call \in [Threads -> CallType] /\ Shapes
      /\ cache \in SUBSET [key : KeyType, dets : SUBSET Atoms]
      /\ gate \in Threads \cup {Free} /\ today \in Nat
  BY DEF Typed, MaskTypeOK, Shapes
<1>1. ASSUME NEW x \in CallType, CallShape(x), call' = [call EXCEPT ![t] = x],
             gate' \in Threads \cup {Free},
             cache' \in SUBSET [key : KeyType, dets : SUBSET Atoms],
             UNCHANGED <<policy, secrets, cap, mlVars, today>>
      PROVE  Typed'
  <2>1. call' \in [Threads -> CallType] /\ Shapes'
    BY <1>0, <1>1, CallUpdateTyped
  <2> QED  BY <2>1, <1>1 DEF Typed, MaskTypeOK, mlVars
<1>2. Release(t) => gate' \in Threads \cup {Free}
  BY <1>0 DEF Release
<1>3. Plannable(c) \in SUBSET Leaves
  BY <1>0, PrewarmLeaves DEF CallType
<1>4. CASE PrewarmPlan(t)
  <2> DEFINE x == IF Plannable(c) = {} THEN Return(c)
                  ELSE [c EXCEPT !.leaves = Plannable(c), !.pc = "gate"]
  <2>1. x \in CallType /\ CallShape(x)
    <3>1. Return(c) \in CallType /\ CallShape(Return(c))
      BY <1>0, <1>4, ReturnTyped DEF PrewarmPlan
    <3>2. [c EXCEPT !.leaves = Plannable(c), !.pc = "gate"] \in CallType
      BY <1>0, <1>3 DEF CallType
    <3>3. CallShape([c EXCEPT !.leaves = Plannable(c), !.pc = "gate"])
      BY <1>0, <1>4 DEF CallShape, CallType, PrewarmPlan
    <3> QED  BY <3>1, <3>2, <3>3
  <2> QED  BY <1>0, <1>1, <1>4, <2>1 DEF PrewarmPlan, engineVars
<1>5. ASSUME NEW ok \in BOOLEAN, PrewarmDetect(t, ok) PROVE Typed'
  <2> DEFINE x == [c EXCEPT !.leaves = Plannable(c), !.seen = today,
                            !.pc = "batch"]
  <2>1. Return(c) \in CallType /\ CallShape(Return(c))
    BY <1>0, <1>5, ReturnTyped DEF PrewarmDetect
  <2>2. x \in CallType  BY <1>0, <1>3 DEF CallType
  <2>3. CallShape(x)  BY <1>0, <1>5 DEF CallShape, CallType, PrewarmDetect
  <2>4. \/ call' = [call EXCEPT ![t] = x] /\ UNCHANGED gate
        \/ call' = [call EXCEPT ![t] = Return(c)] /\ Release(t)
    BY <1>0, <1>5 DEF PrewarmDetect
  <2> QED  BY <1>0, <1>1, <1>2, <1>5, <2>1, <2>2, <2>3, <2>4 DEF PrewarmDetect
<1>6. ASSUME NEW l \in Leaves, PrewarmInsert(t, l) PROVE Typed'
  <2> DEFINE x == [c EXCEPT !.leaves = c.leaves \ {l}]
  <2>1. Return(c) \in CallType /\ CallShape(Return(c))
    BY <1>0, <1>6, ReturnTyped DEF PrewarmInsert
  <2>2. x \in CallType  BY <1>0 DEF CallType
  <2>3. CallShape(x)  BY <1>0, <1>6 DEF CallShape, CallType, PrewarmInsert
  <2>4. \/ call' = [call EXCEPT ![t] = x] /\ UNCHANGED gate
        \/ call' = [call EXCEPT ![t] = Return(c)] /\ Release(t)
    BY <1>0, <1>6 DEF PrewarmInsert
  <2>5. BatchDets(c, l) \in SUBSET Atoms  BY DetectFacts DEF BatchDets
  <2>6. cache' \in SUBSET [key : KeyType, dets : SUBSET Atoms]
    BY <1>0, <1>6, <2>5, KeyIsTyped, CacheInsertType DEF PrewarmInsert
  <2> QED
    BY <1>0, <1>1, <1>2, <1>6, <2>1, <2>2, <2>3, <2>4, <2>6 DEF PrewarmInsert
<1> QED  BY <1>4, <1>5, <1>6

LEMMA WantsTyped == NoWant \in WantType /\ Wants \subseteq WantType
BY DEF WantType

\* A section that is on names a model, and its required flag may be changed.
LEMMA OnIsWant ==
  ASSUME NEW w \in WantType, w.on
  PROVE  /\ w \in Wants /\ w.model \in Models /\ w.req \in BOOLEAN
<1>1. w # NoWant
  <2>1. SUFFICES ASSUME w = NoWant PROVE FALSE  OBVIOUS
  <2>2. NoWant.on = FALSE  BY DEF NoWant
  <2> QED  BY <2>1, <2>2
<1>2. w \in Wants  BY <1>1 DEF WantType
<1> QED  BY <1>2 DEF Wants

LEMMA WantWithReq ==
  ASSUME NEW w \in Wants, NEW req \in BOOLEAN
  PROVE  /\ [w EXCEPT !.req = req] \in Wants
         /\ w.on
         /\ [w EXCEPT !.req = req] = [on |-> w.on, model |-> w.model, req |-> req]
<1>1. w.on = TRUE  BY DEF Wants
<1>2. [w EXCEPT !.req = req] = [on |-> w.on, model |-> w.model, req |-> req]
  BY DEF Wants
<1>3. [w EXCEPT !.req = req] \in Wants
  BY <1>1, <1>2 DEF Wants
<1> QED  BY <1>1, <1>2, <1>3

LEMMA ControlTyped ==
  ASSUME Typed, Control
  PROVE  Typed'
<1>1. CASE \E how \in {"put", "enable", "disable"},
              pol \in Configs \cup {policy}, w \in Wants : ConfigWrite(how, pol, w)
  <2>1. PICK how \in {"put", "enable", "disable"},
             pol \in Configs \cup {policy}, w \in Wants : ConfigWrite(how, pol, w)
    BY <1>1
  <2>2. policy' \in PolicyType
    BY <2>1 DEF ConfigWrite, Typed, MaskTypeOK
  <2>3. intent' \in WantType  BY <2>1, WantsTyped DEF ConfigWrite
  <2>4. adm' \in [pc : {"idle", "cap", "read", "act"},
                  how : {"put", "enable", "disable"},
                  snap : [status : StatusType, desired : WantType]]
    BY <2>1, WantsTyped DEF ConfigWrite, Settled, StatusType
  <2>5. call' \in [Threads -> CallType] /\ Shapes'
    <3>1. \A t \in Threads : call[t] \in CallType /\ CallShape(call[t])
      BY DEF Typed, MaskTypeOK, Shapes
    <3>2. ASSUME NEW c \in CallType, CallShape(c)
          PROVE  /\ [c EXCEPT !.strict = FALSE] \in CallType
                 /\ CallShape([c EXCEPT !.strict = FALSE])
      <4>1. [c EXCEPT !.strict = FALSE] \in CallType  BY DEF CallType
      <4>2. CallShape([c EXCEPT !.strict = FALSE])
        BY <3>2 DEF CallType, CallShape
      <4> QED  BY <4>1, <4>2
    <3> QED  BY <2>1, <3>1, <3>2 DEF ConfigWrite, Shapes
  <2> QED  BY <2>1, <2>2, <2>3, <2>4, <2>5 DEF ConfigWrite, Typed, MaskTypeOK
<1>2. CASE SetCap
  BY <1>2 DEF SetCap, Typed, MaskTypeOK, Shapes, PolicyType
<1>3. CASE ReconcileRead
  BY <1>3 DEF ReconcileRead, Typed, MaskTypeOK, Shapes, engineVars
<1>4. CASE ReconcileAct
  <2>1. adm' \in [pc : {"idle", "cap", "read", "act"},
                  how : {"put", "enable", "disable"},
                  snap : [status : StatusType, desired : WantType]]
    BY <1>4, WantsTyped DEF ReconcileAct, Settled, StatusType
  <2>2. /\ ml' \in [status : StatusType, model : Models \cup {NoModel},
                   desired : WantType, gen : Nat, note : Nat \cup {-1}]
        /\ loads' \in SUBSET [gen : Nat, model : Models]
    <3>1. CASE MlDisable
      BY <3>1, WantsTyped DEF MlDisable, Typed, MaskTypeOK, StatusType
    <3>2. CASE intent.on /\ MlBeginLoad(intent)
      <4>1. intent.model \in Models
        BY <3>2, OnIsWant DEF Typed, MaskTypeOK
      <4> QED  BY <3>2, <4>1 DEF MlBeginLoad, Typed, MaskTypeOK, StatusType
    <3>3. CASE intent.on /\ MlUpdateRequired(intent.req)
      <4>1. ml.desired.on => [ml.desired EXCEPT !.req = intent.req] \in Wants
        <5>1. intent.req \in BOOLEAN
          BY <3>3, OnIsWant DEF Typed, MaskTypeOK
        <5> QED  BY <5>1, OnIsWant, WantWithReq DEF Typed, MaskTypeOK
      <4> QED  BY <3>3, <4>1 DEF MlUpdateRequired, Typed, MaskTypeOK, WantType
    <3>4. CASE UNCHANGED <<ml, loads>>
      BY <3>4 DEF Typed, MaskTypeOK
    <3> QED  BY <1>4, <3>1, <3>2, <3>3, <3>4 DEF ReconcileAct
  <2> QED  BY <1>4, <2>1, <2>2 DEF ReconcileAct, Typed, MaskTypeOK, Shapes, engineVars
<1>5. CASE \E on \in BOOLEAN : SetEnabled(on)
  BY <1>5 DEF SetEnabled, Typed, MaskTypeOK, Shapes, PolicyType, mlVars
<1>6. CASE \E set \in SUBSET Secrets : SetSecretRules(set)
  BY <1>6 DEF SetSecretRules, Typed, MaskTypeOK, Shapes, mlVars
<1> QED  BY <1>1, <1>2, <1>3, <1>4, <1>5, <1>6 DEF Control

LEMMA StartTyped ==
  ASSUME Typed, NEW t \in Threads, NEW kind \in {"mask", "off", "prewarm"},
         NEW ls \in SUBSET Leaves, Start(t, kind, ls)
  PROVE  Typed'
<1> DEFINE pc0 == IF kind = "mask" /\ ls \subseteq Marked
                    THEN "bypass" ELSE "policy"
           y(b) == [Idle EXCEPT !.pc = pc0, !.kind = kind, !.leaves = ls,
                                !.start = secrets, !.strict = b]
<1>1. PICK b \in BOOLEAN : call' = [call EXCEPT ![t] = y(b)]
  <2>1. (adm.pc = "idle" /\ intent.on /\ intent.req) \in BOOLEAN  OBVIOUS
  <2> QED  BY <2>1, Zenon DEF Start
<1> DEFINE x == y(b)
<1>2. secrets \in SUBSET Secrets /\ pc0 \in {"bypass", "policy"}
  BY DEF Typed, MaskTypeOK
<1>3. x \in CallType /\ x.pc = pc0 /\ x.kind = kind /\ x.leaves = ls
  <2>1. NoPolicy \in PolicyType  BY DEF NoPolicy, PolicyType
  <2>2. Idle \in CallType  BY <2>1 DEF Idle, CallType
  <2> HIDE DEF pc0
  <2> QED  BY <1>2, <2>2 DEF CallType
<1> HIDE DEF x
<1>4. CallShape(x)
  <2>1. kind # "prewarm" => \E l \in Leaves : ls = {l}  BY DEF Start
  <2> QED  BY <1>3, <2>1 DEF CallShape
<1>5. call' \in [Threads -> CallType] /\ Shapes'
  BY <1>1, <1>3, <1>4, CallUpdateTyped DEF Typed, MaskTypeOK, x
<1> QED  BY <1>5 DEF Start, Typed, MaskTypeOK, engineVars, mlVars

LEMMA TypedStep == Typed /\ [MaskNext]_maskVars => Typed'
<1> SUFFICES ASSUME Typed, [MaskNext]_maskVars PROVE Typed'
  OBVIOUS
<1>1. CASE \E t \in Threads, kind \in {"mask", "off", "prewarm"},
              ls \in SUBSET Leaves : Start(t, kind, ls)
  BY <1>1, StartTyped
<1>2. CASE \E t \in Threads : CallStep(t)
  BY <1>2, SnapTyped, MaskStepTyped, PrewarmTyped DEF CallStep
<1>3. CASE Control  BY <1>3, ControlTyped
<1>4. CASE \E ld \in loads, ok \in BOOLEAN : LoadEnds(ld, ok)
  <2>1. PICK ld \in loads, ok \in BOOLEAN : LoadEnds(ld, ok)  BY <1>4
  <2>2. ld.model \in Models  BY DEF Typed, MaskTypeOK
  <2>3. ml' \in [status : StatusType, model : Models \cup {NoModel},
                 desired : WantType, gen : Nat, note : Nat \cup {-1}]
    BY <2>1, <2>2 DEF LoadEnds, Typed, MaskTypeOK, StatusType
  <2>4. loads' \in SUBSET [gen : Nat, model : Models]
    BY <2>1 DEF LoadEnds, Typed, MaskTypeOK
  <2> QED  BY <2>1, <2>3, <2>4 DEF LoadEnds, Typed, MaskTypeOK, Shapes, engineVars
<1>5. CASE Midnight
  BY <1>5 DEF Midnight, Typed, MaskTypeOK, Shapes, engineVars, mlVars
<1>6. CASE UNCHANGED maskVars
  BY <1>6 DEF maskVars, Typed, MaskTypeOK, Shapes
<1> QED  BY <1>1, <1>2, <1>3, <1>4, <1>5, <1>6 DEF MaskNext

LEMMA TypedInit == MaskInit => Typed
<1> SUFFICES ASSUME MaskInit PROVE Typed  OBVIOUS
<1>1. NoPolicy \in PolicyType  BY DEF NoPolicy, PolicyType
<1>2. Idle \in CallType  BY <1>1 DEF Idle, CallType
<1>3. CallShape(Idle)  BY DEF Idle, CallShape
<1>4. call \in [Threads -> CallType] /\ Shapes
  BY <1>2, <1>3 DEF MaskInit, Shapes
<1>5. intent \in WantType  BY DEF MaskInit, WantType
<1>6. loads \in SUBSET [gen : Nat, model : Models]
  BY <1>5, OnIsWant DEF MaskInit
<1>7. ml \in [status : StatusType, model : Models \cup {NoModel},
              desired : WantType, gen : Nat, note : Nat \cup {-1}]
  BY <1>5 DEF MaskInit, StatusType
<1>8. adm \in [pc : {"idle", "cap", "read", "act"},
               how : {"put", "enable", "disable"},
               snap : [status : StatusType, desired : WantType]]
  BY WantsTyped DEF MaskInit, Settled, StatusType
<1> QED
  BY <1>4, <1>5, <1>6, <1>7, <1>8 DEF MaskInit, Typed, MaskTypeOK, PolicyType

(***************************************************************************)
(* Every value the engine, its cache, its ML slot and its calls hold has   *)
(* its type, under any interleaving of requests, control-plane writes,     *)
(* loads and midnights (lib.rs, cache.rs, ml.rs).                          *)
(***************************************************************************)
THEOREM MaskTypeCorrect == MaskSpec => []MaskTypeOK
<1>1. MaskInit => Typed  BY TypedInit
<1>2. Typed /\ [MaskNext]_maskVars => Typed'  BY TypedStep
<1>3. Typed => MaskTypeOK  BY DEF Typed
<1> QED  BY <1>1, <1>2, <1>3, PTL DEF MaskSpec

(***************************************************************************)
(* The ML slot and the config.  What makes SlotFollowsConfig inductive is  *)
(* that a load of the current generation is a load of the model wanted,    *)
(* and that nothing but the writer itself changes what the slot wants      *)
(* between the writer's snapshot and its decision.                         *)
(***************************************************************************)
SlotInv ==
  /\ SlotFollowsConfig
  /\ NoteIsCurrent
  /\ ml.desired.on <=> ml.status # "disabled"
  /\ \A ld \in loads :
       /\ ld.gen <= ml.gen
       /\ ld.gen = ml.gen => ml.desired.on /\ ld.model = ml.desired.model
  /\ adm.pc = "act" =>
       /\ adm.snap.desired = ml.desired
       /\ adm.snap.status = "disabled" <=> ml.status = "disabled"
  /\ adm.pc # "idle" /\ adm.how = "disable" => ~intent.on

MlType == [status : StatusType, model : Models \cup {NoModel},
           desired : WantType, gen : Nat, note : Nat \cup {-1}]

LEMMA SlotInvInit == MaskInit => SlotInv
<1> SUFFICES ASSUME MaskInit PROVE SlotInv  OBVIOUS
<1>1. adm.pc = "idle"  BY DEF MaskInit, Settled
<1>2. /\ ml.status = IF intent.on THEN "loading" ELSE "disabled"
      /\ ml.desired = intent /\ ml.note = -1
      /\ ml.gen = IF intent.on THEN 1 ELSE 0
  BY DEF MaskInit
<1>3. \A ld \in loads : intent.on /\ ld.gen = 1 /\ ld.model = intent.model
  BY DEF MaskInit
<1> QED  BY <1>1, <1>2, <1>3 DEF SlotInv, SlotFollowsConfig, NoteIsCurrent

LEMMA ReconcileActSlot ==
  ASSUME Typed, SlotInv, ReconcileAct
  PROVE  SlotInv'
<1>0. /\ ml \in MlType /\ ml.gen \in Nat
      /\ intent \in WantType /\ ml.desired \in WantType
      /\ loads \in SUBSET [gen : Nat, model : Models]
      /\ adm.pc = "act" /\ adm'.pc = "idle" /\ intent' = intent
  BY DEF Typed, MaskTypeOK, MlType, ReconcileAct, Settled
<1>1. CASE (adm.how = "disable" \/ ~intent.on) /\ MlDisable
  <2>1. ~intent.on  BY <1>0, <1>1 DEF SlotInv
  <2>2. ml'.status = "disabled" /\ ~ml'.desired.on /\ ml'.gen = ml.gen + 1
        /\ ml'.note = -1 /\ loads' = loads
    BY <1>1 DEF MlDisable, NoWant
  <2>3. \A ld \in loads : ld.gen <= ml.gen /\ ld.gen \in Nat
    BY <1>0 DEF SlotInv
  <2> QED
    BY <1>0, <2>1, <2>2, <2>3 DEF SlotInv, SlotFollowsConfig, NoteIsCurrent
<1>2. CASE ~intent.on /\ adm.snap.status = "disabled" /\ UNCHANGED <<ml, loads>>
  BY <1>0, <1>2 DEF SlotInv, SlotFollowsConfig, NoteIsCurrent
<1>3. CASE intent.on /\ MlBeginLoad(intent)
  <2>1. ml'.status = "loading" /\ ml'.desired = intent /\ ml'.gen = ml.gen + 1
        /\ ml'.note = -1
    BY <1>3 DEF MlBeginLoad
  <2>2. \A ld \in loads' :
          \/ ld \in loads /\ ld.gen <= ml.gen /\ ld.gen \in Nat
          \/ ld.gen = ml.gen + 1 /\ ld.model = intent.model
    BY <1>0, <1>3 DEF MlBeginLoad, SlotInv
  <2> QED
    BY <1>0, <1>3, <2>1, <2>2 DEF SlotInv, SlotFollowsConfig, NoteIsCurrent
<1>4. CASE intent.on /\ ~NeedsLoad(adm.how = "enable")
             /\ MlUpdateRequired(intent.req)
  <2>1. /\ adm.snap.status # "disabled"
        /\ adm.snap.desired.on /\ adm.snap.desired.model = intent.model
    BY <1>4 DEF NeedsLoad
  <2>2. ml.desired.on /\ ml.desired.model = intent.model
        /\ ml.status # "disabled"
    BY <1>0, <2>1 DEF SlotInv
  <2>3. intent \in Wants /\ ml.desired \in Wants /\ intent.req \in BOOLEAN
    BY <1>0, <1>4, <2>2, OnIsWant
  <2>4. [ml.desired EXCEPT !.req = intent.req] = intent
    BY <2>2, <2>3 DEF Wants
  <2>5. ml' = [ml EXCEPT !.desired = intent] /\ loads' = loads
    BY <1>0, <1>4, <2>2, <2>4 DEF MlUpdateRequired, MlType
  <2>6. /\ ml'.status = ml.status /\ ml'.desired = intent /\ ml'.gen = ml.gen
        /\ ml'.note = ml.note /\ ml'.model = ml.model
    BY <1>0, <2>5 DEF MlType
  <2> QED
    BY <1>0, <1>4, <2>2, <2>5, <2>6 DEF SlotInv, SlotFollowsConfig, NoteIsCurrent
<1> QED  BY <1>1, <1>2, <1>3, <1>4 DEF ReconcileAct

LEMMA SlotInvStep == Typed /\ SlotInv /\ [MaskNext]_maskVars => SlotInv'
<1> SUFFICES ASSUME Typed, SlotInv, [MaskNext]_maskVars PROVE SlotInv'
  OBVIOUS
<1>0. ml \in MlType /\ ml.gen \in Nat /\ loads \in SUBSET [gen : Nat, model : Models]
  BY DEF Typed, MaskTypeOK, MlType
<1>1. ASSUME UNCHANGED <<ml, intent, adm, loads>> PROVE SlotInv'
  BY <1>1 DEF SlotInv, SlotFollowsConfig, NoteIsCurrent
<1>2. ASSUME NEW g \in Nat \cup {-1}, g # -1 => g = ml.gen,
             ml' = [ml EXCEPT !.note = g],
             UNCHANGED <<intent, adm, loads>>
      PROVE  SlotInv'
  <2>1. /\ ml'.status = ml.status /\ ml'.desired = ml.desired
        /\ ml'.gen = ml.gen /\ ml'.note = g /\ ml'.model = ml.model
    BY <1>0, <1>2 DEF MlType
  <2> QED  BY <1>2, <2>1 DEF SlotInv, SlotFollowsConfig, NoteIsCurrent
<1>3. CASE \E t \in Threads, kind \in {"mask", "off", "prewarm"},
              ls \in SUBSET Leaves : Start(t, kind, ls)
  BY <1>1, <1>3 DEF Start, mlVars
<1>4. ASSUME NEW t \in Threads, CallStep(t) PROVE SlotInv'
  <2>0. call[t].gen \in Nat  BY DEF Typed, MaskTypeOK, CallType
  <2>1. CASE DetectFail(t)
    <3>1. \/ ml' = ml
          \/ ml.gen = call[t].gen /\ ml' = [ml EXCEPT !.note = call[t].gen]
      BY <2>1 DEF DetectFail
    <3> QED  BY <1>1, <1>2, <2>0, <2>1, <3>1 DEF DetectFail
  <2>2. CASE ClearNote(t)
    BY <1>1, <1>2, <2>2 DEF ClearNote
  <2>3. CASE ~DetectFail(t) /\ ~ClearNote(t)
    BY <1>1, <1>4, <2>3 DEF CallStep, mlVars, SnapBypass, SnapPolicy,
       SnapSecrets, SnapMl, CacheLookup, TakeGate, Recheck, DetectOk, Insert,
       PrewarmPlan, PrewarmDetect, PrewarmInsert
  <2> QED  BY <2>1, <2>2, <2>3
<1>5. CASE \E how \in {"put", "enable", "disable"},
              pol \in Configs \cup {policy}, w \in Wants : ConfigWrite(how, pol, w)
  <2>1. PICK how \in {"put", "enable", "disable"},
             pol \in Configs \cup {policy}, w \in Wants : ConfigWrite(how, pol, w)
    BY <1>5
  <2>2. adm'.pc = "cap" /\ adm'.how = how  BY <2>1 DEF ConfigWrite, Settled
  <2>3. how = "disable" => ~intent'.on  BY <2>1 DEF ConfigWrite, NoWant
  <2> QED
    BY <2>1, <2>2, <2>3 DEF ConfigWrite, SlotInv, SlotFollowsConfig, NoteIsCurrent
<1>6. CASE SetCap
  <2>1. adm.pc = "cap" /\ adm'.pc = "read" /\ adm'.how = adm.how
    BY <1>6 DEF SetCap, Typed, MaskTypeOK
  <2> QED  BY <1>6, <2>1 DEF SetCap, SlotInv, SlotFollowsConfig, NoteIsCurrent
<1>7. CASE ReconcileRead
  <2>1. /\ adm.pc = "read" /\ adm'.pc = "act" /\ adm'.how = adm.how
        /\ adm'.snap.status = ml.status /\ adm'.snap.desired = ml.desired
    BY <1>7 DEF ReconcileRead, Typed, MaskTypeOK
  <2> QED
    BY <1>7, <2>1 DEF ReconcileRead, SlotInv, SlotFollowsConfig, NoteIsCurrent
<1>8. CASE ReconcileAct  BY <1>8, ReconcileActSlot
<1>9. CASE \/ \E on \in BOOLEAN : SetEnabled(on)
           \/ \E set \in SUBSET Secrets : SetSecretRules(set)
           \/ Midnight \/ UNCHANGED maskVars
  BY <1>1, <1>9 DEF SetEnabled, SetSecretRules, Midnight, maskVars, mlVars
<1>10. CASE \E ld \in loads, ok \in BOOLEAN : LoadEnds(ld, ok)
  <2>1. PICK ld \in loads, ok \in BOOLEAN : LoadEnds(ld, ok)  BY <1>10
  <2>2. loads' \subseteq loads /\ UNCHANGED <<intent, adm>>
    BY <2>1 DEF LoadEnds
  <2>3. CASE ld.gen # ml.gen
    BY <2>1, <2>2, <2>3 DEF LoadEnds, SlotInv, SlotFollowsConfig, NoteIsCurrent
  <2>4. CASE ld.gen = ml.gen
    <3>1. ml.desired.on /\ ld.model = ml.desired.model /\ ml.status # "disabled"
      BY <2>4 DEF SlotInv
    <3>2. /\ ml'.desired = ml.desired /\ ml'.gen = ml.gen
          /\ ml'.note = -1 \/ ml'.note = ml.note
          /\ \/ ml'.status = "ready" /\ ml'.model = ld.model
             \/ ml'.status = "failed"
      BY <1>0, <2>1, <2>4 DEF LoadEnds, MlType
    <3> QED
      BY <2>2, <3>1, <3>2 DEF SlotInv, SlotFollowsConfig, NoteIsCurrent
  <2> QED  BY <2>3, <2>4
<1> QED
  BY <1>3, <1>4, <1>5, <1>6, <1>7, <1>8, <1>9, <1>10 DEF MaskNext, Control

(***************************************************************************)
(* However loads, control-plane writes and calls interleave, the ML slot   *)
(* follows the last config that was fully applied, a stale load never      *)
(* installs its model (ml_set_ready's generation check), and a runtime     *)
(* failure is only ever noted on the recognizer that failed.               *)
(***************************************************************************)
THEOREM MaskSlotFollows == MaskSpec => [](SlotFollowsConfig /\ NoteIsCurrent)
<1>1. MaskInit => Typed /\ SlotInv  BY TypedInit, SlotInvInit
<1>2. (Typed /\ SlotInv) /\ [MaskNext]_maskVars => (Typed /\ SlotInv)'
  BY TypedStep, SlotInvStep
<1>3. Typed /\ SlotInv => SlotFollowsConfig /\ NoteIsCurrent  BY DEF SlotInv
<1> QED  BY <1>1, <1>2, <1>3, PTL DEF MaskSpec

(***************************************************************************)
(* Required ML.  A strict call runs while its config is fully applied, so  *)
(* by SlotInv the slot wants what the config wants at the call's snapshot. *)
(***************************************************************************)
StrictCall(c) ==
  /\ c.strict /\ Running(c) => adm.pc = "idle" /\ intent.on /\ intent.req
  /\ c.strict /\ c.scanned => c.rec # NoModel

StrictCalls == \A t \in Threads : StrictCall(call[t])

\* What a returning call keeps.
LEMMA ReturnFields ==
  ASSUME NEW c \in CallType, NEW sent, NEW ok
  PROVE  /\ \A r \in {Return(c), [Return(c) EXCEPT !.out = sent],
                      [Return(c) EXCEPT !.ok = ok]} :
              /\ r.pc = "done" /\ r.kind = c.kind /\ r.leaves = c.leaves
              /\ r.bypass = c.bypass /\ r.pol = c.pol /\ r.sec = c.sec
              /\ r.rec = c.rec /\ r.day = c.day /\ r.scanned = c.scanned
              /\ r.strict = c.strict /\ r.start = c.start
         /\ Return(c).out = c.out /\ Return(c).ok = c.ok
         /\ [Return(c) EXCEPT !.out = sent].out = sent
         /\ [Return(c) EXCEPT !.out = sent].ok = c.ok
         /\ [Return(c) EXCEPT !.ok = ok].out = c.out
         /\ [Return(c) EXCEPT !.ok = ok].ok = ok
BY DEF Return, CallType

\* Only the ML snapshot sets rec and scanned, and only Start and ConfigWrite
\* set strict.
LEMMA CallStepFrame ==
  ASSUME Typed, NEW t \in Threads, CallStep(t)
  PROVE  /\ \A u \in Threads \ {t} : call'[u] = call[u]
         /\ call'[t].strict = call[t].strict
         /\ Running(call[t])
         /\ SnapMl(t) \/ (/\ call'[t].rec = call[t].rec
                          /\ call'[t].scanned = call[t].scanned)
         /\ UNCHANGED <<adm, intent>>
<1> DEFINE c == call[t]
           Same(x) == /\ x.strict = c.strict
                      /\ SnapMl(t) \/ (x.rec = c.rec /\ x.scanned = c.scanned)
<1>0. call \in [Threads -> CallType] /\ c \in CallType
  BY DEF Typed, MaskTypeOK
<1>1. ASSUME NEW x, call' = [call EXCEPT ![t] = x], Same(x), Running(c),
             UNCHANGED <<adm, intent>>
      PROVE  /\ \A u \in Threads \ {t} : call'[u] = call[u]
             /\ call'[t].strict = call[t].strict
             /\ Running(call[t])
             /\ SnapMl(t) \/ (/\ call'[t].rec = call[t].rec
                              /\ call'[t].scanned = call[t].scanned)
             /\ UNCHANGED <<adm, intent>>
  BY <1>0, <1>1
<1>2. CASE SnapBypass(t)
  BY <1>0, <1>1, <1>2 DEF SnapBypass, CallType, Running, mlVars
<1>3. CASE SnapPolicy(t)
  BY <1>0, <1>1, <1>3 DEF SnapPolicy, CallType, Running, mlVars
<1>4. CASE SnapSecrets(t)
  <2> DEFINE d == [c EXCEPT !.sec = secrets]
             x == IF Disabled(d) THEN [Return(d) EXCEPT !.out = DisabledPlain(d)]
                                 ELSE [d EXCEPT !.pc = "ml"]
  <2>1. d \in CallType /\ d.strict = c.strict /\ d.rec = c.rec
        /\ d.scanned = c.scanned
    BY <1>0 DEF CallType, Typed, MaskTypeOK
  <2>2. Same([d EXCEPT !.pc = "ml"])  BY <2>1 DEF CallType
  <2> HIDE DEF d
  <2>3. Same([Return(d) EXCEPT !.out = DisabledPlain(d)])
    BY <2>1, ReturnFields
  <2>4. call' = [call EXCEPT ![t] = x]  BY <1>4 DEF SnapSecrets, d
  <2> QED  BY <1>1, <1>4, <2>2, <2>3, <2>4 DEF SnapSecrets, Running, mlVars
<1>5. CASE SnapMl(t)
  <2> DEFINE w == [c EXCEPT !.rec = IF ml.status = "ready" THEN ml.model
                                                          ELSE NoModel,
                     !.gen = ml.gen, !.day = today, !.scanned = TRUE,
                     !.pc = "lookup"]
  <2>0. \A r, g, d, b : [c EXCEPT !.rec = r, !.gen = g, !.day = d, !.scanned = b,
                                  !.pc = "lookup"].strict = c.strict
    BY <1>0 DEF CallType
  <2>a. w.strict = c.strict  BY <2>0
  <2>b. [c EXCEPT !.pc = "done"].strict = c.strict  BY <1>0 DEF CallType
  <2> HIDE DEF w
  <2>1. Same([c EXCEPT !.pc = "done"]) /\ Same(w)  BY <1>5, <2>a, <2>b
  <2>2. Same([Return(c) EXCEPT !.ok = FALSE])  BY <1>0, <1>5, ReturnFields
  <2>3. \/ call' = [call EXCEPT ![t] = [Return(c) EXCEPT !.ok = FALSE]]
        \/ call' = [call EXCEPT ![t] = [c EXCEPT !.pc = "done"]]
        \/ call' = [call EXCEPT ![t] = w]
    BY <1>0, <1>5 DEF SnapMl, Refuse, w
  <2> QED  BY <1>1, <1>5, <2>1, <2>2, <2>3 DEF SnapMl, Running, mlVars
<1>6. \A dets : Same(Finished(c, dets))
  BY <1>0, ReturnFields DEF Finished
<1>7. \A p : Same([c EXCEPT !.pc = p])  BY <1>0 DEF CallType
<1>8. Same(Return(c)) /\ Same([Return(c) EXCEPT !.ok = FALSE])
  BY <1>0, ReturnFields
<1>9. CASE CacheLookup(t)
  <2>1. \/ \E dets : call' = [call EXCEPT ![t] = Finished(c, dets)]
        \/ \E p : call' = [call EXCEPT ![t] = [c EXCEPT !.pc = p]]
    BY <1>0, <1>9 DEF CacheLookup
  <2> QED  BY <1>1, <1>6, <1>7, <1>9, <2>1 DEF CacheLookup, Running, mlVars
<1>10. CASE TakeGate(t) \/ ClearNote(t)
  <2>1. \E p : call' = [call EXCEPT ![t] = [c EXCEPT !.pc = p]]
    BY <1>0, <1>10 DEF TakeGate, ClearNote
  <2> QED  BY <1>1, <1>7, <1>10, <2>1 DEF TakeGate, ClearNote, Running, mlVars
<1>11. CASE Recheck(t)
  <2>1. \/ \E dets : call' = [call EXCEPT ![t] = Finished(c, dets)]
        \/ \E p : call' = [call EXCEPT ![t] = [c EXCEPT !.pc = p]]
    BY <1>0, <1>11 DEF Recheck
  <2> QED  BY <1>1, <1>6, <1>7, <1>11, <2>1 DEF Recheck, Running, mlVars
<1>12. CASE DetectOk(t)
  BY <1>0, <1>1, <1>12 DEF DetectOk, CallType, Running, mlVars
<1>13. CASE DetectFail(t)
  BY <1>1, <1>8, <1>13 DEF DetectFail, Refuse, Running
<1>14. CASE Insert(t)
  BY <1>1, <1>6, <1>14 DEF Insert, Running, mlVars
<1>15. CASE PrewarmPlan(t)
  <2>1. Same([c EXCEPT !.leaves = Plannable(c), !.pc = "gate"])
    BY <1>0 DEF CallType
  <2> QED  BY <1>1, <1>8, <1>15, <2>1 DEF PrewarmPlan, Running, mlVars
<1>16. CASE \E ok \in BOOLEAN : PrewarmDetect(t, ok)
  <2> DEFINE x == [c EXCEPT !.leaves = Plannable(c), !.seen = today,
                            !.pc = "batch"]
  <2>1. Same(x)  BY <1>0 DEF CallType
  <2>2. \/ call' = [call EXCEPT ![t] = x]
        \/ call' = [call EXCEPT ![t] = Return(c)]
    BY <1>0, <1>16 DEF PrewarmDetect
  <2> QED  BY <1>1, <1>8, <1>16, <2>1, <2>2 DEF PrewarmDetect, Running, mlVars
<1>17. CASE \E l \in Leaves : PrewarmInsert(t, l)
  <2>1. PICK l \in Leaves : PrewarmInsert(t, l)  BY <1>17
  <2>2. Same([c EXCEPT !.leaves = c.leaves \ {l}])  BY <1>0 DEF CallType
  <2>3. \/ call' = [call EXCEPT ![t] = [c EXCEPT !.leaves = c.leaves \ {l}]]
        \/ call' = [call EXCEPT ![t] = Return(c)]
    BY <1>0, <2>1 DEF PrewarmInsert
  <2> QED  BY <1>1, <1>8, <2>1, <2>2, <2>3 DEF PrewarmInsert, Running, mlVars
<1> QED
  BY <1>2, <1>3, <1>4, <1>5, <1>9, <1>10, <1>11, <1>12, <1>13, <1>14, <1>15,
     <1>16, <1>17 DEF CallStep

LEMMA StrictStep ==
  Typed /\ SlotInv /\ StrictCalls /\ [MaskNext]_maskVars => StrictCalls'
<1> SUFFICES ASSUME Typed, SlotInv, StrictCalls, [MaskNext]_maskVars
             PROVE  StrictCalls'
  OBVIOUS
<1>0. call \in [Threads -> CallType]  BY DEF Typed, MaskTypeOK
<1>1. ASSUME NEW t \in Threads, CallStep(t) PROVE StrictCalls'
  <2>1. \A u \in Threads \ {t} : StrictCall(call[u])'
    BY <1>1, CallStepFrame DEF StrictCalls, StrictCall, Running
  <2>2. CASE ~SnapMl(t)
    BY <1>1, <2>1, <2>2, CallStepFrame DEF StrictCalls, StrictCall, Running
  <2>3. CASE SnapMl(t)
    <3>1. SUFFICES ASSUME call[t].strict PROVE StrictCall(call[t])'
      BY <1>1, <2>1, CallStepFrame DEF StrictCalls, StrictCall
    <3>2. adm.pc = "idle" /\ intent.on /\ intent.req
      BY <1>1, <3>1, CallStepFrame DEF StrictCalls, StrictCall
    <3>3. ml.desired.on /\ ml.desired.req
      BY <3>2 DEF SlotInv, SlotFollowsConfig
    <3>4. CASE ml.status = "ready"
      <4>1. ml.model = ml.desired.model /\ ml.desired \in WantType
        BY <3>4 DEF SlotInv, SlotFollowsConfig, Typed, MaskTypeOK
      <4>2. ml.model # NoModel  BY <4>1, <3>3, OnIsWant
      <4>3. call'[t].rec = ml.model
        BY <1>0, <2>3, <3>4 DEF SnapMl, MlRefuses, CallType
      <4> QED  BY <1>1, <3>2, <4>2, <4>3, CallStepFrame DEF StrictCall
    <3>5. CASE ml.status # "ready"
      <4>1. call'[t].pc = "done" /\ call'[t].scanned = call[t].scanned
            /\ call'[t].rec = call[t].rec
        <5>1. \/ call' = [call EXCEPT ![t] = [Return(call[t]) EXCEPT !.ok = FALSE]]
              \/ call' = [call EXCEPT ![t] = [call[t] EXCEPT !.pc = "done"]]
          BY <1>0, <2>3, <3>3, <3>5 DEF SnapMl, MlRefuses, Refuse
        <5>2. ASSUME NEW x, call' = [call EXCEPT ![t] = x], x.pc = "done",
                     x.scanned = call[t].scanned, x.rec = call[t].rec
              PROVE  call'[t].pc = "done" /\ call'[t].scanned = call[t].scanned
                     /\ call'[t].rec = call[t].rec
          BY <1>0, <5>2
        <5>3. LET x == [call[t] EXCEPT !.pc = "done"] IN
              x.pc = "done" /\ x.scanned = call[t].scanned /\ x.rec = call[t].rec
          BY <1>0 DEF CallType
        <5>4. LET x == [Return(call[t]) EXCEPT !.ok = FALSE] IN
              x.pc = "done" /\ x.scanned = call[t].scanned /\ x.rec = call[t].rec
          BY <1>0, ReturnFields
        <5> QED  BY <5>1, <5>2, <5>3, <5>4
      <4> QED  BY <1>1, <4>1, CallStepFrame DEF StrictCalls, StrictCall, Running
    <3> QED  BY <3>4, <3>5
  <2> QED  BY <2>2, <2>3
<1>2. ASSUME NEW t \in Threads, NEW kind \in {"mask", "off", "prewarm"},
             NEW ls \in SUBSET Leaves, Start(t, kind, ls)
      PROVE  StrictCalls'
  <2>1. \A u \in Threads \ {t} : call'[u] = call[u]  BY <1>0, <1>2 DEF Start
  <2>2. /\ ~call'[t].scanned
        /\ call'[t].strict => adm.pc = "idle" /\ intent.on /\ intent.req
    BY <1>0, <1>2 DEF Start, Idle
  <2> QED  BY <1>2, <2>1, <2>2 DEF Start, mlVars, StrictCalls, StrictCall, Running
<1>3. ASSUME NEW how \in {"put", "enable", "disable"},
             NEW pol \in Configs \cup {policy}, NEW w \in Wants,
             ConfigWrite(how, pol, w)
      PROVE  StrictCalls'
  <2>1. \A u \in Threads : ~call'[u].strict
    BY <1>0, <1>3 DEF ConfigWrite, CallType
  <2> QED  BY <2>1 DEF StrictCalls, StrictCall
<1>4. CASE SetCap \/ ReconcileRead \/ ReconcileAct
  BY <1>4 DEF SetCap, ReconcileRead, ReconcileAct, StrictCalls, StrictCall
<1>5. CASE \/ \E on \in BOOLEAN : SetEnabled(on)
           \/ \E set \in SUBSET Secrets : SetSecretRules(set)
           \/ \E ld \in loads, ok \in BOOLEAN : LoadEnds(ld, ok)
           \/ Midnight \/ UNCHANGED maskVars
  BY <1>5 DEF SetEnabled, SetSecretRules, LoadEnds, Midnight, maskVars, mlVars,
     StrictCalls, StrictCall, Running
<1> QED  BY <1>1, <1>2, <1>3, <1>4, <1>5 DEF MaskNext, Control

(***************************************************************************)
(* While a config with `required` is in force, no call that began under it *)
(* is answered without ML coverage: neither a load in flight, a failed     *)
(* load, nor a regex-only cache entry lets it through (ml_for_mask).       *)
(***************************************************************************)
THEOREM MaskRequired == MaskSpec => []RequiredMeansMl
<1>1. MaskInit => Typed /\ SlotInv /\ StrictCalls
  BY TypedInit, SlotInvInit DEF MaskInit, StrictCalls, StrictCall, Idle
<1>2. (Typed /\ SlotInv /\ StrictCalls) /\ [MaskNext]_maskVars
        => (Typed /\ SlotInv /\ StrictCalls)'
  BY TypedStep, SlotInvStep, StrictStep
<1>3. StrictCalls => RequiredMeansMl
  BY DEF StrictCalls, StrictCall, RequiredMeansMl
<1> QED  BY <1>1, <1>2, <1>3, PTL DEF MaskSpec

(***************************************************************************)
(* Registered secrets.  A call's snapshots contain every secret installed  *)
(* when it began, because the set only grows, and both a fresh detection   *)
(* and a cached one cover the secrets of their own snapshot.               *)
(***************************************************************************)
Scanning == {"ml", "lookup", "gate", "recheck", "detect", "clear", "insert",
             "batch"}

CacheCovers == \A e \in cache : e.key.text \cap e.key.secrets \subseteq e.dets

SafeCall(c) ==
  /\ c.start \subseteq secrets
  /\ c.pc \in Scanning => c.start \subseteq c.sec
  /\ /\ Running(c) /\ c.pc # "bypass" /\ c.kind = "mask"
     /\ TheLeaf(c) \in Marked
     => c.start \subseteq c.bypass
  /\ Running(c) => c.out = {}
  /\ c.pc \in {"clear", "insert"} => Outer[TheLeaf(c)] \cap c.sec \subseteq c.dets
  /\ c.pc = "done" => c.out \cap c.start = {}

SafeCalls == CacheCovers /\ \A t \in Threads : SafeCall(call[t])

LEMMA SameLeaf ==
  ASSUME NEW c, NEW d, c.leaves = d.leaves
  PROVE  TheLeaf(c) = TheLeaf(d)
BY DEF TheLeaf

\* Any step of a call to a pc at which no new clause applies.
LEMMA MoveSafe ==
  ASSUME NEW c \in CallType, SafeCall(c), c.pc \in Scanning,
         NEW p \in {"lookup", "gate", "recheck", "detect"}, NEW x \in CallType,
         x.pc = p, x.kind = c.kind, x.out = c.out, x.start = c.start,
         x.sec = c.sec, x.bypass = c.bypass,
         c.kind = "mask" => x.leaves = c.leaves
  PROVE  SafeCall(x)
BY SameLeaf DEF SafeCall, Scanning, Running

\* A call that returns without text, or is refused.
LEMMA ReturnSafe ==
  ASSUME NEW c \in CallType, SafeCall(c), Running(c), NEW x, x.pc = "done",
         x.out = c.out, x.start = c.start
  PROVE  SafeCall(x)
BY DEF SafeCall, Running, Scanning

\* The end of mask, over detections that cover the call's secrets.
LEMMA FinishedSafe ==
  ASSUME NEW c \in CallType, SafeCall(c), c.pc \in Scanning, c.kind = "mask",
         NEW dets, Outer[TheLeaf(c)] \cap c.sec \subseteq dets
  PROVE  SafeCall(Finished(c, dets))
<1> DEFINE sent == LeftPlain(Outer[TheLeaf(c)], dets, c.pol.keep, c.sec)
                    \cup BypassPlain(c)
<1>1. c.start \subseteq c.sec /\ c.start \subseteq secrets
      /\ (TheLeaf(c) \in Marked => c.start \subseteq c.bypass)
  BY DEF SafeCall, Scanning, Running
<1>2. LeftPlain(Outer[TheLeaf(c)], dets, c.pol.keep, c.sec) \cap c.start = {}
  BY <1>1 DEF LeftPlain
<1>3. BypassPlain(c) \cap c.start = {}  BY <1>1 DEF BypassPlain
<1>4. /\ Finished(c, dets).pc = "done" /\ Finished(c, dets).out = sent
      /\ Finished(c, dets).start = c.start
  BY ReturnFields DEF Finished
<1> HIDE DEF sent
<1>5. sent \cap c.start = {}  BY <1>2, <1>3 DEF sent
<1> QED  BY <1>1, <1>4, <1>5 DEF SafeCall, Running, Scanning

LEMMA InsertCovers ==
  ASSUME CacheCovers, NEW k, NEW dets, k.text \cap k.secrets \subseteq dets,
         CacheInsert(k, dets)
  PROVE  CacheCovers'
<1>1. \/ cache' = cache
      \/ \E keep \in SUBSET cache : cache' = keep \cup {[key |-> k, dets |-> dets]}
  BY DEF CacheInsert, Cached
<1> QED  BY <1>1 DEF CacheCovers

LEMMA HitCovers ==
  ASSUME CacheCovers, NEW c, NEW l, NEW e \in Hits(Key(c, l))
  PROVE  Outer[l] \cap c.sec \subseteq e.dets
<1>1. e \in cache /\ e.key = Key(c, l)  BY DEF Hits, Cached
<1>2. Key(c, l).text = Outer[l] /\ Key(c, l).secrets = c.sec  BY DEF Key
<1> QED  BY <1>1, <1>2 DEF CacheCovers

LEMMA SafeCallStep ==
  ASSUME Typed, SafeCalls, NEW t \in Threads, CallStep(t)
  PROVE  SafeCalls'
<1> DEFINE c == call[t]
<1>0. /\ call \in [Threads -> CallType] /\ c \in CallType /\ CallShape(c)
      /\ SafeCall(c) /\ CacheCovers
      /\ secrets \in SUBSET Secrets /\ policy \in PolicyType /\ today \in Nat
      /\ ml.model \in Models \cup {NoModel} /\ ml.gen \in Nat
  BY DEF Typed, MaskTypeOK, SafeCalls, Shapes
<1>1. ASSUME NEW x, call' = [call EXCEPT ![t] = x], SafeCall(x),
             CacheCovers', secrets' = secrets
      PROVE  SafeCalls'
  <2>1. \A u \in Threads : SafeCall(call'[u])
    BY <1>0, <1>1 DEF SafeCalls
  <2> QED  BY <1>1, <2>1 DEF SafeCalls, SafeCall
<1>2. cache' = cache => CacheCovers'  BY <1>0 DEF CacheCovers
<1>3. CASE SnapBypass(t)
  <2> DEFINE x == [c EXCEPT !.bypass = secrets, !.pc = "policy"]
  <2>1. x.pc = "policy" /\ x.bypass = secrets /\ x.start = c.start /\ x.out = c.out
    BY <1>0 DEF CallType
  <2>2. call' = [call EXCEPT ![t] = x]  BY <1>0, <1>3 DEF SnapBypass
  <2> HIDE DEF x
  <2>3. SafeCall(x)
    BY <1>0, <1>3, <2>1 DEF SafeCall, SnapBypass, Running, Scanning
  <2> QED  BY <1>1, <1>2, <1>3, <2>2, <2>3 DEF SnapBypass, engineVars
<1>4. CASE SnapPolicy(t)
  <2> DEFINE p == IF c.kind = "prewarm" /\ ~policy.enabled
                    THEN "done" ELSE "secrets"
             x == [c EXCEPT !.pol = policy, !.pc = p]
  <2>0. p \in {"done", "secrets"}  OBVIOUS
  <2>1. call' = [call EXCEPT ![t] = x]  BY <1>0, <1>4 DEF SnapPolicy
  <2> HIDE DEF p
  <2>2. /\ x.pc = p /\ x.bypass = c.bypass /\ x.start = c.start
        /\ x.out = c.out /\ x.kind = c.kind /\ x.leaves = c.leaves
    BY <1>0 DEF CallType
  <2> HIDE DEF x
  <2>3. TheLeaf(x) = TheLeaf(c)  BY <2>2, SameLeaf
  <2>4. SafeCall(x)
    BY <1>0, <1>4, <2>0, <2>2, <2>3 DEF SafeCall, SnapPolicy, Running, Scanning
  <2> QED  BY <1>1, <1>2, <1>4, <2>1, <2>4 DEF SnapPolicy, engineVars
<1>5. CASE SnapSecrets(t)
  <2> DEFINE d == [c EXCEPT !.sec = secrets]
             y == [Return(d) EXCEPT !.out = DisabledPlain(d)]
             z == [d EXCEPT !.pc = "ml"]
  <2>1. /\ d \in CallType /\ d.sec = secrets /\ d.kind = c.kind
        /\ d.leaves = c.leaves /\ d.start = c.start /\ d.out = c.out
        /\ d.bypass = c.bypass /\ d.pc = "secrets"
    BY <1>0, <1>5 DEF CallType, SnapSecrets
  <2>2. /\ z.sec = secrets /\ z.kind = c.kind /\ z.leaves = c.leaves
        /\ z.start = c.start /\ z.out = c.out /\ z.bypass = c.bypass
        /\ z.pc = "ml"
    BY <1>0 DEF CallType
  <2>3. \/ Disabled(d) /\ call' = [call EXCEPT ![t] = y]
        \/ call' = [call EXCEPT ![t] = z]
    BY <1>5 DEF SnapSecrets
  <2> HIDE DEF d, z
  <2>4. TheLeaf(d) = TheLeaf(c) /\ TheLeaf(z) = TheLeaf(c)
    BY <2>1, <2>2, SameLeaf
  <2>5. SafeCall(z)
    BY <1>0, <1>5, <2>2, <2>4 DEF SafeCall, SnapSecrets, Running, Scanning
  <2>6. ASSUME Disabled(d) PROVE SafeCall(y)
    <3>1. y.pc = "done" /\ y.out = DisabledPlain(d) /\ y.start = c.start
      BY <2>1, ReturnFields
    <3>2. c.start \subseteq secrets  BY <1>0 DEF SafeCall
    <3>3. c.kind = "mask" /\ TheLeaf(c) \in Marked => c.start \subseteq c.bypass
      BY <1>0, <1>5 DEF SafeCall, SnapSecrets, Running
    <3>4. d.kind = "mask" \/ d.kind = "off"  BY <2>6 DEF Disabled
    <3>5. DisabledPlain(d) \cap c.start = {}
      BY <2>1, <2>4, <3>2, <3>3, <3>4 DEF DisabledPlain, BypassPlain
    <3> HIDE DEF y
    <3> QED  BY <3>1, <3>2, <3>5 DEF SafeCall, Running, Scanning
  <2> QED  BY <1>1, <1>2, <1>5, <2>3, <2>5, <2>6 DEF SnapSecrets, engineVars
<1>6. CASE SnapMl(t)
  <2> DEFINE r == IF ml.status = "ready" THEN ml.model ELSE NoModel
             y == [Return(c) EXCEPT !.ok = FALSE]
             z == [c EXCEPT !.pc = "done"]
             w == [c EXCEPT !.rec = r, !.gen = ml.gen, !.day = today,
                            !.scanned = TRUE, !.pc = "lookup"]
  <2>1. \/ call' = [call EXCEPT ![t] = y]
        \/ call' = [call EXCEPT ![t] = z]
        \/ call' = [call EXCEPT ![t] = w]
    BY <1>0, <1>6 DEF SnapMl, Refuse
  <2>2. r \in Models \cup {NoModel}  BY <1>0
  <2> HIDE DEF r
  <2>3. /\ w \in CallType /\ w.pc = "lookup" /\ w.kind = c.kind
        /\ w.out = c.out /\ w.start = c.start /\ w.sec = c.sec
        /\ w.bypass = c.bypass /\ w.leaves = c.leaves
    BY <1>0, <2>2 DEF CallType
  <2>4. z.pc = "done" /\ z.out = c.out /\ z.start = c.start
    BY <1>0 DEF CallType
  <2>5. y.pc = "done" /\ y.out = c.out /\ y.start = c.start
    BY <1>0, ReturnFields
  <2>6. c.pc \in Scanning /\ Running(c)
    BY <1>6 DEF SnapMl, Scanning, Running
  <2> HIDE DEF y, z, w
  <2>7. SafeCall(y) /\ SafeCall(z)  BY <1>0, <2>4, <2>5, <2>6, ReturnSafe
  <2>8. SafeCall(w)  BY <1>0, <2>3, <2>6, MoveSafe
  <2> QED  BY <1>1, <1>2, <1>6, <2>1, <2>7, <2>8 DEF SnapMl, engineVars
<1>7. ASSUME c.pc \in Scanning, NEW p \in {"gate", "recheck", "detect"},
             call' = [call EXCEPT ![t] = [c EXCEPT !.pc = p]],
             cache' = cache, secrets' = secrets
      PROVE  SafeCalls'
  <2> DEFINE x == [c EXCEPT !.pc = p]
  <2>1. /\ x \in CallType /\ x.pc = p /\ x.kind = c.kind /\ x.out = c.out
        /\ x.start = c.start /\ x.sec = c.sec /\ x.bypass = c.bypass
        /\ x.leaves = c.leaves
    BY <1>0 DEF CallType
  <2> HIDE DEF x
  <2>2. SafeCall(x)  BY <1>0, <1>7, <2>1, MoveSafe
  <2> QED  BY <1>1, <1>2, <1>7, <2>2 DEF x
<1>8. ASSUME c.pc \in Scanning, c.kind = "mask",
             NEW e \in Hits(Key(c, TheLeaf(c))),
             call' = [call EXCEPT ![t] = Finished(c, e.dets)],
             cache' = cache, secrets' = secrets
      PROVE  SafeCalls'
  <2>1. Outer[TheLeaf(c)] \cap c.sec \subseteq e.dets
    BY <1>0, <1>8, HitCovers
  <2>2. SafeCall(Finished(c, e.dets))  BY <1>0, <1>8, <2>1, FinishedSafe
  <2> QED  BY <1>1, <1>2, <1>8, <2>2
<1>9. CASE CacheLookup(t)
  <2> DEFINE hits == Hits(Key(c, TheLeaf(c)))
  <2>1. c.pc \in Scanning /\ c.kind = "mask" /\ cache' = cache
        /\ secrets' = secrets
    BY <1>9 DEF CacheLookup, Scanning, engineVars
  <2>2. \/ \E e \in hits : call' = [call EXCEPT ![t] = Finished(c, e.dets)]
        \/ \E p \in {"gate", "detect"} :
             call' = [call EXCEPT ![t] = [c EXCEPT !.pc = p]]
    BY <1>0, <1>9 DEF CacheLookup
  <2> QED  BY <1>7, <1>8, <2>1, <2>2
<1>10. CASE TakeGate(t)
  <2>1. c.pc \in Scanning /\ cache' = cache /\ secrets' = secrets
        /\ call' = [call EXCEPT ![t] = [c EXCEPT !.pc = "recheck"]]
    BY <1>0, <1>10 DEF TakeGate, Scanning
  <2> QED  BY <1>7, <2>1
<1>11. CASE Recheck(t)
  <2> DEFINE hits == Hits(Key(c, TheLeaf(c)))
  <2>1. c.pc \in Scanning /\ c.kind = "mask" /\ cache' = cache
        /\ secrets' = secrets
    BY <1>11 DEF Recheck, Scanning
  <2>2. \/ \E e \in hits : call' = [call EXCEPT ![t] = Finished(c, e.dets)]
        \/ call' = [call EXCEPT ![t] = [c EXCEPT !.pc = "detect"]]
    BY <1>0, <1>11 DEF Recheck
  <2> QED  BY <1>7, <1>8, <2>1, <2>2
<1>12. CASE DetectOk(t) \/ ClearNote(t)
  <2>1. PICK p \in {"clear", "insert"}, dets \in SUBSET Atoms :
          /\ call' = [call EXCEPT ![t] = [c EXCEPT !.dets = dets, !.pc = p]]
          /\ Outer[TheLeaf(c)] \cap c.sec \subseteq dets
    <3>1. CASE DetectOk(t)
      <4>1. PICK l \in Leaves : c.leaves = {l}
        BY <1>0, <3>1 DEF CallShape, DetectOk
      <4>2. TheLeaf(c) = l  BY <4>1, TheLeafIs
      <4>3. /\ Outer[TheLeaf(c)] \cap c.sec \subseteq DetectLeaf(c, TheLeaf(c))
            /\ DetectLeaf(c, TheLeaf(c)) \in SUBSET Atoms
        BY <4>2, DetectFacts DEF DetectLeaf
      <4> DEFINE q == IF c.rec = NoModel THEN "insert" ELSE "clear"
                 ds == DetectLeaf(c, TheLeaf(c))
      <4>4. call' = [call EXCEPT ![t] = [c EXCEPT !.dets = ds, !.pc = q]]
        BY <1>0, <3>1 DEF DetectOk
      <4>5. q \in {"clear", "insert"}  OBVIOUS
      <4> HIDE DEF q, ds
      <4> QED  BY <4>3, <4>4, <4>5, Zenon DEF ds
    <3>2. CASE ClearNote(t)
      <4>1. call' = [call EXCEPT ![t] = [c EXCEPT !.pc = "insert"]]
        BY <1>0, <3>2 DEF ClearNote
      <4>2. [c EXCEPT !.pc = "insert"] = [c EXCEPT !.dets = c.dets, !.pc = "insert"]
        BY <1>0 DEF CallType
      <4>3. Outer[TheLeaf(c)] \cap c.sec \subseteq c.dets /\ c.dets \in SUBSET Atoms
        BY <1>0, <3>2 DEF SafeCall, ClearNote, CallType
      <4> QED  BY <4>1, <4>2, <4>3
    <3> QED  BY <1>12, <3>1, <3>2
  <2> DEFINE x == [c EXCEPT !.dets = dets, !.pc = p]
  <2>2. /\ x.pc = p /\ x.kind = c.kind /\ x.out = c.out /\ x.start = c.start
        /\ x.sec = c.sec /\ x.bypass = c.bypass /\ x.leaves = c.leaves
        /\ x.dets = dets
    BY <1>0 DEF CallType
  <2>3. c.pc \in {"detect", "clear"} /\ cache' = cache /\ secrets' = secrets
    BY <1>12 DEF DetectOk, ClearNote, engineVars
  <2> HIDE DEF x
  <2>4. TheLeaf(x) = TheLeaf(c)  BY <2>2, SameLeaf
  <2>5. SafeCall(x)
    BY <1>0, <2>1, <2>2, <2>3, <2>4 DEF SafeCall, Running, Scanning
  <2> QED  BY <1>1, <1>2, <2>1, <2>3, <2>5 DEF x
<1>13. CASE DetectFail(t)
  <2> DEFINE x == [Return(c) EXCEPT !.ok = FALSE]
  <2>1. x.pc = "done" /\ x.out = c.out /\ x.start = c.start
    BY <1>0, ReturnFields
  <2>2. /\ Running(c) /\ cache' = cache /\ secrets' = secrets
        /\ call' = [call EXCEPT ![t] = x]
    BY <1>13 DEF DetectFail, Refuse, Running
  <2> HIDE DEF x
  <2>3. SafeCall(x)  BY <1>0, <2>1, <2>2, ReturnSafe
  <2> QED  BY <1>1, <1>2, <2>2, <2>3
<1>14. CASE Insert(t)
  <2>1. c.pc = "insert" /\ c.kind = "mask"  BY <1>0, <1>14 DEF Insert, CallShape
  <2>2. Outer[TheLeaf(c)] \cap c.sec \subseteq c.dets  BY <1>0, <2>1 DEF SafeCall
  <2>3. SafeCall(Finished(c, c.dets))
    BY <1>0, <2>1, <2>2, FinishedSafe DEF Scanning
  <2>4. Key(c, TheLeaf(c)).text = Outer[TheLeaf(c)]
        /\ Key(c, TheLeaf(c)).secrets = c.sec
    BY DEF Key
  <2>5. CacheCovers'  BY <1>0, <1>14, <2>2, <2>4, InsertCovers DEF Insert
  <2> QED  BY <1>1, <1>14, <2>3, <2>5 DEF Insert
<1>15. Running(c) => SafeCall(Return(c))
  BY <1>0, ReturnFields, ReturnSafe
<1>16. CASE PrewarmPlan(t)
  <2> DEFINE x == [c EXCEPT !.leaves = Plannable(c), !.pc = "gate"]
  <2>1. /\ x.pc = "gate" /\ x.kind = c.kind /\ x.out = c.out
        /\ x.start = c.start /\ x.sec = c.sec
    BY <1>0 DEF CallType
  <2>2. \/ call' = [call EXCEPT ![t] = x]
        \/ call' = [call EXCEPT ![t] = Return(c)]
    BY <1>16 DEF PrewarmPlan
  <2>3. c.pc = "lookup" /\ c.kind = "prewarm" /\ cache' = cache
        /\ secrets' = secrets
    BY <1>16 DEF PrewarmPlan, engineVars
  <2> HIDE DEF x
  <2>4. SafeCall(x)  BY <1>0, <2>1, <2>3 DEF SafeCall, Running, Scanning
  <2> QED  BY <1>1, <1>2, <1>15, <2>2, <2>3, <2>4 DEF Running
<1>17. CASE \E ok \in BOOLEAN : PrewarmDetect(t, ok)
  <2> DEFINE x == [c EXCEPT !.leaves = Plannable(c), !.seen = today,
                            !.pc = "batch"]
  <2>1. /\ x.pc = "batch" /\ x.kind = c.kind /\ x.out = c.out
        /\ x.start = c.start /\ x.sec = c.sec
    BY <1>0 DEF CallType
  <2>2. \/ call' = [call EXCEPT ![t] = x]
        \/ call' = [call EXCEPT ![t] = Return(c)]
    BY <1>0, <1>17 DEF PrewarmDetect
  <2>3. c.pc = "recheck" /\ c.kind = "prewarm" /\ cache' = cache
        /\ secrets' = secrets
    BY <1>17 DEF PrewarmDetect
  <2> HIDE DEF x
  <2>4. SafeCall(x)  BY <1>0, <2>1, <2>3 DEF SafeCall, Running, Scanning
  <2> QED  BY <1>1, <1>2, <1>15, <2>2, <2>3, <2>4 DEF Running
<1>18. CASE \E l \in Leaves : PrewarmInsert(t, l)
  <2>1. PICK l \in Leaves : PrewarmInsert(t, l)  BY <1>18
  <2> DEFINE x == [c EXCEPT !.leaves = c.leaves \ {l}]
  <2>2. /\ x.pc = c.pc /\ x.kind = c.kind /\ x.out = c.out
        /\ x.start = c.start /\ x.sec = c.sec
    BY <1>0 DEF CallType
  <2>3. \/ call' = [call EXCEPT ![t] = x]
        \/ call' = [call EXCEPT ![t] = Return(c)]
    BY <1>0, <2>1 DEF PrewarmInsert
  <2>4. c.pc = "batch" /\ c.kind = "prewarm" /\ secrets' = secrets
    BY <1>0, <2>1 DEF PrewarmInsert, CallShape
  <2> HIDE DEF x
  <2>5. SafeCall(x)  BY <1>0, <2>2, <2>4 DEF SafeCall, Running, Scanning
  <2>6. Key(c, l).text = Outer[l] /\ Key(c, l).secrets = c.sec  BY DEF Key
  <2>7. Outer[l] \cap c.sec \subseteq BatchDets(c, l)
    BY DetectFacts DEF BatchDets
  <2>8. CacheCovers'
    BY <1>0, <2>1, <2>6, <2>7, InsertCovers DEF PrewarmInsert
  <2> QED  BY <1>1, <1>15, <2>3, <2>4, <2>5, <2>8 DEF Running
<1> QED
  BY <1>3, <1>4, <1>5, <1>6, <1>9, <1>10, <1>11, <1>12, <1>13, <1>14, <1>16,
     <1>17, <1>18 DEF CallStep

LEMMA SafeStep ==
  Typed /\ SafeCalls /\ [MaskNext]_maskVars => SafeCalls'
<1> SUFFICES ASSUME Typed, SafeCalls, [MaskNext]_maskVars PROVE SafeCalls'
  OBVIOUS
<1>0. call \in [Threads -> CallType]  BY DEF Typed, MaskTypeOK
<1>1. CASE \E t \in Threads : CallStep(t)  BY <1>1, SafeCallStep
<1>2. ASSUME NEW t \in Threads, NEW kind \in {"mask", "off", "prewarm"},
             NEW ls \in SUBSET Leaves, Start(t, kind, ls)
      PROVE  SafeCalls'
  <2>1. \A u \in Threads \ {t} : call'[u] = call[u]  BY <1>0, <1>2 DEF Start
  <2>2. /\ call'[t].pc \in {"bypass", "policy"} /\ call'[t].out = {}
        /\ call'[t].start = secrets /\ call'[t].kind = kind
        /\ call'[t].leaves = ls
        /\ call'[t].pc = "policy" => kind # "mask" \/ ~(ls \subseteq Marked)
    BY <1>0, <1>2 DEF Start, Idle
  <2>3. call'[t].pc = "policy" /\ kind = "mask" => TheLeaf(call'[t]) \notin Marked
    <3>1. kind = "mask" => \E l \in Leaves : ls = {l}  BY <1>2 DEF Start
    <3> QED  BY <2>2, <3>1, TheLeafIs
  <2>4. secrets' = secrets /\ cache' = cache  BY <1>2 DEF Start, engineVars
  <2>5. SafeCall(call[t])'
    BY <2>2, <2>3, <2>4 DEF SafeCall, Running, Scanning
  <2>6. \A u \in Threads \ {t} : SafeCall(call[u])'
    BY <2>1, <2>4 DEF SafeCalls, SafeCall
  <2> QED  BY <2>4, <2>5, <2>6 DEF SafeCalls, CacheCovers
<1>3. ASSUME NEW how \in {"put", "enable", "disable"},
             NEW pol \in Configs \cup {policy}, NEW w \in Wants,
             ConfigWrite(how, pol, w)
      PROVE  SafeCalls'
  <2>1. \A u \in Threads : LET c == call[u]  d == call'[u] IN
          /\ d.pc = c.pc /\ d.start = c.start /\ d.sec = c.sec
          /\ d.bypass = c.bypass /\ d.kind = c.kind /\ d.leaves = c.leaves
          /\ d.out = c.out /\ d.dets = c.dets
    BY <1>0, <1>3 DEF ConfigWrite, CallType
  <2>2. secrets' = secrets /\ cache' = cache  BY <1>3 DEF ConfigWrite
  <2>3. \A u \in Threads : TheLeaf(call'[u]) = TheLeaf(call[u])
    BY <2>1, SameLeaf
  <2>4. \A u \in Threads : SafeCall(call[u])'
    BY <2>1, <2>2, <2>3 DEF SafeCalls, SafeCall, Running, Scanning
  <2> QED  BY <2>2, <2>4 DEF SafeCalls, CacheCovers
<1>4. CASE SetCap
  <2>1. cache' \subseteq cache /\ call' = call /\ secrets' = secrets
    BY <1>4 DEF SetCap, Evict
  <2> QED  BY <2>1 DEF SafeCalls, SafeCall, CacheCovers
<1>5. CASE \E set \in SUBSET Secrets : SetSecretRules(set)
  <2>1. cache' = cache /\ call' = call /\ secrets \subseteq secrets'
    BY <1>5 DEF SetSecretRules
  <2> QED  BY <2>1 DEF SafeCalls, SafeCall, CacheCovers
<1>6. CASE \/ ReconcileRead \/ ReconcileAct
           \/ \E on \in BOOLEAN : SetEnabled(on)
           \/ \E ld \in loads, ok \in BOOLEAN : LoadEnds(ld, ok)
           \/ Midnight \/ UNCHANGED maskVars
  <2>1. cache' = cache /\ call' = call /\ secrets' = secrets
    BY <1>6 DEF ReconcileRead, ReconcileAct, SetEnabled, LoadEnds, Midnight,
       maskVars, engineVars
  <2> QED  BY <2>1 DEF SafeCalls, SafeCall, CacheCovers
<1> QED  BY <1>1, <1>2, <1>3, <1>4, <1>5, <1>6 DEF MaskNext, Control

(***************************************************************************)
(* No secret that was registered when a call began is in what the call     *)
(* lets out, whatever the policy, the surface, the bypass span, the cache  *)
(* and the control plane do (mask, mask_when_disabled, mask_user_bypass,   *)
(* mask_disabled_path, apply).                                             *)
(***************************************************************************)
THEOREM MaskSecretsStay == MaskSpec => []SecretsStayMasked
<1>1. MaskInit => Typed /\ SafeCalls
  <2>1. MaskInit => \A t \in Threads : SafeCall(call[t])
    BY DEF MaskInit, SafeCall, Idle, Running, Scanning
  <2> QED  BY <2>1, TypedInit DEF MaskInit, SafeCalls, CacheCovers
<1>2. (Typed /\ SafeCalls) /\ [MaskNext]_maskVars => (Typed /\ SafeCalls)'
  BY TypedStep, SafeStep
<1>3. SafeCalls => SecretsStayMasked
  BY DEF SafeCalls, SafeCall, SecretsStayMasked
<1> QED  BY <1>1, <1>2, <1>3, PTL DEF MaskSpec
(***************************************************************************)
(* The cache.  It fits its cap, and what it holds is what detection says   *)
(* for its key.  To keep the second true an insert must find, in the call  *)
(* it ends, detections made under the snapshots that the key names on a    *)
(* day between the key's and today; so the calls carry that fact, and with *)
(* it what they answer is what detection says too.                         *)
(***************************************************************************)
CacheFits == IsFiniteSet(cache) /\ CacheWithinCap

\* dets is what detection says for the snapshots of c, on a day from c's on.
AsDetected(c, dets) ==
  \E d \in c.day..today :
     dets = Detect(Outer[TheLeaf(c)], c.pol.rules, c.pol.preserve, c.sec,
                   c.rec, d)

AsUncached(c) ==
  \E d \in c.day..today :
     c.out = LeftPlain(Outer[TheLeaf(c)],
                       Detect(Outer[TheLeaf(c)], c.pol.rules, c.pol.preserve,
                              c.sec, c.rec, d),
                       c.pol.keep, c.sec)
               \cup BypassPlain(c)

HonestCall(c) ==
  /\ c.pc \in {"bypass", "policy", "secrets", "ml"} => ~c.scanned
  /\ c.pc \in Scanning \ {"ml"} => c.day <= today
  /\ c.pc = "batch" => c.seen \in c.day..today
  /\ c.pc \in {"clear", "insert"} => AsDetected(c, c.dets)
  /\ c.pc = "done" /\ c.kind = "mask" /\ c.ok /\ c.scanned => AsUncached(c)

CacheInv == CacheFits /\ CacheHonest /\ \A t \in Threads : HonestCall(call[t])

LEMMA EvictFits ==
  ASSUME NEW from, IsFiniteSet(from), NEW n \in Nat, NEW keep, Evict(from, n, keep)
  PROVE  IsFiniteSet(keep) /\ Cardinality(keep) <= n
BY FS_Subset DEF Evict

LEMMA InsertFits ==
  ASSUME CacheFits, cap \in Nat, NEW k, NEW dets, CacheInsert(k, dets)
  PROVE  IsFiniteSet(cache') /\ Cardinality(cache') <= cap
<1>1. CASE cache' = cache  BY <1>1 DEF CacheFits, CacheWithinCap
<1>2. ASSUME cap # 0, NEW keep, Evict(cache \ Cached(k), cap - 1, keep),
             cache' = keep \cup {[key |-> k, dets |-> dets]}
      PROVE  IsFiniteSet(cache') /\ Cardinality(cache') <= cap
  <2>1. IsFiniteSet(cache \ Cached(k))  BY FS_Subset DEF CacheFits
  <2>2. cap - 1 \in Nat  BY <1>2
  <2>3. IsFiniteSet(keep) /\ Cardinality(keep) <= cap - 1
    BY <1>2, <2>1, <2>2, EvictFits
  <2> DEFINE e == [key |-> k, dets |-> dets]
  <2> HIDE DEF e
  <2>4. Cardinality(keep) \in Nat  BY <2>3, FS_CardinalityType
  <2>5. /\ IsFiniteSet(keep \cup {e})
        /\ \/ Cardinality(keep \cup {e}) = Cardinality(keep)
           \/ Cardinality(keep \cup {e}) = Cardinality(keep) + 1
    BY <2>3, FS_AddElement
  <2>6. cache' = keep \cup {e}  BY <1>2 DEF e
  <2> QED  BY <2>2, <2>3, <2>4, <2>5, <2>6
<1> QED  BY <1>1, <1>2 DEF CacheInsert

LEMMA InsertHonest ==
  ASSUME CacheHonest, today' = today, NEW k, NEW dets, CacheInsert(k, dets),
         \E d \in k.bucket..today :
            dets = Detect(k.text, k.rules, k.preserve, k.secrets, k.ml, d)
  PROVE  CacheHonest'
<1>1. \/ cache' = cache
      \/ \E keep \in SUBSET cache : cache' = keep \cup {[key |-> k, dets |-> dets]}
  BY DEF CacheInsert, Cached
<1> QED  BY <1>1 DEF CacheHonest

\* A hit is as good as a detection: the key has the day, unless no date is
\* preserved and the day does not matter.
LEMMA HitIsDetected ==
  ASSUME CacheHonest, NEW c \in CallType, today \in Nat, c.day <= today,
         NEW e \in Hits(Key(c, TheLeaf(c)))
  PROVE  AsDetected(c, e.dets)
<1> DEFINE l == TheLeaf(c)
           sees(d)  == Detect(Outer[l], c.pol.rules, c.pol.preserve, c.sec,
                              c.rec, d)
<1>1. /\ c.day \in Nat /\ c.pol.preserve \in BOOLEAN
      /\ e \in cache /\ e.key = Key(c, l)
  BY DEF CallType, PolicyType, Hits, Cached
<1>2. PICK d \in Key(c, l).bucket..today :
        e.dets = Detect(Key(c, l).text, Key(c, l).rules, Key(c, l).preserve,
                        Key(c, l).secrets, Key(c, l).ml, d)
  BY <1>1 DEF CacheHonest
<1>3. /\ e.dets = sees(d)
      /\ Key(c, l).bucket = IF c.pol.preserve THEN c.day ELSE 0
  BY <1>2 DEF Key
<1>4. CASE c.pol.preserve  BY <1>2, <1>3, <1>4 DEF AsDetected
<1>5. CASE ~c.pol.preserve
  <2>1. c.pol.preserve = FALSE  BY <1>1, <1>5
  <2>2. sees(d) = sees(c.day)  BY <2>1 DEF Detect
  <2>3. c.day \in c.day..today  BY <1>1
  <2> QED  BY <1>3, <2>2, <2>3 DEF AsDetected
<1> QED  BY <1>4, <1>5

\* An insert under the key of a call, of what was detected for that call.
LEMMA DetectedIsHonest ==
  ASSUME NEW c \in CallType, NEW l, NEW d \in c.day..today, today \in Nat
  PROVE  \E e \in Key(c, l).bucket..today :
            Detect(Outer[l], c.pol.rules, c.pol.preserve, c.sec, c.rec, d)
              = Detect(Key(c, l).text, Key(c, l).rules, Key(c, l).preserve,
                       Key(c, l).secrets, Key(c, l).ml, e)
<1>1. c.day \in Nat /\ c.pol.preserve \in BOOLEAN  BY DEF CallType, PolicyType
<1>2. Key(c, l).bucket = IF c.pol.preserve THEN c.day ELSE 0  BY DEF Key
<1>3. d \in Key(c, l).bucket..today  BY <1>1, <1>2
<1> QED  BY <1>3 DEF Key

\* What depends on a call's snapshots only.
Snapped(x, c) ==
  /\ x.kind = c.kind /\ x.bypass = c.bypass /\ x.pol = c.pol /\ x.sec = c.sec
  /\ x.rec = c.rec /\ x.day = c.day /\ x.scanned = c.scanned
  /\ c.kind = "mask" => x.leaves = c.leaves

LEMMA SnappedSame ==
  ASSUME NEW c, NEW x, Snapped(x, c), c.kind = "mask"
  PROVE  /\ TheLeaf(x) = TheLeaf(c) /\ BypassPlain(x) = BypassPlain(c)
         /\ \A dets : AsDetected(x, dets) <=> AsDetected(c, dets)
         /\ \A l : Key(x, l) = Key(c, l)
<1>1. TheLeaf(x) = TheLeaf(c)  BY SameLeaf DEF Snapped
<1> QED  BY <1>1 DEF Snapped, BypassPlain, AsDetected, Key

\* The steps of a call past its snapshots.
Works(t) ==
  \/ CacheLookup(t) \/ TakeGate(t) \/ Recheck(t)
  \/ DetectOk(t) \/ DetectFail(t) \/ ClearNote(t) \/ Insert(t)
  \/ PrewarmPlan(t)
  \/ \E ok \in BOOLEAN : PrewarmDetect(t, ok)
  \/ \E l \in Leaves : PrewarmInsert(t, l)

LEMMA FinishedFields ==
  ASSUME NEW c \in CallType, NEW dets
  PROVE  LET x == Finished(c, dets) IN
         /\ Snapped(x, c) /\ x.pc = "done"
         /\ x.out = LeftPlain(Outer[TheLeaf(c)], dets, c.pol.keep, c.sec)
                      \cup BypassPlain(c)
BY ReturnFields DEF Finished, Snapped

\* A call that ends with detections for its snapshots answers as if there
\* were no cache.
LEMMA FinishedHonest ==
  ASSUME NEW c \in CallType, c.kind = "mask", NEW dets, AsDetected(c, dets)
  PROVE  HonestCall(Finished(c, dets))
<1> DEFINE x == Finished(c, dets)
<1>1. /\ Snapped(x, c) /\ x.pc = "done"
      /\ x.out = LeftPlain(Outer[TheLeaf(c)], dets, c.pol.keep, c.sec)
                   \cup BypassPlain(c)
  BY FinishedFields
<1> HIDE DEF x
<1>2. TheLeaf(x) = TheLeaf(c) /\ BypassPlain(x) = BypassPlain(c)
  BY <1>1, SnappedSame
<1>3. AsUncached(x)
  BY <1>1, <1>2 DEF AsUncached, AsDetected, Snapped
<1> QED  BY <1>1, <1>3 DEF HonestCall, Scanning, x
LEMMA MovedFields ==
  ASSUME NEW c \in CallType, NEW p
  PROVE  LET x == [c EXCEPT !.pc = p] IN
         /\ Snapped(x, c) /\ x.pc = p /\ x.dets = c.dets /\ x.seen = c.seen
         /\ x.leaves = c.leaves
BY DEF CallType, Snapped

LEMMA ReturnSnapped ==
  ASSUME NEW c \in CallType
  PROVE  /\ Snapped(Return(c), c) /\ Return(c).pc = "done"
         /\ Snapped([Return(c) EXCEPT !.ok = FALSE], c)
         /\ [Return(c) EXCEPT !.ok = FALSE].pc = "done"
         /\ [Return(c) EXCEPT !.ok = FALSE].ok = FALSE
BY ReturnFields DEF Snapped

\* A call between its snapshots and its detection has nothing but its day.
LEMMA MoveHonest ==
  ASSUME NEW c \in CallType, HonestCall(c), c.pc \in Scanning \ {"ml"},
         NEW x, x.pc \in {"lookup", "gate", "recheck", "detect"}, x.day = c.day
  PROVE  HonestCall(x)
BY DEF HonestCall, Scanning

LEMMA EndHonest ==
  ASSUME NEW x, x.pc = "done", x.kind # "mask" \/ x.ok = FALSE \/ x.scanned = FALSE
  PROVE  HonestCall(x)
BY DEF HonestCall, Scanning

LEMMA WorkHonest ==
  ASSUME Typed, CacheInv, NEW t \in Threads, Works(t)
  PROVE  CacheInv'
<1> DEFINE c == call[t]
<1>0. /\ call \in [Threads -> CallType] /\ c \in CallType /\ CallShape(c)
      /\ HonestCall(c) /\ CacheFits /\ CacheHonest
      /\ today \in Nat /\ cap \in Nat /\ c.day \in Nat
  BY DEF Typed, MaskTypeOK, CacheInv, Shapes, CallType
<1>1. today' = today /\ cap' = cap
  BY DEF Works, CacheLookup, TakeGate, Recheck, DetectOk, DetectFail, ClearNote,
     Insert, PrewarmPlan, PrewarmDetect, PrewarmInsert, engineVars
<1>2. ASSUME NEW x, call' = [call EXCEPT ![t] = x], HonestCall(x),
             CacheFits', CacheHonest'
      PROVE  CacheInv'
  <2>1. \A u \in Threads : HonestCall(call'[u])
    BY <1>0, <1>2 DEF CacheInv
  <2> QED
    BY <1>1, <1>2, <2>1 DEF CacheInv, HonestCall, AsDetected, AsUncached
<1>3. cache' = cache => CacheFits' /\ CacheHonest'
  BY <1>0, <1>1 DEF CacheFits, CacheWithinCap, CacheHonest
<1>4. ASSUME c.pc \in Scanning \ {"ml"}, c.kind = "mask",
             NEW e \in Hits(Key(c, TheLeaf(c)))
      PROVE  HonestCall(Finished(c, e.dets))
  <2>1. c.day <= today  BY <1>0, <1>4 DEF HonestCall
  <2>2. AsDetected(c, e.dets)  BY <1>0, <1>4, <2>1, HitIsDetected
  <2> QED  BY <1>0, <1>4, <2>2, FinishedHonest
<1>5. ASSUME NEW p \in {"gate", "recheck", "detect"}, c.pc \in Scanning \ {"ml"}
      PROVE  HonestCall([c EXCEPT !.pc = p])
  <2> DEFINE x == [c EXCEPT !.pc = p]
  <2>1. x.pc = p /\ x.day = c.day  BY <1>0 DEF CallType
  <2> HIDE DEF x
  <2>2. HonestCall(x)  BY <1>0, <1>5, <2>1, MoveHonest
  <2> QED  BY <2>2 DEF x
<1>6. c.kind = "prewarm" => HonestCall(Return(c))
  <2> DEFINE x == Return(c)
  <2>1. Snapped(x, c) /\ x.pc = "done"  BY <1>0, ReturnSnapped
  <2> HIDE DEF x
  <2>2. c.kind = "prewarm" => HonestCall(x)  BY <2>1, EndHonest DEF Snapped
  <2> QED  BY <2>2 DEF x
<1>7. CASE CacheLookup(t)
  <2> DEFINE hits == Hits(Key(c, TheLeaf(c)))
  <2>1. c.pc \in Scanning \ {"ml"} /\ c.kind = "mask" /\ cache' = cache
    BY <1>7 DEF CacheLookup, Scanning, engineVars
  <2>2. \/ \E e \in hits : call' = [call EXCEPT ![t] = Finished(c, e.dets)]
        \/ \E p \in {"gate", "detect"} :
             call' = [call EXCEPT ![t] = [c EXCEPT !.pc = p]]
    BY <1>0, <1>7 DEF CacheLookup
  <2> QED  BY <1>2, <1>3, <1>4, <1>5, <2>1, <2>2
<1>8. CASE TakeGate(t)
  <2>1. /\ c.pc \in Scanning \ {"ml"} /\ cache' = cache
        /\ call' = [call EXCEPT ![t] = [c EXCEPT !.pc = "recheck"]]
    BY <1>0, <1>8 DEF TakeGate, Scanning
  <2> QED  BY <1>2, <1>3, <1>5, <2>1
<1>9. CASE Recheck(t)
  <2> DEFINE hits == Hits(Key(c, TheLeaf(c)))
  <2>1. c.pc \in Scanning \ {"ml"} /\ c.kind = "mask" /\ cache' = cache
    BY <1>9 DEF Recheck, Scanning
  <2>2. \/ \E e \in hits : call' = [call EXCEPT ![t] = Finished(c, e.dets)]
        \/ call' = [call EXCEPT ![t] = [c EXCEPT !.pc = "detect"]]
    BY <1>0, <1>9 DEF Recheck
  <2> QED  BY <1>2, <1>3, <1>4, <1>5, <2>1, <2>2
<1>10. CASE DetectOk(t)
  <2> DEFINE q == IF c.rec = NoModel THEN "insert" ELSE "clear"
             ds == DetectLeaf(c, TheLeaf(c))
             x == [c EXCEPT !.dets = ds, !.pc = q]
  <2>1. call' = [call EXCEPT ![t] = x] /\ cache' = cache
    BY <1>0, <1>10 DEF DetectOk, engineVars
  <2>2. q \in {"insert", "clear"}  OBVIOUS
  <2>3. c.pc = "detect" /\ c.kind = "mask" /\ c.day <= today
    BY <1>0, <1>10 DEF DetectOk, CallShape, HonestCall, Scanning
  <2>4. AsDetected(c, ds)
    <3>1. today \in c.day..today  BY <1>0, <2>3
    <3> QED  BY <3>1 DEF AsDetected, DetectLeaf
  <2> HIDE DEF q, ds
  <2>5. Snapped(x, c) /\ x.pc = q /\ x.dets = ds
    BY <1>0 DEF CallType, Snapped
  <2> HIDE DEF x
  <2>6. AsDetected(x, x.dets)  BY <2>3, <2>4, <2>5, SnappedSame
  <2>7. HonestCall(x)
    BY <2>2, <2>3, <2>5, <2>6 DEF HonestCall, Scanning, Snapped
  <2> QED  BY <1>2, <1>3, <2>1, <2>7
<1>11. CASE ClearNote(t)
  <2> DEFINE x == [c EXCEPT !.pc = "insert"]
  <2>1. call' = [call EXCEPT ![t] = x] /\ cache' = cache
    BY <1>0, <1>11 DEF ClearNote, engineVars
  <2>2. c.pc = "clear" /\ c.kind = "mask" /\ c.day <= today
        /\ AsDetected(c, c.dets)
    BY <1>0, <1>11 DEF ClearNote, CallShape, HonestCall, Scanning
  <2>3. Snapped(x, c) /\ x.pc = "insert" /\ x.dets = c.dets
    BY <1>0, MovedFields
  <2> HIDE DEF x
  <2>4. AsDetected(x, x.dets)  BY <2>2, <2>3, SnappedSame
  <2>5. HonestCall(x)
    BY <2>2, <2>3, <2>4 DEF HonestCall, Scanning, Snapped
  <2> QED  BY <1>2, <1>3, <2>1, <2>5
<1>12. CASE DetectFail(t)
  <2> DEFINE x == [Return(c) EXCEPT !.ok = FALSE]
  <2>1. call' = [call EXCEPT ![t] = x] /\ cache' = cache
    BY <1>0, <1>12 DEF DetectFail, Refuse
  <2>2. x.pc = "done" /\ x.ok = FALSE  BY <1>0, ReturnSnapped
  <2> HIDE DEF x
  <2>3. HonestCall(x)  BY <2>2, EndHonest
  <2> QED  BY <1>2, <1>3, <2>1, <2>3
<1>13. CASE Insert(t)
  <2>1. /\ c.pc = "insert" /\ c.kind = "mask"
        /\ call' = [call EXCEPT ![t] = Finished(c, c.dets)]
        /\ CacheInsert(Key(c, TheLeaf(c)), c.dets)
    BY <1>0, <1>13 DEF Insert, CallShape
  <2>2. AsDetected(c, c.dets)  BY <1>0, <2>1 DEF HonestCall
  <2>3. HonestCall(Finished(c, c.dets))  BY <1>0, <2>1, <2>2, FinishedHonest
  <2>4. CacheFits'
    BY <1>0, <1>1, <2>1, InsertFits DEF CacheFits, CacheWithinCap
  <2>5. PICK d \in c.day..today :
          c.dets = Detect(Outer[TheLeaf(c)], c.pol.rules, c.pol.preserve,
                          c.sec, c.rec, d)
    BY <2>2 DEF AsDetected
  <2> DEFINE k == Key(c, TheLeaf(c))
  <2>6. \E e \in k.bucket..today :
          c.dets = Detect(k.text, k.rules, k.preserve, k.secrets, k.ml, e)
    BY <1>0, <2>5, DetectedIsHonest
  <2>7. CacheHonest'  BY <1>0, <1>1, <2>1, <2>6, InsertHonest
  <2> QED  BY <1>2, <2>1, <2>3, <2>4, <2>7
<1>14. CASE PrewarmPlan(t)
  <2> DEFINE x == [c EXCEPT !.leaves = Plannable(c), !.pc = "gate"]
  <2>1. x.pc = "gate" /\ x.day = c.day  BY <1>0 DEF CallType
  <2>2. \/ call' = [call EXCEPT ![t] = x]
        \/ call' = [call EXCEPT ![t] = Return(c)]
    BY <1>14 DEF PrewarmPlan
  <2>3. c.pc = "lookup" /\ c.kind = "prewarm" /\ cache' = cache
    BY <1>14 DEF PrewarmPlan, engineVars
  <2> HIDE DEF x
  <2>4. HonestCall(x)  BY <1>0, <2>1, <2>3, MoveHonest DEF Scanning
  <2> QED  BY <1>2, <1>3, <1>6, <2>2, <2>3, <2>4
<1>15. CASE \E ok \in BOOLEAN : PrewarmDetect(t, ok)
  <2> DEFINE x == [c EXCEPT !.leaves = Plannable(c), !.seen = today,
                            !.pc = "batch"]
  <2>1. /\ x.pc = "batch" /\ x.day = c.day /\ x.seen = today
        /\ x.kind = c.kind
    BY <1>0 DEF CallType
  <2>2. \/ call' = [call EXCEPT ![t] = x]
        \/ call' = [call EXCEPT ![t] = Return(c)]
    BY <1>0, <1>15 DEF PrewarmDetect
  <2>3. c.pc = "recheck" /\ c.kind = "prewarm" /\ cache' = cache
    BY <1>15 DEF PrewarmDetect
  <2>4. c.day <= today  BY <1>0, <2>3 DEF HonestCall, Scanning
  <2> HIDE DEF x
  <2>5. HonestCall(x)  BY <1>0, <2>1, <2>4 DEF HonestCall, Scanning
  <2> QED  BY <1>2, <1>3, <1>6, <2>2, <2>3, <2>5
<1>16. ASSUME NEW l \in Leaves, PrewarmInsert(t, l) PROVE CacheInv'
  <2> DEFINE x == [c EXCEPT !.leaves = c.leaves \ {l}]
             k == Key(c, l)
  <2>1. /\ x.pc = c.pc /\ x.day = c.day /\ x.seen = c.seen /\ x.kind = c.kind
    BY <1>0 DEF CallType
  <2>2. \/ call' = [call EXCEPT ![t] = x]
        \/ call' = [call EXCEPT ![t] = Return(c)]
    BY <1>0, <1>16 DEF PrewarmInsert
  <2>3. c.pc = "batch" /\ c.kind = "prewarm" /\ CacheInsert(k, BatchDets(c, l))
    BY <1>0, <1>16 DEF PrewarmInsert, CallShape
  <2> HIDE DEF x
  <2>4. HonestCall(x)  BY <1>0, <2>1, <2>3 DEF HonestCall, Scanning
  <2>5. CacheFits'
    BY <1>0, <1>1, <2>3, InsertFits DEF CacheFits, CacheWithinCap
  <2>6. c.seen \in c.day..today  BY <1>0, <2>3 DEF HonestCall
  <2>7. \E e \in k.bucket..today :
          BatchDets(c, l)
            = Detect(k.text, k.rules, k.preserve, k.secrets, k.ml, e)
    BY <1>0, <2>6, DetectedIsHonest DEF BatchDets
  <2>8. CacheHonest'  BY <1>0, <1>1, <2>3, <2>7, InsertHonest
  <2> QED  BY <1>2, <1>6, <2>2, <2>3, <2>4, <2>5, <2>8
<1> QED
  BY <1>7, <1>8, <1>9, <1>10, <1>11, <1>12, <1>13, <1>14, <1>15, <1>16 DEF Works
\* A call that is still taking its snapshots has not been scanned.
LEMMA FreshHonest ==
  ASSUME NEW x, ~x.scanned,
         x.pc \in {"bypass", "policy", "secrets", "ml", "done"}
  PROVE  HonestCall(x)
BY DEF HonestCall, Scanning

LEMMA SnapHonest ==
  ASSUME Typed, CacheInv, NEW t \in Threads,
         SnapBypass(t) \/ SnapPolicy(t) \/ SnapSecrets(t) \/ SnapMl(t)
  PROVE  CacheInv'
<1> DEFINE c == call[t]
<1>0. /\ call \in [Threads -> CallType] /\ c \in CallType
      /\ HonestCall(c) /\ CacheFits /\ CacheHonest
      /\ today \in Nat /\ ml.model \in Models \cup {NoModel} /\ ml.gen \in Nat
  BY DEF Typed, MaskTypeOK, CacheInv
<1>1. UNCHANGED <<cache, cap, today>>
  BY DEF SnapBypass, SnapPolicy, SnapSecrets, SnapMl, engineVars
<1>2. ASSUME NEW x, call' = [call EXCEPT ![t] = x], HonestCall(x)
      PROVE  CacheInv'
  <2>1. \A u \in Threads : HonestCall(call'[u])
    BY <1>0, <1>2 DEF CacheInv
  <2>2. CacheFits' /\ CacheHonest'
    BY <1>0, <1>1 DEF CacheFits, CacheWithinCap, CacheHonest
  <2> QED
    BY <1>1, <2>1, <2>2 DEF CacheInv, HonestCall, AsDetected, AsUncached
<1>3. c.pc \in {"bypass", "policy", "secrets", "ml"} /\ ~c.scanned
  <2>1. c.pc \in {"bypass", "policy", "secrets", "ml"}
    BY DEF SnapBypass, SnapPolicy, SnapSecrets, SnapMl
  <2> QED  BY <1>0, <2>1 DEF HonestCall
<1>4. \A p \in {"policy", "done"} : HonestCall([c EXCEPT !.pc = p])
  <2>1. ASSUME NEW p \in {"policy", "done"} PROVE HonestCall([c EXCEPT !.pc = p])
    <3> DEFINE x == [c EXCEPT !.pc = p]
    <3>1. x.pc = p /\ x.scanned = c.scanned  BY <1>0 DEF CallType
    <3> HIDE DEF x
    <3>2. HonestCall(x)  BY <1>3, <3>1, FreshHonest
    <3> QED  BY <3>2 DEF x
  <2> QED  BY <2>1
<1>5. CASE SnapBypass(t)
  <2> DEFINE x == [c EXCEPT !.bypass = secrets, !.pc = "policy"]
  <2>1. call' = [call EXCEPT ![t] = x]  BY <1>0, <1>5 DEF SnapBypass
  <2>2. x.pc = "policy" /\ x.scanned = c.scanned  BY <1>0 DEF CallType
  <2> HIDE DEF x
  <2> QED  BY <1>2, <1>3, <2>1, <2>2, FreshHonest
<1>6. CASE SnapPolicy(t)
  <2> DEFINE p == IF c.kind = "prewarm" /\ ~policy.enabled
                    THEN "done" ELSE "secrets"
             x == [c EXCEPT !.pol = policy, !.pc = p]
  <2>1. call' = [call EXCEPT ![t] = x]  BY <1>0, <1>6 DEF SnapPolicy
  <2>2. p \in {"done", "secrets"}  OBVIOUS
  <2> HIDE DEF p
  <2>3. x.pc = p /\ x.scanned = c.scanned  BY <1>0 DEF CallType
  <2> HIDE DEF x
  <2> QED  BY <1>2, <1>3, <2>1, <2>2, <2>3, FreshHonest
<1>7. CASE SnapSecrets(t)
  <2> DEFINE d == [c EXCEPT !.sec = secrets]
             y == [Return(d) EXCEPT !.out = DisabledPlain(d)]
             z == [d EXCEPT !.pc = "ml"]
  <2>1. \/ call' = [call EXCEPT ![t] = y]
        \/ call' = [call EXCEPT ![t] = z]
    BY <1>7 DEF SnapSecrets
  <2>2. d \in CallType /\ d.scanned = c.scanned
    BY <1>0 DEF CallType, Typed, MaskTypeOK
  <2>3. z.pc = "ml" /\ z.scanned = d.scanned  BY <2>2 DEF CallType
  <2> HIDE DEF d
  <2>4. y.pc = "done" /\ y.scanned = d.scanned  BY <2>2, ReturnFields
  <2> HIDE DEF y, z
  <2>5. HonestCall(y) /\ HonestCall(z)
    BY <1>3, <2>2, <2>3, <2>4, FreshHonest
  <2> QED  BY <1>2, <2>1, <2>5
<1>8. CASE SnapMl(t)
  <2> DEFINE r == IF ml.status = "ready" THEN ml.model ELSE NoModel
             y == [Return(c) EXCEPT !.ok = FALSE]
             z == [c EXCEPT !.pc = "done"]
             w == [c EXCEPT !.rec = r, !.gen = ml.gen, !.day = today,
                            !.scanned = TRUE, !.pc = "lookup"]
  <2>1. \/ call' = [call EXCEPT ![t] = y]
        \/ call' = [call EXCEPT ![t] = z]
        \/ call' = [call EXCEPT ![t] = w]
    BY <1>0, <1>8 DEF SnapMl, Refuse
  <2> HIDE DEF r
  <2>2. w.pc = "lookup" /\ w.day = today  BY <1>0 DEF CallType
  <2>3. y.pc = "done" /\ y.ok = FALSE  BY <1>0, ReturnSnapped
  <2> HIDE DEF w, y
  <2>4. HonestCall(w)  BY <1>0, <2>2 DEF HonestCall, Scanning
  <2>5. HonestCall(y)  BY <2>3, EndHonest
  <2> QED  BY <1>2, <1>4, <2>1, <2>4, <2>5
<1> QED  BY <1>5, <1>6, <1>7, <1>8

\* Steps that leave the engine's cache alone, and at most advance the day.
LEMMA IdleHonest ==
  ASSUME Typed, CacheInv, UNCHANGED <<cache, cap>>, today' \in Nat, today <= today',
         \A t \in Threads :
            \/ HonestCall(call[t])'
            \/ LET c == call[t]  d == call'[t] IN
               /\ d.pc = c.pc /\ d.day = c.day /\ d.seen = c.seen
               /\ d.dets = c.dets /\ d.ok = c.ok /\ d.out = c.out
               /\ d.leaves = c.leaves /\ Snapped(d, c)
  PROVE  CacheInv'
<1>0. today \in Nat /\ CacheFits /\ CacheHonest
  BY DEF Typed, MaskTypeOK, CacheInv
<1>1. CacheFits'  BY <1>0 DEF CacheFits, CacheWithinCap
<1>2. CacheHonest'
  <2>1. SUFFICES ASSUME NEW e \in cache
                 PROVE  \E d \in e.key.bucket..today' :
                          e.dets = Detect(e.key.text, e.key.rules,
                                          e.key.preserve, e.key.secrets,
                                          e.key.ml, d)
    BY DEF CacheHonest
  <2>2. PICK d \in e.key.bucket..today :
          e.dets = Detect(e.key.text, e.key.rules, e.key.preserve,
                          e.key.secrets, e.key.ml, d)
    BY <1>0 DEF CacheHonest
  <2>3. e.key.bucket \in Nat  BY DEF Typed, MaskTypeOK, KeyType
  <2>4. d \in e.key.bucket..today'  BY <1>0, <2>3
  <2> QED  BY <2>2, <2>4
<1>3. ASSUME NEW t \in Threads PROVE HonestCall(call[t])'
  <2> DEFINE c == call[t]
             d == call'[t]
  <2>1. SUFFICES ASSUME d.pc = c.pc, d.day = c.day, d.seen = c.seen,
                        d.dets = c.dets, d.ok = c.ok, d.out = c.out,
                        d.leaves = c.leaves, Snapped(d, c)
                 PROVE  HonestCall(call[t])'
    OBVIOUS
  <2>2. /\ HonestCall(c) /\ c.day \in Nat
    BY DEF CacheInv, Typed, MaskTypeOK, CallType
  <2>3. TheLeaf(d) = TheLeaf(c)  BY <2>1, SameLeaf
  <2>4. c.day..today \subseteq c.day..today'  BY <1>0, <2>2
  <2>5. c.pc \in {"clear", "insert"} => AsDetected(c, c.dets)'
    BY <2>1, <2>2, <2>3, <2>4 DEF HonestCall, AsDetected, Snapped
  <2>6. BypassPlain(d) = BypassPlain(c)
    BY <2>1, <2>3 DEF BypassPlain, Snapped
  <2>7. AsUncached(c) => AsUncached(c)'
    BY <2>1, <2>3, <2>4, <2>6 DEF AsUncached, Snapped
  <2>8. /\ c.pc \in Scanning \ {"ml"} => d.day <= today'
        /\ c.pc = "batch" => d.seen \in d.day..today'
    BY <1>0, <2>1, <2>2, <2>4 DEF HonestCall
  <2> QED
    BY <2>1, <2>2, <2>5, <2>7, <2>8 DEF HonestCall, Snapped
<1> QED  BY <1>1, <1>2, <1>3 DEF CacheInv

LEMMA CacheInvStep ==
  Typed /\ CacheInv /\ [MaskNext]_maskVars => CacheInv'
<1> SUFFICES ASSUME Typed, CacheInv, [MaskNext]_maskVars PROVE CacheInv'
  OBVIOUS
<1>0. /\ call \in [Threads -> CallType] /\ today \in Nat /\ cap \in Nat
      /\ policy \in PolicyType
  BY DEF Typed, MaskTypeOK
<1>1. CASE \E t \in Threads : CallStep(t)
  BY <1>1, SnapHonest, WorkHonest DEF CallStep, Works
<1>2. ASSUME NEW t \in Threads, NEW kind \in {"mask", "off", "prewarm"},
             NEW ls \in SUBSET Leaves, Start(t, kind, ls)
      PROVE  CacheInv'
  <2>1. \A u \in Threads \ {t} : call'[u] = call[u]  BY <1>0, <1>2 DEF Start
  <2>2. call'[t].pc \in {"bypass", "policy"} /\ call'[t].scanned = FALSE
    BY <1>0, <1>2 DEF Start, Idle
  <2>3. HonestCall(call[t])'  BY <2>2 DEF HonestCall, Scanning
  <2>4. UNCHANGED <<cache, cap, today>>  BY <1>2 DEF Start, engineVars
  <2> QED  BY <1>0, <2>1, <2>3, <2>4, IdleHonest DEF Snapped
<1>3. ASSUME NEW how \in {"put", "enable", "disable"},
             NEW pol \in Configs \cup {policy}, NEW w \in Wants,
             ConfigWrite(how, pol, w)
      PROVE  CacheInv'
  <2>1. \A u \in Threads : LET c == call[u]  d == call'[u] IN
          /\ d.pc = c.pc /\ d.day = c.day /\ d.seen = c.seen
          /\ d.dets = c.dets /\ d.ok = c.ok /\ d.out = c.out
          /\ d.leaves = c.leaves /\ Snapped(d, c)
    BY <1>0, <1>3 DEF ConfigWrite, CallType, Snapped
  <2>2. UNCHANGED <<cache, cap, today>>  BY <1>3 DEF ConfigWrite
  <2> QED  BY <1>0, <2>1, <2>2, IdleHonest
<1>4. CASE SetCap
  <2>1. PICK keep \in SUBSET cache : Evict(cache, policy.cap, keep) /\ cache' = keep
    BY <1>4 DEF SetCap
  <2>2. cap' = policy.cap /\ policy.cap \in Nat /\ call' = call /\ today' = today
    BY <1>0, <1>4 DEF SetCap, PolicyType
  <2>3. CacheFits'
    BY <2>1, <2>2, EvictFits DEF CacheFits, CacheWithinCap, CacheInv
  <2>4. CacheHonest'  BY <2>1, <2>2 DEF CacheHonest, CacheInv
  <2> QED
    BY <2>2, <2>3, <2>4 DEF CacheInv, HonestCall, AsDetected, AsUncached
<1>5. CASE \/ ReconcileRead \/ ReconcileAct \/ Midnight \/ UNCHANGED maskVars
           \/ \E on \in BOOLEAN : SetEnabled(on)
           \/ \E set \in SUBSET Secrets : SetSecretRules(set)
           \/ \E ld \in loads, ok \in BOOLEAN : LoadEnds(ld, ok)
  <2>1. /\ UNCHANGED <<cache, cap, call>>
        /\ today' = today \/ today' = today + 1
    BY <1>5 DEF ReconcileRead, ReconcileAct, SetEnabled, LoadEnds, Midnight,
       SetSecretRules, maskVars, engineVars
  <2> QED  BY <1>0, <2>1, IdleHonest DEF Snapped
<1> QED  BY <1>1, <1>2, <1>3, <1>4, <1>5 DEF MaskNext, Control

LEMMA CacheInvInit == MaskInit => CacheInv
<1> SUFFICES ASSUME MaskInit PROVE CacheInv
  OBVIOUS
<1>1. CacheFits
  BY FS_EmptySet DEF MaskInit, CacheFits, CacheWithinCap, PolicyType
<1>2. \A t \in Threads : HonestCall(call[t])
  BY DEF MaskInit, HonestCall, Idle, Scanning
<1> QED  BY <1>1, <1>2 DEF MaskInit, CacheInv, CacheHonest

\* The clauses of CacheSound, and MaskIsUncached by its definition.
LEMMA CacheInvSound == CacheInv => CacheSound
<1>1. CacheInv => MaskIsUncached
  BY DEF CacheInv, HonestCall, AsUncached, MaskIsUncached
<1> QED  BY <1>1 DEF CacheInv, CacheSound, CacheFits

(***************************************************************************)
(* The detection cache is invisible: whatever swap of the policy, of the   *)
(* secrets or of the recognizer, eviction, change of the cap or midnight   *)
(* comes between a call's snapshots, its lookup, its detection and its     *)
(* insert, an entry is what detection says for its key, a call answers as  *)
(* an engine without a cache would, and the cap holds (lib.rs, cache.rs).  *)
(***************************************************************************)
THEOREM MaskCacheSound == MaskSpec => []CacheSound
<1>1. MaskInit => Typed /\ CacheInv  BY TypedInit, CacheInvInit
<1>2. (Typed /\ CacheInv) /\ [MaskNext]_maskVars => (Typed /\ CacheInv)'
  BY TypedStep, CacheInvStep
<1> QED  BY <1>1, <1>2, CacheInvSound, PTL DEF MaskSpec

(***************************************************************************)
(* The ML gate.  Whoever runs an inference, or carries the result of one   *)
(* to the cache, holds the gate, so nobody else can cache what it is       *)
(* detecting: a call without a recognizer inserts under another key.       *)
(***************************************************************************)
GateCall(t) ==
  LET c == call[t] IN
  /\ c.pc \in {"recheck", "batch"} => gate = t
  /\ c.pc \in {"detect", "clear", "insert"} /\ c.rec # NoModel => gate = t
  /\ c.pc = "detect" /\ c.rec # NoModel => Cached(Key(c, TheLeaf(c))) = {}

GateCalls == \A t \in Threads : GateCall(t)

LEMMA NothingCached ==
  ASSUME CacheFits, NEW k, Hits(k) = {}
  PROVE  Cached(k) = {}
<1>1. CASE cap = 0
  <2>1. cache = {}
    BY <1>1, FS_CardinalityType, FS_EmptySet DEF CacheFits, CacheWithinCap
  <2> QED  BY <2>1 DEF Cached
<1> QED  BY <1>1 DEF Hits

\* A thread's step takes the gate from nobody.
LEMMA GateKept ==
  ASSUME NEW t \in Threads, NEW u \in Threads \ {t}, CallStep(t), gate = u
  PROVE  gate' = u
<1>1. ~TakeGate(t)  BY DEF TakeGate
<1>2. \/ gate' = gate
      \/ Release(t)
  BY <1>1 DEF CallStep, SnapBypass, SnapPolicy, SnapSecrets, SnapMl, CacheLookup,
     Recheck, DetectOk, DetectFail, ClearNote, Insert, PrewarmPlan,
     PrewarmDetect, PrewarmInsert, engineVars
<1> QED  BY <1>2 DEF Release

LEMMA OthersKeepGate ==
  ASSUME Typed, GateCalls, NEW t \in Threads, NEW u \in Threads \ {t}, CallStep(t)
  PROVE  GateCall(u)'
<1> DEFINE c == call[t]
           d == call[u]
<1>0. /\ call'[u] = call[u] /\ GateCall(t) /\ GateCall(u)
  BY CallStepFrame DEF GateCalls
<1>1. gate = u => gate' = u  BY GateKept
<1>2. SUFFICES ASSUME d.pc = "detect", d.rec # NoModel,
                      Cached(Key(d, TheLeaf(d))) = {}, gate = u
               PROVE  Cached(Key(d, TheLeaf(d)))' = {}
  BY <1>0, <1>1 DEF GateCall, Key, Cached, TheLeaf
<1> DEFINE k == Key(d, TheLeaf(d))
<1>3. Key(d, TheLeaf(d))' = k  BY <1>0 DEF Key, TheLeaf
<1>4. CASE cache' = cache  BY <1>2, <1>3, <1>4 DEF Cached
<1>5. CASE Insert(t)
  <2>1. c.rec = NoModel  BY <1>0, <1>2, <1>5 DEF GateCall, Insert
  <2>2. Key(c, TheLeaf(c)).ml # k.ml  BY <1>2, <2>1 DEF Key
  <2>3. CacheInsert(Key(c, TheLeaf(c)), c.dets)  BY <1>5 DEF Insert
  <2> HIDE DEF k
  <2>4. {e \in cache' : e.key = k} = {}
    <3>1. \/ cache' = cache
          \/ \E keep \in SUBSET cache :
               cache' = keep \cup {[key |-> Key(c, TheLeaf(c)), dets |-> c.dets]}
      BY <2>3 DEF CacheInsert, Cached
    <3> QED  BY <1>2, <2>2, <3>1 DEF Cached, k
  <2> QED  BY <1>3, <2>4 DEF Cached, k
<1>6. ASSUME NEW l \in Leaves, PrewarmInsert(t, l) PROVE FALSE
  BY <1>0, <1>2, <1>6 DEF GateCall, PrewarmInsert
<1>7. \/ cache' = cache \/ Insert(t) \/ \E l \in Leaves : PrewarmInsert(t, l)
  BY DEF CallStep, SnapBypass, SnapPolicy, SnapSecrets, SnapMl, CacheLookup, TakeGate,
     Recheck, DetectOk, DetectFail, ClearNote, PrewarmPlan, PrewarmDetect,
     engineVars
<1> QED  BY <1>4, <1>5, <1>6, <1>7

\* The places at which a call needs the gate for nothing.
Ungated == {"idle", "bypass", "policy", "secrets", "ml", "lookup", "gate", "done"}

LEMMA OwnGate ==
  ASSUME Typed, CacheFits, GateCalls, NEW t \in Threads, CallStep(t)
  PROVE  GateCall(t)'
<1> DEFINE c == call[t]
<1>0. /\ call \in [Threads -> CallType] /\ c \in CallType /\ CallShape(c)
      /\ GateCall(t)
  BY DEF Typed, MaskTypeOK, GateCalls, Shapes
<1>1. ASSUME call'[t].pc \in Ungated PROVE GateCall(t)'
  BY <1>1 DEF GateCall, Ungated
<1>2. ASSUME NEW x, call' = [call EXCEPT ![t] = x], x.pc \in Ungated
      PROVE  GateCall(t)'
  BY <1>0, <1>1, <1>2
<1>3. ASSUME NEW q, call' = [call EXCEPT ![t] = [c EXCEPT !.pc = q]]
      PROVE  call'[t].pc = q /\ Snapped(call'[t], c)
  <2> DEFINE x == [c EXCEPT !.pc = q]
  <2>1. Snapped(x, c) /\ x.pc = q  BY <1>0, MovedFields
  <2>2. call'[t] = x  BY <1>0, <1>3
  <2> HIDE DEF x
  <2> QED  BY <2>1, <2>2
<1>4. ASSUME NEW dets, call' = [call EXCEPT ![t] = Finished(c, dets)]
      PROVE  GateCall(t)'
  <2>1. Finished(c, dets).pc \in Ungated
    BY <1>0, FinishedFields DEF Ungated
  <2> QED  BY <1>2, <1>4, <2>1
<1>5. ASSUME call' = [call EXCEPT ![t] = Return(c)]
             \/ call' = [call EXCEPT ![t] = [Return(c) EXCEPT !.ok = FALSE]]
      PROVE  GateCall(t)'
  <2>1. Return(c).pc \in Ungated /\ [Return(c) EXCEPT !.ok = FALSE].pc \in Ungated
    BY <1>0, ReturnSnapped DEF Ungated
  <2> QED  BY <1>2, <1>5, <2>1
<1>6. CASE SnapBypass(t) \/ SnapPolicy(t) \/ SnapSecrets(t) \/ SnapMl(t)
  <2>1. CASE SnapBypass(t)
    <3>1. call'[t].pc = "policy"  BY <1>0, <2>1 DEF SnapBypass, CallType
    <3> QED  BY <1>1, <3>1 DEF Ungated
  <2>2. CASE SnapPolicy(t)
    <3>1. call'[t].pc \in {"done", "secrets"}
      BY <1>0, <2>2 DEF SnapPolicy, CallType
    <3> QED  BY <1>1, <3>1 DEF Ungated
  <2>3. CASE SnapSecrets(t)
    <3> DEFINE d == [c EXCEPT !.sec = secrets]
    <3>1. d \in CallType  BY <1>0 DEF CallType, Typed, MaskTypeOK
    <3>2. [d EXCEPT !.pc = "ml"].pc \in Ungated  BY <3>1 DEF CallType, Ungated
    <3>3. \A o : [Return(d) EXCEPT !.out = o].pc \in Ungated
      BY <3>1, ReturnFields DEF Ungated
    <3>4. \/ call' = [call EXCEPT ![t] = [d EXCEPT !.pc = "ml"]]
          \/ \E o : call' = [call EXCEPT ![t] = [Return(d) EXCEPT !.out = o]]
      BY <2>3 DEF SnapSecrets
    <3> HIDE DEF d
    <3> QED  BY <1>2, <3>2, <3>3, <3>4
  <2>4. CASE SnapMl(t)
    <3> DEFINE r == IF ml.status = "ready" THEN ml.model ELSE NoModel
               w == [c EXCEPT !.rec = r, !.gen = ml.gen, !.day = today,
                              !.scanned = TRUE, !.pc = "lookup"]
    <3>1. \/ call' = [call EXCEPT ![t] = [Return(c) EXCEPT !.ok = FALSE]]
          \/ call' = [call EXCEPT ![t] = [c EXCEPT !.pc = "done"]]
          \/ call' = [call EXCEPT ![t] = w]
      BY <1>0, <2>4 DEF SnapMl, Refuse
    <3> HIDE DEF r
    <3>2. w.pc \in Ungated  BY <1>0 DEF CallType, Ungated
    <3> HIDE DEF w
    <3>3. "done" \in Ungated  BY DEF Ungated
    <3> QED  BY <1>1, <1>2, <1>3, <1>5, <3>1, <3>2, <3>3
  <2> QED  BY <1>6, <2>1, <2>2, <2>3, <2>4
<1>7. CASE CacheLookup(t)
  <2>1. \/ \E dets : call' = [call EXCEPT ![t] = Finished(c, dets)]
        \/ call' = [call EXCEPT ![t] = [c EXCEPT !.pc = "gate"]]
        \/ /\ c.rec = NoModel
           /\ call' = [call EXCEPT ![t] = [c EXCEPT !.pc = "detect"]]
    BY <1>0, <1>7 DEF CacheLookup
  <2>2. ASSUME c.rec = NoModel,
               call' = [call EXCEPT ![t] = [c EXCEPT !.pc = "detect"]]
        PROVE  GateCall(t)'
    <3>1. call'[t].pc = "detect" /\ call'[t].rec = NoModel
      BY <1>3, <2>2 DEF Snapped
    <3> QED  BY <3>1 DEF GateCall
  <2>3. ASSUME call' = [call EXCEPT ![t] = [c EXCEPT !.pc = "gate"]]
        PROVE  GateCall(t)'
    BY <1>1, <1>3, <2>3 DEF Ungated
  <2> QED  BY <1>4, <2>1, <2>2, <2>3
<1>8. CASE TakeGate(t)
  <2>1. call'[t].pc = "recheck" /\ gate' = t
    BY <1>0, <1>8, <1>3 DEF TakeGate
  <2> QED  BY <2>1 DEF GateCall
<1>9. CASE Recheck(t)
  <2>1. \/ \E dets : call' = [call EXCEPT ![t] = Finished(c, dets)]
        \/ /\ Hits(Key(c, TheLeaf(c))) = {} /\ gate' = gate
           /\ call' = [call EXCEPT ![t] = [c EXCEPT !.pc = "detect"]]
    BY <1>0, <1>9 DEF Recheck
  <2>2. ASSUME Hits(Key(c, TheLeaf(c))) = {}, gate' = gate,
               call' = [call EXCEPT ![t] = [c EXCEPT !.pc = "detect"]]
        PROVE  GateCall(t)'
    <3> DEFINE x == call'[t]
    <3>1. x.pc = "detect" /\ Snapped(x, c)  BY <1>3, <2>2
    <3>2. c.pc = "recheck" /\ c.kind = "mask" /\ cache' = cache
      BY <1>9 DEF Recheck
    <3>3. gate' = t  BY <1>0, <2>2, <3>2 DEF GateCall
    <3>4. Key(x, TheLeaf(x)) = Key(c, TheLeaf(c))
      BY <3>1, <3>2, SnappedSame
    <3>5. Cached(Key(c, TheLeaf(c))) = {}  BY <2>2, NothingCached
    <3>6. Key(c, TheLeaf(c))' = Key(x, TheLeaf(x))  BY DEF Key, TheLeaf
    <3>7. {e \in cache' : e.key = Key(x, TheLeaf(x))} = {}
      BY <3>2, <3>4, <3>5 DEF Cached
    <3>8. Cached(Key(c, TheLeaf(c)))' = {}  BY <3>6, <3>7 DEF Cached
    <3> QED  BY <3>1, <3>3, <3>8 DEF GateCall
  <2> QED  BY <1>4, <2>1, <2>2
<1>10. CASE DetectOk(t)
  <2> DEFINE q == IF c.rec = NoModel THEN "insert" ELSE "clear"
             ds == DetectLeaf(c, TheLeaf(c))
             x == [c EXCEPT !.dets = ds, !.pc = q]
  <2>1. call' = [call EXCEPT ![t] = x] /\ gate' = gate /\ c.pc = "detect"
    BY <1>0, <1>10 DEF DetectOk, engineVars
  <2>2. q \in {"insert", "clear"}  OBVIOUS
  <2> HIDE DEF q, ds
  <2>3. x.pc = q /\ x.rec = c.rec  BY <1>0 DEF CallType
  <2>4. call'[t].pc = q /\ call'[t].rec = c.rec  BY <1>0, <2>1, <2>3
  <2> QED  BY <1>0, <2>1, <2>2, <2>4 DEF GateCall
<1>11. CASE ClearNote(t)
  <2>1. call' = [call EXCEPT ![t] = [c EXCEPT !.pc = "insert"]]
        /\ gate' = gate /\ c.pc = "clear"
    BY <1>0, <1>11 DEF ClearNote, engineVars
  <2>2. call'[t].pc = "insert" /\ call'[t].rec = c.rec
    BY <1>3, <2>1 DEF Snapped
  <2> QED  BY <1>0, <2>1, <2>2 DEF GateCall
<1>12. CASE DetectFail(t)  BY <1>5, <1>12 DEF DetectFail, Refuse
<1>13. CASE Insert(t)  BY <1>4, <1>13 DEF Insert
<1>14. CASE PrewarmPlan(t)
  <2> DEFINE x == [c EXCEPT !.leaves = Plannable(c), !.pc = "gate"]
  <2>1. x.pc \in Ungated  BY <1>0 DEF CallType, Ungated
  <2>2. \/ call' = [call EXCEPT ![t] = x]
        \/ call' = [call EXCEPT ![t] = Return(c)]
    BY <1>14 DEF PrewarmPlan
  <2> HIDE DEF x
  <2> QED  BY <1>2, <1>5, <2>1, <2>2
<1>15. CASE \E ok \in BOOLEAN : PrewarmDetect(t, ok)
  <2> DEFINE x == [c EXCEPT !.leaves = Plannable(c), !.seen = today,
                            !.pc = "batch"]
  <2>1. x.pc = "batch"  BY <1>0 DEF CallType
  <2>2. \/ call' = [call EXCEPT ![t] = x] /\ gate' = gate
        \/ call' = [call EXCEPT ![t] = Return(c)]
    BY <1>0, <1>15 DEF PrewarmDetect
  <2>3. gate = t  BY <1>0, <1>15 DEF PrewarmDetect, GateCall
  <2> HIDE DEF x
  <2>4. ASSUME call' = [call EXCEPT ![t] = x], gate' = gate
        PROVE  GateCall(t)'
    <3>1. call'[t].pc = "batch"  BY <1>0, <2>1, <2>4
    <3> QED  BY <2>3, <2>4, <3>1 DEF GateCall
  <2> QED  BY <1>5, <2>2, <2>4
<1>16. ASSUME NEW l \in Leaves, PrewarmInsert(t, l) PROVE GateCall(t)'
  <2> DEFINE x == [c EXCEPT !.leaves = c.leaves \ {l}]
  <2>1. x.pc = c.pc  BY <1>0 DEF CallType
  <2>2. \/ call' = [call EXCEPT ![t] = x] /\ gate' = gate
        \/ call' = [call EXCEPT ![t] = Return(c)]
    BY <1>0, <1>16 DEF PrewarmInsert
  <2>3. gate = t /\ c.pc = "batch"  BY <1>0, <1>16 DEF PrewarmInsert, GateCall
  <2> HIDE DEF x
  <2>4. ASSUME call' = [call EXCEPT ![t] = x], gate' = gate
        PROVE  GateCall(t)'
    <3>1. call'[t].pc = "batch"  BY <1>0, <2>1, <2>3, <2>4
    <3> QED  BY <2>3, <2>4, <3>1 DEF GateCall
  <2> QED  BY <1>5, <2>2, <2>4
<1> QED
  BY <1>6, <1>7, <1>8, <1>9, <1>10, <1>11, <1>12, <1>13, <1>14, <1>15, <1>16
     DEF CallStep

LEMMA GateCallsStep ==
  Typed /\ CacheInv /\ GateCalls /\ [MaskNext]_maskVars => GateCalls'
<1> SUFFICES ASSUME Typed, CacheInv, GateCalls, [MaskNext]_maskVars
             PROVE  GateCalls'
  OBVIOUS
<1>0. call \in [Threads -> CallType]  BY DEF Typed, MaskTypeOK
<1>1. ASSUME NEW t \in Threads, CallStep(t) PROVE GateCalls'
  BY <1>1, OwnGate, OthersKeepGate DEF GateCalls, CacheInv
<1>2. ASSUME NEW t \in Threads, NEW kind \in {"mask", "off", "prewarm"},
             NEW ls \in SUBSET Leaves, Start(t, kind, ls)
      PROVE  GateCalls'
  <2>1. \A u \in Threads \ {t} : call'[u] = call[u]  BY <1>0, <1>2 DEF Start
  <2>2. call'[t].pc \in {"bypass", "policy"}  BY <1>0, <1>2 DEF Start, Idle
  <2>3. UNCHANGED <<cache, gate>>  BY <1>2 DEF Start, engineVars
  <2>4. GateCall(t)'  BY <2>2 DEF GateCall
  <2>5. \A u \in Threads \ {t} : GateCall(u)'
    BY <2>1, <2>3 DEF GateCalls, GateCall, Cached, Key, TheLeaf
  <2> QED  BY <2>4, <2>5 DEF GateCalls
<1>3. ASSUME NEW how \in {"put", "enable", "disable"},
             NEW pol \in Configs \cup {policy}, NEW w \in Wants,
             ConfigWrite(how, pol, w)
      PROVE  GateCalls'
  <2>1. \A u \in Threads : LET c == call[u]  d == call'[u] IN
          /\ d.pc = c.pc /\ d.rec = c.rec /\ d.leaves = c.leaves
          /\ d.pol = c.pol /\ d.sec = c.sec /\ d.day = c.day
    BY <1>0, <1>3 DEF ConfigWrite, CallType
  <2>2. UNCHANGED <<cache, gate>>  BY <1>3 DEF ConfigWrite
  <2> QED  BY <2>1, <2>2 DEF GateCalls, GateCall, Cached, Key, TheLeaf
<1>4. CASE SetCap
  <2>1. cache' \subseteq cache /\ UNCHANGED <<gate, call>>
    BY <1>4 DEF SetCap, Evict
  <2> QED  BY <2>1 DEF GateCalls, GateCall, Cached, Key, TheLeaf
<1>5. CASE \/ ReconcileRead \/ ReconcileAct \/ Midnight \/ UNCHANGED maskVars
           \/ \E on \in BOOLEAN : SetEnabled(on)
           \/ \E set \in SUBSET Secrets : SetSecretRules(set)
           \/ \E ld \in loads, ok \in BOOLEAN : LoadEnds(ld, ok)
  <2>1. UNCHANGED <<cache, gate, call>>
    BY <1>5 DEF ReconcileRead, ReconcileAct, SetEnabled, LoadEnds, Midnight,
       SetSecretRules, maskVars, engineVars
  <2> QED  BY <2>1 DEF GateCalls, GateCall, Cached, Key, TheLeaf
<1> QED  BY <1>1, <1>2, <1>3, <1>4, <1>5 DEF MaskNext, Control

(***************************************************************************)
(* One inference at a time, under the gate, and only for a key nobody has  *)
(* cached meanwhile; and a runtime failure stays with the recognizer that  *)
(* failed.  SingleFlight is about keys as much as about the gate: a        *)
(* regex-only call inserts without the gate, under a key without a model.  *)
(***************************************************************************)
THEOREM MaskSlotIsSound == MaskSpec => []SlotIsSound
<1>1. MaskInit => Typed /\ SlotInv /\ CacheInv /\ GateCalls
  <2>1. MaskInit => GateCalls
    BY DEF MaskInit, GateCalls, GateCall, Idle
  <2> QED  BY <2>1, TypedInit, SlotInvInit, CacheInvInit
<1>2. (Typed /\ SlotInv /\ CacheInv /\ GateCalls) /\ [MaskNext]_maskVars
        => (Typed /\ SlotInv /\ CacheInv /\ GateCalls)'
  BY TypedStep, SlotInvStep, CacheInvStep, GateCallsStep
<1>3. GateCalls => SingleFlight
  BY DEF GateCalls, GateCall, SingleFlight, Hits
<1>4. SlotInv /\ GateCalls => SlotIsSound
  BY <1>3 DEF SlotInv, SlotIsSound
<1> QED  BY <1>1, <1>2, <1>4, PTL DEF MaskSpec
=============================================================================
