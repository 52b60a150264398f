------------------------------ MODULE PlanProofs ------------------------------
(***************************************************************************)
(* What PlanInputs states of the algorithms behind a submit, proved for    *)
(* every input: globs, conditions, workflows, matrices and logs of any     *)
(* length.                                                                 *)
(*                                                                         *)
(* An algorithm that loops is a recursive function here, and nothing is    *)
(* known of one until there is a function that satisfies its equation:     *)
(* every ...Equation lemma shows that, by a measure the recursion lowers   *)
(* (RecursionHasSolution).  The lemmas after it go by induction over that  *)
(* measure, as membership in the set G of the arguments the claim is true  *)
(* of (NatSetInduction, MeasureInduction).                                 *)
(***************************************************************************)
EXTENDS PlanInputs, FiniteSetTheorems, SequenceTheorems, WellFoundedInduction, TLAPS

-----------------------------------------------------------------------------
(* Induction over sets, and recursion by a bounded measure.                *)

LEMMA LeastNumber ==
    ASSUME NEW S \in SUBSET Nat, S # {}
    PROVE  \E x \in S : \A y \in S : x <= y
<1> DEFINE R == {ss \in Nat \X Nat : ss[1] < ss[2]}
<1>1. IsWellFoundedOn(R, Nat)
  BY NatLessThanWellFounded DEF OpToRel
<1>2. PICK x \in S : \A y \in S : ~(<<y, x>> \in R)
  <2> HIDE DEF R
  <2> QED BY <1>1, WFMin
<1>3. ASSUME NEW y \in S PROVE x <= y
  <2>1. x \in Nat /\ y \in Nat /\ <<y, x>> \in Nat \X Nat
    OBVIOUS
  <2>2. ~(y < x)
    BY <1>2, <2>1
  <2> QED BY <2>1, <2>2
<1> QED BY <1>3

(* Induction, on sets: G is the set of those the claim holds of.           *)
LEMMA NatSetInduction ==
    ASSUME NEW G, 0 \in G, \A n \in Nat : n \in G => n + 1 \in G
    PROVE  \A n \in Nat : n \in G
<1> DEFINE S == Nat \ G
<1> SUFFICES ASSUME S # {} PROVE FALSE
  OBVIOUS
<1>1. PICK x \in S : \A y \in S : x <= y
  <2>1. S \in SUBSET Nat
    OBVIOUS
  <2> HIDE DEF S
  <2> QED BY <2>1, LeastNumber
<1>2. x # 0 /\ x \in Nat
  OBVIOUS
<1>3. x - 1 \in Nat /\ ~(x <= x - 1)
  BY <1>2
<1>4. x - 1 \in G
  BY <1>1, <1>3
<1> QED BY <1>2, <1>3, <1>4

LEMMA MeasureInduction ==
    ASSUME NEW D, NEW m \in [D -> Nat], NEW G,
           \A x \in D : (\A y \in D : m[y] < m[x] => y \in G) => x \in G
    PROVE  \A x \in D : x \in G
<1> DEFINE S == {m[x] : x \in D \ G}
<1> SUFFICES ASSUME NEW x0 \in D, x0 \notin G PROVE FALSE
  OBVIOUS
<1>1. PICK k \in S : \A l \in S : k <= l
  <2>1. S \in SUBSET Nat /\ S # {}
    OBVIOUS
  <2> HIDE DEF S
  <2> QED BY <2>1, LeastNumber
<1>2. PICK x \in D \ G : m[x] = k
  OBVIOUS
<1>3. ASSUME NEW y \in D, m[y] < m[x] PROVE y \in G
  <2>1. m[y] \in Nat /\ m[x] \in Nat
    OBVIOUS
  <2>2. y \notin G => m[y] \in S
    OBVIOUS
  <2>3. y \notin G => m[x] <= m[y]
    <3> HIDE DEF S
    <3> QED BY <1>1, <1>2, <2>2
  <2> HIDE DEF S
  <2> QED BY <1>3, <2>1, <2>3
<1> QED BY <1>2, <1>3

(* F[x][f] is the right side of a recursive definition of f: it asks for   *)
(* the values of f below x only, in a bounded measure.                     *)
Descends(D, V, m, F) ==
    /\ V # {}
    /\ \E K \in Nat : m \in [D -> 0 .. K]
    /\ F \in [D -> [[D -> V] -> V]]
    /\ \A x \in D : \A g, h \in [D -> V] :
           (\A y \in D : m[y] < m[x] => g[y] = h[y]) => F[x][g] = F[x][h]

(* Then there is such an f.                                                *)
LEMMA RecursionHasSolution ==
    ASSUME NEW D, NEW V, NEW m, NEW F, Descends(D, V, m, F)
    PROVE  \E f \in [D -> V] : \A x \in D : f[x] = F[x][f]
<1>k. PICK K \in Nat : m \in [D -> 0 .. K]
  BY DEF Descends
<1>v. PICK v0 : v0 \in V
  BY DEF Descends
<1> DEFINE Upto(f, n) == \A x \in D : m[x] < n => f[x] = F[x][f]
           G == {n \in Nat : \E f \in [D -> V] : Upto(f, n)}
<1>0. \A x \in D : m[x] \in Nat /\ m[x] <= K
  BY <1>k
<1>1. 0 \in G
  <2>1. Upto([x \in D |-> v0], 0)
    BY <1>0
  <2> QED BY <1>v, <2>1
<1>2. ASSUME NEW n \in Nat, n \in G PROVE n + 1 \in G
  <2>1. PICK f \in [D -> V] : Upto(f, n)
    BY <1>2
  <2> DEFINE h == [x \in D |-> IF m[x] = n THEN F[x][f] ELSE f[x]]
  <2>2. h \in [D -> V]
    BY DEF Descends
  <2>3. ASSUME NEW x \in D, m[x] < n + 1 PROVE h[x] = F[x][h]
    <3>1. \A y \in D : m[y] < m[x] => f[y] = h[y]
      BY <1>0, <2>3
    <3>2. F[x][f] = F[x][h]
      <4> HIDE DEF h
      <4> QED BY <2>2, <3>1 DEF Descends
    <3>3. h[x] = F[x][f]
      <4>1. CASE m[x] < n
        <5>1. f[x] = F[x][f]
          BY <2>1, <4>1
        <5>2. m[x] # n
          BY <1>0, <4>1
        <5> QED BY <5>1, <5>2
      <4>2. CASE ~(m[x] < n)
        <5>1. m[x] = n
          BY <1>0, <2>3, <4>2
        <5> QED BY <5>1
      <4> QED BY <4>1, <4>2
    <3> QED BY <3>2, <3>3
  <2>4. Upto(h, n + 1)
    <3> HIDE DEF h
    <3> QED BY <2>3
  <2> HIDE DEF h
  <2> QED BY <2>2, <2>4
<1>3. K + 1 \in G
  <2> HIDE DEF G
  <2> QED BY <1>1, <1>2, NatSetInduction
<1>4. PICK f \in [D -> V] : Upto(f, K + 1)
  BY <1>3
<1> QED BY <1>0, <1>4
-----------------------------------------------------------------------------
(* Tilings, whatever the elements are: of L elements those in W cover any  *)
(* piece of the text, and element k covers its character l alone if <<k, l>>*)
(* is in E.  TilesFrom: elements i to L tile the text from j on.           *)

Covers(W, E, k, from, to) ==
    IF k \in W THEN from <= to ELSE to = from + 1 /\ <<k, to>> \in E

TilesFrom(W, E, L, n, i, j) ==
    \E c \in [i - 1 .. L -> 0 .. n] :
        /\ c[i - 1] = j - 1 /\ c[L] = n
        /\ \A k \in i .. L : Covers(W, E, k, c[k - 1], c[k])

LEMMA TilesEnd ==
    ASSUME NEW W, NEW E, NEW L \in Nat, NEW n \in Nat, NEW j \in 1 .. n + 1
    PROVE  TilesFrom(W, E, L, n, L + 1, j) <=> j = n + 1
<1>1. ASSUME j = n + 1 PROVE TilesFrom(W, E, L, n, L + 1, j)
  <2> DEFINE c == [k \in L .. L |-> n]
  <2>1. c \in [(L + 1) - 1 .. L -> 0 .. n] /\ c[(L + 1) - 1] = j - 1 /\ c[L] = n
    BY <1>1
  <2>2. \A k \in L + 1 .. L : FALSE
    OBVIOUS
  <2> HIDE DEF c
  <2> QED BY <2>1, <2>2 DEF TilesFrom
<1>2. ASSUME TilesFrom(W, E, L, n, L + 1, j) PROVE j = n + 1
  <2>1. PICK c \in [(L + 1) - 1 .. L -> 0 .. n] : c[(L + 1) - 1] = j - 1 /\ c[L] = n
    BY <1>2 DEF TilesFrom
  <2>2. (L + 1) - 1 = L
    OBVIOUS
  <2> QED BY <2>1, <2>2
<1> QED BY <1>1, <1>2

LEMMA TilesStep ==
    ASSUME NEW W, NEW E, NEW L \in Nat, NEW n \in Nat, NEW i \in 1 .. L, NEW j \in 1 .. n + 1
    PROVE  TilesFrom(W, E, L, n, i, j) <=>
               \E l \in 1 .. n + 1 : Covers(W, E, i, j - 1, l - 1) /\ TilesFrom(W, E, L, n, i + 1, l)
<1>1. ASSUME TilesFrom(W, E, L, n, i, j)
      PROVE  \E l \in 1 .. n + 1 : Covers(W, E, i, j - 1, l - 1) /\ TilesFrom(W, E, L, n, i + 1, l)
  <2>1. PICK c \in [i - 1 .. L -> 0 .. n] :
            /\ c[i - 1] = j - 1 /\ c[L] = n
            /\ \A k \in i .. L : Covers(W, E, k, c[k - 1], c[k])
    BY <1>1 DEF TilesFrom
  <2> DEFINE l == c[i] + 1
             d == [k \in (i + 1) - 1 .. L |-> c[k]]
  <2>2. i \in i - 1 .. L /\ c[i] \in 0 .. n
    OBVIOUS
  <2>3. l \in 1 .. n + 1 /\ l - 1 = c[i]
    BY <2>2
  <2>4. Covers(W, E, i, j - 1, l - 1)
    <3>1. Covers(W, E, i, c[i - 1], c[i])
      BY <2>1
    <3> QED BY <2>1, <2>3, <3>1
  <2>5. d \in [(i + 1) - 1 .. L -> 0 .. n] /\ d[(i + 1) - 1] = l - 1 /\ d[L] = n
    BY <2>1, <2>2
  <2>6. ASSUME NEW k \in i + 1 .. L PROVE Covers(W, E, k, d[k - 1], d[k])
    <3>1. k \in i .. L /\ k \in (i + 1) - 1 .. L /\ k - 1 \in (i + 1) - 1 .. L
      OBVIOUS
    <3>2. d[k - 1] = c[k - 1] /\ d[k] = c[k]
      BY <3>1
    <3> HIDE DEF d
    <3> QED BY <2>1, <3>1, <3>2
  <2>7. TilesFrom(W, E, L, n, i + 1, l)
    <3> HIDE DEF d, l
    <3> QED BY <2>5, <2>6 DEF TilesFrom
  <2> HIDE DEF l
  <2> QED BY <2>3, <2>4, <2>7
<1>2. ASSUME NEW l \in 1 .. n + 1, Covers(W, E, i, j - 1, l - 1), TilesFrom(W, E, L, n, i + 1, l)
      PROVE  TilesFrom(W, E, L, n, i, j)
  <2>1. PICK c \in [(i + 1) - 1 .. L -> 0 .. n] :
            /\ c[(i + 1) - 1] = l - 1 /\ c[L] = n
            /\ \A k \in i + 1 .. L : Covers(W, E, k, c[k - 1], c[k])
    BY <1>2 DEF TilesFrom
  <2>2. (i + 1) - 1 = i /\ c[i] = l - 1
    BY <2>1
  <2> DEFINE d == [k \in i - 1 .. L |-> IF k = i - 1 THEN j - 1 ELSE c[k]]
  <2>3. \A k \in i .. L : k # i - 1 /\ k \in (i + 1) - 1 .. L
    OBVIOUS
  <2>4. \A k \in i .. L : d[k] = c[k]
    BY <2>3
  <2>5. d \in [i - 1 .. L -> 0 .. n]
    <3>1. ASSUME NEW k \in i - 1 .. L PROVE d[k] \in 0 .. n
      <4>1. CASE k = i - 1
        BY <4>1
      <4>2. CASE k # i - 1
        <5>1. k \in i .. L
          BY <4>2
        <5> QED BY <2>3, <2>4, <5>1
      <4> QED BY <4>1, <4>2
    <3> QED BY <3>1
  <2>6. d[i - 1] = j - 1 /\ d[L] = n
    BY <2>1, <2>4
  <2>7. ASSUME NEW k \in i .. L PROVE Covers(W, E, k, d[k - 1], d[k])
    <3>1. CASE k = i
      BY <1>2, <2>2, <2>4, <2>6, <3>1
    <3>2. CASE k # i
      <4>1. k \in i + 1 .. L /\ k - 1 \in i .. L
        BY <3>2
      <4>2. d[k - 1] = c[k - 1] /\ d[k] = c[k]
        BY <2>4, <4>1
      <4> HIDE DEF d
      <4> QED BY <2>1, <4>1, <4>2
    <3> QED BY <3>1, <3>2
  <2> HIDE DEF d
  <2> QED BY <2>5, <2>6, <2>7 DEF TilesFrom
<1> QED BY <1>1, <1>2

(* The three ways a tiling begins.                                         *)
LEMMA TilesWild ==
    ASSUME NEW W, NEW E, NEW L \in Nat, NEW n \in Nat, NEW i \in 1 .. L, NEW j \in 1 .. n + 1, i \in W
    PROVE  TilesFrom(W, E, L, n, i, j) <=> \E l \in j .. n + 1 : TilesFrom(W, E, L, n, i + 1, l)
<1>1. TilesFrom(W, E, L, n, i, j) <=>
          \E l \in 1 .. n + 1 : Covers(W, E, i, j - 1, l - 1) /\ TilesFrom(W, E, L, n, i + 1, l)
  BY TilesStep
<1>2. ASSUME NEW l \in 1 .. n + 1 PROVE Covers(W, E, i, j - 1, l - 1) <=> l \in j .. n + 1
  BY DEF Covers
<1>3. \A l \in j .. n + 1 : l \in 1 .. n + 1
  OBVIOUS
<1> QED BY <1>1, <1>2, <1>3

LEMMA TilesOne ==
    ASSUME NEW W, NEW E, NEW L \in Nat, NEW n \in Nat, NEW i \in 1 .. L, NEW j \in 1 .. n + 1, i \notin W
    PROVE  TilesFrom(W, E, L, n, i, j) <=> j <= n /\ <<i, j>> \in E /\ TilesFrom(W, E, L, n, i + 1, j + 1)
<1>1. ASSUME NEW l \in 1 .. n + 1
      PROVE  Covers(W, E, i, j - 1, l - 1) <=> l = j + 1 /\ <<i, j>> \in E
  BY DEF Covers
<1>2. j + 1 \in 1 .. n + 1 <=> j <= n
  OBVIOUS
<1>3. TilesFrom(W, E, L, n, i, j) <=>
          \E l \in 1 .. n + 1 : Covers(W, E, i, j - 1, l - 1) /\ TilesFrom(W, E, L, n, i + 1, l)
  BY TilesStep
<1> QED BY <1>1, <1>2, <1>3

(* Once the text is used up, only wildcards may be left.                   *)
LEMMA TilesAtEnd ==
    ASSUME NEW W, NEW E, NEW L \in Nat, NEW n \in Nat, NEW i \in 1 .. L + 1
    PROVE  TilesFrom(W, E, L, n, i, n + 1) <=> i .. L \subseteq W
<1> DEFINE D == 1 .. L + 1
           m == [k \in D |-> L + 1 - k]
           G == {k \in D : TilesFrom(W, E, L, n, k, n + 1) <=> k .. L \subseteq W}
<1>1. ASSUME NEW k \in D, \A l \in D : m[l] < m[k] => l \in G PROVE k \in G
  <2>1. CASE k = L + 1
    BY <2>1, TilesEnd
  <2>2. CASE k # L + 1
    <3>1. k \in 1 .. L /\ k + 1 \in D /\ m[k + 1] < m[k]
      BY <2>2
    <3>2. TilesFrom(W, E, L, n, k + 1, n + 1) <=> k + 1 .. L \subseteq W
      BY <1>1, <3>1
    <3>3. n + 1 \in 1 .. n + 1 /\ ~(n + 1 <= n) /\ \A l \in n + 1 .. n + 1 : l = n + 1
      OBVIOUS
    <3>4. k .. L \subseteq W <=> k \in W /\ k + 1 .. L \subseteq W
      BY <3>1
    <3>5. CASE k \in W
      <4>1. TilesFrom(W, E, L, n, k, n + 1) <=> TilesFrom(W, E, L, n, k + 1, n + 1)
        BY <3>1, <3>3, <3>5, TilesWild
      <4> QED BY <3>2, <3>4, <3>5, <4>1
    <3>6. CASE k \notin W
      <4>1. ~TilesFrom(W, E, L, n, k, n + 1)
        BY <3>1, <3>3, <3>6, TilesOne
      <4> QED BY <3>4, <3>6, <4>1
    <3> QED BY <3>5, <3>6
  <2> QED BY <2>1, <2>2
<1>2. m \in [D -> Nat]
  OBVIOUS
<1>3. \A k \in D : k \in G
  <2> HIDE DEF D, m, G
  <2> QED BY <1>1, <1>2, MeasureInduction
<1> QED BY <1>3

-----------------------------------------------------------------------------
(* match_segment.  The loop ends: either the star moves on in the text, or *)
(* the pattern position does.                                              *)

LoopBody(p, s, f, x) ==
    LET pi == x[1]  ti == x[2]  sp == x[3]  st == x[4] IN
    IF ti > Len(s) THEN \A k \in pi .. Len(p) : p[k] = "*"
    ELSE IF pi <= Len(p) /\ p[pi] = "*" THEN f[<<pi + 1, ti, pi, ti>>]
    ELSE IF pi <= Len(p) /\ p[pi] \in {"?", s[ti]} THEN f[<<pi + 1, ti + 1, sp, st>>]
    ELSE sp # 0 /\ f[<<sp + 1, st + 1, sp, st + 1>>]

LoopMeasure(L, n, x) == (n + 2 - x[4]) * (L + 2) + (L + 1 - x[1])

LEMMA Lexicographic ==
    ASSUME NEW a \in Nat, NEW b \in Nat, NEW c \in Nat, NEW x \in Nat, NEW y \in Nat, b < a, x < c
    PROVE  b * c + x < a * c + y
OBVIOUS

LEMMA ProductGrows ==
    ASSUME NEW a \in Nat, NEW b \in Nat, NEW c \in Nat, a <= b
    PROVE  a * c \in Nat /\ b * c \in Nat /\ a * c <= b * c
OBVIOUS

LEMMA LoopMeasureBounded ==
    ASSUME NEW L \in Nat, NEW n \in Nat, NEW pi \in 1 .. L + 1, NEW st \in 0 .. n + 1
    PROVE  (n + 2 - st) * (L + 2) + (L + 1 - pi) \in 0 .. (n + 2) * (L + 2) + L
<1>1. n + 2 - st \in Nat /\ n + 2 - st <= n + 2 /\ n + 2 \in Nat /\ L + 2 \in Nat /\ L + 1 - pi \in 0 .. L
  OBVIOUS
<1>2. PICK a \in Nat : a = (n + 2 - st) * (L + 2)
  BY <1>1, ProductGrows
<1>3. PICK b \in Nat : b = (n + 2) * (L + 2)
  BY <1>1, ProductGrows
<1>4. a <= b
  BY <1>1, <1>2, <1>3, ProductGrows
<1> QED BY <1>1, <1>2, <1>3, <1>4

(* The position each branch goes on with is one, and is lower.             *)
LEMMA LoopDescends ==
    ASSUME NEW C, NEW p \in Seq(C), NEW s \in Seq(C), NEW x \in Positions(p, s), ~(x[2] > Len(s))
    PROVE  LET D == Positions(p, s)
               m(y) == LoopMeasure(Len(p), Len(s), y)
               pi == x[1]  ti == x[2]  sp == x[3]  st == x[4]
           IN  /\ pi <= Len(p) =>
                      /\ <<pi + 1, ti, pi, ti>> \in D /\ m(<<pi + 1, ti, pi, ti>>) < m(x)
                      /\ <<pi + 1, ti + 1, sp, st>> \in D /\ m(<<pi + 1, ti + 1, sp, st>>) < m(x)
               /\ <<sp + 1, st + 1, sp, st + 1>> \in D /\ m(<<sp + 1, st + 1, sp, st + 1>>) < m(x)
<1> DEFINE L == Len(p)
           n == Len(s)
           pi == x[1]
           ti == x[2]
           sp == x[3]
           st == x[4]
<1>0. L \in Nat /\ n \in Nat
  OBVIOUS
<1>1. pi \in 1 .. L + 1 /\ ti \in 1 .. n /\ sp \in 0 .. L /\ st \in 0 .. n + 1 /\ st <= ti
  BY DEF Positions
<1>2. <<sp + 1, st + 1, sp, st + 1>> \in Positions(p, s)
  <2> HIDE DEF pi, ti, sp, st
  <2> QED BY <1>0, <1>1 DEF Positions
<1>3. pi <= L => <<pi + 1, ti, pi, ti>> \in Positions(p, s) /\ <<pi + 1, ti + 1, sp, st>> \in Positions(p, s)
  <2> HIDE DEF pi, ti, sp, st
  <2> QED BY <1>0, <1>1 DEF Positions
<1> HIDE DEF L, n, pi, ti, sp, st
<1>4. ASSUME NEW q \in 1 .. L + 1, NEW t \in st .. n + 1, t > st \/ q > pi
      PROVE  (n + 2 - t) * (L + 2) + (L + 1 - q) < (n + 2 - st) * (L + 2) + (L + 1 - pi)
  <2>1. /\ n + 2 - t \in Nat /\ n + 2 - st \in Nat /\ L + 2 \in Nat
        /\ L + 1 - q \in Nat /\ L + 1 - pi \in Nat /\ L + 1 - q < L + 2
    BY <1>0, <1>1
  <2>2. CASE t > st
    <3>1. n + 2 - t < n + 2 - st
      BY <1>0, <1>1, <2>2
    <3> QED BY <2>1, <3>1, Lexicographic
  <2>3. CASE t = st
    <3>1. L + 1 - q < L + 1 - pi
      BY <1>0, <1>1, <1>4, <2>3
    <3>2. PICK a \in Nat : a = (n + 2 - st) * (L + 2)
      BY <2>1, ProductGrows
    <3> QED BY <2>1, <2>3, <3>1, <3>2
  <2> QED BY <1>0, <1>1, <2>2, <2>3
<1>5. (n + 2 - (st + 1)) * (L + 2) + (L + 1 - (sp + 1)) < (n + 2 - st) * (L + 2) + (L + 1 - pi)
  <2>1. sp + 1 \in 1 .. L + 1 /\ st + 1 \in st .. n + 1 /\ st + 1 > st
    BY <1>0, <1>1
  <2> QED BY <1>4, <2>1
<1>6. ASSUME pi <= L
      PROVE  /\ (n + 2 - ti) * (L + 2) + (L + 1 - (pi + 1)) < (n + 2 - st) * (L + 2) + (L + 1 - pi)
             /\ (n + 2 - st) * (L + 2) + (L + 1 - (pi + 1)) < (n + 2 - st) * (L + 2) + (L + 1 - pi)
  <2>1. pi + 1 \in 1 .. L + 1 /\ ti \in st .. n + 1 /\ st \in st .. n + 1 /\ pi + 1 > pi
    BY <1>0, <1>1, <1>6
  <2> QED BY <1>4, <2>1
<1>7. /\ <<pi + 1, ti, pi, ti>>[1] = pi + 1 /\ <<pi + 1, ti, pi, ti>>[4] = ti
      /\ <<pi + 1, ti + 1, sp, st>>[1] = pi + 1 /\ <<pi + 1, ti + 1, sp, st>>[4] = st
      /\ <<sp + 1, st + 1, sp, st + 1>>[1] = sp + 1 /\ <<sp + 1, st + 1, sp, st + 1>>[4] = st + 1
  OBVIOUS
<1> QED BY <1>2, <1>3, <1>5, <1>6, <1>7 DEF LoopMeasure, L, n, pi, ti, sp, st

LEMMA LoopEquation ==
    ASSUME NEW C, NEW p \in Seq(C), NEW s \in Seq(C), NEW x \in Positions(p, s)
    PROVE  SegmentLoop(p, s)[x] = LoopBody(p, s, SegmentLoop(p, s), x)
<1> DEFINE D == Positions(p, s)
           V == BOOLEAN
           m == [y \in D |-> LoopMeasure(Len(p), Len(s), y)]
           F == [y \in D |-> [f \in [D -> V] |-> LoopBody(p, s, f, y)]]
           K == (Len(s) + 2) * (Len(p) + 2) + Len(p)
<1>1. m \in [D -> 0 .. K] /\ K \in Nat
  <2>1. ASSUME NEW y \in D PROVE LoopMeasure(Len(p), Len(s), y) \in 0 .. K
    <3>1. y[1] \in 1 .. Len(p) + 1 /\ y[4] \in 0 .. Len(s) + 1 /\ Len(p) \in Nat /\ Len(s) \in Nat
      BY DEF Positions
    <3> QED BY <3>1, LoopMeasureBounded DEF LoopMeasure
  <2>2. K \in Nat
    <3>1. Len(s) + 2 \in Nat /\ Len(p) + 2 \in Nat /\ Len(p) \in Nat
      OBVIOUS
    <3>2. (Len(s) + 2) * (Len(p) + 2) \in Nat
      BY <3>1, ProductGrows
    <3> QED BY <3>1, <3>2
  <2> HIDE DEF K, D
  <2> QED BY <2>1, <2>2
<1>2. ASSUME NEW y \in D, NEW f \in [D -> V] PROVE LoopBody(p, s, f, y) \in BOOLEAN
  <2>1. ~(y[2] > Len(s)) => /\ y[1] <= Len(p) => <<y[1] + 1, y[2], y[1], y[2]>> \in D
                            /\ y[1] <= Len(p) => <<y[1] + 1, y[2] + 1, y[3], y[4]>> \in D
                            /\ <<y[3] + 1, y[4] + 1, y[3], y[4] + 1>> \in D
    BY LoopDescends
  <2> HIDE DEF D
  <2> QED BY <2>1 DEF LoopBody
<1>3. ASSUME NEW y \in D, NEW g \in [D -> V], NEW h \in [D -> V], \A z \in D : m[z] < m[y] => g[z] = h[z]
      PROVE  LoopBody(p, s, g, y) = LoopBody(p, s, h, y)
  <2>1. ASSUME NEW z \in D, LoopMeasure(Len(p), Len(s), z) < LoopMeasure(Len(p), Len(s), y)
        PROVE  g[z] = h[z]
    BY <1>3, <2>1
  <2>2. ~(y[2] > Len(s)) =>
            /\ y[1] <= Len(p) => g[<<y[1] + 1, y[2], y[1], y[2]>>] = h[<<y[1] + 1, y[2], y[1], y[2]>>]
            /\ y[1] <= Len(p) => g[<<y[1] + 1, y[2] + 1, y[3], y[4]>>] = h[<<y[1] + 1, y[2] + 1, y[3], y[4]>>]
            /\ g[<<y[3] + 1, y[4] + 1, y[3], y[4] + 1>>] = h[<<y[3] + 1, y[4] + 1, y[3], y[4] + 1>>]
    <3> HIDE DEF m
    <3> QED BY <2>1, LoopDescends
  <2> HIDE DEF D, m
  <2> QED BY <2>2 DEF LoopBody
<1>4. Descends(D, V, m, F)
  <2>1. F \in [D -> [[D -> V] -> V]]
    <3> HIDE DEF D
    <3> QED BY <1>2
  <2>2. \A y \in D : \A f \in [D -> V] : F[y][f] = LoopBody(p, s, f, y)
    <3> HIDE DEF D
    <3> QED OBVIOUS
  <2>3. \A y \in D : \A g, h \in [D -> V] :
            (\A z \in D : m[z] < m[y] => g[z] = h[z]) => F[y][g] = F[y][h]
    <3> HIDE DEF D, F, m, V
    <3> QED BY <1>3, <2>2
  <2>4. V # {} /\ \E k \in Nat : m \in [D -> 0 .. k]
    <3> HIDE DEF D, m, K
    <3> QED BY <1>1
  <2> HIDE DEF D, F, m, V
  <2> QED BY <2>1, <2>3, <2>4 DEF Descends
<1>5. PICK f \in [D -> V] : \A y \in D : f[y] = F[y][f]
  <2> HIDE DEF D, F, m, V
  <2> QED BY <1>4, RecursionHasSolution
<1>6. f = [y \in D |-> LoopBody(p, s, f, y)]
  <2>1. \A y \in D : f[y] = LoopBody(p, s, f, y)
    <3> HIDE DEF D
    <3> QED BY <1>5
  <2> HIDE DEF D, F, V
  <2> QED BY <2>1
<1>7. SegmentLoop(p, s) = CHOOSE g : g = [y \in D |-> LoopBody(p, s, g, y)]
  BY DEF SegmentLoop, LoopBody
<1>8. SegmentLoop(p, s) = [y \in D |-> LoopBody(p, s, SegmentLoop(p, s), y)]
  <2> HIDE DEF D
  <2> QED BY <1>6, <1>7
<1> HIDE DEF D
<1> QED BY <1>8 DEF D

-----------------------------------------------------------------------------
(* What the loop finds out: whether the rest of the pattern tiles the rest *)
(* of the text, or would if the last "*" took more.                        *)

Wild(p) == {k \in 1 .. Len(p) : p[k] = "*"}
Agrees(p, s) == {e \in (1 .. Len(p)) \X (1 .. Len(s)) : p[e[1]] \in {"?", s[e[2]]}}
Tiled(p, s, i, j) == TilesFrom(Wild(p), Agrees(p, s), Len(p), Len(s), i, j)

LEMMA SegmentTilesFrom ==
    ASSUME NEW C, NEW p \in Seq(C), NEW s \in Seq(C)
    PROVE  SegmentTiles(p, s) <=> Tiled(p, s, 1, 1)
<1> DEFINE L == Len(p)
           n == Len(s)
           Piece(c, i) == IF p[i] = "*" THEN c[i - 1] <= c[i] ELSE c[i] = c[i - 1] + 1 /\ p[i] \in {"?", s[c[i]]}
<1>0. L \in Nat /\ n \in Nat /\ 1 - 1 = 0
  OBVIOUS
<1>1. ASSUME NEW c \in [0 .. L -> 0 .. n], NEW i \in 1 .. L
      PROVE  Piece(c, i) <=> Covers(Wild(p), Agrees(p, s), i, c[i - 1], c[i])
  <2>1. c[i - 1] \in 0 .. n /\ c[i] \in 0 .. n
    <3> HIDE DEF L, n
    <3>1. i - 1 \in 0 .. L /\ i \in 0 .. L
      BY <1>0
    <3> QED BY <3>1
  <2>2. i \in Wild(p) <=> p[i] = "*"
    BY DEF Wild
  <2>3. c[i] = c[i - 1] + 1 => (<<i, c[i]>> \in Agrees(p, s) <=> p[i] \in {"?", s[c[i]]})
    BY <2>1 DEF Agrees
  <2> QED BY <2>2, <2>3 DEF Covers
<1>2. SegmentTiles(p, s) <=>
          \E c \in [0 .. L -> 0 .. n] : c[0] = 0 /\ c[L] = n /\ \A i \in 1 .. L : Piece(c, i)
  BY DEF SegmentTiles, Cuts
<1>3. Tiled(p, s, 1, 1) <=>
          \E c \in [0 .. L -> 0 .. n] :
              c[0] = 0 /\ c[L] = n /\ \A i \in 1 .. L : Covers(Wild(p), Agrees(p, s), i, c[i - 1], c[i])
  BY <1>0 DEF Tiled, TilesFrom
<1> HIDE DEF Piece
<1> QED BY <1>1, <1>2, <1>3

(* A tiling that has passed d plain elements has passed d characters.      *)
LEMMA PlainRun ==
    ASSUME NEW W, NEW E, NEW L \in Nat, NEW n \in Nat, NEW a \in 1 .. L + 1, NEW j \in 1 .. n + 1,
           TilesFrom(W, E, L, n, a, j), NEW e \in Nat, a + e <= L + 1, \A k \in a .. a + e - 1 : k \notin W
    PROVE  j + e <= n + 1 /\ TilesFrom(W, E, L, n, a + e, j + e)
<1> DEFINE G == {d \in Nat : d <= e => j + d <= n + 1 /\ TilesFrom(W, E, L, n, a + d, j + d)}
<1>1. 0 \in G
  <2>1. a + 0 = a /\ j + 0 = j
    OBVIOUS
  <2> QED BY <2>1
<1>2. ASSUME NEW d \in Nat, d \in G PROVE d + 1 \in G
  <2> SUFFICES ASSUME d + 1 <= e PROVE j + (d + 1) <= n + 1 /\ TilesFrom(W, E, L, n, a + (d + 1), j + (d + 1))
    OBVIOUS
  <2>1. j + d <= n + 1 /\ TilesFrom(W, E, L, n, a + d, j + d)
    BY <1>2
  <2>2. a + d \in 1 .. L /\ j + d \in 1 .. n + 1 /\ a + d \in a .. a + e - 1
    BY <2>1
  <2>3. j + d <= n /\ TilesFrom(W, E, L, n, (a + d) + 1, (j + d) + 1)
    BY <2>1, <2>2, TilesOne
  <2>4. (a + d) + 1 = a + (d + 1) /\ (j + d) + 1 = j + (d + 1)
    OBVIOUS
  <2>5. j + (d + 1) <= n + 1
    BY <2>3
  <2> QED BY <2>3, <2>4, <2>5
<1>3. e \in G
  <2> HIDE DEF G
  <2> QED BY <1>1, <1>2, NatSetInduction
<1> QED BY <1>3

(* The elements since the last "*" are plain and each took one character.  *)
LoopOK(p, x) ==
    x[3] # 0 =>
        /\ p[x[3]] = "*" /\ x[3] < x[1] /\ x[4] >= 1
        /\ x[1] - x[3] - 1 = x[2] - x[4]
        /\ \A k \in x[3] + 1 .. x[1] - 1 : p[k] # "*"

Resumes(p, s, x) == x[3] # 0 /\ \E j \in x[4] + 1 .. Len(s) + 1 : Tiled(p, s, x[3] + 1, j)
Finds(p, s, x) == Tiled(p, s, x[1], x[2]) \/ Resumes(p, s, x)

(* Letting the "*" take more only pushes the rest further back.            *)
LEMMA TilesLater ==
    ASSUME NEW W, NEW E, NEW L \in Nat, NEW n \in Nat, NEW pi \in 1 .. L + 1, NEW ti \in 1 .. n + 1,
           NEW sp \in 1 .. L, NEW st \in 1 .. n + 1, sp < pi, pi - sp - 1 = ti - st,
           \A k \in sp + 1 .. pi - 1 : k \notin W,
           NEW j \in st + 1 .. n + 1, TilesFrom(W, E, L, n, sp + 1, j)
    PROVE  \E l \in ti + 1 .. n + 1 : TilesFrom(W, E, L, n, pi, l)
<1>1. sp + 1 \in 1 .. L + 1 /\ pi - sp - 1 \in Nat /\ j \in 1 .. n + 1
  OBVIOUS
<1>2. PICK a \in 1 .. L + 1 : a = sp + 1
  BY <1>1
<1>3. PICK e \in Nat : e = pi - sp - 1
  BY <1>1
<1>4. a + e = pi /\ a + e <= L + 1 /\ e = ti - st
  BY <1>2, <1>3
<1>5. \A k \in a .. a + e - 1 : k \notin W
  BY <1>2, <1>4
<1>6. j + e <= n + 1 /\ TilesFrom(W, E, L, n, a + e, j + e)
  BY <1>1, <1>2, <1>4, <1>5, PlainRun
<1>7. j + e \in ti + 1 .. n + 1
  BY <1>4, <1>6
<1> QED BY <1>4, <1>6, <1>7

LEMMA ResumesLater ==
    ASSUME NEW C, NEW p \in Seq(C), NEW s \in Seq(C), NEW x \in Positions(p, s), LoopOK(p, x), Resumes(p, s, x)
    PROVE  \E l \in x[2] + 1 .. Len(s) + 1 : Tiled(p, s, x[1], l)
<1> DEFINE L == Len(p)
           n == Len(s)
           pi == x[1]
           ti == x[2]
           sp == x[3]
           st == x[4]
<1>0. L \in Nat /\ n \in Nat
  OBVIOUS
<1>1. pi \in 1 .. L + 1 /\ ti \in 1 .. n + 1 /\ sp \in 0 .. L /\ st \in 0 .. n + 1 /\ st <= ti
  BY DEF Positions
<1>2. sp # 0 /\ st >= 1 /\ sp < pi /\ pi - sp - 1 = ti - st /\ \A k \in sp + 1 .. pi - 1 : p[k] # "*"
  BY DEF LoopOK, Resumes
<1>3. PICK j \in st + 1 .. n + 1 : TilesFrom(Wild(p), Agrees(p, s), L, n, sp + 1, j)
  BY DEF Resumes, Tiled
<1>4. \A k \in sp + 1 .. pi - 1 : k \notin Wild(p)
  BY <1>2 DEF Wild
<1> HIDE DEF L, n, pi, ti, sp, st
<1>5. sp \in 1 .. L /\ st \in 1 .. n + 1
  BY <1>0, <1>1, <1>2
<1>6. \E l \in ti + 1 .. n + 1 : TilesFrom(Wild(p), Agrees(p, s), L, n, pi, l)
  BY <1>0, <1>1, <1>2, <1>3, <1>4, <1>5, TilesLater
<1> QED BY <1>6 DEF Tiled, L, n, pi, ti

LEMMA LoopFinds ==
    ASSUME NEW C, NEW p \in Seq(C), NEW s \in Seq(C)
    PROVE  \A x \in Positions(p, s) : LoopOK(p, x) => SegmentLoop(p, s)[x] = Finds(p, s, x)
<1> DEFINE D == Positions(p, s)
           L == Len(p)
           n == Len(s)
           f == SegmentLoop(p, s)
           m == [x \in D |-> LoopMeasure(L, n, x)]
           G == {x \in D : LoopOK(p, x) => f[x] = Finds(p, s, x)}
<1>0. L \in Nat /\ n \in Nat
  OBVIOUS
<1>1. ASSUME NEW x \in D, LoopOK(p, x), \A y \in D : LoopMeasure(L, n, y) < LoopMeasure(L, n, x) => y \in G
      PROVE  f[x] = Finds(p, s, x)
  <2> DEFINE pi == x[1]
             ti == x[2]
             sp == x[3]
             st == x[4]
  <2>1. pi \in 1 .. L + 1 /\ ti \in 1 .. n + 1 /\ sp \in 0 .. L /\ st \in 0 .. n + 1 /\ st <= ti
    BY DEF Positions
  <2>2. f[x] = LoopBody(p, s, f, x)
    BY LoopEquation
  <2>3. \A k \in 1 .. L : k \in Wild(p) <=> p[k] = "*"
    BY DEF Wild
  <2>4. CASE ti > n
    <3>1. ti = n + 1
      BY <1>0, <2>1, <2>4
    <3>2. ~Resumes(p, s, x)
      <4>1. \A l \in ti + 1 .. n + 1 : FALSE
        BY <1>0, <3>1
      <4> QED BY <1>1, <4>1, ResumesLater
    <3>3. Tiled(p, s, pi, ti) <=> pi .. L \subseteq Wild(p)
      <4>1. TilesFrom(Wild(p), Agrees(p, s), L, n, pi, n + 1) <=> pi .. L \subseteq Wild(p)
        <5> HIDE DEF L, n, pi
        <5> QED BY <1>0, <2>1, TilesAtEnd
      <4> QED BY <3>1, <4>1 DEF Tiled
    <3>4. pi .. L \subseteq Wild(p) <=> \A k \in pi .. L : p[k] = "*"
      BY <1>0, <2>1, <2>3
    <3>5. f[x] = (\A k \in pi .. L : p[k] = "*")
      BY <2>2, <2>4 DEF LoopBody
    <3> QED BY <3>2, <3>3, <3>4, <3>5 DEF Finds
  <2>5. CASE ~(ti > n) /\ pi <= L /\ p[pi] = "*"
    <3> DEFINE y == <<pi + 1, ti, pi, ti>>
    <3>1. y \in D /\ y \in G
      BY <1>1, <2>5, LoopDescends
    <3>2. y[1] = pi + 1 /\ y[2] = ti /\ y[3] = pi /\ y[4] = ti
      OBVIOUS
    <3>3. f[x] = f[y]
      BY <2>2, <2>5 DEF LoopBody
    <3> HIDE DEF y
    <3>4. LoopOK(p, y)
      BY <1>0, <2>1, <2>5, <3>2 DEF LoopOK
    <3>5. f[x] = Finds(p, s, y)
      BY <3>1, <3>3, <3>4
    <3>6. pi \in 1 .. L /\ ti \in 1 .. n + 1 /\ pi \in Wild(p) /\ pi # 0
      BY <1>0, <2>1, <2>3, <2>5
    <3>7. Tiled(p, s, pi, ti) <=> \E l \in ti .. n + 1 : Tiled(p, s, pi + 1, l)
      <4>1. TilesFrom(Wild(p), Agrees(p, s), L, n, pi, ti) <=>
                \E l \in ti .. n + 1 : TilesFrom(Wild(p), Agrees(p, s), L, n, pi + 1, l)
        <5> HIDE DEF L, n, pi, ti
        <5> QED BY <1>0, <3>6, TilesWild
      <4> QED BY <4>1 DEF Tiled
    <3>8. Finds(p, s, y) <=> Tiled(p, s, pi, ti)
      <4>1. \A l \in ti .. n + 1 : l = ti \/ l \in ti + 1 .. n + 1
        <5> HIDE DEF n, ti
        <5> QED BY <1>0, <3>6
      <4>2. ti \in ti .. n + 1 /\ \A l \in ti + 1 .. n + 1 : l \in ti .. n + 1
        <5> HIDE DEF n, ti
        <5> QED BY <1>0, <3>6
      <4> QED BY <3>2, <3>6, <3>7, <4>1, <4>2 DEF Finds, Resumes
    <3>9. Resumes(p, s, x) => Tiled(p, s, pi, ti)
      <4> SUFFICES ASSUME Resumes(p, s, x) PROVE Tiled(p, s, pi, ti)
        OBVIOUS
      <4>1. PICK l \in ti + 1 .. n + 1 : Tiled(p, s, pi, l)
        BY <1>1, ResumesLater
      <4>2. l \in 1 .. n + 1
        <5> HIDE DEF n, ti
        <5> QED BY <1>0, <3>6
      <4>3. PICK k \in l .. n + 1 : Tiled(p, s, pi + 1, k)
        <5>1. TilesFrom(Wild(p), Agrees(p, s), L, n, pi, l) <=>
                  \E k \in l .. n + 1 : TilesFrom(Wild(p), Agrees(p, s), L, n, pi + 1, k)
          <6> HIDE DEF L, n, pi, ti
          <6> QED BY <1>0, <3>6, <4>2, TilesWild
        <5> QED BY <4>1, <5>1 DEF Tiled
      <4>4. k \in ti .. n + 1
        <5> HIDE DEF n, ti
        <5> QED BY <1>0, <3>6, <4>1, <4>2, <4>3
      <4> QED BY <3>7, <4>3, <4>4
    <3>10. Finds(p, s, y) = Finds(p, s, x)
      BY <3>8, <3>9 DEF Finds, Resumes
    <3> QED BY <3>5, <3>10
  <2>6. CASE ~(ti > n) /\ pi <= L /\ p[pi] # "*" /\ p[pi] \in {"?", s[ti]}
    <3> DEFINE y == <<pi + 1, ti + 1, sp, st>>
    <3>1. y \in D /\ y \in G
      BY <1>1, <2>6, LoopDescends
    <3>2. y[1] = pi + 1 /\ y[2] = ti + 1 /\ y[3] = sp /\ y[4] = st
      OBVIOUS
    <3>3. f[x] = f[y]
      BY <2>2, <2>6 DEF LoopBody
    <3> HIDE DEF y
    <3>4. LoopOK(p, y)
      <4> SUFFICES ASSUME sp # 0 PROVE LoopOK(p, y)
        BY <3>2 DEF LoopOK
      <4>1. p[sp] = "*" /\ sp < pi /\ st >= 1 /\ pi - sp - 1 = ti - st /\ \A k \in sp + 1 .. pi - 1 : p[k] # "*"
        BY <1>1 DEF LoopOK
      <4>2. \A k \in sp + 1 .. (pi + 1) - 1 : k = pi \/ k \in sp + 1 .. pi - 1
        <5> HIDE DEF L, n, pi, ti, sp, st
        <5> QED BY <1>0, <2>1
      <4>3. sp < pi + 1 /\ (pi + 1) - sp - 1 = (ti + 1) - st
        <5> HIDE DEF L, n, pi, ti, sp, st
        <5> QED BY <1>0, <2>1, <4>1
      <4> HIDE DEF pi, ti, sp, st
      <4> QED BY <2>6, <3>2, <4>1, <4>2, <4>3 DEF LoopOK
    <3>5. f[x] = Finds(p, s, y)
      BY <3>1, <3>3, <3>4
    <3>6. pi \in 1 .. L /\ ti \in 1 .. n /\ pi \notin Wild(p) /\ <<pi, ti>> \in Agrees(p, s)
      BY <1>0, <2>1, <2>3, <2>6 DEF Agrees
    <3>7. Tiled(p, s, pi, ti) <=> Tiled(p, s, pi + 1, ti + 1)
      <4>1. TilesFrom(Wild(p), Agrees(p, s), L, n, pi, ti) <=>
                ti <= n /\ <<pi, ti>> \in Agrees(p, s) /\ TilesFrom(Wild(p), Agrees(p, s), L, n, pi + 1, ti + 1)
        <5> HIDE DEF L, n, pi, ti
        <5>1. ti \in 1 .. n + 1
          BY <1>0, <2>1
        <5> QED BY <1>0, <3>6, <5>1, TilesOne
      <4> QED BY <3>6, <4>1 DEF Tiled
    <3>8. Finds(p, s, y) = Finds(p, s, x)
      BY <3>2, <3>7 DEF Finds, Resumes
    <3> QED BY <3>5, <3>8
  <2>7. CASE ~(ti > n) /\ ~(pi <= L /\ (p[pi] = "*" \/ p[pi] \in {"?", s[ti]}))
    <3> DEFINE y == <<sp + 1, st + 1, sp, st + 1>>
    <3>1. y \in D /\ y \in G
      BY <1>1, <2>7, LoopDescends
    <3>2. y[1] = sp + 1 /\ y[2] = st + 1 /\ y[3] = sp /\ y[4] = st + 1
      OBVIOUS
    <3>3. f[x] = (sp # 0 /\ f[y])
      BY <2>2, <2>7 DEF LoopBody
    <3> HIDE DEF y
    <3>4. ~Tiled(p, s, pi, ti)
      <4>1. CASE pi = L + 1
        <5>1. TilesFrom(Wild(p), Agrees(p, s), L, n, L + 1, ti) <=> ti = n + 1
          <6> HIDE DEF L, n, pi, ti
          <6> QED BY <1>0, <2>1, TilesEnd
        <5> QED BY <1>0, <2>1, <2>7, <4>1, <5>1 DEF Tiled
      <4>2. CASE pi # L + 1
        <5>1. pi \in 1 .. L /\ pi \notin Wild(p) /\ <<pi, ti>> \notin Agrees(p, s)
          BY <1>0, <2>1, <2>3, <2>7, <4>2 DEF Agrees
        <5>2. ~TilesFrom(Wild(p), Agrees(p, s), L, n, pi, ti)
          <6> HIDE DEF L, n, pi, ti
          <6> QED BY <1>0, <2>1, <5>1, TilesOne
        <5> QED BY <5>2 DEF Tiled
      <4> QED BY <4>1, <4>2
    <3>5. CASE sp = 0
      BY <3>3, <3>4, <3>5 DEF Finds, Resumes
    <3>6. CASE sp # 0
      <4>1. LoopOK(p, y)
        <5>1. p[sp] = "*"
          BY <1>1, <3>6 DEF LoopOK
        <5>2. /\ sp < sp + 1 /\ st + 1 >= 1 /\ (sp + 1) - sp - 1 = (st + 1) - (st + 1)
              /\ \A k \in sp + 1 .. (sp + 1) - 1 : FALSE
          <6> HIDE DEF L, n, pi, ti, sp, st
          <6> QED BY <1>0, <2>1
        <5> HIDE DEF sp, st
        <5> QED BY <3>2, <5>1, <5>2 DEF LoopOK
      <4>2. f[x] = Finds(p, s, y)
        BY <3>1, <3>3, <3>6, <4>1 DEF Finds, Resumes
      <4>3. \A l \in st + 1 .. n + 1 : l = st + 1 \/ l \in (st + 1) + 1 .. n + 1
        <5> HIDE DEF n, ti, st
        <5> QED BY <1>0, <2>1
      <4>4. st + 1 \in st + 1 .. n + 1 /\ \A l \in (st + 1) + 1 .. n + 1 : l \in st + 1 .. n + 1
        <5> HIDE DEF n, ti, st
        <5> QED BY <1>0, <2>1, <2>7
      <4>5. Finds(p, s, y) = Finds(p, s, x)
        BY <3>2, <3>4, <3>6, <4>3, <4>4 DEF Finds, Resumes
      <4> QED BY <4>2, <4>5
    <3> QED BY <3>5, <3>6
  <2> QED BY <2>4, <2>5, <2>6, <2>7
<1>2. m \in [D -> Nat]
  <2>1. ASSUME NEW x \in D PROVE LoopMeasure(L, n, x) \in Nat
    <3>1. x[1] \in 1 .. L + 1 /\ x[4] \in 0 .. n + 1
      BY DEF Positions
    <3> HIDE DEF L, n
    <3>2. LoopMeasure(L, n, x) \in 0 .. (n + 2) * (L + 2) + L
      BY <1>0, <3>1, LoopMeasureBounded DEF LoopMeasure
    <3> QED BY <3>2
  <2> HIDE DEF D, L, n
  <2> QED BY <2>1
<1>3. ASSUME NEW x \in D, \A y \in D : m[y] < m[x] => y \in G PROVE x \in G
  <2>1. \A y \in D : LoopMeasure(L, n, y) < LoopMeasure(L, n, x) => y \in G
    <3> HIDE DEF D, G
    <3> QED BY <1>3
  <2>2. LoopOK(p, x) => f[x] = Finds(p, s, x)
    <3> HIDE DEF G, m
    <3> QED BY <1>1, <2>1
  <2> HIDE DEF D, f, m
  <2> QED BY <2>2
<1>4. \A x \in D : x \in G
  <2> HIDE DEF D, G, m
  <2> QED BY <1>2, <1>3, MeasureInduction
<1> QED BY <1>4

(* match_segment, whatever the pattern and the text.                       *)
THEOREM MatchSegmentIsTiling ==
    ASSUME NEW C, NEW p \in Seq(C), NEW s \in Seq(C)
    PROVE  MatchSegment(p, s) = SegmentTiles(p, s)
<1> DEFINE x == <<1, 1, 0, 0>>
<1>1. x \in Positions(p, s)
  BY DEF Positions
<1>2. x[1] = 1 /\ x[2] = 1 /\ x[3] = 0
  OBVIOUS
<1>3. SegmentLoop(p, s)[x] = Finds(p, s, x)
  <2> HIDE DEF x
  <2>1. LoopOK(p, x)
    BY <1>2 DEF LoopOK
  <2> QED BY <1>1, <2>1, LoopFinds
<1>4. Finds(p, s, x) <=> SegmentTiles(p, s)
  <2> HIDE DEF x
  <2> QED BY <1>2, SegmentTilesFrom DEF Finds, Resumes
<1>5. SegmentTiles(p, s) \in BOOLEAN /\ Finds(p, s, x) \in BOOLEAN
  BY DEF SegmentTiles, Finds
<1> QED BY <1>3, <1>4, <1>5 DEF MatchSegment

-----------------------------------------------------------------------------
(* match_segments: every call is on a later segment of the pattern.        *)

Corners(pat, path) == (1 .. Len(pat) + 1) \X (1 .. Len(path) + 1)

FromBody(pat, path, f, x) ==
    LET i == x[1]  j == x[2] IN
    IF i > Len(pat) THEN j > Len(path)
    ELSE IF pat[i] = AnyDepth
         THEN i = Len(pat) \/ \E k \in j .. Len(path) + 1 : f[<<i + 1, k>>]
         ELSE j <= Len(path) /\ MatchSegment(pat[i], path[j]) /\ f[<<i + 1, j + 1>>]

LEMMA FromDescends ==
    ASSUME NEW C, NEW pat \in Seq(C), NEW path \in Seq(C), NEW x \in Corners(pat, path), ~(x[1] > Len(pat)),
           NEW k \in x[2] .. Len(path) + 1
    PROVE  /\ <<x[1] + 1, k>> \in Corners(pat, path)
           /\ Len(pat) + 1 - (x[1] + 1) < Len(pat) + 1 - x[1]
<1>1. Len(pat) \in Nat /\ Len(path) \in Nat /\ x[1] \in 1 .. Len(pat) + 1 /\ x[2] \in 1 .. Len(path) + 1
  BY DEF Corners
<1>2. x[1] + 1 \in 1 .. Len(pat) + 1 /\ k \in 1 .. Len(path) + 1
  BY <1>1
<1> QED BY <1>1, <1>2 DEF Corners

LEMMA FromEquation ==
    ASSUME NEW C, NEW pat \in Seq(C), NEW path \in Seq(C), NEW x \in Corners(pat, path)
    PROVE  SegmentsFrom(pat, path)[x] = FromBody(pat, path, SegmentsFrom(pat, path), x)
<1> DEFINE D == Corners(pat, path)
           V == BOOLEAN
           m == [y \in D |-> Len(pat) + 1 - y[1]]
           F == [y \in D |-> [f \in [D -> V] |-> FromBody(pat, path, f, y)]]
<1>1. m \in [D -> 0 .. Len(pat)] /\ Len(pat) \in Nat
  <2>1. ASSUME NEW y \in D PROVE Len(pat) + 1 - y[1] \in 0 .. Len(pat)
    <3>1. y[1] \in 1 .. Len(pat) + 1 /\ Len(pat) \in Nat
      BY DEF Corners
    <3> QED BY <3>1
  <2> HIDE DEF D
  <2> QED BY <2>1
<1>2. ASSUME NEW y \in D, ~(y[1] > Len(pat)), NEW k \in y[2] .. Len(path) + 1
      PROVE  <<y[1] + 1, k>> \in D /\ m[<<y[1] + 1, k>>] < m[y]
  <2>1. <<y[1] + 1, k>> \in D /\ Len(pat) + 1 - (y[1] + 1) < Len(pat) + 1 - y[1]
    BY <1>2, FromDescends
  <2>2. <<y[1] + 1, k>>[1] = y[1] + 1
    OBVIOUS
  <2> HIDE DEF D
  <2> QED BY <2>1, <2>2
<1>3. ASSUME NEW y \in D, y[2] <= Len(path) PROVE y[2] + 1 \in y[2] .. Len(path) + 1
  <2>1. y[2] \in Nat /\ Len(path) \in Nat
    BY DEF Corners
  <2> QED BY <1>3, <2>1
<1>4. ASSUME NEW y \in D, NEW f \in [D -> V] PROVE FromBody(pat, path, f, y) \in BOOLEAN
  <2>1. CASE y[1] > Len(pat)
    <3>1. FromBody(pat, path, f, y) = (y[2] > Len(path))
      BY <2>1 DEF FromBody
    <3>2. y[2] \in Nat /\ Len(path) \in Nat
      BY DEF Corners
    <3> QED BY <3>1, <3>2
  <2>2. CASE ~(y[1] > Len(pat)) /\ pat[y[1]] = AnyDepth
    <3>1. FromBody(pat, path, f, y) = (y[1] = Len(pat) \/ \E k \in y[2] .. Len(path) + 1 : f[<<y[1] + 1, k>>])
      BY <2>2 DEF FromBody
    <3> QED BY <3>1
  <2>3. CASE ~(y[1] > Len(pat)) /\ pat[y[1]] # AnyDepth
    <3>1. FromBody(pat, path, f, y) =
              (y[2] <= Len(path) /\ MatchSegment(pat[y[1]], path[y[2]]) /\ f[<<y[1] + 1, y[2] + 1>>])
      BY <2>3 DEF FromBody
    <3> QED BY <3>1
  <2> QED BY <2>1, <2>2, <2>3
<1>5. ASSUME NEW y \in D, NEW g \in [D -> V], NEW h \in [D -> V], \A z \in D : m[z] < m[y] => g[z] = h[z]
      PROVE  FromBody(pat, path, g, y) = FromBody(pat, path, h, y)
  <2>1. ~(y[1] > Len(pat)) => \A k \in y[2] .. Len(path) + 1 : g[<<y[1] + 1, k>>] = h[<<y[1] + 1, k>>]
    <3> HIDE DEF D, m
    <3> QED BY <1>2, <1>5
  <2>2. CASE y[1] > Len(pat)
    BY <2>2 DEF FromBody
  <2>3. CASE ~(y[1] > Len(pat)) /\ pat[y[1]] = AnyDepth
    <3>1. (\E k \in y[2] .. Len(path) + 1 : g[<<y[1] + 1, k>>]) <=> (\E k \in y[2] .. Len(path) + 1 : h[<<y[1] + 1, k>>])
      BY <2>1, <2>3
    <3>2. FromBody(pat, path, g, y) = (y[1] = Len(pat) \/ \E k \in y[2] .. Len(path) + 1 : g[<<y[1] + 1, k>>])
      BY <2>3 DEF FromBody
    <3>3. FromBody(pat, path, h, y) = (y[1] = Len(pat) \/ \E k \in y[2] .. Len(path) + 1 : h[<<y[1] + 1, k>>])
      BY <2>3 DEF FromBody
    <3> QED BY <3>1, <3>2, <3>3
  <2>4. CASE ~(y[1] > Len(pat)) /\ pat[y[1]] # AnyDepth
    <3>1. y[2] <= Len(path) => g[<<y[1] + 1, y[2] + 1>>] = h[<<y[1] + 1, y[2] + 1>>]
      BY <1>3, <2>1, <2>4
    <3> HIDE DEF D, m
    <3> QED BY <2>4, <3>1 DEF FromBody
  <2> QED BY <2>2, <2>3, <2>4
<1>6. Descends(D, V, m, F)
  <2>1. F \in [D -> [[D -> V] -> V]]
    <3> HIDE DEF D
    <3> QED BY <1>4
  <2>2. \A y \in D : \A f \in [D -> V] : F[y][f] = FromBody(pat, path, f, y)
    <3> HIDE DEF D
    <3> QED OBVIOUS
  <2>3. \A y \in D : \A g, h \in [D -> V] :
            (\A z \in D : m[z] < m[y] => g[z] = h[z]) => F[y][g] = F[y][h]
    <3> HIDE DEF D, F, m, V
    <3> QED BY <1>5, <2>2
  <2>4. V # {} /\ \E k \in Nat : m \in [D -> 0 .. k]
    <3> HIDE DEF D, m
    <3> QED BY <1>1
  <2> HIDE DEF D, F, m, V
  <2> QED BY <2>1, <2>3, <2>4 DEF Descends
<1>7. PICK f \in [D -> V] : \A y \in D : f[y] = F[y][f]
  <2> HIDE DEF D, F, m, V
  <2> QED BY <1>6, RecursionHasSolution
<1>8. f = [y \in D |-> FromBody(pat, path, f, y)]
  <2>1. \A y \in D : f[y] = FromBody(pat, path, f, y)
    <3> HIDE DEF D
    <3> QED BY <1>7
  <2> HIDE DEF D, F, V
  <2> QED BY <2>1
<1>9. SegmentsFrom(pat, path) = CHOOSE g : g = [y \in D |-> FromBody(pat, path, g, y)]
  BY DEF SegmentsFrom, FromBody, Corners
<1>10. SegmentsFrom(pat, path) = [y \in D |-> FromBody(pat, path, SegmentsFrom(pat, path), y)]
  <2> HIDE DEF D
  <2> QED BY <1>8, <1>9
<1> HIDE DEF D
<1> QED BY <1>10 DEF D

Deep(pat) == {k \in 1 .. Len(pat) : pat[k] = AnyDepth}
Takes(pat, path) == {e \in (1 .. Len(pat)) \X (1 .. Len(path)) : SegmentTiles(pat[e[1]], path[e[2]])}

LEMMA PathTilesFrom ==
    ASSUME NEW C, NEW pat \in Seq(C), NEW path \in Seq(C)
    PROVE  PathTiles(pat, path) <=> TilesFrom(Deep(pat), Takes(pat, path), Len(pat), Len(path), 1, 1)
<1> DEFINE L == Len(pat)
           n == Len(path)
           Piece(c, i) == IF pat[i] = AnyDepth THEN c[i - 1] <= c[i]
                          ELSE c[i] = c[i - 1] + 1 /\ SegmentTiles(pat[i], path[c[i]])
<1>0. L \in Nat /\ n \in Nat /\ 1 - 1 = 0
  OBVIOUS
<1>1. ASSUME NEW c \in [0 .. L -> 0 .. n], NEW i \in 1 .. L
      PROVE  Piece(c, i) <=> Covers(Deep(pat), Takes(pat, path), i, c[i - 1], c[i])
  <2>1. c[i - 1] \in 0 .. n /\ c[i] \in 0 .. n
    <3> HIDE DEF L, n
    <3>1. i - 1 \in 0 .. L /\ i \in 0 .. L
      BY <1>0
    <3> QED BY <3>1
  <2>2. i \in Deep(pat) <=> pat[i] = AnyDepth
    BY DEF Deep
  <2>3. c[i] = c[i - 1] + 1 => (<<i, c[i]>> \in Takes(pat, path) <=> SegmentTiles(pat[i], path[c[i]]))
    BY <2>1 DEF Takes
  <2> QED BY <2>2, <2>3 DEF Covers
<1>2. PathTiles(pat, path) <=>
          \E c \in [0 .. L -> 0 .. n] : c[0] = 0 /\ c[L] = n /\ \A i \in 1 .. L : Piece(c, i)
  BY DEF PathTiles, Cuts
<1>3. TilesFrom(Deep(pat), Takes(pat, path), L, n, 1, 1) <=>
          \E c \in [0 .. L -> 0 .. n] :
              c[0] = 0 /\ c[L] = n /\ \A i \in 1 .. L : Covers(Deep(pat), Takes(pat, path), i, c[i - 1], c[i])
  BY <1>0 DEF TilesFrom
<1> HIDE DEF Piece
<1> QED BY <1>1, <1>2, <1>3

(* match_segments, whatever the pattern and the path.                      *)
THEOREM MatchSegmentsIsTiling ==
    ASSUME NEW C, NEW pat \in Seq(Seq(C)), NEW path \in Seq(Seq(C))
    PROVE  MatchSegments(pat, path) = PathTiles(pat, path)
<1> DEFINE D == Corners(pat, path)
           L == Len(pat)
           n == Len(path)
           W == Deep(pat)
           E == Takes(pat, path)
           f == SegmentsFrom(pat, path)
           m == [x \in D |-> L + 1 - x[1]]
           G == {x \in D : f[x] = TilesFrom(W, E, L, n, x[1], x[2])}
<1>0. L \in Nat /\ n \in Nat
  OBVIOUS
<1>1. ASSUME NEW x \in D, \A y \in D : L + 1 - y[1] < L + 1 - x[1] => y \in G
      PROVE  f[x] = TilesFrom(W, E, L, n, x[1], x[2])
  <2> DEFINE i == x[1]
             j == x[2]
  <2>1. i \in 1 .. L + 1 /\ j \in 1 .. n + 1
    BY DEF Corners
  <2>2. f[x] = FromBody(pat, path, f, x)
    BY FromEquation
  <2>3. ASSUME ~(i > L), NEW k \in j .. n + 1
        PROVE  f[<<i + 1, k>>] = TilesFrom(W, E, L, n, i + 1, k)
    <3> DEFINE y == <<i + 1, k>>
    <3>1. y \in D /\ L + 1 - (i + 1) < L + 1 - i
      BY <2>3, FromDescends
    <3>2. y[1] = i + 1 /\ y[2] = k
      OBVIOUS
    <3> HIDE DEF y
    <3>3. y \in G
      BY <1>1, <3>1, <3>2
    <3>4. f[y] = TilesFrom(W, E, L, n, y[1], y[2])
      BY <3>3
    <3>5. f[y] = TilesFrom(W, E, L, n, i + 1, k)
      BY <3>2, <3>4
    <3> QED BY <3>5 DEF y
  <2>4. CASE i > L
    <3>1. i = L + 1
      <4> HIDE DEF L, i
      <4> QED BY <1>0, <2>1, <2>4
    <3>2. TilesFrom(W, E, L, n, L + 1, j) <=> j = n + 1
      <4> HIDE DEF L, n, j, W, E
      <4> QED BY <1>0, <2>1, TilesEnd
    <3>3. f[x] = (j > n)
      BY <2>2, <2>4 DEF FromBody
    <3>4. j > n <=> j = n + 1
      <4> HIDE DEF n, j
      <4> QED BY <1>0, <2>1
    <3> HIDE DEF f, i, j, L, n, W, E
    <3>5. f[x] = TilesFrom(W, E, L, n, i, j)
      <4>1. TilesFrom(W, E, L, n, L + 1, j) \in BOOLEAN
        BY DEF TilesFrom
      <4>2. f[x] = TilesFrom(W, E, L, n, L + 1, j)
        BY <3>2, <3>3, <3>4, <4>1
      <4> QED BY <3>1, <4>2
    <3> QED BY <3>5 DEF i, j
  <2>5. CASE ~(i > L) /\ pat[i] = AnyDepth
    <3>1. i \in 1 .. L /\ i \in W
      BY <1>0, <2>1, <2>5 DEF Deep
    <3>2. TilesFrom(W, E, L, n, i, j) <=> \E k \in j .. n + 1 : TilesFrom(W, E, L, n, i + 1, k)
      <4> HIDE DEF L, n, i, j, W, E
      <4> QED BY <1>0, <2>1, <3>1, TilesWild
    <3>3. i = L => \E k \in j .. n + 1 : TilesFrom(W, E, L, n, i + 1, k)
      <4> HIDE DEF L, n, i, j, W, E
      <4>1. n + 1 \in j .. n + 1 /\ n + 1 \in 1 .. n + 1
        BY <1>0, <2>1
      <4>2. TilesFrom(W, E, L, n, L + 1, n + 1)
        BY <1>0, <4>1, TilesEnd
      <4> QED BY <4>1, <4>2
    <3>4. f[x] = (i = L \/ \E k \in j .. n + 1 : f[<<i + 1, k>>])
      BY <2>2, <2>5 DEF FromBody
    <3>5. \A k \in j .. n + 1 : f[<<i + 1, k>>] = TilesFrom(W, E, L, n, i + 1, k)
      BY <2>3, <2>5
    <3>6. f[x] = TilesFrom(W, E, L, n, i, j)
      <4> HIDE DEF f, i, j, L, n, W, E
      <4> QED BY <3>2, <3>3, <3>4, <3>5 DEF TilesFrom
    <3> QED BY <3>6
  <2>6. CASE ~(i > L) /\ pat[i] # AnyDepth
    <3>1. i \in 1 .. L /\ i \notin W
      BY <1>0, <2>1, <2>6 DEF Deep
    <3>2. TilesFrom(W, E, L, n, i, j) <=> j <= n /\ <<i, j>> \in E /\ TilesFrom(W, E, L, n, i + 1, j + 1)
      <4> HIDE DEF L, n, i, j, W, E
      <4> QED BY <1>0, <2>1, <3>1, TilesOne
    <3>3. f[x] = (j <= n /\ MatchSegment(pat[i], path[j]) /\ f[<<i + 1, j + 1>>])
      BY <2>2, <2>6 DEF FromBody
    <3>4. CASE ~(j <= n)
      <4>1. f[x] = TilesFrom(W, E, L, n, i, j)
        <5> HIDE DEF f, i, j, L, n, W, E
        <5> QED BY <3>2, <3>3, <3>4 DEF TilesFrom
      <4> QED BY <4>1
    <3>5. CASE j <= n
      <4>1. j + 1 \in j .. n + 1 /\ j \in 1 .. n
        <5> HIDE DEF j, n
        <5> QED BY <1>0, <2>1, <3>5
      <4>2. f[<<i + 1, j + 1>>] = TilesFrom(W, E, L, n, i + 1, j + 1)
        BY <2>3, <2>6, <4>1
      <4>3. pat[i] \in Seq(C) /\ path[j] \in Seq(C)
        BY <3>1, <4>1
      <4>4. MatchSegment(pat[i], path[j]) = SegmentTiles(pat[i], path[j])
        BY <4>3, MatchSegmentIsTiling
      <4>5. <<i, j>> \in E <=> SegmentTiles(pat[i], path[j])
        BY <3>1, <4>1 DEF Takes
      <4>6. f[x] = TilesFrom(W, E, L, n, i, j)
        <5> HIDE DEF f, i, j, L, n, W, E
        <5> QED BY <3>2, <3>3, <3>5, <4>2, <4>4, <4>5 DEF TilesFrom
      <4> QED BY <4>6
    <3> QED BY <3>4, <3>5
  <2> QED BY <2>4, <2>5, <2>6
<1>2. m \in [D -> Nat]
  <2>1. ASSUME NEW x \in D PROVE L + 1 - x[1] \in Nat
    <3>1. x[1] \in 1 .. L + 1
      BY DEF Corners
    <3> QED BY <1>0, <3>1
  <2> HIDE DEF D, L
  <2> QED BY <2>1
<1>3. ASSUME NEW x \in D, \A y \in D : m[y] < m[x] => y \in G PROVE x \in G
  <2>1. \A y \in D : L + 1 - y[1] < L + 1 - x[1] => y \in G
    <3> HIDE DEF D, G
    <3> QED BY <1>3
  <2>2. f[x] = TilesFrom(W, E, L, n, x[1], x[2])
    <3> HIDE DEF G, m
    <3> QED BY <1>1, <2>1
  <2> HIDE DEF D, f, m
  <2> QED BY <2>2
<1>4. \A x \in D : x \in G
  <2> HIDE DEF D, G, m
  <2> QED BY <1>2, <1>3, MeasureInduction
<1>5. <<1, 1>> \in D /\ <<1, 1>>[1] = 1 /\ <<1, 1>>[2] = 1
  BY <1>0 DEF Corners
<1>6. f[<<1, 1>>] = TilesFrom(W, E, L, n, 1, 1)
  <2>1. <<1, 1>> \in G
    BY <1>4, <1>5
  <2> QED BY <1>5, <2>1
<1>7. PathTiles(pat, path) \in BOOLEAN /\ TilesFrom(W, E, L, n, 1, 1) \in BOOLEAN
  BY DEF PathTiles, TilesFrom
<1>8. PathTiles(pat, path) <=> TilesFrom(W, E, L, n, 1, 1)
  BY PathTilesFrom
<1> QED BY <1>6, <1>7, <1>8 DEF MatchSegments

-----------------------------------------------------------------------------
(* Lists.                                                                  *)

LEMMA AppendFacts ==
    ASSUME NEW C, NEW s \in Seq(C), NEW e \in C
    PROVE  /\ Append(s, e) \in Seq(C) /\ Len(Append(s, e)) = Len(s) + 1
           /\ \A i \in 1 .. Len(s) : Append(s, e)[i] = s[i]
           /\ Append(s, e)[Len(s) + 1] = e
           /\ Elements(Append(s, e)) = Elements(s) \union {e}
<1>1. /\ Append(s, e) \in Seq(C) /\ Len(Append(s, e)) = Len(s) + 1
      /\ \A i \in 1 .. Len(s) : Append(s, e)[i] = s[i]
      /\ Append(s, e)[Len(s) + 1] = e
  OBVIOUS
<1>2. DOMAIN s = 1 .. Len(s) /\ DOMAIN Append(s, e) = 1 .. Len(s) + 1 /\ Len(s) \in Nat
  BY <1>1
<1>3. \A i \in 1 .. Len(s) + 1 : i \in 1 .. Len(s) \/ i = Len(s) + 1
  BY <1>2
<1>4. \A i \in 1 .. Len(s) : i \in 1 .. Len(s) + 1
  BY <1>2
<1>5. Len(s) + 1 \in 1 .. Len(s) + 1
  BY <1>2
<1>6. Elements(Append(s, e)) = Elements(s) \union {e}
  BY <1>1, <1>2, <1>3, <1>4, <1>5 DEF Elements
<1> QED BY <1>1, <1>6

SelectStep(s, S, before, i) == IF s[i] \in S THEN Append(before, s[i]) ELSE before

LEMMA SelectedEquation ==
    ASSUME NEW C, NEW s \in Seq(C), NEW S
    PROVE  \A i \in 0 .. Len(s) :
               SelectedUpto(s, S)[i] = IF i = 0 THEN <<>> ELSE SelectStep(s, S, SelectedUpto(s, S)[i - 1], i)
<1> DEFINE Is(g, n) == g = [i \in 0 .. n |-> IF i = 0 THEN <<>> ELSE SelectStep(s, S, g[i - 1], i)]
           G == {n \in Nat : \E g : Is(g, n)}
<1>1. 0 \in G
  <2> DEFINE g == [i \in 0 .. 0 |-> <<>>]
  <2>1. \A i \in 0 .. 0 : i = 0
    OBVIOUS
  <2>2. Is(g, 0)
    BY <2>1
  <2> QED BY <2>2
<1>2. ASSUME NEW n \in Nat, n \in G PROVE n + 1 \in G
  <2>1. PICK g : Is(g, n)
    BY <1>2
  <2> DEFINE h == [i \in 0 .. n + 1 |-> IF i = n + 1 THEN SelectStep(s, S, g[n], n + 1) ELSE g[i]]
  <2>2. ASSUME NEW i \in 0 .. n + 1 PROVE h[i] = IF i = 0 THEN <<>> ELSE SelectStep(s, S, h[i - 1], i)
    <3>1. CASE i = n + 1
      <4>1. i # 0 /\ i - 1 = n /\ n \in 0 .. n + 1 /\ n # n + 1
        BY <3>1
      <4>2. h[n] = g[n]
        BY <4>1
      <4> QED BY <3>1, <4>1, <4>2
    <3>2. CASE i # n + 1
      <4>1. i \in 0 .. n
        BY <3>2
      <4>2. g[i] = IF i = 0 THEN <<>> ELSE SelectStep(s, S, g[i - 1], i)
        BY <2>1, <4>1
      <4>3. i # 0 => i - 1 \in 0 .. n + 1 /\ i - 1 # n + 1
        BY <4>1
      <4>4. i # 0 => h[i - 1] = g[i - 1]
        BY <4>3
      <4>5. h[i] = g[i]
        BY <3>2
      <4> HIDE DEF h
      <4> QED BY <4>2, <4>4, <4>5
    <3> QED BY <3>1, <3>2
  <2>3. Is(h, n + 1)
    <3>1. h = [i \in 0 .. n + 1 |-> h[i]]
      OBVIOUS
    <3> HIDE DEF h
    <3> QED BY <2>2, <3>1
  <2> HIDE DEF h, Is
  <2> QED BY <2>3
<1>3. Len(s) \in G
  <2>1. Len(s) \in Nat
    OBVIOUS
  <2> HIDE DEF G
  <2> QED BY <1>1, <1>2, <2>1, NatSetInduction
<1>4. PICK g : Is(g, Len(s))
  BY <1>3
<1>5. SelectedUpto(s, S) = CHOOSE h : Is(h, Len(s))
  BY DEF SelectedUpto, SelectStep
<1>6. Is(SelectedUpto(s, S), Len(s))
  <2> HIDE DEF Is
  <2> QED BY <1>4, <1>5
<1> QED BY <1>6


Distinct(s) == \A i, k \in DOMAIN s : s[i] = s[k] => i = k

LEMMA AppendDistinct ==
    ASSUME NEW C, NEW s \in Seq(C), NEW e \in C, Distinct(s), e \notin Elements(s)
    PROVE  Distinct(Append(s, e))
<1> DEFINE w == Append(s, e)
<1>1. /\ w \in Seq(C) /\ Len(w) = Len(s) + 1 /\ Len(s) \in Nat
      /\ \A i \in 1 .. Len(s) : w[i] = s[i]
      /\ w[Len(s) + 1] = e
  BY AppendFacts
<1>2. DOMAIN s = 1 .. Len(s) /\ DOMAIN w = 1 .. Len(s) + 1
  BY <1>1
<1> HIDE DEF w
<1>3. \A i \in 1 .. Len(s) : w[i] # e
  BY <1>1, <1>2 DEF Elements
<1>4. ASSUME NEW i \in DOMAIN w, NEW k \in DOMAIN w, w[i] = w[k] PROVE i = k
  <2>1. (i \in 1 .. Len(s) \/ i = Len(s) + 1) /\ (k \in 1 .. Len(s) \/ k = Len(s) + 1)
    BY <1>1, <1>2
  <2>2. CASE i \in 1 .. Len(s) /\ k \in 1 .. Len(s)
    BY <1>1, <1>2, <1>4, <2>2 DEF Distinct
  <2> QED BY <1>1, <1>3, <1>4, <2>1, <2>2
<1>5. Distinct(w)
  BY <1>4 DEF Distinct
<1> QED BY <1>5 DEF w

(* What Selected has, and that it loses nothing else.                      *)
LEMMA SelectedFacts ==
    ASSUME NEW C, NEW s \in Seq(C), NEW S
    PROVE  /\ Selected(s, S) \in Seq(C)
           /\ Elements(Selected(s, S)) = Elements(s) \intersect S
           /\ Distinct(s) => Distinct(Selected(s, S))
<1> DEFINE U == SelectedUpto(s, S)
           G == {i \in Nat : i <= Len(s) => /\ U[i] \in Seq(C)
                                            /\ Elements(U[i]) = {s[j] : j \in 1 .. i} \intersect S
                                            /\ Distinct(s) => Distinct(U[i])}
<1>0. Len(s) \in Nat /\ DOMAIN s = 1 .. Len(s)
  OBVIOUS
<1>1. 0 \in G
  <2>1. U[0] = <<>>
    BY <1>0, SelectedEquation
  <2>2. Elements(<<>>) = {} /\ <<>> \in Seq(C) /\ Distinct(<<>>) /\ \A j \in 1 .. 0 : FALSE
    BY DEF Elements, Distinct
  <2> HIDE DEF U
  <2> QED BY <2>1, <2>2
<1>2. ASSUME NEW i \in Nat, i \in G PROVE i + 1 \in G
  <2> SUFFICES ASSUME i + 1 <= Len(s)
               PROVE  /\ U[i + 1] \in Seq(C)
                      /\ Elements(U[i + 1]) = {s[j] : j \in 1 .. i + 1} \intersect S
                      /\ Distinct(s) => Distinct(U[i + 1])
    <3> HIDE DEF U
    <3> QED OBVIOUS
  <2>1. i <= Len(s) /\ i + 1 \in 0 .. Len(s) /\ i + 1 # 0 /\ (i + 1) - 1 = i /\ i + 1 \in 1 .. Len(s)
    BY <1>0
  <2>2. /\ U[i] \in Seq(C) /\ Elements(U[i]) = {s[j] : j \in 1 .. i} \intersect S
        /\ Distinct(s) => Distinct(U[i])
    <3> HIDE DEF U
    <3> QED BY <1>2, <2>1
  <2>3. U[i + 1] = SelectStep(s, S, U[i], i + 1)
    BY <2>1, SelectedEquation
  <2>4. s[i + 1] \in C
    BY <2>1
  <2>5. {s[j] : j \in 1 .. i + 1} = {s[j] : j \in 1 .. i} \union {s[i + 1]}
    <3>1. \A j \in 1 .. i + 1 : j \in 1 .. i \/ j = i + 1
      OBVIOUS
    <3>2. i + 1 \in 1 .. i + 1 /\ \A j \in 1 .. i : j \in 1 .. i + 1
      OBVIOUS
    <3> QED BY <3>1, <3>2
  <2> HIDE DEF U
  <2>6. CASE s[i + 1] \in S
    <3>1. U[i + 1] = Append(U[i], s[i + 1])
      BY <2>3, <2>6 DEF SelectStep
    <3>2. Append(U[i], s[i + 1]) \in Seq(C) /\ Elements(Append(U[i], s[i + 1])) = Elements(U[i]) \union {s[i + 1]}
      BY <2>2, <2>4, AppendFacts
    <3>3. ASSUME Distinct(s) PROVE Distinct(U[i + 1])
      <4>1. \A j \in 1 .. i : j \in DOMAIN s /\ i + 1 \in DOMAIN s /\ j # i + 1
        BY <1>0, <2>1
      <4>2. s[i + 1] \notin Elements(U[i])
        BY <2>2, <3>3, <4>1 DEF Distinct
      <4> QED BY <2>2, <2>4, <3>1, <3>3, <4>2, AppendDistinct
    <3>4. Elements(U[i + 1]) = {s[j] : j \in 1 .. i + 1} \intersect S
      BY <2>2, <2>5, <2>6, <3>1, <3>2
    <3> QED BY <3>1, <3>2, <3>3, <3>4
  <2>7. CASE s[i + 1] \notin S
    <3>1. U[i + 1] = U[i]
      BY <2>3, <2>7 DEF SelectStep
    <3> QED BY <2>2, <2>5, <2>7, <3>1
  <2> QED BY <2>6, <2>7
<1>3. Len(s) \in G
  <2> HIDE DEF G
  <2> QED BY <1>0, <1>1, <1>2, NatSetInduction
<1>4. /\ U[Len(s)] \in Seq(C) /\ Elements(U[Len(s)]) = {s[j] : j \in 1 .. Len(s)} \intersect S
      /\ Distinct(s) => Distinct(U[Len(s)])
  <2> HIDE DEF U
  <2> QED BY <1>0, <1>3
<1>5. {s[j] : j \in 1 .. Len(s)} = Elements(s)
  BY <1>0 DEF Elements
<1> QED BY <1>4, <1>5 DEF Selected


LEMMA ConcatFacts ==
    ASSUME NEW C, NEW s \in Seq(C), NEW t \in Seq(C)
    PROVE  /\ s \o t \in Seq(C) /\ Len(s \o t) = Len(s) + Len(t)
           /\ \A i \in 1 .. Len(s) : (s \o t)[i] = s[i]
           /\ \A i \in 1 .. Len(t) : (s \o t)[Len(s) + i] = t[i]
           /\ Elements(s \o t) = Elements(s) \union Elements(t)
           /\ Distinct(s) /\ Distinct(t) /\ Elements(s) \intersect Elements(t) = {} => Distinct(s \o t)
<1> DEFINE w == s \o t
           M == Len(s)
           N == Len(t)
<1>1. /\ w \in Seq(C) /\ Len(w) = M + N /\ M \in Nat /\ N \in Nat
      /\ \A i \in 1 .. M + N : w[i] = IF i <= M THEN s[i] ELSE t[i - M]
  BY ConcatProperties
<1>2. DOMAIN s = 1 .. M /\ DOMAIN t = 1 .. N /\ DOMAIN w = 1 .. M + N
  BY <1>1
<1> HIDE DEF w, M, N
<1>3. ASSUME NEW i \in 1 .. M PROVE w[i] = s[i]
  <2>1. i \in 1 .. M + N /\ i <= M
    BY <1>1
  <2> QED BY <1>1, <2>1
<1>4. ASSUME NEW i \in 1 .. N PROVE w[M + i] = t[i]
  <2>1. M + i \in 1 .. M + N /\ ~(M + i <= M) /\ (M + i) - M = i
    BY <1>1
  <2> QED BY <1>1, <2>1
<1>5. \A i \in DOMAIN w : i \in DOMAIN s \/ \E k \in DOMAIN t : i = M + k
  <2> SUFFICES ASSUME NEW i \in 1 .. M + N, i \notin 1 .. M PROVE \E k \in 1 .. N : i = M + k
    BY <1>2
  <2>1. i - M \in 1 .. N /\ i = M + (i - M)
    BY <1>1
  <2> QED BY <2>1
<1>6. (\A i \in DOMAIN s : i \in DOMAIN w) /\ (\A i \in DOMAIN t : M + i \in DOMAIN w)
  BY <1>1, <1>2
<1>7. Elements(w) = Elements(s) \union Elements(t)
  <2>1. \A y \in Elements(w) : y \in Elements(s) \union Elements(t)
    BY <1>2, <1>3, <1>4, <1>5 DEF Elements
  <2>2. \A y \in Elements(s) : y \in Elements(w)
    BY <1>2, <1>3, <1>6 DEF Elements
  <2>3. \A y \in Elements(t) : y \in Elements(w)
    BY <1>2, <1>4, <1>6 DEF Elements
  <2> QED BY <2>1, <2>2, <2>3
<1>8. ASSUME Distinct(s), Distinct(t), Elements(s) \intersect Elements(t) = {}, NEW i \in DOMAIN w, NEW k \in DOMAIN w, w[i] = w[k]
      PROVE  i = k
  <2>1. \A x \in DOMAIN s, y \in DOMAIN t : s[x] # t[y]
    BY <1>8 DEF Elements
  <2>2. CASE i \in DOMAIN s /\ k \in DOMAIN s
    <3>1. s[i] = s[k]
      BY <1>2, <1>3, <1>8, <2>2
    <3> QED BY <1>8, <2>2, <3>1 DEF Distinct
  <2>3. CASE i \in DOMAIN s /\ k \notin DOMAIN s
    <3>1. PICK y \in DOMAIN t : k = M + y
      BY <1>5, <2>3
    <3> QED BY <1>2, <1>3, <1>4, <1>8, <2>1, <2>3, <3>1
  <2>4. CASE i \notin DOMAIN s /\ k \in DOMAIN s
    <3>1. PICK y \in DOMAIN t : i = M + y
      BY <1>5, <2>4
    <3> QED BY <1>2, <1>3, <1>4, <1>8, <2>1, <2>4, <3>1
  <2>5. CASE i \notin DOMAIN s /\ k \notin DOMAIN s
    <3>1. PICK x \in DOMAIN t : i = M + x
      BY <1>5, <2>5
    <3>2. PICK y \in DOMAIN t : k = M + y
      BY <1>5, <2>5
    <3>3. t[x] = t[y]
      BY <1>2, <1>4, <1>8, <3>1, <3>2
    <3> QED BY <1>8, <3>1, <3>2, <3>3 DEF Distinct
  <2> QED BY <2>2, <2>3, <2>4, <2>5
<1>9. Distinct(s) /\ Distinct(t) /\ Elements(s) \intersect Elements(t) = {} => Distinct(w)
  BY <1>8 DEF Distinct
<1> QED BY <1>1, <1>3, <1>4, <1>7, <1>9 DEF w, M, N

LEMMA ElementsFinite ==
    ASSUME NEW C, NEW s \in Seq(C)
    PROVE  /\ IsFiniteSet(Elements(s)) /\ Cardinality(Elements(s)) \in Nat /\ Cardinality(Elements(s)) <= Len(s)
           /\ Distinct(s) <=> Cardinality(Elements(s)) = Len(s)
<1> DEFINE N == Len(s)
           S == 1 .. N
           E == Elements(s)
<1>1. N \in Nat /\ DOMAIN s = S /\ s \in [S -> E]
  BY DEF Elements
<1>2. IsFiniteSet(S) /\ Cardinality(S) = N
  BY <1>1, FS_Interval
<1>3. s \in Surjection(S, E)
  BY <1>1 DEF Surjection, Elements
<1> HIDE DEF S, E
<1>4. /\ IsFiniteSet(E) /\ Cardinality(E) <= Cardinality(S)
      /\ Cardinality(E) = Cardinality(S) <=> s \in Injection(S, E)
  BY <1>2, <1>3, FS_Surjection
<1>5. s \in Injection(S, E) <=> Distinct(s)
  BY <1>1 DEF Injection, IsInjective, Distinct
<1>6. Cardinality(E) \in Nat
  BY <1>4, FS_CardinalityType
<1> QED BY <1>2, <1>4, <1>5, <1>6 DEF E

(* A measure on a finite set ranks it by the numbers up to its size.       *)
LEMMA RankByMeasure ==
    ASSUME NEW S, IsFiniteSet(S), NEW f \in [S -> Nat]
    PROVE  \E rank \in [S -> 1 .. Cardinality(S)] : \A x, y \in S : f[x] < f[y] => rank[x] < rank[y]
<1> DEFINE B(x) == {y \in S : f[y] <= f[x]}
           rank == [x \in S |-> Cardinality(B(x))]
<1>0. \A x \in S : f[x] \in Nat
  OBVIOUS
<1>1. ASSUME NEW x \in S PROVE B(x) \subseteq S /\ x \in B(x) /\ IsFiniteSet(B(x)) /\ Cardinality(B(x)) \in 1 .. Cardinality(S)
  <2>1. B(x) \subseteq S /\ x \in B(x)
    BY <1>0
  <2> HIDE DEF B
  <2>2. IsFiniteSet(B(x)) /\ Cardinality(B(x)) <= Cardinality(S)
    BY <2>1, FS_Subset
  <2>3. Cardinality(B(x)) \in Nat /\ Cardinality(S) \in Nat /\ Cardinality(B(x)) # 0
    BY <2>1, <2>2, FS_CardinalityType, FS_EmptySet
  <2> QED BY <2>1, <2>2, <2>3
<1>2. ASSUME NEW x \in S, NEW y \in S, f[x] < f[y] PROVE Cardinality(B(x)) < Cardinality(B(y))
  <2>1. ASSUME NEW z \in S, f[z] <= f[x] PROVE f[z] <= f[y]
    BY <1>0, <1>2, <2>1
  <2>2. B(x) \subseteq B(y)
    BY <2>1
  <2>3. y \in B(y) /\ y \notin B(x)
    BY <1>0, <1>2
  <2>4. IsFiniteSet(B(y)) /\ IsFiniteSet(B(x))
    BY <1>1
  <2> HIDE DEF B
  <2>5. Cardinality(B(x)) <= Cardinality(B(y)) /\ (Cardinality(B(y)) = Cardinality(B(x)) => B(y) = B(x))
    BY <2>2, <2>4, FS_Subset
  <2>6. Cardinality(B(x)) \in Nat /\ Cardinality(B(y)) \in Nat
    BY <2>4, FS_CardinalityType
  <2> QED BY <2>3, <2>5, <2>6
<1> HIDE DEF B
<1>3. rank \in [S -> 1 .. Cardinality(S)]
  BY <1>1
<1>4. \A x, y \in S : f[x] < f[y] => rank[x] < rank[y]
  BY <1>2
<1> HIDE DEF rank
<1> QED BY <1>3, <1>4

LEMMA DivModDef ==
    ASSUME NEW a \in Nat, NEW n \in Nat, n > 0
    PROVE  a \div n \in Nat /\ a % n \in 0 .. n - 1 /\ a = n * (a \div n) + (a % n)
<1>1. a % n \in 0 .. n - 1
  OBVIOUS
<1>2. PICK q \in Int : q = a \div n
  OBVIOUS
<1>3. a = n * (a \div n) + (a % n)
  OBVIOUS
<1>4. a \div n >= 0
  OBVIOUS
<1>5. q \in Nat
  BY <1>2, <1>4
<1> QED BY <1>1, <1>2, <1>3, <1>5

LEMMA QuotientUnique ==
    ASSUME NEW n \in Nat, n > 0, NEW q \in Nat, NEW r \in 0 .. n - 1, NEW p \in Nat, NEW t \in 0 .. n - 1,
           n * q + r = n * p + t
    PROVE  q = p /\ r = t
<1>1. CASE q < p
  <2>1. PICK d \in Nat : p = q + 1 + d
    <3>1. p - q - 1 \in Nat /\ p = q + 1 + (p - q - 1)
      BY <1>1
    <3> QED BY <3>1
  <2>2. n * p = n * q + n + n * d
    BY <2>1
  <2>3. n * d \in Nat /\ n * q \in Nat
    OBVIOUS
  <2> QED BY <2>2, <2>3
<1>2. CASE p < q
  <2>1. PICK d \in Nat : q = p + 1 + d
    <3>1. q - p - 1 \in Nat /\ q = p + 1 + (q - p - 1)
      BY <1>2
    <3> QED BY <3>1
  <2>2. n * q = n * p + n + n * d
    BY <2>1
  <2>3. n * d \in Nat /\ n * p \in Nat
    OBVIOUS
  <2> QED BY <2>2, <2>3
<1>3. CASE q = p
  <2>1. n * q \in Nat
    OBVIOUS
  <2> QED BY <1>3, <2>1
<1> QED BY <1>1, <1>2, <1>3

LEMMA GridIn ==
    ASSUME NEW n \in Nat, n > 0, NEW L \in Nat, NEW i \in 1 .. n * L
    PROVE  ((i - 1) % n) + 1 \in 1 .. n /\ ((i - 1) \div n) + 1 \in 1 .. L
<1>1. n * L \in Nat
  OBVIOUS
<1>2. PICK a \in Nat : a = i - 1
  BY <1>1
<1>3. PICK q \in Nat : q = a \div n
  BY DivModDef
<1>4. PICK r \in 0 .. n - 1 : r = a % n
  BY DivModDef
<1>5. a = n * q + r /\ a < n * L
  BY <1>1, <1>2, <1>3, <1>4, DivModDef
<1>6. q < L
  <2> SUFFICES ASSUME L <= q PROVE FALSE
    OBVIOUS
  <2>1. PICK d \in Nat : q = L + d
    <3>1. q - L \in Nat /\ q = L + (q - L)
      OBVIOUS
    <3> QED BY <3>1
  <2>2. n * q = n * L + n * d /\ n * d \in Nat
    BY <2>1
  <2> QED BY <1>1, <1>5, <2>2
<1>7. r + 1 \in 1 .. n /\ q + 1 \in 1 .. L
  BY <1>6
<1> QED BY <1>2, <1>3, <1>4, <1>7

LEMMA EmptyFunction ==
    ASSUME NEW V, NEW f \in [{} -> V]
    PROVE  f = <<>> /\ <<>> \in [{} -> V]
OBVIOUS

(* Cell i of n values for each of L cells: which value, and of which cell. *)
ValueAt(i, n) == ((i - 1) % n) + 1
CellAt(i, n) == ((i - 1) \div n) + 1

IsGrid(N, n, L) == N = n * L

LEMMA Grid ==
    ASSUME NEW n \in Nat, n > 0, NEW L \in Nat, NEW N \in Nat, IsGrid(N, n, L)
    PROVE  /\ \A i \in 1 .. N : ValueAt(i, n) \in 1 .. n /\ CellAt(i, n) \in 1 .. L
           /\ \A v \in 1 .. n, c \in 1 .. L : \E i \in 1 .. N : ValueAt(i, n) = v /\ CellAt(i, n) = c
<1>1. ASSUME NEW i \in 1 .. N PROVE ValueAt(i, n) \in 1 .. n /\ CellAt(i, n) \in 1 .. L
  BY GridIn DEF ValueAt, CellAt, IsGrid
<1>2. ASSUME NEW v \in 1 .. n, NEW c \in 1 .. L
      PROVE  \E i \in 1 .. N : ValueAt(i, n) = v /\ CellAt(i, n) = c
  <2>1. PICK q \in Nat : q = c - 1
    OBVIOUS
  <2>2. PICK r \in 0 .. n - 1 : r = v - 1
    OBVIOUS
  <2>3. n * q \in Nat
    OBVIOUS
  <2>4. PICK a \in Nat : a = n * q + r
    BY <2>3
  <2>5. a \div n \in Nat /\ a % n \in 0 .. n - 1 /\ a = n * (a \div n) + (a % n)
    BY DivModDef
  <2>6. a \div n = q /\ a % n = r
    BY <2>4, <2>5, QuotientUnique
  <2>7. a + 1 \in 1 .. N
    <3>1. PICK d \in Nat : L = q + 1 + d
      <4>1. L - q - 1 \in Nat /\ L = q + 1 + (L - q - 1)
        BY <2>1
      <4> QED BY <4>1
    <3>2. N = n * q + n + n * d /\ n * d \in Nat
      BY <3>1 DEF IsGrid
    <3> QED BY <2>3, <2>4, <3>2
  <2>8. (a + 1) - 1 = a /\ q + 1 = c /\ r + 1 = v
    BY <2>1, <2>2
  <2>9. ValueAt(a + 1, n) = v /\ CellAt(a + 1, n) = c
    <3>1. ValueAt(a + 1, n) = (((a + 1) - 1) % n) + 1 /\ CellAt(a + 1, n) = (((a + 1) - 1) \div n) + 1
      BY DEF ValueAt, CellAt
    <3> QED BY <2>6, <2>8, <3>1
  <2> HIDE DEF ValueAt, CellAt
  <2> QED BY <2>7, <2>9
<1> QED BY <1>1, <1>2

-----------------------------------------------------------------------------
(* The axes of a matrix, up to the last.                                   *)

LEMMA BoundedLists ==
    ASSUME NEW f, NEW n \in Nat, \A i \in 1 .. n : f[i] \in Nat
    PROVE  \E K \in Nat : \A i \in 1 .. n : f[i] <= K
<1> DEFINE G == {k \in Nat : k <= n => \E K \in Nat : \A i \in 1 .. k : f[i] <= K}
<1>1. 0 \in G
  <2>1. \A i \in 1 .. 0 : f[i] <= 0
    OBVIOUS
  <2> QED BY <2>1
<1>2. ASSUME NEW k \in Nat, k \in G PROVE k + 1 \in G
  <2> SUFFICES ASSUME k + 1 <= n PROVE \E K \in Nat : \A i \in 1 .. k + 1 : f[i] <= K
    OBVIOUS
  <2>1. PICK K \in Nat : \A i \in 1 .. k : f[i] <= K
    BY <1>2
  <2>2. PICK v \in Nat : v = f[k + 1]
    OBVIOUS
  <2>3. \A i \in 1 .. k + 1 : f[i] \in Nat /\ (i \in 1 .. k \/ i = k + 1)
    OBVIOUS
  <2>4. \A i \in 1 .. k + 1 : f[i] <= K + v
    BY <2>1, <2>2, <2>3
  <2> QED BY <2>4
<1>3. n \in G
  <2> HIDE DEF G
  <2> QED BY <1>1, <1>2, NatSetInduction
<1> QED BY <1>3

LEMMA FiniteHasMax ==
    ASSUME NEW S \in SUBSET Nat, IsFiniteSet(S), S # {}
    PROVE  \E m \in S : \A a \in S : a <= m
<1>1. PICK n \in Nat : ExistsBijection(1 .. n, S)
  BY FS_NatBijection
<1>2. PICK f \in [1 .. n -> S] : \A a \in S : \E i \in 1 .. n : f[i] = a
  BY <1>1 DEF ExistsBijection, Bijection, Surjection
<1>3. \A i \in 1 .. n : f[i] \in Nat
  OBVIOUS
<1>4. PICK K \in Nat : \A i \in 1 .. n : f[i] <= K
  BY <1>3, BoundedLists
<1> DEFINE R == {d \in Nat : K - d \in S}
<1>5. \A a \in S : a \in Nat /\ K - a \in R
  <2> SUFFICES ASSUME NEW a \in S PROVE a \in Nat /\ K - a \in R
    OBVIOUS
  <2>1. a \in Nat /\ a <= K
    BY <1>2, <1>4
  <2>2. K - a \in Nat /\ K - (K - a) = a
    BY <2>1
  <2> QED BY <2>1, <2>2
<1>6. PICK d \in R : \A e \in R : d <= e
  <2>1. R \in SUBSET Nat /\ R # {}
    BY <1>5
  <2> HIDE DEF R
  <2> QED BY <2>1, LeastNumber
<1>7. K - d \in S /\ d \in Nat
  OBVIOUS
<1>8. ASSUME NEW a \in S PROVE a <= K - d
  <2>1. a \in Nat /\ d <= K - a
    <3> HIDE DEF R
    <3> QED BY <1>5, <1>6
  <2> QED BY <1>7, <2>1
<1> QED BY <1>7, <1>8

LEMMA LastAxisIs ==
    ASSUME NEW axes, IsFiniteSet(DOMAIN axes), DOMAIN axes \subseteq Nat \ {0}
    PROVE  LastAxis(axes) \in Nat /\ \A a \in DOMAIN axes : a \in 1 .. LastAxis(axes)
<1>1. CASE DOMAIN axes = {}
  BY <1>1 DEF LastAxis
<1>2. CASE DOMAIN axes # {}
  <2>1. DOMAIN axes \in SUBSET Nat
    OBVIOUS
  <2>2. \E m \in DOMAIN axes : \A a \in DOMAIN axes : a <= m
    BY <1>2, <2>1, FiniteHasMax
  <2>3. LastAxis(axes) = CHOOSE m \in DOMAIN axes : \A a \in DOMAIN axes : a <= m
    BY <1>2 DEF LastAxis
  <2>4. LastAxis(axes) \in DOMAIN axes /\ \A a \in DOMAIN axes : a <= LastAxis(axes)
    BY <2>2, <2>3
  <2> QED BY <2>4
<1> QED BY <1>1, <1>2

ProductStep(axes, before, a) == IF a \in DOMAIN axes THEN Widen(before, a, axes[a]) ELSE before

LEMMA ProductEquation ==
    ASSUME NEW axes, LastAxis(axes) \in Nat
    PROVE  \A i \in 0 .. LastAxis(axes) :
               Products(axes)[i] = IF i = 0 THEN <<<<>>>> ELSE ProductStep(axes, Products(axes)[i - 1], i)
<1> DEFINE Is(g, n) == g = [i \in 0 .. n |-> IF i = 0 THEN <<<<>>>> ELSE ProductStep(axes, g[i - 1], i)]
           G == {n \in Nat : \E g : Is(g, n)}
<1>1. 0 \in G
  <2> DEFINE g == [i \in 0 .. 0 |-> <<<<>>>>]
  <2>1. \A i \in 0 .. 0 : i = 0
    OBVIOUS
  <2>2. Is(g, 0)
    BY <2>1
  <2> QED BY <2>2
<1>2. ASSUME NEW n \in Nat, n \in G PROVE n + 1 \in G
  <2>1. PICK g : Is(g, n)
    BY <1>2
  <2> DEFINE h == [i \in 0 .. n + 1 |-> IF i = n + 1 THEN ProductStep(axes, g[n], n + 1) ELSE g[i]]
  <2>2. ASSUME NEW i \in 0 .. n + 1 PROVE h[i] = IF i = 0 THEN <<<<>>>> ELSE ProductStep(axes, h[i - 1], i)
    <3>1. CASE i = n + 1
      <4>1. i # 0 /\ i - 1 = n /\ n \in 0 .. n + 1 /\ n # n + 1
        BY <3>1
      <4>2. h[n] = g[n]
        BY <4>1
      <4> QED BY <3>1, <4>1, <4>2
    <3>2. CASE i # n + 1
      <4>1. i \in 0 .. n
        BY <3>2
      <4>2. g[i] = IF i = 0 THEN <<<<>>>> ELSE ProductStep(axes, g[i - 1], i)
        BY <2>1, <4>1
      <4>3. i # 0 => i - 1 \in 0 .. n + 1 /\ i - 1 # n + 1
        BY <4>1
      <4>4. i # 0 => h[i - 1] = g[i - 1]
        BY <4>3
      <4>5. h[i] = g[i]
        BY <3>2
      <4> HIDE DEF h
      <4> QED BY <4>2, <4>4, <4>5
    <3> QED BY <3>1, <3>2
  <2>3. Is(h, n + 1)
    <3>1. h = [i \in 0 .. n + 1 |-> h[i]]
      OBVIOUS
    <3> HIDE DEF h
    <3> QED BY <2>2, <3>1
  <2> HIDE DEF h, Is
  <2> QED BY <2>3
<1>3. LastAxis(axes) \in G
  <2>1. LastAxis(axes) \in Nat
    OBVIOUS
  <2> HIDE DEF G
  <2> QED BY <1>1, <1>2, <2>1, NatSetInduction
<1>4. PICK g : Is(g, LastAxis(axes))
  BY <1>3
<1>5. Products(axes) = CHOOSE h : Is(h, LastAxis(axes))
  BY DEF Products, ProductStep
<1>6. Is(Products(axes), LastAxis(axes))
  <2> HIDE DEF Is
  <2> QED BY <1>4, <1>5
<1> QED BY <1>6

LEMMA ListOfDomain ==
    ASSUME NEW n \in Nat, NEW f, f = [i \in 1 .. n |-> f[i]]
    PROVE  IsList(f) /\ Len(f) = n /\ DOMAIN f = 1 .. n
<1>1. DOMAIN f = 1 .. n
  OBVIOUS
<1>2. f \in [1 .. n -> Elements(f)]
  BY <1>1 DEF Elements
<1>3. f \in Seq(Elements(f))
  BY <1>2, SeqDef
<1> QED BY <1>1, <1>3 DEF IsList

Widened(a, values, cells) == {Overlay([x \in {a} |-> v], c) : v \in values, c \in cells}

LEMMA WidenFacts ==
    ASSUME NEW C, NEW cells \in Seq(C), NEW V, NEW values \in Seq(V), values # <<>>, NEW a
    PROVE  /\ IsList(Widen(cells, a, values))
           /\ Elements(Widen(cells, a, values)) = Widened(a, Elements(values), Elements(cells))
<1> DEFINE n == Len(values)
           L == Len(cells)
           w == Widen(cells, a, values)
           e(v, c) == Overlay([x \in {a} |-> v], c)
<1>1. n \in Nat /\ n > 0 /\ L \in Nat /\ n * L \in Nat /\ DOMAIN values = 1 .. n /\ DOMAIN cells = 1 .. L
  <2>1. n \in Nat /\ n > 0 /\ L \in Nat /\ DOMAIN values = 1 .. n /\ DOMAIN cells = 1 .. L
    OBVIOUS
  <2> HIDE DEF n, L
  <2>2. n * L \in Nat
    BY <2>1
  <2> QED BY <2>1, <2>2
<1> HIDE DEF e
<1>n. PICK N \in Nat : N = n * L
  BY <1>1
<1>i. IsGrid(N, n, L)
  BY <1>n DEF IsGrid
<1>2. w = [i \in 1 .. N |-> e(values[ValueAt(i, n)], cells[CellAt(i, n)])]
  BY <1>n DEF Widen, e, ValueAt, CellAt
<1> HIDE DEF n, L, w
<1>g. /\ \A i \in 1 .. N : ValueAt(i, n) \in 1 .. n /\ CellAt(i, n) \in 1 .. L
      /\ \A v \in 1 .. n, c \in 1 .. L : \E i \in 1 .. N : ValueAt(i, n) = v /\ CellAt(i, n) = c
  BY <1>1, <1>i, Grid
<1>3. DOMAIN w = 1 .. N /\ \A i \in 1 .. N : w[i] = e(values[ValueAt(i, n)], cells[CellAt(i, n)])
  BY <1>2
<1>4. w = [i \in 1 .. N |-> w[i]]
  BY <1>2, <1>3
<1>5. IsList(w)
  BY <1>4, ListOfDomain
<1>6. ASSUME NEW i \in 1 .. N PROVE \E v \in Elements(values), c \in Elements(cells) : w[i] = e(v, c)
  <2>1. values[ValueAt(i, n)] \in Elements(values) /\ cells[CellAt(i, n)] \in Elements(cells)
    BY <1>1, <1>g DEF Elements
  <2> QED BY <1>3, <2>1
<1>7. ASSUME NEW v \in Elements(values), NEW c \in Elements(cells) PROVE \E i \in 1 .. N : w[i] = e(v, c)
  <2>1. PICK k \in 1 .. n : values[k] = v
    BY <1>1 DEF Elements
  <2>2. PICK l \in 1 .. L : cells[l] = c
    BY <1>1 DEF Elements
  <2>3. PICK i \in 1 .. N : ValueAt(i, n) = k /\ CellAt(i, n) = l
    BY <1>g
  <2> QED BY <1>3, <2>1, <2>2, <2>3
<1>8. \A y : y \in Elements(w) <=> \E v \in Elements(values), c \in Elements(cells) : y = e(v, c)
  <2>1. Elements(w) = {w[i] : i \in 1 .. N}
    BY <1>3 DEF Elements
  <2>2. \A y \in Elements(w) : \E v \in Elements(values), c \in Elements(cells) : y = e(v, c)
    BY <1>6, <2>1
  <2>3. \A v \in Elements(values), c \in Elements(cells) : e(v, c) \in Elements(w)
    BY <1>7, <2>1
  <2> QED BY <2>2, <2>3
<1>9. \A y : y \in Widened(a, Elements(values), Elements(cells)) <=>
            \E v \in Elements(values), c \in Elements(cells) : y = e(v, c)
  BY DEF Widened, e
<1>10. Elements(w) = Widened(a, Elements(values), Elements(cells))
  BY <1>8, <1>9
<1> QED BY <1>5, <1>10 DEF w

(* The combinations of the axes up to a.                                   *)
UptoAxis(axes, a) == {x \in DOMAIN axes : x <= a}
Picks(axes, A) ==
    {c \in [A -> UNION {Elements(axes[x]) : x \in DOMAIN axes}] : \A x \in A : c[x] \in Elements(axes[x])}

LEMMA PicksWiden ==
    ASSUME NEW axes, NEW A \in SUBSET DOMAIN axes, NEW a \in DOMAIN axes, a \notin A
    PROVE  Picks(axes, A \union {a}) = Widened(a, Elements(axes[a]), Picks(axes, A))
<1> DEFINE U == UNION {Elements(axes[x]) : x \in DOMAIN axes}
           B == A \union {a}
<1>1. ASSUME NEW v \in Elements(axes[a]), NEW c \in Picks(axes, A)
      PROVE  Overlay([x \in {a} |-> v], c) \in Picks(axes, B)
  <2>1. c \in [A -> U] /\ \A x \in A : c[x] \in Elements(axes[x])
    BY DEF Picks
  <2> DEFINE d == Overlay([x \in {a} |-> v], c)
             s == [x \in {a} |-> v]
  <2>2. DOMAIN s = {a} /\ s[a] = v /\ DOMAIN c = A
    BY <2>1
  <2>3. d = [x \in B |-> IF x \in {a} THEN s[x] ELSE c[x]]
    <3> HIDE DEF s
    <3>1. Overlay(s, c) = [x \in DOMAIN s \union DOMAIN c |-> IF x \in DOMAIN s THEN s[x] ELSE c[x]]
      BY DEF Overlay
    <3>2. DOMAIN s \union DOMAIN c = B
      BY <2>2
    <3> QED BY <2>2, <3>1, <3>2 DEF s
  <2> HIDE DEF d, s
  <2>4. \A x \in B : d[x] \in Elements(axes[x])
    BY <2>1, <2>2, <2>3
  <2>5. \A x \in B : d[x] \in U
    BY <2>4
  <2>6. d \in [B -> U]
    BY <2>3, <2>5
  <2>7. d \in Picks(axes, B)
    <3> HIDE DEF B
    <3> QED BY <2>4, <2>6 DEF Picks
  <2> QED BY <2>7 DEF d
<1>2. ASSUME NEW d \in Picks(axes, B)
      PROVE  \E v \in Elements(axes[a]), c \in Picks(axes, A) : d = Overlay([x \in {a} |-> v], c)
  <2>1. d \in [B -> U] /\ \A x \in B : d[x] \in Elements(axes[x])
    BY DEF Picks
  <2> DEFINE c == [x \in A |-> d[x]]
             s == [x \in {a} |-> d[a]]
  <2>2. c \in Picks(axes, A)
    BY <2>1 DEF Picks
  <2>3. DOMAIN s = {a} /\ s[a] = d[a] /\ DOMAIN c = A /\ \A x \in A : c[x] = d[x]
    OBVIOUS
  <2> HIDE DEF c, s
  <2>4. Overlay(s, c) = [x \in B |-> IF x \in {a} THEN s[x] ELSE c[x]]
    BY <2>3 DEF Overlay
  <2>5. Overlay(s, c) = d
    BY <2>1, <2>3, <2>4
  <2>6. d[a] \in Elements(axes[a])
    BY <2>1
  <2> QED BY <2>2, <2>5, <2>6 DEF s
<1> HIDE DEF B
<1>3. \A d : d \in Picks(axes, B) <=> \E v \in Elements(axes[a]), c \in Picks(axes, A) : d = Overlay([x \in {a} |-> v], c)
  BY <1>1, <1>2
<1> QED BY <1>3 DEF B, Widened

(* The product is every combination.                                       *)
LEMMA ProductIsCombinations ==
    ASSUME NEW m, IsMatrix(m), \A a \in DOMAIN m.axes : m.axes[a] # <<>>
    PROVE  IsList(Product(m.axes)) /\ Elements(Product(m.axes)) = Combinations(m.axes)
<1> DEFINE axes == m.axes
           N == LastAxis(axes)
           P == Products(axes)
           G == {a \in Nat : a <= N => IsList(P[a]) /\ Elements(P[a]) = Picks(axes, UptoAxis(axes, a))}
<1>0. N \in Nat /\ DOMAIN axes \subseteq Nat \ {0} /\ \A a \in DOMAIN axes : a \in 1 .. N
  BY LastAxisIs DEF IsMatrix
<1>a. \A a \in DOMAIN axes : IsList(axes[a]) /\ axes[a] # <<>>
  BY DEF IsMatrix
<1> HIDE DEF axes, N, P
<1>b. \A a \in 0 .. N : P[a] = IF a = 0 THEN <<<<>>>> ELSE ProductStep(axes, P[a - 1], a)
  BY <1>0, ProductEquation DEF N, P
<1>1. 0 \in G
  <2>1. P[0] = <<<<>>>>
    BY <1>0, <1>b
  <2>2. UptoAxis(axes, 0) = {}
    <3>1. \A a \in DOMAIN axes : ~(a <= 0)
      BY <1>0
    <3> QED BY <3>1 DEF UptoAxis
  <2>3. IsList(<<<<>>>>) /\ Elements(<<<<>>>>) = {<<>>}
    BY DEF IsList, Elements
  <2>4. Picks(axes, {}) = {<<>>}
    <3>1. \A c \in Picks(axes, {}) : c = <<>>
      BY EmptyFunction DEF Picks
    <3>2. <<>> \in [{} -> UNION {Elements(axes[x]) : x \in DOMAIN axes}]
      OBVIOUS
    <3>3. <<>> \in Picks(axes, {})
      BY <3>2, Zenon DEF Picks
    <3> QED BY <3>1, <3>3
  <2> QED BY <2>1, <2>2, <2>3, <2>4
<1>2. ASSUME NEW a \in Nat, a \in G PROVE a + 1 \in G
  <2> SUFFICES ASSUME a + 1 <= N
               PROVE  IsList(P[a + 1]) /\ Elements(P[a + 1]) = Picks(axes, UptoAxis(axes, a + 1))
    OBVIOUS
  <2>1. a <= N /\ a + 1 \in 0 .. N /\ a + 1 # 0 /\ (a + 1) - 1 = a
    BY <1>0
  <2>2. IsList(P[a]) /\ Elements(P[a]) = Picks(axes, UptoAxis(axes, a))
    BY <1>2, <2>1
  <2>3. P[a + 1] = ProductStep(axes, P[a], a + 1)
    BY <1>b, <2>1
  <2>4. CASE a + 1 \in DOMAIN axes
    <3>1. P[a + 1] = Widen(P[a], a + 1, axes[a + 1])
      BY <2>3, <2>4 DEF ProductStep
    <3>2. UptoAxis(axes, a + 1) = UptoAxis(axes, a) \union {a + 1} /\ a + 1 \notin UptoAxis(axes, a)
      BY <1>0, <2>4 DEF UptoAxis
    <3>3. P[a] \in Seq(Elements(P[a])) /\ axes[a + 1] \in Seq(Elements(axes[a + 1])) /\ axes[a + 1] # <<>>
      BY <1>a, <2>2, <2>4 DEF IsList
    <3>4. /\ IsList(P[a + 1])
          /\ Elements(P[a + 1]) = Widened(a + 1, Elements(axes[a + 1]), Elements(P[a]))
      BY <3>1, <3>3, WidenFacts
    <3>5. UptoAxis(axes, a) \in SUBSET DOMAIN axes
      BY DEF UptoAxis
    <3>6. Picks(axes, UptoAxis(axes, a) \union {a + 1}) =
              Widened(a + 1, Elements(axes[a + 1]), Picks(axes, UptoAxis(axes, a)))
      BY <2>4, <3>2, <3>5, PicksWiden
    <3> QED BY <2>2, <3>2, <3>4, <3>6
  <2>5. CASE a + 1 \notin DOMAIN axes
    <3>1. P[a + 1] = P[a]
      BY <2>3, <2>5 DEF ProductStep
    <3>2. UptoAxis(axes, a + 1) = UptoAxis(axes, a)
      BY <1>0, <2>5 DEF UptoAxis
    <3> QED BY <2>2, <3>1, <3>2
  <2> QED BY <2>4, <2>5
<1>3. N \in G
  <2> HIDE DEF G
  <2> QED BY <1>0, <1>1, <1>2, NatSetInduction
<1>4. IsList(P[N]) /\ Elements(P[N]) = Picks(axes, UptoAxis(axes, N))
  BY <1>0, <1>3
<1>5. UptoAxis(axes, N) = DOMAIN axes
  <2>1. \A a \in DOMAIN axes : a <= N
    BY <1>0
  <2> QED BY <2>1 DEF UptoAxis
<1>6. Picks(axes, DOMAIN axes) = Combinations(axes)
  BY DEF Picks, Combinations
<1> QED BY <1>4, <1>5, <1>6 DEF Product, P, N, axes


LEMMA ListOfElements ==
    ASSUME NEW C, NEW s \in Seq(C), NEW S, Elements(s) \subseteq S
    PROVE  s \in Seq(S) /\ IsList(s)
<1>1. s \in Seq(Elements(s))
  <2>1. Len(s) \in Nat /\ s \in [1 .. Len(s) -> Elements(s)]
    BY DEF Elements
  <2> QED BY <2>1, SeqDef
<1>2. s \in Seq(S)
  <2>1. Len(s) \in Nat /\ DOMAIN s = 1 .. Len(s) /\ \A i \in 1 .. Len(s) : s[i] \in S
    BY DEF Elements
  <2>2. s \in [1 .. Len(s) -> S]
    BY <2>1
  <2> QED BY <2>1, <2>2, SeqDef
<1> QED BY <1>1, <1>2 DEF IsList

LEMMA WithinFacts ==
    /\ \A f : Within(f, f)
    /\ \A f, g, h : Within(f, g) /\ Within(g, h) => Within(f, h)
    /\ \A f, g : Within(f, Overlay(f, g))
    /\ \A f, g : MatchesSubset(g, f) => Within(g, Overlay(f, g))
<1>1. \A f : Within(f, f)
  BY DEF Within
<1>2. \A f, g, h : Within(f, g) /\ Within(g, h) => Within(f, h)
  BY DEF Within
<1>3. \A f, g : Within(f, Overlay(f, g))
  BY DEF Within, Overlay
<1>4. \A f, g : MatchesSubset(g, f) => Within(g, Overlay(f, g))
  <2> SUFFICES ASSUME NEW f, NEW g, MatchesSubset(g, f) PROVE Within(g, Overlay(f, g))
    OBVIOUS
  <2>1. DOMAIN Overlay(f, g) = DOMAIN f \union DOMAIN g
    BY DEF Overlay
  <2>2. ASSUME NEW k \in DOMAIN g PROVE g[k] = Overlay(f, g)[k]
    <3>1. CASE k \in DOMAIN f
      <4>1. f[k] = g[k]
        BY <3>1 DEF MatchesSubset
      <4> QED BY <3>1, <4>1 DEF Overlay
    <3>2. CASE k \notin DOMAIN f
      BY <3>2 DEF Overlay
    <3> QED BY <3>1, <3>2
  <2> QED BY <2>1, <2>2 DEF Within
<1> QED BY <1>1, <1>2, <1>3, <1>4

LEMMA MergeFacts ==
    ASSUME NEW cells, IsList(cells), NEW entry
    PROVE  /\ IsList(Merge(cells, entry))
           /\ \A c \in Elements(cells) : \E d \in Elements(Merge(cells, entry)) : Within(c, d)
           /\ \E d \in Elements(Merge(cells, entry)) : Within(entry, d)
           /\ \A d \in Elements(Merge(cells, entry)) :
                  Within(entry, d) \/ \E c \in Elements(cells) : Within(c, d)
<1> DEFINE hit == {i \in DOMAIN cells : MatchesSubset(cells[i], entry)}
           w == Merge(cells, entry)
<1>0. cells \in Seq(Elements(cells)) /\ Len(cells) \in Nat /\ DOMAIN cells = 1 .. Len(cells)
  BY DEF IsList
<1>a. w = IF hit = {} THEN Append(cells, entry)
          ELSE [i \in DOMAIN cells |-> IF i \in hit THEN Overlay(entry, cells[i]) ELSE cells[i]]
  BY DEF Merge
<1>b. \A i \in hit : i \in DOMAIN cells /\ MatchesSubset(cells[i], entry)
  OBVIOUS
<1> HIDE DEF hit, w
<1>1. CASE hit = {}
  <2>1. w = Append(cells, entry)
    BY <1>1, <1>a
  <2>2. w \in Seq(Elements(cells) \union {entry}) /\ Elements(w) = Elements(cells) \union {entry}
    <3>1. cells \in Seq(Elements(cells) \union {entry})
      BY <1>0, ListOfElements
    <3> QED BY <2>1, <3>1, AppendFacts
  <2>3. IsList(w)
    BY <2>2, ListOfElements
  <2> QED BY <2>2, <2>3, WithinFacts DEF w
<1>2. CASE hit # {}
  <2>1. w = [i \in 1 .. Len(cells) |-> IF i \in hit THEN Overlay(entry, cells[i]) ELSE cells[i]]
    BY <1>0, <1>2, <1>a
  <2>2. DOMAIN w = 1 .. Len(cells) /\ w = [i \in 1 .. Len(cells) |-> w[i]]
    BY <2>1
  <2>3. IsList(w)
    BY <1>0, <2>2, ListOfDomain
  <2>4. ASSUME NEW i \in DOMAIN cells PROVE w[i] \in Elements(w) /\ Within(cells[i], w[i]) /\ cells[i] \in Elements(cells)
    <3>1. w[i] \in Elements(w) /\ cells[i] \in Elements(cells)
      BY <1>0, <2>2 DEF Elements
    <3>2. CASE i \in hit
      BY <1>0, <1>b, <2>1, <3>1, <3>2, WithinFacts
    <3>3. CASE i \notin hit
      BY <1>0, <2>1, <3>1, <3>3, WithinFacts
    <3> QED BY <3>2, <3>3
  <2>5. PICK i \in hit : i \in DOMAIN cells
    BY <1>2, <1>b
  <2>6. w[i] \in Elements(w) /\ Within(entry, w[i])
    BY <1>0, <2>1, <2>4, <2>5, WithinFacts
  <2>7. \A c \in Elements(cells) : \E k \in DOMAIN cells : c = cells[k]
    BY DEF Elements
  <2>8. \A d \in Elements(w) : \E k \in DOMAIN cells : d = w[k]
    BY <1>0, <2>2 DEF Elements
  <2> QED BY <2>3, <2>4, <2>6, <2>7, <2>8 DEF w
<1> QED BY <1>1, <1>2

LEMMA MergedEquation ==
    ASSUME NEW m, IsList(m.include), NEW start
    PROVE  \A i \in 0 .. Len(m.include) :
               Merged(m, start)[i] = IF i = 0 THEN start ELSE Merge(Merged(m, start)[i - 1], m.include[i])
<1> DEFINE Is(g, n) == g = [i \in 0 .. n |-> IF i = 0 THEN start ELSE Merge(g[i - 1], m.include[i])]
           G == {n \in Nat : \E g : Is(g, n)}
<1>1. 0 \in G
  <2> DEFINE g == [i \in 0 .. 0 |-> start]
  <2>1. \A i \in 0 .. 0 : i = 0
    OBVIOUS
  <2>2. Is(g, 0)
    BY <2>1
  <2> QED BY <2>2
<1>2. ASSUME NEW n \in Nat, n \in G PROVE n + 1 \in G
  <2>1. PICK g : Is(g, n)
    BY <1>2
  <2> DEFINE h == [i \in 0 .. n + 1 |-> IF i = n + 1 THEN Merge(g[n], m.include[n + 1]) ELSE g[i]]
  <2>2. ASSUME NEW i \in 0 .. n + 1 PROVE h[i] = IF i = 0 THEN start ELSE Merge(h[i - 1], m.include[i])
    <3>1. CASE i = n + 1
      <4>1. i # 0 /\ i - 1 = n /\ n \in 0 .. n + 1 /\ n # n + 1
        BY <3>1
      <4>2. h[n] = g[n]
        BY <4>1
      <4> QED BY <3>1, <4>1, <4>2
    <3>2. CASE i # n + 1
      <4>1. i \in 0 .. n
        BY <3>2
      <4>2. g[i] = IF i = 0 THEN start ELSE Merge(g[i - 1], m.include[i])
        BY <2>1, <4>1
      <4>3. i # 0 => i - 1 \in 0 .. n + 1 /\ i - 1 # n + 1
        BY <4>1
      <4>4. i # 0 => h[i - 1] = g[i - 1]
        BY <4>3
      <4>5. h[i] = g[i]
        BY <3>2
      <4> HIDE DEF h
      <4> QED BY <4>2, <4>4, <4>5
    <3> QED BY <3>1, <3>2
  <2>3. Is(h, n + 1)
    <3>1. h = [i \in 0 .. n + 1 |-> h[i]]
      OBVIOUS
    <3> HIDE DEF h
    <3> QED BY <2>2, <3>1
  <2> HIDE DEF h, Is
  <2> QED BY <2>3
<1>3. Len(m.include) \in G
  <2>1. Len(m.include) \in Nat
    BY DEF IsList
  <2> HIDE DEF G
  <2> QED BY <1>1, <1>2, <2>1, NatSetInduction
<1>4. PICK g : Is(g, Len(m.include))
  BY <1>3
<1>5. Merged(m, start) = CHOOSE h : Is(h, Len(m.include))
  BY DEF Merged
<1>6. Is(Merged(m, start), Len(m.include))
  <2> HIDE DEF Is
  <2> QED BY <1>4, <1>5
<1> QED BY <1>6


LEMMA KeptFacts ==
    ASSUME NEW m, NEW cells, IsList(cells)
    PROVE  /\ IsList(Kept(m, cells))
           /\ Elements(Kept(m, cells)) = {c \in Elements(cells) : ~\E e \in m.exclude : MatchesSubset(c, e)}
<1> DEFINE S == {c \in Elements(cells) : ~\E e \in m.exclude : MatchesSubset(c, e)}
<1>1. Kept(m, cells) = Selected(cells, S)
  BY DEF Kept
<1>2. S \subseteq Elements(cells)
  OBVIOUS
<1> HIDE DEF S
<1>3. cells \in Seq(Elements(cells))
  BY DEF IsList
<1>4. Elements(Selected(cells, S)) = Elements(cells) \intersect S
  BY <1>3, SelectedFacts
<1>5. Elements(Selected(cells, S)) = S
  BY <1>2, <1>4
<1>6. Selected(cells, S) \in Seq(Elements(cells))
  BY <1>3, SelectedFacts
<1>7. IsList(Selected(cells, S))
  BY <1>6, ListOfElements
<1> QED BY <1>1, <1>5, <1>7 DEF S

(* What expand_matrix returns, by the include entries merged so far.       *)
LEMMA ExpandMatrixIsExact ==
    ASSUME NEW m, IsMatrix(m), \A a \in DOMAIN m.axes : m.axes[a] # <<>>, NEW wanted,
           wanted = {c \in Combinations(m.axes) : ~\E e \in m.exclude : MatchesSubset(c, e)}
    PROVE  /\ IsList(ExpandMatrix(m))
           /\ \A c \in wanted \union Elements(m.include) : \E d \in Elements(ExpandMatrix(m)) : Within(c, d)
           /\ \A d \in Elements(ExpandMatrix(m)) : \E c \in wanted \union Elements(m.include) : Within(c, d)
<1> DEFINE start == Kept(m, Product(m.axes))
           M == Merged(m, start)
           N == Len(m.include)
           G == {i \in Nat : i <= N =>
                    /\ IsList(M[i])
                    /\ \A c \in wanted : \E d \in Elements(M[i]) : Within(c, d)
                    /\ \A j \in 1 .. i : \E d \in Elements(M[i]) : Within(m.include[j], d)
                    /\ \A d \in Elements(M[i]) : \E c \in wanted \union Elements(m.include) : Within(c, d)}
<1>0. IsList(m.include) /\ N \in Nat /\ DOMAIN m.include = 1 .. N
  BY DEF IsMatrix, IsList
<1>1. IsList(start) /\ Elements(start) = wanted
  BY ProductIsCombinations, KeptFacts
<1>2. ExpandMatrix(m) = M[N]
  BY DEF ExpandMatrix
<1>3. \A i \in 0 .. N : M[i] = IF i = 0 THEN start ELSE Merge(M[i - 1], m.include[i])
  BY <1>0, MergedEquation
<1> HIDE DEF start, M, N
<1>4. 0 \in G
  <2>1. M[0] = start
    BY <1>0, <1>3
  <2>2. 1 .. 0 = {}
    OBVIOUS
  <2> QED BY <1>1, <2>1, <2>2, WithinFacts
<1>5. ASSUME NEW i \in Nat, i \in G PROVE i + 1 \in G
  <2> SUFFICES ASSUME i + 1 <= N
               PROVE  /\ IsList(M[i + 1])
                      /\ \A c \in wanted : \E d \in Elements(M[i + 1]) : Within(c, d)
                      /\ \A j \in 1 .. i + 1 : \E d \in Elements(M[i + 1]) : Within(m.include[j], d)
                      /\ \A d \in Elements(M[i + 1]) : \E c \in wanted \union Elements(m.include) : Within(c, d)
    OBVIOUS
  <2>1. i <= N /\ i + 1 \in 0 .. N /\ i + 1 # 0 /\ (i + 1) - 1 = i /\ i + 1 \in 1 .. N
    BY <1>0
  <2>2. /\ IsList(M[i])
        /\ \A c \in wanted : \E d \in Elements(M[i]) : Within(c, d)
        /\ \A j \in 1 .. i : \E d \in Elements(M[i]) : Within(m.include[j], d)
        /\ \A d \in Elements(M[i]) : \E c \in wanted \union Elements(m.include) : Within(c, d)
    BY <1>5, <2>1
  <2> HIDE DEF G
  <2> DEFINE entry == m.include[i + 1]
  <2>3. M[i + 1] = Merge(M[i], entry)
    BY <1>3, <2>1
  <2>4. entry \in Elements(m.include)
    BY <1>0, <2>1 DEF Elements
  <2> HIDE DEF entry
  <2>5. /\ IsList(M[i + 1])
        /\ \A c \in Elements(M[i]) : \E d \in Elements(M[i + 1]) : Within(c, d)
        /\ \E d \in Elements(M[i + 1]) : Within(entry, d)
        /\ \A d \in Elements(M[i + 1]) : Within(entry, d) \/ \E c \in Elements(M[i]) : Within(c, d)
    BY <2>2, <2>3, MergeFacts
  <2>6. \A c \in wanted : \E d \in Elements(M[i + 1]) : Within(c, d)
    BY <2>2, <2>5, WithinFacts
  <2>7. ASSUME NEW j \in 1 .. i + 1 PROVE \E d \in Elements(M[i + 1]) : Within(m.include[j], d)
    <3>1. CASE j = i + 1
      BY <2>5, <3>1 DEF entry
    <3>2. CASE j # i + 1
      <4>1. j \in 1 .. i
        BY <3>2
      <4> QED BY <2>2, <2>5, <4>1, WithinFacts
    <3> QED BY <3>1, <3>2
  <2>8. \A d \in Elements(M[i + 1]) : \E c \in wanted \union Elements(m.include) : Within(c, d)
    BY <2>2, <2>4, <2>5, WithinFacts
  <2> QED BY <2>5, <2>6, <2>7, <2>8
<1>6. N \in G
  <2> HIDE DEF G
  <2> QED BY <1>0, <1>4, <1>5, NatSetInduction
<1>7. /\ IsList(M[N])
      /\ \A c \in wanted : \E d \in Elements(M[N]) : Within(c, d)
      /\ \A j \in 1 .. N : \E d \in Elements(M[N]) : Within(m.include[j], d)
      /\ \A d \in Elements(M[N]) : \E c \in wanted \union Elements(m.include) : Within(c, d)
  <2>1. N <= N
    BY <1>0
  <2> QED BY <1>6, <2>1
<1>8. \A c \in Elements(m.include) : \E j \in 1 .. N : c = m.include[j]
  BY <1>0 DEF Elements
<1> HIDE DEF G
<1> QED BY <1>2, <1>7, <1>8

(* As many ids as jobs: no two jobs share one.                             *)
LEMMA IdsApart ==
    ASSUME NEW wf, IsList(wf.jobs)
    PROVE  /\ IsList(AllIds(wf)) /\ Len(AllIds(wf)) = Len(wf.jobs) /\ Elements(AllIds(wf)) = Ids(wf)
           /\ Cardinality(Ids(wf)) = Len(wf.jobs) =>
                  \A i, k \in DOMAIN wf.jobs : wf.jobs[i].id = wf.jobs[k].id => i = k
<1> DEFINE N == Len(wf.jobs)
<1>1. N \in Nat /\ DOMAIN wf.jobs = 1 .. N
  BY DEF IsList
<1>2. PICK a : a = AllIds(wf)
  OBVIOUS
<1>3. a = [i \in 1 .. N |-> wf.jobs[i].id]
  BY <1>1, <1>2 DEF AllIds
<1>4. DOMAIN a = 1 .. N /\ (\A i \in 1 .. N : a[i] = wf.jobs[i].id) /\ a = [i \in 1 .. N |-> a[i]]
  BY <1>3
<1>5. Elements(a) = Ids(wf)
  BY <1>1, <1>4 DEF Elements, Ids
<1>6. IsList(a) /\ Len(a) = N
  BY <1>1, <1>4, ListOfDomain
<1>7. ASSUME Cardinality(Ids(wf)) = N PROVE \A i, k \in 1 .. N : wf.jobs[i].id = wf.jobs[k].id => i = k
  <2>1. a \in Seq(Elements(a))
    BY <1>6 DEF IsList
  <2>2. Distinct(a)
    BY <1>5, <1>6, <1>7, <2>1, ElementsFinite
  <2> QED BY <1>4, <2>2 DEF Distinct
<1> HIDE DEF N
<1> QED BY <1>1, <1>2, <1>5, <1>6, <1>7 DEF N

-----------------------------------------------------------------------------
(* Replacing one value.                                                    *)

LEMMA StandsPointwise ==
    ASSUME NEW C, NEW text \in Seq(C), NEW v \in Seq(C), NEW i \in Nat \ {0}
    PROVE  Stands(text, v, i) <=>
               i + Len(v) - 1 <= Len(text) /\ \A k \in 1 .. Len(v) : text[i + k - 1] = v[k]
<1> DEFINE n == Len(v)
           j == i + Len(v) - 1
<1>0. n \in Nat /\ Len(text) \in Nat /\ i \in Nat /\ j \in Int /\ j = i + n - 1
  OBVIOUS
<1> SUFFICES ASSUME j <= Len(text)
             PROVE  SubSeq(text, i, j) = v <=> \A k \in 1 .. n : text[i + k - 1] = v[k]
  BY DEF Stands
<1> HIDE DEF n, j
<1>1. \A k \in i .. j : text[k] \in C
  <2> SUFFICES ASSUME NEW k \in i .. j PROVE text[k] \in C
    OBVIOUS
  <2>1. k \in 1 .. Len(text)
    BY <1>0
  <2> QED BY <2>1, ElementOfSeq
<1>2. /\ SubSeq(text, i, j) \in Seq(C)
      /\ Len(SubSeq(text, i, j)) = IF i <= j THEN j - i + 1 ELSE 0
      /\ \A k \in 1 .. j - i + 1 : SubSeq(text, i, j)[k] = text[i + k - 1]
  BY <1>0, <1>1, SubSeqProperties
<1> DEFINE u == SubSeq(text, i, j)
<1> HIDE DEF u
<1>3. u \in Seq(C) /\ Len(u) = n /\ \A k \in 1 .. n : u[k] = text[i + k - 1]
  <2>1. j - i + 1 = n /\ (i <= j <=> n > 0)
    BY <1>0
  <2>2. (IF i <= j THEN j - i + 1 ELSE 0) = n
    BY <1>0, <2>1
  <2> QED BY <1>2, <2>1, <2>2 DEF u
<1>4. u = v <=> \A k \in 1 .. n : u[k] = v[k]
  <2>1. Len(v) = n
    BY DEF n
  <2> QED BY <1>3, <2>1, SeqEqual
<1> QED BY <1>3, <1>4 DEF u

ReplaceBody(text, v, f, i) ==
    IF i > Len(text) THEN <<>>
    ELSE IF Stands(text, v, i) THEN Redacted \o f[i + Len(v)]
    ELSE <<text[i]>> \o f[i + 1]

LEMMA ReplaceEquation ==
    ASSUME NEW C, "*" \in C, NEW text \in Seq(C), NEW v \in Seq(C), Len(v) > 0
    PROVE  /\ ReplaceFrom(text, v) \in [1 .. Len(text) + 1 -> Seq(C)]
           /\ \A i \in 1 .. Len(text) + 1 : ReplaceFrom(text, v)[i] = ReplaceBody(text, v, ReplaceFrom(text, v), i)
<1> DEFINE L == Len(text)
           D == 1 .. L + 1
           V == Seq(C)
           m == [y \in D |-> L + 1 - y]
           F == [y \in D |-> [f \in [D -> V] |-> ReplaceBody(text, v, f, y)]]
           Rf == ReplaceFrom(text, v)
<1>0. L \in Nat /\ Len(v) \in Nat /\ Redacted \in V /\ <<>> \in V /\ \A y \in 1 .. L : <<text[y]>> \in V
  <2>1. L \in Nat /\ Len(v) \in Nat /\ <<>> \in V /\ \A y \in 1 .. L : text[y] \in C
    OBVIOUS
  <2> QED BY <2>1 DEF Redacted
<1>d. ASSUME NEW y \in D, ~(y > L)
      PROVE  /\ y \in 1 .. L /\ y + 1 \in D /\ L + 1 - (y + 1) < L + 1 - y
             /\ Stands(text, v, y) => y + Len(v) \in D /\ L + 1 - (y + Len(v)) < L + 1 - y
  <2> HIDE DEF L
  <2>1. Stands(text, v, y) => y + Len(v) - 1 <= L
    BY DEF Stands, L
  <2> QED BY <1>0, <1>d, <2>1
<1> HIDE DEF L, Rf
<1>1. m \in [D -> 0 .. L + 1]
  BY <1>0
<1>2. ASSUME NEW y \in D, NEW f \in [D -> V] PROVE ReplaceBody(text, v, f, y) \in V
  <2>1. \A z \in D : f[z] \in V
    OBVIOUS
  <2>2. CASE y > L
    BY <1>0, <2>2 DEF ReplaceBody, L
  <2>3. CASE ~(y > L) /\ Stands(text, v, y)
    <3>1. f[y + Len(v)] \in V
      BY <1>d, <2>1, <2>3
    <3>2. ReplaceBody(text, v, f, y) = Redacted \o f[y + Len(v)]
      BY <2>3 DEF ReplaceBody, L
    <3> QED BY <1>0, <3>1, <3>2, ConcatProperties
  <2>4. CASE ~(y > L) /\ ~Stands(text, v, y)
    <3>1. f[y + 1] \in V /\ <<text[y]>> \in V
      BY <1>0, <1>d, <2>1, <2>4
    <3>2. ReplaceBody(text, v, f, y) = <<text[y]>> \o f[y + 1]
      BY <2>4 DEF ReplaceBody, L
    <3> QED BY <3>1, <3>2, ConcatProperties
  <2> QED BY <2>2, <2>3, <2>4
<1>3. ASSUME NEW y \in D, NEW g \in [D -> V], NEW h \in [D -> V], \A z \in D : m[z] < m[y] => g[z] = h[z]
      PROVE  ReplaceBody(text, v, g, y) = ReplaceBody(text, v, h, y)
  <2>1. ASSUME NEW z \in D, L + 1 - z < L + 1 - y PROVE g[z] = h[z]
    BY <1>3, <2>1
  <2> HIDE DEF D, m
  <2> QED BY <1>d, <2>1 DEF ReplaceBody, L
<1> HIDE DEF V
<1>4. Descends(D, V, m, F)
  <2>1. F \in [D -> [[D -> V] -> V]]
    <3> HIDE DEF D
    <3> QED BY <1>2
  <2>2. \A y \in D : \A f \in [D -> V] : F[y][f] = ReplaceBody(text, v, f, y)
    <3> HIDE DEF D
    <3> QED OBVIOUS
  <2>3. \A y \in D : \A g, h \in [D -> V] :
            (\A z \in D : m[z] < m[y] => g[z] = h[z]) => F[y][g] = F[y][h]
    <3> HIDE DEF D, F, m, V
    <3> QED BY <1>3, <2>2
  <2>4. V # {} /\ \E k \in Nat : m \in [D -> 0 .. k]
    <3>1. L + 1 \in Nat
      BY <1>0
    <3> HIDE DEF D, m
    <3> QED BY <1>0, <1>1, <3>1
  <2> HIDE DEF D, F, m, V
  <2> QED BY <2>1, <2>3, <2>4 DEF Descends
<1>5. PICK f \in [D -> V] : \A y \in D : f[y] = F[y][f]
  <2> HIDE DEF D, F, m, V
  <2> QED BY <1>4, RecursionHasSolution
<1>6. f = [y \in D |-> ReplaceBody(text, v, f, y)]
  <2>1. \A y \in D : f[y] = ReplaceBody(text, v, f, y)
    <3> HIDE DEF D
    <3> QED BY <1>5
  <2> HIDE DEF D, F, V
  <2> QED BY <2>1
<1>7. Rf = CHOOSE g : g = [y \in D |-> ReplaceBody(text, v, g, y)]
  BY DEF Rf, L, ReplaceFrom, ReplaceBody
<1>8. Rf = [y \in D |-> ReplaceBody(text, v, Rf, y)]
  <2> HIDE DEF D
  <2> QED BY <1>6, <1>7
<1>9. \A y \in D : Rf[y] = ReplaceBody(text, v, Rf, y)
  <2> HIDE DEF D
  <2> QED BY <1>8
<1> DEFINE G == {y \in D : Rf[y] \in V}
<1>10. ASSUME NEW y \in D, \A z \in D : m[z] < m[y] => z \in G PROVE y \in G
  <2>1. ASSUME NEW z \in D, L + 1 - z < L + 1 - y PROVE Rf[z] \in V
    BY <1>10, <2>1
  <2>2. CASE y > L
    BY <1>0, <1>9, <2>2 DEF ReplaceBody, L
  <2>3. CASE ~(y > L) /\ Stands(text, v, y)
    <3>1. Rf[y + Len(v)] \in V
      BY <1>d, <2>1, <2>3
    <3>2. Rf[y] = Redacted \o Rf[y + Len(v)]
      BY <1>9, <2>3 DEF ReplaceBody, L
    <3>3. Rf[y] \in V
      BY <1>0, <3>1, <3>2, ConcatProperties DEF V
    <3> QED BY <3>3
  <2>4. CASE ~(y > L) /\ ~Stands(text, v, y)
    <3>1. Rf[y + 1] \in V /\ <<text[y]>> \in V
      BY <1>0, <1>d, <2>1, <2>4
    <3>2. Rf[y] = <<text[y]>> \o Rf[y + 1]
      BY <1>9, <2>4 DEF ReplaceBody, L
    <3>3. Rf[y] \in V
      BY <3>1, <3>2, ConcatProperties DEF V
    <3> QED BY <3>3
  <2> QED BY <2>2, <2>3, <2>4
<1>11. \A y \in D : y \in G
  <2>1. m \in [D -> Nat]
    BY <1>0
  <2> HIDE DEF D, G, m
  <2> QED BY <1>10, <2>1, MeasureInduction
<1>12. Rf \in [D -> V]
  <2> HIDE DEF D, V
  <2> QED BY <1>8, <1>11
<1> QED BY <1>9, <1>12 DEF Rf, L, V

(* Induction from the end of a text.                                       *)
LEMMA FromTheEnd ==
    ASSUME NEW L \in Nat, NEW G,
           \A i \in 1 .. L + 1 : (\A k \in 1 .. L + 1 : i < k => k \in G) => i \in G
    PROVE  \A i \in 1 .. L + 1 : i \in G
<1> DEFINE D == 1 .. L + 1
           m == [y \in D |-> L + 1 - y]
<1>1. m \in [D -> Nat]
  OBVIOUS
<1>2. ASSUME NEW i \in D, \A k \in D : m[k] < m[i] => k \in G PROVE i \in G
  <2>1. ASSUME NEW k \in D, i < k PROVE k \in G
    <3>1. m[k] < m[i]
      BY <2>1
    <3> QED BY <1>2, <3>1
  <2> QED BY <2>1
<1>3. \A i \in D : i \in G
  <2> HIDE DEF D, m
  <2> QED BY <1>1, <1>2, MeasureInduction
<1> QED BY <1>3

(* What comes of the text from i on.                                       *)
AtEnd(C, text, v, i) == ReplaceFrom(text, v)[i] = <<>>

AtHit(C, text, v, i) ==
    LET Rf == ReplaceFrom(text, v)
        j == i + Len(v)
    IN  /\ j \in 1 .. Len(text) + 1 /\ i < j /\ Rf[j] \in Seq(C)
        /\ Rf[i] = Redacted \o Rf[j]
        /\ Len(Rf[i]) = 3 + Len(Rf[j])
        /\ \A k \in 1 .. 3 : Rf[i][k] = "*"
        /\ \A k \in 1 .. Len(Rf[j]) : Rf[i][k + 3] = Rf[j][k]

AtMiss(C, text, v, i) ==
    LET Rf == ReplaceFrom(text, v)
        j == i + 1
    IN  /\ j \in 1 .. Len(text) + 1 /\ i < j /\ Rf[j] \in Seq(C)
        /\ Rf[i] = <<text[i]>> \o Rf[j]
        /\ Len(Rf[i]) = 1 + Len(Rf[j])
        /\ Rf[i][1] = text[i]
        /\ \A k \in 1 .. Len(Rf[j]) : Rf[i][k + 1] = Rf[j][k]

LEMMA ReplaceCases ==
    ASSUME NEW C, "*" \in C, NEW text \in Seq(C), NEW v \in Seq(C), Len(v) > 0,
           NEW i \in 1 .. Len(text) + 1
    PROVE  /\ ReplaceFrom(text, v)[i] \in Seq(C) /\ Len(ReplaceFrom(text, v)[i]) \in Nat
           /\ i = Len(text) + 1 => AtEnd(C, text, v, i)
           /\ i # Len(text) + 1 /\ Stands(text, v, i) => AtHit(C, text, v, i)
           /\ i # Len(text) + 1 /\ ~Stands(text, v, i) => AtMiss(C, text, v, i)
<1> DEFINE Rf == ReplaceFrom(text, v)
           L == Len(text)
<1>1. L \in Nat /\ Len(v) \in Nat
  OBVIOUS
<1>2. (\A k \in 1 .. L + 1 : Rf[k] \in Seq(C)) /\ Rf[i] = ReplaceBody(text, v, Rf, i)
  BY ReplaceEquation
<1> HIDE DEF Rf
<1>3. Rf[i] \in Seq(C) /\ Len(Rf[i]) \in Nat
  BY <1>2
<1>4. CASE i = L + 1
  <2>1. i > L
    BY <1>1, <1>4
  <2> QED BY <1>2, <1>3, <1>4, <2>1 DEF ReplaceBody, Rf, AtEnd
<1>5. CASE i # L + 1 /\ Stands(text, v, i)
  <2>1. i + Len(v) - 1 <= L /\ ~(i > L)
    BY <1>1, <1>5 DEF Stands
  <2>2. i + Len(v) \in 1 .. L + 1 /\ i < i + Len(v)
    BY <1>1, <2>1
  <2>3. Rf[i] = Redacted \o Rf[i + Len(v)] /\ Rf[i + Len(v)] \in Seq(C)
    BY <1>2, <1>5, <2>1, <2>2 DEF ReplaceBody
  <2>4. Redacted \in Seq(C) /\ Len(Redacted) = 3 /\ \A k \in 1 .. 3 : Redacted[k] = "*"
    BY DEF Redacted
  <2> DEFINE z == Rf[i + Len(v)]
  <2> HIDE DEF z
  <2>5. /\ Len(Redacted \o z) = Len(Redacted) + Len(z)
        /\ \A k \in 1 .. Len(Redacted) + Len(z) :
               (Redacted \o z)[k] = IF k <= Len(Redacted) THEN Redacted[k] ELSE z[k - Len(Redacted)]
    BY <2>3, <2>4, ConcatProperties DEF z
  <2>6. Len(z) \in Nat /\ Rf[i] = Redacted \o z
    BY <2>3 DEF z
  <2>7. Len(Rf[i]) = 3 + Len(z) /\ \A k \in 1 .. 3 : Rf[i][k] = "*"
    BY <2>4, <2>5, <2>6
  <2>8. ASSUME NEW k \in 1 .. Len(z) PROVE Rf[i][k + 3] = z[k]
    <3>1. k + 3 \in 1 .. 3 + Len(z) /\ ~(k + 3 <= 3) /\ (k + 3) - 3 = k
      BY <2>6
    <3> QED BY <2>4, <2>5, <2>6, <3>1
  <2>9. \A k \in 1 .. Len(z) : Rf[i][k + 3] = z[k]
    BY <2>8
  <2> QED BY <1>3, <1>5, <2>2, <2>3, <2>7, <2>9 DEF z, Rf, AtHit
<1>6. CASE i # L + 1 /\ ~Stands(text, v, i)
  <2>1. ~(i > L) /\ i \in 1 .. L
    BY <1>1, <1>6
  <2>2. i + 1 \in 1 .. L + 1 /\ i < i + 1
    BY <1>1, <2>1
  <2>3. Rf[i] = <<text[i]>> \o Rf[i + 1] /\ Rf[i + 1] \in Seq(C)
    BY <1>2, <1>6, <2>1, <2>2 DEF ReplaceBody
  <2>4. text[i] \in C
    BY <2>1
  <2> DEFINE z == Rf[i + 1]
             c == <<text[i]>>
  <2>c. c \in Seq(C) /\ Len(c) = 1 /\ c[1] = text[i]
    BY <2>4
  <2> HIDE DEF z, c
  <2>5. /\ Len(c \o z) = Len(c) + Len(z)
        /\ \A k \in 1 .. Len(c) + Len(z) :
               (c \o z)[k] = IF k <= Len(c) THEN c[k] ELSE z[k - Len(c)]
    BY <2>3, <2>c, ConcatProperties DEF z
  <2>6. Len(z) \in Nat /\ Rf[i] = c \o z
    BY <2>3 DEF z, c
  <2>7. Len(Rf[i]) = 1 + Len(z) /\ Rf[i][1] = text[i]
    BY <2>c, <2>5, <2>6
  <2>8. ASSUME NEW k \in 1 .. Len(z) PROVE Rf[i][k + 1] = z[k]
    <3>1. k + 1 \in 1 .. 1 + Len(z) /\ ~(k + 1 <= 1) /\ (k + 1) - 1 = k
      BY <2>6
    <3> QED BY <2>c, <2>5, <2>6, <3>1
  <2>9. \A k \in 1 .. Len(z) : Rf[i][k + 1] = z[k]
    BY <2>8
  <2> QED BY <1>3, <1>6, <2>2, <2>3, <2>7, <2>9 DEF z, Rf, AtMiss
<1> QED BY <1>4, <1>5, <1>6

IsText(text, v, i, k) ==
    /\ i + k - 1 <= Len(text)
    /\ \A p \in 1 .. k : text[i + p - 1] = ReplaceFrom(text, v)[i][p]
    /\ k > 0 => ~Stands(text, v, i)

(* A stretch of the result without a star is a stretch of the text that    *)
(* does not begin with the value.                                          *)
LEMMA BareIsText ==
    ASSUME NEW C, "*" \in C, NEW text \in Seq(C), NEW v \in Seq(C), Len(v) > 0
    PROVE  \A i \in 1 .. Len(text) + 1 : \A k \in 0 .. Len(ReplaceFrom(text, v)[i]) :
               (\A p \in 1 .. k : ReplaceFrom(text, v)[i][p] # "*") =>
                   IsText(text, v, i, k)
<1> DEFINE Rf == ReplaceFrom(text, v)
           L == Len(text)
           Bare(i, k) == \A p \in 1 .. k : Rf[i][p] # "*"
           Is(i, k) == /\ i + k - 1 <= L
                       /\ \A p \in 1 .. k : text[i + p - 1] = Rf[i][p]
                       /\ k > 0 => ~Stands(text, v, i)
           G == {i \in 1 .. L + 1 : \A k \in 0 .. Len(Rf[i]) : Bare(i, k) => Is(i, k)}
<1>0. L \in Nat
  OBVIOUS
<1>1. ASSUME NEW i \in 1 .. L + 1, \A j \in 1 .. L + 1 : i < j => j \in G PROVE i \in G
  <2> SUFFICES ASSUME NEW k \in 0 .. Len(Rf[i]), Bare(i, k) PROVE Is(i, k)
    OBVIOUS
  <2>g. \A j \in 1 .. L + 1 : i < j => \A l \in 0 .. Len(Rf[j]) : Bare(j, l) => Is(j, l)
    BY <1>1
  <2> HIDE DEF G, Bare, Is
  <2>0. Len(Rf[i]) \in Nat
    BY ReplaceCases
  <2>1. CASE k = 0
    <3>1. 1 .. k = {} /\ i + k - 1 <= L
      BY <1>0, <2>1
    <3> QED BY <2>1, <3>1 DEF Is
  <2>2. CASE k # 0
    <3>1. 1 \in 1 .. k /\ Rf[i][1] # "*"
      BY <2>0, <2>2 DEF Bare
    <3>2. i # L + 1
      <4> SUFFICES ASSUME i = L + 1 PROVE FALSE
        OBVIOUS
      <4>1. Rf[i] = <<>>
        <5>1. AtEnd(C, text, v, i)
          BY ReplaceCases
        <5> QED BY <5>1 DEF AtEnd
      <4> QED BY <2>2, <4>1
    <3>3. ~Stands(text, v, i)
      <4> SUFFICES ASSUME Stands(text, v, i) PROVE FALSE
        OBVIOUS
      <4>1. \A q \in 1 .. 3 : Rf[i][q] = "*"
        <5>1. AtHit(C, text, v, i)
          BY <3>2, ReplaceCases
        <5> QED BY <5>1 DEF AtHit
      <4> QED BY <3>1, <4>1
    <3> DEFINE z == Rf[i + 1]
    <3>4. /\ i + 1 \in 1 .. L + 1 /\ i < i + 1 /\ z \in Seq(C)
          /\ Len(Rf[i]) = 1 + Len(z)
          /\ Rf[i][1] = text[i]
          /\ \A q \in 1 .. Len(z) : Rf[i][q + 1] = z[q]
      <4>1. AtMiss(C, text, v, i)
        BY <3>2, <3>3, ReplaceCases
      <4> QED BY <4>1 DEF AtMiss
    <3>5. \A l \in 0 .. Len(z) : Bare(i + 1, l) => Is(i + 1, l)
      BY <2>g, <3>4
    <3> HIDE DEF Rf
    <3>6. Len(z) \in Nat /\ k - 1 \in 0 .. Len(z)
      BY <2>0, <2>2, <3>4
    <3> HIDE DEF z, L
    <3>7. Bare(i + 1, k - 1)
      <4> SUFFICES ASSUME NEW p \in 1 .. k - 1 PROVE z[p] # "*"
        BY DEF z, Bare
      <4>1. p + 1 \in 1 .. k /\ p \in 1 .. Len(z)
        BY <3>6
      <4> QED BY <3>4, <4>1 DEF Bare
    <3>8. Is(i + 1, k - 1)
      BY <3>5, <3>6, <3>7
    <3>9. i + k - 1 <= L
      BY <1>0, <2>2, <3>8 DEF Is
    <3>10. ASSUME NEW p \in 1 .. k PROVE text[i + p - 1] = Rf[i][p]
      <4>1. CASE p = 1
        <5>1. i + p - 1 = i
          BY <4>1
        <5> QED BY <3>4, <4>1, <5>1
      <4>2. CASE p # 1
        <5>1. PICK q \in 1 .. k - 1 : p = q + 1
          BY <4>2
        <5>2. text[(i + 1) + q - 1] = z[q]
          BY <3>8, <5>1 DEF z, Is
        <5>3. (i + 1) + q - 1 = i + p - 1 /\ q \in 1 .. Len(z)
          BY <3>6, <5>1
        <5>4. Rf[i][p] = z[q]
          BY <3>4, <5>1, <5>3
        <5> QED BY <5>2, <5>3, <5>4
      <4> QED BY <4>1, <4>2
    <3> QED BY <3>3, <3>9, <3>10 DEF Is
  <2> QED BY <2>1, <2>2
<1>2. \A i \in 1 .. L + 1 : i \in G
  <2> HIDE DEF G, L
  <2> QED BY <1>0, <1>1, FromTheEnd
<1> QED BY <1>2 DEF IsText

(* What has no star stands in the result only where the text had it.       *)
LEMMA StandsInResult ==
    ASSUME NEW C, "*" \in C, NEW text \in Seq(C), NEW v \in Seq(C), Len(v) > 0,
           NEW u \in Seq(C), Len(u) > 0, "*" \notin Elements(u)
    PROVE  \A i \in 1 .. Len(text) + 1 : \A k \in 1 .. Len(ReplaceFrom(text, v)[i]) :
               Stands(ReplaceFrom(text, v)[i], u, k) =>
                   \E j \in 1 .. Len(text) : Stands(text, u, j) /\ ~Stands(text, v, j)
<1> DEFINE Rf == ReplaceFrom(text, v)
           L == Len(text)
           n == Len(u)
           Found == \E j \in 1 .. L : Stands(text, u, j) /\ ~Stands(text, v, j)
           G == {i \in 1 .. L + 1 : \A k \in 1 .. Len(Rf[i]) : Stands(Rf[i], u, k) => Found}
<1>0. L \in Nat /\ n \in Nat /\ n > 0 /\ \A p \in 1 .. n : u[p] # "*"
  BY DEF Elements
<1>1. ASSUME NEW i \in 1 .. L + 1, \A j \in 1 .. L + 1 : i < j => j \in G PROVE i \in G
  <2> SUFFICES ASSUME NEW k \in 1 .. Len(Rf[i]), Stands(Rf[i], u, k) PROVE Found
    OBVIOUS
  <2>g. \A j \in 1 .. L + 1 : i < j => \A l \in 1 .. Len(Rf[j]) : Stands(Rf[j], u, l) => Found
    BY <1>1
  <2> HIDE DEF G, Found
  <2>0. Rf[i] \in Seq(C) /\ Len(Rf[i]) \in Nat
    BY ReplaceCases
  <2>1. k + n - 1 <= Len(Rf[i]) /\ \A p \in 1 .. n : Rf[i][k + p - 1] = u[p]
    BY <2>0, StandsPointwise
  <2>2. i # L + 1
    <3> SUFFICES ASSUME i = L + 1 PROVE FALSE
      OBVIOUS
    <3>1. Rf[i] = <<>>
      <4>1. AtEnd(C, text, v, i)
        BY ReplaceCases
      <4> QED BY <4>1 DEF AtEnd
    <3> QED BY <3>1
  <2>3. Rf[i][k] # "*"
    <3>1. 1 \in 1 .. n /\ k + 1 - 1 = k
      BY <1>0
    <3> QED BY <1>0, <2>1, <3>1
  <2>4. CASE Stands(text, v, i)
    <3> DEFINE j == i + Len(v)
               z == Rf[j]
    <3>1. /\ j \in 1 .. L + 1 /\ i < j /\ z \in Seq(C)
          /\ Len(Rf[i]) = 3 + Len(z)
          /\ \A q \in 1 .. 3 : Rf[i][q] = "*"
          /\ \A q \in 1 .. Len(z) : Rf[i][q + 3] = z[q]
      <4>1. AtHit(C, text, v, i)
        BY <2>2, <2>4, ReplaceCases
      <4> QED BY <4>1 DEF AtHit
    <3>2. \A l \in 1 .. Len(z) : Stands(z, u, l) => Found
      BY <2>g, <3>1
    <3> HIDE DEF Rf, L, n, j, z
    <3>3. Len(z) \in Nat /\ k \notin 1 .. 3
      BY <2>3, <3>1
    <3>4. PICK l \in Nat : l = k - 3
      BY <2>0, <3>3
    <3>5. l \in 1 .. Len(z) /\ l + n - 1 <= Len(z)
      <4>1. PICK a \in Nat : a = Len(Rf[i])
        BY <2>0
      <4>2. PICK b \in Nat : b = Len(z)
        BY <3>3
      <4>3. a = 3 + b /\ k \in 1 .. a /\ k \notin 1 .. 3 /\ k + n - 1 <= a
        BY <2>1, <3>1, <3>3, <4>1, <4>2
      <4>4. l \in 1 .. b /\ l + n - 1 <= b
        BY <1>0, <3>4, <4>3
      <4> QED BY <4>2, <4>4
    <3>6. ASSUME NEW p \in 1 .. n PROVE z[l + p - 1] = u[p]
      <4>1. l + p - 1 \in 1 .. Len(z) /\ (l + p - 1) + 3 = k + p - 1
        BY <1>0, <3>3, <3>4, <3>5
      <4> QED BY <2>1, <3>1, <4>1
    <3>7. Stands(z, u, l)
      <4>1. l \in Nat \ {0}
        BY <3>5
      <4>2. l + Len(u) - 1 <= Len(z) /\ \A p \in 1 .. Len(u) : z[l + p - 1] = u[p]
        BY <3>5, <3>6 DEF n
      <4> QED BY <3>1, <4>1, <4>2, StandsPointwise
    <3> QED BY <3>2, <3>5, <3>7
  <2>5. CASE ~Stands(text, v, i) /\ k = 1
    <3>1. ASSUME NEW p \in 1 .. n PROVE Rf[i][p] = u[p]
      <4>1. k + p - 1 = p
        BY <2>5
      <4> QED BY <2>1, <4>1
    <3>2. n \in 0 .. Len(Rf[i])
      BY <1>0, <2>0, <2>1, <2>5
    <3>3. \A p \in 1 .. n : Rf[i][p] # "*"
      BY <1>0, <3>1
    <3>4. i + n - 1 <= L /\ \A p \in 1 .. n : text[i + p - 1] = Rf[i][p]
      <4>1. n \in 0 .. Len(ReplaceFrom(text, v)[i]) /\ \A p \in 1 .. n : ReplaceFrom(text, v)[i][p] # "*"
        BY <3>2, <3>3
      <4> HIDE DEF n
      <4>2. IsText(text, v, i, n)
        BY <4>1, BareIsText
      <4> QED BY <4>2 DEF IsText
    <3>5. \A p \in 1 .. n : text[i + p - 1] = u[p]
      BY <3>1, <3>4
    <3>6. Stands(text, u, i)
      <4>1. i \in Nat \ {0}
        OBVIOUS
      <4>2. i + Len(u) - 1 <= Len(text) /\ \A p \in 1 .. Len(u) : text[i + p - 1] = u[p]
        BY <3>4, <3>5
      <4> QED BY <4>1, <4>2, StandsPointwise
    <3>7. i \in 1 .. L
      BY <1>0, <2>2
    <3> QED BY <2>5, <3>6, <3>7 DEF Found
  <2>6. CASE ~Stands(text, v, i) /\ k # 1
    <3> DEFINE j == i + 1
               z == Rf[j]
    <3>1. /\ j \in 1 .. L + 1 /\ i < j /\ z \in Seq(C)
          /\ Len(Rf[i]) = 1 + Len(z)
          /\ \A q \in 1 .. Len(z) : Rf[i][q + 1] = z[q]
      <4>1. AtMiss(C, text, v, i)
        BY <2>2, <2>6, ReplaceCases
      <4> QED BY <4>1 DEF AtMiss
    <3>2. \A l \in 1 .. Len(z) : Stands(z, u, l) => Found
      BY <2>g, <3>1
    <3> HIDE DEF Rf, L, n, j, z
    <3>3. Len(z) \in Nat
      BY <3>1
    <3>4. PICK l \in Nat : l = k - 1
      BY <2>0
    <3>5. l \in 1 .. Len(z) /\ l + n - 1 <= Len(z)
      <4>1. PICK a \in Nat : a = Len(Rf[i])
        BY <2>0
      <4>2. PICK b \in Nat : b = Len(z)
        BY <3>3
      <4>3. a = 1 + b /\ k \in 1 .. a /\ k # 1 /\ k + n - 1 <= a
        BY <2>1, <2>6, <3>1, <3>3, <4>1, <4>2
      <4>4. l \in 1 .. b /\ l + n - 1 <= b
        BY <1>0, <3>4, <4>3
      <4> QED BY <4>2, <4>4
    <3>6. ASSUME NEW p \in 1 .. n PROVE z[l + p - 1] = u[p]
      <4>1. l + p - 1 \in 1 .. Len(z) /\ (l + p - 1) + 1 = k + p - 1
        BY <1>0, <3>3, <3>4, <3>5
      <4> QED BY <2>1, <3>1, <4>1
    <3>7. Stands(z, u, l)
      <4>1. l \in Nat \ {0}
        BY <3>5
      <4>2. l + Len(u) - 1 <= Len(z) /\ \A p \in 1 .. Len(u) : z[l + p - 1] = u[p]
        BY <3>5, <3>6 DEF n
      <4> QED BY <3>1, <4>1, <4>2, StandsPointwise
    <3> QED BY <3>2, <3>5, <3>7
  <2> QED BY <2>4, <2>5, <2>6
<1>2. \A i \in 1 .. L + 1 : i \in G
  <2> HIDE DEF G, L
  <2> QED BY <1>0, <1>1, FromTheEnd
<1> QED BY <1>2

(* Replacing takes the value out and brings nothing without a star in.     *)
LEMMA ReplaceRemoves ==
    ASSUME NEW C, "*" \in C, NEW text \in Seq(C), NEW v \in Seq(C), Len(v) > 0
    PROVE  /\ Replace(text, v) \in Seq(C)
           /\ \A u \in Seq(C) : Len(u) > 0 /\ "*" \notin Elements(u) /\ Holds(Replace(text, v), u) =>
                  u # v /\ Holds(text, u)
<1>1. 1 \in 1 .. Len(text) + 1
  <2>1. Len(text) \in Nat
    OBVIOUS
  <2> QED BY <2>1
<1>2. Replace(text, v) \in Seq(C)
  BY <1>1, ReplaceCases DEF Replace
<1>3. ASSUME NEW u \in Seq(C), Len(u) > 0, "*" \notin Elements(u), Holds(Replace(text, v), u)
      PROVE  u # v /\ Holds(text, u)
  <2>1. PICK k \in 1 .. Len(Replace(text, v)) : Stands(Replace(text, v), u, k)
    BY <1>3 DEF Holds
  <2>2. \E j \in 1 .. Len(text) : Stands(text, u, j) /\ ~Stands(text, v, j)
    BY <1>1, <1>3, <2>1, StandsInResult DEF Replace
  <2> QED BY <2>2 DEF Holds
<1> QED BY <1>2, <1>3

-----------------------------------------------------------------------------
(* Masking.                                                                *)

LEMMA StruckEquation ==
    ASSUME NEW text, NEW order, Len(order) \in Nat
    PROVE  \A i \in 0 .. Len(order) :
               Struck(text, order)[i] = IF i = 0 THEN text ELSE Replace(Struck(text, order)[i - 1], order[i])
<1> DEFINE Is(g, n) == g = [i \in 0 .. n |-> IF i = 0 THEN text ELSE Replace(g[i - 1], order[i])]
           G == {n \in Nat : \E g : Is(g, n)}
<1>1. 0 \in G
  <2> DEFINE g == [i \in 0 .. 0 |-> text]
  <2>1. \A i \in 0 .. 0 : i = 0
    OBVIOUS
  <2>2. Is(g, 0)
    BY <2>1
  <2> QED BY <2>2
<1>2. ASSUME NEW n \in Nat, n \in G PROVE n + 1 \in G
  <2>1. PICK g : Is(g, n)
    BY <1>2
  <2> DEFINE h == [i \in 0 .. n + 1 |-> IF i = n + 1 THEN Replace(g[n], order[n + 1]) ELSE g[i]]
  <2>2. ASSUME NEW i \in 0 .. n + 1 PROVE h[i] = IF i = 0 THEN text ELSE Replace(h[i - 1], order[i])
    <3>1. CASE i = n + 1
      <4>1. i # 0 /\ i - 1 = n /\ n \in 0 .. n + 1 /\ n # n + 1
        BY <3>1
      <4>2. h[n] = g[n]
        BY <4>1
      <4> QED BY <3>1, <4>1, <4>2
    <3>2. CASE i # n + 1
      <4>1. i \in 0 .. n
        BY <3>2
      <4>2. g[i] = IF i = 0 THEN text ELSE Replace(g[i - 1], order[i])
        BY <2>1, <4>1
      <4>3. i # 0 => i - 1 \in 0 .. n + 1 /\ i - 1 # n + 1
        BY <4>1
      <4>4. i # 0 => h[i - 1] = g[i - 1]
        BY <4>3
      <4>5. h[i] = g[i]
        BY <3>2
      <4> HIDE DEF h
      <4> QED BY <4>2, <4>4, <4>5
    <3> QED BY <3>1, <3>2
  <2>3. Is(h, n + 1)
    <3>1. h = [i \in 0 .. n + 1 |-> h[i]]
      OBVIOUS
    <3> HIDE DEF h
    <3> QED BY <2>2, <3>1
  <2> HIDE DEF h, Is
  <2> QED BY <2>3
<1>3. Len(order) \in G
  <2>1. Len(order) \in Nat
    OBVIOUS
  <2> HIDE DEF G
  <2> QED BY <1>1, <1>2, <2>1, NatSetInduction
<1>4. PICK g : Is(g, Len(order))
  BY <1>3
<1>5. Struck(text, order) = CHOOSE h : Is(h, Len(order))
  BY DEF Struck
<1>6. Is(Struck(text, order), Len(order))
  <2> HIDE DEF Is
  <2> QED BY <1>4, <1>5
<1> QED BY <1>6

IsOrder(C, order) ==
    Len(order) \in Nat /\ \A i \in 1 .. Len(order) : order[i] \in Seq(C) /\ Len(order[i]) > 0

LEMMA StruckFacts ==
    ASSUME NEW C, "*" \in C, NEW text \in Seq(C), NEW order, IsOrder(C, order)
    PROVE  \A i \in 0 .. Len(order) :
               /\ Struck(text, order)[i] \in Seq(C)
               /\ \A j \in 1 .. i : "*" \notin Elements(order[j]) => ~Holds(Struck(text, order)[i], order[j])
<1> DEFINE N == Len(order)
           S == Struck(text, order)
           G == {i \in Nat : i <= N =>
                    /\ S[i] \in Seq(C)
                    /\ \A j \in 1 .. i : "*" \notin Elements(order[j]) => ~Holds(S[i], order[j])}
<1>0. N \in Nat /\ \A i \in 1 .. N : order[i] \in Seq(C) /\ Len(order[i]) > 0
  BY DEF IsOrder
<1>1. \A i \in 0 .. N : S[i] = IF i = 0 THEN text ELSE Replace(S[i - 1], order[i])
  BY <1>0, StruckEquation
<1> HIDE DEF N, S
<1>2. 0 \in G
  <2>1. S[0] = text /\ 1 .. 0 = {}
    BY <1>0, <1>1
  <2> QED BY <2>1
<1>3. ASSUME NEW i \in Nat, i \in G PROVE i + 1 \in G
  <2> SUFFICES ASSUME i + 1 <= N
               PROVE  /\ S[i + 1] \in Seq(C)
                      /\ \A j \in 1 .. i + 1 : "*" \notin Elements(order[j]) => ~Holds(S[i + 1], order[j])
    OBVIOUS
  <2>1. i <= N /\ i + 1 \in 0 .. N /\ i + 1 # 0 /\ (i + 1) - 1 = i /\ i + 1 \in 1 .. N
    BY <1>0
  <2>2. /\ S[i] \in Seq(C)
        /\ \A j \in 1 .. i : "*" \notin Elements(order[j]) => ~Holds(S[i], order[j])
    BY <1>3, <2>1
  <2> HIDE DEF G
  <2>3. S[i + 1] = Replace(S[i], order[i + 1])
    BY <1>1, <2>1
  <2>4. order[i + 1] \in Seq(C) /\ Len(order[i + 1]) > 0
    BY <1>0, <2>1
  <2>5. /\ S[i + 1] \in Seq(C)
        /\ \A u \in Seq(C) : Len(u) > 0 /\ "*" \notin Elements(u) /\ Holds(S[i + 1], u) =>
               u # order[i + 1] /\ Holds(S[i], u)
    BY <2>2, <2>3, <2>4, ReplaceRemoves
  <2>6. ASSUME NEW j \in 1 .. i + 1, "*" \notin Elements(order[j]), Holds(S[i + 1], order[j])
        PROVE  FALSE
    <3>1. j \in 1 .. N
      BY <1>0, <2>1
    <3>2. order[j] # order[i + 1] /\ Holds(S[i], order[j])
      BY <1>0, <2>5, <2>6, <3>1
    <3>3. j # i + 1
      BY <3>2
    <3>4. j \in 1 .. i
      BY <3>3
    <3> QED BY <2>2, <2>6, <3>2, <3>4
  <2> QED BY <2>5, <2>6
<1>4. ASSUME NEW i \in 0 .. N PROVE i \in G
  <2> HIDE DEF G
  <2>1. i \in Nat
    BY <1>0
  <2> QED BY <1>2, <1>3, <2>1, NatSetInduction
<1>5. ASSUME NEW i \in 0 .. N
      PROVE  /\ S[i] \in Seq(C)
             /\ \A j \in 1 .. i : "*" \notin Elements(order[j]) => ~Holds(S[i], order[j])
  <2>1. i <= N
    BY <1>0
  <2> QED BY <1>4, <2>1
<1> HIDE DEF G
<1> QED BY <1>5 DEF N, S

-----------------------------------------------------------------------------
(* What a job is given.                                                    *)

NamedStep(entries, prefix, public, before, i) ==
    IF entries[i].public = public /\ Len(entries[i].path) > Len(prefix)
    THEN Overlay(Entry(entries[i]), before) ELSE before

LEMMA NamedEquation ==
    ASSUME NEW entries, Len(entries) \in Nat, NEW prefix, NEW public
    PROVE  \A i \in 0 .. Len(entries) :
               NamedUpto(entries, prefix, public)[i] = IF i = 0 THEN <<>> ELSE NamedStep(entries, prefix, public, NamedUpto(entries, prefix, public)[i - 1], i)
<1> DEFINE Is(g, n) == g = [i \in 0 .. n |-> IF i = 0 THEN <<>> ELSE NamedStep(entries, prefix, public, g[i - 1], i)]
           G == {n \in Nat : \E g : Is(g, n)}
<1>1. 0 \in G
  <2> DEFINE g == [i \in 0 .. 0 |-> <<>>]
  <2>1. \A i \in 0 .. 0 : i = 0
    OBVIOUS
  <2>2. Is(g, 0)
    BY <2>1
  <2> QED BY <2>2
<1>2. ASSUME NEW n \in Nat, n \in G PROVE n + 1 \in G
  <2>1. PICK g : Is(g, n)
    BY <1>2
  <2> DEFINE h == [i \in 0 .. n + 1 |-> IF i = n + 1 THEN NamedStep(entries, prefix, public, g[n], n + 1) ELSE g[i]]
  <2>2. ASSUME NEW i \in 0 .. n + 1 PROVE h[i] = IF i = 0 THEN <<>> ELSE NamedStep(entries, prefix, public, h[i - 1], i)
    <3>1. CASE i = n + 1
      <4>1. i # 0 /\ i - 1 = n /\ n \in 0 .. n + 1 /\ n # n + 1
        BY <3>1
      <4>2. h[n] = g[n]
        BY <4>1
      <4> QED BY <3>1, <4>1, <4>2
    <3>2. CASE i # n + 1
      <4>1. i \in 0 .. n
        BY <3>2
      <4>2. g[i] = IF i = 0 THEN <<>> ELSE NamedStep(entries, prefix, public, g[i - 1], i)
        BY <2>1, <4>1
      <4>3. i # 0 => i - 1 \in 0 .. n + 1 /\ i - 1 # n + 1
        BY <4>1
      <4>4. i # 0 => h[i - 1] = g[i - 1]
        BY <4>3
      <4>5. h[i] = g[i]
        BY <3>2
      <4> HIDE DEF h
      <4> QED BY <4>2, <4>4, <4>5
    <3> QED BY <3>1, <3>2
  <2>3. Is(h, n + 1)
    <3>1. h = [i \in 0 .. n + 1 |-> h[i]]
      OBVIOUS
    <3> HIDE DEF h
    <3> QED BY <2>2, <3>1
  <2> HIDE DEF h, Is
  <2> QED BY <2>3
<1>3. Len(entries) \in G
  <2>1. Len(entries) \in Nat
    OBVIOUS
  <2> HIDE DEF G
  <2> QED BY <1>1, <1>2, <2>1, NatSetInduction
<1>4. PICK g : Is(g, Len(entries))
  BY <1>3
<1>5. NamedUpto(entries, prefix, public) = CHOOSE h : Is(h, Len(entries))
  BY DEF NamedUpto, NamedStep
<1>6. Is(NamedUpto(entries, prefix, public), Len(entries))
  <2> HIDE DEF Is
  <2> QED BY <1>4, <1>5
<1> QED BY <1>6

LEMMA OverlayElements ==
    ASSUME NEW f, NEW g
    PROVE  Elements(Overlay(f, g)) \subseteq Elements(f) \union Elements(g)
BY DEF Elements, Overlay

LEMMA NamedFacts ==
    ASSUME NEW C, NEW entries, Len(entries) \in Nat, NEW prefix, NEW public,
           \A i \in 1 .. Len(entries) : entries[i].value \in Seq(C)
    PROVE  /\ Elements(Named(entries, prefix, public)) \subseteq Seq(C)
           /\ IsFiniteSet(Elements(Named(entries, prefix, public)))
<1> DEFINE N == Len(entries)
           M == NamedUpto(entries, prefix, public)
           G == {i \in Nat : i <= N => Elements(M[i]) \subseteq Seq(C) /\ IsFiniteSet(Elements(M[i]))}
<1>0. N \in Nat
  OBVIOUS
<1>1. \A i \in 0 .. N : M[i] = IF i = 0 THEN <<>> ELSE NamedStep(entries, prefix, public, M[i - 1], i)
  BY NamedEquation
<1> HIDE DEF N, M
<1>2. 0 \in G
  <2>1. M[0] = <<>>
    BY <1>0, <1>1
  <2>2. Elements(<<>>) = {}
    BY DEF Elements
  <2> QED BY <2>1, <2>2, FS_EmptySet
<1>3. ASSUME NEW i \in Nat, i \in G PROVE i + 1 \in G
  <2> SUFFICES ASSUME i + 1 <= N
               PROVE  Elements(M[i + 1]) \subseteq Seq(C) /\ IsFiniteSet(Elements(M[i + 1]))
    OBVIOUS
  <2>1. i <= N /\ i + 1 \in 0 .. N /\ i + 1 # 0 /\ (i + 1) - 1 = i /\ i + 1 \in 1 .. N
    BY <1>0
  <2>2. Elements(M[i]) \subseteq Seq(C) /\ IsFiniteSet(Elements(M[i]))
    BY <1>3, <2>1
  <2> HIDE DEF G
  <2>3. M[i + 1] = NamedStep(entries, prefix, public, M[i], i + 1)
    BY <1>1, <2>1
  <2> DEFINE e == entries[i + 1]
  <2>4. e.value \in Seq(C)
    BY <2>1 DEF N
  <2> HIDE DEF e
  <2>5. CASE M[i + 1] = M[i]
    BY <2>2, <2>5
  <2>6. CASE M[i + 1] = Overlay(Entry(e), M[i])
    <3>1. Elements(Entry(e)) = {e.value}
      BY DEF Elements, Entry
    <3>2. Elements(M[i + 1]) \subseteq {e.value} \union Elements(M[i])
      BY <2>6, <3>1, OverlayElements
    <3>3. IsFiniteSet(Elements(M[i]) \union {e.value})
      BY <2>2, FS_AddElement
    <3>4. IsFiniteSet(Elements(M[i + 1]))
      BY <3>2, <3>3, FS_Subset
    <3> QED BY <2>2, <2>4, <3>2, <3>4
  <2> QED BY <2>3, <2>5, <2>6 DEF NamedStep, e
<1>4. N \in G
  <2> HIDE DEF G
  <2> QED BY <1>0, <1>2, <1>3, NatSetInduction
<1>5. N <= N
  BY <1>0
<1> QED BY <1>4, <1>5 DEF Named, M, N

LEMMA SecretsGiven ==
    ASSUME NEW C, NEW vault, IsList(vault), \A i \in DOMAIN vault : vault[i].value \in Seq(C), NEW prefix,
           Resolve(vault, prefix).ok
    PROVE  /\ Elements(Resolve(vault, prefix).secrets) \subseteq Seq(C)
           /\ IsFiniteSet(Elements(Resolve(vault, prefix).secrets))
<1> DEFINE S == {e \in Elements(vault) : Under(e, prefix)}
           listed == Listed(vault, prefix)
<1>1. listed \in Seq(Elements(vault))
  <2> HIDE DEF S
  <2>1. vault \in Seq(Elements(vault)) /\ listed = Selected(vault, S)
    BY DEF IsList, Listed, S
  <2> QED BY <2>1, SelectedFacts
<1> HIDE DEF listed
<1>2. \A e \in Elements(vault) : e.value \in Seq(C)
  BY DEF Elements
<1>3. Len(listed) \in Nat /\ \A i \in 1 .. Len(listed) : listed[i] \in Elements(vault)
  BY <1>1
<1>4. \A i \in 1 .. Len(listed) : listed[i].value \in Seq(C)
  BY <1>2, <1>3
<1>5. /\ Elements(Named(listed, prefix, FALSE)) \subseteq Seq(C)
      /\ IsFiniteSet(Elements(Named(listed, prefix, FALSE)))
  BY <1>3, <1>4, NamedFacts
<1>6. Resolve(vault, prefix).secrets = Named(listed, prefix, FALSE)
  BY DEF Resolve, listed
<1> QED BY <1>5, <1>6

(* The order goes through every value, and has at least MIN_MASK_LEN of    *)
(* characters in each.                                                     *)
LEMMA MaskOrderFacts ==
    ASSUME NEW C, NEW values, IsFiniteSet(values), values \subseteq Seq(C), MinMaskLen \in Nat \ {0},
           NEW order \in MaskOrder(values)
    PROVE  /\ IsOrder(C, order)
           /\ Elements(order) = Maskable(values) /\ DOMAIN order = 1 .. Len(order)
           /\ \A i, k \in 1 .. Len(order) : i < k => order[i] # order[k] /\ Len(order[i]) >= Len(order[k])
<1> DEFINE M == Maskable(values)
           n == Cardinality(M)
<1>0. M \subseteq values /\ \A v \in M : v \in Seq(C) /\ Len(v) > 0
  <2>1. M \subseteq values /\ \A v \in M : Len(v) >= MinMaskLen
    BY DEF Maskable
  <2>2. ASSUME NEW v \in M PROVE v \in Seq(C) /\ Len(v) > 0
    <3>1. v \in Seq(C)
      BY <2>1
    <3>2. Len(v) \in Nat /\ Len(v) >= MinMaskLen
      BY <2>1, <3>1
    <3> QED BY <3>1, <3>2
  <2> QED BY <2>1, <2>2
<1>1. order \in [1 .. n -> M] /\ \A i, k \in DOMAIN order : i < k => order[i] # order[k] /\ Len(order[i]) >= Len(order[k])
  BY DEF MaskOrder
<1> HIDE DEF M, n
<1>2. IsFiniteSet(M) /\ n \in Nat
  <2>1. IsFiniteSet(M)
    BY <1>0, FS_Subset
  <2> QED BY <2>1, FS_CardinalityType DEF n
<1>3. order \in Seq(M) /\ Len(order) = n /\ DOMAIN order = 1 .. n
  <2>1. order \in Seq(M)
    BY <1>1, <1>2, SeqDef
  <2>2. DOMAIN order = 1 .. n
    BY <1>1
  <2>3. Len(order) \in Nat /\ DOMAIN order = 1 .. Len(order)
    BY <2>1
  <2> QED BY <1>2, <2>1, <2>2, <2>3
<1>4. order \in Injection(1 .. n, M)
  <2>1. ASSUME NEW i \in 1 .. n, NEW k \in 1 .. n, order[i] = order[k] PROVE i = k
    <3>1. ~(i < k) /\ ~(k < i)
      BY <1>1, <1>3, <2>1
    <3> QED BY <1>2, <3>1
  <2> QED BY <1>1, <2>1 DEF Injection, IsInjective
<1>5. Cardinality(1 .. n) = n
  BY <1>2, FS_Interval
<1>6. order \in Surjection(1 .. n, M)
  BY <1>2, <1>4, <1>5, FS_Injection DEF n
<1>7. Elements(order) = M
  BY <1>1, <1>3, <1>6 DEF Surjection, Elements
<1>8. IsOrder(C, order)
  BY <1>0, <1>1, <1>2, <1>3 DEF IsOrder
<1> QED BY <1>1, <1>3, <1>7, <1>8 DEF M

-----------------------------------------------------------------------------
(* A secret that stands by itself.                                         *)

LEMMA ReplaceAbsent ==
    ASSUME NEW C, "*" \in C, NEW text \in Seq(C), NEW v \in Seq(C), Len(v) > 0, ~Holds(text, v)
    PROVE  Replace(text, v) = text
<1> DEFINE Rf == ReplaceFrom(text, v)
           L == Len(text)
           G == {i \in 1 .. L + 1 : Rf[i] = SubSeq(text, i, L)}
<1>0. L \in Nat
  OBVIOUS
<1>1. ASSUME NEW i \in 1 .. L + 1, \A j \in 1 .. L + 1 : i < j => j \in G PROVE i \in G
  <2> SUFFICES Rf[i] = SubSeq(text, i, L)
    OBVIOUS
  <2>1. CASE i = L + 1
    <3>1. AtEnd(C, text, v, i)
      BY <2>1, ReplaceCases
    <3>2. L < i /\ i \in Int /\ L \in Int
      BY <1>0, <2>1
    <3>3. SubSeq(text, i, L) = <<>>
      <4> HIDE DEF L
      <4> QED BY <3>2, SubSeqEmpty
    <3> QED BY <3>1, <3>3 DEF AtEnd
  <2>2. CASE i # L + 1
    <3>1. i \in 1 .. L /\ L \in i .. L /\ i + 1 \in 1 .. L + 1 /\ i < i + 1
      BY <1>0, <2>2
    <3>2. ~Stands(text, v, i)
      BY <3>1 DEF Holds
    <3>3. AtMiss(C, text, v, i)
      BY <2>2, <3>2, ReplaceCases
    <3>4. Rf[i] = <<text[i]>> \o Rf[i + 1]
      BY <3>3 DEF AtMiss
    <3>5. Rf[i + 1] = SubSeq(text, i + 1, L)
      BY <1>1, <3>1
    <3>6. SubSeq(text, i, L) = <<text[i]>> \o SubSeq(text, i + 1, L)
      BY <3>1, SubSeqRecursiveFirst
    <3> QED BY <3>4, <3>5, <3>6
  <2> QED BY <2>1, <2>2
<1>2. \A i \in 1 .. L + 1 : i \in G
  <2> HIDE DEF G, L
  <2> QED BY <1>0, <1>1, FromTheEnd
<1>3. 1 \in 1 .. L + 1
  BY <1>0
<1>4. Rf[1] = SubSeq(text, 1, L)
  BY <1>2, <1>3
<1> QED BY <1>4, SubSeqFull DEF Replace

LEMMA ReplaceSelf ==
    ASSUME NEW C, "*" \in C, NEW v \in Seq(C), Len(v) > 0
    PROVE  Replace(v, v) = Redacted
<1>0. Len(v) \in Nat
  OBVIOUS
<1>1. Stands(v, v, 1)
  <2>1. 1 + Len(v) - 1 <= Len(v) /\ 1 \in Nat \ {0}
    BY <1>0
  <2>2. \A k \in 1 .. Len(v) : v[1 + k - 1] = v[k]
    <3> SUFFICES ASSUME NEW k \in 1 .. Len(v) PROVE v[1 + k - 1] = v[k]
      OBVIOUS
    <3>1. 1 + k - 1 = k
      OBVIOUS
    <3> QED BY <3>1
  <2> QED BY <2>1, <2>2, StandsPointwise
<1>2. 1 \in 1 .. Len(v) + 1 /\ 1 # Len(v) + 1 /\ 1 + Len(v) \in 1 .. Len(v) + 1 /\ 1 + Len(v) = Len(v) + 1
  BY <1>0
<1>3. AtHit(C, v, v, 1)
  BY <1>1, <1>2, ReplaceCases
<1>4. AtEnd(C, v, v, 1 + Len(v))
  BY <1>2, ReplaceCases
<1>5. Replace(v, v) = Redacted \o <<>>
  BY <1>3, <1>4 DEF AtHit, AtEnd, Replace
<1>6. Redacted \in Seq(C)
  BY DEF Redacted
<1> QED BY <1>5, <1>6, ConcatEmptySeq

LEMMA LongerIsAbsent ==
    ASSUME NEW C, NEW text \in Seq(C), NEW v \in Seq(C), Len(text) <= Len(v), text # v
    PROVE  ~Holds(text, v)
<1> SUFFICES ASSUME NEW i \in 1 .. Len(text), Stands(text, v, i) PROVE FALSE
  BY DEF Holds
<1>1. Len(text) \in Nat /\ Len(v) \in Nat
  OBVIOUS
<1>2. i + Len(v) - 1 <= Len(text) /\ \A k \in 1 .. Len(v) : text[i + k - 1] = v[k]
  BY StandsPointwise
<1>3. i = 1 /\ Len(text) = Len(v)
  BY <1>1, <1>2
<1>4. ASSUME NEW k \in 1 .. Len(v) PROVE text[k] = v[k]
  <2>1. i + k - 1 = k
    BY <1>3
  <2> QED BY <1>2, <2>1
<1> QED BY <1>3, <1>4, SeqEqual

LEMMA RedactedHoldsNone ==
    ASSUME NEW C, "*" \in C, NEW v \in Seq(C), Len(v) > 0, "*" \notin Elements(v)
    PROVE  ~Holds(Redacted, v)
<1> SUFFICES ASSUME NEW i \in 1 .. Len(Redacted), Stands(Redacted, v, i) PROVE FALSE
  BY DEF Holds
<1>1. Redacted \in Seq(C) /\ Len(Redacted) = 3 /\ \A k \in 1 .. 3 : Redacted[k] = "*"
  BY DEF Redacted
<1>2. \A k \in 1 .. Len(v) : Redacted[i + k - 1] = v[k]
  BY <1>1, StandsPointwise
<1>3. 1 \in 1 .. Len(v) /\ i + 1 - 1 = i /\ i \in 1 .. 3
  <2>1. Len(v) \in Nat
    OBVIOUS
  <2> QED BY <1>1, <2>1
<1>4. v[1] = "*"
  BY <1>1, <1>2, <1>3
<1> QED BY <1>3, <1>4 DEF Elements

FitsAt(text, v, i) == i + Len(v) - 1 <= Len(text) /\ \A k \in 1 .. Len(v) : text[i + k - 1] = v[k]

LEMMA StandsFits ==
    ASSUME NEW C, NEW text \in Seq(C), NEW v \in Seq(C), NEW i \in Nat \ {0}
    PROVE  Stands(text, v, i) <=> FitsAt(text, v, i)
BY StandsPointwise DEF FitsAt

LEMMA StandsShift ==
    ASSUME NEW C, NEW t \in Seq(C), NEW b \in Seq(C), NEW v \in Seq(C), NEW d \in Nat,
           Len(t) = d + Len(b), \A k \in 1 .. Len(b) : t[d + k] = b[k], NEW j \in Nat \ {0}
    PROVE  Stands(t, v, d + j) <=> Stands(b, v, j)
<1> DEFINE n == Len(v)
           B == Len(b)
<1>0. n \in Nat /\ B \in Nat /\ d + j \in Nat \ {0}
  OBVIOUS
<1>1. Stands(t, v, d + j) <=> (d + j) + n - 1 <= Len(t) /\ \A k \in 1 .. n : t[(d + j) + k - 1] = v[k]
  <2>1. PICK i \in Nat \ {0} : i = d + j
    BY <1>0
  <2>2. Stands(t, v, i) <=> FitsAt(t, v, i)
    BY StandsFits
  <2>3. Stands(t, v, i) <=> i + Len(v) - 1 <= Len(t) /\ \A k \in 1 .. Len(v) : t[i + k - 1] = v[k]
    BY <2>2 DEF FitsAt
  <2> QED BY <2>1, <2>3
<1>2. Stands(b, v, j) <=> j + n - 1 <= B /\ \A k \in 1 .. n : b[j + k - 1] = v[k]
  BY StandsPointwise
<1>3. (d + j) + n - 1 <= Len(t) <=> j + n - 1 <= B
  <2> HIDE DEF n
  <2> QED BY <1>0
<1>4. ASSUME j + n - 1 <= B, NEW k \in 1 .. n PROVE t[(d + j) + k - 1] = b[j + k - 1]
  <2>1. j + k - 1 \in 1 .. B /\ d + (j + k - 1) = (d + j) + k - 1
    <3> HIDE DEF n, B
    <3> QED BY <1>0, <1>4
  <2> QED BY <2>1
<1> HIDE DEF n, B
<1> QED BY <1>1, <1>2, <1>3, <1>4

LEMMA StandsBefore ==
    ASSUME NEW C, NEW t \in Seq(C), NEW a \in Seq(C), NEW v \in Seq(C), Len(v) > 0, "-" \notin Elements(v),
           Len(a) < Len(t), \A k \in 1 .. Len(a) : t[k] = a[k], t[Len(a) + 1] = "-",
           NEW i \in 1 .. Len(a) + 1
    PROVE  Stands(t, v, i) <=> Stands(a, v, i)
<1> DEFINE n == Len(v)
           A == Len(a)
<1>0. n \in Nat /\ n > 0 /\ A \in Nat /\ Len(t) \in Nat /\ i \in Nat \ {0} /\ \A k \in 1 .. n : v[k] # "-"
  BY DEF Elements
<1>i. n \in Nat /\ n > 0 /\ A \in Nat /\ i \in 1 .. A + 1
  BY <1>0
<1>1. Stands(t, v, i) <=> i + n - 1 <= Len(t) /\ \A k \in 1 .. n : t[i + k - 1] = v[k]
  BY <1>0, StandsPointwise
<1>2. Stands(a, v, i) <=> i + n - 1 <= A /\ \A k \in 1 .. n : a[i + k - 1] = v[k]
  BY <1>0, StandsPointwise
<1>3. ASSUME Stands(t, v, i), ~(i + n - 1 <= A) PROVE FALSE
  <2> HIDE DEF n, A
  <2>1. PICK k \in Nat : k = A + 2 - i
    BY <1>i
  <2>2. k \in 1 .. n /\ i + k - 1 = A + 1
    BY <1>i, <1>3, <2>1
  <2>3. t[i + k - 1] = v[k]
    BY <1>1, <1>3, <2>2
  <2> QED BY <1>0, <2>2, <2>3 DEF A
<1>4. ASSUME i + n - 1 <= A, NEW k \in 1 .. n PROVE t[i + k - 1] = a[i + k - 1]
  <2>1. i + k - 1 \in 1 .. A
    <3> HIDE DEF n, A
    <3> QED BY <1>0, <1>4
  <2> QED BY <2>1
<1>5. i + n - 1 <= A => i + n - 1 <= Len(t)
  <2> HIDE DEF n
  <2> QED BY <1>0
<1> HIDE DEF n, A
<1> QED BY <1>1, <1>2, <1>3, <1>4, <1>5

Regroups(x, y, z) == (x \o y) \o z = x \o (y \o z)

LEMMA Regroup ==
    ASSUME NEW C, NEW x \in Seq(C), NEW y \in Seq(C), NEW z \in Seq(C)
    PROVE  Regroups(x, y, z)
BY ConcatAssociative DEF Regroups

LEMMA DashedLine ==
    ASSUME NEW C, "-" \in C, NEW a \in Seq(C), NEW b \in Seq(C), NEW t, t = a \o <<"-">> \o b
    PROVE  /\ t \in Seq(C) /\ Len(t) = (Len(a) + 1) + Len(b)
           /\ \A k \in 1 .. Len(a) : t[k] = a[k]
           /\ t[Len(a) + 1] = "-"
           /\ \A k \in 1 .. Len(b) : t[(Len(a) + 1) + k] = b[k]
<1> DEFINE d == <<"-">>
           h == a \o d
<1>0. d \in Seq(C) /\ Len(d) = 1 /\ d[1] = "-" /\ Len(a) \in Nat /\ Len(b) \in Nat
  OBVIOUS
<1> HIDE DEF d
<1>1. /\ h \in Seq(C) /\ Len(h) = Len(a) + 1
      /\ \A k \in 1 .. Len(a) + 1 : h[k] = IF k <= Len(a) THEN a[k] ELSE d[k - Len(a)]
  <2>1. /\ h \in Seq(C) /\ Len(h) = Len(a) + Len(d)
        /\ \A k \in 1 .. Len(a) + Len(d) : h[k] = IF k <= Len(a) THEN a[k] ELSE d[k - Len(a)]
    BY <1>0, ConcatProperties
  <2> HIDE DEF h
  <2> QED BY <1>0, <2>1
<1>2. t = h \o b
  BY DEF d
<1> HIDE DEF h
<1>3. /\ t \in Seq(C) /\ Len(t) = Len(h) + Len(b)
      /\ \A k \in 1 .. Len(h) + Len(b) : t[k] = IF k <= Len(h) THEN h[k] ELSE b[k - Len(h)]
  BY <1>1, <1>2, ConcatProperties
<1> DEFINE A == Len(a)
           B == Len(b)
<1> HIDE DEF A, B
<1>4. /\ A \in Nat /\ B \in Nat
      /\ \A k \in 1 .. A + 1 : h[k] = IF k <= A THEN a[k] ELSE d[k - A]
      /\ \A k \in 1 .. (A + 1) + B : t[k] = IF k <= A + 1 THEN h[k] ELSE b[k - (A + 1)]
  BY <1>0, <1>1, <1>3 DEF A, B
<1>5. ASSUME NEW k \in 1 .. A PROVE t[k] = a[k]
  <2>1. k \in 1 .. A + 1 /\ k \in 1 .. (A + 1) + B /\ k <= A /\ k <= A + 1
    BY <1>4
  <2> QED BY <1>4, <2>1
<1>6. t[A + 1] = "-"
  <2>1. A + 1 \in 1 .. A + 1 /\ A + 1 \in 1 .. (A + 1) + B /\ ~(A + 1 <= A) /\ A + 1 <= A + 1 /\ (A + 1) - A = 1
    BY <1>4
  <2> QED BY <1>0, <1>4, <2>1
<1>7. ASSUME NEW k \in 1 .. B PROVE t[(A + 1) + k] = b[k]
  <2>1. (A + 1) + k \in 1 .. (A + 1) + B /\ ~((A + 1) + k <= A + 1) /\ ((A + 1) + k) - (A + 1) = k
    BY <1>4
  <2> QED BY <1>4, <2>1
<1> QED BY <1>1, <1>3, <1>5, <1>6, <1>7 DEF A, B

Dashed(a, b, v) == Replace(a \o <<"-">> \o b, v) = Replace(a, v) \o <<"-">> \o Replace(b, v)

(* A value without a dash is replaced on each side of the dash by itself.  *)
LEMMA ReplaceAroundDash ==
    ASSUME NEW C, "*" \in C, "-" \in C, NEW a \in Seq(C), NEW b \in Seq(C),
           NEW v \in Seq(C), Len(v) > 0, "-" \notin Elements(v)
    PROVE  Dashed(a, b, v)
<1> DEFINE t == a \o <<"-">> \o b
           A == Len(a)
           B == Len(b)
           L == Len(t)
           Ra == ReplaceFrom(a, v)
           Rb == ReplaceFrom(b, v)
           Rt == ReplaceFrom(t, v)
           rest == <<"-">> \o Rb[1]
<1>0. /\ t \in Seq(C) /\ Len(t) = (A + 1) + B
      /\ \A k \in 1 .. A : t[k] = a[k]
      /\ t[A + 1] = "-"
      /\ \A k \in 1 .. B : t[(A + 1) + k] = b[k]
  BY DashedLine
<1>1. A \in Nat /\ B \in Nat /\ L = (A + 1) + B /\ Len(v) \in Nat
  BY <1>0
<1> HIDE DEF t
<1>d. "-" \in C /\ <<"-">> \in Seq(C)
  OBVIOUS
<1>s. \A j \in 1 .. B + 1 : Stands(t, v, (A + 1) + j) <=> Stands(b, v, j)
  <2> SUFFICES ASSUME NEW j \in 1 .. B + 1 PROVE Stands(t, v, (A + 1) + j) <=> Stands(b, v, j)
    OBVIOUS
  <2>1. j \in Nat \ {0} /\ A + 1 \in Nat
    BY <1>1
  <2> QED BY <1>0, <2>1, StandsShift
<1>b. \A i \in 1 .. A + 1 : Stands(t, v, i) <=> Stands(a, v, i)
  <2>1. Len(a) < Len(t)
    BY <1>1
  <2> QED BY <1>0, <2>1, StandsBefore
<1>2. \A j \in 1 .. B + 1 : Rt[(A + 1) + j] = Rb[j]
  <2> DEFINE G == {j \in 1 .. B + 1 : Rt[(A + 1) + j] = Rb[j]}
  <2>1. ASSUME NEW j \in 1 .. B + 1, \A k \in 1 .. B + 1 : j < k => k \in G PROVE j \in G
    <3> SUFFICES Rt[(A + 1) + j] = Rb[j]
      OBVIOUS
    <3>g. \A k \in 1 .. B + 1 : j < k => Rt[(A + 1) + k] = Rb[k]
      BY <2>1
    <3> HIDE DEF G
    <3> DEFINE i == (A + 1) + j
    <3>1. i \in 1 .. L + 1 /\ (i = L + 1 <=> j = B + 1)
      <4> HIDE DEF A, B, L
      <4> QED BY <1>1
    <3>e. Stands(t, v, i) <=> Stands(b, v, j)
      BY <1>s
    <3> HIDE DEF i
    <3>2. CASE j = B + 1
      <4>1. AtEnd(C, b, v, j)
        BY <3>2, ReplaceCases
      <4>2. AtEnd(C, t, v, i)
        BY <1>0, <3>1, <3>2, ReplaceCases
      <4> QED BY <4>1, <4>2 DEF AtEnd, i
    <3>3. CASE j # B + 1 /\ Stands(b, v, j)
      <4>1. AtHit(C, b, v, j)
        BY <3>3, ReplaceCases
      <4>2. AtHit(C, t, v, i)
        BY <1>0, <3>1, <3>3, <3>e, ReplaceCases
      <4>3. j + Len(v) \in 1 .. B + 1 /\ j < j + Len(v) /\ Rb[j] = Redacted \o Rb[j + Len(v)]
        BY <4>1 DEF AtHit
      <4>4. Rt[i] = Redacted \o Rt[i + Len(v)]
        BY <4>2 DEF AtHit
      <4>5. i + Len(v) = (A + 1) + (j + Len(v))
        BY <1>1 DEF i
      <4>6. Rt[(A + 1) + (j + Len(v))] = Rb[j + Len(v)]
        BY <3>g, <4>3
      <4> QED BY <4>3, <4>4, <4>5, <4>6 DEF i
    <3>4. CASE j # B + 1 /\ ~Stands(b, v, j)
      <4>1. AtMiss(C, b, v, j)
        BY <3>4, ReplaceCases
      <4>2. AtMiss(C, t, v, i)
        BY <1>0, <3>1, <3>4, <3>e, ReplaceCases
      <4>3. j + 1 \in 1 .. B + 1 /\ j < j + 1 /\ Rb[j] = <<b[j]>> \o Rb[j + 1]
        BY <4>1 DEF AtMiss
      <4>4. Rt[i] = <<t[i]>> \o Rt[i + 1]
        BY <4>2 DEF AtMiss
      <4>5. i + 1 = (A + 1) + (j + 1) /\ j \in 1 .. B
        <5> HIDE DEF A, B
        <5> QED BY <1>1, <3>4 DEF i
      <4>6. Rt[(A + 1) + (j + 1)] = Rb[j + 1]
        BY <3>g, <4>3
      <4>7. t[i] = b[j]
        BY <1>0, <4>5 DEF i
      <4> QED BY <4>3, <4>4, <4>5, <4>6, <4>7 DEF i
    <3> QED BY <3>2, <3>3, <3>4
  <2>2. \A j \in 1 .. B + 1 : j \in G
    <3> HIDE DEF G, B
    <3> QED BY <1>1, <2>1, FromTheEnd
  <2> QED BY <2>2
<1>r. Rb[1] \in Seq(C) /\ rest \in Seq(C) /\ Rt[(A + 1) + 1] = Rb[1]
  <2>1. 1 \in 1 .. B + 1
    BY <1>1
  <2>2. Rb[1] \in Seq(C)
    BY <2>1, ReplaceCases
  <2> HIDE DEF Rb
  <2>3. rest \in Seq(C)
    BY <1>d, <2>2, ConcatProperties
  <2> QED BY <1>2, <2>1, <2>2, <2>3
<1>3. \A i \in 1 .. A + 1 : Rt[i] = Ra[i] \o rest
  <2> DEFINE G == {i \in 1 .. A + 1 : Rt[i] = Ra[i] \o rest}
  <2>1. ASSUME NEW i \in 1 .. A + 1, \A k \in 1 .. A + 1 : i < k => k \in G PROVE i \in G
    <3> SUFFICES Rt[i] = Ra[i] \o rest
      OBVIOUS
    <3>g. \A k \in 1 .. A + 1 : i < k => Rt[k] = Ra[k] \o rest
      BY <2>1
    <3> HIDE DEF G, rest
    <3>1. i \in 1 .. L + 1 /\ i # L + 1
      <4> HIDE DEF A, B, L
      <4> QED BY <1>1
    <3>2. CASE i = A + 1
      <4>1. AtEnd(C, a, v, i)
        BY <3>2, ReplaceCases
      <4>2. ~Stands(a, v, i)
        <5> SUFFICES ASSUME i + Len(v) - 1 <= A PROVE FALSE
          BY DEF Stands
        <5> HIDE DEF A
        <5> QED BY <1>1, <3>2
      <4>3. ~Stands(t, v, i)
        BY <1>b, <4>2
      <4>4. AtMiss(C, t, v, i)
        BY <1>0, <3>1, <4>3, ReplaceCases
      <4>5. Rt[i] = <<t[i]>> \o Rt[i + 1]
        BY <4>4 DEF AtMiss
      <4>6. t[i] = "-" /\ Rt[i + 1] = Rb[1]
        BY <1>0, <1>r, <3>2
      <4>7. Rt[i] = rest
        BY <4>5, <4>6 DEF rest
      <4>8. Ra[i] \o rest = rest
        BY <1>r, <4>1, ConcatEmptySeq DEF AtEnd
      <4> QED BY <4>7, <4>8
    <3>3. CASE i # A + 1 /\ Stands(a, v, i)
      <4>1. AtHit(C, a, v, i)
        BY <3>3, ReplaceCases
      <4>2. Stands(t, v, i)
        BY <1>b, <3>3
      <4>3. AtHit(C, t, v, i)
        BY <1>0, <3>1, <4>2, ReplaceCases
      <4> DEFINE j == i + Len(v)
      <4>4. j \in 1 .. A + 1 /\ i < j /\ Ra[j] \in Seq(C) /\ Ra[i] = Redacted \o Ra[j]
        BY <4>1 DEF AtHit
      <4>5. Rt[i] = Redacted \o Rt[j]
        BY <4>3 DEF AtHit
      <4>6. Rt[j] = Ra[j] \o rest
        BY <3>g, <4>4
      <4>7. Redacted \in Seq(C)
        BY DEF Redacted
      <4> HIDE DEF j, Ra, Rt
      <4>x. PICK x \in Seq(C) : x = Ra[j]
        BY <4>4
      <4>z. (Redacted \o x) \o rest = Redacted \o (x \o rest)
        <5>1. rest \in Seq(C)
          BY <1>r
        <5>2. Regroups(Redacted, x, rest)
          BY <4>7, <5>1, Regroup
        <5> QED BY <5>2 DEF Regroups
      <4>8. (Redacted \o Ra[j]) \o rest = Redacted \o (Ra[j] \o rest)
        BY <4>x, <4>z
      <4> QED BY <4>4, <4>5, <4>6, <4>8
    <3>4. CASE i # A + 1 /\ ~Stands(a, v, i)
      <4>1. AtMiss(C, a, v, i)
        BY <3>4, ReplaceCases
      <4>2. ~Stands(t, v, i)
        BY <1>b, <3>4
      <4>3. AtMiss(C, t, v, i)
        BY <1>0, <3>1, <4>2, ReplaceCases
      <4> DEFINE j == i + 1
      <4>4. j \in 1 .. A + 1 /\ i < j /\ Ra[j] \in Seq(C) /\ Ra[i] = <<a[i]>> \o Ra[j]
        BY <4>1 DEF AtMiss
      <4>5. Rt[i] = <<t[i]>> \o Rt[j]
        BY <4>3 DEF AtMiss
      <4>6. Rt[j] = Ra[j] \o rest
        BY <3>g, <4>4
      <4>7. i \in 1 .. A
        <5> HIDE DEF A
        <5> QED BY <1>1, <3>4
      <4>8. t[i] = a[i] /\ <<a[i]>> \in Seq(C)
        <5>1. a[i] \in C
          BY <4>7
        <5> QED BY <1>0, <4>7, <5>1
      <4> DEFINE c == <<a[i]>>
      <4> HIDE DEF j, Ra, Rt, c
      <4>x. PICK x \in Seq(C) : x = Ra[j]
        BY <4>4
      <4>c. c \in Seq(C)
        BY <4>8 DEF c
      <4>z. (c \o x) \o rest = c \o (x \o rest)
        <5>1. rest \in Seq(C)
          BY <1>r
        <5>2. Regroups(c, x, rest)
          BY <4>c, <5>1, Regroup
        <5> QED BY <5>2 DEF Regroups
      <4>9. (c \o Ra[j]) \o rest = c \o (Ra[j] \o rest)
        BY <4>x, <4>z
      <4> QED BY <4>4, <4>5, <4>6, <4>8, <4>9 DEF c
    <3> QED BY <3>2, <3>3, <3>4
  <2>2. \A i \in 1 .. A + 1 : i \in G
    <3> HIDE DEF G, A
    <3> QED BY <1>1, <2>1, FromTheEnd
  <2> QED BY <2>2
<1>4. 1 \in 1 .. A + 1
  BY <1>1
<1>5. Rt[1] = Ra[1] \o rest
  BY <1>3, <1>4
<1>6. Ra[1] \in Seq(C)
  BY <1>4, ReplaceCases
<1> HIDE DEF Ra, Rb, Rt
<1>7. (Ra[1] \o <<"-">>) \o Rb[1] = Ra[1] \o (<<"-">> \o Rb[1])
  <2> DEFINE d == <<"-">>
  <2>1. d \in Seq(C)
    BY <1>d
  <2> HIDE DEF d
  <2>x. PICK x \in Seq(C) : x = Ra[1]
    BY <1>6
  <2>y. PICK y \in Seq(C) : y = Rb[1]
    BY <1>r
  <2> HIDE DEF rest
  <2>r. Regroups(x, d, y)
    BY <2>1, Regroup
  <2>3. (x \o d) \o y = x \o (d \o y)
    BY <2>r DEF Regroups
  <2>2. (Ra[1] \o d) \o Rb[1] = Ra[1] \o (d \o Rb[1])
    BY <2>3, <2>x, <2>y
  <2> QED BY <2>2 DEF d
<1> QED BY <1>5, <1>7 DEF Ra, Rb, Rt, t, Replace, Dashed

(* A run of the line once the first i values are struck out.               *)
Shown(run, order, i) == IF \E j \in 1 .. i : order[j] = run THEN Redacted ELSE run

(* Of a longest-first order of values free of stars and dashes, and a run  *)
(* that is one of them or holds none.                                      *)
IsPlain(C, order, run) ==
    /\ IsOrder(C, order)
    /\ \A i, k \in 1 .. Len(order) : i < k => order[i] # order[k] /\ Len(order[i]) >= Len(order[k])
    /\ \A i \in 1 .. Len(order) : "*" \notin Elements(order[i]) /\ "-" \notin Elements(order[i])
    /\ \/ \E i \in 1 .. Len(order) : order[i] = run
       \/ \A i \in 1 .. Len(order) : ~Holds(run, order[i])

LEMMA ShownStep ==
    ASSUME NEW C, "*" \in C, NEW order, NEW run \in Seq(C), IsPlain(C, order, run),
           NEW i \in Nat, i + 1 <= Len(order)
    PROVE  /\ Shown(run, order, i) \in Seq(C)
           /\ Replace(Shown(run, order, i), order[i + 1]) = Shown(run, order, i + 1)
<1> DEFINE N == Len(order)
           v == order[i + 1]
<1>0. /\ N \in Nat /\ i + 1 \in 1 .. N
      /\ \A k \in 1 .. N : order[k] \in Seq(C) /\ Len(order[k]) > 0
  BY DEF IsPlain, IsOrder
<1>1. v \in Seq(C) /\ Len(v) > 0 /\ "*" \notin Elements(v)
  BY <1>0 DEF IsPlain
<1>2. Redacted \in Seq(C)
  BY DEF Redacted
<1> HIDE DEF v
<1>3. CASE \E j \in 1 .. i : order[j] = run
  <2>1. Shown(run, order, i) = Redacted
    BY <1>3 DEF Shown
  <2>2. \E j \in 1 .. i + 1 : order[j] = run
    <3>1. PICK j \in 1 .. i : order[j] = run
      BY <1>3
    <3>2. j \in 1 .. i + 1
      OBVIOUS
    <3> QED BY <3>1, <3>2
  <2>3. Shown(run, order, i + 1) = Redacted
    BY <2>2 DEF Shown
  <2>4. Replace(Redacted, v) = Redacted
    BY <1>1, <1>2, RedactedHoldsNone, ReplaceAbsent
  <2> QED BY <1>2, <2>1, <2>3, <2>4 DEF v
<1>4. CASE ~(\E j \in 1 .. i : order[j] = run) /\ v = run
  <2>1. Shown(run, order, i) = run
    BY <1>4 DEF Shown
  <2>2. i + 1 \in 1 .. i + 1
    OBVIOUS
  <2>3. Shown(run, order, i + 1) = Redacted
    BY <1>4, <2>2 DEF Shown, v
  <2>4. Replace(run, v) = Redacted
    BY <1>1, <1>4, ReplaceSelf
  <2> QED BY <2>1, <2>3, <2>4 DEF v
<1>5. CASE ~(\E j \in 1 .. i : order[j] = run) /\ v # run
  <2>1. Shown(run, order, i) = run
    BY <1>5 DEF Shown
  <2>2. ASSUME NEW j \in 1 .. i + 1 PROVE order[j] # run
    <3>1. CASE j = i + 1
      BY <1>5, <3>1 DEF v
    <3>2. CASE j # i + 1
      <4>1. j \in 1 .. i
        BY <3>2
      <4> QED BY <1>5, <4>1
    <3> QED BY <3>1, <3>2
  <2>3. Shown(run, order, i + 1) = run
    BY <2>2 DEF Shown
  <2>4. ~Holds(run, v)
    <3>1. CASE \A k \in 1 .. N : ~Holds(run, order[k])
      BY <1>0, <3>1 DEF v
    <3>2. CASE \E k \in 1 .. N : order[k] = run
      <4>1. PICK k \in 1 .. N : order[k] = run
        BY <3>2
      <4>2. k \notin 1 .. i + 1
        BY <2>2, <4>1
      <4>3. i + 1 < k
        BY <1>0, <4>2
      <4>4. Len(v) >= Len(run)
        BY <1>0, <4>1, <4>3 DEF IsPlain, v
      <4>5. Len(v) \in Nat /\ Len(run) \in Nat
        BY <1>1
      <4>6. Len(run) <= Len(v)
        BY <4>4, <4>5
      <4> QED BY <1>1, <1>5, <4>6, LongerIsAbsent
    <3> QED BY <3>1, <3>2 DEF IsPlain
  <2>5. Replace(run, v) = run
    BY <1>1, <2>4, ReplaceAbsent
  <2> QED BY <2>1, <2>3, <2>5 DEF v
<1> QED BY <1>3, <1>4, <1>5

LEMMA MaskedLine ==
    ASSUME NEW C, "*" \in C, "-" \in C, NEW order, NEW a \in Seq(C), NEW b \in Seq(C),
           IsPlain(C, order, a), IsPlain(C, order, b)
    PROVE  Mask(a \o <<"-">> \o b, order) =
               Shown(a, order, Len(order)) \o <<"-">> \o Shown(b, order, Len(order))
<1> DEFINE N == Len(order)
           text == a \o <<"-">> \o b
           S == Struck(text, order)
           G == {i \in Nat : i <= N => S[i] = Shown(a, order, i) \o <<"-">> \o Shown(b, order, i)}
<1>0. N \in Nat /\ \A k \in 1 .. N : order[k] \in Seq(C) /\ Len(order[k]) > 0 /\ "-" \notin Elements(order[k])
  BY DEF IsPlain, IsOrder
<1>1. \A i \in 0 .. N : S[i] = IF i = 0 THEN text ELSE Replace(S[i - 1], order[i])
  <2> HIDE DEF text
  <2> QED BY <1>0, StruckEquation
<1> HIDE DEF N, S
<1>2. 0 \in G
  <2>1. S[0] = text /\ 1 .. 0 = {}
    <3> HIDE DEF text
    <3> QED BY <1>0, <1>1
  <2>2. Shown(a, order, 0) = a /\ Shown(b, order, 0) = b
    BY <2>1 DEF Shown
  <2> QED BY <2>1, <2>2
<1>3. ASSUME NEW i \in Nat, i \in G PROVE i + 1 \in G
  <2> SUFFICES ASSUME i + 1 <= N
               PROVE  S[i + 1] = Shown(a, order, i + 1) \o <<"-">> \o Shown(b, order, i + 1)
    OBVIOUS
  <2>1. i <= N /\ i + 1 \in 0 .. N /\ i + 1 # 0 /\ (i + 1) - 1 = i /\ i + 1 \in 1 .. N
    BY <1>0
  <2>2. S[i] = Shown(a, order, i) \o <<"-">> \o Shown(b, order, i)
    BY <1>3, <2>1
  <2> HIDE DEF G
  <2> DEFINE v == order[i + 1]
  <2>3. S[i + 1] = Replace(S[i], v)
    BY <1>1, <2>1
  <2>4. v \in Seq(C) /\ Len(v) > 0 /\ "-" \notin Elements(v)
    BY <1>0, <2>1
  <2>5. i + 1 <= Len(order)
    BY DEF N
  <2>6. Shown(a, order, i) \in Seq(C) /\ Replace(Shown(a, order, i), v) = Shown(a, order, i + 1)
    BY <2>5, ShownStep
  <2>7. Shown(b, order, i) \in Seq(C) /\ Replace(Shown(b, order, i), v) = Shown(b, order, i + 1)
    BY <2>5, ShownStep
  <2> HIDE DEF v
  <2>8. Replace(Shown(a, order, i) \o <<"-">> \o Shown(b, order, i), v) =
            Replace(Shown(a, order, i), v) \o <<"-">> \o Replace(Shown(b, order, i), v)
    <3>1. Dashed(Shown(a, order, i), Shown(b, order, i), v)
      BY <2>4, <2>6, <2>7, ReplaceAroundDash
    <3> QED BY <3>1 DEF Dashed
  <2> QED BY <2>2, <2>3, <2>6, <2>7, <2>8
<1>4. N \in G
  <2> HIDE DEF G
  <2> QED BY <1>0, <1>2, <1>3, NatSetInduction
<1>5. N <= N
  BY <1>0
<1>6. S[N] = Shown(a, order, N) \o <<"-">> \o Shown(b, order, N)
  BY <1>4, <1>5
<1> QED BY <1>6 DEF Mask, S, N

KeepsSecrets(shown, M, a, b) ==
    /\ \A v \in M : "*" \notin Elements(v) => ~Holds(shown, v)
    /\ (/\ \A v \in M : Elements(v) \intersect {"*", "-"} = {}
        /\ a \in M \/ ~\E v \in M : Holds(a, v)
        /\ b \in M \/ ~\E v \in M : Holds(b, v))
       => shown = (IF a \in M THEN Redacted ELSE a) \o <<"-">> \o (IF b \in M THEN Redacted ELSE b)

(* What mask makes of a line, whatever the order among values of a length. *)
LEMMA MaskedLog ==
    ASSUME NEW C, "*" \in C, "-" \in C, NEW values, IsFiniteSet(values), values \subseteq Seq(C),
           MinMaskLen \in Nat \ {0}, NEW order \in MaskOrder(values), NEW a \in Seq(C), NEW b \in Seq(C),
           NEW shown, shown = Mask(a \o <<"-">> \o b, order)
    PROVE  KeepsSecrets(shown, Maskable(values), a, b)
<1> DEFINE M == Maskable(values)
           N == Len(order)
           text == a \o <<"-">> \o b
<1>0. /\ IsOrder(C, order) /\ Elements(order) = M /\ DOMAIN order = 1 .. N
      /\ \A i, k \in 1 .. N : i < k => order[i] # order[k] /\ Len(order[i]) >= Len(order[k])
  BY MaskOrderFacts
<1>1. N \in Nat /\ \A v : v \in M <=> \E i \in 1 .. N : order[i] = v
  BY <1>0 DEF IsOrder, Elements
<1>2. text \in Seq(C)
  BY DashedLine
<1>3. ASSUME NEW v \in M, "*" \notin Elements(v) PROVE ~Holds(shown, v)
  <2>1. PICK i \in 1 .. N : order[i] = v
    BY <1>1
  <2>2. N \in 0 .. N
    BY <1>1
  <2> HIDE DEF text
  <2>3. ~Holds(Struck(text, order)[N], order[i])
    BY <1>0, <1>2, <1>3, <2>1, <2>2, StruckFacts
  <2> QED BY <2>1, <2>3 DEF Mask, text
<1>4. ASSUME \A v \in M : Elements(v) \intersect {"*", "-"} = {},
             a \in M \/ ~\E v \in M : Holds(a, v),
             b \in M \/ ~\E v \in M : Holds(b, v)
      PROVE  shown = (IF a \in M THEN Redacted ELSE a) \o <<"-">> \o (IF b \in M THEN Redacted ELSE b)
  <2>1. \A i \in 1 .. N : order[i] \in M
    BY <1>1
  <2>2. \A i \in 1 .. N : "*" \notin Elements(order[i]) /\ "-" \notin Elements(order[i])
    BY <1>4, <2>1
  <2> HIDE DEF M, N
  <2>3. IsPlain(C, order, a)
    BY <1>0, <1>1, <1>4, <2>1, <2>2 DEF IsPlain, N
  <2>4. IsPlain(C, order, b)
    BY <1>0, <1>1, <1>4, <2>1, <2>2 DEF IsPlain, N
  <2>5. shown = Shown(a, order, N) \o <<"-">> \o Shown(b, order, N)
    BY <2>3, <2>4, MaskedLine DEF N
  <2>6. \A r : Shown(r, order, N) = IF r \in M THEN Redacted ELSE r
    <3> SUFFICES ASSUME NEW r PROVE Shown(r, order, N) = IF r \in M THEN Redacted ELSE r
      OBVIOUS
    <3>1. r \in M <=> \E i \in 1 .. N : order[i] = r
      BY <1>1
    <3> QED BY <3>1 DEF Shown
  <2>7. PICK x : x = IF a \in M THEN Redacted ELSE a
    OBVIOUS
  <2>8. PICK y : y = IF b \in M THEN Redacted ELSE b
    OBVIOUS
  <2>9. Shown(a, order, N) = x /\ Shown(b, order, N) = y
    BY <2>6, <2>7, <2>8
  <2> QED BY <2>5, <2>7, <2>8, <2>9
<1> HIDE DEF text
<1> HIDE DEF M
<1>5. KeepsSecrets(shown, M, a, b)
  BY <1>3, <1>4 DEF KeepsSecrets
<1> QED BY <1>5 DEF M

-----------------------------------------------------------------------------
(* Conditions.  The parser is a recursion over levels and positions whose  *)
(* every step looks to the right of its own position, or at its position   *)
(* from a tighter level.                                                   *)

Rank(level) ==
    CASE level = "primary" -> 1 [] level = "cmp" -> 2 [] level = "not" -> 3 [] level = "and" -> 4
      [] level = "or" -> 5 [] level = "args" -> 6 [] OTHER -> 0

Lower(lv, q, level, pos) == q > pos \/ (q = pos /\ Rank(lv) < Rank(level))

(* What a parse of n tokens at pos may say: an error, or a value and where *)
(* it stopped.                                                             *)
Good(n, level, pos, r) ==
    r = Err \/ \E v : \E q \in pos .. n + 1 : r = Ok(v, q) /\ (level # "members" => q > pos)

(* f and g say the same wherever a step at pos looks, something it can use.*)
Alike(n, f, g, level, pos) ==
    \A lv \in Levels, q \in 1 .. n + 1 :
        Lower(lv, q, level, pos) =>
            f[<<lv, q>>] = g[<<lv, q>>] /\ Good(n, lv, q, f[<<lv, q>>])

LEMMA BeforeEnd ==
    ASSUME NEW s, NEW q \in Nat, Len(s) \in Nat, At(s, q).k # "end"
    PROVE  q <= Len(s)
BY DEF At, Punct

LEMMA ChainAlike ==
    ASSUME NEW s, NEW n \in Nat, n = Len(s), NEW f, NEW g,
           NEW level \in Levels, NEW pos \in 1 .. n + 1, level \in {"or", "and"}, Alike(n, f, g, level, pos)
    PROVE  /\ ParseChain(f, s, level, pos) = ParseChain(g, s, level, pos)
           /\ Good(n, level, pos, ParseChain(f, s, level, pos))
<1>1. PICK l : l = f[<<Tighter(level), pos>>]
  OBVIOUS
<1>2. l = g[<<Tighter(level), pos>>] /\ Good(n, Tighter(level), pos, l)
  <2>1. Tighter(level) \in Levels /\ Lower(Tighter(level), pos, level, pos)
    BY DEF Tighter, Levels, Lower, Rank
  <2> QED BY <1>1, <2>1 DEF Alike
<1>3. CASE l = Err
  <2>1. ~l.ok
    BY <1>3 DEF Err
  <2> QED BY <1>1, <1>2, <1>3, <2>1 DEF ParseChain, Good
<1>4. CASE l # Err
  <2>1. PICK v, q : q \in pos .. n + 1 /\ l = Ok(v, q) /\ q > pos
    BY <1>2, <1>4 DEF Good, Tighter
  <2>2. l.ok = TRUE /\ l.v = v /\ l.pos = q
    BY <2>1 DEF Ok
  <2>3. CASE At(s, q).k # Chained(level)
    BY <1>1, <1>2, <2>1, <2>2, <2>3 DEF ParseChain, Good
  <2>4. CASE At(s, q).k = Chained(level)
    <3>1. q <= n
      <4>1. Chained(level) # "end"
        BY DEF Chained
      <4> QED BY <2>1, <2>4, <4>1, BeforeEnd
    <3>2. PICK r : r = f[<<level, q + 1>>]
      OBVIOUS
    <3>3. r = g[<<level, q + 1>>] /\ Good(n, level, q + 1, r)
      <4>1. level \in Levels /\ Lower(level, q + 1, level, pos) /\ q + 1 \in 1 .. n + 1
        BY <2>1, <3>1 DEF Levels, Lower
      <4> QED BY <3>2, <4>1 DEF Alike
    <3>4. CASE r = Err
      <4>1. ~r.ok
        BY <3>4 DEF Err
      <4> QED BY <1>1, <1>2, <2>2, <2>4, <3>2, <3>3, <4>1 DEF ParseChain, Good
    <3>5. CASE r # Err
      <4>1. PICK w, t : t \in q + 1 .. n + 1 /\ r = Ok(w, t)
        BY <3>3, <3>5 DEF Good
      <4>2. r.ok = TRUE /\ r.v = w /\ r.pos = t
        BY <4>1 DEF Ok
      <4>3. ParseChain(f, s, level, pos) = Ok(IF Truthy(v) <=> level = "or" THEN v ELSE w, t)
        BY <1>1, <2>2, <2>4, <3>2, <4>2 DEF ParseChain
      <4>4. ParseChain(g, s, level, pos) = Ok(IF Truthy(v) <=> level = "or" THEN v ELSE w, t)
        BY <1>2, <2>2, <2>4, <3>3, <4>2 DEF ParseChain
      <4>5. t \in pos .. n + 1 /\ t > pos
        BY <2>1, <4>1
      <4> QED BY <4>3, <4>4, <4>5 DEF Good
    <3> QED BY <3>4, <3>5
  <2> QED BY <2>3, <2>4
<1> QED BY <1>3, <1>4


LEMMA NotAlike ==
    ASSUME NEW s, NEW n \in Nat, n = Len(s), NEW f, NEW g,
           NEW pos \in 1 .. n + 1, Alike(n, f, g, "not", pos)
    PROVE  /\ ParseNot(f, s, pos) = ParseNot(g, s, pos)
           /\ Good(n, "not", pos, ParseNot(f, s, pos))
<1>1. CASE At(s, pos).k # "!"
  <2>1. "cmp" \in Levels /\ Lower("cmp", pos, "not", pos)
    BY DEF Levels, Lower, Rank
  <2>2. f[<<"cmp", pos>>] = g[<<"cmp", pos>>] /\ Good(n, "cmp", pos, f[<<"cmp", pos>>])
    BY <2>1 DEF Alike
  <2> QED BY <1>1, <2>2 DEF ParseNot, Good
<1>2. CASE At(s, pos).k = "!"
  <2>1. pos <= n
    BY <1>2, BeforeEnd
  <2>2. PICK r : r = f[<<"not", pos + 1>>]
    OBVIOUS
  <2>3. r = g[<<"not", pos + 1>>] /\ Good(n, "not", pos + 1, r)
    <3>1. "not" \in Levels /\ Lower("not", pos + 1, "not", pos) /\ pos + 1 \in 1 .. n + 1
      BY <2>1 DEF Levels, Lower
    <3> QED BY <2>2, <3>1 DEF Alike
  <2>4. CASE r = Err
    <3>1. ~r.ok
      BY <2>4 DEF Err
    <3> QED BY <1>2, <2>2, <2>3, <3>1 DEF ParseNot, Good
  <2>5. CASE r # Err
    <3>1. PICK v, q : q \in pos + 1 .. n + 1 /\ r = Ok(v, q)
      BY <2>3, <2>5 DEF Good
    <3>2. r.ok = TRUE /\ r.v = v /\ r.pos = q
      BY <3>1 DEF Ok
    <3>3. ParseNot(f, s, pos) = Ok(Bool(~Truthy(v)), q)
      BY <1>2, <2>2, <3>2 DEF ParseNot
    <3>4. ParseNot(g, s, pos) = Ok(Bool(~Truthy(v)), q)
      BY <1>2, <2>3, <3>2 DEF ParseNot
    <3>5. q \in pos .. n + 1 /\ q > pos
      BY <3>1
    <3> QED BY <3>3, <3>4, <3>5 DEF Good
  <2> QED BY <2>4, <2>5
<1> QED BY <1>1, <1>2

LEMMA CmpAlike ==
    ASSUME NEW s, NEW n \in Nat, n = Len(s), NEW f, NEW g,
           NEW pos \in 1 .. n + 1, Alike(n, f, g, "cmp", pos)
    PROVE  /\ ParseCmp(f, s, pos) = ParseCmp(g, s, pos)
           /\ Good(n, "cmp", pos, ParseCmp(f, s, pos))
<1>1. PICK l : l = f[<<"primary", pos>>]
  OBVIOUS
<1>2. l = g[<<"primary", pos>>] /\ Good(n, "primary", pos, l)
  <2>1. "primary" \in Levels /\ Lower("primary", pos, "cmp", pos)
    BY DEF Levels, Lower, Rank
  <2> QED BY <1>1, <2>1 DEF Alike
<1>3. CASE l = Err
  <2>1. ~l.ok
    BY <1>3 DEF Err
  <2> QED BY <1>1, <1>2, <1>3, <2>1 DEF ParseCmp, Good
<1>4. CASE l # Err
  <2>1. PICK v, q : q \in pos .. n + 1 /\ l = Ok(v, q) /\ q > pos
    BY <1>2, <1>4 DEF Good
  <2>2. l.ok = TRUE /\ l.v = v /\ l.pos = q
    BY <2>1 DEF Ok
  <2>3. CASE At(s, q).k \notin Comparisons
    BY <1>1, <1>2, <2>1, <2>2, <2>3 DEF ParseCmp, Good
  <2>4. CASE At(s, q).k \in Comparisons
    <3>1. q <= n
      <4>1. "end" \notin Comparisons
        BY DEF Comparisons
      <4> QED BY <2>1, <2>4, <4>1, BeforeEnd
    <3>2. PICK r : r = f[<<"primary", q + 1>>]
      OBVIOUS
    <3>3. r = g[<<"primary", q + 1>>] /\ Good(n, "primary", q + 1, r)
      <4>1. "primary" \in Levels /\ Lower("primary", q + 1, "cmp", pos) /\ q + 1 \in 1 .. n + 1
        BY <2>1, <3>1 DEF Levels, Lower
      <4> QED BY <3>2, <4>1 DEF Alike
    <3>4. CASE r = Err
      <4>1. ~r.ok
        BY <3>4 DEF Err
      <4> QED BY <1>1, <1>2, <2>2, <2>4, <3>2, <3>3, <4>1 DEF ParseCmp, Good
    <3>5. CASE r # Err
      <4>1. PICK w, t : t \in q + 1 .. n + 1 /\ r = Ok(w, t)
        BY <3>3, <3>5 DEF Good
      <4>2. r.ok = TRUE /\ r.v = w /\ r.pos = t
        BY <4>1 DEF Ok
      <4>3. ParseCmp(f, s, pos) = Ok(Bool(Compare(At(s, q).k, v, w)), t)
        BY <1>1, <2>2, <2>4, <3>2, <4>2 DEF ParseCmp
      <4>4. ParseCmp(g, s, pos) = Ok(Bool(Compare(At(s, q).k, v, w)), t)
        BY <1>2, <2>2, <2>4, <3>3, <4>2 DEF ParseCmp
      <4>5. t \in pos .. n + 1 /\ t > pos
        BY <2>1, <4>1
      <4> QED BY <4>3, <4>4, <4>5 DEF Good
    <3> QED BY <3>4, <3>5
  <2> QED BY <2>3, <2>4
<1> QED BY <1>3, <1>4

LEMMA PrimaryAlike ==
    ASSUME NEW n \in Nat, NEW f, NEW g,
           NEW pos \in 1 .. n + 1, Alike(n, f, g, "primary", pos)
    PROVE  /\ ParsePrimary(f, pos) = ParsePrimary(g, pos)
           /\ Good(n, "primary", pos, ParsePrimary(f, pos))
<1>1. PICK l : l = f[<<"atom", pos>>]
  OBVIOUS
<1>2. l = g[<<"atom", pos>>] /\ Good(n, "atom", pos, l)
  <2>1. "atom" \in Levels /\ Lower("atom", pos, "primary", pos)
    BY DEF Levels, Lower, Rank
  <2> QED BY <1>1, <2>1 DEF Alike
<1>3. CASE l = Err
  <2>1. ~l.ok
    BY <1>3 DEF Err
  <2> QED BY <1>1, <1>2, <1>3, <2>1 DEF ParsePrimary, Good
<1>4. CASE l # Err
  <2>1. PICK v, q : q \in pos .. n + 1 /\ l = Ok(v, q) /\ q > pos
    BY <1>2, <1>4 DEF Good
  <2>2. l.ok = TRUE /\ l.v = v /\ l.pos = q
    BY <2>1 DEF Ok
  <2>3. PICK r : r = f[<<"members", q>>]
    OBVIOUS
  <2>4. r = g[<<"members", q>>] /\ Good(n, "members", q, r)
    <3>1. "members" \in Levels /\ Lower("members", q, "primary", pos) /\ q \in 1 .. n + 1
      BY <2>1 DEF Levels, Lower
    <3> QED BY <2>3, <3>1 DEF Alike
  <2>5. CASE r = Err
    <3>1. ~r.ok
      BY <2>5 DEF Err
    <3> QED BY <1>1, <1>2, <2>2, <2>3, <2>4, <3>1 DEF ParsePrimary, Good
  <2>6. CASE r # Err
    <3>1. PICK w, t : t \in q .. n + 1 /\ r = Ok(w, t)
      BY <2>4, <2>6 DEF Good
    <3>2. r.ok = TRUE /\ r.v = w /\ r.pos = t
      BY <3>1 DEF Ok
    <3>3. ParsePrimary(f, pos) = Ok(Walked(v, w), t)
      BY <1>1, <2>2, <2>3, <3>2 DEF ParsePrimary
    <3>4. ParsePrimary(g, pos) = Ok(Walked(v, w), t)
      BY <1>2, <2>2, <2>4, <3>2 DEF ParsePrimary
    <3>5. t \in pos .. n + 1 /\ t > pos
      BY <2>1, <3>1
    <3> QED BY <3>3, <3>4, <3>5 DEF Good
  <2> QED BY <2>5, <2>6
<1> QED BY <1>3, <1>4

LEMMA MembersAlike ==
    ASSUME NEW s, NEW n \in Nat, n = Len(s), NEW f, NEW g,
           NEW pos \in 1 .. n + 1, Alike(n, f, g, "members", pos)
    PROVE  /\ ParseMembers(f, s, pos) = ParseMembers(g, s, pos)
           /\ Good(n, "members", pos, ParseMembers(f, s, pos))
<1>1. CASE At(s, pos).k # "."
  <2>1. ParseMembers(f, s, pos) = Ok(<<>>, pos) /\ ParseMembers(g, s, pos) = Ok(<<>>, pos)
    BY <1>1 DEF ParseMembers
  <2>2. pos \in pos .. n + 1
    OBVIOUS
  <2> QED BY <2>1, <2>2 DEF Good
<1>2. CASE At(s, pos).k = "." /\ ~IsSegment(At(s, pos + 1))
  BY <1>2 DEF ParseMembers, Good
<1>3. CASE At(s, pos).k = "." /\ IsSegment(At(s, pos + 1))
  <2>1. pos + 1 <= n
    <3>1. At(s, pos + 1).k # "end"
      BY <1>3 DEF IsSegment
    <3> QED BY <3>1, BeforeEnd
  <2>2. PICK r : r = f[<<"members", pos + 2>>]
    OBVIOUS
  <2>3. r = g[<<"members", pos + 2>>] /\ Good(n, "members", pos + 2, r)
    <3>1. "members" \in Levels /\ Lower("members", pos + 2, "members", pos) /\ pos + 2 \in 1 .. n + 1
      BY <2>1 DEF Levels, Lower
    <3> QED BY <2>2, <3>1 DEF Alike
  <2>4. CASE r = Err
    <3>1. ~r.ok
      BY <2>4 DEF Err
    <3> QED BY <1>3, <2>2, <2>3, <3>1 DEF ParseMembers, Good
  <2>5. CASE r # Err
    <3>1. PICK v, q : q \in pos + 2 .. n + 1 /\ r = Ok(v, q)
      BY <2>3, <2>5 DEF Good
    <3>2. r.ok = TRUE /\ r.v = v /\ r.pos = q
      BY <3>1 DEF Ok
    <3>3. ParseMembers(f, s, pos) = Ok(<<Segment(At(s, pos + 1))>> \o v, q)
      BY <1>3, <2>2, <3>2 DEF ParseMembers
    <3>4. ParseMembers(g, s, pos) = Ok(<<Segment(At(s, pos + 1))>> \o v, q)
      BY <1>3, <2>3, <3>2 DEF ParseMembers
    <3>5. q \in pos .. n + 1
      BY <3>1
    <3> QED BY <3>3, <3>4, <3>5 DEF Good
  <2> QED BY <2>4, <2>5
<1> QED BY <1>1, <1>2, <1>3


LEMMA ArgsAlike ==
    ASSUME NEW s, NEW n \in Nat, n = Len(s), NEW f, NEW g,
           NEW pos \in 1 .. n + 1, Alike(n, f, g, "args", pos)
    PROVE  /\ ParseArgs(f, s, pos) = ParseArgs(g, s, pos)
           /\ Good(n, "args", pos, ParseArgs(f, s, pos))
<1>1. PICK l : l = f[<<"or", pos>>]
  OBVIOUS
<1>2. l = g[<<"or", pos>>] /\ Good(n, "or", pos, l)
  <2>1. "or" \in Levels /\ Lower("or", pos, "args", pos)
    BY DEF Levels, Lower, Rank
  <2> QED BY <1>1, <2>1 DEF Alike
<1>3. CASE l = Err
  <2>1. ~l.ok
    BY <1>3 DEF Err
  <2> QED BY <1>1, <1>2, <1>3, <2>1 DEF ParseArgs, Good
<1>4. CASE l # Err
  <2>1. PICK v, q : q \in pos .. n + 1 /\ l = Ok(v, q) /\ q > pos
    BY <1>2, <1>4 DEF Good
  <2>2. l.ok = TRUE /\ l.v = v /\ l.pos = q
    BY <2>1 DEF Ok
  <2>3. CASE At(s, q).k = ")"
    <3>1. q <= n
      BY <2>1, <2>3, BeforeEnd
    <3>2. ParseArgs(f, s, pos) = Ok(<<v>>, q + 1) /\ ParseArgs(g, s, pos) = Ok(<<v>>, q + 1)
      BY <1>1, <1>2, <2>2, <2>3 DEF ParseArgs
    <3>3. q + 1 \in pos .. n + 1 /\ q + 1 > pos
      BY <2>1, <3>1
    <3> QED BY <3>2, <3>3 DEF Good
  <2>4. CASE At(s, q).k # ")" /\ At(s, q).k # ","
    BY <1>1, <1>2, <2>2, <2>4 DEF ParseArgs, Good
  <2>5. CASE At(s, q).k = ","
    <3>1. q <= n
      <4>1. At(s, q).k # "end"
        BY <2>5
      <4> QED BY <2>1, <4>1, BeforeEnd
    <3>2. PICK r : r = f[<<"args", q + 1>>]
      OBVIOUS
    <3>3. r = g[<<"args", q + 1>>] /\ Good(n, "args", q + 1, r)
      <4>1. "args" \in Levels /\ Lower("args", q + 1, "args", pos) /\ q + 1 \in 1 .. n + 1
        BY <2>1, <3>1 DEF Levels, Lower
      <4> QED BY <3>2, <4>1 DEF Alike
    <3>4. CASE r = Err
      <4>1. ~r.ok
        BY <3>4 DEF Err
      <4> QED BY <1>1, <1>2, <2>2, <2>5, <3>2, <3>3, <4>1 DEF ParseArgs, Good
    <3>5. CASE r # Err
      <4>1. PICK w, t : t \in q + 1 .. n + 1 /\ r = Ok(w, t)
        BY <3>3, <3>5 DEF Good
      <4>2. r.ok = TRUE /\ r.v = w /\ r.pos = t
        BY <4>1 DEF Ok
      <4>3. ParseArgs(f, s, pos) = Ok(<<v>> \o w, t)
        BY <1>1, <2>2, <2>5, <3>2, <4>2 DEF ParseArgs
      <4>4. ParseArgs(g, s, pos) = Ok(<<v>> \o w, t)
        BY <1>2, <2>2, <2>5, <3>3, <4>2 DEF ParseArgs
      <4>5. t \in pos .. n + 1 /\ t > pos
        BY <2>1, <4>1
      <4> QED BY <4>3, <4>4, <4>5 DEF Good
    <3> QED BY <3>4, <3>5
  <2> QED BY <2>3, <2>4, <2>5
<1> QED BY <1>3, <1>4

LEMMA CallAlike ==
    ASSUME NEW ctx, NEW s, NEW n \in Nat, n = Len(s), NEW f, NEW g,
           NEW pos \in 1 .. n + 1, pos + 1 <= n, Alike(n, f, g, "atom", pos)
    PROVE  /\ ParseCall(ctx, f, s, pos) = ParseCall(ctx, g, s, pos)
           /\ Good(n, "atom", pos, ParseCall(ctx, f, s, pos))
<1> DEFINE Then(a) == IF ~a.ok \/ At(s, pos).v \notin Functions THEN Err
                      ELSE Ok(Call(ctx, At(s, pos).v, a.v), a.pos)
<1>1. ASSUME NEW a, Good(n, "args", pos + 2, a) PROVE Good(n, "atom", pos, Then(a))
  <2>1. CASE a = Err
    BY <2>1 DEF Err, Good
  <2>2. CASE a # Err
    <3>1. PICK v, q : q \in pos + 2 .. n + 1 /\ a = Ok(v, q)
      BY <1>1, <2>2 DEF Good
    <3>2. a.ok = TRUE /\ a.v = v /\ a.pos = q
      BY <3>1 DEF Ok
    <3>3. q \in pos .. n + 1 /\ q > pos
      BY <3>1
    <3> QED BY <3>2, <3>3 DEF Good
  <2> QED BY <2>1, <2>2
<1>2. CASE At(s, pos + 2).k = ")"
  <2>1. pos + 2 <= n
    BY <1>2, BeforeEnd
  <2>2. Good(n, "args", pos + 2, Ok(<<>>, pos + 3))
    <3>1. pos + 3 \in pos + 2 .. n + 1 /\ pos + 3 > pos + 2
      BY <2>1
    <3> QED BY <3>1 DEF Good
  <2>3. /\ ParseCall(ctx, f, s, pos) = Then(Ok(<<>>, pos + 3))
        /\ ParseCall(ctx, g, s, pos) = Then(Ok(<<>>, pos + 3))
    BY <1>2 DEF ParseCall
  <2>4. Good(n, "atom", pos, Then(Ok(<<>>, pos + 3)))
    <3> HIDE DEF Then
    <3> QED BY <1>1, <2>2
  <2> HIDE DEF Then
  <2> QED BY <2>3, <2>4
<1>3. CASE At(s, pos + 2).k # ")"
  <2>1. PICK a : a = f[<<"args", pos + 2>>]
    OBVIOUS
  <2>2. a = g[<<"args", pos + 2>>] /\ Good(n, "args", pos + 2, a)
    <3>1. "args" \in Levels /\ Lower("args", pos + 2, "atom", pos) /\ pos + 2 \in 1 .. n + 1
      BY DEF Levels, Lower
    <3> QED BY <2>1, <3>1 DEF Alike
  <2>3. ParseCall(ctx, f, s, pos) = Then(a) /\ ParseCall(ctx, g, s, pos) = Then(a)
    BY <1>3, <2>1, <2>2 DEF ParseCall
  <2> HIDE DEF Then
  <2> QED BY <1>1, <2>2, <2>3
<1> QED BY <1>2, <1>3

LEMMA AtomAlike ==
    ASSUME NEW ctx, NEW s, NEW n \in Nat, n = Len(s), NEW f, NEW g,
           NEW pos \in 1 .. n + 1, Alike(n, f, g, "atom", pos)
    PROVE  /\ ParseAtom(ctx, f, s, pos) = ParseAtom(ctx, g, s, pos)
           /\ Good(n, "atom", pos, ParseAtom(ctx, f, s, pos))
<1>1. CASE At(s, pos).k = "("
  <2>1. pos <= n
    BY <1>1, BeforeEnd
  <2>2. PICK r : r = f[<<"or", pos + 1>>]
    OBVIOUS
  <2>3. r = g[<<"or", pos + 1>>] /\ Good(n, "or", pos + 1, r)
    <3>1. "or" \in Levels /\ Lower("or", pos + 1, "atom", pos) /\ pos + 1 \in 1 .. n + 1
      BY <2>1 DEF Levels, Lower
    <3> QED BY <2>2, <3>1 DEF Alike
  <2>4. CASE r = Err
    <3>1. ~r.ok
      BY <2>4 DEF Err
    <3> QED BY <1>1, <2>2, <2>3, <3>1 DEF ParseAtom, Good
  <2>5. CASE r # Err
    <3>1. PICK v, q : q \in pos + 1 .. n + 1 /\ r = Ok(v, q)
      BY <2>3, <2>5 DEF Good
    <3>2. r.ok = TRUE /\ r.v = v /\ r.pos = q
      BY <3>1 DEF Ok
    <3>3. CASE At(s, q).k # ")"
      BY <1>1, <2>2, <2>3, <3>2, <3>3 DEF ParseAtom, Good
    <3>4. CASE At(s, q).k = ")"
      <4>1. q <= n
        BY <3>1, <3>4, BeforeEnd
      <4>2. ParseAtom(ctx, f, s, pos) = Ok(v, q + 1)
        BY <1>1, <2>2, <3>2, <3>4 DEF ParseAtom
      <4>3. ParseAtom(ctx, g, s, pos) = Ok(v, q + 1)
        BY <1>1, <2>3, <3>2, <3>4 DEF ParseAtom
      <4>4. q + 1 \in pos .. n + 1 /\ q + 1 > pos
        BY <3>1, <4>1
      <4> QED BY <4>2, <4>3, <4>4 DEF Good
    <3> QED BY <3>3, <3>4
  <2> QED BY <2>4, <2>5
<1>2. CASE At(s, pos).k = "literal"
  <2>1. pos <= n
    BY <1>2, BeforeEnd
  <2>2. pos + 1 \in pos .. n + 1 /\ pos + 1 > pos
    BY <2>1
  <2>3. ParseAtom(ctx, f, s, pos) = Ok(At(s, pos).v, pos + 1)
    BY <1>2 DEF ParseAtom
  <2>4. ParseAtom(ctx, g, s, pos) = Ok(At(s, pos).v, pos + 1)
    BY <1>2 DEF ParseAtom
  <2> QED BY <2>2, <2>3, <2>4 DEF Good
<1>3. CASE At(s, pos).k = "ident" /\ At(s, pos + 1).k = "("
  <2>1. pos + 1 <= n
    BY <1>3, BeforeEnd
  <2>2. /\ ParseAtom(ctx, f, s, pos) = ParseCall(ctx, f, s, pos)
        /\ ParseAtom(ctx, g, s, pos) = ParseCall(ctx, g, s, pos)
    BY <1>3 DEF ParseAtom
  <2> QED BY <2>1, <2>2, CallAlike
<1>4. CASE At(s, pos).k = "ident" /\ At(s, pos + 1).k # "("
  <2>1. pos <= n
    BY <1>4, BeforeEnd
  <2>2. pos + 1 \in pos .. n + 1 /\ pos + 1 > pos
    BY <2>1
  <2>3. ParseAtom(ctx, f, s, pos) = Ok(BareName(ctx, At(s, pos).v), pos + 1)
    BY <1>4 DEF ParseAtom
  <2>4. ParseAtom(ctx, g, s, pos) = Ok(BareName(ctx, At(s, pos).v), pos + 1)
    BY <1>4 DEF ParseAtom
  <2> QED BY <2>2, <2>3, <2>4 DEF Good
<1>5. CASE At(s, pos).k \notin {"(", "literal", "ident"}
  BY <1>5 DEF ParseAtom, Good
<1> QED BY <1>1, <1>2, <1>3, <1>4, <1>5

LEMMA ParseAlike ==
    ASSUME NEW ctx, NEW s, NEW n \in Nat, n = Len(s), NEW f, NEW g,
           NEW level \in Levels, NEW pos \in 1 .. n + 1, Alike(n, f, g, level, pos)
    PROVE  /\ ParseAt(ctx, f, s, <<level, pos>>) = ParseAt(ctx, g, s, <<level, pos>>)
           /\ Good(n, level, pos, ParseAt(ctx, f, s, <<level, pos>>))
<1>1. CASE level \in {"or", "and"}
  <2>1. \A h : ParseAt(ctx, h, s, <<level, pos>>) = ParseChain(h, s, level, pos)
    BY <1>1 DEF ParseAt
  <2>2. /\ ParseChain(f, s, level, pos) = ParseChain(g, s, level, pos)
        /\ Good(n, level, pos, ParseChain(f, s, level, pos))
    BY <1>1, ChainAlike
  <2> QED BY <2>1, <2>2
<1>2. CASE level = "not"
  BY <1>2, NotAlike DEF ParseAt
<1>3. CASE level = "cmp"
  BY <1>3, CmpAlike DEF ParseAt
<1>4. CASE level = "primary"
  BY <1>4, PrimaryAlike DEF ParseAt
<1>5. CASE level = "members"
  BY <1>5, MembersAlike DEF ParseAt
<1>6. CASE level = "args"
  BY <1>6, ArgsAlike DEF ParseAt
<1>7. CASE level = "atom"
  <2>1. \A h : ParseAt(ctx, h, s, <<level, pos>>) = ParseAtom(ctx, h, s, pos)
    BY <1>7 DEF ParseAt
  <2>2. /\ ParseAtom(ctx, f, s, pos) = ParseAtom(ctx, g, s, pos)
        /\ Good(n, "atom", pos, ParseAtom(ctx, f, s, pos))
    BY <1>7, AtomAlike
  <2> QED BY <1>7, <2>1, <2>2
<1> QED BY <1>1, <1>2, <1>3, <1>4, <1>5, <1>6, <1>7 DEF Levels

(* How far a step is from the last there can be.                           *)
Ahead(n, level, pos) == (n + 1 - pos) * 7 + Rank(level)

LEMMA AheadFacts ==
    ASSUME NEW n \in Nat
    PROVE  /\ \A lv \in Levels, q \in 1 .. n + 1 : Ahead(n, lv, q) \in Nat /\ Ahead(n, lv, q) < 7 * (n + 1)
           /\ \A lv, level \in Levels, q, pos \in 1 .. n + 1 :
                  Lower(lv, q, level, pos) => Ahead(n, lv, q) < Ahead(n, level, pos)
<1>1. \A lv \in Levels : Rank(lv) \in 0 .. 6
  BY DEF Levels, Rank
<1>2. ASSUME NEW lv \in Levels, NEW q \in 1 .. n + 1
      PROVE  Ahead(n, lv, q) \in Nat /\ Ahead(n, lv, q) < 7 * (n + 1)
  <2>1. PICK r \in 0 .. 6 : Rank(lv) = r
    BY <1>1
  <2> QED BY <2>1 DEF Ahead
<1>3. ASSUME NEW lv \in Levels, NEW level \in Levels, NEW q \in 1 .. n + 1, NEW pos \in 1 .. n + 1,
             Lower(lv, q, level, pos)
      PROVE  Ahead(n, lv, q) < Ahead(n, level, pos)
  <2>1. PICK r \in 0 .. 6 : Rank(lv) = r
    BY <1>1
  <2>2. PICK t \in 0 .. 6 : Rank(level) = t
    BY <1>1
  <2>3. q > pos \/ (q = pos /\ r < t)
    BY <1>3, <2>1, <2>2 DEF Lower
  <2>4. (n + 1 - q) * 7 + r < (n + 1 - pos) * 7 + t
    BY <2>3
  <2> QED BY <2>1, <2>2, <2>4 DEF Ahead
<1> QED BY <1>2, <1>3

(* A parse that is right for the steps less than k ahead.                  *)
Settled(ctx, s, f, k) ==
    \A lv \in Levels, q \in 1 .. Len(s) + 1 :
        Ahead(Len(s), lv, q) < k =>
            /\ f[<<lv, q>>] = ParseAt(ctx, f, s, <<lv, q>>)
            /\ Good(Len(s), lv, q, f[<<lv, q>>])

LEMMA ParserExists ==
    ASSUME NEW ctx, NEW s, Len(s) \in Nat
    PROVE  \E f : /\ f = [x \in Levels \X (1 .. Len(s) + 1) |-> ParseAt(ctx, f, s, x)]
                  /\ Settled(ctx, s, f, 7 * (Len(s) + 1))
<1>n. PICK n \in Nat : n = Len(s)
  OBVIOUS
<1> DEFINE D == Levels \X (1 .. n + 1)
           G == {k \in Nat : \E f : Settled(ctx, s, f, k)}
<1>1. 0 \in G
  <2>1. \A f : Settled(ctx, s, f, 0)
    <3>1. \A lv \in Levels, q \in 1 .. n + 1 : ~(Ahead(n, lv, q) < 0)
      BY AheadFacts
    <3> QED BY <1>n, <3>1 DEF Settled
  <2> QED BY <2>1
<1>2. ASSUME NEW f, NEW k \in Nat, Settled(ctx, s, f, k), NEW h, h = [x \in D |-> ParseAt(ctx, f, s, x)]
      PROVE  /\ Settled(ctx, s, h, k + 1)
             /\ \A x \in D : Ahead(n, x[1], x[2]) < k + 1 => h[x] = ParseAt(ctx, h, s, x)
  <2>1. ASSUME NEW lv \in Levels, NEW q \in 1 .. n + 1, Ahead(n, lv, q) < k + 1
        PROVE  /\ h[<<lv, q>>] = ParseAt(ctx, h, s, <<lv, q>>)
               /\ Good(n, lv, q, h[<<lv, q>>])
    <3>1. ASSUME NEW l2 \in Levels, NEW q2 \in 1 .. n + 1, Ahead(n, l2, q2) < k
          PROVE  h[<<l2, q2>>] = f[<<l2, q2>>] /\ Good(n, l2, q2, f[<<l2, q2>>])
      <4>1. <<l2, q2>> \in D
        OBVIOUS
      <4>2. h[<<l2, q2>>] = ParseAt(ctx, f, s, <<l2, q2>>)
        BY <1>2, <4>1
      <4> QED BY <1>n, <1>2, <3>1, <4>2 DEF Settled
    <3>2. Alike(n, f, h, lv, q)
      <4>1. ASSUME NEW l2 \in Levels, NEW q2 \in 1 .. n + 1, Lower(l2, q2, lv, q)
            PROVE  Ahead(n, l2, q2) < k
        <5>1. Ahead(n, l2, q2) < Ahead(n, lv, q)
          BY <4>1, AheadFacts
        <5>2. Ahead(n, l2, q2) \in Nat /\ Ahead(n, lv, q) \in Nat
          BY AheadFacts
        <5> QED BY <2>1, <5>1, <5>2
      <4> QED BY <3>1, <4>1 DEF Alike
    <3>3. ParseAt(ctx, f, s, <<lv, q>>) = ParseAt(ctx, h, s, <<lv, q>>)
      BY <1>n, <3>2, ParseAlike
    <3>4. Good(n, lv, q, ParseAt(ctx, f, s, <<lv, q>>))
      BY <1>n, <3>2, ParseAlike
    <3>5. h[<<lv, q>>] = ParseAt(ctx, f, s, <<lv, q>>)
      <4>1. <<lv, q>> \in D
        OBVIOUS
      <4> QED BY <1>2, <4>1
    <3> QED BY <3>3, <3>4, <3>5
  <2>2. Settled(ctx, s, h, k + 1)
    BY <1>n, <2>1 DEF Settled
  <2>3. ASSUME NEW x \in D, Ahead(n, x[1], x[2]) < k + 1 PROVE h[x] = ParseAt(ctx, h, s, x)
    <3>1. x = <<x[1], x[2]>> /\ x[1] \in Levels /\ x[2] \in 1 .. n + 1
      OBVIOUS
    <3> QED BY <2>1, <2>3, <3>1
  <2> QED BY <2>2, <2>3
<1>3. ASSUME NEW k \in Nat, k \in G PROVE k + 1 \in G
  <2>1. PICK f : Settled(ctx, s, f, k)
    BY <1>3
  <2>2. PICK h : h = [x \in D |-> ParseAt(ctx, f, s, x)]
    OBVIOUS
  <2>3. Settled(ctx, s, h, k + 1)
    BY <1>2, <2>1, <2>2
  <2> QED BY <2>3
<1>4. \A k \in Nat : k \in G
  <2> HIDE DEF G
  <2> QED BY <1>1, <1>3, NatSetInduction
<1>5. PICK K \in Nat : K = 7 * (n + 1)
  OBVIOUS
<1>6. PICK f : Settled(ctx, s, f, K)
  BY <1>4, <1>5
<1>7. PICK h : h = [x \in D |-> ParseAt(ctx, f, s, x)]
  OBVIOUS
<1>8. Settled(ctx, s, h, K + 1) /\ \A x \in D : Ahead(n, x[1], x[2]) < K + 1 => h[x] = ParseAt(ctx, h, s, x)
  BY <1>2, <1>6, <1>7
<1>9. \A lv \in Levels, q \in 1 .. n + 1 : Ahead(n, lv, q) < K + 1
  <2>1. ASSUME NEW lv \in Levels, NEW q \in 1 .. n + 1 PROVE Ahead(n, lv, q) < K + 1
    <3>1. PICK a \in Nat : a = Ahead(n, lv, q)
      BY AheadFacts
    <3>2. a < K
      BY <1>5, <3>1, AheadFacts
    <3> QED BY <3>1, <3>2
  <2> QED BY <2>1
<1>10. \A x \in D : h[x] = ParseAt(ctx, h, s, x)
  <2>1. \A x \in D : x[1] \in Levels /\ x[2] \in 1 .. n + 1
    OBVIOUS
  <2> QED BY <1>8, <1>9, <2>1
<1>11. h = [x \in D |-> ParseAt(ctx, h, s, x)]
  <2>1. \A x \in D : ParseAt(ctx, f, s, x) = ParseAt(ctx, h, s, x)
    BY <1>7, <1>10
  <2> QED BY <1>7, <2>1
<1>12. Settled(ctx, s, h, 7 * (Len(s) + 1))
  BY <1>n, <1>5, <1>8, <1>9 DEF Settled
<1> QED BY <1>n, <1>11, <1>12


LEMMA ParserEquation ==
    ASSUME NEW ctx, NEW s, Len(s) \in Nat
    PROVE  \A level \in Levels, pos \in 1 .. Len(s) + 1 :
               /\ Parser(ctx, s)[<<level, pos>>] = ParseAt(ctx, Parser(ctx, s), s, <<level, pos>>)
               /\ Good(Len(s), level, pos, Parser(ctx, s)[<<level, pos>>])
<1>n. PICK n \in Nat : n = Len(s)
  OBVIOUS
<1> DEFINE D == Levels \X (1 .. Len(s) + 1)
           p == Parser(ctx, s)
           AllGood(k) == \A lv \in Levels, q \in 1 .. n + 1 :
                             Ahead(n, lv, q) < k => Good(n, lv, q, p[<<lv, q>>])
           G == {k \in Nat : AllGood(k)}
<1>1. p = [x \in D |-> ParseAt(ctx, p, s, x)]
  <2>1. \E f : f = [x \in D |-> ParseAt(ctx, f, s, x)]
    <3>1. \E f : /\ f = [x \in Levels \X (1 .. Len(s) + 1) |-> ParseAt(ctx, f, s, x)]
                 /\ Settled(ctx, s, f, 7 * (Len(s) + 1))
      BY ParserExists
    <3> QED BY <3>1
  <2> QED BY <2>1 DEF Parser
<1>2. ASSUME NEW lv \in Levels, NEW q \in 1 .. n + 1
      PROVE  p[<<lv, q>>] = ParseAt(ctx, p, s, <<lv, q>>)
  <2>1. <<lv, q>> \in D
    BY <1>n
  <2> HIDE DEF p, D
  <2> QED BY <1>1, <2>1
<1> HIDE DEF p
<1>3. 0 \in G
  <2>1. \A lv \in Levels, q \in 1 .. n + 1 : ~(Ahead(n, lv, q) < 0)
    BY AheadFacts
  <2> QED BY <2>1
<1>4. ASSUME NEW k \in Nat, k \in G PROVE k + 1 \in G
  <2>1. ASSUME NEW lv \in Levels, NEW q \in 1 .. n + 1, Ahead(n, lv, q) < k + 1
        PROVE  Good(n, lv, q, p[<<lv, q>>])
    <3>1. ASSUME NEW l2 \in Levels, NEW q2 \in 1 .. n + 1, Lower(l2, q2, lv, q)
          PROVE  Good(n, l2, q2, p[<<l2, q2>>])
      <4>1. Ahead(n, l2, q2) < Ahead(n, lv, q)
        BY <3>1, AheadFacts
      <4>2. Ahead(n, l2, q2) \in Nat /\ Ahead(n, lv, q) \in Nat
        BY AheadFacts
      <4>3. Ahead(n, l2, q2) < k
        BY <2>1, <4>1, <4>2
      <4> QED BY <1>4, <4>3
    <3>2. Alike(n, p, p, lv, q)
      BY <3>1 DEF Alike
    <3>3. Good(n, lv, q, ParseAt(ctx, p, s, <<lv, q>>))
      BY <1>n, <3>2, ParseAlike
    <3> QED BY <1>2, <3>3
  <2> QED BY <2>1
<1>5. \A k \in Nat : k \in G
  <2> HIDE DEF G
  <2> QED BY <1>3, <1>4, NatSetInduction
<1>6. ASSUME NEW lv \in Levels, NEW q \in 1 .. n + 1 PROVE Good(n, lv, q, p[<<lv, q>>])
  <2>1. PICK a \in Nat : a = Ahead(n, lv, q)
    BY AheadFacts
  <2>2. a + 1 \in G
    <3> HIDE DEF G
    <3> QED BY <1>5, <2>1
  <2>3. Ahead(n, lv, q) < a + 1
    BY <2>1
  <2> QED BY <2>2, <2>3
<1> QED BY <1>n, <1>2, <1>6 DEF p

(* The steps, as they are used.                                            *)
Steps(ctx, f, s, pos) ==
    /\ \A level \in {"or", "and"} : f[<<level, pos>>] = ParseChain(f, s, level, pos)
    /\ f[<<"not", pos>>] = ParseNot(f, s, pos)
    /\ f[<<"cmp", pos>>] = ParseCmp(f, s, pos)
    /\ f[<<"primary", pos>>] = ParsePrimary(f, pos)
    /\ f[<<"members", pos>>] = ParseMembers(f, s, pos)
    /\ f[<<"args", pos>>] = ParseArgs(f, s, pos)
    /\ f[<<"atom", pos>>] = ParseAtom(ctx, f, s, pos)

LEMMA ParserSteps ==
    ASSUME NEW ctx, NEW s, Len(s) \in Nat
    PROVE  \A pos \in 1 .. Len(s) + 1 : Steps(ctx, Parser(ctx, s), s, pos)
<1> SUFFICES ASSUME NEW pos \in 1 .. Len(s) + 1 PROVE Steps(ctx, Parser(ctx, s), s, pos)
  OBVIOUS
<1>0. PICK f : f = Parser(ctx, s)
  OBVIOUS
<1>1. \A level \in Levels : f[<<level, pos>>] = ParseAt(ctx, f, s, <<level, pos>>)
  BY <1>0, ParserEquation
<1>2. \A level \in {"or", "and"} : f[<<level, pos>>] = ParseChain(f, s, level, pos)
  <2>1. \A level \in {"or", "and"} : ParseAt(ctx, f, s, <<level, pos>>) = ParseChain(f, s, level, pos)
    BY DEF ParseAt
  <2>2. \A level \in {"or", "and"} : level \in Levels
    BY DEF Levels
  <2> QED BY <1>1, <2>1, <2>2
<1>3. {"not", "cmp", "primary", "members", "args", "atom"} \subseteq Levels
  BY DEF Levels
<1>4. f[<<"not", pos>>] = ParseNot(f, s, pos)
  BY <1>1, <1>3 DEF ParseAt
<1>5. f[<<"cmp", pos>>] = ParseCmp(f, s, pos)
  BY <1>1, <1>3 DEF ParseAt
<1>6. f[<<"primary", pos>>] = ParsePrimary(f, pos)
  BY <1>1, <1>3 DEF ParseAt
<1>7. f[<<"members", pos>>] = ParseMembers(f, s, pos)
  BY <1>1, <1>3 DEF ParseAt
<1>8. f[<<"args", pos>>] = ParseArgs(f, s, pos)
  BY <1>1, <1>3 DEF ParseAt
<1>9. f[<<"atom", pos>>] = ParseAtom(ctx, f, s, pos)
  BY <1>1, <1>3 DEF ParseAt
<1> QED BY <1>0, <1>2, <1>4, <1>5, <1>6, <1>7, <1>8, <1>9 DEF Steps


(* A primary, and what stands between parentheses, is read in the midst of *)
(* a condition as it is read alone: what comes after it is looked at, and  *)
(* goes on with neither a path nor a call.                                 *)
Delimited == {"primary", "members", "args", "atom"}

Embedded(w, s, d) ==
    /\ Len(w) \in Nat /\ Len(s) \in Nat /\ d \in Nat /\ d + Len(w) <= Len(s)
    /\ \A i \in 1 .. Len(w) : At(s, d + i) = At(w, i)
    /\ At(s, d + Len(w) + 1).k \notin {".", "("}

Carries(f, h, n, d, level, pos) ==
    \A v, q : f[<<level, pos>>] = Ok(v, q) /\ (level \in Delimited \/ q <= n) =>
                  h[<<level, d + pos>>] = Ok(v, d + q)

CarriesBelow(f, h, n, d, level, pos) ==
    \A lv \in Levels, q \in 1 .. n + 1 :
        Lower(lv, q, level, pos) =>
            Good(n, lv, q, f[<<lv, q>>]) /\ Carries(f, h, n, d, lv, q)

LEMMA OkFacts ==
    /\ \A v, q : Ok(v, q).ok = TRUE /\ Ok(v, q).v = v /\ Ok(v, q).pos = q /\ Ok(v, q) # Err
    /\ \A v, q, w, t : Ok(v, q) = Ok(w, t) => v = w /\ q = t
<1>1. \A v, q : Ok(v, q).ok = TRUE /\ Ok(v, q).v = v /\ Ok(v, q).pos = q
  BY DEF Ok
<1>2. Err.ok = FALSE
  BY DEF Err
<1>3. \A v, q, w, t : Ok(v, q) = Ok(w, t) => v = w /\ q = t
  <2> SUFFICES ASSUME NEW v, NEW q, NEW w, NEW t, Ok(v, q) = Ok(w, t) PROVE v = w /\ q = t
    OBVIOUS
  <2>1. Ok(v, q).v = v /\ Ok(v, q).pos = q /\ Ok(w, t).v = w /\ Ok(w, t).pos = t
    BY DEF Ok
  <2> QED BY <2>1
<1> QED BY <1>1, <1>2, <1>3

LEMMA ChainCarries ==
    ASSUME NEW w, NEW s, NEW d, Embedded(w, s, d), NEW n \in Nat, n = Len(w), NEW f, NEW h,
           NEW level \in Levels, NEW pos \in 1 .. n + 1, level \in {"or", "and"},
           CarriesBelow(f, h, n, d, level, pos),
           NEW v, NEW q, q <= n, ParseChain(f, w, level, pos) = Ok(v, q)
    PROVE  ParseChain(h, s, level, d + pos) = Ok(v, d + q)
<1>1. PICK l : l = f[<<Tighter(level), pos>>]
  OBVIOUS
<1>2. Good(n, Tighter(level), pos, l) /\ Carries(f, h, n, d, Tighter(level), pos)
  <2>1. Tighter(level) \in Levels /\ Lower(Tighter(level), pos, level, pos)
    BY DEF Tighter, Levels, Lower, Rank
  <2> QED BY <1>1, <2>1 DEF CarriesBelow
<1>3. l # Err
  <2>1. SUFFICES ASSUME l = Err PROVE FALSE
    OBVIOUS
  <2>2. ParseChain(f, w, level, pos) = Err
    BY <1>1, <2>1 DEF ParseChain, Err
  <2> QED BY <2>2, OkFacts
<1>4. PICK a, t : t \in pos .. n + 1 /\ l = Ok(a, t) /\ t > pos
  BY <1>2, <1>3 DEF Good, Tighter
<1>5. l.ok = TRUE /\ l.v = a /\ l.pos = t
  BY <1>4, OkFacts
<1>6. t <= n => h[<<Tighter(level), d + pos>>] = Ok(a, d + t) /\ At(s, d + t) = At(w, t)
  <2> SUFFICES ASSUME t <= n PROVE h[<<Tighter(level), d + pos>>] = Ok(a, d + t) /\ At(s, d + t) = At(w, t)
    OBVIOUS
  <2>1. h[<<Tighter(level), d + pos>>] = Ok(a, d + t)
    BY <1>1, <1>2, <1>4 DEF Carries
  <2>2. At(s, d + t) = At(w, t)
    BY <1>4 DEF Embedded
  <2> QED BY <2>1, <2>2
<1>7. Ok(a, d + t).ok = TRUE /\ Ok(a, d + t).v = a /\ Ok(a, d + t).pos = d + t
  BY OkFacts
<1>8. CASE At(w, t).k # Chained(level)
  <2>1. Ok(a, t) = Ok(v, q)
    BY <1>1, <1>4, <1>5, <1>8 DEF ParseChain
  <2>2. a = v /\ t = q
    BY <2>1, OkFacts
  <2>3. h[<<Tighter(level), d + pos>>] = Ok(a, d + t) /\ At(s, d + t) = At(w, t)
    BY <1>6, <2>2
  <2> QED BY <1>7, <1>8, <2>2, <2>3 DEF ParseChain
<1>9. CASE At(w, t).k = Chained(level)
  <2>1. t <= n
    <3>1. Chained(level) # "end"
      BY DEF Chained
    <3> QED BY <1>4, <1>9, <3>1, BeforeEnd
  <2>2. PICK r : r = f[<<level, t + 1>>]
    OBVIOUS
  <2>3. Good(n, level, t + 1, r) /\ Carries(f, h, n, d, level, t + 1)
    <3>1. level \in Levels /\ Lower(level, t + 1, level, pos) /\ t + 1 \in 1 .. n + 1
      BY <1>4, <2>1 DEF Levels, Lower
    <3> QED BY <2>2, <3>1 DEF CarriesBelow
  <2>4. r # Err
    <3>1. SUFFICES ASSUME r = Err PROVE FALSE
      OBVIOUS
    <3>2. ParseChain(f, w, level, pos) = Err
      BY <1>1, <1>5, <1>9, <2>2, <3>1 DEF ParseChain, Err
    <3> QED BY <3>2, OkFacts
  <2>5. PICK b, u : u \in t + 1 .. n + 1 /\ r = Ok(b, u)
    BY <2>3, <2>4 DEF Good
  <2>6. r.ok = TRUE /\ r.v = b /\ r.pos = u
    BY <2>5, OkFacts
  <2>7. ParseChain(f, w, level, pos) = Ok(IF Truthy(a) <=> level = "or" THEN a ELSE b, u)
    BY <1>1, <1>5, <1>9, <2>2, <2>6 DEF ParseChain
  <2>8. v = (IF Truthy(a) <=> level = "or" THEN a ELSE b) /\ q = u
    <3>1. PICK c : c = IF Truthy(a) <=> level = "or" THEN a ELSE b
      OBVIOUS
    <3>2. Ok(c, u) = Ok(v, q)
      BY <2>7, <3>1
    <3> QED BY <3>1, <3>2, OkFacts
  <2>9. h[<<Tighter(level), d + pos>>] = Ok(a, d + t) /\ At(s, d + t) = At(w, t)
    BY <1>6, <2>1
  <2>10. h[<<level, d + t + 1>>] = Ok(b, d + u)
    <3>1. h[<<level, d + (t + 1)>>] = Ok(b, d + u)
      BY <2>2, <2>3, <2>5, <2>8 DEF Carries
    <3>2. d + (t + 1) = d + t + 1
      BY <1>4 DEF Embedded
    <3> QED BY <3>1, <3>2
  <2>11. Ok(b, d + u).ok = TRUE /\ Ok(b, d + u).v = b /\ Ok(b, d + u).pos = d + u
    BY OkFacts
  <2> QED BY <1>7, <1>9, <2>8, <2>9, <2>10, <2>11 DEF ParseChain
<1> QED BY <1>8, <1>9

LEMMA NotCarries ==
    ASSUME NEW w, NEW s, NEW d, Embedded(w, s, d), NEW n \in Nat, n = Len(w), NEW f, NEW h,
           NEW pos \in 1 .. n + 1, CarriesBelow(f, h, n, d, "not", pos),
           NEW v, NEW q, q <= n, ParseNot(f, w, pos) = Ok(v, q)
    PROVE  ParseNot(h, s, d + pos) = Ok(v, d + q)
<1>1. CASE At(w, pos).k = "!"
  <2>1. pos <= n
    BY <1>1, BeforeEnd
  <2>2. PICK r : r = f[<<"not", pos + 1>>]
    OBVIOUS
  <2>3. Good(n, "not", pos + 1, r) /\ Carries(f, h, n, d, "not", pos + 1)
    <3>1. "not" \in Levels /\ Lower("not", pos + 1, "not", pos) /\ pos + 1 \in 1 .. n + 1
      BY <2>1 DEF Levels, Lower
    <3> QED BY <2>2, <3>1 DEF CarriesBelow
  <2>4. r # Err
    <3>1. SUFFICES ASSUME r = Err PROVE FALSE
      OBVIOUS
    <3>2. ParseNot(f, w, pos) = Err
      BY <1>1, <2>2, <3>1 DEF ParseNot, Err
    <3> QED BY <3>2, OkFacts
  <2>5. PICK b, u : u \in pos + 1 .. n + 1 /\ r = Ok(b, u)
    BY <2>3, <2>4 DEF Good
  <2>6. r.ok = TRUE /\ r.v = b /\ r.pos = u
    BY <2>5, OkFacts
  <2>7. Ok(Bool(~Truthy(b)), u) = Ok(v, q)
    BY <1>1, <2>2, <2>6 DEF ParseNot
  <2>8. v = Bool(~Truthy(b)) /\ q = u
    BY <2>7, OkFacts
  <2>9. h[<<"not", d + pos + 1>>] = Ok(b, d + u)
    <3>1. h[<<"not", d + (pos + 1)>>] = Ok(b, d + u)
      BY <2>2, <2>3, <2>5, <2>8 DEF Carries
    <3>2. d + (pos + 1) = d + pos + 1
      BY DEF Embedded
    <3> QED BY <3>1, <3>2
  <2>10. Ok(b, d + u).ok = TRUE /\ Ok(b, d + u).v = b /\ Ok(b, d + u).pos = d + u
    BY OkFacts
  <2>11. At(s, d + pos).k = "!"
    BY <1>1, <2>1 DEF Embedded
  <2> QED BY <2>8, <2>9, <2>10, <2>11 DEF ParseNot
<1>2. CASE At(w, pos).k # "!"
  <2>1. f[<<"cmp", pos>>] = Ok(v, q)
    BY <1>2 DEF ParseNot
  <2>2. Good(n, "cmp", pos, f[<<"cmp", pos>>]) /\ Carries(f, h, n, d, "cmp", pos)
    <3>1. "cmp" \in Levels /\ Lower("cmp", pos, "not", pos)
      BY DEF Levels, Lower, Rank
    <3> QED BY <3>1 DEF CarriesBelow
  <2>3. h[<<"cmp", d + pos>>] = Ok(v, d + q)
    BY <2>1, <2>2 DEF Carries
  <2>4. At(s, d + pos) = At(w, pos)
    <3>1. pos <= n
      <4>1. PICK b, u : u \in pos .. n + 1 /\ f[<<"cmp", pos>>] = Ok(b, u) /\ u > pos
        BY <2>1, <2>2, OkFacts DEF Good
      <4>2. u = q
        <5>1. Ok(v, q) = Ok(b, u)
          BY <2>1, <4>1
        <5> QED BY <5>1, OkFacts
      <4> QED BY <4>1, <4>2
    <3> QED BY <3>1 DEF Embedded
  <2> QED BY <1>2, <2>3, <2>4 DEF ParseNot
<1> QED BY <1>1, <1>2


LEMMA CmpCarries ==
    ASSUME NEW w, NEW s, NEW d, Embedded(w, s, d), NEW n \in Nat, n = Len(w), NEW f, NEW h,
           NEW pos \in 1 .. n + 1, CarriesBelow(f, h, n, d, "cmp", pos),
           NEW v, NEW q, q <= n, ParseCmp(f, w, pos) = Ok(v, q)
    PROVE  ParseCmp(h, s, d + pos) = Ok(v, d + q)
<1>1. PICK l : l = f[<<"primary", pos>>]
  OBVIOUS
<1>2. Good(n, "primary", pos, l) /\ Carries(f, h, n, d, "primary", pos)
  <2>1. "primary" \in Levels /\ Lower("primary", pos, "cmp", pos)
    BY DEF Levels, Lower, Rank
  <2> QED BY <1>1, <2>1 DEF CarriesBelow
<1>3. l # Err
  <2>1. SUFFICES ASSUME l = Err PROVE FALSE
    OBVIOUS
  <2>2. ParseCmp(f, w, pos) = Err
    BY <1>1, <2>1 DEF ParseCmp, Err
  <2> QED BY <2>2, OkFacts
<1>4. PICK a, t : t \in pos .. n + 1 /\ l = Ok(a, t) /\ t > pos
  BY <1>2, <1>3 DEF Good
<1>5. l.ok = TRUE /\ l.v = a /\ l.pos = t
  BY <1>4, OkFacts
<1>6. h[<<"primary", d + pos>>] = Ok(a, d + t)
  BY <1>1, <1>2, <1>4 DEF Carries, Delimited
<1>7. Ok(a, d + t).ok = TRUE /\ Ok(a, d + t).v = a /\ Ok(a, d + t).pos = d + t
  BY OkFacts
<1>8. CASE At(w, t).k \notin Comparisons
  <2>1. Ok(a, t) = Ok(v, q)
    BY <1>1, <1>4, <1>5, <1>8 DEF ParseCmp
  <2>2. a = v /\ t = q
    BY <2>1, OkFacts
  <2>3. At(s, d + t) = At(w, t)
    BY <1>4, <2>2 DEF Embedded
  <2> QED BY <1>6, <1>7, <1>8, <2>2, <2>3 DEF ParseCmp
<1>9. CASE At(w, t).k \in Comparisons
  <2>1. t <= n
    <3>1. At(w, t).k # "end"
      BY <1>9 DEF Comparisons
    <3> QED BY <1>4, <3>1, BeforeEnd
  <2>2. PICK r : r = f[<<"primary", t + 1>>]
    OBVIOUS
  <2>3. Good(n, "primary", t + 1, r) /\ Carries(f, h, n, d, "primary", t + 1)
    <3>1. "primary" \in Levels /\ Lower("primary", t + 1, "cmp", pos) /\ t + 1 \in 1 .. n + 1
      BY <1>4, <2>1 DEF Levels, Lower
    <3> QED BY <2>2, <3>1 DEF CarriesBelow
  <2>4. r # Err
    <3>1. SUFFICES ASSUME r = Err PROVE FALSE
      OBVIOUS
    <3>2. ParseCmp(f, w, pos) = Err
      BY <1>1, <1>5, <1>9, <2>2, <3>1 DEF ParseCmp, Err
    <3> QED BY <3>2, OkFacts
  <2>5. PICK b, u : u \in t + 1 .. n + 1 /\ r = Ok(b, u)
    BY <2>3, <2>4 DEF Good
  <2>6. r.ok = TRUE /\ r.v = b /\ r.pos = u
    BY <2>5, OkFacts
  <2>7. Ok(Bool(Compare(At(w, t).k, a, b)), u) = Ok(v, q)
    BY <1>1, <1>5, <1>9, <2>2, <2>6 DEF ParseCmp
  <2>8. v = Bool(Compare(At(w, t).k, a, b)) /\ q = u
    BY <2>7, OkFacts
  <2>9. At(s, d + t) = At(w, t)
    BY <1>4, <2>1 DEF Embedded
  <2>10. h[<<"primary", d + t + 1>>] = Ok(b, d + u)
    <3>1. h[<<"primary", d + (t + 1)>>] = Ok(b, d + u)
      BY <2>2, <2>3, <2>5 DEF Carries, Delimited
    <3>2. d + (t + 1) = d + t + 1
      BY <1>4 DEF Embedded
    <3> QED BY <3>1, <3>2
  <2>11. Ok(b, d + u).ok = TRUE /\ Ok(b, d + u).v = b /\ Ok(b, d + u).pos = d + u
    BY OkFacts
  <2> QED BY <1>6, <1>7, <1>9, <2>8, <2>9, <2>10, <2>11 DEF ParseCmp
<1> QED BY <1>8, <1>9

LEMMA PrimaryCarries ==
    ASSUME NEW d, NEW n \in Nat, NEW f, NEW h,
           NEW pos \in 1 .. n + 1, CarriesBelow(f, h, n, d, "primary", pos),
           NEW v, NEW q, ParsePrimary(f, pos) = Ok(v, q)
    PROVE  ParsePrimary(h, d + pos) = Ok(v, d + q)
<1>1. PICK l : l = f[<<"atom", pos>>]
  OBVIOUS
<1>2. Good(n, "atom", pos, l) /\ Carries(f, h, n, d, "atom", pos)
  <2>1. "atom" \in Levels /\ Lower("atom", pos, "primary", pos)
    BY DEF Levels, Lower, Rank
  <2> QED BY <1>1, <2>1 DEF CarriesBelow
<1>3. l # Err
  <2>1. SUFFICES ASSUME l = Err PROVE FALSE
    OBVIOUS
  <2>2. ParsePrimary(f, pos) = Err
    BY <1>1, <2>1 DEF ParsePrimary, Err
  <2> QED BY <2>2, OkFacts
<1>4. PICK a, t : t \in pos .. n + 1 /\ l = Ok(a, t) /\ t > pos
  BY <1>2, <1>3 DEF Good
<1>5. l.ok = TRUE /\ l.v = a /\ l.pos = t
  BY <1>4, OkFacts
<1>6. h[<<"atom", d + pos>>] = Ok(a, d + t)
  BY <1>1, <1>2, <1>4 DEF Carries, Delimited
<1>7. Ok(a, d + t).ok = TRUE /\ Ok(a, d + t).v = a /\ Ok(a, d + t).pos = d + t
  BY OkFacts
<1>8. PICK r : r = f[<<"members", t>>]
  OBVIOUS
<1>9. Good(n, "members", t, r) /\ Carries(f, h, n, d, "members", t)
  <2>1. "members" \in Levels /\ Lower("members", t, "primary", pos) /\ t \in 1 .. n + 1
    BY <1>4 DEF Levels, Lower
  <2> QED BY <1>8, <2>1 DEF CarriesBelow
<1>10. r # Err
  <2>1. SUFFICES ASSUME r = Err PROVE FALSE
    OBVIOUS
  <2>2. ParsePrimary(f, pos) = Err
    BY <1>1, <1>5, <1>8, <2>1 DEF ParsePrimary, Err
  <2> QED BY <2>2, OkFacts
<1>11. PICK b, u : r = Ok(b, u)
  BY <1>9, <1>10 DEF Good
<1>12. r.ok = TRUE /\ r.v = b /\ r.pos = u
  BY <1>11, OkFacts
<1>13. Ok(Walked(a, b), u) = Ok(v, q)
  BY <1>1, <1>5, <1>8, <1>12 DEF ParsePrimary
<1>14. v = Walked(a, b) /\ q = u
  BY <1>13, OkFacts
<1>15. h[<<"members", d + t>>] = Ok(b, d + u)
  BY <1>8, <1>9, <1>11 DEF Carries, Delimited
<1>16. Ok(b, d + u).ok = TRUE /\ Ok(b, d + u).v = b /\ Ok(b, d + u).pos = d + u
  BY OkFacts
<1> QED BY <1>6, <1>7, <1>14, <1>15, <1>16 DEF ParsePrimary

LEMMA EmbeddedAt ==
    ASSUME NEW w, NEW s, NEW d, Embedded(w, s, d), NEW i \in 1 .. Len(w) + 1
    PROVE  \A c \in {".", "("} : At(s, d + i).k = c <=> At(w, i).k = c
<1>1. CASE i <= Len(w)
  <2>1. At(s, d + i) = At(w, i)
    BY <1>1 DEF Embedded
  <2> QED BY <2>1
<1>2. CASE ~(i <= Len(w))
  <2>1. At(w, i).k = "end"
    BY <1>2 DEF At, Punct
  <2>2. d + i = d + Len(w) + 1
    BY <1>2 DEF Embedded
  <2>3. At(s, d + i).k \notin {".", "("}
    BY <2>2 DEF Embedded
  <2> QED BY <2>1, <2>3
<1> QED BY <1>1, <1>2

LEMMA MembersCarries ==
    ASSUME NEW w, NEW s, NEW d, Embedded(w, s, d), NEW n \in Nat, n = Len(w), NEW f, NEW h,
           NEW pos \in 1 .. n + 1, CarriesBelow(f, h, n, d, "members", pos),
           NEW v, NEW q, ParseMembers(f, w, pos) = Ok(v, q)
    PROVE  ParseMembers(h, s, d + pos) = Ok(v, d + q)
<1>0. At(s, d + pos).k = "." <=> At(w, pos).k = "."
  BY EmbeddedAt
<1>1. CASE At(w, pos).k # "."
  <2>1. Ok(<<>>, pos) = Ok(v, q)
    BY <1>1 DEF ParseMembers
  <2>2. v = <<>> /\ q = pos
    BY <2>1, OkFacts
  <2> QED BY <1>0, <1>1, <2>2 DEF ParseMembers
<1>2. CASE At(w, pos).k = "." /\ ~IsSegment(At(w, pos + 1))
  <2>1. ParseMembers(f, w, pos) = Err
    BY <1>2 DEF ParseMembers
  <2> QED BY <2>1, OkFacts
<1>3. CASE At(w, pos).k = "." /\ IsSegment(At(w, pos + 1))
  <2>1. pos + 1 <= n
    <3>1. At(w, pos + 1).k # "end"
      BY <1>3 DEF IsSegment
    <3> QED BY <3>1, BeforeEnd
  <2>2. At(s, d + pos + 1) = At(w, pos + 1)
    <3>1. At(s, d + (pos + 1)) = At(w, pos + 1)
      BY <2>1 DEF Embedded
    <3>2. d + (pos + 1) = d + pos + 1
      BY DEF Embedded
    <3> QED BY <3>1, <3>2
  <2>3. PICK r : r = f[<<"members", pos + 2>>]
    OBVIOUS
  <2>4. Good(n, "members", pos + 2, r) /\ Carries(f, h, n, d, "members", pos + 2)
    <3>1. "members" \in Levels /\ Lower("members", pos + 2, "members", pos) /\ pos + 2 \in 1 .. n + 1
      BY <2>1 DEF Levels, Lower
    <3> QED BY <2>3, <3>1 DEF CarriesBelow
  <2>5. r # Err
    <3>1. SUFFICES ASSUME r = Err PROVE FALSE
      OBVIOUS
    <3>2. ParseMembers(f, w, pos) = Err
      BY <1>3, <2>3, <3>1 DEF ParseMembers, Err
    <3> QED BY <3>2, OkFacts
  <2>6. PICK b, u : r = Ok(b, u)
    BY <2>4, <2>5 DEF Good
  <2>7. r.ok = TRUE /\ r.v = b /\ r.pos = u
    BY <2>6, OkFacts
  <2>8. Ok(<<Segment(At(w, pos + 1))>> \o b, u) = Ok(v, q)
    BY <1>3, <2>3, <2>7 DEF ParseMembers
  <2>9. v = <<Segment(At(w, pos + 1))>> \o b /\ q = u
    <3> DEFINE c == <<Segment(At(w, pos + 1))>> \o b
    <3>1. Ok(c, u) = Ok(v, q)
      BY <2>8
    <3>2. v = c /\ q = u
      <4> HIDE DEF c
      <4> QED BY <3>1, OkFacts
    <3> QED BY <3>2
  <2>10. h[<<"members", d + pos + 2>>] = Ok(b, d + u)
    <3>1. h[<<"members", d + (pos + 2)>>] = Ok(b, d + u)
      BY <2>3, <2>4, <2>6 DEF Carries, Delimited
    <3>2. d + (pos + 2) = d + pos + 2
      BY DEF Embedded
    <3> QED BY <3>1, <3>2
  <2>11. Ok(b, d + u).ok = TRUE /\ Ok(b, d + u).v = b /\ Ok(b, d + u).pos = d + u
    BY OkFacts
  <2> QED BY <1>0, <1>3, <2>2, <2>9, <2>10, <2>11 DEF ParseMembers
<1> QED BY <1>1, <1>2, <1>3


LEMMA ArgsCarries ==
    ASSUME NEW w, NEW s, NEW d, Embedded(w, s, d), NEW n \in Nat, n = Len(w), NEW f, NEW h,
           NEW pos \in 1 .. n + 1, CarriesBelow(f, h, n, d, "args", pos),
           NEW v, NEW q, ParseArgs(f, w, pos) = Ok(v, q)
    PROVE  ParseArgs(h, s, d + pos) = Ok(v, d + q)
<1>1. PICK l : l = f[<<"or", pos>>]
  OBVIOUS
<1>2. Good(n, "or", pos, l) /\ Carries(f, h, n, d, "or", pos)
  <2>1. "or" \in Levels /\ Lower("or", pos, "args", pos)
    BY DEF Levels, Lower, Rank
  <2> QED BY <1>1, <2>1 DEF CarriesBelow
<1>3. l # Err
  <2>1. SUFFICES ASSUME l = Err PROVE FALSE
    OBVIOUS
  <2>2. ParseArgs(f, w, pos) = Err
    BY <1>1, <2>1 DEF ParseArgs, Err
  <2> QED BY <2>2, OkFacts
<1>4. PICK a, t : t \in pos .. n + 1 /\ l = Ok(a, t) /\ t > pos
  BY <1>2, <1>3 DEF Good
<1>5. l.ok = TRUE /\ l.v = a /\ l.pos = t
  BY <1>4, OkFacts
<1>6. CASE At(w, t).k \notin {")", ","}
  <2>1. ParseArgs(f, w, pos) = Err
    BY <1>1, <1>5, <1>6 DEF ParseArgs
  <2> QED BY <2>1, OkFacts
<1>7. ASSUME At(w, t).k \in {")", ","}
      PROVE  t <= n /\ h[<<"or", d + pos>>] = Ok(a, d + t) /\ At(s, d + t) = At(w, t)
  <2>1. t <= n
    <3>1. At(w, t).k # "end"
      BY <1>7
    <3> QED BY <1>4, <3>1, BeforeEnd
  <2>2. h[<<"or", d + pos>>] = Ok(a, d + t)
    BY <1>1, <1>2, <1>4, <2>1 DEF Carries
  <2>3. At(s, d + t) = At(w, t)
    BY <1>4, <2>1 DEF Embedded
  <2> QED BY <2>1, <2>2, <2>3
<1>8. Ok(a, d + t).ok = TRUE /\ Ok(a, d + t).v = a /\ Ok(a, d + t).pos = d + t
  BY OkFacts
<1>9. CASE At(w, t).k = ")"
  <2>1. Ok(<<a>>, t + 1) = Ok(v, q)
    BY <1>1, <1>5, <1>9 DEF ParseArgs
  <2>2. v = <<a>> /\ q = t + 1
    BY <2>1, OkFacts
  <2>3. h[<<"or", d + pos>>] = Ok(a, d + t) /\ At(s, d + t).k = ")"
    BY <1>7, <1>9
  <2>4. ParseArgs(h, s, d + pos) = Ok(<<a>>, d + t + 1)
    BY <1>8, <2>3 DEF ParseArgs
  <2>5. d + t + 1 = d + q
    BY <1>4, <2>2 DEF Embedded
  <2> QED BY <2>2, <2>4, <2>5
<1>10. CASE At(w, t).k = ","
  <2>0. t <= n /\ At(w, t).k # ")"
    BY <1>7, <1>10
  <2>1. h[<<"or", d + pos>>] = Ok(a, d + t) /\ At(s, d + t).k = ","
    BY <1>7, <1>10
  <2>2. PICK r : r = f[<<"args", t + 1>>]
    OBVIOUS
  <2>3. Good(n, "args", t + 1, r) /\ Carries(f, h, n, d, "args", t + 1)
    <3>1. "args" \in Levels /\ Lower("args", t + 1, "args", pos) /\ t + 1 \in 1 .. n + 1
      BY <1>4, <2>0 DEF Levels, Lower
    <3> QED BY <2>2, <3>1 DEF CarriesBelow
  <2>4. r # Err
    <3>1. SUFFICES ASSUME r = Err PROVE FALSE
      OBVIOUS
    <3>2. ~r.ok
      BY <3>1 DEF Err
    <3>3. ParseArgs(f, w, pos) = Err
      BY <1>1, <1>5, <2>0, <2>2, <3>2 DEF ParseArgs
    <3> QED BY <3>3, OkFacts
  <2>5. PICK b, u : r = Ok(b, u)
    BY <2>3, <2>4 DEF Good
  <2>6. r.ok = TRUE /\ r.v = b /\ r.pos = u
    BY <2>5, OkFacts
  <2>7. Ok(<<a>> \o b, u) = Ok(v, q)
    BY <1>1, <1>5, <1>10, <2>2, <2>6 DEF ParseArgs
  <2>8. v = <<a>> \o b /\ q = u
    <3> DEFINE c == <<a>> \o b
    <3>1. Ok(c, u) = Ok(v, q)
      BY <2>7
    <3>2. v = c /\ q = u
      <4> HIDE DEF c
      <4> QED BY <3>1, OkFacts
    <3> QED BY <3>2
  <2>9. h[<<"args", d + t + 1>>] = Ok(b, d + u)
    <3>1. h[<<"args", d + (t + 1)>>] = Ok(b, d + u)
      BY <2>2, <2>3, <2>5 DEF Carries, Delimited
    <3>2. d + (t + 1) = d + t + 1
      BY <1>4 DEF Embedded
    <3> QED BY <3>1, <3>2
  <2>10. Ok(b, d + u).ok = TRUE /\ Ok(b, d + u).v = b /\ Ok(b, d + u).pos = d + u
    BY OkFacts
  <2> QED BY <1>8, <2>1, <2>8, <2>9, <2>10 DEF ParseArgs
<1> QED BY <1>6, <1>9, <1>10

LEMMA CallCarries ==
    ASSUME NEW ctx, NEW w, NEW s, NEW d, Embedded(w, s, d), NEW n \in Nat, n = Len(w), NEW f, NEW h,
           NEW pos \in 1 .. n + 1, pos + 1 <= n, CarriesBelow(f, h, n, d, "atom", pos),
           NEW v, NEW q, ParseCall(ctx, f, w, pos) = Ok(v, q)
    PROVE  ParseCall(ctx, h, s, d + pos) = Ok(v, d + q)
<1> DEFINE Then(a) == IF ~a.ok \/ At(w, pos).v \notin Functions THEN Err
                      ELSE Ok(Call(ctx, At(w, pos).v, a.v), a.pos)
<1>1. At(s, d + pos) = At(w, pos)
  BY DEF Embedded
<1>2. ASSUME NEW b, NEW u, Then(Ok(b, u)) = Ok(v, q) PROVE Then(Ok(b, d + u)) = Ok(v, d + q)
  <2>1. /\ Ok(b, u).ok = TRUE /\ Ok(b, u).v = b /\ Ok(b, u).pos = u
        /\ Ok(b, d + u).ok = TRUE /\ Ok(b, d + u).v = b /\ Ok(b, d + u).pos = d + u
    BY OkFacts
  <2>2. At(w, pos).v \in Functions
    BY <1>2, <2>1, OkFacts
  <2>3. PICK c : c = Call(ctx, At(w, pos).v, b)
    OBVIOUS
  <2>4. Ok(c, u) = Ok(v, q)
    BY <1>2, <2>1, <2>2, <2>3
  <2>5. c = v /\ u = q
    BY <2>4, OkFacts
  <2> QED BY <2>1, <2>2, <2>3, <2>5
<1>3. CASE At(w, pos + 2).k = ")"
  <2>1. pos + 2 <= n
    <3>1. At(w, pos + 2).k # "end"
      BY <1>3
    <3> QED BY <3>1, BeforeEnd
  <2>2. At(s, d + pos + 2).k = ")"
    <3>1. At(s, d + (pos + 2)) = At(w, pos + 2)
      BY <2>1 DEF Embedded
    <3>2. d + (pos + 2) = d + pos + 2
      BY DEF Embedded
    <3> QED BY <1>3, <3>1, <3>2
  <2>3. Then(Ok(<<>>, pos + 3)) = Ok(v, q)
    BY <1>3 DEF ParseCall
  <2>4. Then(Ok(<<>>, d + (pos + 3))) = Ok(v, d + q)
    <3> HIDE DEF Then
    <3> QED BY <1>2, <2>3
  <2>5. d + (pos + 3) = d + pos + 3
    BY DEF Embedded
  <2>6. ParseCall(ctx, h, s, d + pos) = Then(Ok(<<>>, d + pos + 3))
    BY <1>1, <2>2 DEF ParseCall
  <2> HIDE DEF Then
  <2> QED BY <2>4, <2>5, <2>6
<1>4. CASE At(w, pos + 2).k # ")"
  <2>1. PICK r : r = f[<<"args", pos + 2>>]
    OBVIOUS
  <2>2. Good(n, "args", pos + 2, r) /\ Carries(f, h, n, d, "args", pos + 2)
    <3>1. "args" \in Levels /\ Lower("args", pos + 2, "atom", pos) /\ pos + 2 \in 1 .. n + 1
      BY DEF Levels, Lower
    <3> QED BY <2>1, <3>1 DEF CarriesBelow
  <2>3. ParseCall(ctx, f, w, pos) = Then(r)
    BY <1>4, <2>1 DEF ParseCall
  <2>4. r # Err
    <3>1. SUFFICES ASSUME r = Err PROVE FALSE
      OBVIOUS
    <3>2. Then(r) = Err
      BY <3>1, OkFacts DEF Err
    <3> HIDE DEF Then
    <3> QED BY <2>3, <3>2, OkFacts
  <2>5. PICK b, u : u \in pos + 2 .. n + 1 /\ r = Ok(b, u) /\ u > pos + 2
    BY <2>2, <2>4 DEF Good
  <2>6. At(s, d + pos + 2).k # ")"
    <3>1. pos + 2 <= n
      BY <2>5
    <3>2. At(s, d + (pos + 2)) = At(w, pos + 2)
      BY <3>1 DEF Embedded
    <3>3. d + (pos + 2) = d + pos + 2
      BY DEF Embedded
    <3> QED BY <1>4, <3>2, <3>3
  <2>7. h[<<"args", d + pos + 2>>] = Ok(b, d + u)
    <3>1. h[<<"args", d + (pos + 2)>>] = Ok(b, d + u)
      BY <2>1, <2>2, <2>5 DEF Carries, Delimited
    <3>2. d + (pos + 2) = d + pos + 2
      BY DEF Embedded
    <3> QED BY <3>1, <3>2
  <2>8. ParseCall(ctx, h, s, d + pos) = Then(Ok(b, d + u))
    BY <1>1, <2>6, <2>7 DEF ParseCall
  <2> HIDE DEF Then
  <2> QED BY <1>2, <2>3, <2>5, <2>8
<1> QED BY <1>3, <1>4

LEMMA AtomCarries ==
    ASSUME NEW ctx, NEW w, NEW s, NEW d, Embedded(w, s, d), NEW n \in Nat, n = Len(w), NEW f, NEW h,
           NEW pos \in 1 .. n + 1, CarriesBelow(f, h, n, d, "atom", pos),
           NEW v, NEW q, ParseAtom(ctx, f, w, pos) = Ok(v, q)
    PROVE  ParseAtom(ctx, h, s, d + pos) = Ok(v, d + q)
<1>1. ASSUME At(w, pos).k # "end" PROVE pos <= n /\ At(s, d + pos) = At(w, pos)
  <2>1. pos <= n
    BY <1>1, BeforeEnd
  <2> QED BY <2>1 DEF Embedded
<1>2. CASE At(w, pos).k = "("
  <2>1. pos <= n /\ At(s, d + pos).k = "("
    BY <1>1, <1>2
  <2>2. PICK r : r = f[<<"or", pos + 1>>]
    OBVIOUS
  <2>3. Good(n, "or", pos + 1, r) /\ Carries(f, h, n, d, "or", pos + 1)
    <3>1. "or" \in Levels /\ Lower("or", pos + 1, "atom", pos) /\ pos + 1 \in 1 .. n + 1
      BY <2>1 DEF Levels, Lower
    <3> QED BY <2>2, <3>1 DEF CarriesBelow
  <2>4. r # Err
    <3>1. SUFFICES ASSUME r = Err PROVE FALSE
      OBVIOUS
    <3>2. ParseAtom(ctx, f, w, pos) = Err
      BY <1>2, <2>2, <3>1 DEF ParseAtom, Err
    <3> QED BY <3>2, OkFacts
  <2>5. PICK b, u : u \in pos + 1 .. n + 1 /\ r = Ok(b, u)
    BY <2>3, <2>4 DEF Good
  <2>6. r.ok = TRUE /\ r.v = b /\ r.pos = u
    BY <2>5, OkFacts
  <2>7. At(w, u).k = ")"
    <3>1. SUFFICES ASSUME At(w, u).k # ")" PROVE FALSE
      OBVIOUS
    <3>2. ParseAtom(ctx, f, w, pos) = Err
      BY <1>2, <2>2, <2>6, <3>1 DEF ParseAtom
    <3> QED BY <3>2, OkFacts
  <2>8. Ok(b, u + 1) = Ok(v, q)
    BY <1>2, <2>2, <2>6, <2>7 DEF ParseAtom
  <2>9. v = b /\ q = u + 1
    BY <2>8, OkFacts
  <2>10. u <= n /\ At(s, d + u).k = ")"
    <3>1. At(w, u).k # "end"
      BY <2>7
    <3>2. u <= n
      BY <2>5, <3>1, BeforeEnd
    <3>3. At(s, d + u) = At(w, u)
      BY <2>5, <3>2 DEF Embedded
    <3> QED BY <2>7, <3>2, <3>3
  <2>11. h[<<"or", d + pos + 1>>] = Ok(b, d + u)
    <3>1. h[<<"or", d + (pos + 1)>>] = Ok(b, d + u)
      BY <2>2, <2>3, <2>5, <2>10 DEF Carries
    <3>2. d + (pos + 1) = d + pos + 1
      BY DEF Embedded
    <3> QED BY <3>1, <3>2
  <2>12. Ok(b, d + u).ok = TRUE /\ Ok(b, d + u).v = b /\ Ok(b, d + u).pos = d + u
    BY OkFacts
  <2>13. ParseAtom(ctx, h, s, d + pos) = Ok(b, d + u + 1)
    BY <2>1, <2>10, <2>11, <2>12 DEF ParseAtom
  <2>14. d + u + 1 = d + q
    BY <2>5, <2>9 DEF Embedded
  <2> QED BY <2>9, <2>13, <2>14
<1>3. CASE At(w, pos).k = "literal"
  <2>1. At(s, d + pos) = At(w, pos)
    BY <1>1, <1>3
  <2>2. Ok(At(w, pos).v, pos + 1) = Ok(v, q)
    BY <1>3 DEF ParseAtom
  <2>3. v = At(w, pos).v /\ q = pos + 1
    BY <2>2, OkFacts
  <2>4. ParseAtom(ctx, h, s, d + pos) = Ok(At(w, pos).v, d + pos + 1)
    BY <1>3, <2>1 DEF ParseAtom
  <2>5. d + pos + 1 = d + q
    BY <2>3 DEF Embedded
  <2> QED BY <2>3, <2>4, <2>5
<1>4. CASE At(w, pos).k = "ident"
  <2>1. pos <= n /\ At(s, d + pos) = At(w, pos)
    BY <1>1, <1>4
  <2>2. At(s, d + pos + 1).k = "(" <=> At(w, pos + 1).k = "("
    <3>1. At(s, d + (pos + 1)).k = "(" <=> At(w, pos + 1).k = "("
      BY <2>1, EmbeddedAt
    <3>2. d + (pos + 1) = d + pos + 1
      BY DEF Embedded
    <3> QED BY <3>1, <3>2
  <2>3. CASE At(w, pos + 1).k = "("
    <3>1. pos + 1 <= n
      BY <2>3, BeforeEnd
    <3>2. ParseCall(ctx, f, w, pos) = Ok(v, q)
      BY <1>4, <2>3 DEF ParseAtom
    <3>3. ParseCall(ctx, h, s, d + pos) = Ok(v, d + q)
      BY <3>1, <3>2, CallCarries
    <3>4. ParseAtom(ctx, h, s, d + pos) = ParseCall(ctx, h, s, d + pos)
      BY <1>4, <2>1, <2>2, <2>3 DEF ParseAtom
    <3> QED BY <3>3, <3>4
  <2>4. CASE At(w, pos + 1).k # "("
    <3>1. PICK c : c = BareName(ctx, At(w, pos).v)
      OBVIOUS
    <3>2. Ok(c, pos + 1) = Ok(v, q)
      BY <1>4, <2>4, <3>1 DEF ParseAtom
    <3>3. v = c /\ q = pos + 1
      BY <3>2, OkFacts
    <3>4. ParseAtom(ctx, h, s, d + pos) = Ok(c, d + pos + 1)
      BY <1>4, <2>1, <2>2, <2>4, <3>1 DEF ParseAtom
    <3>5. d + pos + 1 = d + q
      BY <3>3 DEF Embedded
    <3> QED BY <3>3, <3>4, <3>5
  <2> QED BY <2>3, <2>4
<1>5. CASE At(w, pos).k \notin {"(", "literal", "ident"}
  <2>1. ParseAtom(ctx, f, w, pos) = Err
    BY <1>5 DEF ParseAtom
  <2> QED BY <2>1, OkFacts
<1> QED BY <1>2, <1>3, <1>4, <1>5


LEMMA ParseCarries ==
    ASSUME NEW ctx, NEW w, NEW s, NEW d, Embedded(w, s, d),
           NEW f, f = Parser(ctx, w), NEW h, h = Parser(ctx, s), NEW n \in Nat, n = Len(w),
           NEW level \in Levels, NEW pos \in 1 .. n + 1, CarriesBelow(f, h, n, d, level, pos)
    PROVE  Carries(f, h, n, d, level, pos)
<1> SUFFICES ASSUME NEW v, NEW q, f[<<level, pos>>] = Ok(v, q), level \in Delimited \/ q <= n
             PROVE  h[<<level, d + pos>>] = Ok(v, d + q)
  BY DEF Carries
<1>0. PICK e : e = d + pos
  OBVIOUS
<1>s. Len(w) \in Nat /\ Len(s) \in Nat /\ e \in 1 .. Len(s) + 1
  BY <1>0 DEF Embedded
<1>f. Steps(ctx, f, w, pos)
  BY <1>s, ParserSteps
<1>h. Steps(ctx, h, s, e)
  BY <1>s, ParserSteps
<1>1. CASE level \in {"or", "and"}
  <2>1. ParseChain(f, w, level, pos) = Ok(v, q) /\ q <= n
    BY <1>1, <1>f DEF Delimited, Steps
  <2>2. ParseChain(h, s, level, d + pos) = Ok(v, d + q)
    BY <1>1, <2>1, ChainCarries
  <2> QED BY <1>0, <1>1, <1>h, <2>2 DEF Steps
<1>2. CASE level = "not"
  <2>1. ParseNot(f, w, pos) = Ok(v, q) /\ q <= n
    BY <1>2, <1>f DEF Delimited, Steps
  <2>2. ParseNot(h, s, d + pos) = Ok(v, d + q)
    BY <1>2, <2>1, NotCarries
  <2> QED BY <1>0, <1>2, <1>h, <2>2 DEF Steps
<1>3. CASE level = "cmp"
  <2>1. ParseCmp(f, w, pos) = Ok(v, q) /\ q <= n
    BY <1>3, <1>f DEF Delimited, Steps
  <2>2. ParseCmp(h, s, d + pos) = Ok(v, d + q)
    BY <1>3, <2>1, CmpCarries
  <2> QED BY <1>0, <1>3, <1>h, <2>2 DEF Steps
<1>4. CASE level = "primary"
  <2>1. ParsePrimary(f, pos) = Ok(v, q)
    BY <1>4, <1>f DEF Steps
  <2>2. ParsePrimary(h, d + pos) = Ok(v, d + q)
    BY <1>4, <2>1, PrimaryCarries
  <2> QED BY <1>0, <1>4, <1>h, <2>2 DEF Steps
<1>5. CASE level = "members"
  <2>1. ParseMembers(f, w, pos) = Ok(v, q)
    BY <1>5, <1>f DEF Steps
  <2>2. ParseMembers(h, s, d + pos) = Ok(v, d + q)
    BY <1>5, <2>1, MembersCarries
  <2> QED BY <1>0, <1>5, <1>h, <2>2 DEF Steps
<1>6. CASE level = "args"
  <2>1. ParseArgs(f, w, pos) = Ok(v, q)
    BY <1>6, <1>f DEF Steps
  <2>2. ParseArgs(h, s, d + pos) = Ok(v, d + q)
    BY <1>6, <2>1, ArgsCarries
  <2> QED BY <1>0, <1>6, <1>h, <2>2 DEF Steps
<1>7. CASE level = "atom"
  <2>1. ParseAtom(ctx, f, w, pos) = Ok(v, q)
    BY <1>7, <1>f DEF Steps
  <2>2. ParseAtom(ctx, h, s, d + pos) = Ok(v, d + q)
    BY <1>7, <2>1, AtomCarries
  <2> QED BY <1>0, <1>7, <1>h, <2>2 DEF Steps
<1> QED BY <1>1, <1>2, <1>3, <1>4, <1>5, <1>6, <1>7 DEF Levels

LEMMA ReadInside ==
    ASSUME NEW ctx, NEW w, NEW s, NEW d, Embedded(w, s, d),
           NEW v, Parser(ctx, w)[<<"primary", 1>>] = Ok(v, Len(w) + 1)
    PROVE  Parser(ctx, s)[<<"primary", d + 1>>] = Ok(v, d + Len(w) + 1)
<1> DEFINE f == Parser(ctx, w)
           h == Parser(ctx, s)
           n == Len(w)
           All(k) == \A lv \in Levels, q \in 1 .. n + 1 :
                         Ahead(n, lv, q) < k => Carries(f, h, n, d, lv, q)
           G == {k \in Nat : All(k)}
<1>0. n \in Nat
  BY DEF Embedded
<1>g. \A lv \in Levels, q \in 1 .. n + 1 : Good(n, lv, q, f[<<lv, q>>])
  BY <1>0, ParserEquation
<1>1. 0 \in G
  <2>1. \A lv \in Levels, q \in 1 .. n + 1 : ~(Ahead(n, lv, q) < 0)
    <3>1. \A lv \in Levels, q \in 1 .. n + 1 : Ahead(n, lv, q) \in Nat
      <4> HIDE DEF n
      <4> QED BY <1>0, AheadFacts
    <3> HIDE DEF n
    <3> QED BY <3>1
  <2> HIDE DEF f, h, n
  <2> QED BY <2>1
<1>2. ASSUME NEW k \in Nat, k \in G PROVE k + 1 \in G
  <2>0. All(k)
    BY <1>2
  <2>1. ASSUME NEW lv \in Levels, NEW q \in 1 .. n + 1, Ahead(n, lv, q) < k + 1
        PROVE  Carries(f, h, n, d, lv, q)
    <3> HIDE DEF f, h, n, G
    <3>1. ASSUME NEW l2 \in Levels, NEW q2 \in 1 .. n + 1, Lower(l2, q2, lv, q)
          PROVE  Carries(f, h, n, d, l2, q2)
      <4>1. Ahead(n, l2, q2) < Ahead(n, lv, q)
        BY <1>0, <3>1, AheadFacts
      <4>2. Ahead(n, l2, q2) \in Nat /\ Ahead(n, lv, q) \in Nat
        BY <1>0, AheadFacts
      <4>3. Ahead(n, l2, q2) < k
        BY <2>1, <4>1, <4>2
      <4> QED BY <2>0, <4>3
    <3>2. CarriesBelow(f, h, n, d, lv, q)
      BY <1>g, <3>1 DEF CarriesBelow
    <3> QED BY <1>0, <3>2, ParseCarries DEF f, h, n
  <2> HIDE DEF f, h, n
  <2> QED BY <2>1
<1>3. \A k \in Nat : k \in G
  <2> HIDE DEF G
  <2> QED BY <1>1, <1>2, NatSetInduction
<1>4. Carries(f, h, n, d, "primary", 1)
  <2> HIDE DEF f, h, n
  <2>1. "primary" \in Levels /\ 1 \in 1 .. n + 1
    BY <1>0 DEF Levels
  <2>2. PICK a \in Nat : a = Ahead(n, "primary", 1)
    BY <1>0, <2>1, AheadFacts
  <2>3. a + 1 \in G
    <3> HIDE DEF G
    <3> QED BY <1>3
  <2>4. Ahead(n, "primary", 1) < a + 1
    BY <2>2
  <2> QED BY <2>1, <2>3, <2>4
<1>5. h[<<"primary", d + 1>>] = Ok(v, d + (n + 1))
  <2>1. f[<<"primary", 1>>] = Ok(v, n + 1)
    OBVIOUS
  <2> HIDE DEF f, h, n
  <2> QED BY <1>4, <2>1 DEF Carries, Delimited
<1>6. d + (n + 1) = d + n + 1
  BY <1>0 DEF Embedded
<1> QED BY <1>5, <1>6


-----------------------------------------------------------------------------
(* Words of a condition: where they stand, and how a level reads them by   *)
(* what comes next.                                                        *)
Spelled(w, s, d) ==
    /\ Len(w) \in Nat /\ Len(s) \in Nat /\ d \in Nat /\ d + Len(w) <= Len(s)
    /\ \A i \in 1 .. Len(w) : At(s, d + i) = At(w, i)

LEMMA SpelledParts ==
    ASSUME NEW T, NEW u \in Seq(T), NEW w \in Seq(T), NEW s, NEW d, Spelled(u \o w, s, d)
    PROVE  /\ Spelled(u, s, d) /\ Spelled(w, s, d + Len(u))
           /\ d + Len(u \o w) = d + Len(u) + Len(w)
<1>1. PICK uw : uw = u \o w
  OBVIOUS
<1>2. PICK m \in Nat : m = Len(u)
  OBVIOUS
<1>3. PICK n \in Nat : n = Len(w)
  OBVIOUS
<1>4. /\ Len(uw) = m + n
      /\ \A i \in 1 .. m + n : uw[i] = IF i <= m THEN u[i] ELSE w[i - m]
  BY <1>1, <1>2, <1>3, ConcatProperties
<1>5. /\ Len(s) \in Nat /\ d \in Nat /\ d + (m + n) <= Len(s)
      /\ \A i \in 1 .. m + n : At(s, d + i) = At(uw, i)
  BY <1>1, <1>4 DEF Spelled
<1>6. ASSUME NEW i \in 1 .. m PROVE At(s, d + i) = At(u, i)
  <2>1. i \in 1 .. m + n /\ i <= m /\ i <= m + n
    OBVIOUS
  <2>2. At(uw, i) = uw[i] /\ At(u, i) = u[i]
    BY <1>2, <1>4, <2>1 DEF At
  <2> QED BY <1>4, <1>5, <2>1, <2>2
<1>7. ASSUME NEW i \in 1 .. n PROVE At(s, d + m + i) = At(w, i)
  <2>1. m + i \in 1 .. m + n /\ ~(m + i <= m) /\ m + i <= m + n /\ (m + i) - m = i /\ i <= n
    OBVIOUS
  <2>2. At(uw, m + i) = uw[m + i] /\ At(w, i) = w[i]
    BY <1>3, <1>4, <2>1 DEF At
  <2>3. uw[m + i] = w[i]
    BY <1>4, <2>1
  <2>4. d + (m + i) = d + m + i
    BY <1>5
  <2>5. At(s, d + (m + i)) = At(uw, m + i)
    BY <1>5, <2>1
  <2> QED BY <2>2, <2>3, <2>4, <2>5
<1>8. Spelled(u, s, d)
  <2>1. d + m <= Len(s)
    BY <1>5
  <2> QED BY <1>2, <1>5, <1>6, <2>1 DEF Spelled
<1>9. Spelled(w, s, d + m)
  <2>1. d + m \in Nat /\ d + m + n <= Len(s)
    BY <1>5
  <2> QED BY <1>3, <1>5, <1>7, <2>1 DEF Spelled
<1>10. d + Len(uw) = d + m + n
  BY <1>4, <1>5
<1> QED BY <1>1, <1>2, <1>3, <1>8, <1>9, <1>10

(* One token.                                                              *)
LEMMA SpelledOne ==
    ASSUME NEW t, NEW s, NEW d, Spelled(<<t>>, s, d)
    PROVE  At(s, d + 1) = t /\ Len(<<t>>) = 1
<1>1. Len(<<t>>) = 1 /\ <<t>>[1] = t
  OBVIOUS
<1>2. At(<<t>>, 1) = t
  BY <1>1 DEF At
<1>3. At(s, d + 1) = At(<<t>>, 1)
  BY <1>1 DEF Spelled
<1> QED BY <1>1, <1>2, <1>3

Following(w, s, d) == At(s, d + Len(w) + 1).k

(* Read as v at a level, when what comes next is one of stops; and, before *)
(* the operator of a chain, as the first operand of it.                    *)
Alone(ctx, level, stops, w, v) ==
    \A s, d : Spelled(w, s, d) /\ Following(w, s, d) \in stops =>
        Parser(ctx, s)[<<level, d + 1>>] = Ok(v, d + Len(w) + 1)

Select(level, a, b) == IF Truthy(a) <=> level = "or" THEN a ELSE b

FirstAt(ctx, level, w, v, s, d) ==
    \A c, q : Parser(ctx, s)[<<level, d + Len(w) + 2>>] = Ok(c, q) =>
                  Parser(ctx, s)[<<level, d + 1>>] = Ok(Select(level, v, c), q)

InChain(ctx, level, w, v) ==
    \A s, d : Spelled(w, s, d) /\ Following(w, s, d) = Chained(level) => FirstAt(ctx, level, w, v, s, d)

Stops(level) ==
    CASE level = "primary" -> {"==", "&&", "||", ")", "end"}
      [] level \in {"cmp", "not"} -> {"&&", "||", ")", "end"}
      [] level = "and" -> {"||", ")", "end"}
      [] level = "or" -> {")", "end"}

Reads(ctx, level, w, v) ==
    /\ Alone(ctx, level, Stops(level), w, v)
    /\ level \in {"primary", "cmp"} => w # <<>> /\ At(w, 1).k # "!"
    /\ level \in {"or", "and"} => InChain(ctx, level, w, v)

LEMMA PrimaryReads ==
    ASSUME NEW ctx, NEW T, NEW w \in Seq(T), NEW v, Reads(ctx, "primary", w, v)
    PROVE  Reads(ctx, "cmp", w, v)
<1>1. ASSUME NEW s, NEW d, Spelled(w, s, d), Following(w, s, d) \in {"&&", "||", ")", "end"}
      PROVE  Parser(ctx, s)[<<"cmp", d + 1>>] = Ok(v, d + Len(w) + 1)
  <2>1. PICK f : f = Parser(ctx, s)
    OBVIOUS
  <2>2. PICK q : q = d + Len(w) + 1
    OBVIOUS
  <2>3. f[<<"primary", d + 1>>] = Ok(v, q)
    BY <1>1, <2>1, <2>2 DEF Reads, Alone, Stops
  <2>4. f[<<"cmp", d + 1>>] = ParseCmp(f, s, d + 1)
    <3>1. Len(s) \in Nat /\ d + 1 \in 1 .. Len(s) + 1
      BY <1>1 DEF Spelled
    <3>2. Steps(ctx, Parser(ctx, s), s, d + 1)
      BY <3>1, ParserSteps
    <3> QED BY <2>1, <3>2 DEF Steps
  <2>5. At(s, q).k \notin Comparisons
    BY <1>1, <2>2 DEF Following, Comparisons
  <2>6. Ok(v, q).pos = q
    BY OkFacts
  <2>7. ParseCmp(f, s, d + 1) = Ok(v, q)
    BY <2>3, <2>5, <2>6 DEF ParseCmp
  <2> QED BY <2>1, <2>2, <2>4, <2>7
<1> QED BY <1>1 DEF Reads, Alone, Stops

LEMMA CmpReads ==
    ASSUME NEW ctx, NEW T, NEW w \in Seq(T), NEW v, Reads(ctx, "cmp", w, v)
    PROVE  Reads(ctx, "not", w, v)
<1>1. ASSUME NEW s, NEW d, Spelled(w, s, d), Following(w, s, d) \in {"&&", "||", ")", "end"}
      PROVE  Parser(ctx, s)[<<"not", d + 1>>] = Ok(v, d + Len(w) + 1)
  <2>1. PICK f : f = Parser(ctx, s)
    OBVIOUS
  <2>3. f[<<"cmp", d + 1>>] = Ok(v, d + Len(w) + 1)
    BY <1>1, <2>1 DEF Reads, Alone, Stops
  <2>4. f[<<"not", d + 1>>] = ParseNot(f, s, d + 1)
    <3>1. Len(s) \in Nat /\ d + 1 \in 1 .. Len(s) + 1
      BY <1>1 DEF Spelled
    <3>2. Steps(ctx, Parser(ctx, s), s, d + 1)
      BY <3>1, ParserSteps
    <3> QED BY <2>1, <3>2 DEF Steps
  <2>5. At(s, d + 1).k # "!"
    <3>1. Len(w) >= 1
      BY DEF Reads
    <3>2. At(s, d + 1) = At(w, 1)
      BY <1>1, <3>1 DEF Spelled
    <3> QED BY <3>2 DEF Reads
  <2>7. ParseNot(f, s, d + 1) = f[<<"cmp", d + 1>>]
    BY <2>5 DEF ParseNot
  <2> QED BY <2>1, <2>3, <2>4, <2>7
<1> QED BY <1>1 DEF Reads, Alone, Stops

(* What the level below reads, a chain takes for its only operand, or for  *)
(* its first.                                                              *)
LEMMA ChainReads ==
    ASSUME NEW ctx, NEW w, NEW v, NEW level \in {"or", "and"}, Reads(ctx, Tighter(level), w, v)
    PROVE  Reads(ctx, level, w, v)
<1>0. Stops(level) \subseteq Stops(Tighter(level)) /\ Chained(level) \in Stops(Tighter(level))
  BY DEF Stops, Tighter, Chained
<1>1. Chained(level) \notin Stops(level)
  BY DEF Stops, Chained
<1> DEFINE First(f, s, d, q) ==
               /\ f[<<level, d + 1>>] = ParseChain(f, s, level, d + 1)
               /\ f[<<Tighter(level), d + 1>>] = Ok(v, q)
               /\ Ok(v, q).ok = TRUE /\ Ok(v, q).v = v /\ Ok(v, q).pos = q
               /\ At(s, q).k = Following(w, s, d)
<1>2. ASSUME NEW s, NEW d, Spelled(w, s, d), Following(w, s, d) \in Stops(Tighter(level)),
             NEW f, f = Parser(ctx, s), NEW q, q = d + Len(w) + 1
      PROVE  First(f, s, d, q)
  <2>1. f[<<level, d + 1>>] = ParseChain(f, s, level, d + 1)
    <3>1. Len(s) \in Nat /\ d + 1 \in 1 .. Len(s) + 1
      BY <1>2 DEF Spelled
    <3>2. Steps(ctx, Parser(ctx, s), s, d + 1)
      BY <3>1, ParserSteps
    <3> QED BY <1>2, <3>2 DEF Steps
  <2>2. f[<<Tighter(level), d + 1>>] = Ok(v, q)
    BY <1>2 DEF Reads, Alone
  <2>3. At(s, q).k = Following(w, s, d)
    BY <1>2 DEF Following
  <2> QED BY <2>1, <2>2, <2>3, OkFacts
<1>3. ASSUME NEW s, NEW d, Spelled(w, s, d), Following(w, s, d) \in Stops(level)
      PROVE  Parser(ctx, s)[<<level, d + 1>>] = Ok(v, d + Len(w) + 1)
  <2>1. PICK f : f = Parser(ctx, s)
    OBVIOUS
  <2>2. PICK q : q = d + Len(w) + 1
    OBVIOUS
  <2>3. First(f, s, d, q)
    <3>1. Following(w, s, d) \in Stops(Tighter(level))
      BY <1>0, <1>3
    <3> HIDE DEF First
    <3> QED BY <1>2, <1>3, <2>1, <2>2, <3>1
  <2>4. At(s, q).k # Chained(level)
    BY <1>1, <1>3, <2>3
  <2>5. ParseChain(f, s, level, d + 1) = Ok(v, q)
    BY <2>3, <2>4 DEF ParseChain
  <2> QED BY <2>1, <2>2, <2>3, <2>5
<1>4. ASSUME NEW s, NEW d, NEW c, NEW t, Spelled(w, s, d), Following(w, s, d) = Chained(level),
             Parser(ctx, s)[<<level, d + Len(w) + 2>>] = Ok(c, t)
      PROVE  Parser(ctx, s)[<<level, d + 1>>] = Ok(Select(level, v, c), t)
  <2>1. PICK f : f = Parser(ctx, s)
    OBVIOUS
  <2>2. PICK q : q = d + Len(w) + 1
    OBVIOUS
  <2>3. First(f, s, d, q)
    <3>1. Following(w, s, d) \in Stops(Tighter(level))
      BY <1>0, <1>4
    <3> HIDE DEF First
    <3> QED BY <1>2, <1>4, <2>1, <2>2, <3>1
  <2>4. f[<<level, q + 1>>] = Ok(c, t)
    <3>1. q + 1 = d + Len(w) + 2
      BY <1>4, <2>2 DEF Spelled
    <3> QED BY <1>4, <2>1, <3>1
  <2>5. Ok(c, t).ok = TRUE /\ Ok(c, t).v = c /\ Ok(c, t).pos = t
    BY OkFacts
  <2>6. ParseChain(f, s, level, d + 1) = Ok(Select(level, v, c), t)
    BY <1>4, <2>3, <2>4, <2>5 DEF ParseChain, Select
  <2> QED BY <2>1, <2>3, <2>6
<1>5. Alone(ctx, level, Stops(level), w, v)
  BY <1>3 DEF Alone
<1>6. InChain(ctx, level, w, v)
  BY <1>4 DEF InChain, FirstAt
<1> QED BY <1>5, <1>6 DEF Reads


LEMMA WalkedNowhere ==
    ASSUME NEW base
    PROVE  Walked(base, <<>>) = base
<1> DEFINE W(f) == f = [i \in 0 .. Len(<<>>) |-> IF i = 0 THEN base ELSE Member(f[i - 1], <<>>[i])]
<1>0. 0 .. Len(<<>>) = {0}
  OBVIOUS
<1>1. W([i \in 0 .. Len(<<>>) |-> base])
  BY <1>0
<1>2. PICK f : f = CHOOSE g : W(g)
  OBVIOUS
<1>3. W(f)
  <2> HIDE DEF W
  <2> QED BY <1>1, <1>2
<1>4. f[0] = base
  BY <1>0, <1>3
<1>5. Walked(base, <<>>) = f[Len(<<>>)]
  BY <1>2 DEF Walked
<1>6. Len(<<>>) = 0
  OBVIOUS
<1> QED BY <1>4, <1>5, <1>6

LEMMA JoinFacts ==
    ASSUME NEW T, NEW u \in Seq(T), NEW w \in Seq(T)
    PROVE  /\ u \o w \in Seq(T) /\ Len(u \o w) = Len(u) + Len(w)
           /\ Len(u) >= 1 => (u \o w)[1] = u[1]
<1> DEFINE y == u \o w
<1>1. /\ y \in Seq(T) /\ Len(y) = Len(u) + Len(w) /\ Len(u) \in Nat /\ Len(w) \in Nat
      /\ \A i \in 1 .. Len(u) + Len(w) : y[i] = IF i <= Len(u) THEN u[i] ELSE w[i - Len(u)]
  BY ConcatProperties
<1> HIDE DEF y
<1>2. Len(u) >= 1 => y[1] = u[1]
  BY <1>1
<1> QED BY <1>1, <1>2 DEF y

LEMMA EnclosedReads ==
    ASSUME NEW ctx, NEW T, Punct("(") \in T, Punct(")") \in T, NEW w \in Seq(T), NEW v,
           Reads(ctx, "or", w, v)
    PROVE  Enclosed(w) \in Seq(T) /\ Reads(ctx, "primary", Enclosed(w), v)
<1> DEFINE u == <<Punct("(")>>
           z == <<Punct(")")>>
<1>1. u \in Seq(T) /\ z \in Seq(T) /\ Len(u) = 1 /\ Len(z) = 1 /\ u[1] = Punct("(")
  OBVIOUS
<1>2. Enclosed(w) = (u \o w) \o z
  BY DEF Enclosed
<1> HIDE DEF u, z
<1>n. PICK n \in Nat : n = Len(w)
  OBVIOUS
<1>3. u \o w \in Seq(T) /\ Len(u \o w) = 1 + n /\ (u \o w)[1] = Punct("(")
  <2>1. u \o w \in Seq(T) /\ Len(u \o w) = Len(u) + Len(w) /\ (Len(u) >= 1 => (u \o w)[1] = u[1])
    BY <1>1, JoinFacts
  <2> QED BY <1>1, <1>n, <2>1
<1>4. PICK e : e = Enclosed(w)
  OBVIOUS
<1>5. e \in Seq(T) /\ Len(e) = n + 2 /\ e[1] = Punct("(")
  <2>1. PICK y \in Seq(T) : y = u \o w
    BY <1>3
  <2>2. e = y \o z /\ Len(y) = 1 + n /\ y[1] = Punct("(")
    BY <1>2, <1>3, <1>4, <2>1
  <2>3. y \o z \in Seq(T) /\ Len(y \o z) = Len(y) + Len(z) /\ (Len(y) >= 1 => (y \o z)[1] = y[1])
    BY <1>1, JoinFacts
  <2> QED BY <1>1, <2>2, <2>3
<1>6. At(e, 1).k # "!" /\ e # <<>>
  <2>1. At(e, 1) = Punct("(")
    BY <1>5 DEF At
  <2> QED BY <1>5, <2>1 DEF Punct
<1>7. ASSUME NEW s, NEW d, Spelled(e, s, d), Following(e, s, d) \in Stops("primary")
      PROVE  Parser(ctx, s)[<<"primary", d + 1>>] = Ok(v, d + Len(e) + 1)
  <2>1. Spelled(u \o w, s, d) /\ Spelled(z, s, d + Len(u \o w))
    BY <1>1, <1>2, <1>3, <1>4, <1>7, SpelledParts
  <2>2. Spelled(u, s, d) /\ Spelled(w, s, d + 1)
    BY <1>1, <2>1, SpelledParts
  <2>3. At(s, d + 1).k = "("
    <3>1. At(s, d + 1) = Punct("(")
      BY <2>2, SpelledOne DEF u
    <3> QED BY <3>1 DEF Punct
  <2>4. d \in Nat /\ Len(s) \in Nat /\ d + n + 2 <= Len(s)
    BY <1>5, <1>7 DEF Spelled
  <2>5. At(s, d + n + 2).k = ")"
    <3>1. Spelled(z, s, d + 1 + n)
      <4>1. d + Len(u \o w) = d + 1 + n
        BY <1>3, <2>4
      <4> QED BY <2>1, <4>1
    <3>2. At(s, d + 1 + n + 1) = Punct(")")
      BY <3>1, SpelledOne DEF z
    <3>3. d + 1 + n + 1 = d + n + 2
      BY <2>4
    <3> QED BY <3>2, <3>3 DEF Punct
  <2>6. PICK f : f = Parser(ctx, s)
    OBVIOUS
  <2>7. f[<<"or", d + 2>>] = Ok(v, d + n + 2)
    <3>1. Following(w, s, d + 1) = ")"
      <4>1. d + 1 + Len(w) + 1 = d + n + 2
        BY <1>n, <2>4
      <4> QED BY <2>5, <4>1 DEF Following
    <3>2. Parser(ctx, s)[<<"or", d + 1 + 1>>] = Ok(v, d + 1 + Len(w) + 1)
      BY <2>2, <3>1 DEF Reads, Alone, Stops
    <3>3. d + 1 + 1 = d + 2 /\ d + 1 + Len(w) + 1 = d + n + 2
      BY <1>n, <2>4
    <3> QED BY <2>6, <3>2, <3>3
  <2>8. PICK q : q = d + n + 3
    OBVIOUS
  <2>9. Steps(ctx, f, s, d + 1) /\ Steps(ctx, f, s, q)
    <3>1. d + 1 \in 1 .. Len(s) + 1 /\ q \in 1 .. Len(s) + 1
      BY <2>4, <2>8
    <3> QED BY <2>4, <2>6, <3>1, ParserSteps
  <2>10. f[<<"atom", d + 1>>] = Ok(v, q)
    <3>1. f[<<"atom", d + 1>>] = ParseAtom(ctx, f, s, d + 1)
      BY <2>9 DEF Steps
    <3>2. PICK r : r = f[<<"or", d + 2>>]
      OBVIOUS
    <3>3. r.ok = TRUE /\ r.v = v /\ r.pos = d + n + 2
      BY <2>7, <3>2, OkFacts
    <3>4. d + 1 + 1 = d + 2 /\ d + n + 2 + 1 = q
      BY <2>4, <2>8
    <3>5. ParseAtom(ctx, f, s, d + 1) = Ok(v, d + n + 2 + 1)
      BY <2>3, <2>5, <3>2, <3>3, <3>4 DEF ParseAtom
    <3> QED BY <3>1, <3>4, <3>5
  <2>11. At(s, q).k # "."
    <3>1. d + Len(e) + 1 = q
      BY <1>5, <2>4, <2>8
    <3> QED BY <1>7, <3>1 DEF Following, Stops
  <2>12. f[<<"members", q>>] = Ok(<<>>, q)
    <3>1. f[<<"members", q>>] = ParseMembers(f, s, q)
      BY <2>9 DEF Steps
    <3> QED BY <2>11, <3>1 DEF ParseMembers
  <2>13. f[<<"primary", d + 1>>] = Ok(Walked(v, <<>>), q)
    <3>1. f[<<"primary", d + 1>>] = ParsePrimary(f, d + 1)
      BY <2>9 DEF Steps
    <3>2. /\ Ok(v, q).ok = TRUE /\ Ok(v, q).v = v /\ Ok(v, q).pos = q
          /\ Ok(<<>>, q).ok = TRUE /\ Ok(<<>>, q).v = <<>> /\ Ok(<<>>, q).pos = q
      BY OkFacts
    <3> QED BY <2>10, <2>12, <3>1, <3>2 DEF ParsePrimary
  <2>14. d + Len(e) + 1 = q
    BY <1>5, <2>4, <2>8
  <2> QED BY <2>6, <2>13, <2>14, WalkedNowhere
<1>8. Alone(ctx, "primary", Stops("primary"), e, v)
  BY <1>7 DEF Alone
<1> QED BY <1>4, <1>5, <1>6, <1>8 DEF Reads

LEMMA BangReads ==
    ASSUME NEW ctx, NEW T, Punct("!") \in T, NEW w \in Seq(T), NEW v, Reads(ctx, "not", w, v)
    PROVE  /\ <<Punct("!")>> \o w \in Seq(T)
           /\ Reads(ctx, "not", <<Punct("!")>> \o w, Bool(~Truthy(v)))
<1> DEFINE u == <<Punct("!")>>
<1>1. u \in Seq(T) /\ Len(u) = 1
  OBVIOUS
<1>n. PICK n \in Nat : n = Len(w)
  OBVIOUS
<1>2. PICK e : e = u \o w
  OBVIOUS
<1>3. e \in Seq(T) /\ Len(e) = 1 + n
  <2> HIDE DEF u
  <2> QED BY <1>1, <1>2, <1>n, JoinFacts
<1>4. ASSUME NEW s, NEW d, Spelled(e, s, d), Following(e, s, d) \in Stops("not")
      PROVE  Parser(ctx, s)[<<"not", d + 1>>] = Ok(Bool(~Truthy(v)), d + Len(e) + 1)
  <2>1. Spelled(u, s, d) /\ Spelled(w, s, d + 1)
    <3> HIDE DEF u
    <3> QED BY <1>1, <1>2, <1>4, SpelledParts
  <2>2. At(s, d + 1).k = "!"
    <3>1. At(s, d + 1) = Punct("!")
      BY <2>1, SpelledOne
    <3> QED BY <3>1 DEF Punct
  <2>3. d \in Nat /\ Len(s) \in Nat /\ d + n + 1 <= Len(s)
    BY <1>3, <1>4 DEF Spelled
  <2>4. PICK f : f = Parser(ctx, s)
    OBVIOUS
  <2>5. PICK q : q = d + n + 2
    OBVIOUS
  <2>6. f[<<"not", d + 1 + 1>>] = Ok(v, q)
    <3>1. d + 1 + Len(w) + 1 = q /\ d + Len(e) + 1 = q
      BY <1>3, <1>n, <2>3, <2>5
    <3>2. Following(w, s, d + 1) = Following(e, s, d)
      BY <3>1 DEF Following
    <3>3. Parser(ctx, s)[<<"not", d + 1 + 1>>] = Ok(v, d + 1 + Len(w) + 1)
      BY <1>4, <2>1, <3>2 DEF Reads, Alone
    <3> QED BY <2>4, <3>1, <3>3
  <2>7. f[<<"not", d + 1>>] = ParseNot(f, s, d + 1)
    <3>1. d + 1 \in 1 .. Len(s) + 1
      BY <2>3
    <3>2. Steps(ctx, f, s, d + 1)
      BY <2>3, <2>4, <3>1, ParserSteps
    <3> QED BY <3>2 DEF Steps
  <2>8. Ok(v, q).ok = TRUE /\ Ok(v, q).v = v /\ Ok(v, q).pos = q
    BY OkFacts
  <2>9. ParseNot(f, s, d + 1) = Ok(Bool(~Truthy(v)), q)
    BY <2>2, <2>6, <2>8 DEF ParseNot
  <2>10. d + Len(e) + 1 = q
    BY <1>3, <2>3, <2>5
  <2> QED BY <2>4, <2>7, <2>9, <2>10
<1>5. Alone(ctx, "not", Stops("not"), e, Bool(~Truthy(v)))
  BY <1>4 DEF Alone
<1>6. Reads(ctx, "not", e, Bool(~Truthy(v)))
  BY <1>5 DEF Reads
<1> QED BY <1>2, <1>3, <1>6


LEMMA InfixParts ==
    ASSUME NEW T, NEW u \in Seq(T), NEW w \in Seq(T), NEW t \in T
    PROVE  /\ u \o <<t>> \o w \in Seq(T) /\ Len(u \o <<t>> \o w) = Len(u) + 1 + Len(w)
           /\ Len(u) >= 1 => (u \o <<t>> \o w)[1] = u[1]
           /\ \A s, d : Spelled(u \o <<t>> \o w, s, d) =>
                  /\ Spelled(u, s, d) /\ Spelled(w, s, d + Len(u) + 1)
                  /\ At(s, d + Len(u) + 1) = t
<1>1. <<t>> \in Seq(T) /\ Len(<<t>>) = 1
  OBVIOUS
<1>2. PICK z \in Seq(T) : z = <<t>>
  BY <1>1
<1>3. Len(z) = 1
  BY <1>1, <1>2
<1>4. PICK y : y = u \o z
  OBVIOUS
<1>5. y \in Seq(T) /\ Len(y) = Len(u) + 1 /\ (Len(u) >= 1 => y[1] = u[1]) /\ Len(u) \in Nat /\ Len(w) \in Nat
  <2>1. u \o z \in Seq(T) /\ Len(u \o z) = Len(u) + Len(z) /\ (Len(u) >= 1 => (u \o z)[1] = u[1])
    BY <1>2, JoinFacts
  <2>2. Len(u) \in Nat /\ Len(w) \in Nat
    OBVIOUS
  <2> QED BY <1>3, <1>4, <2>1, <2>2
<1>6. PICK e : e = y \o w
  OBVIOUS
<1>7. /\ e \in Seq(T) /\ Len(e) = Len(u) + 1 + Len(w)
      /\ Len(u) >= 1 => e[1] = u[1]
  <2>1. e \in Seq(T) /\ Len(e) = Len(y) + Len(w) /\ (Len(y) >= 1 => e[1] = y[1])
    BY <1>5, <1>6, JoinFacts
  <2> QED BY <1>5, <2>1
<1>8. ASSUME NEW s, NEW d, Spelled(e, s, d)
      PROVE  /\ Spelled(u, s, d) /\ Spelled(w, s, d + Len(u) + 1)
             /\ At(s, d + Len(u) + 1) = t
  <2>1. Spelled(y, s, d) /\ Spelled(w, s, d + Len(y))
    BY <1>5, <1>6, <1>8, SpelledParts
  <2>2. Spelled(u, s, d) /\ Spelled(z, s, d + Len(u))
    BY <1>4, <2>1, SpelledParts
  <2>3. At(s, d + Len(u) + 1) = t
    BY <1>2, <2>2, SpelledOne
  <2>4. d + Len(y) = d + Len(u) + 1
    BY <1>5, <2>2 DEF Spelled
  <2> QED BY <2>1, <2>2, <2>3, <2>4
<1>9. e = u \o <<t>> \o w
  BY <1>2, <1>4, <1>6
<1> QED BY <1>7, <1>8, <1>9

LEMMA EqualReads ==
    ASSUME NEW ctx, NEW T, Punct("==") \in T, NEW u \in Seq(T), NEW w \in Seq(T), NEW a, NEW b,
           Reads(ctx, "primary", u, a), Reads(ctx, "primary", w, b)
    PROVE  /\ u \o <<Punct("==")>> \o w \in Seq(T)
           /\ Reads(ctx, "cmp", u \o <<Punct("==")>> \o w, Bool(LooseEq(a, b)))
<1>1. PICK t \in T : t = Punct("==")
  OBVIOUS
<1>2. PICK e : e = u \o <<t>> \o w
  OBVIOUS
<1>3. /\ e \in Seq(T) /\ Len(e) = Len(u) + 1 + Len(w)
      /\ Len(u) >= 1 => e[1] = u[1]
      /\ \A s, d : Spelled(e, s, d) =>
             /\ Spelled(u, s, d) /\ Spelled(w, s, d + Len(u) + 1)
             /\ At(s, d + Len(u) + 1) = t
  BY <1>2, InfixParts
<1>4. PICK m \in Nat : m = Len(u)
  OBVIOUS
<1>5. PICK n \in Nat : n = Len(w)
  OBVIOUS
<1>6. e # <<>> /\ At(e, 1).k # "!"
  <2>1. m >= 1
    BY <1>4 DEF Reads
  <2>2. Len(e) >= 1 /\ e[1] = u[1]
    BY <1>3, <1>4, <1>5, <2>1
  <2>3. At(e, 1) = At(u, 1)
    BY <1>4, <2>1, <2>2 DEF At
  <2> QED BY <2>2, <2>3 DEF Reads
<1>7. ASSUME NEW s, NEW d, Spelled(e, s, d), Following(e, s, d) \in Stops("cmp")
      PROVE  Parser(ctx, s)[<<"cmp", d + 1>>] = Ok(Bool(LooseEq(a, b)), d + Len(e) + 1)
  <2>1. Spelled(u, s, d) /\ Spelled(w, s, d + m + 1) /\ At(s, d + m + 1).k = "=="
    <3>1. t.k = "=="
      BY <1>1 DEF Punct
    <3> QED BY <1>3, <1>4, <1>7, <3>1
  <2>2. d \in Nat /\ Len(s) \in Nat /\ d + m + 1 + n <= Len(s)
    BY <1>3, <1>4, <1>5, <1>7 DEF Spelled
  <2>3. PICK f : f = Parser(ctx, s)
    OBVIOUS
  <2>4. f[<<"primary", d + 1>>] = Ok(a, d + m + 1)
    <3>1. Following(u, s, d) = "=="
      BY <1>4, <2>1 DEF Following
    <3> QED BY <1>4, <2>1, <2>3, <3>1 DEF Reads, Alone, Stops
  <2>5. PICK q : q = d + m + n + 2
    OBVIOUS
  <2>6. d + m + 1 + n + 1 = q /\ d + Len(e) + 1 = q
    BY <1>3, <1>4, <1>5, <2>2, <2>5
  <2>7. f[<<"primary", d + m + 1 + 1>>] = Ok(b, q)
    <3>1. Following(w, s, d + m + 1) = Following(e, s, d)
      BY <1>5, <2>6 DEF Following
    <3>2. Following(w, s, d + m + 1) \in Stops("primary")
      BY <1>7, <3>1 DEF Stops
    <3>3. Parser(ctx, s)[<<"primary", d + m + 1 + 1>>] = Ok(b, d + m + 1 + Len(w) + 1)
      BY <2>1, <3>2 DEF Reads, Alone
    <3> QED BY <1>5, <2>3, <2>6, <3>3
  <2>8. f[<<"cmp", d + 1>>] = ParseCmp(f, s, d + 1)
    <3>1. d + 1 \in 1 .. Len(s) + 1
      BY <2>2
    <3>2. Steps(ctx, f, s, d + 1)
      BY <2>2, <2>3, <3>1, ParserSteps
    <3> QED BY <3>2 DEF Steps
  <2>9. /\ Ok(a, d + m + 1).ok = TRUE /\ Ok(a, d + m + 1).v = a /\ Ok(a, d + m + 1).pos = d + m + 1
        /\ Ok(b, q).ok = TRUE /\ Ok(b, q).v = b /\ Ok(b, q).pos = q
    BY OkFacts
  <2>10. At(s, d + m + 1).k \in Comparisons
    BY <2>1 DEF Comparisons
  <2>11. ParseCmp(f, s, d + 1) = Ok(Bool(Compare("==", a, b)), q)
    BY <2>1, <2>4, <2>7, <2>9, <2>10 DEF ParseCmp
  <2>12. Bool(Compare("==", a, b)) = Bool(LooseEq(a, b))
    BY DEF Compare
  <2> QED BY <2>3, <2>6, <2>8, <2>11, <2>12
<1>8. Alone(ctx, "cmp", Stops("cmp"), e, Bool(LooseEq(a, b)))
  BY <1>7 DEF Alone
<1>9. Reads(ctx, "cmp", e, Bool(LooseEq(a, b)))
  BY <1>6, <1>8 DEF Reads
<1> QED BY <1>1, <1>2, <1>3, <1>9

(* Of a chain as first operand of a chain of its kind, the same operand is *)
(* selected as of the two chains in one.                                   *)
LEMMA SelectTwice ==
    ASSUME NEW level \in {"or", "and"}, NEW a, NEW b, NEW c
    PROVE  Select(level, a, Select(level, b, c)) = Select(level, Select(level, a, b), c)
<1>1. CASE Truthy(a) <=> level = "or"
  BY <1>1 DEF Select
<1>2. CASE ~(Truthy(a) <=> level = "or")
  BY <1>2 DEF Select
<1> QED BY <1>1, <1>2

LEMMA OperatorReads ==
    ASSUME NEW ctx, NEW T, NEW level \in {"or", "and"}, Punct(Chained(level)) \in T,
           NEW u \in Seq(T), NEW w \in Seq(T), NEW a, NEW b,
           Reads(ctx, level, u, a), Reads(ctx, level, w, b)
    PROVE  /\ u \o <<Punct(Chained(level))>> \o w \in Seq(T)
           /\ Reads(ctx, level, u \o <<Punct(Chained(level))>> \o w, Select(level, a, b))
<1>1. PICK t \in T : t = Punct(Chained(level))
  OBVIOUS
<1>2. PICK e : e = u \o <<t>> \o w
  OBVIOUS
<1>3. /\ e \in Seq(T) /\ Len(e) = Len(u) + 1 + Len(w)
      /\ \A s, d : Spelled(e, s, d) =>
             /\ Spelled(u, s, d) /\ Spelled(w, s, d + Len(u) + 1)
             /\ At(s, d + Len(u) + 1) = t
  BY <1>2, InfixParts
<1>4. PICK m \in Nat : m = Len(u)
  OBVIOUS
<1>5. PICK n \in Nat : n = Len(w)
  OBVIOUS
<1>r. Alone(ctx, level, Stops(level), w, b) /\ InChain(ctx, level, u, a) /\ InChain(ctx, level, w, b)
  BY DEF Reads
<1> DEFINE First(s, d) ==
               \A c, q : Parser(ctx, s)[<<level, d + m + 1 + 1>>] = Ok(c, q) =>
                             Parser(ctx, s)[<<level, d + 1>>] = Ok(Select(level, a, c), q)
           Split(s, d) ==
               /\ Spelled(w, s, d + m + 1) /\ d \in Nat
               /\ Following(w, s, d + m + 1) = Following(e, s, d)
               /\ d + m + 1 + n + 1 = d + Len(e) + 1
               /\ d + m + 1 + n + 2 = d + Len(e) + 2
<1>6. ASSUME NEW s, NEW d, Spelled(e, s, d)
      PROVE  Split(s, d) /\ First(s, d)
  <2>1. Spelled(u, s, d) /\ Spelled(w, s, d + m + 1) /\ At(s, d + m + 1).k = Chained(level)
    <3>1. t.k = Chained(level)
      BY <1>1 DEF Punct
    <3> QED BY <1>3, <1>4, <1>6, <3>1
  <2>2. d \in Nat
    BY <1>6 DEF Spelled
  <2>3. /\ d + m + 1 + n + 1 = d + Len(e) + 1
        /\ d + m + 1 + n + 2 = d + Len(e) + 2
        /\ d + m + 1 + 1 = d + Len(u) + 2
    BY <1>3, <1>4, <1>5, <2>2
  <2>4. Following(w, s, d + m + 1) = Following(e, s, d)
    BY <1>5, <2>3 DEF Following
  <2>5. Following(u, s, d) = Chained(level)
    BY <1>4, <2>1 DEF Following
  <2>6. ASSUME NEW c, NEW q, Parser(ctx, s)[<<level, d + m + 1 + 1>>] = Ok(c, q)
        PROVE  Parser(ctx, s)[<<level, d + 1>>] = Ok(Select(level, a, c), q)
    <3>1. Parser(ctx, s)[<<level, d + Len(u) + 2>>] = Ok(c, q)
      BY <2>3, <2>6
    <3>2. FirstAt(ctx, level, u, a, s, d)
      BY <1>r, <2>1, <2>5 DEF InChain
    <3> QED BY <3>1, <3>2 DEF FirstAt
  <2>7. First(s, d)
    BY <2>6
  <2>8. Split(s, d)
    BY <2>1, <2>2, <2>3, <2>4
  <2> QED BY <2>7, <2>8
<1>7. ASSUME NEW s, NEW d, Spelled(e, s, d), Following(e, s, d) \in Stops(level)
      PROVE  Parser(ctx, s)[<<level, d + 1>>] = Ok(Select(level, a, b), d + Len(e) + 1)
  <2>1. Split(s, d) /\ First(s, d)
    <3> HIDE DEF Split, First
    <3> QED BY <1>6, <1>7
  <2>2. PICK d2 : d2 = d + m + 1
    OBVIOUS
  <2>3. Spelled(w, s, d2) /\ Following(w, s, d2) \in Stops(level)
    BY <1>7, <2>1, <2>2
  <2>4. Parser(ctx, s)[<<level, d2 + 1>>] = Ok(b, d2 + Len(w) + 1)
    BY <1>r, <2>3 DEF Alone
  <2>5. d2 + Len(w) + 1 = d + Len(e) + 1
    BY <1>5, <2>1, <2>2
  <2>6. PICK q : q = d + Len(e) + 1
    OBVIOUS
  <2>7. Parser(ctx, s)[<<level, d + m + 1 + 1>>] = Ok(b, q)
    BY <2>2, <2>4, <2>5, <2>6
  <2>8. PICK P : P = Parser(ctx, s)
    OBVIOUS
  <2>9. P[<<level, d + 1>>] = Ok(Select(level, a, b), q)
    BY <2>1, <2>7, <2>8
  <2> QED BY <2>6, <2>8, <2>9
<1>8. ASSUME NEW s, NEW d, NEW c, NEW q, Spelled(e, s, d), Following(e, s, d) = Chained(level),
             Parser(ctx, s)[<<level, d + Len(e) + 2>>] = Ok(c, q)
      PROVE  Parser(ctx, s)[<<level, d + 1>>] = Ok(Select(level, Select(level, a, b), c), q)
  <2>1. Split(s, d) /\ First(s, d)
    <3> HIDE DEF Split, First
    <3> QED BY <1>6, <1>8
  <2>2. PICK d2 : d2 = d + m + 1
    OBVIOUS
  <2>3. Spelled(w, s, d2) /\ Following(w, s, d2) = Chained(level)
    BY <1>8, <2>1, <2>2
  <2>4. d2 + Len(w) + 2 = d + Len(e) + 2
    BY <1>5, <2>1, <2>2
  <2>5. Parser(ctx, s)[<<level, d2 + Len(w) + 2>>] = Ok(c, q)
    BY <1>8, <2>4
  <2>6. Parser(ctx, s)[<<level, d2 + 1>>] = Ok(Select(level, b, c), q)
    <3>1. FirstAt(ctx, level, w, b, s, d2)
      BY <1>r, <2>3 DEF InChain
    <3> QED BY <2>5, <3>1 DEF FirstAt
  <2>7. PICK x : x = Select(level, b, c)
    OBVIOUS
  <2>8. Parser(ctx, s)[<<level, d + m + 1 + 1>>] = Ok(x, q)
    BY <2>2, <2>6, <2>7
  <2>9. Parser(ctx, s)[<<level, d + 1>>] = Ok(Select(level, a, x), q)
    BY <2>1, <2>8
  <2>10. Select(level, a, x) = Select(level, Select(level, a, b), c)
    BY <2>7, SelectTwice
  <2> QED BY <2>9, <2>10
<1>9. Alone(ctx, level, Stops(level), e, Select(level, a, b))
  BY <1>7 DEF Alone
<1>10. InChain(ctx, level, e, Select(level, a, b))
  BY <1>8 DEF InChain, FirstAt
<1>11. Reads(ctx, level, e, Select(level, a, b))
  BY <1>9, <1>10 DEF Reads
<1> QED BY <1>1, <1>2, <1>3, <1>11


(* An operand, read alone, is read the same wherever it stands.            *)
LEMMA LeafReads ==
    ASSUME NEW ctx, NEW T, NEW w \in Seq(T), NEW v,
           Parser(ctx, w)[<<"primary", 1>>] = Ok(v, Len(w) + 1)
    PROVE  Reads(ctx, "primary", w, v)
<1>1. ASSUME NEW s, NEW d, Spelled(w, s, d), Following(w, s, d) \in Stops("primary")
      PROVE  Parser(ctx, s)[<<"primary", d + 1>>] = Ok(v, d + Len(w) + 1)
  <2>1. Embedded(w, s, d)
    BY <1>1 DEF Embedded, Spelled, Following, Stops
  <2> QED BY <2>1, ReadInside
<1>2. PICK f : f = Parser(ctx, w)
  OBVIOUS
<1>3. Steps(ctx, f, w, 1)
  <2>1. Len(w) \in Nat /\ 1 \in 1 .. Len(w) + 1
    OBVIOUS
  <2> QED BY <1>2, <2>1, ParserSteps
<1>4. f[<<"atom", 1>>].ok
  <2>1. f[<<"primary", 1>>] = ParsePrimary(f, 1)
    BY <1>3 DEF Steps
  <2>2. f[<<"primary", 1>>] # Err
    BY <1>2, OkFacts
  <2> QED BY <2>1, <2>2 DEF ParsePrimary
<1>5. At(w, 1).k \notin {"!", "end"}
  <2>1. f[<<"atom", 1>>] = ParseAtom(ctx, f, w, 1)
    BY <1>3 DEF Steps
  <2>2. Err.ok = FALSE
    BY DEF Err
  <2>3. ASSUME At(w, 1).k \in {"!", "end"} PROVE FALSE
    <3>1. ParseAtom(ctx, f, w, 1) = Err
      BY <2>3 DEF ParseAtom
    <3> QED BY <1>4, <2>1, <2>2, <3>1
  <2> QED BY <2>3
<1>6. w # <<>>
  <2>1. ASSUME w = <<>> PROVE FALSE
    <3>1. Len(w) = 0
      BY <2>1
    <3>2. At(w, 1) = Punct("end")
      BY <3>1 DEF At
    <3>3. At(w, 1).k = "end"
      BY <3>2 DEF Punct
    <3> QED BY <1>5, <3>3
  <2> QED BY <2>1
<1>7. Alone(ctx, "primary", Stops("primary"), w, v)
  BY <1>1 DEF Alone
<1> QED BY <1>5, <1>6, <1>7 DEF Reads

(* What reads at the loosest level evaluates.                              *)
LEMMA ReadsEvaluates ==
    ASSUME NEW ctx, NEW T, NEW w \in Seq(T), NEW v, Reads(ctx, "or", w, v)
    PROVE  Eval(ctx, w) = Ok(v, Len(w) + 1)
<1>n. PICK n \in Nat : n = Len(w)
  OBVIOUS
<1>1. Spelled(w, w, 0)
  <2>1. \A i \in 1 .. n : At(w, 0 + i) = At(w, i)
    OBVIOUS
  <2> QED BY <1>n, <2>1 DEF Spelled
<1>2. Following(w, w, 0) = "end"
  <2>1. At(w, 0 + Len(w) + 1) = Punct("end")
    BY <1>n DEF At
  <2>2. Punct("end").k = "end"
    BY DEF Punct
  <2> QED BY <2>1, <2>2 DEF Following
<1>3. PICK r : r = Parser(ctx, w)[<<"or", 1>>]
  OBVIOUS
<1>4. r = Ok(v, n + 1)
  <2>1. Parser(ctx, w)[<<"or", 0 + 1>>] = Ok(v, 0 + Len(w) + 1)
    BY <1>1, <1>2 DEF Reads, Alone, Stops
  <2>2. 0 + 1 = 1 /\ 0 + Len(w) + 1 = n + 1
    BY <1>n
  <2> QED BY <1>3, <2>1, <2>2
<1>5. r.ok = TRUE /\ r.pos = n + 1
  BY <1>4, OkFacts
<1>6. Eval(ctx, w) = r
  BY <1>3, <1>5, <1>n DEF Eval
<1> QED BY <1>4, <1>6, <1>n

(* The levels operators bind at, from the loosest.                         *)
Level(i) ==
    CASE i = 1 -> "or" [] i = 2 -> "and" [] i = 3 -> "not" [] i = 4 -> "cmp" [] i = 5 -> "primary"

LEMMA LooserReads ==
    ASSUME NEW ctx, NEW T, NEW w \in Seq(T), NEW v, NEW b \in 1 .. 5, Reads(ctx, Level(b), w, v)
    PROVE  \A i \in 1 .. b : Reads(ctx, Level(i), w, v)
<1>l. /\ Level(1) = "or" /\ Level(2) = "and" /\ Level(3) = "not"
      /\ Level(4) = "cmp" /\ Level(5) = "primary"
  BY DEF Level
<1>t. Tighter("or") = "and" /\ Tighter("and") = "not"
  BY DEF Tighter
<1>2. Reads(ctx, "and", w, v) => Reads(ctx, "or", w, v)
  BY <1>t, ChainReads
<1>3. Reads(ctx, "not", w, v) => Reads(ctx, "and", w, v)
  BY <1>t, ChainReads
<1>4. Reads(ctx, "cmp", w, v) => Reads(ctx, "not", w, v)
  BY CmpReads
<1>5. Reads(ctx, "primary", w, v) => Reads(ctx, "cmp", w, v)
  BY PrimaryReads
<1> SUFFICES ASSUME NEW i \in 1 .. b PROVE Reads(ctx, Level(i), w, v)
  OBVIOUS
<1>6. b \in {1, 2, 3, 4, 5} /\ i \in {1, 2, 3, 4, 5} /\ i <= b
  OBVIOUS
<1>c1. CASE b = 1
  BY <1>6, <1>c1
<1>c2. CASE b = 2
  <2>1. i \in {1, 2}
    BY <1>6, <1>c2
  <2> QED BY <1>l, <1>2, <1>c2, <2>1
<1>c3. CASE b = 3
  <2>1. i \in {1, 2, 3}
    BY <1>6, <1>c3
  <2> QED BY <1>l, <1>2, <1>3, <1>c3, <2>1
<1>c4. CASE b = 4
  <2>1. i \in {1, 2, 3, 4}
    BY <1>6, <1>c4
  <2> QED BY <1>l, <1>2, <1>3, <1>4, <1>c4, <2>1
<1>c5. CASE b = 5
  BY <1>l, <1>2, <1>3, <1>4, <1>5, <1>6, <1>c5
<1> QED BY <1>6, <1>c1, <1>c2, <1>c3, <1>c4, <1>c5

(* A tree that is written as W says, and means what V says.                *)
TreeReads(ctx, T, W, V, tree) ==
    /\ W[tree] \in Seq(T)
    /\ Reads(ctx, Level(Binding(tree)), W[tree], V[tree])

LEMMA InsideReads ==
    ASSUME NEW ctx, NEW T, Punct("(") \in T, Punct(")") \in T, NEW W, NEW V,
           NEW tree, TreeReads(ctx, T, W, V, tree), NEW level \in 1 .. 5
    PROVE  /\ Inside(W, tree, level) \in Seq(T)
           /\ Reads(ctx, Level(level), Inside(W, tree, level), V[tree])
<1>1. PICK w \in Seq(T) : w = W[tree]
  BY DEF TreeReads
<1>2. PICK v : v = V[tree]
  OBVIOUS
<1>3. PICK b \in 1 .. 5 : b = Binding(tree)
  BY DEF Binding
<1>4. \A i \in 1 .. b : Reads(ctx, Level(i), w, v)
  <2>1. Reads(ctx, Level(b), w, v)
    BY <1>1, <1>2, <1>3 DEF TreeReads
  <2> QED BY <2>1, LooserReads
<1>5. CASE b < level
  <2>1. Reads(ctx, "or", w, v)
    <3>1. 1 \in 1 .. b /\ Level(1) = "or"
      BY DEF Level
    <3> QED BY <1>4, <3>1
  <2>2. PICK e \in Seq(T) : e = Enclosed(w) /\ Reads(ctx, "primary", e, v)
    BY <2>1, EnclosedReads
  <2>3. \A i \in 1 .. 5 : Reads(ctx, Level(i), e, v)
    <3>1. 5 \in 1 .. 5 /\ Level(5) = "primary"
      BY DEF Level
    <3>2. Reads(ctx, Level(5), e, v)
      BY <2>2, <3>1
    <3> QED BY <3>1, <3>2, LooserReads
  <2>4. Inside(W, tree, level) = e
    BY <1>1, <1>3, <1>5, <2>2 DEF Inside
  <2> QED BY <1>2, <2>3, <2>4
<1>6. CASE ~(b < level)
  <2>1. level \in 1 .. b
    BY <1>6
  <2>2. Inside(W, tree, level) = w
    BY <1>1, <1>3, <1>6 DEF Inside
  <2> QED BY <1>2, <1>4, <2>1, <2>2
<1> QED BY <1>5, <1>6


-----------------------------------------------------------------------------
(* Trees: over a set, a leaf or an operator whose operands are in it.      *)
Over(tree, S) ==
    \/ tree[1] = "leaf"
    \/ tree[1] = "!" /\ tree[2] \in S
    \/ tree[1] \in {"||", "&&", "=="} /\ tree[2] \in S /\ tree[3] \in S

LEMMA TreesAreOver ==
    ASSUME NEW S, NEW tree \in Trees(S)
    PROVE  tree \in S \/ Over(tree, S)
<1>1. CASE tree \in {<<"!", a>> : a \in S}
  BY <1>1 DEF Over
<1>2. CASE tree \in {<<op, a, b>> : op \in {"||", "&&", "=="}, a \in S, b \in S}
  BY <1>2 DEF Over
<1> QED BY <1>1, <1>2 DEF Trees

LEMMA WrittenLocally ==
    ASSUME NEW S, NEW tree, Over(tree, S), NEW f, NEW g, \A t \in S : f[t] = g[t]
    PROVE  WrittenAt(f, tree) = WrittenAt(g, tree)
<1>1. \A t \in S : \A level : Inside(f, t, level) = Inside(g, t, level)
  BY DEF Inside
<1>2. CASE tree[1] = "leaf"
  BY <1>2 DEF WrittenAt
<1>3. CASE tree[1] = "!" /\ tree[2] \in S
  BY <1>1, <1>3 DEF WrittenAt
<1>4. CASE tree[1] \in {"||", "&&", "=="} /\ tree[2] \in S /\ tree[3] \in S
  BY <1>1, <1>4 DEF WrittenAt
<1> QED BY <1>2, <1>3, <1>4 DEF Over

LEMMA MeaningLocally ==
    ASSUME NEW ctx, NEW S, NEW tree, Over(tree, S), NEW f, NEW g, \A t \in S : f[t] = g[t]
    PROVE  MeaningAt(ctx, f, tree) = MeaningAt(ctx, g, tree)
<1>2. CASE tree[1] = "leaf"
  BY <1>2 DEF MeaningAt
<1>3. CASE tree[1] = "!" /\ tree[2] \in S
  BY <1>3 DEF MeaningAt
<1>4. CASE tree[1] \in {"||", "&&", "=="} /\ tree[2] \in S /\ tree[3] \in S
  BY <1>4 DEF MeaningAt
<1> QED BY <1>2, <1>3, <1>4 DEF Over

(* Two operators deep, three passes find what is written and what is meant.*)
Layered(T0, T1, T2) ==
    /\ T0 \subseteq T1 /\ T1 \subseteq T2
    /\ \A t \in T0 : Over(t, {})
    /\ \A t \in T1 : Over(t, T0)
    /\ \A t \in T2 : Over(t, T1)

LEMMA WrittenFound ==
    ASSUME NEW T0, NEW T1, NEW T2, Layered(T0, T1, T2)
    PROVE  \A t \in T2 : Written(T2)[t] = WrittenAt(Written(T2), t)
<1> DEFINE F(f) == f = [t \in T2 |-> WrittenAt(f, t)]
<1>0. PICK f0 : f0 = [t \in T2 |-> WrittenAt(<<>>, t)]
  OBVIOUS
<1>1. PICK f1 : f1 = [t \in T2 |-> WrittenAt(f0, t)]
  OBVIOUS
<1>2. PICK f2 : f2 = [t \in T2 |-> WrittenAt(f1, t)]
  OBVIOUS
<1>3. \A t \in T0 : f0[t] = f1[t] /\ f1[t] = f2[t]
  <2> SUFFICES ASSUME NEW t \in T0 PROVE f0[t] = f1[t] /\ f1[t] = f2[t]
    OBVIOUS
  <2>1. Over(t, {}) /\ t \in T2
    BY DEF Layered
  <2>2. \A f, g : WrittenAt(f, t) = WrittenAt(g, t)
    BY <2>1, WrittenLocally
  <2> QED BY <1>0, <1>1, <1>2, <2>1, <2>2
<1>4. \A t \in T1 : f1[t] = f2[t]
  <2> SUFFICES ASSUME NEW t \in T1 PROVE f1[t] = f2[t]
    OBVIOUS
  <2>1. Over(t, T0) /\ t \in T2
    BY DEF Layered
  <2>2. WrittenAt(f0, t) = WrittenAt(f1, t)
    BY <1>3, <2>1, WrittenLocally
  <2> QED BY <1>1, <1>2, <2>1, <2>2
<1>5. F(f2)
  <2>1. \A t \in T2 : f2[t] = WrittenAt(f2, t)
    <3> SUFFICES ASSUME NEW t \in T2 PROVE f2[t] = WrittenAt(f2, t)
      OBVIOUS
    <3>1. Over(t, T1)
      BY DEF Layered
    <3>2. WrittenAt(f1, t) = WrittenAt(f2, t)
      BY <1>4, <3>1, WrittenLocally
    <3> QED BY <1>2, <3>2
  <2> QED BY <1>2, <2>1
<1>6. PICK w : w = CHOOSE f : F(f)
  OBVIOUS
<1>7. F(w)
  <2> HIDE DEF F
  <2> QED BY <1>5, <1>6
<1>8. Written(T2) = w
  BY <1>6 DEF Written
<1> QED BY <1>7, <1>8

LEMMA MeaningFound ==
    ASSUME NEW ctx, NEW T0, NEW T1, NEW T2, Layered(T0, T1, T2)
    PROVE  \A t \in T2 : Meaning(ctx, T2)[t] = MeaningAt(ctx, Meaning(ctx, T2), t)
<1> DEFINE F(f) == f = [t \in T2 |-> MeaningAt(ctx, f, t)]
<1>0. PICK f0 : f0 = [t \in T2 |-> MeaningAt(ctx, <<>>, t)]
  OBVIOUS
<1>1. PICK f1 : f1 = [t \in T2 |-> MeaningAt(ctx, f0, t)]
  OBVIOUS
<1>2. PICK f2 : f2 = [t \in T2 |-> MeaningAt(ctx, f1, t)]
  OBVIOUS
<1>3. \A t \in T0 : f0[t] = f1[t] /\ f1[t] = f2[t]
  <2> SUFFICES ASSUME NEW t \in T0 PROVE f0[t] = f1[t] /\ f1[t] = f2[t]
    OBVIOUS
  <2>1. Over(t, {}) /\ t \in T2
    BY DEF Layered
  <2>2. \A f, g : MeaningAt(ctx, f, t) = MeaningAt(ctx, g, t)
    BY <2>1, MeaningLocally
  <2> QED BY <1>0, <1>1, <1>2, <2>1, <2>2
<1>4. \A t \in T1 : f1[t] = f2[t]
  <2> SUFFICES ASSUME NEW t \in T1 PROVE f1[t] = f2[t]
    OBVIOUS
  <2>1. Over(t, T0) /\ t \in T2
    BY DEF Layered
  <2>2. MeaningAt(ctx, f0, t) = MeaningAt(ctx, f1, t)
    BY <1>3, <2>1, MeaningLocally
  <2> QED BY <1>1, <1>2, <2>1, <2>2
<1>5. F(f2)
  <2>1. \A t \in T2 : f2[t] = MeaningAt(ctx, f2, t)
    <3> SUFFICES ASSUME NEW t \in T2 PROVE f2[t] = MeaningAt(ctx, f2, t)
      OBVIOUS
    <3>1. Over(t, T1)
      BY DEF Layered
    <3>2. MeaningAt(ctx, f1, t) = MeaningAt(ctx, f2, t)
      BY <1>4, <3>1, MeaningLocally
    <3> QED BY <1>2, <3>2
  <2> QED BY <1>2, <2>1
<1>6. PICK v : v = CHOOSE f : F(f)
  OBVIOUS
<1>7. F(v)
  <2> HIDE DEF F
  <2> QED BY <1>5, <1>6
<1>8. Meaning(ctx, T2) = v
  BY <1>6 DEF Meaning
<1> QED BY <1>7, <1>8


(* One operator more: what its operands say, and how they bind.            *)
LEMMA OperatorTree ==
    ASSUME NEW ctx, NEW T, \A p \in {"(", ")", "!", "==", "&&", "||"} : Punct(p) \in T,
           NEW W, NEW V, NEW tree, NEW S, Over(tree, S), tree[1] # "leaf",
           \A t \in S : TreeReads(ctx, T, W, V, t),
           W[tree] = WrittenAt(W, tree), V[tree] = MeaningAt(ctx, V, tree)
    PROVE  TreeReads(ctx, T, W, V, tree)
<1>0. /\ Level(1) = "or" /\ Level(2) = "and" /\ Level(3) = "not"
      /\ Level(4) = "cmp" /\ Level(5) = "primary"
  BY DEF Level
<1>1. \A t \in S, i \in 1 .. 5 :
          Inside(W, t, i) \in Seq(T) /\ Reads(ctx, Level(i), Inside(W, t, i), V[t])
  BY InsideReads
<1>2. CASE tree[1] = "!" /\ tree[2] \in S
  <2>1. PICK w \in Seq(T) :
            /\ w = Inside(W, tree[2], IF tree[2][1] = "==" THEN 5 ELSE 3)
            /\ Reads(ctx, "not", w, V[tree[2]])
    <3>1. CASE tree[2][1] = "=="
      <4>1. PICK w \in Seq(T) : w = Inside(W, tree[2], 5) /\ Reads(ctx, "primary", w, V[tree[2]])
        BY <1>0, <1>1, <1>2
      <4>2. Reads(ctx, "not", w, V[tree[2]])
        <5>1. Reads(ctx, Level(5), w, V[tree[2]]) /\ 5 \in 1 .. 5 /\ 3 \in 1 .. 5
          BY <1>0, <4>1
        <5>2. PICK v : v = V[tree[2]]
          OBVIOUS
        <5>3. \A i \in 1 .. 5 : Reads(ctx, Level(i), w, v)
          BY <5>1, <5>2, LooserReads
        <5> QED BY <1>0, <5>1, <5>2, <5>3
      <4> QED BY <3>1, <4>1, <4>2
    <3>2. CASE tree[2][1] # "=="
      BY <1>0, <1>1, <1>2, <3>2
    <3> QED BY <3>1, <3>2
  <2>2. /\ <<Punct("!")>> \o w \in Seq(T)
        /\ Reads(ctx, "not", <<Punct("!")>> \o w, Bool(~Truthy(V[tree[2]])))
    BY <2>1, BangReads
  <2>3. W[tree] = <<Punct("!")>> \o w /\ V[tree] = Bool(~Truthy(V[tree[2]])) /\ Binding(tree) = 3
    BY <1>2, <2>1 DEF WrittenAt, MeaningAt, Binding
  <2> QED BY <1>0, <2>2, <2>3 DEF TreeReads
<1>3. CASE tree[1] = "==" /\ tree[2] \in S /\ tree[3] \in S
  <2>1. PICK u \in Seq(T) : u = Inside(W, tree[2], 5) /\ Reads(ctx, "primary", u, V[tree[2]])
    BY <1>0, <1>1, <1>3
  <2>2. PICK w \in Seq(T) : w = Inside(W, tree[3], 5) /\ Reads(ctx, "primary", w, V[tree[3]])
    BY <1>0, <1>1, <1>3
  <2>3. /\ u \o <<Punct("==")>> \o w \in Seq(T)
        /\ Reads(ctx, "cmp", u \o <<Punct("==")>> \o w, Bool(LooseEq(V[tree[2]], V[tree[3]])))
    BY <2>1, <2>2, EqualReads
  <2>4. /\ W[tree] = u \o <<Punct("==")>> \o w
        /\ V[tree] = Bool(LooseEq(V[tree[2]], V[tree[3]])) /\ Binding(tree) = 4
    BY <1>3, <2>1, <2>2 DEF WrittenAt, MeaningAt, Binding
  <2> QED BY <1>0, <2>3, <2>4 DEF TreeReads
<1>4. CASE tree[1] \in {"||", "&&"} /\ tree[2] \in S /\ tree[3] \in S
  <2>0. PICK level \in {"or", "and"} :
            Chained(level) = tree[1] /\ Level(Binding(tree)) = level /\ Binding(tree) \in 1 .. 5
    <3>1. CASE tree[1] = "||"
      <4>1. Chained("or") = tree[1] /\ Binding(tree) = 1
        BY <3>1 DEF Chained, Binding
      <4> QED BY <1>0, <4>1
    <3>2. CASE tree[1] = "&&"
      <4>1. Chained("and") = tree[1] /\ Binding(tree) = 2
        BY <3>2 DEF Chained, Binding
      <4> QED BY <1>0, <4>1
    <3> QED BY <1>4, <3>1, <3>2
  <2>1. PICK u \in Seq(T) :
            u = Inside(W, tree[2], Binding(tree)) /\ Reads(ctx, level, u, V[tree[2]])
    BY <1>1, <1>4, <2>0
  <2>2. PICK w \in Seq(T) :
            w = Inside(W, tree[3], Binding(tree)) /\ Reads(ctx, level, w, V[tree[3]])
    BY <1>1, <1>4, <2>0
  <2>3. PICK a, b : a = V[tree[2]] /\ b = V[tree[3]]
    OBVIOUS
  <2>4. /\ u \o <<Punct(Chained(level))>> \o w \in Seq(T)
        /\ Reads(ctx, level, u \o <<Punct(Chained(level))>> \o w, Select(level, a, b))
    <3>1. Punct(Chained(level)) \in T
      BY <1>4, <2>0
    <3> QED BY <2>1, <2>2, <2>3, <3>1, OperatorReads
  <2>5. W[tree] = u \o <<Punct(Chained(level))>> \o w
    BY <1>4, <2>0, <2>1, <2>2 DEF WrittenAt
  <2>6. V[tree] = Select(level, a, b)
    <3>1. CASE tree[1] = "||"
      <4>1. level = "or"
        BY <2>0, <3>1 DEF Chained
      <4> QED BY <2>3, <3>1, <4>1 DEF MeaningAt, Select
    <3>2. CASE tree[1] = "&&"
      <4>1. level = "and"
        BY <2>0, <3>2 DEF Chained
      <4> QED BY <2>3, <3>2, <4>1 DEF MeaningAt, Select
    <3> QED BY <1>4, <3>1, <3>2
  <2> QED BY <2>0, <2>4, <2>5, <2>6 DEF TreeReads
<1> QED BY <1>2, <1>3, <1>4 DEF Over

Tokens ==
    {Punct(p) : p \in {"(", ")", "!", "==", "&&", "||"}} \union UNION {Elements(o[2]) : o \in Operands}

LEMMA OperandReads ==
    ASSUME NEW W, NEW V, NEW tree \in Operands,
           W[tree] = WrittenAt(W, tree), V[tree] = MeaningAt(Context, V, tree)
    PROVE  TreeReads(Context, Tokens, W, V, tree) /\ tree[1] = "leaf"
<1>0. tree[1] = "leaf"
  <2>1. tree = <<"leaf", tree[2]>>
    BY OperandsAssumption DEF Leaf
  <2> QED BY <2>1
<1>1. PICK w \in Seq(Tokens) : w = tree[2]
  <2>1. tree[2] \in Seq(Elements(tree[2]))
    BY OperandsAssumption DEF IsList
  <2>2. Elements(tree[2]) \subseteq Tokens
    BY DEF Tokens
  <2> QED BY <2>1, <2>2
<1>2. PICK r : r = Parser(Context, w)[<<"primary", 1>>]
  OBVIOUS
<1>3. r.ok /\ r.pos = Len(w) + 1
  BY <1>1, <1>2, OperandsAssumption
<1>4. PICK v : r = Ok(v, Len(w) + 1)
  <2>1. Good(Len(w), "primary", 1, r)
    <3>1. Len(w) \in Nat /\ 1 \in 1 .. Len(w) + 1 /\ "primary" \in Levels
      BY DEF Levels
    <3> QED BY <1>2, <3>1, ParserEquation
  <2>2. r # Err
    BY <1>3 DEF Err
  <2>3. PICK v, q : r = Ok(v, q)
    BY <2>1, <2>2 DEF Good
  <2>4. q = Len(w) + 1
    BY <1>3, <2>3, OkFacts
  <2> QED BY <2>3, <2>4
<1>5. Reads(Context, "primary", w, v)
  BY <1>2, <1>4, LeafReads
<1>6. Level(5) = "primary" /\ 5 \in 1 .. 5 /\ 1 \in 1 .. 5 /\ Level(1) = "or" /\ Binding(tree) = 5
  BY <1>0 DEF Level, Binding
<1>7. Reads(Context, "or", w, v)
  <2>1. Reads(Context, Level(5), w, v)
    BY <1>5, <1>6
  <2> QED BY <1>6, <2>1, LooserReads
<1>8. Eval(Context, w).v = v
  BY <1>7, ReadsEvaluates, OkFacts
<1>9. W[tree] = w /\ V[tree] = v
  BY <1>0, <1>1, <1>8 DEF WrittenAt, MeaningAt
<1> QED BY <1>0, <1>5, <1>6, <1>9 DEF TreeReads

LEMMA ConditionsEvaluate ==
    \A t \in Conditions :
        /\ Eval(Context, Written(Conditions)[t]).ok
        /\ Eval(Context, Written(Conditions)[t]).v = Meaning(Context, Conditions)[t]
<1>0. PICK W, V : W = Written(Conditions) /\ V = Meaning(Context, Conditions)
  OBVIOUS
<1>1. PICK T0, T1, T2 : T0 = Operands /\ T1 = Trees(T0) /\ T2 = Trees(T1) /\ T2 = Conditions
  BY DEF Conditions
<1>2. T0 \subseteq T1 /\ T1 \subseteq T2
  BY <1>1 DEF Trees
<1>3. \A t \in T0 : Over(t, {}) /\ t[1] = "leaf"
  BY <1>1, OperandsAssumption DEF Leaf, Over
<1>4. \A t \in T1 : t \in T0 \/ Over(t, T0)
  BY <1>1, TreesAreOver
<1>5. \A t \in T2 : t \in T1 \/ Over(t, T1)
  BY <1>1, TreesAreOver
<1>6. Layered(T0, T1, T2)
  BY <1>2, <1>3, <1>4, <1>5 DEF Layered, Over
<1>7. \A t \in T2 : W[t] = WrittenAt(W, t) /\ V[t] = MeaningAt(Context, V, t)
  BY <1>0, <1>1, <1>6, WrittenFound, MeaningFound
<1>8. \A t \in T0 : TreeReads(Context, Tokens, W, V, t)
  BY <1>1, <1>2, <1>7, OperandReads
<1>9. \A p \in {"(", ")", "!", "==", "&&", "||"} : Punct(p) \in Tokens
  BY DEF Tokens
<1>10. \A t \in T1 : TreeReads(Context, Tokens, W, V, t)
  <2> SUFFICES ASSUME NEW t \in T1 PROVE TreeReads(Context, Tokens, W, V, t)
    OBVIOUS
  <2>1. CASE t[1] = "leaf"
    <3>1. t \in T0
      BY <1>1, <2>1 DEF Trees
    <3> QED BY <1>8, <3>1
  <2>2. CASE t[1] # "leaf"
    <3>1. Over(t, T0)
      BY <1>3, <1>4, <2>2
    <3>2. W[t] = WrittenAt(W, t) /\ V[t] = MeaningAt(Context, V, t)
      BY <1>2, <1>7
    <3> QED BY <1>8, <1>9, <2>2, <3>1, <3>2, OperatorTree
  <2> QED BY <2>1, <2>2
<1>11. \A t \in T2 : TreeReads(Context, Tokens, W, V, t)
  <2> SUFFICES ASSUME NEW t \in T2 PROVE TreeReads(Context, Tokens, W, V, t)
    OBVIOUS
  <2>1. CASE t \in T1
    BY <1>10, <2>1
  <2>2. CASE t \notin T1
    <3>0. \/ \E a \in T1 : t = <<"!", a>>
          \/ \E op \in {"||", "&&", "=="}, a, b \in T1 : t = <<op, a, b>>
      BY <1>1, <2>2 DEF Trees
    <3>1. Over(t, T1) /\ t[1] # "leaf"
      BY <3>0 DEF Over
    <3>2. W[t] = WrittenAt(W, t) /\ V[t] = MeaningAt(Context, V, t)
      BY <1>7
    <3> QED BY <1>9, <1>10, <3>1, <3>2, OperatorTree
  <2> QED BY <2>1, <2>2
<1>12. ASSUME NEW t \in T2 PROVE Eval(Context, W[t]).ok /\ Eval(Context, W[t]).v = V[t]
  <2>1. PICK w \in Seq(Tokens) : w = W[t]
    BY <1>11 DEF TreeReads
  <2>2. PICK b \in 1 .. 5 : b = Binding(t)
    BY DEF Binding
  <2>3. Reads(Context, Level(b), w, V[t])
    BY <1>11, <2>1, <2>2 DEF TreeReads
  <2>4. Reads(Context, "or", w, V[t])
    <3>1. \A i \in 1 .. b : Reads(Context, Level(i), w, V[t])
      BY <2>3, LooserReads
    <3>2. 1 \in 1 .. b /\ Level(1) = "or"
      BY DEF Level
    <3> QED BY <3>1, <3>2
  <2> QED BY <2>1, <2>4, ReadsEvaluates, OkFacts
<1> QED BY <1>0, <1>1, <1>12

-----------------------------------------------------------------------------
(* topological_order.                                                      *)

LEMMA BasesOf ==
    ASSUME NEW s, NEW b
    PROVE  b \in Bases(s) <=> \E c \in Elements(s) : c.base = b
BY DEF Bases, Elements

ReadyIn(w) == {c \in Elements(w.rest) : c.needs \subseteq Bases(w.ordered)}

InWaves(E, w) ==
    /\ w.ordered \in Seq(E) /\ w.rest \in Seq(E)
    /\ Distinct(w.ordered) /\ Distinct(w.rest)
    /\ Elements(w.ordered) \union Elements(w.rest) = E
    /\ \A c \in Elements(w.ordered), d \in Elements(w.rest) : c.base # d.base
    /\ \A c \in Elements(w.ordered) : c.needs \subseteq Bases(w.ordered)
    /\ \A i, k \in DOMAIN w.ordered : w.ordered[k].base \in w.ordered[i].needs => k < i

(* All cells of a job become ready at once, and none before those it needs.*)
LEMMA WaveStep ==
    ASSUME NEW E, NEW w, InWaves(E, w), \A c, d \in E : c.base = d.base => c.needs = d.needs
    PROVE  InWaves(E, Wave(w)) /\ Elements(Wave(w).rest) = Elements(w.rest) \ ReadyIn(w)
<1> DEFINE o == w.ordered
           r == w.rest
           R == ReadyIn(w)
           T == Elements(r) \ R
           p == Selected(r, R)
           o2 == o \o p
           r2 == Selected(r, T)
<1>0. /\ o \in Seq(E) /\ r \in Seq(E) /\ Distinct(o) /\ Distinct(r) /\ Elements(o) \union Elements(r) = E
      /\ \A c \in Elements(o), d \in Elements(r) : c.base # d.base
      /\ \A c \in Elements(o) : c.needs \subseteq Bases(o)
      /\ \A i, k \in DOMAIN o : o[k].base \in o[i].needs => k < i
  BY DEF InWaves
<1>1. Wave(w).ordered = o2 /\ Wave(w).rest = r2
  BY DEF Wave, ReadyIn
<1>2. \A c : c \in R <=> c \in Elements(r) /\ c.needs \subseteq Bases(o)
  BY DEF ReadyIn
<1> HIDE DEF o, r, R
<1>3. p \in Seq(E) /\ Elements(p) = Elements(r) \intersect R /\ Distinct(p)
  BY <1>0, SelectedFacts
<1>4. Elements(p) = R
  BY <1>2, <1>3
<1>5. r2 \in Seq(E) /\ Elements(r2) = Elements(r) \intersect T /\ Distinct(r2)
  <2> HIDE DEF T
  <2> QED BY <1>0, SelectedFacts
<1>6. Elements(r2) = T
  BY <1>5
<1>7. Elements(o) \intersect Elements(p) = {}
  BY <1>0, <1>2, <1>4
<1> HIDE DEF p, r2
<1>8. /\ o2 \in Seq(E) /\ Len(o2) = Len(o) + Len(p)
      /\ \A i \in 1 .. Len(o) : o2[i] = o[i]
      /\ \A i \in 1 .. Len(p) : o2[Len(o) + i] = p[i]
      /\ Elements(o2) = Elements(o) \union Elements(p)
      /\ Distinct(o2)
  BY <1>0, <1>3, <1>7, ConcatFacts
<1> HIDE DEF o2
<1>9. Elements(o2) \union Elements(r2) = E
  BY <1>0, <1>2, <1>4, <1>6, <1>8
<1>10. ASSUME NEW c \in Elements(o2), NEW d \in Elements(r2) PROVE c.base # d.base
  <2>1. d \in Elements(r) /\ d \notin R /\ d \in E
    BY <1>0, <1>6
  <2>2. CASE c \in Elements(o)
    BY <1>0, <2>1, <2>2
  <2>3. CASE c \in R
    <3>1. c \in E /\ c.needs \subseteq Bases(o) /\ ~(d.needs \subseteq Bases(o))
      BY <1>0, <1>2, <2>1, <2>3
    <3> QED BY <2>1, <3>1
  <2> QED BY <1>4, <1>8, <2>2, <2>3
<1>11. Bases(o) \subseteq Bases(o2)
  BY <1>8, BasesOf
<1>12. ASSUME NEW c \in Elements(o2) PROVE c.needs \subseteq Bases(o)
  BY <1>0, <1>2, <1>4, <1>8
<1>13. ASSUME NEW i \in DOMAIN o2, NEW k \in DOMAIN o2, o2[k].base \in o2[i].needs PROVE k < i
  <2>0. Len(o) \in Nat /\ Len(p) \in Nat /\ DOMAIN o = 1 .. Len(o) /\ DOMAIN o2 = 1 .. Len(o) + Len(p)
    BY <1>0, <1>3, <1>8
  <2>1. o2[i] \in Elements(o2)
    BY DEF Elements
  <2>2. o2[k].base \in Bases(o)
    BY <1>12, <1>13, <2>1
  <2>3. k \in 1 .. Len(o)
    <3> SUFFICES ASSUME k \notin 1 .. Len(o) PROVE FALSE
      OBVIOUS
    <3>1. PICK l \in 1 .. Len(p) : k = Len(o) + l
      <4>1. k - Len(o) \in 1 .. Len(p) /\ k = Len(o) + (k - Len(o))
        BY <2>0
      <4> QED BY <4>1
    <3>2. o2[k] = p[l] /\ p[l] \in Elements(p)
      <4>1. DOMAIN p = 1 .. Len(p)
        BY <1>3
      <4> QED BY <1>8, <3>1, <4>1 DEF Elements
    <3>3. PICK c \in Elements(o) : c.base = o2[k].base
      BY <2>2, BasesOf
    <3>4. o2[k] \in Elements(r)
      BY <1>2, <1>4, <3>2
    <3> QED BY <1>0, <3>3, <3>4
  <2>4. CASE i \in 1 .. Len(o)
    BY <1>0, <1>8, <1>13, <2>0, <2>3, <2>4
  <2>5. CASE i \notin 1 .. Len(o)
    BY <2>0, <2>3, <2>5
  <2> QED BY <2>4, <2>5
<1>14. \A c \in Elements(o2) : c.needs \subseteq Bases(o2)
  BY <1>11, <1>12
<1>15. InWaves(E, Wave(w))
  BY <1>1, <1>5, <1>8, <1>9, <1>10, <1>13, <1>14 DEF InWaves
<1> QED BY <1>1, <1>6, <1>15 DEF T, r, R

LEMMA WavesEquation ==
    ASSUME NEW cells, Len(cells) \in Nat
    PROVE  \A i \in 0 .. Len(cells) :
               Waves(cells)[i] = IF i = 0 THEN [ordered |-> <<>>, rest |-> cells] ELSE Wave(Waves(cells)[i - 1])
<1> DEFINE Is(g, n) == g = [i \in 0 .. n |-> IF i = 0 THEN [ordered |-> <<>>, rest |-> cells] ELSE Wave(g[i - 1])]
           G == {n \in Nat : \E g : Is(g, n)}
<1>1. 0 \in G
  <2> DEFINE g == [i \in 0 .. 0 |-> [ordered |-> <<>>, rest |-> cells]]
  <2>1. \A i \in 0 .. 0 : i = 0
    OBVIOUS
  <2>2. Is(g, 0)
    BY <2>1
  <2> QED BY <2>2
<1>2. ASSUME NEW n \in Nat, n \in G PROVE n + 1 \in G
  <2>1. PICK g : Is(g, n)
    BY <1>2
  <2> DEFINE h == [i \in 0 .. n + 1 |-> IF i = n + 1 THEN Wave(g[n]) ELSE g[i]]
  <2>2. ASSUME NEW i \in 0 .. n + 1 PROVE h[i] = IF i = 0 THEN [ordered |-> <<>>, rest |-> cells] ELSE Wave(h[i - 1])
    <3>1. CASE i = n + 1
      <4>1. i # 0 /\ i - 1 = n /\ n \in 0 .. n + 1 /\ n # n + 1
        BY <3>1
      <4>2. h[n] = g[n]
        BY <4>1
      <4> QED BY <3>1, <4>1, <4>2
    <3>2. CASE i # n + 1
      <4>1. i \in 0 .. n
        BY <3>2
      <4>2. g[i] = IF i = 0 THEN [ordered |-> <<>>, rest |-> cells] ELSE Wave(g[i - 1])
        BY <2>1, <4>1
      <4>3. i # 0 => i - 1 \in 0 .. n + 1 /\ i - 1 # n + 1
        BY <4>1
      <4>4. i # 0 => h[i - 1] = g[i - 1]
        BY <4>3
      <4>5. h[i] = g[i]
        BY <3>2
      <4> HIDE DEF h
      <4> QED BY <4>2, <4>4, <4>5
    <3> QED BY <3>1, <3>2
  <2>3. Is(h, n + 1)
    <3>1. h = [i \in 0 .. n + 1 |-> h[i]]
      OBVIOUS
    <3> HIDE DEF h
    <3> QED BY <2>2, <3>1
  <2> HIDE DEF h, Is
  <2> QED BY <2>3
<1>3. Len(cells) \in G
  <2>1. Len(cells) \in Nat
    OBVIOUS
  <2> HIDE DEF G
  <2> QED BY <1>1, <1>2, <2>1, NatSetInduction
<1>4. PICK g : Is(g, Len(cells))
  BY <1>3
<1>5. Waves(cells) = CHOOSE h : Is(h, Len(cells))
  BY DEF Waves
<1>6. Is(Waves(cells), Len(cells))
  <2> HIDE DEF Is
  <2> QED BY <1>4, <1>5
<1> QED BY <1>6

(* What Plan::build hands to topological_order.                            *)
CellsOk(cells) ==
    /\ IsList(cells)
    /\ \A i, k \in DOMAIN cells : cells[i].key = cells[k].key => i = k
    /\ \A c, d \in Elements(cells) : c.base = d.base => c.needs = d.needs

LEMMA WavesFacts ==
    ASSUME NEW cells, CellsOk(cells)
    PROVE  \A i \in 0 .. Len(cells) : InWaves(Elements(cells), Waves(cells)[i])
<1> DEFINE E == Elements(cells)
           N == Len(cells)
           W == Waves(cells)
           G == {i \in Nat : i <= N => InWaves(E, W[i])}
<1>0. N \in Nat /\ cells \in Seq(E) /\ Distinct(cells)
  BY DEF CellsOk, IsList, Distinct
<1>1. \A i \in 0 .. N : W[i] = IF i = 0 THEN [ordered |-> <<>>, rest |-> cells] ELSE Wave(W[i - 1])
  BY <1>0, WavesEquation
<1>2. \A c, d \in E : c.base = d.base => c.needs = d.needs
  BY DEF CellsOk
<1>e. Elements(cells) = E
  OBVIOUS
<1> HIDE DEF W, N, E
<1>3. 0 \in G
  <2>1. W[0] = [ordered |-> <<>>, rest |-> cells]
    BY <1>0, <1>1
  <2>2. W[0].ordered = <<>> /\ W[0].rest = cells
    BY <2>1
  <2>3. Elements(<<>>) = {} /\ DOMAIN <<>> = {} /\ <<>> \in Seq(E) /\ Distinct(<<>>)
    BY DEF Elements, Distinct
  <2>4. InWaves(E, W[0])
    BY <1>0, <1>e, <2>2, <2>3 DEF InWaves
  <2> QED BY <2>4
<1>4. ASSUME NEW i \in Nat, i \in G PROVE i + 1 \in G
  <2> SUFFICES ASSUME i + 1 <= N PROVE InWaves(E, W[i + 1])
    OBVIOUS
  <2>1. i <= N /\ i + 1 \in 0 .. N /\ i + 1 # 0 /\ (i + 1) - 1 = i
    BY <1>0
  <2>2. W[i + 1] = Wave(W[i])
    BY <1>1, <2>1
  <2> QED BY <1>2, <1>4, <2>1, <2>2, WaveStep
<1>5. ASSUME NEW i \in 0 .. N PROVE InWaves(E, W[i])
  <2>1. i \in Nat /\ i <= N
    BY <1>0
  <2>2. i \in G
    <3> HIDE DEF G
    <3> QED BY <1>3, <1>4, <2>1, NatSetInduction
  <2> QED BY <2>1, <2>2
<1> HIDE DEF G
<1> QED BY <1>5 DEF E, N, W

(* The claim of PlansAreRunnable, of a plan and the cells it is made of.   *)
Runnable(plan, cells) ==
    /\ Len(plan) = Len(cells) /\ Elements(plan) = Elements(cells)
    /\ \A i, k \in DOMAIN plan :
           /\ plan[i].key = plan[k].key => i = k
           /\ plan[k].base \in plan[i].needs => k < i

LEMMA OrderIsRunnable ==
    ASSUME NEW cells, CellsOk(cells), NEW plan, plan = TopologicalOrder(cells), plan # Stuck
    PROVE  Runnable(plan, cells)
<1> DEFINE E == Elements(cells)
           last == Waves(cells)[Len(cells)]
<1>0. Len(cells) \in Nat /\ cells \in Seq(E) /\ Distinct(cells)
  BY DEF CellsOk, IsList, Distinct
<1>1. InWaves(E, last)
  <2>1. Len(cells) \in 0 .. Len(cells)
    BY <1>0
  <2> QED BY <2>1, WavesFacts
<1>2. last.rest = <<>> /\ plan = last.ordered
  BY DEF TopologicalOrder, Stuck
<1>3. /\ plan \in Seq(E) /\ Distinct(plan) /\ Elements(plan) \union Elements(<<>>) = E
      /\ \A i, k \in DOMAIN plan : plan[k].base \in plan[i].needs => k < i
  <2> HIDE DEF last, E
  <2> QED BY <1>1, <1>2 DEF InWaves
<1>4. Elements(plan) = E
  <2>1. Elements(<<>>) = {}
    BY DEF Elements
  <2> HIDE DEF E
  <2> QED BY <1>3, <2>1
<1>5. Len(plan) = Len(cells)
  <2>1. Cardinality(Elements(plan)) = Len(plan)
    BY <1>3, ElementsFinite
  <2>2. Cardinality(Elements(cells)) = Len(cells)
    BY <1>0, ElementsFinite
  <2> QED BY <1>4, <2>1, <2>2
<1>6. ASSUME NEW i \in DOMAIN plan, NEW k \in DOMAIN plan, plan[i].key = plan[k].key PROVE i = k
  <2>1. plan[i] \in Elements(plan) /\ plan[k] \in Elements(plan)
    BY DEF Elements
  <2>2. PICK j \in DOMAIN cells : plan[i] = cells[j]
    BY <1>4, <2>1 DEF Elements
  <2>3. PICK l \in DOMAIN cells : plan[k] = cells[l]
    BY <1>4, <2>1 DEF Elements
  <2>4. j = l
    BY <1>6, <2>2, <2>3 DEF CellsOk
  <2> QED BY <1>3, <2>2, <2>3, <2>4 DEF Distinct
<1> QED BY <1>3, <1>4, <1>5, <1>6 DEF Runnable

LEMMA EmptyList ==
    ASSUME NEW C, NEW s \in Seq(C), Elements(s) = {}
    PROVE  s = <<>>
<1>1. DOMAIN s = {}
  BY DEF Elements
<1> QED BY <1>1

(* With ranked needs every round places a cell, so none is left.           *)
LEMMA RankedIsOrdered ==
    ASSUME NEW cells, CellsOk(cells), cells # <<>>, NEW J, NEW rank \in [J -> Nat],
           \A c \in Elements(cells) : c.base \in J /\ c.needs \subseteq J,
           \A n \in J : \E c \in Elements(cells) : c.base = n,
           \A c \in Elements(cells) : \A n \in c.needs : rank[n] < rank[c.base]
    PROVE  TopologicalOrder(cells) # Stuck
<1> DEFINE E == Elements(cells)
           N == Len(cells)
           W == Waves(cells)
           left(i) == Cardinality(Elements(W[i].rest))
           G == {i \in Nat : i <= N => left(i) <= N - i}
<1>0. N \in Nat /\ N > 0 /\ cells \in Seq(E) /\ Distinct(cells)
  BY DEF CellsOk, IsList, Distinct
<1>1. \A i \in 0 .. N : W[i] = IF i = 0 THEN [ordered |-> <<>>, rest |-> cells] ELSE Wave(W[i - 1])
  BY <1>0, WavesEquation
<1>2. \A i \in 0 .. N : InWaves(E, W[i])
  BY WavesFacts
<1>3. \A c, d \in E : c.base = d.base => c.needs = d.needs
  BY DEF CellsOk
<1>f. \A i \in 0 .. N : IsFiniteSet(Elements(W[i].rest)) /\ left(i) \in Nat
  <2> SUFFICES ASSUME NEW i \in 0 .. N PROVE IsFiniteSet(Elements(W[i].rest)) /\ left(i) \in Nat
    OBVIOUS
  <2>1. W[i].rest \in Seq(E)
    BY <1>2 DEF InWaves
  <2> QED BY <2>1, ElementsFinite
<1>4. 0 \in G
  <2>1. W[0] = [ordered |-> <<>>, rest |-> cells]
    BY <1>0, <1>1
  <2>2. W[0].rest = cells
    BY <2>1
  <2>3. Cardinality(Elements(cells)) <= Len(cells)
    BY <1>0, ElementsFinite
  <2>4. left(0) <= N
    BY <2>2, <2>3
  <2> HIDE DEF left, N
  <2> QED BY <1>0, <2>4
<1>5. ASSUME NEW i \in Nat, i \in G PROVE i + 1 \in G
  <2> SUFFICES ASSUME i + 1 <= N PROVE left(i + 1) <= N - (i + 1)
    OBVIOUS
  <2>1. i <= N /\ i \in 0 .. N /\ i + 1 \in 0 .. N /\ i + 1 # 0 /\ (i + 1) - 1 = i
    BY <1>0
  <2>2. W[i + 1] = Wave(W[i])
    BY <1>1, <2>1
  <2>3. left(i) <= N - i
    BY <1>5, <2>1
  <2> HIDE DEF G
  <2> DEFINE R == Elements(W[i].rest)
             R2 == Elements(W[i + 1].rest)
  <2>4. R2 = R \ ReadyIn(W[i]) /\ InWaves(E, W[i])
    BY <1>2, <1>3, <2>1, <2>2, WaveStep
  <2>5. IsFiniteSet(R) /\ IsFiniteSet(R2) /\ left(i) \in Nat /\ left(i + 1) \in Nat
    BY <1>f, <2>1
  <2>6. CASE R = {}
    <3>1. R2 = {}
      BY <2>4, <2>6
    <3>2. left(i + 1) = 0
      BY <3>1, FS_EmptySet
    <3> HIDE DEF left, N
    <3> QED BY <1>0, <2>1, <3>2
  <2>7. CASE R # {}
    <3> DEFINE ranks == {rank[c.base] : c \in R}
    <3>0. R \subseteq E
      BY <2>4 DEF InWaves
    <3> HIDE DEF R
    <3>1. ranks \in SUBSET Nat /\ ranks # {}
      BY <2>7, <3>0
    <3>2. PICK m \in ranks : \A k \in ranks : m <= k
      <4> HIDE DEF ranks
      <4> QED BY <3>1, LeastNumber
    <3>3. PICK c \in R : rank[c.base] = m
      OBVIOUS
    <3>4. ASSUME NEW n \in c.needs PROVE n \in Bases(W[i].ordered)
      <4>1. n \in J /\ rank[n] < m /\ rank[n] \in Nat /\ m \in Nat
        BY <3>0, <3>1, <3>3
      <4>2. PICK d \in E : d.base = n
        BY <4>1
      <4>3. d \notin R
        <5> SUFFICES ASSUME d \in R PROVE FALSE
          OBVIOUS
        <5>1. rank[d.base] \in ranks
          OBVIOUS
        <5>2. m <= rank[d.base]
          <6> HIDE DEF ranks
          <6> QED BY <3>2, <5>1
        <5> QED BY <4>1, <4>2, <5>2
      <4>4. d \in Elements(W[i].ordered)
        BY <2>4, <4>3 DEF InWaves, R
      <4> QED BY <4>2, <4>4, BasesOf
    <3>5. c \in ReadyIn(W[i])
      BY <3>3, <3>4 DEF ReadyIn, R
    <3>6. R2 \subseteq R /\ c \notin R2
      BY <2>4, <3>5 DEF R
    <3>7. Cardinality(R2) <= Cardinality(R) /\ (Cardinality(R) = Cardinality(R2) => R = R2)
      <4> HIDE DEF R2
      <4> QED BY <2>5, <3>6, FS_Subset
    <3>8. Cardinality(R) # Cardinality(R2)
      BY <3>3, <3>6, <3>7
    <3>9. left(i) = Cardinality(R) /\ left(i + 1) = Cardinality(R2)
      BY DEF R
    <3> HIDE DEF left, R2, N
    <3> QED BY <1>0, <2>1, <2>3, <2>5, <3>7, <3>8, <3>9
  <2> QED BY <2>6, <2>7
<1>6. N \in G
  <2> HIDE DEF G, N
  <2> QED BY <1>0, <1>4, <1>5, NatSetInduction
<1>7. left(N) <= N - N /\ N \in 0 .. N /\ left(N) \in Nat
  <2>1. N <= N /\ N \in 0 .. N
    BY <1>0
  <2> QED BY <1>6, <1>f, <2>1
<1>8. left(N) = 0
  <2> HIDE DEF left, N
  <2> QED BY <1>0, <1>7
<1>9. Elements(W[N].rest) = {}
  BY <1>7, <1>8, <1>f, FS_EmptySet
<1>10. /\ W[N].rest \in Seq(E) /\ W[N].ordered \in Seq(E)
       /\ Elements(W[N].ordered) \union Elements(W[N].rest) = E
  BY <1>2, <1>7 DEF InWaves
<1>11. W[N].rest = <<>>
  <2> HIDE DEF E, N, W
  <2> QED BY <1>9, <1>10, EmptyList
<1>12. W[N].ordered # <<>>
  <2>1. cells[1] \in E
    <3>1. 1 \in DOMAIN cells
      BY <1>0
    <3> QED BY <3>1 DEF Elements
  <2>2. Elements(<<>>) = {}
    BY DEF Elements
  <2> HIDE DEF E, W, N
  <2> QED BY <1>9, <1>10, <2>1, <2>2
<1> QED BY <1>11, <1>12 DEF TopologicalOrder, Stuck

-----------------------------------------------------------------------------
(* unique_key and the cells of a plan.                                     *)

LEMMA LastAppended ==
    ASSUME NEW s, IsList(s), NEW x, NEW y, Append(s, x) = Append(s, y)
    PROVE  x = y
<1> DEFINE C == Elements(s) \union {x, y}
<1>1. s \in Seq(C) /\ x \in C /\ y \in C
  BY ListOfElements DEF IsList
<1> HIDE DEF C
<1>2. Append(s, x)[Len(s) + 1] = x /\ Append(s, y)[Len(s) + 1] = y
  BY <1>1, AppendFacts
<1> QED BY <1>2

(* There is a free number among one more than there are keys.              *)
LEMMA KeyIsFree ==
    ASSUME NEW base, IsList(base), NEW cell, NEW index \in Nat, NEW used, IsFiniteSet(used),
           index + Cardinality(used) <= MaxIndex
    PROVE  UniqueKey(base, cell, index, used) \notin used
<1> DEFINE c == Cardinality(used)
           I == index .. index + c
           numbered(n) == Append(base, Decimal(n))
           free == {n \in I : numbered(n) \notin used}
           readable == base \o Suffix(cell)
<1>0. c \in Nat
  BY FS_CardinalityType
<1>1. free # {}
  <2> SUFFICES ASSUME free = {} PROVE FALSE
    OBVIOUS
  <2> DEFINE f == [n \in I |-> numbered(n)]
  <2> HIDE DEF c
  <2>1. IsFiniteSet(I) /\ Cardinality(I) = c + 1
    <3>1. index \in Int /\ index + c \in Int /\ ~(index > index + c) /\ (index + c) - index + 1 = c + 1
      BY <1>0
    <3> QED BY <3>1, FS_Interval
  <2>2. c < Cardinality(I)
    BY <1>0, <2>1
  <2>3. f \in [I -> used]
    OBVIOUS
  <2>4. PICK x \in I, y \in I : x # y /\ f[x] = f[y]
    <3> HIDE DEF I, f
    <3> QED BY <2>1, <2>2, <2>3, FS_PigeonHole DEF c
  <2>5. Decimal(x) = Decimal(y)
    <3>1. Append(base, Decimal(x)) = Append(base, Decimal(y))
      BY <2>4
    <3> QED BY <3>1, LastAppended
  <2>6. x \in 0 .. MaxIndex /\ y \in 0 .. MaxIndex
    <3>1. index + c <= MaxIndex /\ MaxIndex \in Nat
      BY NumbersAssumption DEF c
    <3> QED BY <1>0, <3>1
  <2> QED BY <2>4, <2>5, <2>6, NumbersAssumption
<1>2. free \in SUBSET Nat
  <2> HIDE DEF c
  <2> QED BY <1>0
<1> DEFINE least == CHOOSE n \in free : \A m \in free : n <= m
<1>3. least \in free
  <2> HIDE DEF free
  <2>1. \E n \in free : \A m \in free : n <= m
    BY <1>1, <1>2, LeastNumber
  <2> QED BY <2>1
<1>4. numbered(least) \notin used
  <2> HIDE DEF least
  <2> QED BY <1>3
<1>5. UniqueKey(base, cell, index, used) =
          IF Len(readable) <= MaxKey /\ readable \notin used THEN readable ELSE numbered(least)
  BY DEF UniqueKey
<1> HIDE DEF readable, least
<1> QED BY <1>4, <1>5

LEMMA ExpandIsList ==
    ASSUME NEW m, IsMatrix(m)
    PROVE  IsList(ExpandMatrix(m)) /\ Len(ExpandMatrix(m)) \in Nat
<1>1. CASE \E a \in DOMAIN m.axes : m.axes[a] = <<>>
  <2>1. ExpandMatrix(m) = <<>>
    BY <1>1 DEF ExpandMatrix
  <2> QED BY <2>1 DEF IsList, Elements
<1>2. CASE \A a \in DOMAIN m.axes : m.axes[a] # <<>>
  <2>1. IsList(ExpandMatrix(m))
    BY <1>2, ExpandMatrixIsExact
  <2> QED BY <2>1 DEF IsList
<1> QED BY <1>1, <1>2

LEMMA AddEquation ==
    ASSUME NEW job, NEW cells, Len(cells) \in Nat, NEW before
    PROVE  \A i \in 0 .. Len(cells) :
               AddCells(job, cells, before)[i] = IF i = 0 THEN before ELSE Append(AddCells(job, cells, before)[i - 1], CellOf(job, cells[i], i, AddCells(job, cells, before)[i - 1]))
<1> DEFINE Is(g, n) == g = [i \in 0 .. n |-> IF i = 0 THEN before ELSE Append(g[i - 1], CellOf(job, cells[i], i, g[i - 1]))]
           G == {n \in Nat : \E g : Is(g, n)}
<1>1. 0 \in G
  <2> DEFINE g == [i \in 0 .. 0 |-> before]
  <2>1. \A i \in 0 .. 0 : i = 0
    OBVIOUS
  <2>2. Is(g, 0)
    BY <2>1
  <2> QED BY <2>2
<1>2. ASSUME NEW n \in Nat, n \in G PROVE n + 1 \in G
  <2>1. PICK g : Is(g, n)
    BY <1>2
  <2> DEFINE h == [i \in 0 .. n + 1 |-> IF i = n + 1 THEN Append(g[n], CellOf(job, cells[n + 1], n + 1, g[n])) ELSE g[i]]
  <2>2. ASSUME NEW i \in 0 .. n + 1 PROVE h[i] = IF i = 0 THEN before ELSE Append(h[i - 1], CellOf(job, cells[i], i, h[i - 1]))
    <3>1. CASE i = n + 1
      <4>1. i # 0 /\ i - 1 = n /\ n \in 0 .. n + 1 /\ n # n + 1
        BY <3>1
      <4>2. h[n] = g[n]
        BY <4>1
      <4> QED BY <3>1, <4>1, <4>2
    <3>2. CASE i # n + 1
      <4>1. i \in 0 .. n
        BY <3>2
      <4>2. g[i] = IF i = 0 THEN before ELSE Append(g[i - 1], CellOf(job, cells[i], i, g[i - 1]))
        BY <2>1, <4>1
      <4>3. i # 0 => i - 1 \in 0 .. n + 1 /\ i - 1 # n + 1
        BY <4>1
      <4>4. i # 0 => h[i - 1] = g[i - 1]
        BY <4>3
      <4>5. h[i] = g[i]
        BY <3>2
      <4> HIDE DEF h
      <4> QED BY <4>2, <4>4, <4>5
    <3> QED BY <3>1, <3>2
  <2>3. Is(h, n + 1)
    <3>1. h = [i \in 0 .. n + 1 |-> h[i]]
      OBVIOUS
    <3> HIDE DEF h
    <3> QED BY <2>2, <3>1
  <2> HIDE DEF h, Is
  <2> QED BY <2>3
<1>3. Len(cells) \in G
  <2>1. Len(cells) \in Nat
    OBVIOUS
  <2> HIDE DEF G
  <2> QED BY <1>1, <1>2, <2>1, NatSetInduction
<1>4. PICK g : Is(g, Len(cells))
  BY <1>3
<1>5. AddCells(job, cells, before) = CHOOSE h : Is(h, Len(cells))
  BY DEF AddCells
<1>6. Is(AddCells(job, cells, before), Len(cells))
  <2> HIDE DEF Is
  <2> QED BY <1>4, <1>5
<1> QED BY <1>6

JobCells(job, before) ==
    AddCells(job, ExpandMatrix(job.matrix), before)[Len(ExpandMatrix(job.matrix))]

LEMMA CellsEquation ==
    ASSUME NEW wf, Len(wf.jobs) \in Nat
    PROVE  \A i \in 0 .. Len(wf.jobs) :
               CellsUpto(wf)[i] = IF i = 0 THEN <<>> ELSE JobCells(wf.jobs[i], CellsUpto(wf)[i - 1])
<1> DEFINE Is(g, n) == g = [i \in 0 .. n |-> IF i = 0 THEN <<>> ELSE JobCells(wf.jobs[i], g[i - 1])]
           G == {n \in Nat : \E g : Is(g, n)}
<1>1. 0 \in G
  <2> DEFINE g == [i \in 0 .. 0 |-> <<>>]
  <2>1. \A i \in 0 .. 0 : i = 0
    OBVIOUS
  <2>2. Is(g, 0)
    BY <2>1
  <2> QED BY <2>2
<1>2. ASSUME NEW n \in Nat, n \in G PROVE n + 1 \in G
  <2>1. PICK g : Is(g, n)
    BY <1>2
  <2> DEFINE h == [i \in 0 .. n + 1 |-> IF i = n + 1 THEN JobCells(wf.jobs[n + 1], g[n]) ELSE g[i]]
  <2>2. ASSUME NEW i \in 0 .. n + 1 PROVE h[i] = IF i = 0 THEN <<>> ELSE JobCells(wf.jobs[i], h[i - 1])
    <3>1. CASE i = n + 1
      <4>1. i # 0 /\ i - 1 = n /\ n \in 0 .. n + 1 /\ n # n + 1
        BY <3>1
      <4>2. h[n] = g[n]
        BY <4>1
      <4> QED BY <3>1, <4>1, <4>2
    <3>2. CASE i # n + 1
      <4>1. i \in 0 .. n
        BY <3>2
      <4>2. g[i] = IF i = 0 THEN <<>> ELSE JobCells(wf.jobs[i], g[i - 1])
        BY <2>1, <4>1
      <4>3. i # 0 => i - 1 \in 0 .. n + 1 /\ i - 1 # n + 1
        BY <4>1
      <4>4. i # 0 => h[i - 1] = g[i - 1]
        BY <4>3
      <4>5. h[i] = g[i]
        BY <3>2
      <4> HIDE DEF h
      <4> QED BY <4>2, <4>4, <4>5
    <3> QED BY <3>1, <3>2
  <2>3. Is(h, n + 1)
    <3>1. h = [i \in 0 .. n + 1 |-> h[i]]
      OBVIOUS
    <3> HIDE DEF h
    <3> QED BY <2>2, <3>1
  <2> HIDE DEF h, Is
  <2> QED BY <2>3
<1>3. Len(wf.jobs) \in G
  <2>1. Len(wf.jobs) \in Nat
    OBVIOUS
  <2> HIDE DEF G
  <2> QED BY <1>1, <1>2, <2>1, NatSetInduction
<1>4. PICK g : Is(g, Len(wf.jobs))
  BY <1>3
<1>5. CellsUpto(wf) = CHOOSE h : Is(h, Len(wf.jobs))
  BY DEF CellsUpto, JobCells
<1>6. Is(CellsUpto(wf), Len(wf.jobs))
  <2> HIDE DEF Is
  <2> QED BY <1>4, <1>5
<1> QED BY <1>6

LEMMA ListAppend ==
    ASSUME NEW s, IsList(s), NEW e
    PROVE  /\ IsList(Append(s, e)) /\ Len(Append(s, e)) = Len(s) + 1 /\ Len(s) \in Nat
           /\ DOMAIN s = 1 .. Len(s) /\ DOMAIN Append(s, e) = 1 .. Len(s) + 1
           /\ \A i \in 1 .. Len(s) : Append(s, e)[i] = s[i]
           /\ Append(s, e)[Len(s) + 1] = e
           /\ Elements(Append(s, e)) = Elements(s) \union {e}
<1> DEFINE C == Elements(s) \union {e}
<1>1. s \in Seq(C) /\ e \in C
  BY ListOfElements DEF IsList
<1> HIDE DEF C
<1>2. /\ Append(s, e) \in Seq(C) /\ Len(Append(s, e)) = Len(s) + 1
      /\ \A i \in 1 .. Len(s) : Append(s, e)[i] = s[i]
      /\ Append(s, e)[Len(s) + 1] = e
      /\ Elements(Append(s, e)) = Elements(s) \union {e}
  BY <1>1, AppendFacts
<1>3. IsList(Append(s, e))
  BY <1>2, ListOfElements
<1>4. Len(s) \in Nat /\ DOMAIN s = 1 .. Len(s) /\ DOMAIN Append(s, e) = 1 .. Len(s) + 1
  BY <1>1, <1>2
<1> QED BY <1>2, <1>3, <1>4

(* A job's cells come after the ones there are, and all are of that job.   *)
Added(job, before, s, k) ==
    /\ IsList(s) /\ Len(s) = Len(before) + k
    /\ Elements(before) \subseteq Elements(s)
    /\ \A c \in Elements(s) :
           c \in Elements(before) \/ (c.base = job.id /\ c.needs = Elements(job.needs))
    /\ k > 0 => \E c \in Elements(s) : c.base = job.id

LEMMA AddedFacts ==
    ASSUME NEW job, NEW cells, Len(cells) \in Nat, NEW before, IsList(before)
    PROVE  \A k \in 0 .. Len(cells) : Added(job, before, AddCells(job, cells, before)[k], k)
<1> DEFINE N == Len(cells)
           A == AddCells(job, cells, before)
           G == {k \in Nat : k <= N => Added(job, before, A[k], k)}
<1>0. N \in Nat /\ Len(before) \in Nat
  BY DEF IsList
<1>1. \A k \in 0 .. N : A[k] = IF k = 0 THEN before ELSE Append(A[k - 1], CellOf(job, cells[k], k, A[k - 1]))
  BY <1>0, AddEquation
<1> HIDE DEF N, A
<1>2. 0 \in G
  <2>1. A[0] = before
    BY <1>0, <1>1
  <2>2. Added(job, before, before, 0)
    BY <1>0 DEF Added
  <2> QED BY <2>1, <2>2
<1>3. ASSUME NEW k \in Nat, k \in G PROVE k + 1 \in G
  <2> SUFFICES ASSUME k + 1 <= N PROVE Added(job, before, A[k + 1], k + 1)
    OBVIOUS
  <2>1. k <= N /\ k + 1 \in 0 .. N /\ k + 1 # 0 /\ (k + 1) - 1 = k
    BY <1>0
  <2>2. Added(job, before, A[k], k)
    BY <1>3, <2>1
  <2> HIDE DEF G
  <2>3. PICK s : s = A[k]
    OBVIOUS
  <2>4. PICK c : c = CellOf(job, cells[k + 1], k + 1, s)
    OBVIOUS
  <2>5. A[k + 1] = Append(s, c)
    BY <1>1, <2>1, <2>3, <2>4
  <2>6. c.base = job.id /\ c.needs = Elements(job.needs)
    BY <2>4 DEF CellOf
  <2>7. Added(job, before, s, k)
    BY <2>2, <2>3
  <2>8. IsList(Append(s, c)) /\ Len(Append(s, c)) = Len(s) + 1 /\ Elements(Append(s, c)) = Elements(s) \union {c}
    BY <2>7, ListAppend DEF Added
  <2>9. Len(s) + 1 = Len(before) + (k + 1)
    BY <1>0, <2>7 DEF Added
  <2>10. Added(job, before, Append(s, c), k + 1)
    BY <2>6, <2>7, <2>8, <2>9 DEF Added
  <2> QED BY <2>5, <2>10
<1>4. ASSUME NEW k \in 0 .. N PROVE Added(job, before, A[k], k)
  <2>1. k \in Nat /\ k <= N
    BY <1>0
  <2>2. k \in G
    <3> HIDE DEF G
    <3> QED BY <1>2, <1>3, <2>1, NatSetInduction
  <2> QED BY <2>1, <2>2
<1> HIDE DEF G
<1> QED BY <1>4 DEF N, A

DistinctKeys(s) == \A i, k \in DOMAIN s : s[i].key = s[k].key => i = k

LEMMA KeysFinite ==
    ASSUME NEW s, IsList(s)
    PROVE  IsFiniteSet(Keys(s)) /\ Cardinality(Keys(s)) \in Nat /\ Cardinality(Keys(s)) <= Len(s)
<1> DEFINE t == [n \in 1 .. Len(s) |-> s[n].key]
<1>1. Len(s) \in Nat /\ DOMAIN s = 1 .. Len(s)
  BY DEF IsList
<1>2. DOMAIN t = 1 .. Len(s) /\ Elements(t) = Keys(s) /\ t = [n \in 1 .. Len(s) |-> t[n]]
  BY <1>1 DEF Elements, Keys
<1> HIDE DEF t
<1>3. IsList(t) /\ Len(t) = Len(s)
  BY <1>1, <1>2, ListOfDomain
<1>4. t \in Seq(Elements(t))
  BY <1>3 DEF IsList
<1>5. /\ IsFiniteSet(Elements(t)) /\ Cardinality(Elements(t)) \in Nat
      /\ Cardinality(Elements(t)) <= Len(t)
  BY <1>4, ElementsFinite
<1> QED BY <1>2, <1>3, <1>5

LEMMA AddedKeys ==
    ASSUME NEW job, IsList(job.id), NEW cells, Len(cells) \in Nat, NEW before, IsList(before),
           DistinctKeys(before), NEW M \in Nat, 2 * M <= MaxIndex, Len(before) + Len(cells) <= M
    PROVE  \A k \in 0 .. Len(cells) : DistinctKeys(AddCells(job, cells, before)[k])
<1> DEFINE N == Len(cells)
           A == AddCells(job, cells, before)
           G == {k \in Nat : k <= N => DistinctKeys(A[k])}
<1>0. N \in Nat /\ Len(before) \in Nat /\ Len(before) + N <= M /\ MaxIndex \in Nat
  BY NumbersAssumption DEF IsList
<1>1. \A k \in 0 .. N : A[k] = IF k = 0 THEN before ELSE Append(A[k - 1], CellOf(job, cells[k], k, A[k - 1]))
  BY <1>0, AddEquation
<1>a. \A k \in 0 .. N : IsList(A[k]) /\ Len(A[k]) = Len(before) + k
  <2>1. \A k \in 0 .. N : Added(job, before, A[k], k)
    BY <1>0, AddedFacts
  <2> QED BY <2>1 DEF Added
<1> HIDE DEF N, A
<1>2. 0 \in G
  <2>1. A[0] = before
    BY <1>0, <1>1
  <2> QED BY <2>1
<1>3. ASSUME NEW k \in Nat, k \in G PROVE k + 1 \in G
  <2> SUFFICES ASSUME k + 1 <= N PROVE DistinctKeys(A[k + 1])
    OBVIOUS
  <2>1. k <= N /\ k \in 0 .. N /\ k + 1 \in 0 .. N /\ k + 1 # 0 /\ (k + 1) - 1 = k
    BY <1>0
  <2>2. DistinctKeys(A[k]) /\ IsList(A[k]) /\ Len(A[k]) = Len(before) + k
    BY <1>3, <1>a, <2>1
  <2> HIDE DEF G
  <2>3. PICK s : s = A[k]
    OBVIOUS
  <2>4. PICK c : c = CellOf(job, cells[k + 1], k + 1, s)
    OBVIOUS
  <2>5. A[k + 1] = Append(s, c)
    BY <1>1, <2>1, <2>3, <2>4
  <2>6. c.key = UniqueKey(job.id, cells[k + 1], k, Keys(s))
    BY <2>1, <2>4 DEF CellOf
  <2>7. IsFiniteSet(Keys(s)) /\ Cardinality(Keys(s)) \in Nat /\ Cardinality(Keys(s)) <= Len(s)
    BY <2>2, <2>3, KeysFinite
  <2>8. k + Cardinality(Keys(s)) <= MaxIndex
    <3>1. Len(s) = Len(before) + k
      BY <2>2, <2>3
    <3> QED BY <1>0, <2>1, <2>7, <3>1
  <2>9. c.key \notin Keys(s)
    BY <2>6, <2>7, <2>8, KeyIsFree
  <2>10. /\ DOMAIN s = 1 .. Len(s) /\ DOMAIN Append(s, c) = 1 .. Len(s) + 1 /\ Len(s) \in Nat
         /\ \A i \in 1 .. Len(s) : Append(s, c)[i] = s[i]
         /\ Append(s, c)[Len(s) + 1] = c
    BY <2>2, <2>3, ListAppend
  <2>11. \A i \in 1 .. Len(s) : s[i].key # c.key
    BY <2>9, <2>10 DEF Keys
  <2> DEFINE w == Append(s, c)
  <2> HIDE DEF w
  <2>12. ASSUME NEW i \in DOMAIN w, NEW j \in DOMAIN w, w[i].key = w[j].key PROVE i = j
    <3>1. (i \in 1 .. Len(s) \/ i = Len(s) + 1) /\ (j \in 1 .. Len(s) \/ j = Len(s) + 1)
      BY <2>10 DEF w
    <3>2. CASE i \in 1 .. Len(s) /\ j \in 1 .. Len(s)
      BY <2>2, <2>3, <2>10, <2>12, <3>2 DEF DistinctKeys, w
    <3> QED BY <2>10, <2>11, <2>12, <3>1, <3>2 DEF w
  <2> QED BY <2>5, <2>12 DEF DistinctKeys, w
<1>4. ASSUME NEW k \in 0 .. N PROVE DistinctKeys(A[k])
  <2>1. k \in Nat /\ k <= N
    BY <1>0
  <2>2. k \in G
    <3> HIDE DEF G
    <3> QED BY <1>2, <1>3, <2>1, NatSetInduction
  <2> QED BY <2>1, <2>2
<1> HIDE DEF G
<1> QED BY <1>4 DEF N, A

IsWorkflow(wf) ==
    /\ IsList(wf.jobs)
    /\ \A i \in DOMAIN wf.jobs :
           IsList(wf.jobs[i].id) /\ IsList(wf.jobs[i].needs) /\ IsMatrix(wf.jobs[i].matrix)
    /\ 2 * Len(Cells(wf)) <= MaxIndex

(* The cells of the first i jobs.                                          *)
OfJobs(wf, i, s) ==
    /\ IsList(s)
    /\ \A c \in Elements(s) :
           \E j \in 1 .. i : c.base = wf.jobs[j].id /\ c.needs = Elements(wf.jobs[j].needs)
    /\ \A j \in 1 .. i :
           ExpandMatrix(wf.jobs[j].matrix) # <<>> => \E c \in Elements(s) : c.base = wf.jobs[j].id

LEMMA CellsUptoFacts ==
    ASSUME NEW wf, IsWorkflow(wf)
    PROVE  /\ \A i \in 0 .. Len(wf.jobs) : OfJobs(wf, i, CellsUpto(wf)[i])
           /\ \A i \in 0 .. Len(wf.jobs) - 1 :
                  Len(CellsUpto(wf)[i + 1]) = Len(CellsUpto(wf)[i]) + Len(ExpandMatrix(wf.jobs[i + 1].matrix))
<1> DEFINE N == Len(wf.jobs)
           U == CellsUpto(wf)
           X(i) == ExpandMatrix(wf.jobs[i].matrix)
           G == {i \in Nat : i <= N => OfJobs(wf, i, U[i])}
<1>0. N \in Nat /\ DOMAIN wf.jobs = 1 .. N
  BY DEF IsWorkflow, IsList
<1>1. \A i \in 0 .. N : U[i] = IF i = 0 THEN <<>> ELSE JobCells(wf.jobs[i], U[i - 1])
  BY <1>0, CellsEquation
<1>2. \A i \in 1 .. N : IsList(X(i)) /\ Len(X(i)) \in Nat
  BY <1>0, ExpandIsList DEF IsWorkflow
<1> HIDE DEF N, U
<1>3. 0 \in G
  <2>1. U[0] = <<>> /\ 1 .. 0 = {}
    BY <1>0, <1>1
  <2>2. IsList(<<>>) /\ Elements(<<>>) = {}
    BY DEF IsList, Elements
  <2>3. OfJobs(wf, 0, <<>>)
    BY <2>1, <2>2 DEF OfJobs
  <2> QED BY <2>1, <2>3
<1>4. ASSUME NEW i \in Nat, i + 1 <= N, OfJobs(wf, i, U[i])
      PROVE  OfJobs(wf, i + 1, U[i + 1]) /\ Len(U[i + 1]) = Len(U[i]) + Len(X(i + 1))
  <2>1. i + 1 \in 0 .. N /\ i + 1 # 0 /\ (i + 1) - 1 = i /\ i + 1 \in 1 .. N
    BY <1>0, <1>4
  <2>2. PICK job : job = wf.jobs[i + 1]
    OBVIOUS
  <2>3. PICK x : x = X(i + 1)
    OBVIOUS
  <2>4. U[i + 1] = AddCells(job, x, U[i])[Len(x)]
    BY <1>1, <2>1, <2>2, <2>3 DEF JobCells
  <2>5. IsList(x) /\ Len(x) \in Nat /\ Len(x) \in 0 .. Len(x)
    BY <1>2, <2>1, <2>3
  <2>6. IsList(U[i])
    BY <1>4 DEF OfJobs
  <2>7. /\ IsList(U[i + 1]) /\ Len(U[i + 1]) = Len(U[i]) + Len(x)
        /\ Elements(U[i]) \subseteq Elements(U[i + 1])
        /\ \A c \in Elements(U[i + 1]) :
               c \in Elements(U[i]) \/ (c.base = job.id /\ c.needs = Elements(job.needs))
        /\ Len(x) > 0 => \E c \in Elements(U[i + 1]) : c.base = job.id
    <3>1. Added(job, U[i], U[i + 1], Len(x))
      BY <2>4, <2>5, <2>6, AddedFacts
    <3> QED BY <3>1 DEF Added
  <2>8. ASSUME NEW c \in Elements(U[i + 1])
        PROVE  \E j \in 1 .. i + 1 : c.base = wf.jobs[j].id /\ c.needs = Elements(wf.jobs[j].needs)
    <3>1. CASE c \in Elements(U[i])
      <4>1. PICK j \in 1 .. i : c.base = wf.jobs[j].id /\ c.needs = Elements(wf.jobs[j].needs)
        BY <1>4, <3>1 DEF OfJobs
      <4>2. j \in 1 .. i + 1
        OBVIOUS
      <4> QED BY <4>1, <4>2
    <3>2. CASE c.base = job.id /\ c.needs = Elements(job.needs)
      <4>1. i + 1 \in 1 .. i + 1
        OBVIOUS
      <4> QED BY <2>2, <3>2, <4>1
    <3> QED BY <2>7, <3>1, <3>2
  <2>9. ASSUME NEW j \in 1 .. i + 1, X(j) # <<>> PROVE \E c \in Elements(U[i + 1]) : c.base = wf.jobs[j].id
    <3>1. CASE j = i + 1
      <4>1. x # <<>> /\ x \in Seq(Elements(x))
        BY <2>3, <2>5, <2>9, <3>1 DEF IsList
      <4>2. Len(x) > 0
        BY <4>1
      <4> QED BY <2>2, <2>7, <3>1, <4>2
    <3>2. CASE j # i + 1
      <4>1. j \in 1 .. i
        BY <3>2
      <4>2. PICK c \in Elements(U[i]) : c.base = wf.jobs[j].id
        BY <1>4, <2>9, <4>1 DEF OfJobs
      <4> QED BY <2>7, <4>2
    <3> QED BY <3>1, <3>2
  <2> QED BY <2>3, <2>7, <2>8, <2>9 DEF OfJobs
<1>5. ASSUME NEW i \in Nat, i \in G PROVE i + 1 \in G
  <2> SUFFICES ASSUME i + 1 <= N PROVE OfJobs(wf, i + 1, U[i + 1])
    OBVIOUS
  <2>1. i <= N
    BY <1>0
  <2> QED BY <1>4, <1>5, <2>1
<1>6. ASSUME NEW i \in 0 .. N PROVE OfJobs(wf, i, U[i])
  <2>1. i \in Nat /\ i <= N
    BY <1>0
  <2>2. i \in G
    <3> HIDE DEF G
    <3> QED BY <1>3, <1>5, <2>1, NatSetInduction
  <2> QED BY <2>1, <2>2
<1>7. ASSUME NEW i \in 0 .. N - 1 PROVE Len(U[i + 1]) = Len(U[i]) + Len(X(i + 1))
  <2>1. i \in Nat /\ i + 1 <= N /\ i \in 0 .. N
    BY <1>0
  <2> QED BY <1>4, <1>6, <2>1
<1> HIDE DEF G
<1> QED BY <1>6, <1>7 DEF N, U

LEMMA CellsGrow ==
    ASSUME NEW wf, IsWorkflow(wf)
    PROVE  \A i \in 0 .. Len(wf.jobs) : Len(CellsUpto(wf)[i]) \in Nat /\ Len(CellsUpto(wf)[i]) <= Len(Cells(wf))
<1> DEFINE N == Len(wf.jobs)
           U == CellsUpto(wf)
           G == {d \in Nat : d <= N => Len(U[N - d]) <= Len(U[N])}
<1>0. N \in Nat /\ DOMAIN wf.jobs = 1 .. N
  BY DEF IsWorkflow, IsList
<1>1. \A i \in 0 .. N : Len(U[i]) \in Nat
  BY CellsUptoFacts DEF OfJobs, IsList
<1>2. \A i \in 0 .. N - 1 : Len(U[i]) <= Len(U[i + 1])
  <2> SUFFICES ASSUME NEW i \in 0 .. N - 1 PROVE Len(U[i]) <= Len(U[i + 1])
    OBVIOUS
  <2>1. Len(U[i + 1]) = Len(U[i]) + Len(ExpandMatrix(wf.jobs[i + 1].matrix))
    BY CellsUptoFacts
  <2>2. i + 1 \in 1 .. N /\ i \in 0 .. N
    <3> HIDE DEF N
    <3> QED BY <1>0
  <2>3. Len(ExpandMatrix(wf.jobs[i + 1].matrix)) \in Nat
    BY <1>0, <2>2, ExpandIsList DEF IsWorkflow
  <2>4. Len(U[i]) \in Nat
    BY <1>1, <2>2
  <2> HIDE DEF U
  <2>5. PICK a \in Nat : a = Len(U[i])
    BY <2>4
  <2>6. PICK b \in Nat : b = Len(ExpandMatrix(wf.jobs[i + 1].matrix))
    BY <2>3
  <2>7. a <= a + b
    OBVIOUS
  <2> QED BY <2>1, <2>5, <2>6, <2>7
<1> HIDE DEF N, U
<1>3. 0 \in G
  <2>1. N - 0 = N /\ N \in 0 .. N
    BY <1>0
  <2> QED BY <1>1, <2>1
<1>4. ASSUME NEW d \in Nat, d \in G PROVE d + 1 \in G
  <2> SUFFICES ASSUME d + 1 <= N PROVE Len(U[N - (d + 1)]) <= Len(U[N])
    OBVIOUS
  <2>1. PICK i \in 0 .. N - 1 : i = N - (d + 1)
    BY <1>0
  <2>2. i + 1 = N - d /\ d <= N /\ i \in 0 .. N /\ i + 1 \in 0 .. N /\ N \in 0 .. N
    BY <1>0, <2>1
  <2>3. Len(U[i + 1]) <= Len(U[N])
    BY <1>4, <2>2
  <2>4. Len(U[i]) <= Len(U[i + 1])
    BY <1>2
  <2>5. Len(U[i]) \in Nat /\ Len(U[i + 1]) \in Nat /\ Len(U[N]) \in Nat
    BY <1>1, <2>2
  <2>6. Len(U[i]) <= Len(U[N])
    BY <2>3, <2>4, <2>5
  <2> QED BY <2>1, <2>6
<1>5. ASSUME NEW i \in 0 .. N PROVE Len(U[i]) <= Len(U[N])
  <2>1. PICK d \in Nat : d = N - i
    BY <1>0
  <2>2. N - d = i /\ d <= N
    BY <1>0, <2>1
  <2>3. d \in G
    <3> HIDE DEF G
    <3> QED BY <1>3, <1>4, NatSetInduction
  <2> QED BY <2>2, <2>3
<1> HIDE DEF G
<1> QED BY <1>1, <1>5 DEF N, U, Cells

(* The keys of a workflow's cells are distinct.                            *)
LEMMA CellsHaveKeys ==
    ASSUME NEW wf, IsWorkflow(wf)
    PROVE  DistinctKeys(Cells(wf)) /\ OfJobs(wf, Len(wf.jobs), Cells(wf))
<1> DEFINE N == Len(wf.jobs)
           U == CellsUpto(wf)
           M == Len(Cells(wf))
           G == {i \in Nat : i <= N => DistinctKeys(U[i])}
<1>0. N \in Nat /\ DOMAIN wf.jobs = 1 .. N /\ N \in 0 .. N
  <2>1. N \in Nat /\ DOMAIN wf.jobs = 1 .. N
    BY DEF IsWorkflow, IsList
  <2> QED BY <2>1
<1>1. \A i \in 0 .. N : U[i] = IF i = 0 THEN <<>> ELSE JobCells(wf.jobs[i], U[i - 1])
  BY <1>0, CellsEquation
<1>2. \A i \in 0 .. N : OfJobs(wf, i, U[i]) /\ Len(U[i]) \in Nat /\ Len(U[i]) <= M
  BY CellsUptoFacts, CellsGrow
<1>3. M \in Nat /\ 2 * M <= MaxIndex
  <2>1. 2 * M <= MaxIndex
    BY DEF IsWorkflow
  <2>2. M \in Nat
    BY <1>0, <1>2 DEF Cells
  <2> QED BY <2>1, <2>2
<1>g. \A i \in 0 .. N - 1 : Len(U[i + 1]) = Len(U[i]) + Len(ExpandMatrix(wf.jobs[i + 1].matrix))
  BY CellsUptoFacts
<1> HIDE DEF N, U, M
<1>4. 0 \in G
  <2>1. U[0] = <<>>
    BY <1>0, <1>1
  <2>2. DistinctKeys(<<>>)
    BY DEF DistinctKeys
  <2> QED BY <2>1, <2>2
<1>5. ASSUME NEW i \in Nat, i \in G PROVE i + 1 \in G
  <2> SUFFICES ASSUME i + 1 <= N PROVE DistinctKeys(U[i + 1])
    OBVIOUS
  <2>1. i <= N /\ i \in 0 .. N /\ i + 1 \in 0 .. N /\ i + 1 # 0 /\ (i + 1) - 1 = i /\ i + 1 \in 1 .. N /\ i \in 0 .. N - 1
    BY <1>0
  <2>2. DistinctKeys(U[i]) /\ IsList(U[i])
    BY <1>2, <1>5, <2>1 DEF OfJobs
  <2> HIDE DEF G
  <2>3. PICK job : job = wf.jobs[i + 1]
    OBVIOUS
  <2>4. PICK x : x = ExpandMatrix(job.matrix)
    OBVIOUS
  <2>5. U[i + 1] = AddCells(job, x, U[i])[Len(x)]
    BY <1>1, <2>1, <2>3, <2>4 DEF JobCells
  <2>6. Len(x) \in Nat /\ Len(x) \in 0 .. Len(x) /\ IsList(job.id)
    <3>1. IsList(job.id) /\ IsMatrix(job.matrix)
      BY <1>0, <2>1, <2>3 DEF IsWorkflow
    <3>2. Len(x) \in Nat
      BY <2>4, <3>1, ExpandIsList
    <3> QED BY <3>1, <3>2
  <2>7. Len(U[i]) + Len(x) <= M
    <3>1. Len(U[i + 1]) = Len(U[i]) + Len(x)
      BY <1>g, <2>1, <2>3, <2>4
    <3>2. Len(U[i + 1]) <= M
      BY <1>2, <2>1
    <3> QED BY <3>1, <3>2
  <2> QED BY <1>3, <2>2, <2>5, <2>6, <2>7, AddedKeys
<1>6. N \in G
  <2> HIDE DEF G
  <2> QED BY <1>0, <1>4, <1>5, NatSetInduction
<1>7. DistinctKeys(U[N]) /\ OfJobs(wf, N, U[N])
  <2>1. N <= N
    BY <1>0
  <2> QED BY <1>0, <1>2, <1>6, <2>1
<1> HIDE DEF G
<1> QED BY <1>7 DEF U, N, Cells

(* Job ids are distinct, so the cells of one job have the same needs.      *)
LEMMA CellsAreOk ==
    ASSUME NEW wf, IsWorkflow(wf), Cardinality(Ids(wf)) = Len(wf.jobs)
    PROVE  CellsOk(Cells(wf))
<1> DEFINE N == Len(wf.jobs)
<1>0. N \in Nat /\ DOMAIN wf.jobs = 1 .. N
  BY DEF IsWorkflow, IsList
<1>1. DistinctKeys(Cells(wf)) /\ OfJobs(wf, N, Cells(wf))
  BY CellsHaveKeys
<1>2. \A i, k \in 1 .. N : wf.jobs[i].id = wf.jobs[k].id => i = k
  <2>1. IsList(wf.jobs)
    BY DEF IsWorkflow
  <2>2. \A i, k \in DOMAIN wf.jobs : wf.jobs[i].id = wf.jobs[k].id => i = k
    BY <2>1, IdsApart
  <2> QED BY <1>0, <2>2
<1> HIDE DEF N
<1>3. ASSUME NEW c \in Elements(Cells(wf)), NEW d \in Elements(Cells(wf)), c.base = d.base PROVE c.needs = d.needs
  <2>1. PICK i \in 1 .. N : c.base = wf.jobs[i].id /\ c.needs = Elements(wf.jobs[i].needs)
    BY <1>1 DEF OfJobs
  <2>2. PICK k \in 1 .. N : d.base = wf.jobs[k].id /\ d.needs = Elements(wf.jobs[k].needs)
    BY <1>1 DEF OfJobs
  <2>3. i = k
    BY <1>2, <1>3, <2>1, <2>2
  <2> QED BY <2>1, <2>2, <2>3
<1> QED BY <1>1, <1>3 DEF CellsOk, DistinctKeys, OfJobs

-----------------------------------------------------------------------------
(* find_cycle.  The visit ends: below a job one job more is open, and after*)
(* it the list is shorter.                                                 *)

HeadTail(s, C) == /\ Head(s) \in C /\ Tail(s) \in Seq(C) /\ Len(Tail(s)) + 1 = Len(s)
                  /\ Elements(s) = {Head(s)} \union Elements(Tail(s))

LEMMA HeadTailFacts ==
    ASSUME NEW C, NEW s \in Seq(C), s # <<>>
    PROVE  HeadTail(s, C)
<1>1. Len(s) \in Nat \ {0} /\ DOMAIN s = 1 .. Len(s) /\ Head(s) = s[1]
  OBVIOUS
<1>2. /\ Tail(s) \in Seq(C) /\ Len(Tail(s)) = Len(s) - 1
      /\ \A i \in 1 .. Len(s) - 1 : Tail(s)[i] = s[i + 1]
  OBVIOUS
<1>3. PICK t : t = Tail(s)
  OBVIOUS
<1>4. DOMAIN t = 1 .. Len(s) - 1 /\ \A i \in 1 .. Len(s) - 1 : t[i] = s[i + 1]
  BY <1>1, <1>2, <1>3
<1>5. ASSUME NEW i \in 1 .. Len(s) PROVE s[i] = s[1] \/ \E j \in DOMAIN t : t[j] = s[i]
  <2>1. CASE i = 1
    BY <2>1
  <2>2. CASE i # 1
    <3>1. i - 1 \in 1 .. Len(s) - 1 /\ (i - 1) + 1 = i
      BY <1>1, <2>2
    <3> QED BY <1>4, <3>1
  <2> QED BY <2>1, <2>2
<1>6. ASSUME NEW j \in DOMAIN t PROVE \E i \in 1 .. Len(s) : t[j] = s[i]
  <2>1. j + 1 \in 1 .. Len(s)
    BY <1>1, <1>4
  <2> QED BY <1>4, <2>1
<1>7. 1 \in 1 .. Len(s)
  BY <1>1
<1>8. Elements(s) = {s[1]} \union Elements(t)
  BY <1>1, <1>5, <1>6, <1>7 DEF Elements
<1>9. Head(s) \in C /\ Len(Tail(s)) + 1 = Len(s)
  BY <1>1, <1>2
<1> QED BY <1>1, <1>2, <1>3, <1>8, <1>9 DEF HeadTail

Closed(wf) ==
    /\ IsFiniteSet(Ids(wf))
    /\ \A n \in Ids(wf) : NeedsOf(wf, n) \in Lists(wf)
    /\ \E K \in Nat : \A todo \in Lists(wf) : Len(todo) <= K

LEMMA ListsFacts ==
    ASSUME NEW wf, IsList(wf.jobs), \A i \in DOMAIN wf.jobs : IsList(wf.jobs[i].needs),
           NEW todo \in Lists(wf), todo # <<>>
    PROVE  HeadTail(todo, Ids(wf)) /\ Tail(todo) \in Lists(wf)
<1>1. todo \in Seq(Ids(wf)) /\ Len(todo) \in Nat
  BY DEF Lists
<1>2. HeadTail(todo, Ids(wf))
  BY <1>1, HeadTailFacts
<1>3. PICK t : t = Tail(todo)
  OBVIOUS
<1>4. t \in Seq(Ids(wf)) /\ Len(t) + 1 = Len(todo) /\ Len(t) \in Nat
  <2>1. t \in Seq(Ids(wf)) /\ Len(t) + 1 = Len(todo)
    BY <1>2, <1>3 DEF HeadTail
  <2> QED BY <2>1
<1>5. \A k \in Nat : Len(todo) <= k => Len(t) <= k
  BY <1>1, <1>4
<1>6. Len(wf.jobs) \in Nat /\ \A i \in DOMAIN wf.jobs : Len(wf.jobs[i].needs) \in Nat
  BY DEF IsList
<1>7. Len(t) <= Len(wf.jobs) \/ \E i \in DOMAIN wf.jobs : Len(t) <= Len(wf.jobs[i].needs)
  <2>1. CASE Len(todo) <= Len(wf.jobs)
    BY <1>5, <1>6, <2>1
  <2>2. CASE \E i \in DOMAIN wf.jobs : Len(todo) <= Len(wf.jobs[i].needs)
    BY <1>5, <1>6, <2>2
  <2> QED BY <2>1, <2>2 DEF Lists
<1> QED BY <1>2, <1>3, <1>4, <1>7 DEF Lists

(* All lists are of jobs, so are the needs of one.                         *)
LEMMA WorkflowIsClosed ==
    ASSUME NEW wf, IsList(wf.jobs), \A i \in DOMAIN wf.jobs : IsList(wf.jobs[i].needs),
           \A i \in DOMAIN wf.jobs : \A n \in Elements(wf.jobs[i].needs) : n \in Ids(wf)
    PROVE  Closed(wf)
<1> DEFINE N == Len(wf.jobs)
           J == Ids(wf)
<1>0. N \in Nat /\ DOMAIN wf.jobs = 1 .. N /\ \A i \in 1 .. N : Len(wf.jobs[i].needs) \in Nat
  BY DEF IsList
<1>1. IsFiniteSet(J)
  <2>1. IsFiniteSet(1 .. N)
    BY <1>0, FS_Interval
  <2>2. PICK ids : ids = [i \in 1 .. N |-> wf.jobs[i].id]
    OBVIOUS
  <2>3. J = {ids[i] : i \in 1 .. N}
    BY <1>0, <2>2 DEF Ids
  <2>4. ids \in Surjection(1 .. N, J)
    BY <2>2, <2>3 DEF Surjection
  <2> HIDE DEF N, J
  <2> QED BY <2>1, <2>4, FS_Surjection
<1>2. ASSUME NEW n \in J PROVE NeedsOf(wf, n) \in Lists(wf)
  <2>1. PICK i \in 1 .. N : wf.jobs[i].id = n
    BY <1>0 DEF Ids
  <2>2. PICK j \in {wf.jobs[k] : k \in DOMAIN wf.jobs} : j.id = n /\ NeedsOf(wf, n) = j.needs
    BY <1>0, <2>1 DEF NeedsOf
  <2>3. PICK k \in DOMAIN wf.jobs : j = wf.jobs[k]
    BY <2>2
  <2>4. PICK needs : needs = wf.jobs[k].needs
    OBVIOUS
  <2>5. needs \in Seq(Elements(needs)) /\ Elements(needs) \subseteq J
    BY <2>3, <2>4 DEF IsList
  <2>6. needs \in Seq(J) /\ Len(needs) <= Len(needs)
    <3>1. needs \in Seq(J)
      <4> HIDE DEF J
      <4> QED BY <2>5, SeqMonotonic
    <3> HIDE DEF J
    <3> QED BY <3>1
  <2> QED BY <2>2, <2>3, <2>4, <2>6 DEF Lists
<1>3. \E K \in Nat : \A todo \in Lists(wf) : Len(todo) <= K
  <2> DEFINE S == {N} \union {Len(wf.jobs[i].needs) : i \in 1 .. N}
  <2>1. PICK f : f = [i \in 0 .. N |-> IF i = 0 THEN N ELSE Len(wf.jobs[i].needs)]
    OBVIOUS
  <2>2. f \in [0 .. N -> S] /\ \A s \in S : \E i \in 0 .. N : f[i] = s
    <3>1. \A i \in 0 .. N : i = 0 \/ i \in 1 .. N
      BY <1>0
    <3>2. 0 \in 0 .. N /\ \A i \in 1 .. N : i \in 0 .. N /\ i # 0
      BY <1>0
    <3>3. \A i \in 0 .. N : f[i] \in S
      BY <2>1, <3>1
    <3>4. f[0] = N /\ \A i \in 1 .. N : f[i] = Len(wf.jobs[i].needs)
      BY <2>1, <3>2
    <3> HIDE DEF N
    <3> QED BY <2>1, <3>2, <3>3, <3>4
  <2>3. S \in SUBSET Nat /\ S # {}
    BY <1>0
  <2>4. IsFiniteSet(S)
    <3>1. IsFiniteSet(0 .. N)
      BY <1>0, FS_Interval
    <3> HIDE DEF S, N
    <3>2. f \in Surjection(0 .. N, S)
      BY <2>2 DEF Surjection
    <3> QED BY <3>1, <3>2, FS_Surjection
  <2>5. PICK K \in S : \A a \in S : a <= K
    <3> HIDE DEF S
    <3> QED BY <2>3, <2>4, FiniteHasMax
  <2>6. ASSUME NEW todo \in Lists(wf) PROVE Len(todo) <= K
    <3>1. PICK a \in S : Len(todo) <= a
      BY <1>0 DEF Lists
    <3>2. a \in Nat /\ K \in Nat /\ Len(todo) \in Nat /\ a <= K
      BY <2>3, <2>5 DEF Lists
    <3> HIDE DEF S
    <3> QED BY <3>1, <3>2
  <2> QED BY <2>3, <2>6
<1> QED BY <1>1, <1>2, <1>3 DEF Closed

Below(wf, x) == <<NeedsOf(wf, Head(x[1])), x[2] \union {Head(x[1])}, x[3]>>
After(x, done) == <<Tail(x[1]), x[2], done>>

VisitBody(wf, f, x) ==
    IF x[1] = <<>> THEN [cycle |-> FALSE, done |-> x[3]]
    ELSE IF Head(x[1]) \in x[3] THEN f[After(x, x[3])]
    ELSE IF Head(x[1]) \in x[2] THEN [cycle |-> TRUE, done |-> x[3]]
    ELSE IF f[Below(wf, x)].cycle THEN f[Below(wf, x)]
    ELSE f[After(x, f[Below(wf, x)].done \union {Head(x[1])})]

VisitMeasure(wf, K, x) == Cardinality(Ids(wf) \ x[2]) * (K + 1) + Len(x[1])

HasLists(wf) == IsList(wf.jobs) /\ \A i \in DOMAIN wf.jobs : IsList(wf.jobs[i].needs)

(* The marks each branch goes on with are marks, and are lower.            *)
LEMMA VisitDescends ==
    ASSUME NEW wf, HasLists(wf), Closed(wf), NEW K \in Nat, \A todo \in Lists(wf) : Len(todo) <= K,
           NEW x \in Marks(wf), x[1] # <<>>
    PROVE  /\ Head(x[1]) \in Ids(wf)
           /\ \A d \in SUBSET Ids(wf) :
                  After(x, d) \in Marks(wf) /\ VisitMeasure(wf, K, After(x, d)) < VisitMeasure(wf, K, x)
           /\ Head(x[1]) \notin x[2] =>
                  Below(wf, x) \in Marks(wf) /\ VisitMeasure(wf, K, Below(wf, x)) < VisitMeasure(wf, K, x)
<1>1. PICK todo : todo = x[1]
  OBVIOUS
<1>2. PICK open : open = x[2]
  OBVIOUS
<1>3. /\ todo \in Lists(wf) /\ open \in SUBSET Ids(wf) /\ x[3] \in SUBSET Ids(wf) /\ todo # <<>>
      /\ todo \in Seq(Ids(wf))
  BY <1>1, <1>2 DEF Marks, Lists
<1>4. HeadTail(todo, Ids(wf)) /\ Tail(todo) \in Lists(wf)
  BY <1>3, ListsFacts DEF HasLists
<1>5. PICK n \in Ids(wf) : n = Head(todo)
  BY <1>4 DEF HeadTail
<1>6. IsFiniteSet(Ids(wf) \ open) /\ Cardinality(Ids(wf) \ open) \in Nat
  <2>1. IsFiniteSet(Ids(wf) \ open)
    BY FS_Subset DEF Closed
  <2> QED BY <2>1, FS_CardinalityType
<1>7. PICK a \in Nat : a = Cardinality(Ids(wf) \ open)
  BY <1>6
<1>8. PICK l \in Nat : l = Len(todo)
  BY <1>3
<1>9. ASSUME NEW d \in SUBSET Ids(wf)
      PROVE  After(x, d) \in Marks(wf) /\ VisitMeasure(wf, K, After(x, d)) < VisitMeasure(wf, K, x)
  <2>1. After(x, d) = <<Tail(todo), open, d>>
    BY <1>1, <1>2 DEF After
  <2>2. After(x, d) \in Marks(wf)
    <3>1. PICK t \in Lists(wf) : t = Tail(todo)
      BY <1>4
    <3>2. <<t, open, d>> \in Lists(wf) \X (SUBSET Ids(wf)) \X (SUBSET Ids(wf))
      BY <1>3
    <3> QED BY <2>1, <3>1, <3>2 DEF Marks
  <2>3. PICK k \in Nat : k = Len(Tail(todo)) /\ k + 1 = l
    <3>1. Tail(todo) \in Seq(Ids(wf)) /\ Len(Tail(todo)) + 1 = Len(todo)
      BY <1>4 DEF HeadTail
    <3>2. Len(Tail(todo)) \in Nat
      BY <3>1
    <3> QED BY <1>8, <3>1, <3>2
  <2>4. PICK q \in Nat : q = a * (K + 1)
    <3>1. K + 1 \in Nat /\ a <= a
      OBVIOUS
    <3> QED BY <3>1, ProductGrows
  <2>5. VisitMeasure(wf, K, x) = q + l
    BY <1>1, <1>2, <1>7, <1>8, <2>4 DEF VisitMeasure
  <2>6. VisitMeasure(wf, K, After(x, d)) = q + k
    BY <1>7, <2>1, <2>3, <2>4 DEF VisitMeasure
  <2> QED BY <2>2, <2>3, <2>5, <2>6
<1>10. ASSUME n \notin open
       PROVE  Below(wf, x) \in Marks(wf) /\ VisitMeasure(wf, K, Below(wf, x)) < VisitMeasure(wf, K, x)
  <2>1. PICK needs : needs = NeedsOf(wf, n)
    OBVIOUS
  <2>2. needs \in Lists(wf) /\ Len(needs) \in Nat /\ Len(needs) <= K
    <3>1. needs \in Lists(wf)
      BY <2>1 DEF Closed
    <3>2. needs \in Seq(Ids(wf))
      BY <3>1 DEF Lists
    <3> QED BY <3>1, <3>2
  <2>3. Below(wf, x) = <<needs, open \union {n}, x[3]>>
    BY <1>1, <1>2, <1>5, <2>1 DEF Below
  <2>4. Below(wf, x) \in Marks(wf)
    BY <1>3, <2>2, <2>3 DEF Marks
  <2>5. PICK b \in Nat : b = Cardinality(Ids(wf) \ (open \union {n})) /\ b < a
    <3>1. PICK R : R = Ids(wf) \ open
      OBVIOUS
    <3>2. Ids(wf) \ (open \union {n}) = R \ {n} /\ n \in R
      BY <1>10, <3>1
    <3>3. IsFiniteSet(R) /\ a = Cardinality(R)
      BY <1>6, <1>7, <3>1
    <3>4. IsFiniteSet(R \ {n}) /\ Cardinality(R \ {n}) = a - 1
      BY <3>2, <3>3, FS_RemoveElement
    <3>5. Cardinality(R \ {n}) \in Nat
      BY <3>4, FS_CardinalityType
    <3>6. a - 1 \in Nat /\ a - 1 < a
      BY <3>4, <3>5
    <3> QED BY <3>2, <3>4, <3>6
  <2>6. PICK k \in Nat : k = Len(needs) /\ k < K + 1
    BY <2>2
  <2>7. b * (K + 1) + k < a * (K + 1) + l
    <3>1. K + 1 \in Nat
      OBVIOUS
    <3> QED BY <2>5, <2>6, <3>1, Lexicographic
  <2>8. VisitMeasure(wf, K, x) = a * (K + 1) + l
    BY <1>1, <1>2, <1>7, <1>8 DEF VisitMeasure
  <2>9. VisitMeasure(wf, K, Below(wf, x)) = b * (K + 1) + k
    BY <2>3, <2>5, <2>6 DEF VisitMeasure
  <2> QED BY <2>4, <2>7, <2>8, <2>9
<1> QED BY <1>1, <1>2, <1>5, <1>9, <1>10

LEMMA MeasureBounded ==
    ASSUME NEW wf, Closed(wf), NEW K \in Nat, \A todo \in Lists(wf) : Len(todo) <= K, NEW x \in Marks(wf)
    PROVE  /\ Cardinality(Ids(wf)) * (K + 1) + K \in Nat
           /\ VisitMeasure(wf, K, x) \in 0 .. Cardinality(Ids(wf)) * (K + 1) + K
<1>1. PICK c \in Nat : c = Cardinality(Ids(wf))
  BY FS_CardinalityType DEF Closed
<1>2. PICK a \in Nat : a = Cardinality(Ids(wf) \ x[2]) /\ a <= c
  <2>1. IsFiniteSet(Ids(wf)) /\ Ids(wf) \ x[2] \subseteq Ids(wf)
    BY DEF Closed
  <2>2. IsFiniteSet(Ids(wf) \ x[2]) /\ Cardinality(Ids(wf) \ x[2]) <= Cardinality(Ids(wf))
    BY <2>1, FS_Subset
  <2> QED BY <1>1, <2>2, FS_CardinalityType
<1>3. PICK l \in Nat : l = Len(x[1]) /\ l <= K
  BY DEF Marks, Lists
<1>4. K + 1 \in Nat
  OBVIOUS
<1>5. PICK p \in Nat : p = a * (K + 1) /\ p <= c * (K + 1)
  BY <1>2, <1>4, ProductGrows
<1>6. PICK q \in Nat : q = c * (K + 1)
  BY <1>2, <1>4, ProductGrows
<1>7. VisitMeasure(wf, K, x) = p + l
  BY <1>2, <1>3, <1>5 DEF VisitMeasure
<1>8. p <= q
  BY <1>5, <1>6
<1>9. \A u, v, w, k \in Nat : u <= v /\ w <= k => u + w \in 0 .. v + k /\ v + k \in Nat
  OBVIOUS
<1>10. p + l \in 0 .. q + K /\ q + K \in Nat
  BY <1>3, <1>8, <1>9
<1> QED BY <1>1, <1>6, <1>7, <1>10

Visited(wf) == [cycle : BOOLEAN, done : SUBSET Ids(wf)]

LEMMA VisitEquation ==
    ASSUME NEW wf, HasLists(wf), Closed(wf)
    PROVE  /\ Visits(wf) \in [Marks(wf) -> Visited(wf)]
           /\ \A x \in Marks(wf) : Visits(wf)[x] = VisitBody(wf, Visits(wf), x)
<1>k. PICK K \in Nat : \A todo \in Lists(wf) : Len(todo) <= K
  BY DEF Closed
<1> DEFINE D == Marks(wf)
           V == Visited(wf)
           m == [y \in D |-> VisitMeasure(wf, K, y)]
           F == [y \in D |-> [f \in [D -> V] |-> VisitBody(wf, f, y)]]
           B == Cardinality(Ids(wf)) * (K + 1) + K
<1>0. \A y \in D : y[2] \in SUBSET Ids(wf) /\ y[3] \in SUBSET Ids(wf)
  BY DEF Marks
<1>1. D # {} => m \in [D -> 0 .. B] /\ B \in Nat
  <2>1. \A y \in D : B \in Nat /\ VisitMeasure(wf, K, y) \in 0 .. B
    BY <1>k, MeasureBounded
  <2> HIDE DEF B, D
  <2> QED BY <2>1
<1>d. <<<<>>, {}, {}>> \in D
  <2>1. <<>> \in Seq(Ids(wf)) /\ Len(<<>>) = 0 /\ Len(wf.jobs) \in Nat
    BY DEF HasLists, IsList
  <2>2. <<>> \in Lists(wf)
    BY <2>1 DEF Lists
  <2> QED BY <2>2 DEF Marks
<1>2. ASSUME NEW y \in D, y[1] # <<>>
      PROVE  /\ Head(y[1]) \in Ids(wf)
             /\ \A d \in SUBSET Ids(wf) : After(y, d) \in D /\ m[After(y, d)] < m[y]
             /\ Head(y[1]) \notin y[2] => Below(wf, y) \in D /\ m[Below(wf, y)] < m[y]
  <2>1. /\ Head(y[1]) \in Ids(wf)
        /\ \A d \in SUBSET Ids(wf) :
               After(y, d) \in D /\ VisitMeasure(wf, K, After(y, d)) < VisitMeasure(wf, K, y)
        /\ Head(y[1]) \notin y[2] =>
               Below(wf, y) \in D /\ VisitMeasure(wf, K, Below(wf, y)) < VisitMeasure(wf, K, y)
    BY <1>k, <1>2, VisitDescends
  <2> HIDE DEF D
  <2> QED BY <2>1
<1>v. /\ \A v \in V : v.cycle \in BOOLEAN /\ v.done \in SUBSET Ids(wf)
      /\ \A c \in BOOLEAN : \A d \in SUBSET Ids(wf) : [cycle |-> c, done |-> d] \in V
  BY DEF Visited
<1> HIDE DEF m, V
<1>3. ASSUME NEW y \in D, NEW f, \A z \in D : m[z] < m[y] => f[z] \in V PROVE VisitBody(wf, f, y) \in V
  <2> HIDE DEF D
  <2>1. CASE y[1] = <<>>
    BY <1>0, <1>v, <2>1 DEF VisitBody
  <2>2. CASE y[1] # <<>> /\ Head(y[1]) \in y[3]
    <3>1. f[After(y, y[3])] \in V
      BY <1>0, <1>2, <1>3, <2>2
    <3> QED BY <2>2, <3>1 DEF VisitBody
  <2>3. CASE y[1] # <<>> /\ Head(y[1]) \notin y[3] /\ Head(y[1]) \in y[2]
    BY <1>0, <1>v, <2>3 DEF VisitBody
  <2>4. CASE y[1] # <<>> /\ Head(y[1]) \notin y[3] /\ Head(y[1]) \notin y[2]
    <3>1. PICK b : b = f[Below(wf, y)]
      OBVIOUS
    <3>2. b \in V /\ Head(y[1]) \in Ids(wf)
      BY <1>2, <1>3, <2>4, <3>1
    <3>3. PICK d : d = b.done \union {Head(y[1])}
      OBVIOUS
    <3>4. d \in SUBSET Ids(wf)
      BY <1>v, <3>2, <3>3
    <3>5. f[After(y, d)] \in V
      BY <1>2, <1>3, <2>4, <3>4
    <3>6. VisitBody(wf, f, y) = IF b.cycle THEN b ELSE f[After(y, d)]
      BY <2>4, <3>1, <3>3 DEF VisitBody
    <3> QED BY <3>2, <3>5, <3>6
  <2> QED BY <2>1, <2>2, <2>3, <2>4
<1>4. ASSUME NEW y \in D, NEW g \in [D -> V], NEW h \in [D -> V], \A z \in D : m[z] < m[y] => g[z] = h[z]
      PROVE  VisitBody(wf, g, y) = VisitBody(wf, h, y)
  <2> HIDE DEF D
  <2>1. CASE y[1] = <<>>
    BY <2>1 DEF VisitBody
  <2>2. CASE y[1] # <<>> /\ Head(y[1]) \in y[3]
    <3>1. g[After(y, y[3])] = h[After(y, y[3])]
      BY <1>0, <1>2, <1>4, <2>2
    <3> QED BY <2>2, <3>1 DEF VisitBody
  <2>3. CASE y[1] # <<>> /\ Head(y[1]) \notin y[3] /\ Head(y[1]) \in y[2]
    BY <2>3 DEF VisitBody
  <2>4. CASE y[1] # <<>> /\ Head(y[1]) \notin y[3] /\ Head(y[1]) \notin y[2]
    <3>1. PICK b : b = g[Below(wf, y)]
      OBVIOUS
    <3>2. b = h[Below(wf, y)] /\ b \in V /\ Head(y[1]) \in Ids(wf)
      BY <1>2, <1>4, <2>4, <3>1
    <3>3. PICK d : d = b.done \union {Head(y[1])}
      OBVIOUS
    <3>4. d \in SUBSET Ids(wf)
      BY <1>v, <3>2, <3>3
    <3>5. g[After(y, d)] = h[After(y, d)]
      BY <1>2, <1>4, <2>4, <3>4
    <3>6. VisitBody(wf, g, y) = IF b.cycle THEN b ELSE g[After(y, d)]
      BY <2>4, <3>1, <3>3 DEF VisitBody
    <3>7. VisitBody(wf, h, y) = IF b.cycle THEN b ELSE h[After(y, d)]
      BY <2>4, <3>2, <3>3 DEF VisitBody
    <3> QED BY <3>5, <3>6, <3>7
  <2> QED BY <2>1, <2>2, <2>3, <2>4
<1>5. Descends(D, V, m, F)
  <2>1. F \in [D -> [[D -> V] -> V]]
    <3> HIDE DEF D
    <3> QED BY <1>3
  <2>2. \A y \in D : \A f \in [D -> V] : F[y][f] = VisitBody(wf, f, y)
    <3> HIDE DEF D
    <3> QED OBVIOUS
  <2>3. \A y \in D : \A g, h \in [D -> V] :
            (\A z \in D : m[z] < m[y] => g[z] = h[z]) => F[y][g] = F[y][h]
    <3> HIDE DEF D, F
    <3> QED BY <1>4, <2>2
  <2>4. V # {} /\ \E k \in Nat : m \in [D -> 0 .. k]
    <3> HIDE DEF D, B
    <3> QED BY <1>1, <1>d, <1>v
  <2> HIDE DEF D, F
  <2> QED BY <2>1, <2>3, <2>4 DEF Descends
<1>6. PICK f \in [D -> V] : \A y \in D : f[y] = F[y][f]
  <2> HIDE DEF D, F
  <2> QED BY <1>5, RecursionHasSolution
<1>7. f = [y \in D |-> VisitBody(wf, f, y)]
  <2>1. \A y \in D : f[y] = VisitBody(wf, f, y)
    <3> HIDE DEF D
    <3> QED BY <1>6
  <2> HIDE DEF D, F
  <2> QED BY <2>1
<1>8. Visits(wf) = CHOOSE g : g = [y \in D |-> VisitBody(wf, g, y)]
  BY DEF Visits, VisitBody, Below, After
<1>9. Visits(wf) = [y \in D |-> VisitBody(wf, Visits(wf), y)]
  <2> HIDE DEF D
  <2> QED BY <1>7, <1>8
<1>10. PICK g : g = Visits(wf)
  OBVIOUS
<1>11. g = [y \in D |-> VisitBody(wf, g, y)]
  <2> HIDE DEF D
  <2> QED BY <1>9, <1>10
<1>12. \A y \in D : g[y] = VisitBody(wf, g, y)
  <2> HIDE DEF D
  <2> QED BY <1>11
<1>13. \A y \in D : g[y] \in V
  <2> DEFINE G == {y \in D : g[y] \in V}
  <2>1. \E k \in Nat : m \in [D -> 0 .. k]
    <3> HIDE DEF D, B
    <3> QED BY <1>1, <1>d
  <2>2. m \in [D -> Nat]
    <3> HIDE DEF D
    <3> QED BY <2>1
  <2>3. ASSUME NEW y \in D, \A z \in D : m[z] < m[y] => z \in G PROVE y \in G
    <3>1. \A z \in D : m[z] < m[y] => g[z] \in V
      <4> HIDE DEF D
      <4> QED BY <2>3
    <3>2. VisitBody(wf, g, y) \in V
      <4> HIDE DEF D, G
      <4> QED BY <1>3, <3>1
    <3> HIDE DEF D
    <3> QED BY <1>12, <3>2
  <2>4. \A y \in D : y \in G
    <3> HIDE DEF D, G
    <3> QED BY <2>2, <2>3, MeasureInduction
  <2> HIDE DEF D
  <2> QED BY <2>4
<1>14. g \in [D -> V]
  <2>1. DOMAIN g = D /\ g = [y \in D |-> g[y]]
    <3> HIDE DEF D
    <3> QED BY <1>11
  <2> HIDE DEF D
  <2> QED BY <1>13, <2>1
<1> HIDE DEF D
<1> QED BY <1>10, <1>12, <1>14 DEF D, V

Ordered(wf, rank) == \A n \in Ids(wf) : \A t \in Elements(NeedsOf(wf, n)) : rank[t] < rank[n]

(* With ranked needs, whatever is open ranks above what is still to visit: *)
(* the visit never comes back to an open job.                              *)
LEMMA RankedHasNoCycle ==
    ASSUME NEW wf, HasLists(wf), Closed(wf), NEW rank \in [Ids(wf) -> Nat], Ordered(wf, rank),
           NEW x0 \in Marks(wf), x0[2] = {}
    PROVE  ~Visits(wf)[x0].cycle
<1>k. PICK K \in Nat : \A todo \in Lists(wf) : Len(todo) <= K
  BY DEF Closed
<1> DEFINE D == Marks(wf)
           f == Visits(wf)
           m == [y \in D |-> VisitMeasure(wf, K, y)]
           Above(x) == \A t \in Elements(x[1]) : \A o \in x[2] : rank[t] < rank[o]
           G == {x \in D : Above(x) => ~f[x].cycle}
<1>0. \A y \in D : y[1] \in Lists(wf) /\ y[2] \in SUBSET Ids(wf) /\ y[3] \in SUBSET Ids(wf)
  BY DEF Marks
<1>1. m \in [D -> Nat]
  <2>1. \A y \in D : VisitMeasure(wf, K, y) \in Nat
    <3>1. \A a \in Nat : \A b \in 0 .. a : b \in Nat
      OBVIOUS
    <3> QED BY <1>k, <3>1, MeasureBounded
  <2> HIDE DEF D
  <2> QED BY <2>1
<1>2. ASSUME NEW y \in D, y[1] # <<>>
      PROVE  /\ Head(y[1]) \in Ids(wf)
             /\ \A d \in SUBSET Ids(wf) : After(y, d) \in D /\ m[After(y, d)] < m[y]
             /\ Head(y[1]) \notin y[2] => Below(wf, y) \in D /\ m[Below(wf, y)] < m[y]
  <2>1. /\ Head(y[1]) \in Ids(wf)
        /\ \A d \in SUBSET Ids(wf) :
               After(y, d) \in D /\ VisitMeasure(wf, K, After(y, d)) < VisitMeasure(wf, K, y)
        /\ Head(y[1]) \notin y[2] =>
               Below(wf, y) \in D /\ VisitMeasure(wf, K, Below(wf, y)) < VisitMeasure(wf, K, y)
    BY <1>k, <1>2, VisitDescends
  <2> HIDE DEF D
  <2> QED BY <2>1
<1>3. \A y \in D : f[y] = VisitBody(wf, f, y) /\ f[y] \in Visited(wf)
  BY VisitEquation
<1>v. \A v \in Visited(wf) : v.cycle \in BOOLEAN /\ v.done \in SUBSET Ids(wf)
  BY DEF Visited
<1> HIDE DEF D, f, m
<1>4. ASSUME NEW x \in D, \A z \in D : m[z] < m[x] => z \in G PROVE x \in G
  <2> SUFFICES ASSUME Above(x) PROVE ~f[x].cycle
    OBVIOUS
  <2>g. \A z \in D : m[z] < m[x] /\ Above(z) => ~f[z].cycle
    BY <1>4
  <2> HIDE DEF G
  <2>1. CASE x[1] = <<>>
    <3>1. f[x] = VisitBody(wf, f, x)
      BY <1>3
    <3>2. VisitBody(wf, f, x) = [cycle |-> FALSE, done |-> x[3]]
      BY <2>1 DEF VisitBody
    <3> QED BY <3>1, <3>2
  <2>2. CASE x[1] # <<>>
    <3>1. PICK n \in Ids(wf) : n = Head(x[1])
      BY <1>2, <2>2
    <3>2. HeadTail(x[1], Ids(wf))
      BY <1>0, <2>2, ListsFacts DEF HasLists
    <3>3. Elements(x[1]) = {n} \union Elements(Tail(x[1]))
      BY <3>1, <3>2 DEF HeadTail
    <3>4. ASSUME NEW d \in SUBSET Ids(wf) PROVE ~f[After(x, d)].cycle
      <4>1. After(x, d)[1] = Tail(x[1]) /\ After(x, d)[2] = x[2]
        BY DEF After
      <4>2. Above(After(x, d))
        BY <3>3, <4>1
      <4>3. After(x, d) \in D /\ m[After(x, d)] < m[x]
        BY <1>2, <2>2
      <4> HIDE DEF Above
      <4> QED BY <2>g, <4>2, <4>3
    <3>5. n \notin x[2]
      <4>1. n \in x[2] => rank[n] < rank[n]
        BY <3>3
      <4>2. rank[n] \in Nat
        OBVIOUS
      <4> QED BY <4>1, <4>2
    <3>6. ~f[Below(wf, x)].cycle
      <4>1. Below(wf, x)[1] = NeedsOf(wf, n) /\ Below(wf, x)[2] = x[2] \union {n}
        BY <3>1 DEF Below
      <4>2. ASSUME NEW t \in Elements(NeedsOf(wf, n)), NEW o \in x[2] \union {n} PROVE rank[t] < rank[o]
        <5>1. rank[t] < rank[n] /\ t \in Ids(wf)
          <6>1. NeedsOf(wf, n) \in Seq(Ids(wf))
            BY DEF Closed, Lists
          <6>2. t \in Ids(wf)
            BY <6>1 DEF Elements
          <6> QED BY <6>2 DEF Ordered
        <5>2. CASE o = n
          BY <5>1, <5>2
        <5>3. CASE o \in x[2]
          <6>1. rank[n] < rank[o] /\ o \in Ids(wf)
            BY <1>0, <3>3, <5>3
          <6>2. rank[n] \in Nat /\ rank[t] \in Nat /\ rank[o] \in Nat
            BY <5>1, <6>1
          <6> QED BY <5>1, <6>1, <6>2
        <5> QED BY <5>2, <5>3
      <4>3. Above(Below(wf, x))
        BY <4>1, <4>2
      <4>4. Below(wf, x) \in D /\ m[Below(wf, x)] < m[x]
        BY <1>2, <2>2, <3>1, <3>5
      <4> HIDE DEF Above
      <4> QED BY <2>g, <4>3, <4>4
    <3>7. CASE n \in x[3]
      <4>1. f[x] = f[After(x, x[3])]
        BY <1>3, <2>2, <3>1, <3>7 DEF VisitBody
      <4> QED BY <1>0, <3>4, <4>1
    <3>8. CASE n \notin x[3]
      <4>1. PICK d : d = f[Below(wf, x)].done \union {n}
        OBVIOUS
      <4>2. d \in SUBSET Ids(wf)
        <5>1. Below(wf, x) \in D
          BY <1>2, <2>2, <3>1, <3>5
        <5>2. f[Below(wf, x)].done \in SUBSET Ids(wf)
          BY <1>3, <1>v, <5>1
        <5> QED BY <4>1, <5>2
      <4>3. f[x] = f[After(x, d)]
        BY <1>3, <2>2, <3>1, <3>5, <3>6, <3>8, <4>1 DEF VisitBody
      <4> QED BY <3>4, <4>2, <4>3
    <3> QED BY <3>7, <3>8
  <2> QED BY <2>1, <2>2
<1>5. x0 \in G
  <2> HIDE DEF G
  <2>1. x0 \in D
    BY DEF D
  <2> QED BY <1>1, <1>4, <2>1, MeasureInduction
<1>6. Above(x0)
  OBVIOUS
<1> HIDE DEF Above
<1> QED BY <1>5, <1>6 DEF f

(* S has the needs of its members, which rank below them.                  *)
Finished(wf, S) ==
    /\ S \subseteq Ids(wf)
    /\ \E rank \in [Ids(wf) -> Nat] :
           \A n \in S : \A t \in Elements(NeedsOf(wf, n)) : t \in S /\ rank[t] < rank[n]

(* A job whose needs are finished can be finished: it ranks above them all.*)
LEMMA FinishOne ==
    ASSUME NEW wf, Closed(wf), NEW S, Finished(wf, S), NEW n \in Ids(wf), Elements(NeedsOf(wf, n)) \subseteq S
    PROVE  Finished(wf, S \union {n})
<1>1. PICK rank \in [Ids(wf) -> Nat] :
          \A k \in S : \A t \in Elements(NeedsOf(wf, k)) : t \in S /\ rank[t] < rank[k]
  BY DEF Finished
<1>s. S \subseteq Ids(wf)
  BY DEF Finished
<1>2. CASE n \in S
  <2>1. S \union {n} = S
    BY <1>2
  <2> QED BY <2>1
<1>3. CASE n \notin S
  <2> DEFINE R == {rank[k] : k \in Ids(wf)}
  <2>1. PICK top \in Nat : \A k \in Ids(wf) : rank[k] <= top
    <3>1. R \in SUBSET Nat /\ R # {}
      OBVIOUS
    <3>2. IsFiniteSet(R)
      <4>1. rank \in Surjection(Ids(wf), R)
        BY DEF Surjection
      <4>2. IsFiniteSet(Ids(wf))
        BY DEF Closed
      <4> HIDE DEF R
      <4> QED BY <4>1, <4>2, FS_Surjection
    <3>3. PICK top \in R : \A a \in R : a <= top
      <4> HIDE DEF R
      <4> QED BY <3>1, <3>2, FiniteHasMax
    <3> QED BY <3>1, <3>3
  <2> DEFINE up == [k \in Ids(wf) |-> IF k = n THEN top + 1 ELSE rank[k]]
  <2>2. up \in [Ids(wf) -> Nat] /\ up[n] = top + 1 /\ \A k \in Ids(wf) : k # n => up[k] = rank[k]
    OBVIOUS
  <2> HIDE DEF up
  <2>3. ASSUME NEW k \in S \union {n}, NEW t \in Elements(NeedsOf(wf, k))
        PROVE  t \in S \union {n} /\ up[t] < up[k]
    <3>1. CASE k = n
      <4>1. t \in S /\ t # n /\ t \in Ids(wf)
        BY <1>3, <1>s, <3>1
      <4>2. rank[t] \in Nat /\ rank[t] <= top /\ up[t] = rank[t] /\ up[k] = top + 1
        BY <2>1, <2>2, <3>1, <4>1
      <4> QED BY <4>1, <4>2
    <3>2. CASE k \in S
      <4>1. t \in S /\ rank[t] < rank[k]
        BY <1>1, <3>2
      <4>2. up[t] = rank[t] /\ up[k] = rank[k]
        BY <1>3, <1>s, <2>2, <3>2, <4>1
      <4> QED BY <4>1, <4>2
    <3> QED BY <3>1, <3>2
  <2>4. S \union {n} \subseteq Ids(wf)
    BY <1>s
  <2> QED BY <2>2, <2>3, <2>4 DEF Finished
<1> QED BY <1>2, <1>3

(* What a visit without a cycle has been through is finished.              *)
LEMMA NoCycleIsFinished ==
    ASSUME NEW wf, HasLists(wf), Closed(wf), NEW x0 \in Marks(wf), Finished(wf, x0[3]), ~Visits(wf)[x0].cycle
    PROVE  Elements(x0[1]) \subseteq Visits(wf)[x0].done /\ Finished(wf, Visits(wf)[x0].done)
<1>k. PICK K \in Nat : \A todo \in Lists(wf) : Len(todo) <= K
  BY DEF Closed
<1> DEFINE D == Marks(wf)
           f == Visits(wf)
           m == [y \in D |-> VisitMeasure(wf, K, y)]
           Through(x, done) == x[3] \union Elements(x[1]) \subseteq done /\ Finished(wf, done)
           G == {x \in D : Finished(wf, x[3]) /\ ~f[x].cycle => Through(x, f[x].done)}
<1>0. \A y \in D : y[1] \in Lists(wf) /\ y[2] \in SUBSET Ids(wf) /\ y[3] \in SUBSET Ids(wf)
  BY DEF Marks
<1>1. m \in [D -> Nat]
  <2>1. \A y \in D : VisitMeasure(wf, K, y) \in Nat
    <3>1. \A a \in Nat : \A b \in 0 .. a : b \in Nat
      OBVIOUS
    <3> QED BY <1>k, <3>1, MeasureBounded
  <2> HIDE DEF D
  <2> QED BY <2>1
<1>2. ASSUME NEW y \in D, y[1] # <<>>
      PROVE  /\ Head(y[1]) \in Ids(wf)
             /\ \A d \in SUBSET Ids(wf) : After(y, d) \in D /\ m[After(y, d)] < m[y]
             /\ Head(y[1]) \notin y[2] => Below(wf, y) \in D /\ m[Below(wf, y)] < m[y]
  <2>1. /\ Head(y[1]) \in Ids(wf)
        /\ \A d \in SUBSET Ids(wf) :
               After(y, d) \in D /\ VisitMeasure(wf, K, After(y, d)) < VisitMeasure(wf, K, y)
        /\ Head(y[1]) \notin y[2] =>
               Below(wf, y) \in D /\ VisitMeasure(wf, K, Below(wf, y)) < VisitMeasure(wf, K, y)
    BY <1>k, <1>2, VisitDescends
  <2> HIDE DEF D
  <2> QED BY <2>1
<1>3. \A y \in D : f[y] = VisitBody(wf, f, y) /\ f[y] \in Visited(wf)
  BY VisitEquation
<1>v. \A v \in Visited(wf) : v.cycle \in BOOLEAN /\ v.done \in SUBSET Ids(wf)
  BY DEF Visited
<1> HIDE DEF D, f, m
<1>4. ASSUME NEW x \in D, \A z \in D : m[z] < m[x] => z \in G PROVE x \in G
  <2> SUFFICES ASSUME Finished(wf, x[3]), ~f[x].cycle PROVE Through(x, f[x].done)
    <3> HIDE DEF Through
    <3> QED OBVIOUS
  <2>g. \A z \in D : m[z] < m[x] /\ Finished(wf, z[3]) /\ ~f[z].cycle => Through(z, f[z].done)
    <3> HIDE DEF Through
    <3> QED BY <1>4
  <2> HIDE DEF G
  <2>b. f[x] = VisitBody(wf, f, x)
    BY <1>3
  <2>1. CASE x[1] = <<>>
    <3>1. VisitBody(wf, f, x) = [cycle |-> FALSE, done |-> x[3]]
      BY <2>1 DEF VisitBody
    <3>2. f[x].done = x[3]
      BY <2>b, <3>1
    <3>3. Elements(x[1]) = {}
      BY <2>1 DEF Elements
    <3> QED BY <3>2, <3>3
  <2>2. CASE x[1] # <<>>
    <3>1. PICK n \in Ids(wf) : n = Head(x[1])
      BY <1>2, <2>2
    <3>2. HeadTail(x[1], Ids(wf))
      BY <1>0, <2>2, ListsFacts DEF HasLists
    <3>3. Elements(x[1]) = {n} \union Elements(Tail(x[1]))
      BY <3>1, <3>2 DEF HeadTail
    <3>4. ASSUME NEW d \in SUBSET Ids(wf), Finished(wf, d), f[x] = f[After(x, d)], x[3] \union {n} \subseteq d
          PROVE  Through(x, f[x].done)
      <4>1. After(x, d)[1] = Tail(x[1]) /\ After(x, d)[3] = d
        BY DEF After
      <4>2. After(x, d) \in D /\ m[After(x, d)] < m[x]
        BY <1>2, <2>2
      <4>3. Through(After(x, d), f[x].done)
        <5> HIDE DEF Through
        <5> QED BY <2>g, <3>4, <4>1, <4>2
      <4>4. d \union Elements(Tail(x[1])) \subseteq f[x].done /\ Finished(wf, f[x].done)
        BY <4>1, <4>3
      <4> QED BY <3>3, <3>4, <4>4
    <3>7. CASE n \in x[3]
      <4>1. f[x] = f[After(x, x[3])]
        BY <2>b, <2>2, <3>1, <3>7 DEF VisitBody
      <4>2. x[3] \in SUBSET Ids(wf) /\ x[3] \union {n} \subseteq x[3]
        BY <1>0, <3>7
      <4> HIDE DEF Through
      <4> QED BY <3>4, <4>1, <4>2
    <3>8. CASE n \notin x[3] /\ n \in x[2]
      <4>1. VisitBody(wf, f, x) = [cycle |-> TRUE, done |-> x[3]]
        BY <2>2, <3>1, <3>8 DEF VisitBody
      <4>2. f[x].cycle
        BY <2>b, <4>1
      <4> QED BY <4>2
    <3>9. CASE n \notin x[3] /\ n \notin x[2]
      <4>1. PICK below : below = f[Below(wf, x)]
        OBVIOUS
      <4>2. PICK d : d = below.done \union {n}
        OBVIOUS
      <4>3. f[x] = IF below.cycle THEN below ELSE f[After(x, d)]
        BY <2>b, <2>2, <3>1, <3>9, <4>1, <4>2 DEF VisitBody
      <4>4. ~below.cycle /\ f[x] = f[After(x, d)]
        BY <4>3
      <4>5. Below(wf, x) \in D /\ m[Below(wf, x)] < m[x]
        BY <1>2, <2>2, <3>1, <3>9
      <4>6. Below(wf, x)[1] = NeedsOf(wf, n) /\ Below(wf, x)[3] = x[3]
        BY <3>1 DEF Below
      <4>7. Through(Below(wf, x), below.done)
        <5> HIDE DEF Through
        <5> QED BY <2>g, <4>1, <4>4, <4>5, <4>6
      <4>8. /\ x[3] \subseteq below.done /\ Elements(NeedsOf(wf, n)) \subseteq below.done
            /\ Finished(wf, below.done)
        BY <4>6, <4>7
      <4>9. Finished(wf, d)
        BY <4>2, <4>8, FinishOne
      <4>10. d \in SUBSET Ids(wf) /\ x[3] \union {n} \subseteq d
        BY <4>2, <4>8, <4>9 DEF Finished
      <4> HIDE DEF Through
      <4> QED BY <3>4, <4>4, <4>9, <4>10
    <3> HIDE DEF Through
    <3> QED BY <3>7, <3>8, <3>9
  <2> HIDE DEF Through
  <2> QED BY <2>1, <2>2
<1>5. x0 \in G
  <2> HIDE DEF G
  <2>1. x0 \in D
    BY DEF D
  <2> QED BY <1>1, <1>4, <2>1, MeasureInduction
<1>6. Through(x0, f[x0].done)
  <2> HIDE DEF Through
  <2> QED BY <1>5 DEF f
<1> QED BY <1>6 DEF f

(* find_cycle finds a cycle exactly when the needs cannot be ranked.       *)
LEMMA FindCycleIsExact ==
    ASSUME NEW wf, HasLists(wf), Cardinality(Ids(wf)) = Len(wf.jobs),
           \A i \in DOMAIN wf.jobs : \A n \in Elements(wf.jobs[i].needs) : n \in Ids(wf)
    PROVE  FindCycle(wf) <=> ~Ranked(wf)
<1> DEFINE J == Ids(wf)
           x0 == <<AllIds(wf), {}, {}>>
<1>1. Closed(wf)
  BY WorkflowIsClosed DEF HasLists
<1>i. \A i, k \in DOMAIN wf.jobs : wf.jobs[i].id = wf.jobs[k].id => i = k
  BY IdsApart DEF HasLists
<1>2. \A i \in DOMAIN wf.jobs : wf.jobs[i].id \in J /\ NeedsOf(wf, wf.jobs[i].id) = wf.jobs[i].needs
  <2> SUFFICES ASSUME NEW i \in DOMAIN wf.jobs
               PROVE  wf.jobs[i].id \in J /\ NeedsOf(wf, wf.jobs[i].id) = wf.jobs[i].needs
    OBVIOUS
  <2>1. PICK j \in {wf.jobs[k] : k \in DOMAIN wf.jobs} :
            j.id = wf.jobs[i].id /\ NeedsOf(wf, wf.jobs[i].id) = j.needs
    BY DEF NeedsOf
  <2>2. PICK k \in DOMAIN wf.jobs : j = wf.jobs[k]
    BY <2>1
  <2>3. k = i
    BY <1>i, <2>1, <2>2
  <2> QED BY <2>1, <2>2, <2>3 DEF Ids
<1>3. AllIds(wf) \in Lists(wf) /\ Elements(AllIds(wf)) = J
  <2>1. Len(wf.jobs) \in Nat /\ IsList(wf.jobs)
    BY DEF HasLists, IsList
  <2>2. PICK a : a = AllIds(wf)
    OBVIOUS
  <2>3. IsList(a) /\ Len(a) = Len(wf.jobs) /\ Elements(a) = J
    BY <2>1, <2>2, IdsApart
  <2>4. a \in Seq(J) /\ Len(a) <= Len(wf.jobs)
    BY <2>1, <2>3 DEF IsList
  <2> QED BY <2>2, <2>3, <2>4 DEF Lists
<1>4. x0 \in Marks(wf) /\ x0[1] = AllIds(wf) /\ x0[2] = {} /\ x0[3] = {}
  BY <1>3 DEF Marks
<1>c. FindCycle(wf) <=> Visits(wf)[x0].cycle
  BY DEF FindCycle
<1> HIDE DEF x0
<1>5. ASSUME Ranked(wf) PROVE ~FindCycle(wf)
  <2>1. PICK rank \in [J -> 1 .. Len(wf.jobs)] :
            \A i \in DOMAIN wf.jobs : \A n \in Elements(wf.jobs[i].needs) : rank[n] < rank[wf.jobs[i].id]
    BY <1>5 DEF Ranked
  <2>2. rank \in [J -> Nat]
    OBVIOUS
  <2>3. Ordered(wf, rank)
    <3> SUFFICES ASSUME NEW n \in J, NEW t \in Elements(NeedsOf(wf, n)) PROVE rank[t] < rank[n]
      BY DEF Ordered
    <3>1. PICK i \in DOMAIN wf.jobs : n = wf.jobs[i].id
      BY DEF Ids
    <3>2. t \in Elements(wf.jobs[i].needs)
      BY <1>2, <3>1
    <3> QED BY <2>1, <3>1, <3>2
  <2> QED BY <1>1, <1>4, <1>c, <2>2, <2>3, RankedHasNoCycle
<1>6. ASSUME ~FindCycle(wf) PROVE Ranked(wf)
  <2>1. Finished(wf, {})
    <3>1. [n \in J |-> 0] \in [J -> Nat]
      OBVIOUS
    <3> QED BY <3>1 DEF Finished
  <2>2. PICK done : done = Visits(wf)[x0].done
    OBVIOUS
  <2>3. J \subseteq done /\ Finished(wf, done)
    BY <1>1, <1>3, <1>4, <1>6, <1>c, <2>1, <2>2, NoCycleIsFinished
  <2>4. PICK f \in [J -> Nat] : \A n \in J : \A t \in Elements(NeedsOf(wf, n)) : t \in J /\ f[t] < f[n]
    BY <2>3 DEF Finished
  <2>5. IsFiniteSet(J)
    BY <1>1 DEF Closed
  <2>6. PICK rank \in [J -> 1 .. Cardinality(J)] : \A x, y \in J : f[x] < f[y] => rank[x] < rank[y]
    <3> HIDE DEF J
    <3> QED BY <2>5, RankByMeasure
  <2>7. ASSUME NEW i \in DOMAIN wf.jobs, NEW n \in Elements(wf.jobs[i].needs) PROVE rank[n] < rank[wf.jobs[i].id]
    <3>1. PICK k \in J : k = wf.jobs[i].id /\ n \in Elements(NeedsOf(wf, k))
      BY <1>2
    <3>2. n \in J /\ f[n] < f[k]
      BY <2>4, <3>1
    <3> HIDE DEF J
    <3> QED BY <2>6, <3>1, <3>2
  <2> QED BY <2>6, <2>7 DEF Ranked
<1> QED BY <1>5, <1>6

(* What a workflow that parses is built into.                              *)
LEMMA BuildIsOrder ==
    ASSUME NEW wf, NEW plan, plan = (IF Parses(wf) THEN Build(wf) ELSE Stuck)
    PROVE  /\ plan # Stuck => /\ Parses(wf) /\ plan = TopologicalOrder(Cells(wf))
                              /\ \A i \in DOMAIN wf.jobs : ExpandMatrix(wf.jobs[i].matrix) # <<>>
           /\ Parses(wf) /\ (\A i \in DOMAIN wf.jobs : ExpandMatrix(wf.jobs[i].matrix) # <<>>)
              => plan = TopologicalOrder(Cells(wf))
  BY DEF Build

LEMMA BuildIsRunnable ==
    ASSUME NEW wf, IsWorkflow(wf), NEW plan,
           plan = (IF Parses(wf) THEN Build(wf) ELSE Stuck), plan # Stuck
    PROVE  Runnable(plan, Cells(wf))
<1>1. Parses(wf) /\ plan = TopologicalOrder(Cells(wf))
  BY BuildIsOrder
<1>2. Cardinality(Ids(wf)) = Len(wf.jobs)
  BY <1>1 DEF Parses
<1>3. PICK cells : cells = Cells(wf)
  OBVIOUS
<1>4. CellsOk(cells)
  BY <1>2, <1>3, CellsAreOk
<1> QED BY <1>1, <1>3, <1>4, OrderIsRunnable

(* Nothing but its needs wrong with a workflow, and these can be ranked.   *)
LEMMA PlannedWhenRanked ==
    ASSUME NEW wf, IsWorkflow(wf), NEW plan, plan = (IF Parses(wf) THEN Build(wf) ELSE Stuck)
    PROVE  plan # Stuck <=> Sound(wf) /\ Ranked(wf)
<1> DEFINE J == Ids(wf)
<1>0. HasLists(wf) /\ DOMAIN wf.jobs = 1 .. Len(wf.jobs)
  BY DEF IsWorkflow, HasLists, IsList
<1>1. ASSUME Cardinality(J) = Len(wf.jobs), \A i \in DOMAIN wf.jobs : JobOk(wf, wf.jobs[i])
      PROVE  /\ FindCycle(wf) <=> ~Ranked(wf)
             /\ \A i \in DOMAIN wf.jobs : \A n \in Elements(wf.jobs[i].needs) : n \in J
  <2>1. ASSUME NEW i \in DOMAIN wf.jobs, NEW n \in Elements(wf.jobs[i].needs) PROVE n \in J
    <3>1. PICK k \in DOMAIN wf.jobs[i].needs : n = wf.jobs[i].needs[k]
      BY DEF Elements
    <3>2. wf.jobs[i].needs[k] \in J \ {wf.jobs[i].id}
      BY <1>1 DEF JobOk
    <3> QED BY <3>1, <3>2
  <2> QED BY <1>0, <1>1, <2>1, FindCycleIsExact
<1>2. ASSUME plan # Stuck PROVE Sound(wf) /\ Ranked(wf)
  <2>1. Parses(wf) /\ \A i \in DOMAIN wf.jobs : ExpandMatrix(wf.jobs[i].matrix) # <<>>
    BY <1>2, BuildIsOrder
  <2>2. /\ wf.jobs # <<>> /\ FilterOk(wf.filter) /\ Cardinality(J) = Len(wf.jobs)
        /\ \A i \in DOMAIN wf.jobs : JobOk(wf, wf.jobs[i])
        /\ ~FindCycle(wf)
    BY <2>1 DEF Parses
  <2> QED BY <1>1, <2>1, <2>2 DEF Sound
<1>3. ASSUME Sound(wf), Ranked(wf) PROVE plan # Stuck
  <2>1. /\ wf.jobs # <<>> /\ FilterOk(wf.filter) /\ Cardinality(J) = Len(wf.jobs)
        /\ \A i \in DOMAIN wf.jobs : JobOk(wf, wf.jobs[i])
        /\ \A i \in DOMAIN wf.jobs : ExpandMatrix(wf.jobs[i].matrix) # <<>>
    BY <1>3 DEF Sound
  <2>2. Parses(wf)
    BY <1>1, <1>3, <2>1 DEF Parses
  <2>3. PICK cells : cells = Cells(wf)
    OBVIOUS
  <2>4. plan = TopologicalOrder(cells)
    BY <2>1, <2>2, <2>3, BuildIsOrder
  <2>5. CellsOk(cells) /\ OfJobs(wf, Len(wf.jobs), cells)
    BY <2>1, <2>3, CellsAreOk, CellsHaveKeys
  <2>6. PICK rank \in [J -> 1 .. Len(wf.jobs)] :
            \A i \in DOMAIN wf.jobs : \A n \in Elements(wf.jobs[i].needs) : rank[n] < rank[wf.jobs[i].id]
    BY <1>3 DEF Ranked
  <2>7. rank \in [J -> Nat]
    OBVIOUS
  <2>8. \A n \in J : \E c \in Elements(cells) : c.base = n
    <3> SUFFICES ASSUME NEW n \in J PROVE \E c \in Elements(cells) : c.base = n
      OBVIOUS
    <3>1. PICK j \in 1 .. Len(wf.jobs) : n = wf.jobs[j].id
      BY <1>0 DEF Ids
    <3>2. ExpandMatrix(wf.jobs[j].matrix) # <<>>
      BY <1>0, <2>1
    <3> QED BY <2>5, <3>1, <3>2 DEF OfJobs
  <2>9. ASSUME NEW c \in Elements(cells)
        PROVE  /\ c.base \in J /\ c.needs \subseteq J
               /\ \A n \in c.needs : rank[n] < rank[c.base]
    <3>1. PICK j \in 1 .. Len(wf.jobs) : c.base = wf.jobs[j].id /\ c.needs = Elements(wf.jobs[j].needs)
      BY <2>5 DEF OfJobs
    <3>2. c.base \in J
      BY <1>0, <3>1 DEF Ids
    <3>3. c.needs \subseteq J
      BY <1>0, <1>1, <2>1, <3>1
    <3>4. \A n \in c.needs : rank[n] < rank[c.base]
      BY <1>0, <2>6, <3>1
    <3> QED BY <3>2, <3>3, <3>4
  <2>10. cells # <<>>
    <3>1. PICK n : n \in J
      <4>1. wf.jobs \in Seq(Elements(wf.jobs))
        BY DEF IsWorkflow, IsList
      <4>2. 1 \in DOMAIN wf.jobs
        BY <2>1, <4>1
      <4> QED BY <4>2 DEF Ids
    <3>2. PICK c \in Elements(cells) : c.base = n
      BY <2>8, <3>1
    <3> QED BY <3>2 DEF Elements
  <2> HIDE DEF J
  <2> QED BY <2>4, <2>5, <2>7, <2>8, <2>9, <2>10, RankedIsOrdered
<1> QED BY <1>2, <1>3

-----------------------------------------------------------------------------
(* The specification.                                                      *)

Inputs ==
    Globs \union {[kind |-> "condition", tree |-> t] : t \in Conditions}
          \union {[kind |-> "workflow", wf |-> w] : w \in Workflows}
          \union {[kind |-> "matrix", m |-> m] : m \in Matrices}
          \union {[kind |-> "log", vault |-> l.vault, line |-> l.line] : l \in Logs}

(* What kind says of the input.                                            *)
LEMMA InputOfKind ==
    ASSUME NEW x \in Inputs
    PROVE  /\ x.kind \in {"segment", "path"} => x \in Globs
           /\ x.kind = "condition" => x.tree \in Conditions
           /\ x.kind = "workflow" => x.wf \in Workflows
           /\ x.kind = "matrix" => x.m \in Matrices
           /\ x.kind = "log" => \E l \in Logs : x.vault = l.vault /\ x.line = l.line
<1>1. CASE x \in Globs
  <2>1. x.kind \in {"segment", "path"}
    BY <1>1, GlobsAssumption
  <2> QED BY <1>1, <2>1
<1>2. CASE x \in {[kind |-> "condition", tree |-> t] : t \in Conditions}
  <2>1. x.kind = "condition" /\ x.tree \in Conditions
    BY <1>2
  <2> QED BY <2>1
<1>3. CASE x \in {[kind |-> "workflow", wf |-> w] : w \in Workflows}
  <2>1. PICK w \in Workflows : x = [kind |-> "workflow", wf |-> w]
    BY <1>3
  <2>2. x.kind = "workflow" /\ x.wf = w
    BY <2>1
  <2> QED BY <2>2
<1>4. CASE x \in {[kind |-> "matrix", m |-> m] : m \in Matrices}
  <2>1. PICK m \in Matrices : x = [kind |-> "matrix", m |-> m]
    BY <1>4
  <2>2. x.kind = "matrix" /\ x.m = m
    BY <2>1
  <2> QED BY <2>2
<1>5. CASE x \in {[kind |-> "log", vault |-> l.vault, line |-> l.line] : l \in Logs}
  <2>1. PICK l \in Logs : x = [kind |-> "log", vault |-> l.vault, line |-> l.line]
    BY <1>5
  <2>2. x.kind = "log" /\ x.vault = l.vault /\ x.line = l.line
    BY <2>1
  <2> QED BY <2>2
<1> QED BY <1>1, <1>2, <1>3, <1>4, <1>5 DEF Inputs

(* The input stays, and there is an output or there is none.               *)
Drawn == input \in Inputs /\ output.done \in BOOLEAN

LEMMA DrawnHolds == Spec => []Drawn
<1>1. Init => Drawn
  BY DEF Init, Drawn, Inputs, Pending
<1>2. Drawn /\ [Next]_vars => Drawn'
  <2> SUFFICES ASSUME Drawn, [Next]_vars PROVE Drawn'
    OBVIOUS
  <2>1. CASE UNCHANGED vars
    BY <2>1 DEF Drawn, vars
  <2>2. ASSUME NEW v, output' = Done(v) PROVE output'.done \in BOOLEAN
    BY <2>2 DEF Done
  <2>3. CASE MatchGlob
    BY <2>2, <2>3 DEF Drawn, MatchGlob
  <2>4. CASE EvalOne
    BY <2>2, <2>4 DEF Drawn, EvalOne
  <2>5. CASE PlanOne
    BY <2>2, <2>5 DEF Drawn, PlanOne
  <2>6. CASE ExpandOne
    BY <2>2, <2>6 DEF Drawn, ExpandOne
  <2>7. CASE LogOne
    BY <2>2, <2>7 DEF Drawn, LogOne
  <2> QED BY <2>1, <2>3, <2>4, <2>5, <2>6, <2>7 DEF Next
<1> QED BY <1>1, <1>2, PTL DEF Spec

(* match_segment and match_segments match a text against a pattern exactly *)
(* when the text can be cut to fit it, for every glob and every path.      *)
THEOREM GlobsAreTiled == Spec => []GlobIsTiling
<1>1. Init => GlobIsTiling
  BY DEF Init, GlobIsTiling, Computed, Pending
<1>2. Drawn /\ GlobIsTiling /\ [Next]_vars => GlobIsTiling'
  <2> SUFFICES ASSUME Drawn, GlobIsTiling, [Next]_vars PROVE GlobIsTiling'
    OBVIOUS
  <2>1. CASE UNCHANGED vars
    BY <2>1 DEF GlobIsTiling, Computed, vars
  <2>2. CASE MatchGlob
    <3>1. input' = input /\ input \in Globs
      BY <2>2, InputOfKind DEF Drawn, MatchGlob
    <3>2. CASE input.kind = "segment"
      <4>1. input.pat \in Seq(Characters) /\ input.text \in Seq(Characters)
        BY <3>1, <3>2, GlobsAssumption
      <4>2. MatchSegment(input.pat, input.text) = SegmentTiles(input.pat, input.text)
        BY <4>1, MatchSegmentIsTiling
      <4>3. output'.v = MatchSegment(input.pat, input.text)
        BY <2>2, <3>2 DEF MatchGlob, Done
      <4> QED BY <3>1, <3>2, <4>2, <4>3 DEF GlobIsTiling, Computed
    <3>3. CASE input.kind = "path"
      <4>1. input.pat \in Seq(Seq(Characters)) /\ input.text \in Seq(Seq(Characters))
        BY <3>1, <3>3, GlobsAssumption
      <4>2. MatchSegments(input.pat, input.text) = PathTiles(input.pat, input.text)
        BY <4>1, MatchSegmentsIsTiling
      <4>3. output'.v = MatchSegments(input.pat, input.text)
        BY <2>2, <3>3 DEF MatchGlob, Done
      <4> QED BY <3>1, <3>3, <4>2, <4>3 DEF GlobIsTiling, Computed
    <3> QED BY <2>2, <3>2, <3>3 DEF MatchGlob
  <2>3. CASE EvalOne
    BY <2>3 DEF GlobIsTiling, Computed, EvalOne
  <2>4. CASE PlanOne
    BY <2>4 DEF GlobIsTiling, Computed, PlanOne
  <2>5. CASE ExpandOne
    BY <2>5 DEF GlobIsTiling, Computed, ExpandOne
  <2>6. CASE LogOne
    BY <2>6 DEF GlobIsTiling, Computed, LogOne
  <2> QED BY <2>1, <2>2, <2>3, <2>4, <2>5, <2>6 DEF Next
<1> QED BY <1>1, <1>2, DrawnHolds, PTL DEF Spec

(* expand_matrix runs every combination that is not excluded and every     *)
(* include entry in full and nothing else, for every matrix.               *)
THEOREM MatricesAreExact == Spec => []MatrixIsExact
<1>1. Init => MatrixIsExact
  BY DEF Init, MatrixIsExact, Computed, Pending
<1>2. Drawn /\ MatrixIsExact /\ [Next]_vars => MatrixIsExact'
  <2> SUFFICES ASSUME Drawn, MatrixIsExact, [Next]_vars PROVE MatrixIsExact'
    OBVIOUS
  <2>1. CASE UNCHANGED vars
    BY <2>1 DEF MatrixIsExact, Computed, vars
  <2>2. CASE ExpandOne
    <3>1. input' = input /\ input.m \in Matrices /\ output'.v = ExpandMatrix(input.m)
      BY <2>2, InputOfKind DEF Drawn, ExpandOne, Done
    <3>2. PICK m : m = input.m /\ m = input'.m
      BY <3>1
    <3>3. IsMatrix(m)
      BY <3>1, <3>2, MatricesAssumption
    <3>4. PICK wanted : wanted = {c \in Combinations(m.axes) : ~\E e \in m.exclude : MatchesSubset(c, e)}
      OBVIOUS
    <3>5. CASE \E a \in DOMAIN m.axes : m.axes[a] = <<>>
      <4>1. output'.v = <<>>
        BY <3>1, <3>2, <3>5 DEF ExpandMatrix
      <4> QED BY <3>2, <3>5, <4>1 DEF MatrixIsExact
    <3>6. CASE \A a \in DOMAIN m.axes : m.axes[a] # <<>>
      <4>1. /\ \A c \in wanted \union Elements(m.include) : \E d \in Elements(ExpandMatrix(m)) : Within(c, d)
            /\ \A d \in Elements(ExpandMatrix(m)) : \E c \in wanted \union Elements(m.include) : Within(c, d)
        BY <3>3, <3>4, <3>6, ExpandMatrixIsExact
      <4>2. output'.v = ExpandMatrix(m)
        BY <3>1, <3>2
      <4>3. ~\E a \in DOMAIN m.axes : m.axes[a] = <<>>
        BY <3>6
      <4> QED BY <3>2, <3>4, <4>1, <4>2, <4>3 DEF MatrixIsExact
    <3> QED BY <3>5, <3>6
  <2>3. CASE MatchGlob
    BY <2>3 DEF MatrixIsExact, Computed, MatchGlob
  <2>4. CASE EvalOne
    BY <2>4 DEF MatrixIsExact, Computed, EvalOne
  <2>5. CASE PlanOne
    BY <2>5 DEF MatrixIsExact, Computed, PlanOne
  <2>6. CASE LogOne
    BY <2>6 DEF MatrixIsExact, Computed, LogOne
  <2> QED BY <2>1, <2>2, <2>3, <2>4, <2>5, <2>6 DEF Next
<1> QED BY <1>1, <1>2, DrawnHolds, PTL DEF Spec

(* The characters of a log and of what is struck out of it.                *)
Letters == Characters \union {"*", "-"}

(* No secret stays in a log, and one that stands by itself leaves nothing  *)
(* of itself behind: Masker::mask strikes out longest first, whatever the  *)
(* store holds and whatever the line says.                                 *)
THEOREM LogsKeepSecrets == Spec => []MaskedTextHidesSecrets
<1>1. Init => MaskedTextHidesSecrets
  BY DEF Init, MaskedTextHidesSecrets, Computed, Pending
<1>2. Drawn /\ MaskedTextHidesSecrets /\ [Next]_vars => MaskedTextHidesSecrets'
  <2> SUFFICES ASSUME Drawn, MaskedTextHidesSecrets, [Next]_vars PROVE MaskedTextHidesSecrets'
    OBVIOUS
  <2>1. CASE UNCHANGED vars
    BY <2>1 DEF MaskedTextHidesSecrets, Computed, vars
  <2>2. CASE LogOne
    <3>1. input' = input /\ input.kind = "log"
      BY <2>2 DEF LogOne
    <3>2. PICK l \in Logs : input.vault = l.vault /\ input.line = l.line
      BY <3>1, InputOfKind DEF Drawn
    <3>3. CASE ~Resolve(l.vault, Prefix).ok
      BY <3>1, <3>2, <3>3 DEF MaskedTextHidesSecrets
    <3>4. CASE Resolve(l.vault, Prefix).ok
      <4>1. PICK values : values = Elements(Resolve(l.vault, Prefix).secrets)
        OBVIOUS
      <4>2. values \subseteq Seq(Characters) /\ IsFiniteSet(values)
        <5>1. IsList(l.vault) /\ \A i \in DOMAIN l.vault : l.vault[i].value \in Seq(Characters)
          BY LogsAssumption
        <5> QED BY <3>4, <4>1, <5>1, SecretsGiven
      <4>3. values \subseteq Seq(Letters)
        <5>1. Characters \subseteq Letters
          BY DEF Letters
        <5> QED BY <4>2, <5>1, SeqMonotonic
      <4>4. PICK a \in Seq(Letters) : a = l.line[1]
        <5>1. l.line[1] \in Seq(Characters) /\ Characters \subseteq Letters
          BY LogsAssumption DEF Letters
        <5> QED BY <5>1, SeqMonotonic
      <4>5. PICK b \in Seq(Letters) : b = l.line[2]
        <5>1. l.line[2] \in Seq(Characters) /\ Characters \subseteq Letters
          BY LogsAssumption DEF Letters
        <5> QED BY <5>1, SeqMonotonic
      <4>6. PICK order \in MaskOrder(values) : output' = Done(Mask(Line(l.line), order))
        BY <2>2, <3>2, <3>4, <4>1 DEF LogOne
      <4>7. PICK shown : shown = Mask(a \o <<"-">> \o b, order)
        OBVIOUS
      <4>8. output'.v = shown
        BY <4>4, <4>5, <4>6, <4>7 DEF Line, Done
      <4>9. "*" \in Letters /\ "-" \in Letters /\ MinMaskLen \in Nat \ {0}
        BY LogsAssumption DEF Letters
      <4>10. PICK M : M = Maskable(values)
        OBVIOUS
      <4>11. /\ \A v \in M : "*" \notin Elements(v) => ~Holds(shown, v)
             /\ (/\ \A v \in M : Elements(v) \intersect {"*", "-"} = {}
                 /\ a \in M \/ ~\E v \in M : Holds(a, v)
                 /\ b \in M \/ ~\E v \in M : Holds(b, v))
                => shown = (IF a \in M THEN Redacted ELSE a) \o <<"-">> \o (IF b \in M THEN Redacted ELSE b)
        <5>1. KeepsSecrets(shown, M, a, b)
          BY <4>2, <4>3, <4>7, <4>9, <4>10, MaskedLog
        <5> QED BY <5>1 DEF KeepsSecrets
      <4>12. M = Maskable(Elements(Resolve(input'.vault, Prefix).secrets)) /\ input'.line = l.line
        BY <3>1, <3>2, <4>1, <4>10
      <4>13. ASSUME \A v \in M : Elements(v) \intersect {"*", "-"} = {},
                    \A i \in 1 .. 2 : l.line[i] \in M \/ ~\E v \in M : Holds(l.line[i], v)
             PROVE  output'.v = Line([i \in 1 .. 2 |-> IF l.line[i] \in M THEN Redacted ELSE l.line[i]])
        <5>1. (a \in M \/ ~\E v \in M : Holds(a, v)) /\ (b \in M \/ ~\E v \in M : Holds(b, v))
          BY <4>4, <4>5, <4>13
        <5>2. output'.v = (IF a \in M THEN Redacted ELSE a) \o <<"-">> \o (IF b \in M THEN Redacted ELSE b)
          BY <4>8, <4>11, <4>13, <5>1
        <5> DEFINE runs == [i \in 1 .. 2 |-> IF l.line[i] \in M THEN Redacted ELSE l.line[i]]
        <5>3. runs[1] = (IF a \in M THEN Redacted ELSE a) /\ runs[2] = (IF b \in M THEN Redacted ELSE b)
          BY <4>4, <4>5
        <5> HIDE DEF runs
        <5>4. output'.v = Line(runs)
          BY <5>2, <5>3 DEF Line
        <5> QED BY <5>4 DEF runs
      <4>14. \A v \in M : "*" \notin Elements(v) => ~Holds(output'.v, v)
        BY <4>8, <4>11
      <4> QED BY <4>12, <4>13, <4>14 DEF MaskedTextHidesSecrets
    <3> QED BY <3>3, <3>4
  <2>3. CASE MatchGlob
    BY <2>3 DEF MaskedTextHidesSecrets, Computed, MatchGlob
  <2>4. CASE EvalOne
    BY <2>4 DEF MaskedTextHidesSecrets, Computed, EvalOne
  <2>5. CASE PlanOne
    BY <2>5 DEF MaskedTextHidesSecrets, Computed, PlanOne
  <2>6. CASE ExpandOne
    BY <2>6 DEF MaskedTextHidesSecrets, Computed, ExpandOne
  <2> QED BY <2>1, <2>2, <2>3, <2>4, <2>5, <2>6 DEF Next
<1> QED BY <1>1, <1>2, DrawnHolds, PTL DEF Spec

(* A plan has all cells of the workflow, under keys no two share, each     *)
(* after every cell of every job it needs: unique_key and                  *)
(* topological_order, for every workflow whose cells can be numbered.      *)
THEOREM PlansRun == Spec => []PlansAreRunnable
<1>1. Init => PlansAreRunnable
  BY DEF Init, PlansAreRunnable, Computed, Pending
<1>2. Drawn /\ PlansAreRunnable /\ [Next]_vars => PlansAreRunnable'
  <2> SUFFICES ASSUME Drawn, PlansAreRunnable, [Next]_vars PROVE PlansAreRunnable'
    OBVIOUS
  <2>0. /\ output.done /\ input.kind = "workflow" /\ output.v # Stuck => Runnable(output.v, Cells(input.wf))
        /\ PlansAreRunnable'
           <=> (output'.done /\ input'.kind = "workflow" /\ output'.v # Stuck
                => Runnable(output'.v, Cells(input'.wf)))
    BY DEF PlansAreRunnable, Runnable, Elements, Computed
  <2>1. CASE UNCHANGED vars
    BY <2>0, <2>1 DEF vars
  <2>2. CASE PlanOne
    <3>1. /\ input' = input /\ input.wf \in Workflows
          /\ output'.v = (IF Parses(input.wf) THEN Build(input.wf) ELSE Stuck)
      BY <2>2, InputOfKind DEF Drawn, PlanOne, Done
    <3>2. PICK wf : wf = input.wf /\ wf = input'.wf
      BY <3>1
    <3>3. PICK plan : plan = output'.v
      OBVIOUS
    <3>4. IsWorkflow(wf)
      BY <3>1, <3>2, WorkflowsAssumption DEF IsWorkflow
    <3>5. plan # Stuck => Runnable(plan, Cells(wf))
      BY <3>1, <3>2, <3>3, <3>4, BuildIsRunnable
    <3> QED BY <2>0, <3>2, <3>3, <3>5
  <2>3. CASE MatchGlob
    BY <2>3 DEF PlansAreRunnable, Computed, MatchGlob
  <2>4. CASE EvalOne
    BY <2>4 DEF PlansAreRunnable, Computed, EvalOne
  <2>5. CASE ExpandOne
    BY <2>5 DEF PlansAreRunnable, Computed, ExpandOne
  <2>6. CASE LogOne
    BY <2>6 DEF PlansAreRunnable, Computed, LogOne
  <2> QED BY <2>1, <2>2, <2>3, <2>4, <2>5, <2>6 DEF Next
<1> QED BY <1>1, <1>2, DrawnHolds, PTL DEF Spec

(* A workflow is turned away for its needs exactly when they cannot be     *)
(* ranked, for every workflow: find_cycle finds every cycle and nothing    *)
(* else, and topological_order places what it lets through.                *)
THEOREM CyclesAreTurnedAway == Spec => []CyclesAreRejected
<1>1. Init => CyclesAreRejected
  BY DEF Init, CyclesAreRejected, Computed, Pending
<1>2. Drawn /\ CyclesAreRejected /\ [Next]_vars => CyclesAreRejected'
  <2> SUFFICES ASSUME Drawn, CyclesAreRejected, [Next]_vars PROVE CyclesAreRejected'
    OBVIOUS
  <2>0. /\ output.done /\ input.kind = "workflow" => (output.v # Stuck <=> Sound(input.wf) /\ Ranked(input.wf))
        /\ CyclesAreRejected'
           <=> (output'.done /\ input'.kind = "workflow" =>
                (output'.v # Stuck <=> Sound(input'.wf) /\ Ranked(input'.wf)))
    BY DEF CyclesAreRejected, Computed
  <2>1. CASE UNCHANGED vars
    BY <2>0, <2>1 DEF vars
  <2>2. CASE PlanOne
    <3>1. /\ input' = input /\ input.wf \in Workflows
          /\ output'.v = (IF Parses(input.wf) THEN Build(input.wf) ELSE Stuck)
      BY <2>2, InputOfKind DEF Drawn, PlanOne, Done
    <3>2. PICK wf : wf = input.wf /\ wf = input'.wf
      BY <3>1
    <3>3. PICK plan : plan = output'.v
      OBVIOUS
    <3>4. IsWorkflow(wf)
      BY <3>1, <3>2, WorkflowsAssumption DEF IsWorkflow
    <3>5. plan # Stuck <=> Sound(wf) /\ Ranked(wf)
      BY <3>1, <3>2, <3>3, <3>4, PlannedWhenRanked
    <3> QED BY <2>0, <3>2, <3>3, <3>5
  <2>3. CASE MatchGlob
    BY <2>3 DEF CyclesAreRejected, Computed, MatchGlob
  <2>4. CASE EvalOne
    BY <2>4 DEF CyclesAreRejected, Computed, EvalOne
  <2>5. CASE ExpandOne
    BY <2>5 DEF CyclesAreRejected, Computed, ExpandOne
  <2>6. CASE LogOne
    BY <2>6 DEF CyclesAreRejected, Computed, LogOne
  <2> QED BY <2>1, <2>2, <2>3, <2>4, <2>5, <2>6 DEF Next
<1> QED BY <1>1, <1>2, DrawnHolds, PTL DEF Spec

(* The evaluator, which computes while it parses, gives every condition of *)
(* up to two operators in depth, over any operands and in any context, the *)
(* value of its tree: && binds tighter than ||, ! and == tighter than &&,  *)
(* and a parenthesis is read as one operand.  A comparison under a ! is in *)
(* parentheses here: without, the parser does not read what expr.rs says.  *)
THEOREM ConditionsMean == Spec => []ConditionsMeanWhatTheySay
<1>1. Init => ConditionsMeanWhatTheySay
  BY DEF Init, ConditionsMeanWhatTheySay, Computed, Pending
<1>2. Drawn /\ ConditionsMeanWhatTheySay /\ [Next]_vars => ConditionsMeanWhatTheySay'
  <2> SUFFICES ASSUME Drawn, ConditionsMeanWhatTheySay, [Next]_vars
               PROVE  ConditionsMeanWhatTheySay'
    OBVIOUS
  <2>1. CASE UNCHANGED vars
    BY <2>1 DEF ConditionsMeanWhatTheySay, Computed, vars
  <2>2. CASE MatchGlob
    BY <2>2 DEF ConditionsMeanWhatTheySay, Computed, MatchGlob
  <2>3. CASE EvalOne
    <3>1. input' = input /\ input.kind = "condition"
      BY <2>3 DEF EvalOne
    <3>2. input.tree \in Conditions
      BY <3>1, InputOfKind DEF Drawn
    <3>3. output'.v = Eval(Context, Written(Conditions)[input.tree])
      BY <2>3 DEF EvalOne, Done
    <3>4. output'.v.ok /\ output'.v.v = Meaning(Context, Conditions)[input.tree]
      BY <3>2, <3>3, ConditionsEvaluate
    <3> QED BY <3>1, <3>4 DEF ConditionsMeanWhatTheySay
  <2>4. CASE PlanOne
    BY <2>4 DEF ConditionsMeanWhatTheySay, Computed, PlanOne
  <2>5. CASE ExpandOne
    BY <2>5 DEF ConditionsMeanWhatTheySay, Computed, ExpandOne
  <2>6. CASE LogOne
    BY <2>6 DEF ConditionsMeanWhatTheySay, Computed, LogOne
  <2> QED BY <2>1, <2>2, <2>3, <2>4, <2>5, <2>6 DEF Next
<1> QED BY <1>1, <1>2, DrawnHolds, PTL DEF Spec
=============================================================================
