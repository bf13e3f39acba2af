--------------------------- MODULE RecursionLemmas ---------------------------
(***************************************************************************)
(* What the recursive functions of the models compute.  The provers have   *)
(* no induction over a formula; induction over a set of naturals follows   *)
(* from their order being well-founded, and is enough.                     *)
(***************************************************************************)
EXTENDS Recursion, SequenceTheorems, WellFoundedInduction, TLAPS

(* Every set of naturals has a least element.                              *)
LEMMA LeastNatural ==
  ASSUME NEW S, S \subseteq Nat, S # {}
  PROVE  \E m \in S : \A i \in S : m <= i
<1> DEFINE R == OpToRel(<, Nat)
<1>1. IsWellFoundedOn(R, Nat)
  BY NatLessThanWellFounded
<1>2. \A i \in Nat : \A j \in Nat : i < j => <<i, j>> \in R
  BY DEF OpToRel
<1> HIDE DEF R
<1>3. PICK m \in S : \A i \in S : ~(<<i, m>> \in R)
  BY <1>1, WFMin
<1>4. \A i \in S : ~(i < m)
  BY <1>2, <1>3
<1>5. \A i \in S : i \in Nat /\ m \in Nat
  OBVIOUS
<1> QED
  BY <1>4, <1>5

(* Induction: a set of naturals closed under successor has them all.       *)
LEMMA SetInduction ==
  ASSUME NEW S, 0 \in S, \A n \in Nat : n \in S => n + 1 \in S
  PROVE  \A n \in Nat : n \in S
<1> SUFFICES ASSUME Nat \ S # {} PROVE FALSE
  OBVIOUS
<1>1. PICK m \in Nat \ S : \A i \in Nat \ S : m <= i
  BY LeastNatural
<1>2. m \in Nat /\ m # 0
  OBVIOUS
<1>3. m - 1 \in Nat /\ m - 1 < m /\ m = (m - 1) + 1
  BY <1>2
<1>4. m - 1 \in S
  BY <1>1, <1>3
<1> QED
  BY <1>1, <1>3, <1>4

Follows(f, v, G) == f[0] = v /\ \A n \in Nat : f[n + 1] = G[n][f[n]]

(* A function on the naturals is defined by its value at zero and the      *)
(* value that follows each.                                                *)
THEOREM NatRecursion ==
  ASSUME NEW V, NEW v \in V, NEW G \in [Nat -> [V -> V]]
  PROVE  \E f \in [Nat -> V] : Follows(f, v, G)
<1> DEFINE Upto(n) == {g \in [0..n -> V] : g[0] = v /\ \A i \in 0..n : i # n => g[i + 1] = G[i][g[i]]}
<1>1. \A n \in Nat : n \in {k \in Nat : Upto(k) # {}}
  <2> DEFINE S == {k \in Nat : Upto(k) # {}}
  <2>1. 0 \in S
    <3>1. [i \in 0..0 |-> v] \in Upto(0)
      OBVIOUS
    <3> QED
      BY <3>1
  <2>2. ASSUME NEW n \in Nat, n \in S
        PROVE  n + 1 \in S
    <3>1. PICK g \in Upto(n) : TRUE
      BY <2>2
    <3>2. PICK h : h = [i \in 0..(n + 1) |-> IF i = n + 1 THEN G[n][g[n]] ELSE g[i]]
      OBVIOUS
    <3>3. n \in 0..n /\ g[n] \in V /\ G[n][g[n]] \in V
      BY <3>1
    <3>4. h \in [0..(n + 1) -> V]
      BY <3>1, <3>2, <3>3
    <3>5. h[0] = v
      BY <3>1, <3>2
    <3>6. ASSUME NEW i \in 0..(n + 1), i # n + 1
          PROVE  h[i + 1] = G[i][h[i]]
      <4>1. i \in 0..n /\ i + 1 \in 0..(n + 1) /\ i \in 0..(n + 1)
        BY <3>6
      <4>2. h[i] = g[i]
        BY <3>2, <3>6, <4>1
      <4>3. CASE i = n
        BY <3>2, <4>1, <4>2, <4>3
      <4>4. CASE i # n
        <5>1. i + 1 \in 0..n /\ i + 1 # n + 1
          BY <4>1, <4>4
        <5>2. g[i + 1] = G[i][g[i]]
          BY <3>1, <4>1, <4>4
        <5> QED
          BY <3>2, <4>1, <4>2, <5>1, <5>2
      <4> QED
        BY <4>3, <4>4
    <3>7. h \in Upto(n + 1)
      BY <3>4, <3>5, <3>6
    <3> QED
      BY <3>7
  <2> HIDE DEF S
  <2>3. \A n \in Nat : n \in S
    BY <2>1, <2>2, SetInduction
  <2> QED
    BY <2>3 DEF S
<1>2. \A n \in Nat : Upto(n) # {}
  BY <1>1
<1>3. ASSUME NEW n \in Nat, NEW g \in Upto(n), NEW m \in Nat, NEW h \in Upto(m)
      PROVE  \A i \in Nat : i <= n /\ i <= m => g[i] = h[i]
  <2> DEFINE S == {i \in Nat : i <= n /\ i <= m => g[i] = h[i]}
  <2>1. 0 \in S
    OBVIOUS
  <2>2. ASSUME NEW i \in Nat, i \in S
        PROVE  i + 1 \in S
    <3> SUFFICES ASSUME i + 1 <= n, i + 1 <= m PROVE g[i + 1] = h[i + 1]
      OBVIOUS
    <3>1. i \in 0..n /\ i # n /\ i \in 0..m /\ i # m
      OBVIOUS
    <3>2. g[i + 1] = G[i][g[i]] /\ h[i + 1] = G[i][h[i]]
      BY <1>3, <3>1
    <3>3. g[i] = h[i]
      BY <2>2, <3>1
    <3> QED
      BY <3>2, <3>3
  <2> HIDE DEF S
  <2>3. \A i \in Nat : i \in S
    BY <2>1, <2>2, SetInduction
  <2> QED
    BY <2>3 DEF S
<1> DEFINE At(n) == CHOOSE g \in Upto(n) : TRUE
<1>4. \A n \in Nat : At(n) \in Upto(n)
  BY <1>2
<1> HIDE DEF At
<1>5. PICK f : f = [n \in Nat |-> At(n)[n]]
  OBVIOUS
<1>6. ASSUME NEW n \in Nat
      PROVE  /\ At(n) \in [0..n -> V] /\ At(n)[n] \in V /\ At(n)[0] = v
             /\ \A i \in 0..n : i # n => At(n)[i + 1] = G[i][At(n)[i]]
  BY <1>4
<1>7. f \in [Nat -> V] /\ f[0] = v
  BY <1>5, <1>6
<1>8. ASSUME NEW n \in Nat
      PROVE  f[n + 1] = G[n][f[n]]
  <2>1. n + 1 \in Nat /\ n \in 0..(n + 1) /\ n # n + 1 /\ n <= n /\ n <= n + 1
    OBVIOUS
  <2>2. At(n + 1)[n + 1] = G[n][At(n + 1)[n]]
    BY <1>6, <2>1
  <2>3. At(n + 1)[n] = At(n)[n]
    BY <1>3, <1>4, <2>1
  <2> QED
    BY <1>5, <2>1, <2>2, <2>3
<1> QED
  BY <1>7, <1>8 DEF Follows

(* Pow2 doubles from one.                                                  *)
LEMMA PowersOfTwo ==
  Pow2(0) = 1 /\ \A n \in Nat : Pow2(n) \in Nat \ {0} /\ Pow2(n + 1) = 2 * Pow2(n)
<1> DEFINE pow == CHOOSE f : f = [k \in Nat |-> IF k = 0 THEN 1 ELSE 2 * f[k - 1]]
<1>1. \E F \in [Nat -> Nat] : F[0] = 1 /\ \A n \in Nat : F[n + 1] = 2 * F[n]
  <2> HIDE DEF pow
  <2>1. PICK G : G = [n \in Nat |-> [x \in Nat |-> 2 * x]]
    OBVIOUS
  <2>2. G \in [Nat -> [Nat -> Nat]] /\ 1 \in Nat
    BY <2>1
  <2>3. PICK F \in [Nat -> Nat] : F[0] = 1 /\ \A n \in Nat : F[n + 1] = G[n][F[n]]
    <3>1. PICK V : V = Nat
      OBVIOUS
    <3>2. PICK v \in V : v = 1
      BY <2>2, <3>1
    <3>3. G \in [Nat -> [V -> V]]
      BY <2>2, <3>1
    <3>4. PICK F \in [Nat -> V] : Follows(F, v, G)
      BY <3>3, NatRecursion
    <3> QED
      BY <3>1, <3>2, <3>4 DEF Follows
  <2> QED
    BY <2>1, <2>3
<1>2. PICK F \in [Nat -> Nat] : F[0] = 1 /\ \A n \in Nat : F[n + 1] = 2 * F[n]
  BY <1>1
<1>3. F = [k \in Nat |-> IF k = 0 THEN 1 ELSE 2 * F[k - 1]]
  <2>1. \A k \in Nat : k # 0 => k - 1 \in Nat /\ (k - 1) + 1 = k
    OBVIOUS
  <2>2. \A k \in Nat : F[k] = IF k = 0 THEN 1 ELSE 2 * F[k - 1]
    BY <1>2, <2>1
  <2> QED
    BY <1>2, <2>2
<1>4. pow = [k \in Nat |-> IF k = 0 THEN 1 ELSE 2 * pow[k - 1]]
  BY <1>3
<1>5. \A n : Pow2(n) = pow[n]
  BY DEF Pow2
<1> HIDE DEF pow
<1>6. pow[0] = 1 /\ \A n \in Nat : pow[n + 1] = 2 * pow[n]
  <2>1. \A n \in Nat : n + 1 \in Nat /\ n + 1 # 0 /\ (n + 1) - 1 = n
    OBVIOUS
  <2> QED
    BY <1>4, <2>1
<1>7. \A n \in Nat : n \in {k \in Nat : pow[k] \in Nat \ {0}}
  <2> DEFINE S == {k \in Nat : pow[k] \in Nat \ {0}}
  <2>1. 0 \in S
    BY <1>6
  <2>2. \A n \in Nat : n \in S => n + 1 \in S
    BY <1>6
  <2> HIDE DEF S
  <2>3. \A n \in Nat : n \in S
    BY <2>1, <2>2, SetInduction
  <2> QED
    BY <2>3 DEF S
<1> QED
  BY <1>5, <1>6, <1>7

-----------------------------------------------------------------------------
(* Lists as functions, and without one of their elements.                  *)
LEMMA ListOf ==
  ASSUME NEW S, NEW n \in Nat, NEW f, f \in [1..n -> S]
  PROVE  f \in Seq(S) /\ Len(f) = n /\ DOMAIN f = 1..n
<1>1. f \in Seq(S)
  BY SeqDef
<1> QED
  BY <1>1

LEMMA RowOf ==
  ASSUME NEW S, NEW l \in Seq(S)
  PROVE  Len(l) \in Nat /\ DOMAIN l = 1..Len(l) /\ \A i \in DOMAIN l : l[i] \in S
  OBVIOUS

LEMMA ListWithout ==
  ASSUME NEW S, NEW l \in Seq(S), NEW i \in DOMAIN l
  PROVE  LET r == [j \in 1..(Len(l) - 1) |-> l[IF j < i THEN j ELSE j + 1]]
         IN  r \in Seq(S) /\ Len(r) = Len(l) - 1 /\ DOMAIN r = 1..(Len(l) - 1)
<1> DEFINE r == [j \in 1..(Len(l) - 1) |-> l[IF j < i THEN j ELSE j + 1]]
<1>1. Len(l) \in Nat /\ i \in 1..Len(l) /\ Len(l) - 1 \in Nat /\ \A j \in 1..Len(l) : l[j] \in S
  BY RowOf
<1>2. \A j \in 1..(Len(l) - 1) : (IF j < i THEN j ELSE j + 1) \in 1..Len(l)
  BY <1>1
<1>3. r \in [1..(Len(l) - 1) -> S]
  BY <1>1, <1>2
<1> HIDE DEF r
<1>4. r \in Seq(S) /\ Len(r) = Len(l) - 1 /\ DOMAIN r = 1..(Len(l) - 1)
  BY <1>1, <1>3, ListOf
<1> QED
  BY <1>4 DEF r

-----------------------------------------------------------------------------
(* Filtering a list.  The prefixes of the result, as it is built.          *)
Builds(kept, s, I) ==
  /\ Picked(s, I) = kept[Len(s)] /\ kept[0] = <<>>
  /\ \A n \in Nat : kept[n + 1] = IF n + 1 \in I THEN Append(kept[n], s[n + 1]) ELSE kept[n]

LEMMA PickedBuilds ==
  ASSUME NEW S, NEW s, NEW I, \A i \in I : s[i] \in S
  PROVE  \E kept : Builds(kept, s, I)
<1> DEFINE kept == CHOOSE f : f = [k \in Nat |->
                     IF k = 0 THEN <<>>
                     ELSE IF k \in I THEN Append(f[k - 1], s[k]) ELSE f[k - 1]]
           Next(n, x) == IF n + 1 \in I THEN Append(x, s[n + 1]) ELSE x
<1>1. \E F \in [Nat -> Seq(S)] : F[0] = <<>> /\ \A n \in Nat : F[n + 1] = Next(n, F[n])
  <2> HIDE DEF kept
  <2>1. PICK G : G = [n \in Nat |-> [x \in Seq(S) |-> Next(n, x)]]
    OBVIOUS
  <2>2. \A n \in Nat, x \in Seq(S) : Next(n, x) \in Seq(S)
    OBVIOUS
  <2>3. <<>> \in Seq(S)
    OBVIOUS
  <2> HIDE DEF Next
  <2>4. G \in [Nat -> [Seq(S) -> Seq(S)]]
    BY <2>1, <2>2
  <2>5. PICK F \in [Nat -> Seq(S)] : F[0] = <<>> /\ \A n \in Nat : F[n + 1] = G[n][F[n]]
    <3>1. PICK V : V = Seq(S)
      OBVIOUS
    <3>2. PICK v \in V : v = <<>>
      BY <2>3, <3>1
    <3>3. G \in [Nat -> [V -> V]]
      BY <2>4, <3>1
    <3>4. PICK F \in [Nat -> V] : Follows(F, v, G)
      BY <3>3, NatRecursion
    <3> QED
      BY <3>1, <3>2, <3>4 DEF Follows
  <2>6. ASSUME NEW n \in Nat
        PROVE  F[n + 1] = Next(n, F[n])
    <3>1. F[n] \in Seq(S)
      OBVIOUS
    <3> QED
      BY <2>1, <2>5, <3>1
  <2> QED
    BY <2>5, <2>6
<1>2. PICK F \in [Nat -> Seq(S)] : F[0] = <<>> /\ \A n \in Nat : F[n + 1] = Next(n, F[n])
  BY <1>1
<1>3. F = [k \in Nat |-> IF k = 0 THEN <<>> ELSE IF k \in I THEN Append(F[k - 1], s[k]) ELSE F[k - 1]]
  <2>1. \A k \in Nat : k # 0 => k - 1 \in Nat /\ (k - 1) + 1 = k
    OBVIOUS
  <2>2. ASSUME NEW k \in Nat
        PROVE  F[k] = IF k = 0 THEN <<>> ELSE IF k \in I THEN Append(F[k - 1], s[k]) ELSE F[k - 1]
    BY <1>2, <2>1
  <2> QED
    BY <1>2, <2>2
<1>4. kept = [k \in Nat |->
               IF k = 0 THEN <<>> ELSE IF k \in I THEN Append(kept[k - 1], s[k]) ELSE kept[k - 1]]
  BY <1>3
<1>5. Picked(s, I) = kept[Len(s)]
  BY DEF Picked
<1> HIDE DEF kept
<1>6. kept[0] = <<>> /\ \A n \in Nat : kept[n + 1] = Next(n, kept[n])
  <2>1. \A n \in Nat : n + 1 \in Nat /\ n + 1 # 0 /\ (n + 1) - 1 = n
    OBVIOUS
  <2> QED
    BY <1>4, <2>1
<1> QED
  BY <1>5, <1>6 DEF Builds

Members(s) == {s[k] : k \in DOMAIN s}

LEMMA Appended ==
  ASSUME NEW S, NEW q \in Seq(S), NEW e \in S
  PROVE  /\ Append(q, e) \in Seq(S) /\ Len(Append(q, e)) = Len(q) + 1 /\ Len(q) \in Nat
         /\ Members(Append(q, e)) = Members(q) \cup {e}
<1>1. PICK t : t = Append(q, e)
  OBVIOUS
<1>2. /\ t \in Seq(S) /\ Len(t) = Len(q) + 1 /\ Len(q) \in Nat
      /\ DOMAIN q = 1..Len(q) /\ DOMAIN t = 1..(Len(q) + 1)
  BY <1>1
<1>3. t[Len(q) + 1] = e /\ \A k \in 1..Len(q) : t[k] = q[k]
  BY <1>1
<1>4. PICK n \in Nat : n = Len(q)
  BY <1>2
<1>5. \A x : (\E k \in 1..(n + 1) : t[k] = x) <=> (\E k \in 1..n : q[k] = x) \/ e = x
  <2>1. \A k : k \in 1..(n + 1) <=> k \in 1..n \/ k = n + 1
    OBVIOUS
  <2>2. t[n + 1] = e /\ \A k \in 1..n : t[k] = q[k]
    BY <1>3, <1>4
  <2> QED
    BY <2>1, <2>2
<1> QED
  BY <1>1, <1>2, <1>4, <1>5 DEF Members

(* Picked keeps the elements at the places asked for, no others, and does  *)
(* not lengthen the list.                                                  *)
THEOREM PickedAre ==
  ASSUME NEW S, NEW s \in Seq(S), NEW I, I \subseteq DOMAIN s
  PROVE  /\ Picked(s, I) \in Seq(S) /\ Len(Picked(s, I)) <= Len(s)
         /\ Members(Picked(s, I)) = {s[i] : i \in I}
<1>1. Len(s) \in Nat /\ \A i \in I : i \in Nat \ {0} /\ i <= Len(s) /\ s[i] \in S
  OBVIOUS
<1>0. PICK kept : Builds(kept, s, I)
  <2>1. \A i \in I : s[i] \in S
    BY <1>1
  <2> QED
    BY <2>1, PickedBuilds
<1>2. /\ Picked(s, I) = kept[Len(s)] /\ kept[0] = <<>>
      /\ \A n \in Nat : kept[n + 1] = IF n + 1 \in I THEN Append(kept[n], s[n + 1]) ELSE kept[n]
  BY <1>0 DEF Builds
<1> DEFINE Has(n, x) == x \in Members(kept[n])
           Within(n, x) == \E i \in I : i <= n /\ s[i] = x
           Good == {n \in Nat : kept[n] \in Seq(S) /\ Len(kept[n]) <= n /\ \A x : Has(n, x) <=> Within(n, x)}
<1>3. 0 \in Good
  <2>1. \A x : ~Within(0, x)
    BY <1>1
  <2>2. PICK e : e = <<>>
    OBVIOUS
  <2>3. e \in Seq(S) /\ Len(e) = 0 /\ DOMAIN e = {}
    BY <2>2
  <2>4. kept[0] = e
    BY <1>2, <2>2
  <2>5. \A x : ~Has(0, x)
    BY <2>3, <2>4 DEF Members
  <2>6. kept[0] \in Seq(S) /\ Len(kept[0]) <= 0
    BY <2>3, <2>4
  <2> HIDE DEF Has, Within
  <2> QED
    BY <2>1, <2>5, <2>6
<1>4. ASSUME NEW n \in Nat, n \in Good
      PROVE  n + 1 \in Good
  <2>1. kept[n] \in Seq(S) /\ Len(kept[n]) <= n /\ \A x : Has(n, x) <=> Within(n, x)
    <3> HIDE DEF Has, Within
    <3> QED
      BY <1>4
  <2>2. CASE n + 1 \in I
    <3>1. s[n + 1] \in S
      BY <1>1, <2>2
    <3>2. kept[n + 1] = Append(kept[n], s[n + 1])
      BY <1>2, <2>2
    <3>3. kept[n + 1] \in Seq(S) /\ Len(kept[n + 1]) <= n + 1
      BY <2>1, <3>1, <3>2, Appended
    <3>4. \A x : Has(n + 1, x) <=> Has(n, x) \/ s[n + 1] = x
      BY <2>1, <3>1, <3>2, Appended
    <3>5. \A x : Within(n + 1, x) <=> Within(n, x) \/ s[n + 1] = x
      <4>1. \A i \in I : i <= n + 1 <=> i <= n \/ i = n + 1
        BY <1>1
      <4> QED
        BY <2>2, <4>1
    <3> HIDE DEF Has, Within
    <3> QED
      BY <2>1, <3>3, <3>4, <3>5
  <2>3. CASE n + 1 \notin I
    <3>1. kept[n + 1] = kept[n]
      BY <1>2, <2>3
    <3>2. kept[n + 1] \in Seq(S) /\ Len(kept[n + 1]) <= n + 1
      <4>1. \A l \in Nat : l <= n => l <= n + 1
        OBVIOUS
      <4>2. Len(kept[n]) \in Nat
        BY <2>1
      <4> QED
        BY <2>1, <3>1, <4>1, <4>2
    <3>3. \A x : Within(n + 1, x) <=> Within(n, x)
      <4>1. \A i \in I : i <= n + 1 <=> i <= n
        BY <1>1, <2>3
      <4> QED
        BY <4>1
    <3>4. \A x : Has(n + 1, x) <=> Has(n, x)
      BY <3>1
    <3> HIDE DEF Has, Within
    <3> QED
      BY <2>1, <3>2, <3>3, <3>4
  <2> QED
    BY <2>2, <2>3
<1> HIDE DEF Good
<1>5. \A n \in Nat : n \in Good
  BY <1>3, <1>4, SetInduction
<1>6. PICK r : r = Picked(s, I)
  OBVIOUS
<1>7. r \in Seq(S) /\ Len(r) <= Len(s) /\ \A x : x \in Members(r) <=> Within(Len(s), x)
  <2>1. r = kept[Len(s)] /\ Len(s) \in Good
    BY <1>1, <1>2, <1>5, <1>6
  <2> QED
    BY <2>1 DEF Good
<1>8. Members(r) = {s[i] : i \in I}
  BY <1>1, <1>7
<1> QED
  BY <1>6, <1>7, <1>8
=============================================================================
