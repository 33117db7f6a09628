------------------------------ MODULE ReadProofs ------------------------------
(* What the read actions answer, for every chat database, every policy and *)
(* every query, with windows and limits of any size.                       *)
EXTENDS ReadActions, TLAPS, FiniteSetTheorems, WellFoundedInduction

--------------------------------------------------------------------------------
(* Induction over the numbers, with the sets of numbers for predicates: what *)
(* the loops and the sorts of the code need.                                 *)

LEMMA BelowWellFounded == IsWellFoundedOn({s \in Nat \X Nat : s[1] < s[2]}, Nat)
<1>1. OpToRel(<, Nat) = {s \in Nat \X Nat : s[1] < s[2]}
  BY Zenon DEF OpToRel
<1> QED
  BY <1>1, NatLessThanWellFounded

LEMMA LeastNumber ==
  ASSUME NEW T, T \subseteq Nat, T # {}
  PROVE  \E m \in T : \A k \in T : m <= k
<1>1. PICK R : R = {s \in Nat \X Nat : s[1] < s[2]}
  OBVIOUS
<1>2. IsWellFoundedOn(R, Nat)
  BY <1>1, BelowWellFounded
<1>3. PICK m \in T : \A k \in T : ~ (<<k, m>> \in R)
  BY <1>2, WFMin, Zenon
<1>4. ASSUME NEW k \in T, k < m PROVE FALSE
  <2>1. <<k, m>> \in Nat \X Nat /\ <<k, m>>[1] = k /\ <<k, m>>[2] = m
    OBVIOUS
  <2>2. <<k, m>> \in R
    BY <1>1, <1>4, <2>1
  <2> QED
    BY <1>3, <2>2
<1> QED
  BY <1>3, <1>4

LEMMA Induction ==
  ASSUME NEW T, T \subseteq Nat, 0 \in T, \A n \in T : n + 1 \in T
  PROVE  T = Nat
<1>1. SUFFICES ASSUME Nat \ T # {} PROVE FALSE
  OBVIOUS
<1>2. PICK m \in Nat \ T : \A k \in Nat \ T : m <= k
  BY <1>1, LeastNumber
<1>3. m - 1 \in T
  BY <1>2
<1> QED
  BY <1>2, <1>3

LEMMA GreatestNumber ==
  ASSUME NEW n \in Nat, NEW S \in SUBSET (1..n), S # {}
  PROVE  Max(S) \in S /\ \A i \in S : i <= Max(S)
<1>1. PICK T : T = {n - i : i \in S}
  OBVIOUS
<1>2. T \subseteq Nat /\ T # {}
  <2>1. ASSUME NEW i \in S PROVE n - i \in Nat
    <3>1. i \in 1..n
      OBVIOUS
    <3> QED
      BY <3>1
  <2> QED
    BY <1>1, <2>1
<1>3. PICK m \in T : \A k \in T : m <= k
  BY <1>2, LeastNumber
<1>4. PICK x \in S : m = n - x
  BY <1>1, <1>3
<1>5. \A i \in S : x >= i
  <2> TAKE i \in S
  <2>1. m <= n - i
    BY <1>1, <1>3
  <2> QED
    BY <1>4, <2>1
<1> QED
  BY <1>5 DEF Max

\* The one element of a set that none exceeds
LEMMA MaxIs ==
  ASSUME NEW n \in Nat, NEW S \in SUBSET (1..n), NEW x \in S, \A i \in S : i <= x
  PROVE  Max(S) = x
<1>1. Max(S) \in S /\ x <= Max(S)
  BY GreatestNumber
<1>2. Max(S) <= x /\ Max(S) \in 1..n /\ x \in 1..n
  BY <1>1
<1> QED
  BY <1>1, <1>2

LEMMA MinOfTwo ==
  ASSUME NEW a \in Nat, NEW b \in Nat
  PROVE  Min({a, b}) = IF a < b THEN a ELSE b
  BY DEF Min

LEMMA MaxOfTwo ==
  ASSUME NEW a \in Nat, NEW b \in Nat
  PROVE  Max({a, b}) = IF a < b THEN b ELSE a
  BY DEF Max

Iterates(f, V, v0, step) ==
  /\ f \in [Nat -> V]
  /\ f[0] = v0
  /\ \A n \in Nat : f[n + 1] = step[<<n + 1, f[n]>>]

\* A function defined by recursion over the numbers exists, so that a LET with a
\* recursive function means what it says.
LEMMA Recursion ==
  ASSUME NEW V, NEW v0 \in V, NEW step \in [Nat \X V -> V]
  PROVE  \E f : Iterates(f, V, v0, step)
<1> DEFINE Good(f, n) == /\ f \in [0..n -> V]
                         /\ f[0] = v0
                         /\ \A k \in Nat : k < n => f[k + 1] = step[<<k + 1, f[k]>>]
<1>1. \A n \in Nat : \E f : Good(f, n)
  <2>1. PICK T : T = {n \in Nat : \E f : Good(f, n)}
    OBVIOUS
  <2>2. 0 \in T
    <3>1. Good([k \in 0..0 |-> v0], 0)
      OBVIOUS
    <3> HIDE DEF Good
    <3> QED
      BY <2>1, <3>1
  <2>3. ASSUME NEW n \in T PROVE n + 1 \in T
    <3>1. n \in Nat /\ \E f : Good(f, n)
      BY <2>1
    <3>2. PICK f : Good(f, n)
      BY <3>1
    <3>3. PICK g : g = [k \in 0..(n + 1) |-> IF k = n + 1 THEN step[<<n + 1, f[n]>>] ELSE f[k]]
      OBVIOUS
    <3>4. f[n] \in V /\ step[<<n + 1, f[n]>>] \in V
      <4>1. f[n] \in V
        BY <3>1, <3>2
      <4>2. <<n + 1, f[n]>> \in Nat \X V
        BY <3>1, <4>1
      <4> QED
        BY <4>1, <4>2
    <3>5. g \in [0..(n + 1) -> V]
      BY <3>1, <3>2, <3>3, <3>4
    <3>6. ASSUME NEW k \in Nat, k < n + 1 PROVE g[k + 1] = step[<<k + 1, g[k]>>]
      <4>1. g[k] = f[k] /\ k + 1 \in 0..(n + 1)
        BY <3>1, <3>3, <3>6
      <4>2. CASE k = n
        BY <3>1, <3>3, <4>1, <4>2
      <4>3. CASE k # n
        <5>1. k < n /\ k + 1 # n + 1
          BY <3>1, <3>6, <4>3
        <5> QED
          BY <3>2, <3>3, <4>1, <5>1
      <4> QED
        BY <4>2, <4>3
    <3>7. g[0] = v0
      BY <3>1, <3>2, <3>3
    <3>8. Good(g, n + 1)
      BY <3>5, <3>6, <3>7
    <3> HIDE DEF Good
    <3> QED
      BY <2>1, <3>1, <3>8
  <2>4. T = Nat
    BY <2>1, <2>2, <2>3, Induction
  <2> HIDE DEF Good
  <2> QED
    BY <2>1, <2>4
<1>2. ASSUME NEW n \in Nat, NEW f, Good(f, n + 1)
      PROVE  Good([k \in 0..n |-> f[k]], n)
  BY <1>2
<1>3. \A n \in Nat : \A f, g : Good(f, n) /\ Good(g, n) => f[n] = g[n]
  <2>1. PICK T : T = {n \in Nat : \A f, g : Good(f, n) /\ Good(g, n) => f[n] = g[n]}
    OBVIOUS
  <2>2. 0 \in T
    BY <2>1
  <2>3. ASSUME NEW n \in T PROVE n + 1 \in T
    <3>1. n \in Nat
      BY <2>1
    <3>2. ASSUME NEW f, NEW g, Good(f, n + 1), Good(g, n + 1)
          PROVE  f[n + 1] = g[n + 1]
      <4>1. PICK ff : ff = [k \in 0..n |-> f[k]]
        OBVIOUS
      <4>2. PICK gg : gg = [k \in 0..n |-> g[k]]
        OBVIOUS
      <4>3. Good(ff, n) /\ Good(gg, n)
        <5> HIDE DEF Good
        <5> QED
          BY <1>2, <3>1, <3>2, <4>1, <4>2
      <4>4. ff[n] = gg[n]
        <5> HIDE DEF Good
        <5> QED
          BY <2>1, <4>3
      <4>5. f[n] = g[n]
        BY <3>1, <4>1, <4>2, <4>4
      <4>6. n < n + 1 /\ n \in Nat
        BY <3>1
      <4> QED
        BY <3>2, <4>5, <4>6
    <3> HIDE DEF Good
    <3> QED
      BY <2>1, <3>1, <3>2
  <2>4. T = Nat
    <3> HIDE DEF Good
    <3> QED
      BY <2>1, <2>2, <2>3, Induction
  <2> HIDE DEF Good
  <2> QED
    BY <2>1, <2>4
<1>4. PICK h : h = [n \in Nat |-> CHOOSE f : Good(f, n)]
  OBVIOUS
<1>5. \A n \in Nat : Good(h[n], n)
  <2> HIDE DEF Good
  <2> QED
    BY <1>1, <1>4
<1>6. PICK F : F = [n \in Nat |-> h[n][n]]
  OBVIOUS
<1>7. F \in [Nat -> V] /\ F[0] = v0
  BY <1>5, <1>6
<1>8. ASSUME NEW n \in Nat PROVE F[n + 1] = step[<<n + 1, F[n]>>]
  <2>1. PICK f : f = h[n + 1]
    OBVIOUS
  <2>2. Good(f, n + 1)
    BY <1>5, <2>1
  <2>3. PICK g : g = [k \in 0..n |-> f[k]]
    OBVIOUS
  <2>4. Good(g, n) /\ Good(h[n], n)
    <3> HIDE DEF Good
    <3> QED
      BY <1>2, <1>5, <2>2, <2>3
  <2>5. g[n] = h[n][n]
    <3> HIDE DEF Good
    <3> QED
      BY <1>3, <2>4
  <2>6. f[n] = F[n]
    BY <1>6, <2>3, <2>5
  <2>7. n < n + 1
    OBVIOUS
  <2>8. f[n + 1] = step[<<n + 1, f[n]>>]
    BY <2>2, <2>7
  <2> QED
    BY <1>6, <2>1, <2>6, <2>8
<1> QED
  BY <1>7, <1>8 DEF Iterates

--------------------------------------------------------------------------------
(* How many *)

LEMMA Places ==
  ASSUME NEW n \in Nat, NEW S \in SUBSET (1..n)
  PROVE  IsFiniteSet(S) /\ Cardinality(S) \in Nat
<1>1. IsFiniteSet(1..n)
  BY FS_Interval
<1>2. IsFiniteSet(S)
  BY <1>1, FS_Subset, Zenon
<1> QED
  BY <1>2, FS_CardinalityType

\* A one-to-one image has as many elements.
LEMMA ImageSize ==
  ASSUME NEW A, NEW f, NEW T, IsFiniteSet(A),
         \A x, y \in A : f[x] = f[y] => x = y,
         \A x \in A : f[x] \in T,
         \A t \in T : \E x \in A : t = f[x]
  PROVE  IsFiniteSet(T) /\ Cardinality(T) = Cardinality(A)
<1>1. PICK g : g = [x \in A |-> f[x]]
  OBVIOUS
<1>2. g \in Bijection(A, T)
  BY <1>1 DEF Bijection, Injection, Surjection, IsInjective
<1>3. ExistsBijection(A, T)
  BY <1>2 DEF ExistsBijection
<1> QED
  BY <1>3, FS_Bijection, Zenon

--------------------------------------------------------------------------------
(* Sorting: OldestFirst and NewestFirst enumerate a set of places. *)

Increasing(s) == \A k, l \in DOMAIN s : k < l => s[k] < s[l]

\* s names every element of S, once.
Enumerates(s, S) ==
  /\ s \in [1 .. Cardinality(S) -> S]
  /\ \A k, l \in 1 .. Cardinality(S) : s[k] = s[l] => k = l
  /\ \A i \in S : \E k \in 1 .. Cardinality(S) : i = s[k]

LEMMA SortedExists ==
  ASSUME NEW n \in Nat, NEW S \in SUBSET (1..n)
  PROVE  \E s \in [1 .. Cardinality(S) -> S] : Increasing(s)
<1>1. PICK T : T = {m \in Nat : \A A \in SUBSET (1..m) :
                                 \E s \in [1 .. Cardinality(A) -> A] : Increasing(s)}
  OBVIOUS
<1>2. 0 \in T
  <2>1. ASSUME NEW A \in SUBSET (1..0)
        PROVE  \E s \in [1 .. Cardinality(A) -> A] : Increasing(s)
    <3>0. A = {}
      OBVIOUS
    <3>1. A = {} /\ Cardinality(A) = 0
      BY <3>0, FS_EmptySet
    <3>2. PICK s : s = [k \in 1..0 |-> k]
      OBVIOUS
    <3>3. s \in [1 .. Cardinality(A) -> A] /\ Increasing(s)
      BY <3>1, <3>2 DEF Increasing
    <3> QED
      BY <3>3
  <2> QED
    BY <1>1, <2>1
<1>3. ASSUME NEW m \in T PROVE m + 1 \in T
  <2>0. m \in Nat
    BY <1>1
  <2>1. ASSUME NEW A \in SUBSET (1..(m + 1)), m + 1 \notin A
        PROVE  \E s \in [1 .. Cardinality(A) -> A] : Increasing(s)
    <3>1. A \in SUBSET (1..m)
      BY <2>0, <2>1
    <3> QED
      BY <1>1, <3>1
  <2>2. ASSUME NEW A \in SUBSET (1..(m + 1)), m + 1 \in A
        PROVE  \E s \in [1 .. Cardinality(A) -> A] : Increasing(s)
    <3>1. PICK B : B = A \ {m + 1}
      OBVIOUS
    <3>2. B \in SUBSET (1..m)
      BY <2>0, <3>1
    <3>3. PICK b \in [1 .. Cardinality(B) -> B] : Increasing(b)
      BY <1>1, <3>2
    <3>4. IsFiniteSet(B) /\ Cardinality(B) \in Nat
      BY <2>0, <3>2, Places
    <3>5. Cardinality(A) = Cardinality(B) + 1
      <4>1. A = B \cup {m + 1} /\ m + 1 \notin B
        BY <2>2, <3>1
      <4> QED
        BY <3>4, <4>1, FS_AddElement
    <3>6. PICK s : s = [k \in 1 .. Cardinality(A) |-> IF k = Cardinality(A) THEN m + 1 ELSE b[k]]
      OBVIOUS
    <3>7. \A k \in 1 .. Cardinality(A) : k # Cardinality(A) => /\ k \in 1 .. Cardinality(B)
                                                           /\ s[k] = b[k]
                                                           /\ b[k] \in B
                                                           /\ b[k] < m + 1
      <4> TAKE k \in 1 .. Cardinality(A)
      <4> HAVE k # Cardinality(A)
      <4>1. k \in 1 .. Cardinality(B) /\ s[k] = b[k]
        BY <3>4, <3>5, <3>6
      <4>2. b[k] \in 1..m
        BY <4>1, <3>2
      <4> QED
        BY <2>0, <4>1, <4>2
    <3>8. s \in [1 .. Cardinality(A) -> A]
      BY <2>2, <3>1, <3>6, <3>7
    <3>9. ASSUME NEW k \in 1 .. Cardinality(A), NEW l \in 1 .. Cardinality(A), k < l
          PROVE  s[k] < s[l]
      <4>1. k # Cardinality(A) /\ s[k] = b[k] /\ b[k] < m + 1 /\ k \in 1 .. Cardinality(B)
        BY <3>4, <3>5, <3>7, <3>9
      <4>2. CASE l = Cardinality(A)
        BY <3>6, <4>1, <4>2
      <4>3. CASE l # Cardinality(A)
        <5>1. s[l] = b[l] /\ l \in 1 .. Cardinality(B)
          BY <3>7, <4>3
        <5> QED
          BY <3>3, <3>9, <4>1, <5>1 DEF Increasing
      <4> QED
        BY <4>2, <4>3
    <3>10. DOMAIN s = 1 .. Cardinality(A)
      BY <3>6
    <3> QED
      BY <3>8, <3>9, <3>10 DEF Increasing
  <2> QED
    BY <1>1, <2>0, <2>1, <2>2
<1>4. T = Nat
  BY <1>1, <1>2, <1>3, Induction
<1> QED
  BY <1>1, <1>4

LEMMA OldestFirstIs ==
  ASSUME NEW n \in Nat, NEW S \in SUBSET (1..n), NEW s, s = OldestFirst(S)
  PROVE  /\ Enumerates(s, S)
         /\ \A k, l \in 1 .. Cardinality(S) : k < l => s[k] < s[l]
<1>1. s \in [1 .. Cardinality(S) -> S] /\ Increasing(s)
  BY SortedExists DEF OldestFirst, Increasing
<1>2. \A k, l \in 1 .. Cardinality(S) : k < l => s[k] < s[l]
  BY <1>1 DEF Increasing
<1>3. IsFiniteSet(S) /\ Cardinality(S) \in Nat
  BY Places
<1>4. ASSUME NEW k \in 1 .. Cardinality(S), NEW l \in 1 .. Cardinality(S), s[k] = s[l]
      PROVE  k = l
  <2>1. s[k] \in 1..n /\ s[l] \in 1..n
    BY <1>1
  <2>2. k \in Nat /\ l \in Nat
    BY <1>3
  <2> QED
    BY <1>2, <1>4, <2>1, <2>2
<1>5. s \in Surjection(1 .. Cardinality(S), S)
  <2>1. s \in Injection(1 .. Cardinality(S), S)
    BY <1>1, <1>4 DEF Injection, IsInjective
  <2>2. Cardinality(1 .. Cardinality(S)) = Cardinality(S)
    BY <1>3, FS_Interval
  <2> QED
    BY <1>3, <2>1, <2>2, FS_Injection
<1>6. \A i \in S : \E k \in 1 .. Cardinality(S) : i = s[k]
  BY <1>1, <1>5 DEF Surjection
<1> QED
  BY <1>1, <1>2, <1>4, <1>6 DEF Enumerates

LEMMA NewestFirstIs ==
  ASSUME NEW n \in Nat, NEW S \in SUBSET (1..n), NEW s, s = NewestFirst(S)
  PROVE  /\ Enumerates(s, S)
         /\ \A k, l \in 1 .. Cardinality(S) : k < l => s[k] > s[l]
<1>1. PICK c : c = Cardinality(S)
  OBVIOUS
<1>2. IsFiniteSet(S) /\ c \in Nat
  BY <1>1, Places
<1>3. PICK o : o = OldestFirst(S)
  OBVIOUS
<1>4. o \in [1..c -> S] /\ \A k, l \in 1..c : k < l => o[k] < o[l]
  BY <1>1, <1>3, OldestFirstIs DEF Enumerates
<1>5. PICK r : r = [k \in 1..c |-> o[c + 1 - k]]
  OBVIOUS
<1>6. \A k \in 1..c : c + 1 - k \in 1..c
  BY <1>2
<1>7. r \in [1..c -> S]
  BY <1>4, <1>5, <1>6
<1>8. ASSUME NEW k \in 1..c, NEW l \in 1..c, k < l
      PROVE  r[k] > r[l]
  <2>1. c + 1 - l < c + 1 - k
    BY <1>2, <1>8
  <2>2. o[c + 1 - l] < o[c + 1 - k]
    BY <1>4, <1>6, <2>1
  <2>3. r[k] \in 1..n /\ r[l] \in 1..n
    BY <1>7
  <2> QED
    BY <1>5, <2>2, <2>3
<1>9. s \in [1..c -> S] /\ \A k, l \in 1..c : k < l => s[k] > s[l]
  <2>1. \E x \in [1..c -> S] : \A k, l \in DOMAIN x : k < l => x[k] > x[l]
    BY <1>7, <1>8
  <2> QED
    BY <1>1, <2>1 DEF NewestFirst
<1>10. ASSUME NEW k \in 1..c, NEW l \in 1..c, s[k] = s[l]
      PROVE  k = l
  <2>1. s[k] \in 1..n /\ s[l] \in 1..n
    BY <1>9
  <2>2. k \in Nat /\ l \in Nat
    BY <1>2
  <2> QED
    BY <1>9, <1>10, <2>1, <2>2
<1>11. s \in Surjection(1..c, S)
  <2>1. s \in Injection(1..c, S)
    BY <1>9, <1>10 DEF Injection, IsInjective
  <2>2. Cardinality(1..c) = Cardinality(S)
    BY <1>1, <1>2, FS_Interval
  <2> QED
    BY <1>2, <2>1, <2>2, FS_Injection
<1>12. \A i \in S : \E k \in 1..c : i = s[k]
  BY <1>9, <1>11 DEF Surjection
<1> QED
  BY <1>1, <1>9, <1>10, <1>12 DEF Enumerates

--------------------------------------------------------------------------------
(* Cutting to a limit: Newest keeps what it promises. *)

LEMMA NewestDropsOlder ==
  ASSUME NEW n \in Nat, NEW S \in SUBSET (1..n), NEW m,
         NEW i \in Newest(S, m), NEW j \in S \ Newest(S, m), m \in Nat
  PROVE  j < i
<1>1. SUFFICES ASSUME ~(j < i) PROVE FALSE
  OBVIOUS
<1>2. i \in 1..n /\ j \in 1..n /\ i <= j
  BY <1>1 DEF Newest
<1>3. PICK A : A = {x \in S : x > i}
  OBVIOUS
<1>4. PICK B : B = {x \in S : x > j}
  OBVIOUS
<1>5. A \in SUBSET (1..n) /\ B \in SUBSET A
  <2>1. ASSUME NEW x \in B PROVE x \in S /\ x > i
    <3>1. x \in 1..n /\ x > j
      BY <1>4
    <3> QED
      BY <1>2, <1>4, <3>1
  <2> QED
    BY <1>3, <2>1
<1>6. IsFiniteSet(A) /\ Cardinality(A) \in Nat /\ Cardinality(B) \in Nat
  BY <1>5, Places
<1>7. Cardinality(B) <= Cardinality(A)
  BY <1>5, <1>6, FS_Subset
<1>8. Cardinality(A) < m /\ ~(Cardinality(B) < m)
  BY <1>3, <1>4 DEF Newest
<1> QED
  BY <1>6, <1>7, <1>8

LEMMA NewestSize ==
  ASSUME NEW n \in Nat, NEW S \in SUBSET (1..n), NEW m \in Nat
  PROVE  /\ Newest(S, m) \in SUBSET S
         /\ Cardinality(Newest(S, m)) = IF m < Cardinality(S) THEN m ELSE Cardinality(S)
<1>1. PICK c : c = Cardinality(S)
  OBVIOUS
<1>2. c \in Nat
  BY <1>1, Places
<1>3. PICK s : s = OldestFirst(S)
  OBVIOUS
<1>4. /\ s \in [1..c -> S]
      /\ \A k, l \in 1..c : k < l => s[k] < s[l]
      /\ \A k, l \in 1..c : s[k] = s[l] => k = l
      /\ \A i \in S : \E k \in 1..c : i = s[k]
  <2>1. /\ Enumerates(s, S)
        /\ \A k, l \in 1 .. Cardinality(S) : k < l => s[k] < s[l]
    BY <1>3, OldestFirstIs
  <2> QED
    BY <1>1, <2>1 DEF Enumerates
<1>5. ASSUME NEW k \in 1..c
      PROVE  Cardinality({j \in S : j > s[k]}) = c - k
  <2>1. PICK A : A = (k + 1)..c
    OBVIOUS
  <2>2. A \in SUBSET (1..c) /\ A \in SUBSET Nat
    BY <1>2, <2>1
  <2>3. IsFiniteSet(A) /\ Cardinality(A) = c - k
    BY <1>2, <2>1, FS_Interval
  <2>4. ASSUME NEW l \in 1..c
        PROVE  s[l] > s[k] <=> l \in A
    <3>1. s[k] \in 1..n /\ s[l] \in 1..n
      BY <1>4
    <3>2. l > k \/ l = k \/ l < k
      BY <1>2
    <3>3. CASE l > k
      BY <1>2, <1>4, <2>1, <3>1, <3>3
    <3>4. CASE l = k
      BY <1>2, <2>1, <3>1, <3>4
    <3>5. CASE l < k
      <4>1. s[l] < s[k]
        BY <1>4, <3>5
      <4> QED
        BY <1>2, <2>1, <3>1, <3>5, <4>1
    <3> QED
      BY <3>2, <3>3, <3>4, <3>5
  <2>5. PICK T : T = {j \in S : j > s[k]}
    OBVIOUS
  <2>6. /\ \A x, y \in A : s[x] = s[y] => x = y
        /\ \A x \in A : s[x] \in T
        /\ \A t \in T : \E x \in A : t = s[x]
    BY <1>4, <2>2, <2>4, <2>5
  <2>7. Cardinality(T) = Cardinality(A)
    BY <2>3, <2>6, ImageSize
  <2> QED
    BY <2>3, <2>5, <2>7
<1>6. PICK B : B = {k \in 1..c : c - k < m}
  OBVIOUS
<1>7. /\ \A x, y \in B : s[x] = s[y] => x = y
      /\ \A x \in B : s[x] \in Newest(S, m)
      /\ \A t \in Newest(S, m) : \E x \in B : t = s[x]
  BY <1>4, <1>5, <1>6 DEF Newest
<1>8. IsFiniteSet(B) /\ Cardinality(B) = IF m < c THEN m ELSE c
  <2>1. CASE m < c
    <3>1. B = (c - m + 1)..c
      BY <1>2, <1>6, <2>1
    <3>2. c - m + 1 \in Int /\ c \in Int /\ c - (c - m + 1) + 1 = m
      BY <1>2
    <3> QED
      BY <1>2, <2>1, <3>1, <3>2, FS_Interval
  <2>2. CASE ~(m < c)
    <3>1. B = 1..c
      BY <1>2, <1>6, <2>2
    <3> QED
      BY <1>2, <2>2, <3>1, FS_Interval
  <2> QED
    BY <2>1, <2>2
<1>9. Cardinality(Newest(S, m)) = Cardinality(B)
  BY <1>7, <1>8, ImageSize
<1> QED
  BY <1>1, <1>8, <1>9 DEF Newest

\* A limit that is not reached drops nothing.
LEMMA NewestOfFew ==
  ASSUME NEW n \in Nat, NEW S \in SUBSET (1..n), NEW m \in Nat, Cardinality(S) <= m
  PROVE  Newest(S, m) = S
<1>1. IsFiniteSet(S) /\ Cardinality(S) \in Nat
  BY Places
<1>2. Newest(S, m) \in SUBSET S /\ Cardinality(Newest(S, m)) = Cardinality(S)
  BY <1>1, NewestSize
<1> QED
  BY <1>1, <1>2, FS_Subset

--------------------------------------------------------------------------------
(* The loop of response_stats. S are the messages it goes through and M those *)
(* of the user among them.                                                    *)

Quiet(M, a, b) == \A k \in M : ~(a < k /\ k < b)

\* i is the first of a run of theirs that j, of the user, answers.
Reply(S, M, i, j) ==
  /\ i \in S \ M
  /\ j \in M
  /\ i < j
  /\ Quiet(M, i, j)
  /\ \A k \in S \ M : k < i => ~Quiet(M, k, i)

\* What pending is after the messages up to n.
Waits(S, M, n, p) ==
  \/ /\ p = 0
     /\ \A k \in S \ M : k <= n => ~Quiet(M, k, n + 1)
  \/ /\ p \in S \ M
     /\ p <= n
     /\ Quiet(M, p, n + 1)
     /\ \A k \in S \ M : k < p => ~Quiet(M, k, p)

Pairs(S, M, n) == {t \in S \X S : t[2] <= n /\ Reply(S, M, t[1], t[2])}

Loops == [pending : Nat, pairs : SUBSET (Nat \X Nat)]

LEMMA QuietExtends ==
  ASSUME NEW M \in SUBSET Nat, NEW n \in Nat, NEW a \in Nat
  PROVE  /\ n + 1 \notin M => (Quiet(M, a, n + 2) <=> Quiet(M, a, n + 1))
         /\ n + 1 \in M /\ a <= n => ~Quiet(M, a, n + 2)
         /\ n <= a => Quiet(M, a, n + 1)
<1>1. ASSUME NEW k \in M
      PROVE  k < n + 2 <=> k < n + 1 \/ k = n + 1
  BY <1>1
<1> QED
  BY <1>1 DEF Quiet

\* The message n + 1 is not among them.
LEMMA LoopSkips ==
  ASSUME NEW S \in SUBSET Nat, NEW M \in SUBSET S, NEW n \in Nat, NEW p \in Nat,
         Waits(S, M, n, p), n + 1 \notin S
  PROVE  Waits(S, M, n + 1, p) /\ Pairs(S, M, n + 1) = Pairs(S, M, n)
<1>1. \A k \in S : k <= n + 1 <=> k <= n
  OBVIOUS
<1>2. \A a \in Nat : Quiet(M, a, n + 2) <=> Quiet(M, a, n + 1)
  BY QuietExtends
<1>3. n + 1 + 1 = n + 2
  OBVIOUS
<1>4. Waits(S, M, n + 1, p)
  BY <1>1, <1>2, <1>3 DEF Waits
<1>5. Pairs(S, M, n + 1) = Pairs(S, M, n)
  BY <1>1 DEF Pairs
<1> QED
  BY <1>4, <1>5

\* It is theirs: it is pending when nothing was.
LEMMA LoopWaits ==
  ASSUME NEW S \in SUBSET Nat, NEW M \in SUBSET S, NEW n \in Nat, NEW p \in Nat,
         Waits(S, M, n, p), n + 1 \in S \ M, 0 \notin S
  PROVE  /\ Waits(S, M, n + 1, IF p = 0 THEN n + 1 ELSE p)
         /\ Pairs(S, M, n + 1) = Pairs(S, M, n)
<1>1. \A k \in M : k <= n + 1 <=> k <= n
  OBVIOUS
<1>2. \A a \in Nat : Quiet(M, a, n + 2) <=> Quiet(M, a, n + 1)
  BY QuietExtends
<1>3. n + 1 + 1 = n + 2 /\ Quiet(M, n + 1, n + 2)
  BY QuietExtends
<1>4. ASSUME p = 0 PROVE Waits(S, M, n + 1, n + 1)
  <2>1. ASSUME NEW k \in S \ M, k < n + 1 PROVE ~Quiet(M, k, n + 1)
    BY <1>4, <2>1 DEF Waits
  <2> QED
    BY <1>3, <1>4, <2>1 DEF Waits
<1>5. ASSUME p # 0 PROVE Waits(S, M, n + 1, p)
  BY <1>2, <1>3, <1>5 DEF Waits
<1>6. Pairs(S, M, n + 1) = Pairs(S, M, n)
  BY <1>1 DEF Pairs, Reply
<1> QED
  BY <1>4, <1>5, <1>6

\* It is the user's: what was pending has its reply.
LEMMA LoopReplies ==
  ASSUME NEW S \in SUBSET Nat, NEW M \in SUBSET S, NEW n \in Nat, NEW p \in Nat,
         Waits(S, M, n, p), n + 1 \in M, 0 \notin S
  PROVE  /\ Waits(S, M, n + 1, 0)
         /\ p = 0 => Pairs(S, M, n + 1) = Pairs(S, M, n)
         /\ p # 0 => \E P : /\ P = Pairs(S, M, n) \cup {<<p, n + 1>>}
                             /\ P = Pairs(S, M, n + 1)
<1>1. n + 1 + 1 = n + 2 /\ \A a \in Nat : a <= n => ~Quiet(M, a, n + 2)
  BY QuietExtends
<1>2. Waits(S, M, n + 1, 0)
  <2>1. ASSUME NEW k \in S \ M, k <= n + 1 PROVE k <= n
    BY <2>1
  <2> QED
    BY <1>1, <2>1 DEF Waits
<1>3. ASSUME NEW i \in S \ M, Reply(S, M, i, n + 1)
      PROVE  p # 0 /\ i = p
  <2>1. i <= n /\ Quiet(M, i, n + 1)
    BY <1>3 DEF Reply
  <2>2. p # 0
    BY <2>1 DEF Waits
  <2>3. /\ p \in S \ M
        /\ p <= n
        /\ Quiet(M, p, n + 1)
        /\ \A k \in S \ M : k < p => ~Quiet(M, k, p)
    BY <2>2 DEF Waits
  <2>4. ~(i < p)
    <3>1. SUFFICES ASSUME i < p PROVE FALSE
      OBVIOUS
    <3>2. PICK k \in M : i < k /\ k < p
      BY <2>3, <3>1 DEF Quiet
    <3>3. k < n + 1
      BY <2>3, <3>2
    <3> QED
      BY <2>1, <3>2, <3>3 DEF Quiet
  <2>5. ~(p < i)
    <3>1. SUFFICES ASSUME p < i PROVE FALSE
      OBVIOUS
    <3>2. PICK k \in M : p < k /\ k < i
      BY <1>3, <2>3, <3>1 DEF Reply, Quiet
    <3>3. k < n + 1
      BY <2>1, <3>2
    <3> QED
      BY <2>3, <3>2, <3>3 DEF Quiet
  <2> QED
    BY <2>2, <2>4, <2>5
<1>4. ASSUME p # 0
      PROVE  p \in S /\ Reply(S, M, p, n + 1)
  BY <1>4 DEF Waits, Reply
<1>5. ASSUME NEW t \in S \X S
      PROVE  t \in Pairs(S, M, n + 1) <=>
               (t \in Pairs(S, M, n) \/ (p # 0 /\ t = <<p, n + 1>>))
  <2>1. PICK i, j : i = t[1] /\ j = t[2]
    OBVIOUS
  <2>2. i \in S /\ j \in S /\ t = <<i, j>>
    BY <2>1
  <2>3. j <= n + 1 <=> j <= n \/ j = n + 1
    BY <2>2
  <2>4. (j = n + 1 /\ Reply(S, M, i, j)) <=> (p # 0 /\ t = <<p, n + 1>>)
    <3>1. Reply(S, M, i, j) => i \in S \ M
      BY DEF Reply
    <3> QED
      BY <1>3, <1>4, <2>2, <3>1
  <2> QED
    BY <2>1, <2>2, <2>3, <2>4 DEF Pairs
<1>6. p # 0 => <<p, n + 1>> \in S \X S
  BY <1>4
<1>7. Pairs(S, M, n + 1) \subseteq S \X S /\ Pairs(S, M, n) \subseteq S \X S
  BY DEF Pairs
<1>8. ASSUME p = 0 PROVE Pairs(S, M, n + 1) = Pairs(S, M, n)
  BY <1>5, <1>7, <1>8
<1>9. ASSUME p # 0 PROVE Pairs(S, M, n + 1) = Pairs(S, M, n) \cup {<<p, n + 1>>}
  BY <1>5, <1>6, <1>7, <1>9
<1> QED
  BY <1>2, <1>8, <1>9

LEMMA TurnType ==
  ASSUME NEW acc \in Loops, NEW i \in Nat
  PROVE  Turn(acc, i) \in Loops
<1>1. CASE ~db[i].mine
  BY <1>1 DEF Turn, Loops
<1>2. CASE db[i].mine /\ acc.pending = 0
  BY <1>2 DEF Turn
<1>3. CASE db[i].mine /\ acc.pending # 0
  <2>1. <<acc.pending, i>> \in Nat \X Nat
    BY DEF Loops
  <2>2. acc.pairs \cup {<<acc.pending, i>>} \in SUBSET (Nat \X Nat)
    BY <2>1 DEF Loops
  <2>3. Turn(acc, i) = [pending |-> 0, pairs |-> acc.pairs \cup {<<acc.pending, i>>}]
    BY <1>3 DEF Turn
  <2> QED
    BY <2>2, <2>3 DEF Loops
<1> QED
  BY <1>1, <1>2, <1>3

\* The recursive function of Turns, as a function with its two equations
LEMMA TurnsLoop ==
  ASSUME NEW S
  PROVE  \E loop \in [Nat -> Loops] :
           /\ loop[0] = [pending |-> 0, pairs |-> {}]
           /\ \A n \in Nat : loop[n + 1] = IF n + 1 \in S THEN Turn(loop[n], n + 1) ELSE loop[n]
           /\ Turns(S) = loop[Len(db)].pairs
<1>1. PICK v0 : v0 = [pending |-> 0, pairs |-> {}]
  OBVIOUS
<1>2. v0 \in Loops
  BY <1>1 DEF Loops
<1>3. PICK step : step = [p \in Nat \X Loops |-> IF p[1] \in S THEN Turn(p[2], p[1]) ELSE p[2]]
  OBVIOUS
<1>4. step \in [Nat \X Loops -> Loops]
  <2>1. ASSUME NEW p \in Nat \X Loops
        PROVE  (IF p[1] \in S THEN Turn(p[2], p[1]) ELSE p[2]) \in Loops
    BY TurnType
  <2> QED
    BY <1>3, <2>1
<1>5. PICK f : Iterates(f, Loops, v0, step)
  BY <1>2, <1>4, Recursion
<1>6. ASSUME NEW n \in Nat
      PROVE  f[n + 1] = IF n + 1 \in S THEN Turn(f[n], n + 1) ELSE f[n]
  <2>1. <<n + 1, f[n]>> \in Nat \X Loops
    BY <1>5 DEF Iterates
  <2> QED
    BY <1>3, <1>5, <2>1 DEF Iterates
<1>7. f = [n \in Nat |-> IF n = 0 THEN v0
                          ELSE IF n \in S THEN Turn(f[n - 1], n) ELSE f[n - 1]]
  <2>1. ASSUME NEW n \in Nat, n # 0
        PROVE  f[n] = IF n \in S THEN Turn(f[n - 1], n) ELSE f[n - 1]
    <3>1. n - 1 \in Nat /\ (n - 1) + 1 = n
      BY <2>1
    <3> QED
      BY <1>6, <3>1
  <2> QED
    BY <1>5, <2>1 DEF Iterates
<1>8. PICK loop : loop = CHOOSE g : g = [n \in Nat |-> IF n = 0 THEN v0
                                      ELSE IF n \in S THEN Turn(g[n - 1], n) ELSE g[n - 1]]
  OBVIOUS
<1>9. loop = [n \in Nat |-> IF n = 0 THEN v0
                            ELSE IF n \in S THEN Turn(loop[n - 1], n) ELSE loop[n - 1]]
  BY <1>7, <1>8
<1>10. loop[0] = v0
  BY <1>9
<1>11. ASSUME NEW n \in Nat
       PROVE  loop[n + 1] = IF n + 1 \in S THEN Turn(loop[n], n + 1) ELSE loop[n]
  <2>1. n + 1 \in Nat /\ n + 1 # 0 /\ (n + 1) - 1 = n
    OBVIOUS
  <2> QED
    BY <1>9, <2>1
<1>12. loop \in [Nat -> Loops]
  <2>1. PICK T : T = {n \in Nat : loop[n] \in Loops}
    OBVIOUS
  <2>2. 0 \in T
    BY <1>2, <1>10, <2>1
  <2>3. ASSUME NEW n \in T PROVE n + 1 \in T
    <3>1. n \in Nat /\ n + 1 \in Nat /\ loop[n] \in Loops
      BY <2>1
    <3>2. loop[n + 1] \in Loops
      BY <1>11, <3>1, TurnType
    <3> QED
      BY <2>1, <3>1, <3>2
  <2>4. T = Nat
    BY <2>1, <2>2, <2>3, Induction
  <2> QED
    BY <1>9, <2>1, <2>4
<1>13. Turns(S) = loop[Len(db)].pairs
  BY <1>1, <1>8 DEF Turns
<1> QED
  BY <1>1, <1>10, <1>11, <1>12, <1>13

LEMMA TurnsAre ==
  ASSUME NEW S, S \subseteq Nat \ {0}, \A i \in S : i <= Len(db), Len(db) \in Nat,
         NEW M \in SUBSET S, \A i \in S : i \in M <=> db[i].mine
  PROVE  Turns(S) = {t \in S \X S : Reply(S, M, t[1], t[2])}
<1>1. PICK loop \in [Nat -> Loops] :
           /\ loop[0] = [pending |-> 0, pairs |-> {}]
           /\ \A n \in Nat : loop[n + 1] = IF n + 1 \in S THEN Turn(loop[n], n + 1) ELSE loop[n]
           /\ Turns(S) = loop[Len(db)].pairs
  BY TurnsLoop
<1>2. S \in SUBSET Nat /\ M \in SUBSET S /\ 0 \notin S
  OBVIOUS
<1>3. PICK T : T = {n \in Nat : /\ Waits(S, M, n, loop[n].pending)
                                /\ loop[n].pairs = Pairs(S, M, n)}
  OBVIOUS
<1>4. 0 \in T
  <2>1. \A k \in S : ~(k <= 0)
    OBVIOUS
  <2>2. Waits(S, M, 0, 0)
    BY <2>1 DEF Waits
  <2>3. Pairs(S, M, 0) = {}
    <3>1. ASSUME NEW t \in S \X S PROVE ~(t[2] <= 0)
      BY <2>1
    <3> QED
      BY <3>1 DEF Pairs
  <2>4. loop[0].pending = 0 /\ loop[0].pairs = {}
    BY <1>1
  <2> QED
    BY <1>3, <2>2, <2>3, <2>4
<1>5. ASSUME NEW n \in T PROVE n + 1 \in T
  <2>1. /\ n \in Nat /\ n + 1 \in Nat
        /\ Waits(S, M, n, loop[n].pending)
        /\ loop[n].pairs = Pairs(S, M, n)
    BY <1>3
  <2>2. PICK p, P : p = loop[n].pending /\ P = loop[n].pairs
    OBVIOUS
  <2>3. loop[n] = [pending |-> p, pairs |-> P] /\ p \in Nat
    BY <2>1, <2>2 DEF Loops
  <2>4. CASE n + 1 \notin S
    <3>1. loop[n + 1] = loop[n]
      BY <1>1, <2>1, <2>4
    <3>2. Waits(S, M, n + 1, p) /\ Pairs(S, M, n + 1) = Pairs(S, M, n)
      BY <1>2, <2>1, <2>2, <2>3, <2>4, LoopSkips
    <3> QED
      BY <1>3, <2>1, <2>2, <3>1, <3>2
  <2>5. CASE n + 1 \in S \ M
    <3>1. ~db[n + 1].mine
      BY <2>5
    <3>2. /\ loop[n + 1].pending = IF p = 0 THEN n + 1 ELSE p
          /\ loop[n + 1].pairs = P
      <4>1. loop[n + 1] = Turn(loop[n], n + 1)
        BY <1>1, <2>1, <2>5
      <4> QED
        BY <2>3, <3>1, <4>1 DEF Turn
    <3>3. /\ Waits(S, M, n + 1, IF p = 0 THEN n + 1 ELSE p)
          /\ Pairs(S, M, n + 1) = Pairs(S, M, n)
      BY <1>2, <2>1, <2>2, <2>3, <2>5, LoopWaits
    <3> QED
      BY <1>3, <2>1, <2>2, <3>2, <3>3
  <2>6. CASE n + 1 \in M
    <3>1. db[n + 1].mine /\ n + 1 \in S
      BY <2>6
    <3>2. loop[n + 1] = Turn(loop[n], n + 1)
      BY <1>1, <2>1, <3>1
    <3>3. /\ Waits(S, M, n + 1, 0)
          /\ p = 0 => Pairs(S, M, n + 1) = Pairs(S, M, n)
          /\ p # 0 => Pairs(S, M, n + 1) = Pairs(S, M, n) \cup {<<p, n + 1>>}
      <4>1. Waits(S, M, n, p)
        BY <2>1, <2>2
      <4>2. Waits(S, M, n + 1, 0)
        BY <1>2, <2>1, <2>3, <2>6, <4>1, LoopReplies
      <4>3. p = 0 => Pairs(S, M, n + 1) = Pairs(S, M, n)
        BY <1>2, <2>1, <2>3, <2>6, <4>1, LoopReplies
      <4>4. p # 0 => Pairs(S, M, n + 1) = Pairs(S, M, n) \cup {<<p, n + 1>>}
        BY <1>2, <2>1, <2>3, <2>6, <4>1, LoopReplies
      <4> QED
        BY <4>2, <4>3, <4>4
    <3>4. CASE p = 0
      <4>1. loop[n + 1] = loop[n]
        BY <2>2, <3>1, <3>2, <3>4 DEF Turn
      <4> QED
        BY <1>3, <2>1, <2>2, <3>3, <3>4, <4>1
    <3>5. CASE p # 0
      <4>1. loop[n + 1] = [pending |-> 0, pairs |-> P \cup {<<p, n + 1>>}]
        BY <2>2, <3>1, <3>2, <3>5 DEF Turn
      <4>2. loop[n + 1].pending = 0 /\ loop[n + 1].pairs = P \cup {<<p, n + 1>>}
        BY <4>1
      <4> QED
        BY <1>3, <2>1, <2>2, <3>3, <3>5, <4>2
    <3> QED
      BY <3>4, <3>5
  <2> QED
    BY <2>4, <2>5, <2>6
<1>6. T = Nat
  BY <1>3, <1>4, <1>5, Induction
<1>7. loop[Len(db)].pairs = Pairs(S, M, Len(db))
  BY <1>3, <1>6
<1>8. Pairs(S, M, Len(db)) = {t \in S \X S : Reply(S, M, t[1], t[2])}
  BY DEF Pairs
<1> QED
  BY <1>1, <1>7, <1>8

\* There are never more replies than messages of a side.
LEMMA RepliesBounded ==
  ASSUME NEW n \in Nat, NEW S \in SUBSET (1..n), NEW M \in SUBSET S,
         NEW R, R = {t \in S \X S : Reply(S, M, t[1], t[2])}
  PROVE  /\ Cardinality(R) \in Nat
         /\ Cardinality(R) <= Cardinality(S \ M)
         /\ Cardinality(R) <= Cardinality(M)
         /\ Cardinality(S \ M) + Cardinality(M) = Cardinality(S)
<1>1. /\ IsFiniteSet(S \ M) /\ Cardinality(S \ M) \in Nat
      /\ IsFiniteSet(M) /\ Cardinality(M) \in Nat
      /\ IsFiniteSet(S) /\ Cardinality(S) \in Nat
  <2>1. S \ M \in SUBSET (1..n) /\ M \in SUBSET (1..n)
    OBVIOUS
  <2> QED
    BY <2>1, Places
<1>2. ASSUME NEW t \in R, NEW u \in R, t[1] = u[1] \/ t[2] = u[2]
      PROVE  t = u
  <2>1. PICK a, b, c, d : a = t[1] /\ b = t[2] /\ c = u[1] /\ d = u[2]
    OBVIOUS
  <2>2. /\ a \in S \ M /\ b \in M /\ c \in S \ M /\ d \in M
        /\ a \in Nat /\ b \in Nat /\ c \in Nat /\ d \in Nat
        /\ a < b /\ c < d /\ Quiet(M, a, b) /\ Quiet(M, c, d)
        /\ \A k \in S \ M : k < a => ~Quiet(M, k, a)
        /\ \A k \in S \ M : k < c => ~Quiet(M, k, c)
        /\ t = <<a, b>> /\ u = <<c, d>>
    BY <2>1 DEF Reply
  <2>3. CASE a = c
    <3>1. ~(b < d) /\ ~(d < b)
      BY <2>2, <2>3 DEF Quiet
    <3> QED
      BY <2>2, <2>3, <3>1
  <2>4. CASE b = d
    <3>1. ~(a < c)
      <4>1. SUFFICES ASSUME a < c PROVE FALSE
        OBVIOUS
      <4>2. PICK k \in M : a < k /\ k < c
        BY <2>2, <4>1 DEF Quiet
      <4>3. k < b /\ k \in Nat
        BY <2>2, <2>4, <4>2
      <4> QED
        BY <2>2, <4>2, <4>3 DEF Quiet
    <3>2. ~(c < a)
      <4>1. SUFFICES ASSUME c < a PROVE FALSE
        OBVIOUS
      <4>2. PICK k \in M : c < k /\ k < a
        BY <2>2, <4>1 DEF Quiet
      <4>3. k < d /\ k \in Nat
        BY <2>2, <2>4, <4>2
      <4> QED
        BY <2>2, <4>2, <4>3 DEF Quiet
    <3> QED
      BY <2>2, <2>4, <3>1, <3>2
  <2> QED
    BY <1>2, <2>1, <2>3, <2>4
<1>3. \A t \in R : t[1] \in S \ M /\ t[2] \in M
  BY DEF Reply
<1>4. PICK f : f = [t \in R |-> t[1]]
  OBVIOUS
<1>5. f \in Injection(R, S \ M)
  BY <1>2, <1>3, <1>4 DEF Injection, IsInjective
<1>6. PICK g : g = [t \in R |-> t[2]]
  OBVIOUS
<1>7. g \in Injection(R, M)
  BY <1>2, <1>3, <1>6 DEF Injection, IsInjective
<1>8. IsFiniteSet(R) /\ Cardinality(R) <= Cardinality(S \ M)
  BY <1>1, <1>5, FS_Injection
<1>9. Cardinality(R) <= Cardinality(M)
  BY <1>1, <1>7, FS_Injection
<1>10. Cardinality(S \ M) + Cardinality(M) = Cardinality(S)
  <2>1. Cardinality(S \ M) = Cardinality(S) - Cardinality(S \cap M)
    BY <1>1, FS_Difference
  <2>2. S \cap M = M
    OBVIOUS
  <2> QED
    BY <1>1, <2>1, <2>2
<1> QED
  BY <1>8, <1>9, <1>10, FS_CardinalityType

--------------------------------------------------------------------------------
(* The invariant. Each answer was judged when it was given; what has arrived *)
(* since lies beyond what it saw, so that it still stands.                    *)

ReadTypeOK ==
  /\ world \in Worlds
  /\ role \in world.roles
  /\ files \in world.policies
  /\ db \in Seq(Message)

Windowed == {"review", "search", "chat_history", "response_stats", "list_chats"}

\* An answer with a window saw a part of db, and draws on its window only.
AnswerOK ==
  /\ answer.action \in {"none", "refused", "contacts_lookup"} \cup Windowed
  /\ answer.action \in Windowed => answer.seen \in 0 .. Len(db)
  /\ \A i \in Drawn : i \in Window

ReadInv ==
  /\ ReadTypeOK
  /\ AnswerOK
  /\ BodiesUnderPolicy
  /\ HiddenContactsUnresolved
  /\ WaitingIsShown
  /\ LimitKeepsTheNewest
  /\ SamplesAreReplies
  /\ ListIsHonest

LEMMA WorldFacts ==
  ASSUME ReadTypeOK
  PROVE  /\ WorldOK(world)
         /\ Len(db) \in Nat
         /\ DOMAIN db = 1 .. Len(db)
         /\ MaxSkip \in Nat /\ MaxContext \in Nat /\ ScanLimit \in Nat
  BY ReadConstants DEF ReadTypeOK, ReadConstants

LEMMA HostActionsOnly ==
  ASSUME NEW a \in {"review", "search", "chat_history", "response_stats"},
         a \in AllowedActions(role)
  PROVE  role = "host" /\ Loaded = files
  BY DEF AllowedActions, HostActions, ManagerActions, Loaded

\* What a host's bridge fetches is what its files make readable.
LEMMA FetchReads ==
  ASSUME Loaded = files, NEW w, NEW A
  PROVE  Fetch(w, Loaded, A) = {i \in DOMAIN db : /\ i + w > Len(db)
                                                 /\ i \in A
                                                 /\ Readable(i)}
  BY DEF Fetch, Readable

\* An answer just given has the window of the messages there are.
LEMMA WindowNow ==
  ASSUME ReadTypeOK, db' = db, answer'.seen = Len(db), NEW w, answer'.window = w
  PROVE  Window' = {i \in DOMAIN db : i + w > Len(db)}
<1>1. DOMAIN db = 1 .. Len(db)
  BY WorldFacts
<1> QED
  BY <1>1 DEF Window

--------------------------------------------------------------------------------
(* review *)

LEMMA EntriesOf ==
  ASSUME NEW msgs, NEW e \in Classified(msgs)
  PROVE  \E c, ms : /\ c \in {Chat(i) : i \in msgs}
                    /\ ms = {i \in msgs : Chat(i) = c}
                    /\ e = Entry(c, ms)
  BY DEF Classified

LEMMA ShownEntries ==
  ASSUME NEW E
  PROVE  /\ Shown(E) \subseteq E
         /\ \A e \in E : e.bucket # "skip" => e \in Shown(E)
  BY DEF Shown

\* A chat whose last message is theirs is classified, and not as automated when
\* a person's message is among them.
LEMMA WaitingClassified ==
  ASSUME ReadTypeOK, NEW msgs \in SUBSET DOMAIN db, NEW i \in msgs,
         ~db[i].mine, ~IsAutomated(i),
         \A j \in msgs : j > i /\ Chat(j) = Chat(i) => ~db[j].mine
  PROVE  \E e \in Classified(msgs) : e.chat = Chat(i) /\ e.bucket # "skip"
<1>1. PICK ms : ms = {j \in msgs : Chat(j) = Chat(i)}
  OBVIOUS
<1>2. Len(db) \in Nat /\ ms \in SUBSET (1 .. Len(db)) /\ i \in ms
  BY <1>1, WorldFacts
<1>3. Max(ms) \in ms /\ \A j \in ms : j <= Max(ms)
  BY <1>2, GreatestNumber
<1>4. ~db[Max(ms)].mine
  <2>1. Max(ms) = i \/ Max(ms) > i
    BY <1>2, <1>3
  <2> QED
    BY <1>1, <1>3, <2>1
<1>5. PICK e : e = Entry(Chat(i), ms)
  OBVIOUS
<1>6. e \in Classified(msgs)
  BY <1>1, <1>4, <1>5 DEF Classified
<1>7. e.chat = Chat(i) /\ e.bucket # "skip"
  BY <1>2, <1>5 DEF Entry
<1> QED
  BY <1>6, <1>7

LEMMA ReviewStep == ReadInv /\ Review => ReadInv'
<1> SUFFICES ASSUME ReadInv, Review PROVE ReadInv'
  OBVIOUS
<1>1. PICK w \in world.windows :
        /\ Serve("review")
        /\ answer' = [action |-> "review", seen |-> Len(db), window |-> w,
                      entries |-> Shown(Classified(Fetch(w, Loaded, DOMAIN db)))]
  BY DEF Review
<1>2. PICK found : found = Fetch(w, Loaded, DOMAIN db)
  OBVIOUS
<1>3. /\ answer'.action = "review" /\ answer'.seen = Len(db) /\ answer'.window = w
      /\ answer'.entries = Shown(Classified(found))
      /\ world' = world /\ role' = role /\ files' = files /\ db' = db
  BY <1>1, <1>2 DEF Serve
<1>4. ReadTypeOK /\ Loaded = files
  BY <1>1, HostActionsOnly DEF Serve, ReadInv
<1>5. found = {i \in DOMAIN db : i + w > Len(db) /\ Readable(i)}
  BY <1>2, <1>4, FetchReads
<1>6. Window' = {i \in DOMAIN db : i + w > Len(db)}
  BY <1>3, <1>4, WindowNow
<1>7. ReadTypeOK'
  BY <1>3, <1>4 DEF ReadTypeOK, Message
<1>8. ASSUME NEW i \in Drawn' PROVE i \in found
  <2>1. PICK e \in answer'.entries : i \in e.context
    BY <1>3 DEF Drawn, Is
  <2>2. PICK c, ms : ms = {j \in found : Chat(j) = c} /\ e = Entry(c, ms)
    BY <1>3, <2>1, EntriesOf, ShownEntries
  <2> QED
    BY <2>1, <2>2 DEF Entry, Newest
<1>9. AnswerOK'
  BY <1>3, <1>4, <1>5, <1>6, <1>8, WorldFacts DEF AnswerOK, Windowed
<1>10. BodiesUnderPolicy'
  BY <1>3, <1>5, <1>8 DEF BodiesUnderPolicy, Readable, Chat
<1>11. WaitingIsShown'
  <2>1. ASSUME NEW i \in DOMAIN db, i + w > Len(db), Readable(i), ~db[i].mine, ~IsAutomated(i),
               \A j \in Window' : j > i /\ Chat(j) = Chat(i) => ~db[j].mine
        PROVE  \E e \in answer'.entries : e.chat = Chat(i) /\ e.bucket # "skip"
    <3>1. i \in found /\ found \in SUBSET DOMAIN db /\ found \subseteq Window'
      BY <1>5, <1>6, <2>1
    <3>2. \A j \in found : j > i /\ Chat(j) = Chat(i) => ~db[j].mine
      BY <2>1, <3>1
    <3>3. \E e \in Classified(found) : e.chat = Chat(i) /\ e.bucket # "skip"
      BY <1>4, <2>1, <3>1, <3>2, WaitingClassified
    <3> QED
      BY <1>3, <3>3, ShownEntries
  <2> QED
    BY <1>3, <1>6, <2>1 DEF WaitingIsShown, Readable, Chat, IsAutomated
<1>12. /\ HiddenContactsUnresolved' /\ LimitKeepsTheNewest'
       /\ SamplesAreReplies' /\ ListIsHonest'
  BY <1>3 DEF HiddenContactsUnresolved, LimitKeepsTheNewest, SamplesAreReplies, ListIsHonest, Is
<1> QED
  BY <1>7, <1>9, <1>10, <1>11, <1>12 DEF ReadInv

--------------------------------------------------------------------------------
(* search and chat_history *)

LEMMA ItemsOf ==
  ASSUME NEW K, NEW s, Enumerates(s, K), NEW contacts, NEW items, items = Items(s, contacts)
  PROVE  /\ DOMAIN items = 1 .. Cardinality(K)
         /\ \A k \in DOMAIN items : /\ items[k].index = s[k]
                                    /\ items[k].names = LookupName(Chat(s[k]), db[s[k]].sender, contacts)
         /\ {items[k].index : k \in DOMAIN items} = K
<1>1. DOMAIN s = 1 .. Cardinality(K)
  BY DEF Enumerates
<1>2. DOMAIN items = 1 .. Cardinality(K) /\ \A k \in DOMAIN items : items[k].index = s[k]
  BY <1>1 DEF Items
<1>3. \A k \in DOMAIN items : items[k].names = LookupName(Chat(s[k]), db[s[k]].sender, contacts)
  BY <1>1 DEF Items
<1>4. {items[k].index : k \in DOMAIN items} = K
  BY <1>2 DEF Enumerates
<1> QED
  BY <1>2, <1>3, <1>4

\* What the newest of the fetched, in either order, satisfy
LEMMA LimitedAnswer ==
  ASSUME ReadTypeOK, answer'.action \in {"search", "chat_history"},
         NEW n \in Nat, answer'.limit = n,
         NEW found \in SUBSET DOMAIN db, found = Sought',
         NEW s, Enumerates(s, Newest(found, n)),
         NEW contacts, answer'.items = Items(s, contacts),
         \A k, l \in 1 .. Cardinality(Newest(found, n)) : k < l =>
            IF answer'.action = "search" THEN s[k] > s[l] ELSE s[k] < s[l]
  PROVE  LimitKeepsTheNewest' /\ Listed' = Newest(found, n)
<1>1. PICK K : K = Newest(found, n)
  OBVIOUS
<1>2. Len(db) \in Nat /\ found \in SUBSET (1 .. Len(db))
  BY WorldFacts
<1>3. /\ K \in SUBSET found
      /\ Cardinality(K) = IF n < Cardinality(found) THEN n ELSE Cardinality(found)
  <2>1. K \in SUBSET found
    BY <1>1 DEF Newest
  <2>2. Cardinality(Newest(found, n)) = IF n < Cardinality(found) THEN n ELSE Cardinality(found)
    BY <1>2, NewestSize
  <2> QED
    BY <1>1, <2>1, <2>2
<1>4. Cardinality(found) \in Nat
  BY <1>2, Places
<1>5. Cardinality(K) = Min({n, Cardinality(found)})
  BY <1>3, <1>4, MinOfTwo
<1>6. \A i \in K, j \in found \ K : j < i
  BY <1>1, <1>2, NewestDropsOlder
<1>7. PICK items : items = answer'.items
  OBVIOUS
<1>8. /\ DOMAIN items = 1 .. Cardinality(K)
      /\ \A k \in DOMAIN items : items[k].index = s[k]
      /\ {items[k].index : k \in DOMAIN items} = K
  BY <1>1, <1>7, ItemsOf
<1>9. Listed' = K
  BY <1>7, <1>8 DEF Listed
<1>10. \A k, l \in DOMAIN items : k < l =>
         IF answer'.action = "search" THEN items[k].index > items[l].index
         ELSE items[k].index < items[l].index
  BY <1>1, <1>8
<1> QED
  BY <1>1, <1>3, <1>5, <1>6, <1>7, <1>8, <1>9, <1>10 DEF LimitKeepsTheNewest, Is

LEMMA SearchStep == ReadInv /\ Search => ReadInv'
<1> SUFFICES ASSUME ReadInv, Search PROVE ReadInv'
  OBVIOUS
<1>1. PICK w \in world.windows, n \in world.limits, term \in world.texts :
        /\ Serve("search")
        /\ answer' = [action |-> "search", seen |-> Len(db), window |-> w,
                      limit |-> n, term |-> term,
                      items |-> Items(NewestFirst(Newest(
                         Fetch(w, Loaded, {i \in DOMAIN db : db[i].text = term}), n)), Contacts)]
  BY DEF Search
<1>2. PICK found : found = Fetch(w, Loaded, {i \in DOMAIN db : db[i].text = term})
  OBVIOUS
<1>3. PICK s : s = NewestFirst(Newest(found, n))
  OBVIOUS
<1>4. /\ answer'.action = "search" /\ answer'.seen = Len(db) /\ answer'.window = w
      /\ answer'.limit = n /\ answer'.term = term
      /\ answer'.items = Items(s, Contacts)
      /\ world' = world /\ role' = role /\ files' = files /\ db' = db
  BY <1>1, <1>2, <1>3 DEF Serve
<1>5. ReadTypeOK /\ Loaded = files
  BY <1>1, HostActionsOnly DEF Serve, ReadInv
<1>6. found = {i \in DOMAIN db : i + w > Len(db) /\ db[i].text = term /\ Readable(i)}
  BY <1>2, <1>5, FetchReads
<1>7. Window' = {i \in DOMAIN db : i + w > Len(db)}
  BY <1>4, <1>5, WindowNow
<1>8. found = Sought'
  BY <1>4, <1>6, <1>7 DEF Sought, Readable, Chat, Is
<1>9. n \in Nat /\ Len(db) \in Nat /\ found \in SUBSET DOMAIN db /\ DOMAIN db = 1 .. Len(db)
  BY <1>5, <1>6, WorldFacts DEF WorldOK
<1>10. Newest(found, n) \in SUBSET (1 .. Len(db))
  BY <1>9 DEF Newest
<1>11. /\ Enumerates(s, Newest(found, n))
       /\ \A k, l \in 1 .. Cardinality(Newest(found, n)) : k < l => s[k] > s[l]
  BY <1>3, <1>9, <1>10, NewestFirstIs
<1>12. LimitKeepsTheNewest' /\ Listed' = Newest(found, n)
  BY <1>4, <1>5, <1>8, <1>9, <1>11, LimitedAnswer
<1>13. \A i \in Drawn' : i \in found
  BY <1>4, <1>12 DEF Drawn, Is, Newest
<1>14. ReadTypeOK'
  BY <1>4, <1>5 DEF ReadTypeOK, Message
<1>15. AnswerOK'
  BY <1>4, <1>6, <1>7, <1>9, <1>13 DEF AnswerOK, Windowed
<1>16. BodiesUnderPolicy'
  BY <1>4, <1>6, <1>13 DEF BodiesUnderPolicy, Readable, Chat
<1>17. HiddenContactsUnresolved' /\ WaitingIsShown' /\ SamplesAreReplies' /\ ListIsHonest'
  BY <1>4 DEF HiddenContactsUnresolved, WaitingIsShown, SamplesAreReplies, ListIsHonest, Is
<1> QED
  BY <1>12, <1>14, <1>15, <1>16, <1>17 DEF ReadInv

--------------------------------------------------------------------------------
(* Contacts *)

Hidden == {c \in Contacts : ~IsReadAllowed(c, c, files)}

LEMMA VisibleNotHidden ==
  ASSUME Loaded = files
  PROVE  /\ FilterContacts(Contacts, Loaded) \subseteq Contacts
         /\ FilterContacts(Contacts, Loaded) \cap Hidden = {}
  BY DEF FilterContacts, Hidden

\* A name is looked up among the contacts given, and only there.
LEMMA LookupAmong ==
  ASSUME NEW chat, NEW sender, NEW contacts
  PROVE  LookupName(chat, sender, contacts) \subseteq contacts
  BY DEF LookupName

\* A query that is resolved to the key of a contact is by identifier, or finds it
\* among the contacts given.
LEMMA ResolveAmong ==
  ASSUME ReadTypeOK, NEW q \in world.queries, NEW contacts, contacts \subseteq Contacts,
         NEW substr \in Resolve(q, contacts), NEW c \in Contacts, substr = ContactKey(c),
         q.by # "id"
  PROVE  \E d \in contacts : ContactKey(d) = ContactKey(c)
<1>1. q.text # ContactKey(c)
  BY WorldFacts DEF WorldOK
<1> QED
  BY <1>1 DEF Resolve

LEMMA ChatHistoryStep == ReadInv /\ ChatHistory => ReadInv'
<1> SUFFICES ASSUME ReadInv, ChatHistory PROVE ReadInv'
  OBVIOUS
<1>1. PICK visible : visible = FilterContacts(Contacts, Loaded)
  OBVIOUS
<1>2. PICK w \in world.windows, n \in world.limits, q \in world.queries :
        \E substr \in Resolve(q, visible) :
          /\ Serve("chat_history")
          /\ answer' = [action |-> "chat_history", seen |-> Len(db), window |-> w,
                        limit |-> n, query |-> q, substr |-> substr,
                        items |-> Items(OldestFirst(Newest(
                           Fetch(w, Loaded, About(substr)), n)), visible)]
  BY <1>1 DEF ChatHistory
<1>3. PICK substr \in Resolve(q, visible) :
        /\ Serve("chat_history")
        /\ answer' = [action |-> "chat_history", seen |-> Len(db), window |-> w,
                      limit |-> n, query |-> q, substr |-> substr,
                      items |-> Items(OldestFirst(Newest(
                         Fetch(w, Loaded, About(substr)), n)), visible)]
  BY <1>2
<1>4. PICK found : found = Fetch(w, Loaded, About(substr))
  OBVIOUS
<1>5. PICK s : s = OldestFirst(Newest(found, n))
  OBVIOUS
<1>6. /\ answer'.action = "chat_history" /\ answer'.seen = Len(db) /\ answer'.window = w
      /\ answer'.limit = n /\ answer'.query = q /\ answer'.substr = substr
      /\ answer'.items = Items(s, visible)
      /\ world' = world /\ role' = role /\ files' = files /\ db' = db
  BY <1>3, <1>4, <1>5 DEF Serve
<1>7. ReadTypeOK /\ Loaded = files
  BY <1>3, HostActionsOnly DEF Serve, ReadInv
<1>8. found = {i \in DOMAIN db : i + w > Len(db) /\ i \in About(substr) /\ Readable(i)}
  BY <1>4, <1>7, FetchReads
<1>9. Window' = {i \in DOMAIN db : i + w > Len(db)}
  BY <1>6, <1>7, WindowNow
<1>10. found = Sought'
  BY <1>6, <1>8, <1>9 DEF Sought, Readable, About, Chat, Is
<1>11. n \in Nat /\ Len(db) \in Nat /\ found \in SUBSET DOMAIN db /\ DOMAIN db = 1 .. Len(db)
  BY <1>7, <1>8, WorldFacts DEF WorldOK
<1>12. Newest(found, n) \in SUBSET (1 .. Len(db))
  BY <1>11 DEF Newest
<1>13. /\ Enumerates(s, Newest(found, n))
       /\ \A k, l \in 1 .. Cardinality(Newest(found, n)) : k < l => s[k] < s[l]
  BY <1>5, <1>11, <1>12, OldestFirstIs
<1>14. LimitKeepsTheNewest' /\ Listed' = Newest(found, n)
  BY <1>6, <1>7, <1>10, <1>11, <1>13, LimitedAnswer
<1>15. \A i \in Drawn' : i \in found
  BY <1>6, <1>14 DEF Drawn, Is, Newest
<1>16. ReadTypeOK'
  BY <1>6, <1>7 DEF ReadTypeOK, Message
<1>17. AnswerOK'
  BY <1>6, <1>8, <1>9, <1>11, <1>15 DEF AnswerOK, Windowed
<1>18. BodiesUnderPolicy'
  BY <1>6, <1>8, <1>15 DEF BodiesUnderPolicy, Readable, Chat
<1>19. HiddenContactsUnresolved'
  <2>1. visible \subseteq Contacts /\ visible \cap Hidden = {}
    BY <1>1, <1>7, VisibleNotHidden
  <2>2. ASSUME NEW k \in DOMAIN answer'.items
        PROVE  answer'.items[k].names \cap Hidden = {}
    <3>1. answer'.items[k].names = LookupName(Chat(s[k]), db[s[k]].sender, visible)
      BY <1>6, <1>13, ItemsOf
    <3> QED
      BY <2>1, <3>1, LookupAmong
  <2>3. ASSUME NEW c \in Hidden, substr = ContactKey(c), q.by # "id"
        PROVE  \E d \in Contacts \ Hidden : ContactKey(d) = ContactKey(c)
    <3>1. c \in Contacts
      BY DEF Hidden
    <3>2. \E d \in visible : ContactKey(d) = ContactKey(c)
      BY <1>7, <2>1, <2>3, <3>1, ResolveAmong
    <3> QED
      BY <2>1, <3>2
  <2>4. Hidden = {c \in Contacts : ~IsReadAllowed(c, c, files')}
    BY <1>6 DEF Hidden
  <2> QED
    BY <1>6, <2>2, <2>3, <2>4 DEF HiddenContactsUnresolved, Is
<1>20. WaitingIsShown' /\ SamplesAreReplies' /\ ListIsHonest'
  BY <1>6 DEF WaitingIsShown, SamplesAreReplies, ListIsHonest, Is
<1> QED
  BY <1>14, <1>16, <1>17, <1>18, <1>19, <1>20 DEF ReadInv

LEMMA ContactsLookupStep == ReadInv /\ ContactsLookup => ReadInv'
<1> SUFFICES ASSUME ReadInv, ContactsLookup PROVE ReadInv'
  OBVIOUS
<1>1. PICK visible : visible = IF role = "manager" THEN Contacts
                               ELSE FilterContacts(Contacts, Loaded)
  OBVIOUS
<1>2. PICK q \in world.queries :
        /\ Serve("contacts_lookup")
        /\ answer' = [action |-> "contacts_lookup", seen |-> Len(db), query |-> q,
                      matches |-> {c \in visible : Person[c] = q.text}]
  BY <1>1 DEF ContactsLookup
<1>3. /\ answer'.action = "contacts_lookup"
      /\ answer'.matches \subseteq visible
      /\ world' = world /\ role' = role /\ files' = files /\ db' = db
  BY <1>2 DEF Serve
<1>4. ReadTypeOK
  BY DEF ReadInv
<1>5. ReadTypeOK'
  BY <1>3, <1>4 DEF ReadTypeOK, Message
<1>6. Drawn' = {}
  BY <1>3 DEF Drawn, Is
<1>7. AnswerOK' /\ BodiesUnderPolicy'
  BY <1>3, <1>6 DEF AnswerOK, Windowed, BodiesUnderPolicy
<1>8. HiddenContactsUnresolved'
  <2>1. ASSUME role = "host" PROVE answer'.matches \cap Hidden = {}
    <3>1. Loaded = files
      BY <2>1 DEF Loaded
    <3> QED
      BY <1>1, <1>3, <2>1, <3>1, VisibleNotHidden
  <2>2. Hidden = {c \in Contacts : ~IsReadAllowed(c, c, files')}
    BY <1>3 DEF Hidden
  <2> QED
    BY <1>3, <2>1, <2>2 DEF HiddenContactsUnresolved, Is
<1>9. WaitingIsShown' /\ LimitKeepsTheNewest' /\ SamplesAreReplies' /\ ListIsHonest'
  BY <1>3 DEF WaitingIsShown, LimitKeepsTheNewest, SamplesAreReplies, ListIsHonest, Is
<1> QED
  BY <1>5, <1>7, <1>8, <1>9 DEF ReadInv

--------------------------------------------------------------------------------
(* response_stats *)

LEMMA StatsStep == ReadInv /\ ResponseStats => ReadInv'
<1> SUFFICES ASSUME ReadInv, ResponseStats PROVE ReadInv'
  OBVIOUS
<1>1. PICK visible : visible = FilterContacts(Contacts, Loaded)
  OBVIOUS
<1>0. PICK w \in world.windows, q \in world.queries :
        \E substr \in Resolve(q, visible) :
          /\ Serve("response_stats")
          /\ answer' = [action |-> "response_stats", seen |-> Len(db), window |-> w,
                        query |-> q, substr |-> substr,
                        turns |-> Turns(Fetch(w, Loaded, About(substr))),
                        inbound |-> Cardinality({i \in Fetch(w, Loaded, About(substr)) : ~db[i].mine}),
                        outbound |-> Cardinality({i \in Fetch(w, Loaded, About(substr)) : db[i].mine})]
  BY <1>1 DEF ResponseStats
<1>2. PICK substr \in Resolve(q, visible) :
        /\ Serve("response_stats")
        /\ answer' = [action |-> "response_stats", seen |-> Len(db), window |-> w,
                      query |-> q, substr |-> substr,
                      turns |-> Turns(Fetch(w, Loaded, About(substr))),
                      inbound |-> Cardinality({i \in Fetch(w, Loaded, About(substr)) : ~db[i].mine}),
                      outbound |-> Cardinality({i \in Fetch(w, Loaded, About(substr)) : db[i].mine})]
  BY <1>0
<1>3. PICK S : S = Fetch(w, Loaded, About(substr))
  OBVIOUS
<1>4. PICK M : M = {i \in S : db[i].mine}
  OBVIOUS
<1>5. S \ M = {i \in S : ~db[i].mine}
  BY <1>4
<1>6. /\ answer'.action = "response_stats" /\ answer'.seen = Len(db) /\ answer'.window = w
      /\ answer'.query = q /\ answer'.substr = substr /\ answer'.turns = Turns(S)
      /\ answer'.inbound = Cardinality(S \ M) /\ answer'.outbound = Cardinality(M)
      /\ world' = world /\ role' = role /\ files' = files /\ db' = db
  BY <1>2, <1>3, <1>4, <1>5 DEF Serve
<1>7. ReadTypeOK /\ Loaded = files
  BY <1>2, HostActionsOnly DEF Serve, ReadInv
<1>8. S = {i \in DOMAIN db : i + w > Len(db) /\ i \in About(substr) /\ Readable(i)}
  BY <1>3, <1>7, FetchReads
<1>9. Window' = {i \in DOMAIN db : i + w > Len(db)}
  BY <1>6, <1>7, WindowNow
<1>10. S = Sought'
  BY <1>6, <1>8, <1>9 DEF Sought, Readable, About, Chat, Is
<1>11. Len(db) \in Nat /\ S \in SUBSET (1 .. Len(db)) /\ M \in SUBSET S
  BY <1>4, <1>7, <1>8, WorldFacts
<1>12. PICK R : R = {t \in S \X S : Reply(S, M, t[1], t[2])}
  OBVIOUS
<1>13. answer'.turns = R
  <2>1. S \subseteq Nat \ {0} /\ \A i \in S : i <= Len(db)
    BY <1>11
  <2>2. \A i \in S : i \in M <=> db[i].mine
    BY <1>4
  <2>3. Turns(S) = {t \in S \X S : Reply(S, M, t[1], t[2])}
    BY <1>11, <2>1, <2>2, TurnsAre
  <2> QED
    BY <1>6, <1>12, <2>3
<1>14. /\ Cardinality(R) <= Cardinality(S \ M)
       /\ Cardinality(R) <= Cardinality(M)
       /\ Cardinality(S \ M) + Cardinality(M) = Cardinality(S)
  BY <1>11, <1>12, RepliesBounded
<1>15. Cardinality(S \ M) \in Nat /\ Cardinality(M) \in Nat
  BY <1>11, Places
<1>16. SamplesAreReplies'
  <2>1. \A i \in S : i \in M <=> db'[i].mine
    BY <1>4, <1>6
  <2>2. \A a, b : Quiet(M, a, b) <=> \A k \in S : a < k /\ k < b => ~db'[k].mine
    BY <1>11, <2>1 DEF Quiet
  <2>3. R = {t \in S \X S :
               /\ t[1] < t[2]
               /\ ~db'[t[1]].mine /\ db'[t[2]].mine
               /\ \A k \in S : t[1] < k /\ k < t[2] => ~db'[k].mine
               /\ \A k \in S : k < t[1] /\ ~db'[k].mine =>
                    ~(\A l \in S : k < l /\ l < t[1] => ~db'[l].mine)}
    BY <1>12, <2>1, <2>2 DEF Reply
  <2>4. Cardinality(R) <= Min({answer'.inbound, answer'.outbound})
    BY <1>6, <1>14, <1>15, MinOfTwo
  <2>5. answer'.inbound + answer'.outbound = Cardinality(S)
    BY <1>6, <1>14
  <2> QED
    BY <1>6, <1>10, <1>13, <2>3, <2>4, <2>5 DEF SamplesAreReplies
<1>17. \A i \in Drawn' : i \in S
  <2>1. Drawn' = UNION {{t[1], t[2]} : t \in answer'.turns}
    BY <1>6 DEF Drawn, Is
  <2> QED
    BY <1>12, <1>13, <2>1
<1>18. ReadTypeOK'
  BY <1>6, <1>7 DEF ReadTypeOK, Message
<1>19. AnswerOK'
  BY <1>6, <1>8, <1>9, <1>11, <1>17 DEF AnswerOK, Windowed
<1>20. BodiesUnderPolicy'
  BY <1>6, <1>8, <1>17 DEF BodiesUnderPolicy, Readable, Chat
<1>21. HiddenContactsUnresolved'
  <2>1. visible \subseteq Contacts /\ visible \cap Hidden = {}
    BY <1>1, <1>7, VisibleNotHidden
  <2>2. ASSUME NEW c \in Hidden, substr = ContactKey(c), q.by # "id"
        PROVE  \E d \in Contacts \ Hidden : ContactKey(d) = ContactKey(c)
    <3>1. c \in Contacts
      BY DEF Hidden
    <3>2. \E d \in visible : ContactKey(d) = ContactKey(c)
      BY <1>7, <2>1, <2>2, <3>1, ResolveAmong
    <3> QED
      BY <2>1, <3>2
  <2>3. Hidden = {c \in Contacts : ~IsReadAllowed(c, c, files')}
    BY <1>6 DEF Hidden
  <2> QED
    BY <1>6, <2>2, <2>3 DEF HiddenContactsUnresolved, Is
<1>22. WaitingIsShown' /\ LimitKeepsTheNewest' /\ ListIsHonest'
  BY <1>6 DEF WaitingIsShown, LimitKeepsTheNewest, ListIsHonest, Is
<1> QED
  BY <1>16, <1>18, <1>19, <1>20, <1>21, <1>22 DEF ReadInv

--------------------------------------------------------------------------------
(* list_chats *)

\* Each row with activity is in ActiveRows by its last message, and no other is.
LEMMA RowsByDate ==
  ASSUME ReadTypeOK, NEW w, NEW r, NEW D, D # {},
         \A i : i \in D <=> i \in DOMAIN db /\ i + w > Len(db) /\ db[i].row = r,
         NEW h, h = Max(D)
  PROVE  /\ h \in ActiveRows(w)
         /\ db[h].row = r
         /\ \A i \in ActiveRows(w) : db[i].row = r => i = h
<1>1. Len(db) \in Nat /\ D \in SUBSET (1 .. Len(db)) /\ D # {}
  BY WorldFacts
<1>2. h \in D /\ \A i \in D : i <= h
  BY <1>1, GreatestNumber
<1>3. h \in DOMAIN db /\ h + w > Len(db) /\ db[h].row = r
  BY <1>2
<1>4. h \in ActiveRows(w)
  BY <1>2, <1>3 DEF ActiveRows
<1>5. ASSUME NEW i \in ActiveRows(w), db[i].row = r PROVE i = h
  <2>1. i \in D /\ h <= i
    BY <1>3, <1>5 DEF ActiveRows
  <2>2. i <= h /\ i \in 1 .. Len(db) /\ h \in 1 .. Len(db)
    BY <1>1, <1>2, <2>1
  <2> QED
    BY <1>1, <2>1, <2>2
<1> QED
  BY <1>3, <1>4, <1>5

LEMMA ActiveInside ==
  ASSUME NEW w, NEW i \in ActiveRows(w)
  PROVE  i \in DOMAIN db /\ i + w > Len(db)
  BY DEF ActiveRows

LEMMA WantedStays ==
  ASSUME world' = world, NEW g, NEW q, answer'.groups = g, answer'.query = q, NEW r
  PROVE  Wanted(r, answer.groups, answer.query)' <=> Wanted(r, g, q)
  BY DEF Wanted, LabelText

\* The places of the window w, and what ListedChats and ListIsHonest make of them
\* when the rows wanted are those of V and cand of them are scanned.
Made(w, n, cand, V, inside, active, items, s, chats, listed, asked, date) ==
  /\ inside = {i \in DOMAIN db : i + w > Len(db)}
  /\ active = ActiveRows(w)
  /\ items = {i \in Newest(active, cand) : db[i].row \in V}
  /\ s = NewestFirst(Newest(items, n))
  /\ chats = [k \in DOMAIN s |-> db[s[k]].row]
  /\ listed = {chats[k] : k \in DOMAIN chats}
  /\ asked = {r \in {db[i].row : i \in inside} : r \in V}
  /\ date = [r \in asked |-> Max({i \in inside : db[i].row = r})]

\* What the parts of ListIsHonest say, date[r] being the place of the last message
\* of the row r.
Honest(chats, n, asked, listed, date) ==
  /\ DOMAIN chats = 1 .. Cardinality(listed)
  /\ Cardinality(listed) <= n
  /\ listed \subseteq asked
  /\ \A r \in listed, u \in asked \ listed : date[u] < date[r]
  /\ \A k, l \in DOMAIN chats : k < l => date[chats[k]] > date[chats[l]]

\* Of the rows wanted among those scanned, the n most recently active: nothing
\* that was asked for is missing when neither the scan nor the limit cut anything.
LEMMA ListMade ==
  ASSUME ReadTypeOK, NEW w, NEW n \in Nat, NEW cand \in Nat, NEW V,
         NEW inside, NEW active, NEW items, NEW s, NEW chats, NEW listed, NEW asked, NEW date,
         Made(w, n, cand, V, inside, active, items, s, chats, listed, asked, date)
  PROVE  /\ Honest(chats, n, asked, listed, date)
         /\ Cardinality(items) <= n /\ Cardinality(active) <= cand => listed = asked
<1>0. /\ inside = {i \in DOMAIN db : i + w > Len(db)}
      /\ active = ActiveRows(w)
      /\ items = {i \in Newest(active, cand) : db[i].row \in V}
      /\ s = NewestFirst(Newest(items, n))
      /\ chats = [k \in DOMAIN s |-> db[s[k]].row]
      /\ listed = {chats[k] : k \in DOMAIN chats}
      /\ asked = {r \in {db[i].row : i \in inside} : r \in V}
      /\ date = [r \in asked |-> Max({i \in inside : db[i].row = r})]
  BY DEF Made
<1>1. /\ Len(db) \in Nat /\ active \in SUBSET inside
      /\ active \in SUBSET (1 .. Len(db)) /\ items \in SUBSET active
  <2>1. Len(db) \in Nat /\ DOMAIN db = 1 .. Len(db)
    BY WorldFacts
  <2>2. active \in SUBSET inside /\ active \in SUBSET (1 .. Len(db))
    BY <1>0, <2>1, ActiveInside
  <2> QED
    BY <1>0, <2>1, <2>2 DEF Newest
<1>2. PICK kept : kept = Newest(items, n)
  OBVIOUS
<1>3. kept \in SUBSET items /\ kept \in SUBSET (1 .. Len(db)) /\ items \in SUBSET (1 .. Len(db))
  BY <1>1, <1>2 DEF Newest
<1>4. /\ s \in [1 .. Cardinality(kept) -> kept]
      /\ DOMAIN s = 1 .. Cardinality(kept)
      /\ \A i \in kept : \E k \in 1 .. Cardinality(kept) : i = s[k]
      /\ \A k, l \in 1 .. Cardinality(kept) : k < l => s[k] > s[l]
  <2>1. /\ Enumerates(s, kept)
        /\ \A k, l \in 1 .. Cardinality(kept) : k < l => s[k] > s[l]
    BY <1>0, <1>1, <1>2, <1>3, NewestFirstIs
  <2> QED
    BY <2>1 DEF Enumerates
<1>5. ASSUME NEW i \in items
      PROVE  db[i].row \in asked /\ date[db[i].row] = i
  <2>1. db[i].row \in asked /\ db[i].row \in {db[j].row : j \in inside}
    BY <1>0, <1>1
  <2>2. PICK h : h = Max({j \in inside : db[j].row = db[i].row})
    OBVIOUS
  <2>3. i = h
    BY <1>0, <1>1, <2>1, <2>2, RowsByDate
  <2> QED
    BY <1>0, <2>1, <2>2, <2>3
<1>6. ASSUME NEW u \in asked
      PROVE  date[u] \in active /\ db[date[u]].row = u /\ u \in V
  <2>1. PICK D, h : D = {j \in inside : db[j].row = u} /\ h = Max(D)
    OBVIOUS
  <2>2. D # {} /\ u \in V
    BY <1>0, <2>1
  <2>3. h \in ActiveRows(w) /\ db[h].row = u
    <3>1. \A i : i \in D <=> i \in DOMAIN db /\ i + w > Len(db) /\ db[i].row = u
      BY <1>0, <2>1
    <3>2. h \in ActiveRows(w)
      BY <2>1, <2>2, <3>1, RowsByDate
    <3>3. D \in SUBSET (1 .. Len(db)) /\ Len(db) \in Nat
      BY <3>1, WorldFacts
    <3>4. h \in D
      BY <2>1, <2>2, <3>3, GreatestNumber
    <3> QED
      BY <3>1, <3>2, <3>4
  <2>4. date[u] = h
    BY <1>0, <2>1
  <2> QED
    BY <1>0, <2>2, <2>3, <2>4
<1>7. /\ \A k \in DOMAIN chats : chats[k] = db[s[k]].row /\ s[k] \in kept /\ date[chats[k]] = s[k]
      /\ DOMAIN chats = 1 .. Cardinality(kept)
  BY <1>0, <1>3, <1>4, <1>5
<1>8. /\ \A i \in kept : db[i].row \in listed
      /\ \A r \in listed : r \in asked /\ date[r] \in kept /\ db[date[r]].row = r
  <2>1. ASSUME NEW i \in kept PROVE db[i].row \in listed
    <3>1. PICK k \in 1 .. Cardinality(kept) : i = s[k]
      BY <1>4
    <3> QED
      BY <1>0, <1>7, <3>1
  <2>2. ASSUME NEW r \in listed PROVE r \in asked /\ date[r] \in kept /\ db[date[r]].row = r
    <3>1. PICK k \in DOMAIN chats : r = chats[k]
      BY <1>0
    <3>2. r = db[s[k]].row /\ s[k] \in kept /\ s[k] \in items
      BY <1>3, <1>7, <3>1
    <3>3. db[s[k]].row \in asked /\ date[db[s[k]].row] = s[k]
      BY <1>5, <3>2
    <3> QED
      BY <3>2, <3>3
  <2> QED
    BY <2>1, <2>2
<1>9. Cardinality(listed) = Cardinality(kept)
  <2>1. PICK f : f = [i \in kept |-> db[i].row]
    OBVIOUS
  <2>2. \A x, y \in kept : f[x] = f[y] => x = y
    BY <1>3, <1>5, <2>1
  <2>3. \A x \in kept : f[x] \in listed
    BY <1>8, <2>1
  <2>4. \A r \in listed : \E x \in kept : r = f[x]
    BY <1>8, <2>1
  <2>5. IsFiniteSet(kept)
    BY <1>1, <1>3, Places
  <2> QED
    BY <2>2, <2>3, <2>4, <2>5, ImageSize
<1>10. Cardinality(kept) <= n
  <2>1. Cardinality(kept) = IF n < Cardinality(items) THEN n ELSE Cardinality(items)
    BY <1>1, <1>2, <1>3, NewestSize
  <2>2. Cardinality(items) \in Nat
    BY <1>1, <1>3, Places
  <2> QED
    BY <2>1, <2>2
<1>11. ASSUME NEW r \in listed, NEW u \in asked \ listed
       PROVE  date[u] < date[r]
  <2>1. date[r] \in kept /\ date[u] \in active /\ db[date[u]].row = u /\ u \in V
    BY <1>6, <1>8
  <2>2. date[u] \notin kept
    BY <1>8, <2>1
  <2>3. CASE date[u] \in Newest(active, cand)
    <3>1. PICK i, j : i = date[r] /\ j = date[u]
      OBVIOUS
    <3>2. i \in Newest(items, n) /\ j \in items \ Newest(items, n)
      BY <1>0, <1>2, <2>1, <2>2, <2>3, <3>1
    <3>3. j < i
      BY <1>1, <1>3, <3>2, NewestDropsOlder
    <3> QED
      BY <3>1, <3>3
  <2>4. CASE date[u] \notin Newest(active, cand)
    <3>1. date[r] \in Newest(active, cand)
      BY <1>0, <1>3, <2>1
    <3>2. date[u] \in active \ Newest(active, cand)
      BY <2>1, <2>4
    <3> QED
      BY <1>1, <3>1, <3>2, NewestDropsOlder
  <2> QED
    BY <2>3, <2>4
<1>12. ASSUME NEW k \in DOMAIN chats, NEW l \in DOMAIN chats, k < l
       PROVE  date[chats[k]] > date[chats[l]]
  <2>1. date[chats[k]] = s[k] /\ date[chats[l]] = s[l]
    BY <1>7
  <2>2. k \in 1 .. Cardinality(kept) /\ l \in 1 .. Cardinality(kept)
    BY <1>7
  <2>3. s[k] > s[l]
    BY <1>4, <1>12, <2>2
  <2> QED
    BY <2>1, <2>3
<1>13. ASSUME Cardinality(items) <= n, Cardinality(active) <= cand
       PROVE  listed = asked
  <2>1. Newest(active, cand) = active
    BY <1>1, <1>13, NewestOfFew
  <2>2. kept = items
    BY <1>1, <1>2, <1>3, <1>13, NewestOfFew
  <2>3. ASSUME NEW u \in asked PROVE u \in listed
    <3>1. date[u] \in items /\ db[date[u]].row = u
      BY <1>0, <1>6, <2>1
    <3> QED
      BY <1>8, <2>2, <3>1
  <2> QED
    BY <1>8, <2>3
<1>14. Honest(chats, n, asked, listed, date)
  BY <1>7, <1>8, <1>9, <1>10, <1>11, <1>12 DEF Honest
<1> QED
  BY <1>13, <1>14

LEMMA ListChatsStep == ReadInv /\ ListChats => ReadInv'
<1> SUFFICES ASSUME ReadInv, ListChats PROVE ReadInv'
  OBVIOUS
<1>0. PICK w \in world.windows, n \in world.limits :
        \E groups, q :
          /\ Serve("list_chats")
          /\ answer' = [action |-> "list_chats", seen |-> Len(db), window |-> w,
                        limit |-> n, groups |-> groups, query |-> q,
                        chats |-> ListedChats(w, n, groups, q).chats,
                        truncated |-> ListedChats(w, n, groups, q).truncated]
  BY Zenon DEF ListChats
<1>1. PICK groups, q :
        /\ Serve("list_chats")
        /\ answer' = [action |-> "list_chats", seen |-> Len(db), window |-> w,
                      limit |-> n, groups |-> groups, query |-> q,
                      chats |-> ListedChats(w, n, groups, q).chats,
                      truncated |-> ListedChats(w, n, groups, q).truncated]
  BY <1>0
<1>2. PICK list : list = ListedChats(w, n, groups, q)
  OBVIOUS
<1>3. /\ answer'.action = "list_chats" /\ answer'.seen = Len(db) /\ answer'.window = w
      /\ answer'.limit = n /\ answer'.groups = groups /\ answer'.query = q
      /\ answer'.chats = list.chats /\ answer'.truncated = list.truncated
      /\ world' = world /\ role' = role /\ files' = files /\ db' = db
  BY <1>1, <1>2 DEF Serve
<1>4. ReadTypeOK
  BY DEF ReadInv
<1>5. /\ n \in Nat /\ n + 1 \in Nat /\ w \in Nat /\ ScanLimit \in Nat
      /\ Len(db) \in Nat /\ DOMAIN db = 1 .. Len(db)
  <2>1. world.limits \cup world.windows \subseteq Nat \ {0}
    BY <1>4, WorldFacts DEF WorldOK
  <2>2. n \in Nat /\ n + 1 \in Nat /\ w \in Nat
    BY <2>1
  <2> QED
    BY <1>4, <2>2, WorldFacts
<1>6. Window' = {i \in DOMAIN db : i + w > Len(db)}
  BY <1>3, <1>4, WindowNow
<1>7. PICK cand : cand = IF q # "" \/ ~groups THEN Max({n + 1, ScanLimit}) ELSE n
  OBVIOUS
<1>8. cand \in Nat
  <2>1. Max({n + 1, ScanLimit}) \in Nat
    BY <1>5, MaxOfTwo
  <2> QED
    BY <1>5, <1>7, <2>1
<1>9. PICK active : active = ActiveRows(w)
  OBVIOUS
<1>10. PICK items : items = {i \in Newest(active, cand) : Wanted(db[i].row, groups, q)}
  OBVIOUS
<1>11. PICK s : s = NewestFirst(Newest(items, n))
  OBVIOUS
<1>12. PICK chats : chats = [k \in DOMAIN s |-> db[s[k]].row]
  OBVIOUS
<1>13. PICK listed : listed = {chats[k] : k \in DOMAIN chats}
  OBVIOUS
<1>14. PICK inside : inside = {i \in DOMAIN db : i + w > Len(db)}
  OBVIOUS
<1>15. PICK V : V = {r \in {db[i].row : i \in DOMAIN db} : Wanted(r, groups, q)}
  OBVIOUS
<1>16. PICK asked : asked = {r \in {db[i].row : i \in inside} : r \in V}
  OBVIOUS
<1>17. PICK date : date = [r \in asked |-> Max({i \in inside : db[i].row = r})]
  OBVIOUS
<1>18. items = {i \in Newest(active, cand) : db[i].row \in V}
  <2>1. \A i \in Newest(active, cand) : i \in DOMAIN db
    BY <1>9, ActiveInside DEF Newest
  <2> QED
    BY <1>10, <1>15, <2>1
<1>19. /\ Honest(chats, n, asked, listed, date)
       /\ Cardinality(items) <= n /\ Cardinality(active) <= cand => listed = asked
  <2>0. Made(w, n, cand, V, inside, active, items, s, chats, listed, asked, date)
    BY <1>9, <1>11, <1>12, <1>13, <1>14, <1>16, <1>17, <1>18 DEF Made
  <2>1. Honest(chats, n, asked, listed, date)
    BY <1>4, <1>5, <1>8, <2>0, ListMade
  <2>2. ASSUME Cardinality(items) <= n, Cardinality(active) <= cand PROVE listed = asked
    BY <1>4, <1>5, <1>8, <2>0, <2>2, ListMade
  <2> QED
    BY <2>1, <2>2
<1>20. answer'.chats = chats
  <2>1. list.chats = chats
    BY <1>2, <1>7, <1>9, <1>10, <1>11, <1>12 DEF ListedChats
  <2> QED
    BY <1>3, <2>1
<1>21. ASSUME ~answer'.truncated PROVE listed = asked
  <2>1. ~(Cardinality(items) > n \/ Cardinality(active) > cand)
    <3> DEFINE e == Cardinality(items) > n \/ Cardinality(active) > cand
    <3>1. list.truncated = e
      BY <1>2, <1>7, <1>9, <1>10 DEF ListedChats
    <3>2. e \in BOOLEAN
      OBVIOUS
    <3>3. ~e
      <4> HIDE DEF e
      <4> QED
        BY <1>3, <1>21, <3>1, <3>2, Zenon
    <3> QED
      BY <3>3
  <2>2. Cardinality(items) \in Nat /\ Cardinality(active) \in Nat
    <3>1. active \in SUBSET (1 .. Len(db))
      BY <1>5, <1>9, ActiveInside
    <3>2. items \in SUBSET (1 .. Len(db))
      BY <1>10, <3>1 DEF Newest
    <3> QED
      BY <1>5, <3>1, <3>2, Places
  <2>3. Cardinality(items) <= n /\ Cardinality(active) <= cand
    BY <1>5, <1>8, <2>1, <2>2
  <2> QED
    BY <1>19, <2>3
<1>22. asked = Asked'
  <2>1. \A r : Wanted(r, answer.groups, answer.query)' <=> Wanted(r, groups, q)
    BY <1>3, WantedStays
  <2>2. inside = Window' /\ db' = db
    BY <1>3, <1>6, <1>14
  <2>3. asked = {r \in {db[i].row : i \in inside} : Wanted(r, groups, q)}
    BY <1>14, <1>15, <1>16
  <2> QED
    BY <2>1, <2>2, <2>3 DEF Asked
<1>23. date = Date' /\ listed = RowsListed'
  BY <1>3, <1>6, <1>13, <1>14, <1>17, <1>20, <1>22 DEF Date, RowsListed
<1>24. ListIsHonest'
  <2>1. Honest(answer'.chats, answer'.limit, Asked', RowsListed', Date')
    BY <1>3, <1>19, <1>20, <1>22, <1>23
  <2>2. ~answer'.truncated => RowsListed' = Asked'
    BY <1>21, <1>22, <1>23
  <2> QED
    BY <2>1, <2>2 DEF ListIsHonest, Honest
<1>25. ReadTypeOK'
  BY <1>3, <1>4 DEF ReadTypeOK, Message
<1>26. Drawn' = {}
  BY <1>3 DEF Drawn, Is
<1>27. AnswerOK' /\ BodiesUnderPolicy'
  <2>1. AnswerOK'
    <3>1. answer'.seen \in 0 .. Len(db')
      BY <1>3, <1>5
    <3> QED
      BY <1>3, <1>26, <3>1 DEF AnswerOK, Windowed
  <2>2. BodiesUnderPolicy'
    BY <1>26 DEF BodiesUnderPolicy
  <2> QED
    BY <2>1, <2>2
<1>28. /\ HiddenContactsUnresolved' /\ WaitingIsShown'
       /\ LimitKeepsTheNewest' /\ SamplesAreReplies'
  BY <1>3 DEF HiddenContactsUnresolved, WaitingIsShown, LimitKeepsTheNewest, SamplesAreReplies, Is
<1> QED
  BY <1>24, <1>25, <1>27, <1>28 DEF ReadInv

--------------------------------------------------------------------------------
(* The other steps *)

\* With no answer on disk, there is nothing to be judged.
LEMMA NothingAnswered ==
  ASSUME ReadTypeOK', answer'.action \in {"none", "refused"}
  PROVE  ReadInv'
<1>1. Drawn' = {}
  BY DEF Drawn, Is
<1>2. AnswerOK' /\ BodiesUnderPolicy'
  BY <1>1 DEF AnswerOK, Windowed, BodiesUnderPolicy
<1>3. HiddenContactsUnresolved'
  BY DEF HiddenContactsUnresolved, Is
<1>4. /\ WaitingIsShown' /\ LimitKeepsTheNewest'
      /\ SamplesAreReplies' /\ ListIsHonest'
  BY DEF WaitingIsShown, LimitKeepsTheNewest, SamplesAreReplies, ListIsHonest, Is
<1> QED
  BY <1>2, <1>3, <1>4 DEF ReadInv

LEMMA NoAnswerStep == ReadInv /\ (NotPermitted \/ Collect) => ReadInv'
<1> SUFFICES ASSUME ReadInv, NotPermitted \/ Collect PROVE ReadInv'
  OBVIOUS
<1>1. UNCHANGED <<world, role, files, db>> /\ answer'.action \in {"none", "refused"}
  BY DEF NotPermitted, Collect, NoAnswer
<1>2. ReadTypeOK'
  BY <1>1 DEF ReadInv, ReadTypeOK, Message
<1> QED
  BY <1>1, <1>2, NothingAnswered

LEMMA StutterStep == ReadInv /\ UNCHANGED vars => ReadInv'
<1> SUFFICES ASSUME ReadInv, UNCHANGED vars PROVE ReadInv'
  OBVIOUS
<1>1. world' = world /\ role' = role /\ files' = files /\ db' = db /\ answer' = answer
  BY DEF vars
<1>2. ReadTypeOK'
  BY <1>1 DEF ReadInv, ReadTypeOK, Message
<1>3. Window' = Window /\ Drawn' = Drawn /\ Listed' = Listed /\ RowsListed' = RowsListed
  BY <1>1 DEF Window, Drawn, Listed, RowsListed, Is
<1>4. AnswerOK'
  BY <1>1, <1>3 DEF ReadInv, AnswerOK
<1>5. BodiesUnderPolicy'
  BY <1>1, <1>3 DEF ReadInv, BodiesUnderPolicy, Readable, Chat
<1>6. HiddenContactsUnresolved'
  BY <1>1 DEF ReadInv, HiddenContactsUnresolved, Is
<1>7. WaitingIsShown'
  BY <1>1, <1>3 DEF ReadInv, WaitingIsShown, IsAutomated, Readable, Chat, Is
<1>8. Sought' = Sought
  BY <1>1, <1>3 DEF Sought, About, Readable, Chat, Is
<1>9. LimitKeepsTheNewest' /\ SamplesAreReplies'
  BY <1>1, <1>3, <1>8 DEF ReadInv, LimitKeepsTheNewest, SamplesAreReplies, Is
<1>10. Asked' = Asked /\ Date' = Date
  BY <1>1, <1>3, WantedStays DEF Asked, Date
<1>11. ListIsHonest'
  BY <1>1, <1>3, <1>10 DEF ReadInv, ListIsHonest, Is
<1> QED
  BY <1>2, <1>4, <1>5, <1>6, <1>7, <1>9, <1>11 DEF ReadInv

\* A message that arrives lies beyond what the answer saw.
LEMMA ArriveStep == ReadInv /\ Arrive => ReadInv'
<1> SUFFICES ASSUME ReadInv, Arrive PROVE ReadInv'
  OBVIOUS
<1>1. PICK m \in Message : db' = Append(db, m)
  BY DEF Arrive
<1>2. world' = world /\ role' = role /\ files' = files /\ answer' = answer
  BY DEF Arrive
<1>3. ReadTypeOK /\ AnswerOK /\ db \in Seq(Message)
  BY DEF ReadInv, ReadTypeOK
<1>4. /\ Len(db) \in Nat /\ Len(db') = Len(db) + 1
      /\ DOMAIN db = 1 .. Len(db) /\ DOMAIN db' = 1 .. Len(db')
      /\ \A i \in DOMAIN db : i \in DOMAIN db' /\ db'[i] = db[i]
  BY <1>1, <1>3
<1>5. ReadTypeOK'
  <2>1. db' \in Seq(Message)
    BY <1>1, <1>3
  <2> QED
    BY <1>2, <1>3, <2>1 DEF ReadTypeOK, Message
<1>6. Window' = Window /\ Drawn' = Drawn /\ Listed' = Listed /\ RowsListed' = RowsListed
  BY <1>2 DEF Window, Drawn, Listed, RowsListed, Is
<1>7. answer.action \in Windowed => Window \subseteq DOMAIN db
  BY <1>3, <1>4 DEF AnswerOK, Window
<1>8. \A i \in DOMAIN db : /\ Chat(i)' = Chat(i)
                           /\ Readable(i)' <=> Readable(i)
                           /\ IsAutomated(i)' <=> IsAutomated(i)
  BY <1>2, <1>4 DEF Chat, Readable, IsAutomated
<1>9. AnswerOK'
  BY <1>2, <1>3, <1>4, <1>6 DEF AnswerOK, Windowed
<1>10. BodiesUnderPolicy'
  <2>1. ASSUME NEW i \in Drawn PROVE Readable(i)'
    <3>1. answer.action \in Windowed
      BY DEF Drawn, Is, Windowed
    <3>2. i \in DOMAIN db /\ Readable(i)
      BY <1>3, <1>7, <3>1 DEF AnswerOK, ReadInv, BodiesUnderPolicy
    <3> QED
      BY <1>8, <3>2
  <2> QED
    BY <1>6, <2>1 DEF BodiesUnderPolicy
<1>11. HiddenContactsUnresolved'
  BY <1>2 DEF ReadInv, HiddenContactsUnresolved, Is
<1>12. WaitingIsShown'
  <2>1. CASE answer.action = "review"
    <3>1. Window \subseteq DOMAIN db /\ WaitingIsShown
      BY <1>7, <2>1 DEF Windowed, ReadInv
    <3>2. ASSUME NEW i \in Window', Readable(i)', ~db'[i].mine, ~IsAutomated(i)',
                 \A j \in Window' : j > i /\ Chat(j)' = Chat(i)' => ~db'[j].mine
          PROVE  \E e \in answer.entries : e.chat = Chat(i) /\ e.bucket # "skip"
      <4>1. i \in Window /\ i \in DOMAIN db
        BY <1>6, <3>1, <3>2
      <4>2. \A j \in Window : j > i /\ Chat(j) = Chat(i) => ~db[j].mine
        BY <1>4, <1>6, <1>8, <3>1, <3>2, <4>1
      <4>3. Readable(i) /\ ~db[i].mine /\ ~IsAutomated(i)
        BY <1>4, <1>8, <3>2, <4>1
      <4> QED
        BY <2>1, <3>1, <4>1, <4>2, <4>3 DEF WaitingIsShown, Is
    <3> QED
      BY <1>2, <1>6, <1>8, <3>1, <3>2 DEF WaitingIsShown
  <2>2. CASE answer.action # "review"
    BY <1>2, <2>2 DEF WaitingIsShown, Is
  <2> QED
    BY <2>1, <2>2
<1>13. answer.action \in Windowed => Sought' = Sought /\ Sought \subseteq DOMAIN db
  <2>1. ASSUME Window \subseteq DOMAIN db PROVE Sought' = Sought /\ Sought \subseteq DOMAIN db
    <3>1. \A i \in Window : (i \in About(answer.substr))' <=> i \in About(answer.substr)
      BY <1>2, <1>4, <1>8, <2>1 DEF About, Chat
    <3> QED
      BY <1>2, <1>4, <1>6, <1>8, <2>1, <3>1 DEF Sought, Is
  <2> QED
    BY <1>7, <2>1
<1>14. LimitKeepsTheNewest'
  <2>1. CASE answer.action \in {"search", "chat_history"}
    <3>1. Sought' = Sought /\ LimitKeepsTheNewest
      BY <1>13, <2>1 DEF Windowed, ReadInv
    <3> QED
      BY <1>2, <1>6, <3>1 DEF LimitKeepsTheNewest, Is
  <2>2. CASE answer.action \notin {"search", "chat_history"}
    BY <1>2, <2>2 DEF LimitKeepsTheNewest
  <2> QED
    BY <2>1, <2>2
<1>15. SamplesAreReplies'
  <2>1. CASE answer.action = "response_stats"
    <3>1. Sought' = Sought /\ Sought \subseteq DOMAIN db /\ SamplesAreReplies
      BY <1>13, <2>1 DEF Windowed, ReadInv
    <3>2. \A k \in Sought : db'[k].mine <=> db[k].mine
      BY <1>4, <3>1
    <3> QED
      BY <1>2, <3>1, <3>2 DEF SamplesAreReplies, Is
  <2>2. CASE answer.action # "response_stats"
    BY <1>2, <2>2 DEF SamplesAreReplies, Is
  <2> QED
    BY <2>1, <2>2
<1>16. ListIsHonest'
  <2>1. CASE answer.action = "list_chats"
    <3>1. Window \subseteq DOMAIN db /\ ListIsHonest
      BY <1>7, <2>1 DEF Windowed, ReadInv
    <3>2. \A i \in Window : db'[i] = db[i]
      BY <1>4, <3>1
    <3>3. Asked' = Asked
      <4>1. \A r : Wanted(r, answer.groups, answer.query)' <=> Wanted(r, answer.groups, answer.query)
        BY <1>2, WantedStays
      <4> QED
        BY <1>2, <1>6, <3>2, <4>1 DEF Asked
    <3>4. Date' = Date
      <4>1. ASSUME NEW r
            PROVE  {i \in Window : db[i].row = r} = {i \in Window' : db'[i].row = r}
        BY <1>6, <3>2
      <4> QED
        BY <3>3, <4>1 DEF Date
    <3> QED
      BY <1>2, <1>6, <3>1, <3>3, <3>4 DEF ListIsHonest, Is
  <2>2. CASE answer.action # "list_chats"
    BY <1>2, <2>2 DEF ListIsHonest, Is
  <2> QED
    BY <2>1, <2>2
<1> QED
  BY <1>5, <1>9, <1>10, <1>11, <1>12, <1>14, <1>15, <1>16 DEF ReadInv

LEMMA ReadInvariant == Spec => []ReadInv
<1>1. Init => ReadInv
  <2> SUFFICES ASSUME Init PROVE ReadInv
    OBVIOUS
  <2>1. answer.action = "none" /\ db = <<>>
    BY DEF Init, NoAnswer
  <2>2. ReadTypeOK
    BY DEF Init, ReadTypeOK
  <2>3. Drawn = {}
    BY <2>1 DEF Drawn, Is
  <2> QED
    BY <2>1, <2>2, <2>3 DEF ReadInv, AnswerOK, Windowed, BodiesUnderPolicy,
       HiddenContactsUnresolved, WaitingIsShown, LimitKeepsTheNewest, SamplesAreReplies,
       ListIsHonest, Is
<1>2. ReadInv /\ [Next]_vars => ReadInv'
  BY ArriveStep, NoAnswerStep, ReviewStep, SearchStep, ChatHistoryStep, StatsStep,
     ContactsLookupStep, ListChatsStep, StutterStep DEF Next
<1> QED
  BY <1>1, <1>2, PTL DEF Spec

--------------------------------------------------------------------------------
(* The theorems *)

\* The answer on disk saw a part of the messages there are now, and what it shows
\* or counts is within the window that was asked for, however the messages that
\* have come since move the window of a later request.
THEOREM AnswersStayInTheirWindow == Spec => [](ReadTypeOK /\ AnswerOK)
<1>1. ReadInv => ReadTypeOK /\ AnswerOK
  BY DEF ReadInv
<1> QED
  BY <1>1, ReadInvariant, PTL

\* For every policy, every role and every database, no action shows or counts a
\* message that the files of the user do not allow: the actions of a management
\* bridge, which loads no policy, draw on none.
THEOREM BodiesStayUnderPolicy == Spec => []BodiesUnderPolicy
<1>1. ReadInv => BodiesUnderPolicy
  BY DEF ReadInv
<1> QED
  BY <1>1, ReadInvariant, PTL

\* A contact that the policy hides is not resolved for the host, by its name or
\* beside a message, in contacts_lookup, chat_history or response_stats.
THEOREM HiddenContactsStayUnresolved == Spec => []HiddenContactsUnresolved
<1>1. ReadInv => HiddenContactsUnresolved
  BY DEF ReadInv
<1> QED
  BY <1>1, ReadInvariant, PTL

\* The classification of review loses nobody who waits, whatever came after their
\* message and however long the skip bucket is.
THEOREM WhoWaitsIsShown == Spec => []WaitingIsShown
<1>1. ReadInv => WaitingIsShown
  BY DEF ReadInv
<1> QED
  BY <1>1, ReadInvariant, PTL

\* The sorts and slices of search and chat_history return, for every limit, the
\* newest of all that was asked for, each once and in the promised order.
THEOREM LimitsKeepTheNewest == Spec => []LimitKeepsTheNewest
<1>1. ReadInv => LimitKeepsTheNewest
  BY DEF ReadInv
<1> QED
  BY <1>1, ReadInvariant, PTL

\* The loop of response_stats computes what its samples are meant to be, for
\* histories of any length: the first unanswered message of each run of theirs
\* with the reply that ends it.
THEOREM LoopFindsTheReplies == Spec => []SamplesAreReplies
<1>1. ReadInv => SamplesAreReplies
  BY DEF ReadInv
<1> QED
  BY <1>1, ReadInvariant, PTL

\* list_chats scans a bounded number of rows before it filters them, and still
\* says so whenever a chat that was asked for is missing; those it lists are the
\* most recently active.
THEOREM ListsAreHonest == Spec => []ListIsHonest
<1>1. ReadInv => ListIsHonest
  BY DEF ReadInv
<1> QED
  BY <1>1, ReadInvariant, PTL

================================================================================
