------------------------------- MODULE Recursion -------------------------------
(***************************************************************************)
(* What the proofs about loops and recursive functions rest on: induction  *)
(* over the naturals, the existence of a function defined by recursion,    *)
(* and that a set which only grows within a finite one stops growing.      *)
(*                                                                         *)
(* Induction is stated with sets where one would expect predicates.        *)
(***************************************************************************)
EXTENDS Integers, FiniteSetTheorems, WellFoundedInduction, TLAPS

(* A set of naturals that is not empty has a least element. *)
LEMMA LeastElement ==
    ASSUME NEW S \in SUBSET Nat, S # {}
    PROVE  \E m \in S : \A x \in S : m <= x
<1> DEFINE R == OpToRel(<, Nat)
<1>1. \E k \in S : \A y \in S : ~ (<<y, k>> \in R)
  <2>1. IsWellFoundedOn(R, Nat)
    BY NatLessThanWellFounded
  <2> HIDE DEF R
  <2> QED
    BY <2>1, WFMin
<1>2. PICK k \in S : \A y \in S : ~ (<<y, k>> \in R)
  BY <1>1
<1>3. \A y \in S : ~ (y < k)
  BY <1>2 DEF OpToRel
<1> QED
  BY <1>3

(* A set of naturals below a bound has a greatest element. *)
LEMMA GreatestElement ==
    ASSUME NEW n \in Nat, NEW S \in SUBSET (0 .. n), S # {}
    PROVE  \E m \in S : \A x \in S : x <= m
<1> DEFINE R == OpToRel(<, Nat)
           T == {n - x : x \in S}
<1>1. T \subseteq Nat
  <2> SUFFICES ASSUME NEW x \in S PROVE n - x \in Nat
    OBVIOUS
  <2>1. x \in 0 .. n
    OBVIOUS
  <2> QED
    BY <2>1
<1>2. T # {}
  OBVIOUS
<1>3. \E k \in T : \A y \in T : ~ (<<y, k>> \in R)
  <2> HIDE DEF T, R
  <2>1. IsWellFoundedOn(R, Nat)
    BY NatLessThanWellFounded DEF R
  <2> QED
    BY <1>1, <1>2, <2>1, WFMin
<1>4. PICK k \in T : \A y \in T : ~ (y < k)
  BY <1>1, <1>3 DEF OpToRel
<1>5. PICK m \in S : k = n - m
  BY <1>4
<1>6. ASSUME NEW x \in S PROVE x <= m
  <2>1. ~ (n - x < n - m)
    BY <1>4, <1>5
  <2>2. x \in 0 .. n /\ m \in 0 .. n
    OBVIOUS
  <2> QED
    BY <2>1, <2>2
<1> QED
  BY <1>6

(* Induction: a set that holds 0 and with n also n + 1 holds every natural. *)
LEMMA SetInduction ==
    ASSUME NEW T, 0 \in T, \A n \in Nat : n \in T => n + 1 \in T
    PROVE  Nat \subseteq T
<1> SUFFICES ASSUME ~ (Nat \subseteq T) PROVE FALSE
  OBVIOUS
<1>1. PICK m \in Nat \ T : \A x \in Nat \ T : m <= x
  <2>1. Nat \ T \in SUBSET Nat /\ Nat \ T # {}
    OBVIOUS
  <2> QED
    BY <2>1, LeastElement
<1>2. m # 0 /\ m - 1 \in Nat /\ m - 1 \in T
  BY <1>1
<1> QED
  BY <1>1, <1>2

(* The first n values of the function that starts with `base` and goes on   *)
(* by `step`, which is told where it is.                                    *)
Unrolled(S, base, step, n) ==
    {h \in [0 .. n -> S] : /\ h[0] = base
                           /\ \A k \in 0 .. n - 1 : h[k + 1] = step[<<k, h[k]>>]}

(* There is exactly one such function. *)
LEMMA UnrolledExists ==
    ASSUME NEW S, NEW base \in S, NEW step \in [Nat \X S -> S], NEW n \in Nat
    PROVE  \E h \in [0 .. n -> S] : h \in Unrolled(S, base, step, n)
<1> DEFINE T == {k \in Nat : \E h \in [0 .. k -> S] : h \in Unrolled(S, base, step, k)}
<1>1. 0 \in T
  <2>1. [i \in 0 .. 0 |-> base] \in Unrolled(S, base, step, 0)
    BY DEF Unrolled
  <2> QED
    BY <2>1 DEF Unrolled
<1>2. ASSUME NEW k \in Nat, k \in T PROVE k + 1 \in T
  <2>1. PICK h \in [0 .. k -> S] : h \in Unrolled(S, base, step, k)
    BY <1>2
  <2> DEFINE f == [i \in 0 .. k + 1 |-> IF i = k + 1 THEN step[<<k, h[k]>>] ELSE h[i]]
  <2>2. f \in [0 .. k + 1 -> S]
    <3>1. <<k, h[k]>> \in Nat \X S
      BY <1>2
    <3> QED
      BY <3>1, <1>2
  <2>3. f[0] = base
    BY <1>2, <2>1 DEF Unrolled
  <2>4. ASSUME NEW i \in 0 .. k PROVE f[i + 1] = step[<<i, f[i]>>]
    <3>1. f[i] = h[i] /\ i + 1 \in 0 .. k + 1
      BY <1>2
    <3>2. CASE i = k
      BY <1>2, <3>1, <3>2
    <3>3. CASE i # k
      <4>1. i \in 0 .. k - 1 /\ f[i + 1] = h[i + 1]
        BY <1>2, <3>3
      <4>2. h[i + 1] = step[<<i, h[i]>>]
        BY <2>1, <4>1 DEF Unrolled
      <4> HIDE DEF f
      <4> QED
        BY <3>1, <4>1, <4>2
    <3> QED
      BY <3>2, <3>3
  <2>5. f \in Unrolled(S, base, step, k + 1)
    <3> HIDE DEF f
    <3> QED
      BY <1>2, <2>2, <2>3, <2>4 DEF Unrolled
  <2> QED
    BY <1>2, <2>2, <2>5
<1>3. Nat \subseteq T
  <2> HIDE DEF T
  <2> QED
    BY <1>1, <1>2, SetInduction
<1> QED
  BY <1>3

(* Two unrolled prefixes of one recursion agree as far as both reach. *)
LEMMA UnrolledIsOne ==
    ASSUME NEW S, NEW base \in S, NEW step \in [Nat \X S -> S],
           NEW m \in Nat, NEW h \in Unrolled(S, base, step, m),
           NEW n \in Nat, NEW f \in Unrolled(S, base, step, n),
           NEW k \in Nat, k <= m, k <= n
    PROVE  h[k] = f[k]
<1> DEFINE T == {i \in Nat : i <= m /\ i <= n => h[i] = f[i]}
<1>1. 0 \in T
  BY DEF Unrolled
<1>2. ASSUME NEW i \in Nat, i \in T PROVE i + 1 \in T
  <2> SUFFICES ASSUME i + 1 <= m, i + 1 <= n PROVE h[i + 1] = f[i + 1]
    BY <1>2
  <2>1. h[i] = f[i] /\ i \in 0 .. m - 1 /\ i \in 0 .. n - 1
    BY <1>2
  <2>2. h[i + 1] = step[<<i, h[i]>>]
    BY <2>1 DEF Unrolled
  <2>3. f[i + 1] = step[<<i, f[i]>>]
    BY <2>1 DEF Unrolled
  <2> QED
    BY <2>1, <2>2, <2>3
<1>3. Nat \subseteq T
  <2> HIDE DEF T
  <2> QED
    BY <1>1, <1>2, SetInduction
<1> QED
  BY <1>3

(* The whole function. *)
Recurses(g, S, base, step) ==
    /\ g \in [Nat -> S]
    /\ g[0] = base
    /\ \A n \in Nat : g[n + 1] = step[<<n, g[n]>>]

(* Recursion over the naturals defines a function. *)
LEMMA RecursionExists ==
    ASSUME NEW S, NEW base \in S, NEW step \in [Nat \X S -> S]
    PROVE  \E g : Recurses(g, S, base, step)
<1> DEFINE H(n) == CHOOSE h \in [0 .. n -> S] : h \in Unrolled(S, base, step, n)
           g == [n \in Nat |-> H(n)[n]]
<1>1. ASSUME NEW n \in Nat
      PROVE  H(n) \in [0 .. n -> S] /\ H(n) \in Unrolled(S, base, step, n)
  BY UnrolledExists
<1>2. g \in [Nat -> S]
  <2> HIDE DEF H
  <2> QED
    BY <1>1
<1>3. g[0] = base
  <2> HIDE DEF H
  <2> QED
    BY <1>1 DEF Unrolled
<1>4. ASSUME NEW n \in Nat PROVE g[n + 1] = step[<<n, g[n]>>]
  <2> HIDE DEF H
  <2>1. H(n + 1)[n + 1] = step[<<n, H(n + 1)[n]>>]
    BY <1>1 DEF Unrolled
  <2>2. H(n + 1)[n] = H(n)[n]
    <3>1. H(n) \in Unrolled(S, base, step, n)
      BY <1>1
    <3>2. H(n + 1) \in Unrolled(S, base, step, n + 1)
      BY <1>1
    <3>3. n + 1 \in Nat /\ n <= n + 1 /\ n <= n
      OBVIOUS
    <3> QED
      BY <3>1, <3>2, <3>3, UnrolledIsOne
  <2> QED
    BY <2>1, <2>2
<1> QED
  <2> HIDE DEF g
  <2> QED
    BY <1>2, <1>3, <1>4 DEF Recurses

(* Two functions that begin alike, and of which each place is alike if the  *)
(* one before it is, agree.                                                 *)
AgreeUpTo(f, h, first, last) == \A i \in first .. last : f[i] = h[i]

(* Functions that agree at the first place, and at each further one if they do
   at the one before, agree up to the last. *)
LEMMA Agreement ==
    ASSUME NEW first \in Nat, NEW last \in Nat, NEW f, NEW h, f[first] = h[first],
           \A i \in first + 1 .. last : f[i - 1] = h[i - 1] => f[i] = h[i]
    PROVE  AgreeUpTo(f, h, first, last)
<1> DEFINE T == {n \in Nat : first + n <= last => f[first + n] = h[first + n]}
<1>1. 0 \in T
  OBVIOUS
<1>2. ASSUME NEW n \in Nat, n \in T PROVE n + 1 \in T
  <2> SUFFICES ASSUME first + (n + 1) <= last
               PROVE  f[first + (n + 1)] = h[first + (n + 1)]
    OBVIOUS
  <2>1. /\ first + (n + 1) \in first + 1 .. last
        /\ (first + (n + 1)) - 1 = first + n
    OBVIOUS
  <2>2. f[first + n] = h[first + n]
    BY <1>2
  <2> QED
    BY <2>1, <2>2
<1>3. Nat \subseteq T
  <2> HIDE DEF T
  <2> QED
    BY <1>1, <1>2, SetInduction
<1>4. ASSUME NEW i \in first .. last PROVE f[i] = h[i]
  <2>1. i - first \in T
    BY <1>3
  <2>2. first + (i - first) = i
    OBVIOUS
  <2> QED
    BY <2>1, <2>2
<1> QED
  BY <1>4 DEF AgreeUpTo

(* A set that never shrinks, stays within a finite set, and stays as it is  *)
(* once it did not grow, has stopped growing after as many steps as the     *)
(* finite set has members.                                                  *)
LEMMA GrowthStops ==
    ASSUME NEW N, IsFiniteSet(N), NEW c \in [Nat -> SUBSET N],
           \A n \in Nat : c[n] \subseteq c[n + 1],
           \A n \in Nat : c[n + 1] = c[n] => c[n + 2] = c[n + 1],
           NEW k \in Nat, Cardinality(N) <= k
    PROVE  c[k + 1] = c[k]
<1> DEFINE T == {n \in Nat : c[n + 1] = c[n] \/ Cardinality(c[n]) >= n}
<1>1. ASSUME NEW n \in Nat
      PROVE  /\ c[n] \in SUBSET N
             /\ IsFiniteSet(c[n]) /\ Cardinality(c[n]) \in Nat
             /\ Cardinality(c[n]) <= Cardinality(N)
             /\ Cardinality(N) = Cardinality(c[n]) => N = c[n]
  <2>1. c[n] \in SUBSET N
    OBVIOUS
  <2> QED
    BY <2>1, FS_Subset, FS_CardinalityType
<1>2. 0 \in T
  BY <1>1
<1>3. ASSUME NEW n \in Nat, n \in T PROVE n + 1 \in T
  <2>1. CASE c[n + 1] = c[n]
    <3>1. c[(n + 1) + 1] = c[n + 1]
      <4>1. (n + 1) + 1 = n + 2
        OBVIOUS
      <4> QED
        BY <2>1, <4>1
    <3> QED
      BY <3>1
  <2>2. CASE c[n + 1] # c[n] /\ Cardinality(c[n]) >= n
    <3>1. c[n] \in SUBSET c[n + 1]
      OBVIOUS
    <3>2. IsFiniteSet(c[n + 1])
      BY <1>1
    <3>3. /\ Cardinality(c[n]) <= Cardinality(c[n + 1])
          /\ Cardinality(c[n + 1]) # Cardinality(c[n])
      BY <3>1, <3>2, <2>2, FS_Subset
    <3>4. Cardinality(c[n]) \in Nat /\ Cardinality(c[n + 1]) \in Nat
      BY <1>1
    <3>5. Cardinality(c[n + 1]) >= n + 1
      BY <3>3, <3>4, <2>2
    <3> QED
      BY <3>5
  <2> QED
    BY <1>3, <2>1, <2>2
<1>4. k \in T
  <2> HIDE DEF T
  <2> QED
    BY <1>2, <1>3, SetInduction
<1>5. CASE Cardinality(c[k]) >= k
  <2>1. Cardinality(N) \in Nat
    BY FS_CardinalityType
  <2>2. Cardinality(c[k]) \in Nat /\ Cardinality(c[k]) <= Cardinality(N)
    BY <1>1
  <2>3. Cardinality(N) = Cardinality(c[k])
    BY <1>5, <2>1, <2>2
  <2>4. N = c[k]
    BY <1>1, <2>3
  <2>5. c[k] \subseteq c[k + 1] /\ c[k + 1] \subseteq N
    OBVIOUS
  <2> QED
    BY <2>4, <2>5
<1> QED
  BY <1>4, <1>5
===============================================================================
