------------------------------ MODULE Induction ------------------------------
(***************************************************************************)
(* Induction and recursion over the natural numbers, with sets and         *)
(* functions where NaturalsInduction has predicates and operators: for a   *)
(* proof by induction of P for every number, the set is {n \in Nat : P(n)}. *)
(***************************************************************************)
EXTENDS Integers, Sequences, WellFoundedInduction, TLAPS

\* A set with 0 and with the successor of each of its elements has all numbers.
LEMMA SetInduction ==
  ASSUME NEW T, 0 \in T, \A n \in Nat : n \in T => n + 1 \in T
  PROVE  Nat \subseteq T
<1> DEFINE R == {p \in Nat \X Nat : p[1] < p[2]}
<1> SUFFICES ASSUME Nat \ T # {} PROVE FALSE
  OBVIOUS
<1>1. PICK x \in Nat \ T : \A y \in Nat \ T : ~(<<y, x>> \in R)
  <2>1. IsWellFoundedOn(R, Nat)
    BY NatLessThanWellFounded DEF OpToRel
  <2> HIDE DEF R
  <2>2. QED
    BY <2>1, WFMin
<1>2. x # 0
  OBVIOUS
<1>3. x - 1 \in Nat /\ x - 1 < x /\ (x - 1) + 1 = x
  BY <1>2
<1>4. QED
  BY <1>1, <1>3

\* The values a recursion from v0 by d takes up to n.
UpTo(S, v0, d, n) ==
  {g \in [0..n -> S] : g[0] = v0 /\ \A k \in 0..(n - 1) : g[k + 1] = d[<<k + 1, g[k]>>]}

\* They are determined.
LEMMA UpToUnique ==
  ASSUME NEW S, NEW v0 \in S, NEW d \in [Nat \X S -> S], NEW m \in Nat, NEW n \in Nat,
         NEW g \in UpTo(S, v0, d, m), NEW h \in UpTo(S, v0, d, n)
  PROVE  \A k \in Nat : k <= m /\ k <= n => g[k] = h[k]
<1> DEFINE T == {k \in Nat : k <= m /\ k <= n => g[k] = h[k]}
<1>1. 0 \in T
  BY DEF UpTo
<1>2. ASSUME NEW k \in Nat, k \in T PROVE k + 1 \in T
  <2>1. SUFFICES ASSUME k + 1 <= m, k + 1 <= n PROVE g[k + 1] = h[k + 1]
    OBVIOUS
  <2>2. k \in 0..(m - 1) /\ k \in 0..(n - 1) /\ g[k] = h[k]
    BY <1>2, <2>1
  <2>3. QED
    BY <2>2 DEF UpTo
<1>3. Nat \subseteq T
  <2> HIDE DEF T
  <2>1. QED
    BY <1>1, <1>2, SetInduction
<1>4. QED
  BY <1>3

\* They exist.
LEMMA UpToExists ==
  ASSUME NEW S, NEW v0 \in S, NEW d \in [Nat \X S -> S]
  PROVE  \A n \in Nat : UpTo(S, v0, d, n) # {}
<1> DEFINE T == {n \in Nat : UpTo(S, v0, d, n) # {}}
<1>1. 0 \in T
  <2>1. [k \in 0..0 |-> v0] \in UpTo(S, v0, d, 0)
    BY DEF UpTo
  <2>2. QED
    BY <2>1
<1>2. ASSUME NEW n \in Nat, n \in T PROVE n + 1 \in T
  <2>1. PICK g : g \in UpTo(S, v0, d, n)
    BY <1>2
  <2> DEFINE h == [k \in 0..(n + 1) |-> IF k <= n THEN g[k] ELSE d[<<n + 1, g[n]>>]]
  <2>2. g \in [0..n -> S] /\ g[0] = v0 /\ \A k \in 0..(n - 1) : g[k + 1] = d[<<k + 1, g[k]>>]
    BY <2>1 DEF UpTo
  <2>3. d[<<n + 1, g[n]>>] \in S
    BY <2>2
  <2>4. h \in [0..(n + 1) -> S] /\ h[0] = v0
    BY <2>2, <2>3
  <2>5. \A k \in 0..n : h[k + 1] = d[<<k + 1, h[k]>>]
    <3>1. ASSUME NEW k \in 0..n PROVE h[k + 1] = d[<<k + 1, h[k]>>]
      <4>1. CASE k = n
        <5>1. h[n + 1] = d[<<n + 1, g[n]>>] /\ h[n] = g[n]
          OBVIOUS
        <5>2. QED
          BY <4>1, <5>1
      <4>2. CASE k < n
        BY <2>2, <4>2
      <4>3. QED
        BY <4>1, <4>2
    <3>2. QED
      BY <3>1
  <2>6. h \in UpTo(S, v0, d, n + 1)
    <3> HIDE DEF h
    <3>1. (n + 1) - 1 = n
      OBVIOUS
    <3>2. QED
      BY <2>4, <2>5, <3>1 DEF UpTo
  <2>7. QED
    BY <2>6
<1>3. Nat \subseteq T
  <2> HIDE DEF T
  <2>1. QED
    BY <1>1, <1>2, SetInduction
<1>4. QED
  BY <1>3

\* f is computed by recursion from v0: f[n + 1] is d of n + 1 and of f[n].
IsRecursion(f, S, v0, d) ==
  /\ f \in [Nat -> S]
  /\ f[0] = v0
  /\ \A n \in Nat : f[n + 1] = d[<<n + 1, f[n]>>]

\* Every recursion has a solution.
LEMMA RecursionExists ==
  ASSUME NEW S, NEW v0, v0 \in S, NEW d, d \in [Nat \X S -> S]
  PROVE  \E f : IsRecursion(f, S, v0, d)
<1> DEFINE G(n) == CHOOSE g : g \in UpTo(S, v0, d, n)
           f == [n \in Nat |-> G(n)[n]]
<1>1. \A n \in Nat : G(n) \in UpTo(S, v0, d, n)
  BY UpToExists
<1> HIDE DEF G
<1>2. \A n \in Nat : G(n) \in [0..n -> S]
  BY <1>1 DEF UpTo
<1>3. f \in [Nat -> S]
  BY <1>2
<1>4. f[0] = v0
  BY <1>1 DEF UpTo
<1>5. ASSUME NEW n \in Nat PROVE f[n + 1] = d[<<n + 1, f[n]>>]
  <2>1. G(n + 1)[n + 1] = d[<<n + 1, G(n + 1)[n]>>]
    <3>1. n \in 0..((n + 1) - 1)
      OBVIOUS
    <3>2. QED
      BY <1>1, <3>1 DEF UpTo
  <2>2. G(n + 1)[n] = G(n)[n]
    <3>1. n + 1 \in Nat /\ n <= n + 1 /\ n <= n
      OBVIOUS
    <3>2. G(n) \in UpTo(S, v0, d, n) /\ G(n + 1) \in UpTo(S, v0, d, n + 1)
      BY <1>1, <3>1
    <3> HIDE DEF f
    <3>3. QED
      BY <3>1, <3>2, UpToUnique
  <2>3. QED
    BY <2>1, <2>2
<1>6. IsRecursion(f, S, v0, d)
  <2> HIDE DEF f
  <2>1. QED
    BY <1>3, <1>4, <1>5 DEF IsRecursion
<1>7. QED
  BY <1>6
=============================================================================
