------------------------------ MODULE RunLemmas ------------------------------
(***************************************************************************)
(* Recursion along a sequence, for the recursive functions the model reads *)
(* frames, versions and draws with: such a function exists, and what each  *)
(* of its steps keeps, its value has.                                      *)
(***************************************************************************)
EXTENDS Integers, Sequences, TLAPS, WellFoundedInduction

\* A set of numbers has a smallest one.
LEMMA SmallestExists ==
    ASSUME NEW S \in SUBSET Nat, S # {}
    PROVE  \E least \in S : \A y \in S : least <= y
<1>1. PICK least \in S : \A y \in S : ~ <<y, least>> \in OpToRel(<, Nat)
  BY NatLessThanWellFounded, WFMin
<1>2. S \subseteq Nat
  OBVIOUS
<1>3. \A y \in S : ~ (y < least)
  BY <1>1, <1>2, Zenon DEF OpToRel
<1> QED
  BY <1>2, <1>3

\* A set that holds 0, and with each number the next one, holds them all.
LEMMA IntervalInduction ==
    ASSUME NEW n \in Nat, NEW G, 0 \in G, \A i \in 0..(n - 1) : i \in G => i + 1 \in G
    PROVE  \A i \in 0..n : i \in G
<1> DEFINE missing == {i \in 0..n : i \notin G}
<1> SUFFICES ASSUME missing # {} PROVE FALSE
  OBVIOUS
<1>1. missing \subseteq Nat
  OBVIOUS
<1>2. PICK least \in missing : \A y \in missing : least <= y
  BY <1>1, SmallestExists
<1>3. \A y \in missing : ~ (y < least)
  BY <1>1, <1>2
<1>4. least \in 0..n /\ least \notin G
  OBVIOUS
<1> HIDE DEF missing
<1>5. least # 0 /\ least \in Nat
  BY <1>4
<1>6. least - 1 \in 0..(n - 1) /\ (least - 1) + 1 = least
  BY <1>4, <1>5
<1>7. least - 1 \in G
  <2>1. least - 1 \notin missing
    BY <1>3, <1>5
  <2> QED
    BY <1>6, <2>1 DEF missing
<1>8. (least - 1) + 1 \in G
  BY <1>6, <1>7
<1> QED
  BY <1>4, <1>6, <1>8

\* F[i] is the i-th of n steps, from a on; each of them maps T into T.
IsRun(g, n, a, F) == g[0] = a /\ \A i \in 1..n : g[i] = F[i][g[i - 1]]

Maps(F, n, T) == \A i \in 1..n : \A x \in T : F[i][x] \in T

LEMMA RunExists ==
    ASSUME NEW n \in Nat, NEW T, NEW a \in T, NEW F, Maps(F, n, T)
    PROVE  \E g \in [0..n -> T] : IsRun(g, n, a, F)
<1> DEFINE G == {m \in 0..n : \E g \in [0..m -> T] : IsRun(g, m, a, F)}
<1>1. 0 \in G
  <2>1. [i \in 0..0 |-> a] \in [0..0 -> T] /\ IsRun([i \in 0..0 |-> a], 0, a, F)
    BY DEF IsRun
  <2>2. 0 \in 0..n
    OBVIOUS
  <2> QED
    BY <2>1, <2>2
<1>2. ASSUME NEW m \in 0..(n - 1), m \in G PROVE m + 1 \in G
  <2>1. PICK g \in [0..m -> T] : IsRun(g, m, a, F)
    BY <1>2
  <2> DEFINE h == [i \in 0..(m + 1) |-> IF i = m + 1 THEN F[m + 1][g[m]] ELSE g[i]]
  <2>2. F[m + 1][g[m]] \in T
    BY DEF Maps
  <2>3. h \in [0..(m + 1) -> T]
    BY <2>2
  <2>4. h[0] = a
    BY <2>1 DEF IsRun
  <2>5. \A i \in 1..(m + 1) : h[i] = F[i][h[i - 1]]
    <3> SUFFICES ASSUME NEW i \in 1..(m + 1) PROVE h[i] = F[i][h[i - 1]]
      OBVIOUS
    <3>1. CASE i = m + 1
      BY <3>1
    <3>2. CASE i # m + 1
      BY <2>1, <3>2 DEF IsRun
    <3> QED
      BY <3>1, <3>2
  <2>6. m + 1 \in 0..n
    OBVIOUS
  <2> HIDE DEF h
  <2>7. IsRun(h, m + 1, a, F)
    BY <2>4, <2>5 DEF IsRun
  <2> QED
    BY <2>3, <2>6, <2>7
<1> HIDE DEF G
<1>3. n \in G
  <2>1. \A m \in 0..(n - 1) : m \in G => m + 1 \in G
    BY <1>2
  <2>2. \A m \in 0..n : m \in G
    BY <1>1, <2>1, IntervalInduction
  <2> QED
    BY <2>2
<1> QED
  BY <1>3 DEF G

\* What each step of a run keeps, all of it has.
LEMMA RunStays ==
    ASSUME NEW n \in Nat, NEW T, NEW g, g[0] \in T,
           \A i \in 0..(n - 1) : g[i] \in T => g[i + 1] \in T
    PROVE  g[n] \in T
<1> DEFINE G == {i \in 0..n : g[i] \in T}
<1>1. 0 \in G
  OBVIOUS
<1>2. ASSUME NEW i \in 0..(n - 1), i \in G PROVE i + 1 \in G
  BY <1>2
<1> HIDE DEF G
<1>3. \A i \in 0..n : i \in G
  BY <1>1, <1>2, IntervalInduction
<1>4. n \in G
  BY <1>3
<1> QED
  BY <1>4 DEF G
=============================================================================
