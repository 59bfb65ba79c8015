-------------------------------- MODULE MinFacts --------------------------------
(* What the community modules' Min returns on sets of naturals, and what      *)
(* follows from there being a least: induction over a set of numbers, and     *)
(* that a function defined by recursion on a number exists.                   *)
EXTENDS Integers, FiniteSetsExt, WellFoundedInduction, TLAPS

(* A non-empty set of naturals has a least element, the one Min picks.      *)
LEMMA MinOfNats ==
  ASSUME NEW S, S \subseteq Nat, S # {}
  PROVE  Min(S) \in S /\ \A y \in S : Min(S) <= y
<1> DEFINE Less == {ss \in Nat \X Nat : ss[1] < ss[2]}
<1>1. IsWellFoundedOn(Less, Nat)
  BY NatLessThanWellFounded DEF OpToRel
<1>2. PICK x \in S : \A y \in S : ~ (<<y, x>> \in Less)
  <2> HIDE DEF Less
  <2> QED  BY <1>1, WFMin
<1>3. \A y \in S : x <= y
  <2> SUFFICES ASSUME NEW y \in S, ~ (x <= y) PROVE FALSE
    OBVIOUS
  <2>1. x \in Nat /\ y \in Nat /\ y < x
    OBVIOUS
  <2>2. <<y, x>> \in Less
    BY <2>1
  <2> QED
    BY <1>2, <2>2
<1> QED
  BY <1>3 DEF Min

(* Whatever holds of a number and goes on to the next up to m, holds to m.  *)
LEMMA UpFrom ==
  ASSUME NEW n \in Int, NEW m \in Int, NEW S, n \in S,
         \A k \in n .. m - 1 : k \in S => k + 1 \in S
  PROVE  \A k \in n .. m : k \in S
<1> DEFINE bad == {k \in Nat : k + n <= m /\ k + n \notin S}
<1>1. CASE bad = {}
  <2> SUFFICES ASSUME NEW k \in n .. m PROVE k \in S
    OBVIOUS
  <2>1. k - n \in Nat /\ (k - n) + n = k
    OBVIOUS
  <2>2. k - n \notin bad
    BY <1>1
  <2> HIDE DEF bad
  <2> QED  BY <2>1, <2>2 DEF bad
<1>2. CASE bad # {}
  <2>1. bad \subseteq Nat
    OBVIOUS
  <2>2. PICK l \in bad : \A y \in bad : l <= y
    <3> HIDE DEF bad
    <3> QED  BY <1>2, <2>1, MinOfNats
  <2>3. l \in Nat /\ l + n <= m /\ l + n \notin S /\ l # 0
    BY <2>2
  <2>4. l - 1 \in Nat /\ l - 1 \notin bad
    <3> HIDE DEF bad
    <3> QED  BY <2>1, <2>2, <2>3
  <2>5. (l - 1) + n <= m /\ (l - 1) + n \in n .. m - 1 /\ (l - 1) + n + 1 = l + n
    BY <2>3
  <2>6. (l - 1) + n \in S
    BY <2>4, <2>5
  <2> QED  BY <2>3, <2>5, <2>6
<1> QED  BY <1>1, <1>2

(* A step from a value to the next, taken so many times, runs through values *)
(* of one function.                                                          *)
Steps(n, T) == [1 .. n -> [T -> T]]
Runs(n, T) == [0 .. n -> T]
Iterated(f, a, step, n) == f[0] = a /\ \A i \in 1 .. n : f[i] = step[i][f[i - 1]]

LEMMA Iterates ==
  ASSUME NEW n \in Nat, NEW T, NEW a \in T, NEW step \in Steps(n, T)
  PROVE  \E f \in Runs(n, T) : Iterated(f, a, step, n)
<1> USE DEF Steps, Runs
<1> DEFINE S == {m \in 0 .. n : \E f \in [0 .. n -> T] : Iterated(f, a, step, m)}
<1>1. 0 \in S
  <2>1. [i \in 0 .. n |-> a] \in [0 .. n -> T] /\ Iterated([i \in 0 .. n |-> a], a, step, 0)
    BY DEF Iterated
  <2> QED  BY <2>1
<1>2. ASSUME NEW m \in 0 .. n - 1, m \in S PROVE m + 1 \in S
  <2>1. PICK f \in [0 .. n -> T] : Iterated(f, a, step, m)
    BY <1>2
  <2> DEFINE g == [f EXCEPT ![m + 1] = step[m + 1][f[m]]]
  <2>2. m + 1 \in 1 .. n /\ m \in 0 .. n /\ m + 1 \in 0 .. n
    OBVIOUS
  <2>3. step[m + 1][f[m]] \in T
    BY <2>2
  <2>4. g \in [0 .. n -> T] /\ g[m + 1] = step[m + 1][f[m]] /\ \A i \in 0 .. n : i # m + 1 => g[i] = f[i]
    BY <2>2, <2>3
  <2> HIDE DEF g
  <2>5. Iterated(g, a, step, m + 1)
    <3>1. g[0] = a
      BY <2>1, <2>4 DEF Iterated
    <3>2. ASSUME NEW i \in 1 .. m + 1 PROVE g[i] = step[i][g[i - 1]]
      <4>1. CASE i = m + 1
        <5>1. i - 1 = m /\ g[m] = f[m]
          BY <2>2, <2>4, <4>1
        <5> QED  BY <2>4, <4>1, <5>1
      <4>2. CASE i # m + 1
        <5>1. i \in 1 .. m /\ i \in 0 .. n /\ i - 1 \in 0 .. n /\ i - 1 # m + 1
          BY <2>2, <4>2
        <5>2. g[i] = f[i] /\ g[i - 1] = f[i - 1]
          BY <2>4, <4>2, <5>1
        <5>3. f[i] = step[i][f[i - 1]]
          BY <2>1, <5>1 DEF Iterated
        <5> QED  BY <5>2, <5>3
      <4> QED  BY <4>1, <4>2
    <3> QED  BY <3>1, <3>2 DEF Iterated
  <2> QED  BY <2>2, <2>4, <2>5
<1>3. n \in S
  <2> HIDE DEF S
  <2>1. 0 \in Int /\ n \in Int
    OBVIOUS
  <2>2. \A k \in 0 .. n : k \in S
    BY <1>1, <1>2, <2>1, UpFrom
  <2> QED  BY <2>2
<1> QED  BY <1>3
================================================================================
