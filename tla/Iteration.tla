------------------------------- MODULE Iteration -------------------------------
(* Facts about steps taken one after the other, from the well-foundedness of the *)
(* natural numbers: how a reader of a byte stream, or any other fold over a      *)
(* sequence, gets from one state to the next.                                    *)
EXTENDS Integers, WellFoundedInduction, TLAPS

(* A set of natural numbers that is not empty has a least element.               *)
LEMMA LeastElement ==
  ASSUME NEW T \in SUBSET Nat, T # {}
  PROVE  \E x \in T : \A y \in T : x <= y
<1> DEFINE R == OpToRel(<, Nat)
<1>1. IsWellFoundedOn(R, Nat)
  BY NatLessThanWellFounded
<1>2. \A x, y \in Nat : y < x => <<y, x>> \in R
  BY DEF OpToRel
<1> HIDE DEF R
<1>3. \E x \in T : \A y \in T : ~ (<<y, x>> \in R)
  BY <1>1, WFMin
<1>4. ASSUME NEW x \in T, NEW y \in T, ~ (<<y, x>> \in R)
      PROVE  x <= y
  <2>1. ~ (y < x)
    BY <1>2, <1>4
  <2> QED  BY <2>1
<1> HIDE <1>2
<1> QED  BY <1>3, <1>4, Zenon

(* Induction: a set of numbers with 0, and with n + 1 for each n, has them all.  *)
LEMMA AllNumbers ==
  ASSUME NEW T \in SUBSET Nat, 0 \in T, \A n \in T : n + 1 \in T
  PROVE  T = Nat
<1> SUFFICES ASSUME Nat \ T # {} PROVE FALSE
  OBVIOUS
<1>1. PICK x \in Nat \ T : \A y \in Nat \ T : x <= y
  BY LeastElement
<1>2. x - 1 \in T
  BY <1>1
<1> QED  BY <1>1, <1>2

(* n steps through a set of states: the i-th leads from state s to f[i][s].  A    *)
(* path h visits the states h[0] to h[n].                                        *)
Steps(S, n) == [1 .. n -> [S -> S]]

Path(S, n, a, f, h) ==
  /\ h \in [0 .. n -> S]
  /\ h[0] = a
  /\ \A i \in 1 .. n : h[i] = f[i][h[i - 1]]

(* There is a path from each state, ...                                          *)
LEMMA PathExists ==
  ASSUME NEW S, NEW n \in Nat, NEW a \in S, NEW f \in Steps(S, n)
  PROVE  \E h : Path(S, n, a, f, h)
<1> DEFINE T == {k \in Nat : k <= n => \E h : Path(S, k, a, f, h)}
<1>1. 0 \in T
  <2> DEFINE h == [i \in 0 .. 0 |-> a]
  <2>1. Path(S, 0, a, f, h)
    BY DEF Path
  <2> QED  BY <2>1
<1>2. ASSUME NEW k \in T
      PROVE  k + 1 \in T
  <2>1. k \in Nat
    OBVIOUS
  <2>2. SUFFICES ASSUME k + 1 <= n
                 PROVE  \E h : Path(S, k + 1, a, f, h)
    BY <2>1
  <2>3. PICK g : Path(S, k, a, f, g)
    BY <2>1, <2>2
  <2> HIDE DEF T
  <2> DEFINE h == [i \in 0 .. k + 1 |-> IF i <= k THEN g[i] ELSE f[k + 1][g[k]]]
  <2>4. k \in 0 .. k /\ k + 1 \in 1 .. n /\ k + 1 \in 0 .. k + 1 /\ ~ (k + 1 <= k)
    BY <2>1, <2>2
  <2>5. /\ g \in [0 .. k -> S] /\ g[0] = a
        /\ \A i \in 1 .. k : g[i] = f[i][g[i - 1]]
    BY <2>3 DEF Path
  <2>6. f[k + 1][g[k]] \in S
    BY <2>4, <2>5 DEF Steps
  <2>7. h \in [0 .. k + 1 -> S]
    BY <2>1, <2>5, <2>6
  <2>8. h[k + 1] = f[k + 1][g[k]] /\ \A i \in 0 .. k : h[i] = g[i]
    BY <2>1, <2>4
  <2> HIDE DEF h
  <2>9. ASSUME NEW i \in 1 .. k + 1
        PROVE  h[i] = f[i][h[i - 1]]
    <3>1. CASE i = k + 1
      <4>1. i - 1 = k
        BY <2>1, <3>1
      <4> QED  BY <2>4, <2>8, <3>1, <4>1
    <3>2. CASE i # k + 1
      <4>1. i \in 1 .. k /\ i \in 0 .. k /\ i - 1 \in 0 .. k
        BY <2>1, <3>2
      <4> QED  BY <2>5, <2>8, <4>1
    <3> QED  BY <3>1, <3>2
  <2>10. h[0] = a
    BY <2>1, <2>5, <2>8
  <2>11. Path(S, k + 1, a, f, h)
    BY <2>7, <2>9, <2>10 DEF Path
  <2> QED  BY <2>11
<1>3. T = Nat
  <2> HIDE DEF T
  <2>1. T \in SUBSET Nat
    BY DEF T
  <2> QED  BY <1>1, <1>2, <2>1, AllNumbers
<1>4. n \in T
  BY <1>3
<1> QED  BY <1>4

(* ... and no other: whatever takes the same steps is at the same states.        *)
LEMMA PathUnique ==
  ASSUME NEW S, NEW n \in Nat, NEW a, NEW f, NEW g, Path(S, n, a, f, g),
         NEW h, h[0] = a, \A i \in 1 .. n : h[i - 1] \in S => h[i] = f[i][h[i - 1]]
  PROVE  \A i \in 0 .. n : h[i] = g[i]
<1> DEFINE T == {k \in Nat : k <= n => h[k] = g[k]}
<1>1. /\ g \in [0 .. n -> S] /\ g[0] = a
      /\ \A i \in 1 .. n : g[i] = f[i][g[i - 1]]
  BY DEF Path
<1>2. 0 \in T
  BY <1>1
<1>3. ASSUME NEW k \in T, k + 1 <= n
      PROVE  h[k + 1] = g[k + 1]
  <2>1. k \in 0 .. n /\ k + 1 \in 1 .. n /\ (k + 1) - 1 = k /\ h[k] = g[k]
    BY <1>3
  <2> HIDE DEF T
  <2>2. h[(k + 1) - 1] \in S
    BY <1>1, <2>1
  <2> QED  BY <1>1, <2>1, <2>2
<1>4. T = Nat
  <2>1. \A k \in T : k + 1 \in T
    BY <1>3
  <2> HIDE DEF T
  <2>2. T \in SUBSET Nat
    BY DEF T
  <2> QED  BY <1>2, <2>1, <2>2, AllNumbers
<1> QED  BY <1>4
===============================================================================
