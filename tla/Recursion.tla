----------------------------- MODULE Recursion ------------------------------
(***************************************************************************)
(* Induction over the natural numbers and functions defined by it, stated  *)
(* for sets and functions, so that they can be cited for any of them.      *)
(***************************************************************************)
EXTENDS Integers, WellFoundedInduction, TLAPS

LEMMA SetInduction ==
  ASSUME NEW A, 0 \in A, \A n \in Nat : n \in A => n + 1 \in A
  PROVE  Nat \subseteq A
<1> DEFINE T == {n \in Nat : n \notin A}
<1>1. SUFFICES ASSUME T # {} PROVE FALSE
  OBVIOUS
<1>2. PICK x \in T : \A y \in T : ~(<<y, x>> \in OpToRel(<, Nat))
  <2>1. T \subseteq Nat
    OBVIOUS
  <2> HIDE DEF T
  <2> QED
    BY <1>1, <2>1, WFMin, NatLessThanWellFounded
<1>3. \A y \in T : ~(y < x)
  BY <1>2 DEF OpToRel
<1>4. x \in Nat /\ x # 0
  OBVIOUS
<1>5. x - 1 \in Nat /\ (x - 1) + 1 = x
  BY <1>4
<1>6. x - 1 \in A
  BY <1>3, <1>5
<1> QED
  BY <1>5, <1>6

(* The largest element of a set that has a bound.                          *)
LEMMA LargestIsThere ==
  ASSUME NEW n \in Nat, NEW T \in SUBSET (0..n), T # {}
  PROVE  \E i \in T : \A j \in T : j <= i
<1> DEFINE A == {n - i : i \in T}
<1>1. A \subseteq Nat /\ A # {}
  <2>1. PICK i \in T : n - i \in A
    OBVIOUS
  <2> QED
    BY <2>1
<1>2. PICK m \in A : \A k \in A : ~(<<k, m>> \in OpToRel(<, Nat))
  <2> HIDE DEF A
  <2> QED
    BY <1>1, WFMin, NatLessThanWellFounded
<1>3. \A k \in A : ~(k < m)
  <2> HIDE DEF A
  <2> QED
    BY <1>1, <1>2 DEF OpToRel
<1>4. PICK i \in T : m = n - i
  OBVIOUS
<1>5. ASSUME NEW j \in T PROVE j <= i
  <2>1. n - j \in A
    OBVIOUS
  <2>2. ~(n - j < n - i)
    BY <1>3, <1>4, <2>1
  <2> QED
    BY <2>2
<1> QED
  BY <1>5

(* Induction up to a bound.                                                *)
LEMMA BoundedInduction ==
  ASSUME NEW L \in Nat, NEW A, 0 \in A, \A n \in 0..(L - 1) : n \in A => n + 1 \in A
  PROVE  0..L \subseteq A
<1> DEFINE B == A \union {n \in Nat : n > L}
<1>1. 0 \in B /\ \A n \in Nat : n \in B => n + 1 \in B
  OBVIOUS
<1>2. Nat \subseteq B
  <2> HIDE DEF B
  <2> QED
    BY <1>1, SetInduction
<1> QED
  BY <1>2

(* A function is defined when its value at 0 and the step from each value  *)
(* to the next are.                                                        *)
Steps(L, S, start, step) == L \in Nat /\ start \in S /\ step \in [1..L -> [S -> S]]

Follows(f, L, S, start, step) ==
  f \in [0..L -> S] /\ f[0] = start /\ \A n \in 1..L : f[n] = step[n][f[n - 1]]

LEMMA PrimitiveRecursion ==
  ASSUME NEW L, NEW S, NEW start, NEW step, Steps(L, S, start, step)
  PROVE  \E f : Follows(f, L, S, start, step)
<1>0. L \in Nat /\ start \in S /\ step \in [1..L -> [S -> S]]
  BY DEF Steps
<1> DEFINE A == {n \in 0..L :
                   \E f \in [0..n -> S] :
                     f[0] = start /\ \A i \in 1..n : f[i] = step[i][f[i - 1]]}
<1>1. 0 \in A
  <2> DEFINE f == [i \in 0..0 |-> start]
  <2>1. f \in [0..0 -> S] /\ f[0] = start /\ 0 \in 0..L
    BY <1>0
  <2>2. \A i \in 1..0 : f[i] = step[i][f[i - 1]]
    OBVIOUS
  <2> HIDE DEF f
  <2> QED
    BY <2>1, <2>2
<1>2. ASSUME NEW n \in 0..(L - 1), n \in A PROVE n + 1 \in A
  <2>1. PICK f \in [0..n -> S] : f[0] = start /\ \A i \in 1..n : f[i] = step[i][f[i - 1]]
    BY <1>2
  <2> DEFINE g == [i \in 0..(n + 1) |-> IF i = n + 1 THEN step[n + 1][f[n]] ELSE f[i]]
  <2>2. n + 1 \in 1..L /\ n \in 0..n /\ f[n] \in S /\ n + 1 \in 0..L
    BY <1>0, <1>2, <2>1
  <2>3. step[n + 1][f[n]] \in S
    BY <1>0, <2>2
  <2>4. g \in [0..(n + 1) -> S]
    BY <2>1, <2>3
  <2>5. g[0] = start /\ \A i \in 0..n : g[i] = f[i]
    BY <1>2, <2>1
  <2>6. g[n + 1] = step[n + 1][g[n]]
    BY <1>2, <2>2, <2>5
  <2>7. \A i \in 1..(n + 1) : g[i] = step[i][g[i - 1]]
    BY <1>0, <1>2, <2>1, <2>5, <2>6
  <2> QED
    BY <2>2, <2>4, <2>5, <2>7
<1>3. L \in A
  <2>1. \A n \in 0..(L - 1) : n \in A => n + 1 \in A
    BY <1>2
  <2> HIDE DEF A
  <2>2. 0..L \subseteq A
    BY <1>0, <1>1, <2>1, BoundedInduction
  <2> QED
    BY <1>0, <2>2
<1> QED
  BY <1>3 DEF Follows
=============================================================================
