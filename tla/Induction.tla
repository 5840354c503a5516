----------------------------- MODULE Induction -----------------------------
(* Induction along the naturals, from the well-foundedness of < on them,   *)
(* and functions defined by repetition.                                    *)
EXTENDS Naturals, WellFoundedInduction, TLAPS

Below == {r \in Nat \X Nat : r[1] < r[2]}

LEMMA BelowWellFounded == IsWellFoundedOn(Below, Nat)
BY NatLessThanWellFounded DEF OpToRel, Below

(* The least element of a set of numbers.                                  *)
LEMMA LeastNumber ==
  ASSUME NEW T, T \subseteq Nat, T # {}
  PROVE  \E n \in T : \A k \in T : n <= k
<1>1. PICK n \in T : \A k \in T : <<k, n>> \notin Below
  BY BelowWellFounded, WFMin
<1>2. ASSUME NEW k \in T PROVE n <= k
  <2>1. ~(k < n)
    BY <1>1 DEF Below
  <2> QED
    BY <2>1
<1> QED
  BY <1>2

(* Induction up to n.                                                      *)
LEMMA UpTo ==
  ASSUME NEW n \in Nat, NEW T, 0 \in T,
         \A k \in 0 .. n : k < n /\ k \in T => k + 1 \in T
  PROVE  0 .. n \subseteq T
<1> SUFFICES ASSUME 0 .. n \ T # {} PROVE FALSE
  OBVIOUS
<1>1. 0 .. n \ T \subseteq Nat
  OBVIOUS
<1>2. PICK k \in 0 .. n \ T : \A j \in 0 .. n \ T : k <= j
  BY <1>1, LeastNumber
<1>3. k # 0 /\ k - 1 \in 0 .. n
  BY <1>2
<1>4. k - 1 \in T
  BY <1>2, <1>3
<1> QED
  BY <1>2, <1>3, <1>4

(* What is repeated n times, step by step.                                 *)
Repeats(f, a, F, n) ==
  f = [d \in 0 .. n |-> IF d = 0 THEN a ELSE F[f[d - 1]]]

(* What a recursive definition by repetition defines exists.               *)
LEMMA RepeatExists ==
  ASSUME NEW X, NEW a \in X, NEW F \in [X -> X], NEW n \in Nat
  PROVE  \E f \in [0 .. n -> X] : Repeats(f, a, F, n)
<1> DEFINE T == {k \in 0 .. n : \E f \in [0 .. k -> X] : Repeats(f, a, F, k)}
<1>1. 0 \in T
  <2>1. Repeats([d \in 0 .. 0 |-> a], a, F, 0)
    BY DEF Repeats
  <2> QED
    BY <2>1
<1>2. ASSUME NEW k \in 0 .. n, k < n, k \in T PROVE k + 1 \in T
  <2>1. PICK f \in [0 .. k -> X] : Repeats(f, a, F, k)
    BY <1>2
  <2> DEFINE g == [d \in 0 .. k + 1 |-> IF d = k + 1 THEN F[f[k]] ELSE f[d]]
  <2>2. g \in [0 .. k + 1 -> X]
    OBVIOUS
  <2>3. ASSUME NEW d \in 0 .. k + 1
        PROVE  g[d] = IF d = 0 THEN a ELSE F[g[d - 1]]
    <3>1. CASE d = k + 1
      <4>1. g[d] = F[f[k]] /\ d - 1 = k /\ d # 0 /\ k \in 0 .. k + 1 /\ k # k + 1
        BY <3>1
      <4>2. g[k] = f[k]
        BY <4>1
      <4> QED
        BY <4>1, <4>2
    <3>2. CASE d # k + 1
      <4>1. d \in 0 .. k /\ g[d] = f[d] /\ (d # 0 => g[d - 1] = f[d - 1])
        BY <3>2
      <4> QED
        BY <2>1, <4>1 DEF Repeats
    <3> QED
      BY <3>1, <3>2
  <2>4. Repeats(g, a, F, k + 1)
    BY <2>3 DEF Repeats
  <2>5. k + 1 \in 0 .. n
    BY <1>2
  <2> HIDE DEF g
  <2> QED
    BY <2>2, <2>4, <2>5
<1>3. 0 .. n \subseteq T
  <2> HIDE DEF T
  <2> QED
    BY <1>1, <1>2, UpTo
<1> QED
  BY <1>3
=============================================================================
