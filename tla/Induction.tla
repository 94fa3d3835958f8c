------------------------------ MODULE Induction ------------------------------
(***************************************************************************)
(* Induction over the naturals, stated for sets, so that the proofs about  *)
(* recursive functions can cite it.                                        *)
(***************************************************************************)
EXTENDS Integers, WellFoundedInduction, TLAPS

(***************************************************************************)
(* A non-empty set of naturals has a least element.                        *)
(***************************************************************************)
LEMMA LeastElement ==
    ASSUME NEW T \in SUBSET Nat, T # {}
    PROVE  \E x \in T : \A y \in T : x <= y
  <1> DEFINE R == OpToRel(<, Nat)
  <1>1. IsWellFoundedOn(R, Nat)
    BY NatLessThanWellFounded, Zenon
  <1>2. \A x, y \in Nat : x < y => <<x, y>> \in R
    BY DEF OpToRel
  <1> HIDE DEF R
  <1>3. PICK x \in T : \A y \in T : ~ (<<y, x>> \in R)
    BY <1>1, WFMin
  <1>4. ASSUME NEW y \in T PROVE x <= y
    <2>1. ~ (y < x)
      BY <1>2, <1>3
    <2> QED
      BY <2>1
  <1> QED
    BY <1>4

(***************************************************************************)
(* Induction: a set that holds 0 and with each natural the next holds them *)
(* all.                                                                    *)
(***************************************************************************)
LEMMA NatSetInduction ==
    ASSUME NEW S, 0 \in S, \A n \in Nat : n \in S => n + 1 \in S
    PROVE  Nat \subseteq S
  <1> DEFINE T == Nat \ S
  <1> SUFFICES ASSUME T # {} PROVE FALSE
    OBVIOUS
  <1>1. PICK x \in T : \A y \in T : x <= y
    BY LeastElement
  <1>2. x - 1 \in Nat /\ x - 1 \in S
    BY <1>1
  <1> QED
    BY <1>1, <1>2

\* A base and a step on S; the function they make on 0 .. N.
Steps(S, base, step, N) == base \in S /\ step \in [S \X Nat -> S] /\ N \in Nat
StepByStep(g, S, base, step, N) ==
    /\ g \in [0 .. N -> S] /\ g[0] = base
    /\ \A i \in 1 .. N : g[i] = step[<<g[i - 1], i>>]

(***************************************************************************)
(* A recursive function exists: each value is made from the one before and *)
(* its index.                                                              *)
(***************************************************************************)
LEMMA RecursiveFunction ==
    ASSUME NEW S, NEW base, NEW step, NEW N, Steps(S, base, step, N)
    PROVE  \E g : StepByStep(g, S, base, step, N)
  <1>0. base \in S /\ step \in [S \X Nat -> S] /\ N \in Nat
    BY DEF Steps
  <1> DEFINE Fits(g, n) == g[0] = base /\ \A i \in 1 .. n : g[i] = step[<<g[i - 1], i>>]
             P == {n \in Nat : \E g \in [0 .. n -> S] : Fits(g, n)}
  <1>1. 0 \in P
    <2> DEFINE g == [i \in 0 .. 0 |-> base]
    <2>1. g \in [0 .. 0 -> S] /\ Fits(g, 0)
      BY <1>0
    <2> QED
      BY <2>1
  <1>2. ASSUME NEW n \in Nat, n \in P PROVE n + 1 \in P
    <2>1. PICK g \in [0 .. n -> S] : Fits(g, n)
      BY <1>2
    <2> DEFINE v == step[<<g[n], n + 1>>]
               h == [i \in 0 .. n + 1 |-> IF i = n + 1 THEN v ELSE g[i]]
    <2>2. v \in S
      BY <1>0
    <2>3. h \in [0 .. n + 1 -> S]
      BY <2>2
    <2>4. ASSUME NEW i \in 1 .. n + 1 PROVE h[i] = step[<<h[i - 1], i>>]
      <3>1. CASE i = n + 1
        BY <3>1
      <3>2. CASE i # n + 1
        <4>1. i \in 1 .. n /\ i \in 0 .. n + 1 /\ i - 1 \in 0 .. n + 1 /\ i - 1 # n + 1
          BY <3>2
        <4>2. h[i] = g[i] /\ h[i - 1] = g[i - 1]
          BY <3>2, <4>1
        <4>3. g[i] = step[<<g[i - 1], i>>]
          BY <2>1, <4>1
        <4> QED
          BY <4>2, <4>3
      <3> QED
        BY <3>1, <3>2
    <2>5. h[0] = base
      BY <2>1
    <2> HIDE DEF h
    <2>6. Fits(h, n + 1) /\ n + 1 \in Nat
      BY <2>4, <2>5
    <2> QED
      BY <2>3, <2>6
  <1>3. Nat \subseteq P
    <2> HIDE DEF P
    <2> QED
      BY <1>1, <1>2, NatSetInduction
  <1> QED
    BY <1>0, <1>3 DEF StepByStep

==============================================================================
