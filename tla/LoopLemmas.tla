----------------------------- MODULE LoopLemmas -----------------------------
(***************************************************************************)
(* Loops that count up, as recursive functions over 0 .. N.  The library   *)
(* states induction for operators; here it is stated for sets, which the   *)
(* provers can instantiate: n is in the set when the claim holds after n   *)
(* rounds of the loop.                                                     *)
(***************************************************************************)
EXTENDS Integers, WellFoundedInduction, TLAPS

\* A nonempty set of natural numbers has a least one.
LEMMA LeastNumber ==
  ASSUME NEW S \in SUBSET Nat, S # {}
  PROVE  \E n \in S : \A m \in S : n <= m
<1>1. \E n \in S : \A m \in S : ~ (m < n)
  <2> DEFINE R == OpToRel(<, Nat)
  <2>1. IsWellFoundedOn(R, Nat)
    BY NatLessThanWellFounded
  <2>2. \A m, n \in Nat : m < n => <<m, n>> \in R
    BY DEF OpToRel
  <2> HIDE DEF R
  <2> QED
    BY <2>1, <2>2, WFMin
<1> QED
  BY <1>1

\* Induction up to N.
LEMMA InductionUpTo ==
  ASSUME NEW N \in Nat, NEW S, 0 \in S,
         \A n \in 1 .. N : n - 1 \in S => n \in S
  PROVE  \A n \in 0 .. N : n \in S
<1> DEFINE F == {n \in 0 .. N : n \notin S}
<1> SUFFICES ASSUME F # {}
             PROVE  FALSE
  OBVIOUS
<1>1. F \in SUBSET Nat
  OBVIOUS
<1> HIDE DEF F
<1>2. PICK n \in F : \A m \in F : n <= m
  BY <1>1, LeastNumber
<1>3. n \in 1 .. N /\ n \notin S
  BY DEF F
<1>4. n - 1 \notin F
  BY <1>2, <1>3
<1>5. n - 1 \in S
  BY <1>3, <1>4 DEF F
<1> QED
  BY <1>3, <1>5

\* f is what a loop has after each of its rounds.
IsLoop(f, N, V, first, round) ==
  /\ f \in [0 .. N -> V]
  /\ f = [n \in 0 .. N |-> IF n = 0 THEN first ELSE round[n][f[n - 1]]]

LEMMA LoopRounds ==
  ASSUME NEW N \in Nat, NEW V, NEW first, NEW round, NEW f,
         IsLoop(f, N, V, first, round)
  PROVE  /\ f \in [0 .. N -> V]
         /\ f[0] = first
         /\ \A n \in 1 .. N : f[n - 1] \in V /\ f[n] = round[n][f[n - 1]]
<1>1. f \in [0 .. N -> V]
  BY DEF IsLoop
<1>2. \A n \in 0 .. N : f[n] = IF n = 0 THEN first ELSE round[n][f[n - 1]]
  BY DEF IsLoop
<1>3. \A n \in 1 .. N : n \in 0 .. N /\ n - 1 \in 0 .. N /\ n # 0
  OBVIOUS
<1>4. 0 \in 0 .. N
  OBVIOUS
<1> QED
  BY <1>1, <1>2, <1>3, <1>4

\* A loop computes something: what a recursive definition asks for exists.
LEMMA LoopExists ==
  ASSUME NEW N \in Nat, NEW V, NEW first \in V, NEW round \in [1 .. N -> [V -> V]]
  PROVE  \E f : IsLoop(f, N, V, first, round)
<1> DEFINE Run(n) ==
      {f \in [0 .. n -> V] :
         f = [m \in 0 .. n |-> IF m = 0 THEN first ELSE round[m][f[m - 1]]]}
           S == {n \in 0 .. N : Run(n) # {}}
<1>1. 0 \in S
  <2>1. [m \in 0 .. 0 |-> first] \in Run(0)
    OBVIOUS
  <2> QED
    BY <2>1
<1>2. ASSUME NEW n \in 1 .. N, n - 1 \in S
      PROVE  n \in S
  <2>1. PICK f \in [0 .. (n - 1) -> V] :
          f = [m \in 0 .. (n - 1) |-> IF m = 0 THEN first ELSE round[m][f[m - 1]]]
    BY <1>2
  <2> DEFINE g == [m \in 0 .. n |-> IF m = n THEN round[n][f[n - 1]] ELSE f[m]]
  <2>2. g \in [0 .. n -> V]
    <3>1. f[n - 1] \in V
      BY <2>1
    <3>2. round[n][f[n - 1]] \in V
      BY <3>1
    <3> QED
      BY <2>1, <3>2
  <2>3. ASSUME NEW m \in 0 .. n
        PROVE  g[m] = IF m = 0 THEN first ELSE round[m][g[m - 1]]
    <3>1. CASE m = n
      BY <3>1
    <3>2. CASE m # n
      <4>1. m \in 0 .. (n - 1) /\ g[m] = f[m]
        BY <3>2
      <4>2. m # 0 => g[m - 1] = f[m - 1]
        BY <3>2
      <4>3. f[m] = IF m = 0 THEN first ELSE round[m][f[m - 1]]
        BY <2>1, <4>1
      <4> QED
        BY <4>1, <4>2, <4>3
    <3> QED
      BY <3>1, <3>2
  <2>4. g = [m \in 0 .. n |-> IF m = 0 THEN first ELSE round[m][g[m - 1]]]
    <3>1. g = [m \in 0 .. n |-> g[m]]
      BY <2>2
    <3> HIDE DEF g
    <3> QED
      BY <2>3, <3>1
  <2> HIDE DEF g
  <2> QED
    BY <2>2, <2>4
<1> HIDE DEF S
<1>3. \A n \in 0 .. N : n \in S
  BY <1>1, <1>2, InductionUpTo
<1>4. N \in S
  BY <1>3
<1> QED
  BY <1>4 DEF S, IsLoop
=============================================================================
