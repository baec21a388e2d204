------------------------------ MODULE Induction ------------------------------
(***************************************************************************)
(* Induction over the natural numbers, by the set of those that have a     *)
(* property, and what the proofs of the other modules take from it.        *)
(***************************************************************************)
EXTENDS Integers, FiniteSets, TLAPS, FiniteSetTheorems, WellFoundedInduction

LEMMA Smallest ==
    ASSUME NEW S \in SUBSET Nat, S # {}
    PROVE  \E n \in S : \A m \in S : n <= m
<1> DEFINE R == OpToRel(<, Nat)
<1>1. \A m, n \in Nat : m < n => <<m, n>> \in R
  BY DEF OpToRel
<1>2. IsWellFoundedOn(R, Nat)
  BY NatLessThanWellFounded
<1> HIDE DEF R
<1>3. PICK n \in S : \A m \in S : ~(<<m, n>> \in R)
  BY <1>2, WFMin
<1>4. ASSUME NEW m \in S PROVE n <= m
  <2>1. m \in Nat /\ n \in Nat
    OBVIOUS
  <2>2. ~(<<m, n>> \in R)
    BY <1>3
  <2>3. ~(m < n)
    BY <1>1, <2>1, <2>2
  <2> QED  BY <2>1, <2>3
<1> QED  BY <1>4

LEMMA SetInduction ==
    ASSUME NEW S \in SUBSET Nat, 0 \in S, \A n \in S : n + 1 \in S
    PROVE  S = Nat
<1> SUFFICES ASSUME S # Nat PROVE FALSE
  OBVIOUS
<1>1. PICK n \in Nat \ S : \A m \in Nat \ S : n <= m
  <2>1. Nat \ S # {} /\ Nat \ S \in SUBSET Nat
    OBVIOUS
  <2> QED  BY <2>1, Smallest
<1>2. n - 1 \in Nat /\ n - 1 \in S
  BY <1>1
<1> QED  BY <1>1, <1>2

LEMMA FiniteBounded ==
    ASSUME NEW T \in SUBSET Nat, IsFiniteSet(T)
    PROVE  \E k \in Nat : \A x \in T : x <= k
<1> DEFINE Bounded == {n \in Nat : \A S \in SUBSET Nat :
               IsFiniteSet(S) /\ Cardinality(S) = n => \E k \in Nat : \A x \in S : x <= k}
<1>1. 0 \in Bounded
  <2> SUFFICES ASSUME NEW S \in SUBSET Nat, IsFiniteSet(S), Cardinality(S) = 0
      PROVE  \E k \in Nat : \A x \in S : x <= k
    OBVIOUS
  <2>1. S = {}
    BY FS_EmptySet
  <2> QED  BY <2>1
<1>2. ASSUME NEW n \in Bounded PROVE n + 1 \in Bounded
  <2> SUFFICES ASSUME NEW S \in SUBSET Nat, IsFiniteSet(S), Cardinality(S) = n + 1
      PROVE  \E k \in Nat : \A x \in S : x <= k
    OBVIOUS
  <2>1. S # {} /\ n \in Nat
    BY FS_EmptySet
  <2>2. PICK y : y \in S
    BY <2>1
  <2>3. IsFiniteSet(S \ {y}) /\ Cardinality(S \ {y}) = n
    <3>1. IsFiniteSet(S \ {y}) /\ Cardinality(S \ {y}) = Cardinality(S) - 1
      BY <2>2, FS_RemoveElement
    <3> QED  BY <2>1, <3>1
  <2>4. PICK k \in Nat : \A x \in S \ {y} : x <= k
    BY <2>3
  <2>5. CASE y <= k
    BY <2>4, <2>5
  <2>6. CASE y > k
    <3>1. y \in Nat /\ \A x \in S : x <= y
      BY <2>2, <2>4, <2>6
    <3> QED  BY <3>1
  <2> QED  BY <2>2, <2>5, <2>6
<1>3. Bounded = Nat
  <2>1. Bounded \in SUBSET Nat
    OBVIOUS
  <2> HIDE DEF Bounded
  <2> QED  BY <1>1, <1>2, <2>1, SetInduction
<1>4. Cardinality(T) \in Nat
  BY FS_CardinalityType
<1> QED  BY <1>3, <1>4

\* A family of subsets of a finite set that has the empty one, and each of its
\* members with one more element, has the whole set.
LEMMA SubsetInduction ==
    ASSUME NEW S, IsFiniteSet(S), NEW P \in SUBSET (SUBSET S), {} \in P,
           \A T \in P : \A x \in S \ T : T \cup {x} \in P
    PROVE  S \in P
<1> DEFINE Sized == {n \in Nat : \A T \in SUBSET S : Cardinality(T) = n => T \in P}
<1>0. \A T \in SUBSET S : IsFiniteSet(T) /\ Cardinality(T) \in Nat
  BY FS_Subset, FS_CardinalityType
<1>1. 0 \in Sized
  BY <1>0, FS_EmptySet
<1>2. ASSUME NEW n \in Sized PROVE n + 1 \in Sized
  <2> SUFFICES ASSUME NEW T \in SUBSET S, Cardinality(T) = n + 1 PROVE T \in P
    OBVIOUS
  <2>1. T # {} /\ n \in Nat
    <3>1. n \in Nat /\ Cardinality(T) = n + 1
      OBVIOUS
    <3>2. Cardinality(T) # 0
      BY <3>1
    <3> QED  BY <1>0, <3>1, <3>2, FS_EmptySet
  <2>2. PICK x : x \in T
    BY <2>1
  <2>3. Cardinality(T \ {x}) = Cardinality(T) - 1
    BY <1>0, <2>2, FS_RemoveElement
  <2>4. T \ {x} \in P
    BY <2>1, <2>3
  <2>5. x \in S \ (T \ {x}) /\ (T \ {x}) \cup {x} = T
    BY <2>2
  <2> QED  BY <2>4, <2>5
<1>3. Sized = Nat
  <2>1. Sized \in SUBSET Nat
    OBVIOUS
  <2> HIDE DEF Sized
  <2> QED  BY <1>1, <1>2, <2>1, SetInduction
<1> QED  BY <1>0, <1>3

\* What each step makes of what the one before has left.
Stepped(f, W, start, step, n) ==
    f \in [0..n -> W] /\ f[0] = start /\ \A k \in 1..n : f[k] = step[k][f[k - 1]]

LEMMA Steps ==
    ASSUME NEW W, NEW start \in W, NEW L \in Nat, NEW step \in [1..L -> [W -> W]]
    PROVE  \E f : Stepped(f, W, start, step, L)
<1> DEFINE Runs(f, n) == Stepped(f, W, start, step, n)
           Done == {n \in Nat : n <= L => \E f : Runs(f, n)}
<1>1. 0 \in Done
  <2> DEFINE f == [k \in 0..0 |-> start]
  <2>1. Runs(f, 0)
    BY DEF Stepped
  <2> QED  BY <2>1
<1>2. ASSUME NEW n \in Done PROVE n + 1 \in Done
  <2> SUFFICES ASSUME n + 1 <= L PROVE \E f : Runs(f, n + 1)
    OBVIOUS
  <2>1. PICK f : Runs(f, n)
    OBVIOUS
  <2> DEFINE last == step[n + 1][f[n]]
             h == [k \in 0..(n + 1) |-> IF k = n + 1 THEN last ELSE f[k]]
  <2>2. n \in Nat /\ f[n] \in W /\ last \in W
    <3>1. n \in Nat /\ f[n] \in W
      BY <2>1 DEF Stepped
    <3>2. n + 1 \in 1..L
      BY <3>1
    <3>3. step[n + 1] \in [W -> W]
      BY <3>2
    <3> QED  BY <3>1, <3>3
  <2> HIDE DEF last
  <2>3. h \in [0..(n + 1) -> W]
    <3>1. ASSUME NEW k \in 0..(n + 1) PROVE h[k] \in W
      <4>1. CASE k = n + 1
        BY <2>2, <4>1
      <4>2. CASE k # n + 1
        <5>1. k \in 0..n
          BY <2>2, <4>2
        <5> QED  BY <2>1, <4>2, <5>1 DEF Stepped
      <4> QED  BY <4>1, <4>2
    <3> QED  BY <3>1
  <2>4. h[0] = start
    BY <2>1, <2>2 DEF Stepped
  <2>5. ASSUME NEW k \in 1..(n + 1) PROVE h[k] = step[k][h[k - 1]]
    <3>1. k - 1 \in 0..n /\ h[k - 1] = f[k - 1]
      BY <2>2
    <3>2. CASE k = n + 1
      <4>1. h[k] = last /\ k - 1 = n
        BY <2>2, <3>2
      <4> QED  BY <3>1, <3>2, <4>1 DEF last
    <3>3. CASE k # n + 1
      <4>1. k \in 1..n /\ h[k] = f[k]
        BY <2>2, <3>3
      <4> QED  BY <2>1, <3>1, <4>1 DEF Stepped
    <3> QED  BY <3>2, <3>3
  <2>6. Runs(h, n + 1)
    BY <2>3, <2>4, <2>5 DEF Stepped
  <2> HIDE DEF h, Runs
  <2> QED  BY <2>6
<1>3. L \in Done
  <2>1. Done \in SUBSET Nat
    OBVIOUS
  <2> HIDE DEF Done
  <2>2. Done = Nat
    BY <1>1, <1>2, <2>1, SetInduction
  <2> QED  BY <2>2
<1> QED  BY <1>3

\* The same step taken again and again has the states it passes through.
Iterated(f, W, start, step, n) ==
    f \in [0..n -> W] /\ f[0] = start /\ \A k \in 1..n : f[k] = step[f[k - 1]]

LEMMA Iterates ==
    ASSUME NEW W, NEW start \in W, NEW step \in [W -> W], NEW L \in Nat
    PROVE  \E f : Iterated(f, W, start, step, L)
<1> DEFINE steps == [k \in 1..L |-> step]
<1>1. steps \in [1..L -> [W -> W]]
  OBVIOUS
<1>2. \A k \in 1..L : steps[k] = step
  OBVIOUS
<1> HIDE DEF steps
<1>3. PICK f : Stepped(f, W, start, steps, L)
  BY <1>1, Steps
<1>4. Iterated(f, W, start, step, L)
  BY <1>2, <1>3 DEF Stepped, Iterated
<1> QED  BY <1>4
=============================================================================
