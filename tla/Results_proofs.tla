---------------------------- MODULE Results_proofs ----------------------------
(***************************************************************************)
(* Proofs about Results, for any golfers, teams, weeks, matches, cards and *)
(* handicaps, and any number of holes.                                     *)
(***************************************************************************)
EXTENDS Results, Induction

-----------------------------------------------------------------------------
(* Sums over finite sets, as the folds of the community modules make them.  *)

\* What the fold of f over the subsets of S is, whatever element it takes first.
First(s) == CHOOSE x \in s : TRUE
Folds(g, f, S) ==
    g = [s \in SUBSET S |-> IF s = {} THEN 0 ELSE f[First(s)] + g[s \ {First(s)}]]

LEMMA FoldExists ==
    ASSUME NEW f, NEW S, IsFiniteSet(S)
    PROVE  \E g : Folds(g, f, S)
<1> DEFINE Step(g, s) == IF s = {} THEN 0 ELSE f[First(s)] + g[s \ {First(s)}]
           Good(g, n) == /\ g = [s \in SUBSET S |-> g[s]]
                         /\ \A s \in SUBSET S : Cardinality(s) <= n => g[s] = Step(g, s)
           Done == {n \in Nat : \E g : Good(g, n)}
<1>0. \A s \in SUBSET S : IsFiniteSet(s) /\ Cardinality(s) \in Nat /\ Cardinality(s) <= Cardinality(S)
  BY FS_Subset, FS_CardinalityType
<1>1. 0 \in Done
  <2> DEFINE g == [s \in SUBSET S |-> 0]
  <2>1. Good(g, 0)
    <3> SUFFICES ASSUME NEW s \in SUBSET S, Cardinality(s) <= 0 PROVE g[s] = Step(g, s)
      OBVIOUS
    <3>1. s = {}
      BY <1>0, FS_EmptySet
    <3> QED  BY <3>1
  <2> QED  BY <2>1
<1>2. ASSUME NEW n \in Done PROVE n + 1 \in Done
  <2>1. PICK g : Good(g, n)
    OBVIOUS
  <2> DEFINE h == [s \in SUBSET S |-> IF Cardinality(s) <= n THEN g[s] ELSE Step(g, s)]
  <2>2. n \in Nat
    OBVIOUS
  <2>3. ASSUME NEW s \in SUBSET S, Cardinality(s) <= n + 1 PROVE h[s] = Step(h, s)
    <3>1. CASE s = {}
      <4>1. Step(g, s) = 0 /\ Step(h, s) = 0 /\ g[s] = 0
        <5>1. Cardinality(s) <= n
          BY <1>0, <2>2, <3>1, FS_EmptySet
        <5> QED  BY <2>1, <3>1, <5>1
      <4> QED  BY <4>1
    <3>2. CASE s # {}
      <4> DEFINE t == s \ {First(s)}
      <4>1. First(s) \in s
        BY <3>2 DEF First
      <4>2. t \in SUBSET S /\ Cardinality(t) = Cardinality(s) - 1
        BY <1>0, <4>1, FS_RemoveElement
      <4>3. Cardinality(t) <= n
        BY <1>0, <2>2, <2>3, <4>2
      <4>4. h[t] = g[t]
        BY <4>2, <4>3
      <4>5. Step(h, s) = Step(g, s)
        BY <3>2, <4>4
      <4>6. h[s] = Step(g, s)
        BY <2>1
      <4> QED  BY <4>5, <4>6
    <3> QED  BY <3>1, <3>2
  <2>4. \E k : Good(k, n + 1)
    <3>1. Good(h, n + 1)
      BY <2>3
    <3> HIDE DEF h, Good
    <3> QED  BY <3>1
  <2> HIDE DEF Good
  <2> QED  BY <2>2, <2>4
<1>3. Cardinality(S) \in Done
  <2>1. Done \in SUBSET Nat
    OBVIOUS
  <2> HIDE DEF Done
  <2>2. Done = Nat
    BY <1>1, <1>2, <2>1, SetInduction
  <2> QED  BY <1>0, <2>2
<1>4. PICK g : Good(g, Cardinality(S))
  BY <1>3
<1>5. Folds(g, f, S)
  BY <1>0, <1>4 DEF Folds
<1> QED  BY <1>5

\* It does not matter within which set a subset is summed.
LEMMA FoldsAgree ==
    ASSUME NEW f, NEW S, IsFiniteSet(S), NEW T \in SUBSET S, NEW g, NEW h,
           Folds(g, f, S), Folds(h, f, T)
    PROVE  g[T] = h[T]
<1> DEFINE Same == {n \in Nat : \A s \in SUBSET T : Cardinality(s) = n => g[s] = h[s]}
<1>0. \A s \in SUBSET T : s \in SUBSET S /\ IsFiniteSet(s) /\ Cardinality(s) \in Nat
  BY FS_Subset, FS_CardinalityType
<1>1. \A s \in SUBSET T :
         /\ g[s] = IF s = {} THEN 0 ELSE f[First(s)] + g[s \ {First(s)}]
         /\ h[s] = IF s = {} THEN 0 ELSE f[First(s)] + h[s \ {First(s)}]
  BY <1>0 DEF Folds
<1>2. 0 \in Same
  BY <1>0, <1>1, FS_EmptySet
<1>3. ASSUME NEW n \in Same PROVE n + 1 \in Same
  <2> SUFFICES ASSUME NEW s \in SUBSET T, Cardinality(s) = n + 1 PROVE g[s] = h[s]
    OBVIOUS
  <2>1. CASE s = {}
    BY <1>1, <2>1
  <2>2. CASE s # {}
    <3>1. First(s) \in s
      BY <2>2 DEF First
    <3>2. s \ {First(s)} \in SUBSET T /\ Cardinality(s \ {First(s)}) = Cardinality(s) - 1
      BY <1>0, <3>1, FS_RemoveElement
    <3>3. g[s \ {First(s)}] = h[s \ {First(s)}]
      <4>1. n \in Nat /\ Cardinality(s \ {First(s)}) = n
        BY <3>2
      <4> QED  BY <3>2, <4>1
    <3> QED  BY <1>1, <2>2, <3>3
  <2> QED  BY <2>1, <2>2
<1>4. Same = Nat
  <2>1. Same \in SUBSET Nat
    OBVIOUS
  <2> HIDE DEF Same
  <2> QED  BY <1>2, <1>3, <2>1, SetInduction
<1> QED  BY <1>0, <1>4

LEMMA SumFolds ==
    ASSUME NEW f, NEW S, IsFiniteSet(S)
    PROVE  \E g : Folds(g, f, S) /\ SumFunctionOnSet(f, S) = g[S]
<1> DEFINE g == CHOOSE h : Folds(h, f, S)
<1>1. Folds(g, f, S)
  BY FoldExists
<1>2. SumFunctionOnSet(f, S) = g[S]
  BY DEF SumFunctionOnSet, FoldFunctionOnSet, MapThenFoldSet, Folds, First
<1> QED  BY <1>1, <1>2

Sum(f, S) == SumFunctionOnSet(f, S)

\* One element at a time, the first first.
LEMMA SumFirst ==
    ASSUME NEW f, NEW S, IsFiniteSet(S)
    PROVE  /\ S = {} => Sum(f, S) = 0
           /\ S # {} => Sum(f, S) = f[First(S)] + Sum(f, S \ {First(S)})
<1>1. PICK g : Folds(g, f, S) /\ Sum(f, S) = g[S]
  BY SumFolds DEF Sum
<1>2. g[S] = IF S = {} THEN 0 ELSE f[First(S)] + g[S \ {First(S)}]
  BY <1>1 DEF Folds
<1>3. ASSUME S # {} PROVE g[S \ {First(S)}] = Sum(f, S \ {First(S)})
  <2> DEFINE T == S \ {First(S)}
  <2>1. T \in SUBSET S /\ IsFiniteSet(T)
    BY FS_Subset
  <2> HIDE DEF T
  <2>2. PICK h : Folds(h, f, T) /\ Sum(f, T) = h[T]
    BY <2>1, SumFolds DEF Sum
  <2>3. g[T] = h[T]
    BY <1>1, <2>1, <2>2, FoldsAgree
  <2> QED  BY <2>2, <2>3 DEF T
<1> QED  BY <1>1, <1>2, <1>3

Ints(f, S) == \A x \in S : f[x] \in Int

LEMMA SumEmpty == ASSUME NEW f PROVE Sum(f, {}) = 0
BY SumFirst, FS_EmptySet

LEMMA SumType ==
    ASSUME NEW f, NEW S, IsFiniteSet(S), Ints(f, S)
    PROVE  Sum(f, S) \in Int
<1> DEFINE Small == {n \in Nat : \A T \in SUBSET S : Cardinality(T) = n => Sum(f, T) \in Int}
<1>0. \A T \in SUBSET S : IsFiniteSet(T) /\ Cardinality(T) \in Nat
  BY FS_Subset, FS_CardinalityType
<1>1. 0 \in Small
  BY <1>0, FS_EmptySet, SumEmpty
<1>2. ASSUME NEW n \in Small PROVE n + 1 \in Small
  <2> SUFFICES ASSUME NEW T \in SUBSET S, Cardinality(T) = n + 1 PROVE Sum(f, T) \in Int
    OBVIOUS
  <2>1. n \in Nat /\ IsFiniteSet(T)
    BY <1>0
  <2>2. CASE T = {}
    BY <2>2, SumEmpty
  <2>3. CASE T # {}
    <3>1. First(T) \in T
      BY <2>3 DEF First
    <3>2. T \ {First(T)} \in SUBSET S /\ Cardinality(T \ {First(T)}) = n
      <4>1. Cardinality(T \ {First(T)}) = Cardinality(T) - 1
        BY <2>1, <3>1, FS_RemoveElement
      <4> QED  BY <2>1, <4>1
    <3>3. Sum(f, T \ {First(T)}) \in Int /\ f[First(T)] \in Int
      BY <2>1, <3>1, <3>2 DEF Ints
    <3> QED  BY <2>1, <2>3, <3>3, SumFirst
  <2> QED  BY <2>2, <2>3
<1>3. Small = Nat
  <2>1. Small \in SUBSET Nat
    OBVIOUS
  <2> HIDE DEF Small
  <2> QED  BY <1>1, <1>2, <2>1, SetInduction
<1> QED  BY <1>0, <1>3

\* The order does not matter.
LEMMA SumRemove ==
    ASSUME NEW f, NEW S, IsFiniteSet(S), Ints(f, S), NEW x \in S
    PROVE  Sum(f, S) = f[x] + Sum(f, S \ {x})
<1> DEFINE Small == {n \in Nat : \A T \in SUBSET S : Cardinality(T) = n =>
                                    \A y \in T : Sum(f, T) = f[y] + Sum(f, T \ {y})}
<1>0. \A T \in SUBSET S : /\ IsFiniteSet(T) /\ Cardinality(T) \in Nat /\ Sum(f, T) \in Int
                          /\ \A y \in T : /\ f[y] \in Int
                                          /\ Cardinality(T \ {y}) = Cardinality(T) - 1
  <2> SUFFICES ASSUME NEW T \in SUBSET S
      PROVE  /\ IsFiniteSet(T) /\ Cardinality(T) \in Nat /\ Sum(f, T) \in Int
             /\ \A y \in T : f[y] \in Int /\ Cardinality(T \ {y}) = Cardinality(T) - 1
    OBVIOUS
  <2>1. IsFiniteSet(T) /\ Cardinality(T) \in Nat
    BY FS_Subset, FS_CardinalityType
  <2>2. Ints(f, T)
    BY DEF Ints
  <2>3. Sum(f, T) \in Int
    BY <2>1, <2>2, SumType
  <2>4. \A y \in T : Cardinality(T \ {y}) = Cardinality(T) - 1
    BY <2>1, FS_RemoveElement
  <2> QED  BY <2>1, <2>2, <2>3, <2>4 DEF Ints
<1>1. 0 \in Small
  BY <1>0, FS_EmptySet
<1>2. ASSUME NEW n \in Small PROVE n + 1 \in Small
  <2> SUFFICES ASSUME NEW T \in SUBSET S, Cardinality(T) = n + 1, NEW y \in T
      PROVE  Sum(f, T) = f[y] + Sum(f, T \ {y})
    OBVIOUS
  <2> DEFINE c == First(T)
  <2>1. n \in Nat /\ c \in T
    BY DEF First
  <2>2. Sum(f, T) = f[c] + Sum(f, T \ {c})
    BY <1>0, SumFirst
  <2> HIDE DEF c
  <2>3. CASE y = c
    BY <2>2, <2>3
  <2>4. CASE y # c
    <3>1. /\ T \ {c} \in SUBSET S /\ Cardinality(T \ {c}) = n /\ y \in T \ {c}
          /\ T \ {y} \in SUBSET S /\ Cardinality(T \ {y}) = n /\ c \in T \ {y}
      BY <1>0, <2>1, <2>4
    <3>2. (T \ {c}) \ {y} = (T \ {y}) \ {c}
      OBVIOUS
    <3>3. /\ Sum(f, T \ {c}) = f[y] + Sum(f, (T \ {y}) \ {c})
          /\ Sum(f, T \ {y}) = f[c] + Sum(f, (T \ {y}) \ {c})
      BY <2>1, <3>1, <3>2
    <3>4. f[y] \in Int /\ f[c] \in Int /\ Sum(f, (T \ {y}) \ {c}) \in Int
      <4>1. (T \ {y}) \ {c} \in SUBSET S
        OBVIOUS
      <4> QED  BY <1>0, <2>1, <4>1
    <3> QED  BY <2>2, <3>3, <3>4
  <2> QED  BY <2>3, <2>4
<1>3. Small = Nat
  <2>1. Small \in SUBSET Nat
    OBVIOUS
  <2> HIDE DEF Small
  <2> QED  BY <1>1, <1>2, <2>1, SetInduction
<1> QED  BY <1>0, <1>3

LEMMA SumAdd ==
    ASSUME NEW f, NEW S, IsFiniteSet(S), Ints(f, S), NEW T \in SUBSET S, NEW x \in S \ T
    PROVE  /\ Sum(f, T \cup {x}) = f[x] + Sum(f, T)
           /\ f[x] \in Int /\ Sum(f, T) \in Int /\ Sum(f, T \cup {x}) \in Int
<1>1. IsFiniteSet(T) /\ IsFiniteSet(T \cup {x})
  BY FS_Subset
<1>2. Ints(f, T) /\ Ints(f, T \cup {x}) /\ f[x] \in Int
  BY DEF Ints
<1>3. (T \cup {x}) \ {x} = T
  OBVIOUS
<1>4. Sum(f, T \cup {x}) = f[x] + Sum(f, T)
  BY <1>1, <1>2, <1>3, SumRemove
<1> QED  BY <1>1, <1>2, <1>4, SumType

\* Only the values over the set count.
LEMMA SumSame ==
    ASSUME NEW f, NEW g, NEW S, IsFiniteSet(S), Ints(f, S), \A x \in S : f[x] = g[x]
    PROVE  Sum(f, S) = Sum(g, S)
<1> DEFINE P == {T \in SUBSET S : Sum(f, T) = Sum(g, T)}
<1>1. {} \in P
  BY SumEmpty
<1>2. Ints(g, S)
  BY DEF Ints
<1>3. ASSUME NEW T \in P, NEW x \in S \ T PROVE T \cup {x} \in P
  <2>1. T \in SUBSET S /\ Sum(f, T) = Sum(g, T) /\ f[x] = g[x]
    OBVIOUS
  <2>2. Sum(f, T \cup {x}) = f[x] + Sum(f, T)
    BY <2>1, SumAdd
  <2>3. Sum(g, T \cup {x}) = g[x] + Sum(g, T)
    BY <1>2, <2>1, SumAdd
  <2> QED  BY <2>1, <2>2, <2>3
<1>4. S \in P
  <2>1. P \in SUBSET (SUBSET S)
    OBVIOUS
  <2> HIDE DEF P
  <2> QED  BY <1>1, <1>3, <2>1, SubsetInduction
<1> QED  BY <1>4

LEMMA SumPlus ==
    ASSUME NEW f, NEW g, NEW h, NEW S, IsFiniteSet(S), Ints(f, S), Ints(g, S),
           \A x \in S : h[x] = f[x] + g[x]
    PROVE  Sum(h, S) = Sum(f, S) + Sum(g, S)
<1> DEFINE P == {T \in SUBSET S : Sum(h, T) = Sum(f, T) + Sum(g, T)}
<1>1. {} \in P
  BY SumEmpty
<1>2. Ints(h, S)
  BY DEF Ints
<1>3. ASSUME NEW T \in P, NEW x \in S \ T PROVE T \cup {x} \in P
  <2>1. T \in SUBSET S /\ Sum(h, T) = Sum(f, T) + Sum(g, T) /\ h[x] = f[x] + g[x]
    OBVIOUS
  <2>2. /\ Sum(f, T \cup {x}) = f[x] + Sum(f, T) /\ f[x] \in Int /\ Sum(f, T) \in Int
        /\ Sum(g, T \cup {x}) = g[x] + Sum(g, T) /\ g[x] \in Int /\ Sum(g, T) \in Int
    BY <2>1, SumAdd
  <2>3. Sum(h, T \cup {x}) = h[x] + Sum(h, T)
    BY <1>2, <2>1, SumAdd
  <2>4. Sum(h, T \cup {x}) = Sum(f, T \cup {x}) + Sum(g, T \cup {x})
    BY <2>1, <2>2, <2>3
  <2> QED  BY <2>4
<1>4. S \in P
  <2>1. P \in SUBSET (SUBSET S)
    OBVIOUS
  <2> HIDE DEF P
  <2> QED  BY <1>1, <1>3, <2>1, SubsetInduction
<1> QED  BY <1>4

\* The same number for each element, and one for each element of a part.
LEMMA SumConstant ==
    ASSUME NEW f, NEW S, IsFiniteSet(S), NEW k \in Int, \A x \in S : f[x] = k
    PROVE  Sum(f, S) = k * Cardinality(S)
<1> DEFINE P == {T \in SUBSET S : Sum(f, T) = k * Cardinality(T)}
<1>1. {} \in P
  BY SumEmpty, FS_EmptySet
<1>2. Ints(f, S)
  BY DEF Ints
<1>3. ASSUME NEW T \in P, NEW x \in S \ T PROVE T \cup {x} \in P
  <2>1. T \in SUBSET S /\ Sum(f, T) = k * Cardinality(T) /\ f[x] = k
    OBVIOUS
  <2>2. IsFiniteSet(T) /\ Cardinality(T) \in Nat
    BY <2>1, FS_Subset, FS_CardinalityType
  <2>3. Cardinality(T \cup {x}) = Cardinality(T) + 1
    BY <2>2, FS_AddElement
  <2>4. Sum(f, T \cup {x}) = k + k * Cardinality(T)
    BY <1>2, <2>1, SumAdd
  <2>5. k + k * Cardinality(T) = k * (Cardinality(T) + 1)
    BY <2>2
  <2> QED  BY <2>1, <2>3, <2>4, <2>5
<1>4. S \in P
  <2>1. P \in SUBSET (SUBSET S)
    OBVIOUS
  <2> HIDE DEF P
  <2> QED  BY <1>1, <1>3, <2>1, SubsetInduction
<1> QED  BY <1>4

LEMMA SumOfPart ==
    ASSUME NEW f, NEW S, IsFiniteSet(S), NEW A \in SUBSET S,
           \A x \in S : f[x] = IF x \in A THEN 1 ELSE 0
    PROVE  Sum(f, S) = Cardinality(A)
<1> DEFINE P == {T \in SUBSET S : Sum(f, T) = Cardinality(T \cap A)}
<1>1. {} \in P
  BY SumEmpty, FS_EmptySet
<1>2. Ints(f, S)
  BY DEF Ints
<1>3. ASSUME NEW T \in P, NEW x \in S \ T PROVE T \cup {x} \in P
  <2>1. T \in SUBSET S /\ Sum(f, T) = Cardinality(T \cap A)
    OBVIOUS
  <2>2. IsFiniteSet(T \cap A) /\ Cardinality(T \cap A) \in Nat
    BY <2>1, FS_Subset, FS_CardinalityType
  <2>3. Sum(f, T \cup {x}) = f[x] + Sum(f, T)
    BY <1>2, <2>1, SumAdd
  <2>4. CASE x \in A
    <3>1. (T \cup {x}) \cap A = (T \cap A) \cup {x} /\ x \notin T \cap A
      BY <2>4
    <3>2. Cardinality((T \cup {x}) \cap A) = Cardinality(T \cap A) + 1
      BY <2>2, <3>1, FS_AddElement
    <3> QED  BY <2>1, <2>2, <2>3, <2>4, <3>2
  <2>5. CASE x \notin A
    <3>1. (T \cup {x}) \cap A = T \cap A
      BY <2>5
    <3>2. f[x] = 0 /\ Sum(f, T) \in Nat
      BY <2>1, <2>2, <2>5
    <3>3. Sum(f, T \cup {x}) = Sum(f, T)
      BY <2>3, <3>2
    <3>4. T \cup {x} \in SUBSET S
      OBVIOUS
    <3> QED  BY <2>1, <3>1, <3>3, <3>4
  <2> QED  BY <2>4, <2>5
<1>4. S \in P
  <2>1. P \in SUBSET (SUBSET S)
    OBVIOUS
  <2> HIDE DEF P
  <2> QED  BY <1>1, <1>3, <2>1, SubsetInduction
<1>5. S \cap A = A
  OBVIOUS
<1> QED  BY <1>4, <1>5

LEMMA SumUnion ==
    ASSUME NEW f, NEW S, IsFiniteSet(S), Ints(f, S),
           NEW A \in SUBSET S, NEW B \in SUBSET S, A \cap B = {}
    PROVE  Sum(f, A \cup B) = Sum(f, A) + Sum(f, B)
<1> DEFINE P == {T \in SUBSET B : Sum(f, A \cup T) = Sum(f, A) + Sum(f, T)}
<1>0. IsFiniteSet(A) /\ IsFiniteSet(B) /\ Sum(f, A) \in Int
  <2>1. IsFiniteSet(A) /\ IsFiniteSet(B) /\ Ints(f, A)
    BY FS_Subset DEF Ints
  <2> QED  BY <2>1, SumType
<1>1. {} \in P
  <2>1. A \cup {} = A
    OBVIOUS
  <2> QED  BY <1>0, <2>1, SumEmpty
<1>2. ASSUME NEW T \in P, NEW x \in B \ T PROVE T \cup {x} \in P
  <2>1. T \in SUBSET B /\ Sum(f, A \cup T) = Sum(f, A) + Sum(f, T)
    OBVIOUS
  <2>2. x \in S \ T /\ T \in SUBSET S /\ x \in S \ (A \cup T) /\ A \cup T \in SUBSET S
    OBVIOUS
  <2>3. Sum(f, T \cup {x}) = f[x] + Sum(f, T) /\ f[x] \in Int /\ Sum(f, T) \in Int
    BY <2>2, SumAdd
  <2>4. Sum(f, (A \cup T) \cup {x}) = f[x] + Sum(f, A \cup T)
    <3> DEFINE U == A \cup T
    <3>1. U \in SUBSET S /\ x \in S \ U
      BY <2>2
    <3> HIDE DEF U, P
    <3>2. Sum(f, U \cup {x}) = f[x] + Sum(f, U)
      BY <3>1, SumAdd
    <3> QED  BY <3>2 DEF U
  <2>5. (A \cup T) \cup {x} = A \cup (T \cup {x}) /\ T \cup {x} \in SUBSET B
    OBVIOUS
  <2>6. Sum(f, A \cup (T \cup {x})) = Sum(f, A) + Sum(f, T \cup {x})
    <3>1. Sum(f, A \cup (T \cup {x})) = f[x] + Sum(f, A \cup T)
      BY <2>4, <2>5
    <3> HIDE DEF P
    <3> QED  BY <1>0, <2>1, <2>3, <3>1
  <2> QED  BY <2>5, <2>6
<1>3. B \in P
  <2>1. P \in SUBSET (SUBSET B)
    OBVIOUS
  <2> HIDE DEF P
  <2> QED  BY <1>0, <1>1, <1>2, <2>1, SubsetInduction
<1> QED  BY <1>3

LEMMA SumOne ==
    ASSUME NEW f, NEW x, f[x] \in Int
    PROVE  Sum(f, {x}) = f[x]
<1>1. IsFiniteSet({x}) /\ Ints(f, {x})
  BY FS_Singleton DEF Ints
<1>2. Sum(f, {} \cup {x}) = f[x] + Sum(f, {})
  BY <1>1, SumAdd
<1>3. {} \cup {x} = {x}
  OBVIOUS
<1> QED  BY <1>2, <1>3, SumEmpty

\* A sum in parts, by what p gives.
Fiber(p, S, t) == {x \in S : p[x] = t}
InParts(g, T, f, p, S) == \A t \in T : g[t] = Sum(f, Fiber(p, S, t))

LEMMA SumFibers ==
    ASSUME NEW f, NEW S, IsFiniteSet(S), Ints(f, S),
           NEW g, NEW T, IsFiniteSet(T), NEW p, \A x \in S : p[x] \in T,
           InParts(g, T, f, p, S)
    PROVE  Sum(f, S) = Sum(g, T)
<1> DEFINE Part(U) == {x \in S : p[x] \in U}
           P == {U \in SUBSET T : Sum(g, U) = Sum(f, Part(U))}
<1>1. {} \in P
  <2>1. Part({}) = {}
    OBVIOUS
  <2> QED  BY <2>1, SumEmpty
<1>2. Ints(g, T)
  <2> SUFFICES ASSUME NEW t \in T PROVE g[t] \in Int
    BY DEF Ints
  <2> DEFINE F == Fiber(p, S, t)
  <2>1. IsFiniteSet(F) /\ Ints(f, F)
    <3>1. F \subseteq S
      BY DEF Fiber
    <3> QED  BY <3>1, FS_Subset DEF Ints
  <2>2. g[t] = Sum(f, F)
    BY DEF InParts
  <2> HIDE DEF F
  <2> QED  BY <2>1, <2>2, SumType
<1>3. ASSUME NEW U \in P, NEW t \in T \ U PROVE U \cup {t} \in P
  <2> DEFINE F == Fiber(p, S, t)
  <2>1. U \in SUBSET T /\ Sum(g, U) = Sum(f, Part(U))
    OBVIOUS
  <2>2. Sum(g, U \cup {t}) = g[t] + Sum(g, U) /\ g[t] \in Int /\ Sum(g, U) \in Int
    <3>1. U \in SUBSET T /\ t \in T \ U
      BY <2>1
    <3> HIDE DEF P, Part
    <3> QED  BY <1>2, <3>1, SumAdd
  <2>3. /\ Part(U \cup {t}) = Part(U) \cup F /\ Part(U) \cap F = {}
        /\ Part(U) \in SUBSET S /\ F \in SUBSET S
    BY DEF Fiber
  <2>4. g[t] = Sum(f, F)
    BY DEF InParts
  <2> HIDE DEF Part, F
  <2>5. Sum(f, Part(U) \cup F) = Sum(f, Part(U)) + Sum(f, F)
    BY <2>3, SumUnion
  <2>6. Sum(g, U \cup {t}) = Sum(f, Part(U \cup {t}))
    <3> HIDE DEF P
    <3>1. Sum(f, Part(U \cup {t})) = Sum(f, Part(U)) + Sum(f, F)
      BY <2>3, <2>5
    <3>2. Sum(f, Part(U)) \in Int /\ Sum(f, F) \in Int
      BY <2>1, <2>2, <2>4
    <3>3. Sum(g, U \cup {t}) = Sum(f, F) + Sum(f, Part(U))
      BY <2>1, <2>2, <2>4
    <3> QED  BY <3>1, <3>2, <3>3
  <2>7. U \cup {t} \in SUBSET T
    BY <2>1
  <2> QED  BY <2>6, <2>7
<1>4. T \in P
  <2>1. P \in SUBSET (SUBSET T)
    OBVIOUS
  <2> HIDE DEF P
  <2> QED  BY <1>1, <1>3, <2>1, SubsetInduction
<1>5. Part(T) = S
  OBVIOUS
<1> QED  BY <1>4, <1>5

\* The same sum over another set, element by element.
LEMMA SumMoved ==
    ASSUME NEW f, NEW S, IsFiniteSet(S), Ints(f, S),
           NEW g, NEW T, IsFiniteSet(T), NEW p, \A x \in S : p[x] \in T /\ f[x] = g[p[x]],
           \A x, y \in S : p[x] = p[y] => x = y,
           \A t \in T : \E x \in S : p[x] = t
    PROVE  Sum(f, S) = Sum(g, T)
<1> SUFFICES ASSUME NEW t \in T PROVE g[t] = Sum(f, Fiber(p, S, t))
  BY SumFibers DEF InParts
<1>1. g[t] = Sum(f, Fiber(p, S, t))
  <2>1. PICK x \in S : p[x] = t
    OBVIOUS
  <2>2. Fiber(p, S, t) = {x}
    BY <2>1 DEF Fiber
  <2>3. Sum(f, {x}) = f[x]
    BY SumOne DEF Ints
  <2> QED  BY <2>1, <2>2, <2>3
<1> QED  BY <1>1

LEMMA SumTwoOne ==
    ASSUME NEW f, NEW S, IsFiniteSet(S), NEW A \in SUBSET S, NEW B \in SUBSET S, A \cap B = {},
           \A x \in S : f[x] = IF x \in A THEN 2 ELSE IF x \in B THEN 1 ELSE 0
    PROVE  Sum(f, S) = 2 * Cardinality(A) + Cardinality(B)
<1> DEFINE a == [x \in S |-> IF x \in A THEN 1 ELSE 0]
           b == [x \in S |-> IF x \in B THEN 1 ELSE 0]
           ab == [x \in S |-> a[x] + b[x]]
<1>1. Ints(a, S) /\ Ints(b, S) /\ Ints(ab, S) /\ \A x \in S : f[x] = a[x] + ab[x] /\ ab[x] = a[x] + b[x]
  BY DEF Ints
<1>2. \A x \in S : a[x] = (IF x \in A THEN 1 ELSE 0) /\ b[x] = (IF x \in B THEN 1 ELSE 0)
  OBVIOUS
<1> HIDE DEF a, b, ab
<1>3. Sum(a, S) = Cardinality(A) /\ Sum(b, S) = Cardinality(B)
  BY <1>2, SumOfPart
<1>4. Sum(ab, S) = Sum(a, S) + Sum(b, S)
  BY <1>1, SumPlus
<1>5. Sum(f, S) = Sum(a, S) + Sum(ab, S)
  BY <1>1, SumPlus
<1>6. Cardinality(A) \in Nat /\ Cardinality(B) \in Nat
  BY FS_Subset, FS_CardinalityType
<1> QED  BY <1>3, <1>4, <1>5, <1>6

-----------------------------------------------------------------------------
(* Strokes given.                                                           *)

LEMMA Quotient ==
    ASSUME NEW N \in Nat \ {0}, NEW q \in Nat, NEW m \in 0..(N - 1)
    PROVE  ((N * q) + m) \div N = q /\ ((N * q) + m) % N = m
OBVIOUS

LEMMA Divided ==
    ASSUME NEW N \in Nat \ {0}, NEW r \in Nat
    PROVE  \E q \in Nat, m \in 0..(N - 1) :
               r = (N * q) + m /\ r \div N = q /\ (r % N) = m
<1> DEFINE Can(k) == \E q \in Nat, m \in 0..(N - 1) : k = (N * q) + m
           Done == {k \in Nat : Can(k)}
<1>1. 0 \in Done
  <2>1. 0 \in Nat /\ 0 \in 0..(N - 1) /\ 0 = (N * 0) + 0
    OBVIOUS
  <2> QED  BY <2>1
<1>2. ASSUME NEW k \in Done PROVE k + 1 \in Done
  <2>1. PICK q \in Nat, m \in 0..(N - 1) : k = (N * q) + m
    OBVIOUS
  <2>2. CASE m < N - 1
    <3>1. m + 1 \in 0..(N - 1) /\ k + 1 = (N * q) + (m + 1)
      BY <2>1, <2>2
    <3> QED  BY <3>1
  <2>3. CASE m = N - 1
    <3>1. N * (q + 1) = (N * q) + N
      OBVIOUS
    <3>2. 0 \in 0..(N - 1) /\ q + 1 \in Nat /\ k + 1 = (N * (q + 1)) + 0
      BY <2>1, <2>3, <3>1
    <3>3. Can(k + 1)
      <4> DEFINE p == q + 1
      <4>1. p \in Nat /\ k + 1 = (N * p) + 0
        BY <3>2
      <4> HIDE DEF p
      <4> QED  BY <3>2, <4>1
    <3> QED  BY <3>3
  <2> QED  BY <2>2, <2>3
<1>3. Done = Nat
  <2>1. Done \in SUBSET Nat
    OBVIOUS
  <2> HIDE DEF Done
  <2> QED  BY <1>1, <1>2, <2>1, SetInduction
<1>4. PICK q \in Nat, m \in 0..(N - 1) : r = (N * q) + m
  <2>1. Can(r)
    <3>1. r \in Done
      <4> HIDE DEF Done
      <4> QED  BY <1>3
    <3> QED  BY <3>1
  <2> QED  BY <2>1
<1>5. r \div N = q /\ (r % N) = m
  BY <1>4, Quotient
<1> QED  BY <1>4, <1>5

\* One more stroke goes to the index that follows the remainder.
Dealt(N, r, x) == (r \div N) + IF x <= (r % N) THEN 1 ELSE 0

LEMMA DealtOneMore ==
    ASSUME NEW N \in Nat \ {0}, NEW r \in Nat, NEW x \in 1..N
    PROVE  /\ Dealt(N, r, x) \in Int
           /\ Dealt(N, r + 1, x) = Dealt(N, r, x) + IF x = (r % N) + 1 THEN 1 ELSE 0
<1>1. PICK q \in Nat, m \in 0..(N - 1) : r = (N * q) + m /\ r \div N = q /\ (r % N) = m
  BY Divided
<1>2. CASE m < N - 1
  <2>1. m + 1 \in 0..(N - 1) /\ r + 1 = (N * q) + (m + 1)
    BY <1>1, <1>2
  <2>2. (r + 1) \div N = q /\ ((r + 1) % N) = m + 1
    BY <2>1, Quotient
  <2> QED  BY <1>1, <2>2 DEF Dealt
<1>3. CASE m = N - 1
  <2>1. N * (q + 1) = (N * q) + N
    OBVIOUS
  <2>2. 0 \in 0..(N - 1) /\ q + 1 \in Nat /\ r + 1 = (N * (q + 1)) + 0
    BY <1>1, <1>3, <2>1
  <2>3. (r + 1) \div N = q + 1 /\ ((r + 1) % N) = 0
    <3> DEFINE p == q + 1
    <3>1. p \in Nat /\ r + 1 = (N * p) + 0
      BY <2>2
    <3> HIDE DEF p
    <3>2. (r + 1) \div N = p /\ ((r + 1) % N) = 0
      BY <2>2, <3>1, Quotient
    <3> QED  BY <3>2 DEF p
  <2> QED  BY <1>1, <1>3, <2>3 DEF Dealt
<1> QED  BY <1>2, <1>3

\* Strokes dealt one by one, and all at once.
LEMMA DealtOneByOne ==
    ASSUME NEW N \in Nat \ {0}, NEW r \in Nat, NEW x \in 1..N
    PROVE  Cardinality({k \in 1..r : ((k - 1) % N) + 1 = x}) = Dealt(N, r, x)
<1> DEFINE Given(n) == {k \in 1..n : ((k - 1) % N) + 1 = x}
           Right == {n \in Nat : IsFiniteSet(Given(n)) /\ Cardinality(Given(n)) = Dealt(N, n, x)}
<1>1. 0 \in Right
  <2>1. Given(0) = {}
    OBVIOUS
  <2>2. 0 = (N * 0) + 0 /\ 0 \in 0..(N - 1) /\ 0 \in Nat
    OBVIOUS
  <2>3. 0 \div N = 0 /\ (0 % N) = 0
    BY <2>2, Quotient
  <2>4. Dealt(N, 0, x) = 0
    BY <2>3 DEF Dealt
  <2> QED  BY <2>1, <2>4, FS_EmptySet
<1>2. ASSUME NEW n \in Right PROVE n + 1 \in Right
  <2>1. n \in Nat /\ IsFiniteSet(Given(n)) /\ Cardinality(Given(n)) = Dealt(N, n, x)
    OBVIOUS
  <2>2. Dealt(N, n, x) \in Int /\ Dealt(N, n + 1, x) = Dealt(N, n, x) + IF x = (n % N) + 1 THEN 1 ELSE 0
    BY <2>1, DealtOneMore
  <2>3. (n + 1) - 1 = n
    BY <2>1
  <2>4. CASE x = (n % N) + 1
    <3>1. Given(n + 1) = Given(n) \cup {n + 1} /\ n + 1 \notin Given(n)
      BY <2>1, <2>3, <2>4
    <3> HIDE DEF Given
    <3>2. IsFiniteSet(Given(n + 1)) /\ Cardinality(Given(n + 1)) = Cardinality(Given(n)) + 1
      BY <2>1, <3>1, FS_AddElement
    <3> QED  BY <2>1, <2>2, <2>4, <3>2
  <2>5. CASE x # (n % N) + 1
    <3>1. Given(n + 1) = Given(n)
      BY <2>1, <2>3, <2>5
    <3> HIDE DEF Given
    <3>2. Dealt(N, n + 1, x) = Dealt(N, n, x)
      BY <2>2, <2>5
    <3> QED  BY <2>1, <3>1, <3>2
  <2> QED  BY <2>4, <2>5
<1>3. Right = Nat
  <2>1. Right \in SUBSET Nat
    OBVIOUS
  <2> HIDE DEF Right
  <2> QED  BY <1>1, <1>2, <2>1, SetInduction
<1> QED  BY <1>3

-----------------------------------------------------------------------------
(* What is sorted, and what goes through it.                                *)

LEMMA OneToOneIsOnto ==
    ASSUME NEW S, NEW T, IsFiniteSet(T), Cardinality(S) = Cardinality(T), NEW s \in [S -> T],
           \A x, y \in S : s[x] = s[y] => x = y
    PROVE  \A t \in T : \E x \in S : s[x] = t
<1>1. s \in Injection(S, T)
  BY DEF Injection, IsInjective
<1>2. s \in Surjection(S, T)
  BY <1>1, FS_Injection
<1> QED  BY <1>2 DEF Surjection

LEMMA OntoIsOneToOne ==
    ASSUME NEW S, NEW T, IsFiniteSet(S), Cardinality(S) = Cardinality(T), NEW s \in [S -> T],
           \A t \in T : \E x \in S : s[x] = t
    PROVE  \A x, y \in S : s[x] = s[y] => x = y
<1>1. s \in Surjection(S, T)
  BY DEF Surjection
<1>2. s \in Injection(S, T)
  BY <1>1, FS_Surjection
<1> QED  BY <1>2 DEF Injection, IsInjective

SortedBy(s, S, key) ==
    /\ s \in [1..Cardinality(S) -> S]
    /\ \A i, j \in 1..Cardinality(S) : i < j => s[i] # s[j] /\ key[s[i]] <= key[s[j]]

LEMMA Largest ==
    ASSUME NEW S, IsFiniteSet(S), S # {}, NEW key, Ints(key, S)
    PROVE  \E x \in S : \A y \in S : key[y] <= key[x]
<1> DEFINE Has(T) == \E x \in T : \A y \in T : key[y] <= key[x]
           P == {T \in SUBSET S : T = {} \/ Has(T)}
<1>1. {} \in P
  OBVIOUS
<1>2. ASSUME NEW T \in P, NEW z \in S \ T PROVE T \cup {z} \in P
  <2>1. T \in SUBSET S /\ key[z] \in Int /\ \A y \in T : key[y] \in Int
    BY DEF Ints
  <2>2. CASE T = {}
    <3>1. \A y \in T \cup {z} : key[y] <= key[z]
      BY <2>1, <2>2
    <3> QED  BY <2>1, <3>1
  <2>3. CASE T # {}
    <3>1. PICK x \in T : \A y \in T : key[y] <= key[x]
      BY <2>3
    <3>2. CASE key[z] <= key[x]
      <4>1. \A y \in T \cup {z} : key[y] <= key[x]
        BY <3>1, <3>2
      <4> QED  BY <2>1, <3>1, <4>1
    <3>3. CASE key[x] < key[z]
      <4>1. \A y \in T \cup {z} : key[y] <= key[z]
        BY <2>1, <3>1, <3>3
      <4> QED  BY <2>1, <4>1
    <3> QED  BY <2>1, <3>1, <3>2, <3>3
  <2> QED  BY <2>2, <2>3
<1>3. S \in P
  <2>1. P \in SUBSET (SUBSET S)
    OBVIOUS
  <2> HIDE DEF P
  <2> QED  BY <1>1, <1>2, <2>1, SubsetInduction
<1> QED  BY <1>3

LEMMA SortedExists ==
    ASSUME NEW S, IsFiniteSet(S), NEW key, Ints(key, S)
    PROVE  SortedBy(Sorted(S, key), S, key)
<1> DEFINE Can(T) == \E s : SortedBy(s, T, key)
           Done == {n \in Nat : \A T \in SUBSET S : Cardinality(T) = n => Can(T)}
<1>0. \A T \in SUBSET S : IsFiniteSet(T) /\ Cardinality(T) \in Nat
  BY FS_Subset, FS_CardinalityType
<1>1. 0 \in Done
  <2> SUFFICES ASSUME NEW T \in SUBSET S, Cardinality(T) = 0 PROVE Can(T)
    OBVIOUS
  <2> DEFINE s == [i \in 1..0 |-> CHOOSE x \in T : TRUE]
  <2>1. SortedBy(s, T, key)
    BY DEF SortedBy
  <2> QED  BY <2>1
<1>2. ASSUME NEW n \in Done PROVE n + 1 \in Done
  <2> SUFFICES ASSUME NEW T \in SUBSET S, Cardinality(T) = n + 1 PROVE Can(T)
    OBVIOUS
  <2>1. n \in Nat /\ IsFiniteSet(T) /\ T # {} /\ Ints(key, T)
    <3>1. n \in Nat /\ IsFiniteSet(T) /\ Ints(key, T)
      BY <1>0 DEF Ints
    <3>2. T # {}
      BY <3>1, FS_EmptySet
    <3> QED  BY <3>1, <3>2
  <2>2. PICK x \in T : \A y \in T : key[y] <= key[x]
    BY <2>1, Largest
  <2> DEFINE U == T \ {x}
  <2>3. U \in SUBSET S /\ Cardinality(U) = n
    <3>1. Cardinality(U) = Cardinality(T) - 1
      BY <2>1, FS_RemoveElement
    <3> QED  BY <2>1, <3>1
  <2>4. PICK r : SortedBy(r, U, key)
    BY <2>3
  <2> DEFINE s == [i \in 1..(n + 1) |-> IF i = n + 1 THEN x ELSE r[i]]
  <2>5. \A i \in 1..n : r[i] \in U /\ s[i] = r[i]
    <3>1. r \in [1..n -> U]
      BY <2>3, <2>4 DEF SortedBy
    <3>2. \A i \in 1..n : s[i] = r[i]
      BY <2>1
    <3> HIDE DEF s, U
    <3> QED  BY <3>1, <3>2
  <2>6. s[n + 1] = x
    BY <2>1
  <2>7. s \in [1..(n + 1) -> T]
    <3>1. ASSUME NEW i \in 1..(n + 1) PROVE s[i] \in T
      <4>1. i = n + 1 \/ i \in 1..n
        BY <2>1
      <4> HIDE DEF s
      <4> QED  BY <2>2, <2>5, <2>6, <4>1
    <3> QED  BY <3>1
  <2>8. ASSUME NEW i \in 1..(n + 1), NEW j \in 1..(n + 1), i < j
        PROVE  s[i] # s[j] /\ key[s[i]] <= key[s[j]]
    <3>1. i \in 1..n /\ (j = n + 1 \/ j \in 1..n)
      BY <2>1, <2>8
    <3> HIDE DEF s
    <3>2. CASE j = n + 1
      BY <2>2, <2>5, <2>6, <3>1, <3>2
    <3>3. CASE j \in 1..n
      <4>1. r[i] # r[j] /\ key[r[i]] <= key[r[j]]
        BY <2>3, <2>4, <2>8, <3>1, <3>3 DEF SortedBy
      <4> QED  BY <2>5, <3>1, <3>3, <4>1
    <3> QED  BY <3>1, <3>2, <3>3
  <2>9. SortedBy(s, T, key)
    <3> HIDE DEF s
    <3> QED  BY <2>7, <2>8 DEF SortedBy
  <2> HIDE DEF s
  <2> QED  BY <2>9
<1>3. Can(S)
  <2>1. Done \in SUBSET Nat
    OBVIOUS
  <2>2. Done = Nat
    <3> HIDE DEF Done
    <3> QED  BY <1>1, <1>2, <2>1, SetInduction
  <2>3. Cardinality(S) \in Done
    <3> HIDE DEF Done
    <3> QED  BY <1>0, <2>2
  <2> QED  BY <2>3
<1> QED  BY <1>3 DEF Sorted, SortedBy

\* Each element is at one place.
LEMMA SortedPlaces ==
    ASSUME NEW S, IsFiniteSet(S), NEW key, Ints(key, S), NEW s, SortedBy(s, S, key)
    PROVE  /\ s \in [1..Cardinality(S) -> S] /\ Cardinality(S) \in Nat
           /\ \A i, j \in 1..Cardinality(S) : s[i] = s[j] => i = j
           /\ \A x \in S : \E i \in 1..Cardinality(S) : s[i] = x
           /\ \A i, j \in 1..Cardinality(S) : i <= j => key[s[i]] <= key[s[j]]
<1>1. s \in [1..Cardinality(S) -> S] /\ Cardinality(S) \in Nat
  BY FS_CardinalityType DEF SortedBy
<1>2. \A i, j \in 1..Cardinality(S) : s[i] = s[j] => i = j
  <2> SUFFICES ASSUME NEW i \in 1..Cardinality(S), NEW j \in 1..Cardinality(S), i # j PROVE s[i] # s[j]
    OBVIOUS
  <2>1. i < j \/ j < i
    BY <1>1
  <2> QED  BY <2>1 DEF SortedBy
<1>3. Cardinality(1..Cardinality(S)) = Cardinality(S)
  <2>1. Cardinality(S) \in Nat
    BY <1>1
  <2> QED  BY <2>1, FS_Interval
<1>4. \A x \in S : \E i \in 1..Cardinality(S) : s[i] = x
  <2> DEFINE I == 1..Cardinality(S)
  <2>1. s \in [I -> S] /\ Cardinality(I) = Cardinality(S) /\ \A i, j \in I : s[i] = s[j] => i = j
    BY <1>1, <1>2, <1>3
  <2> HIDE DEF I
  <2>2. \A x \in S : \E i \in I : s[i] = x
    BY <2>1, OneToOneIsOnto
  <2> QED  BY <2>2 DEF I
<1>5. \A i, j \in 1..Cardinality(S) : i <= j => key[s[i]] <= key[s[j]]
  <2> SUFFICES ASSUME NEW i \in 1..Cardinality(S), NEW j \in 1..Cardinality(S), i <= j
      PROVE  key[s[i]] <= key[s[j]]
    OBVIOUS
  <2>1. CASE i = j
    BY <1>1, <2>1 DEF Ints
  <2>2. CASE i # j
    <3>1. i < j
      BY <1>1, <2>2
    <3> QED  BY <3>1 DEF SortedBy
  <2> QED  BY <2>1, <2>2
<1> QED  BY <1>1, <1>2, <1>4, <1>5

\* r adds up what d has, one after the other.
AddsUp(r, d, N) == r[0] = 0 /\ \A i \in 1..N : r[i] = r[i - 1] + d[i]

LEMMA SumAlong ==
    ASSUME NEW N \in Nat, NEW d, Ints(d, 1..N), NEW r, AddsUp(r, d, N)
    PROVE  \A k \in 0..N : r[k] = Sum(d, 1..k) /\ r[k] \in Int
<1> DEFINE Right == {k \in Nat : k <= N => r[k] = Sum(d, 1..k) /\ r[k] \in Int}
<1>1. 0 \in Right
  <2>1. 1..0 = {}
    OBVIOUS
  <2> QED  BY <2>1, SumEmpty DEF AddsUp
<1>2. ASSUME NEW k \in Right PROVE k + 1 \in Right
  <2> SUFFICES ASSUME k + 1 <= N PROVE r[k + 1] = Sum(d, 1..(k + 1)) /\ r[k + 1] \in Int
    OBVIOUS
  <2>1. k \in Nat /\ k <= N /\ r[k] = Sum(d, 1..k) /\ r[k] \in Int
    OBVIOUS
  <2>2. /\ 1..k \in SUBSET (1..N) /\ k + 1 \in (1..N) \ (1..k)
        /\ 1..(k + 1) = (1..k) \cup {k + 1} /\ (k + 1) - 1 = k
    BY <2>1
  <2>3. IsFiniteSet(1..N)
    BY FS_Interval
  <2>4. Sum(d, (1..k) \cup {k + 1}) = d[k + 1] + Sum(d, 1..k) /\ d[k + 1] \in Int
    <3> DEFINE A == 1..k
               B == 1..N
               x == k + 1
    <3>1. IsFiniteSet(B) /\ A \in SUBSET B /\ x \in B \ A /\ Ints(d, B)
      BY <2>2, <2>3
    <3> HIDE DEF A, B, x
    <3>2. Sum(d, A \cup {x}) = d[x] + Sum(d, A) /\ d[x] \in Int
      BY <3>1, SumAdd
    <3> QED  BY <3>2 DEF A, x
  <2>5. r[k + 1] = r[k] + d[k + 1]
    BY <2>2 DEF AddsUp
  <2>6. d[k + 1] + Sum(d, 1..k) = Sum(d, 1..(k + 1))
    BY <2>2, <2>4
  <2> HIDE DEF Right
  <2> QED  BY <2>1, <2>4, <2>5, <2>6
<1>3. Right = Nat
  <2>1. Right \in SUBSET Nat
    OBVIOUS
  <2> HIDE DEF Right
  <2> QED  BY <1>1, <1>2, <2>1, SetInduction
<1> SUFFICES ASSUME NEW k \in 0..N PROVE r[k] = Sum(d, 1..k) /\ r[k] \in Int
  OBVIOUS
<1>4. k \in Nat /\ k <= N
  OBVIOUS
<1>5. k \in Right
  <2> HIDE DEF Right
  <2> QED  BY <1>3, <1>4
<1> QED  BY <1>4, <1>5

-----------------------------------------------------------------------------
(* The nine.                                                                *)

LEMMA NineHoles ==
    /\ Nine \in Nat \ {0} /\ IsFiniteSet(Numbers) /\ Cardinality(Numbers) = Nine
    /\ \A n \in Numbers : n \in Nat \ {0} /\ HoleAt[n] \in Holes /\ Number[HoleAt[n]] = n
    /\ \A h \in Holes : Number[h] \in Numbers /\ HoleAt[Number[h]] = h
<1>1. IsFiniteSet(Holes) /\ Holes # {} /\ Holes \in SUBSET Nat /\ Number \in [Holes -> Nat \ {0}]
  BY ResultsAssumption
<1>2. Nine \in Nat \ {0}
  BY <1>1, FS_CardinalityType, FS_EmptySet DEF Nine
<1>3. ASSUME NEW h \in Holes, NEW k \in Holes, h # k PROVE Number[h] # Number[k]
  <2>1. h < k \/ k < h
    BY <1>1, <1>3
  <2>2. h < k => Number[h] < Number[k]
    BY ResultsAssumption
  <2>3. k < h => Number[k] < Number[h]
    BY ResultsAssumption
  <2>4. Number[h] \in Nat /\ Number[k] \in Nat
    BY <1>1
  <2> QED  BY <2>1, <2>2, <2>3, <2>4
<1>4. Number \in [Holes -> Numbers] /\ \A n \in Numbers : \E h \in Holes : Number[h] = n
  BY <1>1 DEF Numbers
<1>5. IsFiniteSet(Numbers) /\ Cardinality(Numbers) = Nine
  <2>1. Number \in Surjection(Holes, Numbers)
    BY <1>4 DEF Surjection
  <2>2. Number \in Injection(Holes, Numbers)
    BY <1>3, <1>4 DEF Injection, IsInjective
  <2> QED  BY <1>1, <2>1, <2>2, FS_Surjection DEF Nine
<1>6. \A n \in Numbers : n \in Nat \ {0} /\ HoleAt[n] \in Holes /\ Number[HoleAt[n]] = n
  BY <1>1, <1>4 DEF HoleAt, Numbers
<1>7. \A h \in Holes : Number[h] \in Numbers /\ HoleAt[Number[h]] = h
  BY <1>3, <1>4, <1>6
<1> QED  BY <1>2, <1>5, <1>6, <1>7

\* Each stroke index belongs to one hole.
LEMMA EachIndexOnce ==
    /\ \A n \in Numbers : IndexAt(n) \in 1..Nine
    /\ \A x \in 1..Nine : \E n \in Numbers : IndexAt(n) = x
    /\ \A n, k \in Numbers : IndexAt(n) = IndexAt(k) => n = k
<1>1. {Index[h] : h \in Holes} = 1..Nine
  BY ResultsAssumption
<1>2. \A n \in Numbers : IndexAt(n) \in 1..Nine
  BY <1>1, NineHoles DEF IndexAt
<1>3. \A x \in 1..Nine : \E n \in Numbers : IndexAt(n) = x
  <2> SUFFICES ASSUME NEW x \in 1..Nine PROVE \E n \in Numbers : IndexAt(n) = x
    OBVIOUS
  <2>1. PICK h \in Holes : Index[h] = x
    BY <1>1
  <2> QED  BY <2>1, NineHoles DEF IndexAt
<1> DEFINE s == [n \in Numbers |-> IndexAt(n)]
           T == 1..Nine
<1>4. s \in [Numbers -> T] /\ \A x \in T : \E n \in Numbers : s[n] = x
  BY <1>2, <1>3
<1>5. IsFiniteSet(Numbers) /\ Cardinality(Numbers) = Cardinality(T)
  <2>1. Nine \in Nat /\ IsFiniteSet(Numbers) /\ Cardinality(Numbers) = Nine
    BY NineHoles
  <2>2. Cardinality(1..Nine) = Nine
    BY <2>1, FS_Interval
  <2> QED  BY <2>1, <2>2
<1>6. \A n, k \in Numbers : s[n] = s[k] => n = k
  <2> HIDE DEF s, T
  <2> QED  BY <1>4, <1>5, OntoIsOneToOne
<1> QED  BY <1>2, <1>3, <1>6

LEMMA HolesInOrder ==
    /\ InOrder \in [1..Nine -> Numbers]
    /\ \A i, j \in 1..Nine : InOrder[i] = InOrder[j] => i = j
    /\ \A n \in Numbers : \E i \in 1..Nine : InOrder[i] = n
<1> DEFINE key == [n \in Numbers |-> n]
<1>1. Ints(key, Numbers) /\ IsFiniteSet(Numbers) /\ Cardinality(Numbers) = Nine
  BY NineHoles DEF Ints
<1>2. InOrder = Sorted(Numbers, key)
  BY DEF InOrder
<1> HIDE DEF key
<1>3. SortedBy(InOrder, Numbers, key)
  BY <1>1, <1>2, SortedExists
<1> QED  BY <1>1, <1>3, SortedPlaces

\* The strokes of a handicap, by the formula and by the rule.
LEMMA StrokesByRule ==
    ASSUME NEW r \in Nat, NEW n \in Numbers
    PROVE  StrokesForRelative(r)[n] = GivenByRule(r, n) /\ GivenByRule(r, n) \in Int
<1>1. Nine \in Nat \ {0} /\ IndexAt(n) \in 1..Nine
  BY NineHoles, EachIndexOnce
<1>2. StrokesForRelative(r)[n] = Dealt(Nine, r, IndexAt(n))
  BY DEF StrokesForRelative, Dealt
<1>3. GivenByRule(r, n) = Dealt(Nine, r, IndexAt(n))
  BY <1>1, DealtOneByOne DEF GivenByRule
<1>4. Dealt(Nine, r, IndexAt(n)) \in Int
  BY <1>1, DealtOneMore
<1> QED  BY <1>2, <1>3, <1>4

LEMMA NoStrokes ==
    ASSUME NEW r \in Int, r <= 0, NEW n \in Numbers
    PROVE  GivenByRule(r, n) = 0
<1>1. 1..r = {}
  OBVIOUS
<1>2. {k \in 1..r : ((k - 1) % Nine) + 1 = IndexAt(n)} = {}
  BY <1>1
<1> QED  BY <1>2, FS_EmptySet DEF GivenByRule

\* All strokes of a handicap are given.
LEMMA AllStrokesGiven ==
    ASSUME NEW r \in Nat
    PROVE  Sum([n \in Numbers |-> GivenByRule(r, n)], Numbers) = r
<1> DEFINE G(k) == [n \in Numbers |-> Dealt(Nine, k, IndexAt(n))]
           Right == {k \in Nat : Sum(G(k), Numbers) = k}
<1>0. IsFiniteSet(Numbers) /\ Nine \in Nat \ {0} /\ \A n \in Numbers : IndexAt(n) \in 1..Nine
  BY NineHoles, EachIndexOnce
<1>1. 0 \in Right
  <2>1. ASSUME NEW n \in Numbers PROVE G(0)[n] = 0
    <3>1. 0 = (Nine * 0) + 0 /\ 0 \in 0..(Nine - 1) /\ 0 \in Nat
      BY <1>0
    <3>2. 0 \div Nine = 0 /\ (0 % Nine) = 0
      BY <1>0, <3>1, Quotient
    <3> QED  BY <1>0, <3>2 DEF Dealt
  <2> DEFINE g == G(0)
  <2>2. \A n \in Numbers : g[n] = 0
    BY <2>1
  <2> HIDE DEF g
  <2>3. Sum(g, Numbers) = 0 * Cardinality(Numbers)
    BY <1>0, <2>2, SumConstant
  <2>4. Cardinality(Numbers) \in Nat
    BY <1>0, FS_CardinalityType
  <2> QED  BY <2>3, <2>4 DEF g
<1>2. ASSUME NEW k \in Right PROVE k + 1 \in Right
  <2>1. k \in Nat /\ Sum(G(k), Numbers) = k
    OBVIOUS
  <2>2. PICK q \in Nat, m \in 0..(Nine - 1) : (k % Nine) = m
    BY <1>0, <2>1, Divided
  <2>3. PICK z \in Numbers : IndexAt(z) = m + 1
    BY <1>0, <2>2, EachIndexOnce
  <2> DEFINE f == G(k)
             h == G(k + 1)
             d == [n \in Numbers |-> IF n \in {z} THEN 1 ELSE 0]
  <2>4. \A n \in Numbers : f[n] \in Int /\ d[n] \in Int /\ h[n] = f[n] + d[n]
    <3> SUFFICES ASSUME NEW n \in Numbers PROVE f[n] \in Int /\ d[n] \in Int /\ h[n] = f[n] + d[n]
      OBVIOUS
    <3>1. IndexAt(n) \in 1..Nine
      BY <1>0
    <3>2. /\ Dealt(Nine, k, IndexAt(n)) \in Int
          /\ Dealt(Nine, k + 1, IndexAt(n))
               = Dealt(Nine, k, IndexAt(n)) + IF IndexAt(n) = (k % Nine) + 1 THEN 1 ELSE 0
      BY <1>0, <2>1, <3>1, DealtOneMore
    <3>3. IndexAt(n) = (k % Nine) + 1 <=> n \in {z}
      BY <2>2, <2>3, EachIndexOnce
    <3> QED  BY <3>2, <3>3
  <2>5. \A n \in Numbers : d[n] = IF n \in {z} THEN 1 ELSE 0
    OBVIOUS
  <2>6. Sum(f, Numbers) = k
    BY <2>1
  <2> HIDE DEF f, h, d
  <2>7. Sum(d, Numbers) = 1
    <3>1. Sum(d, Numbers) = Cardinality({z})
      BY <1>0, <2>5, SumOfPart
    <3> QED  BY <3>1, FS_Singleton
  <2>8. Sum(h, Numbers) = Sum(f, Numbers) + Sum(d, Numbers)
    <3>1. Ints(f, Numbers) /\ Ints(d, Numbers)
      BY <2>4 DEF Ints
    <3> QED  BY <1>0, <2>4, <3>1, SumPlus
  <2>9. Sum(h, Numbers) = k + 1
    BY <2>1, <2>6, <2>7, <2>8
  <2> QED  BY <2>1, <2>9 DEF h
<1>3. r \in Right
  <2>1. Right \in SUBSET Nat
    OBVIOUS
  <2> HIDE DEF Right
  <2>2. Right = Nat
    BY <1>1, <1>2, <2>1, SetInduction
  <2> QED  BY <2>2
<1>4. \A n \in Numbers : GivenByRule(r, n) = Dealt(Nine, r, IndexAt(n))
  BY <1>0, DealtOneByOne DEF GivenByRule
<1>5. [n \in Numbers |-> GivenByRule(r, n)] = G(r)
  BY <1>4
<1> QED  BY <1>3, <1>5

-----------------------------------------------------------------------------
(* What is saved.                                                           *)

Kept == {Blank} \cup UNION {Cards[m] : m \in Matches}

Shaped ==
    /\ book \in [Matches -> [Golfers -> Kept]]
    /\ snapshot \in [Weeks -> [Golfers -> Int \cup {NoHandicap}]]

Inv == Shaped /\ TypeOK

LEMMA InvInit == Init => Inv
<1> SUFFICES ASSUME Init PROVE Inv
  OBVIOUS
<1>1. Blank \in Kept
  BY DEF Kept
<1>2. book \in [Matches -> [Golfers -> Kept]]
  BY <1>1 DEF Init
<1>3. snapshot \in [Weeks -> [Golfers -> Int \cup {NoHandicap}]]
  BY ResultsAssumption DEF Init
<1>4. \A m \in Matches : book[m] \in [Golfers -> Cards[m] \cup {Blank}]
  BY DEF Init
<1>5. \A m \in Matches : \A g \in Golfers \ SidesOf(m) : book[m][g] = Blank
  BY DEF Init
<1> QED  BY <1>2, <1>3, <1>4, <1>5 DEF Inv, Shaped, TypeOK, Init

LEMMA InvNext == Inv /\ [Next]_vars => Inv'
<1> SUFFICES ASSUME Inv, [Next]_vars PROVE Inv'
  OBVIOUS
<1>0. Shaped /\ TypeOK
  BY DEF Inv
<1>1. ASSUME NEW m \in Matches, NEW g \in Golfers, NEW card \in Cards[m], SaveCard(m, g, card)
      PROVE  Inv'
  <2>1. card \in Kept /\ g \in SidesOf(m) /\ book' = [book EXCEPT ![m][g] = card]
    BY <1>1 DEF SaveCard, Kept
  <2>2. book' \in [Matches -> [Golfers -> Kept]]
    BY <1>0, <2>1 DEF Shaped
  <2>3. ASSUME NEW k \in Matches PROVE book'[k] \in [Golfers -> Cards[k] \cup {Blank}]
    BY <1>0, <2>1 DEF Shaped, TypeOK
  <2>4. ASSUME NEW k \in Matches, NEW o \in Golfers \ SidesOf(k) PROVE book'[k][o] = Blank
    BY <1>0, <2>1 DEF Shaped, TypeOK
  <2>5. snapshot' = snapshot /\ scoring' = scoring
    BY <1>1 DEF SaveCard
  <2>6. Shaped'
    BY <1>0, <2>2, <2>5 DEF Shaped
  <2>7. TypeOK'
    BY <1>0, <2>3, <2>4, <2>5 DEF TypeOK, SidesOf
  <2> QED  BY <2>6, <2>7 DEF Inv
<1>2. ASSUME NEW m \in Matches, ClearScores(m) PROVE Inv'
  <2>1. Blank \in Kept /\ book' = [book EXCEPT ![m] = [g \in Golfers |-> Blank]]
    BY <1>2 DEF ClearScores, Kept
  <2>2. book' \in [Matches -> [Golfers -> Kept]]
    BY <1>0, <2>1 DEF Shaped
  <2>3. ASSUME NEW k \in Matches PROVE book'[k] \in [Golfers -> Cards[k] \cup {Blank}]
    BY <1>0, <2>1 DEF Shaped, TypeOK
  <2>4. ASSUME NEW k \in Matches, NEW o \in Golfers \ SidesOf(k) PROVE book'[k][o] = Blank
    BY <1>0, <2>1 DEF Shaped, TypeOK
  <2>5. snapshot' = snapshot /\ scoring' = scoring
    BY <1>2 DEF ClearScores
  <2>6. Shaped'
    BY <1>0, <2>2, <2>5 DEF Shaped
  <2>7. TypeOK'
    BY <1>0, <2>3, <2>4, <2>5 DEF TypeOK, SidesOf
  <2> QED  BY <2>6, <2>7 DEF Inv
<1>3. ASSUME NEW w \in Weeks, NEW g \in Golfers, NEW strokes \in Reseeds[w][g], Reseed(w, g, strokes)
      PROVE  Inv'
  <2>1. strokes \in Int
    BY ResultsAssumption
  <2>2. snapshot' = [snapshot EXCEPT ![w][g] = strokes] /\ book' = book /\ scoring' = scoring
    BY <1>3 DEF Reseed
  <2>3. snapshot' \in [Weeks -> [Golfers -> Int \cup {NoHandicap}]]
    BY <1>0, <2>1, <2>2 DEF Shaped
  <2>4. Shaped'
    BY <1>0, <2>2, <2>3 DEF Shaped
  <2>5. \A k \in Weeks, o \in Golfers : snapshot'[k][o] = NoHandicap \/ snapshot'[k][o] \in Int
    BY <2>3
  <2>6. TypeOK'
    BY <1>0, <2>2, <2>5 DEF TypeOK, SidesOf
  <2> QED  BY <2>4, <2>6 DEF Inv
<1>4. ASSUME NEW type \in ScoringTypes, ChangeScoring(type) PROVE Inv'
  <2>1. book' = book /\ snapshot' = snapshot /\ scoring' \in ScoringTypes
    BY <1>4 DEF ChangeScoring
  <2> QED  BY <1>0, <2>1 DEF Inv, Shaped, TypeOK, SidesOf
<1>5. CASE UNCHANGED vars
  BY <1>0, <1>5 DEF vars, Inv, Shaped, TypeOK, SidesOf
<1> QED  BY <1>1, <1>2, <1>3, <1>4, <1>5 DEF Next

LEMMA InvAlways == Spec => []Inv
<1>1. Init => Inv
  BY InvInit
<1>2. Inv /\ [Next]_vars => Inv'
  BY InvNext
<1> QED  BY <1>1, <1>2, PTL DEF Spec

\* Whatever is saved, cleared and seeded anew, a match keeps whole cards of its two
\* sides (score_result_match, week_handicaps).
THEOREM TypesAlwaysHold == Spec => []TypeOK
<1>1. Inv => TypeOK
  BY DEF Inv
<1> QED  BY <1>1, InvAlways, PTL

-----------------------------------------------------------------------------
(* Rounds.                                                                  *)

LEMMA SidesFacts ==
    ASSUME NEW m \in Matches
    PROVE  /\ Sides[m].a \in Golfers /\ Sides[m].b \in Golfers /\ Sides[m].a # Sides[m].b
           /\ SidesOf(m) = {Sides[m].a, Sides[m].b}
           /\ Pairing[m].week \in Weeks
           /\ \A g \in SidesOf(m) : /\ Other(m, g) \in SidesOf(m) /\ Other(m, g) # g
                                    /\ g \in Golfers /\ SidesOf(m) = {g, Other(m, g)}
                                    /\ Other(m, Other(m, g)) = g
BY ResultsAssumption DEF SidesOf, Weeks, Other

\* A saved card has strokes for each hole.
LEMMA CardFacts ==
    ASSUME Inv, NEW m \in Matches, NEW g \in Golfers, HasCard(m, g)
    PROVE  /\ book[m][g] \in [Holes -> 1..15]
           /\ g \in SidesOf(m)
           /\ CardOf(m, g) \in [Numbers -> Int]
<1>1. Holes # {} /\ Cards[m] \subseteq [Holes -> 1..15]
  BY ResultsAssumption
<1>2. DOMAIN Blank = {}
  BY DEF Blank
<1>3. book[m][g] # Blank
  BY <1>1, <1>2 DEF HasCard
<1>4. book[m][g] \in [Holes -> 1..15]
  BY <1>1, <1>3 DEF Inv, TypeOK
<1>5. g \in SidesOf(m)
  BY <1>3 DEF Inv, TypeOK
<1>6. CardOf(m, g) \in [Numbers -> Int]
  BY <1>4, NineHoles DEF CardOf
<1> QED  BY <1>4, <1>5, <1>6

LEMMA HandicapFacts ==
    ASSUME Inv, NEW m \in Matches, NEW g \in Golfers, HandicapOf(m, g) # NoHandicap
    PROVE  HandicapOf(m, g) \in Int
BY SidesFacts DEF Inv, TypeOK, HandicapOf

LEMMA SmallerOfTwo ==
    ASSUME NEW a \in Int, NEW b \in Int
    PROVE  /\ Min({a, b}) = (IF a <= b THEN a ELSE b)
           /\ Max({a, b}) = (IF a <= b THEN b ELSE a)
<1> DEFINE lo == IF a <= b THEN a ELSE b
           hi == IF a <= b THEN b ELSE a
<1>1. lo \in {a, b} /\ hi \in {a, b} /\ \A y \in {a, b} : lo <= y /\ hi >= y
  OBVIOUS
<1>2. \A x \in {a, b} : (\A y \in {a, b} : x <= y) => x = lo
  OBVIOUS
<1>3. \A x \in {a, b} : (\A y \in {a, b} : x >= y) => x = hi
  OBVIOUS
<1> HIDE DEF lo, hi
<1>4. Min({a, b}) = lo
  BY <1>1, <1>2 DEF Min
<1>5. Max({a, b}) = hi
  BY <1>1, <1>3 DEF Max
<1> QED  BY <1>4, <1>5 DEF lo, hi

NetAt(m, x, n) == CardOf(m, x)[n] - StrokesForRelative(HandicapOf(m, x) - Lower(m))[n]
NetTotalOf(m, x) == Total(CardOf(m, x)) - HandicapOf(m, x)

HolePoints(m, g) == [n \in Numbers |-> TwoForLower(NetAt(m, g, n), NetAt(m, Other(m, g), n))]

LEMMA RoundParts ==
    ASSUME NEW m, NEW g
    PROVE  /\ \A n \in Numbers : Round(m, g).net[n] = NetAt(m, g, n)
           /\ Round(m, g).total = NetTotalOf(m, g)
           /\ Round(m, g).points =
                  IF scoring = "match_play"
                  THEN Total(HolePoints(m, g))
                       + IF NetTotalOf(m, g) <= NetTotalOf(m, Other(m, g)) THEN 2 ELSE 0
                  ELSE Max({0, NetTotalOf(m, Other(m, g)) - NetTotalOf(m, g)})
<1>1. Round(m, g).net = [n \in Numbers |-> NetAt(m, g, n)]
  BY DEF Round, NetAt
<1>2. Round(m, g).total = NetTotalOf(m, g)
  BY DEF Round, NetTotalOf
<1>3. Round(m, g).points =
          IF scoring = "match_play"
          THEN Total(HolePoints(m, g))
               + IF NetTotalOf(m, g) <= NetTotalOf(m, Other(m, g)) THEN 2 ELSE 0
          ELSE Max({0, NetTotalOf(m, Other(m, g)) - NetTotalOf(m, g)})
  BY DEF Round, NetTotalOf, NetAt, HolePoints
<1>4. \A n \in Numbers : Round(m, g).net[n] = NetAt(m, g, n)
  BY <1>1
<1> QED  BY <1>2, <1>3, <1>4

LEMMA DecidedFacts ==
    ASSUME Inv, NEW m \in Matches, ~Pending(m), NEW g \in SidesOf(m)
    PROVE  /\ HasCard(m, g) /\ CardOf(m, g) \in [Numbers -> Int]
           /\ HandicapOf(m, g) \in Int
           /\ Total(CardOf(m, g)) \in Int /\ NetTotalOf(m, g) \in Int
<1>1. HasCard(m, g) /\ HandicapOf(m, g) # NoHandicap /\ g \in Golfers
  BY SidesFacts DEF Pending
<1>2. CardOf(m, g) \in [Numbers -> Int] /\ HandicapOf(m, g) \in Int
  BY <1>1, CardFacts, HandicapFacts
<1>3. Total(CardOf(m, g)) \in Int
  <2> DEFINE f == CardOf(m, g)
  <2>1. Ints(f, Numbers) /\ IsFiniteSet(Numbers)
    BY <1>2, NineHoles DEF Ints
  <2> HIDE DEF f
  <2>2. Sum(f, Numbers) \in Int
    BY <2>1, SumType
  <2> QED  BY <2>2 DEF f, Total, Sum
<1> QED  BY <1>1, <1>2, <1>3 DEF NetTotalOf

\* Strokes over the lower handicap are the strokes over the other one, if there are any.
LEMMA NetByRule ==
    ASSUME Inv, NEW m \in Matches, ~Pending(m), NEW g \in SidesOf(m), NEW n \in Numbers
    PROVE  NetAt(m, g, n) = RuleNet(m, g, n) /\ NetAt(m, g, n) \in Int
<1> DEFINE o == Other(m, g)
           mine == HandicapOf(m, g)
           theirs == HandicapOf(m, o)
<1>1. o \in SidesOf(m) /\ SidesOf(m) = {g, o}
  BY SidesFacts
<1>2. mine \in Int /\ theirs \in Int /\ CardOf(m, g)[n] \in Int
  BY <1>1, DecidedFacts
<1>3. Lower(m) = IF mine <= theirs THEN mine ELSE theirs
  <2>1. {HandicapOf(m, x) : x \in SidesOf(m)} = {mine, theirs}
    BY <1>1
  <2> HIDE DEF mine, theirs
  <2> QED  BY <1>2, <2>1, SmallerOfTwo DEF Lower
<1> HIDE DEF mine, theirs, o
<1>4. CASE mine <= theirs
  <2>1. mine - Lower(m) = 0
    BY <1>2, <1>3, <1>4
  <2>2. mine - theirs \in Int /\ mine - theirs <= 0 /\ 0 \in Nat /\ 0 \in Int
    BY <1>2, <1>4
  <2>3. StrokesForRelative(0)[n] = 0
    BY <2>2, StrokesByRule, NoStrokes
  <2>4. GivenByRule(mine - theirs, n) = 0
    BY <2>2, NoStrokes
  <2>5. NetAt(m, g, n) = CardOf(m, g)[n] - 0
    BY <2>1, <2>3 DEF NetAt, mine
  <2>6. RuleNet(m, g, n) = CardOf(m, g)[n] - 0
    BY <2>4 DEF RuleNet, mine, theirs, o
  <2> QED  BY <1>2, <2>5, <2>6
<1>5. CASE mine > theirs
  <2>1. mine - Lower(m) = mine - theirs /\ mine - theirs \in Nat
    BY <1>2, <1>3, <1>5
  <2>2. StrokesForRelative(mine - theirs)[n] = GivenByRule(mine - theirs, n) /\ GivenByRule(mine - theirs, n) \in Int
    BY <2>1, StrokesByRule
  <2>3. NetAt(m, g, n) = CardOf(m, g)[n] - GivenByRule(mine - theirs, n)
    BY <2>1, <2>2 DEF NetAt, mine
  <2>4. RuleNet(m, g, n) = CardOf(m, g)[n] - GivenByRule(mine - theirs, n)
    BY DEF RuleNet, mine, theirs, o
  <2> QED  BY <1>2, <2>2, <2>3, <2>4
<1> QED  BY <1>2, <1>4, <1>5

LEMMA PointsByRule ==
    ASSUME Inv, NEW m \in Matches, ~Pending(m), NEW g \in SidesOf(m)
    PROVE  LET won == {n \in Numbers : RuleNet(m, g, n) < RuleNet(m, Other(m, g), n)}
               tied == {n \in Numbers : RuleNet(m, g, n) = RuleNet(m, Other(m, g), n)}
           IN  Total(HolePoints(m, g)) = 2 * Cardinality(won) + Cardinality(tied)
<1> DEFINE o == Other(m, g)
           won == {n \in Numbers : RuleNet(m, g, n) < RuleNet(m, o, n)}
           tied == {n \in Numbers : RuleNet(m, g, n) = RuleNet(m, o, n)}
           f == HolePoints(m, g)
<1>1. o \in SidesOf(m)
  BY SidesFacts
<1> HIDE DEF o
<1>2. ASSUME NEW n \in Numbers
      PROVE  f[n] = IF n \in won THEN 2 ELSE IF n \in tied THEN 1 ELSE 0
  BY <1>1, NetByRule DEF TwoForLower, HolePoints, o
<1>3. won \cap tied = {}
  <2>1. \A n \in Numbers : RuleNet(m, g, n) \in Int /\ RuleNet(m, o, n) \in Int
    BY <1>1, NetByRule
  <2> QED  BY <2>1
<1>4. won \in SUBSET Numbers /\ tied \in SUBSET Numbers /\ IsFiniteSet(Numbers)
  BY NineHoles
<1> HIDE DEF won, tied, f
<1>5. Sum(f, Numbers) = 2 * Cardinality(won) + Cardinality(tied)
  BY <1>2, <1>3, <1>4, SumTwoOne
<1> QED  BY <1>5 DEF Sum, Total, won, tied, f, o

LEMMA RoundsAreByRule ==
    ASSUME Inv, NEW m \in Matches, ~Pending(m)
    PROVE  RoundByRule(m)
<1> SUFFICES ASSUME NEW g \in SidesOf(m)
    PROVE  LET won == {n \in Numbers : RuleNet(m, g, n) < RuleNet(m, Other(m, g), n)}
               tied == {n \in Numbers : RuleNet(m, g, n) = RuleNet(m, Other(m, g), n)}
               mine == Round(m, g)
               lead == Round(m, Other(m, g)).total - mine.total
           IN  /\ \A n \in Numbers : mine.net[n] = RuleNet(m, g, n)
               /\ mine.points =
                      IF scoring = "stroke_play" THEN IF lead > 0 THEN lead ELSE 0
                      ELSE 2 * Cardinality(won) + Cardinality(tied) + IF lead >= 0 THEN 2 ELSE 0
  BY DEF RoundByRule
<1> DEFINE o == Other(m, g)
           won == {n \in Numbers : RuleNet(m, g, n) < RuleNet(m, o, n)}
           tied == {n \in Numbers : RuleNet(m, g, n) = RuleNet(m, o, n)}
           lead == Round(m, o).total - Round(m, g).total
<1>1. o \in SidesOf(m)
  BY SidesFacts
<1>2. \A n \in Numbers : Round(m, g).net[n] = RuleNet(m, g, n)
  <2> SUFFICES ASSUME NEW n \in Numbers PROVE Round(m, g).net[n] = RuleNet(m, g, n)
    OBVIOUS
  <2>1. Round(m, g).net[n] = NetAt(m, g, n)
    BY RoundParts
  <2>2. NetAt(m, g, n) = RuleNet(m, g, n)
    BY NetByRule
  <2> QED  BY <2>1, <2>2
<1>3. lead = NetTotalOf(m, o) - NetTotalOf(m, g)
  BY RoundParts
<1>4. NetTotalOf(m, o) \in Int /\ NetTotalOf(m, g) \in Int
  BY <1>1, DecidedFacts
<1>5. CASE scoring = "stroke_play"
  <2>1. Round(m, g).points = Max({0, NetTotalOf(m, o) - NetTotalOf(m, g)})
    BY <1>5, RoundParts
  <2>2. Max({0, lead}) = IF 0 <= lead THEN lead ELSE 0
    <3>1. lead \in Int
      BY <1>3, <1>4
    <3> HIDE DEF lead
    <3> QED  BY <3>1, SmallerOfTwo
  <2>3. Round(m, g).points = IF lead > 0 THEN lead ELSE 0
    BY <1>3, <1>4, <2>1, <2>2
  <2> QED  BY <1>2, <1>5, <2>3
<1>6. CASE scoring = "match_play"
  <2>1. Round(m, g).points = Total(HolePoints(m, g))
                             + IF NetTotalOf(m, g) <= NetTotalOf(m, o) THEN 2 ELSE 0
    BY <1>6, RoundParts
  <2>2. Round(m, g).points = 2 * Cardinality(won) + Cardinality(tied)
                             + IF NetTotalOf(m, g) <= NetTotalOf(m, o) THEN 2 ELSE 0
    BY <2>1, PointsByRule
  <2>3. NetTotalOf(m, g) <= NetTotalOf(m, o) <=> lead >= 0
    BY <1>3, <1>4
  <2>4. Round(m, g).points = 2 * Cardinality(won) + Cardinality(tied) + IF lead >= 0 THEN 2 ELSE 0
    <3> HIDE DEF won, tied, lead
    <3> QED  BY <2>2, <2>3
  <2> QED  BY <1>2, <1>6, <2>4
<1>7. scoring \in {"match_play", "stroke_play"}
  BY DEF Inv, TypeOK, ScoringTypes
<1> QED  BY <1>5, <1>6, <1>7

\* The running lead is a sum of nets.
LEMMA LeadRuns ==
    ASSUME Inv, NEW m \in Matches, ~Pending(m)
    PROVE  AddsUp(Lead(m), [i \in 1..Nine |-> NetAt(m, Sides[m].b, InOrder[i])
                                              - NetAt(m, Sides[m].a, InOrder[i])], Nine)
<1> DEFINE a == Sides[m].a
           b == Sides[m].b
           d == [i \in 1..Nine |-> NetAt(m, b, InOrder[i]) - NetAt(m, a, InOrder[i])]
           step == [i \in 1..Nine |-> [x \in Int |-> x + d[i]]]
           Fits(f) == f = [i \in 0..Nine |->
                              IF i = 0 THEN 0
                              ELSE f[i - 1] + Round(m, b).net[InOrder[i]]
                                            - Round(m, a).net[InOrder[i]]]
<1>1. a \in SidesOf(m) /\ b \in SidesOf(m)
  BY SidesFacts
<1>2. Nine \in Nat \ {0} /\ \A i \in 1..Nine : InOrder[i] \in Numbers
  BY NineHoles, HolesInOrder
<1>3. \A i \in 1..Nine :
          /\ Round(m, a).net[InOrder[i]] = NetAt(m, a, InOrder[i])
          /\ Round(m, b).net[InOrder[i]] = NetAt(m, b, InOrder[i])
          /\ NetAt(m, a, InOrder[i]) \in Int /\ NetAt(m, b, InOrder[i]) \in Int
  <2> SUFFICES ASSUME NEW i \in 1..Nine
      PROVE  /\ Round(m, a).net[InOrder[i]] = NetAt(m, a, InOrder[i])
             /\ Round(m, b).net[InOrder[i]] = NetAt(m, b, InOrder[i])
             /\ NetAt(m, a, InOrder[i]) \in Int /\ NetAt(m, b, InOrder[i]) \in Int
    OBVIOUS
  <2> HIDE DEF a, b
  <2>1. InOrder[i] \in Numbers
    BY <1>2
  <2>2. /\ Round(m, a).net[InOrder[i]] = NetAt(m, a, InOrder[i])
        /\ Round(m, b).net[InOrder[i]] = NetAt(m, b, InOrder[i])
    BY <2>1, RoundParts
  <2>3. NetAt(m, a, InOrder[i]) \in Int /\ NetAt(m, b, InOrder[i]) \in Int
    BY <1>1, <2>1, NetByRule
  <2> QED  BY <2>2, <2>3
<1> HIDE DEF a, b
<1>4. \A i \in 1..Nine : d[i] \in Int /\ d[i] = NetAt(m, b, InOrder[i]) - NetAt(m, a, InOrder[i])
  BY <1>3
<1> HIDE DEF d
<1>5. step \in [1..Nine -> [Int -> Int]] /\ \A i \in 1..Nine : \A x \in Int : step[i][x] = x + d[i]
  BY <1>4
<1> HIDE DEF step
<1>6. PICK f : Stepped(f, Int, 0, step, Nine)
  <2>1. Nine \in Nat /\ 0 \in Int /\ step \in [1..Nine -> [Int -> Int]]
    <3>1. Nine \in Nat
      BY NineHoles
    <3>2. step \in [1..Nine -> [Int -> Int]]
      BY <1>5
    <3> QED  BY <3>1, <3>2
  <2> QED  BY <2>1, Steps
<1>7. Fits(f)
  <2>1. f \in [0..Nine -> Int] /\ f[0] = 0
    BY <1>6 DEF Stepped
  <2>2. ASSUME NEW i \in 0..Nine, i # 0
        PROVE  f[i] = f[i - 1] + Round(m, b).net[InOrder[i]] - Round(m, a).net[InOrder[i]]
    <3>1. i \in 1..Nine /\ i - 1 \in 0..Nine
      BY <1>2, <2>2
    <3>2. f[i] = step[i][f[i - 1]] /\ f[i - 1] \in Int
      BY <1>6, <3>1 DEF Stepped
    <3>3. f[i] = f[i - 1] + d[i]
      BY <1>5, <3>1, <3>2
    <3> QED  BY <1>3, <1>4, <3>1, <3>2, <3>3
  <2> QED  BY <2>1, <2>2
<1>8. Lead(m) = CHOOSE g : Fits(g)
  BY DEF Lead, a, b
<1>9. Fits(Lead(m))
  <2> HIDE DEF Fits
  <2> QED  BY <1>7, <1>8
<1>10. Fits(Lead(m)) => Lead(m)[0] = 0
  BY <1>2
<1>11. ASSUME NEW i \in 1..Nine, NEW r, Fits(r), \A k \in 0..Nine : r[k] \in Int
       PROVE  r[i] = r[i - 1] + d[i]
  <2>1. i \in 0..Nine /\ i # 0 /\ i - 1 \in 0..Nine
    BY <1>2
  <2>2. r[i] = r[i - 1] + Round(m, b).net[InOrder[i]] - Round(m, a).net[InOrder[i]] /\ r[i - 1] \in Int
    BY <1>11, <2>1
  <2> QED  BY <1>3, <1>4, <2>2
<1>12. ASSUME NEW r, Fits(r) PROVE \A k \in 0..Nine : r[k] \in Int
  <2> DEFINE Typed == {k \in Nat : k <= Nine => r[k] \in Int}
  <2>1. 0 \in Typed
    BY <1>2, <1>12
  <2>2. ASSUME NEW k \in Typed PROVE k + 1 \in Typed
    <3> SUFFICES ASSUME k + 1 <= Nine PROVE r[k + 1] \in Int
      OBVIOUS
    <3>1. k + 1 \in 0..Nine /\ k + 1 \in 1..Nine /\ k + 1 # 0 /\ (k + 1) - 1 = k /\ r[k] \in Int
      BY <1>2
    <3>2. r[k + 1] = r[k] + Round(m, b).net[InOrder[k + 1]] - Round(m, a).net[InOrder[k + 1]]
      BY <1>12, <3>1
    <3> QED  BY <1>3, <3>1, <3>2
  <2>3. Typed = Nat
    <3>1. Typed \in SUBSET Nat
      OBVIOUS
    <3> HIDE DEF Typed
    <3> QED  BY <2>1, <2>2, <3>1, SetInduction
  <2> QED  BY <1>2, <2>3
<1>13. AddsUp(Lead(m), d, Nine)
  <2> HIDE DEF Fits
  <2> QED  BY <1>9, <1>10, <1>11, <1>12 DEF AddsUp
<1> QED  BY <1>13 DEF d, a, b

\* The nets of a side add up to its total, less all strokes that are given.
LEMMA NetsAddUp ==
    ASSUME Inv, NEW m \in Matches, ~Pending(m), NEW g \in SidesOf(m)
    PROVE  /\ Lower(m) \in Int
           /\ Sum([n \in Numbers |-> NetAt(m, g, n)], Numbers)
                = Total(CardOf(m, g)) - (HandicapOf(m, g) - Lower(m))
<1> DEFINE o == Other(m, g)
           mine == HandicapOf(m, g)
           r == mine - Lower(m)
           net == [n \in Numbers |-> NetAt(m, g, n)]
           given == [n \in Numbers |-> GivenByRule(r, n)]
           card == CardOf(m, g)
<1>1. /\ o \in SidesOf(m) /\ SidesOf(m) = {g, o}
      /\ mine \in Int /\ HandicapOf(m, o) \in Int /\ card \in [Numbers -> Int] /\ Total(card) \in Int
  BY SidesFacts, DecidedFacts
<1>2. Lower(m) \in Int /\ r \in Nat
  <2> DEFINE theirs == HandicapOf(m, o)
  <2>1. {HandicapOf(m, x) : x \in SidesOf(m)} = {mine, theirs}
    BY <1>1
  <2>2. mine \in Int /\ theirs \in Int
    BY <1>1
  <2> HIDE DEF mine, theirs
  <2>3. Lower(m) = IF mine <= theirs THEN mine ELSE theirs
    BY <2>1, <2>2, SmallerOfTwo DEF Lower
  <2> QED  BY <2>2, <2>3
<1> HIDE DEF r
<1>3. ASSUME NEW n \in Numbers
      PROVE  net[n] \in Int /\ given[n] \in Int /\ card[n] = net[n] + given[n]
  <2>1. net[n] \in Int
    BY NetByRule
  <2>2. StrokesForRelative(r)[n] = GivenByRule(r, n) /\ GivenByRule(r, n) \in Int
    BY <1>2, StrokesByRule
  <2>3. net[n] = card[n] - GivenByRule(r, n)
    BY <2>2 DEF NetAt, r
  <2>4. card[n] \in Int
    BY <1>1
  <2> HIDE DEF net, card
  <2> QED  BY <2>1, <2>2, <2>3, <2>4
<1>4. Sum(given, Numbers) = r
  BY <1>2, AllStrokesGiven
<1>5. Total(card) = Sum(card, Numbers)
  BY DEF Total, Sum
<1> HIDE DEF net, given, card, mine
<1>6. IsFiniteSet(Numbers) /\ Ints(net, Numbers) /\ Ints(given, Numbers)
  BY <1>3, NineHoles DEF Ints
<1>7. Sum(card, Numbers) = Sum(net, Numbers) + Sum(given, Numbers)
  BY <1>3, <1>6, SumPlus
<1>8. Sum(net, Numbers) \in Int
  BY <1>6, SumType
<1>9. Sum(net, Numbers) = Total(card) - r
  BY <1>2, <1>4, <1>5, <1>7, <1>8
<1> QED  BY <1>2, <1>9 DEF net, card, mine, r

LEMMA LeadEnds ==
    ASSUME Inv, NEW m \in Matches, ~Pending(m)
    PROVE  LeadEndsAtPoints(m)
<1> SUFFICES ASSUME scoring = "stroke_play"
    PROVE  Lead(m)[Nine] = Round(m, Sides[m].a).points - Round(m, Sides[m].b).points
  BY DEF LeadEndsAtPoints
<1> DEFINE a == Sides[m].a
           b == Sides[m].b
           d == [i \in 1..Nine |-> NetAt(m, b, InOrder[i]) - NetAt(m, a, InOrder[i])]
           e == [n \in Numbers |-> NetAt(m, b, n) - NetAt(m, a, n)]
           na == [n \in Numbers |-> NetAt(m, a, n)]
           nb == [n \in Numbers |-> NetAt(m, b, n)]
<1>1. a \in SidesOf(m) /\ b \in SidesOf(m) /\ Other(m, a) = b /\ Other(m, b) = a
  BY SidesFacts DEF Other
<1>2. AddsUp(Lead(m), d, Nine)
  BY LeadRuns
<1>3. Sum(na, Numbers) = Total(CardOf(m, a)) - (HandicapOf(m, a) - Lower(m))
  BY <1>1, NetsAddUp
<1>4. Sum(nb, Numbers) = Total(CardOf(m, b)) - (HandicapOf(m, b) - Lower(m))
  BY <1>1, NetsAddUp
<1>5. /\ Total(CardOf(m, a)) \in Int /\ HandicapOf(m, a) \in Int
      /\ Total(CardOf(m, b)) \in Int /\ HandicapOf(m, b) \in Int
      /\ NetTotalOf(m, a) \in Int /\ NetTotalOf(m, b) \in Int /\ Lower(m) \in Int
  BY <1>1, DecidedFacts, NetsAddUp
<1> HIDE DEF a, b
<1>6. \A n \in Numbers : /\ na[n] \in Int /\ nb[n] \in Int /\ e[n] \in Int
                         /\ nb[n] = e[n] + na[n]
  <2>1. \A n \in Numbers : NetAt(m, a, n) \in Int /\ NetAt(m, b, n) \in Int
    BY <1>1, NetByRule
  <2> QED  BY <2>1
<1>7. \A i \in 1..Nine : InOrder[i] \in Numbers /\ d[i] = e[InOrder[i]]
  BY HolesInOrder
<1> HIDE DEF d, e, na, nb
<1>8. IsFiniteSet(Numbers) /\ Ints(na, Numbers) /\ Ints(nb, Numbers) /\ Ints(e, Numbers) /\ Ints(d, 1..Nine)
  BY <1>6, <1>7, NineHoles DEF Ints
<1>9. Nine \in Nat /\ Nine \in 0..Nine /\ IsFiniteSet(1..Nine)
  <2>1. Nine \in Nat
    BY NineHoles
  <2> QED  BY <2>1, FS_Interval
<1>10. Lead(m)[Nine] = Sum(d, 1..Nine)
  BY <1>2, <1>8, <1>9, SumAlong
<1>11. Sum(d, 1..Nine) = Sum(e, Numbers)
  <2> DEFINE I == 1..Nine
  <2>1. IsFiniteSet(I) /\ Ints(d, I) /\ \A i \in I : InOrder[i] \in Numbers /\ d[i] = e[InOrder[i]]
    BY <1>7, <1>8, <1>9
  <2>2. /\ \A i, j \in I : InOrder[i] = InOrder[j] => i = j
        /\ \A n \in Numbers : \E i \in I : InOrder[i] = n
    BY HolesInOrder
  <2> HIDE DEF I
  <2>3. Sum(d, I) = Sum(e, Numbers)
    BY <1>8, <2>1, <2>2, SumMoved
  <2> QED  BY <2>3 DEF I
<1>12. Sum(nb, Numbers) = Sum(e, Numbers) + Sum(na, Numbers)
  BY <1>6, <1>8, SumPlus
<1>13. Sum(e, Numbers) \in Int
  BY <1>8, SumType
<1>14. Lead(m)[Nine] = NetTotalOf(m, b) - NetTotalOf(m, a)
  <2>1. /\ NetTotalOf(m, a) = Total(CardOf(m, a)) - HandicapOf(m, a)
        /\ NetTotalOf(m, b) = Total(CardOf(m, b)) - HandicapOf(m, b)
    BY DEF NetTotalOf
  <2>2. Sum(na, Numbers) \in Int /\ Sum(nb, Numbers) \in Int
    BY <1>8, SumType
  <2>3. Lead(m)[Nine] = Sum(nb, Numbers) - Sum(na, Numbers)
    BY <1>10, <1>11, <1>12, <1>13, <2>2
  <2>4. Sum(nb, Numbers) - Sum(na, Numbers) = NetTotalOf(m, b) - NetTotalOf(m, a)
    BY <1>3, <1>4, <1>5, <2>1
  <2> QED  BY <2>3, <2>4
<1>15. /\ Round(m, a).points = Max({0, NetTotalOf(m, b) - NetTotalOf(m, a)})
       /\ Round(m, b).points = Max({0, NetTotalOf(m, a) - NetTotalOf(m, b)})
  BY <1>1, RoundParts
<1>16. /\ Max({0, NetTotalOf(m, b) - NetTotalOf(m, a)})
             = (IF 0 <= NetTotalOf(m, b) - NetTotalOf(m, a) THEN NetTotalOf(m, b) - NetTotalOf(m, a) ELSE 0)
       /\ Max({0, NetTotalOf(m, a) - NetTotalOf(m, b)})
             = (IF 0 <= NetTotalOf(m, a) - NetTotalOf(m, b) THEN NetTotalOf(m, a) - NetTotalOf(m, b) ELSE 0)
  <2> DEFINE u == NetTotalOf(m, b) - NetTotalOf(m, a)
             v == NetTotalOf(m, a) - NetTotalOf(m, b)
  <2>1. 0 \in Int /\ u \in Int /\ v \in Int
    BY <1>5
  <2> HIDE DEF u, v
  <2>2. Max({0, u}) = (IF 0 <= u THEN u ELSE 0) /\ Max({0, v}) = (IF 0 <= v THEN v ELSE 0)
    BY <2>1, SmallerOfTwo
  <2> QED  BY <2>2 DEF u, v
<1>17. Lead(m)[Nine] = Round(m, a).points - Round(m, b).points
  BY <1>5, <1>14, <1>15, <1>16
<1> QED  BY <1>17 DEF a, b

\* Whatever was saved and reseeded, a match that is decided has the points of the
\* written rules, and the running lead ends at them (score_result_match).
THEOREM RoundsAlwaysByRule == Spec => []RoundsByRule
<1>1. Inv => RoundsByRule
  BY RoundsAreByRule, LeadEnds DEF RoundsByRule
<1> QED  BY <1>1, InvAlways, PTL

-----------------------------------------------------------------------------
(* Standings.                                                               *)

LEMMA ImageFinite ==
    ASSUME NEW S, IsFiniteSet(S), NEW p
    PROVE  IsFiniteSet({p[x] : x \in S})
<1> DEFINE T == {p[x] : x \in S}
           f == [x \in S |-> p[x]]
<1>1. f \in Surjection(S, T)
  BY DEF Surjection
<1> HIDE DEF f, T
<1>2. IsFiniteSet(T)
  BY <1>1, FS_Surjection
<1> QED  BY <1>2 DEF T

LEMMA PointsType ==
    ASSUME Inv, NEW m \in Matches, ~Pending(m), NEW g \in SidesOf(m)
    PROVE  Round(m, g).points \in Int
<1>1. Other(m, g) \in SidesOf(m)
  BY SidesFacts
<1>2. NetTotalOf(m, g) \in Int /\ NetTotalOf(m, Other(m, g)) \in Int
  BY <1>1, DecidedFacts
<1>3. CASE scoring = "match_play"
  <2>1. Total(HolePoints(m, g)) \in Int
    <3> DEFINE f == HolePoints(m, g)
    <3>1. Ints(f, Numbers)
      BY DEF HolePoints, TwoForLower, Ints
    <3> HIDE DEF f
    <3>2. Sum(f, Numbers) \in Int
      BY <3>1, NineHoles, SumType
    <3> QED  BY <3>2 DEF f, Sum, Total
  <2> QED  BY <1>3, <2>1, RoundParts
<1>4. CASE scoring # "match_play"
  <2> DEFINE u == NetTotalOf(m, Other(m, g)) - NetTotalOf(m, g)
  <2>1. 0 \in Int /\ u \in Int
    BY <1>2
  <2>2. Round(m, g).points = Max({0, u})
    BY <1>4, RoundParts
  <2> HIDE DEF u
  <2>3. Max({0, u}) = IF 0 <= u THEN u ELSE 0
    BY <2>1, SmallerOfTwo
  <2> QED  BY <2>1, <2>2, <2>3
<1> QED  BY <1>3, <1>4

\* Each decided match credits its two sides.
Scored == {m \in Matches : ~Pending(m)}
Credited == Credits(Scored)
Worth == [c \in Credited |-> Round(c[1], c[2]).points]
WeekOf == [c \in Credited |-> Pairing[c[1]].week]

LEMMA CreditFacts ==
    ASSUME Inv
    PROVE  /\ IsFiniteSet(Credited) /\ Ints(Worth, Credited) /\ IsFiniteSet(Weeks)
           /\ \A c \in Credited : /\ c[1] \in Matches /\ ~Pending(c[1]) /\ c[2] \in SidesOf(c[1])
                                  /\ c[2] \in Golfers /\ c = <<c[1], c[2]>> /\ WeekOf[c] \in Weeks
           /\ \A m \in Matches, g \in Golfers :
                  ~Pending(m) /\ g \in SidesOf(m) => <<m, g>> \in Credited
           /\ \A w \in Weeks : Credits(Decided(w)) = Fiber(WeekOf, Credited, w)
<1>1. \A c \in Credited : /\ c[1] \in Matches /\ ~Pending(c[1]) /\ c[2] \in SidesOf(c[1])
                          /\ c[2] \in Golfers /\ c = <<c[1], c[2]>>
  BY DEF Credited, Credits, Scored
<1>2. IsFiniteSet(Credited)
  <2>1. IsFiniteSet(Matches \X Golfers)
    BY ResultsAssumption, FS_Product
  <2>2. Credited \subseteq Matches \X Golfers
    BY DEF Credited, Credits, Scored
  <2> QED  BY <2>1, <2>2, FS_Subset
<1>3. \A c \in Credited : WeekOf[c] \in Weeks
  BY <1>1 DEF WeekOf, Weeks
<1>4. Ints(Worth, Credited)
  <2> SUFFICES ASSUME NEW c \in Credited PROVE Worth[c] \in Int
    BY DEF Ints
  <2>1. Round(c[1], c[2]).points \in Int
    BY <1>1, PointsType
  <2> QED  BY <2>1 DEF Worth
<1>5. IsFiniteSet(Weeks)
  <2> DEFINE p == [m \in Matches |-> Pairing[m].week]
  <2>1. Weeks = {p[m] : m \in Matches}
    BY DEF Weeks
  <2>2. IsFiniteSet(Matches)
    BY ResultsAssumption
  <2>3. IsFiniteSet({p[m] : m \in Matches})
    <3> HIDE DEF p
    <3> QED  BY <2>2, ImageFinite
  <2> QED  BY <2>1, <2>3
<1>6. \A m \in Matches, g \in Golfers : ~Pending(m) /\ g \in SidesOf(m) => <<m, g>> \in Credited
  BY DEF Credited, Credits, Scored
<1>7. ASSUME NEW w \in Weeks PROVE Credits(Decided(w)) = Fiber(WeekOf, Credited, w)
  <2>1. ASSUME NEW c \in Credits(Decided(w)) PROVE c \in Fiber(WeekOf, Credited, w)
    <3>1. c \in Credited /\ Pairing[c[1]].week = w
      BY <2>1 DEF Credits, Decided, MatchesOf, Credited, Scored
    <3> QED  BY <3>1 DEF Fiber, WeekOf
  <2>2. ASSUME NEW c \in Fiber(WeekOf, Credited, w) PROVE c \in Credits(Decided(w))
    <3>1. c \in Credited /\ Pairing[c[1]].week = w
      BY <2>2 DEF Fiber, WeekOf
    <3> QED  BY <3>1 DEF Credits, Decided, MatchesOf, Credited, Scored
  <2> QED  BY <2>1, <2>2
<1> QED  BY <1>1, <1>2, <1>3, <1>4, <1>5, <1>6, <1>7

\* The tables of the weeks give each credit to the one that own names.
ByOwner(table, own) ==
    \A w \in Weeks :
        /\ DOMAIN table[w] = {own[c] : c \in Fiber(WeekOf, Credited, w)}
        /\ \A x \in DOMAIN table[w] :
               table[w][x].points = Sum(Worth, Fiber(own, Fiber(WeekOf, Credited, w), x))

LEMMA SeasonOwners ==
    ASSUME Inv, NEW table, NEW own, ByOwner(table, own)
    PROVE  \A x : x \in DOMAIN Summed(table) <=> \E c \in Credited : own[c] = x
<1>1. DOMAIN Summed(table) = UNION {DOMAIN table[w] : w \in Weeks}
  BY DEF Summed
<1>2. ASSUME NEW c \in Credited PROVE own[c] \in UNION {DOMAIN table[w] : w \in Weeks}
  <2>1. WeekOf[c] \in Weeks /\ c \in Fiber(WeekOf, Credited, WeekOf[c])
    BY CreditFacts DEF Fiber
  <2>2. own[c] \in DOMAIN table[WeekOf[c]]
    BY <2>1 DEF ByOwner
  <2> QED  BY <2>1, <2>2
<1>3. ASSUME NEW w \in Weeks, NEW x \in DOMAIN table[w] PROVE \E c \in Credited : own[c] = x
  <2>1. PICK c \in Fiber(WeekOf, Credited, w) : own[c] = x
    BY <1>3 DEF ByOwner
  <2> QED  BY <2>1 DEF Fiber
<1> QED  BY <1>1, <1>2, <1>3

LEMMA SeasonFinite ==
    ASSUME Inv, NEW table, NEW own, ByOwner(table, own)
    PROVE  IsFiniteSet(DOMAIN Summed(table))
<1> DEFINE owners == {own[c] : c \in Credited}
<1>1. \A x : x \in owners <=> \E c \in Credited : own[c] = x
  OBVIOUS
<1>2. IsFiniteSet(owners)
  BY CreditFacts, ImageFinite
<1> HIDE DEF owners
<1>3. DOMAIN Summed(table) = owners
  BY <1>1, SeasonOwners
<1> QED  BY <1>2, <1>3

LEMMA SeasonByOwner ==
    ASSUME Inv, NEW table, NEW own, ByOwner(table, own), NEW x \in DOMAIN Summed(table)
    PROVE  /\ Summed(table)[x].points = Sum(Worth, Fiber(own, Credited, x))
           /\ Summed(table)[x].points \in Int
<1> DEFINE in == {w \in Weeks : x \in DOMAIN table[w]}
           h == [w \in in |-> table[w][x].points]
           S == Fiber(own, Credited, x)
<1>1. Summed(table)[x].points = Sum(h, in)
  BY DEF Summed, SumFunction, Sum
<1>2. IsFiniteSet(S) /\ Ints(Worth, S) /\ S \subseteq Credited
  <2>1. S \subseteq Credited
    BY DEF Fiber
  <2> QED  BY <2>1, CreditFacts, FS_Subset DEF Ints
<1>3. IsFiniteSet(in)
  BY CreditFacts, FS_Subset
<1>4. ASSUME NEW c \in S PROVE WeekOf[c] \in in
  <2>1. c \in Credited /\ own[c] = x /\ WeekOf[c] \in Weeks
    BY CreditFacts DEF Fiber
  <2>2. c \in Fiber(WeekOf, Credited, WeekOf[c])
    BY <2>1 DEF Fiber
  <2>3. x \in DOMAIN table[WeekOf[c]]
    BY <2>1, <2>2 DEF ByOwner
  <2> QED  BY <2>1, <2>3
<1>5. ASSUME NEW w \in in PROVE h[w] = Sum(Worth, Fiber(WeekOf, S, w))
  <2>1. Fiber(own, Fiber(WeekOf, Credited, w), x) = Fiber(WeekOf, S, w)
    BY DEF Fiber
  <2>2. table[w][x].points = Sum(Worth, Fiber(own, Fiber(WeekOf, Credited, w), x))
    BY DEF ByOwner
  <2> QED  BY <2>1, <2>2
<1> HIDE DEF in, h, S
<1>6. InParts(h, in, Worth, WeekOf, S)
  BY <1>5 DEF InParts
<1>7. Sum(Worth, S) = Sum(h, in)
  BY <1>2, <1>3, <1>4, <1>6, SumFibers
<1>8. Sum(Worth, S) \in Int
  BY <1>2, SumType
<1> QED  BY <1>1, <1>7, <1>8 DEF S

LEMMA SeasonShared ==
    ASSUME Inv, NEW table, NEW own, ByOwner(table, own)
    PROVE  PointsIn(Summed(table)) = Sum(Worth, Credited)
<1> DEFINE D == DOMAIN Summed(table)
           h == [x \in D |-> Summed(table)[x].points]
<1>1. PointsIn(Summed(table)) = Sum(h, D)
  BY DEF PointsIn, SumFunction, Sum
<1>2. IsFiniteSet(D)
  BY SeasonFinite
<1>3. \A c \in Credited : own[c] \in D
  BY SeasonOwners
<1>4. InParts(h, D, Worth, own, Credited)
  BY SeasonByOwner DEF InParts
<1> HIDE DEF D, h
<1>5. IsFiniteSet(Credited) /\ Ints(Worth, Credited)
  BY CreditFacts
<1>6. Sum(Worth, Credited) = Sum(h, D)
  BY <1>2, <1>3, <1>4, <1>5, SumFibers
<1> QED  BY <1>1, <1>6

PlayerTable == [w \in Weeks |-> WeekPlayers(w)]
TeamTable == [w \in Weeks |-> WeekTeams(w)]
Golfer == [c \in Credited |-> c[2]]
Team == [c \in Credited |-> TeamOf(c[1], c[2])]

LEMMA PlayersByOwner == ASSUME Inv PROVE ByOwner(PlayerTable, Golfer)
<1> SUFFICES ASSUME NEW w \in Weeks
    PROVE  /\ DOMAIN WeekPlayers(w) = {Golfer[c] : c \in Fiber(WeekOf, Credited, w)}
           /\ \A g \in DOMAIN WeekPlayers(w) :
                  WeekPlayers(w)[g].points = Sum(Worth, Fiber(Golfer, Fiber(WeekOf, Credited, w), g))
  BY DEF ByOwner, PlayerTable
<1> DEFINE F == Fiber(WeekOf, Credited, w)
<1>1. F = Credits(Decided(w)) /\ F \subseteq Credited
  BY CreditFacts DEF Fiber
<1>2. DOMAIN WeekPlayers(w) = UNION {SidesOf(m) : m \in Decided(w)}
  BY DEF WeekPlayers
<1>3. ASSUME NEW m \in Decided(w), NEW g \in SidesOf(m) PROVE g \in {Golfer[c] : c \in F}
  <2>1. m \in Matches /\ g \in Golfers
    BY SidesFacts DEF Decided, MatchesOf
  <2>2. <<m, g>> \in F
    BY <1>1, <2>1 DEF Credits
  <2>3. Golfer[<<m, g>>] = g
    BY <1>1, <2>2 DEF Golfer
  <2> QED  BY <2>2, <2>3
<1>4. ASSUME NEW c \in F PROVE Golfer[c] \in UNION {SidesOf(m) : m \in Decided(w)}
  <2>1. c[1] \in Decided(w) /\ c[2] \in SidesOf(c[1]) /\ Golfer[c] = c[2]
    BY <1>1 DEF Credits, Golfer
  <2> QED  BY <2>1
<1>5. DOMAIN WeekPlayers(w) = {Golfer[c] : c \in F}
  BY <1>2, <1>3, <1>4
<1>6. ASSUME NEW g \in DOMAIN WeekPlayers(w)
      PROVE  WeekPlayers(w)[g].points = Sum(Worth, Fiber(Golfer, F, g))
  <2> DEFINE mine == {c \in Credits(Decided(w)) : c[2] = g}
             f == [c \in mine |-> Round(c[1], g).points]
  <2>1. WeekPlayers(w)[g].points = Sum(f, mine)
    BY <1>2 DEF WeekPlayers, SumFunction, Sum
  <2>2. mine = Fiber(Golfer, F, g)
    BY <1>1 DEF Fiber, Golfer
  <2>3. \A c \in mine : f[c] = Worth[c] /\ c \in Credited
    BY <1>1 DEF Worth
  <2>4. IsFiniteSet(mine)
    <3>1. mine \subseteq Credited
      BY <2>3
    <3> QED  BY <3>1, CreditFacts, FS_Subset
  <2>5. Ints(Worth, mine)
    BY <2>3, CreditFacts DEF Ints
  <2> HIDE DEF mine, f, F
  <2>6. Sum(Worth, mine) = Sum(f, mine)
    BY <2>3, <2>4, <2>5, SumSame
  <2> QED  BY <2>1, <2>2, <2>6
<1> QED  BY <1>5, <1>6

LEMMA TeamsByOwner == ASSUME Inv PROVE ByOwner(TeamTable, Team)
<1> SUFFICES ASSUME NEW w \in Weeks
    PROVE  /\ DOMAIN WeekTeams(w) = {Team[c] : c \in Fiber(WeekOf, Credited, w)}
           /\ \A t \in DOMAIN WeekTeams(w) :
                  WeekTeams(w)[t].points = Sum(Worth, Fiber(Team, Fiber(WeekOf, Credited, w), t))
  BY DEF ByOwner, TeamTable
<1> DEFINE F == Fiber(WeekOf, Credited, w)
<1>1. F = Credits(Decided(w)) /\ F \subseteq Credited
  BY CreditFacts DEF Fiber
<1>2. DOMAIN WeekTeams(w) = {TeamOf(c[1], c[2]) : c \in Credits(Decided(w))}
  BY DEF WeekTeams
<1>3. \A c \in F : Team[c] = TeamOf(c[1], c[2])
  BY <1>1 DEF Team
<1>4. DOMAIN WeekTeams(w) = {Team[c] : c \in F}
  BY <1>1, <1>2, <1>3
<1>5. ASSUME NEW t \in DOMAIN WeekTeams(w)
      PROVE  WeekTeams(w)[t].points = Sum(Worth, Fiber(Team, F, t))
  <2> DEFINE ours == {c \in Credits(Decided(w)) : TeamOf(c[1], c[2]) = t}
             f == [c \in ours |-> Round(c[1], c[2]).points]
  <2>1. WeekTeams(w)[t].points = Sum(f, ours)
    BY <1>2 DEF WeekTeams, SumFunction, Sum
  <2>2. ours = Fiber(Team, F, t)
    BY <1>1, <1>3 DEF Fiber
  <2>3. \A c \in ours : f[c] = Worth[c] /\ c \in Credited
    BY <1>1 DEF Worth
  <2>4. IsFiniteSet(ours)
    <3>1. ours \subseteq Credited
      BY <2>3
    <3> QED  BY <3>1, CreditFacts, FS_Subset
  <2>5. Ints(Worth, ours)
    BY <2>3, CreditFacts DEF Ints
  <2> HIDE DEF ours, f, F
  <2>6. Sum(Worth, ours) = Sum(f, ours)
    BY <2>3, <2>4, <2>5, SumSame
  <2> QED  BY <2>1, <2>2, <2>6
<1> QED  BY <1>4, <1>5

OwnCards(g) == {m \in Matches : g \in SidesOf(m) /\ HasCard(m, g)}
MatchWeek == [m \in Matches |-> Pairing[m].week]

LEMMA OwnPage ==
    ASSUME Inv, NEW g \in Golfers
    PROVE  /\ DOMAIN PlayerRounds(g) = OwnCards(g) /\ IsFiniteSet(OwnCards(g))
           /\ \A m \in OwnCards(g) :
                  /\ Total(CardOf(m, g)) \in Int
                  /\ PlayerRounds(g)[m].gross = Total(CardOf(m, g))
                  /\ PlayerRounds(g)[m].net = IF HandicapOf(m, g) = NoHandicap THEN NoHandicap
                                              ELSE Total(CardOf(m, g)) - HandicapOf(m, g)
                  /\ PlayerRounds(g)[m].points = IF Pending(m) THEN NoHandicap ELSE Round(m, g).points
<1>1. DOMAIN PlayerRounds(g) = OwnCards(g)
  BY DEF PlayerRounds, OwnCards
<1>2. IsFiniteSet(OwnCards(g))
  <2>1. OwnCards(g) \subseteq Matches /\ IsFiniteSet(Matches)
    BY ResultsAssumption DEF OwnCards
  <2> QED  BY <2>1, FS_Subset
<1>3. ASSUME NEW m \in OwnCards(g) PROVE Total(CardOf(m, g)) \in Int
  <2> DEFINE f == CardOf(m, g)
  <2>1. f \in [Numbers -> Int]
    BY CardFacts DEF OwnCards
  <2> HIDE DEF f
  <2>2. Ints(f, Numbers) /\ IsFiniteSet(Numbers)
    BY <2>1, NineHoles DEF Ints
  <2>3. Sum(f, Numbers) \in Int
    BY <2>2, SumType
  <2> QED  BY <2>3 DEF f, Sum, Total
<1>4. \A m \in OwnCards(g) :
          /\ PlayerRounds(g)[m].gross = Total(CardOf(m, g))
          /\ PlayerRounds(g)[m].net = IF HandicapOf(m, g) = NoHandicap THEN NoHandicap
                                      ELSE Total(CardOf(m, g)) - HandicapOf(m, g)
          /\ PlayerRounds(g)[m].points = IF Pending(m) THEN NoHandicap ELSE Round(m, g).points
  BY DEF PlayerRounds, OwnCards
<1> QED  BY <1>1, <1>2, <1>3, <1>4

LEMMA PointsOnOwnPage ==
    ASSUME Inv, NEW g \in DOMAIN SeasonPlayers
    PROVE  SeasonPlayers[g].points =
               SumFunction([m \in {k \in DOMAIN PlayerRounds(g) : PlayerRounds(g)[k].points # NoHandicap} |->
                                PlayerRounds(g)[m].points])
<1> DEFINE K == {k \in DOMAIN PlayerRounds(g) : PlayerRounds(g)[k].points # NoHandicap}
           h == [m \in K |-> PlayerRounds(g)[m].points]
           S == Fiber(Golfer, Credited, g)
           p == [c \in Credited |-> c[1]]
<1>1. SeasonPlayers = Summed(PlayerTable)
  BY DEF SeasonPlayers, PlayerTable
<1>2. SeasonPlayers[g].points = Sum(Worth, S)
  BY <1>1, PlayersByOwner, SeasonByOwner
<1>3. g \in Golfers
  <2>1. PICK c \in Credited : Golfer[c] = g
    BY <1>1, PlayersByOwner, SeasonOwners
  <2> QED  BY <2>1, CreditFacts DEF Golfer
<1>4. DOMAIN PlayerRounds(g) = OwnCards(g) /\ IsFiniteSet(OwnCards(g))
  BY <1>3, OwnPage
<1>5. ASSUME NEW k \in Matches PROVE k \in K <=> g \in SidesOf(k) /\ ~Pending(k)
  <2>1. ASSUME k \in K PROVE g \in SidesOf(k) /\ ~Pending(k)
    <3>1. k \in OwnCards(g) /\ PlayerRounds(g)[k].points # NoHandicap
      BY <1>4, <2>1
    <3>2. ~Pending(k)
      BY <1>3, <3>1, OwnPage
    <3> QED  BY <3>1, <3>2 DEF OwnCards
  <2>2. ASSUME g \in SidesOf(k), ~Pending(k) PROVE k \in K
    <3>1. HasCard(k, g) /\ Round(k, g).points \in Int
      BY <2>2, DecidedFacts, PointsType
    <3>2. k \in OwnCards(g)
      BY <2>2, <3>1 DEF OwnCards
    <3>3. PlayerRounds(g)[k].points = Round(k, g).points
      BY <1>3, <2>2, <3>2, OwnPage
    <3>4. NoHandicap \notin Int
      BY ResultsAssumption
    <3> QED  BY <1>4, <3>1, <3>2, <3>3, <3>4
  <2> QED  BY <2>1, <2>2
<1>6. K \subseteq Matches /\ IsFiniteSet(K)
  <2>1. K \subseteq OwnCards(g)
    BY <1>4
  <2>2. OwnCards(g) \subseteq Matches
    BY DEF OwnCards
  <2> HIDE DEF K
  <2> QED  BY <1>4, <2>1, <2>2, FS_Subset
<1>7. ASSUME NEW m \in K PROVE h[m] = Round(m, g).points
  <2>1. m \in OwnCards(g) /\ ~Pending(m)
    BY <1>4, <1>5, <1>6
  <2> QED  BY <1>3, <2>1, OwnPage
<1>8. ASSUME NEW c \in S
      PROVE  c \in Credited /\ p[c] = c[1] /\ p[c] \in K /\ Worth[c] = h[p[c]] /\ c = <<c[1], g>>
  <2>1. c \in Credited /\ c[2] = g
    BY DEF Fiber, Golfer
  <2>2. c[1] \in Matches /\ ~Pending(c[1]) /\ c[2] \in SidesOf(c[1]) /\ c = <<c[1], c[2]>>
    BY <2>1, CreditFacts
  <2>3. c[1] \in K
    BY <1>5, <2>1, <2>2
  <2>4. Worth[c] = Round(c[1], g).points
    BY <2>1 DEF Worth
  <2>5. h[c[1]] = Round(c[1], g).points
    BY <1>7, <2>3
  <2> HIDE DEF h, K
  <2> QED  BY <2>1, <2>2, <2>3, <2>4, <2>5
<1>9. ASSUME NEW m \in K PROVE \E c \in S : p[c] = m
  <2>1. g \in SidesOf(m) /\ ~Pending(m) /\ m \in Matches
    BY <1>5, <1>6
  <2>2. <<m, g>> \in Credited
    BY <1>3, <2>1, CreditFacts
  <2>3. <<m, g>> \in S /\ p[<<m, g>>] = m
    BY <2>2 DEF Fiber, Golfer
  <2> QED  BY <2>3
<1>10. IsFiniteSet(S) /\ Ints(Worth, S)
  <2>1. S \subseteq Credited
    BY DEF Fiber
  <2> HIDE DEF S
  <2> QED  BY <2>1, CreditFacts, FS_Subset DEF Ints
<1>11. Sum(h, K) = SumFunction(h)
  BY DEF Sum, SumFunction
<1> HIDE DEF K, h, S, p
<1>12. \A c, e \in S : p[c] = p[e] => c = e
  BY <1>8
<1>13. Sum(Worth, S) = Sum(h, K)
  BY <1>6, <1>8, <1>9, <1>10, <1>12, SumMoved
<1> QED  BY <1>2, <1>11, <1>13 DEF h, K

LEMMA PointsAlwaysAgree == ASSUME Inv PROVE PointsAgree
<1>1. SeasonPlayers = Summed(PlayerTable) /\ SeasonTeams = Summed(TeamTable)
  BY DEF SeasonPlayers, PlayerTable, SeasonTeams, TeamTable
<1>2. PointsIn(SeasonPlayers) = PointsIn(SeasonTeams)
  <2>1. PointsIn(Summed(PlayerTable)) = Sum(Worth, Credited)
    BY PlayersByOwner, SeasonShared
  <2>2. PointsIn(Summed(TeamTable)) = Sum(Worth, Credited)
    BY TeamsByOwner, SeasonShared
  <2> QED  BY <1>1, <2>1, <2>2
<1> QED  BY <1>2, PointsOnOwnPage DEF PointsAgree

-----------------------------------------------------------------------------
(* Totals.                                                                  *)

Mine(w, g) == {c \in Carded(w) : c[2] = g}

LEMMA WeekOfOwn ==
    ASSUME Inv, NEW g \in Golfers, NEW w \in Weeks
    PROVE  /\ IsFiniteSet(Mine(w, g))
           /\ \A c \in Mine(w, g) : /\ c[1] \in Fiber(MatchWeek, OwnCards(g), w)
                                    /\ c = <<c[1], g>> /\ HandicapOf(c[1], g) = snapshot[w][g]
           /\ \A m \in Fiber(MatchWeek, OwnCards(g), w) : <<m, g>> \in Mine(w, g)
           /\ g \in DOMAIN WeekTotals(w) <=> Fiber(MatchWeek, OwnCards(g), w) # {}
<1>1. ASSUME NEW c \in Mine(w, g)
      PROVE  /\ c[1] \in Fiber(MatchWeek, OwnCards(g), w) /\ c = <<c[1], g>>
             /\ HandicapOf(c[1], g) = snapshot[w][g] /\ c \in Matches \X Golfers
  <2>1. /\ c \in MatchesOf(w) \X Golfers /\ c[2] \in SidesOf(c[1]) /\ HasCard(c[1], c[2]) /\ c[2] = g
    BY DEF Mine, Carded, Credits
  <2>2. c[1] \in Matches /\ Pairing[c[1]].week = w
    BY <2>1 DEF MatchesOf
  <2> QED  BY <2>1, <2>2 DEF Fiber, OwnCards, MatchWeek, HandicapOf
<1>2. IsFiniteSet(Mine(w, g))
  <2>1. IsFiniteSet(Matches \X Golfers)
    BY ResultsAssumption, FS_Product
  <2>2. Mine(w, g) \subseteq Matches \X Golfers
    BY <1>1
  <2> QED  BY <2>1, <2>2, FS_Subset
<1>3. ASSUME NEW m \in Fiber(MatchWeek, OwnCards(g), w) PROVE <<m, g>> \in Mine(w, g)
  <2>1. m \in Matches /\ Pairing[m].week = w /\ g \in SidesOf(m) /\ HasCard(m, g)
    BY DEF Fiber, OwnCards, MatchWeek
  <2> QED  BY <2>1 DEF Mine, Carded, Credits, MatchesOf
<1>4. DOMAIN WeekTotals(w) = {c[2] : c \in Carded(w)}
  BY DEF WeekTotals
<1>5. ASSUME g \in DOMAIN WeekTotals(w) PROVE Fiber(MatchWeek, OwnCards(g), w) # {}
  <2>1. PICK c \in Carded(w) : c[2] = g
    BY <1>4, <1>5
  <2>2. c \in Mine(w, g)
    BY <2>1 DEF Mine
  <2> QED  BY <1>1, <2>2
<1>6. ASSUME NEW m \in Fiber(MatchWeek, OwnCards(g), w) PROVE g \in DOMAIN WeekTotals(w)
  <2>1. <<m, g>> \in Carded(w)
    BY <1>3 DEF Mine
  <2> QED  BY <1>4, <2>1
<1> QED  BY <1>1, <1>2, <1>3, <1>5, <1>6

\* A week's sum over cards is one over the golfer's matches of the week.
LEMMA SumOfWeek ==
    ASSUME Inv, NEW g \in Golfers, NEW w \in Weeks, NEW val, NEW f,
           Ints(val, Fiber(MatchWeek, OwnCards(g), w)),
           \A c \in Mine(w, g) : f[c] = val[c[1]]
    PROVE  /\ Sum(f, Mine(w, g)) = Sum(val, Fiber(MatchWeek, OwnCards(g), w))
           /\ Sum(f, Mine(w, g)) \in Int
<1> DEFINE S == Mine(w, g)
           T == Fiber(MatchWeek, OwnCards(g), w)
           p == [c \in S |-> c[1]]
<1>1. IsFiniteSet(S) /\ IsFiniteSet(T)
  <2>1. T \subseteq OwnCards(g)
    BY DEF Fiber
  <2> QED  BY <2>1, WeekOfOwn, OwnPage, FS_Subset
<1>2. \A c \in S : p[c] = c[1] /\ p[c] \in T /\ f[c] = val[p[c]] /\ c = <<c[1], g>>
  BY WeekOfOwn
<1>3. ASSUME NEW m \in T PROVE \E c \in S : p[c] = m
  <2>1. <<m, g>> \in S
    BY WeekOfOwn
  <2>2. p[<<m, g>>] = m
    BY <2>1
  <2> QED  BY <2>1, <2>2
<1>4. Ints(val, T)
  OBVIOUS
<1> HIDE DEF S, T, p
<1>5. \A c, e \in S : p[c] = p[e] => c = e
  BY <1>2
<1>6. Ints(f, S)
  BY <1>2, <1>4 DEF Ints
<1>7. Sum(f, S) = Sum(val, T)
  BY <1>1, <1>2, <1>3, <1>5, <1>6, SumMoved
<1>8. Sum(f, S) \in Int
  BY <1>1, <1>6, SumType
<1> QED  BY <1>7, <1>8 DEF S, T

WeeksOf(g) == {w \in Weeks : g \in DOMAIN WeekTotals(w)}

LEMMA SumOfSeason ==
    ASSUME Inv, NEW g \in Golfers, NEW val, Ints(val, OwnCards(g)), NEW h,
           InParts(h, WeeksOf(g), val, MatchWeek, OwnCards(g))
    PROVE  Sum(h, WeeksOf(g)) = Sum(val, OwnCards(g))
<1>1. IsFiniteSet(OwnCards(g)) /\ IsFiniteSet(WeeksOf(g))
  <2>1. WeeksOf(g) \subseteq Weeks
    BY DEF WeeksOf
  <2> QED  BY <2>1, OwnPage, CreditFacts, FS_Subset
<1>2. ASSUME NEW m \in OwnCards(g) PROVE MatchWeek[m] \in WeeksOf(g)
  <2>1. m \in Matches /\ MatchWeek[m] = Pairing[m].week
    BY DEF OwnCards, MatchWeek
  <2>2. MatchWeek[m] \in Weeks
    BY <2>1, SidesFacts
  <2>3. m \in Fiber(MatchWeek, OwnCards(g), MatchWeek[m])
    BY DEF Fiber
  <2> QED  BY <2>2, <2>3, WeekOfOwn DEF WeeksOf
<1> QED  BY <1>1, <1>2, SumFibers

LEMMA WeekTotalParts ==
    ASSUME Inv, NEW g \in Golfers, NEW w \in WeeksOf(g)
    PROVE  /\ WeekTotals(w)[g].gross
                 = Sum([c \in Mine(w, g) |-> Total(CardOf(c[1], g))], Mine(w, g))
           /\ WeekTotals(w)[g].net
                 = IF snapshot[w][g] = NoHandicap THEN NoHandicap
                   ELSE Sum([c \in Mine(w, g) |-> Total(CardOf(c[1], g)) - snapshot[w][g]], Mine(w, g))
<1>1. g \in {c[2] : c \in Carded(w)}
  BY DEF WeeksOf, WeekTotals
<1>2. /\ WeekTotals(w)[g].gross
            = SumFunction([c \in Mine(w, g) |-> Total(CardOf(c[1], g))])
      /\ WeekTotals(w)[g].net
            = IF snapshot[w][g] = NoHandicap THEN NoHandicap
              ELSE SumFunction([c \in Mine(w, g) |-> Total(CardOf(c[1], g)) - snapshot[w][g]])
  BY <1>1 DEF WeekTotals, Mine
<1>3. /\ SumFunction([c \in Mine(w, g) |-> Total(CardOf(c[1], g))])
            = Sum([c \in Mine(w, g) |-> Total(CardOf(c[1], g))], Mine(w, g))
      /\ SumFunction([c \in Mine(w, g) |-> Total(CardOf(c[1], g)) - snapshot[w][g]])
            = Sum([c \in Mine(w, g) |-> Total(CardOf(c[1], g)) - snapshot[w][g]], Mine(w, g))
  BY DEF SumFunction, Sum
<1> QED  BY <1>2, <1>3

LEMMA SeasonTotalParts ==
    ASSUME NEW g \in DOMAIN SeasonTotals
    PROVE  /\ SeasonTotals[g].gross = Sum([w \in WeeksOf(g) |-> WeekTotals(w)[g].gross], WeeksOf(g))
           /\ SeasonTotals[g].net
                 = IF \E w \in WeeksOf(g) : WeekTotals(w)[g].net = NoHandicap THEN NoHandicap
                   ELSE Sum([w \in WeeksOf(g) |-> WeekTotals(w)[g].net], WeeksOf(g))
           /\ \E w \in Weeks : g \in DOMAIN WeekTotals(w)
<1> DEFINE table == [w \in Weeks |-> WeekTotals(w)]
           in == {w \in Weeks : g \in DOMAIN table[w]}
<1>1. DOMAIN SeasonTotals = UNION {DOMAIN table[w] : w \in Weeks}
  BY DEF SeasonTotals
<1>2. \E w \in Weeks : g \in DOMAIN WeekTotals(w)
  BY <1>1
<1>3. /\ SeasonTotals[g].gross = SumFunction([w \in in |-> table[w][g].gross])
      /\ SeasonTotals[g].net
            = IF \E w \in in : table[w][g].net = NoHandicap THEN NoHandicap
              ELSE SumFunction([w \in in |-> table[w][g].net])
  BY <1>1 DEF SeasonTotals
<1>4. in = WeeksOf(g)
  BY DEF WeeksOf
<1>5. \A w \in WeeksOf(g) : table[w] = WeekTotals(w)
  BY DEF WeeksOf
<1>6. /\ SumFunction([w \in in |-> table[w][g].gross])
           = Sum([w \in WeeksOf(g) |-> WeekTotals(w)[g].gross], WeeksOf(g))
      /\ SumFunction([w \in in |-> table[w][g].net])
           = Sum([w \in WeeksOf(g) |-> WeekTotals(w)[g].net], WeeksOf(g))
  <2> HIDE DEF table, in
  <2>1. /\ [w \in in |-> table[w][g].gross] = [w \in WeeksOf(g) |-> WeekTotals(w)[g].gross]
        /\ [w \in in |-> table[w][g].net] = [w \in WeeksOf(g) |-> WeekTotals(w)[g].net]
    BY <1>4, <1>5
  <2> QED  BY <1>4, <2>1 DEF SumFunction, Sum
<1>7. (\E w \in in : table[w][g].net = NoHandicap)
         <=> (\E w \in WeeksOf(g) : WeekTotals(w)[g].net = NoHandicap)
  <2> HIDE DEF table, in
  <2> QED  BY <1>4, <1>5
<1> HIDE DEF table, in
<1> QED  BY <1>2, <1>3, <1>6, <1>7

LEMMA GrossOfSeason ==
    ASSUME Inv, NEW g \in DOMAIN SeasonTotals, g \in Golfers
    PROVE  SeasonTotals[g].gross
             = SumFunction([m \in DOMAIN PlayerRounds(g) |-> PlayerRounds(g)[m].gross])
<1> DEFINE val == [m \in OwnCards(g) |-> Total(CardOf(m, g))]
           h == [w \in WeeksOf(g) |-> WeekTotals(w)[g].gross]
<1>1. Ints(val, OwnCards(g))
  BY OwnPage DEF Ints
<1>2. ASSUME NEW w \in WeeksOf(g)
      PROVE  h[w] = Sum(val, Fiber(MatchWeek, OwnCards(g), w))
  <2> DEFINE f == [c \in Mine(w, g) |-> Total(CardOf(c[1], g))]
  <2>1. w \in Weeks
    BY DEF WeeksOf
  <2>2. Ints(val, Fiber(MatchWeek, OwnCards(g), w))
    BY <1>1 DEF Ints, Fiber
  <2>3. \A c \in Mine(w, g) : f[c] = val[c[1]]
    <3>1. \A c \in Mine(w, g) : c[1] \in OwnCards(g)
      BY <2>1, WeekOfOwn DEF Fiber
    <3> QED  BY <3>1
  <2>4. h[w] = Sum(f, Mine(w, g))
    BY WeekTotalParts
  <2> HIDE DEF f, val, h
  <2> QED  BY <2>1, <2>2, <2>3, <2>4, SumOfWeek
<1>3. InParts(h, WeeksOf(g), val, MatchWeek, OwnCards(g))
  <2> HIDE DEF h, val
  <2> QED  BY <1>2 DEF InParts
<1>4. SeasonTotals[g].gross = Sum(h, WeeksOf(g))
  BY SeasonTotalParts
<1>5. SumFunction([m \in DOMAIN PlayerRounds(g) |-> PlayerRounds(g)[m].gross]) = Sum(val, OwnCards(g))
  <2>1. [m \in DOMAIN PlayerRounds(g) |-> PlayerRounds(g)[m].gross] = val
    BY OwnPage
  <2>2. SumFunction(val) = Sum(val, OwnCards(g))
    BY DEF SumFunction, Sum
  <2> QED  BY <2>1, <2>2
<1> HIDE DEF h, val
<1> QED  BY <1>1, <1>3, <1>4, <1>5, SumOfSeason

LEMMA NetOfSeason ==
    ASSUME Inv, NEW g \in DOMAIN SeasonTotals, g \in Golfers
    PROVE  SeasonTotals[g].net
             = IF \E m \in DOMAIN PlayerRounds(g) : PlayerRounds(g)[m].net = NoHandicap THEN NoHandicap
               ELSE SumFunction([m \in DOMAIN PlayerRounds(g) |-> PlayerRounds(g)[m].net])
<1> DEFINE val == [m \in OwnCards(g) |-> Total(CardOf(m, g)) - HandicapOf(m, g)]
           h == [w \in WeeksOf(g) |-> WeekTotals(w)[g].net]
           Known == \A m \in OwnCards(g) : HandicapOf(m, g) # NoHandicap
<1>0. NoHandicap \notin Int /\ \A m \in OwnCards(g) : m \in Matches /\ HandicapOf(m, g) = snapshot[MatchWeek[m]][g]
  BY ResultsAssumption DEF OwnCards, MatchWeek, HandicapOf
<1>1. ASSUME NEW m \in OwnCards(g), HandicapOf(m, g) # NoHandicap
      PROVE  val[m] \in Int
  <2>1. HandicapOf(m, g) \in Int
    BY <1>0, <1>1, HandicapFacts
  <2>2. Total(CardOf(m, g)) \in Int
    BY OwnPage
  <2> QED  BY <2>1, <2>2
<1>2. ASSUME NEW w \in WeeksOf(g), snapshot[w][g] # NoHandicap
      PROVE  h[w] = Sum(val, Fiber(MatchWeek, OwnCards(g), w)) /\ h[w] \in Int
  <2> DEFINE f == [c \in Mine(w, g) |-> Total(CardOf(c[1], g)) - snapshot[w][g]]
  <2>1. w \in Weeks
    BY DEF WeeksOf
  <2>2. Ints(val, Fiber(MatchWeek, OwnCards(g), w))
    <3> SUFFICES ASSUME NEW m \in Fiber(MatchWeek, OwnCards(g), w) PROVE val[m] \in Int
      BY DEF Ints
    <3>1. m \in OwnCards(g) /\ MatchWeek[m] = w
      BY DEF Fiber
    <3>2. HandicapOf(m, g) # NoHandicap
      BY <1>0, <1>2, <3>1
    <3> HIDE DEF val
    <3> QED  BY <1>1, <3>1, <3>2
  <2>3. \A c \in Mine(w, g) : f[c] = val[c[1]]
    <3>1. \A c \in Mine(w, g) : c[1] \in OwnCards(g) /\ HandicapOf(c[1], g) = snapshot[w][g]
      BY <2>1, WeekOfOwn DEF Fiber
    <3> QED  BY <3>1
  <2>4. h[w] = Sum(f, Mine(w, g))
    BY <1>2, WeekTotalParts
  <2> HIDE DEF f, val, h
  <2> QED  BY <2>1, <2>2, <2>3, <2>4, SumOfWeek
<1>3. ASSUME NEW w \in WeeksOf(g), snapshot[w][g] = NoHandicap
      PROVE  WeekTotals(w)[g].net = NoHandicap
  BY <1>3, WeekTotalParts
<1>4. (\E w \in WeeksOf(g) : WeekTotals(w)[g].net = NoHandicap) <=> ~Known
  <2>1. ASSUME NEW w \in WeeksOf(g), WeekTotals(w)[g].net = NoHandicap PROVE ~Known
    <3>1. snapshot[w][g] = NoHandicap
      BY <1>0, <1>2, <2>1
    <3>2. PICK m \in Fiber(MatchWeek, OwnCards(g), w) : TRUE
      BY WeekOfOwn DEF WeeksOf
    <3>3. m \in OwnCards(g) /\ MatchWeek[m] = w
      BY DEF Fiber
    <3>4. HandicapOf(m, g) = NoHandicap
      BY <1>0, <3>1, <3>3
    <3> QED  BY <3>3, <3>4
  <2>2. ASSUME NEW m \in OwnCards(g), HandicapOf(m, g) = NoHandicap
        PROVE  \E w \in WeeksOf(g) : WeekTotals(w)[g].net = NoHandicap
    <3>1. MatchWeek[m] \in Weeks /\ snapshot[MatchWeek[m]][g] = NoHandicap
      BY <1>0, <2>2, SidesFacts DEF MatchWeek
    <3>2. m \in Fiber(MatchWeek, OwnCards(g), MatchWeek[m])
      BY DEF Fiber
    <3>3. MatchWeek[m] \in WeeksOf(g)
      BY <3>1, <3>2, WeekOfOwn DEF WeeksOf
    <3> QED  BY <1>3, <3>1, <3>3
  <2> QED  BY <2>1, <2>2
<1>5. DOMAIN PlayerRounds(g) = OwnCards(g)
  BY OwnPage
<1>6. ASSUME NEW m \in OwnCards(g)
      PROVE  /\ PlayerRounds(g)[m].net = NoHandicap <=> HandicapOf(m, g) = NoHandicap
             /\ HandicapOf(m, g) # NoHandicap => PlayerRounds(g)[m].net = val[m]
  <2>1. PlayerRounds(g)[m].net = IF HandicapOf(m, g) = NoHandicap THEN NoHandicap ELSE val[m]
    BY OwnPage
  <2> HIDE DEF val
  <2> QED  BY <1>0, <1>1, <2>1
<1>7. (\E m \in DOMAIN PlayerRounds(g) : PlayerRounds(g)[m].net = NoHandicap) <=> ~Known
  BY <1>5, <1>6
<1>8. ASSUME Known
      PROVE  Sum(h, WeeksOf(g))
               = SumFunction([m \in DOMAIN PlayerRounds(g) |-> PlayerRounds(g)[m].net])
  <2>1. \A w \in WeeksOf(g) : snapshot[w][g] # NoHandicap
    BY <1>3, <1>4, <1>8
  <2>2. Ints(val, OwnCards(g))
    <3> HIDE DEF val
    <3> QED  BY <1>1, <1>8 DEF Ints
  <2>3. InParts(h, WeeksOf(g), val, MatchWeek, OwnCards(g))
    <3> HIDE DEF h, val
    <3> QED  BY <1>2, <2>1 DEF InParts
  <2>4. [m \in DOMAIN PlayerRounds(g) |-> PlayerRounds(g)[m].net] = val
    BY <1>5, <1>6, <1>8
  <2>5. SumFunction(val) = Sum(val, OwnCards(g))
    BY DEF SumFunction, Sum
  <2>6. Sum(h, WeeksOf(g)) = Sum(val, OwnCards(g))
    <3> HIDE DEF h, val
    <3> QED  BY <2>2, <2>3, SumOfSeason
  <2> QED  BY <2>4, <2>5, <2>6
<1>9. SeasonTotals[g].net
        = IF \E w \in WeeksOf(g) : WeekTotals(w)[g].net = NoHandicap THEN NoHandicap
          ELSE Sum(h, WeeksOf(g))
  BY SeasonTotalParts
<1> HIDE DEF h, val, Known
<1> QED  BY <1>4, <1>7, <1>8, <1>9

LEMMA TotalsAlwaysAgree == ASSUME Inv PROVE TotalsAgree
<1>1. ASSUME NEW g \in DOMAIN SeasonTotals PROVE g \in Golfers
  <2>1. PICK w \in Weeks : g \in DOMAIN WeekTotals(w)
    BY SeasonTotalParts
  <2>2. DOMAIN WeekTotals(w) = {c[2] : c \in Carded(w)}
    BY DEF WeekTotals
  <2> QED  BY <2>1, <2>2 DEF Carded, Credits
<1> QED  BY <1>1, GrossOfSeason, NetOfSeason DEF TotalsAgree

-----------------------------------------------------------------------------
(* Ranks.                                                                   *)

FirstOf(s, k) == {s[j] : j \in 1..k}

LEMMA FirstPlaces ==
    ASSUME NEW N \in Nat, NEW s, \A i, j \in 1..N : s[i] = s[j] => i = j, NEW k \in 0..N
    PROVE  Cardinality(FirstOf(s, k)) = k
<1> DEFINE I == 1..k
           T == {s[j] : j \in I}
           f == [j \in I |-> s[j]]
<1>1. k \in Nat /\ IsFiniteSet(I) /\ Cardinality(I) = k
  <2>1. k \in Nat
    OBVIOUS
  <2> QED  BY <2>1, FS_Interval
<1>2. f \in [I -> T] /\ \A t \in T : \E j \in I : f[j] = t
  OBVIOUS
<1>3. \A i, j \in I : f[i] = f[j] => i = j
  <2>1. I \subseteq 1..N
    OBVIOUS
  <2> QED  BY <2>1
<1> HIDE DEF I, T, f
<1>4. f \in Surjection(I, T) /\ f \in Injection(I, T)
  BY <1>2, <1>3 DEF Surjection, Injection, IsInjective
<1>5. Cardinality(T) = Cardinality(I)
  BY <1>1, <1>4, FS_Surjection
<1> QED  BY <1>1, <1>5 DEF T, I, FirstOf

Above(table, x) == {y \in DOMAIN table : table[y].points > table[x].points}

\* Who shares the rank of the one before has as many above.
RankedAs(r, order, table, N) ==
    r = [i \in 0..N |->
            IF i = 0 THEN 0
            ELSE IF i > 1 /\ table[order[i]].points = table[order[i - 1]].points THEN r[i - 1]
            ELSE i]

LEMMA RanksExist ==
    ASSUME NEW N \in Nat, NEW order, NEW table
    PROVE  \E r : RankedAs(r, order, table, N)
<1> DEFINE Same(i) == i > 1 /\ table[order[i]].points = table[order[i - 1]].points
           step == [i \in 1..N |-> [x \in Nat |-> IF Same(i) THEN x ELSE i]]
<1>1. step \in [1..N -> [Nat -> Nat]]
  <2> HIDE DEF Same
  <2> QED  OBVIOUS
<1>2. PICK r : Stepped(r, Nat, 0, step, N)
  <2>1. 0 \in Nat
    OBVIOUS
  <2> HIDE DEF step
  <2> QED  BY <1>1, <2>1, Steps
<1>3. r \in [0..N -> Nat] /\ r[0] = 0
  BY <1>2 DEF Stepped
<1>4. ASSUME NEW i \in 0..N, i # 0 PROVE r[i] = IF Same(i) THEN r[i - 1] ELSE i
  <2>1. i \in 1..N /\ i - 1 \in 0..N
    BY <1>4
  <2>2. r[i] = step[i][r[i - 1]] /\ r[i - 1] \in Nat
    BY <1>2, <1>3, <2>1 DEF Stepped
  <2> HIDE DEF Same
  <2> QED  BY <2>1, <2>2
<1>5. RankedAs(r, order, table, N)
  BY <1>3, <1>4 DEF RankedAs
<1> QED  BY <1>5

\* All of the table, by falling points.
Falling(order, table, N) ==
    /\ order \in [1..N -> DOMAIN table]
    /\ \A x \in DOMAIN table : table[x].points \in Int
    /\ \A x \in DOMAIN table : \E i \in 1..N : order[i] = x
    /\ \A i, j \in 1..N : order[i] = order[j] => i = j
    /\ \A i, j \in 1..N : i <= j => table[order[i]].points >= table[order[j]].points

LEMMA RanksCount ==
    ASSUME NEW table, NEW N \in Nat, NEW order, Falling(order, table, N),
           NEW r, RankedAs(r, order, table, N)
    PROVE  \A i \in 1..N : r[i] = 1 + Cardinality(Above(table, order[i]))
<1> USE DEF Falling
<1> DEFINE Right == {k \in Nat : k \in 1..N => r[k] = 1 + Cardinality(Above(table, order[k]))}
<1>1. 0 \in Right
  OBVIOUS
<1>2. ASSUME NEW k \in Right PROVE k + 1 \in Right
  <2> SUFFICES ASSUME k + 1 <= N PROVE r[k + 1] = 1 + Cardinality(Above(table, order[k + 1]))
    OBVIOUS
  <2>1. k \in Nat /\ k + 1 \in 1..N /\ k + 1 \in 0..N /\ k + 1 # 0 /\ (k + 1) - 1 = k
    OBVIOUS
  <2>2. r[k + 1] = IF k + 1 > 1 /\ table[order[k + 1]].points = table[order[k]].points THEN r[k] ELSE k + 1
    BY <2>1 DEF RankedAs
  <2>3. CASE k + 1 > 1 /\ table[order[k + 1]].points = table[order[k]].points
    <3>1. k \in 1..N
      BY <2>1, <2>3
    <3>2. r[k] = 1 + Cardinality(Above(table, order[k]))
      BY <3>1
    <3>3. Above(table, order[k + 1]) = Above(table, order[k])
      BY <2>3 DEF Above
    <3> QED  BY <2>2, <2>3, <3>2, <3>3
  <2>4. CASE ~(k + 1 > 1 /\ table[order[k + 1]].points = table[order[k]].points)
    <3>1. r[k + 1] = k + 1
      BY <2>2, <2>4
    <3>2. ASSUME NEW x \in Above(table, order[k + 1]) PROVE x \in FirstOf(order, k)
      <4>1. x \in DOMAIN table /\ table[x].points > table[order[k + 1]].points
        BY DEF Above
      <4>2. PICK i \in 1..N : order[i] = x
        BY <4>1
      <4>3. ~(k + 1 <= i)
        <5>1. ASSUME k + 1 <= i PROVE FALSE
          <6>1. table[order[k + 1]].points >= table[order[i]].points
            BY <2>1, <5>1
          <6>2. order[k + 1] \in DOMAIN table
            BY <2>1
          <6> QED  BY <4>1, <4>2, <6>1, <6>2
        <5> QED  BY <5>1
      <4>4. i \in 1..k
        BY <2>1, <4>3
      <4> QED  BY <4>2, <4>4 DEF FirstOf
    <3>3. ASSUME NEW j \in 1..k PROVE order[j] \in Above(table, order[k + 1])
      <4>1. k \in 1..N /\ j \in 1..N /\ k > 0 /\ j <= k
        BY <2>1
      <4>2. table[order[k + 1]].points # table[order[k]].points
        BY <2>1, <2>4, <4>1
      <4>3. /\ table[order[k]].points >= table[order[k + 1]].points
            /\ table[order[j]].points >= table[order[k]].points
        BY <2>1, <4>1
      <4>4. order[j] \in DOMAIN table /\ order[k] \in DOMAIN table /\ order[k + 1] \in DOMAIN table
        BY <2>1, <4>1
      <4>5. table[order[j]].points > table[order[k + 1]].points
        BY <4>2, <4>3, <4>4
      <4> QED  BY <4>4, <4>5 DEF Above
    <3>4. Above(table, order[k + 1]) = FirstOf(order, k)
      BY <3>2, <3>3 DEF FirstOf
    <3>5. Cardinality(FirstOf(order, k)) = k
      <4>1. k \in 0..N
        BY <2>1
      <4> QED  BY <4>1, FirstPlaces
    <3> QED  BY <2>1, <3>1, <3>4, <3>5
  <2> QED  BY <2>3, <2>4
<1>3. Right = Nat
  <2>1. Right \in SUBSET Nat
    OBVIOUS
  <2> HIDE DEF Right
  <2> QED  BY <1>1, <1>2, <2>1, SetInduction
<1> SUFFICES ASSUME NEW i \in 1..N PROVE r[i] = 1 + Cardinality(Above(table, order[i]))
  OBVIOUS
<1>4. i \in Right
  <2>1. i \in Nat
    OBVIOUS
  <2> HIDE DEF Right
  <2> QED  BY <1>3, <2>1
<1> QED  BY <1>4

LEMMA RanksAreByPoints ==
    ASSUME NEW table, IsFiniteSet(DOMAIN table),
           \A x \in DOMAIN table : table[x].points \in Int
    PROVE  CompetitionRanks(table) =
               [x \in DOMAIN table |->
                   1 + Cardinality({y \in DOMAIN table : table[y].points > table[x].points})]
<1> DEFINE D == DOMAIN table
           N == Cardinality(D)
           key == [x \in D |-> -table[x].points]
           order == Sorted(D, key)
           ranks == CHOOSE r : RankedAs(r, order, table, N)
<1>1. CompetitionRanks(table) = [x \in D |-> ranks[CHOOSE i \in 1..N : order[i] = x]]
  BY DEF CompetitionRanks, RankedAs
<1>2. Ints(key, D)
  BY DEF Ints
<1>3. \A x \in D : key[x] = -table[x].points
  OBVIOUS
<1> HIDE DEF key
<1>4. SortedBy(order, D, key)
  <2> HIDE DEF D
  <2> QED  BY <1>2, SortedExists DEF D
<1> HIDE DEF order
<1>5. /\ order \in [1..N -> D] /\ N \in Nat
      /\ \A i, j \in 1..N : order[i] = order[j] => i = j
      /\ \A x \in D : \E i \in 1..N : order[i] = x
      /\ \A i, j \in 1..N : i <= j => key[order[i]] <= key[order[j]]
  BY <1>2, <1>4, SortedPlaces
<1> HIDE DEF N
<1>6. RankedAs(ranks, order, table, N)
  BY <1>5, RanksExist
<1> HIDE DEF ranks
<1>7. ASSUME NEW i \in 1..N, NEW j \in 1..N, i <= j
      PROVE  table[order[i]].points >= table[order[j]].points
  <2>1. order[i] \in D /\ order[j] \in D /\ key[order[i]] <= key[order[j]]
    BY <1>5, <1>7
  <2>2. -table[order[i]].points <= -table[order[j]].points
    BY <1>3, <2>1
  <2> QED  BY <2>1, <2>2
<1>8. \A i \in 1..N : ranks[i] = 1 + Cardinality(Above(table, order[i]))
  <2>1. N \in Nat /\ Falling(order, table, N)
    BY <1>5, <1>7 DEF Falling
  <2> QED  BY <1>6, <2>1, RanksCount
<1>9. ASSUME NEW x \in D
      PROVE  ranks[CHOOSE i \in 1..N : order[i] = x] = 1 + Cardinality(Above(table, x))
  <2> DEFINE p == CHOOSE i \in 1..N : order[i] = x
  <2>1. p \in 1..N /\ order[p] = x
    BY <1>5
  <2> HIDE DEF p
  <2>2. ranks[p] = 1 + Cardinality(Above(table, x))
    BY <1>8, <2>1
  <2> QED  BY <2>2 DEF p
<1>10. CompetitionRanks(table) = [x \in D |-> 1 + Cardinality(Above(table, x))]
  <2> HIDE DEF D
  <2> QED  BY <1>1, <1>9
<1> QED  BY <1>10 DEF Above

LEMMA RanksAlwaysByPoints == ASSUME Inv PROVE RanksByPoints
<1>1. SeasonPlayers = Summed(PlayerTable) /\ SeasonTeams = Summed(TeamTable)
  BY DEF SeasonPlayers, PlayerTable, SeasonTeams, TeamTable
<1>2. IsFiniteSet(DOMAIN SeasonPlayers) /\ \A x \in DOMAIN SeasonPlayers : SeasonPlayers[x].points \in Int
  BY <1>1, PlayersByOwner, SeasonFinite, SeasonByOwner
<1>3. IsFiniteSet(DOMAIN SeasonTeams) /\ \A x \in DOMAIN SeasonTeams : SeasonTeams[x].points \in Int
  BY <1>1, TeamsByOwner, SeasonFinite, SeasonByOwner
<1>4. ASSUME NEW table \in {SeasonPlayers, SeasonTeams}
      PROVE  CompetitionRanks(table) =
                 [x \in DOMAIN table |->
                     1 + Cardinality({y \in DOMAIN table : table[y].points > table[x].points})]
  <2>1. IsFiniteSet(DOMAIN table) /\ \A x \in DOMAIN table : table[x].points \in Int
    BY <1>2, <1>3
  <2> QED  BY <2>1, RanksAreByPoints
<1> QED  BY <1>4 DEF RanksByPoints

\* However the cards and handicaps change, the season's tables, the teams' tables and
\* the golfers' own pages tell the same points and totals, and ranks are by points
\* (season standings, _competition_ranks, player_rounds).
THEOREM StandingsAlwaysAgree == Spec => []StandingsAgree
<1>1. Inv => StandingsAgree
  BY PointsAlwaysAgree, TotalsAlwaysAgree, RanksAlwaysByPoints DEF StandingsAgree
<1> QED  BY <1>1, InvAlways, PTL

-----------------------------------------------------------------------------
(* Skins.                                                                   *)

Leaders(score, n) == {g \in DOMAIN score : \A o \in DOMAIN score : score[g][n] <= score[o][n]}
LowestAlone(score, g, n) == \A o \in DOMAIN score \ {g} : score[g][n] < score[o][n]
WonAt(score, i) == \E g \in DOMAIN score : LowestAlone(score, g, InOrder[i])

\* The scores of a field of golfers.
Scoring(score) ==
    /\ IsFiniteSet(DOMAIN score) /\ NoOne \notin DOMAIN score
    /\ \A g \in DOMAIN score : \A n \in Numbers : score[g][n] \in Int

LEMMA OneLeader ==
    ASSUME NEW score, Scoring(score), NEW n \in Numbers
    PROVE  /\ Cardinality(Leaders(score, n)) = 1 <=> \E g \in DOMAIN score : LowestAlone(score, g, n)
           /\ Cardinality(Leaders(score, n)) = 1 =>
                  LET g == CHOOSE g \in Leaders(score, n) : TRUE
                  IN  g \in DOMAIN score /\ LowestAlone(score, g, n)
<1> DEFINE L == Leaders(score, n)
<1>1. IsFiniteSet(L) /\ L \subseteq DOMAIN score
  <2>1. L \subseteq DOMAIN score
    BY DEF Leaders
  <2> QED  BY <2>1, FS_Subset DEF Scoring
<1>2. ASSUME NEW g \in DOMAIN score, LowestAlone(score, g, n) PROVE L = {g}
  <2>1. score[g][n] \in Int
    BY DEF Scoring
  <2>2. g \in L
    <3>1. \A o \in DOMAIN score : score[g][n] <= score[o][n]
      BY <1>2, <2>1 DEF LowestAlone, Scoring
    <3> QED  BY <3>1 DEF Leaders
  <2>3. ASSUME NEW o \in L, o # g PROVE FALSE
    <3>1. o \in DOMAIN score /\ score[o][n] <= score[g][n] /\ score[o][n] \in Int
      BY <1>1 DEF Leaders, Scoring
    <3>2. score[g][n] < score[o][n]
      BY <1>2, <2>3, <3>1 DEF LowestAlone
    <3> QED  BY <2>1, <3>1, <3>2
  <2> QED  BY <2>2, <2>3
<1>3. ASSUME Cardinality(L) = 1, NEW g \in L PROVE LowestAlone(score, g, n)
  <2> SUFFICES ASSUME NEW o \in DOMAIN score \ {g} PROVE score[g][n] < score[o][n]
    BY DEF LowestAlone
  <2>1. L \ {g} = {}
    <3>1. IsFiniteSet(L \ {g}) /\ Cardinality(L \ {g}) = 0
      <4>1. Cardinality(L \ {g}) = Cardinality(L) - 1
        BY <1>1, FS_RemoveElement
      <4>2. IsFiniteSet(L \ {g})
        BY <1>1, FS_RemoveElement
      <4> QED  BY <1>3, <4>1, <4>2
    <3> HIDE DEF L
    <3> QED  BY <3>1, FS_EmptySet
  <2>2. o \notin L
    BY <2>1
  <2>3. PICK p \in DOMAIN score : ~(score[o][n] <= score[p][n])
    BY <2>2 DEF Leaders
  <2>4. score[g][n] <= score[p][n] /\ g \in DOMAIN score
    BY DEF Leaders
  <2>5. score[g][n] \in Int /\ score[o][n] \in Int /\ score[p][n] \in Int
    BY <2>4 DEF Scoring
  <2> QED  BY <2>3, <2>4, <2>5
<1>4. ASSUME Cardinality(L) = 1
      PROVE  /\ (CHOOSE g \in L : TRUE) \in L
             /\ (CHOOSE g \in L : TRUE) \in DOMAIN score
             /\ LowestAlone(score, CHOOSE g \in L : TRUE, n)
  <2>1. L # {}
    BY <1>4, FS_EmptySet
  <2> HIDE DEF L
  <2>2. (CHOOSE g \in L : TRUE) \in L
    BY <2>1
  <2> QED  BY <1>1, <1>3, <1>4, <2>2
<1>5. ASSUME NEW g \in DOMAIN score, LowestAlone(score, g, n) PROVE Cardinality(L) = 1
  <2>1. L = {g}
    BY <1>2, <1>5
  <2> HIDE DEF L
  <2> QED  BY <2>1, FS_Singleton
<1> HIDE DEF L
<1>6. Cardinality(L) = 1 <=> \E g \in DOMAIN score : LowestAlone(score, g, n)
  BY <1>4, <1>5
<1> QED  BY <1>4, <1>6 DEF L

\* What each hole brings, by the holes before it.
Brings(score, skins, i) ==
    IF WonAt(score, i)
    THEN /\ LowestAlone(score, skins[i].winner, InOrder[i])
         /\ skins[i].winner \in DOMAIN score
         /\ skins[i].units = 1 + skins[i - 1].carry
         /\ skins[i].carry = 0
    ELSE /\ skins[i].winner = NoOne /\ skins[i].units = 0
         /\ skins[i].carry = skins[i - 1].carry + 1

LEMMA HolesBring ==
    ASSUME NEW score, Scoring(score)
    PROVE  /\ SkinHoles(score)[0].carry = 0
           /\ \A i \in 1..Nine : Brings(score, SkinHoles(score), i)
<1> DEFINE W == [winner : DOMAIN score \cup {NoOne}, units : Int, carry : Int]
           start == [winner |-> NoOne, units |-> 0, carry |-> 0]
           won(n) == Cardinality(Leaders(score, n)) = 1
           After(n, carry) ==
               IF won(n)
               THEN [winner |-> CHOOSE g \in Leaders(score, n) : TRUE, units |-> 1 + carry, carry |-> 0]
               ELSE [winner |-> NoOne, units |-> 0, carry |-> carry + 1]
           step == [i \in 1..Nine |-> [x \in W |-> After(InOrder[i], x.carry)]]
           Fits(f) == f = [i \in 0..Nine |->
                              IF i = 0 THEN [winner |-> NoOne, units |-> 0, carry |-> 0]
                              ELSE After(InOrder[i], f[i - 1].carry)]
<1>1. Nine \in Nat /\ \A i \in 1..Nine : InOrder[i] \in Numbers
  BY NineHoles, HolesInOrder
<1>2. ASSUME NEW i \in 1..Nine, NEW carry \in Int PROVE After(InOrder[i], carry) \in W
  <2> DEFINE n == InOrder[i]
             lead == CHOOSE g \in Leaders(score, n) : TRUE
  <2>1. won(n) => lead \in DOMAIN score
    BY <1>1, OneLeader
  <2> HIDE DEF n, lead, won
  <2>2. [winner |-> NoOne, units |-> 0, carry |-> carry + 1] \in W
    OBVIOUS
  <2>3. won(n) => [winner |-> lead, units |-> 1 + carry, carry |-> 0] \in W
    BY <2>1
  <2> HIDE DEF W
  <2> QED  BY <2>2, <2>3 DEF n, lead
<1>3. start \in W
  OBVIOUS
<1>4. step \in [1..Nine -> [W -> W]]
  <2>1. \A x \in W : x.carry \in Int
    OBVIOUS
  <2> HIDE DEF W, After
  <2> QED  BY <1>2, <2>1
<1> HIDE DEF After
<1>5. PICK f : Stepped(f, W, start, step, Nine)
  <2> HIDE DEF W, start, step
  <2> QED  BY <1>1, <1>3, <1>4, Steps
<1>6. f \in [0..Nine -> W] /\ f[0] = start
  BY <1>5 DEF Stepped
<1>7. ASSUME NEW i \in 0..Nine, i # 0 PROVE f[i] = After(InOrder[i], f[i - 1].carry)
  <2>1. i \in 1..Nine /\ i - 1 \in 0..Nine
    BY <1>1, <1>7
  <2>2. f[i] = step[i][f[i - 1]] /\ f[i - 1] \in W
    BY <1>5, <1>6, <2>1 DEF Stepped
  <2> HIDE DEF W
  <2> QED  BY <2>1, <2>2
<1>8. Fits(f)
  <2> HIDE DEF W
  <2> QED  BY <1>6, <1>7
<1>9. SkinHoles(score) = CHOOSE g : Fits(g)
  BY DEF SkinHoles, Leaders, After
<1>10. Fits(SkinHoles(score))
  <2> HIDE DEF Fits
  <2> QED  BY <1>8, <1>9
<1> DEFINE skins == SkinHoles(score)
<1>11. skins[0].carry = 0
  <2>1. skins[0] = [winner |-> NoOne, units |-> 0, carry |-> 0]
    BY <1>1, <1>10
  <2> QED  BY <2>1
<1>12. ASSUME NEW i \in 1..Nine PROVE Brings(score, skins, i)
  <2>1. skins[i] = After(InOrder[i], skins[i - 1].carry)
    <3>1. i \in 0..Nine /\ i # 0
      BY <1>1
    <3> QED  BY <1>10, <3>1
  <2> DEFINE n == InOrder[i]
             lead == CHOOSE g \in Leaders(score, n) : TRUE
  <2>2. /\ won(n) <=> WonAt(score, i)
        /\ won(n) => lead \in DOMAIN score /\ LowestAlone(score, lead, n)
    BY <1>1, OneLeader DEF WonAt
  <2>3. CASE WonAt(score, i)
    <3>1. skins[i] = [winner |-> lead, units |-> 1 + skins[i - 1].carry, carry |-> 0]
      BY <2>1, <2>2, <2>3 DEF After
    <3>2. skins[i].winner = lead /\ skins[i].units = 1 + skins[i - 1].carry /\ skins[i].carry = 0
      <4> HIDE DEF skins, lead
      <4> QED  BY <3>1
    <3> HIDE DEF skins, lead
    <3> QED  BY <2>2, <2>3, <3>2 DEF Brings
  <2>4. CASE ~WonAt(score, i)
    <3>1. skins[i] = [winner |-> NoOne, units |-> 0, carry |-> skins[i - 1].carry + 1]
      BY <2>1, <2>2, <2>4 DEF After
    <3> HIDE DEF skins
    <3> QED  BY <2>4, <3>1 DEF Brings
  <2> QED  BY <2>3, <2>4
<1> QED  BY <1>11, <1>12

\* The last hole won before hole i.
LastWon(score, i) == Max({0} \cup {j \in 1..(i - 1) : WonAt(score, j)})

LEMMA MaxIs ==
    ASSUME NEW S \in SUBSET Int, NEW x \in S, \A y \in S : x >= y
    PROVE  Max(S) = x
<1>1. \A z \in S : (\A y \in S : z >= y) => z = x
  OBVIOUS
<1> QED  BY <1>1 DEF Max

LEMMA LastWonSteps ==
    ASSUME NEW score
    PROVE  /\ LastWon(score, 1) = 0
           /\ \A i \in Nat \ {0} : LastWon(score, i + 1)
                                     = IF WonAt(score, i) THEN i ELSE LastWon(score, i)
<1> DEFINE S(i) == {0} \cup {j \in 1..(i - 1) : WonAt(score, j)}
<1>1. LastWon(score, 1) = 0
  <2>1. S(1) = {0}
    OBVIOUS
  <2>2. Max({0}) = 0
    BY MaxIs
  <2> QED  BY <2>1, <2>2 DEF LastWon
<1>2. ASSUME NEW i \in Nat \ {0}, WonAt(score, i) PROVE LastWon(score, i + 1) = i
  <2>1. S(i + 1) \in SUBSET Int /\ i \in S(i + 1) /\ \A y \in S(i + 1) : i >= y
    BY <1>2
  <2> HIDE DEF S
  <2>2. Max(S(i + 1)) = i
    BY <2>1, MaxIs
  <2> QED  BY <2>2 DEF LastWon, S
<1>3. ASSUME NEW i \in Nat \ {0}, ~WonAt(score, i) PROVE LastWon(score, i + 1) = LastWon(score, i)
  <2>1. S(i + 1) = S(i)
    BY <1>3
  <2> QED  BY <2>1 DEF LastWon
<1> QED  BY <1>1, <1>2, <1>3

LEMMA CarryIs ==
    ASSUME NEW score, Scoring(score), NEW skins, skins[0].carry = 0,
           \A i \in 1..Nine : Brings(score, skins, i)
    PROVE  \A i \in 0..Nine : /\ skins[i].carry = i - LastWon(score, i + 1)
                              /\ LastWon(score, i + 1) \in Int /\ skins[i].carry \in Int
<1> DEFINE Right == {i \in Nat : i <= Nine => /\ skins[i].carry = i - LastWon(score, i + 1)
                                              /\ LastWon(score, i + 1) \in Int /\ skins[i].carry \in Int}
<1>1. 0 \in Right
  BY LastWonSteps
<1>2. ASSUME NEW i \in Right PROVE i + 1 \in Right
  <2> DEFINE k == i + 1
  <2> SUFFICES ASSUME k <= Nine
      PROVE  /\ skins[k].carry = k - LastWon(score, k + 1)
             /\ LastWon(score, k + 1) \in Int /\ skins[k].carry \in Int
    OBVIOUS
  <2>1. Nine \in Nat /\ i \in Nat
    BY NineHoles
  <2>2. k \in 1..Nine /\ k - 1 = i /\ k \in Nat \ {0}
    BY <2>1
  <2>3. skins[i].carry = i - LastWon(score, k) /\ LastWon(score, k) \in Int /\ skins[i].carry \in Int
    BY <2>1, <2>2
  <2>4. LastWon(score, k + 1) = IF WonAt(score, k) THEN k ELSE LastWon(score, k)
    BY <2>2, LastWonSteps
  <2>5. skins[k].carry = IF WonAt(score, k) THEN 0 ELSE skins[i].carry + 1
    <3> HIDE DEF k
    <3> QED  BY <2>2 DEF Brings
  <2>6. k = i + 1
    OBVIOUS
  <2> HIDE DEF k, Right
  <2>7. CASE WonAt(score, k)
    BY <2>2, <2>4, <2>5, <2>7
  <2>8. CASE ~WonAt(score, k)
    BY <2>1, <2>3, <2>4, <2>5, <2>6, <2>8
  <2> QED  BY <2>7, <2>8
<1>3. Right = Nat
  <2>1. Right \in SUBSET Nat
    OBVIOUS
  <2> HIDE DEF Right
  <2> QED  BY <1>1, <1>2, <2>1, SetInduction
<1> SUFFICES ASSUME NEW i \in 0..Nine
    PROVE  /\ skins[i].carry = i - LastWon(score, i + 1)
           /\ LastWon(score, i + 1) \in Int /\ skins[i].carry \in Int
  OBVIOUS
<1>4. i \in Nat /\ i <= Nine
  BY NineHoles
<1>5. i \in Right
  <2> HIDE DEF Right
  <2> QED  BY <1>3, <1>4
<1> QED  BY <1>4, <1>5

\* The units of all holes, and those that are carried in the end, are as many as holes.
LEMMA UnitsAddUp ==
    ASSUME NEW score, Scoring(score), NEW skins, skins[0].carry = 0,
           \A i \in 1..Nine : Brings(score, skins, i)
    PROVE  SumFunction([g \in DOMAIN score |-> UnitsOf(skins, g)]) + skins[Nine].carry = Nine
<1> DEFINE P == DOMAIN score
           T == P \cup {NoOne}
           I == 1..Nine
           units == [i \in I |-> skins[i].units]
           winner == [i \in I |-> skins[i].winner]
           r == [i \in 0..Nine |-> i - skins[i].carry]
           h == [g \in T |-> UnitsOf(skins, g)]
<1>0. Nine \in Nat \ {0} /\ IsFiniteSet(I)
  <2>1. Nine \in Nat \ {0}
    BY NineHoles
  <2> QED  BY <2>1, FS_Interval
<1>1. \A i \in 0..Nine : skins[i].carry \in Int
  BY CarryIs
<1>2. ASSUME NEW i \in I
      PROVE  /\ skins[i].winner \in T /\ skins[i].units \in Int
             /\ i - skins[i].carry = ((i - 1) - skins[i - 1].carry) + skins[i].units
             /\ skins[i].winner = NoOne => skins[i].units = 0
  <2>1. Brings(score, skins, i)
    OBVIOUS
  <2>2. skins[i].carry \in Int /\ skins[i - 1].carry \in Int
    <3>1. i \in 0..Nine /\ i - 1 \in 0..Nine
      BY <1>0
    <3> QED  BY <1>1, <3>1
  <2>3. NoOne \notin P
    BY DEF Scoring
  <2>4. CASE WonAt(score, i)
    <3>1. skins[i].winner \in P /\ skins[i].units = 1 + skins[i - 1].carry /\ skins[i].carry = 0
      BY <2>1, <2>4 DEF Brings
    <3> QED  BY <1>0, <2>2, <2>3, <3>1
  <2>5. CASE ~WonAt(score, i)
    <3>1. /\ skins[i].winner = NoOne /\ skins[i].units = 0
          /\ skins[i].carry = skins[i - 1].carry + 1
      BY <2>1, <2>5 DEF Brings
    <3> QED  BY <1>0, <2>2, <3>1
  <2> QED  BY <2>4, <2>5
<1>3. AddsUp(r, units, Nine)
  <2>1. r[0] = 0
    BY <1>0
  <2>2. ASSUME NEW i \in 1..Nine PROVE r[i] = r[i - 1] + units[i]
    <3>1. i \in 0..Nine /\ i - 1 \in 0..Nine
      BY <1>0
    <3>2. r[i] = i - skins[i].carry /\ r[i - 1] = (i - 1) - skins[i - 1].carry /\ units[i] = skins[i].units
      BY <3>1
    <3> QED  BY <1>2, <3>2
  <2> HIDE DEF r, units
  <2> QED  BY <2>1, <2>2 DEF AddsUp
<1>4. Ints(units, I)
  BY <1>2 DEF Ints
<1>5. Sum(units, I) = Nine - skins[Nine].carry
  <2>1. Nine \in 0..Nine
    BY <1>0
  <2>2. r[Nine] = Sum(units, 1..Nine)
    <3> HIDE DEF r, units
    <3> QED  BY <1>0, <1>3, <1>4, <2>1, SumAlong
  <2>3. r[Nine] = Nine - skins[Nine].carry
    BY <2>1
  <2> HIDE DEF r, units
  <2> QED  BY <2>2, <2>3
<1>6. \A i \in I : winner[i] \in T
  BY <1>2
<1>7. ASSUME NEW g \in T PROVE h[g] = Sum(units, Fiber(winner, I, g))
  <2> DEFINE F == Fiber(winner, I, g)
             u == [i \in F |-> skins[i].units]
  <2>1. F = {k \in 1..Nine : skins[k].winner = g} /\ F \subseteq I
    BY DEF Fiber
  <2>2. UnitsOf(skins, g) = Sum(u, F)
    BY <2>1 DEF UnitsOf, SumFunction, Sum
  <2>3. IsFiniteSet(F) /\ Ints(u, F) /\ \A i \in F : u[i] = units[i]
    <3>1. IsFiniteSet(F)
      BY <1>0, <2>1, FS_Subset
    <3>2. \A i \in F : i \in I
      BY <2>1
    <3> QED  BY <1>2, <3>1, <3>2 DEF Ints
  <2> HIDE DEF F, u, units
  <2>4. Sum(u, F) = Sum(units, F)
    BY <2>3, SumSame
  <2> QED  BY <2>2, <2>4 DEF F
<1>8. IsFiniteSet(P) /\ IsFiniteSet(T) /\ NoOne \in T \ P /\ P \in SUBSET T
  <2>1. IsFiniteSet(P) /\ NoOne \notin P
    BY DEF Scoring
  <2>2. IsFiniteSet(T)
    BY <2>1, FS_AddElement
  <2> QED  BY <2>1, <2>2
<1>9. InParts(h, T, units, winner, I)
  <2> HIDE DEF h, units, winner, T
  <2> QED  BY <1>7 DEF InParts
<1>10. Sum(units, I) = Sum(h, T)
  <2> HIDE DEF h, units, winner, T, I
  <2> QED  BY <1>0, <1>4, <1>6, <1>8, <1>9, SumFibers
<1>11. Ints(h, T)
  <2> SUFFICES ASSUME NEW g \in T PROVE h[g] \in Int
    BY DEF Ints
  <2> DEFINE F == Fiber(winner, I, g)
  <2>1. F \subseteq I
    BY DEF Fiber
  <2>2. IsFiniteSet(F) /\ Ints(units, F)
    <3> HIDE DEF F, units
    <3> QED  BY <1>0, <1>4, <2>1, FS_Subset DEF Ints
  <2> HIDE DEF F, units
  <2>3. Sum(units, F) \in Int
    BY <2>2, SumType
  <2> HIDE DEF h
  <2> QED  BY <1>7, <2>3 DEF F
<1>12. h[NoOne] = 0
  <2> DEFINE F == Fiber(winner, I, NoOne)
  <2>1. \A i \in F : units[i] = 0
    BY <1>2 DEF Fiber
  <2>2. F \subseteq I /\ NoOne \in T
    BY DEF Fiber
  <2>3. IsFiniteSet(F) /\ Cardinality(F) \in Nat
    BY <1>0, <2>2, FS_Subset, FS_CardinalityType
  <2> HIDE DEF F, units
  <2>4. Sum(units, F) = 0 * Cardinality(F)
    BY <2>1, <2>3, SumConstant
  <2> HIDE DEF h
  <2> QED  BY <1>7, <2>2, <2>3, <2>4 DEF F
<1>13. Sum(h, T) = Sum(h, P)
  <2> HIDE DEF h
  <2>1. Sum(h, P \cup {NoOne}) = h[NoOne] + Sum(h, P) /\ Sum(h, P) \in Int
    BY <1>8, <1>11, SumAdd
  <2> QED  BY <1>12, <2>1
<1>14. SumFunction([g \in P |-> UnitsOf(skins, g)]) = Sum(h, P)
  <2> DEFINE k == [g \in P |-> UnitsOf(skins, g)]
  <2>1. SumFunction(k) = Sum(k, P)
    BY DEF SumFunction, Sum
  <2>2. \A g \in P : h[g] = k[g]
    OBVIOUS
  <2>3. Ints(h, P)
    BY <1>8, <1>11 DEF Ints
  <2> HIDE DEF h, k
  <2>4. Sum(h, P) = Sum(k, P)
    BY <1>8, <2>2, <2>3, SumSame
  <2> QED  BY <2>1, <2>4 DEF k
<1>15. skins[Nine].carry \in Int
  BY <1>0, <1>1
<1> HIDE DEF h, units, P, T, I
<1> QED  BY <1>0, <1>5, <1>10, <1>13, <1>14, <1>15 DEF P

LEMMA SkinsFollowRule ==
    ASSUME NEW score, Scoring(score)
    PROVE  ByRule(SkinHoles(score), score)
<1> DEFINE skins == SkinHoles(score)
<1>1. skins[0].carry = 0 /\ \A i \in 1..Nine : Brings(score, skins, i)
  BY HolesBring
<1> HIDE DEF skins
<1>2. Nine \in Nat \ {0}
  BY NineHoles
<1>3. SumFunction([g \in DOMAIN score |-> UnitsOf(skins, g)]) + skins[Nine].carry = Nine
  BY <1>1, UnitsAddUp
<1>4. skins[Nine].carry = Nine - LastWon(score, Nine + 1)
  <2>1. Nine \in 0..Nine
    BY <1>2
  <2> QED  BY <1>1, <2>1, CarryIs
<1>5. ASSUME NEW i \in 1..Nine
      PROVE  IF WonAt(score, i)
             THEN LowestAlone(score, skins[i].winner, InOrder[i]) /\ skins[i].units = i - LastWon(score, i)
             ELSE skins[i].winner = NoOne /\ skins[i].units = 0
  <2>1. Brings(score, skins, i)
    BY <1>1
  <2>2. i - 1 \in 0..Nine /\ (i - 1) + 1 = i /\ i \in Int
    BY <1>2
  <2>3. skins[i - 1].carry = (i - 1) - LastWon(score, i) /\ LastWon(score, i) \in Int
    BY <1>1, <2>2, CarryIs
  <2>4. WonAt(score, i) => skins[i].units = i - LastWon(score, i)
    BY <2>1, <2>2, <2>3 DEF Brings
  <2> QED  BY <2>1, <2>4 DEF Brings
<1>6. ByRule(skins, score)
  BY <1>3, <1>4, <1>5 DEF ByRule, WonAt, LowestAlone, LastWon
<1> QED  BY <1>6 DEF skins

\* With a card found, the nine's holes are their own numbers.
LEMMA NumbersAreHoles ==
    ASSUME Holes \subseteq Numbers
    PROVE  Numbers = Holes /\ \A h \in Holes : Number[h] = h /\ HoleAt[h] = h
<1>1. Holes = Numbers
  <2>1. IsFiniteSet(Numbers) /\ Cardinality(Numbers) = Cardinality(Holes)
    BY NineHoles DEF Nine
  <2> QED  BY <2>1, FS_Subset
<1>2. Holes \in SUBSET Nat /\ \A h, k \in Holes : h < k => Number[h] < Number[k]
  BY ResultsAssumption
<1>3. /\ \A h \in Holes : Number[h] \in Holes
      /\ \A k \in Holes : \E h \in Holes : Number[h] = k
      /\ \A h, k \in Holes : Number[h] = Number[k] => h = k
  <2>1. \A h \in Holes : Number[h] \in Holes
    BY <1>1, NineHoles
  <2>2. \A k \in Holes : HoleAt[k] \in Holes /\ Number[HoleAt[k]] = k
    BY <1>1, NineHoles
  <2>3. \A h, k \in Holes : Number[h] = Number[k] => h = k
    BY NineHoles
  <2> QED  BY <2>1, <2>2, <2>3
<1> DEFINE Wrong == {h \in Holes : Number[h] # h}
<1>4. ASSUME Wrong # {} PROVE FALSE
  <2>1. Wrong \in SUBSET Nat
    BY <1>2
  <2>2. PICK h \in Wrong : \A m \in Wrong : h <= m
    <3> HIDE DEF Wrong
    <3> QED  BY <1>4, <2>1, Smallest
  <2>3. h \in Holes /\ Number[h] # h /\ h \in Nat /\ \A m \in Holes : m < h => Number[m] = m
    BY <1>2, <2>2
  <2>4. PICK k \in Holes : Number[k] = h
    BY <1>3, <2>3
  <2>5. ~(k < h) /\ k # h
    BY <2>3, <2>4
  <2>6. Number[h] < Number[k]
    BY <1>2, <2>3, <2>4, <2>5
  <2>7. Number[h] \in Holes /\ Number[h] < h
    BY <1>3, <2>3, <2>4, <2>6
  <2>8. Number[Number[h]] = Number[h]
    BY <2>3, <2>7
  <2>9. Number[h] = h
    BY <1>3, <2>3, <2>7, <2>8
  <2> QED  BY <2>3, <2>9
<1>5. \A h \in Holes : Number[h] = h
  BY <1>4
<1>6. \A h \in Holes : HoleAt[h] = h
  BY <1>1, <1>5, NineHoles
<1> QED  BY <1>1, <1>5, <1>6

HasCards(w, g) == {m \in MatchesOf(w) : HasCard(m, g)}

LEMMA OneCardOfWeek ==
    ASSUME Inv, NEW w \in Weeks, NEW g \in Golfers, CardFound(w, g)
    PROVE  \E m \in MatchesOf(w) : /\ HasCards(w, g) = {m} /\ g \in SidesOf(m)
                                   /\ Rows(w, g) = {m} \X Holes
<1> DEFINE C == HasCards(w, g)
<1>0. MatchesOf(w) \subseteq Matches /\ IsFiniteSet(Matches) /\ g \in Golfers
  BY ResultsAssumption DEF MatchesOf
<1>1. Rows(w, g) = C \X Holes
  <2>1. ASSUME NEW m \in MatchesOf(w), NEW h \in Holes
        PROVE  h \in DOMAIN book[m][g] <=> HasCard(m, g)
    <3>1. DOMAIN Blank = {}
      BY DEF Blank
    <3>2. book[m][g] = Blank \/ book[m][g] \in [Holes -> 1..15]
      <4>1. book[m] \in [Golfers -> Cards[m] \cup {Blank}] /\ Cards[m] \subseteq [Holes -> 1..15]
        BY <1>0, ResultsAssumption DEF Inv, TypeOK
      <4> QED  BY <4>1
    <3> QED  BY <3>1, <3>2 DEF HasCard
  <2> QED  BY <2>1 DEF Rows, HasCards
<1>2. IsFiniteSet(C) /\ IsFiniteSet(Holes) /\ Nine \in Nat \ {0}
  <2>1. C \subseteq Matches
    BY <1>0 DEF HasCards
  <2>2. IsFiniteSet(C)
    BY <1>0, <2>1, FS_Subset
  <2>3. IsFiniteSet(Holes)
    BY ResultsAssumption
  <2> QED  BY <2>2, <2>3, NineHoles
<1>3. Cardinality(C) * Nine = Nine
  <2>1. Cardinality(C \X Holes) = Cardinality(C) * Cardinality(Holes)
    <3> HIDE DEF C
    <3> QED  BY <1>2, FS_Product
  <2>2. Cardinality(Rows(w, g)) = Nine
    BY DEF CardFound
  <2> QED  BY <1>1, <2>1, <2>2 DEF Nine
<1>4. Cardinality(C) = 1
  <2> DEFINE c == Cardinality(C)
  <2>1. c \in Nat /\ c * Nine = Nine
    BY <1>2, <1>3, FS_CardinalityType
  <2> HIDE DEF c
  <2>2. c = 0 \/ c = 1 \/ c >= 2
    BY <2>1
  <2>3. c >= 2 => c * Nine >= 2 * Nine
    BY <1>2, <2>1
  <2>4. c = 0 => c * Nine = 0
    BY <1>2
  <2>5. c = 1
    BY <1>2, <2>1, <2>2, <2>3, <2>4
  <2> QED  BY <2>5 DEF c
<1>5. PICK m \in C : TRUE
  <2> HIDE DEF C
  <2> QED  BY <1>4, FS_EmptySet
<1>6. C = {m}
  <2>1. IsFiniteSet(C \ {m}) /\ Cardinality(C \ {m}) = Cardinality(C) - 1
    <3> HIDE DEF C
    <3> QED  BY <1>2, <1>5, FS_RemoveElement
  <2>2. C \ {m} = {}
    <3> HIDE DEF C
    <3> QED  BY <1>4, <2>1, FS_EmptySet
  <2> QED  BY <1>5, <2>2
<1>7. m \in MatchesOf(w) /\ HasCard(m, g)
  BY <1>5 DEF HasCards
<1>8. g \in SidesOf(m)
  BY <1>0, <1>7, CardFacts
<1> QED  BY <1>1, <1>6, <1>7, <1>8

PlayedBy(w, g) == CHOOSE m \in MatchesOf(w) : g \in SidesOf(m) /\ HasCard(m, g)

LEMMA FoundIsSaved ==
    ASSUME Inv, NEW w \in Weeks, NEW g \in Golfers, CardFound(w, g)
    PROVE  /\ \A n \in Numbers : /\ CardFoundOf(w, g)[n] = CardOf(PlayedBy(w, g), g)[n]
                                 /\ CardOf(PlayedBy(w, g), g)[n] \in Int
           /\ CardFoundOf(w, g) = CardOf(PlayedBy(w, g), g)
<1>1. PICK m \in MatchesOf(w) : /\ HasCards(w, g) = {m} /\ g \in SidesOf(m)
                                /\ Rows(w, g) = {m} \X Holes
  BY OneCardOfWeek
<1>2. HasCard(m, g) /\ m \in Matches
  BY <1>1 DEF HasCards, MatchesOf
<1>3. PlayedBy(w, g) = m
  <2>1. \A k \in MatchesOf(w) : g \in SidesOf(k) /\ HasCard(k, g) <=> k = m
    BY <1>1 DEF HasCards
  <2> QED  BY <2>1 DEF PlayedBy
<1>4. Holes \subseteq Numbers
  <2> SUFFICES ASSUME NEW h \in Holes PROVE h \in Numbers
    OBVIOUS
  <2>1. <<m, h>> \in Rows(w, g)
    BY <1>1
  <2>2. KeptUnder(<<m, h>>) # {}
    BY <2>1 DEF CardFound
  <2> QED  BY <2>2 DEF KeptUnder, HoleIdByNumber, Numbers
<1>5. Numbers = Holes /\ \A h \in Holes : Number[h] = h /\ HoleAt[h] = h
  BY <1>4, NumbersAreHoles
<1>6. \A h \in Holes : KeptUnder(<<m, h>>) = {h}
  BY <1>5 DEF KeptUnder, HoleIdByNumber
<1>7. CardOf(m, g) \in [Numbers -> Int]
  BY <1>2, <1>1, CardFacts, SidesFacts
<1>8. ASSUME NEW n \in Numbers PROVE CardFoundOf(w, g)[n] = CardOf(m, g)[n]
  <2> DEFINE r == CHOOSE x \in Rows(w, g) : KeptUnder(x) = {n}
  <2>1. <<m, n>> \in Rows(w, g) /\ KeptUnder(<<m, n>>) = {n}
    BY <1>1, <1>5, <1>6
  <2>2. r \in Rows(w, g) /\ KeptUnder(r) = {n}
    BY <2>1
  <2>3. r = <<m, n>>
    <3>1. PICK h \in Holes : r = <<m, h>>
      BY <1>1, <2>2
    <3>2. {h} = {n}
      BY <1>6, <2>2, <3>1
    <3> HIDE DEF r
    <3> QED  BY <3>1, <3>2
  <2>4. CardFoundOf(w, g)[n] = book[r[1]][g][r[2]]
    BY DEF CardFoundOf
  <2>5. CardOf(m, g)[n] = book[m][g][n]
    BY <1>5 DEF CardOf
  <2> HIDE DEF r
  <2> QED  BY <2>3, <2>4, <2>5
<1>9. CardFoundOf(w, g) = CardOf(m, g)
  BY <1>8 DEF CardFoundOf, CardOf
<1> QED  BY <1>3, <1>7, <1>8, <1>9

LEMMA FieldFacts ==
    ASSUME NEW w \in Weeks
    PROVE  IsFiniteSet(Field(w)) /\ Field(w) \subseteq Golfers /\ NoOne \notin Field(w)
<1>1. Field(w) \subseteq Golfers
  BY SidesFacts DEF Field, MatchesOf
<1> QED  BY <1>1, ResultsAssumption, FS_Subset

\* Cards as they were saved.
SavedOf(w) == [g \in Field(w) |-> CardOf(PlayedBy(w, g), g)]

LEMMA GrossByRule ==
    ASSUME Inv, NEW w \in Weeks, ~SkinsPending(w)
    PROVE  ByRule(GrossSkins(w), SavedOf(w)) /\ Scoring(SavedOf(w))
<1>1. \A g \in Field(w) : g \in Golfers /\ CardFound(w, g)
  BY FieldFacts DEF SkinsPending
<1>2. \A g \in Field(w) : CardFoundOf(w, g) = CardOf(PlayedBy(w, g), g)
  BY <1>1, FoundIsSaved
<1>3. GrossSkins(w) = SkinHoles(SavedOf(w))
  BY <1>2 DEF GrossSkins, SavedOf
<1>4. DOMAIN SavedOf(w) = Field(w) /\ \A g \in Field(w) : SavedOf(w)[g] = CardOf(PlayedBy(w, g), g)
  BY DEF SavedOf
<1>5. Scoring(SavedOf(w))
  <2>1. \A g \in Field(w) : \A n \in Numbers : SavedOf(w)[g][n] \in Int
    BY <1>1, <1>4, FoundIsSaved
  <2> QED  BY <1>4, <2>1, FieldFacts DEF Scoring
<1> QED  BY <1>3, <1>5, SkinsFollowRule

LEMMA SmallestOf ==
    ASSUME NEW S, IsFiniteSet(S), S # {}, NEW f, Ints(f, S)
    PROVE  /\ Min({f[x] : x \in S}) \in Int
           /\ \A x \in S : Min({f[y] : y \in S}) <= f[x]
<1> DEFINE key == [x \in S |-> -f[x]]
           T == {f[x] : x \in S}
<1>1. \A x \in S : f[x] \in Int
  BY DEF Ints
<1>2. Ints(key, S) /\ \A x \in S : key[x] = -f[x]
  BY <1>1 DEF Ints
<1> HIDE DEF key
<1>3. PICK x \in S : \A y \in S : key[y] <= key[x]
  BY <1>2, Largest
<1>4. \A y \in S : f[x] <= f[y]
  BY <1>1, <1>2, <1>3
<1>5. f[x] \in T /\ \A t \in T : f[x] <= t
  BY <1>4
<1>6. Min(T) \in T /\ \A t \in T : Min(T) <= t
  <2> HIDE DEF T
  <2> QED  BY <1>5 DEF Min
<1>7. Min(T) \in Int
  BY <1>1, <1>6
<1>8. \A y \in S : Min(T) <= f[y]
  BY <1>6
<1> QED  BY <1>7, <1>8

\* Cards less the strokes over the lowest handicap of the field.
NetOf(w) ==
    [g \in Field(w) |-> [n \in Numbers |->
        SavedOf(w)[g][n] - GivenByRule(snapshot[w][g] - Min({snapshot[w][o] : o \in Field(w)}), n)]]

LEMMA NetsByRule ==
    ASSUME Inv, NEW w \in Weeks, ~NetSkinsPending(w)
    PROVE  ByRule(NetSkins(w), NetOf(w))
<1> DEFINE low == Min({snapshot[w][o] : o \in Field(w)})
           r(g) == snapshot[w][g] - low
<1>1. ~SkinsPending(w) /\ \A g \in Field(w) : snapshot[w][g] # NoHandicap
  BY DEF NetSkinsPending
<1>2. \A g \in Field(w) : g \in Golfers /\ CardFound(w, g)
  BY <1>1, FieldFacts DEF SkinsPending
<1>3. \A g \in Field(w) : snapshot[w][g] \in Int
  BY <1>1, <1>2 DEF Inv, TypeOK
<1>4. low \in Int /\ \A g \in Field(w) : low <= snapshot[w][g]
  <2> DEFINE f == snapshot[w]
  <2>1. Ints(f, Field(w)) /\ IsFiniteSet(Field(w)) /\ Field(w) # {}
    BY <1>1, <1>3, FieldFacts DEF Ints, SkinsPending
  <2> HIDE DEF f
  <2>2. /\ Min({f[o] : o \in Field(w)}) \in Int
        /\ \A g \in Field(w) : Min({f[o] : o \in Field(w)}) <= f[g]
    BY <2>1, SmallestOf
  <2> QED  BY <2>2 DEF f
<1> HIDE DEF low
<1>5. \A g \in Field(w) : r(g) \in Nat
  BY <1>3, <1>4
<1>6. \A g \in Field(w) : /\ CardFoundOf(w, g) = SavedOf(w)[g]
                          /\ \A n \in Numbers : SavedOf(w)[g][n] \in Int
  BY <1>2, FoundIsSaved DEF SavedOf
<1>7. ASSUME NEW g \in Field(w), NEW n \in Numbers
      PROVE  /\ StrokesForRelative(r(g))[n] = GivenByRule(r(g), n)
             /\ CardFoundOf(w, g)[n] - StrokesForRelative(r(g))[n] = NetOf(w)[g][n]
             /\ NetOf(w)[g][n] \in Int
  <2>1. StrokesForRelative(r(g))[n] = GivenByRule(r(g), n) /\ GivenByRule(r(g), n) \in Int
    BY <1>5, StrokesByRule
  <2>2. NetOf(w)[g][n] = SavedOf(w)[g][n] - GivenByRule(r(g), n)
    BY DEF NetOf, low
  <2>3. SavedOf(w)[g][n] \in Int /\ CardFoundOf(w, g)[n] = SavedOf(w)[g][n]
    BY <1>6
  <2> HIDE DEF r
  <2> QED  BY <2>1, <2>2, <2>3
<1>8. NetSkins(w) = SkinHoles([g \in Field(w) |->
          [n \in Numbers |-> CardFoundOf(w, g)[n] - StrokesForRelative(r(g))[n]]])
  BY DEF NetSkins, low
<1>9. [g \in Field(w) |-> [n \in Numbers |-> CardFoundOf(w, g)[n] - StrokesForRelative(r(g))[n]]] = NetOf(w)
  <2>1. ASSUME NEW g \in Field(w)
        PROVE  [n \in Numbers |-> CardFoundOf(w, g)[n] - StrokesForRelative(r(g))[n]] = NetOf(w)[g]
    <3>1. NetOf(w)[g] = [n \in Numbers |-> SavedOf(w)[g][n] - GivenByRule(r(g), n)]
      BY DEF NetOf, low
    <3>2. \A n \in Numbers : CardFoundOf(w, g)[n] - StrokesForRelative(r(g))[n]
                             = SavedOf(w)[g][n] - GivenByRule(r(g), n)
      BY <1>6, <1>7
    <3> HIDE DEF r
    <3> QED  BY <3>1, <3>2
  <2>2. NetOf(w) = [g \in Field(w) |-> NetOf(w)[g]]
    BY DEF NetOf
  <2> HIDE DEF r
  <2> QED  BY <2>1, <2>2
<1>10. Scoring(NetOf(w))
  <2>1. DOMAIN NetOf(w) = Field(w)
    BY DEF NetOf
  <2> QED  BY <1>7, <2>1, FieldFacts DEF Scoring
<1> QED  BY <1>8, <1>9, <1>10, SkinsFollowRule

\* Whatever was saved and reseeded, the skins of a week that is decided follow the rule
\* of holes won alone and of what is carried, over the cards as they were saved and the
\* strokes over the lowest handicap (gross and net skins).
THEOREM SkinsAlwaysByRule == Spec => []SkinsByRule
<1>1. Inv => SkinsByRule
  <2> SUFFICES ASSUME Inv, NEW w \in Weeks
      PROVE  LET Played(g) == CHOOSE m \in MatchesOf(w) : g \in SidesOf(m) /\ HasCard(m, g)
                 gross == [g \in Field(w) |-> CardOf(Played(g), g)]
                 lowest == Min({snapshot[w][o] : o \in Field(w)})
                 net == [g \in Field(w) |-> [n \in Numbers |->
                             gross[g][n] - GivenByRule(snapshot[w][g] - lowest, n)]]
             IN  /\ ~SkinsPending(w) => ByRule(GrossSkins(w), gross)
                 /\ ~NetSkinsPending(w) => ByRule(NetSkins(w), net)
    BY DEF SkinsByRule
  <2> QED  BY GrossByRule, NetsByRule DEF SavedOf, NetOf, PlayedBy
<1> QED  BY <1>1, InvAlways, PTL
=============================================================================
