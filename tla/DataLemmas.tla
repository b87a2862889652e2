----------------------------- MODULE DataLemmas -----------------------------
(***************************************************************************)
(* Lemmas about the data of the models, which the theorems of the          *)
(* components rest on: induction, recursive functions, sums over finite    *)
(* sets, sequences of sequences and queues.  They are stated with sets in  *)
(* the place of predicates: a set that contains what follows from its      *)
(* elements contains everything.                                           *)
(***************************************************************************)
EXTENDS Integers, SequencesExt, SequenceTheorems, FiniteSetTheorems, WellFoundedInduction, TLAPS

-----------------------------------------------------------------------------
(* Induction *)

\* A set of natural numbers that is not empty has a least element.
LEMMA LeastNatural ==
  ASSUME NEW S \in SUBSET Nat, S # {}
  PROVE  \E x \in S : \A y \in S : x <= y
<1>1. \E x \in S : \A y \in S : ~ (<<y, x>> \in OpToRel(<, Nat))
  BY NatLessThanWellFounded, WFMin
<1>2. PICK x \in S : \A y \in S : ~ (<<y, x>> \in OpToRel(<, Nat))
  BY <1>1
<1>3. ASSUME NEW y \in S PROVE x <= y
  <2>1. ~ (<<y, x>> \in OpToRel(<, Nat))
    BY <1>2
  <2>2. QED
    BY <2>1 DEF OpToRel
<1>4. QED
  BY <1>3

\* A set that contains 0 and the successors of its elements contains Nat.
LEMMA Induction ==
  ASSUME NEW G, 0 \in G, \A n \in Nat : n \in G => n + 1 \in G
  PROVE  \A n \in Nat : n \in G
<1> SUFFICES ASSUME Nat \ G # {} PROVE FALSE
  OBVIOUS
<1>1. PICK x \in Nat \ G : \A y \in Nat \ G : x <= y
  BY LeastNatural
<1>2. x # 0 /\ x - 1 \in Nat
  BY <1>1
<1>3. x - 1 \in G
  BY <1>1, <1>2
<1>4. QED
  BY <1>1, <1>2, <1>3

\* A set that contains a subset of S whenever it contains those with an element
\* less contains S.
LEMMA SubsetInduction ==
  ASSUME NEW S, IsFiniteSet(S), NEW G,
         \A T \in SUBSET S : (\A x \in T : T \ {x} \in G) => T \in G
  PROVE  \A T \in SUBSET S : T \in G
<1> DEFINE H == {n \in Nat : \A T \in SUBSET S : Cardinality(T) = n => T \in G}
<1>1. \A T \in SUBSET S : IsFiniteSet(T) /\ Cardinality(T) \in Nat
  BY FS_Subset, FS_CardinalityType
<1>2. 0 \in H
  <2>1. ASSUME NEW T \in SUBSET S, Cardinality(T) = 0 PROVE T \in G
    <3>1. T = {}
      BY <1>1, <2>1, FS_EmptySet
    <3>2. QED
      BY <3>1
  <2>2. QED
    BY <2>1
<1>3. ASSUME NEW n \in Nat, n \in H PROVE n + 1 \in H
  <2>1. ASSUME NEW T \in SUBSET S, Cardinality(T) = n + 1 PROVE T \in G
    <3>1. ASSUME NEW x \in T PROVE T \ {x} \in G
      <4>1. Cardinality(T \ {x}) = n
        BY <1>1, <2>1, FS_RemoveElement
      <4>2. QED
        BY <1>3, <4>1
    <3>2. QED
      BY <3>1
  <2>2. QED
    BY <2>1
<1> HIDE DEF H
<1>4. \A n \in Nat : n \in H
  BY <1>2, <1>3, Induction
<1>5. QED
  BY <1>1, <1>4 DEF H

\* A function on the natural numbers may be defined by its value at 0 and the step
\* from each value to the next, in a set V.
IsRecursion(V, v, step, n, f) ==
  f \in [0..n -> V] /\ f[0] = v /\ \A i \in 0..n : i + 1 \in 0..n => f[i + 1] = step[i][f[i]]

LEMMA RecursionExists ==
  ASSUME NEW V, NEW v \in V, NEW step \in [Nat -> [V -> V]]
  PROVE  \A n \in Nat : \E f : IsRecursion(V, v, step, n, f)
<1> DEFINE G == {n \in Nat : \E f : IsRecursion(V, v, step, n, f)}
<1>1. 0 \in G
  <2>1. IsRecursion(V, v, step, 0, [i \in 0..0 |-> v])
    BY DEF IsRecursion
  <2>2. QED
    BY <2>1
<1>2. ASSUME NEW n \in Nat, n \in G PROVE n + 1 \in G
  <2>1. PICK f : IsRecursion(V, v, step, n, f)
    BY <1>2
  <2>2. /\ f \in [0..n -> V] /\ f[0] = v
        /\ \A i \in 0..n : i + 1 \in 0..n => f[i + 1] = step[i][f[i]]
    BY <2>1 DEF IsRecursion
  <2> DEFINE next == step[n][f[n]]
             g == [i \in 0..(n + 1) |-> IF i = n + 1 THEN next ELSE f[i]]
  <2>3. next \in V
    BY <2>2
  <2>4. \A i \in 0..n : g[i] = f[i]
    OBVIOUS
  <2>5. g[n + 1] = next
    OBVIOUS
  <2>6. g \in [0..(n + 1) -> V]
    BY <2>2, <2>3
  <2> HIDE DEF g
  <2>7. ASSUME NEW i \in 0..(n + 1), i + 1 \in 0..(n + 1) PROVE g[i + 1] = step[i][g[i]]
    <3>1. CASE i = n
      BY <2>4, <2>5, <3>1
    <3>2. CASE i # n
      <4>1. i \in 0..n /\ i + 1 \in 0..n
        BY <2>7, <3>2
      <4>2. QED
        BY <2>2, <2>4, <4>1
    <3>3. QED
      BY <3>1, <3>2
  <2>8. g[0] = v
    BY <2>2, <2>4
  <2>9. IsRecursion(V, v, step, n + 1, g)
    BY <2>6, <2>7, <2>8 DEF IsRecursion
  <2>10. QED
    BY <2>9
<1> HIDE DEF G
<1>3. \A n \in Nat : n \in G
  BY <1>1, <1>2, Induction
<1>4. QED
  BY <1>3 DEF G

-----------------------------------------------------------------------------
(* The fold that sums *)

\* g gives the sums of f over the sets of D, as the fold computes them: any
\* element first.
Chosen(s) == CHOOSE x \in s : TRUE
Sums(f, D, g) ==
  g = [s \in D |-> IF s = {} THEN 0 ELSE f[Chosen(s)] + g[s \ {Chosen(s)}]]

Tabulates(f, S, g) == Sums(f, SUBSET S, g)

LEMMA SumUnfolds ==
  ASSUME NEW f, NEW S
  PROVE  SumFunctionOnSet(f, S) = (CHOOSE g : Tabulates(f, S, g))[S]
BY DEF SumFunctionOnSet, FoldFunctionOnSet, MapThenFoldSet, Tabulates, Sums, Chosen
LEMMA SumsAt ==
  ASSUME NEW f, NEW D, NEW g, Sums(f, D, g), NEW s \in D
  PROVE  /\ s = {} => g[s] = 0
         /\ s # {} => g[s] = f[Chosen(s)] + g[s \ {Chosen(s)}]
<1>1. g[s] = IF s = {} THEN 0 ELSE f[Chosen(s)] + g[s \ {Chosen(s)}]
  BY DEF Sums
<1>2. QED
  BY <1>1

LEMMA TabulatesAt ==
  ASSUME NEW f, NEW S, NEW g, Tabulates(f, S, g), NEW s \in SUBSET S
  PROVE  /\ s = {} => g[s] = 0
         /\ s # {} => g[s] = f[Chosen(s)] + g[s \ {Chosen(s)}]
<1>1. Sums(f, SUBSET S, g)
  BY DEF Tabulates
<1>2. QED
  BY <1>1, SumsAt

\* Sums over the sets of up to n elements give those of up to n + 1.
LEMMA SumsExist ==
  ASSUME NEW f, NEW S, IsFiniteSet(S)
  PROVE  \E g : Tabulates(f, S, g)
<1> DEFINE D(n) == {s \in SUBSET S : Cardinality(s) <= n}
           G == {n \in Nat : \E g : Sums(f, D(n), g)}
<1>1. \A T \in SUBSET S : IsFiniteSet(T) /\ Cardinality(T) \in Nat /\ Cardinality(T) <= Cardinality(S)
  BY FS_Subset, FS_CardinalityType
<1>2. ASSUME NEW s \in SUBSET S, s # {}
      PROVE  /\ Chosen(s) \in s /\ s \ {Chosen(s)} \in SUBSET S
             /\ Cardinality(s \ {Chosen(s)}) = Cardinality(s) - 1
  <2>1. Chosen(s) \in s
    BY <1>2 DEF Chosen
  <2>2. QED
    BY <1>1, <2>1, FS_RemoveElement
<1>3. 0 \in G
  <2> DEFINE g == [s \in D(0) |-> 0]
  <2>1. \A s \in D(0) : s = {}
    BY <1>1, FS_EmptySet
  <2>2. Sums(f, D(0), g)
    BY <2>1 DEF Sums
  <2>3. QED
    BY <2>2
<1>4. ASSUME NEW n \in Nat, n \in G PROVE n + 1 \in G
  <2>1. PICK h : Sums(f, D(n), h)
    BY <1>4
  <2> DEFINE g == [s \in D(n + 1) |-> IF s = {} THEN 0 ELSE f[Chosen(s)] + h[s \ {Chosen(s)}]]
  <2>2. \A s \in D(n) : s \in D(n + 1)
    BY <1>1
  <2> HIDE DEF D
  <2>3. \A s \in D(n) : g[s] = h[s]
    BY <2>1, <2>2, SumsAt
  <2>4. \A s \in D(n + 1) : s # {} => s \ {Chosen(s)} \in D(n)
    BY <1>1, <1>2 DEF D
  <2>5. \A s \in D(n + 1) : s # {} => h[s \ {Chosen(s)}] = g[s \ {Chosen(s)}]
    BY <2>3, <2>4
  <2>6. Sums(f, D(n + 1), g)
    BY <2>5 DEF Sums
  <2>7. QED
    BY <2>6
<1> HIDE DEF G
<1>5. Cardinality(S) \in G
  <2>1. Cardinality(S) \in Nat
    BY FS_CardinalityType
  <2>2. QED
    BY <1>3, <1>4, <2>1, Induction
<1>6. D(Cardinality(S)) = SUBSET S
  BY <1>1
<1>7. QED
  BY <1>5, <1>6 DEF G, Tabulates

LEMMA SumsAgree ==
  ASSUME NEW f, NEW S, IsFiniteSet(S), NEW T \in SUBSET S,
         NEW g, Tabulates(f, S, g), NEW h, Tabulates(f, T, h)
  PROVE  g[T] = h[T]
<1> DEFINE G == {U \in SUBSET T : g[U] = h[U]}
<1>1. ASSUME NEW U \in SUBSET T, \A x \in U : U \ {x} \in G PROVE U \in G
  <2>1. CASE U = {}
    <3>1. U \in SUBSET S /\ U \in SUBSET T
      OBVIOUS
    <3>2. g[U] = 0 /\ h[U] = 0
      BY <2>1, <3>1, TabulatesAt
    <3>3. QED
      BY <2>1, <3>2
  <2>2. CASE U # {}
    <3>1. Chosen(U) \in U
      BY <2>2 DEF Chosen
    <3>2. g[U \ {Chosen(U)}] = h[U \ {Chosen(U)}]
      BY <1>1, <3>1
    <3>3. U \in SUBSET S
      OBVIOUS
    <3>4. g[U] = f[Chosen(U)] + g[U \ {Chosen(U)}] /\ h[U] = f[Chosen(U)] + h[U \ {Chosen(U)}]
      BY <2>2, <3>3, TabulatesAt
    <3>5. QED
      BY <3>2, <3>4
  <2>3. QED
    BY <2>1, <2>2
<1> HIDE DEF G
<1>2. T \in G
  BY <1>1, FS_Subset, SubsetInduction
<1>3. QED
  BY <1>2 DEF G

\* Over a set with elements the sum is that of any one and the rest.
LEMMA SumStep ==
  ASSUME NEW f, NEW S, IsFiniteSet(S)
  PROVE  /\ S = {} => SumFunctionOnSet(f, S) = 0
         /\ S # {} => /\ Chosen(S) \in S
                      /\ SumFunctionOnSet(f, S) = f[Chosen(S)] + SumFunctionOnSet(f, S \ {Chosen(S)})
<1> DEFINE g == CHOOSE g : Tabulates(f, S, g)
<1>1. Tabulates(f, S, g) /\ SumFunctionOnSet(f, S) = g[S]
  BY SumsExist, SumUnfolds
<1> HIDE DEF g
<1>2. CASE S = {}
  BY <1>1, <1>2, TabulatesAt
<1>3. CASE S # {}
  <2> DEFINE T == S \ {Chosen(S)}
             h == CHOOSE h : Tabulates(f, T, h)
  <2>1. Chosen(S) \in S
    BY <1>3 DEF Chosen
  <2>2. IsFiniteSet(T) /\ T \in SUBSET S
    BY FS_Subset
  <2> HIDE DEF T
  <2>3. Tabulates(f, T, h) /\ SumFunctionOnSet(f, T) = h[T]
    BY <2>2, SumsExist, SumUnfolds
  <2> HIDE DEF h
  <2>4. g[T] = h[T]
    BY <1>1, <2>2, <2>3, SumsAgree
  <2>5. g[S] = f[Chosen(S)] + g[T]
    <3>1. \A s \in SUBSET S : s # {} => g[s] = f[Chosen(s)] + g[s \ {Chosen(s)}]
      BY <1>1, TabulatesAt
    <3>2. g[S] = f[Chosen(S)] + g[S \ {Chosen(S)}]
      BY <1>3, <3>1
    <3>3. QED
      BY <3>2 DEF T
  <2>6. QED
    BY <1>1, <1>3, <2>1, <2>3, <2>4, <2>5 DEF T
<1>4. QED
  BY <1>2, <1>3

-----------------------------------------------------------------------------
(* Sums of integers and of naturals *)

LEMMA SumOfNone == ASSUME NEW f PROVE SumFunctionOnSet(f, {}) = 0
BY SumStep, FS_EmptySet

\* A sum of naturals is natural, a sum of integers an integer.
LEMMA SumType ==
  ASSUME NEW f, NEW S, IsFiniteSet(S), NEW N \in {Nat, Int}, \A x \in S : f[x] \in N
  PROVE  SumFunctionOnSet(f, S) \in N
<1> DEFINE G == {T \in SUBSET S : SumFunctionOnSet(f, T) \in N}
<1>1. ASSUME NEW T \in SUBSET S, \A x \in T : T \ {x} \in G PROVE T \in G
  <2>1. IsFiniteSet(T)
    BY FS_Subset
  <2>2. CASE T = {}
    BY <2>2, SumOfNone
  <2>3. CASE T # {}
    <3>1. Chosen(T) \in T /\ SumFunctionOnSet(f, T) = f[Chosen(T)] + SumFunctionOnSet(f, T \ {Chosen(T)})
      BY <2>1, <2>3, SumStep
    <3>2. f[Chosen(T)] \in N /\ SumFunctionOnSet(f, T \ {Chosen(T)}) \in N
      BY <1>1, <3>1
    <3>3. \A a, b \in N : a + b \in N
      OBVIOUS
    <3>4. QED
      BY <3>1, <3>2, <3>3
  <2>4. QED
    BY <2>2, <2>3
<1> HIDE DEF G
<1>2. S \in G
  <2>1. \A T \in SUBSET S : T \in G
    BY <1>1, SubsetInduction
  <2>2. QED
    BY <2>1
<1>3. QED
  BY <1>2 DEF G

\* Any element may be taken first.
LEMMA SumRemove ==
  ASSUME NEW f, NEW S, IsFiniteSet(S), \A x \in S : f[x] \in Int, NEW y \in S
  PROVE  SumFunctionOnSet(f, S) = f[y] + SumFunctionOnSet(f, S \ {y})
<1> DEFINE G == {T \in SUBSET S : \A x \in T :
                  SumFunctionOnSet(f, T) = f[x] + SumFunctionOnSet(f, T \ {x})}
<1>1. ASSUME NEW T \in SUBSET S, \A x \in T : T \ {x} \in G PROVE T \in G
  <2>1. \A U \in SUBSET T : IsFiniteSet(U) /\ SumFunctionOnSet(f, U) \in Int
    <3>1. \A U \in SUBSET T : IsFiniteSet(U) /\ \A x \in U : f[x] \in Int
      BY FS_Subset
    <3>2. QED
      BY <3>1, SumType
  <2>2. ASSUME NEW x \in T PROVE SumFunctionOnSet(f, T) = f[x] + SumFunctionOnSet(f, T \ {x})
    <3> DEFINE p == Chosen(T)
    <3>1. p \in T /\ SumFunctionOnSet(f, T) = f[p] + SumFunctionOnSet(f, T \ {p})
      BY <2>1, SumStep
    <3> HIDE DEF p
    <3>2. CASE p = x
      BY <3>1, <3>2
    <3>3. CASE p # x
      <4>1. T \ {p} \in G /\ T \ {x} \in G
        BY <1>1, <3>1
      <4>2. SumFunctionOnSet(f, T \ {p}) = f[x] + SumFunctionOnSet(f, (T \ {p}) \ {x})
        BY <3>3, <4>1
      <4>3. SumFunctionOnSet(f, T \ {x}) = f[p] + SumFunctionOnSet(f, (T \ {x}) \ {p})
        BY <3>1, <3>3, <4>1
      <4>4. (T \ {p}) \ {x} = (T \ {x}) \ {p}
        OBVIOUS
      <4>5. f[x] \in Int /\ f[p] \in Int /\ SumFunctionOnSet(f, (T \ {x}) \ {p}) \in Int
        BY <2>1, <3>1
      <4>6. \A a, b, c \in Int : a + (b + c) = b + (a + c)
        OBVIOUS
      <4>7. f[p] + (f[x] + SumFunctionOnSet(f, (T \ {x}) \ {p}))
              = f[x] + (f[p] + SumFunctionOnSet(f, (T \ {x}) \ {p}))
        BY <4>5, <4>6
      <4>8. QED
        BY <3>1, <4>2, <4>3, <4>4, <4>7
    <3>4. QED
      BY <3>2, <3>3
  <2>3. QED
    BY <2>2
<1> HIDE DEF G
<1>2. S \in G
  <2>1. \A T \in SUBSET S : T \in G
    BY <1>1, SubsetInduction
  <2>2. QED
    BY <2>1
<1>3. QED
  BY <1>2 DEF G

\* Functions with the same values on S have the same sum over it.
LEMMA SumSame ==
  ASSUME NEW S, IsFiniteSet(S), NEW f, NEW g, \A x \in S : f[x] = g[x]
  PROVE  SumFunctionOnSet(f, S) = SumFunctionOnSet(g, S)
<1> DEFINE G == {T \in SUBSET S : SumFunctionOnSet(f, T) = SumFunctionOnSet(g, T)}
<1>1. ASSUME NEW T \in SUBSET S, \A x \in T : T \ {x} \in G PROVE T \in G
  <2>1. IsFiniteSet(T)
    BY FS_Subset
  <2>2. CASE T = {}
    BY <2>2, SumOfNone
  <2>3. CASE T # {}
    <3>1. Chosen(T) \in T /\ \A e \in {f, g} :
            SumFunctionOnSet(e, T) = e[Chosen(T)] + SumFunctionOnSet(e, T \ {Chosen(T)})
      BY <2>1, <2>3, SumStep
    <3>2. /\ f[Chosen(T)] = g[Chosen(T)]
          /\ SumFunctionOnSet(f, T \ {Chosen(T)}) = SumFunctionOnSet(g, T \ {Chosen(T)})
      BY <1>1, <3>1
    <3>3. QED
      BY <3>1, <3>2
  <2>4. QED
    BY <2>2, <2>3
<1> HIDE DEF G
<1>2. S \in G
  <2>1. \A T \in SUBSET S : T \in G
    BY <1>1, SubsetInduction
  <2>2. QED
    BY <2>1
<1>3. QED
  BY <1>2 DEF G

LEMMA SumOfZeros ==
  ASSUME NEW S, IsFiniteSet(S), NEW f, \A x \in S : f[x] = 0
  PROVE  SumFunctionOnSet(f, S) = 0
<1> DEFINE G == {T \in SUBSET S : SumFunctionOnSet(f, T) = 0}
<1>1. ASSUME NEW T \in SUBSET S, \A x \in T : T \ {x} \in G PROVE T \in G
  <2>1. IsFiniteSet(T)
    BY FS_Subset
  <2>2. CASE T = {}
    BY <2>2, SumOfNone
  <2>3. CASE T # {}
    <3>1. Chosen(T) \in T /\ SumFunctionOnSet(f, T) = f[Chosen(T)] + SumFunctionOnSet(f, T \ {Chosen(T)})
      BY <2>1, <2>3, SumStep
    <3>2. f[Chosen(T)] = 0 /\ SumFunctionOnSet(f, T \ {Chosen(T)}) = 0
      BY <1>1, <3>1
    <3>3. QED
      BY <3>1, <3>2
  <2>4. QED
    BY <2>2, <2>3
<1> HIDE DEF G
<1>2. S \in G
  <2>1. \A T \in SUBSET S : T \in G
    BY <1>1, SubsetInduction
  <2>2. QED
    BY <2>1
<1>3. QED
  BY <1>2 DEF G

\* A function that is one more at y and else the same has a sum that is one more.
LEMMA SumIncrement ==
  ASSUME NEW S, IsFiniteSet(S), NEW f, \A x \in S : f[x] \in Int, NEW y \in S,
         NEW g, g[y] = f[y] + 1, \A x \in S \ {y} : g[x] = f[x]
  PROVE  SumFunctionOnSet(g, S) = SumFunctionOnSet(f, S) + 1
<1> DEFINE T == S \ {y}
<1>1. IsFiniteSet(T)
  BY FS_Subset
<1>2. \A x \in S : g[x] \in Int
  OBVIOUS
<1>3. SumFunctionOnSet(g, T) = SumFunctionOnSet(f, T)
  BY <1>1, SumSame
<1>4. SumFunctionOnSet(f, T) \in Int
  BY <1>1, SumType
<1>5. SumFunctionOnSet(g, S) = g[y] + SumFunctionOnSet(g, T)
  BY <1>2, SumRemove
<1>6. SumFunctionOnSet(f, S) = f[y] + SumFunctionOnSet(f, T)
  BY SumRemove
<1> HIDE DEF T
<1>7. \A a, b \in Int : (a + 1) + b = (a + b) + 1
  OBVIOUS
<1>8. (f[y] + 1) + SumFunctionOnSet(f, T) = (f[y] + SumFunctionOnSet(f, T)) + 1
  BY <1>4, <1>7
<1>9. QED
  BY <1>3, <1>5, <1>6, <1>8

-----------------------------------------------------------------------------
(* Sums over the first indices *)

LEMMA SegmentsAreFinite == \A n \in Int : IsFiniteSet(0..n)
BY FS_Interval

LEMMA SumOfMore ==
  ASSUME NEW n \in Nat, NEW f, \A i \in 0..n : f[i] \in Int
  PROVE  SumFunctionOnSet(f, 0..n) = f[n] + SumFunctionOnSet(f, 0..n-1)
<1>1. n \in 0..n /\ (0..n) \ {n} = 0..n-1
  OBVIOUS
<1>2. IsFiniteSet(0..n)
  BY SegmentsAreFinite
<1>3. SumFunctionOnSet(f, 0..n) = f[n] + SumFunctionOnSet(f, (0..n) \ {n})
  BY <1>1, <1>2, SumRemove
<1>4. QED
  BY <1>1, <1>3

\* Values that move on by one index, with nothing in place of the first, lose
\* what was at the last.
LEMMA SumShift ==
  ASSUME NEW n \in Nat, NEW f, \A i \in 0..n : f[i] \in Int,
         NEW g, g[0] = 0, \A i \in 1..n : g[i] = f[i-1]
  PROVE  SumFunctionOnSet(g, 0..n) = SumFunctionOnSet(f, 0..n-1)
<1> DEFINE G == {k \in Nat : k <= n => SumFunctionOnSet(g, 0..k) = SumFunctionOnSet(f, 0..k-1)}
<1>1. \A i \in 0..n : g[i] \in Int
  OBVIOUS
<1>2. 0 \in G
  <2>1. SumFunctionOnSet(g, 0..0) = g[0] + SumFunctionOnSet(g, 0..0-1)
    <3>1. 0 \in Nat /\ \A i \in 0..0 : g[i] \in Int
      BY <1>1
    <3>2. QED
      BY <3>1, SumOfMore
  <2>2. 0..0-1 = {}
    OBVIOUS
  <2>3. QED
    BY <2>1, <2>2, SumOfNone
<1>3. ASSUME NEW k \in Nat, k \in G PROVE k + 1 \in G
  <2> SUFFICES ASSUME k + 1 <= n
               PROVE  SumFunctionOnSet(g, 0..k+1) = SumFunctionOnSet(f, 0..(k+1)-1)
    OBVIOUS
  <2>1. SumFunctionOnSet(g, 0..k+1) = g[k + 1] + SumFunctionOnSet(g, 0..(k+1)-1)
    <3>1. \A i \in 0..k+1 : g[i] \in Int
      BY <1>1
    <3>2. QED
      BY <3>1, SumOfMore
  <2>2. SumFunctionOnSet(f, 0..k) = f[k] + SumFunctionOnSet(f, 0..k-1)
    <3>1. \A i \in 0..k : f[i] \in Int
      OBVIOUS
    <3>2. QED
      BY <3>1, SumOfMore
  <2>3. (k + 1) - 1 = k /\ g[k + 1] = f[k]
    OBVIOUS
  <2>4. SumFunctionOnSet(g, 0..k) = SumFunctionOnSet(f, 0..k-1)
    BY <1>3
  <2>5. QED
    BY <2>1, <2>2, <2>3, <2>4
<1> HIDE DEF G
<1>4. n \in G
  BY <1>2, <1>3, Induction
<1>5. QED
  BY <1>4 DEF G

-----------------------------------------------------------------------------
(* Sequences of sequences *)

LEMMA ToSetOfConcat ==
  ASSUME NEW S, NEW s \in Seq(S), NEW t \in Seq(S)
  PROVE  s \o t \in Seq(S) /\ ToSet(s \o t) = ToSet(s) \union ToSet(t)
<1>1. /\ s \o t \in Seq(S) /\ Len(s \o t) = Len(s) + Len(t)
      /\ \A i \in 1..Len(s \o t) : (s \o t)[i] = IF i <= Len(s) THEN s[i] ELSE t[i - Len(s)]
  BY ConcatProperties
<1>2. /\ DOMAIN s = 1..Len(s) /\ DOMAIN t = 1..Len(t) /\ DOMAIN (s \o t) = 1..Len(s \o t)
      /\ Len(s) \in Nat /\ Len(t) \in Nat
  BY <1>1, LenProperties
<1>3. ASSUME NEW i \in 1..Len(t) PROVE t[i] = (s \o t)[Len(s) + i] /\ Len(s) + i \in 1..Len(s \o t)
  BY <1>1, <1>2
<1>4. ASSUME NEW i \in 1..Len(s) PROVE s[i] = (s \o t)[i] /\ i \in 1..Len(s \o t)
  BY <1>1, <1>2
<1>5. ToSet(s \o t) \subseteq ToSet(s) \union ToSet(t)
  BY <1>1, <1>2 DEF ToSet
<1>6. ToSet(s) \union ToSet(t) \subseteq ToSet(s \o t)
  BY <1>2, <1>3, <1>4 DEF ToSet
<1>7. QED
  BY <1>1, <1>5, <1>6

\* What is in A occurs once at most in s.
Once(A, s) == \A i, j \in DOMAIN s : s[i] \in A /\ s[i] = s[j] => i = j

LEMMA OnceInConcat ==
  ASSUME NEW S, NEW A, NEW s \in Seq(S), NEW t \in Seq(S), Once(A, s), Once(A, t),
         \A x \in A : x \notin ToSet(s) \/ x \notin ToSet(t)
  PROVE  Once(A, s \o t)
<1> DEFINE u == s \o t
           m == Len(s)
           n == Len(t)
<1>1. /\ u \in Seq(S) /\ Len(u) = m + n
      /\ \A i \in 1..(m + n) : u[i] = IF i <= m THEN s[i] ELSE t[i - m]
  BY ConcatProperties
<1>2. DOMAIN s = 1..m /\ DOMAIN t = 1..n /\ DOMAIN u = 1..(m + n) /\ m \in Nat /\ n \in Nat
  BY <1>1, LenProperties
<1> HIDE DEF u, m, n
<1>3. \A i \in 1..(m + n) :
        \/ i \in 1..m /\ u[i] = s[i] /\ u[i] \in ToSet(s)
        \/ i - m \in 1..n /\ u[i] = t[i - m] /\ u[i] \in ToSet(t)
  <2>1. \A i \in 1..(m + n) : i <= m => i \in 1..m
    BY <1>2
  <2>2. \A i \in 1..(m + n) : ~(i <= m) => i - m \in 1..n
    BY <1>2
  <2>3. QED
    BY <1>1, <1>2, <2>1, <2>2 DEF ToSet
<1>4. ASSUME NEW i \in 1..(m + n), NEW j \in 1..(m + n), u[i] \in A, u[i] = u[j]
      PROVE  i = j
  <2>1. CASE u[i] \in ToSet(s)
    <3>1. i \in 1..m /\ u[i] = s[i] /\ j \in 1..m /\ u[j] = s[j]
      BY <1>3, <1>4, <2>1
    <3>2. QED
      BY <1>2, <1>4, <3>1 DEF Once
  <2>2. CASE u[i] \notin ToSet(s)
    <3>1. i - m \in 1..n /\ u[i] = t[i - m] /\ j - m \in 1..n /\ u[j] = t[j - m]
      BY <1>3, <1>4, <2>2
    <3>2. i - m = j - m
      BY <1>2, <1>4, <3>1 DEF Once
    <3>3. QED
      BY <1>2, <3>2
  <2>3. QED
    BY <2>1, <2>2
<1>5. QED
  BY <1>2, <1>4 DEF Once, u

\* What is in A occurs once at most in all of the sequences.
Apart(A, seqs) ==
  /\ \A i \in DOMAIN seqs : Once(A, seqs[i])
  /\ \A i, j \in DOMAIN seqs : i # j => \A x \in A : x \notin ToSet(seqs[i]) \/ x \notin ToSet(seqs[j])

\* g gives the concatenations of the first sequences, as FlattenSeq computes them.
Flattens(seqs, g) ==
  g = [i \in 1..Len(seqs) |-> IF i = 1 THEN seqs[i] ELSE g[i-1] \o seqs[i]]

LEMMA FlattenUnfolds ==
  ASSUME NEW seqs, Len(seqs) # 0
  PROVE  FlattenSeq(seqs) = (CHOOSE g : Flattens(seqs, g))[Len(seqs)]
BY DEF FlattenSeq, Flattens

LEMMA FlattensAt ==
  ASSUME NEW seqs, NEW g, Flattens(seqs, g), NEW i \in 1..Len(seqs)
  PROVE  (i = 1 => g[i] = seqs[i]) /\ (i # 1 => g[i] = g[i-1] \o seqs[i])
<1>1. g[i] = IF i = 1 THEN seqs[i] ELSE g[i-1] \o seqs[i]
  BY DEF Flattens
<1>2. QED
  BY <1>1

\* The elements of the first n.
Elements(seqs, n) == UNION {ToSet(seqs[i]) : i \in 1..n}

LEMMA ElementsOfMore ==
  ASSUME NEW seqs, NEW n \in Nat
  PROVE  Elements(seqs, n + 1) = Elements(seqs, n) \union ToSet(seqs[n + 1])
<1>1. 1..(n + 1) = 1..n \union {n + 1}
  OBVIOUS
<1>2. QED
  BY <1>1 DEF Elements

LEMMA FlattensExists ==
  ASSUME NEW S, NEW seqs \in Seq(Seq(S)), Len(seqs) # 0
  PROVE  \E g : Flattens(seqs, g)
<1> DEFINE n == Len(seqs)
           V == Seq(S)
           step == [i \in Nat |-> [t \in V |-> IF i + 2 \in 1..n THEN t \o seqs[i + 2] ELSE t]]
<1>1. n \in Nat /\ n >= 1 /\ \A i \in 1..n : seqs[i] \in V
  BY LenProperties
<1>2. step \in [Nat -> [V -> V]]
  <2>1. ASSUME NEW i \in Nat, NEW t \in V
        PROVE  (IF i + 2 \in 1..n THEN t \o seqs[i + 2] ELSE t) \in V
    BY <1>1, ConcatProperties
  <2>2. QED
    BY <2>1
<1>3. seqs[1] \in V /\ n - 1 \in Nat
  BY <1>1
<1> HIDE DEF step, V
<1>4. PICK f : IsRecursion(V, seqs[1], step, n - 1, f)
  BY <1>2, <1>3, RecursionExists
<1> DEFINE g == [i \in 1..n |-> f[i - 1]]
<1>5. ASSUME NEW i \in 1..n PROVE g[i] = IF i = 1 THEN seqs[i] ELSE g[i-1] \o seqs[i]
  <2>1. CASE i = 1
    BY <1>4, <2>1 DEF IsRecursion
  <2>2. CASE i # 1
    <3>1. i - 2 \in 0..(n - 1) /\ i - 2 + 1 \in 0..(n - 1) /\ i - 1 \in 1..n /\ i - 2 \in Nat
      BY <1>1, <2>2
    <3>2. f[i - 2 + 1] = step[i - 2][f[i - 2]] /\ f[i - 2] \in V
      BY <1>4, <3>1 DEF IsRecursion
    <3>3. i - 2 + 1 = i - 1 /\ i - 2 + 2 = i /\ i - 1 - 1 = i - 2
      BY <1>1
    <3>4. step[i - 2][f[i - 2]] = f[i - 2] \o seqs[i]
      BY <3>1, <3>2, <3>3 DEF step
    <3>5. g[i] = f[i - 1] /\ g[i - 1] = f[i - 2]
      BY <3>1, <3>3
    <3>6. QED
      BY <2>2, <3>2, <3>3, <3>4, <3>5
  <2>3. QED
    BY <2>1, <2>2
<1>6. g = [i \in 1..n |-> g[i]]
  OBVIOUS
<1> HIDE DEF g
<1>7. Flattens(seqs, g)
  BY <1>5, <1>6 DEF Flattens
<1>8. QED
  BY <1>7

\* The elements of the flattened sequence are those of its parts, as often.
LEMMA FlattenOnce ==
  ASSUME NEW S, NEW seqs \in Seq(Seq(S)), NEW A
  PROVE  /\ FlattenSeq(seqs) \in Seq(S)
         /\ ToSet(FlattenSeq(seqs)) = UNION {ToSet(seqs[i]) : i \in DOMAIN seqs}
         /\ Apart(A, seqs) => Once(A, FlattenSeq(seqs))
<1> DEFINE n == Len(seqs)
<1>1. n \in Nat /\ DOMAIN seqs = 1..n /\ \A i \in 1..n : seqs[i] \in Seq(S)
  BY LenProperties
<1>2. CASE n = 0
  <2>1. FlattenSeq(seqs) = seqs /\ seqs = << >> /\ DOMAIN seqs = {}
    BY <1>1, <1>2, EmptySeq DEF FlattenSeq
  <2>2. QED
    BY <2>1 DEF ToSet, Once
<1>3. CASE n # 0
  <2>1. PICK g : Flattens(seqs, g) /\ FlattenSeq(seqs) = g[n]
    BY <1>3, FlattenUnfolds, FlattensExists
  <2> DEFINE G == {k \in Nat : k + 1 \in 1..n =>
                     /\ g[k + 1] \in Seq(S) /\ ToSet(g[k + 1]) = Elements(seqs, k + 1)
                     /\ Apart(A, seqs) => Once(A, g[k + 1])}
  <2>2. 1 \in 1..n /\ \A i \in 1..n : seqs[i] \in Seq(S)
    BY <1>1, <1>3
  <2> HIDE DEF n
  <2>3. \A i \in 1..n : i = 1 => g[i] = seqs[i]
    BY <2>1, FlattensAt DEF n
  <2>4. \A i \in 1..n : i # 1 => g[i] = g[i - 1] \o seqs[i]
    BY <2>1, FlattensAt DEF n
  <2>5. 0 \in G
    <3>1. Elements(seqs, 1) = ToSet(seqs[1])
      <4>1. 1..1 = {1}
        OBVIOUS
      <4>2. QED
        BY <4>1 DEF Elements
    <3>2. Apart(A, seqs) => Once(A, seqs[1])
      BY <1>1, <2>2 DEF Apart
    <3>3. QED
      BY <2>2, <2>3, <3>1, <3>2
  <2>6. ASSUME NEW k \in Nat, k \in G, k + 1 + 1 \in 1..n
        PROVE  /\ g[k + 1 + 1] \in Seq(S) /\ ToSet(g[k + 1 + 1]) = Elements(seqs, k + 1 + 1)
               /\ Apart(A, seqs) => Once(A, g[k + 1 + 1])
    <3> DEFINE s == g[k + 1]
               t == seqs[k + 1 + 1]
    <3>1. k + 1 \in 1..n /\ k + 1 \in Nat /\ k + 1 + 1 # 1 /\ k + 1 + 1 - 1 = k + 1
      BY <1>1, <2>6
    <3>2. s \in Seq(S) /\ ToSet(s) = Elements(seqs, k + 1) /\ (Apart(A, seqs) => Once(A, s))
      BY <2>6, <3>1
    <3>3. t \in Seq(S)
      BY <2>2, <2>6
    <3>4. g[k + 1 + 1] = s \o t
      <4>1. PICK m \in 1..n : m = k + 1 + 1
        BY <2>6
      <4>2. m # 1 /\ m - 1 = k + 1
        BY <4>1
      <4>3. g[m] = g[m - 1] \o seqs[m]
        BY <2>4, <4>2
      <4>4. QED
        BY <4>1, <4>2, <4>3
    <3> HIDE DEF s
    <3>5. ASSUME Apart(A, seqs) PROVE Once(A, s \o t)
      <4>1. PICK m \in 1..n : m = k + 1 + 1
        BY <2>6
      <4>2. Once(A, t)
        BY <1>1, <3>5, <4>1 DEF Apart
      <4>3. ASSUME NEW x \in A, x \in ToSet(s), x \in ToSet(t) PROVE FALSE
        <5>1. PICK i \in 1..(k + 1) : x \in ToSet(seqs[i])
          BY <3>2, <4>3 DEF Elements
        <5>2. i \in 1..n /\ i # m
          BY <1>1, <3>1, <4>1
        <5>3. QED
          BY <1>1, <3>5, <4>1, <4>3, <5>1, <5>2 DEF Apart
      <4> HIDE DEF t
      <4>4. QED
        BY <3>2, <3>3, <3>5, <4>2, <4>3, OnceInConcat
    <3> HIDE DEF t
    <3>6. s \o t \in Seq(S) /\ ToSet(s \o t) = ToSet(s) \union ToSet(t)
      BY <3>2, <3>3, ToSetOfConcat
    <3>7. Elements(seqs, k + 1 + 1) = Elements(seqs, k + 1) \union ToSet(t)
      BY <3>1, ElementsOfMore DEF t
    <3>8. QED
      BY <3>2, <3>4, <3>5, <3>6, <3>7
  <2>7. ASSUME NEW k \in Nat, k \in G PROVE k + 1 \in G
    BY <2>6, <2>7
  <2> HIDE DEF G
  <2>8. \A k \in Nat : k \in G
    BY <2>5, <2>7, Induction
  <2>9. n - 1 \in Nat /\ n - 1 + 1 = n /\ n \in 1..n
    BY <1>1, <1>3
  <2>10. /\ FlattenSeq(seqs) \in Seq(S) /\ ToSet(FlattenSeq(seqs)) = Elements(seqs, n)
         /\ Apart(A, seqs) => Once(A, FlattenSeq(seqs))
    BY <2>1, <2>8, <2>9 DEF G
  <2>11. QED
    BY <1>1, <2>10 DEF Elements
<1>4. QED
  BY <1>2, <1>3

LEMMA FlattenType ==
  ASSUME NEW S, NEW seqs \in Seq(Seq(S))
  PROVE  /\ FlattenSeq(seqs) \in Seq(S)
         /\ ToSet(FlattenSeq(seqs)) = UNION {ToSet(seqs[i]) : i \in DOMAIN seqs}
BY FlattenOnce

LEMMA OneType ==
  ASSUME NEW S, NEW x \in S
  PROVE  <<x>> \in Seq(S) /\ ToSet(<<x>>) = {x}
BY DEF ToSet

LEMMA NoneType == ASSUME NEW S PROVE << >> \in Seq(S) /\ ToSet(<< >>) = {}
BY DEF ToSet

\* seqs has x[i] alone or nothing in place i, according to B.
Ones(S, n, B, x, seqs) ==
  /\ seqs = [i \in 1..n |-> seqs[i]]
  /\ \A i \in 1..n : i \in B => x[i] \in S /\ seqs[i] = <<x[i]>>
  /\ \A i \in 1..n : i \notin B => seqs[i] = << >>

Taken(n, B, x) == {x[i] : i \in {i \in 1..n : i \in B}}

LEMMA OnesType ==
  ASSUME NEW S, NEW n \in Nat, NEW B, NEW x, NEW seqs, Ones(S, n, B, x, seqs)
  PROVE  FlattenSeq(seqs) \in Seq(S) /\ ToSet(FlattenSeq(seqs)) = Taken(n, B, x)
<1>0. /\ seqs = [i \in 1..n |-> seqs[i]]
      /\ \A i \in 1..n : i \in B => x[i] \in S /\ seqs[i] = <<x[i]>>
      /\ \A i \in 1..n : i \notin B => seqs[i] = << >>
  BY DEF Ones
<1>1. ASSUME NEW i \in 1..n
      PROVE  /\ seqs[i] \in Seq(S)
             /\ \A y : y \in ToSet(seqs[i]) <=> i \in B /\ y = x[i]
  <2>1. CASE i \in B
    <3>1. x[i] \in S /\ seqs[i] = <<x[i]>>
      BY <1>0, <2>1
    <3>2. seqs[i] \in Seq(S) /\ ToSet(seqs[i]) = {x[i]}
      BY <3>1, OneType
    <3>3. QED
      BY <2>1, <3>2
  <2>2. CASE i \notin B
    <3>1. seqs[i] = << >>
      BY <1>0, <2>2
    <3>2. seqs[i] \in Seq(S) /\ ToSet(seqs[i]) = {}
      BY <3>1, NoneType
    <3>3. QED
      BY <2>2, <3>2
  <2>3. QED
    BY <2>1, <2>2
<1>2. seqs \in [1..n -> Seq(S)]
  BY <1>0, <1>1
<1>3. seqs \in Seq(Seq(S))
  BY <1>2, IsASeq
<1>4. FlattenSeq(seqs) \in Seq(S)
  BY <1>3, FlattenType
<1>5. ToSet(FlattenSeq(seqs)) = UNION {ToSet(seqs[i]) : i \in 1..n}
  <2>1. DOMAIN seqs = 1..n
    BY <1>0
  <2>2. QED
    BY <1>3, <2>1, FlattenType
<1>6. UNION {ToSet(seqs[i]) : i \in 1..n} \subseteq {x[i] : i \in {i \in 1..n : i \in B}}
  BY <1>1
<1>7. ASSUME NEW y \in {x[i] : i \in {i \in 1..n : i \in B}}
      PROVE  y \in UNION {ToSet(seqs[i]) : i \in 1..n}
  <2>1. PICK i \in 1..n : i \in B /\ y = x[i]
    OBVIOUS
  <2>2. y \in ToSet(seqs[i])
    BY <1>1, <2>1
  <2>3. QED
    BY <2>2
<1>8. QED
  BY <1>4, <1>5, <1>6, <1>7 DEF Taken

LEMMA OnesOnce ==
  ASSUME NEW S, NEW n \in Nat, NEW B, NEW x, NEW seqs, Ones(S, n, B, x, seqs), NEW A,
         \A i, j \in 1..n : i \in B /\ j \in B /\ x[i] \in A /\ x[i] = x[j] => i = j
  PROVE  Once(A, FlattenSeq(seqs))
<1>0. /\ seqs = [i \in 1..n |-> seqs[i]]
      /\ \A i \in 1..n : i \in B => x[i] \in S /\ seqs[i] = <<x[i]>>
      /\ \A i \in 1..n : i \notin B => seqs[i] = << >>
  BY DEF Ones
<1>1. ASSUME NEW i \in 1..n
      PROVE  /\ seqs[i] \in Seq(S) /\ Once(A, seqs[i])
             /\ \A y : y \in ToSet(seqs[i]) => i \in B /\ y = x[i]
  <2>1. CASE i \in B
    <3>1. x[i] \in S /\ seqs[i] = <<x[i]>>
      BY <1>0, <2>1
    <3>2. seqs[i] \in Seq(S) /\ ToSet(seqs[i]) = {x[i]}
      BY <3>1, OneType
    <3>3. Once(A, <<x[i]>>)
      BY DEF Once
    <3>4. QED
      BY <2>1, <3>1, <3>2, <3>3
  <2>2. CASE i \notin B
    <3>1. seqs[i] = << >>
      BY <1>0, <2>2
    <3>2. seqs[i] \in Seq(S) /\ ToSet(seqs[i]) = {}
      BY <3>1, NoneType
    <3>3. Once(A, << >>)
      BY DEF Once
    <3>4. QED
      BY <3>1, <3>2, <3>3
  <2>3. QED
    BY <2>1, <2>2
<1>2. seqs \in [1..n -> Seq(S)] /\ DOMAIN seqs = 1..n
  BY <1>0, <1>1
<1>3. seqs \in Seq(Seq(S))
  BY <1>2, IsASeq
<1>4. Apart(A, seqs)
  <2>1. \A i, j \in 1..n : i # j => \A y \in A : y \notin ToSet(seqs[i]) \/ y \notin ToSet(seqs[j])
    BY <1>1
  <2>2. QED
    BY <1>1, <1>2, <2>1 DEF Apart
<1>5. QED
  BY <1>3, <1>4, FlattenOnce

-----------------------------------------------------------------------------
(* Queues *)

\* The levels of a sequence do not fall, and differ by one at most.
Layered(s, level) ==
  \A i, j \in 1..Len(s) : i <= j => /\ level[s[i]] <= level[s[j]]
                                    /\ level[s[j]] <= level[s[i]] + 1

LEMMA TailType ==
  ASSUME NEW S, NEW s \in Seq(S), s # << >>
  PROVE  /\ Head(s) \in ToSet(s) /\ Head(s) \in S /\ Tail(s) \in Seq(S)
         /\ Len(Tail(s)) = Len(s) - 1
         /\ ToSet(s) = {Head(s)} \union ToSet(Tail(s))
<1>1. /\ Head(s) \in S /\ Tail(s) \in Seq(S) /\ Len(Tail(s)) = Len(s) - 1 /\ Head(s) = s[1]
      /\ \A i \in 1..Len(s) - 1 : Tail(s)[i] = s[i + 1]
  BY HeadTailProperties, LenProperties
<1>2. DOMAIN s = 1..Len(s) /\ DOMAIN Tail(s) = 1..Len(s) - 1 /\ Len(s) \in Nat /\ Len(s) >= 1
  BY <1>1, LenProperties, EmptySeq
<1>3. Head(s) \in ToSet(s)
  BY <1>1, <1>2 DEF ToSet
<1>4. ToSet(s) \subseteq {Head(s)} \union ToSet(Tail(s))
  <2>1. ASSUME NEW i \in 1..Len(s) PROVE s[i] \in {Head(s)} \union ToSet(Tail(s))
    <3>1. CASE i = 1
      BY <1>1, <3>1
    <3>2. CASE i # 1
      <4>1. i - 1 \in 1..Len(s) - 1 /\ i - 1 + 1 = i
        BY <1>2, <3>2
      <4>2. Tail(s)[i - 1] = s[i]
        BY <1>1, <4>1
      <4>3. QED
        BY <1>2, <4>1, <4>2 DEF ToSet
    <3>3. QED
      BY <3>1, <3>2
  <2>2. QED
    BY <1>2, <2>1 DEF ToSet
<1>5. ToSet(Tail(s)) \subseteq ToSet(s)
  <2>1. ASSUME NEW i \in 1..Len(s) - 1 PROVE Tail(s)[i] \in ToSet(s)
    <3>1. i + 1 \in 1..Len(s)
      BY <1>2
    <3>2. QED
      BY <1>1, <1>2, <3>1 DEF ToSet
  <2>2. QED
    BY <1>2, <2>1 DEF ToSet
<1>6. QED
  BY <1>1, <1>3, <1>4, <1>5

\* A search that takes the first of its queue, and adds what is one level above it,
\* keeps its queue in layers.
LEMMA StaysLayered ==
  ASSUME NEW S, NEW level \in [S -> Nat], NEW s \in Seq(S), s # << >>, Layered(s, level),
         NEW t \in Seq(S), \A x \in ToSet(t) : level[x] = level[Head(s)] + 1
  PROVE  Layered(Tail(s) \o t, level)
<1> DEFINE u == Tail(s) \o t
           m == Len(s) - 1
           d == level[Head(s)]
<1>1. /\ Head(s) \in S /\ Tail(s) \in Seq(S) /\ Len(Tail(s)) = m /\ Head(s) = s[1]
      /\ \A i \in 1..m : Tail(s)[i] = s[i + 1]
  BY HeadTailProperties, LenProperties
<1>2. /\ DOMAIN s = 1..Len(s) /\ Len(s) \in Nat /\ Len(s) >= 1 /\ Len(t) \in Nat
      /\ DOMAIN t = 1..Len(t)
  BY <1>1, LenProperties, EmptySeq
<1>3. /\ Len(u) = m + Len(t)
      /\ \A i \in 1..Len(u) : u[i] = IF i <= m THEN Tail(s)[i] ELSE t[i - m]
  BY <1>1, ConcatProperties
<1>4. \A i \in 1..Len(s) : s[i] \in S /\ level[s[i]] \in Nat
  BY <1>2
<1>5. d \in Nat
  BY <1>1
<1> HIDE DEF u, m, d
<1>6. ASSUME NEW i \in 1..Len(u), i <= m
      PROVE  /\ i + 1 \in 1..Len(s) /\ level[u[i]] = level[s[i + 1]]
             /\ d <= level[u[i]] /\ level[u[i]] <= d + 1 /\ level[u[i]] \in Nat
  <2>1. i \in 1..m /\ i + 1 \in 1..Len(s) /\ 1 \in 1..Len(s) /\ 1 <= i + 1
    BY <1>2, <1>6 DEF m
  <2>2. u[i] = s[i + 1]
    BY <1>1, <1>3, <1>6, <2>1
  <2>3. level[s[1]] <= level[s[i + 1]] /\ level[s[i + 1]] <= level[s[1]] + 1
    BY <2>1 DEF Layered
  <2>4. QED
    BY <1>1, <1>4, <2>1, <2>2, <2>3 DEF d
<1>7. ASSUME NEW i \in 1..Len(u), ~(i <= m)
      PROVE  level[u[i]] = d + 1
  <2>1. i - m \in 1..Len(t) /\ u[i] = t[i - m]
    <3>1. m \in Int /\ i \in 1..(m + Len(t)) /\ Len(t) \in Nat
      BY <1>2, <1>3 DEF m
    <3>2. i - m \in 1..Len(t)
      BY <1>7, <3>1
    <3>3. QED
      BY <1>3, <1>7, <3>2
  <2>2. t[i - m] \in ToSet(t)
    BY <1>2, <2>1 DEF ToSet
  <2>3. QED
    BY <2>1, <2>2 DEF d
<1>8. ASSUME NEW i \in 1..Len(u), NEW j \in 1..Len(u), i <= j
      PROVE  level[u[i]] <= level[u[j]] /\ level[u[j]] <= level[u[i]] + 1
  <2>1. CASE j <= m
    <3>1. i <= m /\ i + 1 <= j + 1
      BY <1>2, <1>8, <2>1 DEF m
    <3>2. /\ i + 1 \in 1..Len(s) /\ j + 1 \in 1..Len(s)
          /\ level[u[i]] = level[s[i + 1]] /\ level[u[j]] = level[s[j + 1]]
      BY <1>6, <2>1, <3>1
    <3>3. level[s[i + 1]] <= level[s[j + 1]] /\ level[s[j + 1]] <= level[s[i + 1]] + 1
      BY <3>1, <3>2 DEF Layered
    <3>4. QED
      BY <3>2, <3>3
  <2>2. CASE i <= m /\ ~(j <= m)
    <3>1. level[u[j]] = d + 1 /\ d <= level[u[i]] /\ level[u[i]] <= d + 1 /\ level[u[i]] \in Nat
      BY <1>6, <1>7, <2>2
    <3>2. QED
      BY <1>5, <3>1
  <2>3. CASE ~(i <= m) /\ ~(j <= m)
    <3>1. level[u[j]] = d + 1 /\ level[u[i]] = d + 1
      BY <1>7, <2>3
    <3>2. QED
      BY <1>5, <3>1
  <2>4. i \in Int /\ j \in Int /\ m \in Int
    BY <1>2 DEF m
  <2>5. QED
    BY <1>8, <2>1, <2>2, <2>3, <2>4
<1>9. QED
  BY <1>8 DEF Layered, u
=============================================================================
