-------------------------------- MODULE Sums --------------------------------
(***************************************************************************)
(* What the proofs need to know of sums over finite sets: that a sum does  *)
(* not depend on the order of its terms, and is the sum of the sums over   *)
(* parts.                                                                  *)
(***************************************************************************)
EXTENDS Integers, FiniteSets, Functions, FiniteSetTheorems, TLAPS

-----------------------------------------------------------------------------
(* Induction *)

\* Induction over the subsets of a finite set.  What is shown is given as the set of the
\* subsets for which it holds, because no prover here takes a predicate as a parameter.
LEMMA SubsetInduction ==
  ASSUME NEW S, IsFiniteSet(S), NEW Good,
         \A T \in SUBSET S : (\A x \in T : T \ {x} \in Good) => T \in Good
  PROVE  S \in Good
<1> DEFINE Bad == {T \in SUBSET S : T \notin Good}
           R == StrictSubsetOrdering(S)
<1>1. SUFFICES ASSUME Bad # {} PROVE FALSE
  OBVIOUS
<1>2. \A T \in SUBSET S : IsFiniteSet(T)
  BY FS_Subset
<1>3. Bad \subseteq FiniteSubsetsOf(S)
  BY <1>2 DEF FiniteSubsetsOf
<1>4. IsWellFoundedOn(R, FiniteSubsetsOf(S))
  BY FS_StrictSubsetOrderingWellFounded
<1> HIDE DEF R
<1>5. PICK T \in Bad : \A U \in Bad : ~(<<U, T>> \in R)
  BY <1>1, <1>3, <1>4, WFMin
<1>6. ASSUME NEW x \in T
      PROVE  T \ {x} \in Good
  <2>1. <<T \ {x}, T>> \in R
    BY <1>6 DEF R, StrictSubsetOrdering
  <2>2. QED
    BY <1>5, <2>1
<1>7. QED
  BY <1>5, <1>6

-----------------------------------------------------------------------------
(* How a sum is computed *)

\* The term that is added next.
Some(s) == CHOOSE x \in s : TRUE

\* h is the recursive function by which the sum of f over the subsets of S is computed.
Computes(h, f, S) ==
  h = [s \in SUBSET S |-> IF s = {} THEN 0 ELSE f[Some(s)] + h[s \ {Some(s)}]]

LEMMA SumComputed ==
  ASSUME NEW f, NEW S
  PROVE  SumFunctionOnSet(f, S) = (CHOOSE h : Computes(h, f, S))[S]
BY Zenon DEF SumFunctionOnSet, FoldFunctionOnSet, MapThenFoldSet, Computes, Some

LEMMA SomeOf ==
  ASSUME NEW s, s # {}
  PROVE  Some(s) \in s
BY DEF Some

\* What is computed for S does not depend on the set it is a part of.
LEMMA ComputedOnce ==
  ASSUME NEW f, NEW S, NEW T, IsFiniteSet(S), NEW h, NEW k, S \subseteq T,
         Computes(h, f, S), Computes(k, f, T)
  PROVE  h[S] = k[S]
<1> DEFINE Good == {U \in SUBSET S : h[U] = k[U]}
<1>1. ASSUME NEW U \in SUBSET S, \A x \in U : U \ {x} \in Good
      PROVE  U \in Good
  <2>1. CASE U = {}
    <3>1. h[U] = 0 /\ k[U] = 0
      BY <2>1 DEF Computes
    <3>2. QED
      BY <3>1
  <2>2. CASE U # {}
    <3>1. Some(U) \in U
      BY <2>2, SomeOf
    <3>2. h[U] = f[Some(U)] + h[U \ {Some(U)}] /\ k[U] = f[Some(U)] + k[U \ {Some(U)}]
      BY <2>2 DEF Computes
    <3>3. h[U \ {Some(U)}] = k[U \ {Some(U)}]
      BY <1>1, <3>1
    <3>4. QED
      BY <3>2, <3>3
  <2>3. QED
    BY <2>1, <2>2
<1> HIDE DEF Good
<1>2. S \in Good
  BY <1>1, SubsetInduction
<1>3. QED
  BY <1>2 DEF Good

\* There is such a function: it is put together from those for smaller sets.
LEMMA Computable ==
  ASSUME NEW f, NEW S, IsFiniteSet(S)
  PROVE  \E h : Computes(h, f, S)
<1> DEFINE Good == {U \in SUBSET S : \E h : Computes(h, f, U)}
           F(U) == CHOOSE h : Computes(h, f, U)
<1>1. ASSUME NEW U \in SUBSET S, \A x \in U : U \ {x} \in Good
      PROVE  U \in Good
  <2> DEFINE W == [s \in SUBSET U |-> IF s = {} THEN 0
                                      ELSE f[Some(s)] + F(s \ {Some(s)})[s \ {Some(s)}]]
  <2>1. ASSUME NEW s \in SUBSET U, s # U
        PROVE  Computes(F(s), f, s)
    <3>1. PICK x \in U : s \subseteq U \ {x}
      BY <2>1
    <3>2. PICK h : Computes(h, f, U \ {x})
      BY <1>1, <3>1
    <3>3. PICK k : k = [t \in SUBSET s |-> h[t]]
      OBVIOUS
    <3>4. Computes(k, f, s)
      BY <3>1, <3>2, <3>3, SomeOf DEF Computes
    <3>5. QED
      BY <3>4
  <2>2. ASSUME NEW s \in SUBSET U, s # U
        PROVE  W[s] = F(s)[s]
    <3>1. Computes(F(s), f, s)
      BY <2>1, <2>2
    <3>2. CASE s = {}
      BY <3>1, <3>2 DEF Computes
    <3>3. CASE s # {}
      <4>1. PICK v : v = s \ {Some(s)}
        OBVIOUS
      <4>2. v \subseteq s /\ v \in SUBSET U /\ v # U /\ IsFiniteSet(v)
        BY <2>2, <3>3, <4>1, SomeOf, FS_Subset
      <4>3. Computes(F(v), f, v)
        BY <2>1, <4>2
      <4>4. F(v)[v] = F(s)[v]
        BY <3>1, <4>2, <4>3, ComputedOnce
      <4>5. F(s)[s] = f[Some(s)] + F(s)[v]
        BY <3>1, <3>3, <4>1 DEF Computes
      <4>6. W[s] = f[Some(s)] + F(v)[v]
        BY <3>3, <4>1
      <4>7. QED
        BY <4>4, <4>5, <4>6
    <3>4. QED
      BY <3>2, <3>3
  <2>3. ASSUME NEW s \in SUBSET U, s # {}
        PROVE  W[s] = f[Some(s)] + W[s \ {Some(s)}]
    <3>1. s \ {Some(s)} \in SUBSET U /\ s \ {Some(s)} # U
      BY <2>3, SomeOf
    <3>2. W[s] = f[Some(s)] + F(s \ {Some(s)})[s \ {Some(s)}]
      BY <2>3
    <3>3. QED
      BY <2>2, <3>1, <3>2
  <2>4. W[{}] = 0
    OBVIOUS
  <2>5. PICK k : k = W
    OBVIOUS
  <2>6. k = [s \in SUBSET U |-> k[s]]
    BY <2>5
  <2> HIDE DEF W
  <2>7. \A s \in SUBSET U : k[s] = IF s = {} THEN 0 ELSE f[Some(s)] + k[s \ {Some(s)}]
    BY <2>3, <2>4, <2>5
  <2>8. Computes(k, f, U)
    BY <2>6, <2>7, Zenon DEF Computes
  <2>9. QED
    BY <2>8
<1> HIDE DEF Good
<1>2. S \in Good
  BY <1>1, SubsetInduction
<1>3. QED
  BY <1>2 DEF Good
-----------------------------------------------------------------------------
(* What sums are *)

LEMMA SumOfNone ==
  ASSUME NEW f
  PROVE  SumFunctionOnSet(f, {}) = 0
<1>1. IsFiniteSet({})
  BY FS_EmptySet
<1>2. PICK h : h = CHOOSE k : Computes(k, f, {})
  OBVIOUS
<1>3. Computes(h, f, {})
  BY <1>1, <1>2, Computable
<1>4. h[{}] = 0
  BY <1>3 DEF Computes
<1>5. QED
  BY <1>2, <1>4, SumComputed

LEMMA SumOfSome ==
  ASSUME NEW f, NEW S, IsFiniteSet(S), S # {}
  PROVE  SumFunctionOnSet(f, S) = f[Some(S)] + SumFunctionOnSet(f, S \ {Some(S)})
<1>1. PICK T : T = S \ {Some(S)}
  OBVIOUS
<1>2. T \subseteq S /\ IsFiniteSet(T)
  BY <1>1, FS_Subset
<1>3. PICK h, k : h = (CHOOSE l : Computes(l, f, S)) /\ k = (CHOOSE l : Computes(l, f, T))
  OBVIOUS
<1>4. Computes(h, f, S) /\ Computes(k, f, T)
  BY <1>2, <1>3, Computable
<1>5. h[S] = f[Some(S)] + h[T]
  BY <1>1, <1>4 DEF Computes
<1>6. k[T] = h[T]
  BY <1>2, <1>4, ComputedOnce
<1>7. QED
  BY <1>1, <1>3, <1>5, <1>6, SumComputed

LEMMA SumType ==
  ASSUME NEW f, NEW S, IsFiniteSet(S), \A x \in S : f[x] \in Int
  PROVE  SumFunctionOnSet(f, S) \in Int
<1> DEFINE Good == {U \in SUBSET S : SumFunctionOnSet(f, U) \in Int}
<1>1. ASSUME NEW U \in SUBSET S, \A x \in U : U \ {x} \in Good
      PROVE  U \in Good
  <2>1. CASE U = {}
    BY <2>1, SumOfNone
  <2>2. CASE U # {}
    <3>1. Some(U) \in U /\ IsFiniteSet(U)
      BY <2>2, SomeOf, FS_Subset
    <3>2. f[Some(U)] \in Int /\ SumFunctionOnSet(f, U \ {Some(U)}) \in Int
      BY <1>1, <3>1
    <3>3. SumFunctionOnSet(f, U) \in Int
      BY <2>2, <3>1, <3>2, SumOfSome
    <3>4. QED
      BY <3>3
  <2>3. QED
    BY <2>1, <2>2
<1> HIDE DEF Good
<1>2. S \in Good
  BY <1>1, SubsetInduction
<1>3. QED
  BY <1>2 DEF Good

\* A sum does not depend on the order in which its terms are added.
LEMMA SumOfAny ==
  ASSUME NEW f, NEW S, IsFiniteSet(S), \A x \in S : f[x] \in Int, NEW a \in S
  PROVE  SumFunctionOnSet(f, S) = f[a] + SumFunctionOnSet(f, S \ {a})
<1> DEFINE Total(U) == SumFunctionOnSet(f, U)
           Good == {U \in SUBSET S : \A x \in U : Total(U) = f[x] + Total(U \ {x})}
<1>1. ASSUME NEW U \in SUBSET S, \A x \in U : U \ {x} \in Good
      PROVE  U \in Good
  <2> SUFFICES ASSUME NEW x \in U
               PROVE  Total(U) = f[x] + Total(U \ {x})
    OBVIOUS
  <2>1. PICK y : y = Some(U)
    OBVIOUS
  <2>2. y \in U /\ \A T \in SUBSET U : IsFiniteSet(T) /\ Total(T) \in Int
    <3>1. \A T \in SUBSET U : IsFiniteSet(T)
      BY FS_Subset
    <3>2. QED
      BY <2>1, <3>1, SomeOf, SumType
  <2>3. Total(U) = f[y] + Total(U \ {y})
    BY <2>1, <2>2, SumOfSome
  <2> HIDE DEF Total
  <2>4. CASE x # y
    <3>1. U \ {x} \in Good /\ U \ {y} \in Good /\ (U \ {y}) \ {x} = (U \ {x}) \ {y}
      BY <1>1, <2>2
    <3>2. PICK V : V = (U \ {y}) \ {x}
      OBVIOUS
    <3>3. Total(U \ {y}) = f[x] + Total(V) /\ Total(U \ {x}) = f[y] + Total(V)
      BY <2>2, <2>4, <3>1, <3>2
    <3>4. f[x] \in Int /\ f[y] \in Int /\ Total(V) \in Int
      BY <2>2, <3>2
    <3>5. QED
      BY <2>3, <3>3, <3>4
  <2>5. QED
    BY <2>3, <2>4
<1>2. S \in Good
  <2> HIDE DEF Good
  <2>1. QED
    BY <1>1, SubsetInduction
<1>3. QED
  BY <1>2

\* Sums of functions that agree on S.
LEMMA SumOfSame ==
  ASSUME NEW f, NEW k, NEW S, IsFiniteSet(S), \A x \in S : f[x] \in Int /\ f[x] = k[x]
  PROVE  SumFunctionOnSet(f, S) = SumFunctionOnSet(k, S)
<1> DEFINE Good == {U \in SUBSET S : SumFunctionOnSet(f, U) = SumFunctionOnSet(k, U)}
<1>1. ASSUME NEW U \in SUBSET S, \A x \in U : U \ {x} \in Good
      PROVE  U \in Good
  <2>1. CASE U = {}
    BY <2>1, SumOfNone
  <2>2. CASE U # {}
    <3>1. PICK x : x \in U
      BY <2>2
    <3>2. IsFiniteSet(U)
      BY FS_Subset
    <3>3. /\ SumFunctionOnSet(f, U) = f[x] + SumFunctionOnSet(f, U \ {x})
          /\ SumFunctionOnSet(k, U) = k[x] + SumFunctionOnSet(k, U \ {x})
      BY <3>1, <3>2, SumOfAny
    <3>4. SumFunctionOnSet(f, U \ {x}) = SumFunctionOnSet(k, U \ {x})
      BY <1>1, <3>1
    <3>5. QED
      BY <3>1, <3>3, <3>4
  <2>3. QED
    BY <2>1, <2>2
<1> HIDE DEF Good
<1>2. S \in Good
  BY <1>1, SubsetInduction
<1>3. QED
  BY <1>2 DEF Good

LEMMA SumOfUnion ==
  ASSUME NEW f, NEW A, NEW B, IsFiniteSet(A), IsFiniteSet(B), A \cap B = {},
         \A x \in A \cup B : f[x] \in Int
  PROVE  SumFunctionOnSet(f, A \cup B) = SumFunctionOnSet(f, A) + SumFunctionOnSet(f, B)
<1> DEFINE Total(U) == SumFunctionOnSet(f, U)
           Good == {U \in SUBSET B : Total(A \cup U) = Total(A) + Total(U)}
<1>1. ASSUME NEW U \in SUBSET B, \A x \in U : U \ {x} \in Good
      PROVE  U \in Good
  <2>0. Total(A) \in Int
    BY SumType
  <2>1. CASE U = {}
    <3>1. A \cup U = A /\ Total(U) = 0
      BY <2>1, SumOfNone
    <3>2. PICK m : m = Total(A)
      OBVIOUS
    <3>3. m = m + 0
      BY <2>0, <3>2
    <3>4. QED
      BY <3>1, <3>2, <3>3
  <2>2. CASE U # {}
    <3>1. PICK x : x \in U
      BY <2>2
    <3>2. IsFiniteSet(U) /\ IsFiniteSet(A \cup U) /\ IsFiniteSet(U \ {x})
      BY FS_Subset, FS_Union
    <3>3. Total(U) = f[x] + Total(U \ {x})
      BY <3>1, <3>2, SumOfAny
    <3>4. Total(A \cup U) = f[x] + Total((A \cup U) \ {x})
      BY <3>1, <3>2, SumOfAny
    <3>5. (A \cup U) \ {x} = A \cup (U \ {x})
      BY <3>1
    <3>6. Total(U \ {x}) \in Int
      BY <3>2, SumType
    <3>7. Total(A \cup (U \ {x})) = Total(A) + Total(U \ {x})
      BY <1>1, <3>1
    <3>8. PICK i, m, n : i = f[x] /\ m = Total(A) /\ n = Total(U \ {x})
      OBVIOUS
    <3>9. Total(A \cup U) = i + (m + n) /\ Total(U) = i + n
      BY <3>3, <3>4, <3>5, <3>7, <3>8, Zenon
    <3>10. i + (m + n) = m + (i + n)
      BY <2>0, <3>1, <3>6, <3>8
    <3>11. QED
      BY <3>8, <3>9, <3>10, Zenon
  <2>3. QED
    BY <2>1, <2>2
<1> HIDE DEF Good
<1>2. B \in Good
  BY <1>1, SubsetInduction
<1>3. QED
  BY <1>2 DEF Good

\* S is split into parts, one for each d of D, and k is the sum of f over each.
SumsParts(k, D, f, S, part) ==
  /\ \A x \in S : part[x] \in D
  /\ \A d \in D : k[d] = SumFunctionOnSet(f, {x \in S : part[x] = d})

\* The sum over the sums of the parts is the sum over the whole.
LEMMA SumOfParts ==
  ASSUME NEW f, NEW S, IsFiniteSet(S), \A x \in S : f[x] \in Int, NEW D, IsFiniteSet(D),
         NEW part, NEW k, SumsParts(k, D, f, S, part)
  PROVE  SumFunctionOnSet(k, D) = SumFunctionOnSet(f, S)
<1> USE DEF SumsParts
<1> DEFINE Of(E) == {x \in S : part[x] \in E}
           Good == {E \in SUBSET D : SumFunctionOnSet(k, E) = SumFunctionOnSet(f, Of(E))}
<1>1. \A E : IsFiniteSet(Of(E)) /\ \A x \in Of(E) : f[x] \in Int
  BY FS_Subset
<1>2. \A d \in D : k[d] = SumFunctionOnSet(f, Of({d})) /\ k[d] \in Int
  <2> SUFFICES ASSUME NEW d \in D
               PROVE  k[d] = SumFunctionOnSet(f, Of({d})) /\ k[d] \in Int
    OBVIOUS
  <2>1. Of({d}) = {x \in S : part[x] = d}
    OBVIOUS
  <2>2. k[d] = SumFunctionOnSet(f, Of({d}))
    BY <2>1
  <2> HIDE DEF Of
  <2>3. QED
    BY <1>1, <2>2, SumType
<1>3. ASSUME NEW E \in SUBSET D, \A d \in E : E \ {d} \in Good
      PROVE  E \in Good
  <2>1. CASE E = {}
    <3>1. Of(E) = {}
      BY <2>1
    <3>2. QED
      BY <2>1, <3>1, SumOfNone
  <2>2. CASE E # {}
    <3>1. PICK d : d \in E
      BY <2>2
    <3>2. PICK F, A, B : F = E \ {d} /\ A = Of(F) /\ B = Of({d})
      OBVIOUS
    <3>3. A \cap B = {} /\ A \cup B = Of(E)
      BY <3>1, <3>2
    <3>4. SumFunctionOnSet(f, Of(E)) = SumFunctionOnSet(f, A) + SumFunctionOnSet(f, B)
      <4> HIDE DEF Of
      <4>1. IsFiniteSet(A) /\ IsFiniteSet(B) /\ \A x \in A \cup B : f[x] \in Int
        BY <1>1, <3>2
      <4>2. SumFunctionOnSet(f, A \cup B) = SumFunctionOnSet(f, A) + SumFunctionOnSet(f, B)
        BY <3>3, <4>1, SumOfUnion
      <4>3. QED
        BY <3>3, <4>2
    <3>5. SumFunctionOnSet(k, E) = k[d] + SumFunctionOnSet(k, F)
      <4>1. IsFiniteSet(E) /\ \A c \in E : k[c] \in Int
        BY <1>2, FS_Subset
      <4>2. QED
        BY <3>1, <3>2, <4>1, SumOfAny
    <3>6. k[d] = SumFunctionOnSet(f, B)
      BY <1>2, <3>1, <3>2
    <3>7. SumFunctionOnSet(k, F) = SumFunctionOnSet(f, A)
      BY <1>3, <3>1, <3>2
    <3>8. SumFunctionOnSet(f, A) \in Int /\ SumFunctionOnSet(f, B) \in Int
      <4> HIDE DEF Of
      <4>1. QED
        BY <1>1, <3>2, SumType
    <3>9. SumFunctionOnSet(k, E) = SumFunctionOnSet(f, Of(E))
      <4>1. PICK m, n, t : /\ m = SumFunctionOnSet(f, A) /\ n = SumFunctionOnSet(f, B)
                           /\ t = SumFunctionOnSet(f, Of(E))
        OBVIOUS
      <4>2. t = m + n /\ SumFunctionOnSet(k, E) = n + m
        BY <3>4, <3>5, <3>6, <3>7, <4>1, Zenon
      <4>3. m + n = n + m
        BY <3>8, <4>1
      <4>4. QED
        BY <4>1, <4>2, <4>3, Zenon
    <3>10. QED
      BY <3>9
  <2>3. QED
    BY <2>1, <2>2
<1>4. D \in Good
  <2> HIDE DEF Good
  <2>1. QED
    BY <1>3, SubsetInduction
<1>5. Of(D) = S
  OBVIOUS
<1>6. QED
  BY <1>4, <1>5

\* Counting is summing ones.
LEMMA CountIsSum ==
  ASSUME NEW S, IsFiniteSet(S), NEW f, \A x \in S : f[x] = 1
  PROVE  SumFunctionOnSet(f, S) = Cardinality(S)
<1> DEFINE Good == {U \in SUBSET S : SumFunctionOnSet(f, U) = Cardinality(U)}
<1>1. ASSUME NEW U \in SUBSET S, \A x \in U : U \ {x} \in Good
      PROVE  U \in Good
  <2>1. CASE U = {}
    BY <2>1, SumOfNone, FS_EmptySet
  <2>2. CASE U # {}
    <3>1. PICK x : x \in U
      BY <2>2
    <3>2. IsFiniteSet(U) /\ Cardinality(U) \in Nat
      BY FS_Subset, FS_CardinalityType
    <3>3. Cardinality(U \ {x}) = Cardinality(U) - 1
      BY <3>1, <3>2, FS_RemoveElement
    <3>4. SumFunctionOnSet(f, U) = f[x] + SumFunctionOnSet(f, U \ {x})
      BY <3>1, <3>2, SumOfAny
    <3>5. f[x] = 1 /\ SumFunctionOnSet(f, U \ {x}) = Cardinality(U \ {x})
      BY <1>1, <3>1
    <3>6. SumFunctionOnSet(f, U) = Cardinality(U)
      BY <3>2, <3>3, <3>4, <3>5
    <3>7. QED
      BY <3>6
  <2>3. QED
    BY <2>1, <2>2
<1> HIDE DEF Good
<1>2. S \in Good
  BY <1>1, SubsetInduction
<1>3. QED
  BY <1>2 DEF Good
=============================================================================
