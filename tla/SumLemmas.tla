------------------------------- MODULE SumLemmas -------------------------------
(***************************************************************************)
(* Sums over a finite set, as SumFunctionOnSet computes them: one element  *)
(* after the other, in the order CHOOSE picks them; and sets of naturals.  *)
(***************************************************************************)
EXTENDS FiniteSetsExt, FiniteSetTheorems, WellFoundedInduction, TLAPS

\* Induction over the natural numbers, for the property of being a member of Good.
LEMMA NumberInduction ==
  ASSUME NEW Good, 0 \in Good, \A n \in Nat : n \in Good => n + 1 \in Good
  PROVE  \A n \in Nat : n \in Good
<1> DEFINE Bad == {n \in Nat : n \notin Good}
<1> SUFFICES ASSUME Bad # {} PROVE FALSE
  OBVIOUS
<1>1. PICK n \in Bad : \A m \in Bad : <<m, n>> \notin OpToRel(<, Nat)
  <2> HIDE DEF Bad
  <2>1. Bad \subseteq Nat
    BY DEF Bad
  <2> QED BY <2>1, NatLessThanWellFounded, WFMin, Zenon
<1>2. n # 0 /\ n - 1 \in Nat /\ n - 1 < n
  OBVIOUS
<1>3. <<n - 1, n>> \in OpToRel(<, Nat)
  BY <1>2 DEF OpToRel
<1>4. n - 1 \in Good
  BY <1>1, <1>2, <1>3
<1>5. (n - 1) + 1 \in Good
  BY <1>2, <1>4
<1>6. (n - 1) + 1 = n /\ n \notin Good
  OBVIOUS
<1> QED BY <1>5, <1>6, Zenon

\* Induction over a finite set, likewise.
LEMMA SubsetInduction ==
  ASSUME NEW S, IsFiniteSet(S), NEW Good, {} \in Good,
         ASSUME NEW T \in SUBSET S, NEW x \in S \ T, T \in Good PROVE T \cup {x} \in Good
  PROVE  \A T \in SUBSET S : T \in Good
<1> DEFINE Bad == {T \in SUBSET S : T \notin Good}
<1> SUFFICES ASSUME Bad # {} PROVE FALSE
  OBVIOUS
<1>1. Bad \subseteq FiniteSubsetsOf(S)
  BY FS_Subset DEF FiniteSubsetsOf
<1>2. PICK T \in Bad : \A U \in Bad : <<U, T>> \notin StrictSubsetOrdering(S)
  BY <1>1, FS_StrictSubsetOrderingWellFounded, WFMin
<1>3. PICK x : x \in T
  BY <1>2
<1>4. T \ {x} \in SUBSET S /\ x \in S \ (T \ {x}) /\ T = (T \ {x}) \cup {x}
  BY <1>3
<1>5. <<T \ {x}, T>> \in StrictSubsetOrdering(S)
  <2>1. <<T \ {x}, T>> \in (SUBSET S) \X (SUBSET S)
    BY <1>4
  <2>2. T \ {x} \subseteq T /\ T \ {x} # T
    BY <1>3
  <2> QED BY <2>1, <2>2 DEF StrictSubsetOrdering
<1>6. T \ {x} \in Good
  BY <1>2, <1>4, <1>5
<1> QED BY <1>2, <1>4, <1>6

-----------------------------------------------------------------------------
(* The fold behind the sum.                                                 *)

\* The element the fold takes next.
First(s) == CHOOSE x \in s : TRUE

\* g holds the sum of f over every subset of S.
IsSum(g, f, S) ==
  g = [s \in SUBSET S |-> IF s = {} THEN 0 ELSE f[First(s)] + g[s \ {First(s)}]]

LEMMA FirstIn == ASSUME NEW s, s # {} PROVE First(s) \in s
BY DEF First

\* There is such a g: it is built for larger and larger subsets.
LEMMA SumExists ==
  ASSUME NEW S, IsFiniteSet(S), NEW f
  PROVE  \E g : IsSum(g, f, S)
<1> DEFINE Next(g) == [s \in SUBSET S |-> IF s = {} THEN 0 ELSE f[First(s)] + g[s \ {First(s)}]]
           UpTo(g, n) == \A s \in SUBSET S : Cardinality(s) <= n => g[s] = Next(g)[s]
           Good == {n \in Nat : \E g : UpTo(g, n)}
<1>1. \A s \in SUBSET S : IsFiniteSet(s) /\ Cardinality(s) \in Nat
  BY FS_Subset, FS_CardinalityType
<1>2. \A s \in SUBSET S : s # {} =>
        /\ s \ {First(s)} \in SUBSET S
        /\ Cardinality(s \ {First(s)}) = Cardinality(s) - 1
        /\ Cardinality(s) # 0
  BY <1>1, FirstIn, FS_RemoveElement, FS_EmptySet
<1>3. 0 \in Good
  <2>1. UpTo([s \in SUBSET S |-> 0], 0)
    <3> SUFFICES ASSUME NEW s \in SUBSET S, Cardinality(s) <= 0
                 PROVE  [t \in SUBSET S |-> 0][s] = Next([t \in SUBSET S |-> 0])[s]
      OBVIOUS
    <3>1. s = {}
      <4>1. Cardinality(s) = 0
        BY <1>1
      <4> QED BY <4>1, <1>1, FS_EmptySet
    <3> QED BY <3>1
  <2> HIDE DEF UpTo
  <2> QED BY <2>1
<1>4. ASSUME NEW n \in Nat, n \in Good PROVE n + 1 \in Good
  <2>1. PICK g : UpTo(g, n)
    BY <1>4
  <2>2. UpTo(Next(g), n + 1)
    <3> SUFFICES ASSUME NEW s \in SUBSET S, Cardinality(s) <= n + 1
                 PROVE  Next(g)[s] = Next(Next(g))[s]
      OBVIOUS
    <3>1. CASE s = {}
      BY <3>1
    <3>2. CASE s # {}
      <4>1. s \ {First(s)} \in SUBSET S /\ Cardinality(s \ {First(s)}) <= n
        BY <1>1, <1>2, <3>2
      <4>2. g[s \ {First(s)}] = Next(g)[s \ {First(s)}]
        BY <2>1, <4>1
      <4>3. Next(g)[s] = f[First(s)] + g[s \ {First(s)}]
        BY <3>2
      <4>4. \A h : Next(h)[s] = f[First(s)] + h[s \ {First(s)}]
        BY <3>2
      <4> HIDE DEF Next
      <4> QED BY <4>2, <4>4
    <3> QED BY <3>1, <3>2
  <2> HIDE DEF UpTo
  <2> QED BY <2>2
<1>5. Cardinality(S) \in Good
  <2> HIDE DEF Good
  <2> QED BY <1>3, <1>4, NumberInduction, FS_CardinalityType
<1>6. PICK g : UpTo(g, Cardinality(S))
  BY <1>5
<1>7. \A s \in SUBSET S : g[s] = Next(g)[s]
  BY <1>6, <1>1, FS_Subset, FS_CardinalityType
<1>8. IsSum(Next(g), f, S)
  <2> SUFFICES \A s \in SUBSET S : Next(g)[s] = Next(Next(g))[s]
    BY DEF IsSum
  <2> TAKE s \in SUBSET S
  <2>1. CASE s = {}
    BY <2>1
  <2>2. CASE s # {}
    <3>1. s \ {First(s)} \in SUBSET S
      OBVIOUS
    <3>2. g[s \ {First(s)}] = Next(g)[s \ {First(s)}]
      BY <1>7, <3>1
    <3>3. \A h : Next(h)[s] = f[First(s)] + h[s \ {First(s)}]
      BY <2>2
    <3> HIDE DEF Next
    <3> QED BY <3>2, <3>3
  <2> QED BY <2>1, <2>2
<1> QED BY <1>8

\* The sum of f over S is what such a g holds for S.
LEMMA SumIs ==
  ASSUME NEW S, IsFiniteSet(S), NEW f
  PROVE  \E g : IsSum(g, f, S) /\ SumFunctionOnSet(f, S) = g[S]
<1> DEFINE g == CHOOSE g : IsSum(g, f, S)
<1>1. IsSum(g, f, S)
  BY SumExists
<1>2. SumFunctionOnSet(f, S) = g[S]
  BY DEF SumFunctionOnSet, FoldFunctionOnSet, MapThenFoldSet, IsSum, First
<1> QED BY <1>1, <1>2

-----------------------------------------------------------------------------
(* What sums are: the order does not matter.                                *)

\* g is a sum of integers.
LEMMA SumType ==
  ASSUME NEW S, IsFiniteSet(S), NEW f, \A x \in S : f[x] \in Int, NEW g, IsSum(g, f, S)
  PROVE  \A T \in SUBSET S : g[T] \in Int
<1> DEFINE Good == {n \in Nat : \A T \in SUBSET S : Cardinality(T) <= n => g[T] \in Int}
<1>1. \A s \in SUBSET S : IsFiniteSet(s) /\ Cardinality(s) \in Nat
  BY FS_Subset, FS_CardinalityType
<1>2. g[{}] = 0
  BY DEF IsSum
<1>3. \A s \in SUBSET S : s # {} =>
        /\ s \ {First(s)} \in SUBSET S /\ First(s) \in S
        /\ Cardinality(s \ {First(s)}) = Cardinality(s) - 1
        /\ g[s] = f[First(s)] + g[s \ {First(s)}]
  <2> TAKE s \in SUBSET S
  <2> HAVE s # {}
  <2>1. First(s) \in s
    BY FirstIn
  <2>2. Cardinality(s \ {First(s)}) = Cardinality(s) - 1
    BY <1>1, <2>1, FS_RemoveElement
  <2> QED BY <2>1, <2>2 DEF IsSum
<1>4. 0 \in Good
  <2> SUFFICES ASSUME NEW T \in SUBSET S, Cardinality(T) <= 0 PROVE g[T] \in Int
    OBVIOUS
  <2>1. Cardinality(T) = 0
    BY <1>1
  <2>2. T = {}
    BY <1>1, <2>1, FS_EmptySet
  <2> QED BY <1>2, <2>2
<1>5. ASSUME NEW n \in Nat, n \in Good PROVE n + 1 \in Good
  <2> SUFFICES ASSUME NEW T \in SUBSET S, Cardinality(T) <= n + 1 PROVE g[T] \in Int
    OBVIOUS
  <2>1. CASE T = {}
    BY <1>2, <2>1
  <2>2. CASE T # {}
    <3>1. Cardinality(T \ {First(T)}) <= n
      BY <1>1, <1>3, <2>2
    <3>2. g[T \ {First(T)}] \in Int
      BY <1>3, <1>5, <2>2, <3>1
    <3>3. f[First(T)] + g[T \ {First(T)}] \in Int
      BY <1>3, <2>2, <3>2
    <3> QED BY <1>3, <2>2, <3>3, Zenon
  <2> QED BY <2>1, <2>2
<1>6. Cardinality(S) \in Good
  <2> HIDE DEF Good
  <2> QED BY <1>4, <1>5, NumberInduction, FS_CardinalityType
<1> QED BY <1>6, FS_Subset

\* Any element may be taken next.
LEMMA SumTakes ==
  ASSUME NEW S, IsFiniteSet(S), NEW f, \A x \in S : f[x] \in Int, NEW g, IsSum(g, f, S)
  PROVE  \A T \in SUBSET S : \A x \in T : g[T] = f[x] + g[T \ {x}]
<1> DEFINE Good == {n \in Nat : \A T \in SUBSET S :
                      Cardinality(T) <= n => \A x \in T : g[T] = f[x] + g[T \ {x}]}
<1>1. \A s \in SUBSET S : IsFiniteSet(s) /\ Cardinality(s) \in Nat /\ g[s] \in Int
  BY FS_Subset, FS_CardinalityType, SumType
<1>2. \A s \in SUBSET S : \A x \in s : Cardinality(s \ {x}) = Cardinality(s) - 1
  BY <1>1, FS_RemoveElement
<1>3. 0 \in Good
  <2> SUFFICES ASSUME NEW T \in SUBSET S, Cardinality(T) <= 0 PROVE T = {}
    OBVIOUS
  <2>1. Cardinality(T) = 0
    BY <1>1
  <2> QED BY <1>1, <2>1, FS_EmptySet
<1>4. ASSUME NEW n \in Nat, n \in Good PROVE n + 1 \in Good
  <2> SUFFICES ASSUME NEW T \in SUBSET S, Cardinality(T) <= n + 1, NEW x \in T
               PROVE  g[T] = f[x] + g[T \ {x}]
    OBVIOUS
  <2> DEFINE y == First(T)
  <2>1. y \in T /\ g[T] = f[y] + g[T \ {y}]
    BY FirstIn DEF IsSum
  <2>2. CASE x = y
    BY <2>1, <2>2
  <2>3. CASE x # y
    <3>1. /\ T \ {y} \in SUBSET S /\ x \in T \ {y} /\ Cardinality(T \ {y}) <= n
          /\ T \ {x} \in SUBSET S /\ y \in T \ {x} /\ Cardinality(T \ {x}) <= n
      BY <1>1, <1>2, <2>1, <2>3
    <3>2. /\ g[T \ {y}] = f[x] + g[(T \ {y}) \ {x}]
          /\ g[T \ {x}] = f[y] + g[(T \ {x}) \ {y}]
      BY <1>4, <3>1
    <3>3. (T \ {y}) \ {x} = (T \ {x}) \ {y} /\ (T \ {x}) \ {y} \in SUBSET S
      OBVIOUS
    <3>4. f[x] \in Int /\ f[y] \in Int /\ g[(T \ {x}) \ {y}] \in Int
      BY <1>1, <2>1, <3>3
    <3>5. f[y] + (f[x] + g[(T \ {x}) \ {y}]) = f[x] + (f[y] + g[(T \ {x}) \ {y}])
      BY <3>4
    <3> HIDE DEF y
    <3> QED BY <2>1, <3>2, <3>3, <3>5, Zenon
  <2> QED BY <2>2, <2>3
<1>5. Cardinality(S) \in Good
  <2> HIDE DEF Good
  <2> QED BY <1>3, <1>4, NumberInduction, FS_CardinalityType
<1> QED BY <1>5, FS_Subset

\* Sums over a subset do not depend on the set they are folded in.
LEMMA SumLocal ==
  ASSUME NEW S, IsFiniteSet(S), NEW f, NEW e, NEW R \in SUBSET S, \A x \in R : e[x] = f[x],
         \A x \in S : f[x] \in Int, NEW g, IsSum(g, f, S), NEW h, IsSum(h, e, R)
  PROVE  \A T \in SUBSET R : h[T] = g[T]
<1> DEFINE Good == {T \in SUBSET R : h[T] = g[T]}
<1>1. IsFiniteSet(R) /\ \A x \in R : e[x] \in Int
  BY FS_Subset
<1>2. {} \in Good
  BY DEF IsSum
<1>3. ASSUME NEW T \in SUBSET R, NEW x \in R \ T, T \in Good PROVE T \cup {x} \in Good
  <2> DEFINE U == T \cup {x}
  <2>1. U \in SUBSET R /\ U \in SUBSET S /\ x \in U /\ U \ {x} = T
    OBVIOUS
  <2>2. h[U] = e[x] + h[U \ {x}]
    BY <1>1, <2>1, SumTakes
  <2>3. g[U] = f[x] + g[U \ {x}]
    BY <2>1, SumTakes
  <2> HIDE DEF U
  <2>4. h[U] = g[U]
    BY <1>3, <2>1, <2>2, <2>3
  <2> QED BY <2>1, <2>4 DEF U
<1> HIDE DEF Good
<1>4. \A T \in SUBSET R : T \in Good
  BY <1>1, <1>2, <1>3, SubsetInduction
<1> QED BY <1>4 DEF Good
-----------------------------------------------------------------------------
(* The lemmas the other modules cite.                                       *)

LEMMA SumOfNone == ASSUME NEW f PROVE SumFunctionOnSet(f, {}) = 0
<1>1. PICK g : IsSum(g, f, {}) /\ SumFunctionOnSet(f, {}) = g[{}]
  BY SumIs, FS_EmptySet
<1> QED BY <1>1 DEF IsSum

LEMMA SumOfIntegers ==
  ASSUME NEW S, IsFiniteSet(S), NEW f, \A x \in S : f[x] \in Int
  PROVE  SumFunctionOnSet(f, S) \in Int
<1>1. PICK g : IsSum(g, f, S) /\ SumFunctionOnSet(f, S) = g[S]
  BY SumIs
<1> QED BY <1>1, SumType

\* The sum over S is that over S without x, and f[x].
LEMMA SumWithout ==
  ASSUME NEW S, IsFiniteSet(S), NEW f, \A y \in S : f[y] \in Int, NEW x \in S
  PROVE  /\ SumFunctionOnSet(f, S) = f[x] + SumFunctionOnSet(f, S \ {x})
         /\ SumFunctionOnSet(f, S \ {x}) \in Int
<1> DEFINE R == S \ {x}
<1>1. R \in SUBSET S /\ IsFiniteSet(R)
  BY FS_RemoveElement
<1>2. PICK g : IsSum(g, f, S) /\ SumFunctionOnSet(f, S) = g[S]
  BY SumIs
<1>3. PICK h : IsSum(h, f, R) /\ SumFunctionOnSet(f, R) = h[R]
  BY <1>1, SumIs
<1>4. g[S] = f[x] + g[R]
  BY <1>2, SumTakes
<1>5. h[R] = g[R]
  <2> HIDE DEF R
  <2> QED BY <1>1, <1>2, <1>3, SumLocal
<1>6. SumFunctionOnSet(f, R) \in Int
  <2> HIDE DEF R
  <2> QED BY <1>1, SumOfIntegers
<1> QED BY <1>2, <1>3, <1>4, <1>5, <1>6

\* The sum depends on f only where it is summed.
LEMMA SumSame ==
  ASSUME NEW S, IsFiniteSet(S), NEW e, NEW f, \A x \in S : e[x] = f[x],
         \A x \in S : f[x] \in Int
  PROVE  SumFunctionOnSet(e, S) = SumFunctionOnSet(f, S)
<1>1. PICK g : IsSum(g, f, S) /\ SumFunctionOnSet(f, S) = g[S]
  BY SumIs
<1>2. PICK h : IsSum(h, e, S) /\ SumFunctionOnSet(e, S) = h[S]
  BY SumIs
<1> QED BY <1>1, <1>2, SumLocal

\* A change at x changes the sum by as much.
LEMMA SumChange ==
  ASSUME NEW S, IsFiniteSet(S), NEW x \in S, NEW e, NEW f,
         \A y \in S : e[y] \in Int /\ f[y] \in Int, \A y \in S \ {x} : e[y] = f[y]
  PROVE  SumFunctionOnSet(e, S) = SumFunctionOnSet(f, S) + (e[x] - f[x])
<1> DEFINE R == S \ {x}
<1>1. SumFunctionOnSet(e, S) = e[x] + SumFunctionOnSet(e, R)
  BY SumWithout
<1>2. /\ SumFunctionOnSet(f, S) = f[x] + SumFunctionOnSet(f, R)
      /\ SumFunctionOnSet(f, R) \in Int
  BY SumWithout
<1>3. SumFunctionOnSet(e, R) = SumFunctionOnSet(f, R)
  <2>1. IsFiniteSet(R) /\ \A y \in R : e[y] = f[y] /\ f[y] \in Int
    BY FS_RemoveElement
  <2> HIDE DEF R
  <2> QED BY <2>1, SumSame
<1>4. e[x] \in Int /\ f[x] \in Int
  OBVIOUS
<1> DEFINE sum == SumFunctionOnSet(f, R)
<1>5. sum \in Int => e[x] + sum = (f[x] + sum) + (e[x] - f[x])
  BY <1>4
<1> HIDE DEF R
<1> QED BY <1>1, <1>2, <1>3, <1>5

\* A new index adds its value.
LEMMA SumAdd ==
  ASSUME NEW S, IsFiniteSet(S), NEW x, x \notin S, NEW f, \A y \in S \cup {x} : f[y] \in Int
  PROVE  SumFunctionOnSet(f, S \cup {x}) = f[x] + SumFunctionOnSet(f, S)
<1> DEFINE U == S \cup {x}
<1>1. IsFiniteSet(U) /\ x \in U /\ U \ {x} = S
  BY FS_AddElement
<1> HIDE DEF U
<1>2. \A y \in U : f[y] \in Int
  BY DEF U
<1>3. SumFunctionOnSet(f, U) = f[x] + SumFunctionOnSet(f, S)
  BY <1>1, <1>2, SumWithout
<1> QED BY <1>3 DEF U

\* The sum of nothing is nothing.
LEMMA SumOfZeros ==
  ASSUME NEW S, IsFiniteSet(S), NEW f, \A x \in S : f[x] = 0
  PROVE  SumFunctionOnSet(f, S) = 0
<1> DEFINE Good == {T \in SUBSET S : SumFunctionOnSet(f, T) = 0}
<1>1. {} \in Good
  BY SumOfNone
<1>2. ASSUME NEW T \in SUBSET S, NEW x \in S \ T, T \in Good PROVE T \cup {x} \in Good
  <2>0. IsFiniteSet(T) /\ x \notin T /\ \A y \in T \cup {x} : f[y] \in Int
    BY FS_Subset
  <2>1. SumFunctionOnSet(f, T \cup {x}) = f[x] + SumFunctionOnSet(f, T)
    BY <2>0, SumAdd
  <2> QED BY <1>2, <2>1
<1> HIDE DEF Good
<1>3. S \in Good
  BY <1>1, <1>2, SubsetInduction
<1> QED BY <1>3 DEF Good

\* A sum of numbers that are not negative is none either, and bounds each of them.
LEMMA SumOfNaturals ==
  ASSUME NEW S, IsFiniteSet(S), NEW f, \A x \in S : f[x] \in Nat
  PROVE  /\ SumFunctionOnSet(f, S) \in Nat
         /\ \A x \in S : f[x] <= SumFunctionOnSet(f, S)
<1> DEFINE Good == {T \in SUBSET S : SumFunctionOnSet(f, T) \in Nat}
<1>1. {} \in Good
  BY SumOfNone
<1>2. ASSUME NEW T \in SUBSET S, NEW x \in S \ T, T \in Good PROVE T \cup {x} \in Good
  <2>0. IsFiniteSet(T) /\ x \notin T /\ \A y \in T \cup {x} : f[y] \in Int
    BY FS_Subset
  <2>1. SumFunctionOnSet(f, T \cup {x}) = f[x] + SumFunctionOnSet(f, T)
    BY <2>0, SumAdd
  <2>2. f[x] + SumFunctionOnSet(f, T) \in Nat
    BY <1>2
  <2> QED BY <1>2, <2>1, <2>2
<1> HIDE DEF Good
<1>3. \A T \in SUBSET S : T \in Good
  BY <1>1, <1>2, SubsetInduction
<1>4. ASSUME NEW x \in S PROVE f[x] <= SumFunctionOnSet(f, S)
  <2>1. SumFunctionOnSet(f, S) = f[x] + SumFunctionOnSet(f, S \ {x})
    BY SumWithout
  <2>2. SumFunctionOnSet(f, S \ {x}) \in Nat /\ f[x] \in Nat
    BY <1>3 DEF Good
  <2> QED BY <2>1, <2>2
<1>5. SumFunctionOnSet(f, S) \in Nat
  BY <1>3 DEF Good
<1> QED BY <1>4, <1>5

-----------------------------------------------------------------------------
(* Sets of naturals.                                                        *)

\* What is nowhere larger has no larger sum.
LEMMA SumBounds ==
  ASSUME NEW S, IsFiniteSet(S), NEW e, NEW f, \A x \in S : e[x] \in Int /\ f[x] \in Int,
         \A x \in S : e[x] <= f[x]
  PROVE  SumFunctionOnSet(e, S) <= SumFunctionOnSet(f, S)
<1> DEFINE Good == {T \in SUBSET S : SumFunctionOnSet(e, T) <= SumFunctionOnSet(f, T)}
<1>1. {} \in Good
  BY SumOfNone
<1>2. ASSUME NEW T \in SUBSET S, NEW x \in S \ T, T \in Good PROVE T \cup {x} \in Good
  <2>0. IsFiniteSet(T) /\ x \notin T /\ \A y \in T \cup {x} : e[y] \in Int /\ f[y] \in Int
    BY FS_Subset
  <2>1. SumFunctionOnSet(e, T \cup {x}) = e[x] + SumFunctionOnSet(e, T)
    BY <2>0, SumAdd
  <2>2. SumFunctionOnSet(f, T \cup {x}) = f[x] + SumFunctionOnSet(f, T)
    BY <2>0, SumAdd
  <2>3. SumFunctionOnSet(e, T) \in Int /\ SumFunctionOnSet(f, T) \in Int
    BY <2>0, SumOfIntegers
  <2>4. SumFunctionOnSet(e, T) <= SumFunctionOnSet(f, T)
    BY <1>2
  <2>5. SumFunctionOnSet(e, T \cup {x}) <= SumFunctionOnSet(f, T \cup {x})
    BY <2>0, <2>1, <2>2, <2>3, <2>4
  <2> QED BY <2>5
<1> HIDE DEF Good
<1>3. \A T \in SUBSET S : T \in Good
  BY <1>1, <1>2, SubsetInduction, Zenon
<1>4. S \in Good
  BY <1>3
<1> QED BY <1>4 DEF Good

\* A set of naturals has a least element.
LEMMA LeastIs ==
  ASSUME NEW S \in SUBSET Nat, S # {}
  PROVE  Min(S) \in S /\ \A x \in S : Min(S) <= x
<1>1. PICK n \in S : \A m \in S : <<m, n>> \notin OpToRel(<, Nat)
  BY NatLessThanWellFounded, WFMin, Zenon
<1>2. ASSUME NEW m \in S PROVE n <= m
  <2> SUFFICES ASSUME m < n PROVE FALSE
    OBVIOUS
  <2>1. <<m, n>> \in OpToRel(<, Nat)
    BY DEF OpToRel
  <2> QED BY <1>1, <2>1
<1> QED BY <1>2 DEF Min

\* There are n numbers up to n.
LEMMA FirstNumbers == ASSUME NEW n \in Nat PROVE IsFiniteSet(1..n) /\ Cardinality(1..n) = n
<1>1. IsFiniteSet(1..n) /\ Cardinality(1..n) = IF 1 > n THEN 0 ELSE n - 1 + 1
  BY FS_Interval
<1> QED BY <1>1

\* A sum over C is that over a part O of it and that over all of S of what is nothing on O
\* and outside C.
LEMMA SumParts ==
  ASSUME NEW S, IsFiniteSet(S), NEW C \in SUBSET S, NEW O \in SUBSET C, NEW f, NEW h,
         \A c \in S : f[c] \in Int /\ h[c] \in Int,
         \A c \in S \ C : h[c] = 0, \A c \in O : h[c] = 0, \A c \in C \ O : h[c] = f[c]
  PROVE  SumFunctionOnSet(f, O) + SumFunctionOnSet(h, S) = SumFunctionOnSet(f, C)
<1> DEFINE Good == {T \in SUBSET S : SumFunctionOnSet(f, T \cap O) + SumFunctionOnSet(h, T)
                                       = SumFunctionOnSet(f, T \cap C)}
<1>1. {} \in Good
  <2>1. {} \cap O = {} /\ {} \cap C = {}
    OBVIOUS
  <2>2. SumFunctionOnSet(f, {}) = 0 /\ SumFunctionOnSet(h, {}) = 0
    BY SumOfNone
  <2> QED BY <2>1, <2>2
<1>2. ASSUME NEW T \in SUBSET S, NEW x \in S \ T, T \in Good PROVE T \cup {x} \in Good
  <2>0. /\ IsFiniteSet(T) /\ IsFiniteSet(T \cap O) /\ IsFiniteSet(T \cap C)
        /\ \A c \in T \cup {x} : f[c] \in Int /\ h[c] \in Int
    BY FS_Subset
  <2>1. SumFunctionOnSet(h, T \cup {x}) = h[x] + SumFunctionOnSet(h, T)
    BY <2>0, SumAdd
  <2>2. /\ SumFunctionOnSet(h, T) \in Int /\ SumFunctionOnSet(f, T \cap O) \in Int
        /\ SumFunctionOnSet(f, T \cap C) \in Int /\ f[x] \in Int /\ h[x] \in Int
    BY <2>0, SumOfIntegers
  <2>3. SumFunctionOnSet(f, T \cap O) + SumFunctionOnSet(h, T) = SumFunctionOnSet(f, T \cap C)
    BY <1>2
  <2> SUFFICES SumFunctionOnSet(f, (T \cup {x}) \cap O) + SumFunctionOnSet(h, T \cup {x})
                 = SumFunctionOnSet(f, (T \cup {x}) \cap C)
    OBVIOUS
  <2> HIDE DEF Good
  <2>4. CASE x \in O
    <3>1. (T \cup {x}) \cap O = (T \cap O) \cup {x} /\ (T \cup {x}) \cap C = (T \cap C) \cup {x}
      BY <2>4
    <3>2. SumFunctionOnSet(f, (T \cap O) \cup {x}) = f[x] + SumFunctionOnSet(f, T \cap O)
      BY <2>0, SumAdd
    <3>3. SumFunctionOnSet(f, (T \cap C) \cup {x}) = f[x] + SumFunctionOnSet(f, T \cap C)
      BY <2>0, SumAdd
    <3>4. h[x] = 0
      BY <2>4
    <3>5. (f[x] + SumFunctionOnSet(f, T \cap O)) + (h[x] + SumFunctionOnSet(h, T))
            = f[x] + SumFunctionOnSet(f, T \cap C)
      BY <2>2, <2>3, <3>4
    <3> QED BY <2>1, <3>1, <3>2, <3>3, <3>5
  <2>5. CASE x \in C \ O
    <3>1. (T \cup {x}) \cap O = T \cap O /\ (T \cup {x}) \cap C = (T \cap C) \cup {x}
      BY <2>5
    <3>2. SumFunctionOnSet(f, (T \cap C) \cup {x}) = f[x] + SumFunctionOnSet(f, T \cap C)
      BY <2>0, SumAdd
    <3>3. h[x] = f[x]
      BY <2>5
    <3>5. SumFunctionOnSet(f, T \cap O) + (h[x] + SumFunctionOnSet(h, T))
            = f[x] + SumFunctionOnSet(f, T \cap C)
      BY <2>2, <2>3, <3>3
    <3> QED BY <2>1, <3>1, <3>2, <3>5
  <2>6. CASE x \notin C
    <3>1. (T \cup {x}) \cap O = T \cap O /\ (T \cup {x}) \cap C = T \cap C
      BY <2>6
    <3>2. h[x] = 0
      BY <2>6
    <3>5. SumFunctionOnSet(f, T \cap O) + (h[x] + SumFunctionOnSet(h, T))
            = SumFunctionOnSet(f, T \cap C)
      BY <2>2, <2>3, <3>2
    <3> QED BY <2>1, <3>1, <3>5
  <2> QED BY <2>4, <2>5, <2>6
<1> HIDE DEF Good
<1>3. \A T \in SUBSET S : T \in Good
  BY <1>1, <1>2, SubsetInduction, Zenon
<1>4. S \cap O = O /\ S \cap C = C
  OBVIOUS
<1> QED BY <1>3, <1>4 DEF Good

\* A sum over pairs with the same first part is a sum over the second parts.
LEMMA SumOfPairs ==
  ASSUME NEW S, IsFiniteSet(S), NEW k, NEW f, NEW g,
         \A x \in S : g[x] \in Int /\ f[<<k, x>>] = g[x]
  PROVE  SumFunctionOnSet(f, {k} \X S) = SumFunctionOnSet(g, S) /\ IsFiniteSet({k} \X S)
<1> DEFINE Good == {T \in SUBSET S : SumFunctionOnSet(f, {k} \X T) = SumFunctionOnSet(g, T)}
<1>0. ASSUME NEW T \in SUBSET S PROVE IsFiniteSet({k} \X T) /\ IsFiniteSet(T)
  <2>1. IsFiniteSet({k}) /\ IsFiniteSet(T)
    BY FS_Singleton, FS_Subset
  <2> QED BY <2>1, FS_Product
<1>1. {} \in Good
  <2>1. {k} \X {} = {}
    OBVIOUS
  <2> QED BY <2>1, SumOfNone
<1>2. ASSUME NEW T \in SUBSET S, NEW x \in S \ T, T \in Good PROVE T \cup {x} \in Good
  <2>1. {k} \X (T \cup {x}) = ({k} \X T) \cup {<<k, x>>} /\ <<k, x>> \notin {k} \X T
    OBVIOUS
  <2>2. \A y \in ({k} \X T) \cup {<<k, x>>} : f[y] \in Int
    OBVIOUS
  <2>3. SumFunctionOnSet(f, ({k} \X T) \cup {<<k, x>>}) = f[<<k, x>>] + SumFunctionOnSet(f, {k} \X T)
    BY <1>0, <2>1, <2>2, SumAdd
  <2>4. \A y \in T \cup {x} : g[y] \in Int
    OBVIOUS
  <2>5. SumFunctionOnSet(g, T \cup {x}) = g[x] + SumFunctionOnSet(g, T)
    BY <1>0, <2>4, SumAdd
  <2> QED BY <1>2, <2>1, <2>3, <2>5
<1> HIDE DEF Good
<1>3. S \in Good
  BY <1>1, <1>2, SubsetInduction
<1> QED BY <1>0, <1>3 DEF Good

\* A set of numbers up to n has a greatest.
LEMMA GreatestIs ==
  ASSUME NEW n \in Nat, NEW S \in SUBSET (0..n), S # {}
  PROVE  \E x \in S : \A y \in S : y <= x
<1> DEFINE D == {n - x : x \in S}
<1>1. D \in SUBSET Nat /\ D # {}
  <2>1. \A x \in S : n - x \in Nat
    OBVIOUS
  <2> QED BY <2>1
<1>2. Min(D) \in D /\ \A y \in D : Min(D) <= y
  <2> HIDE DEF D
  <2> QED BY <1>1, LeastIs
<1>3. PICK x \in S : Min(D) = n - x
  BY <1>2
<1>4. ASSUME NEW y \in S PROVE y <= x
  <2>1. n - x <= n - y
    BY <1>2, <1>3
  <2> QED BY <2>1
<1> QED BY <1>4
=============================================================================
