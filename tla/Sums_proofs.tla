----------------------------- MODULE Sums_proofs -----------------------------
(***************************************************************************)
(* What SumFunction of the community modules yields for every function     *)
(* with a finite domain: the sum of no terms, of a function that differs   *)
(* in one place, of a part.  The contracts keep totals by hand; these are  *)
(* the facts that compare a total with what it is the total of.            *)
(*                                                                         *)
(* SumFunction is a recursive function over the subsets of the domain.     *)
(* That there is one is shown here by induction over their size, and every *)
(* induction is stated with a least element: WFMin takes a set, where the  *)
(* library's other induction theorems take an operator.                    *)
(***************************************************************************)
EXTENDS Functions, FiniteSetTheorems, WellFoundedInduction, TLAPS

-----------------------------------------------------------------------------
(* Induction. *)

\* A set of natural numbers that is not empty has a least element.
LEMMA LeastNatural ==
    ASSUME NEW W \in SUBSET Nat, W # {}
    PROVE  \E n \in W : \A m \in W : n <= m
<1>1. PICK n \in W : \A m \in W : <<m, n>> \notin OpToRel(<, Nat)
  BY WFMin, NatLessThanWellFounded, Zenon
<1>2. \A m \in W : ~(m < n)
  BY <1>1, Zenon DEF OpToRel
<1> QED
  BY <1>2, SMT

\* Among some of the subsets of a finite set, one has none of the others in it.
LEMMA LeastSubset ==
    ASSUME NEW S, IsFiniteSet(S), NEW W \in SUBSET (SUBSET S), W # {}
    PROVE  \E T \in W : \A U \in W : ~(U \subseteq T /\ U # T)
<1>1. IsWellFoundedOn(StrictSubsetOrdering(S), SUBSET S)
  BY FS_StrictSubsetOrderingWellFounded, FS_FiniteSubsetsOfFinite
<1>2. PICK T \in W : \A U \in W : <<U, T>> \notin StrictSubsetOrdering(S)
  BY <1>1, WFMin, Zenon
<1> QED
  BY <1>2 DEF StrictSubsetOrdering

-----------------------------------------------------------------------------
(* The recursive function behind a sum. *)

\* The element that a sum over T starts with.
Chosen(T) == CHOOSE x \in T : TRUE

\* What a sum over the set T is, from the sums g over smaller sets.
SumStep(f, g, T) ==
    IF T = {} THEN 0
    ELSE f[Chosen(T)] + g[T \ {Chosen(T)}]

\* The subsets of S with at most n elements.
Layer(S, n) == {T \in SUBSET S : Cardinality(T) <= n}

\* g has the sums over the subsets of S.
IsPartialSum(g, f, S) == g = [T \in SUBSET S |-> SumStep(f, g, T)]

LEMMA NextLayer ==
    ASSUME NEW S, IsFiniteSet(S), NEW n \in Nat, NEW f, NEW g,
           g = [T \in Layer(S, n) |-> SumStep(f, g, T)]
    PROVE  \E h : h = [T \in Layer(S, n + 1) |-> SumStep(f, h, T)]
<1> DEFINE h == [T \in Layer(S, n + 1) |->
                   IF T \in Layer(S, n) THEN g[T] ELSE SumStep(f, g, T)]
<1>1. ASSUME NEW T \in Layer(S, n + 1), T # {}
      PROVE  T \ {Chosen(T)} \in Layer(S, n)
  <2>1. IsFiniteSet(T) /\ Chosen(T) \in T
    BY <1>1, FS_Subset DEF Layer, Chosen
  <2>2. /\ Cardinality(T \ {Chosen(T)}) = Cardinality(T) - 1
        /\ Cardinality(T) \in Nat
    BY <2>1, FS_RemoveElement, FS_CardinalityType
  <2> QED
    BY <2>2 DEF Layer
<1>2. Layer(S, n) \subseteq Layer(S, n + 1)
  BY FS_Subset, FS_CardinalityType DEF Layer
<1>3. \A T \in Layer(S, n) : h[T] = g[T]
  BY <1>2
<1>4. ASSUME NEW T \in Layer(S, n + 1)
      PROVE  h[T] = SumStep(f, h, T)
  <2>1. h[T] = SumStep(f, g, T)
    BY Zenon
  <2> HIDE DEF h
  <2>2. T # {} => g[T \ {Chosen(T)}] = h[T \ {Chosen(T)}]
    BY <1>1, <1>3, Zenon
  <2>3. SumStep(f, g, T) = SumStep(f, h, T)
    BY <2>2, Zenon DEF SumStep
  <2> QED
    BY <2>1, <2>3
<1>5. h = [T \in Layer(S, n + 1) |-> SumStep(f, h, T)]
  BY <1>4, Zenon
<1> QED
  BY <1>5

LEMMA PartialSums ==
    ASSUME NEW S, IsFiniteSet(S), NEW f
    PROVE  \E g : IsPartialSum(g, f, S)
<1> DEFINE Defined(n) == \E g : g = [T \in Layer(S, n) |-> SumStep(f, g, T)]
<1>1. Defined(0)
  <2> DEFINE g == [T \in Layer(S, 0) |-> 0]
  <2>1. \A T \in Layer(S, 0) : T = {}
    BY FS_Subset, FS_EmptySet, FS_CardinalityType DEF Layer
  <2>2. \A T \in Layer(S, 0) : SumStep(f, g, T) = 0
    BY <2>1 DEF SumStep
  <2>3. g = [T \in Layer(S, 0) |-> SumStep(f, g, T)]
    BY <2>2, Zenon
  <2> QED
    BY <2>3
<1>2. \A n \in Nat : Defined(n) => Defined(n + 1)
  BY NextLayer
<1> HIDE DEF Defined
<1>3. \A n \in Nat : Defined(n)
  <2>1. SUFFICES ASSUME NEW W, W = {n \in Nat : ~Defined(n)}, W # {} PROVE FALSE
    BY Zenon
  <2>2. PICK n \in W : \A m \in W : n <= m
    BY <2>1, LeastNatural
  <2>3. n \in Nat /\ n # 0 /\ ~Defined(n)
    BY <1>1, <2>1
  <2>4. n - 1 \in Nat /\ n - 1 \notin W /\ (n - 1) + 1 = n
    BY <2>2, <2>3
  <2> QED
    BY <1>2, <2>1, <2>3, <2>4
<1>4. Cardinality(S) \in Nat /\ Layer(S, Cardinality(S)) = SUBSET S
  BY FS_Subset, FS_CardinalityType DEF Layer
<1> QED
  BY <1>3, <1>4 DEF Defined, IsPartialSum

\* A sum takes off one element at a time.
AddsUp(g, f, S) ==
    /\ g[{}] = 0
    /\ \A T \in SUBSET S : T # {} => g[T] = f[Chosen(T)] + g[T \ {Chosen(T)}]

LEMMA SumIsPartial ==
    ASSUME NEW S, IsFiniteSet(S), NEW f
    PROVE  \E g : AddsUp(g, f, S) /\ SumFunctionOnSet(f, S) = g[S]
<1> DEFINE iter == CHOOSE g : IsPartialSum(g, f, S)
<1>1. IsPartialSum(iter, f, S)
  BY PartialSums, Zenon
<1>2. SumFunctionOnSet(f, S) = iter[S]
  BY DEF SumFunctionOnSet, FoldFunctionOnSet, MapThenFoldSet,
         IsPartialSum, SumStep, Chosen
<1> HIDE DEF iter
<1>3. \A T \in SUBSET S : iter[T] = SumStep(f, iter, T)
  BY <1>1 DEF IsPartialSum
<1>4. iter[{}] = 0
  BY <1>3 DEF SumStep
<1>5. ASSUME NEW T \in SUBSET S, T # {}
      PROVE  iter[T] = f[Chosen(T)] + iter[T \ {Chosen(T)}]
  BY <1>3, <1>5, Zenon DEF SumStep
<1>6. AddsUp(iter, f, S)
  BY <1>4, <1>5 DEF AddsUp
<1> QED
  BY <1>2, <1>6

\* What holds of no elements, and of all when it holds of all but one, holds.
LEMMA SubsetInduction ==
    ASSUME NEW S, IsFiniteSet(S), NEW Good \in SUBSET (SUBSET S), {} \in Good,
           \A T \in SUBSET S :
             Chosen(T) \in T /\ T \ {Chosen(T)} \in Good => T \in Good
    PROVE  S \in Good
<1>1. SUFFICES ASSUME S \notin Good PROVE FALSE
  OBVIOUS
<1> DEFINE Bad == (SUBSET S) \ Good
<1>2. Bad \in SUBSET (SUBSET S) /\ Bad # {}
  BY <1>1
<1>3. PICK T \in Bad : \A U \in Bad : ~(U \subseteq T /\ U # T)
  <2> HIDE DEF Bad
  <2> QED
    BY <1>2, LeastSubset
<1>4. T \in SUBSET S /\ T \notin Good /\ T # {}
  OBVIOUS
<1>5. Chosen(T) \in T
  BY <1>4 DEF Chosen
<1>6. T \ {Chosen(T)} \in Good
  BY <1>3, <1>4, <1>5
<1> QED
  BY <1>4, <1>5, <1>6

-----------------------------------------------------------------------------
(* Sums. *)

\* A sum of natural numbers is one.
LEMMA SumType ==
    ASSUME NEW S, IsFiniteSet(S), NEW f \in [S -> Nat]
    PROVE  SumFunction(f) \in Nat
<1>1. PICK g : AddsUp(g, f, S) /\ SumFunctionOnSet(f, S) = g[S]
  BY SumIsPartial
<1>2. /\ g[{}] = 0
      /\ \A T \in SUBSET S : T # {} => g[T] = f[Chosen(T)] + g[T \ {Chosen(T)}]
  BY <1>1 DEF AddsUp
<1> DEFINE Good == {T \in SUBSET S : g[T] \in Nat}
<1>3. {} \in Good
  BY <1>2
<1>4. ASSUME NEW T \in SUBSET S, Chosen(T) \in T, T \ {Chosen(T)} \in Good
      PROVE  T \in Good
  <2>1. g[T] = f[Chosen(T)] + g[T \ {Chosen(T)}]
    BY <1>2, <1>4
  <2>2. f[Chosen(T)] \in Nat /\ g[T \ {Chosen(T)}] \in Nat
    BY <1>4
  <2> QED
    BY <2>1, <2>2
<1>5. S \in Good
  <2> HIDE DEF Good
  <2>1. Good \in SUBSET (SUBSET S)
    BY DEF Good
  <2> QED
    BY <1>3, <1>4, <2>1, SubsetInduction
<1> QED
  BY <1>1, <1>5 DEF SumFunction

\* A change in one place changes the sum by as much.
LEMMA SumChanges ==
    ASSUME NEW S, IsFiniteSet(S), NEW f \in [S -> Nat], NEW h \in [S -> Nat],
           NEW c \in S, \A y \in S \ {c} : h[y] = f[y]
    PROVE  SumFunction(h) = SumFunction(f) - f[c] + h[c]
<1>1. PICK g : AddsUp(g, f, S) /\ SumFunctionOnSet(f, S) = g[S]
  BY SumIsPartial
<1>2. PICK k : AddsUp(k, h, S) /\ SumFunctionOnSet(h, S) = k[S]
  BY SumIsPartial
<1>3. /\ g[{}] = 0
      /\ \A T \in SUBSET S : T # {} => g[T] = f[Chosen(T)] + g[T \ {Chosen(T)}]
  BY <1>1 DEF AddsUp
<1>4. /\ k[{}] = 0
       /\ \A T \in SUBSET S : T # {} => k[T] = h[Chosen(T)] + k[T \ {Chosen(T)}]
  BY <1>2 DEF AddsUp
<1> DEFINE Good == {T \in SUBSET S :
                      /\ g[T] \in Int
                      /\ c \in T => k[T] = g[T] - f[c] + h[c]
                      /\ c \notin T => k[T] = g[T]}
<1>5. {} \in Good
  BY <1>3, <1>4
<1>6. ASSUME NEW T \in SUBSET S, Chosen(T) \in T, T \ {Chosen(T)} \in Good
      PROVE  T \in Good
  <2> DEFINE x == Chosen(T)
  <2>1. /\ g[T] = f[x] + g[T \ {x}]
        /\ k[T] = h[x] + k[T \ {x}]
    BY <1>3, <1>4, <1>6
  <2>2. x \in S /\ x \in T
    BY <1>6
  <2>3. /\ g[T \ {x}] \in Int
        /\ c \in T /\ c # x => k[T \ {x}] = g[T \ {x}] - f[c] + h[c]
        /\ c \notin T \/ c = x => k[T \ {x}] = g[T \ {x}]
    BY <1>6
  <2> HIDE DEF x
  <2>4. f[x] \in Nat /\ h[x] \in Nat /\ f[c] \in Nat /\ h[c] \in Nat
    BY <2>2
  <2>5. x # c => h[x] = f[x]
    BY <2>2
  <2> QED
    BY <2>1, <2>2, <2>3, <2>4, <2>5
<1>7. S \in Good
  <2> HIDE DEF Good
  <2>1. Good \in SUBSET (SUBSET S)
    BY DEF Good
  <2> QED
    BY <1>5, <1>6, <2>1, SubsetInduction
<1> QED
  BY <1>1, <1>2, <1>7 DEF SumFunction

\* Nothing adds up to nothing.
LEMMA SumOfNothing ==
    ASSUME NEW S, IsFiniteSet(S), NEW f \in [S -> Nat], \A x \in S : f[x] = 0
    PROVE  SumFunction(f) = 0
<1>1. PICK g : AddsUp(g, f, S) /\ SumFunctionOnSet(f, S) = g[S]
  BY SumIsPartial
<1>2. /\ g[{}] = 0
      /\ \A T \in SUBSET S : T # {} => g[T] = f[Chosen(T)] + g[T \ {Chosen(T)}]
  BY <1>1 DEF AddsUp
<1> DEFINE Good == {T \in SUBSET S : g[T] = 0}
<1>3. {} \in Good
  BY <1>2
<1>4. ASSUME NEW T \in SUBSET S, Chosen(T) \in T, T \ {Chosen(T)} \in Good
      PROVE  T \in Good
  <2>1. g[T] = f[Chosen(T)] + g[T \ {Chosen(T)}]
    BY <1>2, <1>4
  <2>2. f[Chosen(T)] = 0 /\ g[T \ {Chosen(T)}] = 0
    BY <1>4
  <2> QED
    BY <2>1, <2>2
<1>5. S \in Good
  <2> HIDE DEF Good
  <2>1. Good \in SUBSET (SUBSET S)
    BY DEF Good
  <2> QED
    BY <1>3, <1>4, <2>1, SubsetInduction
<1> QED
  BY <1>1, <1>5 DEF SumFunction

\* No term is more than the sum of all.
LEMMA SumAtLeast ==
    ASSUME NEW S, IsFiniteSet(S), NEW f \in [S -> Nat], NEW c \in S
    PROVE  f[c] <= SumFunction(f)
<1> DEFINE h == [f EXCEPT ![c] = 0]
<1>1. h \in [S -> Nat] /\ h[c] = 0 /\ \A y \in S \ {c} : h[y] = f[y]
  OBVIOUS
<1> HIDE DEF h
<1>2. SumFunction(h) = SumFunction(f) - f[c] + 0
  BY <1>1, SumChanges
<1>3. SumFunction(h) \in Nat /\ SumFunction(f) \in Nat /\ f[c] \in Nat
  BY <1>1, SumType
<1> QED
  BY <1>2, <1>3, SMT

\* Sums of terms that each grow by a multiple of another: so does the sum.
LEMMA SumGrows ==
    ASSUME NEW S, IsFiniteSet(S), NEW f \in [S -> Nat], NEW p \in [S -> Nat],
           NEW h \in [S -> Nat], NEW d \in Nat, \A x \in S : h[x] = f[x] + d * p[x]
    PROVE  SumFunction(h) = SumFunction(f) + d * SumFunction(p)
<1>1. PICK g : AddsUp(g, f, S) /\ SumFunctionOnSet(f, S) = g[S]
  BY SumIsPartial
<1>2. PICK q : AddsUp(q, p, S) /\ SumFunctionOnSet(p, S) = q[S]
  BY SumIsPartial
<1>3. PICK k : AddsUp(k, h, S) /\ SumFunctionOnSet(h, S) = k[S]
  BY SumIsPartial
<1>4. /\ g[{}] = 0 /\ q[{}] = 0 /\ k[{}] = 0
      /\ \A T \in SUBSET S : T # {} =>
           /\ g[T] = f[Chosen(T)] + g[T \ {Chosen(T)}]
           /\ q[T] = p[Chosen(T)] + q[T \ {Chosen(T)}]
           /\ k[T] = h[Chosen(T)] + k[T \ {Chosen(T)}]
  BY <1>1, <1>2, <1>3 DEF AddsUp
<1> DEFINE Good == {T \in SUBSET S : g[T] \in Nat /\ q[T] \in Nat /\ k[T] = g[T] + d * q[T]}
<1>5. {} \in Good
  <2>1. d * 0 = 0 /\ 0 + 0 = 0 /\ 0 \in Nat
    BY SMT
  <2> QED
    BY <1>4, <2>1, Zenon
<1>6. ASSUME NEW T \in SUBSET S, Chosen(T) \in T, T \ {Chosen(T)} \in Good
      PROVE  T \in Good
  <2> DEFINE x == Chosen(T)
             R == T \ {x}
  <2>1. g[T] = f[x] + g[R] /\ q[T] = p[x] + q[R] /\ k[T] = h[x] + k[R]
    BY <1>4, <1>6
  <2>2. g[R] \in Nat /\ q[R] \in Nat /\ k[R] = g[R] + d * q[R]
    BY <1>6
  <2>3. f[x] \in Nat /\ p[x] \in Nat /\ h[x] = f[x] + d * p[x]
    BY <1>6
  <2> HIDE DEF x, R
  <2>4. d * (p[x] + q[R]) = d * p[x] + d * q[R] /\ d * p[x] \in Nat /\ d * q[R] \in Nat
    BY <2>2, <2>3, SMT
  <2>5. g[T] \in Nat /\ q[T] \in Nat /\ k[T] = g[T] + d * q[T]
    BY <2>1, <2>2, <2>3, <2>4, SMT
  <2> QED
    BY <2>5
<1>7. S \in Good
  <2> HIDE DEF Good
  <2>1. Good \in SUBSET (SUBSET S)
    BY DEF Good
  <2> QED
    BY <1>5, <1>6, <2>1, SubsetInduction
<1> QED
  BY <1>1, <1>2, <1>3, <1>7 DEF SumFunction

\* The parts of a sum, each rounded down, are no more than the sum rounded down.
LEMMA SumOfParts ==
    ASSUME NEW S, IsFiniteSet(S), NEW f \in [S -> Nat], NEW h \in [S -> Nat],
           NEW n \in Nat, \A x \in S : h[x] * n <= f[x]
    PROVE  SumFunction(h) * n <= SumFunction(f)
<1>1. PICK g : AddsUp(g, f, S) /\ SumFunctionOnSet(f, S) = g[S]
  BY SumIsPartial
<1>2. PICK k : AddsUp(k, h, S) /\ SumFunctionOnSet(h, S) = k[S]
  BY SumIsPartial
<1>3. /\ g[{}] = 0 /\ k[{}] = 0
      /\ \A T \in SUBSET S : T # {} =>
           /\ g[T] = f[Chosen(T)] + g[T \ {Chosen(T)}]
           /\ k[T] = h[Chosen(T)] + k[T \ {Chosen(T)}]
  BY <1>1, <1>2 DEF AddsUp
<1> DEFINE Good == {T \in SUBSET S : g[T] \in Nat /\ k[T] \in Nat /\ k[T] * n <= g[T]}
<1>4. {} \in Good
  BY <1>3, SMT
<1>5. ASSUME NEW T \in SUBSET S, Chosen(T) \in T, T \ {Chosen(T)} \in Good
      PROVE  T \in Good
  <2> DEFINE x == Chosen(T)
             R == T \ {x}
  <2>1. g[T] = f[x] + g[R] /\ k[T] = h[x] + k[R]
    BY <1>3, <1>5
  <2>2. g[R] \in Nat /\ k[R] \in Nat /\ k[R] * n <= g[R]
    BY <1>5
  <2>3. f[x] \in Nat /\ h[x] \in Nat /\ h[x] * n <= f[x]
    BY <1>5
  <2> HIDE DEF x, R
  <2>4. (h[x] + k[R]) * n = h[x] * n + k[R] * n /\ h[x] * n \in Nat /\ k[R] * n \in Nat
    BY <2>2, <2>3, SMT
  <2>5. g[T] \in Nat /\ k[T] \in Nat /\ k[T] * n <= g[T]
    BY <2>1, <2>2, <2>3, <2>4, SMT
  <2> QED
    BY <2>5
<1>6. S \in Good
  <2> HIDE DEF Good
  <2>1. Good \in SUBSET (SUBSET S)
    BY DEF Good
  <2> QED
    BY <1>4, <1>5, <2>1, SubsetInduction
<1> QED
  BY <1>1, <1>2, <1>6 DEF SumFunction
=============================================================================
