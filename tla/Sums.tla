-------------------------------- MODULE Sums --------------------------------
(***************************************************************************)
(* Sums over finite sets, as the community module Functions defines them   *)
(* (a fold that takes the elements in an order CHOOSE picks), and the laws *)
(* the theorems about money rest on: an element can be taken out, terms    *)
(* can be added, scaled and exchanged, and nothing is what zeros add up to.*)
(* Induction is over a set of subsets, not over a predicate: the least     *)
(* natural number that is not good, the smallest subset that is not good.  *)
(***************************************************************************)
EXTENDS Integers, FiniteSets, Functions, FiniteSetTheorems, TLAPS

\* A set of natural numbers has a least element.
LEMMA LeastNat ==
    ASSUME NEW T, T \subseteq Nat, T # {} PROVE \E n \in T : \A m \in T : n <= m
<1>1. PICK n \in T : \A m \in T : ~(<<m, n>> \in OpToRel(<, Nat))
  BY NatLessThanWellFounded, WFMin
<1>2. \A m \in T : ~(m < n)
  BY <1>1 DEF OpToRel
<1> QED BY <1>2

\* Induction along the natural numbers, for a set of good ones.
LEMMA NatInduct ==
    ASSUME NEW Good, 0 \in Good, \A n \in Nat : n \in Good => n + 1 \in Good
    PROVE  Nat \subseteq Good
<1> SUFFICES ASSUME Nat \ Good # {} PROVE FALSE
  OBVIOUS
<1>1. PICK n \in Nat \ Good : \A m \in Nat \ Good : n <= m
  BY LeastNat
<1>2. n - 1 \in Nat /\ n - 1 \in Good
  BY <1>1
<1> QED BY <1>1, <1>2

\* Induction along a finite set, for a set of good subsets.
LEMMA SetInduct ==
    ASSUME NEW S, IsFiniteSet(S), NEW Good, {} \in Good,
           \A T \in SUBSET S : \A x \in S \ T : T \in Good => T \cup {x} \in Good
    PROVE  S \in Good
<1> DEFINE Sizes == {n \in Nat : \A T \in SUBSET S : Cardinality(T) = n => T \in Good}
<1>1. 0 \in Sizes
  BY FS_Subset, FS_EmptySet
<1>2. ASSUME NEW n \in Nat, n \in Sizes PROVE n + 1 \in Sizes
  <2> SUFFICES ASSUME NEW T \in SUBSET S, Cardinality(T) = n + 1 PROVE T \in Good
    OBVIOUS
  <2>1. IsFiniteSet(T) /\ T # {}
    BY FS_Subset, FS_EmptySet
  <2>2. PICK x \in T : TRUE
    BY <2>1
  <2>3. Cardinality(T \ {x}) = n
    <3>1. Cardinality(T \ {x}) = Cardinality(T) - 1
      BY <2>1, <2>2, FS_RemoveElement
    <3> QED BY <3>1
  <2>4. T \ {x} \in Good
    BY <1>2, <2>3
  <2>5. (T \ {x}) \cup {x} \in Good
    BY <2>4
  <2>6. (T \ {x}) \cup {x} = T
    OBVIOUS
  <2> QED BY <2>5, <2>6
<1> HIDE DEF Sizes
<1>3. Nat \subseteq Sizes
  BY <1>1, <1>2, NatInduct
<1>4. Cardinality(S) \in Nat
  BY FS_CardinalityType
<1> QED BY <1>3, <1>4 DEF Sizes

\* Of finitely many things one is the greatest, by whatever they are measured.
LEMMA Greatest ==
    ASSUME NEW S, IsFiniteSet(S), S # {}, NEW f, \A x \in S : f[x] \in Int
    PROVE  \E x \in S : \A y \in S : f[y] <= f[x]
<1> DEFINE Top(T, x) == x \in T /\ \A y \in T : f[y] <= f[x]
           Good == {T \in SUBSET S : T # {} => \E x : Top(T, x)}
<1>1. {} \in Good
  OBVIOUS
<1>2. ASSUME NEW T \in SUBSET S, NEW z \in S \ T, T \in Good PROVE T \cup {z} \in Good
  <2> SUFFICES \E x : Top(T \cup {z}, x)
    OBVIOUS
  <2>1. CASE T = {}
    BY <2>1
  <2>2. CASE T # {}
    <3>1. PICK x : Top(T, x)
      BY <1>2, <2>2
    <3>2. Top(T \cup {z}, x) \/ Top(T \cup {z}, z)
      BY <3>1
    <3> QED BY <3>2
  <2> QED BY <2>1, <2>2
<1> HIDE DEF Good
<1>3. S \in Good
  BY <1>1, <1>2, SetInduct
<1> QED BY <1>3 DEF Good

----------------------------------------------------------------------------
(* The fold behind a sum.  It is defined by recursion over the subsets of  *)
(* the index set; the recursion has a solution when the set is finite.     *)
Pick(s) == CHOOSE x \in s : TRUE
Step(f, g, s) == IF s = {} THEN 0 ELSE f[Pick(s)] + g[s \ {Pick(s)}]
Fold(f, S, g) == g = [s \in SUBSET S |-> Step(f, g, s)]
Sum(f, S) == SumFunctionOnSet(f, S)

LEMMA SumIsFold ==
    ASSUME NEW f, NEW S PROVE Sum(f, S) = (CHOOSE g : Fold(f, S, g))[S]
BY DEF Sum, SumFunctionOnSet, FoldFunctionOnSet, MapThenFoldSet, Fold, Step, Pick

LEMMA PickIn == ASSUME NEW s, s # {} PROVE Pick(s) \in s
BY DEF Pick

Small(S, n) == {s \in SUBSET S : Cardinality(s) <= n}
FoldUpTo(f, S, n, g) == g = [s \in Small(S, n) |-> Step(f, g, s)]

LEMMA FoldExists ==
    ASSUME NEW f, NEW S, IsFiniteSet(S) PROVE \E g : Fold(f, S, g)
<1> DEFINE Good == {n \in Nat : \E g : FoldUpTo(f, S, n, g)}
<1>0. \A s \in SUBSET S : /\ IsFiniteSet(s) /\ Cardinality(s) \in Nat
                          /\ Cardinality(s) = 0 <=> s = {}
                          /\ \A x \in s : Cardinality(s \ {x}) = Cardinality(s) - 1
  BY FS_Subset, FS_EmptySet, FS_CardinalityType, FS_RemoveElement
<1>1. 0 \in Good
  <2> DEFINE g == [s \in Small(S, 0) |-> 0]
  <2>1. \A s \in Small(S, 0) : s = {}
    BY <1>0 DEF Small
  <2>2. g = [s \in Small(S, 0) |-> Step(f, g, s)]
    BY <2>1 DEF Step
  <2> QED BY <2>2 DEF FoldUpTo
<1>2. ASSUME NEW n \in Nat, n \in Good PROVE n + 1 \in Good
  <2>1. PICK g : FoldUpTo(f, S, n, g)
    BY <1>2
  <2> DEFINE h == [s \in Small(S, n + 1) |-> Step(f, g, s)]
  <2>2. ASSUME NEW s \in Small(S, n + 1), s # {}
        PROVE  s \ {Pick(s)} \in Small(S, n) /\ s \ {Pick(s)} \in Small(S, n + 1)
    <3>1. Cardinality(s \ {Pick(s)}) = Cardinality(s) - 1 /\ Cardinality(s) \in Nat
          /\ Cardinality(s) <= n + 1 /\ s \in SUBSET S
      BY <1>0, <2>2, PickIn DEF Small
    <3> QED BY <3>1 DEF Small
  <2>3. \A t \in Small(S, n) : t \in Small(S, n + 1)
    BY <1>0 DEF Small
  <2>4. \A t \in Small(S, n) : g[t] = h[t]
    BY <2>1, <2>3 DEF FoldUpTo
  <2>5. \A s \in Small(S, n + 1) : Step(f, g, s) = Step(f, h, s)
    BY <2>2, <2>4 DEF Step
  <2>6. h = [s \in Small(S, n + 1) |-> Step(f, h, s)]
    <3> HIDE DEF h
    <3>1. h = [s \in Small(S, n + 1) |-> Step(f, g, s)]
      BY DEF h
    <3> QED BY <2>5, <3>1
  <2> HIDE DEF h
  <2> QED BY <2>6 DEF FoldUpTo
<1> HIDE DEF Good
<1>3. Nat \subseteq Good
  BY <1>1, <1>2, NatInduct
<1>4. Cardinality(S) \in Nat /\ Small(S, Cardinality(S)) = SUBSET S
  BY <1>0, FS_CardinalityType, FS_Subset DEF Small
<1> QED BY <1>3, <1>4 DEF Good, FoldUpTo, Fold

\* Two solutions agree where both are defined.
LEMMA FoldUnique ==
    ASSUME NEW f, NEW S, IsFiniteSet(S), NEW T, T \subseteq S,
           NEW g, Fold(f, S, g), NEW h, Fold(f, T, h)
    PROVE  g[T] = h[T]
<1> DEFINE Sizes == {n \in Nat : \A s \in SUBSET T : Cardinality(s) = n => g[s] = h[s]}
<1>0. /\ \A s \in SUBSET T : /\ IsFiniteSet(s) /\ Cardinality(s) \in Nat
                             /\ Cardinality(s) = 0 <=> s = {}
                             /\ \A x \in s : Cardinality(s \ {x}) = Cardinality(s) - 1
      /\ Cardinality(T) \in Nat
  <2>1. IsFiniteSet(T)
    BY FS_Subset
  <2> QED BY <2>1, FS_Subset, FS_EmptySet, FS_CardinalityType, FS_RemoveElement
<1>1. \A s \in SUBSET T : g[s] = Step(f, g, s) /\ h[s] = Step(f, h, s)
  BY DEF Fold
<1>2. 0 \in Sizes
  BY <1>0, <1>1 DEF Step
<1>3. ASSUME NEW n \in Nat, n \in Sizes PROVE n + 1 \in Sizes
  <2> SUFFICES ASSUME NEW s \in SUBSET T, Cardinality(s) = n + 1 PROVE g[s] = h[s]
    OBVIOUS
  <2>1. s # {}
    BY <1>0
  <2>2. s \ {Pick(s)} \in SUBSET T /\ Cardinality(s \ {Pick(s)}) = n
    BY <1>0, <2>1, PickIn
  <2>3. g[s \ {Pick(s)}] = h[s \ {Pick(s)}]
    BY <1>3, <2>2
  <2> QED BY <1>1, <2>1, <2>3 DEF Step
<1> HIDE DEF Sizes
<1>4. Nat \subseteq Sizes
  BY <1>2, <1>3, NatInduct
<1> QED BY <1>0, <1>4 DEF Sizes

----------------------------------------------------------------------------
(* The laws of sums.                                                       *)
IntOn(f, S) == \A x \in S : f[x] \in Int

\* A sum is the element picked first and the sum of the others.
LEMMA SumStep ==
    ASSUME NEW f, NEW S, IsFiniteSet(S)
    PROVE  Sum(f, S) = IF S = {} THEN 0 ELSE f[Pick(S)] + Sum(f, S \ {Pick(S)})
<1>1. PICK g : Fold(f, S, g) /\ Sum(f, S) = g[S]
  BY FoldExists, SumIsFold
<1>2. g[S] = Step(f, g, S)
  BY <1>1 DEF Fold
<1>3. CASE S = {}
  BY <1>1, <1>2, <1>3 DEF Step
<1>4. CASE S # {}
  <2> DEFINE T == S \ {Pick(S)}
  <2>1. IsFiniteSet(T) /\ T \subseteq S
    BY FS_Subset
  <2>2. PICK h : Fold(f, T, h) /\ Sum(f, T) = h[T]
    BY <2>1, FoldExists, SumIsFold
  <2>3. g[T] = h[T]
    BY <1>1, <2>1, <2>2, FoldUnique
  <2>4. g[S] = f[Pick(S)] + g[T]
    BY <1>2, <1>4 DEF Step
  <2> QED BY <1>1, <1>4, <2>2, <2>3, <2>4
<1> QED BY <1>3, <1>4

\* Nothing sums to zero.
LEMMA SumEmpty == \A f : Sum(f, {}) = 0
BY SumStep, FS_EmptySet

\* Integers sum to an integer.
LEMMA SumInt ==
    ASSUME NEW f, NEW S, IsFiniteSet(S), IntOn(f, S) PROVE Sum(f, S) \in Int
<1> DEFINE Sizes == {n \in Nat : \A T \in SUBSET S : Cardinality(T) = n => Sum(f, T) \in Int}
<1>0. \A T \in SUBSET S : /\ IsFiniteSet(T) /\ Cardinality(T) \in Nat
                          /\ Cardinality(T) = 0 <=> T = {}
                          /\ \A x \in T : Cardinality(T \ {x}) = Cardinality(T) - 1
  BY FS_Subset, FS_EmptySet, FS_CardinalityType, FS_RemoveElement
<1>1. 0 \in Sizes
  BY <1>0, SumEmpty
<1>2. ASSUME NEW n \in Nat, n \in Sizes PROVE n + 1 \in Sizes
  <2> SUFFICES ASSUME NEW T \in SUBSET S, Cardinality(T) = n + 1 PROVE Sum(f, T) \in Int
    OBVIOUS
  <2>1. T # {}
    BY <1>0
  <2>2. Pick(T) \in T /\ T \ {Pick(T)} \in SUBSET S /\ Cardinality(T \ {Pick(T)}) = n
    BY <1>0, <2>1, PickIn
  <2>3. Sum(f, T \ {Pick(T)}) \in Int /\ f[Pick(T)] \in Int
    BY <1>2, <2>2 DEF IntOn
  <2>4. Sum(f, T) = f[Pick(T)] + Sum(f, T \ {Pick(T)})
    BY <1>0, <2>1, SumStep
  <2> QED BY <2>3, <2>4
<1> HIDE DEF Sizes
<1>3. Nat \subseteq Sizes
  BY <1>1, <1>2, NatInduct
<1> QED BY <1>0, <1>3 DEF Sizes

\* Any element can be taken out.
LEMMA SumTake ==
    ASSUME NEW f, NEW S, IsFiniteSet(S), IntOn(f, S), NEW x \in S
    PROVE  Sum(f, S) = f[x] + Sum(f, S \ {x})
<1> DEFINE Sizes == {n \in Nat : \A T \in SUBSET S : Cardinality(T) = n =>
                        \A y \in T : Sum(f, T) = f[y] + Sum(f, T \ {y})}
<1>0. \A T \in SUBSET S : /\ IsFiniteSet(T) /\ Cardinality(T) \in Nat
                          /\ Cardinality(T) = 0 <=> T = {}
                          /\ \A y \in T : Cardinality(T \ {y}) = Cardinality(T) - 1
  BY FS_Subset, FS_EmptySet, FS_CardinalityType, FS_RemoveElement
<1>1. 0 \in Sizes
  BY <1>0
<1>2. ASSUME NEW n \in Nat, n \in Sizes PROVE n + 1 \in Sizes
  <2> SUFFICES ASSUME NEW T \in SUBSET S, Cardinality(T) = n + 1, NEW y \in T
               PROVE  Sum(f, T) = f[y] + Sum(f, T \ {y})
    OBVIOUS
  <2> DEFINE p == Pick(T)
             R == (T \ {p}) \ {y}
  <2>1. p \in T /\ Sum(f, T) = f[p] + Sum(f, T \ {p})
    BY <1>0, PickIn, SumStep
  <2>2. CASE y = p
    BY <2>1, <2>2
  <2>3. CASE y # p
    <3>1. Sum(f, T \ {p}) = f[y] + Sum(f, R)
      BY <1>0, <1>2, <2>1, <2>3
    <3>2. Sum(f, T \ {y}) = f[p] + Sum(f, R)
      <4>1. R = (T \ {y}) \ {p}
        OBVIOUS
      <4>2. T \ {y} \in SUBSET S /\ Cardinality(T \ {y}) = n /\ p \in T \ {y}
        BY <1>0, <2>1, <2>3
      <4> HIDE DEF p, R
      <4> QED BY <1>2, <4>1, <4>2
    <3>3. f[p] \in Int /\ f[y] \in Int /\ Sum(f, R) \in Int
      <4>1. R \in SUBSET S
        OBVIOUS
      <4>2. IntOn(f, R)
        BY <4>1 DEF IntOn
      <4>3. Sum(f, R) \in Int
        BY <1>0, <4>1, <4>2, SumInt
      <4> QED BY <2>1, <4>3 DEF IntOn
    <3> HIDE DEF p, R
    <3> QED BY <2>1, <3>1, <3>2, <3>3
  <2> QED BY <2>2, <2>3
<1> HIDE DEF Sizes
<1>3. Nat \subseteq Sizes
  BY <1>1, <1>2, NatInduct
<1> QED BY <1>0, <1>3 DEF Sizes

\* An element can be added.
LEMMA SumAdd ==
    ASSUME NEW f, NEW S, IsFiniteSet(S), IntOn(f, S), NEW x, x \notin S, f[x] \in Int
    PROVE  Sum(f, S \cup {x}) = f[x] + Sum(f, S)
<1>1. IsFiniteSet(S \cup {x}) /\ IntOn(f, S \cup {x}) /\ (S \cup {x}) \ {x} = S
  BY FS_AddElement DEF IntOn
<1>2. \A T : IsFiniteSet(T) /\ IntOn(f, T) /\ x \in T => Sum(f, T) = f[x] + Sum(f, T \ {x})
  BY SumTake
<1> QED BY <1>1, <1>2

\* What holds of the empty sum and of a sum with one more element holds of
\* any: the subsets of S it holds of are all of them.
LEMMA SumInduct ==
    ASSUME NEW S, IsFiniteSet(S), NEW Good, {} \in Good,
           \A T \in SUBSET S : \A x \in S \ T : IsFiniteSet(T) /\ T \in Good => T \cup {x} \in Good
    PROVE  S \in Good
BY SetInduct, FS_Subset

\* Functions that agree on S have one sum over it.
LEMMA SumSame ==
    ASSUME NEW f, NEW g, NEW S, IsFiniteSet(S), IntOn(f, S), \A x \in S : g[x] = f[x]
    PROVE  Sum(g, S) = Sum(f, S)
<1> DEFINE Good == {T \in SUBSET S : Sum(g, T) = Sum(f, T)}
<1>1. {} \in Good
  BY SumEmpty
<1>2. ASSUME NEW T \in SUBSET S, NEW x \in S \ T, IsFiniteSet(T), T \in Good
      PROVE  T \cup {x} \in Good
  <2>1. /\ IntOn(f, T) /\ IntOn(g, T) /\ f[x] \in Int /\ g[x] \in Int /\ x \notin T
        /\ Sum(g, T) = Sum(f, T) /\ T \cup {x} \in SUBSET S
    BY <1>2 DEF IntOn
  <2>2. Sum(f, T \cup {x}) = f[x] + Sum(f, T) /\ Sum(g, T \cup {x}) = g[x] + Sum(g, T)
    BY <1>2, <2>1, SumAdd
  <2> QED BY <2>1, <2>2
<1> HIDE DEF Good
<1>3. S \in Good
  BY <1>1, <1>2, SumInduct
<1> QED BY <1>3 DEF Good

\* Sums add up term by term.
LEMMA SumPlus ==
    ASSUME NEW f, NEW g, NEW h, NEW S, IsFiniteSet(S), IntOn(f, S), IntOn(g, S),
           \A x \in S : h[x] = f[x] + g[x]
    PROVE  Sum(h, S) = Sum(f, S) + Sum(g, S)
<1> DEFINE Good == {T \in SUBSET S : Sum(h, T) = Sum(f, T) + Sum(g, T)}
<1>1. {} \in Good
  BY SumEmpty
<1>2. ASSUME NEW T \in SUBSET S, NEW x \in S \ T, IsFiniteSet(T), T \in Good
      PROVE  T \cup {x} \in Good
  <2>1. /\ IntOn(f, T) /\ IntOn(g, T) /\ IntOn(h, T)
        /\ f[x] \in Int /\ g[x] \in Int /\ h[x] = f[x] + g[x] /\ x \notin T
        /\ Sum(h, T) = Sum(f, T) + Sum(g, T) /\ T \cup {x} \in SUBSET S
    BY <1>2 DEF IntOn
  <2>2. /\ Sum(f, T \cup {x}) = f[x] + Sum(f, T)
        /\ Sum(g, T \cup {x}) = g[x] + Sum(g, T)
        /\ Sum(h, T \cup {x}) = h[x] + Sum(h, T)
    BY <1>2, <2>1, SumAdd
  <2>3. Sum(f, T) \in Int /\ Sum(g, T) \in Int
    BY <1>2, <2>1, SumInt
  <2> QED BY <2>1, <2>2, <2>3
<1> HIDE DEF Good
<1>3. S \in Good
  BY <1>1, <1>2, SumInduct
<1> QED BY <1>3 DEF Good

\* A factor can be taken out.
LEMMA SumScale ==
    ASSUME NEW f, NEW h, NEW c \in Int, NEW S, IsFiniteSet(S), IntOn(f, S),
           \A x \in S : h[x] = c * f[x]
    PROVE  Sum(h, S) = c * Sum(f, S)
<1> DEFINE Good == {T \in SUBSET S : Sum(h, T) = c * Sum(f, T)}
<1>1. {} \in Good
  BY SumEmpty
<1>2. ASSUME NEW T \in SUBSET S, NEW x \in S \ T, IsFiniteSet(T), T \in Good
      PROVE  T \cup {x} \in Good
  <2>1. /\ IntOn(f, T) /\ f[x] \in Int /\ h[x] = c * f[x] /\ x \notin T
        /\ Sum(h, T) = c * Sum(f, T) /\ T \cup {x} \in SUBSET S
    BY <1>2 DEF IntOn
  <2>2. IntOn(h, T) /\ h[x] \in Int
    BY <2>1 DEF IntOn
  <2>3. /\ Sum(f, T \cup {x}) = f[x] + Sum(f, T)
        /\ Sum(h, T \cup {x}) = h[x] + Sum(h, T)
    BY <1>2, <2>1, <2>2, SumAdd
  <2>4. Sum(f, T) \in Int
    BY <1>2, <2>1, SumInt
  <2>5. \A a, b \in Int : c * (a + b) = c * a + c * b
    OBVIOUS
  <2> QED BY <2>1, <2>3, <2>4, <2>5
<1> HIDE DEF Good
<1>3. S \in Good
  BY <1>1, <1>2, SumInduct
<1> QED BY <1>3 DEF Good

\* A sum over two sets that share nothing is that of each.
LEMMA SumUnion ==
    ASSUME NEW f, NEW R, NEW S, IsFiniteSet(R), IsFiniteSet(S), R \cap S = {},
           IntOn(f, R), IntOn(f, S)
    PROVE  Sum(f, R \cup S) = Sum(f, R) + Sum(f, S)
<1> DEFINE Good == {T \in SUBSET S : Sum(f, R \cup T) = Sum(f, R) + Sum(f, T)}
<1>1. {} \in Good
  BY SumEmpty, SumInt
<1>2. ASSUME NEW T \in SUBSET S, NEW x \in S \ T, IsFiniteSet(T), T \in Good
      PROVE  T \cup {x} \in Good
  <2>1. /\ IntOn(f, T) /\ f[x] \in Int /\ x \notin T /\ T \cup {x} \in SUBSET S
        /\ Sum(f, R \cup T) = Sum(f, R) + Sum(f, T)
    BY <1>2 DEF IntOn
  <2>2. IntOn(f, R \cup T) /\ x \notin R \cup T /\ (R \cup T) \cup {x} = R \cup (T \cup {x})
    BY <2>1 DEF IntOn
  <2>3. IsFiniteSet(R \cup T)
    BY <1>2, FS_Union
  <2>4. Sum(f, T \cup {x}) = f[x] + Sum(f, T) /\ Sum(f, (R \cup T) \cup {x}) = f[x] + Sum(f, R \cup T)
    BY <1>2, <2>1, <2>2, <2>3, SumAdd
  <2>5. Sum(f, R) \in Int /\ Sum(f, T) \in Int
    BY <1>2, <2>1, SumInt
  <2>6. Sum(f, R \cup (T \cup {x})) = f[x] + Sum(f, R \cup T)
    BY <2>2, <2>4
  <2> QED BY <2>1, <2>4, <2>5, <2>6
<1> HIDE DEF Good
<1>3. S \in Good
  BY <1>1, <1>2, SumInduct
<1> QED BY <1>3 DEF Good

\* Terms that are not below others sum to no less.
LEMMA SumMonotone ==
    ASSUME NEW f, NEW g, NEW S, IsFiniteSet(S), IntOn(f, S), IntOn(g, S), \A x \in S : f[x] <= g[x]
    PROVE  Sum(f, S) <= Sum(g, S)
<1> DEFINE Good == {T \in SUBSET S : Sum(f, T) <= Sum(g, T)}
<1>1. {} \in Good
  BY SumEmpty
<1>2. ASSUME NEW T \in SUBSET S, NEW x \in S \ T, IsFiniteSet(T), T \in Good
      PROVE  T \cup {x} \in Good
  <2>1. /\ IntOn(f, T) /\ IntOn(g, T) /\ f[x] \in Int /\ g[x] \in Int /\ f[x] <= g[x]
        /\ x \notin T /\ Sum(f, T) <= Sum(g, T) /\ T \cup {x} \in SUBSET S
    BY <1>2 DEF IntOn
  <2>2. Sum(f, T \cup {x}) = f[x] + Sum(f, T) /\ Sum(g, T \cup {x}) = g[x] + Sum(g, T)
    BY <1>2, <2>1, SumAdd
  <2>3. Sum(f, T) \in Int /\ Sum(g, T) \in Int
    BY <1>2, <2>1, SumInt
  <2> QED BY <2>1, <2>2, <2>3
<1> HIDE DEF Good
<1>3. S \in Good
  BY <1>1, <1>2, SumInduct
<1> QED BY <1>3 DEF Good

\* Equal terms sum to their number of times one.
LEMMA SumConstant ==
    ASSUME NEW f, NEW c \in Int, NEW S, IsFiniteSet(S), \A x \in S : f[x] = c
    PROVE  Sum(f, S) = c * Cardinality(S)
<1> DEFINE Good == {T \in SUBSET S : Sum(f, T) = c * Cardinality(T)}
<1>1. {} \in Good
  BY SumEmpty, FS_EmptySet
<1>2. ASSUME NEW T \in SUBSET S, NEW x \in S \ T, IsFiniteSet(T), T \in Good
      PROVE  T \cup {x} \in Good
  <2>1. /\ IntOn(f, T) /\ f[x] = c /\ x \notin T /\ Sum(f, T) = c * Cardinality(T)
        /\ T \cup {x} \in SUBSET S
    BY <1>2 DEF IntOn
  <2>2. Sum(f, T \cup {x}) = c + c * Cardinality(T)
    BY <1>2, <2>1, SumAdd
  <2>3. Cardinality(T) \in Nat /\ Cardinality(T \cup {x}) = Cardinality(T) + 1
    BY <1>2, <2>1, FS_CardinalityType, FS_AddElement
  <2>4. \A n \in Nat : c * (n + 1) = c + c * n
    OBVIOUS
  <2> QED BY <2>1, <2>2, <2>3, <2>4
<1> HIDE DEF Good
<1>3. S \in Good
  BY <1>1, <1>2, SumInduct
<1> QED BY <1>3 DEF Good

\* Zeros sum to zero.
LEMMA SumZero ==
    ASSUME NEW f, NEW S, IsFiniteSet(S), \A x \in S : f[x] = 0 PROVE Sum(f, S) = 0
<1>1. Sum(f, S) = 0 * Cardinality(S)
  BY SumConstant
<1> QED BY <1>1, FS_CardinalityType

\* Where the terms are zero they can be left out.
LEMMA SumSupport ==
    ASSUME NEW f, NEW S, IsFiniteSet(S), NEW T, T \subseteq S, IntOn(f, T),
           \A x \in S \ T : f[x] = 0
    PROVE  Sum(f, S) = Sum(f, T)
<1>1. /\ IsFiniteSet(T) /\ IsFiniteSet(S \ T) /\ T \cup (S \ T) = S /\ T \cap (S \ T) = {}
      /\ IntOn(f, S \ T)
  BY FS_Subset DEF IntOn
<1>2. Sum(f, T \cup (S \ T)) = Sum(f, T) + Sum(f, S \ T)
  BY <1>1, SumUnion
<1>3. Sum(f, S) = Sum(f, T) + Sum(f, S \ T)
  BY <1>1, <1>2, Zenon
<1>4. Sum(f, S \ T) = 0 /\ Sum(f, T) \in Int
  BY <1>1, SumZero, SumInt
<1> QED BY <1>3, <1>4

\* A single term.
LEMMA SumOne == ASSUME NEW f, NEW x, f[x] \in Int PROVE Sum(f, {x}) = f[x]
<1>1. Sum(f, {} \cup {x}) = f[x] + Sum(f, {})
  BY SumAdd, FS_EmptySet DEF IntOn
<1> QED BY <1>1, SumEmpty

\* A pair of terms.
LEMMA SumTwo ==
    ASSUME NEW f, NEW x, NEW y, x # y, f[x] \in Int, f[y] \in Int
    PROVE  Sum(f, {x, y}) = f[x] + f[y]
<1>1. Sum(f, {x} \cup {y}) = f[y] + Sum(f, {x})
  BY SumAdd, FS_Singleton DEF IntOn
<1>2. {x} \cup {y} = {x, y}
  OBVIOUS
<1>3. Sum(f, {x, y}) = f[y] + Sum(f, {x})
  BY <1>1, <1>2, Zenon
<1>4. Sum(f, {x}) = f[x]
  BY SumOne
<1> QED BY <1>3, <1>4

\* What each row of a table comes to, and each column.
Row(t, S, x) == [y \in S |-> t[<<x, y>>]]
Column(t, R, y) == [x \in R |-> t[<<x, y>>]]
RowSums(t, R, S) == [x \in R |-> Sum(Row(t, S, x), S)]
ColumnSums(t, R, S) == [y \in S |-> Sum(Column(t, R, y), R)]

\* The rows of a table and its columns sum to the same.
LEMMA SumExchange ==
    ASSUME NEW t, NEW R, NEW S, IsFiniteSet(R), IsFiniteSet(S),
           \A x \in R, y \in S : t[<<x, y>>] \in Int
    PROVE  Sum(RowSums(t, R, S), R) = Sum(ColumnSums(t, R, S), S)
<1> DEFINE Line(x) == [y \in S |-> t[<<x, y>>]]
           Col(T, y) == Sum([x \in R |-> t[<<x, y>>]], T)
           rows == [x \in R |-> Sum(Line(x), S)]
           cols(T) == [y \in S |-> Col(T, y)]
           Good == {T \in SUBSET R : Sum(rows, T) = Sum(cols(T), S)}
<1>0. /\ \A x \in R : IntOn(Line(x), S) /\ rows[x] \in Int /\ rows[x] = Sum(Line(x), S)
      /\ \A T \in SUBSET R : \A y \in S : Col(T, y) \in Int
      /\ \A T \in SUBSET R : IntOn(cols(T), S)
  <2>1. \A x \in R : IntOn(Line(x), S)
    BY DEF IntOn
  <2>2. \A x \in R : rows[x] \in Int /\ rows[x] = Sum(Line(x), S)
    BY <2>1, SumInt
  <2>3. ASSUME NEW T \in SUBSET R, NEW y \in S PROVE Col(T, y) \in Int
    <3>1. IsFiniteSet(T) /\ IntOn([x \in R |-> t[<<x, y>>]], T)
      BY FS_Subset DEF IntOn
    <3> QED BY <3>1, SumInt
  <2>4. \A T \in SUBSET R : IntOn(cols(T), S)
    BY <2>3 DEF IntOn
  <2> HIDE DEF Line, Col, rows, cols
  <2> QED BY <2>1, <2>2, <2>3, <2>4
<1>1. {} \in Good
  <2>1. \A y \in S : cols({})[y] = 0
    BY SumEmpty
  <2>2. Sum(cols({}), S) = 0
    BY <2>1, SumZero
  <2> QED BY <2>2, SumEmpty
<1>2. ASSUME NEW T \in SUBSET R, NEW x \in R \ T, IsFiniteSet(T), T \in Good
      PROVE  T \cup {x} \in Good
  <2>1. \A y \in S : cols(T \cup {x})[y] = Line(x)[y] + cols(T)[y]
    <3> SUFFICES ASSUME NEW y \in S PROVE Col(T \cup {x}, y) = t[<<x, y>>] + Col(T, y)
      OBVIOUS
    <3> DEFINE c == [z \in R |-> t[<<z, y>>]]
    <3>1. IntOn(c, T) /\ c[x] \in Int /\ c[x] = t[<<x, y>>]
      BY DEF IntOn
    <3> HIDE DEF c
    <3>2. Sum(c, T \cup {x}) = c[x] + Sum(c, T)
      BY <1>2, <3>1, SumAdd
    <3> QED BY <3>1, <3>2 DEF c
  <2>2. IntOn(Line(x), S) /\ IntOn(cols(T), S)
    BY <1>0
  <2>3. Sum(cols(T \cup {x}), S) = Sum(Line(x), S) + Sum(cols(T), S)
    <3> DEFINE a == Line(x)
               b == cols(T)
               c == cols(T \cup {x})
    <3>1. IntOn(a, S) /\ IntOn(b, S) /\ \A y \in S : c[y] = a[y] + b[y]
      BY <2>1, <2>2
    <3> HIDE DEF a, b, c
    <3>2. Sum(c, S) = Sum(a, S) + Sum(b, S)
      BY <3>1, SumPlus
    <3> QED BY <3>2 DEF a, b, c
  <2>4. Sum(rows, T \cup {x}) = rows[x] + Sum(rows, T)
    <3>1. IntOn(rows, T) /\ rows[x] \in Int
      BY <1>0 DEF IntOn
    <3> HIDE DEF rows
    <3> QED BY <1>2, <3>1, SumAdd
  <2>5. rows[x] = Sum(Line(x), S)
    OBVIOUS
  <2>6. Sum(rows, T) = Sum(cols(T), S)
    BY <1>2
  <2> HIDE DEF rows, cols, Line
  <2> QED BY <2>3, <2>4, <2>5, <2>6
<1> HIDE DEF Good
<1>3. R \in Good
  BY <1>1, <1>2, SumInduct
<1>4. Sum(rows, R) = Sum(cols(R), S)
  BY <1>3 DEF Good
<1> QED BY <1>4 DEF RowSums, ColumnSums, Row, Column
=============================================================================
