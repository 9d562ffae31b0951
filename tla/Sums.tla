--------------------------------- MODULE Sums ---------------------------------
(* Sums and products over finite sets, which the models take from the         *)
(* community modules as folds: that the recursion of a fold has a solution,    *)
(* what follows from its equation, and how a sum of sums may be arranged.  The *)
(* provers take no operator as a parameter, so a summand is a function, and    *)
(* induction is over a set of numbers, or of subsets.                          *)
EXTENDS Integers, FiniteSetsExt, Functions, FiniteSetTheorems, WellFoundedInduction, TLAPS

-----------------------------------------------------------------------------
(* Induction *)

\* A set with 0 in it, and with each of its numbers the next, has them all.
LEMMA Induction ==
    ASSUME NEW T, 0 \in T, \A n \in Nat : n \in T => n + 1 \in T
    PROVE  Nat \subseteq T
<1> SUFFICES ASSUME Nat \ T # {} PROVE FALSE
  OBVIOUS
<1>1. PICK m \in Nat \ T : \A k \in Nat \ T : ~(<<k, m>> \in OpToRel(<, Nat))
  <2>1. Nat \ T \subseteq Nat
    OBVIOUS
  <2> QED
    BY <2>1, WFMin, NatLessThanWellFounded
<1>2. \A k \in Nat \ T : ~(k < m)
  BY <1>1 DEF OpToRel
<1>3. m # 0
  OBVIOUS
<1>4. m - 1 \in Nat /\ m - 1 < m /\ m = (m - 1) + 1
  BY <1>3
<1>5. m - 1 \in T
  BY <1>2, <1>4
<1> QED
  BY <1>4, <1>5

-----------------------------------------------------------------------------
(* The equation of a sum *)

SumOf(g, S) == LET of(x) == g[x] IN MapThenSumSet(of, S)

Any(S) == CHOOSE x \in S : TRUE

\* What the recursion asks of the sum of one subset, given those of the smaller ones.
Sum1(g, h, s) == IF s = {} THEN 0 ELSE g[Any(s)] + h[s \ {Any(s)}]

LEMMA AnyIn == ASSUME NEW s, s # {} PROVE Any(s) \in s
  BY DEF Any

LEMMA RestSmaller ==
    ASSUME NEW s, IsFiniteSet(s), NEW x \in s
    PROVE  IsFiniteSet(s \ {x}) /\ Cardinality(s) \in Nat /\ Cardinality(s \ {x}) \in Nat
           /\ Cardinality(s \ {x}) + 1 = Cardinality(s)
<1>1. IsFiniteSet(s \ {x}) /\ Cardinality(s \ {x}) = Cardinality(s) - 1
  BY FS_RemoveElement
<1>2. Cardinality(s) \in Nat /\ Cardinality(s \ {x}) \in Nat
  BY <1>1, FS_CardinalityType
<1> QED
  BY <1>1, <1>2

LEMMA NotEmpty ==
    ASSUME NEW s, NEW n \in Nat, Cardinality(s) = n + 1
    PROVE  s # {}
<1>1. Cardinality({}) = 0
  BY FS_EmptySet
<1> QED
  BY <1>1

RightUpTo(h, g, S, n) == \A s \in SUBSET S : Cardinality(s) <= n => h[s] = Sum1(g, h, s)

\* The recursion has a solution: up to each size, one that is right so far.
LEMMA SolutionUpTo ==
    ASSUME NEW S, IsFiniteSet(S), NEW g, \A x \in S : g[x] \in Nat, NEW n \in Nat
    PROVE  \E h \in [SUBSET S -> Nat] : RightUpTo(h, g, S, n)
<1> DEFINE Right(h, m) == RightUpTo(h, g, S, m)
           T == {m \in Nat : \E h \in [SUBSET S -> Nat] : Right(h, m)}
<1>0. \A s \in SUBSET S : IsFiniteSet(s) /\ Cardinality(s) \in Nat
  BY FS_Subset, FS_CardinalityType
<1>1. 0 \in T
  <2> DEFINE h == [s \in SUBSET S |-> 0]
  <2>1. \A s \in SUBSET S : Cardinality(s) <= 0 => s = {}
    BY <1>0, FS_EmptySet
  <2>2. Right(h, 0)
    BY <2>1 DEF RightUpTo, Sum1
  <2>3. h \in [SUBSET S -> Nat]
    OBVIOUS
  <2> HIDE DEF h
  <2> QED
    BY <2>2, <2>3
<1>2. \A m \in Nat : m \in T => m + 1 \in T
  <2> SUFFICES ASSUME NEW m \in Nat, m \in T PROVE m + 1 \in T
    OBVIOUS
  <2>1. PICK h \in [SUBSET S -> Nat] : Right(h, m)
    OBVIOUS
  <2> DEFINE k == [s \in SUBSET S |-> Sum1(g, h, s)]
  <2>2. k \in [SUBSET S -> Nat]
    <3> SUFFICES ASSUME NEW s \in SUBSET S PROVE Sum1(g, h, s) \in Nat
      OBVIOUS
    <3>1. s # {} => Any(s) \in S /\ s \ {Any(s)} \in SUBSET S
      BY AnyIn
    <3> QED
      BY <3>1 DEF Sum1
  <2>3. ASSUME NEW s \in SUBSET S, Cardinality(s) <= m + 1
        PROVE  Sum1(g, h, s) = Sum1(g, k, s)
    <3>1. CASE s = {}
      BY <3>1 DEF Sum1
    <3>2. CASE s # {}
      <4> DEFINE r == s \ {Any(s)}
      <4>1. r \in SUBSET S /\ Cardinality(r) <= m
        BY <1>0, <2>3, <3>2, AnyIn, RestSmaller
      <4>2. h[r] = k[r]
        BY <2>1, <4>1 DEF RightUpTo
      <4> QED
        BY <3>2, <4>2 DEF Sum1
    <3> QED
      BY <3>1, <3>2
  <2>4. Right(k, m + 1)
    BY <2>3 DEF RightUpTo
  <2> HIDE DEF k
  <2>5. \E f \in [SUBSET S -> Nat] : Right(f, m + 1)
    BY <2>2, <2>4, Zenon
  <2>6. m + 1 \in Nat
    OBVIOUS
  <2> QED
    BY <2>5, <2>6, Zenon
<1> HIDE DEF T
<1>3. n \in T
  BY <1>1, <1>2, Induction
<1> QED
  BY <1>3 DEF T

Solves(h, g, S) == h = [s \in SUBSET S |-> Sum1(g, h, s)]

\* The sum is this solution.
LEMMA SumSolves ==
    ASSUME NEW S, IsFiniteSet(S), NEW g, \A x \in S : g[x] \in Nat
    PROVE  \E h : Solves(h, g, S) /\ SumOf(g, S) = h[S]
<1>1. \E h : Solves(h, g, S)
  <2>1. PICK n \in Nat : n = Cardinality(S)
    BY FS_CardinalityType
  <2>2. PICK h \in [SUBSET S -> Nat] : RightUpTo(h, g, S, n)
    BY <2>1, SolutionUpTo
  <2>3. \A s \in SUBSET S : Cardinality(s) <= n
    BY <2>1, FS_Subset
  <2>4. h = [s \in SUBSET S |-> Sum1(g, h, s)]
    BY <2>2, <2>3 DEF RightUpTo
  <2> QED
    BY <2>4 DEF Solves
<1> DEFINE iter == CHOOSE h : Solves(h, g, S)
<1>2. Solves(iter, g, S)
  BY <1>1
<1>3. SumOf(g, S) = iter[S]
  BY DEF SumOf, MapThenSumSet, MapThenFoldSet, Sum1, Any, Solves
<1> HIDE DEF iter
<1> QED
  BY <1>2, <1>3

\* There is one solution: two of them agree on the subsets that they share.
LEMMA SolutionsAgree ==
    ASSUME NEW S, IsFiniteSet(S), NEW g, NEW h, Solves(h, g, S),
           NEW R \in SUBSET S, NEW k, Solves(k, g, R)
    PROVE  h[R] = k[R]
<1> DEFINE T == {n \in Nat : \A s \in SUBSET R : Cardinality(s) = n => h[s] = k[s]}
<1>0. \A s \in SUBSET R : IsFiniteSet(s) /\ Cardinality(s) \in Nat /\ s \in SUBSET S
  BY FS_Subset, FS_CardinalityType
<1>1. ASSUME NEW s \in SUBSET R
      PROVE  h[s] = Sum1(g, h, s) /\ k[s] = Sum1(g, k, s)
  BY <1>0, <1>1 DEF Solves
<1>2. 0 \in T
  BY <1>0, <1>1, FS_EmptySet DEF Sum1
<1>3. \A n \in Nat : n \in T => n + 1 \in T
  <2> SUFFICES ASSUME NEW n \in Nat, n \in T, NEW s \in SUBSET R, Cardinality(s) = n + 1
               PROVE  h[s] = k[s]
    OBVIOUS
  <2>1. s # {}
    BY NotEmpty
  <2> DEFINE r == s \ {Any(s)}
  <2>2. r \in SUBSET R /\ Cardinality(r) = n
    BY <1>0, <2>1, AnyIn, RestSmaller
  <2>3. h[r] = k[r]
    BY <2>2
  <2> QED
    BY <1>1, <2>1, <2>3 DEF Sum1
<1> HIDE DEF T
<1>4. Cardinality(R) \in T
  BY <1>0, <1>2, <1>3, Induction
<1> QED
  BY <1>4 DEF T

\* A solution, wherever it comes from, is the sum.
LEMMA SolutionIsSum ==
    ASSUME NEW S, IsFiniteSet(S), NEW g, \A x \in S : g[x] \in Nat, NEW h, Solves(h, g, S)
    PROVE  h[S] = SumOf(g, S)
<1>1. PICK k : Solves(k, g, S) /\ SumOf(g, S) = k[S]
  BY SumSolves
<1> QED
  BY <1>1, SolutionsAgree

\* The sum meets the equation of its recursion.
LEMMA SumEquation ==
    ASSUME NEW S, IsFiniteSet(S), NEW g, \A x \in S : g[x] \in Nat
    PROVE  /\ SumOf(g, {}) = 0
           /\ S # {} => SumOf(g, S) = g[Any(S)] + SumOf(g, S \ {Any(S)})
<1>1. ASSUME NEW R \in SUBSET S
      PROVE  /\ IsFiniteSet(R)
             /\ \E h : Solves(h, g, R) /\ SumOf(g, R) = h[R] /\ h[R] = Sum1(g, h, R)
  <2>1. IsFiniteSet(R) /\ \A x \in R : g[x] \in Nat
    BY FS_Subset
  <2>2. PICK h : Solves(h, g, R) /\ SumOf(g, R) = h[R]
    BY <2>1, SumSolves
  <2>3. h[R] = Sum1(g, h, R)
    BY <2>2 DEF Solves
  <2> QED
    BY <2>1, <2>2, <2>3
<1>2. PICK h : Solves(h, g, S) /\ SumOf(g, S) = h[S] /\ h[S] = Sum1(g, h, S)
  BY <1>1
<1>3. SumOf(g, {}) = 0
  BY <1>1 DEF Sum1
<1>4. S # {} => SumOf(g, S \ {Any(S)}) = h[S \ {Any(S)}]
  <2> DEFINE R == S \ {Any(S)}
  <2>1. R \in SUBSET S
    OBVIOUS
  <2>2. PICK k : Solves(k, g, R) /\ SumOf(g, R) = k[R]
    BY <1>1
  <2> HIDE DEF R
  <2>3. h[R] = k[R]
    BY <1>2, <2>1, <2>2, SolutionsAgree
  <2> QED
    BY <2>2, <2>3 DEF R
<1> QED
  BY <1>2, <1>3, <1>4 DEF Sum1

-----------------------------------------------------------------------------
(* What follows from the equation *)

\* A sum of natural numbers is one.
LEMMA SumIsNat ==
    ASSUME NEW S, IsFiniteSet(S), NEW g, \A x \in S : g[x] \in Nat
    PROVE  SumOf(g, S) \in Nat
<1>1. PICK h : Solves(h, g, S) /\ SumOf(g, S) = h[S]
  BY SumSolves
<1>5. \A s \in SUBSET S : h[s] = Sum1(g, h, s)
  BY <1>1 DEF Solves
<1> DEFINE T == {n \in Nat : \A s \in SUBSET S : Cardinality(s) = n => h[s] \in Nat}
<1>0. \A s \in SUBSET S : IsFiniteSet(s) /\ Cardinality(s) \in Nat
  BY FS_Subset, FS_CardinalityType
<1>2. 0 \in T
  BY <1>0, <1>5, FS_EmptySet DEF Sum1
<1>3. \A n \in Nat : n \in T => n + 1 \in T
  <2> SUFFICES ASSUME NEW n \in Nat, n \in T, NEW s \in SUBSET S, Cardinality(s) = n + 1
               PROVE  h[s] \in Nat
    OBVIOUS
  <2>1. s # {}
    BY NotEmpty
  <2>2. Any(s) \in S /\ s \ {Any(s)} \in SUBSET S /\ Cardinality(s \ {Any(s)}) = n
    BY <1>0, <2>1, AnyIn, RestSmaller
  <2>3. h[s \ {Any(s)}] \in Nat /\ g[Any(s)] \in Nat
    BY <2>2
  <2>4. h[s] = g[Any(s)] + h[s \ {Any(s)}]
    BY <1>5, <2>1 DEF Sum1
  <2> QED
    BY <2>3, <2>4
<1> HIDE DEF T
<1>4. Cardinality(S) \in T
  BY <1>0, <1>2, <1>3, Induction
<1> QED
  BY <1>1, <1>4 DEF T

\* Any element may be added last.
LEMMA SumRemove ==
    ASSUME NEW S, IsFiniteSet(S), NEW g, \A x \in S : g[x] \in Nat, NEW y \in S
    PROVE  SumOf(g, S) = g[y] + SumOf(g, S \ {y})
<1> DEFINE T == {n \in Nat : \A s \in SUBSET S : Cardinality(s) = n =>
                                \A x \in s : SumOf(g, s) = g[x] + SumOf(g, s \ {x})}
<1>0. \A s \in SUBSET S : IsFiniteSet(s) /\ Cardinality(s) \in Nat /\ SumOf(g, s) \in Nat
  BY FS_Subset, FS_CardinalityType, SumIsNat
<1>1. 0 \in T
  BY <1>0, FS_EmptySet
<1>2. \A n \in Nat : n \in T => n + 1 \in T
  <2> SUFFICES ASSUME NEW n \in Nat, n \in T PROVE n + 1 \in T
    OBVIOUS
  <2> SUFFICES ASSUME NEW s \in SUBSET S, Cardinality(s) = n + 1, NEW x \in s
               PROVE  SumOf(g, s) = g[x] + SumOf(g, s \ {x})
    OBVIOUS
  <2> DEFINE a == Any(s)
  <2>1. a \in s /\ s # {}
    BY AnyIn
  <2>2. SumOf(g, s) = g[a] + SumOf(g, s \ {a})
    BY <1>0, <2>1, SumEquation
  <2> HIDE DEF a
  <2>3. CASE x = a
    BY <2>2, <2>3
  <2>4. CASE x # a
    <3>1. /\ s \ {a} \in SUBSET S /\ Cardinality(s \ {a}) = n
          /\ s \ {x} \in SUBSET S /\ Cardinality(s \ {x}) = n
      BY <1>0, <2>1, RestSmaller
    <3>2. SumOf(g, s \ {a}) = g[x] + SumOf(g, (s \ {a}) \ {x})
      BY <2>4, <3>1
    <3>3. SumOf(g, s \ {x}) = g[a] + SumOf(g, (s \ {x}) \ {a})
      BY <2>1, <2>4, <3>1
    <3>4. (s \ {a}) \ {x} = (s \ {x}) \ {a} /\ (s \ {a}) \ {x} \in SUBSET S
      OBVIOUS
    <3>5. g[x] \in Nat /\ g[a] \in Nat /\ SumOf(g, (s \ {a}) \ {x}) \in Nat
      BY <1>0, <2>1, <3>4
    <3>6. SumOf(g, s \ {x}) = g[a] + SumOf(g, (s \ {a}) \ {x})
      BY <3>3, <3>4
    <3> QED
      BY <2>2, <3>2, <3>5, <3>6
  <2> QED
    BY <2>3, <2>4
<1> HIDE DEF T
<1>3. Cardinality(S) \in T
  BY <1>0, <1>1, <1>2, Induction
<1> QED
  BY <1>3 DEF T

\* With every summand at least as large, so is the sum.
LEMMA SumMonotone ==
    ASSUME NEW S, IsFiniteSet(S), NEW f, NEW g,
           \A x \in S : f[x] \in Nat /\ g[x] \in Nat /\ f[x] <= g[x]
    PROVE  SumOf(f, S) <= SumOf(g, S)
<1> DEFINE T == {n \in Nat : \A s \in SUBSET S : Cardinality(s) = n => SumOf(f, s) <= SumOf(g, s)}
<1>0. \A s \in SUBSET S : IsFiniteSet(s) /\ Cardinality(s) \in Nat
                            /\ SumOf(f, s) \in Nat /\ SumOf(g, s) \in Nat
  BY FS_Subset, FS_CardinalityType, SumIsNat
<1>1. 0 \in T
  <2>1. SumOf(f, {}) = 0 /\ SumOf(g, {}) = 0
    BY SumEquation
  <2> QED
    BY <1>0, <2>1, FS_EmptySet
<1>2. \A n \in Nat : n \in T => n + 1 \in T
  <2> SUFFICES ASSUME NEW n \in Nat, n \in T, NEW s \in SUBSET S, Cardinality(s) = n + 1
               PROVE  SumOf(f, s) <= SumOf(g, s)
    OBVIOUS
  <2>1. PICK a \in s : TRUE
    BY FS_EmptySet
  <2>2. s \ {a} \in SUBSET S /\ Cardinality(s \ {a}) = n
    BY <1>0, <2>1, RestSmaller
  <2>3. SumOf(f, s) = f[a] + SumOf(f, s \ {a}) /\ SumOf(g, s) = g[a] + SumOf(g, s \ {a})
    BY <1>0, <2>1, SumRemove
  <2>4. SumOf(f, s \ {a}) <= SumOf(g, s \ {a})
    BY <2>2
  <2>5. f[a] \in Nat /\ g[a] \in Nat /\ f[a] <= g[a]
    BY <2>1
  <2> QED
    BY <1>0, <2>2, <2>3, <2>4, <2>5
<1> HIDE DEF T
<1>3. Cardinality(S) \in T
  BY <1>0, <1>1, <1>2, Induction
<1> QED
  BY <1>3 DEF T

\* A sum is that of its summands.
LEMMA SumOfSame ==
    ASSUME NEW S, IsFiniteSet(S), NEW f, NEW g, \A x \in S : f[x] \in Nat /\ f[x] = g[x]
    PROVE  SumOf(f, S) = SumOf(g, S)
<1>1. SumOf(f, S) <= SumOf(g, S) /\ SumOf(g, S) <= SumOf(f, S)
  BY SumMonotone
<1>2. SumOf(f, S) \in Nat /\ SumOf(g, S) \in Nat
  BY SumIsNat
<1> QED
  BY <1>1, <1>2

-----------------------------------------------------------------------------
(* Induction over the subsets of a finite set, and what it gives of sums *)

\* Of the subsets of a finite set, a family that has the empty one, and with each the one with
\* any element more, has them all.
LEMMA SetInduction ==
    ASSUME NEW S, IsFiniteSet(S), NEW F, {} \in F,
           \A s \in SUBSET S : \A x \in S \ s : s \in F => s \cup {x} \in F
    PROVE  S \in F
<1> DEFINE T == {n \in Nat : \A s \in SUBSET S : Cardinality(s) = n => s \in F}
<1>0. \A s \in SUBSET S : IsFiniteSet(s) /\ Cardinality(s) \in Nat
  BY FS_Subset, FS_CardinalityType
<1>1. 0 \in T
  BY <1>0, FS_EmptySet
<1>2. \A n \in Nat : n \in T => n + 1 \in T
  <2> SUFFICES ASSUME NEW n \in Nat, n \in T, NEW s \in SUBSET S, Cardinality(s) = n + 1
               PROVE  s \in F
    OBVIOUS
  <2>1. PICK x \in s : TRUE
    BY NotEmpty
  <2>2. s \ {x} \in SUBSET S /\ Cardinality(s \ {x}) = n
    BY <1>0, <2>1, RestSmaller
  <2>3. s \ {x} \in F /\ x \in S \ (s \ {x}) /\ (s \ {x}) \cup {x} = s
    BY <2>1, <2>2
  <2> QED
    BY <2>2, <2>3
<1> HIDE DEF T
<1>3. Cardinality(S) \in T
  BY <1>0, <1>1, <1>2, Induction
<1> QED
  BY <1>3 DEF T

\* Nothing sums to 0.
LEMMA SumEmpty == ASSUME NEW g PROVE SumOf(g, {}) = 0
<1>1. IsFiniteSet({}) /\ \A x \in {} : g[x] \in Nat
  BY FS_EmptySet
<1> QED
  BY <1>1, SumEquation

\* A single summand is its own sum.
LEMMA SumOfOne == ASSUME NEW g, NEW y, g[y] \in Nat PROVE SumOf(g, {y}) = g[y]
<1>1. IsFiniteSet({y}) /\ \A x \in {y} : g[x] \in Nat
  BY FS_Singleton
<1>2. SumOf(g, {y}) = g[y] + SumOf(g, {y} \ {y})
  BY <1>1, SumRemove
<1>3. {y} \ {y} = {}
  OBVIOUS
<1>4. SumOf(g, {}) = 0
  BY SumEmpty
<1> QED
  BY <1>2, <1>3, <1>4

\* One summand more.
LEMMA SumAdd ==
    ASSUME NEW S, IsFiniteSet(S), NEW g, \A x \in S : g[x] \in Nat,
           NEW s \in SUBSET S, NEW y \in S \ s
    PROVE  SumOf(g, s \cup {y}) = g[y] + SumOf(g, s) /\ SumOf(g, s) \in Nat
<1>1. s \cup {y} \in SUBSET S /\ (s \cup {y}) \ {y} = s
  OBVIOUS
<1>2. IsFiniteSet(s) /\ IsFiniteSet(s \cup {y})
  BY <1>1, FS_Subset
<1>3. \A x \in s \cup {y} : g[x] \in Nat
  BY <1>1
<1> QED
  BY <1>1, <1>2, <1>3, SumRemove, SumIsNat

\* The sum of sums.
LEMMA SumPlus ==
    ASSUME NEW S, IsFiniteSet(S), NEW f, NEW g, NEW h,
           \A x \in S : f[x] \in Nat /\ g[x] \in Nat /\ h[x] = f[x] + g[x]
    PROVE  SumOf(h, S) = SumOf(f, S) + SumOf(g, S)
<1> DEFINE F == {s \in SUBSET S : SumOf(h, s) = SumOf(f, s) + SumOf(g, s)}
<1>1. {} \in F
  BY SumEmpty
<1>2. ASSUME NEW s \in SUBSET S, NEW y \in S \ s, s \in F
      PROVE  s \cup {y} \in F
  <2>1. \A x \in S : h[x] \in Nat
    OBVIOUS
  <2>2. /\ SumOf(f, s \cup {y}) = f[y] + SumOf(f, s) /\ SumOf(f, s) \in Nat
        /\ SumOf(g, s \cup {y}) = g[y] + SumOf(g, s) /\ SumOf(g, s) \in Nat
        /\ SumOf(h, s \cup {y}) = h[y] + SumOf(h, s)
    BY <2>1, SumAdd
  <2>3. f[y] \in Nat /\ g[y] \in Nat /\ h[y] = f[y] + g[y]
    OBVIOUS
  <2>4. SumOf(h, s) = SumOf(f, s) + SumOf(g, s)
    BY <1>2
  <2> QED
    BY <2>2, <2>3, <2>4
<1> HIDE DEF F
<1>3. S \in F
  BY <1>1, <1>2, SetInduction
<1> QED
  BY <1>3 DEF F

\* A multiple of a sum.
LEMMA SumTimes ==
    ASSUME NEW S, IsFiniteSet(S), NEW g, NEW h, NEW k \in Nat,
           \A x \in S : g[x] \in Nat /\ h[x] = k * g[x]
    PROVE  SumOf(h, S) = k * SumOf(g, S)
<1> DEFINE F == {s \in SUBSET S : SumOf(h, s) = k * SumOf(g, s)}
<1>1. {} \in F
  BY SumEmpty
<1>2. ASSUME NEW s \in SUBSET S, NEW y \in S \ s, s \in F
      PROVE  s \cup {y} \in F
  <2>1. \A x \in S : h[x] \in Nat
    OBVIOUS
  <2>2. /\ SumOf(g, s \cup {y}) = g[y] + SumOf(g, s) /\ SumOf(g, s) \in Nat
        /\ SumOf(h, s \cup {y}) = h[y] + SumOf(h, s)
    <3>1. SumOf(g, s \cup {y}) = g[y] + SumOf(g, s) /\ SumOf(g, s) \in Nat
      BY SumAdd
    <3>2. SumOf(h, s \cup {y}) = h[y] + SumOf(h, s)
      BY <2>1, SumAdd
    <3> QED
      BY <3>1, <3>2
  <2>3. g[y] \in Nat /\ h[y] = k * g[y] /\ SumOf(h, s) = k * SumOf(g, s)
    BY <1>2
  <2>4. \A a \in Nat, b \in Nat : k * a + k * b = k * (a + b)
    OBVIOUS
  <2> QED
    BY <2>2, <2>3, <2>4
<1> HIDE DEF F
<1>3. S \in F
  BY <1>1, <1>2, SetInduction
<1> QED
  BY <1>3 DEF F

\* Summands of 0 may be left out.
LEMMA SumSupport ==
    ASSUME NEW S, IsFiniteSet(S), NEW g, \A x \in S : g[x] \in Nat,
           NEW R \in SUBSET S, \A x \in S \ R : g[x] = 0
    PROVE  SumOf(g, S) = SumOf(g, R)
<1> DEFINE F == {s \in SUBSET (S \ R) : SumOf(g, R \cup s) = SumOf(g, R)}
<1>1. {} \in F
  <2>1. R \cup {} = R
    OBVIOUS
  <2> QED
    BY <2>1
<1>2. ASSUME NEW s \in SUBSET (S \ R), NEW y \in (S \ R) \ s, s \in F
      PROVE  s \cup {y} \in F
  <2>1. R \cup s \in SUBSET S /\ y \in S \ (R \cup s) /\ R \cup (s \cup {y}) = (R \cup s) \cup {y}
    OBVIOUS
  <2>2. SumOf(g, (R \cup s) \cup {y}) = g[y] + SumOf(g, R \cup s) /\ SumOf(g, R \cup s) \in Nat
    BY <2>1, SumAdd
  <2>3. g[y] = 0 /\ SumOf(g, R \cup s) = SumOf(g, R)
    BY <1>2
  <2>4. SumOf(g, (R \cup s) \cup {y}) = SumOf(g, R)
    BY <2>2, <2>3
  <2>5. SumOf(g, R \cup (s \cup {y})) = SumOf(g, R)
    BY <2>1, <2>4
  <2> QED
    BY <2>5
<1> HIDE DEF F
<1>3. S \ R \in F
  <2>1. IsFiniteSet(S \ R)
    BY FS_Subset
  <2> QED
    BY <1>1, <1>2, <2>1, SetInduction
<1>4. R \cup (S \ R) = S
  OBVIOUS
<1> QED
  BY <1>3, <1>4 DEF F

\* Row by row or column by column.
LEMMA SumSwap ==
    ASSUME NEW S, IsFiniteSet(S), NEW R, IsFiniteSet(R), NEW m,
           \A x \in S, y \in R : m[<<x, y>>] \in Nat
    PROVE  SumOf([x \in S |-> SumOf([y \in R |-> m[<<x, y>>]], R)], S)
             = SumOf([y \in R |-> SumOf([x \in S |-> m[<<x, y>>]], S)], R)
<1> DEFINE Row(x) == [y \in R |-> m[<<x, y>>]]
           Col(y) == [x \in S |-> m[<<x, y>>]]
           A == [x \in S |-> SumOf(Row(x), R)]
           B(s) == [y \in R |-> SumOf(Col(y), s)]
           F == {s \in SUBSET S : SumOf(A, s) = SumOf(B(s), R)}
<1>0. /\ \A x \in S, y \in R : Row(x)[y] = m[<<x, y>>] /\ Col(y)[x] = m[<<x, y>>]
      /\ \A x \in S : A[x] = SumOf(Row(x), R)
      /\ \A s : \A y \in R : B(s)[y] = SumOf(Col(y), s)
  OBVIOUS
<1> HIDE DEF Row, Col, A, B
<1>1. ASSUME NEW x \in S PROVE A[x] \in Nat /\ \A y \in R : Row(x)[y] \in Nat
  <2>1. \A y \in R : Row(x)[y] \in Nat
    BY <1>0
  <2>2. SumOf(Row(x), R) \in Nat
    BY <2>1, SumIsNat
  <2> QED
    BY <1>0, <2>1, <2>2
<1>2. {} \in F
  <2>1. \A y \in R : B({})[y] = 0
    BY <1>0, SumEmpty
  <2>2. SumOf(B({}), R) = SumOf(B({}), {})
    <3>1. \A y \in R : B({})[y] \in Nat
      BY <2>1
    <3>2. {} \in SUBSET R /\ \A y \in R \ {} : B({})[y] = 0
      BY <2>1
    <3> QED
      BY <3>1, <3>2, SumSupport
  <2>3. SumOf(B({}), {}) = 0 /\ SumOf(A, {}) = 0
    BY SumEmpty
  <2> QED
    BY <2>2, <2>3
<1>3. ASSUME NEW s \in SUBSET S, NEW x \in S \ s, s \in F
      PROVE  s \cup {x} \in F
  <2>1. SumOf(A, s \cup {x}) = A[x] + SumOf(A, s) /\ SumOf(A, s) \in Nat
    BY <1>1, SumAdd
  <2>2. ASSUME NEW y \in R
        PROVE  B(s \cup {x})[y] = Row(x)[y] + B(s)[y] /\ Row(x)[y] \in Nat /\ B(s)[y] \in Nat
    <3>1. \A z \in S : Col(y)[z] \in Nat
      BY <1>0
    <3>2. SumOf(Col(y), s \cup {x}) = Col(y)[x] + SumOf(Col(y), s) /\ SumOf(Col(y), s) \in Nat
      BY <3>1, SumAdd
    <3>3. Col(y)[x] = Row(x)[y] /\ Row(x)[y] \in Nat
      BY <1>0
    <3> QED
      BY <1>0, <3>2, <3>3
  <2>3. SumOf(B(s \cup {x}), R) = SumOf(Row(x), R) + SumOf(B(s), R)
    BY <2>2, SumPlus
  <2>4. SumOf(A, s) = SumOf(B(s), R)
    BY <1>3
  <2>5. SumOf(A, s \cup {x}) = SumOf(B(s \cup {x}), R)
    BY <1>0, <2>1, <2>3, <2>4
  <2> QED
    BY <2>5
<1> HIDE DEF F
<1>4. S \in F
  BY <1>2, <1>3, SetInduction
<1> QED
  BY <1>4 DEF F, A, B, Row, Col

\* A sum by the values of a map.
LEMMA SumFibers ==
    ASSUME NEW S, IsFiniteSet(S), NEW N, IsFiniteSet(N), NEW g, NEW phi,
           \A x \in S : g[x] \in Nat /\ phi[x] \in N
    PROVE  SumOf(g, S) = SumOf([n \in N |-> SumOf(g, {x \in S : phi[x] = n})], N)
<1> DEFINE m == [p \in S \X N |-> IF phi[p[1]] = p[2] THEN g[p[1]] ELSE 0]
           Row(x) == [n \in N |-> m[<<x, n>>]]
           Col(n) == [x \in S |-> m[<<x, n>>]]
           Fiber(n) == {x \in S : phi[x] = n}
           A == [x \in S |-> SumOf(Row(x), N)]
           B == [n \in N |-> SumOf(Col(n), S)]
           D == [n \in N |-> SumOf(g, Fiber(n))]
<1>1. \A x \in S, n \in N : m[<<x, n>>] = IF phi[x] = n THEN g[x] ELSE 0
  OBVIOUS
<1>2. \A x \in S, n \in N : m[<<x, n>>] \in Nat
  BY <1>1
<1> HIDE DEF m
<1>3. SumOf(A, S) = SumOf(B, N)
  BY <1>2, SumSwap
<1>4. /\ \A x \in S, n \in N : Row(x)[n] = m[<<x, n>>] /\ Col(n)[x] = m[<<x, n>>]
      /\ \A x \in S : A[x] = SumOf(Row(x), N)
      /\ \A n \in N : B[n] = SumOf(Col(n), S) /\ D[n] = SumOf(g, Fiber(n))
  OBVIOUS
<1>5. \A n \in N : Fiber(n) \in SUBSET S /\ \A x \in S : x \in Fiber(n) <=> phi[x] = n
  OBVIOUS
<1> HIDE DEF Row, Col, A, B, D, Fiber
<1>6. ASSUME NEW x \in S PROVE A[x] = g[x]
  <2>1. \A n \in N : Row(x)[n] \in Nat
    BY <1>2, <1>4
  <2>2. {phi[x]} \in SUBSET N /\ \A n \in N \ {phi[x]} : Row(x)[n] = 0
    <3>1. ASSUME NEW n \in N \ {phi[x]} PROVE Row(x)[n] = 0
      <4>1. Row(x)[n] = m[<<x, n>>] /\ phi[x] # n
        BY <1>4
      <4> QED
        BY <1>1, <4>1
    <3> QED
      BY <3>1
  <2>3. SumOf(Row(x), N) = SumOf(Row(x), {phi[x]})
    BY <2>1, <2>2, SumSupport
  <2>4. Row(x)[phi[x]] = g[x] /\ g[x] \in Nat
    BY <1>1, <1>4
  <2>5. SumOf(Row(x), {phi[x]}) = Row(x)[phi[x]]
    BY <2>4, SumOfOne
  <2> QED
    BY <1>4, <2>3, <2>4, <2>5
<1>7. ASSUME NEW n \in N PROVE B[n] = D[n] /\ B[n] \in Nat
  <2>1. \A x \in S : Col(n)[x] \in Nat
    BY <1>2, <1>4
  <2>2. ASSUME NEW x \in S \ Fiber(n) PROVE Col(n)[x] = 0
    <3>1. Col(n)[x] = m[<<x, n>>] /\ phi[x] # n
      BY <1>4, <1>5
    <3> QED
      BY <1>1, <3>1
  <2>3. SumOf(Col(n), S) = SumOf(Col(n), Fiber(n))
    BY <1>5, <2>1, <2>2, SumSupport
  <2>4. IsFiniteSet(Fiber(n)) /\ \A x \in Fiber(n) : Col(n)[x] \in Nat /\ Col(n)[x] = g[x]
    <3>1. IsFiniteSet(Fiber(n)) /\ Fiber(n) \subseteq S
      BY <1>5, FS_Subset
    <3>2. ASSUME NEW x \in Fiber(n) PROVE Col(n)[x] \in Nat /\ Col(n)[x] = g[x]
      <4>1. x \in S /\ phi[x] = n
        BY <1>5, <3>1
      <4> QED
        BY <1>1, <1>4, <2>1, <4>1
    <3> QED
      BY <3>1, <3>2
  <2>5. SumOf(Col(n), Fiber(n)) = SumOf(g, Fiber(n))
    BY <2>4, SumOfSame
  <2>6. SumOf(Col(n), S) \in Nat
    BY <2>1, SumIsNat
  <2> QED
    BY <1>4, <2>3, <2>5, <2>6
<1>8. SumOf(A, S) = SumOf(g, S)
  BY <1>6, SumOfSame
<1>9. SumOf(B, N) = SumOf(D, N)
  BY <1>7, SumOfSame
<1> QED
  BY <1>3, <1>8, <1>9 DEF D, Fiber

\* Two sums over sets that a map pairs up.
LEMMA SumPaired ==
    ASSUME NEW S, IsFiniteSet(S), NEW R, IsFiniteSet(R), NEW g, NEW h, NEW phi,
           \A x \in S : g[x] \in Nat /\ phi[x] \in R /\ g[x] = h[phi[x]],
           \A x \in S, y \in S : phi[x] = phi[y] => x = y,
           \A z \in R : \E x \in S : phi[x] = z
    PROVE  SumOf(g, S) = SumOf(h, R)
<1> DEFINE Fiber(z) == {x \in S : phi[x] = z}
           D == [z \in R |-> SumOf(g, Fiber(z))]
<1>1. SumOf(g, S) = SumOf(D, R)
  BY SumFibers
<1>2. \A z \in R : D[z] = SumOf(g, Fiber(z))
  OBVIOUS
<1> HIDE DEF D
<1>3. ASSUME NEW z \in R PROVE D[z] = h[z] /\ D[z] \in Nat
  <2>1. PICK x \in S : phi[x] = z
    OBVIOUS
  <2>2. Fiber(z) = {x}
    BY <2>1
  <2>3. g[x] \in Nat /\ g[x] = h[z]
    BY <2>1
  <2>4. SumOf(g, {x}) = g[x]
    BY <2>3, SumOfOne
  <2> QED
    BY <1>2, <2>2, <2>3, <2>4
<1>4. SumOf(D, R) = SumOf(h, R)
  BY <1>3, SumOfSame
<1> QED
  BY <1>1, <1>4

\* A sum is no less than each summand.
LEMMA SumAtLeast ==
    ASSUME NEW S, IsFiniteSet(S), NEW g, \A x \in S : g[x] \in Nat, NEW y \in S
    PROVE  g[y] <= SumOf(g, S)
<1>1. SumOf(g, S) = g[y] + SumOf(g, S \ {y})
  BY SumRemove
<1>2. SumOf(g, S \ {y}) \in Nat
  <2>1. IsFiniteSet(S \ {y})
    BY FS_RemoveElement
  <2> QED
    BY <2>1, SumIsNat
<1> QED
  BY <1>1, <1>2

-----------------------------------------------------------------------------
(* Products of positive numbers, likewise *)

Pos == Nat \ {0}
ProdOf(g, S) == LET times(x, y) == x * y IN FoldFunctionOnSet(times, 1, g, S)

Prod1(g, h, s) == IF s = {} THEN 1 ELSE g[Any(s)] * h[s \ {Any(s)}]

\* A product of two positive numbers is positive.
LEMMA TimesPos == \A x \in Pos, y \in Pos : x * y \in Pos
  BY DEF Pos

\* Factors may change places.
LEMMA TimesSwap == \A x \in Nat, y \in Nat, z \in Nat : x * (y * z) = y * (x * z)
  OBVIOUS

RightProductUpTo(h, g, S, n) == \A s \in SUBSET S : Cardinality(s) <= n => h[s] = Prod1(g, h, s)

\* The recursion has a solution: up to each size, one that is right so far.
LEMMA ProductUpTo ==
    ASSUME NEW S, IsFiniteSet(S), NEW g, \A x \in S : g[x] \in Pos, NEW n \in Nat
    PROVE  \E h \in [SUBSET S -> Pos] : RightProductUpTo(h, g, S, n)
<1> DEFINE Right(h, m) == RightProductUpTo(h, g, S, m)
           T == {m \in Nat : \E h \in [SUBSET S -> Pos] : Right(h, m)}
<1>0. \A s \in SUBSET S : IsFiniteSet(s) /\ Cardinality(s) \in Nat
  BY FS_Subset, FS_CardinalityType
<1>1. 0 \in T
  <2> DEFINE h == [s \in SUBSET S |-> 1]
  <2>1. \A s \in SUBSET S : Cardinality(s) <= 0 => s = {}
    BY <1>0, FS_EmptySet
  <2>2. Right(h, 0)
    BY <2>1 DEF RightProductUpTo, Prod1
  <2>3. h \in [SUBSET S -> Pos]
    BY DEF Pos
  <2> HIDE DEF h
  <2> QED
    BY <2>2, <2>3
<1>2. \A m \in Nat : m \in T => m + 1 \in T
  <2> SUFFICES ASSUME NEW m \in Nat, m \in T PROVE m + 1 \in T
    OBVIOUS
  <2>1. PICK h \in [SUBSET S -> Pos] : Right(h, m)
    OBVIOUS
  <2> DEFINE k == [s \in SUBSET S |-> Prod1(g, h, s)]
  <2>2. k \in [SUBSET S -> Pos]
    <3> SUFFICES ASSUME NEW s \in SUBSET S PROVE Prod1(g, h, s) \in Pos
      OBVIOUS
    <3>1. s # {} => Any(s) \in S /\ s \ {Any(s)} \in SUBSET S
      BY AnyIn
    <3> QED
      <4>1. s # {} => g[Any(s)] \in Pos /\ h[s \ {Any(s)}] \in Pos
        BY <3>1
      <4>2. s # {} => g[Any(s)] * h[s \ {Any(s)}] \in Pos
        BY <4>1, TimesPos
      <4>3. 1 \in Pos
        BY DEF Pos
      <4> QED
        BY <4>2, <4>3 DEF Prod1
  <2>3. ASSUME NEW s \in SUBSET S, Cardinality(s) <= m + 1
        PROVE  Prod1(g, h, s) = Prod1(g, k, s)
    <3>1. CASE s = {}
      BY <3>1 DEF Prod1
    <3>2. CASE s # {}
      <4> DEFINE r == s \ {Any(s)}
      <4>1. r \in SUBSET S /\ Cardinality(r) <= m
        BY <1>0, <2>3, <3>2, AnyIn, RestSmaller
      <4>2. h[r] = k[r]
        BY <2>1, <4>1 DEF RightProductUpTo
      <4> QED
        BY <3>2, <4>2 DEF Prod1
    <3> QED
      BY <3>1, <3>2
  <2>4. Right(k, m + 1)
    BY <2>3 DEF RightProductUpTo
  <2> HIDE DEF k
  <2>5. \E f \in [SUBSET S -> Pos] : Right(f, m + 1)
    BY <2>2, <2>4, Zenon
  <2>6. m + 1 \in Nat
    OBVIOUS
  <2> QED
    BY <2>5, <2>6, Zenon
<1> HIDE DEF T
<1>3. n \in T
  BY <1>1, <1>2, Induction
<1> QED
  BY <1>3 DEF T

SolvesProduct(h, g, S) == h = [s \in SUBSET S |-> Prod1(g, h, s)]

\* The product is this solution.
LEMMA ProductSolves ==
    ASSUME NEW S, IsFiniteSet(S), NEW g, \A x \in S : g[x] \in Pos
    PROVE  \E h : SolvesProduct(h, g, S) /\ ProdOf(g, S) = h[S]
<1>1. \E h : SolvesProduct(h, g, S)
  <2>1. PICK n \in Nat : n = Cardinality(S)
    BY FS_CardinalityType
  <2>2. PICK h \in [SUBSET S -> Pos] : RightProductUpTo(h, g, S, n)
    BY <2>1, ProductUpTo
  <2>3. \A s \in SUBSET S : Cardinality(s) <= n
    BY <2>1, FS_Subset
  <2>4. h = [s \in SUBSET S |-> Prod1(g, h, s)]
    BY <2>2, <2>3 DEF RightProductUpTo
  <2> QED
    BY <2>4 DEF SolvesProduct
<1> DEFINE iter == CHOOSE h : SolvesProduct(h, g, S)
<1>2. SolvesProduct(iter, g, S)
  BY <1>1
<1>3. ProdOf(g, S) = iter[S]
  BY DEF ProdOf, FoldFunctionOnSet, MapThenFoldSet, Prod1, Any, SolvesProduct
<1> HIDE DEF iter
<1> QED
  BY <1>2, <1>3

\* There is one solution: two of them agree on the subsets that they share.
LEMMA ProductsAgree ==
    ASSUME NEW S, IsFiniteSet(S), NEW g, NEW h, SolvesProduct(h, g, S),
           NEW R \in SUBSET S, NEW k, SolvesProduct(k, g, R)
    PROVE  h[R] = k[R]
<1> DEFINE T == {n \in Nat : \A s \in SUBSET R : Cardinality(s) = n => h[s] = k[s]}
<1>0. \A s \in SUBSET R : IsFiniteSet(s) /\ Cardinality(s) \in Nat /\ s \in SUBSET S
  BY FS_Subset, FS_CardinalityType
<1>1. ASSUME NEW s \in SUBSET R
      PROVE  h[s] = Prod1(g, h, s) /\ k[s] = Prod1(g, k, s)
  BY <1>0, <1>1 DEF SolvesProduct
<1>2. 0 \in T
  BY <1>0, <1>1, FS_EmptySet DEF Prod1
<1>3. \A n \in Nat : n \in T => n + 1 \in T
  <2> SUFFICES ASSUME NEW n \in Nat, n \in T, NEW s \in SUBSET R, Cardinality(s) = n + 1
               PROVE  h[s] = k[s]
    OBVIOUS
  <2>1. s # {}
    BY NotEmpty
  <2> DEFINE r == s \ {Any(s)}
  <2>2. r \in SUBSET R /\ Cardinality(r) = n
    BY <1>0, <2>1, AnyIn, RestSmaller
  <2>3. h[r] = k[r]
    BY <2>2
  <2> QED
    BY <1>1, <2>1, <2>3 DEF Prod1
<1> HIDE DEF T
<1>4. Cardinality(R) \in T
  BY <1>0, <1>2, <1>3, Induction
<1> QED
  BY <1>4 DEF T

\* The product meets the equation of its recursion.
LEMMA ProductEquation ==
    ASSUME NEW S, IsFiniteSet(S), NEW g, \A x \in S : g[x] \in Pos
    PROVE  /\ ProdOf(g, {}) = 1
           /\ S # {} => ProdOf(g, S) = g[Any(S)] * ProdOf(g, S \ {Any(S)})
<1>1. ASSUME NEW R \in SUBSET S
      PROVE  /\ IsFiniteSet(R)
             /\ \E h : SolvesProduct(h, g, R) /\ ProdOf(g, R) = h[R] /\ h[R] = Prod1(g, h, R)
  <2>1. IsFiniteSet(R) /\ \A x \in R : g[x] \in Pos
    BY FS_Subset
  <2>2. PICK h : SolvesProduct(h, g, R) /\ ProdOf(g, R) = h[R]
    BY <2>1, ProductSolves
  <2>3. h[R] = Prod1(g, h, R)
    BY <2>2 DEF SolvesProduct
  <2> QED
    BY <2>1, <2>2, <2>3
<1>2. PICK h : SolvesProduct(h, g, S) /\ ProdOf(g, S) = h[S] /\ h[S] = Prod1(g, h, S)
  BY <1>1
<1>3. ProdOf(g, {}) = 1
  BY <1>1 DEF Prod1
<1>4. S # {} => ProdOf(g, S \ {Any(S)}) = h[S \ {Any(S)}]
  <2> DEFINE R == S \ {Any(S)}
  <2>1. R \in SUBSET S
    OBVIOUS
  <2>2. PICK k : SolvesProduct(k, g, R) /\ ProdOf(g, R) = k[R]
    BY <1>1
  <2> HIDE DEF R
  <2>3. h[R] = k[R]
    BY <1>2, <2>1, <2>2, ProductsAgree
  <2> QED
    BY <2>2, <2>3 DEF R
<1> QED
  BY <1>2, <1>3, <1>4 DEF Prod1

-----------------------------------------------------------------------------
(* What follows from the equation *)

\* A product of positive numbers is one.
LEMMA ProductIsPos ==
    ASSUME NEW S, IsFiniteSet(S), NEW g, \A x \in S : g[x] \in Pos
    PROVE  ProdOf(g, S) \in Pos
<1>1. PICK h : SolvesProduct(h, g, S) /\ ProdOf(g, S) = h[S]
  BY ProductSolves
<1>5. \A s \in SUBSET S : h[s] = Prod1(g, h, s)
  BY <1>1 DEF SolvesProduct
<1> DEFINE T == {n \in Nat : \A s \in SUBSET S : Cardinality(s) = n => h[s] \in Pos}
<1>0. \A s \in SUBSET S : IsFiniteSet(s) /\ Cardinality(s) \in Nat
  BY FS_Subset, FS_CardinalityType
<1>2. 0 \in T
  <2>1. h[{}] = 1 /\ 1 \in Pos
    <3>1. h[{}] = Prod1(g, h, {})
      BY <1>5
    <3>2. Prod1(g, h, {}) = 1
      BY DEF Prod1
    <3> QED
      BY <3>1, <3>2 DEF Pos
  <2>2. \A s \in SUBSET S : Cardinality(s) = 0 => s = {}
    BY <1>0, FS_EmptySet
  <2> QED
    BY <2>1, <2>2
<1>3. \A n \in Nat : n \in T => n + 1 \in T
  <2> SUFFICES ASSUME NEW n \in Nat, n \in T, NEW s \in SUBSET S, Cardinality(s) = n + 1
               PROVE  h[s] \in Pos
    OBVIOUS
  <2>1. s # {}
    BY NotEmpty
  <2>2. Any(s) \in S /\ s \ {Any(s)} \in SUBSET S /\ Cardinality(s \ {Any(s)}) = n
    BY <1>0, <2>1, AnyIn, RestSmaller
  <2>3. h[s \ {Any(s)}] \in Pos /\ g[Any(s)] \in Pos
    BY <2>2
  <2>4. h[s] = g[Any(s)] * h[s \ {Any(s)}]
    BY <1>5, <2>1 DEF Prod1
  <2> QED
    BY <2>3, <2>4, TimesPos
<1> HIDE DEF T
<1>4. Cardinality(S) \in T
  BY <1>0, <1>2, <1>3, Induction
<1> QED
  BY <1>1, <1>4 DEF T

\* Any factor may come last.
LEMMA ProductRemove ==
    ASSUME NEW S, IsFiniteSet(S), NEW g, \A x \in S : g[x] \in Pos, NEW y \in S
    PROVE  ProdOf(g, S) = g[y] * ProdOf(g, S \ {y})
<1> DEFINE T == {n \in Nat : \A s \in SUBSET S : Cardinality(s) = n =>
                                \A x \in s : ProdOf(g, s) = g[x] * ProdOf(g, s \ {x})}
<1>0. \A s \in SUBSET S : IsFiniteSet(s) /\ Cardinality(s) \in Nat /\ ProdOf(g, s) \in Pos
  BY FS_Subset, FS_CardinalityType, ProductIsPos
<1>1. 0 \in T
  BY <1>0, FS_EmptySet
<1>2. \A n \in Nat : n \in T => n + 1 \in T
  <2> SUFFICES ASSUME NEW n \in Nat, n \in T PROVE n + 1 \in T
    OBVIOUS
  <2> SUFFICES ASSUME NEW s \in SUBSET S, Cardinality(s) = n + 1, NEW x \in s
               PROVE  ProdOf(g, s) = g[x] * ProdOf(g, s \ {x})
    OBVIOUS
  <2> DEFINE a == Any(s)
  <2>1. a \in s /\ s # {}
    BY AnyIn
  <2>2. ProdOf(g, s) = g[a] * ProdOf(g, s \ {a})
    BY <1>0, <2>1, ProductEquation
  <2> HIDE DEF a
  <2>3. CASE x = a
    BY <2>2, <2>3
  <2>4. CASE x # a
    <3>1. /\ s \ {a} \in SUBSET S /\ Cardinality(s \ {a}) = n
          /\ s \ {x} \in SUBSET S /\ Cardinality(s \ {x}) = n
      BY <1>0, <2>1, RestSmaller
    <3>2. ProdOf(g, s \ {a}) = g[x] * ProdOf(g, (s \ {a}) \ {x})
      BY <2>4, <3>1
    <3>3. ProdOf(g, s \ {x}) = g[a] * ProdOf(g, (s \ {x}) \ {a})
      BY <2>1, <2>4, <3>1
    <3>4. (s \ {a}) \ {x} = (s \ {x}) \ {a} /\ (s \ {a}) \ {x} \in SUBSET S
      OBVIOUS
    <3>5. g[x] \in Pos /\ g[a] \in Pos /\ ProdOf(g, (s \ {a}) \ {x}) \in Pos
      BY <1>0, <2>1, <3>4
    <3>6. ProdOf(g, s \ {x}) = g[a] * ProdOf(g, (s \ {a}) \ {x})
      BY <3>3, <3>4
    <3> QED
      <4>1. g[x] \in Nat /\ g[a] \in Nat /\ ProdOf(g, (s \ {a}) \ {x}) \in Nat
        BY <3>5 DEF Pos
      <4> QED
        BY <2>2, <3>2, <3>6, <4>1, TimesSwap
  <2> QED
    BY <2>3, <2>4
<1> HIDE DEF T
<1>3. Cardinality(S) \in T
  BY <1>0, <1>1, <1>2, Induction
<1> QED
  BY <1>3 DEF T

\* A product is that of its factors.
LEMMA ProductOfSame ==
    ASSUME NEW S, IsFiniteSet(S), NEW f, NEW g, \A x \in S : f[x] \in Pos /\ f[x] = g[x]
    PROVE  ProdOf(f, S) = ProdOf(g, S)
<1> DEFINE F == {s \in SUBSET S : ProdOf(f, s) = ProdOf(g, s)}
<1>1. {} \in F
  <2>1. IsFiniteSet({}) /\ (\A x \in {} : f[x] \in Pos) /\ (\A x \in {} : g[x] \in Pos)
    BY FS_EmptySet
  <2>2. ProdOf(f, {}) = 1 /\ ProdOf(g, {}) = 1
    BY <2>1, ProductEquation
  <2> QED
    BY <2>2
<1>2. ASSUME NEW s \in SUBSET S, NEW y \in S \ s, s \in F
      PROVE  s \cup {y} \in F
  <2>1. s \cup {y} \in SUBSET S /\ (s \cup {y}) \ {y} = s /\ y \in s \cup {y}
    OBVIOUS
  <2>2. IsFiniteSet(s \cup {y}) /\ \A x \in s \cup {y} : f[x] \in Pos /\ g[x] \in Pos
    BY <2>1, FS_Subset
  <2>3. ProdOf(f, s \cup {y}) = f[y] * ProdOf(f, s) /\ ProdOf(g, s \cup {y}) = g[y] * ProdOf(g, s)
    BY <2>1, <2>2, ProductRemove
  <2>4. f[y] = g[y] /\ ProdOf(f, s) = ProdOf(g, s)
    BY <1>2
  <2>5. ProdOf(f, s \cup {y}) = ProdOf(g, s \cup {y})
    BY <2>3, <2>4
  <2> QED
    BY <2>1, <2>5
<1> HIDE DEF F
<1>3. S \in F
  BY <1>1, <1>2, SetInduction
<1> QED
  BY <1>3 DEF F

\* Ones multiply to one.
LEMMA ProductOfOnes ==
    ASSUME NEW S, IsFiniteSet(S), NEW g, \A x \in S : g[x] = 1
    PROVE  ProdOf(g, S) = 1
<1> DEFINE F == {s \in SUBSET S : ProdOf(g, s) = 1}
<1>1. {} \in F
  <2>1. IsFiniteSet({}) /\ \A x \in {} : g[x] \in Pos
    BY FS_EmptySet
  <2>2. ProdOf(g, {}) = 1
    BY <2>1, ProductEquation
  <2> QED
    BY <2>2
<1>2. ASSUME NEW s \in SUBSET S, NEW y \in S \ s, s \in F
      PROVE  s \cup {y} \in F
  <2>1. s \cup {y} \in SUBSET S /\ (s \cup {y}) \ {y} = s /\ y \in s \cup {y}
    OBVIOUS
  <2>2. IsFiniteSet(s \cup {y}) /\ \A x \in s \cup {y} : g[x] \in Pos
    BY <2>1, FS_Subset DEF Pos
  <2>3. ProdOf(g, s \cup {y}) = g[y] * ProdOf(g, s)
    BY <2>1, <2>2, ProductRemove
  <2>4. ProdOf(g, s \cup {y}) = 1
    BY <1>2, <2>3
  <2> QED
    BY <2>1, <2>4
<1> HIDE DEF F
<1>3. S \in F
  BY <1>1, <1>2, SetInduction
<1> QED
  BY <1>3 DEF F

-----------------------------------------------------------------------------
(* Functions on the numbers that each value determines the next of *)

Next1(h, g, n) == IF n = 0 THEN 1 ELSE g[n] * h[n - 1]

\* The product of the first n factors.
LEMMA ProductsGrow ==
    ASSUME NEW g, \A n \in Pos : g[n] \in Pos
    PROVE  \E h \in [Nat -> Pos] : h = [n \in Nat |-> Next1(h, g, n)]
<1> DEFINE P(n) == ProdOf(g, 1 .. n)
           h == [n \in Nat |-> P(n)]
<1>1. ASSUME NEW n \in Nat
      PROVE  IsFiniteSet(1 .. n) /\ \A x \in 1 .. n : g[x] \in Pos
  BY FS_Interval DEF Pos
<1>2. ASSUME NEW n \in Nat PROVE P(n) \in Pos
  BY <1>1, ProductIsPos
<1>3. P(0) = 1
  <2>1. 1 .. 0 = {}
    OBVIOUS
  <2>2. IsFiniteSet({}) /\ \A x \in {} : g[x] \in Pos
    BY FS_EmptySet
  <2> QED
    BY <2>1, <2>2, ProductEquation
<1>4. ASSUME NEW n \in Nat, n # 0 PROVE P(n) = g[n] * P(n - 1)
  <2>1. n \in 1 .. n /\ (1 .. n) \ {n} = 1 .. (n - 1)
    BY <1>4
  <2>2. ProdOf(g, 1 .. n) = g[n] * ProdOf(g, (1 .. n) \ {n})
    BY <1>1, <2>1, ProductRemove
  <2> QED
    BY <2>1, <2>2
<1>5. \A n \in Nat : h[n] = P(n) /\ (n # 0 => n - 1 \in Nat)
  OBVIOUS
<1>6. h \in [Nat -> Pos]
  BY <1>2
<1> HIDE DEF P
<1>7. \A n \in Nat : P(n) = Next1(h, g, n)
  BY <1>3, <1>4, <1>5 DEF Next1
<1>8. h = [n \in Nat |-> Next1(h, g, n)]
  BY <1>7
<1> HIDE DEF h
<1> QED
  BY <1>6, <1>8

\* Such a function is positive.
LEMMA GrowsPositive ==
    ASSUME NEW g, \A n \in Pos : g[n] \in Pos, NEW h, h = [n \in Nat |-> Next1(h, g, n)]
    PROVE  h[0] = 1 /\ \A n \in Nat : h[n] \in Pos /\ h[n + 1] = g[n + 1] * h[n]
<1>1. h[0] = 1
  BY DEF Next1
<1>2. ASSUME NEW n \in Nat PROVE h[n + 1] = g[n + 1] * h[n]
  <2>1. n + 1 \in Nat /\ n + 1 # 0 /\ (n + 1) - 1 = n
    OBVIOUS
  <2>2. h[n + 1] = Next1(h, g, n + 1)
    BY <2>1
  <2> QED
    BY <2>1, <2>2 DEF Next1
<1> DEFINE T == {n \in Nat : h[n] \in Pos}
<1>3. 0 \in T
  BY <1>1 DEF Pos
<1>4. \A n \in Nat : n \in T => n + 1 \in T
  <2> SUFFICES ASSUME NEW n \in Nat, n \in T PROVE n + 1 \in T
    OBVIOUS
  <2>1. n + 1 \in Nat /\ g[n + 1] \in Pos /\ h[n] \in Pos
    BY DEF Pos
  <2> QED
    BY <1>2, <2>1, TimesPos
<1> HIDE DEF T
<1>5. Nat \subseteq T
  BY <1>3, <1>4, Induction
<1> QED
  BY <1>1, <1>2, <1>5 DEF T
===============================================================================
