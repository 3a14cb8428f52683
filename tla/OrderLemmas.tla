---------------------------- MODULE OrderLemmas ----------------------------
(***************************************************************************)
(* Least and greatest elements of sets of natural numbers: the heads and   *)
(* tails of the queues, directories and windows of the agent; and sums      *)
(* over finite sets, the bytes of its directories.                         *)
(***************************************************************************)
EXTENDS Integers, FiniteSetsExt, Functions, FiniteSetTheorems, WellFoundedInduction, TLAPS

\* Every non-empty set of naturals has a least element.
LEMMA LeastNatural ==
    ASSUME NEW T, T \subseteq Nat, T # {}
    PROVE  \E x \in T : \A y \in T : x <= y
  <1>1. PICK x \in T : \A y \in T : <<y, x>> \notin OpToRel(<, Nat)
    BY NatLessThanWellFounded, WFMin
  <1>2. \A y \in T : ~(y < x)
    BY <1>1 DEF OpToRel
  <1> QED BY <1>2

\* What holds at 0 and of k + 1 whenever it holds of k holds up to n.
LEMMA Climb ==
    ASSUME NEW S, 0 \in S, NEW n \in Nat, \A k \in 0..(n - 1) : k \in S => k + 1 \in S
    PROVE  0..n \subseteq S
  <1> DEFINE Rest == (0..n) \ S
  <1>1. SUFFICES ASSUME Rest # {} PROVE FALSE
    OBVIOUS
  <1>2. PICK k \in Rest : \A m \in Rest : k <= m
    <2>1. Rest \subseteq Nat
      OBVIOUS
    <2> QED BY <1>1, <2>1, LeastNatural
  <1>3. k \in 1..n /\ k - 1 \in 0..(n - 1) /\ k - 1 \notin Rest
    <2>1. k \in 0..n /\ k # 0
      OBVIOUS
    <2> HIDE DEF Rest
    <2>2. ~(k <= k - 1)
      BY <2>1
    <2> QED BY <1>2, <2>1, <2>2
  <1>4. k - 1 \in S
    BY <1>3
  <1>5. (k - 1) + 1 \in S
    BY <1>3, <1>4
  <1> QED BY <1>3, <1>5

\* Min picks it.
LEMMA MinIsLeast ==
    ASSUME NEW T, T \subseteq Nat, T # {}
    PROVE  Min(T) \in T /\ \A y \in T : Min(T) <= y
  <1>1. \E x \in T : \A y \in T : x =< y
    BY LeastNatural
  <1>2. Min(T) \in T /\ \A y \in T : Min(T) =< y
    BY <1>1 DEF Min
  <1> QED BY <1>2

\* A non-empty set of naturals with an upper bound has a greatest element, and
\* Max picks it.
LEMMA MaxIsGreatest ==
    ASSUME NEW T, T \subseteq Nat, T # {}, NEW bound \in Nat, \A y \in T : y <= bound
    PROVE  Max(T) \in T /\ \A y \in T : y <= Max(T)
  <1> DEFINE U == {bound - y : y \in T}
  <1>1. U \subseteq Nat /\ U # {}
    <2>1. \A y \in T : bound - y \in Nat
      OBVIOUS
    <2>2. U # {}
      OBVIOUS
    <2> QED BY <2>1, <2>2
  <1>2. PICK u \in U : \A v \in U : u <= v
    BY <1>1, LeastNatural
  <1>3. PICK m \in T : u = bound - m
    BY <1>2
  <1>4. \A y \in T : y <= m
    BY <1>2, <1>3
  <1> QED BY <1>3, <1>4 DEF Max
-----------------------------------------------------------------------------
(* Sums over finite sets: the bytes of the segments of a directory.         *)

\* The step of the recursion by which SumFunctionOnSet is defined, and a table
\* of the sums over the subsets of S.
SumStep(f, g, T) ==
    IF T = {} THEN 0 ELSE LET x == CHOOSE y \in T : TRUE IN f[x] + g[T \ {x}]
IsSumTable(f, g, S) == g = [T \in SUBSET S |-> SumStep(f, g, T)]

\* Taking out the chosen element leaves a smaller set.
LEMMA SmallerSet ==
    ASSUME NEW T, IsFiniteSet(T), NEW x \in T
    PROVE  /\ IsFiniteSet(T \ {x}) /\ Cardinality(T) \in Nat
           /\ Cardinality(T \ {x}) \in Nat /\ Cardinality(T \ {x}) = Cardinality(T) - 1
  BY FS_RemoveElement, FS_CardinalityType

\* Two tables agree on a set whose elements they count the same.
LEMMA SumTablesAgree ==
    ASSUME NEW S1, NEW S2, NEW f1, NEW f2, NEW g1, NEW g2,
           IsSumTable(f1, g1, S1), IsSumTable(f2, g2, S2),
           NEW R, IsFiniteSet(R), R \subseteq S1, R \subseteq S2, \A x \in R : f1[x] = f2[x]
    PROVE  g1[R] = g2[R]
  <1> DEFINE Differ == {T \in SUBSET R : g1[T] # g2[T]}
             sizes == {Cardinality(T) : T \in Differ}
  <1>1. \A T \in SUBSET R : IsFiniteSet(T) /\ Cardinality(T) \in Nat
    BY FS_Subset, FS_CardinalityType
  <1>2. SUFFICES ASSUME Differ # {} PROVE FALSE
    OBVIOUS
  <1>3. PICK T \in Differ : \A U \in Differ : Cardinality(T) <= Cardinality(U)
    <2>1. sizes \subseteq Nat /\ sizes # {}
      BY <1>1, <1>2
    <2>2. PICK n \in sizes : \A m \in sizes : n <= m
      BY <2>1, LeastNatural
    <2> QED BY <2>2
  <1>4. T \in SUBSET S1 /\ T \in SUBSET S2
    OBVIOUS
  <1>5. g1[T] = SumStep(f1, g1, T) /\ g2[T] = SumStep(f2, g2, T)
    BY <1>4 DEF IsSumTable
  <1>6. CASE T = {}
    BY <1>3, <1>5, <1>6 DEF SumStep
  <1>7. CASE T # {}
    <2> DEFINE x == CHOOSE y \in T : TRUE
    <2>1. x \in T
      BY <1>7
    <2>2. T \ {x} \notin Differ
      <3>1. IsFiniteSet(T) /\ T \in SUBSET R
        BY <1>1
      <3>2. Cardinality(T) \in Nat /\ Cardinality(T \ {x}) = Cardinality(T) - 1
        BY <2>1, <3>1, SmallerSet
      <3>3. ~(Cardinality(T) <= Cardinality(T \ {x}))
        BY <3>2
      <3> QED BY <1>3, <3>3
    <2>3. T \ {x} \in SUBSET R /\ x \in R
      BY <2>1
    <2>4. g1[T \ {x}] = g2[T \ {x}] /\ f1[x] = f2[x]
      BY <2>2, <2>3
    <2> QED BY <1>3, <1>5, <1>7, <2>4 DEF SumStep
  <1> QED BY <1>6, <1>7

\* A finite set has such a table, of naturals, and SumFunctionOnSet reads it.
LEMMA SumTableExists ==
    ASSUME NEW S, IsFiniteSet(S), NEW f, \A x \in S : f[x] \in Nat
    PROVE  \E g \in [SUBSET S -> Nat] : IsSumTable(f, g, S) /\ SumFunctionOnSet(f, S) = g[S]
  <1> DEFINE Small(n) == {T \in SUBSET S : Cardinality(T) <= n}
             Partial(g, n) == g \in [Small(n) -> Nat] /\ \A T \in Small(n) : g[T] = SumStep(f, g, T)
             Missing == {n \in Nat : ~\E g : Partial(g, n)}
  <1>1. \A T \in SUBSET S : IsFiniteSet(T) /\ Cardinality(T) \in Nat
    BY FS_Subset, FS_CardinalityType
  <1>2. Missing = {}
    <2>1. SUFFICES ASSUME Missing # {} PROVE FALSE
      OBVIOUS
    <2>2. PICK n \in Missing : \A m \in Missing : n <= m
      BY <2>1, LeastNatural
    <2>3. CASE n = 0
      <3> DEFINE g == [T \in Small(0) |-> 0]
      <3>1. \A T \in Small(0) : T = {}
        <4> TAKE T \in Small(0)
        <4>1. Cardinality(T) = 0
          BY <1>1
        <4> QED BY <4>1, <1>1, FS_EmptySet
      <3>2. \A T \in Small(0) : SumStep(f, g, T) = 0
        BY <3>1 DEF SumStep
      <3>3. Partial(g, 0)
        BY <3>2
      <3> QED BY <2>3, <3>3
    <2>4. CASE n # 0
      <3>1. n - 1 \in Nat /\ n - 1 \notin Missing
        <4>1. n \in Nat
          OBVIOUS
        <4> HIDE DEF Missing
        <4>2. n - 1 \in Nat /\ ~(n <= n - 1)
          BY <2>4, <4>1
        <4> QED BY <2>2, <4>2
      <3>2. PICK g : Partial(g, n - 1)
        BY <3>1
      <3> DEFINE h == [T \in Small(n) |-> SumStep(f, g, T)]
      <3>3. ASSUME NEW T \in Small(n)
            PROVE  SumStep(f, g, T) \in Nat /\ SumStep(f, h, T) = SumStep(f, g, T)
        <4>1. CASE T = {}
          BY <4>1 DEF SumStep
        <4>2. CASE T # {}
          <5> DEFINE x == CHOOSE y \in T : TRUE
          <5>1. x \in T /\ x \in S
            BY <4>2
          <5>2. Cardinality(T \ {x}) = Cardinality(T) - 1 /\ Cardinality(T) \in Nat
            BY <5>1, <1>1, SmallerSet
          <5>3. T \ {x} \in Small(n - 1) /\ T \ {x} \in Small(n)
            BY <5>2
          <5>4. h[T \ {x}] = g[T \ {x}] /\ g[T \ {x}] \in Nat
            <6>1. h[T \ {x}] = SumStep(f, g, T \ {x})
              BY <5>3
            <6>2. g[T \ {x}] = SumStep(f, g, T \ {x}) /\ g[T \ {x}] \in Nat
              BY <3>2, <5>3
            <6> QED BY <6>1, <6>2
          <5>5. f[x] \in Nat
            BY <5>1
          <5>6. SumStep(f, g, T) = f[x] + g[T \ {x}] /\ SumStep(f, h, T) = f[x] + h[T \ {x}]
            BY <4>2 DEF SumStep
          <5> HIDE DEF h, x
          <5> QED BY <5>4, <5>5, <5>6
        <4> QED BY <4>1, <4>2
      <3>4. Partial(h, n)
        <4>1. h \in [Small(n) -> Nat]
          BY <3>3
        <4>2. \A T \in Small(n) : h[T] = SumStep(f, h, T)
          BY <3>3
        <4> QED BY <4>1, <4>2
      <3> QED BY <2>2, <3>4
    <2> QED BY <2>3, <2>4
  <1>3. PICK g : Partial(g, Cardinality(S))
    BY <1>1, <1>2
  <1>4. Small(Cardinality(S)) = SUBSET S
    BY <1>1, FS_Subset
  <1>5. g \in [SUBSET S -> Nat] /\ IsSumTable(f, g, S)
    BY <1>3, <1>4 DEF IsSumTable
  <1> HIDE DEF Small, Partial, Missing
  <1> DEFINE iter == CHOOSE h : h = [T \in SUBSET S |-> SumStep(f, h, T)]
  <1>6. IsSumTable(f, iter, S)
    BY <1>5 DEF IsSumTable
  <1>7. SumFunctionOnSet(f, S) = iter[S]
    BY DEF SumFunctionOnSet, FoldFunctionOnSet, MapThenFoldSet, SumStep
  <1> HIDE DEF iter
  <1>8. iter[S] = g[S]
    BY <1>5, <1>6, SumTablesAgree
  <1> QED BY <1>5, <1>7, <1>8

\* A sum of naturals is a natural; an element can be taken out of it.
LEMMA SumSplit ==
    ASSUME NEW S, IsFiniteSet(S), NEW f, \A x \in S : f[x] \in Nat
    PROVE  /\ SumFunctionOnSet(f, S) \in Nat
           /\ S = {} => SumFunctionOnSet(f, S) = 0
           /\ \A x \in S : SumFunctionOnSet(f, S) = f[x] + SumFunctionOnSet(f, S \ {x})
  <1>1. PICK g \in [SUBSET S -> Nat] : IsSumTable(f, g, S) /\ SumFunctionOnSet(f, S) = g[S]
    BY SumTableExists
  <1>2. \A T \in SUBSET S : IsFiniteSet(T) /\ Cardinality(T) \in Nat
    BY FS_Subset, FS_CardinalityType
  <1>3. ASSUME NEW T \in SUBSET S PROVE SumFunctionOnSet(f, T) = g[T]
    <2>1. PICK h : IsSumTable(f, h, T) /\ SumFunctionOnSet(f, T) = h[T]
      BY <1>2, SumTableExists
    <2>2. h[T] = g[T]
      BY <1>1, <1>2, <2>1, SumTablesAgree
    <2> QED BY <2>1, <2>2
  <1>4. \A T \in SUBSET S : g[T] = SumStep(f, g, T) /\ g[T] \in Nat
    BY <1>1 DEF IsSumTable
  <1> DEFINE Wrong == {T \in SUBSET S : \E x \in T : g[T] # f[x] + g[T \ {x}]}
             sizes == {Cardinality(T) : T \in Wrong}
  <1>5. Wrong = {}
    <2>1. SUFFICES ASSUME Wrong # {} PROVE FALSE
      OBVIOUS
    <2>2. PICK T \in Wrong : \A U \in Wrong : Cardinality(T) <= Cardinality(U)
      <3>1. sizes \subseteq Nat /\ sizes # {}
        BY <1>2, <2>1
      <3>2. PICK n \in sizes : \A m \in sizes : n <= m
        BY <3>1, LeastNatural
      <3> QED BY <3>2
    <2>3. PICK x \in T : g[T] # f[x] + g[T \ {x}]
      OBVIOUS
    <2> DEFINE c == CHOOSE y \in T : TRUE
    <2>4. c \in T /\ T \in SUBSET S /\ T # {}
      BY <2>3
    <2>5. g[T] = f[c] + g[T \ {c}]
      BY <1>4, <2>4 DEF SumStep
    <2> HIDE DEF c
    <2>6. ASSUME NEW y \in T PROVE T \ {y} \notin Wrong
      <3>1. IsFiniteSet(T)
        BY <1>2
      <3>2. Cardinality(T) \in Nat /\ Cardinality(T \ {y}) = Cardinality(T) - 1
        BY <3>1, SmallerSet
      <3>3. ~(Cardinality(T) <= Cardinality(T \ {y}))
        BY <3>2
      <3> QED BY <2>2, <3>3
    <2>7. x # c
      BY <2>3, <2>5
    <2>8. g[T \ {c}] = f[x] + g[(T \ {c}) \ {x}] /\ g[T \ {x}] = f[c] + g[(T \ {x}) \ {c}]
      <3>1. T \ {c} \in SUBSET S /\ T \ {x} \in SUBSET S /\ x \in T \ {c} /\ c \in T \ {x}
        BY <2>4, <2>7
      <3>2. T \ {c} \notin Wrong /\ T \ {x} \notin Wrong
        BY <2>4, <2>6
      <3> QED BY <3>1, <3>2
    <2>9. (T \ {c}) \ {x} = (T \ {x}) \ {c} /\ (T \ {x}) \ {c} \in SUBSET S
      BY <2>4
    <2>10. f[x] \in Nat /\ f[c] \in Nat /\ g[(T \ {x}) \ {c}] \in Nat
      BY <1>4, <2>4, <2>9
    <2>11. g[T] = f[x] + g[T \ {x}]
      <3> DEFINE rest == g[(T \ {x}) \ {c}]
      <3>1. g[T] = f[c] + (f[x] + rest)
        BY <2>5, <2>8, <2>9, Zenon
      <3>2. g[T \ {x}] = f[c] + rest
        BY <2>8
      <3>3. rest \in Nat
        BY <2>10
      <3> HIDE DEF rest
      <3> QED BY <2>10, <3>1, <3>2, <3>3
    <2> QED BY <2>3, <2>11
  <1>6. S \in SUBSET S
    OBVIOUS
  <1>7. S = {} => g[S] = 0
    BY <1>4, <1>6 DEF SumStep
  <1>8. \A x \in S : g[S] = f[x] + g[S \ {x}]
    BY <1>5, <1>6
  <1>9. \A x \in S : g[S \ {x}] = SumFunctionOnSet(f, S \ {x})
    BY <1>3
  <1> QED BY <1>1, <1>4, <1>6, <1>7, <1>8, <1>9

\* Functions that agree on a set have the same sum over it.
LEMMA SumOfEqual ==
    ASSUME NEW S, IsFiniteSet(S), NEW f, NEW h, \A x \in S : f[x] \in Nat /\ h[x] = f[x]
    PROVE  SumFunctionOnSet(h, S) = SumFunctionOnSet(f, S)
  <1>1. PICK g1 : IsSumTable(f, g1, S) /\ SumFunctionOnSet(f, S) = g1[S]
    BY SumTableExists
  <1>2. \A x \in S : h[x] \in Nat
    OBVIOUS
  <1>3. PICK g2 : IsSumTable(h, g2, S) /\ SumFunctionOnSet(h, S) = g2[S]
    BY <1>2, SumTableExists
  <1> QED BY <1>1, <1>3, SumTablesAgree

\* A sum does not grow when its terms do not, or when elements are left out.
LEMMA SumMonotone ==
    ASSUME NEW S, IsFiniteSet(S), NEW R, R \subseteq S, NEW f, NEW h,
           \A x \in S : f[x] \in Nat, \A x \in R : h[x] \in Nat /\ h[x] <= f[x]
    PROVE  SumFunctionOnSet(h, R) <= SumFunctionOnSet(f, S)
  <1> DEFINE Wrong == {T \in SUBSET S :
                         ~(SumFunctionOnSet(h, T \cap R) <= SumFunctionOnSet(f, T))}
             sizes == {Cardinality(T) : T \in Wrong}
  <1>1. \A T \in SUBSET S : IsFiniteSet(T) /\ Cardinality(T) \in Nat /\ IsFiniteSet(T \cap R)
    BY FS_Subset, FS_CardinalityType
  <1>2. SUFFICES ASSUME Wrong # {} PROVE FALSE
    OBVIOUS
  <1>3. PICK T \in Wrong : \A U \in Wrong : Cardinality(T) <= Cardinality(U)
    <2>1. sizes \subseteq Nat /\ sizes # {}
      BY <1>1, <1>2
    <2>2. PICK n \in sizes : \A m \in sizes : n <= m
      BY <2>1, LeastNatural
    <2> QED BY <2>2
  <1>4. IsFiniteSet(T) /\ IsFiniteSet(T \cap R) /\ T \subseteq S
    BY <1>1
  <1>5. T # {}
    <2>1. SUFFICES ASSUME T = {} PROVE FALSE
      OBVIOUS
    <2>2. SumFunctionOnSet(f, T) = 0
      BY <1>4, <2>1, SumSplit
    <2>3. T \cap R = {} /\ \A x \in T \cap R : h[x] \in Nat
      BY <2>1
    <2>4. SumFunctionOnSet(h, T \cap R) = 0
      BY <1>4, <2>3, SumSplit
    <2> QED BY <2>2, <2>4
  <1>6. PICK x \in T : TRUE
    BY <1>5
  <1> DEFINE U == T \ {x}
  <1>7. SumFunctionOnSet(h, U \cap R) <= SumFunctionOnSet(f, U)
    <2>1. Cardinality(T) \in Nat /\ Cardinality(U) = Cardinality(T) - 1
      BY <1>4, SmallerSet
    <2>2. ~(Cardinality(T) <= Cardinality(U))
      BY <2>1
    <2>3. U \notin Wrong
      BY <1>3, <2>2
    <2> QED BY <2>3, <1>4
  <1>8. SumFunctionOnSet(f, T) = f[x] + SumFunctionOnSet(f, U)
        /\ f[x] \in Nat /\ SumFunctionOnSet(f, U) \in Nat
    <2>1. IsFiniteSet(U) /\ \A y \in U : f[y] \in Nat
      BY <1>1, <1>4
    <2> QED BY <1>4, <2>1, SumSplit
  <1>9. \A y \in T \cap R : h[y] \in Nat
    OBVIOUS
  <1>10. SumFunctionOnSet(h, U \cap R) \in Nat
    <2>1. IsFiniteSet(U \cap R) /\ \A y \in U \cap R : h[y] \in Nat
      BY <1>1, <1>4
    <2> QED BY <2>1, SumSplit
  <1>11. CASE x \in R
    <2>1. x \in T \cap R /\ (T \cap R) \ {x} = U \cap R
      BY <1>11
    <2>2. SumFunctionOnSet(h, T \cap R) = h[x] + SumFunctionOnSet(h, U \cap R)
      <3>1. SumFunctionOnSet(h, T \cap R) = h[x] + SumFunctionOnSet(h, (T \cap R) \ {x})
        <4> DEFINE V == T \cap R
        <4>1. IsFiniteSet(V) /\ (\A y \in V : h[y] \in Nat) /\ x \in V
          BY <1>4, <1>9, <2>1
        <4> HIDE DEF V
        <4>2. SumFunctionOnSet(h, V) = h[x] + SumFunctionOnSet(h, V \ {x})
          BY <4>1, SumSplit
        <4> QED BY <4>2 DEF V
      <3> HIDE DEF U
      <3> QED BY <2>1, <3>1
    <2>3. h[x] \in Nat /\ h[x] <= f[x]
      BY <1>11
    <2>4. SumFunctionOnSet(h, T \cap R) <= SumFunctionOnSet(f, T)
      BY <1>7, <1>8, <1>10, <2>2, <2>3
    <2> QED BY <2>4
  <1>12. CASE x \notin R
    <2>1. T \cap R = U \cap R
      BY <1>12
    <2>2. SumFunctionOnSet(h, T \cap R) <= SumFunctionOnSet(f, T)
      BY <1>7, <1>8, <1>10, <2>1
    <2> QED BY <2>2
  <1> QED BY <1>11, <1>12
=============================================================================
