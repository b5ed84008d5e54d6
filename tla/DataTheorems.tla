---------------------------- MODULE DataTheorems -----------------------------
(* What the models' data add up to and in which order they come, for sets    *)
(* of any size: the sums of the community modules' SumFunctionOnSet and the   *)
(* ids of TableRows.  A sum is defined by a recursion over the parts of its   *)
(* set; what it returns follows by induction over those parts, which is done  *)
(* here for families of sets (EveryPart), and for sets of numbers             *)
(* (EveryNumber), by the theorem on minimal elements of a well-founded order. *)
EXTENDS Integers, Sequences, FiniteSets, Functions, TableRows, FiniteSetTheorems,
        WellFoundedInduction, TLAPS

-----------------------------------------------------------------------------
(* Induction over the naturals, for a set of numbers.                       *)

\* A set of numbers that is not empty has a least one.
LEMMA LeastNumber ==
    ASSUME NEW T, T \subseteq Nat, T # {}
    PROVE  \E n \in T : \A m \in T : n <= m
<1> DEFINE R == OpToRel(<, Nat)
<1>1. IsWellFoundedOn(R, Nat)
  BY NatLessThanWellFounded
<1>2. \A n, m \in Nat : n < m => <<n, m>> \in R
  BY DEF OpToRel
<1> HIDE DEF R
<1>3. PICK n \in T : \A m \in T : ~(<<m, n>> \in R)
  BY <1>1, WFMin
<1>4. \A m \in T : n <= m
  <2>1. TAKE m \in T
  <2>2. n \in Nat /\ m \in Nat /\ ~(m < n)
    BY <1>2, <1>3
  <2> QED BY <2>2
<1> QED BY <1>4

\* A set with 0 and with the successor of each number in it has every number.
LEMMA EveryNumber ==
    ASSUME NEW S, 0 \in S, \A n \in Nat : n \in S => n + 1 \in S
    PROVE  Nat \subseteq S
<1> DEFINE T == Nat \ S
<1> SUFFICES ASSUME T # {} PROVE FALSE
  OBVIOUS
<1>1. PICK n \in T : \A m \in T : n <= m
  BY LeastNumber
<1>2. n # 0 /\ n - 1 \in Nat /\ n - 1 \notin T
  BY <1>1
<1> QED BY <1>2

\* A finite set without one of its elements.
LEMMA OneLess ==
    ASSUME NEW s, IsFiniteSet(s), NEW x \in s
    PROVE  /\ IsFiniteSet(s \ {x}) /\ Cardinality(s) \in Nat \ {0}
           /\ Cardinality(s \ {x}) = Cardinality(s) - 1
<1>1. Cardinality(s) \in Nat /\ Cardinality(s \ {x}) \in Nat
      /\ Cardinality(s \ {x}) = Cardinality(s) - 1 /\ IsFiniteSet(s \ {x})
  BY FS_RemoveElement, FS_CardinalityType
<1> QED BY <1>1

\* A family of parts of a finite set has them all if it has the empty one and
\* every part that is an element more than one it has.
LEMMA EveryPart ==
    ASSUME NEW S, IsFiniteSet(S), NEW P, {} \in P,
           \A s \in SUBSET S : \A x \in S \ s : s \in P => s \cup {x} \in P
    PROVE  SUBSET S \subseteq P
<1> DEFINE N == {n \in Nat : \A s \in SUBSET S : Cardinality(s) <= n => s \in P}
<1>0. \A s \in SUBSET S : IsFiniteSet(s) /\ Cardinality(s) \in Nat
  BY FS_Subset, FS_CardinalityType
<1>1. 0 \in N
  <2>1. ASSUME NEW s \in SUBSET S, Cardinality(s) <= 0 PROVE s \in P
    <3>1. s = {}
      BY <1>0, <2>1, FS_EmptySet
    <3> QED BY <3>1
  <2> QED BY <2>1
<1>2. ASSUME NEW n \in Nat, n \in N PROVE n + 1 \in N
  <2>1. ASSUME NEW s \in SUBSET S, Cardinality(s) <= n + 1 PROVE s \in P
    <3>1. CASE s = {}
      BY <3>1
    <3>2. CASE s # {}
      <4>1. PICK x \in s : TRUE
        BY <3>2
      <4>2. s \ {x} \in SUBSET S /\ Cardinality(s \ {x}) <= n
        BY <1>0, <2>1, <4>1, OneLess
      <4>3. s \ {x} \in P
        BY <1>2, <4>2
      <4>4. x \in S \ (s \ {x}) /\ s = (s \ {x}) \cup {x}
        BY <4>1
      <4> QED BY <4>2, <4>3, <4>4
    <3> QED BY <3>1, <3>2
  <2> QED BY <2>1
<1>3. Nat \subseteq N
  <2> HIDE DEF N
  <2> QED BY <1>1, <1>2, EveryNumber
<1> QED BY <1>0, <1>3

-----------------------------------------------------------------------------
(* Sums and lowest values over finite sets.                                 *)

Some(s) == CHOOSE x \in s : TRUE

\* The two operations that values are folded with: a sum and the lowest.
Combine(how, a, b) == IF how = "sum" THEN a + b ELSE IF a < b THEN a ELSE b

\* One round of the recursion that a fold is.
Round(how, base, f, S, g) ==
    [s \in SUBSET S |-> IF s = {} THEN base ELSE Combine(how, f[Some(s)], g[s \ {Some(s)}])]

Partial(how, base, f, S) == CHOOSE g : g = Round(how, base, f, S, g)

\* A sum is the last value of its recursion.
LEMMA SumIsPartial ==
    ASSUME NEW f, NEW S PROVE SumFunctionOnSet(f, S) = Partial("sum", 0, f, S)[S]
BY DEF SumFunctionOnSet, FoldFunctionOnSet, MapThenFoldSet, Partial, Round, Some, Combine

\* The lowest of some values and base, folded the same way.
Lowest(base, f, S) ==
    FoldFunctionOnSet(LAMBDA v, low : IF v < low THEN v ELSE low, base, f, S)

\* It, too, is the last value of its recursion.
LEMMA LowestIsPartial ==
    ASSUME NEW f, NEW S, NEW base PROVE Lowest(base, f, S) = Partial("low", base, f, S)[S]
BY DEF Lowest, FoldFunctionOnSet, MapThenFoldSet, Partial, Round, Some, Combine

\* The element that a round takes is one of the set.
LEMMA SomeIsIn == ASSUME NEW s, s # {} PROVE Some(s) \in s
BY DEF Some

\* The recursion has a solution.
LEMMA PartialExists ==
    ASSUME NEW how, NEW base, NEW f, NEW S, IsFiniteSet(S)
    PROVE  Partial(how, base, f, S) = Round(how, base, f, S, Partial(how, base, f, S))
<1> DEFINE Good(g, n) == \A s \in SUBSET S : Cardinality(s) <= n =>
                g[s] = IF s = {} THEN base ELSE Combine(how, f[Some(s)], g[s \ {Some(s)}])
           T == {n \in Nat : \E g : Good(g, n)}
<1>0. \A s \in SUBSET S : IsFiniteSet(s) /\ Cardinality(s) \in Nat
  BY FS_Subset, FS_CardinalityType
<1>1. 0 \in T
  <2> DEFINE g == [s \in SUBSET S |-> base]
  <2>1. ASSUME NEW s \in SUBSET S, Cardinality(s) <= 0 PROVE s = {}
    BY <1>0, <2>1, FS_EmptySet
  <2>2. Good(g, 0)
    BY <2>1
  <2> QED BY <2>2
<1>2. ASSUME NEW n \in Nat, n \in T PROVE n + 1 \in T
  <2>1. PICK g : Good(g, n)
    BY <1>2
  <2> DEFINE h == Round(how, base, f, S, g)
  <2>2. ASSUME NEW s \in SUBSET S, Cardinality(s) <= n + 1
        PROVE  h[s] = IF s = {} THEN base ELSE Combine(how, f[Some(s)], h[s \ {Some(s)}])
    <3>1. CASE s = {}
      BY <3>1 DEF Round
    <3>2. CASE s # {}
      <4> DEFINE u == s \ {Some(s)}
      <4>1. u \in SUBSET S /\ Cardinality(u) <= n
        BY <1>0, <2>2, <3>2, OneLess, SomeIsIn
      <4>2. h[u] = IF u = {} THEN base ELSE Combine(how, f[Some(u)], g[u \ {Some(u)}])
        BY <4>1 DEF Round
      <4>3. h[u] = g[u]
        BY <2>1, <4>1, <4>2
      <4>4. h[s] = Combine(how, f[Some(s)], g[u])
        BY <3>2 DEF Round
      <4> HIDE DEF h
      <4> QED BY <3>2, <4>3, <4>4
    <3> QED BY <3>1, <3>2
  <2>3. Good(h, n + 1)
    BY <2>2
  <2> HIDE DEF h, Good
  <2> QED BY <2>3
<1>3. Cardinality(S) \in T
  <2> HIDE DEF T
  <2> QED BY <1>0, <1>1, <1>2, EveryNumber
<1>4. PICK g : Good(g, Cardinality(S))
  BY <1>3
<1>5. \A s \in SUBSET S : Cardinality(s) <= Cardinality(S)
  BY FS_Subset
<1> DEFINE h == [s \in SUBSET S |-> g[s]]
<1>6. h = Round(how, base, f, S, h)
  BY <1>4, <1>5, SomeIsIn DEF Round
<1> HIDE DEF h
<1> QED BY <1>6 DEF Partial

\* It is the same over a set and over what the set is a part of.
LEMMA PartialOfPart ==
    ASSUME NEW how, NEW base, NEW f, NEW S, IsFiniteSet(S), NEW T \in SUBSET S
    PROVE  Partial(how, base, f, S)[T] = Partial(how, base, f, T)[T]
<1>0. /\ \A s \in SUBSET S : IsFiniteSet(s) /\ Cardinality(s) \in Nat
      /\ IsFiniteSet(T)
  BY FS_Subset, FS_CardinalityType
<1> DEFINE g == Partial(how, base, f, S)
           h == Partial(how, base, f, T)
           N == {n \in Nat : \A s \in SUBSET T : Cardinality(s) <= n => g[s] = h[s]}
<1>1. g = Round(how, base, f, S, g) /\ h = Round(how, base, f, T, h)
  BY <1>0, PartialExists
<1> HIDE DEF g, h
<1>2. ASSUME NEW s \in SUBSET T
      PROVE  IF s = {} THEN g[s] = base /\ h[s] = base
             ELSE /\ g[s] = Combine(how, f[Some(s)], g[s \ {Some(s)}])
                  /\ h[s] = Combine(how, f[Some(s)], h[s \ {Some(s)}])
  <2>1. s \in SUBSET S
    OBVIOUS
  <2>2. Round(how, base, f, S, g)[s] =
            IF s = {} THEN base ELSE Combine(how, f[Some(s)], g[s \ {Some(s)}])
    BY <2>1 DEF Round
  <2>3. Round(how, base, f, T, h)[s] =
            IF s = {} THEN base ELSE Combine(how, f[Some(s)], h[s \ {Some(s)}])
    BY DEF Round
  <2> QED BY <1>1, <2>2, <2>3
<1>3. 0 \in N
  <2>1. ASSUME NEW s \in SUBSET T, Cardinality(s) <= 0 PROVE g[s] = h[s]
    <3>1. s = {}
      BY <1>0, <2>1, FS_EmptySet
    <3> QED BY <1>2, <3>1
  <2> QED BY <2>1
<1>4. ASSUME NEW n \in Nat, n \in N PROVE n + 1 \in N
  <2>1. ASSUME NEW s \in SUBSET T, Cardinality(s) <= n + 1 PROVE g[s] = h[s]
    <3>1. CASE s = {}
      BY <1>2, <3>1
    <3>2. CASE s # {}
      <4>1. s \ {Some(s)} \in SUBSET T /\ Cardinality(s \ {Some(s)}) <= n
        BY <1>0, <2>1, <3>2, OneLess, SomeIsIn
      <4>2. g[s \ {Some(s)}] = h[s \ {Some(s)}]
        BY <1>4, <4>1
      <4> QED BY <1>2, <3>2, <4>2
    <3> QED BY <3>1, <3>2
  <2> QED BY <2>1
<1>5. Cardinality(T) \in N
  <2> HIDE DEF N
  <2> QED BY <1>0, <1>3, <1>4, EveryNumber
<1>6. g[T] = h[T]
  BY <1>0, <1>5
<1> QED BY <1>6 DEF g, h

\* A fold with nothing in it, and a fold by the element that CHOOSE takes.
LEMMA FoldUnfolds ==
    ASSUME NEW how, NEW base, NEW f, NEW S, IsFiniteSet(S)
    PROVE  Partial(how, base, f, S)[S] =
               IF S = {} THEN base
               ELSE LET T == S \ {Some(S)}
                    IN  Combine(how, f[Some(S)], Partial(how, base, f, T)[T])
<1> DEFINE T == S \ {Some(S)}
<1>1. Partial(how, base, f, S)[S] =
          IF S = {} THEN base ELSE Combine(how, f[Some(S)], Partial(how, base, f, S)[T])
  <2>1. Round(how, base, f, S, Partial(how, base, f, S))[S] =
            IF S = {} THEN base ELSE Combine(how, f[Some(S)], Partial(how, base, f, S)[T])
    BY DEF Round
  <2> QED BY <2>1, PartialExists
<1>2. Partial(how, base, f, S)[T] = Partial(how, base, f, T)[T]
  <2>1. T \in SUBSET S
    OBVIOUS
  <2> HIDE DEF T
  <2> QED BY <2>1, PartialOfPart
<1> QED BY <1>1, <1>2

\* A sum, element by element.
LEMMA SumUnfolds ==
    ASSUME NEW f, NEW S, IsFiniteSet(S)
    PROVE  SumFunctionOnSet(f, S) =
               IF S = {} THEN 0
               ELSE f[Some(S)] + SumFunctionOnSet(f, S \ {Some(S)})
<1>1. SumFunctionOnSet(f, S) =
          IF S = {} THEN 0
          ELSE Combine("sum", f[Some(S)], SumFunctionOnSet(f, S \ {Some(S)}))
  BY FoldUnfolds, SumIsPartial
<1> QED BY <1>1 DEF Combine

\* The lowest of a base and some values lies above none of them.
LEMMA LowestIsBelow ==
    ASSUME NEW f, NEW S, IsFiniteSet(S), \A x \in S : f[x] \in Int, NEW base \in Int
    PROVE  /\ Lowest(base, f, S) \in Int
           /\ \A x \in S : Lowest(base, f, S) <= f[x]
<1> DEFINE N == {n \in Nat : \A s \in SUBSET S : Cardinality(s) <= n =>
                    /\ Lowest(base, f, s) \in Int
                    /\ \A x \in s : Lowest(base, f, s) <= f[x]}
<1>0. \A s \in SUBSET S : IsFiniteSet(s) /\ Cardinality(s) \in Nat
  BY FS_Subset, FS_CardinalityType
<1>1. ASSUME NEW s \in SUBSET S
      PROVE  Lowest(base, f, s) =
                 IF s = {} THEN base
                 ELSE LET low == Lowest(base, f, s \ {Some(s)})
                      IN  IF f[Some(s)] < low THEN f[Some(s)] ELSE low
  <2>1. Lowest(base, f, s) =
            IF s = {} THEN base
            ELSE Combine("low", f[Some(s)], Lowest(base, f, s \ {Some(s)}))
    BY <1>0, FoldUnfolds, LowestIsPartial
  <2> QED BY <2>1 DEF Combine
<1>2. 0 \in N
  <2>1. ASSUME NEW s \in SUBSET S, Cardinality(s) <= 0 PROVE s = {}
    BY <1>0, <2>1, FS_EmptySet
  <2>2. Lowest(base, f, {}) \in Int
    BY <1>1
  <2> QED BY <2>1, <2>2
<1>3. ASSUME NEW n \in Nat, n \in N PROVE n + 1 \in N
  <2>1. ASSUME NEW s \in SUBSET S, Cardinality(s) <= n + 1
        PROVE  /\ Lowest(base, f, s) \in Int
               /\ \A x \in s : Lowest(base, f, s) <= f[x]
    <3>1. CASE s = {}
      BY <1>1, <3>1
    <3>2. CASE s # {}
      <4> DEFINE u == s \ {Some(s)}
                 low == Lowest(base, f, u)
      <4>1. u \in SUBSET S /\ Cardinality(u) <= n /\ Some(s) \in s
        BY <1>0, <2>1, <3>2, OneLess, SomeIsIn
      <4>2. low \in Int /\ \A x \in u : low <= f[x]
        BY <1>3, <4>1
      <4>3. Lowest(base, f, s) = IF f[Some(s)] < low THEN f[Some(s)] ELSE low
        BY <1>1, <3>2
      <4>4. f[Some(s)] \in Int /\ \A x \in s : f[x] \in Int /\ (x = Some(s) \/ x \in u)
        BY <4>1
      <4> HIDE DEF u, low
      <4> QED BY <4>2, <4>3, <4>4
    <3> QED BY <3>1, <3>2
  <2> QED BY <2>1
<1>4. Cardinality(S) \in N
  <2> HIDE DEF N
  <2> QED BY <1>0, <1>2, <1>3, EveryNumber
<1> QED BY <1>0, <1>4

\* The order of a sum does not matter: any element may be taken out.
LEMMA SumOneOut ==
    ASSUME NEW f, NEW S, IsFiniteSet(S), \A y \in S : f[y] \in Int
    PROVE  /\ SumFunctionOnSet(f, S) \in Int
           /\ \A x \in S : SumFunctionOnSet(f, S) = f[x] + SumFunctionOnSet(f, S \ {x})
<1> DEFINE Sum(s) == SumFunctionOnSet(f, s)
           N == {n \in Nat : \A s \in SUBSET S : Cardinality(s) <= n =>
                    /\ Sum(s) \in Int
                    /\ \A x \in s : Sum(s) = f[x] + Sum(s \ {x})}
<1>0. \A s \in SUBSET S : IsFiniteSet(s) /\ Cardinality(s) \in Nat
  BY FS_Subset, FS_CardinalityType
<1>1. \A s \in SUBSET S : Sum(s) = IF s = {} THEN 0 ELSE f[Some(s)] + Sum(s \ {Some(s)})
  BY <1>0, SumUnfolds
<1> HIDE DEF Sum
<1>9. ASSUME NEW s \in SUBSET S, s = {}
      PROVE  Sum(s) \in Int /\ \A x \in s : Sum(s) = f[x] + Sum(s \ {x})
  <2>1. Sum(s) = 0
    BY <1>1, <1>9
  <2> QED BY <1>9, <2>1
<1>2. 0 \in N
  <2>1. ASSUME NEW s \in SUBSET S, Cardinality(s) <= 0 PROVE s = {}
    BY <1>0, <2>1, FS_EmptySet
  <2> QED BY <1>9, <2>1
<1>3. ASSUME NEW n \in Nat, n \in N PROVE n + 1 \in N
  <2>1. ASSUME NEW s \in SUBSET S, Cardinality(s) <= n + 1
        PROVE  Sum(s) \in Int /\ \A x \in s : Sum(s) = f[x] + Sum(s \ {x})
    <3>1. CASE s = {}
      BY <1>9, <3>1
    <3>2. CASE s # {}
      <4> DEFINE a == Some(s)
      <4>1. a \in s
        BY <3>2, SomeIsIn
      <4> HIDE DEF a
      <4>2. \A x \in s : s \ {x} \in SUBSET S /\ Cardinality(s \ {x}) <= n
        BY <1>0, <2>1, OneLess
      <4>3. Sum(s) = f[a] + Sum(s \ {a})
        BY <1>1, <3>2 DEF a
      <4>4. Sum(s) \in Int
        BY <1>3, <4>1, <4>2, <4>3
      <4>5. ASSUME NEW x \in s, x # a PROVE Sum(s) = f[x] + Sum(s \ {x})
        <5> DEFINE r == (s \ {a}) \ {x}
        <5>1. r = (s \ {x}) \ {a} /\ r \in SUBSET S /\ Cardinality(r) <= n
          <6>1. IsFiniteSet(s \ {a}) /\ x \in s \ {a}
            BY <1>0, <4>1, <4>2, <4>5
          <6>2. Cardinality(r) \in Nat /\ Cardinality(s \ {a}) \in Nat
                /\ Cardinality(r) = Cardinality(s \ {a}) - 1
            BY <6>1, OneLess, FS_CardinalityType
          <6> QED BY <4>1, <4>2, <6>2
        <5>2. Sum(s \ {a}) = f[x] + Sum(r)
          BY <1>3, <4>1, <4>2, <4>5
        <5>3. Sum(s \ {x}) = f[a] + Sum(r)
          BY <1>3, <4>1, <4>2, <4>5, <5>1
        <5>4. Sum(r) \in Int
          BY <1>3, <5>1
        <5> HIDE DEF r
        <5> QED BY <4>1, <4>3, <5>2, <5>3, <5>4
      <4> QED BY <4>3, <4>4, <4>5
    <3> QED BY <3>1, <3>2
  <2> QED BY <2>1
<1>4. Cardinality(S) \in N
  <2> HIDE DEF N
  <2> QED BY <1>0, <1>2, <1>3, EveryNumber
<1> QED BY <1>0, <1>4 DEF Sum

\* A sum says nothing of what lies outside its set.
LEMMA SumOfSame ==
    ASSUME NEW f, NEW g, NEW S, IsFiniteSet(S), \A x \in S : f[x] = g[x] /\ f[x] \in Int
    PROVE  SumFunctionOnSet(f, S) = SumFunctionOnSet(g, S)
<1> DEFINE P == {s \in SUBSET S : SumFunctionOnSet(f, s) = SumFunctionOnSet(g, s)}
<1>1. {} \in P
  BY SumUnfolds, FS_EmptySet
<1>2. ASSUME NEW s \in SUBSET S, NEW x \in S \ s, s \in P PROVE s \cup {x} \in P
  <2>1. IsFiniteSet(s \cup {x}) /\ (s \cup {x}) \ {x} = s
    BY FS_Subset
  <2>2. /\ SumFunctionOnSet(f, s \cup {x}) = f[x] + SumFunctionOnSet(f, s)
        /\ SumFunctionOnSet(g, s \cup {x}) = g[x] + SumFunctionOnSet(g, s)
    BY <2>1, SumOneOut
  <2> QED BY <1>2, <2>2
<1> HIDE DEF P
<1>3. SUBSET S \subseteq P
  BY <1>1, <1>2, EveryPart
<1> QED BY <1>3 DEF P

\* One more element.
LEMMA SumOneMore ==
    ASSUME NEW f, NEW S, IsFiniteSet(S), NEW x, x \notin S,
           \A y \in S \cup {x} : f[y] \in Int
    PROVE  /\ SumFunctionOnSet(f, S) \in Int
           /\ SumFunctionOnSet(f, S \cup {x}) = SumFunctionOnSet(f, S) + f[x]
<1>1. IsFiniteSet(S \cup {x}) /\ (S \cup {x}) \ {x} = S
  BY FS_AddElement
<1>2. SumFunctionOnSet(f, S \cup {x}) = f[x] + SumFunctionOnSet(f, S)
  BY <1>1, SumOneOut
<1>3. SumFunctionOnSet(f, S) \in Int
  BY SumOneOut
<1> QED BY <1>2, <1>3

\* Changes add up to what they are the changes of.
LEMMA SumOfChanges ==
    ASSUME NEW n \in Nat, NEW h, h[0] = 0, \A i \in 0 .. n : h[i] \in Int,
           NEW d, \A i \in 1 .. n : d[i] = h[i] - h[i - 1]
    PROVE  \A k \in 0 .. n : SumFunctionOnSet(d, 1 .. k) = h[k]
<1> DEFINE N == {k \in Nat : k <= n => SumFunctionOnSet(d, 1 .. k) = h[k]}
<1>1. 0 \in N
  <2>1. 1 .. 0 = {}
    OBVIOUS
  <2>2. SumFunctionOnSet(d, {}) = 0
    BY SumUnfolds, FS_EmptySet
  <2> QED BY <2>1, <2>2
<1>2. ASSUME NEW k \in Nat, k \in N, k + 1 <= n
      PROVE  SumFunctionOnSet(d, 1 .. k + 1) = h[k + 1]
  <2> DEFINE S == 1 .. k
  <2>1. IsFiniteSet(S) /\ k + 1 \notin S /\ S \cup {k + 1} = 1 .. k + 1
    <3>1. IsFiniteSet(S)
      BY FS_Interval
    <3>2. S \cup {k + 1} = 1 .. k + 1
      OBVIOUS
    <3> QED BY <3>1, <3>2
  <2>2. \A i \in S \cup {k + 1} : d[i] \in Int
    <3> SUFFICES ASSUME NEW i \in 1 .. n PROVE d[i] \in Int
      BY <1>2
    <3>1. h[i] \in Int /\ h[i - 1] \in Int /\ d[i] = h[i] - h[i - 1]
      OBVIOUS
    <3> QED BY <3>1
  <2>3. SumFunctionOnSet(d, S) = h[k]
    BY <1>2
  <2>4. SumFunctionOnSet(d, S \cup {k + 1}) = SumFunctionOnSet(d, S) + d[k + 1]
    <3> HIDE DEF S
    <3> QED BY <2>1, <2>2, SumOneMore
  <2>5. d[k + 1] = h[k + 1] - h[k] /\ h[k + 1] \in Int /\ h[k] \in Int
    <3>1. k + 1 \in 1 .. n /\ k + 1 \in 0 .. n /\ k \in 0 .. n /\ k + 1 - 1 = k
      BY <1>2
    <3> QED BY <3>1
  <2>6. SumFunctionOnSet(d, 1 .. k + 1) = SumFunctionOnSet(d, S) + d[k + 1]
    BY <2>1, <2>4
  <2> HIDE DEF S
  <2> QED BY <2>3, <2>5, <2>6
<1>3. Nat \subseteq N
  <2>1. ASSUME NEW k \in Nat, k \in N PROVE k + 1 \in N
    BY <1>2, <2>1
  <2> HIDE DEF N
  <2> QED BY <1>1, <2>1, EveryNumber
<1> QED BY <1>3

\* A sum falls into the sums of two parts that have nothing in common.
LEMMA SumOfUnion ==
    ASSUME NEW f, NEW S, NEW T, IsFiniteSet(S), IsFiniteSet(T), S \cap T = {},
           \A y \in S \cup T : f[y] \in Int
    PROVE  SumFunctionOnSet(f, S \cup T) = SumFunctionOnSet(f, S) + SumFunctionOnSet(f, T)
<1> DEFINE Sum(s) == SumFunctionOnSet(f, s)
           P == {t \in SUBSET T : Sum(S \cup t) = Sum(S) + Sum(t)}
<1>0. \A t \in SUBSET T : IsFiniteSet(t) /\ IsFiniteSet(S \cup t) /\ Sum(t) \in Int
  BY FS_Subset, FS_Union, SumOneOut
<1>1. {} \in P
  <2>1. Sum({}) = 0 /\ Sum(S) \in Int /\ S \cup {} = S
    BY SumUnfolds, SumOneOut, FS_EmptySet
  <2> HIDE DEF Sum
  <2> QED BY <2>1
<1>2. ASSUME NEW t \in SUBSET T, NEW x \in T \ t, t \in P PROVE t \cup {x} \in P
  <2>1. Sum(t \cup {x}) = Sum(t) + f[x]
    BY <1>0, SumOneMore
  <2>2. Sum((S \cup t) \cup {x}) = Sum(S \cup t) + f[x]
    BY <1>0, SumOneMore
  <2>3. (S \cup t) \cup {x} = S \cup (t \cup {x}) /\ t \cup {x} \in SUBSET T
    OBVIOUS
  <2>4. Sum(S) \in Int /\ Sum(t) \in Int /\ f[x] \in Int
    BY <1>0, SumOneOut
  <2>5. Sum(S \cup (t \cup {x})) = Sum(S \cup t) + f[x]
    BY <2>2, <2>3
  <2>6. Sum(S \cup t) = Sum(S) + Sum(t)
    BY <1>2
  <2> HIDE DEF Sum
  <2>7. Sum(S \cup (t \cup {x})) = Sum(S) + Sum(t \cup {x})
    BY <2>1, <2>4, <2>5, <2>6
  <2> QED BY <2>3, <2>7
<1> HIDE DEF P
<1>3. SUBSET T \subseteq P
  <2>1. \A s \in SUBSET T : \A x \in T \ s : s \in P => s \cup {x} \in P
    BY <1>2
  <2>2. IsFiniteSet(T) /\ {} \in P
    BY <1>1
  <2> QED BY ONLY <2>1, <2>2, EveryPart
<1> QED BY <1>3 DEF P

\* A sum of naturals is not less than the sum of a part.
LEMMA SumOfPart ==
    ASSUME NEW f, NEW S, IsFiniteSet(S), \A y \in S : f[y] \in Nat, NEW T \in SUBSET S
    PROVE  /\ SumFunctionOnSet(f, S) \in Nat
           /\ SumFunctionOnSet(f, T) <= SumFunctionOnSet(f, S)
<1> DEFINE P == {s \in SUBSET S : SumFunctionOnSet(f, s) \in Nat}
<1>1. {} \in P
  <2>1. SumFunctionOnSet(f, {}) = 0
    BY SumUnfolds, FS_EmptySet
  <2> QED BY <2>1
<1>2. ASSUME NEW s \in SUBSET S, NEW x \in S \ s, s \in P PROVE s \cup {x} \in P
  <2>1. IsFiniteSet(s)
    BY FS_Subset
  <2>2. SumFunctionOnSet(f, s \cup {x}) = SumFunctionOnSet(f, s) + f[x]
    <3>1. \A y \in s \cup {x} : f[y] \in Int
      OBVIOUS
    <3> QED BY <2>1, <3>1, SumOneMore
  <2> QED BY <1>2, <2>2
<1> HIDE DEF P
<1>3. SUBSET S \subseteq P
  BY <1>1, <1>2, EveryPart
<1>4. IsFiniteSet(T) /\ IsFiniteSet(S \ T) /\ S = T \cup (S \ T)
  BY FS_Subset
<1>5. SumFunctionOnSet(f, S) = SumFunctionOnSet(f, T) + SumFunctionOnSet(f, S \ T)
  <2>1. T \cap (S \ T) = {} /\ \A y \in T \cup (S \ T) : f[y] \in Int
    OBVIOUS
  <2>2. SumFunctionOnSet(f, T \cup (S \ T)) =
            SumFunctionOnSet(f, T) + SumFunctionOnSet(f, S \ T)
    BY <1>4, <2>1, SumOfUnion
  <2> QED BY <1>4, <2>2
<1>6. /\ SumFunctionOnSet(f, S) \in Nat /\ SumFunctionOnSet(f, T) \in Nat
      /\ SumFunctionOnSet(f, S \ T) \in Nat
  BY <1>3 DEF P
<1> QED BY <1>5, <1>6

\* A finite set of numbers that is not empty has a greatest one.
LEMMA GreatestNumber ==
    ASSUME NEW T, IsFiniteSet(T), T \subseteq Int, T # {}
    PROVE  \E n \in T : \A m \in T : n >= m
<1> DEFINE P == {s \in SUBSET T : s # {} => \E n \in s : \A m \in s : n >= m}
<1>1. {} \in P
  OBVIOUS
<1>2. ASSUME NEW s \in SUBSET T, NEW x \in T \ s, s \in P PROVE s \cup {x} \in P
  <2>1. CASE s = {}
    BY <2>1
  <2>2. CASE s # {}
    <3>1. PICK n \in s : \A m \in s : n >= m
      BY <1>2, <2>2
    <3>2. CASE n >= x
      BY <3>1, <3>2
    <3>3. CASE ~(n >= x)
      BY <3>1, <3>3
    <3> QED BY <3>2, <3>3
  <2> QED BY <2>1, <2>2
<1> HIDE DEF P
<1>3. SUBSET T \subseteq P
  BY <1>1, <1>2, EveryPart
<1> QED BY <1>3 DEF P

-----------------------------------------------------------------------------
(* Sets of ids.                                                             *)

\* Places in a sequence are finitely many numbers.
LEMMA IdsFinite ==
    ASSUME NEW T, NEW s \in Seq(T), NEW ids \in SUBSET DOMAIN s
    PROVE  IsFiniteSet(ids) /\ ids \subseteq Nat
<1>1. DOMAIN s = 1 .. Len(s) /\ Len(s) \in Nat
  OBVIOUS
<1>2. IsFiniteSet(DOMAIN s)
  BY <1>1, FS_Interval
<1> QED BY <1>1, <1>2, FS_Subset

\* What is not among the newest of some ids is not among those of more.
LEMMA LastOfShrinks ==
    ASSUME NEW T, IsFiniteSet(T), T \subseteq Nat, NEW S \in SUBSET T, NEW n \in Nat,
           NEW x \in S, x \notin LastOf(S, n)
    PROVE  x \notin LastOf(T, n)
<1> DEFINE A == {j \in S : j >= x}
           B == {j \in T : j >= x}
<1>1. A \in SUBSET B /\ B \in SUBSET T
  OBVIOUS
<1>2. IsFiniteSet(B)
  BY <1>1, FS_Subset
<1>3. IsFiniteSet(A) /\ Cardinality(A) <= Cardinality(B)
  BY <1>1, <1>2, FS_Subset
<1>4. Cardinality(A) \in Nat /\ Cardinality(B) \in Nat
  BY <1>2, <1>3, FS_CardinalityType
<1>5. ~(Cardinality(A) <= n)
  BY DEF LastOf
<1> HIDE DEF A, B
<1>6. ~(Cardinality(B) <= n)
  BY <1>3, <1>4, <1>5
<1> QED BY <1>6 DEF LastOf, B

\* The place of an id among others.
LEMMA Ranks ==
    ASSUME NEW S \in SUBSET Nat, IsFiniteSet(S)
    PROVE  LET rank == [x \in S |-> Cardinality({y \in S : y <= x})]
           IN  /\ Cardinality(S) \in Nat
               /\ rank \in Injection(S, 1 .. Cardinality(S))
               /\ rank \in Surjection(S, 1 .. Cardinality(S))
               /\ \A x, z \in S : x < z => rank[x] < rank[z]
<1> DEFINE Below(x) == {y \in S : y <= x}
           n == Cardinality(S)
           rank == [x \in S |-> Cardinality(Below(x))]
<1>1. n \in Nat
  BY FS_CardinalityType
<1>2. \A x \in S : IsFiniteSet(Below(x)) /\ Cardinality(Below(x)) \in 1 .. n
  <2> TAKE x \in S
  <2>1. Below(x) \in SUBSET S /\ x \in Below(x)
    OBVIOUS
  <2> HIDE DEF Below
  <2>2. IsFiniteSet(Below(x)) /\ Cardinality(Below(x)) <= n
    BY <2>1, FS_Subset
  <2>3. Cardinality(Below(x)) \in Nat /\ Cardinality(Below(x)) # 0
    BY <2>1, <2>2, FS_CardinalityType, FS_EmptySet
  <2> QED BY <1>1, <2>2, <2>3
<1>3. \A x, z \in S : x < z => Cardinality(Below(x)) < Cardinality(Below(z))
  <2> SUFFICES ASSUME NEW x \in S, NEW z \in S, x < z
               PROVE  Cardinality(Below(x)) < Cardinality(Below(z))
    OBVIOUS
  <2>0. \A y \in S : y \in Nat
    OBVIOUS
  <2>1. Below(x) \in SUBSET (Below(z) \ {z}) /\ z \in Below(z)
    <3>1. \A y \in S : y <= x => y <= z /\ y # z
      BY <2>0
    <3>2. z <= z
      BY <2>0
    <3> QED BY <3>1, <3>2
  <2> HIDE DEF Below, n
  <2>2. /\ IsFiniteSet(Below(z) \ {z})
        /\ Cardinality(Below(z) \ {z}) = Cardinality(Below(z)) - 1
    BY <1>2, <2>1, OneLess
  <2>3. Cardinality(Below(x)) <= Cardinality(Below(z)) - 1
    BY <2>1, <2>2, FS_Subset
  <2> QED BY <1>1, <1>2, <2>3
<1> HIDE DEF Below, n
<1>4. \A x, z \in S : x < z => rank[x] < rank[z]
  BY <1>3
<1>5. rank \in [S -> 1 .. n]
  BY <1>2
<1>6. \A x \in S : rank[x] \in Int
  BY <1>1, <1>5
<1> HIDE DEF rank
<1>7. rank \in Injection(S, 1 .. n)
  <2>1. ASSUME NEW x \in S, NEW z \in S, rank[x] = rank[z] PROVE x = z
    <3>1. x \in Nat /\ z \in Nat /\ ~(x < z) /\ ~(z < x)
      BY <1>4, <1>6, <2>1
    <3> QED BY <3>1
  <2> QED BY <1>5, <2>1 DEF Injection, IsInjective
<1>8. IsFiniteSet(1 .. n) /\ Cardinality(1 .. n) = n
  BY <1>1, FS_Interval
<1>9. rank \in Surjection(S, 1 .. n)
  BY <1>7, <1>8, FS_Injection DEF n
<1> QED BY <1>1, <1>4, <1>7, <1>9 DEF rank, Below, n

\* InOrder lists the ids, each once, the smaller first.
LEMMA InOrderLists ==
    ASSUME NEW S \in SUBSET Nat, IsFiniteSet(S)
    PROVE  /\ Cardinality(S) \in Nat
           /\ InOrder(S) \in [1 .. Cardinality(S) -> S]
           /\ \A j, k \in 1 .. Cardinality(S) : j < k => InOrder(S)[j] < InOrder(S)[k]
           /\ \A x \in S : \E k \in 1 .. Cardinality(S) : InOrder(S)[k] = x
<1> DEFINE n == Cardinality(S)
           rank == [x \in S |-> Cardinality({y \in S : y <= x})]
<1>1. /\ n \in Nat
      /\ rank \in Injection(S, 1 .. n) /\ rank \in Surjection(S, 1 .. n)
      /\ \A x, z \in S : x < z => rank[x] < rank[z]
  BY Ranks
<1>2. \A k \in 1 .. n : InOrder(S)[k] = CHOOSE x \in S : Cardinality({y \in S : y <= x}) = k
  BY DEF InOrder
<1>3. \A k \in 1 .. n : InOrder(S)[k] \in S /\ rank[InOrder(S)[k]] = k
  <2> TAKE k \in 1 .. n
  <2>1. PICK x \in S : rank[x] = k
    BY <1>1 DEF Surjection
  <2>2. \E y \in S : Cardinality({z \in S : z <= y}) = k
    BY <2>1
  <2>3. /\ InOrder(S)[k] \in S
        /\ Cardinality({z \in S : z <= InOrder(S)[k]}) = k
    BY <1>2, <2>2
  <2> QED BY <2>3
<1>0. DOMAIN InOrder(S) = 1 .. n /\ InOrder(S) = [k \in DOMAIN InOrder(S) |-> InOrder(S)[k]]
  BY DEF InOrder
<1> HIDE DEF n, rank
<1>4. InOrder(S) \in [1 .. n -> S]
  BY <1>0, <1>3
<1>5. ASSUME NEW j \in 1 .. n, NEW k \in 1 .. n, j < k
      PROVE  InOrder(S)[j] < InOrder(S)[k]
  <2> DEFINE x == InOrder(S)[j]
             z == InOrder(S)[k]
  <2>1. x \in S /\ z \in S /\ rank[x] = j /\ rank[z] = k
    BY <1>3
  <2> HIDE DEF x, z
  <2>2. x \in Nat /\ z \in Nat /\ x # z /\ ~(z < x)
    BY <1>1, <1>5, <2>1
  <2>3. x < z
    BY <2>2
  <2> QED BY <2>3 DEF x, z
<1>6. ASSUME NEW x \in S PROVE \E k \in 1 .. n : InOrder(S)[k] = x
  <2>1. rank[x] \in 1 .. n
    BY <1>1 DEF Injection
  <2>2. InOrder(S)[rank[x]] \in S /\ rank[InOrder(S)[rank[x]]] = rank[x]
    BY <1>3, <2>1
  <2>3. InOrder(S)[rank[x]] = x
    BY <1>1, <2>2 DEF Injection, IsInjective
  <2> QED BY <2>1, <2>3
<1> QED BY <1>1, <1>4, <1>5, <1>6 DEF n
=============================================================================
