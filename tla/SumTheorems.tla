---------------------------- MODULE SumTheorems ----------------------------
(***************************************************************************)
(* Sums over finite sets, as the proofs about money need them: the sum of  *)
(* SumFunctionOnSet grows by f[x] with an element x, adds up over disjoint *)
(* sets, and depends on nothing but the values at the elements.            *)
(*                                                                         *)
(* SumFunctionOnSet is a recursive function.  That it exists and does not  *)
(* depend on the order is shown without induction over an operator: the    *)
(* number of pairs <<i, k>> with 1 <= k <= f[i] solves its equation, and a *)
(* smallest set on which two solutions differ would be no smallest one.    *)
(***************************************************************************)
EXTENDS Integers, FiniteSets, Functions, FiniteSetTheorems,
        WellFoundedInduction, TLAPS

\* Sum of the values of f at the elements of S (Functions.tla).
Sum(f, S) == SumFunctionOnSet(f, S)

IsIntOn(f, S) == \A i \in S : f[i] \in Int

\* A set of subsets that is not empty has a member none of whose elements can
\* be taken away without leaving it: induction on finite sets, for provers
\* that do not instantiate a predicate.
LEMMA SmallestSet ==
  ASSUME NEW S, IsFiniteSet(S), NEW B \in SUBSET (SUBSET S), B # {}
  PROVE  \E T \in B : \A x \in T : T \ {x} \notin B
<1> DEFINE R == StrictSubsetOrdering(S)
           F == FiniteSubsetsOf(S)
<1>1. IsWellFoundedOn(R, F)
  BY FS_StrictSubsetOrderingWellFounded
<1>2. B \subseteq F
  BY FS_Subset DEF FiniteSubsetsOf
<1>3. PICK T \in B : \A U \in B : ~(<<U, T>> \in R)
  <2> HIDE DEF R, F
  <2> QED BY <1>1, <1>2, WFMin
<1>4. ASSUME NEW x \in T, T \ {x} \in B PROVE FALSE
  <2>1. ~(<<T \ {x}, T>> \in R)
    BY <1>3, <1>4
  <2> QED BY <1>3, <1>4, <2>1 DEF StrictSubsetOrdering
<1> QED BY <1>4

\* The pairs that a function with natural values counts.
Units(f, S) == {p \in S \X Nat : p[2] \in 1 .. f[p[1]]}

\* A single element counts for its value.
LEMMA UnitsOfOne ==
  ASSUME NEW f, NEW x, f[x] \in Int
  PROVE  /\ IsFiniteSet(Units(f, {x}))
         /\ Cardinality(Units(f, {x})) = IF f[x] > 0 THEN f[x] ELSE 0
<1> DEFINE I == 1 .. f[x]
           U == Units(f, {x})
           g == [k \in I |-> <<x, k>>]
<1>1. IsFiniteSet(I) /\ Cardinality(I) = IF f[x] > 0 THEN f[x] ELSE 0
  BY FS_Interval
<1>2. g \in Bijection(I, U)
  <2>1. g \in [I -> U]
    BY DEF Units
  <2>2. \A a, b \in DOMAIN g : g[a] = g[b] => a = b
    OBVIOUS
  <2>3. \A u \in U : \E k \in I : g[k] = u
    BY DEF Units
  <2> QED BY <2>1, <2>2, <2>3 DEF Bijection, Injection, Surjection, IsInjective
<1>3. ExistsBijection(I, U)
  BY <1>2 DEF ExistsBijection
<1> HIDE DEF I, U, g
<1> QED BY <1>1, <1>3, FS_Bijection DEF U

\* There are finitely many pairs to count.
LEMMA UnitsFinite ==
  ASSUME NEW S, IsFiniteSet(S), NEW f, IsIntOn(f, S)
  PROVE  IsFiniteSet(Units(f, S)) /\ Cardinality(Units(f, S)) \in Nat
<1> DEFINE g == [x \in S |-> Units(f, {x})]
           W == {g[x] : x \in S}
<1>1. g \in Surjection(S, W)
  BY DEF Surjection
<1>2. IsFiniteSet(W)
  <2> HIDE DEF g, W
  <2> QED BY <1>1, FS_Surjection
<1>3. \A T \in W : IsFiniteSet(T)
  BY UnitsOfOne DEF IsIntOn
<1>4. UNION W = Units(f, S)
  <2>1. \A x \in S : g[x] \subseteq Units(f, S)
    BY DEF Units
  <2>2. ASSUME NEW p \in Units(f, S) PROVE p[1] \in S /\ p \in g[p[1]]
    BY <2>2 DEF Units
  <2> HIDE DEF g
  <2> QED BY <2>1, <2>2
<1>5. IsFiniteSet(Units(f, S))
  <2> HIDE DEF g, W
  <2> QED BY <1>2, <1>3, <1>4, FS_UNION
<1> QED BY <1>5, FS_CardinalityType

\* The pairs of two disjoint sets are counted apart.
LEMMA UnitsUnion ==
  ASSUME NEW S, IsFiniteSet(S), NEW T, IsFiniteSet(T), S \cap T = {},
         NEW f, IsIntOn(f, S \cup T)
  PROVE  Cardinality(Units(f, S \cup T))
           = Cardinality(Units(f, S)) + Cardinality(Units(f, T))
<1>1. Units(f, S \cup T) = Units(f, S) \cup Units(f, T)
  BY DEF Units
<1>2. Units(f, S) \cap Units(f, T) = {}
  BY DEF Units
<1>3. /\ IsFiniteSet(Units(f, S)) /\ Cardinality(Units(f, S)) \in Nat
      /\ IsFiniteSet(Units(f, T)) /\ Cardinality(Units(f, T)) \in Nat
  BY UnitsFinite DEF IsIntOn
<1>4. Cardinality(Units(f, S) \cap Units(f, T)) = 0
  BY <1>2, FS_EmptySet
<1> DEFINE US == Units(f, S)
           UT == Units(f, T)
<1> HIDE DEF US, UT
<1>5. Cardinality(US \cup UT)
        = Cardinality(US) + Cardinality(UT) - Cardinality(US \cap UT)
  BY <1>3, FS_Union DEF US, UT
<1>6. /\ Cardinality(US) \in Nat /\ Cardinality(UT) \in Nat
      /\ Cardinality(US \cap UT) = 0
  BY <1>3, <1>4 DEF US, UT
<1>7. Cardinality(US \cup UT) = Cardinality(US) + Cardinality(UT)
  BY <1>5, <1>6
<1> QED BY <1>1, <1>7 DEF US, UT

\* The sum, counted: what lies above zero less what lies below.
Opposite(f, S) == [i \in S |-> -f[i]]
Count(f, S) == Cardinality(Units(f, S)) - Cardinality(Units(Opposite(f, S), S))

\* The pairs depend on the values alone.
LEMMA UnitsCongruence ==
  ASSUME NEW S, NEW f, NEW g, \A i \in S : f[i] = g[i]
  PROVE  Units(f, S) = Units(g, S)
BY DEF Units

\* The count of two disjoint sets is the sum of their counts.
LEMMA CountUnion ==
  ASSUME NEW S, IsFiniteSet(S), NEW T, IsFiniteSet(T), S \cap T = {},
         NEW f, IsIntOn(f, S \cup T)
  PROVE  /\ Count(f, S) \in Int /\ Count(f, T) \in Int
         /\ Count(f, S \cup T) = Count(f, S) + Count(f, T)
<1> DEFINE o == Opposite(f, S \cup T)
<1>1. IsIntOn(o, S \cup T)
  BY DEF IsIntOn, Opposite
<1>2. /\ Units(Opposite(f, S), S) = Units(o, S)
      /\ Units(Opposite(f, T), T) = Units(o, T)
  BY UnitsCongruence DEF Opposite
<1>3. /\ Cardinality(Units(f, S)) \in Nat /\ Cardinality(Units(f, T)) \in Nat
      /\ Cardinality(Units(o, S)) \in Nat /\ Cardinality(Units(o, T)) \in Nat
  <2>1. IsIntOn(f, S) /\ IsIntOn(f, T) /\ IsIntOn(o, S) /\ IsIntOn(o, T)
    BY <1>1 DEF IsIntOn
  <2> QED BY <2>1, UnitsFinite
<1>4. /\ Cardinality(Units(f, S \cup T))
           = Cardinality(Units(f, S)) + Cardinality(Units(f, T))
      /\ Cardinality(Units(o, S \cup T))
           = Cardinality(Units(o, S)) + Cardinality(Units(o, T))
  <2> HIDE DEF o
  <2> QED BY <1>1, UnitsUnion
<1> QED BY <1>2, <1>3, <1>4 DEF Count

\* The count of one element is its value.
LEMMA CountOne ==
  ASSUME NEW f, NEW x, f[x] \in Int
  PROVE  Count(f, {x}) = f[x]
<1>1. Opposite(f, {x})[x] = -f[x]
  BY DEF Opposite
<1>2. Cardinality(Units(f, {x})) = IF f[x] > 0 THEN f[x] ELSE 0
  BY UnitsOfOne
<1> DEFINE o == Opposite(f, {x})
<1> HIDE DEF o
<1>3. o[x] \in Int
  BY <1>1 DEF o
<1>4. Cardinality(Units(o, {x})) = IF o[x] > 0 THEN o[x] ELSE 0
  BY <1>3, UnitsOfOne
<1> QED BY <1>1, <1>2, <1>4 DEF Count, o

\* Nothing counts nothing.
LEMMA CountEmpty == \A f : Count(f, {}) = 0
<1> SUFFICES ASSUME NEW f PROVE Count(f, {}) = 0
  OBVIOUS
<1>1. Units(f, {}) = {} /\ Units(Opposite(f, {}), {}) = {}
  BY DEF Units
<1> QED BY <1>1, FS_EmptySet DEF Count

\* Taking an element away takes its value from the count.
LEMMA CountRemove ==
  ASSUME NEW S, IsFiniteSet(S), NEW f, IsIntOn(f, S), NEW x \in S
  PROVE  Count(f, S) = f[x] + Count(f, S \ {x})
<1>1. /\ IsFiniteSet(S \ {x}) /\ IsFiniteSet({x})
      /\ {x} \cap (S \ {x}) = {} /\ S = {x} \cup (S \ {x})
  BY FS_RemoveElement, FS_Singleton
<1>2. f[x] \in Int
  BY DEF IsIntOn
<1> QED BY <1>1, <1>2, CountUnion, CountOne

-----------------------------------------------------------------------------
(* The sum is the count.                                                   *)

Chosen(s) == CHOOSE x \in s : TRUE

\* The equation that the sum of f over the subsets of S solves.
Solves(h, f, S) ==
  h = [s \in SUBSET S |->
         IF s = {} THEN 0 ELSE f[Chosen(s)] + h[s \ {Chosen(s)}]]

\* The sum is the value of a solution of the equation.
LEMMA SumUnfolded ==
  ASSUME NEW f, NEW S
  PROVE  Sum(f, S) = (CHOOSE h : Solves(h, f, S))[S]
BY Zenon DEF Sum, SumFunctionOnSet, FoldFunctionOnSet, MapThenFoldSet,
   Chosen, Solves

\* The count solves the equation, so that a solution exists.
LEMMA CountSolves ==
  ASSUME NEW S, IsFiniteSet(S), NEW f, IsIntOn(f, S)
  PROVE  Solves([s \in SUBSET S |-> Count(f, s)], f, S)
<1> DEFINE g == [s \in SUBSET S |-> Count(f, s)]
<1>1. ASSUME NEW s \in SUBSET S
      PROVE  g[s] = IF s = {} THEN 0 ELSE f[Chosen(s)] + g[s \ {Chosen(s)}]
  <2>1. CASE s = {}
    BY <2>1, CountEmpty
  <2>2. CASE s # {}
    <3>1. Chosen(s) \in s
      BY <2>2 DEF Chosen
    <3>2. IsFiniteSet(s) /\ IsIntOn(f, s)
      BY FS_Subset DEF IsIntOn
    <3>3. Count(f, s) = f[Chosen(s)] + Count(f, s \ {Chosen(s)})
      BY <3>1, <3>2, CountRemove
    <3>4. s \ {Chosen(s)} \in SUBSET S
      OBVIOUS
    <3> QED BY <2>2, <3>3, <3>4
  <2> QED BY <2>1, <2>2
<1> QED BY <1>1 DEF Solves

\* Every solution of the equation is the count.
LEMMA SolutionIsCount ==
  ASSUME NEW S, IsFiniteSet(S), NEW f, IsIntOn(f, S), NEW h, Solves(h, f, S)
  PROVE  h[S] = Count(f, S)
<1> DEFINE B == {s \in SUBSET S : h[s] # Count(f, s)}
<1> SUFFICES ASSUME B # {} PROVE FALSE
  OBVIOUS
<1>1. PICK T \in B : \A x \in T : T \ {x} \notin B
  BY SmallestSet
<1>2. h[T] = IF T = {} THEN 0 ELSE f[Chosen(T)] + h[T \ {Chosen(T)}]
  BY <1>1 DEF Solves
<1>3. CASE T = {}
  BY <1>1, <1>2, <1>3, CountEmpty
<1>4. CASE T # {}
  <2>1. Chosen(T) \in T
    BY <1>4 DEF Chosen
  <2>2. IsFiniteSet(T) /\ IsIntOn(f, T)
    BY FS_Subset DEF IsIntOn
  <2>3. h[T \ {Chosen(T)}] = Count(f, T \ {Chosen(T)})
    BY <1>1, <2>1
  <2>4. Count(f, T) = f[Chosen(T)] + Count(f, T \ {Chosen(T)})
    BY <2>1, <2>2, CountRemove
  <2> QED BY <1>1, <1>2, <1>4, <2>3, <2>4
<1> QED BY <1>3, <1>4

\* The sum of a function over a finite set is the count.
LEMMA SumIsCount ==
  ASSUME NEW S, IsFiniteSet(S), NEW f, IsIntOn(f, S)
  PROVE  Sum(f, S) = Count(f, S)
<1> DEFINE h == CHOOSE h : Solves(h, f, S)
<1>1. Solves(h, f, S)
  BY CountSolves
<1> HIDE DEF h
<1>2. h[S] = Count(f, S)
  BY <1>1, SolutionIsCount
<1> QED BY <1>2, SumUnfolded DEF h

-----------------------------------------------------------------------------
(* What the proofs cite.                                                   *)

\* The sum over no element.
LEMMA SumEmpty == \A f : Sum(f, {}) = 0
<1> SUFFICES ASSUME NEW f PROVE Sum(f, {}) = 0
  OBVIOUS
<1>1. IsFiniteSet({}) /\ IsIntOn(f, {})
  BY FS_EmptySet DEF IsIntOn
<1> QED BY <1>1, SumIsCount, CountEmpty

\* The sum over two disjoint sets.
LEMMA SumUnion ==
  ASSUME NEW S, IsFiniteSet(S), NEW T, IsFiniteSet(T), S \cap T = {},
         NEW f, IsIntOn(f, S \cup T)
  PROVE  /\ Sum(f, S) \in Int /\ Sum(f, T) \in Int
         /\ Sum(f, S \cup T) = Sum(f, S) + Sum(f, T)
<1>1. /\ IsIntOn(f, S) /\ IsIntOn(f, T)
      /\ IsFiniteSet(S \cup T)
  BY FS_Union DEF IsIntOn
<1>2. /\ Sum(f, S) = Count(f, S) /\ Sum(f, T) = Count(f, T)
      /\ Sum(f, S \cup T) = Count(f, S \cup T)
  BY <1>1, SumIsCount
<1> QED BY <1>2, CountUnion

\* The sum is an integer.
LEMMA SumType ==
  ASSUME NEW S, IsFiniteSet(S), NEW f, IsIntOn(f, S)
  PROVE  Sum(f, S) \in Int
<1>1. S \cap {} = {} /\ S \cup {} = S /\ IsFiniteSet({})
  BY FS_EmptySet
<1> QED BY <1>1, SumUnion

\* The sum over one element.
LEMMA SumOne ==
  ASSUME NEW f, NEW x, f[x] \in Int
  PROVE  Sum(f, {x}) = f[x]
<1>1. IsFiniteSet({x}) /\ IsIntOn(f, {x})
  BY FS_Singleton DEF IsIntOn
<1> QED BY <1>1, SumIsCount, CountOne

\* The sum depends on the values at the elements, and on nothing else.
LEMMA SumCongruence ==
  ASSUME NEW S, IsFiniteSet(S), NEW f, NEW g, IsIntOn(f, S),
         \A i \in S : g[i] = f[i]
  PROVE  Sum(g, S) = Sum(f, S)
<1>1. IsIntOn(g, S)
  BY DEF IsIntOn
<1>2. /\ Units(g, S) = Units(f, S)
      /\ Units(Opposite(g, S), S) = Units(Opposite(f, S), S)
  BY UnitsCongruence DEF Opposite
<1>3. Count(g, S) = Count(f, S)
  BY <1>2 DEF Count
<1> QED BY <1>1, <1>3, SumIsCount

\* A sum splits into the sum over a subset and the sum over the rest.
LEMMA SumSplit ==
  ASSUME NEW S, IsFiniteSet(S), NEW T, T \subseteq S, NEW f, IsIntOn(f, S)
  PROVE  /\ Sum(f, T) \in Int /\ Sum(f, S \ T) \in Int
         /\ Sum(f, S) = Sum(f, T) + Sum(f, S \ T)
<1>1. IsFiniteSet(T) /\ IsFiniteSet(S \ T)
  BY FS_Subset
<1>2. T \cap (S \ T) = {} /\ T \cup (S \ T) = S
  OBVIOUS
<1>3. IsIntOn(f, T \cup (S \ T))
  BY <1>2
<1> QED BY <1>1, <1>2, <1>3, SumUnion

\* A new element adds its value.
LEMMA SumAdd ==
  ASSUME NEW S, IsFiniteSet(S), NEW x, x \notin S,
         NEW f, IsIntOn(f, S \cup {x})
  PROVE  Sum(f, S \cup {x}) = Sum(f, S) + f[x]
<1>1. IsFiniteSet({x}) /\ S \cap {x} = {} /\ f[x] \in Int
  BY FS_Singleton DEF IsIntOn
<1> QED BY <1>1, SumUnion, SumOne

\* Taking an element away takes its value away.
LEMMA SumRemove ==
  ASSUME NEW S, IsFiniteSet(S), NEW x \in S, NEW f, IsIntOn(f, S)
  PROVE  Sum(f, S) = Sum(f, S \ {x}) + f[x]
<1>1. /\ IsFiniteSet(S \ {x}) /\ x \notin S \ {x} /\ S = (S \ {x}) \cup {x}
      /\ IsIntOn(f, (S \ {x}) \cup {x})
  BY FS_RemoveElement DEF IsIntOn
<1> QED BY <1>1, SumAdd

\* Changing one value changes the sum by as much.
LEMMA SumUpdate ==
  ASSUME NEW S, IsFiniteSet(S), NEW x \in S, NEW f, NEW g,
         IsIntOn(f, S), g[x] \in Int, \A i \in S \ {x} : g[i] = f[i]
  PROVE  Sum(g, S) = Sum(f, S) + (g[x] - f[x])
<1>1. /\ IsIntOn(g, S) /\ IsIntOn(f, S \ {x}) /\ f[x] \in Int
      /\ IsFiniteSet(S \ {x})
  BY FS_RemoveElement DEF IsIntOn
<1>2. /\ Sum(f, S) = Sum(f, S \ {x}) + f[x]
      /\ Sum(g, S) = Sum(g, S \ {x}) + g[x]
  BY <1>1, SumRemove
<1>3. Sum(g, S \ {x}) = Sum(f, S \ {x}) /\ Sum(f, S \ {x}) \in Int
  BY <1>1, SumCongruence, SumType
<1> QED BY <1>1, <1>2, <1>3

\* The sum of the sums of two functions.
LEMMA SumPlus ==
  ASSUME NEW S, IsFiniteSet(S), NEW f, NEW g, NEW h,
         IsIntOn(f, S), IsIntOn(g, S), \A i \in S : h[i] = f[i] + g[i]
  PROVE  Sum(h, S) = Sum(f, S) + Sum(g, S)
<1> DEFINE B == {s \in SUBSET S : Sum(h, s) # Sum(f, s) + Sum(g, s)}
<1> SUFFICES ASSUME B # {} PROVE FALSE
  OBVIOUS
<1>1. PICK T \in B : \A x \in T : T \ {x} \notin B
  BY SmallestSet
<1>2. CASE T = {}
  BY <1>1, <1>2, SumEmpty
<1>3. CASE T # {}
  <2>1. PICK x \in T : TRUE
    BY <1>3
  <2>2. /\ IsFiniteSet(T) /\ IsFiniteSet(T \ {x})
        /\ IsIntOn(f, T) /\ IsIntOn(g, T) /\ IsIntOn(h, T)
        /\ IsIntOn(f, T \ {x}) /\ IsIntOn(g, T \ {x})
        /\ f[x] \in Int /\ g[x] \in Int /\ h[x] = f[x] + g[x]
    BY <2>1, FS_Subset DEF IsIntOn
  <2>3. Sum(h, T \ {x}) = Sum(f, T \ {x}) + Sum(g, T \ {x})
    BY <1>1
  <2>4. /\ Sum(f, T) = Sum(f, T \ {x}) + f[x]
        /\ Sum(g, T) = Sum(g, T \ {x}) + g[x]
        /\ Sum(h, T) = Sum(h, T \ {x}) + h[x]
    BY <2>2, SumRemove
  <2>5. Sum(f, T \ {x}) \in Int /\ Sum(g, T \ {x}) \in Int
    BY <2>2, SumType
  <2>6. Sum(h, T) = Sum(f, T) + Sum(g, T)
    BY <2>2, <2>3, <2>4, <2>5
  <2> QED BY <1>1, <2>6
<1> QED BY <1>2, <1>3

\* A sum of natural numbers is one, and no smaller than any of its terms.
LEMMA SumNat ==
  ASSUME NEW S, IsFiniteSet(S), NEW f, \A i \in S : f[i] \in Nat
  PROVE  Sum(f, S) \in Nat /\ \A i \in S : f[i] <= Sum(f, S)
<1>1. ASSUME NEW T \in SUBSET S PROVE Sum(f, T) \in Nat
  <2>1. IsFiniteSet(T) /\ IsIntOn(f, T)
    BY FS_Subset DEF IsIntOn
  <2>2. Units(Opposite(f, T), T) = {}
    BY DEF Units, Opposite
  <2>3. Cardinality(Units(f, T)) \in Nat
    BY <2>1, UnitsFinite
  <2> QED BY <2>1, <2>2, <2>3, SumIsCount, FS_EmptySet DEF Count
<1>2. ASSUME NEW i \in S PROVE f[i] <= Sum(f, S)
  <2>1. Sum(f, S) = Sum(f, S \ {i}) + f[i]
    BY SumRemove DEF IsIntOn
  <2>2. Sum(f, S \ {i}) \in Nat /\ f[i] \in Nat
    BY <1>1
  <2> QED BY <2>1, <2>2
<1> QED BY <1>1, <1>2

\* A sum of zeros.
LEMMA SumZero ==
  ASSUME NEW S, IsFiniteSet(S), NEW f, \A i \in S : f[i] = 0
  PROVE  Sum(f, S) = 0
<1>1. IsIntOn(f, S) /\ \A i \in S : f[i] = f[i] + f[i]
  BY DEF IsIntOn
<1>2. Sum(f, S) = Sum(f, S) + Sum(f, S) /\ Sum(f, S) \in Int
  BY <1>1, SumPlus, SumType
<1>3. \A n \in Int : n = n + n => n = 0
  OBVIOUS
<1> QED BY <1>2, <1>3
=============================================================================
