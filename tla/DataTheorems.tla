---------------------------- MODULE DataTheorems ----------------------------
(***************************************************************************)
(* Facts about the data operators the models are built from.  The first    *)
(* is SumFunctionOnSet of the community module Functions, which adds       *)
(* receipts and file sizes over a finite set.  It is a fold, that is, the  *)
(* value of a recursive function at its largest argument, so that each     *)
(* fact is an induction over finite sets.  The inductions are by minimal   *)
(* counterexample: a set of finite sets that is not empty has a member no  *)
(* strict subset of which is in it.  The second is FlattenSeq of           *)
(* SequencesExt, a recursive function too: what a concatenation of         *)
(* sequences holds, by the least length for which it fails.                *)
(***************************************************************************)
EXTENDS Functions, FiniteSetTheorems, SequencesExt, SequenceTheorems, TLAPS

\* A set of subsets of a finite set, if it is not empty, has a minimal member.
LEMMA MinimalSubset ==
  ASSUME NEW S, IsFiniteSet(S), NEW B, B \subseteq SUBSET S, B # {}
  PROVE  \E T \in B : \A V \in B : V \subseteq T => V = T
<1>1. FiniteSubsetsOf(S) = SUBSET S
  BY FS_FiniteSubsetsOfFinite
<1>2. IsWellFoundedOn(StrictSubsetOrdering(S), SUBSET S)
  BY <1>1, FS_StrictSubsetOrderingWellFounded
<1>3. PICK T \in B : \A V \in B : ~ (<<V, T>> \in StrictSubsetOrdering(S))
  BY <1>2, WFMin
<1>4. ASSUME NEW V \in B, V \subseteq T PROVE V = T
  <2>1. <<V, T>> \in (SUBSET S) \X (SUBSET S)
    OBVIOUS
  <2> QED BY <1>3, <1>4, <2>1 DEF StrictSubsetOrdering
<1> QED BY <1>4

-----------------------------------------------------------------------------
(* The recursive function whose value at S is the sum.                     *)

First(T) == CHOOSE x \in T : TRUE

Equation(f, S, g) ==
  g = [T \in SUBSET S |-> IF T = {} THEN 0 ELSE f[First(T)] + g[T \ {First(T)}]]

LEMMA SumIsChosen ==
  ASSUME NEW f, NEW S
  PROVE  SumFunctionOnSet(f, S) = (CHOOSE g : Equation(f, S, g))[S]
  BY DEF SumFunctionOnSet, FoldFunctionOnSet, MapThenFoldSet, Equation, First

\* What the equation says at one set.
LEMMA EquationAt ==
  ASSUME NEW f, NEW S, NEW g, Equation(f, S, g), NEW T \in SUBSET S
  PROVE  /\ T = {} => g[T] = 0
         /\ T # {} => First(T) \in T /\ g[T] = f[First(T)] + g[T \ {First(T)}]
<1>1. T # {} => First(T) \in T
  BY DEF First
<1> QED BY <1>1 DEF Equation

\* Two solutions agree wherever both are defined.
LEMMA SolutionsAgree ==
  ASSUME NEW f, NEW S, IsFiniteSet(S), NEW U, IsFiniteSet(U), NEW g, NEW h,
         Equation(f, S, g), Equation(f, U, h)
  PROVE  \A T \in SUBSET (S \cap U) : g[T] = h[T]
<1> DEFINE Bad == {T \in SUBSET (S \cap U) : g[T] # h[T]}
<1>1. SUFFICES ASSUME Bad # {} PROVE FALSE
  OBVIOUS
<1>2. IsFiniteSet(S \cap U)
  BY FS_Subset
<1>3. Bad \subseteq SUBSET (S \cap U)
  OBVIOUS
<1>4. PICK T \in Bad : \A V \in Bad : V \subseteq T => V = T
  <2> HIDE DEF Bad
  <2> QED BY <1>1, <1>2, <1>3, MinimalSubset
<1>5. T \in SUBSET S /\ T \in SUBSET U /\ g[T] # h[T]
  OBVIOUS
<1>6. CASE T = {}
  <2>1. g[T] = 0 /\ h[T] = 0
    BY <1>5, <1>6, EquationAt
  <2> QED BY <1>5, <2>1
<1>7. CASE T # {}
  <2>1. PICK x : x = First(T)
    OBVIOUS
  <2>2. x \in T
    BY <1>5, <1>7, <2>1, EquationAt
  <2>3. g[T] = f[x] + g[T \ {x}] /\ h[T] = f[x] + h[T \ {x}]
    <3> HIDE DEF Bad
    <3> QED BY <1>5, <1>7, <2>1, EquationAt
  <2>4. T \ {x} \notin Bad
    BY <1>4, <2>2
  <2>5. g[T \ {x}] = h[T \ {x}]
    BY <2>4
  <2> QED BY <1>5, <2>3, <2>5
<1> QED BY <1>6, <1>7

\* Every finite set has a solution: the solutions of its strict subsets fit
\* together.
LEMMA SolutionExists ==
  ASSUME NEW f, NEW S, IsFiniteSet(S)
  PROVE  \E g : Equation(f, S, g)
<1> DEFINE Solved(T) == \E g : Equation(f, T, g)
           Bad == {T \in SUBSET S : ~Solved(T)}
<1>1. SUFFICES ASSUME Bad # {} PROVE FALSE
  OBVIOUS
<1>2. Bad \subseteq SUBSET S
  OBVIOUS
<1>3. PICK U \in Bad : \A V \in Bad : V \subseteq U => V = U
  <2> HIDE DEF Bad
  <2> QED BY <1>1, <1>2, MinimalSubset
<1> DEFINE Sol(T) == CHOOSE g : Equation(f, T, g)
           G == [T \in SUBSET U |-> IF T = {} THEN 0
                                    ELSE f[First(T)] + Sol(T \ {First(T)})[T \ {First(T)}]]
<1>4. ASSUME NEW T \in SUBSET U, T # U PROVE Equation(f, T, Sol(T))
  <2>1. Solved(T)
    BY <1>3, <1>4
  <2> QED BY <2>1
<1>5. ASSUME NEW T \in SUBSET U PROVE IsFiniteSet(T)
  BY <1>5, FS_Subset
<1>6. ASSUME NEW T \in SUBSET U, T # U PROVE G[T] = Sol(T)[T]
  <2>1. CASE T = {}
    <3>1. G[T] = 0
      BY <2>1
    <3>2. Sol(T)[T] = 0
      <4> HIDE DEF Sol
      <4> QED BY <1>4, <1>6, <2>1, EquationAt
    <3> QED BY <3>1, <3>2
  <2>2. CASE T # {}
    <3>1. PICK x : x = First(T)
      OBVIOUS
    <3>2. x \in T /\ G[T] = f[x] + Sol(T \ {x})[T \ {x}]
      BY <2>2, <3>1 DEF First
    <3> HIDE DEF Sol, G
    <3>3. Equation(f, T, Sol(T)) /\ Equation(f, T \ {x}, Sol(T \ {x}))
      BY <1>4, <1>6, <3>2
    <3>4. Sol(T)[T] = f[x] + Sol(T)[T \ {x}]
      BY <2>2, <3>1, <3>3, EquationAt
    <3>5. IsFiniteSet(T) /\ IsFiniteSet(T \ {x}) /\ T \ {x} \in SUBSET (T \cap (T \ {x}))
      BY <1>5
    <3>6. Sol(T)[T \ {x}] = Sol(T \ {x})[T \ {x}]
      BY <3>3, <3>5, SolutionsAgree
    <3> QED BY <3>2, <3>4, <3>6
  <2> QED BY <2>1, <2>2
<1>7. Equation(f, U, G)
  <2> DEFINE H == [T \in SUBSET U |->
                     IF T = {} THEN 0 ELSE f[First(T)] + G[T \ {First(T)}]]
  <2>1. ASSUME NEW T \in SUBSET U PROVE G[T] = H[T]
    <3>1. CASE T = {}
      BY <3>1
    <3>2. CASE T # {}
      <4>1. PICK x : x = First(T)
        OBVIOUS
      <4>2. x \in T /\ G[T] = f[x] + Sol(T \ {x})[T \ {x}]
        BY <3>2, <4>1 DEF First
      <4>3. T \ {x} \in SUBSET U /\ T \ {x} # U
        BY <4>2
      <4>4. G[T \ {x}] = Sol(T \ {x})[T \ {x}]
        <5> HIDE DEF G, Sol
        <5> QED BY <1>6, <4>3
      <4>5. H[T] = f[x] + G[T \ {x}]
        <5> HIDE DEF G
        <5> QED BY <3>2, <4>1
      <4> QED BY <4>2, <4>4, <4>5
    <3> QED BY <3>1, <3>2
  <2>2. G = [T \in SUBSET U |-> G[T]] /\ H = [T \in SUBSET U |-> H[T]]
    OBVIOUS
  <2>3. G = H
    <3> HIDE DEF G, H
    <3> QED BY <2>1, <2>2
  <2> QED
    <3> HIDE DEF G
    <3> QED BY <2>3 DEF Equation
<1>8. Solved(U)
  <2> HIDE DEF G
  <2> QED BY <1>7
<1> QED BY <1>3, <1>8

-----------------------------------------------------------------------------
(* The sum.                                                                *)

\* The sum over nothing is 0, and the sum over a set is that of one of its
\* elements and of the rest.
LEMMA SumEquation ==
  ASSUME NEW f, NEW S, IsFiniteSet(S)
  PROVE  /\ S = {} => SumFunctionOnSet(f, S) = 0
         /\ S # {} => /\ First(S) \in S
                      /\ SumFunctionOnSet(f, S) =
                           f[First(S)] + SumFunctionOnSet(f, S \ {First(S)})
<1> DEFINE Sol(T) == CHOOSE g : Equation(f, T, g)
<1>1. ASSUME NEW T \in SUBSET S PROVE Equation(f, T, Sol(T)) /\ IsFiniteSet(T)
  <2>1. IsFiniteSet(T)
    BY FS_Subset
  <2>2. \E g : Equation(f, T, g)
    BY <2>1, SolutionExists
  <2> QED BY <2>1, <2>2
<1>2. \A T : SumFunctionOnSet(f, T) = Sol(T)[T]
  BY SumIsChosen
<1> HIDE DEF Sol
<1>3. CASE S = {}
  BY <1>1, <1>2, <1>3, EquationAt
<1>4. CASE S # {}
  <2>1. First(S) \in S /\ Sol(S)[S] = f[First(S)] + Sol(S)[S \ {First(S)}]
    BY <1>1, <1>4, EquationAt
  <2>2. PICK T : T = S \ {First(S)}
    OBVIOUS
  <2>3. T \in SUBSET S /\ T \in SUBSET (S \cap T)
    BY <2>2
  <2>4. Sol(S)[T] = Sol(T)[T]
    BY <1>1, <2>3, SolutionsAgree
  <2> QED BY <1>2, <1>4, <2>1, <2>2, <2>4
<1> QED BY <1>3, <1>4

\* A sum of integers is an integer, and of natural numbers a natural number.
LEMMA SumType ==
  ASSUME NEW f, NEW S, IsFiniteSet(S)
  PROVE  /\ (\A x \in S : f[x] \in Int) => SumFunctionOnSet(f, S) \in Int
         /\ (\A x \in S : f[x] \in Nat) => SumFunctionOnSet(f, S) \in Nat
<1>1. ASSUME NEW R \in {Int, Nat}, \A x \in S : f[x] \in R
      PROVE  SumFunctionOnSet(f, S) \in R
  <2> DEFINE Bad == {T \in SUBSET S : SumFunctionOnSet(f, T) \notin R}
  <2>1. SUFFICES ASSUME Bad # {} PROVE FALSE
    OBVIOUS
  <2>2. Bad \subseteq SUBSET S
    OBVIOUS
  <2>3. PICK T \in Bad : \A V \in Bad : V \subseteq T => V = T
    <3> HIDE DEF Bad
    <3> QED BY <2>1, <2>2, MinimalSubset
  <2>4. IsFiniteSet(T) /\ T \subseteq S
    BY FS_Subset
  <2>5. CASE T = {}
    <3>1. SumFunctionOnSet(f, T) = 0
      BY <2>4, <2>5, SumEquation
    <3> QED BY <3>1
  <2>6. CASE T # {}
    <3>1. PICK x : x = First(T)
      OBVIOUS
    <3>2. x \in T /\ SumFunctionOnSet(f, T) = f[x] + SumFunctionOnSet(f, T \ {x})
      <4> HIDE DEF Bad
      <4> QED BY <2>4, <2>6, <3>1, SumEquation
    <3>3. SumFunctionOnSet(f, T \ {x}) \in R /\ f[x] \in R
      BY <1>1, <2>3, <2>4, <3>2
    <3>4. SumFunctionOnSet(f, T) \in R
      BY <3>2, <3>3
    <3> QED BY <3>4
  <2> QED BY <2>5, <2>6
<1> QED BY <1>1

\* Any element may be taken out first: addition does not mind the order.
LEMMA SumRemove ==
  ASSUME NEW f, NEW S, IsFiniteSet(S), \A y \in S : f[y] \in Int, NEW x \in S
  PROVE  SumFunctionOnSet(f, S) = f[x] + SumFunctionOnSet(f, S \ {x})
<1> DEFINE Good(T) == \A z \in T : SumFunctionOnSet(f, T) = f[z] + SumFunctionOnSet(f, T \ {z})
           Bad == {T \in SUBSET S : ~Good(T)}
<1>1. SUFFICES ASSUME Bad # {} PROVE FALSE
  OBVIOUS
<1>2. Bad \subseteq SUBSET S
  OBVIOUS
<1>3. PICK T \in Bad : \A V \in Bad : V \subseteq T => V = T
  <2> HIDE DEF Bad
  <2> QED BY <1>1, <1>2, MinimalSubset
<1>4. /\ T \subseteq S /\ IsFiniteSet(T)
      /\ \A V \in SUBSET T : V # T => Good(V)
  BY <1>3, FS_Subset
<1>5. ASSUME NEW z \in T PROVE SumFunctionOnSet(f, T) = f[z] + SumFunctionOnSet(f, T \ {z})
  <2> HIDE DEF Bad
  <2>1. PICK y : y = First(T)
    OBVIOUS
  <2>2. y \in T /\ SumFunctionOnSet(f, T) = f[y] + SumFunctionOnSet(f, T \ {y})
    BY <1>4, <2>1, SumEquation
  <2>3. CASE y = z
    BY <2>2, <2>3
  <2>4. CASE y # z
    <3>1. PICK P, Q, R : P = T \ {y} /\ Q = T \ {z} /\ R = (T \ {y}) \ {z}
      OBVIOUS
    <3>2. /\ P \in SUBSET T /\ Q \in SUBSET T /\ P # T /\ Q # T
          /\ z \in P /\ y \in Q /\ R = P \ {z} /\ R = Q \ {y}
      BY <2>2, <2>4, <3>1
    <3>3. SumFunctionOnSet(f, P) = f[z] + SumFunctionOnSet(f, R)
      BY <1>4, <3>2
    <3>4. SumFunctionOnSet(f, Q) = f[y] + SumFunctionOnSet(f, R)
      BY <1>4, <3>2
    <3>5. IsFiniteSet(R) /\ R \subseteq S
      BY <1>4, <3>1, FS_Subset
    <3>6. SumFunctionOnSet(f, R) \in Int /\ f[y] \in Int /\ f[z] \in Int
      BY <1>4, <2>2, <3>5, SumType
    <3> QED BY <2>2, <3>1, <3>3, <3>4, <3>6
  <2> QED BY <2>3, <2>4
<1> QED BY <1>3, <1>5

\* A set may be split off.
LEMMA SumAdd ==
  ASSUME NEW f, NEW S, IsFiniteSet(S), NEW x, x \notin S, \A y \in S \cup {x} : f[y] \in Int
  PROVE  SumFunctionOnSet(f, S \cup {x}) = f[x] + SumFunctionOnSet(f, S)
<1>1. PICK T : T = S \cup {x}
  OBVIOUS
<1>2. IsFiniteSet(T) /\ T \ {x} = S /\ x \in T
  BY <1>1, FS_AddElement
<1> QED BY <1>1, <1>2, SumRemove

\* Adding one to the summand of each element of B adds the size of B.
LEMMA SumLifted ==
  ASSUME NEW f, NEW h, NEW S, IsFiniteSet(S), NEW B,
         \A x \in S : f[x] \in Int /\ h[x] = f[x] + (IF x \in B THEN 1 ELSE 0)
  PROVE  SumFunctionOnSet(h, S) = SumFunctionOnSet(f, S) + Cardinality(B \cap S)
<1> DEFINE Good(T) ==
             SumFunctionOnSet(h, T) = SumFunctionOnSet(f, T) + Cardinality(B \cap T)
           Bad == {T \in SUBSET S : ~Good(T)}
<1>1. SUFFICES ASSUME Bad # {} PROVE FALSE
  OBVIOUS
<1>2. Bad \subseteq SUBSET S
  OBVIOUS
<1>3. PICK T \in Bad : \A V \in Bad : V \subseteq T => V = T
  <2> HIDE DEF Bad
  <2> QED BY <1>1, <1>2, MinimalSubset
<1>4. T \subseteq S /\ IsFiniteSet(T) /\ \A V \in SUBSET T : V # T => Good(V)
  BY <1>3, FS_Subset
<1>5. CASE T = {}
  <2>1. SumFunctionOnSet(h, {}) = 0 /\ SumFunctionOnSet(f, {}) = 0 /\ Cardinality({}) = 0
    BY FS_EmptySet, SumEquation
  <2>2. B \cap T = {}
    BY <1>5
  <2>3. Good(T)
    <3> HIDE DEF Bad
    <3> QED BY <1>5, <2>1, <2>2
  <2> QED BY <1>3, <2>3
<1>6. CASE T # {}
  <2>1. PICK x \in T : TRUE
    BY <1>6
  <2>2. PICK V : V = T \ {x}
    OBVIOUS
  <2>3. \A y \in T : f[y] \in Int /\ h[y] \in Int
    BY <1>4
  <2>4. /\ SumFunctionOnSet(f, T) = f[x] + SumFunctionOnSet(f, V)
        /\ SumFunctionOnSet(h, T) = h[x] + SumFunctionOnSet(h, V)
    <3> HIDE DEF Bad
    <3> QED BY <1>4, <2>1, <2>2, <2>3, SumRemove
  <2>5. SumFunctionOnSet(h, V) = SumFunctionOnSet(f, V) + Cardinality(B \cap V)
    BY <1>4, <2>1, <2>2
  <2>6. IsFiniteSet(B \cap V) /\ IsFiniteSet(V)
    <3>1. V \subseteq T /\ B \cap V \subseteq T
      BY <2>2
    <3> QED BY <1>4, <3>1, FS_Subset
  <2>7. /\ Cardinality(B \cap V) \in Nat /\ SumFunctionOnSet(f, V) \in Int
    <3>1. \A y \in V : f[y] \in Int
      BY <2>2, <2>3
    <3> QED BY <2>6, <3>1, FS_CardinalityType, SumType
  <2>8. Cardinality(B \cap T) = Cardinality(B \cap V) + (IF x \in B THEN 1 ELSE 0)
    <3>1. CASE x \in B
      <4>1. B \cap T = (B \cap V) \cup {x} /\ x \notin B \cap V
        BY <2>1, <2>2, <3>1
      <4> QED BY <2>6, <2>7, <3>1, <4>1, FS_AddElement
    <3>2. CASE x \notin B
      <4>1. B \cap T = B \cap V
        BY <2>2, <3>2
      <4> QED BY <2>7, <3>2, <4>1
    <3> QED BY <3>1, <3>2
  <2>9. h[x] = f[x] + (IF x \in B THEN 1 ELSE 0) /\ f[x] \in Int
    BY <1>4, <2>1
  <2>10. Good(T)
    <3> HIDE DEF Bad
    <3>1. CASE x \in B
      BY <2>4, <2>5, <2>7, <2>8, <2>9, <3>1
    <3>2. CASE x \notin B
      BY <2>4, <2>5, <2>7, <2>8, <2>9, <3>2
    <3> QED BY <3>1, <3>2
  <2> QED BY <1>3, <2>10
<1> QED BY <1>5, <1>6

\* The sum looks at nothing but the summands of its set.
LEMMA SumAgree ==
  ASSUME NEW f, NEW h, NEW S, IsFiniteSet(S), \A x \in S : f[x] \in Int /\ h[x] = f[x]
  PROVE  SumFunctionOnSet(h, S) = SumFunctionOnSet(f, S)
<1>1. \A x \in S : h[x] = f[x] + (IF x \in {} THEN 1 ELSE 0)
  OBVIOUS
<1>2. SumFunctionOnSet(h, S) = SumFunctionOnSet(f, S) + Cardinality({} \cap S)
  BY <1>1, SumLifted
<1>3. Cardinality({} \cap S) = 0
  <2>1. {} \cap S = {}
    OBVIOUS
  <2> QED BY <2>1, FS_EmptySet
<1>4. SumFunctionOnSet(f, S) \in Int
  BY SumType
<1> QED BY <1>2, <1>3, <1>4

\* Natural summands: a larger set has no smaller sum.
LEMMA SumSubset ==
  ASSUME NEW f, NEW S, IsFiniteSet(S), \A x \in S : f[x] \in Nat, NEW U \in SUBSET S
  PROVE  SumFunctionOnSet(f, U) <= SumFunctionOnSet(f, S)
<1> DEFINE Good(T) == SumFunctionOnSet(f, U) <= SumFunctionOnSet(f, T)
           Bad == {T \in SUBSET S : U \subseteq T /\ ~Good(T)}
<1>1. SUFFICES ASSUME Bad # {} PROVE FALSE
  OBVIOUS
<1>2. Bad \subseteq SUBSET S
  OBVIOUS
<1>3. PICK T \in Bad : \A V \in Bad : V \subseteq T => V = T
  <2> HIDE DEF Bad
  <2> QED BY <1>1, <1>2, MinimalSubset
<1>4. /\ T \subseteq S /\ U \subseteq T /\ IsFiniteSet(T) /\ ~Good(T)
      /\ \A V \in SUBSET T : V # T /\ U \subseteq V => Good(V)
  BY <1>3, FS_Subset
<1>5. SumFunctionOnSet(f, T) \in Nat /\ \A y \in T : f[y] \in Int
  <2> HIDE DEF Bad
  <2>1. \A y \in T : f[y] \in Nat
    BY <1>4
  <2> QED BY <1>4, <2>1, SumType
<1>6. T # U
  BY <1>4, <1>5
<1>7. PICK x \in T : x \notin U
  BY <1>4, <1>6
<1>8. PICK V : V = T \ {x}
  OBVIOUS
<1>9. Good(V) /\ V \subseteq S /\ IsFiniteSet(V)
  BY <1>4, <1>7, <1>8, FS_Subset
<1>10. SumFunctionOnSet(f, T) = f[x] + SumFunctionOnSet(f, V)
  <2> HIDE DEF Bad, Good
  <2> QED BY <1>4, <1>5, <1>7, <1>8, SumRemove
<1>11. f[x] \in Nat /\ SumFunctionOnSet(f, V) \in Nat /\ SumFunctionOnSet(f, U) \in Nat
  <2>1. IsFiniteSet(U) /\ \A y \in U \cup V : f[y] \in Nat
    BY <1>9, FS_Subset
  <2> QED BY <1>4, <1>7, <1>9, <2>1, SumType
<1> QED BY <1>4, <1>9, <1>10, <1>11
-----------------------------------------------------------------------------
(* FlattenSeq, which joins a sequence of sequences: again the value of a   *)
(* recursive function at its largest argument.                             *)

\* A set of natural numbers, if it is not empty, has a least element.
LEMMA LeastNatural ==
  ASSUME NEW B, B \subseteq Nat, B # {}
  PROVE  \E m \in B : \A k \in B : m <= k
<1>1. PICK m \in B : \A k \in B : ~ (<<k, m>> \in OpToRel(<, Nat))
  BY NatLessThanWellFounded, WFMin
<1>2. ASSUME NEW k \in B PROVE m <= k
  <2>1. ~ (k < m)
    BY <1>1 DEF OpToRel
  <2> QED BY <2>1
<1> QED BY <1>2

\* f holds the first n of the sequences of q joined.
Joined(q, n, f) == f = [i \in 1..n |-> IF i = 1 THEN q[i] ELSE f[i - 1] \o q[i]]

LEMMA FlattenIsChosen ==
  ASSUME NEW q
  PROVE  FlattenSeq(q) = IF Len(q) = 0 THEN q ELSE (CHOOSE f : Joined(q, Len(q), f))[Len(q)]
  BY DEF FlattenSeq, Joined

LEMMA JoinedAt ==
  ASSUME NEW q, NEW n \in Nat, NEW f, Joined(q, n, f), NEW i \in 1..n
  PROVE  f[i] = IF i = 1 THEN q[i] ELSE f[i - 1] \o q[i]
  BY DEF Joined

LEMMA JoinedExists ==
  ASSUME NEW q, NEW n \in Nat
  PROVE  \E f : Joined(q, n, f)
<1> DEFINE Bad == {m \in Nat : ~ \E f : Joined(q, m, f)}
<1>1. SUFFICES ASSUME Bad # {} PROVE FALSE
  OBVIOUS
<1>2. Bad \subseteq Nat
  OBVIOUS
<1>3. PICK m \in Bad : \A k \in Bad : m <= k
  <2> HIDE DEF Bad
  <2> QED BY <1>1, <1>2, LeastNatural
<1>4. m \in Nat /\ ~ \E f : Joined(q, m, f)
  OBVIOUS
<1>5. CASE m = 0
  <2>1. Joined(q, 0, [i \in {} |-> q])
    BY DEF Joined
  <2> QED BY <1>4, <1>5, <2>1
<1>6. CASE m # 0
  <2>1. m - 1 \in Nat /\ m - 1 \notin Bad
    BY <1>3, <1>4, <1>6
  <2>2. PICK f : Joined(q, m - 1, f)
    BY <2>1
  <2> HIDE DEF Bad
  <2> DEFINE g == [i \in 1..m |-> IF i = 1 THEN q[i] ELSE f[i - 1] \o q[i]]
  <2>3. ASSUME NEW i \in 1..m, i # 1 PROVE g[i - 1] = f[i - 1]
    <3>1. i - 1 \in 1..(m - 1)
      BY <1>4, <2>3
    <3>2. i - 1 \in 1..m
      BY <1>4, <2>3
    <3> QED BY <2>1, <2>2, <3>1, <3>2, JoinedAt
  <2> DEFINE h == [i \in 1..m |-> IF i = 1 THEN q[i] ELSE g[i - 1] \o q[i]]
  <2>4. \A i \in 1..m : g[i] = h[i]
    <3> TAKE i \in 1..m
    <3>1. CASE i = 1
      BY <3>1
    <3>2. CASE i # 1
      <4>1. g[i] = f[i - 1] \o q[i]
        BY <3>2
      <4>2. h[i] = g[i - 1] \o q[i]
        BY <3>2
      <4> HIDE DEF g, h
      <4> QED BY <2>3, <3>2, <4>1, <4>2
    <3> QED BY <3>1, <3>2
  <2>5. g = [i \in 1..m |-> g[i]] /\ h = [i \in 1..m |-> h[i]]
    OBVIOUS
  <2>6. g = h
    <3> HIDE DEF g, h
    <3> QED BY <2>4, <2>5
  <2>7. Joined(q, m, g)
    <3> HIDE DEF g
    <3> QED BY <2>6 DEF Joined
  <2> QED BY <1>4, <2>7
<1> QED BY <1>5, <1>6

\* What is joined is a sequence of the elements of the sequences it is made of.
LEMMA JoinedElements ==
  ASSUME NEW S, NEW q \in Seq(Seq(S)), NEW f, Joined(q, Len(q), f)
  PROVE  \A n \in 1..Len(q) :
           f[n] \in Seq(S) /\ Range(f[n]) = UNION {Range(q[i]) : i \in 1..n}
<1> DEFINE Good(n) == f[n] \in Seq(S) /\ Range(f[n]) = UNION {Range(q[i]) : i \in 1..n}
           Bad == {n \in 1..Len(q) : ~Good(n)}
<1>1. SUFFICES ASSUME Bad # {} PROVE FALSE
  OBVIOUS
<1>2. Len(q) \in Nat /\ \A i \in 1..Len(q) : q[i] \in Seq(S)
  BY ElementOfSeq, LenProperties
<1>3. Bad \subseteq Nat
  BY <1>2
<1>4. PICK n \in Bad : \A k \in Bad : n <= k
  <2> HIDE DEF Bad
  <2> QED BY <1>1, <1>3, LeastNatural
<1>5. n \in 1..Len(q) /\ ~Good(n)
  OBVIOUS
<1>6. f[n] = IF n = 1 THEN q[n] ELSE f[n - 1] \o q[n]
  <2> HIDE DEF Bad, Good
  <2> QED BY <1>2, <1>5, JoinedAt
<1>7. CASE n = 1
  <2>1. 1..n = {1}
    BY <1>7
  <2>2. UNION {Range(q[i]) : i \in 1..n} = Range(q[1])
    BY <2>1
  <2>3. f[n] = q[1] /\ q[1] \in Seq(S)
    BY <1>2, <1>5, <1>6, <1>7
  <2> QED BY <1>5, <2>2, <2>3
<1>8. CASE n # 1
  <2>1. n - 1 \in 1..Len(q) /\ n - 1 \notin Bad
    <3> HIDE DEF Bad, Good
    <3> QED BY <1>2, <1>4, <1>5, <1>8
  <2>2. Good(n - 1)
    BY <2>1
  <2>3. q[n] \in Seq(S) /\ f[n - 1] \in Seq(S) /\ f[n] = f[n - 1] \o q[n]
    BY <1>2, <1>5, <1>6, <1>8, <2>2
  <2>4. f[n] \in Seq(S)
    BY <2>3, ConcatProperties
  <2>5. Range(f[n]) = Range(f[n - 1]) \cup Range(q[n])
    BY <2>3, RangeConcatenation
  <2>6. 1..n = (1..(n - 1)) \cup {n}
    BY <1>2, <1>5
  <2>7. UNION {Range(q[i]) : i \in 1..n}
               = (UNION {Range(q[i]) : i \in 1..(n - 1)}) \cup Range(q[n])
    BY <2>6
  <2>8. Good(n)
    BY <2>2, <2>4, <2>5, <2>7
  <2> QED BY <1>5, <2>8
<1> QED BY <1>7, <1>8

LEMMA FlattenElements ==
  ASSUME NEW S, NEW q \in Seq(Seq(S))
  PROVE  /\ FlattenSeq(q) \in Seq(S)
         /\ Range(FlattenSeq(q)) = UNION {Range(q[i]) : i \in DOMAIN q}
<1>1. Len(q) \in Nat /\ DOMAIN q = 1..Len(q)
  BY LenProperties
<1>2. CASE Len(q) = 0
  <2>1. q = <<>> /\ FlattenSeq(q) = q
    BY <1>2, EmptySeq, FlattenIsChosen
  <2>2. q \in Seq(S) /\ DOMAIN q = {} /\ Range(q) = {}
    BY <2>1, EmptySeq, <1>1, <1>2 DEF Range
  <2> QED BY <2>1, <2>2
<1>3. CASE Len(q) # 0
  <2>1. PICK f : f = CHOOSE g : Joined(q, Len(q), g)
    OBVIOUS
  <2>2. Joined(q, Len(q), f)
    BY <1>1, <2>1, JoinedExists
  <2>3. FlattenSeq(q) = f[Len(q)] /\ Len(q) \in 1..Len(q)
    BY <1>1, <1>3, <2>1, FlattenIsChosen
  <2>4. f[Len(q)] \in Seq(S) /\ Range(f[Len(q)]) = UNION {Range(q[i]) : i \in 1..Len(q)}
    <3>1. \A n \in 1..Len(q) :
            f[n] \in Seq(S) /\ Range(f[n]) = UNION {Range(q[i]) : i \in 1..n}
      BY <2>2, JoinedElements
    <3> QED BY ONLY <2>3, <3>1, Zenon
  <2> QED BY <1>1, <2>3, <2>4
<1> QED BY <1>2, <1>3
=============================================================================
