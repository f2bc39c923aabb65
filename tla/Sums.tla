-------------------------------- MODULE Sums --------------------------------
(***************************************************************************)
(* What SumFunctionOnSet of the community modules returns for natural      *)
(* numbers: the facts about totals (of withdrawals, deposits, shares,      *)
(* images, debts, trades) that the proofs rest on; and induction over the  *)
(* natural numbers, for the recursive functions.                           *)
(*                                                                         *)
(* The operator is a recursive fold, and no induction theorem that has an  *)
(* operator as a parameter can be instantiated here.  Two ideas replace    *)
(* it: the sum of f over S is the number of elements of Units(f, S), a     *)
(* union of disjoint intervals, whose cardinality the theorems on finite   *)
(* sets give; and a set of finite counterexamples has a smallest member.   *)
(***************************************************************************)
EXTENDS FiniteSetsExt, FiniteSetTheorems, TLAPS

\* f[x] elements for every x of S.
Units(f, S) == UNION {{x} \X (1 .. f[x]) : x \in S}

\* The element the library's fold takes next.
Picked(T) == CHOOSE x \in T : TRUE

\* The equation of the library's fold, for the function `it` on subsets of S.
Folds(f, S, it) ==
  it = [T \in SUBSET S |->
          IF T = {} THEN 0 ELSE f[Picked(T)] + it[T \ {Picked(T)}]]

\* A property of sets that fails somewhere fails at a smallest finite set.
LEMMA SmallestCounterexample ==
  ASSUME NEW S, IsFiniteSet(S), NEW bad \in SUBSET (SUBSET S), bad # {}
  PROVE  \E T \in bad : \A V \in SUBSET T : V # T => V \notin bad
<1> DEFINE R == StrictSubsetOrdering(S)
<1>1. IsWellFoundedOn(R, SUBSET S)
  BY FS_StrictSubsetOrderingWellFounded, FS_FiniteSubsetsOfFinite
<1>2. \E T \in bad : \A V \in bad : ~ (<<V, T>> \in R)
  <2> HIDE DEF R
  <2> QED BY <1>1, WFMin
<1>3. PICK T \in bad : \A V \in bad : ~ (<<V, T>> \in R)
  BY <1>2
<1> QED BY <1>3 DEF StrictSubsetOrdering

-----------------------------------------------------------------------------
\* Units

LEMMA UnitsOfOne ==
  ASSUME NEW x, NEW n \in Nat
  PROVE  /\ IsFiniteSet({x} \X (1 .. n))
         /\ Cardinality({x} \X (1 .. n)) = n
<1>1. /\ IsFiniteSet({x}) /\ Cardinality({x}) = 1
  BY FS_Singleton
<1>2. IsFiniteSet(1 .. n) /\ Cardinality(1 .. n) = n
  BY FS_Interval
<1>3. /\ IsFiniteSet({x} \X (1 .. n))
      /\ Cardinality({x} \X (1 .. n)) = Cardinality({x}) * Cardinality(1 .. n)
  BY <1>1, <1>2, FS_Product
<1> QED BY <1>1, <1>2, <1>3

LEMMA UnitsEmpty ==
  ASSUME NEW f
  PROVE  IsFiniteSet(Units(f, {})) /\ Cardinality(Units(f, {})) = 0
<1>1. Units(f, {}) = {}
  BY DEF Units
<1> QED BY <1>1, FS_EmptySet

\* The units of disjoint sets are disjoint.
LEMMA UnitsUnion ==
  ASSUME NEW f, NEW A, NEW B, A \cap B = {},
         IsFiniteSet(Units(f, A)), IsFiniteSet(Units(f, B))
  PROVE  /\ IsFiniteSet(Units(f, A \cup B))
         /\ Cardinality(Units(f, A \cup B)) =
              Cardinality(Units(f, A)) + Cardinality(Units(f, B))
<1>1. Units(f, A \cup B) = Units(f, A) \cup Units(f, B)
  BY DEF Units
<1>2. Units(f, A) \cap Units(f, B) = {}
  BY DEF Units
<1>3. Cardinality(Units(f, A) \cap Units(f, B)) = 0
  BY <1>2, FS_EmptySet
<1>4. /\ IsFiniteSet(Units(f, A) \cup Units(f, B))
      /\ Cardinality(Units(f, A) \cup Units(f, B)) =
           Cardinality(Units(f, A)) + Cardinality(Units(f, B))
             - Cardinality(Units(f, A) \cap Units(f, B))
  BY FS_Union
<1>5. Cardinality(Units(f, A)) \in Nat /\ Cardinality(Units(f, B)) \in Nat
  BY FS_CardinalityType
<1>6. Cardinality(Units(f, A) \cup Units(f, B)) =
        Cardinality(Units(f, A)) + Cardinality(Units(f, B))
  BY <1>3, <1>4, <1>5
<1> QED BY <1>1, <1>4, <1>6, Zenon

LEMMA UnitsSingle ==
  ASSUME NEW f, NEW x, f[x] \in Nat
  PROVE  IsFiniteSet(Units(f, {x})) /\ Cardinality(Units(f, {x})) = f[x]
<1>1. Units(f, {x}) = {x} \X (1 .. f[x])
  BY DEF Units
<1>2. /\ IsFiniteSet({x} \X (1 .. f[x]))
      /\ Cardinality({x} \X (1 .. f[x])) = f[x]
  BY UnitsOfOne
<1> QED BY <1>1, <1>2, Zenon

\* Finitely many naturals have finitely many units.
LEMMA UnitsFinite ==
  ASSUME NEW f, NEW S, IsFiniteSet(S), \A x \in S : f[x] \in Nat
  PROVE  IsFiniteSet(Units(f, S)) /\ Cardinality(Units(f, S)) \in Nat
<1> DEFINE bad == {T \in SUBSET S : ~ IsFiniteSet(Units(f, T))}
<1>1. SUFFICES bad = {}
  BY FS_CardinalityType
<1>2. ASSUME bad # {} PROVE FALSE
  <2>1. PICK T \in bad : \A V \in SUBSET T : V # T => V \notin bad
    <3>1. bad \in SUBSET (SUBSET S)
      OBVIOUS
    <3> HIDE DEF bad
    <3> QED BY <1>2, <3>1, SmallestCounterexample
  <2>2. T # {}
    BY UnitsEmpty
  <2>3. PICK x \in T : TRUE
    BY <2>2
  <2>4. IsFiniteSet(Units(f, T \ {x}))
    BY <2>1, <2>3
  <2>5. IsFiniteSet(Units(f, {x}))
    BY <2>3, UnitsSingle
  <2>6. IsFiniteSet(Units(f, (T \ {x}) \cup {x}))
    BY <2>4, <2>5, UnitsUnion
  <2>7. (T \ {x}) \cup {x} = T
    BY <2>3
  <2> QED BY <2>6, <2>7
<1> QED BY <1>2

\* The fold's equation, for units.
LEMMA UnitsRemove ==
  ASSUME NEW f, NEW S, IsFiniteSet(S), \A x \in S : f[x] \in Nat, NEW x \in S
  PROVE  Cardinality(Units(f, S)) = f[x] + Cardinality(Units(f, S \ {x}))
<1>1. IsFiniteSet(S \ {x})
  BY FS_RemoveElement
<1>2. /\ IsFiniteSet(Units(f, S \ {x}))
      /\ Cardinality(Units(f, S \ {x})) \in Nat
  BY <1>1, UnitsFinite
<1>3. IsFiniteSet(Units(f, {x})) /\ Cardinality(Units(f, {x})) = f[x]
  BY UnitsSingle
<1>4. Cardinality(Units(f, (S \ {x}) \cup {x})) =
        Cardinality(Units(f, S \ {x})) + Cardinality(Units(f, {x}))
  BY <1>2, <1>3, UnitsUnion
<1>5. (S \ {x}) \cup {x} = S
  OBVIOUS
<1>6. Cardinality(Units(f, S)) =
        Cardinality(Units(f, S \ {x})) + Cardinality(Units(f, {x}))
  BY <1>4, <1>5, Zenon
<1> QED BY <1>2, <1>3, <1>6

-----------------------------------------------------------------------------
\* The library's sum is the number of units.

LEMMA FoldsExist ==
  ASSUME NEW f, NEW S, IsFiniteSet(S), \A x \in S : f[x] \in Nat
  PROVE  \E it : Folds(f, S, it)
<1> DEFINE it == [T \in SUBSET S |-> Cardinality(Units(f, T))]
           rhs == [T \in SUBSET S |->
                     IF T = {} THEN 0 ELSE f[Picked(T)] + it[T \ {Picked(T)}]]
<1>1. ASSUME NEW T \in SUBSET S
      PROVE  it[T] = rhs[T]
  <2>1. CASE T = {}
    BY <2>1, UnitsEmpty
  <2>2. CASE T # {}
    <3>1. Picked(T) \in T
      BY <2>2 DEF Picked
    <3>2. IsFiniteSet(T)
      BY FS_Subset
    <3>3. Cardinality(Units(f, T)) =
            f[Picked(T)] + Cardinality(Units(f, T \ {Picked(T)}))
      BY <3>1, <3>2, UnitsRemove
    <3> QED BY <2>2, <3>3
  <2> QED BY <2>1, <2>2
<1>2. it = rhs
  <2>1. /\ it = [T \in SUBSET S |-> it[T]]
        /\ rhs = [T \in SUBSET S |-> rhs[T]]
    OBVIOUS
  <2> HIDE DEF it, rhs
  <2> QED BY <1>1, <2>1
<1>3. it = [T \in SUBSET S |->
              IF T = {} THEN 0 ELSE f[Picked(T)] + it[T \ {Picked(T)}]]
  BY <1>2
<1> HIDE DEF it
<1> QED BY <1>3 DEF Folds

LEMMA SumIsUnits ==
  ASSUME NEW f, NEW S, IsFiniteSet(S), \A x \in S : f[x] \in Nat
  PROVE  SumFunctionOnSet(f, S) = Cardinality(Units(f, S))
<1> DEFINE it == CHOOSE i : Folds(f, S, i)
           bad == {T \in SUBSET S : it[T] # Cardinality(Units(f, T))}
<1>1. SumFunctionOnSet(f, S) = it[S]
  BY DEF SumFunctionOnSet, FoldFunctionOnSet, MapThenFoldSet, Folds, Picked
<1>2. Folds(f, S, it)
  BY FoldsExist
<1> HIDE DEF it
<1>3. \A T \in SUBSET S :
        it[T] = IF T = {} THEN 0 ELSE f[Picked(T)] + it[T \ {Picked(T)}]
  BY <1>2 DEF Folds
<1>4. SUFFICES bad = {}
  BY <1>1
<1>5. ASSUME bad # {} PROVE FALSE
  <2>1. PICK T \in bad : \A V \in SUBSET T : V # T => V \notin bad
    <3>1. bad \in SUBSET (SUBSET S)
      OBVIOUS
    <3> HIDE DEF bad
    <3> QED BY <1>5, <3>1, SmallestCounterexample
  <2>2. T # {}
    BY <1>3, UnitsEmpty
  <2>3. Picked(T) \in T
    BY <2>2 DEF Picked
  <2>4. it[T \ {Picked(T)}] = Cardinality(Units(f, T \ {Picked(T)}))
    BY <2>1, <2>3
  <2>5. IsFiniteSet(T)
    BY FS_Subset
  <2>6. Cardinality(Units(f, T)) =
          f[Picked(T)] + Cardinality(Units(f, T \ {Picked(T)}))
    BY <2>3, <2>5, UnitsRemove
  <2> QED BY <1>3, <2>2, <2>4, <2>6
<1> QED BY <1>5

-----------------------------------------------------------------------------
\* The facts the proofs cite.

\* Nothing sums to 0.
LEMMA SumEmpty ==
  ASSUME NEW f
  PROVE  SumFunctionOnSet(f, {}) = 0
BY SumIsUnits, UnitsEmpty, FS_EmptySet

\* A sum of naturals is a natural.
LEMMA SumNat ==
  ASSUME NEW f, NEW S, IsFiniteSet(S), \A x \in S : f[x] \in Nat
  PROVE  SumFunctionOnSet(f, S) \in Nat
BY SumIsUnits, UnitsFinite

\* Only the values on S matter.
LEMMA SumSame ==
  ASSUME NEW f, NEW g, NEW S, IsFiniteSet(S), \A x \in S : f[x] \in Nat,
         \A x \in S : f[x] = g[x]
  PROVE  SumFunctionOnSet(f, S) = SumFunctionOnSet(g, S)
<1>1. Units(f, S) = Units(g, S)
  BY DEF Units
<1>2. SumFunctionOnSet(f, S) = Cardinality(Units(f, S))
  BY SumIsUnits
<1>3. SumFunctionOnSet(g, S) = Cardinality(Units(g, S))
  BY SumIsUnits
<1> QED BY <1>1, <1>2, <1>3

\* The sum over two sets without a common element.
LEMMA SumUnion ==
  ASSUME NEW f, NEW A, NEW B, IsFiniteSet(A), IsFiniteSet(B), A \cap B = {},
         \A x \in A \cup B : f[x] \in Nat
  PROVE  SumFunctionOnSet(f, A \cup B) =
           SumFunctionOnSet(f, A) + SumFunctionOnSet(f, B)
<1>1. IsFiniteSet(A \cup B)
  BY FS_Union
<1>2. /\ SumFunctionOnSet(f, A \cup B) = Cardinality(Units(f, A \cup B))
      /\ SumFunctionOnSet(f, A) = Cardinality(Units(f, A))
      /\ SumFunctionOnSet(f, B) = Cardinality(Units(f, B))
  BY <1>1, SumIsUnits
<1>3. IsFiniteSet(Units(f, A)) /\ IsFiniteSet(Units(f, B))
  BY UnitsFinite
<1>4. Cardinality(Units(f, A \cup B)) =
        Cardinality(Units(f, A)) + Cardinality(Units(f, B))
  BY <1>3, UnitsUnion
<1> QED BY <1>2, <1>4

\* The sum over one element.
LEMMA SumSingle ==
  ASSUME NEW f, NEW x, f[x] \in Nat
  PROVE  SumFunctionOnSet(f, {x}) = f[x]
<1>1. IsFiniteSet({x})
  BY FS_Singleton
<1>2. SumFunctionOnSet(f, {x}) = Cardinality(Units(f, {x}))
  BY <1>1, SumIsUnits
<1> QED BY <1>2, UnitsSingle

\* One element more.
LEMMA SumAdd ==
  ASSUME NEW f, NEW S, IsFiniteSet(S), NEW x, x \notin S,
         \A y \in S \cup {x} : f[y] \in Nat
  PROVE  SumFunctionOnSet(f, S \cup {x}) = SumFunctionOnSet(f, S) + f[x]
<1>1. IsFiniteSet({x})
  BY FS_Singleton
<1>2. SumFunctionOnSet(f, S \cup {x}) =
        SumFunctionOnSet(f, S) + SumFunctionOnSet(f, {x})
  BY <1>1, SumUnion
<1> QED BY <1>2, SumSingle

\* A part and the rest.
LEMMA SumSplit ==
  ASSUME NEW f, NEW S, IsFiniteSet(S), NEW T, T \subseteq S,
         \A x \in S : f[x] \in Nat
  PROVE  /\ SumFunctionOnSet(f, S) =
              SumFunctionOnSet(f, T) + SumFunctionOnSet(f, S \ T)
         /\ SumFunctionOnSet(f, T) \in Nat
         /\ SumFunctionOnSet(f, S \ T) \in Nat
<1>1. IsFiniteSet(T) /\ IsFiniteSet(S \ T)
  BY FS_Subset
<1>2. T \cup (S \ T) = S
  OBVIOUS
<1>3. SumFunctionOnSet(f, T \cup (S \ T)) =
        SumFunctionOnSet(f, T) + SumFunctionOnSet(f, S \ T)
  BY <1>1, SumUnion
<1>4. SumFunctionOnSet(f, T) \in Nat /\ SumFunctionOnSet(f, S \ T) \in Nat
  BY <1>1, SumNat
<1> QED BY <1>2, <1>3, <1>4

\* No part exceeds the whole.
LEMMA SumPart ==
  ASSUME NEW f, NEW S, IsFiniteSet(S), NEW T, T \subseteq S,
         \A x \in S : f[x] \in Nat
  PROVE  SumFunctionOnSet(f, T) <= SumFunctionOnSet(f, S)
<1>1. /\ SumFunctionOnSet(f, S) =
           SumFunctionOnSet(f, T) + SumFunctionOnSet(f, S \ T)
      /\ SumFunctionOnSet(f, T) \in Nat
      /\ SumFunctionOnSet(f, S \ T) \in Nat
  BY SumSplit
<1> QED BY <1>1

\* Values that are sums of two.
LEMMA SumPlus ==
  ASSUME NEW S, IsFiniteSet(S), NEW f, NEW g, NEW h,
         \A x \in S : f[x] \in Nat /\ h[x] \in Nat,
         \A x \in S : g[x] = f[x] + h[x]
  PROVE  SumFunctionOnSet(g, S) =
           SumFunctionOnSet(f, S) + SumFunctionOnSet(h, S)
<1> DEFINE Adds(T) == SumFunctionOnSet(g, T) =
                        SumFunctionOnSet(f, T) + SumFunctionOnSet(h, T)
           bad == {T \in SUBSET S : ~Adds(T)}
<1>1. \A x \in S : g[x] \in Nat
  OBVIOUS
<1>2. SUFFICES bad = {}
  <2>1. S \in SUBSET S
    OBVIOUS
  <2> QED
    BY <2>1
<1>3. ASSUME NEW T \in bad, \A V \in SUBSET T : V # T => V \notin bad
      PROVE  FALSE
  <2>1. T # {}
    <3>1. /\ SumFunctionOnSet(g, {}) = 0 /\ SumFunctionOnSet(f, {}) = 0
          /\ SumFunctionOnSet(h, {}) = 0
      BY SumEmpty
    <3>2. Adds({}) /\ ~Adds(T)
      BY <3>1
    <3> HIDE DEF Adds
    <3> QED
      BY <3>2
  <2>2. PICK x \in T : TRUE
    BY <2>1
  <2> DEFINE V == T \ {x}
  <2>3. T = V \cup {x} /\ x \notin V /\ V \in SUBSET S
    OBVIOUS
  <2>4. IsFiniteSet(V)
    BY <2>3, FS_Subset
  <2>5. Adds(V)
    BY <1>3, <2>2, <2>3
  <2> HIDE DEF V
  <2>6. \A y \in V \cup {x} : f[y] \in Nat /\ g[y] \in Nat /\ h[y] \in Nat
    BY <1>1, <2>3
  <2>7. /\ SumFunctionOnSet(g, T) = SumFunctionOnSet(g, V) + g[x]
        /\ SumFunctionOnSet(f, T) = SumFunctionOnSet(f, V) + f[x]
        /\ SumFunctionOnSet(h, T) = SumFunctionOnSet(h, V) + h[x]
    BY <2>3, <2>4, <2>6, SumAdd
  <2>8. /\ SumFunctionOnSet(f, V) \in Nat /\ SumFunctionOnSet(h, V) \in Nat
        /\ f[x] \in Nat /\ h[x] \in Nat /\ g[x] = f[x] + h[x]
    BY <2>2, <2>4, <2>6, SumNat
  <2>9. Adds(T)
    BY <2>5, <2>7, <2>8
  <2> QED
    BY <2>9
<1> HIDE DEF bad
<1>4. CASE bad # {}
  <2>1. bad \in SUBSET (SUBSET S)
    BY DEF bad
  <2>2. \E T \in bad : \A V \in SUBSET T : V # T => V \notin bad
    BY <1>4, <2>1, SmallestCounterexample
  <2> QED
    BY <1>3, <2>2
<1> QED
  BY <1>4

\* Values that are multiples.
LEMMA SumTimes ==
  ASSUME NEW S, IsFiniteSet(S), NEW c \in Nat, NEW g, NEW h,
         \A x \in S : h[x] \in Nat,
         \A x \in S : g[x] = c * h[x]
  PROVE  SumFunctionOnSet(g, S) = c * SumFunctionOnSet(h, S)
<1> DEFINE Scales(T) == SumFunctionOnSet(g, T) = c * SumFunctionOnSet(h, T)
           bad == {T \in SUBSET S : ~Scales(T)}
<1>1. \A x \in S : g[x] \in Nat
  OBVIOUS
<1>2. SUFFICES bad = {}
  <2>1. S \in SUBSET S
    OBVIOUS
  <2> QED
    BY <2>1
<1>3. ASSUME NEW T \in bad, \A V \in SUBSET T : V # T => V \notin bad
      PROVE  FALSE
  <2>1. T # {}
    <3>1. SumFunctionOnSet(g, {}) = 0 /\ SumFunctionOnSet(h, {}) = 0
      BY SumEmpty
    <3>2. Scales({}) /\ ~Scales(T)
      BY <3>1
    <3> HIDE DEF Scales
    <3> QED
      BY <3>2
  <2>2. PICK x \in T : TRUE
    BY <2>1
  <2> DEFINE V == T \ {x}
  <2>3. T = V \cup {x} /\ x \notin V /\ V \in SUBSET S
    OBVIOUS
  <2>4. IsFiniteSet(V)
    BY <2>3, FS_Subset
  <2>5. Scales(V)
    BY <1>3, <2>2, <2>3
  <2> HIDE DEF V
  <2>6. \A y \in V \cup {x} : g[y] \in Nat /\ h[y] \in Nat
    BY <1>1, <2>3
  <2>7. /\ SumFunctionOnSet(g, T) = SumFunctionOnSet(g, V) + g[x]
        /\ SumFunctionOnSet(h, T) = SumFunctionOnSet(h, V) + h[x]
    BY <2>3, <2>4, <2>6, SumAdd
  <2>8. /\ SumFunctionOnSet(h, V) \in Nat /\ h[x] \in Nat /\ g[x] = c * h[x]
    BY <2>2, <2>4, <2>6, SumNat
  <2>9. c * (SumFunctionOnSet(h, V) + h[x]) =
          c * SumFunctionOnSet(h, V) + c * h[x]
    BY <2>8
  <2>10. Scales(T)
    BY <2>5, <2>7, <2>8, <2>9
  <2> QED
    BY <2>10
<1> HIDE DEF bad
<1>4. CASE bad # {}
  <2>1. bad \in SUBSET (SUBSET S)
    BY DEF bad
  <2>2. \E T \in bad : \A V \in SUBSET T : V # T => V \notin bad
    BY <1>4, <2>1, SmallestCounterexample
  <2> QED
    BY <1>3, <2>2
<1> QED
  BY <1>4

\* Values that cover those of another function.
LEMMA SumCovers ==
  ASSUME NEW S, IsFiniteSet(S), NEW f, NEW h,
         \A x \in S : f[x] \in Nat /\ h[x] \in Nat /\ h[x] <= f[x]
  PROVE  SumFunctionOnSet(h, S) <= SumFunctionOnSet(f, S)
<1> DEFINE rest == [x \in S |-> f[x] - h[x]]
<1>1. \A x \in S : rest[x] \in Nat /\ h[x] \in Nat
  OBVIOUS
<1>2. \A x \in S : f[x] = rest[x] + h[x]
  OBVIOUS
<1> HIDE DEF rest
<1>3. SumFunctionOnSet(f, S) =
        SumFunctionOnSet(rest, S) + SumFunctionOnSet(h, S)
  BY <1>1, <1>2, SumPlus
<1>4. SumFunctionOnSet(rest, S) \in Nat /\ SumFunctionOnSet(h, S) \in Nat
  BY <1>1, SumNat
<1> QED
  BY <1>3, <1>4

\* One value changes.
LEMMA SumChange ==
  ASSUME NEW S, IsFiniteSet(S), NEW f, NEW g, NEW u \in S,
         \A x \in S : f[x] \in Nat /\ g[x] \in Nat /\ (x # u => g[x] = f[x])
  PROVE  SumFunctionOnSet(g, S) = SumFunctionOnSet(f, S) + (g[u] - f[u])
<1> DEFINE V == S \ {u}
<1>1. S = V \cup {u} /\ u \notin V
  OBVIOUS
<1>2. IsFiniteSet(V)
  BY FS_Subset
<1> HIDE DEF V
<1>3. \A x \in V \cup {u} : f[x] \in Nat /\ g[x] \in Nat
  BY <1>1
<1>4. /\ SumFunctionOnSet(f, S) = SumFunctionOnSet(f, V) + f[u]
      /\ SumFunctionOnSet(g, S) = SumFunctionOnSet(g, V) + g[u]
  BY <1>1, <1>2, <1>3, SumAdd
<1>5. SumFunctionOnSet(f, V) = SumFunctionOnSet(g, V)
  <2>1. \A x \in V : f[x] \in Nat /\ f[x] = g[x]
    BY <1>1
  <2> QED
    BY <1>2, <2>1, SumSame
<1>6. SumFunctionOnSet(f, V) \in Nat /\ f[u] \in Nat /\ g[u] \in Nat
  BY <1>1, <1>2, <1>3, SumNat
<1> QED
  BY <1>4, <1>5, <1>6

-----------------------------------------------------------------------------
\* Induction over the natural numbers, with the set of those that have the
\* property in the place of the property: of the intervals that end outside of
\* it, none would be the smallest.
LEMMA Counting ==
  ASSUME NEW S, 0 \in S, \A n \in Nat : n \in S => n + 1 \in S
  PROVE  Nat \subseteq S
<1> SUFFICES ASSUME NEW x \in Nat, x \notin S PROVE FALSE
  OBVIOUS
<1> DEFINE U == 0 .. x
           T == {0 .. k : k \in U \ S}
           R == StrictSubsetOrdering(U)
<1>1. IsWellFoundedOn(R, SUBSET U)
  <2>1. IsFiniteSet(U)
    BY FS_Interval
  <2> QED
    BY <2>1, FS_StrictSubsetOrderingWellFounded, FS_FiniteSubsetsOfFinite
<1>2. T \subseteq SUBSET U /\ T # {}
  OBVIOUS
<1>3. PICK V \in T : \A W \in T : ~ (<<W, V>> \in R)
  <2> HIDE DEF T, R, U
  <2> QED
    BY <1>1, <1>2, WFMin
<1>4. PICK k \in U \ S : V = 0 .. k
  OBVIOUS
<1>5. k # 0 /\ k - 1 \in U \ S /\ 0 .. (k - 1) \in T
  OBVIOUS
<1>6. 0 .. (k - 1) \subseteq 0 .. k /\ 0 .. (k - 1) # 0 .. k
  BY <1>5
<1>7. <<0 .. (k - 1), V>> \in R
  BY <1>2, <1>4, <1>5, <1>6 DEF StrictSubsetOrdering
<1> QED
  BY <1>3, <1>5, <1>7

=============================================================================
