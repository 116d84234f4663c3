------------------------------ MODULE Counting ------------------------------
(***************************************************************************)
(* What the proofs need to know of sums, and of lists that name things.    *)
(*                                                                         *)
(* The invariants about money are sums of natural numbers over finite      *)
(* sets.  A sum is a fold, that is a recursive function on the subsets of  *)
(* the set.  It is shown to count the pairs <<x, i>> with i < f[x], so     *)
(* that what a sum does when its function or its set changes follows from  *)
(* facts about cardinalities.                                              *)
(*                                                                         *)
(* The contracts keep lists beside the entries they name, and rebuild a    *)
(* list without one of its elements in a loop.                             *)
(*                                                                         *)
(* Induction, over subsets as over positions, is done by choosing a        *)
(* smallest counterexample.                                                *)
(***************************************************************************)
EXTENDS Integers, Sequences, FiniteSets, FiniteSetsExt, FiniteSetTheorems,
        TLAPS

\* The sum of f[x] for x in S.
SumOver(f, S) == MapThenSumSet(LAMBDA x : f[x], S)

-----------------------------------------------------------------------------
(* A sum counts units.                                                     *)

Units(f, S) == {u \in S \X Nat : u[2] < f[u[1]]}

\* Nothing to count in the empty set.
LEMMA UnitsEmpty == \A f : Units(f, {}) = {}
    BY DEF Units

\* A new element x adds f[x] units.
LEMMA UnitsAdd ==
    ASSUME NEW S, NEW x, x \notin S, NEW f, f[x] \in Nat,
           IsFiniteSet(Units(f, S))
    PROVE  /\ IsFiniteSet(Units(f, S \cup {x}))
           /\ Cardinality(Units(f, S \cup {x})) = Cardinality(Units(f, S)) + f[x]
<1> DEFINE X == {x} \X (0 .. f[x] - 1)
<1>1. Units(f, S \cup {x}) = Units(f, S) \cup X
    BY DEF Units
<1>2. Units(f, S) \cap X = {}
    BY DEF Units
<1>3. IsFiniteSet({x}) /\ Cardinality({x}) = 1
    BY FS_Singleton
<1>4. IsFiniteSet(0 .. f[x] - 1) /\ Cardinality(0 .. f[x] - 1) = f[x]
    BY FS_Interval
<1>5. IsFiniteSet(X) /\ Cardinality(X) = f[x]
    <2>1. /\ IsFiniteSet(X)
          /\ Cardinality(X) = Cardinality({x}) * Cardinality(0 .. f[x] - 1)
        BY <1>3, <1>4, FS_Product, Zenon
    <2> HIDE DEF X
    <2> QED
        BY <2>1, <1>3, <1>4
<1> HIDE DEF X
<1>6. /\ IsFiniteSet(Units(f, S) \cup X)
      /\ Cardinality(Units(f, S) \cup X) =
           Cardinality(Units(f, S)) + Cardinality(X) - Cardinality(Units(f, S) \cap X)
    BY <1>5, FS_Union
<1>7. Cardinality(Units(f, S)) \in Nat
    BY FS_CardinalityType
<1>8. Cardinality({}) = 0
    BY FS_EmptySet
<1>9. Cardinality(Units(f, S) \cup X) = Cardinality(Units(f, S)) + f[x]
    <2>1. \A a, b \in Nat : a + b - 0 = a + b
        OBVIOUS
    <2>2. Cardinality(Units(f, S) \cup X) = Cardinality(Units(f, S)) + f[x] - 0
        BY <1>2, <1>5, <1>6, <1>8, Zenon
    <2> QED
        BY <2>1, <2>2, <1>7, Zenon
<1> QED
    BY <1>1, <1>6, <1>9, Zenon

\* A nonempty collection of subsets of a finite set has a smallest member: no
\* member is a proper part of it.
LEMMA SmallestSubset ==
    ASSUME NEW S, IsFiniteSet(S), NEW Bad, Bad \subseteq SUBSET S, Bad # {}
    PROVE  \E T \in Bad : \A x \in T : T \ {x} \notin Bad
<1>1. IsWellFoundedOn(StrictSubsetOrdering(S), FiniteSubsetsOf(S))
    BY FS_StrictSubsetOrderingWellFounded
<1>2. Bad \subseteq FiniteSubsetsOf(S)
    BY FS_FiniteSubsetsOfFinite
<1>3. PICK T \in Bad : \A U \in Bad : ~(<<U, T>> \in StrictSubsetOrdering(S))
    BY <1>1, <1>2, WFMin, Zenon
<1>4. \A x \in T : <<T \ {x}, T>> \in StrictSubsetOrdering(S)
    BY DEF StrictSubsetOrdering
<1> QED
    BY <1>3, <1>4, Zenon

\* A finite set of natural numbers of units is finite.
LEMMA UnitsFinite ==
    ASSUME NEW S, IsFiniteSet(S), NEW f, \A x \in S : f[x] \in Nat
    PROVE  \A T \in SUBSET S : IsFiniteSet(Units(f, T))
<1> DEFINE Bad == {T \in SUBSET S : ~IsFiniteSet(Units(f, T))}
<1> SUFFICES ASSUME Bad # {}
             PROVE  FALSE
    OBVIOUS
<1>1. PICK T \in Bad : \A x \in T : T \ {x} \notin Bad
    <2>1. Bad \subseteq SUBSET S
        OBVIOUS
    <2> HIDE DEF Bad
    <2> QED
        BY <2>1, SmallestSubset, Zenon
<1>2. T # {}
    BY UnitsEmpty, FS_EmptySet
<1>3. PICK x \in T : TRUE
    BY <1>2
<1>4. IsFiniteSet(Units(f, T \ {x}))
    BY <1>1, <1>3
<1>5. IsFiniteSet(Units(f, (T \ {x}) \cup {x}))
    BY <1>4, UnitsAdd
<1>6. (T \ {x}) \cup {x} = T
    BY <1>3
<1> QED
    BY <1>5, <1>6

\* The fold is the number of units: both satisfy the recursive equation, which
\* has one solution.
LEMMA SumIsCount ==
    ASSUME NEW S, IsFiniteSet(S), NEW f, \A x \in S : f[x] \in Nat
    PROVE  SumOver(f, S) = Cardinality(Units(f, S))
<1> DEFINE Pick(s) == CHOOSE x \in s : TRUE
           Step(g) == [s \in SUBSET S |->
                          IF s = {} THEN 0 ELSE f[Pick(s)] + g[s \ {Pick(s)}]]
           count == [s \in SUBSET S |-> Cardinality(Units(f, s))]
           iter == CHOOSE g : g = Step(g)
<1>1. SumOver(f, S) = iter[S]
    BY DEF SumOver, MapThenSumSet, MapThenFoldSet
<1>2. count = Step(count)
    <2>1. SUFFICES ASSUME NEW s \in SUBSET S
                   PROVE  count[s] = IF s = {} THEN 0
                                     ELSE f[Pick(s)] + count[s \ {Pick(s)}]
        OBVIOUS
    <2>2. CASE s = {}
        BY <2>2, UnitsEmpty, FS_EmptySet
    <2>3. CASE s # {}
        <3> DEFINE x == Pick(s)
        <3>1. x \in s
            BY <2>3
        <3>2. IsFiniteSet(Units(f, s \ {x}))
            BY UnitsFinite
        <3>3. Cardinality(Units(f, (s \ {x}) \cup {x})) = Cardinality(Units(f, s \ {x})) + f[x]
            BY <3>1, <3>2, UnitsAdd
        <3>4. (s \ {x}) \cup {x} = s
            BY <3>1
        <3>5. Cardinality(Units(f, s \ {x})) \in Nat
            BY <3>2, FS_CardinalityType
        <3>6. f[x] \in Nat
            BY <3>1
        <3>7. Cardinality(Units(f, s)) = f[x] + Cardinality(Units(f, s \ {x}))
            <4>1. \A a, b \in Nat : a + b = b + a
                OBVIOUS
            <4> HIDE DEF x
            <4> QED
                BY <4>1, <3>3, <3>4, <3>5, <3>6, Zenon
        <3>8. count[s] = f[x] + count[s \ {x}]
            BY <3>7, Zenon
        <3> QED
            BY <3>8, <2>3, Zenon
    <2> QED
        BY <2>2, <2>3
<1>3. iter = Step(iter)
    BY <1>2
<1> HIDE DEF iter
<1>4. ASSUME NEW s \in SUBSET S
      PROVE  iter[s] = count[s]
    <2> DEFINE Bad == {t \in SUBSET S : iter[t] # count[t]}
    <2> SUFFICES ASSUME Bad # {}
                 PROVE  FALSE
        OBVIOUS
    <2>1. PICK t \in Bad : \A x \in t : t \ {x} \notin Bad
        <3>1. Bad \subseteq SUBSET S
            OBVIOUS
        <3> HIDE DEF Bad
        <3> QED
            BY <3>1, SmallestSubset, Zenon
    <2> HIDE DEF Pick, count
    <2>2. iter[t] = IF t = {} THEN 0 ELSE f[Pick(t)] + iter[t \ {Pick(t)}]
        BY <1>3
    <2>3. count[t] = IF t = {} THEN 0 ELSE f[Pick(t)] + count[t \ {Pick(t)}]
        BY <1>2
    <2>4. t # {} => Pick(t) \in t
        BY DEF Pick
    <2>5. t # {} => t \ {Pick(t)} \in SUBSET S /\ t \ {Pick(t)} \notin Bad
        BY <2>1, <2>4
    <2> QED
        BY <2>2, <2>3, <2>5, Zenon
<1> QED
    BY <1>1, <1>4
-----------------------------------------------------------------------------
(* How a sum changes with its set and its function.                        *)

\* A sum of natural numbers is one.
LEMMA SumType ==
    ASSUME NEW S, IsFiniteSet(S), NEW f, \A x \in S : f[x] \in Nat
    PROVE  SumOver(f, S) \in Nat
<1>1. IsFiniteSet(Units(f, S))
    BY UnitsFinite, Zenon
<1> QED
    BY <1>1, SumIsCount, FS_CardinalityType, Zenon

\* The sum over nothing.
LEMMA SumEmpty == \A f : SumOver(f, {}) = 0
<1> TAKE f
<1>1. IsFiniteSet({}) /\ Cardinality({}) = 0
    BY FS_EmptySet
<1>2. SumOver(f, {}) = Cardinality(Units(f, {}))
    BY <1>1, SumIsCount, Zenon
<1> QED
    BY <1>1, <1>2, UnitsEmpty, Zenon

\* A new element adds its value.
LEMMA SumAdd ==
    ASSUME NEW S, IsFiniteSet(S), NEW x, x \notin S,
           NEW f, \A y \in S \cup {x} : f[y] \in Nat
    PROVE  SumOver(f, S \cup {x}) = SumOver(f, S) + f[x]
<1>1. IsFiniteSet(S \cup {x})
    BY FS_AddElement, Zenon
<1>2. IsFiniteSet(Units(f, S))
    BY UnitsFinite, Zenon
<1>3. SumOver(f, S \cup {x}) = Cardinality(Units(f, S \cup {x}))
    BY <1>1, SumIsCount, Zenon
<1>4. SumOver(f, S) = Cardinality(Units(f, S))
    BY SumIsCount, Zenon
<1>5. Cardinality(Units(f, S \cup {x})) = Cardinality(Units(f, S)) + f[x]
    BY <1>2, UnitsAdd, Zenon
<1> QED
    BY <1>3, <1>4, <1>5, Zenon

\* Taking an element out takes its value.
LEMMA SumRemove ==
    ASSUME NEW S, IsFiniteSet(S), NEW x \in S, NEW f, \A y \in S : f[y] \in Nat
    PROVE  SumOver(f, S) = SumOver(f, S \ {x}) + f[x]
<1>1. IsFiniteSet(S \ {x})
    BY FS_RemoveElement, Zenon
<1>2. S = (S \ {x}) \cup {x}
    OBVIOUS
<1>3. \A y \in (S \ {x}) \cup {x} : f[y] \in Nat
    BY <1>2, Zenon
<1>4. SumOver(f, (S \ {x}) \cup {x}) = SumOver(f, S \ {x}) + f[x]
    BY <1>1, <1>3, SumAdd, Zenon
<1> QED
    BY <1>2, <1>4, Zenon

\* A sum depends on the values in its set only.
LEMMA SumSame ==
    ASSUME NEW S, IsFiniteSet(S), NEW f, NEW g,
           \A x \in S : f[x] \in Nat /\ g[x] = f[x]
    PROVE  SumOver(g, S) = SumOver(f, S)
<1>1. Units(g, S) = Units(f, S)
    BY DEF Units
<1>2. SumOver(g, S) = Cardinality(Units(g, S))
    BY SumIsCount, Zenon
<1>3. SumOver(f, S) = Cardinality(Units(f, S))
    BY SumIsCount, Zenon
<1> QED
    BY <1>1, <1>2, <1>3, Zenon

\* Changing the value at one place changes the sum by the difference.
LEMMA SumChange ==
    ASSUME NEW S, IsFiniteSet(S), NEW x \in S, NEW f, NEW g,
           \A y \in S : f[y] \in Nat /\ g[y] \in Nat,
           \A y \in S : y # x => g[y] = f[y]
    PROVE  SumOver(g, S) + f[x] = SumOver(f, S) + g[x]
<1>1. IsFiniteSet(S \ {x})
    BY FS_RemoveElement, Zenon
<1>2. SumOver(g, S \ {x}) = SumOver(f, S \ {x})
    <2>1. \A y \in S \ {x} : f[y] \in Nat /\ g[y] = f[y]
        BY Zenon
    <2> QED
        BY <1>1, <2>1, SumSame, Zenon
<1>3. SumOver(g, S) = SumOver(g, S \ {x}) + g[x]
    BY SumRemove, Zenon
<1>4. SumOver(f, S) = SumOver(f, S \ {x}) + f[x]
    BY SumRemove, Zenon
<1>5. SumOver(f, S \ {x}) \in Nat
    BY <1>1, SumType, Zenon
<1>6. \A r, a, b \in Nat : (r + b) + a = (r + a) + b
    OBVIOUS
<1>7. (SumOver(f, S \ {x}) + g[x]) + f[x] = (SumOver(f, S \ {x}) + f[x]) + g[x]
    BY <1>5, <1>6, Zenon
<1> QED
    BY <1>2, <1>3, <1>4, <1>7, Zenon

\* The same for a change at two places.
LEMMA SumChangeTwo ==
    ASSUME NEW S, IsFiniteSet(S), NEW x \in S, NEW z \in S, x # z, NEW f, NEW g,
           \A y \in S : f[y] \in Nat /\ g[y] \in Nat,
           \A y \in S : y # x /\ y # z => g[y] = f[y]
    PROVE  SumOver(g, S) + (f[x] + f[z]) = SumOver(f, S) + (g[x] + g[z])
<1> DEFINE T == S \ {x}
<1>1. IsFiniteSet(T)
    BY FS_RemoveElement, Zenon
<1>2. SumOver(g, T) + f[z] = SumOver(f, T) + g[z]
    <2>1. z \in T
        BY Zenon
    <2>2. /\ \A y \in T : f[y] \in Nat /\ g[y] \in Nat
          /\ \A y \in T : y # z => g[y] = f[y]
        BY Zenon
    <2> HIDE DEF T
    <2> QED
        BY <1>1, <2>1, <2>2, SumChange
<1>3. SumOver(g, S) = SumOver(g, T) + g[x]
    BY SumRemove, Zenon
<1>4. SumOver(f, S) = SumOver(f, T) + f[x]
    BY SumRemove, Zenon
<1>5. SumOver(f, T) \in Nat /\ SumOver(g, T) \in Nat
    BY <1>1, SumType, Zenon
<1> HIDE DEF T
<1>6. (SumOver(g, T) + g[x]) + (f[x] + f[z]) = (SumOver(f, T) + f[x]) + (g[x] + g[z])
    <2>1. f[x] \in Nat /\ f[z] \in Nat /\ g[x] \in Nat /\ g[z] \in Nat
        BY Zenon
    <2> QED
        BY <1>2, <1>5, <2>1, SMT
<1> QED
    BY <1>3, <1>4, <1>6, Zenon

\* Larger values make a larger sum.
LEMMA SumMonotone ==
    ASSUME NEW S, IsFiniteSet(S), NEW f, NEW g,
           \A x \in S : f[x] \in Nat /\ g[x] \in Nat /\ f[x] <= g[x]
    PROVE  SumOver(f, S) <= SumOver(g, S)
<1>1. Units(f, S) \in SUBSET Units(g, S)
    BY DEF Units
<1>2. IsFiniteSet(Units(g, S))
    BY UnitsFinite, Zenon
<1>3. Cardinality(Units(f, S)) <= Cardinality(Units(g, S))
    BY <1>1, <1>2, FS_Subset, Zenon
<1>4. SumOver(f, S) = Cardinality(Units(f, S))
    BY SumIsCount, Zenon
<1>5. SumOver(g, S) = Cardinality(Units(g, S))
    BY SumIsCount, Zenon
<1> QED
    BY <1>3, <1>4, <1>5, Zenon

\* No value exceeds the sum.
LEMMA SumMember ==
    ASSUME NEW S, IsFiniteSet(S), NEW x \in S, NEW f, \A y \in S : f[y] \in Nat
    PROVE  f[x] <= SumOver(f, S)
<1>1. IsFiniteSet(S \ {x})
    BY FS_RemoveElement, Zenon
<1>2. SumOver(f, S) = SumOver(f, S \ {x}) + f[x]
    BY SumRemove, Zenon
<1>3. SumOver(f, S \ {x}) \in Nat
    BY <1>1, SumType, Zenon
<1>4. f[x] \in Nat
    BY Zenon
<1> QED
    BY <1>2, <1>3, <1>4, SMT

\* A sum of zeros.
LEMMA SumZero ==
    ASSUME NEW S, IsFiniteSet(S), NEW f, \A x \in S : f[x] = 0
    PROVE  SumOver(f, S) = 0
<1>1. Units(f, S) = {}
    BY DEF Units
<1>2. SumOver(f, S) = Cardinality(Units(f, S))
    BY SumIsCount
<1> QED
    BY <1>1, <1>2, FS_EmptySet, Zenon

\* A sum over a part of S is a sum over S in which the rest counts nothing.
LEMMA SumRestrict ==
    ASSUME NEW S, IsFiniteSet(S), NEW T \in SUBSET S, NEW f, NEW g,
           \A x \in T : f[x] \in Nat,
           \A x \in S : g[x] = IF x \in T THEN f[x] ELSE 0
    PROVE  SumOver(f, T) = SumOver(g, S)
<1>1. Units(f, T) = Units(g, S)
    BY DEF Units
<1>2. IsFiniteSet(T)
    BY FS_Subset, Zenon
<1>3. SumOver(f, T) = Cardinality(Units(f, T))
    BY <1>2, SumIsCount, Zenon
<1>4. \A x \in S : g[x] \in Nat
    OBVIOUS
<1>5. SumOver(g, S) = Cardinality(Units(g, S))
    BY <1>4, SumIsCount, Zenon
<1> QED
    BY <1>1, <1>3, <1>5, Zenon

\* The sum of a sum of functions.
LEMMA SumPlus ==
    ASSUME NEW S, IsFiniteSet(S), NEW f, NEW g, NEW h,
           \A x \in S : f[x] \in Nat /\ g[x] \in Nat /\ h[x] = f[x] + g[x]
    PROVE  SumOver(h, S) = SumOver(f, S) + SumOver(g, S)
<1> DEFINE Bad == {T \in SUBSET S : SumOver(h, T) # SumOver(f, T) + SumOver(g, T)}
<1> SUFFICES ASSUME Bad # {}
             PROVE  FALSE
    BY Zenon
<1>1. PICK T \in Bad : \A x \in T : T \ {x} \notin Bad
    <2>1. Bad \subseteq SUBSET S
        OBVIOUS
    <2> HIDE DEF Bad
    <2> QED
        BY <2>1, SmallestSubset, Zenon
<1>2. T \in SUBSET S /\ IsFiniteSet(T)
    BY FS_Subset
<1>3. T # {}
    BY SumEmpty
<1>4. PICK x \in T : TRUE
    BY <1>3
<1>5. /\ \A y \in T : f[y] \in Nat
      /\ \A y \in T : g[y] \in Nat
      /\ \A y \in T : h[y] \in Nat
    <2>1. \A y \in T : f[y] \in Nat /\ g[y] \in Nat /\ h[y] = f[y] + g[y]
        BY <1>2, Zenon
    <2> QED
        BY <2>1
<1>6. /\ SumOver(f, T) = SumOver(f, T \ {x}) + f[x]
      /\ SumOver(g, T) = SumOver(g, T \ {x}) + g[x]
      /\ SumOver(h, T) = SumOver(h, T \ {x}) + h[x]
    BY <1>2, <1>4, <1>5, SumRemove, Zenon
<1>7. SumOver(h, T \ {x}) = SumOver(f, T \ {x}) + SumOver(g, T \ {x})
    BY <1>1, <1>4, Zenon
<1>8. SumOver(f, T \ {x}) \in Nat /\ SumOver(g, T \ {x}) \in Nat
    <2>1. IsFiniteSet(T \ {x})
        BY <1>2, FS_RemoveElement, Zenon
    <2> QED
        BY <1>5, <2>1, SumType, Zenon
<1>9. f[x] \in Nat /\ g[x] \in Nat /\ h[x] = f[x] + g[x]
    BY <1>2, <1>4, Zenon
<1>10. SumOver(h, T) # SumOver(f, T) + SumOver(g, T)
    BY Zenon
<1> HIDE DEF Bad
<1> QED
    BY <1>6, <1>7, <1>8, <1>9, <1>10, SMT

\* A set with one more element.
LEMMA CountMore ==
    ASSUME NEW S, IsFiniteSet(S), NEW T, NEW x, x \notin S, x \in T,
           \A y : y # x => (y \in T <=> y \in S)
    PROVE  Cardinality(T) = Cardinality(S) + 1 /\ Cardinality(S) \in Nat
<1>1. T = S \cup {x}
    OBVIOUS
<1>2. Cardinality(S \cup {x}) = Cardinality(S) + 1
    BY FS_AddElement
<1> QED
    BY Zenon, <1>1, <1>2, FS_CardinalityType

\* A set with the same elements.
LEMMA CountSame ==
    ASSUME NEW S, IsFiniteSet(S), NEW T, NEW x, x \in T <=> x \in S,
           \A y : y # x => (y \in T <=> y \in S)
    PROVE  Cardinality(T) = Cardinality(S) /\ Cardinality(S) \in Nat
<1>1. T = S
    OBVIOUS
<1> QED
    BY Zenon, <1>1, FS_CardinalityType

-----------------------------------------------------------------------------
(* Lists that name things.                                                 *)

\* What a list names, and that it names nothing twice.
Named(list) == {list[i] : i \in DOMAIN list}
NamesOnce(list) == \A i, j \in DOMAIN list : i # j => list[i] # list[j]

\* The list without the entries equal to x, rebuilt one entry after the other.
Without(list, x) ==
    LET Kept[i \in 0..Len(list)] ==
            IF i = 0 THEN << >>
            ELSE IF list[i] = x THEN Kept[i - 1] ELSE Append(Kept[i - 1], list[i])
    IN  Kept[Len(list)]

\* Lists with the same entries are equal.
LEMMA SameList ==
    ASSUME NEW S, NEW s \in Seq(S), NEW t \in Seq(S), Len(s) = Len(t),
           \A i \in 1..Len(s) : s[i] = t[i]
    PROVE  s = t
    OBVIOUS

\* A non-empty set of natural numbers has a smallest element.
LEMMA Smallest ==
    ASSUME NEW T \in SUBSET Nat, T # {}
    PROVE  \E i \in T : \A j \in T : i <= j
<1> DEFINE R == OpToRel(<, Nat)
<1>1. IsWellFoundedOn(R, Nat)
  BY NatLessThanWellFounded
<1>2. PICK i \in T : \A j \in T : ~(<<j, i>> \in R)
  <2> HIDE DEF R
  <2> QED
    BY <1>1, WFMin, Zenon
<1>3. \A j \in T : ~(j < i)
  BY <1>2 DEF OpToRel
<1> QED
  BY <1>3

\* Removing an entry that a list holds once closes the gap it leaves.
LEMMA WithoutIs ==
    ASSUME NEW S, NEW s \in Seq(S), NEW k \in 1..Len(s),
           \A i \in 1..Len(s) : s[i] = s[k] => i = k
    PROVE  Without(s, s[k]) = [j \in 1..(Len(s) - 1) |-> IF j < k THEN s[j] ELSE s[j + 1]]
<1> DEFINE n == Len(s)
           len(i) == IF i < k THEN i ELSE i - 1
           entry(j) == IF j < k THEN s[j] ELSE s[j + 1]
           closed(i) == [j \in 1..len(i) |-> entry(j)]
           body(g, i) == IF i = 0 THEN << >>
                         ELSE IF s[i] = s[k] THEN g[i - 1]
                         ELSE Append(g[i - 1], s[i])
           step(g) == [i \in 0..n |-> body(g, i)]
           good == [i \in 0..n |-> closed(i)]
           kept == CHOOSE g : g = step(g)
<1>1. n \in Nat /\ k \in 1..n /\ \A i \in 1..n : s[i] \in S
  OBVIOUS
<1>2. ASSUME NEW i \in 0..n
      PROVE  /\ len(i) \in Nat /\ closed(i) \in Seq(S) /\ Len(closed(i)) = len(i)
             /\ \A j \in 1..len(i) : closed(i)[j] = entry(j) /\ entry(j) \in S
  <2>1. len(i) \in Nat /\ \A j \in 1..len(i) : entry(j) \in S
    BY <1>1
  <2>2. closed(i) \in [1..len(i) -> S]
    BY <2>1
  <2>3. closed(i) \in Seq(S)
    BY <2>1, <2>2
  <2>4. Len(closed(i)) = len(i)
    BY <2>1, <2>3
  <2> QED
    BY <2>1, <2>3, <2>4
<1>3. ASSUME NEW i \in 1..n
      PROVE  closed(i) = IF s[i] = s[k] THEN closed(i - 1) ELSE Append(closed(i - 1), s[i])
  <2>1. i - 1 \in 0..n /\ i \in 0..n
    BY <1>1
  <2>2. CASE i = k
    BY <2>2
  <2>3. CASE i # k
    <3>1. s[i] # s[k] /\ len(i) = len(i - 1) + 1 /\ entry(len(i)) = s[i]
      BY <1>1, <2>3
    <3>2. closed(i - 1) \in Seq(S) /\ Len(closed(i - 1)) = len(i - 1) /\ s[i] \in S
      BY <1>1, <1>2, <2>1
    <3>3. /\ Append(closed(i - 1), s[i]) \in Seq(S)
          /\ Len(Append(closed(i - 1), s[i])) = len(i)
          /\ \A j \in 1..len(i - 1) : Append(closed(i - 1), s[i])[j] = closed(i - 1)[j]
          /\ Append(closed(i - 1), s[i])[len(i)] = s[i]
      <4> DEFINE c == closed(i - 1)
      <4>1. c \in Seq(S) /\ Len(c) = len(i - 1) /\ s[i] \in S /\ len(i - 1) \in Nat
        BY <1>2, <2>1, <3>2
      <4> HIDE DEF c
      <4>2. /\ Append(c, s[i]) \in Seq(S) /\ Len(Append(c, s[i])) = Len(c) + 1
            /\ \A j \in 1..Len(c) : Append(c, s[i])[j] = c[j]
            /\ Append(c, s[i])[Len(c) + 1] = s[i]
        BY <4>1
      <4>3. /\ Append(c, s[i]) \in Seq(S) /\ Len(Append(c, s[i])) = len(i)
            /\ \A j \in 1..len(i - 1) : Append(c, s[i])[j] = c[j]
            /\ Append(c, s[i])[len(i)] = s[i]
        BY <3>1, <4>1, <4>2, Zenon
      <4> QED
        BY <4>3 DEF c
    <3>4. \A j \in 1..len(i) : closed(i)[j] = Append(closed(i - 1), s[i])[j]
      <4> SUFFICES ASSUME NEW j \in 1..len(i)
                   PROVE  closed(i)[j] = Append(closed(i - 1), s[i])[j]
        OBVIOUS
      <4>1. closed(i)[j] = entry(j)
        OBVIOUS
      <4>2. CASE j = len(i)
        BY <3>1, <3>3, <4>1, <4>2
      <4>3. CASE j # len(i)
        <5>1. j \in 1..len(i - 1)
          BY <1>2, <2>1, <3>1, <4>3
        <5>2. closed(i - 1)[j] = entry(j)
          BY <5>1
        <5> QED
          BY <3>3, <4>1, <5>1, <5>2, Zenon
      <4> QED
        BY <4>2, <4>3
    <3>5. closed(i) = Append(closed(i - 1), s[i])
      <4> HIDE DEF closed, entry
      <4> QED
        BY <1>2, <2>1, <3>3, <3>4, SameList
    <3> QED
      BY <3>1, <3>5, Zenon
  <2> QED
    BY <2>2, <2>3
<1>4. closed(0) = << >>
  BY <1>1
<1>5. good = step(good)
  <2>1. ASSUME NEW i \in 0..n
        PROVE  closed(i) = body(good, i)
    <3>1. CASE i = 0
      BY <1>4, <3>1
    <3>2. CASE i # 0
      <4>1. i \in 1..n /\ i - 1 \in 0..n
        BY <1>1, <3>2
      <4>2. good[i - 1] = closed(i - 1)
        BY <4>1, Zenon
      <4> HIDE DEF closed, good
      <4> QED
        BY <1>3, <3>2, <4>1, <4>2
    <3> QED
      BY <3>1, <3>2
  <2> HIDE DEF closed, body
  <2> QED
    BY <2>1, Zenon
<1>6. kept = step(kept)
  <2> HIDE DEF step, good
  <2> QED
    BY <1>5
<1>7. \A i \in 0..n : kept[i] = good[i]
  <2> DEFINE Bad == {i \in 0..n : kept[i] # good[i]}
  <2> SUFFICES ASSUME Bad # {}
               PROVE  FALSE
    OBVIOUS
  <2>1. Bad \in SUBSET Nat
    OBVIOUS
  <2>2. PICK i \in Bad : \A j \in Bad : i <= j
    <3> HIDE DEF Bad
    <3> QED
      BY <2>1, Smallest
  <2>3. i \in 0..n /\ kept[i] # good[i]
    BY <2>2
  <2>4. kept[i] = step(kept)[i] /\ good[i] = step(good)[i]
    <3> HIDE DEF step, kept, good
    <3> QED
      BY <1>5, <1>6
  <2>5. i # 0
    <3> HIDE DEF kept, good
    <3> QED
      BY <2>3, <2>4
  <2>6. i - 1 \in 0..n /\ i - 1 \notin Bad
    <3> HIDE DEF Bad
    <3> QED
      BY <1>1, <2>2, <2>3, <2>5
  <2>7. kept[i - 1] = good[i - 1]
    BY <2>6
  <2> HIDE DEF kept, good
  <2> QED
    BY <2>3, <2>4, <2>7
<1>8. Without(s, s[k]) = kept[n]
  BY DEF Without
<1>9. n \in 0..n /\ ~(n < k)
  BY <1>1
<1>10. kept[n] = closed(n)
  <2> HIDE DEF kept
  <2> QED
    BY <1>7, <1>9
<1>11. closed(n) = [j \in 1..(n - 1) |-> entry(j)]
  BY <1>9
<1> QED
  BY <1>8, <1>10, <1>11, Zenon

\* Removing an entry from a list that names it once leaves the others, once each.
LEMMA WithoutKeeps ==
    ASSUME NEW S, NEW s \in Seq(S), NamesOnce(s), NEW m \in Named(s)
    PROVE  /\ Without(s, m) \in Seq(S) /\ NamesOnce(Without(s, m))
           /\ Named(Without(s, m)) = Named(s) \ {m}
<1>1. /\ Len(s) \in Nat /\ DOMAIN s = 1..Len(s) /\ \A i \in 1..Len(s) : s[i] \in S
  OBVIOUS
<1>2. PICK k \in 1..Len(s) : s[k] = m
  BY <1>1 DEF Named
<1>3. \A i \in 1..Len(s) : s[i] = s[k] => i = k
  BY <1>1 DEF NamesOnce
<1> DEFINE n == Len(s) - 1
           entry(j) == IF j < k THEN s[j] ELSE s[j + 1]
           t == [j \in 1..n |-> entry(j)]
<1>4. Without(s, m) = t
  <2>1. Without(s, s[k]) = t
    BY <1>3, WithoutIs
  <2> QED
    BY <2>1, <1>2, Zenon
<1>5. n \in Nat /\ \A j \in 1..n : entry(j) \in S
  BY <1>1
<1>6. t \in Seq(S)
  <2>1. t \in [1..n -> S]
    BY <1>5
  <2> QED
    BY <1>5, <2>1
<1>7. DOMAIN t = 1..n /\ \A j \in 1..n : t[j] = entry(j)
  OBVIOUS
<1>8. NamesOnce(t)
  <2> SUFFICES ASSUME NEW i \in 1..n, NEW j \in 1..n, i # j
               PROVE  entry(i) # entry(j)
    <3> HIDE DEF t, entry
    <3> QED
      BY <1>7 DEF NamesOnce
  <2> DEFINE at(x) == IF x < k THEN x ELSE x + 1
  <2>1. at(i) \in 1..Len(s) /\ at(j) \in 1..Len(s) /\ at(i) # at(j)
    BY <1>1
  <2>2. entry(i) = s[at(i)] /\ entry(j) = s[at(j)]
    OBVIOUS
  <2> HIDE DEF at, entry
  <2> QED
    BY <1>1, <2>1, <2>2 DEF NamesOnce
<1>9. Named(t) = Named(s) \ {m}
  <2>1. Named(t) = {entry(j) : j \in 1..n}
    <3> HIDE DEF entry, n
    <3> QED
      BY <1>7, Zenon DEF Named
  <2>2. Named(s) = {s[i] : i \in 1..Len(s)}
    BY <1>1, Zenon DEF Named
  <2>3. ASSUME NEW j \in 1..n PROVE entry(j) \in Named(s) /\ entry(j) # m
    <3> DEFINE at == IF j < k THEN j ELSE j + 1
    <3>1. at \in 1..Len(s) /\ at # k
      BY <1>1
    <3>2. entry(j) = s[at]
      OBVIOUS
    <3> HIDE DEF at, entry
    <3> QED
      BY <1>2, <1>3, <2>2, <3>1, <3>2
  <2>4. ASSUME NEW i \in 1..Len(s), s[i] # m PROVE \E j \in 1..n : entry(j) = s[i]
    <3>1. i # k
      BY <1>2, <2>4
    <3>2. CASE i < k
      <4>1. i \in 1..n /\ entry(i) = s[i]
        BY <1>1, <3>2
      <4> QED
        BY <4>1, Zenon
    <3>3. CASE i > k
      <4>1. i - 1 \in 1..n /\ ~(i - 1 < k) /\ (i - 1) + 1 = i
        BY <1>1, <3>3
      <4>2. entry(i - 1) = s[i]
        BY <4>1
      <4> QED
        BY <4>1, <4>2, Zenon
    <3> QED
      BY <3>1, <3>2, <3>3
  <2> HIDE DEF entry, n
  <2>5. \A x : x \in Named(t) <=> x \in Named(s) \ {m}
    BY <2>1, <2>2, <2>3, <2>4, Zenon
  <2> QED
    BY <2>5, Zenon
<1> HIDE DEF t
<1> QED
  BY <1>4, <1>6, <1>8, <1>9, Zenon

\* Adding an entry that a list does not name yet.
LEMMA AppendKeeps ==
    ASSUME NEW S, NEW s \in Seq(S), NamesOnce(s), NEW m \in S, m \notin Named(s)
    PROVE  /\ Append(s, m) \in Seq(S) /\ NamesOnce(Append(s, m))
           /\ Named(Append(s, m)) = Named(s) \cup {m}
<1> DEFINE t == Append(s, m)
<1>1. Len(s) \in Nat /\ DOMAIN s = 1..Len(s)
  OBVIOUS
<1>2. /\ t \in Seq(S) /\ DOMAIN t = 1..(Len(s) + 1)
      /\ \A i \in 1..Len(s) : t[i] = s[i]
      /\ t[Len(s) + 1] = m
  OBVIOUS
<1> HIDE DEF t
<1>3. DOMAIN t = DOMAIN s \cup {Len(s) + 1} /\ Len(s) + 1 \notin DOMAIN s
  BY <1>1, <1>2
<1>4. \A i \in DOMAIN s : t[i] = s[i]
  BY <1>1, <1>2
<1>5. NamesOnce(t)
  BY <1>2, <1>3, <1>4, Zenon DEF NamesOnce, Named
<1>6. Named(t) = Named(s) \cup {m}
  <2>1. \A x : x \in Named(t) <=> x \in Named(s) \cup {m}
    BY <1>2, <1>3, <1>4, Zenon DEF Named
  <2> QED
    BY <2>1, Zenon
<1> QED
  BY <1>2, <1>5, <1>6 DEF t

\* Removing what a list does not name leaves it as it is.
LEMMA WithoutAbsent ==
    ASSUME NEW S, NEW s \in Seq(S), NEW x, x \notin Named(s)
    PROVE  Without(s, x) = s
<1> DEFINE n == Len(s)
           part(i) == SubSeq(s, 1, i)
           body(g, i) == IF i = 0 THEN << >>
                         ELSE IF s[i] = x THEN g[i - 1]
                         ELSE Append(g[i - 1], s[i])
           step(g) == [i \in 0..n |-> body(g, i)]
           good == [i \in 0..n |-> part(i)]
           kept == CHOOSE g : g = step(g)
<1>1. n \in Nat /\ \A i \in 1..n : s[i] \in S /\ s[i] # x
  BY DEF Named
<1>2. ASSUME NEW i \in 1..n
      PROVE  part(i) = Append(part(i - 1), s[i])
  <2>1. /\ part(i) \in Seq(S) /\ Len(part(i)) = i
        /\ \A j \in 1..i : part(i)[j] = s[j]
    BY <1>1
  <2>2. /\ part(i - 1) \in Seq(S) /\ Len(part(i - 1)) = i - 1
        /\ \A j \in 1..(i - 1) : part(i - 1)[j] = s[j]
    BY <1>1
  <2> DEFINE t == part(i - 1)
             u == part(i)
  <2>3. /\ t \in Seq(S) /\ Len(t) = i - 1 /\ \A j \in 1..(i - 1) : t[j] = s[j]
        /\ u \in Seq(S) /\ Len(u) = i /\ \A j \in 1..i : u[j] = s[j]
    BY <2>1, <2>2
  <2> HIDE DEF t, u
  <2>4. /\ Append(t, s[i]) \in Seq(S) /\ Len(Append(t, s[i])) = i
        /\ \A j \in 1..i : Append(t, s[i])[j] = s[j]
    BY <1>1, <2>3
  <2>5. u = Append(t, s[i])
    BY <2>3, <2>4
  <2> QED
    BY <2>5 DEF t, u
<1>3. part(0) = << >>
  BY <1>1
<1>4. part(n) = s
  <2>1. part(n) \in Seq(S) /\ Len(part(n)) = n /\ \A j \in 1..n : part(n)[j] = s[j]
    BY <1>1
  <2> QED
    BY <2>1
<1>5. good = step(good)
  <2>1. ASSUME NEW i \in 0..n
        PROVE  part(i) = body(good, i)
    <3>1. CASE i = 0
      BY <1>3, <3>1
    <3>2. CASE i # 0
      <4>1. i \in 1..n /\ i - 1 \in 0..n
        BY <1>1, <3>2
      <4>2. good[i - 1] = part(i - 1)
        BY <4>1, Zenon
      <4> HIDE DEF part, good
      <4> QED
        BY <1>1, <1>2, <3>2, <4>1, <4>2
    <3> QED
      BY <3>1, <3>2
  <2> HIDE DEF part, body
  <2> QED
    BY <2>1, Zenon
<1>6. kept = step(kept)
  <2> HIDE DEF step, good
  <2> QED
    BY <1>5
<1>7. \A i \in 0..n : kept[i] = good[i]
  <2> DEFINE Bad == {i \in 0..n : kept[i] # good[i]}
  <2> SUFFICES ASSUME Bad # {}
               PROVE  FALSE
    OBVIOUS
  <2>1. Bad \in SUBSET Nat
    OBVIOUS
  <2>2. PICK i \in Bad : \A j \in Bad : i <= j
    <3> HIDE DEF Bad
    <3> QED
      BY <2>1, Smallest
  <2>3. i \in 0..n /\ kept[i] # good[i]
    BY <2>2
  <2>4. kept[i] = step(kept)[i] /\ good[i] = step(good)[i]
    <3> HIDE DEF step, kept, good
    <3> QED
      BY <1>5, <1>6
  <2>5. i # 0
    <3> HIDE DEF kept, good
    <3> QED
      BY <2>3, <2>4
  <2>6. i - 1 \in 0..n /\ i - 1 \notin Bad
    <3> HIDE DEF Bad
    <3> QED
      BY <1>1, <2>2, <2>3, <2>5
  <2>7. kept[i - 1] = good[i - 1]
    BY <2>6
  <2> HIDE DEF kept, good
  <2> QED
    BY <2>3, <2>4, <2>7
<1>8. Without(s, x) = kept[n]
  BY DEF Without
<1>9. kept[n] = part(n)
  <2> HIDE DEF kept, part
  <2> QED
    BY <1>1, <1>7
<1> QED
  BY <1>4, <1>8, <1>9, Zenon

\* A list that names nothing twice is as long as what it names.
LEMMA LengthIsCount ==
    ASSUME NEW S, NEW s \in Seq(S), NamesOnce(s)
    PROVE  IsFiniteSet(Named(s)) /\ Cardinality(Named(s)) = Len(s)
<1>1. Len(s) \in Nat /\ DOMAIN s = 1..Len(s)
  OBVIOUS
<1>2. IsFiniteSet(1..Len(s)) /\ Cardinality(1..Len(s)) = Len(s)
  BY <1>1, FS_Interval
<1>3. s \in Bijection(1..Len(s), Named(s))
  BY <1>1 DEF Named, NamesOnce, Bijection, Injection, Surjection, IsInjective
<1>4. ExistsBijection(1..Len(s), Named(s))
  BY <1>3 DEF ExistsBijection
<1> QED
  BY <1>2, <1>4, FS_Bijection, Zenon

\* Removing an element, named or not, leaves the others, once each.
LEMMA WithoutNames ==
    ASSUME NEW S, NEW s \in Seq(S), NamesOnce(s), NEW x
    PROVE  /\ Without(s, x) \in Seq(S) /\ NamesOnce(Without(s, x))
           /\ Named(Without(s, x)) = Named(s) \ {x}
<1>1. CASE x \in Named(s)
  BY <1>1, WithoutKeeps
<1>2. CASE x \notin Named(s)
  <2>1. Without(s, x) = s
    BY <1>2, WithoutAbsent
  <2>2. Named(s) = Named(s) \ {x}
    BY <1>2
  <2> QED
    BY <2>1, <2>2, Zenon
<1> QED
  BY <1>1, <1>2

\* Appending to a list adds one name.
LEMMA AppendNames ==
    ASSUME NEW S, NEW s \in Seq(S), NEW x \in S
    PROVE  Append(s, x) \in Seq(S) /\ Named(Append(s, x)) = Named(s) \cup {x}
<1> DEFINE n == Len(s)
           t == Append(s, x)
<1>1. /\ n \in Nat /\ DOMAIN s = 1..n
      /\ t \in Seq(S) /\ DOMAIN t = 1..(n + 1) /\ t[n + 1] = x
      /\ \A i \in 1..n : t[i] = s[i]
  OBVIOUS
<1>2. 1..(n + 1) = (1..n) \cup {n + 1}
  BY <1>1
<1>3. Named(t) = Named(s) \cup {x}
  <2>1. ASSUME NEW y \in Named(t) PROVE y \in Named(s) \cup {x}
    <3>1. PICK i \in 1..(n + 1) : y = t[i]
      BY <1>1, Zenon DEF Named
    <3> HIDE DEF n, t
    <3> QED
      BY <1>1, <1>2, <3>1 DEF Named
  <2>2. ASSUME NEW y \in Named(s) \cup {x} PROVE y \in Named(t)
    <3> HIDE DEF n, t
    <3> QED
      BY <1>1, <1>2, <2>2 DEF Named
  <2> QED
    BY <2>1, <2>2
<1> QED
  BY <1>1, <1>3

\* Removing x from a list, however often it holds what it names, leaves just the
\* other names.
LEMMA WithoutAny ==
    ASSUME NEW S, NEW s \in Seq(S), NEW x
    PROVE  Without(s, x) \in Seq(S) /\ Named(Without(s, x)) = Named(s) \ {x}
<1> DEFINE n == Len(s)
           body(g, i) == IF i = 0 THEN << >>
                         ELSE IF s[i] = x THEN g[i - 1]
                         ELSE Append(g[i - 1], s[i])
           step(g) == [i \in 0..n |-> body(g, i)]
           kept == CHOOSE g : g = step(g)
           names(i) == {s[j] : j \in 1..i} \ {x}
           holds(g, i) == /\ g[i] \in Seq(S) /\ g[i] = body(g, i)
                          /\ Named(g[i]) = names(i)
           fits(g, k) == DOMAIN g = 0..k /\ \A i \in 0..k : holds(g, i)
<1>1. n \in Nat /\ DOMAIN s = 1..n /\ \A i \in 1..n : s[i] \in S
  OBVIOUS
<1>2. ASSUME NEW k \in 0..n, k # 0, NEW g, fits(g, k - 1)
      PROVE  \E h : fits(h, k)
  <2> DEFINE t == g[k - 1]
             last == IF s[k] = x THEN t ELSE Append(t, s[k])
             h == [i \in 0..k |-> IF i = k THEN last ELSE g[i]]
  <2>1. /\ k - 1 \in 0..(k - 1) /\ k \in 1..n /\ k \in 0..k /\ s[k] \in S
    BY <1>1, <1>2
  <2>2. t \in Seq(S) /\ Named(t) = names(k - 1)
    BY <1>2, <2>1
  <2>3. names(k) = (names(k - 1) \cup {s[k]}) \ {x}
    <3>1. 1..k = (1..(k - 1)) \cup {k}
      BY <2>1
    <3> QED
      BY <3>1, Zenon
  <2>4. last \in Seq(S) /\ Named(last) = names(k)
    <3> HIDE DEF t, names
    <3>1. CASE s[k] = x
      <4>1. x \notin names(k - 1)
        BY DEF names
      <4> QED
        BY <2>2, <2>3, <3>1, <4>1
    <3>2. CASE s[k] # x
      <4>1. Named(Append(t, s[k])) = Named(t) \cup {s[k]} /\ Append(t, s[k]) \in Seq(S)
        BY <2>1, <2>2, AppendNames
      <4>2. x \notin names(k - 1)
        BY DEF names
      <4> QED
        BY <2>2, <2>3, <3>2, <4>1, <4>2
    <3> QED
      BY <3>1, <3>2
  <2>5. DOMAIN h = 0..k /\ h[k] = last /\ \A i \in 0..(k - 1) : h[i] = g[i] /\ i # k
    <3> HIDE DEF last
    <3> QED
      BY <2>1
  <2> HIDE DEF h
  <2>6. holds(h, k)
    <3>1. h[k - 1] = t
      BY <2>1, <2>5
    <3>2. body(h, k) = last
      <4> HIDE DEF t
      <4> QED
        BY <1>2, <3>1
    <3> HIDE DEF last, body, names
    <3> QED
      BY <2>4, <2>5, <3>2
  <2>7. ASSUME NEW i \in 0..(k - 1) PROVE holds(h, i)
    <3>1. holds(g, i) /\ h[i] = g[i]
      BY <1>2, <2>5
    <3>2. body(h, i) = body(g, i)
      <4>1. CASE i = 0
        BY <4>1
      <4>2. CASE i # 0
        <5>1. i - 1 \in 0..(k - 1)
          BY <2>1, <4>2
        <5>2. h[i - 1] = g[i - 1]
          BY <2>5, <5>1
        <5> QED
          BY <5>2
      <4> QED
        BY <4>1, <4>2
    <3> HIDE DEF body, names
    <3> QED
      BY <3>1, <3>2
  <2>8. 0..k = (0..(k - 1)) \cup {k}
    BY <2>1
  <2> HIDE DEF holds
  <2>9. fits(h, k)
    BY <2>5, <2>6, <2>7, <2>8, Zenon
  <2> HIDE DEF fits
  <2> QED
    BY <2>9
<1>3. \E g : fits(g, 0)
  <2> DEFINE g == [i \in 0..0 |-> << >>]
  <2>1. 0..0 = {0} /\ 1..0 = {}
    OBVIOUS
  <2>2. g[0] = << >> /\ DOMAIN g = 0..0
    BY <2>1
  <2>3. << >> \in Seq(S) /\ Named(<< >>) = {}
    BY DEF Named
  <2>4. names(0) = {}
    BY <2>1
  <2>5. holds(g, 0)
    <3> HIDE DEF g, names
    <3> QED
      BY <2>2, <2>3, <2>4
  <2>6. fits(g, 0)
    <3> HIDE DEF holds, g
    <3> QED
      BY <2>1, <2>2, <2>5
  <2> HIDE DEF fits, g
  <2> QED
    BY <2>6
<1>4. \E g : fits(g, n)
  <2> DEFINE Bad == {k \in 0..n : ~(\E g : fits(g, k))}
  <2> HIDE DEF fits
  <2> SUFFICES ASSUME Bad # {}
               PROVE  FALSE
    BY <1>1
  <2>1. Bad \in SUBSET Nat
    BY <1>1
  <2>2. PICK k \in Bad : \A j \in Bad : k <= j
    <3> HIDE DEF Bad
    <3> QED
      BY <2>1, Smallest
  <2>3. k \in 0..n /\ ~(\E g : fits(g, k))
    BY <2>2
  <2>4. k # 0
    BY <1>3, <2>3
  <2>5. k - 1 \in 0..n /\ k - 1 \notin Bad
    <3> HIDE DEF Bad
    <3> QED
      BY <1>1, <2>2, <2>3, <2>4
  <2>6. \E g : fits(g, k - 1)
    BY <2>5
  <2> QED
    BY <1>2, <2>3, <2>4, <2>6
<1>5. PICK good : fits(good, n)
  BY <1>4
<1>6. good = step(good)
  <2>1. DOMAIN good = 0..n /\ \A i \in 0..n : good[i] = body(good, i)
    BY <1>5
  <2>2. good = [i \in DOMAIN good |-> good[i]]
    BY <1>5
  <2> HIDE DEF body
  <2> QED
    BY <2>1, <2>2, Zenon
<1>7. kept = step(kept)
  <2> HIDE DEF step
  <2> QED
    BY <1>6
<1>8. \A i \in 0..n : kept[i] = good[i]
  <2> DEFINE Bad == {i \in 0..n : kept[i] # good[i]}
  <2> SUFFICES ASSUME Bad # {}
               PROVE  FALSE
    OBVIOUS
  <2>1. Bad \in SUBSET Nat
    OBVIOUS
  <2>2. PICK i \in Bad : \A j \in Bad : i <= j
    <3> HIDE DEF Bad
    <3> QED
      BY <2>1, Smallest
  <2>3. i \in 0..n /\ kept[i] # good[i]
    BY <2>2
  <2>4. kept[i] = step(kept)[i] /\ good[i] = step(good)[i]
    <3> HIDE DEF step, kept
    <3> QED
      BY <1>6, <1>7
  <2>5. i # 0
    <3> HIDE DEF kept
    <3> QED
      BY <2>3, <2>4
  <2>6. i - 1 \in 0..n /\ i - 1 \notin Bad
    <3> HIDE DEF Bad
    <3> QED
      BY <1>1, <2>2, <2>3, <2>5
  <2>7. kept[i - 1] = good[i - 1]
    BY <2>6
  <2> HIDE DEF kept
  <2> QED
    BY <2>3, <2>4, <2>7
<1>9. Without(s, x) = kept[n]
  BY DEF Without
<1>10. kept[n] = good[n] /\ good[n] \in Seq(S) /\ Named(good[n]) = names(n)
  <2>1. n \in 0..n
    BY <1>1
  <2>2. holds(good, n)
    BY <1>5, <2>1
  <2> HIDE DEF kept, names
  <2> QED
    BY <1>8, <2>1, <2>2
<1>11. names(n) = Named(s) \ {x}
  BY <1>1 DEF Named
<1> HIDE DEF kept, names
<1> QED
  BY <1>9, <1>10, <1>11
=============================================================================
