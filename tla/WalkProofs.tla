------------------------------ MODULE WalkProofs ------------------------------
(***************************************************************************)
(* Proofs about the two paged queries of the event indexer: the history of *)
(* a player and the list of matches, both followed page by page while the  *)
(* tables change.                                                          *)
(***************************************************************************)
EXTENDS IndexerParts, Counting

(***************************************************************************)
(* The two paged queries.  Both list numbers in ascending order, and a     *)
(* walk holds a first part of the list it follows.                         *)
(***************************************************************************)
\* A list of the numbers of S, each once, the smaller before the larger.
InOrder(list, S) ==
    list \in Seq(S) /\ Len(list) = Cardinality(S) /\ Named(list) = S /\ Pages!Ascends(list)

\* The list part is how the list begins.
FirstPart(part, list) ==
    Len(part) <= Len(list) /\ \A i \in 1..Len(part) : part[i] = list[i]

\* The numbers T has besides those of S are larger.
Above(S, T) == S \subseteq T /\ T \subseteq Nat /\ \A x \in S, y \in T \ S : x < y

\* Paging and History list as the lemmas about lists do, and as each other.
LEMMA WalksAlike ==
    /\ \A s : Pages!Named(s) = Named(s) /\ Transactions!Named(s) = Named(s)
    /\ \A s : Transactions!NamesOnce(s) <=> NamesOnce(s)
    /\ \A S : Pages!Cardinality(S) = Cardinality(S)
    /\ \A S : Transactions!Cardinality(S) = Cardinality(S)
    /\ \A S : Transactions!Ascending(S) = Pages!Ascending(S)
<1>1. \A S : Pages!Cardinality(S) = Cardinality(S) /\ Transactions!Cardinality(S) = Cardinality(S)
  BY DEF Pages!Cardinality, Transactions!Cardinality, Cardinality
<1>2. \A S : Transactions!Ascending(S) = Pages!Ascending(S)
  BY DEF Transactions!Ascending, Pages!Ascending, Transactions!Ascends, Pages!Ascends,
     Transactions!Named, Pages!Named, Transactions!Cardinality, Pages!Cardinality
<1> QED
  BY <1>1, <1>2 DEF Pages!Named, Transactions!Named, Named, Transactions!NamesOnce, NamesOnce

\* A larger number at the end keeps a list in order.
LEMMA OrderGrows ==
    ASSUME NEW S, IsFiniteSet(S), S \subseteq Nat, NEW list, InOrder(list, S),
           NEW x \in Nat, \A y \in S : y < x
    PROVE  InOrder(Append(list, x), S \union {x})
<1>1. list \in Seq(S) /\ Len(list) \in Nat /\ Named(list) = S /\ Len(list) = Cardinality(S)
      /\ DOMAIN list = 1..Len(list) /\ \A i \in DOMAIN list : list[i] \in S
  BY DEF InOrder
<1>2. Cardinality(S \union {x}) = Cardinality(S) + 1
  BY FS_AddElement
<1> DEFINE long == Append(list, x)
<1>3. /\ long \in Seq(S \union {x}) /\ Len(long) = Len(list) + 1 /\ DOMAIN long = 1..(Len(list) + 1)
      /\ \A i \in 1..Len(list) : long[i] = list[i]
      /\ long[Len(list) + 1] = x
  <2>1. list \in Seq(S \union {x})
    BY <1>1
  <2> QED
    BY <2>1, <1>1
<1>4. Named(long) = S \union {x}
  <2>1. \A y \in S : \E i \in DOMAIN long : long[i] = y
    BY <1>1, <1>3 DEF Named
  <2>2. \A i \in DOMAIN long : long[i] \in S \union {x}
    BY <1>1, <1>3
  <2>3. x \in Named(long)
    BY <1>1, <1>3 DEF Named
  <2> QED
    BY <2>1, <2>2, <2>3 DEF Named
<1>5. Pages!Ascends(long)
  <2> SUFFICES ASSUME NEW i \in 1..(Len(list) + 1), NEW j \in 1..(Len(list) + 1), i < j
               PROVE  long[i] < long[j]
    BY <1>3 DEF Pages!Ascends
  <2>1. i \in 1..Len(list) /\ long[i] = list[i] /\ list[i] \in S
    BY <1>1, <1>3
  <2>2. CASE j = Len(list) + 1
    BY <2>1, <2>2, <1>3
  <2>3. CASE j \in 1..Len(list)
    BY <2>1, <2>3, <1>1, <1>3 DEF InOrder, Pages!Ascends
  <2> QED
    BY <2>2, <2>3, <1>1
<1> QED
  BY <1>1, <1>2, <1>3, <1>4, <1>5 DEF InOrder

\* The numbers of a set below a bound can be put in order.
LEMMA OrderExists ==
    ASSUME NEW b \in Nat, NEW S \in SUBSET (1..b)
    PROVE  \E list : InOrder(list, S)
<1> DEFINE Bad == {n \in Nat : \E T \in SUBSET (1..n) : ~\E list : InOrder(list, T)}
<1>1. SUFFICES ASSUME Bad # {} PROVE FALSE
  OBVIOUS
<1>2. PICK n \in Bad : \A j \in Bad : n <= j
  <2>1. Bad \in SUBSET Nat
    OBVIOUS
  <2> QED
    BY <1>1, <2>1, Smallest
<1>3. PICK T \in SUBSET (1..n) : ~\E list : InOrder(list, T)
  OBVIOUS
<1>4. n \in Nat /\ T \subseteq Nat /\ IsFiniteSet(T)
  <2>1. n \in Nat
    OBVIOUS
  <2>2. IsFiniteSet(1..n) /\ T \subseteq 1..n
    BY <2>1, FS_Interval
  <2>3. IsFiniteSet(T)
    BY <2>2, FS_Subset, Zenon
  <2> QED
    BY <2>1, <2>2, <2>3
<1>5. n # 0
  <2> SUFFICES ASSUME n = 0 PROVE FALSE
    OBVIOUS
  <2>1. T = {} /\ Cardinality(T) = 0
    <3>1. 1..n = {} /\ T \subseteq 1..n
      OBVIOUS
    <3>2. T = {}
      BY <3>1
    <3> QED
      BY <3>2, FS_EmptySet
  <2>2. << >> \in Seq(T) /\ Len(<< >>) = 0 /\ DOMAIN << >> = {}
    OBVIOUS
  <2>3. InOrder(<< >>, T)
    BY <2>1, <2>2 DEF InOrder, Named, Pages!Ascends
  <2> QED
    BY <2>3, <1>3
<1> DEFINE U == T \ {n}
<1>6. n - 1 \in Nat /\ U \in SUBSET (1..(n - 1)) /\ n - 1 \notin Bad
  BY <1>2, <1>4, <1>5
<1>7. PICK list : InOrder(list, U)
  BY <1>6
<1>8. IsFiniteSet(U) /\ U \subseteq Nat /\ \A y \in U : y < n
  BY <1>4, <1>6, FS_Subset
<1>9. InOrder(Append(list, n), U \union {n})
  <2> HIDE DEF U
  <2> QED
    BY <1>4, <1>7, <1>8, OrderGrows
<1>10. CASE n \in T
  BY <1>3, <1>9, <1>10
<1>11. CASE n \notin T
  BY <1>3, <1>7, <1>11
<1> QED
  BY <1>10, <1>11

\* So Ascending puts them in order.
LEMMA AscendingIs ==
    ASSUME NEW b \in Nat, NEW S \in SUBSET (1..b)
    PROVE  InOrder(Pages!Ascending(S), S)
<1>1. PICK list : InOrder(list, S)
  BY OrderExists
<1>2. list \in [1..Cardinality(S) -> S] /\ Named(list) = S /\ Pages!Ascends(list)
  BY <1>1 DEF InOrder
<1>3. Cardinality(S) \in Nat
  BY <1>1 DEF InOrder
<1> DEFINE a == Pages!Ascending(S)
<1>4. a \in [1..Cardinality(S) -> S] /\ Named(a) = S /\ Pages!Ascends(a)
  <2>1. a = CHOOSE l \in [1..Cardinality(S) -> S] : Named(l) = S /\ Pages!Ascends(l)
    BY WalksAlike DEF Pages!Ascending
  <2> QED
    BY <1>2, <2>1
<1> HIDE DEF a
<1>5. a \in Seq(S) /\ Len(a) = Cardinality(S)
  BY <1>3, <1>4
<1> QED
  BY <1>4, <1>5 DEF InOrder, a

\* When the numbers added to a set are above those it had, the list of the set
\* is a first part of the list of what it becomes.
LEMMA OrderPrefix ==
    ASSUME NEW S, NEW T, Above(S, T),
           NEW s, InOrder(s, S), NEW t, InOrder(t, T), Len(s) <= Len(t)
    PROVE  FirstPart(s, t)
<1>0. S \subseteq T /\ T \subseteq Nat /\ \A x \in S, y \in T \ S : x < y
  BY DEF Above
<1>1. /\ Len(s) \in Nat /\ DOMAIN s = 1..Len(s) /\ \A i \in 1..Len(s) : s[i] \in S
      /\ Len(t) \in Nat /\ DOMAIN t = 1..Len(t) /\ \A i \in 1..Len(t) : t[i] \in T
  BY DEF InOrder
<1>2. /\ \A i, j \in 1..Len(s) : i < j => s[i] < s[j]
      /\ \A i, j \in 1..Len(t) : i < j => t[i] < t[j]
  BY <1>1 DEF InOrder, Pages!Ascends
<1>3. /\ \A x \in S : \E i \in 1..Len(s) : s[i] = x
      /\ \A x \in T : \E i \in 1..Len(t) : t[i] = x
  BY <1>1 DEF InOrder, Named
<1> DEFINE Bad == {i \in 1..Len(s) : s[i] # t[i]}
<1>4. SUFFICES ASSUME Bad # {} PROVE FALSE
  BY DEF FirstPart
<1>5. PICK n \in Bad : \A j \in Bad : n <= j
  <2>1. Bad \in SUBSET Nat
    BY <1>1
  <2> QED
    BY <1>4, <2>1, Smallest
<1>6. n \in 1..Len(s) /\ n \in 1..Len(t) /\ s[n] # t[n]
  BY <1>1
<1>7. \A j \in 1..Len(s) : j < n => s[j] = t[j]
  BY <1>1, <1>5, <1>6
<1>8. s[n] \in Nat /\ t[n] \in Nat /\ s[n] \in S /\ t[n] \in T
  BY <1>0, <1>1, <1>6
<1>9. CASE s[n] < t[n]
  <2>1. PICK j \in 1..Len(t) : t[j] = s[n]
    BY <1>0, <1>3, <1>8
  <2>2. j < n
    <3>1. ~(n < j) /\ n # j
      BY <1>2, <1>6, <1>8, <1>9, <2>1
    <3> QED
      BY <3>1, <1>1, <1>6
  <2>3. j \in 1..Len(s) /\ s[j] = s[n] /\ s[j] < s[n]
    BY <1>1, <1>2, <1>6, <1>7, <2>1, <2>2
  <2> QED
    BY <2>3, <1>8
<1>10. CASE t[n] < s[n]
  <2>1. t[n] \in S
    BY <1>0, <1>8, <1>10
  <2>2. PICK j \in 1..Len(s) : s[j] = t[n]
    BY <1>3, <2>1
  <2>3. j < n
    <3>1. ~(n < j) /\ n # j
      BY <1>2, <1>6, <1>8, <1>10, <2>2
    <3> QED
      BY <3>1, <1>1, <1>6
  <2>4. j \in 1..Len(t) /\ t[j] = t[n] /\ t[j] < t[n]
    BY <1>1, <1>2, <1>6, <1>7, <2>2, <2>3
  <2> QED
    BY <2>4, <1>8
<1> QED
  BY <1>6, <1>8, <1>9, <1>10

\* The last number of an ascending list, where a walk with after goes on.
End(got) == IF got = << >> THEN 0 ELSE got[Len(got)]

\* What a sequence of members of a set is.
LEMMA ListIs ==
    ASSUME NEW S, NEW s \in Seq(S)
    PROVE  Len(s) \in Nat /\ DOMAIN s = 1..Len(s) /\ \A i \in 1..Len(s) : s[i] \in S
OBVIOUS

\* A sequence of members of a set is one of members of a larger set.
LEMMA ListOfMore ==
    ASSUME NEW S, NEW T, S \subseteq T, NEW s \in Seq(S)
    PROVE  s \in Seq(T)
OBVIOUS

\* What a list followed by another names.
LEMMA JoinedNames ==
    ASSUME NEW S, NEW s \in Seq(S), NEW t \in Seq(S)
    PROVE  Named(s \o t) = Named(s) \union Named(t)
<1>1. /\ Len(s) \in Nat /\ Len(t) \in Nat
      /\ DOMAIN s = 1..Len(s) /\ DOMAIN t = 1..Len(t) /\ DOMAIN (s \o t) = 1..(Len(s) + Len(t))
      /\ \A i \in 1..Len(s) : (s \o t)[i] = s[i]
      /\ \A i \in 1..Len(t) : (s \o t)[Len(s) + i] = t[i]
  OBVIOUS
<1>2. Named(s) \subseteq Named(s \o t)
  BY <1>1 DEF Named
<1>3. Named(t) \subseteq Named(s \o t)
  <2> SUFFICES ASSUME NEW i \in 1..Len(t) PROVE t[i] \in Named(s \o t)
    BY <1>1 DEF Named
  <2>1. Len(s) + i \in DOMAIN (s \o t) /\ (s \o t)[Len(s) + i] = t[i]
    BY <1>1
  <2> QED
    BY <2>1 DEF Named
<1>4. Named(s \o t) \subseteq Named(s) \union Named(t)
  <2> SUFFICES ASSUME NEW i \in 1..(Len(s) + Len(t)) PROVE (s \o t)[i] \in Named(s) \union Named(t)
    BY <1>1 DEF Named
  <2>1. CASE i \in 1..Len(s)
    BY <1>1, <2>1 DEF Named
  <2>2. CASE i \notin 1..Len(s)
    <3>1. i - Len(s) \in 1..Len(t) /\ (s \o t)[i] = t[i - Len(s)]
      BY <1>1, <2>2
    <3> QED
      BY <1>1, <3>1 DEF Named
  <2> QED
    BY <2>1, <2>2
<1> QED
  BY <1>2, <1>3, <1>4

\* Take gives a first part: the whole list when there is no limit, and nothing
\* only when the list has nothing.
LEMMA TakeIs ==
    ASSUME NEW S, NEW s \in Seq(S), NEW l \in Nat
    PROVE  /\ Pages!Take(s, l) \in Seq(S) /\ FirstPart(Pages!Take(s, l), s)
           /\ Pages!Take(s, l) = << >> \/ l = 0 => Pages!Take(s, l) = s
<1>1. CASE l > 0 /\ l < Len(s)
  <2>1. SubSeq(s, 1, l) \in Seq(S) /\ Len(SubSeq(s, 1, l)) = l
        /\ \A i \in 1..l : SubSeq(s, 1, l)[i] = s[i]
    BY <1>1
  <2>2. SubSeq(s, 1, l) # << >>
    BY <1>1, <2>1
  <2> QED
    BY <1>1, <2>1, <2>2 DEF Pages!Take, FirstPart
<1>2. CASE ~(l > 0 /\ l < Len(s))
  <2>1. Pages!Take(s, l) = s
    BY <1>2 DEF Pages!Take
  <2>2. Len(s) \in Nat
    OBVIOUS
  <2> QED
    BY <2>1, <2>2 DEF FirstPart
<1> QED
  BY <1>1, <1>2

\* A walk with after has shown what it began with, as far as its cursor.
Shown(got, start) ==
    /\ got \in Seq(Pages!Ids) /\ Pages!Ascends(got)
    /\ \A m \in start : m <= End(got) => m \in Named(got)

\* A page with after keeps it so; with the last page everything is shown.
LEMMA AfterShows ==
    ASSUME listed \subseteq Pages!Ids, NEW start, start \subseteq listed,
           NEW got, Shown(got, start), NEW l \in Nat
    PROVE  /\ Shown(got \o Pages!After(End(got), l), start)
           /\ Pages!After(End(got), l) = << >> \/ l = 0
                => start \subseteq Named(got \o Pages!After(End(got), l))
<1>1. MaxId \in Nat /\ Pages!Ids = 1..MaxId
  BY IndexerAssumption DEF Pages!ConstantsOK, Pages!Ids
<1>2. PICK c : c = End(got)
  OBVIOUS
<1>3. PICK n : n = Len(got)
  OBVIOUS
<1>4. /\ n \in Nat /\ got \in Seq(1..MaxId) /\ DOMAIN got = 1..n
      /\ \A i \in 1..n : got[i] \in 1..MaxId
      /\ \A i, j \in 1..n : i < j => got[i] < got[j]
  <2>1. got \in Seq(1..MaxId) /\ Pages!Ascends(got)
    BY <1>1 DEF Shown
  <2>2. n \in Nat /\ DOMAIN got = 1..n /\ \A i \in 1..n : got[i] \in 1..MaxId
    BY <2>1, <1>3, ListIs
  <2> QED
    BY <2>1, <2>2 DEF Pages!Ascends
<1>5. c \in Nat /\ \A i \in 1..n : got[i] <= c
  <2>1. CASE got = << >>
    BY <1>2, <1>3, <1>4, <2>1 DEF End
  <2>2. CASE got # << >>
    <3>1. n \in 1..n /\ c = got[n]
      BY <1>2, <1>3, <1>4, <2>2 DEF End
    <3>2. \A i \in 1..n : i < n \/ i = n
      BY <1>4
    <3> QED
      BY <1>4, <3>1, <3>2
  <2> QED
    BY <2>1, <2>2
<1>6. PICK S : S = {m \in listed : m > c}
  OBVIOUS
<1>7. S \in SUBSET (1..MaxId) /\ S \in SUBSET listed /\ (\A m \in S : m > c)
      /\ \A m \in listed : m \in S \/ m <= c
  <2>1. \A m \in listed : m \in 1..MaxId /\ m \in Nat
    BY <1>1
  <2>2. \A m \in listed : m > c \/ m <= c
    BY <2>1, <1>5
  <2> QED
    BY <2>1, <2>2, <1>6
<1>8. PICK a : a = Pages!Ascending(S)
  OBVIOUS
<1>9. InOrder(a, S)
  BY <1>1, <1>7, <1>8, AscendingIs
<1>10. /\ a \in Seq(S) /\ Len(a) \in Nat /\ Named(a) = S /\ (\A i \in 1..Len(a) : a[i] \in S)
       /\ DOMAIN a = 1..Len(a) /\ \A i, j \in 1..Len(a) : i < j => a[i] < a[j]
  BY <1>9 DEF InOrder, Pages!Ascends
<1>11. PICK page : page = Pages!After(c, l)
  OBVIOUS
<1>12. page = Pages!Take(a, l)
  BY <1>6, <1>8, <1>11 DEF Pages!After
<1>13. page \in Seq(S) /\ FirstPart(page, a) /\ (page = << >> \/ l = 0 => page = a)
  BY <1>10, <1>12, TakeIs
<1>14. PICK k : k = Len(page)
  OBVIOUS
<1>15. /\ k \in Nat /\ k <= Len(a) /\ DOMAIN page = 1..k /\ page \in Seq(1..MaxId)
       /\ \A i \in 1..k : page[i] = a[i] /\ page[i] \in 1..MaxId /\ page[i] > c
  <2>1. page \in Seq(S) /\ k \in Nat /\ DOMAIN page = 1..k /\ \A i \in 1..k : page[i] \in S
    BY <1>13, <1>14, ListIs
  <2>2. page \in Seq(1..MaxId)
    BY <2>1, <1>7, ListOfMore, Zenon
  <2>3. k <= Len(a) /\ \A i \in 1..k : page[i] = a[i]
    BY <1>13, <1>14 DEF FirstPart
  <2> QED
    BY <2>1, <2>2, <2>3, <1>7
<1>16. PICK all : all = got \o page
  OBVIOUS
<1>17. /\ all \in Seq(1..MaxId) /\ Len(all) = n + k /\ DOMAIN all = 1..(n + k)
       /\ \A i \in 1..n : all[i] = got[i]
       /\ \A i \in 1..k : all[n + i] = page[i]
  BY <1>3, <1>4, <1>14, <1>15, <1>16
<1>18. Named(all) = Named(got) \union Named(page)
  BY <1>4, <1>15, <1>16, JoinedNames
<1>19. Pages!Ascends(all)
  <2> SUFFICES ASSUME NEW i \in 1..(n + k), NEW j \in 1..(n + k), i < j PROVE all[i] < all[j]
    BY <1>17 DEF Pages!Ascends
  <2>1. CASE j \in 1..n
    BY <2>1, <1>4, <1>17
  <2>2. CASE i \in 1..n /\ j \notin 1..n
    <3>1. j - n \in 1..k /\ all[j] = page[j - n] /\ all[i] = got[i]
      BY <2>2, <1>4, <1>15, <1>17
    <3> QED
      BY <3>1, <2>2, <1>4, <1>5, <1>15
  <2>3. CASE i \notin 1..n
    <3>1. /\ i - n \in 1..k /\ j - n \in 1..k /\ i - n < j - n
          /\ all[i] = page[i - n] /\ all[j] = page[j - n]
      BY <2>3, <1>4, <1>15, <1>17
    <3>2. i - n \in 1..Len(a) /\ j - n \in 1..Len(a)
      BY <3>1, <1>10, <1>15
    <3> QED
      BY <3>1, <3>2, <1>10, <1>15
  <2> QED
    BY <2>1, <2>2, <2>3, <1>4
<1>20. ASSUME NEW m \in start, m <= End(all) PROVE m \in Named(all)
  <2>1. CASE m <= c
    BY <2>1, <1>2, <1>18 DEF Shown
  <2>2. CASE ~(m <= c)
    <3>1. m \in S /\ m \in Nat
      BY <2>2, <1>1, <1>7
    <3>2. PICK i \in 1..Len(a) : a[i] = m
      BY <3>1, <1>10 DEF Named
    <3>3. k # 0
      <4> SUFFICES ASSUME k = 0 PROVE FALSE
        OBVIOUS
      <4>1. page = << >>
        BY <1>13, <1>14
      <4>2. all = got
        BY <4>1, <1>4, <1>16
      <4> QED
        BY <4>2, <1>2, <1>20, <2>2
    <3>4. k \in 1..k /\ End(all) = page[k] /\ page[k] = a[k]
      <4>1. all # << >> /\ n + k \in 1..(n + k)
        BY <3>3, <1>4, <1>15, <1>17
      <4>2. End(all) = all[n + k]
        BY <4>1, <1>17 DEF End
      <4> QED
        BY <4>2, <3>3, <1>15, <1>17
    <3>5. i <= k
      <4>1. ~(a[k] < a[i])
        BY <1>20, <3>1, <3>2, <3>4, <1>15
      <4>2. ~(k < i)
        BY <4>1, <1>10, <1>15, <3>2, <3>4
      <4> QED
        BY <4>2, <1>15, <1>10
    <3>6. i \in 1..k /\ page[i] = m
      BY <3>2, <3>5, <1>10, <1>15
    <3> QED
      BY <3>6, <1>15, <1>18 DEF Named
  <2> QED
    BY <2>1, <2>2
<1>21. ASSUME page = << >> \/ l = 0 PROVE start \subseteq Named(all)
  <2>1. Named(page) = S
    BY <1>10, <1>13, <1>21
  <2> QED
    BY <2>1, <1>2, <1>7, <1>18 DEF Shown
<1>22. Shown(all, start)
  BY <1>1, <1>17, <1>19, <1>20 DEF Shown
<1> QED
  BY <1>2, <1>11, <1>16, <1>21, <1>22

\* A page at an offset goes on where the list of the walk ends: the list stays a
\* first part of what is listed, and with the last page is all of it.
LEMMA OffsetShows ==
    ASSUME listed \subseteq Pages!Ids, NEW got, got \in Seq(Pages!Ids),
           Len(got) <= Cardinality(listed), NEW l \in Nat
    PROVE  LET page == Pages!AtOffset(Len(got), l) IN
           /\ got \o page \in Seq(Pages!Ids) /\ Len(got \o page) <= Cardinality(listed)
           /\ FirstPart(got, Pages!Ascending(listed)) =>
                  /\ FirstPart(got \o page, Pages!Ascending(listed))
                  /\ page = << >> \/ l = 0 => got \o page = Pages!Ascending(listed)
<1>1. MaxId \in Nat /\ Pages!Ids = 1..MaxId
  BY IndexerAssumption DEF Pages!ConstantsOK, Pages!Ids
<1>2. PICK a : a = Pages!Ascending(listed)
  OBVIOUS
<1>3. InOrder(a, listed)
  <2>1. listed \in SUBSET (1..MaxId)
    BY <1>1
  <2> QED
    BY <1>1, <1>2, <2>1, AscendingIs
<1>4. a \in Seq(Pages!Ids) /\ Len(a) = Cardinality(listed)
  <2>1. a \in Seq(listed) /\ Len(a) = Cardinality(listed)
    BY <1>3 DEF InOrder
  <2> QED
    BY <2>1, ListOfMore
<1>5. PICK n : n = Len(got)
  OBVIOUS
<1>6. n \in Nat /\ Len(a) \in Nat /\ n <= Len(a)
  BY <1>4, <1>5
<1>7. PICK rest : rest = SubSeq(a, n + 1, Cardinality(listed))
  OBVIOUS
<1>8. rest \in Seq(Pages!Ids) /\ Len(rest) = Len(a) - n
      /\ \A i \in 1..Len(rest) : rest[i] = a[n + i]
  <2>1. n + 1 \in Nat /\ n + 1 > 0 /\ Len(a) <= Len(a) /\ n + 1 <= Len(a) + 1
    BY <1>6
  <2>2. rest = SubSeq(a, n + 1, Len(a))
    BY <1>4, <1>7
  <2> QED
    BY <1>4, <1>6, <2>1, <2>2
<1>9. PICK page : page = Pages!AtOffset(Len(got), l)
  OBVIOUS
<1>10. page = Pages!Take(rest, l)
  BY <1>2, <1>5, <1>7, <1>9, WalksAlike DEF Pages!AtOffset
<1>11. page \in Seq(Pages!Ids) /\ FirstPart(page, rest) /\ (page = << >> \/ l = 0 => page = rest)
  BY <1>8, <1>10, TakeIs
<1>12. PICK k : k = Len(page)
  OBVIOUS
<1>13. k \in Nat /\ k <= Len(rest) /\ \A i \in 1..k : page[i] = rest[i]
  BY <1>11, <1>12, ListIs DEF FirstPart
<1>14. PICK all : all = got \o page
  OBVIOUS
<1>15. /\ all \in Seq(Pages!Ids) /\ Len(all) = n + k
       /\ \A i \in 1..n : all[i] = got[i]
       /\ \A i \in 1..k : all[n + i] = page[i]
  BY <1>5, <1>11, <1>12, <1>14
<1>16. n + k <= Len(a)
  BY <1>6, <1>8, <1>13
<1>17. ASSUME FirstPart(got, a)
       PROVE  FirstPart(all, a) /\ (page = << >> \/ l = 0 => all = a)
  <2>1. ASSUME NEW i \in 1..(n + k) PROVE all[i] = a[i]
    <3>1. CASE i \in 1..n
      BY <3>1, <1>5, <1>15, <1>17 DEF FirstPart
    <3>2. CASE i \notin 1..n
      <4>1. i - n \in 1..k /\ i - n \in 1..Len(rest) /\ n + (i - n) = i
        BY <3>2, <1>6, <1>8, <1>13
      <4>2. all[n + (i - n)] = page[i - n] /\ page[i - n] = rest[i - n]
            /\ rest[i - n] = a[n + (i - n)]
        BY <4>1, <1>8, <1>13, <1>15
      <4> QED
        BY <4>1, <4>2
    <3> QED
      BY <3>1, <3>2
  <2>2. FirstPart(all, a)
    BY <2>1, <1>15, <1>16 DEF FirstPart
  <2>3. ASSUME page = << >> \/ l = 0 PROVE all = a
    <3>1. n + k = Len(a)
      BY <2>3, <1>6, <1>8, <1>11, <1>12
    <3> QED
      BY <3>1, <2>1, <1>4, <1>15, SameList
  <2> QED
    BY <2>2, <2>3
<1> QED
  BY <1>2, <1>4, <1>9, <1>14, <1>15, <1>16, <1>17

\* What a walk has shown, whatever joins the list.  With after it has shown what
\* it began with, as far as the cursor; with offsets, while nothing joins, it
\* holds a first part of the list.
Walked(w, list) ==
    /\ w.mode = "after" => w.start \subseteq list /\ Shown(w.got, w.start)
    /\ w.mode = "afterDone" => w.start \subseteq Named(w.got) /\ Pages!Ascends(w.got)
    /\ w.mode = "offset" => Len(w.got) <= Cardinality(list)
    /\ w.mode = "offset" /\ w.calm
         => list = w.start /\ FirstPart(w.got, Pages!Ascending(list))
    /\ w.mode = "offsetDone" /\ w.calm => w.got = Pages!Ascending(w.start)

PagesInv ==
    /\ Pages!TypeOK /\ DOMAIN walk = {"mode", "limit", "got", "start", "calm"}
    /\ Walked(walk, listed)

LEMMA NoPagesWalk ==
    /\ DOMAIN Pages!NoWalk = {"mode", "limit", "got", "start", "calm"}
    /\ Pages!NoWalk.mode = "none" /\ Pages!NoWalk.limit = 0 /\ Pages!NoWalk.got = << >>
    /\ Pages!NoWalk.start = {} /\ Pages!NoWalk.calm = TRUE
BY DEF Pages!NoWalk

\* A limit is a number.
LEMMA LimitIs == ASSUME Pages!TypeOK PROVE walk.limit \in Nat
<1>1. Limits \subseteq Nat
  BY IndexerAssumption DEF Pages!ConstantsOK
<1>2. walk.limit \in Limits \/ walk.limit = 0
  BY DEF Pages!TypeOK
<1>3. CASE walk.limit \in Limits
  BY <1>1, <1>3, Zenon
<1>4. CASE walk.limit = 0
  <2>1. 0 \in Nat
    OBVIOUS
  <2> QED
    BY <1>4, <2>1, Zenon
<1> QED
  BY <1>2, <1>3, <1>4

\* A match that joins is not missed by a walk with after: it was not there at
\* the start.
LEMMA JoinKeeps ==
    ASSUME PagesInv, NEW m \in Pages!Ids, Pages!Join(m) PROVE PagesInv'
<1>1. /\ listed' = listed \union {m} /\ m \notin listed
      /\ DOMAIN walk' = DOMAIN walk /\ walk'.mode = walk.mode /\ walk'.limit = walk.limit
      /\ walk'.got = walk.got /\ walk'.start = walk.start /\ walk'.calm = FALSE
  BY DEF PagesInv, Pages!Join
<1>2. Pages!TypeOK'
  BY <1>1 DEF PagesInv, Pages!TypeOK
<1>3. Len(walk.got) <= Cardinality(listed) => Len(walk.got) <= Cardinality(listed')
  <2>1. MaxId \in Nat /\ Pages!Ids = 1..MaxId /\ IsFiniteSet(1..MaxId)
    BY IndexerAssumption, FS_Interval DEF Pages!ConstantsOK, Pages!Ids
  <2>2. IsFiniteSet(listed)
    BY <2>1, FS_Subset DEF PagesInv, Pages!TypeOK
  <2>3. Cardinality(listed') = Cardinality(listed) + 1 /\ Cardinality(listed) \in Nat
    BY <1>1, <2>2, FS_AddElement, FS_CardinalityType
  <2>4. Len(walk.got) \in Nat
    BY ListIs DEF PagesInv, Pages!TypeOK
  <2> QED
    BY <2>3, <2>4
<1>4. Walked(walk', listed')
  BY <1>1, <1>3 DEF PagesInv, Walked
<1> QED
  BY <1>1, <1>2, <1>4 DEF PagesInv

\* A walk starts with what is listed.
LEMMA WalkStarts ==
    ASSUME PagesInv, NEW mode \in {"after", "offset"}, NEW l \in Limits, Pages!Start(mode, l)
    PROVE  PagesInv'
<1>1. /\ listed' = listed
      /\ DOMAIN walk' = {"mode", "limit", "got", "start", "calm"} /\ walk'.mode = mode
      /\ walk'.limit = l /\ walk'.got = << >> /\ walk'.start = listed /\ walk'.calm = TRUE
  BY NoPagesWalk DEF Pages!Start
<1>2. << >> \in Seq(Pages!Ids) /\ Len(<< >>) = 0 /\ DOMAIN << >> = {}
  OBVIOUS
<1>3. Pages!TypeOK'
  BY <1>1, <1>2 DEF PagesInv, Pages!TypeOK
<1>4. listed \subseteq 1..MaxId /\ MaxId \in Nat /\ Pages!Ids = 1..MaxId
  BY IndexerAssumption DEF PagesInv, Pages!TypeOK, Pages!ConstantsOK, Pages!Ids
<1>5. InOrder(Pages!Ascending(listed), listed)
  <2>1. listed \in SUBSET (1..MaxId)
    BY <1>4
  <2> QED
    BY <1>4, <2>1, AscendingIs
<1>6. /\ Cardinality(listed) \in Nat
      /\ Len(Pages!Ascending(listed)) = Cardinality(listed)
  BY <1>5, ListIs DEF InOrder
<1>7. Shown(<< >>, listed)
  BY <1>2, <1>4 DEF Shown, End, Pages!Ascends
<1>8. FirstPart(<< >>, Pages!Ascending(listed)) /\ Len(<< >>) <= Cardinality(listed)
  BY <1>2, <1>6 DEF FirstPart
<1>9. Walked(walk', listed')
  BY <1>1, <1>7, <1>8 DEF Walked
<1> QED
  BY <1>1, <1>3, <1>9 DEF PagesInv

\* A client's next page with after.
LEMMA FetchAfterKeeps == ASSUME PagesInv, Pages!FetchAfter PROVE PagesInv'
<1>1. PICK page : page = Pages!After(End(walk.got), walk.limit)
  OBVIOUS
<1>2. walk.mode = "after" /\ Pages!Fetch("after", page)
  BY <1>1 DEF Pages!FetchAfter, Pages!Fetch, Pages!Cursor, End
<1>3. /\ listed' = listed /\ DOMAIN walk' = DOMAIN walk /\ walk'.limit = walk.limit
      /\ walk'.got = walk.got \o page /\ walk'.start = walk.start /\ walk'.calm = walk.calm
      /\ walk'.mode = IF page = << >> \/ walk.limit = 0 THEN "afterDone" ELSE "after"
  BY <1>2 DEF PagesInv, Pages!Fetch, Pages!Done
<1>4. listed \subseteq Pages!Ids /\ walk.limit \in Nat
  BY LimitIs DEF PagesInv, Pages!TypeOK
<1>5. walk.start \subseteq listed /\ Shown(walk.got, walk.start)
  BY <1>2 DEF PagesInv, Walked
<1>6. /\ Shown(walk'.got, walk.start)
      /\ page = << >> \/ walk.limit = 0 => walk.start \subseteq Named(walk'.got)
  BY <1>1, <1>3, <1>4, <1>5, AfterShows
<1>7. Pages!TypeOK'
  BY <1>3, <1>6 DEF PagesInv, Pages!TypeOK, Shown
<1>8. Walked(walk', listed')
  BY <1>3, <1>5, <1>6 DEF Walked, Shown
<1> QED
  BY <1>3, <1>7, <1>8 DEF PagesInv

\* A client's next page at an offset.
LEMMA FetchOffsetKeeps == ASSUME PagesInv, Pages!FetchOffset PROVE PagesInv'
<1>1. PICK page : page = Pages!AtOffset(Len(walk.got), walk.limit)
  OBVIOUS
<1>2. walk.mode = "offset" /\ Pages!Fetch("offset", page)
  BY <1>1 DEF Pages!FetchOffset, Pages!Fetch
<1>3. /\ listed' = listed /\ DOMAIN walk' = DOMAIN walk /\ walk'.limit = walk.limit
      /\ walk'.got = walk.got \o page /\ walk'.start = walk.start /\ walk'.calm = walk.calm
      /\ walk'.mode = IF page = << >> \/ walk.limit = 0 THEN "offsetDone" ELSE "offset"
  BY <1>2 DEF PagesInv, Pages!Fetch, Pages!Done
<1>4. listed \subseteq Pages!Ids /\ walk.limit \in Nat /\ walk.got \in Seq(Pages!Ids)
      /\ Len(walk.got) <= Cardinality(listed)
  BY <1>2, LimitIs DEF PagesInv, Pages!TypeOK, Walked
<1>5. /\ walk'.got \in Seq(Pages!Ids) /\ Len(walk'.got) <= Cardinality(listed)
      /\ FirstPart(walk.got, Pages!Ascending(listed)) =>
             /\ FirstPart(walk'.got, Pages!Ascending(listed))
             /\ page = << >> \/ walk.limit = 0 => walk'.got = Pages!Ascending(listed)
  BY <1>1, <1>3, <1>4, OffsetShows
<1>6. walk.calm => listed = walk.start /\ FirstPart(walk.got, Pages!Ascending(listed))
  BY <1>2 DEF PagesInv, Walked
<1>7. Pages!TypeOK'
  BY <1>3, <1>5 DEF PagesInv, Pages!TypeOK
<1>8. Walked(walk', listed')
  BY <1>3, <1>5, <1>6 DEF Walked
<1> QED
  BY <1>3, <1>7, <1>8 DEF PagesInv

\* No walk has shown nothing yet.
LEMMA NoWalkInv ==
    ASSUME listed \subseteq Pages!Ids, walk = Pages!NoWalk PROVE PagesInv
<1>1. << >> \in Seq(Pages!Ids)
  OBVIOUS
<1>2. Pages!TypeOK
  BY <1>1, NoPagesWalk DEF Pages!TypeOK
<1>3. Walked(walk, listed)
  BY NoPagesWalk DEF Walked
<1> QED
  BY <1>2, <1>3, NoPagesWalk DEF PagesInv

LEMMA RestartKeeps == ASSUME PagesInv, Pages!Restart PROVE PagesInv'
<1>1. listed' = listed /\ walk' = Pages!NoWalk
  BY DEF Pages!Restart
<1>2. << >> \in Seq(Pages!Ids)
  OBVIOUS
<1>3. Pages!TypeOK'
  BY <1>1, <1>2, NoPagesWalk DEF Pages!TypeOK, PagesInv
<1>4. Walked(walk', listed')
  BY <1>1, NoPagesWalk DEF Walked
<1> QED
  BY <1>1, <1>3, <1>4, NoPagesWalk DEF PagesInv

\* Every step of the walk, and of the list, keeps the invariant.
LEMMA PagesStep ==
    ASSUME PagesInv, Pages!Next \/ UNCHANGED pageVars PROVE PagesInv'
<1>1. CASE UNCHANGED pageVars
  BY <1>1 DEF pageVars, PagesInv, Pages!TypeOK
<1> QED
  BY <1>1, JoinKeeps, WalkStarts, FetchAfterKeeps, FetchOffsetKeeps, RestartKeeps, Zenon
     DEF Pages!Next

\* Nothing is listed at the start.
LEMMA PagesInit == ASSUME Pages!Init PROVE PagesInv
BY NoWalkInv DEF Pages!Init

\* What the invariant says of a walk that is over.
LEMMA PagesSound ==
    ASSUME PagesInv PROVE Pages!TypeOK /\ Pages!CursorStable /\ Pages!OffsetExact
BY WalksAlike DEF PagesInv, Walked, Pages!CursorStable, Pages!OffsetExact

(***************************************************************************)
(* The history of a player.                                                *)
(***************************************************************************)
\* The names of the events the contract publishes, and a row of the table.
EventNames ==
    {"match:deposit", "escrow:deposit", "match:completed", "match:claim", "match:created"}
Row == [name : EventNames, players : SUBSET HistoryPlayers, valid : BOOLEAN]

\* The rows of a table that the query selects, and the list it makes of them.
ListedIn(table, p, ts) == {i \in DOMAIN table : Transactions!Matching(table[i], p, ts)}
Lined(S, how) ==
    LET up == Pages!Ascending(S) IN
    IF how = "asc" THEN up ELSE [i \in DOMAIN up |-> up[Len(up) + 1 - i]]

\* Every name is of one type of transaction at most.
LEMMA OneType ==
    ASSUME NEW name \in EventNames PROVE Cardinality(Transactions!Classified(name)) <= 1
<1>1. /\ Transactions!InName("match:deposit") = {"deposit"}
      /\ Transactions!InName("escrow:deposit") = {"deposit"}
      /\ Transactions!InName("match:completed") = {"completed"}
      /\ Transactions!InName("match:claim") = {"claim"}
      /\ Transactions!InName("match:created") = {}
  BY DEF Transactions!InName
<1>2. /\ Transactions!Markers("deposit") = {"deposit", "funded"}
      /\ Transactions!Markers("payout") = {"completed", "finalized", "claim", "payout", "resolved"}
      /\ Transactions!Markers("fee") = {"fee", "cancelled", "expired"}
  BY DEF Transactions!Markers
<1>3. \E t : Transactions!Classified(name) \subseteq {t}
  <2>1. CASE name \in {"match:deposit", "escrow:deposit"}
    <3>1. Transactions!Classified(name) \subseteq {"deposit"}
      BY <1>1, <1>2, <2>1 DEF Transactions!Classified, Transactions!Types
    <3> QED
      BY <3>1
  <2>2. CASE name \in {"match:completed", "match:claim"}
    <3>1. Transactions!Classified(name) \subseteq {"payout"}
      BY <1>1, <1>2, <2>2 DEF Transactions!Classified, Transactions!Types
    <3> QED
      BY <3>1
  <2>3. CASE name = "match:created"
    <3>1. Transactions!Classified(name) \subseteq {"payout"}
      BY <1>1, <2>3 DEF Transactions!Classified
    <3> QED
      BY <3>1
  <2> QED
    BY <2>1, <2>2, <2>3 DEF EventNames
<1>4. PICK t : Transactions!Classified(name) \subseteq {t}
  BY <1>3
<1>5. IsFiniteSet({t}) /\ Cardinality({t}) = 1
  BY FS_Singleton
<1> QED
  BY <1>4, <1>5, FS_Subset

\* row_to_transaction drops no row that the query selects.
LEMMA SortedIs ==
    ASSUME NEW p, NEW ts, ts \subseteq Transactions!Types, NEW how
    PROVE  /\ Transactions!Listed(p, ts) = ListedIn(history, p, ts)
           /\ Transactions!Sorted(p, ts, how) = Lined(ListedIn(history, p, ts), how)
<1>1. Transactions!Listed(p, ts) = ListedIn(history, p, ts)
  BY DEF Transactions!Listed, ListedIn
<1> DEFINE L == Transactions!Listed(p, ts)
<1>2. {i \in L : Transactions!Classified(history[i].name) # {}} = L
  <2> SUFFICES ASSUME NEW i \in L PROVE Transactions!Classified(history[i].name) # {}
    OBVIOUS
  <2>1. PICK n : n = history[i].name
    OBVIOUS
  <2>2. Transactions!InName(n) \intersect UNION {Transactions!Markers(t) : t \in ts} # {}
    BY <2>1 DEF Transactions!Listed, Transactions!Matching
  <2>3. PICK t \in ts : Transactions!Markers(t) \intersect Transactions!InName(n) # {}
    BY <2>2, Zenon
  <2> QED
    BY <2>1, <2>3, Zenon DEF Transactions!Classified
<1>3. Transactions!Sorted(p, ts, how) = Lined(L, how)
  BY <1>2, WalksAlike DEF Transactions!Sorted, Lined
<1> QED
  BY <1>1, <1>3

\* The list of either order has every selected row once.
LEMMA LinedIs ==
    ASSUME NEW b \in Nat, NEW S \in SUBSET (1..b), NEW how
    PROVE  /\ Lined(S, how) \in Seq(S) /\ Len(Lined(S, how)) = Cardinality(S)
           /\ Cardinality(S) \in Nat
           /\ Named(Lined(S, how)) = S /\ NamesOnce(Lined(S, how))
<1>1. PICK up : up = Pages!Ascending(S)
  OBVIOUS
<1>2. PICK n : n = Len(up)
  OBVIOUS
<1>3. /\ up \in Seq(S) /\ n = Cardinality(S) /\ Named(up) = S /\ Pages!Ascends(up)
  BY <1>1, <1>2, AscendingIs DEF InOrder
<1>4. n \in Nat /\ DOMAIN up = 1..n /\ \A i \in 1..n : up[i] \in S /\ up[i] \in Nat
  <2>1. n \in Nat /\ DOMAIN up = 1..n /\ \A i \in 1..n : up[i] \in S
    BY <1>2, <1>3, ListIs
  <2>2. \A x \in S : x \in Nat
    OBVIOUS
  <2> QED
    BY <2>1, <2>2
<1>5. \A i, j \in 1..n : i # j => up[i] # up[j]
  <2> SUFFICES ASSUME NEW i \in 1..n, NEW j \in 1..n, i # j PROVE up[i] # up[j]
    OBVIOUS
  <2>1. i < j \/ j < i
    BY <1>4
  <2> QED
    BY <2>1, <1>3, <1>4 DEF Pages!Ascends
<1>6. CASE how = "asc"
  <2>1. Lined(S, how) = up
    BY <1>1, <1>6 DEF Lined
  <2>2. NamesOnce(up)
    BY <1>4, <1>5 DEF NamesOnce
  <2> QED
    BY <2>1, <2>2, <1>2, <1>3, <1>4
<1>7. CASE how # "asc"
  <2> DEFINE down == [i \in 1..n |-> up[n + 1 - i]]
  <2>1. Lined(S, how) = down
    BY <1>1, <1>2, <1>4, <1>7 DEF Lined
  <2>2. \A i \in 1..n : n + 1 - i \in 1..n /\ n + 1 - (n + 1 - i) = i
    BY <1>4
  <2>3. down \in Seq(S) /\ Len(down) = n /\ DOMAIN down = 1..n
    BY <1>4, <2>2
  <2>4. Named(down) = S
    <3>1. Named(down) \subseteq S
      BY <1>4, <2>2 DEF Named
    <3>2. ASSUME NEW x \in S PROVE x \in Named(down)
      <4>1. PICK j \in 1..n : up[j] = x
        BY <1>3, <1>4 DEF Named
      <4>2. n + 1 - j \in 1..n /\ down[n + 1 - j] = x
        BY <4>1, <2>2
      <4> QED
        BY <4>2, <2>3 DEF Named
    <3> QED
      BY <3>1, <3>2
  <2>5. NamesOnce(down)
    <3> SUFFICES ASSUME NEW i \in 1..n, NEW j \in 1..n, i # j PROVE down[i] # down[j]
      BY <2>3 DEF NamesOnce
    <3>1. n + 1 - i # n + 1 - j /\ n + 1 - i \in 1..n /\ n + 1 - j \in 1..n
      BY <1>4, <2>2
    <3> QED
      BY <3>1, <1>5
  <2> QED
    BY <2>1, <2>3, <2>4, <2>5, <1>3, <1>4
<1> QED
  BY <1>6, <1>7

\* LIMIT and OFFSET: a page has rows of the list, from its offset on, and none
\* only at its end.
LEMMA PageIs ==
    ASSUME NEW S, NEW s \in Seq(S), NEW offset \in Nat
    PROVE  LET page == Transactions!Page(s, offset) IN
           /\ page \in Seq(S) /\ Len(page) \in Nat
           /\ offset <= Len(s) =>
                 /\ offset + Len(page) <= Len(s)
                 /\ \A i \in 1..Len(page) : page[i] = s[offset + i]
                 /\ page = << >> => offset = Len(s)
<1>1. PICK page : page = Transactions!Page(s, offset)
  OBVIOUS
<1>2. PageLimit \in Nat /\ PageLimit > 0
  BY IndexerAssumption DEF Transactions!ConstantsOK
<1>3. PICK e : e = IF offset + PageLimit < Len(s) THEN offset + PageLimit ELSE Len(s)
  OBVIOUS
<1>4. e \in Nat /\ e <= Len(s) /\ Len(s) \in Nat
  BY <1>2, <1>3
<1>5. page = SubSeq(s, offset + 1, e)
  BY <1>1, <1>3 DEF Transactions!Page
<1>6. CASE offset <= Len(s)
  <2>1. offset + 1 \in Nat /\ offset + 1 > 0 /\ offset + 1 <= e + 1
    BY <1>2, <1>3, <1>4, <1>6
  <2>2. page \in Seq(S) /\ Len(page) = e - offset /\ \A i \in 1..Len(page) : page[i] = s[offset + i]
    BY <1>4, <1>5, <2>1
  <2>3. page = << >> => offset = Len(s)
    BY <1>2, <1>3, <1>4, <1>6, <2>2
  <2> QED
    BY <1>1, <1>4, <2>1, <2>2, <2>3
<1>7. CASE ~(offset <= Len(s))
  <2>1. page = << >>
    BY <1>4, <1>5, <1>7
  <2>2. page \in Seq(S) /\ Len(page) = 0
    BY <2>1
  <2> QED
    BY <1>1, <1>7, <2>2
<1> QED
  BY <1>6, <1>7

\* A first part of a list names what the list names, and nothing twice when the
\* list names nothing twice.
LEMMA PartNames ==
    ASSUME NEW S, NEW s \in Seq(S), NEW T, NEW part \in Seq(T), FirstPart(part, s)
    PROVE  /\ Named(part) \subseteq Named(s)
           /\ NamesOnce(s) => NamesOnce(part)
           /\ Len(part) = Len(s) => Named(part) = Named(s)
<1>1. /\ Len(s) \in Nat /\ DOMAIN s = 1..Len(s) /\ Len(part) \in Nat
      /\ DOMAIN part = 1..Len(part) /\ Len(part) <= Len(s)
      /\ \A i \in 1..Len(part) : part[i] = s[i]
  BY ListIs DEF FirstPart
<1>2. \A i \in 1..Len(part) : i \in 1..Len(s)
  BY <1>1
<1>3. NamesOnce(s) => NamesOnce(part)
  BY <1>1, <1>2 DEF NamesOnce
<1> QED
  BY <1>1, <1>2, <1>3 DEF Named

\* The rows that came with the start are the first of the list in ascending
\* order, and all of it when nothing came since.
LEMMA StartShown ==
    ASSUME NEW b \in Nat, NEW S \in SUBSET (1..b), NEW start, Above(start, S),
           NEW how, how # "asc" => start = S,
           NEW T, NEW part \in Seq(T), FirstPart(part, Lined(S, how)),
           Cardinality(start) <= Len(part) \/ Len(part) = Cardinality(S)
    PROVE  start \subseteq Named(part)
<1>1. PICK s : s = Lined(S, how)
  OBVIOUS
<1>2. s \in Seq(S) /\ Len(s) = Cardinality(S) /\ Cardinality(S) \in Nat /\ Named(s) = S
  BY <1>1, LinedIs
<1>3. Len(part) \in Nat /\ DOMAIN part = 1..Len(part)
  BY ListIs
<1>4. CASE Len(part) = Cardinality(S)
  <2>1. Named(part) = Named(s)
    BY <1>1, <1>2, <1>4, PartNames
  <2> QED
    BY <1>2, <2>1 DEF Above
<1>5. CASE Len(part) # Cardinality(S)
  <2>1. Cardinality(start) <= Len(part) /\ Len(part) < Cardinality(S)
    BY <1>1, <1>2, <1>3, <1>5 DEF FirstPart
  <2>2. how = "asc"
    BY <2>1, <1>2, <1>3
  <2>3. PICK a : a = Pages!Ascending(start)
    OBVIOUS
  <2>4. s = Pages!Ascending(S)
    BY <1>1, <2>2 DEF Lined
  <2>5. start \in SUBSET (1..b)
    BY DEF Above
  <2>6. InOrder(a, start) /\ InOrder(s, S)
    BY <2>3, <2>4, <2>5, AscendingIs
  <2>7. Len(a) = Cardinality(start) /\ Len(a) \in Nat /\ Named(a) = start /\ DOMAIN a = 1..Len(a)
    BY <2>6, ListIs DEF InOrder
  <2>8. Len(a) <= Len(part) /\ Len(a) <= Len(s)
    BY <1>2, <1>3, <2>1, <2>7
  <2>9. FirstPart(a, s)
    BY <2>6, <2>8, OrderPrefix, Zenon
  <2>10. \A i \in 1..Len(a) : i \in 1..Len(part) /\ part[i] = a[i]
    BY <1>1, <1>3, <2>7, <2>8, <2>9 DEF FirstPart
  <2> QED
    BY <1>3, <2>7, <2>10 DEF Named
<1> QED
  BY <1>4, <1>5

\* The next page of a walk that holds a first part of the list.
LEMMA PartGrows ==
    ASSUME NEW S, NEW s \in Seq(S), NEW got \in Seq(S), FirstPart(got, s)
    PROVE  LET page == Transactions!Page(s, Len(got)) IN
           FirstPart(got \o page, s) /\ (page = << >> => Len(got \o page) = Len(s))
<1>1. PICK n : n = Len(got)
  OBVIOUS
<1>2. PICK page : page = Transactions!Page(s, n)
  OBVIOUS
<1>3. PICK k : k = Len(page)
  OBVIOUS
<1>4. n \in Nat /\ Len(s) \in Nat /\ n <= Len(s)
  BY <1>1, ListIs DEF FirstPart
<1>5. /\ page \in Seq(S) /\ k \in Nat /\ n + k <= Len(s)
      /\ \A i \in 1..k : page[i] = s[n + i]
      /\ page = << >> => n = Len(s)
  BY <1>2, <1>3, <1>4, PageIs
<1>6. PICK all : all = got \o page
  OBVIOUS
<1>7. /\ Len(all) = n + k
      /\ \A i \in 1..n : all[i] = got[i]
      /\ \A i \in 1..k : all[n + i] = page[i]
  BY <1>1, <1>3, <1>5, <1>6
<1>8. ASSUME NEW i \in 1..(n + k) PROVE all[i] = s[i]
  <2>1. CASE i \in 1..n
    BY <2>1, <1>1, <1>7 DEF FirstPart
  <2>2. CASE i \notin 1..n
    <3>1. i - n \in 1..k /\ n + (i - n) = i
      BY <2>2, <1>4, <1>5
    <3>2. all[n + (i - n)] = page[i - n] /\ page[i - n] = s[n + (i - n)]
      BY <3>1, <1>5, <1>7
    <3> QED
      BY <3>1, <3>2
  <2> QED
    BY <2>1, <2>2
<1>9. FirstPart(all, s)
  BY <1>5, <1>7, <1>8 DEF FirstPart
<1>10. page = << >> => Len(all) = Len(s)
  BY <1>1, <1>3, <1>4, <1>5, <1>7
<1> QED
  BY <1>1, <1>2, <1>6, <1>9, <1>10

\* The list of the walk w is a first part of the rows S the query selects, which
\* begin with those of the start.
Follows(w, S) ==
    /\ Above(w.start, S)
    /\ w.order # "asc" => w.start = S
    /\ FirstPart(w.got, Lined(S, w.order))
    /\ w.at = "page" => Cardinality(w.start) <= w.total

\* What a walk has shown: rows that still count unless a reorg came, and in an
\* order that new rows do not disturb, a first part of the list.
Followed(w, table) ==
    /\ w.calm => \A i \in Named(w.got) : i \in DOMAIN table /\ table[i].valid
    /\ w.calm /\ (w.order = "asc" \/ w.quiet) /\ w.at \in {"count", "page"}
         => Follows(w, ListedIn(table, w.player, w.types))
    /\ w.calm /\ (w.order = "asc" \/ w.quiet) /\ w.at = "done"
         => w.start \subseteq Named(w.got) /\ NamesOnce(w.got)

WalkFields == {"at", "player", "types", "order", "total", "got", "start", "calm", "quiet"}

WalkOK(w) ==
    /\ DOMAIN w = WalkFields /\ w.at \in {"none", "count", "page", "done"}
    /\ w.types \subseteq Transactions!Types /\ w.order \in {"asc", "desc"} /\ w.total \in Nat
    /\ w.got \in Seq(1..MaxRows) /\ w.start \subseteq 1..MaxRows

HistoryInv ==
    /\ history \in Seq(Row) /\ Len(history) <= MaxRows
    /\ WalkOK(historyWalk) /\ Followed(historyWalk, history)

\* The rows of a table are numbered up to its length.
LEMMA ListedBelow ==
    ASSUME NEW table \in Seq(Row), Len(table) <= MaxRows, NEW p, NEW ts
    PROVE  /\ MaxRows \in Nat /\ Len(table) \in Nat /\ DOMAIN table = 1..Len(table)
           /\ ListedIn(table, p, ts) \in SUBSET (1..MaxRows)
           /\ ListedIn(table, p, ts) \subseteq DOMAIN table
           /\ \A i \in ListedIn(table, p, ts) : table[i].valid
<1>1. MaxRows \in Nat
  BY IndexerAssumption DEF Transactions!ConstantsOK
<1>2. Len(table) \in Nat /\ DOMAIN table = 1..Len(table)
  BY ListIs
<1>3. ListedIn(table, p, ts) \subseteq DOMAIN table
  BY DEF ListedIn
<1>4. \A i \in 1..Len(table) : i \in 1..MaxRows
  BY <1>1, <1>2
<1>5. \A i \in ListedIn(table, p, ts) : table[i].valid
  BY DEF ListedIn, Transactions!Matching
<1> QED
  BY <1>1, <1>2, <1>3, <1>4, <1>5

\* New rows come after the rows there are, and are selected after them.
LEMMA RowsArrive ==
    ASSUME NEW table \in Seq(Row), NEW es \in Seq(Row), NEW p, NEW ts
    PROVE  /\ table \o es \in Seq(Row) /\ DOMAIN table \subseteq DOMAIN (table \o es)
           /\ \A i \in DOMAIN table : (table \o es)[i] = table[i]
           /\ Above(ListedIn(table, p, ts), ListedIn(table \o es, p, ts))
<1>1. PICK long : long = table \o es
  OBVIOUS
<1>2. /\ Len(table) \in Nat /\ DOMAIN table = 1..Len(table)
      /\ Len(es) \in Nat /\ long \in Seq(Row) /\ DOMAIN long = 1..(Len(table) + Len(es))
      /\ \A i \in 1..Len(table) : long[i] = table[i]
  BY <1>1
<1>3. DOMAIN table \subseteq DOMAIN long
  BY <1>2
<1>4. \A i \in DOMAIN table : i \in ListedIn(long, p, ts) <=> i \in ListedIn(table, p, ts)
  BY <1>2, <1>3 DEF ListedIn
<1>5. ListedIn(table, p, ts) \subseteq DOMAIN table /\ ListedIn(long, p, ts) \subseteq DOMAIN long
  BY DEF ListedIn
<1>6. ASSUME NEW x \in ListedIn(table, p, ts),
             NEW y \in ListedIn(long, p, ts) \ ListedIn(table, p, ts)
      PROVE  x < y
  <2>1. x \in 1..Len(table) /\ y \in 1..(Len(table) + Len(es)) /\ y \notin 1..Len(table)
    BY <1>2, <1>4, <1>5
  <2> QED
    BY <2>1, <1>2
<1>7. Above(ListedIn(table, p, ts), ListedIn(long, p, ts))
  <2>1. ListedIn(long, p, ts) \subseteq Nat
    BY <1>2, <1>5
  <2> QED
    BY <1>4, <1>5, <1>6, <2>1 DEF Above
<1> QED
  BY <1>1, <1>2, <1>3, <1>7

\* A walk in ascending order goes on over rows that come meanwhile.
LEMMA FollowsMore ==
    ASSUME NEW b \in Nat, NEW T \in SUBSET (1..b), NEW S, Above(S, T),
           NEW w, NEW v, Follows(w, S), w.order = "asc",
           v.order = w.order, v.start = w.start, v.got = w.got, v.at = w.at, v.total = w.total,
           w.got \in Seq(1..b)
    PROVE  Follows(v, T)
<1>1. S \in SUBSET (1..b) /\ S \subseteq T
  BY DEF Above
<1>2. PICK s : s = Pages!Ascending(S)
  OBVIOUS
<1>3. PICK t : t = Pages!Ascending(T)
  OBVIOUS
<1>4. InOrder(s, S) /\ InOrder(t, T)
  BY <1>1, <1>2, <1>3, AscendingIs
<1>5. Cardinality(S) <= Cardinality(T)
  <2>1. IsFiniteSet(1..b) /\ T \subseteq 1..b
    BY FS_Interval
  <2>2. IsFiniteSet(T)
    BY <2>1, FS_Subset, Zenon
  <2> QED
    BY <1>1, <2>2, FS_Subset
<1>6. Len(s) <= Len(t) /\ Len(s) \in Nat /\ Len(t) \in Nat
  BY <1>4, <1>5, ListIs DEF InOrder
<1>7. FirstPart(s, t)
  BY <1>4, <1>6, OrderPrefix, Zenon
<1>8. FirstPart(w.got, s)
  BY <1>2 DEF Follows, Lined
<1>9. FirstPart(w.got, t)
  <2>1. Len(w.got) \in Nat
    BY ListIs
  <2> QED
    BY <2>1, <1>6, <1>7, <1>8 DEF FirstPart
<1>10. FirstPart(v.got, Lined(T, v.order))
  BY <1>3, <1>9 DEF Lined
<1>11. Above(v.start, T)
  BY DEF Follows, Above
<1> QED
  BY <1>10, <1>11 DEF Follows

\* The poller adds rows.
LEMMA HistoryIngest ==
    ASSUME HistoryInv, NEW es \in Seq(Row), NEW ms, Transactions!Ingest(es, ms)
    PROVE  HistoryInv'
<1>1. PICK w : w = historyWalk
  OBVIOUS
<1>2. PICK v : v = historyWalk'
  OBVIOUS
<1>3. PICK table : table = history'
  OBVIOUS
<1>4. table = history \o es /\ Len(history) + Len(es) <= MaxRows
  BY <1>3 DEF Transactions!Ingest
<1>5. WalkOK(w) /\ Followed(w, history) /\ history \in Seq(Row) /\ Len(history) <= MaxRows
  BY <1>1 DEF HistoryInv
<1>6. /\ DOMAIN v = DOMAIN w /\ v.at = w.at /\ v.player = w.player /\ v.types = w.types
      /\ v.order = w.order /\ v.total = w.total /\ v.got = w.got /\ v.start = w.start
      /\ v.calm = w.calm /\ (w.at \in {"count", "page"} => ~v.quiet)
      /\ (w.at \notin {"count", "page"} => v = w)
  BY <1>1, <1>2, <1>5 DEF Transactions!Ingest, WalkOK, WalkFields
<1>7. WalkOK(v)
  BY <1>5, <1>6 DEF WalkOK
<1>8. table \in Seq(Row) /\ Len(table) <= MaxRows
  BY <1>4, <1>5
<1>9. \A i \in DOMAIN history : i \in DOMAIN table /\ table[i] = history[i]
  BY <1>4, <1>5, RowsArrive
<1>10. v.calm => \A i \in Named(v.got) : i \in DOMAIN table /\ table[i].valid
  BY <1>5, <1>6, <1>9 DEF Followed
<1>11. ASSUME v.calm, v.order = "asc" \/ v.quiet, v.at \in {"count", "page"}
       PROVE  Follows(v, ListedIn(table, v.player, v.types))
  <2>1. PICK S : S = ListedIn(history, w.player, w.types)
    OBVIOUS
  <2>2. PICK T : T = ListedIn(table, w.player, w.types)
    OBVIOUS
  <2>3. w.order = "asc" /\ Follows(w, S)
    BY <1>5, <1>6, <1>11, <2>1 DEF Followed
  <2>4. Above(S, T)
    BY <1>4, <1>5, <2>1, <2>2, RowsArrive
  <2>5. MaxRows \in Nat /\ T \in SUBSET (1..MaxRows)
    BY <1>8, <2>2, ListedBelow
  <2>6. Follows(v, T)
    BY <1>5, <1>6, <2>3, <2>4, <2>5, FollowsMore DEF WalkOK
  <2> QED
    BY <1>6, <2>2, <2>6
<1>12. v.calm /\ (v.order = "asc" \/ v.quiet) /\ v.at = "done"
         => v.start \subseteq Named(v.got) /\ NamesOnce(v.got)
  BY <1>5, <1>6 DEF Followed
<1>13. Followed(v, table)
  BY <1>10, <1>11, <1>12 DEF Followed
<1> QED
  BY <1>2, <1>3, <1>7, <1>8, <1>13 DEF HistoryInv

\* After a reorg nothing is said of the walk.
LEMMA HistoryReorg ==
    ASSUME HistoryInv, NEW n, Transactions!Reorg(n) PROVE HistoryInv'
<1>1. /\ history' = [i \in DOMAIN history |->
                        IF i >= n THEN [history[i] EXCEPT !.valid = FALSE] ELSE history[i]]
      /\ historyWalk' = [historyWalk EXCEPT !.calm = FALSE]
  BY DEF Transactions!Reorg
<1>2. /\ Len(history) \in Nat /\ DOMAIN history = 1..Len(history) /\ Len(history) <= MaxRows
      /\ \A i \in 1..Len(history) : history[i] \in Row
  BY ListIs DEF HistoryInv
<1>3. \A i \in 1..Len(history) : [history[i] EXCEPT !.valid = FALSE] \in Row
  BY <1>2 DEF Row
<1>4. history' \in [1..Len(history) -> Row]
  BY <1>1, <1>2, <1>3
<1>5. history' \in Seq(Row) /\ Len(history') = Len(history)
  BY <1>2, <1>4
<1>6. PICK w : w = historyWalk
  OBVIOUS
<1>7. PICK v : v = historyWalk'
  OBVIOUS
<1>8. WalkOK(w)
  BY <1>6 DEF HistoryInv
<1>9. /\ DOMAIN v = DOMAIN w /\ v.at = w.at /\ v.player = w.player /\ v.types = w.types
      /\ v.order = w.order /\ v.total = w.total /\ v.got = w.got /\ v.start = w.start /\ ~v.calm
  BY <1>1, <1>6, <1>7, <1>8 DEF WalkOK, WalkFields
<1>10. WalkOK(v) /\ Followed(v, history')
  BY <1>8, <1>9 DEF WalkOK, Followed
<1> QED
  BY <1>2, <1>5, <1>7, <1>10 DEF HistoryInv

LEMMA NoHistoryWalk ==
    /\ DOMAIN Transactions!NoWalk = WalkFields /\ Transactions!NoWalk.at = "none"
    /\ Transactions!NoWalk.types = {} /\ Transactions!NoWalk.order = "desc"
    /\ Transactions!NoWalk.total = 0 /\ Transactions!NoWalk.got = << >>
    /\ Transactions!NoWalk.start = {}
    /\ Transactions!NoWalk.calm = TRUE /\ Transactions!NoWalk.quiet = TRUE
BY DEF Transactions!NoWalk, WalkFields

\* A walk starts with the rows the query selects.
LEMMA HistoryStart ==
    ASSUME HistoryInv, NEW p, NEW ts \in {Transactions!Types, {"payout"}},
           NEW how \in {"asc", "desc"}, Transactions!Start(p, ts, how)
    PROVE  HistoryInv'
<1>1. PICK v : v = historyWalk'
  OBVIOUS
<1>2. PICK S : S = ListedIn(history, p, ts)
  OBVIOUS
<1>3. ts \subseteq Transactions!Types
  BY DEF Transactions!Types
<1>4. Transactions!Listed(p, ts) = S
  BY <1>2, <1>3, SortedIs
<1>5. /\ DOMAIN v = WalkFields /\ v.at = "count" /\ v.player = p /\ v.types = ts /\ v.order = how
      /\ v.total = 0 /\ v.got = << >> /\ v.start = S
  BY <1>1, <1>4, NoHistoryWalk DEF Transactions!Start, WalkFields
<1>6. history' = history
  BY DEF Transactions!Start
<1>7. MaxRows \in Nat /\ S \in SUBSET (1..MaxRows)
  BY <1>2, ListedBelow DEF HistoryInv
<1>8. << >> \in Seq(1..MaxRows) /\ Len(<< >>) = 0 /\ DOMAIN << >> = {} /\ Named(<< >>) = {}
  BY DEF Named
<1>9. WalkOK(v)
  BY <1>3, <1>5, <1>7, <1>8 DEF WalkOK
<1>10. FirstPart(<< >>, Lined(S, how))
  <2>1. Len(Lined(S, how)) \in Nat
    BY <1>7, LinedIs
  <2> QED
    BY <1>8, <2>1 DEF FirstPart
<1>11. Above(S, S)
  BY <1>7 DEF Above
<1>12. Follows(v, S)
  BY <1>5, <1>10, <1>11 DEF Follows
<1>13. Followed(v, history)
  BY <1>2, <1>5, <1>8, <1>12 DEF Followed
<1> QED
  BY <1>1, <1>6, <1>9, <1>13 DEF HistoryInv

\* The total counts the rows of the start at least.
LEMMA HistoryCount == ASSUME HistoryInv, Transactions!Count PROVE HistoryInv'
<1>1. PICK w : w = historyWalk
  OBVIOUS
<1>2. PICK v : v = historyWalk'
  OBVIOUS
<1>3. PICK S : S = ListedIn(history, w.player, w.types)
  OBVIOUS
<1>4. WalkOK(w) /\ Followed(w, history) /\ history' = history
  BY <1>1 DEF HistoryInv, Transactions!Count
<1>5. Transactions!Listed(w.player, w.types) = S
  BY <1>3, <1>4, SortedIs DEF WalkOK
<1>6. /\ w.at = "count" /\ v.at = "page" /\ v.total = Cardinality(S)
      /\ DOMAIN v = DOMAIN w /\ v.player = w.player /\ v.types = w.types
      /\ v.order = w.order /\ v.got = w.got /\ v.start = w.start
      /\ v.calm = w.calm /\ v.quiet = w.quiet
  BY <1>1, <1>2, <1>4, <1>5, WalksAlike DEF Transactions!Count, WalkOK, WalkFields
<1>7. MaxRows \in Nat /\ S \in SUBSET (1..MaxRows)
  BY <1>3, ListedBelow DEF HistoryInv
<1>8. Cardinality(S) \in Nat
  BY <1>7, LinedIs
<1>9. WalkOK(v)
  BY <1>4, <1>6, <1>8 DEF WalkOK
<1>10. ASSUME Follows(w, S) PROVE Follows(v, S)
  <2>1. IsFiniteSet(1..MaxRows) /\ S \subseteq 1..MaxRows
    BY <1>7, FS_Interval
  <2>2. IsFiniteSet(S)
    BY <2>1, FS_Subset, Zenon
  <2>3. w.start \subseteq S
    BY <1>10 DEF Follows, Above
  <2>4. Cardinality(w.start) <= Cardinality(S)
    BY <2>2, <2>3, FS_Subset
  <2> QED
    BY <1>6, <1>10, <2>4 DEF Follows
<1>11. Followed(v, history)
  BY <1>3, <1>4, <1>6, <1>10 DEF Followed
<1> QED
  BY <1>2, <1>4, <1>9, <1>11 DEF HistoryInv

\* The next page.  The walk ends with an empty page, when it has the whole list,
\* or with as many rows as the total, which cover those of the start.
LEMMA HistoryQuery == ASSUME HistoryInv, Transactions!Query PROVE HistoryInv'
<1>1. PICK w : w = historyWalk
  OBVIOUS
<1>2. PICK v : v = historyWalk'
  OBVIOUS
<1>3. PICK S : S = ListedIn(history, w.player, w.types)
  OBVIOUS
<1>4. PICK s : s = Lined(S, w.order)
  OBVIOUS
<1>5. PICK page : page = Transactions!Page(s, Len(w.got))
  OBVIOUS
<1>6. WalkOK(w) /\ Followed(w, history) /\ history' = history
  BY <1>1 DEF HistoryInv, Transactions!Query
<1>7. Transactions!Sorted(w.player, w.types, w.order) = s
  BY <1>3, <1>4, <1>6, SortedIs DEF WalkOK
<1>8. /\ w.at = "page" /\ v.got = w.got \o page
      /\ v.at = IF Transactions!HasMore(Len(w.got), Len(page), w.total) /\ page # << >>
                THEN "count" ELSE "done"
      /\ DOMAIN v = DOMAIN w /\ v.player = w.player /\ v.types = w.types
      /\ v.order = w.order /\ v.total = w.total /\ v.start = w.start
      /\ v.calm = w.calm /\ v.quiet = w.quiet
  BY <1>1, <1>2, <1>5, <1>6, <1>7 DEF Transactions!Query, WalkOK, WalkFields
<1>9. /\ MaxRows \in Nat /\ S \in SUBSET (1..MaxRows) /\ S \subseteq DOMAIN history
      /\ \A i \in S : history[i].valid
  BY <1>3, ListedBelow DEF HistoryInv
<1>10. /\ s \in Seq(S) /\ Len(s) = Cardinality(S) /\ Cardinality(S) \in Nat
       /\ Named(s) = S /\ NamesOnce(s)
  BY <1>4, <1>9, LinedIs
<1>11. s \in Seq(1..MaxRows)
  <2>1. S \subseteq 1..MaxRows
    BY <1>9
  <2> QED
    BY <1>10, <2>1, ListOfMore, Zenon
<1>12. Len(w.got) \in Nat /\ w.got \in Seq(1..MaxRows) /\ w.total \in Nat
  BY <1>6, ListIs DEF WalkOK
<1>13. page \in Seq(S) /\ Len(page) \in Nat /\ page \in Seq(1..MaxRows)
  BY <1>5, <1>10, <1>11, <1>12, PageIs
<1>14. PICK all : all = w.got \o page
  OBVIOUS
<1>15. all \in Seq(1..MaxRows) /\ Len(all) = Len(w.got) + Len(page)
       /\ Named(all) = Named(w.got) \union Named(page)
  BY <1>12, <1>13, <1>14, JoinedNames
<1>16. WalkOK(v)
  BY <1>6, <1>8, <1>14, <1>15 DEF WalkOK
<1>17. v.calm => \A i \in Named(v.got) : i \in DOMAIN history /\ history[i].valid
  <2>1. Named(page) \subseteq S
    BY <1>13, ListIs DEF Named
  <2> QED
    BY <2>1, <1>6, <1>8, <1>9, <1>14, <1>15 DEF Followed
<1>18. ASSUME v.calm, v.order = "asc" \/ v.quiet
       PROVE  /\ v.at \in {"count", "page"} => Follows(v, S)
              /\ v.at = "done" => v.start \subseteq Named(v.got) /\ NamesOnce(v.got)
  <2>1. Follows(w, S)
    BY <1>3, <1>6, <1>8, <1>18 DEF Followed
  <2>2. FirstPart(w.got, s)
    BY <1>4, <2>1 DEF Follows
  <2>3. FirstPart(all, s) /\ (page = << >> => Len(all) = Len(s))
    BY <1>5, <1>11, <1>12, <1>14, <2>2, PartGrows
  <2>4. v.at \in {"count", "page"} => Follows(v, S)
    BY <1>4, <1>8, <1>14, <2>1, <2>3 DEF Follows
  <2>5. ASSUME v.at = "done" PROVE v.start \subseteq Named(all) /\ NamesOnce(all)
    <3>1. ~(Len(w.got) + Len(page) < w.total) \/ page = << >>
      BY <1>8, <2>5 DEF Transactions!HasMore
    <3>2. Cardinality(w.start) <= w.total
      BY <1>8, <2>1 DEF Follows
    <3>3. Cardinality(w.start) \in Nat
      <4>1. w.start \in SUBSET (1..MaxRows)
        BY <1>6 DEF WalkOK
      <4> QED
        BY <1>9, <4>1, LinedIs
    <3>4. Cardinality(w.start) <= Len(all) \/ Len(all) = Cardinality(S)
      BY <3>1, <3>2, <3>3, <1>10, <1>12, <1>13, <1>15, <2>3
    <3>5. Above(w.start, S) /\ (w.order # "asc" => w.start = S)
      BY <2>1 DEF Follows
    <3>6. w.start \subseteq Named(all)
      BY <1>4, <1>9, <1>15, <2>3, <3>4, <3>5, StartShown
    <3>7. NamesOnce(all)
      BY <1>10, <1>15, <2>3, PartNames
    <3> QED
      BY <1>8, <3>6, <3>7
  <2> QED
    BY <1>8, <1>14, <2>4, <2>5
<1>19. Followed(v, history)
  BY <1>3, <1>8, <1>17, <1>18 DEF Followed
<1> QED
  BY <1>2, <1>6, <1>16, <1>19 DEF HistoryInv

\* The events of the contract are rows.
LEMMA EventIs ==
    ASSUME NEW name \in EventNames, NEW ps \in SUBSET HistoryPlayers
    PROVE  Transactions!Event(name, ps) \in Row
BY DEF Transactions!Event, Row

\* Every step keeps the invariant.
LEMMA HistoryStep ==
    ASSUME HistoryInv, Transactions!Next \/ UNCHANGED historyVars PROVE HistoryInv'
<1>1. CASE UNCHANGED historyVars
  BY <1>1 DEF historyVars, HistoryInv
<1>2. ASSUME NEW p \in HistoryPlayers, Transactions!Deposit(p) PROVE HistoryInv'
  <2>1. /\ Transactions!Event("match:deposit", {p}) \in Row
        /\ Transactions!Event("escrow:deposit", {p}) \in Row
    BY EventIs DEF EventNames
  <2>2. <<Transactions!Event("match:deposit", {p}), Transactions!Event("escrow:deposit", {p})>>
           \in Seq(Row)
    BY <2>1
  <2> QED
    BY <1>2, <2>2, HistoryIngest DEF Transactions!Deposit
<1>3. ASSUME NEW p \in HistoryPlayers, Transactions!Complete(p) PROVE HistoryInv'
  <2>1. Transactions!Event("match:completed", {}) \in Row
    BY EventIs DEF EventNames
  <2>2. <<Transactions!Event("match:completed", {})>> \in Seq(Row)
    BY <2>1
  <2> QED
    BY <1>3, <2>2, HistoryIngest DEF Transactions!Complete
<1>4. ASSUME NEW p \in HistoryPlayers, Transactions!Claim(p) PROVE HistoryInv'
  <2>1. Transactions!Event("match:claim", {p}) \in Row
    BY EventIs DEF EventNames
  <2>2. <<Transactions!Event("match:claim", {p})>> \in Seq(Row)
    BY <2>1
  <2> QED
    BY <1>4, <2>2, HistoryIngest DEF Transactions!Claim
<1>5. ASSUME Transactions!Create(HistoryPlayers) PROVE HistoryInv'
  <2>1. Transactions!Event("match:created", HistoryPlayers) \in Row
    BY EventIs DEF EventNames
  <2>2. <<Transactions!Event("match:created", HistoryPlayers)>> \in Seq(Row)
    BY <2>1
  <2> QED
    BY <1>5, <2>2, HistoryIngest DEF Transactions!Create
<1> QED
  BY <1>1, <1>2, <1>3, <1>4, <1>5, HistoryReorg, HistoryStart, HistoryCount, HistoryQuery, Zenon
     DEF Transactions!Next

\* The table and the walk start empty.
LEMMA HistoryInit == ASSUME Transactions!Init PROVE HistoryInv
<1>1. history = << >> /\ historyWalk = Transactions!NoWalk
  BY DEF Transactions!Init
<1>2. MaxRows \in Nat
  BY IndexerAssumption DEF Transactions!ConstantsOK
<1>3. << >> \in Seq(Row) /\ << >> \in Seq(1..MaxRows) /\ Len(<< >>) = 0 /\ DOMAIN << >> = {}
  OBVIOUS
<1>4. WalkOK(historyWalk)
  BY <1>1, <1>3, NoHistoryWalk DEF WalkOK
<1>5. Followed(historyWalk, history)
  BY <1>1, <1>3, NoHistoryWalk DEF Followed, Named
<1> QED
  BY <1>1, <1>2, <1>3, <1>4, <1>5 DEF HistoryInv

\* What the invariant says of a walk that is over.
LEMMA HistorySound ==
    ASSUME HistoryInv
    PROVE  /\ Transactions!TypeOK /\ Transactions!WalkComplete
           /\ Transactions!NothingRolledBack
<1>1. Transactions!TypeOK
  <2>1. ASSUME NEW i \in DOMAIN history
        PROVE  /\ history[i].players \subseteq HistoryPlayers /\ history[i].valid \in BOOLEAN
               /\ Transactions!Cardinality(Transactions!Classified(history[i].name)) <= 1
    <3>1. history[i] \in Row
      BY ListIs DEF HistoryInv
    <3>2. /\ history[i].players \subseteq HistoryPlayers /\ history[i].valid \in BOOLEAN
          /\ history[i].name \in EventNames
      BY <3>1 DEF Row
    <3>3. Cardinality(Transactions!Classified(history[i].name)) <= 1
      BY <3>2, OneType
    <3> QED
      BY <3>2, <3>3, WalksAlike
  <2> QED
    BY <2>1 DEF HistoryInv, WalkOK, Transactions!TypeOK
<1>2. Transactions!WalkComplete
  BY WalksAlike DEF HistoryInv, Followed, Transactions!WalkComplete
<1>3. Transactions!NothingRolledBack
  BY WalksAlike DEF HistoryInv, Followed, Transactions!NothingRolledBack
<1> QED
  BY <1>1, <1>2, <1>3

\* For any players, rows, limits and matches: a walk that follows has_more shows
\* every row of its start, none twice and none of a rolled-back ledger; a walk
\* with after misses no match of its start while others join the list, and one
\* with offsets is exact while none joins (query_player_transactions,
\* TransactionPage::new, get_matches).
THEOREM WalksProved == Spec => []WalksComplete
<1> DEFINE Inv == HistoryInv /\ PagesInv
<1>1. Init => Inv
  BY HistoryInit, PagesInit DEF Init
<1>2. Inv /\ [Next]_vars => Inv'
  <2> SUFFICES ASSUME Inv, [Next]_vars PROVE Inv'
    OBVIOUS
  <2>1. Transactions!Next \/ UNCHANGED historyVars
    BY DEF Next, vars
  <2>2. Pages!Next \/ UNCHANGED pageVars
    BY DEF Next, vars
  <2>3. HistoryInv'
    BY <2>1, HistoryStep
  <2>4. PagesInv'
    BY <2>2, PagesStep
  <2> QED
    BY <2>3, <2>4
<1>3. Inv => WalksComplete
  BY HistorySound, PagesSound DEF WalksComplete
<1> QED
  BY <1>1, <1>2, <1>3, PTL DEF Spec
=============================================================================
