---------------------------- MODULE StoreProofs ----------------------------
(***************************************************************************)
(* Proofs about what is stored and read back later, for all values of the  *)
(* constants: the balance snapshots of the escrow contract, and the health *)
(* results and the retry queue of the oracle service.  The three parts     *)
(* share no variable.                                                      *)
(***************************************************************************)
EXTENDS Snapshots, Health, Pipeline, FiniteSetTheorems, TLAPS

-----------------------------------------------------------------------------
(***************************************************************************)
(* Snapshots.  The two ring buffers of slots implement the append-only     *)
(* logs of SnapshotLog, for any matches, players, capacities and page      *)
(* size, and what is read of them is true of the whole history.            *)
(***************************************************************************)
(* Slots and loops.                                                        *)

\* The first cap consecutive numbers from i have different slots.
LEMMA SlotsDiffer ==
    ASSUME NEW cap \in Nat \ {0}, NEW i \in Nat, NEW j \in Nat, i < j, j < i + cap
    PROVE  i % cap # j % cap
<1>1. i = cap * (i \div cap) + (i % cap) /\ i % cap \in 0..cap - 1
    OBVIOUS
<1>2. j = cap * (j \div cap) + (j % cap) /\ j % cap \in 0..cap - 1
    OBVIOUS
<1>3. i \div cap \in Int /\ j \div cap \in Int
    OBVIOUS
<1>4. SUFFICES ASSUME i % cap = j % cap PROVE FALSE
    OBVIOUS
<1> DEFINE a == j \div cap
           b == i \div cap
<1>5. j - i = cap * a - cap * b
    BY <1>1, <1>2, <1>3, <1>4
<1>6. cap * a - cap * b = cap * (a - b)
    BY <1>3
<1>7. 0 < cap * (a - b) /\ cap * (a - b) < cap
    BY <1>5, <1>6
<1> HIDE DEF a, b
<1> QED
    BY <1>3, <1>7 DEF a, b

\* A slot number is one of the slots.
LEMMA SlotInRange ==
    ASSUME NEW cap \in Nat \ {0}, NEW i \in Nat
    PROVE  i % cap \in 0..cap - 1
    OBVIOUS

\* A loop that takes every cell returns the cells.
LEMMA TakenAll ==
    ASSUME NEW n \in Nat, NEW cells
    PROVE  Taken(cells, 1..n) = [k \in 1..n |-> cells[k]]
<1>1. Cardinality(1..n) = n
    BY FS_Interval
<1>2. \A i \in 1..n : Cardinality({j \in 1..n : j <= i}) = i
    <2> SUFFICES ASSUME NEW i \in 1..n
                 PROVE  Cardinality({j \in 1..n : j <= i}) = i
        OBVIOUS
    <2>1. {j \in 1..n : j <= i} = 1..i
        OBVIOUS
    <2>2. Cardinality(1..i) = i
        BY FS_Interval
    <2> QED
        BY <2>1, <2>2, Zenon
<1>3. \A k \in 1..n : (CHOOSE i \in 1..n : Cardinality({j \in 1..n : j <= i}) = k) = k
    BY <1>2, Zenon
<1> DEFINE at(k) == CHOOSE i \in 1..n : Cardinality({j \in 1..n : j <= i}) = k
<1>4. Taken(cells, 1..n) = [k \in 1..n |-> cells[at(k)]]
    BY <1>1, Zenon DEF Taken
<1>5. \A k \in 1..n : cells[at(k)] = cells[k]
    BY <1>3, Zenon
<1> HIDE DEF at
<1> QED
    BY <1>4, <1>5, Zenon

\* A nonempty set of natural numbers below a bound has a largest element.
LEMMA Largest ==
    ASSUME NEW n \in Nat, NEW T \in SUBSET (0..n), T # {}
    PROVE  \E i \in T : \A j \in T : j <= i
<1> DEFINE U == {k \in Nat : n - k \in T}
<1>1. U # {}
    <2>1. PICK t \in T : TRUE
        OBVIOUS
    <2>2. n - t \in Nat /\ n - (n - t) = t
        OBVIOUS
    <2> QED
        BY <2>1, <2>2
<1>2. PICK k \in U : \A l \in U : k <= l
    <2>1. U \in SUBSET Nat
        OBVIOUS
    <2> HIDE DEF U
    <2> DEFINE R == OpToRel(<, Nat)
    <2>2. IsWellFoundedOn(R, Nat)
        BY NatLessThanWellFounded
    <2>3. PICK i \in U : \A j \in U : ~(<<j, i>> \in R)
        <3> HIDE DEF R
        <3> QED
            BY <1>1, <2>1, <2>2, WFMin, Zenon
    <2>4. \A j \in U : ~(j < i)
        BY <2>1, <2>3 DEF OpToRel
    <2> QED
        BY <2>1, <2>4
<1>3. \A j \in T : n - j \in U
    OBVIOUS
<1>4. n - k \in T /\ \A j \in T : j <= n - k
    BY <1>2, <1>3
<1> QED
    BY <1>4

-----------------------------------------------------------------------------
(* One ring buffer.                                                        *)

\* How many of the entries are still there, and the index of the oldest.
Kept(count, cap) == IF count < cap THEN count ELSE cap
Oldest(count, cap) == count - Kept(count, cap)

\* The slot of every index that is still there holds the entry of that index.
Ring(slots, count, cap) ==
    /\ count \in Nat
    /\ DOMAIN slots = 0..cap - 1
    /\ \A i \in Nat : Oldest(count, cap) <= i /\ i < count => slots[i % cap].index = i

\* The entries from the oldest to the newest.
Window(slots, count, cap) ==
    [i \in 1..Kept(count, cap) |-> slots[(Oldest(count, cap) + i - 1) % cap]]

\* The numbers of a window.
LEMMA KeptIs ==
    ASSUME NEW cap \in Nat \ {0}, NEW count \in Nat
    PROVE  /\ Kept(count, cap) \in Nat /\ Kept(count, cap) <= cap
           /\ Kept(count, cap) <= count /\ Oldest(count, cap) \in Nat
           /\ Oldest(count, cap) + Kept(count, cap) = count
           /\ count <= cap => Oldest(count, cap) = 0
           /\ count >= cap => Oldest(count, cap) = count - cap
    BY DEF Kept, Oldest

\* get_balance_snapshots finds an entry in every slot it looks at.
LEMMA RetainedIs ==
    ASSUME NEW cap \in Nat \ {0}, NEW slots, NEW count, Ring(slots, count, cap)
    PROVE  Retained(slots, count, cap) = Window(slots, count, cap)
<1>1. count \in Nat
    BY DEF Ring
<1> DEFINE n == Kept(count, cap)
           o == Oldest(count, cap)
           cells == [i \in 1..n |-> slots[(o + i - 1) % cap]]
<1>2. n \in Nat /\ o \in Nat /\ o + n = count
    BY <1>1, KeptIs
<1>3. Retained(slots, count, cap) = Taken(cells, {i \in 1..n : cells[i] # NoSnapshot})
    BY Zenon DEF Retained, Kept, Oldest
<1>4. \A i \in 1..n : cells[i] # NoSnapshot
    <2> SUFFICES ASSUME NEW i \in 1..n PROVE cells[i] # NoSnapshot
        OBVIOUS
    <2>1. o + i - 1 \in Nat /\ o <= o + i - 1 /\ o + i - 1 < count
        BY <1>2
    <2>2. slots[(o + i - 1) % cap].index = o + i - 1
        BY <2>1, Zenon DEF Ring
    <2>3. cells[i] = slots[(o + i - 1) % cap]
        BY Zenon
    <2>4. NoSnapshot.index = -1 /\ -1 # o + i - 1
        BY <2>1 DEF NoSnapshot
    <2> QED
        BY <2>2, <2>3, <2>4, Zenon
<1>5. {i \in 1..n : cells[i] # NoSnapshot} = 1..n
    BY <1>4, Zenon
<1>6. Taken(cells, 1..n) = [k \in 1..n |-> cells[k]]
    BY <1>2, TakenAll, Zenon
<1>7. [k \in 1..n |-> cells[k]] = cells
    BY Zenon
<1>8. cells = Window(slots, count, cap)
    BY Zenon DEF Window
<1> QED
    BY <1>3, <1>5, <1>6, <1>7, <1>8, Zenon


\* A new entry in its slot.
Put(slots, count, cap, snap) == [slots EXCEPT ![count % cap] = snap]

Added(slots, count, cap, snap, new) ==
    /\ DOMAIN new = 0..cap - 1
    /\ new[count % cap] = snap
    /\ \A j \in Nat : Oldest(count + 1, cap) <= j /\ j < count
                        => new[j % cap] = slots[j % cap]

\* A new entry goes to a slot of its own: the entries that stay are where they
\* were.
LEMMA RingAdd ==
    ASSUME NEW cap \in Nat \ {0}, NEW slots, NEW count, Ring(slots, count, cap),
           NEW snap
    PROVE  Added(slots, count, cap, snap, Put(slots, count, cap, snap))
<1> DEFINE new == Put(slots, count, cap, snap)
<1>1. count \in Nat /\ DOMAIN slots = 0..cap - 1
    BY DEF Ring
<1>2. count % cap \in 0..cap - 1
    BY <1>1, SlotInRange
<1>3. DOMAIN new = 0..cap - 1 /\ new[count % cap] = snap
    BY <1>1, <1>2, Zenon DEF Put
<1>4. ASSUME NEW j \in Nat, Oldest(count + 1, cap) <= j, j < count
      PROVE  new[j % cap] = slots[j % cap]
    <2>1. count < j + cap
        BY <1>1, <1>4 DEF Oldest, Kept
    <2>2. j % cap # count % cap
        BY <1>1, <1>4, <2>1, SlotsDiffer
    <2>3. j % cap \in 0..cap - 1
        BY SlotInRange
    <2> QED
        BY <1>1, <2>2, <2>3, Zenon DEF Put
<1> QED
    BY <1>3, <1>4, Zenon DEF Added

\* So that the buffer is a ring again.
LEMMA RingGrows ==
    ASSUME NEW cap \in Nat \ {0}, NEW slots, NEW count, Ring(slots, count, cap),
           NEW snap, snap.index = count,
           NEW new, new = Put(slots, count, cap, snap)
    PROVE  Ring(new, count + 1, cap)
<1>1. count \in Nat
    BY DEF Ring
<1>2. /\ DOMAIN new = 0..cap - 1
      /\ new[count % cap] = snap
      /\ \A j \in Nat : Oldest(count + 1, cap) <= j /\ j < count
                          => new[j % cap] = slots[j % cap]
    <2>1. Added(slots, count, cap, snap, new)
        BY RingAdd, Zenon
    <2> QED
        BY <2>1, Zenon DEF Added
<1>3. ASSUME NEW i \in Nat, Oldest(count + 1, cap) <= i, i < count + 1
      PROVE  new[i % cap].index = i
    <2>1. CASE i = count
        BY <1>2, <2>1, Zenon
    <2>2. CASE i # count
        <3>1. i < count
            BY <1>1, <1>3, <2>2
        <3>2. Oldest(count, cap) <= i
            BY <1>1, <1>3, <3>1 DEF Oldest, Kept
        <3>3. slots[i % cap].index = i
            BY <3>1, <3>2, Zenon DEF Ring
        <3> QED
            BY <1>2, <1>3, <3>1, <3>3, Zenon
    <2> QED
        BY <2>1, <2>2
<1>4. count + 1 \in Nat
    BY <1>1
<1> QED
    BY <1>2, <1>3, <1>4 DEF Ring

\* The newest n elements of a list, as SnapshotLog says it.
NewestOf(s, n) == IF Len(s) <= n THEN s ELSE SubSeq(s, Len(s) - n + 1, Len(s))

\* The window of a ring as a list.
LEMMA WindowIs ==
    ASSUME NEW cap \in Nat \ {0}, NEW slots, NEW count \in Nat,
           NEW S, \A k \in 0..cap - 1 : slots[k] \in S
    PROVE  /\ Window(slots, count, cap) \in Seq(S)
           /\ Len(Window(slots, count, cap)) = Kept(count, cap)
           /\ \A i \in 1..Kept(count, cap) :
                Window(slots, count, cap)[i] = slots[(Oldest(count, cap) + i - 1) % cap]
<1> DEFINE n == Kept(count, cap)
           o == Oldest(count, cap)
<1>1. n \in Nat /\ o \in Nat
    BY KeptIs
<1>2. \A i \in 1..n : o + i - 1 \in Nat
    BY <1>1
<1>3. \A i \in 1..n : (o + i - 1) % cap \in 0..cap - 1
    BY <1>2, SlotInRange
<1>4. \A i \in 1..n : slots[(o + i - 1) % cap] \in S
    BY <1>3, Zenon
<1>5. Window(slots, count, cap) = [i \in 1..n |-> slots[(o + i - 1) % cap]]
    BY Zenon DEF Window
<1> HIDE DEF n, o
<1>6. [i \in 1..n |-> slots[(o + i - 1) % cap]] \in Seq(S)
    BY <1>1, <1>4
<1>7. DOMAIN Window(slots, count, cap) = 1..n
    BY <1>5, Zenon
<1>8. Len(Window(slots, count, cap)) = n
    BY <1>1, <1>5, <1>6, <1>7
<1> QED
    BY <1>5, <1>6, <1>8, Zenon DEF n, o

\* The list w and the entry snap, without the oldest if the list was full.
Slides(w, snap, v, cap) ==
    /\ v = NewestOf(Append(w, snap), cap)
    /\ Len(v) > 0
    /\ v[Len(v)] = snap

\* What a reader sees after a new entry: what it saw before and the entry,
\* without the oldest if the buffer was full.
LEMMA WindowSlides ==
    ASSUME NEW cap \in Nat \ {0}, NEW slots, NEW count, Ring(slots, count, cap),
           NEW snap
    PROVE  Slides(Window(slots, count, cap), snap,
                  Window(Put(slots, count, cap, snap), count + 1, cap), cap)
<1> DEFINE new == Put(slots, count, cap, snap)
<1>1. count \in Nat /\ count + 1 \in Nat /\ DOMAIN slots = 0..cap - 1
    BY DEF Ring
<1>2. /\ DOMAIN new = 0..cap - 1
      /\ new[count % cap] = snap
      /\ \A j \in Nat : Oldest(count + 1, cap) <= j /\ j < count
                          => new[j % cap] = slots[j % cap]
    <2>1. Added(slots, count, cap, snap, new)
        BY RingAdd, Zenon
    <2> QED
        BY <2>1, Zenon DEF Added
<1> DEFINE S == {slots[k] : k \in 0..cap - 1} \cup {new[k] : k \in 0..cap - 1} \cup {snap}
           w == Window(slots, count, cap)
           v == Window(new, count + 1, cap)
           n == Kept(count, cap)
           o == Oldest(count, cap)
           a == Append(w, snap)
<1>3. /\ w \in Seq(S) /\ Len(w) = n
      /\ \A i \in 1..n : w[i] = slots[(o + i - 1) % cap]
    <2>1. \A k \in 0..cap - 1 : slots[k] \in S
        OBVIOUS
    <2> HIDE DEF S
    <2> QED
        BY <1>1, <2>1, WindowIs, Zenon
<1>4. /\ v \in Seq(S) /\ Len(v) = Kept(count + 1, cap)
      /\ \A i \in 1..Kept(count + 1, cap) :
           v[i] = new[(Oldest(count + 1, cap) + i - 1) % cap]
    <2>1. \A k \in 0..cap - 1 : new[k] \in S
        OBVIOUS
    <2> HIDE DEF S
    <2> QED
        BY <1>1, <2>1, WindowIs, Zenon
<1>5. n \in Nat /\ o \in Nat /\ o + n = count
    BY <1>1, KeptIs
<1>6. snap \in S
    OBVIOUS
<1> HIDE DEF S, w, v, new
<1>7. /\ a \in Seq(S) /\ Len(a) = n + 1
      /\ \A i \in 1..n : a[i] = w[i]
      /\ a[n + 1] = snap
    BY <1>3, <1>6
<1> HIDE DEF a
<1>8. CASE count < cap
    <2>1. n = count /\ o = 0 /\ Kept(count + 1, cap) = count + 1
          /\ Oldest(count + 1, cap) = 0
        BY <1>1, <1>8 DEF Kept, Oldest
    <2>2. ASSUME NEW i \in 1..count + 1 PROVE v[i] = a[i]
        <3>1. v[i] = new[(i - 1) % cap]
            <4>1. v[i] = new[(0 + i - 1) % cap]
                BY <1>4, <2>1, Zenon
            <4>2. 0 + i - 1 = i - 1
                BY <1>1
            <4> QED
                BY <4>1, <4>2, Zenon
        <3>2. CASE i = count + 1
            BY <1>1, <1>2, <1>7, <2>1, <3>1, <3>2
        <3>3. CASE i # count + 1
            <4>1. i - 1 \in Nat /\ i - 1 < count /\ i \in 1..n
                BY <1>1, <2>1, <2>2, <3>3
            <4>2. new[(i - 1) % cap] = slots[(i - 1) % cap]
                BY <1>2, <2>1, <4>1
            <4>3. a[i] = slots[(i - 1) % cap]
                BY <1>3, <1>7, <2>1, <4>1
            <4> QED
                BY <3>1, <4>2, <4>3, Zenon
        <3> QED
            BY <3>2, <3>3
    <2>3. Len(v) = count + 1 /\ Len(a) = count + 1
        BY <1>4, <1>7, <2>1
    <2>4. v = a
        BY <1>1, <1>4, <1>7, <2>2, <2>3
    <2>5. NewestOf(a, cap) = a
        BY <1>1, <1>8, <2>3 DEF NewestOf
    <2>6. Len(v) > 0 /\ v[Len(v)] = snap
        BY <1>1, <1>7, <2>1, <2>3, <2>4
    <2> QED
        BY <2>4, <2>5, <2>6, Zenon DEF a, v, w, new, Slides
<1>9. CASE ~(count < cap)
    <2>1. n = cap /\ o = count - cap /\ Kept(count + 1, cap) = cap
          /\ Oldest(count + 1, cap) = count + 1 - cap
        BY <1>1, <1>9 DEF Kept, Oldest
    <2> DEFINE t == SubSeq(a, 2, cap + 1)
    <2>2. t \in Seq(S) /\ Len(t) = cap /\ \A i \in 1..cap : t[i] = a[i + 1]
        <3>1. \A i \in 2..cap + 1 : a[i] \in S
            BY <1>7, <2>1
        <3>2. /\ SubSeq(a, 2, cap + 1) \in Seq(S)
              /\ Len(SubSeq(a, 2, cap + 1)) = IF 2 <= cap + 1 THEN cap + 1 - 2 + 1 ELSE 0
              /\ \A i \in 1..cap + 1 - 2 + 1 : SubSeq(a, 2, cap + 1)[i] = a[2 + i - 1]
            BY <3>1
        <3>3. cap + 1 - 2 + 1 = cap /\ 2 <= cap + 1 /\ \A i \in 1..cap : 2 + i - 1 = i + 1
            OBVIOUS
        <3> QED
            BY <3>2, <3>3, Zenon
    <2> HIDE DEF t
    <2>3. ASSUME NEW i \in 1..cap PROVE v[i] = t[i]
        <3>1. v[i] = new[(count + 1 - cap + i - 1) % cap]
            BY <1>4, <2>1, Zenon
        <3>2. CASE i = cap
            <4>1. count + 1 - cap + i - 1 = count
                BY <1>1, <3>2
            <4>2. t[i] = a[n + 1]
                BY <2>1, <2>2, <3>2
            <4> QED
                BY <1>2, <1>7, <3>1, <4>1, <4>2, Zenon
        <3>3. CASE i # cap
            <4>1. /\ count + 1 - cap + i - 1 \in Nat /\ count + 1 - cap + i - 1 < count
                  /\ count + 1 - cap <= count + 1 - cap + i - 1
                  /\ i + 1 \in 1..n /\ o + (i + 1) - 1 = count + 1 - cap + i - 1
                BY <1>1, <1>9, <2>1, <2>3, <3>3
            <4>2. new[(count + 1 - cap + i - 1) % cap] = slots[(count + 1 - cap + i - 1) % cap]
                BY <1>2, <2>1, <4>1, Zenon
            <4>3. a[i + 1] = slots[(o + (i + 1) - 1) % cap]
                BY <1>3, <1>7, <4>1, Zenon
            <4> QED
                BY <2>2, <3>1, <4>1, <4>2, <4>3, Zenon
        <3> QED
            BY <3>2, <3>3
    <2>4. Len(v) = cap
        BY <1>4, <2>1
    <2>5. v = t
        BY <1>4, <2>2, <2>3, <2>4
    <2>6. NewestOf(a, cap) = t
        <3>1. Len(a) = cap + 1 /\ ~(cap + 1 <= cap) /\ cap + 1 - cap + 1 = 2
            BY <1>7, <2>1
        <3>2. Len(a) - cap + 1 = 2 /\ ~(Len(a) <= cap)
            BY <3>1
        <3> QED
            BY <3>1, <3>2, Zenon DEF NewestOf, t
    <2>7. Len(v) > 0 /\ v[Len(v)] = snap
        <3>1. t[cap] = a[cap + 1]
            BY <2>2
        <3> QED
            BY <1>7, <2>1, <2>4, <2>5, <3>1
    <2> QED
        BY <2>5, <2>6, <2>7, Zenon DEF a, v, w, new, Slides
<1> QED
    BY <1>8, <1>9


-----------------------------------------------------------------------------
(* The invariant.                                                          *)

\* The snapshot s shows what the contract holds for a match with the record r.
Shows(s, r) == s.balance = escrow_balance_of(r) /\ s.deposited = r.deposited

\* A match: its buffer is a ring, just what has left it was announced, and the
\* newest entry shows the record of the match.
MatchOK(slots, count, told, r) ==
    /\ Ring(slots, count, MatchCap)
    /\ told = {i \in Nat : i < count - MatchCap}
    /\ r # NoMatch => count > 0 /\ Shows(slots[(count - 1) % MatchCap], r)

MatchesOK ==
    /\ DOMAIN mslots = RecordedMatches /\ DOMAIN mcount = RecordedMatches
    /\ DOMAIN announced = RecordedMatches /\ DOMAIN matches = RecordedMatches
    /\ \A m \in RecordedMatches : MatchOK(mslots[m], mcount[m], announced[m], matches[m])

Entry == [index : Nat, ledger : Int, balance : Int]

\* A player: the buffer is a ring of the newest entries of the whole history,
\* which is in the order of the ledgers, none of them to come.
PlayerOK(slots, count, hist, t) ==
    /\ Ring(slots, count, PlayerCap)
    /\ hist \in Seq(Entry) /\ Len(hist) = count
    /\ \A i \in 1..count : hist[i].ledger <= t
    /\ \A i, j \in 1..count : i <= j => hist[i].ledger <= hist[j].ledger
    /\ \A i \in Nat : Oldest(count, PlayerCap) <= i /\ i < count
                        => slots[i % PlayerCap] = hist[i + 1]

PlayersOK ==
    /\ now \in Int /\ balance \in [Players -> Int]
    /\ DOMAIN pslots = Players /\ DOMAIN pcount = Players /\ DOMAIN plog = Players
    /\ \A p \in Players : PlayerOK(pslots[p], pcount[p], plog[p], now)

\* A reader: it has seen indices in order, the i-th of them at most the i-th of
\* those that are still there.
Read(list, count) ==
    /\ list \in Seq(Int)
    /\ \A i, j \in 1..Len(list) : i < j => list[i] < list[j]
    /\ \A i \in 1..Len(list) : list[i] <= Oldest(count, PlayerCap) + i - 1
    /\ count <= PlayerCap => \A i \in 1..Len(list) : list[i] = i - 1

ReaderOK == offset = Len(gathered) /\ Read(gathered, pcount[Subject])

\* The cache holds the symbol once a snapshot has carried it.
SymbolOK ==
    /\ symbol \in {"", "XLM"} /\ reachable \in BOOLEAN /\ carried \in BOOLEAN
    /\ carried => symbol = "XLM"
    /\ ~blanked /\ blanked \in BOOLEAN

RingsInv == MatchesOK /\ PlayersOK /\ ReaderOK /\ SymbolOK


-----------------------------------------------------------------------------
(* The matches.                                                            *)

\* A slot is used again after cap entries.
LEMMA SlotAgain ==
    ASSUME NEW cap \in Nat \ {0}, NEW i \in Nat
    PROVE  (i + cap) % cap = i % cap
<1>1. i = cap * (i \div cap) + (i % cap) /\ i % cap \in 0..cap - 1 /\ i \div cap \in Int
    OBVIOUS
<1>2. /\ i + cap = cap * ((i + cap) \div cap) + ((i + cap) % cap)
      /\ (i + cap) % cap \in 0..cap - 1 /\ (i + cap) \div cap \in Int
    OBVIOUS
<1> DEFINE a == i \div cap
           b == (i + cap) \div cap
           x == i % cap
           y == (i + cap) % cap
<1>3. cap * (b - a - 1) = x - y
    <2> HIDE DEF a, b, x, y
    <2> QED
        BY <1>1, <1>2 DEF a, b, x, y
<1>4. x - y < cap /\ x - y > -cap /\ b - a - 1 \in Int
    BY <1>1, <1>2
<1> HIDE DEF a, b
<1>5. b - a - 1 = 0
    <2> DEFINE d == b - a - 1
    <2>1. d \in Int /\ cap * d < cap /\ cap * d > -cap
        BY <1>3, <1>4
    <2> HIDE DEF d
    <2>2. d = 0
        BY <2>1
    <2> QED
        BY <2>2 DEF d
<1>6. x - y = 0
    BY <1>3, <1>5
<1> QED
    BY <1>1, <1>2, <1>6

\* The index a snapshot reports as overwritten is the one that leaves.
OverwrittenIn(slots, count) ==
    LET old == slots[count % MatchCap]
    IN  IF count < MatchCap THEN {}
        ELSE {IF old = NoSnapshot THEN count - MatchCap ELSE old.index}

\* What the snap_ovr event of record_snapshot names has just left the buffer.
LEMMA OverwrittenIs ==
    ASSUME NEW slots, NEW count, Ring(slots, count, MatchCap)
    PROVE  OverwrittenIn(slots, count)
             = IF count < MatchCap THEN {} ELSE {count - MatchCap}
<1>1. MatchCap \in Nat \ {0} /\ count \in Nat
    BY RingsAssumption DEF Ring
<1>2. CASE count < MatchCap
    BY <1>2, Zenon DEF OverwrittenIn
<1>3. CASE ~(count < MatchCap)
    <2> DEFINE i == count - MatchCap
    <2>1. i \in Nat /\ i < count /\ Oldest(count, MatchCap) <= i /\ i + MatchCap = count
        BY <1>1, <1>3 DEF Oldest, Kept
    <2>2. slots[i % MatchCap].index = i
        BY <2>1, Zenon DEF Ring
    <2>3. count % MatchCap = i % MatchCap
        BY <1>1, <2>1, SlotAgain, Zenon
    <2> QED
        BY <1>3, <2>2, <2>3, Zenon DEF OverwrittenIn
<1> QED
    BY <1>2, <1>3

\* A snapshot of a match with its new record.
LEMMA MatchRecords ==
    ASSUME NEW slots, NEW count, NEW told, NEW r, NEW s,
           MatchOK(slots, count, told, r),
           NEW snap, snap.index = count, Shows(snap, s)
    PROVE  MatchOK(Put(slots, count, MatchCap, snap), count + 1,
                   told \cup OverwrittenIn(slots, count), s)
<1> DEFINE new == Put(slots, count, MatchCap, snap)
<1>1. MatchCap \in Nat \ {0} /\ Ring(slots, count, MatchCap) /\ count \in Nat
    BY RingsAssumption DEF MatchOK, Ring
<1>2. Ring(new, count + 1, MatchCap)
    BY <1>1, RingGrows, Zenon
<1>3. told \cup OverwrittenIn(slots, count) = {i \in Nat : i < (count + 1) - MatchCap}
    <2>1. told = {i \in Nat : i < count - MatchCap}
        BY DEF MatchOK
    <2>2. OverwrittenIn(slots, count)
            = IF count < MatchCap THEN {} ELSE {count - MatchCap}
        BY <1>1, OverwrittenIs, Zenon
    <2> QED
        BY <1>1, <2>1, <2>2
<1>4. new[count % MatchCap] = snap
    <2>1. Added(slots, count, MatchCap, snap, new)
        BY <1>1, RingAdd, Zenon
    <2> QED
        BY <2>1 DEF Added
<1>5. count + 1 > 0 /\ (count + 1) - 1 = count
    BY <1>1
<1>6. Shows(new[((count + 1) - 1) % MatchCap], s)
    BY <1>4, <1>5, Zenon
<1> HIDE DEF new
<1>7. MatchOK(new, count + 1, told \cup OverwrittenIn(slots, count), s)
    BY <1>2, <1>3, <1>5, <1>6, Zenon DEF MatchOK
<1> QED
    BY <1>7 DEF new

\* What record_snapshot writes for the match m.
Written(m, r, snap) ==
    /\ snap.index = mcount[m] /\ Shows(snap, r)
    /\ mslots' = [mslots EXCEPT ![m] = Put(mslots[m], mcount[m], MatchCap, snap)]
    /\ mcount' = [mcount EXCEPT ![m] = mcount[m] + 1]
    /\ announced' = [announced EXCEPT ![m] =
                       announced[m] \cup OverwrittenIn(mslots[m], mcount[m])]
    /\ matches' = [matches EXCEPT ![m] = r]

\* Every operation writes one entry, with the next index and the new record.
LEMMA RecordsWrites ==
    ASSUME MatchesOK, NEW m \in RecordedMatches, NEW r, NEW why, NEW ps, NEW delta,
           Records(m, r, why, ps, delta)
    PROVE  \E snap : Written(m, r, snap)
<1> DEFINE snap == [index |-> mcount[m], reason |-> why, ledger |-> now,
                    symbol |-> fetch_token_symbol.answer, stake |-> Stake,
                    balance |-> escrow_balance_of(r), deposited |-> r.deposited]
<1>1. snap.index = mcount[m] /\ Shows(snap, r)
    BY DEF Shows
<1>2. mslots' = [mslots EXCEPT ![m][mcount[m] % MatchCap] = snap]
    BY Zenon DEF Records, record_snapshot
<1>3. mslots' = [mslots EXCEPT ![m] = Put(mslots[m], mcount[m], MatchCap, snap)]
    <2> HIDE DEF snap
    <2> QED
        BY <1>2, Zenon DEF Put
<1>4. /\ mcount' = [mcount EXCEPT ![m] = mcount[m] + 1]
      /\ matches' = [matches EXCEPT ![m] = r]
    BY Zenon DEF Records, record_snapshot
<1>5. announced' = [announced EXCEPT ![m] =
                      announced[m] \cup OverwrittenIn(mslots[m], mcount[m])]
    BY Zenon DEF Records, record_snapshot, Overwritten, OverwrittenIn
<1> HIDE DEF snap
<1>6. Written(m, r, snap)
    BY <1>1, <1>3, <1>4, <1>5, Zenon DEF Written
<1> QED
    BY <1>6

\* A written entry keeps the buffers rings.
LEMMA WrittenKeeps ==
    ASSUME MatchesOK, NEW m \in RecordedMatches, NEW r, NEW snap, Written(m, r, snap)
    PROVE  MatchesOK'
<1>1. MatchOK(mslots[m], mcount[m], announced[m], matches[m])
    BY Zenon DEF MatchesOK
<1>2. MatchOK(Put(mslots[m], mcount[m], MatchCap, snap), mcount[m] + 1,
              announced[m] \cup OverwrittenIn(mslots[m], mcount[m]), r)
    BY <1>1, MatchRecords, Zenon DEF Written
<1>3. /\ DOMAIN mslots' = RecordedMatches /\ DOMAIN mcount' = RecordedMatches
      /\ DOMAIN announced' = RecordedMatches /\ DOMAIN matches' = RecordedMatches
    BY Zenon DEF MatchesOK, Written
<1>4. ASSUME NEW n \in RecordedMatches
      PROVE  MatchOK(mslots'[n], mcount'[n], announced'[n], matches'[n])
    <2>1. CASE n = m
        <3>1. /\ mslots'[m] = Put(mslots[m], mcount[m], MatchCap, snap)
              /\ mcount'[m] = mcount[m] + 1 /\ matches'[m] = r
              /\ announced'[m] = announced[m] \cup OverwrittenIn(mslots[m], mcount[m])
            BY Zenon DEF MatchesOK, Written
        <3> QED
            BY <1>2, <2>1, <3>1, Zenon
    <2>2. CASE n # m
        <3>1. /\ mslots'[n] = mslots[n] /\ mcount'[n] = mcount[n]
              /\ matches'[n] = matches[n] /\ announced'[n] = announced[n]
            BY <2>2, Zenon DEF MatchesOK, Written
        <3> QED
            BY <3>1, Zenon DEF MatchesOK
    <2> QED
        BY <2>1, <2>2
<1>5. MatchesOK' = (/\ DOMAIN mslots' = RecordedMatches /\ DOMAIN mcount' = RecordedMatches
                    /\ DOMAIN announced' = RecordedMatches /\ DOMAIN matches' = RecordedMatches
                    /\ \A n \in RecordedMatches : MatchOK(mslots'[n], mcount'[n],
                                                  announced'[n], matches'[n]))
    BY DEF MatchesOK, MatchOK, Ring, Shows, escrow_balance_of
<1> QED
    BY <1>3, <1>4, <1>5, Zenon

\* A written entry is a step of the log of its match and of no other.
LEMMA WrittenLogs ==
    ASSUME MatchesOK, NEW m \in RecordedMatches, NEW r, NEW snap, Written(m, r, snap)
    PROVE  MatchLog!Next
<1> DEFINE window == [n \in RecordedMatches |-> Retained(mslots[n], mcount[n], MatchCap)]
           after == [n \in RecordedMatches |-> Retained(mslots'[n], mcount'[n], MatchCap)]
<1>1. \A n \in RecordedMatches : Ring(mslots[n], mcount[n], MatchCap)
    BY Zenon DEF MatchesOK, MatchOK
<1>2. MatchCap \in Nat \ {0}
    BY RingsAssumption
<1>3. /\ mslots'[m] = Put(mslots[m], mcount[m], MatchCap, snap)
      /\ mcount'[m] = mcount[m] + 1
    BY Zenon DEF MatchesOK, Written
<1>4. window[m] = Window(mslots[m], mcount[m], MatchCap)
    BY <1>1, <1>2, RetainedIs, Zenon
<1>5. Ring(mslots'[m], mcount'[m], MatchCap)
    BY <1>1, <1>2, <1>3, RingGrows, Zenon DEF Written
<1>6. after[m] = Window(mslots'[m], mcount'[m], MatchCap)
    BY <1>2, <1>5, RetainedIs, Zenon
<1>7. /\ after[m] = NewestOf(Append(window[m], snap), MatchCap)
      /\ Len(after[m]) > 0
      /\ after[m][Len(after[m])] = snap
    <2>1. Slides(Window(mslots[m], mcount[m], MatchCap), snap,
                 Window(mslots'[m], mcount'[m], MatchCap), MatchCap)
        BY <1>1, <1>2, <1>3, WindowSlides, Zenon
    <2> QED
        BY <1>4, <1>6, <2>1, Zenon DEF Slides
<1>8. after[m] # << >>
    BY <1>7
<1> HIDE DEF window, after
<1>9. MatchLog!Grows(m)
    BY <1>3, <1>7, <1>8, Zenon DEF MatchLog!Grows, MatchLog!Newest, NewestOf, window, after, Written
<1>10. ASSUME NEW n \in RecordedMatches, n # m PROVE MatchLog!Keeps(n)
    <2>1. mslots'[n] = mslots[n] /\ mcount'[n] = mcount[n]
        BY <1>10, Zenon DEF MatchesOK, Written
    <2> QED
        BY <2>1, Zenon DEF MatchLog!Keeps
<1> QED
    BY <1>9, <1>10, Zenon DEF MatchLog!Next


-----------------------------------------------------------------------------
(* The players.                                                            *)

\* A snapshot of a player, in the ledger t.
LEMMA PlayerRecords ==
    ASSUME NEW slots, NEW count, NEW hist, NEW t \in Int, NEW b \in Int,
           PlayerOK(slots, count, hist, t),
           NEW e, e = [index |-> count, ledger |-> t, balance |-> b]
    PROVE  PlayerOK(Put(slots, count, PlayerCap, e), count + 1, Append(hist, e), t)
<1> DEFINE new == Put(slots, count, PlayerCap, e)
           all == Append(hist, e)
<1>1. PlayerCap \in Nat \ {0} /\ Ring(slots, count, PlayerCap) /\ count \in Nat
    BY RingsAssumption DEF PlayerOK, Ring
<1>2. e.index = count /\ e.ledger = t /\ e \in Entry
    <2>1. \A c \in Nat, l, b0 \in Int :
            [index |-> c, ledger |-> l, balance |-> b0] \in Entry
        BY DEF Entry
    <2> QED
        BY <1>1, <2>1, Zenon
<1>3. Ring(new, count + 1, PlayerCap)
    BY <1>1, <1>2, RingGrows, Zenon
<1>4. hist \in Seq(Entry) /\ Len(hist) = count
    BY DEF PlayerOK
<1>5. /\ all \in Seq(Entry) /\ Len(all) = count + 1
      /\ \A i \in 1..count : all[i] = hist[i]
      /\ all[count + 1] = e
    BY <1>2, <1>4
<1>6. /\ new[count % PlayerCap] = e
      /\ \A j \in Nat : Oldest(count + 1, PlayerCap) <= j /\ j < count
                          => new[j % PlayerCap] = slots[j % PlayerCap]
    <2>1. Added(slots, count, PlayerCap, e, new)
        BY <1>1, RingAdd, Zenon
    <2> QED
        BY <2>1, Zenon DEF Added
<1> HIDE DEF new, all
<1>7. /\ \A i \in 1..count : hist[i].ledger <= t
      /\ \A i, j \in 1..count : i <= j => hist[i].ledger <= hist[j].ledger
      /\ \A i \in Nat : Oldest(count, PlayerCap) <= i /\ i < count
                          => slots[i % PlayerCap] = hist[i + 1]
    BY Zenon DEF PlayerOK
<1>8. \A i \in 1..count + 1 : i \in 1..count \/ i = count + 1
    BY <1>1
<1>9. \A i \in 1..count + 1 : all[i].ledger <= t
    <2>1. t <= t
        OBVIOUS
    <2> QED
        BY <1>2, <1>5, <1>7, <1>8, <2>1, Zenon
<1>10. ASSUME NEW i \in 1..count + 1, NEW j \in 1..count + 1, i <= j
       PROVE  all[i].ledger <= all[j].ledger
    <2>1. CASE j = count + 1
        BY <1>2, <1>5, <1>9, <2>1, Zenon
    <2>2. CASE j # count + 1
        <3>1. i \in 1..count /\ j \in 1..count
            BY <1>1, <1>10, <2>2
        <3> QED
            BY <1>5, <1>7, <1>10, <3>1, Zenon
    <2> QED
        BY <2>1, <2>2
<1>11. ASSUME NEW i \in Nat, Oldest(count + 1, PlayerCap) <= i, i < count + 1
       PROVE  new[i % PlayerCap] = all[i + 1]
    <2>1. CASE i = count
        BY <1>5, <1>6, <2>1, Zenon
    <2>2. CASE i # count
        <3>1. i < count /\ i + 1 \in 1..count
            BY <1>1, <1>11, <2>2
        <3>2. Oldest(count, PlayerCap) <= i
            BY <1>1, <1>11, <3>1 DEF Oldest, Kept
        <3> QED
            BY <1>5, <1>6, <1>7, <1>11, <3>1, <3>2, Zenon
    <2> QED
        BY <2>1, <2>2
<1>12. PlayerOK(new, count + 1, all, t)
    BY <1>3, <1>5, <1>9, <1>10, <1>11, Zenon DEF PlayerOK
<1> QED
    BY <1>12 DEF new, all

\* Later ledgers change nothing about a history.
LEMMA PlayerLater ==
    ASSUME NEW slots, NEW count, NEW hist, NEW t \in Int, NEW u \in Int, t <= u,
           PlayerOK(slots, count, hist, t)
    PROVE  PlayerOK(slots, count, hist, u)
<1>1. hist \in Seq(Entry) /\ Len(hist) = count /\ count \in Nat
    BY DEF PlayerOK, Ring
<1>2. \A i \in 1..count : hist[i].ledger \in Int
    <2>1. \A i \in 1..count : hist[i] \in Entry
        BY <1>1
    <2>2. \A e \in Entry : e.ledger \in Int
        BY DEF Entry
    <2> QED
        BY <2>1, <2>2, Zenon
<1>3. \A i \in 1..count : hist[i].ledger <= t
    BY Zenon DEF PlayerOK
<1>4. \A i \in 1..count : hist[i].ledger <= u
    BY <1>2, <1>3
<1> QED
    BY <1>4, Zenon DEF PlayerOK

\* What a step does to the buffer and the history of the player p.
PlayerMoves(p) ==
    \/ pslots'[p] = pslots[p] /\ pcount'[p] = pcount[p] /\ plog'[p] = plog[p]
    \/ \E b \in Int :
         LET e == [index |-> pcount[p], ledger |-> now, balance |-> b]
         IN  /\ pslots'[p] = Put(pslots[p], pcount[p], PlayerCap, e)
             /\ pcount'[p] = pcount[p] + 1
             /\ plog'[p] = Append(plog[p], e)

PlayersMove ==
    /\ now' = now /\ balance' \in [Players -> Int]
    /\ DOMAIN pslots' = Players /\ DOMAIN pcount' = Players /\ DOMAIN plog' = Players
    /\ \A p \in Players : PlayerMoves(p)

\* Every operation records at most one snapshot of a player, with the player's
\* new counter.
LEMMA RecordsMoves ==
    ASSUME PlayersOK, NEW m, NEW r, NEW why, NEW ps, NEW delta \in Int,
           Records(m, r, why, ps, delta)
    PROVE  PlayersMove
<1> DEFINE b == [p \in Players |-> balance[p] + IF p \in ps THEN delta ELSE 0]
<1>1. balance \in [Players -> Int]
    BY DEF PlayersOK
<1>2. b \in [Players -> Int]
    BY <1>1
<1>3. balance' = b /\ now' = now /\ record_player_snapshot(ps, b)
    BY Zenon DEF Records
<1> HIDE DEF b
<1>4. /\ pslots' = [p \in Players |-> IF p \notin ps THEN pslots[p] ELSE
                      [pslots[p] EXCEPT ![pcount[p] % PlayerCap] =
                         [index |-> pcount[p], ledger |-> now, balance |-> b[p]]]]
      /\ pcount' = [p \in Players |-> pcount[p] + IF p \in ps THEN 1 ELSE 0]
      /\ plog' = [p \in Players |->
                    IF p \in ps
                    THEN Append(plog[p], [index |-> pcount[p], ledger |-> now,
                                          balance |-> b[p]])
                    ELSE plog[p]]
    BY <1>3, Zenon DEF record_player_snapshot
<1>5. DOMAIN pslots' = Players /\ DOMAIN pcount' = Players /\ DOMAIN plog' = Players
    BY <1>4, Zenon
<1>6. ASSUME NEW p \in Players PROVE PlayerMoves(p)
    <2>1. pcount[p] \in Nat
        BY Zenon DEF PlayersOK, PlayerOK, Ring
    <2>2. b[p] \in Int
        BY <1>2
    <2>3. CASE p \in ps
        <3> DEFINE e == [index |-> pcount[p], ledger |-> now, balance |-> b[p]]
        <3>1. /\ pslots'[p] = Put(pslots[p], pcount[p], PlayerCap, e)
              /\ pcount'[p] = pcount[p] + 1
              /\ plog'[p] = Append(plog[p], e)
            BY <1>4, <2>3, Zenon DEF Put
        <3> QED
            BY <2>2, <3>1, Zenon DEF PlayerMoves
    <2>4. CASE p \notin ps
        <3>1. pslots'[p] = pslots[p] /\ pcount'[p] = pcount[p] + 0 /\ plog'[p] = plog[p]
            BY <1>4, <2>4, Zenon
        <3>2. pcount[p] + 0 = pcount[p]
            BY <2>1
        <3> QED
            BY <3>1, <3>2, Zenon DEF PlayerMoves
    <2> QED
        BY <2>3, <2>4
<1> QED
    BY <1>2, <1>3, <1>5, <1>6, Zenon DEF PlayersMove

\* The histories stay what they are said to be.
LEMMA MovesKeep ==
    ASSUME PlayersOK, PlayersMove
    PROVE  PlayersOK'
<1>1. ASSUME NEW p \in Players
      PROVE  PlayerOK(pslots'[p], pcount'[p], plog'[p], now)
    <2>1. PlayerOK(pslots[p], pcount[p], plog[p], now) /\ now \in Int
        BY Zenon DEF PlayersOK
    <2>2. PlayerMoves(p)
        BY Zenon DEF PlayersMove
    <2>3. CASE pslots'[p] = pslots[p] /\ pcount'[p] = pcount[p] /\ plog'[p] = plog[p]
        BY <2>1, <2>3, Zenon
    <2>4. ASSUME NEW b \in Int, NEW e,
                 e = [index |-> pcount[p], ledger |-> now, balance |-> b],
                 pslots'[p] = Put(pslots[p], pcount[p], PlayerCap, e),
                 pcount'[p] = pcount[p] + 1,
                 plog'[p] = Append(plog[p], e)
          PROVE  PlayerOK(pslots'[p], pcount'[p], plog'[p], now)
        BY <2>1, <2>4, PlayerRecords, Zenon
    <2> QED
        BY <2>2, <2>3, <2>4, Zenon DEF PlayerMoves
<1>2. /\ now' = now /\ now \in Int /\ balance' \in [Players -> Int]
      /\ DOMAIN pslots' = Players /\ DOMAIN pcount' = Players /\ DOMAIN plog' = Players
    BY Zenon DEF PlayersOK, PlayersMove
<1>3. PlayersOK' = (/\ now' \in Int /\ balance' \in [Players -> Int]
                    /\ DOMAIN pslots' = Players /\ DOMAIN pcount' = Players
                    /\ DOMAIN plog' = Players
                    /\ \A p \in Players : PlayerOK(pslots'[p], pcount'[p], plog'[p], now'))
    BY DEF PlayersOK, PlayerOK, Ring
<1> QED
    BY <1>1, <1>2, <1>3, Zenon

\* Every player's buffer takes a step of a log, or none.
LEMMA MovesLog ==
    ASSUME PlayersOK, PlayersMove
    PROVE  PlayerLog!Next
<1> SUFFICES ASSUME NEW p \in Players
             PROVE  PlayerLog!Grows(p) \/ PlayerLog!Keeps(p)
    BY Zenon DEF PlayerLog!Next
<1>1. Ring(pslots[p], pcount[p], PlayerCap) /\ PlayerCap \in Nat \ {0}
    BY RingsAssumption, Zenon DEF PlayersOK, PlayerOK
<1>2. CASE pslots'[p] = pslots[p] /\ pcount'[p] = pcount[p] /\ plog'[p] = plog[p]
    BY <1>2, Zenon DEF PlayerLog!Keeps
<1>3. ASSUME NEW b \in Int, NEW e,
             e = [index |-> pcount[p], ledger |-> now, balance |-> b],
             pslots'[p] = Put(pslots[p], pcount[p], PlayerCap, e),
             pcount'[p] = pcount[p] + 1
      PROVE  PlayerLog!Grows(p)
    <2> DEFINE window == [q \in Players |-> Retained(pslots[q], pcount[q], PlayerCap)]
               after == [q \in Players |-> Retained(pslots'[q], pcount'[q], PlayerCap)]
    <2>1. window[p] = Window(pslots[p], pcount[p], PlayerCap)
        BY <1>1, RetainedIs, Zenon
    <2>2. e.index = pcount[p]
        BY <1>3
    <2>3. Ring(pslots'[p], pcount'[p], PlayerCap)
        BY <1>1, <1>3, <2>2, RingGrows, Zenon
    <2>4. after[p] = Window(pslots'[p], pcount'[p], PlayerCap)
        BY <1>1, <2>3, RetainedIs, Zenon
    <2>5. Slides(window[p], e, after[p], PlayerCap)
        BY <1>1, <1>3, <2>1, <2>4, WindowSlides, Zenon
    <2> HIDE DEF window, after
    <2>6. /\ after[p] = NewestOf(Append(window[p], e), PlayerCap)
          /\ Len(after[p]) > 0 /\ after[p][Len(after[p])] = e
        BY <2>5, Zenon DEF Slides
    <2>7. after[p] # << >>
        BY <2>6
    <2> QED
        BY <1>3, <2>2, <2>6, <2>7, Zenon
        DEF PlayerLog!Grows, PlayerLog!Newest, NewestOf, window, after
<1> QED
    BY <1>2, <1>3, Zenon DEF PlayersMove, PlayerMoves


-----------------------------------------------------------------------------
(* The reader.                                                             *)

\* New entries do not disturb a reader: the oldest index only grows.
LEMMA ReadGrows ==
    ASSUME NEW list, NEW count \in Nat, Read(list, count)
    PROVE  Read(list, count + 1)
<1>1. PlayerCap \in Nat \ {0}
    BY RingsAssumption
<1>2. /\ Oldest(count, PlayerCap) \in Nat /\ Oldest(count + 1, PlayerCap) \in Nat
      /\ Oldest(count, PlayerCap) <= Oldest(count + 1, PlayerCap)
      /\ count + 1 <= PlayerCap => count <= PlayerCap
    BY <1>1 DEF Oldest, Kept
<1>3. list \in Seq(Int)
    BY DEF Read
<1>4. \A i \in 1..Len(list) : list[i] <= Oldest(count + 1, PlayerCap) + i - 1
    <2>1. \A i \in 1..Len(list) : list[i] \in Int /\ i \in Int
        BY <1>3
    <2>2. \A i \in 1..Len(list) : list[i] <= Oldest(count, PlayerCap) + i - 1
        BY Zenon DEF Read
    <2> QED
        BY <1>2, <2>1, <2>2
<1> QED
    BY <1>2, <1>4, Zenon DEF Read

\* Any step of the players keeps the reader's part.
LEMMA MovesRead ==
    ASSUME PlayersOK, PlayersMove, ReaderOK, UNCHANGED reader
    PROVE  ReaderOK'
<1>1. Subject \in Players
    BY RingsAssumption
<1>2. pcount[Subject] \in Nat
    BY <1>1, Zenon DEF PlayersOK, PlayerOK, Ring
<1>3. pcount'[Subject] = pcount[Subject] \/ pcount'[Subject] = pcount[Subject] + 1
    BY <1>1, Zenon DEF PlayersMove, PlayerMoves
<1>4. Read(gathered, pcount[Subject])
    BY DEF ReaderOK
<1>5. Read(gathered, pcount[Subject] + 1)
    BY <1>2, <1>4, ReadGrows, Zenon
<1>6. gathered' = gathered /\ offset' = offset
    BY DEF reader
<1>7. Read(gathered, pcount'[Subject])
    BY <1>3, <1>4, <1>5, Zenon
<1>8. ReaderOK' = (offset' = Len(gathered') /\ Read(gathered', pcount'[Subject]))
    BY DEF ReaderOK, Read
<1> QED
    BY <1>6, <1>7, <1>8, Zenon DEF ReaderOK

\* The length of a page from the offset at, of at most limit entries, out of
\* count.
PageLength(count, at, limit) ==
    LET first == Oldest(count, PlayerCap) + at
        end == IF first + limit < count THEN first + limit ELSE count
    IN  IF end > first THEN end - first ELSE 0

\* A page holds all the indices it covers, since each is in its slot.
LEMMA PageIs ==
    ASSUME NEW p \in Players, PlayersOK, NEW at \in Nat, NEW limit \in Nat,
           get_balance_snaps_paginated(p, at, limit) # << >>
    PROVE  /\ PageLength(pcount[p], at, limit) \in Nat
           /\ get_balance_snaps_paginated(p, at, limit)
                = [k \in 1..PageLength(pcount[p], at, limit) |->
                     Oldest(pcount[p], PlayerCap) + at + k - 1]
<1> DEFINE count == pcount[p]
           available == IF count < PlayerCap THEN count ELSE PlayerCap
           first == count - available + at
           end == IF first + limit < count THEN first + limit ELSE count
           length == IF end > first THEN end - first ELSE 0
           cells == [i \in 1..length |-> first + i - 1]
           there == {i \in 1..length :
                       pslots[p][(first + i - 1) % PlayerCap].index = first + i - 1}
           o == Oldest(count, PlayerCap)
<1>1. PlayerCap \in Nat \ {0}
    BY RingsAssumption
<1>2. Ring(pslots[p], count, PlayerCap) /\ count \in Nat
    BY Zenon DEF PlayersOK, PlayerOK, Ring
<1>3. o \in Nat /\ first = o + at /\ o <= first /\ first \in Nat
    BY <1>1, <1>2 DEF Oldest, Kept
<1>4. /\ length \in Nat /\ length = PageLength(count, at, limit)
      /\ length > 0 => first + length <= count
    <2>1. length = PageLength(count, at, limit)
        BY <1>3, Zenon DEF PageLength
    <2>2. \A f, l, c \in Nat :
            LET e == IF f + l < c THEN f + l ELSE c
                n == IF e > f THEN e - f ELSE 0
            IN  n \in Nat /\ (n > 0 => f + n <= c)
        OBVIOUS
    <2>3. first \in Nat /\ limit \in Nat /\ count \in Nat
        BY <1>2, <1>3, Zenon
    <2> HIDE DEF first
    <2>4. length \in Nat /\ (length > 0 => first + length <= count)
        BY <2>2, <2>3, Zenon
    <2> QED
        BY <2>1, <2>4, Zenon
<1>5. get_balance_snaps_paginated(p, at, limit) = Taken(cells, there)
    BY Zenon DEF get_balance_snaps_paginated
<1> HIDE DEF first, length
<1>6. \A i \in 1..length : i \in there
    <2> SUFFICES ASSUME NEW i \in 1..length
                 PROVE  pslots[p][(first + i - 1) % PlayerCap].index = first + i - 1
        OBVIOUS
    <2>1. first + i - 1 \in Nat /\ o <= first + i - 1 /\ first + i - 1 < count
        BY <1>2, <1>3, <1>4
    <2> QED
        BY <1>2, <2>1, Zenon DEF Ring
<1>7. there = 1..length
    BY <1>6, Zenon
<1>8. Taken(cells, 1..length) = [k \in 1..length |-> cells[k]]
    BY <1>4, TakenAll, Zenon
<1>9. [k \in 1..length |-> cells[k]] = cells
    BY Zenon
<1>10. cells = [k \in 1..length |-> o + at + k - 1]
    BY <1>3, Zenon
<1> QED
    BY <1>4, <1>5, <1>7, <1>8, <1>9, <1>10, Zenon

\* The next page goes on where the reader is.
LEMMA ReadOn ==
    ASSUME NEW list, NEW count \in Nat, NEW n \in Nat, Read(list, count),
           NEW page,
           page = [k \in 1..n |-> Oldest(count, PlayerCap) + Len(list) + k - 1]
    PROVE  Read(list \o page, count) /\ Len(list \o page) = Len(list) + Len(page)
<1>1. PlayerCap \in Nat \ {0}
    BY RingsAssumption
<1> DEFINE o == Oldest(count, PlayerCap)
<1>2. o \in Nat /\ (count <= PlayerCap => o = 0)
    BY <1>1 DEF Oldest, Kept
<1>3. list \in Seq(Int) /\ Len(list) \in Nat
    BY DEF Read
<1> HIDE DEF o
<1>4. page = [k \in 1..n |-> o + Len(list) + k - 1]
    BY DEF o
<1>5. page \in Seq(Int) /\ Len(page) = n
    <2>1. page \in Seq(Int)
        <3>1. \A c \in Int : [k \in 1..n |-> c + k - 1] \in Seq(Int)
            OBVIOUS
        <3>2. o + Len(list) \in Int
            BY <1>2, <1>3
        <3> QED
            BY <1>4, <3>1, <3>2, Zenon
    <2>2. DOMAIN page = 1..n
        BY <1>4, Zenon
    <2> QED
        BY <2>1, <2>2
<1> DEFINE all == list \o page
           l == Len(list)
<1>6. /\ all \in Seq(Int) /\ Len(all) = l + n
      /\ \A i \in 1..l + n : all[i] = IF i <= l THEN list[i] ELSE page[i - l]
    BY <1>3, <1>5
<1>7. \A i \in 1..l + n : i > l => all[i] = o + i - 1
    <2> SUFFICES ASSUME NEW i \in 1..l + n, i > l PROVE all[i] = o + i - 1
        OBVIOUS
    <2>1. i - l \in 1..n /\ ~(i <= l) /\ o + l + (i - l) - 1 = o + i - 1
        BY <1>2, <1>3
    <2>2. all[i] = page[i - l]
        BY <1>6, <2>1, Zenon
    <2>3. page[i - l] = o + l + (i - l) - 1
        BY <1>4, <2>1, Zenon
    <2> QED
        BY <2>1, <2>2, <2>3, Zenon
<1>8. /\ \A i, j \in 1..l : i < j => list[i] < list[j]
      /\ \A i \in 1..l : list[i] <= o + i - 1
      /\ count <= PlayerCap => \A i \in 1..l : list[i] = i - 1
      /\ \A i \in 1..l : list[i] \in Int
    <2>1. \A i \in 1..l : list[i] \in Int
        BY <1>3
    <2> QED
        BY <2>1, Zenon DEF Read, o
<1>9. \A i \in 1..l + n : i <= l => i \in 1..l /\ all[i] = list[i]
    BY <1>3, <1>6
<1> HIDE DEF all, l
<1>10. l \in Nat
    BY <1>3 DEF l
<1>11. \A i \in 1..l + n : all[i] <= o + i - 1
    BY <1>2, <1>7, <1>8, <1>9, <1>10
<1>12. ASSUME NEW i \in 1..l + n, NEW j \in 1..l + n, i < j PROVE all[i] < all[j]
    <2>1. CASE j <= l
        <3>1. i <= l
            BY <1>10, <1>12, <2>1
        <3> QED
            BY <1>8, <1>9, <1>12, <2>1, <3>1, Zenon
    <2>2. CASE j > l
        <3>1. all[j] = o + j - 1 /\ all[i] <= o + i - 1 /\ all[i] \in Int
            BY <1>6, <1>7, <1>11, <2>2
        <3> QED
            BY <1>2, <1>10, <1>12, <3>1
    <2> QED
        BY <1>10, <2>1, <2>2
<1>13. ASSUME count <= PlayerCap, NEW i \in 1..l + n PROVE all[i] = i - 1
    <2>1. CASE i <= l
        BY <1>8, <1>9, <1>13, <2>1, Zenon
    <2>2. CASE i > l
        BY <1>2, <1>7, <1>13, <2>2
    <2> QED
        BY <1>10, <2>1, <2>2
<1>14. Read(all, count)
    BY <1>6, <1>11, <1>12, <1>13, Zenon DEF Read, o
<1> QED
    BY <1>5, <1>6, <1>14 DEF all, l


\* A page keeps the reader's part.
LEMMA PageKeeps ==
    ASSUME PlayersOK, ReaderOK, ReadNextPage
    PROVE  ReaderOK'
<1> DEFINE page == get_balance_snaps_paginated(Subject, offset, PageLimit)
<1>1. Subject \in Players /\ PageLimit \in Nat
    BY RingsAssumption
<1>2. /\ page # << >> /\ gathered' = gathered \o page /\ offset' = offset + Len(page)
      /\ pcount' = pcount
    BY Zenon DEF ReadNextPage, store
<1>3. offset = Len(gathered) /\ Read(gathered, pcount[Subject]) /\ gathered \in Seq(Int)
    BY DEF ReaderOK, Read
<1>4. offset \in Nat
    BY <1>3
<1>5. pcount[Subject] \in Nat
    BY <1>1, Zenon DEF PlayersOK, PlayerOK, Ring
<1>6. PICK n \in Nat :
        page = [k \in 1..n |-> Oldest(pcount[Subject], PlayerCap) + offset + k - 1]
    BY <1>1, <1>2, <1>4, PageIs, Zenon
<1> HIDE DEF page
<1>7. /\ Read(gathered \o page, pcount[Subject])
      /\ Len(gathered \o page) = Len(gathered) + Len(page)
    BY <1>3, <1>5, <1>6, ReadOn, Zenon
<1>8. ReaderOK' = (offset' = Len(gathered') /\ Read(gathered', pcount'[Subject]))
    BY DEF ReaderOK, Read
<1> QED
    BY <1>2, <1>3, <1>7, <1>8, Zenon

-----------------------------------------------------------------------------
(* The symbol.                                                             *)

\* A snapshot carries the symbol or caches it, and the cache is never lost.
LEMMA RecordsSymbol ==
    ASSUME SymbolOK, NEW m, NEW r, NEW why, NEW ps, NEW delta,
           Records(m, r, why, ps, delta)
    PROVE  SymbolOK'
<1> DEFINE answer == fetch_token_symbol.answer
<1>1. /\ symbol' = fetch_token_symbol.cached
      /\ carried' = (carried \/ answer = "XLM")
      /\ blanked' = (blanked \/ (answer # "XLM" /\ (carried \/ reachable)))
      /\ reachable' = reachable
    BY DEF Records, record_snapshot
<1>2. answer = fetch_token_symbol.cached
    BY DEF fetch_token_symbol
<1>3. answer = IF symbol # "" THEN symbol ELSE IF reachable THEN "XLM" ELSE ""
    BY DEF fetch_token_symbol
<1> HIDE DEF answer
<1> QED
    BY <1>1, <1>2, <1>3 DEF SymbolOK

-----------------------------------------------------------------------------
(* The invariant is inductive, and every step refines the two logs.        *)

LogsStep ==
    /\ MatchLog!Next \/ UNCHANGED MatchLog!vars
    /\ PlayerLog!Next \/ UNCHANGED PlayerLog!vars

\* An operation that records.
LEMMA RecordsKeeps ==
    ASSUME RingsInv, NEW m \in RecordedMatches, NEW r, NEW why, NEW ps, NEW delta \in Int,
           Records(m, r, why, ps, delta)
    PROVE  RingsInv' /\ LogsStep
<1>1. MatchesOK /\ PlayersOK /\ ReaderOK /\ SymbolOK
    BY DEF RingsInv
<1>2. PICK snap : Written(m, r, snap)
    BY <1>1, RecordsWrites, Zenon
<1>3. MatchesOK' /\ MatchLog!Next
    BY <1>1, <1>2, WrittenKeeps, WrittenLogs, Zenon
<1>4. PlayersMove
    BY <1>1, RecordsMoves, Zenon
<1>5. PlayersOK' /\ PlayerLog!Next
    BY <1>1, <1>4, MovesKeep, MovesLog, Zenon
<1>6. UNCHANGED reader
    BY DEF Records
<1>7. ReaderOK'
    BY <1>1, <1>4, <1>6, MovesRead, Zenon
<1>8. SymbolOK'
    BY <1>1, RecordsSymbol, Zenon
<1> QED
    BY <1>3, <1>5, <1>7, <1>8, Zenon DEF RingsInv, LogsStep

\* A step that leaves the buffers alone is none of a log.
LEMMA StoreKeeps ==
    ASSUME UNCHANGED <<mslots, mcount, pslots, pcount>>
    PROVE  LogsStep
<1>1. UNCHANGED MatchLog!vars
    BY Zenon DEF MatchLog!vars
<1>2. UNCHANGED PlayerLog!vars
    BY Zenon DEF PlayerLog!vars
<1> QED
    BY <1>1, <1>2, Zenon DEF LogsStep

\* The initial state.
LEMMA InitRings == RingsInit => RingsInv /\ MatchLog!Init /\ PlayerLog!Init
<1> SUFFICES ASSUME RingsInit
             PROVE  RingsInv /\ MatchLog!Init /\ PlayerLog!Init
    OBVIOUS
<1>1. MatchCap \in Nat \ {0} /\ PlayerCap \in Nat \ {0} /\ Subject \in Players
    BY RingsAssumption
<1>2. \A cap \in Nat \ {0} : Ring([s \in 0..cap - 1 |-> NoSnapshot], 0, cap)
    BY DEF Ring, Oldest, Kept
<1>3. MatchesOK
    <2>1. {i \in Nat : i < 0 - MatchCap} = {}
        BY <1>1
    <2>2. MatchOK([s \in 0..MatchCap - 1 |-> NoSnapshot], 0, {}, NoMatch)
        BY <1>1, <1>2, <2>1, Zenon DEF MatchOK
    <2> QED
        BY <2>2, Zenon DEF MatchesOK, RingsInit
<1>4. PlayersOK
    <2>1. 1 \in Int /\ 0 \in Int /\ << >> \in Seq(Entry) /\ Len(<< >>) = 0 /\ 1..0 = {}
          /\ \A i \in Nat : ~(i < 0)
        OBVIOUS
    <2>2. PlayerOK([s \in 0..PlayerCap - 1 |-> NoSnapshot], 0, << >>, 1)
        BY <1>1, <1>2, <2>1, Zenon DEF PlayerOK
    <2>3. now = 1 /\ balance = [p \in Players |-> 0]
        BY DEF RingsInit
    <2>4. now \in Int /\ balance \in [Players -> Int]
        BY <2>3
    <2>5. /\ pslots = [p \in Players |-> [s \in 0..PlayerCap - 1 |-> NoSnapshot]]
          /\ pcount = [p \in Players |-> 0] /\ plog = [p \in Players |-> << >>]
        BY DEF RingsInit
    <2> QED
        BY <2>2, <2>3, <2>4, <2>5, Zenon DEF PlayersOK
<1>5. ReaderOK
    <2>1. << >> \in Seq(Int) /\ Len(<< >>) = 0 /\ 1..0 = {}
        OBVIOUS
    <2>2. Read(<< >>, 0)
        BY <2>1, Zenon DEF Read
    <2> QED
        BY <1>1, <2>1, <2>2, Zenon DEF ReaderOK, RingsInit
<1>6. SymbolOK
    BY DEF SymbolOK, RingsInit
<1>7. \A cap \in Nat \ {0} :
        Retained([s \in 0..cap - 1 |-> NoSnapshot], 0, cap) = << >>
    <2> SUFFICES ASSUME NEW cap \in Nat \ {0}
                 PROVE  Retained([s \in 0..cap - 1 |-> NoSnapshot], 0, cap) = << >>
        OBVIOUS
    <2> DEFINE slots == [s \in 0..cap - 1 |-> NoSnapshot]
    <2>1. Retained(slots, 0, cap) = Window(slots, 0, cap)
        BY <1>2, RetainedIs, Zenon
    <2>2. Kept(0, cap) = 0
        BY DEF Kept
    <2>3. Window(slots, 0, cap) = [i \in 1..0 |-> slots[(Oldest(0, cap) + i - 1) % cap]]
        BY <2>2, Zenon DEF Window
    <2> HIDE DEF slots
    <2>4. [i \in 1..0 |-> slots[(Oldest(0, cap) + i - 1) % cap]] = << >>
        OBVIOUS
    <2> QED
        BY <2>1, <2>3, <2>4, Zenon DEF slots
<1>8. MatchLog!Init
    BY <1>1, <1>7, Zenon DEF MatchLog!Init, RingsInit
<1>9. PlayerLog!Init
    BY <1>1, <1>7, Zenon DEF PlayerLog!Init, RingsInit
<1> QED
    BY <1>3, <1>4, <1>5, <1>6, <1>8, <1>9 DEF RingsInv

\* Every operation of the contract that records is a call of Records.
LEMMA ActionRecords ==
    ASSUME NEW m \in RecordedMatches,
           \/ CreateMatch(m) \/ PauseMatch(m) \/ ResumeMatch(m) \/ SettleResult(m)
           \/ CancelMatch(m) \/ RecoverMatch(m) \/ \E p \in Players : Deposit(m, p)
    PROVE  \E r, why, ps : \E delta \in Int : Records(m, r, why, ps, delta)
<1>1. 0 \in Int /\ Stake \in Int /\ -Stake \in Int
    BY RingsAssumption
<1> QED
    BY <1>1, Zenon DEF CreateMatch, PauseMatch, ResumeMatch, SettleResult, CancelMatch,
                       RecoverMatch, Deposit

\* What is not written stays as it is.
LEMMA Untouched ==
    ASSUME RingsInv, UNCHANGED <<store, reader, history>>,
           \/ reachable' \in BOOLEAN /\ now' = now
           \/ reachable' = reachable /\ now' = now + 1
    PROVE  RingsInv' /\ LogsStep
<1>1. UNCHANGED <<matches, balance, mslots, mcount, pslots, pcount, symbol, offset, gathered,
                  announced, carried, blanked, plog>>
    BY DEF store, reader, history
<1>2. MatchesOK'
    BY <1>1 DEF RingsInv, MatchesOK
<1>3. PlayersOK'
    <2>1. now \in Int /\ now' \in Int /\ now <= now'
        BY DEF RingsInv, PlayersOK
    <2>2. \A p \in Players : PlayerOK(pslots[p], pcount[p], plog[p], now)
        BY Zenon DEF RingsInv, PlayersOK
    <2>3. \A p \in Players : PlayerOK(pslots[p], pcount[p], plog[p], now')
        BY <2>1, <2>2, PlayerLater, Zenon
    <2>4. PlayersOK' = (/\ now' \in Int /\ balance' \in [Players -> Int]
                        /\ DOMAIN pslots' = Players /\ DOMAIN pcount' = Players
                        /\ DOMAIN plog' = Players
                        /\ \A p \in Players :
                             PlayerOK(pslots'[p], pcount'[p], plog'[p], now'))
        BY DEF PlayersOK, PlayerOK, Ring
    <2> QED
        BY <1>1, <2>1, <2>3, <2>4, Zenon DEF RingsInv, PlayersOK
<1>4. ReaderOK'
    BY <1>1 DEF RingsInv, ReaderOK
<1>5. SymbolOK'
    BY <1>1 DEF RingsInv, SymbolOK
<1>6. LogsStep
    BY <1>1, StoreKeeps, Zenon
<1> QED
    BY <1>2, <1>3, <1>4, <1>5, <1>6 DEF RingsInv

\* Every step.
LEMMA StepRings == RingsInv /\ [RingsNext]_ringVars => RingsInv' /\ LogsStep
<1> SUFFICES ASSUME RingsInv, [RingsNext]_ringVars
             PROVE  RingsInv' /\ LogsStep
    OBVIOUS
<1>1. CASE \E m \in RecordedMatches :
             \/ CreateMatch(m) \/ PauseMatch(m) \/ ResumeMatch(m) \/ SettleResult(m)
             \/ CancelMatch(m) \/ RecoverMatch(m) \/ \E p \in Players : Deposit(m, p)
    <2>1. PICK m \in RecordedMatches :
             \/ CreateMatch(m) \/ PauseMatch(m) \/ ResumeMatch(m) \/ SettleResult(m)
             \/ CancelMatch(m) \/ RecoverMatch(m) \/ \E p \in Players : Deposit(m, p)
        BY <1>1, Zenon
    <2>2. \E r, why, ps : \E delta \in Int : Records(m, r, why, ps, delta)
        BY <2>1, ActionRecords, Zenon
    <2> QED
        BY <2>2, RecordsKeeps, Zenon
<1>2. CASE TokenToggles
    <2>1. UNCHANGED <<store, reader, history>> /\ reachable' \in BOOLEAN /\ now' = now
        BY <1>2 DEF TokenToggles
    <2> QED
        BY <2>1, Untouched, Zenon
<1>3. CASE Tick
    <2>1. UNCHANGED <<store, reader, history>> /\ reachable' = reachable /\ now' = now + 1
        BY <1>3 DEF Tick
    <2> QED
        BY <2>1, Untouched, Zenon
<1>4. CASE ReadNextPage
    <2>1. UNCHANGED <<store, reachable, now, history>>
        BY <1>4, Zenon DEF ReadNextPage
    <2>2. UNCHANGED <<matches, balance, mslots, mcount, pslots, pcount, symbol, announced,
                      carried, blanked, plog, reachable, now>>
        BY <2>1 DEF store, history
    <2>3. MatchesOK'
        BY <2>2 DEF RingsInv, MatchesOK
    <2>4. PlayersOK'
        BY <2>2 DEF RingsInv, PlayersOK
    <2>5. SymbolOK'
        BY <2>2 DEF RingsInv, SymbolOK
    <2>6. ReaderOK'
        BY <1>4, PageKeeps, Zenon DEF RingsInv
    <2>7. LogsStep
        BY <2>2, StoreKeeps, Zenon
    <2> QED
        BY <2>3, <2>4, <2>5, <2>6, <2>7 DEF RingsInv
<1>5. CASE UNCHANGED ringVars
    <2>1. UNCHANGED <<store, reader, history>> /\ reachable' = reachable /\ now' = now
        BY <1>5 DEF ringVars
    <2>2. reachable' \in BOOLEAN
        BY <2>1 DEF RingsInv, SymbolOK
    <2> QED
        BY <2>1, <2>2, Untouched, Zenon
<1> QED
    BY <1>1, <1>2, <1>3, <1>4, <1>5, Zenon DEF RingsNext


-----------------------------------------------------------------------------
(* What the invariant says of the queries.                                 *)

\* Whom a snapshot is shown to in full.
LEMMA AccessIs ==
    /\ authorize_snapshot_query("admin") = "full"
    /\ \A p \in Players : authorize_snapshot_query(p) = "redacted"
<1>1. "admin" \notin Players
    BY RingsAssumption
<1> QED
    BY <1>1 DEF authorize_snapshot_query

\* What left the buffer is what was announced.
LEMMA LossFollows == MatchesOK => LossIsAnnounced
<1> SUFFICES ASSUME MatchesOK, NEW m \in RecordedMatches
             PROVE  LET shown == get_balance_snapshots("admin", m)
                    IN  announced[m] = (0..mcount[m] - 1)
                                         \ {shown[i].index : i \in DOMAIN shown}
    BY Zenon DEF LossIsAnnounced
<1> DEFINE count == mcount[m]
           slots == mslots[m]
           n == Kept(count, MatchCap)
           o == Oldest(count, MatchCap)
           shown == get_balance_snapshots("admin", m)
<1>1. /\ MatchCap \in Nat \ {0} /\ Ring(slots, count, MatchCap) /\ count \in Nat
      /\ announced[m] = {i \in Nat : i < count - MatchCap}
    BY RingsAssumption, Zenon DEF MatchesOK, MatchOK, Ring
<1>2. Retained(slots, count, MatchCap) = Window(slots, count, MatchCap)
    BY <1>1, RetainedIs, Zenon
<1>3. shown = [i \in 1..n |-> slots[(o + i - 1) % MatchCap]]
    <2>1. authorize_snapshot_query("admin") = "full" /\ "full" # "Unauthorized"
        BY AccessIs
    <2> QED
        BY <1>2, <2>1, Zenon DEF get_balance_snapshots, Shown, Window
<1>4. /\ n \in Nat /\ o \in Nat /\ o + n = count
      /\ count <= MatchCap => o = 0
      /\ count >= MatchCap => o = count - MatchCap
    BY <1>1, KeptIs
<1> HIDE DEF shown, o, n
<1>5. DOMAIN shown = 1..n
    BY <1>3, Zenon
<1>6. \A i \in 1..n : shown[i].index = o + i - 1
    <2> SUFFICES ASSUME NEW i \in 1..n PROVE shown[i].index = o + i - 1
        OBVIOUS
    <2>1. o + i - 1 \in Nat /\ o <= o + i - 1 /\ o + i - 1 < count
        BY <1>1, <1>4
    <2>2. slots[(o + i - 1) % MatchCap].index = o + i - 1
        BY <1>1, <2>1, Zenon DEF Ring, o
    <2> QED
        BY <1>3, <2>2, Zenon
<1>7. {shown[i].index : i \in DOMAIN shown} = {o + i - 1 : i \in 1..n}
    BY <1>5, <1>6, Zenon
<1>8. {o + i - 1 : i \in 1..n} = {j \in Nat : o <= j /\ j < count}
    <2>1. ASSUME NEW j \in Nat, o <= j, j < count
          PROVE  \E i \in 1..n : j = o + i - 1
        <3>1. j - o + 1 \in 1..n /\ j = o + (j - o + 1) - 1
            BY <1>1, <1>4, <2>1
        <3> QED
            BY <3>1, Zenon
    <2>2. ASSUME NEW i \in 1..n
          PROVE  o + i - 1 \in Nat /\ o <= o + i - 1 /\ o + i - 1 < count
        BY <1>1, <1>4
    <2> QED
        BY <2>1, <2>2, Zenon
<1>9. {i \in Nat : i < count - MatchCap} = {i \in Nat : i < o}
    BY <1>1, <1>4
<1>10. (0..count - 1) \ {j \in Nat : o <= j /\ j < count} = {i \in Nat : i < o}
    BY <1>1, <1>4
<1> QED
    BY <1>1, <1>7, <1>8, <1>9, <1>10, Zenon DEF shown

\* The newest entry is the one the last operation wrote.
LEMMA LatestFollows == MatchesOK => LatestIsCurrent
<1> SUFFICES ASSUME MatchesOK, NEW m \in RecordedMatches, matches[m] # NoMatch
             PROVE  LET full == get_latest_snapshot("admin", m)
                    IN  /\ full # NoSnapshot
                        /\ full.balance = escrow_balance_of(matches[m])
                        /\ full.deposited = matches[m].deposited
                        /\ \A p \in Players :
                             get_latest_snapshot(p, m) = redact_snapshot(full)
    BY Zenon DEF LatestIsCurrent
<1> DEFINE count == mcount[m]
           last == mslots[m][(count - 1) % MatchCap]
<1>1. /\ MatchCap \in Nat \ {0} /\ Ring(mslots[m], count, MatchCap) /\ count \in Nat
      /\ count > 0 /\ Shows(last, matches[m])
    BY RingsAssumption, Zenon DEF MatchesOK, MatchOK, Ring
<1>2. ~(count = 0)
    BY <1>1
<1>3. get_latest_snapshot("admin", m) = last
    <2>1. authorize_snapshot_query("admin") = "full" /\ "full" # "Unauthorized"
        BY AccessIs
    <2> QED
        BY <1>2, <2>1, Zenon DEF get_latest_snapshot, Shown
<1>4. \A p \in Players : get_latest_snapshot(p, m) = redact_snapshot(last)
    <2>1. \A p \in Players : authorize_snapshot_query(p) = "redacted"
        BY AccessIs
    <2>2. "redacted" # "Unauthorized" /\ "redacted" # "full"
        OBVIOUS
    <2> QED
        BY <1>2, <2>1, <2>2, Zenon DEF get_latest_snapshot, Shown
<1>5. last # NoSnapshot
    <2>1. /\ count - 1 \in Nat /\ count - 1 < count
          /\ Oldest(count, MatchCap) <= count - 1
        BY <1>1 DEF Oldest, Kept
    <2>2. last.index = count - 1
        BY <1>1, <2>1, Zenon DEF Ring
    <2>3. NoSnapshot.index = -1 /\ -1 # count - 1
        BY <2>1 DEF NoSnapshot
    <2> QED
        BY <2>2, <2>3, Zenon
<1> QED
    BY <1>1, <1>3, <1>4, <1>5, Zenon DEF Shows

\* What a player's buffer answers is true of the whole history.
LEMMA AnswersFollow == PlayersOK => AnswersAreTrue
<1> SUFFICES ASSUME PlayersOK, NEW p \in Players, NEW ts \in 0..MaxNow
             PROVE  LET answer == get_balance_at_timestamp(p, ts)
                        last == CHOOSE i \in Before(p, ts) :
                                  \A j \in Before(p, ts) : j <= i
                    IN  CASE answer[1] = "Known" ->
                               Before(p, ts) # {} /\ answer[2] = plog[p][last].balance
                          [] answer[1] = "NoHistory" -> Before(p, ts) = {}
                          [] OTHER -> /\ Len(plog[p]) > PlayerCap
                                      /\ \A i \in Before(p, ts) :
                                           i <= Len(plog[p]) - PlayerCap
    BY Zenon DEF AnswersAreTrue
<1> DEFINE count == pcount[p]
           slots == pslots[p]
           hist == plog[p]
           start == IF count > PlayerCap THEN count - PlayerCap ELSE 0
           good == {i \in start..count - 1 :
                      LET s == slots[i % PlayerCap] IN s.index = i /\ s.ledger <= ts}
           all == Before(p, ts)
           answer == get_balance_at_timestamp(p, ts)
           last == CHOOSE i \in all : \A j \in all : j <= i
           newest == CHOOSE i \in good : \A j \in good : j <= i
<1>1. /\ PlayerCap \in Nat \ {0} /\ Ring(slots, count, PlayerCap) /\ count \in Nat
      /\ hist \in Seq(Entry) /\ Len(hist) = count
      /\ \A i \in Nat : Oldest(count, PlayerCap) <= i /\ i < count
                          => slots[i % PlayerCap] = hist[i + 1]
      /\ ts \in Int
    <2>1. ts \in Int
        BY RingsAssumption
    <2> QED
        BY RingsAssumption, <2>1, Zenon DEF PlayersOK, PlayerOK, Ring
<1>2. start = Oldest(count, PlayerCap) /\ start \in Nat /\ start <= count
    BY <1>1 DEF Oldest, Kept
<1>3. all = {i \in 1..count : hist[i].ledger <= ts}
    <2>1. DOMAIN hist = 1..count
        BY <1>1
    <2> QED
        BY <2>1, Zenon DEF Before
<1>4. /\ good # {} => answer = <<"Known", slots[newest % PlayerCap].balance>>
      /\ good = {} /\ start > 0 => answer = <<"Pruned">>
      /\ good = {} /\ ~(start > 0) => answer = <<"NoHistory">>
    BY Zenon DEF get_balance_at_timestamp
<1> HIDE DEF start, answer, all
<1>5. \A i \in start..count - 1 : i \in good <=> i + 1 \in all
    <2> SUFFICES ASSUME NEW i \in start..count - 1 PROVE i \in good <=> i + 1 \in all
        OBVIOUS
    <2>1. i \in Nat /\ i < count /\ Oldest(count, PlayerCap) <= i /\ i + 1 \in 1..count
        BY <1>1, <1>2
    <2>2. slots[i % PlayerCap] = hist[i + 1] /\ slots[i % PlayerCap].index = i
        BY <1>1, <2>1, Zenon DEF Ring
    <2> QED
        BY <1>3, <2>1, <2>2, Zenon
<1>6. \A i \in good : i \in start..count - 1
    BY Zenon
<1>7. all \in SUBSET (0..count)
    BY <1>1, <1>3
<1> HIDE DEF good
<1>8. CASE good # {}
    <2>1. PICK g \in good : TRUE
        BY <1>8, Zenon
    <2>2. g + 1 \in all
        BY <1>5, <1>6, Zenon
    <2>3. all # {}
        BY <2>2, Zenon
    <2>4. \E i \in all : \A j \in all : j <= i
        BY <1>1, <1>7, <2>3, Largest, Zenon
    <2>5. last \in all /\ \A j \in all : j <= last
        BY <2>4, Zenon
    <2> HIDE DEF last
    <2>6. last - 1 \in start..count - 1 /\ last - 1 + 1 = last
        <3>1. g + 1 <= last /\ g \in start..count - 1 /\ last \in 1..count
            BY <1>3, <1>6, <2>2, <2>5, Zenon
        <3> QED
            BY <1>1, <1>2, <3>1
    <2>7. last - 1 \in good
        BY <1>5, <2>5, <2>6, Zenon
    <2>8. \A j \in good : j <= last - 1
        <3> SUFFICES ASSUME NEW j \in good PROVE j <= last - 1
            OBVIOUS
        <3>1. j + 1 <= last /\ j \in start..count - 1
            BY <1>5, <1>6, <2>5, Zenon
        <3> QED
            BY <1>1, <1>2, <2>6, <3>1
    <2>9. newest = last - 1
        <3>1. newest \in good /\ \A j \in good : j <= newest
            BY <2>7, <2>8, Zenon
        <3>2. newest \in start..count - 1
            BY <1>6, <3>1, Zenon
        <3>3. newest <= last - 1 /\ last - 1 <= newest
            BY <2>7, <2>8, <3>1, Zenon
        <3> QED
            BY <1>1, <1>2, <2>6, <3>2, <3>3
    <2>10. slots[newest % PlayerCap] = hist[last]
        <3>1. /\ last - 1 \in Nat /\ Oldest(count, PlayerCap) <= last - 1
              /\ last - 1 < count
            BY <1>1, <1>2, <2>6
        <3>2. slots[(last - 1) % PlayerCap] = hist[last - 1 + 1]
            BY <1>1, <3>1, Zenon
        <3> QED
            BY <2>6, <2>9, <3>2, Zenon
    <2>11. answer[1] = "Known" /\ answer[2] = hist[last].balance
        <3>1. answer = <<"Known", hist[last].balance>>
            BY <1>4, <1>8, <2>10, Zenon
        <3> QED
            BY <3>1
    <2> QED
        BY <2>3, <2>11, Zenon DEF answer, all, last
<1>9. CASE good = {} /\ start > 0
    <2>1. answer[1] = "Pruned" /\ "Pruned" # "Known" /\ "Pruned" # "NoHistory"
        <3>1. answer = <<"Pruned">>
            BY <1>4, <1>9, Zenon
        <3> QED
            BY <3>1
    <2>2. count > PlayerCap /\ start = count - PlayerCap
        BY <1>1, <1>9 DEF start
    <2>3. ASSUME NEW i \in all PROVE i <= count - PlayerCap
        <3>1. i \in 1..count
            BY <1>3, Zenon
        <3>2. ~(i - 1 \in start..count - 1)
            <4>1. i - 1 + 1 = i
                BY <3>1
            <4> QED
                BY <1>5, <1>9, <4>1, Zenon
        <3> QED
            BY <1>1, <1>2, <2>2, <3>1, <3>2
    <2>4. Len(hist) > PlayerCap /\ \A i \in all : i <= Len(hist) - PlayerCap
        BY <1>1, <2>2, <2>3, Zenon
    <2> QED
        BY <2>1, <2>4, Zenon DEF answer, all
<1>10. CASE good = {} /\ ~(start > 0)
    <2>1. answer[1] = "NoHistory" /\ "NoHistory" # "Known"
        <3>1. answer = <<"NoHistory">>
            BY <1>4, <1>10, Zenon
        <3> QED
            BY <3>1
    <2>2. \A i \in all : FALSE
        <3> SUFFICES ASSUME NEW i \in all PROVE FALSE
            OBVIOUS
        <3>1. i \in 1..count
            BY <1>3, Zenon
        <3>2. i - 1 \in start..count - 1 /\ i - 1 + 1 = i
            BY <1>1, <1>2, <1>10, <3>1
        <3> QED
            BY <1>5, <1>10, <3>2, Zenon
    <2>3. all = {}
        BY <2>2, Zenon
    <2> QED
        BY <2>1, <2>3, Zenon DEF answer, all
<1> QED
    BY <1>8, <1>9, <1>10, Zenon

\* The reader.
LEMMA PagesFollow == ReaderOK => PagesInOrder
<1> SUFFICES ASSUME ReaderOK PROVE PagesInOrder
    OBVIOUS
<1>1. DOMAIN gathered = 1..Len(gathered)
    BY DEF ReaderOK, Read
<1> QED
    BY <1>1, Zenon DEF ReaderOK, Read, PagesInOrder

RingsSafe ==
    LossIsAnnounced /\ LatestIsCurrent /\ AnswersAreTrue /\ PagesInOrder /\ SymbolKept

\* For every number of matches and players, every capacity of the buffers and
\* every page size: the two ring buffers implement append-only logs of which a
\* reader sees the newest entries, no snapshot is lost without its event, the
\* newest shows the present record, and the queries are true of the whole
\* history (record_snapshot, record_player_snapshot and the queries).
THEOREM SnapshotsProved == RingsSpec => SnapshotsTrue
<1>1. RingsInit => RingsInv /\ MatchLog!Init /\ PlayerLog!Init
    BY InitRings
<1>2. RingsInv /\ [RingsNext]_ringVars => RingsInv' /\ LogsStep
    BY StepRings
<1>3. RingsInv => RingsSafe
    BY LossFollows, LatestFollows, AnswersFollow, PagesFollow, Zenon
    DEF RingsInv, RingsSafe, SymbolKept, SymbolOK
<1>4. LogsStep => [MatchLog!Next]_MatchLog!vars /\ [PlayerLog!Next]_PlayerLog!vars
    BY Zenon DEF LogsStep
<1> QED
    BY <1>1, <1>2, <1>3, <1>4, PTL
    DEF RingsSpec, SnapshotsTrue, MatchRingIsALog, PlayerRingIsALog, MatchLog!Spec,
        PlayerLog!Spec, RingsSafe

(***************************************************************************)
(* The health checker.  While a check runs, what a probe found is          *)
(* explained by what its dependency was seen to do since the check began;  *)
(* publishing the joined results hands that over to the results that are   *)
(* read.                                                                   *)
(***************************************************************************)
\* A result is explained by the conditions in S.
Explained(status, S) ==
    /\ status \in {"Up", "Down"}
    /\ status = "Up" => "ok" \in S
    /\ status = "Down" => S \ {"ok"} # {}

FoundInv ==
    phase = "probing" =>
        /\ \A d \in Dependencies : Kind(world[d]) \in seen[d]
        /\ \A d \in DOMAIN found : Explained(found[d], seen[d])

ChecksInv ==
    \A d \in Dependencies : checks[d] # "Unknown" => Explained(checks[d], basis[d])

HealthInv ==
    /\ HealthTypeOK /\ found = [d \in DOMAIN found |-> found[d]]
    /\ seen \in [Dependencies -> SUBSET Conditions]
    /\ FoundInv /\ ChecksInv

\* What a probe finds is explained by the condition it met.
LEMMA ProbeExplained ==
    ASSUME NEW d \in Dependencies, world[d] \in Conditions, NEW S,
           Kind(world[d]) \in S
    PROVE  Explained(Probe(d), S)
BY DEF Explained, Probe, CriticalProbe, PlatformProbe, TextHasRate, Kind, Conditions

\* Every step keeps the invariant.
LEMMA HealthStep ==
    ASSUME HealthInv, [WatchedNext]_<<checkerVars, seen, basis>>
    PROVE  HealthInv'
<1>1. CASE UNCHANGED <<checkerVars, seen, basis>>
  BY <1>1 DEF checkerVars, HealthInv, HealthTypeOK, FoundInv, ChecksInv, Explained, Kind
<1>2. ASSUME WatchedNext PROVE HealthInv'
  <2>1. /\ world \in [Dependencies -> Conditions] /\ phase \in {"idle", "probing"}
        /\ seen \in [Dependencies -> SUBSET Conditions]
        /\ seen' = [d \in Dependencies |->
              (IF phase = "idle" THEN {} ELSE seen[d]) \union {Kind(world'[d])}]
    BY <1>2 DEF HealthInv, HealthTypeOK, WatchedNext, Watch
  <2>2. world' \in [Dependencies -> Conditions]
    BY <1>2, <2>1 DEF WatchedNext, HealthNext, StartCheck, Publish, ProbeEnds, Turn, ConditionsOf
  <2>3. /\ seen' \in [Dependencies -> SUBSET Conditions]
        /\ \A d \in Dependencies : Kind(world'[d]) \in seen'[d]
        /\ phase = "probing" => \A d \in Dependencies : seen[d] \subseteq seen'[d]
    BY <2>1, <2>2 DEF Kind, Conditions
  <2>4. CASE StartCheck
    BY <1>2, <2>2, <2>3, <2>4
       DEF StartCheck, WatchedNext, Watch, HealthInv, HealthTypeOK, FoundInv, ChecksInv
  <2>5. ASSUME NEW e \in Dependencies, ProbeEnds(e) PROVE HealthInv'
    <3>1. /\ phase = "probing" /\ UNCHANGED <<world, phase, checks, basis>>
          /\ DOMAIN found' = DOMAIN found \union {e}
          /\ found' = [d \in DOMAIN found' |-> found'[d]]
          /\ \A d \in DOMAIN found' : found'[d] = IF d = e THEN Probe(e) ELSE found[d]
      BY <1>2, <2>5 DEF ProbeEnds, WatchedNext, Watch
    <3>2. Explained(Probe(e), seen'[e])
      BY <2>1, <2>3, <3>1, ProbeExplained
    <3>3. ASSUME NEW d \in DOMAIN found' PROVE Explained(found'[d], seen'[d])
      <4>1. CASE d = e
        BY <3>1, <3>2, <4>1
      <4>2. CASE d # e
        <5>1. /\ d \in DOMAIN found /\ d \in Dependencies /\ found'[d] = found[d]
              /\ Explained(found[d], seen[d])
          BY <3>1, <4>2 DEF HealthInv, HealthTypeOK, FoundInv
        <5>2. seen[d] \subseteq seen'[d]
          BY <2>3, <3>1, <5>1
        <5> QED
          BY <5>1, <5>2 DEF Explained
      <4> QED
        BY <4>1, <4>2
    <3>4. FoundInv' /\ ChecksInv'
      BY <2>3, <3>1, <3>3 DEF HealthInv, FoundInv, ChecksInv, Explained, Kind
    <3>5. HealthTypeOK'
      <4>1. \A d \in DOMAIN found' : found'[d] \in CheckStatuses
        BY <3>3 DEF Explained, CheckStatuses
      <4> QED
        BY <2>2, <2>5, <3>1, <4>1 DEF HealthInv, HealthTypeOK
    <3> QED
      BY <2>3, <3>1, <3>4, <3>5 DEF HealthInv
  <2>6. CASE Publish
    <3>1. /\ phase = "probing" /\ phase' = "idle" /\ DOMAIN found = Dependencies
          /\ checks' = found /\ basis' = seen /\ UNCHANGED <<world, found>>
      BY <1>2, <2>6 DEF Publish, WatchedNext, Watch
    <3>2. checks' \in [Dependencies -> CheckStatuses]
      BY <3>1 DEF HealthInv, HealthTypeOK
    <3>3. ChecksInv'
      BY <3>1 DEF HealthInv, FoundInv, ChecksInv
    <3> QED
      BY <2>2, <2>3, <3>1, <3>2, <3>3 DEF HealthInv, HealthTypeOK, FoundInv
  <2>7. ASSUME NEW e \in Dependencies, Turn(e) PROVE HealthInv'
    <3>1. UNCHANGED <<phase, found, checks, basis>>
      BY <1>2, <2>1, <2>7 DEF Turn, WatchedNext, Watch
    <3>2. FoundInv'
      BY <2>3, <3>1 DEF HealthInv, HealthTypeOK, FoundInv, Explained
    <3> QED
      BY <2>2, <2>3, <3>1, <3>2 DEF HealthInv, HealthTypeOK, ChecksInv, Explained
  <2> QED
    BY <1>2, <2>4, <2>5, <2>6, <2>7 DEF WatchedNext, HealthNext
<1> QED
  BY <1>1, <1>2

\* For any dependencies, behaving in any way: the results that GET /health reads
\* are from one check and explained by it, and the service is ready only after a
\* check in which every critical dependency answered (check_all, status).
THEOREM ReportsProved == WatchedSpec => []ReportsSound
<1>1. WatchedInit => HealthInv
  BY DEF WatchedInit, HealthInit, HealthInv, HealthTypeOK, FoundInv, ChecksInv, CheckStatuses
<1>2. HealthInv /\ [WatchedNext]_<<checkerVars, seen, basis>> => HealthInv'
  BY HealthStep
<1>3. HealthInv => ReportsSound
  <2> SUFFICES ASSUME HealthInv PROVE ReportsSound
    OBVIOUS
  <2>1. ASSUME NEW d \in Critical, ServiceReady PROVE checks[d] = "Up"
    <3>1. d \in Dependencies /\ checks[d] # "Unknown" /\ checks[d] # "Down"
      BY <2>1 DEF Dependencies, ServiceReady, OverallStatus
    <3> QED
      BY <3>1 DEF HealthInv, ChecksInv, Explained
  <2> QED
    BY <2>1 DEF HealthInv, ChecksInv, Explained, ReportsSound, Dependencies
<1> QED
  BY <1>1, <1>2, <1>3, PTL DEF WatchedSpec


(***************************************************************************)
(* The queue.  RemovalJustified needs what the polling task is in the      *)
(* middle of: which half of exhaust_entry it is in, that its copy of the   *)
(* dead letters is current, and that a removal follows a push or a         *)
(* confirmed submission.                                                   *)
(***************************************************************************)
Tasks == {"tick", "rec", "replay"}
TickFields == {"pc", "due", "prep", "pend", "ans", "single", "cur"}

\* The file operation op of the polling task t, when letters is the dead letters
\* and the matches are in the states c, while nobody has replayed: a push is the
\* first half of exhaust_entry and its copy of the store is the store, since no
\* other task writes it; a removal is the second half, after the push, or follows
\* a confirmed submission.
TickOpOK(op, t, letters, c) ==
  \/ op = NoIO /\ (t.pc = "remove" => t.cur \in letters)
  \/ op.kind = "update" /\ t.pc # "remove"
  \/ /\ op.kind = "push" /\ t.pc = "remove" /\ op.m = t.cur
     /\ op.loaded => op.copy = letters
  \/ /\ op.kind = "remove" /\ t.pc # "remove" /\ op.m \in Matches
     /\ c[op.m] \in {"Settled", "Closed"} \/ op.m \in letters

TickShape(t) ==
  /\ DOMAIN t = TickFields
  /\ t.pc # "sleep" /\ t.pc # "work" => t.cur \in Matches

Shapes ==
  /\ DOMAIN io = Tasks
  /\ chain \in [Matches -> {"None", "Active", "Settled", "Closed"}]
  /\ replays \in Nat
  /\ TickShape(tick)

\* The tasks, while nobody has replayed.
TasksOK ==
  /\ replay.left = {} /\ replay.cur = 0 /\ io["replay"] = NoIO
  /\ io["rec"] = NoIO \/ io["rec"].kind = "enqueue"
  /\ TickOpOK(io["tick"], tick, dead, chain)

\* The inductive invariant.
QueueInv == Shapes /\ (replays = 0 => TasksOK)


-----------------------------------------------------------------------------
(* Steps of the polling task.                                              *)

\* A step that leaves chain, store and the other tasks alone, and gives the
\* polling task t the file operation op.
TickTakes(op, t) ==
  /\ UNCHANGED <<chain, dead, replay, replays>>
  /\ tick' = t /\ TickShape(t)
  /\ DOMAIN io' = Tasks /\ io'["tick"] = op
  /\ io'["rec"] = io["rec"] /\ io'["replay"] = io["replay"]

\* Such a step keeps the invariant if the operation is in order.
LEMMA TakesKeeps ==
  ASSUME QueueInv, NEW op, NEW t, TickTakes(op, t),
         replays = 0 => TickOpOK(op, t, dead, chain)
  PROVE  QueueInv'
<1>1. /\ chain' = chain /\ dead' = dead /\ replay' = replay /\ replays' = replays
      /\ tick' = t /\ TickShape(t)
    BY DEF TickTakes
<1>2. Shapes
    BY DEF QueueInv
<1>3. /\ DOMAIN io' = Tasks /\ io'["tick"] = op
      /\ io'["rec"] = io["rec"] /\ io'["replay"] = io["replay"]
    BY DEF TickTakes
<1>4. Shapes'
    BY <1>1, <1>2, <1>3 DEF Shapes, TickShape
<1>5. ASSUME replays = 0 PROVE TasksOK'
    <2>1. TasksOK
        BY <1>5 DEF QueueInv
    <2>2. TickOpOK(io'["tick"], tick', dead', chain')
        BY <1>1, <1>3, <1>5, Zenon
    <2>3. TasksOK' = (/\ replay'.left = {} /\ replay'.cur = 0 /\ io'["replay"] = NoIO
                      /\ io'["rec"] = NoIO \/ io'["rec"].kind = "enqueue"
                      /\ TickOpOK(io'["tick"], tick', dead', chain'))
        BY DEF TasksOK, TickOpOK, NoIO
    <2> QED
        BY <1>1, <1>3, <2>1, <2>2, <2>3, Zenon DEF TasksOK
<1> QED
    BY <1>1, <1>4, <1>5, Zenon DEF QueueInv

\* How the task gets an operation, or keeps the one it has.
LEMMA OpTaken ==
  ASSUME QueueInv, NEW op, NEW t, tick' = t, TickShape(t),
         \/ io' = [io EXCEPT !["tick"] = op]
         \/ io' = io /\ io["tick"] = op,
         UNCHANGED <<chain, dead, replay, replays>>
  PROVE  TickTakes(op, t)
<1>1. DOMAIN io = Tasks
    BY DEF QueueInv, Shapes
<1>2. /\ DOMAIN io' = Tasks /\ io'["tick"] = op
      /\ io'["rec"] = io["rec"] /\ io'["replay"] = io["replay"]
    BY <1>1 DEF Tasks
<1> QED
    BY <1>2 DEF TickTakes

\* The task while it has no file operation.
LEMMA IdleIs ==
  ASSUME QueueInv, Idle("tick")
  PROVE  /\ io["tick"] = NoIO /\ TickShape(tick)
         /\ replays = 0 => (tick.pc = "remove" => tick.cur \in dead)
<1>1. io["tick"] = NoIO /\ TickShape(tick)
    BY DEF Idle, QueueInv, Shapes
<1>2. NoIO.kind = "none"
    BY DEF NoIO
<1>3. ASSUME replays = 0, tick.pc = "remove" PROVE tick.cur \in dead
    BY <1>1, <1>2, <1>3 DEF QueueInv, TasksOK, TickOpOK
<1> QED
    BY <1>1, <1>3

\* The fields of a changed record of the task.
Shaped(t, pc, cur) == DOMAIN t = TickFields /\ t.pc = pc /\ t.cur = cur

LEMMA ShapedOK ==
  ASSUME NEW t, NEW pc, NEW cur, Shaped(t, pc, cur),
         cur \in Matches \/ pc \in {"sleep", "work"}
  PROVE  TickShape(t)
  BY DEF Shaped, TickShape

\* Without an operation, outside exhaust_entry.
LEMMA FreeKeeps ==
  ASSUME QueueInv, Idle("tick"), NEW t, NEW pc, NEW cur, Shaped(t, pc, cur),
         cur \in Matches \/ pc \in {"sleep", "work"}, pc # "remove",
         UNCHANGED <<chain, dead, replay, replays, io>>, tick' = t
  PROVE  QueueInv'
<1>1. io["tick"] = NoIO
    BY IdleIs
<1>2. TickShape(t)
    BY ShapedOK, Zenon
<1>3. TickTakes(NoIO, t)
    BY <1>1, <1>2, OpTaken, Zenon
<1>4. TickOpOK(NoIO, t, dead, chain)
    BY DEF TickOpOK, Shaped
<1> QED
    BY <1>3, <1>4, TakesKeeps, Zenon

\* exhaust_entry begins.
LEMMA ExhaustKeeps ==
  ASSUME QueueInv, NEW m \in Matches, NEW t, DOMAIN t = TickFields, NEW a,
         Exhaust(m, t, a), UNCHANGED <<chain, dead, replay, replays>>
  PROVE  QueueInv'
<1> DEFINE u == [t EXCEPT !.pc = "remove", !.cur = m, !.due = Without(@, m)]
           op == DeadOp("push", m, a)
<1>1. tick' = u /\ io' = [io EXCEPT !["tick"] = op]
    BY DEF Exhaust
<1>2. Shaped(u, "remove", m)
    BY DEF Shaped, TickFields
<1> HIDE DEF u
<1>3. TickShape(u)
    BY <1>2, ShapedOK, Zenon
<1>4. op.kind = "push" /\ op.m = m /\ op.loaded = FALSE
    BY DEF DeadOp
<1> HIDE DEF op
<1>5. TickOpOK(op, u, dead, chain)
    BY <1>2, <1>4 DEF TickOpOK, Shaped
<1>6. TickTakes(op, u)
    BY <1>1, <1>3, OpTaken, Zenon
<1> QED
    BY <1>5, <1>6, TakesKeeps, Zenon

\* handle_transient.
LEMMA TransientKeeps ==
  ASSUME QueueInv, NEW m \in Matches, NEW t, DOMAIN t = TickFields,
         HandleTransient(m, t), UNCHANGED <<chain, dead, replay, replays>>
  PROVE  QueueInv'
<1> DEFINE a == t.due[m] + 1
           u == [t EXCEPT !.pc = "work", !.cur = 0, !.due = Without(@, m)]
           op == QueueOp("update", m, a)
<1>1. CASE Exhaust(m, t, a)
    BY <1>1, ExhaustKeeps, Zenon
<1>2. CASE tick' = u /\ io' = [io EXCEPT !["tick"] = op]
    <2>1. Shaped(u, "work", 0)
        BY DEF Shaped, TickFields
    <2> HIDE DEF u
    <2>2. TickShape(u)
        BY <2>1, ShapedOK, Zenon
    <2>3. op.kind = "update"
        BY DEF QueueOp
    <2> HIDE DEF op
    <2>4. TickOpOK(op, u, dead, chain)
        BY <2>1, <2>3 DEF TickOpOK, Shaped
    <2>5. TickTakes(op, u)
        BY <1>2, <2>2, OpTaken, Zenon
    <2> QED
        BY <2>4, <2>5, TakesKeeps, Zenon
<1> QED
    BY <1>1, <1>2, Zenon DEF HandleTransient

\* A removal from the queue is taken up.
LEMMA RemovalKeeps ==
  ASSUME QueueInv, NEW m \in Matches, NEW t, NEW pc, NEW cur, Shaped(t, pc, cur),
         cur \in Matches \/ pc \in {"sleep", "work"}, pc # "remove",
         io' = [io EXCEPT !["tick"] = QueueOp("remove", m, 0)], tick' = t,
         UNCHANGED <<chain, dead, replay, replays>>,
         replays = 0 => chain[m] \in {"Settled", "Closed"} \/ m \in dead
  PROVE  QueueInv'
<1> DEFINE op == QueueOp("remove", m, 0)
<1>1. op.kind = "remove" /\ op.m = m
    BY DEF QueueOp
<1>2. TickShape(t)
    BY ShapedOK, Zenon
<1>3. TickTakes(op, t)
    BY <1>2, OpTaken, Zenon
<1> HIDE DEF op
<1>4. replays = 0 => TickOpOK(op, t, dead, chain)
    BY <1>1 DEF TickOpOK, Shaped
<1> QED
    BY <1>3, <1>4, TakesKeeps, Zenon


-----------------------------------------------------------------------------
(* The actions of the polling task.                                        *)

\* What the polling task alone leaves as it is.
Others == <<chain, dead, replay, replays>>

\* handle_fetch_outcome.
LEMMA OutcomeKeeps ==
  ASSUME QueueInv, Idle("tick"), NEW m \in Matches, NEW t, DOMAIN t = TickFields, NEW answer,
         HandleFetchOutcome(m, answer, t), UNCHANGED Others
  PROVE  QueueInv'
<1>1. UNCHANGED <<chain, dead, replay, replays>>
    BY DEF Others
<1>2. CASE tick' = [t EXCEPT !.pc = "submit", !.cur = m] /\ UNCHANGED io
    <2> DEFINE u == [t EXCEPT !.pc = "submit", !.cur = m]
    <2>1. Shaped(u, "submit", m) /\ "submit" # "remove"
        BY DEF Shaped, TickFields
    <2> HIDE DEF u
    <2> QED
        BY <1>1, <1>2, <2>1, FreeKeeps, Zenon DEF u
<1>3. CASE Exhaust(m, t, 0)
    BY <1>1, <1>3, ExhaustKeeps, Zenon
<1>4. CASE HandleTransient(m, t)
    BY <1>1, <1>4, TransientKeeps, Zenon
<1> QED
    BY <1>2, <1>3, <1>4, Zenon DEF HandleFetchOutcome

\* An invalid id, or a result that is cached.
LEMMA ShortcutKeeps ==
  ASSUME QueueInv, Idle("tick"), NEW m \in Matches, NEW t, DOMAIN t = TickFields,
         Rejected(m, t) \/ CacheHit(m, t), UNCHANGED Others
  PROVE  QueueInv'
<1>1. UNCHANGED <<chain, dead, replay, replays>>
    BY DEF Others
<1>2. CASE Rejected(m, t)
    BY <1>1, <1>2, ExhaustKeeps, Zenon DEF Rejected
<1>3. CASE CacheHit(m, t)
    <2> DEFINE u == [t EXCEPT !.pc = "submit", !.cur = m]
    <2>1. Shaped(u, "submit", m) /\ "submit" # "remove"
        BY DEF Shaped, TickFields
    <2>2. tick' = u /\ UNCHANGED io
        BY <1>3 DEF CacheHit
    <2> HIDE DEF u
    <2> QED
        BY <1>1, <2>1, <2>2, FreeKeeps, Zenon
<1> QED
    BY <1>2, <1>3

\* The task at work, and what a change of its lists leaves.
LEMMA WorkingIs ==
  ASSUME QueueInv, Working
  PROVE  /\ Idle("tick") /\ DOMAIN tick = TickFields /\ tick.pc = "work"
         /\ Shaped(tick, "work", tick.cur)
  BY DEF Working, QueueInv, Shapes, TickShape, Shaped

\* A change of the lists of the task at work.
LEMMA ListsKeep ==
  ASSUME QueueInv, Working, NEW t, Shaped(t, "work", tick.cur), tick' = t,
         UNCHANGED io, UNCHANGED Others
  PROVE  QueueInv'
<1>1. UNCHANGED <<chain, dead, replay, replays, io>> /\ Idle("tick") /\ "work" # "remove"
    BY DEF Others, Working
<1> QED
    BY <1>1, FreeKeeps, Zenon

LEMMA TickStartKeeps ==
  ASSUME QueueInv, NEW D, TickStart(D)
  PROVE  QueueInv'
<1> DEFINE t == [NoTick EXCEPT !.pc = "work",
                               !.due = [m \in D |-> queue[m]],
                               !.prep = IF "lichess" \in paused THEN {} ELSE D \cap Lichess,
                               !.single = D \ Lichess]
<1>1. Idle("tick") /\ tick' = t /\ UNCHANGED <<chain, dead, replay, replays, io>>
    BY DEF TickStart, tickOnly, network, disk, bounds
<1>2. Shaped(t, "work", 0) /\ "work" # "remove"
    BY DEF Shaped, TickFields, NoTick
<1> HIDE DEF t
<1> QED
    BY <1>1, <1>2, FreeKeeps, Zenon

LEMMA PrepareKeeps ==
  ASSUME QueueInv, NEW m \in Matches, PrepareEntry(m)
  PROVE  QueueInv'
<1> DEFINE t == [tick EXCEPT !.prep = @ \ {m}]
           u == [t EXCEPT !.pend = @ \union {m}]
<1>1. Working /\ UNCHANGED Others
    BY DEF PrepareEntry, tickOnly, network, disk, bounds, Others
<1>2. Idle("tick") /\ DOMAIN tick = TickFields /\ tick.pc = "work"
    BY <1>1, WorkingIs
<1>3. DOMAIN t = TickFields /\ Shaped(u, "work", tick.cur)
    BY <1>2 DEF TickFields, Shaped
<1>4. \/ Rejected(m, t) \/ CacheHit(m, t)
      \/ tick' = u /\ UNCHANGED io
    BY Zenon DEF PrepareEntry
<1> HIDE DEF t, u
<1>5. CASE Rejected(m, t) \/ CacheHit(m, t)
    BY <1>1, <1>2, <1>3, <1>5, ShortcutKeeps, Zenon
<1>6. CASE tick' = u /\ UNCHANGED io
    BY <1>1, <1>3, <1>6, ListsKeep, Zenon
<1> QED
    BY <1>4, <1>5, <1>6

LEMMA AnswerKeeps ==
  ASSUME QueueInv, NEW m \in Matches, NextAnswer(m)
  PROVE  QueueInv'
<1> DEFINE t == [tick EXCEPT !.ans = Without(@, m)]
<1>1. Working /\ UNCHANGED Others /\ HandleFetchOutcome(m, tick.ans[m], t)
    BY DEF NextAnswer, tickOnly, network, disk, bounds, Others
<1>2. Idle("tick") /\ DOMAIN tick = TickFields
    BY <1>1, WorkingIs
<1>3. DOMAIN t = TickFields
    BY <1>2 DEF TickFields
<1> HIDE DEF t
<1> QED
    BY <1>1, <1>2, <1>3, OutcomeKeeps, Zenon

LEMMA EntryKeeps ==
  ASSUME QueueInv, NEW m \in Matches, ProcessEntry(m)
  PROVE  QueueInv'
<1> DEFINE t == [tick EXCEPT !.single = @ \ {m}]
<1>1. Working /\ UNCHANGED Others
    BY DEF ProcessEntry, OneByOne, tickOnly, network, disk, bounds, Others
<1>2. Idle("tick") /\ DOMAIN tick = TickFields
    BY <1>1, WorkingIs
<1>3. DOMAIN t = TickFields
    BY <1>2 DEF TickFields
<1>4. \/ Rejected(m, t) \/ CacheHit(m, t)
      \/ \E answer \in Answers : HandleFetchOutcome(m, answer, t)
    BY Zenon DEF ProcessEntry
<1> HIDE DEF t
<1>5. CASE Rejected(m, t) \/ CacheHit(m, t)
    BY <1>1, <1>2, <1>3, <1>5, ShortcutKeeps, Zenon
<1>6. CASE \E answer \in Answers : HandleFetchOutcome(m, answer, t)
    BY <1>1, <1>2, <1>3, <1>6, OutcomeKeeps, Zenon
<1> QED
    BY <1>4, <1>5, <1>6

\* The steps that only change lists.
LEMMA BatchKeeps ==
  ASSUME QueueInv,
         \/ BatchAnswered \/ BatchUnavailable \/ BatchRateLimited
         \/ \E m \in Matches : SkipPlatform(m) \/ EntryRateLimited(m)
  PROVE  QueueInv'
<1>1. Working /\ UNCHANGED Others /\ UNCHANGED io
    BY DEF BatchAnswered, BatchUnavailable, BatchRateLimited, SkipPlatform, EntryRateLimited,
           BatchReady, OneByOne, tickOnly, network, disk, bounds, Others
<1>2. DOMAIN tick = TickFields /\ tick.pc = "work"
    BY <1>1, WorkingIs
<1>3. Shaped(tick', "work", tick.cur)
    <2>1. CASE BatchAnswered
        <3>1. PICK ans : tick' = [tick EXCEPT !.pend = {}, !.ans = ans]
            BY <2>1 DEF BatchAnswered
        <3> QED
            BY <1>2, <3>1 DEF Shaped, TickFields
    <2>2. CASE BatchUnavailable
        BY <1>2, <2>2 DEF BatchUnavailable, Shaped, TickFields
    <2>3. CASE BatchRateLimited
        BY <1>2, <2>3 DEF BatchRateLimited, Shaped, TickFields
    <2>4. ASSUME NEW m \in Matches, SkipPlatform(m) PROVE Shaped(tick', "work", tick.cur)
        BY <1>2, <2>4 DEF SkipPlatform, Shaped, TickFields
    <2>5. ASSUME NEW m \in Matches, EntryRateLimited(m)
          PROVE  Shaped(tick', "work", tick.cur)
        BY <1>2, <2>5 DEF EntryRateLimited, Shaped, TickFields
    <2> QED
        BY <2>1, <2>2, <2>3, <2>4, <2>5
<1> QED
    BY <1>1, <1>3, ListsKeep, Zenon

LEMMA TickEndKeeps ==
  ASSUME QueueInv, TickEnd
  PROVE  QueueInv'
<1>1. Idle("tick") /\ tick' = NoTick /\ UNCHANGED <<chain, dead, replay, replays, io>>
    BY DEF TickEnd, OneByOne, Working, tickOnly, network, disk, bounds
<1>2. Shaped(NoTick, "sleep", 0) /\ "sleep" # "remove"
    BY DEF Shaped, TickFields, NoTick
<1> QED
    BY <1>1, <1>2, FreeKeeps, Zenon

\* The submission.
LEMMA SubmissionKeeps ==
  ASSUME QueueInv, SubmitRefused \/ GiveUp \/ SendTransaction \/ AppendRecord
  PROVE  QueueInv'
<1>1. Idle("tick") /\ UNCHANGED <<chain, dead, replay, replays>>
    BY DEF SubmitRefused, GiveUp, SendTransaction, AppendRecord, Submitting, tickOnly,
           network, disk, bounds
<1>2. DOMAIN tick = TickFields
    BY DEF QueueInv, Shapes, TickShape
<1>3. CASE SubmitRefused \/ GiveUp
    <2>1. HandleTransient(tick.cur, tick) /\ tick.pc \in {"submit", "wait"}
        BY <1>3 DEF SubmitRefused, GiveUp, Submitting
    <2>2. tick.cur \in Matches
        BY <2>1 DEF QueueInv, Shapes, TickShape
    <2> QED
        BY <1>1, <1>2, <2>1, <2>2, TransientKeeps, Zenon
<1>4. CASE SendTransaction
    <2>1. tick.cur \in Matches
        BY <1>4 DEF QueueInv, Shapes, TickShape, SendTransaction, Submitting
    <2>2. tick' = [tick EXCEPT !.pc = "wait"] /\ UNCHANGED io
        BY <1>4 DEF SendTransaction
    <2>3. Shaped(tick', "wait", tick.cur) /\ "wait" # "remove"
        BY <1>2, <2>2 DEF Shaped, TickFields
    <2> QED
        BY <1>1, <2>1, <2>2, <2>3, FreeKeeps, Zenon
<1>5. CASE AppendRecord
    <2>1. tick' = [tick EXCEPT !.pc = "work", !.cur = 0, !.due = Without(@, tick.cur)]
          /\ UNCHANGED io
        BY <1>5 DEF AppendRecord
    <2>2. Shaped(tick', "work", 0) /\ "work" # "remove"
        BY <1>2, <2>1 DEF Shaped, TickFields
    <2> QED
        BY <1>1, <2>1, <2>2, FreeKeeps, Zenon
<1> QED
    BY <1>3, <1>4, <1>5

\* The two removals: after a confirmed submission, and after the push.
LEMMA ConfirmedKeeps ==
  ASSUME QueueInv, Confirmed
  PROVE  QueueInv'
<1>1. /\ Idle("tick") /\ UNCHANGED <<chain, dead, replay, replays>>
      /\ tick.pc = "wait" /\ chain[tick.cur] = "Settled"
      /\ io' = [io EXCEPT !["tick"] = QueueOp("remove", tick.cur, 0)]
      /\ tick' = [tick EXCEPT !.pc = "log"]
    BY DEF Confirmed, Submitting, tickOnly, network, disk, bounds
<1>2. DOMAIN tick = TickFields /\ tick.cur \in Matches
    BY <1>1 DEF QueueInv, Shapes, TickShape
<1>3. Shaped(tick', "log", tick.cur) /\ "log" # "remove"
    BY <1>1, <1>2 DEF Shaped, TickFields
<1> QED
    BY <1>1, <1>2, <1>3, RemovalKeeps, Zenon

LEMMA ExhaustedKeeps ==
  ASSUME QueueInv, RemoveExhausted
  PROVE  QueueInv'
<1>1. /\ Idle("tick") /\ UNCHANGED <<chain, dead, replay, replays>>
      /\ tick.pc = "remove"
      /\ io' = [io EXCEPT !["tick"] = QueueOp("remove", tick.cur, 0)]
      /\ tick' = [tick EXCEPT !.pc = "work", !.cur = 0]
    BY DEF RemoveExhausted, Submitting, tickOnly, network, disk, bounds
<1>2. DOMAIN tick = TickFields /\ tick.cur \in Matches
    BY <1>1 DEF QueueInv, Shapes, TickShape
<1>3. replays = 0 => tick.cur \in dead
    BY <1>1, IdleIs
<1>4. Shaped(tick', "work", 0) /\ "work" # "remove"
    BY <1>1, <1>2 DEF Shaped, TickFields
<1> QED
    BY <1>1, <1>2, <1>3, <1>4, RemovalKeeps, Zenon


-----------------------------------------------------------------------------
(* The file operations of the polling task.                                *)

\* The kinds of operation, and that none of them is NoIO.
LEMMA NotNone == NoIO.kind = "none"
  BY DEF NoIO

LEMMA LoadKeeps ==
  ASSUME QueueInv, Load("tick")
  PROVE  QueueInv'
<1> DEFINE op == io["tick"]
           file == IF OnDead(op) THEN dead ELSE queue
           moot == \/ op.kind = "enqueue" /\ op.m \in DOMAIN queue
                   \/ op.kind = "update" /\ op.m \notin DOMAIN queue
                   \/ op.kind = "push" /\ op.m \in dead
           read == [kind |-> op.kind, m |-> op.m, a |-> op.a, loaded |-> TRUE, copy |-> file]
           new == IF moot THEN NoIO ELSE read
<1>1. /\ op # NoIO /\ io' = [io EXCEPT !["tick"] = new] /\ replay' = replay
      /\ UNCHANGED <<chain, dead, replay, replays>> /\ tick' = tick
    BY DEF Load, Idle, network, disk, bounds
<1>2. TickShape(tick)
    BY DEF QueueInv, Shapes
<1>3. ASSUME replays = 0 PROVE TickOpOK(new, tick, dead, chain)
    <2>1. TickOpOK(op, tick, dead, chain)
        BY <1>3 DEF QueueInv, TasksOK
    <2>2. CASE moot
        <3>1. tick.pc = "remove" => tick.cur \in dead
            BY <1>1, <2>1, <2>2 DEF TickOpOK
        <3> QED
            BY <2>2, <3>1 DEF TickOpOK
    <2>3. CASE ~moot
        <3>1. new = read
            BY <2>3
        <3>2. read.kind = op.kind /\ read.m = op.m /\ read.copy = file
            OBVIOUS
        <3>3. op.kind = "push" => file = dead
            BY DEF OnDead
        <3> HIDE DEF read, file, op, new, moot
        <3>4. CASE op.kind = "update" /\ tick.pc # "remove"
            BY <3>1, <3>2, <3>4 DEF TickOpOK
        <3>5. CASE op.kind = "push" /\ tick.pc = "remove" /\ op.m = tick.cur
            BY <3>1, <3>2, <3>3, <3>5 DEF TickOpOK
        <3>6. CASE /\ op.kind = "remove" /\ tick.pc # "remove" /\ op.m \in Matches
                   /\ chain[op.m] \in {"Settled", "Closed"} \/ op.m \in dead
            BY <3>1, <3>2, <3>6 DEF TickOpOK
        <3> QED
            BY <1>1, <2>1, <3>4, <3>5, <3>6 DEF TickOpOK
    <2> QED
        BY <2>2, <2>3
<1> HIDE DEF new
<1>4. TickTakes(new, tick)
    BY <1>1, <1>2, OpTaken, Zenon
<1> QED
    BY <1>3, <1>4, TakesKeeps, Zenon

\* The save of a push puts the current match in the store; any other save of the
\* task leaves the store as it is.
LEMMA SaveKeeps ==
  ASSUME QueueInv, Save("tick")
  PROVE  QueueInv'
<1> DEFINE op == io["tick"]
<1>1. /\ op # NoIO /\ op.loaded /\ io' = [io EXCEPT !["tick"] = NoIO]
      /\ UNCHANGED <<chain, replay, replays, tick>>
      /\ IF OnDead(op) THEN dead' = Edited(op) ELSE dead' = dead
    BY DEF Save, Idle, network, bounds
<1>2. Shapes
    BY DEF QueueInv
<1>3. /\ DOMAIN io' = Tasks /\ io'["tick"] = NoIO
      /\ io'["rec"] = io["rec"] /\ io'["replay"] = io["replay"]
    BY <1>1, <1>2 DEF Shapes, Tasks
<1>4. Shapes'
    BY <1>1, <1>2, <1>3 DEF Shapes, TickShape
<1>5. ASSUME replays = 0 PROVE TasksOK'
    <2>1. TasksOK
        BY <1>5 DEF QueueInv
    <2>2. TickOpOK(op, tick, dead, chain)
        BY <2>1 DEF TasksOK
    <2>3. ASSUME tick.pc = "remove" PROVE tick.cur \in dead'
        <3>1. op.kind = "push" /\ op.m = tick.cur /\ op.copy = dead
            BY <1>1, <2>2, <2>3 DEF TickOpOK
        <3>2. OnDead(op) /\ Edited(op) = op.copy \union {op.m}
            BY <3>1 DEF OnDead, Edited
        <3> QED
            BY <1>1, <3>1, <3>2
    <2>4. TickOpOK(NoIO, tick, dead', chain)
        BY <2>3 DEF TickOpOK
    <2>5. TickOpOK(io'["tick"], tick', dead', chain')
        BY <1>1, <1>3, <2>4, Zenon
    <2>6. TasksOK' = (/\ replay'.left = {} /\ replay'.cur = 0 /\ io'["replay"] = NoIO
                      /\ io'["rec"] = NoIO \/ io'["rec"].kind = "enqueue"
                      /\ TickOpOK(io'["tick"], tick', dead', chain'))
        BY DEF TasksOK, TickOpOK, NoIO
    <2> QED
        BY <1>1, <1>3, <2>1, <2>5, <2>6, Zenon DEF TasksOK
<1> QED
    BY <1>1, <1>4, <1>5, Zenon DEF QueueInv

LEMMA TickStepKeeps ==
  ASSUME QueueInv, TickStep
  PROVE  QueueInv'
<1>1. ASSUME NEW D, TickStart(D) PROVE QueueInv'
    BY <1>1, TickStartKeeps, Zenon
<1>2. ASSUME NEW m \in Matches,
             PrepareEntry(m) \/ NextAnswer(m) \/ SkipPlatform(m) \/ ProcessEntry(m)
      PROVE  QueueInv'
    BY <1>2, PrepareKeeps, AnswerKeeps, BatchKeeps, EntryKeeps, Zenon
<1>3. CASE BatchAnswered \/ BatchUnavailable
    BY <1>3, BatchKeeps, Zenon
<1>4. CASE SubmitRefused \/ SendTransaction \/ GiveUp \/ AppendRecord
    BY <1>4, SubmissionKeeps, Zenon
<1> QED
    BY <1>1, <1>2, <1>3, <1>4, TickEndKeeps, ConfirmedKeeps, ExhaustedKeeps, LoadKeeps,
       SaveKeeps, Zenon DEF TickStep

-----------------------------------------------------------------------------
(* The other tasks, the world and the faults.                              *)

\* Once somebody has replayed, only the shapes count.
LEMMA ReplayedKeeps ==
  ASSUME Shapes', replays' # 0
  PROVE  QueueInv'
  BY DEF QueueInv

\* The reconciliation task writes the queue only, and only to add entries.
RecTakes(op) ==
  /\ UNCHANGED <<chain, tick, replay, replays>>
  /\ DOMAIN io' = Tasks /\ io'["rec"] = op
  /\ io'["tick"] = io["tick"] /\ io'["replay"] = io["replay"]
  /\ replays = 0 => dead' = dead /\ (op = NoIO \/ op.kind = "enqueue")

LEMMA RecKeeps ==
  ASSUME QueueInv, NEW op, RecTakes(op)
  PROVE  QueueInv'
<1>1. /\ chain' = chain /\ tick' = tick /\ replay' = replay /\ replays' = replays
      /\ DOMAIN io' = Tasks /\ io'["rec"] = op
      /\ io'["tick"] = io["tick"] /\ io'["replay"] = io["replay"]
    BY DEF RecTakes
<1>2. Shapes'
    BY <1>1 DEF QueueInv, Shapes, TickShape
<1>3. ASSUME replays = 0 PROVE TasksOK'
    <2>1. TasksOK /\ dead' = dead /\ (op = NoIO \/ op.kind = "enqueue")
        BY <1>3 DEF QueueInv, RecTakes
    <2>2. TickOpOK(io'["tick"], tick', dead', chain')
        BY <1>1, <2>1, Zenon DEF TasksOK
    <2>3. TasksOK' = (/\ replay'.left = {} /\ replay'.cur = 0 /\ io'["replay"] = NoIO
                      /\ io'["rec"] = NoIO \/ io'["rec"].kind = "enqueue"
                      /\ TickOpOK(io'["tick"], tick', dead', chain'))
        BY DEF TasksOK, TickOpOK, NoIO
    <2> QED
        BY <1>1, <2>1, <2>2, <2>3, Zenon DEF TasksOK
<1> QED
    BY <1>1, <1>2, <1>3, Zenon DEF QueueInv

LEMMA RecStepKeeps ==
  ASSUME QueueInv, RecStep \/ PageError \/ HasResultError
  PROVE  QueueInv'
<1>1. DOMAIN io = Tasks /\ (replays = 0 => io["rec"] = NoIO \/ io["rec"].kind = "enqueue")
    BY DEF QueueInv, Shapes, TasksOK
<1>2. CASE \/ ReconcileStart \/ ReadPage \/ NextOffset \/ ReconcileEnd
           \/ PageError \/ HasResultError
    <2>1. UNCHANGED <<chain, tick, replay, replays, io, dead>>
        BY <1>2 DEF ReconcileStart, ReadPage, NextOffset, ReconcileEnd, PageError,
                    HasResultError, recOnly, network, disk, bounds
    <2>2. RecTakes(io["rec"])
        BY <1>1, <2>1 DEF RecTakes
    <2> QED
        BY <2>2, RecKeeps, Zenon
<1>3. CASE NextMatch
    <2>1. UNCHANGED <<chain, tick, replay, replays, dead>>
        BY <1>3 DEF NextMatch, recOnly, network, bounds
    <2>2. \/ io' = io
          \/ io' = [io EXCEPT !["rec"] = QueueOp("enqueue", Head(rec.page), 0)]
        BY <1>3 DEF NextMatch
    <2>3. QueueOp("enqueue", Head(rec.page), 0).kind = "enqueue"
        BY DEF QueueOp
    <2>4. CASE io' = io
        <3>1. RecTakes(io["rec"])
            BY <1>1, <2>1, <2>4 DEF RecTakes
        <3> QED
            BY <3>1, RecKeeps, Zenon
    <2>5. CASE io' = [io EXCEPT !["rec"] = QueueOp("enqueue", Head(rec.page), 0)]
        <3> DEFINE op == QueueOp("enqueue", Head(rec.page), 0)
        <3>1. op.kind = "enqueue" /\ io' = [io EXCEPT !["rec"] = op]
            BY <2>3, <2>5
        <3> HIDE DEF op
        <3>2. RecTakes(op)
            BY <1>1, <2>1, <3>1 DEF RecTakes, Tasks
        <3> QED
            BY <3>2, RecKeeps, Zenon
    <2> QED
        BY <2>2, <2>4, <2>5
<1>4. CASE Load("rec")
    <2> DEFINE new == io'["rec"]
    <2>1. UNCHANGED <<chain, tick, replay, replays, dead>>
        BY <1>4 DEF Load, network, disk, bounds
    <2>2. /\ DOMAIN io' = Tasks
          /\ io'["tick"] = io["tick"] /\ io'["replay"] = io["replay"]
        BY <1>1, <1>4 DEF Load, Tasks
    <2>3. new = NoIO \/ new.kind = io["rec"].kind
        BY <1>1, <1>4 DEF Load, Tasks
    <2>4. replays = 0 => new = NoIO \/ new.kind = "enqueue"
        BY <1>1, <1>4, <2>3 DEF Load, Idle
    <2> HIDE DEF new
    <2>5. RecTakes(new)
        BY <2>1, <2>2, <2>4 DEF RecTakes, new
    <2> QED
        BY <2>5, RecKeeps, Zenon
<1>5. CASE Save("rec")
    <2>1. /\ UNCHANGED <<chain, tick, replay, replays>> /\ io["rec"] # NoIO
          /\ io' = [io EXCEPT !["rec"] = NoIO]
          /\ ~OnDead(io["rec"]) => dead' = dead
        BY <1>5 DEF Save, Idle, network, bounds
    <2>2. replays = 0 => dead' = dead
        BY <1>1, <2>1 DEF OnDead
    <2>3. RecTakes(NoIO)
        BY <1>1, <2>1, <2>2 DEF RecTakes, Tasks
    <2> QED
        BY <2>3, RecKeeps, Zenon
<1> QED
    BY <1>2, <1>3, <1>4, <1>5 DEF RecStep

\* oracle-replay steps only after it was started.
LEMMA ReplayStepKeeps ==
  ASSUME QueueInv, ReplayStep \/ \E R \in SUBSET Matches : ReplayStart(R)
  PROVE  QueueInv'
<1>1. Shapes /\ DOMAIN io = Tasks /\ replays \in Nat
    BY DEF QueueInv, Shapes
<1>2. /\ UNCHANGED <<chain, tick>> /\ DOMAIN io' = Tasks
      /\ replays' \in Nat /\ (replays' = replays \/ replays' = replays + 1)
    BY <1>1 DEF ReplayStep, ReplayEnqueue, ReplayDrop, Load, Save, ReplayStart, network, bounds
<1>3. Shapes'
    BY <1>1, <1>2 DEF Shapes, TickShape
<1>4. CASE ReplayStep
    <2>1. replays' = replays
        BY <1>4 DEF ReplayStep, ReplayEnqueue, ReplayDrop, Load, Save, bounds
    <2>2. ASSUME replays = 0 PROVE FALSE
        <3>1. replay.left = {} /\ replay.cur = 0 /\ io["replay"] = NoIO
            BY <2>2 DEF QueueInv, TasksOK
        <3> QED
            BY <1>4, <3>1 DEF ReplayStep, ReplayEnqueue, ReplayDrop, Load, Save, Idle
    <2> QED
        BY <1>3, <2>1, <2>2, ReplayedKeeps
<1>5. CASE \E R \in SUBSET Matches : ReplayStart(R)
    <2>1. replays' = replays + 1
        BY <1>5 DEF ReplayStart
    <2> QED
        BY <1>1, <1>3, <2>1, ReplayedKeeps
<1> QED
    BY <1>4, <1>5

\* The escrow never makes a match Active again.
LEMMA ChainKeeps ==
  ASSUME QueueInv, UNCHANGED <<dead, replay, replays, io, tick>>,
         chain' \in [Matches -> {"None", "Active", "Settled", "Closed"}],
         \A m \in Matches : chain[m] \in {"Settled", "Closed"} => chain'[m] = chain[m]
  PROVE  QueueInv'
<1>1. Shapes'
    BY DEF QueueInv, Shapes, TickShape
<1>2. ASSUME replays = 0 PROVE TasksOK'
    <2>1. TasksOK
        BY <1>2 DEF QueueInv
    <2>2. TickOpOK(io["tick"], tick, dead, chain')
        BY <2>1 DEF TasksOK, TickOpOK
    <2>3. TickOpOK(io'["tick"], tick', dead', chain')
        BY <2>2, Zenon
    <2>4. TasksOK' = (/\ replay'.left = {} /\ replay'.cur = 0 /\ io'["replay"] = NoIO
                      /\ io'["rec"] = NoIO \/ io'["rec"].kind = "enqueue"
                      /\ TickOpOK(io'["tick"], tick', dead', chain'))
        BY DEF TasksOK, TickOpOK, NoIO
    <2> QED
        BY <2>1, <2>3, <2>4, Zenon DEF TasksOK
<1> QED
    BY <1>1, <1>2, Zenon DEF QueueInv

LEMMA WorldKeeps ==
  ASSUME QueueInv, NEW m \in Matches,
         Activate(m) \/ Land(m) \/ Drop(m) \/ CloseElsewhere(m)
  PROVE  QueueInv'
<1>1. UNCHANGED <<dead, replay, replays, io, tick>>
    BY DEF Activate, Land, Drop, CloseElsewhere, disk, bounds
<1>2. chain \in [Matches -> {"None", "Active", "Settled", "Closed"}]
    BY DEF QueueInv, Shapes
<1>3. /\ chain' \in [Matches -> {"None", "Active", "Settled", "Closed"}]
      /\ \A k \in Matches : chain[k] \in {"Settled", "Closed"} => chain'[k] = chain[k]
    BY <1>2 DEF Activate, Land, Drop, CloseElsewhere
<1> QED
    BY <1>1, <1>3, ChainKeeps, Zenon

\* A restart forgets the file operations of both tasks.
LEMMA CrashKeeps ==
  ASSUME QueueInv, Crash
  PROVE  QueueInv'
<1>1. /\ UNCHANGED <<chain, dead, replay, replays>> /\ tick' = NoTick
      /\ io' = [io EXCEPT !["tick"] = NoIO, !["rec"] = NoIO]
    BY DEF Crash, network, disk
<1>2. Shapes
    BY DEF QueueInv
<1>3. /\ DOMAIN io' = Tasks /\ io'["tick"] = NoIO /\ io'["rec"] = NoIO
      /\ io'["replay"] = io["replay"]
    BY <1>1, <1>2 DEF Shapes, Tasks
<1>4. TickShape(NoTick) /\ NoTick.pc # "remove"
    BY DEF TickShape, NoTick, TickFields
<1>5. Shapes'
    BY <1>1, <1>2, <1>3, <1>4 DEF Shapes, TickShape
<1>6. ASSUME replays = 0 PROVE TasksOK'
    <2>1. TasksOK
        BY <1>6 DEF QueueInv
    <2>2. TickOpOK(NoIO, NoTick, dead, chain)
        BY <1>4 DEF TickOpOK
    <2>3. TickOpOK(io'["tick"], tick', dead', chain')
        BY <1>1, <1>3, <2>2, Zenon
    <2>4. TasksOK' = (/\ replay'.left = {} /\ replay'.cur = 0 /\ io'["replay"] = NoIO
                      /\ io'["rec"] = NoIO \/ io'["rec"].kind = "enqueue"
                      /\ TickOpOK(io'["tick"], tick', dead', chain'))
        BY DEF TasksOK, TickOpOK, NoIO
    <2> QED
        BY <1>1, <1>3, <2>1, <2>3, <2>4, Zenon DEF TasksOK
<1> QED
    BY <1>1, <1>5, <1>6, Zenon DEF QueueInv

-----------------------------------------------------------------------------
(* The theorem.                                                            *)

\* The variables of the invariant.
queueVars == <<chain, dead, replay, replays, io, tick>>

LEMMA SameKeeps ==
  ASSUME QueueInv, UNCHANGED queueVars
  PROVE  QueueInv'
<1>1. UNCHANGED <<dead, replay, replays, io, tick>> /\ chain' = chain
    BY DEF queueVars
<1>2. /\ chain' \in [Matches -> {"None", "Active", "Settled", "Closed"}]
      /\ \A m \in Matches : chain[m] \in {"Settled", "Closed"} => chain'[m] = chain[m]
    BY <1>1 DEF QueueInv, Shapes
<1> QED
    BY <1>1, <1>2, ChainKeeps, Zenon

LEMMA QueueInit == Init => QueueInv
<1> SUFFICES ASSUME Init PROVE QueueInv
    OBVIOUS
<1>1. Shapes
    BY DEF Init, Shapes, Tasks, TickShape, TickFields, NoTick
<1>2. tick.pc = "sleep" /\ io["tick"] = NoIO /\ io["rec"] = NoIO /\ io["replay"] = NoIO
      /\ replay.left = {} /\ replay.cur = 0
    BY DEF Init, NoTick
<1> QED
    BY <1>1, <1>2 DEF QueueInv, TasksOK, TickOpOK

LEMMA QueueStep == QueueInv /\ [Next]_vars => QueueInv'
<1> SUFFICES ASSUME QueueInv, [Next]_vars PROVE QueueInv'
    OBVIOUS
<1>1. CASE UNCHANGED vars
    <2>1. UNCHANGED queueVars
        BY <1>1 DEF vars, queueVars
    <2> QED
        BY <2>1, SameKeeps, Zenon
<1>2. CASE TickStep
    BY <1>2, TickStepKeeps, Zenon
<1>3. CASE RecStep \/ PageError \/ HasResultError
    BY <1>3, RecStepKeeps, Zenon
<1>4. CASE ReplayStep \/ \E R \in SUBSET Matches : ReplayStart(R)
    BY <1>4, ReplayStepKeeps, Zenon
<1>5. ASSUME NEW m \in Matches, Activate(m) \/ Land(m) \/ Drop(m) \/ CloseElsewhere(m)
      PROVE  QueueInv'
    BY <1>5, WorldKeeps, Zenon
<1>6. CASE WorldStep
    BY <1>5, <1>6, Zenon DEF WorldStep
<1>7. CASE BatchRateLimited \/ \E m \in Matches : EntryRateLimited(m)
    BY <1>7, BatchKeeps, Zenon
<1>8. CASE Fault
    BY <1>3, <1>5, <1>7, <1>8, CrashKeeps, Zenon DEF Fault
<1>9. ASSUME NEW p, BackoffEnds(p) PROVE QueueInv'
    <2>1. UNCHANGED queueVars
        BY <1>9 DEF BackoffEnds, queueVars, network, disk, bounds
    <2> QED
        BY <2>1, SameKeeps, Zenon
<1> QED
    BY <1>1, <1>2, <1>3, <1>4, <1>6, <1>8, <1>9, Zenon DEF Next

\* The invariant says what a removal by the polling task needs.
LEMMA RemovalIs ==
  ASSUME QueueInv, io["tick"].kind = "remove", replays = 0
  PROVE  chain[io["tick"].m] # "Active" \/ io["tick"].m \in dead
<1>1. TickOpOK(io["tick"], tick, dead, chain)
    BY DEF QueueInv, TasksOK
<1> QED
    BY <1>1, NotNone DEF TickOpOK

\* The polling task takes a match out of the queue only when it has left Active
\* or is in the dead-letter store (submit_and_complete, exhaust_entry), whatever
\* the two tasks of the service overwrite, wherever it crashes, and for every
\* number of matches, retries, page size and faults.
THEOREM RemovalProved == Spec => RemovalJustified
<1>1. QueueInv /\ [Next]_vars
      => [/\ io["tick"].kind = "remove" /\ io["tick"].loaded /\ io'["tick"] = NoIO
          /\ queue' # queue /\ replays = 0
          => chain[io["tick"].m] # "Active" \/ io["tick"].m \in dead]_vars
    BY RemovalIs
<1> QED
    BY <1>1, QueueInit, QueueStep, PTL DEF Spec, RemovalJustified
==============================================================================
