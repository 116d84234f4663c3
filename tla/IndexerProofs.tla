---------------------------- MODULE IndexerProofs ----------------------------
(***************************************************************************)
(* Proofs about the parts of the event indexer: the lease of the polling   *)
(* replica, the cache of responses and the cache of events.  A step of the *)
(* whole is a step of one part that leaves the others alone, so each part  *)
(* has its own inductive invariant.  WalkProofs has the paged queries.     *)
(***************************************************************************)
EXTENDS IndexerParts, Counting

(***************************************************************************)
(* The lease.                                                              *)
(***************************************************************************)
\* What is left of the lease and what has passed of the term are together the
\* length the winner's clock gave it.
TermRuns ==
    holder # "nobody" =>
        IF row.left >= 0 THEN row.left + age = LeaseTtl + skew[holder]
                         ELSE age > LeaseTtl + skew[holder]

LeaseInv ==
    /\ Election!TypeOK /\ Election!FollowersServeNoCache
    /\ \A i \in Instances : pc[i] = "polling" => isLeader[i]
    /\ age \in Nat /\ holder \in Instances \cup {"nobody"}
    /\ TermRuns

\* A lease that is granted is that of nobody, or its term is over.
LEMMA GrantedLate ==
    ASSUME LeaseInv, NEW i \in Instances, Election!Granted(i), holder # "nobody"
    PROVE  age > LeaseTtl + skew[holder]
<1>1. row = Election!NoRow \/ row.left < 0
  BY IndexerAssumption
     DEF LeaseInv, Election!TypeOK, Election!Granted, Election!ConstantsOK, Election!NoRow
<1>2. row.left \in Int /\ ~(row.left >= 0)
  BY <1>1, IndexerAssumption DEF Election!NoRow, LeaseInv, Election!TypeOK, Election!ConstantsOK
<1> QED
  BY <1>2 DEF LeaseInv, TermRuns

\* Every step of the replicas and of the clock keeps the invariant.
LEMMA LeaseStep ==
    ASSUME LeaseInv, Election!WatchedNext
    PROVE  LeaseInv'
<1> USE IndexerAssumption DEF Election!ConstantsOK
<1>0. /\ LeaseTtl \in Nat /\ PollInterval \in Nat /\ MaxSkew \in Nat /\ MaxLeaseFaults \in Nat
      /\ skew \in [Instances -> (-MaxSkew) .. MaxSkew]
      /\ pc \in [Instances -> {"awake", "asleep", "polling", "down"}]
      /\ timer \in [Instances -> 0 .. PollInterval]
      /\ isLeader \in [Instances -> BOOLEAN] /\ cached \in [Instances -> BOOLEAN]
      /\ leaseFaults \in 0 .. MaxLeaseFaults /\ age \in Nat
      /\ row \in {Election!NoRow} \cup
             [id : {LeaderKey}, left : (-(MaxSkew + 1)) .. (LeaseTtl + MaxSkew)]
  BY DEF LeaseInv, Election!TypeOK
<1>1. CASE Election!Tick /\ age' = (IF age < Election!Longest THEN age + 1 ELSE age)
           /\ UNCHANGED holder
  <2>1. Election!TypeOK'
    BY <1>0, <1>1 DEF Election!TypeOK, Election!Tick, Election!NoRow
  <2>2. age' \in Nat
    BY <1>0, <1>1 DEF Election!Longest
  <2>3. TermRuns'
    <3> SUFFICES ASSUME holder # "nobody"
                 PROVE  IF row'.left >= 0 THEN row'.left + age' = LeaseTtl + skew[holder]
                                          ELSE age' > LeaseTtl + skew[holder]
      BY <1>1 DEF TermRuns, Election!Tick
    <3>1. holder \in Instances /\ skew[holder] \in Int /\ skew[holder] <= MaxSkew
      BY <1>0 DEF LeaseInv
    <3>2. row.left \in Int
      BY <1>0 DEF Election!NoRow
    <3>3. CASE row.left >= 0
      <4>1. row.left + age = LeaseTtl + skew[holder]
        BY <3>3 DEF LeaseInv, TermRuns
      <4>2. age' = age + 1
        BY <1>0, <1>1, <3>1, <3>2, <3>3, <4>1 DEF Election!Longest
      <4>3. row'.left = row.left - 1
        BY <1>0, <1>1, <3>3 DEF Election!Tick, Election!NoRow
      <4> QED
        BY <1>0, <3>1, <3>2, <3>3, <4>1, <4>2, <4>3
    <3>4. CASE ~(row.left >= 0)
      <4>1. age > LeaseTtl + skew[holder]
        BY <3>4 DEF LeaseInv, TermRuns
      <4>2. row' = row
        BY <1>1, <3>4 DEF Election!Tick
      <4> QED
        BY <1>0, <1>1, <3>1, <3>2, <3>4, <4>1, <4>2
    <3> QED
      BY <3>3, <3>4
  <2> QED
    BY <1>1, <2>1, <2>2, <2>3 DEF LeaseInv, Election!Tick, Election!FollowersServeNoCache
<1>2. ASSUME NEW i \in Instances, Election!Win(i), holder' = i, age' = 0
      PROVE  LeaseInv'
  <2>0. skew[i] \in Int /\ -MaxSkew <= skew[i] /\ skew[i] <= MaxSkew
    BY <1>0
  <2>1. row' = [id |-> LeaderKey, left |-> LeaseTtl + skew[i]] /\ skew' = skew
    BY <1>2 DEF Election!Win, Election!Lease
  <2>2. row'.left = LeaseTtl + skew[i]
    BY <2>1
  <2>3. TermRuns'
    BY <1>0, <1>2, <2>0, <2>1, <2>2 DEF TermRuns
  <2>4. Election!TypeOK'
    BY <1>0, <1>2, <2>0, <2>1 DEF Election!TypeOK, Election!Win
  <2>5. /\ Election!FollowersServeNoCache'
        /\ \A j \in Instances : pc'[j] = "polling" => isLeader'[j]
    BY <1>0, <1>2 DEF Election!Win, LeaseInv, Election!FollowersServeNoCache
  <2> QED
    BY <1>2, <2>3, <2>4, <2>5 DEF LeaseInv
<1>3. ASSUME NEW i \in Instances, Election!Other(i), UNCHANGED <<holder, age>>
      PROVE  LeaseInv'
  <2>1. UNCHANGED <<row, skew>>
    BY <1>3 DEF Election!Other, Election!Lose, Election!ElectionError, Election!Ingest,
       Election!PollEnds, Election!Wake, Election!Crash, Election!Restart
  <2>2. Election!TypeOK'
    <3>1. pc' \in [Instances -> {"awake", "asleep", "polling", "down"}]
      BY <1>0, <1>3 DEF Election!Other, Election!Lose, Election!ElectionError,
         Election!Ingest, Election!PollEnds, Election!Wake, Election!Crash,
         Election!Restart, Election!Sleep, Election!StepDown
    <3>2. timer' \in [Instances -> 0 .. PollInterval]
      BY <1>0, <1>3 DEF Election!Other, Election!Lose, Election!ElectionError,
         Election!Ingest, Election!PollEnds, Election!Wake, Election!Crash,
         Election!Restart, Election!Sleep, Election!StepDown
    <3>3. isLeader' \in [Instances -> BOOLEAN] /\ cached' \in [Instances -> BOOLEAN]
      BY <1>0, <1>3 DEF Election!Other, Election!Lose, Election!ElectionError,
         Election!Ingest, Election!PollEnds, Election!Wake, Election!Crash,
         Election!Restart, Election!Sleep, Election!StepDown
    <3>4. leaseFaults' \in 0 .. MaxLeaseFaults
      BY <1>0, <1>3 DEF Election!Other, Election!Lose, Election!ElectionError,
         Election!Ingest, Election!PollEnds, Election!Wake, Election!Crash,
         Election!Restart, Election!Sleep, Election!StepDown
    <3> QED
      BY <1>0, <2>1, <3>1, <3>2, <3>3, <3>4 DEF Election!TypeOK
  <2>3. /\ Election!FollowersServeNoCache'
        /\ \A j \in Instances : pc'[j] = "polling" => isLeader'[j]
    BY <1>0, <1>3 DEF Election!Other, Election!Lose, LeaseInv,
       Election!ElectionError, Election!Ingest, Election!PollEnds, Election!Wake,
       Election!Crash, Election!Restart, Election!Sleep, Election!StepDown,
       Election!FollowersServeNoCache
  <2> QED
    BY <1>3, <2>1, <2>2, <2>3 DEF LeaseInv, TermRuns
<1> QED
  BY <1>1, <1>2, <1>3 DEF Election!WatchedNext

\* For any number of replicas, any lease, skew and faults: a replica that is not
\* the leader serves nothing from its cache, and nobody wins the lease before the
\* term of the last winner is over (try_acquire, event_poller).
THEOREM LeaseProved == Spec => LeaseHolds
<1>1. Init => LeaseInv
  BY IndexerAssumption DEF Init, Election!WatchedInit, Election!Init, LeaseInv, TermRuns,
     Election!TypeOK, Election!FollowersServeNoCache, Election!ConstantsOK, Election!Longest
<1>2. LeaseInv /\ [Next]_vars => LeaseInv'
  <2> SUFFICES ASSUME LeaseInv, [Next]_vars PROVE LeaseInv'
    OBVIOUS
  <2>1. CASE Election!WatchedNext
    BY <2>1, LeaseStep
  <2>2. CASE UNCHANGED leaseVars
    BY <2>2 DEF leaseVars, LeaseInv, TermRuns, Election!TypeOK,
       Election!FollowersServeNoCache
  <2> QED
    BY <2>1, <2>2 DEF Next, vars
<1>3. LeaseInv => Election!TypeOK /\ Election!FollowersServeNoCache
  BY DEF LeaseInv
<1> DEFINE Late == \A i \in Instances :
               pc[i] = "awake" /\ pc'[i] = "polling" /\ holder # "nobody"
                   => age > LeaseTtl + skew[holder]
<1>4. LeaseInv /\ [Next]_vars => [Late]_<<Election!vars, holder, age>>
  <2> SUFFICES ASSUME LeaseInv, [Next]_vars, NEW i \in Instances,
                      pc[i] = "awake", pc'[i] = "polling", holder # "nobody"
               PROVE  age > LeaseTtl + skew[holder]
    OBVIOUS
  <2>1. Election!WatchedNext
    BY DEF Next, vars, leaseVars
  <2>2. Election!Win(i)
    <3>1. ~Election!Tick
      BY DEF Election!Tick
    <3>2. ASSUME NEW j \in Instances PROVE ~Election!Other(j)
      BY DEF LeaseInv, Election!TypeOK, Election!Other, Election!Lose,
         Election!ElectionError, Election!Ingest, Election!PollEnds, Election!Wake,
         Election!Crash, Election!Restart, Election!Sleep
    <3>3. ASSUME NEW j \in Instances, Election!Win(j) PROVE i = j
      BY <3>3 DEF Election!Win, LeaseInv, Election!TypeOK
    <3> QED
      BY <2>1, <3>1, <3>2, <3>3 DEF Election!WatchedNext
  <2> QED
    BY <2>2, GrantedLate DEF Election!Win
<1> QED
  BY <1>1, <1>2, <1>3, <1>4, PTL DEF Spec, LeaseHolds, Election!TermsKept

(***************************************************************************)
(* The cache of responses.  An entry is a payload of its key or a foreign  *)
(* one; an answer that was read covers the matches of its key.             *)
(***************************************************************************)
Payloads(k) == [Responses!Covers(k) -> Responses!Statuses]

Entry(e, k) ==
    \/ e = Responses!Absent
    \/ /\ DOMAIN e = {"val", "left"} /\ e.left \in 1 .. 3
       /\ e.val = Responses!Foreign \/ e.val \in Payloads(k)

Request(q) ==
    /\ DOMAIN q = {"at", "key", "val"}
    /\ q.at \in {"idle", "missed", "read"} /\ q.key \in Responses!Keys
    /\ q.at = "read" => q.val \in Payloads(q.key)

StoreOK ==
    /\ DOMAIN store = Responses!Stores
    /\ \A s \in Responses!Stores :
           /\ DOMAIN store[s] = Responses!Keys
           /\ \A k \in Responses!Keys : Entry(store[s][k], k)
    /\ why \in [Responses!Stores ->
                  [Responses!Keys -> SUBSET {"late", "failed", "reorg"}]]

RequestsOK ==
    DOMAIN request = Replicas /\ \A r \in Replicas : Request(request[r])

\* A key whose stale entry the poller is about to deal with.
Awaited(k) ==
    \/ poller.at = "stored" /\ k \in {poller.m, "list", "stats"}
    \/ poller.at = "reorged" /\ k \notin CachedMatches

Excused(k) ==
    Responses!Stale("redis", k) => why["redis"][k] # {} \/ Awaited(k)

ResponsesInv ==
    /\ db \in [CachedMatches -> Responses!Statuses]
    /\ StoreOK /\ RequestsOK
    /\ DOMAIN poller = {"at", "m"}
    /\ poller.at \in {"idle", "stored", "reorged"} /\ poller.m \in CachedMatches
    /\ Shared => \A k \in Responses!Keys \ {"page"} : Excused(k)

\* What the keys are.
LEMMA KeysAre ==
    /\ CachedMatches \subseteq Responses!Keys
    /\ \A k \in Responses!Keys \ {"page"} : k \in CachedMatches \/ k \in {"list", "stats"}
    /\ \A m \in CachedMatches : m \notin {"list", "page", "stats"}
    /\ CachedMatches # {}
BY IndexerAssumption DEF Responses!ConstantsOK, Responses!Keys

\* The content of a key is a payload of it.
LEMMA ContentIs ==
    ASSUME db \in [CachedMatches -> Responses!Statuses], NEW k
    PROVE  Responses!Content(k) \in Payloads(k)
BY DEF Payloads, Responses!Content, Responses!Covers

\* A new payload lives for one to three seconds.
LEMMA TtlIs == ASSUME NEW k, NEW v PROVE Responses!Ttl(k, v) \in 1 .. 3
BY DEF Responses!Ttl, Responses!StatsTtl, Responses!ActiveTtl, Responses!CompletedTtl,
       Responses!PendingTtl, Responses!ListTtl

\* An idle request, which asks for anything.
LEMMA IdleIs ==
    /\ Request(Responses!Idle)
    /\ \A k \in Responses!Keys : Request([Responses!Idle EXCEPT !.at = "missed", !.key = k])
<1>1. (CHOOSE k \in CachedMatches : TRUE) \in Responses!Keys
  BY KeysAre
<1>2. Request(Responses!Idle)
  BY <1>1 DEF Request, Responses!Idle
<1>3. ASSUME NEW k \in Responses!Keys
      PROVE  Request([Responses!Idle EXCEPT !.at = "missed", !.key = k])
  <2> DEFINE q == [Responses!Idle EXCEPT !.at = "missed", !.key = k]
  <2>1. DOMAIN q = {"at", "key", "val"} /\ q.at = "missed" /\ q.key = k
    BY DEF Responses!Idle
  <2> HIDE DEF q
  <2>2. Request(q)
    BY <2>1 DEF Request
  <2> QED
    BY <2>2 DEF q
<1> QED
  BY <1>2, <1>3

\* What a delete leaves: entries that are gone, or are there with a reason.
LEMMA DeleteKeeps ==
    ASSUME StoreOK, NEW s \in Responses!Stores, NEW ks, Responses!Delete(s, ks)
    PROVE  /\ StoreOK'
           /\ \A k \in Responses!Keys :
                 \/ store'[s][k] = Responses!Absent
                 \/ store'[s][k] = store[s][k] /\ why[s][k] \subseteq why'[s][k]
           /\ \A k \in ks \cap Responses!Keys :
                 store'[s][k] = Responses!Absent \/ why'[s][k] # {}
<1>0. DOMAIN store = Responses!Stores /\ DOMAIN why = Responses!Stores
  BY DEF StoreOK
<1>1. CASE /\ store' = Responses!Deleted(s, ks)
           /\ why' = [why EXCEPT ![s] = [k \in Responses!Keys |-> IF k \in ks THEN {} ELSE @[k]]]
  <2>1. /\ store' = [store EXCEPT ![s] = [k \in Responses!Keys |->
                        IF k \in ks THEN Responses!Absent ELSE store[s][k]]]
        /\ why' = [why EXCEPT ![s] = [k \in Responses!Keys |->
                        IF k \in ks THEN {} ELSE why[s][k]]]
    BY <1>1 DEF Responses!Deleted
  <2>2. \A k \in Responses!Keys :
           /\ store'[s][k] = IF k \in ks THEN Responses!Absent ELSE store[s][k]
           /\ why'[s][k] = IF k \in ks THEN {} ELSE why[s][k]
    BY <1>0, <2>1
  <2>3. StoreOK'
    BY <1>0, <2>1 DEF StoreOK, Entry
  <2> QED
    BY <2>2, <2>3
<1>2. CASE /\ why' = [why EXCEPT ![s] = [k \in Responses!Keys |->
                         @[k] \union (IF k \in ks THEN {"failed"} ELSE {})]]
           /\ UNCHANGED store
  <2>1. \A k \in Responses!Keys :
           why'[s][k] = why[s][k] \union (IF k \in ks THEN {"failed"} ELSE {})
    BY <1>0, <1>2
  <2>2. StoreOK'
    BY <1>0, <1>2 DEF StoreOK
  <2> QED
    BY <1>2, <2>1, <2>2
<1> QED
  BY <1>1, <1>2 DEF Responses!Delete

\* An entry that a step leaves with its reasons, or takes away, stays excused
\* when the database and what the poller is about to do stay.
LEMMA StaysExcused ==
    ASSUME NEW k, Excused(k), UNCHANGED <<db, poller>>,
           \/ store'["redis"][k] = Responses!Absent
           \/ /\ store'["redis"][k] = store["redis"][k]
              /\ why["redis"][k] \subseteq why'["redis"][k]
    PROVE  Excused(k)'
BY DEF Excused, Awaited, Responses!Stale, Responses!Content, Responses!Absent,
       Responses!Foreign, Responses!Covers

\* A replica that misses has asked, and may have dropped what it cannot decode.
LEMMA MissKeeps ==
    ASSUME ResponsesInv, NEW r \in Replicas, NEW k \in Responses!Keys, Responses!Miss(r, k)
    PROVE  ResponsesInv'
<1> DEFINE s == Responses!StoreOf(r)
<1>1. /\ request' = [request EXCEPT ![r] = [Responses!Idle EXCEPT !.at = "missed", !.key = k]]
      /\ UNCHANGED <<db, poller, rollbacks>>
      /\ UNCHANGED <<store, why>> \/ Responses!Delete(s, {k})
  BY DEF Responses!Miss
<1>2. RequestsOK'
  BY <1>1, IdleIs DEF ResponsesInv, RequestsOK
<1>3. s \in Responses!Stores /\ (Shared => s = "redis")
  BY DEF Responses!StoreOf, Responses!Stores
<1>4. StoreOK' /\ \A j \in Responses!Keys :
                     \/ store'[s][j] = Responses!Absent
                     \/ store'[s][j] = store[s][j] /\ why[s][j] \subseteq why'[s][j]
  <2>1. CASE UNCHANGED <<store, why>>
    BY <2>1 DEF ResponsesInv, StoreOK
  <2>2. CASE Responses!Delete(s, {k})
    BY <1>3, <2>2, DeleteKeeps DEF ResponsesInv
  <2> QED
    BY <1>1, <2>1, <2>2
<1>5. Shared => \A j \in Responses!Keys \ {"page"} : Excused(j)'
  BY <1>1, <1>3, <1>4, StaysExcused DEF ResponsesInv
<1> QED
  BY <1>1, <1>2, <1>4, <1>5 DEF ResponsesInv

\* What a replica has read covers the matches of its key.
LEMMA ReadKeeps ==
    ASSUME ResponsesInv, NEW r \in Replicas, Responses!ReadDb(r)
    PROVE  ResponsesInv'
<1> DEFINE q == request[r]
           v == Responses!Content(q.key)
           n == [q EXCEPT !.at = "read", !.val = v]
<1>0. Request(q) /\ DOMAIN request = Replicas
  BY DEF ResponsesInv, RequestsOK
<1>1. /\ request' = [request EXCEPT ![r] =
             IF q.key \in CachedMatches /\ db[q.key] = "none" THEN Responses!Idle ELSE n]
      /\ UNCHANGED <<db, store, poller, why>>
  BY DEF Responses!ReadDb
<1>2. v \in Payloads(q.key)
  BY ContentIs DEF ResponsesInv
<1>3. Request(n)
  <2> HIDE DEF q, v
  <2>1. DOMAIN n = {"at", "key", "val"} /\ n.at = "read" /\ n.key = q.key /\ n.val = v
    BY <1>0 DEF Request
  <2> HIDE DEF n
  <2> QED
    BY <1>0, <1>2, <2>1 DEF Request
<1> HIDE DEF n
<1>4. RequestsOK'
  BY <1>0, <1>1, <1>3, IdleIs DEF ResponsesInv, RequestsOK
<1>5. StoreOK'
  BY <1>1 DEF ResponsesInv, StoreOK
<1>6. Shared => \A j \in Responses!Keys \ {"page"} : Excused(j)'
  BY <1>1, StaysExcused DEF ResponsesInv
<1> QED
  BY <1>1, <1>4, <1>5, <1>6 DEF ResponsesInv

Reasons(w) == w \subseteq {"late", "failed", "reorg"}
Put(s, k, e, w) ==
    store' = [store EXCEPT ![s][k] = e] /\ why' = [why EXCEPT ![s][k] = w]

\* Writing one entry with its reasons.
LEMMA PutKeeps ==
    ASSUME StoreOK, NEW s \in Responses!Stores, NEW k \in Responses!Keys, NEW e, Entry(e, k),
           NEW w, Reasons(w),
           Put(s, k, e, w)
    PROVE  /\ StoreOK' /\ store'[s][k] = e /\ why'[s][k] = w
           /\ \A j \in Responses!Keys \ {k} :
                 store'[s][j] = store[s][j] /\ why'[s][j] = why[s][j]
<1>1. DOMAIN store = Responses!Stores /\ DOMAIN store[s] = Responses!Keys
  BY DEF StoreOK
<1>2. why[s] \in [Responses!Keys -> SUBSET {"late", "failed", "reorg"}]
  BY DEF StoreOK
<1>3. /\ store'[s][k] = e /\ why'[s][k] = w
      /\ \A j \in Responses!Keys \ {k} :
            store'[s][j] = store[s][j] /\ why'[s][j] = why[s][j]
  BY <1>1, <1>2 DEF StoreOK, Put
<1>4. why' \in [Responses!Stores -> [Responses!Keys -> SUBSET {"late", "failed", "reorg"}]]
  BY <1>2 DEF StoreOK, Put, Reasons
<1>5. /\ DOMAIN store' = Responses!Stores
      /\ \A t \in Responses!Stores : DOMAIN store'[t] = Responses!Keys
      /\ \A t \in Responses!Stores \ {s} : store'[t] = store[t]
  BY <1>1 DEF StoreOK, Put
<1>6. \A t \in Responses!Stores, j \in Responses!Keys : Entry(store'[t][j], j)
  BY <1>3, <1>5 DEF StoreOK
<1>7. StoreOK'
  BY <1>4, <1>5, <1>6 DEF StoreOK
<1> QED
  BY <1>3, <1>7

\* set_json: an answer the table has left behind meanwhile is marked as late.
LEMMA SetKeeps ==
    ASSUME ResponsesInv, NEW r \in Replicas, Responses!SetJson(r)
    PROVE  ResponsesInv'
<1>. PICK k, v : k = request[r].key /\ v = request[r].val
  OBVIOUS
<1> DEFINE s == Responses!StoreOf(r)
           e == [val |-> v, left |-> Responses!Ttl(k, v)]
           w == IF v = Responses!Content(k) THEN {} ELSE {"late"}
<1>0. /\ Request(request[r]) /\ DOMAIN request = Replicas /\ StoreOK
      /\ request[r].at = "read" /\ k \in Responses!Keys /\ v \in Payloads(k)
  BY DEF ResponsesInv, RequestsOK, Request, Responses!SetJson
<1>1. /\ request' = [request EXCEPT ![r] = Responses!Idle]
      /\ UNCHANGED <<db, poller>>
      /\ Put(s, k, e, w) \/ UNCHANGED <<store, why>>
  BY DEF Responses!SetJson, Put
<1>2. RequestsOK'
  BY <1>0, <1>1, IdleIs DEF ResponsesInv, RequestsOK
<1>3. s \in Responses!Stores /\ (Shared => s = "redis")
  BY DEF Responses!StoreOf, Responses!Stores
<1>4. CASE Put(s, k, e, w)
  <2>1. Entry(e, k)
    <3>1. Responses!Ttl(k, v) \in 1 .. 3
      BY TtlIs
    <3> QED
      BY <1>0, <3>1 DEF Entry
  <2>2. Reasons(w)
    BY DEF Reasons
  <2>3. e.val = v /\ (v # Responses!Content(k) => w # {})
    OBVIOUS
  <2> HIDE DEF e, w, s
  <2>4. /\ StoreOK' /\ store'[s][k] = e /\ why'[s][k] = w
        /\ \A j \in Responses!Keys \ {k} :
              store'[s][j] = store[s][j] /\ why'[s][j] = why[s][j]
    BY <1>0, <1>3, <1>4, <2>1, <2>2, PutKeeps
  <2>5. Shared => Excused(k)'
    <3>1. Responses!Content(k)' = Responses!Content(k)
      BY <1>1 DEF Responses!Content
    <3> QED
      BY <1>3, <2>3, <2>4, <3>1 DEF Excused, Responses!Stale
  <2>6. Shared => \A j \in Responses!Keys \ {"page", k} : Excused(j)'
    BY <1>1, <1>3, <2>4, StaysExcused DEF ResponsesInv
  <2> QED
    BY <1>1, <1>2, <2>4, <2>5, <2>6 DEF ResponsesInv
<1>5. CASE UNCHANGED <<store, why>>
  <2>1. StoreOK'
    BY <1>0, <1>5 DEF StoreOK
  <2>2. Shared => \A j \in Responses!Keys \ {"page"} : Excused(j)'
    BY <1>1, <1>5, StaysExcused DEF ResponsesInv
  <2> QED
    BY <1>1, <1>2, <2>1, <2>2 DEF ResponsesInv
<1> QED
  BY <1>1, <1>4, <1>5

\* A payload of another version is no payload of this one.
LEMMA ForeignKeeps ==
    ASSUME ResponsesInv, NEW k \in Responses!Keys, Responses!SetForeign(k)
    PROVE  ResponsesInv'
<1> DEFINE e == [val |-> Responses!Foreign, left |-> 1]
<1>1. /\ Shared /\ UNCHANGED <<db, request, poller>>
      /\ Put("redis", k, e, {"failed"})
  BY DEF Responses!SetForeign, Put
<1>2. "redis" \in Responses!Stores
  BY <1>1 DEF Responses!Stores
<1>3. Entry(e, k)
  BY DEF Entry
<1> HIDE DEF e
<1>4. /\ StoreOK' /\ why'["redis"][k] = {"failed"}
      /\ \A j \in Responses!Keys \ {k} :
            store'["redis"][j] = store["redis"][j] /\ why'["redis"][j] = why["redis"][j]
  <2>1. Reasons({"failed"})
    BY DEF Reasons
  <2> QED
    BY <1>1, <1>2, <1>3, <2>1, PutKeeps DEF ResponsesInv
<1>5. Excused(k)'
  BY <1>4 DEF Excused
<1>6. \A j \in Responses!Keys \ {"page", k} : Excused(j)'
  BY <1>1, <1>4, StaysExcused DEF ResponsesInv
<1>7. RequestsOK'
  BY <1>1 DEF ResponsesInv, RequestsOK
<1> QED
  BY <1>1, <1>4, <1>5, <1>6, <1>7 DEF ResponsesInv

\* An event moves one match, and the poller is about to deal with its keys.
LEMMA IngestKeeps ==
    ASSUME ResponsesInv, NEW m \in CachedMatches, Responses!Ingest(m)
    PROVE  ResponsesInv'
<1>1. PICK st \in Responses!Statuses : db' = [db EXCEPT ![m] = st]
  BY DEF Responses!Ingest
<1>2. /\ poller' = [at |-> "stored", m |-> m] /\ poller.at = "idle"
      /\ UNCHANGED <<store, request, why>>
  BY DEF Responses!Ingest
<1>3. /\ DOMAIN poller' = {"at", "m"} /\ poller'.at = "stored" /\ poller'.m = m
  BY <1>2
<1>4. db' \in [CachedMatches -> Responses!Statuses]
  BY <1>1 DEF ResponsesInv
<1>5. ASSUME Shared, NEW k \in Responses!Keys \ {"page"} PROVE Excused(k)'
  <2>1. CASE k \in {m, "list", "stats"}
    BY <1>3, <2>1 DEF Excused, Awaited
  <2>2. CASE k \notin {m, "list", "stats"}
    <3>1. k \in CachedMatches /\ k # m
      BY <2>2, KeysAre
    <3>2. Responses!Content(k)' = Responses!Content(k)
      BY <1>1, <3>1 DEF Responses!Content, Responses!Covers, ResponsesInv
    <3>3. Excused(k) /\ ~Awaited(k)
      BY <1>2, <1>5 DEF ResponsesInv, Awaited
    <3> QED
      BY <1>2, <3>2, <3>3 DEF Excused, Responses!Stale
  <2> QED
    BY <2>1, <2>2
<1>6. StoreOK' /\ RequestsOK'
  BY <1>2 DEF ResponsesInv, StoreOK, RequestsOK
<1> QED
  BY <1>3, <1>4, <1>5, <1>6 DEF ResponsesInv

\* The poller's delete, of the keys that wait for it, and no key waits after it.
LEMMA InvalidateKeeps ==
    ASSUME ResponsesInv, NEW r \in Replicas, NEW ks, Responses!Delete(Responses!StoreOf(r), ks),
           \A k \in Responses!Keys \ {"page"} : Awaited(k) => k \in ks,
           poller' = [poller EXCEPT !.at = "idle"], UNCHANGED <<db, request>>
    PROVE  ResponsesInv'
<1> DEFINE s == Responses!StoreOf(r)
<1>1. s \in Responses!Stores /\ (Shared => s = "redis")
  BY DEF Responses!StoreOf, Responses!Stores
<1>2. /\ StoreOK'
      /\ \A k \in Responses!Keys :
            \/ store'[s][k] = Responses!Absent
            \/ store'[s][k] = store[s][k] /\ why[s][k] \subseteq why'[s][k]
      /\ \A k \in ks \cap Responses!Keys :
            store'[s][k] = Responses!Absent \/ why'[s][k] # {}
  BY <1>1, DeleteKeeps, Zenon DEF ResponsesInv
<1>3. /\ DOMAIN poller' = {"at", "m"} /\ poller'.at = "idle" /\ poller'.m = poller.m
  BY DEF ResponsesInv
<1>4. ASSUME Shared, NEW k \in Responses!Keys \ {"page"} PROVE Excused(k)'
  <2>1. CASE store'["redis"][k] = Responses!Absent
    BY <2>1 DEF Excused, Responses!Stale, Responses!Absent, Responses!Nothing
  <2>2. CASE why'["redis"][k] # {}
    BY <2>2 DEF Excused
  <2>3. CASE /\ k \notin ks /\ store'["redis"][k] = store["redis"][k]
             /\ why["redis"][k] \subseteq why'["redis"][k]
    <3>1. Excused(k) /\ ~Awaited(k)
      BY <1>4, <2>3 DEF ResponsesInv
    <3>2. Responses!Content(k)' = Responses!Content(k)
      BY DEF Responses!Content
    <3> QED
      BY <2>3, <3>1, <3>2 DEF Excused, Responses!Stale
  <2> QED
    BY <1>1, <1>2, <1>4, <2>1, <2>2, <2>3
<1>5. RequestsOK'
  BY DEF ResponsesInv, RequestsOK
<1>6. db' \in [CachedMatches -> Responses!Statuses] /\ poller'.m \in CachedMatches
  BY <1>3 DEF ResponsesInv
<1> QED
  BY <1>2, <1>3, <1>4, <1>5, <1>6 DEF ResponsesInv

\* A reorg moves matches back: their entries have a reason, the lists wait.
LEMMA ReorgKeeps == ASSUME ResponsesInv, Responses!Reorg PROVE ResponsesInv'
<1>1. PICK back \in [CachedMatches -> Responses!Statuses] :
         /\ db' = back
         /\ why' = [s \in Responses!Stores |-> [k \in Responses!Keys |-> why[s][k] \union
                      (IF k \in CachedMatches /\ back[k] # db[k] THEN {"reorg"} ELSE {})]]
  BY DEF Responses!Reorg
<1>2. /\ poller' = [poller EXCEPT !.at = "reorged"] /\ poller.at = "idle"
      /\ UNCHANGED <<store, request>>
  BY DEF Responses!Reorg
<1>3. DOMAIN poller' = {"at", "m"} /\ poller'.at = "reorged" /\ poller'.m = poller.m
  BY <1>2 DEF ResponsesInv
<1>4. ASSUME Shared, NEW k \in Responses!Keys \ {"page"} PROVE Excused(k)'
  <2>0. "redis" \in Responses!Stores
    BY <1>4 DEF Responses!Stores
  <2>1. CASE k \notin CachedMatches
    BY <1>3, <2>1 DEF Excused, Awaited
  <2>2. CASE k \in CachedMatches /\ back[k] # db[k]
    BY <1>1, <2>0, <2>2 DEF Excused
  <2>3. CASE k \in CachedMatches /\ back[k] = db[k]
    <3>1. Responses!Content(k)' = Responses!Content(k)
      BY <1>1, <2>3 DEF Responses!Content, Responses!Covers
    <3>2. Excused(k) /\ ~Awaited(k)
      BY <1>2, <1>4 DEF ResponsesInv, Awaited
    <3>3. why["redis"][k] \subseteq why'["redis"][k]
      BY <1>1, <2>0
    <3> QED
      BY <1>2, <3>1, <3>2, <3>3 DEF Excused, Responses!Stale
  <2> QED
    BY <2>1, <2>2, <2>3
<1>5. StoreOK'
  BY <1>1, <1>2 DEF ResponsesInv, StoreOK
<1>6. RequestsOK'
  BY <1>2 DEF ResponsesInv, RequestsOK
<1>7. db' \in [CachedMatches -> Responses!Statuses] /\ poller'.m \in CachedMatches
  BY <1>1, <1>3 DEF ResponsesInv
<1> QED
  BY <1>3, <1>4, <1>5, <1>6, <1>7 DEF ResponsesInv

\* An entry a second older.
LEMMA AgedIs ==
    ASSUME NEW k, NEW e, Entry(e, k)
    PROVE  /\ Entry(Responses!Aged(e), k)
           /\ Responses!Aged(e) = Responses!Absent \/ Responses!Aged(e).val = e.val
<1>1. CASE e = Responses!Absent \/ e.left <= 1
  BY <1>1 DEF Entry, Responses!Aged, Responses!Absent
<1>2. CASE e # Responses!Absent /\ ~(e.left <= 1)
  <2> DEFINE f == [e EXCEPT !.left = @ - 1]
  <2>1. Responses!Aged(e) = f
    BY <1>2 DEF Responses!Aged
  <2>2. DOMAIN f = {"val", "left"} /\ f.val = e.val /\ f.left = e.left - 1
    BY <1>2 DEF Entry
  <2> HIDE DEF f
  <2> QED
    BY <1>2, <2>1, <2>2 DEF Entry
<1> QED
  BY <1>1, <1>2

\* A second passes.
LEMMA SecondKeeps == ASSUME ResponsesInv, Responses!Second PROVE ResponsesInv'
<1>1. /\ store' = [s \in Responses!Stores |->
                     [k \in Responses!Keys |-> Responses!Aged(store[s][k])]]
      /\ why' = [s \in Responses!Stores |-> [k \in Responses!Keys |->
                     IF store'[s][k] = Responses!Absent THEN {} ELSE why[s][k]]]
      /\ UNCHANGED <<db, request, poller>>
  BY DEF Responses!Second
<1>2. \A s \in Responses!Stores, k \in Responses!Keys :
         /\ store'[s][k] = Responses!Aged(store[s][k])
         /\ why'[s][k] = IF store'[s][k] = Responses!Absent THEN {} ELSE why[s][k]
  BY <1>1
<1>3. \A s \in Responses!Stores, k \in Responses!Keys :
         /\ Entry(store'[s][k], k)
         /\ store'[s][k] = Responses!Absent \/ store'[s][k].val = store[s][k].val
  <2> TAKE s \in Responses!Stores, k \in Responses!Keys
  <2>1. Entry(store[s][k], k) /\ store'[s][k] = Responses!Aged(store[s][k])
    BY <1>2 DEF ResponsesInv, StoreOK
  <2> QED
    BY <2>1, AgedIs, Zenon
<1>4. StoreOK'
  BY <1>1, <1>3 DEF ResponsesInv, StoreOK
<1>5. ASSUME Shared, NEW k \in Responses!Keys \ {"page"} PROVE Excused(k)'
  <2>0. "redis" \in Responses!Stores
    BY <1>5 DEF Responses!Stores
  <2>1. Excused(k) /\ Responses!Content(k)' = Responses!Content(k) /\ Awaited(k)' = Awaited(k)
    BY <1>1, <1>5 DEF ResponsesInv, Responses!Content, Awaited
  <2>2. CASE store'["redis"][k] = Responses!Absent
    BY <2>2 DEF Excused, Responses!Stale
  <2>3. CASE store'["redis"][k] # Responses!Absent
    <3>1. store["redis"][k] # Responses!Absent
      <4>1. Responses!Aged(Responses!Absent) = Responses!Absent
        BY DEF Responses!Aged, Responses!Absent
      <4>2. store'["redis"][k] = Responses!Aged(store["redis"][k])
        BY <1>2, <2>0
      <4> QED
        BY <2>3, <4>1, <4>2, Zenon
    <3>2. /\ store'["redis"][k].val = store["redis"][k].val
          /\ why'["redis"][k] = why["redis"][k]
      BY <1>2, <1>3, <2>0, <2>3
    <3> QED
      BY <2>1, <3>1, <3>2 DEF Excused, Responses!Stale
  <2> QED
    BY <2>2, <2>3
<1>6. RequestsOK'
  BY <1>1 DEF ResponsesInv, RequestsOK
<1> QED
  BY <1>1, <1>4, <1>5, <1>6 DEF ResponsesInv

\* Every step keeps the invariant.
LEMMA ResponsesStep ==
    ASSUME ResponsesInv, Responses!Next \/ UNCHANGED responseVars
    PROVE  ResponsesInv'
<1>1. ASSUME NEW r \in Replicas, Responses!Invalidate(r) PROVE ResponsesInv'
  <2>1. \A k \in Responses!Keys \ {"page"} : Awaited(k) => k \in Responses!Invalidated(poller.m)
    BY <1>1 DEF Responses!Invalidate, Awaited, Responses!Invalidated
  <2> QED
    BY <1>1, <2>1, InvalidateKeeps DEF Responses!Invalidate
<1>2. ASSUME NEW r \in Replicas, Responses!InvalidateLists(r) PROVE ResponsesInv'
  <2>1. \A k \in Responses!Keys \ {"page"} : Awaited(k) => k \in {"list", "stats"}
    BY <1>2, KeysAre DEF Responses!InvalidateLists, Awaited
  <2> QED
    BY <1>2, <2>1, InvalidateKeeps DEF Responses!InvalidateLists
<1>3. CASE UNCHANGED responseVars
  BY <1>3 DEF responseVars, ResponsesInv, StoreOK, RequestsOK, Excused, Awaited,
     Responses!Stale, Responses!Content
<1> QED
  BY <1>1, <1>2, <1>3, MissKeeps, ReadKeeps, SetKeeps, ForeignKeeps, IngestKeeps, ReorgKeeps,
     SecondKeeps, Zenon DEF Responses!Next

\* The cache starts empty.
LEMMA ResponsesInit == ASSUME Responses!Init PROVE ResponsesInv
<1>1. Request(Responses!Idle) /\ (CHOOSE m \in CachedMatches : TRUE) \in CachedMatches
  BY IdleIs, KeysAre
<1>2. StoreOK /\ \A k \in Responses!Keys, s \in Responses!Stores : store[s][k] = Responses!Absent
  BY DEF Responses!Init, StoreOK, Entry
<1>3. RequestsOK
  BY <1>1 DEF Responses!Init, RequestsOK
<1>4. Shared => \A k \in Responses!Keys \ {"page"} : Excused(k)
  BY <1>2 DEF Excused, Responses!Stale, Responses!Stores
<1>5. db \in [CachedMatches -> Responses!Statuses]
  BY DEF Responses!Init, Responses!Statuses
<1>6. DOMAIN poller = {"at", "m"} /\ poller.at = "idle" /\ poller.m \in CachedMatches
  BY <1>1 DEF Responses!Init
<1> QED
  BY <1>2, <1>3, <1>4, <1>5, <1>6 DEF ResponsesInv

\* What the invariant says of the cache.
LEMMA ResponsesSound ==
    ASSUME ResponsesInv PROVE Responses!TypeOK /\ Responses!StaleIsExcused
<1>1. Responses!TypeOK
  BY DEF ResponsesInv, Responses!TypeOK, StoreOK, Entry, RequestsOK, Request, Payloads
<1>2. Responses!StaleIsExcused
  BY DEF ResponsesInv, Excused, Awaited, Responses!StaleIsExcused
<1> QED
  BY <1>1, <1>2

(***************************************************************************)
(* The cache of events.  What the cache holds is in the events table; the  *)
(* keys of the map are in the order of their ages, none twice; and each    *)
(* list of the index names what the map holds of its match, some of it     *)
(* twice perhaps.                                                          *)
(***************************************************************************)
Older(list, ages) ==
    \A i, j \in DOMAIN list : i < j => ages[list[i]] >= ages[list[j]]

\* A list of keys, in the order of the ages.
Ordered(list, ages) ==
    list \in Seq(EventIds) /\ NamesOnce(list) /\ Older(list, ages)

\* The index says of the match m what the list says.
IndexTells(list, ix, m) == Named(ix[m]) = {x \in Named(list) : matchOf[x] = m}

CacheInv ==
    /\ matchOf \in [EventIds -> EventMatches]
    /\ stored \subseteq EventIds /\ ingesting \subseteq stored
    /\ entryAge \in [EventIds -> 0 .. EventTtl]
    /\ Ordered(order, entryAge) /\ Len(order) <= CacheSize
    /\ Named(order) \subseteq stored
    /\ index \in [EventMatches -> Seq(EventIds)]
    /\ \A m \in EventMatches : IndexTells(order, index, m)

\* EventCache lists as the lemmas about lists do.
LEMMA CacheAlike ==
    /\ \A s : Cache!Named(s) = Named(s)
    /\ \A s : Cache!NamesOnce(s) <=> NamesOnce(s)
    /\ \A s, x : Cache!Without(s, x) = Without(s, x)
<1>1. \A s, x : Cache!Without(s, x) = Without(s, x)
  BY DEF Cache!Without, Without
<1> QED
  BY <1>1 DEF Cache!Named, Named, Cache!NamesOnce, NamesOnce

\* Removing a key that is there closes the gap, and keeps the order.
LEMMA KeyLeaves ==
    ASSUME NEW list, NEW ages, Ordered(list, ages), NEW x \in Named(list)
    PROVE  /\ Ordered(Without(list, x), ages) /\ Len(Without(list, x)) = Len(list) - 1
           /\ Named(Without(list, x)) = Named(list) \ {x}
<1>0. list \in Seq(EventIds) /\ NamesOnce(list) /\ Older(list, ages)
  BY DEF Ordered
<1>1. /\ Without(list, x) \in Seq(EventIds) /\ NamesOnce(Without(list, x))
      /\ Named(Without(list, x)) = Named(list) \ {x}
  BY <1>0, WithoutNames
<1>2. PICK k \in DOMAIN list : x = list[k]
  BY DEF Named
<1>3. Len(list) \in Nat /\ DOMAIN list = 1..Len(list) /\ k \in 1..Len(list)
  BY <1>0
<1>4. \A i \in 1..Len(list) : list[i] = list[k] => i = k
  BY <1>0, <1>3 DEF NamesOnce
<1> DEFINE w == [j \in 1..(Len(list) - 1) |-> IF j < k THEN list[j] ELSE list[j + 1]]
<1>5. Without(list, x) = w
  BY <1>0, <1>2, <1>3, <1>4, WithoutIs
<1>6. Len(w) = Len(list) - 1 /\ DOMAIN w = 1..(Len(list) - 1)
  BY <1>3
<1>7. Older(w, ages)
  <2> SUFFICES ASSUME NEW i \in 1..(Len(list) - 1), NEW j \in 1..(Len(list) - 1), i < j
               PROVE  ages[w[i]] >= ages[w[j]]
    BY <1>6 DEF Older
  <2>1. PICK a \in DOMAIN list, b \in DOMAIN list : a < b /\ w[i] = list[a] /\ w[j] = list[b]
    <3>1. CASE j < k
      <4>1. w[i] = list[i] /\ w[j] = list[j] /\ i \in DOMAIN list /\ j \in DOMAIN list
        BY <1>3, <3>1
      <4> QED
        BY <4>1
    <3>2. CASE i < k /\ ~(j < k)
      BY <1>3, <3>2
    <3>3. CASE ~(i < k)
      BY <1>3, <3>3
    <3> QED
      BY <1>3, <3>1, <3>2, <3>3
  <2> QED
    BY <1>0, <2>1 DEF Older
<1> HIDE DEF w
<1> QED
  BY <1>1, <1>5, <1>6, <1>7 DEF Ordered

\* The key that is evicted is the first.
LEMMA FrontLeaves ==
    ASSUME NEW list, NEW ages, Ordered(list, ages), list # << >>
    PROVE  Head(list) \in Named(list) /\ Tail(list) = Without(list, Head(list))
<1>0. list \in Seq(EventIds) /\ NamesOnce(list)
  BY DEF Ordered
<1>1. Len(list) \in Nat /\ DOMAIN list = 1..Len(list) /\ 1 \in 1..Len(list) /\ Head(list) = list[1]
  BY <1>0
<1>2. Without(list, list[1]) = [j \in 1..(Len(list) - 1) |-> IF j < 1 THEN list[j] ELSE list[j + 1]]
  <2>1. \A i \in 1..Len(list) : list[i] = list[1] => i = 1
    BY <1>0, <1>1 DEF NamesOnce
  <2> QED
    BY <1>0, <1>1, <2>1, WithoutIs
<1>3. /\ Tail(list) \in Seq(EventIds) /\ Len(Tail(list)) = Len(list) - 1
      /\ \A j \in 1..(Len(list) - 1) : Tail(list)[j] = list[j + 1]
  BY <1>0, <1>1
<1>4. Without(list, list[1]) \in Seq(EventIds)
  BY <1>0, WithoutNames
<1>5. /\ Len(Without(list, list[1])) = Len(list) - 1
      /\ \A j \in 1..(Len(list) - 1) : Without(list, list[1])[j] = list[j + 1]
  BY <1>1, <1>2
<1>6. Tail(list) = Without(list, list[1])
  BY <1>3, <1>4, <1>5, SameList
<1> QED
  BY <1>1, <1>6 DEF Named

\* A key inserted at the back is the youngest.
LEMMA KeyEnters ==
    ASSUME NEW list, NEW ages \in [EventIds -> 0 .. EventTtl], Ordered(list, ages),
           NEW e \in EventIds, e \notin Named(list)
    PROVE  /\ Ordered(Append(list, e), [ages EXCEPT ![e] = 0])
           /\ Len(Append(list, e)) = Len(list) + 1
           /\ Named(Append(list, e)) = Named(list) \cup {e}
<1> DEFINE new == [ages EXCEPT ![e] = 0]
           back == Append(list, e)
<1>0. list \in Seq(EventIds) /\ NamesOnce(list) /\ Older(list, ages)
  BY DEF Ordered
<1>1. /\ back \in Seq(EventIds) /\ NamesOnce(back) /\ Named(back) = Named(list) \cup {e}
  BY <1>0, AppendKeeps
<1>2. /\ Len(list) \in Nat /\ DOMAIN list = 1..Len(list) /\ Len(back) = Len(list) + 1
      /\ DOMAIN back = 1..(Len(list) + 1) /\ back[Len(list) + 1] = e
      /\ \A i \in 1..Len(list) : back[i] = list[i] /\ list[i] \in EventIds
  BY <1>0
<1>3. \A i \in 1..Len(list) : list[i] # e /\ ages[list[i]] \in Nat
  BY <1>0, <1>2, IndexerAssumption DEF Named, Cache!ConstantsOK
<1>4. new[e] = 0 /\ \A i \in 1..Len(list) : new[list[i]] = ages[list[i]]
  BY <1>2, <1>3
<1> HIDE DEF new, back
<1>5. Older(back, new)
  <2> SUFFICES ASSUME NEW i \in 1..(Len(list) + 1), NEW j \in 1..(Len(list) + 1), i < j
               PROVE  new[back[i]] >= new[back[j]]
    BY <1>2 DEF Older
  <2>0. i \in 1..Len(list)
    BY <1>2
  <2>1. CASE j = Len(list) + 1
    BY <1>2, <1>3, <1>4, <2>0, <2>1
  <2>2. CASE j \in 1..Len(list)
    <3>1. ages[list[i]] >= ages[list[j]]
      BY <1>0, <1>2, <2>0, <2>2 DEF Older
    <3> QED
      BY <1>2, <1>4, <2>0, <2>2, <3>1
  <2> QED
    BY <1>2, <2>1, <2>2
<1> QED
  BY <1>1, <1>2, <1>5 DEF Ordered, new, back

\* There is room at the back of the list for e, and the index agrees with the list
\* but for e.
RoomFor(list, ix, e) ==
    /\ Ordered(list, entryAge) /\ Len(list) < CacheSize /\ e \notin Named(list)
    /\ Named(list) \subseteq stored /\ ix \in [EventMatches -> Seq(EventIds)]
    /\ \A m \in EventMatches, x \in EventIds :
           x # e \/ m # matchOf[e] =>
               (x \in Named(ix[m]) <=> x \in Named(list) /\ matchOf[x] = m)

PutsBack(list, ix, e) ==
    /\ ingesting = {e} /\ order' = Append(list, e) /\ index' = Cache!Indexed(ix, e)
    /\ entryAge' = [entryAge EXCEPT ![e] = 0]
    /\ ingesting' = {} /\ UNCHANGED <<matchOf, stored>>

\* The event at hand is put at the back of the map and of its match's list.
LEMMA PutBack ==
    ASSUME CacheInv, NEW e \in EventIds, NEW list, NEW ix,
           RoomFor(list, ix, e), PutsBack(list, ix, e)
    PROVE  CacheInv'
<1> USE DEF RoomFor, PutsBack
<1>0. /\ matchOf \in [EventIds -> EventMatches] /\ stored \subseteq EventIds
      /\ entryAge \in [EventIds -> 0 .. EventTtl] /\ e \in stored
  BY DEF CacheInv
<1>1. /\ Ordered(order', entryAge') /\ Len(order') = Len(list) + 1
      /\ Named(order') = Named(list) \cup {e}
  BY <1>0, KeyEnters
<1>2. Len(list) \in Nat /\ Named(list) \subseteq EventIds
  BY DEF Ordered, Named
<1>3. Len(order') <= CacheSize
  BY <1>1, <1>2, IndexerAssumption DEF Cache!ConstantsOK
<1>4. entryAge' \in [EventIds -> 0 .. EventTtl]
  BY <1>0, IndexerAssumption DEF Cache!ConstantsOK
<1>5. matchOf[e] \in EventMatches /\ index' = [ix EXCEPT ![matchOf[e]] = Append(@, e)]
  BY <1>0 DEF Cache!Indexed
<1>6. /\ Append(ix[matchOf[e]], e) \in Seq(EventIds)
      /\ Named(Append(ix[matchOf[e]], e)) = Named(ix[matchOf[e]]) \cup {e}
  BY <1>5, AppendNames
<1>7. /\ index' \in [EventMatches -> Seq(EventIds)]
      /\ index'[matchOf[e]] = Append(ix[matchOf[e]], e)
      /\ \A m \in EventMatches : m # matchOf[e] => index'[m] = ix[m]
  BY <1>5, <1>6
<1>8. ASSUME NEW m \in EventMatches PROVE IndexTells(order', index', m)
  <2>1. Named(ix[m]) \subseteq EventIds
    BY DEF Named
  <2>2. CASE m = matchOf[e]
    BY <1>1, <1>2, <1>6, <1>7, <2>1, <2>2 DEF IndexTells
  <2>3. CASE m # matchOf[e]
    BY <1>1, <1>2, <1>7, <2>1, <2>3 DEF IndexTells
  <2> QED
    BY <2>2, <2>3
<1> QED
  BY <1>0, <1>1, <1>3, <1>4, <1>7, <1>8 DEF CacheInv, IndexTells

\* A step that leaves fewer keys, and rebuilds the index without the key that left.
LEMMA WithoutKey ==
    ASSUME CacheInv, NEW x \in EventIds, NEW list,
           Named(list) = Named(order) \ {x}
    PROVE  /\ Cache!Unindexed(x) \in [EventMatches -> Seq(EventIds)]
           /\ \A m \in EventMatches : IndexTells(list, Cache!Unindexed(x), m)
<1>1. ASSUME NEW m \in EventMatches
      PROVE  /\ Cache!Without(index[m], x) \in Seq(EventIds)
             /\ Named(Cache!Without(index[m], x)) = Named(index[m]) \ {x}
  <2>1. index[m] \in Seq(EventIds)
    BY DEF CacheInv
  <2> QED
    BY <2>1, WithoutAny, CacheAlike, Zenon
<1>2. \A m \in EventMatches : Cache!Unindexed(x)[m] = Cache!Without(index[m], x)
  BY DEF Cache!Unindexed
<1>3. Cache!Unindexed(x) \in [EventMatches -> Seq(EventIds)]
  BY <1>1 DEF Cache!Unindexed
<1>4. ASSUME NEW m \in EventMatches PROVE IndexTells(list, Cache!Unindexed(x), m)
  <2>1. Named(Cache!Unindexed(x)[m]) = Named(index[m]) \ {x}
    BY <1>1, <1>2
  <2>2. Named(index[m]) = {y \in Named(order) : matchOf[y] = m}
    BY DEF CacheInv, IndexTells
  <2> QED
    BY <2>1, <2>2 DEF IndexTells
<1> QED
  BY <1>3, <1>4

\* insert of an id that is there.
LEMMA RefreshKeeps ==
    ASSUME CacheInv, NEW e \in EventIds, Cache!Refresh(e)
    PROVE  CacheInv'
<1> DEFINE list == Without(order, e)
<1>1. e \in Named(order) /\ PutsBack(list, index, e)
  BY CacheAlike, Zenon DEF Cache!Refresh, Cache!Refreshed, Cache!Cached, Cache!log, PutsBack
<1>2. /\ Ordered(order, entryAge) /\ Len(order) <= CacheSize /\ Named(order) \subseteq stored
      /\ index \in [EventMatches -> Seq(EventIds)]
      /\ \A m \in EventMatches : IndexTells(order, index, m)
  BY DEF CacheInv
<1>3. /\ Ordered(list, entryAge) /\ Len(list) = Len(order) - 1
      /\ Named(list) = Named(order) \ {e}
  BY <1>1, <1>2, KeyLeaves
<1>4. Len(list) < CacheSize
  <2>1. Len(order) \in Nat
    BY <1>2 DEF Ordered
  <2> QED
    BY <1>2, <1>3, <2>1, IndexerAssumption DEF Cache!ConstantsOK
<1> HIDE DEF list
<1>5. \A m \in EventMatches, x \in EventIds :
         x # e \/ m # matchOf[e] =>
             (x \in Named(index[m]) <=> x \in Named(list) /\ matchOf[x] = m)
  BY <1>2, <1>3 DEF IndexTells
<1>6. RoomFor(list, index, e)
  BY <1>2, <1>3, <1>4, <1>5 DEF RoomFor
<1> QED
  BY <1>1, <1>6, PutBack, Zenon

\* insert of an id that is not there, and the eviction it may cost.
LEMMA InsertKeeps ==
    ASSUME CacheInv, NEW e \in EventIds, Cache!Insert(e)
    PROVE  CacheInv'
<1> DEFINE list == IF Cache!Full THEN Tail(order) ELSE order
           ix == IF Cache!Full THEN Cache!IndexAfterEviction ELSE index
<1>1. e \notin Named(order) /\ PutsBack(list, ix, e)
  BY CacheAlike, Zenon DEF Cache!Insert, Cache!Cached, Cache!log, PutsBack
<1>2. /\ Ordered(order, entryAge) /\ Len(order) <= CacheSize /\ Named(order) \subseteq stored
      /\ index \in [EventMatches -> Seq(EventIds)] /\ stored \subseteq EventIds
      /\ \A m \in EventMatches : IndexTells(order, index, m)
      /\ order \in Seq(EventIds) /\ Len(order) \in Nat
  BY DEF CacheInv, Ordered
<1>3. /\ Ordered(list, entryAge) /\ Len(list) < CacheSize /\ Named(list) \subseteq Named(order)
      /\ ix \in [EventMatches -> Seq(EventIds)]
      /\ \A m \in EventMatches : IndexTells(list, ix, m)
  <2>1. CASE Cache!Full
    <3>1. order # << >>
      BY <1>2, <2>1, IndexerAssumption DEF Cache!Full, Cache!ConstantsOK
    <3>2. PICK h \in Named(order) : h = Head(order) /\ Tail(order) = Without(order, h)
      BY <1>2, <3>1, FrontLeaves
    <3>3. /\ Ordered(Without(order, h), entryAge) /\ Len(Without(order, h)) = Len(order) - 1
          /\ Named(Without(order, h)) = Named(order) \ {h}
      BY <1>2, KeyLeaves
    <3>4. h \in EventIds
      BY <1>2
    <3>5. /\ Cache!Unindexed(h) \in [EventMatches -> Seq(EventIds)]
          /\ \A m \in EventMatches : IndexTells(Without(order, h), Cache!Unindexed(h), m)
      BY <3>3, <3>4, WithoutKey
    <3>6. list = Without(order, h) /\ ix = Cache!Unindexed(h)
      BY <2>1, <3>2 DEF Cache!IndexAfterEviction
    <3>7. Len(order) - 1 < CacheSize
      BY <1>2, IndexerAssumption DEF Cache!ConstantsOK
    <3> HIDE DEF list, ix
    <3> QED
      BY <3>3, <3>5, <3>6, <3>7
  <2>2. CASE ~Cache!Full
    BY <1>2, <2>2, IndexerAssumption DEF Cache!Full, Cache!ConstantsOK
  <2> QED
    BY <2>1, <2>2
<1> HIDE DEF list, ix
<1>4. e \notin Named(list) /\ Named(list) \subseteq stored
  BY <1>1, <1>2, <1>3
<1>5. \A m \in EventMatches, x \in EventIds :
         x # e \/ m # matchOf[e] =>
             (x \in Named(ix[m]) <=> x \in Named(list) /\ matchOf[x] = m)
  BY <1>3 DEF IndexTells
<1>6. RoomFor(list, ix, e)
  BY <1>3, <1>4, <1>5 DEF RoomFor
<1> QED
  BY <1>1, <1>6, PutBack, Zenon

\* remove.
LEMMA DropKeeps ==
    ASSUME CacheInv, NEW e \in EventIds, Cache!Drop(e)
    PROVE  CacheInv'
<1>1. /\ e \in Named(order) /\ order' = Without(order, e) /\ index' = Cache!Unindexed(e)
      /\ UNCHANGED <<matchOf, stored, ingesting, entryAge>>
  BY CacheAlike, Zenon DEF Cache!Drop, Cache!Cached, Cache!log
<1>2. /\ Ordered(order, entryAge) /\ Len(order) <= CacheSize /\ Len(order) \in Nat
      /\ Named(order) \subseteq stored
  BY DEF CacheInv, Ordered
<1>3. /\ Ordered(order', entryAge) /\ Len(order') = Len(order) - 1
      /\ Named(order') = Named(order) \ {e}
  BY <1>1, <1>2, KeyLeaves
<1>4. /\ index' \in [EventMatches -> Seq(EventIds)]
      /\ \A m \in EventMatches : IndexTells(order', index', m)
  BY <1>1, <1>3, WithoutKey
<1>5. Len(order') <= CacheSize
  BY <1>2, <1>3, IndexerAssumption DEF Cache!ConstantsOK
<1> QED
  BY <1>1, <1>2, <1>3, <1>4, <1>5 DEF CacheInv, IndexTells

\* Every step keeps the invariant.
LEMMA CacheStep ==
    ASSUME CacheInv, Cache!Next \/ UNCHANGED cacheVars
    PROVE  CacheInv'
<1>1. ASSUME NEW e \in EventIds, Cache!Store(e) PROVE CacheInv'
  BY <1>1 DEF Cache!Store, CacheInv, IndexTells
<1>2. CASE Cache!Clear
  <2>1. /\ order' = << >> /\ index' = [m \in EventMatches |-> << >>]
        /\ UNCHANGED <<matchOf, stored, ingesting, entryAge>>
    BY <1>2 DEF Cache!Clear, Cache!log
  <2>2. << >> \in Seq(EventIds) /\ Len(<< >>) = 0 /\ DOMAIN << >> = {}
    OBVIOUS
  <2>3. Named(<< >>) = {} /\ Ordered(<< >>, entryAge)
    BY <2>2 DEF Named, Ordered, NamesOnce, Older
  <2>4. Len(order') <= CacheSize
    BY <2>1, <2>2, IndexerAssumption DEF Cache!ConstantsOK
  <2>5. /\ index' \in [EventMatches -> Seq(EventIds)]
        /\ \A m \in EventMatches : IndexTells(order', index', m)
    BY <2>1, <2>2, <2>3 DEF IndexTells
  <2> QED
    BY <2>1, <2>3, <2>4, <2>5 DEF CacheInv, IndexTells
<1>3. CASE Cache!Second
  <2>1. /\ entryAge' = [e \in EventIds |-> IF entryAge[e] < EventTtl THEN entryAge[e] + 1
                                           ELSE EventTtl]
        /\ UNCHANGED <<matchOf, stored, ingesting, order, index>>
    BY <1>3 DEF Cache!Second, Cache!log
  <2>2. entryAge \in [EventIds -> 0 .. EventTtl] /\ EventTtl \in Nat
    BY IndexerAssumption DEF CacheInv, Cache!ConstantsOK
  <2>3. entryAge' \in [EventIds -> 0 .. EventTtl]
    BY <2>1, <2>2
  <2>4. \A x, y \in EventIds : entryAge[x] >= entryAge[y] => entryAge'[x] >= entryAge'[y]
    BY <2>1, <2>2
  <2>5. Ordered(order, entryAge')
    <3>1. order \in Seq(EventIds) /\ NamesOnce(order) /\ Older(order, entryAge)
      BY DEF CacheInv, Ordered
    <3>2. \A i \in DOMAIN order : order[i] \in EventIds
      BY <3>1
    <3>3. Older(order, entryAge')
      BY <2>4, <3>1, <3>2 DEF Older
    <3> QED
      BY <3>1, <3>3 DEF Ordered
  <2> QED
    BY <2>1, <2>3, <2>5 DEF CacheInv, IndexTells
<1>4. CASE UNCHANGED cacheVars
  BY <1>4 DEF cacheVars, CacheInv, IndexTells
<1> QED
  BY <1>1, <1>2, <1>3, <1>4, InsertKeeps, RefreshKeeps, DropKeeps, Zenon DEF Cache!Next

\* The cache starts empty, and so does the events table.
LEMMA CacheInit == ASSUME Cache!Init PROVE CacheInv
<1>1. /\ matchOf \in [EventIds -> EventMatches] /\ stored = {} /\ ingesting = {}
      /\ order = << >> /\ entryAge = [e \in EventIds |-> EventTtl]
      /\ index = [m \in EventMatches |-> << >>]
  BY DEF Cache!Init
<1>2. << >> \in Seq(EventIds) /\ Len(<< >>) = 0 /\ DOMAIN << >> = {}
  OBVIOUS
<1>3. Named(<< >>) = {} /\ Ordered(<< >>, entryAge)
  BY <1>2 DEF Named, Ordered, NamesOnce, Older
<1>4. Len(order) <= CacheSize /\ entryAge \in [EventIds -> 0 .. EventTtl]
  BY <1>1, <1>2, IndexerAssumption DEF Cache!ConstantsOK
<1>5. /\ index \in [EventMatches -> Seq(EventIds)]
      /\ \A m \in EventMatches : IndexTells(order, index, m)
  BY <1>1, <1>2, <1>3 DEF IndexTells
<1> QED
  BY <1>1, <1>3, <1>4, <1>5 DEF CacheInv

\* What the invariant says of the cache and of what the API answers from it.
LEMMA CacheSound ==
    ASSUME CacheInv
    PROVE  /\ Cache!TypeOK /\ Cache!IndexMatchesMap /\ Cache!StrictOrder
           /\ Cache!AnswersFromLog
<1>1. Cache!TypeOK
  BY CacheAlike DEF CacheInv, Ordered, Cache!TypeOK
<1>2. \A m \in EventMatches : Cache!Named(index[m]) = {x \in Cache!Cached : matchOf[x] = m}
  BY CacheAlike DEF CacheInv, IndexTells, Cache!Cached
<1>3. Cache!IndexMatchesMap
  BY <1>2 DEF Cache!IndexMatchesMap
<1>4. Cache!StrictOrder
  BY DEF CacheInv, Ordered, Older, Cache!StrictOrder
<1>5. Cache!AnswersFromLog
  <2>1. Cache!Cached \subseteq stored
    BY CacheAlike DEF CacheInv, Cache!Cached
  <2> QED
    BY <1>2, <2>1 DEF Cache!AnswersFromLog, Cache!Answer, Cache!GetByMatch, Cache!StoredOf,
       Cache!Served
<1> QED
  BY <1>1, <1>3, <1>4, <1>5

\* For any events, matches, sizes, replicas and faults: the index of the event
\* cache tells what its map holds, the entry insert evicts is the oldest, and the
\* API answers from it what the events table has; and a response of the shared
\* cache that differs from the database has one of the reasons invalidate_match
\* leaves it (cache.rs, cache_layer.rs, api.rs).
THEOREM CachesProved == Spec => []CachesSound
<1> DEFINE Inv == CacheInv /\ ResponsesInv
<1>1. Init => Inv
  BY CacheInit, ResponsesInit DEF Init
<1>2. Inv /\ [Next]_vars => Inv'
  <2> SUFFICES ASSUME Inv, [Next]_vars PROVE Inv'
    OBVIOUS
  <2>1. Cache!Next \/ UNCHANGED cacheVars
    BY DEF Next, vars
  <2>2. Responses!Next \/ UNCHANGED responseVars
    BY DEF Next, vars
  <2>3. CacheInv'
    BY <2>1, CacheStep
  <2>4. ResponsesInv'
    BY <2>2, ResponsesStep
  <2> QED
    BY <2>3, <2>4
<1>3. Inv => CachesSound
  BY CacheSound, ResponsesSound DEF CachesSound
<1> QED
  BY <1>1, <1>2, <1>3, PTL DEF Spec
=============================================================================
