---------------------------- MODULE LeaderLease ----------------------------
(***************************************************************************)
(* Leader election between the replicas of the event indexer               *)
(* (services/event-indexer/src/leader.rs) and the loop that uses it        *)
(* (event_poller of rpc.rs).  One row of leader_state is the lease; its    *)
(* primary key is the literal '__leader__', whoever holds it.  A replica   *)
(* tries the conditional upsert at the start of every poll cycle, ingests  *)
(* when the upsert changed the row, and sleeps otherwise.  Leadership lost *)
(* clears its in-process cache of events.                                  *)
(*                                                                         *)
(* Time is the database's.  A lease is written from the replica's own      *)
(* clock (Utc::now() + ttl), so its length in database time is off by that *)
(* replica's skew.                                                         *)
(***************************************************************************)
EXTENDS Integers, FiniteSets

CONSTANTS
    Instances,     \* replicas, by instance_id
    LeaderKey,     \* the literal '__leader__'
    Ttl,           \* leader_ttl_secs
    PollInterval,  \* poll_interval_secs
    MaxSkew,       \* bound on how far a replica's clock is off
    MaxFaults      \* bound on the crashes and database errors of one run

NoRow == [id |-> "none", left |-> -1]

VARIABLES
    row,        \* the row of leader_state: its key, and held_until - NOW()
    skew,       \* each replica's clock minus the database's
    pc,         \* where each replica's event_poller is
    timer,      \* what is left of its sleep
    isLeader,   \* LeaderElection.is_leader, which is also was_leader
    cached,     \* whether its EventCache holds events
    faults,     \* crashes and errors so far
    holder,     \* history: the last winner of the lease, or "nobody"
    age         \* history: ticks since it won, up to more than any lease

ConstantsOK ==
    /\ LeaderKey \notin Instances /\ "nobody" \notin Instances
    /\ Ttl \in Nat /\ PollInterval \in Nat /\ MaxSkew \in Nat /\ MaxFaults \in Nat

vars == <<row, skew, pc, timer, isLeader, cached, faults>>

Init ==
    /\ row = NoRow
    /\ skew \in [Instances -> -MaxSkew .. MaxSkew]
    /\ pc = [i \in Instances |-> "awake"]
    /\ timer = [i \in Instances |-> 0]
    /\ isLeader = [i \in Instances |-> FALSE]
    /\ cached = [i \in Instances |-> FALSE]
    /\ faults = 0

-----------------------------------------------------------------------------
\* The upsert: INSERT when there is no row, else UPDATE where it has expired
\* or its instance_id is ours.

\* Altered for mutation: the lease is taken from its holder one tick early.
GrantedEarly(i) == row = NoRow \/ row.left <= 0 \/ row.id = i

Granted(i) == row = NoRow \/ row.left < 0 \/ row.id = i

\* The row written: the key stays the literal, held_until is our clock plus ttl.
Lease(i) == [id |-> LeaderKey, left |-> Ttl + skew[i]]

Sleep(i) ==
    /\ pc' = [pc EXCEPT ![i] = "asleep"]
    /\ timer' = [timer EXCEPT ![i] = PollInterval]

\* try_acquire answers true: the poll begins.
Win(i) ==
    /\ pc[i] = "awake"
    /\ Granted(i)
    /\ row' = Lease(i)
    /\ isLeader' = [isLeader EXCEPT ![i] = TRUE]
    /\ pc' = [pc EXCEPT ![i] = "polling"]
    /\ UNCHANGED <<skew, timer, cached, faults>>

\* try_acquire answers false: a replica that was the leader drops its cache.
StepDown(i) ==
    /\ isLeader' = [isLeader EXCEPT ![i] = FALSE]
    /\ cached' = IF isLeader[i] THEN [cached EXCEPT ![i] = FALSE] ELSE cached

Lose(i) ==
    /\ pc[i] = "awake"
    /\ ~Granted(i)
    /\ StepDown(i)
    /\ Sleep(i)
    /\ UNCHANGED <<row, skew, faults>>

\* The pool or a statement fails: counted as not being the leader.
ElectionError(i) ==
    /\ pc[i] = "awake"
    /\ faults < MaxFaults
    /\ faults' = faults + 1
    /\ StepDown(i)
    /\ Sleep(i)
    /\ UNCHANGED <<row, skew>>

\* poll_events stores an event and puts it into the cache.
Ingest(i) ==
    /\ pc[i] = "polling"
    /\ ~cached[i]
    /\ cached' = [cached EXCEPT ![i] = TRUE]
    /\ UNCHANGED <<row, skew, pc, timer, isLeader, faults>>

\* The poll ends, with or without an error.
PollEnds(i) ==
    /\ pc[i] = "polling"
    /\ Sleep(i)
    /\ UNCHANGED <<row, skew, isLeader, cached, faults>>

Wake(i) ==
    /\ pc[i] = "asleep"
    /\ timer[i] = 0
    /\ pc' = [pc EXCEPT ![i] = "awake"]
    /\ UNCHANGED <<row, skew, timer, isLeader, cached, faults>>

\* The process dies; the lease stays in the database.
Crash(i) ==
    /\ pc[i] # "down"
    /\ faults < MaxFaults
    /\ faults' = faults + 1
    /\ pc' = [pc EXCEPT ![i] = "down"]
    /\ timer' = [timer EXCEPT ![i] = 0]
    /\ isLeader' = [isLeader EXCEPT ![i] = FALSE]
    /\ cached' = [cached EXCEPT ![i] = FALSE]
    /\ UNCHANGED <<row, skew>>

Restart(i) ==
    /\ pc[i] = "down"
    /\ pc' = [pc EXCEPT ![i] = "awake"]
    /\ UNCHANGED <<row, skew, timer, isLeader, cached, faults>>

Tick ==
    /\ row' = IF row # NoRow /\ row.left >= 0 THEN [row EXCEPT !.left = @ - 1] ELSE row
    /\ timer' = [i \in Instances |-> IF timer[i] > 0 THEN timer[i] - 1 ELSE 0]
    /\ UNCHANGED <<skew, pc, isLeader, cached, faults>>

Other(i) ==
    \/ Lose(i) \/ ElectionError(i)
    \/ Ingest(i) \/ PollEnds(i) \/ Wake(i)
    \/ Crash(i) \/ Restart(i)

Next == Tick \/ \E i \in Instances : Win(i) \/ Other(i)

Spec == Init /\ [][Next]_vars

\* The same steps, and who won the lease last and how long ago.
Longest == Ttl + MaxSkew + 1

WatchedInit == Init /\ holder = "nobody" /\ age = Longest

WatchedNext ==
    \/ Tick /\ age' = (IF age < Longest THEN age + 1 ELSE age) /\ UNCHANGED holder
    \/ \E i \in Instances :
        \/ Win(i) /\ holder' = i /\ age' = 0
        \/ Other(i) /\ UNCHANGED <<holder, age>>

WatchedSpec == WatchedInit /\ [][WatchedNext]_<<vars, holder, age>>

\* Time passes, a running process runs its loop, and a poll comes to an end.
FairSpec ==
    /\ Spec
    /\ WF_vars(Tick)
    /\ \A i \in Instances :
        WF_vars(Win(i) \/ Lose(i)) /\ WF_vars(PollEnds(i)) /\ WF_vars(Wake(i))

-----------------------------------------------------------------------------
TypeOK ==
    /\ row \in {NoRow} \union [id : {LeaderKey}, left : -(MaxSkew + 1) .. Ttl + MaxSkew]
    /\ skew \in [Instances -> -MaxSkew .. MaxSkew]
    /\ pc \in [Instances -> {"awake", "asleep", "polling", "down"}]
    /\ timer \in [Instances -> 0 .. PollInterval]
    /\ isLeader \in [Instances -> BOOLEAN]
    /\ cached \in [Instances -> BOOLEAN]
    /\ faults \in 0 .. MaxFaults

\* "On leadership loss, the event cache is cleared to prevent serving stale
\* data" (event_poller): a replica that is not the leader serves no event out
\* of its own cache, through failed polls, errors and restarts.
FollowersServeNoCache == \A i \in Instances : cached[i] => isLeader[i]

\* Nobody wins the lease before the last winner's term, as long as its own clock
\* made it, is over ("only succeeds when the row does not exist or the current
\* held_until timestamp has expired", try_acquire).
TermsKept ==
    [][\A i \in Instances :
          pc[i] = "awake" /\ pc'[i] = "polling" /\ holder # "nobody"
              => age > Ttl + skew[holder]]_<<vars, holder, age>>

\* "If it crashes without renewing, the lease expires after ttl_secs and
\* another instance can take over": whatever crashed, some replica goes on
\* polling as long as one stays up.
IngestionGoesOn ==
    (\E i \in Instances : <>[](pc[i] # "down"))
        => []<>(\E i \in Instances : pc[i] = "polling")

=============================================================================
