------------------------------ MODULE ApiCache ------------------------------
(***************************************************************************)
(* The event indexer's response cache (ApiCache of                         *)
(* services/event-indexer/src/api_cache.rs), the handlers of api.rs that   *)
(* read through it and the poller of rpc.rs that drops what an ingested    *)
(* event makes stale.  A response is the status of the matches it covers.  *)
(* With Redis all replicas share one store; without it each has its own.   *)
(***************************************************************************)
EXTENDS Naturals, FiniteSets

CONSTANTS
    Matches,     \* match ids
    Replicas,    \* replicas of the service, each with one request at a time
    Lists,       \* keys of responses on several matches: see Keys
    Shared,      \* REDIS_URL is set and Redis answered at start-up
    MaxReorgs,   \* bound on the reorgs
    MaxFaults    \* bound on Redis commands that fail and on foreign payloads

VARIABLES
    db,        \* status of each match in the matches table
    store,     \* cache entries by store and key
    request,   \* the request each replica is serving
    poller,    \* what the poller of the leader is about to do
    reorgs,    \* reorgs so far
    faults,    \* faults so far
    why        \* history: why an entry may differ from the table

vars == <<db, store, request, poller, reorgs, faults, why>>

ConstantsOK ==
    /\ Lists \subseteq {"list", "page", "stats"}
    /\ Matches # {} /\ Matches \intersect {"list", "page", "stats"} = {}
    /\ MaxReorgs \in Nat /\ MaxFaults \in Nat

-----------------------------------------------------------------------------
Statuses == {"none", "pending", "active", "completed"}
Rank == [none |-> 0, pending |-> 1, active |-> 2, completed |-> 3]

\* Keys.  "list" stands for the matches_key of every status, "page" for the key
\* of GET /matches, which is a matches_key with the paging parameters appended.
Keys == Lists \union Matches
Covers(k) == IF k \in Matches THEN {k} ELSE Matches
Content(k) == [m \in Covers(k) |-> db[m]]

\* A payload written by a version of the service with other response types.
Foreign == [m \in Matches |-> "foreign"]
Nothing == [m \in {} |-> "none"]
Absent == [val |-> Nothing, left |-> 0]

\* Seconds of life of an entry, scaled down from 10, 60, 5, 5 and 300.
ListTtl == 2
StatsTtl == 3
ActiveTtl == 1
PendingTtl == 1
CompletedTtl == 3

\* pending_matches_ttl, analytics_ttl and ttl_for_status.
Ttl(k, v) ==
    CASE k = "stats" -> StatsTtl
      [] k \in Matches ->
           (CASE v[k] = "active" -> ActiveTtl
              [] v[k] = "completed" -> CompletedTtl
              [] OTHER -> PendingTtl)
      [] OTHER -> ListTtl

\* from_config: the store a replica reads and writes.
Stores == IF Shared THEN {"redis"} ELSE Replicas
StoreOf(r) == IF Shared THEN "redis" ELSE r

Idle == [at |-> "idle", key |-> CHOOSE k \in Matches : TRUE, val |-> Nothing]

Init ==
    /\ db = [m \in Matches |-> "none"]
    /\ store = [s \in Stores |-> [k \in Keys |-> Absent]]
    /\ request = [r \in Replicas |-> Idle]
    /\ poller = [at |-> "idle", m |-> CHOOSE m \in Matches : TRUE]
    /\ reorgs = 0
    /\ faults = 0
    /\ why = [s \in Stores |-> [k \in Keys |-> {}]]

\* delete: the keys leave the store; or Redis fails and they stay.
Deleted(s, ks) == [store EXCEPT ![s] = [k \in Keys |-> IF k \in ks THEN Absent ELSE @[k]]]

Delete(s, ks) ==
    \/ /\ store' = Deleted(s, ks)
       /\ why' = [why EXCEPT ![s] = [k \in Keys |-> IF k \in ks THEN {} ELSE @[k]]]
       /\ UNCHANGED faults
    \/ /\ Shared /\ faults < MaxFaults
       /\ faults' = faults + 1
       /\ why' = [why EXCEPT ![s] =
              [k \in Keys |-> @[k] \union (IF k \in ks THEN {"failed"} ELSE {})]]
       /\ UNCHANGED store

-----------------------------------------------------------------------------
(***************************************************************************)
(* Reads: get_match_info, get_matches, get_active_matches,                 *)
(* get_pending_matches and get_stats.  A hit answers and changes nothing.  *)
(***************************************************************************)
\* get_json finds nothing, a payload it cannot decode and drops, or an error.
Miss(r, k) ==
    LET e == store[StoreOf(r)][k] IN
    /\ request[r].at = "idle"
    /\ request' = [request EXCEPT ![r] = [Idle EXCEPT !.at = "missed", !.key = k]]
    /\ \/ e = Absent /\ UNCHANGED <<store, faults, why>>
       \/ e.val = Foreign /\ Delete(StoreOf(r), {k})
       \/ /\ Shared /\ faults < MaxFaults /\ e # Absent
          /\ faults' = faults + 1
          /\ UNCHANGED <<store, why>>
    /\ UNCHANGED <<db, poller, reorgs>>

\* The query.  A match that is not there is a 404, which is not cached.
ReadDb(r) ==
    /\ request[r].at = "missed"
    /\ request' = [request EXCEPT ![r] =
           IF request[r].key \in Matches /\ db[request[r].key] = "none" THEN Idle
           ELSE [@ EXCEPT !.at = "read", !.val = Content(request[r].key)]]
    /\ UNCHANGED <<db, store, poller, reorgs, faults, why>>

\* set_json; or Redis fails and the answer is served uncached.
SetJson(r) ==
    LET k == request[r].key  v == request[r].val  s == StoreOf(r) IN
    /\ request[r].at = "read"
    /\ \/ /\ store' = [store EXCEPT ![s][k] = [val |-> v, left |-> Ttl(k, v)]]
          /\ why' = [why EXCEPT ![s][k] = IF v = Content(k) THEN {} ELSE {"late"}]
          /\ UNCHANGED faults
       \/ /\ Shared /\ faults < MaxFaults
          /\ faults' = faults + 1
          /\ UNCHANGED <<store, why>>
    /\ request' = [request EXCEPT ![r] = Idle]
    /\ UNCHANGED <<db, poller, reorgs>>

\* A replica of another version writes a payload this one cannot decode.
SetForeign(k) ==
    /\ Shared /\ faults < MaxFaults
    /\ faults' = faults + 1
    /\ store' = [store EXCEPT !["redis"][k] = [val |-> Foreign, left |-> 1]]
    /\ why' = [why EXCEPT !["redis"][k] = {"failed"}]
    /\ UNCHANGED <<db, request, poller, reorgs>>

-----------------------------------------------------------------------------
\* The keys invalidate_match deletes.
Invalidated(m) == {m, "list", "stats"}

\* insert_event: the match moves on.
Ingest(m) ==
    /\ poller.at = "idle"
    /\ \E st \in Statuses : Rank[st] > Rank[db[m]] /\ db' = [db EXCEPT ![m] = st]
    /\ poller' = [at |-> "stored", m |-> m]
    /\ UNCHANGED <<store, request, reorgs, faults, why>>

\* invalidate_match.  The leader's replica deletes from the store it uses.
Invalidate(r) ==
    /\ poller.at = "stored"
    /\ Delete(StoreOf(r), Invalidated(poller.m))
    /\ poller' = [poller EXCEPT !.at = "idle"]
    /\ UNCHANGED <<db, request, reorgs>>

\* mark_events_as_invalid: the matches that lost events move back.
Reorg ==
    /\ poller.at = "idle" /\ reorgs < MaxReorgs
    /\ \E back \in [Matches -> Statuses] :
           /\ back # db /\ \A m \in Matches : Rank[back[m]] <= Rank[db[m]]
           /\ db' = back
           /\ why' = [s \in Stores |-> [k \in Keys |-> why[s][k] \union
                  (IF k \in Matches /\ back[k] # db[k] THEN {"reorg"} ELSE {})]]
    /\ reorgs' = reorgs + 1
    /\ poller' = [poller EXCEPT !.at = "reorged"]
    /\ UNCHANGED <<store, request, faults>>

\* invalidate_lists_and_analytics.
InvalidateLists(r) ==
    /\ poller.at = "reorged"
    /\ Delete(StoreOf(r), {"list", "stats"})
    /\ poller' = [poller EXCEPT !.at = "idle"]
    /\ UNCHANGED <<db, request, reorgs>>

\* A second of an entry's life: MemoryStore::get and SETEX.
Aged(e) == IF e.left <= 1 THEN Absent ELSE [e EXCEPT !.left = @ - 1]

Second ==
    /\ \E s \in Stores, k \in Keys : store[s][k] # Absent
    /\ store' = [s \in Stores |-> [k \in Keys |-> Aged(store[s][k])]]
    /\ why' = [s \in Stores |-> [k \in Keys |->
                   IF store'[s][k] = Absent THEN {} ELSE why[s][k]]]
    /\ UNCHANGED <<db, request, poller, reorgs, faults>>

Next ==
    \/ \E r \in Replicas :
           \/ \E k \in Keys : Miss(r, k)
           \/ ReadDb(r) \/ SetJson(r)
           \/ Invalidate(r) \/ InvalidateLists(r)
    \/ \E k \in Keys : SetForeign(k)
    \/ \E m \in Matches : Ingest(m)
    \/ Reorg \/ Second

Spec == Init /\ [][Next]_vars

\* Time passes, a request that is being served is answered and the poller does
\* not stop between the write and the invalidation.
Fairness ==
    /\ WF_vars(Second)
    /\ \A r \in Replicas : WF_vars(ReadDb(r) \/ SetJson(r))
    /\ WF_vars(\E r \in Replicas : Invalidate(r) \/ InvalidateLists(r))

FairSpec == Spec /\ Fairness

-----------------------------------------------------------------------------
TypeOK ==
    /\ db \in [Matches -> Statuses]
    /\ \A s \in Stores, k \in Keys :
           LET e == store[s][k] IN
           \/ e = Absent
           \/ e.left \in 1 .. 3
              /\ (e.val = Foreign \/ e.val \in [Covers(k) -> Statuses])
    /\ \A r \in Replicas :
           /\ request[r].at \in {"idle", "missed", "read"}
           /\ request[r].key \in Keys
    /\ poller.at \in {"idle", "stored", "reorged"} /\ poller.m \in Matches
    /\ why \in [Stores -> [Keys -> SUBSET {"late", "failed", "reorg"}]]

Stale(s, k) ==
    LET e == store[s][k] IN
    e # Absent /\ e.val # Foreign /\ e.val # Content(k)

\* What a shared cache serves differs from the database only while an event's
\* invalidation is on its way, after a request that read before the event wrote
\* after it, after a Redis command failed, or, for a single match, after a
\* reorg.  The pages of GET /matches are left to the TTL.
StaleIsExcused ==
    \A k \in Keys \ {"page"} :
        Shared /\ Stale("redis", k) =>
            \/ why["redis"][k] # {}
            \/ poller.at = "stored" /\ k \in {poller.m, "list", "stats"}
            \/ poller.at = "reorged" /\ k \notin Matches

\* "The TTL only bounds staleness for matches nothing is happening to": once the
\* log stands still, every replica ends up serving what the database holds.
EventuallyFresh == <>[](\A s \in Stores, k \in Keys : ~Stale(s, k))

\* EVENT_INDEXER_API.md: "GET /matches (including ?status=pending) | 10 s | any
\* contract event".  No page of GET /matches should outlive an event.
PagesInvalidated ==
    \A s \in Stores :
        poller.at = "idle" /\ why[s]["page"] = {} => ~Stale(s, "page")

\* rpc.rs: the invalidation is "Done after the write so a reader that misses can
\* only re-populate from post-insert state".
RepopulatedFresh ==
    \A s \in Stores, k \in Keys \ {"page"} : poller.at = "idle" => ~Stale(s, k)

\* EVENT_INDEXER_API.md: "A cache outage costs latency, not correctness".
OutageHarmless ==
    \A s \in Stores, k \in Keys \ {"page"} :
        poller.at = "idle" /\ why[s][k] \subseteq {"failed"} => ~Stale(s, k)

\* api_cache.rs: "Terminal matches never change again, so they can be cached far
\* longer than the default without any staleness risk".
TerminalNeverStale ==
    \A s \in Stores, m \in Matches :
        poller.at = "idle" /\ why[s][m] \subseteq {"reorg"}
            /\ store[s][m].val = [k \in {m} |-> "completed"]
        => ~Stale(s, m)

=============================================================================
