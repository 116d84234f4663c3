------------------------------- MODULE Ingest -------------------------------
(***************************************************************************)
(* How the event indexer copies the contract's events into its database:   *)
(* poll_events and the error path of event_poller (rpc.rs), and the tables *)
(* events and ingestion_state (db.rs).  A poll reads the saved position,   *)
(* fetches a page, stores its events one database transaction each, and    *)
(* saves the new position.  Pollers are the replicas that believe they     *)
(* hold the lease (module LeaderLease shows why that may be two); each may *)
(* stop between any two of its calls.                                      *)
(*                                                                         *)
(* The chain only grows.  The events of a ledger come from one transaction *)
(* and become visible together.  A row's id is the hash of its ledger, its *)
(* transaction and the running index the poller gave it; here the triple   *)
(* is the id, the transaction being known from the ledger.                 *)
(***************************************************************************)
EXTENDS Naturals, Sequences, FiniteSets

CONSTANTS
    Pollers,       \* replicas that may be polling
    PageLimit,     \* the limit of one getEvents, 100 in the code
    PerLedger,     \* bound on the events of one ledger
    MaxEvents,     \* bound on the events of the chain
    MaxBad,        \* bound on the events parse_event rejects
    MaxFaults,     \* bound on crashes and failing calls
    MaxPruned,     \* bound on the events the RPC forgets
    UpsertFails    \* whether upsert_match_state fails: TRUE for the table
                   \* init_schema makes, which lacks the columns it names

VARIABLES
    chain,      \* the contract's events, oldest first
    pruned,     \* how many of the oldest the RPC no longer has
    rows,       \* table events: id, the event it is a row of, not invalidated
    last,       \* ingestion_state.last_polled_ledger, 0 for NULL
    cursor,     \* ingestion_state.last_polled_cursor: a position, 0 for NULL
    poll,       \* each replica's poll in progress
    faults

vars == <<chain, pruned, rows, last, cursor, poll, faults>>

Idle == [at |-> "idle", seen |-> 0, last |-> 0, cursor |-> 0,
         k |-> 0, to |-> 0, index |-> 0, max |-> 0]

Init ==
    /\ chain = <<>> /\ pruned = 0
    /\ rows = {}
    /\ last = 0 /\ cursor = 0
    /\ poll = [p \in Pollers |-> Idle]
    /\ faults = 0

Ledger(n) == chain[n].ledger
Smaller(a, b) == IF a < b THEN a ELSE b

-----------------------------------------------------------------------------
\* The chain and the RPC service.

AppendLedger ==
    \E oks \in UNION {[1 .. n -> BOOLEAN] : n \in 1 .. PerLedger} :
        LET next == IF chain = <<>> THEN 1 ELSE Ledger(Len(chain)) + 1
            more == [k \in DOMAIN oks |-> [ledger |-> next, ok |-> oks[k]]]
            all == chain \o more
        IN /\ Len(all) <= MaxEvents
           /\ Cardinality({n \in DOMAIN all : ~all[n].ok}) <= MaxBad
           /\ chain' = all
           /\ UNCHANGED <<pruned, rows, last, cursor, poll, faults>>

\* The RPC service forgets its oldest event.  Its retention is days: the first
\* page has been saved by then.
Prune ==
    /\ cursor # 0
    /\ pruned < Smaller(MaxPruned, Len(chain))
    /\ pruned' = pruned + 1
    /\ UNCHANGED <<chain, rows, last, cursor, poll, faults>>

\* The events before the first one getEvents returns: those up to the cursor,
\* or, without one, those of ledgers before startLedger = last_polled + 1.
Before(l, c) ==
    IF c # 0 THEN c
    ELSE Cardinality({n \in DOMAIN chain : n <= pruned \/ Ledger(n) <= l})

\* An error reply for a cursor the service has forgotten.
Stale(c) == c # 0 /\ c < pruned

-----------------------------------------------------------------------------
\* One poll.

\* event_poller reads last_polled_ledger for its error path.
Begin(p) ==
    /\ poll[p].at = "idle"
    /\ poll' = [poll EXCEPT ![p].at = "load", ![p].seen = last]
    /\ UNCHANGED <<chain, pruned, rows, last, cursor, faults>>

\* poll_events reads the ingestion state.
Load(p) ==
    /\ poll[p].at = "load"
    /\ poll' = [poll EXCEPT ![p].at = "fetch", ![p].last = last, ![p].cursor = cursor]
    /\ UNCHANGED <<chain, pruned, rows, last, cursor, faults>>

\* getEvents answers with a page; an empty one ends the poll.
Fetch(p) ==
    LET q == poll[p]
        from == Before(q.last, q.cursor)
        to == Smaller(from + PageLimit, Len(chain))
    IN /\ q.at = "fetch"
       /\ ~Stale(q.cursor)
       /\ poll' = [poll EXCEPT ![p] =
              IF to <= from THEN Idle
              ELSE [q EXCEPT !.at = "event", !.k = from + 1, !.to = to]]
       /\ UNCHANGED <<chain, pruned, rows, last, cursor, faults>>

\* The reply is an error.  make_request has turned it into "RPC error: ..."
\* before get_events looks for a cursor error in the result, so the branch of
\* poll_events that falls back to fallback_start_ledger is never taken.
FetchStale(p) ==
    /\ poll[p].at = "fetch"
    /\ Stale(poll[p].cursor)
    /\ poll' = [poll EXCEPT ![p].at = "failing"]
    /\ UNCHANGED <<chain, pruned, rows, last, cursor, faults>>

\* An event that parse_event rejects is passed over, with no index of its own.
Skip(p) ==
    /\ poll[p].at = "event" /\ poll[p].k <= poll[p].to
    /\ ~chain[poll[p].k].ok
    /\ poll' = [poll EXCEPT ![p].k = @ + 1]
    /\ UNCHANGED <<chain, pruned, rows, last, cursor, faults>>

Backtrack(p) == poll[p].last # 0 /\ Ledger(poll[p].k) <= poll[p].last

\* An event of a ledger that was polled before is taken for a reorg: every row
\* from its ledger to the last one polled is invalidated.
MarkReorg(p) ==
    LET q == poll[p]
        hit == {r \in rows : Ledger(r.event) \in Ledger(q.k) .. q.last}
    IN /\ q.at = "event" /\ q.k <= q.to
       /\ chain[q.k].ok
       /\ Backtrack(p)
       /\ rows' = (rows \ hit) \union {[r EXCEPT !.valid = FALSE] : r \in hit}
       /\ poll' = [poll EXCEPT ![p].at = "insert"]
       /\ UNCHANGED <<chain, pruned, last, cursor, faults>>

\* compute_event_id of the ledger, its transaction and the running index.
EventId(p) == <<Ledger(poll[p].k), poll[p].index>>

\* INSERT ... ON CONFLICT (id) DO NOTHING.
InsertEvent(p) ==
    rows' = IF \E r \in rows : r.id = EventId(p) THEN rows
            ELSE rows \union {[id |-> EventId(p), event |-> poll[p].k, valid |-> TRUE]}

\* Altered for mutation: an event that could not be stored is passed over.
AfterFailureGoOn(p) == [poll[p] EXCEPT !.at = "event", !.k = @ + 1]

\* insert_event committed, then upsert_match_state failed: poll_events returns.
AfterFailure(p) == [poll[p] EXCEPT !.at = "failing"]

\* insert_event, and what poll_events does with its answer.
Insert(p) ==
    /\ \/ poll[p].at = "insert"
       \/ /\ poll[p].at = "event" /\ poll[p].k <= poll[p].to
          /\ chain[poll[p].k].ok
          /\ ~Backtrack(p)
    /\ InsertEvent(p)
    /\ poll' = [poll EXCEPT ![p] =
           IF UpsertFails THEN AfterFailure(p)
           ELSE [@ EXCEPT !.at = "event", !.k = @ + 1, !.index = @ + 1,
                          !.max = Ledger(poll[p].k)]]
    /\ UNCHANGED <<chain, pruned, last, cursor, faults>>

\* Altered for mutation: the last ledger of the page is saved without its cursor.
SaveLedgerOnly(p) == last' = poll[p].max /\ cursor' = 0

\* update_ingestion_state with the ledger of the last event and next_cursor.
Save(p) == last' = poll[p].max /\ cursor' = poll[p].to

\* The page is done.  Nothing is saved when no event of it was parsed.
Finish(p) ==
    /\ poll[p].at = "event" /\ poll[p].k > poll[p].to
    /\ IF poll[p].max = 0 THEN UNCHANGED <<last, cursor>> ELSE Save(p)
    /\ poll' = [poll EXCEPT ![p] = Idle]
    /\ UNCHANGED <<chain, pruned, rows, faults>>

\* A call to the RPC service or to the database fails before it does anything.
CallFails(p) ==
    /\ poll[p].at \in {"load", "fetch", "event", "insert"}
    /\ faults < MaxFaults
    /\ faults' = faults + 1
    /\ poll' = [poll EXCEPT ![p] =
           IF @.at \in {"event", "insert"} THEN AfterFailure(p) ELSE [@ EXCEPT !.at = "failing"]]
    /\ UNCHANGED <<chain, pruned, rows, last, cursor>>

\* event_poller writes back the ledger it had read; the cursor column stays.
RecordError(p) ==
    /\ poll[p].at = "failing"
    /\ last' = poll[p].seen
    /\ poll' = [poll EXCEPT ![p] = Idle]
    /\ UNCHANGED <<chain, pruned, rows, cursor, faults>>

\* The process dies and is started again.
Crash(p) ==
    /\ poll[p].at # "idle"
    /\ faults < MaxFaults
    /\ faults' = faults + 1
    /\ poll' = [poll EXCEPT ![p] = Idle]
    /\ UNCHANGED <<chain, pruned, rows, last, cursor>>

Poll(p) ==
    \/ Begin(p) \/ Load(p) \/ Fetch(p) \/ FetchStale(p) \/ Skip(p)
    \/ MarkReorg(p) \/ Insert(p) \/ Finish(p) \/ RecordError(p)

Next ==
    \/ AppendLedger \/ Prune
    \/ \E p \in Pollers : Poll(p) \/ CallFails(p) \/ Crash(p)

Spec == Init /\ [][Next]_vars

\* The loop of a replica that keeps winning the lease goes on.
FairSpec == Spec /\ \A p \in Pollers : WF_vars(Poll(p))

-----------------------------------------------------------------------------
Stored(n) == \E r \in rows : r.event = n

Polls ==
    [at : {"idle", "load", "fetch", "event", "insert", "failing"},
     seen : 0 .. MaxEvents, last : 0 .. MaxEvents, cursor : 0 .. MaxEvents,
     k : 0 .. MaxEvents + 1, to : 0 .. MaxEvents, index : 0 .. PageLimit,
     max : 0 .. MaxEvents]

TypeOK ==
    /\ chain \in Seq([ledger : 1 .. MaxEvents, ok : BOOLEAN])
    /\ pruned \in 0 .. MaxPruned
    /\ \A r \in rows : /\ r.event \in DOMAIN chain
                       /\ r.id \in (1 .. MaxEvents) \X (0 .. PageLimit - 1)
    /\ {last, cursor} \subseteq 0 .. MaxEvents
    /\ poll \in [Pollers -> Polls]
    /\ faults \in 0 .. MaxFaults

\* Every event that the RPC service still has and the next poll will not be
\* given again is in the table, after
\* any crash or failed call between the inserts and the save of the position.
NothingSkipped ==
    \A n \in DOMAIN chain :
        chain[n].ok /\ pruned < n /\ n <= Before(last, cursor) => Stored(n)

\* "Re-playing ledger ranges (e.g. after a crash or a leader failover) never
\* produces duplicate rows" (db.rs): no event has two rows.
OneRowPerEvent == \A r, s \in rows : r.event = s.event => r = s

\* Every event of the contract that can be parsed is stored in the end.
EventuallyStored ==
    \A n \in 1 .. MaxEvents :
        (n \in DOMAIN chain /\ chain[n].ok) ~> Stored(n)

\* DEPLOYMENT_CHECKLIST.md: "Reorg events table (should be empty unless real
\* reorg)".  On a chain that only grows no row should be invalidated.
OnlyReorgsInvalidate == \A r \in rows : r.valid

\* cursor_rollover_tests.rs: "Indexer falls back to re-indexing from
\* configurable fallback_start_ledger".  A saved cursor that the RPC service
\* has forgotten should be replaced in the end.
StaleCursorReplaced == Stale(cursor) ~> ~Stale(cursor)

=============================================================================
