------------------------------ MODULE History -------------------------------
(***************************************************************************)
(* A player's transaction history: GET /transactions/player/:address of    *)
(* the event indexer (transactions.rs, query_player_transactions of db.rs  *)
(* and the handler in api.rs), read page by page while the poller adds     *)
(* the events of the escrow contract.  A row is an event that moved funds  *)
(* and names the player.  Total and page are two queries.                  *)
(***************************************************************************)
EXTENDS Integers, Sequences, FiniteSets

CONSTANTS
    Players,    \* player addresses
    Limit,      \* limit of the walk
    MaxRows,    \* bound on the rows of the events table
    MaxReorgs   \* bound on the reorgs

VARIABLES
    rows,     \* the events table in the order of ingestion
    moved,    \* history: the movements of funds on the chain
    walk,     \* a client's walk over one player's history
    reorgs    \* reorgs so far

vars == <<rows, moved, walk, reorgs>>

ConstantsOK == Limit \in Nat \ {0} /\ MaxRows \in Nat /\ MaxReorgs \in Nat /\ Players # {}

-----------------------------------------------------------------------------
Named(list) == {list[i] : i \in DOMAIN list}
NamesOnce(list) == \A i, j \in DOMAIN list : i # j => list[i] # list[j]

\* The numbers of a finite set in ascending order.
Ascends(list) == \A i, j \in DOMAIN list : i < j => list[i] < list[j]
Ascending(S) == CHOOSE list \in [1..Cardinality(S) -> S] : Named(list) = S /\ Ascends(list)

Types == {"deposit", "payout", "fee"}

\* event_name_markers.
Markers(t) ==
    CASE t = "deposit" -> {"deposit", "funded"}
      [] t = "payout" -> {"completed", "finalized", "claim", "payout", "resolved"}
      [] t = "fee" -> {"fee", "cancelled", "expired"}

\* The markers in the names of the contract's events.
InName(name) ==
    CASE name \in {"match:deposit", "escrow:deposit"} -> {"deposit"}
      [] name = "match:completed" -> {"completed"}
      [] name = "match:claim" -> {"claim"}
      [] name = "match:expired" -> {"expired"}
      [] OTHER -> {}

\* from_event_type takes the first type with a marker in the name.
Classified(name) == {t \in Types : Markers(t) \intersect InName(name) # {}}

\* The WHERE clause, for the types of event_type_patterns.
Matching(r, p, ts) ==
    /\ p \in r.players
    /\ InName(r.name) \intersect UNION {Markers(t) : t \in ts} # {}
    /\ r.valid

Listed(p, ts) == {i \in DOMAIN rows : Matching(rows[i], p, ts)}

\* ORDER BY timestamp in sort_order; row_to_transaction drops a row of no type.
Sorted(p, ts, order) ==
    LET up == Ascending({i \in Listed(p, ts) : Classified(rows[i].name) # {}}) IN
    IF order = "asc" THEN up ELSE [i \in DOMAIN up |-> up[Len(up) + 1 - i]]

\* LIMIT and OFFSET.
Page(s, offset) ==
    SubSeq(s, offset + 1, IF offset + Limit < Len(s) THEN offset + Limit ELSE Len(s))

\* Altered for mutation: the last row of the total is not waited for.
HasMoreEarly(offset, n, total) == offset + n + 1 < total

\* TransactionPage::new.
HasMore(offset, n, total) == offset + n < total

-----------------------------------------------------------------------------
\* calm: no reorg since the walk began; quiet: nothing ingested since either.
NoWalk == [at |-> "none", player |-> CHOOSE p \in Players : TRUE, types |-> {},
           order |-> "desc", total |-> 0, got |-> <<>>, start |-> {},
           calm |-> TRUE, quiet |-> TRUE]

Init ==
    /\ rows = <<>>
    /\ moved = <<>>
    /\ walk = NoWalk
    /\ reorgs = 0

Event(name, ps) == [name |-> name, players |-> ps, valid |-> TRUE]

\* The poller stores the events of a contract call that moved funds ms.
Ingest(es, ms) ==
    /\ Len(rows) + Len(es) <= MaxRows
    /\ rows' = rows \o es
    /\ moved' = moved \o ms
    /\ walk' = IF walk.at \in {"count", "page"} THEN [walk EXCEPT !.quiet = FALSE] ELSE walk
    /\ UNCHANGED reorgs

\* deposit: the contract publishes match:deposit and escrow:deposit.
Deposit(p) ==
    Ingest(<<Event("match:deposit", {p}), Event("escrow:deposit", {p})>>,
           <<[player |-> p, type |-> "deposit"]>>)

\* submit_result, complete_match: the event names the winner's side, no address.
Complete(p) ==
    Ingest(<<Event("match:completed", {})>>, <<[player |-> p, type |-> "payout"]>>)

\* claim_vested_payout.
Claim(p) ==
    Ingest(<<Event("match:claim", {p})>>, <<[player |-> p, type |-> "payout"]>>)

\* create_match.
Create(ps) == Ingest(<<Event("match:created", ps)>>, <<>>)

\* mark_events_as_invalid on the latest events.
Reorg(n) ==
    /\ reorgs < MaxReorgs /\ n \in DOMAIN rows /\ rows[n].valid
    /\ rows' = [i \in DOMAIN rows |->
                    IF i >= n THEN [rows[i] EXCEPT !.valid = FALSE] ELSE rows[i]]
    /\ reorgs' = reorgs + 1
    /\ walk' = [walk EXCEPT !.calm = FALSE]
    /\ UNCHANGED moved

-----------------------------------------------------------------------------
\* A client asks for the first page.
Start(p, ts, order) ==
    /\ walk.at \in {"none", "done"}
    /\ walk' = [NoWalk EXCEPT !.at = "count", !.player = p, !.types = ts,
                              !.order = order, !.start = Listed(p, ts)]
    /\ UNCHANGED <<rows, moved, reorgs>>

\* The first query of query_player_transactions.
Count ==
    /\ walk.at = "count"
    /\ walk' = [walk EXCEPT !.at = "page",
                    !.total = Cardinality(Listed(walk.player, walk.types))]
    /\ UNCHANGED <<rows, moved, reorgs>>

\* The second query, and the answer.  A client goes on while has_more.
Query ==
    /\ walk.at = "page"
    /\ LET offset == Len(walk.got)
           page == Page(Sorted(walk.player, walk.types, walk.order), offset) IN
       walk' = [walk EXCEPT !.got = @ \o page,
                    !.at = IF HasMore(offset, Len(page), walk.total) /\ page # <<>>
                           THEN "count" ELSE "done"]
    /\ UNCHANGED <<rows, moved, reorgs>>

Next ==
    \/ \E p \in Players : Deposit(p) \/ Complete(p) \/ Claim(p)
    \/ Create(Players)
    \/ \E n \in 1 .. MaxRows : Reorg(n)
    \/ \E p \in Players, ts \in {Types, {"payout"}}, order \in {"asc", "desc"} : Start(p, ts, order)
    \/ Count \/ Query

Spec == Init /\ [][Next]_vars

-----------------------------------------------------------------------------
TypeOK ==
    /\ \A i \in DOMAIN rows :
           /\ rows[i].players \subseteq Players /\ rows[i].valid \in BOOLEAN
           /\ Cardinality(Classified(rows[i].name)) <= 1
    /\ Len(rows) <= MaxRows
    /\ walk.at \in {"none", "count", "page", "done"}
    /\ walk.got \in Seq(1 .. MaxRows) /\ walk.start \subseteq 1 .. MaxRows

\* Following has_more to its end shows every row there was at the start and no
\* row twice, unless a reorg took rows away meanwhile: in ascending order also
\* while events are ingested, in descending order (the default) when none is.
WalkComplete ==
    walk.at = "done" /\ walk.calm /\ (walk.order = "asc" \/ walk.quiet) =>
        walk.start \subseteq Named(walk.got) /\ NamesOnce(walk.got)

\* "Reorg-invalidated events are excluded: a rolled-back ledger never moved
\* funds": a walk begun after a reorg shows no row the reorg took back.
NothingRolledBack ==
    walk.at = "done" /\ walk.calm => \A i \in Named(walk.got) : rows[i].valid

\* transactions.rs: "every financial movement is already recorded as a contract
\* event", "each event whose type maps to a TransactionType becomes one history
\* row".  A deposit should be one row of the depositor's history.
DepositsOnce ==
    \A p \in Players :
        reorgs = 0 => Cardinality(Listed(p, {"deposit"}))
                        = Len(SelectSeq(moved, LAMBDA v : v = [player |-> p, type |-> "deposit"]))

\* The same of payouts: whoever was paid should find a payout in the history.
PayoutsListed ==
    \A p \in Players :
        reorgs = 0 /\ [player |-> p, type |-> "payout"] \in Named(moved)
            => Listed(p, {"payout"}) # {}

=============================================================================
