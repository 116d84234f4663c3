----------------------------- MODULE MatchState -----------------------------
(***************************************************************************)
(* The event indexer's table matches, one row per match, kept beside the   *)
(* log of events (services/event-indexer/src/db.rs): insert_event folds a  *)
(* new event into the row, mark_events_as_invalid rebuilds the rows of the *)
(* matches that lost events, init_schema makes rows for the events of      *)
(* earlier versions.  Each is one database transaction.  (insert_event     *)
(* ends with upsert_match_state, a statement that names a column the table *)
(* does not have and so changes nothing; module Ingest has its effect on   *)
(* the poller.)                                                            *)
(*                                                                         *)
(* Every column of a row is a copy of a column of some event, so a row     *)
(* holds which event its creation columns and which event its status,      *)
(* winner, last_ledger and last_event_index were copied from.              *)
(***************************************************************************)
EXTENDS Naturals, FiniteSets

CONSTANTS
    Matches,       \* match ids
    MaxLedger,     \* bound on ledgers with events
    MaxIndex       \* bound on event_index_in_txn

\* What parse_event_data makes of an event type: the status it carries, if any.
Kinds == {"created", "activated", "completed", "other"}
Status(kind) ==
    CASE kind = "created" -> "pending" [] kind = "activated" -> "active"
      [] kind = "completed" -> "completed" [] kind = "other" -> "none"

Places == (1 .. MaxLedger) \X (0 .. MaxIndex)
NoPlace == <<0, 0>>

\* Order of (ledger_sequence, event_index_in_txn).
AtLeast(p, q) == p[1] > q[1] \/ (p[1] = q[1] /\ p[2] >= q[2])

VARIABLES
    chain,     \* the event at each place: its match and kind
    log,       \* table events: "valid" or "invalidated", by place
    table,     \* table matches
    up         \* whether init_schema has run

vars == <<chain, log, table, up>>

NoRow == [born |-> NoPlace, latest |-> NoPlace]
Surviving(m, l) == {p \in DOMAIN l : l[p] = "valid" /\ chain[p].match = m}
IsCreated(p) == chain[p].kind = "created"

\* A match is created once in a ledger.  The events before an upgrade are in the
\* log, without rows in matches.
Init ==
    /\ chain \in [Places -> [match : Matches, kind : Kinds]]
    /\ \A p, q \in Places :
        (chain[p] = chain[q] /\ IsCreated(p) /\ p[1] = q[1]) => p = q
    /\ log \in UNION {[s -> {"valid"}] : s \in SUBSET {p \in Places : p[1] = 1}}
    /\ table = [m \in Matches |-> NoRow]
    /\ up = FALSE

-----------------------------------------------------------------------------
\* REBUILD_MATCHES_SELECT: status and winner of the last surviving event,
\* creation columns of the first surviving created one.
Rebuilt(m, l) ==
    LET s == Surviving(m, l)
        c == {p \in s : IsCreated(p)}
    IN IF s = {} THEN NoRow
       ELSE [latest |-> CHOOSE p \in s : \A q \in s : AtLeast(p, q),
             born |-> IF c = {} THEN NoPlace
                      ELSE CHOOSE p \in c : \A q \in c : AtLeast(q, p)]

\* init_schema: rows for the matches that have events and no row.
InitSchema ==
    /\ ~up
    /\ up' = TRUE
    /\ table' = [m \in Matches |-> IF table[m] = NoRow THEN Rebuilt(m, log) ELSE table[m]]
    /\ UNCHANGED <<chain, log>>

\* apply_event_to_match: IS_LATEST and IS_EARLIER_CREATED.
Applied(p, row) ==
    [latest |-> IF row = NoRow \/ AtLeast(p, row.latest) THEN p ELSE row.latest,
     born |-> IF IsCreated(p) /\ (row.born = NoPlace \/ p[1] < row.born[1])
              THEN p ELSE row.born]

\* insert_event.  The id of an event that is in the table, invalidated or not,
\* conflicts and nothing is applied.
InsertEvent(p) ==
    LET m == chain[p].match
    IN /\ up
       /\ IF p \in DOMAIN log THEN UNCHANGED <<log, table>>
          ELSE /\ log' = [q \in DOMAIN log \union {p} |-> IF q = p THEN "valid" ELSE log[q]]
               /\ table' = [table EXCEPT ![m] = Applied(p, @)]
       /\ UNCHANGED <<chain, up>>

\* mark_events_as_invalid(from, to).
MarkInvalid(from, to) ==
    LET hit == {p \in DOMAIN log : log[p] = "valid" /\ p[1] \in from .. to}
        left == [p \in DOMAIN log |-> IF p \in hit THEN "invalidated" ELSE log[p]]
        lost == {chain[p].match : p \in hit}
    IN /\ up
       /\ log' = left
       /\ table' = [m \in Matches |-> IF m \in lost THEN Rebuilt(m, left) ELSE table[m]]
       /\ UNCHANGED <<chain, up>>

Next ==
    \/ InitSchema
    \/ \E p \in Places : InsertEvent(p)
    \/ \E from, to \in 1 .. MaxLedger : from <= to /\ MarkInvalid(from, to)

Spec == Init /\ [][Next]_vars

-----------------------------------------------------------------------------
\* What the API reads.

\* parse_status: a row without a status reads as pending.
StatusRead(m) ==
    LET s == Status(chain[table[m].latest].kind) IN IF s = "none" THEN "pending" ELSE s

\* build_match_info answers for a match with a row and a created event.
Answered(m) == table[m] # NoRow /\ table[m].born # NoPlace

\* get_matches_by_status: every match with an event that carried the status.
MatchesByStatus(s) ==
    {m \in Matches : /\ Answered(m)
                     /\ \E p \in DOMAIN log : chain[p].match = m /\ Status(chain[p].kind) = s}

-----------------------------------------------------------------------------
TypeOK ==
    /\ log \in UNION {[s -> {"valid", "invalidated"}] : s \in SUBSET Places}
    /\ table \in [Matches -> [born : Places \union {NoPlace}, latest : Places \union {NoPlace}]]

\* "The materialised state can never drift from the event log" (insert_event):
\* in whatever order events arrive, arrive again and are invalidated, a row is
\* what replaying the surviving events would make, and there is no other.
RowsFollowLog == up => \A m \in Matches : table[m] = Rebuilt(m, log)

\* db.rs: "The `matches` table holds the latest known state of every match":
\* the status read should be that of the last event that carried one.
StatusKnown ==
    \A m \in Matches :
        LET told == {p \in Surviving(m, log) : Status(chain[p].kind) # "none"}
        IN up /\ Answered(m) /\ told # {} =>
            StatusRead(m) =
                Status(chain[CHOOSE p \in told : \A q \in told : AtLeast(p, q)].kind)

\* EVENT_INDEXER_API.md: "Get all matches, optionally filtered by status": a
\* match that is listed under a status should have it.
ListedHaveStatus ==
    up => \A s \in {"pending", "active", "completed"} :
        \A m \in MatchesByStatus(s) : StatusRead(m) = s

=============================================================================
