----------------------------- MODULE MigrateIds -----------------------------
(***************************************************************************)
(* The one-off tool services/event-indexer/src/bin/migrate-ids.rs, which   *)
(* replaces the random ids of old event rows by ids hashed from (ledger,   *)
(* transaction, index) and deletes duplicates.  It runs while the pollers  *)
(* are stopped, so a run is one step on the events table.  The rows it     *)
(* meets were written by pollers of the old and of the new version.        *)
(***************************************************************************)
EXTENDS Naturals, FiniteSets

CONSTANTS
    Txns,        \* transactions, each in a ledger of its own
    MaxIndex,    \* greatest position of an event in its transaction
    OldIndexed,  \* the old pollers' rows have event_index_in_txn
    MaxRows      \* bound on the rows of the events table

VARIABLES
    rows,      \* the events table
    migrated   \* a run committed and no row has been added since

vars == <<rows, migrated>>

-----------------------------------------------------------------------------
\* A row: its primary key, the columns the tool reads, and what it is a row of.
Null == MaxIndex + 1
Indexes == 0 .. MaxIndex
HashId(t, i) == [kind |-> "hash", txn |-> t, n |-> i]
RandomId(t, n) == [kind |-> "uuid", txn |-> t, n |-> n]

Row == [id : [kind : {"hash", "uuid"}, txn : Txns, n : 0 .. MaxRows + MaxIndex],
        txn : Txns, hashed : BOOLEAN, index : 0 .. Null, at : Indexes, valid : BOOLEAN]

Init == rows = {} /\ migrated = FALSE

\* The old poller: a random id, no index column, a row for every poll.
OldInsert(t, i, hashed) ==
    \E n \in 1 .. MaxRows :
        /\ RandomId(t, n) \notin {r.id : r \in rows}
        /\ \A k \in 1 .. n - 1 : RandomId(t, k) \in {r.id : r \in rows}
        /\ rows' = rows \union
               {[id |-> RandomId(t, n), txn |-> t, hashed |-> hashed, at |-> i,
                 index |-> IF OldIndexed THEN i ELSE Null, valid |-> TRUE]}

\* The new poller: compute_event_id, and nothing for an id that is there.
NewInsert(t, i) ==
    /\ HashId(t, i) \notin {r.id : r \in rows}
    /\ rows' = rows \union
           {[id |-> HashId(t, i), txn |-> t, hashed |-> TRUE, at |-> i, index |-> i, valid |-> TRUE]}

Poll ==
    /\ Cardinality(rows) < MaxRows
    /\ \E t \in Txns, i \in Indexes :
           NewInsert(t, i) \/ \E h \in BOOLEAN : OldInsert(t, i, h)
    /\ migrated' = FALSE

\* mark_events_as_invalid on the ledger of a transaction.
Reorg(t) ==
    /\ \E r \in rows : r.txn = t /\ r.valid
    /\ rows' = {IF r.txn = t THEN [r EXCEPT !.valid = FALSE] ELSE r : r \in rows}
    /\ migrated' = FALSE

-----------------------------------------------------------------------------
\* The SELECT of the tool.
Scanned == {r \in rows : r.valid}

\* logical_event_map: the scanned rows by (ledger, txn_hash, event_index).
KeyOf(r) == <<r.txn, r.hashed, r.index>>
Groups == {{r \in Scanned : KeyOf(r) = k} : k \in {KeyOf(r) : r \in Scanned}}

NewId(r) == HashId(r.txn, IF r.index = Null THEN 0 ELSE r.index)

\* ok_or(anyhow!("Missing txn_hash"))?
Plannable == \A r \in Scanned : r.hashed

\* The row of each group that is kept: the first of the query's order, which
\* leaves the rows of a group in any order.
Choices == {ks \in SUBSET Scanned : \A g \in Groups : Cardinality(g \intersect ks) = 1}

\* to_update and to_delete.
ToUpdate(ks) == {r \in ks : NewId(r) # r.id}
ToDelete(ks) == Scanned \ ks

\* Every UPDATE comes before the first DELETE: it fails on an id that any other
\* row has or is given.
Executable(ks) ==
    \A r \in ToUpdate(ks) :
        /\ \A q \in rows : q.id # NewId(r)
        /\ \A q \in ToUpdate(ks) \ {r} : NewId(q) # NewId(r)

\* The table after the transaction.
Committed(ks) ==
    {IF r \in ToUpdate(ks) THEN [r EXCEPT !.id = NewId(r)] ELSE r : r \in rows \ ToDelete(ks)}

\* A run that is dry, has nothing to do or fails, which rolls the table back.
NoChange ==
    /\ \/ ~Plannable
       \/ \E ks \in Choices : ToUpdate(ks) \union ToDelete(ks) = {} \/ ~Executable(ks)
    /\ UNCHANGED vars

\* A run with --commit.
Migrate ==
    /\ Plannable
    /\ \E ks \in Choices :
           /\ ToUpdate(ks) \union ToDelete(ks) # {}
           /\ Executable(ks)
           /\ rows' = Committed(ks)
    /\ migrated' = TRUE

Next == Poll \/ Migrate \/ NoChange \/ \E t \in Txns : Reorg(t)

Spec == Init /\ [][Next]_vars

-----------------------------------------------------------------------------
TypeOK ==
    /\ rows \subseteq Row
    /\ Cardinality({r.id : r \in rows}) = Cardinality(rows)
    /\ migrated \in BOOLEAN

Logged == {<<r.txn, r.at>> : r \in {q \in rows : q.valid}}

\* After a run the surviving rows are one per event, each under the id a poller
\* of the new version would give it: polling the chain again adds nothing.
OneRowPerEvent ==
    migrated =>
        \A r, q \in Scanned :
            /\ r.id = HashId(r.txn, r.at)
            /\ r.txn = q.txn /\ r.at = q.at => r = q

\* A run of the tool loses no event of the log and brings back none that a reorg
\* took out; it only removes further rows of an event.
EventsKept == [][Migrate => Logged' = Logged]_vars

\* MIGRATION_GUIDE.md: "Migration tool completed successfully".  While every row
\* has its transaction hash, some order of the rows should let the tool commit.
MigrationRuns == Plannable => \E ks \in Choices : Executable(ks)

=============================================================================
