----------------------------- MODULE MCIndexer -----------------------------
(***************************************************************************)
(* IndexerParts for TLC, with what else is modelled of the event indexer,  *)
(* and the WebSocket server that reads from it: MigrateIds, Ingest,        *)
(* MatchState, EventPoller and WsConnections.  A step of one of these      *)
(* leaves IndexerParts alone, so that a behaviour here is a behaviour of   *)
(* IndexerParts.                                                           *)
(***************************************************************************)
EXTENDS IndexerParts, FiniteSets

VARIABLES
    oldRows, migrated,                                            \* MigrateIds
    chain, pruned, rows, last, cursor, poll, faults,              \* Ingest
    events, log, table, up,                                       \* MatchState
    eventRows, mark, fetch, running, emitted, inOrder, grew, first, fetchFaults,
                                                                  \* EventPoller
    clients, socket, matchIndex, playerIndex, ipConnectionCount, listening, pushed
                                                                  \* WsConnections

migrationVars == <<oldRows, migrated>>
ingestVars == <<chain, pruned, rows, last, cursor, poll, faults>>
tableVars == <<events, log, table, up>>
pollerVars == <<eventRows, mark, fetch, running, emitted, inOrder, grew, first,
                fetchFaults>>
socketVars == <<clients, socket, matchIndex, playerIndex, ipConnectionCount, listening,
                pushed>>
allVars == <<vars, migrationVars, ingestVars, tableVars, pollerVars, socketVars>>

Migration == INSTANCE MigrateIds WITH
    Txns <- {"t1", "t2"}, MaxIndex <- 1, OldIndexed <- TRUE, MaxRows <- 4,
    rows <- oldRows
Ingestion == INSTANCE Ingest WITH
    Pollers <- {"a"}, PageLimit <- 3, PerLedger <- 2, MaxEvents <- 5, MaxBad <- 1,
    MaxFaults <- 2, MaxPruned <- 2, UpsertFails <- FALSE
Table == INSTANCE MatchState WITH
    Matches <- {1, 2}, MaxLedger <- 2, MaxIndex <- 1, chain <- events
Feed == INSTANCE EventPoller WITH
    Events <- {[id |-> 1, ledger |-> 1, index |-> 0], [id |-> 2, ledger |-> 2, index |-> 0],
               [id |-> 3, ledger |-> 2, index |-> 1], [id |-> 4, ledger |-> 3, index |-> 0]},
    PageSize <- 2, MaxFaults <- 1, rows <- eventRows, poll <- fetch, faults <- fetchFaults
Lower(a) == IF a = "P" THEN "p" ELSE a
Sockets == INSTANCE WsConnections WITH
    Conns <- {"c1", "c2"}, Ips <- {"i1", "i2"}, Origins <- {"here"},
    AllowedOrigins <- {"here"}, MaxConnectionsPerIp <- 1, MaxSubscriptionsPerClient <- 1,
    RateLimitMaxSubscribes <- 1, RateLimitWindow <- 1, HeartbeatTimeout <- 1,
    MatchIds <- {1}, Addresses <- {"p", "P"}, LowerCase <- Lower,
    Payloads <- {[match_ids |-> <<1>>, player_addresses |-> <<>>],
                 [match_ids |-> <<-1>>, player_addresses |-> <<"p">>],
                 [match_ids |-> <<>>, player_addresses |-> <<"P">>],
                 [match_ids |-> <<>>, player_addresses |-> <<"p", "P">>]},
    Events <- {[match_id |-> 1, players |-> {"P"}], [match_id |-> 1, players |-> {}]}

-----------------------------------------------------------------------------
MCInit ==
    /\ component \in {"cache", "responses", "history", "pages", "migration",
                      "ingest", "table", "lease", "feed", "sockets"}
    /\ component # "table" =>
           /\ events = [p \in Table!Places |-> [match |-> 1, kind |-> "other"]]
           /\ log = <<>>
    /\ component # "feed" => eventRows = {}
    /\ Init /\ Migration!Init /\ Ingestion!Init /\ Table!Init /\ Feed!Init /\ Sockets!Init

MCNext ==
    \/ Next /\ UNCHANGED <<migrationVars, ingestVars, tableVars, pollerVars, socketVars>>
    \/ /\ component = "migration" /\ Migration!Next
       /\ UNCHANGED <<vars, ingestVars, tableVars, pollerVars, socketVars>>
    \/ /\ component = "ingest" /\ Ingestion!Next
       /\ UNCHANGED <<vars, migrationVars, tableVars, pollerVars, socketVars>>
    \/ /\ component = "table" /\ Table!Next
       /\ UNCHANGED <<vars, migrationVars, ingestVars, pollerVars, socketVars>>
    \/ /\ component = "feed" /\ Feed!Next
       /\ UNCHANGED <<vars, migrationVars, ingestVars, tableVars, socketVars>>
    \/ /\ component = "sockets" /\ Sockets!Next
       /\ UNCHANGED <<vars, migrationVars, ingestVars, tableVars, pollerVars>>

MCSpec == MCInit /\ [][MCNext]_allVars

-----------------------------------------------------------------------------
\* Ingest, MatchState and MigrateIds: what the next poll will not be given again
\* is in the table; polling a ledger again after a crash stores no event twice;
\* a row of matches is what the surviving events make it; a migration leaves one
\* row per event, under its new id, and loses none.
TablesExact ==
    /\ [](/\ Ingestion!TypeOK /\ Ingestion!NothingSkipped
          /\ Ingestion!OneRowPerEvent)
    /\ [](Table!TypeOK /\ Table!RowsFollowLog)
    /\ [](Migration!TypeOK /\ Migration!OneRowPerEvent) /\ Migration!EventsKept

\* EventPoller and WsConnections: no event is pushed by two polls or out of
\* order, and one that came in ledger order is not passed over; the indices a
\* broadcast goes by say what the clients' lists say, nothing is left of a client
\* that vanished, and the connections of an address are counted exactly.
PushesSound ==
    /\ [](Feed!TypeOK /\ Feed!EmittedInOrder /\ Feed!NotPassedOver)
    /\ Feed!EmittedOnce
    /\ [](/\ Sockets!TypeOK /\ Sockets!IndicesMirrorClients
          /\ Sockets!ConnectionsCounted)
    /\ Sockets!BroadcastReaches
=============================================================================
