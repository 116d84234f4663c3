----------------------------- MODULE MCProgress -----------------------------
(***************************************************************************)
(* What must eventually happen, for TLC: the calls of the platform client, *)
(* the health checks, the payment of a win, the ingestion of events, the   *)
(* lease of the polling replica, the response caches and the WebSocket     *)
(* server.  As in the other suites one part moves and the others keep a    *)
(* state they start in, so that every property is about the part it names, *)
(* under the fairness that part's module states.                           *)
(***************************************************************************)
EXTENDS Integers, Sequences

VARIABLES
    component,    \* the part that moves
    pc, wait, tokens, idle, retries, auth, outcome,            \* PlatformClient
    world, phase, found, checks,                               \* Health
    config, referralBps, feeTiers, bondBps, state, stake, referred, override, deposits,
    result, vestedAt, claims, paid, now,                       \* Fees
    chain, pruned, rows, last, cursor, poll, iFaults,          \* Ingest
    row, skew, lPc, timer, isLeader, cached, lFaults,          \* LeaderLease
    db, store, request, poller, reorgs, cFaults, why,          \* ApiCache
    eventRows, mark, fetch, running, emitted, inOrder, grew, first, fFaults,
                                                               \* EventPoller
    clients, socket, matchIndex, playerIndex, ipConnectionCount, listening, pushed
                                                               \* WsConnections

clientVars == <<pc, wait, tokens, idle, retries, auth, outcome>>
healthVars == <<world, phase, found, checks>>
feeVars == <<config, referralBps, feeTiers, bondBps, state, stake, referred, override,
             deposits, result, vestedAt, claims, paid, now>>
ingestVars == <<chain, pruned, rows, last, cursor, poll, iFaults>>
leaseVars == <<row, skew, lPc, timer, isLeader, cached, lFaults>>
cacheVars == <<db, store, request, poller, reorgs, cFaults, why>>
feedVars == <<eventRows, mark, fetch, running, emitted, inOrder, grew, first, fFaults>>
socketVars == <<clients, socket, matchIndex, playerIndex, ipConnectionCount, listening,
                pushed>>
vars == <<component, clientVars, healthVars, feeVars, ingestVars, leaseVars, cacheVars,
          feedVars, socketVars>>

Client == INSTANCE PlatformClient WITH
    Single <- {"c1", "c2"}, Chunk <- {}, Export <- {}, Probes <- {"p1"}, Capacity <- 1,
    Period <- 2, MaxConcurrent <- 1, MaxRetries <- 2, MaxBackoff <- 1, Horizon <- 0,
    taken <- 0, sends <- << >>, elapsed <- 0
Checker == INSTANCE Health WITH
    Critical <- {"rpc", "escrow"}, Platforms <- {"lichess"}, seen <- << >>, basis <- << >>
Base ==
    [protocolBps |-> 3000, cancelBps |-> 1000, cap |-> 0, vesting |-> 1,
     treasury |-> "treasury", recipient |-> "treasury", minStake |-> 1, maxStake |-> 0,
     bondTiers |-> << >>]
Money == INSTANCE Fees WITH
    Matches <- {1}, Stakes <- {70},
    Configs <- {Base, [Base EXCEPT !.protocolBps = 9000, !.cancelBps = 2000, !.cap = 40]},
    TierLists <- {}, Shares <- {8000}, Minima <- {}, Maxima <- {}, Overrides <- {-1},
    LastStart <- 1, MaxNow <- 4
Indexer == INSTANCE Ingest WITH
    faults <- iFaults, Pollers <- {"a"}, PageLimit <- 3, PerLedger <- 2, MaxEvents <- 5,
    MaxBad <- 1, MaxFaults <- 1, MaxPruned <- 0, UpsertFails <- FALSE
Lease == INSTANCE LeaderLease WITH
    pc <- lPc, faults <- lFaults, Instances <- {"r1", "r2"}, LeaderKey <- "leader",
    Ttl <- 3, PollInterval <- 1, MaxSkew <- 1, MaxFaults <- 2, holder <- "nobody", age <- 0
Responses == INSTANCE ApiCache WITH
    faults <- cFaults, Matches <- {"m1"}, Replicas <- {"r1", "r2"}, Lists <- {"list"},
    Shared <- FALSE, MaxReorgs <- 0, MaxFaults <- 0
Feed == INSTANCE EventPoller WITH
    rows <- eventRows, poll <- fetch, faults <- fFaults,
    Events <- {[id |-> 1, ledger |-> 1, index |-> 0], [id |-> 2, ledger |-> 2, index |-> 0],
               [id |-> 3, ledger |-> 2, index |-> 0]},
    PageSize <- 2, MaxFaults <- 1
Lower(a) == IF a = "P" THEN "p" ELSE a
Sockets == INSTANCE WsConnections WITH
    Conns <- {"c1", "c2"}, Ips <- {"i1"}, Origins <- {"here"}, AllowedOrigins <- {"*"},
    MaxConnectionsPerIp <- 2, MaxSubscriptionsPerClient <- 2, RateLimitMaxSubscribes <- 1,
    RateLimitWindow <- 1, HeartbeatTimeout <- 1, MatchIds <- {1}, Addresses <- {"p", "P"},
    LowerCase <- Lower, Payloads <- {[match_ids |-> <<1>>, player_addresses |-> <<"P">>]},
    Events <- {[match_id |-> 1, players |-> {"p"}]}

Init ==
    /\ component \in {"client", "health", "fees", "ingest", "lease", "responses",
                      "feed", "sockets"}
    /\ component # "health" => world = [d \in {"rpc", "escrow", "lichess"} |-> "ok"]
    /\ component # "feed" => eventRows = {}
    /\ component # "lease" => skew = [i \in {"r1", "r2"} |-> 0]
    /\ Client!Init /\ Checker!HealthInit /\ Money!Init /\ Indexer!Init /\ Lease!Init
    /\ Responses!Init /\ Feed!Init /\ Sockets!Init

Next ==
    /\ UNCHANGED component
    /\ \/ /\ component = "client" /\ Client!Next
          /\ UNCHANGED <<healthVars, feeVars, ingestVars, leaseVars, cacheVars, feedVars,
                         socketVars>>
       \/ /\ component = "health" /\ Checker!HealthNext
          /\ UNCHANGED <<clientVars, feeVars, ingestVars, leaseVars, cacheVars, feedVars,
                         socketVars>>
       \/ /\ component = "fees" /\ Money!Next
          /\ UNCHANGED <<clientVars, healthVars, ingestVars, leaseVars, cacheVars, feedVars,
                         socketVars>>
       \/ /\ component = "ingest" /\ Indexer!Next
          /\ UNCHANGED <<clientVars, healthVars, feeVars, leaseVars, cacheVars, feedVars,
                         socketVars>>
       \/ /\ component = "lease" /\ Lease!Next
          /\ UNCHANGED <<clientVars, healthVars, feeVars, ingestVars, cacheVars, feedVars,
                         socketVars>>
       \/ /\ component = "responses" /\ Responses!Next
          /\ UNCHANGED <<clientVars, healthVars, feeVars, ingestVars, leaseVars, feedVars,
                         socketVars>>
       \/ /\ component = "feed" /\ Feed!Next
          /\ UNCHANGED <<clientVars, healthVars, feeVars, ingestVars, leaseVars, cacheVars,
                         socketVars>>
       \/ /\ component = "sockets" /\ Sockets!Next
          /\ UNCHANGED <<clientVars, healthVars, feeVars, ingestVars, leaseVars, cacheVars,
                         feedVars>>

Spec == Init /\ [][Next]_vars

-----------------------------------------------------------------------------
(* The fairness of each part, while it is the part that moves.             *)

ClientFairness ==
    /\ WF_clientVars(component = "client" /\ Client!Tick)
    /\ \A c \in {"c1", "c2", "p1"} :
          /\ SF_clientVars(component = "client" /\ Client!TakePermit(c))
          /\ WF_clientVars(component = "client" /\ Client!Step(c))

HealthFairness ==
    /\ WF_healthVars(component = "health" /\ Checker!StartCheck)
    /\ WF_healthVars(component = "health" /\ Checker!Publish)
    /\ \A d \in {"rpc", "escrow", "lichess"} :
          WF_healthVars(component = "health" /\ Checker!ProbeEnds(d))

FeesFairness ==
    /\ WF_feeVars(component = "fees" /\ Money!Tick)
    /\ WF_feeVars(component = "fees" /\ Money!ClaimWin(1))

IngestFairness == WF_ingestVars(component = "ingest" /\ Indexer!Poll("a"))

LeaseFairness ==
    /\ WF_leaseVars(component = "lease" /\ Lease!Tick)
    /\ \A i \in {"r1", "r2"} :
          /\ WF_leaseVars(component = "lease" /\ (Lease!Win(i) \/ Lease!Lose(i)))
          /\ WF_leaseVars(component = "lease" /\ Lease!PollEnds(i))
          /\ WF_leaseVars(component = "lease" /\ Lease!Wake(i))

ResponsesFairness ==
    /\ WF_cacheVars(component = "responses" /\ Responses!Second)
    /\ \A r \in {"r1", "r2"} :
          WF_cacheVars(component = "responses" /\ (Responses!ReadDb(r) \/ Responses!SetJson(r)))
    /\ WF_cacheVars(component = "responses"
                    /\ \E r \in {"r1", "r2"} :
                          Responses!Invalidate(r) \/ Responses!InvalidateLists(r))

FeedFairness ==
    /\ WF_feedVars(component = "feed" /\ Feed!Poll)
    /\ WF_feedVars(component = "feed" /\ (Feed!FetchPage \/ Feed!EmptyPage))

SocketFairness ==
    /\ WF_socketVars(component = "sockets" /\ Sockets!Tick)
    /\ WF_socketVars(component = "sockets" /\ Sockets!RunHeartbeat)
    /\ \A c \in {"c1", "c2"} :
          WF_socketVars(component = "sockets" /\ socket[c] = "closing" /\ Sockets!Close(c))

FairSpec ==
    /\ Spec
    /\ ClientFairness /\ HealthFairness /\ FeesFairness /\ IngestFairness
    /\ LeaseFairness /\ ResponsesFairness /\ FeedFairness /\ SocketFairness

-----------------------------------------------------------------------------
\* PlatformClient and Health: every call that starts returns, whatever the
\* platform answers; a critical dependency that fails for good makes /health
\* answer 503 for good, and once all of them have recovered for good it says
\* healthy and ready for good.
ServiceProgress ==
    /\ component = "client" => Client!EveryCallReturns
    /\ component = "health" => Checker!OutageReported /\ Checker!RecoveryReported

\* Fees: the share of a winner is paid once the vesting period has elapsed
\* (claim_vested_payout).
WinIsPaid == component = "fees" => Money!WinIsPaid

\* Ingest, LeaderLease, ApiCache and the WebSocket server: every event that can
\* be parsed is stored in the end; whatever crashed, some replica goes on polling
\* as long as one stays up; once the log stands still, every replica ends up
\* serving what the database holds; the poller of the WebSocket server catches up
\* with the table, unless its rows are a multiple of a page, and a silent client
\* is dropped.
IndexerProgress ==
    /\ component = "ingest" => Indexer!EventuallyStored
    /\ component = "lease" => Lease!IngestionGoesOn
    /\ component = "responses" => Responses!EventuallyFresh
    /\ component = "feed" => Feed!CatchesUp
    /\ component = "sockets" => Sockets!SilentAreDropped
=============================================================================
