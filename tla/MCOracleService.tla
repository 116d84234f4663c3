-------------------------- MODULE MCOracleService --------------------------
(***************************************************************************)
(* The safety of the oracle service for TLC.  The parts of the service are *)
(* modelled by modules that share no variable; a behaviour of this module  *)
(* is a behaviour of one of them, the others keeping a state they start    *)
(* in.  Health is extended, the others are instances, and every property   *)
(* speaks of one part.  MCPipelineLive has the progress of the queue,      *)
(* MCProgress that of the other parts.                                     *)
(***************************************************************************)
EXTENDS Health

VARIABLES
    component,    \* the part that moves
    call, turn, open, result, said,                               \* Providers
    base, maxRetries, attempts, delay, exhausted,                 \* Backoff
    pc, wait, tokens, idle, retries, auth, outcome, taken, sends, elapsed,
                                                             \* PlatformClient
    burst, ipBuckets, keyBuckets, req, passed, promise, admitted, \* HttpLayer
    chain, inflight, queue, dead, cursor, log, cache, paused, io, tick, rec,
    replay, faults, replays,                                      \* Pipeline
    charged       \* history: attempts charged to a match since its last dead letter

providerVars == <<call, turn, open, result, said>>
healthVars == <<world, phase, found, checks, seen, basis>>
backoffVars == <<base, maxRetries, attempts, delay, exhausted>>
clientVars == <<pc, wait, tokens, idle, retries, auth, outcome, taken, sends, elapsed>>
httpVars == <<burst, ipBuckets, keyBuckets, req, passed, promise, admitted>>
queueVars == <<chain, inflight, queue, dead, cursor, log, cache, paused, io, tick, rec,
               replay, faults, replays, charged>>
allVars == <<component, providerVars, healthVars, backoffVars, clientVars, httpVars,
             queueVars>>

Registry == INSTANCE Providers WITH
    Providers <- <<"lichess", "chess.com">>, Games <- <<"g1", "g2", "g3">>
Delays == INSTANCE Backoff WITH Width <- 5, Cap <- 20, MaxAttempts <- 12
Client == INSTANCE PlatformClient WITH
    Single <- {"c1"}, Chunk <- {"c2"}, Export <- {"e1"}, Probes <- {"p1"},
    Capacity <- 1, Period <- 2, MaxConcurrent <- 2, MaxRetries <- 1, MaxBackoff <- 1,
    Horizon <- 5
Endpoints == INSTANCE HttpLayer WITH
    Ips <- {"i1"}, Keys <- {"k1"}, NoKey <- "none", Slots <- {"s1", "s2"},
    IpCapacity <- 2, IpPeriod <- 2, KeyCapacity <- 1, KeyPeriod <- 1, StaleAfter <- 4,
    MaxRps <- 1, BurstWindow <- 3, BurstStaleAfter <- 3
Queue == INSTANCE Pipeline WITH
    Matches <- {1, 2}, Late <- {}, Lichess <- {2}, BadIds <- {1}, MaxRetries <- 3,
    PageSize <- 1, MaxFaults <- 1, MaxReplays <- 0

(* An attempt is charged when the polling task sets out to save it.        *)
Charges(m) ==
    /\ Queue!Idle("tick") /\ io'["tick"].kind \in {"update", "push"}
    /\ io'["tick"].m = m /\ io'["tick"].a > 0

WatchQueue ==
    charged' = [m \in {1, 2} |->
        IF m \in dead' \ dead THEN 0
        ELSE IF Charges(m) /\ charged[m] < 3 THEN charged[m] + 1
        ELSE charged[m]]

MCInit ==
    /\ component \in {"providers", "health", "backoff", "client", "http", "queue"}
    /\ component # "health" => world = [d \in Dependencies |-> "ok"]
    /\ component # "backoff" => base = 0 /\ maxRetries = 0
    /\ Registry!Init /\ WatchedInit /\ Delays!Init /\ Client!WatchedInit
    /\ Endpoints!WatchedInit /\ Queue!Init /\ charged = [m \in {1, 2} |-> 0]

MCNext ==
    /\ UNCHANGED component
    /\ \/ /\ component = "providers" /\ Registry!Next
          /\ UNCHANGED <<healthVars, backoffVars, clientVars, httpVars, queueVars>>
       \/ /\ component = "health" /\ WatchedNext
          /\ UNCHANGED <<providerVars, backoffVars, clientVars, httpVars, queueVars>>
       \/ /\ component = "backoff" /\ Delays!Next
          /\ UNCHANGED <<providerVars, healthVars, clientVars, httpVars, queueVars>>
       \/ /\ component = "client" /\ Client!WatchedNext
          /\ UNCHANGED <<providerVars, healthVars, backoffVars, httpVars, queueVars>>
       \/ /\ component = "http" /\ Endpoints!WatchedNext
          /\ UNCHANGED <<providerVars, healthVars, backoffVars, clientVars, queueVars>>
       \/ /\ component = "queue" /\ Queue!Next /\ WatchQueue
          /\ UNCHANGED <<providerVars, healthVars, backoffVars, clientVars, httpVars>>

MCSpec == MCInit /\ [][MCNext]_allVars

-----------------------------------------------------------------------------
\* Providers: a winner is what the first platform that answered said, a game is
\* given up only when every platform had an outage, and one that has its answer
\* is not put to the next platform (fetch_results_batch of the registry).
ProvidersAnswer ==
    /\ [](/\ Registry!TypeOK /\ Registry!WinnerAsSaid
          /\ Registry!GivenUpOnlyIfAllFailed)
    /\ Registry!AnsweredNotAskedAgain

\* PlatformClient, Backoff and HttpLayer: the requests in flight stay within the
\* permits, those sent again after a sleep included; the two retry counters
\* together bound a call's requests; no overflow in record_failure shortens a
\* delay, and a later failure never waits less than an earlier one;
\* RateLimiter::acquire and the limiters per address and per key implement
\* TokenBucket, although a cleanup drops buckets; any window sees at most two
\* windows' worth of requests; whoever waits for its Retry-After finds a token.
LimitsHold ==
    /\ [](Client!TypeOK /\ Client!InFlightBounded /\ Client!RequestsPerCall)
    /\ Client!BucketHolds
    /\ []Delays!DelayAsScheduled /\ Delays!DelayNeverShrinks
    /\ Endpoints!IpLimitHolds /\ Endpoints!KeyLimitHolds
    /\ [](/\ Endpoints!TypeOK /\ Endpoints!BurstBounded
          /\ Endpoints!RetryAfterSuffices)

\* Pipeline: an entry whose errors were all transient reaches the dead-letter
\* store only after max_retries attempts were really charged to it since it was
\* last dead-lettered.  The counter is in a file that two tasks overwrite with
\* stale copies and that a crash may leave behind an attempt (record_failure,
\* update_entry, exhaust_entry).
NoEarlyDeadLetter ==
    /\ []Queue!TypeOK
    /\ [][\A m \in dead' \ dead : io["tick"].a > 0 => charged[m] >= 3]_queueVars
=============================================================================
