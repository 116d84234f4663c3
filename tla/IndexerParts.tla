---------------------------- MODULE IndexerParts ----------------------------
(***************************************************************************)
(* The parts of the event indexer that answer requests or decide who       *)
(* ingests: its two caches, its two paged queries and the lease of the     *)
(* polling replica.  They are modelled by modules that share no variable;  *)
(* a behaviour of this module is a behaviour of one of them, the others    *)
(* keeping a state they start in.  MCIndexer adds the rest for TLC.        *)
(***************************************************************************)
EXTENDS Integers

CONSTANTS
    EventIds, EventMatches, CacheSize, EventTtl, MaxIndexed,      \* EventCache
    CachedMatches, Replicas, Lists, Shared, MaxRollbacks, MaxCacheFaults,
                                                                  \* ApiCache
    HistoryPlayers, PageLimit, MaxRows, MaxReorgs,                       \* History
    MaxId, Limits,                                                \* Paging
    Instances, LeaderKey, LeaseTtl, PollInterval, MaxSkew, MaxLeaseFaults
                                                                  \* LeaderLease

VARIABLES
    component,    \* the part that moves
    matchOf, stored, ingesting, order, entryAge, index,           \* EventCache
    db, store, request, poller, rollbacks, cacheFaults, why,      \* ApiCache
    history, moved, historyWalk, reorgs,                          \* History
    listed, walk,                                                 \* Paging
    row, skew, pc, timer, isLeader, cached, leaseFaults, holder, age
                                                                  \* LeaderLease

cacheVars == <<matchOf, stored, ingesting, order, entryAge, index>>
responseVars == <<db, store, request, poller, rollbacks, cacheFaults, why>>
historyVars == <<history, moved, historyWalk, reorgs>>
pageVars == <<listed, walk>>
leaseVars == <<row, skew, pc, timer, isLeader, cached, leaseFaults, holder, age>>
vars == <<component, cacheVars, responseVars, historyVars, pageVars, leaseVars>>

Cache == INSTANCE EventCache WITH
    Ids <- EventIds, Matches <- EventMatches, MaxSize <- CacheSize, Ttl <- EventTtl,
    age <- entryAge
Responses == INSTANCE ApiCache WITH
    Matches <- CachedMatches, MaxReorgs <- MaxRollbacks, MaxFaults <- MaxCacheFaults,
    reorgs <- rollbacks, faults <- cacheFaults
Transactions == INSTANCE History WITH
    Players <- HistoryPlayers, Limit <- PageLimit, rows <- history, walk <- historyWalk
Pages == INSTANCE Paging
Election == INSTANCE LeaderLease WITH
    Ttl <- LeaseTtl, MaxFaults <- MaxLeaseFaults, faults <- leaseFaults

ASSUME IndexerAssumption ==
    /\ Cache!ConstantsOK /\ Responses!ConstantsOK /\ Transactions!ConstantsOK
    /\ Pages!ConstantsOK /\ Election!ConstantsOK

-----------------------------------------------------------------------------
(* One part at a time.                                                     *)

\* Where a part that does not move may start in several states, it starts in one.
Init ==
    /\ Cache!Init /\ Responses!Init /\ Transactions!Init /\ Pages!Init
    /\ Election!WatchedInit
    /\ component # "cache" => matchOf = [e \in EventIds |-> CHOOSE m \in EventMatches : TRUE]
    /\ component # "lease" => skew = [i \in Instances |-> 0]

Next ==
    /\ UNCHANGED component
    /\ \/ /\ component = "cache" /\ Cache!Next
          /\ UNCHANGED <<responseVars, historyVars, pageVars, leaseVars>>
       \/ /\ component = "responses" /\ Responses!Next
          /\ UNCHANGED <<cacheVars, historyVars, pageVars, leaseVars>>
       \/ /\ component = "history" /\ Transactions!Next
          /\ UNCHANGED <<cacheVars, responseVars, pageVars, leaseVars>>
       \/ /\ component = "pages" /\ Pages!Next
          /\ UNCHANGED <<cacheVars, responseVars, historyVars, leaseVars>>
       \/ /\ component = "lease" /\ Election!WatchedNext
          /\ UNCHANGED <<cacheVars, responseVars, historyVars, pageVars>>

Spec == Init /\ [][Next]_vars

-----------------------------------------------------------------------------
\* EventCache and ApiCache: the index of ids by match and the map of events
\* agree, the entry that insert evicts is the oldest, GET /events/:match_id
\* answers out of the events table, with nothing only when the table has
\* nothing; a response of the shared cache that differs from the database has
\* one of the reasons invalidate_match leaves it.
CachesSound ==
    /\ Cache!TypeOK /\ Cache!IndexMatchesMap /\ Cache!StrictOrder
    /\ Cache!AnswersFromLog
    /\ Responses!TypeOK /\ Responses!StaleIsExcused

\* History and Paging: following has_more shows every row of the start, none
\* twice and none of a rolled-back ledger; a walk with after misses nothing while
\* matches join the list, and one with offsets is exact while none joins.
WalksComplete ==
    /\ Transactions!TypeOK /\ Transactions!WalkComplete
    /\ Transactions!NothingRolledBack
    /\ Pages!TypeOK /\ Pages!CursorStable /\ Pages!OffsetExact

\* LeaderLease: a replica that lost the lease serves nothing from its cache, and
\* nobody wins the lease before the last winner's term, as long as its own clock
\* made it, is over ("only succeeds when the row does not exist or the current
\* held_until timestamp has expired", leader.rs).
LeaseHolds ==
    [](Election!TypeOK /\ Election!FollowersServeNoCache) /\ Election!TermsKept
=============================================================================
