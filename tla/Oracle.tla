------------------------------- MODULE Oracle -------------------------------
(***************************************************************************)
(* The oracle contract (contracts/oracle/src/lib.rs): staked oracles vote  *)
(* on the result of a match, a candidate that reaches the threshold        *)
(* becomes the result, and stakes are slashed, at once for a losing or a   *)
(* second vote and after a grace period when the admin asks for it.        *)
(*                                                                         *)
(* A call is one transaction (see Escrow).  A call that returns Err leaves *)
(* no trace, which is why a slashed vote returns Ok.  The submission rate  *)
(* limit, modelled in OracleAdmin, may refuse any submission here.         *)
(***************************************************************************)
EXTENDS Integers, FiniteSets, Sequences, Counting

CONSTANTS
    Oracles,        \* addresses that may register
    Admin,          \* the admin, which may be an oracle too
    Matches,        \* match ids
    Games,          \* (game id, platform) pairs
    Outcomes,       \* Winner
    StakeAmounts,   \* stakes of one registration or top-up
    MaxStake,       \* bound on the stake of an oracle
    MaxVersion,     \* bound on the eligibility version
    SlashAmounts,   \* amounts the admin stages for slashing
    Thresholds,     \* values the admin may set ConsensusThreshold to
    GracePeriods,   \* values the admin may set SlashingGracePeriodLedgers to
    MinorityBps,    \* MINORITY_SLASH_BPS
    EquivocationBps,\* EQUIVOCATION_SLASH_BPS
    CacheTtl,       \* DEFAULT_CACHE_TTL_SECS
    SwapAmounts,    \* amounts of the stake token that swaps take or give
    AdminCalls,     \* the optional calls of the admin that a run includes
    MaxLedger       \* bound on the clock

ASSUME OraclesAssumption == IsFiniteSet(Oracles)

\* "none" stands for an absent entry.
ASSUME NamesAssumption == "none" \notin Games /\ "none" \notin Outcomes

ASSUME AmountsAssumption ==
    /\ StakeAmounts \subseteq Nat \ {0} /\ SlashAmounts \subseteq Nat \ {0}
    /\ SwapAmounts \subseteq Nat \ {0} /\ MaxStake \in Nat /\ MaxVersion \in Nat

\* Shares, in hundredths of a percent.
BasisPoints == 0..10000

ASSUME ConfigAssumption ==
    /\ Thresholds \subseteq Nat \ {0} /\ GracePeriods \subseteq Nat
    /\ MinorityBps \in BasisPoints /\ EquivocationBps \in BasisPoints
    /\ CacheTtl \in Nat /\ MaxLedger \in Nat

VARIABLES
    registered,     \* OracleSet, the keys of OracleRegistration
    stake,          \* oracle_stake
    version,        \* OracleEligibilityVersion
    threshold,      \* ConsensusThreshold
    vote,           \* OracleVote(match, oracle)
    candidates,     \* MatchVotes(match).candidates: candidate -> submitters
    disputed,       \* MatchVotes(match).disputed
    tally,          \* VoteTally(match)
    result,         \* Result(match)
    cache,          \* OracleCache(game)
    pending,        \* PendingSlash(oracle, match)
    pendingList,    \* PendingSlashList(oracle)
    grace,          \* SlashingGracePeriodLedgers
    metered,        \* addresses with OracleMetrics
    inactive,       \* those with OracleMetrics.active = false
    paused,         \* Paused
    now,            \* ledger sequence number and timestamp
    balance,        \* the contract's balance at the stake token
    swapped         \* history: stake tokens that swaps took in, less given out

votes   == <<vote, candidates, disputed, tally>>
slashes == <<pending, pendingList, grace>>
meters  == <<metered, inactive>>
vars == <<registered, stake, version, threshold, votes, result, cache,
          slashes, meters, paused, now, balance, swapped>>

Candidate == [game : Games, outcome : Outcomes]

NoVote   == [game |-> "none", outcome |-> "none"]
NoTally  == [remaining |-> 0, version |-> -1]
NoEntry  == [outcome |-> "none", expiry |-> -1]
NoSlash  == [amount |-> 0, eligible |-> -1]
NoVotes  == [c \in Candidate |-> {}]

(***************************************************************************)
(* Helpers shared by the operations.                                       *)
(***************************************************************************)
Eligible(o) == o \in registered /\ stake[o] > 0

\* The oracles count_remaining_eligible_oracles counts, votesOfM being the
\* votes recorded so far.
Remaining(m, votesOfM) == {o \in Oracles : Eligible(o) /\ votesOfM[o] = NoVote}

\* Altered for mutation: trusts the cached count whatever its version.
RemainingEligibleStale(m, votesOfM) ==
    IF tally[m] # NoTally
    THEN IF tally[m].remaining > 0 THEN tally[m].remaining - 1 ELSE 0
    ELSE Cardinality(Remaining(m, votesOfM))

\* remaining_eligible_oracles: the cached count less one while its version is
\* the current one, a recount otherwise.
RemainingEligible(m, votesOfM) ==
    IF tally[m].version = version
    THEN IF tally[m].remaining > 0 THEN tally[m].remaining - 1 ELSE 0
    ELSE Cardinality(Remaining(m, votesOfM))

\* What slash_bps takes from a stake of s.
Cut(s, bps) == (s * bps) \div 10000

\* What slash_bps takes from each oracle when it is called for those of S.
Taken(S, bps) == [o \in Oracles |-> IF o \in S THEN Cut(stake[o], bps) ELSE 0]

\* What leaves for the admin.
Total(taken) == SumOver(taken, Oracles)

\* Altered for mutation: a stake that falls to zero goes unnoticed.
SlashBpsUnversioned(S, bps) ==
    LET taken == Taken(S, bps)
    IN  /\ stake' = [o \in Oracles |-> stake[o] - taken[o]]
        /\ version' = version
        /\ balance >= Total(taken) /\ balance' = balance - Total(taken)

\* slash_bps for every oracle of S: the cut leaves for the admin, and a stake
\* that falls to zero changes who is eligible.
SlashBps(S, bps) ==
    LET taken == Taken(S, bps)
        emptied == {o \in S : stake[o] > 0 /\ stake[o] = taken[o]}
    IN  /\ stake' = [o \in Oracles |-> stake[o] - taken[o]]
        /\ version' = version + Cardinality(emptied)
        /\ balance >= Total(taken) /\ balance' = balance - Total(taken)

\* The Result and OracleCache writes of a finalisation.
StoreResult(m, c) ==
    /\ result' = [result EXCEPT ![m] = c]
    /\ cache' = [cache EXCEPT ![c.game] =
                    [outcome |-> c.outcome, expiry |-> now + CacheTtl]]

\* MatchVotes(match) and VoteTally(match) are removed.
ClearVotes(m) ==
    /\ candidates' = [candidates EXCEPT ![m] = NoVotes]
    /\ disputed' = [disputed EXCEPT ![m] = FALSE]
    /\ tally' = [tally EXCEPT ![m] = NoTally]

Init ==
    /\ registered = {} /\ stake = [o \in Oracles |-> 0] /\ version = 0
    /\ threshold = 1
    /\ vote = [m \in Matches |-> [o \in Oracles |-> NoVote]]
    /\ candidates = [m \in Matches |-> NoVotes]
    /\ disputed = [m \in Matches |-> FALSE]
    /\ tally = [m \in Matches |-> NoTally]
    /\ result = [m \in Matches |-> NoVote]
    /\ cache = [g \in Games |-> NoEntry]
    /\ pending = [o \in Oracles |-> [m \in Matches |-> NoSlash]]
    /\ pendingList = [o \in Oracles |-> << >>]
    /\ grace = 0
    /\ metered = {} /\ inactive = {} /\ paused = FALSE
    /\ now = 0 /\ balance = 0 /\ swapped = 0

(***************************************************************************)
(* Stakes and staged slashes.                                              *)
(***************************************************************************)
\* register_oracle_with_stake: registers an oracle or tops up its stake.
RegisterOracleWithStake(o, a) ==
    /\ stake[o] + a <= MaxStake
    /\ stake[o] = 0 => version < MaxVersion
    /\ registered' = registered \cup {o}
    /\ stake' = [stake EXCEPT ![o] = @ + a]
    /\ version' = IF stake[o] > 0 THEN version ELSE version + 1
    /\ balance' = balance + a
    /\ UNCHANGED <<threshold, votes, result, cache, slashes, meters, paused,
                   now, swapped>>

\* slash_oracle: the admin stages a slash; one per oracle and match at a time.
SlashOracle(o, m, a) ==
    /\ o \in registered
    /\ pending[o][m] = NoSlash
    /\ a <= stake[o]
    /\ pending' = [pending EXCEPT ![o][m] =
                      [amount |-> a, eligible |-> now + grace]]
    /\ pendingList' = [pendingList EXCEPT ![o] = Append(@, m)]
    /\ UNCHANGED <<registered, stake, version, threshold, votes, result, cache,
                   grace, meters, paused, now, balance, swapped>>

\* remove_pending_slash_match, and the removal of the entry itself.
RemovePending(o, m) ==
    /\ pending' = [pending EXCEPT ![o][m] = NoSlash]
    /\ pendingList' = [pendingList EXCEPT ![o] = Without(@, m)]

\* Altered for mutation: pays the staged amount whatever is left of the stake.
FinalizeSlashPaysAll(o, m) ==
    LET amount == pending[o][m].amount
    IN  /\ pending[o][m] # NoSlash
        /\ now >= pending[o][m].eligible
        /\ balance >= amount
        /\ stake' = [stake EXCEPT ![o] = IF @ > amount THEN @ - amount ELSE 0]
        /\ version' = IF stake[o] > 0 /\ stake[o] <= amount
                      THEN version + 1 ELSE version
        /\ RemovePending(o, m)
        /\ balance' = balance - amount
        /\ UNCHANGED <<registered, threshold, votes, result, cache, grace,
                       meters, paused, now, swapped>>

\* finalize_slash, by anyone once the grace period is over: takes at most what
\* is left of the stake.
FinalizeSlash(o, m) ==
    LET amount == IF pending[o][m].amount < stake[o]
                  THEN pending[o][m].amount ELSE stake[o]
    IN  /\ pending[o][m] # NoSlash
        /\ now >= pending[o][m].eligible
        /\ balance >= amount
        /\ stake' = [stake EXCEPT ![o] = @ - amount]
        /\ version' = IF stake[o] > 0 /\ stake[o] = amount
                      THEN version + 1 ELSE version
        /\ RemovePending(o, m)
        /\ balance' = balance - amount
        /\ UNCHANGED <<registered, threshold, votes, result, cache, grace,
                       meters, paused, now, swapped>>

\* admin_cancel_slash.
AdminCancelSlash(o, m) ==
    /\ pending[o][m] # NoSlash
    /\ RemovePending(o, m)
    /\ UNCHANGED <<registered, stake, version, threshold, votes, result, cache,
                   grace, meters, paused, now, balance, swapped>>

SetSlashingGracePeriod(g) ==
    /\ grace' = g
    /\ UNCHANGED <<registered, stake, version, threshold, votes, result, cache,
                   pending, pendingList, meters, paused, now, balance, swapped>>

(***************************************************************************)
(* Results.                                                                *)
(***************************************************************************)
AdminMaySubmit == ~paused /\ (Admin \in registered => stake[Admin] > 0)

\* submit_result: the admin writes a result; votes on the match stay recorded.
SubmitResult(m, c) ==
    /\ "submit" \in AdminCalls
    /\ AdminMaySubmit
    /\ Admin \notin inactive
    /\ result[m] = NoVote
    /\ StoreResult(m, c)
    /\ metered' = metered \cup {Admin}
    /\ UNCHANGED <<registered, stake, version, threshold, votes, slashes,
                   inactive, paused, now, balance, swapped>>

\* submit_batch_results: all entries are written or none; a later entry for the
\* same game wins the cache.  The metrics are neither checked nor updated.
SubmitBatchResults(batch) ==
    LET last(g) == {m \in DOMAIN batch : batch[m].game = g}
    IN  /\ "batch" \in AdminCalls
        /\ AdminMaySubmit
        /\ \A m \in DOMAIN batch : result[m] = NoVote
        /\ result' = [m \in Matches |->
              IF m \in DOMAIN batch THEN batch[m] ELSE result[m]]
        /\ \E pick \in [{g \in Games : last(g) # {}} -> DOMAIN batch] :
              /\ \A g \in DOMAIN pick : pick[g] \in last(g)
              /\ cache' = [g \in Games |->
                    IF g \in DOMAIN pick
                    THEN [outcome |-> batch[pick[g]].outcome,
                          expiry |-> now + CacheTtl]
                    ELSE cache[g]]
        /\ UNCHANGED <<registered, stake, version, threshold, votes, slashes,
                       meters, paused, now, balance, swapped>>

\* submit_oracle_result after the match is decided: a vote for another result
\* costs the minority share; it is not recorded.
LateVote(o, m, c) ==
    /\ ~paused /\ Eligible(o)
    /\ result[m] \notin {NoVote, c}
    /\ SlashBps({o}, MinorityBps)
    /\ UNCHANGED <<registered, threshold, votes, result, cache, slashes,
                   meters, paused, now, swapped>>

\* submit_oracle_result with a second, different vote: the whole stake goes.
Equivocate(o, m, c) ==
    /\ ~paused /\ Eligible(o) /\ o \notin inactive
    /\ result[m] = NoVote
    /\ vote[m][o] \notin {NoVote, c}
    /\ SlashBps({o}, EquivocationBps)
    /\ metered' = metered \cup {o}
    /\ UNCHANGED <<registered, threshold, votes, result, cache, slashes,
                   inactive, paused, now, swapped>>

\* The submitters of the candidates other than c.
Losers(cand, c) == UNION {cand[d] : d \in Candidate \ {c}}

Reaches(n) == n >= threshold

\* No candidate can reach the threshold any more.
Deadlocked(cand, remaining) ==
    \A d \in Candidate :
        cand[d] # {} => ~Reaches(Cardinality(cand[d]) + remaining)

\* The vote of o makes candidate c the result.
Finalise(m, c, cand) ==
    /\ StoreResult(m, c)
    /\ SlashBps(Losers(cand, c), MinorityBps)
    /\ ClearVotes(m)

\* The vote of o leaves the match open, or deadlocked and so disputed.
Record(m, c, cand) ==
    LET remaining == RemainingEligible(m, vote'[m])
    IN  /\ tally' = [tally EXCEPT ![m] =
                        [remaining |-> remaining, version |-> version]]
        /\ candidates' = [candidates EXCEPT ![m] = cand]
        /\ disputed' = [disputed EXCEPT ![m] = Deadlocked(cand, remaining)]
        /\ cache' = IF Deadlocked(cand, remaining)
                    THEN [cache EXCEPT ![c.game] = NoEntry] ELSE cache
        /\ UNCHANGED <<stake, version, result, balance>>

\* submit_oracle_result with an oracle's first vote on an open match.
Vote(o, m, c) ==
    LET cand == [candidates[m] EXCEPT ![c] = @ \cup {o}]
    IN  /\ ~paused /\ Eligible(o) /\ o \notin inactive
        /\ result[m] = NoVote
        /\ vote[m][o] = NoVote
        /\ ~disputed[m]
        /\ vote' = [vote EXCEPT ![m][o] = c]
        /\ metered' = metered \cup {o}
        /\ \/ Reaches(Cardinality(cand[c])) /\ Finalise(m, c, cand)
           \/ ~Reaches(Cardinality(cand[c])) /\ Record(m, c, cand)
        /\ UNCHANGED <<registered, threshold, slashes, inactive, paused, now,
                       swapped>>

\* resolve_disputed_match: the admin decides a deadlocked match, also while the
\* contract is paused.
ResolveDisputedMatch(m, c) ==
    /\ result[m] = NoVote
    /\ disputed[m]
    /\ SlashBps(Losers(candidates[m], c), MinorityBps)
    /\ StoreResult(m, c)
    /\ ClearVotes(m)
    /\ UNCHANGED <<registered, threshold, vote, slashes, meters, paused, now,
                   swapped>>

\* delete_result: the votes on the match stay recorded.
DeleteResult(m) ==
    /\ ~paused
    /\ result[m] # NoVote
    /\ cache' = [cache EXCEPT ![result[m].game] = NoEntry]
    /\ result' = [result EXCEPT ![m] = NoVote]
    /\ UNCHANGED <<registered, stake, version, threshold, votes, slashes,
                   meters, paused, now, balance, swapped>>

\* get_cached_result drops an entry that has expired; invalidate_cache drops
\* one at the admin's request.
DropCacheEntry(g) ==
    /\ cache[g] # NoEntry
    /\ cache' = [cache EXCEPT ![g] = NoEntry]
    /\ UNCHANGED <<registered, stake, version, threshold, votes, result,
                   slashes, meters, paused, now, balance, swapped>>

GetCachedResult(g) == now >= cache[g].expiry /\ DropCacheEntry(g)

InvalidateCache(g) == "invalidate" \in AdminCalls /\ DropCacheEntry(g)

(***************************************************************************)
(* Administration, swaps and time.                                         *)
(***************************************************************************)
SetConsensusThreshold(t) ==
    /\ threshold' = t
    /\ UNCHANGED <<registered, stake, version, votes, result, cache, slashes,
                   meters, paused, now, balance, swapped>>

\* deactivate_slow_oracle; the response times it compares are in OracleAdmin.
\* Nothing makes an oracle active again.
DeactivateSlowOracle(o) ==
    /\ "deactivate" \in AdminCalls
    /\ o \in metered
    /\ inactive' = inactive \cup {o}
    /\ UNCHANGED <<registered, stake, version, threshold, votes, result, cache,
                   slashes, metered, paused, now, balance, swapped>>

Pause ==
    /\ "pause" \in AdminCalls /\ ~paused /\ paused' = TRUE
    /\ UNCHANGED <<registered, stake, version, threshold, votes, result, cache,
                   slashes, meters, now, balance, swapped>>

Unpause ==
    /\ paused /\ paused' = FALSE
    /\ UNCHANGED <<registered, stake, version, threshold, votes, result, cache,
                   slashes, meters, now, balance, swapped>>

\* swap draws on the same balance as the stakes: it takes a stake tokens in, or
\* gives a of them out.  (How much it gives is in Conversion.)
SwapIn(a) ==
    /\ swapped + a <= MaxStake
    /\ balance' = balance + a /\ swapped' = swapped + a
    /\ UNCHANGED <<registered, stake, version, threshold, votes, result, cache,
                   slashes, meters, paused, now>>

SwapOut(a) ==
    /\ balance >= a
    /\ balance' = balance - a /\ swapped' = swapped - a
    /\ UNCHANGED <<registered, stake, version, threshold, votes, result, cache,
                   slashes, meters, paused, now>>

Tick ==
    /\ now < MaxLedger
    /\ now' = now + 1
    /\ UNCHANGED <<registered, stake, version, threshold, votes, result, cache,
                   slashes, meters, paused, balance, swapped>>

StakeStep ==
    \/ \E o \in Oracles, a \in StakeAmounts : RegisterOracleWithStake(o, a)
    \/ \E o \in Oracles, m \in Matches, a \in SlashAmounts : SlashOracle(o, m, a)
    \/ \E o \in Oracles, m \in Matches : FinalizeSlash(o, m)
    \/ \E o \in Oracles, m \in Matches : AdminCancelSlash(o, m)

ResultStep ==
    \/ \E m \in Matches, c \in Candidate : SubmitResult(m, c)
    \/ \E S \in SUBSET Matches \ {{}} :
          \E batch \in [S -> Candidate] : SubmitBatchResults(batch)
    \/ \E o \in Oracles, m \in Matches, c \in Candidate : Vote(o, m, c)
    \/ \E o \in Oracles, m \in Matches, c \in Candidate : LateVote(o, m, c)
    \/ \E o \in Oracles, m \in Matches, c \in Candidate : Equivocate(o, m, c)
    \/ \E m \in Matches, c \in Candidate : ResolveDisputedMatch(m, c)
    \/ \E m \in Matches : DeleteResult(m)
    \/ \E g \in Games : GetCachedResult(g)
    \/ \E g \in Games : InvalidateCache(g)

AdminStep ==
    \/ \E t \in Thresholds : SetConsensusThreshold(t)
    \/ \E g \in GracePeriods : SetSlashingGracePeriod(g)
    \/ \E o \in Oracles : DeactivateSlowOracle(o)
    \/ Pause
    \/ Unpause
    \/ \E a \in SwapAmounts : SwapIn(a)
    \/ \E a \in SwapAmounts : SwapOut(a)
    \/ Tick

Next == StakeStep \/ ResultStep \/ AdminStep

Spec == Init /\ [][Next]_vars

(***************************************************************************)
(* Properties.                                                             *)
(***************************************************************************)
\* Every entry has the type its declaration gives it; in particular no stake,
\* eligibility count or balance of the contract falls below zero.
TypeOK ==
    /\ registered \in SUBSET Oracles
    /\ stake \in [Oracles -> Nat]
    /\ version \in Nat /\ threshold \in Nat \ {0}
    /\ vote \in [Matches -> [Oracles -> Candidate \cup {NoVote}]]
    /\ candidates \in [Matches -> [Candidate -> SUBSET Oracles]]
    /\ disputed \in [Matches -> BOOLEAN]
    /\ tally \in [Matches -> [remaining : Nat, version : Int]]
    /\ result \in [Matches -> Candidate \cup {NoVote}]
    /\ cache \in [Games -> [outcome : Outcomes \cup {"none"}, expiry : Int]]
    /\ pending \in [Oracles -> [Matches -> [amount : Nat, eligible : Int]]]
    /\ pendingList \in [Oracles -> Seq(Matches)]
    /\ grace \in Nat
    /\ metered \in SUBSET (Oracles \cup {Admin})
    /\ inactive \in SUBSET Oracles
    /\ paused \in BOOLEAN
    /\ now \in Nat /\ balance \in Nat /\ swapped \in Int

\* The cached count of oracles that can still vote on a match, decremented vote
\* by vote, is what a recount would give, as long as its version is current: no
\* registration, top-up, slash, deletion or vote on another match makes it lie.
TallyExact ==
    \A m \in Matches :
        tally[m].version = version =>
            tally[m].remaining = Cardinality(Remaining(m, vote[m]))

\* Every submitter listed under a candidate has that candidate as its recorded
\* vote, so nobody is counted twice or slashed twice for one match.
SubmittersVoted ==
    \A m \in Matches, c \in Candidate, o \in Oracles :
        o \in candidates[m][c] => vote[m][o] = c

\* A match becomes disputed only when a fresh count shows that no candidate can
\* reach the threshold, whatever the oracles that have not voted do.
DisputeJustified ==
    [][\A m \in Matches : disputed'[m] /\ ~disputed[m] =>
          \A c \in Candidate :
              Cardinality(candidates'[m][c])
                + Cardinality(Remaining(m, vote'[m])) < threshold]_vars

\* A result that a vote brings about has the recorded votes of as many oracles
\* as the threshold asks for, equivocation, deletion and slashing in between
\* notwithstanding.
VotesBehindResult ==
    [][\A m \in Matches : vote'[m] # vote[m] /\ result'[m] # result[m] =>
          Cardinality({o \in Oracles : vote'[m][o] = result'[m]})
              >= threshold]_vars

\* PendingSlashList, from which get_pending_slashes answers, names exactly the
\* matches with a staged slash, each once.
PendingListExact ==
    \A o \in Oracles :
        /\ {pendingList[o][i] : i \in DOMAIN pendingList[o]}
              = {m \in Matches : pending[o][m] # NoSlash}
        /\ \A i, j \in DOMAIN pendingList[o] :
              i # j => pendingList[o][i] # pendingList[o][j]

\* A cached answer for a game is the outcome of a result stored for some match:
\* deletion and disputes leave no answer behind that nothing supports.
CacheBacked ==
    \A g \in Games : cache[g] # NoEntry =>
        \E m \in Matches : result[m] = [game |-> g, outcome |-> cache[g].outcome]

\* What the contract stores twice agrees: the cached count of voters with a
\* recount, the lists of submitters with the recorded votes, the cached answers
\* with the results.
RecordsExact == TallyExact /\ SubmittersVoted /\ CacheBacked

\* A match is disputed, or gets the result of its votes, only when the recorded
\* votes and the oracles that may still vote justify it (submit_oracle_result).
DecisionsJustified == DisputeJustified /\ VotesBehindResult

\* No stake and no balance is negative, and the contract holds the stakes and
\* what swaps brought in, to the token: every slash takes from a stake exactly
\* what it pays out, and the list of staged slashes names each of them once
\* (slash_bps, finalize_slash, remove_pending_slash_match).
StakesCovered ==
    /\ TypeOK /\ PendingListExact
    /\ balance = SumOver(stake, Oracles) + swapped
=============================================================================
