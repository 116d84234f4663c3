------------------------------- MODULE Escrow -------------------------------
(***************************************************************************)
(* The match lifecycle of the escrow contract                              *)
(* (contracts/escrow/src/lib.rs): every operation that moves a match       *)
(* between states or moves the tokens staked on it, for single-token       *)
(* matches.                                                                *)
(*                                                                         *)
(* A contract call is one transaction: it either returns Ok and all of its *)
(* writes and token transfers take effect, or it returns Err and none do.  *)
(* Each operation is therefore one action whose guard is the conjunction   *)
(* of the checks on its Ok path.  Ledger sequence numbers and ledger       *)
(* timestamps advance together, so one clock, now, stands for both, and    *)
(* durations that the code gives in seconds are given here in ledgers.     *)
(***************************************************************************)
EXTENDS Integers, Sequences, FiniteSets

CONSTANTS
    Matches,            \* match ids; each has a game id of its own
    Players,            \* addresses that play and vote
    NoPlayer,           \* the players of an id that is not allocated yet
    Stakes,             \* stakes between the configured minimum and maximum
    Genesis, MaxLedger, \* first ledger, and the bound on the clock
    InitialTimeout,     \* ProtocolConfig::match_timeout_seconds at deployment
    MatchTimeouts,      \* values the admin may set it to
    DisputePeriods,     \* values the admin may set DisputePeriod to
    Freezable,          \* players the admin may freeze
    MayPause,           \* whether the admin ever pauses the contract
    MayBlacklist,       \* whether the admin ever blacklists the token
    Vesting,            \* vesting_duration_seconds
    RollbackWindow,     \* ROLLBACK_WINDOW_SECONDS
    MaxPause,           \* MAX_PAUSE_DURATION_LEDGERS
    StallWindow,        \* ADMIN_STALL_WINDOW_SECONDS
    VotingPeriod,       \* VOTING_PERIOD_LEDGERS
    MinHold,            \* MinimumHoldDuration
    BondBps, QuorumBps, \* DisputeBondBasisPoints, QuorumBasisPoints
    MaxActive,          \* MAX_ACTIVE_MATCHES_PER_PLAYER
    MaxSnapshots,       \* MAX_PLAYER_SNAPSHOTS
    SilverMin, GoldMin, PlatinumMin,    \* completed matches that open a tier
    BronzeMax, SilverMax, GoldMax       \* largest stake of each tier

ASSUME StakesAssumption == Stakes \subseteq Nat \ {0}

ASSUME PlayersAssumption ==
    NoPlayer \notin Players /\ Freezable \subseteq Players

\* Match ids are u64 values, and there are finitely many accounts.
ASSUME FiniteAssumption == IsFiniteSet(Matches) /\ IsFiniteSet(Players)

ASSUME ClockAssumption == Genesis \in Nat /\ MaxLedger \in Nat

ASSUME PeriodsAssumption ==
    /\ InitialTimeout \in Nat /\ MatchTimeouts \subseteq Nat
    /\ DisputePeriods \subseteq Nat
    /\ Vesting \in Nat /\ RollbackWindow \in Nat /\ MaxPause \in Nat
    /\ StallWindow \in Nat /\ VotingPeriod \in Nat /\ MinHold \in Nat

\* Shares that are not zero, in hundredths of a percent.
Shares == 1..10000

ASSUME LimitsAssumption ==
    /\ BondBps \in Shares /\ QuorumBps \in Shares
    /\ MaxActive \in Nat \ {0} /\ MaxSnapshots \in Nat \ {0}

VARIABLES
    \* struct Match, one function per field
    state,          \* match -> MatchState, or "Unused" for an id not allocated
    p1, p2,         \* player1, player2
    stake,          \* stake_amount
    deposited,      \* the players whose playerN_deposited flag is set
    created,        \* created_ledger
    stamped,        \* completed_ledger.is_some()
    winner,         \* winner
    vestedAt,       \* vested_at
    claimed,        \* the players whose playerN_claimed flag is set
    pausedLedger,   \* paused_ledger
    totalPause,     \* total_pause_duration
    heartbeat,      \* last_heartbeat
    activatedAt,    \* activated_at
    rollbackVotes,  \* the players whose rollback_vote_playerN flag is set
    \* results waiting for the dispute period
    pendingWinner,  \* PendingWinner(match)
    deadline,       \* ResultDeadline(match)
    dispute,        \* Dispute(MatchDispute(match))
    \* per-player records
    active,         \* ActiveMatch(player, match)
    activeCount,    \* PlayerActiveMatchCount(player)
    escrowBal,      \* PlayerEscrowKey::Balance(player)
    snaps,          \* PlayerBalanceSnapshot ring of the player, oldest first
    completedCount, \* PlayerCompletedMatchCount(player)
    stats,          \* PlayerStats(player): wins, losses and draws
    totalPayouts,   \* PlatformStats.total_payouts
    \* configuration and clock
    paused,         \* DataKey::Paused
    frozen,         \* players with the frozen flag
    blacklisted,    \* whether the stake token is blacklisted
    disputePeriod,  \* DataKey::DisputePeriod
    matchTimeout,   \* the current_match_timeout
    now,            \* ledger sequence number and timestamp
    \* tokens
    balance,        \* the contract's balance at the token contract
    paid            \* history: match -> player -> tokens paid out for the player

parties    == <<p1, p2, stake, created>>
pauseVars  == <<pausedLedger, totalPause>>
resultVars == <<pendingWinner, deadline>>
indexVars  == <<active, activeCount>>
config     == <<paused, frozen, blacklisted, disputePeriod, matchTimeout>>
vars == <<state, parties, deposited, stamped, winner, vestedAt, claimed,
          pauseVars, heartbeat, activatedAt, rollbackVotes, resultVars,
          dispute, indexVars, escrowBal, snaps, completedCount, stats,
          totalPayouts, config, now, balance, paid>>

(***************************************************************************)
(* Values.                                                                 *)
(***************************************************************************)
MatchState == {"Pending", "Active", "PendingResult", "Completed",
               "Cancelled", "Paused"}

Winner == {"Player1", "Player2", "Draw", "None"}

\* Option::None for a ledger number or a timestamp.
NoLedger == -1

NoDispute == [state |-> "None", disputer |-> NoPlayer, bond |-> 0,
              deadline |-> 0, snapshot |-> 0, quorum |-> 0,
              yes |-> 0, no |-> 0, voters |-> {}]

Terminal(m) == state[m] \in {"Completed", "Cancelled"}

\* Altered for mutation: a pending result may be submitted again.
InPlayOrPending(m) == state[m] \in {"Active", "Paused", "PendingResult"}

InPlay(m) == state[m] \in {"Active", "Paused"}

Pair(m) == {p1[m], p2[m]}

\* Altered for mutation: misses the dispute entry.
HasDisputeNever(m) == FALSE

\* MatchDispute(match) has an entry.
HasDispute(m) == dispute[m].state # "None"

(***************************************************************************)
(* Amounts.                                                                *)
(***************************************************************************)
Pot(m) == stake[m] + stake[m]

\* The players a result w pays.
Entitled(m, w) == CASE w = "Player1" -> {p1[m]}
                    [] w = "Player2" -> {p2[m]}
                    [] w = "Draw"    -> Pair(m)
                    [] OTHER         -> {}

\* A refund of the stakes of the players in S, and the payout of a result w
\* (execute_payout).  The cancellation fee, the referral fee and the protocol
\* fee are cut from a player's share on its way out and are counted in it.
Refund(m, S) == [p \in Players |-> IF p \in S THEN stake[m] ELSE 0]

\* Altered for mutation: pays the pot to both players of a draw.
PayoutOfPots(m, w) ==
    [p \in Players |-> IF p \in Entitled(m, w) THEN Pot(m) ELSE 0]

Payout(m, w) ==
    [p \in Players |-> IF p \notin Entitled(m, w) THEN 0
                       ELSE IF w = "Draw" THEN stake[m] ELSE Pot(m)]

\* Altered for mutation: accounts for one transfer of two.
TotalOfFirst(m, share) == share[p1[m]]

\* share[p] tokens leave the contract for each player p of match m.  A transfer
\* traps, and the call with it, when the contract's balance is too small.
Total(m, share) == share[p1[m]] + share[p2[m]]

\* Altered for mutation: makes one transfer of two.
PayFirst(m, share) ==
    /\ balance >= Total(m, share)
    /\ balance' = balance - share[p1[m]]
    /\ paid' = [paid EXCEPT ![m][p1[m]] = @ + share[p1[m]]]

Pay(m, share) ==
    /\ balance >= Total(m, share)
    /\ balance' = balance - Total(m, share)
    /\ paid' = [paid EXCEPT ![m] = [p \in Players |-> @[p] + share[p]]]

(***************************************************************************)
(* Helpers shared by the operations.                                       *)
(***************************************************************************)
\* require_player_tier_for_stake: the stake lies in the band of the tier that
\* the player's completed matches have reached.
TierAllows(p, s) ==
    IF completedCount[p] >= PlatinumMin THEN s > GoldMax
    ELSE IF completedCount[p] >= GoldMin THEN SilverMax < s /\ s <= GoldMax
    ELSE IF completedCount[p] >= SilverMin THEN BronzeMax < s /\ s <= SilverMax
    ELSE s <= BronzeMax

TimedOut(m) == now - created[m] >= matchTimeout

\* Altered for mutation: debits players who made no deposit.
DebitedPair(m, S) ==
    [p \in Players |->
        IF p \in Pair(m) THEN escrowBal[p] - stake[m] ELSE escrowBal[p]]

\* update_player_escrow_balance(p, -stake) for every p in S.
Debited(m, S) ==
    [p \in Players |->
        IF p \in S THEN escrowBal[p] - stake[m] ELSE escrowBal[p]]

\* record_player_snapshot(p) for every p in S, bal being the escrow counters
\* at that point: the newest entry overwrites the oldest when the ring is full.
Snapshotted(S, bal) ==
    [p \in Players |->
        IF p \in S
        THEN LET entry == [ledger |-> now, balance |-> bal[p]]
                 kept  == IF Len(snaps[p]) < MaxSnapshots
                          THEN snaps[p] ELSE Tail(snaps[p])
             IN  Append(kept, entry)
        ELSE snaps[p]]

\* Altered for mutation: one match too many fits.
HasRoomOffByOne(p) == activeCount[p] <= MaxActive

\* add_active_match and remove_active_match_indexed, for both players.
HasRoom(p) == activeCount[p] < MaxActive

Index(m) ==
    /\ active' = [p \in Players |->
          IF p \in Pair(m) THEN active[p] \cup {m} ELSE active[p]]
    /\ activeCount' = [p \in Players |->
          IF p \in Pair(m) THEN activeCount[p] + 1 ELSE activeCount[p]]

\* Altered for mutation: forgets player 2.
UnindexFirst(m) ==
    /\ active' = [active EXCEPT ![p1[m]] = @ \ {m}]
    /\ activeCount' = [activeCount EXCEPT ![p1[m]] = @ - 1]

\* Altered for mutation: lowers the counter of a match that is not indexed.
UnindexUnchecked(m) ==
    /\ active' = [p \in Players |->
          IF p \in Pair(m) THEN active[p] \ {m} ELSE active[p]]
    /\ activeCount' = [p \in Players |->
          IF p \in Pair(m) THEN activeCount[p] - 1 ELSE activeCount[p]]

Unindex(m) ==
    /\ active' = [p \in Players |->
          IF p \in Pair(m) THEN active[p] \ {m} ELSE active[p]]
    /\ activeCount' = [p \in Players |->
          IF p \in Pair(m) /\ m \in active[p] /\ activeCount[p] > 0
          THEN activeCount[p] - 1 ELSE activeCount[p]]

\* Altered for mutation: forgets player 2.
CountCompletedFirst(m) ==
    completedCount' = [completedCount EXCEPT ![p1[m]] = @ + 1]

\* record_completed_match for both players.
CountCompleted(m) ==
    completedCount' = [p \in Players |->
        IF p \in Pair(m) THEN completedCount[p] + 1 ELSE completedCount[p]]

\* update_player_stats: the result w seen from the seat "Player1" or "Player2".
Tally(st, seat, w) ==
    CASE w = "Draw" -> [st EXCEPT !.draws = @ + 1]
      [] w = seat   -> [st EXCEPT !.wins = @ + 1]
      [] OTHER      -> [st EXCEPT !.losses = @ + 1]

RecordStats(m, w) ==
    stats' = [p \in Players |->
        IF p = p1[m] THEN Tally(stats[p], "Player1", w)
        ELSE IF p = p2[m] THEN Tally(stats[p], "Player2", w)
        ELSE stats[p]]

\* Altered for mutation: leaves completed_ledger unset.
CloseUnstamped(m, s) ==
    state' = [state EXCEPT ![m] = s] /\ UNCHANGED stamped

\* set_match_state(Completed or Cancelled) and the completed_ledger stamp.
Close(m, s) ==
    /\ state' = [state EXCEPT ![m] = s]
    /\ stamped' = [stamped EXCEPT ![m] = TRUE]

(***************************************************************************)
(* Creation and funding.                                                   *)
(***************************************************************************)
Init ==
    /\ state = [m \in Matches |-> "Unused"]
    /\ p1 = [m \in Matches |-> NoPlayer] /\ p2 = [m \in Matches |-> NoPlayer]
    /\ stake = [m \in Matches |-> 0]
    /\ deposited = [m \in Matches |-> {}]
    /\ created = [m \in Matches |-> 0]
    /\ stamped = [m \in Matches |-> FALSE]
    /\ winner = [m \in Matches |-> "None"]
    /\ vestedAt = [m \in Matches |-> NoLedger]
    /\ claimed = [m \in Matches |-> {}]
    /\ pausedLedger = [m \in Matches |-> NoLedger]
    /\ totalPause = [m \in Matches |-> 0]
    /\ heartbeat = [m \in Matches |-> 0]
    /\ activatedAt = [m \in Matches |-> NoLedger]
    /\ rollbackVotes = [m \in Matches |-> {}]
    /\ pendingWinner = [m \in Matches |-> "None"]
    /\ deadline = [m \in Matches |-> NoLedger]
    /\ dispute = [m \in Matches |-> NoDispute]
    /\ active = [p \in Players |-> {}]
    /\ activeCount = [p \in Players |-> 0]
    /\ escrowBal = [p \in Players |-> 0]
    /\ snaps = [p \in Players |-> << >>]
    /\ completedCount = [p \in Players |-> 0]
    /\ stats = [p \in Players |-> [wins |-> 0, losses |-> 0, draws |-> 0]]
    /\ totalPayouts = 0
    /\ paused = FALSE /\ frozen = {} /\ blacklisted = FALSE
    /\ disputePeriod = 0 /\ matchTimeout = InitialTimeout
    /\ now = Genesis
    /\ balance = 0
    /\ paid = [m \in Matches |-> [p \in Players |-> 0]]

\* create_match: player 1 proposes a match to player 2.
CreateMatch(m, a, b, s) ==
    /\ state[m] = "Unused"
    /\ ~paused /\ ~blacklisted
    /\ a # b /\ a \notin frozen /\ b \notin frozen
    /\ TierAllows(a, s) /\ TierAllows(b, s)
    /\ state' = [state EXCEPT ![m] = "Pending"]
    /\ p1' = [p1 EXCEPT ![m] = a] /\ p2' = [p2 EXCEPT ![m] = b]
    /\ stake' = [stake EXCEPT ![m] = s]
    /\ created' = [created EXCEPT ![m] = now]
    /\ heartbeat' = [heartbeat EXCEPT ![m] = now]
    /\ UNCHANGED <<deposited, stamped, winner, vestedAt, claimed, pauseVars,
                   activatedAt, rollbackVotes, resultVars, dispute, indexVars,
                   escrowBal, snaps, completedCount, stats, totalPayouts,
                   config, now, balance, paid>>

\* deposit: the second deposit activates the match; it fails when either
\* player already plays MaxActive matches.
Deposit(m, p) ==
    /\ ~paused /\ p \notin frozen
    /\ state[m] = "Pending"
    /\ p \in Pair(m) \ deposited[m]
    /\ TierAllows(p, stake[m])
    /\ deposited' = [deposited EXCEPT ![m] = @ \cup {p}]
    /\ balance' = balance + stake[m]
    /\ heartbeat' = [heartbeat EXCEPT ![m] = now]
    /\ escrowBal' = [escrowBal EXCEPT ![p] = @ + stake[m]]
    /\ snaps' = Snapshotted({p}, escrowBal')
    /\ \/ /\ Pair(m) \subseteq deposited[m] \cup {p}
          /\ \A q \in Pair(m) : HasRoom(q)
          /\ state' = [state EXCEPT ![m] = "Active"]
          /\ activatedAt' = [activatedAt EXCEPT ![m] = now]
          /\ Index(m)
       \/ /\ ~(Pair(m) \subseteq deposited[m] \cup {p})
          /\ UNCHANGED <<state, activatedAt, indexVars>>
    /\ UNCHANGED <<parties, stamped, winner, vestedAt, claimed, pauseVars,
                   rollbackVotes, resultVars, dispute, completedCount, stats,
                   totalPayouts, config, now, paid>>

(***************************************************************************)
(* Leaving Pending.                                                        *)
(***************************************************************************)
\* The common tail of cancel_match and expire_match: every deposit leaves the
\* contract, and the depositors' escrow counters and snapshots follow.  (On a
\* cancellation the treasury's fee and the player's refund add up to the stake.)
RefundPending(m) ==
    /\ Pay(m, Refund(m, deposited[m]))
    /\ Close(m, "Cancelled")
    /\ escrowBal' = Debited(m, deposited[m])
    /\ snaps' = Snapshotted(deposited[m], escrowBal')
    /\ UNCHANGED <<parties, deposited, winner, vestedAt, claimed, pauseVars,
                   heartbeat, activatedAt, rollbackVotes, resultVars, dispute,
                   indexVars, completedCount, stats, totalPayouts, config, now>>

\* cancel_match, by either player.
CancelMatch(m, p) ==
    /\ ~paused
    /\ state[m] = "Pending"
    /\ p \in Pair(m)
    /\ RefundPending(m)

\* expire_match, by anyone (and by bulk_expire_matches, one match at a time).
ExpireMatch(m) ==
    /\ state[m] = "Pending"
    /\ TimedOut(m)
    /\ ~blacklisted
    /\ RefundPending(m)

\* admin_recover_match: each refund is attempted on its own and its failure is
\* ignored, so R, the players whose refund went through, may be any part of
\* the depositors.  The escrow counters are left as they are.
AdminRecoverMatch(m, R) ==
    /\ state[m] = "Pending"
    /\ TimedOut(m)
    /\ R \subseteq deposited[m]
    /\ Pay(m, Refund(m, R))
    /\ Close(m, "Cancelled")
    /\ snaps' = Snapshotted(deposited[m], escrowBal)
    /\ UNCHANGED <<parties, deposited, winner, vestedAt, claimed, pauseVars,
                   heartbeat, activatedAt, rollbackVotes, resultVars, dispute,
                   indexVars, escrowBal, completedCount, stats, totalPayouts,
                   config, now>>

(***************************************************************************)
(* While the match is played.                                              *)
(***************************************************************************)
PauseMatch(m, p) ==
    /\ state[m] = "Active"
    /\ p \in Pair(m)
    /\ totalPause[m] < MaxPause
    /\ state' = [state EXCEPT ![m] = "Paused"]
    /\ pausedLedger' = [pausedLedger EXCEPT ![m] = now]
    /\ UNCHANGED <<parties, deposited, stamped, winner, vestedAt, claimed,
                   totalPause, heartbeat, activatedAt, rollbackVotes,
                   resultVars, dispute, indexVars, escrowBal, snaps,
                   completedCount, stats, totalPayouts, config, now, balance,
                   paid>>

ResumeMatch(m, p) ==
    /\ state[m] = "Paused"
    /\ p \in Pair(m)
    /\ state' = [state EXCEPT ![m] = "Active"]
    /\ totalPause' = [totalPause EXCEPT ![m] = @ + (now - pausedLedger[m])]
    /\ pausedLedger' = [pausedLedger EXCEPT ![m] = NoLedger]
    /\ UNCHANGED <<parties, deposited, stamped, winner, vestedAt, claimed,
                   heartbeat, activatedAt, rollbackVotes, resultVars, dispute,
                   indexVars, escrowBal, snaps, completedCount, stats,
                   totalPayouts, config, now, balance, paid>>

HeartbeatMatch(m, p) ==
    /\ state[m] = "Active"
    /\ p \in Pair(m)
    /\ heartbeat' = [heartbeat EXCEPT ![m] = now]
    /\ UNCHANGED <<state, parties, deposited, stamped, winner, vestedAt,
                   claimed, pauseVars, activatedAt, rollbackVotes, resultVars,
                   dispute, indexVars, escrowBal, snaps, completedCount,
                   stats, totalPayouts, config, now, balance, paid>>

\* Altered for mutation: one vote is enough.
AgreedByOne(m, votes) == votes # {}

\* Both players have voted for the rollback.
Agreed(m, votes) == Pair(m) \subseteq votes

\* dispute_and_rollback_match: the first player's call records a vote, the
\* call that completes the pair refunds both stakes.  The escrow counters are
\* left as they are.
DisputeAndRollback(m, p) ==
    /\ state[m] = "Active"
    /\ p \in Pair(m)
    /\ now - heartbeat[m] <= RollbackWindow
    /\ rollbackVotes' = [rollbackVotes EXCEPT ![m] = @ \cup {p}]
    /\ \/ /\ ~Agreed(m, rollbackVotes'[m])
          /\ UNCHANGED <<state, stamped, indexVars, snaps, balance, paid>>
       \/ /\ Agreed(m, rollbackVotes'[m])
          /\ Unindex(m)
          /\ Pay(m, Refund(m, deposited[m]))
          /\ Close(m, "Cancelled")
          /\ snaps' = Snapshotted(deposited[m], escrowBal)
    /\ UNCHANGED <<parties, deposited, winner, vestedAt, claimed, pauseVars,
                   heartbeat, activatedAt, resultVars, dispute, escrowBal,
                   completedCount, stats, totalPayouts, config, now>>

\* Altered for mutation: measured from the last heartbeat.
StalledSinceHeartbeat(m) ==
    /\ InPlay(m)
    /\ now - heartbeat[m] > StallWindow

\* The admin may resolve a Paused match, or an Active one that outlived the
\* pause budget, once the stall window since activation is over.
Stalled(m) ==
    /\ \/ state[m] = "Paused"
       \/ state[m] = "Active" /\ now - activatedAt[m] > MaxPause
    /\ now - activatedAt[m] > StallWindow

\* admin_resolve_stalled_match: pays the pot, or both stakes back on a draw, at
\* once; vested_at stays None.
AdminResolveStalled(m, w) ==
    /\ w # "None"
    /\ Stalled(m)
    /\ Pair(m) \subseteq deposited[m]
    /\ Unindex(m)
    /\ Pay(m, Payout(m, w))
    /\ Close(m, "Completed")
    /\ winner' = [winner EXCEPT ![m] = w]
    /\ snaps' = Snapshotted(Pair(m), escrowBal)
    /\ IF w # "Draw" THEN CountCompleted(m) ELSE UNCHANGED completedCount
    /\ UNCHANGED <<parties, deposited, vestedAt, claimed, pauseVars, heartbeat,
                   activatedAt, rollbackVotes, resultVars, dispute, escrowBal,
                   stats, totalPayouts, config, now>>

(***************************************************************************)
(* Results.                                                                *)
(***************************************************************************)
\* settle_result: the one settlement step behind submit_result, submit_draw,
\* the batch and the consensus entry points.  Without a dispute period the
\* match completes here and its payout vests; with one the result waits.
SettleResult(m, w) ==
    /\ w # "None"
    /\ Pair(m) \subseteq deposited[m]
    /\ InPlay(m)
    /\ Unindex(m)
    /\ winner' = [winner EXCEPT ![m] = w]
    /\ vestedAt' = [vestedAt EXCEPT ![m] = now]
    /\ CountCompleted(m)
    /\ totalPayouts' = totalPayouts + 1
    /\ RecordStats(m, w)
    /\ \/ /\ disputePeriod = 0
          /\ Close(m, "Completed")
          /\ escrowBal' = Debited(m, Pair(m))
          /\ snaps' = Snapshotted(Pair(m), escrowBal')
          /\ UNCHANGED resultVars
       \/ /\ disputePeriod > 0
          /\ state' = [state EXCEPT ![m] = "PendingResult"]
          /\ pendingWinner' = [pendingWinner EXCEPT ![m] = w]
          /\ deadline' = [deadline EXCEPT ![m] = now + disputePeriod]
          /\ UNCHANGED <<stamped, escrowBal, snaps>>
    /\ UNCHANGED <<parties, deposited, claimed, pauseVars, heartbeat,
                   activatedAt, rollbackVotes, dispute, config, now, balance,
                   paid>>

\* submit_result and submit_draw, by the oracle in office.
SubmitResult(m, w) == ~paused /\ SettleResult(m, w)

\* finalize_match, by anyone once the dispute period is over.
FinalizeMatch(m) ==
    /\ state[m] = "PendingResult"
    /\ now >= deadline[m]
    /\ ~HasDispute(m)
    /\ Pay(m, Payout(m, pendingWinner[m]))
    /\ Unindex(m)
    /\ escrowBal' = Debited(m, Pair(m))
    /\ Close(m, "Completed")
    /\ CountCompleted(m)
    /\ totalPayouts' = totalPayouts + 1
    /\ snaps' = Snapshotted(Pair(m), escrowBal')
    /\ UNCHANGED <<parties, deposited, winner, vestedAt, claimed, pauseVars,
                   heartbeat, activatedAt, rollbackVotes, resultVars, dispute,
                   stats, config, now>>

\* Altered for mutation: blocked by a contract pause.
VestedUnlessPaused(m) ==
    ~paused /\ vestedAt[m] # NoLedger /\ now >= vestedAt[m] + Vesting

\* The vesting period of the result is over.
Vested(m) == vestedAt[m] # NoLedger /\ now >= vestedAt[m] + Vesting

\* Altered for mutation: forgets the claims already made.
MayClaimAgain(m, p) == p \in Entitled(m, winner[m])

\* The result gives the player a share, and the player's claimed flag is unset.
MayClaim(m, p) == p \in Entitled(m, winner[m]) \ claimed[m]

\* claim_vested_payout, not blocked by a contract pause.
ClaimVestedPayout(m, p) ==
    /\ state[m] = "Completed"
    /\ Vested(m)
    /\ MayClaim(m, p)
    /\ Pay(m, [q \in Players |-> IF q = p THEN Payout(m, winner[m])[p] ELSE 0])
    /\ claimed' = [claimed EXCEPT ![m] = @ \cup {p}]
    /\ snaps' = Snapshotted({p}, escrowBal)
    /\ UNCHANGED <<state, parties, deposited, stamped, winner, vestedAt,
                   pauseVars, heartbeat, activatedAt, rollbackVotes,
                   resultVars, dispute, indexVars, escrowBal, completedCount,
                   stats, totalPayouts, config, now>>

(***************************************************************************)
(* Disputes.                                                               *)
(***************************************************************************)
\* A share of amount in basis points, rounded down.
BasisPoints(amount, bps) == (amount * bps) \div 10000

\* At least one token, so that no dispute is free.
BondFor(m) == LET b == BasisPoints(stake[m], BondBps) IN IF b > 1 THEN b ELSE 1

\* dispute_oracle_result: a player bonds tokens and opens a vote; the quorum is
\* a share of what the contract then holds, the bond included.
DisputeOracleResult(m, p) ==
    /\ state[m] = "PendingResult"
    /\ p \in Pair(m)
    /\ now < deadline[m]
    /\ ~HasDispute(m)
    /\ balance' = balance + BondFor(m)
    /\ dispute' = [dispute EXCEPT ![m] =
          [state |-> "Active", disputer |-> p, bond |-> BondFor(m),
           deadline |-> now + VotingPeriod, snapshot |-> now,
           quorum |-> BasisPoints(balance', QuorumBps),
           yes |-> 0, no |-> 0, voters |-> {}]]
    /\ UNCHANGED <<state, parties, deposited, stamped, winner, vestedAt,
                   claimed, pauseVars, heartbeat, activatedAt, rollbackVotes,
                   resultVars, indexVars, escrowBal, snaps, completedCount,
                   stats, totalPayouts, config, now, paid>>

\* The snapshots of voter v old enough to vote in the dispute about m, and the
\* newest of them, which gives the weight.
Qualifying(m, v) ==
    LET cutoff == IF dispute[m].snapshot > MinHold
                  THEN dispute[m].snapshot - MinHold ELSE 0
    IN  {i \in DOMAIN snaps[v] : snaps[v][i].ledger <= cutoff}

Newest(m, v) == {i \in Qualifying(m, v) : \A j \in Qualifying(m, v) : j <= i}

Voted(d, v, yes, weight) ==
    [d EXCEPT !.yes = IF yes THEN @ + weight ELSE @,
              !.no = IF yes THEN @ ELSE @ + weight,
              !.voters = @ \cup {v}]

\* vote_on_dispute: a second vote, a vote without an old enough snapshot and a
\* vote of weight zero are refused.
VoteOnDispute(m, v, yes) ==
    /\ dispute[m].state = "Active"
    /\ now < dispute[m].deadline
    /\ v \notin dispute[m].voters
    /\ \E i \in Newest(m, v) :
          /\ snaps[v][i].balance > 0
          /\ dispute' = [dispute EXCEPT ![m] =
                            Voted(@, v, yes, snaps[v][i].balance)]
    /\ UNCHANGED <<state, parties, deposited, stamped, winner, vestedAt,
                   claimed, pauseVars, heartbeat, activatedAt, rollbackVotes,
                   resultVars, indexVars, escrowBal, snaps, completedCount,
                   stats, totalPayouts, config, now, balance, paid>>

\* Altered for mutation: a tie overturns.
VerdictOnTies(m) ==
    IF dispute[m].yes >= dispute[m].no THEN "Draw" ELSE pendingWinner[m]

\* The dispute's payout: a draw when it is overturned, else the pending result.
Verdict(m) ==
    IF dispute[m].yes > dispute[m].no THEN "Draw" ELSE pendingWinner[m]

\* resolve_dispute_by_vote, by anyone once the vote is over and has a quorum.
\* The bond goes to the disputer or to the treasury.  Neither the escrow
\* counters nor the recorded winner change.
ResolveDispute(m) ==
    /\ dispute[m].state = "Active"
    /\ now >= dispute[m].deadline
    /\ state[m] = "PendingResult"
    /\ dispute[m].yes + dispute[m].no >= dispute[m].quorum
    /\ LET share == Payout(m, Verdict(m)) IN
          /\ balance >= Total(m, share) + dispute[m].bond
          /\ balance' = balance - Total(m, share) - dispute[m].bond
          /\ paid' = [paid EXCEPT ![m] = [p \in Players |-> @[p] + share[p]]]
    /\ dispute' = [dispute EXCEPT ![m].state =
          IF dispute[m].yes > dispute[m].no THEN "Overturned" ELSE "Upheld"]
    /\ Unindex(m)
    /\ Close(m, "Completed")
    /\ CountCompleted(m)
    /\ totalPayouts' = totalPayouts + 1
    /\ UNCHANGED <<parties, deposited, winner, vestedAt, claimed, pauseVars,
                   heartbeat, activatedAt, rollbackVotes, resultVars,
                   escrowBal, snaps, stats, config, now>>

(***************************************************************************)
(* Administration and time.                                                *)
(***************************************************************************)
matchAndTokenVars == <<state, parties, deposited, stamped, winner, vestedAt,
    claimed, pauseVars, heartbeat, activatedAt, rollbackVotes, resultVars,
    dispute, indexVars, escrowBal, snaps, completedCount, stats, totalPayouts,
    balance, paid>>

PauseContract ==
    /\ MayPause /\ ~paused
    /\ paused' = TRUE
    /\ UNCHANGED <<frozen, blacklisted, disputePeriod, matchTimeout, now,
                   matchAndTokenVars>>

UnpauseContract ==
    /\ paused
    /\ paused' = FALSE
    /\ UNCHANGED <<frozen, blacklisted, disputePeriod, matchTimeout, now,
                   matchAndTokenVars>>

FreezePlayer(p) ==
    /\ frozen' = frozen \cup {p}
    /\ UNCHANGED <<paused, blacklisted, disputePeriod, matchTimeout, now,
                   matchAndTokenVars>>

UnfreezePlayer(p) ==
    /\ frozen' = frozen \ {p}
    /\ UNCHANGED <<paused, blacklisted, disputePeriod, matchTimeout, now,
                   matchAndTokenVars>>

AddTokenToBlacklist ==
    /\ MayBlacklist
    /\ blacklisted' = TRUE
    /\ UNCHANGED <<paused, frozen, disputePeriod, matchTimeout, now,
                   matchAndTokenVars>>

RemoveTokenFromBlacklist ==
    /\ blacklisted' = FALSE
    /\ UNCHANGED <<paused, frozen, disputePeriod, matchTimeout, now,
                   matchAndTokenVars>>

SetDisputePeriod(d) ==
    /\ disputePeriod' = d
    /\ UNCHANGED <<paused, frozen, blacklisted, matchTimeout, now,
                   matchAndTokenVars>>

SetMatchTimeout(t) ==
    /\ matchTimeout' = t
    /\ UNCHANGED <<paused, frozen, blacklisted, disputePeriod, now,
                   matchAndTokenVars>>

\* A ledger closes.
Tick ==
    /\ now < MaxLedger
    /\ now' = now + 1
    /\ UNCHANGED <<config, matchAndTokenVars>>

MatchStep(m) ==
    \/ \E a, b \in Players, s \in Stakes : CreateMatch(m, a, b, s)
    \/ \E p \in Players : Deposit(m, p)
    \/ \E p \in Players : CancelMatch(m, p)
    \/ ExpireMatch(m)
    \/ \E R \in SUBSET Players : AdminRecoverMatch(m, R)
    \/ \E p \in Players : PauseMatch(m, p)
    \/ \E p \in Players : ResumeMatch(m, p)
    \/ \E p \in Players : HeartbeatMatch(m, p)
    \/ \E p \in Players : DisputeAndRollback(m, p)
    \/ \E w \in Winner : AdminResolveStalled(m, w)
    \/ \E w \in Winner : SubmitResult(m, w)
    \/ FinalizeMatch(m)
    \/ \E p \in Players : ClaimVestedPayout(m, p)
    \/ \E p \in Players : DisputeOracleResult(m, p)
    \/ \E v \in Players, yes \in BOOLEAN : VoteOnDispute(m, v, yes)
    \/ ResolveDispute(m)

AdminStep ==
    \/ PauseContract
    \/ UnpauseContract
    \/ \E p \in Freezable : FreezePlayer(p)
    \/ \E p \in Freezable : UnfreezePlayer(p)
    \/ AddTokenToBlacklist
    \/ RemoveTokenFromBlacklist
    \/ \E d \in DisputePeriods : SetDisputePeriod(d)
    \/ \E t \in MatchTimeouts : SetMatchTimeout(t)

Next == Tick \/ AdminStep \/ \E m \in Matches : MatchStep(m)

Spec == Init /\ [][Next]_vars

(***************************************************************************)
(* Properties.                                                             *)
(***************************************************************************)
Ledger == Nat \cup {NoLedger}

DisputeRecord ==
    [state : {"None", "Active", "Upheld", "Overturned"},
     disputer : Players \cup {NoPlayer}, bond : Nat, deadline : Nat,
     snapshot : Nat, quorum : Int, yes : Nat, no : Nat,
     voters : SUBSET Players]

MatchTypes ==
    /\ state \in [Matches -> MatchState \cup {"Unused"}]
    /\ p1 \in [Matches -> Players \cup {NoPlayer}]
    /\ p2 \in [Matches -> Players \cup {NoPlayer}]
    /\ stake \in [Matches -> Nat]
    /\ deposited \in [Matches -> SUBSET Players]
    /\ created \in [Matches -> Nat]
    /\ stamped \in [Matches -> BOOLEAN]
    /\ winner \in [Matches -> Winner]
    /\ vestedAt \in [Matches -> Ledger]
    /\ claimed \in [Matches -> SUBSET Players]

PlayTypes ==
    /\ pausedLedger \in [Matches -> Ledger]
    /\ totalPause \in [Matches -> Int]
    /\ heartbeat \in [Matches -> Nat]
    /\ activatedAt \in [Matches -> Ledger]
    /\ rollbackVotes \in [Matches -> SUBSET Players]
    /\ pendingWinner \in [Matches -> Winner]
    /\ deadline \in [Matches -> Ledger]

PlayerTypes ==
    /\ active \in [Players -> SUBSET Matches]
    /\ activeCount \in [Players -> Nat]
    /\ escrowBal \in [Players -> Int]
    /\ snaps \in [Players -> Seq([ledger : Nat, balance : Int])]
    /\ completedCount \in [Players -> Nat]
    /\ stats \in [Players -> [wins : Nat, losses : Nat, draws : Nat]]
    /\ totalPayouts \in Nat

ConfigTypes ==
    /\ paused \in BOOLEAN
    /\ frozen \in SUBSET Players
    /\ blacklisted \in BOOLEAN
    /\ disputePeriod \in Nat
    /\ matchTimeout \in Nat
    /\ now \in Nat

TokenTypes ==
    /\ balance \in Nat
    /\ paid \in [Matches -> [Players -> Nat]]

\* Every field of every record has the type its declaration gives it; in
\* particular neither the contract's balance nor a counter of unsigned type
\* ever goes below zero.
TypeOK ==
    /\ MatchTypes /\ PlayTypes /\ PlayerTypes /\ ConfigTypes /\ TokenTypes
    /\ dispute \in [Matches -> DisputeRecord]

\* What player p may receive for match m in its present state: its own stake
\* back after a cancellation, its share of the recorded result after
\* completion, and nothing before.
Due(m, p) == CASE state[m] = "Completed" -> Payout(m, winner[m])[p]
               [] state[m] = "Cancelled" -> Refund(m, deposited[m])[p]
               [] OTHER                  -> 0

\* However refunds, admin resolutions and vested claims interleave, no player
\* is ever paid more for a match than its outcome gives that player, provided
\* the result did not go through a dispute period.
NeverOverpaid ==
    \A m \in Matches, p \in Players :
        deadline[m] = NoLedger => paid[m][p] <= Due(m, p)

\* Nor is anybody paid less: a match rolled back from play has refunded both
\* stakes, a match the admin resolved has paid its result, and a player who has
\* claimed a vested result has received the full share.
NeverUnderpaid ==
    \A m \in Matches, p \in Players :
        \/ state[m] = "Cancelled" /\ activatedAt[m] = NoLedger
        \/ state[m] = "Completed" /\ vestedAt[m] # NoLedger /\ p \notin claimed[m]
        \/ paid[m][p] >= Due(m, p)

\* The fields of a match agree with its state on every path through the
\* operations: a match is played, decided or completed only with both stakes in
\* escrow, carries a result exactly when decided, a completion ledger exactly
\* when terminal, and a pause in progress only while it may be resumed or has
\* been settled during that pause.
LifecycleConsistent ==
    \A m \in Matches :
        /\ state[m] \in {"Active", "Paused", "PendingResult", "Completed"}
              => deposited[m] = Pair(m) /\ activatedAt[m] # NoLedger
        /\ state[m] = "Pending" => deposited[m] # Pair(m)
        /\ winner[m] # "None" <=> state[m] \in {"PendingResult", "Completed"}
        /\ stamped[m] <=> Terminal(m)
        /\ state[m] = "Paused" => pausedLedger[m] # NoLedger
        /\ pausedLedger[m] # NoLedger
              => state[m] \in {"Paused", "PendingResult", "Completed"}

\* The active-match index lists a match for a player exactly while the match is
\* being played and the player is in it, whichever of the five ways out of play
\* it takes.
ActiveIndexExact ==
    \A p \in Players, m \in Matches :
        m \in active[p] <=> InPlay(m) /\ p \in Pair(m)

\* A match that was played is cancelled only with the consent of both players
\* (dispute_and_rollback_match, the #1517 fix).
MutualConsent ==
    \A m \in Matches :
        state[m] = "Cancelled" /\ activatedAt[m] # NoLedger
            => rollbackVotes[m] = Pair(m)

\* While a dispute is open its match waits in PendingResult, and a dispute is
\* resolved exactly when its match completes: finalize_match never overtakes a
\* vote.
DisputeHoldsResult ==
    \A m \in Matches :
        /\ dispute[m].state = "Active" => state[m] = "PendingResult"
        /\ dispute[m].state \in {"Upheld", "Overturned"} => state[m] = "Completed"

\* Until the vested payout is claimed on top of it, a result that went through
\* a dispute period has been paid out exactly once, and as the vote decided: a
\* draw when overturned, else the oracle's result (finalize_match and
\* resolve_dispute_by_vote read PendingWinner, claims read Match.winner).
PaidByVerdict ==
    \A m \in Matches :
        state[m] = "Completed" /\ deadline[m] # NoLedger /\ claimed[m] = {}
            => paid[m] = Payout(m, IF dispute[m].state = "Overturned"
                                   THEN "Draw" ELSE winner[m])

\* A terminal match never changes state again, and a recorded result is never
\* replaced by another one.
OutcomeIsFinal ==
    [][\A m \in Matches :
          /\ Terminal(m) => state'[m] = state[m] /\ stamped'[m]
          /\ winner[m] # "None" => winner'[m] = winner[m]]_vars
=============================================================================
