---------------------------- MODULE EscrowParts ----------------------------
(***************************************************************************)
(* The parts of the escrow contract around the life of a match, which      *)
(* Escrow has: batches of deposits, fees and limits, governance, the       *)
(* rotation of the oracle, the consensus of oracles and the admin's lists. *)
(* They are modelled by modules that share no variable here; a behaviour   *)
(* of this module is a behaviour of one of them, the others keeping a      *)
(* state they start in.  MCEscrowParts adds two more for TLC.              *)
(***************************************************************************)
EXTENDS Integers, Sequences

CONSTANTS
    None,         \* an absent entry
    Contract,     \* the escrow contract's own address
    BatchPlayers, BatchMatches, Player1(_), Player2(_), ActiveLimit, MaxStranded,
                                                               \* DepositBatch
    FeeMatches, Stakes, Configs, TierLists, Shares, Minima, Maxima, Overrides,
    LastStart, LastTick,                                       \* Fees
    AdminAccounts, Hashes, ReviewPeriod, Versions, PeriodVersion, Periods, MaxLedger,
                                                               \* Governance
    OracleAccounts, Durations, MaxTime,                        \* OracleRotation
    Oracles, VotedMatches, Winners, DefaultRequired,           \* OracleConsensus
    Addresses                                                  \* TokenLists

VARIABLES
    component,    \* the part that moves
    bState, bDeposited, index, active, count, escrowed, held, guard, barred, stranded,
                                                               \* DepositBatch
    config, referralBps, feeTiers, bondBps, fState, stake, referred, override, deposits,
    result, fVestedAt, claims, paid, fNow,                     \* Fees
    admin, pendingAdmin, gPaused, scheduledAt, pendingHash, confirmedBy, version, period,
    gNow, proposed, installed,                                 \* Governance
    oracle, temp, pending, rNow, asked,                        \* OracleRotation
    approved, required, oWinner, vote, confirmations, leading, deadlock, oPaused,
    settledBy, rejected,                                       \* OracleConsensus
    allowed, allowedCount, enforced, allowedList, issuers, issuerCount, tBarred,
    barredList                                                 \* TokenLists

batchVars == <<bState, bDeposited, index, active, count, escrowed, held, guard, barred,
               stranded>>
feeVars == <<config, referralBps, feeTiers, bondBps, fState, stake, referred, override,
             deposits, result, fVestedAt, claims, paid, fNow>>
govVars == <<admin, pendingAdmin, gPaused, scheduledAt, pendingHash, confirmedBy, version,
             period, gNow, proposed, installed>>
rotVars == <<oracle, temp, pending, rNow, asked>>
consVars == <<approved, required, oWinner, vote, confirmations, leading, deadlock,
              oPaused, settledBy, rejected>>
listVars == <<allowed, allowedCount, enforced, allowedList, issuers, issuerCount, tBarred,
              barredList>>
vars == <<component, batchVars, feeVars, govVars, rotVars, consVars, listVars>>

Batch == INSTANCE DepositBatch WITH
    state <- bState, deposited <- bDeposited, Players <- BatchPlayers,
    Matches <- BatchMatches
Money == INSTANCE Fees WITH
    state <- fState, vestedAt <- fVestedAt, now <- fNow, Matches <- FeeMatches,
    MaxNow <- LastTick
Gov == INSTANCE Governance WITH paused <- gPaused, now <- gNow, Accounts <- AdminAccounts
Rotation == INSTANCE OracleRotation WITH now <- rNow, Accounts <- OracleAccounts
Consensus == INSTANCE OracleConsensus WITH
    winner <- oWinner, paused <- oPaused, Matches <- VotedMatches
Lists == INSTANCE TokenLists WITH barred <- tBarred

ASSUME PartsAssumption ==
    /\ Batch!ConstantsOK /\ Money!ConstantsOK /\ Gov!ConstantsOK
    /\ Rotation!ConstantsOK /\ Consensus!ConstantsOK /\ Lists!ConstantsOK

-----------------------------------------------------------------------------
(* One part at a time.                                                     *)

\* Where a part that does not move may start in several states, it starts in one.
Init ==
    /\ component # "governance" => admin = CHOOSE a \in AdminAccounts : a # Contract
    /\ component # "rotation" => oracle = CHOOSE a \in OracleAccounts : a # Contract
    /\ Batch!Init /\ Money!Init /\ Gov!Init /\ Rotation!Init /\ Consensus!Init
    /\ Lists!Init

Next ==
    /\ UNCHANGED component
    /\ \/ /\ component = "batch" /\ Batch!Next
          /\ UNCHANGED <<feeVars, govVars, rotVars, consVars, listVars>>
       \/ /\ component = "fees" /\ Money!Next
          /\ UNCHANGED <<batchVars, govVars, rotVars, consVars, listVars>>
       \/ /\ component = "governance" /\ Gov!Next
          /\ UNCHANGED <<batchVars, feeVars, rotVars, consVars, listVars>>
       \/ /\ component = "rotation" /\ Rotation!Next
          /\ UNCHANGED <<batchVars, feeVars, govVars, consVars, listVars>>
       \/ /\ component = "consensus" /\ Consensus!Next
          /\ UNCHANGED <<batchVars, feeVars, govVars, rotVars, listVars>>
       \/ /\ component = "lists" /\ Lists!Next
          /\ UNCHANGED <<batchVars, feeVars, govVars, rotVars, consVars>>

Spec == Init /\ [][Next]_vars

-----------------------------------------------------------------------------
\* DepositBatch: the contract holds the stakes of the deposit flags and what
\* failed entries took, to the token; a match in play has both deposits recorded
\* and is in both players' active sets; a player's escrow counter covers the
\* player's deposits in open matches (deposit_batch, deposit, cancel_match).
BatchSound ==
    Batch!FlagsBacked /\ Batch!ActiveMeansBoth /\ Batch!CounterCoversFlags

\* Fees and TokenLists: the pieces paid out of a match add up to what was put in,
\* the referrer is paid from the platform's cut, and the first-match scans charge
\* the rate of the tightest tier (claim_vested_payout, cancel_match,
\* compute_referral_fee, compute_tiered_fee, dispute_bond_basis_points_for); and
\* create_match admits just whom and what the lists of the contract name, which
\* name nobody twice and agree with the counts.
FeesAndListsExact ==
    /\ Money!PiecesAddUp /\ Money!ReferralFromTheCut /\ Money!TightestTierCharged
    /\ Lists!TypeOK /\ Lists!ListsTellAdmission /\ Lists!CountsExact

\* Governance and OracleRotation: installed code was announced, waited for and
\* confirmed, a nomination is the current admin's own, a migration keeps the
\* dispute period; a stand-in oracle is one the admin asked for, in its window,
\* and a pending rotation names the oracle it replaces.
AuthorityHolds == Gov!AuthorityHolds /\ Rotation!AuthorityHolds

\* OracleConsensus: the confirmation count is the number of recorded votes, all
\* for the leading winner; a match settled by consensus has the votes that were
\* required, all for its winner; the required number never exceeds the approved
\* oracles (submit_result_consensus, remove_approved_oracle).
ConsensusCounted == Consensus!ConsensusCounted
=============================================================================
