-------------------------------- MODULE Fees --------------------------------
(***************************************************************************)
(* The escrow contract's protocol configuration and what it takes from a   *)
(* match: the cancellation fee, the referral and the protocol fee of a     *)
(* claimed payout, the fee tiers and the dispute-bond tiers.  The          *)
(* configuration changes at any time; a match is charged what is in force  *)
(* when its money moves.                                                   *)
(***************************************************************************)
EXTENDS Integers, Sequences, Functions

CONSTANTS
    Matches,        \* match ids
    Stakes,         \* stakes players offer
    Configs,        \* ProtocolConfig values the admin submits, valid or not
    TierLists,      \* fee tier schedules the admin submits, valid or not
    Shares,         \* basis points the admin submits elsewhere
    Minima, Maxima, \* stake limits the admin submits (0: no maximum)
    Overrides,      \* vesting_override_seconds of a match, NoOverride if unset
    LastStart,      \* bound on when a result comes
    MaxNow          \* bound of the clock

NoOverride == -1
NoTime == -1
Accounts == {"contract", "admin", "treasury"}
Tier == [max : Int, bps : Nat]

\* What get_config falls back to before the first set_protocol_config.
DefaultConfig ==
    [protocolBps |-> 0, cancelBps |-> 0, cap |-> 0, vesting |-> 3,
     treasury |-> "admin", recipient |-> "admin", minStake |-> 1, maxStake |-> 0,
     bondTiers |-> << >>]

VARIABLES
    config,        \* ProtocolConfig; a cap or a maxStake of 0 stands for None
    referralBps,   \* ReferralShareBasisPoints
    feeTiers,      \* FeeTiers
    bondBps,       \* DisputeBondBasisPoints
    state, stake, referred, override, deposits, result, vestedAt, claims,
                   \* the match: its stake, whether it has a referrer, how many
                   \* have deposited, its result and how many have claimed
    paid,          \* history: what the match paid, by kind of recipient
    now

settings == <<config, referralBps, feeTiers, bondBps>>
matchVars == <<state, stake, referred, override, deposits, result, vestedAt, claims>>
vars == <<settings, matchVars, paid, now>>

\* The types of the values submitted: amounts are i128, rates are u32.
Config ==
    [protocolBps : Nat, cancelBps : Nat, cap : Nat, vesting : Nat,
     treasury : Accounts, recipient : Accounts, minStake : Int, maxStake : Int,
     bondTiers : Seq(Tier)]
ConstantsOK ==
    /\ Configs \subseteq Config /\ TierLists \subseteq Seq(Tier)
    /\ Stakes \subseteq Nat /\ Shares \subseteq Nat
    /\ Minima \subseteq Int /\ Maxima \subseteq Int

BasisPoints(amount, bps) == (amount * bps) \div 10000
NothingPaid == [players |-> 0, referrer |-> 0, protocol |-> 0, treasury |-> 0]

Init ==
    /\ config = DefaultConfig
    /\ referralBps = 2000 /\ feeTiers = << >> /\ bondBps = 100
    /\ state = [m \in Matches |-> "Unused"]
    /\ stake = [m \in Matches |-> 0]
    /\ referred = [m \in Matches |-> FALSE]
    /\ override = [m \in Matches |-> NoOverride]
    /\ deposits = [m \in Matches |-> 0]
    /\ result = [m \in Matches |-> "None"]
    /\ vestedAt = [m \in Matches |-> NoTime]
    /\ claims = [m \in Matches |-> 0]
    /\ paid = [m \in Matches |-> NothingPaid]
    /\ now = 0

(***************************************************************************)
(* The admin's settings.                                                   *)
(***************************************************************************)
\* A schedule is strictly ascending from zero, each rate at most all of it.
ValidTiers(tiers) ==
    \A i \in DOMAIN tiers :
        /\ tiers[i].max > (IF i = 1 THEN -1 ELSE tiers[i - 1].max)
        /\ tiers[i].bps <= 10000

\* set_protocol_config accepts c.
ValidConfig(c) ==
    /\ c.protocolBps <= 10000 /\ c.cancelBps <= 10000
    /\ c.minStake >= 1
    /\ c.maxStake # 0 => c.maxStake >= c.minStake
    /\ ValidTiers(c.bondTiers)
    /\ "contract" \notin {c.treasury, c.recipient}

\* set_protocol_config.
SetProtocolConfig(c) ==
    /\ ValidConfig(c)
    /\ config' = c
    /\ UNCHANGED <<referralBps, feeTiers, bondBps, matchVars, paid, now>>

\* set_minimum_stake and set_maximum_stake each look at their own value only.
SetMinimumStake(n) ==
    /\ n >= 1
    /\ config' = [config EXCEPT !.minStake = n]
    /\ UNCHANGED <<referralBps, feeTiers, bondBps, matchVars, paid, now>>

SetMaximumStake(n) ==
    /\ n >= 0
    /\ config' = [config EXCEPT !.maxStake = n]
    /\ UNCHANGED <<referralBps, feeTiers, bondBps, matchVars, paid, now>>

\* set_referral_share_bps.
SetReferralShareBps(b) ==
    /\ b <= 10000
    /\ referralBps' = b
    /\ UNCHANGED <<config, feeTiers, bondBps, matchVars, paid, now>>

\* set_fee_tiers.
SetFeeTiers(tiers) ==
    /\ ValidTiers(tiers)
    /\ feeTiers' = tiers
    /\ UNCHANGED <<config, referralBps, bondBps, matchVars, paid, now>>

\* set_dispute_bond_basis_points.
SetDisputeBondBasisPoints(b) ==
    /\ b >= 1 /\ b <= 10000
    /\ bondBps' = b
    /\ UNCHANGED <<config, referralBps, feeTiers, matchVars, paid, now>>

(***************************************************************************)
(* Rates.                                                                  *)
(***************************************************************************)
\* The first tier that reaches the stake, or else the last one.
TierFor(tiers, s) ==
    LET reaching == {i \in DOMAIN tiers : s <= tiers[i].max}
    IN  IF reaching = {} THEN tiers[Len(tiers)]
        ELSE tiers[CHOOSE i \in reaching : \A j \in reaching : i <= j]

\* compute_tiered_fee (calculate_fee_by_tier).
TieredFee(s) ==
    IF feeTiers = << >> THEN 0 ELSE BasisPoints(2 * s, TierFor(feeTiers, s).bps)

\* dispute_bond_basis_points_for.
DisputeBondBpsFor(s) ==
    IF config.bondTiers = << >> THEN bondBps ELSE TierFor(config.bondTiers, s).bps

\* Altered for mutation: the share is taken from the pot.
ReferralFeeOfPot(m, pot) ==
    IF referred[m] /\ config.cancelBps > 0 THEN BasisPoints(pot, referralBps) ELSE 0

\* compute_referral_fee: a share of the platform's cut, in two roundings.
ReferralFee(m, pot) ==
    IF referred[m] /\ config.cancelBps > 0
    THEN BasisPoints(BasisPoints(pot, config.cancelBps), referralBps) ELSE 0

\* compute_protocol_fee, at most the cap.
ProtocolFee(pot) ==
    LET fee == BasisPoints(pot, config.protocolBps)
    IN  IF config.cap # 0 /\ fee > config.cap THEN config.cap ELSE fee

\* Altered for mutation: the protocol fee is left in the winner's share.
NetPayoutGross(m, pot) == pot - ReferralFee(m, pot)

NetPayout(m, pot) == pot - ReferralFee(m, pot) - ProtocolFee(pot)

(***************************************************************************)
(* Matches.                                                                *)
(***************************************************************************)
\* create_match and create_match_with_referrer, with the stake limits in force.
CreateMatch(m, s, r, o) ==
    /\ state[m] = "Unused"
    /\ s >= config.minStake
    /\ config.maxStake # 0 => s <= config.maxStake
    /\ state' = [state EXCEPT ![m] = "Pending"]
    /\ stake' = [stake EXCEPT ![m] = s]
    /\ referred' = [referred EXCEPT ![m] = r]
    /\ override' = [override EXCEPT ![m] = o]
    /\ UNCHANGED <<settings, deposits, result, vestedAt, claims, paid, now>>

Deposit(m) ==
    /\ state[m] = "Pending"
    /\ deposits' = [deposits EXCEPT ![m] = @ + 1]
    /\ state' = [state EXCEPT ![m] = IF deposits[m] = 1 THEN "Active" ELSE @]
    /\ UNCHANGED <<settings, stake, referred, override, result, vestedAt, claims, paid, now>>

\* cancel_match: the fee of each deposit goes to the treasury, the rest back.
CancelMatch(m) ==
    /\ state[m] = "Pending"
    /\ LET fee == BasisPoints(stake[m], config.cancelBps)
       IN  paid' = [paid EXCEPT ![m].players = @ + deposits[m] * (stake[m] - fee),
                                ![m].treasury = @ + deposits[m] * fee]
    /\ state' = [state EXCEPT ![m] = "Cancelled"]
    /\ UNCHANGED <<settings, stake, referred, override, deposits, result, vestedAt, claims, now>>

\* settle_result without a dispute period: nothing is paid yet.
SettleResult(m, w) ==
    /\ now <= LastStart
    /\ state[m] = "Active"
    /\ state' = [state EXCEPT ![m] = "Completed"]
    /\ result' = [result EXCEPT ![m] = w]
    /\ vestedAt' = [vestedAt EXCEPT ![m] = now]
    /\ UNCHANGED <<settings, stake, referred, override, deposits, claims, paid, now>>

\* The period that claim_vested_payout waits for.
VestingOver(m) == now >= vestedAt[m] + config.vesting

\* claim_vested_payout by a winner.  A transfer of a negative amount fails, so
\* the fees together must leave something or nothing, never less.
ClaimWin(m) ==
    /\ state[m] = "Completed" /\ result[m] = "Win" /\ claims[m] = 0
    /\ VestingOver(m)
    /\ LET pot == 2 * stake[m]
       IN  /\ NetPayout(m, pot) >= 0
           /\ paid' = [paid EXCEPT ![m].players = @ + NetPayout(m, pot),
                                   ![m].referrer = @ + ReferralFee(m, pot),
                                   ![m].protocol = @ + ProtocolFee(pot)]
    /\ claims' = [claims EXCEPT ![m] = 1]
    /\ UNCHANGED <<settings, state, stake, referred, override, deposits, result, vestedAt, now>>

\* claim_vested_payout of a drawn match, by either side: the stake, no fees.
ClaimDraw(m) ==
    /\ state[m] = "Completed" /\ result[m] = "Draw" /\ claims[m] < 2
    /\ VestingOver(m)
    /\ paid' = [paid EXCEPT ![m].players = @ + stake[m]]
    /\ claims' = [claims EXCEPT ![m] = @ + 1]
    /\ UNCHANGED <<settings, state, stake, referred, override, deposits, result, vestedAt, now>>

Tick ==
    /\ now < MaxNow
    /\ now' = now + 1
    /\ UNCHANGED <<settings, matchVars, paid>>

AdminStep ==
    \/ \E c \in Configs : SetProtocolConfig(c)
    \/ \E n \in Minima : SetMinimumStake(n)
    \/ \E n \in Maxima : SetMaximumStake(n)
    \/ \E b \in Shares : SetReferralShareBps(b) \/ SetDisputeBondBasisPoints(b)
    \/ \E t \in TierLists : SetFeeTiers(t)

MatchStep(m) ==
    \/ \E s \in Stakes, r \in BOOLEAN, o \in Overrides : CreateMatch(m, s, r, o)
    \/ Deposit(m)
    \/ CancelMatch(m)
    \/ \E w \in {"Win", "Draw"} : SettleResult(m, w)
    \/ ClaimWin(m)
    \/ ClaimDraw(m)

Next == AdminStep \/ Tick \/ \E m \in Matches : MatchStep(m)

Spec == Init /\ [][Next]_vars
\* Ledgers keep closing and a winner keeps claiming.
FairSpec == Spec /\ WF_vars(Tick) /\ \A m \in Matches : WF_vars(ClaimWin(m))

(***************************************************************************)
(* Properties.                                                             *)
(***************************************************************************)
Sum(p) == p.players + p.referrer + p.protocol + p.treasury

\* Whatever the admin set between the creation of a match and its end, and
\* however the rounding falls, the pieces paid out of it are never negative
\* and add up to what was put in: neither a fee without a payer nor a
\* remainder left behind (claim_vested_payout, cancel_match).
PiecesAddUp ==
    \A m \in Matches :
        /\ \A k \in DOMAIN NothingPaid : paid[m][k] >= 0
        /\ Sum(paid[m]) =
             CASE state[m] = "Cancelled" -> deposits[m] * stake[m]
               [] result[m] = "Win" -> claims[m] * 2 * stake[m]
               [] OTHER -> claims[m] * stake[m]

\* The referrer is paid from the platform's cut and no more: at most what a
\* cancellation fee of the same pot would be at the largest rate ever accepted,
\* and nothing for a match without a referrer or a draw (compute_referral_fee).
ReferralFromTheCut ==
    \A m \in Matches :
        paid[m].referrer > 0 =>
            /\ referred[m] /\ result[m] = "Win"
            /\ \E c \in Configs : ValidConfig(c)
                 /\ paid[m].referrer <= BasisPoints(2 * stake[m], c.cancelBps)

\* The tightest tier that covers the stake, or the widest when none does.
TightestTier(tiers, s) ==
    LET covering == {u \in Range(tiers) : u.max >= s}
    IN  IF covering = {} THEN CHOOSE t \in Range(tiers) : \A u \in Range(tiers) : u.max <= t.max
        ELSE CHOOSE t \in covering : \A u \in covering : t.max <= u.max

\* For every schedule the setters let in, the first-match scans of
\* compute_tiered_fee and dispute_bond_basis_points_for charge the rate of the
\* tightest tier, and never more than what they charge it on.
TightestTierCharged ==
    \A s \in Stakes :
        /\ TieredFee(s) \in 0..2 * s
        /\ feeTiers # << >> =>
               TieredFee(s) = BasisPoints(2 * s, TightestTier(feeTiers, s).bps)
        /\ config.bondTiers # << >> =>
               DisputeBondBpsFor(s) = TightestTier(config.bondTiers, s).bps

\* The share of a winner is released once the vesting period has elapsed.
WinIsPaid == \A m \in Matches : (result[m] = "Win") ~> (claims[m] = 1)

\* A claim waits for the match's own vesting period when it has one: "When
\* Some, it takes precedence over ProtocolConfig::vesting_duration_seconds".
OverrideHonoured ==
    [][\A m \in Matches : claims'[m] > claims[m] /\ override[m] # NoOverride =>
        now >= vestedAt[m] + override[m]]_vars

\* While fee tiers are set, a winner is charged by them: "matches with a stake
\* up to max_stake are charged fee_basis_points".
TieredFeeCharged ==
    [][\A m \in Matches : result[m] = "Win" /\ claims'[m] > claims[m] =>
        paid'[m].protocol >= TieredFee(stake[m])]_vars
=============================================================================
