----------------------------- MODULE Conversion -----------------------------
(***************************************************************************)
(* Matches over two tokens: the escrow contract collects every deposit in  *)
(* the first token, owes player 2 in the second, and buys that token from  *)
(* the oracle contract's pool at a stored rate (set_rate, swap).  This     *)
(* module keeps the two contracts' holdings per token; the rest of a       *)
(* match's life, single token, is in Escrow.                               *)
(*                                                                         *)
(* Player 1 and player 2 of a match are its sides 1 and 2.  Fees are cut   *)
(* from a share on its way out and are in Fees; a rollback stands for the  *)
(* second of its two votes.                                                *)
(***************************************************************************)
EXTENDS Integers, FiniteSets, FiniteSetsExt

CONSTANTS
    Matches,        \* match ids
    Kinds,          \* kinds of matches made: "conv", or a single token
    Stake,          \* stake_amount of every match
    Rates,          \* rates the admin may store and a match may agree on
    Scale,          \* fixed-point unit of a rate (10_000_000 in the code)
    Pool,           \* the oracle contract's initial holdings per token
    Pairs,          \* ordered pairs the admin stores rates for
    SwapAmounts,    \* what outsiders swap
    PoolLimit,      \* bound on what outsiders bring into the pool
    Preferences,    \* payout tokens the players choose
    DisputePeriod,  \* 0: results vest; otherwise results are finalised
    Vesting,        \* ledgers from the result to the claim
    Timeout,        \* ledgers until a pending match may expire
    MatchRateAge,   \* 1000 in execute_payout and claim_vested_payout
    MaxRateAge,     \* MAX_RATE_AGE_LEDGERS of the oracle contract
    StalledToo,     \* whether the admin resolves stalled matches
    LastStart,      \* bound on when a match is made or its result comes
    MaxNow          \* bound of the clock

VARIABLES
    state, token, conv, created, deposited, winner, vestedAt, claimed,
                 \* the match: conv is its conversion_rate (0: None) and
                 \* created also its conversion_rate_ledger
    preferred,   \* PlayerPreferredToken of the two sides, "none" when unset
    quotes,      \* the oracle contract's RateEntry per ordered pair
    holds,       \* the escrow contract's balance per token
    pool,        \* the oracle contract's balance per token
    left,        \* history: what left the escrow for a side, per token
    got,         \* history: what a side received, per token
    now

matchVars == <<state, token, conv, created, deposited, winner, vestedAt, claimed>>
vars == <<matchVars, preferred, quotes, holds, pool, left, got, now>>

Tokens == {"A", "B"}
Sides == {1, 2}
Winner == {"None", "Player1", "Player2", "Draw"}
NoQuote == [rate |-> 0, at |-> 0]
NoTime == -1
Nothing == [t \in Tokens |-> 0]
Of(t, n) == [u \in Tokens |-> IF u = t THEN n ELSE 0]

IsMultiToken(m) == conv[m] > 0
PotOf(m) == 2 * Stake
\* What n units of the first token are worth at the match's own rate.
AtMatchRate(m, n) == (n * conv[m]) \div Scale

Init ==
    /\ state = [m \in Matches |-> "Unused"]
    /\ token = [m \in Matches |-> "A"]
    /\ conv = [m \in Matches |-> 0]
    /\ created = [m \in Matches |-> 0]
    /\ deposited = [m \in Matches |-> {}]
    /\ winner = [m \in Matches |-> "None"]
    /\ vestedAt = [m \in Matches |-> NoTime]
    /\ claimed = [m \in Matches |-> {}]
    /\ preferred = [i \in Sides |-> "none"]
    /\ quotes = [p \in Tokens \X Tokens |-> NoQuote]
    /\ holds = Nothing
    /\ pool = [t \in Tokens |-> Pool]
    /\ left = [m \in Matches |-> [i \in Sides |-> Nothing]]
    /\ got = [m \in Matches |-> [i \in Sides |-> Nothing]]
    /\ now = 0

(***************************************************************************)
(* The oracle contract's exchange.                                         *)
(***************************************************************************)
\* set_rate, by the admin.
SetRate(x, y, r) ==
    /\ quotes' = [quotes EXCEPT ![<<x, y>>] = [rate |-> r, at |-> now]]
    /\ UNCHANGED <<matchVars, preferred, holds, pool, left, got, now>>

Fresh(q) == now - q.at <= MaxRateAge

\* What swap gives in y for n units of x: the rate stored for the pair, or
\* else the one stored for the reversed pair, rounded down.
Quoted(x, y, n) ==
    IF quotes[<<x, y>>] # NoQuote THEN (n * quotes[<<x, y>>].rate) \div Scale
    ELSE (n * Scale) \div quotes[<<y, x>>].rate

\* swap goes through: a fresh rate, the slippage bound, and enough in the pool.
SwapAccepts(x, y, n, least) ==
    LET q == IF quotes[<<x, y>>] # NoQuote THEN quotes[<<x, y>>] ELSE quotes[<<y, x>>]
    IN  /\ n > 0 /\ q # NoQuote /\ Fresh(q)
        /\ Quoted(x, y, n) >= least
        /\ Quoted(x, y, n) <= pool[y]

\* The pool takes n of x in and gives the quoted amount of y.
Swapped(x, y, n) == [pool EXCEPT ![x] = @ + n, ![y] = @ - Quoted(x, y, n)]

\* swap, called by an outsider who asks for no minimum.
Swap(x, y, n) ==
    /\ x # y /\ pool[x] + n <= PoolLimit
    /\ SwapAccepts(x, y, n, 0)
    /\ pool' = Swapped(x, y, n)
    /\ UNCHANGED <<matchVars, preferred, quotes, holds, left, got, now>>

(***************************************************************************)
(* The life of a match.                                                    *)
(***************************************************************************)
\* Within five per cent of the oracle contract's rate, whatever its age.
WithinTolerance(r) ==
    LET o == quotes[<<"A", "B">>].rate
    IN  o > 0 /\ r * 100 >= o * 95 /\ r * 100 <= o * 105

\* create_match (single token) and create_match_with_conversion.
CreateMatch(m, k, r) ==
    /\ now <= LastStart
    /\ state[m] = "Unused"
    /\ \/ k = "conv" /\ WithinTolerance(r) /\ conv' = [conv EXCEPT ![m] = r]
       \/ k # "conv" /\ UNCHANGED conv
    /\ state' = [state EXCEPT ![m] = "Pending"]
    /\ token' = [token EXCEPT ![m] = IF k = "conv" THEN "A" ELSE k]
    /\ created' = [created EXCEPT ![m] = now]
    /\ UNCHANGED <<deposited, winner, vestedAt, claimed, preferred, quotes,
                   holds, pool, left, got, now>>

\* set_preferred_payout_token.
SetPreferredPayoutToken(i, t) ==
    /\ preferred' = [preferred EXCEPT ![i] = t]
    /\ UNCHANGED <<matchVars, quotes, holds, pool, left, got, now>>

\* deposit: either side pays the stake in the first token.
Deposit(m, i) ==
    /\ state[m] = "Pending" /\ i \notin deposited[m]
    /\ deposited' = [deposited EXCEPT ![m] = @ \cup {i}]
    /\ holds' = [holds EXCEPT ![token[m]] = @ + Stake]
    /\ state' = [state EXCEPT ![m] = IF deposited[m] = {} THEN @ ELSE "Active"]
    /\ UNCHANGED <<token, conv, created, winner, vestedAt, claimed, preferred,
                   quotes, pool, left, got, now>>

\* The transfers out[i] to the sides of m, from the escrow's own balance: all
\* of them, or the call reverts.
Transfer(m, out) ==
    /\ \A t \in Tokens : out[1][t] + out[2][t] <= holds[t]
    /\ holds' = [t \in Tokens |-> holds[t] - out[1][t] - out[2][t]]
    /\ left' = [left EXCEPT ![m] = [i \in Sides |-> [t \in Tokens |-> @[i][t] + out[i][t]]]]
    /\ got' = [got EXCEPT ![m] = [i \in Sides |-> [t \in Tokens |-> @[i][t] + out[i][t]]]]
    /\ UNCHANGED pool

\* The refund of the sides S: player 1 in the first token, player 2 of a
\* conversion match in the second.
Refunds(m, S) ==
    [i \in Sides |-> IF i \notin S THEN Nothing
                     ELSE IF i = 2 /\ IsMultiToken(m) THEN Of("B", AtMatchRate(m, Stake))
                     ELSE Of(token[m], Stake)]

EndAs(m, s) == state' = [state EXCEPT ![m] = s]

\* cancel_match.
CancelMatch(m) ==
    /\ state[m] = "Pending"
    /\ Transfer(m, Refunds(m, deposited[m]))
    /\ EndAs(m, "Cancelled")
    /\ UNCHANGED <<token, conv, created, deposited, winner, vestedAt, claimed,
                   preferred, quotes, now>>

\* expire_match, by anyone.
ExpireMatch(m) ==
    /\ state[m] = "Pending"
    /\ now - created[m] >= Timeout
    /\ Transfer(m, Refunds(m, deposited[m]))
    /\ EndAs(m, "Cancelled")
    /\ UNCHANGED <<token, conv, created, deposited, winner, vestedAt, claimed,
                   preferred, quotes, now>>

\* admin_recover_match: the refunds that go through, R, may be any of them.
AdminRecoverMatch(m, R) ==
    /\ state[m] = "Pending"
    /\ now - created[m] >= Timeout
    /\ R \subseteq deposited[m]
    /\ Transfer(m, Refunds(m, R))
    /\ EndAs(m, "Cancelled")
    /\ UNCHANGED <<token, conv, created, deposited, winner, vestedAt, claimed,
                   preferred, quotes, now>>

\* dispute_and_rollback_match, the second vote.
DisputeAndRollback(m) ==
    /\ state[m] = "Active"
    /\ Transfer(m, Refunds(m, deposited[m]))
    /\ EndAs(m, "Cancelled")
    /\ UNCHANGED <<token, conv, created, deposited, winner, vestedAt, claimed,
                   preferred, quotes, now>>

\* What admin_resolve_stalled_match calls the full pot.
StalledPot(m) == IF IsMultiToken(m) THEN Stake + AtMatchRate(m, Stake) ELSE PotOf(m)

\* admin_resolve_stalled_match.
AdminResolveStalled(m, w) ==
    /\ StalledToo
    /\ state[m] = "Active"
    /\ w # "None"
    /\ LET second == IF IsMultiToken(m) THEN "B" ELSE token[m]
       IN  \/ w = "Player1" /\ Transfer(m, <<Of(token[m], StalledPot(m)), Nothing>>)
           \/ w = "Player2" /\ Transfer(m, <<Nothing, Of(second, StalledPot(m))>>)
           \/ w = "Draw" /\ Transfer(m, Refunds(m, Sides))
    /\ EndAs(m, "Completed")
    /\ winner' = [winner EXCEPT ![m] = w]
    /\ UNCHANGED <<token, conv, created, deposited, vestedAt, claimed, preferred,
                   quotes, now>>

\* submit_result and submit_draw.
SubmitResult(m, w) ==
    /\ now <= LastStart
    /\ state[m] = "Active"
    /\ w # "None"
    /\ EndAs(m, IF DisputePeriod = 0 THEN "Completed" ELSE "PendingResult")
    /\ winner' = [winner EXCEPT ![m] = w]
    /\ vestedAt' = [vestedAt EXCEPT ![m] = now]
    /\ UNCHANGED <<token, conv, created, deposited, claimed, preferred, quotes,
                   holds, pool, left, got, now>>

\* Altered for mutation: the age of the match's rate is not looked at.
RateStillGoodAtAnyAge(m) == TRUE

\* A conversion match pays only while its own rate is young.
RateStillGood(m) == IsMultiToken(m) => now - created[m] <= MatchRateAge

\* oracle_swap: n of the first token buys the second for side i, for at least
\* the match's own rate, paid by the pool straight to the player.
OracleSwap(m, i, n, spent) ==
    /\ SwapAccepts("A", "B", n, AtMatchRate(m, n))
    /\ pool' = Swapped("A", "B", n)
    /\ spent + n <= holds["A"]
    /\ holds' = [holds EXCEPT !["A"] = @ - spent - n]
    /\ left' = [left EXCEPT ![m][i]["A"] = @ + n, ![m][3 - i]["A"] = @ + spent]
    /\ got' = [got EXCEPT ![m][i]["B"] = @ + Quoted("A", "B", n),
                          ![m][3 - i]["A"] = @ + spent]

\* execute_payout: side 2 of a conversion match is paid in the second token.
ExecutePayout(m, w) ==
    /\ RateStillGood(m)
    /\ \/ w = "Player1" /\ Transfer(m, <<Of(token[m], PotOf(m)), Nothing>>)
       \/ /\ w = "Player2"
          /\ \/ IsMultiToken(m) /\ OracleSwap(m, 2, PotOf(m), 0)
             \/ ~IsMultiToken(m) /\ Transfer(m, <<Nothing, Of(token[m], PotOf(m))>>)
       \/ /\ w = "Draw"
          /\ \/ IsMultiToken(m) /\ OracleSwap(m, 2, Stake, Stake)
             \/ ~IsMultiToken(m) /\ Transfer(m, Refunds(m, Sides))

\* finalize_match, undisputed.
FinalizeMatch(m) ==
    /\ state[m] = "PendingResult"
    /\ now >= vestedAt[m] + DisputePeriod
    /\ ExecutePayout(m, winner[m])
    /\ EndAs(m, "Completed")
    /\ UNCHANGED <<token, conv, created, deposited, winner, vestedAt, claimed,
                   preferred, quotes, now>>

\* The sides a result gives something to, and how much of the first token.
Entitled(w) == CASE w = "Player1" -> {1} [] w = "Player2" -> {2}
                 [] w = "Draw" -> Sides [] OTHER -> {}
Share(m, w) == IF w = "Draw" THEN Stake ELSE PotOf(m)

\* claim_vested_payout: a winner who prefers the match's second token gets it
\* from the pool; a draw is always refunded in the first.
ClaimVestedPayout(m, i) ==
    /\ state[m] = "Completed"
    /\ vestedAt[m] # NoTime /\ now >= vestedAt[m] + Vesting
    /\ RateStillGood(m)
    /\ i \in Entitled(winner[m]) \ claimed[m]
    /\ LET swaps == winner[m] # "Draw" /\ IsMultiToken(m) /\ preferred[i] = "B"
       IN  \/ swaps /\ OracleSwap(m, i, PotOf(m), 0)
           \/ ~swaps /\ Transfer(m, [j \in Sides |-> IF j = i
                                     THEN Of(token[m], Share(m, winner[m])) ELSE Nothing])
    /\ claimed' = [claimed EXCEPT ![m] = @ \cup {i}]
    /\ UNCHANGED <<state, token, conv, created, deposited, winner, vestedAt,
                   preferred, quotes, now>>

Tick ==
    /\ now < MaxNow
    /\ now' = now + 1
    /\ UNCHANGED <<matchVars, preferred, quotes, holds, pool, left, got>>

MatchStep(m) ==
    \/ \E k \in Kinds, r \in Rates : CreateMatch(m, k, r)
    \/ \E i \in Sides : Deposit(m, i)
    \/ CancelMatch(m)
    \/ ExpireMatch(m)
    \/ \E R \in SUBSET Sides : AdminRecoverMatch(m, R)
    \/ DisputeAndRollback(m)
    \/ \E w \in Winner : AdminResolveStalled(m, w)
    \/ \E w \in Winner : SubmitResult(m, w)
    \/ FinalizeMatch(m)
    \/ \E i \in Sides : ClaimVestedPayout(m, i)

Next ==
    \/ \E m \in Matches : MatchStep(m)
    \/ \E p \in Pairs, r \in Rates : SetRate(p[1], p[2], r)
    \/ \E x, y \in Tokens, n \in SwapAmounts : Swap(x, y, n)
    \/ \E i \in Sides, t \in Preferences : SetPreferredPayoutToken(i, t)
    \/ Tick

Spec == Init /\ [][Next]_vars
\* Ledgers keep closing, anyone may expire a match, and a player who has won
\* goes on claiming.
FairSpec ==
    /\ Spec
    /\ WF_vars(Tick)
    /\ \A m \in Matches : WF_vars(ExpireMatch(m))
    /\ \A m \in Matches, i \in Sides : WF_vars(ClaimVestedPayout(m, i))

(***************************************************************************)
(* Properties.                                                             *)
(***************************************************************************)
\* Every variable has its type; no balance is negative.
TypeOK ==
    /\ state \in [Matches -> {"Unused", "Pending", "Active", "PendingResult",
                              "Completed", "Cancelled"}]
    /\ token \in [Matches -> Tokens]
    /\ conv \in [Matches -> Rates \cup {0}]
    /\ created \in [Matches -> Nat] /\ vestedAt \in [Matches -> Nat \cup {NoTime}]
    /\ deposited \in [Matches -> SUBSET Sides] /\ claimed \in [Matches -> SUBSET Sides]
    /\ winner \in [Matches -> Winner]
    /\ preferred \in [Sides -> Tokens \cup {"none"}]
    /\ quotes \in [Tokens \X Tokens -> [rate : Rates \cup {0}, at : Nat]]
    /\ holds \in [Tokens -> Nat] /\ pool \in [Tokens -> Nat]
    /\ left \in [Matches -> [Sides -> [Tokens -> Nat]]]
    /\ got \in [Matches -> [Sides -> [Tokens -> Nat]]]
    /\ now \in 0..MaxNow

\* What the escrow must still be able to pay out of a match, in its first token.
Held(m) ==
    CASE state[m] \in {"Pending", "Active", "PendingResult"} -> Stake * Cardinality(deposited[m])
      [] state[m] = "Completed" /\ vestedAt[m] # NoTime ->
            Share(m, winner[m]) * Cardinality(Entitled(winner[m]) \ claimed[m])
      [] OTHER -> 0

\* While no match is made in the second token and results vest, the escrow
\* holds in the first token all that its matches may still take out, and
\* nothing of the second: what it pays in the second token comes from the
\* oracle contract's pool (the comment above oracle_swap).
BackedInKind ==
    /\ holds["A"] >= MapThenSumSet(Held, Matches)
    /\ holds["B"] = 0

\* A player paid through the oracle contract gets at least what the match's
\* own rate promised for what was taken from the escrow, however the stored
\* rate moved in between (min_amount_out of oracle_swap, checked in swap).
RatePromiseKept ==
    \A m \in Matches, i \in Sides :
        got[m][i]["B"] > left[m][i]["B"] =>
            got[m][i]["B"] - left[m][i]["B"]
                >= AtMatchRate(m, left[m][i]["A"] - got[m][i]["A"])

\* A payout through the pool never uses a match rate or a stored rate past its
\* age limit, however late the result or the claim arrives (execute_payout,
\* claim_vested_payout and swap each check an age of their own).
FreshPayout ==
    \A m \in Matches, i \in Sides :
        got'[m][i]["B"] - got[m][i]["B"] > left'[m][i]["B"] - left[m][i]["B"] =>
            now - created[m] <= MatchRateAge /\ Fresh(quotes[<<"A", "B">>])

\* While only one direction of the pair has a rate, no sequence of swaps, with
\* the rounding of both directions, lowers the pool's worth at that rate
\* (swap multiplies by the forward rate and divides by the reverse one).
PoolKeepsItsWorth ==
    [][\A x, y \in Tokens :
        (/\ x # y
         /\ quotes[<<x, y>>] # NoQuote /\ quotes[<<y, x>>] = NoQuote
         /\ quotes' = quotes) =>
            pool'[x] * quotes[<<x, y>>].rate + pool'[y] * Scale
                >= pool[x] * quotes[<<x, y>>].rate + pool[y] * Scale]_vars

\* A cancelled match gave each side back in the token it had deposited: "so
\* that a rollback preserves the original stake denomination for each side".
RefundedInKind ==
    \A m \in Matches : state[m] = "Cancelled" =>
        \A i \in Sides, t \in Tokens \ {token[m]} : left[m][i][t] = 0

\* A stalled match pays "the full pot": what the two sides had deposited.
StalledPaysThePot ==
    \A m \in Matches : state[m] = "Completed" /\ vestedAt[m] = NoTime =>
        left[m][1][token[m]] + left[m][2][token[m]] = PotOf(m)

\* A pending match does not stay pending for ever: expire_match is open to
\* anyone and "refunds the depositor".
PendingEnds == \A m \in Matches : (state[m] = "Pending") ~> (state[m] # "Pending")

\* A winner's share is released once the vesting period has elapsed.
VestedIsPaid ==
    \A m \in Matches, i \in Sides :
        (state[m] = "Completed" /\ vestedAt[m] # NoTime /\ i \in Entitled(winner[m]))
            ~> (i \in claimed[m])
=============================================================================
