--------------------------- MODULE MCEscrowParts ---------------------------
(***************************************************************************)
(* EscrowParts for TLC, with two more parts: Conversion, in two scenarios, *)
(* results that vest, two matches and payouts in a preferred token         *)
(* ("vested"), and results that are finalised after a dispute period, with *)
(* outsiders that use the exchange ("final"); and Snapshots.  A step of    *)
(* one of these two leaves EscrowParts alone, so that a behaviour here is  *)
(* a behaviour of EscrowParts.                                             *)
(***************************************************************************)
EXTENDS EscrowParts, Snapshots

VARIABLES
    cState, token, conv, created, cDeposited, cWinner, cVestedAt, claimed, preferred,
    quotes, holds, pool, left, got, cNow                       \* Conversion

convVars == <<cState, token, conv, created, cDeposited, cWinner, cVestedAt, claimed,
              preferred, quotes, holds, pool, left, got, cNow>>
allVars == <<vars, convVars, ringVars>>

V == INSTANCE Conversion WITH
    state <- cState, deposited <- cDeposited, winner <- cWinner, vestedAt <- cVestedAt,
    now <- cNow, Matches <- {1, 2}, Kinds <- {"conv", "A"}, Stake <- 10,
    Rates <- {20, 21}, Scale <- 10, Pool <- 45, Pairs <- {<<"A", "B">>},
    PoolLimit <- 36, SwapAmounts <- {}, Preferences <- {"B"}, DisputePeriod <- 0,
    Vesting <- 1, Timeout <- 2, MatchRateAge <- 1, MaxRateAge <- 1, StalledToo <- FALSE,
    LastStart <- 0, MaxNow <- 2
F == INSTANCE Conversion WITH
    state <- cState, deposited <- cDeposited, winner <- cWinner, vestedAt <- cVestedAt,
    now <- cNow, Matches <- {1}, Kinds <- {"conv"}, Stake <- 5,
    Rates <- {20, 21}, Scale <- 10, Pool <- 24, Pairs <- {<<"A", "B">>, <<"B", "A">>},
    PoolLimit <- 27, SwapAmounts <- {3}, Preferences <- {}, DisputePeriod <- 1,
    Vesting <- 1, Timeout <- 2, MatchRateAge <- 1, MaxRateAge <- 1, StalledToo <- TRUE,
    LastStart <- 0, MaxNow <- 2

MaxSnapshots == 6   \* bound on the snapshots of both matches together

-----------------------------------------------------------------------------
MCInit ==
    /\ component \in {"batch", "vested", "final", "fees", "snapshots", "governance",
                      "rotation", "consensus", "lists"}
    /\ Init
    /\ \/ component # "final" /\ V!Init
       \/ component = "final" /\ F!Init
    /\ RingsInit

MCNext ==
    \/ Next /\ UNCHANGED <<convVars, ringVars>>
    \/ /\ \/ component = "vested" /\ V!Next
          \/ component = "final" /\ F!Next
       /\ UNCHANGED <<vars, ringVars>>
    \/ /\ component = "snapshots" /\ RingsNext
       /\ mcount'["m1"] + mcount'["m2"] <= MaxSnapshots
       /\ UNCHANGED <<vars, convVars>>

MCSpec == MCInit /\ [][MCNext]_allVars

-----------------------------------------------------------------------------
(* Values for TLC.                                                         *)

\* Three matches, every two of them with a player in common.
P1(m) == CASE m = "m1" -> "p1" [] m = "m2" -> "p2" [] m = "m3" -> "p1"
P2(m) == CASE m = "m1" -> "p2" [] m = "m2" -> "p3" [] m = "m3" -> "p3"

\* Configurations that are accepted, and three that are not: too high a rate,
\* the contract as treasury, and a maximum stake below the minimum.
Base ==
    [protocolBps |-> 0, cancelBps |-> 0, cap |-> 0, vesting |-> 1,
     treasury |-> "treasury", recipient |-> "treasury", minStake |-> 1, maxStake |-> 0,
     bondTiers |-> << >>]
Low == <<[max |-> 10, bps |-> 300], [max |-> 100, bps |-> 150]>>
Unordered == <<[max |-> 100, bps |-> 150], [max |-> 10, bps |-> 300]>>
AnyConfigs ==
    {[Base EXCEPT !.protocolBps = 333, !.cancelBps = 777, !.bondTiers = Low],
     [Base EXCEPT !.protocolBps = 2500, !.cancelBps = 1500, !.cap = 4],
     [Base EXCEPT !.protocolBps = 10001],
     [Base EXCEPT !.treasury = "contract"],
     [Base EXCEPT !.minStake = 9, !.maxStake = 7]}
AnyTiers == {<< >>, Low, Unordered}
NoOverrides == {-1}
AnyMaxima == {-1, 0, 50}

-----------------------------------------------------------------------------
\* Conversion: while no match is made in the second token and results vest, the
\* escrow holds in the first token all that its matches may still take out; a
\* player paid through the oracle contract gets at least what the match's own
\* rate promised (min_amount_out of oracle_swap); a payout through the pool
\* never uses a match rate or a stored rate past its age limit (execute_payout,
\* claim_vested_payout); no sequence of swaps lowers the pool's worth at the
\* stored rate (the rounding of both directions of swap).
ConversionSound ==
    /\ [](component = "vested" => V!TypeOK /\ V!BackedInKind /\ V!RatePromiseKept)
    /\ [](component = "final" => F!TypeOK /\ F!RatePromiseKept)
    /\ [][/\ component = "vested" => V!FreshPayout
          /\ component = "final" => F!FreshPayout]_allVars
    /\ F!PoolKeepsItsWorth
=============================================================================
