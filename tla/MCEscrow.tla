------------------------------ MODULE MCEscrow ------------------------------
(***************************************************************************)
(* The escrow lifecycle for TLC: the properties that sum over matches, and *)
(* the specifications with fairness.                                       *)
(***************************************************************************)
EXTENDS Escrow, Counting, TLC

Symmetry == Permutations(Matches) \cup Permutations(Players)

\* The stakes paid into match m, what it has paid out, and the bond it holds.
Deposits(m) == SumOver([p \in Players |-> stake[m]], deposited[m])

PaidOut(m) == SumOver(paid[m], Players)

OpenBond(m) == IF dispute[m].state = "Active" THEN dispute[m].bond ELSE 0

\* What the contract still owes the players of match m: the stakes of a match
\* that is not over, the unclaimed part of a vested result.
Owed(m) ==
    IF ~Terminal(m) THEN Deposits(m)
    ELSE IF vestedAt[m] = NoLedger THEN 0
    ELSE SumOver(Payout(m, winner[m]), Players \ claimed[m])

\* The stakes player p has in matches that are not over.
Staked(p) == {m \in Matches : p \in deposited[m] /\ ~Terminal(m)}

Escrowed(p) == SumOver(stake, Staked(p))

(***************************************************************************)
(* Safety.                                                                 *)
(***************************************************************************)
\* The contract's balance at the token contract is exactly the deposits not yet
\* paid out plus the bonds of the open disputes: every transfer of every
\* operation is accounted to one match.
Conservation ==
    balance + SumOver([m \in Matches |-> PaidOut(m)], Matches)
        = SumOver([m \in Matches |-> Deposits(m) + OpenBond(m)], Matches)

\* The contract can always pay everybody: refunds, results and claims of all
\* matches together never exceed its balance, so no operation on one match can
\* make a transfer of another one trap.
Solvent == balance >= SumOver([m \in Matches |-> Owed(m)], Matches)

\* PlayerActiveMatchCount, which bounds the matches a player may have in play,
\* always equals the number of index entries.
ActiveCountExact ==
    \A p \in Players :
        /\ activeCount[p] = Cardinality(active[p])
        /\ activeCount[p] <= MaxActive

\* The escrow counter of a player is never below the stakes the player has in
\* matches that are not over (some operations forget to lower it, none lowers it
\* twice).
CounterCovers == \A p \in Players : escrowBal[p] >= Escrowed(p)

\* The matches of player p with a result the oracle recorded, and those of them
\* that p won and drew.
Settled(p) == {m \in Matches : vestedAt[m] # NoLedger /\ p \in Pair(m)}

Won(p) == {m \in Settled(p) : winner[m] # "Draw" /\ p \in Entitled(m, winner[m])}

Drawn(p) == {m \in Settled(p) : winner[m] = "Draw"}

\* Wins, losses and draws are those of the results the oracle recorded, each
\* from its own player's side (the #1519 fix), and never of admin resolutions.
StatsAgree ==
    \A p \in Players :
        /\ stats[p].wins = Cardinality(Won(p))
        /\ stats[p].draws = Cardinality(Drawn(p))
        /\ stats[p].wins + stats[p].losses + stats[p].draws = Cardinality(Settled(p))

\* Without a dispute period, the completed-match counter that opens the stake
\* tiers counts each match the player finished once, draws resolved by the admin
\* left out.
CompletedOnce ==
    \A p \in Players :
        completedCount[p] = Cardinality(
            {m \in Matches : /\ state[m] = "Completed" /\ p \in Pair(m)
                             /\ vestedAt[m] # NoLedger \/ winner[m] # "Draw"})

\* What the contract records of its players besides money agrees with the
\* matches: statistics and completed-match counters (update_player_stats,
\* increment_completed_match_count).
RecordsAgree == StatsAgree /\ CompletedOnce

(***************************************************************************)
(* Progress.                                                               *)
(***************************************************************************)
\* Ledgers close; somebody calls expire_match, which is open to everyone; the
\* admin resolves stalled matches; players claim what is theirs.
FairSpec ==
    /\ Spec /\ WF_vars(Tick)
    /\ \A m \in Matches :
          /\ WF_vars(ExpireMatch(m))
          /\ WF_vars(\E w \in Winner : AdminResolveStalled(m, w))
          /\ WF_vars(\E p \in Players : ClaimVestedPayout(m, p))

\* A match that is never funded does not hold a deposit for ever: whatever the
\* players, a contract pause or a freeze do, it leaves Pending once its timeout
\* is over, unless the token is blacklisted.
PendingEnds ==
    \A m \in Matches :
        state[m] = "Pending" /\ created[m] + matchTimeout <= MaxLedger
            ~> state[m] # "Pending" \/ blacklisted

\* Funds of a match in play are never locked for good: no sequence of pauses,
\* resumes and heartbeats keeps the admin's stall window from opening (the #1516
\* and #1518 fixes).
PlayEnds ==
    \A m \in Matches :
        InPlay(m) /\ activatedAt[m] + StallWindow < MaxLedger
              /\ activatedAt[m] + MaxPause < MaxLedger
            ~> ~InPlay(m)

\* No stake stays locked: a match leaves Pending, and it leaves play
\* (expire_match, admin_resolve_stalled).
MatchesEnd == PendingEnds /\ PlayEnds

\* Everybody a vested result pays is paid in the end, also while the contract is
\* paused or the player frozen.
VestedIsPaid ==
    \A m \in Matches :
        state[m] = "Completed" /\ vestedAt[m] # NoLedger
              /\ vestedAt[m] + Vesting <= MaxLedger
            ~> claimed[m] = Entitled(m, winner[m])

(***************************************************************************)
(* What the repository's documents and comments say of the lifecycle and   *)
(* the code does not do.  AtMostOneRelease and PendingResultEnds have runs *)
(* that refute them; the others can be given to TLC in the same way.       *)
(***************************************************************************)
\* docs/formal-spec.md INV-1: the pot of a match is released once, whether by
\* claim_vested_payout or inside finalize_match or resolve_dispute_by_vote.
AtMostOneRelease == \A m \in Matches : PaidOut(m) <= Deposits(m)

\* docs/dispute-governance.md: when a dispute is overturned both players receive
\* their full stake back, and neither receives more.
OverturnedIsADraw ==
    \A m \in Matches :
        dispute[m].state = "Overturned"
            => \A p \in Pair(m) : paid[m][p] = stake[m]

\* The doc of PlayerEscrowKey: the counter is the sum of the player's stakes in
\* matches that are not over.
CounterExact == \A p \in Players : escrowBal[p] = Escrowed(p)

\* The doc of record_completed_match: the counter goes up once for a match, when
\* it transitions to Completed.
CountedOncePerMatch ==
    \A p \in Players :
        completedCount[p]
            <= Cardinality({m \in Matches : winner[m] # "None" /\ p \in Pair(m)})

\* The doc of paused_at_ledger: resume_match and admin_resolve_stalled_match
\* enforce the maximum pause duration.
PauseBudgetKept == \A m \in Matches : totalPause[m] <= MaxPause

\* is_valid_transition in state_machine.rs, the table through which lib.rs is
\* said to move every match.
ValidTransition ==
    {<<"Pending", "Active">>, <<"Pending", "Cancelled">>,
     <<"Active", "PendingResult">>, <<"Active", "Cancelled">>,
     <<"Active", "Paused">>, <<"Paused", "Active">>,
     <<"Paused", "Cancelled">>, <<"Paused", "PendingResult">>,
     <<"Paused", "Completed">>, <<"PendingResult", "Completed">>,
     <<"PendingResult", "Cancelled">>}

\* state_machine.rs: a match only moves along the transition table.
TransitionsInTable ==
    [][\A m \in Matches :
          state[m] \notin {"Unused", state'[m]}
              => <<state[m], state'[m]>> \in ValidTransition]_vars

\* Anyone may finalize a match or resolve its dispute, and ledgers close.
DisputeFairSpec ==
    /\ Spec /\ WF_vars(Tick)
    /\ \A m \in Matches :
          WF_vars(FinalizeMatch(m)) /\ WF_vars(ResolveDispute(m))

\* docs/match-lifecycle.md: when a dispute reaches no quorum the original result
\* is upheld, so a pending result is always paid in the end.
PendingResultEnds ==
    \A m \in Matches :
        state[m] = "PendingResult" /\ deadline[m] + VotingPeriod <= MaxLedger
            ~> state[m] = "Completed"
=============================================================================
