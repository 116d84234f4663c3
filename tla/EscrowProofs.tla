---------------------------- MODULE EscrowProofs ----------------------------
(***************************************************************************)
(* The safety of the escrow lifecycle, for every set of matches and        *)
(* players and every value of the other constants.  One inductive          *)
(* invariant, a conjunction of four per-match parts, gives the safety      *)
(* invariants that speak of one match at a time.  The second half is about *)
(* the money and the records over all matches and players: what a sum or a *)
(* cardinality over them is after a step, which the frame lemma says       *)
(* touches one match.                                                      *)
(***************************************************************************)
EXTENDS MCEscrow, TLAPS

-----------------------------------------------------------------------------
(***************************************************************************)
(* Type correctness.                                                       *)
(***************************************************************************)
\* The players of an allocated match are two different addresses and its stake
\* is positive.
PartiesOK ==
    \A m \in Matches :
        state[m] # "Unused"
            => /\ p1[m] \in Players /\ p2[m] \in Players /\ p1[m] # p2[m]
               /\ stake[m] > 0

TInv == TypeOK /\ PartiesOK

(***************************************************************************)
(* Types of the helpers.                                                   *)
(***************************************************************************)
\* record_player_snapshot keeps a player's ring a sequence of snapshots.
LEMMA SnapshottedType ==
    ASSUME PlayerTypes, ConfigTypes, NEW S, NEW bal \in [Players -> Int]
    PROVE  Snapshotted(S, bal)
               \in [Players -> Seq([ledger : Nat, balance : Int])]
<1> DEFINE Snap == [ledger : Nat, balance : Int]
<1> SUFFICES ASSUME NEW p \in Players, p \in S
             PROVE  Snapshotted(S, bal)[p] \in Seq(Snap)
    BY Zenon DEF Snapshotted, PlayerTypes
<1>1. [ledger |-> now, balance |-> bal[p]] \in Snap
    BY Zenon DEF ConfigTypes
<1>2. snaps[p] \in Seq(Snap)
    BY Zenon DEF PlayerTypes
<1>3. CASE Len(snaps[p]) < MaxSnapshots
    BY <1>1, <1>2, <1>3 DEF Snapshotted
<1>4. CASE ~(Len(snaps[p]) < MaxSnapshots)
    <2>1. Tail(snaps[p]) \in Seq(Snap)
        BY <1>2, <1>4, LimitsAssumption
    <2> QED
        BY SMTT(30), <1>1, <2>1, <1>4 DEF Snapshotted
<1> QED
    BY Zenon, <1>3, <1>4

\* update_player_escrow_balance keeps the counters integers.
LEMMA DebitedType ==
    ASSUME PlayerTypes, MatchTypes, NEW m \in Matches, NEW S
    PROVE  Debited(m, S) \in [Players -> Int]
    BY DEF Debited, PlayerTypes, MatchTypes

\* Indexing and unindexing a match keep the index and the counter typed.
LEMMA IndexTypes ==
    ASSUME PlayerTypes, NEW m \in Matches, Index(m) \/ Unindex(m)
    PROVE  /\ active' \in [Players -> SUBSET Matches]
           /\ activeCount' \in [Players -> Nat]
<1>1. CASE Index(m)
    BY <1>1 DEF PlayerTypes, Index
<1>2. CASE Unindex(m)
    <2>1. active' \in [Players -> SUBSET Matches]
        BY Zenon, <1>2 DEF PlayerTypes, Unindex
    <2>2. activeCount' \in [Players -> Nat]
        BY <1>2 DEF PlayerTypes, Unindex
    <2> QED
        BY Zenon, <2>1, <2>2
<1> QED
    BY Zenon, <1>1, <1>2

\* So do the completed-match counters and the win/loss statistics.
LEMMA CountCompletedType ==
    ASSUME PlayerTypes, NEW m \in Matches, CountCompleted(m)
    PROVE  completedCount' \in [Players -> Nat]
    BY DEF PlayerTypes, CountCompleted

\* update_player_stats keeps a player's statistics a record of three counters.
LEMMA TallyType ==
    ASSUME NEW st \in [wins : Nat, losses : Nat, draws : Nat], NEW seat, NEW w
    PROVE  Tally(st, seat, w) \in [wins : Nat, losses : Nat, draws : Nat]
    BY DEF Tally

\* update_player_stats keeps the statistics of all players typed.
LEMMA RecordStatsType ==
    ASSUME PlayerTypes, NEW m \in Matches, NEW w, RecordStats(m, w)
    PROVE  stats' \in [Players -> [wins : Nat, losses : Nat, draws : Nat]]
    BY Zenon, TallyType DEF PlayerTypes, RecordStats

\* A refund and a payout are natural numbers for every player.
LEMMA ShareTypes ==
    ASSUME MatchTypes, NEW m \in Matches
    PROVE  /\ \A S : Refund(m, S) \in [Players -> Nat]
           /\ \A w : Payout(m, w) \in [Players -> Nat]
    BY DEF MatchTypes, Refund, Payout, Pot

\* Paying a share of an allocated match leaves a balance that is not negative.
LEMMA PayTypes ==
    ASSUME TInv, NEW m \in Matches, state[m] # "Unused",
           NEW share \in [Players -> Nat], Pay(m, share)
    PROVE  TokenTypes'
    BY DEF TInv, TypeOK, TokenTypes, PartiesOK, Pay, Total

(***************************************************************************)
(* Every action keeps the types.                                           *)
(***************************************************************************)
\* create_match keeps every record typed and the parties well-formed.
LEMMA CreateMatchTInv ==
    ASSUME TInv, NEW m \in Matches, NEW a \in Players, NEW b \in Players,
           NEW s \in Stakes, CreateMatch(m, a, b, s)
    PROVE  TInv'
<1>1. MatchTypes'
    BY Zenon, StakesAssumption DEF TInv, TypeOK, CreateMatch, MatchTypes,
        ConfigTypes, MatchState, Winner, parties
<1>2. PlayTypes'
    BY Zenon DEF TInv, TypeOK, CreateMatch, PlayTypes, ConfigTypes, Ledger,
        pauseVars, resultVars
<1>3. PlayerTypes'
    BY Zenon DEF TInv, TypeOK, CreateMatch, PlayerTypes, indexVars
<1>4. ConfigTypes'
    BY Zenon DEF TInv, TypeOK, CreateMatch, ConfigTypes, config
<1>5. TokenTypes'
    BY Zenon DEF TInv, TypeOK, CreateMatch, TokenTypes, MatchTypes
<1>6. dispute' \in [Matches -> DisputeRecord]
    BY Zenon DEF TInv, TypeOK, CreateMatch
<1>7. PartiesOK'
    BY StakesAssumption DEF TInv, TypeOK, CreateMatch, PartiesOK, MatchTypes,
        parties
<1> QED
    BY Zenon, <1>1, <1>2, <1>3, <1>4, <1>5, <1>6, <1>7 DEF TInv, TypeOK

\* deposit keeps every record typed and the parties well-formed.
LEMMA DepositTInv ==
    ASSUME TInv, NEW m \in Matches, NEW p \in Players, Deposit(m, p)
    PROVE  TInv'
<1>1. MatchTypes'
    BY Zenon DEF TInv, TypeOK, Deposit, MatchTypes, ConfigTypes, MatchState, Winner,
        parties
<1>2. PlayTypes'
    BY Zenon DEF TInv, TypeOK, Deposit, PlayTypes, ConfigTypes, Ledger, pauseVars,
        resultVars
<1>3. PlayerTypes'
    <2>1. escrowBal' \in [Players -> Int]
        BY DEF TInv, TypeOK, Deposit, PlayerTypes, MatchTypes
    <2>2. snaps' \in [Players -> Seq([ledger : Nat, balance : Int])]
        BY Zenon, <2>1, SnapshottedType DEF TInv, TypeOK, Deposit
    <2>3. /\ active' \in [Players -> SUBSET Matches]
          /\ activeCount' \in [Players -> Nat]
        BY Zenon, IndexTypes DEF TInv, TypeOK, Deposit, PlayerTypes, indexVars
    <2> QED
        BY Zenon, <2>1, <2>2, <2>3 DEF TInv, TypeOK, Deposit, PlayerTypes
<1>4. ConfigTypes'
    BY Zenon DEF TInv, TypeOK, Deposit, ConfigTypes, config
<1>5. TokenTypes'
    BY DEF TInv, TypeOK, Deposit, TokenTypes, MatchTypes
<1>6. dispute' \in [Matches -> DisputeRecord]
    BY Zenon DEF TInv, TypeOK, Deposit
<1>7. PartiesOK'
    BY Zenon DEF TInv, TypeOK, Deposit, PartiesOK, MatchTypes, parties
<1> QED
    BY Zenon, <1>1, <1>2, <1>3, <1>4, <1>5, <1>6, <1>7 DEF TInv, TypeOK

\* cancel_match keeps every record typed and the parties well-formed.
LEMMA CancelMatchTInv ==
    ASSUME TInv, NEW m \in Matches, NEW p \in Players, CancelMatch(m, p)
    PROVE  TInv'
<1>1. MatchTypes'
    BY Zenon DEF TInv, TypeOK, CancelMatch, RefundPending, MatchTypes, ConfigTypes,
        MatchState, Winner, parties, Close
<1>2. PlayTypes'
    BY Zenon DEF TInv, TypeOK, CancelMatch, RefundPending, PlayTypes, ConfigTypes,
        Ledger, pauseVars, resultVars
<1>3. PlayerTypes'
    <2>1. escrowBal' \in [Players -> Int]
        BY Zenon, DebitedType DEF TInv, TypeOK, CancelMatch, RefundPending
    <2>2. snaps' \in [Players -> Seq([ledger : Nat, balance : Int])]
        BY Zenon, <2>1, SnapshottedType DEF TInv, TypeOK, CancelMatch, RefundPending
    <2> QED
        BY Zenon, <2>1, <2>2
        DEF TInv, TypeOK, CancelMatch, RefundPending, PlayerTypes, indexVars
<1>4. ConfigTypes'
    BY Zenon DEF TInv, TypeOK, CancelMatch, RefundPending, ConfigTypes, config
<1>5. TokenTypes'
    BY Zenon, PayTypes, ShareTypes DEF TInv, TypeOK, CancelMatch, RefundPending
<1>6. dispute' \in [Matches -> DisputeRecord]
    BY Zenon DEF TInv, TypeOK, CancelMatch, RefundPending
<1>7. PartiesOK'
    BY Zenon DEF TInv, TypeOK, CancelMatch, RefundPending, PartiesOK, MatchTypes,
        parties, Close
<1> QED
    BY Zenon, <1>1, <1>2, <1>3, <1>4, <1>5, <1>6, <1>7 DEF TInv, TypeOK

\* expire_match keeps every record typed and the parties well-formed.
LEMMA ExpireMatchTInv ==
    ASSUME TInv, NEW m \in Matches, ExpireMatch(m)
    PROVE  TInv'
<1>1. MatchTypes'
    BY Zenon
    DEF TInv, TypeOK, ExpireMatch, RefundPending, MatchTypes, ConfigTypes,
        MatchState, Winner, parties, Close
<1>2. PlayTypes'
    BY Zenon
    DEF TInv, TypeOK, ExpireMatch, RefundPending, PlayTypes, ConfigTypes,
        Ledger, pauseVars, resultVars
<1>3. PlayerTypes'
    <2>1. escrowBal' \in [Players -> Int]
        BY Zenon, DebitedType DEF TInv, TypeOK, ExpireMatch, RefundPending
    <2>2. snaps' \in [Players -> Seq([ledger : Nat, balance : Int])]
        BY Zenon, <2>1, SnapshottedType DEF TInv, TypeOK, ExpireMatch, RefundPending
    <2> QED
        BY Zenon, <2>1, <2>2
        DEF TInv, TypeOK, ExpireMatch, RefundPending, PlayerTypes, indexVars
<1>4. ConfigTypes'
    BY Zenon DEF TInv, TypeOK, ExpireMatch, RefundPending, ConfigTypes, config
<1>5. TokenTypes'
    BY Zenon, PayTypes, ShareTypes DEF TInv, TypeOK, ExpireMatch, RefundPending
<1>6. dispute' \in [Matches -> DisputeRecord]
    BY Zenon DEF TInv, TypeOK, ExpireMatch, RefundPending
<1>7. PartiesOK'
    BY Zenon DEF TInv, TypeOK, ExpireMatch, RefundPending, PartiesOK, MatchTypes,
        parties, Close
<1> QED
    BY Zenon, <1>1, <1>2, <1>3, <1>4, <1>5, <1>6, <1>7 DEF TInv, TypeOK

\* admin_recover_match keeps every record typed and the parties well-formed.
LEMMA AdminRecoverMatchTInv ==
    ASSUME TInv, NEW m \in Matches, NEW R \in SUBSET Players,
           AdminRecoverMatch(m, R)
    PROVE  TInv'
<1>1. MatchTypes'
    BY Zenon DEF TInv, TypeOK, AdminRecoverMatch, MatchTypes, ConfigTypes,
        MatchState, Winner, parties, Close
<1>2. PlayTypes'
    BY Zenon DEF TInv, TypeOK, AdminRecoverMatch, PlayTypes, ConfigTypes, Ledger,
        pauseVars, resultVars
<1>3. PlayerTypes'
    BY Zenon, SnapshottedType
    DEF TInv, TypeOK, AdminRecoverMatch, PlayerTypes, indexVars
<1>4. ConfigTypes'
    BY Zenon DEF TInv, TypeOK, AdminRecoverMatch, ConfigTypes, config
<1>5. TokenTypes'
    BY Zenon, PayTypes, ShareTypes DEF TInv, TypeOK, AdminRecoverMatch
<1>6. dispute' \in [Matches -> DisputeRecord]
    BY Zenon DEF TInv, TypeOK, AdminRecoverMatch
<1>7. PartiesOK'
    BY Zenon DEF TInv, TypeOK, AdminRecoverMatch, PartiesOK, MatchTypes, parties,
        Close
<1> QED
    BY Zenon, <1>1, <1>2, <1>3, <1>4, <1>5, <1>6, <1>7 DEF TInv, TypeOK

\* pause_match keeps every record typed and the parties well-formed.
LEMMA PauseMatchTInv ==
    ASSUME TInv, NEW m \in Matches, NEW p \in Players, PauseMatch(m, p)
    PROVE  TInv'
<1>1. MatchTypes'
    BY Zenon DEF TInv, TypeOK, PauseMatch, MatchTypes, ConfigTypes, MatchState,
        Winner, parties
<1>2. PlayTypes'
    BY Zenon DEF TInv, TypeOK, PauseMatch, PlayTypes, ConfigTypes, Ledger,
        pauseVars, resultVars
<1>3. PlayerTypes'
    BY Zenon DEF TInv, TypeOK, PauseMatch, PlayerTypes, indexVars
<1>4. ConfigTypes'
    BY Zenon DEF TInv, TypeOK, PauseMatch, ConfigTypes, config
<1>5. TokenTypes'
    BY Zenon DEF TInv, TypeOK, PauseMatch, TokenTypes, MatchTypes
<1>6. dispute' \in [Matches -> DisputeRecord]
    BY Zenon DEF TInv, TypeOK, PauseMatch
<1>7. PartiesOK'
    BY Zenon DEF TInv, TypeOK, PauseMatch, PartiesOK, MatchTypes, parties
<1> QED
    BY Zenon, <1>1, <1>2, <1>3, <1>4, <1>5, <1>6, <1>7 DEF TInv, TypeOK

\* resume_match keeps every record typed and the parties well-formed.
LEMMA ResumeMatchTInv ==
    ASSUME TInv, NEW m \in Matches, NEW p \in Players, ResumeMatch(m, p)
    PROVE  TInv'
<1>1. MatchTypes'
    BY Zenon DEF TInv, TypeOK, ResumeMatch, MatchTypes, ConfigTypes, MatchState,
        Winner, parties
<1>2. PlayTypes'
    BY DEF TInv, TypeOK, ResumeMatch, PlayTypes, ConfigTypes, Ledger,
        pauseVars, resultVars, NoLedger
<1>3. PlayerTypes'
    BY Zenon DEF TInv, TypeOK, ResumeMatch, PlayerTypes, indexVars
<1>4. ConfigTypes'
    BY Zenon DEF TInv, TypeOK, ResumeMatch, ConfigTypes, config
<1>5. TokenTypes'
    BY Zenon DEF TInv, TypeOK, ResumeMatch, TokenTypes, MatchTypes
<1>6. dispute' \in [Matches -> DisputeRecord]
    BY Zenon DEF TInv, TypeOK, ResumeMatch
<1>7. PartiesOK'
    BY Zenon DEF TInv, TypeOK, ResumeMatch, PartiesOK, MatchTypes, parties
<1> QED
    BY Zenon, <1>1, <1>2, <1>3, <1>4, <1>5, <1>6, <1>7 DEF TInv, TypeOK

\* heartbeat_match keeps every record typed and the parties well-formed.
LEMMA HeartbeatMatchTInv ==
    ASSUME TInv, NEW m \in Matches, NEW p \in Players, HeartbeatMatch(m, p)
    PROVE  TInv'
<1>1. MatchTypes'
    BY Zenon DEF TInv, TypeOK, HeartbeatMatch, MatchTypes, ConfigTypes, MatchState,
        Winner, parties
<1>2. PlayTypes'
    BY Zenon DEF TInv, TypeOK, HeartbeatMatch, PlayTypes, ConfigTypes, Ledger,
        pauseVars, resultVars
<1>3. PlayerTypes'
    BY Zenon DEF TInv, TypeOK, HeartbeatMatch, PlayerTypes, indexVars
<1>4. ConfigTypes'
    BY Zenon DEF TInv, TypeOK, HeartbeatMatch, ConfigTypes, config
<1>5. TokenTypes'
    BY Zenon DEF TInv, TypeOK, HeartbeatMatch, TokenTypes, MatchTypes
<1>6. dispute' \in [Matches -> DisputeRecord]
    BY Zenon DEF TInv, TypeOK, HeartbeatMatch
<1>7. PartiesOK'
    BY Zenon DEF TInv, TypeOK, HeartbeatMatch, PartiesOK, MatchTypes, parties
<1> QED
    BY Zenon, <1>1, <1>2, <1>3, <1>4, <1>5, <1>6, <1>7 DEF TInv, TypeOK

\* dispute_and_rollback_match keeps every record typed and the parties well-formed.
LEMMA DisputeAndRollbackTInv ==
    ASSUME TInv, NEW m \in Matches, NEW p \in Players, DisputeAndRollback(m, p)
    PROVE  TInv'
<1>1. MatchTypes'
    BY Zenon DEF TInv, TypeOK, DisputeAndRollback, MatchTypes, ConfigTypes,
        MatchState, Winner, parties, Close
<1>2. PlayTypes'
    BY Zenon
    DEF TInv, TypeOK, DisputeAndRollback, PlayTypes, ConfigTypes, Ledger,
        pauseVars, resultVars
<1>3. PlayerTypes'
    <2>1. snaps' \in [Players -> Seq([ledger : Nat, balance : Int])]
        <3>1. \/ snaps' = snaps
              \/ snaps' = Snapshotted(deposited[m], escrowBal)
            BY Zenon DEF DisputeAndRollback
        <3> QED
            BY <3>1, SnapshottedType
            DEF TInv, TypeOK, PlayerTypes, ConfigTypes
    <2>2. /\ active' \in [Players -> SUBSET Matches]
          /\ activeCount' \in [Players -> Nat]
        BY Zenon, IndexTypes
        DEF TInv, TypeOK, DisputeAndRollback, PlayerTypes, indexVars
    <2> QED
        BY Zenon, <2>1, <2>2
        DEF TInv, TypeOK, DisputeAndRollback, PlayerTypes
<1>4. ConfigTypes'
    BY Zenon DEF TInv, TypeOK, DisputeAndRollback, ConfigTypes, config
<1>5. TokenTypes'
    BY Zenon, PayTypes, ShareTypes
    DEF TInv, TypeOK, DisputeAndRollback, TokenTypes
<1>6. dispute' \in [Matches -> DisputeRecord]
    BY Zenon DEF TInv, TypeOK, DisputeAndRollback
<1>7. PartiesOK'
    BY Zenon DEF TInv, TypeOK, DisputeAndRollback, PartiesOK, MatchTypes, parties,
        Close
<1> QED
    BY Zenon, <1>1, <1>2, <1>3, <1>4, <1>5, <1>6, <1>7 DEF TInv, TypeOK

\* admin_resolve_stalled_match keeps every record typed and the parties well-formed.
LEMMA AdminResolveStalledTInv ==
    ASSUME TInv, NEW m \in Matches, NEW w \in Winner, AdminResolveStalled(m, w)
    PROVE  TInv'
<1>1. MatchTypes'
    BY Zenon DEF TInv, TypeOK, AdminResolveStalled, MatchTypes, ConfigTypes,
        MatchState, Winner, parties, Close
<1>2. PlayTypes'
    BY Zenon
    DEF TInv, TypeOK, AdminResolveStalled, PlayTypes, ConfigTypes, Ledger,
        pauseVars, resultVars
<1>3. PlayerTypes'
    BY Zenon, SnapshottedType, IndexTypes, CountCompletedType
    DEF TInv, TypeOK, AdminResolveStalled, PlayerTypes
<1>4. ConfigTypes'
    BY Zenon DEF TInv, TypeOK, AdminResolveStalled, ConfigTypes, config
<1>5. TokenTypes'
    BY Zenon, PayTypes, ShareTypes
    DEF TInv, TypeOK, AdminResolveStalled, Stalled
<1>6. dispute' \in [Matches -> DisputeRecord]
    BY Zenon DEF TInv, TypeOK, AdminResolveStalled
<1>7. PartiesOK'
    BY Zenon DEF TInv, TypeOK, AdminResolveStalled, PartiesOK, MatchTypes, parties,
        Close, Stalled
<1> QED
    BY Zenon, <1>1, <1>2, <1>3, <1>4, <1>5, <1>6, <1>7 DEF TInv, TypeOK

\* submit_result and submit_draw keep every record typed and the parties well-formed.
LEMMA SubmitResultTInv ==
    ASSUME TInv, NEW m \in Matches, NEW w \in Winner, SubmitResult(m, w)
    PROVE  TInv'
<1>1. MatchTypes'
    <2>1. /\ state' \in [Matches -> MatchState \cup {"Unused"}]
          /\ stamped' \in [Matches -> BOOLEAN]
        BY Zenon DEF TInv, TypeOK, SubmitResult, SettleResult, Close, MatchTypes,
            MatchState
    <2>2. /\ winner' \in [Matches -> Winner]
          /\ vestedAt' \in [Matches -> Ledger]
        BY Zenon DEF TInv, TypeOK, SubmitResult, SettleResult, MatchTypes,
            ConfigTypes, Ledger
    <2> QED
        BY Zenon, <2>1, <2>2
        DEF TInv, TypeOK, SubmitResult, SettleResult, MatchTypes, parties
<1>2. PlayTypes'
    <2>1. /\ pendingWinner' \in [Matches -> Winner]
          /\ deadline' \in [Matches -> Ledger]
        <3>1. now + disputePeriod \in Ledger
            BY DEF TInv, TypeOK, ConfigTypes, Ledger
        <3>2. \/ UNCHANGED <<pendingWinner, deadline>>
              \/ /\ pendingWinner' = [pendingWinner EXCEPT ![m] = w]
                 /\ deadline' = [deadline EXCEPT ![m] = now + disputePeriod]
            BY Zenon DEF SubmitResult, SettleResult, resultVars
        <3> QED
            BY Zenon, <3>1, <3>2 DEF TInv, TypeOK, PlayTypes
    <2> QED
        BY Zenon, <2>1
        DEF TInv, TypeOK, SubmitResult, SettleResult, PlayTypes, pauseVars
<1>3. PlayerTypes'
    <2>1. escrowBal' \in [Players -> Int]
        <3>1. escrowBal' = Debited(m, Pair(m)) \/ escrowBal' = escrowBal
            BY Zenon DEF SubmitResult, SettleResult
        <3> QED
            BY SMTT(30), <3>1, DebitedType DEF TInv, TypeOK, PlayerTypes
    <2>2. snaps' \in [Players -> Seq([ledger : Nat, balance : Int])]
        <3>1. snaps' = Snapshotted(Pair(m), escrowBal') \/ snaps' = snaps
            BY Zenon DEF SubmitResult, SettleResult
        <3>2. Snapshotted(Pair(m), escrowBal')
                  \in [Players -> Seq([ledger : Nat, balance : Int])]
            BY Zenon, <2>1, SnapshottedType DEF TInv, TypeOK
        <3> QED
            BY Zenon, <3>1, <3>2 DEF TInv, TypeOK, PlayerTypes
    <2>3. /\ active' \in [Players -> SUBSET Matches]
          /\ activeCount' \in [Players -> Nat]
          /\ completedCount' \in [Players -> Nat]
          /\ stats' \in [Players -> [wins : Nat, losses : Nat, draws : Nat]]
        BY Zenon, IndexTypes, CountCompletedType, RecordStatsType
        DEF TInv, TypeOK, SubmitResult, SettleResult
    <2>4. totalPayouts' \in Nat
        <3>1. totalPayouts' = totalPayouts + 1
            BY Zenon DEF SubmitResult, SettleResult
        <3> QED
            BY <3>1 DEF TInv, TypeOK, PlayerTypes
    <2> QED
        BY Zenon, <2>1, <2>2, <2>3, <2>4 DEF PlayerTypes
<1>4. ConfigTypes'
    BY Zenon DEF TInv, TypeOK, SubmitResult, SettleResult, ConfigTypes, config
<1>5. TokenTypes'
    BY Zenon DEF TInv, TypeOK, SubmitResult, SettleResult, TokenTypes, MatchTypes
<1>6. dispute' \in [Matches -> DisputeRecord]
    BY Zenon DEF TInv, TypeOK, SubmitResult, SettleResult
<1>7. PartiesOK'
    BY Zenon DEF TInv, TypeOK, SubmitResult, SettleResult, PartiesOK, MatchTypes,
        parties, Close, InPlay
<1> QED
    BY Zenon, <1>1, <1>2, <1>3, <1>4, <1>5, <1>6, <1>7 DEF TInv, TypeOK

\* finalize_match keeps every record typed and the parties well-formed.
LEMMA FinalizeMatchTInv ==
    ASSUME TInv, NEW m \in Matches, FinalizeMatch(m)
    PROVE  TInv'
<1>1. MatchTypes'
    BY Zenon
    DEF TInv, TypeOK, FinalizeMatch, MatchTypes, ConfigTypes, MatchState,
        Winner, parties, Close
<1>2. PlayTypes'
    BY Zenon
    DEF TInv, TypeOK, FinalizeMatch, PlayTypes, ConfigTypes, Ledger,
        pauseVars, resultVars
<1>3. PlayerTypes'
    <2>1. escrowBal' \in [Players -> Int]
        BY Zenon, DebitedType DEF TInv, TypeOK, FinalizeMatch
    <2>2. snaps' \in [Players -> Seq([ledger : Nat, balance : Int])]
        BY Zenon, <2>1, SnapshottedType DEF TInv, TypeOK, FinalizeMatch
    <2>3. /\ active' \in [Players -> SUBSET Matches]
          /\ activeCount' \in [Players -> Nat]
          /\ completedCount' \in [Players -> Nat]
        BY Zenon, IndexTypes, CountCompletedType DEF TInv, TypeOK, FinalizeMatch
    <2> QED
        BY SMTT(30), <2>1, <2>2, <2>3
        DEF TInv, TypeOK, FinalizeMatch, PlayerTypes
<1>4. ConfigTypes'
    BY Zenon DEF TInv, TypeOK, FinalizeMatch, ConfigTypes, config
<1>5. TokenTypes'
    BY Zenon, PayTypes, ShareTypes DEF TInv, TypeOK, FinalizeMatch
<1>6. dispute' \in [Matches -> DisputeRecord]
    BY Zenon DEF TInv, TypeOK, FinalizeMatch
<1>7. PartiesOK'
    BY Zenon
    DEF TInv, TypeOK, FinalizeMatch, PartiesOK, MatchTypes, parties, Close
<1> QED
    BY Zenon, <1>1, <1>2, <1>3, <1>4, <1>5, <1>6, <1>7 DEF TInv, TypeOK

\* claim_vested_payout keeps every record typed and the parties well-formed.
LEMMA ClaimVestedPayoutTInv ==
    ASSUME TInv, NEW m \in Matches, NEW p \in Players, ClaimVestedPayout(m, p)
    PROVE  TInv'
<1>1. MatchTypes'
    BY Zenon DEF TInv, TypeOK, ClaimVestedPayout, MatchTypes, ConfigTypes,
        MatchState, Winner, parties
<1>2. PlayTypes'
    BY Zenon
    DEF TInv, TypeOK, ClaimVestedPayout, PlayTypes, ConfigTypes, Ledger,
        pauseVars, resultVars
<1>3. PlayerTypes'
    BY Zenon, SnapshottedType
    DEF TInv, TypeOK, ClaimVestedPayout, PlayerTypes, indexVars
<1>4. ConfigTypes'
    BY Zenon DEF TInv, TypeOK, ClaimVestedPayout, ConfigTypes, config
<1>5. TokenTypes'
    <2> DEFINE share == [q \in Players |->
                           IF q = p THEN Payout(m, winner[m])[p] ELSE 0]
    <2>1. share \in [Players -> Nat]
        BY Zenon, ShareTypes DEF TInv, TypeOK
    <2> QED
        BY Zenon, <2>1, PayTypes DEF ClaimVestedPayout
<1>6. dispute' \in [Matches -> DisputeRecord]
    BY Zenon DEF TInv, TypeOK, ClaimVestedPayout
<1>7. PartiesOK'
    BY Zenon DEF TInv, TypeOK, ClaimVestedPayout, PartiesOK, MatchTypes, parties
<1> QED
    BY Zenon, <1>1, <1>2, <1>3, <1>4, <1>5, <1>6, <1>7 DEF TInv, TypeOK

\* A share is a natural number.
LEMMA ShareType == \A b \in Shares : b \in Nat
    BY SMTT(60) DEF Shares

\* The bound on the matches in play is a natural number.
LEMMA LimitType == MaxActive \in Nat
    BY LimitsAssumption

\* The bond is a natural number.
LEMMA BondType ==
    ASSUME MatchTypes, NEW m \in Matches
    PROVE  BondFor(m) \in Nat
<1>1. stake[m] \in Nat /\ BondBps \in Nat
    BY LimitsAssumption, ShareType DEF MatchTypes
<1>2. BasisPoints(stake[m], BondBps) \in Int
    BY SMTT(60), <1>1 DEF BasisPoints
<1> QED
    BY SMTT(30), <1>2 DEF BondFor

\* dispute_oracle_result keeps every record typed and the parties well-formed.
LEMMA DisputeOracleResultTInv ==
    ASSUME TInv, NEW m \in Matches, NEW p \in Players, DisputeOracleResult(m, p)
    PROVE  TInv'
<1>1. MatchTypes'
    BY Zenon DEF TInv, TypeOK, DisputeOracleResult, MatchTypes, ConfigTypes,
        MatchState, Winner, parties
<1>2. PlayTypes'
    BY Zenon
    DEF TInv, TypeOK, DisputeOracleResult, PlayTypes, ConfigTypes, Ledger,
        pauseVars, resultVars
<1>3. PlayerTypes'
    BY Zenon DEF TInv, TypeOK, DisputeOracleResult, PlayerTypes, indexVars
<1>4. ConfigTypes'
    BY Zenon DEF TInv, TypeOK, DisputeOracleResult, ConfigTypes, config
<1>5. TokenTypes'
    BY SMTT(30), BondType DEF TInv, TypeOK, DisputeOracleResult, TokenTypes
<1>6. dispute' \in [Matches -> DisputeRecord]
    <2>1. BondFor(m) \in Nat /\ balance' \in Nat
        BY SMTT(30), BondType DEF TInv, TypeOK, DisputeOracleResult, TokenTypes
    <2>2. BasisPoints(balance', QuorumBps) \in Int
        BY SMTT(60), <2>1, LimitsAssumption, ShareType DEF BasisPoints
    <2>3. now \in Nat /\ now + VotingPeriod \in Nat
        BY SMTT(30), PeriodsAssumption DEF TInv, TypeOK, ConfigTypes
    <2> QED
        BY Zenon, <2>1, <2>2, <2>3
        DEF TInv, TypeOK, DisputeOracleResult, DisputeRecord
<1>7. PartiesOK'
    BY Zenon DEF TInv, TypeOK, DisputeOracleResult, PartiesOK, MatchTypes, parties
<1> QED
    BY Zenon, <1>1, <1>2, <1>3, <1>4, <1>5, <1>6, <1>7 DEF TInv, TypeOK

\* A vote keeps the dispute record typed.
LEMMA VotedType ==
    ASSUME NEW d \in DisputeRecord, NEW v \in Players, NEW yes \in BOOLEAN,
           NEW weight \in Nat
    PROVE  Voted(d, v, yes, weight) \in DisputeRecord
<1>1. /\ d.yes \in Nat /\ d.yes + weight \in Nat
      /\ d.no \in Nat /\ d.no + weight \in Nat
      /\ d.voters \cup {v} \in SUBSET Players
    BY DEF DisputeRecord
<1>2. PICK a \in Nat, b \in Nat :
          /\ a = IF yes THEN d.yes + weight ELSE d.yes
          /\ b = IF yes THEN d.no ELSE d.no + weight
    BY Zenon, <1>1
<1>3. Voted(d, v, yes, weight)
          = [d EXCEPT !.yes = a, !.no = b, !.voters = d.voters \cup {v}]
    BY Zenon, <1>2 DEF Voted, DisputeRecord
<1> QED
    BY Zenon, <1>1, <1>3 DEF DisputeRecord

\* vote_on_dispute keeps every record typed and the parties well-formed.
LEMMA VoteOnDisputeTInv ==
    ASSUME TInv, NEW m \in Matches, NEW v \in Players, NEW yes \in BOOLEAN,
           VoteOnDispute(m, v, yes)
    PROVE  TInv'
<1>1. MatchTypes'
    BY Zenon
    DEF TInv, TypeOK, VoteOnDispute, MatchTypes, ConfigTypes, MatchState,
        Winner, parties
<1>2. PlayTypes'
    BY Zenon
    DEF TInv, TypeOK, VoteOnDispute, PlayTypes, ConfigTypes, Ledger,
        pauseVars, resultVars
<1>3. PlayerTypes'
    BY Zenon DEF TInv, TypeOK, VoteOnDispute, PlayerTypes, indexVars
<1>4. ConfigTypes'
    BY Zenon DEF TInv, TypeOK, VoteOnDispute, ConfigTypes, config
<1>5. TokenTypes'
    BY Zenon DEF TInv, TypeOK, VoteOnDispute, TokenTypes, MatchTypes
<1>6. dispute' \in [Matches -> DisputeRecord]
    <2>1. PICK i \in Newest(m, v) :
              /\ snaps[v][i].balance > 0
              /\ dispute' = [dispute EXCEPT ![m] =
                                Voted(@, v, yes, snaps[v][i].balance)]
        BY Zenon DEF VoteOnDispute
    <2>2. i \in DOMAIN snaps[v]
        BY Zenon DEF Newest, Qualifying
    <2>3. snaps[v][i] \in [ledger : Nat, balance : Int]
        <3> DEFINE Snap == [ledger : Nat, balance : Int]
        <3>1. snaps[v] \in Seq(Snap)
            BY Zenon DEF TInv, TypeOK, PlayerTypes
        <3> HIDE DEF Snap
        <3>2. snaps[v][i] \in Snap
            BY <3>1, <2>2
        <3> QED
            BY Zenon, <3>2 DEF Snap
    <2>4. snaps[v][i].balance \in Nat
        BY <2>1, <2>3
    <2>5. Voted(dispute[m], v, yes, snaps[v][i].balance) \in DisputeRecord
        BY Zenon, <2>4, VotedType DEF TInv, TypeOK
    <2> QED
        BY Zenon, <2>1, <2>5 DEF TInv, TypeOK
<1>7. PartiesOK'
    BY Zenon DEF TInv, TypeOK, VoteOnDispute, PartiesOK, MatchTypes, parties
<1> QED
    BY Zenon, <1>1, <1>2, <1>3, <1>4, <1>5, <1>6, <1>7 DEF TInv, TypeOK

\* resolve_dispute_by_vote keeps every record typed and the parties well-formed.
LEMMA ResolveDisputeTInv ==
    ASSUME TInv, NEW m \in Matches, ResolveDispute(m)
    PROVE  TInv'
<1>1. MatchTypes'
    BY Zenon DEF TInv, TypeOK, ResolveDispute, MatchTypes, ConfigTypes, MatchState,
        Winner, parties, Close
<1>2. PlayTypes'
    BY Zenon DEF TInv, TypeOK, ResolveDispute, PlayTypes, ConfigTypes, Ledger,
        pauseVars, resultVars
<1>3. PlayerTypes'
    BY IndexTypes, CountCompletedType
    DEF TInv, TypeOK, ResolveDispute, PlayerTypes
<1>4. ConfigTypes'
    BY Zenon DEF TInv, TypeOK, ResolveDispute, ConfigTypes, config
<1>5. TokenTypes'
    <2> DEFINE share == Payout(m, Verdict(m))
    <2>1. share \in [Players -> Nat]
        BY Zenon, ShareTypes DEF TInv, TypeOK
    <2>2. Total(m, share) \in Nat
        BY <2>1 DEF TInv, PartiesOK, ResolveDispute, Total
    <2>3. dispute[m].bond \in Nat
        BY Zenon DEF TInv, TypeOK, DisputeRecord
    <2> QED
        BY <2>1, <2>2, <2>3 DEF TInv, TypeOK, TokenTypes, ResolveDispute
<1>6. dispute' \in [Matches -> DisputeRecord]
    BY ZenonT(60) DEF TInv, TypeOK, ResolveDispute, DisputeRecord
<1>7. PartiesOK'
    BY Zenon DEF TInv, TypeOK, ResolveDispute, PartiesOK, MatchTypes, parties, Close
<1> QED
    BY Zenon, <1>1, <1>2, <1>3, <1>4, <1>5, <1>6, <1>7 DEF TInv, TypeOK

\* The administrative operations and the clock touch no match.
LEMMA AdminTInv ==
    ASSUME TInv, Tick \/ AdminStep
    PROVE  TInv'
<1>1. UNCHANGED matchAndTokenVars
    BY Zenon DEF Tick, AdminStep, PauseContract, UnpauseContract, FreezePlayer,
        UnfreezePlayer, AddTokenToBlacklist, RemoveTokenFromBlacklist,
        SetDisputePeriod, SetMatchTimeout
<1>2. ConfigTypes'
    <2>1. CASE Tick
        BY <2>1 DEF TInv, TypeOK, ConfigTypes, config, Tick
    <2>2. CASE PauseContract \/ UnpauseContract
        BY Zenon, <2>2 DEF TInv, TypeOK, ConfigTypes, PauseContract, UnpauseContract
    <2>3. CASE \E p \in Freezable : FreezePlayer(p) \/ UnfreezePlayer(p)
        BY Zenon, <2>3, PlayersAssumption
        DEF TInv, TypeOK, ConfigTypes, FreezePlayer, UnfreezePlayer
    <2>4. CASE AddTokenToBlacklist \/ RemoveTokenFromBlacklist
        BY Zenon, <2>4
        DEF TInv, TypeOK, ConfigTypes, AddTokenToBlacklist,
            RemoveTokenFromBlacklist
    <2>5. CASE \/ \E d \in DisputePeriods : SetDisputePeriod(d)
               \/ \E t \in MatchTimeouts : SetMatchTimeout(t)
        BY Zenon, <2>5, PeriodsAssumption
        DEF TInv, TypeOK, ConfigTypes, SetDisputePeriod, SetMatchTimeout
    <2> QED
        BY Zenon, <2>1, <2>2, <2>3, <2>4, <2>5 DEF AdminStep
<1>3. MatchTypes' /\ PlayTypes' /\ PlayerTypes' /\ TokenTypes'
    BY Zenon, <1>1
    DEF TInv, TypeOK, MatchTypes, PlayTypes, PlayerTypes, TokenTypes,
        matchAndTokenVars, parties, pauseVars, resultVars, indexVars
<1>4. PartiesOK' /\ dispute' \in [Matches -> DisputeRecord]
    BY Zenon, <1>1 DEF TInv, TypeOK, PartiesOK, matchAndTokenVars, parties
<1> QED
    BY Zenon, <1>2, <1>3, <1>4 DEF TInv, TypeOK

\* The initial state is typed.
LEMMA InitTInv ==
    ASSUME Init
    PROVE  TInv
<1>1. MatchTypes /\ PartiesOK
    BY Zenon DEF Init, MatchTypes, PartiesOK, Winner, Ledger, NoLedger
<1>2. PlayTypes
    BY DEF Init, PlayTypes, Winner, Ledger, NoLedger
<1>3. PlayerTypes /\ TokenTypes
    BY DEF Init, PlayerTypes, TokenTypes
<1>4. ConfigTypes
    BY Zenon, ClockAssumption, PeriodsAssumption DEF Init, ConfigTypes
<1>5. dispute \in [Matches -> DisputeRecord]
    <2>1. NoDispute \in DisputeRecord
        BY DEF NoDispute, DisputeRecord
    <2> QED
        BY Zenon, <2>1 DEF Init
<1> QED
    BY Zenon, <1>1, <1>2, <1>3, <1>4, <1>5 DEF TInv, TypeOK

\* Every step of the contract keeps the types.
LEMMA NextTInv ==
    ASSUME TInv, [Next]_vars
    PROVE  TInv'
<1>1. CASE Tick \/ AdminStep
    BY Zenon, <1>1, AdminTInv
<1>2. ASSUME NEW m \in Matches, MatchStep(m)
      PROVE  TInv'
    BY Zenon, <1>2, CreateMatchTInv, DepositTInv, CancelMatchTInv,
       ExpireMatchTInv,
       AdminRecoverMatchTInv, PauseMatchTInv, ResumeMatchTInv,
       HeartbeatMatchTInv, DisputeAndRollbackTInv, AdminResolveStalledTInv,
       SubmitResultTInv, FinalizeMatchTInv, ClaimVestedPayoutTInv,
       DisputeOracleResultTInv, VoteOnDisputeTInv, ResolveDisputeTInv
    DEF MatchStep
<1>3. CASE UNCHANGED vars
    BY Zenon, <1>3
    DEF TInv, TypeOK, MatchTypes, PlayTypes, PlayerTypes, ConfigTypes,
        TokenTypes, PartiesOK, vars, parties, pauseVars, resultVars,
        indexVars, config
<1> QED
    BY Zenon, <1>1, <1>2, <1>3 DEF Next

\* Every record of every reachable state is typed, and every allocated match
\* has two different players and a positive stake.
THEOREM TypesHold == Spec => []TInv
<1>1. Init => TInv
    BY Zenon, InitTInv
<1>2. TInv /\ [Next]_vars => TInv'
    BY Zenon, NextTInv
<1> QED
    BY <1>1, <1>2, PTL DEF Spec

\* The type invariant that the runs check holds for every instance.
THEOREM TypeCorrect == Spec => []TypeOK
<1>1. TInv => TypeOK
    BY Zenon DEF TInv
<1> QED
    BY <1>1, TypesHold, PTL

-----------------------------------------------------------------------------
(***************************************************************************)
(* The safety invariant.                                                   *)
(***************************************************************************)
\* Who has deposited, voted and been timed, by the state of the match.
ShapeInv(m) ==
    /\ deposited[m] \subseteq Pair(m) /\ rollbackVotes[m] \subseteq Pair(m)
    /\ state[m] = "Unused" => deposited[m] = {}
    /\ state[m] \in {"Unused", "Pending"}
          => /\ deposited[m] # Pair(m)
             /\ rollbackVotes[m] = {} /\ activatedAt[m] = NoLedger
    /\ state[m] \in {"Active", "Paused", "PendingResult", "Completed"}
          => deposited[m] = Pair(m) /\ activatedAt[m] # NoLedger
    /\ state[m] = "Cancelled" /\ activatedAt[m] # NoLedger
          => deposited[m] = Pair(m) /\ rollbackVotes[m] = Pair(m)
    /\ stamped[m] <=> Terminal(m)
    /\ state[m] = "Paused" => pausedLedger[m] # NoLedger
    /\ pausedLedger[m] # NoLedger
          => state[m] \in {"Paused", "PendingResult", "Completed"}

\* Result, vesting and dispute, by the state of the match.
ResultInv(m) ==
    /\ winner[m] # "None" <=> state[m] \in {"PendingResult", "Completed"}
    /\ vestedAt[m] # NoLedger => state[m] \in {"PendingResult", "Completed"}
    /\ claimed[m] # {} => vestedAt[m] # NoLedger /\ state[m] = "Completed"
    /\ deadline[m] # NoLedger
          => /\ state[m] \in {"PendingResult", "Completed"}
             /\ vestedAt[m] # NoLedger /\ pendingWinner[m] = winner[m]
    /\ state[m] = "PendingResult" => deadline[m] # NoLedger
    /\ HasDispute(m) => deadline[m] # NoLedger
    /\ HasDispute(m) => (dispute[m].state = "Active" <=> state[m] = "PendingResult")

\* What a completed match has paid besides vested claims: its result if the
\* admin resolved it, the verdict if it waited for a dispute period.
Direct(m) ==
    IF deadline[m] = NoLedger /\ vestedAt[m] # NoLedger
    THEN [p \in Players |-> 0]
    ELSE Payout(m, IF dispute[m].state = "Overturned" THEN "Draw" ELSE winner[m])

\* The history of payments is determined by the match: nothing before its end,
\* at most the stakes after a cancellation, and after completion the direct
\* payout and one vested share for each player who claimed.
PaidInv(m) ==
    \A p \in Players :
        /\ ~Terminal(m) => paid[m][p] = 0
        /\ state[m] = "Cancelled"
              => /\ paid[m][p] <= Refund(m, deposited[m])[p]
                 /\ activatedAt[m] # NoLedger
                       => paid[m][p] = Refund(m, deposited[m])[p]
        /\ state[m] = "Completed"
              => paid[m][p] = Direct(m)[p] + (IF p \in claimed[m]
                                              THEN Payout(m, winner[m])[p] ELSE 0)

\* The active-match index of both players.
IndexInv(m) ==
    \A p \in Players : m \in active[p] <=> InPlay(m) /\ p \in Pair(m)

MatchInv(m) == ShapeInv(m) /\ ResultInv(m) /\ PaidInv(m) /\ IndexInv(m)

IInv == TInv /\ \A m \in Matches : MatchInv(m)

(***************************************************************************)
(* A step on one match leaves the others alone.                            *)
(***************************************************************************)
Same(n) ==
    /\ state'[n] = state[n] /\ p1'[n] = p1[n] /\ p2'[n] = p2[n]
    /\ stake'[n] = stake[n] /\ deposited'[n] = deposited[n]
    /\ stamped'[n] = stamped[n] /\ winner'[n] = winner[n]
    /\ vestedAt'[n] = vestedAt[n] /\ claimed'[n] = claimed[n]
    /\ pausedLedger'[n] = pausedLedger[n] /\ activatedAt'[n] = activatedAt[n]
    /\ rollbackVotes'[n] = rollbackVotes[n]
    /\ pendingWinner'[n] = pendingWinner[n] /\ deadline'[n] = deadline[n]
    /\ dispute'[n] = dispute[n] /\ paid'[n] = paid[n]
    /\ \A p \in Players : n \in active'[p] <=> n \in active[p]

\* The invariant of a match depends on nothing but the fields of that match.
LEMMA Framed ==
    ASSUME NEW n \in Matches, MatchInv(n), Same(n)
    PROVE  MatchInv(n)'
<1>1. ShapeInv(n)'
    BY Zenon DEF MatchInv, Same, ShapeInv, Pair, Terminal
<1>2. ResultInv(n)'
    BY Zenon DEF MatchInv, Same, ResultInv, HasDispute
<1>3. \A w : (Payout(n, w))' = Payout(n, w)
    BY Zenon DEF Same, Payout, Entitled, Pair, Pot
<1>4. (Direct(n))' = Direct(n)
    BY Zenon, <1>3 DEF Same, Direct
<1>5. (Refund(n, deposited[n]))' = Refund(n, deposited[n])
    BY Zenon DEF Same, Refund
<1>6. (Payout(n, winner[n]))' = Payout(n, winner[n])
    BY Zenon, <1>3 DEF Same
<1>7. PaidInv(n)'
    BY Zenon, <1>4, <1>5, <1>6 DEF MatchInv, Same, PaidInv, Terminal
<1>8. IndexInv(n)'
    BY Zenon DEF MatchInv, Same, IndexInv, InPlay, Pair
<1> QED
    BY Zenon, <1>1, <1>2, <1>7, <1>8 DEF MatchInv

\* No operation on match m reads or writes a field of another match, nor the
\* other matches in the players' indexes.
LEMMA OthersSame ==
    ASSUME TInv, NEW m \in Matches, NEW n \in Matches, n # m, MatchStep(m)
    PROVE  Same(n)
<1>1. CASE \E a, b \in Players, s \in Stakes : CreateMatch(m, a, b, s)
    BY ZenonT(90), <1>1 DEF TInv, TypeOK, MatchTypes, PlayTypes, PlayerTypes, TokenTypes,
        Same, CreateMatch, parties, pauseVars, resultVars, indexVars
<1>2. CASE \E p \in Players : Deposit(m, p)
    <2> SUFFICES ASSUME NEW p \in Players, Deposit(m, p)
                 PROVE  Same(n)
        BY Zenon, <1>2
    <2>1. \A q \in Players : n \in active'[q] <=> n \in active[q]
        BY SMTT(30) DEF Deposit, Index, indexVars
    <2>2. state'[n] = state[n] /\ activatedAt'[n] = activatedAt[n]
        BY Zenon DEF TInv, TypeOK, MatchTypes, PlayTypes, Deposit
    <2>3. deposited'[n] = deposited[n]
        BY Zenon DEF TInv, TypeOK, MatchTypes, Deposit
    <2> QED
        BY Zenon, <2>1, <2>2, <2>3 DEF Deposit, Same, parties, pauseVars, resultVars
<1>3. CASE \E p \in Players : CancelMatch(m, p)
    BY ZenonT(90), <1>3 DEF TInv, TypeOK, MatchTypes, PlayTypes, PlayerTypes, TokenTypes,
        Same, CancelMatch, RefundPending, Close, Pay, parties, pauseVars,
        resultVars, indexVars
<1>4. CASE ExpireMatch(m)
    BY ZenonT(90), <1>4 DEF TInv, TypeOK, MatchTypes, PlayTypes, PlayerTypes, TokenTypes,
        Same, ExpireMatch, RefundPending, Close, Pay, parties, pauseVars,
        resultVars, indexVars
<1>5. CASE \E R \in SUBSET Players : AdminRecoverMatch(m, R)
    BY ZenonT(90), <1>5 DEF TInv, TypeOK, MatchTypes, PlayTypes, PlayerTypes, TokenTypes,
        Same, AdminRecoverMatch, Close, Pay, parties, pauseVars, resultVars,
        indexVars
<1>6. CASE \E p \in Players : PauseMatch(m, p)
    BY ZenonT(90), <1>6 DEF TInv, TypeOK, MatchTypes, PlayTypes, PlayerTypes, TokenTypes,
        Same, PauseMatch, parties, pauseVars, resultVars, indexVars
<1>7. CASE \E p \in Players : ResumeMatch(m, p)
    BY Zenon, <1>7 DEF TInv, TypeOK, MatchTypes, PlayTypes, PlayerTypes, TokenTypes,
        Same, ResumeMatch, parties, pauseVars, resultVars, indexVars
<1>8. CASE \E p \in Players : HeartbeatMatch(m, p)
    BY Zenon, <1>8
    DEF TInv, TypeOK, MatchTypes, PlayTypes, PlayerTypes, TokenTypes,
        Same, HeartbeatMatch, parties, pauseVars, resultVars, indexVars
<1>9. CASE \E p \in Players : DisputeAndRollback(m, p)
    <2> SUFFICES ASSUME NEW p \in Players, DisputeAndRollback(m, p)
                 PROVE  Same(n)
        BY Zenon, <1>9
    <2>1. \A q \in Players : n \in active'[q] <=> n \in active[q]
        BY Zenon DEF DisputeAndRollback, Unindex, indexVars
    <2>2. state'[n] = state[n] /\ stamped'[n] = stamped[n]
        BY Zenon DEF TInv, TypeOK, MatchTypes, DisputeAndRollback, Close
    <2>3. paid'[n] = paid[n]
        BY Zenon DEF TInv, TypeOK, TokenTypes, DisputeAndRollback, Pay
    <2>4. rollbackVotes'[n] = rollbackVotes[n]
        BY Zenon DEF TInv, TypeOK, PlayTypes, DisputeAndRollback
    <2> QED
        BY Zenon, <2>1, <2>2, <2>3, <2>4
        DEF DisputeAndRollback, Same, parties, pauseVars, resultVars
<1>10. CASE \E w \in Winner : AdminResolveStalled(m, w)
    BY <1>10 DEF TInv, TypeOK, MatchTypes, PlayTypes, PlayerTypes, TokenTypes,
        Same, AdminResolveStalled, Unindex, Close, Pay, parties, pauseVars,
        resultVars, indexVars
<1>11. CASE \E w \in Winner : SubmitResult(m, w)
    BY <1>11 DEF TInv, TypeOK, MatchTypes, PlayTypes, PlayerTypes, TokenTypes,
        Same, SubmitResult, SettleResult, Unindex, Close, parties, pauseVars,
        resultVars, indexVars
<1>12. CASE FinalizeMatch(m)
    BY Zenon, <1>12 DEF TInv, TypeOK, MatchTypes, PlayTypes, PlayerTypes, TokenTypes,
        Same, FinalizeMatch, Unindex, Close, Pay, parties, pauseVars,
        resultVars, indexVars
<1>13. CASE \E p \in Players : ClaimVestedPayout(m, p)
    BY ZenonT(90), <1>13 DEF TInv, TypeOK, MatchTypes, PlayTypes, PlayerTypes, TokenTypes,
        Same, ClaimVestedPayout, Pay, parties, pauseVars, resultVars,
        indexVars
<1>14. CASE \E p \in Players : DisputeOracleResult(m, p)
    BY Zenon, <1>14
    DEF TInv, TypeOK, MatchTypes, PlayTypes, PlayerTypes, TokenTypes,
        Same, DisputeOracleResult, parties, pauseVars, resultVars, indexVars
<1>15. CASE \E v \in Players, yes \in BOOLEAN : VoteOnDispute(m, v, yes)
    BY Zenon, <1>15 DEF TInv, TypeOK, MatchTypes, PlayTypes, PlayerTypes, TokenTypes,
        Same, VoteOnDispute, parties, pauseVars, resultVars, indexVars
<1>16. CASE ResolveDispute(m)
    BY Zenon, <1>16 DEF TInv, TypeOK, MatchTypes, PlayTypes, PlayerTypes, TokenTypes,
        Same, ResolveDispute, Unindex, Close, parties, pauseVars, resultVars,
        indexVars
<1> QED
    BY Zenon, <1>1, <1>2, <1>3, <1>4, <1>5, <1>6, <1>7, <1>8,
       <1>9, <1>10, <1>11, <1>12, <1>13, <1>14, <1>15, <1>16
    DEF MatchStep

(***************************************************************************)
(* Every operation on a match keeps the invariant of that match.           *)
(***************************************************************************)
\* A payment adds the share of each player to the history of the match.
LEMMA PayEffect ==
    ASSUME TokenTypes, NEW m \in Matches, NEW share \in [Players -> Nat],
           Pay(m, share)
    PROVE  \A p \in Players : paid'[m][p] = paid[m][p] + share[p]
    BY Zenon DEF TokenTypes, Pay

\* The first payment of a match is the whole of its history.
LEMMA FirstPay ==
    ASSUME TInv, NEW m \in Matches, MatchInv(m), ~Terminal(m),
           NEW share \in [Players -> Nat], Pay(m, share)
    PROVE  \A q \in Players : share[q] \in Nat /\ paid'[m][q] = share[q]
<1>1. \A q \in Players : paid[m][q] = 0
    BY Zenon DEF MatchInv, PaidInv
<1>2. \A q \in Players : paid'[m][q] = paid[m][q] + share[q]
    BY Zenon, PayEffect DEF TInv, TypeOK
<1> QED
    BY <1>1, <1>2

\* A match cancelled with a refund of all deposits satisfies PaidInv.
LEMMA CancelledPaid ==
    ASSUME NEW m \in Matches, state'[m] = "Cancelled",
           \A q \in Players : /\ Refund(m, deposited[m])[q] \in Nat
                              /\ paid'[m][q] = Refund(m, deposited[m])[q],
           (Refund(m, deposited[m]))' = Refund(m, deposited[m])
    PROVE  PaidInv(m)'
    BY DEF PaidInv, Terminal

\* A match completed without a claim satisfies PaidInv when it has paid Direct.
LEMMA CompletedPaid ==
    ASSUME NEW m \in Matches, state'[m] = "Completed", claimed'[m] = {},
           NEW share, (Direct(m))' = share,
           \A q \in Players : share[q] \in Nat /\ paid'[m][q] = share[q]
    PROVE  PaidInv(m)'
    BY DEF PaidInv, Terminal

\* Refunds and payouts are functions of the parties and the stake, which no
\* operation after create_match writes.
LEMMA SharesKept ==
    ASSUME UNCHANGED parties, NEW m \in Matches
    PROVE  /\ \A S : (Refund(m, S))' = Refund(m, S)
           /\ \A w : (Payout(m, w))' = Payout(m, w)
    BY Zenon DEF parties, Refund, Payout, Entitled, Pair, Pot

\* A vote changes the tallies of a dispute and not its state.
LEMMA VoteKeepsState ==
    ASSUME TInv, NEW m \in Matches, NEW v \in Players, NEW yes \in BOOLEAN,
           VoteOnDispute(m, v, yes)
    PROVE  dispute'[m].state = dispute[m].state
<1>1. PICK i \in Newest(m, v) :
          dispute' = [dispute EXCEPT ![m] = Voted(@, v, yes, snaps[v][i].balance)]
    BY Zenon DEF VoteOnDispute
<1>2. Voted(dispute[m], v, yes, snaps[v][i].balance).state = dispute[m].state
    BY Zenon DEF TInv, TypeOK, DisputeRecord, Voted
<1> QED
    BY Zenon, <1>1, <1>2 DEF TInv, TypeOK

\* create_match keeps the invariant of the match.
LEMMA CreateMatchInv ==
    ASSUME TInv, NEW m \in Matches, MatchInv(m),
           NEW a \in Players, NEW b \in Players, NEW s \in Stakes, CreateMatch(m, a, b, s)
    PROVE  MatchInv(m)'
<1>1. ShapeInv(m)'
    BY Zenon DEF TInv, TypeOK, MatchTypes, PlayTypes, ConfigTypes, MatchInv,
        ShapeInv, Pair, Terminal, NoLedger, CreateMatch, parties, pauseVars
<1>2. ResultInv(m)'
    BY Zenon DEF TInv, TypeOK, MatchTypes, PlayTypes, ConfigTypes, MatchInv,
        ResultInv, HasDispute, NoLedger, Winner, CreateMatch, resultVars
<1>3. PaidInv(m)'
    BY Zenon DEF TInv, TypeOK, MatchTypes, PlayTypes, TokenTypes, MatchInv,
        ResultInv, PaidInv, Terminal, CreateMatch, parties
<1>4. IndexInv(m)'
    BY Zenon DEF TInv, TypeOK, MatchTypes, PlayerTypes, MatchInv, IndexInv, InPlay,
        Pair, CreateMatch, parties, indexVars
<1> QED
    BY Zenon, <1>1, <1>2, <1>3, <1>4 DEF MatchInv

\* deposit keeps the invariant of the match.
LEMMA DepositInv ==
    ASSUME TInv, NEW m \in Matches, MatchInv(m),
           NEW p \in Players, Deposit(m, p)
    PROVE  MatchInv(m)'
<1>1. ShapeInv(m)'
    BY DEF TInv, TypeOK, MatchTypes, PlayTypes, ConfigTypes, MatchInv,
        ShapeInv, Pair, Terminal, NoLedger, Deposit, parties, pauseVars
<1>2. ResultInv(m)'
    BY Zenon DEF TInv, TypeOK, MatchTypes, PlayTypes, ConfigTypes, MatchInv,
        ResultInv, HasDispute, NoLedger, Winner, Deposit, resultVars
<1>3. PaidInv(m)'
    BY Zenon DEF TInv, TypeOK, MatchTypes, PlayTypes, TokenTypes, MatchInv,
        ResultInv, PaidInv, Terminal, Deposit, parties
<1>4. IndexInv(m)'
    BY SMTT(30) DEF TInv, TypeOK, MatchTypes, PlayerTypes, MatchInv, IndexInv, InPlay,
        Pair, Deposit, Index, parties, indexVars
<1> QED
    BY Zenon, <1>1, <1>2, <1>3, <1>4 DEF MatchInv

\* cancel_match keeps the invariant of the match.
LEMMA CancelMatchInv ==
    ASSUME TInv, NEW m \in Matches, MatchInv(m),
           NEW p \in Players, CancelMatch(m, p)
    PROVE  MatchInv(m)'
<1>1. ShapeInv(m)'
    BY Zenon DEF TInv, TypeOK, MatchTypes, PlayTypes, ConfigTypes, MatchInv,
        ShapeInv, Pair, Terminal, NoLedger, CancelMatch, RefundPending, Close,
        parties, pauseVars
<1>2. ResultInv(m)'
    BY Zenon DEF TInv, TypeOK, MatchTypes, PlayTypes, ConfigTypes, MatchInv,
        ResultInv, HasDispute, NoLedger, Winner, CancelMatch, RefundPending,
        Close, resultVars
<1>3. PaidInv(m)'
    <2>1. \A q \in Players : /\ Refund(m, deposited[m])[q] \in Nat
                              /\ paid'[m][q] = Refund(m, deposited[m])[q]
        BY Zenon, FirstPay, ShareTypes
        DEF TInv, TypeOK, CancelMatch, RefundPending, Terminal
    <2>2. state'[m] = "Cancelled"
        BY Zenon
        DEF TInv, TypeOK, MatchTypes, CancelMatch, RefundPending, Close
    <2>3. (Refund(m, deposited[m]))' = Refund(m, deposited[m])
        BY Zenon DEF CancelMatch, RefundPending, Refund, parties
    <2> QED
        BY Zenon, <2>1, <2>2, <2>3, CancelledPaid
<1>4. IndexInv(m)'
    BY Zenon DEF TInv, TypeOK, MatchTypes, PlayerTypes, MatchInv, IndexInv, InPlay,
        Pair, CancelMatch, RefundPending, Close, parties, indexVars
<1> QED
    BY Zenon, <1>1, <1>2, <1>3, <1>4 DEF MatchInv

\* expire_match keeps the invariant of the match.
LEMMA ExpireMatchInv ==
    ASSUME TInv, NEW m \in Matches, MatchInv(m),
           ExpireMatch(m)
    PROVE  MatchInv(m)'
<1>1. ShapeInv(m)'
    BY Zenon DEF TInv, TypeOK, MatchTypes, PlayTypes, ConfigTypes, MatchInv,
        ShapeInv, Pair, Terminal, NoLedger, ExpireMatch, RefundPending, Close,
        parties, pauseVars
<1>2. ResultInv(m)'
    BY Zenon DEF TInv, TypeOK, MatchTypes, PlayTypes, ConfigTypes, MatchInv,
        ResultInv, HasDispute, NoLedger, Winner, ExpireMatch, RefundPending,
        Close, resultVars
<1>3. PaidInv(m)'
    <2>1. \A q \in Players : /\ Refund(m, deposited[m])[q] \in Nat
                              /\ paid'[m][q] = Refund(m, deposited[m])[q]
        BY Zenon, FirstPay, ShareTypes
        DEF TInv, TypeOK, ExpireMatch, RefundPending, Terminal
    <2>2. state'[m] = "Cancelled"
        BY Zenon DEF TInv, TypeOK, MatchTypes, ExpireMatch, RefundPending, Close
    <2>3. (Refund(m, deposited[m]))' = Refund(m, deposited[m])
        BY Zenon DEF ExpireMatch, RefundPending, Refund, parties
    <2> QED
        BY Zenon, <2>1, <2>2, <2>3, CancelledPaid
<1>4. IndexInv(m)'
    BY Zenon DEF TInv, TypeOK, MatchTypes, PlayerTypes, MatchInv, IndexInv, InPlay,
        Pair, ExpireMatch, RefundPending, Close, parties, indexVars
<1> QED
    BY Zenon, <1>1, <1>2, <1>3, <1>4 DEF MatchInv

\* admin_recover_match keeps the invariant of the match.
LEMMA AdminRecoverMatchInv ==
    ASSUME TInv, NEW m \in Matches, MatchInv(m),
           NEW R \in SUBSET Players, AdminRecoverMatch(m, R)
    PROVE  MatchInv(m)'
<1>1. ShapeInv(m)'
    BY Zenon DEF TInv, TypeOK, MatchTypes, PlayTypes, ConfigTypes, MatchInv,
        ShapeInv, Pair, Terminal, NoLedger, AdminRecoverMatch, Close, parties,
        pauseVars
<1>2. ResultInv(m)'
    BY Zenon DEF TInv, TypeOK, MatchTypes, PlayTypes, ConfigTypes, MatchInv,
        ResultInv, HasDispute, NoLedger, Winner, AdminRecoverMatch, Close,
        resultVars
<1>3. PaidInv(m)'
    <2>1. \A q \in Players : paid'[m][q] = Refund(m, R)[q]
        BY Zenon, FirstPay, ShareTypes
        DEF TInv, TypeOK, AdminRecoverMatch, Terminal
    <2>2. state'[m] = "Cancelled" /\ activatedAt'[m] = NoLedger
        BY Zenon DEF TInv, TypeOK, MatchTypes, MatchInv, ShapeInv,
            AdminRecoverMatch, Close
    <2>3. (Refund(m, deposited[m]))' = Refund(m, deposited[m])
        BY Zenon DEF AdminRecoverMatch, Refund, parties
    <2>4. R \subseteq deposited[m] /\ stake[m] \in Nat
        BY Zenon DEF TInv, TypeOK, MatchTypes, AdminRecoverMatch
    <2>5. \A q \in Players : Refund(m, R)[q] <= Refund(m, deposited[m])[q]
        BY <2>4 DEF Refund
    <2> QED
        BY Zenon, <2>1, <2>2, <2>3, <2>5 DEF PaidInv, Terminal
<1>4. IndexInv(m)'
    BY Zenon
    DEF TInv, TypeOK, MatchTypes, PlayerTypes, MatchInv, IndexInv, InPlay,
        Pair, AdminRecoverMatch, Close, parties, indexVars
<1> QED
    BY Zenon, <1>1, <1>2, <1>3, <1>4 DEF MatchInv

\* pause_match keeps the invariant of the match.
LEMMA PauseMatchInv ==
    ASSUME TInv, NEW m \in Matches, MatchInv(m),
           NEW p \in Players, PauseMatch(m, p)
    PROVE  MatchInv(m)'
<1>1. ShapeInv(m)'
    BY SMTT(30) DEF TInv, TypeOK, MatchTypes, PlayTypes, ConfigTypes, MatchInv,
        ShapeInv, Pair, Terminal, NoLedger, PauseMatch, parties, pauseVars
<1>2. ResultInv(m)'
    BY Zenon DEF TInv, TypeOK, MatchTypes, PlayTypes, ConfigTypes, MatchInv,
        ResultInv, HasDispute, NoLedger, Winner, PauseMatch, resultVars
<1>3. PaidInv(m)'
    BY Zenon DEF TInv, TypeOK, MatchTypes, PlayTypes, TokenTypes, MatchInv,
        ResultInv, PaidInv, Terminal, PauseMatch, parties
<1>4. IndexInv(m)'
    BY Zenon
    DEF TInv, TypeOK, MatchTypes, PlayerTypes, MatchInv, IndexInv, InPlay,
        Pair, PauseMatch, parties, indexVars
<1> QED
    BY Zenon, <1>1, <1>2, <1>3, <1>4 DEF MatchInv

\* resume_match keeps the invariant of the match.
LEMMA ResumeMatchInv ==
    ASSUME TInv, NEW m \in Matches, MatchInv(m),
           NEW p \in Players, ResumeMatch(m, p)
    PROVE  MatchInv(m)'
<1>1. ShapeInv(m)'
    BY Zenon DEF TInv, TypeOK, MatchTypes, PlayTypes, ConfigTypes, MatchInv,
        ShapeInv, Pair, Terminal, NoLedger, ResumeMatch, parties, pauseVars
<1>2. ResultInv(m)'
    BY Zenon DEF TInv, TypeOK, MatchTypes, PlayTypes, ConfigTypes, MatchInv,
        ResultInv, HasDispute, NoLedger, Winner, ResumeMatch, resultVars
<1>3. PaidInv(m)'
    BY Zenon DEF TInv, TypeOK, MatchTypes, PlayTypes, TokenTypes, MatchInv,
        ResultInv, PaidInv, Terminal, ResumeMatch, parties
<1>4. IndexInv(m)'
    BY Zenon
    DEF TInv, TypeOK, MatchTypes, PlayerTypes, MatchInv, IndexInv, InPlay,
        Pair, ResumeMatch, parties, indexVars
<1> QED
    BY Zenon, <1>1, <1>2, <1>3, <1>4 DEF MatchInv

\* heartbeat_match keeps the invariant of the match.
LEMMA HeartbeatMatchInv ==
    ASSUME TInv, NEW m \in Matches, MatchInv(m),
           NEW p \in Players, HeartbeatMatch(m, p)
    PROVE  MatchInv(m)'
<1>1. ShapeInv(m)'
    BY Zenon DEF TInv, TypeOK, MatchTypes, PlayTypes, ConfigTypes, MatchInv,
        ShapeInv, Pair, Terminal, NoLedger, HeartbeatMatch, parties, pauseVars
<1>2. ResultInv(m)'
    BY Zenon DEF TInv, TypeOK, MatchTypes, PlayTypes, ConfigTypes, MatchInv,
        ResultInv, HasDispute, NoLedger, Winner, HeartbeatMatch, resultVars
<1>3. PaidInv(m)'
    BY Zenon DEF TInv, TypeOK, MatchTypes, PlayTypes, TokenTypes, MatchInv,
        ResultInv, PaidInv, Terminal, HeartbeatMatch, parties
<1>4. IndexInv(m)'
    BY Zenon
    DEF TInv, TypeOK, MatchTypes, PlayerTypes, MatchInv, IndexInv, InPlay,
        Pair, HeartbeatMatch, parties, indexVars
<1> QED
    BY Zenon, <1>1, <1>2, <1>3, <1>4 DEF MatchInv

\* dispute_and_rollback_match keeps the invariant of the match.
LEMMA DisputeAndRollbackInv ==
    ASSUME TInv, NEW m \in Matches, MatchInv(m),
           NEW p \in Players, DisputeAndRollback(m, p)
    PROVE  MatchInv(m)'
<1>1. ShapeInv(m)'
    BY SMTT(30) DEF TInv, TypeOK, MatchTypes, PlayTypes, ConfigTypes, MatchInv,
        ShapeInv, Pair, Terminal, NoLedger, DisputeAndRollback, Agreed,
        Close, parties, pauseVars
<1>2. ResultInv(m)'
    BY Zenon DEF TInv, TypeOK, MatchTypes, PlayTypes, ConfigTypes, MatchInv,
        ResultInv, HasDispute, NoLedger, Winner, DisputeAndRollback, Close,
        resultVars
<1>3. PaidInv(m)'
    <2>1. CASE Agreed(m, rollbackVotes'[m])
        <3>1. \A q \in Players : /\ Refund(m, deposited[m])[q] \in Nat
                                 /\ paid'[m][q] = Refund(m, deposited[m])[q]
            BY Zenon, <2>1, FirstPay, ShareTypes
            DEF TInv, TypeOK, DisputeAndRollback, Terminal
        <3>2. state'[m] = "Cancelled"
            BY Zenon, <2>1 DEF TInv, TypeOK, MatchTypes, DisputeAndRollback, Close
        <3>3. (Refund(m, deposited[m]))' = Refund(m, deposited[m])
            BY Zenon DEF DisputeAndRollback, Refund, parties
        <3> QED
            BY Zenon, <3>1, <3>2, <3>3, CancelledPaid
    <2>2. CASE ~Agreed(m, rollbackVotes'[m])
        <3>1. state'[m] = "Active" /\ paid' = paid /\ state[m] = "Active"
            BY Zenon, <2>2 DEF DisputeAndRollback
        <3> QED
            BY Zenon, <3>1 DEF MatchInv, PaidInv, Terminal
    <2> QED
        BY Zenon, <2>1, <2>2
<1>4. IndexInv(m)'
    <2>0. state[m] = "Active" /\ p1' = p1 /\ p2' = p2
        BY Zenon DEF DisputeAndRollback, parties
    <2>1. CASE Agreed(m, rollbackVotes'[m])
        <3>1. state'[m] = "Cancelled" /\ Unindex(m)
            BY Zenon, <2>1 DEF TInv, TypeOK, MatchTypes, DisputeAndRollback, Close
        <3> QED
            BY Zenon, <2>0, <3>1 DEF MatchInv, IndexInv, InPlay, Pair, Unindex
    <2>2. CASE ~Agreed(m, rollbackVotes'[m])
        <3>1. state' = state /\ active' = active
            BY Zenon, <2>2 DEF DisputeAndRollback, indexVars
        <3> QED
            BY Zenon, <2>0, <3>1 DEF MatchInv, IndexInv, InPlay, Pair
    <2> QED
        BY Zenon, <2>1, <2>2
<1> QED
    BY Zenon, <1>1, <1>2, <1>3, <1>4 DEF MatchInv

\* admin_resolve_stalled_match keeps the invariant of the match.
LEMMA AdminResolveStalledInv ==
    ASSUME TInv, NEW m \in Matches, MatchInv(m),
           NEW w \in Winner, AdminResolveStalled(m, w)
    PROVE  MatchInv(m)'
<1>1. ShapeInv(m)'
    BY Zenon DEF TInv, TypeOK, MatchTypes, PlayTypes, MatchInv, ShapeInv, Pair,
        Terminal, AdminResolveStalled, Stalled, Close, parties, pauseVars
<1>2. ResultInv(m)'
    BY Zenon
    DEF TInv, TypeOK, MatchTypes, MatchInv, ResultInv, HasDispute, Winner,
        AdminResolveStalled, Stalled, Close, resultVars
<1>3. PaidInv(m)'
    <2>1. \A q \in Players : /\ Payout(m, w)[q] \in Nat
                              /\ paid'[m][q] = Payout(m, w)[q]
        BY Zenon, FirstPay, ShareTypes
        DEF TInv, TypeOK, AdminResolveStalled, Stalled, Terminal
    <2>2. state'[m] = "Completed" /\ winner'[m] = w
        BY Zenon DEF TInv, TypeOK, MatchTypes, AdminResolveStalled, Close
    <2>3. state[m] \in {"Active", "Paused"}
        BY Zenon DEF AdminResolveStalled, Stalled
    <2>4. vestedAt[m] = NoLedger /\ claimed[m] = {} /\ ~HasDispute(m)
        BY Zenon, <2>3 DEF MatchInv, ResultInv
    <2>5. UNCHANGED <<parties, vestedAt, claimed, dispute>>
        BY Zenon DEF AdminResolveStalled
    <2>6. (Direct(m))' = Payout(m, w)
        BY Zenon, <2>2, <2>4, <2>5, SharesKept DEF Direct, HasDispute
    <2> QED
        BY Zenon, <2>1, <2>2, <2>4, <2>5, <2>6, CompletedPaid
<1>4. IndexInv(m)'
    BY Zenon DEF TInv, TypeOK, MatchTypes, PlayerTypes, MatchInv, IndexInv, InPlay,
        Pair, AdminResolveStalled, Unindex, Close, parties, indexVars
<1> QED
    BY Zenon, <1>1, <1>2, <1>3, <1>4 DEF MatchInv

\* submit_result and submit_draw keep the invariant of the match.
LEMMA SubmitResultInv ==
    ASSUME TInv, NEW m \in Matches, MatchInv(m),
           NEW w \in Winner, SubmitResult(m, w)
    PROVE  MatchInv(m)'
<1>1. ShapeInv(m)'
    <2>1. CASE disputePeriod = 0
        BY Zenon, <2>1
        DEF TInv, TypeOK, MatchTypes, MatchInv, ShapeInv, Pair, Terminal,
            SubmitResult, SettleResult, InPlay, Close, parties, pauseVars
    <2>2. CASE disputePeriod > 0
        BY ZenonT(90), <2>2
        DEF TInv, TypeOK, MatchTypes, MatchInv, ShapeInv, Pair, Terminal,
            SubmitResult, SettleResult, InPlay, Close, parties, pauseVars
    <2> QED
        BY Zenon, <2>1, <2>2 DEF SubmitResult, SettleResult
<1>2. ResultInv(m)'
    <2>1. winner'[m] = w /\ w # "None" /\ vestedAt'[m] # NoLedger
        BY DEF TInv, TypeOK, MatchTypes, ConfigTypes, SubmitResult,
            SettleResult, NoLedger
    <2>2. /\ claimed'[m] = {} /\ ~HasDispute(m) /\ dispute' = dispute
          /\ deadline[m] = NoLedger
        BY Zenon DEF MatchInv, ResultInv, SubmitResult, SettleResult, InPlay
    <2>3. CASE disputePeriod = 0
        <3>1. state'[m] = "Completed" /\ deadline' = deadline
            BY <2>3
            DEF TInv, TypeOK, MatchTypes, SubmitResult, SettleResult, Close,
                resultVars
        <3> QED
            BY Zenon, <2>1, <2>2, <3>1 DEF ResultInv, HasDispute
    <2>4. CASE disputePeriod > 0
        <3>1. /\ state'[m] = "PendingResult" /\ pendingWinner'[m] = w
              /\ deadline'[m] = now + disputePeriod
            BY <2>4
            DEF TInv, TypeOK, MatchTypes, PlayTypes, SubmitResult, SettleResult
        <3>2. now + disputePeriod # NoLedger
            BY SMTT(30) DEF TInv, TypeOK, ConfigTypes, NoLedger
        <3>3. deadline'[m] # NoLedger
            BY Zenon, <3>1, <3>2
        <3> QED
            BY Zenon, <2>1, <2>2, <3>1, <3>3 DEF ResultInv, HasDispute
    <2> QED
        BY Zenon, <2>3, <2>4 DEF SubmitResult, SettleResult
<1>3. PaidInv(m)'
    <2>0. now # NoLedger
        BY DEF TInv, TypeOK, ConfigTypes, NoLedger
    <2>1. paid' = paid /\ \A q \in Players : paid[m][q] = 0
        BY Zenon
        DEF MatchInv, PaidInv, Terminal, SubmitResult, SettleResult, InPlay
    <2>2. state'[m] \in {"Completed", "PendingResult"}
        BY Zenon DEF TInv, TypeOK, MatchTypes, SubmitResult, SettleResult, Close
    <2> DEFINE share == [q \in Players |-> 0]
    <2>3. ASSUME state'[m] = "Completed"
          PROVE  (Direct(m))' = share /\ claimed'[m] = {}
        <3>1. deadline' = deadline
            BY Zenon, <2>3
            DEF TInv, TypeOK, MatchTypes, SubmitResult, SettleResult, resultVars
        <3>2. vestedAt'[m] # NoLedger
            BY Zenon, <2>0
            DEF TInv, TypeOK, MatchTypes, SubmitResult, SettleResult
        <3>3. deadline[m] = NoLedger /\ claimed'[m] = {}
            BY Zenon
            DEF MatchInv, ResultInv, SubmitResult, SettleResult, InPlay
        <3> QED
            BY Zenon, <3>1, <3>2, <3>3 DEF Direct
    <2>4. CASE state'[m] = "Completed"
        <3>1. \A q \in Players : share[q] \in Nat /\ paid'[m][q] = share[q]
            BY Zenon, <2>1
        <3> HIDE DEF share
        <3> QED
            BY Zenon, <2>3, <2>4, <3>1, CompletedPaid
    <2>5. CASE state'[m] = "PendingResult"
        BY Zenon, <2>1, <2>5 DEF PaidInv, Terminal
    <2> QED
        BY Zenon, <2>2, <2>4, <2>5
<1>4. IndexInv(m)'
    BY Zenon
    DEF TInv, TypeOK, MatchTypes, PlayerTypes, MatchInv, IndexInv, InPlay,
        Pair, SubmitResult, SettleResult, Unindex, Close, parties, indexVars
<1> QED
    BY Zenon, <1>1, <1>2, <1>3, <1>4 DEF MatchInv

\* finalize_match keeps the invariant of the match.
LEMMA FinalizeMatchInv ==
    ASSUME TInv, NEW m \in Matches, MatchInv(m),
           FinalizeMatch(m)
    PROVE  MatchInv(m)'
<1>1. ShapeInv(m)'
    BY Zenon DEF TInv, TypeOK, MatchTypes, PlayTypes, ConfigTypes, MatchInv,
        ShapeInv, Pair, Terminal, NoLedger, FinalizeMatch, Close, parties,
        pauseVars
<1>2. ResultInv(m)'
    BY Zenon DEF TInv, TypeOK, MatchTypes, PlayTypes, ConfigTypes, MatchInv,
        ResultInv, HasDispute, NoLedger, Winner, FinalizeMatch, Close,
        resultVars
<1>3. PaidInv(m)'
    <2> DEFINE share == Payout(m, pendingWinner[m])
    <2>1. \A q \in Players : share[q] \in Nat /\ paid'[m][q] = share[q]
        BY Zenon, FirstPay, ShareTypes
        DEF TInv, TypeOK, FinalizeMatch, Terminal
    <2>2. state'[m] = "Completed"
        BY Zenon DEF TInv, TypeOK, MatchTypes, FinalizeMatch, Close
    <2>3. state[m] = "PendingResult" /\ dispute[m].state = "None"
        BY Zenon DEF FinalizeMatch, HasDispute
    <2>4. /\ deadline[m] # NoLedger /\ claimed[m] = {}
          /\ winner[m] = pendingWinner[m]
        BY Zenon, <2>3 DEF MatchInv, ResultInv
    <2>5. UNCHANGED <<parties, vestedAt, deadline, claimed, winner, dispute>>
        BY Zenon DEF FinalizeMatch, resultVars
    <2>6. (Direct(m))' = share
        BY Zenon, <2>3, <2>4, <2>5, SharesKept DEF Direct
    <2> QED
        BY Zenon, <2>1, <2>2, <2>4, <2>5, <2>6, CompletedPaid
<1>4. IndexInv(m)'
    BY Zenon
    DEF TInv, TypeOK, MatchTypes, PlayerTypes, MatchInv, IndexInv, InPlay,
        Pair, FinalizeMatch, Unindex, Close, parties, indexVars
<1> QED
    BY Zenon, <1>1, <1>2, <1>3, <1>4 DEF MatchInv

\* claim_vested_payout keeps the invariant of the match.
LEMMA ClaimVestedPayoutInv ==
    ASSUME TInv, NEW m \in Matches, MatchInv(m),
           NEW p \in Players, ClaimVestedPayout(m, p)
    PROVE  MatchInv(m)'
<1>1. ShapeInv(m)'
    BY Zenon DEF TInv, TypeOK, MatchTypes, PlayTypes, ConfigTypes, MatchInv,
        ShapeInv, Pair, Terminal, NoLedger, ClaimVestedPayout, parties,
        pauseVars
<1>2. ResultInv(m)'
    BY Zenon DEF TInv, TypeOK, MatchTypes, PlayTypes, ConfigTypes, MatchInv,
        ResultInv, HasDispute, NoLedger, Winner, ClaimVestedPayout, Vested,
        resultVars
<1>3. PaidInv(m)'
    <2> DEFINE due == Payout(m, winner[m])
               share == [q \in Players |-> IF q = p THEN due[p] ELSE 0]
    <2>1. due \in [Players -> Nat]
        BY Zenon, ShareTypes DEF TInv, TypeOK
    <2>2. share \in [Players -> Nat]
        BY Zenon, <2>1
    <2>3. \A q \in Players : paid'[m][q] = paid[m][q] + share[q]
        BY Zenon, <2>2, PayEffect DEF TInv, TypeOK, ClaimVestedPayout
    <2>4. \A u : (Payout(m, u))' = Payout(m, u)
        BY Zenon, SharesKept DEF ClaimVestedPayout
    <2>5. (Direct(m))' = Direct(m) /\ (Payout(m, winner[m]))' = due
        BY Zenon, <2>4 DEF ClaimVestedPayout, Direct, resultVars
    <2>6. \A q \in Players : Direct(m)[q] \in Nat
        BY Zenon, ShareTypes DEF TInv, TypeOK, Direct
    <2>7. state[m] = "Completed" /\ state' = state
        BY Zenon DEF ClaimVestedPayout
    <2>8. p \notin claimed[m] /\ claimed'[m] = claimed[m] \cup {p}
        BY Zenon DEF TInv, TypeOK, MatchTypes, ClaimVestedPayout, MayClaim
    <2>9. \A q \in Players :
              paid[m][q] = Direct(m)[q] + (IF q \in claimed[m] THEN due[q] ELSE 0)
        BY Zenon, <2>7 DEF MatchInv, PaidInv
    <2>10. ASSUME NEW q \in Players
           PROVE  paid'[m][q]
                     = Direct(m)[q] + (IF q \in claimed'[m] THEN due[q] ELSE 0)
        <3> HIDE DEF due
        <3>1. due[q] \in Nat /\ Direct(m)[q] \in Nat
            BY Zenon, <2>1, <2>6
        <3>2. CASE q = p
            BY SMTT(30), <2>3, <2>8, <2>9, <3>1, <3>2
        <3>3. CASE q # p
            BY SMTT(30), <2>3, <2>8, <2>9, <3>1, <3>3
        <3> QED
            BY Zenon, <3>2, <3>3
    <2> QED
        BY Zenon, <2>5, <2>7, <2>10 DEF PaidInv, Terminal
<1>4. IndexInv(m)'
    BY Zenon
    DEF TInv, TypeOK, MatchTypes, PlayerTypes, MatchInv, IndexInv, InPlay,
        Pair, ClaimVestedPayout, parties, indexVars
<1> QED
    BY Zenon, <1>1, <1>2, <1>3, <1>4 DEF MatchInv

\* dispute_oracle_result keeps the invariant of the match.
LEMMA DisputeOracleResultInv ==
    ASSUME TInv, NEW m \in Matches, MatchInv(m),
           NEW p \in Players, DisputeOracleResult(m, p)
    PROVE  MatchInv(m)'
<1>1. ShapeInv(m)'
    BY Zenon DEF TInv, TypeOK, MatchTypes, PlayTypes, ConfigTypes, MatchInv,
        ShapeInv, Pair, Terminal, NoLedger, DisputeOracleResult, parties,
        pauseVars
<1>2. ResultInv(m)'
    BY Zenon DEF TInv, TypeOK, MatchTypes, PlayTypes, ConfigTypes, MatchInv,
        ResultInv, HasDispute, NoLedger, Winner, DisputeOracleResult,
        resultVars
<1>3. PaidInv(m)'
    BY Zenon DEF TInv, TypeOK, MatchTypes, PlayTypes, TokenTypes, MatchInv,
        ResultInv, PaidInv, Terminal, DisputeOracleResult, parties
<1>4. IndexInv(m)'
    BY Zenon DEF TInv, TypeOK, MatchTypes, PlayerTypes, MatchInv, IndexInv, InPlay,
        Pair, DisputeOracleResult, parties, indexVars
<1> QED
    BY Zenon, <1>1, <1>2, <1>3, <1>4 DEF MatchInv

\* vote_on_dispute keeps the invariant of the match.
LEMMA VoteOnDisputeInv ==
    ASSUME TInv, NEW m \in Matches, MatchInv(m),
           NEW v \in Players, NEW yes \in BOOLEAN, VoteOnDispute(m, v, yes)
    PROVE  MatchInv(m)'
<1>1. ShapeInv(m)'
    BY Zenon DEF TInv, TypeOK, MatchTypes, PlayTypes, ConfigTypes, MatchInv,
        ShapeInv, Pair, Terminal, NoLedger, VoteOnDispute, parties, pauseVars
<1>2. ResultInv(m)'
    BY Zenon, VoteKeepsState
    DEF MatchInv, ResultInv, HasDispute, VoteOnDispute, resultVars
<1>3. PaidInv(m)'
    <2>1. \A u : (Payout(m, u))' = Payout(m, u)
        BY Zenon, SharesKept DEF VoteOnDispute
    <2>2. (Direct(m))' = Direct(m) /\ (Payout(m, winner[m]))' = Payout(m, winner[m])
        BY Zenon, <2>1, VoteKeepsState DEF VoteOnDispute, Direct, resultVars
    <2>3. (Refund(m, deposited[m]))' = Refund(m, deposited[m])
        BY Zenon DEF VoteOnDispute, Refund, parties
    <2>4. UNCHANGED <<state, activatedAt, claimed, paid>>
        BY Zenon DEF VoteOnDispute
    <2> QED
        BY Zenon, <2>2, <2>3, <2>4 DEF MatchInv, PaidInv, Terminal
<1>4. IndexInv(m)'
    BY Zenon
    DEF TInv, TypeOK, MatchTypes, PlayerTypes, MatchInv, IndexInv, InPlay,
        Pair, VoteOnDispute, parties, indexVars
<1> QED
    BY Zenon, <1>1, <1>2, <1>3, <1>4 DEF MatchInv

\* resolve_dispute_by_vote keeps the invariant of the match.
LEMMA ResolveDisputeInv ==
    ASSUME TInv, NEW m \in Matches, MatchInv(m),
           ResolveDispute(m)
    PROVE  MatchInv(m)'
<1>1. ShapeInv(m)'
    BY Zenon DEF TInv, TypeOK, MatchTypes, PlayTypes, ConfigTypes, MatchInv,
        ShapeInv, Pair, Terminal, NoLedger, ResolveDispute, Close, parties,
        pauseVars
<1>2. ResultInv(m)'
    BY SMTT(30) DEF TInv, TypeOK, MatchTypes, PlayTypes, ConfigTypes, MatchInv,
        ResultInv, HasDispute, NoLedger, Winner, ResolveDispute, Close,
        resultVars
<1>3. PaidInv(m)'
    <2> DEFINE share == Payout(m, Verdict(m))
    <2>1. state[m] = "PendingResult" /\ HasDispute(m)
        BY Zenon DEF ResolveDispute, HasDispute
    <2>2. \A q \in Players : paid[m][q] = 0
        BY Zenon, <2>1 DEF MatchInv, PaidInv, Terminal
    <2>3. \A q \in Players : paid'[m][q] = paid[m][q] + share[q]
        BY Zenon DEF TInv, TypeOK, TokenTypes, ResolveDispute
    <2>4. \A q \in Players : share[q] \in Nat
        BY Zenon, ShareTypes DEF TInv, TypeOK
    <2>5. state'[m] = "Completed"
        BY Zenon DEF TInv, TypeOK, MatchTypes, ResolveDispute, Close
    <2>6. /\ deadline[m] # NoLedger /\ claimed[m] = {}
          /\ winner[m] = pendingWinner[m]
        BY Zenon, <2>1 DEF MatchInv, ResultInv
    <2>7. UNCHANGED <<parties, vestedAt, deadline, claimed, winner>>
        BY Zenon DEF ResolveDispute, resultVars
    <2>8. dispute'[m].state = IF dispute[m].yes > dispute[m].no
                              THEN "Overturned" ELSE "Upheld"
        BY Zenon DEF TInv, TypeOK, DisputeRecord, ResolveDispute
    <2>9. (Direct(m))' = share
        BY Zenon, <2>6, <2>7, <2>8, SharesKept DEF Direct, Verdict
    <2> HIDE DEF share
    <2>10. \A q \in Players : share[q] \in Nat /\ paid'[m][q] = share[q]
        BY <2>2, <2>3, <2>4
    <2> QED
        BY Zenon, <2>5, <2>6, <2>7, <2>9, <2>10, CompletedPaid
<1>4. IndexInv(m)'
    BY Zenon DEF TInv, TypeOK, MatchTypes, PlayerTypes, MatchInv, IndexInv, InPlay,
        Pair, ResolveDispute, Unindex, Close, parties, indexVars
<1> QED
    BY Zenon, <1>1, <1>2, <1>3, <1>4 DEF MatchInv

(***************************************************************************)
(* The invariant, and what follows from it.                                *)
(***************************************************************************)
\* Administrative calls and the clock change no match.
LEMMA AdminSame ==
    ASSUME NEW n \in Matches, Tick \/ AdminStep \/ UNCHANGED vars
    PROVE  Same(n)
<1>1. UNCHANGED matchAndTokenVars
    BY Zenon
    DEF Tick, AdminStep, PauseContract, UnpauseContract, FreezePlayer,
        UnfreezePlayer, AddTokenToBlacklist, RemoveTokenFromBlacklist,
        SetDisputePeriod, SetMatchTimeout, vars, matchAndTokenVars
<1> QED
    BY Zenon, <1>1
    DEF Same, matchAndTokenVars, parties, pauseVars, resultVars, indexVars

\* A freshly initialised contract satisfies the invariant.
LEMMA InitIInv ==
    ASSUME Init
    PROVE  IInv
<1>1. TInv
    BY Zenon, InitTInv
<1> SUFFICES ASSUME NEW m \in Matches
             PROVE  MatchInv(m)
    BY Zenon, <1>1 DEF IInv
<1>2. ShapeInv(m)
    BY Zenon DEF Init, ShapeInv, Pair, Terminal
<1>3. ResultInv(m)
    BY Zenon DEF Init, ResultInv, HasDispute, NoDispute
<1>4. PaidInv(m) /\ IndexInv(m)
    BY Zenon DEF Init, PaidInv, IndexInv, Terminal, InPlay
<1> QED
    BY Zenon, <1>2, <1>3, <1>4 DEF MatchInv

\* Every operation on a match keeps the invariant of that match.
LEMMA MatchStepInv ==
    ASSUME TInv, NEW m \in Matches, MatchInv(m), MatchStep(m)
    PROVE  MatchInv(m)'
    BY Zenon, CreateMatchInv, DepositInv, CancelMatchInv, ExpireMatchInv,
       AdminRecoverMatchInv, PauseMatchInv, ResumeMatchInv, HeartbeatMatchInv,
       DisputeAndRollbackInv, AdminResolveStalledInv, SubmitResultInv,
       FinalizeMatchInv, ClaimVestedPayoutInv, DisputeOracleResultInv,
       VoteOnDisputeInv, ResolveDisputeInv
    DEF MatchStep

\* Every step of the contract keeps the invariant of every match.
LEMMA NextIInv ==
    ASSUME IInv, [Next]_vars
    PROVE  IInv'
<1>1. TInv'
    BY Zenon, NextTInv DEF IInv
<1> SUFFICES ASSUME NEW n \in Matches
             PROVE  MatchInv(n)'
    BY Zenon, <1>1 DEF IInv
<1>2. TInv /\ MatchInv(n)
    BY Zenon DEF IInv
<1>3. CASE Tick \/ AdminStep \/ UNCHANGED vars
    BY Zenon, <1>2, <1>3, AdminSame, Framed
<1>4. ASSUME NEW m \in Matches, MatchStep(m)
      PROVE  MatchInv(n)'
    BY Zenon, <1>2, <1>4, MatchStepInv, OthersSame, Framed
<1> QED
    BY Zenon, <1>3, <1>4 DEF Next

\* The inductive invariant holds in every reachable state of every instance.
THEOREM InvariantHolds == Spec => []IInv
<1>1. Init => IInv
    BY Zenon, InitIInv
<1>2. IInv /\ [Next]_vars => IInv'
    BY Zenon, NextIInv
<1> QED
    BY <1>1, <1>2, PTL DEF Spec

\* A payout is a natural number for every player.
LEMMA DueFacts ==
    ASSUME IInv, NEW m \in Matches, NEW p \in Players
    PROVE  /\ Payout(m, winner[m])[p] \in Nat
           /\ Refund(m, deposited[m])[p] \in Nat
           /\ paid[m][p] \in Nat
    BY Zenon, ShareTypes DEF IInv, TInv, TypeOK, TokenTypes

\* No interleaving of cancellation, expiry, recovery, rollback, admin
\* resolution and vested claims pays a player more than the outcome of the
\* match gives that player, unless the result waited for a dispute period.
THEOREM NoOverpayment == Spec => []NeverOverpaid
<1>1. IInv => NeverOverpaid
    <2> SUFFICES ASSUME IInv, NEW m \in Matches, NEW p \in Players,
                        deadline[m] = NoLedger
                 PROVE  paid[m][p] <= Due(m, p)
        BY Zenon DEF NeverOverpaid
    <2>1. ResultInv(m) /\ PaidInv(m)
        BY Zenon DEF IInv, MatchInv
    <2>2. CASE state[m] = "Completed"
        <3>1. CASE vestedAt[m] = NoLedger
            <4>1. Direct(m) = Payout(m, winner[m]) /\ claimed[m] = {}
                BY <2>1, <2>2, <3>1, Zenon DEF ResultInv, HasDispute, Direct
            <4> QED
                BY <2>1, <2>2, <4>1, DueFacts DEF PaidInv, Due
        <3>2. CASE vestedAt[m] # NoLedger
            <4>1. Direct(m)[p] = 0
                BY Zenon, <3>2 DEF Direct
            <4> QED
                BY <2>1, <2>2, <4>1, DueFacts DEF PaidInv, Due
        <3> QED
            BY Zenon, <3>1, <3>2
    <2>3. CASE state[m] = "Cancelled"
        BY Zenon, <2>1, <2>3, DueFacts DEF PaidInv, Due
    <2>4. CASE ~Terminal(m)
        BY SMTT(30), <2>1, <2>4, DueFacts DEF PaidInv, Due, Terminal
    <2> QED
        BY Zenon, <2>2, <2>3, <2>4 DEF Terminal
<1> QED
    BY <1>1, InvariantHolds, PTL

\* A rolled-back match has refunded both stakes, and an admin resolution and a
\* vested claim have paid the full share.
THEOREM NoUnderpayment == Spec => []NeverUnderpaid
<1>1. IInv => NeverUnderpaid
    <2> SUFFICES ASSUME IInv, NEW m \in Matches, NEW p \in Players,
                        ~(state[m] = "Cancelled" /\ activatedAt[m] = NoLedger),
                        ~(/\ state[m] = "Completed" /\ vestedAt[m] # NoLedger
                          /\ p \notin claimed[m])
                 PROVE  paid[m][p] >= Due(m, p)
        BY Zenon DEF NeverUnderpaid
    <2>1. ResultInv(m) /\ PaidInv(m)
        BY Zenon DEF IInv, MatchInv
    <2>2. CASE state[m] = "Completed"
        <3>1. CASE vestedAt[m] = NoLedger
            <4>1. Direct(m) = Payout(m, winner[m]) /\ claimed[m] = {}
                BY <2>1, <2>2, <3>1, Zenon DEF ResultInv, HasDispute, Direct
            <4> QED
                BY <2>1, <2>2, <4>1, DueFacts DEF PaidInv, Due
        <3>2. CASE vestedAt[m] # NoLedger
            <4>1. Direct(m)[p] \in Nat
                BY Zenon, ShareTypes DEF IInv, TInv, TypeOK, Direct
            <4> QED
                BY SMTT(30), <2>1, <2>2, <3>2, <4>1, DueFacts DEF PaidInv, Due
        <3> QED
            BY Zenon, <3>1, <3>2
    <2>3. CASE state[m] = "Cancelled"
        BY Zenon, <2>1, <2>3, DueFacts DEF PaidInv, Due
    <2>4. CASE ~Terminal(m)
        BY <2>1, <2>4, DueFacts DEF PaidInv, Due, Terminal
    <2> QED
        BY Zenon, <2>2, <2>3, <2>4 DEF Terminal
<1> QED
    BY <1>1, InvariantHolds, PTL

\* Whatever the order of operations, the fields of a match agree with its
\* state.
THEOREM LifecycleHolds == Spec => []LifecycleConsistent
<1>1. IInv => LifecycleConsistent
    BY Zenon DEF IInv, MatchInv, ShapeInv, ResultInv, LifecycleConsistent
<1> QED
    BY <1>1, InvariantHolds, PTL

\* The active-match index is exact whichever way a match leaves play.
THEOREM IndexExact == Spec => []ActiveIndexExact
<1>1. IInv => ActiveIndexExact
    BY Zenon DEF IInv, MatchInv, IndexInv, ActiveIndexExact
<1> QED
    BY <1>1, InvariantHolds, PTL

\* A match that was played is cancelled only with both players' rollback votes.
THEOREM ConsentHolds == Spec => []MutualConsent
<1>1. IInv => MutualConsent
    BY Zenon DEF IInv, MatchInv, ShapeInv, MutualConsent
<1> QED
    BY <1>1, InvariantHolds, PTL

\* finalize_match never overtakes an open dispute, and a dispute is resolved
\* exactly when its match completes.
THEOREM DisputeHolds == Spec => []DisputeHoldsResult
<1>1. IInv => DisputeHoldsResult
    BY Zenon DEF IInv, TInv, TypeOK, MatchInv, ResultInv, HasDispute,
        DisputeHoldsResult
<1> QED
    BY <1>1, InvariantHolds, PTL

\* A result that waited for a dispute period is paid once, as the vote decided,
\* until a vested claim is added to it.
THEOREM VerdictIsPaid == Spec => []PaidByVerdict
<1>1. IInv => PaidByVerdict
    <2> SUFFICES ASSUME IInv, NEW m \in Matches, state[m] = "Completed",
                        deadline[m] # NoLedger, claimed[m] = {}
                 PROVE  paid[m] = Direct(m)
        BY Zenon DEF PaidByVerdict, Direct
    <2>1. \A p \in Players : paid[m][p] = Direct(m)[p] + 0
        BY Zenon DEF IInv, MatchInv, PaidInv
    <2>2. Direct(m) \in [Players -> Nat]
        BY Zenon, ShareTypes DEF IInv, TInv, TypeOK, Direct
    <2>3. paid[m] \in [Players -> Nat]
        BY Zenon DEF IInv, TInv, TypeOK, TokenTypes
    <2>4. \A p \in Players : paid[m][p] = Direct(m)[p]
        BY <2>1, <2>2
    <2> QED
        BY <2>2, <2>3, <2>4
<1> QED
    BY <1>1, InvariantHolds, PTL

\* No operation on a terminal match moves it again, and none replaces a
\* recorded result.
LEMMA FinalStep ==
    ASSUME IInv, NEW m \in Matches, MatchStep(m)
    PROVE  /\ Terminal(m) => state'[m] = state[m]
           /\ winner[m] # "None" => winner'[m] = winner[m]
<1>0. /\ winner[m] # "None" <=> state[m] \in {"PendingResult", "Completed"}
      /\ HasDispute(m) => (dispute[m].state = "Active" <=> state[m] = "PendingResult")
    BY Zenon DEF IInv, MatchInv, ResultInv
<1>1. CASE \E a, b \in Players, s \in Stakes : CreateMatch(m, a, b, s)
    BY Zenon, <1>0, <1>1 DEF Terminal, CreateMatch
<1>2. CASE \E p \in Players : Deposit(m, p)
    BY Zenon, <1>0, <1>2 DEF Terminal, Deposit
<1>3. CASE \E p \in Players : CancelMatch(m, p)
    BY Zenon, <1>0, <1>3 DEF Terminal, CancelMatch, RefundPending
<1>4. CASE ExpireMatch(m)
    BY Zenon, <1>0, <1>4 DEF Terminal, ExpireMatch, RefundPending
<1>5. CASE \E R \in SUBSET Players : AdminRecoverMatch(m, R)
    BY Zenon, <1>0, <1>5 DEF Terminal, AdminRecoverMatch
<1>6. CASE \E p \in Players : PauseMatch(m, p)
    BY Zenon, <1>0, <1>6 DEF Terminal, PauseMatch
<1>7. CASE \E p \in Players : ResumeMatch(m, p)
    BY Zenon, <1>0, <1>7 DEF Terminal, ResumeMatch
<1>8. CASE \E p \in Players : HeartbeatMatch(m, p)
    BY Zenon, <1>0, <1>8 DEF Terminal, HeartbeatMatch
<1>9. CASE \E p \in Players : DisputeAndRollback(m, p)
    BY Zenon, <1>0, <1>9 DEF Terminal, DisputeAndRollback
<1>10. CASE \E w \in Winner : AdminResolveStalled(m, w)
    BY Zenon, <1>0, <1>10 DEF Terminal, AdminResolveStalled, Stalled
<1>11. CASE \E w \in Winner : SubmitResult(m, w)
    BY Zenon, <1>0, <1>11 DEF Terminal, SubmitResult, SettleResult, InPlay
<1>12. CASE FinalizeMatch(m)
    BY Zenon, <1>0, <1>12 DEF Terminal, FinalizeMatch, Close
<1>13. CASE \E p \in Players : ClaimVestedPayout(m, p)
    BY Zenon, <1>0, <1>13 DEF Terminal, ClaimVestedPayout
<1>14. CASE \E p \in Players : DisputeOracleResult(m, p)
    BY Zenon, <1>0, <1>14 DEF Terminal, DisputeOracleResult
<1>15. CASE \E v \in Players, yes \in BOOLEAN : VoteOnDispute(m, v, yes)
    BY Zenon, <1>0, <1>15 DEF Terminal, VoteOnDispute
<1>16. CASE ResolveDispute(m)
    BY Zenon, <1>0, <1>16 DEF Terminal, ResolveDispute, Close
<1> QED
    BY Zenon, <1>1, <1>2, <1>3, <1>4, <1>5, <1>6, <1>7, <1>8,
       <1>9, <1>10, <1>11, <1>12, <1>13, <1>14, <1>15, <1>16
    DEF MatchStep

\* Once terminal a match never changes state again, and a recorded result is
\* never replaced, by any step of the contract.
THEOREM OutcomesAreFinal == Spec => OutcomeIsFinal
<1> DEFINE Kept(m) == /\ Terminal(m) => state'[m] = state[m] /\ stamped'[m]
                      /\ winner[m] # "None" => winner'[m] = winner[m]
<1>1. IInv /\ IInv' /\ [Next]_vars => [\A m \in Matches : Kept(m)]_vars
    <2> SUFFICES ASSUME IInv, IInv', Next, NEW n \in Matches
                 PROVE  Kept(n)
        BY Zenon
    <2>1. /\ Terminal(n) => state'[n] = state[n]
          /\ winner[n] # "None" => winner'[n] = winner[n]
        <3>1. CASE Tick \/ AdminStep
            BY Zenon, <3>1, AdminSame DEF Same
        <3>2. ASSUME NEW m \in Matches, MatchStep(m)
              PROVE  /\ Terminal(n) => state'[n] = state[n]
                     /\ winner[n] # "None" => winner'[n] = winner[n]
            <4>1. CASE n = m
                BY Zenon, <3>2, <4>1, FinalStep
            <4>2. CASE n # m
                BY Zenon, <3>2, <4>2, OthersSame DEF Same, IInv
            <4> QED
                BY Zenon, <4>1, <4>2
        <3> QED
            BY Zenon, <3>1, <3>2 DEF Next
    <2>2. Terminal(n)' => stamped'[n]
        BY Zenon DEF IInv, MatchInv, ShapeInv
    <2> QED
        BY Zenon, <2>1, <2>2 DEF Terminal
<1> QED
    BY <1>1, InvariantHolds, PTL DEF Spec, OutcomeIsFinal

-----------------------------------------------------------------------------
(***************************************************************************)
(* The accounts, over all matches and players.                             *)
(***************************************************************************)

\* Administrative calls and the clock leave matches, records and tokens alone.
LEMMA AdminKeeps ==
    ASSUME Tick \/ AdminStep \/ UNCHANGED vars
    PROVE  UNCHANGED matchAndTokenVars
    BY Zenon
    DEF Tick, AdminStep, PauseContract, UnpauseContract, FreezePlayer,
        UnfreezePlayer, AddTokenToBlacklist, RemoveTokenFromBlacklist,
        SetDisputePeriod, SetMatchTimeout, vars, matchAndTokenVars

-----------------------------------------------------------------------------
(* Money.                                                                  *)

\* What the match owes the balance: what it took in less what it paid out.
Inflow(m) == Deposits(m) + OpenBond(m)

AmountsOK ==
    \A m \in Matches :
        Deposits(m) \in Nat /\ OpenBond(m) \in Nat /\ PaidOut(m) \in Nat

\* All amounts are natural numbers.
LEMMA AmountTypes == TypeOK => AmountsOK
<1> SUFFICES ASSUME TypeOK, NEW m \in Matches
             PROVE  Deposits(m) \in Nat /\ OpenBond(m) \in Nat /\ PaidOut(m) \in Nat
    BY DEF AmountsOK
<1>1. IsFiniteSet(Players) /\ deposited[m] \in SUBSET Players /\ stake[m] \in Nat
    BY FiniteAssumption, Zenon DEF TypeOK, MatchTypes
<1>2. IsFiniteSet(deposited[m])
    BY <1>1, FS_Subset, Zenon
<1>3. Deposits(m) \in Nat
    <2>1. \A p \in deposited[m] : [q \in Players |-> stake[m]][p] \in Nat
        BY <1>1, Zenon
    <2> QED
        BY <1>2, <2>1, SumType, Zenon DEF Deposits
<1>4. PaidOut(m) \in Nat
    <2>1. \A p \in Players : paid[m][p] \in Nat
        BY Zenon DEF TypeOK, TokenTypes
    <2> QED
        BY <1>1, <2>1, SumType, Zenon DEF PaidOut
<1>5. dispute[m] \in DisputeRecord
    BY Zenon DEF TypeOK
<1>6. dispute[m].bond \in Nat
    BY <1>5 DEF DisputeRecord
<1>7. OpenBond(m) \in Nat
    BY <1>6 DEF OpenBond
<1> QED
    BY <1>3, <1>4, <1>7

\* So they are after a step.
LEMMA AmountTypesNext == TypeOK' => AmountsOK'
    BY AmountTypes, PTL

\* A step leaves the amounts of the other matches alone.
LEMMA AmountsFramed ==
    ASSUME NEW n \in Matches, Same(n)
    PROVE  /\ (Deposits(n))' = Deposits(n) /\ (OpenBond(n))' = OpenBond(n)
           /\ (PaidOut(n))' = PaidOut(n)
    BY Zenon DEF Same, Deposits, OpenBond, PaidOut

\* Conservation is kept by a step on match m whose transfers are those of m.
LEMMA MoneyFramed ==
    ASSUME TypeOK, TypeOK', NEW m \in Matches, \A n \in Matches : n # m => Same(n),
           Conservation,
           balance' + (PaidOut(m))' + Inflow(m) = balance + PaidOut(m) + (Inflow(m))'
    PROVE  Conservation'
<1> DEFINE out == [n \in Matches |-> PaidOut(n)]
           in  == [n \in Matches |-> Deposits(n) + OpenBond(n)]
<1>1. IsFiniteSet(Matches)
    BY FiniteAssumption
<1>2. \A n \in Matches : out[n] \in Nat /\ in[n] \in Nat
    BY AmountTypes DEF AmountsOK
<1>3. \A n \in Matches : out'[n] \in Nat /\ in'[n] \in Nat
    BY AmountTypesNext DEF AmountsOK
<1>4. \A n \in Matches : n # m => out'[n] = out[n] /\ in'[n] = in[n]
    BY AmountsFramed
<1>5. SumOver(out', Matches) + out[m] = SumOver(out, Matches) + out'[m]
    <2> HIDE DEF out
    <2> QED
        BY <1>1, <1>2, <1>3, <1>4, SumChange
<1>6. SumOver(in', Matches) + in[m] = SumOver(in, Matches) + in'[m]
    <2> HIDE DEF in
    <2> QED
        BY <1>1, <1>2, <1>3, <1>4, SumChange
<1>7. SumOver(out, Matches) \in Nat /\ SumOver(in, Matches) \in Nat
    <2> HIDE DEF out, in
    <2> QED
        BY <1>1, <1>2, SumType, Zenon
<1>8. SumOver(out', Matches) \in Nat /\ SumOver(in', Matches) \in Nat
    <2> HIDE DEF out, in
    <2> QED
        BY <1>1, <1>3, SumType, Zenon
<1>9. balance + SumOver(out, Matches) = SumOver(in, Matches)
    BY DEF Conservation
<1>10. balance' + out'[m] + in[m] = balance + out[m] + in'[m]
    BY DEF Inflow
<1>11. balance \in Nat /\ balance' \in Nat
    BY DEF TypeOK, TokenTypes
<1>12. balance' + SumOver(out', Matches) = SumOver(in', Matches)
    <2> HIDE DEF out, in
    <2> QED
        BY <1>2, <1>3, <1>5, <1>6, <1>7, <1>8, <1>9, <1>10, <1>11
<1> QED
    BY <1>12 DEF Conservation

\* The transfers of a step on match m are those its own amounts account for.
Accounted(m) ==
    balance' + (PaidOut(m))' + Inflow(m) = balance + PaidOut(m) + (Inflow(m))'

\* A step without a transfer is accounted for.
LEMMA QuietAccounted ==
    ASSUME NEW m \in Matches, balance' = balance, paid' = paid,
           (Deposits(m))' = Deposits(m), (OpenBond(m))' = OpenBond(m)
    PROVE  Accounted(m)
<1>1. (PaidOut(m))' = PaidOut(m) /\ (Inflow(m))' = Inflow(m)
    BY Zenon DEF PaidOut, Inflow
<1> QED
    BY Zenon, <1>1 DEF Accounted

\* Shares of the two players of a match add up to what Pay takes from the
\* balance.
LEMMA PairTotal ==
    ASSUME TInv, NEW m \in Matches, state[m] # "Unused",
           NEW share \in [Players -> Nat],
           \A p \in Players : p \notin Pair(m) => share[p] = 0
    PROVE  SumOver(share, Players) = Total(m, share) /\ Total(m, share) \in Nat
<1> DEFINE zero == [p \in Players |-> 0]
<1>1. IsFiniteSet(Players)
    BY FiniteAssumption
<1>2. p1[m] \in Players /\ p2[m] \in Players /\ p1[m] # p2[m]
    BY Zenon DEF TInv, PartiesOK
<1>3. SumOver(zero, Players) = 0
    BY <1>1, SumZero
<1>4. \A p \in Players : zero[p] \in Nat /\ share[p] \in Nat
    OBVIOUS
<1>5. \A p \in Players : p # p1[m] /\ p # p2[m] => share[p] = zero[p]
    BY DEF Pair
<1>6. zero[p1[m]] = 0 /\ zero[p2[m]] = 0
    BY <1>2, Zenon
<1> HIDE DEF zero
<1>7. SumOver(share, Players) + (zero[p1[m]] + zero[p2[m]])
          = SumOver(zero, Players) + (share[p1[m]] + share[p2[m]])
    BY <1>1, <1>2, <1>4, <1>5, SumChangeTwo
<1>8. SumOver(share, Players) \in Nat
    BY <1>1, <1>4, SumType, Zenon
<1>9. share[p1[m]] \in Nat /\ share[p2[m]] \in Nat
    BY <1>2, Zenon
<1> QED
    BY <1>3, <1>6, <1>7, <1>8, <1>9, SMT DEF Total

\* A payment to the players of the match is accounted for.
LEMMA PayAccounted ==
    ASSUME TInv, NEW m \in Matches, state[m] # "Unused",
           NEW share \in [Players -> Nat],
           \A p \in Players : p \notin Pair(m) => share[p] = 0,
           NEW bond \in Nat, balance' = balance - Total(m, share) - bond,
           paid' = [paid EXCEPT ![m] = [p \in Players |-> @[p] + share[p]]],
           (Deposits(m))' = Deposits(m), OpenBond(m) = (OpenBond(m))' + bond,
           (OpenBond(m))' \in Nat
    PROVE  Accounted(m)
<1>1. IsFiniteSet(Players)
    BY FiniteAssumption
<1>2. paid[m] \in [Players -> Nat] /\ balance \in Nat
    BY Zenon DEF TInv, TypeOK, TokenTypes
<1>3. paid'[m] = [p \in Players |-> paid[m][p] + share[p]]
    BY Zenon DEF TInv, TypeOK, TokenTypes
<1>4. SumOver(paid'[m], Players) = SumOver(paid[m], Players) + SumOver(share, Players)
    <2>1. \A p \in Players : /\ paid[m][p] \in Nat /\ share[p] \in Nat
                            /\ paid'[m][p] = paid[m][p] + share[p]
        BY <1>2, <1>3, Zenon
    <2> QED
        BY <1>1, <2>1, SumPlus, Zenon
<1>5. SumOver(share, Players) = Total(m, share) /\ Total(m, share) \in Nat
    BY PairTotal
<1>6. (PaidOut(m))' = PaidOut(m) + Total(m, share)
    BY <1>4, <1>5 DEF PaidOut
<1>7. Deposits(m) \in Nat /\ OpenBond(m) \in Nat /\ PaidOut(m) \in Nat
    BY AmountTypes DEF AmountsOK, TInv
<1> QED
    BY <1>2, <1>5, <1>6, <1>7, SMT DEF Accounted, Inflow

\* A call of Pay is accounted for.
LEMMA PayCallAccounted ==
    ASSUME TInv, NEW m \in Matches, state[m] # "Unused",
           NEW share \in [Players -> Nat],
           \A p \in Players : p \notin Pair(m) => share[p] = 0,
           Pay(m, share), UNCHANGED <<stake, deposited, dispute>>
    PROVE  Accounted(m)
<1>1. Total(m, share) \in Nat
    BY PairTotal
<1>2. balance \in Nat
    BY DEF TInv, TypeOK, TokenTypes
<1>3. balance' = balance - Total(m, share) - 0
    BY <1>1, <1>2, SMT DEF Pay
<1>4. (Deposits(m))' = Deposits(m)
    BY Zenon DEF Deposits
<1>5. (OpenBond(m))' = OpenBond(m) /\ OpenBond(m) \in Nat
    BY AmountTypes DEF AmountsOK, TInv, OpenBond
<1>6. OpenBond(m) = (OpenBond(m))' + 0 /\ (OpenBond(m))' \in Nat /\ 0 \in Nat
    BY <1>5
<1>7. paid' = [paid EXCEPT ![m] = [p \in Players |-> @[p] + share[p]]]
    BY Zenon DEF Pay
<1> QED
    BY Zenon, <1>3, <1>4, <1>6, <1>7, PayAccounted

\* Refunds of deposits and payouts of results go to the players of the match.
LEMMA SharesOfPair ==
    ASSUME TInv, NEW m \in Matches
    PROVE  /\ \A S \in SUBSET Pair(m) :
                 /\ Refund(m, S) \in [Players -> Nat]
                 /\ \A p \in Players : p \notin Pair(m) => Refund(m, S)[p] = 0
           /\ \A w : /\ Payout(m, w) \in [Players -> Nat]
                    /\ \A p \in Players : p \notin Pair(m) => Payout(m, w)[p] = 0
<1>1. /\ \A S : Refund(m, S) \in [Players -> Nat]
      /\ \A w : Payout(m, w) \in [Players -> Nat]
    BY ShareTypes, Zenon DEF TInv, TypeOK
<1>2. \A w : Entitled(m, w) \subseteq Pair(m)
    BY DEF Entitled, Pair
<1>3. \A w : \A p \in Players : p \notin Pair(m) => Payout(m, w)[p] = 0
    BY <1>2, Zenon DEF Payout
<1>4. \A S \in SUBSET Pair(m) :
          \A p \in Players : p \notin Pair(m) => Refund(m, S)[p] = 0
    BY DEF Refund
<1> QED
    BY <1>1, <1>3, <1>4, Zenon

\* deposit brings in one stake, which is the depositor's.
LEMMA DepositAccounted ==
    ASSUME TInv, NEW m \in Matches, NEW p \in Players, Deposit(m, p)
    PROVE  Accounted(m)
<1> DEFINE f == [q \in Players |-> stake[m]]
<1>1. /\ deposited[m] \in SUBSET Players /\ p \notin deposited[m] /\ stake[m] \in Nat
      /\ deposited'[m] = deposited[m] \cup {p} /\ stake'[m] = stake[m]
      /\ dispute' = dispute /\ paid' = paid /\ balance' = balance + stake[m]
    BY Zenon DEF Deposit, TInv, TypeOK, MatchTypes, parties
<1>2. IsFiniteSet(deposited[m])
    BY <1>1, FiniteAssumption, FS_Subset, Zenon
<1>3. f[p] = stake[m] /\ \A q \in deposited[m] \cup {p} : f[q] \in Nat
    BY <1>1, Zenon
<1>4. SumOver(f, deposited[m] \cup {p}) = SumOver(f, deposited[m]) + f[p]
    <2> HIDE DEF f
    <2> QED
        BY <1>1, <1>2, <1>3, SumAdd, Zenon
<1>5. Deposits(m) = SumOver(f, deposited[m])
      /\ (Deposits(m))' = SumOver(f, deposited[m] \cup {p})
    BY <1>1, Zenon DEF Deposits
<1>6. (Deposits(m))' = Deposits(m) + stake[m]
    BY <1>3, <1>4, <1>5, Zenon
<1>7. (OpenBond(m))' = OpenBond(m) /\ (PaidOut(m))' = PaidOut(m)
    BY <1>1, Zenon DEF OpenBond, PaidOut
<1>8. Deposits(m) \in Nat /\ OpenBond(m) \in Nat /\ PaidOut(m) \in Nat
    BY AmountTypes DEF AmountsOK, TInv
<1>9. balance \in Nat
    BY DEF TInv, TypeOK, TokenTypes
<1> HIDE DEF f
<1> QED
    BY <1>1, <1>6, <1>7, <1>8, <1>9, SMT DEF Accounted, Inflow

\* dispute_oracle_result brings in the bond it records.
LEMMA BondAccounted ==
    ASSUME TInv, NEW m \in Matches, NEW p \in Players, DisputeOracleResult(m, p)
    PROVE  Accounted(m)
<1>1. /\ dispute'[m].state = "Active" /\ dispute'[m].bond = BondFor(m)
      /\ balance' = balance + BondFor(m) /\ paid' = paid
      /\ deposited' = deposited /\ stake' = stake
    BY Zenon DEF DisputeOracleResult, TInv, TypeOK, parties
<1>2. OpenBond(m) = 0 /\ (OpenBond(m))' = BondFor(m)
    BY <1>1 DEF OpenBond, DisputeOracleResult, HasDispute
<1>3. (Deposits(m))' = Deposits(m) /\ (PaidOut(m))' = PaidOut(m)
    BY <1>1, Zenon DEF Deposits, PaidOut
<1>4. BondFor(m) \in Nat
    BY BondType, Zenon DEF TInv, TypeOK
<1>5. Deposits(m) \in Nat /\ PaidOut(m) \in Nat
    BY AmountTypes DEF AmountsOK, TInv
<1>6. balance \in Nat
    BY DEF TInv, TypeOK, TokenTypes
<1> QED
    BY <1>1, <1>2, <1>3, <1>4, <1>5, <1>6, SMT DEF Accounted, Inflow

\* A vote leaves the bond of the dispute alone.
LEMMA VoteKeepsBond ==
    ASSUME TInv, NEW m \in Matches, NEW v \in Players, NEW yes \in BOOLEAN,
           VoteOnDispute(m, v, yes)
    PROVE  (OpenBond(m))' = OpenBond(m)
<1>1. PICK i \in Newest(m, v) :
          dispute' = [dispute EXCEPT ![m] = Voted(@, v, yes, snaps[v][i].balance)]
    BY Zenon DEF VoteOnDispute
<1>2. Voted(dispute[m], v, yes, snaps[v][i].balance).bond = dispute[m].bond
    BY Zenon DEF TInv, TypeOK, DisputeRecord, Voted
<1>3. dispute'[m].bond = dispute[m].bond
    BY Zenon, <1>1, <1>2 DEF TInv, TypeOK
<1>4. dispute'[m].state = dispute[m].state
    BY Zenon, VoteKeepsState
<1> QED
    BY Zenon, <1>3, <1>4 DEF OpenBond

\* resolve_dispute_by_vote pays the verdict and releases the bond.
LEMMA ResolveAccounted ==
    ASSUME TInv, NEW m \in Matches, ResolveDispute(m)
    PROVE  Accounted(m)
<1> DEFINE share == Payout(m, Verdict(m))
           bond  == dispute[m].bond
<1>1. /\ share \in [Players -> Nat]
      /\ \A p \in Players : p \notin Pair(m) => share[p] = 0
    BY SharesOfPair, Zenon
<1>2. bond \in Nat /\ dispute[m] \in DisputeRecord
    BY DEF TInv, TypeOK, DisputeRecord
<1>3. /\ balance' = balance - Total(m, share) - bond
      /\ paid' = [paid EXCEPT ![m] = [p \in Players |-> @[p] + share[p]]]
      /\ state[m] # "Unused" /\ dispute[m].state = "Active"
      /\ deposited' = deposited /\ stake' = stake
    BY Zenon DEF ResolveDispute, parties
<1>4. (Deposits(m))' = Deposits(m)
    BY <1>3, Zenon DEF Deposits
<1>5. dispute'[m].state # "Active"
    BY <1>2 DEF ResolveDispute, DisputeRecord, TInv, TypeOK
<1>6. OpenBond(m) = bond /\ (OpenBond(m))' = 0
    BY <1>3, <1>5 DEF OpenBond
<1>7. OpenBond(m) = (OpenBond(m))' + bond /\ (OpenBond(m))' \in Nat
    BY <1>2, <1>6
<1> HIDE DEF share, bond
<1> QED
    BY Zenon, <1>1, <1>2, <1>3, <1>4, <1>7, PayAccounted

\* Every operation on a match is accounted for by the amounts of that match.
LEMMA StepAccounted ==
    ASSUME TInv, NEW m \in Matches, MatchInv(m), MatchStep(m)
    PROVE  Accounted(m)
<1>0. /\ deposited[m] \in SUBSET Pair(m)
      /\ state[m] = "Unused" => deposited[m] = {}
    BY Zenon DEF MatchInv, ShapeInv
<1>1. CASE \E a, b \in Players, s \in Stakes : CreateMatch(m, a, b, s)
    <2>1. /\ balance' = balance /\ paid' = paid /\ dispute' = dispute
          /\ deposited' = deposited /\ deposited[m] = {}
        BY Zenon, <1>0, <1>1 DEF CreateMatch
    <2>2. (Deposits(m))' = SumOver([p \in Players |-> stake'[m]], {})
          /\ Deposits(m) = SumOver([p \in Players |-> stake[m]], {})
        BY Zenon, <2>1 DEF Deposits
    <2>3. (Deposits(m))' = Deposits(m) /\ (OpenBond(m))' = OpenBond(m)
        BY Zenon, <2>1, <2>2, SumEmpty DEF OpenBond
    <2> QED
        BY Zenon, <2>1, <2>3, QuietAccounted
<1>2. CASE \E p \in Players : Deposit(m, p)
    BY Zenon, <1>2, DepositAccounted
<1>3. CASE (\E p \in Players : CancelMatch(m, p)) \/ ExpireMatch(m)
    <2>1. /\ Pay(m, Refund(m, deposited[m])) /\ state[m] # "Unused"
          /\ UNCHANGED <<stake, deposited, dispute>>
        BY Zenon, <1>3 DEF CancelMatch, ExpireMatch, RefundPending, parties
    <2> QED
        BY Zenon, <1>0, <2>1, SharesOfPair, PayCallAccounted
<1>5. CASE \E R \in SUBSET Players : AdminRecoverMatch(m, R)
    <2>1. PICK R \in SUBSET Players : AdminRecoverMatch(m, R)
        BY Zenon, <1>5
    <2>2. /\ Pay(m, Refund(m, R)) /\ state[m] # "Unused"
          /\ UNCHANGED <<stake, deposited, dispute>> /\ R \in SUBSET deposited[m]
        BY Zenon, <2>1 DEF AdminRecoverMatch, parties
    <2>3. R \in SUBSET Pair(m)
        BY Zenon, <1>0, <2>2
    <2> QED
        BY Zenon, <2>2, <2>3, SharesOfPair, PayCallAccounted
<1>6. CASE \/ \E p \in Players : PauseMatch(m, p)
           \/ \E p \in Players : ResumeMatch(m, p)
           \/ \E p \in Players : HeartbeatMatch(m, p)
           \/ \E w \in Winner : SubmitResult(m, w)
    <2>1. /\ balance' = balance /\ paid' = paid
          /\ UNCHANGED <<stake, deposited, dispute>>
        BY Zenon, <1>6
        DEF PauseMatch, ResumeMatch, HeartbeatMatch, SubmitResult, SettleResult, parties
    <2>2. (Deposits(m))' = Deposits(m) /\ (OpenBond(m))' = OpenBond(m)
        BY Zenon, <2>1 DEF Deposits, OpenBond
    <2> QED
        BY Zenon, <2>1, <2>2, QuietAccounted
<1>9. CASE \E p \in Players : DisputeAndRollback(m, p)
    <2>1. UNCHANGED <<stake, deposited, dispute>> /\ state[m] # "Unused"
        BY Zenon, <1>9 DEF DisputeAndRollback, parties
    <2>2. CASE UNCHANGED <<balance, paid>>
        <3>1. (Deposits(m))' = Deposits(m) /\ (OpenBond(m))' = OpenBond(m)
            BY Zenon, <2>1 DEF Deposits, OpenBond
        <3> QED
            BY Zenon, <2>2, <3>1, QuietAccounted
    <2>3. CASE Pay(m, Refund(m, deposited[m]))
        BY Zenon, <1>0, <2>1, <2>3, SharesOfPair, PayCallAccounted
    <2> QED
        BY Zenon, <1>9, <2>2, <2>3 DEF DisputeAndRollback
<1>10. CASE \E w \in Winner : AdminResolveStalled(m, w)
    <2>1. PICK w \in Winner : AdminResolveStalled(m, w)
        BY Zenon, <1>10
    <2>2. /\ Pay(m, Payout(m, w)) /\ state[m] # "Unused"
          /\ UNCHANGED <<stake, deposited, dispute>>
        BY Zenon, <2>1 DEF AdminResolveStalled, Stalled, parties
    <2> QED
        BY Zenon, <2>2, SharesOfPair, PayCallAccounted
<1>12. CASE FinalizeMatch(m)
    <2>1. /\ Pay(m, Payout(m, pendingWinner[m])) /\ state[m] # "Unused"
          /\ UNCHANGED <<stake, deposited, dispute>>
        BY Zenon, <1>12 DEF FinalizeMatch, parties
    <2> QED
        BY Zenon, <2>1, SharesOfPair, PayCallAccounted
<1>13. CASE \E p \in Players : ClaimVestedPayout(m, p)
    <2>1. PICK p \in Players : ClaimVestedPayout(m, p)
        BY Zenon, <1>13
    <2> DEFINE share == [q \in Players |-> IF q = p THEN Payout(m, winner[m])[p] ELSE 0]
    <2>2. /\ Pay(m, share) /\ state[m] # "Unused" /\ p \in Entitled(m, winner[m])
          /\ UNCHANGED <<stake, deposited, dispute>>
        BY Zenon, <2>1 DEF ClaimVestedPayout, MayClaim, parties
    <2>3. share \in [Players -> Nat]
        BY SharesOfPair
    <2>4. \A q \in Players : q \notin Pair(m) => share[q] = 0
        BY SharesOfPair
    <2> HIDE DEF share
    <2> QED
        BY Zenon, <2>2, <2>3, <2>4, PayCallAccounted
<1>14. CASE \E p \in Players : DisputeOracleResult(m, p)
    BY Zenon, <1>14, BondAccounted
<1>15. CASE \E v \in Players, yes \in BOOLEAN : VoteOnDispute(m, v, yes)
    <2>1. balance' = balance /\ paid' = paid /\ (OpenBond(m))' = OpenBond(m)
          /\ UNCHANGED <<stake, deposited>>
        BY Zenon, <1>15, VoteKeepsBond DEF VoteOnDispute, parties
    <2>2. (Deposits(m))' = Deposits(m)
        BY Zenon, <2>1 DEF Deposits
    <2> QED
        BY Zenon, <2>1, <2>2, QuietAccounted
<1>16. CASE ResolveDispute(m)
    BY Zenon, <1>16, ResolveAccounted
<1> QED
    BY Zenon, <1>1, <1>2, <1>3, <1>5, <1>6, <1>9, <1>10, <1>12, <1>13, <1>14,
       <1>15, <1>16
    DEF MatchStep

\* Every step of the contract conserves the money.
LEMMA NextConservation ==
    ASSUME IInv, IInv', Conservation, [Next]_vars
    PROVE  Conservation'
<1>0. TInv /\ TypeOK /\ TypeOK' /\ \A m \in Matches : MatchInv(m)
    BY Zenon DEF IInv, TInv
<1>1. CASE Tick \/ AdminStep \/ UNCHANGED vars
    <2>1. UNCHANGED matchAndTokenVars
        BY Zenon, <1>1, AdminKeeps
    <2>2. UNCHANGED <<balance, paid, deposited, stake, dispute>>
        BY Zenon, <2>1 DEF matchAndTokenVars, parties
    <2> QED
        BY Zenon, <2>2 DEF Conservation, PaidOut, Deposits, OpenBond
<1>2. ASSUME NEW m \in Matches, MatchStep(m)
      PROVE  Conservation'
    <2>1. \A n \in Matches : n # m => Same(n)
        BY Zenon, <1>0, <1>2, OthersSame
    <2>2. Accounted(m)
        BY Zenon, <1>0, <1>2, StepAccounted
    <2> QED
        BY Zenon, <1>0, <2>1, <2>2, MoneyFramed DEF Accounted
<1> QED
    BY Zenon, <1>1, <1>2 DEF Next

\* At the start nothing has been paid in or out.
LEMMA InitConservation == Init => Conservation
<1> SUFFICES ASSUME Init
             PROVE  Conservation
    OBVIOUS
<1> DEFINE out == [m \in Matches |-> PaidOut(m)]
           in  == [m \in Matches |-> Deposits(m) + OpenBond(m)]
<1>1. IsFiniteSet(Matches) /\ IsFiniteSet(Players) /\ balance = 0
    BY FiniteAssumption DEF Init
<1>2. ASSUME NEW m \in Matches
      PROVE  out[m] = 0 /\ in[m] = 0
    <2>1. PaidOut(m) = 0
        <3>1. paid[m] = [p \in Players |-> 0]
            BY Zenon DEF Init
        <3> QED
            BY <1>1, <3>1, SumZero DEF PaidOut
    <2>2. Deposits(m) = 0
        <3>1. deposited[m] = {}
            BY Zenon DEF Init
        <3> QED
            BY Zenon, <3>1, SumEmpty DEF Deposits
    <2>3. OpenBond(m) = 0
        <3>1. dispute[m].state = "None"
            BY Zenon DEF Init, NoDispute
        <3> QED
            BY <3>1 DEF OpenBond
    <2> QED
        BY <2>1, <2>2, <2>3
<1>3. SumOver(out, Matches) = 0 /\ SumOver(in, Matches) = 0
    <2> HIDE DEF out, in
    <2> QED
        BY <1>1, <1>2, SumZero
<1> QED
    BY <1>1, <1>3 DEF Conservation

\* The contract's balance at the token contract is exactly the deposits not yet
\* paid out plus the bonds of the open disputes, for any number of matches and
\* players, any stakes and any dispute period.
THEOREM MoneyConserved == Spec => []Conservation
<1>1. IInv /\ IInv' /\ Conservation /\ [Next]_vars => Conservation'
    BY Zenon, NextConservation
<1> QED
    BY <1>1, InitConservation, InvariantHolds, PTL DEF Spec

-----------------------------------------------------------------------------
(* The escrow counters of the players.                                     *)

\* What match m contributes to the stakes player p has in escrow.
InEscrow(m, p) == IF m \in Staked(p) THEN stake[m] ELSE 0

EscrowedByMatch ==
    \A p \in Players :
        /\ \A m \in Matches : InEscrow(m, p) \in Nat
        /\ Escrowed(p) = SumOver([m \in Matches |-> InEscrow(m, p)], Matches)

\* A player's stakes in escrow are the sum of what the matches contribute.
LEMMA EscrowedIsSum == TypeOK => EscrowedByMatch
<1> SUFFICES ASSUME TypeOK, NEW p \in Players
             PROVE  /\ \A m \in Matches : InEscrow(m, p) \in Nat
                    /\ Escrowed(p) = SumOver([m \in Matches |-> InEscrow(m, p)], Matches)
    BY DEF EscrowedByMatch
<1> DEFINE part == [m \in Matches |-> InEscrow(m, p)]
<1>1. \A m \in Matches : stake[m] \in Nat
    BY Zenon DEF TypeOK, MatchTypes
<1>2. Staked(p) \subseteq Matches
    BY DEF Staked
<1>3. \A m \in Matches : part[m] = IF m \in Staked(p) THEN stake[m] ELSE 0
    BY Zenon DEF InEscrow
<1>4. SumOver(stake, Staked(p)) = SumOver(part, Matches)
    <2> HIDE DEF part
    <2> QED
        BY FiniteAssumption, <1>1, <1>2, <1>3, SumRestrict
<1>5. \A m \in Matches : InEscrow(m, p) \in Nat
    BY <1>1 DEF InEscrow
<1> QED
    BY <1>4, <1>5, Zenon DEF Escrowed

\* So it is after a step.
LEMMA EscrowedIsSumNext == TypeOK' => EscrowedByMatch'
    BY EscrowedIsSum, PTL

\* The counter of player p falls by no more than what match m releases.
CounterStep(m, p) ==
    escrowBal'[p] + InEscrow(m, p) >= escrowBal[p] + (InEscrow(m, p))'

\* A step on match m that lowers the counter by no more than m releases keeps
\* the counter above the stakes.
LEMMA CounterFramed ==
    ASSUME TypeOK, TypeOK', NEW m \in Matches, \A n \in Matches : n # m => Same(n),
           NEW p \in Players, CounterStep(m, p), escrowBal[p] >= Escrowed(p)
    PROVE  escrowBal'[p] >= (Escrowed(p))'
<1> DEFINE part == [n \in Matches |-> InEscrow(n, p)]
<1>1. \A n \in Matches : part[n] \in Nat /\ part'[n] \in Nat
    BY Zenon, EscrowedIsSum, EscrowedIsSumNext DEF EscrowedByMatch
<1>2. Escrowed(p) = SumOver(part, Matches)
      /\ (Escrowed(p))' = SumOver(part', Matches)
    BY EscrowedIsSum, EscrowedIsSumNext, Zenon DEF EscrowedByMatch
<1>3. \A n \in Matches : n # m => part'[n] = part[n]
    BY Zenon DEF InEscrow, Staked, Terminal, Same
<1>4. SumOver(part', Matches) + part[m] = SumOver(part, Matches) + part'[m]
    <2> HIDE DEF part
    <2> QED
        BY FiniteAssumption, <1>1, <1>3, SumChange
<1>5. SumOver(part, Matches) \in Nat /\ SumOver(part', Matches) \in Nat
    <2> HIDE DEF part
    <2> QED
        BY FiniteAssumption, <1>1, SumType, Zenon
<1>6. part[m] = InEscrow(m, p) /\ part'[m] = (InEscrow(m, p))'
    BY Zenon
<1>7. escrowBal[p] \in Int /\ escrowBal'[p] \in Int
    BY Zenon DEF TypeOK, PlayerTypes
<1> HIDE DEF part
<1>8. escrowBal'[p] + part[m] >= escrowBal[p] + part'[m]
    BY <1>6, Zenon DEF CounterStep
<1> QED
    BY <1>1, <1>2, <1>4, <1>5, <1>7, <1>8, SMT

\* Every operation on a match lowers a counter by no more than it releases.
LEMMA StepCounter ==
    ASSUME TInv, NEW m \in Matches, MatchInv(m), MatchStep(m), NEW p \in Players
    PROVE  CounterStep(m, p)
<1>0. /\ deposited[m] \subseteq Pair(m) /\ stake[m] \in Nat /\ escrowBal[p] \in Int
      /\ state[m] = "Unused" => deposited[m] = {}
      /\ HasDispute(m) => (dispute[m].state = "Active" <=> state[m] = "PendingResult")
      /\ state[m] \in {"Active", "Paused", "PendingResult"} => deposited[m] = Pair(m)
    BY Zenon DEF MatchInv, ShapeInv, ResultInv, TInv, TypeOK, MatchTypes, PlayerTypes
<1>a. InEscrow(m, p) = IF p \in deposited[m] /\ ~Terminal(m) THEN stake[m] ELSE 0
    BY Zenon DEF InEscrow, Staked
<1>b. (InEscrow(m, p))' = IF p \in deposited'[m] /\ ~Terminal(m)' THEN stake'[m] ELSE 0
    BY Zenon DEF InEscrow, Staked
<1>c. ASSUME (InEscrow(m, p))' = InEscrow(m, p), escrowBal'[p] = escrowBal[p]
      PROVE  CounterStep(m, p)
    BY <1>0, <1>a, <1>c DEF CounterStep
<1>d. ASSUME (InEscrow(m, p))' = 0, escrowBal'[p] = escrowBal[p]
      PROVE  CounterStep(m, p)
    BY <1>0, <1>a, <1>d DEF CounterStep
<1>e. ASSUME (InEscrow(m, p))' = 0, escrowBal' = Debited(m, deposited[m]), ~Terminal(m)
      PROVE  CounterStep(m, p)
    <2>1. escrowBal'[p] = IF p \in deposited[m] THEN escrowBal[p] - stake[m] ELSE escrowBal[p]
        BY Zenon, <1>e DEF Debited
    <2> QED
        BY <1>0, <1>a, <1>e, <2>1 DEF CounterStep
<1>1. CASE \E a, b \in Players, s \in Stakes : CreateMatch(m, a, b, s)
    <2>1. deposited'[m] = {} /\ deposited[m] = {} /\ escrowBal' = escrowBal
        BY Zenon, <1>0, <1>1 DEF CreateMatch
    <2> QED
        BY <1>a, <1>b, <1>c, <2>1
<1>2. CASE \E q \in Players : Deposit(m, q)
    <2>1. PICK q \in Players : Deposit(m, q)
        BY Zenon, <1>2
    <2>2. /\ q \notin deposited[m] /\ stake'[m] = stake[m] /\ state[m] = "Pending"
          /\ deposited'[m] = deposited[m] \cup {q}
          /\ escrowBal'[p] = IF p = q THEN escrowBal[p] + stake[m] ELSE escrowBal[p]
        BY Zenon, <2>1 DEF Deposit, TInv, TypeOK, MatchTypes, PlayerTypes, parties
    <2>3. state'[m] \in {"Pending", "Active"}
        BY Zenon, <2>1 DEF Deposit, TInv, TypeOK, MatchTypes
    <2>4. CASE p = q
        BY <1>0, <1>a, <1>b, <2>2, <2>3, <2>4 DEF CounterStep, Terminal
    <2>5. CASE p # q
        <3>1. (InEscrow(m, p))' = InEscrow(m, p)
            BY <1>a, <1>b, <2>2, <2>3, <2>5 DEF Terminal
        <3> QED
            BY <1>c, <2>2, <2>5, <3>1
    <2> QED
        BY <2>4, <2>5
<1>3. CASE (\E q \in Players : CancelMatch(m, q)) \/ ExpireMatch(m)
    <2>1. /\ state[m] = "Pending" /\ state'[m] = "Cancelled"
          /\ escrowBal' = Debited(m, deposited[m])
        BY Zenon, <1>3
        DEF CancelMatch, ExpireMatch, RefundPending, Close, TInv, TypeOK, MatchTypes
    <2> QED
        BY <1>b, <1>e, <2>1 DEF Terminal
<1>4. CASE \/ \E R \in SUBSET Players : AdminRecoverMatch(m, R)
           \/ \E w \in Winner : AdminResolveStalled(m, w)
           \/ ResolveDispute(m)
    <2>1. state'[m] \in {"Cancelled", "Completed"} /\ escrowBal' = escrowBal
        BY Zenon, <1>4
        DEF AdminRecoverMatch, AdminResolveStalled, ResolveDispute, Close, TInv,
            TypeOK, MatchTypes
    <2> QED
        BY <1>b, <1>d, <2>1 DEF Terminal
<1>5. CASE \/ \E q \in Players : PauseMatch(m, q)
           \/ \E q \in Players : ResumeMatch(m, q)
           \/ \E q \in Players : HeartbeatMatch(m, q)
           \/ \E q \in Players : ClaimVestedPayout(m, q)
           \/ \E q \in Players : DisputeOracleResult(m, q)
           \/ \E v \in Players, yes \in BOOLEAN : VoteOnDispute(m, v, yes)
    <2>1. /\ escrowBal' = escrowBal /\ deposited' = deposited /\ stake' = stake
          /\ \/ state'[m] = state[m]
             \/ state[m] = "Active" /\ state'[m] = "Paused"
             \/ state[m] = "Paused" /\ state'[m] = "Active"
        BY Zenon, <1>5
        DEF PauseMatch, ResumeMatch, HeartbeatMatch, ClaimVestedPayout,
            DisputeOracleResult, VoteOnDispute, TInv, TypeOK, MatchTypes, parties
    <2>2. (InEscrow(m, p))' = InEscrow(m, p)
        BY <1>a, <1>b, <2>1 DEF Terminal
    <2> QED
        BY <1>c, <2>1, <2>2
<1>6. CASE \E q \in Players : DisputeAndRollback(m, q)
    <2>1. /\ escrowBal' = escrowBal /\ deposited' = deposited /\ stake' = stake
          /\ state' = state \/ state'[m] = "Cancelled"
        BY Zenon, <1>6 DEF DisputeAndRollback, Close, TInv, TypeOK, MatchTypes, parties
    <2>2. (InEscrow(m, p))' = InEscrow(m, p) \/ (InEscrow(m, p))' = 0
        BY <1>a, <1>b, <2>1 DEF Terminal
    <2> QED
        BY <1>c, <1>d, <2>1, <2>2
<1>7. CASE \E w \in Winner : SubmitResult(m, w)
    <2>1. /\ deposited' = deposited /\ stake' = stake /\ state[m] \in {"Active", "Paused"}
          /\ \/ state'[m] = "Completed" /\ escrowBal' = Debited(m, Pair(m))
             \/ state'[m] = "PendingResult" /\ escrowBal' = escrowBal
        BY Zenon, <1>7
        DEF SubmitResult, SettleResult, InPlay, Close, TInv, TypeOK, MatchTypes, parties
    <2>2. CASE state'[m] = "Completed" /\ escrowBal' = Debited(m, Pair(m))
        BY <1>0, <1>b, <1>e, <2>1, <2>2 DEF Terminal
    <2>3. CASE state'[m] = "PendingResult" /\ escrowBal' = escrowBal
        <3>1. (InEscrow(m, p))' = InEscrow(m, p)
            BY <1>a, <1>b, <2>1, <2>3 DEF Terminal
        <3> QED
            BY <1>c, <2>3, <3>1
    <2> QED
        BY <2>1, <2>2, <2>3
<1>8. CASE FinalizeMatch(m)
    <2>1. /\ state[m] = "PendingResult" /\ state'[m] = "Completed"
          /\ escrowBal' = Debited(m, Pair(m))
        BY Zenon, <1>8 DEF FinalizeMatch, Close, TInv, TypeOK, MatchTypes
    <2> QED
        BY Zenon, <1>0, <1>b, <1>e, <2>1 DEF Terminal
<1> QED
    BY Zenon, <1>1, <1>2, <1>3, <1>4, <1>5, <1>6, <1>7, <1>8 DEF MatchStep

\* The escrow counter of a player never falls below the stakes the player has
\* in matches that are not over, whichever operations release them.
THEOREM CountersCover == Spec => []CounterCovers
<1>1. Init => CounterCovers
    <2> SUFFICES ASSUME Init, NEW p \in Players
                 PROVE  escrowBal[p] >= Escrowed(p)
        BY DEF CounterCovers
    <2>1. escrowBal[p] = 0 /\ Staked(p) = {}
        BY Zenon DEF Init, Staked
    <2>2. Escrowed(p) = 0
        BY Zenon, <2>1, SumEmpty DEF Escrowed
    <2> QED
        BY <2>1, <2>2
<1>2. IInv /\ IInv' /\ CounterCovers /\ [Next]_vars => CounterCovers'
    <2> SUFFICES ASSUME IInv, IInv', CounterCovers, [Next]_vars, NEW p \in Players
                 PROVE  escrowBal'[p] >= (Escrowed(p))'
        BY Zenon DEF CounterCovers
    <2>0. TInv /\ TypeOK /\ TypeOK' /\ \A m \in Matches : MatchInv(m)
        BY Zenon DEF IInv, TInv
    <2>1. CASE Tick \/ AdminStep \/ UNCHANGED vars
        <3>1. UNCHANGED matchAndTokenVars
            BY Zenon, <2>1, AdminKeeps
        <3>2. UNCHANGED <<escrowBal, deposited, state, stake>>
            BY Zenon, <3>1 DEF matchAndTokenVars, parties
        <3> QED
            BY Zenon, <3>2 DEF CounterCovers, Escrowed, Staked, Terminal
    <2>2. ASSUME NEW m \in Matches, MatchStep(m)
          PROVE  escrowBal'[p] >= (Escrowed(p))'
        <3>1. \A n \in Matches : n # m => Same(n)
            BY Zenon, <2>0, <2>2, OthersSame
        <3>2. CounterStep(m, p)
            BY Zenon, <2>0, <2>2, StepCounter
        <3> QED
            BY Zenon, <2>0, <3>1, <3>2, CounterFramed DEF CounterCovers
    <2> QED
        BY Zenon, <2>1, <2>2 DEF Next
<1> QED
    BY <1>1, <1>2, InvariantHolds, PTL DEF Spec

-----------------------------------------------------------------------------
(* The counters of the active-match index.                                 *)

\* The counter and the bound of one player.
CountOK(p) == activeCount[p] = Cardinality(active[p]) /\ activeCount[p] <= MaxActive

\* Entering a match in the index, where there is room and it is not entered yet.
LEMMA IndexCounts ==
    ASSUME TInv, NEW m \in Matches, NEW p \in Players, CountOK(p), m \notin active[p],
           p \in Pair(m) => HasRoom(p), Index(m)
    PROVE  CountOK(p)'
<1>0. MaxActive \in Nat
    BY Zenon, LimitType
<1>1. active[p] \in SUBSET Matches /\ activeCount[p] \in Nat /\ MaxActive \in Nat
    BY Zenon, <1>0 DEF TInv, TypeOK, PlayerTypes
<1>2. IsFiniteSet(active[p])
    BY Zenon, <1>1, FiniteAssumption, FS_Subset
<1>3. CASE p \in Pair(m)
    <2>1. active'[p] = active[p] \cup {m} /\ activeCount'[p] = activeCount[p] + 1
        BY Zenon, <1>3 DEF Index
    <2>2. Cardinality(active[p] \cup {m}) = Cardinality(active[p]) + 1
        BY Zenon, <1>2, FS_AddElement
    <2>3. activeCount[p] < MaxActive
        BY Zenon, <1>3 DEF HasRoom
    <2> QED
        BY <1>1, <2>1, <2>2, <2>3 DEF CountOK
<1>4. CASE p \notin Pair(m)
    <2>1. active'[p] = active[p] /\ activeCount'[p] = activeCount[p]
        BY Zenon, <1>4 DEF Index
    <2> QED
        BY Zenon, <2>1 DEF CountOK
<1> QED
    BY Zenon, <1>3, <1>4

\* Removing a match from the index, entered or not: a second removal leaves the
\* counter alone.
LEMMA UnindexCounts ==
    ASSUME TInv, NEW m \in Matches, NEW p \in Players, CountOK(p), Unindex(m)
    PROVE  CountOK(p)'
<1>0. MaxActive \in Nat
    BY Zenon, LimitType
<1>1. active[p] \in SUBSET Matches /\ activeCount[p] \in Nat /\ MaxActive \in Nat
    BY Zenon, <1>0 DEF TInv, TypeOK, PlayerTypes
<1>2. IsFiniteSet(active[p])
    BY Zenon, <1>1, FiniteAssumption, FS_Subset
<1>3. CASE p \in Pair(m) /\ m \in active[p]
    <2>1. Cardinality(active[p] \ {m}) = Cardinality(active[p]) - 1
        BY Zenon, <1>2, <1>3, FS_RemoveElement
    <2>2. Cardinality(active[p] \ {m}) \in Nat
        BY Zenon, <1>2, FS_RemoveElement, FS_CardinalityType
    <2>3. activeCount[p] > 0
        BY <1>1, <2>1, <2>2 DEF CountOK
    <2>4. active'[p] = active[p] \ {m} /\ activeCount'[p] = activeCount[p] - 1
        BY Zenon, <1>3, <2>3 DEF Unindex
    <2> QED
        BY <1>1, <2>1, <2>4 DEF CountOK
<1>4. CASE ~(p \in Pair(m) /\ m \in active[p])
    <2>1. activeCount'[p] = activeCount[p]
        BY Zenon, <1>4 DEF Unindex
    <2>2. active'[p] = active[p]
        BY Zenon, <1>1, <1>4 DEF Unindex
    <2> QED
        BY Zenon, <2>1, <2>2 DEF CountOK
<1> QED
    BY Zenon, <1>3, <1>4

\* Every operation on a match keeps the counters exact.
LEMMA StepCounts ==
    ASSUME TInv, NEW m \in Matches, MatchInv(m), MatchStep(m), NEW p \in Players, CountOK(p)
    PROVE  CountOK(p)'
<1>1. CASE UNCHANGED indexVars
    BY Zenon, <1>1 DEF indexVars, CountOK
<1>2. CASE Unindex(m)
    BY Zenon, <1>2, UnindexCounts
<1>3. CASE \E q \in Players : Deposit(m, q)
    <2>1. PICK q \in Players : Deposit(m, q)
        BY Zenon, <1>3
    <2>2. state[m] = "Pending"
        BY Zenon, <2>1 DEF Deposit
    <2>3. m \notin active[p]
        BY <2>2 DEF MatchInv, IndexInv, InPlay
    <2>4. CASE Index(m) /\ \A r \in Pair(m) : HasRoom(r)
        BY Zenon, <2>3, <2>4, IndexCounts
    <2> QED
        BY Zenon, <1>1, <2>1, <2>4 DEF Deposit
<1>4. UNCHANGED indexVars \/ Unindex(m) \/ \E q \in Players : Deposit(m, q)
    BY Zenon
    DEF MatchStep, CreateMatch, CancelMatch, ExpireMatch, RefundPending,
        AdminRecoverMatch, PauseMatch, ResumeMatch, HeartbeatMatch,
        DisputeAndRollback, AdminResolveStalled, SubmitResult, SettleResult,
        FinalizeMatch, ClaimVestedPayout, DisputeOracleResult, VoteOnDispute,
        ResolveDispute
<1> QED
    BY Zenon, <1>1, <1>2, <1>3, <1>4

\* PlayerActiveMatchCount equals the number of index entries and stays within
\* the limit, whatever the number of matches and the limit are.
THEOREM ActiveCountsExact == Spec => []ActiveCountExact
<1>1. Init => ActiveCountExact
    <2>1. Init => \A p \in Players : activeCount[p] = 0 /\ active[p] = {}
        BY Zenon DEF Init
    <2>2. MaxActive \in Nat /\ 0 <= MaxActive
        BY LimitType
    <2> QED
        BY Zenon, <2>1, <2>2, FS_EmptySet DEF ActiveCountExact
<1>2. IInv /\ ActiveCountExact /\ [Next]_vars => ActiveCountExact'
    <2> SUFFICES ASSUME IInv, ActiveCountExact, [Next]_vars, NEW p \in Players
                 PROVE  CountOK(p)'
        BY Zenon DEF ActiveCountExact, CountOK
    <2>0. CountOK(p) /\ TInv /\ \A m \in Matches : MatchInv(m)
        BY Zenon DEF ActiveCountExact, CountOK, IInv
    <2>1. CASE Tick \/ AdminStep \/ UNCHANGED vars
        <3>1. UNCHANGED matchAndTokenVars
            BY Zenon, <2>1, AdminKeeps
        <3> QED
            BY Zenon, <2>0, <3>1 DEF CountOK, matchAndTokenVars, indexVars
    <2> QED
        BY Zenon, <2>0, <2>1, StepCounts DEF Next
<1> QED
    BY <1>1, <1>2, InvariantHolds, PTL DEF Spec

-----------------------------------------------------------------------------
(* The records of the players.                                             *)

\* The matches counted for player p when their result is recorded, and those
\* counted a second time when finalize_match or resolve_dispute_by_vote
\* completes them.
Credited(p) ==
    {m \in Matches : /\ p \in Pair(m)
                     /\ \/ vestedAt[m] # NoLedger
                        \/ state[m] = "Completed" /\ winner[m] # "Draw"}

Recredited(p) ==
    {m \in Matches : p \in Pair(m) /\ state[m] = "Completed" /\ deadline[m] # NoLedger}

\* The statistics and the completed-match counter of one player, whatever the
\* dispute period: the inductive form of RecordsAgree.
Recorded(wins, losses, draws, completed, won, drawn, settled, credited, recredited) ==
    /\ wins = won /\ draws = drawn /\ wins + losses + draws = settled
    /\ completed = credited + recredited

RecordInv(p) ==
    Recorded(stats[p].wins, stats[p].losses, stats[p].draws, completedCount[p],
             Cardinality(Won(p)), Cardinality(Drawn(p)), Cardinality(Settled(p)),
             Cardinality(Credited(p)), Cardinality(Recredited(p)))

RecordsInv == \A p \in Players : RecordInv(p)

\* The records keep up with one more result.
LEMMA RecordedOnce ==
    ASSUME NEW w \in Nat, NEW l \in Nat, NEW d \in Nat, NEW n \in Nat, NEW won \in Nat,
           NEW drawn \in Nat, NEW settled \in Nat, NEW c \in Nat, NEW r \in Nat,
           Recorded(w, l, d, n, won, drawn, settled, c, r)
    PROVE  /\ Recorded(w, l, d + 1, n + 1, won, drawn + 1, settled + 1, c + 1, r)
           /\ Recorded(w + 1, l, d, n + 1, won + 1, drawn, settled + 1, c + 1, r)
           /\ Recorded(w, l + 1, d, n + 1, won, drawn, settled + 1, c + 1, r)
    BY DEF Recorded

\* The records keep up with one more completed match.
LEMMA RecordedAgain ==
    ASSUME NEW w, NEW l, NEW d, NEW n, NEW won, NEW drawn, NEW settled,
           NEW c \in Nat, NEW r \in Nat, Recorded(w, l, d, n, won, drawn, settled, c, r)
    PROVE  /\ Recorded(w, l, d, n + 1, won, drawn, settled, c + 1, r)
           /\ Recorded(w, l, d, n + 1, won, drawn, settled, c, r + 1)
<1>1. n = c + r /\ (c + r) + 1 = (c + 1) + r /\ (c + r) + 1 = c + (r + 1)
    BY DEF Recorded
<1> QED
    BY Zenon, <1>1 DEF Recorded

\* The sets of matches the records count.
LEMMA RecordSets ==
    ASSUME NEW p
    PROVE  /\ \A m \in Matches :
                /\ m \in Settled(p) <=> vestedAt[m] # NoLedger /\ p \in Pair(m)
                /\ m \in Won(p) <=> /\ m \in Settled(p) /\ winner[m] # "Draw"
                                    /\ p \in Entitled(m, winner[m])
                /\ m \in Drawn(p) <=> m \in Settled(p) /\ winner[m] = "Draw"
                /\ m \in Credited(p) <=> /\ p \in Pair(m)
                                         /\ \/ vestedAt[m] # NoLedger
                                            \/ state[m] = "Completed" /\ winner[m] # "Draw"
                /\ m \in Recredited(p) <=> /\ p \in Pair(m) /\ state[m] = "Completed"
                                           /\ deadline[m] # NoLedger
           /\ Settled(p) \subseteq Matches /\ Won(p) \subseteq Matches
           /\ Drawn(p) \subseteq Matches /\ Credited(p) \subseteq Matches
           /\ Recredited(p) \subseteq Matches
    BY Zenon DEF Settled, Won, Drawn, Credited, Recredited

\* So they are after a step.
LEMMA RecordSetsNext ==
    ASSUME NEW p
    PROVE  /\ \A m \in Matches :
                /\ m \in (Settled(p))' <=> vestedAt'[m] # NoLedger /\ p \in (Pair(m))'
                /\ m \in (Won(p))' <=> /\ m \in (Settled(p))' /\ winner'[m] # "Draw"
                                       /\ p \in (Entitled(m, winner[m]))'
                /\ m \in (Drawn(p))' <=> m \in (Settled(p))' /\ winner'[m] = "Draw"
                /\ m \in (Credited(p))' <=>
                      /\ p \in (Pair(m))'
                      /\ \/ vestedAt'[m] # NoLedger
                         \/ state'[m] = "Completed" /\ winner'[m] # "Draw"
                /\ m \in (Recredited(p))' <=> /\ p \in (Pair(m))' /\ state'[m] = "Completed"
                                              /\ deadline'[m] # NoLedger
           /\ (Settled(p))' \subseteq Matches /\ (Won(p))' \subseteq Matches
           /\ (Drawn(p))' \subseteq Matches /\ (Credited(p))' \subseteq Matches
           /\ (Recredited(p))' \subseteq Matches
    BY Zenon DEF Settled, Won, Drawn, Credited, Recredited

\* A step leaves the other matches counted as they were.
LEMMA RecordsFramed ==
    ASSUME NEW m \in Matches, \A n \in Matches : n # m => Same(n), NEW p
    PROVE  \A n : n # m => /\ n \in (Settled(p))' <=> n \in Settled(p)
                           /\ n \in (Won(p))' <=> n \in Won(p)
                           /\ n \in (Drawn(p))' <=> n \in Drawn(p)
                           /\ n \in (Credited(p))' <=> n \in Credited(p)
                           /\ n \in (Recredited(p))' <=> n \in Recredited(p)
    BY Zenon DEF Settled, Won, Drawn, Credited, Recredited, Same, Pair, Entitled

\* A step on a match that keeps the records and how the match is counted.
LEMMA RecordsKept ==
    ASSUME NEW m \in Matches, \A n \in Matches : n # m => Same(n), NEW p, RecordInv(p),
           stats'[p] = stats[p], completedCount'[p] = completedCount[p],
           m \in (Settled(p))' <=> m \in Settled(p),
           m \in (Won(p))' <=> m \in Won(p),
           m \in (Drawn(p))' <=> m \in Drawn(p),
           m \in (Credited(p))' <=> m \in Credited(p),
           m \in (Recredited(p))' <=> m \in Recredited(p)
    PROVE  RecordInv(p)'
<1>1. \A n : /\ n \in (Settled(p))' <=> n \in Settled(p)
             /\ n \in (Won(p))' <=> n \in Won(p)
             /\ n \in (Drawn(p))' <=> n \in Drawn(p)
             /\ n \in (Credited(p))' <=> n \in Credited(p)
             /\ n \in (Recredited(p))' <=> n \in Recredited(p)
    BY Zenon, RecordsFramed
<1>2. /\ (Settled(p))' = Settled(p) /\ (Won(p))' = Won(p) /\ (Drawn(p))' = Drawn(p)
      /\ (Credited(p))' = Credited(p) /\ (Recredited(p))' = Recredited(p)
    BY <1>1
<1> QED
    BY Zenon, <1>2 DEF RecordInv

\* The sets the records count are finite.
LEMMA RecordSetsFinite ==
    ASSUME NEW p
    PROVE  /\ IsFiniteSet(Settled(p)) /\ IsFiniteSet(Won(p)) /\ IsFiniteSet(Drawn(p))
           /\ IsFiniteSet(Credited(p)) /\ IsFiniteSet(Recredited(p))
    BY Zenon, FiniteAssumption, FS_Subset, RecordSets

\* update_player_stats counts a result w once, for the right player.
LEMMA TallyCounts ==
    ASSUME TInv, NEW m \in Matches, NEW w \in Winner, w # "None", RecordStats(m, w),
           p1[m] # p2[m], NEW p \in Players
    PROVE  /\ stats[p] \in [wins : Nat, losses : Nat, draws : Nat]
           /\ p \notin Pair(m) => stats'[p] = stats[p]
           /\ p \in Pair(m) /\ w = "Draw" =>
                 /\ stats'[p].draws = stats[p].draws + 1
                 /\ stats'[p].wins = stats[p].wins /\ stats'[p].losses = stats[p].losses
           /\ p \in Pair(m) /\ w # "Draw" /\ p \in Entitled(m, w) =>
                 /\ stats'[p].wins = stats[p].wins + 1
                 /\ stats'[p].draws = stats[p].draws /\ stats'[p].losses = stats[p].losses
           /\ p \in Pair(m) /\ w # "Draw" /\ p \notin Entitled(m, w) =>
                 /\ stats'[p].losses = stats[p].losses + 1
                 /\ stats'[p].wins = stats[p].wins /\ stats'[p].draws = stats[p].draws
<1>1. stats[p] \in [wins : Nat, losses : Nat, draws : Nat]
    BY Zenon DEF TInv, TypeOK, PlayerTypes
<1>2. /\ p = p1[m] => stats'[p] = Tally(stats[p], "Player1", w)
      /\ p = p2[m] => stats'[p] = Tally(stats[p], "Player2", w)
      /\ p \notin Pair(m) => stats'[p] = stats[p]
    BY Zenon DEF RecordStats, Pair
<1>3. ASSUME NEW seat \in {"Player1", "Player2"}
      PROVE  /\ Tally(stats[p], seat, "Draw") = [stats[p] EXCEPT !.draws = @ + 1]
             /\ Tally(stats[p], seat, seat) = [stats[p] EXCEPT !.wins = @ + 1]
             /\ w # "Draw" /\ w # seat =>
                  Tally(stats[p], seat, w) = [stats[p] EXCEPT !.losses = @ + 1]
    <2>1. Tally(stats[p], seat, "Draw") = [stats[p] EXCEPT !.draws = @ + 1]
        BY DEF Tally
    <2>2. Tally(stats[p], seat, seat) = [stats[p] EXCEPT !.wins = @ + 1]
        BY DEF Tally
    <2>3. w # "Draw" /\ w # seat =>
              Tally(stats[p], seat, w) = [stats[p] EXCEPT !.losses = @ + 1]
        BY DEF Tally
    <2> QED
        BY Zenon, <2>1, <2>2, <2>3
<1>4. w \in {"Player1", "Player2", "Draw"}
    BY DEF Winner
<1>5. CASE w = "Draw"
    BY <1>1, <1>2, <1>3, <1>5 DEF Pair
<1>6. CASE w = "Player1"
    <2>1. p \in Entitled(m, w) <=> p = p1[m]
        BY <1>6 DEF Entitled
    <2>2. /\ p = p1[m] => stats'[p] = [stats[p] EXCEPT !.wins = @ + 1]
          /\ p = p2[m] => stats'[p] = [stats[p] EXCEPT !.losses = @ + 1]
        BY <1>2, <1>3, <1>6
    <2> QED
        BY <1>1, <1>2, <1>6, <2>1, <2>2 DEF Pair
<1>7. CASE w = "Player2"
    <2>1. p \in Entitled(m, w) <=> p = p2[m]
        BY <1>7 DEF Entitled
    <2>2. /\ p = p2[m] => stats'[p] = [stats[p] EXCEPT !.wins = @ + 1]
          /\ p = p1[m] => stats'[p] = [stats[p] EXCEPT !.losses = @ + 1]
        BY <1>2, <1>3, <1>7
    <2> QED
        BY <1>1, <1>2, <1>7, <2>1, <2>2 DEF Pair
<1> QED
    BY Zenon, <1>4, <1>5, <1>6, <1>7

\* settle_result counts the match in the records of both players.
LEMMA SubmitRecords ==
    ASSUME TInv, NEW m \in Matches, MatchInv(m), \A n \in Matches : n # m => Same(n),
           NEW w \in Winner, SubmitResult(m, w), NEW p \in Players, RecordInv(p)
    PROVE  RecordInv(p)'
<1>1. /\ state[m] \in {"Active", "Paused"} /\ w # "None"
      /\ \/ state'[m] = "Completed" /\ deadline' = deadline
         \/ state'[m] = "PendingResult"
      /\ vestedAt'[m] = now /\ winner'[m] = w /\ p1' = p1 /\ p2' = p2
      /\ RecordStats(m, w) /\ CountCompleted(m)
    BY Zenon
    DEF SubmitResult, SettleResult, InPlay, Close, TInv, TypeOK, MatchTypes, parties,
        resultVars
<1>2. now # NoLedger
    BY DEF TInv, TypeOK, ConfigTypes, NoLedger
<1>3. vestedAt[m] = NoLedger /\ deadline[m] = NoLedger
    BY Zenon, <1>1 DEF MatchInv, ResultInv
<1>4. p1[m] # p2[m]
    BY Zenon, <1>1 DEF TInv, PartiesOK
<1>5. (Pair(m))' = Pair(m) /\ (Entitled(m, winner[m]))' = Entitled(m, w)
    BY Zenon, <1>1 DEF Pair, Entitled
<1>6. /\ m \notin Settled(p) /\ m \notin Won(p) /\ m \notin Drawn(p)
      /\ m \notin Credited(p) /\ m \notin Recredited(p)
    BY Zenon, <1>1, <1>3, RecordSets
<1>7. /\ m \in (Settled(p))' <=> p \in Pair(m)
      /\ m \in (Won(p))' <=> p \in Pair(m) /\ w # "Draw" /\ p \in Entitled(m, w)
      /\ m \in (Drawn(p))' <=> p \in Pair(m) /\ w = "Draw"
      /\ m \in (Credited(p))' <=> p \in Pair(m)
    BY Zenon, <1>1, <1>2, <1>5, RecordSetsNext
<1>8. m \notin (Recredited(p))'
    BY Zenon, <1>1, <1>3, RecordSetsNext
<1>9. completedCount[p] \in Nat
      /\ completedCount'[p] = IF p \in Pair(m) THEN completedCount[p] + 1 ELSE completedCount[p]
    BY Zenon, <1>1 DEF CountCompleted, TInv, TypeOK, PlayerTypes
<1>10. CASE p \notin Pair(m)
    <2>1. stats'[p] = stats[p] /\ completedCount'[p] = completedCount[p]
        BY Zenon, <1>1, <1>4, <1>9, <1>10, TallyCounts
    <2> QED
        BY Zenon, <1>6, <1>7, <1>8, <1>10, <2>1, RecordsKept
<1>11. CASE p \in Pair(m)
    <2> DEFINE c(S) == Cardinality(S)
    <2>a. /\ c((Settled(p))') = c(Settled(p)) + 1 /\ c(Settled(p)) \in Nat
        <3>1. \A n : n # m => (n \in (Settled(p))' <=> n \in Settled(p))
            BY Zenon, RecordsFramed
        <3>2. IsFiniteSet(Settled(p))
            BY Zenon, RecordSetsFinite
        <3> QED
            BY Zenon, <1>6, <1>7, <1>11, <3>1, <3>2, CountMore
    <2>b. /\ c((Credited(p))') = c(Credited(p)) + 1 /\ c(Credited(p)) \in Nat
        <3>1. \A n : n # m => (n \in (Credited(p))' <=> n \in Credited(p))
            BY Zenon, RecordsFramed
        <3>2. IsFiniteSet(Credited(p))
            BY Zenon, RecordSetsFinite
        <3> QED
            BY Zenon, <1>6, <1>7, <1>11, <3>1, <3>2, CountMore
    <2>c. /\ c((Recredited(p))') = c(Recredited(p)) /\ c(Recredited(p)) \in Nat
        <3>1. \A n : n # m => (n \in (Recredited(p))' <=> n \in Recredited(p))
            BY Zenon, RecordsFramed
        <3>2. IsFiniteSet(Recredited(p))
            BY Zenon, RecordSetsFinite
        <3> QED
            BY Zenon, <1>6, <1>8, <3>1, <3>2, CountSame
    <2>d. /\ c(Won(p)) \in Nat
          /\ m \in (Won(p))' => c((Won(p))') = c(Won(p)) + 1
          /\ m \notin (Won(p))' => c((Won(p))') = c(Won(p))
        <3>1. \A n : n # m => (n \in (Won(p))' <=> n \in Won(p))
            BY Zenon, RecordsFramed
        <3>2. IsFiniteSet(Won(p))
            BY Zenon, RecordSetsFinite
        <3> QED
            BY Zenon, <1>6, <3>1, <3>2, CountMore, CountSame
    <2>e. /\ c(Drawn(p)) \in Nat
          /\ m \in (Drawn(p))' => c((Drawn(p))') = c(Drawn(p)) + 1
          /\ m \notin (Drawn(p))' => c((Drawn(p))') = c(Drawn(p))
        <3>1. \A n : n # m => (n \in (Drawn(p))' <=> n \in Drawn(p))
            BY Zenon, RecordsFramed
        <3>2. IsFiniteSet(Drawn(p))
            BY Zenon, RecordSetsFinite
        <3> QED
            BY Zenon, <1>6, <3>1, <3>2, CountMore, CountSame
    <2>1. /\ c((Settled(p))') = c(Settled(p)) + 1 /\ c(Settled(p)) \in Nat
          /\ c((Credited(p))') = c(Credited(p)) + 1 /\ c(Credited(p)) \in Nat
          /\ c((Recredited(p))') = c(Recredited(p)) /\ c(Recredited(p)) \in Nat
          /\ c(Won(p)) \in Nat /\ c(Drawn(p)) \in Nat
          /\ w = "Draw" => /\ c((Drawn(p))') = c(Drawn(p)) + 1
                           /\ c((Won(p))') = c(Won(p))
          /\ w # "Draw" /\ p \in Entitled(m, w) => /\ c((Won(p))') = c(Won(p)) + 1
                                                   /\ c((Drawn(p))') = c(Drawn(p))
          /\ w # "Draw" /\ p \notin Entitled(m, w) => /\ c((Won(p))') = c(Won(p))
                                                      /\ c((Drawn(p))') = c(Drawn(p))
        BY Zenon, <1>7, <1>11, <2>a, <2>b, <2>c, <2>d, <2>e
    <2>2. LET w1 == stats[p].wins
              l1 == stats[p].losses
              d1 == stats[p].draws
              n1 == completedCount[p]
          IN  /\ Recorded(w1, l1, d1 + 1, n1 + 1, c(Won(p)), c(Drawn(p)) + 1,
                          c(Settled(p)) + 1, c(Credited(p)) + 1, c(Recredited(p)))
              /\ Recorded(w1 + 1, l1, d1, n1 + 1, c(Won(p)) + 1, c(Drawn(p)),
                          c(Settled(p)) + 1, c(Credited(p)) + 1, c(Recredited(p)))
              /\ Recorded(w1, l1 + 1, d1, n1 + 1, c(Won(p)), c(Drawn(p)),
                          c(Settled(p)) + 1, c(Credited(p)) + 1, c(Recredited(p)))
        <3>1. stats[p].wins \in Nat /\ stats[p].losses \in Nat /\ stats[p].draws \in Nat
            BY DEF TInv, TypeOK, PlayerTypes
        <3> QED
            BY Zenon, <1>9, <2>1, <3>1, RecordedOnce DEF RecordInv
    <2>4. CASE w = "Draw"
        <3>1. /\ stats'[p].draws = stats[p].draws + 1
              /\ stats'[p].wins = stats[p].wins /\ stats'[p].losses = stats[p].losses
            BY Zenon, <1>1, <1>4, <1>11, <2>4, TallyCounts
        <3> QED
            BY Zenon, <1>9, <1>11, <2>1, <2>2, <2>4, <3>1 DEF RecordInv
    <2>5. CASE w # "Draw" /\ p \in Entitled(m, w)
        <3>1. /\ stats'[p].wins = stats[p].wins + 1
              /\ stats'[p].draws = stats[p].draws /\ stats'[p].losses = stats[p].losses
            BY Zenon, <1>1, <1>4, <1>11, <2>5, TallyCounts
        <3> QED
            BY Zenon, <1>9, <1>11, <2>1, <2>2, <2>5, <3>1 DEF RecordInv
    <2>6. CASE w # "Draw" /\ p \notin Entitled(m, w)
        <3>1. /\ stats'[p].losses = stats[p].losses + 1
              /\ stats'[p].wins = stats[p].wins /\ stats'[p].draws = stats[p].draws
            BY ZenonT(30), <1>1, <1>4, <1>11, <2>6, TallyCounts
        <3> QED
            BY Zenon, <1>9, <1>11, <2>1, <2>2, <2>6, <3>1 DEF RecordInv
    <2> QED
        BY Zenon, <2>4, <2>5, <2>6
<1> QED
    BY Zenon, <1>10, <1>11

\* finalize_match and resolve_dispute_by_vote count the match once more.
LEMMA CompleteRecords ==
    ASSUME TInv, NEW m \in Matches, MatchInv(m), \A n \in Matches : n # m => Same(n),
           FinalizeMatch(m) \/ ResolveDispute(m), NEW p \in Players, RecordInv(p)
    PROVE  RecordInv(p)'
<1>1. /\ state[m] = "PendingResult" /\ state'[m] = "Completed" /\ CountCompleted(m)
      /\ UNCHANGED <<p1, p2, vestedAt, winner, deadline, stats>>
    BY Zenon
    DEF FinalizeMatch, ResolveDispute, Close, TInv, TypeOK, MatchTypes, parties, resultVars
<1>2. vestedAt[m] # NoLedger /\ deadline[m] # NoLedger
    BY Zenon, <1>1 DEF MatchInv, ResultInv
<1>3. (Pair(m))' = Pair(m) /\ (Entitled(m, winner[m]))' = Entitled(m, winner[m])
    BY Zenon, <1>1 DEF Pair, Entitled
<1>4. /\ m \in (Settled(p))' <=> m \in Settled(p)
      /\ m \in (Won(p))' <=> m \in Won(p)
      /\ m \in (Drawn(p))' <=> m \in Drawn(p)
      /\ m \in (Credited(p))' <=> m \in Credited(p)
    BY Zenon, <1>1, <1>2, <1>3, RecordSets, RecordSetsNext
<1>5. m \notin Recredited(p) /\ (m \in (Recredited(p))' <=> p \in Pair(m))
    BY Zenon, <1>1, <1>2, <1>3, RecordSets, RecordSetsNext
<1>6. completedCount[p] \in Nat
      /\ completedCount'[p] = IF p \in Pair(m) THEN completedCount[p] + 1 ELSE completedCount[p]
    BY Zenon, <1>1 DEF CountCompleted, TInv, TypeOK, PlayerTypes
<1>7. CASE p \notin Pair(m)
    BY Zenon, <1>1, <1>4, <1>5, <1>6, <1>7, RecordsKept
<1>8. CASE p \in Pair(m)
    <2>1. \A n : n # m => /\ n \in (Settled(p))' <=> n \in Settled(p)
                          /\ n \in (Won(p))' <=> n \in Won(p)
                          /\ n \in (Drawn(p))' <=> n \in Drawn(p)
                          /\ n \in (Credited(p))' <=> n \in Credited(p)
        BY Zenon, RecordsFramed
    <2>2. /\ (Settled(p))' = Settled(p) /\ (Won(p))' = Won(p)
          /\ (Drawn(p))' = Drawn(p) /\ (Credited(p))' = Credited(p)
        BY <1>4, <2>1
    <2>3. \A n : n # m => (n \in (Recredited(p))' <=> n \in Recredited(p))
        BY Zenon, RecordsFramed
    <2>4. /\ Cardinality((Recredited(p))') = Cardinality(Recredited(p)) + 1
          /\ Cardinality(Recredited(p)) \in Nat
        BY Zenon, <1>5, <1>8, <2>3, RecordSetsFinite, CountMore
    <2>5. Cardinality(Credited(p)) \in Nat
        BY Zenon, RecordSetsFinite, FS_CardinalityType
    <2>6. Recorded(stats[p].wins, stats[p].losses, stats[p].draws, completedCount[p] + 1,
                   Cardinality(Won(p)), Cardinality(Drawn(p)), Cardinality(Settled(p)),
                   Cardinality(Credited(p)), Cardinality(Recredited(p)) + 1)
        BY Zenon, <2>4, <2>5, RecordedAgain DEF RecordInv
    <2> QED
        BY Zenon, <1>1, <1>6, <1>8, <2>2, <2>4, <2>6 DEF RecordInv
<1> QED
    BY Zenon, <1>7, <1>8

\* admin_resolve_stalled_match counts the match unless it is a draw.
LEMMA AdminRecords ==
    ASSUME TInv, NEW m \in Matches, MatchInv(m), \A n \in Matches : n # m => Same(n),
           NEW w \in Winner, AdminResolveStalled(m, w), NEW p \in Players, RecordInv(p)
    PROVE  RecordInv(p)'
<1>1. /\ state[m] \in {"Active", "Paused"} /\ state'[m] = "Completed" /\ winner'[m] = w
      /\ IF w # "Draw" THEN CountCompleted(m) ELSE UNCHANGED completedCount
      /\ UNCHANGED <<p1, p2, vestedAt, deadline, stats>>
    BY Zenon
    DEF AdminResolveStalled, Stalled, Close, TInv, TypeOK, MatchTypes, parties, resultVars
<1>2. vestedAt[m] = NoLedger /\ deadline[m] = NoLedger
    BY Zenon, <1>1 DEF MatchInv, ResultInv
<1>3. (Pair(m))' = Pair(m)
    BY Zenon, <1>1 DEF Pair
<1>4. /\ m \notin Settled(p) /\ m \notin Won(p) /\ m \notin Drawn(p)
      /\ m \notin Credited(p) /\ m \notin Recredited(p)
    BY <1>1, <1>2, RecordSets
<1>5. /\ m \notin (Settled(p))' /\ m \notin (Won(p))' /\ m \notin (Drawn(p))'
      /\ m \notin (Recredited(p))'
      /\ m \in (Credited(p))' <=> p \in Pair(m) /\ w # "Draw"
    BY Zenon, <1>1, <1>2, <1>3, RecordSetsNext
<1>6. completedCount[p] \in Nat
    BY Zenon DEF TInv, TypeOK, PlayerTypes
<1>7. CASE ~(p \in Pair(m) /\ w # "Draw")
    <2>1. completedCount'[p] = completedCount[p]
        BY Zenon, <1>1, <1>7 DEF CountCompleted
    <2> QED
        BY Zenon, <1>1, <1>4, <1>5, <1>7, <2>1, RecordsKept
<1>8. CASE p \in Pair(m) /\ w # "Draw"
    <2>1. \A n : n # m => /\ n \in (Settled(p))' <=> n \in Settled(p)
                          /\ n \in (Won(p))' <=> n \in Won(p)
                          /\ n \in (Drawn(p))' <=> n \in Drawn(p)
                          /\ n \in (Recredited(p))' <=> n \in Recredited(p)
        BY Zenon, RecordsFramed
    <2>2. /\ (Settled(p))' = Settled(p) /\ (Won(p))' = Won(p)
          /\ (Drawn(p))' = Drawn(p) /\ (Recredited(p))' = Recredited(p)
        BY <1>4, <1>5, <2>1
    <2>3. \A n : n # m => (n \in (Credited(p))' <=> n \in Credited(p))
        BY Zenon, RecordsFramed
    <2>4. /\ Cardinality((Credited(p))') = Cardinality(Credited(p)) + 1
          /\ Cardinality(Credited(p)) \in Nat
        BY Zenon, <1>4, <1>5, <1>8, <2>3, RecordSetsFinite, CountMore
    <2>5. Cardinality(Recredited(p)) \in Nat
        BY Zenon, RecordSetsFinite, FS_CardinalityType
    <2>6. completedCount'[p] = completedCount[p] + 1
        BY Zenon, <1>1, <1>8 DEF CountCompleted
    <2>7. Recorded(stats[p].wins, stats[p].losses, stats[p].draws, completedCount[p] + 1,
                   Cardinality(Won(p)), Cardinality(Drawn(p)), Cardinality(Settled(p)),
                   Cardinality(Credited(p)) + 1, Cardinality(Recredited(p)))
        BY Zenon, <2>4, <2>5, RecordedAgain DEF RecordInv
    <2> QED
        BY Zenon, <1>1, <2>2, <2>4, <2>6, <2>7 DEF RecordInv
<1> QED
    BY Zenon, <1>7, <1>8

\* The other operations touch neither the records nor what they count.
LEMMA OtherRecords ==
    ASSUME TInv, NEW m \in Matches, MatchInv(m), \A n \in Matches : n # m => Same(n),
           NEW p \in Players, RecordInv(p),
           UNCHANGED <<stats, completedCount, vestedAt, deadline, winner>>,
           \/ state[m] = "Unused" /\ state'[m] = "Pending"
           \/ /\ UNCHANGED <<p1, p2>>
              /\ state'[m] = "Completed" <=> state[m] = "Completed"
    PROVE  RecordInv(p)'
<1>1. state[m] = "Unused" => vestedAt[m] = NoLedger
    BY Zenon DEF MatchInv, ResultInv
<1>2. CASE state[m] = "Unused" /\ state'[m] = "Pending"
    <2>1. /\ m \notin Settled(p) /\ m \notin Won(p) /\ m \notin Drawn(p)
          /\ m \notin Credited(p) /\ m \notin Recredited(p)
        BY Zenon, <1>1, <1>2, RecordSets
    <2>2. /\ m \notin (Settled(p))' /\ m \notin (Won(p))' /\ m \notin (Drawn(p))'
          /\ m \notin (Credited(p))' /\ m \notin (Recredited(p))'
        BY Zenon, <1>1, <1>2, RecordSetsNext
    <2> QED
        BY Zenon, <2>1, <2>2, RecordsKept
<1>3. CASE UNCHANGED <<p1, p2>> /\ (state'[m] = "Completed" <=> state[m] = "Completed")
    <2>1. (Pair(m))' = Pair(m) /\ (Entitled(m, winner[m]))' = Entitled(m, winner[m])
        BY Zenon, <1>3 DEF Pair, Entitled
    <2>2. m \in (Settled(p))' <=> m \in Settled(p)
        BY Zenon, <2>1, RecordSets, RecordSetsNext
    <2>3. m \in (Won(p))' <=> m \in Won(p)
        BY Zenon, <2>1, <2>2 DEF Won
    <2>4. m \in (Drawn(p))' <=> m \in Drawn(p)
        BY Zenon, <2>2, RecordSets, RecordSetsNext
    <2>5. m \in (Credited(p))' <=> m \in Credited(p)
        BY Zenon, <1>3, <2>1, RecordSets, RecordSetsNext
    <2>6. m \in (Recredited(p))' <=> m \in Recredited(p)
        BY Zenon, <1>3, <2>1, RecordSets, RecordSetsNext
    <2> QED
        BY Zenon, <2>2, <2>3, <2>4, <2>5, <2>6, RecordsKept
<1> QED
    BY Zenon, <1>2, <1>3

\* Every operation on a match keeps the records exact.
LEMMA StepRecords ==
    ASSUME TInv, NEW m \in Matches, MatchInv(m), MatchStep(m),
           NEW p \in Players, RecordInv(p)
    PROVE  RecordInv(p)'
<1>0. \A n \in Matches : n # m => Same(n)
    BY Zenon, OthersSame
<1>1. CASE \E w \in Winner : SubmitResult(m, w)
    BY Zenon, <1>0, <1>1, SubmitRecords
<1>2. CASE FinalizeMatch(m) \/ ResolveDispute(m)
    BY Zenon, <1>0, <1>2, CompleteRecords
<1>3. CASE \E w \in Winner : AdminResolveStalled(m, w)
    BY Zenon, <1>0, <1>3, AdminRecords
<1>4. CASE \/ \E a, b \in Players, s \in Stakes : CreateMatch(m, a, b, s)
           \/ \E q \in Players : Deposit(m, q)
    <2>1. /\ UNCHANGED <<stats, completedCount, vestedAt, deadline, winner>>
          /\ \/ state[m] = "Unused" /\ state'[m] = "Pending"
             \/ /\ UNCHANGED <<p1, p2>> /\ state[m] = "Pending"
                /\ state'[m] \in {"Pending", "Active"}
        BY Zenon, <1>4 DEF CreateMatch, Deposit, TInv, TypeOK, MatchTypes, parties, resultVars
    <2> QED
        BY Zenon, <1>0, <2>1, OtherRecords
<1>5. CASE \/ \E q \in Players : CancelMatch(m, q)
           \/ ExpireMatch(m)
           \/ \E R \in SUBSET Players : AdminRecoverMatch(m, R)
           \/ \E q \in Players : PauseMatch(m, q)
           \/ \E q \in Players : ResumeMatch(m, q)
    <2>1. /\ UNCHANGED <<stats, completedCount, vestedAt, deadline, winner, p1, p2>>
          /\ state[m] # "Completed" /\ state'[m] # "Completed"
        BY Zenon, <1>5
        DEF CancelMatch, ExpireMatch, RefundPending, AdminRecoverMatch, PauseMatch,
            ResumeMatch, Close, TInv, TypeOK, MatchTypes, parties, resultVars
    <2> QED
        BY Zenon, <1>0, <2>1, OtherRecords
<1>6. CASE \E q \in Players : DisputeAndRollback(m, q)
    <2>1. /\ UNCHANGED <<stats, completedCount, vestedAt, deadline, winner, p1, p2>>
          /\ state[m] # "Completed" /\ state'[m] # "Completed"
        BY Zenon, <1>6
        DEF DisputeAndRollback, Close, TInv, TypeOK, MatchTypes, parties, resultVars
    <2> QED
        BY Zenon, <1>0, <2>1, OtherRecords
<1>7. CASE \/ \E q \in Players : HeartbeatMatch(m, q)
           \/ \E q \in Players : ClaimVestedPayout(m, q)
           \/ \E q \in Players : DisputeOracleResult(m, q)
           \/ \E v \in Players, yes \in BOOLEAN : VoteOnDispute(m, v, yes)
    <2>1. UNCHANGED <<stats, completedCount, vestedAt, deadline, winner, p1, p2, state>>
        BY Zenon, <1>7
        DEF HeartbeatMatch, ClaimVestedPayout, DisputeOracleResult, VoteOnDispute,
            parties, resultVars
    <2> QED
        BY Zenon, <1>0, <2>1, OtherRecords
<1> QED
    BY Zenon, <1>1, <1>2, <1>3, <1>4, <1>5, <1>6, <1>7 DEF MatchStep

\* Statistics and completed-match counters agree with the matches after every
\* step, for every dispute period.
THEOREM RecordsExplained == Spec => []RecordsInv
<1>1. Init => RecordsInv
    <2> SUFFICES ASSUME Init, NEW p \in Players
                 PROVE  RecordInv(p)
        BY Zenon DEF RecordsInv
    <2>1. /\ \A m \in Matches : vestedAt[m] = NoLedger /\ state[m] = "Unused"
          /\ stats[p] = [wins |-> 0, losses |-> 0, draws |-> 0] /\ completedCount[p] = 0
        BY Zenon DEF Init
    <2>2. /\ Settled(p) = {} /\ Won(p) = {} /\ Drawn(p) = {}
          /\ Credited(p) = {} /\ Recredited(p) = {}
        BY <2>1, RecordSets
    <2>3. Cardinality({}) = 0
        BY Zenon, FS_EmptySet
    <2> QED
        BY SMTT(30), <2>1, <2>2, <2>3 DEF RecordInv, Recorded
<1>2. IInv /\ RecordsInv /\ [Next]_vars => RecordsInv'
    <2> SUFFICES ASSUME IInv, RecordsInv, [Next]_vars, NEW p \in Players
                 PROVE  RecordInv(p)'
        BY Zenon DEF RecordsInv
    <2>0. RecordInv(p) /\ TInv /\ \A m \in Matches : MatchInv(m)
        BY Zenon DEF RecordsInv, IInv
    <2>1. CASE Tick \/ AdminStep \/ UNCHANGED vars
        <3>1. UNCHANGED matchAndTokenVars
            BY Zenon, <2>1, AdminKeeps
        <3>2. UNCHANGED <<stats, completedCount, vestedAt, deadline, winner, p1, p2, state>>
            BY Zenon, <3>1 DEF matchAndTokenVars, parties, resultVars
        <3> QED
            BY Zenon, <2>0, <3>2
            DEF RecordInv, Settled, Won, Drawn, Credited, Recredited, Pair, Entitled
    <2> QED
        BY Zenon, <2>0, <2>1, StepRecords DEF Next
<1> QED
    BY <1>1, <1>2, InvariantHolds, PTL DEF Spec

\* No result ever waited for a dispute period.
NeverWaited == \A m \in Matches : deadline[m] = NoLedger

\* While no result has waited for a dispute period every finished match is
\* counted once, and the records agree with the matches.
THEOREM RecordsAgreeUnlessDisputed == Spec => [](NeverWaited => RecordsAgree)
<1>1. IInv /\ RecordsInv => (NeverWaited => RecordsAgree)
    <2> SUFFICES ASSUME IInv, RecordsInv, NeverWaited
                 PROVE  RecordsAgree
        BY Zenon
    <2>1. StatsAgree
        BY Zenon DEF RecordsInv, RecordInv, Recorded, StatsAgree
    <2>2. ASSUME NEW p \in Players
          PROVE  completedCount[p] = Cardinality(
                    {m \in Matches : /\ state[m] = "Completed" /\ p \in Pair(m)
                                     /\ vestedAt[m] # NoLedger \/ winner[m] # "Draw"})
        <3>1. Recredited(p) = {}
            BY DEF Recredited, NeverWaited
        <3>2. \A m \in Matches : vestedAt[m] # NoLedger => state[m] = "Completed"
            BY DEF IInv, MatchInv, ResultInv, NeverWaited
        <3>3. Credited(p) = {m \in Matches : /\ state[m] = "Completed" /\ p \in Pair(m)
                                             /\ vestedAt[m] # NoLedger \/ winner[m] # "Draw"}
            BY <3>2 DEF Credited
        <3>4. Cardinality(Recredited(p)) = 0
            BY Zenon, <3>1, FS_EmptySet
        <3>5. Cardinality(Credited(p)) \in Nat
            BY Zenon, RecordSetsFinite, FS_CardinalityType
        <3>6. completedCount[p] = Cardinality(Credited(p))
            BY <3>4, <3>5 DEF RecordsInv, RecordInv, Recorded
        <3> QED
            BY Zenon, <3>3, <3>6
    <2> QED
        BY Zenon, <2>1, <2>2 DEF RecordsAgree, CompletedOnce
<1> QED
    BY <1>1, InvariantHolds, RecordsExplained, PTL

\* A contract whose dispute period is never set: the value at deployment is 0.
NoPeriod == disputePeriod = 0 /\ NeverWaited

\* No step of such a contract makes a result wait.
LEMMA NextNoPeriod ==
    ASSUME DisputePeriods \subseteq {0}, TInv, NoPeriod, [Next]_vars
    PROVE  NoPeriod'
<1>1. CASE Tick \/ AdminStep \/ UNCHANGED vars
    <2>1. UNCHANGED matchAndTokenVars
        BY Zenon, <1>1, AdminKeeps
    <2>2. NeverWaited'
        BY Zenon, <2>1 DEF matchAndTokenVars, resultVars, NeverWaited, NoPeriod
    <2>3. disputePeriod' = disputePeriod \/ \E d \in DisputePeriods : disputePeriod' = d
        BY Zenon, <1>1
        DEF Tick, AdminStep, PauseContract, UnpauseContract, FreezePlayer,
            UnfreezePlayer, AddTokenToBlacklist, RemoveTokenFromBlacklist,
            SetDisputePeriod, SetMatchTimeout, vars, config
    <2> QED
        BY <2>2, <2>3 DEF NoPeriod
<1>2. ASSUME NEW m \in Matches, MatchStep(m)
      PROVE  NoPeriod'
    <2>1. disputePeriod' = disputePeriod /\ (deadline' = deadline \/ disputePeriod > 0)
        BY Zenon, <1>2
        DEF MatchStep, CreateMatch, Deposit, CancelMatch, ExpireMatch, RefundPending,
            AdminRecoverMatch, PauseMatch, ResumeMatch, HeartbeatMatch,
            DisputeAndRollback, AdminResolveStalled, SubmitResult, SettleResult,
            FinalizeMatch, ClaimVestedPayout, DisputeOracleResult, VoteOnDispute,
            ResolveDispute, config, resultVars
    <2>2. ~(disputePeriod > 0)
        BY DEF NoPeriod
    <2> QED
        BY Zenon, <2>1, <2>2 DEF NoPeriod, NeverWaited
<1> QED
    BY Zenon, <1>1, <1>2 DEF Next

\* A contract without a dispute period never makes a result wait.
THEOREM NothingWaits ==
    ASSUME DisputePeriods \subseteq {0}
    PROVE  Spec => []NeverWaited
<1>1. Init => NoPeriod
    BY Zenon DEF Init, NoPeriod, NeverWaited
<1>2. IInv /\ NoPeriod /\ [Next]_vars => NoPeriod'
    BY Zenon, NextNoPeriod DEF IInv
<1>3. NoPeriod => NeverWaited
    BY DEF NoPeriod
<1> QED
    BY <1>1, <1>2, <1>3, InvariantHolds, PTL DEF Spec

\* Without a dispute period, statistics and completed-match counters agree with
\* the matches in every state (update_player_stats, increment_completed_match_count).
THEOREM RecordsHold ==
    ASSUME DisputePeriods \subseteq {0}
    PROVE  Spec => []RecordsAgree
    BY NothingWaits, RecordsAgreeUnlessDisputed, PTL

-----------------------------------------------------------------------------
(* Solvency.                                                               *)

\* The deposits of a match are the refund of its depositors.
LEMMA DepositsAreRefund ==
    ASSUME TInv, NEW m \in Matches
    PROVE  SumOver(Refund(m, deposited[m]), Players) = Deposits(m)
<1> DEFINE f == [p \in Players |-> stake[m]]
           g == Refund(m, deposited[m])
<1>1. deposited[m] \in SUBSET Players /\ stake[m] \in Nat
    BY Zenon DEF TInv, TypeOK, MatchTypes
<1>2. \A p \in deposited[m] : f[p] \in Nat
    BY Zenon, <1>1
<1>3. \A p \in Players : g[p] = IF p \in deposited[m] THEN f[p] ELSE 0
    BY Zenon DEF Refund
<1>4. SumOver(f, deposited[m]) = SumOver(g, Players)
    <2> HIDE DEF f, g
    <2> QED
        BY <1>1, <1>2, <1>3, FiniteAssumption, SumRestrict
<1> QED
    BY Zenon, <1>4 DEF Deposits

\* A decided match holds the pot, and every result distributes the pot.
LEMMA PotIsDistributed ==
    ASSUME TInv, NEW m \in Matches, state[m] # "Unused", deposited[m] = Pair(m)
    PROVE  \A w \in Winner \ {"None"} : SumOver(Payout(m, w), Players) = Deposits(m)
<1>1. /\ p1[m] \in Players /\ p2[m] \in Players /\ p1[m] # p2[m] /\ stake[m] \in Nat
    BY Zenon DEF TInv, PartiesOK, TypeOK, MatchTypes
<1>2. Deposits(m) = Total(m, Refund(m, Pair(m)))
    BY Zenon, SharesOfPair, PairTotal, DepositsAreRefund
<1>3. Total(m, Refund(m, Pair(m))) = stake[m] + stake[m]
    BY Zenon, <1>1 DEF Total, Refund, Pair
<1> SUFFICES ASSUME NEW w \in Winner, w # "None"
             PROVE  SumOver(Payout(m, w), Players) = Deposits(m)
    BY Zenon
<1>4. SumOver(Payout(m, w), Players) = Total(m, Payout(m, w))
    BY Zenon, SharesOfPair, PairTotal
<1>5. Total(m, Payout(m, w)) = stake[m] + stake[m]
    <2>1. w \in {"Player1", "Player2", "Draw"}
        BY DEF Winner
    <2>2. CASE w = "Draw"
        BY <1>1, <2>2 DEF Total, Payout, Entitled, Pair
    <2>3. CASE w = "Player1"
        BY <1>1, <2>3 DEF Total, Payout, Entitled, Pot
    <2>4. CASE w = "Player2"
        BY <1>1, <2>4 DEF Total, Payout, Entitled, Pot
    <2> QED
        BY Zenon, <2>1, <2>2, <2>3, <2>4
<1> QED
    BY Zenon, <1>2, <1>3, <1>4, <1>5

\* A match never owes and has never paid more than it took in, unless its
\* result waited for a dispute period.
LEMMA MatchSolvent ==
    ASSUME TInv, NEW m \in Matches, MatchInv(m), deadline[m] = NoLedger
    PROVE  /\ Owed(m) \in Nat
           /\ Owed(m) + PaidOut(m) <= Deposits(m) + OpenBond(m)
<1>0. Deposits(m) \in Nat /\ OpenBond(m) \in Nat /\ PaidOut(m) \in Nat
    BY Zenon, AmountTypes DEF AmountsOK, TInv
<1>1. IsFiniteSet(Players) /\ \A p \in Players : paid[m][p] \in Nat
    BY Zenon, FiniteAssumption DEF TInv, TypeOK, TokenTypes
<1>2. CASE ~Terminal(m)
    <2>1. \A p \in Players : paid[m][p] = 0
        BY Zenon, <1>2 DEF MatchInv, PaidInv
    <2>2. PaidOut(m) = 0
        BY Zenon, <1>1, <2>1, SumZero DEF PaidOut
    <2>3. Owed(m) = Deposits(m)
        BY Zenon, <1>2 DEF Owed
    <2> QED
        BY <1>0, <2>2, <2>3
<1>3. CASE state[m] = "Cancelled"
    <2> DEFINE refund == Refund(m, deposited[m])
    <2>1. refund \in [Players -> Nat]
        BY Zenon, ShareTypes DEF TInv, TypeOK
    <2>2. \A p \in Players : paid[m][p] <= refund[p]
        BY Zenon, <1>3 DEF MatchInv, PaidInv
    <2>3. \A p \in Players : paid[m][p] \in Nat /\ refund[p] \in Nat /\ paid[m][p] <= refund[p]
        BY Zenon, <1>1, <2>1, <2>2
    <2>4. SumOver(paid[m], Players) <= SumOver(refund, Players)
        <3> HIDE DEF refund
        <3> QED
            BY Zenon, <1>1, <2>3, SumMonotone
    <2>5. PaidOut(m) <= Deposits(m)
        BY Zenon, <2>4, DepositsAreRefund DEF PaidOut
    <2>6. vestedAt[m] = NoLedger /\ Terminal(m)
        BY <1>3 DEF MatchInv, ResultInv, Terminal
    <2>7. Owed(m) = 0
        BY Zenon, <2>6 DEF Owed
    <2> QED
        BY <1>0, <2>5, <2>7
<1>4. CASE state[m] = "Completed"
    <2> DEFINE payout == Payout(m, winner[m])
               early  == [p \in Players |-> IF p \in claimed[m] THEN payout[p] ELSE 0]
               late   == [p \in Players |-> IF p \in Players \ claimed[m] THEN payout[p] ELSE 0]
    <2>1. /\ deposited[m] = Pair(m) /\ winner[m] # "None" /\ winner[m] \in Winner
          /\ claimed[m] # {} => vestedAt[m] # NoLedger /\ Terminal(m)
          /\ claimed[m] \in SUBSET Players
        BY Zenon, <1>4 DEF MatchInv, ShapeInv, ResultInv, Terminal, TInv, TypeOK, MatchTypes
    <2>2. payout \in [Players -> Nat]
        BY Zenon, ShareTypes DEF TInv, TypeOK
    <2>3. SumOver(payout, Players) = Deposits(m)
        BY Zenon, <1>4, <2>1, PotIsDistributed
    <2>4. dispute[m].state # "Overturned"
        BY DEF MatchInv, ResultInv, HasDispute
    <2>5. CASE vestedAt[m] = NoLedger
        <3>1. \A p \in Players : paid[m][p] = Direct(m)[p] + 0 /\ Direct(m) = payout
            BY Zenon, <1>4, <2>1, <2>4, <2>5 DEF MatchInv, PaidInv, Direct
        <3>2. \A p \in Players : paid[m][p] = payout[p]
            <4> HIDE DEF payout
            <4> QED
                BY <2>2, <3>1
        <3>3. SumOver(paid[m], Players) = SumOver(payout, Players)
            <4> HIDE DEF payout
            <4> QED
                BY <1>1, <3>2, SumSame
        <3>4. PaidOut(m) = Deposits(m)
            BY Zenon, <2>3, <3>3 DEF PaidOut
        <3>5. Owed(m) = 0
            BY Zenon, <1>4, <2>5 DEF Owed, Terminal
        <3> QED
            BY <1>0, <3>4, <3>5
    <2>6. CASE vestedAt[m] # NoLedger
        <3>1. \A p \in Players : Direct(m)[p] = 0
            BY Zenon, <2>6 DEF Direct
        <3>2. \A p \in Players :
                  paid[m][p] = Direct(m)[p] + (IF p \in claimed[m] THEN payout[p] ELSE 0)
            BY Zenon, <1>4 DEF MatchInv, PaidInv
        <3>3. \A p \in Players : paid[m][p] = early[p]
            <4> HIDE DEF payout
            <4> QED
                BY <2>2, <3>1, <3>2
        <3>4. \A p \in Players : early[p] \in Nat /\ late[p] \in Nat
                                 /\ payout[p] = early[p] + late[p]
            <4> HIDE DEF payout
            <4> QED
                BY <2>2
        <3>5. SumOver(paid[m], Players) = SumOver(early, Players)
            <4> HIDE DEF early
            <4> QED
                BY <1>1, <3>3, <3>4, SumSame
        <3>6. SumOver(payout, Players \ claimed[m]) = SumOver(late, Players)
            <4>1. \A p \in Players \ claimed[m] : payout[p] \in Nat
                BY Zenon, <2>2
            <4>2. \A p \in Players :
                      late[p] = IF p \in Players \ claimed[m] THEN payout[p] ELSE 0
                BY Zenon
            <4> HIDE DEF payout, late
            <4> QED
                BY <1>1, <4>1, <4>2, SumRestrict
        <3>7. SumOver(payout, Players) = SumOver(early, Players) + SumOver(late, Players)
            <4> HIDE DEF payout, early, late
            <4> QED
                BY Zenon, <1>1, <3>4, SumPlus
        <3>8. SumOver(early, Players) \in Nat /\ SumOver(late, Players) \in Nat
            <4> HIDE DEF early, late
            <4> QED
                BY Zenon, <1>1, <3>4, SumType
        <3>9. Owed(m) = SumOver(payout, Players \ claimed[m])
            BY Zenon, <1>4, <2>6 DEF Owed, Terminal
        <3>10. PaidOut(m) = SumOver(early, Players)
            BY Zenon, <3>5 DEF PaidOut
        <3> HIDE DEF payout, early, late
        <3> QED
            BY <1>0, <2>3, <3>6, <3>7, <3>8, <3>9, <3>10
    <2> QED
        BY Zenon, <2>5, <2>6
<1> QED
    BY Zenon, <1>2, <1>3, <1>4 DEF Terminal

\* While no result has waited for a dispute period the contract can pay
\* everybody: refunds, results and claims of all matches together.
THEOREM SolventUnlessDisputed == Spec => [](NeverWaited => Solvent)
<1>1. IInv /\ Conservation => (NeverWaited => Solvent)
    <2> SUFFICES ASSUME IInv, Conservation, NeverWaited
                 PROVE  Solvent
        BY Zenon
    <2> DEFINE owed == [m \in Matches |-> Owed(m)]
               out  == [m \in Matches |-> PaidOut(m)]
               both == [m \in Matches |-> Owed(m) + PaidOut(m)]
               in   == [m \in Matches |-> Deposits(m) + OpenBond(m)]
    <2>1. \A m \in Matches : /\ Owed(m) \in Nat
                             /\ Owed(m) + PaidOut(m) <= Deposits(m) + OpenBond(m)
        BY Zenon, MatchSolvent DEF IInv, NeverWaited
    <2>2. \A m \in Matches :
              Deposits(m) \in Nat /\ OpenBond(m) \in Nat /\ PaidOut(m) \in Nat
        BY Zenon, AmountTypes DEF AmountsOK, IInv, TInv
    <2>3. \A m \in Matches : /\ owed[m] \in Nat /\ out[m] \in Nat /\ in[m] \in Nat
                             /\ both[m] = owed[m] + out[m] /\ both[m] <= in[m]
        BY <2>1, <2>2
    <2>4. \A m \in Matches : both[m] \in Nat
        BY <2>1, <2>2
    <2> HIDE DEF owed, out, both, in
    <2>5. IsFiniteSet(Matches)
        BY Zenon, FiniteAssumption
    <2>6. SumOver(both, Matches) = SumOver(owed, Matches) + SumOver(out, Matches)
        BY Zenon, <2>3, <2>5, SumPlus
    <2>7. SumOver(both, Matches) <= SumOver(in, Matches)
        BY Zenon, <2>3, <2>4, <2>5, SumMonotone
    <2>8. /\ SumOver(owed, Matches) \in Nat /\ SumOver(out, Matches) \in Nat
          /\ SumOver(in, Matches) \in Nat
        BY Zenon, <2>3, <2>5, SumType
    <2>9. balance + SumOver(out, Matches) = SumOver(in, Matches)
        BY Zenon DEF Conservation, out, in
    <2>10. balance \in Nat
        BY Zenon DEF IInv, TInv, TypeOK, TokenTypes
    <2>11. balance >= SumOver(owed, Matches)
        BY <2>6, <2>7, <2>8, <2>9, <2>10
    <2> QED
        BY Zenon, <2>11 DEF Solvent, owed
<1> QED
    BY <1>1, InvariantHolds, MoneyConserved, PTL

\* Without a dispute period the contract is solvent in every state: no operation
\* on one match can make a transfer of another one trap.
THEOREM AlwaysSolvent ==
    ASSUME DisputePeriods \subseteq {0}
    PROVE  Spec => []Solvent
    BY NothingWaits, SolventUnlessDisputed, PTL
=============================================================================
