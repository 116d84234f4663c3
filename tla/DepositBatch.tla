---------------------------- MODULE DepositBatch ----------------------------
(***************************************************************************)
(* deposit and deposit_batch of the escrow contract                        *)
(* (contracts/escrow/src/lib.rs), write by write.  A deposit call that     *)
(* returns Err is undone with its transaction; an entry of a batch that    *)
(* returns Err is not, because deposit_batch collects the error and        *)
(* succeeds, so that whatever the entry wrote before the error stays.      *)
(* A batch of several entries is the sequence of its entries.              *)
(***************************************************************************)
EXTENDS Integers, FiniteSets, FiniteSetsExt

CONSTANTS
    Players,        \* addresses
    Matches,        \* match ids, created or not
    Player1(_), Player2(_),     \* the players of each match
    ActiveLimit,    \* MAX_ACTIVE_MATCHES_PER_PLAYER
    MaxStranded     \* bound on the stakes taken by failed entries

VARIABLES
    state,          \* Match.state; "none" before create_match
    deposited,      \* the players whose playerN_deposited flag is set
    index,          \* the states whose MatchesByState list has the match
    active,         \* ActiveMatch(player, match)
    count,          \* PlayerActiveMatchCount
    escrowed,       \* PlayerEscrowKey::Balance, in stakes
    held,           \* the contract's token balance, in stakes
    guard,          \* DepositInProgress(match), in temporary storage
    barred,         \* players whose tier does not allow the stake (any more)
    stranded        \* history: stakes taken by entries that then failed

vars == <<state, deposited, index, active, count, escrowed, held, guard, barred,
          stranded>>

Init ==
    /\ state = [m \in Matches |-> "none"]
    /\ deposited = [m \in Matches |-> {}]
    /\ index = [m \in Matches |-> {}]
    /\ active = [p \in Players |-> {}]
    /\ count = [p \in Players |-> 0]
    /\ escrowed = [p \in Players |-> 0]
    /\ held = 0 /\ guard = [m \in Matches |-> FALSE]
    /\ barred = {} /\ stranded = 0

PlayersOf(m) == {Player1(m), Player2(m)}

\* create_match refuses a match of a player against the same player.
ConstantsOK ==
    /\ IsFiniteSet(Matches)
    /\ MaxStranded \in Nat
    /\ \A m \in Matches : PlayersOf(m) \subseteq Players /\ Player1(m) # Player2(m)

\* set_match_state: moves the match between the state lists.
SetMatchState(m, s) ==
    index' = [index EXCEPT ![m] = (@ \ {state[m]}) \cup {s}]

(***************************************************************************)
(* deposit.                                                                *)
(***************************************************************************)
\* The checks before the tokens move.
MayDeposit(m, p) ==
    /\ ~guard[m]
    /\ state[m] = "Pending"
    /\ p \in PlayersOf(m) /\ p \notin deposited[m]
    /\ p \notin barred

\* The deposit of p is the second one.
Completes(m, p) == deposited[m] \cup {p} = PlayersOf(m)

AtLimit(p) == count[p] >= ActiveLimit

\* The transfer and update_player_escrow_balance.
TakeStake(p) ==
    /\ held' = held + 1
    /\ escrowed' = [escrowed EXCEPT ![p] = @ + 1]

\* add_active_match for the players of S, none of them at the limit.
AddActive(S, m) ==
    /\ active' = [p \in Players |-> IF p \in S THEN active[p] \cup {m} ELSE active[p]]
    /\ count' = [p \in Players |-> IF p \in S THEN count[p] + 1 ELSE count[p]]

\* A deposit that succeeds, on its own or in a batch.
Deposit(m, p) ==
    /\ MayDeposit(m, p)
    /\ TakeStake(p)
    /\ deposited' = [deposited EXCEPT ![m] = @ \cup {p}]
    /\ \/ /\ Completes(m, p)
          /\ \A q \in PlayersOf(m) : ~AtLimit(q)
          /\ SetMatchState(m, "Active")
          /\ state' = [state EXCEPT ![m] = "Active"]
          /\ AddActive(PlayersOf(m), m)
       \/ /\ ~Completes(m, p)
          /\ UNCHANGED <<state, index, active, count>>
    /\ UNCHANGED <<guard, barred, stranded>>

(***************************************************************************)
(* A failing entry of deposit_batch.                                       *)
(***************************************************************************)
\* A `?` returns after the guard is set: an unknown match, or a tier that does
\* not allow the stake.
EntryFailsGuarded(m, p) ==
    /\ ~guard[m]
    /\ \/ state[m] = "none"
       \/ /\ state[m] = "Pending" /\ p \in PlayersOf(m) \ deposited[m]
          /\ p \in barred
    /\ guard' = [guard EXCEPT ![m] = TRUE]
    /\ UNCHANGED <<state, deposited, index, active, count, escrowed, held,
                   barred, stranded>>

\* Altered for mutation: the failed entry's flag is saved.
SaveFailedFlag(m, p) == deposited' = [deposited EXCEPT ![m] = @ \cup {p}]

\* The match is saved at the end of deposit only, so not by a failing entry.
SaveFailed(m, p) == UNCHANGED deposited

\* The second deposit meets a player at the active-match limit: the stake is
\* taken, the state lists say Active, and player 1's entry may be made.
EntryFailsAtLimit(m, p) ==
    /\ MayDeposit(m, p)
    /\ Completes(m, p)
    /\ \E q \in PlayersOf(m) : AtLimit(q)
    /\ stranded < MaxStranded
    /\ TakeStake(p)
    /\ SaveFailed(m, p)
    /\ SetMatchState(m, "Active")
    /\ IF AtLimit(Player1(m)) THEN UNCHANGED <<active, count>>
       ELSE AddActive({Player1(m)}, m)
    /\ stranded' = stranded + 1
    /\ UNCHANGED <<state, guard, barred>>

(***************************************************************************)
(* The rest of the contract, as far as it touches this state (see Escrow). *)
(***************************************************************************)
CreateMatch(m) ==
    /\ state[m] = "none"
    /\ state' = [state EXCEPT ![m] = "Pending"]
    /\ index' = [index EXCEPT ![m] = {"Pending"}]
    /\ UNCHANGED <<deposited, active, count, escrowed, held, guard, barred,
                   stranded>>

\* cancel_match or expire_match returns the deposits.
CancelMatch(m) ==
    /\ state[m] = "Pending"
    /\ SetMatchState(m, "Cancelled")
    /\ state' = [state EXCEPT ![m] = "Cancelled"]
    /\ held' = held - Cardinality(deposited[m])
    /\ escrowed' = [p \in Players |->
                       IF p \in deposited[m] THEN escrowed[p] - 1 ELSE escrowed[p]]
    /\ UNCHANGED <<deposited, active, count, guard, barred, stranded>>

\* A result pays the pot out and ends play.
CompleteMatch(m) ==
    /\ state[m] = "Active"
    /\ SetMatchState(m, "Completed")
    /\ state' = [state EXCEPT ![m] = "Completed"]
    /\ held' = held - Cardinality(PlayersOf(m))
    /\ escrowed' = [p \in Players |->
                       IF p \in PlayersOf(m) THEN escrowed[p] - 1 ELSE escrowed[p]]
    /\ active' = [p \in Players |-> active[p] \ {m}]
    /\ count' = [p \in Players |-> IF m \in active[p] THEN count[p] - 1 ELSE count[p]]
    /\ UNCHANGED <<deposited, guard, barred, stranded>>

\* A player's tier rises above the stake.
TierRises(p) ==
    /\ p \notin barred
    /\ barred' = barred \cup {p}
    /\ UNCHANGED <<state, deposited, index, active, count, escrowed, held, guard,
                   stranded>>

\* A temporary entry lives until its TTL has run out.
GuardExpires(m) ==
    /\ guard[m]
    /\ guard' = [guard EXCEPT ![m] = FALSE]
    /\ UNCHANGED <<state, deposited, index, active, count, escrowed, held,
                   barred, stranded>>

Next ==
    \/ \E m \in Matches, p \in Players : Deposit(m, p)
    \/ \E m \in Matches, p \in Players : EntryFailsGuarded(m, p)
    \/ \E m \in Matches, p \in Players : EntryFailsAtLimit(m, p)
    \/ \E m \in Matches : CreateMatch(m)
    \/ \E m \in Matches : CancelMatch(m)
    \/ \E m \in Matches : CompleteMatch(m)
    \/ \E p \in Players : TierRises(p)
    \/ \E m \in Matches : GuardExpires(m)

Spec == Init /\ [][Next]_vars

(***************************************************************************)
(* Properties.                                                             *)
(***************************************************************************)
Open(m) == state[m] \in {"Pending", "Active"}
OpenDeposits == [m \in Matches |-> IF Open(m) THEN Cardinality(deposited[m]) ELSE 0]

\* The contract holds the stakes of the deposit flags of open matches plus, to
\* the token, what failed batch entries took: such an entry never lets one match
\* live on another's stakes (deposit_batch).
FlagsBacked ==
    held = stranded
         + MapThenSumSet(LAMBDA m : OpenDeposits[m], Matches)

\* A match is Active or Completed only with both deposits recorded, and in play
\* it is in both players' active sets, however many batch entries failed before.
ActiveMeansBoth ==
    \A m \in Matches :
        /\ state[m] \in {"Active", "Completed"} => deposited[m] = PlayersOf(m)
        /\ state[m] = "Active" => \A p \in PlayersOf(m) : m \in active[p]

\* A player's escrow counter never falls below the deposits the player has in
\* open matches, nor below zero.
CounterCoversFlags ==
    \A p \in Players :
        escrowed[p] >= Cardinality({m \in Matches : Open(m) /\ p \in deposited[m]})

\* Claim (comment in deposit): the guard is cleared by the end of the
\* transaction on every path.
GuardClearedAtEnd == \A m \in Matches : ~guard[m]

\* Claim (docs/storage-layout.md): MatchesByState holds the matches currently in
\* that state.
IndexIsState ==
    \A m \in Matches : index[m] = IF state[m] = "none" THEN {} ELSE {state[m]}
=============================================================================
