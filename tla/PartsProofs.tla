---------------------------- MODULE PartsProofs ----------------------------
(***************************************************************************)
(* Proofs about the parts of the escrow contract around the life of a      *)
(* match, for all values of the constants that the code allows: the        *)
(* governance, the rotation of the oracle, batches of deposits and the     *)
(* consensus of oracles.  A step of EscrowParts is a step of one part, so  *)
(* that what every step of a part keeps, EscrowParts keeps.                *)
(***************************************************************************)
EXTENDS EscrowParts, Counting

\* A step of one part leaves the others alone.
LEMMA OnePartMoves ==
    ASSUME [Next]_vars
    PROVE  /\ Batch!Next \/ UNCHANGED batchVars
           /\ Gov!Next \/ UNCHANGED govVars
           /\ Rotation!Next \/ UNCHANGED rotVars
           /\ Consensus!Next \/ UNCHANGED consVars
<1>1. CASE Next
  BY <1>1, Zenon DEF Next
<1>2. CASE UNCHANGED vars
  BY <1>2 DEF vars
<1> QED
  BY <1>1, <1>2

-----------------------------------------------------------------------------
(***************************************************************************)
(* Governance.  What makes UpgradeReviewed inductive: while an upgrade is  *)
(* scheduled its stored entries describe the proposal of the history, and  *)
(* a confirmation is stored only while an upgrade is scheduled, so that it *)
(* was given after that schedule.                                          *)
(***************************************************************************)
Proposal == [hash : Hashes \cup {None}, scheduled : Int, confirmed : Int]

UpgradeType ==
    /\ gNow \in Nat
    /\ scheduledAt \in Nat \cup {None}
    /\ proposed \in Proposal
    /\ installed \subseteq
          [hash : Hashes \cup {None}, proposed : Proposal, at : Nat]

UpgradeInv ==
    /\ UpgradeType
    /\ scheduledAt # None =>
          /\ scheduledAt <= gNow
          /\ proposed.scheduled = scheduledAt
          /\ proposed.hash = pendingHash
    /\ scheduledAt = None => confirmedBy = None
    /\ confirmedBy # None => proposed.confirmed >= proposed.scheduled
    /\ Gov!UpgradeReviewed

\* The invariant holds in a contract that has just been initialised.
LEMMA UpgradeInit == ASSUME Gov!ConstantsOK, Gov!Init PROVE UpgradeInv
<1>1. gNow = 0 /\ scheduledAt = None /\ confirmedBy = None /\ installed = {}
  BY DEF Gov!Init
<1>2. proposed \in Proposal
  BY DEF Gov!Init, Gov!NoUpgrade, Proposal
<1> QED
  BY <1>1, <1>2 DEF UpgradeInv, UpgradeType, Gov!UpgradeReviewed

\* schedule_upgrade starts a proposal nobody has confirmed yet.
LEMMA ScheduleKeeps ==
    ASSUME Gov!ConstantsOK, UpgradeInv, NEW h \in Hashes, Gov!ScheduleUpgrade(h)
    PROVE  UpgradeInv'
<1>1. /\ scheduledAt = None /\ confirmedBy = None /\ confirmedBy' = None
      /\ scheduledAt' = gNow /\ pendingHash' = h /\ gNow' = gNow
      /\ installed' = installed
      /\ proposed' = [hash |-> h, scheduled |-> gNow, confirmed |-> -1]
  BY DEF Gov!ScheduleUpgrade, UpgradeInv
<1>2. gNow \in Nat /\ proposed' \in Proposal
  BY <1>1 DEF UpgradeInv, UpgradeType, Proposal
<1>3. UpgradeType'
  BY <1>1, <1>2 DEF UpgradeInv, UpgradeType
<1>4. Gov!UpgradeReviewed'
  BY <1>1 DEF UpgradeInv, Gov!UpgradeReviewed
<1> QED
  BY <1>1, <1>2, <1>3, <1>4 DEF UpgradeInv

\* confirm_upgrade confirms the proposal that is scheduled.
LEMMA ConfirmKeeps ==
    ASSUME Gov!ConstantsOK, UpgradeInv, NEW a \in AdminAccounts, Gov!ConfirmUpgrade(a)
    PROVE  UpgradeInv'
<1>1. /\ scheduledAt # None /\ scheduledAt' = scheduledAt /\ gNow' = gNow
      /\ pendingHash' = pendingHash /\ installed' = installed
      /\ proposed' = [proposed EXCEPT !.confirmed = gNow]
  BY DEF Gov!ConfirmUpgrade
<1>2. /\ gNow \in Nat /\ scheduledAt \in Nat /\ scheduledAt <= gNow
      /\ proposed \in Proposal
  BY <1>1 DEF UpgradeInv, UpgradeType
<1>3. /\ proposed' \in Proposal /\ proposed'.confirmed = gNow
      /\ proposed'.scheduled = proposed.scheduled
      /\ proposed'.hash = proposed.hash
  BY <1>1, <1>2 DEF Proposal
<1>4. UpgradeType'
  BY <1>1, <1>2, <1>3 DEF UpgradeInv, UpgradeType
<1>5. Gov!UpgradeReviewed'
  BY <1>1 DEF UpgradeInv, Gov!UpgradeReviewed
<1> QED
  BY <1>1, <1>2, <1>3, <1>4, <1>5 DEF UpgradeInv

\* execute_upgrade installs the proposal of the history, after its wait.
LEMMA ExecuteKeeps ==
    ASSUME Gov!ConstantsOK, UpgradeInv, Gov!ExecuteUpgrade
    PROVE  UpgradeInv'
<1> DEFINE new == [hash |-> pendingHash, proposed |-> proposed, at |-> gNow]
<1>1. /\ scheduledAt # None /\ confirmedBy # None
      /\ gNow >= scheduledAt + ReviewPeriod
      /\ scheduledAt' = None /\ confirmedBy' = None
      /\ gNow' = gNow /\ proposed' = proposed
      /\ installed' = installed \cup {new}
  BY DEF Gov!ExecuteUpgrade, Gov!ClearUpgrade
<1>2. /\ gNow \in Nat /\ scheduledAt \in Nat /\ proposed \in Proposal
      /\ proposed.scheduled = scheduledAt /\ proposed.hash = pendingHash
      /\ proposed.confirmed >= proposed.scheduled
  BY <1>1 DEF UpgradeInv, UpgradeType
<1>3. new \in [hash : Hashes \cup {None}, proposed : Proposal, at : Nat]
  BY <1>2 DEF Proposal
<1>4. UpgradeType'
  BY <1>1, <1>2, <1>3 DEF UpgradeInv, UpgradeType
<1>5. Gov!UpgradeReviewed'
  BY <1>1, <1>2 DEF UpgradeInv, Gov!UpgradeReviewed
<1> QED
  BY <1>1, <1>4, <1>5 DEF UpgradeInv

\* Every step keeps the invariant; only the clock and the four upgrade calls
\* touch what it speaks of.
LEMMA UpgradeStep ==
    ASSUME Gov!ConstantsOK, UpgradeInv, Gov!Next \/ UNCHANGED govVars
    PROVE  UpgradeInv'
<1>1. ASSUME NEW h \in Hashes, Gov!ScheduleUpgrade(h) PROVE UpgradeInv'
  BY <1>1, ScheduleKeeps
<1>2. ASSUME NEW a \in AdminAccounts, Gov!ConfirmUpgrade(a) PROVE UpgradeInv'
  BY <1>2, ConfirmKeeps
<1>3. CASE Gov!ExecuteUpgrade
  BY <1>3, ExecuteKeeps
<1>4. CASE Gov!CancelUpgrade
  <2>1. /\ scheduledAt' = None /\ confirmedBy' = None /\ gNow' = gNow
        /\ proposed' = proposed /\ installed' = installed
    BY <1>4 DEF Gov!CancelUpgrade, Gov!ClearUpgrade
  <2> QED
    BY <2>1 DEF UpgradeInv, UpgradeType, Gov!UpgradeReviewed
<1>5. CASE Gov!Tick
  <2>1. /\ gNow' = gNow + 1 /\ scheduledAt' = scheduledAt
        /\ confirmedBy' = confirmedBy /\ pendingHash' = pendingHash
        /\ proposed' = proposed /\ installed' = installed
    BY <1>5 DEF Gov!Tick, Gov!upgrade
  <2> QED
    BY <2>1 DEF UpgradeInv, UpgradeType, Gov!UpgradeReviewed
<1>6. ASSUME gNow' = gNow, UNCHANGED Gov!upgrade PROVE UpgradeInv'
  BY <1>6 DEF Gov!upgrade, UpgradeInv, UpgradeType, Gov!UpgradeReviewed
<1>7. ASSUME NEW a \in AdminAccounts, Gov!ProposeAdmin(a) PROVE UpgradeInv'
  BY <1>6, <1>7 DEF Gov!ProposeAdmin
<1>8. CASE Gov!AcceptAdmin \/ Gov!CancelAdminProposal
  BY <1>6, <1>8 DEF Gov!AcceptAdmin, Gov!CancelAdminProposal
<1>9. ASSUME NEW b \in BOOLEAN, Gov!SetPaused(b) PROVE UpgradeInv'
  BY <1>6, <1>9 DEF Gov!SetPaused
<1>10. ASSUME NEW v \in Versions, Gov!MigrateState(v) PROVE UpgradeInv'
  BY <1>6, <1>10 DEF Gov!MigrateState
<1>11. ASSUME NEW p \in Periods, Gov!SetDisputePeriod(p) PROVE UpgradeInv'
  BY <1>6, <1>11 DEF Gov!SetDisputePeriod
<1>12. CASE UNCHANGED govVars
  BY <1>6, <1>12 DEF govVars, Gov!upgrade
<1> QED
  BY <1>1, <1>2, <1>3, <1>4, <1>5, <1>7, <1>8, <1>9, <1>10, <1>11, <1>12 DEF Gov!Next

\* A nomination is replaced or removed with every change of the admin.
LEMMA NominationStep ==
    ASSUME Gov!NominationCurrent, Gov!Next \/ UNCHANGED govVars
    PROVE  Gov!NominationCurrent'
<1>1. ASSUME NEW a \in AdminAccounts, Gov!ProposeAdmin(a) PROVE Gov!NominationCurrent'
  BY <1>1 DEF Gov!ProposeAdmin, Gov!NominationCurrent
<1>2. CASE Gov!AcceptAdmin
  BY <1>2 DEF Gov!AcceptAdmin, Gov!NominationCurrent
<1>3. CASE Gov!CancelAdminProposal
  BY <1>3 DEF Gov!CancelAdminProposal, Gov!NominationCurrent
<1>4. ASSUME UNCHANGED <<admin, pendingAdmin>> PROVE Gov!NominationCurrent'
  BY <1>4 DEF Gov!NominationCurrent
<1>5. CASE UNCHANGED govVars
  BY <1>4, <1>5 DEF govVars
<1>6. ASSUME NEW b \in BOOLEAN, Gov!SetPaused(b) PROVE Gov!NominationCurrent'
  BY <1>4, <1>6 DEF Gov!SetPaused
<1>7. ASSUME NEW h \in Hashes, Gov!ScheduleUpgrade(h) PROVE Gov!NominationCurrent'
  BY <1>4, <1>7 DEF Gov!ScheduleUpgrade
<1>8. CASE Gov!CancelUpgrade \/ Gov!ExecuteUpgrade \/ Gov!Tick
  BY <1>4, <1>8 DEF Gov!CancelUpgrade, Gov!ExecuteUpgrade, Gov!Tick
<1>9. ASSUME NEW a \in AdminAccounts, Gov!ConfirmUpgrade(a) PROVE Gov!NominationCurrent'
  BY <1>4, <1>9 DEF Gov!ConfirmUpgrade
<1>10. ASSUME NEW v \in Versions, Gov!MigrateState(v) PROVE Gov!NominationCurrent'
  BY <1>4, <1>10 DEF Gov!MigrateState
<1>11. ASSUME NEW p \in Periods, Gov!SetDisputePeriod(p) PROVE Gov!NominationCurrent'
  BY <1>4, <1>11 DEF Gov!SetDisputePeriod
<1> QED
  BY <1>1, <1>2, <1>3, <1>5, <1>6, <1>7, <1>8, <1>9, <1>10, <1>11 DEF Gov!Next

\* Only migrate_state changes the version, and its back-fill writes the value
\* that an absent period already stands for.
LEMMA MigrationStep ==
    ASSUME Gov!ConstantsOK, Gov!Next
    PROVE  version' # version =>
              version' > version /\ Gov!EffectivePeriod' = Gov!EffectivePeriod
<1>1. ASSUME NEW v \in Versions, Gov!MigrateState(v)
      PROVE  version' > version /\ Gov!EffectivePeriod' = Gov!EffectivePeriod
  <2>1. period' = Gov!Migrated(v) /\ version' = v /\ v > version
    BY <1>1 DEF Gov!MigrateState
  <2>2. Gov!EffectivePeriod' = Gov!EffectivePeriod
    BY Zenon, <2>1 DEF Gov!Migrated, Gov!EffectivePeriod
  <2> QED
    BY <2>1, <2>2
<1>2. CASE Gov!AcceptAdmin \/ Gov!CancelAdminProposal \/ Gov!CancelUpgrade \/ Gov!ExecuteUpgrade \/ Gov!Tick
  BY <1>2 DEF Gov!AcceptAdmin, Gov!CancelAdminProposal, Gov!CancelUpgrade, Gov!ExecuteUpgrade, Gov!Tick
<1>3. ASSUME NEW a \in AdminAccounts, Gov!ProposeAdmin(a) \/ Gov!ConfirmUpgrade(a)
      PROVE  version' = version
  BY <1>3 DEF Gov!ProposeAdmin, Gov!ConfirmUpgrade
<1>4. ASSUME NEW b \in BOOLEAN, Gov!SetPaused(b) PROVE version' = version
  BY <1>4 DEF Gov!SetPaused
<1>5. ASSUME NEW h \in Hashes, Gov!ScheduleUpgrade(h) PROVE version' = version
  BY <1>5 DEF Gov!ScheduleUpgrade
<1>6. ASSUME NEW p \in Periods, Gov!SetDisputePeriod(p) PROVE version' = version
  BY Zenon, <1>6 DEF Gov!SetDisputePeriod
<1> QED
  BY <1>1, <1>2, <1>3, <1>4, <1>5, <1>6 DEF Gov!Next

(***************************************************************************)
(* OracleRotation.  The stored temporary rotation, as long as there is     *)
(* one, is the rotation asked for last, because every permanent change     *)
(* removes both.                                                           *)
(***************************************************************************)
TempAsAsked == temp # Rotation!NoTemp => temp.new = asked.new /\ temp.expiry = asked.until

RotationInv == TempAsAsked /\ Rotation!PendingNamesBase

\* Every step of the contract keeps the invariant.
LEMMA RotationStep ==
    ASSUME RotationInv, Rotation!Next \/ UNCHANGED rotVars
    PROVE  RotationInv'
<1> USE DEF RotationInv, TempAsAsked, Rotation!PendingNamesBase
<1>1. CASE Rotation!ReadOracle
  BY <1>1 DEF Rotation!ReadOracle, Rotation!TempAfterRead
<1>2. ASSUME NEW a \in OracleAccounts, Rotation!UpdateOracle(a) PROVE RotationInv'
  BY <1>2 DEF Rotation!UpdateOracle
<1>3. ASSUME NEW old \in OracleAccounts, NEW a \in OracleAccounts, NEW d \in Durations,
             Rotation!RotateOracleTemporary(old, a, d)
      PROVE  RotationInv'
  BY <1>3 DEF Rotation!RotateOracleTemporary
<1>4. CASE Rotation!FinalizeTempOracleRotation
  BY <1>4 DEF Rotation!FinalizeTempOracleRotation
<1>5. ASSUME NEW old \in OracleAccounts, NEW a \in OracleAccounts,
             Rotation!ProposeOracleRotation(old, a)
      PROVE  RotationInv'
  BY <1>5 DEF Rotation!ProposeOracleRotation
<1>6. ASSUME NEW old \in OracleAccounts, NEW a \in OracleAccounts,
             Rotation!RotateOraclePermanent(old, a)
      PROVE  RotationInv'
  BY <1>6 DEF Rotation!RotateOraclePermanent
<1>7. CASE Rotation!Tick
  BY <1>7 DEF Rotation!Tick
<1>8. CASE UNCHANGED rotVars
  BY <1>8 DEF rotVars
<1> QED
  BY <1>1, <1>2, <1>3, <1>4, <1>5, <1>6, <1>7, <1>8 DEF Rotation!Next

\* Whatever the accounts, hashes, periods, versions and durations, and however
\* many calls the admins make: no code is installed without its announcement,
\* its wait and its confirmation, a nomination is always the current admin's own,
\* a migration never changes the dispute period settlements use, and whoever the
\* contract obeys other than the base oracle is the stand-in asked for last,
\* inside its window.
THEOREM AuthorityProved == Spec => AuthorityHolds
<1> DEFINE Keeps == version' # version =>
                       version' > version /\ Gov!EffectivePeriod' = Gov!EffectivePeriod
<1>1. Init => UpgradeInv /\ Gov!NominationCurrent /\ RotationInv
  <2>1. Gov!Init => UpgradeInv
    BY UpgradeInit, PartsAssumption
  <2>2. Gov!Init => Gov!NominationCurrent
    BY DEF Gov!Init, Gov!NominationCurrent
  <2>3. Rotation!Init => RotationInv
    BY DEF Rotation!Init, RotationInv, TempAsAsked, Rotation!PendingNamesBase
  <2> QED
    BY <2>1, <2>2, <2>3, Zenon DEF Init
<1>2. UpgradeInv /\ [Next]_vars => UpgradeInv'
  BY UpgradeStep, OnePartMoves, PartsAssumption
<1>3. Gov!NominationCurrent /\ [Next]_vars => Gov!NominationCurrent'
  BY NominationStep, OnePartMoves
<1>4. RotationInv /\ [Next]_vars => RotationInv'
  BY RotationStep, OnePartMoves
<1>5. UpgradeInv => Gov!UpgradeReviewed
  BY DEF UpgradeInv
<1>6. RotationInv => Rotation!PendingNamesBase /\ Rotation!StandInAuthorised
  BY DEF RotationInv, TempAsAsked, Rotation!StandInAuthorised, Rotation!EffectiveOracle,
         Rotation!TempInForce
<1>7. [Next]_vars => [Keeps]_(Gov!vars)
  <2>1. UNCHANGED govVars => UNCHANGED Gov!vars
    BY DEF govVars, Gov!vars, Gov!upgrade
  <2>2. Gov!Next => Keeps
    BY MigrationStep, PartsAssumption
  <2> HIDE DEF Keeps
  <2> QED
    BY <2>1, <2>2, OnePartMoves
<1>8. Spec => Gov!AuthorityHolds
  BY <1>1, <1>2, <1>3, <1>5, <1>7, PTL
     DEF Spec, Gov!AuthorityHolds, Gov!MigrationKeepsPeriod
<1>9. Spec => Rotation!AuthorityHolds
  BY <1>1, <1>4, <1>6, PTL DEF Spec, Rotation!AuthorityHolds
<1> QED
  BY <1>8, <1>9 DEF AuthorityHolds

-----------------------------------------------------------------------------
(***************************************************************************)
(* DepositBatch.  The money and the counters are compared with the deposit *)
(* flags of one match at a time, as every call touches one match.  A flag  *)
(* is of a player of the match and there is none before create_match.      *)
(***************************************************************************)
\* The flags of open matches, and whether p has one in m.
Flags == [m \in BatchMatches |-> IF Batch!Open(m) THEN Cardinality(bDeposited[m]) ELSE 0]
FlaggedIn(p) == {m \in BatchMatches : Batch!Open(m) /\ p \in bDeposited[m]}
HasFlag(p, m) == IF m \in FlaggedIn(p) THEN 1 ELSE 0

BatchType ==
    /\ bState \in [BatchMatches -> {"none", "Pending", "Active", "Completed", "Cancelled"}]
    /\ bDeposited \in [BatchMatches -> SUBSET BatchPlayers]
    /\ active \in [BatchPlayers -> SUBSET BatchMatches]
    /\ escrowed \in [BatchPlayers -> Int]
    /\ held \in Int /\ stranded \in Nat

FlagsOK(m) ==
    /\ bDeposited[m] \subseteq Batch!PlayersOf(m)
    /\ bState[m] = "none" => bDeposited[m] = {}
    /\ bState[m] \in {"Active", "Completed"} => bDeposited[m] = Batch!PlayersOf(m)
    /\ bState[m] = "Active" => \A p \in Batch!PlayersOf(m) : m \in active[p]

Backed == held = stranded + SumOver(Flags, BatchMatches)

Covered(p) == escrowed[p] >= Cardinality(FlaggedIn(p))

BatchInv ==
    /\ BatchType
    /\ \A m \in BatchMatches : FlagsOK(m)
    /\ Backed
    /\ \A p \in BatchPlayers : Covered(p)

\* DepositBatch counts as here.
LEMMA BatchSets ==
    /\ \A S : Batch!Cardinality(S) = Cardinality(S)
    /\ \A S : Batch!IsFiniteSet(S) <=> IsFiniteSet(S)
BY DEF Batch!Cardinality, Cardinality, Batch!IsFiniteSet, IsFiniteSet

\* What the constants give.
LEMMA BatchConstants ==
    /\ IsFiniteSet(BatchMatches)
    /\ \A m \in BatchMatches : /\ Batch!PlayersOf(m) \subseteq BatchPlayers
                               /\ IsFiniteSet(Batch!PlayersOf(m))
                               /\ Cardinality(Batch!PlayersOf(m)) = 2
<1>1. /\ IsFiniteSet(BatchMatches)
      /\ \A m \in BatchMatches : /\ Batch!PlayersOf(m) \subseteq BatchPlayers
                                 /\ Player1(m) # Player2(m)
  BY PartsAssumption, BatchSets DEF Batch!ConstantsOK
<1>2. ASSUME NEW m \in BatchMatches
      PROVE  IsFiniteSet(Batch!PlayersOf(m)) /\ Cardinality(Batch!PlayersOf(m)) = 2
  <2>1. Batch!PlayersOf(m) = {Player1(m)} \cup {Player2(m)}
    BY DEF Batch!PlayersOf
  <2>2. IsFiniteSet({Player1(m)}) /\ Cardinality({Player1(m)}) = 1
    BY FS_Singleton
  <2>3. /\ IsFiniteSet({Player1(m)} \cup {Player2(m)})
        /\ Cardinality({Player1(m)} \cup {Player2(m)}) = Cardinality({Player1(m)}) + 1
    BY Zenon, <1>1, <2>2, FS_AddElement
  <2> QED
    BY <2>1, <2>2, <2>3
<1> QED
  BY <1>1, <1>2, Zenon

\* The flags of a match are finitely many.
LEMMA FlagsFinite ==
    ASSUME BatchType, \A m \in BatchMatches : FlagsOK(m), NEW m \in BatchMatches
    PROVE  IsFiniteSet(bDeposited[m]) /\ Cardinality(bDeposited[m]) \in Nat
<1>1. bDeposited[m] \in SUBSET Batch!PlayersOf(m) /\ IsFiniteSet(Batch!PlayersOf(m))
  BY BatchConstants DEF FlagsOK
<1> QED
  BY <1>1, FS_Subset, FS_CardinalityType, Zenon

\* The matches a player has a flag in are finitely many.
LEMMA FlaggedFinite ==
    ASSUME NEW p
    PROVE  IsFiniteSet(FlaggedIn(p)) /\ Cardinality(FlaggedIn(p)) \in Nat
<1>1. FlaggedIn(p) \in SUBSET BatchMatches /\ IsFiniteSet(BatchMatches)
  BY BatchConstants DEF FlaggedIn
<1> QED
  BY <1>1, FS_Subset, FS_CardinalityType, Zenon

\* What a call that touches the flags and the state of m alone may do to the
\* money: the change of what is held, without what is stranded, is the change of
\* the number of flags.
LEMMA BackedStep ==
    ASSUME BatchInv, BatchType', \A k \in BatchMatches : FlagsOK(k)',
           NEW m \in BatchMatches,
           \A k \in BatchMatches \ {m} :
               bState'[k] = bState[k] /\ bDeposited'[k] = bDeposited[k],
           (held' - stranded') - (held - stranded) = Flags'[m] - Flags[m]
    PROVE  Backed'
<1>1. \A k \in BatchMatches : Flags[k] \in Nat
  BY Zenon, FlagsFinite DEF Flags, BatchInv
<1>2. \A k \in BatchMatches : IsFiniteSet(bDeposited'[k]) /\ Cardinality(bDeposited'[k]) \in Nat
  <2> SUFFICES ASSUME NEW k \in BatchMatches
               PROVE  IsFiniteSet(bDeposited'[k]) /\ Cardinality(bDeposited'[k]) \in Nat
    BY Zenon
  <2>1. bDeposited'[k] \in SUBSET Batch!PlayersOf(k) /\ IsFiniteSet(Batch!PlayersOf(k))
    BY BatchConstants DEF FlagsOK, Batch!PlayersOf
  <2> QED
    BY <2>1, FS_Subset, FS_CardinalityType, Zenon
<1>3. \A k \in BatchMatches : Flags'[k] \in Nat
  BY <1>2 DEF Flags
<1>4. \A k \in BatchMatches : k # m => Flags'[k] = Flags[k]
  BY DEF Flags, Batch!Open
<1> DEFINE f == Flags
           g == Flags'
<1>5. /\ \A y \in BatchMatches : f[y] \in Nat /\ g[y] \in Nat
      /\ \A y \in BatchMatches : y # m => g[y] = f[y]
      /\ (held' - stranded') - (held - stranded) = g[m] - f[m]
  BY Zenon, <1>1, <1>3, <1>4
<1>6. held = stranded + SumOver(f, BatchMatches)
  BY DEF BatchInv, Backed
<1>7. held \in Int /\ held' \in Int /\ stranded \in Nat /\ stranded' \in Nat
  BY DEF BatchInv, BatchType
<1> HIDE DEF f, g
<1>8. SumOver(g, BatchMatches) + f[m] = SumOver(f, BatchMatches) + g[m]
  BY SMTT(30), <1>5, BatchConstants, SumChange
<1>9. SumOver(f, BatchMatches) \in Nat /\ SumOver(g, BatchMatches) \in Nat
  BY <1>5, BatchConstants, SumType
<1>10. held' = stranded' + SumOver(g, BatchMatches)
  BY SMTT(30), <1>5, <1>6, <1>7, <1>8, <1>9
<1> QED
  BY <1>10 DEF Backed, g

\* And to the counter of a player: it changes with the player's flag, or falls
\* by less.
LEMMA CoveredStep ==
    ASSUME BatchInv, BatchType', NEW m \in BatchMatches,
           \A k \in BatchMatches \ {m} :
               bState'[k] = bState[k] /\ bDeposited'[k] = bDeposited[k],
           NEW p \in BatchPlayers,
           escrowed'[p] - escrowed[p] >= HasFlag(p, m)' - HasFlag(p, m)
    PROVE  Covered(p)'
<1> DEFINE S == FlaggedIn(p)
           T == FlaggedIn(p)'
<1>1. \A k : k # m => (k \in T <=> k \in S)
  BY DEF FlaggedIn, Batch!Open
<1>2. IsFiniteSet(S) /\ Cardinality(S) \in Nat
  BY FlaggedFinite
<1>3. IsFiniteSet(T) /\ Cardinality(T) \in Nat
  <2>1. T \in SUBSET BatchMatches
    BY DEF FlaggedIn
  <2> QED
    BY <2>1, BatchConstants, FS_Subset, FS_CardinalityType, Zenon
<1>4. escrowed[p] \in Int /\ escrowed'[p] \in Int /\ escrowed[p] >= Cardinality(S)
  BY Zenon DEF BatchInv, BatchType, Covered
<1>5. escrowed'[p] - escrowed[p] >= (IF m \in T THEN 1 ELSE 0) - (IF m \in S THEN 1 ELSE 0)
  BY DEF HasFlag
<1> HIDE DEF S, T
<1>6. CASE m \in T /\ m \notin S
  <2>1. Cardinality(T) = Cardinality(S) + 1
    BY <1>1, <1>2, <1>6, CountMore, Zenon
  <2> QED
    BY <1>2, <1>4, <1>5, <1>6, <2>1 DEF Covered, T
<1>7. CASE m \in S /\ m \notin T
  <2>1. Cardinality(S) = Cardinality(T) + 1
    BY <1>1, <1>3, <1>7, CountMore, Zenon
  <2> QED
    BY SMTT(30), <1>3, <1>4, <1>5, <1>7, <2>1 DEF Covered, T
<1>8. CASE m \in T <=> m \in S
  <2>1. Cardinality(T) = Cardinality(S)
    BY <1>1, <1>2, <1>8, CountSame, Zenon
  <2> QED
    BY SMTT(30), <1>2, <1>4, <1>5, <1>8, <2>1 DEF Covered, T
<1> QED
  BY <1>6, <1>7, <1>8

\* A call that touches one match keeps the invariant when it keeps it for that
\* match.
LEMMA OneMatchKeeps ==
    ASSUME BatchInv, BatchType', NEW m \in BatchMatches, FlagsOK(m)',
           \A k \in BatchMatches \ {m} :
               bState'[k] = bState[k] /\ bDeposited'[k] = bDeposited[k],
           \A p \in BatchPlayers : \A k \in active[p] \ {m} : k \in active'[p],
           (held' - stranded') - (held - stranded) = Flags'[m] - Flags[m],
           \A p \in BatchPlayers :
               escrowed'[p] - escrowed[p] >= HasFlag(p, m)' - HasFlag(p, m)
    PROVE  BatchInv'
<1>1. ASSUME NEW k \in BatchMatches, k # m PROVE FlagsOK(k)'
  <2>1. bState'[k] = bState[k] /\ bDeposited'[k] = bDeposited[k] /\ FlagsOK(k)
    BY Zenon, <1>1 DEF BatchInv
  <2>2. Batch!PlayersOf(k) \subseteq BatchPlayers
    BY BatchConstants
  <2> QED
    BY Zenon, <1>1, <2>1, <2>2 DEF FlagsOK, Batch!PlayersOf
<1>2. \A k \in BatchMatches : FlagsOK(k)'
  BY <1>1
<1>3. Backed'
  BY <1>2, BackedStep
<1>4. \A p \in BatchPlayers : Covered(p)'
  BY CoveredStep
<1> QED
  BY Zenon, <1>2, <1>3, <1>4 DEF BatchInv

\* A deposit sets one flag, takes one stake and adds one to one counter.
LEMMA DepositKeeps ==
    ASSUME BatchInv, NEW m \in BatchMatches, NEW p \in BatchPlayers, Batch!Deposit(m, p)
    PROVE  BatchInv'
<1>1. /\ bState[m] = "Pending" /\ p \in Batch!PlayersOf(m) /\ p \notin bDeposited[m]
      /\ bDeposited' = [bDeposited EXCEPT ![m] = @ \cup {p}]
      /\ held' = held + 1 /\ stranded' = stranded
      /\ escrowed' = [escrowed EXCEPT ![p] = @ + 1]
  BY DEF Batch!Deposit, Batch!MayDeposit, Batch!TakeStake
<1>2. \/ /\ bDeposited[m] \cup {p} = Batch!PlayersOf(m)
         /\ bState' = [bState EXCEPT ![m] = "Active"]
         /\ active' = [q \in BatchPlayers |->
                IF q \in Batch!PlayersOf(m) THEN active[q] \cup {m} ELSE active[q]]
      \/ UNCHANGED <<bState, active>>
  BY DEF Batch!Deposit, Batch!Completes, Batch!AddActive
<1>3. BatchType /\ FlagsOK(m)
  BY DEF BatchInv
<1>4. BatchType'
  BY <1>1, <1>2, <1>3 DEF BatchType
<1>5. /\ bDeposited'[m] = bDeposited[m] \cup {p}
      /\ \A k \in BatchMatches \ {m} :
             bState'[k] = bState[k] /\ bDeposited'[k] = bDeposited[k]
      /\ bState'[m] \in {"Pending", "Active"}
      /\ bState'[m] = "Active" => /\ bDeposited'[m] = Batch!PlayersOf(m)
                                  /\ \A q \in Batch!PlayersOf(m) : m \in active'[q]
  BY <1>1, <1>2, <1>3, BatchConstants DEF BatchType
<1>6. FlagsOK(m)'
  BY Zenon, <1>1, <1>3, <1>5 DEF FlagsOK, Batch!PlayersOf
<1>7. \A q \in BatchPlayers : \A k \in active[q] \ {m} : k \in active'[q]
  BY <1>2, <1>3 DEF BatchType
<1>8. Flags'[m] = Flags[m] + 1 /\ Flags[m] \in Nat
  <2>1. IsFiniteSet(bDeposited[m]) /\ Cardinality(bDeposited[m]) \in Nat
    BY FlagsFinite DEF BatchInv
  <2>2. Cardinality(bDeposited[m] \cup {p}) = Cardinality(bDeposited[m]) + 1
    BY Zenon, <1>1, <2>1, FS_AddElement
  <2> QED
    BY Zenon, <1>1, <1>5, <2>1, <2>2 DEF Flags, Batch!Open
<1>9. \A q \in BatchPlayers : escrowed'[q] - escrowed[q] >= HasFlag(q, m)' - HasFlag(q, m)
  <2> SUFFICES ASSUME NEW q \in BatchPlayers
               PROVE  escrowed'[q] - escrowed[q] >= HasFlag(q, m)' - HasFlag(q, m)
    OBVIOUS
  <2>1. HasFlag(q, m)' \in {0, 1} /\ HasFlag(q, m) \in {0, 1} /\ escrowed[q] \in Int
    BY <1>3 DEF HasFlag, BatchType
  <2>2. CASE q = p
    BY <1>1, <1>3, <2>1, <2>2 DEF BatchType
  <2>3. CASE q # p
    <3>1. HasFlag(q, m)' = HasFlag(q, m)
      BY <1>1, <1>5, <2>3 DEF HasFlag, FlaggedIn, Batch!Open
    <3> QED
      BY <1>1, <1>3, <2>1, <2>3, <3>1 DEF BatchType
  <2> QED
    BY Zenon, <2>2, <2>3
<1>10. (held' - stranded') - (held - stranded) = Flags'[m] - Flags[m]
  BY SMTT(30), <1>1, <1>3, <1>8 DEF BatchType
<1> QED
  BY Zenon, <1>4, <1>5, <1>6, <1>7, <1>9, <1>10, OneMatchKeeps

\* A failing second deposit takes a stake that no flag accounts for.
LEMMA FailedDepositKeeps ==
    ASSUME BatchInv, NEW m \in BatchMatches, NEW p \in BatchPlayers,
           Batch!EntryFailsAtLimit(m, p)
    PROVE  BatchInv'
<1>1. /\ UNCHANGED <<bState, bDeposited>>
      /\ held' = held + 1 /\ stranded' = stranded + 1
      /\ escrowed' = [escrowed EXCEPT ![p] = @ + 1]
      /\ bState[m] = "Pending"
  BY Zenon DEF Batch!EntryFailsAtLimit, Batch!MayDeposit, Batch!TakeStake, Batch!SaveFailed
<1>2. \/ active' = active
      \/ active' = [q \in BatchPlayers |->
            IF q \in {Player1(m)} THEN active[q] \cup {m} ELSE active[q]]
  BY DEF Batch!EntryFailsAtLimit, Batch!AddActive
<1>3. BatchType /\ FlagsOK(m)
  BY DEF BatchInv
<1>4. BatchType'
  BY <1>1, <1>2, <1>3 DEF BatchType
<1>5. FlagsOK(m)'
  BY Zenon, <1>1, <1>3 DEF FlagsOK, Batch!PlayersOf
<1>6. \A q \in BatchPlayers : \A k \in active[q] \ {m} : k \in active'[q]
  BY <1>2, <1>3 DEF BatchType
<1>7. Flags'[m] = Flags[m] /\ Flags[m] \in Nat
  <2>1. Cardinality(bDeposited[m]) \in Nat
    BY FlagsFinite DEF BatchInv
  <2> QED
    BY <1>1, <2>1 DEF Flags, Batch!Open
<1>8. \A q \in BatchPlayers : escrowed'[q] - escrowed[q] >= HasFlag(q, m)' - HasFlag(q, m)
  <2> SUFFICES ASSUME NEW q \in BatchPlayers
               PROVE  escrowed'[q] - escrowed[q] >= HasFlag(q, m)' - HasFlag(q, m)
    OBVIOUS
  <2>1. HasFlag(q, m)' = HasFlag(q, m) /\ HasFlag(q, m) \in {0, 1}
    BY <1>1 DEF HasFlag, FlaggedIn, Batch!Open
  <2>2. escrowed[q] \in Int /\ escrowed'[q] \in {escrowed[q], escrowed[q] + 1}
    BY <1>1, <1>3 DEF BatchType
  <2> QED
    BY <2>1, <2>2
<1>9. (held' - stranded') - (held - stranded) = Flags'[m] - Flags[m]
  BY <1>1, <1>3, <1>7 DEF BatchType
<1> QED
  BY Zenon, <1>1, <1>4, <1>5, <1>6, <1>8, <1>9, OneMatchKeeps

\* create_match opens a match without flags.
LEMMA CreateKeeps ==
    ASSUME BatchInv, NEW m \in BatchMatches, Batch!CreateMatch(m)
    PROVE  BatchInv'
<1>1. /\ bState[m] = "none" /\ bState' = [bState EXCEPT ![m] = "Pending"]
      /\ UNCHANGED <<bDeposited, active, escrowed, held, stranded>>
  BY DEF Batch!CreateMatch
<1>2. BatchType /\ FlagsOK(m) /\ bDeposited[m] = {}
  BY <1>1 DEF BatchInv, FlagsOK
<1>3. BatchType' /\ bState'[m] = "Pending"
  BY Zenon, <1>1, <1>2 DEF BatchType
<1>4. FlagsOK(m)'
  BY Zenon, <1>1, <1>2, <1>3 DEF FlagsOK, Batch!PlayersOf
<1>5. Flags'[m] = 0 /\ Flags[m] = 0
  BY <1>1, <1>2, <1>3, FS_EmptySet DEF Flags, Batch!Open
<1>6. ASSUME NEW q \in BatchPlayers
      PROVE  escrowed'[q] - escrowed[q] >= HasFlag(q, m)' - HasFlag(q, m)
  <2>1. HasFlag(q, m)' = 0 /\ HasFlag(q, m) = 0
    BY Zenon, <1>1, <1>2 DEF HasFlag, FlaggedIn
  <2> QED
    BY <1>1, <1>2, <2>1 DEF BatchType
<1>7. (held' - stranded') - (held - stranded) = Flags'[m] - Flags[m]
  BY <1>1, <1>2, <1>5 DEF BatchType
<1>8. \A k \in BatchMatches \ {m} : bState'[k] = bState[k] /\ bDeposited'[k] = bDeposited[k]
  BY <1>1, <1>2 DEF BatchType
<1> QED
  BY Zenon, <1>1, <1>3, <1>4, <1>6, <1>7, <1>8, OneMatchKeeps

\* Paying for c flags takes as much from what is held as from the flags.
LEMMA FlagsReturned ==
    ASSUME NEW h \in Int, NEW s \in Int, NEW c \in Nat
    PROVE  ((h - c) - s) - (h - s) = 0 - c
    OBVIOUS

\* A cancelled match returns its flags, a completed one those of both players.
LEMMA EndKeeps ==
    ASSUME BatchInv, NEW m \in BatchMatches,
           Batch!CancelMatch(m) \/ Batch!CompleteMatch(m)
    PROVE  BatchInv'
<1>1. BatchType /\ FlagsOK(m)
  BY DEF BatchInv
<1>2. /\ bState[m] \in {"Pending", "Active"}
      /\ bState' = [bState EXCEPT ![m] = "Cancelled"]
            \/ (bDeposited[m] = Batch!PlayersOf(m)
                /\ bState' = [bState EXCEPT ![m] = "Completed"])
      /\ held' = held - Cardinality(bDeposited[m])
      /\ escrowed' = [q \in BatchPlayers |->
             IF q \in bDeposited[m] THEN escrowed[q] - 1 ELSE escrowed[q]]
      /\ active' = active \/ active' = [q \in BatchPlayers |-> active[q] \ {m}]
      /\ UNCHANGED <<bDeposited, stranded>>
  <2>1. CASE Batch!CancelMatch(m)
    BY Zenon, <2>1, BatchSets DEF Batch!CancelMatch
  <2>2. CASE Batch!CompleteMatch(m)
    <3>1. bState[m] = "Active" /\ bDeposited[m] = Batch!PlayersOf(m)
      BY Zenon, <1>1, <2>2 DEF Batch!CompleteMatch, FlagsOK
    <3>2. /\ held' = held - Batch!Cardinality(bDeposited[m])
          /\ escrowed' = [q \in BatchPlayers |->
                 IF q \in bDeposited[m] THEN escrowed[q] - 1 ELSE escrowed[q]]
          /\ bState' = [bState EXCEPT ![m] = "Completed"]
          /\ active' = [q \in BatchPlayers |-> active[q] \ {m}]
          /\ UNCHANGED <<bDeposited, stranded>>
      BY <2>2, <3>1, Zenon DEF Batch!CompleteMatch
    <3> QED
      BY Zenon, <3>1, <3>2, BatchSets
  <2> QED
    BY Zenon, <2>1, <2>2
<1>3. IsFiniteSet(bDeposited[m]) /\ Cardinality(bDeposited[m]) \in Nat
  BY FlagsFinite DEF BatchInv
<1>4. BatchType'
  BY <1>1, <1>2, <1>3 DEF BatchType
<1>5. /\ bState'[m] \in {"Cancelled", "Completed"}
      /\ bState'[m] = "Completed" => bDeposited[m] = Batch!PlayersOf(m)
      /\ \A k \in BatchMatches \ {m} : bState'[k] = bState[k]
  BY Zenon, <1>1, <1>2 DEF BatchType
<1>6. FlagsOK(m)'
  BY <1>1, <1>2, <1>5 DEF FlagsOK, Batch!PlayersOf
<1>7. \A q \in BatchPlayers : \A k \in active[q] \ {m} : k \in active'[q]
  BY <1>1, <1>2 DEF BatchType
<1>8. Flags'[m] = 0 /\ Flags[m] = Cardinality(bDeposited[m])
  BY <1>2, <1>5 DEF Flags, Batch!Open
<1>9. (held' - stranded') - (held - stranded) = Flags'[m] - Flags[m]
  <2>1. held \in Int /\ stranded \in Int
    BY <1>1 DEF BatchType
  <2>2. held' = held - Cardinality(bDeposited[m]) /\ stranded' = stranded
    BY <1>2, Zenon
  <2> QED
    BY <1>3, <1>8, <2>1, <2>2, FlagsReturned, ZenonT(60)
<1>10. ASSUME NEW q \in BatchPlayers
       PROVE  escrowed'[q] - escrowed[q] >= HasFlag(q, m)' - HasFlag(q, m)
  <2>1. /\ HasFlag(q, m)' = 0
        /\ HasFlag(q, m) = IF q \in bDeposited[m] THEN 1 ELSE 0
    BY <1>2, <1>5 DEF HasFlag, FlaggedIn, Batch!Open
  <2> QED
    BY <1>1, <1>2, <2>1 DEF BatchType
<1> QED
  BY <1>2, <1>4, <1>5, <1>6, <1>7, <1>9, <1>10, OneMatchKeeps

\* Every step keeps the invariant; the remaining calls write neither flags nor
\* money.
LEMMA BatchStep == ASSUME BatchInv, Batch!Next \/ UNCHANGED batchVars PROVE BatchInv'
<1>1. ASSUME UNCHANGED <<bState, bDeposited, active, escrowed, held, stranded>>
      PROVE  BatchInv'
  <2>1. Flags' = Flags /\ \A p \in BatchPlayers : FlaggedIn(p)' = FlaggedIn(p)
    BY Zenon, <1>1 DEF Flags, FlaggedIn, Batch!Open
  <2> QED
    BY <1>1, <2>1 DEF BatchInv, BatchType, FlagsOK, Backed, Covered, Batch!PlayersOf
<1>2. ASSUME NEW m \in BatchMatches, NEW p \in BatchPlayers,
             Batch!EntryFailsGuarded(m, p)
      PROVE  BatchInv'
  BY Zenon, <1>1, <1>2 DEF Batch!EntryFailsGuarded
<1>3. ASSUME NEW p \in BatchPlayers, Batch!TierRises(p) PROVE BatchInv'
  BY <1>1, <1>3 DEF Batch!TierRises
<1>4. ASSUME NEW m \in BatchMatches, Batch!GuardExpires(m) PROVE BatchInv'
  BY <1>1, <1>4 DEF Batch!GuardExpires
<1>5. CASE UNCHANGED batchVars
  BY <1>1, <1>5 DEF batchVars
<1> QED
  BY <1>2, <1>3, <1>4, <1>5, DepositKeeps, FailedDepositKeeps, CreateKeeps, EndKeeps
     DEF Batch!Next

\* For any finite set of matches and any players, however many entries of however
\* many batches fail: the contract holds the stakes of the deposit flags and what
\* failed entries took, to the token; a match in play has both deposits recorded
\* and is in both players' active sets; and a player's escrow counter covers the
\* player's deposits in open matches.
THEOREM BatchProved == Spec => []BatchSound
<1>1. Init => BatchInv
  <2> SUFFICES ASSUME Batch!Init PROVE BatchInv
    BY DEF Init
  <2>1. /\ bState = [m \in BatchMatches |-> "none"]
        /\ bDeposited = [m \in BatchMatches |-> {}]
        /\ active = [p \in BatchPlayers |-> {}]
        /\ escrowed = [p \in BatchPlayers |-> 0]
        /\ held = 0 /\ stranded = 0
    BY DEF Batch!Init
  <2>2. BatchType
    BY <2>1 DEF BatchType
  <2>3. \A m \in BatchMatches : FlagsOK(m)
    BY <2>1 DEF FlagsOK
  <2>4. \A m \in BatchMatches : Flags[m] = 0
    BY <2>1 DEF Flags, Batch!Open
  <2>5. SumOver(Flags, BatchMatches) = 0
    BY <2>4, BatchConstants, SumZero
  <2>6. \A p \in BatchPlayers : FlaggedIn(p) = {}
    BY <2>1 DEF FlaggedIn
  <2>7. \A p \in BatchPlayers : Covered(p)
    BY <2>1, <2>6, FS_EmptySet DEF Covered
  <2> QED
    BY <2>1, <2>2, <2>3, <2>5, <2>7 DEF BatchInv, Backed
<1>2. BatchInv /\ [Next]_vars => BatchInv'
  BY BatchStep, OnePartMoves
<1>3. BatchInv => BatchSound
  <2> SUFFICES ASSUME BatchInv PROVE BatchSound
    OBVIOUS
  <2>1. Batch!OpenDeposits = Flags
    BY BatchSets DEF Batch!OpenDeposits, Flags
  <2>2. Batch!FlagsBacked
    <3>1. held = stranded + SumOver(Batch!OpenDeposits, BatchMatches)
      BY <2>1, Zenon DEF BatchInv, Backed
    <3> QED
      BY Zenon, <3>1 DEF Batch!FlagsBacked, SumOver, Batch!MapThenSumSet, MapThenSumSet,
                  Batch!MapThenFoldSet, MapThenFoldSet
  <2>3. Batch!ActiveMeansBoth
    BY Zenon DEF BatchInv, FlagsOK, Batch!ActiveMeansBoth
  <2>4. Batch!CounterCoversFlags
    BY Zenon, BatchSets DEF BatchInv, Covered, FlaggedIn, Batch!CounterCoversFlags
  <2> QED
    BY <2>2, <2>3, <2>4 DEF BatchSound
<1> QED
  BY <1>1, <1>2, <1>3, PTL DEF Spec

-----------------------------------------------------------------------------
(***************************************************************************)
(* OracleConsensus.  ConsensusBehindWinner needs that a match              *)
(* settled by consensus is no longer Active, so that no vote is added to   *)
(* it; ConfirmationsExact needs that the votes so far are for one winner.  *)
(***************************************************************************)
ConsensusType ==
    /\ approved \in SUBSET Oracles
    /\ required \in Nat \cup {None}
    /\ oWinner \in [VotedMatches -> Winners \cup {None}]
    /\ vote \in [VotedMatches -> [Oracles -> Winners \cup {None}]]
    /\ confirmations \in [VotedMatches -> Nat]
    /\ leading \in [VotedMatches -> Winners \cup {None}]
    /\ settledBy \in [VotedMatches -> [how : {"none", "admin", "oracle", "consensus"},
                                       required : Nat]]

Counted(m) ==
    /\ confirmations[m] = Cardinality(Consensus!Voters(m))
    /\ \A o \in Consensus!Voters(m) : vote[m][o] = leading[m]

Behind(m) ==
    settledBy[m].how = "consensus" =>
        /\ oWinner[m] # None
        /\ Cardinality(Consensus!Voters(m)) >= settledBy[m].required
        /\ \A o \in Consensus!Voters(m) : vote[m][o] = oWinner[m]

Reachable == required # None => required <= Cardinality(approved)

ConsensusInv ==
    /\ ConsensusType
    /\ \A m \in VotedMatches : Counted(m) /\ Behind(m)
    /\ Reachable

\* The sets that OracleConsensus counts are counted as here.
LEMMA ConsensusSets ==
    /\ \A S : Consensus!Cardinality(S) = Cardinality(S)
    /\ \A S : Consensus!IsFiniteSet(S) <=> IsFiniteSet(S)
BY DEF Consensus!Cardinality, Cardinality, Consensus!IsFiniteSet, IsFiniteSet

\* The oracles are finitely many, and None is no winner.
LEMMA ConsensusConstants ==
    IsFiniteSet(Oracles) /\ DefaultRequired \in Nat \ {0} /\ None \notin Winners \cup Nat
BY PartsAssumption, ConsensusSets DEF Consensus!ConstantsOK

\* The voters of a match are finitely many.
LEMMA VotersFinite ==
    ASSUME NEW m \in VotedMatches
    PROVE  IsFiniteSet(Consensus!Voters(m)) /\ Cardinality(Consensus!Voters(m)) \in Nat
<1>1. Consensus!Voters(m) \in SUBSET Oracles /\ IsFiniteSet(Oracles)
  BY ConsensusConstants DEF Consensus!Voters
<1> QED
  BY <1>1, FS_Subset, FS_CardinalityType

\* get_required_confirmations returns a number.
LEMMA RequiredIsNat ==
    ASSUME ConsensusType
    PROVE  Consensus!Required \in Nat
BY Zenon, ConsensusConstants DEF ConsensusType, Consensus!Required

\* A step that leaves votes, counts and settlements alone keeps what the
\* invariant says of every match.
LEMMA MatchesUntouched ==
    ASSUME \A m \in VotedMatches : Counted(m) /\ Behind(m),
           UNCHANGED <<oWinner, vote, confirmations, leading, settledBy>>
    PROVE  \A m \in VotedMatches : Counted(m)' /\ Behind(m)'
BY DEF Counted, Behind, Consensus!Voters

\* The number required stays within reach of the approved oracles.
LEMMA ApprovalsKeep ==
    ASSUME ConsensusInv, NEW o \in Oracles,
           Consensus!AddApprovedOracle(o) \/ Consensus!RemoveApprovedOracle(o)
    PROVE  ConsensusInv'
<1>1. UNCHANGED <<required, oWinner, vote, confirmations, leading, settledBy>>
  BY DEF Consensus!AddApprovedOracle, Consensus!RemoveApprovedOracle
<1>2. IsFiniteSet(approved) /\ Cardinality(approved) \in Nat
  BY ConsensusConstants, FS_Subset, FS_CardinalityType DEF ConsensusInv, ConsensusType
<1>3. required # None => required \in Nat /\ required <= Cardinality(approved)
  BY DEF ConsensusInv, ConsensusType, Reachable
<1>4. ConsensusType' /\ Reachable'
  <2>1. CASE Consensus!AddApprovedOracle(o)
    <3>1. approved' = approved \cup {o}
      BY <2>1 DEF Consensus!AddApprovedOracle
    <3>2. Cardinality(approved') \in Nat
          /\ Cardinality(approved') >= Cardinality(approved)
      <4>1. Cardinality(approved \cup {o}) =
              IF o \in approved THEN Cardinality(approved)
                               ELSE Cardinality(approved) + 1
        BY <1>2, FS_AddElement, Zenon
      <4> QED
        BY <4>1, <3>1, <1>2
    <3>3. ConsensusType'
      BY <1>1, <3>1 DEF ConsensusInv, ConsensusType
    <3> QED
      BY <1>1, <1>2, <1>3, <3>2, <3>3 DEF Reachable
  <2>2. CASE Consensus!RemoveApprovedOracle(o)
    <3>1. approved' = approved \ {o} /\ Consensus!Required <= Cardinality(approved) - 1
      BY <2>2, ConsensusSets DEF Consensus!RemoveApprovedOracle
    <3>2. Cardinality(approved') \in Nat
          /\ Cardinality(approved') >= Cardinality(approved) - 1
      <4>1. /\ IsFiniteSet(approved \ {o})
            /\ Cardinality(approved \ {o}) =
                  IF o \in approved THEN Cardinality(approved) - 1
                                   ELSE Cardinality(approved)
        BY <1>2, FS_RemoveElement, Zenon
      <4>2. Cardinality(approved \ {o}) \in Nat
        BY <4>1, FS_CardinalityType, Zenon
      <4> QED
        BY <4>1, <4>2, <3>1, <1>2
    <3>3. ConsensusType'
      BY <1>1, <3>1 DEF ConsensusInv, ConsensusType
    <3> QED
      BY <1>1, <1>2, <1>3, <3>1, <3>2, <3>3 DEF Reachable, Consensus!Required
  <2> QED
    BY <2>1, <2>2
<1> QED
  BY <1>1, <1>4, MatchesUntouched DEF ConsensusInv

\* set_required_confirmations, a pause and a rejected vote.
LEMMA OthersKeep ==
    ASSUME ConsensusInv,
           UNCHANGED <<approved, oWinner, vote, confirmations, leading, settledBy>>,
           required' = required \/ \E n \in Nat :
               required' = n /\ n <= Cardinality(approved)
    PROVE  ConsensusInv'
<1>1. ConsensusType' /\ Reachable'
  BY Zenon DEF ConsensusInv, ConsensusType, Reachable
<1> QED
  BY <1>1, MatchesUntouched DEF ConsensusInv

\* A result that is not by consensus is written to matches that are Active.
LEMMA OtherResultsKeep ==
    ASSUME ConsensusInv, NEW S \in SUBSET VotedMatches,
           \A m \in S : Consensus!Active(m), NEW how \in {"admin", "oracle"},
           NEW r \in [S -> Winners],
           oWinner' = [m \in VotedMatches |-> IF m \in S THEN r[m] ELSE oWinner[m]],
           settledBy' = [m \in VotedMatches |->
              IF m \in S THEN [how |-> how, required |-> Consensus!Required] ELSE settledBy[m]],
           UNCHANGED <<approved, required, vote, confirmations, leading>>
    PROVE  ConsensusInv'
<1>1. ConsensusType'
  BY Zenon, RequiredIsNat DEF ConsensusInv, ConsensusType
<1>2. Reachable'
  BY Zenon DEF ConsensusInv, Reachable
<1>3. ASSUME NEW m \in VotedMatches PROVE Counted(m)' /\ Behind(m)'
  <2>1. Counted(m)' /\ Consensus!Voters(m)' = Consensus!Voters(m)
    BY Zenon DEF ConsensusInv, Counted, Consensus!Voters
  <2>2. CASE m \in S
    <3>1. settledBy'[m].how = how
      BY Zenon, <2>2
    <3> QED
      BY Zenon, <2>1, <3>1 DEF Behind
  <2>3. CASE m \notin S
    <3>1. settledBy'[m] = settledBy[m] /\ oWinner'[m] = oWinner[m] /\ vote' = vote
      BY Zenon, <2>3
    <3> QED
      BY Zenon, <2>1, <3>1 DEF ConsensusInv, Behind
  <2> QED
    BY Zenon, <2>1, <2>2, <2>3
<1> QED
  BY Zenon, <1>1, <1>2, <1>3 DEF ConsensusInv

\* A vote that agrees adds one oracle to the voters, for the winner they all
\* voted for, and settles the match only with as many as are required.
LEMMA VoteKeeps ==
    ASSUME ConsensusInv, NEW o \in Oracles, NEW m \in VotedMatches,
           NEW w \in Winners, Consensus!SubmitResultConsensus(o, m, w)
    PROVE  ConsensusInv'
<1>1. /\ oWinner[m] = None /\ vote[m][o] = None
      /\ confirmations[m] > 0 => leading[m] = w
      /\ leading' = [leading EXCEPT ![m] = IF confirmations[m] > 0 THEN @ ELSE w]
      /\ vote' = [vote EXCEPT ![m][o] = w]
      /\ confirmations' = [confirmations EXCEPT ![m] = @ + 1]
      /\ UNCHANGED <<approved, required>>
  BY DEF Consensus!SubmitResultConsensus, Consensus!MayVote, Consensus!Active, Consensus!Agrees, Consensus!RecordVote
<1>2. \/ /\ confirmations[m] + 1 >= Consensus!Required
         /\ oWinner' = [oWinner EXCEPT ![m] = w]
         /\ settledBy' = [settledBy EXCEPT ![m] =
                [how |-> "consensus", required |-> Consensus!Required]]
      \/ UNCHANGED <<oWinner, settledBy>>
  BY DEF Consensus!SubmitResultConsensus, Consensus!SettleResult
<1>3. w # None
  BY Zenon, ConsensusConstants
<1>4. ConsensusType' /\ Reachable'
  <2>1. leading' \in [VotedMatches -> Winners \cup {None}]
        /\ confirmations' \in [VotedMatches -> Nat]
    BY <1>1 DEF ConsensusInv, ConsensusType
  <2>2. vote' \in [VotedMatches -> [Oracles -> Winners \cup {None}]]
    BY <1>1, Zenon DEF ConsensusInv, ConsensusType
  <2>3. oWinner' \in [VotedMatches -> Winners \cup {None}]
    BY <1>2 DEF ConsensusInv, ConsensusType
  <2>4. [how |-> "consensus", required |-> Consensus!Required]
          \in [how : {"none", "admin", "oracle", "consensus"}, required : Nat]
    BY RequiredIsNat DEF ConsensusInv
  <2>5. settledBy' \in [VotedMatches ->
          [how : {"none", "admin", "oracle", "consensus"}, required : Nat]]
    BY <1>2, <2>4, Zenon DEF ConsensusInv, ConsensusType
  <2> QED
    BY <1>1, <2>1, <2>2, <2>3, <2>5 DEF ConsensusInv, ConsensusType, Reachable
<1>5. ASSUME NEW k \in VotedMatches, k # m PROVE Counted(k)' /\ Behind(k)'
  <2>1. /\ vote'[k] = vote[k] /\ confirmations'[k] = confirmations[k]
        /\ leading'[k] = leading[k] /\ oWinner'[k] = oWinner[k]
        /\ settledBy'[k] = settledBy[k]
    BY <1>1, <1>2, <1>5 DEF ConsensusInv, ConsensusType
  <2> QED
    BY Zenon, <2>1, <1>5 DEF ConsensusInv, Counted, Behind, Consensus!Voters
<1>6. Counted(m)
  BY DEF ConsensusInv
<1>7. Consensus!Voters(m)' = Consensus!Voters(m) \cup {o} /\ o \notin Consensus!Voters(m)
  BY <1>1, <1>3 DEF Consensus!Voters, ConsensusInv, ConsensusType
<1>8. /\ Cardinality(Consensus!Voters(m)') = Cardinality(Consensus!Voters(m)) + 1
      /\ Cardinality(Consensus!Voters(m)) \in Nat
  BY Zenon, <1>7, VotersFinite, FS_AddElement
<1>9. leading'[m] = w
  BY <1>1 DEF ConsensusInv, ConsensusType
<1>10. \A q \in Consensus!Voters(m) : vote[m][q] = w
  <2>1. CASE confirmations[m] > 0
    BY <2>1, <1>1, <1>6 DEF Counted
  <2>2. CASE ~(confirmations[m] > 0)
    <3>1. Cardinality(Consensus!Voters(m)) = 0
      BY <2>2, <1>6, <1>8 DEF Counted
    <3> QED
      BY Zenon, <3>1, VotersFinite, FS_EmptySet
  <2> QED
    BY Zenon, <2>1, <2>2
<1>11. \A q \in Consensus!Voters(m)' : vote'[m][q] = w
  BY Zenon, <1>1, <1>7, <1>10 DEF ConsensusInv, ConsensusType, Consensus!Voters
<1>12. confirmations'[m] = Cardinality(Consensus!Voters(m)')
  BY Zenon, <1>1, <1>6, <1>8 DEF Counted, ConsensusInv, ConsensusType
<1>13. Counted(m)'
  BY <1>9, <1>11, <1>12 DEF Counted
<1>14. Behind(m)'
  <2>1. CASE UNCHANGED <<oWinner, settledBy>>
    BY <2>1, <1>1 DEF ConsensusInv, Behind
  <2>2. CASE /\ confirmations[m] + 1 >= Consensus!Required
             /\ oWinner' = [oWinner EXCEPT ![m] = w]
             /\ settledBy' = [settledBy EXCEPT ![m] =
                    [how |-> "consensus", required |-> Consensus!Required]]
    <3>1. oWinner'[m] = w /\ settledBy'[m].required = Consensus!Required
      BY <2>2 DEF ConsensusInv, ConsensusType
    <3>2. confirmations[m] = Cardinality(Consensus!Voters(m))
      BY Zenon, <1>6 DEF Counted
    <3>3. Cardinality(Consensus!Voters(m)') >= settledBy'[m].required
      BY <2>2, <3>1, <3>2, <1>8
    <3> QED
      BY Zenon, <3>1, <3>3, <1>3, <1>11 DEF Behind
  <2> QED
    BY <1>2, <2>1, <2>2
<1> QED
  BY <1>4, <1>5, <1>13, <1>14 DEF ConsensusInv

\* Every step of the contract keeps the invariant.
LEMMA ConsensusStep ==
    ASSUME ConsensusInv, Consensus!Next \/ UNCHANGED consVars
    PROVE  ConsensusInv'
<1>1. ASSUME NEW o \in Oracles, Consensus!AddApprovedOracle(o) \/ Consensus!RemoveApprovedOracle(o)
      PROVE  ConsensusInv'
  BY <1>1, ApprovalsKeep
<1>2. ASSUME NEW n \in 0..Consensus!Cardinality(Oracles), Consensus!SetRequiredConfirmations(n)
      PROVE  ConsensusInv'
  <2>1. n \in Nat /\ required' = n /\ n <= Cardinality(approved)
        /\ UNCHANGED <<approved, oWinner, vote, confirmations, leading, settledBy>>
    BY <1>2, ConsensusSets DEF Consensus!SetRequiredConfirmations
  <2> QED
    BY <2>1, OthersKeep
<1>3. ASSUME NEW m \in VotedMatches, NEW w \in Winners, Consensus!ResolveOracleDeadlock(m, w)
      PROVE  ConsensusInv'
  <2> DEFINE r == [k \in {m} |-> w]
  <2>1. /\ Consensus!Active(m)
        /\ oWinner' = [oWinner EXCEPT ![m] = w]
        /\ settledBy' = [settledBy EXCEPT ![m] =
              [how |-> "admin", required |-> Consensus!Required]]
        /\ UNCHANGED <<approved, required, vote, confirmations, leading>>
    BY <1>3 DEF Consensus!ResolveOracleDeadlock, Consensus!SettleResult
  <2>2. oWinner' = [k \in VotedMatches |-> IF k \in {m} THEN r[k] ELSE oWinner[k]]
    BY <2>1, Zenon DEF ConsensusInv, ConsensusType
  <2>3. settledBy' = [k \in VotedMatches |->
          IF k \in {m} THEN [how |-> "admin", required |-> Consensus!Required]
          ELSE settledBy[k]]
    BY <2>1, Zenon DEF ConsensusInv, ConsensusType
  <2>4. r \in [{m} -> Winners] /\ {m} \in SUBSET VotedMatches /\ \A k \in {m} : Consensus!Active(k)
    BY <2>1, Zenon
  <2> HIDE DEF r
  <2> QED
    BY ZenonT(30), <2>1, <2>2, <2>3, <2>4, OtherResultsKeep
<1>4. ASSUME NEW b \in BOOLEAN, Consensus!SetPaused(b) PROVE ConsensusInv'
  BY Zenon, <1>4, OthersKeep DEF Consensus!SetPaused
<1>5. ASSUME NEW S \in SUBSET VotedMatches, NEW r \in [S -> Winners], Consensus!SubmitResults(r)
      PROVE  ConsensusInv'
  <2> DEFINE open == {m \in S : Consensus!Active(m)}
             ro == [m \in open |-> r[m]]
  <2>1. /\ oWinner' = [m \in VotedMatches |-> IF m \in open THEN ro[m] ELSE oWinner[m]]
        /\ settledBy' = [m \in VotedMatches |->
              IF m \in open THEN [how |-> "oracle", required |-> Consensus!Required]
              ELSE settledBy[m]]
        /\ UNCHANGED <<approved, required, vote, confirmations, leading>>
    BY Zenon, <1>5 DEF Consensus!SubmitResults
  <2>2. open \in SUBSET VotedMatches /\ ro \in [open -> Winners] /\ \A m \in open : Consensus!Active(m)
    OBVIOUS
  <2> HIDE DEF open, ro
  <2> QED
    BY <2>1, <2>2, OtherResultsKeep
<1>6. ASSUME NEW o \in Oracles, NEW m \in VotedMatches, NEW w \in Winners,
             Consensus!SubmitResultConsensus(o, m, w)
      PROVE  ConsensusInv'
  BY <1>6, VoteKeeps
<1>7. ASSUME NEW o \in Oracles, NEW m \in VotedMatches, NEW w \in Winners,
             Consensus!ConflictingVote(o, m, w)
      PROVE  ConsensusInv'
  BY <1>7, OthersKeep DEF Consensus!ConflictingVote
<1>8. CASE UNCHANGED consVars
  BY <1>8, OthersKeep DEF consVars
<1> QED
  BY <1>1, <1>2, <1>3, <1>4, <1>5, <1>6, <1>7, <1>8 DEF Consensus!Next

\* For any finite set of oracles, any matches and winners: the confirmations of
\* a match count its recorded votes, all for one winner, a match settled by
\* consensus has the votes that were required, all for its winner, and the
\* number required can be reached by the approved oracles.
THEOREM ConsensusProved == Spec => []ConsensusCounted
<1>1. Consensus!Init => ConsensusInv
  <2> SUFFICES ASSUME Consensus!Init PROVE ConsensusInv
    OBVIOUS
  <2>1. /\ oWinner = [m \in VotedMatches |-> None] /\ required = None
        /\ vote = [m \in VotedMatches |-> [o \in Oracles |-> None]]
        /\ confirmations = [m \in VotedMatches |-> 0]
        /\ leading = [m \in VotedMatches |-> None] /\ approved = {}
        /\ settledBy = [m \in VotedMatches |-> [how |-> "none", required |-> 0]]
    BY DEF Consensus!Init, Consensus!NotSettled
  <2>2. ConsensusType
    BY Zenon, <2>1 DEF ConsensusType
  <2>3. ASSUME NEW m \in VotedMatches PROVE Counted(m) /\ Behind(m)
    <3>1. Consensus!Voters(m) = {} /\ confirmations[m] = 0 /\ settledBy[m].how = "none"
      BY <2>1 DEF Consensus!Voters
    <3> QED
      BY <3>1, FS_EmptySet DEF Counted, Behind
  <2> QED
    BY <2>1, <2>2, <2>3 DEF ConsensusInv, Reachable
<1>2. ConsensusInv /\ [Next]_vars => ConsensusInv'
  BY Zenon, ConsensusStep, OnePartMoves
<1>3. ConsensusInv => ConsensusCounted
  BY ConsensusSets
     DEF ConsensusInv, ConsensusCounted, Consensus!ConsensusCounted, Counted, Behind, Reachable,
         Consensus!ConfirmationsExact, Consensus!ConsensusBehindWinner,
         Consensus!RequiredReachable
<1>4. Init => Consensus!Init
  BY DEF Init
<1> QED
  BY <1>1, <1>2, <1>3, <1>4, PTL DEF Spec
=============================================================================
