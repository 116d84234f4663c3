----------------------------- MODULE Governance -----------------------------
(***************************************************************************)
(* The administration of the escrow contract (contracts/escrow/src/lib.rs) *)
(* : the two-step admin transfer, and the upgrade of the contract's code,  *)
(* which is scheduled, reviewed, confirmed and executed while the contract *)
(* is paused, and then migrates the stored state.  The new code is taken   *)
(* to offer the same operations.                                           *)
(***************************************************************************)
EXTENDS Integers

CONSTANTS
    Accounts,       \* addresses
    Contract,       \* the escrow contract's own address, one of Accounts
    Hashes,         \* hashes of uploaded code
    None,           \* an absent entry
    ReviewPeriod,   \* UPGRADE_REVIEW_PERIOD_LEDGERS
    Versions,       \* arguments of migrate_state
    PeriodVersion,  \* 1_001, the version that introduced DisputePeriod
    Periods,        \* arguments of set_dispute_period
    MaxLedger       \* bound on the clock

\* What the code guarantees of the constants.
ConstantsOK ==
    /\ ReviewPeriod \in Nat /\ MaxLedger \in Nat /\ PeriodVersion \in Nat
    /\ Versions \subseteq Nat /\ Periods \subseteq Nat
    /\ None \notin Accounts \cup Hashes \cup Nat

VARIABLES
    admin,          \* Admin
    pendingAdmin,   \* PendingAdmin
    paused,         \* Paused
    scheduledAt,    \* UpgradeScheduledAt
    pendingHash,    \* PendingUpgradeHash
    confirmedBy,    \* UpgradeKey::ConfirmedBy
    version,        \* ContractVersion
    period,         \* DisputePeriod
    now,            \* ledger sequence number
    proposed,       \* history: the code last scheduled, when it was, and when
                    \* it was last confirmed since
    installed       \* history: each code installed, with its schedule, its
                    \* confirmation and its execution

upgrade == <<scheduledAt, pendingHash, confirmedBy, proposed, installed>>
vars == <<admin, pendingAdmin, paused, version, period, now, upgrade>>

NoProposal == [proposer |-> None, pending |-> None]
NoUpgrade  == [hash |-> None, scheduled |-> -1, confirmed |-> -1]

Init ==
    /\ admin \in Accounts \ {Contract}
    /\ pendingAdmin = NoProposal /\ paused = FALSE
    /\ scheduledAt = None /\ pendingHash = None /\ confirmedBy = None
    /\ version = 0 /\ period = None /\ now = 0
    /\ proposed = NoUpgrade /\ installed = {}

(***************************************************************************)
(* The admin.                                                              *)
(***************************************************************************)
\* propose_admin, also reached through transfer_admin.
ProposeAdmin(a) ==
    /\ a \notin {Contract, admin}
    /\ pendingAdmin' = [proposer |-> admin, pending |-> a]
    /\ UNCHANGED <<admin, paused, version, period, now, upgrade>>

\* accept_admin, by the nominee.
AcceptAdmin ==
    /\ pendingAdmin # NoProposal
    /\ admin = pendingAdmin.proposer
    /\ admin' = pendingAdmin.pending
    /\ pendingAdmin' = NoProposal
    /\ UNCHANGED <<paused, version, period, now, upgrade>>

CancelAdminProposal ==
    /\ pendingAdmin # NoProposal
    /\ pendingAdmin' = NoProposal
    /\ UNCHANGED <<admin, paused, version, period, now, upgrade>>

SetPaused(b) ==
    /\ paused # b
    /\ paused' = b
    /\ UNCHANGED <<admin, pendingAdmin, version, period, now, upgrade>>

(***************************************************************************)
(* Upgrades.                                                               *)
(***************************************************************************)
\* schedule_upgrade.
ScheduleUpgrade(h) ==
    /\ scheduledAt = None
    /\ scheduledAt' = now /\ pendingHash' = h
    /\ proposed' = [hash |-> h, scheduled |-> now, confirmed |-> -1]
    /\ UNCHANGED <<admin, pendingAdmin, paused, version, period, now,
                   confirmedBy, installed>>

\* Altered for mutation: the confirmation outlives the upgrade it was for.
ClearUpgradeKeepConfirmation ==
    scheduledAt' = None /\ pendingHash' = None /\ UNCHANGED confirmedBy

\* The removals at the end of cancel_upgrade and of execute_upgrade.
ClearUpgrade == scheduledAt' = None /\ pendingHash' = None /\ confirmedBy' = None

\* cancel_upgrade.
CancelUpgrade ==
    /\ scheduledAt # None
    /\ ClearUpgrade
    /\ UNCHANGED <<admin, pendingAdmin, paused, version, period, now, proposed,
                   installed>>

\* confirm_upgrade, by any address.
ConfirmUpgrade(a) ==
    /\ scheduledAt # None
    /\ confirmedBy' = a
    /\ proposed' = [proposed EXCEPT !.confirmed = now]
    /\ UNCHANGED <<admin, pendingAdmin, paused, version, period, now,
                   scheduledAt, pendingHash, installed>>

\* execute_upgrade.
ExecuteUpgrade ==
    /\ paused
    /\ scheduledAt # None
    /\ now >= scheduledAt + ReviewPeriod
    /\ confirmedBy # None
    /\ installed' = installed \cup
          {[hash |-> pendingHash, proposed |-> proposed, at |-> now]}
    /\ ClearUpgrade
    /\ UNCHANGED <<admin, pendingAdmin, paused, version, period, now, proposed>>

\* _apply_migrations: DisputePeriod as it is after a migration.
Migrated(to) ==
    IF version < PeriodVersion /\ to >= PeriodVersion /\ period = None
    THEN 0 ELSE period

\* migrate_state.
MigrateState(to) ==
    /\ to > version
    /\ period' = Migrated(to)
    /\ version' = to
    /\ UNCHANGED <<admin, pendingAdmin, paused, now, upgrade>>

\* set_dispute_period.
SetDisputePeriod(p) ==
    /\ period' = p
    /\ UNCHANGED <<admin, pendingAdmin, paused, version, now, upgrade>>

Tick ==
    /\ now < MaxLedger
    /\ now' = now + 1
    /\ UNCHANGED <<admin, pendingAdmin, paused, version, period, upgrade>>

Next ==
    \/ \E a \in Accounts : ProposeAdmin(a)
    \/ AcceptAdmin
    \/ CancelAdminProposal
    \/ \E b \in BOOLEAN : SetPaused(b)
    \/ \E h \in Hashes : ScheduleUpgrade(h)
    \/ CancelUpgrade
    \/ \E a \in Accounts : ConfirmUpgrade(a)
    \/ ExecuteUpgrade
    \/ \E v \in Versions : MigrateState(v)
    \/ \E p \in Periods : SetDisputePeriod(p)
    \/ Tick

Spec == Init /\ [][Next]_vars

(***************************************************************************)
(* Properties.                                                             *)
(***************************************************************************)
\* get_dispute_period: the period a settlement would use.
EffectivePeriod == IF period = None THEN 0 ELSE period

\* Code that was installed is the code that was announced, it was installed a
\* full review period after it was scheduled, and somebody confirmed it after
\* that schedule: no cancelled, replaced or earlier upgrade lends it its wait or
\* its confirmation (execute_upgrade).
UpgradeReviewed ==
    \A u \in installed :
        /\ u.hash = u.proposed.hash
        /\ u.at >= u.proposed.scheduled + ReviewPeriod
        /\ u.proposed.confirmed >= u.proposed.scheduled

\* A pending nomination is always the current admin's own, and never for the
\* current admin or the contract: the check for a stale proposer in accept_admin
\* cannot fail and control is never lost.
NominationCurrent ==
    /\ admin # Contract
    /\ pendingAdmin # NoProposal =>
          /\ pendingAdmin.proposer = admin
          /\ pendingAdmin.pending \notin {admin, Contract}

\* The version only grows, and a migration never changes the dispute period that
\* settlements use (migrate_state).
MigrationKeepsPeriod ==
    [][version' # version =>
          version' > version /\ EffectivePeriod' = EffectivePeriod]_vars

\* Whoever controls the contract, and the code it runs, got there by the
\* procedures of this module, and a migration changes no settlement.
AuthorityHolds ==
    [](UpgradeReviewed /\ NominationCurrent) /\ MigrationKeepsPeriod
=============================================================================
