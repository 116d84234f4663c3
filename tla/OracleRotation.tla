--------------------------- MODULE OracleRotation ---------------------------
(***************************************************************************)
(* Which oracle the escrow contract obeys (contracts/escrow/src/lib.rs):   *)
(* the base oracle, replaced at once or after a proposal, and a temporary  *)
(* oracle that stands in for it until its window closes.                   *)
(***************************************************************************)
EXTENDS Naturals

CONSTANTS
    Accounts,       \* addresses
    Contract,       \* the escrow contract's own address, one of Accounts
    None,           \* an absent address
    Durations,      \* accepted values of duration_seconds
    MaxTime         \* bound on the clock

\* What the code guarantees of the constants.
ConstantsOK ==
    /\ Durations \subseteq Nat \ {0} /\ MaxTime \in Nat
    /\ Contract \in Accounts /\ None \notin Accounts

VARIABLES
    oracle,         \* Oracle, the base oracle
    temp,           \* OracleRotation.temp
    pending,        \* OracleRotation.pending
    now,            \* ledger timestamp
    asked           \* history: the temporary rotation the admin last asked for
                    \* and has not superseded by a permanent change

vars == <<oracle, temp, pending, now, asked>>

NoTemp    == [old |-> None, new |-> None, expiry |-> 0]
NoPending == [old |-> None, new |-> None]
NotAsked  == [new |-> None, until |-> 0]

Init ==
    /\ oracle \in Accounts \ {Contract}
    /\ temp = NoTemp /\ pending = NoPending /\ now = 0 /\ asked = NotAsked

\* Whether the temporary oracle stands in for the base oracle.
TempInForce == temp # NoTemp /\ now < temp.expiry /\ temp.old = oracle

\* The oracle that effective_oracle returns.
EffectiveOracle == IF TempInForce THEN temp.new ELSE oracle

\* The temporary rotation as effective_oracle leaves it: it drops one that is
\* over or that was made under another oracle.
TempAfterRead == IF TempInForce THEN temp ELSE NoTemp

\* get_oracle, submit_result and every other call of effective_oracle.
ReadOracle ==
    /\ temp' = TempAfterRead
    /\ UNCHANGED <<oracle, pending, now, asked>>

\* update_oracle, also reached through set_oracle.
UpdateOracle(a) ==
    /\ a # Contract
    /\ oracle' = a
    /\ temp' = NoTemp /\ pending' = NoPending
    /\ asked' = NotAsked
    /\ UNCHANGED now

\* rotate_oracle_temporary: old is the oracle in force, stand-in or not.
RotateOracleTemporary(old, a, d) ==
    /\ a # Contract
    /\ old = EffectiveOracle
    /\ temp' = [old |-> old, new |-> a, expiry |-> now + d]
    /\ asked' = [new |-> a, until |-> now + d]
    /\ UNCHANGED <<oracle, pending, now>>

\* finalize_temp_oracle_rotation, by anyone.
FinalizeTempOracleRotation ==
    /\ temp # NoTemp
    /\ now >= temp.expiry
    /\ temp' = NoTemp
    /\ UNCHANGED <<oracle, pending, now, asked>>

\* propose_oracle_rotation: old is the base oracle.
ProposeOracleRotation(old, a) ==
    /\ a # Contract
    /\ old = oracle
    /\ pending' = [old |-> old, new |-> a]
    /\ UNCHANGED <<oracle, temp, now, asked>>

\* rotate_oracle_permanent: removes the whole rotation state.
RotateOraclePermanent(old, a) ==
    /\ pending = [old |-> old, new |-> a]
    /\ pending.old = oracle
    /\ oracle' = a
    /\ temp' = NoTemp /\ pending' = NoPending
    /\ asked' = NotAsked
    /\ UNCHANGED now

Tick ==
    /\ now < MaxTime
    /\ now' = now + 1
    /\ UNCHANGED <<oracle, temp, pending, asked>>

Next ==
    \/ ReadOracle
    \/ \E a \in Accounts : UpdateOracle(a)
    \/ \E old, a \in Accounts, d \in Durations : RotateOracleTemporary(old, a, d)
    \/ FinalizeTempOracleRotation
    \/ \E old, a \in Accounts : ProposeOracleRotation(old, a)
    \/ \E old, a \in Accounts : RotateOraclePermanent(old, a)
    \/ Tick

Spec == Init /\ [][Next]_vars

(***************************************************************************)
(* Properties.                                                             *)
(***************************************************************************)
\* A pending permanent rotation is always from the oracle that is the base now,
\* so the check in rotate_oracle_permanent never meets a stale proposal.
PendingNamesBase == pending # NoPending => pending.old = oracle

\* Whoever the contract obeys other than the base oracle is the stand-in the
\* admin asked for last, inside the window asked for: an earlier rotation never
\* comes back to life, after a change of the base oracle and back included.
StandInAuthorised ==
    EffectiveOracle # oracle =>
        EffectiveOracle = asked.new /\ now < asked.until

\* The oracle the contract obeys is the base oracle or its current stand-in, and
\* a pending rotation is one it may still carry out.
AuthorityHolds == [](PendingNamesBase /\ StandInAuthorised)

\* Claim (doc comment of rotate_oracle_temporary): the rotation the admin asked
\* for is in force until its duration has elapsed.
TempTakesEffect == now < asked.until => EffectiveOracle = asked.new
=============================================================================
