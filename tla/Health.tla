------------------------------- MODULE Health -------------------------------
(***************************************************************************)
(* The oracle service's health checker (oracle-service/src/health.rs) and  *)
(* the loop in main.rs that drives it.  A check runs one probe per         *)
(* dependency in parallel, each under a deadline, joins them and only then *)
(* writes all the results under the lock; GET /health reads whatever was   *)
(* last written.  Dependencies break and recover while probes are in       *)
(* flight, so a written result may already be stale when it is read.       *)
(* Latencies, timestamps and messages are left out.                        *)
(***************************************************************************)
EXTENDS Naturals, FiniteSets

CONSTANTS
    Critical,     \* the Stellar RPC, the escrow contract, the oracle contract
    Platforms     \* the Lichess and the Chess.com APIs

Dependencies == Critical \union Platforms

\* How a dependency answers a request made of it now.
Conditions == {"ok", "error", "limited", "hung"}

\* Only the platform APIs limit their callers.
ConditionsOf(d) == IF d \in Platforms THEN Conditions ELSE Conditions \ {"limited"}

CheckStatuses == {"Up", "Degraded", "Down", "RateLimited", "Unknown"}

VARIABLES
    world,      \* environment: condition of each dependency
    phase,      \* the loop: "idle" between checks, "probing" in check_all
    found,      \* results of the probes that have answered in this check
    checks,     \* HealthCheckerState.checks, what status() reads
    seen,       \* history: conditions of each dependency during this check
    basis       \* history: seen, at the last write of the results

checkerVars == <<world, phase, found, checks>>

HealthTypeOK ==
    /\ world \in [Dependencies -> Conditions]
    /\ phase \in {"idle", "probing"}
    /\ DOMAIN found \subseteq Dependencies
    /\ \A d \in DOMAIN found : found[d] \in CheckStatuses
    /\ checks \in [Dependencies -> CheckStatuses]

\* HealthChecker::new: nothing has been probed.
HealthInit ==
    /\ world \in [Dependencies -> Conditions]
    /\ \A d \in Dependencies : world[d] \in ConditionsOf(d)
    /\ phase = "idle"
    /\ found = << >>
    /\ checks = [d \in Dependencies |-> "Unknown"]

-----------------------------------------------------------------------------
(* The probes. *)

\* check_stellar_rpc, check_escrow_contract, check_oracle_contract: any error,
\* and the deadline, are Down.
CriticalProbe(condition) == IF condition = "ok" THEN "Up" ELSE "Down"

\* check_lichess_api, check_chess_com_api.  An error counts as rate limiting
\* when its text contains "rate".  The clients' health_check turns every
\* non-success status, 429 included, into HttpStatus, whose text is
\* "... returned non-success status: <status>": no error of a probe has the
\* word in it.
TextHasRate(condition) == FALSE

PlatformProbe(condition) ==
    IF condition = "ok" THEN "Up"
    ELSE IF condition # "hung" /\ TextHasRate(condition) THEN "RateLimited"
    ELSE "Down"

Probe(d) == IF d \in Critical THEN CriticalProbe(world[d]) ELSE PlatformProbe(world[d])

(* check_all. *)

\* The ticker of run_health_check_loop fires; the five probes start together.
StartCheck ==
    /\ phase = "idle"
    /\ phase' = "probing"
    /\ found' = << >>
    /\ UNCHANGED <<world, checks>>

\* The probe of d ends: with the dependency's answer, or at its deadline if
\* the dependency does not answer.
ProbeEnds(d) ==
    /\ phase = "probing"
    /\ d \notin DOMAIN found
    /\ found' = [e \in DOMAIN found \union {d} |-> IF e = d THEN Probe(d) ELSE found[e]]
    /\ UNCHANGED <<world, phase, checks>>

\* Altered for mutation: the results are written without waiting for the join.
PublishEarly ==
    /\ phase = "probing"
    /\ DOMAIN found # {}
    /\ checks' = [d \in Dependencies |-> IF d \in DOMAIN found THEN found[d] ELSE checks[d]]
    /\ phase' = "idle"
    /\ UNCHANGED <<world, found>>

\* All the probes have ended: the joined results replace the state at once.
Publish ==
    /\ phase = "probing"
    /\ DOMAIN found = Dependencies
    /\ checks' = found
    /\ phase' = "idle"
    /\ UNCHANGED <<world, found>>

\* Environment: a dependency changes its behaviour at any moment.
Turn(d) ==
    /\ \E c \in ConditionsOf(d) \ {world[d]} : world' = [world EXCEPT ![d] = c]
    /\ UNCHANGED <<phase, found, checks>>

HealthNext ==
    \/ StartCheck
    \/ Publish
    \/ \E d \in Dependencies : ProbeEnds(d) \/ Turn(d)

HealthSpec == HealthInit /\ [][HealthNext]_checkerVars

\* The loop ticks for ever, every probe ends by its deadline, and the write
\* lock is granted; the dependencies owe nothing.
HealthFairSpec ==
    /\ HealthSpec
    /\ WF_checkerVars(StartCheck)
    /\ WF_checkerVars(Publish)
    /\ \A d \in Dependencies : WF_checkerVars(ProbeEnds(d))

-----------------------------------------------------------------------------
(* What GET /health answers (status, and health_check of main.rs). *)

OverallStatus ==
    LET statuses == {checks[d] : d \in Critical}
    IN  IF "Down" \in statuses THEN "Unhealthy"
        ELSE IF "Degraded" \in statuses THEN "Degraded"
        ELSE "Healthy"

ServiceReady ==
    /\ OverallStatus = "Healthy"
    /\ \A d \in Critical : checks[d] # "Unknown"

HttpStatus == IF OverallStatus = "Unhealthy" THEN 503 ELSE 200

-----------------------------------------------------------------------------
(* The checker watched by the history variables. *)

\* An outage is an outage, whether the dependency errs or hangs.
Kind(condition) == IF condition = "hung" THEN "error" ELSE condition

Watch ==
    /\ seen' = [d \in Dependencies |->
          (IF phase = "idle" THEN {} ELSE seen[d]) \union {Kind(world'[d])}]
    /\ basis' = IF phase = "probing" /\ phase' = "idle" THEN seen ELSE basis

WatchedInit == HealthInit /\ seen = [d \in Dependencies |-> {}] /\ basis = seen
WatchedNext == HealthNext /\ Watch
WatchedSpec == WatchedInit /\ [][WatchedNext]_<<checkerVars, seen, basis>>

-----------------------------------------------------------------------------
(* Properties. *)

\* The results are from one check: every status is explained by something its
\* dependency did during the check that wrote it, never by an earlier one
\* (tokio::join! before the write lock); and the service is ready only after a
\* check in which every critical dependency answered.
ReportsSound ==
    /\ HealthTypeOK
    /\ \A d \in Dependencies :
          /\ checks[d] = "Up" => "ok" \in basis[d]
          /\ checks[d] = "Down" => basis[d] \ {"ok"} # {}
    /\ ServiceReady => \A d \in Critical : "ok" \in basis[d]

\* A critical dependency that fails for good is reported: from some moment on
\* /health answers 503, whatever the other dependencies do.
OutageReported ==
    \A d \in Critical : <>[](world[d] # "ok") => <>[](HttpStatus = 503)

\* And once every critical dependency has recovered for good, /health says
\* healthy and ready for good, however the platform APIs behave.
RecoveryReported ==
    <>[](\A d \in Critical : world[d] = "ok") => <>[](HttpStatus = 200 /\ ServiceReady)

=============================================================================
