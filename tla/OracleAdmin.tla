----------------------------- MODULE OracleAdmin -----------------------------
(***************************************************************************)
(* What surrounds the votes in the oracle contract                         *)
(* (contracts/oracle/src/lib.rs).  Who administers the contract and who    *)
(* receives slashed stakes: initialize, the immediate update_admin, the    *)
(* two-step propose_admin and accept_admin, and the treasury.  The         *)
(* submissions of an oracle: an hourly and a daily sliding-window counter, *)
(* rolled forward lazily when they are loaded, and the view that reports   *)
(* the remaining quota.  Its response times: a running average kept in     *)
(* integers, and the admin's deactivation of an oracle that is too slow.   *)
(* The three share no state and are stepped apart.                         *)
(***************************************************************************)
EXTENDS Integers, Counting

CONSTANTS
    Accounts,       \* addresses
    NoOne,          \* an absent entry
    MaxProposals,   \* bound on the number of proposals
    MaxSlashes,     \* bound on the number of slashes
    HourlyWindow, DailyWindow,      \* HOURLY_WINDOW_SECS, DAILY_WINDOW_SECS
    DefaultHourly, DefaultDaily,    \* DEFAULT_HOURLY_LIMIT, DEFAULT_DAILY_LIMIT
    LimitInputs,    \* arguments of set_oracle_rate_limits
    Counts,         \* submissions in one call (a batch counts its length)
    MaxTime,        \* bound on the clock
    Times,          \* response times
    SlaDefault,     \* SLA_MAX_RESPONSE_TIME_MS
    SlaInputs,      \* arguments of set_sla_threshold
    MaxSubmissions  \* bound on the number of submissions

VARIABLES
    admin,          \* Admin
    pendingAdmin,   \* PendingAdmin; id is history, the proposal's number
    treasury,       \* Treasury
    proposals,      \* history: number of proposals made
    replaced,       \* history: proposals pending when the admin was replaced
    accepted,       \* history: how often each proposal was accepted
    received,       \* slashes each account was paid
    owed,           \* history: slashes that get_treasury named it for
    config,         \* OracleRateLimit
    hourly,         \* OracleHourlyWindow
    daily,          \* OracleDailyWindow
    time,           \* ledger timestamp
    log,            \* history: submissions accepted at each time
    highest,        \* history: the highest hourly and daily limits so far
    metrics,        \* OracleMetrics
    sla,            \* SlaThreshold
    sum             \* history: the sum of all response times

\* Windows and limits are constants of the code or arguments of type u32 and u64.
ASSUME OfficeAssumption ==
    /\ NoOne \notin Accounts /\ MaxProposals \in Nat /\ MaxSlashes \in Nat
    /\ HourlyWindow \in Nat \ {0} /\ DailyWindow \in Nat \ {0}
    /\ DefaultHourly \in Nat /\ DefaultDaily \in Nat /\ LimitInputs \subseteq Nat
    /\ Counts \subseteq Nat \ {0} /\ MaxTime \in Nat
    /\ Times \subseteq Nat /\ SlaDefault \in Nat /\ SlaInputs \subseteq Nat
    /\ MaxSubmissions \in Nat

adminVars == <<admin, pendingAdmin, treasury, proposals, replaced, accepted,
               received, owed>>
limitVars == <<config, hourly, daily, time, log, highest>>
metricVars == <<metrics, sla, sum>>

(***************************************************************************)
(* The admin and the treasury.                                             *)
(***************************************************************************)
NoProposal == [proposer |-> NoOne, pending |-> NoOne, id |-> 0]

AdminInit ==
    /\ admin = NoOne /\ pendingAdmin = NoProposal /\ treasury = NoOne
    /\ proposals = 0 /\ replaced = {}
    /\ accepted = [i \in 1..MaxProposals |-> 0]
    /\ received = [a \in Accounts |-> 0]
    /\ owed = [a \in Accounts |-> 0]

Initialize(a) ==
    /\ admin = NoOne
    /\ admin' = a
    /\ UNCHANGED <<pendingAdmin, treasury, proposals, replaced, accepted,
                   received, owed>>

\* update_admin, by the admin; a proposal stays pending.
UpdateAdmin(a) ==
    /\ admin # NoOne
    /\ admin' = a
    /\ replaced' = IF a = admin THEN replaced ELSE replaced \cup {pendingAdmin.id}
    /\ UNCHANGED <<pendingAdmin, treasury, proposals, accepted, received, owed>>

\* propose_admin, by the admin; replaces an earlier proposal.
ProposeAdmin(a) ==
    /\ admin # NoOne
    /\ proposals < MaxProposals
    /\ proposals' = proposals + 1
    /\ pendingAdmin' = [proposer |-> admin, pending |-> a, id |-> proposals + 1]
    /\ UNCHANGED <<admin, treasury, replaced, accepted, received, owed>>

\* accept_admin, by the nominee.
AcceptAdmin ==
    /\ pendingAdmin # NoProposal
    /\ admin = pendingAdmin.proposer
    /\ admin' = pendingAdmin.pending
    /\ pendingAdmin' = NoProposal
    /\ accepted' = [accepted EXCEPT ![pendingAdmin.id] = @ + 1]
    /\ UNCHANGED <<treasury, proposals, replaced, received, owed>>

SetTreasury(a) ==
    /\ admin # NoOne
    /\ treasury' = a
    /\ UNCHANGED <<admin, pendingAdmin, proposals, replaced, accepted, received,
                   owed>>

\* get_treasury.
GetTreasury == IF treasury = NoOne THEN admin ELSE treasury

\* The recipient of finalize_slash and of slash_bps.
SlashRecipient == admin

\* The payment that finalize_slash and slash_bps make.
PaySlash ==
    /\ admin # NoOne
    /\ received[SlashRecipient] < MaxSlashes
    /\ received' = [received EXCEPT ![SlashRecipient] = @ + 1]
    /\ owed' = [owed EXCEPT ![GetTreasury] = @ + 1]
    /\ UNCHANGED <<admin, pendingAdmin, treasury, proposals, replaced, accepted>>

AdminNext ==
    \/ \E a \in Accounts : Initialize(a)
    \/ \E a \in Accounts : UpdateAdmin(a)
    \/ \E a \in Accounts : ProposeAdmin(a)
    \/ AcceptAdmin
    \/ \E a \in Accounts : SetTreasury(a)
    \/ PaySlash

AdminSpec == AdminInit /\ [][AdminNext]_adminVars

(***************************************************************************)
(* Windows.                                                                *)
(***************************************************************************)
Unset == [start |-> -1, current |-> 0, previous |-> 0]

\* load_rate_window: an absent window starts now; one elapsed window becomes
\* the previous one; after two, nothing is left.
LoadRateWindow(w, t, secs) ==
    LET fresh == [start |-> t, current |-> 0, previous |-> 0]
        elapsed == t - w.start
    IN  IF w = Unset \/ elapsed >= 2 * secs THEN fresh
        ELSE IF elapsed < secs THEN w
        ELSE [start |-> w.start + secs, current |-> 0, previous |-> w.current]

\* estimated_window_count.
EstimatedWindowCount(t, w, secs) ==
    LET elapsed == IF t - w.start < secs THEN t - w.start ELSE secs
    IN  w.current + (w.previous * (secs - elapsed)) \div secs

\* What each window counts now.
HourlyUsed ==
    EstimatedWindowCount(time, LoadRateWindow(hourly, time, HourlyWindow),
                         HourlyWindow)
DailyUsed ==
    EstimatedWindowCount(time, LoadRateWindow(daily, time, DailyWindow),
                         DailyWindow)

Minus(a, b) == IF a > b THEN a - b ELSE 0

\* get_oracle_rate_limit_status: the smaller of the remaining quotas.
RemainingQuota ==
    LET h == Minus(config.hourly, HourlyUsed)
        d == Minus(config.daily, DailyUsed)
    IN  IF h < d THEN h ELSE d

(***************************************************************************)
(* Submissions.                                                            *)
(***************************************************************************)
LimitsInit ==
    /\ config = [hourly |-> DefaultHourly, daily |-> DefaultDaily]
    /\ hourly = Unset /\ daily = Unset /\ time = 0
    /\ log = [t \in 0..MaxTime |-> 0]
    /\ highest = config

\* set_oracle_rate_limits: zero stands for the default.
SetOracleRateLimits(h, d) ==
    /\ ~(h # 0 /\ d # 0 /\ h > d)
    /\ config' = [hourly |-> IF h = 0 THEN DefaultHourly ELSE h,
                  daily |-> IF d = 0 THEN DefaultDaily ELSE d]
    /\ highest' = [hourly |-> Max({highest.hourly, config'.hourly}),
                   daily |-> Max({highest.daily, config'.daily})]
    /\ UNCHANGED <<hourly, daily, time, log>>

\* The two comparisons of check_oracle_rate_limit.
Admits(n) == HourlyUsed + n <= config.hourly /\ DailyUsed + n <= config.daily

\* Altered for mutation: counts a batch as one submission.
CheckOracleRateLimitBatchAsOne(n) ==
    LET h == LoadRateWindow(hourly, time, HourlyWindow)
        d == LoadRateWindow(daily, time, DailyWindow)
    IN  /\ Admits(1)
        /\ hourly' = [h EXCEPT !.current = @ + 1]
        /\ daily' = [d EXCEPT !.current = @ + 1]
        /\ log' = [log EXCEPT ![time] = @ + n]
        /\ UNCHANGED <<config, time, highest>>

\* check_oracle_rate_limit for n submissions; a refusal changes nothing.
CheckOracleRateLimit(n) ==
    LET h == LoadRateWindow(hourly, time, HourlyWindow)
        d == LoadRateWindow(daily, time, DailyWindow)
    IN  /\ Admits(n)
        /\ hourly' = [h EXCEPT !.current = @ + n]
        /\ daily' = [d EXCEPT !.current = @ + n]
        /\ log' = [log EXCEPT ![time] = @ + n]
        /\ UNCHANGED <<config, time, highest>>

Elapse ==
    /\ time < MaxTime
    /\ time' = time + 1
    /\ UNCHANGED <<config, hourly, daily, log, highest>>

LimitsNext ==
    \/ \E h, d \in LimitInputs : SetOracleRateLimits(h, d)
    \/ \E n \in Counts : CheckOracleRateLimit(n)
    \/ Elapse

LimitsSpec == LimitsInit /\ [][LimitsNext]_limitVars

(***************************************************************************)
(* Response times.                                                         *)
(***************************************************************************)
MetricsInit ==
    /\ metrics = [avg |-> 0, total |-> 0, successful |-> 0, uptime |-> 100,
                  active |-> TRUE]
    /\ sla = SlaDefault
    /\ sum = 0

\* The new running average.
Average(avg, total, x) == (avg * total + x) \div (total + 1)

\* update_oracle_metrics; the success test uses the constant, not sla.
UpdateOracleMetrics(x) ==
    LET ok == metrics.successful + (IF x <= SlaDefault THEN 1 ELSE 0)
    IN  /\ metrics.active
        /\ metrics.total < MaxSubmissions
        /\ metrics' = [metrics EXCEPT
              !.avg = Average(metrics.avg, metrics.total, x),
              !.total = @ + 1,
              !.successful = ok,
              !.uptime = (ok * 100) \div (metrics.total + 1)]
        /\ sum' = sum + x
        /\ UNCHANGED sla

SetSlaThreshold(t) == t > 0 /\ sla' = t /\ UNCHANGED <<metrics, sum>>

TooSlow == metrics.avg > sla

\* deactivate_slow_oracle.
DeactivateSlow ==
    /\ metrics.total > 0
    /\ TooSlow
    /\ metrics' = [metrics EXCEPT !.active = FALSE]
    /\ UNCHANGED <<sla, sum>>

MetricsNext ==
    \/ \E x \in Times : UpdateOracleMetrics(x)
    \/ \E t \in SlaInputs : SetSlaThreshold(t)
    \/ DeactivateSlow

MetricsSpec == MetricsInit /\ [][MetricsNext]_metricVars

(***************************************************************************)
(* Properties.                                                             *)
(***************************************************************************)
\* A nomination makes its nominee admin at most once, however the admin changes
\* hands afterwards: accept_admin removes the proposal it acted on.
NominationUsedOnce == \A i \in DOMAIN accepted : accepted[i] <= 1

\* Claim (comment in accept_admin): a proposal made before update_admin rotated
\* the admin is stale and is not accepted.
StaleProposalRefused == \A i \in replaced \ {0} : accepted[i] = 0

\* Claim (doc comment of set_treasury): slashed stake goes to the treasury.
SlashesReachTreasury == received = owed

\* What was accepted in the secs seconds that end at t.
Accepted(t, secs) ==
    SumOver(log, {u \in 0..t : t - u < secs})

\* Any stretch of an hour, or of a day, sees at most twice the highest limit:
\* lazily rolled windows never lose more than one window's worth.
TwiceTheLimit ==
    /\ Accepted(time, HourlyWindow) <= 2 * highest.hourly
    /\ Accepted(time, DailyWindow) <= 2 * highest.daily

\* The quota get_oracle_rate_limit_status reports is what a submission made now
\* may use, no more and no less.
QuotaIsTrue == \A n \in Counts : Admits(n) <=> n <= RemainingQuota

\* The running average, rounded down at every submission, never exceeds the
\* true mean, and lags it by at most (n - 1) / 2 after n submissions.
AverageDrift ==
    LET n == metrics.total
    IN  /\ metrics.avg * n <= sum
        /\ 2 * (sum - metrics.avg * n) <= n * (n - 1)

\* Only an oracle whose true mean response time is above the target in force is
\* ever deactivated.
DeactivationJustified ==
    [][metrics.active /\ ~metrics'.active => sum > sla * metrics.total]_metricVars
=============================================================================
