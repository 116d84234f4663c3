------------------------------ MODULE Backoff ------------------------------
(***************************************************************************)
(* PendingEntry::record_failure (oracle-service/src/queue.rs): the delay   *)
(* after the n-th failure of a queue entry, computed in machine integers.  *)
(* Width scales the 64 bits of the code down, and Cap its hour, so that    *)
(* the shift and the product overflow within the attempts that are tried.  *)
(***************************************************************************)
EXTENDS Naturals, FiniteSets, FiniteSetsExt

CONSTANTS
    Width,        \* bits of a machine word
    Cap,          \* longest delay
    MaxAttempts   \* bound on max_retries

Words == 0 .. 2 ^ Width - 1
MaxWord == 2 ^ Width - 1

VARIABLES
    base,        \* base_delay_secs, from the configuration
    maxRetries,  \* max_retries, from the configuration
    attempts,    \* PendingEntry.attempts
    delay,       \* next_attempt_at - now, as set by the last failure
    exhausted    \* what the last record_failure returned

vars == <<base, maxRetries, attempts, delay, exhausted>>

\* PendingEntry::new: due at once.
Init ==
    /\ base \in Words
    /\ maxRetries \in 0 .. MaxAttempts
    /\ attempts = 0
    /\ delay = 0
    /\ exhausted = FALSE

\* 1.checked_shl(exp).unwrap_or(MAX): None when exp reaches the width.
CheckedShl(exp) == IF exp < Width THEN 2 ^ exp ELSE MaxWord

SaturatingMul(a, b) == Min({a * b, MaxWord})

RecordFailure ==
    /\ ~exhausted
    /\ attempts' = attempts + 1
    /\ exhausted' = (attempts' >= maxRetries)
    /\ delay' = IF exhausted' THEN delay ELSE Min({SaturatingMul(base, CheckedShl(attempts)), Cap})
    /\ UNCHANGED <<base, maxRetries>>

Next == RecordFailure

Spec == Init /\ [][Next]_vars

-----------------------------------------------------------------------------
\* The schedule of queue.rs in unbounded arithmetic: base * 2^(attempt - 1),
\* capped.  Overflow of the shift or of the product never shortens a delay, as
\* long as a word can hold the cap.
DelayAsScheduled ==
    (attempts > 0 /\ ~exhausted) => delay = Min({base * 2 ^ (attempts - 1), Cap})

\* A later failure never waits for less than an earlier one.
DelayNeverShrinks == [][delay' >= delay]_vars

=============================================================================
