--------------------------- MODULE PlatformClient ---------------------------
(***************************************************************************)
(* A chess platform's HTTP client as the tasks of the oracle service share *)
(* it (oracle-service/src/oracle/chess_com_client.rs, lichess_client.rs,   *)
(* rate_limiter.rs): a call takes a token of the shared bucket, then one   *)
(* of the shared permits, and keeps the permit while it sends its request  *)
(* and, for a single Chess.com game, while it sleeps between retries.      *)
(* Health probes take a permit and no token.  The API key is read from the *)
(* process's own environment, so reloading it after a 401 reads it again   *)
(* and only costs one more request.  What a response says about the games  *)
(* is Providers' business and left out here.                               *)
(***************************************************************************)
EXTENDS Naturals, FiniteSets, FiniteSetsExt, Functions

CONSTANTS
    Single,          \* calls of Chess.com fetch_result
    Chunk,           \* calls of Chess.com fetch_batch_chunk
    Export,          \* calls of Lichess fetch_result and export_games
    Probes,          \* calls of health_check
    Capacity,        \* bound on the tokens of the bucket
    Period,          \* ticks in which one token is refilled
    MaxConcurrent,   \* permits of the semaphore
    MaxRetries,      \* requests repeated after a 429
    MaxBackoff,      \* bound: longest Retry-After, in ticks
    Horizon          \* bound: ticks watched

Calls == Single \union Chunk \union Export \union Probes

\* Answers of the platform, or of the transport.
Statuses == {"success", "notFound", "tooMany", "unauthorized", "other", "transport"}

Outcomes == {"Ok", "GameNotFound", "RateLimited", "HttpStatus", "Unreachable"}

VARIABLES
    pc,        \* call -> idle, token, permit, send, sent, asleep or done
    wait,      \* call -> ticks it still sleeps
    tokens,    \* BucketState.tokens, in fractions of a token
    idle,      \* ticks since BucketState.last_refill
    retries,   \* call -> retry_count
    auth,      \* call -> auth_retry_count
    outcome,   \* call -> what it returned, once done
    taken,     \* history: parity of the tokens taken
    sends,     \* history: call -> requests it has sent
    elapsed    \* history: ticks passed

vars == <<pc, wait, tokens, idle, retries, auth, outcome>>

Full == Capacity * Period
Holders == {c \in Calls : pc[c] \in {"send", "sent", "asleep"}}

TypeOK ==
    /\ pc \in [Calls -> {"idle", "token", "permit", "send", "sent", "asleep", "done"}]
    /\ wait \in [Calls -> 0 .. Max({Period, MaxBackoff})]
    /\ tokens \in 0 .. Full
    /\ idle \in 0 .. Full
    /\ retries \in [Calls -> 0 .. MaxRetries]
    /\ auth \in [Calls -> 0 .. 1]
    /\ outcome \in [Calls -> Outcomes \union {"none"}]

\* BucketState::new: the bucket starts full.
Init ==
    /\ pc = [c \in Calls |-> "idle"]
    /\ wait = [c \in Calls |-> 0]
    /\ tokens = Full
    /\ idle = 0
    /\ retries = [c \in Calls |-> 0]
    /\ auth = [c \in Calls |-> 0]
    /\ outcome = [c \in Calls |-> "none"]

-----------------------------------------------------------------------------
(* The token bucket (rate_limiter.rs). *)

Refilled == Min({tokens + idle, Full})

\* One turn of acquire: refill_and_next_available under the lock, and then
\* either go on or sleep for exactly the missing fraction.
Acquire(c) ==
    /\ pc[c] = "token"
    /\ wait[c] = 0
    /\ IF Refilled >= Period
       THEN /\ tokens' = Refilled - Period
            /\ pc' = [pc EXCEPT ![c] = "permit"]
            /\ UNCHANGED wait
       ELSE /\ tokens' = Refilled
            /\ wait' = [wait EXCEPT ![c] = Period - Refilled]
            /\ UNCHANGED pc
    /\ idle' = 0
    /\ UNCHANGED <<retries, auth, outcome>>

-----------------------------------------------------------------------------
(* The calls. *)

Start(c) ==
    /\ pc[c] = "idle"
    /\ pc' = [pc EXCEPT ![c] = IF c \in Probes THEN "permit" ELSE "token"]
    /\ UNCHANGED <<wait, tokens, idle, retries, auth, outcome>>

\* Altered for mutation: a call that slept is not counted.
TakePermitWhileAsleep(c) ==
    /\ pc[c] = "permit"
    /\ Cardinality({d \in Holders : pc[d] # "asleep"}) < MaxConcurrent
    /\ pc' = [pc EXCEPT ![c] = "send"]
    /\ UNCHANGED <<wait, tokens, idle, retries, auth, outcome>>

\* semaphore.acquire_owned.
TakePermit(c) ==
    /\ pc[c] = "permit"
    /\ Cardinality(Holders) < MaxConcurrent
    /\ pc' = [pc EXCEPT ![c] = "send"]
    /\ UNCHANGED <<wait, tokens, idle, retries, auth, outcome>>

Send(c) ==
    /\ pc[c] = "send"
    /\ pc' = [pc EXCEPT ![c] = "sent"]
    /\ UNCHANGED <<wait, tokens, idle, retries, auth, outcome>>

\* Returning drops the permit.
Return(c, o) ==
    /\ pc' = [pc EXCEPT ![c] = "done"]
    /\ outcome' = [outcome EXCEPT ![c] = o]
    /\ UNCHANGED <<wait, tokens, idle, retries, auth>>

\* The first 401 of a Chess.com call: reload_api_key, and the loop goes on.
Reauthenticate(c) ==
    /\ pc' = [pc EXCEPT ![c] = "send"]
    /\ auth' = [auth EXCEPT ![c] = 1]
    /\ UNCHANGED <<wait, tokens, idle, retries, outcome>>

\* Altered for mutation: the retry counter is never advanced.
BackOffForEver(c) ==
    \E delay \in 0 .. MaxBackoff :
        /\ pc' = [pc EXCEPT ![c] = "asleep"]
        /\ wait' = [wait EXCEPT ![c] = delay]
        /\ UNCHANGED <<tokens, idle, retries, auth, outcome>>

\* A 429 to a single game: sleep for Retry-After, or the exponential backoff,
\* with the permit held.
BackOff(c) ==
    \E delay \in 0 .. MaxBackoff :
        /\ pc' = [pc EXCEPT ![c] = "asleep"]
        /\ wait' = [wait EXCEPT ![c] = delay]
        /\ retries' = [retries EXCEPT ![c] = @ + 1]
        /\ UNCHANGED <<tokens, idle, auth, outcome>>

\* What a call returns for a status that is no reason to go on.
Verdict(status) ==
    CASE status = "success" -> "Ok"
      [] status = "transport" -> "Unreachable"
      [] status = "notFound" -> "GameNotFound"
      [] OTHER -> "HttpStatus"

\* The loop of Chess.com fetch_result.
AnswerSingle(c, status) ==
    /\ c \in Single
    /\ pc[c] = "sent"
    /\ IF status = "unauthorized" /\ auth[c] = 0 THEN Reauthenticate(c)
       ELSE IF status = "tooMany" /\ retries[c] < MaxRetries THEN BackOff(c)
       ELSE Return(c, Verdict(status))

\* The loop of fetch_batch_chunk: a 429 is returned at once, so the retry code
\* below it is never reached, and there is no 404 for a batch.
AnswerChunk(c, status) ==
    /\ c \in Chunk
    /\ pc[c] = "sent"
    /\ IF status = "unauthorized" /\ auth[c] = 0 THEN Reauthenticate(c)
       ELSE Return(c, IF status = "tooMany" THEN "RateLimited"
                      ELSE IF status = "notFound" THEN "HttpStatus" ELSE Verdict(status))

\* Lichess fetch_result sends one request ...
AnswerExport(c, status) ==
    /\ c \in Export
    /\ pc[c] = "sent"
    /\ Return(c, IF status = "tooMany" THEN "RateLimited" ELSE Verdict(status))

\* ... and so does export_games, for which a 404 is a status like any other.
AnswerExportGames(c, status) ==
    /\ c \in Export
    /\ pc[c] = "sent"
    /\ Return(c, IF status = "tooMany" THEN "RateLimited"
                 ELSE IF status = "notFound" THEN "HttpStatus" ELSE Verdict(status))

\* health_check: success or not.
AnswerProbe(c, status) ==
    /\ c \in Probes
    /\ pc[c] = "sent"
    /\ Return(c, IF status \in {"success", "transport"} THEN Verdict(status) ELSE "HttpStatus")

Answer(c, status) ==
    \/ AnswerSingle(c, status)
    \/ AnswerChunk(c, status)
    \/ AnswerExport(c, status)
    \/ AnswerExportGames(c, status)
    \/ AnswerProbe(c, status)

\* The sleep between retries is over.
Retry(c) ==
    /\ pc[c] = "asleep"
    /\ wait[c] = 0
    /\ pc' = [pc EXCEPT ![c] = "send"]
    /\ UNCHANGED <<wait, tokens, idle, retries, auth, outcome>>

Tick ==
    /\ idle' = Min({idle + 1, Full})
    /\ wait' = [c \in Calls |-> IF wait[c] > 0 THEN wait[c] - 1 ELSE 0]
    /\ UNCHANGED <<pc, tokens, retries, auth, outcome>>

Step(c) ==
    \/ Acquire(c)
    \/ TakePermit(c)
    \/ Send(c)
    \/ \E status \in Statuses : Answer(c, status)
    \/ Retry(c)

Next == Tick \/ \E c \in Calls : Start(c) \/ Step(c)

Spec == Init /\ [][Next]_vars

\* Tasks are polled, requests are answered or time out after request_timeout,
\* and time passes.  A call need not be made.  The tasks waiting for a lock or
\* a permit are served in order (tokio's are fair), so a call that keeps
\* finding its step possible takes it.
FairSpec ==
    /\ Spec
    /\ WF_vars(Tick)
    /\ \A c \in Calls : SF_vars(TakePermit(c)) /\ WF_vars(Step(c))

-----------------------------------------------------------------------------
(* Properties. *)

\* At most MaxConcurrent requests are in flight at once, retries and probes
\* included: a retry goes out under the permit its call already holds, so
\* nobody else can have used it in between (Semaphore, OwnedSemaphorePermit).
InFlightBounded == Cardinality({c \in Calls : pc[c] \in {"send", "sent"}}) <= MaxConcurrent

\* Every call that is made returns, whatever mixture of 401, 429 and errors the
\* platform answers and however the calls compete for tokens and permits: the
\* two retry counters bound the loop, and waiting for a permit behind sleeping
\* calls ends.
EveryCallReturns == \A c \in Calls : (pc[c] # "idle") ~> (pc[c] = "done")

-----------------------------------------------------------------------------
(* The client watched by the history variables.                            *)

WatchedInit == Init /\ taken = 0 /\ sends = [c \in Calls |-> 0] /\ elapsed = 0

Takes(c) == pc[c] = "token" /\ pc'[c] = "permit"
Sends(c) == pc[c] = "send" /\ pc'[c] = "sent"

WatchedTick ==
    /\ elapsed < Horizon
    /\ Tick
    /\ elapsed' = elapsed + 1
    /\ UNCHANGED <<taken, sends>>

WatchedStep ==
    /\ \E c \in Calls : Start(c) \/ Step(c)
    /\ taken' = IF \E c \in Calls : Takes(c) THEN 1 - taken ELSE taken
    /\ sends' = [c \in Calls |-> IF Sends(c) THEN sends[c] + 1 ELSE sends[c]]
    /\ UNCHANGED elapsed

WatchedNext == WatchedTick \/ WatchedStep

WatchedSpec == WatchedInit /\ [][WatchedNext]_<<vars, taken, sends, elapsed>>

Bucket == INSTANCE TokenBucket WITH
    Clients <- {"all"},
    credit <- [c \in {"all"} |-> Refilled],
    admitted <- [c \in {"all"} |-> taken]

\* The clones of a client share one token bucket: the sleeping and waking of
\* any number of calls never takes a token that is not there, and never loses
\* a fraction of one (RateLimiter::acquire).
BucketHolds == Bucket!Spec

\* No call sends more than 1 + 1 + MAX_RETRIES requests: the counters of the
\* two kinds of retry are independent and neither resets the other.
RequestsPerCall == \A c \in Calls : sends[c] <= 2 + MaxRetries

\* chess_com_client.rs: "30 req/min (0.5 req/s sustained) with a burst ceiling
\* of 5 tokens, meaning up to 5 requests may be dispatched back-to-back before
\* the sustained rate kicks in".  The requests sent should stay within a full
\* bucket and what was refilled since.
RequestsWithinRate ==
    FoldFunction(LAMBDA n, sum : n + sum, 0, sends) * Period <= Full + elapsed
=============================================================================
