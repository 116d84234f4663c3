----------------------------- MODULE HttpLayer -----------------------------
(***************************************************************************)
(* The two middleware layers in front of the oracle service's endpoints    *)
(* (oracle-service/src/middleware/waf.rs, rate_limit.rs): a burst check    *)
(* per address, a token bucket per address, and one per API key for the    *)
(* requests that carry a key.  Each layer takes its own lock, so requests  *)
(* interleave between the layers, and a cleanup task drops idle entries.   *)
(* Buckets are refilled lazily, from the time since they were last used.   *)
(* Time is counted in ticks and credit in fractions of a token; an entry   *)
(* records how long ago it was touched, not when.                          *)
(***************************************************************************)
EXTENDS Naturals, FiniteSets, Sequences, SequencesExt

CONSTANTS
    Ips, Keys,            \* client addresses and API keys
    NoKey,                \* a request without X-Api-Key
    Slots,                \* bound: requests inside the layers at once
    IpCapacity, IpPeriod,       \* tokens of a full bucket, ticks per token
    KeyCapacity, KeyPeriod,
    StaleAfter,           \* idle ticks after which a bucket may be dropped
    MaxRps, BurstWindow,  \* requests admitted per window, ticks of a window
    BurstStaleAfter       \* idle ticks after which a burst entry may be dropped

VARIABLES
    burst,       \* WafState.burst: address -> [count, start, idle]
    ipBuckets,   \* address -> [tokens, idle], for the addresses with an entry
    keyBuckets,  \* API key -> [tokens, idle]
    req,         \* slot -> where its request is: [stage, ip, key]
    passed,      \* history: address -> requests passed, per tick, newest first
    promise,     \* history: address -> ticks left of its last Retry-After, or NoPromise
    admitted     \* history: address or key -> parity of the tokens it has paid

vars == <<burst, ipBuckets, keyBuckets, req>>

Free == [stage |-> "free"]
Stages == {"waf", "ip", "key", "handler", "rejected"}

TypeOK ==
    /\ DOMAIN burst \subseteq Ips
    /\ \A i \in DOMAIN burst : burst[i].count \in 0 .. MaxRps + 1
    /\ DOMAIN ipBuckets \subseteq Ips
    /\ \A i \in DOMAIN ipBuckets : ipBuckets[i].tokens \in 0 .. IpCapacity * IpPeriod
    /\ DOMAIN keyBuckets \subseteq Keys
    /\ \A k \in DOMAIN keyBuckets : keyBuckets[k].tokens \in 0 .. KeyCapacity * KeyPeriod
    /\ \A s \in Slots : req[s] = Free \/ req[s].stage \in Stages

Init ==
    /\ burst = << >>
    /\ ipBuckets = << >>
    /\ keyBuckets = << >>
    /\ req = [s \in Slots |-> Free]

Put(map, x, entry) == [y \in DOMAIN map \union {x} |-> IF y = x THEN entry ELSE map[y]]
Only(map, keep) == [y \in keep |-> map[y]]

-----------------------------------------------------------------------------
(* Token buckets (rate_limit.rs). *)

\* Tokens, in fractions, of a bucket refilled now.
Refilled(b, full) == Min({b.tokens + b.idle, full})

\* or_insert_with(Bucket::new): a client without an entry gets a full bucket.
BucketOf(map, x, full) == IF x \in DOMAIN map THEN map[x] ELSE [tokens |-> full, idle |-> 0]

\* Bucket::consume: refill, touch, and take a token if there is one.
Consume(map, x, full, period) ==
    LET t == Refilled(BucketOf(map, x, full), full)
    IN  [ok |-> t >= period,
         map |-> Put(map, x, [tokens |-> IF t >= period THEN t - period ELSE t, idle |-> 0])]

\* The Retry-After of a refusal: the ticks until the missing fraction of a
\* token is there (consume, rounded up to whole seconds by too_many_requests).
RetryAfter(b, period) == period - b.tokens

\* Altered for mutation: a bucket counts as stale as soon as it is idle.
PruneIdle(map) == Only(map, {x \in DOMAIN map : map[x].idle = 0})

\* prune_stale.
Prune(map) == Only(map, {x \in DOMAIN map : map[x].idle < StaleAfter})

(* Burst entries (waf.rs). *)

\* BurstEntry::record_and_check: a fixed window that restarts with the first
\* request after it has elapsed.  Past MaxRps + 1 the count changes nothing
\* any more, and is kept there.
RecordAndCheck(i) ==
    LET e == IF i \in DOMAIN burst THEN burst[i] ELSE [count |-> 0, start |-> 0, idle |-> 0]
        fresh == e.start >= BurstWindow
        c == IF fresh THEN 1 ELSE e.count + 1
    IN  [blocked |-> c > MaxRps,
         entry |-> [count |-> Min({c, MaxRps + 1}), start |-> IF fresh THEN 0 ELSE e.start, idle |-> 0]]

-----------------------------------------------------------------------------
(* A request passes the layers from the outside in. *)

\* It arrives; the URI and body checks of waf_middleware read no shared state
\* and reject before anything is recorded.
Arrive(s) ==
    /\ req[s] = Free
    /\ \E i \in Ips, k \in Keys \union {NoKey}, malformed \in BOOLEAN :
        req' = [req EXCEPT ![s] = [stage |-> IF malformed THEN "rejected" ELSE "waf", ip |-> i, key |-> k]]
    /\ UNCHANGED <<burst, ipBuckets, keyBuckets>>

\* waf_middleware under its lock.
WafCheck(s) ==
    /\ req[s].stage = "waf"
    /\ LET r == RecordAndCheck(req[s].ip)
       IN  /\ burst' = Put(burst, req[s].ip, r.entry)
           /\ req' = [req EXCEPT ![s].stage = IF r.blocked THEN "rejected" ELSE "ip"]
    /\ UNCHANGED <<ipBuckets, keyBuckets>>

\* rate_limit_middleware: the bucket of the address ...
IpCheck(s) ==
    /\ req[s].stage = "ip"
    /\ LET c == Consume(ipBuckets, req[s].ip, IpCapacity * IpPeriod, IpPeriod)
       IN  /\ ipBuckets' = c.map
           /\ req' = [req EXCEPT ![s].stage = IF ~c.ok THEN "rejected"
                                              ELSE IF req[s].key = NoKey THEN "handler" ELSE "key"]
    /\ UNCHANGED <<burst, keyBuckets>>

\* ... and, once it has paid there, the bucket of the key it carries.
KeyCheck(s) ==
    /\ req[s].stage = "key"
    /\ LET c == Consume(keyBuckets, req[s].key, KeyCapacity * KeyPeriod, KeyPeriod)
       IN  /\ keyBuckets' = c.map
           /\ req' = [req EXCEPT ![s].stage = IF c.ok THEN "handler" ELSE "rejected"]
    /\ UNCHANGED <<burst, ipBuckets>>

\* The response is sent.
Respond(s) ==
    /\ req[s].stage \in {"handler", "rejected"}
    /\ req' = [req EXCEPT ![s] = Free]
    /\ UNCHANGED <<burst, ipBuckets, keyBuckets>>

\* The cleanup tasks of RateLimitState::new and WafState::new, one lock at a time.
PruneIp ==
    /\ ipBuckets' = Prune(ipBuckets)
    /\ UNCHANGED <<burst, keyBuckets, req>>

PruneKeys ==
    /\ keyBuckets' = Prune(keyBuckets)
    /\ UNCHANGED <<burst, ipBuckets, req>>

PruneBurst ==
    /\ burst' = Only(burst, {i \in DOMAIN burst : burst[i].idle < BurstStaleAfter})
    /\ UNCHANGED <<ipBuckets, keyBuckets, req>>

\* Time passes for every entry.  Ages above their bound change nothing.
Older(age, bound) == Min({age + 1, bound})

Tick ==
    /\ burst' = [i \in DOMAIN burst |->
                    [burst[i] EXCEPT !.start = Older(@, BurstWindow), !.idle = Older(@, BurstStaleAfter)]]
    /\ ipBuckets' = [i \in DOMAIN ipBuckets |-> [ipBuckets[i] EXCEPT !.idle = Older(@, StaleAfter)]]
    /\ keyBuckets' = [k \in DOMAIN keyBuckets |-> [keyBuckets[k] EXCEPT !.idle = Older(@, StaleAfter)]]
    /\ UNCHANGED req

Next ==
    \/ \E s \in Slots : Arrive(s) \/ WafCheck(s) \/ IpCheck(s) \/ KeyCheck(s) \/ Respond(s)
    \/ PruneIp
    \/ PruneKeys
    \/ PruneBurst
    \/ Tick

Spec == Init /\ [][Next]_vars

\* What an address or a key could spend now.
CreditOf(map, x, full) == Refilled(BucketOf(map, x, full), full)

-----------------------------------------------------------------------------
(* The layers watched by the history variables: how many requests of an     *)
(* address passed the burst check in each of the last BurstWindow ticks,    *)
(* the promise a Retry-After header made to it, and the tokens paid.        *)

NoPromise == 99

Quiet == [j \in 1 .. BurstWindow |-> 0]

WatchedInit ==
    /\ Init
    /\ passed = [i \in Ips |-> Quiet]
    /\ promise = [i \in Ips |-> NoPromise]
    /\ admitted = [x \in Ips \union Keys |-> 0]

\* Slot s moves from stage `from' to a stage in `to'.
Moves(s, from, to) == req[s].stage = from /\ req'[s].stage \in to

Passes(i) == \E s \in Slots : Moves(s, "waf", {"ip"}) /\ req[s].ip = i
Pays(i) == \E s \in Slots : Moves(s, "ip", {"key", "handler"}) /\ req[s].ip = i
Refused(i) == \E s \in Slots : Moves(s, "ip", {"rejected"}) /\ req[s].ip = i
PaysForKey(k) == \E s \in Slots : Moves(s, "key", {"handler"}) /\ req[s].key = k

WatchedTick ==
    /\ Tick
    /\ passed' = [i \in Ips |-> <<0>> \o SubSeq(passed[i], 1, BurstWindow - 1)]
    /\ promise' = [i \in Ips |-> IF promise[i] \in {0, NoPromise} THEN promise[i] ELSE promise[i] - 1]
    /\ UNCHANGED admitted

WatchedStep ==
    /\ \/ \E s \in Slots : Arrive(s) \/ WafCheck(s) \/ IpCheck(s) \/ KeyCheck(s) \/ Respond(s)
       \/ PruneIp
       \/ PruneKeys
       \/ PruneBurst
    /\ passed' = [i \in Ips |-> IF Passes(i) THEN [passed[i] EXCEPT ![1] = @ + 1] ELSE passed[i]]
    /\ promise' = [i \in Ips |-> IF Refused(i) THEN RetryAfter(ipBuckets'[i], IpPeriod)
                                 ELSE IF Pays(i) THEN NoPromise ELSE promise[i]]
    /\ admitted' = [x \in Ips \union Keys |->
                        IF (x \in Ips /\ Pays(x)) \/ (x \in Keys /\ PaysForKey(x))
                        THEN 1 - admitted[x] ELSE admitted[x]]

WatchedNext == WatchedStep \/ WatchedTick

WatchedSpec == WatchedInit /\ [][WatchedNext]_<<vars, passed, promise, admitted>>

-----------------------------------------------------------------------------
(* The lazily refilled, pruned maps implement buckets that are always there *)
(* and refilled at every tick.                                              *)

IpLimit == INSTANCE TokenBucket WITH
    Clients <- Ips, Capacity <- IpCapacity, Period <- IpPeriod,
    credit <- [i \in Ips |-> CreditOf(ipBuckets, i, IpCapacity * IpPeriod)],
    admitted <- [i \in Ips |-> admitted[i]]

KeyLimit == INSTANCE TokenBucket WITH
    Clients <- Keys, Capacity <- KeyCapacity, Period <- KeyPeriod,
    credit <- [k \in Keys |-> CreditOf(keyBuckets, k, KeyCapacity * KeyPeriod)],
    admitted <- [k \in Keys |-> admitted[k]]

\* The per-address limiter is a token bucket per address: neither the lazy
\* refill, nor the cleanup of idle entries, nor requests overtaking each other
\* between the layers ever gives an address credit it should not have, or
\* takes credit from it, or admits a request for nothing.
IpLimitHolds == IpLimit!Spec

\* The same for the per-key limiter, behind the per-address one.
KeyLimitHolds == KeyLimit!Spec

\* Within any BurstWindow consecutive ticks the burst check passes at most two
\* windows' worth of requests of one address, however its entry is pruned and
\* its window restarts (BurstEntry::record_and_check).
BurstBounded ==
    \A i \in Ips : FoldSeq(LAMBDA n, sum : n + sum, 0, passed[i]) <= 2 * MaxRps

\* A client that waits for the Retry-After it was given and is alone on its
\* address finds a token: the promise survives cleanup and lazy refills
\* (Bucket::consume, too_many_requests).
RetryAfterSuffices ==
    \A i \in Ips : promise[i] = 0 => CreditOf(ipBuckets, i, IpCapacity * IpPeriod) >= IpPeriod

=============================================================================
