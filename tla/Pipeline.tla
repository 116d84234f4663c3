------------------------------ MODULE Pipeline ------------------------------
(***************************************************************************)
(* The oracle service: the persistent queue, the polling task, the         *)
(* reconciliation task, the dead-letter store, the reconciliation cursor,  *)
(* the Soroban client's submission and the oracle-replay tool.             *)
(*                                                                         *)
(* Three tasks touch the two JSON files.  "tick" and "rec" are two futures *)
(* of one process (main.rs selects over both), "replay" is a process of    *)
(* its own.  No lock protects a file: every queue or dead-letter operation *)
(* loads the file, changes its copy and saves the copy, so that another    *)
(* task may act between the two steps.  A save writes a temporary file and *)
(* renames it, so it is one step.                                          *)
(*                                                                         *)
(* A queue entry is its attempts counter.  The delay before a retry is     *)
(* abstracted: an entry never tried is due, one that failed may or may not *)
(* be due at a given tick (Backoff.tla has the arithmetic of the delay).   *)
(***************************************************************************)
EXTENDS Integers, Sequences, FiniteSets

CONSTANTS
  Matches,      \* match ids, integers: the escrow lists Active ids in order
  Late,         \* the matches that become Active only while the service runs
  Lichess,      \* the matches played on Lichess; the others on Chess.com
  BadIds,       \* the matches whose game id fails validate_game_id
  MaxRetries,   \* max_retries of the configuration
  PageSize,     \* PAGE_SIZE of reconcile (50 in the code)
  MaxFaults,    \* bound: crashes, read errors, 429s and matches closed elsewhere
  MaxReplays    \* bound: runs of oracle-replay

VARIABLES
  chain,     \* match -> its state at the escrow: "None", "Active", "Settled", "Closed"
  inflight,  \* matches with a submit_result transaction sent and not yet decided
  queue,     \* pending.json: partial function match -> attempts
  dead,      \* dead_letter.json: set of matches
  cursor,    \* reconciliation_cursor.json: 0 when the file is absent
  log,       \* submissions.json: matches with a submission record
  cache,     \* result_cache: matches whose result is cached (in memory)
  paused,    \* backoff_until: platforms being left alone (in memory)
  io,        \* task -> the file operation it is in the middle of
  tick,      \* the polling task
  rec,       \* the reconciliation task
  replay,    \* the oracle-replay process: matches still to re-enqueue
  faults, replays  \* bounds: faults and replays so far

disk == <<queue, dead, cursor, log>>
network == <<chain, inflight>>
bounds == <<faults, replays>>
vars == <<chain, inflight, queue, dead, cursor, log, cache, paused,
          io, tick, rec, replay, faults, replays>>

-----------------------------------------------------------------------------
(* Matches, platforms, file operations.                                    *)

Platform(m) == IF m \in Lichess THEN "lichess" ELSE "chess.com"

ActiveOf(c) == {m \in Matches : c[m] = "Active"}

(* get_active_matches_paginated: the Active ids in order, from offset.     *)
ActivePage(offset) ==
  LET ids == ActiveOf(chain)
      all == CHOOSE s \in [1..Cardinality(ids) -> ids] :
               \A i, j \in DOMAIN s : i < j => s[i] < s[j]
  IN  SubSeq(all, offset + 1, IF offset + PageSize > Len(all) THEN Len(all) ELSE offset + PageSize)

NoIO == [kind |-> "none"]
QueueOp(k, m, a) == [kind |-> k, m |-> m, a |-> a, loaded |-> FALSE]
DeadOp(k, m, a) == [kind |-> k, m |-> m, a |-> a, loaded |-> FALSE]
OnDead(op) == op.kind \in {"push", "take"}

(* The polling task between two ticks: nothing due, nothing current.       *)
NoTick == [pc |-> "sleep", due |-> <<>>, prep |-> {}, pend |-> {},
           ans |-> <<>>, single |-> {}, cur |-> 0]
NoRec == [pc |-> "idle", skip |-> {}, offset |-> 0, page |-> <<>>, len |-> 0]

Without(f, m) == [k \in DOMAIN f \ {m} |-> f[k]]
With(f, m, a) == [k \in DOMAIN f \union {m} |-> IF k = m THEN a ELSE f[k]]

(* What the operation makes of the copy of the file it loaded.             *)
Edited(op) ==
  CASE op.kind = "enqueue" -> With(op.copy, op.m, 0)
    [] op.kind = "update"  -> With(op.copy, op.m, op.a)
    [] op.kind = "remove"  -> Without(op.copy, op.m)
    [] op.kind = "push"    -> op.copy \union {op.m}
    [] op.kind = "take"    -> op.copy \ {op.m}

Idle(p) == io[p] = NoIO

(* load: read the file.  enqueue and push stop here when the match is      *)
(* already there, update_entry when it is not; the replay tool leaves the  *)
(* dead letter of a match already queued alone.                            *)
Load(p) ==
  /\ ~Idle(p) /\ ~io[p].loaded
  /\ LET op == io[p]
         file == IF OnDead(op) THEN dead ELSE queue
         moot == \/ op.kind = "enqueue" /\ op.m \in DOMAIN queue
                 \/ op.kind = "update" /\ op.m \notin DOMAIN queue
                 \/ op.kind = "push" /\ op.m \in dead
     IN /\ io' = [io EXCEPT ![p] = IF moot THEN NoIO
                                  ELSE [kind |-> op.kind, m |-> op.m, a |-> op.a,
                                        loaded |-> TRUE, copy |-> file]]
        /\ replay' = IF moot /\ p = "replay" THEN [replay EXCEPT !.took = FALSE] ELSE replay
  /\ UNCHANGED <<network, disk, cache, paused, tick, rec, bounds>>

(* save: write the edited copy over the file, whatever happened to it      *)
(* since the load.                                                         *)
Save(p) ==
  /\ ~Idle(p) /\ io[p].loaded
  /\ LET op == io[p]
     IN IF OnDead(op)
        THEN dead' = Edited(op) /\ UNCHANGED queue
        ELSE queue' = Edited(op) /\ UNCHANGED dead
  /\ io' = [io EXCEPT ![p] = NoIO]
  /\ UNCHANGED <<network, cursor, log, cache, paused, tick, rec, replay, bounds>>

-----------------------------------------------------------------------------
(* The world: the escrow, the games and the transactions.                  *)

Activate(m) ==
  /\ chain[m] = "None"
  /\ chain' = [chain EXCEPT ![m] = "Active"]
  /\ UNCHANGED <<inflight, disk, cache, paused, io, tick, rec, replay, bounds>>

(* The escrow runs a transaction: it settles the match if it is Active.    *)
Land(m) ==
  /\ m \in inflight
  /\ inflight' = inflight \ {m}
  /\ chain' = [chain EXCEPT ![m] = IF @ = "Active" THEN "Settled" ELSE @]
  /\ UNCHANGED <<disk, cache, paused, io, tick, rec, replay, bounds>>

(* The network drops the transaction.                                      *)
Drop(m) ==
  /\ m \in inflight
  /\ inflight' = inflight \ {m}
  /\ UNCHANGED <<chain, disk, cache, paused, io, tick, rec, replay, bounds>>

(* The match leaves Active without the service (expired, cancelled...).    *)
CloseElsewhere(m) ==
  /\ chain[m] = "Active" /\ faults < MaxFaults
  /\ chain' = [chain EXCEPT ![m] = "Closed"]
  /\ faults' = faults + 1
  /\ UNCHANGED <<inflight, disk, cache, paused, io, tick, rec, replay, replays>>

BackoffEnds(p) ==
  /\ p \in paused
  /\ paused' = paused \ {p}
  /\ UNCHANGED <<network, disk, cache, io, tick, rec, replay, bounds>>

-----------------------------------------------------------------------------
(* The polling task.                                                       *)

tickOnly == <<network, disk, rec, replay, bounds>>

(* tick: take the due entries, Lichess ones for the batch endpoint, the    *)
(* others one by one.  The whole Lichess group is skipped while Lichess is *)
(* backing off.  A failed entry may not be due yet.                        *)
TickStart(D) ==
  /\ Idle("tick") /\ tick.pc = "sleep"
  /\ D # {} /\ D \subseteq DOMAIN queue
  /\ {m \in DOMAIN queue : queue[m] = 0} \subseteq D
  /\ tick' = [NoTick EXCEPT !.pc = "work",
                            !.due = [m \in D |-> queue[m]],
                            !.prep = IF "lichess" \in paused THEN {} ELSE D \cap Lichess,
                            !.single = D \ Lichess]
  /\ UNCHANGED <<tickOnly, cache, paused, io>>

Working == Idle("tick") /\ tick.pc = "work"

(* The answers of a platform for a game.  GameNotFinished is classified as *)
(* transient (the classifier is pinned by a unit test at the end of        *)
(* poller.rs).                                                             *)
Answers == {"winner", "unfinished", "transient", "permanent"}

(* exhaust_entry: push on the dead-letter store (attempts 0 when the error *)
(* was permanent), then remove from the                                    *)
(* queue (RemoveExhausted).  handle_transient: charge the attempt; the     *)
(* entry is exhausted at max_retries, otherwise the queue file is updated. *)
Exhaust(m, t, attempts) ==
  /\ tick' = [t EXCEPT !.pc = "remove", !.cur = m, !.due = Without(@, m)]
  /\ io' = [io EXCEPT !["tick"] = DeadOp("push", m, attempts)]

\* Altered for mutation: the attempt is counted twice.
HandleTransientTwice(m, t) ==
  LET attempts == t.due[m] + 2
  IN IF attempts >= MaxRetries
     THEN Exhaust(m, t, attempts)
     ELSE /\ tick' = [t EXCEPT !.pc = "work", !.cur = 0, !.due = Without(@, m)]
          /\ io' = [io EXCEPT !["tick"] = QueueOp("update", m, attempts)]

HandleTransient(m, t) ==
  LET attempts == t.due[m] + 1
  IN IF attempts >= MaxRetries
     THEN Exhaust(m, t, attempts)
     ELSE /\ tick' = [t EXCEPT !.pc = "work", !.cur = 0, !.due = Without(@, m)]
          /\ io' = [io EXCEPT !["tick"] = QueueOp("update", m, attempts)]

(* handle_fetch_outcome: cache and submit a result, dead-letter a          *)
(* permanent error, retry a transient one.                                 *)
HandleFetchOutcome(m, answer, t) ==
  \/ /\ answer = "winner"
     /\ cache' = cache \union {m}
     /\ tick' = [t EXCEPT !.pc = "submit", !.cur = m]
     /\ UNCHANGED io
  \/ /\ answer = "permanent"
     /\ Exhaust(m, t, 0)
     /\ UNCHANGED cache
  \/ /\ answer \in {"transient", "unfinished"}
     /\ HandleTransient(m, t)
     /\ UNCHANGED cache

(* Both process_entry and the first loop of process_lichess_batch: an      *)
(* invalid id is dead-lettered without a request, a cached result is       *)
(* submitted without one.                                                  *)
Rejected(m, t) ==
  /\ m \in BadIds
  /\ Exhaust(m, t, 0)

CacheHit(m, t) ==
  /\ m \notin BadIds /\ m \in cache
  /\ tick' = [t EXCEPT !.pc = "submit", !.cur = m]
  /\ UNCHANGED io

(* The first loop of process_lichess_batch.                                *)
PrepareEntry(m) ==
  /\ Working /\ m \in tick.prep
  /\ LET t == [tick EXCEPT !.prep = @ \ {m}]
     IN \/ Rejected(m, t)
        \/ CacheHit(m, t)
        \/ /\ m \notin BadIds /\ m \notin cache
           /\ tick' = [t EXCEPT !.pend = @ \union {m}]
           /\ UNCHANGED io
  /\ UNCHANGED <<tickOnly, cache, paused>>

BatchReady == Working /\ tick.prep = {} /\ tick.pend # {}

(* The batch request answered: one answer per game, or one failure for all *)
(* of them.                                                                *)
BatchAnswered ==
  /\ BatchReady
  /\ \E ans \in [tick.pend -> Answers] : tick' = [tick EXCEPT !.pend = {}, !.ans = ans]
  /\ UNCHANGED <<tickOnly, cache, paused, io>>

(* 429: the platform is left alone, the entries are not charged.           *)
BatchRateLimited ==
  /\ BatchReady /\ faults < MaxFaults
  /\ tick' = [tick EXCEPT !.pend = {}]
  /\ paused' = paused \union {"lichess"}
  /\ faults' = faults + 1
  /\ UNCHANGED <<network, disk, rec, replay, replays, cache, io>>

(* 404 or 405: the entries fall back to one request each.                  *)
BatchUnavailable ==
  /\ BatchReady
  /\ tick' = [tick EXCEPT !.pend = {}, !.single = @ \union tick.pend]
  /\ UNCHANGED <<tickOnly, cache, paused, io>>

(* The loop over the answers of the batch.                                 *)
NextAnswer(m) ==
  /\ Working /\ m \in DOMAIN tick.ans
  /\ HandleFetchOutcome(m, tick.ans[m], [tick EXCEPT !.ans = Without(@, m)])
  /\ UNCHANGED <<tickOnly, paused>>

OneByOne == Working /\ tick.prep = {} /\ tick.pend = {} /\ tick.ans = <<>>

(* The loop of tick over the other entries, and of the Lichess fallback:   *)
(* it stops at a platform that is backing off.                             *)
SkipPlatform(m) ==
  /\ OneByOne /\ m \in tick.single /\ Platform(m) \in paused
  /\ tick' = [tick EXCEPT !.single = {k \in @ : Platform(k) # Platform(m)}]
  /\ UNCHANGED <<tickOnly, cache, paused, io>>

ProcessEntry(m) ==
  /\ OneByOne /\ m \in tick.single /\ Platform(m) \notin paused
  /\ LET t == [tick EXCEPT !.single = @ \ {m}]
     IN \/ Rejected(m, t) /\ UNCHANGED cache
        \/ CacheHit(m, t) /\ UNCHANGED cache
        \/ /\ m \notin BadIds /\ m \notin cache
           /\ \E answer \in Answers : HandleFetchOutcome(m, answer, t)
  /\ UNCHANGED <<tickOnly, paused>>

EntryRateLimited(m) ==
  /\ OneByOne /\ m \in tick.single \ (BadIds \union cache)
  /\ Platform(m) \notin paused /\ faults < MaxFaults
  /\ tick' = [tick EXCEPT !.single = @ \ {m}]
  /\ paused' = paused \union {Platform(m)}
  /\ faults' = faults + 1
  /\ UNCHANGED <<network, disk, rec, replay, replays, cache, io>>

TickEnd ==
  /\ OneByOne /\ tick.single = {}
  /\ tick' = NoTick
  /\ UNCHANGED <<tickOnly, cache, paused, io>>

-----------------------------------------------------------------------------
(* Submission: SorobanClient::submit_result, then the bookkeeping.         *)

Submitting(pc) == Idle("tick") /\ tick.pc = pc

(* Any error of the sequence lookup, the simulation, the fee check, the    *)
(* signature or the send.  The simulation of a match that is not Active    *)
(* fails.  Every error is handled as transient.                            *)
SubmitRefused ==
  /\ Submitting("submit")
  /\ HandleTransient(tick.cur, tick)
  /\ UNCHANGED <<tickOnly, cache, paused>>

SendTransaction ==
  /\ Submitting("submit") /\ chain[tick.cur] = "Active"
  /\ inflight' = inflight \union {tick.cur}
  /\ tick' = [tick EXCEPT !.pc = "wait"]
  /\ UNCHANGED <<chain, disk, rec, replay, bounds, cache, paused, io>>

\* Altered for mutation: a sent transaction is taken for a confirmed one.
ConfirmedOnSend ==
  /\ Submitting("wait")
  /\ io' = [io EXCEPT !["tick"] = QueueOp("remove", tick.cur, 0)]
  /\ tick' = [tick EXCEPT !.pc = "log"]
  /\ UNCHANGED <<tickOnly, cache, paused>>

(* await_confirmation: SUCCESS.  The entry is removed from the queue, then *)
(* the submission record is appended.                                      *)
Confirmed ==
  /\ Submitting("wait")
  /\ tick.cur \notin inflight /\ chain[tick.cur] = "Settled"
  /\ io' = [io EXCEPT !["tick"] = QueueOp("remove", tick.cur, 0)]
  /\ tick' = [tick EXCEPT !.pc = "log"]
  /\ UNCHANGED <<tickOnly, cache, paused>>

(* FAILED, an RPC error while polling, or 30 polls without a verdict: the  *)
(* transaction may still be in flight.                                     *)
GiveUp ==
  /\ Submitting("wait")
  /\ ~(tick.cur \notin inflight /\ chain[tick.cur] = "Settled")
  /\ HandleTransient(tick.cur, tick)
  /\ UNCHANGED <<tickOnly, cache, paused>>

AppendRecord ==
  /\ Submitting("log")
  /\ log' = log \union {tick.cur}
  /\ tick' = [tick EXCEPT !.pc = "work", !.cur = 0, !.due = Without(@, tick.cur)]
  /\ UNCHANGED <<network, queue, dead, cursor, rec, replay, bounds, cache, paused, io>>

(* The second half of exhaust_entry.                                       *)
RemoveExhausted ==
  /\ Submitting("remove")
  /\ io' = [io EXCEPT !["tick"] = QueueOp("remove", tick.cur, 0)]
  /\ tick' = [tick EXCEPT !.pc = "work", !.cur = 0]
  /\ UNCHANGED <<tickOnly, cache, paused>>

-----------------------------------------------------------------------------
(* Reconciliation.                                                         *)

recOnly == <<network, queue, dead, log, cache, paused, tick, replay, bounds>>
Reconciling(pc) == Idle("rec") /\ rec.pc = pc

(* The dead-lettered ids are read once per pass, the offset comes from the *)
(* cursor file.                                                            *)
ReconcileStart ==
  /\ Reconciling("idle")
  /\ rec' = [NoRec EXCEPT !.pc = "page", !.skip = dead, !.offset = cursor]
  /\ UNCHANGED <<recOnly, cursor, io>>

ReadPage ==
  /\ Reconciling("page")
  /\ LET page == ActivePage(rec.offset)
     IN /\ rec' = [rec EXCEPT !.pc = IF page = <<>> THEN "clear" ELSE "match",
                              !.page = page, !.len = Len(page)]
  /\ UNCHANGED <<recOnly, cursor, io>>

(* The page cannot be read: the pass ends, the cursor file stays.          *)
PageError ==
  /\ Reconciling("page") /\ faults < MaxFaults
  /\ rec' = NoRec
  /\ faults' = faults + 1
  /\ UNCHANGED <<network, disk, cache, paused, io, tick, replay, replays>>

(* One match of the page: skipped when dead-lettered, enqueued otherwise.  *)
(* The service itself never writes the oracle contract, so has_result      *)
(* answers FALSE.                                                          *)
NextMatch ==
  /\ Reconciling("match") /\ rec.page # <<>>
  /\ rec' = [rec EXCEPT !.page = Tail(@)]
  /\ io' = IF Head(rec.page) \in rec.skip THEN io
           ELSE [io EXCEPT !["rec"] = QueueOp("enqueue", Head(rec.page), 0)]
  /\ UNCHANGED <<recOnly, cursor>>

(* has_result fails: the match is left for the next pass.                  *)
HasResultError ==
  /\ Reconciling("match") /\ rec.page # <<>> /\ faults < MaxFaults
  /\ rec' = [rec EXCEPT !.page = Tail(@)]
  /\ faults' = faults + 1
  /\ UNCHANGED <<network, disk, cache, paused, io, tick, replay, replays>>

(* End of the page: the offset grows by its length and is saved; a short   *)
(* page is the last one.                                                   *)
NextOffset ==
  /\ Reconciling("match") /\ rec.page = <<>>
  /\ cursor' = rec.offset + rec.len
  /\ rec' = [rec EXCEPT !.offset = @ + rec.len,
                        !.pc = IF rec.len < PageSize THEN "clear" ELSE "page"]
  /\ UNCHANGED <<recOnly, io>>

\* Altered for mutation: the cursor file stays at the end of a pass.
ReconcileEndKeepsCursor ==
  /\ Reconciling("clear")
  /\ UNCHANGED cursor
  /\ rec' = NoRec
  /\ UNCHANGED <<recOnly, io>>

ReconcileEnd ==
  /\ Reconciling("clear")
  /\ cursor' = 0
  /\ rec' = NoRec
  /\ UNCHANGED <<recOnly, io>>

-----------------------------------------------------------------------------
(* oracle-replay, crashes, and the specification.                          *)

(* --all or --match-id, less what --max-retries skips: the entries come    *)
(* from one load of the store.                                             *)
ReplayStart(R) ==
  /\ replay.left = {} /\ replay.cur = 0 /\ Idle("replay") /\ replays < MaxReplays
  /\ R # {} /\ R \subseteq dead
  /\ replay' = [replay EXCEPT !.left = R]
  /\ replays' = replays + 1
  /\ UNCHANGED <<network, disk, cache, paused, io, tick, rec, faults>>

ReplayEnqueue(m) ==
  /\ replay.cur = 0 /\ Idle("replay") /\ m \in replay.left
  /\ replay' = [left |-> replay.left \ {m}, cur |-> m, took |-> TRUE]
  /\ io' = [io EXCEPT !["replay"] = QueueOp("enqueue", m, 0)]
  /\ UNCHANGED <<network, disk, cache, paused, tick, rec, bounds>>

(* enqueue answered: the dead letter is removed only if it was added.      *)
ReplayDrop ==
  /\ replay.cur # 0 /\ Idle("replay")
  /\ replay' = [replay EXCEPT !.cur = 0, !.took = FALSE]
  /\ io' = IF replay.took THEN [io EXCEPT !["replay"] = DeadOp("take", replay.cur, 0)] ELSE io
  /\ UNCHANGED <<network, disk, cache, paused, tick, rec, bounds>>

(* The process dies and restarts: both tasks begin anew, what was in       *)
(* memory is gone, the files and the chain are as they were.               *)
Crash ==
  /\ faults < MaxFaults
  /\ faults' = faults + 1
  /\ tick' = NoTick /\ rec' = NoRec
  /\ io' = [io EXCEPT !["tick"] = NoIO, !["rec"] = NoIO]
  /\ cache' = {} /\ paused' = {}
  /\ UNCHANGED <<network, disk, replay, replays>>

Init ==
  /\ chain = [m \in Matches |-> IF m \in Late THEN "None" ELSE "Active"] /\ inflight = {}
  /\ queue = <<>> /\ dead = {} /\ cursor = 0 /\ log = {}
  /\ cache = {} /\ paused = {}
  /\ io = [p \in {"tick", "rec", "replay"} |-> NoIO]
  /\ tick = NoTick /\ rec = NoRec
  /\ replay = [left |-> {}, cur |-> 0, took |-> FALSE]
  /\ faults = 0 /\ replays = 0

TickStep ==
  \/ \E D \in SUBSET Matches : TickStart(D)
  \/ \E m \in Matches : PrepareEntry(m) \/ NextAnswer(m) \/ SkipPlatform(m) \/ ProcessEntry(m)
  \/ BatchAnswered \/ BatchUnavailable \/ TickEnd
  \/ SubmitRefused \/ SendTransaction \/ Confirmed \/ GiveUp \/ AppendRecord \/ RemoveExhausted
  \/ Load("tick") \/ Save("tick")

RecStep ==
  \/ ReconcileStart \/ ReadPage \/ NextMatch \/ NextOffset \/ ReconcileEnd
  \/ Load("rec") \/ Save("rec")

ReplayStep ==
  \/ \E m \in Matches : ReplayEnqueue(m)
  \/ ReplayDrop
  \/ Load("replay") \/ Save("replay")

WorldStep ==
  \E m \in Matches : Activate(m) \/ Land(m) \/ Drop(m)

Fault ==
  \/ \E m \in Matches : CloseElsewhere(m) \/ EntryRateLimited(m)
  \/ BatchRateLimited \/ PageError \/ HasResultError \/ Crash

Next ==
  \/ TickStep \/ RecStep \/ ReplayStep \/ WorldStep \/ Fault
  \/ \E p \in {"lichess", "chess.com"} : BackoffEnds(p)
  \/ \E R \in SUBSET Matches : ReplayStart(R)

Spec == Init /\ [][Next]_vars

(* Both loops of the service run forever, a replay that was started ends,  *)
(* a backoff elapses, and the delay of an entry ends: an entry that stays  *)
(* queued is due at some later tick.                                       *)
Fairness ==
  /\ WF_vars(TickStep) /\ WF_vars(RecStep) /\ WF_vars(ReplayStep)
  /\ \A p \in {"lichess", "chess.com"} : WF_vars(BackoffEnds(p))
  /\ \A m \in Matches : SF_vars(\E D \in SUBSET Matches : m \in D /\ TickStart(D))

FairSpec == Spec /\ Fairness

-----------------------------------------------------------------------------
(* Properties.                                                             *)

(* The files, the tasks and the world have the shapes the code gives them. *)
TypeOK ==
  /\ chain \in [Matches -> {"None", "Active", "Settled", "Closed"}]
  /\ inflight \subseteq Matches /\ cache \subseteq Matches
  /\ DOMAIN queue \subseteq Matches /\ \A m \in DOMAIN queue : queue[m] \in 0 .. MaxRetries - 1
  /\ dead \subseteq Matches /\ log \subseteq Matches /\ cursor \in 0 .. Cardinality(Matches)
  /\ paused \subseteq {"lichess", "chess.com"}
  /\ \A p \in DOMAIN io : io[p] = NoIO \/ io[p].m \in Matches
  /\ tick.cur \in Matches \union {0} /\ DOMAIN tick.due \subseteq Matches
  /\ rec.offset \in 0 .. Cardinality(Matches)

(* The polling task takes a match out of the queue only when its business  *)
(* is done: it has left Active, or it is in the dead-letter store, where   *)
(* an operator finds it (submit_and_complete, exhaust_entry).  An operator *)
(* who replays takes it out of the store again, at any moment.             *)
RemovalJustified ==
  [][/\ io["tick"].kind = "remove" /\ io["tick"].loaded /\ io'["tick"] = NoIO
     /\ queue' # queue /\ replays = 0
     => chain[io["tick"].m] # "Active" \/ io["tick"].m \in dead]_vars

(* After the last fault and the last replay, every match that became       *)
(* Active ends up settled, closed or dead-lettered for good, whatever      *)
(* updates the tasks overwrote, and the queue drains: the service retries  *)
(* nothing for ever (reconcile, tick, handle_transient, oracle-replay).    *)
EveryMatchHandled ==
  /\ \A m \in Matches : <>[](chain[m] # "Active" \/ m \in dead)
  /\ <>[](queue = <<>>)
=============================================================================
