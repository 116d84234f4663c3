----------------------------- MODULE Snapshots -----------------------------
(***************************************************************************)
(* The audit trail of the escrow contract: one ring buffer of balance      *)
(* snapshots per match and one per player, the operations that write to    *)
(* them, and the queries that read them.  The buffers forget; the history  *)
(* variables do not, and the properties compare the two.                   *)
(*                                                                         *)
(* A snapshot keeps what its readers tell apart: index, reason, ledger and *)
(* amounts.  The commitment and its nonce are left out.                    *)
(***************************************************************************)
EXTENDS Integers, FiniteSets, Sequences

CONSTANTS
  RecordedMatches,       \* match ids
  Players,       \* the two players of every match
  Stake,         \* stake of every match
  MatchCap,      \* MAX_SNAPSHOTS_PER_MATCH
  PlayerCap,     \* MAX_PLAYER_SNAPSHOTS
  Subject,       \* the player whose history a reader pages through
  PageLimit,     \* limit of that reader's pages
  MaxNow,        \* bound: last ledger
  MaxRecords     \* bound: snapshots of one match

VARIABLES
  matches,   \* id -> [state, deposited], absent before creation
  balance,   \* PlayerEscrowKey::Balance
  mslots,    \* DataKey::Snapshot(id, slot)
  mcount,    \* DataKey::SnapshotCount(id)
  pslots,    \* DataKey::PlayerBalanceSnapshot(player, slot)
  pcount,    \* DataKey::PlayerBalanceSnapshotCount(player)
  symbol,    \* TokenSymbolCacheKey::TokenSymbol of the token, or ""
  reachable, \* the token contract answers symbol()
  now,       \* ledger sequence
  offset,    \* the reader: start of its next page
  gathered,      \* the reader: indices read so far
  announced, \* history: id -> indices reported by snap_ovr events
  carried,   \* history: a snapshot carried the symbol of the token
  blanked,   \* history: a snapshot was left without a symbol it could have had
  plog       \* history: player -> every snapshot of the player

store == <<matches, balance, mslots, mcount, pslots, pcount, symbol>>
reader == <<offset, gathered>>
history == <<announced, carried, blanked, plog>>
ringVars == <<store, reachable, now, reader, history>>

\* The buffers have a slot at least, and the admin is none of the players.
ASSUME RingsAssumption ==
  /\ MatchCap \in Nat \ {0} /\ PlayerCap \in Nat \ {0}
  /\ Stake \in Nat /\ PageLimit \in Nat /\ MaxNow \in Nat /\ MaxRecords \in Nat
  /\ Subject \in Players /\ "admin" \notin Players

NoMatch == [state |-> "None", deposited |-> {}]
NoSnapshot == [index |-> -1]

RingsInit ==
  /\ matches = [m \in RecordedMatches |-> NoMatch]
  /\ balance = [p \in Players |-> 0]
  /\ mslots = [m \in RecordedMatches |-> [s \in 0..MatchCap - 1 |-> NoSnapshot]]
  /\ mcount = [m \in RecordedMatches |-> 0]
  /\ pslots = [p \in Players |-> [s \in 0..PlayerCap - 1 |-> NoSnapshot]]
  /\ pcount = [p \in Players |-> 0]
  /\ symbol = ""
  /\ reachable = TRUE
  /\ now = 1
  /\ offset = 0
  /\ gathered = <<>>
  /\ announced = [m \in RecordedMatches |-> {}]
  /\ carried = FALSE
  /\ blanked = FALSE
  /\ plog = [p \in Players |-> <<>>]

-----------------------------------------------------------------------------
(* Recording *)

Ended == {"Completed", "Cancelled"}

escrow_balance_of(r) ==
  IF r.state \in Ended THEN 0 ELSE Stake * Cardinality(r.deposited)

\* What a snapshot records as the symbol, and what the cache holds after it.
fetch_token_symbol ==
  LET answer == IF reachable THEN "XLM" ELSE ""
  IN [answer |-> IF symbol # "" THEN symbol ELSE answer,
      cached |-> IF symbol # "" THEN symbol ELSE answer]

\* The snap_ovr event of a snapshot of m: the index of the entry it replaces.
Overwritten(m) ==
  LET old == mslots[m][mcount[m] % MatchCap]
  IN IF mcount[m] < MatchCap THEN {}
     ELSE {IF old = NoSnapshot THEN mcount[m] - MatchCap ELSE old.index}

\* record_snapshot of the match m, whose record is r at that point.
record_snapshot(m, r, why) ==
  LET snapshot == [index |-> mcount[m], reason |-> why, ledger |-> now,
                   symbol |-> fetch_token_symbol.answer, stake |-> Stake,
                   balance |-> escrow_balance_of(r), deposited |-> r.deposited]
  IN /\ mcount[m] < MaxRecords
     /\ mslots' = [mslots EXCEPT ![m][mcount[m] % MatchCap] = snapshot]
     /\ mcount' = [mcount EXCEPT ![m] = @ + 1]
     /\ symbol' = fetch_token_symbol.cached
     /\ announced' = [announced EXCEPT ![m] = @ \cup Overwritten(m)]
     /\ carried' = (carried \/ snapshot.symbol = "XLM")
     /\ blanked' = (blanked \/ (snapshot.symbol # "XLM" /\ (carried \/ reachable)))

\* record_player_snapshot for each of the players ps, whose counters are b.
record_player_snapshot(ps, b) ==
  LET snapshot(p) == [index |-> pcount[p], ledger |-> now, balance |-> b[p]]
  IN /\ pslots' = [p \in Players |-> IF p \notin ps THEN pslots[p] ELSE
                     [pslots[p] EXCEPT ![pcount[p] % PlayerCap] = snapshot(p)]]
     /\ pcount' = [p \in Players |-> pcount[p] + IF p \in ps THEN 1 ELSE 0]
     /\ plog' = [p \in Players |->
                   IF p \in ps THEN Append(plog[p], snapshot(p)) ELSE plog[p]]

\* A step that gives m the record r, the players ps new counters, and records
\* snapshots of both.
Records(m, r, why, ps, delta) ==
  LET b == [p \in Players |-> balance[p] + IF p \in ps THEN delta ELSE 0]
  IN /\ matches' = [matches EXCEPT ![m] = r]
     /\ balance' = b
     /\ record_snapshot(m, r, why)
     /\ record_player_snapshot(ps, b)
     /\ UNCHANGED <<reachable, now, reader>>

-----------------------------------------------------------------------------
(* The operations that record *)

CreateMatch(m) ==
  /\ matches[m] = NoMatch
  /\ Records(m, [state |-> "Pending", deposited |-> {}], "Created", {}, 0)

Deposit(m, p) ==
  LET both == matches[m].deposited \cup {p}
  IN /\ matches[m].state = "Pending"
     /\ p \notin matches[m].deposited
     /\ Records(m, [state |-> IF both = Players THEN "Active" ELSE "Pending",
                    deposited |-> both], "Deposit", {p}, Stake)

PauseMatch(m) ==
  /\ matches[m].state = "Active"
  /\ Records(m, [matches[m] EXCEPT !.state = "Paused"], "Paused", {}, 0)

ResumeMatch(m) ==
  /\ matches[m].state = "Paused"
  /\ Records(m, [matches[m] EXCEPT !.state = "Active"], "Resumed", {}, 0)

\* settle_result without a dispute period.
SettleResult(m) ==
  /\ matches[m].state \in {"Active", "Paused"}
  /\ Records(m, [matches[m] EXCEPT !.state = "Completed"], "Completed",
             Players, -Stake)

\* cancel_match, and expire_match, which records in the same way.
CancelMatch(m) ==
  /\ matches[m].state = "Pending"
  /\ Records(m, [matches[m] EXCEPT !.state = "Cancelled"], "Cancelled",
             matches[m].deposited, -Stake)

\* admin_recover_match and an agreed rollback: the counters stay as they are.
RecoverMatch(m) ==
  /\ matches[m].state = "Active"
  /\ Records(m, [matches[m] EXCEPT !.state = "Cancelled"], "Cancelled",
             matches[m].deposited, 0)

\* The token contract becomes unreachable, or reachable again.
TokenToggles ==
  /\ reachable' = ~reachable
  /\ UNCHANGED <<store, now, reader, history>>

Tick ==
  /\ now < MaxNow
  /\ now' = now + 1
  /\ UNCHANGED <<store, reachable, reader, history>>

-----------------------------------------------------------------------------
(* The queries *)

\* What a loop over cells pushes when it takes those at the places ps, in order.
Taken(cells, ps) ==
  [n \in 1..Cardinality(ps) |->
     cells[CHOOSE i \in ps : Cardinality({j \in ps : j <= i}) = n]]

\* Altered for mutation: the window starts at the first free slot.
RetainedFromSlot(slots, count, cap) ==
  LET available == IF count < cap THEN count ELSE cap
      start == IF count < cap THEN 0 ELSE count - cap - 1
      cells == [i \in 1..available |-> slots[(start + i - 1) % cap]]
  IN Taken(cells, {i \in 1..available : cells[i] # NoSnapshot})

\* The loop get_balance_snapshots runs over a buffer: slot by slot from the
\* oldest index that can still be there.
Retained(slots, count, cap) ==
  LET available == IF count < cap THEN count ELSE cap
      start == count - available
      cells == [i \in 1..available |-> slots[(start + i - 1) % cap]]
  IN Taken(cells, {i \in 1..available : cells[i] # NoSnapshot})

redact_snapshot(s) ==
  [s EXCEPT !.stake = 0, !.balance = 0, !.deposited = {}]

\* authorize_snapshot_query: how much of a snapshot the caller is shown.
authorize_snapshot_query(caller) ==
  CASE caller = "admin" -> "full"
    [] caller \in Players -> "redacted"
    [] OTHER -> "Unauthorized"

Shown(caller, s) ==
  IF authorize_snapshot_query(caller) = "full" THEN s ELSE redact_snapshot(s)

get_balance_snapshots(caller, m) ==
  IF authorize_snapshot_query(caller) = "Unauthorized" THEN <<>>
  ELSE LET found == Retained(mslots[m], mcount[m], MatchCap)
       IN [i \in DOMAIN found |-> Shown(caller, found[i])]

get_latest_snapshot(caller, m) ==
  IF mcount[m] = 0 \/ authorize_snapshot_query(caller) = "Unauthorized"
  THEN NoSnapshot
  ELSE Shown(caller, mslots[m][(mcount[m] - 1) % MatchCap])

\* get_balance_at_timestamp: the newest retained entry at or before ts.
get_balance_at_timestamp(p, ts) ==
  LET start == IF pcount[p] > PlayerCap THEN pcount[p] - PlayerCap ELSE 0
      good == {i \in start..pcount[p] - 1 :
                 LET s == pslots[p][i % PlayerCap]
                 IN s.index = i /\ s.ledger <= ts}
  IN IF good # {}
     THEN <<"Known", pslots[p][(CHOOSE i \in good : \A j \in good : j <= i) % PlayerCap].balance>>
     ELSE IF start > 0 THEN <<"Pruned">> ELSE <<"NoHistory">>

\* get_balance_snaps_paginated: the indices on a page.
get_balance_snaps_paginated(p, start, limit) ==
  LET available == IF pcount[p] < PlayerCap THEN pcount[p] ELSE PlayerCap
      first == pcount[p] - available + start
      end == IF first + limit < pcount[p] THEN first + limit ELSE pcount[p]
      length == IF end > first THEN end - first ELSE 0
      there == {i \in 1..length :
                  pslots[p][(first + i - 1) % PlayerCap].index = first + i - 1}
  IN IF pcount[p] = 0 \/ limit = 0 THEN <<>>
     ELSE Taken([i \in 1..length |-> first + i - 1], there)

\* A reader asks for its next page while the contract goes on.
ReadNextPage ==
  LET page == get_balance_snaps_paginated(Subject, offset, PageLimit)
  IN /\ page # <<>>
     /\ gathered' = gathered \o page
     /\ offset' = offset + Len(page)
     /\ UNCHANGED <<store, reachable, now, history>>

-----------------------------------------------------------------------------

RingsNext ==
  \/ \E m \in RecordedMatches :
       \/ CreateMatch(m)
       \/ PauseMatch(m)
       \/ ResumeMatch(m)
       \/ SettleResult(m)
       \/ CancelMatch(m)
       \/ RecoverMatch(m)
       \/ \E p \in Players : Deposit(m, p)
  \/ TokenToggles
  \/ Tick
  \/ ReadNextPage

RingsSpec == RingsInit /\ [][RingsNext]_ringVars

-----------------------------------------------------------------------------
(* Properties *)

MatchLog == INSTANCE SnapshotLog WITH
  Owners <- RecordedMatches, Cap <- MatchCap, total <- mcount,
  window <- [m \in RecordedMatches |-> Retained(mslots[m], mcount[m], MatchCap)]

PlayerLog == INSTANCE SnapshotLog WITH
  Owners <- Players, Cap <- PlayerCap, total <- pcount,
  window <- [p \in Players |-> Retained(pslots[p], pcount[p], PlayerCap)]

\* What get_balance_snapshots reads out of the slots of a match is the newest
\* MatchCap entries of an append-only log, in order, without a gap and without
\* a stale slot (record_snapshot and get_balance_snapshots).
MatchRingIsALog == MatchLog!Spec

\* The same for the buffer of a player, although one settlement records for
\* two players and refunds record for those who deposited only
\* (record_player_snapshot).
PlayerRingIsALog == PlayerLog!Spec

\* Every snapshot of a match is either still returned by
\* get_balance_snapshots or was reported by exactly its snap_ovr event; none
\* is lost silently and none is reported that can still be read.
LossIsAnnounced ==
  \A m \in RecordedMatches :
    LET shown == get_balance_snapshots("admin", m)
    IN announced[m] = (0..mcount[m] - 1) \ {shown[i].index : i \in DOMAIN shown}

\* The latest snapshot of a match shows what the contract holds for it now:
\* every operation that changes the deposits or the state records after the
\* change, and get_latest_snapshot finds that record wherever the buffer has
\* wrapped to.  A player is shown the same entry without its amounts.
LatestIsCurrent ==
  \A m \in RecordedMatches : matches[m] # NoMatch =>
    LET full == get_latest_snapshot("admin", m)
    IN /\ full # NoSnapshot
       /\ full.balance = escrow_balance_of(matches[m])
       /\ full.deposited = matches[m].deposited
       /\ \A p \in Players : get_latest_snapshot(p, m) = redact_snapshot(full)

\* Entries of the whole history of p at or before the ledger ts.
Before(p, ts) == {i \in DOMAIN plog[p] : plog[p][i].ledger <= ts}

\* What get_balance_at_timestamp answers is true of the whole history, also
\* of the part the buffer has forgotten: a known balance is the last one
\* recorded by then, NoHistory means that there never was one, and Pruned is
\* said only when an entry has been overwritten.
AnswersAreTrue ==
  \A p \in Players, ts \in 0..MaxNow :
    LET answer == get_balance_at_timestamp(p, ts)
        last == CHOOSE i \in Before(p, ts) : \A j \in Before(p, ts) : j <= i
    IN CASE answer[1] = "Known" ->
              Before(p, ts) # {} /\ answer[2] = plog[p][last].balance
         [] answer[1] = "NoHistory" -> Before(p, ts) = {}
         [] OTHER -> /\ Len(plog[p]) > PlayerCap
                     /\ \A i \in Before(p, ts) : i <= Len(plog[p]) - PlayerCap

\* A reader that pages through a history while snapshots are being recorded
\* reads every index at most once and in order; as long as the buffer has not
\* wrapped it also misses none (get_balance_snaps_paginated).
PagesInOrder ==
  /\ \A i, j \in DOMAIN gathered : i < j => gathered[i] < gathered[j]
  /\ pcount[Subject] <= PlayerCap => \A i \in DOMAIN gathered : gathered[i] = i - 1

\* A snapshot carries the symbol of the token when the token contract answers
\* and also, once any snapshot has carried it, when it does not
\* (fetch_token_symbol).
SymbolKept == ~blanked

\* Snapshots: the rings of a match and of a player implement SnapshotLog, no
\* snapshot is lost without its snap_ovr event, the latest one shows what the
\* contract holds for the match now, get_balance_at_timestamp is true of the
\* whole history, a reader of pages meets every index once and in order, and the
\* symbol of the token survives an outage of its contract.
SnapshotsTrue ==
  /\ MatchRingIsALog /\ PlayerRingIsALog
  /\ [](LossIsAnnounced /\ LatestIsCurrent /\ AnswersAreTrue /\ PagesInOrder /\ SymbolKept)

=============================================================================
