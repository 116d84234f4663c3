----------------------------- MODULE EventCache -----------------------------
(***************************************************************************)
(* The event indexer's in-process cache of events (EventCache of           *)
(* services/event-indexer/src/cache.rs): an ordered map from event ids,    *)
(* the least recently inserted first, and an index of ids by match.  An    *)
(* entry older than the TTL is not served but stays in the map.            *)
(***************************************************************************)
EXTENDS Integers, Sequences

CONSTANTS
    Ids,         \* event ids
    Matches,     \* match ids
    MaxSize,     \* max_size
    Ttl,         \* ttl_secs
    MaxIndexed   \* bound on the length of an index list

VARIABLES
    matchOf,    \* the match each event belongs to
    stored,     \* ids of the rows of the events table
    ingesting,  \* the event the poller has stored and not cached yet
    order,      \* keys of the ordered map, front first
    age,        \* seconds since each id was last inserted, up to the TTL
    index       \* match_index

vars == <<matchOf, stored, ingesting, order, age, index>>
log == <<matchOf, stored>>

\* with_ttl: max_size must be positive.
ConstantsOK == MaxSize \in Nat \ {0} /\ Ttl \in Nat /\ MaxIndexed \in Nat

Init ==
    /\ matchOf \in [Ids -> Matches]
    /\ stored = {}
    /\ ingesting = {}
    /\ order = <<>>
    /\ age = [e \in Ids |-> Ttl]
    /\ index = [m \in Matches |-> <<>>]

\* What a list of ids names, and that it names nothing twice.
Named(list) == {list[i] : i \in DOMAIN list}
NamesOnce(list) == \A i, j \in DOMAIN list : i # j => list[i] # list[j]

Cached == Named(order)

\* The list without the entries equal to e: retain, and shift_remove of the map.
Without(list, e) ==
    LET Kept[i \in 0..Len(list)] ==
            IF i = 0 THEN << >>
            ELSE IF list[i] = e THEN Kept[i - 1] ELSE Append(Kept[i - 1], list[i])
    IN  Kept[Len(list)]

\* remove_from_match_index: the id leaves every list.
Unindexed(e) == [m \in Matches |-> Without(index[m], e)]

Indexed(ix, e) == [ix EXCEPT ![matchOf[e]] = Append(@, e)]

-----------------------------------------------------------------------------
\* poll_events: insert_event, a no-op for an id the table already holds.
Store(e) ==
    /\ ingesting = {}
    /\ stored' = stored \union {e}
    /\ ingesting' = {e}
    /\ UNCHANGED <<matchOf, order, age, index>>

\* The map when an id it holds is inserted again: moved to the back.
Refreshed(e) == Append(Without(order, e), e)

\* insert of an id that is present: its index list is not touched first.
Refresh(e) ==
    /\ ingesting = {e} /\ e \in Cached
    /\ Len(index[matchOf[e]]) < MaxIndexed
    /\ order' = Refreshed(e)
    /\ index' = Indexed(index, e)
    /\ age' = [age EXCEPT ![e] = 0]
    /\ ingesting' = {}
    /\ UNCHANGED log

Full == Len(order) >= MaxSize

\* Altered for mutation: an evicted id stays in the index.
IndexAfterEvictionStale == index

IndexAfterEviction == Unindexed(Head(order))

\* insert of a new id; the front of a full map is evicted first.
Insert(e) ==
    /\ ingesting = {e} /\ e \notin Cached
    /\ Len(index[matchOf[e]]) < MaxIndexed
    /\ order' = Append(IF Full THEN Tail(order) ELSE order, e)
    /\ index' = Indexed(IF Full THEN IndexAfterEviction ELSE index, e)
    /\ age' = [age EXCEPT ![e] = 0]
    /\ ingesting' = {}
    /\ UNCHANGED log

\* remove: offered by the cache, called by no other module.
Drop(e) ==
    /\ e \in Cached
    /\ order' = Without(order, e)
    /\ index' = Unindexed(e)
    /\ UNCHANGED <<log, ingesting, age>>

\* clear, on the loss of leadership; or the process starts again, and the event
\* it was ingesting is polled again.
Clear ==
    /\ order' = <<>>
    /\ index' = [m \in Matches |-> <<>>]
    /\ UNCHANGED <<log, ingesting, age>>

Second ==
    /\ age' = [e \in Ids |-> IF age[e] < Ttl THEN age[e] + 1 ELSE Ttl]
    /\ UNCHANGED <<log, ingesting, order, index>>

Next ==
    \/ \E e \in Ids : Store(e) \/ Insert(e) \/ Refresh(e) \/ Drop(e)
    \/ Clear \/ Second

Spec == Init /\ [][Next]_vars

-----------------------------------------------------------------------------
\* get: an entry past the TTL is a miss.
Served(e) == e \in Cached /\ age[e] < Ttl

\* get_by_match: the ids of the answer, in the order of the index.
GetByMatch(m) == {e \in Named(index[m]) : Served(e)}

\* get_events_by_match_paginated, a page being larger than a match's events.
StoredOf(m) == {e \in stored : matchOf[e] = m}

\* get_match_events without paging parameters: the events of the answer.
Answer(m) ==
    IF GetByMatch(m) # {} THEN GetByMatch(m) ELSE StoredOf(m)

TypeOK ==
    /\ matchOf \in [Ids -> Matches]
    /\ stored \subseteq Ids
    /\ ingesting \subseteq Ids
    /\ order \in Seq(Ids) /\ Len(order) <= MaxSize /\ NamesOnce(order)
    /\ age \in [Ids -> 0 .. Ttl]
    /\ index \in [Matches -> Seq(Ids)]

\* The index and the map name the same events: get_by_match misses no event
\* that is cached and lists none that was evicted, removed or cleared.
IndexMatchesMap ==
    \A m \in Matches : Named(index[m]) = {e \in Cached : matchOf[e] = m}

\* "We maintain a strict LRU order": the map is in the order of the insertions,
\* so that the entry evicted is the oldest.
StrictOrder ==
    \A i, j \in DOMAIN order : i < j => age[order[i]] >= age[order[j]]

\* GET /events/:match_id answers with events of the match that are in the
\* events table, and answers 404 only for a match with none there, whatever
\* was evicted, expired or cleared.
AnswersFromLog ==
    \A m \in Matches :
        /\ Answer(m) \subseteq StoredOf(m)
        /\ Answer(m) = {} => StoredOf(m) = {}

\* cache.rs: "match_id -> ordered list of event IDs in this cache"; "Return all
\* cached events for a match in insertion order".  No event should be served
\* twice in one answer.
ServedOnce ==
    \A m \in Matches, i, j \in Nat :
        /\ {i, j} \subseteq DOMAIN index[m] /\ index[m][i] = index[m][j]
        /\ Served(index[m][i])
        => i = j

\* EVENT_INDEXER_API.md says of GET /events/{match_id} "not cached": its answer
\* should be the events of the match, but for one being ingested right now.
AnswersComplete ==
    \A m \in Matches : StoredOf(m) \ ingesting \subseteq Answer(m)

=============================================================================
