------------------------------- MODULE Paging -------------------------------
(***************************************************************************)
(* GET /matches of the event indexer (get_matches in api.rs), walked page  *)
(* by page with a cursor or an offset while matches join the list.  The    *)
(* response cache is the subject of ApiCache; here every page is computed. *)
(***************************************************************************)
EXTENDS Integers, Sequences, FiniteSets

CONSTANTS
    MaxId,   \* match ids are 1 .. MaxId
    Limits   \* values of limit; 0 is no limit, like an absent one

VARIABLES
    listed,   \* ids of the matches with the status asked for
    walk      \* a client's walk

vars == <<listed, walk>>

ConstantsOK == MaxId \in Nat /\ Limits \subseteq Nat

Ids == 1 .. MaxId
NoWalk == [mode |-> "none", limit |-> 0, got |-> <<>>, start |-> {}, calm |-> TRUE]

Init == listed = {} /\ walk = NoWalk

Named(list) == {list[i] : i \in DOMAIN list}

\* The numbers of a finite set in ascending order.
Ascends(list) == \A i, j \in DOMAIN list : i < j => list[i] < list[j]
Ascending(S) == CHOOSE list \in [1..Cardinality(S) -> S] : Named(list) = S /\ Ascends(list)

\* limit.filter(|l| *l > 0) and take.
Take(s, l) == IF l > 0 /\ l < Len(s) THEN SubSeq(s, 1, l) ELSE s

\* The page with after = c, sorted by match_id as all of them.
After(c, l) == Take(Ascending({m \in listed : m > c}), l)

\* The page with before = c.
Before(c, l) == Take(Ascending({m \in listed : m < c}), l)

\* The page with offset = o and no cursor.
AtOffset(o, l) == Take(SubSeq(Ascending(listed), o + 1, Cardinality(listed)), l)

-----------------------------------------------------------------------------
\* A match enters the list of the status: it is new, or has just got there.
Join(m) ==
    /\ m \notin listed
    /\ listed' = listed \union {m}
    /\ walk' = [walk EXCEPT !.calm = FALSE]

Start(mode, l) ==
    /\ walk.mode = "none"
    /\ walk' = [NoWalk EXCEPT !.mode = mode, !.limit = l, !.start = listed]
    /\ UNCHANGED listed

Done(mode) == IF mode = "after" THEN "afterDone" ELSE "offsetDone"

\* The client takes pages until one is empty or there was no limit.
Fetch(mode, page) ==
    /\ walk.mode = mode
    /\ walk' = [walk EXCEPT !.got = @ \o page,
                    !.mode = IF page = <<>> \/ walk.limit = 0 THEN Done(mode) ELSE mode]
    /\ UNCHANGED listed

Cursor == IF walk.got = <<>> THEN 0 ELSE walk.got[Len(walk.got)]

FetchAfter == Fetch("after", After(Cursor, walk.limit))

FetchOffset == Fetch("offset", AtOffset(Len(walk.got), walk.limit))

Restart ==
    /\ walk.mode \in {"afterDone", "offsetDone"}
    /\ walk' = NoWalk
    /\ UNCHANGED listed

Next ==
    \/ \E m \in Ids : Join(m)
    \/ \E mode \in {"after", "offset"}, l \in Limits : Start(mode, l)
    \/ FetchAfter \/ FetchOffset \/ Restart

Spec == Init /\ [][Next]_vars

-----------------------------------------------------------------------------
TypeOK ==
    /\ listed \subseteq Ids
    /\ walk.mode \in {"none", "after", "offset", "afterDone", "offsetDone"}
    /\ walk.limit \in Limits \union {0}
    /\ walk.got \in Seq(Ids) /\ walk.start \subseteq Ids

\* Cursor paging "is stable under concurrent inserts": whatever joins the list
\* during a walk with after, the walk shows every match that was listed at its
\* start, in ascending order and none twice.
CursorStable ==
    walk.mode = "afterDone" =>
        walk.start \subseteq Named(walk.got) /\ Ascends(walk.got)

\* Offset paging shows the whole list in order while nothing joins it.
OffsetExact ==
    walk.mode = "offsetDone" /\ walk.calm => walk.got = Ascending(walk.start)

\* api.rs says of before: "return matches with match_id less than this value
\* (i.e. the page *before* this cursor), ordered ascending".  The page should
\* hold the matches next to the cursor.
BeforeAdjacent ==
    \A c \in Ids, l \in Limits \ {0} :
        LET page == Before(c, l)
            below == {m \in listed : m < c} IN
        \A m \in Named(page), k \in below \ Named(page) : k < m

=============================================================================
