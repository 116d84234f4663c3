---------------------------- MODULE EventPoller ----------------------------
(***************************************************************************)
(* The poller of the WebSocket server (websocket-server/src/               *)
(* eventPoller.ts): it reads the indexer's GET /events page by page, sorts *)
(* what it got and hands every event above its watermark to onEvent.  Each *)
(* page is an await, so the indexer inserts between two pages of a poll.   *)
(*                                                                         *)
(* The indexer orders the rows by ledger only, newest first: two rows of   *)
(* one ledger may change places between two pages.  Its event_index counts *)
(* the events of one getEvents page, so that two rows of a ledger may have *)
(* the same position.  A reorg marks rows and never deletes them.          *)
(***************************************************************************)
EXTENDS Naturals, FiniteSets, SequencesExt

CONSTANTS
    Events,      \* rows the indexer may insert: [id, ledger, index]
    PageSize,    \* PAGE_SIZE
    MaxFaults    \* bound: requests that fail although the page has rows

VARIABLES
    rows,        \* external: the indexer's events table
    mark,        \* highWatermark; index is one more than the code's, -1 being 0
    poll,        \* the call under way: its phase, offset and allEvents so far
    running,
    emitted,     \* history: the events given to onEvent
    inOrder,     \* history: rows newer than every row when they were inserted
    grew,        \* history: a row was inserted since the call began
    first,       \* history: the watermark that initializeWatermark left
    faults

vars == <<rows, mark, poll, running, emitted, inOrder, grew, first, faults>>

Place(e) == [ledger |-> e.ledger, index |-> e.index + 1]

Above(p, q) == p.ledger > q.ledger \/ (p.ledger = q.ledger /\ p.index > q.index)

AtStart == [ledger |-> 0, index |-> 0]

(* phase: "init" and "fetch" await a page, "timer" awaits the timer.       *)
Waiting == [phase |-> "timer", offset |-> 0, got |-> <<>>]

Init ==
    /\ rows \in SUBSET Events
    /\ inOrder = rows
    /\ mark = AtStart /\ first = AtStart
    /\ poll = [phase |-> "init", offset |-> 0, got |-> <<>>]
    /\ running = TRUE /\ emitted = <<>> /\ grew = FALSE /\ faults = 0

-----------------------------------------------------------------------------
(* External: query_events and get_events of the indexer.                   *)

Listings(S) ==
    {s \in SetToSeqs(S) :
        \A i, j \in DOMAIN s : i < j => s[i].ledger >= s[j].ledger}

Pages(offset) ==
    LET end == Min({offset + PageSize, Cardinality(rows)})
    IN  {SubSeq(s, offset + 1, end) : s \in Listings(rows)}

Insert(e) ==
    /\ e \notin rows
    /\ rows' = rows \union {e}
    /\ inOrder' = IF \A r \in rows : r.ledger < e.ledger
                  THEN inOrder \union {e} ELSE inOrder
    /\ grew' = TRUE
    /\ UNCHANGED <<mark, poll, running, emitted, first, faults>>

-----------------------------------------------------------------------------
(* The poller.                                                             *)

(* The rows of a poll above the watermark it began with, oldest first.     *)
Fresh(got) ==
    LET new == SelectSeq(got, LAMBDA e : Above(Place(e), mark))
    IN  SortSeq(new, LAMBDA a, b : Above(Place(b), Place(a)))

NewMarkLedgerOnly(fresh) ==
    IF fresh = <<>> THEN mark ELSE [mark EXCEPT !.ledger = Last(fresh).ledger]

NewMark(fresh) == IF fresh = <<>> THEN mark ELSE Place(Last(fresh))

InitializeWatermark(got) ==
    /\ mark' = Place(Last(got)) /\ first' = mark'
    /\ poll' = Waiting
    /\ UNCHANGED emitted

Dispatch(got) ==
    /\ emitted' = emitted \o Fresh(got)
    /\ mark' = NewMark(Fresh(got))
    /\ poll' = Waiting
    /\ UNCHANGED first

(* A page with rows.  A short one ends fetchNewEvents.                     *)
FetchPage ==
    /\ poll.phase \in {"init", "fetch"}
    /\ \E page \in Pages(poll.offset) :
          /\ page # <<>>
          /\ IF Len(page) = PageSize
             THEN /\ poll' = [poll EXCEPT !.offset = @ + PageSize, !.got = @ \o page]
                  /\ UNCHANGED <<mark, emitted, first>>
             ELSE IF poll.phase = "init" THEN InitializeWatermark(poll.got \o page)
             ELSE Dispatch(poll.got \o page)
    /\ UNCHANGED <<rows, running, inOrder, grew, faults>>

(* get_events answers 404 to an empty page, and fetchNewEvents throws: the *)
(* pages it already has are dropped with the call.                         *)
EmptyPage ==
    /\ poll.phase \in {"init", "fetch"}
    /\ poll.offset >= Cardinality(rows)
    /\ poll' = Waiting
    /\ UNCHANGED <<rows, mark, running, emitted, inOrder, grew, first, faults>>

FetchFails ==
    /\ poll.phase \in {"init", "fetch"}
    /\ faults < MaxFaults /\ faults' = faults + 1
    /\ poll' = Waiting
    /\ UNCHANGED <<rows, mark, running, emitted, inOrder, grew, first>>

(* The timer fires; a poller stopped while a call was under way has set it *)
(* once more, and poll returns.                                            *)
Poll ==
    /\ poll.phase = "timer"
    /\ poll' = [Waiting EXCEPT !.phase = IF running THEN "fetch" ELSE "off"]
    /\ grew' = FALSE
    /\ UNCHANGED <<rows, mark, running, emitted, inOrder, first, faults>>

Stop ==
    /\ running /\ running' = FALSE
    /\ poll' = IF poll.phase = "timer" THEN [Waiting EXCEPT !.phase = "off"] ELSE poll
    /\ UNCHANGED <<rows, mark, emitted, inOrder, grew, first, faults>>

Next ==
    \/ \E e \in Events : Insert(e)
    \/ FetchPage \/ EmptyPage \/ FetchFails \/ Poll \/ Stop

Spec == Init /\ [][Next]_vars

(* Timers fire and every request is answered.                              *)
FairSpec == Spec /\ WF_vars(Poll) /\ WF_vars(FetchPage \/ EmptyPage)

-----------------------------------------------------------------------------
Alone(e) == \A r \in rows \ {e} : r.ledger # e.ledger

TypeOK ==
    /\ inOrder \subseteq rows /\ rows \subseteq Events
    /\ poll.phase \in {"init", "fetch", "timer", "off"}
    /\ Range(poll.got) \subseteq rows /\ Range(emitted) \subseteq rows
    /\ running \in BOOLEAN /\ grew \in BOOLEAN /\ faults \in 0..MaxFaults

\* onEvent is called in the order of the positions, over all the polls of a
\* process (sort and isNewEvent in poll).
EmittedInOrder ==
    \A i, j \in DOMAIN emitted : i < j => ~Above(Place(emitted[i]), Place(emitted[j]))

\* No event is given to onEvent by two polls; one poll gives it twice only if a
\* row came in between two of its pages, or shares its ledger with another.
EmittedOnce ==
    [][LET new == SubSeq(emitted', Len(emitted) + 1, Len(emitted'))
       IN  /\ Range(new) \intersect Range(emitted) = {}
           /\ \A i, j \in DOMAIN new :
                 i # j /\ new[i] = new[j] => grew \/ ~Alone(new[i])]_vars

\* A row that was the newest when it came, and is alone in its ledger, is not
\* passed over by the watermark, whatever came in between two pages and however
\* many calls failed: it was given to onEvent, or is not above the watermark the
\* process started from.
NotPassedOver ==
    \A e \in inOrder :
        Alone(e) /\ ~Above(Place(e), mark) =>
            e \in Range(emitted) \/ ~Above(Place(e), first)

\* While the poller runs, it catches up with a table that stands still, unless
\* the number of rows is a multiple of the page size: the page after the last is
\* then a 404, and every poll fails until the next row comes.
CatchesUp ==
    []running /\ <>[](Cardinality(rows) % PageSize # 0)
        => <>[](\A e \in rows : ~Above(Place(e), mark))

=============================================================================
