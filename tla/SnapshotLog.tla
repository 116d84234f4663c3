---------------------------- MODULE SnapshotLog ----------------------------
(***************************************************************************)
(* What a ring buffer of snapshots promises its readers: per owner, the    *)
(* newest Cap entries of a log that only grows, oldest first, each         *)
(* carrying its position in the whole log.  Snapshots is shown to          *)
(* implement this specification for matches and for players.               *)
(***************************************************************************)
EXTENDS Integers, Sequences

CONSTANTS Owners,  \* what a log is kept for
          Cap      \* entries a reader may still see

VARIABLES window,  \* owner -> the entries a reader sees, oldest first
          total    \* owner -> entries ever recorded

vars == <<window, total>>

Init == /\ window = [o \in Owners |-> <<>>]
        /\ total = [o \in Owners |-> 0]

\* The newest n elements of a sequence.
Newest(s, n) == IF Len(s) <= n THEN s ELSE SubSeq(s, Len(s) - n + 1, Len(s))

\* One entry is appended, with the next position, and the oldest one drops
\* out of a full window.
Grows(o) == /\ total'[o] = total[o] + 1
            /\ window'[o] # <<>>
            /\ LET entry == window'[o][Len(window'[o])]
               IN /\ entry.index = total[o]
                  /\ window'[o] = Newest(Append(window[o], entry), Cap)

Keeps(o) == UNCHANGED <<window[o], total[o]>>

Next == \A o \in Owners : Grows(o) \/ Keeps(o)

Spec == Init /\ [][Next]_vars
=============================================================================
