---------------------------- MODULE TokenBucket ----------------------------
(***************************************************************************)
(* What a token-bucket limiter promises its clients, with no bookkeeping:  *)
(* every client owns credit that grows by one unit per tick up to a full   *)
(* bucket of Capacity tokens, a token is worth Period units, and a request *)
(* is admitted only by paying one.  The parity of the admissions is part   *)
(* of the state so that an admission that costs nothing is no stuttering   *)
(* step.  HttpLayer (per-IP and per-key limits   *)
(* of the service's endpoints) and PlatformClient (the limits kept towards *)
(* the chess platforms) are shown to implement it.                         *)
(***************************************************************************)
EXTENDS Naturals

CONSTANTS
    Clients,     \* who has a bucket
    Capacity,    \* tokens in a full bucket
    Period       \* ticks in which one token is refilled

VARIABLES
    credit,      \* what each client owns
    admitted     \* parity of the number of its requests admitted so far

vars == <<credit, admitted>>

Full == Capacity * Period

Init ==
    /\ credit = [c \in Clients |-> Full]
    /\ admitted = [c \in Clients |-> 0]

\* One tick refills every bucket at the sustained rate.
Refill ==
    /\ credit' = [c \in Clients |-> IF credit[c] < Full THEN credit[c] + 1 ELSE Full]
    /\ UNCHANGED admitted

\* A request of c is admitted.
Admit(c) ==
    /\ credit[c] >= Period
    /\ credit' = [credit EXCEPT ![c] = @ - Period]
    /\ admitted' = [admitted EXCEPT ![c] = 1 - @]

Next == Refill \/ \E c \in Clients : Admit(c)

Spec == Init /\ [][Next]_vars

=============================================================================
