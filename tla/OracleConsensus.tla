--------------------------- MODULE OracleConsensus ---------------------------
(***************************************************************************)
(* Results by the confirmations of several oracles in the escrow contract  *)
(* (contracts/escrow/src/lib.rs): the approved oracles, the number of      *)
(* confirmations required, the votes on a match, and the deadlock flag     *)
(* that lets the admin decide.  A match here is funded and Active until    *)
(* settle_result (see Escrow) gives it a winner.                           *)
(***************************************************************************)
EXTENDS Naturals, FiniteSets

CONSTANTS
    Oracles,        \* addresses that may be approved
    Matches,        \* match ids
    Winners,        \* Winner
    None,           \* an absent entry
    DefaultRequired \* 2, in force until set_required_confirmations

\* What the code guarantees of the constants.
ConstantsOK ==
    /\ IsFiniteSet(Oracles) /\ DefaultRequired \in Nat \ {0}
    /\ None \notin Winners \cup Nat

VARIABLES
    approved,       \* ApprovedOracles
    required,       \* RequiredOracleConfirmations
    winner,         \* Match.winner of a settled match, None while it is Active
    vote,           \* OracleVote(match, oracle)
    confirmations,  \* OracleConfirmations(match)
    leading,        \* ConsensusLeadingWinner(match)
    deadlock,       \* OracleDeadlock(match)
    paused,         \* Paused
    settledBy,      \* history: how the match was settled, and what was required
    rejected        \* history: oracles whose vote conflicted with earlier ones

vars == <<approved, required, winner, vote, confirmations, leading, deadlock,
          paused, settledBy, rejected>>

NotSettled == [how |-> "none", required |-> 0]

Init ==
    /\ approved = {} /\ required = None
    /\ winner = [m \in Matches |-> None]
    /\ vote = [m \in Matches |-> [o \in Oracles |-> None]]
    /\ confirmations = [m \in Matches |-> 0]
    /\ leading = [m \in Matches |-> None]
    /\ deadlock = [m \in Matches |-> FALSE]
    /\ paused = FALSE
    /\ settledBy = [m \in Matches |-> NotSettled]
    /\ rejected = [m \in Matches |-> {}]

Active(m) == winner[m] = None

\* get_required_confirmations.
Required == IF required = None THEN DefaultRequired ELSE required

\* settle_result on a match that is still Active.
SettleResult(m, w, how) ==
    /\ winner' = [winner EXCEPT ![m] = w]
    /\ settledBy' = [settledBy EXCEPT ![m] = [how |-> how, required |-> Required]]

(***************************************************************************)
(* The admin's calls.                                                      *)
(***************************************************************************)
AddApprovedOracle(o) ==
    /\ approved' = approved \cup {o}
    /\ UNCHANGED <<required, winner, vote, confirmations, leading, deadlock,
                   paused, settledBy, rejected>>

\* remove_approved_oracle: refuses when fewer than the required would remain,
\* counting o as one of the approved whether it is or not.
RemoveApprovedOracle(o) ==
    /\ approved # {} /\ Required <= Cardinality(approved) - 1
    /\ approved' = approved \ {o}
    /\ UNCHANGED <<required, winner, vote, confirmations, leading, deadlock,
                   paused, settledBy, rejected>>

SetRequiredConfirmations(n) ==
    /\ n > 0 /\ n <= Cardinality(approved)
    /\ required' = n
    /\ UNCHANGED <<approved, winner, vote, confirmations, leading, deadlock,
                   paused, settledBy, rejected>>

\* resolve_oracle_deadlock, also while the contract is paused.
ResolveOracleDeadlock(m, w) ==
    /\ Active(m) /\ deadlock[m]
    /\ SettleResult(m, w, "admin")
    /\ UNCHANGED <<approved, required, vote, confirmations, leading, deadlock,
                   paused, rejected>>

SetPaused(b) ==
    /\ paused # b /\ paused' = b
    /\ UNCHANGED <<approved, required, winner, vote, confirmations, leading,
                   deadlock, settledBy, rejected>>

(***************************************************************************)
(* The oracles' calls.                                                     *)
(***************************************************************************)
\* submit_result, submit_result_with_oracle_record and submit_result_batch: the
\* configured oracle settles matches of S on its own; a batch skips the ones
\* that are no longer Active.
SubmitResults(result) ==
    LET open == {m \in DOMAIN result : Active(m)}
    IN  /\ ~paused
        /\ winner' = [m \in Matches |-> IF m \in open THEN result[m] ELSE winner[m]]
        /\ settledBy' = [m \in Matches |->
              IF m \in open THEN [how |-> "oracle", required |-> Required]
              ELSE settledBy[m]]
        /\ UNCHANGED <<approved, required, vote, confirmations, leading,
                       deadlock, paused, rejected>>

\* The checks of submit_result_consensus before it compares winners.
MayVote(o, m) ==
    ~paused /\ o \in approved /\ Active(m) /\ vote[m][o] = None

\* Altered for mutation: votes for any winner add up.
AgreesWithAny(m, w) == TRUE

\* No earlier vote, or one for the same winner.
Agrees(m, w) == confirmations[m] > 0 => leading[m] = w

\* The writes of an accepted vote.
RecordVote(o, m, w) ==
    /\ leading' = [leading EXCEPT ![m] =
                      IF confirmations[m] > 0 THEN @ ELSE w]
    /\ vote' = [vote EXCEPT ![m][o] = w]
    /\ confirmations' = [confirmations EXCEPT ![m] = @ + 1]

\* check_oracle_deadlock: its second comparison never finds more than its first.
CheckOracleDeadlock(m) ==
    deadlock' = [deadlock EXCEPT ![m] = @ \/ Required > Cardinality(approved)]

\* submit_result_consensus with a vote that agrees: it settles the match when it
\* brings the confirmations to the number required.
SubmitResultConsensus(o, m, w) ==
    /\ MayVote(o, m)
    /\ Agrees(m, w)
    /\ RecordVote(o, m, w)
    /\ \/ /\ confirmations[m] + 1 >= Required
          /\ SettleResult(m, w, "consensus")
          /\ UNCHANGED deadlock
       \/ /\ confirmations[m] + 1 < Required
          /\ CheckOracleDeadlock(m)
          /\ UNCHANGED <<winner, settledBy>>
    /\ UNCHANGED <<approved, required, paused, rejected>>

\* submit_result_consensus with a vote that conflicts returns Err, which takes
\* back the deadlock flag it has just set.
ConflictingVote(o, m, w) ==
    /\ MayVote(o, m)
    /\ ~Agrees(m, w)
    /\ rejected' = [rejected EXCEPT ![m] = @ \cup {o}]
    /\ UNCHANGED <<approved, required, winner, vote, confirmations, leading,
                   deadlock, paused, settledBy>>

Next ==
    \/ \E o \in Oracles : AddApprovedOracle(o)
    \/ \E o \in Oracles : RemoveApprovedOracle(o)
    \/ \E n \in 0..Cardinality(Oracles) : SetRequiredConfirmations(n)
    \/ \E m \in Matches, w \in Winners : ResolveOracleDeadlock(m, w)
    \/ \E b \in BOOLEAN : SetPaused(b)
    \/ \E S \in SUBSET Matches \ {{}} : \E r \in [S -> Winners] : SubmitResults(r)
    \/ \E o \in Oracles, m \in Matches, w \in Winners :
          SubmitResultConsensus(o, m, w)
    \/ \E o \in Oracles, m \in Matches, w \in Winners : ConflictingVote(o, m, w)

Spec == Init /\ [][Next]_vars

(***************************************************************************)
(* Properties.                                                             *)
(***************************************************************************)
Voters(m) == {o \in Oracles : vote[m][o] # None}

\* The confirmation count of a match is the number of oracles with a recorded
\* vote, and all of them voted for the leading winner, whatever happens to the
\* list of approved oracles meanwhile (submit_result_consensus).
ConfirmationsExact ==
    \A m \in Matches :
        /\ confirmations[m] = Cardinality(Voters(m))
        /\ \A o \in Voters(m) : vote[m][o] = leading[m]

\* A match settled by consensus has the recorded votes of as many different
\* oracles as were required, every one of them for its winner, and nothing
\* overwrites the winner of a settled match.
ConsensusBehindWinner ==
    \A m \in Matches : settledBy[m].how = "consensus" =>
        /\ Cardinality(Voters(m)) >= settledBy[m].required
        /\ \A o \in Voters(m) : vote[m][o] = winner[m]

\* A number of confirmations that the admin has set never exceeds the number of
\* approved oracles, so that agreeing oracles can always settle a match without
\* the admin.
RequiredReachable == required # None => required <= Cardinality(approved)

\* What the count of confirmations is used for: it counts recorded votes for one
\* winner, as many as were required stand behind a result, and the number
\* required can be reached.
ConsensusCounted ==
    ConfirmationsExact /\ ConsensusBehindWinner /\ RequiredReachable

\* Claim (doc comment of submit_result_consensus): a conflicting vote is still
\* recorded, and an oracle votes only once, rejected votes included.
RejectedVoteRecorded ==
    \A m \in Matches : \A o \in rejected[m] : vote[m][o] # None

\* Claim (doc comment of is_oracle_deadlocked): a flagged match is one whose
\* threshold is unreachable.
FlagMeansUnreachable ==
    \A m \in Matches : Active(m) /\ deadlock[m] =>
        Cardinality(Voters(m) \cup approved) < Required
=============================================================================
