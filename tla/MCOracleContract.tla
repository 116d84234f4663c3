-------------------------- MODULE MCOracleContract --------------------------
(***************************************************************************)
(* The oracle contract for TLC.  Oracle has the votes, the results and the *)
(* stakes, OracleAdmin the parts of the contract that only ever refuse a   *)
(* call of Oracle.  The parts share no variable: a behaviour is a          *)
(* behaviour of one of them, the others keeping the state they start in.   *)
(* Oracle runs in two scenarios: "votes" has three oracles and two matches *)
(* and nothing but votes, "slashes" two oracles, one match, staged slashes *)
(* and every call of the admin.                                            *)
(***************************************************************************)
EXTENDS Oracle, OracleAdmin, TLC

VARIABLE component      \* the part that moves, or the scenario of Oracle

allVars == <<component, vars, adminVars, limitVars, metricVars>>

Perms == Permutations(Oracles) \union Permutations(Matches)

\* The scenario "votes": no staged slash, no time, no pause, one of the
\* matches has at most one vote, and results and the cache change by votes,
\* deletions and the resolution of disputes.
OnlyVotes ==
    /\ UNCHANGED <<slashes, inactive, paused, now, swapped>>
    /\ \E m \in Matches : Cardinality({o \in Oracles : vote'[m][o] # NoVote}) <= 1
    /\ cache' # cache => result' # result \/ vote' # vote
    /\ \A m \in Matches : result'[m] \in {result[m], NoVote}
                          \/ vote'[m] # vote[m] \/ disputed[m]

\* The match has a vote, a result or a staged slash after the step.
Touched(m) ==
    \/ vote'[m] # [o \in Oracles |-> NoVote]
    \/ result'[m] # NoVote
    \/ \E o \in Oracles : pending'[o][m] # NoSlash

\* The scenario "slashes": two oracles, one match, and pausing, deactivation and
\* swaps one at a time.
Small ==
    /\ Cardinality(registered') <= 2
    /\ Cardinality({m \in Matches : Touched(m)}) <= 1
    /\ version' <= 3 /\ swapped' <= 0
    /\ paused' => inactive' = {} /\ swapped' = 0
    /\ inactive' # {} => swapped' = 0
    /\ swapped' # 0 => Admin \notin metered'

MCInit ==
    /\ component \in {"votes", "slashes", "admin", "limits", "metrics"}
    /\ Init /\ AdminInit /\ LimitsInit /\ MetricsInit

MCNext ==
    /\ UNCHANGED component
    /\ \/ /\ component = "votes" /\ Next /\ OnlyVotes
          /\ UNCHANGED <<adminVars, limitVars, metricVars>>
       \/ /\ component = "slashes" /\ Next /\ Small
          /\ UNCHANGED <<adminVars, limitVars, metricVars>>
       \/ /\ component = "admin" /\ AdminNext
          /\ UNCHANGED <<vars, limitVars, metricVars>>
       \/ /\ component = "limits" /\ LimitsNext
          /\ UNCHANGED <<vars, adminVars, metricVars>>
       \/ /\ component = "metrics" /\ MetricsNext
          /\ UNCHANGED <<vars, adminVars, limitVars>>

MCSpec == MCInit /\ [][MCNext]_allVars

-----------------------------------------------------------------------------
\* The calls around the votes.  A nomination makes its nominee admin at most
\* once (accept_admin).  Any stretch of an hour or of a day sees at most twice
\* the highest limit, and the quota reported is what a submission made now may
\* use (load_rate_window, get_oracle_rate_limit_status).  The integer average of
\* response times stays close to the true mean, and only an oracle whose true
\* mean is above the target is deactivated (update_oracle_metrics).
AdministrationHolds ==
    /\ [](/\ NominationUsedOnce
          /\ TwiceTheLimit /\ QuotaIsTrue
          /\ AverageDrift)
    /\ DeactivationJustified

-----------------------------------------------------------------------------
(* What the documentation says and the code does not do.                   *)

\* The match has votes, no result, and no candidate can reach the threshold.
Hopeless(m) ==
    /\ result[m] = NoVote
    /\ candidates[m] # NoVotes
    /\ \A c \in Candidate :
          Cardinality(candidates[m][c]) + Cardinality(Remaining(m, vote[m]))
              < threshold

\* docs/oracle.md: deadlock detection flags a match as disputed instead of
\* leaving it hanging for votes that can never arrive.
NeverHangs == \A m \in Matches : Hopeless(m) => disputed[m]

\* Doc comment of get_match_votes: a finalised match has no tally.
FinalisedHasNoVotes ==
    \A m \in Matches : result[m] # NoVote => candidates[m] = NoVotes
=============================================================================
