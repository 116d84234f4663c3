--------------------------- MODULE MCPipelineLive ---------------------------
(***************************************************************************)
(* The progress of the oracle service's queue for TLC, in three scenarios  *)
(* over the same variables.  In "faults" and "retries" one match becomes   *)
(* Active late and something fails once: two valid games and one attempt,  *)
(* then one valid game and two attempts.  In "replay" the oracle-replay    *)
(* process rewrites both files while a batch with an invalid game id is    *)
(* worked on.  Pipeline itself is the first, with the constants of the     *)
(* configuration.                                                          *)
(***************************************************************************)
EXTENDS Pipeline

VARIABLE component      \* the scenario

allVars == <<component, vars>>

T == INSTANCE Pipeline WITH BadIds <- {2}, MaxRetries <- 2
R == INSTANCE Pipeline WITH
    Late <- {}, BadIds <- {1}, PageSize <- 2, MaxFaults <- 0, MaxReplays <- 1

MCInit ==
    \/ component = "faults" /\ Init
    \/ component = "retries" /\ T!Init
    \/ component = "replay" /\ R!Init

MCNext ==
    /\ UNCHANGED component
    /\ \/ component = "faults" /\ Next
       \/ component = "retries" /\ T!Next
       \/ component = "replay" /\ R!Next

MCSpec == MCInit /\ [][MCNext]_allVars

-----------------------------------------------------------------------------
(* The fairness of Pipeline, of the scenario that runs.                    *)

Ticks ==
    /\ UNCHANGED component
    /\ \/ component = "faults" /\ TickStep
       \/ component = "retries" /\ T!TickStep
       \/ component = "replay" /\ R!TickStep

Reconciles ==
    /\ UNCHANGED component
    /\ \/ component = "faults" /\ RecStep
       \/ component = "retries" /\ T!RecStep
       \/ component = "replay" /\ R!RecStep

Replays == UNCHANGED component /\ component = "replay" /\ R!ReplayStep

Resumes(p) == UNCHANGED component /\ BackoffEnds(p)

TickWithDue(m) ==
    /\ UNCHANGED component
    /\ \E D \in {{m}, Matches} :
          \/ component = "faults" /\ TickStart(D)
          \/ component = "retries" /\ T!TickStart(D)
          \/ component = "replay" /\ R!TickStart(D)

MCFairSpec ==
    /\ MCSpec
    /\ WF_allVars(Ticks) /\ WF_allVars(Reconciles) /\ WF_allVars(Replays)
    /\ \A p \in {"lichess", "chess.com"} : WF_allVars(Resumes(p))
    /\ \A m \in Matches : SF_allVars(TickWithDue(m))
=============================================================================
