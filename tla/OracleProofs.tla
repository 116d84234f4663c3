---------------------------- MODULE OracleProofs ----------------------------
(***************************************************************************)
(* Proofs about the votes, the stakes and the staged slashes of the oracle *)
(* contract, for any finite set of oracles, any matches, games, outcomes,  *)
(* stakes and thresholds; and about the calls around the votes, for any    *)
(* accounts, windows, limits and response times.                           *)
(***************************************************************************)
EXTENDS MCOracleContract

(***************************************************************************)
(* The inductive invariant.  TallyExact needs that no cached count is of a *)
(* version to come, and that a stake implies a registration, for a top-up  *)
(* to leave the set of eligible oracles alone when it leaves the version.  *)
(***************************************************************************)
VoteType ==
    /\ registered \in SUBSET Oracles
    /\ stake \in [Oracles -> Nat]
    /\ version \in Nat /\ threshold \in Nat
    /\ vote \in [Matches -> [Oracles -> Candidate \cup {NoVote}]]
    /\ candidates \in [Matches -> [Candidate -> SUBSET Oracles]]
    /\ disputed \in [Matches -> BOOLEAN]
    /\ tally \in [Matches -> [remaining : Nat, version : Int]]

StakedRegistered == \A o \in Oracles : stake[o] > 0 => o \in registered

TallyOK(m) ==
    /\ tally[m].version <= version
    /\ tally[m].version = version =>
          tally[m].remaining = Cardinality(Remaining(m, vote[m]))

VoteInv ==
    /\ VoteType
    /\ StakedRegistered
    /\ \A m \in Matches : TallyOK(m)
    /\ SubmittersVoted

SlashType ==
    /\ now \in Nat /\ grace \in Nat
    /\ pending \in [Oracles -> [Matches -> [amount : Nat, eligible : Int]]]

CacheInv ==
    /\ result \in [Matches -> Candidate \cup {NoVote}]
    /\ cache \in [Games -> [outcome : Outcomes \cup {"none"}, expiry : Int]]
    /\ CacheBacked

OracleInv == VoteInv /\ SlashType /\ CacheInv

\* What a step may do to the stakes: as long as it leaves the version, it leaves
\* the set of eligible oracles.
StakesStep ==
    /\ registered' \in SUBSET Oracles
    /\ stake' \in [Oracles -> Nat]
    /\ version' \in Nat /\ version' >= version
    /\ StakedRegistered'
    /\ version' = version => \A o \in Oracles : Eligible(o)' <=> Eligible(o)

-----------------------------------------------------------------------------
(* Operators. *)

\* An absent vote is no candidate.
LEMMA NoVoteApart == NoVote \notin Candidate
BY NamesAssumption DEF NoVote, Candidate

\* slash_bps takes at most the stake, and nothing from an empty one.
LEMMA CutBound ==
    ASSUME NEW s \in Nat, NEW bps \in Nat, bps <= 10000
    PROVE  Cut(s, bps) \in Nat /\ Cut(s, bps) <= s
<1>1. s * bps \in Nat
  OBVIOUS
<1>2. s * (10000 - bps) \in Nat
  OBVIOUS
<1>3. s * bps <= s * 10000
  BY <1>2
<1>4. \A x \in Nat : x <= s * 10000 => x \div 10000 \in Nat /\ x \div 10000 <= s
  OBVIOUS
<1> DEFINE x == s * bps
<1>5. x \in Nat /\ x <= s * 10000
  BY <1>1, <1>3
<1>6. Cut(s, bps) = x \div 10000
  BY DEF Cut
<1> HIDE DEF x
<1> QED
  BY <1>4, <1>5, <1>6

\* The oracles that may still vote are finitely many.
LEMMA RemainingFinite ==
    ASSUME NEW m, NEW v
    PROVE  IsFiniteSet(Remaining(m, v)) /\ Cardinality(Remaining(m, v)) \in Nat
<1>1. Remaining(m, v) \in SUBSET Oracles
  BY DEF Remaining
<1> QED
  BY <1>1, OraclesAssumption, FS_Subset, FS_CardinalityType

-----------------------------------------------------------------------------
(* Stakes. *)

\* MINORITY_SLASH_BPS and EQUIVOCATION_SLASH_BPS are at most the whole stake.
LEMMA SharesInRange == MinorityBps \in BasisPoints /\ EquivocationBps \in BasisPoints
BY ConfigAssumption

\* slash_bps takes at most its stake from an oracle of the set, and nothing from
\* the others.
LEMMA TakenBound ==
    ASSUME VoteInv, NEW S \in SUBSET Oracles, NEW bps \in BasisPoints, NEW o \in Oracles
    PROVE  /\ stake[o] \in Nat /\ Taken(S, bps)[o] \in Nat
           /\ Taken(S, bps)[o] <= stake[o]
           /\ o \notin S => Taken(S, bps)[o] = 0
<1>1. stake[o] \in Nat
  BY DEF VoteInv, VoteType
<1>2. Taken(S, bps)[o] = IF o \in S THEN Cut(stake[o], bps) ELSE 0
  BY DEF Taken
<1>3. Cut(stake[o], bps) \in Nat /\ Cut(stake[o], bps) <= stake[o]
  <2>1. bps \in Nat /\ bps <= 10000
    BY DEF BasisPoints
  <2>2. \A s \in Nat : Cut(s, bps) \in Nat /\ Cut(s, bps) <= s
    BY <2>1, CutBound
  <2> QED
    BY Zenon, <1>1, <2>2
<1> QED
  BY <1>1, <1>2, <1>3

\* slash_bps, for any set of oracles.
LEMMA SlashStakes ==
    ASSUME VoteInv, NEW S \in SUBSET Oracles, NEW bps \in BasisPoints,
           SlashBps(S, bps), registered' = registered
    PROVE  StakesStep
<1> DEFINE taken == Taken(S, bps)
           emptied == {o \in S : stake[o] > 0 /\ stake[o] = taken[o]}
<1>1. /\ stake' = [o \in Oracles |-> stake[o] - taken[o]]
      /\ version' = version + Cardinality(emptied)
  BY DEF SlashBps
<1>2. ASSUME NEW o \in Oracles
      PROVE  /\ stake[o] \in Nat /\ taken[o] \in Nat /\ taken[o] <= stake[o]
             /\ o \notin S => taken[o] = 0
  BY TakenBound, Zenon
<1> HIDE DEF taken
<1>3. IsFiniteSet(emptied) /\ Cardinality(emptied) \in Nat
  <2>1. emptied \in SUBSET Oracles
    OBVIOUS
  <2> QED
    BY <2>1, OraclesAssumption, FS_Subset, FS_CardinalityType
<1> HIDE DEF emptied
<1>v. version \in Nat
  BY DEF VoteInv, VoteType
<1>4. version' \in Nat /\ version' >= version
  BY <1>1, <1>3, <1>v
<1>5. stake' \in [Oracles -> Nat]
  BY <1>1, <1>2
<1>6. StakedRegistered'
  BY <1>1, <1>2 DEF VoteInv, StakedRegistered
<1>7. ASSUME version' = version, NEW o \in Oracles
      PROVE  Eligible(o)' <=> Eligible(o)
  <2>1. Cardinality(emptied) = 0
    BY <1>7, <1>1, <1>3, <1>v
  <2>2. emptied = {}
    BY <2>1, <1>3, FS_EmptySet
  <2>3. stake[o] > 0 /\ o \in S => stake[o] # taken[o]
    BY <2>2 DEF emptied
  <2>4. stake'[o] = stake[o] - taken[o]
    BY <1>1
  <2>5. stake'[o] > 0 <=> stake[o] > 0
    BY <2>3, <2>4, <1>2
  <2> QED
    BY <2>5 DEF Eligible
<1> QED
  BY <1>4, <1>5, <1>6, <1>7 DEF StakesStep, VoteInv, VoteType

\* register_oracle_with_stake, and finalize_slash.
LEMMA RegisterStakes ==
    ASSUME VoteInv, NEW o \in Oracles, NEW a \in StakeAmounts,
           RegisterOracleWithStake(o, a)
    PROVE  StakesStep
<1>1. /\ registered' = registered \cup {o}
      /\ stake' = [stake EXCEPT ![o] = @ + a]
      /\ version' = IF stake[o] > 0 THEN version ELSE version + 1
  BY DEF RegisterOracleWithStake
<1>2. a \in Nat /\ a > 0 /\ version \in Nat /\ stake \in [Oracles -> Nat]
  BY AmountsAssumption DEF VoteInv, VoteType
<1>3. StakedRegistered
  BY DEF VoteInv
<1>4. StakedRegistered'
  BY <1>1, <1>2, <1>3 DEF StakedRegistered
<1>5. ASSUME version' = version, NEW q \in Oracles
      PROVE  Eligible(q)' <=> Eligible(q)
  BY <1>1, <1>2, <1>3, <1>5 DEF Eligible, StakedRegistered
<1> QED
  BY <1>1, <1>2, <1>4, <1>5 DEF StakesStep, VoteInv, VoteType

\* finalize_slash takes at most what is left.
LEMMA FinalizeStakes ==
    ASSUME VoteInv, NEW o \in Oracles, NEW m \in Matches,
           pending[o][m].amount \in Nat, FinalizeSlash(o, m)
    PROVE  StakesStep
<1> DEFINE amount == IF pending[o][m].amount < stake[o]
                     THEN pending[o][m].amount ELSE stake[o]
<1>1. /\ registered' = registered
      /\ stake' = [stake EXCEPT ![o] = @ - amount]
      /\ version' = IF stake[o] > 0 /\ stake[o] = amount
                    THEN version + 1 ELSE version
  BY DEF FinalizeSlash
<1>2. /\ stake \in [Oracles -> Nat] /\ version \in Nat
      /\ amount \in Nat /\ amount <= stake[o]
  BY DEF VoteInv, VoteType
<1> HIDE DEF amount
<1>3. StakedRegistered'
  BY <1>1, <1>2 DEF VoteInv, StakedRegistered
<1>4. ASSUME version' = version, NEW q \in Oracles
      PROVE  Eligible(q)' <=> Eligible(q)
  BY <1>1, <1>2, <1>4 DEF Eligible
<1> QED
  BY <1>1, <1>2, <1>3, <1>4 DEF StakesStep, VoteInv, VoteType

\* A step that does not touch the stakes.
LEMMA SameStakes ==
    ASSUME VoteInv, UNCHANGED <<registered, stake, version>>
    PROVE  StakesStep
BY DEF VoteInv, VoteType, StakedRegistered, StakesStep, Eligible

-----------------------------------------------------------------------------
(* Votes. *)

\* A cached count stays right, or becomes outdated, in a step that leaves the
\* votes on its match alone.
LEMMA TallyKept ==
    ASSUME VoteInv, StakesStep, NEW k \in Matches,
           vote'[k] = vote[k], tally'[k] = tally[k]
    PROVE  TallyOK(k)'
<1>1. TallyOK(k) /\ tally[k].version \in Int /\ version \in Nat
  BY DEF VoteInv, VoteType
<1>2. version' \in Nat /\ version' >= version
  BY DEF StakesStep
<1>3. CASE version' = version
  <2>1. \A o \in Oracles : Eligible(o)' <=> Eligible(o)
    BY <1>3 DEF StakesStep
  <2>2. Remaining(k, vote[k])' = Remaining(k, vote[k])
    BY <2>1 DEF Remaining
  <2> QED
    BY <1>1, <1>3, <2>2 DEF TallyOK
<1>4. CASE version' # version
  BY <1>1, <1>2, <1>4 DEF TallyOK
<1> QED
  BY <1>3, <1>4

\* A step that leaves the votes alone.
LEMMA VotesKept ==
    ASSUME VoteInv, StakesStep, UNCHANGED votes, threshold' \in Nat
    PROVE  VoteInv'
<1>1. UNCHANGED <<vote, candidates, disputed, tally>>
  BY DEF votes
<1>2. \A k \in Matches : TallyOK(k)'
  BY <1>1, TallyKept
<1>3. VoteType'
  BY <1>1 DEF VoteInv, VoteType, StakesStep
<1>4. SubmittersVoted'
  BY <1>1 DEF VoteInv, SubmittersVoted
<1> QED
  BY <1>2, <1>3, <1>4 DEF VoteInv, StakesStep

\* A step that decides match m and removes its candidates and its count.
LEMMA VotesCleared ==
    ASSUME VoteInv, StakesStep, NEW m \in Matches, ClearVotes(m),
           threshold' \in Nat,
           vote' \in [Matches -> [Oracles -> Candidate \cup {NoVote}]],
           \A k \in Matches \ {m} : vote'[k] = vote[k]
    PROVE  VoteInv'
<1>1. /\ candidates' = [candidates EXCEPT ![m] = NoVotes]
      /\ disputed' = [disputed EXCEPT ![m] = FALSE]
      /\ tally' = [tally EXCEPT ![m] = NoTally]
  BY DEF ClearVotes
<1>2. /\ candidates \in [Matches -> [Candidate -> SUBSET Oracles]]
      /\ disputed \in [Matches -> BOOLEAN]
      /\ tally \in [Matches -> [remaining : Nat, version : Int]]
      /\ SubmittersVoted
  BY DEF VoteInv, VoteType
<1>3. NoVotes \in [Candidate -> SUBSET Oracles]
  BY DEF NoVotes
<1>4. NoTally \in [remaining : Nat, version : Int] /\ NoTally.version = -1
  BY DEF NoTally
<1>5. VoteType'
  <2>1. candidates' \in [Matches -> [Candidate -> SUBSET Oracles]]
    BY <1>1, <1>2, <1>3, Zenon
  <2>2. disputed' \in [Matches -> BOOLEAN]
    BY <1>1, <1>2
  <2>3. tally' \in [Matches -> [remaining : Nat, version : Int]]
    BY <1>1, <1>2, <1>4, Zenon
  <2> QED
    BY <2>1, <2>2, <2>3 DEF VoteType, StakesStep
<1>6. TallyOK(m)'
  <2>1. tally'[m] = NoTally
    BY <1>1, <1>2, Zenon
  <2> QED
    BY <2>1, <1>4 DEF TallyOK, StakesStep
<1>7. ASSUME NEW k \in Matches, k # m PROVE TallyOK(k)'
  <2>1. vote'[k] = vote[k] /\ tally'[k] = tally[k]
    BY <1>1, <1>2, <1>7, Zenon
  <2> QED
    BY <2>1, TallyKept
<1>8. SubmittersVoted'
  <2> SUFFICES ASSUME NEW k \in Matches, NEW c \in Candidate, NEW o \in Oracles,
                      o \in candidates'[k][c]
               PROVE  vote'[k][o] = c
    BY DEF SubmittersVoted
  <2>1. k # m
    BY <1>1, <1>2 DEF NoVotes
  <2>2. candidates'[k] = candidates[k] /\ vote'[k] = vote[k]
    BY <2>1, <1>1, <1>2, Zenon
  <2>3. o \in candidates[k][c]
    BY <2>2
  <2>4. vote[k][o] = c
    BY <2>3, <1>2 DEF SubmittersVoted
  <2> QED
    BY <2>2, <2>4
<1> QED
  BY <1>5, <1>6, <1>7, <1>8 DEF VoteInv, StakesStep

\* The count that submit_oracle_result works with, cached or fresh, is the
\* number of eligible oracles that have not voted.
LEMMA CountExact ==
    ASSUME VoteInv, NEW o \in Oracles, NEW m \in Matches, NEW c \in Candidate,
           Eligible(o), vote[m][o] = NoVote, vote' = [vote EXCEPT ![m][o] = c]
    PROVE  RemainingEligible(m, vote'[m]) = Cardinality(Remaining(m, vote'[m]))
<1>1. vote \in [Matches -> [Oracles -> Candidate \cup {NoVote}]] /\ TallyOK(m)
  BY DEF VoteInv, VoteType
<1>2. vote'[m] = [vote[m] EXCEPT ![o] = c]
  BY <1>1
<1>3. c # NoVote
  BY NoVoteApart
<1>4. Remaining(m, vote'[m]) = Remaining(m, vote[m]) \ {o}
  BY <1>1, <1>2, <1>3 DEF Remaining
<1>5. o \in Remaining(m, vote[m])
  BY DEF Remaining
<1>6. IsFiniteSet(Remaining(m, vote[m]))
  BY RemainingFinite
<1>7. Cardinality(Remaining(m, vote[m]) \ {o}) = Cardinality(Remaining(m, vote[m])) - 1
  BY <1>5, <1>6, FS_RemoveElement, Zenon
<1>8. Cardinality(Remaining(m, vote'[m])) \in Nat
  BY RemainingFinite, Zenon
<1>9. Cardinality(Remaining(m, vote[m])) \in Nat
  BY RemainingFinite, Zenon
<1>10. Cardinality(Remaining(m, vote'[m])) = Cardinality(Remaining(m, vote[m])) - 1
  BY Zenon, <1>4, <1>7
<1>11. CASE tally[m].version = version
  <2>1. tally[m].remaining = Cardinality(Remaining(m, vote[m]))
    BY <1>1, <1>11 DEF TallyOK
  <2> QED
    BY <2>1, <1>8, <1>9, <1>10, <1>11 DEF RemainingEligible
<1> QED
  BY <1>11 DEF RemainingEligible

\* A recorded vote: under candidate c, whose list takes it in, and in the count.
LEMMA VoteRecorded ==
    ASSUME VoteInv, NEW o \in Oracles, NEW m \in Matches, NEW c \in Candidate,
           Eligible(o), vote[m][o] = NoVote, vote' = [vote EXCEPT ![m][o] = c],
           UNCHANGED <<registered, threshold>>,
           Record(m, c, [candidates[m] EXCEPT ![c] = @ \cup {o}])
    PROVE  VoteInv'
<1> DEFINE cand == [candidates[m] EXCEPT ![c] = @ \cup {o}]
           n == RemainingEligible(m, vote'[m])
<1>1. /\ tally' = [tally EXCEPT ![m] = [remaining |-> n, version |-> version]]
      /\ candidates' = [candidates EXCEPT ![m] = cand]
      /\ disputed' = [disputed EXCEPT ![m] = Deadlocked(cand, n)]
      /\ UNCHANGED <<stake, version>>
  BY DEF Record
<1>2. n = Cardinality(Remaining(m, vote'[m])) /\ n \in Nat
  BY Zenon, CountExact, RemainingFinite
<1> HIDE DEF n
<1>3. /\ vote \in [Matches -> [Oracles -> Candidate \cup {NoVote}]]
      /\ candidates \in [Matches -> [Candidate -> SUBSET Oracles]]
      /\ disputed \in [Matches -> BOOLEAN]
      /\ tally \in [Matches -> [remaining : Nat, version : Int]]
      /\ version \in Nat /\ SubmittersVoted
  BY DEF VoteInv, VoteType
<1>4. StakesStep
  BY <1>1, SameStakes
<1>5. cand \in [Candidate -> SUBSET Oracles]
  BY <1>3
<1>6. VoteType'
  <2>1. vote' \in [Matches -> [Oracles -> Candidate \cup {NoVote}]]
    BY <1>3, Zenon
  <2>2. candidates' \in [Matches -> [Candidate -> SUBSET Oracles]]
    <3> HIDE DEF cand
    <3> QED
      BY <1>1, <1>3, <1>5, Zenon
  <2>3. Deadlocked(cand, n) \in BOOLEAN
    BY DEF Deadlocked
  <2>4. disputed' \in [Matches -> BOOLEAN]
    <3> HIDE DEF cand
    <3> QED
      BY <1>1, <1>3, <2>3, Zenon
  <2>5. [remaining |-> n, version |-> version] \in [remaining : Nat, version : Int]
    BY <1>2, <1>3
  <2>6. tally' \in [Matches -> [remaining : Nat, version : Int]]
    BY <1>1, <1>3, <2>5, Zenon
  <2> QED
    BY <2>1, <2>2, <2>4, <2>6, <1>1, <1>4 DEF VoteInv, VoteType, StakesStep
<1>7. TallyOK(m)'
  <2>1. tally'[m] = [remaining |-> n, version |-> version]
    BY <1>1, <1>3, Zenon
  <2>2. tally'[m].remaining = n /\ tally'[m].version = version
    BY <2>1
  <2>3. Remaining(m, vote[m])' = Remaining(m, vote'[m])
    BY <1>1 DEF Remaining, Eligible
  <2> QED
    BY <2>2, <2>3, <1>1, <1>2, <1>3 DEF TallyOK
<1>8. ASSUME NEW k \in Matches, k # m PROVE TallyOK(k)'
  <2>1. vote'[k] = vote[k] /\ tally'[k] = tally[k]
    BY <1>1, <1>3, <1>8, Zenon
  <2> QED
    BY <2>1, <1>4, TallyKept
<1>9. SubmittersVoted'
  <2> SUFFICES ASSUME NEW k \in Matches, NEW d \in Candidate, NEW q \in Oracles,
                      q \in candidates'[k][d]
               PROVE  vote'[k][q] = d
    BY DEF SubmittersVoted
  <2>1. CASE k # m
    <3>1. candidates'[k] = candidates[k] /\ vote'[k] = vote[k]
      BY <2>1, <1>1, <1>3
    <3> QED
      BY <3>1, <1>3 DEF SubmittersVoted
  <2>2. CASE k = m
    <3>1. candidates'[m] = cand /\ vote'[m] = [vote[m] EXCEPT ![o] = c]
      BY <1>1, <1>3
    <3>2. ASSUME q \in candidates[m][d] PROVE vote'[m][q] = d
      <4>1. vote[m][q] = d
        BY <3>2, <1>3 DEF SubmittersVoted
      <4>2. q # o
        BY <4>1, NoVoteApart
      <4> QED
        BY <4>1, <4>2, <3>1, <1>3
    <3>3. ASSUME q \notin candidates[m][d] PROVE q = o /\ d = c
      BY <3>1, <3>3, <2>2, <1>3
    <3>4. vote'[m][o] = c
      BY <3>1, <1>3
    <3> QED
      BY <3>2, <3>3, <3>4, <2>2
  <2> QED
    BY <2>1, <2>2
<1> QED
  BY <1>4, <1>6, <1>7, <1>8, <1>9 DEF VoteInv, StakesStep

-----------------------------------------------------------------------------
(* Results and cached answers. *)

\* The entry of game g is backed by a result.
Backed(g) ==
    cache[g] # NoEntry =>
        \E m \in Matches : result[m] = [game |-> g, outcome |-> cache[g].outcome]

\* A result that backs a game's entry is not the absent one.
LEMMA BackingIsResult ==
    ASSUME NEW g \in Games, NEW w PROVE [game |-> g, outcome |-> w] # NoVote
BY NamesAssumption DEF NoVote

\* A candidate is the record of its two fields.
LEMMA CandidateFields ==
    ASSUME NEW c \in Candidate
    PROVE  /\ c = [game |-> c.game, outcome |-> c.outcome]
           /\ c.game \in Games /\ c.outcome \in Outcomes
BY DEF Candidate

\* A new result replaces the entry of its game.
LEMMA StoreKeeps ==
    ASSUME CacheInv, now \in Nat, NEW m \in Matches, NEW c \in Candidate,
           result[m] = NoVote, StoreResult(m, c)
    PROVE  CacheInv'
<1> DEFINE e == [outcome |-> c.outcome, expiry |-> now + CacheTtl]
<1>1. result' = [result EXCEPT ![m] = c] /\ cache' = [cache EXCEPT ![c.game] = e]
  BY DEF StoreResult
<1>2. /\ result \in [Matches -> Candidate \cup {NoVote}]
      /\ cache \in [Games -> [outcome : Outcomes \cup {"none"}, expiry : Int]]
      /\ \A g \in Games : Backed(g)
  BY DEF CacheInv, CacheBacked, Backed
<1>3. /\ c = [game |-> c.game, outcome |-> c.outcome]
      /\ c.game \in Games /\ c.outcome \in Outcomes
  BY CandidateFields
<1>4. e \in [outcome : Outcomes \cup {"none"}, expiry : Int] /\ e.outcome = c.outcome
  BY <1>3, ConfigAssumption
<1> HIDE DEF e
<1>5. result' \in [Matches -> Candidate \cup {NoVote}]
  BY <1>1, <1>2, Zenon
<1>6. cache' \in [Games -> [outcome : Outcomes \cup {"none"}, expiry : Int]]
  BY <1>1, <1>2, <1>4, Zenon
<1>7. ASSUME NEW g \in Games PROVE Backed(g)'
  <2>1. CASE g = c.game
    <3>1. result'[m] = c /\ cache'[g] = e
      BY <1>1, <1>2, <2>1, Zenon
    <3>2. result'[m] = [game |-> g, outcome |-> cache'[g].outcome]
      BY <3>1, <1>3, <1>4, <2>1, Zenon
    <3> QED
      BY <3>2 DEF Backed
  <2>2. CASE g # c.game
    <3>1. cache'[g] = cache[g]
      BY <1>1, <1>2, <2>2, Zenon
    <3>2. ASSUME NEW k \in Matches,
                 result[k] = [game |-> g, outcome |-> cache[g].outcome]
          PROVE  result'[k] = [game |-> g, outcome |-> cache'[g].outcome]
      <4>1. k # m
        BY <3>2, BackingIsResult
      <4>2. result'[k] = result[k]
        BY <4>1, <1>1, <1>2, Zenon
      <4> QED
        BY <4>2, <3>1, <3>2
    <3> QED
      BY <3>1, <3>2, <1>2, Zenon DEF Backed
  <2> QED
    BY <2>1, <2>2
<1> QED
  BY <1>5, <1>6, <1>7 DEF CacheInv, CacheBacked, Backed

\* An entry is dropped.
LEMMA DropKeeps ==
    ASSUME CacheInv, NEW g \in Games, cache' = [cache EXCEPT ![g] = NoEntry],
           result' = result
    PROVE  CacheInv'
<1>1. /\ result \in [Matches -> Candidate \cup {NoVote}]
      /\ cache \in [Games -> [outcome : Outcomes \cup {"none"}, expiry : Int]]
      /\ \A h \in Games : Backed(h)
  BY DEF CacheInv, CacheBacked, Backed
<1>2. NoEntry \in [outcome : Outcomes \cup {"none"}, expiry : Int]
  BY DEF NoEntry
<1>3. cache' \in [Games -> [outcome : Outcomes \cup {"none"}, expiry : Int]]
  BY <1>1, <1>2, Zenon
<1>4. ASSUME NEW h \in Games PROVE Backed(h)'
  <2>1. h = g => cache'[h] = NoEntry
    BY <1>1, Zenon
  <2>2. h # g => cache'[h] = cache[h]
    BY <1>1, Zenon
  <2> QED
    BY <2>1, <2>2, <1>1, Zenon DEF Backed
<1> QED
  BY <1>1, <1>3, <1>4 DEF CacheInv, CacheBacked, Backed

\* delete_result drops the entry of the game of the result it removes.
LEMMA DeleteKeeps ==
    ASSUME CacheInv, NEW m \in Matches, DeleteResult(m)
    PROVE  CacheInv'
<1>1. /\ result \in [Matches -> Candidate \cup {NoVote}]
      /\ cache \in [Games -> [outcome : Outcomes \cup {"none"}, expiry : Int]]
      /\ \A h \in Games : Backed(h)
  BY DEF CacheInv, CacheBacked, Backed
<1>2. PICK c \in Candidate : result[m] = c
  BY <1>1 DEF DeleteResult
<1>3. /\ cache' = [cache EXCEPT ![c.game] = NoEntry]
      /\ result' = [result EXCEPT ![m] = NoVote]
  BY <1>2 DEF DeleteResult
<1>4. c.game \in Games
  BY CandidateFields
<1>5. NoEntry \in [outcome : Outcomes \cup {"none"}, expiry : Int]
  BY DEF NoEntry
<1>6. cache' \in [Games -> [outcome : Outcomes \cup {"none"}, expiry : Int]]
  BY <1>1, <1>3, <1>5, Zenon
<1>7. result' \in [Matches -> Candidate \cup {NoVote}]
  BY <1>1, <1>3, Zenon
<1>8. ASSUME NEW h \in Games PROVE Backed(h)'
  <2>1. CASE h = c.game
    BY <2>1, <1>1, <1>3, Zenon DEF Backed
  <2>2. CASE h # c.game
    <3>1. cache'[h] = cache[h]
      BY <2>2, <1>1, <1>3, Zenon
    <3>2. ASSUME NEW k \in Matches,
                 result[k] = [game |-> h, outcome |-> cache[h].outcome]
          PROVE  result'[k] = [game |-> h, outcome |-> cache'[h].outcome]
      <4>1. result[k].game = h
        BY <3>2
      <4>2. k # m
        BY <4>1, <1>2, <2>2
      <4>3. result'[k] = result[k]
        BY <4>2, <1>1, <1>3, Zenon
      <4> QED
        BY <4>3, <3>1, <3>2
    <3> QED
      BY <3>1, <3>2, <1>1, Zenon DEF Backed
  <2> QED
    BY <2>1, <2>2
<1> QED
  BY <1>6, <1>7, <1>8 DEF CacheInv, CacheBacked, Backed

\* submit_batch_results: of the entries for one game, any may be the last.
LEMMA BatchKeeps ==
    ASSUME CacheInv, now \in Nat, NEW S \in SUBSET Matches,
           NEW batch \in [S -> Candidate], SubmitBatchResults(batch)
    PROVE  CacheInv'
<1>5. now + CacheTtl \in Int
  BY ConfigAssumption
<1> DEFINE last(g) == {m \in DOMAIN batch : batch[m].game = g}
           e(g, pick) == [outcome |-> batch[pick[g]].outcome, expiry |-> now + CacheTtl]
<1>1. /\ result \in [Matches -> Candidate \cup {NoVote}]
      /\ cache \in [Games -> [outcome : Outcomes \cup {"none"}, expiry : Int]]
      /\ \A h \in Games : Backed(h)
  BY DEF CacheInv, CacheBacked, Backed
<1>2. DOMAIN batch = S
  OBVIOUS
<1>3. /\ \A m \in S : result[m] = NoVote
      /\ result' = [m \in Matches |-> IF m \in S THEN batch[m] ELSE result[m]]
  BY <1>2 DEF SubmitBatchResults
<1>4. PICK pick \in [{g \in Games : last(g) # {}} -> DOMAIN batch] :
         /\ \A g \in DOMAIN pick : pick[g] \in last(g)
         /\ cache' = [g \in Games |->
               IF g \in DOMAIN pick
               THEN e(g, pick)
               ELSE cache[g]]
  BY Zenon DEF SubmitBatchResults
<1>6. result' \in [Matches -> Candidate \cup {NoVote}]
  BY <1>1, <1>3
<1>7. ASSUME NEW g \in Games, g \in DOMAIN pick
      PROVE  /\ pick[g] \in S /\ batch[pick[g]] \in Candidate
             /\ batch[pick[g]].game = g
             /\ cache'[g] = e(g, pick)
  <2>1. pick[g] \in last(g)
    BY <1>4, <1>7
  <2> QED
    BY <2>1, <1>2, <1>4, <1>7
<1>8. ASSUME NEW g \in Games, g \notin DOMAIN pick PROVE cache'[g] = cache[g]
  BY <1>4, <1>8
<1> HIDE DEF last
<1>9. cache' \in [Games -> [outcome : Outcomes \cup {"none"}, expiry : Int]]
  <2>1. ASSUME NEW g \in Games
        PROVE  cache'[g] \in [outcome : Outcomes \cup {"none"}, expiry : Int]
    <3>1. CASE g \in DOMAIN pick
      <4>1. batch[pick[g]].outcome \in Outcomes
        BY <3>1, <1>7, CandidateFields
      <4>2. e(g, pick) \in [outcome : Outcomes \cup {"none"}, expiry : Int]
        BY <4>1, <1>5
      <4> HIDE DEF e
      <4> QED
        BY <4>2, <3>1, <1>7
    <3>2. CASE g \notin DOMAIN pick
      BY Zenon, <3>2, <1>1, <1>8
    <3> QED
      BY <3>1, <3>2
  <2>2. cache' = [g \in Games |-> cache'[g]]
    BY <1>4
  <2> QED
    BY <2>1, <2>2, Zenon
<1>10. ASSUME NEW h \in Games PROVE Backed(h)'
  <2>1. CASE h \in DOMAIN pick
    <3>1. result'[pick[h]] = batch[pick[h]]
      BY <2>1, <1>3, <1>7
    <3>2. batch[pick[h]] = [game |-> h, outcome |-> batch[pick[h]].outcome]
      BY Zenon, <2>1, <1>7, CandidateFields
    <3>3. cache'[h].outcome = batch[pick[h]].outcome
      <4>1. e(h, pick).outcome = batch[pick[h]].outcome
        OBVIOUS
      <4> HIDE DEF e
      <4> QED
        BY <4>1, <2>1, <1>7
    <3>4. pick[h] \in Matches
      BY <2>1, <1>7
    <3> QED
      BY <3>1, <3>2, <3>3, <3>4 DEF Backed
  <2>2. CASE h \notin DOMAIN pick
    <3>1. cache'[h] = cache[h]
      BY <2>2, <1>8
    <3>2. ASSUME NEW k \in Matches,
                 result[k] = [game |-> h, outcome |-> cache[h].outcome]
          PROVE  result'[k] = [game |-> h, outcome |-> cache'[h].outcome]
      <4>1. k \notin S
        BY <3>2, <1>3, BackingIsResult
      <4>2. result'[k] = result[k]
        BY <4>1, <1>3
      <4> QED
        BY <4>2, <3>1, <3>2
    <3> QED
      BY <3>1, <3>2, <1>1, Zenon DEF Backed
  <2> QED
    BY <2>1, <2>2
<1> QED
  BY <1>6, <1>9, <1>10 DEF CacheInv, CacheBacked, Backed

\* Neither results nor entries change.
LEMMA SameCache ==
    ASSUME CacheInv, UNCHANGED <<result, cache>> PROVE CacheInv'
BY DEF CacheInv, CacheBacked

-----------------------------------------------------------------------------
(* Steps. *)

\* submit_oracle_result with a first vote.
LEMMA VoteKeeps ==
    ASSUME OracleInv, NEW o \in Oracles, NEW m \in Matches, NEW c \in Candidate,
           Vote(o, m, c)
    PROVE  VoteInv' /\ CacheInv'
<1> DEFINE cand == [candidates[m] EXCEPT ![c] = @ \cup {o}]
<1>1. /\ VoteInv /\ CacheInv /\ now \in Nat /\ threshold \in Nat
      /\ vote \in [Matches -> [Oracles -> Candidate \cup {NoVote}]]
      /\ candidates \in [Matches -> [Candidate -> SUBSET Oracles]]
  BY DEF OracleInv, VoteInv, VoteType, SlashType
<1>2. /\ Eligible(o) /\ result[m] = NoVote /\ vote[m][o] = NoVote
      /\ vote' = [vote EXCEPT ![m][o] = c]
      /\ UNCHANGED <<registered, threshold>>
      /\ Finalise(m, c, cand) \/ Record(m, c, cand)
  BY DEF Vote
<1>3. CASE Record(m, c, cand)
  <2>1. VoteInv'
    BY Zenon, <1>1, <1>2, <1>3, VoteRecorded
  <2>2. CacheInv'
    <3>1. UNCHANGED result
      BY <1>3 DEF Record
    <3>2. cache' = cache \/ cache' = [cache EXCEPT ![c.game] = NoEntry]
      BY <1>3, Zenon DEF Record
    <3> QED
      BY <3>1, <3>2, <1>1, CandidateFields, DropKeeps, SameCache
  <2> QED
    BY <2>1, <2>2
<1>4. CASE Finalise(m, c, cand)
  <2>1. StoreResult(m, c) /\ SlashBps(Losers(cand, c), MinorityBps) /\ ClearVotes(m)
    BY <1>4 DEF Finalise
  <2>2. CacheInv'
    BY <2>1, <1>1, <1>2, StoreKeeps
  <2>3. cand \in [Candidate -> SUBSET Oracles]
    BY <1>1
  <2> HIDE DEF cand
  <2>4. Losers(cand, c) \in SUBSET Oracles
    BY <2>3 DEF Losers
  <2>5. StakesStep
    BY <2>1, <2>4, <1>1, <1>2, SlashStakes, SharesInRange, Zenon
  <2>6. vote' \in [Matches -> [Oracles -> Candidate \cup {NoVote}]]
    BY <1>1, <1>2, Zenon
  <2>7. \A k \in Matches \ {m} : vote'[k] = vote[k]
    BY <1>1, <1>2, Zenon
  <2>8. threshold' \in Nat
    BY <1>1, <1>2
  <2>9. VoteInv'
    BY <2>1, <2>5, <2>6, <2>7, <2>8, <1>1, VotesCleared
  <2> QED
    BY Zenon, <2>2, <2>9
<1> QED
  BY <1>2, <1>3, <1>4

\* resolve_disputed_match.
LEMMA ResolveKeeps ==
    ASSUME OracleInv, NEW m \in Matches, NEW c \in Candidate,
           ResolveDisputedMatch(m, c)
    PROVE  VoteInv' /\ CacheInv'
<1>1. /\ VoteInv /\ CacheInv /\ now \in Nat /\ threshold \in Nat
      /\ vote \in [Matches -> [Oracles -> Candidate \cup {NoVote}]]
      /\ candidates \in [Matches -> [Candidate -> SUBSET Oracles]]
  BY Zenon DEF OracleInv, VoteInv, VoteType, SlashType
<1>2. /\ result[m] = NoVote /\ StoreResult(m, c) /\ ClearVotes(m)
      /\ SlashBps(Losers(candidates[m], c), MinorityBps)
      /\ UNCHANGED <<registered, threshold, vote>>
  BY DEF ResolveDisputedMatch
<1>3. CacheInv'
  BY <1>1, <1>2, StoreKeeps
<1>4. candidates[m] \in [Candidate -> SUBSET Oracles]
  BY <1>1
<1>5. Losers(candidates[m], c) \in SUBSET Oracles
  BY <1>4 DEF Losers
<1>6. StakesStep
  BY <1>1, <1>2, <1>5, SlashStakes, SharesInRange, Zenon
<1>7. VoteInv'
  BY <1>1, <1>2, <1>6, VotesCleared
<1> QED
  BY <1>3, <1>7

\* A step that touches neither votes nor stakes keeps what is known of both.
LEMMA OthersKeepVotes ==
    ASSUME VoteInv, UNCHANGED <<registered, stake, version, votes>>,
           threshold' \in Nat
    PROVE  VoteInv'
<1>1. StakesStep
  BY SameStakes
<1> QED
  BY <1>1, VotesKept

\* The staged slashes and the clock keep their types.
LEMMA SlashTypeStep == ASSUME OracleInv, [Next]_vars PROVE SlashType'
<1>1. /\ now \in Nat /\ grace \in Nat
      /\ pending \in [Oracles -> [Matches -> [amount : Nat, eligible : Int]]]
  BY DEF OracleInv, SlashType
<1>2. ASSUME NEW o \in Oracles, NEW m \in Matches,
             NEW e \in [amount : Nat, eligible : Int],
             pending' = [pending EXCEPT ![o][m] = e], UNCHANGED <<now, grace>>
      PROVE  SlashType'
  <2>1. pending' \in [Oracles -> [Matches -> [amount : Nat, eligible : Int]]]
    BY <1>1, <1>2, Zenon
  <2> QED
    BY <2>1, <1>1, <1>2 DEF SlashType
<1>3. NoSlash \in [amount : Nat, eligible : Int]
  BY DEF NoSlash
<1>4. ASSUME NEW o \in Oracles, NEW m \in Matches, NEW a \in SlashAmounts,
             SlashOracle(o, m, a)
      PROVE  SlashType'
  <2>1. [amount |-> a, eligible |-> now + grace] \in [amount : Nat, eligible : Int]
    BY <1>1, AmountsAssumption
  <2>2. /\ pending' = [pending EXCEPT ![o][m] =
                           [amount |-> a, eligible |-> now + grace]]
        /\ UNCHANGED <<now, grace>>
    BY <1>4, Zenon DEF SlashOracle
  <2> QED
    BY Zenon, <2>1, <2>2, <1>2
<1>5. ASSUME NEW o \in Oracles, NEW m \in Matches,
             FinalizeSlash(o, m) \/ AdminCancelSlash(o, m)
      PROVE  SlashType'
  <2>1. pending' = [pending EXCEPT ![o][m] = NoSlash] /\ UNCHANGED <<now, grace>>
    BY <1>5 DEF FinalizeSlash, AdminCancelSlash, RemovePending
  <2> QED
    BY Zenon, <2>1, <1>2, <1>3
<1>6. ASSUME NEW g \in GracePeriods, SetSlashingGracePeriod(g) PROVE SlashType'
  BY <1>1, <1>6, ConfigAssumption DEF SetSlashingGracePeriod, SlashType
<1>7. CASE Tick
  BY <1>1, <1>7 DEF Tick, slashes, SlashType
<1>8. ASSUME UNCHANGED <<now, slashes>> PROVE SlashType'
  BY <1>1, <1>8 DEF slashes, SlashType
<1>9. CASE StakeStep
  BY <1>4, <1>5, <1>8, <1>9 DEF StakeStep, RegisterOracleWithStake
<1>10. CASE ResultStep
  <2>1. UNCHANGED <<now, slashes>>
    BY Zenon, <1>10 DEF ResultStep, SubmitResult, SubmitBatchResults, Vote, LateVote,
                 Equivocate, ResolveDisputedMatch, DeleteResult, GetCachedResult,
                 InvalidateCache, DropCacheEntry
  <2> QED
    BY <2>1, <1>8
<1>11. CASE AdminStep
  BY <1>6, <1>7, <1>8, <1>11
     DEF AdminStep, SetConsensusThreshold, DeactivateSlowOracle, Pause, Unpause,
         SwapIn, SwapOut
<1>12. CASE UNCHANGED vars
  BY <1>8, <1>12 DEF vars
<1> QED
  BY <1>9, <1>10, <1>11, <1>12 DEF Next

\* Every step keeps the votes, the counts and the cached answers in order.
LEMMA OracleStep == ASSUME OracleInv, [Next]_vars PROVE VoteInv' /\ CacheInv'
<1>1. /\ VoteInv /\ CacheInv /\ now \in Nat /\ threshold \in Nat
      /\ pending \in [Oracles -> [Matches -> [amount : Nat, eligible : Int]]]
  BY DEF OracleInv, VoteInv, VoteType, SlashType
<1>2. ASSUME UNCHANGED <<registered, stake, version, votes, threshold>>
      PROVE  VoteInv'
  BY <1>1, <1>2, OthersKeepVotes
<1>3. ASSUME StakesStep, UNCHANGED <<votes, threshold, result, cache>>
      PROVE  VoteInv' /\ CacheInv'
  BY <1>1, <1>3, VotesKept, SameCache
<1>4. CASE StakeStep
  <2>1. ASSUME NEW o \in Oracles, NEW a \in StakeAmounts,
               RegisterOracleWithStake(o, a)
        PROVE  VoteInv' /\ CacheInv'
    <3>1. StakesStep
      BY <2>1, <1>1, RegisterStakes
    <3>2. UNCHANGED <<votes, threshold, result, cache>>
      BY <2>1 DEF RegisterOracleWithStake
    <3> QED
      BY <3>1, <3>2, <1>3
  <2>2. ASSUME NEW o \in Oracles, NEW m \in Matches, FinalizeSlash(o, m)
        PROVE  VoteInv' /\ CacheInv'
    <3>1. pending[o][m].amount \in Nat
      BY <1>1
    <3>2. StakesStep
      BY Zenon, <2>2, <3>1, <1>1, FinalizeStakes
    <3>3. UNCHANGED <<votes, threshold, result, cache>>
      BY <2>2 DEF FinalizeSlash
    <3> QED
      BY <3>2, <3>3, <1>3
  <2>3. ASSUME NEW o \in Oracles, NEW m \in Matches,
               AdminCancelSlash(o, m) \/ \E a \in SlashAmounts : SlashOracle(o, m, a)
        PROVE  VoteInv' /\ CacheInv'
    <3>1. UNCHANGED <<registered, stake, version, votes, threshold, result, cache>>
      BY <2>3 DEF AdminCancelSlash, SlashOracle
    <3> QED
      BY <3>1, <1>1, <1>2, SameCache
  <2> QED
    BY <1>4, <2>1, <2>2, <2>3 DEF StakeStep
<1>5. CASE ResultStep
  <2>1. ASSUME NEW m \in Matches, NEW c \in Candidate, SubmitResult(m, c)
        PROVE  VoteInv' /\ CacheInv'
    <3>1. /\ UNCHANGED <<registered, stake, version, votes, threshold>>
          /\ result[m] = NoVote /\ StoreResult(m, c)
      BY <2>1 DEF SubmitResult
    <3> QED
      BY <3>1, <1>1, <1>2, StoreKeeps
  <2>2. ASSUME NEW S \in SUBSET Matches, NEW batch \in [S -> Candidate],
               SubmitBatchResults(batch)
        PROVE  VoteInv' /\ CacheInv'
    <3>1. UNCHANGED <<registered, stake, version, votes, threshold>>
      BY Zenon, <2>2 DEF SubmitBatchResults
    <3> QED
      BY Zenon, <2>2, <3>1, <1>1, <1>2, BatchKeeps
  <2>3. ASSUME NEW o \in Oracles, NEW m \in Matches, NEW c \in Candidate,
               LateVote(o, m, c) \/ Equivocate(o, m, c)
        PROVE  VoteInv' /\ CacheInv'
    <3>1. /\ SlashBps({o}, MinorityBps) \/ SlashBps({o}, EquivocationBps)
          /\ UNCHANGED <<registered, votes, threshold, result, cache>>
      BY Zenon, <2>3 DEF LateVote, Equivocate
    <3>2. {o} \in SUBSET Oracles
      OBVIOUS
    <3>3. StakesStep
      BY <3>1, <3>2, <1>1, SlashStakes, SharesInRange, Zenon
    <3> QED
      BY <3>1, <3>3, <1>3
  <2>4. ASSUME NEW m \in Matches, DeleteResult(m) PROVE VoteInv' /\ CacheInv'
    <3>1. UNCHANGED <<registered, stake, version, votes, threshold>>
      BY <2>4 DEF DeleteResult
    <3> QED
      BY <2>4, <3>1, <1>1, <1>2, DeleteKeeps
  <2>5. ASSUME NEW g \in Games, DropCacheEntry(g) PROVE VoteInv' /\ CacheInv'
    <3>1. /\ UNCHANGED <<registered, stake, version, votes, threshold, result>>
          /\ cache' = [cache EXCEPT ![g] = NoEntry]
      BY <2>5 DEF DropCacheEntry
    <3> QED
      BY Zenon, <3>1, <1>1, <1>2, DropKeeps
  <2> QED
    BY Zenon, <1>5, <2>1, <2>2, <2>3, <2>4, <2>5, VoteKeeps, ResolveKeeps
       DEF ResultStep, GetCachedResult, InvalidateCache
<1>6. CASE AdminStep
  <2>1. UNCHANGED <<registered, stake, version, votes, result, cache>>
    BY Zenon, <1>6 DEF AdminStep, SetConsensusThreshold, SetSlashingGracePeriod,
                DeactivateSlowOracle, Pause, Unpause, SwapIn, SwapOut, Tick
  <2>2. threshold' = threshold \/ threshold' \in Thresholds
    BY <1>6 DEF AdminStep, SetConsensusThreshold, SetSlashingGracePeriod,
                DeactivateSlowOracle, Pause, Unpause, SwapIn, SwapOut, Tick
  <2>3. threshold' \in Nat
    BY Zenon, <2>2, <1>1, ConfigAssumption
  <2> QED
    BY Zenon, <2>1, <2>3, <1>1, OthersKeepVotes, SameCache
<1>7. CASE UNCHANGED vars
  <2>1. UNCHANGED <<registered, stake, version, votes, threshold, result, cache>>
    BY <1>7 DEF vars
  <2> QED
    BY <2>1, <1>1, <1>2, SameCache
<1> QED
  BY <1>4, <1>5, <1>6, <1>7 DEF Next

-----------------------------------------------------------------------------
(* Decisions. *)

\* Only a first vote writes OracleVote or opens a dispute.
LEMMA VotesAlone ==
    ASSUME OracleInv, [Next]_vars, NEW m \in Matches,
           vote'[m] # vote[m] \/ (disputed'[m] /\ ~disputed[m])
    PROVE  \E o \in Oracles, c \in Candidate : Vote(o, m, c)
<1>1. /\ vote \in [Matches -> [Oracles -> Candidate \cup {NoVote}]]
      /\ disputed \in [Matches -> BOOLEAN]
  BY DEF OracleInv, VoteInv, VoteType
<1>2. ~UNCHANGED <<vote, disputed>>
  OBVIOUS
<1>3. ~UNCHANGED votes
  BY <1>2 DEF votes
<1>4. ASSUME NEW k \in Matches, ClearVotes(k) PROVE disputed'[m] => disputed[m]
  BY Zenon, <1>1, <1>4 DEF ClearVotes
<1>5. ASSUME NEW k \in Matches, NEW c \in Candidate, ResolveDisputedMatch(k, c)
      PROVE  FALSE
  BY Zenon, <1>4, <1>5 DEF ResolveDisputedMatch
<1>6. ASSUME NEW o \in Oracles, NEW k \in Matches, NEW c \in Candidate, Vote(o, k, c)
      PROVE  k = m
  <2> SUFFICES ASSUME k # m PROVE FALSE
    OBVIOUS
  <2>1. vote' = [vote EXCEPT ![k][o] = c]
    BY <1>6 DEF Vote
  <2>2. vote'[m] = vote[m]
    BY <2>1, <1>1, Zenon
  <2>3. ClearVotes(k) \/ \E b \in BOOLEAN : disputed' = [disputed EXCEPT ![k] = b]
    BY Zenon, <1>6 DEF Vote, Finalise, Record, Deadlocked
  <2>4. disputed'[m] => disputed[m]
    BY Zenon, <2>3, <1>1, <1>4
  <2> QED
    BY <2>2, <2>4
<1>7. ~StakeStep
  BY <1>3 DEF StakeStep, RegisterOracleWithStake, SlashOracle, FinalizeSlash,
              AdminCancelSlash
<1>8. ~AdminStep
  BY Zenon, <1>3 DEF AdminStep, SetConsensusThreshold, SetSlashingGracePeriod,
              DeactivateSlowOracle, Pause, Unpause, SwapIn, SwapOut, Tick
<1>9. ResultStep
  BY Zenon, <1>3, <1>7, <1>8 DEF Next, vars
<1>10. \E o \in Oracles, k \in Matches, c \in Candidate : Vote(o, k, c)
  BY Zenon, <1>3, <1>5, <1>9
     DEF ResultStep, SubmitResult, SubmitBatchResults, LateVote, Equivocate,
         DeleteResult, GetCachedResult, InvalidateCache, DropCacheEntry
<1> QED
  BY Zenon, <1>6, <1>10

\* A deadlock is found with the exact count, against every candidate.
LEMMA DisputeStep ==
    ASSUME OracleInv, [Next]_vars, NEW m \in Matches,
           disputed'[m], ~disputed[m], NEW d \in Candidate
    PROVE  Cardinality(candidates'[m][d])
             + Cardinality(Remaining(m, vote'[m])) < threshold
<1>1. PICK o \in Oracles, c \in Candidate : Vote(o, m, c)
  BY Zenon, VotesAlone
<1>2. /\ VoteInv /\ threshold \in Nat
      /\ vote \in [Matches -> [Oracles -> Candidate \cup {NoVote}]]
      /\ candidates \in [Matches -> [Candidate -> SUBSET Oracles]]
      /\ disputed \in [Matches -> BOOLEAN]
  BY DEF OracleInv, VoteInv, VoteType
<1> DEFINE cand == [candidates[m] EXCEPT ![c] = @ \cup {o}]
           n == RemainingEligible(m, vote'[m])
<1>3. /\ Eligible(o) /\ vote[m][o] = NoVote /\ vote' = [vote EXCEPT ![m][o] = c]
      /\ Finalise(m, c, cand) \/ Record(m, c, cand)
  BY <1>1 DEF Vote
<1>4. ~Finalise(m, c, cand)
  BY <1>2 DEF Finalise, ClearVotes
<1>5. /\ candidates' = [candidates EXCEPT ![m] = cand]
      /\ disputed' = [disputed EXCEPT ![m] = Deadlocked(cand, n)]
  BY <1>3, <1>4 DEF Record
<1>6. n = Cardinality(Remaining(m, vote'[m])) /\ n \in Nat
  <2>1. RemainingEligible(m, vote'[m]) = Cardinality(Remaining(m, vote'[m]))
    BY <1>2, <1>3, CountExact, Zenon
  <2>2. Cardinality(Remaining(m, vote'[m])) \in Nat
    BY RemainingFinite, Zenon
  <2> QED
    BY <2>1, <2>2, Zenon
<1>7. cand \in [Candidate -> SUBSET Oracles] /\ o \in cand[c]
  BY <1>2
<1> HIDE DEF cand, n
<1>8. Deadlocked(cand, n) /\ candidates'[m] = cand
  BY <1>2, <1>5
<1>9. ASSUME NEW x \in Candidate
      PROVE  Cardinality(cand[x]) \in Nat /\ (cand[x] = {} <=> Cardinality(cand[x]) = 0)
  <2>1. IsFiniteSet(cand[x])
    BY Zenon, <1>7, OraclesAssumption, FS_Subset
  <2> QED
    BY <2>1, FS_CardinalityType, FS_EmptySet
<1>10. ASSUME NEW x \in Candidate, cand[x] # {}
       PROVE  Cardinality(cand[x]) + n < threshold
  BY <1>2, <1>6, <1>8, <1>9, <1>10 DEF Deadlocked, Reaches
<1>11. n < threshold
  <2>1. Cardinality(cand[c]) + n < threshold
    BY <1>7, <1>10
  <2> QED
    BY <2>1, <1>2, <1>6, <1>9
<1>12. Cardinality(cand[d]) + n < threshold
  <2>1. CASE cand[d] = {}
    BY <2>1, <1>6, <1>9, <1>11
  <2>2. CASE cand[d] # {}
    BY <2>2, <1>10
  <2> QED
    BY Zenon, <2>1, <2>2
<1> QED
  BY Zenon, <1>6, <1>8, <1>12

\* A result that comes with a vote has the votes of its submitters.
LEMMA ResultVoteStep ==
    ASSUME OracleInv, [Next]_vars, NEW m \in Matches,
           vote'[m] # vote[m], result'[m] # result[m]
    PROVE  Cardinality({q \in Oracles : vote'[m][q] = result'[m]}) >= threshold
<1>1. PICK o \in Oracles, c \in Candidate : Vote(o, m, c)
  BY Zenon, VotesAlone
<1>2. /\ threshold \in Nat /\ SubmittersVoted
      /\ vote \in [Matches -> [Oracles -> Candidate \cup {NoVote}]]
      /\ candidates \in [Matches -> [Candidate -> SUBSET Oracles]]
      /\ result \in [Matches -> Candidate \cup {NoVote}]
  BY DEF OracleInv, VoteInv, VoteType, CacheInv
<1> DEFINE cand == [candidates[m] EXCEPT ![c] = @ \cup {o}]
           behind == {q \in Oracles : vote'[m][q] = c}
<1>3. /\ vote' = [vote EXCEPT ![m][o] = c]
      /\ Record(m, c, cand) \/ (Finalise(m, c, cand) /\ Reaches(Cardinality(cand[c])))
  BY <1>1 DEF Vote
<1>4. ~Record(m, c, cand)
  BY DEF Record
<1>5. result'[m] = c /\ Cardinality(cand[c]) >= threshold
  BY <1>2, <1>3, <1>4 DEF Finalise, StoreResult, Reaches
<1>6. cand[c] = candidates[m][c] \cup {o}
  BY <1>2
<1>7. vote'[m] = [vote[m] EXCEPT ![o] = c]
  BY <1>2, <1>3
<1>8. cand[c] \in SUBSET behind
  <2> SUFFICES ASSUME NEW q \in cand[c] PROVE q \in Oracles /\ vote'[m][q] = c
    BY Zenon
  <2>1. q \in Oracles
    BY <1>2, <1>6
  <2>2. q # o => vote[m][q] = c
    BY <2>1, <1>2, <1>6 DEF SubmittersVoted
  <2> QED
    BY <2>1, <2>2, <1>2, <1>7
<1> HIDE DEF cand
<1>9. behind \in SUBSET Oracles
  OBVIOUS
<1> HIDE DEF behind
<1>10. IsFiniteSet(behind)
  BY <1>9, OraclesAssumption, FS_Subset, Zenon
<1>11. Cardinality(cand[c]) <= Cardinality(behind) /\ IsFiniteSet(cand[c])
  BY <1>8, <1>10, FS_Subset, Zenon
<1>12. Cardinality(cand[c]) \in Nat /\ Cardinality(behind) \in Nat
  BY <1>10, <1>11, FS_CardinalityType, Zenon
<1>13. Cardinality(behind) >= threshold
  BY <1>2, <1>5, <1>11, <1>12
<1> QED
  <2>1. {q \in Oracles : vote'[m][q] = result'[m]} = behind
    BY <1>5 DEF behind
  <2> QED
    BY <2>1, <1>13

-----------------------------------------------------------------------------
\* The invariant holds from the start and through every step.
LEMMA OracleInvariant == Spec => []OracleInv
<1>1. Init => OracleInv
  <2> SUFFICES ASSUME Init PROVE OracleInv
    OBVIOUS
  <2>1. VoteType
    BY DEF Init, VoteType, NoVotes, NoTally
  <2>2. StakedRegistered /\ SubmittersVoted
    BY DEF Init, StakedRegistered, SubmittersVoted, NoVotes
  <2>3. \A m \in Matches : TallyOK(m)
    BY DEF Init, TallyOK, NoTally
  <2>4. SlashType
    <3>1. /\ now = 0 /\ grace = 0
          /\ pending = [o \in Oracles |-> [m \in Matches |-> NoSlash]]
      BY Zenon DEF Init
    <3> QED
      BY <3>1 DEF SlashType, NoSlash
  <2>5. CacheInv
    <3>1. /\ result = [m \in Matches |-> NoVote]
          /\ cache = [g \in Games |-> NoEntry]
      BY Zenon DEF Init
    <3> QED
      BY <3>1 DEF CacheInv, CacheBacked, NoEntry
  <2> QED
    BY <2>1, <2>2, <2>3, <2>4, <2>5 DEF OracleInv, VoteInv
<1>2. OracleInv /\ [Next]_vars => OracleInv'
  BY OracleStep, SlashTypeStep DEF OracleInv
<1> QED
  BY <1>1, <1>2, PTL DEF Spec

\* For any finite set of oracles and any games, stakes and thresholds: the
\* cached count of voters is what a recount gives, submitters are listed under
\* what they voted for, and every cached answer is that of a stored result.
THEOREM RecordsProved == Spec => []RecordsExact
<1>1. OracleInv => RecordsExact
  BY DEF OracleInv, VoteInv, CacheInv, TallyOK, RecordsExact, TallyExact
<1> QED
  BY <1>1, OracleInvariant, PTL

\* For any finite set of oracles: a match is disputed only when no candidate can
\* reach the threshold, and a vote decides a match only with as many recorded
\* votes for the result as the threshold asks for.
THEOREM DecisionsProved == Spec => DecisionsJustified
<1> DEFINE Dispute(m) == disputed'[m] /\ ~disputed[m] =>
               \A c \in Candidate :
                   Cardinality(candidates'[m][c])
                     + Cardinality(Remaining(m, vote'[m])) < threshold
           Result(m) == vote'[m] # vote[m] /\ result'[m] # result[m] =>
               Cardinality({o \in Oracles : vote'[m][o] = result'[m]}) >= threshold
<1>1. OracleInv /\ [Next]_vars => [\A m \in Matches : Dispute(m)]_vars
  BY Zenon, DisputeStep
<1>2. OracleInv /\ [Next]_vars => [\A m \in Matches : Result(m)]_vars
  BY ResultVoteStep
<1>3. Spec => DisputeJustified
  BY <1>1, OracleInvariant, PTL DEF Spec, DisputeJustified
<1>4. Spec => VotesBehindResult
  BY <1>2, OracleInvariant, PTL DEF Spec, VotesBehindResult
<1> QED
  BY <1>3, <1>4, PTL DEF DecisionsJustified

-----------------------------------------------------------------------------
(* Lists of staged slashes. *)

\* The list of an oracle names the matches with a staged slash, each once.
ListOK(o) ==
    /\ Named(pendingList[o]) = {m \in Matches : pending[o][m] # NoSlash}
    /\ NamesOnce(pendingList[o])

ListInv ==
    /\ pendingList \in [Oracles -> Seq(Matches)]
    /\ \A o \in Oracles : ListOK(o)

\* A step that stages a slash, and one that removes a staged slash.
LEMMA StageKeepsLists ==
    ASSUME SlashType, ListInv, NEW o \in Oracles, NEW m \in Matches,
           NEW a \in SlashAmounts, SlashOracle(o, m, a)
    PROVE  ListInv'
<1> DEFINE e == [amount |-> a, eligible |-> now + grace]
<1>1. /\ pending[o][m] = NoSlash
      /\ pending' = [pending EXCEPT ![o][m] = e]
      /\ pendingList' = [pendingList EXCEPT ![o] = Append(@, m)]
  BY Zenon DEF SlashOracle
<1>2. e # NoSlash
  <2>1. a # 0
    BY AmountsAssumption
  <2>2. e.amount = a /\ NoSlash.amount = 0
    BY DEF NoSlash
  <2> QED
    BY <2>1, <2>2
<1> HIDE DEF e
<1>3. /\ pending \in [Oracles -> [Matches -> [amount : Nat, eligible : Int]]]
      /\ pendingList \in [Oracles -> Seq(Matches)]
      /\ \A p \in Oracles : ListOK(p)
  BY DEF SlashType, ListInv
<1>4. m \notin Named(pendingList[o]) /\ NamesOnce(pendingList[o])
      /\ pendingList[o] \in Seq(Matches)
  BY <1>1, <1>3, Zenon DEF ListOK
<1> DEFINE t == Append(pendingList[o], m)
<1>5. t \in Seq(Matches) /\ NamesOnce(t) /\ Named(t) = Named(pendingList[o]) \cup {m}
  BY <1>4, AppendKeeps, Zenon
<1>6. pendingList' = [pendingList EXCEPT ![o] = t]
  BY <1>1
<1> HIDE DEF t
<1>7. pendingList' \in [Oracles -> Seq(Matches)]
  BY <1>3, <1>5, <1>6, Zenon
<1>8. ASSUME NEW p \in Oracles PROVE ListOK(p)'
  <2>1. CASE p = o
    <3>1. pendingList'[p] = t
      BY <1>3, <1>6, <2>1, Zenon
    <3>2. \A k \in Matches : pending'[p][k] = IF k = m THEN e ELSE pending[o][k]
      BY <1>1, <1>3, <2>1, Zenon
    <3>3. {k \in Matches : pending'[p][k] # NoSlash}
              = {k \in Matches : pending[o][k] # NoSlash} \cup {m}
      BY <1>2, <3>2, Zenon
    <3>4. Named(pendingList[o]) = {k \in Matches : pending[o][k] # NoSlash}
      BY <1>3, Zenon DEF ListOK
    <3>5. Named(t) = {k \in Matches : pending'[p][k] # NoSlash}
      BY <1>5, <3>3, <3>4, Zenon
    <3> QED
      BY <1>5, <3>1, <3>5 DEF ListOK
  <2>2. CASE p # o
    <3>1. pendingList'[p] = pendingList[p] /\ pending'[p] = pending[p]
      BY <1>1, <1>3, <1>6, <2>2, Zenon
    <3> QED
      BY <1>3, <3>1 DEF ListOK
  <2> QED
    BY Zenon, <2>1, <2>2
<1> QED
  BY <1>7, <1>8 DEF ListInv

LEMMA RemoveKeepsLists ==
    ASSUME SlashType, ListInv, NEW o \in Oracles, NEW m \in Matches,
           pending[o][m] # NoSlash, RemovePending(o, m)
    PROVE  ListInv'
<1>1. /\ pending' = [pending EXCEPT ![o][m] = NoSlash]
      /\ pendingList' = [pendingList EXCEPT ![o] = Without(@, m)]
  BY DEF RemovePending
<1>3. /\ pending \in [Oracles -> [Matches -> [amount : Nat, eligible : Int]]]
      /\ pendingList \in [Oracles -> Seq(Matches)]
      /\ \A p \in Oracles : ListOK(p)
  BY DEF SlashType, ListInv
<1>4. m \in Named(pendingList[o]) /\ NamesOnce(pendingList[o])
      /\ pendingList[o] \in Seq(Matches)
  BY <1>3, Zenon DEF ListOK
<1> DEFINE t == Without(pendingList[o], m)
<1>5. t \in Seq(Matches) /\ NamesOnce(t) /\ Named(t) = Named(pendingList[o]) \ {m}
  BY <1>4, WithoutKeeps, Zenon
<1>6. pendingList' = [pendingList EXCEPT ![o] = t]
  BY <1>1, Zenon
<1> HIDE DEF t
<1>7. pendingList' \in [Oracles -> Seq(Matches)]
  BY <1>3, <1>5, <1>6, Zenon
<1>8. ASSUME NEW p \in Oracles PROVE ListOK(p)'
  <2>1. CASE p = o
    <3>1. pendingList'[p] = t
      BY <1>3, <1>6, <2>1, Zenon
    <3>2. \A k \in Matches : pending'[p][k] = IF k = m THEN NoSlash ELSE pending[o][k]
      BY <1>1, <1>3, <2>1, Zenon
    <3>3. {k \in Matches : pending'[p][k] # NoSlash}
              = {k \in Matches : pending[o][k] # NoSlash} \ {m}
      BY <3>2, Zenon
    <3>4. Named(pendingList[o]) = {k \in Matches : pending[o][k] # NoSlash}
      BY <1>3, Zenon DEF ListOK
    <3>5. Named(t) = {k \in Matches : pending'[p][k] # NoSlash}
      BY <1>5, <3>3, <3>4, Zenon
    <3> QED
      BY <1>5, <3>1, <3>5 DEF ListOK
  <2>2. CASE p # o
    <3>1. pendingList'[p] = pendingList[p] /\ pending'[p] = pending[p]
      BY <1>1, <1>3, <1>6, <2>2, Zenon
    <3> QED
      BY <1>3, <3>1 DEF ListOK
  <2> QED
    BY Zenon, <2>1, <2>2
<1> QED
  BY <1>7, <1>8 DEF ListInv

\* Every step keeps the lists of staged slashes exact.
LEMMA ListStep == ASSUME SlashType, ListInv, [Next]_vars PROVE ListInv'
<1>1. ASSUME UNCHANGED <<pending, pendingList>> PROVE ListInv'
  BY <1>1 DEF ListInv, ListOK
<1>2. CASE StakeStep
  <2>1. ASSUME NEW o \in Oracles, NEW m \in Matches,
               FinalizeSlash(o, m) \/ AdminCancelSlash(o, m)
        PROVE  pending[o][m] # NoSlash /\ RemovePending(o, m)
    BY <2>1 DEF FinalizeSlash, AdminCancelSlash
  <2>2. ASSUME NEW o \in Oracles, NEW a \in StakeAmounts,
               RegisterOracleWithStake(o, a)
        PROVE  UNCHANGED <<pending, pendingList>>
    BY <2>2 DEF RegisterOracleWithStake, slashes
  <2> QED
    BY Zenon, <1>1, <1>2, <2>1, <2>2, StageKeepsLists, RemoveKeepsLists DEF StakeStep
<1>3. CASE ResultStep
  <2>1. UNCHANGED slashes
    BY Zenon, <1>3 DEF ResultStep, SubmitResult, SubmitBatchResults, Vote, LateVote,
                 Equivocate, ResolveDisputedMatch, DeleteResult, GetCachedResult,
                 InvalidateCache, DropCacheEntry
  <2> QED
    BY <1>1, <2>1 DEF slashes
<1>4. CASE AdminStep
  <2>1. UNCHANGED <<pending, pendingList>>
    BY <1>4 DEF AdminStep, SetConsensusThreshold, SetSlashingGracePeriod,
                DeactivateSlowOracle, Pause, Unpause, SwapIn, SwapOut, Tick, slashes
  <2> QED
    BY <1>1, <2>1
<1>5. CASE UNCHANGED vars
  BY <1>1, <1>5 DEF vars, slashes
<1> QED
  BY <1>2, <1>3, <1>4, <1>5 DEF Next

-----------------------------------------------------------------------------
(* The balance. *)

\* The contract holds the stakes and what swaps brought in.
FundsInv ==
    /\ balance \in Nat /\ swapped \in Int
    /\ balance = SumOver(stake, Oracles) + swapped

\* The types that no other invariant needs.
AdminType ==
    /\ threshold \in Nat \ {0}
    /\ metered \in SUBSET (Oracles \cup {Admin}) /\ inactive \in SUBSET Oracles
    /\ paused \in BOOLEAN

\* What is taken of a stake and what is left make it up.
LEMMA RestOf ==
    ASSUME NEW a \in Nat, NEW b \in Nat, b <= a
    PROVE  a - b \in Nat /\ a = a - b + b
  OBVIOUS

\* slash_bps pays out what it takes from the stakes.
LEMMA SlashFunds ==
    ASSUME VoteInv, FundsInv, NEW S \in SUBSET Oracles, NEW bps \in BasisPoints,
           SlashBps(S, bps), swapped' = swapped
    PROVE  FundsInv'
<1> DEFINE taken == Taken(S, bps)
<1>1. /\ stake' = [o \in Oracles |-> stake[o] - taken[o]]
      /\ balance >= Total(taken) /\ balance' = balance - Total(taken)
  BY Zenon DEF SlashBps
<1>2. \A o \in Oracles : stake[o] \in Nat /\ taken[o] \in Nat /\ taken[o] <= stake[o]
  BY TakenBound, Zenon
<1> HIDE DEF taken
<1>3. \A o \in Oracles : /\ stake'[o] \in Nat /\ taken[o] \in Nat
                         /\ stake[o] = stake'[o] + taken[o]
  <2> SUFFICES ASSUME NEW o \in Oracles
               PROVE  /\ stake'[o] \in Nat /\ taken[o] \in Nat
                      /\ stake[o] = stake'[o] + taken[o]
    OBVIOUS
  <2>1. stake'[o] = stake[o] - taken[o]
    BY <1>1, Zenon
  <2> QED
    BY <1>2, <2>1, RestOf, Zenon
<1>4. SumOver(stake, Oracles) = SumOver(stake', Oracles) + SumOver(taken, Oracles)
  BY <1>3, OraclesAssumption, SumPlus, Zenon
<1>5. SumOver(stake', Oracles) \in Nat /\ SumOver(taken, Oracles) \in Nat
  BY <1>3, OraclesAssumption, SumType, Zenon
<1>6. SumOver(stake, Oracles)' = SumOver(stake', Oracles)
  OBVIOUS
<1>7. /\ balance \in Nat /\ swapped \in Int
      /\ balance = SumOver(stake, Oracles) + swapped
  BY DEF FundsInv
<1>8. /\ balance >= SumOver(taken, Oracles)
      /\ balance' = balance - SumOver(taken, Oracles)
  BY <1>1 DEF Total
<1>9. /\ balance' \in Nat /\ swapped' \in Int
      /\ balance' = SumOver(stake', Oracles) + swapped'
  BY <1>4, <1>5, <1>7, <1>8
<1> QED
  BY Zenon, <1>6, <1>9 DEF FundsInv

\* A change of one stake changes the balance by as much.
LEMMA OneStakeFunds ==
    ASSUME VoteInv, FundsInv, NEW o \in Oracles, NEW s \in Nat,
           stake' = [stake EXCEPT ![o] = s], swapped' = swapped,
           balance' = (balance - stake[o]) + s, balance' \in Nat
    PROVE  FundsInv'
<1>1. stake \in [Oracles -> Nat]
  BY DEF VoteInv, VoteType
<1>2. stake'[o] = s /\ stake[o] \in Nat
  BY <1>1, Zenon
<1>3. \A p \in Oracles : stake[p] \in Nat /\ stake'[p] \in Nat
  BY <1>1, Zenon
<1>4. \A p \in Oracles : p # o => stake'[p] = stake[p]
  BY <1>1, Zenon
<1>5. SumOver(stake', Oracles) + stake[o] = SumOver(stake, Oracles) + stake'[o]
  <2> DEFINE g == stake'
  <2>1. /\ \A p \in Oracles : stake[p] \in Nat /\ g[p] \in Nat
        /\ \A p \in Oracles : p # o => g[p] = stake[p]
    BY <1>3, <1>4, Zenon
  <2> HIDE DEF g
  <2>2. SumOver(g, Oracles) + stake[o] = SumOver(stake, Oracles) + g[o]
    BY <2>1, OraclesAssumption, SumChange
  <2> QED
    BY <2>2 DEF g
<1>6. SumOver(stake', Oracles) \in Nat /\ SumOver(stake, Oracles) \in Nat
  BY <1>3, OraclesAssumption, SumType, Zenon
<1>7. /\ balance \in Nat /\ swapped \in Int
      /\ balance = SumOver(stake, Oracles) + swapped
  BY DEF FundsInv
<1>8. balance' = SumOver(stake', Oracles) + swapped'
  BY <1>2, <1>5, <1>6, <1>7
<1> QED
  BY <1>7, <1>8 DEF FundsInv

\* Every step keeps the balance equal to the stakes and the swaps.
LEMMA FundsStep == ASSUME OracleInv, FundsInv, [Next]_vars PROVE FundsInv'
<1>1. /\ VoteInv /\ stake \in [Oracles -> Nat]
      /\ candidates \in [Matches -> [Candidate -> SUBSET Oracles]]
      /\ pending \in [Oracles -> [Matches -> [amount : Nat, eligible : Int]]]
  BY DEF OracleInv, VoteInv, VoteType, SlashType
<1>2. balance \in Nat /\ swapped \in Int
  BY DEF FundsInv
<1>3. ASSUME UNCHANGED <<stake, balance, swapped>> PROVE FundsInv'
  BY <1>3 DEF FundsInv
<1>4. CASE StakeStep
  <2>1. ASSUME NEW o \in Oracles, NEW a \in StakeAmounts,
               RegisterOracleWithStake(o, a)
        PROVE  FundsInv'
    <3>1. /\ stake' = [stake EXCEPT ![o] = stake[o] + a]
          /\ balance' = balance + a /\ swapped' = swapped
      BY <2>1, Zenon DEF RegisterOracleWithStake
    <3>2. a \in Nat /\ stake[o] \in Nat
      BY <1>1, AmountsAssumption
    <3>3. /\ stake[o] + a \in Nat /\ balance' \in Nat
          /\ balance' = (balance - stake[o]) + (stake[o] + a)
      BY <1>2, <3>1, <3>2
    <3> QED
      BY <1>1, <3>1, <3>3, OneStakeFunds, Zenon
  <2>2. ASSUME NEW o \in Oracles, NEW m \in Matches, FinalizeSlash(o, m)
        PROVE  FundsInv'
    <3> DEFINE amount == IF pending[o][m].amount < stake[o]
                         THEN pending[o][m].amount ELSE stake[o]
    <3>1. /\ stake' = [stake EXCEPT ![o] = stake[o] - amount]
          /\ balance >= amount /\ balance' = balance - amount /\ swapped' = swapped
      BY <2>2, Zenon DEF FinalizeSlash
    <3>2. stake[o] \in Nat /\ amount \in Nat /\ amount <= stake[o]
      BY <1>1
    <3> HIDE DEF amount
    <3>3. /\ stake[o] - amount \in Nat /\ balance' \in Nat
          /\ balance' = (balance - stake[o]) + (stake[o] - amount)
      BY <1>2, <3>1, <3>2
    <3> QED
      BY <1>1, <3>1, <3>3, OneStakeFunds, Zenon
  <2>3. ASSUME NEW o \in Oracles, NEW m \in Matches,
               AdminCancelSlash(o, m) \/ \E a \in SlashAmounts : SlashOracle(o, m, a)
        PROVE  FundsInv'
    BY <1>3, <2>3 DEF AdminCancelSlash, SlashOracle
  <2> QED
    BY <1>4, <2>1, <2>2, <2>3 DEF StakeStep
<1>5. CASE ResultStep
  <2>1. ASSUME NEW o \in Oracles, NEW m \in Matches, NEW c \in Candidate,
               LateVote(o, m, c) \/ Equivocate(o, m, c)
        PROVE  FundsInv'
    <3>1. /\ SlashBps({o}, MinorityBps) \/ SlashBps({o}, EquivocationBps)
          /\ swapped' = swapped
      BY Zenon, <2>1 DEF LateVote, Equivocate
    <3>2. {o} \in SUBSET Oracles
      OBVIOUS
    <3> QED
      BY <1>1, <3>1, <3>2, SlashFunds, SharesInRange, Zenon
  <2>2. ASSUME NEW o \in Oracles, NEW m \in Matches, NEW c \in Candidate,
               Vote(o, m, c)
        PROVE  FundsInv'
    <3> DEFINE cand == [candidates[m] EXCEPT ![c] = @ \cup {o}]
    <3>1. swapped' = swapped /\ (Finalise(m, c, cand) \/ Record(m, c, cand))
      BY <2>2 DEF Vote
    <3>2. cand \in [Candidate -> SUBSET Oracles]
      BY <1>1
    <3> HIDE DEF cand
    <3>3. Losers(cand, c) \in SUBSET Oracles
      BY <3>2 DEF Losers
    <3>4. CASE Finalise(m, c, cand)
      <4>1. SlashBps(Losers(cand, c), MinorityBps)
        BY Zenon, <3>4 DEF Finalise
      <4> QED
        BY <1>1, <3>1, <3>3, <4>1, SlashFunds, SharesInRange, Zenon
    <3>5. CASE Record(m, c, cand)
      BY <1>3, <3>1, <3>5 DEF Record
    <3> QED
      BY <3>1, <3>4, <3>5
  <2>3. ASSUME NEW m \in Matches, NEW c \in Candidate, ResolveDisputedMatch(m, c)
        PROVE  FundsInv'
    <3>1. candidates[m] \in [Candidate -> SUBSET Oracles]
      BY <1>1
    <3>2. Losers(candidates[m], c) \in SUBSET Oracles
      BY Zenon, <3>1 DEF Losers
    <3>3. SlashBps(Losers(candidates[m], c), MinorityBps) /\ swapped' = swapped
      BY Zenon, <2>3 DEF ResolveDisputedMatch
    <3> QED
      BY <1>1, <3>2, <3>3, SlashFunds, SharesInRange, Zenon
  <2> QED
    BY Zenon, <1>3, <1>5, <2>1, <2>2, <2>3
       DEF ResultStep, SubmitResult, SubmitBatchResults, DeleteResult,
           GetCachedResult, InvalidateCache, DropCacheEntry
<1>6. CASE AdminStep
  <2>1. ASSUME NEW a \in SwapAmounts, SwapIn(a) \/ SwapOut(a) PROVE FundsInv'
    <3>1. /\ stake' = stake
          /\ \/ balance' = balance + a /\ swapped' = swapped + a
             \/ /\ balance >= a
                /\ balance' = balance - a /\ swapped' = swapped - a
      BY <2>1 DEF SwapIn, SwapOut
    <3>2. a \in Nat
      BY AmountsAssumption
    <3>3. \A p \in Oracles : stake[p] \in Nat
      BY <1>1, Zenon
    <3>4. SumOver(stake, Oracles) \in Nat
      BY <3>3, OraclesAssumption, SumType, Zenon
    <3>5. SumOver(stake, Oracles)' = SumOver(stake, Oracles)
      BY <3>1, Zenon
    <3> QED
      BY <1>2, <3>1, <3>2, <3>4, <3>5 DEF FundsInv
  <2> QED
    BY <1>3, <1>6, <2>1
       DEF AdminStep, SetConsensusThreshold, SetSlashingGracePeriod,
           DeactivateSlowOracle, Pause, Unpause, Tick
<1>7. CASE UNCHANGED vars
  BY <1>3, <1>7 DEF vars
<1> QED
  BY <1>4, <1>5, <1>6, <1>7 DEF Next

\* The remaining types.
LEMMA AdminTypeStep == ASSUME AdminType, [Next]_vars PROVE AdminType'
<1>1. ASSUME UNCHANGED <<threshold, meters, paused>> PROVE AdminType'
  BY Zenon, <1>1 DEF AdminType, meters
<1>2. CASE StakeStep
  BY <1>1, <1>2 DEF StakeStep, RegisterOracleWithStake, SlashOracle,
                    FinalizeSlash, AdminCancelSlash
<1>3. CASE ResultStep
  <2>1. ASSUME NEW x \in Oracles \cup {Admin}, metered' = metered \cup {x},
               UNCHANGED <<threshold, inactive, paused>>
        PROVE  AdminType'
    BY <2>1 DEF AdminType
  <2> QED
    BY Zenon, <1>1, <1>3, <2>1
       DEF ResultStep, SubmitResult, SubmitBatchResults, Vote, LateVote,
           Equivocate, ResolveDisputedMatch, DeleteResult, GetCachedResult,
           InvalidateCache, DropCacheEntry
<1>4. CASE AdminStep
  BY Zenon, <1>1, <1>4, ConfigAssumption
     DEF AdminStep, SetConsensusThreshold, SetSlashingGracePeriod,
         DeactivateSlowOracle, Pause, Unpause, SwapIn, SwapOut, Tick, AdminType, meters
<1>5. CASE UNCHANGED vars
  BY <1>1, <1>5 DEF vars
<1> QED
  BY <1>2, <1>3, <1>4, <1>5 DEF Next

\* For any finite set of oracles and any stakes, slashes, shares and swaps: the
\* contract holds exactly the stakes and what swaps brought in, nothing is
\* negative, and get_pending_slashes answers with the staged slashes, each once.
THEOREM StakesProved == Spec => []StakesCovered
<1> DEFINE Inv == OracleInv /\ ListInv /\ FundsInv /\ AdminType
<1>1. Init => ListInv /\ FundsInv /\ AdminType
  <2> SUFFICES ASSUME Init PROVE ListInv /\ FundsInv /\ AdminType
    OBVIOUS
  <2>1. ListInv
    BY DEF Init, ListInv, ListOK, Named, NamesOnce
  <2>2. \A o \in Oracles : stake[o] = 0
    BY DEF Init
  <2>3. SumOver(stake, Oracles) = 0
    BY <2>2, OraclesAssumption, SumZero, Zenon
  <2>4. FundsInv
    BY <2>3 DEF Init, FundsInv
  <2>5. AdminType
    <3>1. paused \in BOOLEAN
      BY Zenon DEF Init
    <3>2. threshold \in Nat \ {0} /\ metered = {} /\ inactive = {}
      BY DEF Init
    <3> QED
      BY <3>1, <3>2 DEF AdminType
  <2> QED
    BY <2>1, <2>4, <2>5
<1>2. OracleInv /\ ListInv /\ FundsInv /\ AdminType /\ [Next]_vars
          => ListInv' /\ FundsInv' /\ AdminType'
  BY ListStep, FundsStep, AdminTypeStep DEF OracleInv
<1>3. OracleInv /\ ListInv /\ FundsInv /\ AdminType => StakesCovered
  <2> SUFFICES ASSUME OracleInv, ListInv, FundsInv, AdminType PROVE StakesCovered
    OBVIOUS
  <2>1. TypeOK
    BY DEF OracleInv, VoteInv, VoteType, SlashType, CacheInv, ListInv, FundsInv,
           AdminType, TypeOK
  <2>2. PendingListExact
    BY Zenon DEF ListInv, ListOK, Named, NamesOnce, PendingListExact
  <2> QED
    BY <2>1, <2>2 DEF FundsInv, StakesCovered
<1> QED
  BY <1>1, <1>2, <1>3, OracleInvariant, PTL DEF Spec
-----------------------------------------------------------------------------
(* Administration: one part moves, the others keep their state.            *)

\* A step moves one part.
LEMMA AdministrationMoves ==
    ASSUME [MCNext]_allVars
    PROVE  /\ [AdminNext]_adminVars
           /\ [LimitsNext]_limitVars
           /\ [MetricsNext]_metricVars
<1>1. CASE MCNext
    BY <1>1, Zenon DEF MCNext
<1>2. CASE UNCHANGED allVars
    BY <1>2 DEF allVars
<1> QED
    BY <1>1, <1>2

-----------------------------------------------------------------------------
(* Nominations.  A pending one has its own number, that no earlier one had *)
(* and that was not accepted yet.                                          *)

NominationInv ==
    /\ proposals \in 0..MaxProposals
    /\ accepted \in [1..MaxProposals -> {0, 1}]
    /\ \A i \in 1..MaxProposals : i > proposals => accepted[i] = 0
    /\ pendingAdmin # NoProposal
         => pendingAdmin.id \in 1..proposals /\ accepted[pendingAdmin.id] = 0

LEMMA NominationStart == AdminInit => NominationInv
    BY OfficeAssumption DEF AdminInit, NominationInv

LEMMA NominationStep ==
    ASSUME NominationInv, [AdminNext]_adminVars
    PROVE  NominationInv'
<1> USE OfficeAssumption
<1>1. CASE UNCHANGED <<pendingAdmin, proposals, accepted>>
    BY <1>1 DEF NominationInv
<1>2. ASSUME NEW a \in Accounts, ProposeAdmin(a) PROVE NominationInv'
    <2>1. /\ proposals < MaxProposals /\ proposals' = proposals + 1 /\ accepted' = accepted
          /\ pendingAdmin'.id = proposals + 1
        BY <1>2 DEF ProposeAdmin
    <2>2. proposals' \in 1..MaxProposals /\ accepted'[proposals'] = 0
        BY <2>1 DEF NominationInv
    <2> QED
        BY <2>1, <2>2 DEF NominationInv
<1>3. CASE AcceptAdmin
    <2> DEFINE i == pendingAdmin.id
    <2>1. /\ pendingAdmin # NoProposal /\ pendingAdmin' = NoProposal
          /\ accepted' = [accepted EXCEPT ![i] = @ + 1] /\ proposals' = proposals
        BY <1>3 DEF AcceptAdmin
    <2>2. i \in 1..proposals /\ i \in 1..MaxProposals /\ accepted[i] = 0
        BY <2>1 DEF NominationInv
    <2> HIDE DEF i
    <2>3. accepted' = [accepted EXCEPT ![i] = 1]
        BY <2>1, <2>2 DEF NominationInv
    <2> QED
        BY <2>1, <2>2, <2>3 DEF NominationInv
<1>4. \/ UNCHANGED <<pendingAdmin, proposals, accepted>>
      \/ \E a \in Accounts : ProposeAdmin(a)
      \/ AcceptAdmin
    BY DEF AdminNext, Initialize, UpdateAdmin, SetTreasury,
           PaySlash, adminVars
<1> QED
    BY <1>1, <1>2, <1>3, <1>4

LEMMA NominationFollows == NominationInv => NominationUsedOnce
    BY DEF NominationInv, NominationUsedOnce

-----------------------------------------------------------------------------
(* Response times.                                                         *)

MetricFields == {"avg", "total", "successful", "uptime", "active"}

MetricsInv ==
    /\ DOMAIN metrics = MetricFields
    /\ metrics.avg \in Nat /\ metrics.total \in Nat /\ metrics.active \in BOOLEAN
    /\ sum \in Nat /\ sla \in Nat
    /\ AverageDrift

\* Rounding down loses at most n out of n + 1 parts.
LEMMA AverageIs ==
    ASSUME NEW a \in Nat, NEW n \in Nat, NEW x \in Nat, NEW s \in Nat,
           a * n <= s, 2 * (s - a * n) <= n * (n - 1)
    PROVE  LET b == (a * n + x) \div (n + 1)
           IN  /\ b \in Nat
               /\ b * (n + 1) <= s + x
               /\ 2 * ((s + x) - b * (n + 1)) <= (n + 1) * ((n + 1) - 1)
<1> DEFINE p == a * n
           y == p + x
           b == y \div (n + 1)
           q == b * (n + 1)
<1>1. p \in Nat /\ y \in Nat
    OBVIOUS
<1>2. ASSUME NEW z \in Nat, NEW k \in Nat \ {0}
      PROVE  /\ z \div k \in Nat /\ k * (z \div k) \in Nat
             /\ k * (z \div k) <= z /\ z < k * (z \div k) + k
    OBVIOUS
<1> HIDE DEF p, y
<1>3. b \in Nat /\ (n + 1) * b \in Nat /\ (n + 1) * b <= y /\ y < (n + 1) * b + (n + 1)
    <2>1. n + 1 \in Nat \ {0}
        OBVIOUS
    <2> QED
        BY <1>1, <1>2, <2>1, Zenon
<1> HIDE DEF b
<1>4. q \in Nat /\ q = (n + 1) * b
    BY <1>3
<1> HIDE DEF q
<1>5. (n + 1) * ((n + 1) - 1) = n * (n - 1) + 2 * n
    OBVIOUS
<1>6. n * (n - 1) \in Int
    OBVIOUS
<1>7. q <= s + x /\ 2 * ((s + x) - q) <= n * (n - 1) + 2 * n
    BY <1>1, <1>3, <1>4, <1>6 DEF p, y
<1> QED
    BY <1>3, <1>5, <1>7 DEF b, q, y, p

LEMMA MetricsStart == MetricsInit => MetricsInv
    BY OfficeAssumption
    DEF MetricsInit, MetricsInv, MetricFields, AverageDrift

LEMMA MetricsStep ==
    ASSUME MetricsInv, [MetricsNext]_metricVars
    PROVE  MetricsInv'
<1> USE OfficeAssumption
<1>1. ASSUME NEW x \in Times, UpdateOracleMetrics(x) PROVE MetricsInv'
    <2> DEFINE a == metrics.avg
               n == metrics.total
               b == (a * n + x) \div (n + 1)
    <2>1. /\ DOMAIN metrics' = MetricFields /\ metrics'.avg = b /\ metrics'.total = n + 1
          /\ metrics'.active = metrics.active /\ sum' = sum + x /\ sla' = sla
        BY Zenon, <1>1 DEF MetricsInv, MetricFields, UpdateOracleMetrics, Average
    <2>2. a \in Nat /\ n \in Nat /\ x \in Nat /\ a * n <= sum
          /\ 2 * (sum - a * n) <= n * (n - 1)
        BY DEF MetricsInv, AverageDrift
    <2>3. sum \in Nat
        BY DEF MetricsInv
    <2>4. /\ b \in Nat /\ b * (n + 1) <= sum + x
          /\ 2 * ((sum + x) - b * (n + 1)) <= (n + 1) * ((n + 1) - 1)
        BY <2>2, <2>3, AverageIs, Zenon
    <2> HIDE DEF a, n, b
    <2> QED
        BY <2>1, <2>2, <2>3, <2>4 DEF MetricsInv, AverageDrift
<1>2. ASSUME NEW t \in SlaInputs, SetSlaThreshold(t) PROVE MetricsInv'
    BY <1>2 DEF MetricsInv, SetSlaThreshold, AverageDrift
<1>3. CASE DeactivateSlow
    <2>1. /\ DOMAIN metrics' = MetricFields /\ metrics'.avg = metrics.avg
          /\ metrics'.total = metrics.total /\ metrics'.active = FALSE
          /\ sum' = sum /\ sla' = sla
        BY <1>3 DEF MetricsInv, MetricFields, DeactivateSlow
    <2> QED
        BY Zenon, <2>1 DEF MetricsInv, AverageDrift
<1>4. CASE UNCHANGED metricVars
    BY <1>4 DEF metricVars, MetricsInv, AverageDrift
<1> QED
    BY Zenon, <1>1, <1>2, <1>3, <1>4 DEF MetricsNext

\* The average never exceeds the mean.
LEMMA DeactivationFollows ==
    ASSUME MetricsInv, [MetricsNext]_metricVars, metrics.active, ~metrics'.active
    PROVE  sum > sla * metrics.total
<1> USE OfficeAssumption
<1>1. DeactivateSlow
    <2>1. ASSUME NEW x \in Times, UpdateOracleMetrics(x) PROVE FALSE
        BY <2>1 DEF MetricsInv, MetricFields, UpdateOracleMetrics
    <2>2. ASSUME NEW t \in SlaInputs, SetSlaThreshold(t) PROVE FALSE
        BY <2>2 DEF SetSlaThreshold
    <2> QED
        BY <2>1, <2>2 DEF MetricsNext, metricVars
<1> DEFINE a == metrics.avg
           n == metrics.total
<1>2. a \in Nat /\ n \in Nat /\ n > 0 /\ sla \in Nat /\ a > sla /\ sum \in Nat
      /\ a * n <= sum
    BY <1>1 DEF MetricsInv, DeactivateSlow, TooSlow, AverageDrift
<1>3. ASSUME NEW i \in Nat, NEW j \in Nat, NEW k \in Nat, i > j, k > 0
      PROVE  i * k > j * k
    <2>1. PICK d \in Nat \ {0} : i = j + d
        <3>1. i - j \in Nat \ {0} /\ i = j + (i - j)
            BY <1>3
        <3> QED
            BY <3>1
    <2>2. (j + d) * k = j * k + d * k /\ d * k >= k /\ j * k \in Nat /\ d * k \in Nat
        BY <1>3, <2>1
    <2> QED
        BY <1>3, <2>1, <2>2
<1>4. a * n > sla * n /\ a * n \in Nat /\ sla * n \in Nat
    BY <1>2, <1>3
<1> QED
    BY <1>2, <1>4

-----------------------------------------------------------------------------
(* Sums over stretches of time.                                            *)

\* A sum over fewer elements is not larger.
LEMMA SumSubset ==
    ASSUME NEW T, IsFiniteSet(T), NEW S \in SUBSET T, NEW f, \A x \in T : f[x] \in Nat
    PROVE  SumOver(f, S) <= SumOver(f, T) /\ SumOver(f, S) \in Nat /\ SumOver(f, T) \in Nat
<1>1. IsFiniteSet(S) /\ \A x \in S : f[x] \in Nat
    BY FS_Subset
<1>2. Units(f, S) \subseteq Units(f, T)
    BY DEF Units
<1>3. IsFiniteSet(Units(f, T))
    BY UnitsFinite, Zenon
<1>4. Cardinality(Units(f, S)) <= Cardinality(Units(f, T))
    BY <1>2, <1>3, FS_Subset
<1>5. SumOver(f, S) = Cardinality(Units(f, S)) /\ SumOver(f, T) = Cardinality(Units(f, T))
    BY <1>1, SumIsCount, Zenon
<1>6. SumOver(f, S) \in Nat /\ SumOver(f, T) \in Nat
    BY <1>1, SumType, Zenon
<1> QED
    BY <1>4, <1>5, <1>6

\* A sum over a union is at most the sum of the two.
LEMMA SumUnion ==
    ASSUME NEW S, IsFiniteSet(S), NEW T, IsFiniteSet(T), NEW f,
           \A x \in S \cup T : f[x] \in Nat
    PROVE  SumOver(f, S \cup T) <= SumOver(f, S) + SumOver(f, T)
<1>1. IsFiniteSet(S \cup T)
    BY Zenon, FS_Union
<1>2. Units(f, S \cup T) = Units(f, S) \cup Units(f, T)
    BY DEF Units
<1>3. IsFiniteSet(Units(f, S)) /\ IsFiniteSet(Units(f, T))
    BY UnitsFinite, Zenon
<1>4. Cardinality(Units(f, S \cup T)) <= Cardinality(Units(f, S)) + Cardinality(Units(f, T))
    <2>1. IsFiniteSet(Units(f, S) \cap Units(f, T))
        BY <1>3, FS_Intersection
    <2>2. Cardinality(Units(f, S) \cap Units(f, T)) \in Nat
        BY <2>1, FS_CardinalityType
    <2>3. Cardinality(Units(f, S)) \in Nat /\ Cardinality(Units(f, T)) \in Nat
        BY <1>3, FS_CardinalityType
    <2> DEFINE A == Units(f, S)
               B == Units(f, T)
    <2>4. Cardinality(A \cup B) = Cardinality(A) + Cardinality(B) - Cardinality(A \cap B)
        BY <1>3, FS_Union, Zenon
    <2> HIDE DEF A, B
    <2>5. Cardinality(A \cup B) <= Cardinality(A) + Cardinality(B)
        BY <2>2, <2>3, <2>4 DEF A, B
    <2> QED
        BY Zenon, <1>2, <2>5 DEF A, B
<1>5. /\ SumOver(f, S) = Cardinality(Units(f, S)) /\ SumOver(f, T) = Cardinality(Units(f, T))
      /\ SumOver(f, S \cup T) = Cardinality(Units(f, S \cup T))
    BY <1>1, SumIsCount, Zenon
<1> QED
    BY <1>4, <1>5

\* One element counts n more, and so does the sum.
More(f, t, n) == [f EXCEPT ![t] = @ + n]

LEMMA SumMore ==
    ASSUME NEW D, NEW f \in [D -> Nat], NEW S \in SUBSET D, IsFiniteSet(S), NEW t \in S,
           NEW n \in Nat
    PROVE  SumOver(More(f, t, n), S) = SumOver(f, S) + n
<1> DEFINE g == More(f, t, n)
<1>1. /\ \A u \in S : f[u] \in Nat /\ g[u] \in Nat
      /\ \A u \in S : u # t => g[u] = f[u]
      /\ g[t] = f[t] + n /\ f[t] \in Nat
    BY DEF More
<1> HIDE DEF g
<1>2. SumOver(g, S) + f[t] = SumOver(f, S) + g[t]
    BY <1>1, SumChange
<1>3. SumOver(f, S) \in Nat
    BY <1>1, SumType, Zenon
<1>4. SumOver(g, S) \in Nat
    BY <1>1, SumType, Zenon
<1> QED
    BY <1>1, <1>2, <1>3, <1>4 DEF g

\* The times from a up to but not including b, and what was accepted then.
Stretch(a, b) == {u \in 0..MaxTime : a <= u /\ u < b}
In(f, a, b) == SumOver(f, Stretch(a, b))

LogOK(f) == f \in [0..MaxTime -> Nat]

LEMMA StretchFinite ==
    ASSUME NEW a, NEW b
    PROVE  IsFiniteSet(Stretch(a, b))
<1>1. IsFiniteSet(0..MaxTime)
    BY OfficeAssumption, FS_Interval
<1> QED
    BY Zenon, <1>1, FS_Subset DEF Stretch

\* A stretch inside another one.
LEMMA InLess ==
    ASSUME NEW f, LogOK(f), NEW a \in Int, NEW b \in Int, NEW c \in Int, NEW d \in Int,
           c <= a, b <= d
    PROVE  In(f, a, b) <= In(f, c, d) /\ In(f, a, b) \in Nat /\ In(f, c, d) \in Nat
<1> USE OfficeAssumption
<1>1. Stretch(a, b) \in SUBSET Stretch(c, d)
    BY DEF Stretch
<1>2. \A u \in Stretch(c, d) : f[u] \in Nat
    BY DEF Stretch, LogOK
<1> QED
    BY <1>1, <1>2, StretchFinite, SumSubset, Zenon DEF In

\* Two stretches in a row.
LEMMA InSplit ==
    ASSUME NEW f, LogOK(f), NEW a \in Int, NEW b \in Int, NEW c \in Int, a <= b, b <= c
    PROVE  In(f, a, c) <= In(f, a, b) + In(f, b, c)
<1> USE OfficeAssumption
<1>1. Stretch(a, c) = Stretch(a, b) \cup Stretch(b, c)
    BY DEF Stretch
<1>2. \A u \in Stretch(a, b) \cup Stretch(b, c) : f[u] \in Nat
    BY DEF Stretch, LogOK
<1> QED
    BY <1>1, <1>2, StretchFinite, SumUnion, Zenon DEF In

\* A stretch without submissions.
LEMMA InZero ==
    ASSUME NEW f, NEW a, NEW b, \A u \in Stretch(a, b) : f[u] = 0
    PROVE  In(f, a, b) = 0
    BY StretchFinite, SumZero, Zenon DEF In

\* n submissions more at time t.
LEMMA InMore ==
    ASSUME NEW f, LogOK(f), NEW t \in 0..MaxTime, NEW n \in Nat, NEW a \in Int, NEW b \in Int
    PROVE  /\ LogOK(More(f, t, n))
           /\ a <= t /\ t < b => In(More(f, t, n), a, b) = In(f, a, b) + n
           /\ t < a \/ b <= t => In(More(f, t, n), a, b) = In(f, a, b)
<1> DEFINE g == More(f, t, n)
           S == Stretch(a, b)
<1>1. f \in [0..MaxTime -> Nat] /\ LogOK(g) /\ \A u \in 0..MaxTime : u # t => g[u] = f[u]
    BY DEF LogOK, More
<1>2. S \in SUBSET (0..MaxTime) /\ IsFiniteSet(S)
    BY StretchFinite DEF Stretch
<1>3. ASSUME a <= t, t < b PROVE In(g, a, b) = In(f, a, b) + n
    <2>1. t \in S
        BY <1>3 DEF Stretch
    <2>2. SumOver(g, S) = SumOver(f, S) + n
        BY <1>1, <1>2, <2>1, SumMore, Zenon
    <2> QED
        BY <2>2, Zenon DEF In
<1>4. ASSUME t < a \/ b <= t PROVE In(g, a, b) = In(f, a, b)
    <2>1. t \notin S
        BY <1>4 DEF Stretch
    <2>2. \A u \in S : f[u] \in Nat /\ g[u] = f[u]
        <3> HIDE DEF g, S
        <3> QED
            BY <1>1, <1>2, <2>1
    <2> QED
        BY <1>2, <2>2, SumSame, Zenon DEF In
<1> HIDE DEF g
<1> QED
    BY <1>1, <1>3, <1>4 DEF g

-----------------------------------------------------------------------------
(* One lazily rolled window.                                               *)

WindowFields == {"start", "current", "previous"}

\* A stored window counts what was accepted since its start, and at least what
\* was accepted in the secs seconds before; nothing was accepted after its end.
Counted(w, secs, limit, f, t) ==
    /\ w.start \in 0..t /\ w.current \in 0..limit /\ w.previous \in 0..limit
    /\ In(f, w.start, MaxTime + 1) = w.current
    /\ In(f, w.start - secs, w.start) <= w.previous
    /\ \A u \in 0..MaxTime : w.start + secs <= u => f[u] = 0

WindowOK(w, secs, limit, f, t) ==
    \/ w = Unset /\ \A u \in 0..MaxTime : f[u] = 0
    \/ w # Unset /\ DOMAIN w = WindowFields /\ Counted(w, secs, limit, f, t)

\* A loaded window is one that has not ended.
Loaded(w, secs, limit, f, t) ==
    /\ DOMAIN w = WindowFields /\ Counted(w, secs, limit, f, t) /\ t < w.start + secs

\* The count of a loaded window is a number.
LEMMA LoadedCount ==
    ASSUME NEW w, NEW secs, NEW limit \in Nat, NEW f, NEW t, Loaded(w, secs, limit, f, t)
    PROVE  w.current \in Nat
    BY DEF Loaded, Counted

\* A count below what is used stays within a limit that the use stays within.
LEMMA StaysWithin ==
    ASSUME NEW c \in Nat, NEW u \in Nat, NEW n \in Nat, NEW l \in Nat, NEW max \in Nat,
           c <= u, u + n <= l, l <= max
    PROVE  c + n <= max
    OBVIOUS

\* load_rate_window: whatever the time since the window was stored, the window
\* it gives counts right.
LEMMA LoadIs ==
    ASSUME NEW secs \in Nat \ {0}, NEW limit \in Nat, NEW f, LogOK(f), NEW t \in 0..MaxTime,
           NEW w, WindowOK(w, secs, limit, f, t)
    PROVE  Loaded(LoadRateWindow(w, t, secs), secs, limit, f, t)
<1> USE OfficeAssumption
<1> DEFINE fresh == [start |-> t, current |-> 0, previous |-> 0]
           v == LoadRateWindow(w, t, secs)
<1>1. ASSUME \A u \in 0..MaxTime : t - secs <= u => f[u] = 0
      PROVE  Loaded(fresh, secs, limit, f, t)
    <2>1. In(f, t, MaxTime + 1) = 0 /\ In(f, t - secs, t) = 0
        <3>1. \A u \in Stretch(t, MaxTime + 1) : f[u] = 0
            BY <1>1 DEF Stretch
        <3>2. \A u \in Stretch(t - secs, t) : f[u] = 0
            BY Zenon, <1>1 DEF Stretch
        <3> QED
            BY <3>1, <3>2, InZero, Zenon
    <2>2. DOMAIN fresh = WindowFields /\ fresh.start = t /\ fresh.current = 0
          /\ fresh.previous = 0
        BY DEF WindowFields
    <2> HIDE DEF fresh
    <2>3. \A u \in 0..MaxTime : t + secs <= u => f[u] = 0
        BY <1>1
    <2>4. Counted(fresh, secs, limit, f, t)
        BY <2>1, <2>2, <2>3 DEF Counted
    <2>5. t < fresh.start + secs
        BY <2>2
    <2> QED
        BY <2>2, <2>4, <2>5 DEF Loaded
<1>2. CASE w = Unset
    <2>1. v = fresh
        BY <1>2 DEF LoadRateWindow
    <2>2. \A u \in 0..MaxTime : f[u] = 0
        BY <1>2 DEF WindowOK
    <2> HIDE DEF v, fresh
    <2> QED
        BY <1>1, <2>1, <2>2 DEF v
<1>3. CASE w # Unset
    <2> DEFINE s == w.start
    <2>1. DOMAIN w = WindowFields /\ Counted(w, secs, limit, f, t)
        BY <1>3 DEF WindowOK
    <2>2. /\ s \in 0..t /\ w.current \in 0..limit
          /\ In(f, s, MaxTime + 1) = w.current
          /\ \A u \in 0..MaxTime : s + secs <= u => f[u] = 0
        BY <2>1 DEF Counted
    <2>3. CASE t - s >= 2 * secs
        <3>1. v = fresh
            BY <1>3, <2>3 DEF LoadRateWindow
        <3>2. \A u \in 0..MaxTime : t - secs <= u => f[u] = 0
            BY <2>2, <2>3
        <3> HIDE DEF v, fresh
        <3> QED
            BY <1>1, <3>1, <3>2 DEF v
    <2>4. CASE t - s < secs
        <3>1. v = w
            BY <1>3, <2>2, <2>4 DEF LoadRateWindow
        <3>2. t < w.start + secs
            BY <2>2, <2>4
        <3>3. Loaded(w, secs, limit, f, t)
            BY <2>1, <3>2 DEF Loaded
        <3> HIDE DEF v
        <3> QED
            BY <3>1, <3>3 DEF v
    <2>5. CASE ~(t - s >= 2 * secs) /\ ~(t - s < secs)
        <3> DEFINE r == [start |-> s + secs, current |-> 0, previous |-> w.current]
        <3>1. v = r
            BY Zenon, <1>3, <2>5 DEF LoadRateWindow
        <3>2. DOMAIN r = WindowFields /\ r.start = s + secs /\ r.current = 0
              /\ r.previous = w.current
            BY Zenon DEF WindowFields
        <3> HIDE DEF r, v
        <3>3. In(f, s + secs, MaxTime + 1) = 0
            <4>1. \A u \in Stretch(s + secs, MaxTime + 1) : f[u] = 0
                BY <2>2 DEF Stretch
            <4> QED
                BY <4>1, InZero, Zenon
        <3>4. In(f, s, s + secs) <= w.current
            <4>1. s \in Int /\ s + secs \in Int /\ MaxTime + 1 \in Int /\ s <= s
                  /\ s + secs <= MaxTime + 1
                BY <2>2, <2>5
            <4>2. In(f, s, s + secs) <= In(f, s, MaxTime + 1)
                BY <4>1, InLess, Zenon
            <4> QED
                BY <2>2, <4>2
        <3>5. (s + secs) - secs = s /\ s + secs \in 0..t /\ t < (s + secs) + secs
            BY <2>2, <2>5
        <3>6. \A u \in 0..MaxTime : (s + secs) + secs <= u => f[u] = 0
            BY <2>2
        <3>7. Counted(r, secs, limit, f, t)
            BY <2>2, <3>2, <3>3, <3>4, <3>5, <3>6 DEF Counted
        <3>8. Loaded(r, secs, limit, f, t)
            BY Zenon, <3>2, <3>5, <3>7 DEF Loaded
        <3> QED
            BY <3>1, <3>8 DEF v
    <2> QED
        BY <2>3, <2>4, <2>5
<1> QED
    BY <1>2, <1>3

\* estimated_window_count counts at least what was accepted in the window.
LEMMA EstimateIs ==
    ASSUME NEW secs \in Nat \ {0}, NEW limit \in Nat, NEW f, NEW t \in Nat, NEW w,
           Loaded(w, secs, limit, f, t)
    PROVE  /\ EstimatedWindowCount(t, w, secs) \in Nat
           /\ w.current <= EstimatedWindowCount(t, w, secs)
<1> DEFINE rest == w.previous * (secs - (t - w.start))
<1>1. /\ w.start \in 0..t /\ w.current \in Nat /\ w.previous \in Nat
      /\ t - w.start < secs
    BY DEF Loaded, Counted
<1>2. EstimatedWindowCount(t, w, secs) = w.current + rest \div secs
    BY <1>1 DEF EstimatedWindowCount
<1>3. rest \in Nat
    <2>1. secs - (t - w.start) \in Nat
        BY <1>1
    <2>2. ASSUME NEW i \in Nat, NEW j \in Nat PROVE i * j \in Nat
        OBVIOUS
    <2> QED
        BY <1>1, <2>1, <2>2, Zenon
<1>4. ASSUME NEW i \in Nat, NEW k \in Nat \ {0} PROVE i \div k \in Nat
    OBVIOUS
<1>5. rest \div secs \in Nat
    BY <1>3, <1>4, Zenon
<1> HIDE DEF rest
<1> QED
    BY <1>1, <1>2, <1>5

\* A submission that fits under the limit is counted in the window it loaded.
LEMMA SubmitKeeps ==
    ASSUME NEW secs \in Nat \ {0}, NEW limit \in Nat, NEW f, LogOK(f), NEW t \in 0..MaxTime,
           NEW n \in Nat, NEW w, Loaded(w, secs, limit, f, t), w.current + n <= limit
    PROVE  WindowOK([w EXCEPT !.current = @ + n], secs, limit, More(f, t, n), t)
<1>0. MaxTime \in Nat
    BY OfficeAssumption
<1> DEFINE v == [w EXCEPT !.current = @ + n]
           g == More(f, t, n)
           s == w.start
<1>1. /\ DOMAIN w = WindowFields /\ s \in 0..t /\ w.current \in 0..limit
      /\ w.previous \in 0..limit /\ t < s + secs
    BY DEF Loaded, Counted
<1>2. /\ In(f, s, MaxTime + 1) = w.current
      /\ In(f, s - secs, s) <= w.previous
      /\ \A u \in 0..MaxTime : s + secs <= u => f[u] = 0
    BY DEF Loaded, Counted
<1>3. /\ DOMAIN v = WindowFields /\ v.start = s /\ v.current = w.current + n
      /\ v.previous = w.previous
    BY <1>1 DEF WindowFields
<1> HIDE DEF v
<1>4. In(g, s, MaxTime + 1) = In(f, s, MaxTime + 1) + n
    <2> HIDE DEF s
    <2>1. s \in Int /\ MaxTime + 1 \in Int /\ s <= t /\ t < MaxTime + 1
        BY <1>0, <1>1
    <2> QED
        BY <2>1, InMore
<1>5. In(g, s - secs, s) = In(f, s - secs, s)
    <2> HIDE DEF s
    <2>1. s - secs \in Int /\ s \in Int /\ s <= t
        BY <1>0, <1>1
    <2> QED
        BY <2>1, InMore
<1>6. ASSUME NEW u \in 0..MaxTime, s + secs <= u
      PROVE  g[u] = 0
    <2>1. u # t
        BY <1>1, <1>6
    <2>2. g[u] = f[u]
        BY <2>1, Zenon DEF More, LogOK
    <2> QED
        BY <1>2, <1>6, <2>2, Zenon
<1> HIDE DEF g
<1>7. v.current \in 0..limit
    <2>1. w.current \in 0..limit /\ v.current = w.current + n
        BY <1>1, <1>3, Zenon
    <2> QED
        BY <2>1
<1>8. Counted(v, secs, limit, g, t)
    BY Zenon, <1>1, <1>2, <1>3, <1>4, <1>5, <1>6, <1>7 DEF Counted
<1>9. v # Unset
    BY <1>1, <1>3 DEF Unset
<1> QED
    BY <1>3, <1>8, <1>9 DEF WindowOK, v, g

\* A higher limit, and a later time.
LEMMA WindowLater ==
    ASSUME NEW secs \in Nat \ {0}, NEW limit \in Nat, NEW more \in Nat, limit <= more,
           NEW f, NEW t \in Nat, NEW later \in Nat, t <= later,
           NEW w, WindowOK(w, secs, limit, f, t)
    PROVE  WindowOK(w, secs, more, f, later)
    BY DEF WindowOK, Counted

\* The last secs seconds lie within the current and the previous window.
LEMMA StretchBound ==
    ASSUME NEW secs \in Nat \ {0}, NEW limit \in Nat, NEW f, LogOK(f), NEW t \in 0..MaxTime,
           NEW w, Loaded(w, secs, limit, f, t)
    PROVE  SumOver(f, {u \in 0..t : t - u < secs}) <= 2 * limit
<1> USE OfficeAssumption
<1> DEFINE s == w.start
<1>1. /\ s \in 0..t /\ w.current \in 0..limit /\ w.previous \in 0..limit /\ t < s + secs
      /\ In(f, s, MaxTime + 1) = w.current
      /\ In(f, s - secs, s) <= w.previous
    BY DEF Loaded, Counted
<1>2. {u \in 0..t : t - u < secs} = Stretch((t - secs) + 1, t + 1)
    BY DEF Stretch
<1>3. /\ (t - secs) + 1 \in Int /\ t + 1 \in Int /\ s - secs \in Int /\ MaxTime + 1 \in Int
      /\ s - secs <= (t - secs) + 1 /\ t + 1 <= MaxTime + 1
      /\ s - secs <= s /\ s <= MaxTime + 1 /\ s \in Int
    BY <1>1
<1>4. /\ In(f, (t - secs) + 1, t + 1) <= In(f, s - secs, MaxTime + 1)
      /\ In(f, (t - secs) + 1, t + 1) \in Nat /\ In(f, s - secs, MaxTime + 1) \in Nat
    BY <1>3, InLess, Zenon
<1>5. In(f, s - secs, MaxTime + 1) <= In(f, s - secs, s) + In(f, s, MaxTime + 1)
    BY <1>3, InSplit, Zenon
<1>6. In(f, s - secs, s) \in Nat
    <2>1. s <= s /\ s - secs <= s - secs
        BY <1>3
    <2> QED
        BY <1>3, <2>1, InLess, Zenon
<1> DEFINE x == In(f, (t - secs) + 1, t + 1)
           y == In(f, s - secs, MaxTime + 1)
           z == In(f, s - secs, s)
<1>7. x <= 2 * limit
    <2> HIDE DEF x, y, z, s
    <2>1. x <= y /\ x \in Nat /\ y \in Nat
        BY <1>4, Zenon DEF x, y
    <2>2. z \in Nat /\ z <= w.previous
        BY <1>1, <1>6, Zenon DEF z
    <2>3. y <= z + w.current
        BY <1>1, <1>5, Zenon DEF y, z
    <2>4. w.current \in 0..limit /\ w.previous \in 0..limit
        BY Zenon, <1>1
    <2> QED
        BY <2>1, <2>2, <2>3, <2>4
<1> QED
    BY <1>2, <1>7, Zenon DEF In

-----------------------------------------------------------------------------
(* The limits.                                                             *)

LimitFields == {"hourly", "daily"}

LimitsInv ==
    /\ DOMAIN config = LimitFields /\ DOMAIN highest = LimitFields
    /\ config.hourly \in Nat /\ config.daily \in Nat
    /\ highest.hourly \in Nat /\ highest.daily \in Nat
    /\ config.hourly <= highest.hourly /\ config.daily <= highest.daily
    /\ time \in 0..MaxTime /\ LogOK(log)
    /\ WindowOK(hourly, HourlyWindow, highest.hourly, log, time)
    /\ WindowOK(daily, DailyWindow, highest.daily, log, time)

LEMMA LimitsStart == LimitsInit => LimitsInv
    BY OfficeAssumption DEF LimitsInit, LimitsInv, LimitFields, WindowOK, LogOK

\* The larger of two numbers.
LEMMA MaxOfTwo ==
    ASSUME NEW a \in Nat, NEW b \in Nat
    PROVE  Max({a, b}) \in Nat /\ a <= Max({a, b}) /\ b <= Max({a, b})
<1>1. \E m \in {a, b} : \A y \in {a, b} : y <= m
    OBVIOUS
<1>2. Max({a, b}) \in {a, b} /\ \A y \in {a, b} : y <= Max({a, b})
    BY <1>1 DEF Max
<1> QED
    BY <1>2

\* Both windows, loaded.
LEMMA LoadBoth ==
    ASSUME LimitsInv
    PROVE  /\ Loaded(LoadRateWindow(hourly, time, HourlyWindow), HourlyWindow, highest.hourly, log, time)
           /\ Loaded(LoadRateWindow(daily, time, DailyWindow), DailyWindow, highest.daily, log, time)
<1>1. /\ HourlyWindow \in Nat \ {0} /\ DailyWindow \in Nat \ {0}
    BY Zenon, OfficeAssumption
<1>2. /\ highest.hourly \in Nat /\ highest.daily \in Nat /\ time \in 0..MaxTime /\ LogOK(log)
      /\ WindowOK(hourly, HourlyWindow, highest.hourly, log, time)
      /\ WindowOK(daily, DailyWindow, highest.daily, log, time)
    BY DEF LimitsInv
<1> QED
    BY <1>1, <1>2, LoadIs, Zenon

\* What the windows count.
LEMMA UsedBoth ==
    ASSUME LimitsInv
    PROVE  /\ HourlyUsed \in Nat /\ DailyUsed \in Nat
           /\ LoadRateWindow(hourly, time, HourlyWindow).current <= HourlyUsed
           /\ LoadRateWindow(daily, time, DailyWindow).current <= DailyUsed
<1>1. /\ HourlyWindow \in Nat \ {0} /\ DailyWindow \in Nat \ {0}
    BY Zenon, OfficeAssumption
<1>2. highest.hourly \in Nat /\ highest.daily \in Nat /\ time \in Nat
    BY DEF LimitsInv
<1> QED
    BY <1>1, <1>2, LoadBoth, EstimateIs, Zenon DEF HourlyUsed, DailyUsed

LEMMA LimitsStep ==
    ASSUME LimitsInv, [LimitsNext]_limitVars
    PROVE  LimitsInv'
<1>0. /\ DOMAIN config = LimitFields /\ DOMAIN highest = LimitFields
      /\ config.hourly \in Nat /\ config.daily \in Nat
      /\ highest.hourly \in Nat /\ highest.daily \in Nat
      /\ config.hourly <= highest.hourly /\ config.daily <= highest.daily
      /\ time \in 0..MaxTime /\ LogOK(log)
      /\ WindowOK(hourly, HourlyWindow, highest.hourly, log, time)
      /\ WindowOK(daily, DailyWindow, highest.daily, log, time)
    BY Zenon DEF LimitsInv
<1>t. time \in Nat /\ time <= time
    <2>1. time \in 0..MaxTime
        BY <1>0, Zenon
    <2> QED
        BY <2>1
<1>s. HourlyWindow \in Nat \ {0} /\ DailyWindow \in Nat \ {0}
    BY OfficeAssumption
<1>1. ASSUME NEW h \in LimitInputs, NEW d \in LimitInputs, SetOracleRateLimits(h, d)
      PROVE  LimitsInv'
    <2> DEFINE ch == config'.hourly
               cd == config'.daily
    <2>1. /\ DOMAIN config' = LimitFields /\ DOMAIN highest' = LimitFields
          /\ ch \in Nat /\ cd \in Nat
          /\ highest'.hourly = Max({highest.hourly, ch})
          /\ highest'.daily = Max({highest.daily, cd})
        BY Zenon, <1>1, OfficeAssumption DEF SetOracleRateLimits, LimitFields
    <2>2. hourly' = hourly /\ daily' = daily /\ time' = time /\ log' = log
        BY <1>1 DEF SetOracleRateLimits
    <2> HIDE DEF ch, cd
    <2>3. /\ highest'.hourly \in Nat /\ highest.hourly <= highest'.hourly /\ ch <= highest'.hourly
          /\ highest'.daily \in Nat /\ highest.daily <= highest'.daily /\ cd <= highest'.daily
        BY <1>0, <2>1, MaxOfTwo, Zenon
    <2>5. /\ WindowOK(hourly, HourlyWindow, highest'.hourly, log, time)
          /\ WindowOK(daily, DailyWindow, highest'.daily, log, time)
        BY <1>0, <1>s, <1>t, <2>3, WindowLater, Zenon
    <2> QED
        BY Zenon, <1>0, <2>1, <2>2, <2>3, <2>5 DEF LimitsInv, ch, cd
<1>2. ASSUME NEW n \in Counts, CheckOracleRateLimit(n) PROVE LimitsInv'
    <2> DEFINE h == LoadRateWindow(hourly, time, HourlyWindow)
               d == LoadRateWindow(daily, time, DailyWindow)
    <2>1. /\ Admits(n)
          /\ hourly' = [h EXCEPT !.current = @ + n]
          /\ daily' = [d EXCEPT !.current = @ + n]
          /\ log' = More(log, time, n)
          /\ config' = config /\ time' = time /\ highest' = highest
        BY <1>2, Zenon DEF CheckOracleRateLimit, More
    <2>2. n \in Nat
        BY OfficeAssumption
    <2>3. /\ Loaded(h, HourlyWindow, highest.hourly, log, time)
          /\ Loaded(d, DailyWindow, highest.daily, log, time)
        BY LoadBoth, Zenon
    <2>4. /\ HourlyUsed \in Nat /\ DailyUsed \in Nat
          /\ h.current <= HourlyUsed /\ d.current <= DailyUsed
        BY UsedBoth, Zenon
    <2>5. HourlyUsed + n <= config.hourly /\ DailyUsed + n <= config.daily
        BY <2>1 DEF Admits
    <2> HIDE DEF h, d
    <2>6. h.current \in Nat /\ d.current \in Nat
        BY <1>0, <2>3, LoadedCount, Zenon
    <2>7. h.current + n <= highest.hourly /\ d.current + n <= highest.daily
        BY <1>0, <2>2, <2>4, <2>5, <2>6, StaysWithin, Zenon
    <2>8. /\ WindowOK([h EXCEPT !.current = @ + n], HourlyWindow, highest.hourly,
                      More(log, time, n), time)
          /\ WindowOK([d EXCEPT !.current = @ + n], DailyWindow, highest.daily,
                      More(log, time, n), time)
        BY <1>0, <1>s, <1>t, <2>2, <2>3, <2>7, SubmitKeeps, Zenon
    <2>9. LogOK(More(log, time, n))
        <3>1. 0 \in Int
            OBVIOUS
        <3> QED
            BY <1>0, <1>t, <2>2, <3>1, InMore, Zenon
    <2> QED
        BY <1>0, <2>1, <2>8, <2>9, Zenon DEF LimitsInv
<1>3. CASE Elapse
    <2>1. /\ time' = time + 1 /\ time < MaxTime /\ config' = config /\ hourly' = hourly
          /\ daily' = daily /\ log' = log /\ highest' = highest
        BY Zenon, <1>3 DEF Elapse
    <2>2. /\ time' \in 0..MaxTime /\ time' \in Nat /\ time <= time'
          /\ highest.hourly <= highest.hourly /\ highest.daily <= highest.daily
        BY <1>0, <1>t, <2>1, OfficeAssumption
    <2>3. /\ WindowOK(hourly, HourlyWindow, highest.hourly, log, time')
          /\ WindowOK(daily, DailyWindow, highest.daily, log, time')
        BY <1>0, <1>s, <1>t, <2>2, WindowLater, Zenon
    <2> QED
        BY <1>0, <2>1, <2>2, <2>3, Zenon DEF LimitsInv
<1>4. CASE UNCHANGED limitVars
    <2>1. /\ time' = time /\ config' = config /\ hourly' = hourly
          /\ daily' = daily /\ log' = log /\ highest' = highest
        BY <1>4 DEF limitVars
    <2> QED
        BY <1>0, <2>1, Zenon DEF LimitsInv
<1> QED
    BY <1>1, <1>2, <1>3, <1>4 DEF LimitsNext

LEMMA LimitsFollow == LimitsInv => TwiceTheLimit /\ QuotaIsTrue
<1> SUFFICES ASSUME LimitsInv PROVE TwiceTheLimit /\ QuotaIsTrue
    OBVIOUS
<1>1. HourlyWindow \in Nat \ {0} /\ DailyWindow \in Nat \ {0}
    BY OfficeAssumption
<1>2. /\ highest.hourly \in Nat /\ highest.daily \in Nat /\ time \in 0..MaxTime /\ LogOK(log)
    BY Zenon DEF LimitsInv
<1>3. TwiceTheLimit
    BY <1>1, <1>2, LoadBoth, StretchBound, Zenon DEF TwiceTheLimit, Accepted
<1>4. QuotaIsTrue
    <2>1. SUFFICES ASSUME NEW n \in Counts PROVE Admits(n) <=> n <= RemainingQuota
        BY DEF QuotaIsTrue
    <2>2. n \in Nat \ {0}
        BY OfficeAssumption
    <2>3. /\ HourlyUsed \in Nat /\ DailyUsed \in Nat /\ config.hourly \in Nat
          /\ config.daily \in Nat
        BY Zenon, UsedBoth DEF LimitsInv
    <2> QED
        BY <2>2, <2>3 DEF Admits, RemainingQuota, Minus
<1> QED
    BY <1>3, <1>4

\* The calls around the votes of the oracle contract, whatever their order:
\* nominations are used once, submissions stay under twice the limit, the quota
\* is true, the average drifts by rounding alone, and deactivation is justified.
THEOREM AdministrationProved == MCSpec => AdministrationHolds
<1> DEFINE OfficeInv == NominationInv /\ LimitsInv /\ MetricsInv
<1>1. MCInit => OfficeInv
    BY NominationStart, LimitsStart, MetricsStart, Zenon DEF MCInit
<1>2. OfficeInv /\ [MCNext]_allVars => OfficeInv'
    BY AdministrationMoves, NominationStep, LimitsStep, MetricsStep, Zenon
<1>3. OfficeInv => NominationUsedOnce /\ TwiceTheLimit /\ QuotaIsTrue /\ AverageDrift
    BY NominationFollows, LimitsFollow, Zenon DEF MetricsInv
<1>4. OfficeInv /\ [MCNext]_allVars
        => [metrics.active /\ ~metrics'.active => sum > sla * metrics.total]_metricVars
    BY AdministrationMoves, DeactivationFollows, Zenon
<1> HIDE DEF OfficeInv
<1> QED
    BY <1>1, <1>2, <1>3, <1>4, PTL DEF MCSpec, AdministrationHolds, DeactivationJustified
=============================================================================
