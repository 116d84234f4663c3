---------------------------- MODULE FeesProofs -----------------------------
(***************************************************************************)
(* Proofs about the money a match pays out and about the admin's lists of  *)
(* the escrow contract, for all values of the constants that the code      *)
(* allows.  A step of EscrowParts is a step of one part, so that what      *)
(* every step of a part keeps, EscrowParts keeps.                          *)
(***************************************************************************)
EXTENDS EscrowParts, Counting

\* A step of one part leaves the others alone.
LEMMA OnePartMoves ==
    ASSUME [Next]_vars
    PROVE  /\ Money!Next \/ UNCHANGED feeVars
           /\ Lists!Next \/ UNCHANGED listVars
<1>1. CASE Next
  BY <1>1, Zenon DEF Next
<1>2. CASE UNCHANGED vars
  BY <1>2 DEF vars
<1> QED
  BY <1>1, <1>2

-----------------------------------------------------------------------------
(***************************************************************************)
(* Fees.  The settings in force were accepted, so that no rate exceeds all *)
(* of it; what a match has paid follows from its state.                    *)
(***************************************************************************)
\* A rate of at most 10000 basis points takes part of an amount.
Rate(b) == b \in Nat /\ b <= 10000
LEMMA ShareOf ==
    ASSUME NEW a \in Nat, NEW b, Rate(b)
    PROVE  Money!BasisPoints(a, b) \in Nat /\ Money!BasisPoints(a, b) <= a
<1>0. b \in Nat /\ b <= 10000
  BY DEF Rate
<1>1. a * b \in Nat /\ a * b <= a * 10000
  BY <1>0
<1> DEFINE p == a * b
<1>2. p \in Nat /\ p <= a * 10000
  BY <1>1
<1> HIDE DEF p
<1>3. p \div 10000 \in Nat /\ p \div 10000 <= a
  BY <1>2
<1> QED
  BY <1>3 DEF Money!BasisPoints, p

\* A schedule is indexed from 1 and its maxima are integers.
LEMMA TierMax ==
    ASSUME NEW t \in Seq(Money!Tier)
    PROVE  /\ Len(t) \in Nat /\ DOMAIN t = 1..Len(t)
           /\ \A k \in 1..Len(t) : t[k] \in Money!Tier /\ t[k].max \in Int
<1>1. /\ Len(t) \in Nat /\ DOMAIN t = 1..Len(t)
      /\ \A k \in 1..Len(t) : t[k] \in Money!Tier
  OBVIOUS
<1>2. \A x \in Money!Tier : x.max \in Int
  BY DEF Money!Tier
<1> QED
  BY <1>1, <1>2, Zenon

\* No rate of an accepted schedule takes more than all of it.
LEMMA TierShare ==
    ASSUME NEW t, Money!ValidTiers(t), NEW i \in DOMAIN t, t[i].bps \in Nat
    PROVE  Rate(t[i].bps)
  BY DEF Money!ValidTiers, Rate

\* The schedule without tiers is accepted.
LEMMA NoTiers == << >> \in Seq(Money!Tier) /\ Money!ValidTiers(<< >>)
  BY DEF Money!ValidTiers

\* The maxima of an accepted schedule ascend.
LEMMA TiersAscend ==
    ASSUME NEW t \in Seq(Money!Tier), Money!ValidTiers(t),
           NEW i \in 1..Len(t), NEW j \in 1..Len(t), i < j
    PROVE  t[i].max < t[j].max
<1>1. /\ Len(t) \in Nat /\ DOMAIN t = 1..Len(t)
      /\ \A k \in 1..Len(t) : t[k].max \in Int
  BY TierMax
<1>2. \A k \in 1..Len(t) : k # 1 => t[k].max > t[k - 1].max
  BY <1>1 DEF Money!ValidTiers
<1> DEFINE max(k) == t[k].max
           Bad == {k \in 1..Len(t) : k > i /\ ~(max(i) < max(k))}
<1> SUFFICES ASSUME Bad # {} PROVE FALSE
  OBVIOUS
<1>3. Bad \in SUBSET Nat
  OBVIOUS
<1>4. PICK k \in Bad : \A l \in Bad : k <= l
  <2> HIDE DEF Bad
  <2> QED
    BY Zenon, <1>3, Smallest
<1>5. k \in 1..Len(t) /\ k > i /\ ~(max(i) < max(k))
  BY Zenon, <1>4
<1>6. k - 1 \notin Bad
  <2> HIDE DEF Bad
  <2> QED
    BY <1>4, <1>5
<1>7. k - 1 \in 1..Len(t) /\ max(k - 1) < max(k)
  BY <1>1, <1>2, <1>5
<1>8. k - 1 = i \/ max(i) < max(k - 1)
  BY <1>1, <1>5, <1>6, <1>7
<1>9. max(i) \in Int /\ max(k) \in Int /\ max(k - 1) \in Int
  BY Zenon, <1>1, <1>5, <1>7
<1> HIDE DEF max
<1> QED
  BY <1>5, <1>7, <1>8, <1>9

\* The first-match scan finds the tightest tier of an accepted schedule.
LEMMA FirstIsTightest ==
    ASSUME NEW t \in Seq(Money!Tier), Money!ValidTiers(t), t # << >>, NEW s \in Nat
    PROVE  /\ Money!TierFor(t, s) = Money!TightestTier(t, s)
           /\ \E i \in 1..Len(t) : Money!TierFor(t, s) = t[i]
<1> DEFINE n == Len(t)
           reaching == {i \in DOMAIN t : s <= t[i].max}
           tiers == Money!Range(t)
           covering == {u \in tiers : u.max >= s}
           Least(i) == \A j \in reaching : i <= j
<1>1. /\ n \in Nat /\ n > 0 /\ DOMAIN t = 1..n
      /\ \A k \in 1..n : t[k].max \in Int
      /\ \A k \in 1..n : t[k] \in tiers
      /\ \A u \in tiers : \E k \in 1..n : u = t[k]
  <2>1. n \in Nat /\ DOMAIN t = 1..n /\ \A k \in 1..n : t[k].max \in Int
    BY TierMax
  <2>2. n # 0
    OBVIOUS
  <2> HIDE DEF n
  <2> QED
    BY <2>1, <2>2 DEF Money!Range
<1>2. /\ Money!TierFor(t, s) = IF reaching = {} THEN t[n]
                               ELSE t[CHOOSE i \in reaching : Least(i)]
      /\ Money!TightestTier(t, s) =
            IF covering = {} THEN CHOOSE x \in tiers : \A u \in tiers : u.max <= x.max
            ELSE CHOOSE x \in covering : \A u \in covering : x.max <= u.max
  BY Zenon DEF Money!TierFor, Money!TightestTier
<1> HIDE DEF n, tiers
<1>3. /\ \A i \in reaching : i \in 1..n /\ s <= t[i].max /\ t[i] \in covering
      /\ \A u \in covering : \E i \in reaching : u = t[i]
  BY <1>1
<1>4. CASE reaching = {}
  <2>1. covering = {}
    BY <1>3, <1>4
  <2>2. n \in 1..n /\ t[n] \in tiers
    BY <1>1
  <2>3. \A u \in tiers : u.max <= t[n].max
    <3> SUFFICES ASSUME NEW i \in 1..n PROVE t[i].max <= t[n].max
      BY <1>1, Zenon
    <3>1. CASE i = n
      BY <1>1, <3>1
    <3>2. CASE i # n
      <4>1. i < n
        BY <1>1, <3>2
      <4>2. t[i].max < t[n].max
        BY <2>2, <4>1, TiersAscend DEF n
      <4> QED
        BY <1>1, <2>2, <4>2
    <3> QED
      BY <3>1, <3>2
  <2>4. ASSUME NEW x \in tiers, \A u \in tiers : u.max <= x.max PROVE x = t[n]
    <3>1. PICK i \in 1..n : x = t[i]
      BY <1>1, Zenon
    <3>2. t[n].max <= t[i].max
      BY <2>2, <2>4, <3>1, Zenon
    <3>3. i < n => t[i].max < t[n].max
      BY <2>2, TiersAscend DEF n
    <3>4. i = n
      BY <1>1, <2>2, <3>2, <3>3
    <3> QED
      BY <3>1, <3>4, Zenon
  <2>5. (CHOOSE x \in tiers : \A u \in tiers : u.max <= x.max) = t[n]
    <3> HIDE DEF tiers
    <3> QED
      BY <2>2, <2>3, <2>4, Zenon
  <2> HIDE DEF reaching, covering
  <2> QED
    BY <1>2, <1>4, <2>1, <2>2, <2>5, Zenon DEF n
<1>5. CASE reaching # {}
  <2>1. reaching \in SUBSET Nat
    BY <1>1
  <2>2. PICK i \in reaching : Least(i)
    <3> HIDE DEF reaching
    <3> QED
      BY <1>5, <2>1, Smallest
  <2>3. ASSUME NEW j \in reaching, Least(j) PROVE j = i
    <3>1. j <= i /\ i <= j /\ i \in Nat /\ j \in Nat
      BY <2>1, <2>2, <2>3
    <3> QED
      BY <3>1
  <2>4. (CHOOSE j \in reaching : Least(j)) = i
    <3> HIDE DEF reaching
    <3> QED
      BY <2>2, <2>3, Zenon
  <2>5. t[i] \in covering /\ i \in 1..n
    BY <1>3, <2>2, Zenon
  <2>6. \A u \in covering : t[i].max <= u.max
    <3> SUFFICES ASSUME NEW u \in covering PROVE t[i].max <= u.max
      OBVIOUS
    <3>1. PICK j \in reaching : u = t[j]
      BY <1>3, Zenon
    <3>2. i <= j /\ j \in 1..n
      BY Zenon, <1>3, <2>2
    <3>3. i < j => t[i].max < t[j].max
      BY Zenon, <2>5, <3>2, TiersAscend DEF n
    <3>4. t[i].max <= t[j].max
      BY <1>1, <2>5, <3>2, <3>3
    <3> QED
      BY <3>1, <3>4, Zenon
  <2>7. ASSUME NEW x \in covering, \A u \in covering : x.max <= u.max PROVE x = t[i]
    <3>1. PICK j \in reaching : x = t[j]
      BY <1>3, Zenon
    <3>2. i <= j /\ j \in 1..n
      BY <1>3, <2>2
    <3>3. t[j].max <= t[i].max
      BY <2>5, <2>7, <3>1, Zenon
    <3>4. i < j => t[i].max < t[j].max
      BY Zenon, <2>5, <3>2, TiersAscend DEF n
    <3>5. i = j
      BY <1>1, <2>5, <3>2, <3>3, <3>4
    <3> QED
      BY <3>1, <3>5, Zenon
  <2>8. (CHOOSE x \in covering : \A u \in covering : x.max <= u.max) = t[i]
    <3> HIDE DEF covering
    <3> QED
      BY <2>5, <2>6, <2>7, Zenon
  <2>9. covering # {}
    BY <2>5
  <2> HIDE DEF reaching, covering
  <2> QED
    BY <1>2, <1>5, <2>4, <2>5, <2>8, <2>9, Zenon DEF n
<1> QED
  BY <1>4, <1>5

Paid == [players : Nat, referrer : Nat, protocol : Nat, treasury : Nat]

SettingsOK ==
    /\ config \in Money!Config
    /\ Rate(config.protocolBps) /\ Rate(config.cancelBps) /\ Rate(referralBps)
    /\ config.cancelBps > 0 =>
          \E c \in Configs : Money!ValidConfig(c) /\ c.cancelBps = config.cancelBps
    /\ Money!ValidTiers(config.bondTiers)
    /\ feeTiers \in Seq(Money!Tier) /\ Money!ValidTiers(feeTiers)

FeesType ==
    /\ fState \in [FeeMatches -> {"Unused", "Pending", "Active", "Completed", "Cancelled"}]
    /\ stake \in [FeeMatches -> Nat] /\ DOMAIN referred = FeeMatches
    /\ deposits \in [FeeMatches -> Nat] /\ claims \in [FeeMatches -> Nat]
    /\ result \in [FeeMatches -> {"None", "Win", "Draw"}]
    /\ paid \in [FeeMatches -> Paid]

\* The referrer of m has been paid from the platform's cut.
FromTheCut(m) ==
    paid[m].referrer > 0 =>
        /\ referred[m] /\ result[m] = "Win"
        /\ \E c \in Configs : Money!ValidConfig(c)
             /\ paid[m].referrer <= Money!BasisPoints(2 * stake[m], c.cancelBps)

Due(m) == IF fState[m] = "Cancelled" THEN deposits[m] * stake[m]
          ELSE IF result[m] = "Win" THEN claims[m] * 2 * stake[m]
          ELSE claims[m] * stake[m]

AccountOK(m) ==
    /\ fState[m] \in {"Unused", "Pending", "Active"} =>
          paid[m] = Money!NothingPaid /\ claims[m] = 0 /\ result[m] = "None"
    /\ fState[m] = "Unused" => deposits[m] = 0
    /\ fState[m] = "Pending" => deposits[m] <= 1
    /\ fState[m] = "Cancelled" => result[m] = "None"
    /\ result[m] = "Win" /\ claims[m] = 0 => paid[m] = Money!NothingPaid
    /\ Money!Sum(paid[m]) = Due(m)
    /\ FromTheCut(m)

FeesInv == SettingsOK /\ FeesType /\ \A m \in FeeMatches : AccountOK(m)

\* The match k is left alone.
Same(k) ==
    UNCHANGED <<fState[k], stake[k], referred[k], deposits[k], result[k], claims[k], paid[k]>>

\* What the constants give.
LEMMA FeesConstants ==
    /\ Configs \subseteq Money!Config /\ TierLists \subseteq Seq(Money!Tier)
    /\ Stakes \subseteq Nat /\ Shares \subseteq Nat /\ Minima \subseteq Int
    /\ Maxima \subseteq Int
BY PartsAssumption DEF Money!ConstantsOK

\* A call about one match keeps the invariant when it keeps that match in order.
LEMMA OneAccountKeeps ==
    ASSUME FeesInv, NEW m \in FeeMatches, FeesType', AccountOK(m)',
           \A k \in FeeMatches \ {m} : Same(k),
           UNCHANGED <<config, referralBps, feeTiers>>
    PROVE  FeesInv'
<1>1. SettingsOK'
  BY DEF FeesInv, SettingsOK
<1>2. ASSUME NEW k \in FeeMatches, k # m PROVE AccountOK(k)'
  <2>1. AccountOK(k) /\ Same(k)
    BY <1>2 DEF FeesInv
  <2> QED
    BY Zenon, <2>1 DEF AccountOK, Same, FromTheCut, Due
<1> QED
  BY <1>1, <1>2 DEF FeesInv

\* The admin's calls write nothing that has not been checked.
LEMMA SettingsKeep == ASSUME FeesInv, Money!AdminStep PROVE FeesInv'
<1>1. UNCHANGED <<fState, stake, referred, deposits, result, claims, paid>>
  BY DEF Money!AdminStep, Money!SetProtocolConfig, Money!SetMinimumStake,
         Money!SetMaximumStake, Money!SetReferralShareBps,
         Money!SetDisputeBondBasisPoints, Money!SetFeeTiers, Money!matchVars
<1>2. FeesType' /\ \A m \in FeeMatches : AccountOK(m)'
  BY <1>1 DEF FeesInv, FeesType, AccountOK, FromTheCut, Due
<1>3. SettingsOK
  BY DEF FeesInv
<1>4. ASSUME NEW c \in Configs, Money!SetProtocolConfig(c) PROVE SettingsOK'
  <2>1. config' = c /\ Money!ValidConfig(c) /\ UNCHANGED <<referralBps, feeTiers>>
    BY <1>4 DEF Money!SetProtocolConfig
  <2>2. c \in Money!Config
    BY FeesConstants
  <2>3. c.protocolBps \in Nat /\ c.cancelBps \in Nat
    BY <2>2 DEF Money!Config
  <2>4. Rate(c.protocolBps) /\ Rate(c.cancelBps) /\ Money!ValidTiers(c.bondTiers)
    BY <2>1, <2>3 DEF Money!ValidConfig, Rate
  <2> QED
    BY <1>3, <2>1, <2>2, <2>4, Zenon DEF SettingsOK
<1>5. ASSUME NEW n \in Int,
             \/ config' = [config EXCEPT !.minStake = n]
             \/ config' = [config EXCEPT !.maxStake = n],
             UNCHANGED <<referralBps, feeTiers>>
      PROVE  SettingsOK'
  <2>1. config \in Money!Config
    BY <1>3 DEF SettingsOK
  <2>2. /\ config' \in Money!Config /\ config'.protocolBps = config.protocolBps
        /\ config'.cancelBps = config.cancelBps /\ config'.bondTiers = config.bondTiers
    BY <1>5, <2>1 DEF Money!Config
  <2> QED
    BY <1>3, <1>5, <2>2, Zenon DEF SettingsOK
<1>6. ASSUME NEW n \in Minima, Money!SetMinimumStake(n) PROVE SettingsOK'
  <2>1. n \in Int
    BY FeesConstants
  <2> QED
    BY Zenon, <1>5, <1>6, <2>1 DEF Money!SetMinimumStake
<1>7. ASSUME NEW n \in Maxima, Money!SetMaximumStake(n) PROVE SettingsOK'
  <2>1. n \in Int
    BY FeesConstants
  <2> QED
    BY Zenon, <1>5, <1>7, <2>1 DEF Money!SetMaximumStake
<1>8. ASSUME NEW b \in Shares, Money!SetReferralShareBps(b) PROVE SettingsOK'
  <2>1. referralBps' = b /\ UNCHANGED <<config, feeTiers>> /\ Rate(b)
    BY <1>8, FeesConstants DEF Money!SetReferralShareBps, Rate
  <2> QED
    BY <1>3, <2>1, Zenon DEF SettingsOK
<1>9. ASSUME NEW b \in Shares, Money!SetDisputeBondBasisPoints(b) PROVE SettingsOK'
  <2>1. UNCHANGED <<config, feeTiers, referralBps>>
    BY <1>9 DEF Money!SetDisputeBondBasisPoints
  <2> QED
    BY <1>3, <2>1, Zenon DEF SettingsOK
<1>10. ASSUME NEW t \in TierLists, Money!SetFeeTiers(t) PROVE SettingsOK'
  <2>1. feeTiers' = t /\ Money!ValidTiers(t) /\ UNCHANGED <<config, referralBps>>
    BY <1>10 DEF Money!SetFeeTiers
  <2>2. t \in Seq(Money!Tier)
    BY FeesConstants
  <2> QED
    BY <1>3, <2>1, <2>2, Zenon DEF SettingsOK
<1>11. SettingsOK'
  BY <1>4, <1>6, <1>7, <1>8, <1>9, <1>10, Zenon DEF Money!AdminStep
<1> QED
  BY <1>2, <1>11 DEF FeesInv

\* What one match's record is made of.
LEMMA AccountTypes ==
    ASSUME FeesInv, NEW m \in FeeMatches
    PROVE  /\ AccountOK(m)
           /\ stake[m] \in Nat /\ deposits[m] \in Nat /\ claims[m] \in Nat
           /\ paid[m] \in Paid
           /\ Rate(config.cancelBps) /\ Rate(config.protocolBps) /\ Rate(referralBps)
           /\ config.cap \in Nat
<1>1. config \in Money!Config
  BY DEF FeesInv, SettingsOK
<1>2. config.cap \in Nat
  BY <1>1 DEF Money!Config
<1> QED
  BY <1>2 DEF FeesInv, SettingsOK, FeesType

\* Nothing paid is a record of zeros.
LEMMA ZeroPaid ==
    /\ Money!NothingPaid \in Paid /\ Money!NothingPaid.players = 0
    /\ Money!NothingPaid.referrer = 0 /\ Money!NothingPaid.protocol = 0
    /\ Money!NothingPaid.treasury = 0
BY DEF Money!NothingPaid, Paid

\* No piece that was paid is negative.
LEMMA NoPieceNegative ==
    ASSUME NEW p \in Paid PROVE \A k \in DOMAIN Money!NothingPaid : p[k] >= 0
  BY DEF Money!NothingPaid, Paid

\* A record of payments with some fields replaced is one.
LEMMA PaidFields ==
    ASSUME NEW p \in Paid, NEW r, r = [k \in DOMAIN p |-> r[k]],
           r.players \in Nat, r.referrer \in Nat, r.protocol \in Nat, r.treasury \in Nat
    PROVE  r \in Paid
<1>1. DOMAIN p = {"players", "referrer", "protocol", "treasury"}
  BY Zenon DEF Paid
<1> QED
  BY <1>1 DEF Paid

\* A match out of which nothing has been paid is in order.
LEMMA UnpaidAccount ==
    ASSUME NEW m \in FeeMatches, stake'[m] \in Nat, claims'[m] = 0,
           paid'[m] = Money!NothingPaid, fState'[m] # "Cancelled",
           fState'[m] = "Completed" \/ result'[m] = "None",
           fState'[m] = "Unused" => deposits'[m] = 0,
           fState'[m] = "Pending" => deposits'[m] <= 1
    PROVE  AccountOK(m)'
<1>1. Money!Sum(Money!NothingPaid) = 0 /\ ~(Money!NothingPaid.referrer > 0)
  BY ZeroPaid DEF Money!Sum
<1>2. Due(m)' = 0
  BY DEF Due
<1>3. FromTheCut(m)'
  BY <1>1 DEF FromTheCut
<1> QED
  BY Zenon, <1>1, <1>2, <1>3 DEF AccountOK

\* create_match pays nothing.
LEMMA CreatePaysNothing ==
    ASSUME FeesInv, NEW m \in FeeMatches, NEW s \in Stakes, NEW r, NEW o,
           Money!CreateMatch(m, s, r, o)
    PROVE  FeesInv'
<1>0. FeesType /\ AccountOK(m)
  BY DEF FeesInv
<1>1. /\ fState[m] = "Unused" /\ fState' = [fState EXCEPT ![m] = "Pending"]
      /\ stake' = [stake EXCEPT ![m] = s] /\ referred' = [referred EXCEPT ![m] = r]
      /\ UNCHANGED <<config, referralBps, feeTiers, deposits, result, claims, paid>>
  BY DEF Money!CreateMatch, Money!settings
<1>2. /\ deposits[m] = 0 /\ claims[m] = 0 /\ result[m] = "None"
      /\ paid[m] = Money!NothingPaid
  BY Zenon, <1>0, <1>1 DEF AccountOK
<1>3. s \in Nat
  BY Zenon, FeesConstants
<1>4. /\ FeesType' /\ fState'[m] = "Pending" /\ stake'[m] \in Nat
      /\ \A k \in FeeMatches \ {m} : Same(k)
  BY Zenon, <1>0, <1>1, <1>3 DEF FeesType, Same
<1>5. AccountOK(m)'
  <2>1. /\ deposits'[m] = 0 /\ claims'[m] = 0 /\ result'[m] = "None"
        /\ paid'[m] = Money!NothingPaid
    BY Zenon, <1>1, <1>2
  <2>2. 0 <= 1
    OBVIOUS
  <2> QED
    BY Zenon, <1>4, <2>1, <2>2, UnpaidAccount
<1> QED
  BY Zenon, <1>1, <1>4, <1>5, OneAccountKeeps

\* deposit takes a stake and pays nothing.
LEMMA DepositPaysNothing ==
    ASSUME FeesInv, NEW m \in FeeMatches, Money!Deposit(m) PROVE FeesInv'
<1>0. FeesType /\ AccountOK(m)
  BY DEF FeesInv
<1>1. /\ fState[m] = "Pending" /\ deposits' = [deposits EXCEPT ![m] = @ + 1]
      /\ fState' = [fState EXCEPT ![m] = IF deposits[m] = 1 THEN "Active" ELSE @]
      /\ UNCHANGED <<config, referralBps, feeTiers, stake, referred, result, claims, paid>>
  BY DEF Money!Deposit, Money!settings
<1>2. /\ deposits[m] <= 1 /\ claims[m] = 0 /\ result[m] = "None"
      /\ paid[m] = Money!NothingPaid
  BY Zenon, <1>0, <1>1 DEF AccountOK
<1>3. deposits[m] \in Nat /\ stake[m] \in Nat /\ DOMAIN fState = FeeMatches
  BY <1>0 DEF FeesType
<1>4. /\ fState'[m] = (IF deposits[m] = 1 THEN "Active" ELSE "Pending")
      /\ deposits'[m] = deposits[m] + 1
  BY Zenon, <1>0, <1>1 DEF FeesType
<1>5. FeesType' /\ \A k \in FeeMatches \ {m} : Same(k)
  <2>1. deposits[m] + 1 \in Nat
    BY <1>3
  <2>2. FeesType'
    BY Zenon, <1>0, <1>1, <2>1 DEF FeesType
  <2>3. \A k \in FeeMatches \ {m} : Same(k)
    BY Zenon, <1>0, <1>1 DEF FeesType, Same
  <2> QED
    BY Zenon, <2>2, <2>3
<1>6. AccountOK(m)'
  BY <1>1, <1>2, <1>3, <1>4, UnpaidAccount
<1> QED
  BY <1>1, <1>5, <1>6, OneAccountKeeps

\* settle_result pays nothing yet.
LEMMA ResultPaysNothing ==
    ASSUME FeesInv, NEW m \in FeeMatches, NEW w \in {"Win", "Draw"},
           Money!SettleResult(m, w)
    PROVE  FeesInv'
<1>0. FeesType /\ AccountOK(m)
  BY DEF FeesInv
<1>1. /\ fState[m] = "Active" /\ fState' = [fState EXCEPT ![m] = "Completed"]
      /\ result' = [result EXCEPT ![m] = w]
      /\ UNCHANGED <<config, referralBps, feeTiers, stake, referred, deposits, claims, paid>>
  BY DEF Money!SettleResult, Money!settings
<1>2. claims[m] = 0 /\ paid[m] = Money!NothingPaid
  BY Zenon, <1>0, <1>1 DEF AccountOK
<1>3. /\ FeesType' /\ fState'[m] = "Completed" /\ stake'[m] \in Nat
      /\ \A k \in FeeMatches \ {m} : Same(k)
  BY Zenon, <1>0, <1>1 DEF FeesType, Same
<1>4. AccountOK(m)'
  BY Zenon, <1>1, <1>2, <1>3, UnpaidAccount
<1> QED
  BY <1>1, <1>3, <1>4, OneAccountKeeps

\* What no deposit or one deposit is worth.
LEMMA NoneOrOne ==
    ASSUME NEW d \in Nat, d <= 1, NEW s \in Nat, NEW f \in Nat
    PROVE  \/ d = 0 /\ d * (s - f) = 0 /\ d * f = 0 /\ d * s = 0
           \/ d = 1 /\ d * (s - f) = s - f /\ d * f = f /\ d * s = s
<1>1. CASE d = 0
  <2>1. 0 * (s - f) = 0 /\ 0 * f = 0 /\ 0 * s = 0
    OBVIOUS
  <2> QED
    BY <1>1, <2>1, Zenon
<1>2. CASE d = 1
  <2>1. 1 * (s - f) = s - f /\ 1 * f = f /\ 1 * s = s
    OBVIOUS
  <2> QED
    BY <1>2, <2>1, Zenon
<1> QED
  BY <1>1, <1>2

\* Such a multiple of what is paid back and of the fee makes up the stake's.
LEMMA DepositSplit ==
    ASSUME NEW d \in Nat, d <= 1, NEW s \in Nat, NEW f \in Nat, f <= s
    PROVE  /\ d * (s - f) \in Nat /\ d * f \in Nat
           /\ d * (s - f) + d * f = d * s /\ d * s \in Nat
<1>1. CASE d = 0
  BY <1>1
<1>2. CASE d = 1
  BY <1>2
<1> QED
  BY <1>1, <1>2

\* cancel_match pays each deposit back, the fee of it to the treasury.
LEMMA CancelKeeps ==
    ASSUME FeesInv, NEW m \in FeeMatches, Money!CancelMatch(m) PROVE FeesInv'
<1> DEFINE fee == Money!BasisPoints(stake[m], config.cancelBps)
           d == deposits[m]
           s == stake[m]
<1>0. FeesType
  BY DEF FeesInv
<1>1. fee \in Nat /\ fee <= s
  <2>1. s \in Nat /\ Rate(config.cancelBps)
    BY AccountTypes, Zenon
  <2> QED
    BY <2>1, ShareOf, Zenon
<1>2. /\ paid' = [paid EXCEPT ![m].players = @ + d * (s - fee), ![m].treasury = @ + d * fee]
      /\ fState' = [fState EXCEPT ![m] = "Cancelled"]
      /\ UNCHANGED <<config, referralBps, feeTiers, stake, referred, deposits, result, claims>>
      /\ fState[m] = "Pending"
  BY DEF Money!CancelMatch, Money!settings
<1> HIDE DEF fee
<1>3. /\ d <= 1 /\ d \in Nat /\ s \in Nat /\ claims[m] = 0 /\ result[m] = "None"
      /\ paid[m] = Money!NothingPaid
  BY <1>2, AccountTypes DEF AccountOK
<1>4. paid'[m] = [paid[m] EXCEPT !.players = @ + d * (s - fee), !.treasury = @ + d * fee]
  BY Zenon, <1>0, <1>2 DEF FeesType, Paid
<1>5. \/ d = 0 /\ d * (s - fee) = 0 /\ d * fee = 0 /\ d * s = 0
      \/ d = 1 /\ d * (s - fee) = s - fee /\ d * fee = fee /\ d * s = s
  <2>1. d \in Nat /\ d <= 1 /\ s \in Nat /\ fee \in Nat
    BY Zenon, <1>1, <1>3
  <2> HIDE DEF d, s
  <2> QED
    BY Zenon, <2>1, NoneOrOne
<1> DEFINE x == d * (s - fee)
           y == d * fee
           z == d * s
<1>6. x \in Nat /\ y \in Nat /\ x + y = z /\ z \in Nat
  BY Zenon, <1>1, <1>3, DepositSplit
<1>7. /\ paid'[m].players = x /\ paid'[m].referrer = 0 /\ paid'[m].protocol = 0
      /\ paid'[m].treasury = y /\ paid'[m] \in Paid
  <2> HIDE DEF x, y
  <2> DEFINE p == paid[m]
             r == [p EXCEPT !.players = @ + x, !.treasury = @ + y]
  <2>1. p \in Paid /\ p.players = 0 /\ p.referrer = 0 /\ p.protocol = 0 /\ p.treasury = 0
    BY <1>3, ZeroPaid
  <2>2. paid'[m] = r
    BY <1>4 DEF x, y
  <2> HIDE DEF p
  <2>3. r.players = x /\ r.referrer = 0 /\ r.protocol = 0 /\ r.treasury = y
    BY <1>6, <2>1 DEF Paid
  <2>4. r = [k \in DOMAIN p |-> r[k]]
    BY Zenon, <2>1 DEF Paid
  <2> HIDE DEF r
  <2>5. r \in Paid
    BY <1>6, <2>1, <2>3, <2>4, PaidFields
  <2> QED
    BY Zenon, <2>2, <2>3, <2>5
<1>8. \A k \in FeeMatches \ {m} : Same(k)
  BY <1>0, <1>2 DEF FeesType, Same
<1> HIDE DEF x, y
<1>10. paid' = [k \in DOMAIN paid' |-> paid'[k]] /\ DOMAIN paid' = FeeMatches
  BY Zenon, <1>0, <1>2 DEF FeesType
<1>11. FeesType'
  <2>1. paid' \in [FeeMatches -> Paid]
    BY <1>0, <1>7, <1>8, <1>10 DEF FeesType, Same
  <2> QED
    BY Zenon, <1>0, <1>2, <2>1 DEF FeesType
<1>12. fState'[m] = "Cancelled"
  BY Zenon, <1>0, <1>2 DEF FeesType
<1>13. Money!Sum(paid[m])' = z
  BY <1>6, <1>7 DEF Money!Sum
<1>14. Due(m)' = z
  BY <1>2, <1>12 DEF Due
<1>15. FromTheCut(m)'
  <2>1. paid'[m].referrer = 0
    BY Zenon, <1>7
  <2>2. ~(0 > 0)
    OBVIOUS
  <2> QED
    BY Zenon, <2>1, <2>2 DEF FromTheCut
<1>16. AccountOK(m)'
  BY <1>2, <1>3, <1>12, <1>13, <1>14, <1>15 DEF AccountOK
<1> QED
  BY <1>2, <1>8, <1>11, <1>16, OneAccountKeeps

\* What a winner's fees are: shares of the pot, the referrer's one of the
\* platform's cut at an accepted rate.
LEMMA WinFees ==
    ASSUME FeesInv, NEW m \in FeeMatches
    PROVE  LET pot == 2 * stake[m]
           IN  /\ pot \in Nat
               /\ Money!ProtocolFee(pot) \in Nat
               /\ Money!ReferralFee(m, pot) \in Nat
               /\ Money!ReferralFee(m, pot) > 0 =>
                     /\ referred[m]
                     /\ \E c \in Configs : Money!ValidConfig(c)
                          /\ Money!ReferralFee(m, pot) <= Money!BasisPoints(pot, c.cancelBps)
<1> DEFINE pot == 2 * stake[m]
           cut == Money!BasisPoints(pot, config.cancelBps)
           share == Money!BasisPoints(cut, referralBps)
           fee == Money!BasisPoints(pot, config.protocolBps)
<1>1. /\ stake[m] \in Nat /\ config.cap \in Nat
      /\ Rate(config.cancelBps) /\ Rate(config.protocolBps) /\ Rate(referralBps)
  BY Zenon, AccountTypes
<1>2. pot \in Nat
  BY <1>1
<1> HIDE DEF pot
<1>3. cut \in Nat /\ fee \in Nat
  BY Zenon, <1>1, <1>2, ShareOf
<1> HIDE DEF cut, fee
<1>4. share \in Nat /\ share <= cut
  BY <1>1, <1>3, ShareOf
<1> HIDE DEF share
<1>5. Money!ProtocolFee(pot) = IF config.cap # 0 /\ fee > config.cap THEN config.cap ELSE fee
  BY DEF Money!ProtocolFee, fee
<1>6. Money!ReferralFee(m, pot) =
        IF referred[m] /\ config.cancelBps > 0 THEN share ELSE 0
  BY DEF Money!ReferralFee, share, cut
<1>7. config.cancelBps > 0 =>
        \E c \in Configs : Money!ValidConfig(c) /\ cut = Money!BasisPoints(pot, c.cancelBps)
  BY Zenon DEF FeesInv, SettingsOK, cut
<1>8. Money!ProtocolFee(pot) \in Nat
  BY <1>1, <1>3, <1>5
<1>9. ASSUME Money!ReferralFee(m, pot) > 0
      PROVE  /\ referred[m]
             /\ \E c \in Configs : Money!ValidConfig(c)
                  /\ Money!ReferralFee(m, pot) <= Money!BasisPoints(pot, c.cancelBps)
  <2>1. referred[m] /\ config.cancelBps > 0 /\ Money!ReferralFee(m, pot) = share
    BY <1>6, <1>9
  <2>2. PICK c \in Configs : Money!ValidConfig(c) /\ cut = Money!BasisPoints(pot, c.cancelBps)
    BY <1>7, <2>1
  <2>3. Money!ReferralFee(m, pot) <= Money!BasisPoints(pot, c.cancelBps)
    BY <1>4, <2>1, <2>2
  <2> QED
    BY <2>1, <2>2, <2>3
<1>10. Money!ReferralFee(m, pot) \in Nat
  BY <1>4, <1>6
<1> QED
  BY <1>2, <1>8, <1>9, <1>10, Zenon DEF pot

\* A payment of one match leaves a record for every match.
LEMMA PaidType ==
    ASSUME FeesInv, NEW m \in FeeMatches, NEW f, DOMAIN f = FeeMatches, f[m] \in Paid,
           f = [k \in DOMAIN f |-> f[k]], \A k \in FeeMatches \ {m} : f[k] = paid[k]
    PROVE  f \in [FeeMatches -> Paid]
<1>1. paid \in [FeeMatches -> Paid]
  BY DEF FeesInv, FeesType
<1> QED
  BY <1>1

\* claim_vested_payout by a winner pays out the whole pot.
LEMMA ClaimWinKeeps ==
    ASSUME FeesInv, NEW m \in FeeMatches, Money!ClaimWin(m) PROVE FeesInv'
<1> DEFINE pot == 2 * stake[m]
           net == Money!NetPayout(m, pot)
           ref == Money!ReferralFee(m, pot)
           fee == Money!ProtocolFee(pot)
<1>0. FeesType /\ AccountOK(m) /\ paid[m] \in Paid /\ stake[m] \in Nat
  BY AccountTypes DEF FeesInv
<1>1. /\ fState[m] = "Completed" /\ result[m] = "Win" /\ claims[m] = 0
      /\ net >= 0
      /\ paid' = [paid EXCEPT ![m].players = @ + net, ![m].referrer = @ + ref,
                              ![m].protocol = @ + fee]
      /\ claims' = [claims EXCEPT ![m] = 1]
      /\ UNCHANGED <<config, referralBps, feeTiers, fState, stake, referred, deposits, result>>
  BY DEF Money!ClaimWin, Money!settings
<1>2. /\ pot \in Nat /\ fee \in Nat /\ ref \in Nat
      /\ ref > 0 => /\ referred[m]
                    /\ \E c \in Configs : Money!ValidConfig(c)
                         /\ ref <= Money!BasisPoints(pot, c.cancelBps)
  BY WinFees, Zenon
<1>3. net = pot - ref - fee
  BY DEF Money!NetPayout
<1>4. claims'[m] = 1 /\ claims' \in [FeeMatches -> Nat]
  BY Zenon, <1>0, <1>1 DEF FeesType
<1>5. claims'[m] * 2 * stake'[m] = pot
  <2>1. stake'[m] = stake[m]
    BY Zenon, <1>1
  <2>2. 1 * 2 * stake[m] = pot
    BY <1>0
  <2> QED
    BY <1>4, <2>1, <2>2
<1> HIDE DEF net, ref, fee, pot
<1>6. net \in Nat /\ net + ref + fee = pot
  BY <1>1, <1>2, <1>3
<1> DEFINE p == paid[m]
           r == [p EXCEPT !.players = @ + net, !.referrer = @ + ref, !.protocol = @ + fee]
<1>7. paid'[m] = r
  BY <1>0, <1>1 DEF FeesType, Paid
<1>8. p \in Paid /\ p.players = 0 /\ p.referrer = 0 /\ p.protocol = 0 /\ p.treasury = 0
  BY <1>0, <1>1, ZeroPaid DEF AccountOK
<1> HIDE DEF p
<1>9. r.players = net /\ r.referrer = ref /\ r.protocol = fee /\ r.treasury = 0
  BY <1>2, <1>6, <1>8 DEF Paid
<1>10. r = [k \in DOMAIN p |-> r[k]]
  BY Zenon, <1>8 DEF Paid
<1> HIDE DEF r
<1>11. r \in Paid
  BY <1>2, <1>6, <1>8, <1>9, <1>10, PaidFields
<1>12. \A k \in FeeMatches \ {m} : Same(k)
  BY <1>0, <1>1 DEF FeesType, Same
<1>13. paid' = [k \in DOMAIN paid' |-> paid'[k]] /\ DOMAIN paid' = FeeMatches
  BY Zenon, <1>0, <1>1 DEF FeesType
<1>14. paid' \in [FeeMatches -> Paid]
  <2> DEFINE f == paid'
  <2>1. DOMAIN f = FeeMatches /\ f[m] \in Paid /\ f = [k \in DOMAIN f |-> f[k]]
    BY Zenon, <1>7, <1>11, <1>13
  <2>2. \A k \in FeeMatches \ {m} : f[k] = paid[k]
    BY Zenon, <1>12 DEF Same
  <2> HIDE DEF f
  <2>3. f \in [FeeMatches -> Paid]
    BY <2>1, <2>2, PaidType
  <2> QED
    BY <2>3 DEF f
<1>15. FeesType'
  BY <1>0, <1>1, <1>4, <1>14 DEF FeesType
<1>16. Money!Sum(paid[m])' = pot
  <2>1. net + ref + fee + 0 = pot
    BY <1>2, <1>6
  <2>2. Money!Sum(paid[m])' = net + ref + fee + 0
    BY Zenon, <1>7, <1>9 DEF Money!Sum
  <2> QED
    BY Zenon, <2>1, <2>2
<1>17. Due(m)' = pot
  BY <1>1, <1>5 DEF Due
<1>18. FromTheCut(m)'
  <2>1. /\ paid'[m].referrer = ref /\ referred' = referred /\ result'[m] = "Win"
        /\ 2 * stake'[m] = pot
    BY Zenon, <1>1, <1>7, <1>9 DEF pot
  <2>2. ref > 0 => /\ referred'[m] /\ result'[m] = "Win"
                   /\ \E c \in Configs : Money!ValidConfig(c)
                        /\ ref <= Money!BasisPoints(2 * stake'[m], c.cancelBps)
    BY <1>2, <2>1, Zenon
  <2> QED
    BY Zenon, <2>1, <2>2 DEF FromTheCut
<1>19. AccountOK(m)'
  BY <1>1, <1>4, <1>16, <1>17, <1>18 DEF AccountOK
<1> QED
  BY <1>1, <1>12, <1>15, <1>19, OneAccountKeeps

\* claim_vested_payout of a drawn match pays one stake.
LEMMA ClaimDrawKeeps ==
    ASSUME FeesInv, NEW m \in FeeMatches, Money!ClaimDraw(m) PROVE FeesInv'
<1> DEFINE s == stake[m]
           c == claims[m]
           p == paid[m]
           r == [p EXCEPT !.players = @ + s]
<1>0. FeesType /\ AccountOK(m) /\ p \in Paid /\ s \in Nat /\ c \in Nat
  BY Zenon, AccountTypes DEF FeesInv
<1>1. /\ fState[m] = "Completed" /\ result[m] = "Draw"
      /\ paid' = [paid EXCEPT ![m].players = @ + s]
      /\ claims' = [claims EXCEPT ![m] = @ + 1]
      /\ UNCHANGED <<config, referralBps, feeTiers, fState, stake, referred, deposits, result>>
  BY DEF Money!ClaimDraw, Money!settings
<1>2. claims'[m] = c + 1 /\ claims' \in [FeeMatches -> Nat]
  BY <1>0, <1>1 DEF FeesType
<1>3. Money!Sum(p) = c * s
  BY <1>0, <1>1 DEF AccountOK, Due
<1>4. paid'[m] = r
  BY <1>0, <1>1 DEF FeesType, Paid
<1> HIDE DEF p, s, c
<1>5. /\ r \in Paid /\ r.players = p.players + s /\ r.referrer = p.referrer
      /\ r.protocol = p.protocol /\ r.treasury = p.treasury
  BY <1>0 DEF Paid
<1> HIDE DEF r
<1>6. \A k \in FeeMatches \ {m} : Same(k)
  BY <1>0, <1>1 DEF FeesType, Same
<1>7. paid' = [k \in DOMAIN paid' |-> paid'[k]] /\ DOMAIN paid' = FeeMatches
  BY Zenon, <1>0, <1>1 DEF FeesType
<1>8. paid' \in [FeeMatches -> Paid]
  <2> DEFINE f == paid'
  <2>1. DOMAIN f = FeeMatches /\ f[m] \in Paid /\ f = [k \in DOMAIN f |-> f[k]]
    BY <1>4, <1>5, <1>7
  <2>2. \A k \in FeeMatches \ {m} : f[k] = paid[k]
    BY <1>6 DEF Same
  <2> HIDE DEF f
  <2>3. f \in [FeeMatches -> Paid]
    BY <2>1, <2>2, PaidType
  <2> QED
    BY <2>3 DEF f
<1>9. FeesType'
  BY <1>0, <1>1, <1>2, <1>8 DEF FeesType
<1>10. Money!Sum(r) = (c + 1) * s
  <2>1. /\ p.players \in Nat /\ p.referrer \in Nat /\ p.protocol \in Nat /\ p.treasury \in Nat
    BY <1>0 DEF Paid
  <2>2. Money!Sum(r) = Money!Sum(p) + s
    BY <1>0, <1>5, <2>1 DEF Money!Sum
  <2>3. (c + 1) * s = c * s + s
    BY <1>0
  <2> QED
    BY <1>3, <2>2, <2>3
<1>11. Money!Sum(paid[m])' = (c + 1) * s
  BY <1>4, <1>10 DEF Money!Sum
<1>12. Due(m)' = (c + 1) * s
  BY Zenon, <1>1, <1>2 DEF Due, s
<1>13. FromTheCut(m)'
  <2>1. paid'[m].referrer = p.referrer /\ ~(p.referrer > 0)
    BY <1>0, <1>1, <1>4, <1>5 DEF AccountOK, FromTheCut, p
  <2> QED
    BY <2>1 DEF FromTheCut
<1>14. AccountOK(m)'
  BY <1>1, <1>2, <1>11, <1>12, <1>13 DEF AccountOK
<1> QED
  BY <1>1, <1>6, <1>9, <1>14, OneAccountKeeps

\* Every call keeps the invariant.
LEMMA FeesStep == ASSUME FeesInv, Money!Next \/ UNCHANGED feeVars PROVE FeesInv'
<1>1. ASSUME Money!Tick \/ UNCHANGED feeVars PROVE FeesInv'
  <2>1. UNCHANGED <<config, referralBps, feeTiers, fState, stake, referred, deposits,
                    result, claims, paid>>
    BY <1>1 DEF Money!Tick, feeVars, Money!settings, Money!matchVars
  <2> QED
    BY Zenon, <2>1 DEF FeesInv, SettingsOK, FeesType, AccountOK, FromTheCut, Due
<1>2. ASSUME NEW m \in FeeMatches, Money!MatchStep(m) PROVE FeesInv'
  BY <1>2, CreatePaysNothing, DepositPaysNothing, ResultPaysNothing, CancelKeeps,
     ClaimWinKeeps, ClaimDrawKeeps, Zenon
     DEF Money!MatchStep
<1> QED
  BY <1>1, <1>2, SettingsKeep, Zenon DEF Money!Next

\* The default configuration is in order, and no match exists.
LEMMA FeesInit == ASSUME Money!Init PROVE FeesInv
<1>0. referralBps = 2000
  BY DEF Money!Init
<1>1. /\ config = Money!DefaultConfig /\ feeTiers = << >>
      /\ fState = [m \in FeeMatches |-> "Unused"]
      /\ stake = [m \in FeeMatches |-> 0]
      /\ referred = [m \in FeeMatches |-> FALSE]
      /\ deposits = [m \in FeeMatches |-> 0]
      /\ result = [m \in FeeMatches |-> "None"]
      /\ claims = [m \in FeeMatches |-> 0]
      /\ paid = [m \in FeeMatches |-> Money!NothingPaid]
  BY DEF Money!Init
<1>2. SettingsOK
  <2>1. << >> \in Seq(Money!Tier) /\ Money!ValidTiers(<< >>)
    BY Zenon, NoTiers
  <2>2. Money!DefaultConfig \in Money!Config
    <3>1. << >> \in Seq(Money!Tier)
      OBVIOUS
    <3> QED
      BY <3>1 DEF Money!DefaultConfig, Money!Config, Money!Accounts
  <2>3. /\ config.protocolBps = 0 /\ config.cancelBps = 0 /\ config.bondTiers = << >>
    BY <1>1 DEF Money!DefaultConfig
  <2>4. Rate(0)
    BY DEF Rate
  <2>5. ~(0 > 0)
    OBVIOUS
  <2>6. config \in Money!Config
    BY Zenon, <1>1, <2>2
  <2>7. Rate(config.protocolBps) /\ Rate(config.cancelBps) /\ Rate(referralBps)
    <3>1. Rate(config.protocolBps) /\ Rate(config.cancelBps)
      BY Zenon, <2>3, <2>4
    <3>2. Rate(referralBps)
      BY <1>0 DEF Rate
    <3> QED
      BY Zenon, <3>1, <3>2
  <2>8. ~(config.cancelBps > 0)
    BY Zenon, <2>3, <2>5
  <2>9. /\ Money!ValidTiers(config.bondTiers)
        /\ feeTiers \in Seq(Money!Tier) /\ Money!ValidTiers(feeTiers)
    BY Zenon, <1>1, <2>1, <2>3
  <2> QED
    BY Zenon, <2>6, <2>7, <2>8, <2>9 DEF SettingsOK
<1>3. FeesType
  BY Zenon, <1>1, ZeroPaid DEF FeesType
<1>4. ASSUME NEW m \in FeeMatches PROVE AccountOK(m)
  <2>1. Money!Sum(paid[m]) = 0 /\ ~(paid[m].referrer > 0)
    BY <1>1, ZeroPaid DEF Money!Sum
  <2> QED
    BY <1>1, <2>1 DEF AccountOK, FromTheCut, Due
<1> QED
  BY <1>2, <1>3, <1>4 DEF FeesInv

\* A rate of an accepted schedule is one.
LEMMA TierRate ==
    ASSUME NEW t \in Seq(Money!Tier), Money!ValidTiers(t), NEW i \in 1..Len(t)
    PROVE  Rate(t[i].bps)
<1>1. t[i] \in Money!Tier /\ i \in DOMAIN t
  BY Zenon, TierMax
<1>2. t[i].bps \in Nat
  BY Zenon, <1>1 DEF Money!Tier
<1> QED
  BY Zenon, <1>1, <1>2, TierShare

\* What the invariant says of the payments and of the rates.
LEMMA FeesExact ==
    ASSUME FeesInv
    PROVE  Money!PiecesAddUp /\ Money!ReferralFromTheCut /\ Money!TightestTierCharged
<1>1. Money!PiecesAddUp
  <2> SUFFICES ASSUME NEW m \in FeeMatches
               PROVE  /\ \A k \in DOMAIN Money!NothingPaid : paid[m][k] >= 0
                      /\ Money!Sum(paid[m]) =
                           CASE fState[m] = "Cancelled" -> deposits[m] * stake[m]
                             [] result[m] = "Win" -> claims[m] * 2 * stake[m]
                             [] OTHER -> claims[m] * stake[m]
    BY Zenon DEF Money!PiecesAddUp
  <2>1. AccountOK(m) /\ paid[m] \in Paid
    BY Zenon, AccountTypes
  <2>2. \A k \in DOMAIN Money!NothingPaid : paid[m][k] >= 0
    BY Zenon, <2>1, NoPieceNegative
  <2>3. /\ Money!Sum(paid[m]) = Due(m)
        /\ fState[m] = "Cancelled" => result[m] # "Win"
    BY <2>1 DEF AccountOK
  <2>4. Due(m) = CASE fState[m] = "Cancelled" -> deposits[m] * stake[m]
                   [] result[m] = "Win" -> claims[m] * 2 * stake[m]
                   [] OTHER -> claims[m] * stake[m]
    <3> DEFINE a == deposits[m] * stake[m]
               b == claims[m] * 2 * stake[m]
               c == claims[m] * stake[m]
    <3> HIDE DEF a, b, c
    <3>1. Due(m) = IF fState[m] = "Cancelled" THEN a ELSE IF result[m] = "Win" THEN b ELSE c
      BY Zenon DEF Due, a, b, c
    <3>2. Due(m) = CASE fState[m] = "Cancelled" -> a [] result[m] = "Win" -> b [] OTHER -> c
      BY Zenon, <2>3, <3>1
    <3> QED
      BY <3>2 DEF a, b, c
  <2> QED
    BY <2>2, <2>3, <2>4
<1>2. Money!ReferralFromTheCut
  BY DEF FeesInv, AccountOK, FromTheCut, Money!ReferralFromTheCut
<1>3. Money!TightestTierCharged
  <2> SUFFICES ASSUME NEW s \in Stakes
               PROVE  /\ Money!TieredFee(s) \in 0..2 * s
                      /\ feeTiers # << >> =>
                           Money!TieredFee(s) =
                             Money!BasisPoints(2 * s, Money!TightestTier(feeTiers, s).bps)
                      /\ config.bondTiers # << >> =>
                           Money!DisputeBondBpsFor(s) =
                             Money!TightestTier(config.bondTiers, s).bps
    BY DEF Money!TightestTierCharged
  <2>1. s \in Nat /\ 2 * s \in Nat
    BY FeesConstants
  <2>2. /\ feeTiers \in Seq(Money!Tier) /\ Money!ValidTiers(feeTiers)
        /\ config \in Money!Config /\ Money!ValidTiers(config.bondTiers)
    BY DEF FeesInv, SettingsOK
  <2>3. config.bondTiers \in Seq(Money!Tier)
    BY <2>2 DEF Money!Config
  <2>4. config.bondTiers # << >> =>
          Money!DisputeBondBpsFor(s) = Money!TightestTier(config.bondTiers, s).bps
    BY <2>1, <2>2, <2>3, FirstIsTightest, Zenon DEF Money!DisputeBondBpsFor
  <2>5. CASE feeTiers = << >>
    <3>1. Money!TieredFee(s) = 0
      BY <2>5 DEF Money!TieredFee
    <3> QED
      BY <2>1, <2>4, <2>5, <3>1
  <2>6. CASE feeTiers # << >>
    <3>1. /\ Money!TierFor(feeTiers, s) = Money!TightestTier(feeTiers, s)
          /\ \E i \in 1..Len(feeTiers) : Money!TierFor(feeTiers, s) = feeTiers[i]
      BY <2>1, <2>2, <2>6, FirstIsTightest, Zenon
    <3>2. Rate(Money!TierFor(feeTiers, s).bps)
      BY <2>2, <3>1, TierRate, Zenon
    <3>3. Money!TieredFee(s) = Money!BasisPoints(2 * s, Money!TierFor(feeTiers, s).bps)
      BY <2>6, Zenon DEF Money!TieredFee
    <3> DEFINE pot == 2 * s
               f == Money!TieredFee(s)
    <3> HIDE DEF pot, f
    <3>4. f \in Nat /\ f <= pot
      <4>1. pot \in Nat /\ f = Money!BasisPoints(pot, Money!TierFor(feeTiers, s).bps)
        BY <2>1, <3>3 DEF pot, f
      <4> QED
        BY <3>2, <4>1, ShareOf
    <3>5. f \in 0..pot
      BY <2>1, <3>4 DEF pot
    <3>6. Money!TieredFee(s) \in 0..2 * s
      BY <3>5 DEF f, pot
    <3> QED
      BY <2>4, <3>1, <3>3, <3>6, Zenon
  <2> QED
    BY <2>5, <2>6, Zenon
<1> QED
  BY <1>1, <1>2, <1>3

-----------------------------------------------------------------------------
(***************************************************************************)
(* TokenLists.  Each list names what is flagged, once.                     *)
(***************************************************************************)
Keeps(list, flagged) ==
    list \in Seq(Addresses) /\ NamesOnce(list) /\ Named(list) = flagged

ListsInv ==
    /\ allowed \in SUBSET Addresses /\ issuers \in SUBSET (Addresses \ {Contract})
    /\ allowedCount = Cardinality(allowed) /\ issuerCount = Cardinality(issuers)
    /\ enforced \in BOOLEAN /\ (enforced <=> allowed # {})
    /\ Keeps(allowedList, allowed)
    /\ tBarred \in [Lists!Registers -> SUBSET Addresses]
    /\ DOMAIN barredList = Lists!Registers
    /\ \A r \in Lists!Registers : Keeps(barredList[r], tBarred[r])

\* TokenLists counts, removes and looks up as here.
LEMMA ListsAlike ==
    /\ \A S : Lists!Cardinality(S) = Cardinality(S)
    /\ \A S : Lists!IsFiniteSet(S) <=> IsFiniteSet(S)
    /\ \A s, x : Lists!Without(s, x) = Without(s, x)
    /\ \A s : Lists!Range(s) = Named(s)
<1>1. /\ \A S : Lists!Cardinality(S) = Cardinality(S)
      /\ \A S : Lists!IsFiniteSet(S) <=> IsFiniteSet(S)
  BY DEF Lists!Cardinality, Cardinality, Lists!IsFiniteSet, IsFiniteSet
<1>2. \A s, x : Lists!Without(s, x) = Without(s, x)
  BY DEF Lists!Without, Without
<1>3. \A s : Lists!Range(s) = Named(s)
  BY Zenon DEF Lists!Range, Named
<1> QED
  BY Zenon, <1>1, <1>2, <1>3

\* Subsets of the addresses are finite.
LEMMA FlaggedAddresses ==
    ASSUME NEW S \in SUBSET Addresses, NEW x
    PROVE  /\ IsFiniteSet(S) /\ Cardinality(S) \in Nat
           /\ Cardinality(S \cup {x}) = IF x \in S THEN Cardinality(S) ELSE Cardinality(S) + 1
           /\ Cardinality(S \ {x}) = IF x \in S THEN Cardinality(S) - 1 ELSE Cardinality(S)
           /\ Cardinality(S) = 0 <=> S = {}
<1>1. IsFiniteSet(Addresses)
  BY PartsAssumption, ListsAlike DEF Lists!ConstantsOK
<1>2. IsFiniteSet(S)
  BY <1>1, FS_Subset, Zenon
<1>3. Cardinality(S) \in Nat /\ (Cardinality(S) = 0 <=> S = {})
  BY <1>2, FS_CardinalityType, FS_EmptySet
<1>4. Cardinality(S \cup {x}) = IF x \in S THEN Cardinality(S) ELSE Cardinality(S) + 1
  BY <1>2, FS_AddElement, Zenon
<1>5. Cardinality(S \ {x}) = IF x \in S THEN Cardinality(S) - 1 ELSE Cardinality(S)
  BY <1>2, FS_RemoveElement, Zenon
<1> QED
  BY <1>2, <1>3, <1>4, <1>5

\* The two writes to a list.
LEMMA ListAdds ==
    ASSUME NEW list, NEW flagged, Keeps(list, flagged), NEW x \in Addresses
    PROVE  Keeps(IF x \in flagged THEN list ELSE Append(list, x), flagged \cup {x})
<1>1. CASE x \in flagged
  BY <1>1 DEF Keeps
<1>2. CASE x \notin flagged
  <2>1. list \in Seq(Addresses) /\ NamesOnce(list) /\ x \notin Named(list)
    BY <1>2 DEF Keeps
  <2> QED
    BY <1>2, <2>1, AppendKeeps DEF Keeps
<1> QED
  BY <1>1, <1>2

LEMMA ListDrops ==
    ASSUME NEW list, NEW flagged, Keeps(list, flagged), NEW x
    PROVE  Keeps(Lists!Without(list, x), flagged \ {x})
<1>1. list \in Seq(Addresses) /\ NamesOnce(list) /\ Named(list) = flagged
  BY DEF Keeps
<1>2. /\ Without(list, x) \in Seq(Addresses) /\ NamesOnce(Without(list, x))
      /\ Named(Without(list, x)) = Named(list) \ {x}
  BY <1>1, WithoutNames, Zenon
<1> QED
  BY <1>1, <1>2, ListsAlike, Zenon DEF Keeps

\* add_allowed_token and remove_allowed_token.
LEMMA AllowedKeeps ==
    ASSUME ListsInv, NEW x \in Addresses,
           Lists!AddAllowedToken(x) \/ Lists!RemoveAllowedToken(x)
    PROVE  ListsInv'
<1>1. UNCHANGED <<issuers, issuerCount, tBarred, barredList>>
  BY DEF Lists!AddAllowedToken, Lists!RemoveAllowedToken, Lists!issuerVars, Lists!barVars
<1>2. /\ allowed \in SUBSET Addresses /\ Keeps(allowedList, allowed)
      /\ allowedCount = Cardinality(allowed) /\ (enforced <=> allowed # {})
  BY DEF ListsInv
<1>3. /\ IsFiniteSet(allowed) /\ Cardinality(allowed) \in Nat
      /\ Cardinality(allowed \cup {x}) =
            IF x \in allowed THEN Cardinality(allowed) ELSE Cardinality(allowed) + 1
      /\ Cardinality(allowed \ {x}) =
            IF x \in allowed THEN Cardinality(allowed) - 1 ELSE Cardinality(allowed)
      /\ Cardinality(allowed) = 0 <=> allowed = {}
      /\ Cardinality(allowed \ {x}) = 0 <=> allowed \ {x} = {}
  <2>1. allowed \ {x} \in SUBSET Addresses
    BY <1>2
  <2> QED
    BY <1>2, <2>1, FlaggedAddresses, Zenon
<1>4. /\ allowed' \in SUBSET Addresses /\ allowedCount' = Cardinality(allowed')
      /\ enforced' \in BOOLEAN /\ (enforced' <=> allowed' # {})
      /\ Keeps(allowedList', allowed')
  <2>1. CASE Lists!AddAllowedToken(x)
    <3>1. /\ allowed' = allowed \cup {x} /\ enforced' = TRUE
          /\ allowedCount' = IF x \in allowed THEN allowedCount ELSE allowedCount + 1
          /\ allowedList' = IF x \in Lists!Range(allowedList) THEN allowedList
                            ELSE Append(allowedList, x)
      BY <2>1 DEF Lists!AddAllowedToken
    <3>2. x \in Lists!Range(allowedList) <=> x \in allowed
      BY <1>2, ListsAlike DEF Keeps
    <3>3. Keeps(allowedList', allowed')
      BY Zenon, <1>2, <3>1, <3>2, ListAdds
    <3> QED
      BY Zenon, <1>2, <1>3, <3>1, <3>3
  <2>2. CASE Lists!RemoveAllowedToken(x)
    <3>1. /\ allowed' = allowed \ {x}
          /\ allowedCount' = IF x \in allowed THEN Lists!Decremented(allowedCount)
                             ELSE allowedCount
          /\ enforced' = (enforced /\ ~(x \in allowed /\ allowedCount' = 0))
          /\ allowedList' = Lists!Without(allowedList, x)
      BY <2>2 DEF Lists!RemoveAllowedToken
    <3>2. Keeps(allowedList', allowed')
      BY <1>2, <3>1, ListDrops, Zenon
    <3>3. allowedCount' = Cardinality(allowed')
      BY <1>2, <1>3, <3>1 DEF Lists!Decremented
    <3>4. enforced' \in BOOLEAN
      BY <3>1, Zenon
    <3>5. enforced' <=> allowed' # {}
      <4>1. allowedCount' = 0 <=> allowed' = {}
        BY <1>3, <3>1, <3>3
      <4>2. x \notin allowed => allowed' = allowed
        BY <3>1
      <4>3. x \in allowed => allowed # {}
        OBVIOUS
      <4> QED
        BY <1>2, <3>1, <4>1, <4>2, <4>3, Zenon
    <3> QED
      BY <1>2, <3>1, <3>2, <3>3, <3>4, <3>5
  <2> QED
    BY Zenon, <2>1, <2>2
<1> QED
  BY <1>1, <1>4, Zenon DEF ListsInv

\* add_stablecoin_issuer and remove_stablecoin_issuer.
LEMMA IssuersKeep ==
    ASSUME ListsInv, NEW x \in Addresses,
           Lists!AddStablecoinIssuer(x) \/ Lists!RemoveStablecoinIssuer(x)
    PROVE  ListsInv'
<1>1. UNCHANGED <<allowed, allowedCount, enforced, allowedList, tBarred, barredList>>
  BY DEF Lists!AddStablecoinIssuer, Lists!RemoveStablecoinIssuer, Lists!allowVars,
         Lists!barVars
<1>2. issuers \in SUBSET (Addresses \ {Contract}) /\ issuerCount = Cardinality(issuers)
  BY DEF ListsInv
<1>3. /\ Cardinality(issuers) \in Nat
      /\ Cardinality(issuers \cup {x}) =
            IF x \in issuers THEN Cardinality(issuers) ELSE Cardinality(issuers) + 1
      /\ Cardinality(issuers \ {x}) =
            IF x \in issuers THEN Cardinality(issuers) - 1 ELSE Cardinality(issuers)
      /\ Cardinality(issuers) = 0 <=> issuers = {}
  <2>1. issuers \in SUBSET Addresses
    BY <1>2
  <2> QED
    BY <2>1, FlaggedAddresses, Zenon
<1>4. issuers' \in SUBSET (Addresses \ {Contract}) /\ issuerCount' = Cardinality(issuers')
  BY Zenon, <1>2, <1>3 DEF Lists!AddStablecoinIssuer, Lists!RemoveStablecoinIssuer,
                    Lists!Decremented
<1> QED
  BY <1>1, <1>4, Zenon DEF ListsInv

\* The blacklist and the frozen players.
LEMMA BarKeeps ==
    ASSUME ListsInv, NEW x \in Addresses, NEW r \in Lists!Registers,
           Lists!Bar(r, x) \/ Lists!Readmit(r, x)
    PROVE  ListsInv'
<1>1. UNCHANGED <<allowed, allowedCount, enforced, allowedList, issuers, issuerCount>>
  BY Zenon DEF Lists!Bar, Lists!Readmit, Lists!allowVars, Lists!issuerVars
<1>2. /\ tBarred \in [Lists!Registers -> SUBSET Addresses]
      /\ DOMAIN barredList = Lists!Registers
      /\ \A q \in Lists!Registers : Keeps(barredList[q], tBarred[q])
  BY Zenon DEF ListsInv
<1>3. /\ tBarred' \in [Lists!Registers -> SUBSET Addresses]
      /\ DOMAIN barredList' = Lists!Registers
      /\ \A q \in Lists!Registers \ {r} :
            tBarred'[q] = tBarred[q] /\ barredList'[q] = barredList[q]
  BY Zenon, <1>2 DEF Lists!Bar, Lists!Readmit
<1>4. Keeps(barredList'[r], tBarred'[r])
  <2>1. CASE Lists!Bar(r, x)
    <3>1. /\ tBarred'[r] = tBarred[r] \cup {x}
          /\ barredList'[r] = IF x \in tBarred[r] THEN barredList[r]
                              ELSE Append(barredList[r], x)
      BY <1>2, <2>1 DEF Lists!Bar
    <3>2. Keeps(IF x \in tBarred[r] THEN barredList[r] ELSE Append(barredList[r], x),
                tBarred[r] \cup {x})
      BY <1>2, ListAdds
    <3> QED
      BY <3>1, <3>2, Zenon
  <2>2. CASE Lists!Readmit(r, x)
    <3>1. /\ tBarred'[r] = tBarred[r] \ {x}
          /\ barredList'[r] = Lists!Without(barredList[r], x)
      BY <1>2, <2>2 DEF Lists!Readmit
    <3>2. Keeps(Lists!Without(barredList[r], x), tBarred[r] \ {x})
      BY <1>2, ListDrops
    <3> QED
      BY <3>1, <3>2, Zenon
  <2> QED
    BY <2>1, <2>2
<1>5. \A q \in Lists!Registers : Keeps(barredList'[q], tBarred'[q])
  BY <1>2, <1>3, <1>4, Zenon
<1> QED
  BY <1>1, <1>3, <1>5, Zenon DEF ListsInv, Lists!Registers

\* Every call of the admin keeps the invariant.
LEMMA ListsStep == ASSUME ListsInv, Lists!Next \/ UNCHANGED listVars PROVE ListsInv'
<1>1. ASSUME NEW x \in Addresses,
             \/ Lists!AddTokenToBlacklist(x) \/ Lists!RemoveTokenFromBlacklist(x)
             \/ Lists!AdminFreezePlayer(x) \/ Lists!AdminUnfreezePlayer(x)
      PROVE  ListsInv'
  <2>1. "blacklist" \in Lists!Registers /\ "frozen" \in Lists!Registers
    BY Zenon DEF Lists!Registers
  <2> QED
    BY <1>1, <2>1, BarKeeps, Zenon
       DEF Lists!AddTokenToBlacklist, Lists!RemoveTokenFromBlacklist,
           Lists!AdminFreezePlayer, Lists!AdminUnfreezePlayer
<1>2. CASE UNCHANGED listVars
  BY <1>2 DEF listVars, ListsInv, Keeps
<1> QED
  BY <1>1, <1>2, AllowedKeeps, IssuersKeep, Zenon DEF Lists!Next

\* What the invariant says of create_match and of the queries.
LEMMA ListsExact ==
    ASSUME ListsInv
    PROVE  Lists!TypeOK /\ Lists!ListsTellAdmission /\ Lists!CountsExact
<1>1. "blacklist" \in Lists!Registers /\ "frozen" \in Lists!Registers
  BY DEF Lists!Registers
<1>2. Cardinality(allowed) \in Nat /\ Cardinality(issuers) \in Nat
  <2>1. allowed \in SUBSET Addresses /\ issuers \in SUBSET Addresses
    BY DEF ListsInv
  <2> QED
    BY <2>1, FlaggedAddresses, Zenon
<1>3. Lists!TypeOK
  BY <1>2 DEF ListsInv, Lists!TypeOK
<1>4. \A list, flagged : Keeps(list, flagged) =>
          Len(list) = Cardinality(flagged) /\ Lists!Range(list) = flagged
  BY Zenon, LengthIsCount, ListsAlike DEF Keeps
<1>5. Lists!CountsExact
  BY <1>4, ListsAlike DEF ListsInv, Lists!CountsExact
<1>6. allowedList = << >> <=> allowed = {}
  <2>1. allowedList = << >> => Named(allowedList) = {}
    BY DEF Named
  <2>2. Named(allowedList) = {} => allowedList = << >>
    <3>1. allowedList \in Seq(Addresses)
      BY DEF ListsInv, Keeps
    <3>2. Len(allowedList) \in Nat /\ DOMAIN allowedList = 1..Len(allowedList)
      BY <3>1
    <3>3. Named(allowedList) = {} => Len(allowedList) = 0
      <4>1. Len(allowedList) # 0 => 1 \in DOMAIN allowedList
        BY <3>2
      <4> QED
        BY <4>1, Zenon DEF Named
    <3> QED
      BY <3>1, <3>3
  <2> QED
    BY Zenon, <2>1, <2>2 DEF ListsInv, Keeps
<1>7. Lists!ListsTellAdmission
  <2>1. /\ Lists!Range(allowedList) = allowed
        /\ Lists!Range(barredList["frozen"]) = tBarred["frozen"]
        /\ Lists!Range(barredList["blacklist"]) = tBarred["blacklist"]
        /\ enforced <=> allowed # {}
    BY <1>1, <1>4 DEF ListsInv
  <2> QED
    BY <1>6, <2>1, Zenon DEF Lists!ListsTellAdmission, Lists!Admits
<1> QED
  BY <1>3, <1>5, <1>7

\* A contract that has just been initialised lists nothing.
LEMMA ListsInit == ASSUME Lists!Init PROVE ListsInv
<1>1. Keeps(<< >>, {})
  BY DEF Keeps, NamesOnce, Named
<1>2. IsFiniteSet({}) /\ Cardinality({}) = 0
  BY FS_EmptySet
<1> QED
  BY Zenon, <1>1, <1>2 DEF Lists!Init, ListsInv

\* In every reachable state the pieces paid out of a match add up to what was
\* put in, the referrer is paid from the platform's cut, the tier scans charge
\* the rate of the tightest tier, and the admin's lists tell just whom and what
\* create_match admits (claim_vested_payout, cancel_match, compute_tiered_fee,
\* add_allowed_token and its siblings).
THEOREM FeesAndListsProved == Spec => []FeesAndListsExact
<1>1. Init => FeesInv /\ ListsInv
  BY FeesInit, ListsInit DEF Init
<1>2. FeesInv /\ ListsInv /\ [Next]_vars => (FeesInv /\ ListsInv)'
  BY FeesStep, ListsStep, OnePartMoves
<1>3. FeesInv /\ ListsInv => FeesAndListsExact
  BY FeesExact, ListsExact DEF FeesAndListsExact
<1> QED
  BY <1>1, <1>2, <1>3, PTL DEF Spec
=============================================================================
