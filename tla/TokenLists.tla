----------------------------- MODULE TokenLists -----------------------------
(***************************************************************************)
(* The lists the admin keeps in the escrow contract: allowed tokens,       *)
(* stablecoin issuers, blacklisted tokens and frozen players.  Each entry  *)
(* is a flag that create_match looks up; beside the flags there are a      *)
(* count, a switch and ordered lists that queries answer from, all written *)
(* separately.  Admin authorisation is in Governance.                      *)
(***************************************************************************)
EXTENDS Naturals, Sequences, FiniteSets, Functions

CONSTANTS
    Addresses,    \* tokens, issuers and players alike
    Contract      \* the contract's own address

VARIABLES
    allowed,      \* addresses with the AllowedToken flag
    allowedCount, \* AllowedTokenCount
    enforced,     \* AllowlistEnforced
    allowedList,  \* AllowedTokens
    issuers, issuerCount,
    barred,       \* addresses with the flag, per register
    barredList    \* BlacklistedTokens and FrozenPlayers

Registers == {"blacklist", "frozen"}

\* A deployment has finitely many addresses.
ConstantsOK == IsFiniteSet(Addresses)

allowVars == <<allowed, allowedCount, enforced, allowedList>>
issuerVars == <<issuers, issuerCount>>
barVars == <<barred, barredList>>
vars == <<allowVars, issuerVars, barVars>>

Init ==
    /\ allowed = {} /\ allowedCount = 0 /\ enforced = FALSE /\ allowedList = <<>>
    /\ issuers = {} /\ issuerCount = 0
    /\ barred = [r \in Registers |-> {}]
    /\ barredList = [r \in Registers |-> <<>>]

\* The list without the entries equal to x, rebuilt one entry after the other.
Without(list, x) ==
    LET Kept[i \in 0..Len(list)] ==
            IF i = 0 THEN << >>
            ELSE IF list[i] = x THEN Kept[i - 1] ELSE Append(Kept[i - 1], list[i])
    IN  Kept[Len(list)]

Decremented(n) == IF n = 0 THEN 0 ELSE n - 1

-----------------------------------------------------------------------------
AddAllowedToken(t) ==
    /\ allowed' = allowed \union {t}
    /\ allowedCount' = IF t \in allowed THEN allowedCount ELSE allowedCount + 1
    /\ enforced' = TRUE
    /\ allowedList' = IF t \in Range(allowedList) THEN allowedList
                      ELSE Append(allowedList, t)
    /\ UNCHANGED <<issuerVars, barVars>>

RemoveAllowedToken(t) ==
    /\ allowed' = allowed \ {t}
    /\ allowedCount' = IF t \in allowed THEN Decremented(allowedCount) ELSE allowedCount
    /\ enforced' = (enforced /\ ~(t \in allowed /\ allowedCount' = 0))
    /\ allowedList' = Without(allowedList, t)
    /\ UNCHANGED <<issuerVars, barVars>>

AddStablecoinIssuer(i) ==
    /\ i # Contract
    /\ issuers' = issuers \union {i}
    /\ issuerCount' = IF i \in issuers THEN issuerCount ELSE issuerCount + 1
    /\ UNCHANGED <<allowVars, barVars>>

RemoveStablecoinIssuer(i) ==
    /\ i \in issuers
    /\ issuers' = issuers \ {i}
    /\ issuerCount' = Decremented(issuerCount)
    /\ UNCHANGED <<allowVars, barVars>>

(* The blacklist and the frozen players are kept alike; the reason is of a *)
(* length that is accepted.                                                *)
Bar(r, x) ==
    /\ barred' = [barred EXCEPT ![r] = @ \union {x}]
    /\ barredList' = [barredList EXCEPT
                         ![r] = IF x \in barred[r] THEN @ ELSE Append(@, x)]
    /\ UNCHANGED <<allowVars, issuerVars>>

Readmit(r, x) ==
    /\ x \in barred[r]
    /\ barred' = [barred EXCEPT ![r] = @ \ {x}]
    /\ barredList' = [barredList EXCEPT ![r] = Without(@, x)]
    /\ UNCHANGED <<allowVars, issuerVars>>

AddTokenToBlacklist(t) == Bar("blacklist", t)
RemoveTokenFromBlacklist(t) == Readmit("blacklist", t)
AdminFreezePlayer(p) == Bar("frozen", p)
AdminUnfreezePlayer(p) == Readmit("frozen", p)

Next ==
    \E x \in Addresses :
        \/ AddAllowedToken(x) \/ RemoveAllowedToken(x)
        \/ AddStablecoinIssuer(x) \/ RemoveStablecoinIssuer(x)
        \/ AddTokenToBlacklist(x) \/ RemoveTokenFromBlacklist(x)
        \/ AdminFreezePlayer(x) \/ AdminUnfreezePlayer(x)

Spec == Init /\ [][Next]_vars

(* What create_match asks of the players and the tokens of a match.        *)
Admits(players, tokens, stablecoinOnly) ==
    /\ players \intersect barred["frozen"] = {}
    /\ tokens \intersect barred["blacklist"] = {}
    /\ enforced => tokens \subseteq allowed
    /\ stablecoinOnly => tokens \subseteq issuers

-----------------------------------------------------------------------------
TypeOK ==
    /\ allowed \subseteq Addresses /\ issuers \subseteq Addresses \ {Contract}
    /\ allowedCount \in Nat /\ issuerCount \in Nat /\ enforced \in BOOLEAN
    /\ \A r \in Registers : barred[r] \subseteq Addresses

\* create_match admits exactly whom and what the queries say it does: players
\* who are not in get_frozen_players and tokens of get_allowed_tokens, or any
\* token when that list is empty, without those of get_blacklist.  The flags, the
\* count that switches enforcement off and the lists are written one by one by
\* every call, repeated calls and removals of what is not there included.
ListsTellAdmission ==
    \A p, t \in Addresses :
        Admits({p}, {t}, FALSE) <=>
            /\ p \notin Range(barredList["frozen"])
            /\ t \notin Range(barredList["blacklist"])
            /\ allowedList = <<>> \/ t \in Range(allowedList)

\* The counts are the numbers of flags and the lists name nobody twice, so that
\* removing the last allowed token, and only that, ends enforcement.
CountsExact ==
    /\ allowedCount = Cardinality(allowed) /\ allowedCount = Len(allowedList)
    /\ enforced <=> allowed # {}
    /\ issuerCount = Cardinality(issuers)
    /\ \A r \in Registers : Len(barredList[r]) = Cardinality(barred[r])

=============================================================================
