----------------------------- MODULE Providers -----------------------------
(***************************************************************************)
(* The provider registry of the oracle service                             *)
(* (oracle-service/src/oracle/provider.rs, provider_error.rs): an ordered  *)
(* list of chess platforms asked in turn for the winner of a game, failing *)
(* over to the next one on an outage.  fetch_result asks for one game,     *)
(* fetch_results_batch for several, with one call per provider for the     *)
(* games still open.  What a platform says may change between two calls.   *)
(***************************************************************************)
EXTENDS Naturals, Sequences, SequencesExt

CONSTANTS
    Providers,    \* the registry: a sequence of provider names
    Games         \* the games of one request, a sequence without repetition

Winners == {"Player1", "Player2", "Draw"}

\* What the HTTP clients return (ChessComError, LichessError, or a winner).
ClientErrors ==
    {"InvalidGameId", "GameNotFound", "GameNotFinished", "InvalidResponse", "Timeout",
     "RateLimited", "ConcurrencyLimitReached", "Http429", "HttpStatus", "Http"}
ClientAnswers == Winners \union ClientErrors

VARIABLES
    call,       \* "single" or "batch" while a request runs, else "none"
    turn,       \* index of the provider to ask next
    open,       \* games still without an answer: State::Failed
    result,     \* game -> what the registry reports, once the request is over
    said        \* history: game -> the providers' answers to this request

vars == <<call, turn, open, result, said>>

-----------------------------------------------------------------------------
(* Errors (provider_error.rs). *)

\* From<ChessComError> and From<LichessError> for ProviderError.
From(e) ==
    CASE e \in {"Timeout", "HttpStatus", "Http"} -> "Unavailable"
      [] e = "Http429" -> "RateLimited"
      [] OTHER -> e

ShouldFailover(e) == e \in {"Unavailable", "ConcurrencyLimitReached"}
IsRateLimited(e) == e = "RateLimited"
IsConcurrencyLimited(e) == e = "ConcurrencyLimitReached"
IsTerminal(e) == e \in {"InvalidGameId", "GameNotFound", "InvalidResponse"}

\* The guard under which both requests go on to the next provider.
GoesOn(e) == ShouldFailover(e) \/ IsRateLimited(e) \/ IsConcurrencyLimited(e)

Ok(w) == [kind |-> "Ok", winner |-> w]
Err(e) == [kind |-> "Err", error |-> e]
AllProvidersFailed(errors) == [kind |-> "AllProvidersFailed", errors |-> errors]
Pending == [kind |-> "Pending"]

-----------------------------------------------------------------------------
Init ==
    /\ call = "none"
    /\ turn = 0
    /\ open = {}
    /\ result = [g \in Range(Games) |-> Pending]
    /\ said = [g \in Range(Games) |-> << >>]

\* A caller asks for the games gs.
Request(kind, gs) ==
    /\ call = "none"
    /\ call' = kind
    /\ turn' = 1
    /\ open' = gs
    /\ result' = [g \in Range(Games) |-> Pending]
    /\ said' = [g \in Range(Games) |-> << >>]

FetchResult == \E g \in Range(Games) : Request("single", {g})
FetchResultsBatch == Request("batch", Range(Games))

\* The answers of the provider whose turn it is, one per open game (the
\* default fetch_results_batch asks for them one by one, in order).
AnswersFrom(answers) ==
    /\ answers \in [open -> ClientAnswers]
    /\ said' = [g \in DOMAIN said |-> IF g \in open THEN Append(said[g], From(answers[g])) ELSE said[g]]

\* The request is over: every game still open has failed over everywhere.
Exhausted(r, left) ==
    [g \in DOMAIN r |-> IF g \in left THEN AllProvidersFailed(said'[g]) ELSE r[g]]

Finish(r, left) ==
    IF left = {} \/ turn = Len(Providers)
    THEN /\ call' = "none" /\ turn' = 0 /\ open' = {}
         /\ result' = Exhausted(r, left)
    ELSE /\ turn' = turn + 1 /\ open' = left /\ result' = r
         /\ UNCHANGED call

\* One turn of the loop of fetch_result.
AskOne(answer) ==
    LET g == CHOOSE x \in open : TRUE
        e == From(answer)
        r == [result EXCEPT ![g] = IF e \in Winners THEN Ok(e) ELSE IF GoesOn(e) THEN @ ELSE Err(e)]
    IN  /\ call = "single"
        /\ AnswersFrom([x \in open |-> answer])
        /\ Finish(r, IF GoesOn(e) THEN open ELSE {})

\* Altered for mutation: an answer closes the slot of the next open game.
SettleShifted(answers) ==
    [g \in Range(Games) |->
        IF g \notin open THEN result[g]
        ELSE LET h == CHOOSE x \in open : x # g \/ open = {g}
                 e == From(answers[h])
             IN  IF e \in Winners THEN Ok(e) ELSE IF GoesOn(From(answers[g])) THEN Pending ELSE Ok("Draw")]

\* winner_from_terminal: the slot of a game holds a Winner, so an error that is
\* no reason to go on is stored as a draw.
WinnerFromTerminal == "Draw"

\* One turn of the loop of fetch_results_batch: the results mapped back to the
\* games that were open.
Settle(answers) ==
    [g \in Range(Games) |->
        IF g \notin open THEN result[g]
        ELSE LET e == From(answers[g])
             IN  IF e \in Winners THEN Ok(e)
                 ELSE IF GoesOn(e) THEN Pending
                 ELSE Ok(WinnerFromTerminal)]

AskMany(answers) ==
    LET r == Settle(answers)
    IN  /\ call = "batch"
        /\ AnswersFrom(answers)
        /\ Finish(r, {g \in open : r[g] = Pending})

Next ==
    \/ FetchResult
    \/ FetchResultsBatch
    \/ \E answer \in ClientAnswers : AskOne(answer)
    \/ \E answers \in [open -> ClientAnswers] : AskMany(answers)

Spec == Init /\ [][Next]_vars

-----------------------------------------------------------------------------
(* Properties. *)

TypeOK ==
    /\ call \in {"none", "single", "batch"}
    /\ turn \in 0 .. Len(Providers)
    /\ open \subseteq Range(Games)
    /\ DOMAIN result = Range(Games)
    /\ \A g \in Range(Games) : result[g].kind \in {"Ok", "Err", "AllProvidersFailed", "Pending"}

\* A win or a loss is reported only if the last provider asked about that very
\* game said so and every provider before it had failed over, in the order of
\* the registry: neither request mixes up games or reads past an answer.
WinnerAsSaid ==
    \A g \in Range(Games) :
        (result[g].kind = "Ok" /\ result[g].winner # "Draw") =>
            /\ Last(said[g]) = result[g].winner
            /\ \A i \in 1 .. Len(said[g]) - 1 : GoesOn(said[g][i])

\* A game is given up as failed everywhere only if every provider was asked
\* about it, and each of their errors, kept in order, was an outage, a rate
\* limit or a busy provider: one provider's outage never hides another's answer.
GivenUpOnlyIfAllFailed ==
    \A g \in Range(Games) :
        result[g].kind = "AllProvidersFailed" =>
            /\ result[g].errors = said[g]
            /\ Len(said[g]) = Len(Providers)
            /\ \A i \in 1 .. Len(said[g]) : said[g][i] \notin Winners /\ ~IsTerminal(said[g][i])

\* A game answered by one provider is not put to the next, and no provider is
\* asked twice about a game in one request.
AnsweredNotAskedAgain ==
    [][\A g \in Range(Games) :
        Len(said'[g]) > Len(said[g]) =>
            /\ g \in open
            /\ result[g] = Pending
            /\ Len(said[g]) = turn - 1]_vars

\* provider.rs: "a game that fails terminally on one provider is reported with
\* that error".  No answer but a draw should be reported as a draw.
TerminalErrorReported ==
    \A g \in Range(Games) :
        (result[g].kind = "Ok" /\ result[g].winner = "Draw") => Last(said[g]) = "Draw"

=============================================================================
