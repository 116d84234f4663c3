--------------------------- MODULE WsConnections ---------------------------
(***************************************************************************)
(* The connections of the WebSocket server and what their clients are      *)
(* subscribed to (connectionManager.ts and subscriptionManager.ts).  The   *)
(* process has one thread and none of the handlers awaits, so each is one  *)
(* action; verifyClient and the connection handler run in one go.          *)
(* Broadcast is the onEvent of EventPoller.                                *)
(*                                                                         *)
(* Times are ages in ticks, counted one past the limit they are compared   *)
(* with.  An index entry that is deleted when it gets empty is the empty   *)
(* set here.  Conns are the ids of connections; the code's are fresh       *)
(* UUIDs, and reusing one shows whatever a close leaves behind.            *)
(***************************************************************************)
EXTENDS Naturals, FiniteSets, SequencesExt

CONSTANTS
    Conns, Ips, Origins,
    AllowedOrigins,              \* allowedOrigins; "*" admits every origin
    MaxConnectionsPerIp, MaxSubscriptionsPerClient, RateLimitMaxSubscribes,
    RateLimitWindow, HeartbeatTimeout,
    MatchIds,                    \* integers from 0 up: what validation accepts
    Addresses,                   \* spellings of addresses that are not blank
    LowerCase(_),                \* toLowerCase
    Payloads,                    \* [match_ids, player_addresses], two sequences
    Events                       \* [match_id, players]

VARIABLES
    clients,         \* the ClientState of every connected client
    socket,          \* readyState of its socket: "open" or "closing", else "none"
    matchIndex, playerIndex,
    ipConnectionCount,
    listening,       \* accepting connections, with the heartbeat timer set
    pushed           \* <<e, S>> when the last step sent e to the connections S

vars == <<clients, socket, matchIndex, playerIndex, ipConnectionCount, listening, pushed>>

Players == {LowerCase(a) : a \in Addresses}
Connected == DOMAIN clients

Init ==
    /\ clients = << >>
    /\ socket = [c \in Conns |-> "none"]
    /\ matchIndex = [m \in MatchIds |-> {}]
    /\ playerIndex = [p \in Players |-> {}]
    /\ ipConnectionCount = [i \in Ips |-> 0]
    /\ listening = TRUE
    /\ pushed = <<>>

-----------------------------------------------------------------------------
(* SubscriptionManager.                                                    *)

CountCommand(state) ==
    LET s == IF state.window > RateLimitWindow
             THEN [state EXCEPT !.count = 0, !.window = 0] ELSE state
    IN  [s EXCEPT !.count = Min({@ + 1, RateLimitMaxSubscribes + 1})]

Valid(payload) ==
    /\ Range(payload.match_ids) \subseteq MatchIds
    /\ Range(payload.player_addresses) \subseteq Addresses

NewMatchIds(state, payload) ==
    SelectSeq(payload.match_ids, LAMBDA m : m \notin state.matchIds)

NewAddresses(state, payload) ==
    SelectSeq(payload.player_addresses,
              LAMBDA a : LowerCase(a) \notin state.playerAddresses)

ProjectedTotal(state, payload) ==
    Cardinality(state.matchIds) + Cardinality(state.playerAddresses)
        + Len(NewMatchIds(state, payload)) + Len(NewAddresses(state, payload))

Accepts(state, payload) ==
    /\ state.count <= RateLimitMaxSubscribes
    /\ Valid(payload)
    /\ ProjectedTotal(state, payload) <= MaxSubscriptionsPerClient

(* subscribe, for a client whose state is given.                           *)
Subscribe(c, old, payload) ==
    LET state == CountCommand(old)
        ok == Accepts(state, payload)
        ids == IF ok THEN Range(payload.match_ids) ELSE {}
        addrs == IF ok THEN {LowerCase(a) : a \in Range(payload.player_addresses)} ELSE {}
        new == [state EXCEPT !.matchIds = @ \union ids, !.playerAddresses = @ \union addrs]
    IN  /\ clients' = (c :> new) @@ clients
        /\ matchIndex' = [m \in MatchIds |->
                            IF m \in ids THEN matchIndex[m] \union {c} ELSE matchIndex[m]]
        /\ playerIndex' = [p \in Players |->
                            IF p \in addrs THEN playerIndex[p] \union {c}
                            ELSE playerIndex[p]]

Unsubscribe(c, old, payload) ==
    LET ids == Range(payload.match_ids)
        addrs == {LowerCase(a) : a \in Range(payload.player_addresses)}
        new == [old EXCEPT !.matchIds = @ \ ids, !.playerAddresses = @ \ addrs]
    IN  /\ clients' = [clients EXCEPT ![c] = new]
        /\ matchIndex' = [m \in MatchIds |->
                            IF m \in ids THEN matchIndex[m] \ {c} ELSE matchIndex[m]]
        /\ playerIndex' = [p \in Players |->
                            IF p \in addrs THEN playerIndex[p] \ {c} ELSE playerIndex[p]]

RemoveClient(c) ==
    /\ matchIndex' = [m \in MatchIds |->
                        IF m \in clients[c].matchIds THEN matchIndex[m] \ {c}
                        ELSE matchIndex[m]]
    /\ playerIndex' = [p \in Players |->
                        IF p \in clients[c].playerAddresses THEN playerIndex[p] \ {c}
                        ELSE playerIndex[p]]
    /\ clients' = [d \in Connected \ {c} |-> clients[d]]

MatchingClients(e) ==
    matchIndex[e.match_id] \union UNION {playerIndex[LowerCase(a)] : a \in e.players}

-----------------------------------------------------------------------------
(* ConnectionManager.                                                      *)

VerifyClient(ip, origin) ==
    /\ AllowedOrigins = {} \/ {"*", origin} \intersect AllowedOrigins # {}
    /\ ipConnectionCount[ip] < MaxConnectionsPerIp

NewClient(ip) ==
    [matchIds |-> {}, playerAddresses |-> {}, seen |-> 0, count |-> 0, window |-> 0,
     remoteAddress |-> ip]

(* A client connects, and to /ws/match/:match_id with a subscription.      *)
Connect(c, ip) ==
    /\ listening /\ c \notin Connected
    /\ \E origin \in Origins : VerifyClient(ip, origin)
    /\ ipConnectionCount' = [ipConnectionCount EXCEPT ![ip] = @ + 1]
    /\ socket' = [socket EXCEPT ![c] = "open"]
    /\ \/ /\ clients' = (c :> NewClient(ip)) @@ clients
          /\ UNCHANGED <<matchIndex, playerIndex>>
       \/ \E m \in MatchIds :
             Subscribe(c, NewClient(ip), [match_ids |-> <<m>>, player_addresses |-> <<>>])
    /\ pushed' = <<>>
    /\ UNCHANGED listening

(* A message; one read before the socket was destroyed may still arrive.   *)
Message(c) ==
    /\ c \in Connected
    /\ LET state == [clients[c] EXCEPT !.seen = 0]
       IN  \/ \E p \in Payloads : Subscribe(c, state, p) \/ Unsubscribe(c, state, p)
           \/ /\ clients' = [clients EXCEPT ![c] = state]   \* ping, or not understood
              /\ UNCHANGED <<matchIndex, playerIndex>>
    /\ pushed' = <<>>
    /\ UNCHANGED <<socket, ipConnectionCount, listening>>

(* The close event, after whatever ended the connection.                   *)
Close(c) ==
    /\ c \in Connected
    /\ RemoveClient(c)
    /\ socket' = [socket EXCEPT ![c] = "none"]
    /\ LET ip == clients[c].remoteAddress
       IN  ipConnectionCount' = [ipConnectionCount EXCEPT ![ip] = IF @ <= 1 THEN 0 ELSE @ - 1]
    /\ pushed' = <<>>
    /\ UNCHANGED listening

(* terminate() destroys the socket; the close event comes later.           *)
RunHeartbeat ==
    /\ listening
    /\ socket' = [c \in Conns |->
                    IF socket[c] = "open" /\ clients[c].seen > HeartbeatTimeout
                    THEN "closing" ELSE socket[c]]
    /\ pushed' = <<>>
    /\ UNCHANGED <<clients, matchIndex, playerIndex, ipConnectionCount, listening>>

Broadcast(e) ==
    /\ pushed' = <<e, {c \in MatchingClients(e) : socket[c] = "open"}>>
    /\ UNCHANGED <<clients, socket, matchIndex, playerIndex, ipConnectionCount, listening>>

(* stop: the clients that are connected stay, and nobody pings them.       *)
Stop ==
    /\ listening /\ listening' = FALSE
    /\ pushed' = <<>>
    /\ UNCHANGED <<clients, socket, matchIndex, playerIndex, ipConnectionCount>>

Tick ==
    /\ clients' = [c \in Connected |->
                     [clients[c] EXCEPT !.seen = Min({@ + 1, HeartbeatTimeout + 1}),
                                        !.window = Min({@ + 1, RateLimitWindow + 1})]]
    /\ pushed' = <<>>
    /\ UNCHANGED <<socket, matchIndex, playerIndex, ipConnectionCount, listening>>

Next ==
    \/ \E c \in Conns : (\E ip \in Ips : Connect(c, ip)) \/ Message(c) \/ Close(c)
    \/ \E e \in Events : Broadcast(e)
    \/ RunHeartbeat \/ Stop \/ Tick

Spec == Init /\ [][Next]_vars

(* Time passes, the interval timer fires, and a destroyed socket closes.   *)
FairSpec ==
    /\ Spec /\ WF_vars(Tick) /\ WF_vars(RunHeartbeat)
    /\ \A c \in Conns : WF_vars(socket[c] = "closing" /\ Close(c))

-----------------------------------------------------------------------------
TypeOK ==
    /\ Connected \subseteq Conns
    /\ \A c \in Conns : socket[c] = "none" <=> c \notin Connected
    /\ \A c \in Connected :
          /\ clients[c].count \in 0..(RateLimitMaxSubscribes + 1)
          /\ clients[c].remoteAddress \in Ips
    /\ pushed # <<>> => pushed[2] \subseteq Conns
    /\ listening \in BOOLEAN

\* The two indices say what the clients' own lists say, whatever order clients
\* subscribe, are refused, vanish and come back in: nothing is left of a client
\* whose socket closed without an unsubscribe (removeClient), and the lists stay
\* within maxSubscriptionsPerClient.
IndicesMirrorClients ==
    /\ \A m \in MatchIds : matchIndex[m] = {c \in Connected : m \in clients[c].matchIds}
    /\ \A p \in Players :
          playerIndex[p] = {c \in Connected : p \in clients[c].playerAddresses}
    /\ \A c \in Connected :
          Cardinality(clients[c].matchIds) + Cardinality(clients[c].playerAddresses)
              <= MaxSubscriptionsPerClient

\* The connections of an address are counted exactly, through terminated sockets
\* whose close event is still to come, and never exceed the limit.
ConnectionsCounted ==
    \A i \in Ips :
        /\ ipConnectionCount[i] = Cardinality({c \in Connected : clients[c].remoteAddress = i})
        /\ ipConnectionCount[i] <= MaxConnectionsPerIp

\* An event reaches just the open connections whose own lists name its match or
\* one of its players, in any spelling (broadcast goes by the indices).
BroadcastReaches ==
    [][\A e \in Events : pushed' # <<>> /\ pushed'[1] = e =>
        pushed'[2] = {c \in Connected :
                        /\ socket[c] = "open"
                        /\ \/ e.match_id \in clients[c].matchIds
                           \/ \E a \in e.players :
                                 LowerCase(a) \in clients[c].playerAddresses}]_vars

\* A client that falls silent is gone in the end, its subscriptions with it, as
\* long as the server is not being shut down.
SilentAreDropped ==
    \A c \in Conns :
        (c \in Connected /\ clients[c].seen > 0 /\ listening)
            ~> (c \notin Connected \/ clients[c].seen = 0 \/ ~listening)

=============================================================================
