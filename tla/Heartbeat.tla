------------------------------- MODULE Heartbeat -------------------------------
(***************************************************************************)
(* The reaper's clock against the clients: StartReaper and tick (websocket/*)
(* hub.go) ping every connection and evict those whose last pong is too    *)
(* old; useWebSocket answers, reconnects with a backoff and is let in      *)
(* while its token is valid (handleUpgrade, auth/jwt.go).                  *)
(*                                                                         *)
(* Time is discrete.  Instants are kept as ages, how long ago they were,   *)
(* so that time does not end and the states are finitely many.             *)
(***************************************************************************)
EXTENDS Integers, FiniteSets, FiniteSetsExt

CONSTANTS
    Tabs,           \* the clients
    Conns,          \* bound: connections the server holds at once
    NoConn,
    PingInterval,   \* HubConfig.PingInterval
    PongTimeout,    \* HubConfig.PongTimeout
    MaxBackoff,     \* the cap of the backoff
    Doublings,      \* how often the backoff doubles
    MaxLate,        \* environment: how late tick looks at a connection
    RoundTrip,      \* environment: how long a ping and its pong travel
    MaxLost,        \* environment: pings in a row that a full buffer refuses
    MaxOutages      \* bound: handshakes that do not reach the server

ASSUME ConnsAssumption == IsFiniteSet(Conns) /\ NoConn \notin Conns
ASSUME ClockAssumption ==
    /\ PingInterval \in Nat \ {0} /\ MaxLate \in 0 .. PingInterval - 1
    /\ {PongTimeout, MaxBackoff, RoundTrip, MaxLost, MaxOutages, Doublings} \subseteq Nat

\* The timeout leaves room for the pings that may be lost, a late look at the
\* connection and the travel of the next ping.  The defaults, 25 s and 60 s, do so
\* for one lost ping, when a sweep and a round trip together take 10 s at most.
ASSUME TimeoutAssumption ==
    PongTimeout >= (MaxLost + 1) * PingInterval + MaxLate + RoundTrip

VARIABLES
    clock,          \* how long ago the ticker fired that tick has answered
    sweep,          \* the connections tick has still to look at
    cutoffAge,      \* how long ago tick computed its cutoff
    open,           \* the connections in the Hub
    pong,           \* the age of lastPong
    travel,         \* the ages of the pings on their way to an answer
    lost,           \* pings refused in a row
    client,         \* per tab: status, socket, attemptRef, reconnect timer, token
    outages

reaper == <<clock, sweep, cutoffAge>>
hub == <<open, pong, travel, lost>>
vars == <<reaper, hub, client, outages>>

\* Ages beyond this one make no difference to the reaper.
MaxAge == PongTimeout + PingInterval + MaxLate + 1

\* Somebody is at the other end and answers.
Answers(c) == \E t \in Tabs : client[t].conn = c

Init ==
    /\ clock = 0
    /\ sweep = {}
    /\ cutoffAge = 0
    /\ open = {}
    /\ pong = [c \in Conns |-> 0]
    /\ travel = [c \in Conns |-> {}]
    /\ lost = [c \in Conns |-> 0]
    /\ client = [t \in Tabs |-> [status |-> "idle", conn |-> NoConn, attempt |-> 0,
                                 timer |-> 0, token |-> "none"]]
    /\ outages = 0

-----------------------------------------------------------------------------
(* useWebSocket *)

\* Mutated: the delay is not capped.
BackoffUncapped(attempt) == 2 ^ attempt

\* Exponential in the attempts, up to a cap.
Backoff(attempt) == Min({MaxBackoff, 2 ^ Min({attempt - 1, Doublings})})

\* onclose and scheduleReconnect, with full jitter.  Attempts beyond the last
\* doubling make no difference any more.
Reconnect(t) ==
    LET attempt == Min({client[t].attempt + 1, Doublings + 1})
    IN  \E delay \in 0 .. Backoff(attempt) - 1 :
           client' = [client EXCEPT ![t] = [@ EXCEPT !.status = "waiting", !.conn = NoConn,
                                                     !.attempt = attempt, !.timer = delay]]

\* The timer has run down.
Connect(t) ==
    /\ client[t].status = "waiting" /\ client[t].timer = 0
    /\ client' = [client EXCEPT ![t].status = "connecting"]
    /\ UNCHANGED <<reaper, hub, outages>>

\* A new token runs the effect again; attemptRef is not reset.
Login(t) ==
    /\ client[t].status = "idle"
    /\ client' = [client EXCEPT ![t].status = "connecting", ![t].token = "valid"]
    /\ UNCHANGED <<reaper, hub, outages>>

\* Authenticate lets the token pass; newConnection counts as a pong.
Handshake(t) ==
    /\ client[t].status = "connecting" /\ client[t].token = "valid"
    /\ \E c \in Conns \ open :
          /\ open' = open \cup {c}
          /\ pong' = [pong EXCEPT ![c] = 0]
          /\ client' = [client EXCEPT ![t] = [@ EXCEPT !.status = "open", !.conn = c, !.attempt = 0]]
    /\ UNCHANGED <<reaper, travel, lost, outages>>

\* Mutated: only a connection that was open is followed by another attempt.
RefusedGivesUp(t) ==
    /\ client[t].status = "connecting"
    /\ \/ client[t].token = "expired" /\ UNCHANGED outages
       \/ outages < MaxOutages /\ outages' = outages + 1
    /\ client' = [client EXCEPT ![t].status = "idle"]
    /\ UNCHANGED <<reaper, hub>>

\* 401 for an expired token, or the server cannot be reached: the tab cannot tell
\* one from the other.
Refused(t) ==
    /\ client[t].status = "connecting"
    /\ \/ client[t].token = "expired" /\ UNCHANGED outages
       \/ outages < MaxOutages /\ outages' = outages + 1
    /\ Reconnect(t)
    /\ UNCHANGED <<reaper, hub>>

\* The token is looked at in a handshake only: the open socket stays.
Expire(t) ==
    /\ client[t].token = "valid"
    /\ client' = [client EXCEPT ![t].token = "expired"]
    /\ UNCHANGED <<reaper, hub, outages>>

\* Nobody answers on the socket of t any more.
Silence(t) == travel' = [c \in Conns |-> IF c = client[t].conn THEN {} ELSE travel[c]]

\* The cleanup of the effect: the server will see the close frame as a
\* Disconnect, if it arrives.
Logout(t) ==
    /\ client[t].status # "idle"
    /\ Silence(t)
    /\ client' = [client EXCEPT ![t] = [@ EXCEPT !.status = "idle", !.conn = NoConn,
                                                 !.timer = 0, !.token = "none"]]
    /\ UNCHANGED <<reaper, open, pong, lost, outages>>

\* The link breaks and neither side is told; the tab still shows "open".
CutOff(t) ==
    /\ client[t].conn # NoConn
    /\ Silence(t)
    /\ client' = [client EXCEPT ![t].conn = NoConn]
    /\ UNCHANGED <<reaper, open, pong, lost, outages>>

\* The tab is told in the end, if it ever is.
Notice(t) ==
    /\ client[t].status = "open" /\ client[t].conn = NoConn
    /\ Reconnect(t)
    /\ UNCHANGED <<reaper, hub, outages>>

-----------------------------------------------------------------------------
(* The server *)

\* Close, then OnClose with Unregister; whoever answered there sees onclose.
Close(c) ==
    /\ open' = open \ {c}
    /\ sweep' = sweep \ {c}
    /\ pong' = [pong EXCEPT ![c] = 0]
    /\ travel' = [travel EXCEPT ![c] = {}]
    /\ lost' = [lost EXCEPT ![c] = 0]
    /\ IF Answers(c) THEN \E t \in Tabs : client[t].conn = c /\ Reconnect(t)
       ELSE UNCHANGED client

\* A connection ends for another reason: the peer closes it, the network does,
\* a write fails, a buffer is full.
Disconnect(c) ==
    /\ c \in open
    /\ Close(c)
    /\ UNCHANGED <<clock, cutoffAge, outages>>

\* The ticker fires every PingInterval, whenever tick takes it: the cutoff is
\* computed and the shards are copied one after the other.
TickBegins ==
    /\ sweep = {} /\ clock >= PingInterval
    /\ clock' = clock - PingInterval
    /\ sweep' = open
    /\ cutoffAge' = 0
    /\ UNCHANGED <<hub, client, outages>>

\* lastPong < cutoff.
Stale(c) == pong[c] > PongTimeout + cutoffAge

\* SendFrame of a server_ping; a refusal is ignored.
Ping(c) ==
    /\ \/ /\ travel' = [travel EXCEPT ![c] = IF Answers(c) THEN @ \cup {0} ELSE @]
          /\ lost' = [lost EXCEPT ![c] = 0]
       \/ /\ lost[c] < MaxLost
          /\ lost' = [lost EXCEPT ![c] = @ + 1]
          /\ UNCHANGED travel
    /\ sweep' = sweep \ {c}
    /\ UNCHANGED <<open, pong, client>>

\* Mutated: stale connections are counted and left.
CheckCounts(c) ==
    /\ c \in sweep
    /\ \/ Stale(c) /\ sweep' = sweep \ {c} /\ UNCHANGED <<hub, client>>
       \/ ~Stale(c) /\ Ping(c)
    /\ UNCHANGED <<clock, cutoffAge, outages>>

\* tick looks at the next connection of its snapshot.
Check(c) ==
    /\ c \in sweep
    /\ \/ Stale(c) /\ Close(c)
       \/ ~Stale(c) /\ Ping(c)
    /\ UNCHANGED <<clock, cutoffAge, outages>>

\* Mutated: the answer of the tab is not taken for a pong.
PongIgnored(c) ==
    /\ travel[c] # {}
    /\ travel' = [travel EXCEPT ![c] = @ \ {Max(@)}]
    /\ UNCHANGED <<reaper, open, pong, lost, client, outages>>

\* The tab answers the ping and handleMessage marks the pong.
Pong(c) ==
    /\ travel[c] # {}
    /\ travel' = [travel EXCEPT ![c] = @ \ {Max(@)}]
    /\ pong' = [pong EXCEPT ![c] = 0]
    /\ UNCHANGED <<reaper, open, lost, client, outages>>

\* Time passes, as long as nobody is late who may not be later.
Advance ==
    /\ clock < (IF sweep = {} THEN PingInterval + MaxLate ELSE MaxLate)
    /\ \A c \in Conns : RoundTrip \notin travel[c]
    /\ clock' = clock + 1
    /\ cutoffAge' = IF sweep = {} THEN 0 ELSE cutoffAge + 1
    /\ pong' = [c \in Conns |-> IF c \in open /\ pong[c] < MaxAge THEN pong[c] + 1 ELSE pong[c]]
    /\ travel' = [c \in Conns |-> {a + 1 : a \in travel[c]}]
    /\ client' = [t \in Tabs |-> [client[t] EXCEPT !.timer = IF @ > 0 THEN @ - 1 ELSE 0]]
    /\ UNCHANGED <<sweep, open, lost, outages>>

-----------------------------------------------------------------------------
Next ==
    \/ Advance
    \/ TickBegins
    \/ \E c \in Conns : Check(c) \/ Pong(c) \/ Disconnect(c)
    \/ \E t \in Tabs : \/ Login(t) \/ Connect(t) \/ Handshake(t) \/ Refused(t)
                       \/ Expire(t) \/ Logout(t) \/ CutOff(t) \/ Notice(t)

Spec == Init /\ [][Next]_vars

\* Time passes, the reaper runs, and a tab carries out what it has begun.
Fairness ==
    /\ WF_vars(Advance) /\ WF_vars(TickBegins)
    /\ \A c \in Conns : WF_vars(Check(c)) /\ WF_vars(Pong(c))
    /\ \A t \in Tabs : WF_vars(Connect(t)) /\ WF_vars(Handshake(t))

FairSpec == Spec /\ Fairness

-----------------------------------------------------------------------------
(* Properties *)

\* Ages and delays stay within what the constants allow; no delay reaches the
\* cap of the backoff.
TypeOK ==
    /\ clock \in 0 .. PingInterval + MaxLate
    /\ cutoffAge \in 0 .. MaxLate
    /\ sweep \subseteq open /\ open \subseteq Conns
    /\ pong \in [Conns -> 0 .. MaxAge]
    /\ travel \in [Conns -> SUBSET (0 .. RoundTrip)]
    /\ lost \in [Conns -> 0 .. MaxLost]
    /\ client \in [Tabs -> [status : {"idle", "waiting", "connecting", "open"},
                            conn : open \cup {NoConn}, attempt : 0 .. Doublings + 1,
                            timer : 0 .. MaxBackoff, token : {"none", "valid", "expired"}]]
    /\ outages \in 0 .. MaxOutages

\* The reaper closes nobody who answers, although it computes the cutoff before
\* it walks the shards, its pings may be refused and their answers are late.
LiveIsKept == [][\A c \in Conns : Check(c) /\ Answers(c) => c \in open']_vars

\* No connection is silent for longer than the timeout, one interval, and the
\* time the reaper may be late, which is what MaxAge exceeds by one.
SilentIsEvicted ==
    \A c \in open : pong[c] < MaxAge

\* A tab that has lost its connection is connected again, unless its token has
\* expired meanwhile or the user has left.
Reconnects ==
    \A t \in Tabs :
        client[t].status = "waiting" ~> client[t].status = "open" \/ client[t].token # "valid"
=============================================================================
