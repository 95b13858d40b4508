---------------------------- MODULE HeartbeatProofs ----------------------------
(***************************************************************************)
(* What holds of the reaper for any number of tabs and connections and for *)
(* every setting of the clock that the assumptions allow.  IInv says how   *)
(* old a pong can be, from both sides: of a connection that is open at all *)
(* (EvictInv), and of one whose peer answers (KeptInv), by the ticks that  *)
(* have passed since the last ping it was sent.                            *)
(***************************************************************************)
EXTENDS Heartbeat, WellFoundedInduction, TLAPS

\* The time that passes in k ticks, and the longest time between two pings that
\* the buffer of one connection accepts.
Ticks(k) == k * PingInterval
Gap == Ticks(MaxLost + 1) + MaxLate

\* While tick walks the shards, the ticker has fired for it a short time ago.
SweepInv == sweep # {} => clock <= MaxLate /\ cutoffAge <= clock

\* A socket has one tab at the other end.
ConnsUnique ==
    \A t, u \in Tabs : client[t].conn = client[u].conn /\ client[t].conn # NoConn => t = u

\* Nothing is under way on a connection the Hub does not have.
ClosedInv == \A c \in Conns \ open : travel[c] = {}

\* tick has looked at c in this interval, or in the one before if it still has to.
EvictInv ==
    \A c \in open :
        pong[c] <= PongTimeout + clock + IF c \in sweep THEN PingInterval ELSE 0

\* The ticks without an accepted ping.
Owed(c) == IF c \in sweep THEN lost[c] + 1 ELSE lost[c]

\* The pong of somebody who answers is as old as the last accepted ping, or was
\* there when the oldest ping on its way was sent.
Kept(c) ==
    IF travel[c] = {} THEN pong[c] <= clock + Ticks(Owed(c)) ELSE pong[c] <= Max(travel[c]) + Gap

KeptInv == \A c \in open : Answers(c) => Kept(c)

IInv == TypeOK /\ SweepInv /\ ConnsUnique /\ ClosedInv /\ EvictInv /\ KeptInv

-----------------------------------------------------------------------------
(* Numbers *)

\* What the assumptions say of the constants.
LEMMA Clock ==
    /\ PingInterval \in Nat /\ PingInterval > 0 /\ MaxLate \in Nat /\ MaxLate < PingInterval
    /\ PongTimeout \in Nat /\ MaxBackoff \in Nat /\ RoundTrip \in Nat /\ MaxLost \in Nat
    /\ MaxOutages \in Nat /\ Doublings \in Nat /\ NoConn \notin Conns
    /\ MaxAge \in Nat /\ MaxAge = PongTimeout + PingInterval + MaxLate + 1
<1>1. /\ PingInterval \in Nat /\ PingInterval > 0 /\ MaxLate \in Nat /\ MaxLate < PingInterval
      /\ PongTimeout \in Nat /\ MaxBackoff \in Nat /\ RoundTrip \in Nat /\ MaxLost \in Nat
      /\ MaxOutages \in Nat /\ Doublings \in Nat /\ NoConn \notin Conns
    BY ClockAssumption, ConnsAssumption
<1> QED  BY <1>1 DEF MaxAge

\* Ticks add up.
LEMMA TickSums ==
    /\ Ticks(0) = 0
    /\ \A k \in Nat : Ticks(k) \in Nat /\ Ticks(k + 1) = Ticks(k) + PingInterval
    /\ \A k, l \in Nat : k <= l => Ticks(k) <= Ticks(l)
<1>1. PingInterval \in Nat
    BY Clock
<1>2. ASSUME NEW k \in Nat  PROVE Ticks(k) \in Nat /\ Ticks(k + 1) = Ticks(k) + PingInterval
    BY <1>1 DEF Ticks
<1>3. ASSUME NEW k \in Nat, NEW l \in Nat, k <= l  PROVE Ticks(k) <= Ticks(l)
    BY <1>1, <1>3 DEF Ticks
<1>4. Ticks(0) = 0
    BY <1>1 DEF Ticks
<1> QED  BY <1>2, <1>3, <1>4

\* The timeout leaves room for the gap and the travel of one ping.
LEMMA GapFits == Gap \in Nat /\ Gap + RoundTrip <= PongTimeout
<1>1. Gap = (MaxLost + 1) * PingInterval + MaxLate /\ Gap \in Nat
    BY Clock, TickSums DEF Gap, Ticks
<1> QED  BY <1>1, TimeoutAssumption, Clock

\* Whatever is owed, a late look is not later than the gap.
LEMMA GapCovers ==
    ASSUME NEW l \in Nat, l <= MaxLost, NEW late \in Nat, late <= MaxLate
    PROVE  Ticks(l + 1) \in Nat /\ late + Ticks(l + 1) <= Gap
<1>1. l + 1 \in Nat /\ MaxLost + 1 \in Nat /\ l + 1 <= MaxLost + 1
    BY Clock
<1>2. Ticks(l + 1) \in Nat /\ Ticks(MaxLost + 1) \in Nat /\ Ticks(l + 1) <= Ticks(MaxLost + 1)
    BY <1>1, TickSums
<1>3. Gap = Ticks(MaxLost + 1) + MaxLate
    BY DEF Gap
<1> QED  BY <1>2, <1>3, Clock

\* A non-empty set of ages has an oldest one, and Max is it.
LEMMA MaxIsOldest ==
    ASSUME NEW n \in Nat, NEW S, S \subseteq 0 .. n, S # {}
    PROVE  Max(S) \in S /\ \A x \in S : x <= Max(S)
<1> DEFINE T == {n - x : x \in S}
<1>1. T \subseteq Nat /\ T # {}
    <2>1. \A x \in S : n - x \in Nat
        OBVIOUS
    <2>2. PICK x \in S : TRUE
        OBVIOUS
    <2>3. n - x \in T
        OBVIOUS
    <2> QED  BY <2>1, <2>3
<1>2. PICK y \in T : \A z \in T : ~ (<<z, y>> \in OpToRel(<, Nat))
    BY <1>1, NatLessThanWellFounded, WFMin
<1>3. ASSUME NEW z \in T  PROVE y <= z
    <2>1. <<z, y>> \notin {ss \in Nat \X Nat : ss[1] < ss[2]}
        BY <1>2 DEF OpToRel
    <2> QED  BY <1>1, <2>1
<1>4. PICK x \in S : y = n - x
    OBVIOUS
<1>5. ASSUME NEW z \in S  PROVE x >= z
    <2>1. y <= n - z
        BY <1>3
    <2> QED  BY <1>4, <2>1
<1> QED  BY <1>5 DEF Max

LEMMA MinOfTwo ==
    ASSUME NEW a \in Int, NEW b \in Int
    PROVE  Min({a, b}) \in {a, b} /\ Min({a, b}) <= a /\ Min({a, b}) <= b
BY DEF Min

-----------------------------------------------------------------------------
(* The clients *)

ClientRec == [status : {"idle", "waiting", "connecting", "open"}, conn : Conns \cup {NoConn},
              attempt : 0 .. Doublings + 1, timer : 0 .. MaxBackoff,
              token : {"none", "valid", "expired"}]

\* The type of the clients, without and with what the Hub has open.
LEMMA Typed ==
    ASSUME TypeOK
    PROVE  /\ clock \in 0 .. PingInterval + MaxLate /\ cutoffAge \in 0 .. MaxLate
           /\ sweep \subseteq open /\ open \subseteq Conns /\ pong \in [Conns -> 0 .. MaxAge]
           /\ travel \in [Conns -> SUBSET (0 .. RoundTrip)] /\ lost \in [Conns -> 0 .. MaxLost]
           /\ outages \in 0 .. MaxOutages
           /\ client \in [Tabs -> ClientRec]
           /\ \A t \in Tabs : client[t].conn \in open \cup {NoConn}
BY DEF TypeOK, ClientRec

LEMMA ClientsTyped ==
    ASSUME NEW cl \in [Tabs -> ClientRec], NEW S,
           \A t \in Tabs : cl[t].conn \in S \cup {NoConn}
    PROVE  cl \in [Tabs -> [status : {"idle", "waiting", "connecting", "open"},
                            conn : S \cup {NoConn}, attempt : 0 .. Doublings + 1,
                            timer : 0 .. MaxBackoff, token : {"none", "valid", "expired"}]]
BY DEF ClientRec

\* After onclose a tab has no connection, and its timer is below the cap.
LEMMA ReconnectMoves ==
    ASSUME client \in [Tabs -> ClientRec], NEW t \in Tabs, Reconnect(t)
    PROVE  /\ client' \in [Tabs -> ClientRec]
           /\ client'[t].conn = NoConn
           /\ \A u \in Tabs : u # t => client'[u] = client[u]
<1> DEFINE attempt == Min({client[t].attempt + 1, Doublings + 1})
<1>1. attempt \in 0 .. Doublings + 1
    <2>1. client[t].attempt \in 0 .. Doublings + 1
        BY DEF ClientRec
    <2>2. client[t].attempt + 1 \in Int /\ Doublings + 1 \in Int
        BY <2>1, Clock
    <2>3. /\ attempt \in {client[t].attempt + 1, Doublings + 1}
          /\ attempt <= Doublings + 1
        BY ONLY <2>2, MinOfTwo
    <2> QED  BY <2>1, <2>3, Clock
<1>2. PICK delay \in 0 .. Backoff(attempt) - 1 :
          client' = [client EXCEPT ![t] = [@ EXCEPT !.status = "waiting", !.conn = NoConn,
                                                    !.attempt = attempt, !.timer = delay]]
    BY DEF Reconnect
<1>3. delay \in 0 .. MaxBackoff
    <2> HIDE DEF attempt
    <2> DEFINE k == Min({attempt - 1, Doublings})
    <2>1. attempt - 1 \in Int /\ Doublings \in Int
        BY <1>1, Clock
    <2>2. k \in {attempt - 1, Doublings}
        BY <2>1, MinOfTwo
    <2>3. 2 ^ k \in Int
        <3>1. k \in Int
            BY <2>1, <2>2
        <3> HIDE DEF k
        <3> QED  BY <3>1
    <2>4. Backoff(attempt) = Min({MaxBackoff, 2 ^ k})
        BY DEF Backoff
    <2> HIDE DEF k
    <2>5. /\ Min({MaxBackoff, 2 ^ k}) \in {MaxBackoff, 2 ^ k}
          /\ Min({MaxBackoff, 2 ^ k}) <= MaxBackoff
        <3>1. MaxBackoff \in Int
            BY Clock
        <3> QED  BY <2>3, <3>1, MinOfTwo
    <2>6. Backoff(attempt) \in Int /\ Backoff(attempt) <= MaxBackoff
        BY <2>3, <2>4, <2>5, Clock
    <2> QED  BY <2>6, Clock
<1> HIDE DEF attempt
<1>4. client'[t] = [client[t] EXCEPT !.status = "waiting", !.conn = NoConn,
                                     !.attempt = attempt, !.timer = delay]
    BY <1>2
<1>5. client'[t] \in ClientRec /\ client'[t].conn = NoConn
    BY <1>1, <1>3, <1>4 DEF ClientRec
<1> QED  BY <1>2, <1>5

\* tick closes a connection or pings it; Disconnect closes one as well.
Shut(c) == c \in open /\ Close(c) /\ UNCHANGED <<clock, cutoffAge, outages>>
Pinged(c) == c \in sweep /\ ~Stale(c) /\ Ping(c) /\ UNCHANGED <<clock, cutoffAge, outages>>

\* The steps of a tab that concern no connection but its own, which it may lose.
TabStep(t) ==
    \/ Login(t) \/ Connect(t) \/ Refused(t) \/ Expire(t) \/ Logout(t) \/ CutOff(t) \/ Notice(t)

LEMMA StepCases ==
    ASSUME TypeOK, [Next]_vars
    PROVE  \/ Advance \/ TickBegins
           \/ \E c \in Conns : Shut(c) \/ Pinged(c) \/ Pong(c)
           \/ \E t \in Tabs : Handshake(t) \/ TabStep(t)
           \/ UNCHANGED vars
<1>1. ASSUME NEW c \in Conns, Check(c) \/ Disconnect(c)  PROVE Shut(c) \/ Pinged(c)
    BY <1>1, Typed DEF Check, Disconnect, Shut, Pinged
<1> QED  BY <1>1 DEF Next, TabStep

\* A tab keeps its connection in every step or loses it.
LoseOnly == \A t \in Tabs : client'[t].conn \in {client[t].conn, NoConn}

LEMMA TabMoves ==
    ASSUME TypeOK, NEW t \in Tabs, TabStep(t)
    PROVE  client' \in [Tabs -> ClientRec] /\ LoseOnly /\ UNCHANGED <<reaper, open, pong, lost>>
<1>1. client \in [Tabs -> ClientRec] /\ client[t] \in ClientRec
    BY Typed
<1>2. UNCHANGED <<reaper, open, pong, lost>>
    BY DEF TabStep, Login, Connect, Refused, Expire, Logout, CutOff, Notice, hub
<1>3. CASE Refused(t) \/ Notice(t)
    BY <1>1, <1>2, <1>3, ReconnectMoves DEF Refused, Notice, LoseOnly
<1>4. ASSUME Login(t) \/ Connect(t) \/ Expire(t) \/ Logout(t) \/ CutOff(t)
      PROVE  client' \in [Tabs -> ClientRec] /\ LoseOnly
    <2>1. /\ client' = [client EXCEPT ![t] = client'[t]]
          /\ client'[t] \in ClientRec /\ client'[t].conn \in {client[t].conn, NoConn}
        <3>1. CASE Login(t) \/ Connect(t)
            BY <1>1, <3>1 DEF Login, Connect, ClientRec
        <3>2. CASE Expire(t) \/ CutOff(t)
            BY <1>1, <3>2 DEF Expire, CutOff, ClientRec
        <3>3. CASE Logout(t)
            <4>1. client' = [client EXCEPT ![t] = client'[t]]
                BY <1>1, <3>3 DEF Logout
            <4>2. client'[t] = [client[t] EXCEPT !.status = "idle", !.conn = NoConn, !.timer = 0,
                                                 !.token = "none"]
                BY <1>1, <3>3 DEF Logout
            <4>3. 0 \in 0 .. MaxBackoff
                BY Clock
            <4>4. client'[t] \in ClientRec /\ client'[t].conn = NoConn
                BY <1>1, <4>2, <4>3 DEF ClientRec
            <4> QED  BY <4>1, <4>4
        <3> QED  BY <1>4, <3>1, <3>2, <3>3
    <2> QED  BY <1>1, <2>1 DEF LoseOnly
<1> QED  BY <1>2, <1>3, <1>4 DEF TabStep

LEMMA HandshakeMoves ==
    ASSUME TypeOK, NEW t \in Tabs, Handshake(t)
    PROVE  \E c \in Conns \ open :
              /\ open' = open \cup {c} /\ pong' = [pong EXCEPT ![c] = 0]
              /\ client' \in [Tabs -> ClientRec] /\ client'[t].conn = c
              /\ \A u \in Tabs : u # t => client'[u] = client[u]
              /\ UNCHANGED <<reaper, travel, lost, outages>>
<1>1. client \in [Tabs -> ClientRec] /\ client[t] \in ClientRec
    BY Typed
<1>2. PICK c \in Conns \ open :
          /\ open' = open \cup {c} /\ pong' = [pong EXCEPT ![c] = 0]
          /\ client' = [client EXCEPT ![t] = [@ EXCEPT !.status = "open", !.conn = c, !.attempt = 0]]
          /\ UNCHANGED <<reaper, travel, lost, outages>>
    BY DEF Handshake
<1>3. client'[t] = [client[t] EXCEPT !.status = "open", !.conn = c, !.attempt = 0]
    BY <1>1, <1>2
<1>4. 0 \in 0 .. Doublings + 1 /\ c \in Conns
    BY Clock
<1>5. client'[t] \in ClientRec /\ client'[t].conn = c
    BY <1>1, <1>3, <1>4 DEF ClientRec
<1> QED  BY <1>1, <1>2, <1>5

LEMMA ShutMoves ==
    ASSUME TypeOK, ConnsUnique, NEW c \in Conns, Shut(c)
    PROVE  /\ client' \in [Tabs -> ClientRec] /\ LoseOnly
           /\ \A t \in Tabs : client'[t].conn # c
<1>1. client \in [Tabs -> ClientRec] /\ c # NoConn
    BY Typed, Clock
<1>2. CASE ~Answers(c)
    BY <1>1, <1>2 DEF Shut, Close, Answers, LoseOnly
<1>3. CASE Answers(c)
    <2>1. PICK t \in Tabs : client[t].conn = c /\ Reconnect(t)
        BY <1>3 DEF Shut, Close
    <2>2. /\ client' \in [Tabs -> ClientRec] /\ client'[t].conn = NoConn
          /\ \A u \in Tabs : u # t => client'[u] = client[u]
        BY <1>1, <2>1, ReconnectMoves
    <2>3. \A u \in Tabs : u # t => client[u].conn # c
        BY <1>1, <2>1 DEF ConnsUnique
    <2> QED  BY <1>1, <2>2, <2>3 DEF LoseOnly
<1> QED  BY <1>2, <1>3

LEMMA AdvanceMoves ==
    ASSUME TypeOK, Advance  PROVE client' \in [Tabs -> ClientRec] /\ LoseOnly
<1>1. client \in [Tabs -> ClientRec]
    BY Typed
<1>2. ASSUME NEW t \in Tabs
      PROVE  client'[t] \in ClientRec /\ client'[t].conn = client[t].conn
    <2>1. client'[t] = [client[t] EXCEPT !.timer = IF @ > 0 THEN @ - 1 ELSE 0]
        BY DEF Advance
    <2> QED  BY <1>1, <2>1, Clock DEF ClientRec
<1>3. client' = [t \in Tabs |-> client'[t]]
    BY DEF Advance
<1> QED  BY <1>2, <1>3 DEF LoseOnly

\* What becomes of the clients and of what the Hub has open, in any step.
LEMMA ClientStep ==
    ASSUME TypeOK, ConnsUnique, [Next]_vars
    PROVE  /\ client' \in [Tabs -> ClientRec]
           /\ \/ LoseOnly /\ open' = open
              \/ \E c \in Conns : LoseOnly /\ open' = open \ {c} /\ \A t \in Tabs : client'[t].conn # c
              \/ \E t \in Tabs, c \in Conns \ open :
                    /\ open' = open \cup {c} /\ client'[t].conn = c
                    /\ \A u \in Tabs : u # t => client'[u] = client[u]
<1>1. client \in [Tabs -> ClientRec]
    BY Typed
<1>2. ASSUME TickBegins \/ (\E c \in Conns : Pinged(c) \/ Pong(c)) \/ UNCHANGED vars
      PROVE  client' = client /\ open' = open
    BY <1>2 DEF TickBegins, Pinged, Ping, Pong, vars, hub
<1>3. Advance => open' = open
    BY DEF Advance
<1>4. ASSUME NEW c \in Conns, Shut(c)  PROVE open' = open \ {c}
    BY <1>4 DEF Shut, Close
<1>5. client' = client => LoseOnly
    BY DEF LoseOnly
<1>6. CASE TickBegins \/ (\E c \in Conns : Pinged(c) \/ Pong(c)) \/ UNCHANGED vars
    BY <1>1, <1>2, <1>5, <1>6
<1>7. CASE Advance
    BY <1>3, <1>7, AdvanceMoves
<1>8. ASSUME NEW c \in Conns, Shut(c)
      PROVE  /\ client' \in [Tabs -> ClientRec] /\ LoseOnly /\ open' = open \ {c}
             /\ \A t \in Tabs : client'[t].conn # c
    BY <1>4, <1>8, ShutMoves
<1>9. ASSUME NEW t \in Tabs, TabStep(t)
      PROVE  client' \in [Tabs -> ClientRec] /\ LoseOnly /\ open' = open
    BY <1>9, TabMoves
<1>10. ASSUME NEW t \in Tabs, Handshake(t)
       PROVE  /\ client' \in [Tabs -> ClientRec]
              /\ \E c \in Conns \ open :
                    /\ open' = open \cup {c} /\ client'[t].conn = c
                    /\ \A u \in Tabs : u # t => client'[u] = client[u]
    BY <1>10, HandshakeMoves
<1> QED  BY <1>6, <1>7, <1>8, <1>9, <1>10, StepCases

LEMMA UniqueStep ==
    ASSUME TypeOK, ConnsUnique, [Next]_vars  PROVE ConnsUnique'
<1>1. CASE LoseOnly
    BY <1>1 DEF LoseOnly, ConnsUnique
<1>2. ASSUME NEW t \in Tabs, NEW c \in Conns \ open, client'[t].conn = c,
             \A u \in Tabs : u # t => client'[u] = client[u]
      PROVE  ConnsUnique'
    <2>1. \A u \in Tabs : client[u].conn # c
        BY Typed, Clock
    <2> QED  BY <1>2, <2>1 DEF ConnsUnique
<1> QED  BY <1>1, <1>2, ClientStep

\* Who answers after a step answered before it, or has just connected.
LEMMA AnswersBefore ==
    ASSUME NEW c \in Conns, LoseOnly, Answers(c)'  PROVE Answers(c)
BY Clock DEF Answers, LoseOnly

-----------------------------------------------------------------------------
(* The reaper *)

\* The clock, the sweep and what the Hub has open.
LEMMA SweepStep ==
    ASSUME TypeOK, SweepInv, [Next]_vars
    PROVE  /\ clock' \in 0 .. PingInterval + MaxLate /\ cutoffAge' \in 0 .. MaxLate
           /\ sweep' \subseteq open' /\ open' \subseteq Conns /\ SweepInv'
<1>1. /\ clock \in 0 .. PingInterval + MaxLate /\ cutoffAge \in 0 .. MaxLate
      /\ sweep \subseteq open /\ open \subseteq Conns
    BY Typed
<1> USE DEF SweepInv
<1>2. CASE Advance
    <2>1. /\ sweep' = sweep /\ open' = open /\ clock' = clock + 1
          /\ clock < (IF sweep = {} THEN PingInterval + MaxLate ELSE MaxLate)
          /\ cutoffAge' = IF sweep = {} THEN 0 ELSE cutoffAge + 1
        BY <1>2 DEF Advance
    <2>2. CASE sweep = {}
        BY <1>1, <2>1, <2>2, Clock
    <2>3. CASE sweep # {}
        BY <1>1, <2>1, <2>3, Clock
    <2> QED  BY <2>2, <2>3
<1>3. CASE TickBegins
    <2>1. /\ clock >= PingInterval /\ clock' = clock - PingInterval /\ cutoffAge' = 0
          /\ sweep' = open /\ open' = open
        BY <1>3 DEF TickBegins, hub
    <2> QED  BY <1>1, <2>1, Clock
<1>4. ASSUME NEW c \in Conns, Shut(c) \/ Pinged(c) \/ Pong(c)
      PROVE  /\ clock' = clock /\ cutoffAge' = cutoffAge /\ sweep' \subseteq sweep
             /\ sweep' \subseteq open' /\ open' \subseteq open
    BY <1>1, <1>4 DEF Shut, Close, Pinged, Ping, Pong, reaper
<1>5. ASSUME NEW t \in Tabs, Handshake(t) \/ TabStep(t)
      PROVE  /\ UNCHANGED reaper /\ open \subseteq open' /\ open' \subseteq Conns
    BY <1>1, <1>5, TabMoves, HandshakeMoves
<1>6. CASE UNCHANGED vars
    BY <1>1, <1>6 DEF vars, reaper, hub
<1>7. ASSUME NEW c \in Conns, Shut(c) \/ Pinged(c) \/ Pong(c)
      PROVE  /\ clock' \in 0 .. PingInterval + MaxLate /\ cutoffAge' \in 0 .. MaxLate
             /\ sweep' \subseteq open' /\ open' \subseteq Conns /\ SweepInv'
    BY <1>1, <1>4, <1>7
<1>8. ASSUME NEW t \in Tabs, Handshake(t) \/ TabStep(t)
      PROVE  /\ clock' \in 0 .. PingInterval + MaxLate /\ cutoffAge' \in 0 .. MaxLate
             /\ sweep' \subseteq open' /\ open' \subseteq Conns /\ SweepInv'
    BY <1>1, <1>5, <1>8 DEF reaper
<1> QED  BY <1>2, <1>3, <1>6, <1>7, <1>8, StepCases

\* What each step does to the pings and pongs of the connections.
LEMMA WireMoves ==
    ASSUME TypeOK, [Next]_vars
    PROVE  /\ Advance \/ pong' = pong \/ \E c \in Conns : pong' = [pong EXCEPT ![c] = 0]
           /\ \/ Advance \/ travel' = travel
              \/ \E c \in Conns : travel' = [travel EXCEPT ![c] = {}]
              \/ \E c \in open : travel' = [travel EXCEPT ![c] = @ \cup {0}]
              \/ \E c \in Conns : /\ travel[c] # {}
                                  /\ travel' = [travel EXCEPT ![c] = @ \ {Max(@)}]
           /\ \/ lost' = lost \/ \E c \in Conns : lost' = [lost EXCEPT ![c] = 0]
              \/ \E c \in Conns : lost[c] < MaxLost /\ lost' = [lost EXCEPT ![c] = @ + 1]
           /\ outages' = outages \/ (outages < MaxOutages /\ outages' = outages + 1)
<1>1. /\ pong \in [Conns -> 0 .. MaxAge] /\ travel \in [Conns -> SUBSET (0 .. RoundTrip)]
      /\ sweep \subseteq open /\ open \subseteq Conns
      /\ \A t \in Tabs : client[t].conn \in open \cup {NoConn}
    BY Typed
<1>2. CASE Advance
    BY <1>2 DEF Advance
<1>3. CASE TickBegins \/ UNCHANGED vars
    BY <1>3 DEF TickBegins, vars, hub
<1>4. ASSUME NEW c \in Conns, Shut(c)
      PROVE  /\ pong' = [pong EXCEPT ![c] = 0] /\ travel' = [travel EXCEPT ![c] = {}]
             /\ lost' = [lost EXCEPT ![c] = 0] /\ outages' = outages
    BY <1>4 DEF Shut, Close
<1>5. ASSUME NEW c \in Conns, Pong(c)
      PROVE  /\ pong' = [pong EXCEPT ![c] = 0] /\ travel[c] # {}
             /\ travel' = [travel EXCEPT ![c] = @ \ {Max(@)}]
             /\ lost' = lost /\ outages' = outages
    BY <1>5 DEF Pong
<1>6. ASSUME NEW c \in Conns, Pinged(c)
      PROVE  /\ pong' = pong /\ outages' = outages /\ c \in open
             /\ \/ /\ travel' = travel \/ travel' = [travel EXCEPT ![c] = @ \cup {0}]
                   /\ lost' = [lost EXCEPT ![c] = 0]
                \/ /\ travel' = travel /\ lost[c] < MaxLost /\ lost' = [lost EXCEPT ![c] = @ + 1]
    BY <1>1, <1>6 DEF Pinged, Ping
<1>7. ASSUME NEW t \in Tabs, Logout(t) \/ CutOff(t)
      PROVE  /\ pong' = pong /\ lost' = lost /\ outages' = outages
             /\ travel' = travel \/ \E c \in Conns : travel' = [travel EXCEPT ![c] = {}]
    <2>1. Silence(t) /\ pong' = pong /\ lost' = lost /\ outages' = outages
        BY <1>7 DEF Logout, CutOff
    <2>2. CASE client[t].conn = NoConn
        BY <1>1, <2>1, <2>2, Clock DEF Silence
    <2>3. CASE client[t].conn \in Conns
        BY <1>1, <2>1, <2>3 DEF Silence
    <2> QED  BY <1>1, <2>1, <2>2, <2>3
<1>8. ASSUME NEW t \in Tabs, Login(t) \/ Connect(t) \/ Refused(t) \/ Expire(t) \/ Notice(t)
      PROVE  /\ pong' = pong /\ lost' = lost /\ travel' = travel
             /\ outages' = outages \/ (outages < MaxOutages /\ outages' = outages + 1)
    BY <1>8 DEF Login, Connect, Refused, Expire, Notice, hub
<1>9. ASSUME NEW t \in Tabs, Handshake(t)
      PROVE  /\ \E c \in Conns : pong' = [pong EXCEPT ![c] = 0]
             /\ lost' = lost /\ travel' = travel /\ outages' = outages
    BY <1>9, HandshakeMoves
<1> QED
    BY <1>2, <1>3, <1>4, <1>5, <1>6, <1>7, <1>8, <1>9, StepCases DEF TabStep

LEMMA TypeStep ==
    ASSUME TypeOK, SweepInv, ConnsUnique, [Next]_vars  PROVE TypeOK'
<1>1. /\ pong \in [Conns -> 0 .. MaxAge] /\ travel \in [Conns -> SUBSET (0 .. RoundTrip)]
      /\ lost \in [Conns -> 0 .. MaxLost] /\ outages \in 0 .. MaxOutages
      /\ client \in [Tabs -> ClientRec] /\ \A t \in Tabs : client[t].conn \in open \cup {NoConn}
    BY Typed
<1>2. pong' \in [Conns -> 0 .. MaxAge]
    <2>1. CASE Advance
        <3>1. pong' = [c \in Conns |-> IF c \in open /\ pong[c] < MaxAge THEN pong[c] + 1 ELSE pong[c]]
            BY <2>1 DEF Advance
        <3> QED  BY <1>1, <3>1, Clock
    <2>2. 0 \in 0 .. MaxAge
        BY Clock
    <2> QED  BY <1>1, <2>1, <2>2, WireMoves
<1>3. travel' \in [Conns -> SUBSET (0 .. RoundTrip)]
    <2>1. CASE Advance
        <3>1. /\ travel' = [c \in Conns |-> {a + 1 : a \in travel[c]}]
              /\ \A c \in Conns : RoundTrip \notin travel[c]
            BY <2>1 DEF Advance
        <3>2. \A c \in Conns : \A a \in travel[c] : a + 1 \in 0 .. RoundTrip
            BY <1>1, <3>1, Clock
        <3> QED  BY <3>1, <3>2
    <2>2. 0 \in 0 .. RoundTrip
        BY Clock
    <2> QED  BY <1>1, <2>1, <2>2, Typed, WireMoves
<1>4. lost' \in [Conns -> 0 .. MaxLost] /\ outages' \in 0 .. MaxOutages
    BY <1>1, Clock, WireMoves
<1>5. /\ client' \in [Tabs -> ClientRec]
      /\ \A t \in Tabs : client'[t].conn \in open' \cup {NoConn}
    <2>1. CASE LoseOnly /\ open' = open
        BY <1>1, <2>1, ClientStep DEF LoseOnly
    <2>2. ASSUME NEW c \in Conns, LoseOnly, open' = open \ {c}, \A t \in Tabs : client'[t].conn # c
          PROVE  \A t \in Tabs : client'[t].conn \in open' \cup {NoConn}
        BY <1>1, <2>2 DEF LoseOnly
    <2>3. ASSUME NEW t \in Tabs, NEW c \in Conns \ open, open' = open \cup {c}, client'[t].conn = c,
                 \A u \in Tabs : u # t => client'[u] = client[u]
          PROVE  \A u \in Tabs : client'[u].conn \in open' \cup {NoConn}
        BY <1>1, <2>3
    <2> QED  BY <2>1, <2>2, <2>3, ClientStep
<1>6. /\ clock' \in 0 .. PingInterval + MaxLate /\ cutoffAge' \in 0 .. MaxLate
      /\ sweep' \subseteq open' /\ open' \subseteq Conns
    BY SweepStep
<1>7. client' \in [Tabs -> [status : {"idle", "waiting", "connecting", "open"},
                            conn : open' \cup {NoConn}, attempt : 0 .. Doublings + 1,
                            timer : 0 .. MaxBackoff, token : {"none", "valid", "expired"}]]
    BY <1>5, ClientsTyped
<1> QED  BY <1>2, <1>3, <1>4, <1>6, <1>7 DEF TypeOK

-----------------------------------------------------------------------------
(* How old a pong can be *)

LEMMA ClosedStep ==
    ASSUME TypeOK, ClosedInv, [Next]_vars  PROVE ClosedInv'
<1>1. /\ travel \in [Conns -> SUBSET (0 .. RoundTrip)] /\ open \subseteq Conns
    BY Typed
<1>2. ASSUME NEW c \in Conns, Shut(c)  PROVE ClosedInv'
    BY <1>1, <1>2 DEF Shut, Close, ClosedInv
<1>3. ASSUME open \subseteq open'  PROVE ClosedInv'
    <2>1. CASE Advance
        BY <1>1, <1>3, <2>1 DEF Advance, ClosedInv
    <2> QED  BY <1>1, <1>3, <2>1, WireMoves DEF ClosedInv
<1>4. ASSUME NEW t \in Tabs, Handshake(t) \/ TabStep(t)  PROVE open \subseteq open'
    BY <1>4, HandshakeMoves, TabMoves
<1>5. ASSUME NEW c \in Conns, Pinged(c) \/ Pong(c)  PROVE open \subseteq open'
    BY <1>5 DEF Pinged, Ping, Pong
<1>6. ASSUME Advance \/ TickBegins \/ UNCHANGED vars  PROVE open \subseteq open'
    BY <1>6 DEF Advance, TickBegins, vars, hub
<1> QED  BY <1>2, <1>3, <1>4, <1>5, <1>6, StepCases

LEMMA EvictStep ==
    ASSUME TypeOK, SweepInv, EvictInv, [Next]_vars  PROVE EvictInv'
<1>1. /\ pong \in [Conns -> 0 .. MaxAge] /\ sweep \subseteq open /\ open \subseteq Conns
      /\ clock \in Nat /\ cutoffAge \in Nat /\ \A c \in Conns : pong[c] \in Nat
    BY Typed, Clock
<1> DEFINE Bound(c) == PongTimeout + clock + IF c \in sweep THEN PingInterval ELSE 0
<1>2. \A c \in open : pong[c] <= Bound(c)
    BY DEF EvictInv
<1>3. SUFFICES ASSUME NEW c \in open'
               PROVE  pong'[c] <= PongTimeout + clock' + IF c \in sweep' THEN PingInterval ELSE 0
    BY DEF EvictInv
<1>4. PongTimeout \in Nat /\ PingInterval \in Nat
    BY Clock
<1>5. ASSUME c \in open, clock' = clock, pong'[c] = pong[c], c \in sweep' <=> c \in sweep
      PROVE  pong'[c] <= PongTimeout + clock' + IF c \in sweep' THEN PingInterval ELSE 0
    BY <1>2, <1>5
<1>6. CASE Advance
    <2>1. c \in open /\ sweep' = sweep /\ clock' = clock + 1
        BY <1>6 DEF Advance
    <2>2. pong'[c] <= pong[c] + 1
        BY <1>1, <1>6, <2>1, Clock DEF Advance
    <2>3. pong'[c] \in Nat
        BY <1>1, <1>6, <2>1, Clock DEF Advance
    <2> QED  BY <1>1, <1>2, <1>4, <2>1, <2>2, <2>3
<1>7. CASE TickBegins
    <2>1. /\ c \in open /\ sweep = {} /\ sweep' = open /\ clock' = clock - PingInterval /\ pong' = pong
        BY <1>7 DEF TickBegins, hub
    <2> QED  BY <1>1, <1>2, <1>4, <2>1
<1>8. ASSUME NEW d \in Conns, Shut(d)
      PROVE  c \in open /\ clock' = clock /\ pong'[c] = pong[c] /\ (c \in sweep' <=> c \in sweep)
    BY <1>1, <1>8 DEF Shut, Close
<1>9. ASSUME NEW d \in Conns, Pinged(d), c # d
      PROVE  c \in open /\ clock' = clock /\ pong'[c] = pong[c] /\ (c \in sweep' <=> c \in sweep)
    BY <1>9 DEF Pinged, Ping
<1>10. CASE Pinged(c)
    <2>1. /\ pong[c] <= PongTimeout + cutoffAge /\ pong' = pong /\ clock' = clock
          /\ c \notin sweep' /\ c \in Conns
        BY <1>1, <1>4, <1>10 DEF Pinged, Ping, Stale
    <2>2. cutoffAge <= clock
        BY <1>10 DEF Pinged, SweepInv
    <2> QED  BY <1>1, <1>4, <2>1, <2>2
<1>11. ASSUME NEW d \in Conns, Pong(d)
       PROVE  /\ c \in open /\ clock' = clock /\ sweep' = sweep
              /\ pong'[c] = IF c = d THEN 0 ELSE pong[c]
    BY <1>1, <1>11 DEF Pong, reaper
<1>12. ASSUME NEW t \in Tabs, Handshake(t)
       PROVE  /\ clock' = clock /\ sweep' = sweep
              /\ pong'[c] = 0 \/ (c \in open /\ pong'[c] = pong[c])
    BY <1>1, <1>12, HandshakeMoves DEF reaper
<1>13. ASSUME (\E t \in Tabs : TabStep(t)) \/ UNCHANGED vars
       PROVE  c \in open /\ clock' = clock /\ pong'[c] = pong[c] /\ sweep' = sweep
    BY <1>13, TabMoves DEF vars, reaper, hub
<1>14. ASSUME clock' = clock, pong'[c] = 0
       PROVE  pong'[c] <= PongTimeout + clock' + IF c \in sweep' THEN PingInterval ELSE 0
    BY <1>1, <1>4, <1>14
<1>15. CASE \E d \in Conns : Shut(d) \/ (Pinged(d) /\ c # d) \/ Pong(d)
    BY <1>5, <1>8, <1>9, <1>11, <1>14, <1>15
<1>16. CASE (\E t \in Tabs : Handshake(t) \/ TabStep(t)) \/ UNCHANGED vars
    BY <1>5, <1>12, <1>13, <1>14, <1>16
<1> QED  BY <1>6, <1>7, <1>10, <1>15, <1>16, StepCases

\* What Kept is made of are naturals.
LEMMA KeptTypes ==
    ASSUME TypeOK, NEW c \in Conns
    PROVE  /\ pong[c] \in Nat /\ clock \in Nat /\ lost[c] \in Nat /\ lost[c] <= MaxLost
           /\ Owed(c) \in Nat /\ Ticks(Owed(c)) \in Nat
           /\ travel[c] \subseteq 0 .. RoundTrip
           /\ travel[c] # {} => Max(travel[c]) \in 0 .. RoundTrip /\ \A a \in travel[c] : a <= Max(travel[c])
<1>1. /\ pong[c] \in Nat /\ clock \in Nat /\ lost[c] \in Nat /\ lost[c] <= MaxLost
      /\ travel[c] \subseteq 0 .. RoundTrip
    BY Typed, Clock
<1>2. Owed(c) \in Nat
    BY <1>1 DEF Owed
<1> QED  BY <1>1, <1>2, Clock, TickSums, MaxIsOldest

\* Nothing that Kept is about changes for c.
LEMMA KeptStays ==
    ASSUME NEW c \in Conns, Kept(c), clock' = clock, pong'[c] = pong[c], travel'[c] = travel[c],
           lost'[c] = lost[c], c \in sweep' <=> c \in sweep
    PROVE  Kept(c)'
BY DEF Kept, Owed

\* A pong that has just come in is not too old.
LEMMA FreshIsKept ==
    ASSUME TypeOK', NEW c \in Conns, pong'[c] = 0  PROVE Kept(c)'
<1>1. /\ clock' \in Nat /\ Ticks(Owed(c)') \in Nat
      /\ travel'[c] # {} => Max(travel'[c]) \in 0 .. RoundTrip
    <2>1. /\ pong' \in [Conns -> 0 .. MaxAge] /\ lost' \in [Conns -> 0 .. MaxLost]
          /\ clock' \in 0 .. PingInterval + MaxLate
          /\ travel' \in [Conns -> SUBSET (0 .. RoundTrip)]
        BY DEF TypeOK
    <2>2. Owed(c)' \in Nat
        BY <2>1, Clock DEF Owed
    <2>3. travel'[c] \subseteq 0 .. RoundTrip
        BY <2>1
    <2>4. travel'[c] # {} => Max(travel'[c]) \in 0 .. RoundTrip
        BY <2>3, Clock, MaxIsOldest
    <2>5. Ticks(Owed(c)') \in Nat
        BY <2>2, TickSums
    <2>6. clock' \in Nat
        BY <2>1, Clock
    <2> QED  BY <2>4, <2>5, <2>6
<1> QED  BY <1>1, GapFits DEF Kept

\* A tab that falls silent takes the pings on its own connection with it.
LEMMA SilenceIsOwn ==
    ASSUME TypeOK, ConnsUnique, NEW t \in Tabs, TabStep(t), NEW c \in open, Answers(c)'
    PROVE  travel'[c] = travel[c]
<1>1. c \in Conns /\ c # NoConn /\ travel \in [Conns -> SUBSET (0 .. RoundTrip)]
    BY Typed, Clock
<1>2. ASSUME Logout(t) \/ CutOff(t)  PROVE travel'[c] = travel[c]
    <2>1. Silence(t) /\ client'[t].conn = NoConn /\ \A u \in Tabs : u # t => client'[u] = client[u]
        <3>1. client \in [Tabs -> ClientRec]
            BY Typed
        <3>2. CASE Logout(t)
            <4>1. client'[t] = [client[t] EXCEPT !.status = "idle", !.conn = NoConn, !.timer = 0,
                                                 !.token = "none"]
                BY <3>1, <3>2 DEF Logout
            <4>2. client'[t].conn = NoConn
                BY <3>1, <4>1 DEF ClientRec
            <4> QED  BY <3>1, <3>2, <4>2 DEF Logout
        <3>3. CASE CutOff(t)
            BY <3>1, <3>3 DEF CutOff, ClientRec
        <3> QED  BY <1>2, <3>2, <3>3
    <2>2. PICK u \in Tabs : client'[u].conn = c
        BY DEF Answers
    <2>3. u # t /\ client[u].conn = c
        BY <1>1, <2>1, <2>2
    <2>4. client[t].conn # c
        BY <1>1, <2>3 DEF ConnsUnique
    <2> QED  BY <1>1, <2>1, <2>4 DEF Silence
<1>3. ASSUME Login(t) \/ Connect(t) \/ Refused(t) \/ Expire(t) \/ Notice(t)
      PROVE  travel'[c] = travel[c]
    BY <1>3 DEF Login, Connect, Refused, Expire, Notice, hub
<1> QED  BY <1>2, <1>3 DEF TabStep

\* A ping is sent: if it is accepted, the pong is not older than the gap before
\* it; if it is refused, one more tick is owed.
LEMMA PingKeeps ==
    ASSUME TypeOK, TypeOK', SweepInv, NEW c \in open, Pinged(c), Answers(c), Kept(c)
    PROVE  Kept(c)'
<1>1. /\ c \in Conns /\ c \in sweep /\ clock <= MaxLate
      /\ travel \in [Conns -> SUBSET (0 .. RoundTrip)] /\ lost \in [Conns -> 0 .. MaxLost]
    BY Typed DEF Pinged, SweepInv
<1>2. /\ pong[c] \in Nat /\ clock \in Nat /\ lost[c] \in Nat /\ lost[c] <= MaxLost
      /\ travel[c] # {} => Max(travel[c]) \in travel[c] /\ Max(travel[c]) \in 0 .. RoundTrip
    BY <1>1, KeptTypes, MaxIsOldest, Clock
<1>3. clock' = clock /\ pong' = pong /\ c \notin sweep'
    BY DEF Pinged, Ping
<1>4. travel[c] = {} => pong[c] <= clock + Ticks(lost[c] + 1)
    BY <1>1 DEF Kept, Owed
<1>5. travel[c] # {} => pong[c] <= Max(travel[c]) + Gap
    BY DEF Kept
<1>6. CASE travel' = [travel EXCEPT ![c] = IF Answers(c) THEN @ \cup {0} ELSE @]
    <2>1. travel'[c] = travel[c] \cup {0}
        BY <1>1, <1>6
    <2>2. travel'[c] \subseteq 0 .. RoundTrip
        BY <1>1, <2>1, Clock
    <2>3. /\ Max(travel'[c]) \in 0 .. RoundTrip
          /\ \A a \in travel'[c] : a <= Max(travel'[c])
        BY <2>1, <2>2, Clock, MaxIsOldest
    <2>4. pong[c] <= Max(travel'[c]) + Gap
        <3>1. CASE travel[c] = {}
            <4>1. Ticks(lost[c] + 1) \in Nat /\ clock + Ticks(lost[c] + 1) <= Gap
                BY <1>1, <1>2, GapCovers
            <4>2. pong[c] <= Gap
                BY <1>2, <1>4, <3>1, <4>1, GapFits
            <4> QED  BY <1>2, <2>3, <4>2, GapFits
        <3>2. CASE travel[c] # {}
            <4>1. Max(travel[c]) <= Max(travel'[c])
                BY <1>2, <2>1, <2>3, <3>2
            <4> QED  BY <1>2, <1>5, <2>3, <3>2, <4>1, GapFits
        <3> QED  BY <3>1, <3>2
    <2>5. travel'[c] # {} /\ pong'[c] = pong[c]
        BY <1>3, <2>1
    <2> QED  BY <2>4, <2>5 DEF Kept
<1>7. CASE lost' = [lost EXCEPT ![c] = @ + 1] /\ travel' = travel
    <2>1. lost'[c] = lost[c] + 1 /\ travel'[c] = travel[c] /\ pong'[c] = pong[c]
        BY <1>1, <1>3, <1>7
    <2>2. Owed(c)' = lost[c] + 1
        BY <1>3, <2>1 DEF Owed
    <2> QED  BY <1>3, <1>4, <1>5, <2>1, <2>2 DEF Kept
<1> QED  BY <1>6, <1>7 DEF Pinged, Ping

LEMMA AdvanceKeeps ==
    ASSUME TypeOK, NEW c \in open, Advance, Kept(c)  PROVE Kept(c)'
<1>1. /\ c \in Conns /\ clock' = clock + 1 /\ lost' = lost /\ sweep' = sweep
      /\ travel'[c] = {a + 1 : a \in travel[c]}
    BY Typed DEF Advance
<1>2. pong'[c] \in Nat /\ pong'[c] <= pong[c] + 1
    BY <1>1, Typed, Clock DEF Advance
<1>3. /\ pong[c] \in Nat /\ clock \in Nat /\ Ticks(Owed(c)) \in Nat /\ travel[c] \subseteq 0 .. RoundTrip
    BY <1>1, KeptTypes
<1>4. CASE travel[c] = {}
    <2>1. travel'[c] = {} /\ Owed(c)' = Owed(c)
        BY <1>1, <1>4 DEF Owed
    <2>2. pong[c] <= clock + Ticks(Owed(c))
        BY <1>4 DEF Kept
    <2>3. pong'[c] <= clock' + Ticks(Owed(c))
        BY <1>1, <1>2, <1>3, <2>2
    <2> QED  BY <2>1, <2>3 DEF Kept
<1>5. CASE travel[c] # {}
    <2>1. Max(travel[c]) \in travel[c] /\ Max(travel[c]) \in 0 .. RoundTrip
        BY <1>3, <1>5, Clock, MaxIsOldest
    <2>2. travel'[c] # {} /\ Max(travel[c]) + 1 \in travel'[c]
        BY <1>1, <2>1
    <2>3. travel'[c] \subseteq 0 .. RoundTrip + 1 /\ RoundTrip + 1 \in Nat
        BY <1>1, <1>3, Clock
    <2>4. Max(travel[c]) + 1 <= Max(travel'[c]) /\ Max(travel'[c]) \in 0 .. RoundTrip + 1
        BY <2>2, <2>3, MaxIsOldest
    <2>5. pong[c] <= Max(travel[c]) + Gap
        BY <1>5 DEF Kept
    <2>6. pong'[c] <= Max(travel'[c]) + Gap
        BY <1>2, <1>3, <2>1, <2>4, <2>5, GapFits, Clock
    <2> QED  BY <2>2, <2>6 DEF Kept
<1> QED  BY <1>4, <1>5

LEMMA TickKeeps ==
    ASSUME TypeOK, NEW c \in open, TickBegins, Kept(c)  PROVE Kept(c)'
<1>1. /\ c \in Conns /\ sweep = {} /\ clock' = clock - PingInterval /\ sweep' = open
      /\ pong' = pong /\ travel' = travel /\ lost' = lost
    BY Typed DEF TickBegins, hub
<1>2. pong[c] \in Nat /\ clock \in Nat /\ lost[c] \in Nat /\ PingInterval \in Nat
    BY <1>1, KeptTypes, Clock
<1>3. Owed(c) = lost[c] /\ Owed(c)' = lost[c] + 1
    BY <1>1 DEF Owed
<1>4. clock' + Ticks(lost[c] + 1) = clock + Ticks(lost[c])
    <2>1. Ticks(lost[c]) \in Nat /\ Ticks(lost[c] + 1) = Ticks(lost[c]) + PingInterval
        BY <1>2, TickSums
    <2> QED  BY <1>1, <1>2, <2>1
<1> QED  BY <1>1, <1>3, <1>4 DEF Kept

LEMMA KeptStep ==
    ASSUME TypeOK, TypeOK', SweepInv, ConnsUnique, ClosedInv, KeptInv, [Next]_vars
    PROVE  KeptInv'
<1>1. /\ sweep \subseteq open /\ open \subseteq Conns /\ open' \subseteq Conns
      /\ pong \in [Conns -> 0 .. MaxAge] /\ travel \in [Conns -> SUBSET (0 .. RoundTrip)]
      /\ lost \in [Conns -> 0 .. MaxLost]
    BY Typed DEF TypeOK
<1>2. SUFFICES ASSUME NEW c \in open', Answers(c)'  PROVE Kept(c)'
    BY DEF KeptInv
<1>3. ASSUME c \in open, Answers(c)  PROVE Kept(c)
    BY <1>3 DEF KeptInv
<1>4. LoseOnly => Answers(c)
    BY <1>1, <1>2, AnswersBefore
<1>5. CASE Advance
    <2>1. c \in open
        BY <1>5 DEF Advance
    <2> QED  BY <1>3, <1>4, <1>5, <2>1, AdvanceMoves, AdvanceKeeps
<1>6. CASE TickBegins
    <2>1. c \in open /\ Answers(c)
        BY <1>2, <1>6 DEF TickBegins, hub, Answers
    <2> QED  BY <1>3, <1>6, <2>1, TickKeeps
<1>7. ASSUME NEW d \in Conns, Shut(d)  PROVE Kept(c)'
    <2>1. /\ c \in open /\ c # d /\ clock' = clock
          /\ pong'[c] = pong[c] /\ travel'[c] = travel[c] /\ lost'[c] = lost[c]
          /\ c \in sweep' <=> c \in sweep
        BY <1>1, <1>2, <1>7 DEF Shut, Close
    <2>2. Kept(c)
        BY <1>3, <1>4, <1>7, <2>1, ShutMoves
    <2> QED  BY <1>1, <2>1, <2>2, KeptStays
<1>8. ASSUME NEW d \in Conns, Pinged(d)  PROVE Kept(c)'
    <2>1. c \in open /\ Answers(c)
        BY <1>2, <1>8 DEF Pinged, Ping, Answers
    <2>2. Kept(c)
        BY <1>3, <2>1
    <2>3. CASE c = d
        BY <1>8, <2>1, <2>2, <2>3, PingKeeps
    <2>4. CASE c # d
        <3>1. /\ clock' = clock /\ pong'[c] = pong[c] /\ (c \in sweep' <=> c \in sweep)
              /\ travel'[c] = travel[c] /\ lost'[c] = lost[c]
            BY <1>1, <1>8, <2>4 DEF Pinged, Ping
        <3> QED  BY <1>1, <2>2, <3>1, KeptStays
    <2> QED  BY <2>3, <2>4
<1>9. ASSUME NEW d \in Conns, Pong(d)  PROVE Kept(c)'
    <2>1. c \in open /\ Answers(c)
        BY <1>2, <1>9 DEF Pong, Answers
    <2>2. CASE c = d
        <3>1. pong'[c] = 0
            BY <1>1, <1>9, <2>2 DEF Pong
        <3> QED  BY <1>1, <3>1, FreshIsKept
    <2>3. CASE c # d
        <3>1. /\ clock' = clock /\ pong'[c] = pong[c] /\ sweep' = sweep
              /\ travel'[c] = travel[c] /\ lost'[c] = lost[c]
            BY <1>1, <1>9, <2>3 DEF Pong, reaper
        <3> QED  BY <1>1, <1>3, <2>1, <3>1, KeptStays
    <2> QED  BY <2>2, <2>3
<1>10. ASSUME NEW t \in Tabs, Handshake(t)  PROVE Kept(c)'
    <2>1. PICK d \in Conns \ open :
              /\ open' = open \cup {d} /\ pong' = [pong EXCEPT ![d] = 0] /\ client'[t].conn = d
              /\ \A u \in Tabs : u # t => client'[u] = client[u]
              /\ UNCHANGED <<reaper, travel, lost, outages>>
        BY <1>10, HandshakeMoves
    <2>2. CASE c = d
        <3>1. pong'[c] = 0
            BY <1>1, <2>1, <2>2
        <3> QED  BY <1>1, <3>1, FreshIsKept
    <2>3. CASE c # d
        <3>1. c \in open /\ Answers(c)
            BY <1>2, <2>1, <2>3 DEF Answers
        <3>2. /\ clock' = clock /\ pong'[c] = pong[c] /\ sweep' = sweep
              /\ travel'[c] = travel[c] /\ lost'[c] = lost[c]
            BY <1>1, <2>1, <2>3 DEF reaper
        <3> QED  BY <1>1, <1>3, <3>1, <3>2, KeptStays
    <2> QED  BY <2>2, <2>3
<1>11. ASSUME NEW t \in Tabs, TabStep(t)  PROVE Kept(c)'
    <2>1. LoseOnly /\ UNCHANGED <<reaper, open, pong, lost>>
        BY <1>11, TabMoves
    <2>2. c \in open /\ clock' = clock /\ sweep' = sweep
        BY <2>1 DEF reaper
    <2>3. travel'[c] = travel[c]
        BY <1>2, <1>11, <2>2, SilenceIsOwn
    <2> QED  BY <1>1, <1>3, <1>4, <2>1, <2>2, <2>3, KeptStays
<1>12. CASE UNCHANGED vars
    <2>1. c \in open /\ Answers(c) /\ UNCHANGED <<clock, sweep, pong, travel, lost>>
        BY <1>2, <1>12 DEF vars, reaper, hub, Answers
    <2> QED  BY <1>1, <1>3, <2>1, KeptStays
<1> QED
    BY <1>5, <1>6, <1>7, <1>8, <1>9, <1>10, <1>11, <1>12, StepCases

-----------------------------------------------------------------------------
(* Theorems *)

LEMMA InitIInv ==
    ASSUME Init  PROVE IInv
<1>1. TypeOK
    <2>1. 0 \in 0 .. Doublings + 1 /\ 0 \in 0 .. MaxBackoff
        BY Clock
    <2>2. client \in [Tabs -> [status : {"idle", "waiting", "connecting", "open"},
                               conn : open \cup {NoConn}, attempt : 0 .. Doublings + 1,
                               timer : 0 .. MaxBackoff, token : {"none", "valid", "expired"}]]
        BY <2>1 DEF Init
    <2>3. /\ clock \in 0 .. PingInterval + MaxLate /\ cutoffAge \in 0 .. MaxLate
          /\ outages \in 0 .. MaxOutages
        BY Clock DEF Init
    <2>4. /\ pong \in [Conns -> 0 .. MaxAge] /\ lost \in [Conns -> 0 .. MaxLost]
          /\ travel \in [Conns -> SUBSET (0 .. RoundTrip)]
        BY Clock DEF Init
    <2> QED  BY <2>2, <2>3, <2>4 DEF TypeOK, Init
<1>2. SweepInv /\ ClosedInv /\ EvictInv /\ KeptInv
    BY DEF Init, SweepInv, ClosedInv, EvictInv, KeptInv
<1>3. ConnsUnique
    BY DEF Init, ConnsUnique
<1> QED  BY <1>1, <1>2, <1>3 DEF IInv

LEMMA NextIInv ==
    ASSUME IInv, [Next]_vars  PROVE IInv'
<1>1. TypeOK /\ SweepInv /\ ConnsUnique /\ ClosedInv /\ EvictInv /\ KeptInv
    BY DEF IInv
<1>2. TypeOK' /\ SweepInv' /\ ConnsUnique' /\ ClosedInv' /\ EvictInv'
    BY <1>1, TypeStep, SweepStep, UniqueStep, ClosedStep, EvictStep
<1>3. KeptInv'
    BY <1>1, <1>2, KeptStep
<1> QED  BY <1>2, <1>3 DEF IInv

\* In every state of the system, for every setting of the clock and any tabs and
\* connections, the inductive invariant holds.
THEOREM Invariance == Spec => []IInv
<1>1. Init => IInv
    BY InitIInv
<1>2. IInv /\ [Next]_vars => IInv'
    BY NextIInv
<1> QED  BY <1>1, <1>2, PTL DEF Spec

\* Ages and delays stay within what the constants allow.
THEOREM TypeCorrect == Spec => []TypeOK
<1>1. IInv => TypeOK
    BY DEF IInv
<1> QED  BY <1>1, Invariance, PTL

\* The reaper closes nobody who answers, as long as the timeout covers the pings
\* that may be refused, one late look and one round trip.
THEOREM AnsweringIsNeverEvicted == Spec => LiveIsKept
<1>1. ASSUME IInv, NEW c \in Conns, Check(c), Answers(c)  PROVE c \in open'
    <2>1. /\ TypeOK /\ c \in sweep /\ c \in open /\ clock <= MaxLate /\ cutoffAge \in Nat
        BY <1>1, Typed, Clock DEF IInv, Check, SweepInv
    <2>2. /\ pong[c] \in Nat /\ clock \in Nat /\ lost[c] \in Nat /\ lost[c] <= MaxLost
          /\ travel[c] # {} => Max(travel[c]) \in 0 .. RoundTrip
        BY <2>1, KeptTypes
    <2>3. Kept(c)
        BY <1>1, <2>1 DEF IInv, KeptInv
    <2>4. pong[c] <= PongTimeout
        <3>1. CASE travel[c] = {}
            <4>1. pong[c] <= clock + Ticks(lost[c] + 1)
                BY <2>1, <2>3, <3>1 DEF Kept, Owed
            <4>2. Ticks(lost[c] + 1) \in Nat /\ clock + Ticks(lost[c] + 1) <= Gap
                BY <2>1, <2>2, GapCovers
            <4>3. pong[c] <= Gap
                BY <2>2, <4>1, <4>2, GapFits
            <4> QED  BY <2>2, <4>3, GapFits, Clock
        <3>2. CASE travel[c] # {}
            <4>1. pong[c] <= Max(travel[c]) + Gap
                BY <2>3, <3>2 DEF Kept
            <4> QED  BY <2>2, <3>2, <4>1, GapFits, Clock
        <3> QED  BY <3>1, <3>2
    <2>5. ~Stale(c)
        BY <2>1, <2>2, <2>4, Clock DEF Stale
    <2> QED  BY <1>1, <2>1, <2>5 DEF Check, Ping
<1>2. IInv /\ [Next]_vars => [\A c \in Conns : Check(c) /\ Answers(c) => c \in open']_vars
    BY <1>1
<1> QED  BY <1>2, Invariance, PTL DEF Spec, LiveIsKept

\* A connection whose peer is silent is closed by the timeout, one interval and
\* the time the reaper may be late, however long the list of connections is.
THEOREM SilentIsClosed == Spec => []SilentIsEvicted
<1>1. ASSUME IInv  PROVE SilentIsEvicted
    <2>1. TypeOK /\ SweepInv /\ EvictInv
        BY <1>1 DEF IInv
    <2>2. SUFFICES ASSUME NEW c \in open  PROVE pong[c] < MaxAge
        BY DEF SilentIsEvicted
    <2>3. c \in Conns /\ pong[c] \in Nat /\ clock \in Nat /\ clock <= PingInterval + MaxLate
        BY <2>1, Typed, KeptTypes, Clock
    <2>4. CASE c \in sweep
        <3>1. pong[c] <= PongTimeout + clock + PingInterval /\ clock <= MaxLate
            BY <2>1, <2>4 DEF EvictInv, SweepInv
        <3> QED  BY <2>3, <3>1, Clock
    <2>5. CASE c \notin sweep
        <3>1. pong[c] <= PongTimeout + clock + 0
            BY <2>1, <2>5 DEF EvictInv
        <3> QED  BY <2>3, <3>1, Clock
    <2> QED  BY <2>4, <2>5
<1> QED  BY <1>1, Invariance, PTL
=============================================================================
