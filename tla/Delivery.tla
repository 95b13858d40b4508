------------------------------- MODULE Delivery -------------------------------
(***************************************************************************)
(* The way of one user's notifications from the commit in PostgreSQL to    *)
(* the browser tabs: publish, Redis, the node that holds the sockets, the  *)
(* handshake, resume and acknowledgement protocol of adapter/websocket,    *)
(* and the client of web/src.  What the store guarantees is taken from     *)
(* NotificationRepo: the visible seqs are 1 .. lastSeq.                    *)
(*                                                                         *)
(* A tab has one socket at a time.  The two directions of a socket are     *)
(* FIFO; the server's side of the downward one is the bounded channel of   *)
(* Connection, so a full queue refuses the frame.  nbio runs the handlers  *)
(* of one connection one after the other.                                  *)
(***************************************************************************)
EXTENDS Integers, Sequences, FiniteSets, SequencesExt

CONSTANTS
    Tabs,           \* the browser tabs of the user
    OutBuf,         \* capacity of a connection's write buffer
    ReplayLimit,    \* LIMIT of the replay query of handleResume
    ListLimit,      \* rows of the initial list
    KeepLimit,      \* rows a tab keeps when a notification is put in front
    MaxSeq,         \* bound: notifications that are sent
    Lists,          \* bound: how many tabs are opened on the dashboard, which loads a
                    \* list; the others on the admin page
    MaxDrops,       \* bound: connections the network breaks
    MaxUpsets,      \* bound: page loads after the first, returns to the dashboard,
                    \* publishes, initial loads and statements of a handler that fail,
                    \* losses of the dedicated connection
    MaxLapses,      \* bound: SUBSCRIBEs that fail on a dedicated connection that lasts
    MaxOvertakes    \* bound: publishes that overtake an earlier one

ASSUME BufferAssumption == {OutBuf, ReplayLimit, ListLimit, KeepLimit} \subseteq Nat \ {0}
ASSUME BoundsAssumption ==
    {MaxSeq, Lists, MaxDrops, MaxUpsets, MaxLapses, MaxOvertakes} \subseteq Nat

VARIABLES
    \* PostgreSQL
    lastSeq,        \* user_offsets.last_seq
    acked,          \* delivery_offsets.last_acked_seq
    \* the senders and Redis
    unpublished,    \* committed, and the publish is still to come
    failed,         \* committed, and the publish returned an error
    sub,            \* the user's channel on this node: "no", "asked" while a SUBSCRIBE
                    \* is under way, "yes", "lost" with the dedicated connection
    ref,            \* Subscriber.subs: "no", "asking" while its caller waits, "held"
    bus,            \* what Redis has routed to the node's pub-sub connection
    \* the server's side of each tab's connection
    conn,           \* how far handleUpgrade is; "none" without a connection
    welcomeSeq,     \* the local variable currentSeq of handleUpgrade
    handler,        \* where handleResume is
    down,           \* frames on the way to the tab
    up,             \* frames on the way to the server
    \* the tab
    opened,         \* onopen of the tab's current socket has run
    items,          \* state.items, newest first, as their seqs
    lastSeen,       \* state.lastSeenSeq
    fetch,          \* the GET of the initial list: its snapshot is 1 .. fetch
    \* bookkeeping
    shown,          \* every seq the tab has ever rendered
    past,           \* what is older than an initial list of the tab: 1 .. past
    whole,          \* the tab connected without a gap, and no replay was cut or
                    \* began behind what the tab had not seen
    early,          \* tabs whose handshake went on while the channel was not routed
    drops, upsets, lapses, overtakes

db == <<lastSeq, acked>>
bound == <<drops, upsets, lapses, overtakes>>
redis == <<unpublished, failed, sub, ref, bus>>
server == <<conn, welcomeSeq, handler>>
page == <<opened, items, lastSeen, fetch, shown, past>>
notes == <<whole, early>>
vars == <<db, redis, server, down, up, page, notes, bound>>

Seqs == 1 .. MaxSeq
Notification(s) == [type |-> "notification", seq |-> s]
Welcome(s) == [type |-> "welcome", seq |-> s]
Ack(s) == [type |-> "ack", seq |-> s]
Resume(s) == [type |-> "resume", seq |-> s]

Idle == [step |-> "idle", next |-> 0, last |-> 0]
Unknown == -1       \* the read of currentSeq has failed
NotAsked == -2      \* no fetch is under way
Asked == -1         \* the request has not reached the database yet

Larger(a, b) == IF a > b THEN a ELSE b
Smaller(a, b) == IF a < b THEN a ELSE b

\* What a tab has rendered, or has left to older pages of the list.
Has(t) == shown[t] \cup 1 .. past[t]

\* The connections the Hub knows.
Registered == {t \in Tabs : conn[t] \notin {"none", "upgraded"}}

Init ==
    /\ lastSeq = 0
    /\ acked = 0
    /\ unpublished = {}
    /\ failed = {}
    /\ sub = "no"
    /\ ref = "no"
    /\ bus = << >>
    /\ conn = [t \in Tabs |-> "none"]
    /\ welcomeSeq = [t \in Tabs |-> 0]
    /\ handler = [t \in Tabs |-> Idle]
    /\ down = [t \in Tabs |-> << >>]
    /\ up = [t \in Tabs |-> << >>]
    /\ opened = [t \in Tabs |-> FALSE]
    /\ items = [t \in Tabs |-> << >>]
    /\ lastSeen = [t \in Tabs |-> 0]
    /\ fetch \in [Tabs -> {Asked, NotAsked}]
    /\ Cardinality({t \in Tabs : fetch[t] = Asked}) = Lists
    /\ shown = [t \in Tabs |-> {}]
    /\ past = [t \in Tabs |-> 0]
    /\ whole = [t \in Tabs |-> FALSE]
    /\ early = {}
    /\ drops = 0
    /\ upsets = 0
    /\ lapses = 0
    /\ overtakes = 0

-----------------------------------------------------------------------------
(* Sending: SendNotification persists, then publishes.  Requests overlap,  *)
(* so a publish can overtake that of a smaller seq.                        *)

Persist ==
    /\ lastSeq < MaxSeq
    /\ lastSeq' = lastSeq + 1
    /\ unpublished' = unpublished \cup {lastSeq'}
    /\ UNCHANGED <<acked, failed, sub, ref, bus, server, down, up, page, notes, bound>>

\* Redis routes a message to the nodes that are subscribed when it arrives.
Publish(s) ==
    /\ s \in unpublished
    /\ LET overtaking == \E r \in unpublished : r < s
       IN  /\ overtaking => overtakes < MaxOvertakes
           /\ overtakes' = IF overtaking THEN overtakes + 1 ELSE overtakes
    /\ unpublished' = unpublished \ {s}
    /\ bus' = IF sub = "yes" THEN Append(bus, s) ELSE bus
    /\ UNCHANGED <<db, failed, sub, ref, server, down, up, page, notes, drops, upsets, lapses>>

\* The publish is best effort: its error is logged and the request succeeds.
PublishFails(s) ==
    /\ s \in unpublished
    /\ upsets < MaxUpsets
    /\ upsets' = upsets + 1
    /\ unpublished' = unpublished \ {s}
    /\ failed' = failed \cup {s}
    /\ UNCHANGED <<db, sub, ref, bus, server, down, up, page, notes, drops, lapses, overtakes>>

-----------------------------------------------------------------------------
(* The server *)

\* Mutated: one frame too many fits.
FullOffByOne(t) == Len(down[t]) > OutBuf

Full(t) == Len(down[t]) >= OutBuf

\* The connections of T end with all that belongs to them, and OnClose unregisters
\* them; the last one ends the subscription, which takes a reference.
Gone(T) ==
    /\ conn' = [t \in Tabs |-> IF t \in T THEN "none" ELSE conn[t]]
    /\ handler' = [t \in Tabs |-> IF t \in T THEN Idle ELSE handler[t]]
    /\ welcomeSeq' = [t \in Tabs |-> IF t \in T THEN 0 ELSE welcomeSeq[t]]
    /\ up' = [t \in Tabs |-> IF t \in T THEN << >> ELSE up[t]]
    /\ opened' = [t \in Tabs |-> opened[t] /\ t \notin T]
    /\ whole' = [t \in Tabs |-> whole[t] /\ t \notin T]
    /\ early' = early \ T
    /\ ref' = IF Registered \subseteq T THEN "no" ELSE ref
    /\ sub' = IF Registered \subseteq T /\ ref # "no" /\ sub # "lost" THEN "no" ELSE sub

\* Mutated: a full buffer drops the frame, and the connection stays.
SendToUserDrops ==
    /\ bus # << >>
    /\ bus' = Tail(bus)
    /\ down' = [t \in Tabs |->
                  IF t \in Registered /\ ~Full(t)
                  THEN Append(down[t], Notification(Head(bus))) ELSE down[t]]
    /\ UNCHANGED <<db, unpublished, failed, sub, ref, server, up, page, notes, bound>>

\* The pub-sub hook hands the next message to SendToUser: every registered
\* connection gets the frame, those with a full buffer are closed.
SendToUser ==
    LET slow == {t \in Registered : Full(t)}
    IN  /\ bus # << >>
        /\ bus' = Tail(bus)
        /\ down' = [t \in Tabs |->
                      CASE t \in slow -> << >>
                        [] t \in Registered \ slow -> Append(down[t], Notification(Head(bus)))
                        [] OTHER -> down[t]]
        /\ Gone(slow)
        /\ UNCHANGED <<db, unpublished, failed, items, lastSeen, fetch, shown, past, bound>>

Ask == ref' = "asking" /\ sub' = IF sub = "no" THEN "asked" ELSE sub

\* Mutated: Register does not wait for the subscription.
RegisterInBackground(t) ==
    /\ conn[t] = "upgraded"
    /\ conn' = [conn EXCEPT ![t] = "registered"]
    /\ IF Registered = {} THEN Ask ELSE UNCHANGED <<sub, ref>>
    /\ UNCHANGED <<db, unpublished, failed, bus, welcomeSeq, handler, down, up,
                   page, notes, bound>>

\* Register: the first connection of the user asks for the subscription and
\* waits for the answer; a later one goes straight on.
Register(t) ==
    /\ conn[t] = "upgraded"
    /\ \/ /\ Registered = {}
          /\ conn' = [conn EXCEPT ![t] = "subscribing"]
          /\ Ask
          /\ early' = early \ {t}
       \/ /\ Registered # {}
          /\ conn' = [conn EXCEPT ![t] = "registered"]
          /\ UNCHANGED <<sub, ref>>
          /\ early' = IF sub = "yes" THEN early \ {t} ELSE early \cup {t}
    /\ UNCHANGED <<db, unpublished, failed, bus, welcomeSeq, handler, down, up,
                   page, whole, bound>>

Waiting == {t \in Tabs : conn[t] = "subscribing"}

\* The caller of Subscribe goes on; who has not read current_seq yet is in time
\* when the channel is routed by now.
GoOn ==
    /\ conn' = [t \in Tabs |-> IF t \in Waiting THEN "registered" ELSE conn[t]]
    /\ early' = IF sub' = "yes" THEN {t \in early : conn[t] # "registered"}
                ELSE early \cup Waiting
    /\ UNCHANGED <<db, unpublished, failed, bus, welcomeSeq, handler, down, up,
                   page, whole, drops, upsets, overtakes>>

\* Redis has applied the SUBSCRIBE, for a caller that still waits or does not.
SubscribeDone ==
    /\ ref = "asking" \/ sub = "asked"
    /\ sub # "lost"
    /\ sub' = "yes"
    /\ ref' = IF ref = "asking" THEN "held" ELSE ref
    /\ GoOn
    /\ UNCHANGED lapses

\* The SUBSCRIBE fails or is not answered within 5 s, and Redis may still apply it
\* later: the reference is rolled back, the error logged, and the handshake goes on.
SubscribeFails ==
    /\ ref = "asking"
    /\ \/ /\ sub \in {"asked", "yes"}
          /\ lapses < MaxLapses
          /\ lapses' = lapses + 1
          /\ sub' \in IF sub = "yes" THEN {"yes"} ELSE {"no", "asked"}
       \/ sub = "lost" /\ UNCHANGED <<sub, lapses>>
    /\ ref' = "no"
    /\ GoOn

\* The dedicated connection breaks, and every subscription with it; nobody
\* dedicates another one.
LoseDedicated ==
    /\ sub # "lost"
    /\ upsets < MaxUpsets
    /\ upsets' = upsets + 1
    /\ sub' = "lost"
    /\ bus' = << >>
    /\ early' = early \cup Registered
    /\ whole' = [t \in Tabs |-> FALSE]
    /\ UNCHANGED <<db, unpublished, failed, ref, server, down, up, page, drops, lapses,
                   overtakes>>

ReadCurrentSeq(t) ==
    /\ conn[t] = "registered"
    /\ conn' = [conn EXCEPT ![t] = "seqRead"]
    /\ welcomeSeq' = [welcomeSeq EXCEPT ![t] = lastSeq]
    /\ UNCHANGED <<db, redis, handler, down, up, page, notes, bound>>

\* A statement of a handler fails or passes its deadline.
StatementFails ==
    /\ upsets < MaxUpsets
    /\ upsets' = upsets + 1
    /\ UNCHANGED <<db, redis, down, page, drops, lapses, overtakes>>

\* A failed lookup falls through with 0.
ReadCurrentSeqFails(t) ==
    /\ conn[t] = "registered"
    /\ StatementFails
    /\ conn' = [conn EXCEPT ![t] = "seqRead"]
    /\ welcomeSeq' = [welcomeSeq EXCEPT ![t] = Unknown]
    /\ UNCHANGED <<handler, up, notes>>

\* SendFrame of a handler: a full buffer drops the frame.
Send(t, frame) ==
    down' = IF Full(t) THEN down ELSE [down EXCEPT ![t] = Append(@, frame)]

SendWelcome(t) ==
    /\ conn[t] = "seqRead"
    /\ conn' = [conn EXCEPT ![t] = "open"]
    /\ Send(t, Welcome(Larger(welcomeSeq[t], 0)))
    /\ UNCHANGED <<db, redis, welcomeSeq, handler, up, page, notes, bound>>

\* The next inbound frame is handled when the handler before it has returned.
Inbound(t, type) ==
    /\ conn[t] = "open"
    /\ handler[t] = Idle
    /\ up[t] # << >>
    /\ Head(up[t]).type = type
    /\ up' = [up EXCEPT ![t] = Tail(@)]

HandleAck(t) ==
    /\ Inbound(t, "ack")
    /\ acked' = Larger(acked, Head(up[t]).seq)
    /\ UNCHANGED <<lastSeq, redis, server, down, page, notes, bound>>

\* The acknowledgement is logged as failed; the next one may cover it.
RecordAckFails(t) ==
    /\ Inbound(t, "ack")
    /\ StatementFails
    /\ UNCHANGED <<server, notes>>

\* The ack of another tab may have moved the cursor past what t has rendered.
AckCovers(t, s) == whole' = [whole EXCEPT ![t] = @ /\ s + 1 .. acked \subseteq Has(t)]

\* Mutated: the cursor is taken for the first seq that is missing.
HandleResumeSkips(t) ==
    /\ Inbound(t, "resume")
    /\ handler' = [handler EXCEPT ![t] =
                     [step |-> "since", next |-> Larger(Head(up[t]).seq, acked) + 2, last |-> 0]]
    /\ AckCovers(t, Head(up[t]).seq)
    /\ UNCHANGED <<db, redis, conn, welcomeSeq, down, page, early, bound>>

\* handleResume starts from MAX(from_seq, acked_seq) ...
HandleResume(t) ==
    /\ Inbound(t, "resume")
    /\ handler' = [handler EXCEPT ![t] =
                     [step |-> "since", next |-> Larger(Head(up[t]).seq, acked) + 1, last |-> 0]]
    /\ AckCovers(t, Head(up[t]).seq)
    /\ UNCHANGED <<db, redis, conn, welcomeSeq, down, page, early, bound>>

\* ... or from what the client says, when acked_seq cannot be read ...
ResumeUnconfirmed(t) ==
    /\ Inbound(t, "resume")
    /\ StatementFails
    /\ handler' = [handler EXCEPT ![t] =
                     [step |-> "since", next |-> Head(up[t]).seq + 1, last |-> 0]]
    /\ UNCHANGED <<conn, welcomeSeq, notes>>

\* ... reads one page of what lies behind it ...
ReadMissed(t) ==
    LET first == handler[t].next
        last == Smaller(first - 1 + ReplayLimit, lastSeq)
    IN  /\ handler[t].step = "since"
        /\ handler' = [handler EXCEPT ![t] =
                         IF first > last THEN Idle
                         ELSE [step |-> "replay", next |-> first, last |-> last]]
        /\ whole' = [whole EXCEPT ![t] = @ /\ last >= lastSeq /\ (t \in early => sub = "yes")]
        /\ UNCHANGED <<db, redis, conn, welcomeSeq, down, up, page, early, bound>>

\* ... or gives up, and the client is not told ...
ReadMissedFails(t) ==
    /\ handler[t].step = "since"
    /\ StatementFails
    /\ handler' = [handler EXCEPT ![t] = Idle]
    /\ whole' = [whole EXCEPT ![t] = FALSE]
    /\ UNCHANGED <<conn, welcomeSeq, up, early>>

\* Mutated: what has been sent counts as acknowledged.
ReplayAcks(t) ==
    LET s == handler[t].next
    IN  /\ handler[t].step = "replay"
        /\ Send(t, Notification(s))
        /\ acked' = Larger(acked, s)
        /\ handler' = [handler EXCEPT ![t] =
                         IF s = @.last THEN Idle ELSE [@ EXCEPT !.next = s + 1]]
        /\ whole' = [whole EXCEPT ![t] = @ /\ ~Full(t)]
        /\ UNCHANGED <<lastSeq, redis, conn, welcomeSeq, up, page, early, bound>>

\* ... and sends the page frame by frame, whatever SendFrame answers.
Replay(t) ==
    LET s == handler[t].next
    IN  /\ handler[t].step = "replay"
        /\ Send(t, Notification(s))
        /\ handler' = [handler EXCEPT ![t] =
                         IF s = @.last THEN Idle ELSE [@ EXCEPT !.next = s + 1]]
        /\ whole' = [whole EXCEPT ![t] = @ /\ ~Full(t)]
        /\ UNCHANGED <<db, redis, conn, welcomeSeq, up, page, early, bound>>

\* The network breaks the connection of t: frames under way are lost, and a
\* handler that is running sends into the void.
Disconnect(t) ==
    /\ conn[t] = "open"
    /\ drops < MaxDrops
    /\ drops' = drops + 1
    /\ Gone({t})
    /\ down' = [down EXCEPT ![t] = << >>]
    /\ UNCHANGED <<db, unpublished, failed, bus, items, lastSeen, fetch, shown, past,
                   upsets, lapses, overtakes>>

-----------------------------------------------------------------------------
(* The tab *)

\* connect: the server accepts the socket before the tab knows.
Connect(t) ==
    /\ conn[t] = "none"
    /\ conn' = [conn EXCEPT ![t] = "upgraded"]
    /\ UNCHANGED <<db, redis, welcomeSeq, handler, down, up, page, notes, bound>>

\* onopen: a tab that has seen something asks to resume.
OnOpen(t) ==
    /\ conn[t] # "none"
    /\ ~opened[t]
    /\ opened' = [opened EXCEPT ![t] = TRUE]
    /\ up' = IF lastSeen[t] > 0 THEN [up EXCEPT ![t] = << Resume(lastSeen[t]) >>] ELSE up
    /\ whole' = [whole EXCEPT ![t] =
                   lastSeen[t] > 0 /\ acked <= lastSeen[t] /\ 1 .. lastSeen[t] \subseteq Has(t)]
    /\ UNCHANGED <<db, redis, server, down, items, lastSeen, fetch, shown, past, early, bound>>

\* onmessage, welcome: the server is ahead, so ask for the rest.
OnWelcome(t) ==
    /\ opened[t] /\ down[t] # << >>
    /\ Head(down[t]).type = "welcome"
    /\ down' = [down EXCEPT ![t] = Tail(@)]
    /\ up' = IF Head(down[t]).seq > lastSeen[t]
             THEN [up EXCEPT ![t] = Append(@, Resume(lastSeen[t]))] ELSE up
    /\ UNCHANGED <<db, redis, server, page, notes, bound>>

\* The list with s in front, cut to what a tab keeps.
InFront(s, list) == SubSeq(<< s >> \o list, 1, Smaller(Len(list) + 1, KeepLimit))

\* Mutated: no look at what is listed already.
ReceiveTwice(t, s) ==
    /\ items' = [items EXCEPT ![t] = InFront(s, @)]
    /\ lastSeen' = [lastSeen EXCEPT ![t] = Larger(@, s)]
    /\ shown' = [shown EXCEPT ![t] = @ \cup {s}]

\* The reducer receive drops what is already in the list.
Receive(t, s) ==
    /\ items' = IF Contains(items[t], s) THEN items
                ELSE [items EXCEPT ![t] = InFront(s, @)]
    /\ lastSeen' = IF Contains(items[t], s) THEN lastSeen
                   ELSE [lastSeen EXCEPT ![t] = Larger(@, s)]
    /\ shown' = [shown EXCEPT ![t] = @ \cup {s}]

\* onmessage, notification: render it and acknowledge its seq, new or not.
OnNotification(t) ==
    /\ opened[t] /\ down[t] # << >>
    /\ Head(down[t]).type = "notification"
    /\ down' = [down EXCEPT ![t] = Tail(@)]
    /\ Receive(t, Head(down[t]).seq)
    /\ up' = [up EXCEPT ![t] = Append(@, Ack(Head(down[t]).seq))]
    /\ UNCHANGED <<db, redis, server, opened, fetch, past, notes, bound>>

\* The initial GET /v1/notifications of the dashboard reads the list on the server ...
FetchReads(t) ==
    /\ fetch[t] = Asked
    /\ fetch' = [fetch EXCEPT ![t] = lastSeq]
    /\ UNCHANGED <<db, redis, server, down, up, opened, items, lastSeen, shown, past,
                   notes, bound>>

\* ... and its answer replaces the list of the tab, lastSeenSeq with it ...
SetInitial(t) ==
    LET k == fetch[t]
        n == Smaller(k, ListLimit)
    IN  /\ k >= 0
        /\ fetch' = [fetch EXCEPT ![t] = NotAsked]
        /\ items' = [items EXCEPT ![t] = [i \in 1 .. n |-> k + 1 - i]]
        /\ lastSeen' = [lastSeen EXCEPT ![t] = k]
        /\ shown' = [shown EXCEPT ![t] = @ \cup k - n + 1 .. k]
        /\ past' = [past EXCEPT ![t] = Larger(@, k - n)]
        /\ UNCHANGED <<db, redis, server, down, up, opened, notes, bound>>

\* ... or never comes.
FetchFails(t) ==
    /\ fetch[t] # NotAsked
    /\ upsets < MaxUpsets
    /\ upsets' = upsets + 1
    /\ fetch' = [fetch EXCEPT ![t] = NotAsked]
    /\ UNCHANGED <<db, redis, server, down, up, opened, items, lastSeen, shown, past,
                   notes, drops, lapses, overtakes>>

\* The user comes back to the dashboard from another page: it is mounted anew
\* and fetches the list again, while the socket of the app stays.
Remount(t) ==
    /\ fetch[t] = NotAsked
    /\ upsets < MaxUpsets
    /\ upsets' = upsets + 1
    /\ fetch' = [fetch EXCEPT ![t] = Asked]
    /\ UNCHANGED <<db, redis, server, down, up, opened, items, lastSeen, shown, past,
                   notes, drops, lapses, overtakes>>

\* The page is loaded anew, the dashboard or another one: nothing of its state
\* survives.
Reload(t) ==
    /\ conn[t] \in {"none", "open"}
    /\ upsets < MaxUpsets
    /\ upsets' = upsets + 1
    /\ Gone({t})
    /\ down' = [down EXCEPT ![t] = << >>]
    /\ items' = [items EXCEPT ![t] = << >>]
    /\ lastSeen' = [lastSeen EXCEPT ![t] = 0]
    /\ \E first \in {Asked, NotAsked} : fetch' = [fetch EXCEPT ![t] = first]
    /\ UNCHANGED <<db, unpublished, failed, bus, shown, past, drops, lapses, overtakes>>

-----------------------------------------------------------------------------
ServerStep(t) ==
    Register(t) \/ ReadCurrentSeq(t) \/ SendWelcome(t) \/ HandleAck(t)
        \/ HandleResume(t) \/ ReadMissed(t) \/ Replay(t)
        \/ ReadCurrentSeqFails(t) \/ RecordAckFails(t) \/ ResumeUnconfirmed(t)
        \/ ReadMissedFails(t)

TabStep(t) == Connect(t) \/ OnOpen(t) \/ OnWelcome(t) \/ OnNotification(t)

FetchStep(t) == FetchReads(t) \/ SetInitial(t) \/ FetchFails(t)

Next ==
    \/ Persist
    \/ \E s \in Seqs : Publish(s) \/ PublishFails(s)
    \/ SendToUser
    \/ SubscribeDone \/ SubscribeFails
    \/ LoseDedicated
    \/ \E t \in Tabs : ServerStep(t) \/ TabStep(t) \/ FetchStep(t)
                        \/ Disconnect(t) \/ Remount(t) \/ Reload(t)

Spec == Init /\ [][Next]_vars

\* Goroutines and the browser's event loop run, a request that has persisted
\* goes on to its publish, and a closed socket is opened again (the backoff
\* is finite).
Fairness ==
    /\ WF_vars(\E s \in Seqs : Publish(s) \/ PublishFails(s))
    /\ WF_vars(SendToUser)
    /\ WF_vars(SubscribeDone \/ SubscribeFails)
    /\ \A t \in Tabs : WF_vars(ServerStep(t)) /\ WF_vars(TabStep(t)) /\ WF_vars(FetchStep(t))

FairSpec == Spec /\ Fairness

-----------------------------------------------------------------------------
(* Properties *)

Phases == {"none", "upgraded", "subscribing", "registered", "seqRead", "open"}
Handlers == [step : {"idle", "since", "replay"}, next : 0 .. MaxSeq + 1, last : 0 .. MaxSeq]
Frames == [type : {"notification", "welcome", "ack", "resume"}, seq : 0 .. MaxSeq]

\* Buffers, counters and the phases of the handlers range over what
\* connection.go, server.go and the client's store declare.
TypeOK ==
    /\ lastSeq \in 0 .. MaxSeq /\ acked \in 0 .. MaxSeq
    /\ unpublished \subseteq Seqs /\ failed \subseteq Seqs
    /\ sub \in {"no", "asked", "yes", "lost"} /\ ref \in {"no", "asking", "held"}
    /\ bus \in Seq(Seqs)
    /\ conn \in [Tabs -> Phases]
    /\ welcomeSeq \in [Tabs -> Unknown .. MaxSeq]
    /\ handler \in [Tabs -> Handlers]
    /\ down \in [Tabs -> Seq(Frames)] /\ up \in [Tabs -> Seq(Frames)]
    /\ \A t \in Tabs : Len(down[t]) <= OutBuf
    /\ opened \in [Tabs -> BOOLEAN]
    /\ items \in [Tabs -> Seq(Seqs)]
    /\ lastSeen \in [Tabs -> 0 .. MaxSeq]
    /\ fetch \in [Tabs -> NotAsked .. MaxSeq]
    /\ shown \in [Tabs -> SUBSET Seqs] /\ past \in [Tabs -> 0 .. MaxSeq]
    /\ whole \in [Tabs -> BOOLEAN] /\ early \subseteq Tabs

\* Seq s is on its way to tab t as a live notification.
Live(t, s) ==
    \/ s \in unpublished
    \/ Contains(bus, s)
    \/ Contains(down[t], Notification(s))

\* Seq s is covered by a resume that has not been served to the end.
Requested(t, s) ==
    \/ \E i \in DOMAIN up[t] : up[t][i].type = "resume" /\ up[t][i].seq < s
    \/ handler[t].step = "since" /\ handler[t].next <= s
    \/ handler[t].step = "replay" /\ s \in handler[t].next .. handler[t].last

\* What is committed after handleUpgrade has read current_seq reaches the
\* connection live: the subscription is in place before the read, so no
\* notification can fall between the welcome frame and the first live one
\* (redis/pubsub.go: sequence recovery handles what the SUBSCRIBE RTT misses).  A
\* handshake whose read failed has no current_seq to promise; one that goes on
\* beside a SUBSCRIBE of another tab, after a SUBSCRIBE that failed, or without
\* the dedicated connection is early.
HandshakeClosesWindow ==
    \A t \in Tabs \ early : conn[t] \in {"seqRead", "open"} /\ welcomeSeq[t] # Unknown =>
        \A s \in welcomeSeq[t] + 1 .. lastSeq :
            s \in failed \/ s \in shown[t] \/ Live(t, s)

\* A tab that reconnects without a gap keeps none while the connection lives:
\* each seq the user has is shown, under way live, or covered by the resume
\* the tab sent in onopen, in whatever order acks, live frames and the replay
\* meet.  (Until a replay is cut by the page limit or by a full buffer, is read
\* while the channel is not routed, or the dedicated connection is lost; what is
\* older than the initial list is not counted.)
NothingLostWhileConnected ==
    \A t \in Tabs : conn[t] # "none" /\ whole[t] =>
        \A s \in past[t] + 1 .. lastSeq :
            s \in failed \/ s \in shown[t] \/ Live(t, s) \/ Requested(t, s)

\* The acknowledged seq is one some tab has rendered (server.go, handleAck:
\* the client's claim that it has rendered it).
AckedWasShown ==
    acked > 0 => \E t \in Tabs : acked \in shown[t]

\* A tab lists no notification twice, although the replay overlaps the live
\* stream, pages are read twice and the initial list is loaded in between.
NoDuplicates ==
    \A t \in Tabs : IsInjective(items[t])

\* After a reconnect the cursor of a resume is at most the last seq the tab has
\* rendered, and everything the tab lists is at or below it.
CursorCoversItems ==
    \A t \in Tabs :
        /\ \A i \in DOMAIN items[t] : items[t][i] <= lastSeen[t]
        /\ lastSeen[t] > 0 => lastSeen[t] \in shown[t]

\* The list of a tab and its resume cursor agree with each other and with what
\* the tab has rendered.
ListAgrees == NoDuplicates /\ CursorCoversItems

\* On a connection that started without a gap and is never broken, every
\* notification whose publish succeeds is rendered.
ConnectedTabCatchesUp ==
    \A t \in Tabs : \A s \in Seqs :
        (conn[t] = "open" /\ whole[t] /\ s <= lastSeq)
            ~> (s \in Has(t) \/ s \in failed \/ conn[t] = "none" \/ ~whole[t])

-----------------------------------------------------------------------------
(* When all is quiet *)

\* Every tab is connected and nothing is under way.
Quiet ==
    /\ unpublished = {} /\ bus = << >>
    /\ \A t \in Tabs : /\ conn[t] = "open" /\ opened[t] /\ handler[t] = Idle
                       /\ down[t] = << >> /\ up[t] = << >>
                       /\ fetch[t] = NotAsked

\* Sequence recovery, in the README: no message is lost across disconnects.
NoLossAcrossDisconnects ==
    Quiet /\ drops > 0 => \A t \in Tabs : 1 .. lastSeq \subseteq shown[t]
=============================================================================
