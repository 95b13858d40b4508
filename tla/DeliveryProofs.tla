----------------------------- MODULE DeliveryProofs -----------------------------
(***************************************************************************)
(* What holds on the way from the commit to the tabs for any number of     *)
(* tabs and notifications, any buffer and page size.  IInv adds to the     *)
(* invariants of the run what is on the wire of a tab, when its channel is *)
(* routed, and what a whole connection knows at each stage of its resume.  *)
(* A first part reduces Next to the few ways in which each variable can    *)
(* change; the invariants are about tabs and use that part.                *)
(***************************************************************************)
EXTENDS Delivery, SequenceTheorems, TLAPS

\* The tab need not ask for s any more.
Reaches(t, s) == s \in failed \/ s \in shown[t] \/ Live(t, s)

\* A notification on the wire, or in a replay, has a seq of the log.
WireInv ==
    \A t \in Tabs :
        /\ \A i \in 1 .. Len(down[t]) : down[t][i].type = "notification" => down[t][i].seq >= 1
        /\ handler[t].step # "idle" => handler[t].next >= 1 /\ conn[t] = "open"
        /\ handler[t].step = "replay" =>
              handler[t].next <= handler[t].last /\ handler[t].last <= lastSeq

\* A tab acknowledges what it has rendered.
AckInv ==
    \A t \in Tabs : \A i \in 1 .. Len(up[t]) :
        up[t][i].type = "ack" => up[t][i].seq \in shown[t]

\* The channel is routed for whoever is past Register, unless it went on without.
SubInv ==
    \A t \in Tabs :
        conn[t] \in {"registered", "seqRead", "open"} => sub = "yes" \/ t \in early

\* A whole connection has its resume in front of everything else it sends, ...
Asking(t) ==
    /\ up[t] # << >> /\ up[t][1].type = "resume"
    /\ 1 .. up[t][1].seq \subseteq Has(t)

\* ... or being looked up, ...
LookedUp(t) ==
    /\ handler[t].step = "since"
    /\ 1 .. handler[t].next - 1 \subseteq Has(t)

\* ... or answered, and from then on everything reaches the tab.
Answered(t) ==
    /\ conn[t] = "open" /\ sub = "yes"
    /\ \A s \in 1 .. lastSeq :
          \/ s \in Has(t) \/ Reaches(t, s)
          \/ handler[t].step = "replay" /\ s \in handler[t].next .. handler[t].last

WholeInv ==
    \A t \in Tabs : whole[t] => conn[t] # "none" /\ (Asking(t) \/ LookedUp(t) \/ Answered(t))

IInv ==
    /\ TypeOK /\ WireInv /\ AckInv /\ AckedWasShown /\ ListAgrees
    /\ SubInv /\ HandshakeClosesWindow /\ WholeInv

-----------------------------------------------------------------------------
(* Frames, handlers and sequences *)

\* What a frame is made of, for the four frames there are.
LEMMA FrameFields ==
    /\ \A f \in Frames : f.seq \in 0 .. MaxSeq
    /\ \A s \in 0 .. MaxSeq :
          /\ Notification(s) \in Frames /\ Notification(s).type = "notification"
          /\ Welcome(s) \in Frames /\ Welcome(s).type = "welcome"
          /\ Ack(s) \in Frames /\ Ack(s).type = "ack"
          /\ Resume(s) \in Frames /\ Resume(s).type = "resume"
    /\ \A s : /\ Notification(s).seq = s /\ Welcome(s).seq = s
              /\ Ack(s).seq = s /\ Resume(s).seq = s
BY DEF Frames, Notification, Welcome, Ack, Resume

\* A frame that says it is a notification is one.
LEMMA NotificationIs ==
    ASSUME NEW f \in Frames, f.type = "notification"
    PROVE  f = Notification(f.seq)
BY DEF Frames, Notification

\* What the state of handleResume is made of.
LEMMA HandlerFields ==
    /\ \A h \in Handlers : /\ h.step \in {"idle", "since", "replay"}
                           /\ h.next \in 0 .. MaxSeq + 1
                           /\ h.last \in 0 .. MaxSeq
    /\ \A a \in {"since", "replay"}, n \in 0 .. MaxSeq + 1, l \in 0 .. MaxSeq :
          [step |-> a, next |-> n, last |-> l] \in Handlers
    /\ \A h \in Handlers, n \in 0 .. MaxSeq + 1 :
          /\ [h EXCEPT !.next = n] \in Handlers
          /\ [h EXCEPT !.next = n].step = h.step
          /\ [h EXCEPT !.next = n].next = n
          /\ [h EXCEPT !.next = n].last = h.last
    /\ Idle.step = "idle"
<1>1. MaxSeq \in Nat
    BY BoundsAssumption
<1> QED  BY <1>1 DEF Handlers, Idle

LEMMA IdleIsHandler == Idle \in Handlers
<1>1. MaxSeq \in Nat
    BY BoundsAssumption
<1> QED  BY <1>1 DEF Handlers, Idle

\* What Append does to a queue: the old positions, and the new one.
LEMMA AppendAtEnd ==
    ASSUME NEW S, NEW q \in Seq(S), NEW e \in S
    PROVE  /\ Append(q, e) \in Seq(S) /\ Append(q, e) # << >>
           /\ Len(q) \in Nat /\ Len(Append(q, e)) = Len(q) + 1
           /\ \A i \in 1 .. Len(q) : Append(q, e)[i] = q[i]
           /\ Append(q, e)[Len(q) + 1] = e
           /\ Contains(Append(q, e), e)
           /\ \A x : Contains(q, x) => Contains(Append(q, e), x)
<1>1. /\ Append(q, e) \in Seq(S)
      /\ Len(q) \in Nat /\ Len(Append(q, e)) = Len(q) + 1
      /\ \A i \in 1 .. Len(q) : Append(q, e)[i] = q[i]
      /\ Append(q, e)[Len(q) + 1] = e
    OBVIOUS
<1>2. Append(q, e) # << >>
    BY <1>1
<1>3. Contains(Append(q, e), e)
    <2>1. Len(q) + 1 \in 1 .. Len(Append(q, e))
        BY <1>1
    <2> QED  BY <1>1, <2>1 DEF Contains
<1>4. ASSUME NEW x, Contains(q, x)  PROVE Contains(Append(q, e), x)
    <2>1. PICK i \in 1 .. Len(q) : q[i] = x
        BY <1>4 DEF Contains
    <2>2. i \in 1 .. Len(Append(q, e)) /\ Append(q, e)[i] = x
        BY <1>1, <2>1
    <2> QED  BY <2>2 DEF Contains
<1> QED  BY <1>1, <1>2, <1>3, <1>4

\* What Tail does to a queue: every element but the head is still in it.
LEMMA TailOfQueue ==
    ASSUME NEW S, NEW q \in Seq(S), q # << >>
    PROVE  /\ Tail(q) \in Seq(S) /\ Head(q) \in S /\ Head(q) = q[1]
           /\ Len(q) \in Nat \ {0} /\ Len(Tail(q)) = Len(q) - 1
           /\ \A i \in 1 .. Len(Tail(q)) : i + 1 \in 1 .. Len(q) /\ Tail(q)[i] = q[i + 1]
           /\ \A x : Contains(q, x) => x = Head(q) \/ Contains(Tail(q), x)
<1>1. /\ Tail(q) \in Seq(S) /\ Head(q) \in S
      /\ Len(Tail(q)) = Len(q) - 1
      /\ \A i \in 1 .. Len(Tail(q)) : Tail(q)[i] = q[i + 1]
    BY HeadTailProperties
<1>2. Len(q) \in Nat \ {0}
    BY EmptySeq
<1>3. Head(q) = q[1]
    OBVIOUS
<1>4. \A i \in 1 .. Len(Tail(q)) : i + 1 \in 1 .. Len(q)
    BY <1>1, <1>2
<1>5. ASSUME NEW x, Contains(q, x), x # Head(q)  PROVE Contains(Tail(q), x)
    <2>1. PICK i \in 1 .. Len(q) : q[i] = x
        BY <1>5 DEF Contains
    <2>2. i # 1
        BY <1>3, <1>5, <2>1
    <2>3. i - 1 \in 1 .. Len(Tail(q)) /\ (i - 1) + 1 = i
        BY <1>1, <1>2, <2>1, <2>2
    <2>4. Tail(q)[i - 1] = x
        BY <1>1, <2>1, <2>3
    <2> QED  BY <2>3, <2>4 DEF Contains
<1> QED  BY <1>1, <1>2, <1>3, <1>4, <1>5

-----------------------------------------------------------------------------
(* Which steps write a variable *)

\* The senders and the pub-sub hook write what is behind the connections.
LEMMA LogWriters ==
    ASSUME [Next]_vars
    PROVE  \/ UNCHANGED <<lastSeq, unpublished, failed, bus>>
           \/ Persist \/ SendToUser \/ LoseDedicated
           \/ \E s \in Seqs : Publish(s) \/ PublishFails(s)
<1>1. CASE SubscribeDone \/ SubscribeFails \/ UNCHANGED vars
    BY <1>1 DEF SubscribeDone, SubscribeFails, GoOn, vars, db, redis
<1>2. ASSUME NEW t \in Tabs, ServerStep(t)
      PROVE  UNCHANGED <<lastSeq, unpublished, failed, bus>>
    BY <1>2 DEF ServerStep, StatementFails, db, redis, Register, ReadCurrentSeq,
        ReadCurrentSeqFails, SendWelcome, HandleAck, RecordAckFails, HandleResume,
        ResumeUnconfirmed, ReadMissed, ReadMissedFails, Replay
<1>3. ASSUME NEW t \in Tabs,
             TabStep(t) \/ FetchStep(t) \/ Disconnect(t) \/ Remount(t) \/ Reload(t)
      PROVE  UNCHANGED <<lastSeq, unpublished, failed, bus>>
    BY <1>3 DEF TabStep, FetchStep, db, redis, Disconnect, Connect, OnOpen, OnWelcome,
        OnNotification, FetchReads, SetInitial, FetchFails, Remount, Reload
<1> QED  BY <1>1, <1>2, <1>3 DEF Next

\* One handler writes the resume cursor.
LEMMA AckedWriters ==
    ASSUME [Next]_vars
    PROVE  acked' = acked \/ \E t \in Tabs : HandleAck(t)
<1>1. CASE \/ Persist \/ (\E s \in Seqs : Publish(s) \/ PublishFails(s)) \/ SendToUser
           \/ SubscribeDone \/ SubscribeFails \/ LoseDedicated \/ UNCHANGED vars
    BY <1>1 DEF Persist, Publish, PublishFails, SendToUser, SubscribeDone, SubscribeFails,
        GoOn, LoseDedicated, vars, db
<1>2. ASSUME NEW t \in Tabs, ServerStep(t), ~HandleAck(t)  PROVE acked' = acked
    BY <1>2 DEF ServerStep, StatementFails, db, Register, ReadCurrentSeq,
        ReadCurrentSeqFails, SendWelcome, RecordAckFails, HandleResume,
        ResumeUnconfirmed, ReadMissed, ReadMissedFails, Replay
<1>3. ASSUME NEW t \in Tabs,
             TabStep(t) \/ FetchStep(t) \/ Disconnect(t) \/ Remount(t) \/ Reload(t)
      PROVE  acked' = acked
    BY <1>3 DEF TabStep, FetchStep, db, Disconnect, Connect, OnOpen, OnWelcome,
        OnNotification, FetchReads, SetInitial, FetchFails, Remount, Reload
<1> QED  BY <1>1, <1>2, <1>3 DEF Next

\* Connections, and the subscription with them, change in the upgrade and at the end.
LEMMA ServerWriters ==
    ASSUME [Next]_vars
    PROVE  \/ UNCHANGED <<sub, ref, conn, welcomeSeq, early>> \/ SendToUser
           \/ SubscribeDone \/ SubscribeFails \/ LoseDedicated
           \/ \E t \in Tabs : \/ Register(t) \/ ReadCurrentSeq(t) \/ ReadCurrentSeqFails(t)
                              \/ SendWelcome(t) \/ Disconnect(t) \/ Connect(t) \/ Reload(t)
<1>1. CASE Persist \/ (\E s \in Seqs : Publish(s) \/ PublishFails(s)) \/ UNCHANGED vars
    BY <1>1 DEF Persist, Publish, PublishFails, vars, redis, server, notes
<1>2. ASSUME NEW t \in Tabs,
             \/ HandleAck(t) \/ RecordAckFails(t) \/ HandleResume(t) \/ ResumeUnconfirmed(t)
             \/ ReadMissed(t) \/ ReadMissedFails(t) \/ Replay(t)
      PROVE  UNCHANGED <<sub, ref, conn, welcomeSeq, early>>
    BY <1>2 DEF HandleAck, RecordAckFails, HandleResume, ResumeUnconfirmed, ReadMissed,
        ReadMissedFails, Replay, StatementFails, redis, server, notes
<1>3. ASSUME NEW t \in Tabs,
             OnOpen(t) \/ OnWelcome(t) \/ OnNotification(t) \/ FetchStep(t) \/ Remount(t)
      PROVE  UNCHANGED <<sub, ref, conn, welcomeSeq, early>>
    BY <1>3 DEF OnOpen, OnWelcome, OnNotification, FetchStep, FetchReads, SetInitial,
        FetchFails, Remount, redis, server, notes
<1> QED  BY <1>1, <1>2, <1>3 DEF Next, ServerStep, TabStep

\* The steps of handleResume.
LEMMA HandlerWriters ==
    ASSUME [Next]_vars
    PROVE  \/ handler' = handler \/ SendToUser
           \/ \E t \in Tabs : \/ HandleResume(t) \/ ResumeUnconfirmed(t) \/ ReadMissed(t)
                              \/ ReadMissedFails(t) \/ Replay(t) \/ Disconnect(t) \/ Reload(t)
BY DEF Next, ServerStep, TabStep, FetchStep, vars, StatementFails, server, Persist,
       Publish, PublishFails, SubscribeDone, SubscribeFails, GoOn, LoseDedicated, Register, ReadCurrentSeq,
       ReadCurrentSeqFails, SendWelcome, HandleAck, RecordAckFails, Connect, OnOpen,
       OnWelcome, OnNotification, FetchReads, SetInitial, FetchFails, Remount

\* Who sends to a tab, and who takes from what was sent.
LEMMA DownWriters ==
    ASSUME [Next]_vars
    PROVE  \/ down' = down \/ SendToUser
           \/ \E t \in Tabs : \/ SendWelcome(t) \/ Replay(t) \/ Disconnect(t) \/ Reload(t)
                              \/ OnWelcome(t) \/ OnNotification(t)
BY DEF Next, ServerStep, TabStep, FetchStep, vars, StatementFails, Persist, Publish,
       PublishFails, SubscribeDone, SubscribeFails, GoOn, LoseDedicated, Register,
       ReadCurrentSeq, ReadCurrentSeqFails, HandleAck, RecordAckFails, HandleResume, ResumeUnconfirmed, ReadMissed,
       ReadMissedFails, Connect, OnOpen, FetchReads, SetInitial, FetchFails, Remount

\* Who sends to the server, and who takes from what was sent.
LEMMA UpWriters ==
    ASSUME [Next]_vars
    PROVE  \/ up' = up \/ SendToUser
           \/ \E t \in Tabs : \/ HandleAck(t) \/ RecordAckFails(t)
                              \/ HandleResume(t) \/ ResumeUnconfirmed(t)
                              \/ Disconnect(t) \/ Reload(t) \/ OnOpen(t) \/ OnWelcome(t)
                              \/ OnNotification(t)
BY DEF Next, ServerStep, TabStep, FetchStep, vars, StatementFails, Persist, Publish,
       PublishFails, SubscribeDone, SubscribeFails, GoOn, LoseDedicated, Register,
       ReadCurrentSeq, ReadCurrentSeqFails, SendWelcome, ReadMissed, ReadMissedFails, Replay, Connect, FetchReads, SetInitial,
       FetchFails, Remount

\* The reducers of the store write the list.
LEMMA ListWriters ==
    ASSUME [Next]_vars
    PROVE  \/ UNCHANGED <<items, lastSeen, shown, past>>
           \/ \E t \in Tabs : OnNotification(t) \/ SetInitial(t) \/ Reload(t)
<1>1. CASE \/ Persist \/ (\E s \in Seqs : Publish(s) \/ PublishFails(s)) \/ SendToUser
           \/ SubscribeDone \/ SubscribeFails \/ LoseDedicated \/ UNCHANGED vars
    BY <1>1 DEF Persist, Publish, PublishFails, SendToUser, SubscribeDone, SubscribeFails,
        GoOn, LoseDedicated, vars, page
<1>2. ASSUME NEW t \in Tabs, ServerStep(t) \/ Disconnect(t)
      PROVE  UNCHANGED <<items, lastSeen, shown, past>>
    BY <1>2 DEF ServerStep, StatementFails, page, Register, ReadCurrentSeq,
        ReadCurrentSeqFails, SendWelcome, HandleAck, RecordAckFails, HandleResume,
        ResumeUnconfirmed, ReadMissed, ReadMissedFails, Replay, Disconnect
<1>3. ASSUME NEW t \in Tabs,
             \/ Connect(t) \/ OnOpen(t) \/ OnWelcome(t)
             \/ FetchReads(t) \/ FetchFails(t) \/ Remount(t)
      PROVE  UNCHANGED <<items, lastSeen, shown, past>>
    BY <1>3 DEF Connect, OnOpen, OnWelcome, FetchReads, FetchFails, Remount, page
<1> QED  BY <1>1, <1>2, <1>3 DEF Next, TabStep, FetchStep

\* The socket's callbacks and the dashboard write the rest of the page.
LEMMA PageWriters ==
    ASSUME [Next]_vars
    PROVE  \/ UNCHANGED <<opened, fetch>> \/ SendToUser
           \/ \E t \in Tabs : \/ OnOpen(t) \/ Disconnect(t) \/ FetchReads(t) \/ SetInitial(t)
                              \/ FetchFails(t) \/ Remount(t) \/ Reload(t)
<1>1. CASE \/ Persist \/ (\E s \in Seqs : Publish(s) \/ PublishFails(s))
           \/ SubscribeDone \/ SubscribeFails \/ LoseDedicated \/ UNCHANGED vars
    BY <1>1 DEF Persist, Publish, PublishFails, SubscribeDone, SubscribeFails, GoOn,
        LoseDedicated, vars, page
<1>2. ASSUME NEW t \in Tabs, ServerStep(t)
      PROVE  UNCHANGED <<opened, fetch>>
    BY <1>2 DEF ServerStep, StatementFails, page, Register, ReadCurrentSeq,
        ReadCurrentSeqFails, SendWelcome, HandleAck, RecordAckFails, HandleResume,
        ResumeUnconfirmed, ReadMissed, ReadMissedFails, Replay
<1>3. ASSUME NEW t \in Tabs, Connect(t) \/ OnWelcome(t) \/ OnNotification(t)
      PROVE  UNCHANGED <<opened, fetch>>
    BY <1>3 DEF Connect, OnWelcome, OnNotification, page
<1> QED  BY <1>1, <1>2, <1>3 DEF Next, TabStep, FetchStep

\* A connection without gaps begins with onopen; a step of its resume, its end or
\* the loss of the dedicated connection ends it.
LEMMA WholeWriters ==
    ASSUME [Next]_vars
    PROVE  \/ whole' = whole \/ SendToUser \/ LoseDedicated
           \/ \E t \in Tabs : \/ HandleResume(t) \/ ReadMissed(t) \/ ReadMissedFails(t)
                              \/ Replay(t) \/ OnOpen(t) \/ Disconnect(t) \/ Reload(t)
<1>1. CASE \/ Persist \/ (\E s \in Seqs : Publish(s) \/ PublishFails(s))
           \/ SubscribeDone \/ SubscribeFails \/ UNCHANGED vars
    BY <1>1 DEF Persist, Publish, PublishFails, SubscribeDone, SubscribeFails, GoOn, vars,
        notes
<1>2. ASSUME NEW t \in Tabs,
             \/ Register(t) \/ ReadCurrentSeq(t) \/ ReadCurrentSeqFails(t) \/ SendWelcome(t)
             \/ HandleAck(t) \/ RecordAckFails(t) \/ ResumeUnconfirmed(t)
      PROVE  whole' = whole
    BY <1>2 DEF Register, ReadCurrentSeq, ReadCurrentSeqFails, SendWelcome, HandleAck,
        RecordAckFails, ResumeUnconfirmed, StatementFails, notes
<1>3. ASSUME NEW t \in Tabs,
             Connect(t) \/ OnWelcome(t) \/ OnNotification(t) \/ FetchStep(t) \/ Remount(t)
      PROVE  whole' = whole
    BY <1>3 DEF Connect, OnWelcome, OnNotification, FetchStep, FetchReads, SetInitial,
        FetchFails, Remount, notes
<1> QED  BY <1>1, <1>2, <1>3 DEF Next, ServerStep, TabStep

-----------------------------------------------------------------------------
(* Types *)

\* The bounds of buffers, counters and phases, as the steps need them.
LEMMA Bounds ==
    /\ MaxSeq \in Nat /\ OutBuf \in Nat \ {0} /\ ReplayLimit \in Nat \ {0}
    /\ ListLimit \in Nat \ {0} /\ KeepLimit \in Nat \ {0}
    /\ Seqs = 1 .. MaxSeq
BY BoundsAssumption, BufferAssumption DEF Seqs

LEMMA LogTypes ==
    ASSUME TypeOK, [Next]_vars
    PROVE  /\ lastSeq' \in 0 .. MaxSeq /\ unpublished' \subseteq Seqs /\ failed' \subseteq Seqs
           /\ bus' \in Seq(Seqs)
<1>1. /\ lastSeq \in 0 .. MaxSeq /\ unpublished \subseteq Seqs /\ failed \subseteq Seqs
      /\ bus \in Seq(Seqs)
    BY DEF TypeOK
<1>2. CASE Persist
    BY <1>1, <1>2, Bounds DEF Persist
<1>3. ASSUME NEW s \in Seqs, Publish(s)  PROVE bus' \in Seq(Seqs)
    <2>1. bus' = Append(bus, s) \/ bus' = bus
        BY <1>3 DEF Publish
    <2> QED  BY <1>1, <2>1, AppendAtEnd
<1>4. ASSUME NEW s \in Seqs, Publish(s)
      PROVE  lastSeq' = lastSeq /\ unpublished' \subseteq unpublished /\ failed' = failed
    BY <1>4 DEF Publish, db
<1>5. ASSUME NEW s \in Seqs, PublishFails(s)
      PROVE  /\ lastSeq' = lastSeq /\ unpublished' \subseteq unpublished
             /\ failed' \subseteq failed \cup {s} /\ bus' = bus
    BY <1>5 DEF PublishFails, db
<1>8. ASSUME LoseDedicated
      PROVE  /\ lastSeq' = lastSeq /\ unpublished' = unpublished /\ failed' = failed
             /\ bus' \in Seq(Seqs)
    BY <1>8, EmptySeq DEF LoseDedicated, db
<1>6. ASSUME SendToUser  PROVE bus' \in Seq(Seqs)
    <2>1. bus # << >> /\ bus' = Tail(bus)
        BY <1>6 DEF SendToUser
    <2> QED  BY <1>1, <2>1, TailOfQueue
<1>7. ASSUME SendToUser
      PROVE  lastSeq' = lastSeq /\ unpublished' = unpublished /\ failed' = failed
    BY <1>7 DEF SendToUser, db
<1> QED  BY <1>1, <1>2, <1>3, <1>4, <1>5, <1>6, <1>7, <1>8, LogWriters

LEMMA ServerTypes ==
    ASSUME TypeOK, [Next]_vars
    PROVE  /\ sub' \in {"no", "asked", "yes", "lost"} /\ ref' \in {"no", "asking", "held"}
           /\ conn' \in [Tabs -> Phases] /\ welcomeSeq' \in [Tabs -> Unknown .. MaxSeq]
           /\ early' \subseteq Tabs
<1> DEFINE SubTyped == sub' \in {"no", "asked", "yes", "lost"} /\ ref' \in {"no", "asking", "held"}
<1>1. /\ lastSeq \in 0 .. MaxSeq /\ early \subseteq Tabs
      /\ sub \in {"no", "asked", "yes", "lost"} /\ ref \in {"no", "asking", "held"}
      /\ conn \in [Tabs -> Phases] /\ welcomeSeq \in [Tabs -> Unknown .. MaxSeq]
    BY DEF TypeOK
<1>2. ASSUME NEW T, Gone(T)
      PROVE  /\ SubTyped /\ conn' \in [Tabs -> Phases] /\ early' \subseteq Tabs
             /\ welcomeSeq' \in [Tabs -> Unknown .. MaxSeq]
    <2>1. SubTyped /\ conn' \in [Tabs -> Phases] /\ early' \subseteq Tabs
        BY <1>1, <1>2 DEF Gone, Phases
    <2>2. welcomeSeq' \in [Tabs -> Unknown .. MaxSeq]
        BY <1>1, <1>2, Bounds DEF Gone, Unknown
    <2> QED  BY <2>1, <2>2
<1>3. ASSUME SendToUser \/ \E t \in Tabs : Disconnect(t) \/ Reload(t)  PROVE \E T : Gone(T)
    BY <1>3 DEF SendToUser, Disconnect, Reload
<1>4. CASE SubscribeDone \/ SubscribeFails
    BY <1>1, <1>4 DEF SubscribeDone, SubscribeFails, GoOn, Waiting, Phases
<1>5. CASE LoseDedicated
    BY <1>1, <1>5 DEF LoseDedicated, Registered, server
<1>6. ASSUME NEW t \in Tabs, Register(t)
      PROVE  /\ SubTyped /\ conn' \in [Tabs -> Phases]
             /\ welcomeSeq' = welcomeSeq /\ early' \subseteq Tabs
    BY <1>1, <1>6 DEF Register, Ask, Phases
<1>7. ASSUME NEW t \in Tabs, ReadCurrentSeq(t) \/ ReadCurrentSeqFails(t)
      PROVE  /\ sub' = sub /\ ref' = ref /\ early' = early /\ conn' \in [Tabs -> Phases]
             /\ welcomeSeq' \in [Tabs -> Unknown .. MaxSeq]
    BY <1>1, <1>7, Bounds
       DEF ReadCurrentSeq, ReadCurrentSeqFails, StatementFails, Phases, Unknown, redis, notes
<1>8. ASSUME NEW t \in Tabs, SendWelcome(t) \/ Connect(t)
      PROVE  /\ UNCHANGED <<sub, ref, welcomeSeq, early>> /\ conn' \in [Tabs -> Phases]
    BY <1>1, <1>8 DEF SendWelcome, Connect, Phases, redis, notes
<1> QED  BY <1>1, <1>2, <1>3, <1>4, <1>5, <1>6, <1>7, <1>8, ServerWriters

LEMMA HandlerTypes ==
    ASSUME TypeOK, WireInv, [Next]_vars  PROVE handler' \in [Tabs -> Handlers]
<1>1. /\ handler \in [Tabs -> Handlers] /\ up \in [Tabs -> Seq(Frames)]
      /\ lastSeq \in 0 .. MaxSeq /\ acked \in 0 .. MaxSeq
    BY DEF TypeOK
<1>2. ASSUME NEW t \in Tabs, NEW h \in Handlers, handler' = [handler EXCEPT ![t] = h]
      PROVE  handler' \in [Tabs -> Handlers]
    BY <1>1, <1>2
<1>3. ASSUME NEW T, Gone(T)  PROVE handler' \in [Tabs -> Handlers]
    BY <1>1, <1>3, IdleIsHandler DEF Gone
<1>4. ASSUME SendToUser \/ \E t \in Tabs : Disconnect(t) \/ Reload(t)  PROVE \E T : Gone(T)
    BY <1>4 DEF SendToUser, Disconnect, Reload
<1>5. ASSUME NEW t \in Tabs, HandleResume(t) \/ ResumeUnconfirmed(t)
      PROVE  handler' \in [Tabs -> Handlers]
    <2>1. up[t] # << >>
        BY <1>5 DEF HandleResume, ResumeUnconfirmed, Inbound
    <2>2. Head(up[t]).seq \in 0 .. MaxSeq
        BY <1>1, <2>1, TailOfQueue, FrameFields
    <2>3. Larger(Head(up[t]).seq, acked) + 1 \in 0 .. MaxSeq + 1
        BY <1>1, <2>2, Bounds DEF Larger
    <2>4. Head(up[t]).seq + 1 \in 0 .. MaxSeq + 1 /\ 0 \in 0 .. MaxSeq
        BY <2>2, Bounds
    <2>5. \A n \in 0 .. MaxSeq + 1 : [step |-> "since", next |-> n, last |-> 0] \in Handlers
        BY <2>4, HandlerFields
    <2>6. CASE HandleResume(t)
        BY <1>2, <2>3, <2>5, <2>6 DEF HandleResume
    <2>7. CASE ResumeUnconfirmed(t)
        BY <1>2, <2>4, <2>5, <2>7 DEF ResumeUnconfirmed
    <2> QED  BY <1>5, <2>6, <2>7
<1>6. ASSUME NEW t \in Tabs, ReadMissed(t)  PROVE handler' \in [Tabs -> Handlers]
    <2> DEFINE first == handler[t].next
               last == Smaller(first - 1 + ReplayLimit, lastSeq)
    <2>1. handler' = [handler EXCEPT ![t] = IF first > last THEN Idle
                        ELSE [step |-> "replay", next |-> first, last |-> last]]
        BY <1>6 DEF ReadMissed
    <2>2. first \in 0 .. MaxSeq + 1
        BY <1>1, HandlerFields
    <2>3. first <= last => last \in 0 .. MaxSeq
        BY <1>1, <2>2, Bounds DEF Smaller
    <2>4. last \in Int
        BY <1>1, <2>2, Bounds DEF Smaller
    <2> HIDE DEF first, last
    <2>5. CASE first > last
        BY <1>2, <2>1, <2>5, IdleIsHandler
    <2>6. CASE first <= last
        <3>1. [step |-> "replay", next |-> first, last |-> last] \in Handlers
            BY <2>2, <2>3, <2>6, HandlerFields
        <3>2. ~(first > last)
            BY <1>1, <2>2, <2>4, <2>6, Bounds
        <3> QED  BY <1>2, <2>1, <3>1, <3>2
    <2> QED  BY <2>2, <2>4, <2>5, <2>6
<1>7. ASSUME NEW t \in Tabs, ReadMissedFails(t)  PROVE handler' \in [Tabs -> Handlers]
    BY <1>2, <1>7, IdleIsHandler DEF ReadMissedFails
<1>8. ASSUME NEW t \in Tabs, Replay(t)  PROVE handler' \in [Tabs -> Handlers]
    <2> DEFINE h == handler[t]
    <2>1. handler' = [handler EXCEPT ![t] = IF h.next = h.last THEN Idle
                                            ELSE [h EXCEPT !.next = h.next + 1]]
        BY <1>1, <1>8 DEF Replay
    <2>2. h \in Handlers /\ h.next <= h.last
        BY <1>1, <1>8 DEF Replay, WireInv
    <2>3. h.next # h.last => h.next + 1 \in 0 .. MaxSeq + 1
        BY <2>2, HandlerFields, Bounds
    <2> HIDE DEF h
    <2> QED  BY <1>2, <2>1, <2>2, <2>3, HandlerFields, IdleIsHandler
<1> QED  BY <1>1, <1>3, <1>4, <1>5, <1>6, <1>7, <1>8, HandlerWriters

\* The queue of one tab changes, for another sequence of frames.
LEMMA QueueTyped ==
    ASSUME NEW f \in [Tabs -> Seq(Frames)], NEW t \in Tabs, NEW q \in Seq(Frames)
    PROVE  [f EXCEPT ![t] = q] \in [Tabs -> Seq(Frames)]
OBVIOUS

LEMMA DownTypes ==
    ASSUME TypeOK, WireInv, [Next]_vars
    PROVE  /\ down' \in [Tabs -> Seq(Frames)]
           /\ \A t \in Tabs : Len(down'[t]) <= OutBuf
<1>1. /\ down \in [Tabs -> Seq(Frames)] /\ bus \in Seq(Seqs)
      /\ \A t \in Tabs : Len(down[t]) <= OutBuf
      /\ welcomeSeq \in [Tabs -> Unknown .. MaxSeq] /\ handler \in [Tabs -> Handlers]
    BY DEF TypeOK
<1>2. << >> \in Seq(Frames) /\ Len(<< >>) = 0
    BY EmptySeq
<1>3. ASSUME NEW t \in Tabs, NEW f \in Frames, Len(down[t]) < OutBuf
      PROVE  /\ Append(down[t], f) \in Seq(Frames)
             /\ Len(Append(down[t], f)) <= OutBuf
    BY <1>1, <1>3, AppendAtEnd, Bounds
<1>4. ASSUME NEW t \in Tabs, NEW f \in Frames, Send(t, f)
      PROVE  /\ down' \in [Tabs -> Seq(Frames)]
             /\ \A u \in Tabs : Len(down'[u]) <= OutBuf
    <2>1. CASE Full(t)
        BY <1>1, <1>4, <2>1 DEF Send
    <2>2. CASE ~Full(t)
        <3>1. Len(down[t]) < OutBuf
            BY <1>1, <2>2, LenProperties, Bounds DEF Full
        <3>2. down' = [down EXCEPT ![t] = Append(down[t], f)]
            BY <1>1, <1>4, <2>2 DEF Send
        <3> QED  BY <1>1, <1>3, <3>1, <3>2
    <2> QED  BY <2>1, <2>2
<1>5. ASSUME NEW t \in Tabs, Disconnect(t) \/ Reload(t)
      PROVE  /\ down' \in [Tabs -> Seq(Frames)]
             /\ \A u \in Tabs : Len(down'[u]) <= OutBuf
    <2>1. down' = [down EXCEPT ![t] = << >>]
        BY <1>5 DEF Disconnect, Reload
    <2> QED  BY <1>1, <1>2, <2>1, Bounds
<1>6. ASSUME NEW t \in Tabs, OnWelcome(t) \/ OnNotification(t)
      PROVE  /\ down' \in [Tabs -> Seq(Frames)]
             /\ \A u \in Tabs : Len(down'[u]) <= OutBuf
    <2>1. down[t] # << >> /\ down' = [down EXCEPT ![t] = Tail(down[t])]
        BY <1>1, <1>6 DEF OnWelcome, OnNotification
    <2>2. Tail(down[t]) \in Seq(Frames) /\ Len(Tail(down[t])) <= OutBuf
        BY <1>1, <2>1, TailOfQueue, Bounds
    <2> QED  BY <1>1, <2>1, <2>2
<1>7. ASSUME NEW t \in Tabs, SendWelcome(t)
      PROVE  \E f \in Frames : Send(t, f)
    <2>1. Larger(welcomeSeq[t], 0) \in 0 .. MaxSeq
        BY <1>1, Bounds DEF Larger, Unknown
    <2> QED  BY <1>7, <2>1, FrameFields DEF SendWelcome
<1>8. ASSUME NEW t \in Tabs, Replay(t)
      PROVE  \E f \in Frames : Send(t, f)
    <2>1. handler[t].next \in 0 .. MaxSeq
        BY <1>1, <1>8, HandlerFields, Bounds DEF Replay, WireInv
    <2> QED  BY <1>8, <2>1, FrameFields DEF Replay
<1>9. ASSUME SendToUser
      PROVE  /\ down' \in [Tabs -> Seq(Frames)]
             /\ \A u \in Tabs : Len(down'[u]) <= OutBuf
    <2>1. bus # << >>
        BY <1>9 DEF SendToUser
    <2>2. Notification(Head(bus)) \in Frames
        BY <1>1, <2>1, TailOfQueue, FrameFields, Bounds
    <2> DEFINE after(u) == CASE u \in {r \in Registered : Full(r)} -> << >>
                             [] u \in Registered \ {r \in Registered : Full(r)} ->
                                    Append(down[u], Notification(Head(bus)))
                             [] OTHER -> down[u]
    <2>3. down' = [u \in Tabs |-> after(u)]
        BY <1>9 DEF SendToUser
    <2>4. ASSUME NEW u \in Tabs  PROVE after(u) \in Seq(Frames) /\ Len(after(u)) <= OutBuf
        <3>1. Len(down[u]) \in Nat
            BY <1>1, LenProperties
        <3>2. CASE u \in Registered /\ Full(u)
            BY <1>2, <3>2, Bounds
        <3>3. CASE u \in Registered /\ ~Full(u)
            BY <1>3, <2>2, <3>1, <3>3, Bounds DEF Full
        <3>4. CASE u \notin Registered
            BY <1>1, <3>4
        <3> QED  BY <3>2, <3>3, <3>4
    <2> HIDE DEF after
    <2> QED  BY <2>3, <2>4
<1> QED  BY <1>1, <1>4, <1>5, <1>6, <1>7, <1>8, <1>9, DownWriters

LEMMA UpTypes ==
    ASSUME TypeOK, WireInv, [Next]_vars  PROVE up' \in [Tabs -> Seq(Frames)]
<1>1. /\ up \in [Tabs -> Seq(Frames)] /\ down \in [Tabs -> Seq(Frames)]
      /\ lastSeen \in [Tabs -> 0 .. MaxSeq]
    BY DEF TypeOK
<1>2. ASSUME NEW T, Gone(T)  PROVE up' \in [Tabs -> Seq(Frames)]
    BY <1>1, <1>2, EmptySeq DEF Gone
<1>3. ASSUME SendToUser \/ \E t \in Tabs : Disconnect(t) \/ Reload(t)  PROVE \E T : Gone(T)
    BY <1>3 DEF SendToUser, Disconnect, Reload
<1>4. ASSUME NEW t \in Tabs,
             HandleAck(t) \/ RecordAckFails(t) \/ HandleResume(t) \/ ResumeUnconfirmed(t)
      PROVE  up' \in [Tabs -> Seq(Frames)]
    <2>1. up[t] # << >> /\ up' = [up EXCEPT ![t] = Tail(up[t])]
        BY <1>1, <1>4 DEF HandleAck, RecordAckFails, HandleResume, ResumeUnconfirmed, Inbound
    <2> QED  BY <1>1, <2>1, TailOfQueue, QueueTyped
<1>5. ASSUME NEW t \in Tabs, OnOpen(t)  PROVE up' \in [Tabs -> Seq(Frames)]
    <2>1. Resume(lastSeen[t]) \in Frames
        BY <1>1, FrameFields
    <2>2. << Resume(lastSeen[t]) >> \in Seq(Frames)
        BY <2>1
    <2> QED  BY <1>1, <1>5, <2>2, QueueTyped DEF OnOpen
<1>6. ASSUME NEW t \in Tabs, NEW f \in Frames, up' = [up EXCEPT ![t] = Append(@, f)]
      PROVE  up' \in [Tabs -> Seq(Frames)]
    BY <1>1, <1>6, AppendAtEnd, QueueTyped
<1>7. ASSUME NEW t \in Tabs, OnWelcome(t)  PROVE up' \in [Tabs -> Seq(Frames)]
    <2>1. Resume(lastSeen[t]) \in Frames
        BY <1>1, FrameFields
    <2> QED  BY <1>1, <1>6, <1>7, <2>1 DEF OnWelcome
<1>8. ASSUME NEW t \in Tabs, OnNotification(t)  PROVE up' \in [Tabs -> Seq(Frames)]
    <2>1. down[t] # << >> /\ up' = [up EXCEPT ![t] = Append(@, Ack(Head(down[t]).seq))]
        BY <1>8 DEF OnNotification
    <2>2. Ack(Head(down[t]).seq) \in Frames
        BY <1>1, <2>1, TailOfQueue, FrameFields
    <2> QED  BY <1>6, <2>1, <2>2
<1> QED  BY <1>1, <1>2, <1>3, <1>4, <1>5, <1>7, <1>8, UpWriters

\* What is put in front of a list stands first, the others move on by one place,
\* and no duplicate comes in with a seq that is not listed.
LEMMA PutInFront ==
    ASSUME NEW q \in Seq(Seqs), NEW s \in Seqs
    PROVE  /\ InFront(s, q) \in Seq(Seqs) /\ Len(q) \in Nat
           /\ \A i \in DOMAIN InFront(s, q) :
                 \/ i = 1 /\ InFront(s, q)[i] = s
                 \/ i # 1 /\ i - 1 \in DOMAIN q /\ InFront(s, q)[i] = q[i - 1]
           /\ DOMAIN InFront(s, q) \subseteq Nat
           /\ IsInjective(q) /\ ~Contains(q, s) => IsInjective(InFront(s, q))
<1> DEFINE l == << s >> \o q
           m == Smaller(Len(q) + 1, KeepLimit)
           f == InFront(s, q)
<1>1. Len(q) \in Nat /\ DOMAIN q = 1 .. Len(q)
    BY LenProperties
<1>2. /\ l \in Seq(Seqs) /\ Len(l) = Len(q) + 1 /\ l[1] = s
      /\ \A i \in 2 .. Len(q) + 1 : l[i] = q[i - 1]
    <2>1. /\ << s >> \in Seq(Seqs) /\ Len(<< s >>) = 1 /\ << s >>[1] = s
        OBVIOUS
    <2>2. /\ l \in Seq(Seqs) /\ Len(l) = 1 + Len(q)
          /\ \A i \in 1 .. 1 + Len(q) : l[i] = IF i <= 1 THEN << s >>[i] ELSE q[i - 1]
        BY <2>1, ConcatProperties
    <2> QED  BY <1>1, <2>1, <2>2
<1>3. m \in 1 .. Len(q) + 1
    BY <1>1, Bounds DEF Smaller
<1>4. \A i \in 1 .. m : l[i] \in Seqs
    <2>1. \A i \in 1 .. m : i \in 1 .. Len(l)
        BY <1>1, <1>2, <1>3
    <2> QED  BY <1>2, <2>1, ElementOfSeq
<1> HIDE DEF l, m
<1>5. f = SubSeq(l, 1, m)
    BY DEF InFront, l, m
<1>6. /\ f \in Seq(Seqs) /\ Len(f) = m
      /\ \A i \in 1 .. m : f[i] = l[i]
    <2>1. m \in Int /\ 1 \in Int /\ 1 <= m /\ m - 1 + 1 = m
        BY <1>1, <1>3
    <2>2. /\ SubSeq(l, 1, m) \in Seq(Seqs)
          /\ Len(SubSeq(l, 1, m)) = IF 1 <= m THEN m - 1 + 1 ELSE 0
          /\ \A i \in 1 .. m - 1 + 1 : SubSeq(l, 1, m)[i] = l[1 + i - 1]
        BY <1>4, <2>1, SubSeqProperties
    <2>3. \A i \in 1 .. m : 1 + i - 1 = i
        BY <2>1
    <2> QED  BY <1>5, <2>1, <2>2, <2>3
<1> HIDE DEF f
<1>7. DOMAIN f = 1 .. m
    BY <1>6, LenProperties
<1>8. ASSUME NEW i \in DOMAIN f
      PROVE  \/ i = 1 /\ f[i] = s
             \/ i # 1 /\ i - 1 \in DOMAIN q /\ f[i] = q[i - 1]
    <2>1. i \in 1 .. m /\ f[i] = l[i] /\ i \in 1 .. Len(q) + 1
        BY <1>1, <1>3, <1>6, <1>7, <1>8
    <2> QED  BY <1>1, <1>2, <2>1
<1>9. ASSUME IsInjective(q), ~Contains(q, s)  PROVE IsInjective(f)
    <2>1. \A i \in DOMAIN q : q[i] # s
        BY <1>1, <1>9 DEF Contains
    <2>2. \A i, j \in DOMAIN q : q[i] = q[j] => i = j
        BY <1>9 DEF IsInjective
    <2>3. ASSUME NEW i \in DOMAIN f, NEW j \in DOMAIN f, f[i] = f[j]  PROVE i = j
        <3>1. i \in Nat /\ j \in Nat
            BY <1>1, <1>3, <1>7, <2>3
        <3>2. CASE i = 1 \/ j = 1
            BY <1>8, <2>1, <2>3, <3>2
        <3>3. CASE i # 1 /\ j # 1
            <4>1. i - 1 = j - 1
                BY <1>8, <2>2, <2>3, <3>3
            <4> QED  BY <3>1, <4>1
        <3> QED  BY <3>2, <3>3
    <2> QED  BY <2>3 DEF IsInjective
<1> QED  BY <1>1, <1>3, <1>6, <1>7, <1>8, <1>9 DEF f

\* A list is a sequence of the seqs of the log.
LEMMA ListTypes ==
    ASSUME TypeOK, WireInv, [Next]_vars
    PROVE  /\ items' \in [Tabs -> Seq(Seqs)] /\ lastSeen' \in [Tabs -> 0 .. MaxSeq]
           /\ shown' \in [Tabs -> SUBSET Seqs] /\ past' \in [Tabs -> 0 .. MaxSeq]
<1>1. /\ items \in [Tabs -> Seq(Seqs)] /\ lastSeen \in [Tabs -> 0 .. MaxSeq]
      /\ shown \in [Tabs -> SUBSET Seqs] /\ down \in [Tabs -> Seq(Frames)]
      /\ fetch \in [Tabs -> NotAsked .. MaxSeq] /\ past \in [Tabs -> 0 .. MaxSeq]
    BY DEF TypeOK
<1>2. ASSUME NEW t \in Tabs, NEW q \in Seq(Seqs), items' = [items EXCEPT ![t] = q]
      PROVE  items' \in [Tabs -> Seq(Seqs)]
    BY <1>1, <1>2
<1>3. ASSUME NEW t \in Tabs, OnNotification(t)
      PROVE  /\ items' \in [Tabs -> Seq(Seqs)] /\ lastSeen' \in [Tabs -> 0 .. MaxSeq]
             /\ shown' \in [Tabs -> SUBSET Seqs] /\ past' \in [Tabs -> 0 .. MaxSeq]
    <2> DEFINE s == Head(down[t]).seq
    <2>1. down[t] # << >> /\ Head(down[t]).type = "notification" /\ Receive(t, s)
        BY <1>3 DEF OnNotification
    <2>2. Head(down[t]) = down[t][1] /\ 1 \in 1 .. Len(down[t]) /\ s \in 0 .. MaxSeq
        BY <1>1, <2>1, TailOfQueue, FrameFields
    <2>3. s \in Seqs
        BY <2>1, <2>2, Bounds DEF WireInv
    <2> HIDE DEF s
    <2>4. InFront(s, items[t]) \in Seq(Seqs)
        BY <1>1, <2>3, PutInFront
    <2>5. items' \in [Tabs -> Seq(Seqs)]
        BY <1>1, <1>2, <2>1, <2>4 DEF Receive
    <2>6. lastSeen' \in [Tabs -> 0 .. MaxSeq] /\ shown' \in [Tabs -> SUBSET Seqs]
        BY <1>1, <2>1, <2>3, Bounds DEF Receive, Larger
    <2>7. past' = past
        BY <1>3 DEF OnNotification
    <2> QED  BY <1>1, <2>5, <2>6, <2>7
<1>4. ASSUME NEW t \in Tabs, SetInitial(t)
      PROVE  /\ items' \in [Tabs -> Seq(Seqs)] /\ lastSeen' \in [Tabs -> 0 .. MaxSeq]
             /\ shown' \in [Tabs -> SUBSET Seqs] /\ past' \in [Tabs -> 0 .. MaxSeq]
    <2>1. fetch[t] \in 0 .. MaxSeq
        BY <1>1, <1>4, Bounds DEF SetInitial, NotAsked
    <2> DEFINE k == fetch[t]
               n == Smaller(k, ListLimit)
    <2>2. n \in 0 .. k /\ k - n \in 0 .. MaxSeq /\ k \in 0 .. MaxSeq
        BY <2>1, Bounds DEF Smaller
    <2>3. /\ items' = [items EXCEPT ![t] = [i \in 1 .. n |-> k + 1 - i]]
          /\ lastSeen' = [lastSeen EXCEPT ![t] = k]
          /\ shown' = [shown EXCEPT ![t] = shown[t] \cup k - n + 1 .. k]
          /\ past' = [past EXCEPT ![t] = Larger(past[t], k - n)]
        BY <1>1, <1>4 DEF SetInitial
    <2> HIDE DEF k, n
    <2>4. [i \in 1 .. n |-> k + 1 - i] \in Seq(Seqs)
        <3>1. n \in Nat
            BY <2>2, Bounds
        <3>2. \A i \in 1 .. n : k + 1 - i \in Seqs
            BY <2>2, Bounds
        <3> QED  BY <3>1, <3>2
    <2>5. k - n + 1 .. k \subseteq Seqs
        BY <2>2, Bounds
    <2>6. Larger(past[t], k - n) \in 0 .. MaxSeq
        BY <1>1, <2>2 DEF Larger
    <2> QED  BY <1>1, <1>2, <2>2, <2>3, <2>4, <2>5, <2>6
<1>5. ASSUME NEW t \in Tabs, Reload(t)
      PROVE  /\ items' \in [Tabs -> Seq(Seqs)] /\ lastSeen' \in [Tabs -> 0 .. MaxSeq]
             /\ shown' = shown /\ past' = past
    BY <1>1, <1>2, <1>5, EmptySeq, Bounds DEF Reload
<1> QED  BY <1>1, <1>3, <1>4, <1>5, ListWriters

LEMMA PageTypes ==
    ASSUME TypeOK, [Next]_vars
    PROVE  opened' \in [Tabs -> BOOLEAN] /\ fetch' \in [Tabs -> NotAsked .. MaxSeq]
<1>1. /\ opened \in [Tabs -> BOOLEAN] /\ fetch \in [Tabs -> NotAsked .. MaxSeq]
      /\ lastSeq \in 0 .. MaxSeq
    BY DEF TypeOK
<1>2. /\ NotAsked \in NotAsked .. MaxSeq /\ Asked \in NotAsked .. MaxSeq
      /\ lastSeq \in NotAsked .. MaxSeq
    BY <1>1, Bounds DEF NotAsked, Asked
<1>3. ASSUME NEW t \in Tabs, OnOpen(t)
      PROVE  opened' \in [Tabs -> BOOLEAN] /\ fetch' = fetch
    BY <1>1, <1>3 DEF OnOpen
<1>4. ASSUME NEW t \in Tabs, FetchReads(t) \/ SetInitial(t) \/ FetchFails(t) \/ Remount(t)
      PROVE  opened' = opened /\ fetch' \in [Tabs -> NotAsked .. MaxSeq]
    BY <1>1, <1>2, <1>4 DEF FetchReads, SetInitial, FetchFails, Remount
<1>5. ASSUME NEW T, Gone(T)  PROVE opened' \in [Tabs -> BOOLEAN]
    BY <1>1, <1>5 DEF Gone
<1>6. ASSUME SendToUser \/ \E t \in Tabs : Disconnect(t)
      PROVE  (\E T : Gone(T)) /\ fetch' = fetch
    BY <1>6 DEF SendToUser, Disconnect
<1>7. ASSUME NEW t \in Tabs, Reload(t)
      PROVE  (\E T : Gone(T)) /\ fetch' \in [Tabs -> NotAsked .. MaxSeq]
    BY <1>1, <1>2, <1>7 DEF Reload
<1> QED  BY <1>1, <1>3, <1>4, <1>5, <1>6, <1>7, PageWriters

LEMMA RestTypes ==
    ASSUME TypeOK, [Next]_vars
    PROVE  acked' \in 0 .. MaxSeq /\ whole' \in [Tabs -> BOOLEAN]
<1>1. /\ acked \in 0 .. MaxSeq /\ whole \in [Tabs -> BOOLEAN]
      /\ up \in [Tabs -> Seq(Frames)]
    BY DEF TypeOK
<1>2. ASSUME NEW t \in Tabs, HandleAck(t)  PROVE acked' \in 0 .. MaxSeq
    <2>1. Head(up[t]).seq \in 0 .. MaxSeq
        BY <1>1, <1>2, TailOfQueue, FrameFields DEF HandleAck, Inbound
    <2> QED  BY <1>1, <1>2, <2>1 DEF HandleAck, Larger
<1>3. ASSUME NEW t \in Tabs, NEW b \in BOOLEAN, whole' = [whole EXCEPT ![t] = b]
      PROVE  whole' \in [Tabs -> BOOLEAN]
    BY <1>1, <1>3
<1>4. ASSUME NEW t \in Tabs,
             \/ HandleResume(t) \/ ReadMissed(t) \/ ReadMissedFails(t) \/ Replay(t)
             \/ OnOpen(t)
      PROVE  \E b \in BOOLEAN : whole' = [whole EXCEPT ![t] = b]
    <2>1. whole[t] \in BOOLEAN
        BY <1>1
    <2> QED
        BY <1>4, <2>1 DEF HandleResume, AckCovers, ReadMissed, ReadMissedFails, Replay, OnOpen
<1>5. ASSUME NEW T, Gone(T)  PROVE whole' \in [Tabs -> BOOLEAN]
    BY <1>1, <1>5 DEF Gone
<1>6. ASSUME SendToUser \/ \E t \in Tabs : Disconnect(t) \/ Reload(t)  PROVE \E T : Gone(T)
    BY <1>6 DEF SendToUser, Disconnect, Reload
<1>7. CASE LoseDedicated
    BY <1>1, <1>7 DEF LoseDedicated, db
<1> QED  BY <1>1, <1>2, <1>3, <1>4, <1>5, <1>6, <1>7, AckedWriters, WholeWriters

LEMMA TypeStep ==
    ASSUME TypeOK, WireInv, [Next]_vars  PROVE TypeOK'
BY LogTypes, ServerTypes, HandlerTypes, DownTypes, UpTypes, ListTypes, PageTypes, RestTypes
   DEF TypeOK

-----------------------------------------------------------------------------
(* What a step does to one tab *)

\* What was rendered stays rendered.
LEMMA ShownGrows ==
    ASSUME TypeOK, [Next]_vars, NEW t \in Tabs
    PROVE  /\ shown[t] \subseteq shown'[t]
           /\ Has(t) \subseteq Has(t)'
<1>1. shown \in [Tabs -> SUBSET Seqs] /\ past \in [Tabs -> 0 .. MaxSeq]
    BY DEF TypeOK
<1>2. ASSUME NEW u \in Tabs, OnNotification(u) \/ SetInitial(u) \/ Reload(u)
      PROVE  shown[t] \subseteq shown'[t]
    BY <1>1, <1>2 DEF OnNotification, Receive, SetInitial, Reload
<1>3. ASSUME NEW u \in Tabs, OnNotification(u) \/ Reload(u)  PROVE past' = past
    BY <1>3 DEF OnNotification, Reload
<1>4. ASSUME NEW u \in Tabs, SetInitial(u)  PROVE past[t] <= past'[t] /\ past'[t] \in Int
    <2>1. fetch[u] \in Nat
        BY <1>4 DEF SetInitial, TypeOK, NotAsked
    <2> DEFINE d == fetch[u] - Smaller(fetch[u], ListLimit)
    <2>2. d \in Int
        BY <2>1, Bounds DEF Smaller
    <2>3. past' = [past EXCEPT ![u] = Larger(past[u], d)]
        BY <1>1, <1>4 DEF SetInitial
    <2> HIDE DEF d
    <2> QED  BY <1>1, <2>2, <2>3, Bounds DEF Larger
<1>5. past[t] <= past'[t] /\ past[t] \in Int /\ past'[t] \in Int
    BY <1>1, <1>3, <1>4, Bounds, ListWriters
<1>6. shown[t] \subseteq shown'[t]
    BY <1>1, <1>2, ListWriters
<1>7. 1 .. past[t] \subseteq 1 .. past'[t]
    BY <1>5
<1> QED  BY <1>6, <1>7 DEF Has

\* A connection moves on through handleUpgrade, or it is gone and its handler
\* with it.  The read of current_seq is that of the moment, and an open channel
\* stays open while there is a registered connection, unless the dedicated
\* connection is lost, which nobody outlives whole.
LEMMA ConnMoves ==
    ASSUME TypeOK, [Next]_vars, NEW t \in Tabs
    PROVE  /\ conn'[t] = "none" => conn[t] = "none" \/ handler'[t] = Idle
           /\ conn[t] = "open" => conn'[t] \in {"open", "none"}
           /\ conn[t] \in {"seqRead", "open"} /\ conn'[t] # "none" =>
                 /\ conn'[t] \in {"seqRead", "open"}
                 /\ welcomeSeq'[t] = welcomeSeq[t] /\ (t \in early => t \in early')
           /\ conn[t] \notin {"seqRead", "open"} /\ conn'[t] \in {"seqRead", "open"} =>
                 lastSeq' = lastSeq /\ welcomeSeq'[t] \in {lastSeq, Unknown}
           /\ sub = "yes" /\ t \in Registered /\ conn'[t] # "none" =>
                 sub' = "yes" \/ (t \in early' /\ ~whole'[t])
<1> DEFINE Goal ==
        /\ conn'[t] = "none" => conn[t] = "none" \/ handler'[t] = Idle
        /\ conn[t] = "open" => conn'[t] \in {"open", "none"}
        /\ conn[t] \in {"seqRead", "open"} /\ conn'[t] # "none" =>
              /\ conn'[t] \in {"seqRead", "open"}
              /\ welcomeSeq'[t] = welcomeSeq[t] /\ (t \in early => t \in early')
        /\ conn[t] \notin {"seqRead", "open"} /\ conn'[t] \in {"seqRead", "open"} =>
              lastSeq' = lastSeq /\ welcomeSeq'[t] \in {lastSeq, Unknown}
        /\ sub = "yes" /\ t \in Registered /\ conn'[t] # "none" =>
                 sub' = "yes" \/ (t \in early' /\ ~whole'[t])
<1>1. /\ conn \in [Tabs -> Phases] /\ handler \in [Tabs -> Handlers]
      /\ welcomeSeq \in [Tabs -> Unknown .. MaxSeq] /\ whole \in [Tabs -> BOOLEAN]
    BY DEF TypeOK
<1>2. ASSUME UNCHANGED <<sub, conn, welcomeSeq, early>>  PROVE Goal
    BY <1>2
<1>3. ASSUME NEW T, Gone(T)  PROVE Goal
    <2>1. conn'[t] = (IF t \in T THEN "none" ELSE conn[t])
        BY <1>3 DEF Gone
    <2>2. t \in T => handler'[t] = Idle
        BY <1>3 DEF Gone
    <2>3. t \notin T => welcomeSeq'[t] = welcomeSeq[t] /\ (t \in early => t \in early')
        BY <1>3 DEF Gone
    <2>4. t \in Registered /\ t \notin T => sub' = sub
        BY <1>3 DEF Gone
    <2> QED  BY <1>3, <2>1, <2>2, <2>3, <2>4
<1>4. ASSUME SendToUser \/ \E u \in Tabs : Disconnect(u) \/ Reload(u)  PROVE \E T : Gone(T)
    BY <1>4 DEF SendToUser, Disconnect, Reload
<1>5. CASE LoseDedicated
    BY <1>1, <1>5 DEF LoseDedicated, server
<1>6. ASSUME SubscribeDone \/ SubscribeFails  PROVE Goal
    <2>1. /\ welcomeSeq' = welcomeSeq
          /\ sub = "yes" => sub' = "yes"
          /\ conn'[t] = IF conn[t] = "subscribing" THEN "registered" ELSE conn[t]
          /\ t \in early /\ conn[t] # "registered" => t \in early'
        BY <1>1, <1>6 DEF SubscribeDone, SubscribeFails, GoOn, Waiting
    <2> QED  BY <2>1
<1>7. ASSUME NEW u \in Tabs, Register(u)  PROVE Goal
    <2>1. conn[u] = "upgraded" /\ welcomeSeq' = welcomeSeq
        BY <1>7 DEF Register
    <2>2. \/ conn' = [conn EXCEPT ![u] = "subscribing"]
          \/ conn' = [conn EXCEPT ![u] = "registered"]
        BY <1>7 DEF Register
    <2>3. u # t => conn'[t] = conn[t] /\ (t \in early <=> t \in early')
        BY <1>1, <1>7 DEF Register, Ask
    <2>4. t \in Registered => sub' = sub
        BY <1>7 DEF Register
    <2>5. u = t => conn'[t] \in {"subscribing", "registered"}
        BY <1>1, <2>2
    <2> QED  BY <2>1, <2>3, <2>4, <2>5
<1>8. ASSUME NEW u \in Tabs, ReadCurrentSeq(u) \/ ReadCurrentSeqFails(u)  PROVE Goal
    <2>1. /\ conn[u] = "registered" /\ conn' = [conn EXCEPT ![u] = "seqRead"]
          /\ lastSeq' = lastSeq /\ sub' = sub /\ early' = early
          /\ \/ welcomeSeq' = [welcomeSeq EXCEPT ![u] = lastSeq]
             \/ welcomeSeq' = [welcomeSeq EXCEPT ![u] = Unknown]
        BY <1>8 DEF ReadCurrentSeq, ReadCurrentSeqFails, StatementFails, db, redis, notes
    <2>2. u # t => conn'[t] = conn[t] /\ welcomeSeq'[t] = welcomeSeq[t]
        BY <1>1, <2>1
    <2>3. u = t => conn'[t] = "seqRead" /\ welcomeSeq'[t] \in {lastSeq, Unknown}
        BY <1>1, <2>1
    <2> QED  BY <2>1, <2>2, <2>3
<1>9. ASSUME NEW u \in Tabs, SendWelcome(u)  PROVE Goal
    BY <1>1, <1>9 DEF SendWelcome, redis, notes
<1>10. ASSUME NEW u \in Tabs, Connect(u)  PROVE Goal
    BY <1>1, <1>10 DEF Connect, redis, server, notes
<1> QED  BY <1>2, <1>3, <1>4, <1>5, <1>6, <1>7, <1>8, <1>9, <1>10, ServerWriters

\* handleResume goes through its steps, unless its connection is gone.
LEMMA HandlerMoves ==
    ASSUME TypeOK, [Next]_vars, NEW t \in Tabs
    PROVE  \/ handler'[t] = handler[t]
           \/ handler'[t] = Idle /\ conn'[t] = "none"
           \/ HandleResume(t) \/ ResumeUnconfirmed(t)
           \/ ReadMissed(t) \/ ReadMissedFails(t) \/ Replay(t)
<1>1. conn \in [Tabs -> Phases] /\ handler \in [Tabs -> Handlers]
    BY DEF TypeOK
<1>2. ASSUME NEW T, Gone(T)
      PROVE  handler'[t] = handler[t] \/ (handler'[t] = Idle /\ conn'[t] = "none")
    BY <1>1, <1>2 DEF Gone
<1>3. ASSUME SendToUser \/ \E u \in Tabs : Disconnect(u) \/ Reload(u)  PROVE \E T : Gone(T)
    BY <1>3 DEF SendToUser, Disconnect, Reload
<1>4. ASSUME NEW u \in Tabs, u # t,
             \/ HandleResume(u) \/ ResumeUnconfirmed(u)
             \/ ReadMissed(u) \/ ReadMissedFails(u) \/ Replay(u)
      PROVE  handler'[t] = handler[t]
    BY <1>1, <1>4 DEF HandleResume, ResumeUnconfirmed, ReadMissed, ReadMissedFails, Replay
<1> QED  BY <1>2, <1>3, <1>4, HandlerWriters

\* A tab is sent one frame, takes one, or loses all of them with the connection;
\* what it takes it renders.
LEMMA DownMoves ==
    ASSUME TypeOK, WireInv, [Next]_vars, NEW t \in Tabs
    PROVE  \/ down'[t] = down[t]
           \/ down'[t] = << >> /\ conn'[t] = "none"
           \/ \E f \in Frames : /\ down'[t] = Append(down[t], f)
                                /\ f.type = "notification" => f.seq >= 1
           \/ /\ down[t] # << >> /\ down'[t] = Tail(down[t])
              /\ Head(down[t]).type = "notification" => Head(down[t]).seq \in shown'[t]
<1> DEFINE Goal ==
           \/ down'[t] = down[t]
           \/ down'[t] = << >> /\ conn'[t] = "none"
           \/ \E f \in Frames : /\ down'[t] = Append(down[t], f)
                                /\ f.type = "notification" => f.seq >= 1
           \/ /\ down[t] # << >> /\ down'[t] = Tail(down[t])
              /\ Head(down[t]).type = "notification" => Head(down[t]).seq \in shown'[t]
<1>1. /\ down \in [Tabs -> Seq(Frames)] /\ bus \in Seq(Seqs)
      /\ conn \in [Tabs -> Phases] /\ shown \in [Tabs -> SUBSET Seqs]
      /\ welcomeSeq \in [Tabs -> Unknown .. MaxSeq] /\ handler \in [Tabs -> Handlers]
    BY DEF TypeOK
<1>2. ASSUME NEW u \in Tabs, NEW f \in Frames, f.type = "notification" => f.seq >= 1, Send(u, f)
      PROVE  Goal
    <2>1. down' = down \/ down' = [down EXCEPT ![u] = Append(down[u], f)]
        BY <1>1, <1>2 DEF Send
    <2>2. down'[t] = down[t] \/ down'[t] = Append(down[t], f)
        BY <1>1, <2>1
    <2> QED  BY <1>2, <2>2
<1>3. ASSUME NEW u \in Tabs, SendWelcome(u)  PROVE Goal
    <2>1. Larger(welcomeSeq[u], 0) \in 0 .. MaxSeq
        BY <1>1, Bounds DEF Larger, Unknown
    <2>2. Welcome(Larger(welcomeSeq[u], 0)) \in Frames
        BY <2>1, FrameFields
    <2>3. Welcome(Larger(welcomeSeq[u], 0)).type # "notification"
        BY <2>1, FrameFields
    <2>4. Send(u, Welcome(Larger(welcomeSeq[u], 0)))
        BY <1>3 DEF SendWelcome
    <2> QED  BY <1>2, <2>2, <2>3, <2>4
<1>4. ASSUME NEW u \in Tabs, Replay(u)  PROVE Goal
    <2>1. handler[u].next \in 0 .. MaxSeq /\ handler[u].next >= 1
        BY <1>1, <1>4, HandlerFields, Bounds DEF Replay, WireInv
    <2>2. Notification(handler[u].next) \in Frames /\ Notification(handler[u].next).seq >= 1
        BY <2>1, FrameFields
    <2>3. Send(u, Notification(handler[u].next))
        BY <1>4 DEF Replay
    <2> QED  BY <1>2, <2>2, <2>3
<1>5. ASSUME NEW u \in Tabs, Disconnect(u) \/ Reload(u)  PROVE Goal
    <2>1. down' = [down EXCEPT ![u] = << >>] /\ Gone({u})
        BY <1>5 DEF Disconnect, Reload
    <2>2. u = t => conn'[t] = "none"
        BY <2>1 DEF Gone
    <2> QED  BY <1>1, <2>1, <2>2
<1>6. ASSUME NEW u \in Tabs, OnWelcome(u)  PROVE Goal
    <2>1. /\ down[u] # << >> /\ down' = [down EXCEPT ![u] = Tail(down[u])]
          /\ Head(down[u]).type = "welcome"
        BY <1>1, <1>6 DEF OnWelcome
    <2> QED  BY <1>1, <2>1
<1>7. ASSUME NEW u \in Tabs, OnNotification(u)  PROVE Goal
    <2>1. /\ down[u] # << >> /\ down' = [down EXCEPT ![u] = Tail(down[u])]
          /\ Receive(u, Head(down[u]).seq)
        BY <1>1, <1>7 DEF OnNotification
    <2>2. Head(down[u]).seq \in shown'[u]
        BY <1>1, <2>1 DEF Receive
    <2> QED  BY <1>1, <2>1, <2>2
<1>8. ASSUME SendToUser  PROVE Goal
    <2> DEFINE f == Notification(Head(bus))
    <2>1. Head(bus) \in Seqs
        BY <1>1, <1>8, TailOfQueue DEF SendToUser
    <2>2. f \in Frames /\ f.seq >= 1
        BY <2>1, FrameFields, Bounds
    <2>3. down'[t] = CASE t \in {r \in Registered : Full(r)} -> << >>
                       [] t \in Registered \ {r \in Registered : Full(r)} -> Append(down[t], f)
                       [] OTHER -> down[t]
        BY <1>8 DEF SendToUser
    <2>4. t \in {r \in Registered : Full(r)} => conn'[t] = "none"
        BY <1>8 DEF SendToUser, Gone
    <2> HIDE DEF f
    <2>5. \/ down'[t] = << >> /\ conn'[t] = "none"
          \/ down'[t] = Append(down[t], f)
          \/ down'[t] = down[t]
        BY <2>3, <2>4
    <2> QED  BY <2>2, <2>5
<1> QED  BY <1>3, <1>4, <1>5, <1>6, <1>7, <1>8, DownWriters

\* The server takes one frame of a tab, the tab sends one, or all of them are
\* lost with the connection; onopen begins with the resume alone.
LEMMA UpMoves ==
    ASSUME TypeOK, [Next]_vars, NEW t \in Tabs
    PROVE  \/ up'[t] = up[t]
           \/ up'[t] = << >> /\ conn'[t] = "none"
           \/ OnOpen(t) /\ up'[t] = << Resume(lastSeen[t]) >>
           \/ \E f \in Frames : /\ up'[t] = Append(up[t], f)
                                /\ f.type = "ack" => f.seq \in shown'[t]
           \/ /\ up[t] # << >> /\ up'[t] = Tail(up[t])
              /\ Head(up[t]).type = "resume" => HandleResume(t) \/ ResumeUnconfirmed(t)
<1> DEFINE Goal ==
           \/ up'[t] = up[t]
           \/ up'[t] = << >> /\ conn'[t] = "none"
           \/ OnOpen(t) /\ up'[t] = << Resume(lastSeen[t]) >>
           \/ \E f \in Frames : /\ up'[t] = Append(up[t], f)
                                /\ f.type = "ack" => f.seq \in shown'[t]
           \/ /\ up[t] # << >> /\ up'[t] = Tail(up[t])
              /\ Head(up[t]).type = "resume" => HandleResume(t) \/ ResumeUnconfirmed(t)
<1>1. /\ up \in [Tabs -> Seq(Frames)] /\ down \in [Tabs -> Seq(Frames)]
      /\ lastSeen \in [Tabs -> 0 .. MaxSeq] /\ shown \in [Tabs -> SUBSET Seqs]
    BY DEF TypeOK
<1>2. ASSUME NEW T, Gone(T)  PROVE up'[t] = up[t] \/ (up'[t] = << >> /\ conn'[t] = "none")
    BY <1>1, <1>2 DEF Gone
<1>3. ASSUME SendToUser \/ \E u \in Tabs : Disconnect(u) \/ Reload(u)  PROVE \E T : Gone(T)
    BY <1>3 DEF SendToUser, Disconnect, Reload
<1>4. ASSUME NEW u \in Tabs, HandleAck(u) \/ RecordAckFails(u)  PROVE Goal
    <2>1. /\ up[u] # << >> /\ up' = [up EXCEPT ![u] = Tail(up[u])]
          /\ Head(up[u]).type = "ack"
        BY <1>1, <1>4 DEF HandleAck, RecordAckFails, Inbound
    <2> QED  BY <1>1, <2>1
<1>5. ASSUME NEW u \in Tabs, HandleResume(u) \/ ResumeUnconfirmed(u)  PROVE Goal
    <2>1. up[u] # << >> /\ up' = [up EXCEPT ![u] = Tail(up[u])]
        BY <1>1, <1>5 DEF HandleResume, ResumeUnconfirmed, Inbound
    <2> QED  BY <1>1, <1>5, <2>1
<1>6. ASSUME NEW u \in Tabs, OnOpen(u)  PROVE Goal
    <2>1. up' = up \/ up' = [up EXCEPT ![u] = << Resume(lastSeen[u]) >>]
        BY <1>6 DEF OnOpen
    <2> QED  BY <1>1, <1>6, <2>1
<1>7. ASSUME NEW u \in Tabs, OnWelcome(u)  PROVE Goal
    <2>1. Resume(lastSeen[u]) \in Frames /\ Resume(lastSeen[u]).type # "ack"
        BY <1>1, FrameFields
    <2>2. up' = up \/ up' = [up EXCEPT ![u] = Append(up[u], Resume(lastSeen[u]))]
        BY <1>1, <1>7 DEF OnWelcome
    <2> QED  BY <1>1, <2>1, <2>2
<1>8. ASSUME NEW u \in Tabs, OnNotification(u)  PROVE Goal
    <2> DEFINE s == Head(down[u]).seq
    <2>1. /\ down[u] # << >> /\ Receive(u, s)
          /\ up' = [up EXCEPT ![u] = Append(up[u], Ack(s))]
        BY <1>1, <1>8 DEF OnNotification
    <2>2. s \in 0 .. MaxSeq /\ s \in shown'[u]
        BY <1>1, <2>1, TailOfQueue, FrameFields DEF Receive
    <2>3. Ack(s) \in Frames /\ Ack(s).seq \in shown'[u]
        BY <2>2, FrameFields
    <2> HIDE DEF s
    <2> QED  BY <1>1, <2>1, <2>3
<1> QED  BY <1>2, <1>3, <1>4, <1>5, <1>6, <1>7, <1>8, UpWriters

\* The log grows by one seq, which a publish is to follow; what failed stays
\* failed, and a publish goes to the channel while that is open.
LEMMA LogMoves ==
    ASSUME TypeOK, [Next]_vars
    PROVE  /\ \/ lastSeq' = lastSeq
              \/ lastSeq' = lastSeq + 1 /\ lastSeq' \in unpublished'
           /\ failed \subseteq failed'
           /\ \A s \in unpublished : \/ s \in unpublished' \cup failed'
                                     \/ sub = "yes" => Contains(bus', s)
<1>1. bus \in Seq(Seqs)
    BY DEF TypeOK
<1>2. CASE Persist
    BY <1>2 DEF Persist
<1>3. CASE SendToUser \/ LoseDedicated
    BY <1>3 DEF SendToUser, LoseDedicated, db
<1>4. ASSUME NEW s \in Seqs, Publish(s)
      PROVE  /\ lastSeq' = lastSeq /\ failed' = failed /\ unpublished' = unpublished \ {s}
             /\ sub = "yes" => Contains(bus', s)
    BY <1>1, <1>4, AppendAtEnd DEF Publish, db
<1>5. ASSUME NEW s \in Seqs, PublishFails(s)
      PROVE  /\ lastSeq' = lastSeq /\ failed' = failed \cup {s}
             /\ unpublished' = unpublished \ {s}
    BY <1>5 DEF PublishFails, db
<1> QED  BY <1>2, <1>3, <1>4, <1>5, LogWriters

\* What the channel holds for a connection is sent to it.
LEMMA BusMoves ==
    ASSUME TypeOK, [Next]_vars, NEW t \in Tabs, t \in Registered, conn'[t] # "none",
           sub' = "yes", NEW s, Contains(bus, s)
    PROVE  Contains(bus', s) \/ Contains(down'[t], Notification(s))
<1>1. bus \in Seq(Seqs) /\ down \in [Tabs -> Seq(Frames)]
    BY DEF TypeOK
<1>2. ASSUME NEW r \in Seqs, Publish(r)  PROVE Contains(bus', s)
    BY <1>1, <1>2, AppendAtEnd DEF Publish
<1>3. ASSUME NEW r \in Seqs, PublishFails(r)  PROVE bus' = bus
    BY <1>3 DEF PublishFails
<1>4. ASSUME Persist  PROVE bus' = bus
    BY <1>4 DEF Persist
<1>5. ASSUME SendToUser, s # Head(bus)  PROVE Contains(bus', s)
    BY <1>1, <1>5, TailOfQueue DEF SendToUser
<1>6. ASSUME SendToUser, s = Head(bus)  PROVE Contains(down'[t], Notification(s))
    <2>1. ~Full(t)
        BY <1>6 DEF SendToUser, Gone
    <2>2. down'[t] = Append(down[t], Notification(s))
        BY <1>6, <2>1 DEF SendToUser
    <2>3. s \in Seqs
        BY <1>1, <1>6, TailOfQueue DEF SendToUser
    <2>4. Notification(s) \in Frames
        BY <2>3, FrameFields, Bounds
    <2> QED  BY <1>1, <2>2, <2>4, AppendAtEnd
<1>7. ~LoseDedicated
    BY DEF LoseDedicated
<1> QED  BY <1>2, <1>3, <1>4, <1>5, <1>6, <1>7, LogWriters

-----------------------------------------------------------------------------
(* The wire and the acknowledgements *)

LEMMA WireStep ==
    ASSUME TypeOK, WireInv, [Next]_vars  PROVE WireInv'
<1>1. TypeOK'
    BY TypeStep
<1>2. /\ down \in [Tabs -> Seq(Frames)] /\ handler \in [Tabs -> Handlers]
      /\ lastSeq \in 0 .. MaxSeq /\ acked \in 0 .. MaxSeq /\ conn \in [Tabs -> Phases]
      /\ up \in [Tabs -> Seq(Frames)]
    BY DEF TypeOK
<1>3. lastSeq' \in Nat /\ lastSeq <= lastSeq'
    BY <1>2, LogMoves, Bounds
<1>4. ASSUME NEW t \in Tabs, NEW i \in 1 .. Len(down'[t]), down'[t][i].type = "notification"
      PROVE  down'[t][i].seq >= 1
    <2>1. CASE down'[t] = down[t]
        BY <1>4, <2>1 DEF WireInv
    <2>2. CASE down'[t] = << >>
        BY <1>4, <2>2
    <2>3. ASSUME NEW f \in Frames, down'[t] = Append(down[t], f),
                 f.type = "notification" => f.seq >= 1
          PROVE  down'[t][i].seq >= 1
        <3>1. /\ Len(down[t]) \in Nat /\ Len(down'[t]) = Len(down[t]) + 1
              /\ \A j \in 1 .. Len(down[t]) : down'[t][j] = down[t][j]
              /\ down'[t][Len(down[t]) + 1] = f
            BY <1>2, <2>3, AppendAtEnd
        <3>2. i \in 1 .. Len(down[t]) \/ i = Len(down[t]) + 1
            BY <3>1
        <3> QED  BY <1>4, <2>3, <3>1, <3>2 DEF WireInv
    <2>4. CASE down[t] # << >> /\ down'[t] = Tail(down[t])
        <3>1. i + 1 \in 1 .. Len(down[t]) /\ down'[t][i] = down[t][i + 1]
            BY <1>2, <1>4, <2>4, TailOfQueue
        <3> QED  BY <1>4, <3>1 DEF WireInv
    <2> QED  BY <2>1, <2>2, <2>3, <2>4, DownMoves
<1>5. ASSUME NEW t \in Tabs
      PROVE  /\ handler'[t].step # "idle" => handler'[t].next >= 1 /\ conn'[t] = "open"
             /\ handler'[t].step = "replay" =>
                   handler'[t].next <= handler'[t].last /\ handler'[t].last <= lastSeq'
    <2> DEFINE Goal ==
             /\ handler'[t].step # "idle" => handler'[t].next >= 1 /\ conn'[t] = "open"
             /\ handler'[t].step = "replay" =>
                   handler'[t].next <= handler'[t].last /\ handler'[t].last <= lastSeq'
    <2>1. handler[t] \in Handlers
        BY <1>2
    <2>2. conn[t] = "open" => conn'[t] = "open" \/ handler'[t].step = "idle"
        BY HandlerFields, ConnMoves
    <2>3. ASSUME handler'[t] = handler[t]  PROVE Goal
        <3>1. handler[t].last \in Nat
            BY <2>1, HandlerFields, Bounds
        <3>2. handler[t].step = "replay" =>
                  handler[t].next <= handler[t].last /\ handler[t].last <= lastSeq'
            BY <1>2, <1>3, <3>1, Bounds DEF WireInv
        <3> QED  BY <2>2, <2>3, <3>2 DEF WireInv
    <2>4. ASSUME handler'[t] = Idle  PROVE Goal
        BY <2>4, HandlerFields
    <2>5. ASSUME HandleResume(t) \/ ResumeUnconfirmed(t)  PROVE Goal
        <3>1. up[t] # << >> /\ conn[t] = "open" /\ conn' = conn
            BY <2>5 DEF HandleResume, ResumeUnconfirmed, Inbound
        <3>2. Head(up[t]).seq \in 0 .. MaxSeq
            BY <1>2, <3>1, TailOfQueue, FrameFields
        <3>3. \/ handler'[t] = [step |-> "since", next |-> Larger(Head(up[t]).seq, acked) + 1,
                                last |-> 0]
              \/ handler'[t] = [step |-> "since", next |-> Head(up[t]).seq + 1, last |-> 0]
            BY <1>2, <2>5 DEF HandleResume, ResumeUnconfirmed
        <3> QED  BY <1>2, <3>1, <3>2, <3>3, Bounds DEF Larger
    <2>6. ASSUME ReadMissed(t)  PROVE Goal
        <3> DEFINE first == handler[t].next
                   last == Smaller(first - 1 + ReplayLimit, lastSeq)
        <3>1. /\ handler[t].step = "since" /\ conn' = conn
              /\ handler'[t] = IF first > last THEN Idle
                               ELSE [step |-> "replay", next |-> first, last |-> last]
            BY <1>2, <2>6 DEF ReadMissed
        <3>2. first >= 1 /\ conn[t] = "open"
            BY <3>1 DEF WireInv
        <3>3. first \in Nat /\ last \in Int /\ last <= lastSeq
            BY <1>2, <2>1, HandlerFields, Bounds DEF Smaller
        <3> HIDE DEF first, last
        <3>4. CASE first > last
            BY <3>1, <3>4, HandlerFields
        <3>5. CASE first <= last
            BY <1>2, <1>3, <3>1, <3>2, <3>3, <3>5, Bounds
        <3> QED  BY <3>3, <3>4, <3>5
    <2>7. ASSUME ReadMissedFails(t)  PROVE Goal
        BY <1>2, <2>7, HandlerFields DEF ReadMissedFails
    <2>8. ASSUME Replay(t)  PROVE Goal
        <3> DEFINE h == handler[t]
        <3>1. /\ h.step = "replay" /\ conn' = conn /\ lastSeq' = lastSeq
              /\ handler'[t] = IF h.next = h.last THEN Idle ELSE [h EXCEPT !.next = h.next + 1]
            BY <1>2, <2>8 DEF Replay, db
        <3>2. h.next >= 1 /\ conn[t] = "open" /\ h.next <= h.last /\ h.last <= lastSeq
            BY <3>1 DEF WireInv
        <3>3. h \in Handlers
            BY <2>1
        <3> HIDE DEF h
        <3>4. CASE h.next = h.last
            BY <3>1, <3>4, HandlerFields
        <3>5. CASE h.next # h.last
            <4>1. h.next + 1 \in 0 .. MaxSeq + 1
                BY <3>2, <3>3, HandlerFields, Bounds
            <4>2. handler'[t].next = h.next + 1 /\ handler'[t].last = h.last
                BY <3>1, <3>3, <3>5, <4>1, HandlerFields
            <4>3. h.next + 1 >= 1 /\ h.next + 1 <= h.last
                BY <3>2, <3>3, <3>5, HandlerFields, Bounds
            <4> QED  BY <3>1, <3>2, <4>2, <4>3
        <3> QED  BY <3>4, <3>5
    <2> QED  BY <2>3, <2>4, <2>5, <2>6, <2>7, <2>8, HandlerMoves
<1> QED  BY <1>4, <1>5 DEF WireInv

LEMMA AckStep ==
    ASSUME TypeOK, WireInv, AckInv, [Next]_vars  PROVE AckInv'
<1>1. up \in [Tabs -> Seq(Frames)] /\ lastSeen \in [Tabs -> 0 .. MaxSeq]
    BY DEF TypeOK
<1>2. SUFFICES ASSUME NEW t \in Tabs, NEW i \in 1 .. Len(up'[t]), up'[t][i].type = "ack"
               PROVE  up'[t][i].seq \in shown'[t]
    BY DEF AckInv
<1>3. shown[t] \subseteq shown'[t]
    BY ShownGrows
<1>4. CASE up'[t] = up[t]
    BY <1>2, <1>3, <1>4 DEF AckInv
<1>5. CASE up'[t] = << >>
    BY <1>2, <1>5
<1>6. CASE up'[t] = << Resume(lastSeen[t]) >>
    <2>1. i = 1 /\ up'[t][i] = Resume(lastSeen[t])
        BY <1>2, <1>6
    <2>2. Resume(lastSeen[t]).type = "resume"
        BY <1>1, FrameFields
    <2> QED  BY <1>2, <2>1, <2>2
<1>7. ASSUME NEW f \in Frames, up'[t] = Append(up[t], f), f.type = "ack" => f.seq \in shown'[t]
      PROVE  up'[t][i].seq \in shown'[t]
    <2>1. /\ Len(up[t]) \in Nat /\ Len(up'[t]) = Len(up[t]) + 1
          /\ \A j \in 1 .. Len(up[t]) : up'[t][j] = up[t][j]
          /\ up'[t][Len(up[t]) + 1] = f
        BY <1>1, <1>7, AppendAtEnd
    <2>2. i \in 1 .. Len(up[t]) \/ i = Len(up[t]) + 1
        BY <2>1
    <2> QED  BY <1>2, <1>3, <1>7, <2>1, <2>2 DEF AckInv
<1>8. CASE up[t] # << >> /\ up'[t] = Tail(up[t])
    <2>1. i + 1 \in 1 .. Len(up[t]) /\ up'[t][i] = up[t][i + 1]
        BY <1>1, <1>2, <1>8, TailOfQueue
    <2> QED  BY <1>2, <1>3, <2>1 DEF AckInv
<1> QED  BY <1>4, <1>5, <1>6, <1>7, <1>8, UpMoves

LEMMA AckedStep ==
    ASSUME TypeOK, AckInv, AckedWasShown, [Next]_vars  PROVE AckedWasShown'
<1>1. up \in [Tabs -> Seq(Frames)] /\ acked \in 0 .. MaxSeq
    BY DEF TypeOK
<1>2. ASSUME NEW t \in Tabs, acked \in shown[t]  PROVE acked \in shown'[t]
    BY <1>2, ShownGrows
<1>3. CASE acked' = acked
    BY <1>2, <1>3 DEF AckedWasShown
<1>4. ASSUME NEW t \in Tabs, HandleAck(t)  PROVE AckedWasShown'
    <2>1. up[t] # << >> /\ Head(up[t]).type = "ack" /\ acked' = Larger(acked, Head(up[t]).seq)
        BY <1>4 DEF HandleAck, Inbound
    <2>2. Head(up[t]) = up[t][1] /\ 1 \in 1 .. Len(up[t])
        BY <1>1, <2>1, TailOfQueue
    <2>3. Head(up[t]).seq \in shown'[t]
        BY <2>1, <2>2, ShownGrows DEF AckInv
    <2>4. CASE acked' = Head(up[t]).seq
        BY <2>3, <2>4 DEF AckedWasShown
    <2>5. CASE acked' = acked
        BY <1>3, <2>5
    <2> QED  BY <2>1, <2>4, <2>5 DEF Larger
<1> QED  BY <1>3, <1>4, AckedWriters

-----------------------------------------------------------------------------
(* The list of a tab *)

\* The ways a list changes: a seq the tab does not list is put in front of it,
\* the answer of the initial load replaces it, or the page is loaded anew.
LEMMA ListMoves ==
    ASSUME TypeOK, WireInv, [Next]_vars, NEW t \in Tabs
    PROVE  \/ items'[t] = items[t] /\ lastSeen'[t] = lastSeen[t]
           \/ \E s \in Seqs : /\ ~Contains(items[t], s) /\ items'[t] = InFront(s, items[t])
                              /\ lastSeen'[t] = Larger(lastSeen[t], s) /\ s \in shown'[t]
           \/ \E k \in 0 .. MaxSeq, n \in 0 .. MaxSeq :
                 /\ n <= k /\ items'[t] = [i \in 1 .. n |-> k + 1 - i]
                 /\ lastSeen'[t] = k /\ (k > 0 => k \in shown'[t])
           \/ items'[t] = << >> /\ lastSeen'[t] = 0
<1>1. /\ items \in [Tabs -> Seq(Seqs)] /\ lastSeen \in [Tabs -> 0 .. MaxSeq]
      /\ shown \in [Tabs -> SUBSET Seqs] /\ down \in [Tabs -> Seq(Frames)]
      /\ fetch \in [Tabs -> NotAsked .. MaxSeq]
    BY DEF TypeOK
<1>2. ASSUME NEW u \in Tabs, u # t, OnNotification(u) \/ SetInitial(u) \/ Reload(u)
      PROVE  items'[t] = items[t] /\ lastSeen'[t] = lastSeen[t]
    BY <1>1, <1>2 DEF OnNotification, Receive, SetInitial, Reload
<1>3. ASSUME OnNotification(t)
      PROVE  \/ items'[t] = items[t] /\ lastSeen'[t] = lastSeen[t]
             \/ \E s \in Seqs : /\ ~Contains(items[t], s) /\ items'[t] = InFront(s, items[t])
                                /\ lastSeen'[t] = Larger(lastSeen[t], s) /\ s \in shown'[t]
    <2> DEFINE s == Head(down[t]).seq
    <2>1. down[t] # << >> /\ Head(down[t]).type = "notification" /\ Receive(t, s)
        BY <1>3 DEF OnNotification
    <2>2. Head(down[t]) = down[t][1] /\ 1 \in 1 .. Len(down[t]) /\ s \in 0 .. MaxSeq
        BY <1>1, <2>1, TailOfQueue, FrameFields
    <2>3. s \in Seqs
        BY <2>1, <2>2, Bounds DEF WireInv
    <2> HIDE DEF s
    <2>4. CASE Contains(items[t], s)
        BY <2>1, <2>4 DEF Receive
    <2>5. CASE ~Contains(items[t], s)
        BY <1>1, <2>1, <2>3, <2>5 DEF Receive
    <2> QED  BY <2>4, <2>5
<1>4. ASSUME SetInitial(t)
      PROVE  \E k \in 0 .. MaxSeq, n \in 0 .. MaxSeq :
                /\ n <= k /\ items'[t] = [i \in 1 .. n |-> k + 1 - i]
                /\ lastSeen'[t] = k /\ (k > 0 => k \in shown'[t])
    <2> DEFINE k == fetch[t]
               n == Smaller(k, ListLimit)
    <2>1. k \in 0 .. MaxSeq
        BY <1>1, <1>4, Bounds DEF SetInitial, NotAsked
    <2>2. n \in 0 .. MaxSeq /\ n <= k /\ (k > 0 => k \in k - n + 1 .. k)
        BY <2>1, Bounds DEF Smaller
    <2>3. /\ items'[t] = [i \in 1 .. n |-> k + 1 - i]
          /\ lastSeen'[t] = k /\ k - n + 1 .. k \subseteq shown'[t]
        BY <1>1, <1>4 DEF SetInitial
    <2> HIDE DEF k, n
    <2> QED  BY <2>1, <2>2, <2>3
<1>5. ASSUME Reload(t)  PROVE items'[t] = << >> /\ lastSeen'[t] = 0
    BY <1>1, <1>5 DEF Reload
<1> QED  BY <1>2, <1>3, <1>4, <1>5, ListWriters

LEMMA ListStep ==
    ASSUME TypeOK, WireInv, ListAgrees, [Next]_vars  PROVE ListAgrees'
<1>1. /\ items \in [Tabs -> Seq(Seqs)] /\ lastSeen \in [Tabs -> 0 .. MaxSeq]
    BY DEF TypeOK
<1>2. SUFFICES ASSUME NEW t \in Tabs
               PROVE  /\ IsInjective(items'[t])
                      /\ \A i \in DOMAIN items'[t] : items'[t][i] <= lastSeen'[t]
                      /\ lastSeen'[t] > 0 => lastSeen'[t] \in shown'[t]
    BY DEF ListAgrees, NoDuplicates, CursorCoversItems
<1>3. /\ IsInjective(items[t])
      /\ \A i \in DOMAIN items[t] : items[t][i] <= lastSeen[t]
      /\ lastSeen[t] > 0 => lastSeen[t] \in shown[t]
    BY DEF ListAgrees, NoDuplicates, CursorCoversItems
<1>4. shown[t] \subseteq shown'[t]
    BY ShownGrows
<1>5. CASE items'[t] = items[t] /\ lastSeen'[t] = lastSeen[t]
    BY <1>3, <1>4, <1>5
<1>6. ASSUME NEW s \in Seqs, ~Contains(items[t], s), items'[t] = InFront(s, items[t]),
             lastSeen'[t] = Larger(lastSeen[t], s), s \in shown'[t]
      PROVE  /\ IsInjective(items'[t])
             /\ \A i \in DOMAIN items'[t] : items'[t][i] <= lastSeen'[t]
             /\ lastSeen'[t] > 0 => lastSeen'[t] \in shown'[t]
    <2>1. IsInjective(items'[t])
        BY <1>1, <1>3, <1>6, PutInFront
    <2>2. lastSeen[t] <= lastSeen'[t] /\ s <= lastSeen'[t] /\ lastSeen'[t] \in {lastSeen[t], s}
        BY <1>1, <1>6, Bounds DEF Larger
    <2>3. ASSUME NEW i \in DOMAIN items'[t]  PROVE items'[t][i] <= lastSeen'[t]
        <3>1. \/ i = 1 /\ items'[t][i] = s
              \/ i # 1 /\ i - 1 \in DOMAIN items[t] /\ items'[t][i] = items[t][i - 1]
            <4>1. items[t] \in Seq(Seqs) /\ i \in DOMAIN InFront(s, items[t])
                BY <1>1, <1>6, <2>3
            <4>2. \/ i = 1 /\ InFront(s, items[t])[i] = s
                  \/ i # 1 /\ i - 1 \in DOMAIN items[t]
                           /\ InFront(s, items[t])[i] = items[t][i - 1]
                BY <4>1, PutInFront
            <4> QED  BY <1>6, <4>2
        <3>2. CASE items'[t][i] = s
            BY <2>2, <3>2
        <3>3. CASE i - 1 \in DOMAIN items[t] /\ items'[t][i] = items[t][i - 1]
            <4>1. items[t][i - 1] \in Seqs
                BY <1>1, <3>3, ElementOfSeq, LenProperties
            <4>2. lastSeen'[t] \in Int
                BY <1>1, <1>6, Bounds DEF Larger
            <4> QED  BY <1>1, <1>3, <2>2, <3>3, <4>1, <4>2, Bounds
        <3> QED  BY <3>1, <3>2, <3>3
    <2>4. lastSeen'[t] > 0 => lastSeen'[t] \in shown'[t]
        BY <1>3, <1>4, <1>6, <2>2
    <2> QED  BY <2>1, <2>3, <2>4
<1>7. ASSUME NEW k \in 0 .. MaxSeq, NEW n \in 0 .. MaxSeq, n <= k,
             items'[t] = [i \in 1 .. n |-> k + 1 - i],
             lastSeen'[t] = k, k > 0 => k \in shown'[t]
      PROVE  /\ IsInjective(items'[t])
             /\ \A i \in DOMAIN items'[t] : items'[t][i] <= lastSeen'[t]
             /\ lastSeen'[t] > 0 => lastSeen'[t] \in shown'[t]
    BY <1>7, Bounds DEF IsInjective
<1>8. CASE items'[t] = << >> /\ lastSeen'[t] = 0
    BY <1>8 DEF IsInjective
<1> QED  BY <1>5, <1>6, <1>7, <1>8, ListMoves

-----------------------------------------------------------------------------
(* The subscription and the handshake *)

LEMMA SubStep ==
    ASSUME TypeOK, SubInv, [Next]_vars  PROVE SubInv'
<1>1. conn \in [Tabs -> Phases] /\ early \subseteq Tabs
    BY DEF TypeOK
<1>2. CASE UNCHANGED <<sub, conn, welcomeSeq, early>>
    BY <1>2 DEF SubInv
<1>3. ASSUME NEW T, Gone(T)  PROVE SubInv'
    <2>1. ASSUME NEW t \in Tabs, conn'[t] \notin {"none", "upgraded"}
          PROVE  conn'[t] = conn[t] /\ sub' = sub /\ (t \in early => t \in early')
        <3>1. conn'[t] = (IF t \in T THEN "none" ELSE conn[t])
            BY <1>3, <2>1 DEF Gone
        <3>2. t \notin T /\ conn'[t] = conn[t]
            BY <2>1, <3>1
        <3>3. t \in Registered
            BY <2>1, <3>2 DEF Registered
        <3> QED  BY <1>3, <3>2, <3>3 DEF Gone
    <2> QED  BY <2>1 DEF SubInv
<1>4. ASSUME SendToUser \/ \E t \in Tabs : Disconnect(t) \/ Reload(t)  PROVE \E T : Gone(T)
    BY <1>4 DEF SendToUser, Disconnect, Reload
<1>5. CASE SubscribeDone
    BY <1>5 DEF SubscribeDone, SubInv
<1>6. CASE SubscribeFails
    <2>1. sub = "yes" => sub' = "yes"
        BY <1>6 DEF SubscribeFails
    <2>2. CASE sub' = "yes"
        BY <2>2 DEF SubInv
    <2>3. CASE sub' # "yes"
        <3>1. early' = early \cup Waiting
            BY <1>6, <2>3 DEF SubscribeFails, GoOn
        <3>2. \A t \in Tabs : conn'[t] = IF t \in Waiting THEN "registered" ELSE conn[t]
            BY <1>6 DEF SubscribeFails, GoOn
        <3> QED  BY <2>1, <2>3, <3>1, <3>2 DEF SubInv
    <2> QED  BY <2>2, <2>3
<1>7. CASE LoseDedicated
    BY <1>7 DEF LoseDedicated, SubInv, Registered, server
<1>8. ASSUME NEW t \in Tabs, Register(t)  PROVE SubInv'
    <2>1. CASE Registered = {}
        <3>1. conn' = [conn EXCEPT ![t] = "subscribing"]
            BY <1>8, <2>1 DEF Register
        <3>2. \A u \in Tabs : conn[u] \in {"none", "upgraded"}
            BY <2>1 DEF Registered
        <3> QED  BY <1>1, <3>1, <3>2 DEF SubInv
    <2>2. CASE Registered # {}
        <3>1. /\ conn' = [conn EXCEPT ![t] = "registered"] /\ sub' = sub
              /\ early' = IF sub = "yes" THEN early \ {t} ELSE early \cup {t}
            BY <1>8, <2>2 DEF Register
        <3> QED  BY <1>1, <3>1 DEF SubInv
    <2> QED  BY <2>1, <2>2
<1>9. ASSUME NEW t \in Tabs,
             ReadCurrentSeq(t) \/ ReadCurrentSeqFails(t) \/ SendWelcome(t) \/ Connect(t)
      PROVE  SubInv'
    <2>1. sub' = sub /\ early' = early
        BY <1>9 DEF ReadCurrentSeq, ReadCurrentSeqFails, StatementFails, SendWelcome, Connect,
            redis, notes
    <2>2. \/ conn[t] = "none" /\ conn' = [conn EXCEPT ![t] = "upgraded"]
          \/ conn[t] = "registered" /\ conn' = [conn EXCEPT ![t] = "seqRead"]
          \/ conn[t] = "seqRead" /\ conn' = [conn EXCEPT ![t] = "open"]
        BY <1>9 DEF ReadCurrentSeq, ReadCurrentSeqFails, SendWelcome, Connect
    <2> QED  BY <1>1, <2>1, <2>2 DEF SubInv
<1> QED  BY <1>2, <1>3, <1>4, <1>5, <1>6, <1>7, <1>8, <1>9, ServerWriters

\* What reaches a registered connection without being asked for goes on doing
\* so: from the publish to the channel, to the connection, to the tab.
LEMMA ReachesStays ==
    ASSUME TypeOK, WireInv, [Next]_vars, NEW t \in Tabs, t \in Registered,
           conn'[t] # "none", sub = "yes", sub' = "yes", NEW s, Reaches(t, s)
    PROVE  Reaches(t, s)'
<1>1. down \in [Tabs -> Seq(Frames)]
    BY DEF TypeOK
<1>2. SUFFICES \/ s \in failed' \/ s \in shown'[t] \/ s \in unpublished'
               \/ Contains(bus', s) \/ Contains(down'[t], Notification(s))
    BY DEF Reaches, Live
<1>3. CASE s \in failed
    BY <1>3, LogMoves
<1>4. CASE s \in shown[t]
    BY <1>4, ShownGrows
<1>5. CASE s \in unpublished
    BY <1>5, LogMoves
<1>6. CASE Contains(bus, s)
    BY <1>6, BusMoves
<1>7. CASE Contains(down[t], Notification(s))
    <2>1. CASE down'[t] = down[t]
        BY <1>7, <2>1
    <2>2. ASSUME NEW f \in Frames, down'[t] = Append(down[t], f)
          PROVE  Contains(down'[t], Notification(s))
        BY <1>1, <1>7, <2>2, AppendAtEnd
    <2>3. ASSUME down[t] # << >>, down'[t] = Tail(down[t]),
                 Head(down[t]).type = "notification" => Head(down[t]).seq \in shown'[t]
          PROVE  s \in shown'[t] \/ Contains(down'[t], Notification(s))
        <3>1. CASE Notification(s) = Head(down[t])
            BY <2>3, <3>1 DEF Notification
        <3>2. CASE Notification(s) # Head(down[t])
            BY <1>1, <1>7, <2>3, <3>2, TailOfQueue
        <3> QED  BY <3>1, <3>2
    <2> QED  BY <2>1, <2>2, <2>3, DownMoves
<1> QED  BY <1>3, <1>4, <1>5, <1>6, <1>7 DEF Reaches, Live

LEMMA HandshakeStep ==
    ASSUME TypeOK, WireInv, SubInv, HandshakeClosesWindow, [Next]_vars
    PROVE  HandshakeClosesWindow'
<1>1. /\ lastSeq \in Nat /\ conn \in [Tabs -> Phases] /\ early \subseteq Tabs
      /\ welcomeSeq \in [Tabs -> Unknown .. MaxSeq]
    BY Bounds DEF TypeOK
<1>2. SUFFICES ASSUME NEW t \in Tabs, t \notin early', conn'[t] \in {"seqRead", "open"},
                      welcomeSeq'[t] # Unknown, NEW s \in welcomeSeq'[t] + 1 .. lastSeq'
               PROVE  Reaches(t, s)'
    BY DEF HandshakeClosesWindow, Reaches
<1>3. CASE conn[t] \notin {"seqRead", "open"}
    <2>1. lastSeq' = lastSeq /\ welcomeSeq'[t] = lastSeq
        BY <1>2, <1>3, ConnMoves
    <2> QED  BY <1>1, <1>2, <2>1
<1>4. CASE conn[t] \in {"seqRead", "open"}
    <2>1. welcomeSeq'[t] = welcomeSeq[t] /\ t \notin early
        BY <1>2, <1>4, ConnMoves
    <2>2. sub = "yes" /\ sub' = "yes"
        BY <1>2, <1>4, <2>1, ConnMoves DEF SubInv, Registered
    <2>3. t \in Registered
        BY <1>4 DEF Registered
    <2>4. CASE s \in welcomeSeq[t] + 1 .. lastSeq
        <3>1. Reaches(t, s)
            BY <1>2, <1>4, <2>1, <2>4 DEF HandshakeClosesWindow, Reaches
        <3> QED  BY <1>2, <2>2, <2>3, <3>1, ReachesStays
    <2>5. CASE s \notin welcomeSeq[t] + 1 .. lastSeq
        <3>1. welcomeSeq[t] \in Int
            BY <1>1, Bounds DEF Unknown
        <3>2. s = lastSeq' /\ s \in unpublished'
            BY <1>1, <1>2, <2>1, <2>5, <3>1, LogMoves
        <3> QED  BY <3>2 DEF Reaches, Live
    <2> QED  BY <2>4, <2>5
<1> QED  BY <1>3, <1>4

-----------------------------------------------------------------------------
(* A whole connection *)

\* Only onopen makes a connection whole, and its end takes that away.
LEMMA WholeMoves ==
    ASSUME TypeOK, [Next]_vars, NEW t \in Tabs, whole'[t]
    PROVE  /\ whole[t] \/ OnOpen(t)
           /\ conn[t] # "none" => conn'[t] # "none"
<1>1. whole \in [Tabs -> BOOLEAN] /\ conn \in [Tabs -> Phases]
    BY DEF TypeOK
<1>2. ASSUME NEW u \in Tabs,
             HandleResume(u) \/ ReadMissed(u) \/ ReadMissedFails(u) \/ Replay(u)
      PROVE  whole[t]
    <2>1. \E b \in BOOLEAN : whole' = [whole EXCEPT ![u] = b] /\ (b => whole[u])
        BY <1>1, <1>2 DEF HandleResume, AckCovers, ReadMissed, ReadMissedFails, Replay
    <2> QED  BY <1>1, <2>1
<1>3. ASSUME NEW u \in Tabs, u # t, OnOpen(u)  PROVE whole[t]
    BY <1>1, <1>3 DEF OnOpen
<1>4. ASSUME NEW T, Gone(T)  PROVE whole[t] /\ (conn[t] # "none" => conn'[t] # "none")
    <2>1. whole[t] /\ t \notin T
        BY <1>4 DEF Gone
    <2> QED  BY <1>4, <2>1 DEF Gone
<1>5. ASSUME SendToUser \/ \E u \in Tabs : Disconnect(u) \/ Reload(u)  PROVE \E T : Gone(T)
    BY <1>5 DEF SendToUser, Disconnect, Reload
<1>6. ~LoseDedicated
    BY DEF LoseDedicated
<1>7. whole[t] \/ OnOpen(t)
    BY <1>2, <1>3, <1>4, <1>5, <1>6, WholeWriters
<1>8. ASSUME SubscribeDone \/ SubscribeFails  PROVE conn[t] # "none" => conn'[t] # "none"
    BY <1>1, <1>8 DEF SubscribeDone, SubscribeFails, GoOn
<1>9. ASSUME NEW u \in Tabs,
             \/ Register(u) \/ ReadCurrentSeq(u) \/ ReadCurrentSeqFails(u)
             \/ SendWelcome(u) \/ Connect(u)
      PROVE  conn[t] # "none" => conn'[t] # "none"
    BY <1>1, <1>9 DEF Register, ReadCurrentSeq, ReadCurrentSeqFails, SendWelcome, Connect
<1>10. conn[t] # "none" => conn'[t] # "none"
    BY <1>4, <1>5, <1>6, <1>8, <1>9, ServerWriters
<1> QED  BY <1>7, <1>10

\* The resume of onopen asks for everything the tab has not rendered.
LEMMA OnOpenAsks ==
    ASSUME TypeOK, [Next]_vars, NEW t \in Tabs, OnOpen(t), whole'[t]
    PROVE  conn'[t] # "none" /\ Asking(t)'
<1>1. /\ whole \in [Tabs -> BOOLEAN] /\ up \in [Tabs -> Seq(Frames)]
      /\ lastSeen \in [Tabs -> 0 .. MaxSeq]
    BY DEF TypeOK
<1>2. /\ lastSeen[t] > 0 /\ 1 .. lastSeen[t] \subseteq Has(t)
      /\ up'[t] = << Resume(lastSeen[t]) >> /\ conn'[t] # "none"
    BY <1>1 DEF OnOpen, server
<1>3. Resume(lastSeen[t]).type = "resume" /\ Resume(lastSeen[t]).seq = lastSeen[t]
    BY <1>1, FrameFields
<1>4. Has(t) \subseteq Has(t)'
    BY ShownGrows
<1> QED  BY <1>2, <1>3, <1>4 DEF Asking

\* A resume that waits goes on waiting, or its handler starts behind nothing
\* the tab has not rendered.
LEMMA AskingMoves ==
    ASSUME TypeOK, [Next]_vars, NEW t \in Tabs, Asking(t), conn'[t] # "none", whole'[t]
    PROVE  Asking(t)' \/ LookedUp(t)'
<1>1. /\ up \in [Tabs -> Seq(Frames)] /\ handler \in [Tabs -> Handlers]
      /\ acked \in 0 .. MaxSeq /\ whole \in [Tabs -> BOOLEAN]
    BY DEF TypeOK
<1>2. up[t] # << >> /\ up[t][1].type = "resume" /\ 1 .. up[t][1].seq \subseteq Has(t)
    BY DEF Asking
<1>3. Has(t) \subseteq Has(t)'
    BY ShownGrows
<1>4. CASE up'[t] = up[t]
    BY <1>2, <1>3, <1>4 DEF Asking
<1>5. CASE OnOpen(t)
    BY <1>5, OnOpenAsks
<1>6. ASSUME NEW f \in Frames, up'[t] = Append(up[t], f)  PROVE Asking(t)'
    <2>1. 1 \in 1 .. Len(up[t])
        BY <1>1, <1>2, TailOfQueue
    <2>2. up'[t] # << >> /\ up'[t][1] = up[t][1]
        BY <1>1, <1>6, <2>1, AppendAtEnd
    <2> QED  BY <1>2, <1>3, <2>2 DEF Asking
<1>7. ASSUME HandleResume(t) \/ ResumeUnconfirmed(t)  PROVE LookedUp(t)'
    <2> DEFINE s == Head(up[t]).seq
    <2>1. s = up[t][1].seq /\ s \in 0 .. MaxSeq
        BY <1>1, <1>2, TailOfQueue, FrameFields
    <2>2. 1 .. s \subseteq Has(t)
        BY <1>2, <2>1
    <2>3. CASE HandleResume(t)
        <3>1. /\ handler'[t] = [step |-> "since", next |-> Larger(s, acked) + 1, last |-> 0]
              /\ s + 1 .. acked \subseteq Has(t)
            BY <1>1, <2>3 DEF HandleResume, AckCovers
        <3> HIDE DEF s
        <3>2. handler'[t].step = "since" /\ handler'[t].next = Larger(s, acked) + 1
            BY <3>1
        <3>3. \A r \in 1 .. handler'[t].next - 1 : r \in 1 .. s \/ r \in s + 1 .. acked
            BY <1>1, <2>1, <3>2, Bounds DEF Larger
        <3> QED  BY <1>3, <2>2, <3>1, <3>2, <3>3 DEF LookedUp
    <2>4. CASE ResumeUnconfirmed(t)
        <3>1. handler'[t] = [step |-> "since", next |-> s + 1, last |-> 0]
            BY <1>1, <2>4 DEF ResumeUnconfirmed
        <3> HIDE DEF s
        <3>2. handler'[t].step = "since" /\ handler'[t].next - 1 = s
            BY <2>1, <3>1
        <3> QED  BY <1>3, <2>2, <3>2 DEF LookedUp
    <2> QED  BY <1>7, <2>3, <2>4
<1>8. up[t] # << >> => Head(up[t]).type = "resume"
    BY <1>1, <1>2, TailOfQueue
<1> QED  BY <1>4, <1>5, <1>6, <1>7, <1>8, UpMoves

\* The page that is read covers everything the tab has not rendered.
LEMMA LookedUpMoves ==
    ASSUME TypeOK, WireInv, SubInv, [Next]_vars, NEW t \in Tabs, LookedUp(t),
           conn'[t] # "none", whole'[t]
    PROVE  LookedUp(t)' \/ Answered(t)'
<1>1. /\ lastSeq \in 0 .. MaxSeq /\ handler \in [Tabs -> Handlers]
      /\ whole \in [Tabs -> BOOLEAN] /\ shown \in [Tabs -> SUBSET Seqs]
    BY DEF TypeOK
<1>2. handler[t].step = "since" /\ 1 .. handler[t].next - 1 \subseteq Has(t)
    BY DEF LookedUp
<1>3. Has(t) \subseteq Has(t)'
    BY ShownGrows
<1>4. CASE handler'[t] = handler[t]
    BY <1>2, <1>3, <1>4 DEF LookedUp
<1>5. ASSUME HandleResume(t) \/ ResumeUnconfirmed(t)  PROVE FALSE
    BY <1>2, <1>5, HandlerFields DEF HandleResume, ResumeUnconfirmed, Inbound
<1>6. ASSUME Replay(t)  PROVE FALSE
    BY <1>2, <1>6 DEF Replay
<1>7. ASSUME ReadMissedFails(t)  PROVE FALSE
    BY <1>1, <1>7 DEF ReadMissedFails
<1>8. ASSUME ReadMissed(t)  PROVE Answered(t)'
    <2> DEFINE first == handler[t].next
               last == Smaller(first - 1 + ReplayLimit, lastSeq)
    <2>1. /\ handler'[t] = IF first > last THEN Idle
                           ELSE [step |-> "replay", next |-> first, last |-> last]
          /\ last >= lastSeq /\ (t \in early => sub = "yes")
          /\ conn' = conn /\ sub' = sub /\ lastSeq' = lastSeq
        BY <1>1, <1>8 DEF ReadMissed, db, redis
    <2>2. conn[t] = "open"
        BY <1>2, HandlerFields DEF WireInv
    <2>3. sub = "yes"
        BY <2>1, <2>2 DEF SubInv
    <2>4. first \in Nat /\ last \in Int /\ last = lastSeq
        BY <1>1, <2>1, HandlerFields, Bounds DEF Smaller
    <2>5. ASSUME NEW s \in 1 .. lastSeq
          PROVE  \/ s \in Has(t)'
                 \/ handler'[t].step = "replay" /\ s \in handler'[t].next .. handler'[t].last
        <3>1. CASE s < first
            <4>1. s \in 1 .. first - 1
                BY <1>1, <2>4, <3>1
            <4> QED  BY <1>2, <1>3, <4>1
        <3>2. CASE s >= first
            <4> HIDE DEF first, last
            <4>1. ~(first > last) /\ s \in first .. last
                BY <1>1, <2>4, <3>2
            <4>2. handler'[t] = [step |-> "replay", next |-> first, last |-> last]
                BY <2>1, <4>1
            <4> QED  BY <4>1, <4>2
        <3> QED  BY <1>1, <2>4, <3>1, <3>2
    <2> QED  BY <2>1, <2>2, <2>3, <2>5 DEF Answered
<1> QED  BY <1>4, <1>5, <1>6, <1>7, <1>8, HandlerMoves

\* From then on every seq reaches the tab, those of the page when their turn
\* has come.
LEMMA AnsweredMoves ==
    ASSUME TypeOK, WireInv, [Next]_vars, NEW t \in Tabs, Answered(t),
           conn'[t] # "none", whole'[t]
    PROVE  Answered(t)'
<1>1. /\ lastSeq \in 0 .. MaxSeq /\ handler \in [Tabs -> Handlers]
      /\ whole \in [Tabs -> BOOLEAN] /\ down \in [Tabs -> Seq(Frames)]
    BY DEF TypeOK
<1>2. conn[t] = "open" /\ sub = "yes" /\ t \in Registered
    BY DEF Answered, Registered
<1>3. conn'[t] = "open" /\ sub' = "yes"
    BY <1>2, ConnMoves
<1>4. /\ \A s : Reaches(t, s) => Reaches(t, s)'
      /\ Has(t) \subseteq Has(t)'
    BY <1>2, <1>3, ReachesStays, ShownGrows
<1>5. ASSUME NEW s \in 1 .. lastSeq, handler[t].step = "replay",
             s \in handler[t].next .. handler[t].last
      PROVE  \/ Reaches(t, s)'
             \/ handler'[t].step = "replay" /\ s \in handler'[t].next .. handler'[t].last
    <2>1. CASE handler'[t] = handler[t]
        BY <1>5, <2>1
    <2>2. ASSUME HandleResume(t) \/ ResumeUnconfirmed(t)  PROVE FALSE
        BY <1>5, <2>2, HandlerFields DEF HandleResume, ResumeUnconfirmed, Inbound
    <2>3. ASSUME ReadMissed(t) \/ ReadMissedFails(t)  PROVE FALSE
        BY <1>5, <2>3 DEF ReadMissed, ReadMissedFails
    <2>4. CASE Replay(t)
        <3> DEFINE h == handler[t]
        <3>1. /\ Send(t, Notification(h.next)) /\ ~Full(t)
              /\ handler'[t] = IF h.next = h.last THEN Idle ELSE [h EXCEPT !.next = h.next + 1]
            BY <1>1, <2>4 DEF Replay
        <3>2. h \in Handlers /\ h.next \in Nat /\ h.last \in Nat /\ h.next \in 0 .. MaxSeq
            BY <1>1, <1>5, HandlerFields, Bounds DEF WireInv
        <3>3. CASE s = h.next
            <4>1. down'[t] = Append(down[t], Notification(s))
                BY <1>1, <3>1, <3>3 DEF Send
            <4>2. Notification(s) \in Frames
                BY <3>2, <3>3, FrameFields
            <4>3. Contains(down'[t], Notification(s))
                BY <1>1, <4>1, <4>2, AppendAtEnd
            <4> QED  BY <4>3 DEF Reaches, Live
        <3>4. CASE s # h.next
            <4>1. s \in h.next + 1 .. h.last /\ h.next # h.last /\ h.next + 1 \in 0 .. MaxSeq + 1
                BY <1>5, <3>2, <3>4, Bounds
            <4>2. handler'[t] = [h EXCEPT !.next = h.next + 1]
                BY <3>1, <4>1
            <4>3. /\ handler'[t].next = h.next + 1 /\ handler'[t].last = h.last
                  /\ handler'[t].step = "replay"
                BY <1>5, <3>2, <4>1, <4>2, HandlerFields
            <4> QED  BY <4>1, <4>3
        <3> QED  BY <3>3, <3>4
    <2> QED  BY <1>3, <2>1, <2>2, <2>3, <2>4, HandlerMoves
<1>6. ASSUME NEW s \in 1 .. lastSeq', s \notin 1 .. lastSeq  PROVE Reaches(t, s)'
    <2>1. s \in unpublished'
        BY <1>1, <1>6, LogMoves
    <2> QED  BY <2>1 DEF Reaches, Live
<1>7. ASSUME NEW s \in 1 .. lastSeq'
      PROVE  \/ s \in Has(t)' \/ Reaches(t, s)'
             \/ handler'[t].step = "replay" /\ s \in handler'[t].next .. handler'[t].last
    <2>1. CASE s \in 1 .. lastSeq
        <3>1. \/ s \in Has(t) \/ Reaches(t, s)
              \/ handler[t].step = "replay" /\ s \in handler[t].next .. handler[t].last
            BY <2>1 DEF Answered
        <3>2. CASE s \in Has(t) \/ Reaches(t, s)
            BY <1>4, <3>2
        <3>3. CASE handler[t].step = "replay" /\ s \in handler[t].next .. handler[t].last
            BY <1>5, <2>1, <3>3
        <3> QED  BY <3>1, <3>2, <3>3
    <2>2. CASE s \notin 1 .. lastSeq
        BY <1>6, <1>7, <2>2
    <2> QED  BY <2>1, <2>2
<1> QED  BY <1>3, <1>7 DEF Answered

LEMMA WholeStep ==
    ASSUME TypeOK, WireInv, SubInv, WholeInv, [Next]_vars  PROVE WholeInv'
<1>1. SUFFICES ASSUME NEW t \in Tabs, whole'[t]
               PROVE  conn'[t] # "none" /\ (Asking(t)' \/ LookedUp(t)' \/ Answered(t)')
    BY DEF WholeInv
<1>2. CASE OnOpen(t)
    BY <1>1, <1>2, OnOpenAsks
<1>3. CASE ~OnOpen(t)
    <2>1. whole[t] /\ (conn[t] # "none" => conn'[t] # "none")
        BY <1>1, <1>3, WholeMoves
    <2>2. conn[t] # "none" /\ (Asking(t) \/ LookedUp(t) \/ Answered(t))
        BY <2>1 DEF WholeInv
    <2> QED  BY <1>1, <2>1, <2>2, AskingMoves, LookedUpMoves, AnsweredMoves
<1> QED  BY <1>2, <1>3

-----------------------------------------------------------------------------
(* The theorems *)

\* Nobody is connected and nothing is sent when the system starts.
LEMMA InitIInv ==
    ASSUME Init  PROVE IInv
<1>1. TypeOK
    <2>1. << >> \in Seq(Frames) /\ << >> \in Seq(Seqs) /\ Len(<< >>) = 0
        BY EmptySeq
    <2> QED  BY <2>1, IdleIsHandler, Bounds DEF Init, TypeOK, Phases, Unknown, Asked, NotAsked
<1>2. WireInv /\ AckInv /\ AckedWasShown
    BY HandlerFields DEF Init, WireInv, AckInv, AckedWasShown
<1>3. ListAgrees
    BY DEF Init, ListAgrees, NoDuplicates, CursorCoversItems, IsInjective
<1>4. SubInv /\ HandshakeClosesWindow /\ WholeInv
    BY DEF Init, SubInv, HandshakeClosesWindow, WholeInv
<1> QED  BY <1>1, <1>2, <1>3, <1>4 DEF IInv

LEMMA NextIInv ==
    ASSUME IInv, [Next]_vars  PROVE IInv'
BY TypeStep, WireStep, AckStep, AckedStep, ListStep, SubStep, HandshakeStep, WholeStep DEF IInv

THEOREM Invariance == Spec => []IInv
BY InitIInv, NextIInv, PTL DEF Spec

\* Buffers, counters and phases stay within what the code declares.
THEOREM TypeCorrect == Spec => []TypeOK
<1>1. IInv => TypeOK
    BY DEF IInv
<1> QED  BY <1>1, Invariance, PTL

\* A notification that is committed after the welcome of a connection was read
\* reaches that connection live, unless its publish failed.
THEOREM HandshakeLosesNothing == Spec => []HandshakeClosesWindow
<1>1. IInv => HandshakeClosesWindow
    BY DEF IInv
<1> QED  BY <1>1, Invariance, PTL

\* A tab that reconnects without a gap has none while the connection lives.
THEOREM NoGapWhileConnected == Spec => []NothingLostWhileConnected
<1>1. ASSUME IInv  PROVE NothingLostWhileConnected
    <2>1. /\ up \in [Tabs -> Seq(Frames)] /\ handler \in [Tabs -> Handlers]
          /\ lastSeq \in 0 .. MaxSeq /\ past \in [Tabs -> 0 .. MaxSeq]
        BY <1>1 DEF IInv, TypeOK
    <2>2. SUFFICES ASSUME NEW t \in Tabs, conn[t] # "none", whole[t], NEW s \in past[t] + 1 .. lastSeq
                   PROVE  Reaches(t, s) \/ Requested(t, s)
        BY DEF NothingLostWhileConnected, Reaches
    <2>6. s \in 1 .. lastSeq /\ (s \in Has(t) => Reaches(t, s))
        BY <2>1, <2>2, Bounds DEF Has, Reaches
    <2>3. CASE Asking(t)
        <3>1. 1 \in DOMAIN up[t] /\ up[t][1].seq \in 0 .. MaxSeq
            <4>1. 1 \in 1 .. Len(up[t]) /\ up[t][1] \in Frames
                BY <2>1, <2>3, TailOfQueue DEF Asking
            <4> QED  BY <2>1, <4>1, LenProperties, FrameFields
        <3>2. s \in 1 .. up[t][1].seq \/ up[t][1].seq < s
            BY <2>1, <2>6, <3>1, Bounds
        <3> QED  BY <2>3, <2>6, <3>1, <3>2 DEF Asking, Requested
    <2>4. CASE LookedUp(t)
        <3>1. handler[t].next \in Nat
            BY <2>1, HandlerFields, Bounds
        <3>2. s \in 1 .. handler[t].next - 1 \/ handler[t].next <= s
            BY <2>1, <2>6, <3>1
        <3> QED  BY <2>4, <2>6, <3>2 DEF LookedUp, Requested
    <2>5. CASE Answered(t)
        BY <2>5, <2>6 DEF Answered, Requested
    <2> QED  BY <1>1, <2>2, <2>3, <2>4, <2>5 DEF IInv, WholeInv
<1> QED  BY <1>1, Invariance, PTL

\* The resume cursor in the database is a seq that some tab has rendered.
THEOREM CursorWasRendered == Spec => []AckedWasShown
<1>1. IInv => AckedWasShown
    BY DEF IInv
<1> QED  BY <1>1, Invariance, PTL

\* The list of a tab is free of duplicates and agrees with its cursor.
THEOREM ListAndCursorAgree == Spec => []ListAgrees
<1>1. IInv => ListAgrees
    BY DEF IInv
<1> QED  BY <1>1, Invariance, PTL
=================================================================================
